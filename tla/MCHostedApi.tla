---------------------------- MODULE MCHostedApi ----------------------------
(* HostedApi for TLC: callers, keys, payments and environments. *)
EXTENDS HostedApi, TLC

CONSTANTS r1, r2, r3, pay1

MCRequests == {r1, r2, r3}
Symmetry == Permutations(MCRequests)

Entry(key, scoped, tokens) == [key |-> key, scoped |-> scoped, tokens |-> tokens]

\* Three keys: k1 with the read bundle, k2 for checks only (and a token that is
\* no scope), k3 for the relay; the entry of k2 replaces an earlier one.
Keys == <<Entry("k1", FALSE, {}), Entry("k2", FALSE, {}), Entry("k2", TRUE, {"guardian:check", "admin"}),
          Entry("k3", TRUE, {"broadcast:signed"})>>

Env(require, store, write) ==
    [keys |-> Keys, requireKey |-> require, redis |-> store, writeToolsEnabled |-> write,
     payTo |-> TRUE, facilitator |-> TRUE, quotaEnabled |-> TRUE, activityEnabled |-> TRUE]

P(server, ip, key, path, pay) ==
    [server |-> server, ip |-> ip, key |-> key, path |-> path, pay |-> pay, via |-> "x-payment"]

Free1 == Env(FALSE, "none", TRUE)       \* keys, none required
Keyed == Env(TRUE, "none", FALSE)       \* keys required, no write tools
Shut  == [Env(FALSE, "none", FALSE) EXCEPT !.keys = <<>>, !.requireKey = TRUE, !.facilitator = FALSE]
Redis == Env(FALSE, "optional", FALSE)
Strict == [Env(FALSE, "required", FALSE) EXCEPT !.quotaEnabled = FALSE]
Disk  == [Redis EXCEPT !.redis = "none", !.activityEnabled = FALSE]

PaidTraffic ==
    {P("api", "ip1", None, "/paid/risk-report", pay1), P("api", "ip1", None, "/paid/swap-route", pay1),
     [P("api", "ip1", None, "/paid/swap-route", pay1) EXCEPT !.via = "other"],
     P("x402", "ip1", None, "/paid/token-price", pay1)}

MCTraffic ==
    Free1 :> {P("api", "ip1", None, "/agent/check", None), P("api", "ip1", "bad", "/agent/check", None),
              P("api", "ip1", "k1", "/analyze/tx", None), P("api", "ip1", "k1", "/tools/write", None),
              P("api", "ip1", None, "/broadcast/signed", None), P("api", "ip1", "k1", "/broadcast/signed", None),
              P("api", "ip1", None, "/nowhere", None)}
 @@ Keyed :> {P("api", "ip1", "k2", "/infra/status", None), P("api", "ip1", "k2", "/analyze/tx", None),
              P("api", "ip1", "k1", "/broadcast/signed", None), P("api", "ip1", "k3", "/broadcast/signed", None),
              P("api", "ip1", None, "/guardian/check", None),
              P("api", "ip1", "k2", "/tools/write", None), P("api", "ip1", None, "/health", None)}
 @@ Shut  :> {P("api", "ip1", "k1", "/tools/write", None), P("api", "ip1", None, "/tools/write", None),
              P("api", "ip1", None, "/tools/unknown", None), P("api", "ip1", None, "/paid/token-price", pay1)}
 @@ Redis :> PaidTraffic
 @@ Strict :> PaidTraffic \cup {P("api", "ip1", None, "/paid/risk-report", "junk"),
                               P("api", "ip1", None, "/paid/risk-report", None)}
 @@ Disk  :> PaidTraffic

MCEnvironments == DOMAIN MCTraffic
\* Three requests overrun a quota of one in two windows; two meet in a store.
MCMaxRequests == [e \in MCEnvironments |-> IF e = Free1 THEN 3 ELSE 2]

MCProfiles == UNION {MCTraffic[e] : e \in MCEnvironments}

MCQuotaMax == [t \in Tiers \cup {"x402"} |-> IF t = "agent" THEN 1 ELSE 3]
============================================================================
