----------------------------- MODULE ApiAccess -----------------------------
(***************************************************************************)
(* Who asks, what a key may reach and what the hosted API's environment    *)
(* settles before the first request: pure definitions, without state.      *)
(* A key stands for its hash and its id (the first eight hex digits).      *)
(***************************************************************************)
EXTENDS Naturals, Sequences, FiniteSets

None == "none"

-----------------------------------------------------------------------------
(* Scopes and keys                                                         *)

DefaultReadScopes ==
    {"guardian:check", "agent:check", "a2a:check", "analyze:read",
     "activity:read", "metrics:read", "prepare:tx", "wallet:prepare"}

AllScopes == DefaultReadScopes \cup {"broadcast:signed", "future:attest", "future:premium"}

\* Tool calls and /attestation, /reputation, /registry, /analyze/calldata have
\* no entry: they need no scope.
ScopeForPath(path) ==
    CASE path = "/guardian/check"   -> "guardian:check"
      [] path = "/prepare/tx"       -> "prepare:tx"
      [] path = "/wallet/prepare"   -> "wallet:prepare"
      [] path = "/broadcast/signed" -> "broadcast:signed"
      [] path = "/agent/check"      -> "agent:check"
      [] path = "/agent/a2a/check"  -> "a2a:check"
      [] path \in {"/analyze/tx", "/analyze/contract", "/analyze/approval",
                   "/analyze/safe", "/analyze/x402"} -> "analyze:read"
      [] path \in {"/activity/summary", "/activity/recent"} -> "activity:read"
      [] path \in {"/metrics/public", "/infra/status", "/public-config"} -> "metrics:read"
      [] OTHER -> None

PaidPaths ==
    {"/paid/assess-risk", "/paid/check-token-security", "/paid/simulate-transaction",
     "/paid/token-price", "/paid/pool-info", "/paid/swap-route", "/paid/risk-report"}

AlwaysOpenPaths ==
    {"/health", "/demo", "/infra/status", "/public-config", "/activity/summary",
     "/activity/recent", "/metrics/public"} \cup PaidPaths

\* An unknown token of a scope list grants nothing.
ParseScopes(tokens) == tokens \cap AllScopes

\* SAFEHANDS_API_KEYS: entries are [key, scoped, tokens]; a later entry of a
\* key replaces the earlier one, an entry without '#' gets the read bundle.
GrantedScopes(entries, key) ==
    LET last == CHOOSE i \in DOMAIN entries :
                    /\ entries[i].key = key
                    /\ \A j \in DOMAIN entries : entries[j].key = key => j <= i
    IN IF entries[last].scoped THEN ParseScopes(entries[last].tokens) ELSE DefaultReadScopes

ApiKeys(entries) == {entries[i].key : i \in DOMAIN entries} \ {None}

KeyRequired(env) == env.requireKey /\ ApiKeys(env.keys) # {}

Resolve(env, key) ==
    CASE key = None              -> [status |-> "anonymous", keyId |-> None, scopes |-> {}]
      [] key \in ApiKeys(env.keys) -> [status |-> "valid", keyId |-> key,
                                     scopes |-> GrantedScopes(env.keys, key)]
      [] OTHER                   -> [status |-> "invalid", keyId |-> None, scopes |-> {}]

-----------------------------------------------------------------------------
(* The decision on a path and the tier that counts it                      *)

\* Mutant: the scope is looked up before the open paths, so a key is asked for
\* a scope where anybody without a key passes.
EvaluateAccessScopeFirst(env, path, who) ==
    IF path = "/health" THEN "allow"
    ELSE IF who.status = "invalid" THEN "INVALID_API_KEY"
    ELSE IF KeyRequired(env) /\ who.status = "valid"
            /\ ScopeForPath(path) \notin who.scopes \cup {None} THEN "INSUFFICIENT_SCOPE"
    ELSE IF path \in AlwaysOpenPaths THEN "allow"
    ELSE IF KeyRequired(env) /\ who.status # "valid" THEN "API_KEY_REQUIRED"
    ELSE "allow"

EvaluateAccess(env, path, who) ==
    CASE path = "/health"             -> "allow"
      [] path # "/health" /\ who.status = "invalid" -> "INVALID_API_KEY"
      [] path # "/health" /\ who.status # "invalid" /\ path \in AlwaysOpenPaths -> "allow"
      [] OTHER ->
           IF ~KeyRequired(env) THEN "allow"
           ELSE IF who.status # "valid" THEN "API_KEY_REQUIRED"
           ELSE IF ScopeForPath(path) \notin who.scopes \cup {None} THEN "INSUFFICIENT_SCOPE"
           ELSE "allow"

Tiers == {"anonymous", "api-key", "agent", "a2a"}

\* The endpoint decides before the key does.
TierFor(path, who) ==
    CASE path = "/agent/a2a/check" -> "a2a"
      [] path = "/agent/check"     -> "agent"
      [] OTHER                     -> IF who.status = "valid" THEN "api-key" ELSE "anonymous"

\* How the activity feed names the caller of an endpoint.
CallerTypeForEndpoint(path) ==
    CASE path = "/agent/a2a/check" -> "a2a"
      [] path = "/agent/check"     -> "agent"
      [] path \in {"/guardian/check", "/prepare/tx", "/wallet/prepare", "/broadcast/signed",
                   "/analyze/tx", "/analyze/contract", "/analyze/approval",
                   "/analyze/safe", "/analyze/calldata", "/analyze/x402"} -> "api"
      [] OTHER                     -> "unknown"

-----------------------------------------------------------------------------
(* Routes                                                                  *)

\* The endpoints whose handler records an activity item.
DecisionPaths ==
    {"/guardian/check", "/analyze/tx", "/analyze/contract", "/analyze/approval",
     "/analyze/safe", "/analyze/calldata", "/analyze/x402", "/agent/check",
     "/agent/a2a/check", "/prepare/tx", "/wallet/prepare", "/broadcast/signed"}

QueryPaths ==
    {"/health", "/infra/status", "/public-config", "/attestation", "/goldsky/status",
     "/registry/latest", "/reputation", "/activity/summary", "/activity/recent",
     "/metrics/public", "/tools", "/demo"}

\* /tools/:toolName, by what the named tool is.
ToolPaths == {"/tools/read", "/tools/write", "/tools/unknown"}

IsWriteTool(path) == path = "/tools/write"

\* invokeHostedTool's answer before the handler is called, "run" otherwise.
ToolGateway(env, path) ==
    CASE path = "/tools/unknown"                      -> "UNKNOWN_TOOL"
      [] IsWriteTool(path) /\ ~env.writeToolsEnabled  -> "WRITE_TOOLS_DISABLED"
      [] OTHER                                        -> "run"

\* What status a paid handler may answer with. Most handlers report their own
\* failures in a body with status 200; only a failed report and an input that
\* is refused become a 4xx, a missing liquidity source a 503.
PaidAnswers(path) == {200, 400} \cup (IF path = "/paid/swap-route" THEN {503} ELSE {})

\* The standalone x402 server has no risk report.
X402Answers(path) == IF path = "/paid/risk-report" THEN {} ELSE PaidAnswers(path)
============================================================================
