----------------------------- MODULE HostedApi -----------------------------
(***************************************************************************)
(* The hosted API and the standalone x402 server: what a request passes    *)
(* on its way to a handler (key, quota, access, payment), the store that   *)
(* remembers payment authorizations, and the activity feed.                *)
(*                                                                         *)
(* Each server is one process: an action is what it does between two       *)
(* awaits.  The two servers share the replay stores (Redis and a file),    *)
(* and nothing else.  The payment middleware, the facilitator, Redis and   *)
(* the chain are external.                                                 *)
(***************************************************************************)
EXTENDS ApiAccess, SequencesExt

CONSTANTS
    Requests,       \* identities of the requests, each made once
    Profiles,       \* what a request may be: [server, ip, key, path, pay, via]
    Payments,       \* payment authorizations, as the header brings them
    Environments,   \* what the operator may have configured
    Traffic,        \* per environment, the profiles that are sent to it
    QuotaMax,       \* [tier -> requests per window], and for "x402"
    QuotaWindow, ReplayWindow,
    Capacity,       \* of the activity ring
    MaxRequests,    \* bound: per environment, how many requests are made
    MaxTime,        \* bound: ticks of the clock
    MaxRestarts     \* bound: restarts of the API

ASSUME ApiAssumption ==
    /\ Traffic \in [Environments -> SUBSET Profiles]
    /\ MaxRequests \in [Environments -> Nat]
    /\ QuotaMax \in [Tiers \cup {"x402"} -> Nat \ {0}]
    /\ {QuotaWindow, ReplayWindow, Capacity} \subseteq Nat \ {0}
    /\ {MaxTime, MaxRestarts} \subseteq Nat
    /\ {None, "junk"} \cap Payments = {}

VARIABLES
    env,        \* the environment, never changed
    now,
    req,        \* the requests: profile, phase, and what they were answered
    bucket,     \* the quota: count and end of window, per server, tier and caller
    redis,      \* per authorization, when its entry expires; 0 if there is none
    file,       \* per authorization, when it was recorded; NotSeen if it was not
    copy,       \* per server, the file as a check has read it
    settled,    \* the requests whose settlement has moved money on the chain
    unheard,    \* those whose settlement is sent and whose result no server awaits
    ring,       \* the activity store
    log,        \* everything recorded since the API started (history)
    checked,    \* what the stores said: accepted, refused, or recorded unknown
                \* to the server (history)
    admitted,   \* the requests within quota, since the start (history)
    overlapped, \* one server has written the file over another's check (history)
    restarts

vars == <<env, now, req, bucket, redis, file, copy, settled, unheard, ring, log,
          checked, admitted, overlapped, restarts>>

storeVars == <<redis, file, copy, overlapped, checked>>
chargeVars == <<settled, unheard>>
feedVars  == <<ring, log>>
quotaVars == <<bucket, admitted>>
fixedVars == <<env, now, restarts>>

Servers == {"api", "x402"}
NotSeen == 0 - ReplayWindow   \* older than any window

\* A payment is an authorization, absent, or does not decode; the x402 server
\* makes no difference between the first and the last.  It comes in X-PAYMENT
\* or in another header that the payment middleware reads.
ASSUME ProfileAssumption ==
    \A p \in Profiles : /\ p.server \in Servers
                        /\ p.via \in {"x-payment", "other"}
                        /\ p.pay \in Payments \cup {None, "junk"}
                        /\ p.server = "x402" => p.pay # "junk"

\* Answers that are not a handler's.
Refusals == {"RATE_LIMITED", "INVALID_API_KEY", "API_KEY_REQUIRED", "INSUFFICIENT_SCOPE",
             "API_KEY_REQUIRED_FOR_WRITE", "UNKNOWN_TOOL", "WRITE_TOOLS_DISABLED",
             "X402_UNCONFIGURED", "PAYMENT_REQUIRED", "PAYMENT_MALFORMED",
             "REPLAY", "STORE_UNAVAILABLE", "NOT_FOUND"}

Phases == {"new", "handler", "redis_get", "redis_set", "file_read", "file_write",
           "verify", "paid_handler", "settle", "answered", "dropped"}

\* A valid key counts for its holder wherever he is, everybody else counts
\* by address; the x402 server knows addresses only.
CallerOf(p, who) ==
    IF p.server = "x402" THEN <<"x402", "x402", p.ip>>
    ELSE <<"api", TierFor(p.path, who), IF who.keyId = None THEN p.ip ELSE who.keyId>>

Callers == UNION {{CallerOf(p, Resolve(e, p.key)) : p \in Traffic[e]} : e \in Environments}

NoProfile == [server |-> None, ip |-> None, key |-> None, path |-> None,
              pay |-> None, via |-> None]

EmptyRing == [buf |-> [i \in 0..(Capacity - 1) |-> None], head |-> 0, size |-> 0,
              recorded |-> 0, rateLimited |-> 0,
              byDecision |-> [d \in {"decided", "NONE"} |-> 0],
              byTier |-> [t \in Tiers |-> 0]]

\* The type of every variable.
TypeOK ==
    /\ env \in Environments
    /\ now \in 0..MaxTime
    /\ \A r \in Requests : req[r].phase \in Phases /\ req[r].profile \in Profiles \cup {NoProfile}
    /\ \A c \in Callers : bucket[c].count \in Nat /\ bucket[c].resetAt \in Nat
    /\ redis \in [Payments -> Nat] /\ file \in [Payments -> Int]
    /\ copy \in [Servers -> [Payments -> Int]]
    /\ settled \subseteq Requests /\ unheard \subseteq Requests
    /\ ring.head \in 0..(Capacity - 1) /\ ring.size \in 0..Capacity
    /\ overlapped \in BOOLEAN /\ restarts \in 0..MaxRestarts

Init ==
    /\ env \in Environments
    /\ now = 0
    /\ req = [r \in Requests |-> [profile |-> NoProfile, phase |-> "new", answer |-> None]]
    /\ bucket = [c \in Callers |-> [count |-> 0, resetAt |-> 0]]
    /\ redis = [p \in Payments |-> 0]
    /\ file = [p \in Payments |-> NotSeen]
    /\ copy = [s \in Servers |-> file]
    /\ settled = {} /\ unheard = {} /\ checked = {} /\ admitted = {}
    /\ ring = EmptyRing /\ log = <<>>
    /\ overlapped = FALSE /\ restarts = 0

Prof(r) == req[r].profile
Who(r) == Resolve(env, Prof(r).key)

\* A check of the file is one synchronous call: the server does nothing else.
Free(s) == \A r \in Requests : Prof(r).server = s => req[r].phase # "file_write"

At(r, phase) == req[r].phase = phase /\ Free(Prof(r).server)

Move(r, phase) == req' = [req EXCEPT ![r].phase = phase]

Answered(r, answer) == req' = [req EXCEPT ![r].phase = "answered", ![r].answer = answer]

-----------------------------------------------------------------------------
(* Quota                                                                   *)

\* Mutant: the window starts again with every request.
ConsumedSliding(b, t, window) ==
    LET live == IF b.resetAt <= t THEN [count |-> 0, resetAt |-> t + window]
                ELSE [b EXCEPT !.count = 0]
    IN [live EXCEPT !.count = @ + 1]

\* The x402 server's own count, without a key or a tier.
ConsumedX402(b, t, window) ==
    IF b.resetAt <= t THEN [count |-> 1, resetAt |-> t + window]
    ELSE [b EXCEPT !.count = @ + 1]

\* One request more in the caller's window, which begins with its first request.
Consumed(b, t, window) ==
    LET live == IF b.resetAt <= t THEN [count |-> 0, resetAt |-> t + window] ELSE b
    IN [live EXCEPT !.count = @ + 1]

Limited(b, caller) == b.count > QuotaMax[caller[2]]

-----------------------------------------------------------------------------
(* The activity feed                                                       *)

\* Mutant: the write index runs to the capacity and not around it.
RecordedInLast(a, item) ==
    [a EXCEPT !.buf[a.head] = item,
              !.head = IF @ + 1 < Capacity THEN @ + 1 ELSE @,
              !.size = IF @ < Capacity THEN @ + 1 ELSE @,
              !.recorded = @ + 1, !.byDecision[item.decision] = @ + 1, !.byTier[item.tier] = @ + 1]

Recorded(a, item) ==
    [a EXCEPT !.buf[a.head] = item,
              !.head = (@ + 1) % Capacity,
              !.size = IF @ < Capacity THEN @ + 1 ELSE @,
              !.recorded = @ + 1, !.byDecision[item.decision] = @ + 1, !.byTier[item.tier] = @ + 1]

\* Newest first, at most limit items.
Recent(a, limit) ==
    [i \in 1..(IF limit < a.size THEN limit ELSE a.size) |->
        a.buf[(a.head - i + Capacity * 2) % Capacity]]

\* What handleMetricsPublic shows of it.
Metrics(a) == [checks |-> a.byDecision, rateLimited |-> a.rateLimited,
               ring |-> [capacity |-> Capacity, size |-> a.size]]

ActivityItem(r, decision) ==
    [request |-> r, tier |-> TierFor(Prof(r).path, Who(r)),
     caller |-> CallerTypeForEndpoint(Prof(r).path), keyId |-> Who(r).keyId, decision |-> decision]

-----------------------------------------------------------------------------
(* A request arrives: key, quota, access, route                            *)

To(phase) == [phase |-> phase, answer |-> None]
Answer(a) == [phase |-> "answered", answer |-> a]

\* The gate has a receiver and a facilitator, or it is shut.
PaidConfigured == env.payTo /\ env.facilitator

\* A header that does not decode costs no write of the store; the x402 server
\* has no such filter.
Malformed(p) == p.server = "api" /\ p.pay = "junk"

\* The replay check in front of the payment middleware.  It looks at X-PAYMENT
\* only: a request without one goes on to the middleware at once.
PaidGate(p) ==
    IF ~PaidConfigured THEN Answer("X402_UNCONFIGURED")
    ELSE IF p.pay = None \/ p.via = "other" THEN To("verify")
    ELSE IF Malformed(p) THEN Answer("PAYMENT_MALFORMED")
    ELSE To(IF env.redis = "none" THEN "file_read" ELSE "redis_get")

\* Mutant: only the tool gateway asks for a key, not the broadcast.
RouteOpenBroadcast(p, who) ==
    CASE p.path \in DecisionPaths \cup QueryPaths -> To("handler")
      [] p.path \in ToolPaths ->
           IF IsWriteTool(p.path) /\ who.status # "valid" THEN Answer("API_KEY_REQUIRED_FOR_WRITE")
           ELSE IF ToolGateway(env, p.path) # "run" THEN Answer(ToolGateway(env, p.path))
           ELSE To("handler")
      [] p.path \in PaidPaths -> PaidGate(p)
      [] OTHER -> Answer("NOT_FOUND")

Route(p, who) ==
    CASE p.path \in DecisionPaths \cup QueryPaths ->
           IF p.path = "/broadcast/signed" /\ who.status # "valid"
           THEN Answer("API_KEY_REQUIRED_FOR_WRITE") ELSE To("handler")
      [] p.path \in ToolPaths ->
           IF IsWriteTool(p.path) /\ who.status # "valid" THEN Answer("API_KEY_REQUIRED_FOR_WRITE")
           ELSE IF ToolGateway(env, p.path) # "run" THEN Answer(ToolGateway(env, p.path))
           ELSE To("handler")
      [] p.path \in PaidPaths -> PaidGate(p)
      [] OTHER -> Answer("NOT_FOUND")

\* The x402 server: quota of its own, no keys, the paid routes but the report.
RouteX402(p) ==
    IF p.path \in PaidPaths \ {"/paid/risk-report"} THEN PaidGate(p) ELSE Answer("NOT_FOUND")

Counted(p) == p.server = "x402" \/ (env.quotaEnabled /\ p.path # "/health")

\* The quota comes before the access decision, so a wrong key uses it up too.
Receive(r, p) ==
    LET who    == Resolve(env, p.key)
        caller == CallerOf(p, who)
        used   == IF p.server = "api" THEN Consumed(bucket[caller], now, QuotaWindow)
                  ELSE ConsumedX402(bucket[caller], now, QuotaWindow)
        access == IF p.server = "api" THEN EvaluateAccess(env, p.path, who) ELSE "allow"
        next   == IF Counted(p) /\ Limited(used, caller) THEN Answer("RATE_LIMITED")
                  ELSE IF access # "allow" THEN Answer(access)
                  ELSE IF p.server = "api" THEN Route(p, who) ELSE RouteX402(p)
    IN  /\ req[r].phase = "new"
        /\ Cardinality({q \in Requests : req[q].phase # "new"}) < MaxRequests[env]
        /\ Free(p.server)
        /\ bucket' = IF Counted(p) THEN [bucket EXCEPT ![caller] = used] ELSE bucket
        /\ admitted' = IF Counted(p) /\ ~Limited(used, caller)
                       THEN admitted \cup {[request |-> r, caller |-> caller, at |-> now]}
                       ELSE admitted
        /\ ring' = IF p.server = "api" /\ next.answer = "RATE_LIMITED"
                   THEN [ring EXCEPT !.rateLimited = @ + 1] ELSE ring
        /\ req' = [req EXCEPT ![r] = [profile |-> p, phase |-> next.phase, answer |-> next.answer]]
        /\ UNCHANGED <<fixedVars, storeVars, chargeVars, log>>

\* A free handler ends. Only a decision endpoint that does not throw records.
Finish(r) ==
    /\ At(r, "handler")
    /\ \E outcome \in {"decided", "NONE", "error"} :
        LET item == ActivityItem(r, outcome) IN
        /\ Answered(r, IF outcome = "error" THEN "error" ELSE "served")
        /\ IF env.activityEnabled /\ Prof(r).path \in DecisionPaths /\ outcome # "error"
           THEN ring' = Recorded(ring, item) /\ log' = Append(log, item)
           ELSE UNCHANGED feedVars
    /\ UNCHANGED <<fixedVars, storeVars, quotaVars, chargeVars>>

-----------------------------------------------------------------------------
(* The replay store                                                        *)

Event(r, store, what) == [request |-> r, pay |-> Prof(r).pay, store |-> store, at |-> now, what |-> what]

\* What the middleware makes of the store's word.
Verdict(result) ==
    CASE result = "allowed" -> To("verify")
      [] result = "refused" -> Answer("REPLAY")
      [] result = "failed"  -> Answer("STORE_UNAVAILABLE")

\* Without Redis the file decides, unless the operator insists on Redis.
Fallback == IF env.redis = "required" THEN Verdict("failed") ELSE To("file_read")

Go(r, next) == req' = [req EXCEPT ![r].phase = next.phase, ![r].answer = next.answer]

InRedis(p) == redis[p] > now

\* GET, retried once; found, not found, or no answer at all.
RedisGet(r) ==
    /\ At(r, "redis_get")
    /\ \/ /\ InRedis(Prof(r).pay)
          /\ Go(r, Verdict("refused"))
          /\ checked' = checked \cup {Event(r, "redis", "refused")}
       \/ /\ ~InRedis(Prof(r).pay)
          /\ Go(r, To("redis_set"))
          /\ UNCHANGED checked
       \/ /\ Go(r, Fallback)
          /\ UNCHANGED checked
    /\ UNCHANGED <<fixedVars, redis, file, copy, overlapped, quotaVars, feedVars, chargeVars>>

\* Mutant: SET without NX.
SetTakenAlways(p) == TRUE

\* NX: the command takes effect if the key is absent or expired.
SetTaken(p) == ~InRedis(p)

\* SET NX EX, retried once. The first command may arrive and its answer be
\* lost: the second is then refused, or is lost as well.
RedisSet(r) ==
    LET p == Prof(r).pay IN
    /\ At(r, "redis_set")
    /\ \/ /\ SetTaken(p)
          /\ redis' = [redis EXCEPT ![p] = now + ReplayWindow]
          /\ \/ /\ Go(r, Verdict("allowed"))
                /\ checked' = checked \cup {Event(r, "redis", "accepted")}
             \/ /\ Go(r, Verdict("refused"))
                /\ checked' = checked \cup {Event(r, "redis", "orphan"), Event(r, "redis", "refused")}
             \/ /\ Go(r, Fallback)
                /\ checked' = checked \cup {Event(r, "redis", "orphan")}
       \/ /\ ~SetTaken(p)
          /\ Go(r, Verdict("refused"))
          /\ checked' = checked \cup {Event(r, "redis", "refused")}
          /\ UNCHANGED redis
       \/ /\ Go(r, Fallback)
          /\ UNCHANGED <<redis, checked>>
    /\ UNCHANGED <<fixedVars, file, copy, overlapped, quotaVars, feedVars, chargeVars>>

FileRead(r) ==
    LET s == Prof(r).server IN
    /\ At(r, "file_read")
    /\ copy' = [copy EXCEPT ![s] = file]
    /\ Move(r, "file_write")
    /\ UNCHANGED <<fixedVars, redis, file, overlapped, checked, quotaVars, feedVars, chargeVars>>

\* Mutant: an entry of exactly the window's age counts as seen.
PrunedLate(seen) == [p \in Payments |-> IF now - seen[p] > ReplayWindow THEN NotSeen ELSE seen[p]]

\* Entries of the window's age are dropped.
Pruned(seen) == [p \in Payments |-> IF now - seen[p] >= ReplayWindow THEN NotSeen ELSE seen[p]]

\* The rest of the same call: prune, look, record, write the whole file.
FileWrite(r) ==
    LET p    == Prof(r).pay
        s    == Prof(r).server
        kept == Pruned(copy[s])
    IN  /\ req[r].phase = "file_write"
        /\ \/ /\ file' = [kept EXCEPT ![p] = IF @ = NotSeen THEN now ELSE @]
              /\ overlapped' = (overlapped \/ file # copy[s])
              /\ IF kept[p] = NotSeen
                 THEN /\ Go(r, Verdict("allowed"))
                      /\ checked' = checked \cup {Event(r, "file", "accepted")}
                 ELSE /\ Go(r, Verdict("refused"))
                      /\ checked' = checked \cup {Event(r, "file", "refused")}
           \/ /\ Go(r, Verdict("failed"))   \* the disk refuses
              /\ UNCHANGED <<file, overlapped, checked>>
        /\ UNCHANGED <<fixedVars, redis, copy, quotaVars, feedVars, chargeVars>>

-----------------------------------------------------------------------------
(* The payment middleware (external) and the paid handlers                 *)

Spent(p) == \E q \in settled : Prof(q).pay = p

\* The facilitator verifies what the middleware found: a spent authorization
\* does not verify, and neither does none.
Verify(r) ==
    /\ At(r, "verify")
    /\ \/ Prof(r).pay \in Payments /\ ~Spent(Prof(r).pay) /\ Move(r, "paid_handler")
       \/ Answered(r, "PAYMENT_REQUIRED")
    /\ UNCHANGED <<fixedVars, storeVars, quotaVars, feedVars, chargeVars>>

\* Mutant: every answer goes on to the settlement.
AfterAnswerAny(status) == "settle"

\* The middleware settles only below 400.
AfterAnswer(status) == IF status < 400 THEN "settle" ELSE "answered"

RunPaid(r) ==
    /\ At(r, "paid_handler")
    /\ \E status \in IF Prof(r).server = "api" THEN PaidAnswers(Prof(r).path) ELSE X402Answers(Prof(r).path) :
          req' = [req EXCEPT ![r].phase = AfterAnswer(status),
                             ![r].answer = IF status < 400 THEN "served" ELSE "error"]
    /\ UNCHANGED <<fixedVars, storeVars, quotaVars, feedVars, chargeVars>>

\* The chain takes a settlement that was sent: an authorization is spent once.
SettlementLands(r) ==
    /\ req[r].phase = "settle" \/ r \in unheard
    /\ r \notin settled /\ ~Spent(Prof(r).pay)
    /\ settled' = settled \cup {r}
    /\ UNCHANGED <<fixedVars, req, storeVars, quotaVars, feedVars, unheard>>

\* The result of the settlement: the answer goes out if it landed. When the
\* result is lost, it may have landed or land later.
Settle(r) ==
    /\ At(r, "settle")
    /\ \/ r \in settled /\ Move(r, "answered") /\ UNCHANGED unheard
       \/ r \notin settled /\ Answered(r, "PAYMENT_REQUIRED") /\ UNCHANGED unheard
       \/ Answered(r, "PAYMENT_REQUIRED") /\ unheard' = unheard \cup {r}
    /\ UNCHANGED <<fixedVars, storeVars, quotaVars, feedVars, settled>>

-----------------------------------------------------------------------------
Tick ==
    /\ now < MaxTime
    /\ \A s \in Servers : Free(s)
    /\ now' = now + 1
    /\ UNCHANGED <<env, req, bucket, storeVars, chargeVars, feedVars, admitted, restarts>>

\* The API stops and starts: what it keeps in memory is gone, its requests
\* get no answer, and a SET or a settlement on its way may still arrive.
Restart ==
    /\ restarts < MaxRestarts
    /\ Free("api")
    /\ \E arrived \in SUBSET {r \in Requests : At(r, "redis_set") /\ Prof(r).server = "api"
                                             /\ ~InRedis(Prof(r).pay)} :
          /\ redis' = [p \in Payments |-> IF \E r \in arrived : Prof(r).pay = p
                                          THEN now + ReplayWindow ELSE redis[p]]
          /\ checked' = checked \cup {Event(r, "redis", "orphan") : r \in arrived}
    /\ req' = [r \in Requests |->
                 IF Prof(r).server = "api" /\ req[r].phase \notin {"new", "answered"}
                 THEN [req[r] EXCEPT !.phase = "dropped"] ELSE req[r]]
    /\ bucket' = [c \in Callers |-> IF c[1] = "api" THEN [count |-> 0, resetAt |-> 0] ELSE bucket[c]]
    /\ admitted' = {a \in admitted : a.caller[1] # "api"}
    /\ ring' = EmptyRing /\ log' = <<>>
    /\ restarts' = restarts + 1
    /\ unheard' = unheard \cup {r \in Requests : req[r].phase = "settle" /\ Prof(r).server = "api"}
    /\ UNCHANGED <<env, now, file, copy, overlapped, settled>>

Next ==
    \/ \E r \in Requests :
         \/ \E p \in Traffic[env] : Receive(r, p)
         \/ Finish(r) \/ RedisGet(r) \/ RedisSet(r) \/ FileRead(r) \/ FileWrite(r)
         \/ Verify(r) \/ RunPaid(r) \/ Settle(r) \/ SettlementLands(r)
    \/ Tick
    \/ Restart

Spec == Init /\ [][Next]_vars

-----------------------------------------------------------------------------
(* Properties                                                              *)

\* x402Gate: an authorization passes a replay store once in a window,
\* whatever requests, retries, lost answers and restarts come between; the
\* file keeps that only as long as no server writes over another's check.
OncePerStore ==
    \A a, b \in checked :
        (/\ a.what = "accepted" /\ b.what = "accepted"
         /\ a.request # b.request /\ a.pay = b.pay /\ a.store = b.store)
        => \/ b.at - a.at >= ReplayWindow
           \/ a.at - b.at >= ReplayWindow
           \/ a.store = "file" /\ overlapped

\* checkAndRecordX402Replay: what is refused as used was recorded in the same
\* store less than a window ago, by an accepted request or by a command whose
\* answer got lost (then it may be the request's own).
RefusedWasRecorded ==
    \A b \in checked : b.what = "refused" =>
        \E a \in checked : /\ a.what # "refused" /\ a.pay = b.pay /\ a.store = b.store
                           /\ a.at <= b.at /\ b.at - a.at < ReplayWindow

\* QuotaLimiter: windows begin with a request, so a caller gets at most twice
\* its limit in any stretch of a window's length, across tiers and restarts of
\* nothing but its own process.
QuotaHolds ==
    \A a \in admitted :
        Cardinality({b \in admitted : /\ b.caller = a.caller
                                      /\ b.at >= a.at /\ b.at - a.at < QuotaWindow})
            <= 2 * QuotaMax[a.caller[2]]

\* ActivityStore: the ring shows the last records, newest first, and its
\* counters are those of everything recorded since the start.
RecentIsLastRecorded ==
    /\ ring.recorded = Len(log)
    /\ \A limit \in 1..(Capacity + 1) :
          Recent(ring, limit) = SubSeq(Reverse(log), 1, IF limit < ring.size THEN limit ELSE ring.size)
    /\ Metrics(ring).ring.size = IF Len(log) < Capacity THEN Len(log) ELSE Capacity
    /\ \A d \in {"decided", "NONE"} :
          Metrics(ring).checks[d] = Cardinality({i \in DOMAIN log : log[i].decision = d})

\* evaluateAccess: a valid key is never refused where a caller without a key
\* passes, whatever scopes it has.
KeyNeverHurts ==
    \A r \in Requests :
        req[r].answer \in {"INSUFFICIENT_SCOPE", "API_KEY_REQUIRED"} =>
            EvaluateAccess(env, Prof(r).path, Resolve(env, None)) # "allow"

\* server.ts: a signed transaction is relayed, and a write tool called, for a
\* valid key only; the relay asks for the key's own scope where keys are
\* required, and no key opens a write tool that the operator did not enable.
\* (What is free for all is not meant: preparing a transaction, too, writes.)
RelayAndWriteToolsAreKeyed ==
    \A r \in Requests :
        (req[r].phase = "handler" \/ req[r].answer \in {"served", "error"}) =>
            /\ Prof(r).path = "/broadcast/signed" =>
                 /\ Who(r).status = "valid"
                 /\ KeyRequired(env) => "broadcast:signed" \in Who(r).scopes
            /\ Prof(r).path = "/tools/write" => Who(r).status = "valid" /\ env.writeToolsEnabled

\* x402: money moves for an answer and an answer is not given without money,
\* one authorization for one answer, on whichever server and around whichever
\* store; and money that came in X-PAYMENT moves only for a request that a
\* replay store let through.  Excepted are the settlements that no server
\* hears of, those whose result is lost and those under way at a restart:
\* there the payer may have paid for a refusal or for nothing.
PaidIsServedUnlessUnheard ==
    /\ \A r \in Requests :
          Prof(r).path \in PaidPaths /\ req[r].phase = "answered" /\ req[r].answer = "served" => r \in settled
    /\ \A r \in settled :
          /\ \/ req[r].phase \in {"settle", "answered"} /\ req[r].answer = "served"
             \/ r \in unheard
          /\ Prof(r).via = "x-payment" => \E c \in checked : c.request = r /\ c.what = "accepted"
          /\ \A q \in settled : Prof(q).pay = Prof(r).pay => q = r
============================================================================
