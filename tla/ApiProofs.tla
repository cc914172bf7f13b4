----------------------------- MODULE ApiProofs -----------------------------
(***************************************************************************)
(* What HostedApi keeps for every set of requests, profiles, payments and  *)
(* environments, every quota and window, every capacity of the ring and    *)
(* any number of requests, ticks and restarts.                             *)
(***************************************************************************)
EXTENDS HostedApi, FiniteSetTheorems, SequenceTheorems, TLAPS

-----------------------------------------------------------------------------
(* One request                                                             *)

\* Before a replay store, and behind it.
Checking == {"redis_get", "redis_set", "file_read", "file_write"}
Behind   == {"verify", "paid_handler", "settle"}

LetThrough(r) == \E c \in checked : c.request = r /\ c.what = "accepted"

\* What was refused for want of a key or a scope anybody would be refused.
RefusedFairly(r) ==
    req[r].answer \in {"INSUFFICIENT_SCOPE", "API_KEY_REQUIRED"} =>
        EvaluateAccess(env, Prof(r).path, Resolve(env, None)) # "allow"

\* Who may have a signed transaction relayed, or a write tool called.
MayRun(path, who) ==
    /\ path = "/broadcast/signed" =>
         /\ who.status = "valid"
         /\ KeyRequired(env) => "broadcast:signed" \in who.scopes
    /\ path = "/tools/write" => who.status = "valid" /\ env.writeToolsEnabled

RunsKeyed(r) ==
    (req[r].phase = "handler" \/ req[r].answer \in {"served", "error"}) => MayRun(Prof(r).path, Who(r))

\* A request whose authorization came in X-PAYMENT is past a store.
Vetted(r) == Prof(r).via = "x-payment" => LetThrough(r)

\* A request at the payment gate is one of a paid route; a store has looked at
\* it before the middleware finds an authorization in X-PAYMENT, and nothing
\* runs without an authorization.
PaysFirst(r) ==
    /\ req[r].phase \in Checking \cup Behind => Prof(r).path \in PaidPaths
    /\ req[r].phase \in Checking \cup {"paid_handler", "settle"} => Prof(r).pay \in Payments
    /\ req[r].phase \in Behind /\ Prof(r).pay \in Payments => Vetted(r)
    /\ req[r].phase = "settle" => req[r].answer = "served"
    /\ req[r].phase = "handler" => Prof(r).path \notin PaidPaths

\* A paid answer is settled; what is settled is served, about to be, or was
\* given up; and a settlement is sent for a vetted request only.
ChargeOK(r) ==
    /\ Prof(r).path \in PaidPaths /\ req[r].phase = "answered" /\ req[r].answer = "served" => r \in settled
    /\ r \in settled \cup unheard => Vetted(r) /\ req[r].phase \in {"settle", "answered", "dropped"}
    /\ r \in unheard => req[r].phase # "settle"
    /\ r \in settled => \/ req[r].phase \in {"settle", "answered"} /\ req[r].answer = "served"
                        \/ r \in unheard

RequestOK(r) == RefusedFairly(r) /\ RunsKeyed(r) /\ PaysFirst(r) /\ ChargeOK(r)

\* The chain spends an authorization once.
SpentOnce ==
    /\ settled \subseteq Requests /\ unheard \subseteq Requests
    /\ \A q, r \in settled : Prof(q).pay = Prof(r).pay => q = r

ReqTyped ==
    req \in [Requests -> [profile : Profiles \cup {NoProfile}, phase : Phases,
                          answer : Refusals \cup {None, "served", "error"}]]

RequestInv ==
    /\ env \in Environments
    /\ ReqTyped
    /\ \A r \in Requests : RequestOK(r)
    /\ SpentOnce

-----------------------------------------------------------------------------
(* How a step changes a request                                            *)

\* Only r's phase and answer change.
Steps(r, phase, answer) ==
    /\ \A q \in Requests \ {r} : req'[q] = req[q]
    /\ req'[r].profile = req[r].profile
    /\ req'[r].phase = phase /\ req'[r].answer = answer
    /\ ReqTyped'

LEMMA GoSteps ==
    ASSUME ReqTyped, NEW r \in Requests, NEW next,
           next.phase \in Phases, next.answer \in Refusals \cup {None, "served", "error"}, Go(r, next)
    PROVE  Steps(r, next.phase, next.answer)
  BY DEF Go, Steps, ReqTyped

LEMMA MoveSteps ==
    ASSUME ReqTyped, NEW r \in Requests, NEW phase \in Phases, Move(r, phase)
    PROVE  Steps(r, phase, req[r].answer)
  BY DEF Move, Steps, ReqTyped

LEMMA AnsweredSteps ==
    ASSUME ReqTyped, NEW r \in Requests,
           NEW answer \in Refusals \cup {None, "served", "error"}, Answered(r, answer)
    PROVE  Steps(r, "answered", answer)
  BY DEF Answered, Steps, ReqTyped, Phases

\* A request that does not change stays as good as it was.
LEMMA SameRequest ==
    ASSUME NEW q \in Requests, RequestOK(q), req'[q] = req[q], env' = env, checked \subseteq checked',
           q \in settled' <=> q \in settled, q \in unheard' <=> q \in unheard
    PROVE  RequestOK(q)'
  <1>1. /\ LetThrough(q) => LetThrough(q)'
        /\ Vetted(q) => Vetted(q)'
    BY DEF LetThrough, Vetted, Prof
  <1>2. RefusedFairly(q)'
    BY DEF RequestOK, RefusedFairly, Prof
  <1>3. RunsKeyed(q)'
    BY DEF RequestOK, RunsKeyed, MayRun, Prof, Who
  <1>4. PaysFirst(q)'
    BY <1>1 DEF RequestOK, PaysFirst, Prof
  <1>5. ChargeOK(q)'
    BY <1>1 DEF RequestOK, ChargeOK, Prof
  <1> QED BY <1>2, <1>3, <1>4, <1>5 DEF RequestOK

\* No step changes the profile of a request that has arrived.
LEMMA SpentStays ==
    ASSUME RequestInv, settled' = settled, unheard' \subseteq Requests,
           \A q \in Requests : req[q].phase # "new" => Prof(q)' = Prof(q)
    PROVE  SpentOnce'
  <1>1. \A q \in settled : q \in Requests /\ Prof(q)' = Prof(q)
    BY DEF RequestInv, RequestOK, ChargeOK, SpentOnce
  <1> QED BY <1>1 DEF RequestInv, SpentOnce

\* A step of one request that is not to be settled keeps the invariant if it
\* keeps it for that request.
LEMMA OneSteps ==
    ASSUME RequestInv, NEW r \in Requests, NEW phase, NEW answer, Steps(r, phase, answer),
           env' = env, checked \subseteq checked', UNCHANGED chargeVars,
           req[r].phase \notin {"answered", "dropped", "settle"},
           phase = "answered" /\ answer = "served" => Prof(r).path \notin PaidPaths,
           RefusedFairly(r)', RunsKeyed(r)', PaysFirst(r)'
    PROVE  RequestInv'
  <1>1. \A q \in Requests : Prof(q)' = Prof(q)
    BY DEF Steps, Prof
  <1>2. ChargeOK(r)'
    <2>1. r \notin settled /\ r \notin unheard
      BY DEF RequestInv, RequestOK, ChargeOK
    <2> QED BY <1>1, <2>1 DEF ChargeOK, Steps, chargeVars
  <1>3. \A q \in Requests : RequestOK(q)'
    <2> TAKE q \in Requests
    <2>1. CASE q = r
      BY <1>2, <2>1 DEF RequestOK
    <2>2. CASE q # r
      BY <2>2, SameRequest DEF RequestInv, Steps, chargeVars
    <2> QED BY <2>1, <2>2
  <1>4. SpentOnce'
    <2>1. settled' = settled /\ unheard' \subseteq Requests
      BY DEF RequestInv, SpentOnce, chargeVars
    <2> QED BY <1>1, <2>1, SpentStays
  <1> QED BY <1>3, <1>4 DEF RequestInv, Steps

\* What a request is answered with at the payment gate or behind it settles
\* nothing that depends on its key.
LEMMA AtTheGate ==
    ASSUME RequestInv, NEW r \in Requests, NEW phase, NEW answer, Steps(r, phase, answer),
           env' = env, req[r].phase \in Checking \cup Behind,
           phase # "handler", answer \notin {"INSUFFICIENT_SCOPE", "API_KEY_REQUIRED"}
    PROVE  RefusedFairly(r)' /\ RunsKeyed(r)' /\ Prof(r).path' \in PaidPaths
  <1>1. Prof(r).path \in PaidPaths
    BY DEF RequestInv, RequestOK, PaysFirst
  <1>2. Prof(r)' = Prof(r)
    BY DEF Prof, Steps
  <1>3. Prof(r).path' \notin {"/broadcast/signed", "/tools/write"}
    BY <1>1, <1>2 DEF PaidPaths
  <1>4. RefusedFairly(r)'
    BY DEF RefusedFairly, Steps
  <1>5. RunsKeyed(r)'
    BY <1>3 DEF RunsKeyed, MayRun
  <1> QED BY <1>1, <1>2, <1>4, <1>5

-----------------------------------------------------------------------------
(* A request arrives                                                       *)

\* Where a request may be after its arrival.
Starts(p, next) ==
    \/ /\ next.phase = "answered" /\ next.answer \in Refusals
       /\ next.answer \in {"INSUFFICIENT_SCOPE", "API_KEY_REQUIRED"} =>
            EvaluateAccess(env, p.path, Resolve(env, None)) # "allow"
    \/ /\ next.phase = "handler" /\ next.answer = None
       /\ p.path \notin PaidPaths /\ MayRun(p.path, Resolve(env, p.key))
    \/ /\ next.phase \in Checking /\ next.answer = None
       /\ p.path \in PaidPaths /\ p.pay \in Payments
    \/ /\ next.phase = "verify" /\ next.answer = None
       /\ p.path \in PaidPaths /\ (p.pay \in Payments => p.via = "other")

\* What a caller with a key is refused for its scopes or for the lack of a
\* key, a caller without any is refused as well.
LEMMA AccessStarts ==
    ASSUME NEW path, NEW who,
           who.status \in {"valid", "anonymous", "invalid"}, EvaluateAccess(env, path, who) # "allow"
    PROVE  /\ EvaluateAccess(env, path, who) \in Refusals
           /\ EvaluateAccess(env, path, who) \in {"INSUFFICIENT_SCOPE", "API_KEY_REQUIRED"} =>
                EvaluateAccess(env, path, Resolve(env, None)) # "allow"
  <1>1. Resolve(env, None).status = "anonymous"
    BY DEF Resolve, ApiKeys
  <1>2. EvaluateAccess(env, path, who) \in {"INVALID_API_KEY", "API_KEY_REQUIRED", "INSUFFICIENT_SCOPE"}
    BY DEF EvaluateAccess
  <1>3. EvaluateAccess(env, path, who) \in {"INSUFFICIENT_SCOPE", "API_KEY_REQUIRED"} =>
            path # "/health" /\ path \notin AlwaysOpenPaths /\ KeyRequired(env)
    BY DEF EvaluateAccess
  <1>4. path # "/health" /\ path \notin AlwaysOpenPaths /\ KeyRequired(env) =>
            EvaluateAccess(env, path, Resolve(env, None)) = "API_KEY_REQUIRED"
    BY <1>1 DEF EvaluateAccess
  <1> QED BY <1>2, <1>3, <1>4 DEF Refusals

LEMMA PaidGateStarts ==
    ASSUME NEW p \in Profiles, p.path \in PaidPaths
    PROVE  Starts(p, PaidGate(p))
  <1>1. p.pay \in Payments \cup {None} \/ Malformed(p)
    BY ProfileAssumption DEF Malformed, Servers
  <1>2. None \notin Payments
    BY ApiAssumption
  <1> QED BY <1>1, <1>2 DEF Starts, PaidGate, Answer, To, Checking, Refusals

\* Where keys are required, whoever reaches the relay has a key for it.
LEMMA RelayScoped ==
    ASSUME NEW who, who.status = "valid", EvaluateAccess(env, "/broadcast/signed", who) = "allow"
    PROVE  KeyRequired(env) => "broadcast:signed" \in who.scopes
  <1>1. ScopeForPath("/broadcast/signed") = "broadcast:signed"
    BY DEF ScopeForPath
  <1>2. "/broadcast/signed" \notin AlwaysOpenPaths
    BY DEF AlwaysOpenPaths, PaidPaths
  <1> QED BY <1>1, <1>2 DEF EvaluateAccess, None

LEMMA ToolStarts ==
    ASSUME NEW path, ToolGateway(env, path) # "run"
    PROVE  ToolGateway(env, path) \in {"UNKNOWN_TOOL", "WRITE_TOOLS_DISABLED"}
  BY DEF ToolGateway

LEMMA RouteStarts ==
    ASSUME NEW p \in Profiles
    PROVE  /\ EvaluateAccess(env, p.path, Resolve(env, p.key)) = "allow" =>
                Starts(p, Route(p, Resolve(env, p.key)))
           /\ Starts(p, RouteX402(p))
  <1> DEFINE who == Resolve(env, p.key)
  <1> HIDE DEF who
  <1>1. CASE p.path \in DecisionPaths \cup QueryPaths
    <2>1. p.path # "/tools/write" /\ p.path \notin PaidPaths
      BY <1>1 DEF DecisionPaths, QueryPaths, PaidPaths
    <2>2. Route(p, who) = IF p.path = "/broadcast/signed" /\ who.status # "valid"
                          THEN Answer("API_KEY_REQUIRED_FOR_WRITE") ELSE To("handler")
      BY <1>1, <2>1 DEF Route, ToolPaths, DecisionPaths, QueryPaths
    <2>3. RouteX402(p) = Answer("NOT_FOUND")
      BY <2>1 DEF RouteX402
    <2>4. Starts(p, RouteX402(p))
      BY <2>3 DEF Starts, Answer, Refusals
    <2>5. CASE p.path = "/broadcast/signed" /\ who.status # "valid"
      BY <2>2, <2>4, <2>5 DEF Starts, Answer, Refusals, who
    <2>6. CASE ~(p.path = "/broadcast/signed" /\ who.status # "valid")
      <3>1. EvaluateAccess(env, p.path, who) = "allow" => MayRun(p.path, who)
        BY <2>1, <2>6, RelayScoped DEF MayRun
      <3> QED BY <2>1, <2>2, <2>4, <2>6, <3>1 DEF Starts, To, who
    <2> QED BY <2>5, <2>6
  <1>2. CASE p.path \in ToolPaths
    <2>1. p.path # "/broadcast/signed" /\ p.path \notin PaidPaths /\ p.path \notin DecisionPaths \cup QueryPaths
      BY <1>2 DEF ToolPaths, PaidPaths, DecisionPaths, QueryPaths
    <2>2. Route(p, who) =
            IF IsWriteTool(p.path) /\ who.status # "valid" THEN Answer("API_KEY_REQUIRED_FOR_WRITE")
            ELSE IF ToolGateway(env, p.path) # "run" THEN Answer(ToolGateway(env, p.path))
            ELSE To("handler")
      BY <1>2, <2>1 DEF Route
    <2>3. RouteX402(p) = Answer("NOT_FOUND")
      BY <2>1 DEF RouteX402
    <2>4. CASE IsWriteTool(p.path) /\ who.status # "valid"
      BY <2>2, <2>3, <2>4 DEF Starts, Answer, Refusals, who
    <2>5. CASE ~(IsWriteTool(p.path) /\ who.status # "valid") /\ ToolGateway(env, p.path) # "run"
      <3>1. Route(p, who) = Answer(ToolGateway(env, p.path))
        BY <2>2, <2>5
      <3> QED BY <3>1, <2>3, <2>5, ToolStarts DEF Starts, Answer, Refusals, who
    <2>6. CASE ~(IsWriteTool(p.path) /\ who.status # "valid") /\ ToolGateway(env, p.path) = "run"
      <3>1. Route(p, who) = To("handler")
        BY <2>2, <2>6
      <3>2. MayRun(p.path, who)
        BY <2>1, <2>6 DEF MayRun, IsWriteTool, ToolGateway
      <3> QED BY <3>1, <3>2, <2>1, <2>3 DEF Starts, Answer, To, Refusals, who
    <2> QED BY <2>4, <2>5, <2>6
  <1>3. CASE p.path \in PaidPaths
    <2>1. p.path \notin DecisionPaths \cup QueryPaths \cup ToolPaths
      BY <1>3 DEF PaidPaths, DecisionPaths, QueryPaths, ToolPaths
    <2>2. Route(p, who) = PaidGate(p)
      BY <1>3, <2>1 DEF Route
    <2>3. RouteX402(p) \in {PaidGate(p), Answer("NOT_FOUND")}
      BY DEF RouteX402
    <2> QED BY <1>3, <2>2, <2>3, PaidGateStarts DEF Starts, Answer, Refusals, who
  <1>4. CASE p.path \notin DecisionPaths \cup QueryPaths \cup ToolPaths \cup PaidPaths
    <2>1. Route(p, who) = Answer("NOT_FOUND") /\ RouteX402(p) = Answer("NOT_FOUND")
      BY <1>4 DEF Route, RouteX402
    <2> QED BY <2>1 DEF Starts, Answer, Refusals, who
  <1> QED BY <1>1, <1>2, <1>3, <1>4

LEMMA Received ==
    ASSUME NEW r, NEW p \in Profiles, Receive(r, p)
    PROVE  \E next : /\ Starts(p, next)
                     /\ req' = [req EXCEPT ![r] = [profile |-> p, phase |-> next.phase, answer |-> next.answer]]
  <1> DEFINE who    == Resolve(env, p.key)
             caller == CallerOf(p, who)
             used   == IF p.server = "api" THEN Consumed(bucket[caller], now, QuotaWindow)
                       ELSE ConsumedX402(bucket[caller], now, QuotaWindow)
             access == IF p.server = "api" THEN EvaluateAccess(env, p.path, who) ELSE "allow"
             next   == IF Counted(p) /\ Limited(used, caller) THEN Answer("RATE_LIMITED")
                       ELSE IF access # "allow" THEN Answer(access)
                       ELSE IF p.server = "api" THEN Route(p, who) ELSE RouteX402(p)
  <1>1. req' = [req EXCEPT ![r] = [profile |-> p, phase |-> next.phase, answer |-> next.answer]]
    BY DEF Receive
  <1>2. who.status \in {"valid", "anonymous", "invalid"}
    BY DEF Resolve
  <1>3. /\ p.server = "api" /\ access = "allow" => Starts(p, Route(p, who))
        /\ Starts(p, RouteX402(p))
    BY RouteStarts
  <1>4. access # "allow" => Starts(p, Answer(access))
    BY <1>2, AccessStarts DEF Starts, Answer
  <1>5. Starts(p, Answer("RATE_LIMITED"))
    BY DEF Starts, Answer, Refusals
  <1> HIDE DEF who, caller, used, access
  <1>6. Starts(p, next)
    BY <1>3, <1>4, <1>5
  <1> QED BY <1>1, <1>6

LEMMA ReceiveKeeps ==
    ASSUME RequestInv, NEW r \in Requests, NEW p \in Traffic[env], Receive(r, p)
    PROVE  RequestInv'
  <1>1. /\ env' = env /\ checked' = checked /\ settled' = settled /\ unheard' = unheard
        /\ req[r].phase = "new"
    BY DEF Receive, fixedVars, storeVars, chargeVars
  <1>2. p \in Profiles
    BY ApiAssumption DEF RequestInv
  <1>3. PICK next : /\ Starts(p, next)
                    /\ req' = [req EXCEPT ![r] = [profile |-> p, phase |-> next.phase, answer |-> next.answer]]
    BY <1>2, Received
  <1>4. next.phase \in Phases /\ next.answer \in Refusals \cup {None, "served", "error"}
    BY <1>3 DEF Starts, Phases, Checking
  <1>5. ReqTyped' /\ req'[r] = [profile |-> p, phase |-> next.phase, answer |-> next.answer]
    BY <1>2, <1>3, <1>4 DEF RequestInv, ReqTyped
  <1>6. \A q \in Requests \ {r} : req'[q] = req[q]
    BY <1>3 DEF RequestInv, ReqTyped
  <1>7. Prof(r)' = p /\ req'[r].phase = next.phase /\ req'[r].answer = next.answer
        /\ Who(r)' = Resolve(env, p.key)
    BY <1>1, <1>5 DEF Prof, Who
  <1>8. RequestOK(r)'
    <2>1. RefusedFairly(r)'
      BY <1>1, <1>3, <1>7 DEF RefusedFairly, Starts, None
    <2>2. RunsKeyed(r)'
      BY <1>1, <1>3, <1>7 DEF RunsKeyed, MayRun, Starts, Checking, Refusals, None
    <2>3. PaysFirst(r)'
      BY <1>3, <1>7 DEF PaysFirst, Vetted, Starts, Checking, Behind
    <2>4. r \notin settled /\ r \notin unheard
      BY <1>1 DEF RequestInv, RequestOK, ChargeOK
    <2>5. ChargeOK(r)'
      BY <1>1, <1>3, <1>7, <2>4 DEF ChargeOK, Starts, Checking, Refusals, None
    <2> QED BY <2>1, <2>2, <2>3, <2>5 DEF RequestOK
  <1>9. \A q \in Requests : RequestOK(q)'
    <2> TAKE q \in Requests
    <2>1. CASE q = r
      BY <1>8, <2>1
    <2>2. CASE q # r
      BY <2>2, <1>1, <1>6, SameRequest DEF RequestInv
    <2> QED BY <2>1, <2>2
  <1>10. SpentOnce'
    <2>1. \A q \in Requests : req[q].phase # "new" => Prof(q)' = Prof(q)
      BY <1>1, <1>6 DEF Prof
    <2> QED BY <1>1, <2>1, SpentStays DEF RequestInv, SpentOnce
  <1> QED BY <1>1, <1>5, <1>9, <1>10 DEF RequestInv

LEMMA FinishKeeps ==
    ASSUME RequestInv, NEW r \in Requests, Finish(r)
    PROVE  RequestInv'
  <1>1. /\ env' = env /\ checked' = checked /\ UNCHANGED chargeVars
        /\ req[r].phase = "handler" /\ Prof(r).path \notin PaidPaths
    BY DEF Finish, fixedVars, storeVars, At, RequestInv, RequestOK, PaysFirst
  <1>2. PICK answer \in {"error", "served"} : Answered(r, answer)
    BY DEF Finish
  <1>3. Steps(r, "answered", answer)
    BY <1>2, AnsweredSteps DEF RequestInv
  <1>4. RefusedFairly(r)' /\ RunsKeyed(r)' /\ PaysFirst(r)'
    <2>1. Prof(r)' = Prof(r) /\ Who(r)' = Who(r)
      BY <1>1, <1>3 DEF Prof, Who, Steps
    <2>2. RefusedFairly(r)'
      BY <1>3 DEF RefusedFairly, Steps
    <2>3. RunsKeyed(r)'
      BY <1>1, <2>1 DEF RequestInv, RequestOK, RunsKeyed, MayRun
    <2>4. PaysFirst(r)'
      BY <1>3 DEF PaysFirst, Steps, Checking, Behind
    <2> QED BY <2>2, <2>3, <2>4
  <1> QED BY <1>1, <1>3, <1>4, OneSteps

-----------------------------------------------------------------------------
(* The payment gate                                                        *)

\* A store lets a request through, keeps it waiting, or turns it away.
LEMMA StoreKeeps ==
    ASSUME RequestInv, NEW r \in Requests, NEW next, Go(r, next),
           env' = env, UNCHANGED chargeVars, checked \subseteq checked',
           req[r].phase \in Checking,
           \/ next = To("verify") /\ LetThrough(r)'
           \/ next.phase \in Checking /\ next.answer = None
           \/ next \in {Answer("REPLAY"), Answer("STORE_UNAVAILABLE")}
    PROVE  RequestInv'
  <1>1. /\ next.phase \in Checking \cup {"verify", "answered"}
        /\ next.answer \in {None, "REPLAY", "STORE_UNAVAILABLE"}
        /\ next.phase = "verify" => LetThrough(r)'
    BY DEF To, Answer, Checking
  <1>2. next.phase \in Phases /\ next.answer \in Refusals \cup {None, "served", "error"}
    BY <1>1 DEF Checking, Phases, Refusals
  <1>3. Steps(r, next.phase, next.answer)
    BY <1>2, GoSteps DEF RequestInv
  <1>4. RefusedFairly(r)' /\ RunsKeyed(r)' /\ Prof(r).path' \in PaidPaths
    BY <1>1, <1>3, AtTheGate DEF Checking, None
  <1>5. Prof(r).pay' \in Payments
    BY <1>3 DEF RequestInv, RequestOK, PaysFirst, Prof, Steps
  <1>6. PaysFirst(r)'
    BY <1>1, <1>3, <1>4, <1>5 DEF PaysFirst, Vetted, Steps, Checking, Behind
  <1>7. req[r].phase \notin {"answered", "dropped", "settle"}
        /\ ~(next.phase = "answered" /\ next.answer = "served")
    BY <1>1 DEF Checking, None
  <1> QED BY <1>3, <1>4, <1>6, <1>7, OneSteps

LEMMA AcceptedPasses ==
    ASSUME NEW r, NEW store, checked' = checked \cup {Event(r, store, "accepted")}
    PROVE  LetThrough(r)'
  <1>1. Event(r, store, "accepted") \in checked'
    OBVIOUS
  <1>2. Event(r, store, "accepted").request = r /\ Event(r, store, "accepted").what = "accepted"
    BY DEF Event
  <1> QED BY <1>1, <1>2 DEF LetThrough

LEMMA FallbackWord ==
    Fallback = Answer("STORE_UNAVAILABLE") \/ (Fallback.phase \in Checking /\ Fallback.answer = None)
  BY DEF Fallback, Verdict, To, Answer, Checking

LEMMA VerdictWord ==
    /\ Verdict("allowed") = To("verify") /\ Verdict("refused") = Answer("REPLAY")
    /\ Verdict("failed") = Answer("STORE_UNAVAILABLE")
  BY DEF Verdict

LEMMA RedisGetKeeps ==
    ASSUME RequestInv, NEW r \in Requests, RedisGet(r)
    PROVE  RequestInv'
  <1>1. env' = env /\ UNCHANGED chargeVars /\ checked \subseteq checked' /\ req[r].phase \in Checking
    BY DEF RedisGet, fixedVars, At, Checking
  <1>2. PICK next \in {Verdict("refused"), To("redis_set"), Fallback} : Go(r, next)
    BY DEF RedisGet
  <1>3. To("redis_set").phase \in Checking /\ To("redis_set").answer = None
    BY DEF To, Checking
  <1> QED BY <1>1, <1>2, <1>3, StoreKeeps, FallbackWord, VerdictWord

LEMMA RedisSetKeeps ==
    ASSUME RequestInv, NEW r \in Requests, RedisSet(r)
    PROVE  RequestInv'
  <1>1. env' = env /\ UNCHANGED chargeVars /\ checked \subseteq checked' /\ req[r].phase \in Checking
    BY DEF RedisSet, fixedVars, At, Checking
  <1>2. CASE Go(r, Verdict("allowed")) /\ checked' = checked \cup {Event(r, "redis", "accepted")}
    <2>1. LetThrough(r)'
      BY <1>2, AcceptedPasses
    <2> QED BY <1>1, <1>2, <2>1, StoreKeeps, VerdictWord
  <1>3. CASE Go(r, Verdict("refused")) \/ Go(r, Fallback)
    BY <1>1, <1>3, StoreKeeps, FallbackWord, VerdictWord
  <1> QED BY <1>2, <1>3 DEF RedisSet

LEMMA FileReadKeeps ==
    ASSUME RequestInv, NEW r \in Requests, FileRead(r)
    PROVE  RequestInv'
  <1>1. /\ env' = env /\ UNCHANGED chargeVars /\ checked' = checked
        /\ req[r].phase = "file_read" /\ Move(r, "file_write")
    BY DEF FileRead, fixedVars, At
  <1>2. Steps(r, "file_write", req[r].answer)
    BY <1>1, MoveSteps DEF RequestInv, Phases
  <1>3. Prof(r)' = Prof(r) /\ Who(r)' = Who(r)
    BY <1>1, <1>2 DEF Prof, Who, Steps
  <1>4. RefusedFairly(r)' /\ RunsKeyed(r)' /\ PaysFirst(r)'
    <2>1. RefusedFairly(r)' /\ RunsKeyed(r)'
      BY <1>1, <1>2, <1>3 DEF RequestInv, RequestOK, RefusedFairly, RunsKeyed, MayRun, Steps
    <2>2. PaysFirst(r)'
      BY <1>1, <1>2, <1>3 DEF RequestInv, RequestOK, PaysFirst, Steps, Checking, Behind
    <2> QED BY <2>1, <2>2
  <1> QED BY <1>1, <1>2, <1>4, OneSteps

LEMMA FileWriteKeeps ==
    ASSUME RequestInv, NEW r \in Requests, FileWrite(r)
    PROVE  RequestInv'
  <1>1. env' = env /\ UNCHANGED chargeVars /\ checked \subseteq checked' /\ req[r].phase \in Checking
    BY DEF FileWrite, fixedVars, Checking
  <1>2. CASE Go(r, Verdict("allowed")) /\ checked' = checked \cup {Event(r, "file", "accepted")}
    <2>1. LetThrough(r)'
      BY <1>2, AcceptedPasses
    <2> QED BY <1>1, <1>2, <2>1, StoreKeeps, VerdictWord
  <1>3. CASE Go(r, Verdict("refused")) \/ Go(r, Verdict("failed"))
    BY <1>1, <1>3, StoreKeeps, VerdictWord
  <1> QED BY <1>2, <1>3 DEF FileWrite

LEMMA VerifyKeeps ==
    ASSUME RequestInv, NEW r \in Requests, Verify(r)
    PROVE  RequestInv'
  <1>1. env' = env /\ UNCHANGED chargeVars /\ checked' = checked /\ req[r].phase = "verify"
    BY DEF Verify, fixedVars, storeVars, At
  <1>2. PaysFirst(r) /\ (Prof(r).pay \in Payments => Vetted(r))
    BY <1>1 DEF RequestInv, RequestOK, PaysFirst, Behind
  <1>3. CASE Prof(r).pay \in Payments /\ Move(r, "paid_handler")
    <2>1. Steps(r, "paid_handler", req[r].answer)
      BY <1>3, MoveSteps DEF RequestInv, Phases
    <2>2. Prof(r)' = Prof(r) /\ Who(r)' = Who(r)
      BY <1>1, <2>1 DEF Prof, Who, Steps
    <2>3. RefusedFairly(r)' /\ RunsKeyed(r)'
      BY <1>1, <2>1, <2>2 DEF RequestInv, RequestOK, RefusedFairly, RunsKeyed, MayRun, Steps
    <2>4. Vetted(r)'
      BY <1>1, <1>2, <1>3, <2>2 DEF Vetted, LetThrough
    <2>5. PaysFirst(r)'
      BY <1>1, <1>2, <1>3, <2>1, <2>2, <2>4 DEF PaysFirst, Steps, Checking, Behind
    <2> QED BY <1>1, <2>1, <2>3, <2>5, OneSteps
  <1>4. CASE Answered(r, "PAYMENT_REQUIRED")
    <2>1. Steps(r, "answered", "PAYMENT_REQUIRED")
      BY <1>4, AnsweredSteps DEF RequestInv, Refusals
    <2>2. RefusedFairly(r)' /\ RunsKeyed(r)'
      BY <1>1, <2>1, AtTheGate DEF Behind
    <2>3. PaysFirst(r)'
      BY <2>1 DEF PaysFirst, Steps, Checking, Behind
    <2> QED BY <1>1, <2>1, <2>2, <2>3, OneSteps
  <1> QED BY <1>3, <1>4 DEF Verify

LEMMA RunPaidKeeps ==
    ASSUME RequestInv, NEW r \in Requests, RunPaid(r)
    PROVE  RequestInv'
  <1>1. env' = env /\ UNCHANGED chargeVars /\ checked' = checked /\ req[r].phase = "paid_handler"
    BY DEF RunPaid, fixedVars, storeVars, At
  <1>2. Prof(r).pay \in Payments /\ Vetted(r)
    BY <1>1 DEF RequestInv, RequestOK, PaysFirst, Behind
  <1>3. PICK phase \in {"settle", "answered"}, answer \in {"served", "error"} :
            /\ req' = [req EXCEPT ![r].phase = phase, ![r].answer = answer]
            /\ phase = "settle" <=> answer = "served"
    <2>1. PICK status : req' = [req EXCEPT ![r].phase = AfterAnswer(status),
                                           ![r].answer = IF status < 400 THEN "served" ELSE "error"]
      BY DEF RunPaid
    <2>2. CASE status < 400
      BY <2>1, <2>2 DEF AfterAnswer
    <2>3. CASE ~(status < 400)
      BY <2>1, <2>3 DEF AfterAnswer
    <2> QED BY <2>2, <2>3
  <1>4. Go(r, [phase |-> phase, answer |-> answer])
    BY <1>3 DEF Go
  <1>5. Steps(r, phase, answer)
    BY <1>4, GoSteps DEF RequestInv, Phases
  <1>6. RefusedFairly(r)' /\ RunsKeyed(r)' /\ Prof(r).path' \in PaidPaths
    BY <1>1, <1>5, AtTheGate DEF Behind
  <1>7. Prof(r).pay' \in Payments /\ Vetted(r)'
    BY <1>1, <1>2, <1>5 DEF Vetted, LetThrough, Prof, Steps
  <1>8. PaysFirst(r)'
    BY <1>3, <1>5, <1>6, <1>7 DEF PaysFirst, Steps, Checking, Behind
  <1> QED BY <1>1, <1>3, <1>5, <1>6, <1>8, OneSteps

\* The chain takes a settlement of an authorization that was not spent.
LEMMA SettlementLandsKeeps ==
    ASSUME RequestInv, NEW r \in Requests, SettlementLands(r)
    PROVE  RequestInv'
  <1>1. /\ env' = env /\ checked' = checked /\ req' = req /\ unheard' = unheard
        /\ settled' = settled \cup {r} /\ ~Spent(Prof(r).pay)
        /\ req[r].phase = "settle" \/ r \in unheard
    BY DEF SettlementLands, fixedVars, storeVars
  <1>2. \A q \in Requests \ {r} : RequestOK(q)'
    BY <1>1, SameRequest DEF RequestInv
  <1>3. RequestOK(r)'
    <2>1. RequestOK(r) /\ Prof(r)' = Prof(r) /\ Who(r)' = Who(r)
      BY <1>1 DEF RequestInv, Prof, Who
    <2>2. RefusedFairly(r)' /\ RunsKeyed(r)'
      BY <1>1, <2>1 DEF RequestOK, RefusedFairly, RunsKeyed, MayRun
    <2>3. Vetted(r)' <=> Vetted(r)
      BY <1>1, <2>1 DEF Vetted, LetThrough
    <2>4. PaysFirst(r)'
      BY <1>1, <2>1, <2>3 DEF RequestOK, PaysFirst
    <2>5. Vetted(r) /\ (req[r].phase = "settle" => req[r].answer = "served")
      BY <1>1, <2>1 DEF RequestOK, PaysFirst, ChargeOK, Behind
    <2>6. ChargeOK(r)'
      BY <1>1, <2>1, <2>3, <2>5 DEF RequestOK, ChargeOK
    <2> QED BY <2>2, <2>4, <2>6 DEF RequestOK
  <1>4. SpentOnce'
    <2>1. \A q \in settled : Prof(q).pay # Prof(r).pay
      BY <1>1 DEF Spent
    <2> QED BY <1>1, <2>1 DEF RequestInv, SpentOnce, Prof
  <1> QED BY <1>1, <1>2, <1>3, <1>4 DEF RequestInv, ReqTyped

\* The server hears of the settlement, or gives it up.
LEMMA SettleKeeps ==
    ASSUME RequestInv, NEW r \in Requests, Settle(r)
    PROVE  RequestInv'
  <1>1. env' = env /\ checked' = checked /\ settled' = settled /\ req[r].phase = "settle"
    BY DEF Settle, fixedVars, storeVars, At
  <1>2. Vetted(r) /\ req[r].answer = "served" /\ r \notin unheard
    BY <1>1 DEF RequestInv, RequestOK, PaysFirst, ChargeOK, Behind
  <1>3. PICK answer \in {"served", "PAYMENT_REQUIRED"} :
           /\ Steps(r, "answered", answer)
           /\ \/ r \in settled /\ answer = "served" /\ unheard' = unheard
              \/ r \notin settled /\ answer = "PAYMENT_REQUIRED" /\ unheard' = unheard
              \/ answer = "PAYMENT_REQUIRED" /\ unheard' = unheard \cup {r}
    <2>1. CASE r \in settled /\ Move(r, "answered") /\ UNCHANGED unheard
      <3>1. Steps(r, "answered", "served")
        BY <1>2, <2>1, MoveSteps DEF RequestInv, Phases
      <3> QED BY <2>1, <3>1
    <2>2. CASE /\ Answered(r, "PAYMENT_REQUIRED")
               /\ (r \notin settled /\ UNCHANGED unheard) \/ unheard' = unheard \cup {r}
      <3>1. Steps(r, "answered", "PAYMENT_REQUIRED")
        BY <2>2, AnsweredSteps DEF RequestInv, Refusals
      <3> QED BY <2>2, <3>1
    <2> QED BY <2>1, <2>2 DEF Settle
  <1>4. \A q \in Requests : Prof(q)' = Prof(q)
    BY <1>3 DEF Steps, Prof
  <1>5. RequestOK(r)'
    <2>1. RefusedFairly(r)' /\ RunsKeyed(r)'
      BY <1>1, <1>3, AtTheGate DEF Behind
    <2>2. PaysFirst(r)'
      BY <1>3 DEF PaysFirst, Steps, Checking, Behind
    <2>3. Vetted(r)'
      BY <1>1, <1>2, <1>4 DEF Vetted, LetThrough
    <2>4. ChargeOK(r)'
      BY <1>1, <1>2, <1>3, <1>4, <2>3 DEF ChargeOK, Steps
    <2> QED BY <2>1, <2>2, <2>4 DEF RequestOK
  <1>6. ASSUME NEW q \in Requests, q # r PROVE RequestOK(q)'
    <2>1. q \in settled' <=> q \in settled
      BY <1>1
    <2>2. q \in unheard' <=> q \in unheard
      BY <1>3, <1>6
    <2>3. req'[q] = req[q]
      BY <1>3, <1>6 DEF Steps
    <2> QED BY <1>1, <2>1, <2>2, <2>3, SameRequest DEF RequestInv
  <1>7. SpentOnce'
    <2>1. unheard' \subseteq Requests
      BY <1>3 DEF RequestInv, SpentOnce
    <2> QED BY <1>1, <1>4, <2>1, SpentStays
  <1>8. ReqTyped' /\ env' \in Environments
    BY <1>1, <1>3 DEF Steps, RequestInv
  <1> QED BY <1>5, <1>6, <1>7, <1>8 DEF RequestInv

\* A restart drops requests and answers none.
LEMMA RestartKeeps ==
    ASSUME RequestInv, Restart
    PROVE  RequestInv'
  <1> DEFINE sent == {r \in Requests : req[r].phase = "settle" /\ Prof(r).server = "api"}
  <1>1. env' = env /\ settled' = settled /\ checked \subseteq checked' /\ unheard' = unheard \cup sent
    BY DEF Restart
  <1>2. req' = [r \in Requests |->
                  IF Prof(r).server = "api" /\ req[r].phase \notin {"new", "answered"}
                  THEN [req[r] EXCEPT !.phase = "dropped"] ELSE req[r]]
    BY DEF Restart
  <1>3. ReqTyped'
    BY <1>2 DEF RequestInv, ReqTyped, Phases
  <1>4. ASSUME NEW q \in Requests PROVE Prof(q)' = Prof(q) /\ req'[q].answer = req[q].answer
    BY <1>2 DEF RequestInv, ReqTyped, Prof
  <1>5. ASSUME NEW q \in Requests, ~(Prof(q).server = "api" /\ req[q].phase \notin {"new", "answered"})
        PROVE  RequestOK(q)'
    <2>1. req'[q] = req[q] /\ (q \in unheard' <=> q \in unheard)
      BY <1>1, <1>2, <1>5
    <2> QED BY <1>1, <2>1, SameRequest DEF RequestInv
  <1>6. ASSUME NEW q \in Requests, Prof(q).server = "api", req[q].phase \notin {"new", "answered"}
        PROVE  RequestOK(q)'
    <2>1. req'[q].phase = "dropped"
      BY <1>2, <1>6 DEF RequestInv, ReqTyped
    <2>2. Prof(q)' = Prof(q) /\ Who(q)' = Who(q) /\ req'[q].answer = req[q].answer
      BY <1>1, <1>4 DEF Who
    <2>3. RefusedFairly(q)' /\ RunsKeyed(q)'
      BY <1>1, <2>1, <2>2 DEF RequestInv, RequestOK, RefusedFairly, RunsKeyed, MayRun
    <2>4. PaysFirst(q)'
      BY <2>1 DEF PaysFirst, Checking, Behind
    <2>5. ChargeOK(q) /\ PaysFirst(q)
      BY DEF RequestInv, RequestOK
    <2>6. q \in settled \cup unheard' => Vetted(q)
      <3>1. q \in sent => Vetted(q)
        BY <2>5 DEF PaysFirst, Behind
      <3> QED BY <1>1, <2>5, <3>1 DEF ChargeOK
    <2>7. Vetted(q) => Vetted(q)'
      BY <1>1, <2>2 DEF Vetted, LetThrough
    <2>8. q \in settled => q \in unheard'
      BY <1>1, <1>6, <2>5 DEF ChargeOK
    <2>9. ChargeOK(q)'
      BY <1>1, <2>1, <2>6, <2>7, <2>8 DEF ChargeOK
    <2> QED BY <2>3, <2>4, <2>9 DEF RequestOK
  <1>7. SpentOnce'
    BY <1>1, <1>4, SpentStays DEF RequestInv, SpentOnce
  <1> QED BY <1>1, <1>3, <1>5, <1>6, <1>7 DEF RequestInv

LEMMA RequestsNext ==
    ASSUME RequestInv, [Next]_vars
    PROVE  RequestInv'
  <1>1. ASSUME NEW r \in Requests,
               \/ \E p \in Traffic[env] : Receive(r, p)
               \/ Finish(r) \/ RedisGet(r) \/ RedisSet(r) \/ FileRead(r) \/ FileWrite(r)
               \/ Verify(r) \/ RunPaid(r) \/ Settle(r) \/ SettlementLands(r)
        PROVE  RequestInv'
    BY <1>1, ReceiveKeeps, FinishKeeps, RedisGetKeeps, RedisSetKeeps, FileReadKeeps,
       FileWriteKeeps, VerifyKeeps, RunPaidKeeps, SettleKeeps, SettlementLandsKeeps
  <1>2. CASE Tick \/ UNCHANGED vars
    <2>1. /\ env' = env /\ req' = req /\ checked' = checked
          /\ settled' = settled /\ unheard' = unheard
      BY <1>2 DEF Tick, vars, storeVars, chargeVars
    <2>2. \A q \in Requests : RequestOK(q)'
      BY <2>1, SameRequest DEF RequestInv
    <2>3. SpentOnce' /\ ReqTyped'
      BY <2>1 DEF RequestInv, ReqTyped, SpentOnce, Prof
    <2> QED BY <2>1, <2>2, <2>3 DEF RequestInv
  <1> QED BY <1>1, <1>2, RestartKeeps DEF Next

LEMMA RequestsInit == Init => RequestInv
  <1> SUFFICES ASSUME Init PROVE RequestInv
    OBVIOUS
  <1>1. req = [r \in Requests |-> [profile |-> NoProfile, phase |-> "new", answer |-> None]]
        /\ env \in Environments /\ settled = {} /\ unheard = {}
    BY DEF Init
  <1>2. ReqTyped
    BY <1>1 DEF ReqTyped, Phases
  <1>3. ASSUME NEW r \in Requests PROVE RequestOK(r)
    <2>1. req[r].phase = "new" /\ req[r].answer = None
      BY <1>1
    <2> QED BY <1>1, <2>1 DEF RequestOK, RefusedFairly, RunsKeyed, PaysFirst, ChargeOK, Checking, Behind, None
  <1> QED BY <1>1, <1>2, <1>3 DEF RequestInv, SpentOnce

LEMMA RequestsAlways == Spec => []RequestInv
  BY RequestsInit, RequestsNext, PTL DEF Spec

\* evaluateAccess never refuses a key what it lets pass without one.
THEOREM NoKeyWouldNotHelp == Spec => []KeyNeverHurts
  <1>1. RequestInv => KeyNeverHurts
    BY DEF RequestInv, RequestOK, RefusedFairly, KeyNeverHurts
  <1> QED BY <1>1, RequestsAlways, PTL

\* A signed transaction is relayed, and a write tool called, for a valid key
\* only: where keys are required one with the relay's own scope, and a write
\* tool only if the operator enabled them.
THEOREM RelayAndWriteToolsNeedAKey == Spec => []RelayAndWriteToolsAreKeyed
  <1>1. RequestInv => RelayAndWriteToolsAreKeyed
    BY DEF RequestInv, RequestOK, RunsKeyed, MayRun, RelayAndWriteToolsAreKeyed
  <1> QED BY <1>1, RequestsAlways, PTL

\* Nobody is answered on a paid route without a settlement or by one that paid
\* for another answer, nothing in X-PAYMENT is settled past the stores, and
\* money moves without an answer only where the server does not hear of it.
THEOREM PaidIsServed == Spec => []PaidIsServedUnlessUnheard
  <1>1. RequestInv => PaidIsServedUnlessUnheard
    <2> SUFFICES ASSUME RequestInv PROVE PaidIsServedUnlessUnheard
      OBVIOUS
    <2>1. \A r \in settled : r \in Requests /\ ChargeOK(r)
      BY DEF RequestInv, RequestOK, SpentOnce
    <2>2. \A r \in Requests : ChargeOK(r)
      BY DEF RequestInv, RequestOK
    <2>3. \A q, r \in settled : Prof(q).pay = Prof(r).pay => q = r
      BY DEF RequestInv, SpentOnce
    <2> QED BY <2>1, <2>2, <2>3 DEF ChargeOK, Vetted, LetThrough, PaidIsServedUnlessUnheard
  <1> QED BY <1>1, RequestsAlways, PTL

-----------------------------------------------------------------------------
(* The replay stores                                                       *)

EventsTyped == \A e \in checked : e.at \in Nat /\ e.at <= now /\ e.pay \in Payments

\* An accepted authorization is in Redis for a window.
RedisRemembers ==
    \A e \in checked : e.store = "redis" /\ e.what = "accepted" => redis[e.pay] >= e.at + ReplayWindow

\* What Redis still holds was put there by a command.
RedisVouched ==
    \A p \in Payments :
        \/ redis[p] <= now
        \/ \E a \in checked : /\ a.what # "refused" /\ a.store = "redis" /\ a.pay = p
                              /\ redis[p] = a.at + ReplayWindow

\* The same of the file, as long as no server wrote over another's check.
FileRemembers ==
    ~overlapped =>
        \A e \in checked : e.store = "file" /\ e.what = "accepted" =>
            file[e.pay] >= e.at \/ now - e.at >= ReplayWindow

\* What a file says was put there by a check that accepted.
Vouched(seen) ==
    \A p \in Payments :
        \/ seen[p] = NotSeen
        \/ \E a \in checked : /\ a.what = "accepted" /\ a.store = "file" /\ a.pay = p
                              /\ seen[p] = a.at

StoreTyped ==
    /\ now \in Nat /\ overlapped \in BOOLEAN
    /\ redis \in [Payments -> Nat] /\ file \in [Payments -> Int]
    /\ copy \in [Servers -> [Payments -> Int]]

StoreInv ==
    /\ StoreTyped
    /\ EventsTyped
    /\ RedisRemembers
    /\ RedisVouched
    /\ FileRemembers
    /\ Vouched(file)
    /\ \A s \in Servers : Vouched(copy[s])
    /\ OncePerStore
    /\ RefusedWasRecorded

\* Time passes for the stores, and nothing else happens to them.
LEMMA StoresRest ==
    ASSUME StoreInv, redis' = redis, file' = file, overlapped' = overlapped, checked' = checked,
           now' \in Nat, now' >= now,
           copy' = copy \/ \E s \in Servers : copy' = [copy EXCEPT ![s] = file]
    PROVE  StoreInv'
  <1>1. ReplayWindow \in Nat \ {0}
    BY ApiAssumption
  <1>2. StoreTyped'
    BY DEF StoreInv, StoreTyped
  <1>3. EventsTyped'
    BY DEF StoreInv, StoreTyped, EventsTyped
  <1>4. RedisRemembers' /\ RefusedWasRecorded' /\ OncePerStore' /\ Vouched(file)'
    BY DEF StoreInv, RedisRemembers, RefusedWasRecorded, OncePerStore, Vouched
  <1>5. RedisVouched'
    <2> SUFFICES ASSUME NEW p \in Payments, ~(redis[p] <= now')
                 PROVE  \E a \in checked : /\ a.what # "refused" /\ a.store = "redis" /\ a.pay = p
                                           /\ redis[p] = a.at + ReplayWindow
      BY DEF RedisVouched
    <2>1. ~(redis[p] <= now)
      BY DEF StoreInv, StoreTyped
    <2> QED BY <2>1 DEF StoreInv, RedisVouched
  <1>6. FileRemembers'
    <2> SUFFICES ASSUME ~overlapped, NEW e \in checked, e.store = "file", e.what = "accepted"
                 PROVE  file[e.pay] >= e.at \/ now' - e.at >= ReplayWindow
      BY DEF FileRemembers
    <2>1. file[e.pay] >= e.at \/ now - e.at >= ReplayWindow
      BY DEF StoreInv, FileRemembers
    <2> QED BY <2>1, <1>1 DEF StoreInv, StoreTyped, EventsTyped
  <1>7. ASSUME NEW s \in Servers PROVE Vouched(copy[s])'
    <2>1. copy'[s] = copy[s] \/ copy'[s] = file
      BY DEF StoreInv, StoreTyped
    <2> QED BY <2>1 DEF StoreInv, Vouched
  <1> QED BY <1>2, <1>3, <1>4, <1>5, <1>6, <1>7 DEF StoreInv

\* What a step does to Redis and what it is then said to have answered.
RedisStep(E) ==
    /\ checked' = checked \cup E
    /\ redis' \in [Payments -> Nat]
    /\ \A e \in E : e.store = "redis" /\ e.at = now /\ e.pay \in Payments
    /\ \A p \in Payments :
          \/ redis'[p] = redis[p]
          \/ /\ redis[p] <= now /\ redis'[p] = now + ReplayWindow
             /\ \E e \in E : e.pay = p /\ e.what # "refused"
    /\ \A e \in E : e.what = "accepted" => redis[e.pay] <= now /\ redis'[e.pay] = now + ReplayWindow
    /\ \A e \in E : e.what = "refused" => redis'[e.pay] > now
    /\ \A d, e \in E : d.what = "accepted" /\ e.what = "accepted" => d.request = e.request

LEMMA RedisStepKeeps ==
    ASSUME StoreInv, NEW E, RedisStep(E),
           file' = file, copy' = copy, overlapped' = overlapped, now' = now
    PROVE  StoreInv'
  <1>1. ReplayWindow \in Nat \ {0} /\ now \in Nat
    BY ApiAssumption DEF StoreInv, StoreTyped
  <1>2. StoreTyped'
    BY DEF StoreInv, StoreTyped, RedisStep
  <1>3. EventsTyped'
    BY <1>1 DEF StoreInv, EventsTyped, RedisStep
  <1>4. RedisRemembers'
    <2> SUFFICES ASSUME NEW e \in checked', e.store = "redis", e.what = "accepted"
                 PROVE  redis'[e.pay] >= e.at + ReplayWindow
      BY DEF RedisRemembers
    <2>1. CASE e \in E
      BY <1>1, <2>1 DEF RedisStep
    <2>2. CASE e \in checked
      <3>1. e.at \in Nat /\ e.at <= now /\ e.pay \in Payments /\ redis[e.pay] >= e.at + ReplayWindow
        BY <2>2 DEF StoreInv, EventsTyped, RedisRemembers
      <3>2. redis'[e.pay] = redis[e.pay] \/ redis'[e.pay] = now + ReplayWindow
        BY <3>1 DEF RedisStep
      <3> QED BY <1>1, <3>1, <3>2
    <2> QED BY <2>1, <2>2 DEF RedisStep
  <1>5. RedisVouched'
    <2> SUFFICES ASSUME NEW p \in Payments, ~(redis'[p] <= now)
                 PROVE  \E a \in checked' : /\ a.what # "refused" /\ a.store = "redis" /\ a.pay = p
                                            /\ redis'[p] = a.at + ReplayWindow
      BY DEF RedisVouched
    <2>1. CASE redis'[p] = redis[p]
      <3>1. PICK a \in checked : /\ a.what # "refused" /\ a.store = "redis" /\ a.pay = p
                                 /\ redis[p] = a.at + ReplayWindow
        BY <2>1 DEF StoreInv, RedisVouched
      <3> QED BY <2>1, <3>1 DEF RedisStep
    <2>2. CASE redis'[p] # redis[p]
      <3>1. PICK e \in E : e.pay = p /\ e.what # "refused" /\ redis'[p] = now + ReplayWindow
        BY <2>2 DEF RedisStep
      <3> QED BY <3>1 DEF RedisStep
    <2> QED BY <2>1, <2>2
  <1>6. FileRemembers'
    <2> SUFFICES ASSUME ~overlapped, NEW e \in checked', e.store = "file", e.what = "accepted"
                 PROVE  file[e.pay] >= e.at \/ now - e.at >= ReplayWindow
      BY DEF FileRemembers
    <2>1. e \in checked
      BY DEF RedisStep
    <2> QED BY <2>1 DEF StoreInv, FileRemembers
  <1>7. \A seen : Vouched(seen) => \A p \in Payments :
            \/ seen[p] = NotSeen
            \/ \E a \in checked' : /\ a.what = "accepted" /\ a.store = "file" /\ a.pay = p
                                   /\ seen[p] = a.at
    BY DEF Vouched, RedisStep
  <1>8. Vouched(file)' /\ \A s \in Servers : Vouched(copy[s])'
    BY <1>7 DEF StoreInv, Vouched
  <1>9. OncePerStore'
    <2> SUFFICES ASSUME NEW a \in checked', NEW b \in checked', a.what = "accepted", b.what = "accepted",
                        a.request # b.request, a.pay = b.pay, a.store = b.store
                 PROVE  \/ b.at - a.at >= ReplayWindow
                        \/ a.at - b.at >= ReplayWindow
                        \/ a.store = "file" /\ overlapped
      BY DEF OncePerStore
    <2>1. ASSUME NEW c \in checked, NEW d \in E, c.what = "accepted", d.what = "accepted",
                 c.pay = d.pay, c.store = d.store
          PROVE  d.at - c.at >= ReplayWindow
      <3>1. c.store = "redis" /\ d.at = now /\ redis[c.pay] <= now
        BY <2>1 DEF RedisStep
      <3>2. redis[c.pay] >= c.at + ReplayWindow /\ c.at \in Nat /\ c.pay \in Payments
        BY <2>1, <3>1 DEF StoreInv, RedisRemembers, EventsTyped
      <3>3. redis[c.pay] \in Nat
        BY <3>2 DEF StoreInv, StoreTyped
      <3> QED BY <1>1, <3>1, <3>2, <3>3
    <2>2. CASE a \in E /\ b \in E
      BY <2>2 DEF RedisStep
    <2>3. CASE a \in checked /\ b \in checked
      BY <2>3 DEF StoreInv, OncePerStore
    <2>4. CASE a \in checked /\ b \in E
      BY <2>1, <2>4
    <2>5. CASE a \in E /\ b \in checked
      BY <2>1, <2>5
    <2> QED BY <2>2, <2>3, <2>4, <2>5 DEF RedisStep
  <1>10. RefusedWasRecorded'
    <2> SUFFICES ASSUME NEW b \in checked', b.what = "refused"
                 PROVE  \E a \in checked' : /\ a.what # "refused" /\ a.pay = b.pay /\ a.store = b.store
                                            /\ a.at <= b.at /\ b.at - a.at < ReplayWindow
      BY DEF RefusedWasRecorded
    <2>1. CASE b \in checked
      <3>1. PICK a \in checked : /\ a.what # "refused" /\ a.pay = b.pay /\ a.store = b.store
                                 /\ a.at <= b.at /\ b.at - a.at < ReplayWindow
        BY <2>1 DEF StoreInv, RefusedWasRecorded
      <3> QED BY <3>1 DEF RedisStep
    <2>2. CASE b \in E
      <3>1. b.store = "redis" /\ b.at = now /\ b.pay \in Payments /\ redis'[b.pay] > now
        BY <2>2 DEF RedisStep
      <3>2. ~(redis'[b.pay] <= now')
        BY <1>1, <3>1 DEF RedisStep
      <3>3. PICK a \in checked' : /\ a.what # "refused" /\ a.store = "redis" /\ a.pay = b.pay
                                  /\ redis'[b.pay] = a.at + ReplayWindow
        BY <1>5, <3>1, <3>2 DEF RedisVouched
      <3>4. a.at \in Nat /\ a.at <= now
        BY <1>3, <3>3 DEF EventsTyped
      <3> QED BY <1>1, <3>1, <3>3, <3>4
    <2> QED BY <2>1, <2>2 DEF RedisStep
  <1> QED BY <1>2, <1>3, <1>4, <1>5, <1>6, <1>8, <1>9, <1>10 DEF StoreInv

\* An event is what it says.
LEMMA EventFields ==
    ASSUME NEW r, NEW store, NEW what
    PROVE  /\ Event(r, store, what).request = r /\ Event(r, store, what).pay = Prof(r).pay
           /\ Event(r, store, what).store = store /\ Event(r, store, what).at = now
           /\ Event(r, store, what).what = what
  BY DEF Event

\* A request at a store is of a server and holds an authorization.
LEMMA HoldsPayment ==
    ASSUME RequestInv, NEW r \in Requests, req[r].phase \in Checking
    PROVE  Prof(r).pay \in Payments /\ Prof(r).server \in Servers
  <1>1. Prof(r).pay \in Payments /\ Prof(r).path \in PaidPaths /\ Prof(r) \in Profiles \cup {NoProfile}
    BY DEF RequestInv, RequestOK, PaysFirst, ReqTyped, Prof
  <1>2. Prof(r) # NoProfile
    BY <1>1 DEF NoProfile, PaidPaths, None
  <1> QED BY <1>1, <1>2, ProfileAssumption

LEMMA RedisGetStores ==
    ASSUME RequestInv, StoreInv, NEW r \in Requests, RedisGet(r)
    PROVE  StoreInv'
  <1>1. /\ file' = file /\ copy' = copy /\ overlapped' = overlapped /\ now' = now /\ redis' = redis
        /\ Prof(r).pay \in Payments
    BY HoldsPayment DEF RedisGet, fixedVars, At, Checking
  <1>2. CASE checked' = checked
    BY <1>1, <1>2, StoresRest DEF StoreInv, StoreTyped
  <1>3. CASE InRedis(Prof(r).pay) /\ checked' = checked \cup {Event(r, "redis", "refused")}
    <2>1. RedisStep({Event(r, "redis", "refused")})
      BY <1>1, <1>3, EventFields DEF RedisStep, InRedis, StoreInv, StoreTyped
    <2> QED BY <1>1, <2>1, RedisStepKeeps
  <1> QED BY <1>2, <1>3 DEF RedisGet

LEMMA RedisSetStores ==
    ASSUME RequestInv, StoreInv, NEW r \in Requests, RedisSet(r)
    PROVE  StoreInv'
  <1> DEFINE p == Prof(r).pay
             Accepted == Event(r, "redis", "accepted")
             Orphan   == Event(r, "redis", "orphan")
             Refused  == Event(r, "redis", "refused")
  <1>1. /\ file' = file /\ copy' = copy /\ overlapped' = overlapped /\ now' = now /\ p \in Payments
    BY HoldsPayment DEF RedisSet, fixedVars, At, Checking
  <1>2. now \in Nat /\ ReplayWindow \in Nat \ {0} /\ redis \in [Payments -> Nat]
    BY ApiAssumption DEF StoreInv, StoreTyped
  <1>3. /\ Accepted.pay = p /\ Accepted.store = "redis" /\ Accepted.at = now /\ Accepted.what = "accepted"
        /\ Orphan.pay = p /\ Orphan.store = "redis" /\ Orphan.at = now /\ Orphan.what = "orphan"
        /\ Refused.pay = p /\ Refused.store = "redis" /\ Refused.at = now /\ Refused.what = "refused"
    BY EventFields
  <1>4. CASE redis' = redis /\ checked' = checked
    BY <1>1, <1>4, StoresRest DEF StoreInv, StoreTyped
  <1>5. CASE ~SetTaken(p) /\ redis' = redis /\ checked' = checked \cup {Refused}
    <2> HIDE DEF Refused
    <2>1. RedisStep({Refused})
      BY <1>1, <1>2, <1>3, <1>5 DEF RedisStep, InRedis, SetTaken
    <2> QED BY <1>1, <2>1, RedisStepKeeps
  <1>6. CASE /\ SetTaken(p) /\ redis' = [redis EXCEPT ![p] = now + ReplayWindow]
             /\ \/ checked' = checked \cup {Accepted}
                \/ checked' = checked \cup {Orphan, Refused}
                \/ checked' = checked \cup {Orphan}
    <2>1. /\ redis' \in [Payments -> Nat] /\ redis[p] <= now /\ redis'[p] = now + ReplayWindow
          /\ \A q \in Payments \ {p} : redis'[q] = redis[q]
          /\ redis'[p] > now
      BY <1>1, <1>2, <1>6 DEF SetTaken, InRedis
    <2> HIDE DEF Accepted, Orphan, Refused
    <2>2. CASE checked' = checked \cup {Accepted}
      <3>1. RedisStep({Accepted})
        BY <1>1, <1>3, <2>1, <2>2 DEF RedisStep
      <3> QED BY <1>1, <3>1, RedisStepKeeps
    <2>3. CASE checked' = checked \cup {Orphan, Refused}
      <3>1. RedisStep({Orphan, Refused})
        BY <1>1, <1>3, <2>1, <2>3 DEF RedisStep
      <3> QED BY <1>1, <3>1, RedisStepKeeps
    <2>4. CASE checked' = checked \cup {Orphan}
      <3>1. RedisStep({Orphan})
        BY <1>1, <1>3, <2>1, <2>4 DEF RedisStep
      <3> QED BY <1>1, <3>1, RedisStepKeeps
    <2> QED BY <1>6, <2>2, <2>3, <2>4
  <1> QED BY <1>4, <1>5, <1>6 DEF RedisSet

\* A restart lets commands arrive whose answers nobody reads.
LEMMA RestartStores ==
    ASSUME RequestInv, StoreInv, Restart
    PROVE  StoreInv'
  <1>1. file' = file /\ copy' = copy /\ overlapped' = overlapped /\ now' = now
    BY DEF Restart
  <1>2. now \in Nat /\ ReplayWindow \in Nat \ {0} /\ redis \in [Payments -> Nat]
    BY ApiAssumption DEF StoreInv, StoreTyped
  <1>3. PICK arrived \in SUBSET {r \in Requests : At(r, "redis_set") /\ Prof(r).server = "api"
                                                 /\ ~InRedis(Prof(r).pay)} :
          /\ redis' = [p \in Payments |-> IF \E r \in arrived : Prof(r).pay = p
                                          THEN now + ReplayWindow ELSE redis[p]]
          /\ checked' = checked \cup {Event(r, "redis", "orphan") : r \in arrived}
    BY DEF Restart
  <1>4. \A r \in arrived : Prof(r).pay \in Payments /\ redis[Prof(r).pay] <= now
    <2> TAKE r \in arrived
    <2>1. Prof(r).pay \in Payments
      BY <1>3, HoldsPayment DEF At, Checking
    <2> QED BY <1>2, <1>3, <2>1 DEF InRedis
  <1> DEFINE E == {Event(r, "redis", "orphan") : r \in arrived}
  <1>5. ASSUME NEW e \in E
        PROVE  \E r \in arrived : e.pay = Prof(r).pay /\ e.store = "redis" /\ e.at = now /\ e.what = "orphan"
    <2>1. PICK r \in arrived : e = Event(r, "redis", "orphan")
      OBVIOUS
    <2> QED BY <2>1, EventFields
  <1>6. ASSUME NEW r \in arrived PROVE \E e \in E : e.pay = Prof(r).pay /\ e.what = "orphan"
    <2>1. Event(r, "redis", "orphan") \in E
      OBVIOUS
    <2> QED BY <2>1, EventFields
  <1>7. checked' = checked \cup E
    BY <1>3
  <1> HIDE DEF E
  <1>8. RedisStep(E)
    <2>1. redis' \in [Payments -> Nat]
      BY <1>2, <1>3
    <2>2. \A e \in E : e.store = "redis" /\ e.at = now /\ e.pay \in Payments /\ e.what = "orphan"
      BY <1>4, <1>5
    <2>3. ASSUME NEW p \in Payments, redis'[p] # redis[p]
          PROVE  /\ redis[p] <= now /\ redis'[p] = now + ReplayWindow
                 /\ \E e \in E : e.pay = p /\ e.what # "refused"
      <3>1. PICK r \in arrived : Prof(r).pay = p
        BY <1>3, <2>3
      <3>2. PICK e \in E : e.pay = p /\ e.what = "orphan"
        BY <1>6, <3>1
      <3> QED BY <1>3, <1>4, <3>1, <3>2
    <2> QED BY <1>7, <2>1, <2>2, <2>3 DEF RedisStep
  <1> QED BY <1>1, <1>8, RedisStepKeeps

LEMMA FileReadStores ==
    ASSUME RequestInv, StoreInv, NEW r \in Requests, FileRead(r)
    PROVE  StoreInv'
  <1>1. Prof(r).server \in Servers
    BY HoldsPayment DEF FileRead, At, Checking
  <1>2. /\ redis' = redis /\ file' = file /\ overlapped' = overlapped /\ checked' = checked /\ now' = now
        /\ \E s \in Servers : copy' = [copy EXCEPT ![s] = file]
    BY <1>1 DEF FileRead, fixedVars
  <1>3. now' \in Nat /\ now' >= now
    BY <1>2 DEF StoreInv, StoreTyped
  <1> QED BY <1>2, <1>3, StoresRest

\* The writer of the file has the only check that is under way on its server;
\* what the other server wrote in between is what overlapped remembers.
LEMMA FileWriteStores ==
    ASSUME RequestInv, StoreInv, NEW r \in Requests, FileWrite(r)
    PROVE  StoreInv'
  <1> DEFINE p    == Prof(r).pay
             s    == Prof(r).server
             kept == Pruned(copy[s])
             Accepted == Event(r, "file", "accepted")
             Refused  == Event(r, "file", "refused")
  <1>1. /\ redis' = redis /\ copy' = copy /\ now' = now
        /\ p \in Payments /\ s \in Servers
    BY HoldsPayment DEF FileWrite, fixedVars, Checking
  <1>2. /\ now \in Nat /\ ReplayWindow \in Nat \ {0} /\ NotSeen = 0 - ReplayWindow
        /\ copy[s] \in [Payments -> Int] /\ file \in [Payments -> Int]
    BY <1>1, ApiAssumption DEF StoreInv, StoreTyped, NotSeen
  <1>3. /\ Accepted.pay = p /\ Accepted.store = "file" /\ Accepted.at = now /\ Accepted.what = "accepted"
        /\ Refused.pay = p /\ Refused.store = "file" /\ Refused.at = now /\ Refused.what = "refused"
        /\ Accepted.request = r
    BY EventFields
  <1>4. /\ kept \in [Payments -> Int]
        /\ \A q \in Payments : \/ kept[q] = copy[s][q] /\ now - copy[s][q] < ReplayWindow
                               \/ kept[q] = NotSeen /\ now - copy[s][q] >= ReplayWindow
    <2>1. kept = [q \in Payments |-> IF now - copy[s][q] >= ReplayWindow THEN NotSeen ELSE copy[s][q]]
      BY DEF Pruned
    <2>2. NotSeen \in Int
      BY <1>2
    <2> HIDE DEF kept
    <2>3. kept \in [Payments -> Int]
      BY <1>2, <2>1, <2>2
    <2>4. ASSUME NEW q \in Payments
          PROVE  \/ kept[q] = copy[s][q] /\ now - copy[s][q] < ReplayWindow
                 \/ kept[q] = NotSeen /\ now - copy[s][q] >= ReplayWindow
      <3>1. copy[s][q] \in Int /\ now - copy[s][q] \in Int
        BY <1>2
      <3>2. now - copy[s][q] >= ReplayWindow \/ now - copy[s][q] < ReplayWindow
        BY <1>2, <3>1
      <3> QED BY <2>1, <3>2
    <2> QED BY <2>3, <2>4
  <1>5. CASE file' = file /\ overlapped' = overlapped /\ checked' = checked
    BY <1>1, <1>2, <1>5, StoresRest
  <1>6. CASE /\ file' = [kept EXCEPT ![p] = IF @ = NotSeen THEN now ELSE @]
             /\ overlapped' = (overlapped \/ file # copy[s])
             /\ \/ kept[p] = NotSeen /\ checked' = checked \cup {Accepted}
                \/ kept[p] # NotSeen /\ checked' = checked \cup {Refused}
    <2> HIDE DEF kept, Accepted, Refused
    <2>1. /\ file' \in [Payments -> Int]
          /\ \A q \in Payments \ {p} : file'[q] = kept[q]
          /\ file'[p] = IF kept[p] = NotSeen THEN now ELSE kept[p]
      BY <1>1, <1>2, <1>4, <1>6
    <2>2. /\ checked \subseteq checked'
          /\ \A e \in checked' : \/ e \in checked
                                 \/ e = Accepted /\ kept[p] = NotSeen
                                 \/ e = Refused /\ kept[p] # NotSeen
          /\ kept[p] = NotSeen => Accepted \in checked'
      BY <1>6
    <2>3. StoreTyped'
      BY <1>1, <1>6, <2>1 DEF StoreInv, StoreTyped
    <2>4. EventsTyped'
      BY <1>1, <1>2, <1>3, <2>2 DEF StoreInv, EventsTyped
    <2>5. RedisRemembers'
      BY <1>1, <1>3, <2>2 DEF StoreInv, RedisRemembers
    <2>6. RedisVouched'
      BY <1>1, <2>2 DEF StoreInv, RedisVouched
    <2>7. FileRemembers'
      <3> SUFFICES ASSUME ~overlapped', NEW e \in checked', e.store = "file", e.what = "accepted"
                   PROVE  file'[e.pay] >= e.at \/ now' - e.at >= ReplayWindow
        BY DEF FileRemembers
      <3>1. ~overlapped /\ file = copy[s]
        BY <1>6 DEF StoreInv, StoreTyped
      <3>2. CASE e \in checked
        <4>1. /\ e.pay \in Payments /\ e.at \in Nat /\ e.at <= now
              /\ file[e.pay] >= e.at \/ now - e.at >= ReplayWindow
          BY <3>1, <3>2 DEF StoreInv, FileRemembers, EventsTyped
        <4>2. file'[e.pay] = kept[e.pay] \/ file'[e.pay] = now
          BY <2>1, <4>1
        <4>3. \/ kept[e.pay] = file[e.pay]
              \/ now - file[e.pay] >= ReplayWindow
          BY <1>4, <3>1, <4>1
        <4> QED BY <1>1, <1>2, <4>1, <4>2, <4>3
      <3>3. CASE e = Accepted /\ kept[p] = NotSeen
        BY <1>2, <1>3, <2>1, <3>3
      <3> QED BY <1>3, <2>2, <3>2, <3>3
    <2>8. Vouched(copy[s]) /\ Vouched(file)
      BY <1>1 DEF StoreInv
    <2>9. Vouched(file)'
      <3> SUFFICES ASSUME NEW q \in Payments, file'[q] # NotSeen
                   PROVE  \E a \in checked' : /\ a.what = "accepted" /\ a.store = "file" /\ a.pay = q
                                              /\ file'[q] = a.at
        BY DEF Vouched, NotSeen
      <3>1. CASE q = p /\ kept[p] = NotSeen
        BY <1>3, <2>1, <2>2, <3>1
      <3>2. CASE ~(q = p /\ kept[p] = NotSeen)
        <4>1. file'[q] = kept[q] /\ kept[q] = copy[s][q]
          BY <1>4, <2>1, <3>2
        <4>2. PICK a \in checked : /\ a.what = "accepted" /\ a.store = "file" /\ a.pay = q
                                   /\ copy[s][q] = a.at
          BY <2>8, <4>1 DEF Vouched
        <4> QED BY <2>2, <4>1, <4>2
      <3> QED BY <3>1, <3>2
    <2>10. ASSUME NEW t \in Servers PROVE Vouched(copy[t])'
      BY <1>1, <2>2 DEF StoreInv, Vouched, NotSeen
    <2>11. OncePerStore'
      <3> SUFFICES ASSUME NEW a \in checked', NEW b \in checked', a.what = "accepted", b.what = "accepted",
                          a.request # b.request, a.pay = b.pay, a.store = b.store
                   PROVE  \/ b.at - a.at >= ReplayWindow
                          \/ a.at - b.at >= ReplayWindow
                          \/ a.store = "file" /\ overlapped'
        BY DEF OncePerStore
      <3>1. ASSUME NEW c \in checked, kept[p] = NotSeen, c.what = "accepted", c.pay = p,
                   c.store = "file", ~overlapped'
            PROVE  now - c.at >= ReplayWindow
        <4>1. ~overlapped /\ file = copy[s]
          BY <1>6, <3>1 DEF StoreInv, StoreTyped
        <4>2. c.at \in Nat /\ (file[p] >= c.at \/ now - c.at >= ReplayWindow)
          BY <3>1, <4>1 DEF StoreInv, FileRemembers, EventsTyped
        <4>3. now - file[p] >= ReplayWindow
          BY <1>1, <1>2, <1>4, <3>1, <4>1
        <4> QED BY <1>1, <1>2, <4>2, <4>3
      <3>2. CASE a \in checked /\ b \in checked
        <4>1. overlapped => overlapped'
          BY <1>6
        <4> QED BY <3>2, <4>1 DEF StoreInv, OncePerStore
      <3>3. CASE a \in checked /\ b = Accepted /\ kept[p] = NotSeen
        BY <1>3, <3>1, <3>3
      <3>4. CASE b \in checked /\ a = Accepted /\ kept[p] = NotSeen
        BY <1>3, <3>1, <3>4
      <3> QED BY <1>3, <2>2, <3>2, <3>3, <3>4
    <2>12. RefusedWasRecorded'
      <3> SUFFICES ASSUME NEW b \in checked', b.what = "refused"
                   PROVE  \E a \in checked' : /\ a.what # "refused" /\ a.pay = b.pay /\ a.store = b.store
                                              /\ a.at <= b.at /\ b.at - a.at < ReplayWindow
        BY DEF RefusedWasRecorded
      <3>1. CASE b \in checked
        BY <2>2, <3>1 DEF StoreInv, RefusedWasRecorded
      <3>2. CASE b = Refused /\ kept[p] # NotSeen
        <4>1. kept[p] = copy[s][p] /\ now - copy[s][p] < ReplayWindow
          BY <1>1, <1>4, <3>2
        <4>2. PICK a \in checked : /\ a.what = "accepted" /\ a.store = "file" /\ a.pay = p
                                   /\ copy[s][p] = a.at
          BY <1>1, <2>8, <3>2, <4>1 DEF Vouched
        <4>3. a.at <= now
          BY <4>2 DEF StoreInv, EventsTyped
        <4> QED BY <1>3, <2>2, <3>2, <4>1, <4>2, <4>3
      <3> QED BY <1>3, <2>2, <3>1, <3>2
    <2> QED BY <2>3, <2>4, <2>5, <2>6, <2>7, <2>9, <2>10, <2>11, <2>12 DEF StoreInv
  <1> QED BY <1>5, <1>6 DEF FileWrite

LEMMA StoresNext ==
    ASSUME RequestInv, StoreInv, [Next]_vars
    PROVE  StoreInv'
  <1> USE DEF fixedVars, storeVars
  <1>1. now \in Nat /\ now + 1 \in Nat /\ now + 1 >= now
    BY DEF StoreInv, StoreTyped
  <1>2. ASSUME NEW r \in Requests,
               \/ \E p \in Traffic[env] : Receive(r, p)
               \/ Finish(r) \/ Verify(r) \/ RunPaid(r) \/ Settle(r) \/ SettlementLands(r)
        PROVE  StoreInv'
    <2>1. UNCHANGED <<now, redis, file, copy, overlapped, checked>>
      BY <1>2 DEF Receive, Finish, Verify, RunPaid, Settle, SettlementLands
    <2> QED BY <1>1, <2>1, StoresRest
  <1>3. ASSUME NEW r \in Requests,
               RedisGet(r) \/ RedisSet(r) \/ FileRead(r) \/ FileWrite(r)
        PROVE  StoreInv'
    BY <1>3, RedisGetStores, RedisSetStores, FileReadStores, FileWriteStores
  <1>4. CASE Tick
    BY <1>1, <1>4, StoresRest DEF Tick
  <1>5. CASE UNCHANGED vars
    BY <1>1, <1>5, StoresRest DEF vars
  <1> QED BY <1>2, <1>3, <1>4, <1>5, RestartStores DEF Next

LEMMA StoresInit == Init => StoreInv
  <1> SUFFICES ASSUME Init PROVE StoreInv
    OBVIOUS
  <1>1. /\ now = 0 /\ overlapped = FALSE /\ checked = {}
        /\ redis = [p \in Payments |-> 0] /\ file = [p \in Payments |-> NotSeen]
        /\ copy = [s \in Servers |-> file]
    BY DEF Init
  <1>2. NotSeen \in Int
    BY ApiAssumption DEF NotSeen
  <1>3. StoreTyped
    BY <1>1, <1>2 DEF StoreTyped
  <1>4. Vouched(file) /\ \A s \in Servers : Vouched(copy[s])
    BY <1>1 DEF Vouched
  <1>5. EventsTyped /\ RedisRemembers /\ RedisVouched /\ FileRemembers /\ OncePerStore /\ RefusedWasRecorded
    BY <1>1 DEF EventsTyped, RedisRemembers, RedisVouched, FileRemembers, OncePerStore, RefusedWasRecorded
  <1> QED BY <1>3, <1>4, <1>5 DEF StoreInv

LEMMA StoresAlways == Spec => [](RequestInv /\ StoreInv)
  BY RequestsInit, StoresInit, RequestsNext, StoresNext, PTL DEF Spec

\* x402Gate: an authorization passes a replay store once in a window, for
\* every window, number of requests and restarts, whatever answers are lost.
THEOREM PassesAStoreOnce == Spec => []OncePerStore
  <1>1. StoreInv => OncePerStore
    BY DEF StoreInv
  <1> QED BY <1>1, StoresAlways, PTL

\* What a store refuses as used was recorded there less than a window ago.
THEOREM RefusedIsRecorded == Spec => []RefusedWasRecorded
  <1>1. StoreInv => RefusedWasRecorded
    BY DEF StoreInv
  <1> QED BY <1>1, StoresAlways, PTL

-----------------------------------------------------------------------------
(* The quota                                                               *)

MaxOf(c) == QuotaMax[c[2]]

\* What a caller was granted in the window its bucket counts, and in the
\* window's length before that.
Current(c) == {a \in admitted : a.caller = c /\ a.at + QuotaWindow >= bucket[c].resetAt}
Before(c)  == {a \in admitted : /\ a.caller = c
                                /\ a.at + QuotaWindow < bucket[c].resetAt
                                /\ a.at + 2 * QuotaWindow >= bucket[c].resetAt}

\* What it was granted in a window's length from one of its requests on.
Stretch(a) == {b \in admitted : /\ b.caller = a.caller
                                /\ b.at >= a.at /\ b.at - a.at < QuotaWindow}

QuotaTyped ==
    /\ now \in Nat /\ env \in Environments
    /\ bucket \in [Callers -> [count : Nat, resetAt : Nat]]
    /\ IsFiniteSet(admitted)
    /\ \A a \in admitted : a.at \in Nat /\ a.at <= now /\ a.caller \in Callers

\* A bucket counts what its caller was granted in its window, which has not
\* ended for the last of it.
BucketOK(c) ==
    /\ bucket[c].resetAt <= now + QuotaWindow
    /\ Cardinality(Current(c)) <= bucket[c].count
    /\ Cardinality(Current(c)) <= MaxOf(c)
    /\ Cardinality(Before(c)) <= MaxOf(c)
    /\ \A a \in admitted : a.caller = c => a.at < bucket[c].resetAt

QuotaInv ==
    /\ QuotaTyped
    /\ \A c \in Callers : BucketOK(c)
    /\ \A a \in admitted : Cardinality(Stretch(a)) <= 2 * MaxOf(a.caller)

\* Whoever makes a request is a caller, and its tier has a quota.
LEMMA CallerHasQuota ==
    /\ \A c \in Callers : MaxOf(c) \in Nat \ {0}
    /\ \A e \in Environments : \A p \in Traffic[e] : CallerOf(p, Resolve(e, p.key)) \in Callers
  <1>1. ASSUME NEW e \in Environments, NEW p \in Traffic[e]
        PROVE  /\ CallerOf(p, Resolve(e, p.key)) \in Callers
               /\ MaxOf(CallerOf(p, Resolve(e, p.key))) \in Nat \ {0}
    <2>1. CallerOf(p, Resolve(e, p.key)) \in Callers
      BY <1>1 DEF Callers
    <2>2. TierFor(p.path, Resolve(e, p.key)) \in Tiers
      BY DEF TierFor, Tiers
    <2>3. CallerOf(p, Resolve(e, p.key))[2] \in Tiers \cup {"x402"}
      BY <2>2 DEF CallerOf
    <2> QED BY <2>1, <2>3, ApiAssumption DEF MaxOf
  <1>2. ASSUME NEW c \in Callers PROVE MaxOf(c) \in Nat \ {0}
    <2>1. PICK e \in Environments : c \in {CallerOf(p, Resolve(e, p.key)) : p \in Traffic[e]}
      BY DEF Callers
    <2>2. PICK p \in Traffic[e] : c = CallerOf(p, Resolve(e, p.key))
      BY <2>1
    <2> QED BY <1>1, <2>2
  <1> QED BY <1>1, <1>2

LEMMA SmallerSet ==
    ASSUME NEW S, IsFiniteSet(S), NEW T, T \subseteq S, NEW n \in Nat, Cardinality(S) <= n
    PROVE  IsFiniteSet(T) /\ Cardinality(T) \in Nat /\ Cardinality(T) <= n
  <1>1. IsFiniteSet(T) /\ Cardinality(T) <= Cardinality(S)
    BY FS_Subset
  <1>2. Cardinality(T) \in Nat /\ Cardinality(S) \in Nat
    BY <1>1, FS_CardinalityType
  <1> QED BY <1>1, <1>2

LEMMA OneMore ==
    ASSUME NEW S, IsFiniteSet(S), NEW e, NEW T, T \subseteq S \cup {e}, NEW n \in Nat, Cardinality(S) <= n
    PROVE  Cardinality(T) <= n + 1
  <1>1. IsFiniteSet(S \cup {e}) /\ Cardinality(S) \in Nat
        /\ (Cardinality(S \cup {e}) = Cardinality(S) \/ Cardinality(S \cup {e}) = Cardinality(S) + 1)
    BY FS_AddElement, FS_CardinalityType
  <1>2. Cardinality(S \cup {e}) <= n + 1
    BY <1>1
  <1> QED BY <1>1, <1>2, SmallerSet

LEMMA TwoSets ==
    ASSUME NEW S, NEW U, IsFiniteSet(S), IsFiniteSet(U), NEW T, T \subseteq S \cup U,
           NEW n \in Nat, Cardinality(S) <= n, Cardinality(U) <= n
    PROVE  Cardinality(T) <= 2 * n
  <1>1. /\ IsFiniteSet(S \cup U) /\ Cardinality(S) \in Nat /\ Cardinality(U) \in Nat
        /\ Cardinality(S \cap U) \in Nat
        /\ Cardinality(S \cup U) = Cardinality(S) + Cardinality(U) - Cardinality(S \cap U)
    BY FS_Union, FS_Intersection, FS_CardinalityType
  <1>2. Cardinality(S \cup U) <= 2 * n
    BY <1>1
  <1> QED BY <1>1, <1>2, SmallerSet

\* Both servers' counts: a window that has ended begins again.
LEMMA UsedCounts ==
    ASSUME NEW b \in [count : Nat, resetAt : Nat], NEW t \in Nat,
           NEW used, used = Consumed(b, t, QuotaWindow) \/ used = ConsumedX402(b, t, QuotaWindow)
    PROVE  /\ used \in [count : Nat, resetAt : Nat]
           /\ b.resetAt <= t => used.count = 1 /\ used.resetAt = t + QuotaWindow
           /\ ~(b.resetAt <= t) => used.count = b.count + 1 /\ used.resetAt = b.resetAt
  <1>1. QuotaWindow \in Nat
    BY ApiAssumption
  <1>2. CASE b.resetAt <= t
    BY <1>1, <1>2 DEF Consumed, ConsumedX402
  <1>3. CASE ~(b.resetAt <= t)
    BY <1>1, <1>3 DEF Consumed, ConsumedX402
  <1> QED BY <1>2, <1>3

LEMMA CurrentFinite ==
    ASSUME QuotaTyped, NEW c
    PROVE  /\ IsFiniteSet(Current(c)) /\ Cardinality(Current(c)) \in Nat
           /\ IsFiniteSet(Before(c)) /\ Cardinality(Before(c)) \in Nat
  <1>1. Current(c) \subseteq admitted /\ Before(c) \subseteq admitted
    BY DEF Current, Before
  <1> QED BY <1>1, FS_Subset, FS_CardinalityType DEF QuotaTyped

\* Time passes for the buckets, or they forget everything of some callers.
LEMMA BucketsRest ==
    ASSUME QuotaInv, NEW gone \in SUBSET Callers,
           bucket' = [c \in Callers |-> IF c \in gone THEN [count |-> 0, resetAt |-> 0] ELSE bucket[c]],
           admitted' = {a \in admitted : a.caller \notin gone},
           env' = env, now' \in Nat, now' >= now
    PROVE  QuotaInv'
  <1>1. QuotaWindow \in Nat \ {0} /\ now \in Nat
    BY ApiAssumption DEF QuotaInv, QuotaTyped
  <1>2. admitted' \subseteq admitted
    OBVIOUS
  <1>3. QuotaTyped'
    <2>1. IsFiniteSet(admitted')
      BY <1>2, FS_Subset DEF QuotaInv, QuotaTyped
    <2>2. bucket' \in [Callers -> [count : Nat, resetAt : Nat]]
      BY DEF QuotaInv, QuotaTyped
    <2>3. \A a \in admitted' : a.at \in Nat /\ a.at <= now' /\ a.caller \in Callers
      BY <1>1, <1>2 DEF QuotaInv, QuotaTyped
    <2> QED BY <2>1, <2>2, <2>3 DEF QuotaInv, QuotaTyped
  <1>4. ASSUME NEW c \in Callers PROVE BucketOK(c)'
    <2>1. MaxOf(c) \in Nat \ {0} /\ MaxOf(c)' = MaxOf(c)
      BY CallerHasQuota DEF MaxOf
    <2>2. CASE c \in gone
      <3>1. bucket'[c].count = 0 /\ bucket'[c].resetAt = 0
        BY <2>2
      <3>2. \A a \in admitted' : a.caller # c
        BY <2>2
      <3>3. Current(c)' = {} /\ Before(c)' = {}
        BY <3>2 DEF Current, Before
      <3>4. Cardinality(Current(c)') = 0 /\ Cardinality(Before(c)') = 0
        BY <3>3, FS_EmptySet
      <3> QED BY <1>1, <2>1, <3>1, <3>2, <3>4 DEF BucketOK
    <2>3. CASE c \notin gone
      <3>1. bucket'[c] = bucket[c]
        BY <2>3
      <3>2. Current(c)' = Current(c) /\ Before(c)' = Before(c)
        BY <2>3, <3>1 DEF Current, Before
      <3>3. BucketOK(c) /\ bucket[c].resetAt \in Nat
        BY DEF QuotaInv, QuotaTyped
      <3> QED BY <1>1, <1>2, <2>1, <3>1, <3>2, <3>3 DEF BucketOK
    <2> QED BY <2>2, <2>3
  <1>5. ASSUME NEW a \in admitted' PROVE Cardinality(Stretch(a)') <= 2 * MaxOf(a.caller)
    <2>1. Stretch(a)' = Stretch(a)
      BY DEF Stretch
    <2> QED BY <1>2, <2>1 DEF QuotaInv
  <1> QED BY <1>3, <1>4, <1>5 DEF QuotaInv, MaxOf

\* One request more of a caller: it is counted, and granted within its quota.
LEMMA Granted ==
    ASSUME QuotaInv, NEW c \in Callers, NEW e, e.caller = c, e.at = now,
           NEW used, \/ used = Consumed(bucket[c], now, QuotaWindow)
                     \/ used = ConsumedX402(bucket[c], now, QuotaWindow),
           bucket' = [bucket EXCEPT ![c] = used],
           admitted' = IF ~Limited(used, c) THEN admitted \cup {e} ELSE admitted,
           env' = env, now' = now
    PROVE  QuotaInv'
  <1>1. QuotaWindow \in Nat \ {0} /\ now \in Nat /\ bucket[c] \in [count : Nat, resetAt : Nat]
        /\ MaxOf(c) \in Nat \ {0}
    BY ApiAssumption, CallerHasQuota DEF QuotaInv, QuotaTyped
  <1>2. /\ used \in [count : Nat, resetAt : Nat]
        /\ bucket[c].resetAt <= now => used.count = 1 /\ used.resetAt = now + QuotaWindow
        /\ ~(bucket[c].resetAt <= now) => used.count = bucket[c].count + 1 /\ used.resetAt = bucket[c].resetAt
    BY <1>1, UsedCounts
  <1>3. /\ bucket' \in [Callers -> [count : Nat, resetAt : Nat]] /\ bucket'[c] = used
        /\ \A d \in Callers \ {c} : bucket'[d] = bucket[d]
    BY <1>2 DEF QuotaInv, QuotaTyped
  <1>4. /\ admitted \subseteq admitted'
        /\ \A a \in admitted' : a \in admitted \/ (a = e /\ used.count <= MaxOf(c))
    BY <1>1, <1>2 DEF Limited, MaxOf
  <1>5. QuotaTyped'
    <2>1. IsFiniteSet(admitted')
      BY FS_AddElement DEF QuotaInv, QuotaTyped
    <2> QED BY <1>1, <1>3, <1>4, <2>1 DEF QuotaInv, QuotaTyped
  <1>6. QuotaTyped /\ BucketOK(c)
    BY DEF QuotaInv
  <1>7. ASSUME NEW a \in admitted, a.caller = c PROVE a.at \in Nat /\ a.at <= now /\ a.at < bucket[c].resetAt
    BY <1>6, <1>7 DEF QuotaTyped, BucketOK
  <1>8. IsFiniteSet(Current(c)') /\ Cardinality(Current(c)') \in Nat /\ IsFiniteSet(Before(c)')
    <2>1. Current(c)' \subseteq admitted' /\ Before(c)' \subseteq admitted' /\ IsFiniteSet(admitted')
      BY <1>5 DEF QuotaTyped, Current, Before
    <2> QED BY <2>1, FS_Subset, FS_CardinalityType
  <1>9. /\ Cardinality(Current(c)') <= used.count
        /\ Cardinality(Current(c)') <= MaxOf(c)
        /\ Cardinality(Before(c)') <= MaxOf(c)
    <2>1. CASE bucket[c].resetAt <= now
      <3>1. used.count = 1 /\ used.resetAt = now + QuotaWindow
        BY <1>2, <2>1
      <3>2. Current(c)' \subseteq {} \cup {e}
        <4> SUFFICES ASSUME NEW a \in admitted', a.caller = c, a.at + QuotaWindow >= now + QuotaWindow
                     PROVE  a = e
          BY <1>3, <3>1 DEF Current
        <4>1. CASE a \in admitted
          BY <1>1, <1>7, <2>1, <4>1
        <4> QED BY <1>4, <4>1
      <3>3. Cardinality(Current(c)') <= 1
        <4>1. IsFiniteSet({}) /\ Cardinality({}) <= 0
          BY FS_EmptySet
        <4>2. Cardinality(Current(c)') <= 0 + 1
          BY <3>2, <4>1, OneMore
        <4> QED BY <4>2
      <3>4. Before(c)' \subseteq Current(c)
        <4> SUFFICES ASSUME NEW a \in admitted', a.caller = c, a.at + QuotaWindow < now + QuotaWindow,
                            a.at + 2 * QuotaWindow >= now + QuotaWindow
                     PROVE  a \in Current(c)
          BY <1>3, <3>1 DEF Before
        <4>1. a \in admitted
          BY <1>1, <1>4
        <4> QED BY <1>1, <1>7, <2>1, <4>1 DEF Current
      <3>5. Cardinality(Before(c)') <= MaxOf(c)
        BY <1>1, <1>6, <3>4, SmallerSet, CurrentFinite DEF BucketOK
      <3> QED BY <1>1, <1>8, <3>1, <3>3, <3>5
    <2>2. CASE ~(bucket[c].resetAt <= now)
      <3>1. used.count = bucket[c].count + 1 /\ used.resetAt = bucket[c].resetAt
        BY <1>2, <2>2
      <3>2. Before(c)' \subseteq Before(c)
        <4> SUFFICES ASSUME NEW a \in admitted', a.caller = c, a.at + QuotaWindow < bucket[c].resetAt,
                            a.at + 2 * QuotaWindow >= bucket[c].resetAt
                     PROVE  a \in Before(c)
          BY <1>3, <3>1 DEF Before
        <4>1. bucket[c].resetAt <= now + QuotaWindow
          BY <1>6 DEF BucketOK
        <4>2. a \in admitted
          BY <1>1, <1>4, <4>1
        <4> QED BY <4>2 DEF Before
      <3>3. Cardinality(Before(c)') <= MaxOf(c)
        BY <1>1, <1>6, <3>2, SmallerSet, CurrentFinite DEF BucketOK
      <3>4. CASE admitted' = admitted
        <4>1. Current(c)' = Current(c)
          BY <1>3, <3>1, <3>4 DEF Current
        <4> QED BY <1>1, <1>6, <3>1, <3>3, <4>1, CurrentFinite DEF BucketOK
      <3>5. CASE admitted' # admitted
        <4>1. used.count <= MaxOf(c)
          BY <1>1, <1>2, <3>5 DEF Limited, MaxOf
        <4>2. Current(c)' \subseteq Current(c) \cup {e}
          BY <1>3, <1>4, <3>1 DEF Current
        <4>3. IsFiniteSet(Current(c)) /\ Cardinality(Current(c)) <= bucket[c].count
          BY <1>6, CurrentFinite DEF BucketOK
        <4>4. Cardinality(Current(c)') <= bucket[c].count + 1
          BY <1>1, <4>2, <4>3, OneMore
        <4> QED BY <1>1, <1>8, <3>1, <3>3, <4>1, <4>4
      <3> QED BY <3>4, <3>5
    <2> QED BY <2>1, <2>2
  <1>10. BucketOK(c)'
    <2>1. used.resetAt <= now + QuotaWindow /\ used.resetAt > now
      BY <1>1, <1>2, <1>6 DEF BucketOK
    <2>2. ASSUME NEW a \in admitted', a.caller = c PROVE a.at < used.resetAt
      BY <1>1, <1>2, <1>4, <1>7, <2>1, <2>2
    <2>3. MaxOf(c)' = MaxOf(c)
      BY DEF MaxOf
    <2> QED BY <1>3, <1>9, <2>1, <2>2, <2>3 DEF BucketOK
  <1>11. ASSUME NEW d \in Callers, d # c PROVE BucketOK(d)'
    <2>1. Current(d)' = Current(d) /\ Before(d)' = Before(d) /\ MaxOf(d)' = MaxOf(d)
      BY <1>3, <1>4, <1>11 DEF Current, Before, MaxOf
    <2>2. BucketOK(d)
      BY DEF QuotaInv
    <2>3. \A a \in admitted' : a.caller = d => a \in admitted
      BY <1>4, <1>11
    <2> QED BY <1>3, <1>11, <2>1, <2>2, <2>3 DEF BucketOK
  <1>12. ASSUME NEW a \in admitted' PROVE Cardinality(Stretch(a)') <= 2 * MaxOf(a.caller)
    <2>1. CASE a.caller # c
      <3>1. Stretch(a)' = Stretch(a) /\ a \in admitted
        BY <1>4, <2>1 DEF Stretch
      <3> QED BY <3>1 DEF QuotaInv
    <2>2. CASE a.caller = c /\ a.at + QuotaWindow > now
      <3>1. Stretch(a)' \subseteq Current(c)' \cup Before(c)'
        <4> SUFFICES ASSUME NEW b \in admitted', b.caller = c, b.at >= a.at
                     PROVE  b \in Current(c)' \cup Before(c)'
          BY <2>2 DEF Stretch
        <4>1. /\ a.at \in Nat /\ b.at \in Nat /\ used.resetAt \in Nat
              /\ used.resetAt <= now + QuotaWindow
          BY <1>2, <1>3, <1>5, <1>10 DEF QuotaTyped, BucketOK
        <4>2. b.at + 2 * QuotaWindow >= used.resetAt
          BY <1>1, <2>2, <4>1
        <4> QED BY <1>1, <1>3, <4>1, <4>2 DEF Current, Before
      <3> QED BY <1>1, <1>9, <1>8, <2>2, <3>1, TwoSets
    <2>3. CASE a.caller = c /\ ~(a.at + QuotaWindow > now)
      <3>1. a \in admitted /\ a.at \in Nat
        BY <1>1, <1>4, <1>5, <2>3 DEF QuotaTyped
      <3>2. Stretch(a)' = Stretch(a)
        <4>1. ~(e.at - a.at < QuotaWindow)
          BY <1>1, <2>3, <3>1
        <4> QED BY <1>4, <4>1 DEF Stretch
      <3> QED BY <3>1, <3>2 DEF QuotaInv
    <2> QED BY <2>1, <2>2, <2>3
  <1> QED BY <1>5, <1>10, <1>11, <1>12 DEF QuotaInv, MaxOf

LEMMA QuotaNext ==
    ASSUME QuotaInv, [Next]_vars
    PROVE  QuotaInv'
  <1> USE DEF fixedVars, quotaVars
  <1>1. now \in Nat /\ now + 1 \in Nat /\ now + 1 >= now /\ env \in Environments
    BY DEF QuotaInv, QuotaTyped
  <1>2. UNCHANGED <<bucket, admitted, env>> /\ now' \in Nat /\ now' >= now => QuotaInv'
    <2> SUFFICES ASSUME UNCHANGED <<bucket, admitted, env>>, now' \in Nat, now' >= now
                 PROVE  QuotaInv'
      OBVIOUS
    <2>1. bucket' = [c \in Callers |-> IF c \in {} THEN [count |-> 0, resetAt |-> 0] ELSE bucket[c]]
      BY DEF QuotaInv, QuotaTyped
    <2>2. admitted' = {a \in admitted : a.caller \notin {}}
      OBVIOUS
    <2>3. {} \in SUBSET Callers
      OBVIOUS
    <2> QED BY <2>1, <2>2, <2>3, BucketsRest
  <1>3. ASSUME NEW r \in Requests, NEW p \in Traffic[env], Receive(r, p)
        PROVE  QuotaInv'
    <2> DEFINE c == CallerOf(p, Resolve(env, p.key))
               used == IF p.server = "api" THEN Consumed(bucket[c], now, QuotaWindow)
                       ELSE ConsumedX402(bucket[c], now, QuotaWindow)
               e == [request |-> r, caller |-> c, at |-> now]
    <2>1. c \in Callers /\ e.caller = c /\ e.at = now /\ env' = env /\ now' = now
      BY <1>1, <1>3, CallerHasQuota DEF Receive
    <2>2. /\ bucket' = IF Counted(p) THEN [bucket EXCEPT ![c] = used] ELSE bucket
          /\ admitted' = IF Counted(p) /\ ~Limited(used, c) THEN admitted \cup {e} ELSE admitted
      BY <1>3 DEF Receive
    <2>3. used = Consumed(bucket[c], now, QuotaWindow) \/ used = ConsumedX402(bucket[c], now, QuotaWindow)
      OBVIOUS
    <2> HIDE DEF c, used, e
    <2>4. CASE Counted(p)
      BY <2>1, <2>2, <2>3, <2>4, Granted
    <2>5. CASE ~Counted(p)
      BY <1>1, <1>2, <2>1, <2>2, <2>5
    <2> QED BY <2>4, <2>5
  <1>4. ASSUME NEW r \in Requests,
               \/ Finish(r) \/ RedisGet(r) \/ RedisSet(r) \/ FileRead(r) \/ FileWrite(r)
               \/ Verify(r) \/ RunPaid(r) \/ Settle(r) \/ SettlementLands(r)
        PROVE  QuotaInv'
    <2>1. UNCHANGED <<bucket, admitted, env, now>>
      BY <1>4 DEF Finish, RedisGet, RedisSet, FileRead, FileWrite, Verify, RunPaid, Settle, SettlementLands
    <2> QED BY <1>1, <1>2, <2>1
  <1>5. CASE Tick \/ UNCHANGED vars
    BY <1>1, <1>2, <1>5 DEF Tick, vars
  <1>6. CASE Restart
    <2> DEFINE gone == {c \in Callers : c[1] = "api"}
    <2>1. bucket' = [c \in Callers |-> IF c \in gone THEN [count |-> 0, resetAt |-> 0] ELSE bucket[c]]
      BY <1>6 DEF Restart
    <2>2. admitted' = {a \in admitted : a.caller \notin gone}
      BY <1>6 DEF Restart, QuotaInv, QuotaTyped
    <2>3. gone \in SUBSET Callers /\ env' = env /\ now' = now
      BY <1>6 DEF Restart
    <2> HIDE DEF gone
    <2> QED BY <1>1, <2>1, <2>2, <2>3, BucketsRest
  <1> QED BY <1>3, <1>4, <1>5, <1>6 DEF Next

LEMMA QuotaInit == Init => QuotaInv
  <1> SUFFICES ASSUME Init PROVE QuotaInv
    OBVIOUS
  <1>1. now = 0 /\ env \in Environments /\ admitted = {}
        /\ bucket = [c \in Callers |-> [count |-> 0, resetAt |-> 0]]
    BY DEF Init
  <1>2. QuotaTyped
    BY <1>1, FS_EmptySet DEF QuotaTyped
  <1>3. ASSUME NEW c \in Callers PROVE BucketOK(c)
    <2>1. Current(c) = {} /\ Before(c) = {}
      BY <1>1 DEF Current, Before
    <2>2. Cardinality(Current(c)) = 0 /\ Cardinality(Before(c)) = 0
      BY <2>1, FS_EmptySet
    <2> QED BY <1>1, <2>2, CallerHasQuota, ApiAssumption DEF BucketOK
  <1> QED BY <1>1, <1>2, <1>3 DEF QuotaInv

\* QuotaLimiter: no caller is granted more than twice its quota in any stretch
\* of a window's length, for every window and every quota of its tier.
THEOREM TwiceTheQuotaAtMost == Spec => []QuotaHolds
  <1>1. QuotaInv => QuotaHolds
    BY DEF QuotaInv, QuotaHolds, Stretch, MaxOf
  <1> QED BY <1>1, QuotaInit, QuotaNext, PTL DEF Spec

-----------------------------------------------------------------------------
(* The activity ring                                                       *)

\* A remainder is the one number below the divisor that differs from it by a
\* multiple.
LEMMA Remainder ==
    ASSUME NEW c \in Nat \ {0}, NEW x \in Nat, NEW q \in Nat, NEW y \in 0..(c - 1), x = c * q + y
    PROVE  x % c = y
  <1>1. x \div c \in Int /\ x % c \in 0..(c - 1) /\ x = c * (x \div c) + (x % c)
    <2>1. x \div c \in Int
      OBVIOUS
    <2>2. x % c \in 0..(c - 1)
      OBVIOUS
    <2>3. x = c * (x \div c) + (x % c)
      OBVIOUS
    <2> QED BY <2>1, <2>2, <2>3
  <1> DEFINE k == (x \div c) - q
  <1>2. k \in Int /\ c * k = y - (x % c)
    BY <1>1
  <1> HIDE DEF k
  <1>3. k = 0
    <2>1. CASE k >= 1
      <3>1. c * k >= c
        BY <1>2, <2>1
      <3> QED BY <1>1, <1>2, <3>1
    <2>2. CASE k <= 0 - 1
      <3>1. c * k <= 0 - c
        BY <1>2, <2>2
      <3> QED BY <1>1, <1>2, <3>1
    <2> QED BY <1>2, <2>1, <2>2
  <1> QED BY <1>1, <1>2, <1>3

\* Where the i-th newest record is, when the next goes to head.
Slot(head, i) == IF i <= head THEN head - i ELSE head - i + Capacity

LEMMA SlotIsIndex ==
    ASSUME NEW head \in 0..(Capacity - 1), NEW i \in 1..Capacity
    PROVE  /\ (head - i + Capacity * 2) % Capacity = Slot(head, i)
           /\ Slot(head, i) \in 0..(Capacity - 1)
  <1>1. Capacity \in Nat \ {0}
    BY ApiAssumption
  <1>2. CASE i <= head
    <2>1. head - i \in 0..(Capacity - 1) /\ head - i + Capacity * 2 = Capacity * 2 + (head - i)
      BY <1>1, <1>2
    <2>2. head - i + Capacity * 2 \in Nat
      BY <1>1, <2>1
    <2>3. (head - i + Capacity * 2) % Capacity = head - i
      BY <1>1, <2>1, <2>2, Remainder
    <2> QED BY <1>2, <2>1, <2>3 DEF Slot
  <1>3. CASE ~(i <= head)
    <2>1. head - i + Capacity \in 0..(Capacity - 1)
          /\ head - i + Capacity * 2 = Capacity * 1 + (head - i + Capacity)
      BY <1>1, <1>3
    <2>2. head - i + Capacity * 2 \in Nat
      BY <1>1, <2>1
    <2>3. (head - i + Capacity * 2) % Capacity = head - i + Capacity
      BY <1>1, <2>1, <2>2, Remainder
    <2> QED BY <1>3, <2>1, <2>3 DEF Slot
  <1> QED BY <1>2, <1>3

LEMMA NextHead ==
    ASSUME NEW head \in 0..(Capacity - 1)
    PROVE  (head + 1) % Capacity = IF head + 1 = Capacity THEN 0 ELSE head + 1
  <1>1. Capacity \in Nat \ {0}
    BY ApiAssumption
  <1>2. CASE head + 1 = Capacity
    <2>1. head + 1 = Capacity * 1 + 0 /\ 0 \in 0..(Capacity - 1)
      BY <1>1, <1>2
    <2>2. (head + 1) % Capacity = 0
      BY <1>1, <2>1, Remainder
    <2> QED BY <1>2, <2>2
  <1>3. CASE head + 1 # Capacity
    <2>1. head + 1 = Capacity * 0 + (head + 1) /\ head + 1 \in 0..(Capacity - 1)
      BY <1>1, <1>3
    <2>2. (head + 1) % Capacity = head + 1
      BY <1>1, <2>1, Remainder
    <2> QED BY <1>3, <2>2
  <1> QED BY <1>2, <1>3

\* The next head's records are the new one and those before it, each a place
\* further back.
LEMMA SlotsShift ==
    ASSUME NEW head \in 0..(Capacity - 1)
    PROVE  LET next == IF head + 1 = Capacity THEN 0 ELSE head + 1
           IN  /\ next \in 0..(Capacity - 1)
               /\ Slot(next, 1) = head
               /\ \A i \in 2..Capacity : Slot(next, i) = Slot(head, i - 1) /\ Slot(head, i - 1) # head
  <1>1. Capacity \in Nat \ {0}
    BY ApiAssumption
  <1> QED BY <1>1 DEF Slot

\* What an item of the feed may be.
Decisions == {"decided", "NONE"}
Items == [request  : Requests, tier : Tiers,
          caller   : {CallerTypeForEndpoint(p.path) : p \in Profiles \cup {NoProfile}},
          keyId    : {Resolve(e, p.key).keyId : e \in Environments, p \in Profiles \cup {NoProfile}},
          decision : Decisions]

OfDecision(d) == {i \in DOMAIN log : log[i].decision = d}

RingTyped ==
    /\ log \in Seq(Items)
    /\ ring \in [buf : [0..(Capacity - 1) -> Items \cup {None}], head : 0..(Capacity - 1),
                 size : 0..Capacity, recorded : Nat, rateLimited : Nat,
                 byDecision : [Decisions -> Nat], byTier : [Tiers -> Nat]]

\* The ring holds the end of the log, the newest just before the head, and
\* its counters are the log's.
RingInv ==
    /\ RingTyped
    /\ ring.recorded = Len(log)
    /\ ring.size = IF Len(log) < Capacity THEN Len(log) ELSE Capacity
    /\ \A i \in 1..ring.size : ring.buf[Slot(ring.head, i)] = log[Len(log) - i + 1]
    /\ \A d \in Decisions : ring.byDecision[d] = Cardinality(OfDecision(d))

\* One record more.
LEMMA RecordKeeps ==
    ASSUME RingInv, NEW item \in Items, ring' = Recorded(ring, item), log' = Append(log, item)
    PROVE  RingInv'
  <1> DEFINE n == Len(log)
             head == ring.head
             next == IF head + 1 = Capacity THEN 0 ELSE head + 1
  <1>1. /\ Capacity \in Nat \ {0} /\ n \in Nat /\ head \in 0..(Capacity - 1)
        /\ log \in Seq(Items) /\ ring.size \in 0..Capacity
        /\ item.decision \in Decisions /\ item.tier \in Tiers
    BY ApiAssumption DEF RingInv, RingTyped, Items
  <1>2. /\ log' \in Seq(Items) /\ Len(log') = n + 1 /\ log'[n + 1] = item
        /\ DOMAIN log = 1..n /\ DOMAIN log' = 1..(n + 1)
        /\ \A i \in 1..n : log'[i] = log[i]
    BY <1>1
  <1>3. ring' = [ring EXCEPT !.buf[head] = item,
                             !.head = (@ + 1) % Capacity,
                             !.size = IF @ < Capacity THEN @ + 1 ELSE @,
                             !.recorded = @ + 1, !.byDecision[item.decision] = @ + 1, !.byTier[item.tier] = @ + 1]
    BY DEF Recorded
  <1>4. (head + 1) % Capacity = next
    BY <1>1, NextHead
  <1>5. /\ next \in 0..(Capacity - 1) /\ Slot(next, 1) = head
        /\ \A i \in 2..Capacity : Slot(next, i) = Slot(head, i - 1) /\ Slot(head, i - 1) # head
    BY <1>1, SlotsShift
  <1> HIDE DEF next
  <1>6. /\ ring'.buf = [ring.buf EXCEPT ![head] = item]
        /\ ring'.head = next
        /\ ring'.size = IF ring.size < Capacity THEN ring.size + 1 ELSE ring.size
        /\ ring'.recorded = ring.recorded + 1
        /\ ring'.rateLimited = ring.rateLimited
        /\ ring'.byDecision = [ring.byDecision EXCEPT ![item.decision] = @ + 1]
        /\ ring'.byTier = [ring.byTier EXCEPT ![item.tier] = @ + 1]
    BY <1>3, <1>4 DEF RingInv, RingTyped
  <1>7. RingTyped'
    <2>1. /\ ring'.buf \in [0..(Capacity - 1) -> Items \cup {None}] /\ ring'.head \in 0..(Capacity - 1)
          /\ ring'.size \in 0..Capacity
      BY <1>1, <1>5, <1>6 DEF RingInv, RingTyped
    <2>2. ring'.recorded \in Nat /\ ring'.rateLimited \in Nat
      BY <1>6 DEF RingInv, RingTyped
    <2>3. ring'.byDecision \in [Decisions -> Nat] /\ ring'.byTier \in [Tiers -> Nat]
      BY <1>1, <1>6 DEF RingInv, RingTyped
    <2>4. ring' = [buf |-> ring'.buf, head |-> ring'.head, size |-> ring'.size, recorded |-> ring'.recorded,
                   rateLimited |-> ring'.rateLimited, byDecision |-> ring'.byDecision, byTier |-> ring'.byTier]
      BY <1>3 DEF RingInv, RingTyped
    <2> QED BY <1>2, <2>1, <2>2, <2>3, <2>4 DEF RingTyped
  <1>8. ring'.recorded = Len(log') /\ ring'.size = IF Len(log') < Capacity THEN Len(log') ELSE Capacity
    BY <1>1, <1>2, <1>6 DEF RingInv
  <1>9. ASSUME NEW i \in 1..ring'.size PROVE ring'.buf[Slot(ring'.head, i)] = log'[Len(log') - i + 1]
    <2>1. ring.buf \in [0..(Capacity - 1) -> Items \cup {None}]
      BY DEF RingInv, RingTyped
    <2>2. CASE i = 1
      BY <1>1, <1>2, <1>5, <1>6, <2>1, <2>2
    <2>3. CASE i # 1
      <3>1. i \in 2..Capacity /\ i - 1 \in 1..ring.size /\ i - 1 \in 1..Capacity /\ i - 1 \in 1..n
        BY <1>1, <1>6, <2>3 DEF RingInv
      <3>2. Slot(ring'.head, i) = Slot(head, i - 1) /\ Slot(head, i - 1) # head
        BY <1>5, <1>6, <3>1
      <3>3. Slot(head, i - 1) \in 0..(Capacity - 1)
        BY <1>1, <3>1, SlotIsIndex
      <3>4. ring'.buf[Slot(ring'.head, i)] = ring.buf[Slot(head, i - 1)]
        BY <1>6, <2>1, <3>2, <3>3
      <3>5. ring.buf[Slot(head, i - 1)] = log[n - (i - 1) + 1]
        BY <3>1 DEF RingInv
      <3>6. Len(log') - i + 1 = n - (i - 1) + 1 /\ n - (i - 1) + 1 \in 1..n
        BY <1>1, <1>2, <3>1
      <3> QED BY <1>2, <3>4, <3>5, <3>6
    <2> QED BY <2>2, <2>3
  <1>10. ASSUME NEW d \in Decisions PROVE ring'.byDecision[d] = Cardinality(OfDecision(d)')
    <2>1. IsFiniteSet(OfDecision(d))
      <3>1. OfDecision(d) \subseteq 1..n
        BY <1>2 DEF OfDecision
      <3>2. IsFiniteSet(1..n)
        BY <1>1, FS_Interval
      <3> QED BY <3>1, <3>2, FS_Subset
    <2>2. n + 1 \notin OfDecision(d)
      BY <1>1, <1>2 DEF OfDecision
    <2>3. ring.byDecision[d] = Cardinality(OfDecision(d)) /\ ring.byDecision \in [Decisions -> Nat]
      BY DEF RingInv, RingTyped
    <2>4. CASE item.decision = d
      <3>1. OfDecision(d)' = OfDecision(d) \cup {n + 1}
        BY <1>1, <1>2, <2>4 DEF OfDecision
      <3>2. Cardinality(OfDecision(d) \cup {n + 1}) = Cardinality(OfDecision(d)) + 1
        BY <2>1, <2>2, FS_AddElement
      <3> QED BY <1>6, <2>3, <2>4, <3>1, <3>2
    <2>5. CASE item.decision # d
      <3>1. OfDecision(d)' = OfDecision(d)
        BY <1>1, <1>2, <2>5 DEF OfDecision
      <3> QED BY <1>6, <2>3, <2>5, <3>1
    <2> QED BY <2>4, <2>5
  <1> QED BY <1>7, <1>8, <1>9, <1>10 DEF RingInv

LEMMA ItemTyped ==
    ASSUME RequestInv, NEW r \in Requests, NEW d \in Decisions
    PROVE  ActivityItem(r, d) \in Items
  <1>1. env \in Environments /\ Prof(r) \in Profiles \cup {NoProfile}
    BY DEF RequestInv, ReqTyped, Prof
  <1>2. TierFor(Prof(r).path, Who(r)) \in Tiers
    BY DEF TierFor, Tiers
  <1>3. /\ CallerTypeForEndpoint(Prof(r).path) \in {CallerTypeForEndpoint(p.path) : p \in Profiles \cup {NoProfile}}
        /\ Who(r).keyId \in {Resolve(e, p.key).keyId : e \in Environments, p \in Profiles \cup {NoProfile}}
    BY <1>1 DEF Who
  <1> QED BY <1>2, <1>3 DEF ActivityItem, Items

LEMMA EmptyRingOK ==
    ASSUME ring = EmptyRing, log = <<>>
    PROVE  RingInv
  <1>1. Capacity \in Nat \ {0}
    BY ApiAssumption
  <1>2. /\ ring.buf = [i \in 0..(Capacity - 1) |-> None] /\ ring.head = 0 /\ ring.size = 0 /\ ring.recorded = 0
        /\ ring.byDecision = [d \in Decisions |-> 0]
    BY DEF EmptyRing, Decisions
  <1>3. RingTyped
    BY <1>1 DEF RingTyped, EmptyRing, Decisions
  <1>4. ASSUME NEW d \in Decisions PROVE ring.byDecision[d] = Cardinality(OfDecision(d))
    <2>1. OfDecision(d) = {}
      BY DEF OfDecision
    <2>2. Cardinality(OfDecision(d)) = 0
      BY <2>1, FS_EmptySet
    <2> QED BY <1>2, <2>2
  <1>5. Len(log) = 0
    OBVIOUS
  <1> QED BY <1>1, <1>2, <1>3, <1>4, <1>5 DEF RingInv

LEMMA RingsNext ==
    ASSUME RequestInv, RingInv, [Next]_vars
    PROVE  RingInv'
  <1> USE DEF feedVars
  <1>1. UNCHANGED feedVars => RingInv'
    BY DEF RingInv, RingTyped, OfDecision
  <1>2. ASSUME NEW r \in Requests, NEW p \in Traffic[env], Receive(r, p)
        PROVE  RingInv'
    <2>1. log' = log /\ (ring' = ring \/ ring' = [ring EXCEPT !.rateLimited = @ + 1])
      BY <1>2 DEF Receive
    <2>2. CASE ring' = [ring EXCEPT !.rateLimited = @ + 1]
      <3>1. /\ ring'.buf = ring.buf /\ ring'.head = ring.head /\ ring'.size = ring.size
            /\ ring'.recorded = ring.recorded /\ ring'.byDecision = ring.byDecision
        BY <2>2 DEF RingInv, RingTyped
      <3>2. ring.rateLimited + 1 \in Nat /\ RingTyped
        BY DEF RingInv, RingTyped
      <3>3. RingTyped'
        BY <2>1, <2>2, <3>2 DEF RingTyped
      <3> QED BY <2>1, <3>1, <3>3 DEF RingInv, OfDecision
    <2> QED BY <1>1, <2>1, <2>2
  <1>3. ASSUME NEW r \in Requests, Finish(r)
        PROVE  RingInv'
    <2>1. PICK outcome \in {"decided", "NONE", "error"} :
             \/ /\ outcome # "error"
                /\ ring' = Recorded(ring, ActivityItem(r, outcome)) /\ log' = Append(log, ActivityItem(r, outcome))
             \/ UNCHANGED feedVars
      BY <1>3 DEF Finish
    <2>2. CASE /\ outcome # "error"
               /\ ring' = Recorded(ring, ActivityItem(r, outcome)) /\ log' = Append(log, ActivityItem(r, outcome))
      BY <2>2, ItemTyped, RecordKeeps DEF Decisions
    <2> QED BY <1>1, <2>1, <2>2
  <1>4. ASSUME NEW r \in Requests,
               \/ RedisGet(r) \/ RedisSet(r) \/ FileRead(r) \/ FileWrite(r)
               \/ Verify(r) \/ RunPaid(r) \/ Settle(r) \/ SettlementLands(r)
        PROVE  RingInv'
    BY <1>1, <1>4 DEF RedisGet, RedisSet, FileRead, FileWrite, Verify, RunPaid, Settle, SettlementLands
  <1>5. CASE Tick \/ UNCHANGED vars
    BY <1>1, <1>5 DEF Tick, vars
  <1>6. CASE Restart
    <2>1. (ring = EmptyRing /\ log = <<>>)' => RingInv'
      BY EmptyRingOK, PTL
    <2> QED BY <1>6, <2>1 DEF Restart, EmptyRing
  <1> QED BY <1>2, <1>3, <1>4, <1>5, <1>6 DEF Next

LEMMA RingsInit == Init => RingInv
  BY EmptyRingOK DEF Init

\* The newest first are the end of the log, read backwards.
LEMMA ShowsTheEnd ==
    ASSUME RingInv, NEW limit \in 1..(Capacity + 1)
    PROVE  Recent(ring, limit) = SubSeq(Reverse(log), 1, IF limit < ring.size THEN limit ELSE ring.size)
  <1> DEFINE n == IF limit < ring.size THEN limit ELSE ring.size
             back == Reverse(log)
  <1>1. /\ Capacity \in Nat \ {0} /\ ring.size \in 0..Capacity /\ ring.head \in 0..(Capacity - 1)
        /\ log \in Seq(Items) /\ Len(log) \in Nat /\ ring.size <= Len(log)
    BY ApiAssumption DEF RingInv, RingTyped
  <1>2. n \in Nat /\ n <= ring.size
    BY <1>1
  <1>3. back = [i \in 1..Len(log) |-> log[(Len(log) - i) + 1]]
    BY DEF Reverse
  <1>4. Recent(ring, limit) = [i \in 1..n |-> ring.buf[(ring.head - i + Capacity * 2) % Capacity]]
    BY DEF Recent
  <1> HIDE DEF n, back
  <1>5. \A i \in 1..n : back[i] = log[Len(log) - i + 1] /\ back[i] \in Items
    BY <1>1, <1>2, <1>3
  <1>6. /\ SubSeq(back, 1, n) \in Seq(Items) /\ Len(SubSeq(back, 1, n)) = n
        /\ \A i \in 1..n : SubSeq(back, 1, n)[i] = back[i]
    <2>1. 1 \in Int /\ n \in Int /\ n - 1 + 1 = n /\ \A i \in 1..n : 1 + i - 1 = i
      BY <1>2
    <2>2. \A i \in 1..n : back[i] \in Items
      BY <1>5
    <2>3. /\ SubSeq(back, 1, n) \in Seq(Items)
          /\ Len(SubSeq(back, 1, n)) = IF 1 <= n THEN n - 1 + 1 ELSE 0
          /\ \A i \in 1..(n - 1 + 1) : SubSeq(back, 1, n)[i] = back[1 + i - 1]
      BY <2>1, <2>2, SubSeqProperties
    <2> QED BY <1>2, <2>1, <2>3
  <1>7. \A i \in 1..n : ring.buf[(ring.head - i + Capacity * 2) % Capacity] = back[i]
    <2> TAKE i \in 1..n
    <2>1. i \in 1..Capacity /\ i \in 1..ring.size
      BY <1>1, <1>2
    <2>2. (ring.head - i + Capacity * 2) % Capacity = Slot(ring.head, i)
      BY <1>1, <2>1, SlotIsIndex
    <2> QED BY <1>5, <2>1, <2>2 DEF RingInv
  <1>8. SubSeq(back, 1, n) = [i \in 1..n |-> SubSeq(back, 1, n)[i]]
    BY <1>2, <1>6
  <1> QED BY <1>4, <1>6, <1>7, <1>8 DEF n, back

\* ActivityStore: whatever its capacity, the ring shows the last records,
\* newest first, and its counters are those of the log.
THEOREM RingShowsTheLast == Spec => []RecentIsLastRecorded
  <1>1. RingInv => RecentIsLastRecorded
    <2> SUFFICES ASSUME RingInv PROVE RecentIsLastRecorded
      OBVIOUS
    <2>1. \A limit \in 1..(Capacity + 1) :
            Recent(ring, limit) = SubSeq(Reverse(log), 1, IF limit < ring.size THEN limit ELSE ring.size)
      BY ShowsTheEnd
    <2>2. Metrics(ring).ring.size = ring.size /\ Metrics(ring).checks = ring.byDecision
      BY DEF Metrics
    <2>3. \A d \in Decisions : Metrics(ring).checks[d] = Cardinality(OfDecision(d))
      BY <2>2 DEF RingInv
    <2> QED BY <2>1, <2>2, <2>3 DEF RingInv, RecentIsLastRecorded, OfDecision, Decisions
  <1> QED BY <1>1, RequestsInit, RequestsNext, RingsInit, RingsNext, PTL DEF Spec
============================================================================
