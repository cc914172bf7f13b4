----------------------------- MODULE WriteGate -----------------------------
(***************************************************************************)
(* One action of an agent on its way to a signature: the same request is   *)
(* made again and again, directly or through safehands_safe_execute, with  *)
(* and without a confirmation, while what the services know may change     *)
(* before every answer.                                                    *)
(*                                                                         *)
(* An action of this module is what a handler does between two awaits; an  *)
(* answer of a service (token review, risk assessment, registry) is chosen *)
(* at the moment it arrives.  Budget and chain are in WritePath.           *)
(***************************************************************************)
EXTENDS ActionPolicy

CONSTANTS
    Tools,          \* the tools in use, of AllTools
    Doors,          \* how they are called, of AllDoors
    AllowUnlimited, \* ALLOW_UNLIMITED_APPROVAL
    MaxAttempts     \* bound: how often the request is made

AllTools == {"send_payment", "approve_token", "execute_swap", "x402_pay_and_fetch"}
AllDoors == {"direct", "safe_execute", "preflight_check"}

ASSUME GateAssumption ==
    /\ Tools \subseteq AllTools
    /\ Doors \subseteq AllDoors
    /\ AllowUnlimited \in BOOLEAN
    /\ MaxAttempts \in Nat

VARIABLES
    tool,       \* the tool that the request is for, never changed
    door,       \* how this attempt calls it
    confirm,    \* confirm=true, or execute and confirmExecution
    stage,      \* the await at which the attempt is
    token,      \* what the token review answered
    risk,       \* what the risk assessment answered
    checks,     \* the checks of the last policy evaluation
    answer,     \* what the caller was told last
    signed,     \* what was signed: the tool or its approval, on which checks
    attempts

vars == <<tool, door, confirm, stage, token, risk, checks, answer, signed, attempts>>

TokenReviews == {"native", "clean", "flagged", "malicious", "missing", "missing_canonical"}

RiskSignals == SUBSET {"high", "critical", "degraded"}

Stages == {"idle", "preflight", "gate", "token", "risk", "decide", "route", "allowance", "sign", "done"}

Answers == Refusals \cup {"none", "report", "dry_run", "stopped", "signed"}

\* Each variable has its type; a malicious token is never carried on.
TypeOK ==
    /\ tool \in Tools
    /\ door \in AllDoors
    /\ confirm \in BOOLEAN
    /\ stage \in Stages
    /\ token \in TokenReviews \ {"malicious"}
    /\ risk \in RiskSignals
    /\ \A c \in checks : c.status \in Statuses
    /\ answer \in Answers
    /\ \A s \in signed : s.confirmed \in BOOLEAN
    /\ attempts \in 0..MaxAttempts

Init ==
    /\ tool \in Tools
    /\ door = "direct"
    /\ confirm = FALSE
    /\ stage = "idle"
    /\ token = "native"
    /\ risk = {}
    /\ checks = {}
    /\ answer = "none"
    /\ signed = {}
    /\ attempts = 0

-----------------------------------------------------------------------------
(* What the handlers put into the policy                                   *)

PolicyStatus(review) ==
    CASE review = "clean" -> "ok"
      [] review \in {"flagged", "missing_canonical"} -> "unknown"
      [] review = "missing" -> "unavailable"
      [] OTHER -> "none"

PaymentInput(over, party) ==
    [NothingKnown("send_payment") EXCEPT
        !.signer = "available", !.party = party, !.overLimit = over, !.risk = {"given"} \cup risk]

\* The approval of approve_token: any amount, and the token's own review. No
\* other handler tells the policy that an unlimited approval may be in order.
ApproveInput(over, unlimited, party) ==
    [NothingKnown("approve_token") EXCEPT
        !.signer = "available", !.party = party, !.overLimit = over,
        !.unlimited = unlimited, !.unlimitedOk = AllowUnlimited, !.intel = PolicyStatus(token)]

SwapInput(over, priceable) ==
    [NothingKnown("execute_swap") EXCEPT
        !.signer = "available", !.overLimit = over, !.priceable = priceable,
        !.intel = PolicyStatus(token), !.risk = {"given"} \cup risk]

\* The approval inside a swap: exactly the swapped amount, no review.
SwapApprovalInput(over, party) ==
    [NothingKnown("approve_token") EXCEPT
        !.signer = "available", !.party = party, !.overLimit = over]

X402Input(over) ==
    [NothingKnown("x402_pay_and_fetch") EXCEPT
        !.signer = "available", !.overLimit = over, !.payToken = "supported"]

\* Addresses are valid by now; only the registry can vouch for a spender.
Recipients == {"unverified", "denylisted"}
Spenders == {"verified", "unclaimed"}

ToolInputs ==
    CASE tool = "send_payment" -> {PaymentInput(o, p) : o \in BOOLEAN, p \in Recipients}
      [] tool = "approve_token" -> {ApproveInput(o, u, p) : o \in BOOLEAN, u \in BOOLEAN, p \in Spenders}
      [] tool = "execute_swap" -> {SwapInput(o, p) : o \in BOOLEAN, p \in BOOLEAN}
      [] OTHER -> {X402Input(o) : o \in BOOLEAN}

\* safehands_safe_execute asks the policy before any service was asked: the
\* token counts as unknown and there is no risk assessment.
PreflightInputs ==
    LET asPreflight(e) == [e EXCEPT !.intel = IF tool \in {"approve_token", "execute_swap"}
                                              THEN "unknown" ELSE "none",
                                    !.unlimitedOk = FALSE, !.risk = {}]
    IN  {[asPreflight(e) EXCEPT !.signer = s, !.listed = l, !.safeUrl = TRUE,
                                !.party = IF tool = "approve_token" THEN "unclaimed" ELSE e.party] :
            e \in ToolInputs, s \in {"available", "missing"},
            l \in IF tool = "execute_swap" THEN BOOLEAN ELSE {TRUE}}

\* What a caller may claim of any action; the last claim stands for the one
\* that only its action asks about.
ClaimedInputs ==
    {[NothingKnown(a) EXCEPT
        !.chainOk = ok, !.signer = s, !.overLimit = o, !.balance = b, !.party = p, !.intel = i,
        !.listed = l, !.unlimited = odd, !.priceable = ~odd, !.safeUrl = ~odd, !.canonical = ~odd] :
        a \in AllTools \cup {"custom_contract_call"}, ok \in BOOLEAN,
        s \in {"not_asked", "available", "missing", "unknown"}, o \in BOOLEAN,
        b \in {"enough", "short", "unread"},
        p \in {"none", "invalid", "denylisted", "unverified", "unclaimed", "verified"},
        i \in {"none", "ok", "unknown", "unavailable"}, l \in BOOLEAN, odd \in BOOLEAN}

-----------------------------------------------------------------------------
(* Steps of every handler                                                  *)

\* The attempt ends with an answer.
Answer(code, evaluated) ==
    /\ stage' = IF code = "signed" THEN "done" ELSE "idle"
    /\ answer' = code
    /\ checks' = evaluated
    /\ UNCHANGED <<tool, door, confirm, token, risk, attempts>>

Stop == Answer("stopped", checks) /\ UNCHANGED signed

Advance(next) ==
    /\ stage' = next
    /\ UNCHANGED <<tool, door, confirm, answer, signed, attempts>>

\* The policy evaluates an input, and the gate lets the handler go on.
Gate(input, requireRisk, next) ==
    LET code == Enforce(Checks(input), confirm, requireRisk)
    IN  IF code = "proceed"
        THEN Advance(next) /\ checks' = Checks(input) /\ UNCHANGED <<token, risk>>
        ELSE Answer(code, Checks(input)) /\ UNCHANGED signed

\* The caller makes the request, for the first time or again.  Bound: who asks
\* for a report on claims asks for nothing else, as it shares nothing with the
\* other doors.
Request ==
    /\ stage = "idle" /\ attempts < MaxAttempts
    /\ door' \in Doors
    /\ door' = "preflight_check" => attempts = 0
    /\ attempts' = IF door' = "preflight_check" THEN MaxAttempts ELSE attempts + 1
    /\ confirm' \in BOOLEAN
    /\ stage' = IF door' = "direct" THEN "gate" ELSE "preflight"
    /\ UNCHANGED <<tool, token, risk, checks, answer, signed>>

-----------------------------------------------------------------------------
(* safehands_preflight_check and safehands_safe_execute                    *)

\* The report on what the caller claims; nothing is executed.
PreflightCheck ==
    /\ stage = "preflight" /\ door = "preflight_check"
    /\ \E e \in ClaimedInputs : Answer("report", Checks(e)) /\ UNCHANGED signed

\* The preflight report, which is a dry run until the caller confirms it.
Preflight ==
    /\ stage = "preflight" /\ door = "safe_execute"
    /\ \/ Stop
       \/ \E e \in PreflightInputs :
            LET report == MapEngineDecision(Decide(Checks(e)), TRUE)
            IN  CASE report \in {"BLOCK", "PREPARE_ONLY"} -> Answer("stopped", Checks(e)) /\ UNCHANGED signed
                  [] ~confirm -> Answer("dry_run", Checks(e)) /\ UNCHANGED signed
                  [] OTHER -> Advance("gate") /\ checks' = Checks(e) /\ UNCHANGED <<token, risk>>

-----------------------------------------------------------------------------
(* The handlers                                                            *)

\* requireManagedExecutionReady, or the static policy of x402_pay_and_fetch.
Ready ==
    /\ stage = "gate"
    /\ \/ Stop
       \/ /\ Advance(CASE tool = "send_payment" -> "risk"
                       [] tool = "x402_pay_and_fetch" -> "decide"
                       [] OTHER -> "token")
          /\ UNCHANGED <<token, risk, checks>>

\* evaluateTokenSecurityGate: a malicious token stops the call here.  Only a
\* swap can be into the native coin, which is not reviewed.
ReviewToken ==
    /\ stage = "token"
    /\ \/ Stop
       \/ /\ token' \in TokenReviews \ {"malicious"}
          /\ token' = "native" => tool = "execute_swap"
          /\ Advance(IF tool = "execute_swap" THEN "risk" ELSE "decide")
          /\ UNCHANGED <<risk, checks>>

\* Ceiling, early cap check, then assessRisk.
AssessRisk ==
    /\ stage = "risk"
    /\ \/ Stop
       \/ risk' \in RiskSignals /\ Advance("decide") /\ UNCHANGED <<token, checks>>

\* The one decision of the handler, on whatever it found out.
DecideAction ==
    /\ stage = "decide"
    /\ \E e \in ToolInputs :
        Gate(e, tool \in {"send_payment", "execute_swap"},
             IF tool = "execute_swap" THEN "route" ELSE "sign")

\* Quote, guards and allowlists; a native swap needs no allowance.
RouteSwap ==
    /\ stage = "route"
    /\ \/ Stop
       \/ Advance("allowance") /\ UNCHANGED <<token, risk, checks>>
       \/ Advance("sign") /\ UNCHANGED <<token, risk, checks>>

Signature(what, on) == [what |-> what, checks |-> on, confirmed |-> confirm, door |-> door]

\* The allowance is there, or the approval gets a decision of its own and is
\* signed at once; the confirmation of the swap is used for both.
ApproveSwap ==
    /\ stage = "allowance"
    /\ \/ Stop
       \/ Advance("sign") /\ UNCHANGED <<token, risk, checks>>
       \/ \E over \in BOOLEAN, party \in Spenders :
            LET on == Checks(SwapApprovalInput(over, party))
                code == Enforce(on, confirm, FALSE)
            IN  IF code = "proceed"
                THEN /\ stage' = "sign"
                     /\ signed' = signed \cup {Signature("approval", on)}
                     /\ UNCHANGED <<tool, door, confirm, token, risk, checks, answer, attempts>>
                ELSE Answer(code, on) /\ UNCHANGED signed

\* Ceilings, simulation and budget are behind it: the handler signs.
SignAction ==
    /\ stage = "sign"
    /\ \/ Stop
       \/ Answer("signed", checks) /\ signed' = signed \cup {Signature(tool, checks)}

Next ==
    \/ Request \/ PreflightCheck \/ Preflight \/ Ready \/ ReviewToken \/ AssessRisk
    \/ DecideAction \/ RouteSwap \/ ApproveSwap \/ SignAction

Spec == Init /\ [][Next]_vars

-----------------------------------------------------------------------------
(* Properties                                                              *)

GatePassed(on, confirmed) ==
    /\ Failed(on) = {}
    /\ ~IntelMissing(on)
    /\ Soft(on) # {} => confirmed

\* Whatever was asked, answered and confirmed before, through either door, a
\* signature exists only on an evaluation without a failed check and without
\* missing token intelligence, and on a soft one only with a confirmation
\* (enforceWriteDecision between evaluateActionPolicy and every signature).
SignedPassedTheGate == \A s \in signed : GatePassed(s.checks, s.confirmed)

Severity(decision) ==
    CASE decision = "ALLOW" -> 0
      [] decision \in {"REQUIRE_CONFIRMATION", "REQUIRE_TOKEN_REVIEW"} -> 1
      [] decision = "REQUIRE_FUNDING" -> 2
      [] OTHER -> 3

\* Learning more never makes the decision milder: taking away any check of an
\* evaluation never makes it stricter ("Soft, recoverable signals must NEVER
\* downgrade a hard BLOCK" in evaluateActionPolicy).
EvidenceNeverWeakens ==
    \A c \in checks : Severity(Decide(checks \ {c})) <= Severity(Decide(checks))

\* The public verdict (mapEngineDecision) and the gate of the write tools
\* (enforceWriteDecision) read one decision the same way: ALLOW needs no
\* confirmation, REQUIRE_CONFIRMATION needs one and takes one unless the token
\* was never reviewed, the others accept none.
VerdictMatchesGate(on) ==
    LET verdict == MapEngineDecision(Decide(on), TRUE)
    IN  /\ verdict = "ALLOW" => Enforce(on, FALSE, FALSE) = "proceed"
        /\ verdict = "REQUIRE_CONFIRMATION" =>
                /\ Enforce(on, FALSE, FALSE) # "proceed"
                /\ ~IntelMissing(on) => Enforce(on, TRUE, FALSE) = "proceed"
        /\ verdict \in {"BLOCK", "PREPARE_ONLY"} => Enforce(on, TRUE, FALSE) # "proceed"

VerdictIsHonoured == VerdictMatchesGate(checks)
=============================================================================
