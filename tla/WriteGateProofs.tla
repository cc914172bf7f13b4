-------------------------- MODULE WriteGateProofs --------------------------
(***************************************************************************)
(* Proofs about the policy and the gate: for every set of checks, and for  *)
(* every behaviour of the handlers that the gate stands in.                *)
(***************************************************************************)
EXTENDS WriteGate, FiniteSetTheorems, TLAPS

\* What Decide amounts to: a failure blocks or asks for funds, a soft check
\* alone asks to confirm, and nothing else is left.
LEMMA DecideByStatus ==
    ASSUME NEW S
    PROVE  /\ Failed(S) = {} /\ Soft(S) = {} => Decide(S) = "ALLOW"
           /\ Failed(S) = {} /\ Soft(S) # {} =>
                Decide(S) \in {"REQUIRE_CONFIRMATION", "REQUIRE_TOKEN_REVIEW"}
           /\ Failed(S) # {} =>
                Decide(S) = IF OnlyFundingFails(S) THEN "REQUIRE_FUNDING" ELSE "BLOCK"
<1>1. TokenUnknown(S) => Soft(S) # {}
  BY DEF TokenUnknown, Soft
<1>2. CASE Failed(S) = {}
  <2>1. Cardinality(Failed(S)) = 0
    BY <1>2, FS_EmptySet
  <2>2. ClassifyRisk(S) = IF Soft(S) # {} THEN "MEDIUM" ELSE "LOW"
    BY <1>2, <2>1 DEF ClassifyRisk
  <2> QED
    BY <1>1, <1>2, <2>2 DEF Decide, DefaultDecision, OnlyFundingFails
<1>3. CASE Failed(S) # {}
  BY <1>3 DEF Decide, DefaultDecision
<1> QED
  BY <1>2, <1>3

LEMMA IntelMissingIsSoft ==
    ASSUME NEW S, IntelMissing(S)
    PROVE  Soft(S) # {}
  BY DEF IntelMissing, Soft, OfStatus, Check

\* The gate opens only on an evaluation that has no failed check and whose
\* token was reviewed, and on a soft one only with a confirmation
\* (enforceWriteDecision, whatever checks it is given).
THEOREM GateIsSound ==
    ASSUME NEW S, NEW confirmed \in BOOLEAN, NEW requireRisk,
           Enforce(S, confirmed, requireRisk) = "proceed"
    PROVE  GatePassed(S, confirmed)
<1>1. Decide(S) # "BLOCK" /\ Decide(S) # "REQUIRE_FUNDING"
  BY DEF Enforce
<1>2. Failed(S) = {}
  BY <1>1, DecideByStatus
<1>3. CASE Decide(S) = "ALLOW"
  <2>1. Soft(S) = {}
    BY <1>2, <1>3, DecideByStatus
  <2> QED
    BY <1>2, <2>1, IntelMissingIsSoft DEF GatePassed
<1>4. CASE Decide(S) # "ALLOW"
  BY <1>1, <1>2, <1>4 DEF Enforce, GatePassed
<1> QED
  BY <1>3, <1>4

\* More checks never make the decision milder (the order of the remap in
\* evaluateActionPolicy, for any two evaluations of which one sees more).
THEOREM MoreEvidenceIsStricter ==
    ASSUME NEW S, NEW T, S \subseteq T
    PROVE  Severity(Decide(S)) <= Severity(Decide(T))
<1>1. Failed(S) \subseteq Failed(T) /\ Soft(S) \subseteq Soft(T)
  BY DEF Failed, Soft, OfStatus
<1>2. CASE Failed(T) = {}
  <2>1. Failed(S) = {}
    BY <1>1, <1>2
  <2>2. CASE Soft(T) = {}
    <3>1. Decide(S) = "ALLOW" /\ Decide(T) = "ALLOW"
      BY <1>1, <1>2, <2>1, <2>2, DecideByStatus
    <3> QED
      BY <3>1 DEF Severity
  <2>3. CASE Soft(T) # {}
    <3>1. Severity(Decide(T)) = 1
      BY <1>2, <2>3, DecideByStatus DEF Severity
    <3>2. Severity(Decide(S)) \in {0, 1}
      BY <2>1, DecideByStatus DEF Severity
    <3> QED
      BY <3>1, <3>2
  <2> QED
    BY <2>2, <2>3
<1>3. CASE Failed(T) # {} /\ Failed(S) = {}
  <2>1. Severity(Decide(S)) \in {0, 1}
    BY <1>3, DecideByStatus DEF Severity
  <2>2. Severity(Decide(T)) \in {2, 3}
    BY <1>3, DecideByStatus DEF Severity
  <2> QED
    BY <2>1, <2>2
<1>4. CASE Failed(S) # {}
  <2>1. Failed(T) # {}
    BY <1>1, <1>4
  <2>2. OnlyFundingFails(T) => OnlyFundingFails(S)
    BY <1>1, <1>4 DEF OnlyFundingFails
  <2> QED
    BY <1>4, <2>1, <2>2, DecideByStatus DEF Severity
<1> QED
  BY <1>2, <1>3, <1>4

\* The public verdict and the gate agree on every set of checks.
THEOREM VerdictAlwaysMatches ==
    ASSUME NEW S
    PROVE  VerdictMatchesGate(S)
<1>1. CASE Failed(S) # {}
  <2>1. Decide(S) \in {"REQUIRE_FUNDING", "BLOCK"}
    BY <1>1, DecideByStatus
  <2> QED
    BY <2>1 DEF VerdictMatchesGate, MapEngineDecision, Enforce
<1>2. CASE Failed(S) = {} /\ Soft(S) # {}
  <2>1. Decide(S) \in {"REQUIRE_CONFIRMATION", "REQUIRE_TOKEN_REVIEW"}
    BY <1>2, DecideByStatus
  <2> QED
    BY <2>1 DEF VerdictMatchesGate, MapEngineDecision, Enforce
<1>3. CASE Failed(S) = {} /\ Soft(S) = {}
  <2>1. Decide(S) = "ALLOW"
    BY <1>3, DecideByStatus
  <2> QED
    BY <2>1 DEF VerdictMatchesGate, MapEngineDecision, Enforce
<1> QED
  BY <1>1, <1>2, <1>3

-----------------------------------------------------------------------------

\* What lies between the gate and the signature has passed the gate.
GateInv ==
    /\ confirm \in BOOLEAN
    /\ stage \in {"route", "allowance", "sign"} => GatePassed(checks, confirm)
    /\ SignedPassedTheGate

LEMMA GateInvInit == Init => GateInv
  BY DEF Init, GateInv, SignedPassedTheGate

LEMMA AnswerKeepsInv ==
    ASSUME GateInv, NEW code, NEW evaluated, Answer(code, evaluated), UNCHANGED signed
    PROVE  GateInv'
<1>1. stage' \in {"idle", "done"} /\ confirm' = confirm
  BY DEF Answer
<1> QED
  BY <1>1 DEF GateInv, SignedPassedTheGate, GatePassed

LEMMA StopKeepsInv ==
    ASSUME GateInv, Stop
    PROVE  GateInv'
  BY AnswerKeepsInv DEF Stop

LEMMA AdvanceKeepsInv ==
    ASSUME GateInv, NEW next, Advance(next),
           next \in {"route", "allowance", "sign"} => GatePassed(checks', confirm)
    PROVE  GateInv'
<1>1. stage' = next /\ confirm' = confirm /\ signed' = signed
  BY DEF Advance
<1> QED
  BY <1>1 DEF GateInv, SignedPassedTheGate, GatePassed

LEMMA GateKeepsInv ==
    ASSUME GateInv, NEW input, NEW requireRisk, NEW next,
           Gate(input, requireRisk, next)
    PROVE  GateInv'
<1>1. confirm \in BOOLEAN
  BY DEF GateInv
<1>2. CASE Enforce(Checks(input), confirm, requireRisk) = "proceed"
  <2>1. Advance(next) /\ checks' = Checks(input)
    BY <1>2 DEF Gate
  <2>2. GatePassed(Checks(input), confirm)
    BY <1>1, <1>2, GateIsSound
  <2> QED
    BY <2>1, <2>2, AdvanceKeepsInv
<1>3. CASE Enforce(Checks(input), confirm, requireRisk) # "proceed"
  BY <1>3, AnswerKeepsInv DEF Gate
<1> QED
  BY <1>2, <1>3

LEMMA SignatureKeepsSigned ==
    ASSUME SignedPassedTheGate, NEW what, NEW on, GatePassed(on, confirm),
           signed' = signed \cup {Signature(what, on)}
    PROVE  SignedPassedTheGate'
  BY DEF SignedPassedTheGate, Signature, GatePassed

LEMMA GateInvNext == GateInv /\ [Next]_vars => GateInv'
<1> SUFFICES ASSUME GateInv, [Next]_vars PROVE GateInv'
  OBVIOUS
<1>1. CASE Request
  BY <1>1 DEF Request, GateInv, SignedPassedTheGate, GatePassed
<1>2. CASE PreflightCheck
  BY <1>2, AnswerKeepsInv DEF PreflightCheck
<1>3. CASE Preflight
  <2>1. CASE Stop
    BY <2>1, StopKeepsInv
  <2>2. CASE ~Stop
    <3>1. PICK e \in PreflightInputs :
            \/ \E code : Answer(code, Checks(e)) /\ UNCHANGED signed
            \/ Advance("gate")
      BY <1>3, <2>2 DEF Preflight
    <3> QED
      BY <3>1, AnswerKeepsInv, AdvanceKeepsInv
  <2> QED
    BY <2>1, <2>2
<1>4. CASE Ready
  <2>1. CASE Stop
    BY <2>1, StopKeepsInv
  <2>2. CASE ~Stop
    <3>1. PICK next \in {"risk", "decide", "token"} : Advance(next)
      BY <1>4, <2>2 DEF Ready
    <3> QED
      BY <3>1, AdvanceKeepsInv
  <2> QED
    BY <2>1, <2>2
<1>5. CASE ReviewToken
  <2>1. CASE Stop
    BY <2>1, StopKeepsInv
  <2>2. CASE ~Stop
    <3>1. PICK next \in {"risk", "decide"} : Advance(next)
      BY <1>5, <2>2 DEF ReviewToken
    <3> QED
      BY <3>1, AdvanceKeepsInv
  <2> QED
    BY <2>1, <2>2
<1>6. CASE AssessRisk
  BY <1>6, StopKeepsInv, AdvanceKeepsInv DEF AssessRisk
<1>7. CASE DecideAction
  <2>1. PICK e \in ToolInputs :
          Gate(e, tool \in {"send_payment", "execute_swap"},
               IF tool = "execute_swap" THEN "route" ELSE "sign")
    BY <1>7 DEF DecideAction
  <2> QED
    BY <2>1, GateKeepsInv
<1>8. CASE RouteSwap
  <2>1. CASE Stop
    BY <2>1, StopKeepsInv
  <2>2. CASE ~Stop
    <3>1. stage = "route" /\ checks' = checks /\ (Advance("allowance") \/ Advance("sign"))
      BY <1>8, <2>2 DEF RouteSwap
    <3>2. GatePassed(checks', confirm)
      BY <3>1 DEF GateInv
    <3> QED
      BY <3>1, <3>2, AdvanceKeepsInv
  <2> QED
    BY <2>1, <2>2
<1>9. CASE ApproveSwap
  <2>1. stage = "allowance" /\ GatePassed(checks, confirm) /\ confirm \in BOOLEAN
    BY <1>9 DEF ApproveSwap, GateInv
  <2>2. CASE Stop
    BY <2>2, StopKeepsInv
  <2>3. CASE Advance("sign") /\ UNCHANGED <<token, risk, checks>>
    BY <2>1, <2>3, AdvanceKeepsInv
  <2>4. ASSUME NEW on, Enforce(on, confirm, FALSE) = "proceed", stage' = "sign",
               signed' = signed \cup {Signature("approval", on)},
               UNCHANGED <<confirm, checks>>
        PROVE  GateInv'
    <3>1. GatePassed(on, confirm)
      BY <2>1, <2>4, GateIsSound
    <3>2. SignedPassedTheGate'
      BY <2>4, <3>1, SignatureKeepsSigned DEF GateInv
    <3>3. (stage \in {"route", "allowance", "sign"} => GatePassed(checks, confirm))'
      BY <2>1, <2>4 DEF GatePassed
    <3> QED
      BY <2>1, <2>4, <3>2, <3>3 DEF GateInv
  <2>5. CASE ~Stop /\ ~(Advance("sign") /\ UNCHANGED <<token, risk, checks>>)
    <3>1. PICK over \in BOOLEAN, party \in Spenders :
            LET on == Checks(SwapApprovalInput(over, party))
                code == Enforce(on, confirm, FALSE)
            IN  IF code = "proceed"
                THEN /\ stage' = "sign"
                     /\ signed' = signed \cup {Signature("approval", on)}
                     /\ UNCHANGED <<tool, door, confirm, token, risk, checks, answer, attempts>>
                ELSE Answer(code, on) /\ UNCHANGED signed
      BY <1>9, <2>5 DEF ApproveSwap
    <3> QED
      BY <3>1, <2>4, AnswerKeepsInv
  <2> QED
    BY <2>2, <2>3, <2>5
<1>10. CASE SignAction
  <2>1. CASE Stop
    BY <2>1, StopKeepsInv
  <2>2. CASE Answer("signed", checks) /\ signed' = signed \cup {Signature(tool, checks)}
    <3>1. GatePassed(checks, confirm)
      BY <1>10 DEF SignAction, GateInv
    <3>2. SignedPassedTheGate'
      BY <2>2, <3>1, SignatureKeepsSigned DEF GateInv
    <3> QED
      BY <2>2, <3>2 DEF GateInv, Answer
  <2> QED
    BY <1>10, <2>1, <2>2 DEF SignAction
<1>11. CASE UNCHANGED vars
  BY <1>11 DEF vars, GateInv, SignedPassedTheGate, GatePassed
<1> QED
  BY <1>1, <1>2, <1>3, <1>4, <1>5, <1>6, <1>7, <1>8, <1>9, <1>10, <1>11 DEF Next

\* Every signature that a write tool ever makes, through either door and after
\* any number of answers, stands on an evaluation that passed the gate.
THEOREM EverySignaturePassedTheGate == Spec => []SignedPassedTheGate
<1>1. GateInv => SignedPassedTheGate
  BY DEF GateInv
<1> QED
  BY <1>1, GateInvInit, GateInvNext, PTL DEF Spec

\* In every behaviour the public verdict and the gate agree on what was
\* evaluated last.
THEOREM VerdictHonouredAlways == Spec => []VerdictIsHonoured
<1>1. VerdictIsHonoured
  BY VerdictAlwaysMatches DEF VerdictIsHonoured
<1> QED
  BY <1>1, PTL

\* In every behaviour no check of the last evaluation made its decision milder.
THEOREM EvidenceNeverWeakensAlways == Spec => []EvidenceNeverWeakens
<1>1. EvidenceNeverWeakens
  BY MoreEvidenceIsStricter DEF EvidenceNeverWeakens
<1> QED
  BY <1>1, PTL
=============================================================================
