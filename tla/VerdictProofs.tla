--------------------------- MODULE VerdictProofs ---------------------------
(***************************************************************************)
(* What the engines that judge a transaction may not do, for any requests, *)
(* policies, contracts, commands and assessments.                          *)
(***************************************************************************)
EXTENDS Verdicts, FiniteSetTheorems, SequenceTheorems, TLAPS

-----------------------------------------------------------------------------
(* The risk engine                                                         *)

\* What the read of the recipient's code, or of its balance, may say.
CodeAnswers == {IF Recipients[input.to].code THEN "code" ELSE "none", "failed"}
BalanceAnswers == {IF Recipients[input.to].empty THEN "zero" ELSE "some", "failed"}

\* Where the score of a recipient comes from.
ScoredRecipient ==
    \/ input.to \in DOMAIN Unprobed /\ counterparty = Known(Unprobed[input.to])
    \/ /\ Probed /\ codeRead # "unread"
       /\ \E b \in BalanceAnswers : counterparty = ScoreRecipient(codeRead, b)

\* The steps of an assessment come in order, a score says what it rests on,
\* and to proceed nothing was missing.
RiskInv ==
    /\ step \in {"idle", "quote", "reads", "done"}
    /\ step = "idle" => RiskIdle
    /\ step # "done" => recommendation = None
    /\ codeRead # "unread" => Probed /\ codeRead \in CodeAnswers
    /\ step = "quote" => counterparty = Unread
    /\ input.action = Swap /\ step \in {"reads", "done"} => quote \in {"fresh", "failed"}
    /\ input.action = Transfer /\ counterparty # Unread => ScoredRecipient
    /\ recommendation = "proceed" =>
        /\ quote # "failed" /\ ~balance.degraded /\ ~counterparty.degraded
        /\ counterparty # Unread
        /\ input.action = Transfer => ~(counterparty.score >= CounterpartyCritical)

LEMMA RiskIdleInv == RiskIdle => RiskInv
BY DEF RiskIdle, RiskInv, None, NoAssessment, Transfer, Swap, Unread

LEMMA AskRisk == RiskInv /\ Ask => RiskInv'
BY DEF RiskIdle, RiskInv, Ask, None, Unread, Transfer, Swap, Probed, CodeAnswers, ScoredRecipient

LEMMA FetchRisk == RiskInv /\ FetchSwapQuote => RiskInv'
BY DEF RiskInv, RiskIdle, FetchSwapQuote, None, Unread, Probed, CodeAnswers, ScoredRecipient

LEMMA ScoreCounterpartyRisk == RiskInv /\ ScoreCounterparty => RiskInv'
<1> SUFFICES ASSUME RiskInv, ScoreCounterparty PROVE RiskInv'
    OBVIOUS
<1>1. /\ UNCHANGED <<input, step, quote, codeRead, recommendation>>
      /\ step = "reads" /\ recommendation = None
    BY DEF RiskInv, ScoreCounterparty, Counterparty
<1>2. input.action = Transfer =>
        input.to \in DOMAIN Unprobed /\ counterparty' = Known(Unprobed[input.to])
    BY DEF ScoreCounterparty, Counterparty, Transfer, Swap
<1>3. input'.action = Transfer /\ counterparty' # Unread => ScoredRecipient'
    BY <1>1, <1>2 DEF ScoredRecipient
<1> QED
    BY <1>1, <1>3 DEF RiskInv, RiskIdle, None, Probed, CodeAnswers

LEMMA ReadCodeRisk == RiskInv /\ ReadCode => RiskInv'
<1> SUFFICES ASSUME RiskInv, ReadCode PROVE RiskInv'
    OBVIOUS
<1>1. UNCHANGED <<input, step, quote, counterparty, balance, recommendation>>
    BY DEF ReadCode
<1>2. step = "reads" /\ Probed /\ codeRead = "unread" /\ codeRead' \in CodeAnswers
    BY DEF ReadCode, CodeAnswers
<1>3. Probed' /\ codeRead' \in CodeAnswers'
    BY <1>1, <1>2 DEF Probed, CodeAnswers
<1>4. input.action = Transfer /\ counterparty # Unread => ScoredRecipient'
    <2>1. input.action = Transfer /\ counterparty # Unread => ScoredRecipient
        BY DEF RiskInv
    <2> QED
        BY <1>1, <1>2, <2>1 DEF ScoredRecipient
<1> QED
    BY <1>1, <1>2, <1>3, <1>4 DEF RiskInv, RiskIdle, None

LEMMA ReadRecipientBalanceRisk == RiskInv /\ ReadRecipientBalance => RiskInv'
<1> SUFFICES ASSUME RiskInv, ReadRecipientBalance PROVE RiskInv'
    OBVIOUS
<1>1. /\ UNCHANGED <<input, step, quote, codeRead, recommendation>>
      /\ step = "reads" /\ recommendation = None
    BY DEF RiskInv, ReadRecipientBalance, Counterparty
<1>2. /\ Probed /\ codeRead # "unread"
      /\ \E b \in BalanceAnswers : counterparty' = ScoreRecipient(codeRead, b)
    BY DEF ReadRecipientBalance, Counterparty, BalanceAnswers
<1>3. Probed' /\ BalanceAnswers' = BalanceAnswers
    BY <1>1, <1>2 DEF Probed, BalanceAnswers
<1>4. \E b \in BalanceAnswers : counterparty' = ScoreRecipient(codeRead', b)
    BY <1>1, <1>2 DEF ScoreRecipient
<1>5. ScoredRecipient'
    BY <1>1, <1>2, <1>3, <1>4 DEF ScoredRecipient
<1> QED
    BY <1>1, <1>3, <1>5 DEF RiskInv, RiskIdle, None, CodeAnswers

LEMMA ReadsRisk == RiskInv /\ (ReadBalance \/ ReadMarket) => RiskInv'
BY DEF RiskInv, RiskIdle, ReadBalance, ReadMarket, None, Unread, Probed, CodeAnswers,
       ScoredRecipient, BalanceAnswers

LEMMA AssessRisk == RiskInv /\ Assess => RiskInv'
<1> SUFFICES ASSUME RiskInv, Assess PROVE RiskInv'
    OBVIOUS
<1>1. /\ UNCHANGED <<input, quote, codeRead, counterparty, balance, market>>
      /\ step = "reads" /\ step' = "done" /\ counterparty # Unread
    BY DEF Assess
<1>2. recommendation' = "proceed" =>
        /\ quote # "failed" /\ ~balance.degraded /\ ~counterparty.degraded
        /\ input.action = Transfer => ~(counterparty.score >= CounterpartyCritical)
    <2> DEFINE base == ComputeRecommendation(
                  WeightedAverage(ScoreLiquidity(input, quote), ScoreSlippage(input, quote),
                                  counterparty.score, balance.score, market))
               missing == quote = "failed" \/ balance.degraded \/ counterparty.degraded
    <2>1. recommendation' =
            IF input.action = Transfer /\ counterparty.score >= CounterpartyCritical THEN "block"
            ELSE IF missing /\ base = "proceed" THEN "caution"
            ELSE base
        BY DEF Assess
    <2> HIDE DEF base
    <2> QED
        BY <2>1
<1>3. input.action = Transfer => ScoredRecipient'
    <2>1. input.action = Transfer => ScoredRecipient
        BY <1>1 DEF RiskInv
    <2> QED
        BY <1>1, <2>1 DEF ScoredRecipient, Probed, BalanceAnswers
<1>4. (codeRead # "unread" => Probed /\ codeRead \in CodeAnswers)'
    BY <1>1 DEF RiskInv, Probed, CodeAnswers
<1> QED
    BY <1>1, <1>2, <1>3, <1>4 DEF RiskInv, RiskIdle

LEMMA RiskStutters == RiskInv /\ UNCHANGED riskVars => RiskInv'
BY DEF RiskInv, riskVars, RiskIdle, Probed, CodeAnswers, BalanceAnswers, ScoredRecipient

LEMMA RiskStep == RiskInv /\ [VerdictsNext]_verdictVars => RiskInv'
<1>1. ASSUME RiskInv, RiskNext PROVE RiskInv'
    <2>1. Publish => RiskIdle'
        BY DEF Publish, RiskIdle, Unread, NoAssessment, None
    <2>2. RiskIdle' => RiskInv'
        BY RiskIdleInv, PTL
    <2> QED
        BY <1>1, <2>1, <2>2, AskRisk, FetchRisk, ScoreCounterpartyRisk, ReadCodeRisk,
           ReadRecipientBalanceRisk, ReadsRisk, AssessRisk DEF RiskNext
<1>2. ASSUME [VerdictsNext]_verdictVars PROVE RiskNext \/ UNCHANGED riskVars
    BY <1>2 DEF VerdictsNext, verdictVars
<1> QED
    BY <1>1, <1>2, RiskStutters

LEMMA RiskEvidence == RiskInv => ProceedsOnEvidence
<1> SUFFICES ASSUME RiskInv, recommendation = "proceed"
             PROVE  ProceedsOnEvidence
    BY DEF ProceedsOnEvidence
<1>1. /\ quote # "failed" /\ ~balance.degraded /\ ~counterparty.degraded
      /\ counterparty # Unread /\ step = "done"
      /\ input.action = Transfer => ~(counterparty.score >= CounterpartyCritical)
    BY DEF RiskInv, None
<1>2. input.action = Swap => quote = "fresh"
    BY <1>1 DEF RiskInv
<1>3. ASSUME input.action = Transfer, input.to \in DOMAIN Unprobed,
             counterparty = Known(Unprobed[input.to])
      PROVE  input.to = "self"
    BY <1>1, <1>3 DEF Known, Unprobed, CounterpartyCritical
<1>4. ASSUME NEW b \in BalanceAnswers, Probed, codeRead \in CodeAnswers,
             counterparty = ScoreRecipient(codeRead, b)
      PROVE  codeRead # "failed" \/ Recipients[input.to].empty
    BY <1>1, <1>4 DEF BalanceAnswers, ScoreRecipient, Known, Unknown
<1> QED
    BY <1>1, <1>2, <1>3, <1>4 DEF ProceedsOnEvidence, RiskInv, ScoredRecipient

\* assessRisk: for any assessments, and whichever reads fail, it proceeds only
\* on the wallet's balance, a swap's route and a recipient whose code was read,
\* unless the account holds nothing or is the wallet itself.
THEOREM ProceedsOnlyOnEvidence == VerdictsSpec => []ProceedsOnEvidence
<1>1. VerdictsInit => RiskInv
    BY RiskIdleInv DEF VerdictsInit, RiskInit
<1> QED
    BY <1>1, RiskStep, RiskEvidence, PTL DEF VerdictsSpec

-----------------------------------------------------------------------------
(* Severities                                                              *)

\* The decisions a result, and a set of them, may take.
LEMMA SeverityType == \A d \in Decisions : Severity[d] \in 0..3
BY DEF Decisions, Severity

LEMMA BlockIsWorst == \A d \in Decisions : Severity[d] >= 3 => d = "BLOCK"
BY DEF Decisions, Severity

\* The worst of some decisions is one of them, and as severe as each.
LEMMA WorstOfIsWorst ==
    ASSUME NEW S, S \subseteq Decisions, S # {}
    PROVE  WorstOf(S) \in S /\ \A e \in S : Severity[WorstOf(S)] >= Severity[e]
<1>1. \E d \in S : \A e \in S : Severity[d] >= Severity[e]
    <2>1. CASE "BLOCK" \in S
        BY <2>1 DEF Severity, Decisions
    <2>2. CASE "BLOCK" \notin S /\ "REQUIRE_CONFIRMATION" \in S
        BY <2>2 DEF Severity, Decisions
    <2>3. CASE /\ "BLOCK" \notin S /\ "REQUIRE_CONFIRMATION" \notin S
               /\ "PREPARE_ONLY" \in S
        BY <2>3 DEF Severity, Decisions
    <2>4. CASE /\ "BLOCK" \notin S /\ "REQUIRE_CONFIRMATION" \notin S
               /\ "PREPARE_ONLY" \notin S
        BY <2>4 DEF Severity, Decisions
    <2> QED
        BY <2>1, <2>2, <2>3, <2>4
<1> QED
    BY <1>1 DEF WorstOf

\* A set that answers each decision of another with one as severe is as severe.
LEMMA WorstOfMonotone ==
    ASSUME NEW S, NEW T, S \subseteq Decisions, T \subseteq Decisions, T # {},
           \A e \in T : \E d \in S : AsSevere(d, e)
    PROVE  AsSevere(WorstOf(S), WorstOf(T))
<1>1. S # {}
    OBVIOUS
<1>2. WorstOf(T) \in T
    BY WorstOfIsWorst
<1>3. PICK d \in S : AsSevere(d, WorstOf(T))
    BY <1>2
<1>4. WorstOf(S) \in S /\ Severity[WorstOf(S)] >= Severity[d]
    BY <1>1, WorstOfIsWorst
<1>5. Severity[d] \in 0..3 /\ Severity[WorstOf(S)] \in 0..3 /\ Severity[WorstOf(T)] \in 0..3
    BY <1>2, <1>3, <1>4, SeverityType
<1> QED
    BY <1>3, <1>4, <1>5 DEF AsSevere

LEMMA WorstOfBlock ==
    ASSUME NEW S, S \subseteq Decisions, "BLOCK" \in S
    PROVE  WorstOf(S) = "BLOCK"
<1>1. WorstOf(S) \in S /\ Severity[WorstOf(S)] >= Severity["BLOCK"]
    BY WorstOfIsWorst
<1> QED
    BY <1>1, BlockIsWorst DEF Severity, Decisions

LEMMA AsSevereReflexive == \A d \in Decisions : AsSevere(d, d)
BY SeverityType DEF AsSevere

-----------------------------------------------------------------------------
(* The guardian's analyzers                                                *)

LEMMA ResultDecides ==
    /\ \A d, r, s : Result(d, r, s).decision = d
    /\ \A r, s : Confirm(r, s).decision = "REQUIRE_CONFIRMATION"
    /\ Allow.decision = "ALLOW" /\ Block.decision = "BLOCK"
    /\ Malformed.decision = "REQUIRE_CONFIRMATION"
    /\ DangerousAdmin.decision = "REQUIRE_CONFIRMATION"
BY DEF Result, Confirm, Allow, Block, Malformed, DangerousAdmin

LEMMA WithDecides ==
    ASSUME NEW d, NEW r, NEW st, NEW sp, NEW am, NEW un
    PROVE  With(Result(d, r, st), sp, am, un).decision = d
BY DEF Result, With

LEMMA ApprovalDecides ==
    ASSUME NEW call
    PROVE  AnalyzeApproval(call).decision \in Decisions
<1>1. ASSUME NEW rev, NEW un, NEW kn, NEW sp, NEW am, NEW u
      PROVE  /\ With(ApprovalRisk(rev, un, kn), sp, am, u).decision \in Decisions
             /\ ApprovalRisk(rev, un, kn).decision \in Decisions
    BY DEF ApprovalRisk, With, Allow, Block, Confirm, Result, Decisions, Severity
<1>2. ASSUME NEW sp, NEW am, NEW u PROVE With(Block, sp, am, u).decision \in Decisions
    BY DEF With, Block, Result, Decisions, Severity
<1>3. CASE call.sel # "approve" \/ call.words # "exact"
    BY <1>3 DEF AnalyzeApproval, Malformed, Confirm, Result, Decisions, Severity
<1> QED
    BY <1>1, <1>2, <1>3 DEF AnalyzeApproval

LEMMA CalldataDecides ==
    ASSUME NEW call
    PROVE  AnalyzeCalldata(call).decision \in Decisions
<1>1. ASSUME NEW rev, NEW un, NEW kn, NEW sp, NEW am, NEW u
      PROVE  /\ With(ApprovalRisk(rev, un, kn), sp, am, u).decision \in Decisions
             /\ ApprovalRisk(rev, un, kn).decision \in Decisions
    BY DEF ApprovalRisk, With, Allow, Block, Confirm, Result, Decisions, Severity
<1>2. ASSUME NEW sp, NEW am, NEW u PROVE With(Block, sp, am, u).decision \in Decisions
    BY DEF With, Block, Result, Decisions, Severity
<1>3. /\ Allow.decision \in Decisions /\ Block.decision \in Decisions
      /\ Malformed.decision \in Decisions /\ DangerousAdmin.decision \in Decisions
      /\ \A r, s : Confirm(r, s).decision \in Decisions
    BY ResultDecides DEF Decisions, Severity
<1>4. Grant(call).decision \in Decisions
    BY <1>1, <1>2 DEF Grant
<1>5. SetApprovalForAll(call).decision \in Decisions
    BY <1>1, <1>3 DEF SetApprovalForAll
<1>6. TransferResult(call).decision \in Decisions
    BY <1>3 DEF TransferResult
<1>7. DecreaseAllowance(call).decision \in Decisions
    BY <1>3 DEF DecreaseAllowance
<1>8. CASE call.sel = "approve"
    BY <1>8, ApprovalDecides DEF AnalyzeCalldata
<1>9. CASE call.sel # "approve" /\ (call.sel \notin Decodable \/ call.words # "exact")
    BY <1>3, <1>9 DEF AnalyzeCalldata
<1>10. CASE call.sel # "approve" /\ call.sel \in Decodable /\ call.words = "exact"
    BY <1>3, <1>4, <1>5, <1>6, <1>7, <1>10
       DEF AnalyzeCalldata, Decodable, Permissive, Transfers, Admin
<1> QED
    BY <1>8, <1>9, <1>10

LEMMA EvmCallDecides ==
    ASSUME NEW to, NEW hasData, NEW value, NEW type
    PROVE  AnalyzeEvmCall(to, hasData, value, type).decision \in Decisions
BY ResultDecides DEF AnalyzeEvmCall, Decisions, Severity

LEMMA InnerDecides ==
    ASSUME NEW c
    PROVE  InnerDecision(c) \in Decisions
BY EvmCallDecides, ApprovalDecides DEF InnerDecision, Worst, Decisions, Severity

LEMMA SafeTxDecides ==
    ASSUME NEW sel, NEW batch
    PROVE  AnalyzeSafeTx(sel, batch).decision \in Decisions
<1> DEFINE S == {"ALLOW"} \cup {InnerDecision(c) : c \in InnerCalls(batch)}
<1>1. WorstOf(S) \in Decisions
    <2>1. S \subseteq Decisions
        BY InnerDecides DEF Decisions, Severity
    <2> QED
        BY <2>1, WorstOfIsWorst
<1>2. "REQUIRE_CONFIRMATION" \in Decisions
    BY DEF Decisions, Severity
<1> QED
    BY <1>1, <1>2, ResultDecides DEF AnalyzeSafeTx

LEMMA ContractCodeDecides ==
    ASSUME NEW a, NEW code, code \in {"code", "none", "unknown"}
    PROVE  AnalyzeContractCode(a, code).decision \in Decisions
BY ResultDecides DEF AnalyzeContractCode, Decisions, Severity

-----------------------------------------------------------------------------
(* The guardian's tools                                                    *)

\* What the read of a target's code may say.
Reads == {"code", "none", "unknown"}

LEMMA AnalyzersDecide ==
    ASSUME NEW e, NEW r, NEW code \in Reads
    PROVE  {a.decision : a \in Analyzers(e, r, code)} \subseteq Decisions
<1>1. AnalyzeTxHash.decision \in Decisions
    BY ResultDecides DEF AnalyzeTxHash, Decisions, Severity
<1>2. CASE CheckKind(e, r) = "tx"
    BY <1>1, <1>2 DEF Analyzers
<1>3. CASE CheckKind(e, r) = "contract"
    BY <1>3, ContractCodeDecides DEF Analyzers, Reads
<1>4. CASE CheckKind(e, r) = "call"
    <2>1. Analyzers(e, r, code) \subseteq
            {AnalyzeEvmCall(r.to, HasData(r), r.value, TargetType(code)),
             AnalyzeApproval(r.call), AnalyzeSafeTx("multiSend", r.batch), AnalyzeCalldata(r.call)}
        BY <1>4 DEF Analyzers
    <2> QED
        BY <2>1, EvmCallDecides, ApprovalDecides, SafeTxDecides, CalldataDecides
<1>5. CASE CheckKind(e, r) \notin {"tx", "contract", "call"}
    BY <1>5 DEF Analyzers
<1> QED
    BY <1>2, <1>3, <1>4, <1>5

LEMMA EscalationDecides ==
    ASSUME NEW d \in Decisions, NEW r
    PROVE  EcosystemEscalation(d, r) \in Decisions
BY DEF EcosystemEscalation, Worst, Decisions, Severity

LEMMA CheckDecides ==
    ASSUME NEW e, NEW r, NEW code \in Reads
    PROVE  CheckResult(e, r, code).decision \in Decisions
<1> DEFINE results == Analyzers(e, r, code)
           ds == {a.decision : a \in results}
<1>1. CASE results = {}
    BY <1>1, ResultDecides DEF CheckResult, Decisions, Severity
<1>2. CASE results # {}
    <2>1. WorstOf(ds) \in Decisions
        BY <1>2, AnalyzersDecide, WorstOfIsWorst
    <2>2. \E h : CheckResult(e, r, code).decision = EcosystemEscalation(WorstOf(ds), h)
        BY <1>2, ResultDecides DEF CheckResult
    <2> QED
        BY <2>1, <2>2, EscalationDecides
<1> QED
    BY <1>1, <1>2

LEMMA ToolIsKnown ==
    ASSUME NEW e \in Entries, NEW r
    PROVE  Tool(e, r) \in AnalyzeRoutes \cup {"snapshot", Check}
BY DEF Tool, Entries, AnalyzeRoutes, Agent, ToolOf, Check

LEMMA HandleDecides ==
    ASSUME NEW e \in Entries, NEW r, NEW code \in Reads
    PROVE  Handle(e, r, code).decision \in Decisions
<1>1. /\ AnalyzeTxHash.decision \in Decisions /\ Allow.decision \in Decisions
      /\ AnalyzeX402(r).decision \in Decisions
    BY ResultDecides DEF AnalyzeTxHash, AnalyzeX402, Decisions, Severity
<1> QED
    BY <1>1, ToolIsKnown, ApprovalDecides, CalldataDecides, SafeTxDecides, ContractCodeDecides,
       CheckDecides DEF Handle, AnalyzeRoutes, Check, Reads

\* A tool that could not read the code answers no softer than one that could,
\* and of the same spender and amount.
LEMMA UnreadContractAsSevere ==
    ASSUME NEW a, NEW code \in {"code", "none"}
    PROVE  AsSevere(AnalyzeContractCode(a, "unknown").decision, AnalyzeContractCode(a, code).decision)
BY ResultDecides DEF AnalyzeContractCode, AsSevere, Severity

LEMMA UnreadCallAsSevere ==
    ASSUME NEW to, NEW hasData, NEW value, NEW code \in {"code", "none"}
    PROVE  AsSevere(AnalyzeEvmCall(to, hasData, value, TargetType("unknown")).decision,
                    AnalyzeEvmCall(to, hasData, value, TargetType(code)).decision)
BY ResultDecides DEF AnalyzeEvmCall, TargetType, AsSevere, Severity

LEMMA UnreadAnalyzersAsSevere ==
    ASSUME NEW e, NEW r, NEW code \in {"code", "none"}
    PROVE  /\ Analyzers(e, r, "unknown") = {} <=> Analyzers(e, r, code) = {}
           /\ \A x \in {a.decision : a \in Analyzers(e, r, code)} :
                \E y \in {a.decision : a \in Analyzers(e, r, "unknown")} : AsSevere(y, x)
<1> DEFINE more == IF r.call.sel = "approve" THEN {AnalyzeApproval(r.call)}
                   ELSE IF r.call.sel = "multiSend" THEN {AnalyzeSafeTx("multiSend", r.batch)}
                   ELSE IF r.call.sel \in Decodable THEN {AnalyzeCalldata(r.call)}
                   ELSE {}
           call(c) == AnalyzeEvmCall(r.to, HasData(r), r.value, TargetType(c))
<1>1. CASE CheckKind(e, r) = "tx"
    <2>1. AnalyzeTxHash.decision \in Decisions
        BY ResultDecides DEF AnalyzeTxHash, Decisions, Severity
    <2> QED
        BY <1>1, <2>1, AsSevereReflexive DEF Analyzers
<1>2. CASE CheckKind(e, r) = "contract"
    BY <1>2, UnreadContractAsSevere DEF Analyzers
<1>3. CASE CheckKind(e, r) = "call"
    <2>1. \A c : Analyzers(e, r, c) = {call(c)} \cup more
        BY <1>3 DEF Analyzers
    <2>2. \A a \in more : a.decision \in Decisions
        BY ApprovalDecides, SafeTxDecides, CalldataDecides
    <2>3. AsSevere(call("unknown").decision, call(code).decision)
        BY UnreadCallAsSevere
    <2> HIDE DEF more, call
    <2>4. ASSUME NEW a \in Analyzers(e, r, code)
          PROVE  \E b \in Analyzers(e, r, "unknown") : AsSevere(b.decision, a.decision)
        <3>1. CASE a = call(code)
            BY <2>1, <2>3, <3>1
        <3>2. CASE a \in more
            BY <2>1, <2>2, <3>2, AsSevereReflexive
        <3> QED
            BY <2>1, <2>4, <3>1, <3>2
    <2>5. Analyzers(e, r, "unknown") # {} /\ Analyzers(e, r, code) # {}
        BY <2>1
    <2> QED
        BY <2>4, <2>5
<1>4. CASE CheckKind(e, r) \notin {"tx", "contract", "call"}
    BY <1>4 DEF Analyzers
<1> QED
    BY <1>1, <1>2, <1>3, <1>4

LEMMA EscalationMonotone ==
    ASSUME NEW d \in Decisions, NEW f \in Decisions, NEW r, AsSevere(d, f)
    PROVE  AsSevere(EcosystemEscalation(d, r), EcosystemEscalation(f, r))
BY DEF EcosystemEscalation, Worst, AsSevere, Decisions, Severity

\* The details of a check name no spender and no amount.
SameGrant(a, b) == a.spender = b.spender /\ a.amount = b.amount /\ a.unlimited = b.unlimited

LEMMA ResultGrantsNothing ==
    /\ \A d, r, s, f, t, u : SameGrant(Result(d, r, s), Result(f, t, u))
BY DEF SameGrant, Result

LEMMA UnreadCheckAsSevere ==
    ASSUME NEW e, NEW r, NEW code \in {"code", "none"}
    PROVE  /\ AsSevere(CheckResult(e, r, "unknown").decision, CheckResult(e, r, code).decision)
           /\ SameGrant(CheckResult(e, r, "unknown"), CheckResult(e, r, code))
<1> DEFINE ds(c) == {a.decision : a \in Analyzers(e, r, c)}
           taken == [r EXCEPT !.address = None, !.token = None]
           hinted == IF e = Agent THEN [taken EXCEPT !.provider = None, !.category = None] ELSE taken
           result(c) == Result(EcosystemEscalation(WorstOf(ds(c)), hinted),
                               WorstRisk({a.risk : a \in Analyzers(e, r, c)}), "ok")
<1>1. CASE Analyzers(e, r, code) = {}
    <2>1. /\ CheckResult(e, r, "unknown") = Confirm("UNKNOWN", "ok")
          /\ CheckResult(e, r, code) = Confirm("UNKNOWN", "ok")
        BY <1>1, UnreadAnalyzersAsSevere DEF CheckResult
    <2> QED
        BY <2>1, ResultDecides DEF AsSevere, SameGrant, Severity
<1>2. CASE Analyzers(e, r, code) # {}
    <2>1. CheckResult(e, r, "unknown") = result("unknown") /\ CheckResult(e, r, code) = result(code)
        BY <1>2, UnreadAnalyzersAsSevere DEF CheckResult
    <2>2. AsSevere(WorstOf(ds("unknown")), WorstOf(ds(code)))
        <3>1. ds("unknown") \subseteq Decisions /\ ds(code) \subseteq Decisions
            BY AnalyzersDecide DEF Reads
        <3>2. \A x \in ds(code) : \E y \in ds("unknown") : AsSevere(y, x)
            BY UnreadAnalyzersAsSevere
        <3>3. ds(code) # {}
            BY <1>2
        <3> HIDE DEF ds
        <3> QED
            BY <3>1, <3>2, <3>3, WorstOfMonotone
    <2>3. WorstOf(ds("unknown")) \in Decisions /\ WorstOf(ds(code)) \in Decisions
        <3>1. ASSUME NEW c \in Reads, Analyzers(e, r, c) # {}
              PROVE  WorstOf(ds(c)) \in Decisions
            BY <3>1, AnalyzersDecide, WorstOfIsWorst
        <3> QED
            BY <1>2, <3>1, UnreadAnalyzersAsSevere DEF Reads
    <2> HIDE DEF hinted, ds
    <2> QED
        BY <2>1, <2>2, <2>3, EscalationMonotone, ResultDecides, ResultGrantsNothing
<1> QED
    BY <1>1, <1>2

LEMMA UnreadToolAsSevere ==
    ASSUME NEW e \in Entries, NEW r, NEW code \in {"code", "none"}
    PROVE  /\ AsSevere(Handle(e, r, "unknown").decision, Handle(e, r, code).decision)
           /\ SameGrant(Handle(e, r, "unknown"), Handle(e, r, code))
<1>1. CASE Tool(e, r) = "/analyze/contract"
    <2>1. \A c : Tool(e, r) = "/analyze/contract" =>
                Handle(e, r, c) = AnalyzeContractCode(Contract(e, r), c)
        BY DEF Handle, Check
    <2>2. SameGrant(AnalyzeContractCode(Contract(e, r), "unknown"),
                    AnalyzeContractCode(Contract(e, r), code))
        BY ResultGrantsNothing DEF AnalyzeContractCode, Block, Allow, Confirm
    <2> QED
        BY <1>1, <2>1, <2>2, UnreadContractAsSevere
<1>2. CASE Tool(e, r) = Check
    BY <1>2, UnreadCheckAsSevere DEF Handle, Check
<1>3. CASE Tool(e, r) \notin {"/analyze/contract", Check}
    <2>1. Handle(e, r, "unknown") = Handle(e, r, code)
        BY <1>3, ToolIsKnown DEF Handle, AnalyzeRoutes, Check
    <2>2. Handle(e, r, code).decision \in Decisions
        BY HandleDecides DEF Reads
    <2> QED
        BY <2>1, <2>2, AsSevereReflexive DEF SameGrant
<1> QED
    BY <1>1, <1>2, <1>3

-----------------------------------------------------------------------------
(* The guardian's verdict                                                  *)

LEMMA RaisesDecide ==
    ASSUME NEW i, NEW r, NEW d, NEW p
    PROVE  PolicyRaises(i, r, d, p) \subseteq Decisions
<1>1. PolicyRaises(i, r, d, p) \in {{}, {"BLOCK"}, {"REQUIRE_CONFIRMATION"}}
    BY DEF PolicyRaises
<1> QED
    BY <1>1 DEF Decisions, Severity

LEMMA FormatMonotone ==
    ASSUME NEW d \in Decisions, NEW f \in Decisions, NEW i, NEW r, AsSevere(d, f)
    PROVE  AsSevere(FormatDecision(i, r, d), FormatDecision(i, r, f))
<1> DEFINE x == EcosystemEscalation(d, r)
           y == EcosystemEscalation(f, r)
<1>1. x \in Decisions /\ y \in Decisions /\ AsSevere(x, y)
    BY EscalationDecides, EscalationMonotone
<1>2. /\ FormatDecision(i, r, d) =
            IF x = "ALLOW" /\ ~ExecutionAvailable /\ i \in ExecutionIntents THEN "PREPARE_ONLY" ELSE x
      /\ FormatDecision(i, r, f) =
            IF y = "ALLOW" /\ ~ExecutionAvailable /\ i \in ExecutionIntents THEN "PREPARE_ONLY" ELSE y
    BY DEF FormatDecision
<1> HIDE DEF x, y
<1> QED
    BY <1>1, <1>2 DEF AsSevere, Decisions, Severity

LEMMA FormatDecides ==
    ASSUME NEW d \in Decisions, NEW i, NEW r
    PROVE  FormatDecision(i, r, d) \in Decisions
BY EscalationDecides DEF FormatDecision, Decisions, Severity

\* A verdict is as severe as another when what the tool said is, and when each
\* decision the other's policy raises is answered by one as severe.
LEMMA JudgeMonotone ==
    ASSUME NEW r, NEW d, NEW f, NEW p, NEW q,
           d.decision \in Decisions, f.decision \in Decisions, AsSevere(d.decision, f.decision),
           \A x \in PolicyRaises(ClassifyIntent(r), r, f, q) :
                \E y \in PolicyRaises(ClassifyIntent(r), r, d, p) : AsSevere(y, x)
    PROVE  AsSevere(Judge(r, d, p), Judge(r, f, q))
<1> DEFINE i == ClassifyIntent(r)
           S == {d.decision} \cup PolicyRaises(i, r, d, p)
           T == {f.decision} \cup PolicyRaises(i, r, f, q)
<1>1. S \subseteq Decisions /\ T \subseteq Decisions /\ S # {} /\ T # {}
    BY RaisesDecide
<1>2. \A x \in T : \E y \in S : AsSevere(y, x)
    OBVIOUS
<1>3. ApplyPolicy(i, r, d, p) = WorstOf(S) /\ ApplyPolicy(i, r, f, q) = WorstOf(T)
    BY DEF ApplyPolicy
<1> HIDE DEF S, T
<1>4. AsSevere(WorstOf(S), WorstOf(T)) /\ WorstOf(S) \in Decisions /\ WorstOf(T) \in Decisions
    BY <1>1, <1>2, WorstOfMonotone, WorstOfIsWorst
<1>5. AsSevere(FormatDecision(i, r, WorstOf(S)), FormatDecision(i, r, WorstOf(T)))
    BY <1>4, FormatMonotone
<1>6. AsSevere("BLOCK", "BLOCK")
    BY DEF AsSevere, Severity
<1> QED
    BY <1>3, <1>5, <1>6 DEF Judge

-----------------------------------------------------------------------------
(* The policy a request carries                                            *)

\* A policy no weaker than another.
Tightens(p, q) ==
    /\ \A k \in NumericKeys : p[k] \in Int /\ q[k] \in Int /\ p[k] <= q[k]
    /\ q.blockUnlimited => p.blockUnlimited
    /\ q.confirmUnknown => p.confirmUnknown
    /\ p.trusted = {} /\ q.trusted = {}

LEMMA PresetFields ==
    ASSUME NEW x \in DOMAIN PRESETS
    PROVE  /\ DOMAIN PRESETS[x] = NumericKeys \cup Switches \cup {"trusted"}
           /\ \A k \in NumericKeys : PRESETS[x][k] \in Int
           /\ \A k \in Switches : PRESETS[x][k] = TRUE
           /\ PRESETS[x].trusted = {}
           /\ IsBigInt(PRESETS[x].native) /\ IsBigInt(PRESETS[x].approval)
<1> DEFINE fields(n, c) ==
        [native |-> n, approval |-> 2, x402 |-> c, trusted |-> {},
         blockUnlimited |-> TRUE, confirmUnknown |-> TRUE]
<1>1. \E n \in {2, 20}, c \in {2, 10, 20} : PRESETS[x] = fields(n, c)
    <2>1. x \in {"standard", "strict", "agent", "preflight"}
        BY DEF PRESETS
    <2>2. /\ PRESETS["standard"] = fields(20, 20) /\ PRESETS["strict"] = fields(2, 2)
          /\ PRESETS["agent"] = fields(20, 10) /\ PRESETS["preflight"] = fields(20, 2)
        BY DEF PRESETS, Standard
    <2> QED
        BY <2>1, <2>2
<1>2. ASSUME NEW n \in {2, 20}, NEW c \in {2, 10, 20}, PRESETS[x] = fields(n, c)
      PROVE  /\ DOMAIN PRESETS[x] = NumericKeys \cup Switches \cup {"trusted"}
             /\ \A k \in NumericKeys : PRESETS[x][k] \in Int
             /\ \A k \in Switches : PRESETS[x][k] = TRUE
             /\ PRESETS[x].trusted = {}
             /\ IsBigInt(PRESETS[x].native) /\ IsBigInt(PRESETS[x].approval)
    BY <1>2 DEF NumericKeys, Switches, IsBigInt
<1> QED
    BY <1>1, <1>2

LEMMA ServerPresetKnown == ServerPreset \in DOMAIN PRESETS
BY DEF ServerPreset, PRESETS

LEMMA ResolvedTightens ==
    ASSUME NEW asked
    PROVE  /\ ResolvePreset(asked) \in DOMAIN PRESETS
           /\ Tightens(PRESETS[ResolvePreset(asked)], PRESETS[ServerPreset])
<1>1. ResolvePreset(asked) \in DOMAIN PRESETS
    BY ServerPresetKnown DEF ResolvePreset
<1>2. \A k \in NumericKeys : PRESETS[ResolvePreset(asked)][k] <= PRESETS[ServerPreset][k]
    <2>1. CASE ResolvePreset(asked) = ServerPreset
        <3>1. \A k \in NumericKeys : PRESETS[ServerPreset][k] \in Int
            BY ServerPresetKnown, PresetFields
        <3> QED
            BY <2>1, <3>1
    <2>2. CASE ResolvePreset(asked) # ServerPreset
        BY <2>2 DEF ResolvePreset, NotWeaker
    <2> QED
        BY <2>1, <2>2
<1> QED
    BY <1>1, <1>2, ServerPresetKnown, PresetFields DEF Tightens, Switches

LEMMA SanitizedTightens ==
    ASSUME NEW x \in DOMAIN PRESETS, NEW o, \A k \in DOMAIN o.limits : o.limits[k] \in Int
    PROVE  Tightens(SanitizeRequestPolicy(PRESETS[x], o), PRESETS[x])
<1> DEFINE p == PRESETS[x]
           s == SanitizeRequestPolicy(p, o)
<1>1. /\ DOMAIN p = NumericKeys \cup Switches \cup {"trusted"}
      /\ \A k \in NumericKeys : p[k] \in Int
      /\ \A k \in Switches : p[k] = TRUE
      /\ p.trusted = {}
    BY PresetFields
<1> HIDE DEF p
<1>2. ASSUME NEW k \in NumericKeys PROVE s[k] \in Int /\ s[k] <= p[k]
    <2>1. s[k] = IF k \in DOMAIN o.limits /\ 0 <= o.limits[k] /\ o.limits[k] < p[k]
                 THEN o.limits[k] ELSE p[k]
        BY <1>1, <1>2 DEF SanitizeRequestPolicy, NumericKeys, Switches
    <2> HIDE DEF s
    <2> QED
        BY <1>1, <2>1
<1>3. ASSUME NEW k \in Switches PROVE s[k]
    BY <1>1, <1>3 DEF SanitizeRequestPolicy, NumericKeys, Switches
<1>4. s.trusted = {}
    BY <1>1 DEF SanitizeRequestPolicy, NumericKeys, Switches
<1> HIDE DEF s
<1>5. Tightens(s, p)
    BY <1>1, <1>2, <1>3, <1>4 DEF Tightens, Switches
<1> QED
    BY <1>5 DEF s, p

LEMMA AgentPolicyTightens ==
    ASSUME NEW o \in Overrides \cup {NoOverride}
    PROVE  Tightens(AgentPolicy(o), PRESETS[ServerPreset])
<1>1. \A k \in DOMAIN o.limits : o.limits[k] \in Int
    BY RequestAssumption DEF NoOverride
<1>2. Tightens(AgentPolicy(o), PRESETS[ResolvePreset(o.preset)])
    BY <1>1, ResolvedTightens, SanitizedTightens DEF AgentPolicy
<1>3. Tightens(PRESETS[ResolvePreset(o.preset)], PRESETS[ServerPreset])
    BY ResolvedTightens
<1> QED
    BY <1>2, <1>3 DEF Tightens

\* A policy no weaker, whose limits are whole, raises whatever the other does.
LEMMA TighterRaises ==
    ASSUME NEW p, NEW q, Tightens(p, q), IsBigInt(p.native), IsBigInt(p.approval),
           NEW i, NEW r, r.value \in Int, r.payment \in Int,
           NEW d, i \in {"erc20_approval", "permit2_approval"} => d.amount \in Int
    PROVE  \A x \in PolicyRaises(i, r, d, q) : x \in PolicyRaises(i, r, d, p)
<1>1. /\ p.native \in Int /\ q.native \in Int /\ p.native <= q.native
      /\ p.approval \in Int /\ q.approval \in Int /\ p.approval <= q.approval
      /\ p.x402 \in Int /\ q.x402 \in Int /\ p.x402 <= q.x402
    BY DEF Tightens, NumericKeys
<1>2. /\ q.blockUnlimited => p.blockUnlimited
      /\ q.confirmUnknown => p.confirmUnknown
      /\ p.trusted = {} /\ q.trusted = {}
    BY DEF Tightens
<1>3. CASE i = "native_transfer"
    BY <1>1, <1>2, <1>3 DEF PolicyRaises
<1>4. CASE i \in {"erc20_approval", "permit2_approval"}
    BY <1>1, <1>2, <1>4 DEF PolicyRaises
<1>5. CASE i = "x402_payment_request"
    BY <1>1, <1>2, <1>5 DEF PolicyRaises
<1>6. CASE i \in {"unknown_contract_call", "raw_transaction_intent"}
    BY <1>1, <1>2, <1>6 DEF PolicyRaises
<1>7. CASE i \notin {"native_transfer", "erc20_approval", "permit2_approval", "x402_payment_request",
                     "unknown_contract_call", "raw_transaction_intent"}
    BY <1>7 DEF PolicyRaises
<1> QED
    BY <1>3, <1>4, <1>5, <1>6, <1>7

LEMMA ApprovalAmount ==
    ASSUME NEW call, call.amount \in Nat
    PROVE  AnalyzeApproval(call).amount \in Nat
BY DEF AnalyzeApproval, Malformed, Confirm, Result, With, ApprovalRisk, Allow, Block, Zero

LEMMA CalldataAmount ==
    ASSUME NEW call, call.amount \in Nat
    PROVE  AnalyzeCalldata(call).amount \in Nat
<1>1. /\ Malformed.amount \in Nat /\ Allow.amount \in Nat /\ Block.amount \in Nat
      /\ DangerousAdmin.amount \in Nat /\ \A r, s : Confirm(r, s).amount \in Nat
    BY DEF Malformed, Confirm, Result, Allow, Block, DangerousAdmin, Zero
<1>2. Grant(call).amount \in Nat
    BY DEF Grant, With, Malformed, Confirm, Result, ApprovalRisk, Allow, Block, Zero
<1>3. SetApprovalForAll(call).amount \in Nat
    BY <1>1 DEF SetApprovalForAll, ApprovalRisk
<1>4. TransferResult(call).amount \in Nat /\ DecreaseAllowance(call).amount \in Nat
    BY <1>1 DEF TransferResult, DecreaseAllowance
<1>5. CASE call.sel = "approve"
    BY <1>5, ApprovalAmount DEF AnalyzeCalldata
<1>6. CASE call.sel # "approve" /\ (call.sel \notin Decodable \/ call.words # "exact")
    BY <1>1, <1>6 DEF AnalyzeCalldata
<1>7. CASE call.sel # "approve" /\ call.sel \in Decodable /\ call.words = "exact"
    BY <1>1, <1>2, <1>3, <1>4, <1>7 DEF AnalyzeCalldata, Decodable, Permissive, Transfers, Admin
<1> QED
    BY <1>5, <1>6, <1>7

LEMMA AgentAmount ==
    ASSUME NEW r, r.call.amount \in Nat, NEW code,
           ClassifyIntent(r) \in {"erc20_approval", "permit2_approval"}
    PROVE  Handle(Agent, r, code).amount \in Nat
<1>1. Tool(Agent, r) \in {"/analyze/approval", "/analyze/calldata"}
    BY DEF Tool, ToolOf
<1> QED
    BY <1>1, ApprovalAmount, CalldataAmount DEF Handle, Check

-----------------------------------------------------------------------------
(* The guardian's run                                                      *)

\* What the chain may say of the target of the request in hand.
ReadOf(e, r) == {CodeAt(Target(e, r)), "unknown"}

\* Between two requests nothing is kept; the tool's details are those of the
\* request and of what was read; the answer is the verdict on both.
GuardianInv ==
    /\ phase \in {"idle", "routing", "enriching", "deciding", "done"}
    /\ phase = "idle" => GuardianIdle
    /\ phase # "idle" =>
        entry \in Entries /\ req \in Requests /\ override \in Overrides \cup {NoOverride}
    /\ phase \in {"enriching", "deciding"} => ~Refused(entry, req)
    /\ phase \in {"enriching", "deciding"} \/ (phase = "done" /\ ~Refused(entry, req)) =>
        read \in ReadOf(entry, req) /\ details = Handle(entry, req, read)
    /\ phase = "done" =>
        answer = IF Refused(entry, req)
                 THEN (IF entry = Agent THEN "REQUIRE_CONFIRMATION" ELSE "INVALID")
                 ELSE IF entry = Agent THEN Judge(req, details, AgentPolicy(override))
                 ELSE details.decision

LEMMA GuardianIdleInv == GuardianIdle => GuardianInv
BY DEF GuardianIdle, GuardianInv

LEMMA ReceiveGuardian == GuardianInv /\ Receive => GuardianInv'
BY DEF GuardianInv, Receive

LEMMA RouteGuardian == GuardianInv /\ RouteIntent => GuardianInv'
<1> SUFFICES ASSUME GuardianInv, RouteIntent PROVE GuardianInv'
    OBVIOUS
<1>1. /\ phase = "routing" /\ ~Refused(entry, req)
      /\ phase' \in {"enriching", "deciding"} /\ UNCHANGED <<entry, req, override>>
    BY DEF RouteIntent
<1>2. read' \in ReadOf(entry, req) /\ details' = Handle(entry, req, read')
    BY DEF RouteIntent, ReadOf
<1>3. entry \in Entries /\ req \in Requests /\ override \in Overrides \cup {NoOverride}
    BY <1>1 DEF GuardianInv
<1>4. /\ Refused(entry, req)' = Refused(entry, req) /\ ReadOf(entry, req)' = ReadOf(entry, req)
      /\ Handle(entry, req, read)' = Handle(entry, req, read')
    BY <1>1
<1> QED
    BY <1>1, <1>2, <1>3, <1>4 DEF GuardianInv

LEMMA RefuseGuardian == GuardianInv /\ RefuseInput => GuardianInv'
<1> SUFFICES ASSUME GuardianInv, RefuseInput PROVE GuardianInv'
    OBVIOUS
<1>1. /\ phase = "routing" /\ Refused(entry, req) /\ phase' = "done"
      /\ UNCHANGED <<entry, req, override>>
      /\ answer' = IF entry = Agent THEN "REQUIRE_CONFIRMATION" ELSE "INVALID"
    BY DEF RefuseInput
<1>2. Refused(entry, req)' = Refused(entry, req)
    BY <1>1
<1> QED
    BY <1>1, <1>2 DEF GuardianInv

LEMMA EnrichGuardian == GuardianInv /\ Enrich => GuardianInv'
<1> SUFFICES ASSUME GuardianInv, Enrich PROVE GuardianInv'
    OBVIOUS
<1>1. /\ phase = "enriching" /\ phase' = "deciding"
      /\ UNCHANGED <<entry, req, override, read, details>>
    BY DEF Enrich
<1>2. /\ Refused(entry, req)' = Refused(entry, req) /\ ReadOf(entry, req)' = ReadOf(entry, req)
      /\ Handle(entry, req, read)' = Handle(entry, req, read)
    BY <1>1
<1> QED
    BY <1>1, <1>2 DEF GuardianInv

LEMMA DecideGuardian == GuardianInv /\ Decide => GuardianInv'
<1> SUFFICES ASSUME GuardianInv, Decide PROVE GuardianInv'
    OBVIOUS
<1>1. /\ phase = "deciding" /\ phase' = "done" /\ UNCHANGED <<entry, req, override, read, details>>
      /\ answer' = IF entry = Agent THEN Judge(req, details, AgentPolicy(override))
                   ELSE details.decision
    BY DEF Decide
<1>2. /\ Refused(entry, req)' = Refused(entry, req) /\ ReadOf(entry, req)' = ReadOf(entry, req)
      /\ Handle(entry, req, read)' = Handle(entry, req, read)
      /\ Judge(req, details, AgentPolicy(override))' = Judge(req, details, AgentPolicy(override))
    BY <1>1
<1> QED
    BY <1>1, <1>2 DEF GuardianInv

LEMMA GuardianStutters == GuardianInv /\ UNCHANGED guardianVars => GuardianInv'
<1> SUFFICES ASSUME GuardianInv, UNCHANGED guardianVars PROVE GuardianInv'
    OBVIOUS
<1>1. UNCHANGED <<entry, req, override, phase, read, details, evidence, answer>>
    BY DEF guardianVars
<1>2. /\ Refused(entry, req)' = Refused(entry, req) /\ ReadOf(entry, req)' = ReadOf(entry, req)
      /\ Handle(entry, req, read)' = Handle(entry, req, read) /\ GuardianIdle' = GuardianIdle
      /\ Judge(req, details, AgentPolicy(override))' = Judge(req, details, AgentPolicy(override))
    BY <1>1 DEF GuardianIdle
<1> QED
    BY <1>1, <1>2 DEF GuardianInv

LEMMA GuardianStep == GuardianInv /\ [VerdictsNext]_verdictVars => GuardianInv'
<1>1. ASSUME GuardianInv, GuardianNext PROVE GuardianInv'
    <2>1. Respond => GuardianIdle'
        BY DEF Respond, GuardianIdle, NoDetails, EmptyRequest, NoOverride, None
    <2>2. GuardianIdle' => GuardianInv'
        BY GuardianIdleInv, PTL
    <2> QED
        BY <1>1, <2>1, <2>2, ReceiveGuardian, RouteGuardian, RefuseGuardian, EnrichGuardian,
           DecideGuardian DEF GuardianNext
<1>2. ASSUME [VerdictsNext]_verdictVars PROVE GuardianNext \/ UNCHANGED guardianVars
    BY <1>2 DEF VerdictsNext, verdictVars
<1> QED
    BY <1>1, <1>2, GuardianStutters

LEMMA GuardianHolds == VerdictsSpec => []GuardianInv
<1>1. VerdictsInit => GuardianInv
    BY GuardianIdleInv DEF VerdictsInit, GuardianInit
<1> QED
    BY <1>1, GuardianStep, PTL DEF VerdictsSpec

\* An answer is the verdict on what was read.
LEMMA AnswerIsVerdict ==
    ASSUME GuardianInv, Answered
    PROVE  /\ entry \in Entries /\ req \in Requests /\ override \in Overrides \cup {NoOverride}
           /\ answer = Verdict(entry, req, read, AgentPolicy(override))
           /\ ~Refused(entry, req) => read \in ReadOf(entry, req)
           /\ Refused(entry, req) => entry = Agent
BY DEF GuardianInv, Answered, Verdict, Decisions, Severity

LEMMA ReadIsKnown ==
    /\ \A a : CodeAt(a) \in {"code", "none"}
    /\ \A e, r : ReadOf(e, r) \subseteq Reads
BY DEF CodeAt, ReadOf, Reads

LEMMA ReadsAsSevere ==
    ASSUME GuardianInv
    PROVE  FailedReadNeverRelaxes
<1> DEFINE code == CodeAt(Target(entry, req))
           p == AgentPolicy(override)
<1> SUFFICES ASSUME Answered
             PROVE  AsSevere(answer, Verdict(entry, req, code, p))
    BY DEF FailedReadNeverRelaxes
<1>1. /\ entry \in Entries /\ answer = Verdict(entry, req, read, p) /\ answer \in Decisions
      /\ ~Refused(entry, req) => read \in {code, "unknown"}
      /\ Refused(entry, req) => entry = Agent
    BY AnswerIsVerdict DEF ReadOf, Answered
<1>2. code \in {"code", "none"}
    BY ReadIsKnown
<1> HIDE DEF code, p
<1>3. CASE Refused(entry, req)
    BY <1>1, <1>3, AsSevereReflexive DEF Verdict
<1>4. CASE read = code
    BY <1>1, <1>4, AsSevereReflexive
<1>5. CASE ~Refused(entry, req) /\ read = "unknown"
    <2>1. /\ AsSevere(Handle(entry, req, "unknown").decision, Handle(entry, req, code).decision)
          /\ SameGrant(Handle(entry, req, "unknown"), Handle(entry, req, code))
        BY <1>1, <1>2, UnreadToolAsSevere
    <2>2. CASE entry # Agent
        BY <1>1, <1>5, <2>1, <2>2 DEF Verdict
    <2>3. CASE entry = Agent
        <3> DEFINE d == Handle(entry, req, "unknown")
                   f == Handle(entry, req, code)
                   i == ClassifyIntent(req)
        <3>1. d.decision \in Decisions /\ f.decision \in Decisions
            BY <1>1, <1>2, HandleDecides DEF Reads
        <3>2. PolicyRaises(i, req, d, p) = PolicyRaises(i, req, f, p)
            BY <2>1 DEF PolicyRaises, SameGrant
        <3>3. \A x \in PolicyRaises(i, req, f, p) : x \in Decisions
            BY RaisesDecide
        <3> HIDE DEF d, f
        <3>4. \A x \in PolicyRaises(i, req, f, p) :
                \E y \in PolicyRaises(i, req, d, p) : AsSevere(y, x)
            BY <3>2, <3>3, AsSevereReflexive
        <3>5. AsSevere(d.decision, f.decision)
            BY <2>1 DEF d, f
        <3>6. AsSevere(Judge(req, d, p), Judge(req, f, p))
            BY <3>1, <3>4, <3>5, JudgeMonotone
        <3> QED
            BY <1>1, <1>5, <2>3, <3>6 DEF Verdict, d, f
    <2> QED
        BY <2>2, <2>3
<1> QED
    BY <1>1, <1>3, <1>4, <1>5

\* classifyTarget, analyzeContract: for any requests and contracts, an answer
\* given while the chain could not be read is at least as severe as the one the
\* true code would have given.
THEOREM AFailedReadNeverRelaxes == VerdictsSpec => []FailedReadNeverRelaxes
BY GuardianHolds, ReadsAsSevere, PTL

LEMMA TightenedAsSevere ==
    ASSUME GuardianInv
    PROVE  TightenedNeverSofterUnlessDecimal
<1> DEFINE p == AgentPolicy(override)
           q == PRESETS[ServerPreset]
<1> SUFFICES ASSUME Answered, entry = Agent, IsBigInt(p.native), IsBigInt(p.approval)
             PROVE  AsSevere(answer, Verdict(entry, req, read, q))
    BY DEF TightenedNeverSofterUnlessDecimal
<1>1. /\ req \in Requests /\ answer = Verdict(entry, req, read, p) /\ answer \in Decisions
      /\ ~Refused(entry, req) => read \in Reads
    BY AnswerIsVerdict, ReadIsKnown DEF Answered
<1>2. Tightens(p, q)
    BY AnswerIsVerdict, AgentPolicyTightens
<1> HIDE DEF p, q
<1>3. CASE Refused(entry, req)
    BY <1>1, <1>3, AsSevereReflexive DEF Verdict
<1>4. CASE ~Refused(entry, req)
    <2> DEFINE d == Handle(entry, req, read)
               i == ClassifyIntent(req)
    <2>1. req.value \in Nat /\ req.payment \in Nat /\ req.call.amount \in Nat
        BY <1>1, RequestAssumption
    <2>2. d.decision \in Decisions
        BY <1>1, <1>4, HandleDecides DEF Entries
    <2>3. i \in {"erc20_approval", "permit2_approval"} => d.amount \in Nat
        BY <2>1, AgentAmount
    <2> HIDE DEF d
    <2>4. \A x \in PolicyRaises(i, req, d, q) : x \in PolicyRaises(i, req, d, p)
        BY <1>2, <2>1, <2>3, TighterRaises
    <2>5. \A x \in PolicyRaises(i, req, d, q) : x \in Decisions
        BY RaisesDecide
    <2>6. AsSevere(Judge(req, d, p), Judge(req, d, q))
        BY <2>2, <2>4, <2>5, JudgeMonotone, AsSevereReflexive
    <2> QED
        BY <1>1, <1>4, <2>6 DEF Verdict, d
<1> QED
    BY <1>3, <1>4

\* resolvePresetName, sanitizeRequestPolicy: for any requests, policies and
\* server preset, the policy a request carries never softens the answer of the
\* preset, as long as the limits it lowers are whole amounts.
THEOREM ARequestOnlyTightens == VerdictsSpec => []TightenedNeverSofterUnlessDecimal
BY GuardianHolds, TightenedAsSevere, PTL

\* What a tool blocks no policy unblocks.
LEMMA BlockStays ==
    ASSUME NEW r, NEW d, d.decision = "BLOCK", NEW p
    PROVE  Judge(r, d, p) = "BLOCK"
<1>1. ApplyPolicy(ClassifyIntent(r), r, d, p) = "BLOCK"
    <2>1. {d.decision} \cup PolicyRaises(ClassifyIntent(r), r, d, p) \subseteq Decisions
        BY RaisesDecide DEF Decisions, Severity
    <2> QED
        BY <2>1, WorstOfBlock DEF ApplyPolicy
<1>2. FormatDecision(ClassifyIntent(r), r, "BLOCK") = "BLOCK"
    BY DEF FormatDecision, EcosystemEscalation, Worst, Severity
<1> QED
    BY <1>1, <1>2 DEF Judge

\* A transfer to a denylisted account is decoded by the check and blocked.
LEMMA DenylistedTransferBlocks ==
    ASSUME NEW r, NEW code \in Reads,
           r.call.sel \in Transfers, r.call.words = "exact", r.call.party \in Denylist
    PROVE  CheckResult(Agent, r, code).decision = "BLOCK"
<1> DEFINE results == Analyzers(Agent, r, code)
           ds == {a.decision : a \in results}
<1>1. AnalyzeCalldata(r.call).decision = "BLOCK"
    <2>1. AnalyzeCalldata(r.call) = TransferResult(r.call)
        BY DEF AnalyzeCalldata, Decodable, Transfers, Permissive, Admin
    <2>2. TransferResult(r.call) = Block
        BY DEF TransferResult, IsDenylistedRecipient
    <2> QED
        BY <2>1, <2>2, ResultDecides
<1>2. CheckKind(Agent, r) = "call"
    BY DEF CheckKind, Agent, Check, HasData, Transfers, None
<1>3. AnalyzeCalldata(r.call) \in results
    BY <1>2 DEF Analyzers, Transfers, Decodable
<1>4. "BLOCK" \in ds /\ ds \subseteq Decisions
    BY <1>1, <1>3, AnalyzersDecide
<1> HIDE DEF ds
<1>5. WorstOf(ds) = "BLOCK"
    BY <1>4, WorstOfBlock
<1>6. \E h : CheckResult(Agent, r, code).decision = EcosystemEscalation(WorstOf(ds), h)
    BY <1>3, ResultDecides DEF CheckResult, ds
<1> QED
    BY <1>5, <1>6 DEF EcosystemEscalation, Worst, Severity

LEMMA DenylistBlocks ==
    ASSUME GuardianInv
    PROVE  DenylistedIsBlocked
<1> SUFFICES ASSUME Answered, entry = Agent, ~Refused(entry, req)
             PROVE  \/ answer = "BLOCK"
                    \/ /\ req.to \notin Denylist
                       /\ Tool(entry, req) = Check =>
                            ~(req.call.sel \in Transfers /\ req.call.words = "exact"
                              /\ req.call.party \in Denylist)
    BY DEF DenylistedIsBlocked
<1>1. /\ answer = Judge(req, Handle(Agent, req, read), AgentPolicy(override))
      /\ read \in Reads
    BY AnswerIsVerdict, ReadIsKnown DEF Verdict
<1>2. req.to \in Denylist => answer = "BLOCK"
    BY <1>1 DEF Judge, IsDenylistedRecipient
<1>3. ASSUME Tool(entry, req) = Check, req.call.sel \in Transfers, req.call.words = "exact",
             req.call.party \in Denylist
      PROVE  answer = "BLOCK"
    <2>1. Handle(Agent, req, read) = CheckResult(Agent, req, read)
        BY <1>3 DEF Handle, Check
    <2> QED
        BY <1>1, <1>3, <2>1, DenylistedTransferBlocks, BlockStays
<1> QED
    BY <1>2, <1>3

\* SafeHandsGuardianAgent.check: for any requests and policies, an agent's
\* payment to a denylisted account, as the target or inside the transfer it
\* asks about, is blocked.
THEOREM ADenylistedPaymentIsBlocked == VerdictsSpec => []DenylistedIsBlocked
BY GuardianHolds, DenylistBlocks, PTL

-----------------------------------------------------------------------------
(* The two engines on the same calldata                                    *)

LEMMA RegistryEntries ==
    /\ DOMAIN EcosystemRegistry = 1..7
    /\ EcosystemRegistry[1] = CanonicalPacific /\ EcosystemRegistry[2] = CanonicalAtlantic
    /\ EcosystemRegistry[3] = OfficialTokens /\ EcosystemRegistry[4] = PushFeeds
    /\ EcosystemRegistry[5] = SafeHandsContracts /\ EcosystemRegistry[6] = NamedProtocols
    /\ EcosystemRegistry[7] = VerifiedProtocols
BY DEF EcosystemRegistry

LEMMA MaxOfOne ==
    ASSUME NEW n \in Int
    PROVE  Max({n}) = n
BY DEF Max

\* The index keeps the last item that holds an address.
LEMMA RegistryItems ==
    /\ RegistryItem(Usdc) = {OfficialTokens}
    /\ RegistryItem(Ours) = {SafeHandsContracts}
    /\ RegistryItem(Morpho) = {VerifiedProtocols}
    /\ RegistryItem(CreateX) = {CanonicalPacific}
    /\ \A a : a \notin {Permit2, Safe, CreateX, DodoApprove, Usdc, Ours, Morpho, PriceFeed} =>
                RegistryItem(a) = {}
    /\ RegistryItem(PriceFeed) = {PushFeeds}
    /\ RegistryItem(DodoApprove) = {CanonicalAtlantic}
    /\ RegistryItem(Permit2) = {CanonicalAtlantic}
    /\ RegistryItem(Safe) = {CanonicalAtlantic}
<1> DEFINE holding(a) == {i \in DOMAIN EcosystemRegistry : a \in EcosystemRegistry[i].contracts}
<1>1. \A a : holding(a) = {i \in 1..7 :
                \/ i = 1 /\ a \in {Permit2, Safe, CreateX}
                \/ i = 2 /\ a \in {Permit2, Safe, DodoApprove}
                \/ i = 3 /\ a = Usdc
                \/ i = 4 /\ a = PriceFeed
                \/ i = 5 /\ a = Ours
                \/ i = 7 /\ a = Morpho}
    BY RegistryEntries DEF CanonicalPacific, CanonicalAtlantic, OfficialTokens, PushFeeds,
       SafeHandsContracts, NamedProtocols, VerifiedProtocols
<1> HIDE DEF holding
<1>2. /\ holding(Usdc) = {3} /\ holding(Ours) = {5} /\ holding(Morpho) = {7}
      /\ holding(CreateX) = {1} /\ holding(PriceFeed) = {4} /\ holding(DodoApprove) = {2}
      /\ holding(Permit2) = {1, 2} /\ holding(Safe) = {1, 2}
    BY <1>1 DEF Usdc, Ours, Morpho, CreateX, PriceFeed, DodoApprove, Permit2, Safe
<1>3. \A a : a \notin {Permit2, Safe, CreateX, DodoApprove, Usdc, Ours, Morpho, PriceFeed} =>
                holding(a) = {}
    BY <1>1
<1>4. Max({1, 2}) = 2
    BY DEF Max
<1>5. \A a : RegistryItem(a) = IF holding(a) = {} THEN {} ELSE {EcosystemRegistry[Max(holding(a))]}
    BY DEF RegistryItem, holding
<1>6. Max({1}) = 1 /\ Max({2}) = 2 /\ Max({3}) = 3 /\ Max({4}) = 4 /\ Max({5}) = 5 /\ Max({7}) = 7
    BY MaxOfOne
<1>7. \A a, n : holding(a) # {} /\ Max(holding(a)) = n => RegistryItem(a) = {EcosystemRegistry[n]}
    BY <1>5
<1>8. /\ RegistryItem(Usdc) = {EcosystemRegistry[3]} /\ RegistryItem(Ours) = {EcosystemRegistry[5]}
      /\ RegistryItem(Morpho) = {EcosystemRegistry[7]} /\ RegistryItem(CreateX) = {EcosystemRegistry[1]}
      /\ RegistryItem(PriceFeed) = {EcosystemRegistry[4]}
      /\ RegistryItem(DodoApprove) = {EcosystemRegistry[2]}
    BY <1>2, <1>6, <1>7
<1>9. RegistryItem(Permit2) = {EcosystemRegistry[2]} /\ RegistryItem(Safe) = {EcosystemRegistry[2]}
    BY <1>2, <1>4, <1>7
<1> QED
    BY <1>3, <1>5, <1>8, <1>9, RegistryEntries

LEMMA TwoChains == Pacific # Atlantic
BY SMT DEF Pacific, Atlantic

LEMMA TrustOfOne ==
    ASSUME NEW a, NEW item, RegistryItem(a) = {item}
    PROVE  AddressTrust(a, Pacific).verified <=>
             item.chain = Pacific /\ item.safetyUse = "allow_eligible" /\ item.verification = "VERIFIED"
<1> DEFINE trusted == [recognized |-> TRUE,
                       verified |-> item.safetyUse = "allow_eligible" /\ item.verification = "VERIFIED",
                       note |-> FALSE]
           noted == [NoTrust EXCEPT !.note = TRUE]
           t == IF item.chain = Pacific THEN trusted ELSE noted
<1>1. NoTrust \in [recognized : BOOLEAN, verified : {FALSE}, note : BOOLEAN]
    BY DEF NoTrust
<1>2. noted.verified = FALSE
    BY <1>1
<1>3. AddressTrust(a, Pacific) = t
    <2> DEFINE trust == {IF it.chain = Pacific
                  THEN [recognized |-> TRUE,
                        verified |-> it.safetyUse = "allow_eligible" /\ it.verification = "VERIFIED",
                        note |-> FALSE]
                  ELSE [NoTrust EXCEPT !.note = TRUE] : it \in RegistryItem(a)}
    <2>1. AddressTrust(a, Pacific) = IF trust = {} THEN NoTrust ELSE CHOOSE x \in trust : TRUE
        BY DEF AddressTrust
    <2>2. trust = {t}
        OBVIOUS
    <2> HIDE DEF trust, t
    <2> QED
        BY <2>1, <2>2
<1>4. trusted.verified <=> item.safetyUse = "allow_eligible" /\ item.verification = "VERIFIED"
    OBVIOUS
<1>5. CASE item.chain = Pacific
    <2>1. AddressTrust(a, Pacific) = trusted
        BY <1>3, <1>5
    <2> HIDE DEF trusted
    <2> QED
        BY <1>4, <1>5, <2>1
<1>6. CASE item.chain # Pacific
    <2>1. AddressTrust(a, Pacific) = noted
        BY <1>3, <1>6
    <2> HIDE DEF noted
    <2> QED
        BY <1>2, <1>6, <2>1
<1> QED
    BY <1>5, <1>6

LEMMA VerifiedOnPacific ==
    \A a : AddressTrust(a, Pacific).verified <=> a \in {CreateX, Usdc, Ours, Morpho}
<1> TAKE a
<1>1. CASE a \notin {Permit2, Safe, CreateX, DodoApprove, Usdc, Ours, Morpho, PriceFeed}
    BY <1>1, RegistryItems DEF AddressTrust, NoTrust
<1>2. CASE a \in {CreateX, Usdc, Ours, Morpho}
    BY <1>2, RegistryItems, TrustOfOne DEF CanonicalPacific, OfficialTokens, SafeHandsContracts, VerifiedProtocols
<1>3. CASE a \in {Permit2, Safe, DodoApprove, PriceFeed}
    <2>1. a \notin {CreateX, Usdc, Ours, Morpho}
        BY <1>3 DEF Permit2, Safe, DodoApprove, PriceFeed, CreateX, Usdc, Ours, Morpho
    <2>2. CanonicalAtlantic.chain # Pacific /\ PushFeeds.safetyUse # "allow_eligible"
        BY TwoChains DEF CanonicalAtlantic, PushFeeds
    <2>3. RegistryItem(a) \in {{CanonicalAtlantic}, {PushFeeds}}
        BY <1>3, RegistryItems
    <2>4. ~AddressTrust(a, Pacific).verified
        BY <2>2, <2>3, TrustOfOne
    <2> QED
        BY <2>1, <2>4
<1> QED
    BY <1>1, <1>2, <1>3

\* Off the tokens and SafeHands' own contracts, both engines know the same
\* spenders on Pacific.
LEMMA SameKnownSpenders ==
    ASSUME ActiveChain = Pacific, NEW a,
           a \notin OfficialTokens.contracts \cup SafeHandsContracts.contracts
    PROVE  /\ ClassifySpender(a) <=> ClassifyCounterparty(a)
           /\ ClassifyKnown(a) <=> ClassifyCounterparty(a)
<1>1. a \notin {Usdc, Ours}
    BY DEF OfficialTokens, SafeHandsContracts
<1>2. CanonicalEvidence(a, ActiveChain) <=> a \in {Permit2, Safe, CreateX}
    BY DEF CanonicalEvidence, LookupCanonical, ContractMetadata, NetworksFor, CanonicalContracts,
           CanonicalPacific
<1>3. ClassifySpender(a) <=> a \in {Permit2, Safe, CreateX, Morpho}
    BY <1>1, <1>2, VerifiedOnPacific DEF ClassifySpender
<1>4. ClassifyCounterparty(a) <=> a \in {Permit2, Safe, CreateX, Morpho}
    BY DEF ClassifyCounterparty, KnownInfra, CanonicalPacific, VerifiedProtocols
<1> QED
    BY <1>3, <1>4 DEF ClassifyKnown

\* A score that stands for the verdict of a result.
Matches(result, floor) == HostedAnswer[result.decision] = ScoreToRec(floor)

LEMMA ScoresOfVerdicts ==
    /\ Matches(Allow, 0)
    /\ \A n \in {31, 35, 45, 61, 65} : \A r, s : Matches(Confirm(r, s), n)
    /\ Matches(Block, 90) /\ Matches(Block, 95)
    /\ Matches(Malformed, 45) /\ Matches(DangerousAdmin, 61)
BY ResultDecides DEF Matches, HostedAnswer, ScoreToRec

LEMMA WithMatches ==
    ASSUME NEW spender, NEW amount, NEW unlimited
    PROVE  Matches(With(Block, spender, amount, unlimited), 90)
<1>1. With(Block, spender, amount, unlimited).decision = Block.decision
    BY DEF With, Block, Result
<1> QED
    BY <1>1, ScoresOfVerdicts DEF Matches

\* An approval of a spender that both engines know, or neither.
LEMMA ApprovalsMatch ==
    ASSUME NEW call, call.party # Dirty, NEW known,
           known <=> ClassifyCounterparty(call.party)
    PROVE  Matches(ApprovalRisk(call.amount = Zero, Unlimited(call), known), ApprovalFloor(call))
BY ScoresOfVerdicts DEF ApprovalRisk, ApprovalFloor

LEMMA CallsMatch ==
    ASSUME ActiveChain = Pacific, NEW call, ~KnownToDiffer(call), call.sel \notin SafeSelectors
    PROVE  Matches(AnalyzeCalldata(call), CallFloor(call))
<1>1. /\ call.from # Dirty
      /\ ClassifySpender(call.party) <=> ClassifyCounterparty(call.party)
      /\ ClassifyKnown(call.party) <=> ClassifyCounterparty(call.party)
    BY SameKnownSpenders DEF KnownToDiffer
<1>3. CASE call.sel # "approve" /\ call.sel \notin Decodable
    BY <1>3, ScoresOfVerdicts DEF AnalyzeCalldata, CallFloor, SafeSelectors
<1>4. CASE call.sel \in Decodable \cup {"approve"} /\ call.words # "exact"
    <2>1. CallFloor(call) = 45
        BY <1>4 DEF CallFloor, SafeSelectors, MalformedFloor
    <2>2. AnalyzeCalldata(call) = Malformed
        BY <1>4 DEF AnalyzeCalldata, AnalyzeApproval
    <2> QED
        BY <2>1, <2>2, ScoresOfVerdicts
<1>5. CASE call.sel = "approve" /\ call.words = "exact"
    <2>1. AnalyzeCalldata(call) = AnalyzeApproval(call) /\ CallFloor(call) = ApprovalFloor(call)
        BY <1>5 DEF AnalyzeCalldata, CallFloor, SafeSelectors, Permissive, Transfers, Admin
    <2>2. CASE call.party = Dirty
        <3>1. AnalyzeApproval(call) = With(Block, None, call.amount, Unlimited(call))
            BY <1>5, <2>2 DEF AnalyzeApproval
        <3>2. ApprovalFloor(call) = 90
            BY <2>2 DEF ApprovalFloor
        <3> QED
            BY <2>1, <3>1, <3>2, WithMatches
    <2>3. CASE call.party # Dirty
        <3> DEFINE known == ClassifySpender(call.party)
                   risk == ApprovalRisk(call.amount = Zero, Unlimited(call), known)
        <3>1. AnalyzeApproval(call) = With(risk, call.party, call.amount, Unlimited(call))
            BY <1>5, <2>3 DEF AnalyzeApproval
        <3>2. Matches(risk, ApprovalFloor(call))
            BY <1>1, <2>3, ApprovalsMatch
        <3>3. With(risk, call.party, call.amount, Unlimited(call)).decision = risk.decision
            BY DEF With, ApprovalRisk, Allow, Block, Confirm, Result
        <3> HIDE DEF risk
        <3> QED
            BY <2>1, <3>1, <3>2, <3>3 DEF Matches
    <2> QED
        BY <2>2, <2>3
<1>6. CASE call.sel \in Permissive \ {"approve"} /\ call.words = "exact"
    <2>1. AnalyzeCalldata(call) = Grant(call) /\ CallFloor(call) = ApprovalFloor(call)
        BY <1>6 DEF AnalyzeCalldata, CallFloor, SafeSelectors, Permissive, Transfers, Admin, Decodable
    <2>2. CASE call.party = Dirty
        <3>1. Grant(call) = With(Block, None, call.amount, Unlimited(call))
            BY <2>2 DEF Grant
        <3>2. ApprovalFloor(call) = 90
            BY <2>2 DEF ApprovalFloor
        <3> QED
            BY <2>1, <3>1, <3>2, WithMatches
    <2>3. CASE call.party # Dirty
        <3> DEFINE known == ClassifyKnown(call.party)
                   risk == ApprovalRisk(call.amount = Zero, Unlimited(call), known)
        <3>1. Grant(call) = With(risk, call.party, call.amount, Unlimited(call))
            BY <2>3 DEF Grant
        <3>2. Matches(risk, ApprovalFloor(call))
            BY <1>1, <2>3, ApprovalsMatch
        <3>3. With(risk, call.party, call.amount, Unlimited(call)).decision = risk.decision
            BY DEF With, ApprovalRisk, Allow, Block, Confirm, Result
        <3> HIDE DEF risk
        <3> QED
            BY <2>1, <3>1, <3>2, <3>3 DEF Matches
    <2> QED
        BY <2>2, <2>3
<1>7. CASE call.sel = "setApprovalForAll" /\ call.words = "exact"
    <2>1. AnalyzeCalldata(call) = SetApprovalForAll(call) /\ CallFloor(call) = OperatorFloor(call)
        BY <1>7 DEF AnalyzeCalldata, CallFloor, SafeSelectors, Permissive, Transfers, Admin, Decodable
    <2> QED
        BY <1>1, <2>1, ScoresOfVerdicts DEF SetApprovalForAll, OperatorFloor, ApprovalRisk, MalformedFloor
<1>8. CASE call.sel \in Transfers /\ call.words = "exact"
    <2>1. AnalyzeCalldata(call) = TransferResult(call) /\ CallFloor(call) = TransferFloor(call)
        BY <1>8 DEF AnalyzeCalldata, CallFloor, SafeSelectors, Permissive, Transfers, Admin, Decodable
    <2> QED
        BY <1>1, <2>1, ScoresOfVerdicts DEF TransferResult, TransferFloor, DirtySource
<1>9. CASE call.sel = "decreaseAllowance" /\ call.words = "exact"
    <2>1. AnalyzeCalldata(call) = DecreaseAllowance(call) /\ CallFloor(call) = DecreaseFloor(call)
        BY <1>9 DEF AnalyzeCalldata, CallFloor, SafeSelectors, Permissive, Transfers, Admin, Decodable
    <2> QED
        BY <2>1, ScoresOfVerdicts DEF DecreaseAllowance, DecreaseFloor, MalformedFloor
<1>10. CASE call.sel \in Admin /\ call.words = "exact"
    <2>1. AnalyzeCalldata(call) = DangerousAdmin /\ CallFloor(call) = 61
        BY <1>10 DEF AnalyzeCalldata, CallFloor, SafeSelectors, Permissive, Transfers, Admin, Decodable
    <2> QED
        BY <2>1, ScoresOfVerdicts
<1>11. Decodable = (Permissive \ {"approve"}) \cup Admin \cup Transfers
                    \cup {"setApprovalForAll", "decreaseAllowance"}
    BY DEF Decodable
<1> QED
    BY <1>3, <1>4, <1>5, <1>6, <1>7, <1>8, <1>9, <1>10, <1>11

LEMMA AgreeOnCalldata ==
    ASSUME GuardianInv
    PROVE  EnginesAgree
<1> SUFFICES ASSUME Answered, entry = "/analyze/calldata", ActiveChain = Pacific,
                    ~KnownToDiffer(req.call), req.call.sel \notin SafeSelectors
             PROVE  HostedAnswer[answer] = ScoreToRec(CallFloor(req.call))
    BY DEF EnginesAgree
<1>1. answer = Handle(entry, req, read).decision
    BY AnswerIsVerdict DEF Verdict, Agent
<1>2. Handle(entry, req, read) = AnalyzeCalldata(req.call)
    BY DEF Handle, Tool, Agent, Check
<1> QED
    BY <1>1, <1>2, CallsMatch DEF Matches

\* The calldata route and the hosted engine give the same bytes the same
\* verdict on Pacific, for any call and any amount, but the two differences that
\* KnownToDiffer names and the calls of a Safe.
THEOREM BothEnginesAgree == VerdictsSpec => []EnginesAgree
BY GuardianHolds, AgreeOnCalldata, PTL

-----------------------------------------------------------------------------
(* The hosted engine: what is left to run, and what a score covers         *)

\* The steps of an intent, of a container after its own reads, of one address.
IntentParts(c) ==
    {Part("wallet", "recipient", c.payTo, 35), Part("wallet", "payTo", c.payTo, 35),
     Part("contract", "token", c.token, 40), Part("contract", "tokenIn", c.token, 40),
     Part("contract", "tokenOut", c.tokenOut, 40), Part("contract", "target", c.target, 0)}
IntentSteps(c) ==
    {p \in IntentParts(c) : p.at \in Addresses}
    \cup {Step(op) : op \in (PureSteps \ {"container"}) \cup {"acting"}}
ContainerSteps == {Part("contract", t, t, 25) : t \in Addresses} \cup {Step("container")}
Surface == Step("surface")
SubjectStep(c) == Part(c.action, "subject", c.at, 0)

LeftToRun ==
    \/ /\ cmd.action \in {"wallet", "contract"} /\ DOMAIN parts = {}
       /\ plan = <<SubjectStep(cmd)>>
    \/ /\ cmd.action \in {"vault", "pool"} /\ DOMAIN parts = {}
       /\ plan \in Seq(ContainerSteps \cup {Surface})
       /\ plan[1] = Surface /\ Tail(plan) \in Seq(ContainerSteps)
    \/ cmd.action \in {"vault", "pool"} /\ plan \in Seq(ContainerSteps)
    \/ cmd.action \notin Subjects /\ plan \in Seq(IntentSteps(cmd))

\* The address of a component.
RoleAt(role) ==
    IF role = "subject" THEN cmd.at
    ELSE IF role \in {"recipient", "payTo"} THEN cmd.payTo
    ELSE IF role \in {"token", "tokenIn"} THEN cmd.token
    ELSE IF role = "tokenOut" THEN cmd.tokenOut
    ELSE IF role = "target" THEN cmd.target ELSE role

\* The score is no lower than a component's, but a drifted target's; what was
\* not vetted scores above the floor, and no drifted target counts as such.
Covered(role) ==
    /\ parts[role].score \in 0..100
    /\ DriftedTarget(role) \/ score >= 2 * parts[role].score
    /\ Unvetted(role) => parts[role].score >= ThreatIntelFloor /\ ~DriftedTarget(role)

CarriedAhead == \E i \in DOMAIN plan : plan[i].op = "carried"
CarriedCovered == HasCall(cmd) => CarriedAhead \/ score >= 2 * CarriedFloor(cmd.call, cmd.batch)

\* What is run is as it was planned, and the score covers what is done.
EngineInv ==
    /\ status \in {"idle", "running", "done", "failed"}
    /\ status = "idle" => EngineIdle
    /\ status \in {"running", "done"} =>
        /\ cmd \in Commands /\ shop \in ShopFacts /\ drifted \in BOOLEAN /\ score \in Nat
        /\ cmd.action \notin Subjects => score >= 20
        /\ \A role \in DOMAIN parts : Covered(role)
        /\ CarriedCovered
    /\ status = "running" =>
        /\ LeftToRun /\ plan # <<>> /\ ~Invalidates(cmd)
        /\ stage = "intel" => ~EarlyReturn
    /\ status = "done" => plan = <<>>

-----------------------------------------------------------------------------
(* The hosted engine: scores                                               *)

LEMMA MinOfTwo ==
    ASSUME NEW a \in Int, NEW b \in Int
    PROVE  Min({a, b}) = IF a <= b THEN a ELSE b
BY DEF Min

LEMMA MaxOfTwo ==
    ASSUME NEW a \in Int, NEW b \in Int
    PROVE  Max({a, b}) = IF a >= b THEN a ELSE b
BY DEF Max

\* A score never falls to what it is held at or added to.
LEMMA ScoresGrow ==
    ASSUME NEW s \in Nat, NEW n \in Nat
    PROVE  /\ AtLeast(s, n) \in Nat /\ AtLeast(s, n) >= s /\ AtLeast(s, n) >= 2 * n
           /\ Add(s, n) \in Nat /\ Add(s, n) >= s
BY DEF AtLeast, Add

LEMMA FactsTyped ==
    \A a \in Addresses : shop \in ShopFacts /\ drifted \in BOOLEAN => FactsOf(a) \in Facts
<1> SUFFICES ASSUME NEW a \in Addresses, shop \in ShopFacts, drifted \in BOOLEAN
             PROVE  FactsOf(a) \in Facts
    OBVIOUS
<1>1. CASE a = Shop
    BY <1>1, CommandAssumption DEF FactsOf, Shop, Morpho
<1>2. CASE a = Morpho
    <2>1. BaseFacts[a] \in Facts
        BY CommandAssumption
    <2>2. [BaseFacts[a] EXCEPT !.drifted = drifted] \in Facts
        BY <2>1 DEF Facts
    <2> QED
        BY <1>2, <2>2 DEF FactsOf, Shop, Morpho
<1>3. CASE a \notin {Shop, Morpho}
    BY <1>3, CommandAssumption DEF FactsOf
<1> QED
    BY <1>1, <1>2, <1>3

LEMMA AddsTyped ==
    ASSUME NEW a, NEW f \in Facts, NEW failed, NEW intel
    PROVE  /\ SurfaceScore(a, f, failed) \in Nat
           /\ ProxyAdd(f, failed) \in Nat /\ IntelAdd(f, failed, intel) \in Nat
<1>1. f.extra \in Nat /\ f.flags \in Nat /\ f.perm \in DOMAIN PermissionedAdd
    BY DEF Facts
<1>2. \A p \in DOMAIN PermissionedAdd : PermissionedAdd[p] \in Nat
    BY DEF PermissionedAdd
<1>3. PermissionedAdd[IF "permissioned" \in failed THEN "none" ELSE f.perm] \in Nat
    <2>1. "none" \in DOMAIN PermissionedAdd
        BY DEF PermissionedAdd
    <2> QED
        BY <1>1, <1>2, <2>1
<1>4. SurfaceScore(a, f, failed) \in Nat
    BY <1>1, <1>3 DEF SurfaceScore
<1> QED
    BY <1>1, <1>4 DEF ProxyAdd, IntelAdd

\* The score of a contract, and of one the threat intelligence did not vet.
LEMMA ContractScored ==
    ASSUME NEW a, NEW f \in Facts, NEW failed, NEW intel
    PROVE  /\ AnalyzeContract(a, f, failed, intel) \in 0..100
           /\ ~f.code => AnalyzeContract(a, f, failed, intel) = 95
           /\ f.code /\ a \in KnownInfra /\ ~f.drifted => AnalyzeContract(a, f, failed, intel) = 5
           /\ /\ f.code /\ a \notin KnownInfra \cup OfficialTokens.contracts
              /\ ~f.copy /\ f.proxy # "recognized" /\ intel # "data"
              => AnalyzeContract(a, f, failed, intel) >= ThreatIntelFloor
<1> DEFINE sum == SurfaceScore(a, f, failed) + (IF f.small THEN 15 ELSE 0)
                  + ProxyAdd(f, failed) + IntelAdd(f, failed, intel)
           official == LooksToken(f, failed) /\ a \in OfficialTokens.contracts
           vetted == Vetted(f, failed, intel) \/ official \/ CodeRecognized(f, failed)
           whole == AnalyzeContract(a, f, failed, intel)
<1>1. sum \in Nat
    BY AddsTyped
<1>2. whole = IF ~f.code THEN 95
               ELSE IF a \in KnownInfra THEN (IF f.drifted THEN 80 ELSE 5)
               ELSE IF vetted THEN Min({100, sum}) ELSE Min({100, Max({sum, ThreatIntelFloor})})
    BY DEF AnalyzeContract
<1>3. ASSUME a \notin OfficialTokens.contracts, ~f.copy, f.proxy # "recognized", intel # "data", vetted
      PROVE  sum >= ThreatIntelFloor
    <2>1. ~LooksToken(f, failed)
        BY <1>3 DEF Vetted, CodeRecognized
    <2>2. SurfaceScore(a, f, failed) = 40
        BY <1>3, <2>1 DEF SurfaceScore
    <2> QED
        BY <2>2, AddsTyped DEF ThreatIntelFloor
<1> HIDE DEF sum, vetted
<1>4. /\ Min({100, sum}) = IF 100 <= sum THEN 100 ELSE sum
      /\ Max({sum, ThreatIntelFloor}) = IF sum >= ThreatIntelFloor THEN sum ELSE ThreatIntelFloor
    BY <1>1, MinOfTwo, MaxOfTwo DEF ThreatIntelFloor
<1>5. \A m \in Nat : Min({100, m}) = IF 100 <= m THEN 100 ELSE m
    BY MinOfTwo
<1> HIDE DEF whole
<1>6. /\ whole \in 0..100
      /\ ~f.code => whole = 95
      /\ f.code /\ a \in KnownInfra /\ ~f.drifted => whole = 5
    BY <1>1, <1>2, <1>4, <1>5 DEF ThreatIntelFloor
<1>7. /\ f.code /\ a \notin KnownInfra \cup OfficialTokens.contracts
      /\ ~f.copy /\ f.proxy # "recognized" /\ intel # "data"
      => whole >= ThreatIntelFloor
    BY <1>1, <1>2, <1>3, <1>4, <1>5 DEF ThreatIntelFloor
<1> QED
    BY <1>6, <1>7 DEF whole

LEMMA WalletScored ==
    ASSUME NEW f \in Facts, NEW expectWallet, NEW intel
    PROVE  /\ AnalyzeWallet(f, expectWallet, intel) \in 0..100
           /\ intel # "data" => AnalyzeWallet(f, expectWallet, intel) >= ThreatIntelFloor
<1> DEFINE sum == 10 + (IF expectWallet /\ f.code THEN 35 ELSE 0)
                  + (IF ~f.code /\ f.fresh THEN 25 ELSE 0)
                  + (IF f.empty THEN 15 ELSE 0)
                  + (IF intel = "data" THEN f.flags ELSE 0)
           held == IF intel = "data" THEN sum ELSE Max({sum, ThreatIntelFloor})
<1>1. sum \in Nat
    BY DEF Facts
<1>2. AnalyzeWallet(f, expectWallet, intel) = Min({100, held})
    BY DEF AnalyzeWallet
<1> HIDE DEF sum
<1>3. Max({sum, ThreatIntelFloor}) = IF sum >= ThreatIntelFloor THEN sum ELSE ThreatIntelFloor
    BY <1>1, MaxOfTwo DEF ThreatIntelFloor
<1>4. held \in Nat /\ (intel # "data" => held >= ThreatIntelFloor)
    BY <1>1, <1>3 DEF ThreatIntelFloor
<1> HIDE DEF held
<1>5. Min({100, held}) = IF 100 <= held THEN 100 ELSE held
    BY <1>4, MinOfTwo
<1> QED
    BY <1>2, <1>4, <1>5 DEF ThreatIntelFloor

-----------------------------------------------------------------------------
(* The hosted engine: what a call is scored at least                       *)

Floors == {0, 31, 35, 45, 61, 65, 90, 95}

\* The highest of some floors is one of them.
LEMMA MaxFloor ==
    ASSUME NEW S \in SUBSET Floors, S # {}
    PROVE  Max(S) \in S /\ \A n \in S : Max(S) >= n
<1>1. \E m \in S : \A n \in S : m >= n
    <2> DEFINE highest(m) == m \in S /\ \A n \in S : m >= n
    <2>1. S \subseteq Floors /\ S # {}
        OBVIOUS
    <2>2. 95 \in S => highest(95)
        BY <2>1 DEF Floors
    <2>3. 95 \notin S /\ 90 \in S => highest(90)
        BY <2>1 DEF Floors
    <2>4. 95 \notin S /\ 90 \notin S /\ 65 \in S => highest(65)
        BY <2>1 DEF Floors
    <2>5. 95 \notin S /\ 90 \notin S /\ 65 \notin S /\ 61 \in S => highest(61)
        BY <2>1 DEF Floors
    <2>6. 95 \notin S /\ 90 \notin S /\ 65 \notin S /\ 61 \notin S /\ 45 \in S => highest(45)
        BY <2>1 DEF Floors
    <2>7. S \subseteq {0, 31, 35} /\ 35 \in S => highest(35)
        BY <2>1
    <2>8. S \subseteq {0, 31} /\ 31 \in S => highest(31)
        BY <2>1
    <2>9. S \subseteq {0} /\ 0 \in S => highest(0)
        BY <2>1
    <2> HIDE DEF highest
    <2>10. \E m \in S : highest(m)
        <3>1. CASE S \cap {45, 61, 65, 90, 95} # {}
            <4>1. 95 \in S \/ 90 \in S \/ 65 \in S \/ 61 \in S \/ 45 \in S
                BY <3>1
            <4> QED
                BY <4>1, <2>2, <2>3, <2>4, <2>5, <2>6
        <3>2. CASE S \cap {45, 61, 65, 90, 95} = {}
            <4>1. S \subseteq {0, 31, 35}
                BY <2>1, <3>2 DEF Floors
            <4>2. 35 \notin S => S \subseteq {0, 31}
                BY <4>1
            <4>3. 35 \notin S /\ 31 \notin S => S \subseteq {0} /\ 0 \in S
                BY <2>1, <4>1
            <4> QED
                BY <2>7, <2>8, <2>9, <4>1, <4>2, <4>3
        <3> QED
            BY <3>1, <3>2
    <2> QED
        BY <2>10 DEF highest
<1> QED
    BY <1>1 DEF Max

LEMMA CallFloors == \A call : CallFloor(call) \in Floors
<1> TAKE call
<1>1. /\ ApprovalFloor(call) \in Floors /\ OperatorFloor(call) \in Floors
      /\ TransferFloor(call) \in Floors /\ DecreaseFloor(call) \in Floors
    BY DEF ApprovalFloor, OperatorFloor, TransferFloor, DecreaseFloor, MalformedFloor, Floors
<1>2. CASE call.sel \notin Decodable \cup {"approve"} \/ call.words # "exact"
    BY <1>2 DEF CallFloor, MalformedFloor, Floors
<1>3. CASE call.sel \in Decodable \cup {"approve"} /\ call.words = "exact"
    <2>1. call.sel \notin {"execTransaction", "multiSend"}
        BY <1>3 DEF Decodable, Permissive, Transfers, Admin
    <2>2. CallFloor(call) \in {ApprovalFloor(call), OperatorFloor(call), TransferFloor(call),
                               DecreaseFloor(call), 61}
        BY <1>3, <2>1 DEF CallFloor, Decodable, Permissive, Transfers, Admin
    <2> QED
        BY <1>1, <2>2 DEF Floors
<1> QED
    BY <1>2, <1>3

LEMMA InnerFloors == \A c : InnerFloor(c) \in Floors
<1> TAKE c
<1> DEFINE called == IF c.op = "delegatecall" THEN 45 ELSE 0
           carried == CASE c.data = "call" -> CallFloor(c.call)
                        [] c.data = "short" -> 45
                        [] OTHER -> IF c.value > 0 THEN 35 ELSE 0
<1>1. called \in Floors
    BY DEF Floors
<1>2. carried \in Floors
    BY CallFloors DEF Floors
<1>3. InnerFloor(c) = Max({called, carried})
    BY DEF InnerFloor
<1> HIDE DEF called, carried
<1> QED
    BY <1>1, <1>2, <1>3, MaxFloor

\* The floor of a batch is above every call in it that warns, kept or not.
LEMMA BatchFloors ==
    ASSUME NEW batch, batch.calls \in Seq(InnerCalls(batch))
    PROVE  /\ BatchFloor(batch) \in Floors
           /\ \A c \in InnerCalls(batch) : InnerFloor(c) > 30 => BatchFloor(batch) > 30
<1>1. CASE batch.bytes # "parse"
    BY <1>1 DEF BatchFloor, Floors
<1>2. CASE batch.bytes = "parse"
    <2> DEFINE n == Min({Len(batch.calls), MaxInner})
               kept == SubSeq(batch.calls, 1, n)
               overflow == IF Len(batch.calls) > MaxInner THEN 45 ELSE 0
               S == {overflow} \cup {InnerFloor(kept[i]) : i \in DOMAIN kept}
    <2>1. BatchFloor(batch) = Max(S)
        BY <1>2 DEF BatchFloor
    <2>2. S \in SUBSET Floors
        BY InnerFloors DEF Floors
    <2>3. Len(batch.calls) \in Nat /\ MaxInner \in Nat
        BY MaxInnerAssumption
    <2>4. n = IF Len(batch.calls) <= MaxInner THEN Len(batch.calls) ELSE MaxInner
        BY <2>3, MinOfTwo
    <2>5. overflow \in S
        OBVIOUS
    <2>6. ASSUME Len(batch.calls) <= MaxInner, NEW c \in InnerCalls(batch)
          PROVE  InnerFloor(c) \in S
        <3>1. PICK i \in DOMAIN batch.calls : c = batch.calls[i]
            BY DEF InnerCalls
        <3>2. n = Len(batch.calls)
            BY <2>4, <2>6
        <3>3. kept = batch.calls
            BY <3>2, <2>3
        <3> QED
            BY <3>1, <3>3
    <2> HIDE DEF S, n
    <2>7. Max(S) \in S /\ \A m \in S : Max(S) >= m
        BY <2>2, <2>5, MaxFloor
    <2>8. Max(S) \in Floors
        BY <2>2, <2>7
    <2>9. ASSUME NEW c \in InnerCalls(batch), InnerFloor(c) > 30 PROVE Max(S) > 30
        <3>1. CASE Len(batch.calls) <= MaxInner
            <4>1. Max(S) >= InnerFloor(c) /\ InnerFloor(c) \in Floors
                BY <2>6, <2>7, <2>9, <3>1, InnerFloors
            <4> QED
                BY <2>8, <2>9, <4>1 DEF Floors
        <3>2. CASE ~(Len(batch.calls) <= MaxInner)
            <4>1. Max(S) >= 45
                BY <2>3, <2>5, <2>7, <3>2
            <4> QED
                BY <2>8, <4>1 DEF Floors
        <3> QED
            BY <3>1, <3>2
    <2> QED
        BY <2>1, <2>8, <2>9
<1> QED
    BY <1>1, <1>2

LEMMA CarriedFloors ==
    ASSUME NEW c \in Commands
    PROVE  CarriedFloor(c.call, c.batch) \in Floors
BY CommandAssumption, BatchFloors, CallFloors DEF CarriedFloor

-----------------------------------------------------------------------------
(* The hosted engine: what a step may add                                  *)

LEMMA UrlRiskTyped == \A traits : UrlRisk(traits) \in Nat
<1> TAKE traits
<1> DEFINE add(t) == IF t \in traits THEN UrlWeights[t] ELSE 0
           sum == add("notWeb") + add("http") + add("credentials") + add("ipLiteral")
                  + add("private") + add("punycode") + add("port") + add("long")
<1>1. /\ add("notWeb") \in Nat /\ add("http") \in Nat /\ add("credentials") \in Nat
      /\ add("ipLiteral") \in Nat /\ add("private") \in Nat /\ add("punycode") \in Nat
      /\ add("port") \in Nat /\ add("long") \in Nat
    BY DEF UrlWeights
<1>2. UrlRisk(traits) = IF "malformed" \in traits THEN 40 ELSE Min({90, sum})
    BY DEF UrlRisk
<1> HIDE DEF add
<1>3. sum \in Nat
    BY <1>1
<1> HIDE DEF sum
<1>4. Min({90, sum}) = IF 90 <= sum THEN 90 ELSE sum
    BY <1>3, MinOfTwo
<1> QED
    BY <1>2, <1>3, <1>4

\* A step that weighs never lowers the score, and the decode of a carried call
\* holds it at that call's floor.
LEMMA WeighedGrow ==
    ASSUME NEW op \in PureSteps, NEW s \in Nat, NEW t \in Weighed(op, s), cmd \in Commands
    PROVE  /\ t \in Nat /\ t >= s
           /\ op = "carried" /\ HasCall(cmd) => t >= 2 * CarriedFloor(cmd.call, cmd.batch)
<1>1. CASE op = "denylist"
    BY <1>1, ScoresGrow DEF Weighed
<1>2. CASE op = "amount"
    <2>1. t = Add(s, AmountAdd(cmd)) /\ AmountAdd(cmd) \in Nat
        BY <1>2 DEF Weighed, AmountAdd
    <2> QED
        BY <1>2, <2>1, ScoresGrow
<1>3. CASE op = "exposure"
    <2>1. PICK n \in ExposureAdds(cmd) : t = Add(s, n)
        BY <1>3 DEF Weighed
    <2>2. n \in Nat
        BY DEF ExposureAdds
    <2> QED
        BY <1>3, <2>1, <2>2, ScoresGrow
<1>4. CASE op = "history"
    BY <1>4, ScoresGrow DEF Weighed
<1>5. CASE op = "eligibility"
    <2>1. t \in {s, AtLeast(s, 70)}
        BY <1>5 DEF Weighed, Eligibility
    <2> QED
        BY <1>5, <2>1 DEF AtLeast
<1>6. CASE op = "carried"
    <2> DEFINE floor == CarriedFloor(cmd.call, cmd.batch)
    <2>1. floor \in Nat
        BY CarriedFloors DEF Floors
    <2>2. t = IF HasCall(cmd) THEN AtLeast(s, floor) ELSE s
        BY <1>6 DEF Weighed, Carried
    <2> HIDE DEF floor
    <2>3. t \in Nat /\ t >= s /\ (HasCall(cmd) => t >= 2 * floor)
        BY <2>1, <2>2, ScoresGrow
    <2> QED
        BY <2>3 DEF floor
<1>7. CASE op = "simulate"
    <2>1. t \in {s, Add(s, 10), Add(s, 35)}
        BY <1>7 DEF Weighed, Simulated
    <2> QED
        BY <1>7, <2>1 DEF Add
<1>8. CASE op = "noTarget"
    <2>1. t \in {AtLeast(s, 45), AtLeast(s, 35)}
        BY <1>8 DEF Weighed
    <2> QED
        BY <1>8, <2>1, ScoresGrow
<1>9. CASE op = "allowance"
    BY <1>9, ScoresGrow DEF Weighed
<1>10. CASE op = "url"
    <2>1. t \in {Add(s, UrlRisk(cmd.url)), AtLeast(s, 35)}
        BY <1>10 DEF Weighed
    <2> QED
        BY <1>10, <2>1, ScoresGrow, UrlRiskTyped
<1>11. CASE op = "container"
    <2>1. PICK w \in Weaknesses(cmd), failed \in {{}, {"proxy"}} :
            t = AtLeast(Add(s, w + ProxyAdd(FactsOf(cmd.at), failed)), ContainerFloor)
        BY <1>11 DEF Weighed, ContainerScores
    <2>2. w + ProxyAdd(FactsOf(cmd.at), failed) \in Nat
        <3>1. ProxyAdd(FactsOf(cmd.at), failed) \in {0, 10, 40}
            BY DEF ProxyAdd
        <3>2. w \in Nat
            BY DEF Weaknesses
        <3> QED
            BY <3>1, <3>2
    <2> DEFINE added == Add(s, w + ProxyAdd(FactsOf(cmd.at), failed))
    <2>3. added \in Nat /\ added >= s
        BY <2>2, ScoresGrow
    <2> HIDE DEF added
    <2>4. AtLeast(added, ContainerFloor) \in Nat /\ AtLeast(added, ContainerFloor) >= added
        BY <2>3, ScoresGrow DEF ContainerFloor
    <2> QED
        BY <1>11, <2>1, <2>3, <2>4 DEF added
<1> QED
    BY <1>1, <1>2, <1>3, <1>4, <1>5, <1>6, <1>7, <1>8, <1>9, <1>10, <1>11 DEF PureSteps

\* A component's own score is a floor of the composed one.
LEMMA ComposedGrow ==
    ASSUME NEW s \in Nat, NEW sub \in 0..100, NEW cap \in Nat
    PROVE  /\ ComposeComponent(s, sub, cap) \in Nat
           /\ ComposeComponent(s, sub, cap) >= s /\ ComposeComponent(s, sub, cap) >= 2 * sub
<1>1. Min({2 * cap, sub}) \in Nat
    <2>1. Min({2 * cap, sub}) = IF 2 * cap <= sub THEN 2 * cap ELSE sub
        BY MinOfTwo
    <2> QED
        BY <2>1
<1> DEFINE sum == IF sub > 30 THEN s + Min({2 * cap, sub}) ELSE s
<1>2. sum \in Nat /\ sum >= s
    BY <1>1
<1>3. ComposeComponent(s, sub, cap) = AtLeast(sum, sub)
    BY DEF ComposeComponent
<1> HIDE DEF sum
<1>4. AtLeast(sum, sub) \in Nat /\ AtLeast(sum, sub) >= sum /\ AtLeast(sum, sub) >= 2 * sub
    BY <1>2, ScoresGrow
<1> QED
    BY <1>2, <1>3, <1>4

-----------------------------------------------------------------------------
(* The hosted engine: what is planned                                      *)

PlannedFor(c, p) ==
    /\ p # <<>>
    /\ c.action \in {"wallet", "contract"} => p = <<SubjectStep(c)>>
    /\ c.action \in {"vault", "pool"} =>
        /\ p \in Seq(ContainerSteps \cup {Surface})
        /\ p[1] = Surface /\ Tail(p) \in Seq(ContainerSteps)
    /\ c.action \notin Subjects =>
        /\ p \in Seq(IntentSteps(c))
        /\ \E i \in DOMAIN p : p[i].op = "carried"

LEMMA AddressesAreFinite == IsFiniteSet(Addresses)
<1> DEFINE listed == <<Permit2, Safe, CreateX, DodoApprove, Usdc, Ours, Morpho, PriceFeed,
                       FeedCache, Peer, Shop, Shady>>
<1>1. listed \in [1..12 -> Addresses]
    BY DEF Addresses
<1>2. \A a \in Addresses : \E i \in 1..12 : listed[i] = a
    BY DEF Addresses
<1> HIDE DEF listed
<1>3. listed \in Surjection(1..12, Addresses)
    BY <1>1, <1>2 DEF Surjection
<1>4. IsFiniteSet(1..12)
    <2>1. 1 \in Int /\ 12 \in Int
        OBVIOUS
    <2> QED
        BY <2>1, FS_Interval
<1> QED
    BY <1>3, <1>4, FS_Surjection

\* The elements of a finite set can be listed.
LEMMA FiniteListed ==
    ASSUME NEW S, IsFiniteSet(S)
    PROVE  SetToSeq(S) \in Seq(S)
<1>1. Cardinality(S) \in Nat /\ ExistsBijection(1..Cardinality(S), S)
    BY FS_CardinalityType
<1>2. PICK f : f \in Bijection(1..Cardinality(S), S)
    BY <1>1 DEF ExistsBijection
<1>3. f \in [1..Cardinality(S) -> S] /\ IsInjective(f)
    BY <1>2 DEF Bijection, Injection
<1>4. SetToSeq(S) \in [1..Cardinality(S) -> S]
    BY <1>3 DEF SetToSeq
<1> QED
    BY <1>1, <1>4

LEMMA ContainerPlanned ==
    ASSUME NEW holds \in SUBSET Addresses
    PROVE  /\ ContainerPlan(holds) \in Seq(ContainerSteps \cup {Surface})
           /\ ContainerPlan(holds) # <<>> /\ ContainerPlan(holds)[1] = Surface
           /\ Tail(ContainerPlan(holds)) \in Seq(ContainerSteps)
<1> DEFINE held == {Part("contract", t, t, 25) : t \in holds}
           reading == SetToSeq(held)
           weighed == <<Step("container")>>
<1>1. IsFiniteSet(holds)
    BY AddressesAreFinite, FS_Subset
<1>2. IsFiniteSet(held)
    <2> DEFINE each == [t \in holds |-> Part("contract", t, t, 25)]
    <2>1. each \in [holds -> held] /\ \A p \in held : \E t \in holds : each[t] = p
        OBVIOUS
    <2> HIDE DEF each, held
    <2>2. each \in Surjection(holds, held)
        BY <2>1 DEF Surjection
    <2> QED
        BY <1>1, <2>2, FS_Surjection
<1>3. reading \in Seq(held)
    BY <1>2, FiniteListed
<1>4. held \subseteq ContainerSteps /\ Step("container") \in ContainerSteps
    BY DEF ContainerSteps
<1> HIDE DEF held, reading
<1>5. reading \in Seq(ContainerSteps) /\ weighed \in Seq(ContainerSteps)
    BY <1>3, <1>4
<1> DEFINE rest == reading \o weighed
<1>6. rest \in Seq(ContainerSteps)
    BY <1>5
<1>7. ContainerPlan(holds) = <<Surface>> \o reading \o weighed
    BY DEF ContainerPlan, held, reading, Surface
<1> HIDE DEF weighed
<1>8. <<Surface>> \o reading \o weighed = <<Surface>> \o rest
    <2>1. <<Surface>> \in Seq(ContainerSteps \cup {Surface})
        OBVIOUS
    <2> QED
        BY <1>5, <2>1
<1> HIDE DEF rest
<1>9. /\ <<Surface>> \o rest \in Seq(ContainerSteps \cup {Surface}) /\ <<Surface>> \o rest # <<>>
      /\ (<<Surface>> \o rest)[1] = Surface /\ Tail(<<Surface>> \o rest) = rest
    BY <1>6
<1> QED
    BY <1>6, <1>7, <1>8, <1>9

LEMMA StepsOfIntents ==
    \A c : \A op \in (PureSteps \ {"container"}) \cup {"acting"} : Step(op) \in IntentSteps(c)
BY DEF IntentSteps

LEMMA TransferPlanned ==
    ASSUME NEW c, Is(c.payTo)
    PROVE  TransferPlan(c) \in Seq(IntentSteps(c)) /\ TransferPlan(c)[7].op = "carried"
<1> DEFINE S == IntentSteps(c)
<1>1. Part("wallet", "recipient", c.payTo, 35) \in S
    BY DEF IntentSteps, IntentParts, Is, Part
<1>2. /\ Step("acting") \in S /\ Step("denylist") \in S /\ Step("amount") \in S
      /\ Step("exposure") \in S /\ Step("history") \in S /\ Step("carried") \in S
    BY StepsOfIntents DEF PureSteps
<1>3. Step("carried").op = "carried"
    BY DEF Step, Part
<1> HIDE DEF S
<1>4. TransferPlan(c) \in Seq(S) /\ TransferPlan(c)[7] = Step("carried")
    BY <1>1, <1>2 DEF TransferPlan
<1> QED
    BY <1>3, <1>4 DEF S

LEMMA SwapPlanned ==
    ASSUME NEW c, Is(c.token), Is(c.tokenOut)
    PROVE  SwapPlan(c) \in Seq(IntentSteps(c)) /\ SwapPlan(c)[7].op = "carried"
<1> DEFINE S == IntentSteps(c)
<1>1. /\ Part("contract", "tokenIn", c.token, 40) \in S
      /\ Part("contract", "tokenOut", c.tokenOut, 40) \in S
    BY DEF IntentSteps, IntentParts, Is, Part
<1>2. /\ Step("acting") \in S /\ Step("eligibility") \in S
      /\ Step("exposure") \in S /\ Step("history") \in S /\ Step("carried") \in S
    BY StepsOfIntents DEF PureSteps
<1>3. Step("carried").op = "carried"
    BY DEF Step, Part
<1> HIDE DEF S
<1>4. SwapPlan(c) \in Seq(S) /\ SwapPlan(c)[7] = Step("carried")
    BY <1>1, <1>2 DEF SwapPlan
<1> QED
    BY <1>3, <1>4 DEF S

\* What a plan is put together from keeps its steps.
LEMMA PlansJoined ==
    ASSUME NEW S, NEW p \in Seq(S), NEW q \in Seq(S), NEW i \in DOMAIN p
    PROVE  /\ p \o q \in Seq(S)
           /\ i \in DOMAIN (p \o q) /\ (p \o q)[i] = p[i]
           /\ Len(q) + i \in DOMAIN (q \o p) /\ (q \o p)[Len(q) + i] = p[i]
OBVIOUS

LEMMA RealFiPlanned ==
    ASSUME NEW c
    PROVE  /\ RealFiPlan(c) \in Seq(IntentSteps(c))
           /\ \E i \in DOMAIN RealFiPlan(c) : RealFiPlan(c)[i].op = "carried"
<1> DEFINE S == IntentSteps(c)
           acting == When(Is(c.wallet), <<Step("acting"), Step("history")>>)
           token == When(Is(c.token), <<Part("contract", "token", c.token, 40)>>)
           target == IF Is(c.target) THEN <<Part("contract", "target", c.target, 0)>>
                     ELSE When(c.action \notin UrlActions, <<Step("noTarget")>>)
           allowance == When(c.action \notin UrlActions /\ Is(c.token) /\ Is(c.target) /\ Is(c.wallet),
                             <<Step("allowance")>>)
           carried == <<Step("carried"), Step("simulate")>>
           amount == When(Is(c.wallet) /\ ~Is(c.token), <<Step("amount")>>)
           payTo == When(Is(c.payTo), <<Part("wallet", "payTo", c.payTo, 35), Step("denylist")>>)
           url == When(c.action \in UrlActions, <<Step("url")>> \o payTo)
<1>1. /\ Is(c.token) => Part("contract", "token", c.token, 40) \in S
      /\ Is(c.target) => Part("contract", "target", c.target, 0) \in S
      /\ Is(c.payTo) => Part("wallet", "payTo", c.payTo, 35) \in S
    BY DEF IntentSteps, IntentParts, Is, Part
<1>2. /\ Step("acting") \in S /\ Step("history") \in S /\ Step("noTarget") \in S
      /\ Step("allowance") \in S /\ Step("carried") \in S /\ Step("simulate") \in S
      /\ Step("amount") \in S /\ Step("url") \in S /\ Step("denylist") \in S
    BY StepsOfIntents DEF PureSteps
<1>3. Step("carried").op = "carried"
    BY DEF Step, Part
<1> HIDE DEF S
<1>4. /\ acting \in Seq(S) /\ token \in Seq(S) /\ target \in Seq(S)
      /\ allowance \in Seq(S) /\ amount \in Seq(S)
    BY <1>1, <1>2 DEF When
<1>5. carried \in Seq(S) /\ Len(carried) = 2 /\ carried[1] = Step("carried")
    BY <1>2
<1>6. payTo \in Seq(S)
    BY <1>1, <1>2 DEF When
<1>7. url \in Seq(S)
    <2> HIDE DEF payTo
    <2>1. <<Step("url")>> \o payTo \in Seq(S)
        BY <1>2, <1>6
    <2> QED
        BY <2>1 DEF When
<1>8. RealFiPlan(c) = acting \o token \o target \o allowance \o carried \o amount \o url
    BY DEF RealFiPlan
<1> HIDE DEF acting, token, target, allowance, carried, amount, url
<1> DEFINE before == acting \o token \o target \o allowance
<1>9. before \in Seq(S)
    BY <1>4
<1> HIDE DEF before
<1>10. /\ before \o carried \in Seq(S)
       /\ Len(before) + 1 \in DOMAIN (before \o carried)
       /\ (before \o carried)[Len(before) + 1] = carried[1]
    BY <1>5, <1>9
<1> DEFINE upTo == before \o carried
           after == upTo \o amount
<1> HIDE DEF upTo
<1>11. /\ after \in Seq(S) /\ Len(before) + 1 \in DOMAIN after
       /\ after[Len(before) + 1] = carried[1]
    BY <1>4, <1>10, PlansJoined DEF upTo
<1> HIDE DEF after
<1>12. /\ after \o url \in Seq(S) /\ Len(before) + 1 \in DOMAIN (after \o url)
       /\ (after \o url)[Len(before) + 1] = carried[1]
    BY <1>7, <1>11, PlansJoined
<1>13. RealFiPlan(c) = after \o url
    BY <1>8 DEF after, upTo, before
<1> QED
    BY <1>3, <1>5, <1>12, <1>13 DEF S

\* What a command that is not refused has planned.
LEMMA Planned ==
    ASSUME NEW c \in Commands, ~Invalidates(c), NEW holds \in SUBSET Addresses
    PROVE  PlannedFor(c, Plan(c, holds))
<1>1. CASE c.action \in {"wallet", "contract"}
    <2>1. Plan(c, holds) = <<SubjectStep(c)>>
        BY <1>1 DEF Plan, SubjectStep, Part
    <2> QED
        BY <1>1, <2>1 DEF PlannedFor, Subjects
<1>2. CASE c.action \in {"vault", "pool"}
    <2>1. Plan(c, holds) = ContainerPlan(holds)
        BY <1>2 DEF Plan
    <2> QED
        BY <1>2, <2>1, ContainerPlanned DEF PlannedFor, Subjects
<1>3. CASE c.action = "transfer"
    <2>1. Plan(c, holds) = TransferPlan(c) /\ Is(c.payTo)
        BY <1>3 DEF Plan, Invalidates
    <2>2. 7 \in DOMAIN TransferPlan(c) /\ TransferPlan(c) # <<>>
        BY DEF TransferPlan
    <2> QED
        BY <1>3, <2>1, <2>2, TransferPlanned DEF PlannedFor
<1>4. CASE c.action = "swap"
    <2>1. Plan(c, holds) = SwapPlan(c) /\ Is(c.token) /\ Is(c.tokenOut)
        BY <1>4 DEF Plan, Invalidates
    <2>2. 7 \in DOMAIN SwapPlan(c) /\ SwapPlan(c) # <<>>
        BY DEF SwapPlan
    <2> QED
        BY <1>4, <2>1, <2>2, SwapPlanned DEF PlannedFor
<1>5. CASE c.action \notin Subjects \cup {"transfer", "swap"}
    <2>1. Plan(c, holds) = RealFiPlan(c)
        BY <1>5 DEF Plan, Subjects
    <2>2. RealFiPlan(c) # <<>>
        BY RealFiPlanned
    <2> QED
        BY <1>5, <2>1, <2>2, RealFiPlanned DEF PlannedFor, Subjects
<1> QED
    BY <1>1, <1>2, <1>3, <1>4, <1>5 DEF Subjects

-----------------------------------------------------------------------------
(* The hosted engine: the end of a step                                    *)

LEMMA TailOf ==
    ASSUME NEW S, NEW p \in Seq(S), p # <<>>
    PROVE  /\ p[1] \in S /\ Tail(p) \in Seq(S)
           /\ Len(p) = 1 <=> Tail(p) = <<>>
           /\ \A i \in DOMAIN p : i # 1 => i - 1 \in DOMAIN Tail(p) /\ Tail(p)[i - 1] = p[i]
<1>1. Len(p) \in Nat \ {0} /\ DOMAIN p = 1..Len(p)
    BY EmptySeq, LenProperties
<1>2. p[1] \in S
    BY <1>1, ElementOfSeq
<1>3. /\ Tail(p) \in Seq(S) /\ Len(Tail(p)) = Len(p) - 1
      /\ \A i \in 1..Len(Tail(p)) : Tail(p)[i] = p[i + 1]
    BY HeadTailProperties
<1>4. Len(Tail(p)) = 0 <=> Tail(p) = <<>>
    BY <1>3, EmptySeq
<1>5. DOMAIN Tail(p) = 1..(Len(p) - 1)
    BY <1>3, LenProperties
<1>6. ASSUME NEW i \in DOMAIN p, i # 1
      PROVE  i - 1 \in DOMAIN Tail(p) /\ Tail(p)[i - 1] = p[i]
    BY <1>1, <1>3, <1>5, <1>6
<1> QED
    BY <1>1, <1>2, <1>3, <1>4, <1>6

LEMMA PlanTyped ==
    ASSUME EngineInv, status = "running"
    PROVE  \E S : plan \in Seq(S) /\ plan # <<>>
<1>1. plan # <<>> /\ LeftToRun
    BY DEF EngineInv
<1>2. plan = <<SubjectStep(cmd)>> => plan \in Seq({SubjectStep(cmd)})
    OBVIOUS
<1>3. \/ plan \in Seq({SubjectStep(cmd)}) \/ plan \in Seq(ContainerSteps \cup {Surface})
      \/ plan \in Seq(ContainerSteps) \/ plan \in Seq(IntentSteps(cmd))
    BY <1>1, <1>2 DEF LeftToRun
<1> QED
    BY <1>1, <1>3

\* What is left after a step is left of the same plan.
LEMMA TailLeft ==
    ASSUME EngineInv, status = "running", Len(plan) # 1,
           plan' = Tail(plan), UNCHANGED cmd
    PROVE  LeftToRun' /\ plan' # <<>>
<1>1. LeftToRun /\ plan # <<>>
    BY DEF EngineInv
<1>2. CASE cmd.action \in {"wallet", "contract"} /\ plan = <<SubjectStep(cmd)>>
    BY <1>2
<1>3. CASE /\ cmd.action \in {"vault", "pool"}
           /\ plan \in Seq(ContainerSteps \cup {Surface}) /\ Tail(plan) \in Seq(ContainerSteps)
    <2>1. Tail(plan) # <<>>
        BY <1>1, <1>3, TailOf
    <2> QED
        BY <1>3, <2>1 DEF LeftToRun
<1>4. CASE cmd.action \in {"vault", "pool"} /\ plan \in Seq(ContainerSteps)
    <2>1. Tail(plan) \in Seq(ContainerSteps) /\ Tail(plan) # <<>>
        BY <1>1, <1>4, TailOf
    <2> QED
        BY <1>4, <2>1 DEF LeftToRun
<1>5. CASE cmd.action \notin Subjects /\ plan \in Seq(IntentSteps(cmd))
    <2> DEFINE S == IntentSteps(cmd)
    <2>1. S' = S
        BY DEF IntentSteps, IntentParts
    <2>2. plan \in Seq(S) /\ plan # <<>>
        BY <1>1, <1>5
    <2> HIDE DEF S
    <2>3. Tail(plan) \in Seq(S) /\ Tail(plan) # <<>>
        BY <2>2, TailOf
    <2>4. plan' \in Seq(S') /\ plan' # <<>>
        BY <2>1, <2>3
    <2> QED
        BY <1>5, <2>4 DEF LeftToRun, S
<1> QED
    BY <1>1, <1>2, <1>3, <1>4, <1>5 DEF LeftToRun

\* A call that was to be decoded is decoded next, or still to be.
LEMMA CarriedStays ==
    ASSUME EngineInv, status = "running", NEW s \in Nat, UNCHANGED cmd,
           plan' = Tail(plan), score' = s,
           cmd.action \notin Subjects => s >= score,
           plan[1].op = "carried" /\ HasCall(cmd) => s >= 2 * CarriedFloor(cmd.call, cmd.batch)
    PROVE  CarriedCovered'
<1> DEFINE floor == CarriedFloor(cmd.call, cmd.batch)
<1>1. cmd \in Commands /\ CarriedCovered /\ score \in Nat
    BY DEF EngineInv
<1>2. floor \in Nat
    BY <1>1, CarriedFloors DEF Floors
<1>3. floor' = floor
    OBVIOUS
<1> HIDE DEF floor
<1>4. SUFFICES ASSUME HasCall(cmd) PROVE CarriedAhead' \/ score' >= 2 * floor
    BY <1>3 DEF CarriedCovered, HasCall, floor
<1>5. s >= score
    BY <1>1, <1>4, CommandAssumption DEF HasCall
<1>6. CASE score >= 2 * floor
    BY <1>1, <1>2, <1>5, <1>6
<1>7. CASE CarriedAhead
    <2>1. PICK i \in DOMAIN plan : plan[i].op = "carried"
        BY <1>7 DEF CarriedAhead
    <2>2. CASE i = 1
        BY <1>4, <2>1, <2>2 DEF floor
    <2>3. CASE i # 1
        <3>1. PICK S : plan \in Seq(S) /\ plan # <<>>
            BY PlanTyped
        <3>2. i - 1 \in DOMAIN Tail(plan) /\ Tail(plan)[i - 1] = plan[i]
            BY <2>3, <3>1, TailOf
        <3> QED
            BY <2>1, <3>2 DEF CarriedAhead
    <2> QED
        BY <2>2, <2>3
<1> QED
    BY <1>1, <1>4, <1>6, <1>7 DEF CarriedCovered, floor

LEMMA FinishEngine ==
    ASSUME EngineInv, status = "running", NEW s \in Nat, Finish(s),
           UNCHANGED <<cmd, shop, drifted>>,
           cmd.action \notin Subjects => s >= score,
           plan[1].op = "carried" /\ HasCall(cmd) => s >= 2 * CarriedFloor(cmd.call, cmd.batch),
           \A role \in DOMAIN parts' : Covered(role)'
    PROVE  EngineInv'
<1>1. /\ cmd' \in Commands /\ shop' \in ShopFacts /\ drifted' \in BOOLEAN /\ score' \in Nat
      /\ cmd'.action \notin Subjects => score' >= 20
    BY DEF EngineInv, Finish
<1>2. CarriedCovered'
    BY CarriedStays DEF Finish
<1>3. status' = "running" => LeftToRun' /\ plan' # <<>>
    BY TailLeft DEF Finish
<1>4. status' = "done" => plan' = <<>>
    <2>1. PICK S : plan \in Seq(S) /\ plan # <<>>
        BY PlanTyped
    <2>2. Len(plan) = 1 => Tail(plan) = <<>>
        BY <2>1, TailOf
    <2> QED
        BY <2>2 DEF Finish
<1>5. ~Invalidates(cmd)' /\ stage' = "probe" /\ status' \in {"running", "done"}
    BY DEF EngineInv, Finish, Invalidates
<1> QED
    BY <1>1, <1>2, <1>3, <1>4, <1>5 DEF EngineInv

\* A component the score covers stays covered while the score grows.
LEMMA CoveredStays ==
    ASSUME NEW role, Covered(role), UNCHANGED <<cmd, shop, drifted>>, role \in DOMAIN parts',
           parts'[role] = parts[role], score \in Nat, score' \in Nat, score' >= score
    PROVE  Covered(role)'
<1>1. DriftedTarget(role)' <=> DriftedTarget(role)
    BY DEF DriftedTarget, FactsOf
<1>2. Unvetted(role)' <=> Unvetted(role)
    BY DEF Unvetted, FactsOf
<1> QED
    BY <1>1, <1>2 DEF Covered

-----------------------------------------------------------------------------
(* The hosted engine: the components                                       *)

\* The step of a component names an address, and the role says which.
PartKnown ==
    /\ plan[1].op \in {"wallet", "contract"} /\ plan[1].at \in Addresses
    /\ plan[1].cap \in Nat /\ RoleAt(plan[1].role) = plan[1].at
    /\ plan[1].role = "subject" => cmd.action \in Subjects /\ DOMAIN parts = {}
    /\ plan[1].role = "target" => cmd.action \notin Subjects /\ plan[1].op = "contract"

LEMMA SubjectKnown ==
    ASSUME plan = <<SubjectStep(cmd)>>, cmd.action \in {"wallet", "contract"},
           DOMAIN parts = {}, ~Invalidates(cmd)
    PROVE  PartKnown
<1>1. plan[1] = [op |-> cmd.action, role |-> "subject", at |-> cmd.at, cap |-> 0]
    BY DEF SubjectStep, Part
<1>2. cmd.at \in Addresses
    BY DEF Invalidates, Subjects, Is
<1> QED
    BY <1>1, <1>2 DEF PartKnown, RoleAt, Subjects

LEMMA HeldKnown ==
    ASSUME plan[1] \in ContainerSteps, InPart
    PROVE  PartKnown
<1>1. PICK t \in Addresses : plan[1] = [op |-> "contract", role |-> t, at |-> t, cap |-> 25]
    BY DEF ContainerSteps, InPart, Now, Step, Part
<1>2. t \notin {"subject", "recipient", "payTo", "token", "tokenIn", "tokenOut", "target"}
    BY DEF Addresses, Permit2, Safe, CreateX, DodoApprove, Usdc, Ours, Morpho, PriceFeed,
           FeedCache, Peer, Shop, Shady
<1> QED
    BY <1>1, <1>2 DEF PartKnown, RoleAt

LEMMA IntentKnown ==
    ASSUME plan[1] \in IntentSteps(cmd), InPart, cmd.action \notin Subjects
    PROVE  PartKnown
<1>1. plan[1] \in IntentParts(cmd) /\ plan[1].at \in Addresses
    BY DEF IntentSteps, InPart, Now, Step, Part, PureSteps
<1> QED
    BY <1>1 DEF IntentParts, Part, PartKnown, RoleAt

LEMMA ComponentKnown ==
    ASSUME EngineInv, InPart
    PROVE  PartKnown
<1>1. status = "running" /\ LeftToRun /\ plan # <<>> /\ ~Invalidates(cmd)
    BY DEF EngineInv, InPart, Now
<1>2. CASE /\ cmd.action \in {"wallet", "contract"} /\ DOMAIN parts = {}
           /\ plan = <<SubjectStep(cmd)>>
    BY <1>1, <1>2, SubjectKnown
<1>3. CASE plan[1] = Surface
    BY <1>3 DEF InPart, Now, Surface, Step, Part
<1>4. CASE plan \in Seq(ContainerSteps)
    BY <1>1, <1>4, TailOf, HeldKnown
<1>5. CASE cmd.action \notin Subjects /\ plan \in Seq(IntentSteps(cmd))
    BY <1>1, <1>5, TailOf, IntentKnown
<1> QED
    BY <1>1, <1>2, <1>3, <1>4, <1>5 DEF LeftToRun

LEMMA PermitIsKnownInfra == Permit2 \in KnownInfra
BY DEF KnownInfra, CanonicalPacific

\* How far the score moves when a component joins it.
LEMMA ComposedCovers ==
    ASSUME EngineInv, InPart, NEW sub \in 0..100,
           plan[1].role = "target" /\ ~FactsOf(plan[1].at).code => sub <= 95,
           plan[1].role = "target" /\ FactsOf(plan[1].at).code /\ plan[1].at \in KnownInfra
               /\ ~FactsOf(plan[1].at).drifted => sub = 5
    PROVE  /\ Composed(sub) \in Nat
           /\ plan[1].role # "subject" => Composed(sub) >= score
           /\ DriftedTarget(plan[1].role) \/ Composed(sub) >= 2 * sub
<1>1. score \in Nat /\ PartKnown /\ (cmd.action \notin Subjects => score >= 20)
    BY ComponentKnown DEF EngineInv, InPart, Now
<1>2. CASE plan[1].role = "subject"
    <2>1. Composed(sub) = 2 * sub
        BY <1>2 DEF Composed
    <2> QED
        BY <1>2, <2>1
<1>3. CASE plan[1].role = "target"
    <2> DEFINE f == FactsOf(plan[1].at)
               floor == IF cmd.action \in DepositClass THEN 45 ELSE ThreatIntelFloor
               held == Max({sub, floor})
    <2>1. Composed(sub) = TargetScore(score, cmd, f, sub)
        BY <1>3 DEF Composed
    <2>2. cmd.target = plan[1].at /\ score >= 20
        BY <1>1, <1>3 DEF PartKnown, RoleAt
    <2>3. CASE ~f.code
        <3>1. Composed(sub) = AtLeast(score, 95)
            BY <2>1, <2>3 DEF TargetScore
        <3> QED
            BY <1>1, <1>3, <2>3, <3>1 DEF AtLeast
    <2>4. CASE f.code /\ plan[1].at \in KnownInfra
        <3>1. Composed(sub) = score
            BY <2>1, <2>2, <2>4 DEF TargetScore, ClassifyCounterparty
        <3>2. DriftedTarget(plan[1].role) \/ sub = 5
            BY <1>3, <2>2, <2>4 DEF DriftedTarget
        <3> QED
            BY <1>1, <2>2, <3>1, <3>2
    <2>5. CASE f.code /\ plan[1].at \notin KnownInfra
        <3>1. Composed(sub) = AtLeast(score, held)
            BY <2>1, <2>2, <2>5, PermitIsKnownInfra DEF TargetScore, ClassifyCounterparty
        <3>2. floor \in Nat
            BY DEF ThreatIntelFloor
        <3> HIDE DEF floor
        <3>3. held \in Nat /\ held >= sub
            <4>1. held = IF sub >= floor THEN sub ELSE floor
                BY <3>2, MaxOfTwo
            <4> QED
                BY <3>2, <4>1
        <3> HIDE DEF held
        <3> QED
            BY <1>1, <3>1, <3>3 DEF AtLeast
    <2> QED
        BY <2>3, <2>4, <2>5
<1>4. CASE plan[1].role \notin {"subject", "target"}
    <2>1. Composed(sub) = ComposeComponent(score, sub, plan[1].cap)
        BY <1>4 DEF Composed
    <2> QED
        BY <1>1, <1>4, <2>1, ComposedGrow DEF PartKnown
<1> QED
    BY <1>2, <1>3, <1>4

\* What may be said of a component that joins: its score fits what was read.
LEMMA JoinEngine ==
    ASSUME EngineInv, InPart, NEW sub \in 0..100, NEW perm, NEW intel, JoinPart(sub, perm, intel),
           UNCHANGED <<cmd, shop, drifted>>,
           plan[1].op = "contract" /\ ~FactsOf(plan[1].at).code => sub <= 95,
           plan[1].op = "contract" /\ FactsOf(plan[1].at).code /\ plan[1].at \in KnownInfra
               /\ ~FactsOf(plan[1].at).drifted => sub = 5,
           intel \in {"unindexed", "drift", "unreachable"} => ~EarlyReturn,
           intel \in {"unindexed", "drift", "unreachable"}
               /\ plan[1].at \notin OfficialTokens.contracts
               /\ ~FactsOf(plan[1].at).copy /\ FactsOf(plan[1].at).proxy # "recognized"
               => sub >= ThreatIntelFloor
    PROVE  EngineInv'
<1> DEFINE s == Composed(sub)
<1> PICK joining : joining = plan[1].role
    OBVIOUS
<1>1. /\ status = "running" /\ score \in Nat /\ PartKnown
      /\ \A role \in DOMAIN parts : Covered(role)
    BY ComponentKnown DEF EngineInv, InPart, Now
<1>2. /\ s \in Nat
      /\ joining # "subject" => s >= score
      /\ DriftedTarget(joining) \/ s >= 2 * sub
    BY <1>1, ComposedCovers DEF PartKnown
<1> HIDE DEF s
<1>3. Finish(s) /\ score' = s
    BY DEF JoinPart, Finish, s
<1>4. /\ DOMAIN parts' = {joining} \cup DOMAIN parts
      /\ parts'[joining].score = sub /\ parts'[joining].intel = intel
      /\ \A role \in DOMAIN parts : role # joining => parts'[role] = parts[role]
    BY DEF JoinPart
<1>5. Covered(joining)'
    <2>1. DriftedTarget(joining)' <=> DriftedTarget(joining)
        BY DEF DriftedTarget, FactsOf
    <2>2. parts'[joining].score = sub /\ parts'[joining].intel = intel
        BY <1>4
    <2>3. ASSUME Unvetted(joining)' PROVE sub >= ThreatIntelFloor /\ ~DriftedTarget(joining)
        <3>1. intel \in {"unindexed", "drift", "unreachable"}
            BY <2>2, <2>3 DEF Unvetted
        <3>2. RoleAt(joining) = plan[1].at
            BY <1>1 DEF PartKnown
        <3>3. /\ plan[1].at \notin OfficialTokens.contracts
              /\ ~FactsOf(plan[1].at).copy /\ FactsOf(plan[1].at).proxy # "recognized"
            BY <2>3, <3>2 DEF Unvetted, RoleAt, FactsOf
        <3>4. sub >= ThreatIntelFloor
            BY <3>1, <3>3
        <3>5. ~EarlyReturn
            BY <3>1
        <3>6. ~DriftedTarget(joining)
            BY <1>1, <3>2, <3>5 DEF DriftedTarget, EarlyReturn, PartKnown, RoleAt
        <3> QED
            BY <3>4, <3>6
    <2> QED
        BY <1>2, <1>3, <2>1, <2>2, <2>3 DEF Covered
<1>6. ASSUME NEW role \in DOMAIN parts', role # joining PROVE Covered(role)'
    <2>1. role \in DOMAIN parts /\ parts'[role] = parts[role] /\ Covered(role)
        BY <1>1, <1>4, <1>6
    <2>2. joining # "subject"
        BY <1>1, <2>1 DEF PartKnown
    <2> QED
        BY <1>1, <1>2, <1>3, <2>1, <2>2, CoveredStays
<1>7. \A role \in DOMAIN parts' : Covered(role)'
    BY <1>5, <1>6
<1>8. cmd.action \notin Subjects => s >= score
    BY <1>1, <1>2 DEF PartKnown
<1>9. plan[1].op # "carried"
    BY DEF InPart, Now
<1> QED
    BY <1>1, <1>2, <1>3, <1>7, <1>8, <1>9, FinishEngine

-----------------------------------------------------------------------------
(* The hosted engine: every step                                           *)

LEMMA EngineIdleInv == EngineIdle => EngineInv
BY DEF EngineIdle, EngineInv

LEMMA FailEngine == EngineInv /\ Fail => EngineInv'
BY DEF EngineInv, Fail

LEMMA RunEngine == EngineInv /\ Run => EngineInv'
<1> SUFFICES ASSUME EngineInv, Run PROVE EngineInv'
    OBVIOUS
<1>1. parts = <<>> /\ stage = "probe"
    BY DEF EngineInv, EngineIdle, Run
<1>2. PICK c \in Commands, f \in ShopFacts, d \in BOOLEAN :
        /\ cmd' = c /\ shop' = f /\ drifted' = d /\ score' = StartScore(c)
        /\ IF Invalidates(c)
           THEN plan' = <<>> /\ status' = "failed"
           ELSE /\ plan' = Plan(c, IF c.at = Shop THEN f.holds ELSE {})
                /\ status' = "running"
        /\ UNCHANGED <<stage, parts>>
    BY DEF Run
<1>3. CASE Invalidates(c)
    BY <1>2, <1>3 DEF EngineInv
<1>4. CASE ~Invalidates(c)
    <2> DEFINE holds == IF c.at = Shop THEN f.holds ELSE {}
    <2>1. holds \in SUBSET Addresses
        BY CommandAssumption DEF Facts
    <2>2. plan' = Plan(c, holds) /\ status' = "running"
        BY <1>2, <1>4
    <2> HIDE DEF holds
    <2>3. PlannedFor(c, plan')
        BY <1>4, <2>1, <2>2, Planned
    <2>4. DOMAIN parts' = {}
        BY <1>1, <1>2
    <2>5. score' \in Nat /\ (c.action \notin Subjects => score' >= 20)
        BY <1>2 DEF StartScore
    <2>6. CarriedCovered'
        <3>1. CASE c.action \in Subjects
            BY <1>2, <3>1, CommandAssumption DEF CarriedCovered, HasCall
        <3>2. CASE c.action \notin Subjects
            BY <2>3, <3>2 DEF PlannedFor, CarriedCovered, CarriedAhead
        <3> QED
            BY <3>1, <3>2
    <2>7. LeftToRun' /\ plan' # <<>>
        <3>1. SubjectStep(cmd)' = SubjectStep(c) /\ IntentSteps(cmd)' = IntentSteps(c)
            BY <1>2 DEF SubjectStep, IntentSteps, IntentParts
        <3>2. CASE c.action \in {"wallet", "contract"}
            BY <1>2, <2>3, <2>4, <3>1, <3>2 DEF PlannedFor, LeftToRun
        <3>3. CASE c.action \in {"vault", "pool"}
            BY <1>2, <2>3, <2>4, <3>3 DEF PlannedFor, LeftToRun
        <3>4. CASE c.action \notin Subjects
            BY <1>2, <2>3, <3>1, <3>4 DEF PlannedFor, LeftToRun
        <3> QED
            BY <3>2, <3>3, <3>4 DEF Subjects
    <2>8. ~Invalidates(cmd)' /\ stage' = "probe"
        BY <1>1, <1>2, <1>4 DEF Invalidates
    <2> QED
        BY <1>2, <2>2, <2>4, <2>5, <2>6, <2>7, <2>8 DEF EngineInv
<1> QED
    BY <1>3, <1>4

\* Between two reads of a component nothing of it is scored.
LEMMA SameStepEngine ==
    ASSUME EngineInv, status = "running", UNCHANGED <<cmd, shop, drifted, plan, score, status, parts>>,
           stage' = "intel" => ~EarlyReturn
    PROVE  EngineInv'
<1>1. \A role \in DOMAIN parts' : Covered(role)'
    BY CoveredStays DEF EngineInv
<1>2. CarriedCovered'
    BY DEF EngineInv, CarriedCovered, CarriedAhead, HasCall
<1>3. LeftToRun' /\ plan' # <<>> /\ ~Invalidates(cmd)'
    <2>1. IntentSteps(cmd)' = IntentSteps(cmd) /\ SubjectStep(cmd)' = SubjectStep(cmd)
        BY DEF IntentSteps, IntentParts, SubjectStep
    <2>2. LeftToRun /\ plan # <<>> /\ ~Invalidates(cmd)
        BY DEF EngineInv
    <2>3. LeftToRun'
        BY <2>1, <2>2 DEF LeftToRun
    <2> QED
        BY <2>2, <2>3 DEF Invalidates
<1>4. EarlyReturn' <=> EarlyReturn
    BY DEF EarlyReturn, FactsOf
<1> QED
    BY <1>1, <1>2, <1>3, <1>4 DEF EngineInv

LEMMA ProbeAddressEngine == EngineInv /\ ProbeAddress => EngineInv'
<1> SUFFICES ASSUME EngineInv, ProbeAddress PROVE EngineInv'
    OBVIOUS
<1>1. /\ InPart /\ PartKnown /\ status = "running"
      /\ shop \in ShopFacts /\ drifted \in BOOLEAN
      /\ UNCHANGED <<cmd, shop, drifted>>
    BY ComponentKnown DEF EngineInv, ProbeAddress, InPart, Now
<1>2. CASE ~EarlyReturn
    BY <1>1, <1>2, SameStepEngine DEF ProbeAddress
<1>3. CASE EarlyReturn
    <2> DEFINE f == FactsOf(plan[1].at)
               sub == AnalyzeContract(plan[1].at, f, {}, "none")
    <2>1. JoinPart(sub, "none", "none")
        BY <1>3 DEF ProbeAddress
    <2>2. f \in Facts
        BY <1>1, FactsTyped DEF PartKnown
    <2> HIDE DEF f
    <2>3. /\ sub \in 0..100
          /\ ~f.code => sub = 95
          /\ f.code /\ plan[1].at \in KnownInfra /\ ~f.drifted => sub = 5
        BY <2>2, ContractScored
    <2> HIDE DEF sub
    <2>4. /\ ~FactsOf(plan[1].at).code => sub <= 95
          /\ FactsOf(plan[1].at).code /\ plan[1].at \in KnownInfra
             /\ ~FactsOf(plan[1].at).drifted => sub = 5
        BY <2>3 DEF f
    <2> QED
        BY <1>1, <2>1, <2>3, <2>4, JoinEngine
<1> QED
    BY <1>2, <1>3

LEMMA GoplusRetryEngine == EngineInv /\ GoplusRetry => EngineInv'
<1> SUFFICES ASSUME EngineInv, GoplusRetry PROVE EngineInv'
    OBVIOUS
<1> QED
    BY SameStepEngine DEF EngineInv, GoplusRetry, InPart, Now

LEMMA GoplusAnswerEngine == EngineInv /\ GoplusAnswer => EngineInv'
<1> SUFFICES ASSUME EngineInv, GoplusAnswer PROVE EngineInv'
    OBVIOUS
<1> DEFINE at == plan[1].at
           f == FactsOf(at)
<1>1. /\ InPart /\ PartKnown /\ status = "running" /\ ~EarlyReturn
      /\ shop \in ShopFacts /\ drifted \in BOOLEAN
      /\ UNCHANGED <<cmd, shop, drifted>>
    BY ComponentKnown DEF EngineInv, GoplusAnswer, InPart, Now
<1>2. f \in Facts
    BY <1>1, FactsTyped DEF PartKnown
<1>3. CASE plan[1].op = "wallet"
    <2>1. PICK intel \in {"data", "unreachable"} :
            JoinPart(AnalyzeWallet(f, plan[1].role = "subject", intel), "none", intel)
        BY <1>3 DEF GoplusAnswer
    <2> DEFINE sub == AnalyzeWallet(f, plan[1].role = "subject", intel)
    <2> HIDE DEF f
    <2>2. sub \in 0..100 /\ (intel # "data" => sub >= ThreatIntelFloor)
        BY <1>2, WalletScored
    <2> HIDE DEF sub
    <2> QED
        BY <1>1, <1>3, <2>1, <2>2, JoinEngine DEF sub
<1>4. CASE plan[1].op = "contract"
    <2>1. PICK intel \in {"data", "unindexed", "drift", "unreachable"}, failed \in SUBSET Swallowed :
            JoinPart(AnalyzeContract(at, f, failed, intel),
                     IF LooksToken(f, failed) /\ "permissioned" \notin failed THEN f.perm ELSE "none",
                     intel)
        BY <1>4 DEF GoplusAnswer
    <2> DEFINE sub == AnalyzeContract(at, f, failed, intel)
    <2>2. f.code /\ at \notin KnownInfra
        BY <1>1, <1>4 DEF EarlyReturn
    <2>3. /\ sub \in 0..100
          /\ f.code /\ at \notin KnownInfra \cup OfficialTokens.contracts
             /\ ~f.copy /\ f.proxy # "recognized" /\ intel # "data" => sub >= ThreatIntelFloor
        <3> HIDE DEF f, at
        <3> QED
            BY <1>2, ContractScored
    <2>4. PICK perm : JoinPart(sub, perm, intel)
        BY <2>1
    <2> HIDE DEF sub
    <2> QED
        BY <1>1, <2>2, <2>3, <2>4, JoinEngine
<1> QED
    BY <1>1, <1>3, <1>4 DEF PartKnown

\* A step that scores no component: what is covered stays so.
LEMMA ScoreEngine ==
    ASSUME EngineInv, status = "running", NEW s \in Nat, s >= score, Finish(s),
           UNCHANGED <<cmd, shop, drifted, parts>>,
           plan[1].op = "carried" /\ HasCall(cmd) => s >= 2 * CarriedFloor(cmd.call, cmd.batch)
    PROVE  EngineInv'
<1>1. score \in Nat /\ score' = s
    BY DEF EngineInv, Finish
<1>2. \A role \in DOMAIN parts' : Covered(role)'
    BY <1>1, CoveredStays DEF EngineInv
<1> QED
    BY <1>2, FinishEngine

LEMMA ProbeActingEngine == EngineInv /\ ProbeActing => EngineInv'
<1> SUFFICES ASSUME EngineInv, ProbeActing PROVE EngineInv'
    OBVIOUS
<1>1. /\ status = "running" /\ score \in Nat /\ Finish(score) /\ plan[1].op = "acting"
      /\ UNCHANGED <<cmd, shop, drifted, parts>>
    BY DEF EngineInv, ProbeActing, Now
<1>2. score >= score
    BY <1>1
<1> QED
    BY <1>1, <1>2, ScoreEngine

\* Only a container reads its surface, and before any component.
LEMMA SurfaceFirst ==
    ASSUME EngineInv, Now("surface")
    PROVE  cmd.action \in {"vault", "pool"} /\ DOMAIN parts = {}
<1>1. LeftToRun /\ plan # <<>> /\ plan[1].op = "surface"
    BY DEF EngineInv, Now
<1>2. CASE cmd.action \in {"wallet", "contract"} /\ plan = <<SubjectStep(cmd)>>
    BY <1>1, <1>2 DEF SubjectStep, Part
<1>3. CASE plan \in Seq(ContainerSteps)
    <2>1. plan[1] \in ContainerSteps
        BY <1>1, <1>3, TailOf
    <2> QED
        BY <1>1, <2>1 DEF ContainerSteps, Step, Part
<1>4. CASE cmd.action \notin Subjects /\ plan \in Seq(IntentSteps(cmd))
    <2>1. plan[1] \in IntentSteps(cmd)
        BY <1>1, <1>4, TailOf
    <2> QED
        BY <1>1, <2>1 DEF IntentSteps, IntentParts, PureSteps, Step, Part
<1> QED
    BY <1>1, <1>2, <1>3, <1>4 DEF LeftToRun

LEMMA ReadSurfaceEngine == EngineInv /\ ReadSurface => EngineInv'
<1> SUFFICES ASSUME EngineInv, ReadSurface PROVE EngineInv'
    OBVIOUS
<1>1. /\ status = "running" /\ score \in Nat /\ plan[1].op = "surface"
      /\ cmd \in Commands /\ shop \in ShopFacts /\ drifted \in BOOLEAN
      /\ cmd.action \in {"vault", "pool"} /\ DOMAIN parts = {}
      /\ UNCHANGED <<cmd, shop, drifted, parts>>
    BY SurfaceFirst DEF EngineInv, ReadSurface, Now
<1>2. CASE Finish(score)
    <2>1. score >= score
        BY <1>1
    <2> QED
        BY <1>1, <1>2, <2>1, ScoreEngine
<1>3. CASE Conclude(190) \/ Conclude(120)
    <2>1. score' \in Nat /\ plan' = <<>> /\ status' = "done"
        BY <1>3 DEF Conclude
    <2>2. cmd'.action \in Subjects
        BY <1>1 DEF Subjects
    <2>3. CarriedCovered'
        BY <1>1, <2>2, CommandAssumption DEF CarriedCovered, HasCall
    <2> QED
        BY <1>1, <2>1, <2>2, <2>3 DEF EngineInv
<1> QED
    BY <1>2, <1>3 DEF ReadSurface

LEMMA WeighEngine == EngineInv /\ Weigh => EngineInv'
<1> SUFFICES ASSUME EngineInv, Weigh PROVE EngineInv'
    OBVIOUS
<1>1. /\ status = "running" /\ score \in Nat /\ cmd \in Commands
      /\ plan[1].op \in PureSteps /\ UNCHANGED <<cmd, shop, drifted, parts>>
    BY DEF EngineInv, Weigh, Now
<1>2. PICK s \in Weighed(plan[1].op, score) : Finish(s)
    BY DEF Weigh
<1>3. /\ s \in Nat /\ s >= score
      /\ plan[1].op = "carried" /\ HasCall(cmd) => s >= 2 * CarriedFloor(cmd.call, cmd.batch)
    BY <1>1, WeighedGrow
<1> QED
    BY <1>1, <1>2, <1>3, ScoreEngine

LEMMA ReportEngine == EngineInv /\ Report => EngineInv'
<1> SUFFICES ASSUME EngineInv, Report PROVE EngineInv'
    OBVIOUS
<1>1. EngineIdle'
    BY DEF Report, EngineIdle
<1> QED
    BY <1>1 DEF EngineInv, EngineIdle

LEMMA EngineStutters == EngineInv /\ UNCHANGED engineVars => EngineInv'
<1> SUFFICES ASSUME EngineInv, UNCHANGED engineVars PROVE EngineInv'
    OBVIOUS
<1>1. UNCHANGED <<cmd, shop, drifted, rpcChain, plan, stage, attempt, score, parts, status>>
    BY DEF engineVars
<1>2. CASE status = "running"
    <2>1. stage' = "intel" => ~EarlyReturn
        BY <1>1, <1>2 DEF EngineInv
    <2> QED
        BY <1>1, <1>2, <2>1, SameStepEngine
<1>3. CASE status = "done"
    <2>1. \A role \in DOMAIN parts' : Covered(role)'
        BY <1>1, <1>3, CoveredStays DEF EngineInv
    <2>2. CarriedCovered'
        BY <1>1, <1>3 DEF EngineInv, CarriedCovered, CarriedAhead, HasCall
    <2> QED
        BY <1>1, <1>3, <2>1, <2>2 DEF EngineInv
<1>4. CASE status = "idle"
    BY <1>1, <1>4 DEF EngineInv, EngineIdle
<1>5. CASE status = "failed"
    BY <1>1, <1>5 DEF EngineInv
<1> QED
    BY <1>2, <1>3, <1>4, <1>5 DEF EngineInv

LEMMA EngineNextInv == EngineInv /\ EngineNext => EngineInv'
<1> SUFFICES ASSUME EngineInv, EngineNext PROVE EngineInv'
    OBVIOUS
<1>1. CASE RpcDown \/ RefuseAmount
    BY <1>1, FailEngine DEF RpcDown, RefuseAmount
<1> QED
    BY <1>1, RunEngine, ProbeAddressEngine, GoplusRetryEngine, GoplusAnswerEngine,
       ProbeActingEngine, ReadSurfaceEngine, WeighEngine, ReportEngine DEF EngineNext

LEMMA EngineStep == EngineInv /\ [VerdictsNext]_verdictVars => EngineInv'
<1>1. ASSUME [VerdictsNext]_verdictVars PROVE EngineNext \/ UNCHANGED engineVars
    BY <1>1 DEF VerdictsNext, verdictVars
<1> QED
    BY <1>1, EngineNextInv, EngineStutters

LEMMA EngineHolds == VerdictsSpec => []EngineInv
<1>1. VerdictsInit => EngineInv
    BY EngineIdleInv DEF VerdictsInit, EngineInit
<1> QED
    BY <1>1, EngineStep, PTL DEF VerdictsSpec

-----------------------------------------------------------------------------
(* The hosted engine: what it reports                                      *)

\* A report rounds up, so it is no lower than what the score covers.
LEMMA ReportedCovers ==
    ASSUME NEW s \in Nat, NEW n \in 0..100, s >= 2 * n
    PROVE  /\ Reported(s) \in Nat /\ Reported(s) >= n
           /\ n > 30 => ScoreToRec(Reported(s)) # "allow"
<1> DEFINE half == (s + 1) \div 2
<1>1. half \in Nat /\ half >= n
    OBVIOUS
<1>2. Reported(s) = Min({100, half})
    BY DEF Reported
<1> HIDE DEF half
<1>3. Min({100, half}) = IF 100 <= half THEN 100 ELSE half
    BY <1>1, MinOfTwo
<1> QED
    BY <1>1, <1>2, <1>3 DEF ScoreToRec

LEMMA NeverSofter == EngineInv => IntentNeverSofterUnlessDrifted
<1> SUFFICES ASSUME EngineInv, status = "done" PROVE IntentNeverSofterUnlessDrifted
    BY DEF IntentNeverSofterUnlessDrifted
<1>1. /\ cmd \in Commands /\ score \in Nat /\ plan = <<>>
      /\ \A role \in DOMAIN parts : Covered(role)
      /\ CarriedCovered
    BY DEF EngineInv
<1>2. ASSUME NEW role \in DOMAIN parts
      PROVE  DriftedTarget(role) \/ Reported(score) >= parts[role].score
    <2>1. parts[role].score \in 0..100 /\ (DriftedTarget(role) \/ score >= 2 * parts[role].score)
        BY <1>1 DEF Covered
    <2> QED
        BY <1>1, <2>1, ReportedCovers
<1> DEFINE floor == CarriedFloor(cmd.call, cmd.batch)
<1>3. floor \in 0..100
    BY <1>1, CarriedFloors DEF Floors
<1>4. HasCall(cmd) => score >= 2 * floor
    BY <1>1 DEF CarriedCovered, CarriedAhead
<1> HIDE DEF floor
<1>5. HasCall(cmd) => Reported(score) >= floor /\ (floor > 30 => Recommendation # "allow")
    BY <1>1, <1>3, <1>4, ReportedCovers DEF Recommendation
<1>6. ASSUME NEW c \in InnerCalls(cmd.batch), InnerFloor(c) > 30 PROVE Recommendation # "allow"
    <2>1. cmd.batch.calls # <<>>
        BY DEF InnerCalls
    <2>2. cmd.call.sel = "multiSend" /\ cmd.batch.calls \in Seq(InnerCalls(cmd.batch))
        BY <1>1, <2>1, CommandAssumption
    <2>3. floor = BatchFloor(cmd.batch) /\ HasCall(cmd)
        BY <2>2 DEF floor, CarriedFloor, HasCall, None
    <2>4. BatchFloor(cmd.batch) > 30
        BY <1>6, <2>2, BatchFloors
    <2> QED
        BY <1>5, <2>3, <2>4
<1> QED
    BY <1>2, <1>5, <1>6 DEF IntentNeverSofterUnlessDrifted, floor

LEMMA UnvettedHeld == EngineInv => UnvettedNeverAllowed
<1> SUFFICES ASSUME EngineInv, status = "done", NEW role \in DOMAIN parts, Unvetted(role)
             PROVE  Recommendation # "allow"
    BY DEF UnvettedNeverAllowed
<1>1. score \in Nat /\ Covered(role)
    BY DEF EngineInv
<1>2. /\ parts[role].score \in 0..100 /\ parts[role].score >= ThreatIntelFloor
      /\ score >= 2 * parts[role].score
    BY <1>1 DEF Covered
<1> QED
    BY <1>1, <1>2, ReportedCovers DEF Recommendation, ThreatIntelFloor

\* composeComponent, evaluateCarriedTx: for any commands, facts of the chain,
\* failed reads and answers of GoPlus, an intent is reported no lower than any
\* component that was scored, but a drifted target, and no lower than the call
\* it carries; a call worth a warning makes a whole batch one.
THEOREM AnIntentIsNeverSofter == VerdictsSpec => []IntentNeverSofterUnlessDrifted
BY EngineHolds, NeverSofter, PTL

\* goplusGet, analyzeContract, analyzeWallet: what GoPlus did not vet is never
\* allowed, alone or within an intent, whatever reads failed, unless it is an
\* official token or its code is known.
THEOREM TheUnvettedIsNeverAllowed == VerdictsSpec => []UnvettedNeverAllowed
BY EngineHolds, UnvettedHeld, PTL

=============================================================================
