-------------------------- MODULE CalldataVerdict --------------------------
(***************************************************************************)
(* What the two analyzers say of the same bytes: the TypeScript one of the *)
(* guardian (a decision) and the hosted engine (a score floor).  Pure      *)
(* definitions; both decode offline.                                       *)
(*                                                                         *)
(* A call is [sel, words, party, from, amount]: its selector; whether the  *)
(* payload has the words the selector takes ("exact", and "other" for any  *)
(* other length); the address its spender, operator, recipient or target   *)
(* word names, Dirty when the word's upper bytes are not zero; for         *)
(* transferFrom whether the source word is clean; and the amount.          *)
(***************************************************************************)
EXTENDS TrustRegistry, FiniteSetsExt

CONSTANT ActiveChain
ASSUME ActiveChainAssumption == ActiveChain \in {Pacific, Atlantic}

Dirty == "dirty"

\* A target that is not an address at all.
Invalid == "invalid"

\* Amounts by the thresholds the code compares them with: nothing, an ordinary
\* amount, type(uint160).max, 2^255.  A bool word above 1 is malformed.
Zero == 0
Some == 1
Max160 == 2
Top255 == 3

NoCall == [sel |-> None, words |-> "exact", party |-> None, from |-> None, amount |-> Zero]

Permissive == {"approve", "increaseAllowance", "permit", "permit2Approve"}
Admin == {"transferOwnership", "renounceOwnership", "upgradeTo", "upgradeToAndCall", "changeAdmin"}
Transfers == {"transfer", "transferFrom"}
Decodable == (Permissive \ {"approve"}) \cup Admin \cup Transfers
             \cup {"setApprovalForAll", "decreaseAllowance"}

Severity == [ALLOW |-> 0, PREPARE_ONLY |-> 1, REQUIRE_CONFIRMATION |-> 2, BLOCK |-> 3]
Decisions == DOMAIN Severity
Worst(a, b) == IF Severity[a] >= Severity[b] THEN a ELSE b
WorstOf(ds) == CHOOSE d \in ds : \A e \in ds : Severity[d] >= Severity[e]

-----------------------------------------------------------------------------
(* The TypeScript analyzers                                                *)

Result(decision, risk, status) ==
    [decision |-> decision, risk |-> risk, status |-> status,
     spender |-> None, amount |-> Zero, unlimited |-> FALSE]

With(result, spender, amount, unlimited) ==
    [result EXCEPT !.spender = spender, !.amount = amount, !.unlimited = unlimited]

Confirm(risk, status) == Result("REQUIRE_CONFIRMATION", risk, status)
Allow == Result("ALLOW", "LOW", "ok")
Block == Result("BLOCK", "CRITICAL", "ok")
Malformed == Confirm("MEDIUM", "partial")

\* The calldata analyzer knows Permit2 on every network, the approval analyzer
\* only where the canonical list has it.
ClassifySpender(a) == CanonicalEvidence(a, ActiveChain) \/ AddressTrust(a, ActiveChain).verified
ClassifyKnown(a) == a = Permit2 \/ ClassifySpender(a)

\* isUnlimitedApprovalAmount; Permit2 amounts are uint160.
Unlimited(call) == call.amount >= IF call.sel = "permit2Approve" THEN Max160 ELSE Top255

\* Mutant: a spender the registry knows may have any amount.
ApprovalRiskTrusting(isRevoke, unlimited, known) ==
    IF isRevoke \/ known THEN Allow ELSE IF unlimited THEN Block ELSE Confirm("MEDIUM", "ok")

ApprovalRisk(isRevoke, unlimited, known) ==
    IF isRevoke \/ (known /\ ~unlimited) THEN Allow
    ELSE IF unlimited /\ ~known THEN Block
    ELSE Confirm(IF unlimited THEN "HIGH" ELSE "MEDIUM", "ok")

\* The shape is judged before the decode: whole words, then the spender's word.
AnalyzeApproval(call) ==
    IF call.sel # "approve" THEN Confirm("UNKNOWN", "unavailable")
    ELSE IF call.words # "exact" THEN Malformed
    ELSE IF call.party = Dirty THEN With(Block, None, call.amount, Unlimited(call))
    ELSE With(ApprovalRisk(call.amount = Zero, Unlimited(call), ClassifySpender(call.party)),
              call.party, call.amount, Unlimited(call))

\* permit, Permit2 approve and increaseAllowance.
Grant(call) ==
    IF call.party = Dirty
    THEN With(Block, None, call.amount, Unlimited(call))
    ELSE With(ApprovalRisk(call.amount = Zero, Unlimited(call), ClassifyKnown(call.party)),
              call.party, call.amount, Unlimited(call))

\* A blanket approval is weighed as an unlimited one.
SetApprovalForAll(call) ==
    IF call.amount > Some THEN Malformed
    ELSE IF call.party = Dirty THEN Block
    ELSE ApprovalRisk(call.amount = Zero, TRUE, ClassifyKnown(call.party))

DirtySource(call) == call.sel = "transferFrom" /\ call.from = Dirty

TransferResult(call) ==
    IF DirtySource(call) \/ call.party = Dirty \/ IsDenylistedRecipient(call.party)
    THEN Block
    ELSE Confirm("MEDIUM", "ok")

DecreaseAllowance(call) == IF call.party = Dirty THEN Malformed ELSE Allow

DangerousAdmin == Confirm("HIGH", "ok")

AnalyzeCalldata(call) ==
    IF call.sel = "approve" THEN AnalyzeApproval(call)
    ELSE IF call.sel \notin Decodable THEN Confirm("UNKNOWN", "unavailable")
    ELSE IF call.words # "exact" THEN Malformed
    ELSE CASE call.sel \in Permissive          -> Grant(call)
           [] call.sel = "setApprovalForAll"   -> SetApprovalForAll(call)
           [] call.sel \in Transfers           -> TransferResult(call)
           [] call.sel = "decreaseAllowance"   -> DecreaseAllowance(call)
           [] call.sel \in Admin               -> DangerousAdmin

-----------------------------------------------------------------------------
(* The hosted engine                                                       *)

\* The hosted assets hold the canonical contracts of Pacific and those of the
\* verified protocols; the official tokens are a list of their own.
KnownInfra == CanonicalPacific.contracts \cup VerifiedProtocols.contracts

ClassifyCounterparty(a) == a \in KnownInfra \cup {Permit2}

ScoreToRec(score) == IF score <= 30 THEN "allow" ELSE IF score < 70 THEN "warn" ELSE "block"

MalformedFloor == 45

ApprovalFloor(call) ==
    LET known == ClassifyCounterparty(call.party)
    IN IF call.party = Dirty THEN 90
       ELSE IF call.amount = Zero THEN 0
       ELSE IF Unlimited(call) THEN (IF known THEN 65 ELSE 90)
       ELSE (IF known THEN 0 ELSE 45)

OperatorFloor(call) ==
    IF call.amount > Some THEN MalformedFloor
    ELSE IF call.party = Dirty THEN 90
    ELSE IF call.amount = Zero THEN 0
    ELSE IF ClassifyCounterparty(call.party) THEN 65 ELSE 90

\* The source of a transferFrom is read and reported, never weighed.
TransferFloor(call) ==
    IF call.party = Dirty THEN 90
    ELSE IF IsDenylistedRecipient(call.party) THEN 95
    ELSE 35

DecreaseFloor(call) == IF call.party = Dirty THEN MalformedFloor ELSE 0

\* analyzeTxCalldata of a call that is not a batch; a batch inside a batch and
\* a Safe execution are not opened, a method nobody knows holds at the floor.
CallFloor(call) ==
    IF call.sel \in {"execTransaction", "multiSend"} THEN 45
    ELSE IF call.sel \notin Decodable \cup {"approve"} THEN 31
    ELSE IF call.words # "exact" THEN MalformedFloor
    ELSE CASE call.sel \in Permissive          -> ApprovalFloor(call)
           [] call.sel = "setApprovalForAll"   -> OperatorFloor(call)
           [] call.sel \in Transfers           -> TransferFloor(call)
           [] call.sel = "decreaseAllowance"   -> DecreaseFloor(call)
           [] call.sel \in Admin               -> 61

-----------------------------------------------------------------------------
(* Batches                                                                 *)

\* A batch is [bytes, calls]: whether its bytes parse, and the inner calls
\* [op, value, to, data, call]: the operation, the native value, the target,
\* whether there is calldata ("none", "short" of a selector, "call") and it.
NoBatch == [bytes |-> "none", calls |-> <<>>]

InnerCalls(batch) == {batch.calls[i] : i \in DOMAIN batch.calls}

\* MULTISEND_MAX_INNER is 64; a batch past the bound keeps its first calls.
CONSTANT MaxInner
ASSUME MaxInnerAssumption == MaxInner \in Nat

InnerFloor(c) ==
    Max({IF c.op = "delegatecall" THEN 45 ELSE 0,
         CASE c.data = "call" -> CallFloor(c.call)
           [] c.data = "short" -> 45
           [] OTHER -> IF c.value > 0 THEN 35 ELSE 0})

BatchFloor(batch) ==
    IF batch.bytes # "parse" THEN 45
    ELSE LET kept == SubSeq(batch.calls, 1, Min({Len(batch.calls), MaxInner}))
             overflow == IF Len(batch.calls) > MaxInner THEN 45 ELSE 0
         IN Max({overflow} \cup {InnerFloor(kept[i]) : i \in DOMAIN kept})

\* What a transaction's calldata is scored at least, a batch by its calls.
CarriedFloor(call, batch) == IF call.sel = "multiSend" THEN BatchFloor(batch) ELSE CallFloor(call)

\* analyzeEvmCall: targetType is what the read of the target's code said,
\* "unknown" when nothing could be read.
AnalyzeEvmCall(to, hasData, value, targetType) ==
    IF to = Invalid THEN Block
    ELSE IF ~hasData /\ value = 0 THEN Confirm("MEDIUM", "ok")
    ELSE IF ~hasData /\ targetType = "EOA" THEN Allow
    ELSE Confirm("MEDIUM", IF targetType = "unknown" THEN "partial" ELSE "ok")

\* Inner calls are analysed offline, and only approve is decoded.
InnerDecision(c) ==
    LET own == IF c.data = "call" /\ c.call.sel = "approve"
               THEN AnalyzeApproval(c.call).decision
               ELSE AnalyzeEvmCall(c.to, c.data # "none", c.value, "unknown").decision
    IN IF c.op = "delegatecall" THEN Worst(own, "REQUIRE_CONFIRMATION") ELSE own

AnalyzeSafeTx(sel, batch) ==
    IF sel # "multiSend" \/ batch.bytes # "parse" THEN Confirm("UNKNOWN", "partial")
    ELSE LET aggregate == WorstOf({"ALLOW"} \cup {InnerDecision(c) : c \in InnerCalls(batch)})
         IN Result(aggregate,
                   CASE aggregate = "BLOCK" -> "CRITICAL"
                     [] aggregate = "REQUIRE_CONFIRMATION" -> "MEDIUM"
                     [] OTHER -> "LOW", "ok")

\* analyzeContract: code is "code", "none" or "unknown" when it was not read.
AnalyzeContractCode(a, code) ==
    IF a \notin Addresses THEN Block
    ELSE IF CanonicalEvidence(a, ActiveChain) THEN Allow
    ELSE IF LookupCanonical(a) THEN Confirm("MEDIUM", "ok")
    ELSE CASE code = "code"    -> Confirm("MEDIUM", "ok")
           [] code = "none"    -> Allow
           [] code = "unknown" -> Confirm("UNKNOWN", "partial")

=============================================================================
