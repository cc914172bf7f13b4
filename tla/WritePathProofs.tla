--------------------------- MODULE WritePathProofs ---------------------------
(***************************************************************************)
(* What WritePath keeps for every set of calls and wallets, every limit    *)
(* and every number of days and crashes. Under every fault: its types, the *)
(* limit of the counter and the allowance of one swap. Where no crash can  *)
(* follow a failed write of the file: the balance of the books, what a day *)
(* pays up to the reservations that other days release on it, without lost *)
(* answers the refinement of DailyBudget and, on one day without faults,   *)
(* the cap.                                                                *)
(***************************************************************************)
EXTENDS WritePath, FiniteSetTheorems, TLAPS

USE AccumulatorAssumption, WritePathAssumption

-----------------------------------------------------------------------------
(* Types                                                                   *)

\* The accumulator's operations keep the types of the counter and the file.
LEMMA ReserveTypes ==
    ASSUME SpendTypeOK, NEW w \in Wallets, NEW usd \in 1..MaxAmount,
           ReserveDailyLimit(w, usd)
    PROVE  /\ buckets' \in [Wallets -> Bucket]
           /\ disk' \in [Wallets -> Bucket]
<1>1. CurrentUsd(w) + usd \in Nat
    BY DEF SpendTypeOK, CurrentUsd, Bucket
<1>2. buckets' \in [Wallets -> Bucket]
    BY <1>1 DEF ReserveDailyLimit, RecordSpend, SpendTypeOK, Bucket
<1>3. QED
    BY <1>2 DEF ReserveDailyLimit, RecordSpend, SaveBuckets, SpendTypeOK

\* A release subtracts without going below zero.
LEMMA ReleaseTypes ==
    ASSUME SpendTypeOK, NEW w \in Wallets, NEW usd \in 1..MaxAmount,
           ReleaseReservation(w, usd)
    PROVE  /\ buckets' \in [Wallets -> Bucket]
           /\ disk' \in [Wallets -> Bucket]
<1>1. CASE buckets[w].date = day
    <2>1. /\ buckets' = [buckets EXCEPT ![w].total = IF @ > usd THEN @ - usd ELSE 0]
          /\ SaveBuckets
        BY <1>1 DEF ReleaseReservation
    <2>2. buckets' \in [Wallets -> Bucket]
        BY <2>1 DEF SpendTypeOK, Bucket
    <2>3. QED
        BY <2>1, <2>2 DEF SaveBuckets, SpendTypeOK
<1>2. CASE buckets[w].date # day
    BY <1>2 DEF ReleaseReservation, SpendTypeOK
<1>3. QED
    BY <1>1, <1>2

\* The steps the tools are made of keep the types.
LEMMA ProceedTypes ==
    ASSUME TypeOK, NEW c \in Calls, NEW stage \in Stages, Proceed(c, stage)
    PROVE  TypeOK'
BY DEF TypeOK, SpendTypeOK, Proceed, Goto, spendVars, callVars, Request

LEMMA CallReserveTypes ==
    ASSUME TypeOK, NEW c \in Calls, NEW stage \in Stages, Reserve(c, stage)
    PROVE  TypeOK'
<1>1. req[c].wallet \in Wallets /\ req[c].usd \in 1..MaxAmount
    BY DEF TypeOK, Request
<1>2. buckets' \in [Wallets -> Bucket] /\ disk' \in [Wallets -> Bucket]
    BY <1>1, ReserveTypes DEF TypeOK, Reserve
<1>3. QED
    BY <1>2 DEF TypeOK, SpendTypeOK, Reserve, Goto

LEMMA ReleaseAndReturnTypes ==
    ASSUME TypeOK, NEW c \in Calls, ReleaseAndReturn(c)
    PROVE  TypeOK'
<1>1. req[c].wallet \in Wallets /\ req[c].usd \in 1..MaxAmount
    BY DEF TypeOK, Request
<1>2. buckets' \in [Wallets -> Bucket] /\ disk' \in [Wallets -> Bucket]
    BY <1>1, ReleaseTypes DEF TypeOK, ReleaseAndReturn
<1>3. "done" \in Stages
    BY DEF Stages
<1>4. QED
    BY <1>2, <1>3 DEF TypeOK, SpendTypeOK, ReleaseAndReturn, Goto

LEMMA ApprovalTypes ==
    ASSUME TypeOK, NEW c \in Calls, NEW stage \in Stages, ApprovalMined(c, stage)
    PROVE  TypeOK'
<1>1. req[c].wallet \in Wallets /\ req[c].usd \in Nat
    BY DEF TypeOK, Request
<1>2. QED
    BY <1>1 DEF TypeOK, SpendTypeOK, ApprovalMined, Goto, spendVars

-----------------------------------------------------------------------------
(* Every step of a handler is one of four.                                 *)

\* The stages before the reservation, and those between it and the outcome.
Before == {"idle", "gate", "evidence", "allowance", "approving", "simulate", "probe"}
Paying == {"send", "receipt", "pay"}

\* A handler goes on or has an approval mined, reserves before it pays, and
\* while it pays it goes on or releases; unless answers are lost, it releases
\* nothing that is on its way.
HandlerSteps(c) ==
    \/ pc[c] \in Before /\ \E stage \in Before \cup {"done"} :
            Proceed(c, stage) \/ ApprovalMined(c, stage)
    \/ pc[c] \in Before /\ \E stage \in {"send", "pay"} : Reserve(c, stage)
    \/ pc[c] \in Paying /\ \E stage \in {"receipt", "done"} : Proceed(c, stage)
    \/ /\ pc[c] \in Paying /\ ReleaseAndReturn(c)
       /\ "lost_answer" \notin Faults => chain[c] \notin {"mempool", "mined"}

LEMMA StagesSplit ==
    Before \subseteq Stages /\ Paying \subseteq Stages /\ "done" \in Stages
BY DEF Before, Paying, Stages

LEMMA HandlerIsOneOfFour ==
    ASSUME NEW c \in Calls, Handler(c)
    PROVE  HandlerSteps(c)
<1> USE DEF HandlerSteps, Before, Paying
<1>1. CASE StartCall(c)
    BY <1>1 DEF StartCall
<1>2. CASE PaymentGate(c) \/ PaymentDecide(c)
    BY <1>2 DEF PaymentGate, PaymentDecide, Return
<1>3. CASE SwapGate(c) \/ SwapRoute(c)
    BY <1>3 DEF SwapGate, SwapRoute, Return
<1>4. CASE SwapAllowance(c) \/ SwapSimulate(c)
    BY <1>4 DEF SwapAllowance, SwapSimulate, Return
<1>5. CASE SwapApprove(c)
    BY <1>5 DEF SwapApprove, Return
<1>6. CASE X402Probe(c)
    BY <1>6 DEF X402Probe, Return
<1>7. CASE X402Respond(c)
    BY <1>7 DEF X402Respond, Return
<1>8. CASE Broadcast(c)
    BY <1>8 DEF Broadcast, SendReturns, SendThrows, ReceiptReturns, ReceiptThrows, Return
<1>9. QED
    BY <1>1, <1>2, <1>3, <1>4, <1>5, <1>6, <1>7, <1>8
    DEF Handler, PaymentBroadcast, SwapBroadcast

LEMMA TypeStep == TypeOK /\ [Next]_vars => TypeOK'
<1> SUFFICES ASSUME TypeOK, [Next]_vars PROVE TypeOK'
    OBVIOUS
<1>1. ASSUME NEW c \in Calls, Handler(c) PROVE TypeOK'
    <2>1. HandlerSteps(c)
        BY <1>1, HandlerIsOneOfFour
    <2>2. ASSUME NEW stage \in Stages, Proceed(c, stage) PROVE TypeOK'
        BY <2>2, ProceedTypes
    <2>3. ASSUME NEW stage \in Stages, Reserve(c, stage) PROVE TypeOK'
        BY <2>3, CallReserveTypes
    <2>4. ASSUME NEW stage \in Stages, ApprovalMined(c, stage) PROVE TypeOK'
        BY <2>4, ApprovalTypes
    <2>5. {"send", "pay", "receipt", "done"} \subseteq Stages
        BY DEF Stages
    <2>6. QED
        BY <2>1, <2>2, <2>3, <2>4, <2>5, StagesSplit, ReleaseAndReturnTypes DEF HandlerSteps
<1>2. ASSUME NEW c \in Calls, NodeAccepts(c) \/ Revert(c) PROVE TypeOK'
    BY <1>2 DEF TypeOK, SpendTypeOK, NodeAccepts, Revert, spendVars
<1>3. ASSUME NEW c \in Calls, Mine(c) PROVE TypeOK'
    <2>1. req[c].usd \in 1..MaxAmount /\ req[c].wallet \in Wallets
        BY DEF TypeOK, Request
    <2>2. allowance' \in [Wallets -> Nat]
        BY <1>3, <2>1 DEF TypeOK, Mine
    <2>3. QED
        BY <1>3, <2>1, <2>2 DEF TypeOK, SpendTypeOK, Mine, spendVars
<1>4. ASSUME NEW c \in Calls, X402Settle(c) PROVE TypeOK'
    BY <1>4 DEF TypeOK, SpendTypeOK, X402Settle, spendVars
<1>5. CASE MidnightPasses
    BY <1>5 DEF TypeOK, SpendTypeOK, MidnightPasses, callVars
<1>6. CASE Crash
    <2>1. pc' \in [Calls -> Stages]
        BY <1>6 DEF TypeOK, Crash, Stages
    <2>2. QED
        BY <1>6, <2>1 DEF TypeOK, SpendTypeOK, Crash, LoadBuckets, callVars
<1>7. CASE UNCHANGED vars
    BY <1>7 DEF TypeOK, SpendTypeOK, vars
<1>8. QED
    BY <1>1, <1>2, <1>3, <1>4, <1>5, <1>6, <1>7 DEF Next, Outside

LEMMA TypeInit == Init => TypeOK
BY DEF Init, SpendInit, TypeOK, SpendTypeOK, Bucket, NoBucket, Stages

\* Every variable of the write path keeps its type, whatever goes wrong
\* outside the process.
THEOREM TypeCorrect == Spec => []TypeOK
BY TypeInit, TypeStep, PTL DEF Spec

-----------------------------------------------------------------------------
(* The counter never passes the limit                                      *)

LEMMA ReserveWithinLimit ==
    ASSUME SpendTypeOK, BucketWithinLimit, NEW w \in Wallets, NEW usd \in 1..MaxAmount,
           ReserveDailyLimit(w, usd)
    PROVE  BucketWithinLimit'
<1>1. CurrentUsd(w) + usd <= Limit
    BY DEF ReserveDailyLimit, CheckDailyLimit
<1>2. \A v \in Wallets : buckets'[v].total <= Limit
    BY <1>1 DEF ReserveDailyLimit, RecordSpend, BucketWithinLimit, SpendTypeOK, Bucket
<1>3. disk' = buckets' \/ disk' = disk
    BY DEF ReserveDailyLimit, RecordSpend, SaveBuckets
<1>4. QED
    BY <1>2, <1>3 DEF BucketWithinLimit

LEMMA ReleaseWithinLimit ==
    ASSUME SpendTypeOK, BucketWithinLimit, NEW w \in Wallets, NEW usd \in 1..MaxAmount,
           ReleaseReservation(w, usd)
    PROVE  BucketWithinLimit'
<1>1. CASE buckets[w].date # day
    BY <1>1 DEF ReleaseReservation, BucketWithinLimit
<1>2. CASE buckets[w].date = day
    <2> DEFINE left == IF buckets[w].total > usd THEN buckets[w].total - usd ELSE 0
    <2>1. buckets' = [buckets EXCEPT ![w].total = left] /\ SaveBuckets
        BY <1>2 DEF ReleaseReservation
    <2>2. buckets[w].total \in Nat /\ buckets[w].total <= Limit
        BY DEF SpendTypeOK, Bucket, BucketWithinLimit
    <2>3. left <= Limit
        BY <2>2
    <2> HIDE DEF left
    <2>4. \A v \in Wallets : buckets'[v].total <= Limit
        BY <2>1, <2>3 DEF BucketWithinLimit, SpendTypeOK, Bucket
    <2>5. QED
        BY <2>1, <2>4 DEF SaveBuckets, BucketWithinLimit
<1>3. QED
    BY <1>1, <1>2

LEMMA LimitStep == TypeOK /\ BucketWithinLimit /\ [Next]_vars => BucketWithinLimit'
<1> SUFFICES ASSUME TypeOK, BucketWithinLimit, [Next]_vars PROVE BucketWithinLimit'
    OBVIOUS
<1>1. ASSUME NEW c \in Calls, Handler(c) PROVE BucketWithinLimit'
    <2>1. req[c].wallet \in Wallets /\ req[c].usd \in 1..MaxAmount /\ SpendTypeOK
        BY DEF TypeOK, Request
    <2>2. ASSUME NEW stage \in Stages, Proceed(c, stage) PROVE BucketWithinLimit'
        BY <2>2 DEF Proceed, spendVars, BucketWithinLimit
    <2>3. ASSUME NEW stage \in Stages, Reserve(c, stage) PROVE BucketWithinLimit'
        BY <2>1, <2>3, ReserveWithinLimit DEF Reserve
    <2>4. ASSUME ReleaseAndReturn(c) PROVE BucketWithinLimit'
        BY <2>1, <2>4, ReleaseWithinLimit DEF ReleaseAndReturn
    <2>5. ASSUME NEW stage \in Stages, ApprovalMined(c, stage) PROVE BucketWithinLimit'
        BY <2>5 DEF ApprovalMined, spendVars, BucketWithinLimit
    <2>6. HandlerSteps(c) /\ {"send", "pay", "receipt", "done"} \subseteq Stages
        BY <1>1, HandlerIsOneOfFour DEF Stages
    <2>7. QED
        BY <2>2, <2>3, <2>4, <2>5, <2>6, StagesSplit DEF HandlerSteps
<1>2. ASSUME NEW c \in Calls, Outside(c) PROVE BucketWithinLimit'
    BY <1>2 DEF Outside, NodeAccepts, Mine, Revert, X402Settle, spendVars, BucketWithinLimit
<1>3. CASE MidnightPasses
    BY <1>3 DEF MidnightPasses, BucketWithinLimit
<1>4. CASE Crash
    BY <1>4 DEF Crash, LoadBuckets, BucketWithinLimit
<1>5. CASE UNCHANGED vars
    BY <1>5 DEF vars, BucketWithinLimit
<1>6. QED
    BY <1>1, <1>2, <1>3, <1>4, <1>5 DEF Next

\* No counter, in memory or on disk, ever passes MAX_DAILY_SPEND_USD: with any
\* interleaving of the three tools, lost answers, failed saves, crashes and
\* midnights.
THEOREM CounterWithinLimit == Spec => []BucketWithinLimit
<1>1. Init => BucketWithinLimit
    <2>1. 0 <= Limit /\ NoBucket.total = 0
        BY DEF NoBucket
    <2>2. QED
        BY <2>1 DEF Init, SpendInit, BucketWithinLimit
<1>2. QED
    BY <1>1, LimitStep, TypeCorrect, PTL DEF Spec

-----------------------------------------------------------------------------
(* Counting dollars                                                        *)

\* The dollars of finitely many calls can be counted.
LEMMA DollarsFinite ==
    ASSUME NEW C \in SUBSET Calls, NEW f
    PROVE  IsFiniteSet(DollarsOf(C, f)) /\ Cardinality(DollarsOf(C, f)) \in Nat
<1>1. IsFiniteSet(C) /\ IsFiniteSet(1..MaxAmount)
    BY FS_Subset, FS_Interval
<1>2. IsFiniteSet(C \X (1..MaxAmount))
    BY <1>1, FS_Product
<1>3. DollarsOf(C, f) \in SUBSET (C \X (1..MaxAmount))
    BY DEF DollarsOf
<1>4. QED
    BY <1>2, <1>3, FS_Subset, FS_CardinalityType

\* More calls, or larger amounts, are at least as many dollars.
LEMMA DollarsMonotone ==
    ASSUME NEW C \in SUBSET Calls, NEW D \in SUBSET Calls, NEW f, NEW g,
           \A c \in C : f[c] \in Nat /\ (f[c] > 0 => c \in D /\ g[c] \in Nat /\ f[c] <= g[c])
    PROVE  Cardinality(DollarsOf(C, f)) <= Cardinality(DollarsOf(D, g))
<1>1. DollarsOf(C, f) \in SUBSET DollarsOf(D, g)
    <2> SUFFICES ASSUME NEW d \in DollarsOf(C, f) PROVE d \in DollarsOf(D, g)
        OBVIOUS
    <2>1. d \in C \X (1..MaxAmount) /\ d[2] <= f[d[1]]
        BY DEF DollarsOf
    <2>2. d[1] \in C /\ d[2] \in 1..MaxAmount /\ d = <<d[1], d[2]>>
        BY <2>1
    <2>3. f[d[1]] \in Nat /\ f[d[1]] > 0
        BY <2>1, <2>2
    <2>4. d[1] \in D /\ d[2] <= g[d[1]]
        BY <2>1, <2>2, <2>3
    <2>5. QED
        BY <2>2, <2>4 DEF DollarsOf
<1>2. QED
    BY <1>1, DollarsFinite, FS_Subset

\* One more call adds its own amount.
LEMMA DollarsAdd ==
    ASSUME NEW C \in SUBSET Calls, NEW c \in Calls \ C, NEW f, f[c] \in 1..MaxAmount
    PROVE  Cardinality(DollarsOf(C \cup {c}, f)) = Cardinality(DollarsOf(C, f)) + f[c]
<1> DEFINE own == {c} \X (1..f[c])
<1>1. DollarsOf(C \cup {c}, f) = DollarsOf(C, f) \cup own
    <2>1. \A d : d \in DollarsOf(C \cup {c}, f) <=>
                    d \in DollarsOf(C, f) \/ d \in DollarsOf({c}, f)
        BY DEF DollarsOf
    <2>2. \A d : d \in DollarsOf({c}, f) <=> d \in own
        BY DEF DollarsOf
    <2>3. QED
        BY <2>1, <2>2
<1>2. DollarsOf(C, f) \cap own = {}
    BY DEF DollarsOf
<1>3. IsFiniteSet(own) /\ Cardinality(own) = f[c]
    <2>1. IsFiniteSet({c}) /\ Cardinality({c}) = 1
        BY FS_Singleton
    <2>2. IsFiniteSet(1..f[c]) /\ Cardinality(1..f[c]) = f[c]
        BY FS_Interval
    <2>3. QED
        BY <2>1, <2>2, FS_Product
<1> HIDE DEF own
<1>4. Cardinality(DollarsOf(C, f) \cap own) = 0
    BY <1>2, FS_EmptySet
<1>5. IsFiniteSet(DollarsOf(C, f)) /\ Cardinality(DollarsOf(C, f)) \in Nat
    BY DollarsFinite
<1>6. Cardinality(DollarsOf(C, f) \cup own) =
          Cardinality(DollarsOf(C, f)) + Cardinality(own) - Cardinality(DollarsOf(C, f) \cap own)
    BY <1>3, <1>5, FS_Union
<1>7. f[c] \in Nat
    OBVIOUS
<1>8. Cardinality(DollarsOf(C, f) \cup own) = Cardinality(DollarsOf(C, f)) + f[c]
    BY <1>3, <1>4, <1>5, <1>6, <1>7
<1>9. QED
    BY ONLY <1>1, <1>8, Zenon

\* The same facts for the requests of a set of calls.
LEMMA RequestedNat ==
    ASSUME NEW C \in SUBSET Calls
    PROVE  RequestedUsd(C) \in Nat
BY DollarsFinite DEF RequestedUsd

LEMMA RequestedMonotone ==
    ASSUME TypeOK, NEW D \in SUBSET Calls, NEW C \in SUBSET D
    PROVE  RequestedUsd(C) <= RequestedUsd(D)
<1> DEFINE usd == [c \in Calls |-> req[c].usd]
<1>1. \A c \in Calls : usd[c] \in Nat
    BY DEF TypeOK, Request
<1> HIDE DEF usd
<1>2. Cardinality(DollarsOf(C, usd)) <= Cardinality(DollarsOf(D, usd))
    BY <1>1, DollarsMonotone
<1>3. QED
    BY <1>2 DEF RequestedUsd, usd

LEMMA RequestedAdd ==
    ASSUME TypeOK, NEW C \in SUBSET Calls, NEW c \in Calls \ C
    PROVE  RequestedUsd(C \cup {c}) = RequestedUsd(C) + req[c].usd
<1> DEFINE usd == [x \in Calls |-> req[x].usd]
<1>1. usd[c] = req[c].usd /\ usd[c] \in 1..MaxAmount
    BY DEF TypeOK, Request
<1> HIDE DEF usd
<1>2. Cardinality(DollarsOf(C \cup {c}, usd)) = Cardinality(DollarsOf(C, usd)) + usd[c]
    BY <1>1, DollarsAdd
<1>3. QED
    BY <1>1, <1>2 DEF RequestedUsd, usd

LEMMA RequestedEmpty == RequestedUsd({}) = 0
<1> DEFINE usd == [x \in Calls |-> req[x].usd]
<1>1. DollarsOf({}, usd) = {}
    BY DEF DollarsOf
<1>2. QED
    BY <1>1, FS_EmptySet DEF RequestedUsd

-----------------------------------------------------------------------------
(* The cap                                                                 *)

(***************************************************************************)
(* Why the cap holds.  A call pays only while it holds a reservation, is   *)
(* released at most once and, unless answers are lost, never when its      *)
(* payment is on its way (CallInv).  So what a wallet pays of a day is at  *)
(* most what is held of that day's reservations, and today's counter is at *)
(* least what is held today, short of what was subtracted from it for      *)
(* another day (WalletInv).  The counter alone says nothing of days gone   *)
(* by: the first conjunct of WalletInv carries the limit past midnight.    *)
(***************************************************************************)
CallInv(c) ==
    /\ resDay[c] <= day /\ relDay[c] <= day
    /\ pc[c] \in Paying => held[c] /\ resDay[c] # 0
    /\ held[c] => pc[c] \notin Before /\ resDay[c] # 0
    /\ pc[c] \in Before => resDay[c] = 0
    /\ pc[c] \in Before \cup Paying => relDay[c] = 0
    /\ relDay[c] # 0 => resDay[c] # 0
    /\ "lost_answer" \notin Faults /\ chain[c] \in {"mempool", "mined"} => held[c]
    /\ chain[c] # "mined" => paid[c] = 0
    /\ "unread_challenge" \notin Faults => paid[c] <= req[c].usd

HeldUsd(w, d) == RequestedUsd(Holding(w, d))

LateUsd(w, d) == RequestedUsd(ReleasedLate(w, d))

WalletInv(w) ==
    \A d \in 1..MaxDay :
        /\ HeldUsd(w, d) <= Limit + LateUsd(w, d)
        /\ d = day => HeldUsd(w, d) <= CurrentUsd(w) + LateUsd(w, d)

CapInv ==
    /\ TypeOK
    /\ MaxCrashes = 0 \/ disk = buckets
    /\ \A c \in Calls : CallInv(c)
    /\ \A w \in Wallets : WalletInv(w)

\* What WalletInv reads.
Ledger == <<day, buckets, req, held, resDay, relDay>>

LEMMA WalletUnchanged ==
    ASSUME NEW w \in Wallets, WalletInv(w), UNCHANGED Ledger
    PROVE  WalletInv(w)'
BY DEF WalletInv, Ledger, HeldUsd, LateUsd, RequestedUsd, Holding, ReleasedLate, OfWallet, CurrentUsd

\* The stages of the proof are apart.
LEMMA StagesApart ==
    Before \cap Paying = {} /\ "done" \notin Before \cup Paying /\ "dead" \notin Before \cup Paying
BY DEF Before, Paying

\* Steps of call c keep CallInv of every call.
LEMMA CallInvProceed ==
    ASSUME CapInv, NEW c \in Calls, NEW stage \in Stages, NEW x \in Calls,
           Proceed(c, stage) \/ ApprovalMined(c, stage),
           \/ pc[c] \in Before /\ stage \in Before \cup {"done"}
           \/ pc[c] \in Paying /\ stage \in {"receipt", "done"}
    PROVE  CallInv(x)'
<1>1. CallInv(x) /\ pc \in [Calls -> Stages]
    BY DEF CapInv, TypeOK
<1>2. pc' = [pc EXCEPT ![c] = stage]
      /\ UNCHANGED <<day, req, held, resDay, relDay, chain, paid>>
    BY DEF Proceed, ApprovalMined, Goto, spendVars, callVars
<1>3. pc'[x] = pc[x] \/ (x = c /\ pc'[x] = stage)
    BY <1>1, <1>2
<1>4. "receipt" \in Paying /\ "receipt" \notin Before
    BY DEF Before, Paying
<1>5. QED
    BY <1>1, <1>2, <1>3, <1>4, StagesApart DEF CallInv

LEMMA CallInvReserve ==
    ASSUME CapInv, NEW c \in Calls, NEW stage \in {"send", "pay"}, NEW x \in Calls,
           pc[c] \in Before, Reserve(c, stage)
    PROVE  CallInv(x)'
<1>1. CallInv(x) /\ TypeOK
    BY DEF CapInv
<1>2. stage \in Paying /\ stage \notin Before
    BY DEF Before, Paying
<1>3. CASE x # c
    BY <1>1, <1>3 DEF CallInv, TypeOK, Reserve, Goto
<1>4. CASE x = c
    <2>1. /\ pc'[c] = stage /\ held'[c] = TRUE /\ resDay'[c] = day
          /\ relDay' = relDay /\ chain' = chain /\ paid' = paid /\ req' = req /\ day' = day
        BY <1>1 DEF TypeOK, Reserve, Goto
    <2>2. day \in 1..MaxDay
        BY <1>1 DEF TypeOK, SpendTypeOK
    <2>3. QED
        BY <1>1, <1>2, <1>4, <2>1, <2>2 DEF CallInv
<1>5. QED
    BY <1>3, <1>4

LEMMA CallInvRelease ==
    ASSUME CapInv, NEW c \in Calls, NEW x \in Calls, pc[c] \in Paying, ReleaseAndReturn(c),
           "lost_answer" \notin Faults => chain[c] \notin {"mempool", "mined"}
    PROVE  CallInv(x)'
<1>1. CallInv(x) /\ TypeOK
    BY DEF CapInv
<1>2. CASE x # c
    BY <1>1, <1>2 DEF CallInv, TypeOK, ReleaseAndReturn, Goto
<1>3. CASE x = c
    <2>1. /\ pc'[c] = "done" /\ held'[c] = FALSE /\ relDay'[c] = day
          /\ resDay' = resDay /\ chain' = chain /\ paid' = paid /\ req' = req /\ day' = day
        BY <1>1 DEF TypeOK, ReleaseAndReturn, Goto
    <2>2. day \in 1..MaxDay
        BY <1>1 DEF TypeOK, SpendTypeOK
    <2>3. QED
        BY <1>1, <1>3, <2>1, <2>2, StagesApart DEF CallInv
<1>4. QED
    BY <1>2, <1>3

\* The chain lands only what is held, unless answers are lost.
LEMMA CallInvOutside ==
    ASSUME CapInv, NEW c \in Calls, NEW x \in Calls, Outside(c)
    PROVE  CallInv(x)'
<1>1. CallInv(x) /\ CallInv(c) /\ TypeOK
    BY DEF CapInv
<1>2. req[c].usd \in 1..MaxAmount
    BY <1>1 DEF TypeOK, Request
<1>3. CASE NodeAccepts(c)
    <2>1. "send" \in Paying
        BY DEF Paying
    <2>2. QED
        BY <1>1, <1>3, <2>1 DEF CallInv, TypeOK, NodeAccepts, spendVars
<1>4. CASE Mine(c)
    BY <1>1, <1>2, <1>4 DEF CallInv, TypeOK, Mine, spendVars
<1>5. CASE Revert(c)
    BY <1>1, <1>5 DEF CallInv, TypeOK, Revert, spendVars
<1>6. CASE X402Settle(c)
    <2>1. "lost_answer" \notin Faults => held[c]
        <3>1. "pay" \in Paying
            BY DEF Paying
        <3>2. QED
            BY <1>1, <1>6, <3>1 DEF CallInv, X402Settle
    <2>2. PICK usd \in 1..MaxAmount :
            /\ "unread_challenge" \notin Faults => usd <= req[c].usd
            /\ paid' = [paid EXCEPT ![c] = usd]
        BY <1>6 DEF X402Settle, ChallengeAllows
    <2>3. QED
        BY <1>1, <1>2, <1>6, <2>1, <2>2 DEF CallInv, TypeOK, X402Settle, spendVars
<1>7. QED
    BY <1>3, <1>4, <1>5, <1>6 DEF Outside

-----------------------------------------------------------------------------
(* Steps that move the counter keep WalletInv                              *)

\* A step that leaves the requests alone only changes which calls are summed.
LEMMA UsdPrime ==
    ASSUME req' = req, NEW w, NEW d
    PROVE  /\ HeldUsd(w, d)' = RequestedUsd(Holding(w, d)')
           /\ LateUsd(w, d)' = RequestedUsd(ReleasedLate(w, d)')
BY DEF HeldUsd, LateUsd, RequestedUsd

LEMMA UsdNat ==
    ASSUME NEW w, NEW d
    PROVE  HeldUsd(w, d) \in Nat /\ LateUsd(w, d) \in Nat
<1>1. Holding(w, d) \in SUBSET Calls /\ ReleasedLate(w, d) \in SUBSET Calls
    BY DEF Holding, ReleasedLate, OfWallet
<1>2. QED
    BY <1>1, RequestedNat DEF HeldUsd, LateUsd

\* A reservation raises the counter by as much as what is held.
LEMMA WalletReserve ==
    ASSUME CapInv, NEW c \in Calls, NEW stage, pc[c] \in Before, Reserve(c, stage),
           NEW w \in Wallets
    PROVE  WalletInv(w)'
<1> SUFFICES ASSUME NEW d \in 1..MaxDay
             PROVE  /\ HeldUsd(w, d)' <= Limit + LateUsd(w, d)'
                    /\ d = day' => HeldUsd(w, d)' <= CurrentUsd(w)' + LateUsd(w, d)'
    BY DEF WalletInv
<1>1. TypeOK /\ CallInv(c) /\ WalletInv(w)
    BY DEF CapInv
<1>2. ~held[c] /\ relDay[c] = 0
    BY <1>1 DEF CallInv
<1>3. /\ req' = req /\ day' = day /\ relDay' = relDay
      /\ held' = [held EXCEPT ![c] = TRUE] /\ resDay' = [resDay EXCEPT ![c] = day]
      /\ held \in [Calls -> BOOLEAN] /\ resDay \in [Calls -> 0..MaxDay]
    BY <1>1 DEF Reserve, TypeOK
<1>4. ReleasedLate(w, d)' = ReleasedLate(w, d)
    BY <1>2, <1>3 DEF ReleasedLate, OfWallet
<1>5. LateUsd(w, d)' = LateUsd(w, d)
    BY <1>3, <1>4, UsdPrime DEF LateUsd
<1>6. CASE w = req[c].wallet /\ d = day
    <2>1. Holding(w, d)' = Holding(w, d) \cup {c}
        BY <1>3, <1>6 DEF Holding, OfWallet
    <2>2. c \notin Holding(w, d) /\ Holding(w, d) \in SUBSET Calls
        BY <1>2 DEF Holding, OfWallet
    <2>3. RequestedUsd(Holding(w, d) \cup {c}) = HeldUsd(w, d) + req[c].usd
        BY <1>1, <2>2, RequestedAdd DEF HeldUsd
    <2>4. HeldUsd(w, d)' = HeldUsd(w, d) + req[c].usd
        BY <1>3, <2>1, <2>3, UsdPrime
    <2>5. /\ CurrentUsd(w) + req[c].usd <= Limit
          /\ buckets' = [buckets EXCEPT ![w] = [date |-> day, total |-> CurrentUsd(w) + req[c].usd]]
        BY <1>6 DEF Reserve, ReserveDailyLimit, CheckDailyLimit, RecordSpend
    <2>6. CurrentUsd(w)' = CurrentUsd(w) + req[c].usd
        BY <1>1, <1>3, <2>5 DEF CurrentUsd, TypeOK, SpendTypeOK
    <2>7. HeldUsd(w, d) <= CurrentUsd(w) + LateUsd(w, d)
        BY <1>1, <1>6 DEF WalletInv
    <2>8. req[c].usd \in Nat /\ CurrentUsd(w) \in Nat
        BY <1>1 DEF TypeOK, SpendTypeOK, Request, Bucket, CurrentUsd
    <2>9. QED
        BY <1>3, <1>5, <2>4, <2>5, <2>6, <2>7, <2>8, UsdNat
<1>7. CASE ~(w = req[c].wallet /\ d = day)
    <2>1. Holding(w, d)' = Holding(w, d)
        BY <1>2, <1>3, <1>7 DEF Holding, OfWallet
    <2>2. HeldUsd(w, d)' = HeldUsd(w, d)
        BY <1>3, <2>1, UsdPrime DEF HeldUsd
    <2>3. d = day => CurrentUsd(w)' = CurrentUsd(w)
        BY <1>1, <1>3, <1>7
        DEF Reserve, ReserveDailyLimit, RecordSpend, CurrentUsd, TypeOK, SpendTypeOK
    <2>4. QED
        BY <1>1, <1>3, <1>5, <2>2, <2>3 DEF WalletInv
<1>8. QED
    BY <1>6, <1>7

\* A release lowers the counter by no more than what it stops holding, or
\* counts as late.
LEMMA WalletRelease ==
    ASSUME CapInv, NEW c \in Calls, pc[c] \in Paying, ReleaseAndReturn(c), NEW w \in Wallets
    PROVE  WalletInv(w)'
<1> SUFFICES ASSUME NEW d \in 1..MaxDay
             PROVE  /\ HeldUsd(w, d)' <= Limit + LateUsd(w, d)'
                    /\ d = day' => HeldUsd(w, d)' <= CurrentUsd(w)' + LateUsd(w, d)'
    BY DEF WalletInv
<1> DEFINE u == req[c].usd
<1>1. TypeOK /\ CallInv(c) /\ WalletInv(w)
    BY DEF CapInv
<1>2. held[c] /\ resDay[c] # 0 /\ relDay[c] = 0
    BY <1>1 DEF CallInv
<1>3. /\ req' = req /\ day' = day /\ resDay' = resDay
      /\ held' = [held EXCEPT ![c] = FALSE] /\ relDay' = [relDay EXCEPT ![c] = day]
      /\ held \in [Calls -> BOOLEAN] /\ relDay \in [Calls -> 0..MaxDay]
    BY <1>1 DEF ReleaseAndReturn, TypeOK
<1>4. u \in Nat /\ CurrentUsd(w) \in Nat /\ Limit \in Nat /\ c \in Calls
    BY <1>1 DEF TypeOK, SpendTypeOK, Request, Bucket, CurrentUsd
<1>5. /\ HeldUsd(w, d) <= Limit + LateUsd(w, d)
      /\ d = day => HeldUsd(w, d) <= CurrentUsd(w) + LateUsd(w, d)
    BY <1>1 DEF WalletInv
<1>6. /\ CurrentUsd(w)' \in Nat
      /\ w # req[c].wallet => CurrentUsd(w)' = CurrentUsd(w)
      /\ CurrentUsd(w)' >= CurrentUsd(w) - u
    BY <1>1, <1>3, <1>4
    DEF ReleaseAndReturn, ReleaseReservation, CurrentUsd, TypeOK, SpendTypeOK, Bucket
<1>7. Holding(w, d) \in SUBSET Calls /\ ReleasedLate(w, d) \in SUBSET Calls
    BY DEF Holding, ReleasedLate, OfWallet
<1> HIDE DEF u
<1>8. CASE w # req[c].wallet
    <2>1. Holding(w, d)' = Holding(w, d) /\ ReleasedLate(w, d)' = ReleasedLate(w, d)
        BY <1>3, <1>8 DEF Holding, ReleasedLate, OfWallet
    <2>2. HeldUsd(w, d)' = HeldUsd(w, d) /\ LateUsd(w, d)' = LateUsd(w, d)
        BY <1>3, <2>1, UsdPrime DEF HeldUsd, LateUsd
    <2>3. QED
        BY <1>3, <1>5, <1>6, <1>8, <2>2
<1>9. CASE w = req[c].wallet /\ resDay[c] = d
    <2>1. Holding(w, d) = Holding(w, d)' \cup {c} /\ c \notin Holding(w, d)'
        BY <1>2, <1>3, <1>9 DEF Holding, OfWallet
    <2>2. Holding(w, d)' \in SUBSET Calls
        BY <1>7, <2>1
    <2>3. HeldUsd(w, d) = RequestedUsd(Holding(w, d)') + u
        BY <1>1, <2>1, <2>2, RequestedAdd DEF HeldUsd, u
    <2>4. HeldUsd(w, d) = HeldUsd(w, d)' + u
        BY <1>3, <2>3, UsdPrime
    <2>5. ReleasedLate(w, d)' = ReleasedLate(w, d)
        BY <1>2, <1>3, <1>9 DEF ReleasedLate, OfWallet
    <2>6. LateUsd(w, d)' = LateUsd(w, d)
        BY <1>3, <2>5, UsdPrime DEF LateUsd
    <2>7. HeldUsd(w, d)' \in Nat
        BY <1>3, <2>2, UsdPrime, RequestedNat
    <2>8. QED
        BY <1>3, <1>4, <1>5, <1>6, <2>4, <2>6, <2>7, UsdNat
<1>10. CASE w = req[c].wallet /\ resDay[c] # d
    <2>1. Holding(w, d)' = Holding(w, d)
        BY <1>3, <1>10 DEF Holding, OfWallet
    <2>2. HeldUsd(w, d)' = HeldUsd(w, d)
        BY <1>3, <2>1, UsdPrime DEF HeldUsd
    <2>3. CASE d = day
        <3>1. ReleasedLate(w, d)' = ReleasedLate(w, d) \cup {c} /\ c \notin ReleasedLate(w, d)
            BY <1>2, <1>3, <1>10, <2>3 DEF ReleasedLate, OfWallet
        <3>2. RequestedUsd(ReleasedLate(w, d) \cup {c}) = LateUsd(w, d) + u
            BY <1>1, <1>7, <3>1, RequestedAdd DEF LateUsd, u
        <3>3. LateUsd(w, d)' = LateUsd(w, d) + u
            BY <1>3, <3>1, <3>2, UsdPrime
        <3>4. QED
            BY <1>4, <1>5, <1>6, <2>2, <2>3, <3>3, UsdNat
    <2>4. CASE d # day
        <3>1. ReleasedLate(w, d)' = ReleasedLate(w, d)
            BY <1>2, <1>3, <2>4 DEF ReleasedLate, OfWallet
        <3>2. LateUsd(w, d)' = LateUsd(w, d)
            BY <1>3, <3>1, UsdPrime DEF LateUsd
        <3>3. QED
            BY <1>3, <1>5, <2>2, <2>4, <3>2
    <2>5. QED
        BY <2>3, <2>4
<1>11. QED
    BY <1>8, <1>9, <1>10

\* A new day starts with nothing held and, the counter being of another day,
\* nothing counted.
LEMMA WalletMidnight ==
    ASSUME CapInv, MidnightPasses, NEW w \in Wallets
    PROVE  WalletInv(w)'
<1> SUFFICES ASSUME NEW d \in 1..MaxDay
             PROVE  /\ HeldUsd(w, d)' <= Limit + LateUsd(w, d)'
                    /\ d = day' => HeldUsd(w, d)' <= CurrentUsd(w)' + LateUsd(w, d)'
    BY DEF WalletInv
<1>1. TypeOK /\ WalletInv(w) /\ \A c \in Calls : CallInv(c)
    BY DEF CapInv
<1>2. req' = req /\ day' = day + 1 /\ buckets' = buckets
      /\ held' = held /\ resDay' = resDay /\ relDay' = relDay
    BY DEF MidnightPasses, callVars
<1>3. Holding(w, d)' = Holding(w, d) /\ ReleasedLate(w, d)' = ReleasedLate(w, d)
    BY <1>2 DEF Holding, ReleasedLate, OfWallet
<1>4. HeldUsd(w, d)' = HeldUsd(w, d) /\ LateUsd(w, d)' = LateUsd(w, d)
    BY <1>2, <1>3, UsdPrime DEF HeldUsd, LateUsd
<1>5. CASE d = day + 1
    <2>1. \A c \in Calls : resDay[c] \in Nat /\ resDay[c] <= day /\ day \in Nat
        BY <1>1 DEF CallInv, TypeOK, SpendTypeOK
    <2>2. Holding(w, d) = {}
        BY <1>5, <2>1 DEF Holding, OfWallet
    <2>3. HeldUsd(w, d)' = 0
        BY <1>4, <2>2, RequestedEmpty DEF HeldUsd
    <2>4. CurrentUsd(w)' \in Nat
        BY <1>1, <1>2 DEF CurrentUsd, TypeOK, SpendTypeOK, Bucket
    <2>5. LateUsd(w, d)' \in Nat
        BY <1>4, UsdNat
    <2>6. QED
        BY <2>3, <2>4, <2>5
<1>6. CASE d # day + 1
    BY <1>1, <1>2, <1>4, <1>6 DEF WalletInv
<1>7. QED
    BY <1>5, <1>6

LEMMA CapInvHandler ==
    ASSUME CapInv, ~DiskMayFail \/ MaxCrashes = 0, NEW c \in Calls, Handler(c)
    PROVE  /\ MaxCrashes = 0 \/ disk' = buckets'
           /\ \A x \in Calls : CallInv(x)'
           /\ \A w \in Wallets : WalletInv(w)'
<1>1. HandlerSteps(c)
    BY HandlerIsOneOfFour
<1>2. \A w \in Wallets : WalletInv(w)
    BY DEF CapInv
<1>3. ASSUME NEW stage \in Stages, Proceed(c, stage) \/ ApprovalMined(c, stage),
             \/ pc[c] \in Before /\ stage \in Before \cup {"done"}
             \/ pc[c] \in Paying /\ stage \in {"receipt", "done"}
      PROVE  /\ MaxCrashes = 0 \/ disk' = buckets'
             /\ \A x \in Calls : CallInv(x)'
             /\ \A w \in Wallets : WalletInv(w)'
    <2>1. UNCHANGED Ledger /\ disk' = disk
        BY <1>3 DEF Ledger, Proceed, ApprovalMined, spendVars, callVars
    <2>2. \A w \in Wallets : WalletInv(w)'
        BY <1>2, <2>1, WalletUnchanged
    <2>3. \A x \in Calls : CallInv(x)'
        BY <1>3, CallInvProceed
    <2>4. QED
        BY <2>1, <2>2, <2>3 DEF Ledger, CapInv
<1>4. ASSUME pc[c] \in Before, NEW stage \in {"send", "pay"}, Reserve(c, stage)
      PROVE  /\ MaxCrashes = 0 \/ disk' = buckets'
             /\ \A x \in Calls : CallInv(x)'
             /\ \A w \in Wallets : WalletInv(w)'
    <2>1. MaxCrashes = 0 \/ disk' = buckets'
        BY <1>4 DEF Reserve, ReserveDailyLimit, RecordSpend, SaveBuckets
    <2>2. \A x \in Calls : CallInv(x)'
        BY <1>4, CallInvReserve
    <2>3. \A w \in Wallets : WalletInv(w)'
        BY <1>4, WalletReserve
    <2>4. QED
        BY <2>1, <2>2, <2>3
<1>5. ASSUME pc[c] \in Paying, ReleaseAndReturn(c),
             "lost_answer" \notin Faults => chain[c] \notin {"mempool", "mined"}
      PROVE  /\ MaxCrashes = 0 \/ disk' = buckets'
             /\ \A x \in Calls : CallInv(x)'
             /\ \A w \in Wallets : WalletInv(w)'
    <2>1. MaxCrashes = 0 \/ disk' = buckets'
        BY <1>5 DEF ReleaseAndReturn, ReleaseReservation, SaveBuckets, CapInv
    <2>2. \A x \in Calls : CallInv(x)'
        BY <1>5, CallInvRelease
    <2>3. \A w \in Wallets : WalletInv(w)'
        BY <1>5, WalletRelease
    <2>4. QED
        BY <2>1, <2>2, <2>3
<1>6. {"receipt", "done"} \subseteq Stages
    BY DEF Stages
<1>7. QED
    BY <1>1, <1>3, <1>4, <1>5, <1>6, StagesSplit DEF HandlerSteps

LEMMA CapStep ==
    ASSUME ~DiskMayFail \/ MaxCrashes = 0
    PROVE  CapInv /\ [Next]_vars => CapInv'
<1> SUFFICES ASSUME CapInv, [Next]_vars PROVE CapInv'
    OBVIOUS
<1>1. TypeOK'
    BY TypeStep DEF CapInv
<1>2. \A w \in Wallets : WalletInv(w)
    BY DEF CapInv
<1> SUFFICES /\ MaxCrashes = 0 \/ disk' = buckets'
             /\ \A x \in Calls : CallInv(x)'
             /\ \A w \in Wallets : WalletInv(w)'
    BY <1>1 DEF CapInv
<1>3. ASSUME NEW c \in Calls, Handler(c)
      PROVE  /\ MaxCrashes = 0 \/ disk' = buckets'
             /\ \A x \in Calls : CallInv(x)'
             /\ \A w \in Wallets : WalletInv(w)'
    BY <1>3, CapInvHandler
<1>4. ASSUME NEW c \in Calls, Outside(c)
      PROVE  /\ MaxCrashes = 0 \/ disk' = buckets'
             /\ \A x \in Calls : CallInv(x)'
             /\ \A w \in Wallets : WalletInv(w)'
    <2>1. UNCHANGED Ledger /\ disk' = disk
        BY <1>4 DEF Ledger, Outside, NodeAccepts, Mine, Revert, X402Settle, spendVars
    <2>2. \A w \in Wallets : WalletInv(w)'
        BY <1>2, <2>1, WalletUnchanged
    <2>3. \A x \in Calls : CallInv(x)'
        BY <1>4, CallInvOutside
    <2>4. QED
        BY <2>1, <2>2, <2>3 DEF Ledger, CapInv
<1>5. CASE MidnightPasses
    <2>1. day \in Nat /\ day' = day + 1
        BY <1>5 DEF CapInv, TypeOK, SpendTypeOK, MidnightPasses
    <2>2. \A x \in Calls : resDay[x] \in Nat /\ relDay[x] \in Nat
        BY DEF CapInv, TypeOK
    <2>3. \A x \in Calls : CallInv(x)'
        BY <1>5, <2>1, <2>2 DEF CapInv, CallInv, MidnightPasses, callVars
    <2>4. QED
        BY <1>5, <2>3, WalletMidnight DEF CapInv, MidnightPasses
<1>6. CASE Crash
    <2>1. MaxCrashes # 0
        BY <1>6 DEF Crash, CapInv, TypeOK
    <2>2. disk = buckets /\ buckets' = disk /\ disk' = disk
        BY <1>6, <2>1 DEF Crash, LoadBuckets, CapInv
    <2>3. UNCHANGED Ledger
        BY <1>6, <2>2 DEF Ledger, Crash, callVars
    <2>4. \A w \in Wallets : WalletInv(w)'
        BY <1>2, <2>3, WalletUnchanged
    <2>5. ASSUME NEW x \in Calls PROVE CallInv(x)'
        <3>1. CallInv(x)
            BY DEF CapInv
        <3>2. pc'[x] = pc[x] \/ pc'[x] = "dead"
            BY <1>6 DEF Crash
        <3>3. QED
            BY <1>6, <3>1, <3>2, StagesApart DEF CallInv, Crash, callVars
    <2>6. QED
        BY <2>2, <2>4, <2>5
<1>7. CASE UNCHANGED vars
    <2>1. UNCHANGED Ledger /\ disk' = disk
        BY <1>7 DEF Ledger, vars
    <2>2. \A w \in Wallets : WalletInv(w)'
        BY <1>2, <2>1, WalletUnchanged
    <2>3. \A x \in Calls : CallInv(x)'
        BY <1>7 DEF vars, CallInv, CapInv
    <2>4. QED
        BY <2>1, <2>2, <2>3 DEF Ledger, CapInv
<1>8. QED
    BY <1>3, <1>4, <1>5, <1>6, <1>7 DEF Next

LEMMA CapInit == Init => CapInv
<1> SUFFICES ASSUME Init PROVE CapInv
    OBVIOUS
<1>1. TypeOK
    BY TypeInit
<1>2. \A c \in Calls : CallInv(c)
    BY <1>1 DEF Init, SpendInit, CallInv, Before, Paying, TypeOK, Request
<1>3. ASSUME NEW w \in Wallets, NEW d \in 1..MaxDay
      PROVE  HeldUsd(w, d) = 0 /\ LateUsd(w, d) \in Nat /\ CurrentUsd(w) \in Nat
    <2>1. Holding(w, d) = {}
        BY DEF Holding, OfWallet, Init
    <2>2. CurrentUsd(w) \in Nat
        BY <1>1 DEF CurrentUsd, TypeOK, SpendTypeOK, Bucket
    <2>3. QED
        BY <2>1, <2>2, RequestedEmpty, UsdNat DEF HeldUsd
<1>4. \A w \in Wallets : WalletInv(w)
    BY <1>3 DEF WalletInv
<1>5. QED
    BY <1>1, <1>2, <1>4 DEF CapInv, Init, SpendInit

\* What is paid under a day's reservations is among what is held of them.
LEMMA PaidIsHeld ==
    ASSUME CapInv, NEW w \in Wallets, NEW d \in 1..MaxDay, NEW C \in SUBSET Calls,
           \A c \in C : paid[c] > 0 => c \in Holding(w, d) /\ paid[c] <= req[c].usd
    PROVE  PaidUsd(C) \in Nat /\ PaidUsd(C) <= HeldUsd(w, d)
<1> DEFINE usd == [c \in Calls |-> req[c].usd]
<1>1. Holding(w, d) \in SUBSET Calls
    BY DEF OfWallet, Holding
<1>2. ASSUME NEW c \in C
      PROVE  /\ paid[c] \in Nat
             /\ paid[c] > 0 => c \in Holding(w, d) /\ usd[c] \in Nat /\ paid[c] <= usd[c]
    BY <1>2 DEF CapInv, TypeOK, Request
<1> HIDE DEF usd
<1>3. Cardinality(DollarsOf(C, paid)) <= Cardinality(DollarsOf(Holding(w, d), usd))
    BY <1>1, <1>2, DollarsMonotone
<1>4. PaidUsd(C) \in Nat
    BY DollarsFinite DEF PaidUsd
<1>5. QED
    BY <1>3, <1>4 DEF PaidUsd, HeldUsd, RequestedUsd, usd

\* On every day, with any calls, wallets, crashes, midnights, lost answers and
\* unread challenges, what a wallet pays under the reservations that it keeps
\* is at most its limit plus the reservations of other days that were released
\* on that day, provided no failed save is followed by a crash.
THEOREM CapKeptUpToLateReleases ==
    ASSUME ~DiskMayFail \/ MaxCrashes = 0
    PROVE  Spec => []CapUpToLateReleases
<1>1. CapInv => CapUpToLateReleases
    <2> SUFFICES ASSUME CapInv, NEW w \in Wallets, NEW d \in 1..MaxDay
                 PROVE  PaidUsd(KeptPayers(w, d)) <= Limit + RequestedUsd(ReleasedLate(w, d))
        BY DEF CapUpToLateReleases
    <2>1. HeldUsd(w, d) <= Limit + LateUsd(w, d)
        BY DEF CapInv, WalletInv
    <2>2. /\ KeptPayers(w, d) \in SUBSET Calls
          /\ \A c \in KeptPayers(w, d) : c \in Holding(w, d) /\ paid[c] <= req[c].usd
        BY DEF KeptPayers, Holding, OfWallet
    <2>3. QED
        BY <2>1, <2>2, PaidIsHeld, UsdNat, WritePathAssumption, AccumulatorAssumption DEF LateUsd
<1>2. QED
    BY <1>1, CapInit, CapStep, PTL DEF Spec

\* Unless answers are lost, no payment that is on its way or landed has lost its
\* reservation, for any calls, days, crashes and unread challenges.
THEOREM LandedStaysHeld ==
    ASSUME "lost_answer" \notin Faults, ~DiskMayFail \/ MaxCrashes = 0
    PROVE  Spec => []LandedIsHeld
<1>1. CapInv => LandedIsHeld
    BY DEF CapInv, CallInv, LandedIsHeld
<1>2. QED
    BY <1>1, CapInit, CapStep, PTL DEF Spec

\* Within one UTC day, and without lost answers or unread challenges, the daily
\* cap holds: no interleaving of the three tools, with crashes at any await,
\* makes a wallet pay more than the limit.
THEOREM DailyCapKept ==
    ASSUME Faults = {}, ~DiskMayFail \/ MaxCrashes = 0, MaxDay = 1
    PROVE  Spec => []DailyCapHolds
<1>1. CapInv => DailyCapHolds
    <2> SUFFICES ASSUME CapInv, NEW w \in Wallets, NEW d \in 1..MaxDay
                 PROVE  PaidUsd({c \in OfWallet(w) : resDay[c] = d}) <= Limit
        BY DEF DailyCapHolds
    <2>1. \A c \in Calls : relDay[c] = d => resDay[c] = d
        BY DEF CapInv, CallInv, TypeOK
    <2>2. ReleasedLate(w, d) = {}
        BY <2>1 DEF ReleasedLate, OfWallet
    <2>3. LateUsd(w, d) = 0
        BY <2>2, RequestedEmpty DEF LateUsd
    <2>4. HeldUsd(w, d) <= Limit
        BY <2>3, AccumulatorAssumption DEF CapInv, WalletInv
    <2>5. {c \in OfWallet(w) : resDay[c] = d} \in SUBSET Calls
        BY DEF OfWallet
    <2>6. ASSUME NEW c \in OfWallet(w), resDay[c] = d, paid[c] > 0
          PROVE  c \in Holding(w, d) /\ paid[c] <= req[c].usd
        BY <2>6 DEF CapInv, CallInv, Holding, OfWallet
    <2>7. QED
        BY <2>4, <2>5, <2>6, PaidIsHeld, UsdNat, AccumulatorAssumption
<1>2. QED
    BY <1>1, CapInit, CapStep, PTL DEF Spec

-----------------------------------------------------------------------------
(* The counter is what is held                                             *)

(***************************************************************************)
(* The counter counts today, so its bucket is never of a day to come, and  *)
(* a release finds what it subtracts: today's counter is what is held      *)
(* today, from the first release of another day's reservation on at most   *)
(* (BooksInv, on top of CapInv).                                           *)
(***************************************************************************)
BooksInv ==
    /\ CapInv
    /\ \A w \in Wallets : buckets[w].date <= day
    /\ BooksBalance

LEMMA BooksReserve ==
    ASSUME BooksInv, NEW c \in Calls, NEW stage, pc[c] \in Before, Reserve(c, stage),
           NEW w \in Wallets, ReleasedLate(w, day)' = {}
    PROVE  CurrentUsd(w)' = RequestedUsd(Holding(w, day))'
<1> DEFINE u == req[c].usd
<1>1. TypeOK /\ CallInv(c) /\ BooksBalance
  BY DEF BooksInv, CapInv
<1>2. ~held[c] /\ relDay[c] = 0
  BY <1>1 DEF CallInv
<1>3. /\ req' = req /\ day' = day /\ relDay' = relDay
      /\ held' = [held EXCEPT ![c] = TRUE] /\ resDay' = [resDay EXCEPT ![c] = day]
      /\ held \in [Calls -> BOOLEAN] /\ resDay \in [Calls -> 0..MaxDay]
      /\ day \in 1..MaxDay
  BY <1>1 DEF Reserve, TypeOK, SpendTypeOK
<1>4. ReleasedLate(w, day) = {}
  BY <1>2, <1>3 DEF ReleasedLate, OfWallet
<1>5. CurrentUsd(w) = HeldUsd(w, day)
  BY <1>1, <1>4 DEF BooksBalance, HeldUsd
<1>6. RequestedUsd(Holding(w, day))' = RequestedUsd(Holding(w, day)')
  BY <1>3 DEF RequestedUsd
<1>7. buckets' = [buckets EXCEPT ![req[c].wallet] =
                    [date |-> day, total |-> CurrentUsd(req[c].wallet) + u]]
  BY DEF Reserve, ReserveDailyLimit, RecordSpend
<1>8. CASE w = req[c].wallet
  <2>1. Holding(w, day)' = Holding(w, day) \cup {c}
    BY <1>3, <1>8 DEF Holding, OfWallet
  <2>2. c \notin Holding(w, day) /\ Holding(w, day) \in SUBSET Calls
    BY <1>2 DEF Holding, OfWallet
  <2>3. RequestedUsd(Holding(w, day) \cup {c}) = HeldUsd(w, day) + u
    BY <1>1, <2>2, RequestedAdd DEF HeldUsd
  <2>4. CurrentUsd(w)' = CurrentUsd(w) + u
    BY <1>1, <1>3, <1>7, <1>8 DEF CurrentUsd, TypeOK, SpendTypeOK
  <2> QED
    BY <1>5, <1>6, <2>1, <2>3, <2>4
<1>9. CASE w # req[c].wallet
  <2>1. Holding(w, day)' = Holding(w, day)
    BY <1>2, <1>3, <1>9 DEF Holding, OfWallet
  <2>2. CurrentUsd(w)' = CurrentUsd(w)
    BY <1>1, <1>3, <1>7, <1>9 DEF CurrentUsd, TypeOK, SpendTypeOK
  <2> QED
    BY <1>5, <1>6, <2>1, <2>2 DEF HeldUsd
<1> QED
  BY <1>8, <1>9

\* The bucket that a release of today's reservation subtracts from holds it.
LEMMA BooksRelease ==
    ASSUME BooksInv, NEW c \in Calls, pc[c] \in Paying, ReleaseAndReturn(c),
           NEW w \in Wallets, ReleasedLate(w, day)' = {}
    PROVE  CurrentUsd(w)' = RequestedUsd(Holding(w, day))'
<1> DEFINE u == req[c].usd
<1>1. TypeOK /\ CallInv(c) /\ BooksBalance
  BY DEF BooksInv, CapInv
<1>2. held[c] /\ resDay[c] # 0 /\ relDay[c] = 0
  BY <1>1 DEF CallInv
<1>3. /\ req' = req /\ day' = day /\ resDay' = resDay
      /\ held' = [held EXCEPT ![c] = FALSE] /\ relDay' = [relDay EXCEPT ![c] = day]
      /\ held \in [Calls -> BOOLEAN] /\ relDay \in [Calls -> 0..MaxDay]
      /\ day \in 1..MaxDay
  BY <1>1 DEF ReleaseAndReturn, TypeOK, SpendTypeOK
<1>4. /\ ReleasedLate(w, day) = {}
      /\ w = req[c].wallet => resDay[c] = day
  BY <1>2, <1>3 DEF ReleasedLate, OfWallet
<1>5. CurrentUsd(w) = HeldUsd(w, day)
  BY <1>1, <1>4 DEF BooksBalance, HeldUsd
<1>6. RequestedUsd(Holding(w, day))' = RequestedUsd(Holding(w, day)')
  BY <1>3 DEF RequestedUsd
<1>7. CASE w = req[c].wallet
  <2>1. Holding(w, day) = Holding(w, day)' \cup {c} /\ c \notin Holding(w, day)'
    BY <1>2, <1>3, <1>4, <1>7 DEF Holding, OfWallet
  <2>2. Holding(w, day)' \in SUBSET Calls
    BY <2>1 DEF Holding, OfWallet
  <2>3. HeldUsd(w, day) = RequestedUsd(Holding(w, day)') + u
    BY <1>1, <2>1, <2>2, RequestedAdd DEF HeldUsd
  <2>4. RequestedUsd(Holding(w, day)') \in Nat
    BY <2>2, RequestedNat
  <2>5. u \in Nat \ {0} /\ CurrentUsd(w) >= u
    BY <1>1, <1>5, <2>3, <2>4 DEF TypeOK, Request
  <2>6. buckets[w].date = day /\ buckets[w].total = CurrentUsd(w)
    BY <2>5 DEF CurrentUsd
  <2>7. buckets' = [buckets EXCEPT ![w].total = IF @ > u THEN @ - u ELSE 0]
    BY <1>7, <2>6 DEF ReleaseAndReturn, ReleaseReservation
  <2>8. CurrentUsd(w) \in Nat
    BY <1>5, UsdNat
  <2>9. CurrentUsd(w)' = CurrentUsd(w) - u
    BY <1>1, <1>3, <2>5, <2>6, <2>7, <2>8 DEF CurrentUsd, TypeOK, SpendTypeOK, Bucket
  <2> QED
    BY <1>5, <1>6, <2>3, <2>4, <2>5, <2>8, <2>9
<1>8. CASE w # req[c].wallet
  <2>1. Holding(w, day)' = Holding(w, day)
    BY <1>3, <1>8 DEF Holding, OfWallet
  <2>2. CurrentUsd(w)' = CurrentUsd(w)
    BY <1>1, <1>3, <1>8
    DEF ReleaseAndReturn, ReleaseReservation, CurrentUsd, TypeOK, SpendTypeOK
  <2> QED
    BY <1>5, <1>6, <2>1, <2>2 DEF HeldUsd
<1> QED
  BY <1>7, <1>8

\* A step that leaves the ledger alone leaves the books alone.
LEMMA BooksUnchanged ==
    ASSUME BooksInv, UNCHANGED Ledger
    PROVE  BooksBalance' /\ \A w \in Wallets : buckets'[w].date <= day'
BY DEF BooksInv, BooksBalance, Ledger, RequestedUsd, Holding, ReleasedLate, OfWallet, CurrentUsd

LEMMA BooksStep ==
    ASSUME ~DiskMayFail \/ MaxCrashes = 0
    PROVE  BooksInv /\ [Next]_vars => BooksInv'
<1> SUFFICES ASSUME BooksInv, [Next]_vars
             PROVE  BooksBalance' /\ \A w \in Wallets : buckets'[w].date <= day'
  BY CapStep DEF BooksInv
<1>1. TypeOK /\ CapInv
  BY DEF BooksInv, CapInv
<1>2. ASSUME NEW c \in Calls, Handler(c)
      PROVE  BooksBalance' /\ \A w \in Wallets : buckets'[w].date <= day'
  <2>1. HandlerSteps(c)
    BY <1>2, HandlerIsOneOfFour
  <2>2. ASSUME NEW stage, Proceed(c, stage) \/ ApprovalMined(c, stage)
        PROVE  BooksBalance' /\ \A w \in Wallets : buckets'[w].date <= day'
    BY <2>2, BooksUnchanged DEF Ledger, Proceed, ApprovalMined, spendVars, callVars
  <2>3. ASSUME pc[c] \in Before, NEW stage \in {"send", "pay"}, Reserve(c, stage)
        PROVE  BooksBalance' /\ \A w \in Wallets : buckets'[w].date <= day'
    <3>1. \A w \in Wallets : buckets'[w].date <= day'
      BY <1>1, <2>3
      DEF BooksInv, Reserve, ReserveDailyLimit, RecordSpend, TypeOK, SpendTypeOK
    <3> QED
      BY <2>3, <3>1, BooksReserve DEF BooksBalance
  <2>4. ASSUME pc[c] \in Paying, ReleaseAndReturn(c)
        PROVE  BooksBalance' /\ \A w \in Wallets : buckets'[w].date <= day'
    <3>1. \A w \in Wallets : buckets'[w].date = buckets[w].date
      BY <1>1, <2>4 DEF ReleaseAndReturn, ReleaseReservation, TypeOK, SpendTypeOK, Bucket
    <3>2. \A w \in Wallets : buckets'[w].date <= day'
      BY <2>4, <3>1 DEF BooksInv, ReleaseAndReturn
    <3> QED
      BY <2>4, <3>2, BooksRelease DEF BooksBalance
  <2> QED
    BY <2>1, <2>2, <2>3, <2>4 DEF HandlerSteps
<1>3. ASSUME NEW c \in Calls, Outside(c)
      PROVE  BooksBalance' /\ \A w \in Wallets : buckets'[w].date <= day'
  BY <1>3, BooksUnchanged DEF Ledger, Outside, NodeAccepts, Mine, Revert, X402Settle, spendVars
<1>4. CASE MidnightPasses
  <2>1. /\ day' = day + 1 /\ day \in Nat
        /\ UNCHANGED <<buckets, req, held, resDay, relDay>>
    BY <1>1, <1>4 DEF MidnightPasses, callVars, TypeOK, SpendTypeOK
  <2>2. \A w \in Wallets : buckets[w].date \in Nat /\ buckets[w].date <= day
    BY <1>1 DEF BooksInv, TypeOK, SpendTypeOK, Bucket
  <2>3. \A w \in Wallets : CurrentUsd(w)' = 0 /\ buckets'[w].date <= day'
    BY <2>1, <2>2 DEF CurrentUsd
  <2>4. \A c \in Calls : resDay[c] \in Nat /\ resDay[c] <= day
    BY <1>1 DEF CapInv, CallInv, TypeOK
  <2>5. ASSUME NEW w \in Wallets
        PROVE  RequestedUsd(Holding(w, day))' = RequestedUsd({})
    <3>1. Holding(w, day)' = {}
      BY <2>1, <2>4 DEF Holding, OfWallet
    <3>2. RequestedUsd(Holding(w, day))' = RequestedUsd(Holding(w, day)')
      BY <2>1 DEF RequestedUsd
    <3> QED
      BY <3>1, <3>2
  <2> QED
    BY <2>3, <2>5, RequestedEmpty DEF BooksBalance
<1>5. CASE Crash
  <2>1. buckets' = buckets
    BY <1>1, <1>5 DEF Crash, LoadBuckets, CapInv, TypeOK
  <2> QED
    BY <1>5, <2>1, BooksUnchanged DEF Ledger, Crash, callVars
<1>6. CASE UNCHANGED vars
  BY <1>6, BooksUnchanged DEF Ledger, vars
<1> QED
  BY <1>2, <1>3, <1>4, <1>5, <1>6 DEF Next

LEMMA BooksInit == Init => BooksInv
<1> SUFFICES ASSUME Init PROVE BooksInv
  OBVIOUS
<1>1. \A w \in Wallets : Holding(w, day) = {}
  BY DEF Init, Holding, OfWallet
<1>2. ASSUME NEW w \in Wallets
      PROVE  CurrentUsd(w) = 0 /\ buckets[w].date <= day
  <2>1. day = 1 /\ buckets[w] = NoBucket
    BY DEF Init, SpendInit
  <2>2. buckets[w].date = 0
    BY <2>1 DEF NoBucket
  <2> QED
    BY <2>1, <2>2 DEF CurrentUsd
<1>3. BooksBalance
  BY <1>1, <1>2, RequestedEmpty DEF BooksBalance
<1> QED
  BY <1>2, <1>3, CapInit DEF BooksInv

\* Today's counter is the sum of today's reservations that are still held, each
\* counted once and released once, for any calls, wallets, crashes and lost
\* answers, until a reservation of another day is released on it.
THEOREM BooksKeepBalance ==
    ASSUME ~DiskMayFail \/ MaxCrashes = 0
    PROVE  Spec => []BooksBalance
<1>1. BooksInv => BooksBalance
  BY DEF BooksInv
<1> QED
  BY <1>1, BooksInit, BooksStep, PTL DEF Spec

-----------------------------------------------------------------------------
(* The router's allowance                                                  *)

(***************************************************************************)
(* Only a swap of a token asks for an allowance, before it pays anything,  *)
(* so what the router may pull always stands for one swap that has not     *)
(* happened: an approval replaces the allowance by its own amount, and the *)
(* swap that it stands for uses it up.                                     *)
(***************************************************************************)
SwapInv(c) ==
    /\ pc[c] \in Before => chain[c] = "none"
    /\ pc[c] \in {"allowance", "approving"} => req[c].tool = "swap_erc20"
    /\ approved[c] => req[c].tool = "swap_erc20"

AllowanceInv ==
    /\ TypeOK
    /\ \A c \in Calls : SwapInv(c)
    /\ AllowanceIsOneSwap

\* What a handler's step does to the allowance.
AllowanceStep(c) ==
    \/ UNCHANGED <<allowance, approved>>
    \/ /\ pc[c] = "approving"
       /\ \E stage \in {"simulate", "done"} : ApprovalMined(c, stage)

LEMMA HandlerAllowance ==
    ASSUME TypeOK, NEW c \in Calls, SwapInv(c), Handler(c)
    PROVE  /\ AllowanceStep(c)
           /\ UNCHANGED <<req, chain>>
           /\ \A x \in Calls \ {c} : pc'[x] = pc[x]
           /\ pc'[c] \in Before => pc[c] \in Before
           /\ pc'[c] \in {"allowance", "approving"} => req[c].tool = "swap_erc20"
<1> USE DEF AllowanceStep, Proceed, Reserve, ReleaseAndReturn, Goto, spendVars, callVars
<1>1. /\ UNCHANGED <<req, chain>>
      /\ \A x \in Calls \ {c} : pc'[x] = pc[x]
      /\ pc'[c] \in Before => pc[c] \in Before
  <2>1. HandlerSteps(c) /\ pc \in [Calls -> Stages]
    BY HandlerIsOneOfFour DEF TypeOK
  <2>2. {"receipt", "done", "send", "pay"} \cap Before = {}
    BY DEF Before
  <2> QED
    BY <2>1, <2>2 DEF HandlerSteps, ApprovalMined
<1>2. /\ AllowanceStep(c)
      /\ pc'[c] \in {"allowance", "approving"} => req[c].tool = "swap_erc20"
  <2>1. pc \in [Calls -> Stages]
    BY DEF TypeOK
  <2>2. CASE StartCall(c)
    BY <2>1, <2>2 DEF StartCall
  <2>3. CASE PaymentGate(c) \/ PaymentDecide(c)
    BY <2>1, <2>3 DEF PaymentGate, PaymentDecide, Return
  <2>4. CASE SwapGate(c) \/ SwapRoute(c)
    BY <2>1, <2>4 DEF SwapGate, SwapRoute, Return
  <2>5. CASE SwapAllowance(c)
    BY <2>1, <2>5 DEF SwapAllowance, SwapInv, Return
  <2>6. CASE SwapSimulate(c)
    BY <2>1, <2>6 DEF SwapSimulate, Return
  <2>7. CASE SwapApprove(c)
    BY <2>1, <2>7 DEF SwapApprove, ApprovalMined, Return
  <2>8. CASE X402Probe(c) \/ X402Respond(c)
    BY <2>1, <2>8 DEF X402Probe, X402Respond, Return
  <2>9. CASE Broadcast(c)
    BY <2>1, <2>9 DEF Broadcast, SendReturns, SendThrows, ReceiptReturns, ReceiptThrows, Return
  <2> QED
    BY <2>2, <2>3, <2>4, <2>5, <2>6, <2>7, <2>8, <2>9 DEF Handler, PaymentBroadcast, SwapBroadcast
<1> QED
  BY <1>1, <1>2

LEMMA AllowanceHandler ==
    ASSUME AllowanceInv, NEW c \in Calls, Handler(c)
    PROVE  (\A x \in Calls : SwapInv(x)') /\ AllowanceIsOneSwap'
<1>1. TypeOK /\ SwapInv(c) /\ AllowanceIsOneSwap
  BY DEF AllowanceInv
<1>2. /\ AllowanceStep(c)
      /\ UNCHANGED <<req, chain>>
      /\ \A x \in Calls \ {c} : pc'[x] = pc[x]
      /\ pc'[c] \in Before => pc[c] \in Before
      /\ pc'[c] \in {"allowance", "approving"} => req[c].tool = "swap_erc20"
  BY <1>1, HandlerAllowance
<1>3. CASE UNCHANGED <<allowance, approved>>
  <2>1. AllowanceIsOneSwap'
    BY <1>1, <1>2, <1>3 DEF AllowanceIsOneSwap, OfWallet
  <2>2. \A x \in Calls : SwapInv(x)'
    BY <1>2, <1>3 DEF AllowanceInv, SwapInv
  <2> QED
    BY <2>1, <2>2
<1>4. CASE /\ pc[c] = "approving"
           /\ \E stage \in {"simulate", "done"} : ApprovalMined(c, stage)
  <2>1. /\ allowance' = [allowance EXCEPT ![req[c].wallet] = req[c].usd]
        /\ approved' = [approved EXCEPT ![c] = TRUE]
    BY <1>4 DEF ApprovalMined
  <2>2. /\ req[c].wallet \in Wallets /\ req[c].usd \in Nat
        /\ allowance \in [Wallets -> Nat] /\ approved \in [Calls -> BOOLEAN]
    BY <1>1 DEF TypeOK, Request
  <2>3. chain[c] = "none" /\ req[c].tool = "swap_erc20"
    BY <1>1, <1>4 DEF SwapInv, Before
  <2>4. approved'[c] /\ \A x \in Calls \ {c} : approved'[x] = approved[x]
    BY <2>1, <2>2
  <2>5. ASSUME NEW w \in Wallets, allowance'[w] > 0
        PROVE  \E x \in OfWallet(w)' :
                  approved'[x] /\ chain'[x] # "mined" /\ allowance'[w] <= req'[x].usd
    <3>1. CASE w = req[c].wallet
      <4>1. c \in OfWallet(w)' /\ allowance'[w] = req[c].usd
        BY <1>2, <2>1, <2>2, <3>1 DEF OfWallet
      <4> QED
        BY <1>2, <2>2, <2>3, <2>4, <4>1
    <3>2. CASE w # req[c].wallet
      <4>1. allowance'[w] = allowance[w]
        BY <2>1, <2>2, <3>2
      <4>2. PICK x \in OfWallet(w) :
              approved[x] /\ chain[x] # "mined" /\ allowance[w] <= req[x].usd
        BY <1>1, <2>5, <4>1 DEF AllowanceIsOneSwap
      <4>3. x \in OfWallet(w)' /\ x # c
        BY <1>2, <3>2, <4>2 DEF OfWallet
      <4> QED
        BY <1>2, <2>4, <4>1, <4>2, <4>3 DEF OfWallet
    <3> QED
      BY <3>1, <3>2
  <2>6. \A x \in Calls : SwapInv(x)'
    BY <1>2, <2>3, <2>4 DEF AllowanceInv, SwapInv
  <2> QED
    BY <2>5, <2>6 DEF AllowanceIsOneSwap
<1> QED
  BY <1>2, <1>3, <1>4 DEF AllowanceStep

\* A swap that is mined uses up the allowance that stands for it.
LEMMA AllowanceMine ==
    ASSUME AllowanceInv, NEW c \in Calls, Mine(c)
    PROVE  AllowanceIsOneSwap'
<1>1. TypeOK /\ AllowanceIsOneSwap
  BY DEF AllowanceInv
<1>2. /\ UNCHANGED <<req, approved>>
      /\ \A x \in Calls \ {c} : chain'[x] = chain[x]
      /\ req[c].wallet \in Wallets /\ req[c].usd \in Nat \ {0}
      /\ \A x \in Calls : req[x].usd \in Nat
      /\ allowance \in [Wallets -> Nat]
  BY <1>1 DEF Mine, TypeOK, Request
<1> SUFFICES ASSUME NEW w \in Wallets, allowance'[w] > 0
             PROVE  \E x \in OfWallet(w)' :
                       approved'[x] /\ chain'[x] # "mined" /\ allowance'[w] <= req'[x].usd
  BY DEF AllowanceIsOneSwap
<1>3. /\ allowance'[w] \in Nat /\ allowance'[w] <= allowance[w]
      /\ req[c].tool = "swap_erc20" /\ w = req[c].wallet =>
            allowance'[w] = allowance[w] - req[c].usd
  BY <1>2 DEF Mine
<1>4. PICK x \in OfWallet(w) :
         approved[x] /\ chain[x] # "mined" /\ allowance[w] <= req[x].usd
  BY <1>1, <1>2, <1>3 DEF AllowanceIsOneSwap
<1>5. x # c
  <2>1. SUFFICES ASSUME x = c PROVE FALSE
    OBVIOUS
  <2>2. req[c].tool = "swap_erc20" /\ w = req[c].wallet
    BY <1>4, <2>1 DEF AllowanceInv, SwapInv, OfWallet
  <2> QED
    BY <1>2, <1>3, <1>4, <2>1, <2>2
<1>6. x \in Calls /\ x \in OfWallet(w)'
  BY <1>2, <1>4 DEF OfWallet
<1>7. req'[x].usd = req[x].usd /\ chain'[x] = chain[x] /\ approved'[x] = approved[x]
  BY <1>2, <1>5, <1>6
<1>8. allowance'[w] <= req'[x].usd
  BY <1>2, <1>3, <1>4, <1>6, <1>7
<1> QED
  BY <1>4, <1>6, <1>7, <1>8

LEMMA AllowanceStepKeeps == AllowanceInv /\ [Next]_vars => AllowanceInv'
<1> SUFFICES ASSUME AllowanceInv, [Next]_vars
             PROVE  (\A x \in Calls : SwapInv(x)') /\ AllowanceIsOneSwap'
  BY TypeStep DEF AllowanceInv
<1>1. TypeOK /\ AllowanceIsOneSwap /\ \A x \in Calls : SwapInv(x)
  BY DEF AllowanceInv
<1>2. ASSUME NEW c \in Calls, Handler(c)
      PROVE  (\A x \in Calls : SwapInv(x)') /\ AllowanceIsOneSwap'
  BY <1>2, AllowanceHandler
<1>3. ASSUME NEW c \in Calls, Outside(c)
      PROVE  (\A x \in Calls : SwapInv(x)') /\ AllowanceIsOneSwap'
  <2>1. /\ UNCHANGED <<req, pc, approved>>
        /\ pc[c] \notin Before
        /\ \A x \in Calls \ {c} : chain'[x] = chain[x]
    BY <1>1, <1>3 DEF Outside, NodeAccepts, Mine, Revert, X402Settle, SwapInv, TypeOK, Before
  <2>2. \A x \in Calls : SwapInv(x)'
    BY <1>1, <2>1 DEF SwapInv
  <2>3. CASE Mine(c)
    BY <2>2, <2>3, AllowanceMine
  <2>4. CASE NodeAccepts(c) \/ Revert(c) \/ X402Settle(c)
    <3>1. allowance' = allowance
      BY <2>4 DEF NodeAccepts, Revert, X402Settle
    <3>2. \A x \in Calls : approved[x] /\ chain[x] # "mined" => chain'[x] # "mined"
      BY <1>1, <2>1, <2>4 DEF NodeAccepts, Revert, X402Settle, SwapInv, TypeOK
    <3>3. AllowanceIsOneSwap'
      BY <1>1, <2>1, <3>1, <3>2 DEF AllowanceIsOneSwap, OfWallet
    <3> QED
      BY <2>2, <3>3
  <2> QED
    BY <1>3, <2>3, <2>4 DEF Outside
<1>4. CASE MidnightPasses \/ UNCHANGED vars
  <2>1. UNCHANGED <<req, pc, approved, chain, allowance>>
    BY <1>4 DEF MidnightPasses, vars, callVars
  <2> QED
    BY <1>1, <2>1 DEF SwapInv, AllowanceIsOneSwap, OfWallet
<1>5. CASE Crash
  <2>1. UNCHANGED <<req, approved, chain, allowance>>
    BY <1>5 DEF Crash, callVars
  <2>2. \A x \in Calls : pc'[x] = pc[x] \/ pc'[x] = "dead"
    BY <1>5 DEF Crash
  <2>3. "dead" \notin Before /\ "dead" \notin {"allowance", "approving"}
    BY DEF Before
  <2>4. \A x \in Calls : SwapInv(x)'
    BY <1>1, <2>1, <2>2, <2>3 DEF SwapInv
  <2> QED
    BY <1>1, <2>1, <2>4 DEF AllowanceIsOneSwap, OfWallet
<1> QED
  BY <1>2, <1>3, <1>4, <1>5 DEF Next

\* Interleaved swaps of a wallet never add their allowances up: whatever is
\* approved, mined, lost or crashes, what the router may still pull is within
\* one approved swap that has not happened (the approval of exactly the input
\* in execute_swap).
THEOREM AllowanceStaysOneSwap == Spec => []AllowanceIsOneSwap
<1>1. Init => AllowanceInv
  BY TypeInit DEF Init, AllowanceInv, SwapInv, AllowanceIsOneSwap
<1>2. AllowanceInv => AllowanceIsOneSwap
  BY DEF AllowanceInv
<1> QED
  BY <1>1, <1>2, AllowanceStepKeeps, PTL DEF Spec

-----------------------------------------------------------------------------
(* The write path implements the ledger of DailyBudget                     *)

(***************************************************************************)
(* As long as no answer is lost, what is mined is held, so a call's phase  *)
(* in the ledger moves only forward: a reservation grants, a release gives *)
(* back, a mined transaction or a settled payment spends, and every other  *)
(* step leaves the ledger alone.                                           *)
(***************************************************************************)
Grants == [c \in Calls |-> GrantOf(c)]

\* What the ledger has at stake on a day is what is held of it.
LEMMA StakeIsHeld ==
    ASSUME CapInv, "lost_answer" \notin Faults, NEW w \in Wallets
    PROVE  /\ Budget!StakeUsd(w) = HeldUsd(w, day)
           /\ Budget!LateUsd(w) = LateUsd(w, day)
<1>1. day # 0
  BY DEF CapInv, TypeOK, SpendTypeOK
<1>2. ASSUME NEW c \in Calls
      PROVE  /\ Grants[c].wallet = req[c].wallet /\ Grants[c].usd = req[c].usd
             /\ Grants[c].granted = resDay[c] /\ Grants[c].returned = relDay[c]
             /\ resDay[c] = day => (Grants[c].phase \in {"granted", "spent"} <=> held[c])
  BY <1>1 DEF Grants, GrantOf, CapInv, CallInv
<1> HIDE DEF Grants
<1> DEFINE usd == [c \in Calls |-> req[c].usd]
           dollars(C) == {d \in C \X (1..MaxAmount) : d[2] <= Grants[d[1]].usd}
           stake == {c \in {x \in Calls : Grants[x].wallet = w} :
                        Grants[c].granted = day /\ Grants[c].phase \in {"granted", "spent"}}
           late == {c \in {x \in Calls : Grants[x].wallet = w} :
                        Grants[c].returned = day /\ Grants[c].granted # day}
<1>3. stake = Holding(w, day) /\ late = ReleasedLate(w, day)
  BY <1>2 DEF Holding, ReleasedLate, OfWallet
<1>4. ASSUME NEW C \in SUBSET Calls
      PROVE  dollars(C) = DollarsOf(C, usd)
  <2>1. \A c \in C : Grants[c].usd = usd[c]
    BY <1>2
  <2> HIDE DEF usd
  <2> QED
    BY <2>1 DEF DollarsOf
<1>5. Holding(w, day) \in SUBSET Calls /\ ReleasedLate(w, day) \in SUBSET Calls
  BY DEF Holding, ReleasedLate, OfWallet
<1>6. Budget!StakeUsd(w) = Cardinality(dollars(stake)) /\ Budget!LateUsd(w) = Cardinality(dollars(late))
  BY DEF Budget!StakeUsd, Budget!LateUsd, Budget!Dollars, Budget!Of, Grants, Budget!Cardinality, Cardinality
<1> QED
  BY <1>3, <1>4, <1>5, <1>6 DEF HeldUsd, LateUsd, RequestedUsd

LEMMA BudgetInit == Init => Budget!Init
<1> SUFFICES ASSUME Init PROVE Budget!Init
  OBVIOUS
<1>1. TypeOK
  BY TypeInit
<1>2. ASSUME NEW c \in Calls
      PROVE  GrantOf(c) \in [phase : Budget!Phases, wallet : Wallets, usd : 1..MaxAmount,
                             granted : 0..MaxDay, returned : 0..MaxDay]
  BY <1>1 DEF GrantOf, Budget!Phases, TypeOK, Request
<1>3. \A c \in Calls :
         GrantOf(c).phase = "none" /\ GrantOf(c).granted = 0 /\ GrantOf(c).returned = 0
  BY DEF Init, GrantOf
<1>4. day = 1
  BY DEF Init, SpendInit
<1> QED
  BY <1>2, <1>3, <1>4 DEF Budget!Init, Budget!GrantType

\* A step that changes no call's grant, or one call's only.
LEMMA GrantsStay ==
    ASSUME \A x \in Calls : GrantOf(x)' = GrantOf(x)
    PROVE  Grants' = Grants
BY DEF Grants

LEMMA GrantsMove ==
    ASSUME NEW c \in Calls, NEW g, GrantOf(c)' = g,
           \A x \in Calls \ {c} : GrantOf(x)' = GrantOf(x)
    PROVE  Grants' = [Grants EXCEPT ![c] = g]
BY DEF Grants

LEMMA BudgetGrant ==
    ASSUME CapInv, "lost_answer" \notin Faults,
           NEW c \in Calls, NEW stage, pc[c] \in Before, Reserve(c, stage)
    PROVE  Budget!Grant(c)
<1>1. TypeOK /\ CallInv(c) /\ WalletInv(req[c].wallet)
  BY DEF CapInv, TypeOK, Request
<1>2. /\ resDay[c] = 0 /\ chain[c] # "mined" /\ day # 0 /\ day \in 1..MaxDay
      /\ req[c].wallet \in Wallets /\ req[c].usd \in Nat
      /\ CurrentUsd(req[c].wallet) \in Nat
  BY <1>1 DEF CallInv, TypeOK, SpendTypeOK, Request, CurrentUsd, Bucket
<1>3. /\ UNCHANGED <<day, req, chain, relDay>>
      /\ held' = [held EXCEPT ![c] = TRUE] /\ resDay' = [resDay EXCEPT ![c] = day]
      /\ held \in [Calls -> BOOLEAN] /\ resDay \in [Calls -> 0..MaxDay]
      /\ CurrentUsd(req[c].wallet) + req[c].usd <= Limit
  BY <1>1 DEF Reserve, ReserveDailyLimit, CheckDailyLimit, TypeOK
<1> DEFINE g == [phase |-> "granted", wallet |-> req[c].wallet, usd |-> req[c].usd,
                 granted |-> day, returned |-> relDay[c]]
<1>4. Grants' = [Grants EXCEPT ![c] = g]
  <2>1. GrantOf(c)' = g
    BY <1>2, <1>3 DEF GrantOf
  <2>2. \A x \in Calls \ {c} : GrantOf(x)' = GrantOf(x)
    BY <1>3 DEF GrantOf
  <2> HIDE DEF g
  <2> QED
    BY <2>1, <2>2, GrantsMove
<1>5. Grants[c] = [phase |-> "none", wallet |-> req[c].wallet, usd |-> req[c].usd,
                   granted |-> 0, returned |-> relDay[c]]
  BY <1>2 DEF Grants, GrantOf
<1>6. [Grants EXCEPT ![c] = g] = [Grants EXCEPT ![c].phase = "granted", ![c].granted = day]
  <2> DEFINE r == [phase |-> "granted", wallet |-> req[c].wallet, usd |-> req[c].usd,
                   granted |-> 0, returned |-> relDay[c]]
  <2>1. [Grants[c] EXCEPT !.phase = "granted"] = r
    BY <1>5
  <2>2. g = [r EXCEPT !.granted = day]
    OBVIOUS
  <2> HIDE DEF g, r
  <2>3. g = [Grants[c] EXCEPT !.phase = "granted", !.granted = day]
    BY <2>1, <2>2
  <2> QED
    BY <2>3 DEF Grants
<1>7. Budget!StakeUsd(req[c].wallet) + req[c].usd <= Limit + Budget!LateUsd(req[c].wallet)
  <2>1. HeldUsd(req[c].wallet, day) <= CurrentUsd(req[c].wallet) + LateUsd(req[c].wallet, day)
    BY <1>1, <1>2 DEF WalletInv
  <2> QED
    BY <1>2, <1>3, <2>1, StakeIsHeld, UsdNat
<1> QED
  BY <1>3, <1>4, <1>5, <1>6, <1>7 DEF Budget!Grant, Grants

LEMMA BudgetGiveBack ==
    ASSUME CapInv, "lost_answer" \notin Faults,
           NEW c \in Calls, pc[c] \in Paying, ReleaseAndReturn(c),
           chain[c] \notin {"mempool", "mined"}
    PROVE  Budget!GiveBack(c)
<1>1. TypeOK /\ CallInv(c)
  BY DEF CapInv
<1>2. held[c] /\ resDay[c] # 0
  BY <1>1 DEF CallInv
<1>3. /\ UNCHANGED <<day, req, chain, resDay>>
      /\ held' = [held EXCEPT ![c] = FALSE] /\ relDay' = [relDay EXCEPT ![c] = day]
      /\ held \in [Calls -> BOOLEAN] /\ relDay \in [Calls -> 0..MaxDay]
  BY <1>1 DEF ReleaseAndReturn, TypeOK
<1> DEFINE g == [phase |-> "returned", wallet |-> req[c].wallet, usd |-> req[c].usd,
                 granted |-> resDay[c], returned |-> day]
<1>4. Grants' = [Grants EXCEPT ![c] = g]
  <2>1. GrantOf(c)' = g
    BY <1>2, <1>3 DEF GrantOf
  <2>2. \A x \in Calls \ {c} : GrantOf(x)' = GrantOf(x)
    BY <1>3 DEF GrantOf
  <2> HIDE DEF g
  <2> QED
    BY <2>1, <2>2, GrantsMove
<1>5. Grants[c] = [phase |-> "granted", wallet |-> req[c].wallet, usd |-> req[c].usd,
                   granted |-> resDay[c], returned |-> relDay[c]]
  BY <1>2 DEF Grants, GrantOf
<1>6. [Grants EXCEPT ![c] = g] = [Grants EXCEPT ![c].phase = "returned", ![c].returned = day]
  <2> DEFINE r == [phase |-> "returned", wallet |-> req[c].wallet, usd |-> req[c].usd,
                   granted |-> resDay[c], returned |-> relDay[c]]
  <2>1. [Grants[c] EXCEPT !.phase = "returned"] = r
    BY <1>5
  <2>2. g = [r EXCEPT !.returned = day]
    OBVIOUS
  <2> HIDE DEF g, r
  <2>3. g = [Grants[c] EXCEPT !.phase = "returned", !.returned = day]
    BY <2>1, <2>2
  <2> QED
    BY <2>3 DEF Grants
<1> QED
  BY <1>3, <1>4, <1>5, <1>6 DEF Budget!GiveBack, Grants

\* What is mined or settled was granted, and is spent for good.
LEMMA BudgetSpend ==
    ASSUME CapInv, "lost_answer" \notin Faults,
           NEW c \in Calls, Mine(c) \/ X402Settle(c)
    PROVE  Budget!Spend(c)
<1>1. TypeOK /\ CallInv(c)
  BY DEF CapInv
<1>2. held[c] /\ resDay[c] # 0 /\ chain[c] # "mined"
  <2>1. "pay" \in Paying
    BY DEF Paying
  <2> QED
    BY <1>1, <2>1 DEF CallInv, Mine, X402Settle
<1>3. /\ UNCHANGED <<day, req, held, resDay, relDay>>
      /\ chain' = [chain EXCEPT ![c] = "mined"] /\ DOMAIN chain = Calls
  BY <1>1 DEF Mine, X402Settle, spendVars, TypeOK
<1> DEFINE g == [phase |-> "spent", wallet |-> req[c].wallet, usd |-> req[c].usd,
                 granted |-> resDay[c], returned |-> relDay[c]]
<1>4. Grants' = [Grants EXCEPT ![c] = g]
  <2>1. GrantOf(c)' = g
    BY <1>2, <1>3 DEF GrantOf
  <2>2. \A x \in Calls \ {c} : GrantOf(x)' = GrantOf(x)
    BY <1>3 DEF GrantOf
  <2> HIDE DEF g
  <2> QED
    BY <2>1, <2>2, GrantsMove
<1>5. Grants[c] = [phase |-> "granted", wallet |-> req[c].wallet, usd |-> req[c].usd,
                   granted |-> resDay[c], returned |-> relDay[c]]
  BY <1>2 DEF Grants, GrantOf
<1>6. [Grants EXCEPT ![c] = g] = [Grants EXCEPT ![c].phase = "spent"]
  <2>1. g = [Grants[c] EXCEPT !.phase = "spent"]
    BY <1>5
  <2> HIDE DEF g
  <2> QED
    BY <2>1 DEF Grants
<1> QED
  BY <1>3, <1>4, <1>5, <1>6 DEF Budget!Spend, Grants

LEMMA BudgetStep ==
    ASSUME CapInv, "lost_answer" \notin Faults, [Next]_vars
    PROVE  [Budget!Next]_<<day, Grants>>
<1>1. ASSUME NEW c \in Calls, Handler(c)
      PROVE  Budget!Next \/ UNCHANGED <<day, Grants>>
  <2>1. HandlerSteps(c)
    BY <1>1, HandlerIsOneOfFour
  <2>2. ASSUME NEW stage, Proceed(c, stage) \/ ApprovalMined(c, stage)
        PROVE  UNCHANGED <<day, Grants>>
    BY <2>2, GrantsStay DEF Proceed, ApprovalMined, spendVars, callVars, GrantOf
  <2>3. ASSUME pc[c] \in Before, NEW stage \in {"send", "pay"}, Reserve(c, stage)
        PROVE  Budget!Next
    BY <2>3, BudgetGrant DEF Budget!Next
  <2>4. ASSUME pc[c] \in Paying, ReleaseAndReturn(c),
               "lost_answer" \notin Faults => chain[c] \notin {"mempool", "mined"}
        PROVE  Budget!Next
    BY <2>4, BudgetGiveBack DEF Budget!Next
  <2> QED
    BY <2>1, <2>2, <2>3, <2>4 DEF HandlerSteps
<1>2. ASSUME NEW c \in Calls, Outside(c)
      PROVE  Budget!Next \/ UNCHANGED <<day, Grants>>
  <2>1. CASE Mine(c) \/ X402Settle(c)
    BY <2>1, BudgetSpend DEF Budget!Next
  <2>2. CASE NodeAccepts(c) \/ Revert(c)
    <3>1. /\ UNCHANGED <<day, req, held, resDay, relDay>>
          /\ \A x \in Calls : (chain[x] # "mined" /\ chain'[x] # "mined") \/ chain'[x] = chain[x]
      BY <2>2 DEF NodeAccepts, Revert, spendVars, CapInv, TypeOK
    <3>2. \A x \in Calls : GrantOf(x)' = GrantOf(x)
      BY <3>1 DEF GrantOf
    <3> QED
      BY <3>1, <3>2, GrantsStay
  <2> QED
    BY <1>2, <2>1, <2>2 DEF Outside
<1>3. CASE MidnightPasses
  <2>1. Grants' = Grants
    BY <1>3, GrantsStay DEF MidnightPasses, callVars, GrantOf
  <2> QED
    BY <1>3, <2>1 DEF MidnightPasses, Budget!Next, Budget!NextDay, Grants
<1>4. CASE Crash \/ UNCHANGED vars
  BY <1>4, GrantsStay DEF Crash, vars, callVars, GrantOf
<1> QED
  BY <1>1, <1>2, <1>3, <1>4 DEF Next

\* Unless answers are lost, the counter of spendAccumulator.ts and the tools
\* that reserve, broadcast and release implement the ledger of DailyBudget: for
\* any calls, wallets, days and crashes, a call spends only what it was granted,
\* never both spends and gives back, and is granted no more than the day allows.
THEOREM ImplementsDailyBudget ==
    ASSUME "lost_answer" \notin Faults, ~DiskMayFail \/ MaxCrashes = 0
    PROVE  Spec => KeepsBudget
<1>1. CapInv /\ [Next]_vars => [Budget!Next]_<<day, Grants>>
  BY BudgetStep
<1> QED
  BY <1>1, BudgetInit, CapInit, CapStep, PTL DEF Spec, KeepsBudget, Budget!Spec, Grants

==============================================================================
