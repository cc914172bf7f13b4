------------------------------ MODULE WritePath ------------------------------
(***************************************************************************)
(* The tools that move money in one SafeHands process: send_payment,       *)
(* execute_swap and x402_pay_and_fetch, from the caller's request to the   *)
(* chain, and the daily cap that they share.                               *)
(*                                                                         *)
(* An action is what one handler does between two awaits.  Any other call, *)
(* the chain, midnight or a crash may come at each await.  The verdict of  *)
(* the policy (module WriteGate) and the answers of the services are free  *)
(* choices: the call goes on or it returns.                                *)
(***************************************************************************)
EXTENDS SpendAccumulator, FiniteSets

CONSTANTS
    Calls,          \* tool calls
    Tools,          \* the tools in use, of AllTools
    MaxAmount,      \* bound: the largest amount, in dollars
    TxCeiling,      \* MAX_TX_AMOUNT_PROS, at one dollar per PROS
    Faults,         \* what goes wrong outside, of AllFaults
    MaxCrashes      \* bound: how often the process crashes

Swaps == {"swap_native", "swap_erc20"}
AllTools == Swaps \cup {"payment", "x402"}

\* lost_answer: a broadcast or a payment succeeds and its answer is lost.
\* unread_challenge: what the paying fetch settles was not in the 402 answer
\*   that was validated (unreadable, or the second fetch was asked for more).
AllFaults == {"lost_answer", "unread_challenge"}

ASSUME WritePathAssumption ==
    /\ IsFiniteSet(Calls)
    /\ Tools \subseteq AllTools
    /\ MaxAmount \in Nat \ {0}
    /\ TxCeiling \in Nat
    /\ Faults \subseteq AllFaults
    /\ MaxCrashes \in Nat

VARIABLES
    req,        \* [Calls -> [tool, wallet, usd]]: the request, never changed
    pc,         \* the await at which the call is
    held,       \* the call has a reservation that it did not release
    resDay,     \* the day of the reservation, 0 before it
    relDay,     \* the day on which it was released, 0 before (read by properties only)
    chain,      \* what became of the call's payment, outside the process
    paid,       \* the dollars that the payment moved, 0 until it lands
    allowance,  \* [Wallets -> Nat]: what the swap router may pull
    approved,   \* the call's own approval was mined
    crashes

callVars == <<held, resDay, relDay, chain, paid, allowance, approved>>
vars == <<day, buckets, disk, req, pc, held, resDay, relDay, chain, paid, allowance, approved, crashes>>

Request == [tool : Tools, wallet : Wallets, usd : 1..MaxAmount]

Stages == {"idle", "gate", "evidence", "allowance", "approving", "simulate",
           "send", "receipt", "probe", "pay", "done", "dead"}

\* Each variable has its type: the shape the other properties rest on.
TypeOK ==
    /\ SpendTypeOK
    /\ req \in [Calls -> Request]
    /\ pc \in [Calls -> Stages]
    /\ held \in [Calls -> BOOLEAN]
    /\ resDay \in [Calls -> 0..MaxDay]
    /\ relDay \in [Calls -> 0..MaxDay]
    /\ chain \in [Calls -> {"none", "mempool", "mined", "reverted"}]
    /\ paid \in [Calls -> 0..MaxAmount]
    /\ allowance \in [Wallets -> Nat]
    /\ approved \in [Calls -> BOOLEAN]
    /\ crashes \in 0..MaxCrashes

Init ==
    /\ SpendInit
    /\ req \in [Calls -> Request]
    /\ pc = [c \in Calls |-> "idle"]
    /\ held = [c \in Calls |-> FALSE]
    /\ resDay = [c \in Calls |-> 0]
    /\ relDay = [c \in Calls |-> 0]
    /\ chain = [c \in Calls |-> "none"]
    /\ paid = [c \in Calls |-> 0]
    /\ allowance = [w \in Wallets |-> 0]
    /\ approved = [c \in Calls |-> FALSE]
    /\ crashes = 0

-----------------------------------------------------------------------------
(* Steps that every tool is made of.                                       *)

Goto(c, stage) == pc' = [pc EXCEPT ![c] = stage]

\* The call goes on, or returns to its caller, and nothing else changes.
Proceed(c, stage) ==
    /\ Goto(c, stage)
    /\ UNCHANGED <<spendVars, req, callVars, crashes>>

Return(c) == Proceed(c, "done")

WithinDailyLimit(c) == CheckDailyLimit(req[c].wallet, req[c].usd)

Reserve(c, stage) ==
    /\ ReserveDailyLimit(req[c].wallet, req[c].usd)
    /\ held' = [held EXCEPT ![c] = TRUE]
    /\ resDay' = [resDay EXCEPT ![c] = day]
    /\ Goto(c, stage)
    /\ UNCHANGED <<day, req, relDay, chain, paid, allowance, approved, crashes>>

ReleaseAndReturn(c) ==
    /\ ReleaseReservation(req[c].wallet, req[c].usd)
    /\ held' = [held EXCEPT ![c] = FALSE]
    /\ relDay' = [relDay EXCEPT ![c] = day]
    /\ Goto(c, "done")
    /\ UNCHANGED <<day, req, resDay, chain, paid, allowance, approved, crashes>>

\* Input validation is over; the first await of each tool.
StartCall(c) ==
    /\ pc[c] = "idle"
    /\ Proceed(c, IF req[c].tool = "x402" THEN "probe" ELSE "gate")

-----------------------------------------------------------------------------
(* send_payment                                                            *)

\* The managed-execution gate answered: operator ceiling, early cap check.
PaymentGate(c) ==
    /\ pc[c] = "gate" /\ req[c].tool = "payment"
    /\ \/ Return(c)
       \/ /\ req[c].usd <= TxCeiling
          /\ WithinDailyLimit(c)
          /\ Proceed(c, "evidence")

\* Balance and risk were read; the policy decides and the budget is reserved.
PaymentDecide(c) ==
    /\ pc[c] = "evidence" /\ req[c].tool = "payment"
    /\ \/ Return(c)
       \/ Reserve(c, "send")

-----------------------------------------------------------------------------
(* execute_swap                                                            *)

\* The ceiling binds only a swap of native PROS; the cap binds every swap.
SwapGate(c) ==
    /\ pc[c] = "gate" /\ req[c].tool \in Swaps
    /\ \/ Return(c)
       \/ /\ req[c].tool = "swap_native" => req[c].usd <= TxCeiling
          /\ WithinDailyLimit(c)
          /\ Proceed(c, "evidence")

\* Risk, policy, quote, quote guards, router and spender allowlists.
SwapRoute(c) ==
    /\ pc[c] = "evidence" /\ req[c].tool \in Swaps
    /\ \/ Return(c)
       \/ Proceed(c, IF req[c].tool = "swap_erc20" THEN "allowance" ELSE "simulate")

\* The router's allowance was read: enough, or the approval policy decides.
SwapAllowance(c) ==
    /\ pc[c] = "allowance"
    /\ \/ allowance[req[c].wallet] >= req[c].usd /\ Proceed(c, "simulate")
       \/ /\ allowance[req[c].wallet] < req[c].usd
          /\ Return(c) \/ Proceed(c, "approving")

\* An approval that adds to what the router may already pull.
ApproveOnTop(c, stage) ==
    /\ allowance' = [allowance EXCEPT ![req[c].wallet] = @ + req[c].usd]
    /\ approved' = [approved EXCEPT ![c] = TRUE]
    /\ Goto(c, stage)
    /\ UNCHANGED <<spendVars, req, held, resDay, relDay, chain, paid, crashes>>

\* The token contract sets the allowance to this call's amount.
ApprovalMined(c, stage) ==
    /\ allowance' = [allowance EXCEPT ![req[c].wallet] = req[c].usd]
    /\ approved' = [approved EXCEPT ![c] = TRUE]
    /\ Goto(c, stage)
    /\ UNCHANGED <<spendVars, req, held, resDay, relDay, chain, paid, crashes>>

\* The receipt's status is not read: a reverted approval goes on too.  In every
\* run the approval may be mined and its answer lost: nothing is reserved yet.
SwapApprove(c) ==
    /\ pc[c] = "approving"
    /\ \/ ApprovalMined(c, "simulate")
       \/ Proceed(c, "simulate")
       \/ Return(c)
       \/ ApprovalMined(c, "done")

\* eth_call sees the allowance; after it no await until the broadcast.
SwapSimulate(c) ==
    /\ pc[c] = "simulate"
    /\ \/ Return(c)
       \/ /\ req[c].tool = "swap_erc20" => allowance[req[c].wallet] >= req[c].usd
          /\ Reserve(c, "send")

-----------------------------------------------------------------------------
(* sendTransaction and waitForTransactionReceipt, of payments and swaps    *)

SendReturns(c) ==
    /\ pc[c] = "send" /\ chain[c] # "none"
    /\ Proceed(c, "receipt")

\* A catch that releases whatever the node did with the transaction.
SendThrowsAnyway(c) == pc[c] = "send" /\ ReleaseAndReturn(c)

\* The node refused the transaction, or took it and its answer was lost.
SendThrows(c) ==
    /\ pc[c] = "send"
    /\ chain[c] = "none" \/ "lost_answer" \in Faults
    /\ ReleaseAndReturn(c)

\* A client that waits for the receipt for ever.
ReceiptNeverThrows(c) == FALSE

\* viem gives up waiting while the transaction may still be mined.
ReceiptThrows(c) ==
    /\ pc[c] = "receipt" /\ "lost_answer" \in Faults
    /\ ReleaseAndReturn(c)

\* A handler that forgets the reservation of a reverted call.
ReceiptReturnsHolding(c) ==
    /\ pc[c] = "receipt"
    /\ chain[c] \in {"mined", "reverted"}
    /\ Return(c)

\* The status of the receipt decides.
ReceiptReturns(c) ==
    /\ pc[c] = "receipt"
    /\ \/ chain[c] = "mined" /\ Return(c)
       \/ chain[c] = "reverted" /\ ReleaseAndReturn(c)

Broadcast(c) == SendReturns(c) \/ SendThrows(c) \/ ReceiptReturns(c) \/ ReceiptThrows(c)

PaymentBroadcast(c) == req[c].tool = "payment" /\ Broadcast(c)

SwapBroadcast(c) == req[c].tool \in Swaps /\ Broadcast(c)

-----------------------------------------------------------------------------
(* x402_pay_and_fetch                                                      *)

\* The first fetch returned: not a 402, a challenge refused, a gate that
\* refuses, or the bound maxPaymentUsdc reserved before the paying fetch.
X402Probe(c) ==
    /\ pc[c] = "probe"
    /\ Return(c) \/ Reserve(c, "pay")

\* What the challenge check lets the server settle.
ChallengeAllows(c, usd) == usd <= req[c].usd \/ "unread_challenge" \in Faults

\* A handler that returns the budget without looking for the header.
X402RespondReleasing(c) == pc[c] = "pay" /\ ReleaseAndReturn(c)

\* The server answered.  No PAYMENT-RESPONSE header: the budget is returned.
X402Respond(c) ==
    /\ pc[c] = "pay"
    /\ \/ chain[c] = "mined" /\ Return(c)
       \/ (chain[c] = "none" \/ "lost_answer" \in Faults) /\ ReleaseAndReturn(c)

-----------------------------------------------------------------------------
(* Outside the process                                                     *)

\* The node accepts the transaction that the call is sending.
NodeAccepts(c) ==
    /\ pc[c] = "send" /\ chain[c] = "none"
    /\ chain' = [chain EXCEPT ![c] = "mempool"]
    /\ UNCHANGED <<spendVars, req, pc, held, resDay, relDay, paid, allowance, approved, crashes>>

\* A mined swap of a token pulls its input from the allowance.
Mine(c) ==
    /\ chain[c] = "mempool"
    /\ chain' = [chain EXCEPT ![c] = "mined"]
    /\ paid' = [paid EXCEPT ![c] = req[c].usd]
    /\ IF req[c].tool = "swap_erc20"
       THEN /\ allowance[req[c].wallet] >= req[c].usd
            /\ allowance' = [allowance EXCEPT ![req[c].wallet] = @ - req[c].usd]
       ELSE UNCHANGED allowance
    /\ UNCHANGED <<spendVars, req, pc, held, resDay, relDay, approved, crashes>>

Revert(c) ==
    /\ chain[c] = "mempool"
    /\ chain' = [chain EXCEPT ![c] = "reverted"]
    /\ UNCHANGED <<spendVars, req, pc, held, resDay, relDay, paid, allowance, approved, crashes>>

\* The server settles the signed payment: while the call waits, after the
\* process died, or after the call gave up on an answer that was lost.
X402Settle(c) ==
    /\ chain[c] = "none" /\ req[c].tool = "x402"
    /\ \/ pc[c] = "pay"
       \/ pc[c] = "dead" /\ held[c]
       \/ pc[c] = "done" /\ resDay[c] # 0 /\ "lost_answer" \in Faults
    /\ \E usd \in 1..MaxAmount :
        /\ ChallengeAllows(c, usd)
        /\ paid' = [paid EXCEPT ![c] = usd]
    /\ chain' = [chain EXCEPT ![c] = "mined"]
    /\ UNCHANGED <<spendVars, req, pc, held, resDay, relDay, allowance, approved, crashes>>

MidnightPasses ==
    /\ day < MaxDay
    /\ day' = day + 1
    /\ UNCHANGED <<buckets, disk, req, pc, callVars, crashes>>

\* Calls in flight are gone; the counter is read back from the file.
Crash ==
    /\ crashes < MaxCrashes
    /\ crashes' = crashes + 1
    /\ LoadBuckets
    /\ pc' = [c \in Calls |-> IF pc[c] \in {"idle", "done"} THEN pc[c] ELSE "dead"]
    /\ UNCHANGED <<day, req, callVars>>

-----------------------------------------------------------------------------

Handler(c) ==
    \/ StartCall(c)
    \/ PaymentGate(c) \/ PaymentDecide(c) \/ PaymentBroadcast(c)
    \/ SwapGate(c) \/ SwapRoute(c) \/ SwapAllowance(c) \/ SwapApprove(c)
    \/ SwapSimulate(c) \/ SwapBroadcast(c)
    \/ X402Probe(c) \/ X402Respond(c)

Outside(c) == NodeAccepts(c) \/ Mine(c) \/ Revert(c) \/ X402Settle(c)

Next == (\E c \in Calls : Handler(c) \/ Outside(c)) \/ MidnightPasses \/ Crash

Spec == Init /\ [][Next]_vars

(***************************************************************************)
(* Every await of a handler ends: the RPC transport and the HTTP client    *)
(* time out, and viem stops waiting for a receipt after its own timeout    *)
(* (the lost_answer fault).  Nothing is assumed of the chain.              *)
(***************************************************************************)
FairSpec == Spec /\ \A c \in Calls : WF_vars(Handler(c))

-----------------------------------------------------------------------------
(* Properties                                                              *)

DollarsOf(C, usd) == {d \in C \X (1..MaxAmount) : d[2] <= usd[d[1]]}

\* The dollars, each named once, of the calls of C by their request.
RequestedUsd(C) == Cardinality(DollarsOf(C, [c \in Calls |-> req[c].usd]))

PaidUsd(C) == Cardinality(DollarsOf(C, paid))

OfWallet(w) == {c \in Calls : req[c].wallet = w}

Holding(w, d) == {c \in OfWallet(w) : held[c] /\ resDay[c] = d}

\* No counter, in memory or in the file a crash would bring back, ever goes
\* above MAX_DAILY_SPEND_USD, whatever the calls and the days (checkDailyLimit
\* and recordSpend with no await in between).
BucketWithinLimit ==
    \A w \in Wallets : buckets[w].total <= Limit /\ disk[w].total <= Limit

\* What a wallet really pays out of the reservations of one day stays within
\* MAX_DAILY_SPEND_USD: the promise of spendAccumulator.ts.
DailyCapHolds ==
    \A w \in Wallets, d \in 1..MaxDay :
        PaidUsd({c \in OfWallet(w) : resDay[c] = d}) <= Limit

ReleasedLate(w, d) == {c \in OfWallet(w) : relDay[c] = d /\ resDay[c] # d}

\* Today's counter is the sum of today's reservations that are still held: each
\* one counted once, released once, by the call that made it (the pairing of
\* reserve and release in the three tools), unless one of another day came back.
BooksBalance ==
    \A w \in Wallets :
        ReleasedLate(w, day) = {} => CurrentUsd(w) = RequestedUsd(Holding(w, day))

\* What the reservations of one day that are still held pay, where a settlement
\* respects what was reserved.
KeptPayers(w, d) ==
    {c \in OfWallet(w) : held[c] /\ resDay[c] = d /\ paid[c] <= req[c].usd}

\* Midnight costs no more than what it lets slip: whatever goes wrong outside,
\* the payments of a day's kept reservations exceed the cap at most by the
\* reservations of other days that were released on that day
\* (releaseReservation subtracts from today's bucket).
CapUpToLateReleases ==
    \A w \in Wallets, d \in 1..MaxDay :
        PaidUsd(KeptPayers(w, d)) <= Limit + RequestedUsd(ReleasedLate(w, d))

\* A payment that is on its way or landed still has its reservation, so no
\* other call can be granted the same dollars.
LandedIsHeld ==
    \A c \in Calls : chain[c] \in {"mempool", "mined"} => held[c]

\* The router may pull no more than one approved swap that has not happened:
\* interleaved swaps of a wallet never add their allowances up.
AllowanceIsOneSwap ==
    \A w \in Wallets :
        allowance[w] > 0 =>
            \E c \in OfWallet(w) :
                approved[c] /\ chain[c] # "mined" /\ allowance[w] <= req[c].usd

\* Every call returns to its caller, whatever the chain does: no await of the
\* write tools is unbounded.
EveryCallReturns == \A c \in Calls : pc[c] # "idle" ~> pc[c] \in {"done", "dead"}

\* A transaction that reverts gives its budget back while the process lives.
RevertedIsReleased ==
    \A c \in Calls : chain[c] = "reverted" ~> (~held[c] \/ pc[c] = "dead")

\* What each call was granted, in the words of DailyBudget.
GrantOf(c) ==
    [phase |-> IF resDay[c] = 0 THEN "none"
               ELSE IF chain[c] = "mined" THEN "spent"
               ELSE IF held[c] THEN "granted" ELSE "returned",
     wallet |-> req[c].wallet,
     usd |-> req[c].usd,
     granted |-> resDay[c],
     returned |-> relDay[c]]

\* The ledger this implements, as long as no answer is lost.
Budget == INSTANCE DailyBudget WITH grant <- [c \in Calls |-> GrantOf(c)]

\* Reserving, landing and releasing are the grant, spend and give-back of
\* DailyBudget, midnight its next day: a call spends only what it was granted,
\* never both spends and gives back, and is granted no more than the day allows.
KeepsBudget == Budget!Spec
==============================================================================
