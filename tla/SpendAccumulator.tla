-------------------------- MODULE SpendAccumulator --------------------------
(***************************************************************************)
(* src/lib/spendAccumulator.ts: the per-wallet counter of what was spent   *)
(* today, in memory and in spend_history.json.                             *)
(*                                                                         *)
(* Every operator is one synchronous call: no other handler runs inside    *)
(* it.  Amounts are whole dollars.  A wallet without a bucket reads like   *)
(* one whose bucket is of an earlier day, so both are NoBucket.            *)
(***************************************************************************)
EXTENDS Integers

CONSTANTS
    Wallets,        \* wallet addresses, lower-cased by the code
    Limit,          \* MAX_DAILY_SPEND_USD
    MaxDay,         \* bound: how many UTC days a behaviour sees
    DiskMayFail     \* whether a save of the history may fail (it is only logged)

ASSUME AccumulatorAssumption ==
    /\ Limit \in Nat
    /\ MaxDay \in Nat \ {0}
    /\ DiskMayFail \in BOOLEAN

VARIABLES
    day,        \* todayUtc()
    buckets,    \* the Map in memory: [Wallets -> [date, total]]
    disk        \* the history file: the same map as last saved

spendVars == <<day, buckets, disk>>

Bucket == [date : 0..MaxDay, total : Nat]

NoBucket == [date |-> 0, total |-> 0]

SpendTypeOK ==
    /\ day \in 1..MaxDay
    /\ buckets \in [Wallets -> Bucket]
    /\ disk \in [Wallets -> Bucket]

SpendInit ==
    /\ day = 1
    /\ buckets = [w \in Wallets |-> NoBucket]
    /\ disk = [w \in Wallets |-> NoBucket]

-----------------------------------------------------------------------------

\* A bucket of another day counts as zero.
CurrentUsd(w) == IF buckets[w].date = day THEN buckets[w].total ELSE 0

\* A cap compared before the amount is added: the off-by-one of checkDailyLimit.
CheckDailyLimitBeforeAdding(w, usd) == CurrentUsd(w) <= Limit

CheckDailyLimit(w, usd) == CurrentUsd(w) + usd <= Limit

\* A failed save leaves the file as it was and the call goes on.
SaveBuckets == disk' = buckets' \/ (DiskMayFail /\ UNCHANGED disk)

RecordSpend(w, usd) ==
    /\ buckets' = [buckets EXCEPT ![w] = [date |-> day, total |-> CurrentUsd(w) + usd]]
    /\ SaveBuckets

\* A reservation that trusts the check the handler made before its awaits.
ReserveUnchecked(w, usd) == RecordSpend(w, usd)

\* Check and record with no await between them; disabled when the cap is reached.
ReserveDailyLimit(w, usd) == CheckDailyLimit(w, usd) /\ RecordSpend(w, usd)

\* A release that forgets the amount and clears the whole bucket.
ReleaseAll(w, usd) ==
    /\ buckets' = [buckets EXCEPT ![w].total = 0]
    /\ SaveBuckets

\* The amount leaves today's bucket, whichever day it was reserved on.
ReleaseReservation(w, usd) ==
    IF buckets[w].date = day
    THEN /\ buckets' = [buckets EXCEPT ![w].total = IF @ > usd THEN @ - usd ELSE 0]
         /\ SaveBuckets
    ELSE UNCHANGED <<buckets, disk>>

\* The process starts again and reads the file.
LoadBuckets == buckets' = disk /\ UNCHANGED disk
=============================================================================
