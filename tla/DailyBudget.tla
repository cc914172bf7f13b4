----------------------------- MODULE DailyBudget -----------------------------
(***************************************************************************)
(* What the spend cap promises, without saying how it is kept.             *)
(*                                                                         *)
(* A call is granted part of its wallet's budget for the day, and then     *)
(* either spends it for good or gives it back, once.  What is granted on a *)
(* day stays within the limit, but for what other days give back on it.    *)
(* WritePath implements this ledger with the counter of                    *)
(* spendAccumulator.ts, the tools that reserve before they broadcast, and  *)
(* the chain that lands or reverts what was sent.                          *)
(***************************************************************************)
EXTENDS Naturals, FiniteSets

CONSTANTS
    Calls,      \* the tool calls
    Wallets,    \* the signing wallets
    MaxAmount,  \* the largest amount of one call, in dollars
    Limit,      \* MAX_DAILY_SPEND_USD, per wallet
    MaxDay      \* bound: the days that a behaviour sees

VARIABLES
    day,        \* today
    grant       \* [Calls -> [phase, wallet, usd, granted, returned]], days 0 before

Phases == {"none", "granted", "spent", "returned"}

GrantType ==
    grant \in [Calls -> [phase : Phases, wallet : Wallets, usd : 1..MaxAmount,
                        granted : 0..MaxDay, returned : 0..MaxDay]]

\* Every dollar of the calls of C, each named by its call and its number.
Dollars(C) == {d \in C \X (1..MaxAmount) : d[2] <= grant[d[1]].usd}

Of(w) == {c \in Calls : grant[c].wallet = w}

StakeUsd(w) ==
    Cardinality(Dollars({c \in Of(w) : grant[c].granted = day
                                      /\ grant[c].phase \in {"granted", "spent"}}))

LateUsd(w) ==
    Cardinality(Dollars({c \in Of(w) : grant[c].returned = day /\ grant[c].granted # day}))

Init ==
    /\ day = 1
    /\ GrantType
    /\ \A c \in Calls :
          grant[c].phase = "none" /\ grant[c].granted = 0 /\ grant[c].returned = 0

Grant(c) ==
    /\ grant[c].phase = "none"
    /\ StakeUsd(grant[c].wallet) + grant[c].usd <= Limit + LateUsd(grant[c].wallet)
    /\ grant' = [grant EXCEPT ![c].phase = "granted", ![c].granted = day]
    /\ UNCHANGED day

Spend(c) ==
    /\ grant[c].phase = "granted"
    /\ grant' = [grant EXCEPT ![c].phase = "spent"]
    /\ UNCHANGED day

GiveBack(c) ==
    /\ grant[c].phase = "granted"
    /\ grant' = [grant EXCEPT ![c].phase = "returned", ![c].returned = day]
    /\ UNCHANGED day

NextDay == day < MaxDay /\ day' = day + 1 /\ UNCHANGED grant

Next == NextDay \/ \E c \in Calls : Grant(c) \/ Spend(c) \/ GiveBack(c)

Spec == Init /\ [][Next]_<<day, grant>>
==============================================================================
