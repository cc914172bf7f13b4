----------------------------- MODULE RiskEngine ----------------------------
(***************************************************************************)
(* assessRisk: a swap's route is fetched, then the counterparty, the       *)
(* wallet's balance and the market are read concurrently, each read may    *)
(* fail, and the five scores make one recommendation.                      *)
(***************************************************************************)
EXTENDS TrustRegistry, FiniteSetsExt

\* What may be assessed: [action, to, router, impact, funds].  to is the
\* kind of recipient, router an address or None, impact the price impact in
\* percent (NoRoute without a route), funds what the wallet has for the amount.
CONSTANT Assessments

Transfer == "transfer"
Swap == "swap"
NoRoute == 100

\* Recipients that are judged without a read, and what there is at the others.
Unprobed == [missing |-> 100, invalid |-> 100, zero |-> 95, self |-> 50]
Recipients == [account  |-> [code |-> FALSE, empty |-> FALSE],
               unused   |-> [code |-> FALSE, empty |-> TRUE],
               contract |-> [code |-> TRUE, empty |-> FALSE],
               shell    |-> [code |-> TRUE, empty |-> TRUE]]

NoAssessment == [action |-> Transfer, to |-> "missing", router |-> None, impact |-> 0,
                 funds |-> "enough"]

MaxSlippage == 5
CounterpartyCritical == 90
BlockThreshold == 80

Clamp(n) == IF n > 100 THEN 100 ELSE n

ComputeRecommendation(score) ==
    IF score <= 30 THEN "proceed" ELSE IF score <= BlockThreshold THEN "caution" ELSE "block"

\* RISK_WEIGHTS, in hundredths; the average is rounded.
WeightedAverage(liquidity, slippage, counterparty, balance, market) ==
    (25 * liquidity + 25 * slippage + 20 * counterparty + 15 * balance + 15 * market + 50) \div 100

ScoreLiquidity(i, quote) ==
    IF i.action # Swap THEN 0
    ELSE IF quote = "failed" THEN 70
    ELSE IF i.impact = NoRoute THEN 100
    ELSE IF i.impact > 5 THEN Clamp(80 + i.impact)
    ELSE IF i.impact > 2 THEN Clamp(40 + i.impact * 10)
    ELSE Clamp(i.impact * 15)

ScoreSlippage(i, quote) ==
    IF i.action # Swap THEN 0
    ELSE IF quote = "failed" THEN 60
    ELSE IF i.impact = NoRoute THEN 90
    ELSE IF i.impact > MaxSlippage THEN Clamp(80 + (i.impact - MaxSlippage) * 5)
    ELSE Clamp(i.impact * 16)

\* The router of a swap is trusted as far as the registry goes.
ScoreRouter(i, quote) ==
    IF quote = "failed" \/ i.impact = NoRoute \/ i.router = None THEN 55
    ELSE IF AddressTrust(i.router, Pacific).verified THEN 5
    ELSE IF AddressTrust(i.router, Pacific).recognized THEN 40 ELSE 55

Known(score) == [score |-> score, degraded |-> FALSE]
Unknown(score) == [score |-> score, degraded |-> TRUE]

\* Mutant: the probe that failed is forgotten.
ScoreRecipientSwallowing(code, balance) ==
    IF code = "code" THEN Known(40) ELSE IF balance = "zero" THEN Known(30) ELSE Known(10)

\* The code is read before the balance; each read gives an answer or fails.
ScoreRecipient(code, balance) ==
    IF code = "code" THEN Known(40)
    ELSE IF balance = "zero" THEN Known(30)
    ELSE IF "failed" \in {code, balance} THEN Unknown(50)
    ELSE Known(10)

\* What the amount takes of the wallet: all and more, most of it, some; a token
\* with hardly any gas.
ScoreBalance(funds) ==
    CASE funds = "short" -> 100
      [] funds = "most" -> 65
      [] funds = "gasless" -> 80
      [] funds = "enough" -> 5

\* Block times, then the gas price; a failure is weighed, never reported.
MarketScores == {60, 30, 50, 5, 20}

-----------------------------------------------------------------------------

VARIABLES input,         \* what is assessed
          step,          \* "idle", "quote", "reads", "done"
          quote,         \* "fresh", "failed", "none" before it is fetched
          codeRead,      \* of the recipient: "code", "none", "failed", "unread"
          counterparty,  \* [score, degraded], or the same of "unread" before it
          balance,
          market,        \* a score, or -1 before it
          recommendation,
          degraded

riskVars == <<input, step, quote, codeRead, counterparty, balance, market, recommendation, degraded>>

Unread == [score |-> -1, degraded |-> FALSE]

RiskTypeOK ==
    /\ input \in Assessments \/ input = NoAssessment
    /\ step \in {"idle", "quote", "reads", "done"}
    /\ quote \in {"none", "fresh", "failed"}
    /\ codeRead \in {"unread", "code", "none", "failed"}
    /\ \A s \in {counterparty, balance} : s.score \in -1..100 /\ s.degraded \in BOOLEAN
    /\ market \in MarketScores \cup {-1}
    /\ recommendation \in {None, "proceed", "caution", "block"}
    /\ degraded \in BOOLEAN

RiskIdle ==
    /\ input = NoAssessment /\ step = "idle" /\ quote = "none" /\ codeRead = "unread"
    /\ counterparty = Unread /\ balance = Unread /\ market = -1
    /\ recommendation = None /\ degraded = FALSE

Ask ==
    /\ step = "idle"
    /\ input' \in Assessments
    /\ step' = IF input'.action = Swap THEN "quote" ELSE "reads"
    /\ UNCHANGED <<quote, codeRead, counterparty, balance, market, recommendation, degraded>>

\* The route provider answers, fails or is not configured.
FetchSwapQuote ==
    /\ step = "quote"
    /\ quote' \in {"fresh", "failed"}
    /\ step' = "reads"
    /\ UNCHANGED <<input, codeRead, counterparty, balance, market, recommendation, degraded>>

Counterparty(s) ==
    /\ step = "reads" /\ counterparty = Unread
    /\ counterparty' = s
    /\ UNCHANGED <<input, step, quote, balance, market, recommendation, degraded>>

\* A router, and a recipient no read is made for.
ScoreCounterparty ==
    /\ \/ input.action = Swap /\ Counterparty(Known(ScoreRouter(input, quote)))
       \/ input.action = Transfer /\ input.to \in DOMAIN Unprobed
          /\ Counterparty(Known(Unprobed[input.to]))
    /\ UNCHANGED codeRead

Probed == input.action = Transfer /\ input.to \in DOMAIN Recipients

ReadCode ==
    /\ step = "reads" /\ Probed /\ codeRead = "unread"
    /\ codeRead' \in {IF Recipients[input.to].code THEN "code" ELSE "none", "failed"}
    /\ UNCHANGED <<input, step, quote, counterparty, balance, market, recommendation, degraded>>

ReadRecipientBalance ==
    /\ Probed /\ codeRead # "unread"
    /\ \E b \in {IF Recipients[input.to].empty THEN "zero" ELSE "some", "failed"} :
        Counterparty(ScoreRecipient(codeRead, b))
    /\ UNCHANGED codeRead

ReadBalance ==
    /\ step = "reads" /\ balance = Unread
    /\ balance' \in {Known(ScoreBalance(input.funds)), Unknown(50)}
    /\ UNCHANGED <<input, step, quote, codeRead, counterparty, market, recommendation, degraded>>

ReadMarket ==
    /\ step = "reads" /\ market = -1
    /\ market' \in MarketScores
    /\ UNCHANGED <<input, step, quote, codeRead, counterparty, balance, recommendation, degraded>>

\* All three are in: the average, then what is missing, then the recipient that
\* no average can outweigh.
Assess ==
    /\ step = "reads" /\ counterparty # Unread /\ balance # Unread /\ market # -1
    /\ LET score == WeightedAverage(ScoreLiquidity(input, quote), ScoreSlippage(input, quote),
                                    counterparty.score, balance.score, market)
           base == ComputeRecommendation(score)
           missing == quote = "failed" \/ balance.degraded \/ counterparty.degraded
       IN /\ degraded' = missing
          /\ recommendation' =
                IF input.action = Transfer /\ counterparty.score >= CounterpartyCritical THEN "block"
                ELSE IF missing /\ base = "proceed" THEN "caution"
                ELSE base
    /\ step' = "done"
    /\ UNCHANGED <<input, quote, codeRead, counterparty, balance, market>>

Publish ==
    /\ step = "done"
    /\ input' = NoAssessment /\ step' = "idle" /\ quote' = "none" /\ codeRead' = "unread"
    /\ counterparty' = Unread /\ balance' = Unread /\ market' = -1
    /\ recommendation' = None /\ degraded' = FALSE

RiskInit == RiskIdle

RiskNext ==
    Ask \/ FetchSwapQuote \/ ScoreCounterparty \/ ReadCode \/ ReadRecipientBalance
    \/ ReadBalance \/ ReadMarket \/ Assess \/ Publish

-----------------------------------------------------------------------------
(* Properties                                                              *)

\* assessRisk, "fail-closed on missing critical data": to proceed takes the
\* wallet's balance, a swap's route, and a recipient whose code was read, unless
\* the account holds nothing or is the wallet itself.
ProceedsOnEvidence ==
    recommendation = "proceed" =>
        /\ ~balance.degraded
        /\ input.action = Swap => quote = "fresh"
        /\ input.action = Transfer =>
            \/ input.to = "self"
            \/ Probed /\ (codeRead # "failed" \/ Recipients[input.to].empty)

=============================================================================
