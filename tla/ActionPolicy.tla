---------------------------- MODULE ActionPolicy ----------------------------
(***************************************************************************)
(* src/lib/policy/actionPolicyEngine.ts and writeExecutionGate.ts: which   *)
(* checks an action gets, the decision they make together, and which       *)
(* decisions let a write tool sign.                                        *)
(*                                                                         *)
(* All of it is pure.  The input is a record of what was found out about   *)
(* the action, each fact reduced to the outcome of the comparison that the *)
(* engine makes with it.  A check has a name and a status; no name occurs  *)
(* twice in one evaluation, so the checks are a set.                       *)
(***************************************************************************)
EXTENDS Naturals, FiniteSets

Statuses == {"pass", "warn", "fail", "unknown"}

Decisions == {"ALLOW", "REQUIRE_CONFIRMATION", "REQUIRE_TOKEN_REVIEW", "REQUIRE_FUNDING", "BLOCK"}

Check(name, status) == [name |-> name, status |-> status]

Passes(name) == {Check(name, "pass")}
Warns(name) == {Check(name, "warn")}
Fails(name) == {Check(name, "fail")}
Unknown(name) == {Check(name, "unknown")}

\* The input of an action of which nothing is known that would be checked.
NothingKnown(action) ==
    [action |-> action, chainOk |-> TRUE, envOk |-> TRUE, signer |-> "not_asked",
     overLimit |-> FALSE, unlimited |-> FALSE, unlimitedOk |-> FALSE, balance |-> "unread", party |-> "none",
     priceable |-> TRUE, safeUrl |-> TRUE, payToken |-> "none", canonical |-> TRUE,
     intel |-> "none", listed |-> TRUE, risk |-> {}]

-----------------------------------------------------------------------------
(* evaluateActionPolicy: the checks                                        *)

GeneralChecks(e) ==
    (IF e.chainOk THEN Passes("chain_id") ELSE Fails("chain_id"))
    \cup Passes("mainnet_guard")
    \cup (IF e.envOk THEN Passes("environment") ELSE Warns("environment"))
    \cup (CASE e.signer = "missing" -> Fails("signer")
            [] e.signer = "unknown" -> Warns("signer_unknown")
            [] OTHER -> {})

LimitCheck(e, name) == IF e.overLimit THEN Fails(name) ELSE Passes(name)

FundingCheck(e, name) ==
    CASE e.balance = "short" -> Fails(name)
      [] e.balance = "enough" -> Passes(name)
      [] OTHER -> {}

\* Who receives or may spend.  A claim that was not made counts as unknown.
ReputationCheck(e, name) ==
    CASE e.party = "unverified" -> Warns(name)
      [] e.party = "unclaimed" -> Unknown(name)
      [] e.party = "verified" -> Passes(name)
      [] OTHER -> {}

PaymentChecks(e) ==
    LimitCheck(e, "payment_limit")
    \cup FundingCheck(e, "funding_balance")
    \cup (CASE e.party = "invalid" -> Fails("recipient_address")
            [] e.party = "denylisted" -> Fails("recipient_denylist")
            [] OTHER -> ReputationCheck(e, "recipient_reputation"))

\* Whether an unlimited approval is in order is up to the caller of the engine.
ApprovalChecks(e) ==
    (IF e.unlimited /\ ~e.unlimitedOk
     THEN Fails("approval_amount")
     ELSE LimitCheck(e, "approval_limit"))
    \cup (IF e.party = "invalid"
          THEN Fails("spender_address")
          ELSE ReputationCheck(e, "spender_reputation"))

SwapChecks(e) ==
    (IF e.overLimit THEN Fails("swap_amount_limit") ELSE {})
    \cup (IF e.priceable THEN {} ELSE Fails("swap_notional_unpriceable"))
    \cup FundingCheck(e, "funding_balance")

ContractChecks(e) ==
    IF e.canonical THEN Passes("canonical_contract") ELSE Warns("unknown_contract")

X402Checks(e) ==
    (IF e.safeUrl THEN Passes("x402_url") ELSE Fails("x402_url"))
    \cup LimitCheck(e, "x402_payment_limit")
    \cup FundingCheck(e, "funding_balance_x402")
    \cup (CASE e.payToken = "supported" -> Passes("x402_payment_token")
            [] e.payToken = "other" -> Fails("x402_payment_token")
            [] OTHER -> {})

ActionChecks(e) ==
    CASE e.action = "send_payment" -> PaymentChecks(e)
      [] e.action = "approve_token" -> ApprovalChecks(e)
      [] e.action = "execute_swap" -> SwapChecks(e)
      [] e.action = "custom_contract_call" -> ContractChecks(e)
      [] e.action = "x402_pay_and_fetch" -> X402Checks(e)
      [] OTHER -> {}

TokenChecks(e) ==
    (IF e.listed THEN {} ELSE Warns("token_registry"))
    \cup (CASE e.intel = "unavailable" -> Unknown("token_security_intel_missing")
            [] e.intel = "unknown" -> Unknown("token_security_provider")
            [] OTHER -> {})

\* No risk check at all unless the caller passed the assessment.
RiskChecks(e) ==
    IF "given" \notin e.risk THEN {}
    ELSE (IF "high" \in e.risk THEN Fails("risk_score") ELSE Passes("risk_score"))
         \cup (IF "critical" \in e.risk THEN Fails("risk_counterparty") ELSE Passes("risk_counterparty"))
         \cup (IF "degraded" \in e.risk THEN Unknown("risk_degraded") ELSE Passes("risk_degraded"))

Checks(e) == GeneralChecks(e) \cup ActionChecks(e) \cup TokenChecks(e) \cup RiskChecks(e)

-----------------------------------------------------------------------------
(* evaluateActionPolicy: the decision                                      *)

OfStatus(checks, status) == {c \in checks : c.status = status}

Failed(checks) == OfStatus(checks, "fail")

Soft(checks) == OfStatus(checks, "warn") \cup OfStatus(checks, "unknown")

\* Names that contain "funding", "token" and those that start with "risk_".
FundingNames == {"funding_balance", "funding_balance_x402"}
TokenNames == {"token_registry", "token_security_intel_missing", "token_security_provider",
               "x402_payment_token"}
RiskNames == {"risk_score", "risk_counterparty", "risk_degraded"}

ClassifyRisk(checks) ==
    CASE Cardinality(Failed(checks)) >= 3 -> "CRITICAL"
      [] Cardinality(Failed(checks)) \in {1, 2} -> "HIGH"
      [] Failed(checks) = {} /\ Soft(checks) # {} -> "MEDIUM"
      [] OTHER -> "LOW"

DefaultDecision(checks) ==
    IF Failed(checks) # {} THEN "BLOCK"
    ELSE IF ClassifyRisk(checks) = "LOW" THEN "ALLOW" ELSE "REQUIRE_CONFIRMATION"

OnlyFundingFails(checks) ==
    Failed(checks) # {} /\ \A c \in Failed(checks) : c.name \in FundingNames

TokenUnknown(checks) == \E c \in OfStatus(checks, "unknown") : c.name \in TokenNames

\* The remap with a funding shortfall that hides the other failures.
DecideSomeFundingFails(checks) ==
    IF \E c \in Failed(checks) : c.name \in FundingNames THEN "REQUIRE_FUNDING"
    ELSE IF Failed(checks) = {} /\ TokenUnknown(checks) THEN "REQUIRE_TOKEN_REVIEW"
    ELSE DefaultDecision(checks)

\* A soft signal renames a soft decision and never a block.
Decide(checks) ==
    LET decision == DefaultDecision(checks)
    IN  CASE decision = "BLOCK" /\ OnlyFundingFails(checks) -> "REQUIRE_FUNDING"
          [] decision # "BLOCK" /\ TokenUnknown(checks) -> "REQUIRE_TOKEN_REVIEW"
          [] OTHER -> decision

-----------------------------------------------------------------------------
(* enforceWriteDecision and mapEngineDecision                              *)

Refusals == {"POLICY_EVIDENCE_MISSING", "POLICY_BLOCKED", "REQUIRE_FUNDING",
             "TOKEN_INTEL_UNAVAILABLE", "CONFIRMATION_REQUIRED"}

IntelMissing(checks) == Check("token_security_intel_missing", "unknown") \in checks

HasRisk(checks) == \E c \in checks : c.name \in RiskNames

\* A gate that takes the confirmation before it looks for the missing review.
EnforceConfirmFirst(checks, confirmed, requireRisk) ==
    CASE requireRisk /\ ~HasRisk(checks) -> "POLICY_EVIDENCE_MISSING"
      [] Decide(checks) = "BLOCK" -> "POLICY_BLOCKED"
      [] Decide(checks) = "REQUIRE_FUNDING" -> "REQUIRE_FUNDING"
      [] Decide(checks) = "ALLOW" \/ confirmed -> "proceed"
      [] OTHER -> "CONFIRMATION_REQUIRED"

Enforce(checks, confirmed, requireRisk) ==
    LET decision == Decide(checks)
    IN  IF requireRisk /\ ~HasRisk(checks) THEN "POLICY_EVIDENCE_MISSING"
        ELSE CASE decision = "ALLOW" -> "proceed"
               [] decision = "BLOCK" -> "POLICY_BLOCKED"
               [] decision = "REQUIRE_FUNDING" -> "REQUIRE_FUNDING"
               [] OTHER -> IF IntelMissing(checks) THEN "TOKEN_INTEL_UNAVAILABLE"
                           ELSE IF confirmed THEN "proceed" ELSE "CONFIRMATION_REQUIRED"

GuardianDecisions == {"ALLOW", "BLOCK", "REQUIRE_CONFIRMATION", "PREPARE_ONLY"}

\* A mapping that forgets the funding shortfall: its default asks to confirm.
MapFundingToConfirmation(decision, executionAvailable) ==
    CASE decision = "ALLOW" -> IF executionAvailable THEN "ALLOW" ELSE "PREPARE_ONLY"
      [] decision = "BLOCK" -> "BLOCK"
      [] OTHER -> "REQUIRE_CONFIRMATION"

MapEngineDecision(decision, executionAvailable) ==
    CASE decision = "ALLOW" -> IF executionAvailable THEN "ALLOW" ELSE "PREPARE_ONLY"
      [] decision = "BLOCK" -> "BLOCK"
      [] decision = "REQUIRE_FUNDING" -> "PREPARE_ONLY"
      [] OTHER -> "REQUIRE_CONFIRMATION"
=============================================================================
