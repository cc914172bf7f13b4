--------------------------- MODULE GuardianAgent ---------------------------
(***************************************************************************)
(* The read-only guardian behind POST /guardian/check, /analyze/* and      *)
(* /agent/check: it classifies a request, routes it to one analyzer, reads *)
(* the chain, applies the policy and answers a decision.                   *)
(*                                                                         *)
(* A request is a record with every field of EmptyRequest; None (NoCall)   *)
(* stands for an absent one.  Quantities are counted in halves of the      *)
(* smallest unit, so that an odd one is a decimal string no BigInt takes.  *)
(* A request names no network: the guardian answers for the active one.    *)
(***************************************************************************)
EXTENDS CalldataVerdict

CONSTANTS Requests,            \* what callers may send
          Overrides,           \* the policies a request may carry
          EnvPreset,           \* SAFEHANDS_POLICY_PRESET, or None
          ExecutionAvailable,  \* gates open: never by default
          Contracts            \* the addresses that have code

\* Amounts are numbers, and so are the limits that sanitizeRequestPolicy reads.
ASSUME RequestAssumption ==
    /\ \A r \in Requests : r.value \in Nat /\ r.payment \in Nat /\ r.call.amount \in Nat
    /\ \A o \in Overrides : \A k \in DOMAIN o.limits : o.limits[k] \in Int

Agent == "/agent/check"
Check == "/guardian/check"
AnalyzeRoutes == {"/analyze/tx", "/analyze/contract", "/analyze/approval",
                  "/analyze/calldata", "/analyze/safe", "/analyze/x402"}
Entries == {Agent, Check} \cup AnalyzeRoutes

EmptyRequest ==
    [inputType |-> None, hash |-> None, url |-> None, payment |-> 0, payTo |-> None,
     call |-> NoCall, batch |-> NoBatch, value |-> 0, to |-> None, token |-> None,
     address |-> None, text |-> None, provider |-> None, category |-> None]

HasData(r) == r.call.sel # None

\* a ?? b
Or(a, b) == IF a # None THEN a ELSE b

-----------------------------------------------------------------------------
(* Policies                                                                *)

NumericKeys == {"native", "approval", "x402"}
Switches == {"blockUnlimited", "confirmUnknown"}

\* The amounts of a grant stand for ranges; every preset's limit is above Some.
Standard == [native |-> 20, approval |-> 2, x402 |-> 20, trusted |-> {},
             blockUnlimited |-> TRUE, confirmUnknown |-> TRUE]

PRESETS ==
    [standard |-> Standard,
     strict   |-> [Standard EXCEPT !.native = 2, !.x402 = 2],
     agent    |-> [Standard EXCEPT !.x402 = 10],
     preflight |-> [Standard EXCEPT !.x402 = 2]]

NotWeaker(candidate, baseline) ==
    /\ \A k \in NumericKeys : candidate[k] <= baseline[k]
    /\ \A k \in Switches : baseline[k] => candidate[k]
    /\ Cardinality(candidate.trusted) <= Cardinality(baseline.trusted)

ServerPreset == IF EnvPreset \in DOMAIN PRESETS THEN EnvPreset ELSE "agent"

ResolvePreset(asked) ==
    IF asked \in DOMAIN PRESETS /\ NotWeaker(PRESETS[asked], PRESETS[ServerPreset])
    THEN asked ELSE ServerPreset

\* An override is [preset, limits, on, trusted]: the preset asked for, some
\* limits, the switches asked to be on, addresses to trust (which are ignored).
NoOverride == [preset |-> None, limits |-> <<>>, on |-> {}, trusted |-> {}]

\* Mutant: any number replaces the limit.
SanitizeEither(p, o) ==
    [k \in DOMAIN p |->
        IF k \in NumericKeys \cap DOMAIN o.limits THEN o.limits[k] ELSE p[k]]

SanitizeRequestPolicy(p, o) ==
    [k \in DOMAIN p |->
        CASE k \in NumericKeys ->
                IF k \in DOMAIN o.limits /\ 0 <= o.limits[k] /\ o.limits[k] < p[k]
                THEN o.limits[k] ELSE p[k]
          [] k \in Switches    -> p[k] \/ k \in o.on
          [] OTHER             -> p[k]]

AgentPolicy(o) == SanitizeRequestPolicy(PRESETS[ResolvePreset(o.preset)], o)

IsBigInt(n) == n % 2 = 0

-----------------------------------------------------------------------------
(* Classification and routing                                              *)

ApproveSelectors == {"approve", "permit2Approve"}
SafeSelectors == {"multiSend", "execTransaction"}

ClassifyCall(r) ==
    CASE r.call.sel \in ApproveSelectors ->
            IF r.call.sel = "permit2Approve" \/ Or(r.to, r.token) = Permit2
            THEN "permit2_approval" ELSE "erc20_approval"
      [] r.call.sel \in SafeSelectors -> "safe_transaction"
      [] OTHER -> IF r.value > 0 THEN "raw_transaction_intent" ELSE "unknown_contract_call"

\* The first field that decides wins: a hash or a url hides the calldata.
ClassifyIntent(r) ==
    IF r.inputType # None THEN r.inputType
    ELSE IF r.hash # None THEN "tx_hash_check"
    ELSE IF r.url # None \/ r.payment > 0 THEN "x402_payment_request"
    ELSE IF HasData(r) THEN ClassifyCall(r)
    ELSE IF r.value > 0 THEN "native_transfer"
    ELSE IF r.address # None /\ r.to = None THEN "contract_check"
    ELSE IF r.text \in {"policy_question", "risk_explanation"} THEN r.text
    ELSE "unknown_contract_call"

ToolOf(intent) ==
    CASE intent = "tx_hash_check"        -> "/analyze/tx"
      [] intent = "contract_check"       -> "/analyze/contract"
      [] intent = "erc20_approval"       -> "/analyze/approval"
      [] intent = "permit2_approval"     -> "/analyze/calldata"
      [] intent = "safe_transaction"     -> "/analyze/safe"
      [] intent = "x402_payment_request" -> "/analyze/x402"
      [] intent \in {"policy_question", "risk_explanation"} -> "snapshot"
      [] OTHER                           -> Check

ExecutionIntents ==
    {"native_transfer", "raw_transaction_intent", "unknown_contract_call", "erc20_approval",
     "permit2_approval", "safe_transaction", "x402_payment_request"}

AgentIntents == ExecutionIntents \cup {"tx_hash_check", "contract_check", "policy_question", "risk_explanation"}

\* The tool of a route, with what the agent hands to it.
Tool(entry, r) == IF entry = Agent THEN ToolOf(ClassifyIntent(r)) ELSE entry

Contract(entry, r) == IF entry = Agent THEN Or(r.address, r.to) ELSE r.address

CheckTypes == {None, "tx", "contract", "call"}

\* A request of the check route is a transaction, a contract or a call.
CheckKind(entry, r) ==
    CASE entry = Check /\ (r.hash # None \/ r.inputType = "tx") -> "tx"
      [] entry = Check /\ r.hash = None /\ r.inputType = "contract" -> "contract"
      [] OTHER -> IF r.to # None \/ HasData(r) \/ r.value > 0 THEN "call" ELSE "nothing"

\* What the schema of a tool refuses.
SchemaRefuses(entry, r) ==
    LET tool == Tool(entry, r)
        bad(a) == a \in {None, Invalid}
    IN CASE tool = "/analyze/tx"       -> r.hash \in {None, "bad"}
         [] tool = "/analyze/contract" -> bad(Contract(entry, r))
         [] tool \in {"/analyze/approval", "/analyze/calldata"} ->
                ~HasData(r) \/ r.call.words = "odd"
                \/ (IF entry = Agent THEN Or(r.token, r.to) ELSE r.token) = Invalid
         [] tool = "/analyze/safe"     -> ~HasData(r) \/ r.call.words = "odd"
         [] tool = "/analyze/x402"     -> r.url = None \/ r.payTo = Invalid
         [] tool = Check ->
                \/ r.to = Invalid \/ (HasData(r) /\ r.call.words = "odd")
                \/ entry = Check /\ (r.hash = "bad" \/ r.inputType \notin CheckTypes)
                \/ CheckKind(entry, r) = "tx" /\ r.hash = None
                \/ CheckKind(entry, r) = "contract" /\ r.to = None
         [] OTHER -> FALSE

\* The agent takes any intent a request names, one that no tool answers too.
Refused(entry, r) ==
    SchemaRefuses(entry, r) \/ (entry = Agent /\ ClassifyIntent(r) \notin AgentIntents)

-----------------------------------------------------------------------------
(* The analyzers of a tool; code is what the read of the target said       *)

RiskSeverity == [UNKNOWN |-> 0, LOW |-> 1, MEDIUM |-> 2, HIGH |-> 3, CRITICAL |-> 4]
WorstRisk(levels) == CHOOSE l \in levels : \A o \in levels : RiskSeverity[l] >= RiskSeverity[o]

TargetType(code) == CASE code = "code" -> "contract" [] code = "none" -> "EOA" [] OTHER -> "unknown"

\* The limit of the agent's own policy, on its widest profile.
X402PolicyLimit == 20

AnalyzeX402(r) ==
    IF r.url = "private" \/ r.payment > X402PolicyLimit
    THEN Result("BLOCK", "HIGH", "ok") ELSE Allow

AnalyzeTxHash == Confirm("UNKNOWN", "unavailable")

Analyzers(entry, r, code) ==
    CASE CheckKind(entry, r) = "tx"       -> {AnalyzeTxHash}
      [] CheckKind(entry, r) = "contract" -> {AnalyzeContractCode(r.to, code)}
      [] CheckKind(entry, r) = "call"     ->
            {AnalyzeEvmCall(r.to, HasData(r), r.value, TargetType(code))}
            \cup (IF r.call.sel = "approve" THEN {AnalyzeApproval(r.call)}
                  ELSE IF r.call.sel = "multiSend" THEN {AnalyzeSafeTx("multiSend", r.batch)}
                  ELSE IF r.call.sel \in Decodable THEN {AnalyzeCalldata(r.call)}
                  ELSE {})
      [] OTHER -> {}

\* The recommended impact of the category the request falls in.
Ecosystem(r) ==
    EcosystemCategory(Or(r.address, Or(r.to, r.token)), r.provider, r.category, ActiveChain)

EcosystemEscalation(decision, r) ==
    IF Ecosystem(r) \in EscalatingCategories THEN Worst(decision, "REQUIRE_CONFIRMATION") ELSE decision

\* The check takes no address and no token; the agent passes it no hint either,
\* and the details it gets back are those of the call, which name no spender.
CheckResult(entry, r, code) ==
    LET results == Analyzers(entry, r, code)
        taken == [r EXCEPT !.address = None, !.token = None]
        hinted == IF entry = Agent THEN [taken EXCEPT !.provider = None, !.category = None] ELSE taken
    IN IF results = {} THEN Confirm("UNKNOWN", "ok")
       ELSE Result(EcosystemEscalation(WorstOf({a.decision : a \in results}), hinted),
                   WorstRisk({a.risk : a \in results}), "ok")

Handle(entry, r, code) ==
    LET tool == Tool(entry, r)
    IN CASE tool = "/analyze/tx"       -> AnalyzeTxHash
         [] tool = "/analyze/contract" -> AnalyzeContractCode(Contract(entry, r), code)
         [] tool = "/analyze/approval" -> AnalyzeApproval(r.call)
         [] tool = "/analyze/calldata" -> AnalyzeCalldata(r.call)
         [] tool = "/analyze/safe"     -> AnalyzeSafeTx(r.call.sel, r.batch)
         [] tool = "/analyze/x402"     -> AnalyzeX402(r)
         [] tool = "snapshot"          -> Allow
         [] tool = Check               -> CheckResult(entry, r, code)

-----------------------------------------------------------------------------
(* The agent's verdict on what its tool said                               *)

\* The decisions a policy raises a verdict to.
PolicyRaises(intent, r, details, p) ==
    CASE intent = "native_transfer" ->
            IF IsBigInt(p.native) /\ r.value > p.native /\ r.to \notin p.trusted
            THEN {"REQUIRE_CONFIRMATION"} ELSE {}
      [] intent \in {"erc20_approval", "permit2_approval"} ->
            IF details.unlimited THEN (IF p.blockUnlimited THEN {"BLOCK"} ELSE {})
            ELSE IF IsBigInt(p.approval) /\ 2 * details.amount > p.approval
                    /\ details.spender \notin p.trusted
            THEN {"REQUIRE_CONFIRMATION"} ELSE {}
      [] intent = "x402_payment_request" ->
            IF r.payment > p.x402 THEN {"REQUIRE_CONFIRMATION"} ELSE {}
      [] intent \in {"unknown_contract_call", "raw_transaction_intent"} ->
            IF p.confirmUnknown THEN {"REQUIRE_CONFIRMATION"} ELSE {}
      [] OTHER -> {}

ApplyPolicy(intent, r, details, p) == WorstOf({details.decision} \cup PolicyRaises(intent, r, details, p))

\* What is safe but cannot be executed here is only prepared.
FormatDecision(intent, r, decision) ==
    LET escalated == EcosystemEscalation(decision, r)
    IN IF escalated = "ALLOW" /\ ~ExecutionAvailable /\ intent \in ExecutionIntents
       THEN "PREPARE_ONLY" ELSE escalated

\* Mutant: the denylist is consulted before the verdict and not after it.
JudgeUnlisted(r, details, p) ==
    FormatDecision(ClassifyIntent(r), r, ApplyPolicy(ClassifyIntent(r), r, details, p))

\* The denylist has the last word.
Judge(r, details, p) ==
    LET decision == FormatDecision(ClassifyIntent(r), r, ApplyPolicy(ClassifyIntent(r), r, details, p))
    IN IF IsDenylistedRecipient(r.to) THEN "BLOCK" ELSE decision

\* What an entry answers when the read of the chain says code.
Verdict(entry, r, code, p) ==
    IF entry = Agent
    THEN IF Refused(entry, r) THEN "REQUIRE_CONFIRMATION" ELSE Judge(r, Handle(entry, r, code), p)
    ELSE Handle(entry, r, code).decision

-----------------------------------------------------------------------------
(* The server                                                              *)

VARIABLES entry,     \* the route of the request being answered, or None
          req,       \* the request
          override,  \* the policy it carries
          phase,     \* "idle", "routing", "enriching", "deciding", "done"
          read,      \* what the read of the target's code said
          details,   \* what the tool answered
          evidence,  \* what the enrichment learnt
          answer     \* the decision, None before it and "INVALID" for a bad request

guardianVars == <<entry, req, override, phase, read, details, evidence, answer>>

Evidence == {"reputation", "profile", "gas"}

GuardianTypeOK ==
    /\ entry \in Entries \cup {None}
    /\ req \in Requests \/ req = EmptyRequest
    /\ override \in Overrides \/ override = NoOverride
    /\ phase \in {"idle", "routing", "enriching", "deciding", "done"}
    /\ read \in {"code", "none", "unknown"}
    /\ details.decision \in Decisions
    /\ evidence \subseteq Evidence
    /\ answer \in Decisions \cup {None, "INVALID"}

NoDetails == Confirm("UNKNOWN", "unavailable")

GuardianIdle ==
    /\ entry = None /\ req = EmptyRequest /\ override = NoOverride /\ phase = "idle"
    /\ read = "unknown" /\ details = NoDetails /\ evidence = {} /\ answer = None

CodeAt(a) == IF a \in Contracts THEN "code" ELSE "none"

\* The address whose code the tool reads.
Target(e, r) == IF Tool(e, r) = "/analyze/contract" THEN Contract(e, r) ELSE r.to

\* Only the agent's routes take a policy.
Receive ==
    /\ phase = "idle"
    /\ \E e \in Entries, r \in Requests, o \in Overrides :
        /\ e # Agent => o = NoOverride
        /\ entry' = e /\ req' = r /\ override' = o
    /\ phase' = "routing"
    /\ UNCHANGED <<read, details, evidence, answer>>

\* Mutant: a failed read is taken for no code.
ReadAsEmpty ==
    /\ phase = "routing" /\ ~Refused(entry, req)
    /\ \E code \in {CodeAt(Target(entry, req)), "none"} :
        /\ read' = code
        /\ details' = Handle(entry, req, code)
    /\ phase' = IF entry = Agent THEN "enriching" ELSE "deciding"
    /\ UNCHANGED <<entry, req, override, evidence, answer>>

\* The tool runs; its read of the chain answers or fails.
RouteIntent ==
    /\ phase = "routing" /\ ~Refused(entry, req)
    /\ \E code \in {CodeAt(Target(entry, req)), "unknown"} :
        /\ read' = code
        /\ details' = Handle(entry, req, code)
    /\ phase' = IF entry = Agent THEN "enriching" ELSE "deciding"
    /\ UNCHANGED <<entry, req, override, evidence, answer>>

\* A request no schema takes: the agent asks for confirmation, a route fails.
RefuseInput ==
    /\ phase = "routing" /\ Refused(entry, req)
    /\ answer' = IF entry = Agent THEN "REQUIRE_CONFIRMATION" ELSE "INVALID"
    /\ phase' = "done"
    /\ UNCHANGED <<entry, req, override, read, details, evidence>>

\* Each of the three reads answers or times out.
Enrich ==
    /\ phase = "enriching"
    /\ evidence' \in SUBSET (IF Or(req.to, Or(req.address, req.token)) \in Addresses
                            THEN Evidence ELSE {"gas"})
    /\ phase' = "deciding"
    /\ UNCHANGED <<entry, req, override, read, details, answer>>

Decide ==
    /\ phase = "deciding"
    /\ answer' = IF entry = Agent THEN Judge(req, details, AgentPolicy(override)) ELSE details.decision
    /\ phase' = "done"
    /\ UNCHANGED <<entry, req, override, read, details, evidence>>

Respond ==
    /\ phase = "done"
    /\ entry' = None /\ req' = EmptyRequest /\ override' = NoOverride /\ phase' = "idle"
    /\ read' = "unknown" /\ details' = NoDetails /\ evidence' = {} /\ answer' = None

GuardianInit == GuardianIdle

GuardianNext == Receive \/ RouteIntent \/ RefuseInput \/ Enrich \/ Decide \/ Respond

-----------------------------------------------------------------------------
(* Properties                                                              *)

Answered == phase = "done" /\ answer \in Decisions
AsSevere(d, e) == Severity[d] >= Severity[e]

\* classifyTarget, analyzeContract: an answer given while the chain could not
\* be read is at least as severe as the one the true code would have given.
FailedReadNeverRelaxes ==
    Answered => AsSevere(answer, Verdict(entry, req, CodeAt(Target(entry, req)), AgentPolicy(override)))

\* SafeHandsGuardianAgent.check: an agent's payment to a denylisted account, as
\* the target or inside the transfer it asks about, is blocked, however the
\* request is dressed; only an input no tool can read is left to confirm.
DenylistedIsBlocked ==
    Answered /\ entry = Agent /\ ~Refused(entry, req) =>
        \/ answer = "BLOCK"
        \/ /\ req.to \notin Denylist
           /\ Tool(entry, req) = Check =>
                ~(req.call.sel \in Transfers /\ req.call.words = "exact" /\ req.call.party \in Denylist)

\* resolvePresetName, sanitizeRequestPolicy: the policy a request carries never
\* softens the answer the server's own preset gives, unless the limit it lowers
\* is no whole amount, for then applyPolicy compares with neither.
TightenedNeverSofterUnlessDecimal ==
    Answered /\ entry = Agent
    /\ IsBigInt(AgentPolicy(override).native) /\ IsBigInt(AgentPolicy(override).approval) =>
        AsSevere(answer, Verdict(entry, req, read, PRESETS[ServerPreset]))

=============================================================================
