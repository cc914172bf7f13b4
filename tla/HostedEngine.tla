--------------------------- MODULE HostedEngine ----------------------------
(***************************************************************************)
(* The hosted engine: one command reads the chain through two RPC          *)
(* endpoints and the GoPlus service, scores the parts of its subject and   *)
(* composes them into one verdict.                                         *)
(*                                                                         *)
(* Scores are counted in halves, for a component adds half of its own; a   *)
(* report rounds.  A command is a record with every field of EmptyCommand. *)
(***************************************************************************)
EXTENDS CalldataVerdict

CONSTANTS Commands,    \* the commands an agent may run
          BaseFacts,   \* what the chain holds at every address
          ShopFacts,   \* the contracts that may be at Shop
          RpcChains    \* the chains the two endpoints may report

\* The primary endpoint and its fallback, in the order they are tried.
Rpcs == <<"primary", "fallback">>

GoplusAttempts == 3
ThreatIntelFloor == 31
ContainerFloor == 45

FundMoving == {"transfer", "swap", "bridge", "yield_deposit", "vault_deposit", "staking", "tokenized_asset"}
UrlActions == {"fiat_ramp", "reward_campaign", "x402_payment"}
DepositClass == {"bridge", "yield_deposit", "vault_deposit", "staking"}
Subjects == {"wallet", "contract", "vault", "pool"}

\* action is one of Subjects for a single address, at, else an intent.
EmptyCommand ==
    [action |-> None, at |-> None, wallet |-> None, token |-> None, tokenOut |-> None,
     target |-> None, payTo |-> None, amount |-> "none", url |-> {}, hasUrl |-> FALSE,
     call |-> NoCall, batch |-> NoBatch, goodTx |-> TRUE, pacific |-> TRUE]

-----------------------------------------------------------------------------
(* Scores                                                                  *)

Add(s, n) == s + 2 * n
AtLeast(s, n) == IF s >= 2 * n THEN s ELSE 2 * n
Reported(s) == Min({100, (s + 1) \div 2})

\* Mutant: the component's own score is no floor.
ComposeAdding(s, sub, cap) == IF sub > 30 THEN s + Min({2 * cap, sub}) ELSE s

ComposeComponent(s, sub, cap) ==
    AtLeast(IF sub > 30 THEN s + Min({2 * cap, sub}) ELSE s, sub)

\* What a link may be, and what each adds.
UrlWeights == [notWeb |-> 60, http |-> 45, credentials |-> 50, ipLiteral |-> 35, private |-> 45,
               punycode |-> 35, port |-> 15, long |-> 10]

UrlRisk(traits) ==
    LET add(t) == IF t \in traits THEN UrlWeights[t] ELSE 0
    IN IF "malformed" \in traits THEN 40
       ELSE Min({90, add("notWeb") + add("http") + add("credentials") + add("ipLiteral")
                     + add("private") + add("punycode") + add("port") + add("long")})

-----------------------------------------------------------------------------
(* The analyzers of one address                                            *)

\* The facts of an address: whether it has code; whether that code is a
\* proxy, a token, a token that takes an official symbol, a copy of a verified
\* contract, permissioned, a few bytes small, or no longer what the registry
\* recorded; what its metadata and GoPlus' flags add; whether it never sent a
\* transaction, or holds nothing; the tokens it holds as a vault or a pool.
NoFacts ==
    [code |-> FALSE, proxy |-> "none", token |-> FALSE, claims |-> FALSE, copy |-> FALSE,
     perm |-> "none", small |-> FALSE, drifted |-> FALSE, extra |-> 0, flags |-> 0, fresh |-> FALSE,
     empty |-> FALSE, holds |-> {}]

PermissionedAdd == [none |-> 0, erc3643 |-> 10, paused |-> 35, erc1400 |-> 12, partial |-> 5]

Facts ==
    [code : BOOLEAN, proxy : {"none", "plain", "recognized", "broken"}, token : BOOLEAN,
     claims : BOOLEAN, copy : BOOLEAN, perm : DOMAIN PermissionedAdd, small : BOOLEAN,
     drifted : BOOLEAN, extra : Nat, flags : Nat, fresh : BOOLEAN, empty : BOOLEAN,
     holds : SUBSET Addresses]

\* Only an intent carries a call, and only a call of multiSend a batch.
ASSUME CommandAssumption ==
    /\ \A c \in Commands :
        /\ c.action \in Subjects => c.call.sel = None
        /\ c.batch.calls \in Seq(InnerCalls(c.batch))
        /\ c.batch.calls # <<>> => c.call.sel = "multiSend"
    /\ BaseFacts \in [Addresses -> Facts] /\ ShopFacts \subseteq Facts

\* A failed read is swallowed: of the proxy slots, the token's surface, the
\* permissioned interface.
Swallowed == {"proxy", "symbol", "permissioned"}

IsProxy(f, failed) == f.proxy # "none" /\ "proxy" \notin failed
LooksToken(f, failed) == f.token /\ "symbol" \notin failed

\* Byte-identical to a verified contract, which a proxy's shell never is.
CodeRecognized(f, failed) ==
    \/ f.copy /\ ~IsProxy(f, failed)
    \/ f.proxy = "recognized" /\ IsProxy(f, failed)

ProxyAdd(f, failed) ==
    IF ~IsProxy(f, failed) THEN 0 ELSE IF f.proxy = "broken" THEN 40 ELSE 10

SurfaceScore(a, f, failed) ==
    IF LooksToken(f, failed)
    THEN f.extra + PermissionedAdd[IF "permissioned" \in failed THEN "none" ELSE f.perm]
         + (IF a \in OfficialTokens.contracts THEN 8 ELSE IF f.claims THEN 90 ELSE 15)
    ELSE IF f.copy /\ ~IsProxy(f, failed) THEN 15 ELSE 40

\* Mutant: a token GoPlus answered for without data counts as vetted.
VettedByAnswer(f, failed, intel) == intel \in {"data", "unindexed"}

\* GoPlus has a verdict; it "unindexed" a token it never saw, "drift" is an
\* answer whose fields cannot be read.
Vetted(f, failed, intel) ==
    intel = "data" \/ (intel = "unindexed" /\ ~LooksToken(f, failed))

IntelAdd(f, failed, intel) ==
    CASE intel = "data" -> f.flags
      [] intel = "unindexed" /\ LooksToken(f, failed) -> 10
      [] OTHER -> 0

AnalyzeContract(a, f, failed, intel) ==
    IF ~f.code THEN 95
    ELSE IF a \in KnownInfra THEN (IF f.drifted THEN 80 ELSE 5)
    ELSE LET sum == SurfaceScore(a, f, failed) + (IF f.small THEN 15 ELSE 0)
                    + ProxyAdd(f, failed) + IntelAdd(f, failed, intel)
             official == LooksToken(f, failed) /\ a \in OfficialTokens.contracts
         IN IF Vetted(f, failed, intel) \/ official \/ CodeRecognized(f, failed)
            THEN Min({100, sum})
            ELSE Min({100, Max({sum, ThreatIntelFloor})})

\* An address GoPlus says nothing of counts as unreachable.
AnalyzeWallet(f, expectWallet, intel) ==
    LET sum == 10 + (IF expectWallet /\ f.code THEN 35 ELSE 0)
               + (IF ~f.code /\ f.fresh THEN 25 ELSE 0)
               + (IF f.empty THEN 15 ELSE 0)
               + (IF intel = "data" THEN f.flags ELSE 0)
    IN Min({100, IF intel = "data" THEN sum ELSE Max({sum, ThreatIntelFloor})})

-----------------------------------------------------------------------------
(* The steps of a command                                                  *)

Part(kind, role, at, cap) == [op |-> kind, role |-> role, at |-> at, cap |-> cap]
Step(op) == Part(op, None, None, 0)
When(c, steps) == IF c THEN steps ELSE <<>>
Is(a) == a \in Addresses

TransferPlan(c) ==
    <<Step("acting"), Part("wallet", "recipient", c.payTo, 35), Step("denylist"),
      Step("amount"), Step("exposure"), Step("history"), Step("carried")>>

SwapPlan(c) ==
    <<Step("acting"), Part("contract", "tokenIn", c.token, 40),
      Part("contract", "tokenOut", c.tokenOut, 40), Step("eligibility"),
      Step("exposure"), Step("history"), Step("carried")>>

RealFiPlan(c) ==
    When(Is(c.wallet), <<Step("acting"), Step("history")>>)
    \o When(Is(c.token), <<Part("contract", "token", c.token, 40)>>)
    \o (IF Is(c.target) THEN <<Part("contract", "target", c.target, 0)>>
        ELSE When(c.action \notin UrlActions, <<Step("noTarget")>>))
    \o When(c.action \notin UrlActions /\ Is(c.token) /\ Is(c.target) /\ Is(c.wallet),
            <<Step("allowance")>>)
    \o <<Step("carried"), Step("simulate")>>
    \o When(Is(c.wallet) /\ ~Is(c.token), <<Step("amount")>>)
    \o When(c.action \in UrlActions,
            <<Step("url")>> \o When(Is(c.payTo), <<Part("wallet", "payTo", c.payTo, 35), Step("denylist")>>))

\* A vault or a pool is read, then what it holds, then weighed itself.
ContainerPlan(holds) ==
    <<Step("surface")>>
    \o SetToSeq({Part("contract", t, t, 25) : t \in holds})
    \o <<Step("container")>>

Plan(c, holds) ==
    CASE c.action = "wallet"   -> <<Part("wallet", "subject", c.at, 0)>>
      [] c.action = "contract" -> <<Part("contract", "subject", c.at, 0)>>
      [] c.action \in {"vault", "pool"} -> ContainerPlan(holds)
      [] c.action = "transfer" -> TransferPlan(c)
      [] c.action = "swap"     -> SwapPlan(c)
      [] OTHER                 -> RealFiPlan(c)

\* cmdAnalyze and analyzeIntent: what is refused before any read.
Invalidates(c) ==
    \/ ~c.pacific
    \/ c.action \notin Subjects \cup FundMoving \cup UrlActions
    \/ c.action \in Subjects /\ ~Is(c.at)
    \/ c.action \in FundMoving /\ ~Is(c.wallet)
    \/ c.action = "transfer" /\ ~Is(c.payTo)
    \/ c.action = "swap" /\ ~(Is(c.token) /\ Is(c.tokenOut))

HasCall(c) == c.call.sel # None

StartScore(c) == IF c.action \in Subjects THEN (IF c.action \in {"vault", "pool"} THEN 30 ELSE 0) ELSE 20

\* What a vault's own reads may add: no assets, no timelock, a curator nobody
\* guards; a pool's: an empty side.
Weaknesses(c) == IF c.action = "vault" THEN {0, 10, 15, 25, 30, 40} ELSE {0, 20}

\* The share of the wallet's holdings that moves, when it can be priced.
ExposureAdds(c) ==
    IF c.amount \in {"small", "most", "over"}
       /\ (c.action = "transfer" \/ c.token \in OfficialTokens.contracts)
    THEN {0, 15, 25} ELSE {0}

AmountAdd(c) ==
    CASE c.amount = "over" -> IF c.action = "transfer" THEN 40 ELSE 25
      [] c.amount = "most" -> IF c.action = "transfer" THEN 15 ELSE 0
      [] OTHER -> 0

\* The target is never composed: a registered contract is trusted.
TargetScore(s, c, f, sub) ==
    IF ~f.code THEN AtLeast(s, 95)
    ELSE IF ClassifyCounterparty(c.target) THEN s
    ELSE AtLeast(s, Max({sub, IF c.action \in DepositClass THEN 45 ELSE ThreatIntelFloor}))

\* Mutant: an intent that moves a token skips the decode.
CarriedForRealFi(s, c) ==
    IF HasCall(c) /\ c.action \notin {"transfer", "swap"} THEN AtLeast(s, CarriedFloor(c.call, c.batch)) ELSE s

\* The decode of a carried call is a floor, whatever the action.
Carried(s, c) == IF HasCall(c) THEN AtLeast(s, CarriedFloor(c.call, c.batch)) ELSE s

-----------------------------------------------------------------------------
(* The run of a command                                                    *)

VARIABLES cmd,       \* the command, EmptyCommand between two
          shop,      \* what is at Shop
          drifted,   \* whether Morpho's code changed since it was recorded
          rpcChain,  \* the chain each endpoint reports
          plan,      \* the steps left
          stage,     \* of the first one: "probe" or "intel"
          attempt,   \* of the GoPlus request
          score,     \* so far, in halves
          parts,     \* by role: [score, perm, intel] of a component
          status     \* "idle", "running", "done", "failed"

engineVars == <<cmd, shop, drifted, rpcChain, plan, stage, attempt, score, parts, status>>

FactsOf(a) ==
    CASE a = Shop -> shop
      [] a = Morpho -> [BaseFacts[a] EXCEPT !.drifted = drifted]
      [] OTHER -> BaseFacts[a]

EngineTypeOK ==
    /\ cmd \in Commands \/ cmd = EmptyCommand
    /\ shop \in ShopFacts /\ drifted \in BOOLEAN /\ rpcChain \in RpcChains
    /\ stage \in {"probe", "intel"} /\ attempt \in 1..GoplusAttempts
    /\ score \in Nat
    /\ \A r \in DOMAIN parts : parts[r].score \in 0..100
    /\ status \in {"idle", "running", "done", "failed"}

EngineIdle ==
    /\ cmd = EmptyCommand /\ shop = NoFacts /\ drifted = FALSE
    /\ rpcChain = [e \in Range(Rpcs) |-> Pacific]
    /\ plan = <<>> /\ stage = "probe" /\ attempt = 1 /\ score = 0 /\ parts = <<>>
    /\ status = "idle"

Mentioned(c) == {c.at, c.wallet, c.token, c.tokenOut, c.target, c.payTo}

\* What the chain holds is varied only where the command looks.
Run ==
    /\ status = "idle"
    /\ \E c \in Commands, f \in ShopFacts, d \in BOOLEAN, chains \in RpcChains :
        /\ f = NoFacts \/ Shop \in Mentioned(c)
        /\ ~d \/ Morpho \in Mentioned(c)
        /\ cmd' = c /\ shop' = f /\ drifted' = d /\ rpcChain' = chains
        /\ score' = StartScore(c)
        /\ IF Invalidates(c)
           THEN plan' = <<>> /\ status' = "failed"
           ELSE /\ plan' = Plan(c, IF c.at = Shop THEN f.holds ELSE {})
                /\ status' = "running"
    /\ UNCHANGED <<stage, attempt, parts>>

Now(op) == status = "running" /\ plan[1].op = op
InPart == Now("contract") \/ Now("wallet")

\* The first step is over, with this score.
Finish(s) ==
    /\ score' = s
    /\ plan' = Tail(plan)
    /\ stage' = "probe" /\ attempt' = 1
    /\ status' = IF Len(plan) = 1 THEN "done" ELSE "running"

\* A report of its own, whatever was to follow.
Conclude(s) ==
    /\ score' = s /\ plan' = <<>> /\ status' = "done"
    /\ UNCHANGED <<stage, attempt>>

Fail ==
    /\ status' = "failed" /\ plan' = <<>>
    /\ UNCHANGED <<cmd, shop, drifted, rpcChain, stage, attempt, score, parts>>

\* An endpoint serves a read when it is up and has reported the right chain.
Servers(up) == {i \in DOMAIN Rpcs : Rpcs[i] \in up /\ rpcChain[Rpcs[i]] = Pacific}

ServedBy(up) == Servers(up) # {}

\* The component of the first step joins the score.
Composed(sub) ==
    LET role == plan[1].role
    IN CASE role = "subject" -> 2 * sub
         [] role = "target"  -> TargetScore(score, cmd, FactsOf(plan[1].at), sub)
         [] OTHER            -> ComposeComponent(score, sub, plan[1].cap)

JoinPart(sub, perm, intel) ==
    /\ Finish(Composed(sub))
    /\ parts' = [role \in DOMAIN parts \cup {plan[1].role} |->
                  IF role = plan[1].role THEN [score |-> sub, perm |-> perm, intel |-> intel]
                  ELSE parts[role]]

\* A contract without code, or one of the registry, is never looked up.
EarlyReturn == plan[1].op = "contract" /\ (~FactsOf(plan[1].at).code \/ plan[1].at \in KnownInfra)

ProbeAddress ==
    /\ InPart /\ stage = "probe"
    /\ \E up \in SUBSET Range(Rpcs) : ServedBy(up)
    /\ IF EarlyReturn
       THEN JoinPart(AnalyzeContract(plan[1].at, FactsOf(plan[1].at), {}, "none"), "none", "none")
       ELSE stage' = "intel" /\ UNCHANGED <<plan, attempt, score, status, parts>>
    /\ UNCHANGED <<cmd, shop, drifted, rpcChain>>

\* A read that no endpoint serves, or a GoPlus limit, is no verdict.
RpcDown ==
    /\ \/ InPart /\ stage = "probe"
       \/ Now("acting") \/ Now("surface") \/ Now("simulate")
    /\ Fail

GoplusRetry ==
    /\ InPart /\ stage = "intel" /\ attempt < GoplusAttempts
    /\ attempt' = attempt + 1
    /\ UNCHANGED <<cmd, shop, drifted, rpcChain, plan, stage, score, parts, status>>

\* An answer at any attempt, or none after the last or on a refusal.
GoplusAnswer ==
    /\ InPart /\ stage = "intel"
    /\ LET at == plan[1].at
           f == FactsOf(at)
       IN IF plan[1].op = "wallet"
          THEN \E intel \in {"data", "unreachable"} :
                JoinPart(AnalyzeWallet(f, plan[1].role = "subject", intel), "none", intel)
          ELSE \E intel \in {"data", "unindexed", "drift", "unreachable"}, failed \in SUBSET Swallowed :
                JoinPart(AnalyzeContract(at, f, failed, intel),
                         IF LooksToken(f, failed) /\ "permissioned" \notin failed THEN f.perm ELSE "none",
                         intel)
    /\ UNCHANGED <<cmd, shop, drifted, rpcChain>>

\* The acting wallet is read; its history weighs later.
ProbeActing ==
    /\ Now("acting")
    /\ \E up \in SUBSET Range(Rpcs) : ServedBy(up)
    /\ Finish(score)
    /\ UNCHANGED <<cmd, shop, drifted, rpcChain, parts>>

\* A container without code, or whose contents cannot be read, ends there.
ReadSurface ==
    /\ Now("surface")
    /\ \E up \in SUBSET Range(Rpcs) : ServedBy(up)
    /\ \/ ~FactsOf(cmd.at).code /\ Conclude(190)
       \/ FactsOf(cmd.at).code /\ Conclude(120)
       \/ /\ FactsOf(cmd.at).code
          /\ Cardinality(FactsOf(cmd.at).holds) = IF cmd.action = "vault" THEN 1 ELSE 2
          /\ Finish(score)
    /\ UNCHANGED <<cmd, shop, drifted, rpcChain, parts>>

Paused(p) == p.perm = "paused"
Gated(p) == p.perm \in {"erc3643", "paused"}

\* A leg the wallet may not hold right now; an unread answer is no evidence.
Eligibility(s) ==
    LET legs == {parts["tokenIn"], parts["tokenOut"]}
    IN IF \E p \in legs : Paused(p) THEN {AtLeast(s, 70)}
       ELSE IF \E p \in legs : Gated(p) THEN {s, AtLeast(s, 70)}
       ELSE {s}

\* Simulation needs a transaction; a malformed one adds, a revert adds more.
Simulated(s) ==
    IF ~HasCall(cmd) THEN {s} ELSE IF ~cmd.goodTx THEN {Add(s, 10)} ELSE {s, Add(s, 35)}

ContainerScores(s) ==
    {AtLeast(Add(s, w + ProxyAdd(FactsOf(cmd.at), failed)), ContainerFloor) :
        w \in Weaknesses(cmd), failed \in {{}, {"proxy"}}}

Weighed(op, s) ==
    CASE op = "denylist"    -> {IF IsDenylistedRecipient(cmd.payTo) THEN AtLeast(s, 95) ELSE s}
      [] op = "amount"      -> {Add(s, AmountAdd(cmd))}
      [] op = "exposure"    -> {Add(s, n) : n \in ExposureAdds(cmd)}
      [] op = "history"     -> {IF FactsOf(cmd.wallet).fresh THEN Add(s, 10) ELSE s}
      [] op = "eligibility" -> Eligibility(s)
      [] op = "carried"     -> {Carried(s, cmd)}
      [] op = "simulate"    -> Simulated(s)
      [] op = "noTarget"    -> {AtLeast(s, IF cmd.action \in DepositClass THEN 45 ELSE 35)}
      [] op = "allowance"   -> {s, Add(s, 20)}
      [] op = "url"         -> {IF cmd.hasUrl THEN Add(s, UrlRisk(cmd.url)) ELSE AtLeast(s, 35)}
      [] op = "container"   -> ContainerScores(s)

PureSteps == {"denylist", "amount", "exposure", "history", "eligibility", "carried",
              "simulate", "noTarget", "allowance", "url", "container"}

Weigh ==
    /\ \E op \in PureSteps : Now(op)
    /\ ~(Now("amount") /\ cmd.action = "transfer" /\ cmd.amount = "bad")
    /\ \E s \in Weighed(plan[1].op, score) : Finish(s)
    /\ UNCHANGED <<cmd, shop, drifted, rpcChain, parts>>

\* A transfer's amount that is no positive decimal is refused this late.
RefuseAmount == Now("amount") /\ cmd.action = "transfer" /\ cmd.amount = "bad" /\ Fail

Report ==
    /\ status \in {"done", "failed"}
    /\ cmd' = EmptyCommand /\ shop' = NoFacts /\ drifted' = FALSE
    /\ rpcChain' = [e \in Range(Rpcs) |-> Pacific]
    /\ plan' = <<>> /\ stage' = "probe" /\ attempt' = 1 /\ score' = 0 /\ parts' = <<>>
    /\ status' = "idle"

EngineInit == EngineIdle

EngineNext ==
    Run \/ ProbeAddress \/ RpcDown \/ GoplusRetry \/ GoplusAnswer \/ ProbeActing
    \/ ReadSurface \/ Weigh \/ RefuseAmount \/ Report

-----------------------------------------------------------------------------
(* Properties                                                              *)

Recommendation == ScoreToRec(Reported(score))

\* A registered target whose code is no longer the one that was verified.
DriftedTarget(role) == role = "target" /\ cmd.target \in KnownInfra /\ FactsOf(cmd.target).drifted

\* composeComponent, evaluateCarriedTx: an intent is never scored softer than a
\* component the run scored, but a drifted target, nor than what it carries; a
\* call that is worth a warning cannot hide behind the bound of a batch.
IntentNeverSofterUnlessDrifted ==
    status = "done" =>
        /\ \A role \in DOMAIN parts : DriftedTarget(role) \/ Reported(score) >= parts[role].score
        /\ HasCall(cmd) => Reported(score) >= CarriedFloor(cmd.call, cmd.batch)
        /\ \A c \in InnerCalls(cmd.batch) : InnerFloor(c) > 30 => Recommendation # "allow"

\* goplusGet and the floors of analyzeContract, analyzeWallet: nothing GoPlus
\* has not vetted is allowed, alone or within an intent, whatever reads failed,
\* but official tokens and contracts known by their code.
Unvetted(role) ==
    /\ parts[role].intel \in {"unindexed", "drift", "unreachable"}
    /\ LET at == IF role = "subject" THEN cmd.at
                 ELSE IF role \in {"recipient", "payTo"} THEN cmd.payTo
                 ELSE IF role \in {"token", "tokenIn"} THEN cmd.token
                 ELSE IF role = "tokenOut" THEN cmd.tokenOut
                 ELSE IF role = "target" THEN cmd.target ELSE role
       IN /\ at \notin OfficialTokens.contracts
          /\ ~FactsOf(at).copy /\ FactsOf(at).proxy # "recognized"

UnvettedNeverAllowed ==
    status = "done" => \A role \in DOMAIN parts : Unvetted(role) => Recommendation # "allow"

=============================================================================
