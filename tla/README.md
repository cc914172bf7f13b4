# SafeHands in TLA+

SafeHands is a TypeScript server (MCP tools, an HTTP API, a worker) between an
AI agent and the Pharos chain. It judges what the agent wants to do, signs with
a managed wallet when its policy agrees, relays transactions that users signed
themselves, and attests on chain what it relayed; a skill package carries a
second, standalone judge. This directory holds TLA+
models of its core, TLC configurations that check them, and proofs that TLAPS
checks. `src/` below is the source directory of the program; in PROJECT.json
its files are named from the root of the repository copy (`src/src/...`).

    tlc -workers 2 -config MCWritePath_cap.cfg MCWritePath    # a run
    tlapm WritePathProofs.tla                                 # a proof module

PROJECT.json lists the runs, the mutants (a plausible bug per property that the
run must notice), the source lines behind every definition, the findings, the
hazards and the theorems.

## 1. Inventory

### Modelled

| component | state | operations | hard part | what makes it correct |
|---|---|---|---|---|
| daily spend accumulator, `src/lib/spendAccumulator.ts` | a counter per wallet with its UTC date, in memory and in `spend_history.json` | check, record, reserve (check and record, no await between), release, load | midnight between reserve and release, failed saves, restarts | the counter never passes the limit, and what a wallet pays on a day stays within it |
| write tools, `src/tools/{sendPayment,executeSwap,x402PayAndFetch,approveToken}.ts`, `src/lib/managedExecution.ts` | none of their own between calls; per call: a reservation, an approval, a broadcast | gate, evidence, policy, quote, allowance, approve, simulate, reserve, send, receipt, release | up to eight awaits per call with any other call in between, lost answers, crashes | reserve before broadcast; release exactly what never landed; allowances do not add up |
| write gate and action policy, `src/lib/policy/{actionPolicyEngine,writeExecutionGate}.ts`, `src/tools/safehands{PreflightCheck,SafeExecute}.ts`, `src/lib/guardian/decision.ts` | none | evaluate checks, decide, enforce, map to the public verdict | evidence changes between the report and the execution; two switches read one decision | nothing is signed that the gate did not pass; evidence never weakens a decision; verdict and gate agree |
| prepared transactions and relay, `src/lib/preparedTxStore.ts`, `src/api/{broadcastRoutes,walletPrepareRoutes}.ts`, `src/lib/pharos/userSignedBroadcaster.ts` | records by id with `usedAt` and `expiresAt`, in memory and in a file | prepare, sweep, cap, check, verify, mark, broadcast, hand over | the check is an await away from the mark; every write replaces the whole file | one broadcast per record, of what was prepared and allowed; bounded store |
| attestation queue, `src/lib/pharos/attestationPublisher.ts`, `src/worker.ts`, `contracts/SafeHandsAttestation.sol` | records with status and attempts, per process and in one file; the ledger of the contract | publish, sweep, simulate, write, receipt, fail, status | overlap of first attempts, sweeps and processes; retry after an unknown outcome; crash in an attempt | attested once, confirmed only when true, nothing forgotten, retried until attested |
| risk registry batching, `src/lib/{merkleBatcher,riskInclusion}.ts`, `scripts/flushBatchToMainnet.ts`, `src/tools/{publishRiskScore,verifyRiskInclusion}.ts`, `contracts/SafeHandsRegistry.sol` | the queue file, the batch files, root and pointer of the contract | publish, flush (read, write the batch, commit, wait, clear), set operator, verify | a queue file shared by processes without a lock, a commit minutes long, three reads of a root that moves | the pointer never dangles, what is queued is committed, what is called included was committed |
| API access, `src/api/{server,toolRoutes}.ts`, `src/lib/observability/*` | quota windows per tier and caller, a ring of recent activity with counters | resolve a key, count, decide access, route, record | key, quota, access and route are decided in an order; windows end; the ring wraps; restarts | at most two limits in any window's length; a key never hurts; the relay and the write tools need a key; the feed is the last records |
| x402 gate and replay store, `src/api/{x402Gate,paidRoutes}.ts`, `src/lib/x402ReplayStore.ts`, `src/x402Server.ts` | authorizations seen, in Redis and in a file two servers share; what has been settled | check and record, verify, run, settle | a fallback from one store to the other, lost answers of Redis and of settlements, a retry of SET, a file without a lock | one use per store and window; what is refused was recorded; no answer without a charge, no charge without an answer unless the server does not hear of it |
| guardian agent and analysis routes, `src/agent/*`, `src/api/{agentRoutes,routes}.ts`, `src/lib/policy/policyPresets.ts`, `src/lib/analysis/*` | none between requests | classify, choose a tool, read, judge, merge with policy and evidence, denylist | a read that fails; a policy in the request; many ways to dress one request | failed reads and request policies never soften; the denylist blocks |
| hosted engine, `anvita/safehands/scripts/safehands-engine.js` | the endpoints it has checked, within one command | analyze a wallet, a contract, a vault, a pool, an intent | failover between endpoints, retries of the threat intelligence, scores composed of parts | an intent is not softer than its parts; what nobody vetted is not allowed; one chain |
| risk engine, `src/lib/riskEngine.ts` | none between assessments | score slippage, liquidity, counterparty, balance, market; recommend | probes that fail one by one | to proceed takes evidence |
| agent policy file, `src/lib/policy/agentPolicy.ts`, `src/tools/{set,get}AgentPolicy.ts` | a file per agent and a default one, which all processes share; the built-in profiles, which each process holds | load, set, save, fall back | a file is emptied before it is written, by several processes; a loaded policy may be a built-in profile by reference | no limit is wider than what was saved or built in |
| ecosystem registry, `src/lib/ecosystemRegistry.ts`, `src/data/ecosystemRegistry.data.ts`, `src/lib/pharos/ecosystem*.ts` | a static list and its index | look up an address, a provider, a category | one index for two chains | recognition is not trust; the list keeps its own rules |

How they interact. A write tool calls the gate (which calls the policy, which
reads the accumulator), then the accumulator, then the chain; the tools share
the counter of their wallet and the router's allowance, nothing else.
`safehands_safe_execute` runs the policy once for its report and then calls a
tool with `confirm: true`, which runs it again. The relay is called by users
over HTTP; after a broadcast it calls `publishAttestation`, synchronously or
not. The queue's timer runs in the API process, and in `worker.ts` when that is
deployed; both use the same file. Risk records travel through the queue file
from any server process to the flush script, and through the chain and the
server of the batch files to whoever verifies them.

Every HTTP request first passes key, quota and access; a paid one also passes
the gate, which asks the replay store before the payment middleware verifies.
The agent calls the same analysis that the routes offer, and all of it reads the
one registry. The hosted engine shares no code with the server: it carries a
generated copy of the registry and its own port of the calldata rules, which is
why `Verdicts` composes both. The risk engine feeds the write tools, where its
answer is a free choice of WriteGate. So is what a limit of an agent's policy
answers: the gate reads the file in one go at each evaluation, and WriteGate
lets every comparison with a limit come out either way.

### Not modelled

| component | state and operations | why not |
|---|---|---|
| signer and wallets, `src/lib/signer`, `src/lib/wallet` | wallet files; create, load, choose | a choice by configuration and one atomic write; whether a signer is there is free in WriteGate |
| price resolver, `src/lib/price/*` | a cache per feed | its outcome is free in WriteGate |
| HTTP client, `src/lib/http.ts` | none; retries, timeouts | its effects, a lost answer and a repeated call, are in the models of its callers |
| swap quotes, Pharos RPC and SPV, indexer routes, intent preparation, token intelligence | stateless | decoding and hashing: a model would rename the computation |
| the other commands of the hosted engine (health, query, portfolio, proofs, names, gas) | stateless | one read each, no verdict |
| configuration, sanitizing, logging, entry points, consoles, packaging | read once, text, or wiring | configuration enters the models as constants |

## 2. Plan

Most important behaviour first: money, then what may be signed, then what is
relayed, then what is attested.

| order | modules | composes | state |
|---|---|---|---|
| 1 | `SpendAccumulator`, `WritePath`, abstract `DailyBudget`, `MCWritePath`, `WritePathProofs` | WritePath EXTENDS SpendAccumulator, and implements DailyBudget | done |
| 2 | `ActionPolicy`, `WriteGate`, `MCWriteGate`, `WriteGateProofs` | WriteGate EXTENDS ActionPolicy | done |
| 3 | `PreparedRelay`, `MCPreparedRelay`, `RelayProofs` | | done |
| 4 | `AttestationQueue`, `MCAttestationQueue`, `AttestationProofs` | the hand-over `HandOver` of 3 is `Publish` of 4 | done |
| 5 | `RiskRegistry`, `MCRiskRegistry`, `RegistryProofs` | | done, except the role of agents in the contract and `tryAutoAuthorize` |
| 6 | `ApiAccess`, `HostedApi`, `MCHostedApi`, `ApiProofs` | HostedApi EXTENDS ApiAccess | done |
| 7 | `TrustRegistry`, `CalldataVerdict`, `GuardianAgent`, `HostedEngine`, `RiskEngine`, `Verdicts`, `MCVerdicts`, `VerdictProofs` | all build on TrustRegistry; the first two engines on CalldataVerdict; Verdicts joins the three and 8 | done |
| 8 | `AgentPolicyFile`, `AgentPolicyProofs` | | done |

The modules stand for a third of the implementation's lines. What would come
after that: the wallets as files that processes share, the cache of prices, two
processes on one `spend_history.json`, and the evidence of WriteGate computed
by the modules of 7 instead of chosen.

Every safety property that a run checks is also a theorem, for all values of
the constants (section 7). What is left to prove are the types of the modules
that have no such theorem yet; liveness stays with TLC.

## 3. Modules and the code

An action is what a handler does between two awaits: Node.js runs nothing else
in between, and everything else may run at each await. Variables that only
properties read (`relDay`, `raced`, `shared`, `cut`, `current`, `log`, `checked`,
`admitted`, `overlapped`, `savedLimits`, `sharedAssigned`) are history: no
guard mentions them. `settled` and `unheard` of `HostedApi` are not among them:
they are the chain's state and what is on its way to it.

### SpendAccumulator and DailyBudget

`buckets` is the Map in memory, `disk` the file. `CheckDailyLimit`,
`RecordSpend`, `ReserveDailyLimit`, `ReleaseReservation` and `LoadBuckets` are
the functions of the same names. A release touches the bucket of *today*; when
the wallet has none it does nothing. A save that fails is logged and the call
goes on (`DiskMayFail`). Amounts are whole dollars instead of floating-point
ones: rounding of binary fractions is not modelled.

`DailyBudget` is the abstract promise: a call is granted part of a day's
budget, then spends it for good or gives it back, once; grants stay within the
limit plus what other days gave back on that day. The last clause is what the
code does, not what one would want; section 4 shows the difference.

### WritePath

`req` is the call's input, `pc` the await it is at, `held` and `resDay` the
local `reserved` flag of the tools and the day it was set, `chain` and `paid`
what happens outside, `allowance` and `approved` the token contract's view.

| code | actions |
|---|---|
| `sendPayment.ts` | `StartCall`, `PaymentGate`, `PaymentDecide`, `PaymentBroadcast` |
| `executeSwap.ts` | `StartCall`, `SwapGate`, `SwapRoute`, `SwapAllowance`, `SwapApprove`, `SwapSimulate`, `SwapBroadcast` |
| `x402PayAndFetch.ts` | `StartCall`, `X402Probe`, `X402Respond` |
| the chain and the paid server (external) | `NodeAccepts`, `Mine`, `Revert`, `X402Settle` |
| process and clock | `Crash`, `MidnightPasses` |

The policy's verdict and the services' answers are free choices here (go on or
return); WriteGate models how they are made. What is kept is the order: early
cap check, awaits, reservation with no await before the broadcast, and which
exit releases. Nonces are left out: a wallet's transactions land in any order,
which is more than the chain allows. `execute_swap` waits for its approval's
receipt but does not read its status (`executeSwap.ts:272`), so
`SwapApprove` goes on after a reverted one. Faults are named: `lost_answer` (a
broadcast or receipt wait fails although the transaction lands) and
`unread_challenge` (the paying fetch settles an amount nobody validated).

### ActionPolicy and WriteGate

`ActionPolicy` is pure: `Checks(input)` is the set of checks that
`evaluateActionPolicy` makes for the six actions, `Decide` the classification
and the remap after it, `Enforce` is `enforceWriteDecision`, `MapEngineDecision`
the public verdict. An input is a record of outcomes of comparisons (over the
limit or not, balance enough, short or unread), chosen freely, so every
combination is reached, also those no test names. `WriteGate` makes requests:
through the tool itself, through `safehands_safe_execute`, or as a report by
`safehands_preflight_check`; with or without confirmation; again after every
answer. What a service says is chosen when it answers, so two attempts may see
different evidence. No caller in the repository passes `walletBalancePhs` to
the policy except the report, so only `ClaimedInputs` vary the balance; and only
`approve_token` passes `ALLOW_UNLIMITED_APPROVAL` on, so that a swap's own
approval and a report judge an unlimited one without it (`unlimitedOk`). A report neither signs nor changes anything for a later
attempt, so the request that asks for one is bounded to be the only one.

### PreparedRelay

`mem` and `disk` are the store and its file, `order` the creation order,
`expired` how many are past the TTL. A request goes through `Submit` (reload,
usedAt, hash, decision), `Verify` (signer recovered, fields compared, mark,
offer), `NodeTakes`/`Answered`/`NodeRefuses`/`LoseAnswer`, and with synchronous
attestation `Respond`. The `to` field is compared only when the signed
transaction has one, so a contract creation (`no_to`) with the record's sender,
value, data and chain passes under any recipient: `PassesFieldChecks` is what the
code compares, and `RelayedAsPreparedUnlessCreation` excepts the creation by
name (section 4). Hashes and signatures are reduced to what the
checks compare (`differs`). The HTTP client posts a broadcast again after a
lost answer; a transaction the node already has is offered nothing new by that,
so only the lost answer remains. A write of the file may fail: `prepare` then
answers with an error while the record stays in memory.

### AttestationQueue

`file` and `mem[p]` are the store file and each process's copy; `upsert` writes
the whole copy. An activity is a first attempt (named by its transaction) or a
sweep; its job carries the record as the sweep read it, which is how the code
works through a list that was made before its awaits. `ledger` is the list of
attestation transactions in the order they were sent, each in the pool,
attested or reverted; `Attestable` is the contract's two `AlreadyAttested`
checks. Its role check and its checks for zero are left out: each would be one
more revert, and what is attested in the end is so for an attester that keeps
its role. Time is
not modelled: a record waiting for its retry may be due or not. A list is
worked off in any order. Failed writes of this file are covered in
PreparedRelay, where they change what a response says.

### RiskRegistry

`queue` is the queue file; one that cannot be parsed counts as empty, as both
readers of it treat it. `queueRiskRecord` and `clearPendingRecords` are
synchronous, so a process reads and writes the file in one go (`AtFile`); the
file has no lock, so another process may come between (`QueueReads`,
`QueueWrites` are two steps), may find the file cut, as `writeFileSync` first
truncates it (`QueueReadsCut`), or a process may die there (`ServerDies`). The
awaits of `publish_risk_score` before the queue change nothing and are folded
into `QueueReads`, its early returns into `GivesUp`. A flush is `FlushReads`
(read, build the tree, write the batch file), `FlushSends`, `FlushEnds` and at
any await `FlushStops`. `txs` are the commits of the flushing account in the
order of their nonces, `Mine` is `commitRiskRoot`. Hashes are the sets they are
made of: `RootOf` pairs the leaves as merkletreejs does with `sortPairs`, which
is exact up to four of them. `verify_risk_inclusion` is `StartRead`, the two
reads that run at once, `Prove` (fetch, find, compare) and `View`; `target`
stands for the target together with the action hash. What the batch server
answers is a published batch under its pointer, nothing, or with `other_batch`
any batch.

### ApiAccess and HostedApi

`ApiAccess` is pure: `Resolve` reads the configured keys (a later entry replaces
an earlier one with the same key), `EvaluateAccess` is the access decision,
`TierFor`, scopes, tool gateway and the statuses of the paid handlers are the
tables of the code. `HostedApi` is a request's way through it. `Receive` is the
synchronous part of the middleware (resolve, count, decide, route), `Finish` a
free handler and its record in the ring, `RedisGet`, `RedisSet`, `FileRead` and
`FileWrite` the replay check, `Verify`, `RunPaid` and `Settle` the payment
middleware around the handler. `PaidGate` looks at `X-PAYMENT` only: a request
without it, or with a payment in another header that the middleware reads
(`via`), goes on to `Verify` without a store's pass. The charge and the answer
are two steps: `SettlementLands` is the chain, which takes a settlement that was
sent at any time after, and `Settle` is the result at the server, which may be
lost, so that the payer gets a 402 while the money moves or has moved. Such a
settlement, and one under way when the API restarts, is in `unheard`. Redis applies a SET whose answer is lost, and the
client then sends it again. `FileRead` and `FileWrite` are one synchronous call
of one server, in which the other server may write; `overlapped` notes that.
`Restart` empties what the API keeps in memory. The x402 server has a quota of
its own, no keys, and the paid routes but the report; there, a payment header
that does not decode is recorded in the replay store like any other and fails
at the verification, so it is one of `Payments` (`ProfileAssumption`). Only
the API restarts in the model; the x402 server keeps nothing but its counters in
memory, and to a payer its restart is a lost result. The middleware, the facilitator, the chain, Redis and the clock are
external and take every answer their callers handle.

### TrustRegistry and CalldataVerdict

`TrustRegistry` holds the registry with one address of every kind, the rules
its tests impose (`ValidRegistry`, assumed and evaluated), the index, and what
an address, a provider and a category amount to. `CalldataVerdict` judges a
decoded call twice, as `analysis/calldata.ts` with `approval.ts` does and as the
hosted engine does (`CallFloor`). A call is a selector, parties and an amount of
which only zero, some, the unlimited ones and the half range are told apart; a
word may be clean or have dirty upper bytes, and calldata may be short.

### GuardianAgent, HostedEngine, RiskEngine, Verdicts

`GuardianAgent` takes a request at `/agent/check`, at `/guardian/check` or at an
analysis route: `Receive`, `RouteIntent` (classify, choose the tool, read the
chain, analyze), `Enrich` (three reads that answer or time out), `Decide` (tool
verdict, policy, evidence, denylist), `RefuseInput` for what no schema takes.
`HostedEngine` runs one command: its `plan` is the list of steps that the code
takes in that order, of which each reads (`ProbeAddress`, `GoplusRetry`,
`GoplusAnswer`, `ProbeActing`, `ReadSurface`) or weighs (`Weigh`). A read is
served by the first endpoint that is up and has reported the right chain, or
ends the command (`RpcDown`); reads that the code swallows are `Swallowed` and
fail inside an answer. Scores are the code's numbers. Only a simulation that
carries calldata is modelled. `RiskEngine` makes the reads of one assessment,
each of which answers or fails, and then the weighted score and the
recommendation. `Verdicts` lets one of the three, or the policy file, run at a
time: they share the registry and no state.

### AgentPolicyFile

`policyFile` is the directory: per agent, and for `default`, no file, one that
does not parse, or a policy. `profiles` is what each process holds as
`POLICY_PROFILES`, and `setCall` the save it is in the middle of. A policy
stands for one of its limits, since limits and flags are loaded and assigned
alike; the entries of a call are assigned in order, so one that is refused may
have assigned this limit or not. `SetNamedProfile` clones a profile;
`SetCustomPolicy` changes what `LoadAgentPolicy` returned, which is an object of
its own when a file was parsed and the built-in profile otherwise.
`OpenPolicyFile` and `WritePolicyFile` are the two halves of `writeFileSync`, of
which either may fail, after either of which the process may die
(`RestartPolicyProc`), and between which another process may write the same
file. A handler holds no await, so one process has one call at a time.

## 4. Runs

| run | asks | result |
|---|---|---|
| `write_cap` | three calls of one wallet, two days, a crash, an outside without faults | holds: `BucketWithinLimit`, `BooksBalance` (counter = sum of held reservations), `LandedIsHeld`, `CapUpToLateReleases`, `AllowanceIsOneSwap`, and `KeepsBudget`: WritePath implements DailyBudget |
| `write_returns` | two calls of any tool with lost answers, unread challenges, failed saves and a crash | holds: `EveryCallReturns`, and `RevertedIsReleased`, a reverted transaction gives its budget back (that the counter stays within the limit under these faults, too, is the theorem `CounterWithinLimit`) |
| `write_midnight` | the cap as `spendAccumulator.ts` states it | **violated**: a reservation of yesterday, released today, frees budget of today |
| `gate` | every tool, door, confirmation and combination of evidence, two attempts | holds: `SignedPassedTheGate`, `EvidenceNeverWeakens`, `VerdictIsHonoured` |
| `relay` | two requests, two records, a store of one, every configuration, lost answers, failed writes, a crash | holds: `OneRelayUnlessRaced` (one relay per record unless two requests had it checked at once), `RelayedAsPreparedUnlessCreation`, `AttestsOnlyTheRelayed`, `StoreBounded`, `MarkIsForGood` |
| `relay_race` | two requests for one record at once | **violated**: both are broadcast, although the mark before the broadcast is meant to exclude it |
| `queue` | the API and perhaps a worker, two first attempts beside a sweep, one throw or restart | holds: `WriteOnce`, `ConfirmedIsAttested` always; `NeverForgotten`, `SendsAreCounted`, `ConfirmedForGood` in one process |
| `queue_attests` | one process, fair | holds: a transaction with a prepared hash of its own is attested in the end |
| `registry` | two servers that publish, two flushes that overlap, a reader; cut writes, crashes, reverts, a revoked operator, a batch server that answers with another batch | holds: `RootIsAvailable`, `QueuedIsKept`, `IncludedIsGenuine` |
| `api` | two or three requests of every kind on two servers under six configurations, payments in either header, lost answers of Redis and of settlements, a full disk, a restart, ends of windows | holds: `OncePerStore`, `RefusedWasRecorded`, `QuotaHolds`, `RecentIsLastRecorded`, `KeyNeverHurts`, `RelayAndWriteToolsAreKeyed`, `PaidIsServedUnlessUnheard` |
| `verdict` | requests, commands and assessments of every kind, with failing reads, failovers, retries and every answer of the threat intelligence; two processes that set policies, die and overlap while they save | holds: `FailedReadNeverRelaxes`, `DenylistedIsBlocked`, `TightenedNeverSofterUnlessDecimal`, `IntentNeverSofterUnlessDrifted`, `UnvettedNeverAllowed`, `ProceedsOnEvidence`, `EnginesAgree`, `RaisedOnlyBySavingUnlessShared` |
| `policy_shared` | a call of `set_agent_policy` without a named profile, for an agent without a file, with no `default.json` | **violated**: the built-in profile itself is changed, so that a call that is refused raises the limits of every agent |

The three violations are the findings of PROJECT.json, each with the line that
says otherwise. Some divergences met on the way have no run:

- a payment whose answer is lost is released and may still land: the cap is
  exceeded (`LandedIsHeld` fails with `lost_answer`; `CapUpToLateReleases` and
  the theorem about it speak only of reservations still held);
- with `unread_challenge`, an x402 settlement may exceed `maxPaymentUsdc`;
- `pushCheck` adds neither reason nor required action for an `unknown` check, so
  a question may name no reason (`actionPolicyEngine.ts:155`);
- a broadcast whose answer is lost is reported as failed and never attested,
  against "If SafeHands broadcasts it, SafeHands attests it"
  (`contracts/SafeHandsAttestation.sol:16`);
- a signed contract creation with the record's sender, value, data and chain is
  relayed under a record that names a recipient (`broadcastRoutes.ts:57`), though
  the prepared hash is described as "binding the verdict to those exact bytes"
  (`docs/AGENT_INTEGRATION.md:67`); `RelayedAsPreparedUnlessCreation` and its
  theorem except it;
- when the result of a settlement is lost, or the API restarts before it, the
  payer may be charged and get a 402 or nothing, and the same authorization is
  refused as used when it is brought again (`x402Server.ts:162`,
  `x402Gate.ts:160`); `PaidIsServedUnlessUnheard` excepts these settlements, and
  shows that there are no others;
- the replay stores see `X-PAYMENT` only (`x402Gate.ts:146`,
  `x402Server.ts:223`): a payment that the middleware takes from another header
  passes none of them, and the chain alone keeps it from being spent twice;
- what changes state is not keyed as such: anonymous callers of
  `/wallet/prepare` write the store of prepared transactions
  (`walletPrepareRoutes.ts:102`); its cap is what `StoreBounded` is about;
- the API and the worker overwrite each other's copy of the queue's file, though
  `worker.ts:4` asks for a separate service; `NeverForgotten` is therefore
  claimed of one process;
- of two overlapping attempts of one record, the one that reverts saves
  `failed` over `confirmed`; `ConfirmedForGood` excludes such records, and no
  text in the repository promises more;
- a risk record queued while a flush waits for its receipt is cleared without
  having been committed, although its caller was told "Risk record queued for
  next L2 Merkle Batching cycle" (`publishRiskScore.ts:166`); `QueuedIsKept`
  leaves such records out (`raced`);
- `safehands_safe_execute` confirms, in the caller's name, soft checks that its
  report did not have (`safehandsSafeExecute.ts:166`), against
  `docs/DECISION_CONTRACT.md:13` and `:63`;
- the same payment prepared and relayed twice has one prepared hash
  (`preparedTxStore.ts:76`), which `contracts/SafeHandsAttestation.sol:113` takes
  once: the second is never attested, and `UniqueAttestedEventually` excludes it;
- an authorization that Redis has seen passes the file store once more while
  Redis is away, unless Redis is required (`x402ReplayStore.ts:76`), and the file
  store loses an entry when both servers write it at once;
- the quota map keeps a window per caller for ever, though the header of
  `quota.ts` calls it bounded;
- a deposit whose target is registered but has other code than was recorded
  skips that target's score (`safehands-engine.js:1376`), against "An intent
  verdict must NEVER be more permissive than any sub-analysis it performed"
  (lines 484-485); `IntentNeverSofterUnlessDrifted` leaves such a target out;
- the profile of a file that does not parse is wider than a custom policy that
  was stricter than `conservative`; no text promises more than "never `balanced`";
- after a call has changed a built-in profile, a later one that names that
  profile saves the changed limits under its name (`setAgentPolicy.ts:43`);
- where the two engines part: an official token or a contract of SafeHands as
  spender is known to one only; a `transferFrom` with a dirty source is a block
  in one and a warning in the other; so are some calls inside a batch
  (`EnginesAgree` excludes them, `test/engine-differential.test.mjs:16-23` lists
  no difference);
- a native or approval limit of a request that is no whole amount ("0.5") passes
  the merge when it is below the preset's (`policyPresets.ts:124`), and then
  `bigintOrNull` reads it as no limit at all (`agentPolicyResolver.ts:66`), so
  that neither it nor the preset's is compared, against "TIGHTEN-ONLY"
  (`policyPresets.ts:108`); `TightenedNeverSofterUnlessDecimal` leaves such
  limits out;
- Permit2 and Safe have an entry per chain and the index keeps the last, so that
  on Pacific they give a note and no trust (`ecosystemRegistry.ts`);
- `safeTx.ts:3` says that every inner call is analyzed as its own; an inner
  `setApprovalForAll`, permit or transfer to a denylisted address only asks for
  confirmation;
- an address to analyze, and `to` at `/guardian/check`, is not compared with the
  denylist; a denylist block keeps the next step of the verdict it replaced; an
  input that no tool can read is left to confirm before the denylist is asked;
- `riskEngine.ts:253-255` degrades a recipient whose probes fail, but a failed
  read of the code followed by a zero balance scores 30 as if it had been read;
- in the hosted engine, a swallowed read of the proxy slots or of the
  permissioned interface may lower a vetted token's score, and an endpoint of
  the wrong chain during a simulation counts as a revert, which only escalates;
- each root replaces the one before it, so `currentMerkleRoot` covers the last
  batch and not "all active risk records" (`contracts/SafeHandsRegistry.sol:38`);
  the model shows it in `Mine`.

## 5. Bounds

Constants are small where the argument is symmetric and as large as the
interesting case needs:

- *WritePath.* Three calls are needed for the midnight case (one fills today,
  one is released late, one takes the freed budget) and for a swap between two
  others; amounts 1..2 with limit 2 give the exact fit, the overflow and a
  release larger than the bucket; ceiling 1 separates the operator's ceiling
  from the cap; one wallet, as calls of different wallets share nothing but the
  file, which is written per wallet. Two days have one midnight. `write_cap`
  takes one kind of swap (the one with an allowance); `write_returns` takes all
  four tools on one day and two calls.
- *WriteGate.* Two attempts: one that asks, one that is confirmed.
- *PreparedRelay.* Two records in a store of one make the cap evict; two
  requests are the race; two transactions differ in their nonce; one crash.
- *AttestationQueue.* Two transactions, with one hash or two; a sweep; two or
  three attempts; `MaxWrites` bounds the ledger, `MaxActive` the overlap,
  `MaxTroubles` throws and restarts together. In `queue_attests` the attempts
  outnumber the ways to use one up (a throw, an overlap): that is the condition
  under which the code keeps its promise, and with fewer attempts it does not.
- *RiskRegistry.* Two records, two servers and two flushes make every overlap of
  two processes at the file, and a queue of two makes a root of two leaves; two
  targets separate a record that is found from one that is not; one reader, as
  readers share nothing. One change of the root between two reads is enough to
  pair it with another batch's pointer; there are two commits.
- *HostedApi.* A quota of one for one tier is overrun by three requests in two
  windows; two uses of one authorization are the replay, on one server and on
  two; a ring of two wraps at the third record; windows of two ticks and two
  ticks of time reach their boundary exactly; one restart. What is sent to an
  environment is chosen per environment (`Traffic`), as an open API and a paid
  one share nothing but the quota.
- *Verdicts.* One address of every kind the registry tells apart, on Pacific.
  Amounts lie on both sides of every limit. The bound of inner calls is one
  where the code has 64, so that batches of two pass it. What the chain holds is
  varied at two addresses, and only when the command looks there. Overrides have
  whole limits on both sides of the presets', and one that is no whole amount.
- *AgentPolicyFile.* Two processes overlap; one agent and `default` make the
  fallback; asked limits lie below and above all profiles; three calls and one
  restart or edit let a save be cut, written over, and governed by another file.
  `default.json` is missing, as in the container image; with it present the
  same holds and the violation needs a malformed file first.

Deadlock is checked in `verdict`, whose programs return to idle. It is not in the
others: calls, requests and attempts are finite in number, and a behaviour ends
when all have been made.

## 6. Fairness

- *WritePath*: weak fairness of each call's handler. Each await of a handler
  ends: the RPC transport and the HTTP client have timeouts, and viem stops
  waiting for a receipt (the fault `lost_answer`). Nothing is assumed of the
  chain: a transaction may stay in the pool for ever. That is why
  `write_returns` allows lost answers: without them a call would wait.
- *AttestationQueue*: weak fairness of each activity (viem's timeouts again), of
  the sweep over all that waits (the timer fires for ever, and every waiting
  record is due at some time), and of mining. The last is an assumption about
  Pharos; without it no attestation can be promised.
- The relay, the gate, the registry, the API, the policy file and the engines have no liveness properties of their own.

## 7. Proofs

All theorems are for any values of the constants that satisfy the `ASSUME` of
the module, which TLC evaluates in the runs. Those of `AccumulatorAssumption`,
`QueueAssumption` and the like give types and positive bounds. Four say more,
and what the code does before the modelled steps justifies each:

- `ProfileAssumption`: a request names a server, a header, and an authorization,
  none, or on the API one that does not decode; the x402 server does not tell
  that one from an authorization until the middleware verifies it.
- `RequestAssumption`: amounts are numbers, and so is what `Number()` made of a
  limit of an override.
- `CommandAssumption`: only an intent reads `--data`, and only a `multiSend`
  payload is opened as a batch; the facts of an address are of the shapes that
  the analyzers tell apart.
- `RegistryIsValid`: the rules the repository's own tests impose on the registry.

**WritePathProofs.** The invariant `CapInv` joins the types, "the file equals
the memory" (assumed to be so when a save cannot fail or nothing crashes),
a per-call part `CallInv` (which stages hold a reservation, of which day, with
which state of the chain and which payment) and a per-wallet part `WalletInv`:
the reservations held of today cost no more than today's counter plus what
other days released on it, and those of any day no more than the limit plus
what was released late on it; the second part carries the limit past midnight.
`BucketWithinLimit` alone says nothing about payments, and `DailyCapHolds` alone
is not preserved: a step needs to know that who lands still holds. Sums are
cardinalities of sets of (call, dollar) pairs, which keeps the argument about
adding and removing one call within set theory.

- `TypeCorrect`, `CounterWithinLimit`: always, whatever fails.
- `CapKeptUpToLateReleases`: for all faults, if a save cannot fail or nothing
  crashes.
- `LandedStaysHeld`: unless answers are lost.
- `DailyCapKept`: the cap as the source states it, on one UTC day, without
  faults. `write_midnight` shows that "one day" is needed; the other two
  assumptions are the divergences listed above.
- `BooksKeepBalance`: under the condition on saves. `BooksInv` adds to
  `CapInv` that no bucket is of a day to come, so that a release finds in the
  bucket what it subtracts.
- `AllowanceStaysOneSwap`: always. `AllowanceInv` adds which stages belong to a
  swap, for only its approval changes the allowance, and replaces it.
- `ImplementsDailyBudget`: the refinement, step by step, unless answers are lost
  and under the condition on saves. `GrantOf` maps a call to its phase in the
  ledger; `CapInv` supplies what the ledger's guards ask for: a reservation
  fits (`WalletInv`), a mined call still holds, a released one was not spent.
  With lost answers the map fails, as it should: a call is released and lands.

**WriteGateProofs.** `GateIsSound` and `MoreEvidenceIsStricter` are about any
set of checks, not only those the handlers produce. `EverySignaturePassedTheGate`
needs an invariant that connects stages and checks: at `route`, `allowance` and
`sign` the stored checks passed the gate under the stored confirmation.
`VerdictHonouredAlways` and `EvidenceNeverWeakensAlways` follow for every
behaviour.

**RelayProofs.** One invariant, `RelayInv`, carries all of it. That a record
stands for one transaction needs what both copies of the store say of it: once
a request is past the mark, the record is usable in neither the file nor the
memory (`SentIsSpent`), also after a reload, an eviction or a crash, because a
copy never brings back a mark that the file has (`CopyKeepsMarks`) and sweeps
and caps remove the oldest first. Requests between check and broadcast count as
involved, and two of them with one record have raced (`InvolvedRaced`).
`OnlyThePreparedOrACreationIsRelayed` rests on `SentPassedChecks`, which follows
a request from the checks through the await in which its signer is recovered,
and on `SentIsSpent`: what is on its way has a record that neither copy holds as
usable. `MarksAreForGood` is an action property.

**AttestationProofs.** `LedgerIsWriteOnce` is inductive by the contract's check;
`ConfirmedIsTrue` needs in addition that an activity past its send points at a
ledger entry of its own transaction (`WritesAreOwn`), across retries, sweeps,
processes and restarts. For one process, `SingleInv` says that file and memory
agree, that a queued record is in the file, and, of a record that one activity
at most had on hand, that its count covers every transaction sent for it
(`CountInv`); a list made before an await is part of it. `NothingIsForgotten`,
`EverySendIsCounted`, `SendsAreBounded` (at most `MAX_ATTEMPTS` transactions per
record) and the action property `ConfirmedIsForGood` follow.

**RegistryProofs.** `RootAlwaysAvailable` carries "every batch offered to the
chain is published" along. `QueuedAloneIsKept` needs more than the queue: a
flush clears it long after it read it, and a server replaces it by an older
copy, so `KeptInv` says of everything a process has in hand that it, too, covers
what was queued alone; each write keeps that since a record queued while
another process is at the file is in `raced`. `IncludedAlwaysGenuine` follows a
reader across its two reads (`ReaderInv`): the root it read was the contract's
at some moment of the call, and what it found hashes to that root.

**ApiProofs.** Four invariants, one per concern, each on top of `RequestInv`,
which says what a request at each stage has passed, that the chain spends an
authorization once (`SpentOnce`), and of every settlement on its way that its
request has been vetted and is at the settlement or was given up (`ChargeOK`);
`RelayAndWriteToolsNeedAKey` and `PaidIsServed` follow from it. `StoreInv`: what a store
accepted it remembers for a window, in the file unless another server wrote over
it, and what it holds some check put there; `PassesAStoreOnce` and
`RefusedIsRecorded` are the two directions. `QuotaInv`: a bucket counts at least
what its caller was granted in its window and in the one before, hence twice the
quota in any stretch across the boundary. `RingInv`: every slot, counted back
from the head, holds its record of the log, also once the ring wraps.

**VerdictProofs.** The three engines keep no state between two requests, so
their invariants say that what a run holds is what its input and its reads make
of it.

- `ProceedsOnlyOnEvidence`: `RiskInv`, where a recipient's score comes from.
- `AFailedReadNeverRelaxes`, `ARequestOnlyTightens`,
  `ADenylistedPaymentIsBlocked`: `GuardianInv` says that the answer is
  the verdict on the request and on what was read; the rest are lemmas that
  compare two verdicts: analyzer, policy, evidence and denylist only escalate,
  and each is monotone in what is read and in the limits.
- `BothEnginesAgree`: case by case over selectors and parties; it rests on
  `VerifiedOnPacific`, that the two copies of the registry list the same
  spenders.
- `AnIntentIsNeverSofter`, `TheUnvettedIsNeverAllowed`: `EngineInv`.
  `LeftToRun` says that what is left of a plan are steps of the command's own
  kind, `Covered` that the score, in halves, is at least twice that of every
  component that joined it, and at least the floor if GoPlus did not vet it,
  and `CarriedCovered` that the decode of a carried call is still ahead or
  already covered. A registered target is never composed; it is covered all the
  same because an intent starts at 20 and such a target scores 5, unless its
  code has drifted. `BatchFloors` shows that no call hides behind the bound of a
  batch, for any bound.

**AgentPolicyProofs.** `PolicyTypeCorrect` is the type invariant.
`LimitsAreAccounted` needs three facts beside it: the profiles are the built-in
ones until a call assigns to one (`ProfilesAsBuilt`), what can be read from a
file is what its last save, or one under way, was to write (`FilesAsSaved`), and
so is the text of every write under way (`WritesAsSaved`), without which an
overlapping write could leave a limit nobody accounts for.

Model-checked only: liveness (`EveryCallReturns`, `RevertedIsReleased`,
`UniqueAttestedEventually`), which is beyond the prover, and the three
properties that are violated. `RelayProofs`, `AttestationProofs`,
`WritePathProofs` and `AgentPolicyProofs` state their type invariants as
theorems; in the other modules types are part of the inductive invariants as
far as an argument needs them.
