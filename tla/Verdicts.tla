------------------------------ MODULE Verdicts ------------------------------
(***************************************************************************)
(* The three programs that judge a transaction before it is signed, the    *)
(* guardian of the API, the hosted engine of the skill package and the     *)
(* risk engine of the MCP server, and the policy file that sets the limits *)
(* of the last.  They share what they know of addresses and calldata and   *)
(* no state, so one of them runs at a time.                                *)
(***************************************************************************)
EXTENDS GuardianAgent, HostedEngine, RiskEngine, AgentPolicyFile

VerdictsInit == GuardianInit /\ EngineInit /\ RiskInit /\ PolicyInit

VerdictsNext ==
    \/ /\ EngineIdle /\ RiskIdle /\ PolicyIdle
       /\ GuardianNext /\ UNCHANGED <<engineVars, riskVars, policyVars>>
    \/ /\ GuardianIdle /\ RiskIdle /\ PolicyIdle
       /\ EngineNext /\ UNCHANGED <<guardianVars, riskVars, policyVars>>
    \/ /\ GuardianIdle /\ EngineIdle /\ PolicyIdle
       /\ RiskNext /\ UNCHANGED <<guardianVars, engineVars, policyVars>>
    \/ /\ GuardianIdle /\ EngineIdle /\ RiskIdle
       /\ PolicyNext /\ UNCHANGED <<guardianVars, engineVars, riskVars>>

verdictVars == <<guardianVars, engineVars, riskVars, policyVars>>

VerdictsSpec == VerdictsInit /\ [][VerdictsNext]_verdictVars

-----------------------------------------------------------------------------
(* Properties                                                              *)

HostedAnswer == [ALLOW |-> "allow", REQUIRE_CONFIRMATION |-> "warn", BLOCK |-> "block"]

\* The calls on which the two engines are known to part: a source word with
\* dirty upper bytes, and a spender only the guardian's registry holds.
KnownToDiffer(call) ==
    \/ call.from = Dirty
    \/ call.party \in OfficialTokens.contracts \cup SafeHandsContracts.contracts

\* test/engine-differential.test.mjs, "the two engines agree": the calldata route
\* and the hosted engine give the same bytes the same verdict on Pacific.
EnginesAgree ==
    /\ Answered /\ entry = "/analyze/calldata" /\ ActiveChain = Pacific
    /\ ~KnownToDiffer(req.call) /\ req.call.sel \notin SafeSelectors
    => HostedAnswer[answer] = ScoreToRec(CallFloor(req.call))

=============================================================================
