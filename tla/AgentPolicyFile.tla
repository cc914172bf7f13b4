-------------------------- MODULE AgentPolicyFile --------------------------
(***************************************************************************)
(* src/lib/policy/agentPolicy.ts and src/tools/setAgentPolicy.ts: the      *)
(* policy of each agent, a file that the MCP server, the API and the CLI   *)
(* share, and the built-in profiles that each of them holds in memory.     *)
(*                                                                         *)
(* A policy stands for one of its limits: all are loaded, copied and       *)
(* assigned alike, and a call that is refused for one entry has assigned   *)
(* those before it.  A handler runs without an await; what other processes *)
(* and a crash can see of it is the file, opened empty and then written.   *)
(***************************************************************************)
EXTENDS Naturals, FiniteSets

CONSTANTS
    PolicyProcs,        \* the processes that share the directory
    PolicyAgents,       \* the agents that may have a file of their own
    PolicyShipped,      \* default.json is installed, as the npm package does
    AskedLimits,        \* what a caller or an operator may ask for
    MaxPolicyCalls,     \* bound: calls of set_agent_policy
    MaxPolicyTroubles   \* bound: restarts and edits by hand

\* POLICY_PROFILES, by one limit.
BuiltInProfiles == [conservative |-> 1, balanced |-> 2, advanced |-> 3]

ASSUME PolicyFileAssumption ==
    /\ "default" \notin PolicyAgents
    /\ PolicyShipped \in BOOLEAN
    /\ AskedLimits \subseteq Nat
    /\ MaxPolicyCalls \in Nat /\ MaxPolicyTroubles \in Nat

VARIABLES
    policyFile,     \* [names -> what the file holds]
    profiles,       \* [PolicyProcs -> profiles]: the object each process holds
    setCall,        \* [PolicyProcs -> the call that is saving]
    savedLimits,    \* [names -> limits of the last save, and of those under way]
                    \* (read by properties only)
    sharedAssigned, \* a call has assigned to a built-in profile (read by properties only)
    policyCalls, policyTroubles

policyVars == <<policyFile, profiles, setCall, savedLimits, sharedAssigned, policyCalls, policyTroubles>>

PolicyNames == PolicyAgents \cup {"default"}

Holding(limit) == [is |-> "whole", limit |-> limit]
MissingFile == [is |-> "missing", limit |-> 0]
\* Empty, cut short, or not a policy: existing-but-invalid.
MalformedFile == [is |-> "malformed", limit |-> 0]

NotSaving == [at |-> "none", name |-> "default", limit |-> 0]

Saving == [at : {"none", "open", "write"}, name : PolicyNames, limit : Nat]

\* Files, profiles and calls are of their types, and the bounds are kept.
PolicyTypeOK ==
    /\ policyFile \in [PolicyNames -> [is : {"missing", "malformed", "whole"}, limit : Nat]]
    /\ profiles \in [PolicyProcs -> [DOMAIN BuiltInProfiles -> Nat]]
    /\ setCall \in [PolicyProcs -> Saving]
    /\ savedLimits \in [PolicyNames -> SUBSET Nat]
    /\ sharedAssigned \in BOOLEAN
    /\ policyCalls \in 0..MaxPolicyCalls /\ policyTroubles \in 0..MaxPolicyTroubles

PolicyInit ==
    /\ policyFile = [n \in PolicyNames |-> IF n = "default" /\ PolicyShipped
                                           THEN Holding(BuiltInProfiles.balanced) ELSE MissingFile]
    /\ profiles = [p \in PolicyProcs |-> BuiltInProfiles]
    /\ setCall = [p \in PolicyProcs |-> NotSaving]
    /\ savedLimits = [n \in PolicyNames |-> IF n = "default" /\ PolicyShipped
                                            THEN {BuiltInProfiles.balanced} ELSE {}]
    /\ sharedAssigned = FALSE
    /\ policyCalls = 0 /\ policyTroubles = 0

-----------------------------------------------------------------------------
(* loadAgentPolicy                                                         *)

\* The file that governs an agent.
Governing(name) == IF policyFile[name].is # "missing" THEN name ELSE "default"

\* Mutant: a file that does not parse leaves the agent to the profile for none.
FallbackToBalanced(name) ==
    IF policyFile[Governing(name)].is = "whole" THEN "file" ELSE "balanced"

\* Where its policy is from: the parsed file, or a profile, by reference.
PolicySource(name) ==
    CASE policyFile[Governing(name)].is = "whole" -> "file"
      [] policyFile[Governing(name)].is = "malformed" -> "conservative"
      [] OTHER -> "balanced"

LoadAgentPolicy(p, name) ==
    IF PolicySource(name) = "file" THEN policyFile[Governing(name)].limit
                                   ELSE profiles[p][PolicySource(name)]

-----------------------------------------------------------------------------
(* set_agent_policy                                                        *)

BeginSave(p, name, limit) ==
    setCall' = [setCall EXCEPT ![p] = [at |-> "open", name |-> name, limit |-> limit]]

\* A named profile is cloned, and may be overridden; an invalid entry ends the
\* call without a trace.
SetNamedProfile(p) ==
    /\ setCall[p] = NotSaving /\ policyCalls < MaxPolicyCalls
    /\ \E name \in PolicyNames, profile \in DOMAIN BuiltInProfiles :
        \E limit \in AskedLimits \cup {profiles[p][profile]} : BeginSave(p, name, limit)
    /\ policyCalls' = policyCalls + 1
    /\ UNCHANGED <<policyFile, profiles, savedLimits, sharedAssigned, policyTroubles>>

\* Profile custom, or none: the loaded policy is changed in place, which is the
\* built-in profile itself when no file was parsed.  An invalid entry ends the
\* call after the entries before it.
SetCustomPolicy(p) ==
    /\ setCall[p] = NotSaving /\ policyCalls < MaxPolicyCalls
    /\ \E name \in PolicyNames, valid \in BOOLEAN :
        \E limit \in AskedLimits \cup {LoadAgentPolicy(p, name)} :
            /\ IF PolicySource(name) = "file"
               THEN UNCHANGED <<profiles, sharedAssigned>>
               ELSE /\ profiles' = [profiles EXCEPT ![p][PolicySource(name)] = limit]
                    /\ sharedAssigned' = (sharedAssigned \/ profiles' # profiles)
            /\ IF valid THEN BeginSave(p, name, limit) ELSE UNCHANGED setCall
    /\ policyCalls' = policyCalls + 1
    /\ UNCHANGED <<policyFile, savedLimits, policyTroubles>>

EndSave(p) == setCall' = [setCall EXCEPT ![p] = NotSaving]

\* writeFileSync opens the file, which empties or creates it, or fails.
OpenPolicyFile(p) ==
    /\ setCall[p].at = "open"
    /\ LET name == setCall[p].name
       IN  \/ /\ policyFile' = [policyFile EXCEPT ![name] = MalformedFile]
              /\ savedLimits' = [savedLimits EXCEPT ![name] = @ \cup {setCall[p].limit}]
              /\ setCall' = [setCall EXCEPT ![p].at = "write"]
           \/ EndSave(p) /\ UNCHANGED <<policyFile, savedLimits>>
    /\ UNCHANGED <<profiles, sharedAssigned, policyCalls, policyTroubles>>

\* Writes of the same file that are under way beside that of p.
OtherWrites(p) ==
    {q \in PolicyProcs \ {p} : setCall[q].at = "write" /\ setCall[q].name = setCall[p].name}

\* It writes the text from the start: over the text of another process the end
\* of a longer one remains; a full disk cuts it.
WritePolicyFile(p) ==
    /\ setCall[p].at = "write"
    /\ LET name == setCall[p].name
       IN  \/ /\ policyFile' \in {[policyFile EXCEPT ![name] = f] :
                    f \in {Holding(setCall[p].limit)}
                          \cup (IF policyFile[name].is = "whole" THEN {MalformedFile} ELSE {})}
              /\ savedLimits' = [savedLimits EXCEPT ![name] =
                    {setCall[p].limit} \cup {setCall[q].limit : q \in OtherWrites(p)}]
           \/ policyFile' = [policyFile EXCEPT ![name] = MalformedFile] /\ UNCHANGED savedLimits
    /\ EndSave(p)
    /\ UNCHANGED <<profiles, sharedAssigned, policyCalls, policyTroubles>>

\* get_agent_policy, and each evaluation of the policy engine: LoadAgentPolicy,
\* which changes nothing.
GetAgentPolicy(p) == setCall[p] = NotSaving /\ UNCHANGED policyVars

\* The process dies where it is and starts again.
RestartPolicyProc(p) ==
    /\ policyTroubles < MaxPolicyTroubles
    /\ policyTroubles' = policyTroubles + 1
    /\ profiles' = [profiles EXCEPT ![p] = BuiltInProfiles]
    /\ EndSave(p)
    /\ UNCHANGED <<policyFile, savedLimits, sharedAssigned, policyCalls>>

\* The operator writes a policy by hand, well or with a typo, while no call is
\* saving one.
EditPolicyFile ==
    /\ policyTroubles < MaxPolicyTroubles
    /\ policyTroubles' = policyTroubles + 1
    /\ \A p \in PolicyProcs : setCall[p] = NotSaving
    /\ \E name \in PolicyNames :
        \/ \E limit \in AskedLimits :
            /\ policyFile' = [policyFile EXCEPT ![name] = Holding(limit)]
            /\ savedLimits' = [savedLimits EXCEPT ![name] = {limit}]
        \/ policyFile' = [policyFile EXCEPT ![name] = MalformedFile] /\ UNCHANGED savedLimits
    /\ UNCHANGED <<profiles, setCall, sharedAssigned, policyCalls>>

PolicyNext ==
    \/ EditPolicyFile
    \/ \E p \in PolicyProcs :
        \/ SetNamedProfile(p) \/ SetCustomPolicy(p) \/ OpenPolicyFile(p) \/ WritePolicyFile(p)
        \/ GetAgentPolicy(p) \/ RestartPolicyProc(p)

PolicySpec == PolicyInit /\ [][PolicyNext]_policyVars

\* Nothing has been asked of the policies yet.
PolicyIdle == policyCalls = 0 /\ policyTroubles = 0

-----------------------------------------------------------------------------
(* Properties                                                              *)

\* What an agent may come to: a limit that was saved for it, or for all when it
\* has no file of its own; the profile of a malformed file; the profile of none.
Accounted(name) ==
    IF policyFile[Governing(name)].is = "missing" THEN {BuiltInProfiles.balanced}
    ELSE savedLimits[Governing(name)] \cup {BuiltInProfiles.conservative}

WithinSaved(p, name) == \E l \in Accounted(name) : LoadAgentPolicy(p, name) <= l

\* README.md, "raising a limit requires an explicit saved config": in a process
\* that is not in the middle of a call, no agent has a limit wider than a save
\* or a built-in profile accounts for.
RaisedOnlyBySaving ==
    \A p \in PolicyProcs, name \in PolicyNames : setCall[p] = NotSaving => WithinSaved(p, name)

\* invalidPolicyFallback, saveAgentPolicy: until a call assigns to a built-in
\* profile, no crash within a save, no failed or overlapping write and no edit
\* leaves any agent with more than what was saved last, or conservative.
RaisedOnlyBySavingUnlessShared == ~sharedAssigned => RaisedOnlyBySaving

=============================================================================
