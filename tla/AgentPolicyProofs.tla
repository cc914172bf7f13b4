------------------------- MODULE AgentPolicyProofs -------------------------
(***************************************************************************)
(* Proofs about AgentPolicyFile, for any number of processes and agents    *)
(* and any limits.                                                         *)
(***************************************************************************)
EXTENDS AgentPolicyFile, TLAPS

\* The profiles are those of the source until a call has assigned to one.
ProfilesAsBuilt == ~sharedAssigned => profiles = [p \in PolicyProcs |-> BuiltInProfiles]

\* A limit that can be read from a file was asked for by the last save of that
\* file, or by one under way; so was the limit of every write under way.
FilesAsSaved ==
    \A name \in PolicyNames : policyFile[name].is = "whole" => policyFile[name].limit \in savedLimits[name]

WritesAsSaved ==
    \A p \in PolicyProcs : setCall[p].at = "write" => setCall[p].limit \in savedLimits[setCall[p].name]

\* The inductive invariant: types, and where every limit is from.
PolicyInv == PolicyTypeOK /\ ProfilesAsBuilt /\ FilesAsSaved /\ WritesAsSaved

-----------------------------------------------------------------------------

Profiles == {"conservative", "balanced", "advanced"}

LEMMA BuiltIns ==
    /\ DOMAIN BuiltInProfiles = Profiles
    /\ BuiltInProfiles \in [Profiles -> Nat]
BY DEF BuiltInProfiles, Profiles

\* What a process loads is a limit.
LEMMA LoadedIsLimit ==
    ASSUME PolicyTypeOK, NEW p \in PolicyProcs, NEW name \in PolicyNames
    PROVE  LoadAgentPolicy(p, name) \in Nat
<1>1. Governing(name) \in PolicyNames
    BY DEF Governing, PolicyNames
<1>2. PolicySource(name) \in {"file", "conservative", "balanced"}
    BY DEF PolicySource
<1>3. policyFile[Governing(name)].limit \in Nat
    BY <1>1 DEF PolicyTypeOK
<1>4. profiles[p]["conservative"] \in Nat /\ profiles[p]["balanced"] \in Nat
    BY BuiltIns DEF PolicyTypeOK, Profiles
<1>5. QED
    BY <1>2, <1>3, <1>4 DEF LoadAgentPolicy

LEMMA InvInit == PolicyInit => PolicyInv
<1> SUFFICES ASSUME PolicyInit PROVE PolicyInv
    OBVIOUS
<1> USE PolicyFileAssumption DEF PolicyInit
<1>1. PolicyTypeOK
    <2>1. policyFile \in [PolicyNames -> [is : {"missing", "malformed", "whole"}, limit : Nat]]
        BY BuiltIns DEF Holding, MissingFile, Profiles
    <2>2. setCall \in [PolicyProcs -> Saving]
        BY DEF NotSaving, Saving, PolicyNames
    <2>3. savedLimits \in [PolicyNames -> SUBSET Nat]
        BY BuiltIns DEF Profiles
    <2>4. profiles \in [PolicyProcs -> [DOMAIN BuiltInProfiles -> Nat]]
        BY BuiltIns
    <2>5. sharedAssigned \in BOOLEAN
        BY ZenonT(20)
    <2>6. policyCalls \in 0..MaxPolicyCalls /\ policyTroubles \in 0..MaxPolicyTroubles
        OBVIOUS
    <2>7. QED
        BY <2>1, <2>2, <2>3, <2>4, <2>5, <2>6 DEF PolicyTypeOK
<1>2. ProfilesAsBuilt
    BY DEF ProfilesAsBuilt
<1>3. FilesAsSaved
    BY DEF FilesAsSaved, Holding, MissingFile
<1>4. WritesAsSaved
    BY DEF WritesAsSaved, NotSaving
<1>5. QED
    BY <1>1, <1>2, <1>3, <1>4 DEF PolicyInv

-----------------------------------------------------------------------------
(* The actions                                                             *)

\* A call that goes on to save starts with nothing written.
LEMMA SaveBegins ==
    ASSUME PolicyInv, NEW p \in PolicyProcs, NEW name \in PolicyNames, NEW limit \in Nat,
           BeginSave(p, name, limit), UNCHANGED <<policyFile, savedLimits>>
    PROVE  setCall' \in [PolicyProcs -> Saving] /\ FilesAsSaved' /\ WritesAsSaved'
<1> USE DEF PolicyInv, PolicyTypeOK, BeginSave
<1>1. setCall' \in [PolicyProcs -> Saving]
    BY DEF Saving
<1>2. FilesAsSaved'
    BY DEF FilesAsSaved
<1>3. WritesAsSaved'
    BY DEF WritesAsSaved
<1>4. QED
    BY <1>1, <1>2, <1>3

LEMMA NamedKeeps ==
    ASSUME PolicyInv, NEW p \in PolicyProcs, SetNamedProfile(p)
    PROVE  PolicyInv'
<1>1. PICK name \in PolicyNames, profile \in DOMAIN BuiltInProfiles :
        \E limit \in AskedLimits \cup {profiles[p][profile]} : BeginSave(p, name, limit)
    BY DEF SetNamedProfile
<1>2. PICK limit \in AskedLimits \cup {profiles[p][profile]} : BeginSave(p, name, limit)
    BY <1>1
<1>3. limit \in Nat
    BY <1>2, PolicyFileAssumption DEF PolicyInv, PolicyTypeOK
<1>4. setCall' \in [PolicyProcs -> Saving] /\ FilesAsSaved' /\ WritesAsSaved'
    BY <1>2, <1>3, SaveBegins DEF SetNamedProfile
<1>5. PolicyTypeOK'
    BY <1>4, PolicyFileAssumption DEF SetNamedProfile, PolicyInv, PolicyTypeOK
<1>6. ProfilesAsBuilt'
    BY DEF SetNamedProfile, PolicyInv, ProfilesAsBuilt
<1>7. QED
    BY <1>4, <1>5, <1>6 DEF PolicyInv

LEMMA CustomKeeps ==
    ASSUME PolicyInv, NEW p \in PolicyProcs, SetCustomPolicy(p)
    PROVE  PolicyInv'
<1> DEFINE Assigns(name, limit, valid) ==
        /\ IF PolicySource(name) = "file"
           THEN UNCHANGED <<profiles, sharedAssigned>>
           ELSE /\ profiles' = [profiles EXCEPT ![p][PolicySource(name)] = limit]
                /\ sharedAssigned' = (sharedAssigned \/ profiles' # profiles)
        /\ IF valid THEN BeginSave(p, name, limit) ELSE UNCHANGED setCall
<1>0. PICK name \in PolicyNames, valid \in BOOLEAN :
        \E limit \in AskedLimits \cup {LoadAgentPolicy(p, name)} : Assigns(name, limit, valid)
    BY DEF SetCustomPolicy
<1>1. PICK limit \in AskedLimits \cup {LoadAgentPolicy(p, name)} : Assigns(name, limit, valid)
    BY <1>0
<1>2. limit \in Nat
    BY LoadedIsLimit, PolicyFileAssumption DEF PolicyInv
<1>3. UNCHANGED <<policyFile, savedLimits, policyTroubles>> /\ policyCalls' \in 0..MaxPolicyCalls
    BY PolicyFileAssumption DEF SetCustomPolicy, PolicyInv, PolicyTypeOK
<1>4. setCall' \in [PolicyProcs -> Saving] /\ FilesAsSaved' /\ WritesAsSaved'
    <2>1. CASE valid
        BY <2>1, <1>1, <1>2, <1>3, SaveBegins
    <2>2. CASE ~valid
        BY <2>2, <1>1, <1>3 DEF PolicyInv, PolicyTypeOK, FilesAsSaved, WritesAsSaved
    <2>3. QED
        BY <2>1, <2>2
<1>5. /\ profiles' \in [PolicyProcs -> [DOMAIN BuiltInProfiles -> Nat]]
      /\ sharedAssigned' \in BOOLEAN
      /\ ProfilesAsBuilt'
    <2>1. CASE PolicySource(name) = "file"
        BY <2>1, <1>1 DEF PolicyInv, PolicyTypeOK, ProfilesAsBuilt
    <2>2. CASE PolicySource(name) # "file"
        <3>1. profiles' = [profiles EXCEPT ![p][PolicySource(name)] = limit]
            BY <2>2, <1>1
        <3>2. sharedAssigned' = (sharedAssigned \/ profiles' # profiles)
            BY <2>2, <1>1
        <3>3. profiles' \in [PolicyProcs -> [DOMAIN BuiltInProfiles -> Nat]]
            BY <3>1, <1>2 DEF PolicyInv, PolicyTypeOK
        <3>4. sharedAssigned' \in BOOLEAN
            BY <3>2
        <3>5. ProfilesAsBuilt'
            BY <3>2 DEF PolicyInv, ProfilesAsBuilt
        <3>6. QED
            BY <3>3, <3>4, <3>5
    <2>3. QED
        BY <2>1, <2>2
<1>6. QED
    BY <1>3, <1>4, <1>5 DEF PolicyInv, PolicyTypeOK

\* An emptied file holds nothing, and its next text is accounted for.
LEMMA OpenKeeps ==
    ASSUME PolicyInv, NEW p \in PolicyProcs, OpenPolicyFile(p)
    PROVE  PolicyInv'
<1> USE DEF PolicyInv, PolicyTypeOK
<1> DEFINE name == setCall[p].name
<1>1. name \in PolicyNames /\ setCall[p].limit \in Nat
    BY DEF Saving
<1>2. UNCHANGED <<profiles, sharedAssigned, policyCalls, policyTroubles>>
    BY DEF OpenPolicyFile
<1>3. CASE /\ policyFile' = [policyFile EXCEPT ![name] = MalformedFile]
           /\ savedLimits' = [savedLimits EXCEPT ![name] = @ \cup {setCall[p].limit}]
           /\ setCall' = [setCall EXCEPT ![p].at = "write"]
    <2>1. policyFile' \in [PolicyNames -> [is : {"missing", "malformed", "whole"}, limit : Nat]]
        BY <1>3 DEF MalformedFile
    <2>2. savedLimits' \in [PolicyNames -> SUBSET Nat]
        BY <1>1, <1>3
    <2>3. setCall' \in [PolicyProcs -> Saving]
        BY <1>3 DEF Saving
    <2>4. \A n \in PolicyNames : savedLimits[n] \subseteq savedLimits'[n]
        BY <1>3
    <2>5. FilesAsSaved'
        BY <1>3, <2>4 DEF FilesAsSaved, MalformedFile
    <2>6. WritesAsSaved'
        <3> SUFFICES ASSUME NEW q \in PolicyProcs, setCall'[q].at = "write"
                     PROVE  setCall'[q].limit \in savedLimits'[setCall'[q].name]
            BY DEF WritesAsSaved
        <3>1. CASE q = p
            BY <3>1, <1>1, <1>3 DEF Saving
        <3>2. CASE q # p
            <4>1. setCall'[q] = setCall[q] /\ setCall[q].name \in PolicyNames
                BY <3>2, <1>3 DEF Saving
            <4>2. QED
                BY <4>1, <2>4 DEF WritesAsSaved
        <3>3. QED
            BY <3>1, <3>2
    <2>7. QED
        BY <1>2, <2>1, <2>2, <2>3, <2>5, <2>6 DEF ProfilesAsBuilt
<1>4. CASE EndSave(p) /\ UNCHANGED <<policyFile, savedLimits>>
    <2>1. setCall' \in [PolicyProcs -> Saving]
        BY <1>4 DEF EndSave, NotSaving, Saving, PolicyNames
    <2>2. FilesAsSaved' /\ WritesAsSaved'
        BY <1>4 DEF EndSave, NotSaving, FilesAsSaved, WritesAsSaved
    <2>3. QED
        BY <1>2, <1>4, <2>1, <2>2 DEF ProfilesAsBuilt
<1>5. QED
    BY <1>3, <1>4 DEF OpenPolicyFile

\* A write leaves its own text, accounted for with those still under way, or
\* nothing that parses.
LEMMA WriteKeeps ==
    ASSUME PolicyInv, NEW p \in PolicyProcs, WritePolicyFile(p)
    PROVE  PolicyInv'
<1> USE DEF PolicyInv, PolicyTypeOK
<1> DEFINE name == setCall[p].name
<1>1. name \in PolicyNames /\ setCall[p].limit \in Nat
    BY DEF Saving
<1>2. UNCHANGED <<profiles, sharedAssigned, policyCalls, policyTroubles>>
    BY DEF WritePolicyFile
<1>3. setCall' = [setCall EXCEPT ![p] = NotSaving]
    BY DEF WritePolicyFile, EndSave
<1>4. setCall' \in [PolicyProcs -> Saving]
    BY <1>3 DEF NotSaving, Saving, PolicyNames
<1>5. \A q \in PolicyProcs : setCall'[q].at = "write" => q # p /\ setCall'[q] = setCall[q]
    BY <1>3 DEF NotSaving
<1>6. CASE policyFile' = [policyFile EXCEPT ![name] = MalformedFile] /\ UNCHANGED savedLimits
    <2>1. policyFile' \in [PolicyNames -> [is : {"missing", "malformed", "whole"}, limit : Nat]]
        BY <1>6 DEF MalformedFile
    <2>2. FilesAsSaved'
        BY <1>6 DEF FilesAsSaved, MalformedFile
    <2>3. WritesAsSaved'
        BY <1>5, <1>6 DEF WritesAsSaved
    <2>4. QED
        BY <1>2, <1>4, <1>6, <2>1, <2>2, <2>3 DEF ProfilesAsBuilt
<1>7. ASSUME NEW f \in {Holding(setCall[p].limit), MalformedFile},
             policyFile' = [policyFile EXCEPT ![name] = f],
             savedLimits' = [savedLimits EXCEPT ![name] =
                    {setCall[p].limit} \cup {setCall[q].limit : q \in OtherWrites(p)}]
      PROVE  PolicyInv'
    <2>1. policyFile' \in [PolicyNames -> [is : {"missing", "malformed", "whole"}, limit : Nat]]
        BY <1>1, <1>7 DEF MalformedFile, Holding
    <2>2. {setCall[q].limit : q \in OtherWrites(p)} \subseteq Nat
        BY DEF OtherWrites, Saving
    <2>3. savedLimits' \in [PolicyNames -> SUBSET Nat]
        BY <1>1, <1>7, <2>2
    <2>4. FilesAsSaved'
        BY <1>1, <1>7 DEF FilesAsSaved, MalformedFile, Holding
    <2>5. WritesAsSaved'
        <3> SUFFICES ASSUME NEW q \in PolicyProcs, setCall'[q].at = "write"
                     PROVE  setCall'[q].limit \in savedLimits'[setCall'[q].name]
            BY DEF WritesAsSaved
        <3>1. q # p /\ setCall'[q] = setCall[q] /\ setCall[q].name \in PolicyNames
            BY <1>5 DEF Saving
        <3>2. CASE setCall[q].name = name
            <4>1. q \in OtherWrites(p)
                BY <3>1, <3>2 DEF OtherWrites
            <4>2. QED
                BY <1>1, <1>7, <3>1, <3>2, <4>1
        <3>3. CASE setCall[q].name # name
            BY <1>7, <3>1, <3>3 DEF WritesAsSaved
        <3>4. QED
            BY <3>2, <3>3
    <2>6. QED
        BY <1>2, <1>4, <2>1, <2>3, <2>4, <2>5 DEF ProfilesAsBuilt
<1>8. QED
    BY <1>6, <1>7 DEF WritePolicyFile

LEMMA RestartKeeps ==
    ASSUME PolicyInv, NEW p \in PolicyProcs, RestartPolicyProc(p)
    PROVE  PolicyInv'
<1> USE DEF PolicyInv, PolicyTypeOK, RestartPolicyProc, EndSave
<1>1. profiles' \in [PolicyProcs -> [DOMAIN BuiltInProfiles -> Nat]]
    BY BuiltIns
<1>2. setCall' \in [PolicyProcs -> Saving]
    BY DEF NotSaving, Saving, PolicyNames
<1>3. policyTroubles' \in 0..MaxPolicyTroubles
    BY PolicyFileAssumption
<1>4. ProfilesAsBuilt'
    BY DEF ProfilesAsBuilt
<1>5. FilesAsSaved' /\ WritesAsSaved'
    BY DEF FilesAsSaved, WritesAsSaved, NotSaving
<1>6. QED
    BY <1>1, <1>2, <1>3, <1>4, <1>5

\* No write is under way that the edit could leave unaccounted for.
LEMMA EditKeeps ==
    ASSUME PolicyInv, EditPolicyFile
    PROVE  PolicyInv'
<1> USE DEF PolicyInv, PolicyTypeOK
<1>1. UNCHANGED <<profiles, setCall, sharedAssigned, policyCalls>>
    BY DEF EditPolicyFile
<1>2. policyTroubles' \in 0..MaxPolicyTroubles
    BY PolicyFileAssumption DEF EditPolicyFile
<1>3. WritesAsSaved'
    BY <1>1 DEF EditPolicyFile, WritesAsSaved, NotSaving
<1>4. PICK name \in PolicyNames :
        \/ \E limit \in AskedLimits :
            /\ policyFile' = [policyFile EXCEPT ![name] = Holding(limit)]
            /\ savedLimits' = [savedLimits EXCEPT ![name] = {limit}]
        \/ policyFile' = [policyFile EXCEPT ![name] = MalformedFile] /\ UNCHANGED savedLimits
    BY DEF EditPolicyFile
<1>5. /\ policyFile' \in [PolicyNames -> [is : {"missing", "malformed", "whole"}, limit : Nat]]
      /\ savedLimits' \in [PolicyNames -> SUBSET Nat]
      /\ FilesAsSaved'
    <2>1. CASE policyFile' = [policyFile EXCEPT ![name] = MalformedFile] /\ UNCHANGED savedLimits
        BY <2>1 DEF FilesAsSaved, MalformedFile
    <2>2. ASSUME NEW limit \in AskedLimits,
                 policyFile' = [policyFile EXCEPT ![name] = Holding(limit)],
                 savedLimits' = [savedLimits EXCEPT ![name] = {limit}]
          PROVE  /\ policyFile' \in [PolicyNames -> [is : {"missing", "malformed", "whole"}, limit : Nat]]
                 /\ savedLimits' \in [PolicyNames -> SUBSET Nat]
                 /\ FilesAsSaved'
        BY <2>2, PolicyFileAssumption DEF FilesAsSaved, Holding
    <2>3. QED
        BY <1>4, <2>1, <2>2
<1>6. QED
    BY <1>1, <1>2, <1>3, <1>5 DEF ProfilesAsBuilt

LEMMA NextKeeps == PolicyInv /\ [PolicyNext]_policyVars => PolicyInv'
<1> SUFFICES ASSUME PolicyInv, [PolicyNext]_policyVars PROVE PolicyInv'
    OBVIOUS
<1>1. CASE EditPolicyFile
    BY <1>1, EditKeeps
<1>2. ASSUME NEW p \in PolicyProcs, SetNamedProfile(p) PROVE PolicyInv'
    BY <1>2, NamedKeeps
<1>3. ASSUME NEW p \in PolicyProcs, SetCustomPolicy(p) PROVE PolicyInv'
    BY <1>3, CustomKeeps
<1>4. ASSUME NEW p \in PolicyProcs, OpenPolicyFile(p) PROVE PolicyInv'
    BY <1>4, OpenKeeps
<1>5. ASSUME NEW p \in PolicyProcs, WritePolicyFile(p) PROVE PolicyInv'
    BY <1>5, WriteKeeps
<1>6. ASSUME NEW p \in PolicyProcs, RestartPolicyProc(p) PROVE PolicyInv'
    BY <1>6, RestartKeeps
<1>7. CASE UNCHANGED policyVars
    BY <1>7 DEF policyVars, PolicyInv, PolicyTypeOK, ProfilesAsBuilt, FilesAsSaved, WritesAsSaved
<1>8. QED
    BY <1>1, <1>2, <1>3, <1>4, <1>5, <1>6, <1>7 DEF PolicyNext, GetAgentPolicy

-----------------------------------------------------------------------------
(* The theorems                                                            *)

\* Where a limit is read from decides what accounts for it.
LEMMA InvImpliesWithin == PolicyInv => RaisedOnlyBySavingUnlessShared
<1> SUFFICES ASSUME PolicyInv, ~sharedAssigned,
                    NEW p \in PolicyProcs, NEW name \in PolicyNames
             PROVE  WithinSaved(p, name)
    BY DEF RaisedOnlyBySavingUnlessShared, RaisedOnlyBySaving
<1> DEFINE limit == LoadAgentPolicy(p, name)
<1>1. Governing(name) \in PolicyNames
    BY DEF Governing, PolicyNames
<1>2. limit \in Nat
    BY LoadedIsLimit DEF PolicyInv
<1>3. profiles[p] = BuiltInProfiles
    BY DEF PolicyInv, ProfilesAsBuilt
<1>4. limit \in Accounted(name)
    <2>1. CASE policyFile[Governing(name)].is = "whole"
        BY <1>1, <2>1 DEF PolicyInv, FilesAsSaved, Accounted, LoadAgentPolicy, PolicySource
    <2>2. CASE policyFile[Governing(name)].is = "malformed"
        BY <1>3, <2>2, BuiltIns DEF Accounted, LoadAgentPolicy, PolicySource, BuiltInProfiles
    <2>3. CASE policyFile[Governing(name)].is = "missing"
        BY <1>3, <2>3, BuiltIns DEF Accounted, LoadAgentPolicy, PolicySource, BuiltInProfiles
    <2>4. QED
        BY <1>1, <2>1, <2>2, <2>3 DEF PolicyInv, PolicyTypeOK
<1>5. limit <= limit
    BY <1>2
<1>6. QED
    BY <1>4, <1>5 DEF WithinSaved

\* Files, profiles and calls keep their types, for any number of processes,
\* agents, calls, restarts and edits.
THEOREM PolicyTypeCorrect == PolicySpec => []PolicyTypeOK
<1>1. PolicyInv => PolicyTypeOK
    BY DEF PolicyInv
<1>2. QED
    BY <1>1, InvInit, NextKeeps, PTL DEF PolicySpec

\* Until a call assigns to a built-in profile, every limit in effect is one that
\* was saved last or that a built-in profile gives (invalidPolicyFallback).
THEOREM LimitsAreAccounted == PolicySpec => []RaisedOnlyBySavingUnlessShared
BY InvImpliesWithin, InvInit, NextKeeps, PTL DEF PolicySpec
=============================================================================
