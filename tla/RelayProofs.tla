---------------------------- MODULE RelayProofs ----------------------------
(***************************************************************************)
(* What PreparedRelay keeps for every set of records, requests and signed  *)
(* transactions, every size of the store, every configuration, every fault *)
(* and any number of crashes.                                              *)
(***************************************************************************)
EXTENDS PreparedRelay, FiniteSetTheorems, SequenceTheorems, WellFoundedInduction, TLAPS

\* Both copies of the store hold only what was prepared.
HoldsThePrepared ==
    Held(mem) \subseteq ToSet(order) /\ Held(disk) \subseteq ToSet(order)

\* The process's copy never brings a mark back that the file has.
CopyKeepsMarks == \A i \in Ids : disk[i] = "used" => mem[i] # "fresh"

\* Requests whose transaction the node took or may still take, and those that
\* may still send one.
Sent == afloat \cup accepted
Involved == Sent \cup {r \in Requests : pc[r] = "recover"}

InvolvedIsPrepared == \A r \in Involved : req[r].id \in ToSet(order)

\* What a sweep removes.
Gone == {order[n] : n \in 1..expired}

\* A record that a sent transaction stands for is usable in neither copy.
Usable(s, i) == s[i] = "fresh" /\ i \notin Gone

SentIsSpent ==
    \A r \in Sent : ~Usable(mem, req[r].id) /\ ~Usable(disk, req[r].id)

\* Two requests that are involved with one record have raced.
InvolvedRaced ==
    \A r, s \in Involved : req[r].id = req[s].id /\ req[r].id \notin raced => r = s

\* Who is past the checks of the record passed them, and so did who has sent.
SentPassedChecks ==
    /\ \A r \in Requests : pc[r] = "recover" => ~asked[req[r].id].question
    /\ \A r \in Sent :
          /\ ~asked[req[r].id].question
          /\ asked[req[r].id].mainnet /\ mode \in {"unattested", "sync", "async"}
          /\ PassesFieldChecks(r)

RelayInv ==
    /\ TypeOK
    /\ HoldsThePrepared
    /\ InvolvedIsPrepared
    /\ StoreBounded
    /\ CopyKeepsMarks
    /\ SentIsSpent
    /\ InvolvedRaced
    /\ SentPassedChecks
    /\ AttestsOnlyTheRelayed

\* No mark in the file is taken back by a step.
MarksStay == \A i \in Ids : disk[i] = "used" => disk'[i] # "fresh"

-----------------------------------------------------------------------------
(* The store: sweeping and capping                                         *)

\* Records are only removed, and no other changes.
LEMMA WithoutRemoves ==
    ASSUME NEW s \in [Ids -> Statuses], NEW gone
    PROVE  /\ Without(s, gone) \in [Ids -> Statuses]
           /\ Held(Without(s, gone)) = Held(s) \ gone
           /\ \A i \in Ids : Without(s, gone)[i] = IF i \in gone THEN "absent" ELSE s[i]
  BY DEF Without, Held, Statuses

\* A sweep removes the expired records.
LEMMA SweptRemoves ==
    ASSUME NEW s \in [Ids -> Statuses]
    PROVE  /\ Swept(s) \in [Ids -> Statuses]
           /\ Held(Swept(s)) = Held(s) \ Gone
           /\ \A i \in Ids : Swept(s)[i] = IF i \in Gone THEN "absent" ELSE s[i]
  BY WithoutRemoves DEF Swept, Gone

\* Of a set of ids that were created in an order, one was created first.
LEMMA HasOldest ==
    ASSUME NEW born \in Seq(Ids), NEW K, K \subseteq ToSet(born), K # {}
    PROVE  \E m \in 1..Len(born) :
              /\ born[m] \in K
              /\ \A j \in K \ {born[m]} : \E n \in 1..Len(born) : m < n /\ born[n] = j
<1> DEFINE P == {m \in 1..Len(born) : born[m] \in K}
<1>1. Len(born) \in Nat /\ DOMAIN born = 1..Len(born)
  BY LenProperties
<1>2. P \subseteq Nat /\ P # {}
  BY <1>1 DEF ToSet
<1>3. PICK m \in P : \A n \in P : ~ (<<n, m>> \in OpToRel(<, Nat))
  BY <1>2, NatLessThanWellFounded, WFMin
<1>4. \A n \in P : ~ (n < m)
  BY <1>2, <1>3 DEF OpToRel
<1>5. ASSUME NEW j \in K \ {born[m]}
      PROVE  \E n \in 1..Len(born) : m < n /\ born[n] = j
  <2>1. PICK n \in 1..Len(born) : born[n] = j
    BY <1>1 DEF ToSet
  <2>2. n \in P /\ n # m
    BY <2>1
  <2> QED
    BY <1>1, <1>4, <2>1, <2>2
<1> QED
  BY <1>5

\* The cap holds after it is enforced: all that is kept but its oldest record
\* is younger than that one, which has fewer than MaxRecords younger ones.
LEMMA CappedIsBounded ==
    ASSUME NEW s \in [Ids -> Statuses], NEW born \in Seq(Ids), Held(s) \subseteq ToSet(born)
    PROVE  /\ Capped(s, born) \in [Ids -> Statuses]
           /\ Held(Capped(s, born)) \subseteq Held(s)
           /\ \A i \in Ids : Capped(s, born)[i] \in {s[i], "absent"}
           /\ Cardinality(Held(Capped(s, born))) <= MaxRecords
<1> DEFINE K == Held(Capped(s, born))
<1>1. /\ Capped(s, born) \in [Ids -> Statuses]
      /\ K = Held(s) \ {i \in Ids : Cardinality(Younger(s, born, i)) >= MaxRecords}
      /\ \A i \in Ids : Capped(s, born)[i] \in {s[i], "absent"}
  BY WithoutRemoves DEF Capped
<1>2. Cardinality(K) <= MaxRecords
  <2>1. CASE K = {}
    BY <2>1, FS_EmptySet, RelayAssumption
  <2>2. CASE K # {}
    <3>1. K \subseteq ToSet(born) /\ K \subseteq Ids
      BY <1>1 DEF Held
    <3>2. PICK m \in 1..Len(born) :
             /\ born[m] \in K
             /\ \A j \in K \ {born[m]} : \E n \in 1..Len(born) : m < n /\ born[n] = j
      BY <2>2, <3>1, HasOldest
    <3> DEFINE Y == Younger(s, born, born[m])
    <3>3. K \ {born[m]} \subseteq Y
      BY <1>1, <3>2 DEF Younger
    <3>4. IsFiniteSet(K) /\ IsFiniteSet(Y)
      BY <3>1, FS_Subset, RelayAssumption DEF Younger, Held
    <3>5. Cardinality(K \ {born[m]}) <= Cardinality(Y)
      BY <3>3, <3>4, FS_Subset
    <3>6. Cardinality(K \ {born[m]}) = Cardinality(K) - 1
      BY <3>2, <3>4, FS_RemoveElement
    <3>7. ~ (Cardinality(Y) >= MaxRecords)
      BY <1>1, <3>1, <3>2
    <3>8. Cardinality(K) \in Nat /\ Cardinality(Y) \in Nat
      BY <3>4, FS_CardinalityType
    <3> QED
      BY <3>5, <3>6, <3>7, <3>8, RelayAssumption
  <2> QED
    BY <2>1, <2>2
<1> QED
  BY <1>1, <1>2

\* A copy that holds no more than one within the cap is within it.
LEMMA FewerIsBounded ==
    ASSUME NEW s, NEW t, Held(s) \subseteq Held(t), Cardinality(Held(t)) <= MaxRecords
    PROVE  Cardinality(Held(s)) <= MaxRecords
<1>1. IsFiniteSet(Held(t))
  BY FS_Subset, RelayAssumption DEF Held
<1>2. Cardinality(Held(s)) <= Cardinality(Held(t))
  BY <1>1, FS_Subset
<1>3. Cardinality(Held(s)) \in Nat /\ Cardinality(Held(t)) \in Nat
  BY <1>1, FS_Subset, FS_CardinalityType
<1> QED
  BY <1>2, <1>3, RelayAssumption

-----------------------------------------------------------------------------
(* Each action keeps the invariant                                         *)

LEMMA RelayInvInit == Init => RelayInv
<1> SUFFICES ASSUME Init PROVE RelayInv
  OBVIOUS
<1>1. TypeOK
  <2>1. order \in Seq(Ids) /\ IsInjective(order) /\ Len(order) = 0
    BY EmptySeq DEF Init, IsInjective
  <2> QED
    BY <2>1, RelayAssumption DEF Init, TypeOK, Statuses, Stages, OpenStages
<1>2. Held(mem) = {} /\ Held(disk) = {}
  BY DEF Init, Held
<1>3. HoldsThePrepared /\ StoreBounded
  BY <1>2, FS_EmptySet, RelayAssumption DEF HoldsThePrepared, StoreBounded
<1>4. Involved = {} /\ Sent = {}
  BY DEF Init, Involved, Sent
<1> QED
  BY <1>1, <1>3, <1>4 DEF Init, RelayInv, InvolvedIsPrepared, CopyKeepsMarks,
     SentIsSpent, InvolvedRaced, SentPassedChecks, AttestsOnlyTheRelayed

\* What the actions on the store alone leave as it is.
LEMMA RequestsUntouched ==
    ASSUME RelayInv, UNCHANGED <<inputs, pc, afloat, accepted, handed, raced>>
    PROVE  /\ Sent' = Sent /\ Involved' = Involved
           /\ InvolvedRaced'
           /\ SentPassedChecks'
           /\ AttestsOnlyTheRelayed'
<1>1. Sent' = Sent /\ Involved' = Involved
  BY DEF Sent, Involved
<1> QED
  BY <1>1 DEF RelayInv, InvolvedRaced, SentPassedChecks, AttestsOnlyTheRelayed,
     inputs, PassesFieldChecks

LEMMA PrepareKeeps ==
    ASSUME RelayInv, NEW i \in Ids, Prepare(i)
    PROVE  RelayInv' /\ MarksStay
<1> USE DEF RelayInv
<1> DEFINE swept == Swept(mem)
           fresh == [swept EXCEPT ![i] = "fresh"]
<1>1. /\ order' \in Seq(Ids) /\ IsInjective(order')
      /\ Len(order') = Len(order) + 1
      /\ ToSet(order') = ToSet(order) \cup {i}
      /\ Gone' = Gone
  <2>1. /\ order' = Append(order, i) /\ order \in Seq(Ids) /\ i \notin ToSet(order)
        /\ Len(order) \in Nat /\ DOMAIN order = 1..Len(order)
        /\ expired' = expired /\ expired \in 0..Len(order)
    BY LenProperties DEF Prepare, TypeOK
  <2>2. /\ order' \in Seq(Ids)
        /\ Len(order') = Len(order) + 1
        /\ \A n \in 1..Len(order) : order'[n] = order[n]
        /\ order'[Len(order) + 1] = i
        /\ DOMAIN order' = 1..(Len(order) + 1)
    BY <2>1, AppendProperties, LenProperties
  <2>3. IsInjective(order')
    BY <2>1, <2>2 DEF IsInjective, ToSet, TypeOK
  <2>4. ToSet(order') = ToSet(order) \cup {i}
    BY <2>1, <2>2 DEF ToSet
  <2>5. Gone' = Gone
    BY <2>1, <2>2 DEF Gone
  <2> QED
    BY <2>2, <2>3, <2>4, <2>5
<1>2. /\ mem \in [Ids -> Statuses] /\ disk \in [Ids -> Statuses]
      /\ mem[i] = "absent" /\ disk[i] = "absent"
  BY DEF Prepare, TypeOK, HoldsThePrepared, Held
<1>3. /\ swept \in [Ids -> Statuses] /\ Held(swept) \subseteq Held(mem)
      /\ \A j \in Ids : swept[j] = IF j \in Gone THEN "absent" ELSE mem[j]
  BY <1>2, SweptRemoves
<1>4. /\ fresh \in [Ids -> Statuses]
      /\ Held(fresh) \subseteq ToSet(order')
      /\ \A j \in Ids \ {i} : fresh[j] = swept[j]
  BY <1>1, <1>3 DEF HoldsThePrepared, Held, Statuses
<1> DEFINE capped == Capped(fresh, order')
<1>5. /\ capped \in [Ids -> Statuses] /\ Held(capped) \subseteq Held(fresh)
      /\ \A j \in Ids : capped[j] \in {fresh[j], "absent"}
      /\ Cardinality(Held(capped)) <= MaxRecords
  BY <1>1, <1>4, CappedIsBounded
<1>6. mem' \in {capped, swept} /\ disk' \in {disk, mem', swept}
  BY DEF Prepare, Persisted, PersistFails
<1>7. /\ Cardinality(Held(swept)) <= MaxRecords
      /\ Cardinality(Held(disk)) <= MaxRecords
  BY <1>3, FewerIsBounded DEF StoreBounded
<1> HIDE DEF swept, fresh, capped
<1>8. TypeOK'
  <2>1. mem' \in [Ids -> Statuses] /\ disk' \in [Ids -> Statuses]
    BY <1>2, <1>3, <1>5, <1>6
  <2>2. expired' \in 0..Len(order')
    BY <1>1, LenProperties DEF TypeOK, Prepare
  <2> QED
    BY <1>1, <2>1, <2>2 DEF TypeOK, Prepare, inputs
<1>9. StoreBounded'
  BY <1>5, <1>6, <1>7 DEF StoreBounded, Held
<1>10. HoldsThePrepared'
  BY <1>1, <1>3, <1>4, <1>5, <1>6 DEF HoldsThePrepared, Held
<1>11. CopyKeepsMarks'
  BY <1>2, <1>3, <1>4, <1>5, <1>6 DEF CopyKeepsMarks
<1>12. /\ Sent' = Sent /\ Involved' = Involved
       /\ InvolvedRaced' /\ SentPassedChecks' /\ AttestsOnlyTheRelayed'
       /\ req' = req
  BY RequestsUntouched DEF Prepare, inputs
<1>13. InvolvedIsPrepared'
  BY <1>1, <1>12 DEF InvolvedIsPrepared
<1>14. SentIsSpent'
  <2> SUFFICES ASSUME NEW r \in Sent
               PROVE  ~Usable(mem, req[r].id)' /\ ~Usable(disk, req[r].id)'
    BY <1>12 DEF SentIsSpent
  <2>1. req[r].id \in Ids \ {i}
    BY DEF Prepare, InvolvedIsPrepared, Involved, TypeOK, Request, Sent
  <2> DEFINE k == req[r].id
  <2>2. ~Usable(mem, k) /\ ~Usable(disk, k)
    BY DEF SentIsSpent
  <2>3. mem'[k] \in {swept[k], "absent"} /\ disk'[k] \in {disk[k], swept[k], "absent"}
    BY <1>4, <1>5, <1>6, <2>1
  <2> QED
    BY <1>1, <1>3, <1>12, <2>1, <2>2, <2>3 DEF Usable
<1>15. MarksStay
  <2> SUFFICES ASSUME NEW j \in Ids, disk[j] = "used"
               PROVE  disk'[j] # "fresh"
    BY DEF MarksStay
  <2>1. mem[j] # "fresh" /\ j # i
    BY <1>2 DEF CopyKeepsMarks
  <2>2. swept[j] # "fresh" /\ capped[j] # "fresh"
    BY <1>3, <1>4, <1>5, <2>1
  <2> QED
    BY <1>6, <2>2
<1> QED
  BY <1>15, <1>8, <1>9, <1>10, <1>11, <1>12, <1>13, <1>14

LEMMA ExpireKeeps ==
    ASSUME RelayInv, Expire
    PROVE  RelayInv'
<1> USE DEF RelayInv
<1>1. /\ Sent' = Sent /\ Involved' = Involved
      /\ InvolvedRaced' /\ SentPassedChecks' /\ AttestsOnlyTheRelayed'
  BY RequestsUntouched DEF Expire
<1>2. TypeOK'
  BY LenProperties DEF TypeOK, Expire, inputs
<1>3. HoldsThePrepared' /\ StoreBounded' /\ CopyKeepsMarks' /\ InvolvedIsPrepared'
  BY <1>1 DEF Expire, HoldsThePrepared, Held, StoreBounded, CopyKeepsMarks,
     InvolvedIsPrepared, inputs
<1>4. Gone \subseteq Gone'
  BY LenProperties DEF Expire, Gone, TypeOK
<1>5. SentIsSpent'
  BY <1>1, <1>4 DEF SentIsSpent, Usable, Expire, inputs
<1> QED
  BY <1>1, <1>2, <1>3, <1>5

\* A step that only drops records from the copies or marks them, and takes no
\* mark back: what else is left to show of it.
LEMMA CopiesKeep ==
    ASSUME RelayInv, UNCHANGED <<order, expired, req>>,
           Held(mem)' \subseteq Held(mem) \/ Held(mem)' \subseteq Held(disk),
           Held(disk)' \subseteq Held(mem) \/ Held(disk)' \subseteq Held(disk),
           \A i \in Ids :
              /\ Usable(mem, i)' => Usable(mem, i) \/ Usable(disk, i)
              /\ Usable(disk, i)' => Usable(mem, i) \/ Usable(disk, i)
    PROVE  /\ HoldsThePrepared'
           /\ StoreBounded'
           /\ \A r \in Sent : ~Usable(mem, req[r].id)' /\ ~Usable(disk, req[r].id)'
<1> USE DEF RelayInv
<1>1. HoldsThePrepared'
  BY DEF HoldsThePrepared
<1>2. StoreBounded'
  <2>1. Cardinality(Held(mem)') <= MaxRecords
    BY FewerIsBounded DEF StoreBounded, Held
  <2>2. Cardinality(Held(disk)') <= MaxRecords
    BY FewerIsBounded DEF StoreBounded, Held
  <2> QED
    BY <2>1, <2>2 DEF StoreBounded
<1>3. \A r \in Sent : req[r].id \in Ids
  BY DEF Sent, TypeOK, Request
<1>4. \A r \in Sent : ~Usable(mem, req[r].id) /\ ~Usable(disk, req[r].id)
  BY DEF SentIsSpent
<1>5. ASSUME NEW r \in Sent
      PROVE  ~Usable(mem, req[r].id)' /\ ~Usable(disk, req[r].id)'
  <2>1. req'[r].id = req[r].id
    OBVIOUS
  <2> QED
    BY <1>3, <1>4, <2>1 DEF Usable
<1> QED
  BY <1>1, <1>2, <1>5

LEMMA SweepKeeps ==
    ASSUME RelayInv, Sweep
    PROVE  RelayInv' /\ MarksStay
<1> USE DEF RelayInv
<1>1. /\ Sent' = Sent /\ Involved' = Involved
      /\ InvolvedRaced' /\ SentPassedChecks' /\ AttestsOnlyTheRelayed'
  BY RequestsUntouched DEF Sweep
<1>2. /\ mem' \in [Ids -> Statuses]
      /\ Held(mem') = Held(mem) \ Gone
      /\ \A i \in Ids : mem'[i] = IF i \in Gone THEN "absent" ELSE mem[i]
  BY SweptRemoves DEF Sweep, TypeOK
<1>3. disk' \in {mem', disk} /\ UNCHANGED <<order, expired, req>>
  BY DEF Sweep, Persisted, PersistFails, inputs
<1>4. Held(mem)' = Held(mem') /\ Held(disk)' = Held(disk') /\ Gone' = Gone
  BY <1>3 DEF Held, Gone
<1>5. TypeOK'
  BY <1>2, <1>3 DEF TypeOK, Sweep, inputs
<1>6. CopyKeepsMarks'
  BY <1>2, <1>3 DEF CopyKeepsMarks
<1>7. \A i \in Ids : /\ Usable(mem, i)' => Usable(mem, i)
                     /\ Usable(disk, i)' => Usable(mem, i) \/ Usable(disk, i)
  BY <1>2, <1>3, <1>4 DEF Usable
<1>8. HoldsThePrepared' /\ StoreBounded' /\ SentIsSpent'
  BY <1>1, <1>2, <1>3, <1>4, <1>7, CopiesKeep DEF SentIsSpent
<1>9. InvolvedIsPrepared'
  BY <1>1, <1>3 DEF InvolvedIsPrepared
<1>10. MarksStay
  BY <1>2, <1>3 DEF MarksStay, CopyKeepsMarks
<1> QED
  BY <1>10, <1>1, <1>5, <1>6, <1>8, <1>9

\* What reloading the file does to the store.
LEMMA ReloadKeeps ==
    ASSUME RelayInv, mem' = Swept(disk), UNCHANGED <<order, expired, disk, req>>
    PROVE  /\ mem' \in [Ids -> Statuses]
           /\ HoldsThePrepared' /\ StoreBounded' /\ CopyKeepsMarks'
           /\ Gone' = Gone
           /\ \A r \in Sent : ~Usable(mem, req[r].id)' /\ ~Usable(disk, req[r].id)'
<1> USE DEF RelayInv
<1>1. /\ mem' \in [Ids -> Statuses]
      /\ Held(mem') = Held(disk) \ Gone
      /\ \A i \in Ids : mem'[i] = IF i \in Gone THEN "absent" ELSE disk[i]
  BY SweptRemoves DEF TypeOK
<1>2. Held(mem)' = Held(mem') /\ Held(disk)' = Held(disk) /\ Gone' = Gone
  BY DEF Held, Gone
<1>3. CopyKeepsMarks'
  BY <1>1 DEF CopyKeepsMarks
<1>4. \A i \in Ids : /\ Usable(mem, i)' => Usable(disk, i)
                     /\ Usable(disk, i)' => Usable(disk, i)
  BY <1>1, <1>2 DEF Usable
<1> QED
  BY <1>1, <1>2, <1>3, <1>4, CopiesKeep

LEMMA SubmitKeeps ==
    ASSUME RelayInv, NEW r \in Requests, Submit(r)
    PROVE  RelayInv'
<1> USE DEF RelayInv
<1> DEFINE k == req[r].id
           usable == /\ Swept(disk)[k] = "fresh"
                     /\ "hash" \notin req[r].differs
                     /\ ~asked[k].question
<1>1. /\ pc[r] = "idle" /\ mem' = Swept(disk)
      /\ pc' = [pc EXCEPT ![r] = IF usable THEN "recover" ELSE "refused"]
      /\ raced' = raced \cup {i \in {k} : usable /\ Waiting(i) # {}}
      /\ UNCHANGED <<mode, asked, req, order, expired, disk, afloat, accepted, handed, crashes>>
  BY DEF Submit, Admit, Goto, inputs
<1>2. k \in Ids
  BY DEF TypeOK, Request
<1>3. /\ mem' \in [Ids -> Statuses]
      /\ HoldsThePrepared' /\ StoreBounded' /\ CopyKeepsMarks'
      /\ Sent' = Sent /\ SentIsSpent'
  BY <1>1, ReloadKeeps DEF SentIsSpent, Sent
<1>4. TypeOK'
  <2>1. pc' \in [Requests -> Stages] /\ raced' \subseteq Ids
    BY <1>1, <1>2 DEF TypeOK, Stages, OpenStages
  <2> QED
    BY <1>1, <1>3, <2>1 DEF TypeOK
<1>5. usable => Usable(disk, k) /\ k \in ToSet(order) /\ ~asked[k].question
  <2>1. usable => disk[k] = "fresh" /\ k \notin Gone
    BY <1>2, SweptRemoves DEF TypeOK
  <2> QED
    BY <1>2, <2>1 DEF Usable, HoldsThePrepared, Held
<1> HIDE DEF usable
<1>6. \A s \in Requests : pc'[s] = IF s # r THEN pc[s] ELSE IF usable THEN "recover" ELSE "refused"
  BY <1>1 DEF TypeOK
<1>7. /\ \A s \in Involved' : s \in Involved \/ (s = r /\ usable)
      /\ \A s \in Involved : s \in Involved'
  BY <1>1, <1>3, <1>6 DEF Involved
<1>8. InvolvedIsPrepared'
  BY <1>1, <1>5, <1>7 DEF InvolvedIsPrepared
<1>9. InvolvedRaced'
  <2> SUFFICES ASSUME NEW a \in Involved', NEW b \in Involved',
                      req[a].id = req[b].id, req[a].id \notin raced'
               PROVE  a = b
    BY <1>1 DEF InvolvedRaced
  <2>1. ASSUME NEW s \in Involved, req[s].id = k, k \notin raced', usable
        PROVE  FALSE
    <3>1. CASE s \in Sent
      BY <1>5, <2>1, <3>1 DEF SentIsSpent
    <3>2. CASE pc[s] = "recover"
      <4>1. s \in Waiting(k)
        BY <2>1, <3>2 DEF Waiting, Involved, Sent, TypeOK
      <4> QED
        BY <1>1, <2>1, <4>1
    <3> QED
      BY <2>1, <3>1, <3>2 DEF Involved
  <2>2. CASE a \in Involved /\ b \in Involved
    BY <1>1, <2>2 DEF InvolvedRaced
  <2>3. CASE a \notin Involved \/ b \notin Involved
    BY <1>7, <2>1, <2>3
  <2> QED
    BY <2>2, <2>3
<1>10. SentPassedChecks'
  BY <1>1, <1>3, <1>5, <1>6 DEF SentPassedChecks, PassesFieldChecks
<1>11. AttestsOnlyTheRelayed'
  BY <1>1, <1>6 DEF AttestsOnlyTheRelayed
<1> QED
  BY <1>3, <1>4, <1>8, <1>9, <1>10, <1>11

\* A request that goes on or ends, without a new claim on its record.
LEMMA MoveKeeps ==
    ASSUME RelayInv, NEW r \in Requests, NEW stage \in Stages \ {"recover"},
           Goto(r, stage),
           stage \in {"publishing", "relayed"} => r \in accepted,
           UNCHANGED <<inputs, store, accepted, raced, crashes>>,
           afloat' \subseteq afloat,
           handed' = handed \/ (r \in accepted /\ handed' = handed \cup {req[r].tx})
    PROVE  RelayInv'
<1> USE DEF RelayInv
<1>1. UNCHANGED <<mode, asked, req, order, expired, mem, disk>>
  BY DEF inputs, store
<1>2. \A s \in Requests : pc'[s] = IF s = r THEN stage ELSE pc[s]
  BY DEF Goto, TypeOK
<1>3. TypeOK'
  <2>1. pc' \in [Requests -> Stages]
    BY DEF Goto, TypeOK
  <2>2. handed' \subseteq Txs
    BY <1>1 DEF TypeOK, Request
  <2> QED
    BY <1>1, <2>1, <2>2 DEF TypeOK
<1>4. /\ HoldsThePrepared' /\ StoreBounded' /\ CopyKeepsMarks'
      /\ \A i : Usable(mem, i)' <=> Usable(mem, i)
      /\ \A i : Usable(disk, i)' <=> Usable(disk, i)
  BY <1>1 DEF HoldsThePrepared, StoreBounded, CopyKeepsMarks, Held, Usable, Gone
<1>5. Involved' \subseteq Involved /\ Sent' \subseteq Sent
  BY <1>2 DEF Involved, Sent
<1>6. InvolvedIsPrepared' /\ InvolvedRaced'
  BY <1>1, <1>5 DEF InvolvedIsPrepared, InvolvedRaced
<1>7. SentIsSpent'
  BY <1>1, <1>4, <1>5 DEF SentIsSpent
<1>8. SentPassedChecks'
  BY <1>1, <1>2, <1>5 DEF SentPassedChecks, PassesFieldChecks
<1>9. AttestsOnlyTheRelayed'
  BY <1>1, <1>2 DEF AttestsOnlyTheRelayed, TypeOK
<1> QED
  BY <1>3, <1>4, <1>6, <1>7, <1>8, <1>9

\* The record is marked, or the mark is a no-op or is not saved; only a request
\* that may send comes afloat.
LEMMA MarkKeeps ==
    ASSUME RelayInv, NEW r \in Requests, pc[r] = "recover",
           PassesFieldChecks(r), MayBroadcast(r),
           \/ MarkUsed(req[r].id)
           \/ /\ Swept(disk)[req[r].id] = "fresh"
              /\ mem' = [Swept(disk) EXCEPT ![req[r].id] = "used"]
              /\ UNCHANGED disk
              /\ afloat' = afloat,
           \/ Goto(r, "failed") /\ afloat' = afloat
           \/ Goto(r, "sending") /\ mode # "elsewhere" /\ afloat' = afloat \cup {r},
           UNCHANGED <<inputs, order, expired, accepted, handed, raced, crashes>>
    PROVE  RelayInv' /\ MarksStay
<1> USE DEF RelayInv
<1> DEFINE k == req[r].id
           swept == Swept(disk)
           marked == [swept EXCEPT ![k] = "used"]
<1>1. k \in Ids /\ UNCHANGED <<mode, asked, req>>
  BY DEF TypeOK, Request, inputs
<1>2. /\ swept \in [Ids -> Statuses]
      /\ Held(swept) = Held(disk) \ Gone
      /\ \A i \in Ids : swept[i] = IF i \in Gone THEN "absent" ELSE disk[i]
  BY SweptRemoves DEF TypeOK
<1>3. /\ marked \in [Ids -> Statuses]
      /\ \A i \in Ids : marked[i] = IF i = k THEN "used" ELSE swept[i]
      /\ swept[k] = "fresh" => Held(marked) = Held(swept)
  BY <1>1, <1>2 DEF Held, Statuses
<1>4. \/ swept[k] = "fresh" /\ mem' = marked /\ disk' = marked
      \/ swept[k] # "fresh" /\ mem' = swept /\ disk' = disk
      \/ swept[k] = "fresh" /\ mem' = marked /\ disk' = disk /\ afloat' = afloat
  BY DEF MarkUsed, Persisted
<1> HIDE DEF swept, marked
<1>5. Held(mem)' = Held(mem') /\ Held(disk)' = Held(disk') /\ Gone' = Gone
  BY DEF Held, Gone
<1>6. CopyKeepsMarks'
  BY <1>2, <1>3, <1>4 DEF CopyKeepsMarks
<1>7. \A i \in Ids : /\ Usable(mem, i)' => Usable(disk, i) /\ i # k
                     /\ Usable(disk, i)' => Usable(disk, i)
  <2> SUFFICES ASSUME NEW i \in Ids
               PROVE  /\ Usable(mem, i)' => Usable(disk, i) /\ i # k
                      /\ Usable(disk, i)' => Usable(disk, i)
    OBVIOUS
  <2>1. mem'[i] = "fresh" => swept[i] = "fresh" /\ i # k
    BY <1>3, <1>4
  <2>2. disk'[i] = "fresh" => disk[i] = "fresh" \/ swept[i] = "fresh"
    BY <1>3, <1>4
  <2> QED
    BY <1>2, <1>5, <2>1, <2>2 DEF Usable
<1>8. /\ HoldsThePrepared' /\ StoreBounded'
      /\ \A s \in Sent : ~Usable(mem, req[s].id)' /\ ~Usable(disk, req[s].id)'
  BY <1>1, <1>2, <1>3, <1>4, <1>5, <1>7, CopiesKeep
<1>9. \A s \in Requests : pc'[s] # pc[s] => s = r /\ pc'[s] \in {"failed", "sending"}
  BY DEF Goto, TypeOK
<1>10. /\ Sent' \subseteq Sent \cup {r} /\ Involved' \subseteq Involved
       /\ r \in Sent' => r \in Sent \/ afloat' # afloat
  BY <1>9 DEF Sent, Involved
<1>11. SentIsSpent'
  <2>1. afloat' # afloat => ~Usable(mem, k)' /\ ~Usable(disk, k)'
    <3>1. ~Usable(mem, k)'
      BY <1>1, <1>7
    <3>2. afloat' # afloat => ~Usable(disk, k)'
      BY <1>1, <1>2, <1>3, <1>4, <1>5 DEF Usable
    <3> QED
      BY <3>1, <3>2
  <2> QED
    BY <1>1, <1>8, <1>10, <2>1 DEF SentIsSpent
<1>12. InvolvedIsPrepared' /\ InvolvedRaced'
  BY <1>1, <1>10 DEF InvolvedIsPrepared, InvolvedRaced
<1>13. SentPassedChecks'
  <2>1. mode \in AllModes
    BY RelayAssumption DEF TypeOK
  <2>2. afloat' # afloat => mode \in {"unattested", "sync", "async"} /\ asked[k].mainnet
    BY <2>1 DEF MayBroadcast, AllModes, Goto, TypeOK
  <2>3. ~asked[k].question
    BY DEF SentPassedChecks
  <2> QED
    BY <1>1, <1>9, <1>10, <2>2, <2>3 DEF SentPassedChecks, PassesFieldChecks
<1>14. AttestsOnlyTheRelayed'
  BY <1>1, <1>9 DEF AttestsOnlyTheRelayed
<1>15. TypeOK'
  <2>1. mem' \in [Ids -> Statuses] /\ disk' \in [Ids -> Statuses]
    BY <1>2, <1>3, <1>4 DEF TypeOK
  <2>2. pc' \in [Requests -> Stages] /\ afloat' \subseteq Requests
    BY DEF Goto, TypeOK, Stages, OpenStages
  <2> QED
    BY <1>1, <2>1, <2>2 DEF TypeOK
<1>16. MarksStay
  BY <1>2, <1>3, <1>4 DEF MarksStay
<1> QED
  BY <1>16, <1>6, <1>8, <1>11, <1>12, <1>13, <1>14, <1>15

LEMMA VerifyKeeps ==
    ASSUME RelayInv, NEW r \in Requests, Verify(r)
    PROVE  RelayInv' /\ MarksStay
<1>1. pc[r] = "recover" /\ UNCHANGED <<inputs, accepted, handed, raced, crashes>>
  BY DEF Verify
<1>2. CASE (Goto(r, "refused") \/ Goto(r, "verified")) /\ UNCHANGED <<store, afloat>>
  <2>1. RelayInv'
    BY <1>1, <1>2, MoveKeeps DEF Stages
  <2>2. disk' = disk
    BY <1>2 DEF store
  <2> QED
    BY <2>1, <2>2 DEF MarksStay
<1>3. CASE /\ PassesFieldChecks(r) /\ MayBroadcast(r)
           /\ MarkUsed(req[r].id)
           /\ Goto(r, IF mode = "elsewhere" THEN "failed" ELSE "sending")
           /\ afloat' = IF mode = "elsewhere" THEN afloat ELSE afloat \cup {r}
           /\ UNCHANGED <<order, expired>>
  BY <1>1, <1>3, MarkKeeps
<1>4. CASE /\ PassesFieldChecks(r) /\ MayBroadcast(r)
           /\ Swept(disk)[req[r].id] = "fresh"
           /\ mem' = [Swept(disk) EXCEPT ![req[r].id] = "used"]
           /\ PersistFails
           /\ Goto(r, "failed")
           /\ UNCHANGED <<order, expired, afloat>>
  BY <1>1, <1>4, MarkKeeps DEF PersistFails
<1> QED
  BY <1>2, <1>3, <1>4 DEF Verify

LEMMA NodeTakesKeeps ==
    ASSUME RelayInv, NEW r \in Requests, NodeTakes(r)
    PROVE  RelayInv'
<1> USE DEF RelayInv
<1>1. /\ r \in afloat /\ accepted' = accepted \cup {r}
      /\ UNCHANGED <<mode, asked, req, order, expired, mem, disk, pc, afloat, handed, raced, crashes>>
  BY DEF NodeTakes, inputs, store
<1>2. Sent' = Sent /\ Involved' = Involved
  BY <1>1 DEF Sent, Involved
<1>3. TypeOK'
  BY <1>1 DEF TypeOK
<1>4. HoldsThePrepared' /\ StoreBounded' /\ CopyKeepsMarks'
  BY <1>1 DEF HoldsThePrepared, StoreBounded, CopyKeepsMarks, Held
<1>5. InvolvedIsPrepared' /\ InvolvedRaced' /\ SentPassedChecks'
  BY <1>1, <1>2 DEF InvolvedIsPrepared, InvolvedRaced, SentPassedChecks, PassesFieldChecks
<1>6. SentIsSpent'
  BY <1>1, <1>2 DEF SentIsSpent, Usable, Gone
<1>7. AttestsOnlyTheRelayed'
  BY <1>1 DEF AttestsOnlyTheRelayed
<1> QED
  BY <1>3, <1>4, <1>5, <1>6, <1>7

LEMMA SendEndsKeeps ==
    ASSUME RelayInv, NEW r \in Requests, SendEnds(r)
    PROVE  RelayInv'
<1>1. CASE Answered(r) /\ HandOver(r)
  <2> DEFINE stage == IF mode = "sync" THEN "publishing" ELSE "relayed"
  <2>1. r \in accepted /\ Goto(r, stage) /\ stage \in Stages \ {"recover"}
    BY <1>1 DEF Answered, HandOver, Stages, OpenStages
  <2>2. handed' = handed \/ handed' = handed \cup {req[r].tx}
    BY <1>1 DEF HandOver
  <2>3. UNCHANGED <<inputs, store, afloat, accepted, raced, crashes>>
    BY <1>1 DEF Answered
  <2> HIDE DEF stage
  <2> QED
    BY <2>1, <2>2, <2>3, MoveKeeps
<1>2. CASE Answered(r) /\ ~HandOver(r)
  <2> DEFINE stage == IF mode = "sync" THEN "failed" ELSE "relayed"
  <2>1. r \in accepted /\ Goto(r, stage) /\ stage \in Stages \ {"recover"}
    BY <1>2 DEF Answered, Stages
  <2>2. UNCHANGED <<inputs, store, afloat, accepted, handed, raced, crashes>>
    BY <1>2 DEF Answered
  <2> HIDE DEF stage
  <2> QED
    BY <2>1, <2>2, MoveKeeps
<1>3. CASE NodeRefuses(r)
  BY <1>3, MoveKeeps DEF NodeRefuses, Stages
<1>4. CASE LoseAnswer(r)
  BY <1>4, MoveKeeps DEF LoseAnswer, Stages
<1> QED
  BY <1>1, <1>2, <1>3, <1>4 DEF SendEnds

LEMMA RespondKeeps ==
    ASSUME RelayInv, NEW r \in Requests, Respond(r)
    PROVE  RelayInv'
<1>1. r \in accepted
  BY DEF RelayInv, AttestsOnlyTheRelayed, Respond
<1>2. CASE Goto(r, "relayed")
  BY <1>1, <1>2, MoveKeeps DEF Respond, Stages
<1>3. CASE Goto(r, "failed")
  BY <1>1, <1>3, MoveKeeps DEF Respond, Stages
<1> QED
  BY <1>2, <1>3 DEF Respond

LEMMA CrashKeeps ==
    ASSUME RelayInv, Crash
    PROVE  RelayInv'
<1> USE DEF RelayInv
<1>1. /\ mem' = Swept(disk)
      /\ crashes < MaxCrashes /\ crashes' = crashes + 1
      /\ UNCHANGED <<mode, asked, req, order, expired, disk, afloat, accepted, handed, raced>>
  BY DEF Crash, inputs
<1>2. /\ pc' \in [Requests -> Stages]
      /\ \A s \in Requests : pc'[s] \notin OpenStages /\ pc'[s] \in {pc[s], "dead"}
  BY DEF Crash, TypeOK, Stages, OpenStages
<1>3. /\ mem' \in [Ids -> Statuses]
      /\ HoldsThePrepared' /\ StoreBounded' /\ CopyKeepsMarks'
      /\ Sent' = Sent /\ SentIsSpent'
  BY <1>1, ReloadKeeps DEF SentIsSpent, Sent
<1>4. TypeOK'
  BY <1>1, <1>2, <1>3, RelayAssumption DEF TypeOK
<1>5. Involved' \subseteq Involved
  BY <1>2, <1>3 DEF Involved, OpenStages
<1>6. InvolvedIsPrepared' /\ InvolvedRaced'
  BY <1>1, <1>5 DEF InvolvedIsPrepared, InvolvedRaced
<1>7. SentPassedChecks'
  BY <1>1, <1>2, <1>3 DEF SentPassedChecks, PassesFieldChecks, OpenStages
<1>8. AttestsOnlyTheRelayed'
  BY <1>1, <1>2 DEF AttestsOnlyTheRelayed, OpenStages
<1> QED
  BY <1>3, <1>4, <1>6, <1>7, <1>8

\* Only savePreparedTx, the sweep and the mark write the file.
LEMMA NextKeepsMarks ==
    ASSUME RelayInv, [Next]_vars
    PROVE  MarksStay
<1>1. ASSUME NEW i \in Ids, Prepare(i) PROVE MarksStay
  BY <1>1, PrepareKeeps
<1>2. CASE Sweep
  BY <1>2, SweepKeeps
<1>3. ASSUME NEW r \in Requests, Verify(r) PROVE MarksStay
  BY <1>3, VerifyKeeps
<1>4. CASE disk' = disk
  BY <1>4 DEF MarksStay
<1>5. CASE Expire \/ Crash \/ UNCHANGED vars
  BY <1>4, <1>5 DEF Expire, Crash, vars
<1>6. ASSUME NEW r \in Requests, Submit(r) \/ NodeTakes(r) \/ SendEnds(r) \/ Respond(r)
      PROVE  MarksStay
  BY <1>4, <1>6 DEF Submit, Admit, NodeTakes, SendEnds, Answered, NodeRefuses, LoseAnswer,
     Respond, store
<1> QED
  BY <1>1, <1>2, <1>3, <1>5, <1>6 DEF Next

LEMMA RelayInvNext == RelayInv /\ [Next]_vars => RelayInv'
<1> SUFFICES ASSUME RelayInv, [Next]_vars PROVE RelayInv'
  OBVIOUS
<1>1. ASSUME NEW i \in Ids, Prepare(i) PROVE RelayInv'
  BY <1>1, PrepareKeeps
<1>2. CASE Expire
  BY <1>2, ExpireKeeps
<1>3. CASE Sweep
  BY <1>3, SweepKeeps
<1>4. ASSUME NEW r \in Requests,
             Submit(r) \/ Verify(r) \/ NodeTakes(r) \/ SendEnds(r) \/ Respond(r)
      PROVE  RelayInv'
  BY <1>4, SubmitKeeps, VerifyKeeps, NodeTakesKeeps, SendEndsKeeps, RespondKeeps
<1>5. CASE Crash
  BY <1>5, CrashKeeps
<1>6. CASE UNCHANGED vars
  BY <1>6 DEF vars, RelayInv, TypeOK, HoldsThePrepared, InvolvedIsPrepared, StoreBounded,
     CopyKeepsMarks, SentIsSpent, InvolvedRaced, SentPassedChecks, AttestsOnlyTheRelayed,
     Held, Usable, Gone, Sent, Involved, PassesFieldChecks
<1> QED
  BY <1>1, <1>2, <1>3, <1>4, <1>5, <1>6 DEF Next

-----------------------------------------------------------------------------
(* Theorems                                                                *)

\* The invariant that the rest follows from.
THEOREM RelayInvariant == Spec => []RelayInv
  BY RelayInvInit, RelayInvNext, PTL DEF Spec

\* Every variable keeps its type, and no id is prepared twice.
THEOREM TypeCorrect == Spec => []TypeOK
<1>1. RelayInv => TypeOK
  BY DEF RelayInv
<1> QED
  BY <1>1, RelayInvariant, PTL

\* Whatever crashes, evictions, failed writes and lost answers come between, a
\* record that no two requests had checked at once stands for one transaction
\* that the node took (markPreparedTxUsed before the broadcast).
THEOREM RelayedOnceUnlessRaced == Spec => []OneRelayUnlessRaced
<1>1. RelayInv => OneRelayUnlessRaced
  BY DEF RelayInv, InvolvedRaced, Involved, Sent, OneRelayUnlessRaced
<1> QED
  BY <1>1, RelayInvariant, PTL

\* What the node took or may still take was allowed, for the network it was
\* prepared for, with the record's fields but for the recipient of a contract
\* creation (the checks of handleBroadcastSigned, up to the await in which the
\* signer is recovered and after it), and nothing makes its record usable again.
THEOREM OnlyThePreparedOrACreationIsRelayed == Spec => []RelayedAsPreparedUnlessCreation
<1>1. RelayInv => RelayedAsPreparedUnlessCreation
  <2> SUFFICES ASSUME RelayInv, NEW r \in Sent
               PROVE  /\ ~asked[req[r].id].question
                      /\ asked[req[r].id].mainnet /\ mode \in {"unattested", "sync", "async"}
                      /\ req[r].differs \subseteq {"no_to"}
                      /\ "fresh" \notin {Swept(mem)[req[r].id], Swept(disk)[req[r].id]}
    BY DEF RelayedAsPreparedUnlessCreation, Sent
  <2>1. req[r].id \in Ids /\ mem \in [Ids -> Statuses] /\ disk \in [Ids -> Statuses]
    BY DEF RelayInv, TypeOK, Request, Sent
  <2>2. ~Usable(mem, req[r].id) /\ ~Usable(disk, req[r].id)
    BY DEF RelayInv, SentIsSpent
  <2>3. Swept(mem)[req[r].id] # "fresh" /\ Swept(disk)[req[r].id] # "fresh"
    BY <2>1, <2>2, SweptRemoves DEF Usable
  <2> QED
    BY <2>3 DEF RelayInv, SentPassedChecks, PassesFieldChecks
<1> QED
  BY <1>1, RelayInvariant, PTL

\* No transaction is handed to the attestation queue, and none reported, that
\* the node did not take.
THEOREM OnlyTheRelayedIsAttested == Spec => []AttestsOnlyTheRelayed
<1>1. RelayInv => AttestsOnlyTheRelayed
  BY DEF RelayInv
<1> QED
  BY <1>1, RelayInvariant, PTL

\* The store and its file stay within SAFEHANDS_PREPARED_TX_MAX.
THEOREM StoreStaysBounded == Spec => []StoreBounded
<1>1. RelayInv => StoreBounded
  BY DEF RelayInv
<1> QED
  BY <1>1, RelayInvariant, PTL

\* The file never forgets that a record was used (persist, under evictions,
\* failed writes, reloads and restarts).
THEOREM MarksAreForGood == Spec => MarkIsForGood
<1>1. RelayInv /\ [Next]_vars => [\A i \in Ids : disk[i] = "used" => disk'[i] # "fresh"]_vars
  BY NextKeepsMarks DEF MarksStay
<1> QED
  BY <1>1, RelayInvariant, PTL DEF Spec, MarkIsForGood

=============================================================================
