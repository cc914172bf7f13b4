------------------------- MODULE AttestationProofs -------------------------
(***************************************************************************)
(* What the attestation queue guarantees for any transactions, processes,  *)
(* sweeps and bounds: the ledger is write-once, and a record that says     *)
(* confirmed is on chain.  Where one process runs them all: nothing is     *)
(* forgotten, every transaction sent is counted, confirmed is for good.    *)
(***************************************************************************)
EXTENDS AttestationQueue, FiniteSetTheorems, SequenceTheorems, TLAPS

Entry == [tx : Txs, state : {"pool", "attested", "reverted"}]

\* An attempt that has sent its transaction awaits its own: the receipt that
\* it reads is for the record that it saves.
WritesAreOwn ==
    \A j \in active :
        j.stage \in {"sent", "receipt"} =>
            j.write \in DOMAIN ledger /\ ledger[j.write].tx = j.tx

ActiveOK ==
    /\ \A j \in active : j \in Job
    /\ \A j, k \in active : j.act = k.act => j = k

StoreOK ==
    /\ file \in [Txs -> Record]
    /\ mem \in [Procs -> [Txs -> Record]]

\* Every activity runs in one of the processes.
LEMMA ProcTyped ==
    ASSUME TypeOK, NEW a \in Activities
    PROVE  ProcOf(a) \in Procs
BY QueueAssumption DEF TypeOK, Activities, ProcOf

\* What is running is one of the processes.
LEMMA RunningTyped == TypeOK => Running \subseteq Procs
BY ProcTyped DEF Running

\* Saving a typed record keeps the stores typed.
LEMMA UpsertTyped ==
    ASSUME StoreOK, NEW p \in Procs, NEW state \in [Txs -> Record], NEW t \in Txs,
           NEW status \in Statuses, NEW n \in 0..MaxAttempts, Upsert(p, state, t, status, n)
    PROVE  StoreOK'
BY DEF StoreOK, Upsert, Record

\* Starting an attempt keeps the jobs and the stores typed.
LEMMA StartTyped ==
    ASSUME TypeOK, NEW a \in Activities, NEW state \in [Txs -> Record], NEW t \in Txs,
           NEW n \in 0..(MaxAttempts - 1), NEW todo \in SUBSET Waiting,
           Start(a, state, t, n, todo)
    PROVE  ActiveOK' /\ StoreOK' /\ (shared \subseteq Txs)'
<1>1. n + 1 \in 1..MaxAttempts /\ 0 \in 0..MaxWrites /\ MaxAttempts \in Nat
  BY QueueAssumption
<1> DEFINE new == [act |-> a, stage |-> "simulate", tx |-> t,
                   attempts |-> n + 1, write |-> 0, todo |-> todo]
<1>2. new \in Job /\ new.act = a
  BY <1>1 DEF Job
<1>3. /\ active' = Others(a) \cup {new}
      /\ shared' = shared \cup (OnHand(Others(a)) \cap OnHand({new}))
      /\ Upsert(ProcOf(a), state, t, "pending_retry", n + 1)
  BY DEF Start, Begin
<1>4. ActiveOK'
  <2> HIDE DEF new
  <2> QED BY <1>2, <1>3 DEF ActiveOK, TypeOK, Others
<1>5. StoreOK'
  <2>1. StoreOK /\ "pending_retry" \in Statuses /\ n + 1 \in 0..MaxAttempts
    BY <1>1 DEF TypeOK, StoreOK, Statuses
  <2> QED BY <2>1, <1>3, UpsertTyped, ProcTyped
<1>6. OnHand({new}) \subseteq Txs
  <2> HIDE DEF new
  <2>1. new.tx \in Txs /\ new.todo \subseteq Waiting /\ UNION {j.todo : j \in {new}} = new.todo
    BY <1>2 DEF Job
  <2> QED BY <2>1 DEF OnHand, Waiting
<1>7. (shared \subseteq Txs)'
  BY <1>3, <1>6 DEF TypeOK
<1> QED BY <1>4, <1>5, <1>7

\* Ending an attempt does too.
LEMMA FinishTyped ==
    ASSUME TypeOK, NEW j \in active, NEW status \in Statuses, Finish(j, status)
    PROVE  ActiveOK' /\ StoreOK'
<1>1. j \in Job /\ j.act \in Activities /\ j.tx \in Txs /\ j.attempts \in 0..MaxAttempts
  BY QueueAssumption DEF TypeOK, Job
<1> DEFINE rest == {[k EXCEPT !.stage = "next"] : k \in {i \in {j} : i.todo # {}}}
<1>2. \A k \in rest : k \in Job /\ k.act = j.act /\ k = [j EXCEPT !.stage = "next"]
  BY <1>1 DEF Job
<1>3. active' = Others(j.act) \cup rest
  BY DEF Finish
<1>4. ActiveOK'
  <2> HIDE DEF rest
  <2> QED BY <1>2, <1>3 DEF ActiveOK, TypeOK, Others
<1>5. StoreOK'
  <2>1. StoreOK /\ ProcOf(j.act) \in Procs /\ mem[ProcOf(j.act)] \in [Txs -> Record]
    BY <1>1, ProcTyped DEF TypeOK, StoreOK
  <2> QED BY <1>1, <2>1, UpsertTyped DEF Finish
<1> QED BY <1>4, <1>5

\* Fail saves one of two statuses.
LEMMA FailFinishes ==
    ASSUME NEW j, Fail(j)
    PROVE  \E status \in Statuses \ {"confirmed"} : Finish(j, status)
BY DEF Fail, Statuses

\* An attempt that goes on to its next await keeps the jobs typed.
LEMMA AdvanceTyped ==
    ASSUME TypeOK, NEW j \in active, NEW stage \in {"write", "sent", "receipt"},
           NEW write \in 0..MaxWrites, Advance(j, stage, write)
    PROVE  ActiveOK'
<1> DEFINE new == [j EXCEPT !.stage = stage, !.write = write]
<1>1. new \in Job /\ new.act = j.act
  BY DEF TypeOK, Job
<1>2. active' = Others(j.act) \cup {new}
  BY DEF Advance
<1> HIDE DEF new
<1> QED BY <1>1, <1>2 DEF ActiveOK, TypeOK, Others

\* Each step keeps the types.
THEOREM TypeStep == TypeOK /\ [Next]_vars => TypeOK'
<1> SUFFICES ASSUME TypeOK, [Next]_vars PROVE TypeOK'
  OBVIOUS
<1> USE QueueAssumption
<1>0. TypeOK /\ ActiveOK /\ StoreOK
  BY DEF TypeOK, ActiveOK, StoreOK
<1>1. ASSUME NEW t \in Txs, Publish(t) PROVE TypeOK'
  <2>1. t \in Activities /\ mem["api"] \in [Txs -> Record]
        /\ 0 \in 0..(MaxAttempts - 1) /\ {} \in SUBSET Waiting
    BY DEF TypeOK, Activities
  <2>2. ActiveOK' /\ StoreOK' /\ (shared \subseteq Txs)'
    BY <1>1, <2>1, StartTyped DEF Publish
  <2> QED BY <1>1, <2>2 DEF Publish, TypeOK, ActiveOK, StoreOK, inputs
<1>2. ASSUME NEW s \in Sweeps, NEW due \in SUBSET Txs, Sweep(s, due) PROVE TypeOK'
  <2>1. PICK t \in due :
          Start(s, file, t, file[t].attempts,
                {[tx |-> u, attempts |-> file[u].attempts] : u \in due \ {t}})
    BY <1>2 DEF Sweep
  <2>2. \A u \in due : u \in Txs /\ file[u].attempts \in 0..(MaxAttempts - 1)
    BY <1>2 DEF Sweep, Retryable, TypeOK, Record
  <2>3. {[tx |-> u, attempts |-> file[u].attempts] : u \in due \ {t}} \in SUBSET Waiting
    BY <2>2 DEF Waiting
  <2>4. s \in Activities /\ file \in [Txs -> Record]
    BY DEF Activities, TypeOK
  <2>5. ActiveOK' /\ StoreOK' /\ (shared \subseteq Txs)'
    BY <2>1, <2>2, <2>3, <2>4, StartTyped
  <2> QED BY <1>2, <2>5 DEF Sweep, TypeOK, ActiveOK, StoreOK, inputs
<1>3. ASSUME NEW p \in Procs, Reload(p) PROVE TypeOK'
  BY <1>3 DEF Reload, TypeOK, inputs
<1>4. ASSUME NEW j \in active, SweepNext(j) PROVE TypeOK'
  <2>1. PICK w \in j.todo : Start(j.act, mem[ProcOf(j.act)], w.tx, w.attempts, j.todo \ {w})
    BY <1>4 DEF SweepNext
  <2>2. j \in Job
    BY DEF TypeOK
  <2>3. j.act \in Activities /\ j.todo \in SUBSET Waiting /\ w \in Waiting
    BY <2>2 DEF Job
  <2>4. w.tx \in Txs /\ w.attempts \in 0..(MaxAttempts - 1) /\ j.todo \ {w} \in SUBSET Waiting
    BY <2>3 DEF Waiting
  <2>5. mem[ProcOf(j.act)] \in [Txs -> Record]
    BY <2>3, ProcTyped DEF TypeOK
  <2>6. ActiveOK' /\ StoreOK' /\ (shared \subseteq Txs)'
    BY <2>1, <2>3, <2>4, <2>5, StartTyped
  <2> QED BY <1>4, <2>6 DEF SweepNext, TypeOK, ActiveOK, StoreOK, inputs
<1>5. ASSUME NEW j \in active, Simulated(j) PROVE TypeOK'
  <2>1. CASE Attestable(j.tx)
    <3>1. Advance(j, "write", 0) /\ UNCHANGED <<file, mem>>
      BY <1>5, <2>1 DEF Simulated
    <3>2. ActiveOK'
      BY <3>1, AdvanceTyped
    <3> QED BY <1>5, <3>1, <3>2 DEF Simulated, TypeOK, ActiveOK, inputs
  <2>2. CASE ~Attestable(j.tx)
    <3>1. ActiveOK' /\ StoreOK'
      BY <1>5, <2>2, FailFinishes, FinishTyped DEF Simulated
    <3> QED BY <1>5, <3>1 DEF Simulated, TypeOK, ActiveOK, StoreOK, inputs
  <2> QED BY <2>1, <2>2
<1>6. ASSUME NEW j \in active, Send(j) PROVE TypeOK'
  <2>1. j.tx \in Txs /\ Len(ledger) \in Nat /\ Len(ledger) + 1 \in 0..MaxWrites
    BY <1>6 DEF Send, TypeOK, Job
  <2>2. ActiveOK'
    BY <1>6, <2>1, AdvanceTyped DEF Send
  <2>3. ledger' \in Seq(Entry) /\ Len(ledger') <= MaxWrites
    BY <1>6, <2>1 DEF Send, TypeOK, Entry
  <2> QED BY <1>6, <2>2, <2>3 DEF Send, TypeOK, ActiveOK, Entry, inputs
<1>7. ASSUME NEW j \in active, Sent(j) PROVE TypeOK'
  <2>1. j \in Job
    BY DEF TypeOK
  <2>2. j.act \in Activities /\ j.tx \in Txs /\ j.attempts \in 0..MaxAttempts /\ j.write \in 0..MaxWrites
    BY <2>1 DEF Job
  <2>3. ActiveOK'
    BY <1>7, <2>2, AdvanceTyped DEF Sent
  <2>4. ProcOf(j.act) \in Procs /\ mem[ProcOf(j.act)] \in [Txs -> Record]
    BY <2>2, ProcTyped DEF TypeOK
  <2>5. StoreOK'
    <3>1. "published" \in Statuses
      BY DEF Statuses
    <3> QED BY <1>0, <1>7, <2>2, <2>4, <3>1, UpsertTyped DEF Sent
  <2> QED BY <1>7, <2>3, <2>5 DEF Sent, TypeOK, ActiveOK, StoreOK, inputs
<1>8. ASSUME NEW j \in active, Receipt(j) PROVE TypeOK'
  <2>1. ActiveOK' /\ StoreOK'
    <3>1. "confirmed" \in Statuses /\ "failed" \in Statuses
      BY DEF Statuses
    <3> QED BY <1>8, <3>1, FinishTyped DEF Receipt
  <2> QED BY <1>8, <2>1 DEF Receipt, TypeOK, ActiveOK, StoreOK, inputs
<1>9. ASSUME NEW j \in active, Throw(j) PROVE TypeOK'
  <2>1. ActiveOK' /\ StoreOK'
    BY <1>9, FailFinishes, FinishTyped DEF Throw
  <2> QED BY <1>9, <2>1 DEF Throw, TypeOK, ActiveOK, StoreOK, inputs
<1>10. ASSUME NEW i \in DOMAIN ledger, Mine(i) PROVE TypeOK'
  <2>1. ledger' \in Seq(Entry) /\ Len(ledger') = Len(ledger)
    <3>1. ledger \in Seq(Entry) /\ i \in 1..Len(ledger)
      BY DEF TypeOK, Entry
    <3> DEFINE outcome == IF Attestable(ledger[i].tx) THEN "attested" ELSE "reverted"
    <3>2. outcome \in {"attested", "reverted"} /\ ledger[i] \in Entry
      BY <3>1, ElementOfSeq
    <3>3. ledger' = [ledger EXCEPT ![i].state = outcome]
      BY <1>10 DEF Mine
    <3> HIDE DEF outcome
    <3>4. [ledger[i] EXCEPT !.state = outcome] \in Entry
      BY <3>2 DEF Entry
    <3> QED BY <3>1, <3>3, <3>4, ExceptSeq
  <2> QED BY <1>10, <2>1 DEF Mine, TypeOK, Entry, inputs
<1>11. ASSUME NEW p \in Procs, Crash(p) PROVE TypeOK'
  BY <1>11 DEF Crash, TypeOK, inputs
<1>12. CASE UNCHANGED vars
  BY <1>12 DEF vars, TypeOK
<1> QED BY <1>1, <1>2, <1>3, <1>4, <1>5, <1>6, <1>7, <1>8, <1>9, <1>10, <1>11, <1>12,
           RunningTyped DEF Next, Step

\* Every variable of the queue stays typed, with attempts up to MAX_ATTEMPTS.
THEOREM TypeCorrect == Spec => []TypeOK
<1>1. Init => TypeOK
  <2> SUFFICES ASSUME Init PROVE TypeOK
    OBVIOUS
  <2>1. NoRecords \in [Txs -> Record]
    BY QueueAssumption DEF NoRecords, Record, Statuses
  <2>2. <<>> \in Seq(Entry) /\ Len(<<>>) = 0
    OBVIOUS
  <2> QED BY <2>1, <2>2, QueueAssumption DEF Init, TypeOK, Entry
<1> QED BY <1>1, TypeStep, PTL DEF Spec

-----------------------------------------------------------------------------
(* The write-once ledger                                                   *)

IsAttested(i) == ledger[i].state = "attested"

\* Every step leaves the ledger alone, sends one more transaction, or mines
\* one: what is attested stays so.
LEMMA LedgerStep ==
    ASSUME TypeOK, [Next]_vars
    PROVE  \/ ledger' = ledger
           \/ \E t \in Txs : ledger' = Append(ledger, [tx |-> t, state |-> "pool"])
           \/ \E i \in DOMAIN ledger : Mine(i)
<1>1. ASSUME NEW j \in active, Send(j)
      PROVE  \E t \in Txs : ledger' = Append(ledger, [tx |-> t, state |-> "pool"])
  BY <1>1 DEF Send, TypeOK, Job
<1> QED BY <1>1 DEF Next, vars, Step, Publish, Sweep, Reload, SweepNext, Simulated, Sent, Receipt,
                    Throw, Crash, Send

\* What Mine does to the entries.
LEMMA MineEntries ==
    ASSUME TypeOK, NEW i \in DOMAIN ledger, Mine(i)
    PROVE  /\ DOMAIN ledger' = DOMAIN ledger
           /\ \A k \in DOMAIN ledger : ledger'[k].tx = ledger[k].tx
           /\ \A k \in DOMAIN ledger \ {i} : ledger'[k] = ledger[k]
           /\ ledger'[i].state = IF Attestable(ledger[i].tx) THEN "attested" ELSE "reverted"
           /\ ledger[i].state = "pool"
           /\ hashOf' = hashOf
<1>3. ledger \in Seq(Entry)
  BY DEF TypeOK, Entry
<1>1. \A k \in DOMAIN ledger : ledger[k] \in Entry
  BY <1>3
<1> DEFINE outcome == IF Attestable(ledger[i].tx) THEN "attested" ELSE "reverted"
<1>2. ledger' = [ledger EXCEPT ![i].state = outcome] /\ ledger[i].state = "pool" /\ hashOf' = hashOf
  BY DEF Mine, inputs
<1> HIDE DEF outcome
<1>4. /\ DOMAIN ledger' = DOMAIN ledger
      /\ \A k \in DOMAIN ledger : ledger'[k].tx = ledger[k].tx
      /\ \A k \in DOMAIN ledger \ {i} : ledger'[k] = ledger[k]
      /\ ledger'[i].state = outcome
  BY <1>1, <1>2, <1>3 DEF Entry
<1> QED BY <1>2, <1>4 DEF outcome

\* An appended entry leaves the others where they are.
LEMMA AppendEntries ==
    ASSUME TypeOK, NEW t \in Txs, ledger' = Append(ledger, [tx |-> t, state |-> "pool"])
    PROVE  /\ DOMAIN ledger' = DOMAIN ledger \cup {Len(ledger) + 1}
           /\ \A k \in DOMAIN ledger : ledger'[k] = ledger[k]
           /\ Len(ledger) + 1 \notin DOMAIN ledger
           /\ ledger'[Len(ledger) + 1] = [tx |-> t, state |-> "pool"]
BY DEF TypeOK

\* What is attested is attested for good.
LEMMA AttestedGrows ==
    ASSUME TypeOK, [Next]_vars
    PROVE  Attested \subseteq Attested'
<1>1. CASE ledger' = ledger
  BY <1>1 DEF Attested
<1>2. ASSUME NEW t \in Txs, ledger' = Append(ledger, [tx |-> t, state |-> "pool"])
      PROVE  Attested \subseteq Attested'
  BY <1>2, AppendEntries DEF Attested
<1>3. ASSUME NEW i \in DOMAIN ledger, Mine(i)
      PROVE  Attested \subseteq Attested'
  BY <1>3, MineEntries DEF Attested
<1> QED BY <1>1, <1>2, <1>3, LedgerStep

\* The ledger is write-once in every behaviour: attest finds, for whatever is
\* mined when, that neither the transaction nor its preparation is attested.
THEOREM LedgerIsWriteOnce == Spec => []WriteOnce
<1>1. Init => WriteOnce
  BY DEF Init, WriteOnce
<1>2. TypeOK /\ WriteOnce /\ [Next]_vars => WriteOnce'
  <2> SUFFICES ASSUME TypeOK, WriteOnce, [Next]_vars PROVE WriteOnce'
    OBVIOUS
  <2>0. hashOf' = hashOf
    BY DEF Next, vars, Step, Publish, Sweep, Reload, SweepNext, Simulated, Send, Sent, Receipt,
           Throw, Crash, Mine, inputs
  <2>1. CASE ledger' = ledger
    BY <2>0, <2>1 DEF WriteOnce
  <2>2. ASSUME NEW t \in Txs, ledger' = Append(ledger, [tx |-> t, state |-> "pool"])
        PROVE  WriteOnce'
    BY <2>0, <2>2, AppendEntries DEF WriteOnce
  <2>3. ASSUME NEW i \in DOMAIN ledger, Mine(i)
        PROVE  WriteOnce'
    <3>1. \A k \in DOMAIN ledger : ledger[k].state = "attested" => ledger[k].tx \in Attested
      BY DEF Attested
    <3>2. ASSUME NEW k \in DOMAIN ledger, ledger[k].state = "attested", Attestable(ledger[i].tx)
          PROVE  ledger[k].tx # ledger[i].tx /\ hashOf[ledger[k].tx] # hashOf[ledger[i].tx]
      BY <3>1, <3>2 DEF Attestable
    <3>3. ASSUME NEW a \in DOMAIN ledger, NEW b \in DOMAIN ledger, a # b,
                 ledger'[a].state = "attested", ledger'[b].state = "attested"
          PROVE  /\ ledger[a].tx # ledger[b].tx
                 /\ hashOf[ledger[a].tx] # hashOf[ledger[b].tx]
      <4>1. CASE a = i
        BY <2>3, <3>2, <3>3, <4>1, MineEntries
      <4>2. CASE b = i
        BY <2>3, <3>2, <3>3, <4>2, MineEntries
      <4>3. CASE a # i /\ b # i
        BY <2>3, <3>3, <4>3, MineEntries DEF WriteOnce
      <4> QED BY <4>1, <4>2, <4>3
    <3> QED BY <2>0, <2>3, <3>3, MineEntries DEF WriteOnce
  <2> QED BY <2>1, <2>2, <2>3, LedgerStep
<1> QED BY <1>1, <1>2, TypeCorrect, PTL DEF Spec

-----------------------------------------------------------------------------
(* A confirmed record is on chain                                          *)

\* Saving a record keeps confirmed true, if it is true of what is saved.
LEMMA UpsertConfirms ==
    ASSUME TypeOK, ConfirmedIsAttested, [Next]_vars,
           NEW p \in Procs, NEW state \in {file, mem[p]}, NEW t \in Txs,
           NEW status, NEW n, Upsert(p, state, t, status, n),
           status = "confirmed" => t \in Attested
    PROVE  ConfirmedIsAttested'
<1>1. Attested \subseteq Attested'
  BY AttestedGrows
<1>2. \A u \in Txs : state[u].status = "confirmed" => u \in Attested
  BY DEF ConfirmedIsAttested
<1>3. state \in [Txs -> Record]
  BY DEF TypeOK
<1> DEFINE new == [state EXCEPT ![t] = [status |-> status, attempts |-> n]]
<1>4. file' = new /\ mem' = [mem EXCEPT ![p] = new] /\ mem \in [Procs -> [Txs -> Record]]
  BY DEF Upsert, TypeOK
<1>5. \A u \in Txs : new[u].status = "confirmed" => u \in Attested
  BY <1>2, <1>3
<1> HIDE DEF new
<1>6. \A u \in Txs, q \in Procs : mem'[q][u].status = "confirmed" => u \in Attested
  BY <1>4, <1>5 DEF ConfirmedIsAttested
<1> QED BY <1>1, <1>4, <1>5, <1>6 DEF ConfirmedIsAttested

\* Starting an attempt confirms nothing.
LEMMA StartConfirms ==
    ASSUME TypeOK, ConfirmedIsAttested, [Next]_vars,
           NEW a \in Activities, NEW state \in {file, mem[ProcOf(a)]}, NEW t \in Txs,
           NEW n, NEW todo, Start(a, state, t, n, todo)
    PROVE  ConfirmedIsAttested'
BY ProcTyped, UpsertConfirms DEF Start

\* Ending one keeps confirmed true, if it is true of the record.
LEMMA FinishConfirms ==
    ASSUME TypeOK, ConfirmedIsAttested, [Next]_vars, NEW j \in active, NEW status,
           Finish(j, status), status = "confirmed" => j.tx \in Attested
    PROVE  ConfirmedIsAttested'
<1>1. j.act \in Activities /\ j.tx \in Txs
  BY DEF TypeOK, Job
<1> QED BY <1>1, ProcTyped, UpsertConfirms DEF Finish

\* An attempt reads the receipt of the transaction that it sent.
THEOREM WritesStayOwn == TypeOK /\ WritesAreOwn /\ [Next]_vars => WritesAreOwn'
<1> SUFFICES ASSUME TypeOK, WritesAreOwn, [Next]_vars PROVE WritesAreOwn'
  OBVIOUS
<1> DEFINE Own(j) == j.stage \in {"sent", "receipt"} =>
                        j.write \in DOMAIN ledger /\ ledger[j.write].tx = j.tx
<1>1. \A k \in DOMAIN ledger : k \in DOMAIN ledger' /\ ledger'[k].tx = ledger[k].tx
  <2>1. CASE ledger' = ledger
    BY <2>1
  <2>2. ASSUME NEW t \in Txs, ledger' = Append(ledger, [tx |-> t, state |-> "pool"])
        PROVE  \A k \in DOMAIN ledger : k \in DOMAIN ledger' /\ ledger'[k].tx = ledger[k].tx
    BY <2>2, AppendEntries
  <2>3. ASSUME NEW i \in DOMAIN ledger, Mine(i)
        PROVE  \A k \in DOMAIN ledger : k \in DOMAIN ledger' /\ ledger'[k].tx = ledger[k].tx
    BY <2>3, MineEntries
  <2> QED BY <2>1, <2>2, <2>3, LedgerStep
<1>2. \A j \in active : Own(j)'
  BY <1>1 DEF WritesAreOwn
<1>3. ASSUME NEW a, NEW state, NEW t, NEW n, NEW todo, Start(a, state, t, n, todo)
      PROVE  WritesAreOwn'
  BY <1>2, <1>3 DEF Start, Begin, Others, WritesAreOwn
<1>4. ASSUME NEW j \in active, NEW status, Finish(j, status)
      PROVE  WritesAreOwn'
  <2>1. \A k \in active' : k \in active \/ k = [j EXCEPT !.stage = "next"]
    BY <1>4 DEF Finish, Others
  <2>2. j \in Job
    BY DEF TypeOK
  <2>3. [j EXCEPT !.stage = "next"].stage = "next"
    BY <2>2 DEF Job
  <2> QED BY <1>2, <2>1, <2>3 DEF WritesAreOwn
<1>5. ASSUME NEW j \in active, Send(j) PROVE WritesAreOwn'
  <2>1. j \in Job /\ ledger' = Append(ledger, [tx |-> j.tx, state |-> "pool"])
    BY <1>5 DEF Send, TypeOK
  <2>2. j.tx \in Txs
    BY <2>1 DEF Job
  <2>3. Len(ledger) + 1 \in DOMAIN ledger' /\ ledger'[Len(ledger) + 1].tx = j.tx
    BY <2>1, <2>2, AppendEntries
  <2> DEFINE new == [j EXCEPT !.stage = "sent", !.write = Len(ledger) + 1]
  <2>4. new.write = Len(ledger) + 1 /\ new.tx = j.tx
    BY <2>1 DEF Job
  <2>5. active' = Others(j.act) \cup {new}
    BY <1>5 DEF Send, Advance
  <2> HIDE DEF new
  <2> QED BY <1>2, <2>3, <2>4, <2>5 DEF WritesAreOwn, Others
<1>6. ASSUME NEW j \in active, Sent(j) PROVE WritesAreOwn'
  <2>1. j \in Job
    BY DEF TypeOK
  <2> DEFINE new == [j EXCEPT !.stage = "receipt", !.write = j.write]
  <2>2. new.write = j.write /\ new.tx = j.tx
    BY <2>1 DEF Job
  <2>3. active' = Others(j.act) \cup {new} /\ j.stage = "sent"
    BY <1>6 DEF Sent, Advance
  <2> HIDE DEF new
  <2> QED BY <1>2, <2>2, <2>3 DEF WritesAreOwn, Others
<1>7. ASSUME NEW j \in active, Simulated(j) PROVE WritesAreOwn'
  <2>1. CASE Attestable(j.tx)
    <3>1. j \in Job
      BY DEF TypeOK
    <3> DEFINE new == [j EXCEPT !.stage = "write", !.write = 0]
    <3>2. new.stage = "write"
      BY <3>1 DEF Job
    <3>3. active' = Others(j.act) \cup {new}
      BY <1>7, <2>1 DEF Simulated, Advance
    <3> HIDE DEF new
    <3> QED BY <1>2, <3>2, <3>3 DEF WritesAreOwn, Others
  <2>2. CASE ~Attestable(j.tx)
    BY <1>4, <1>7, <2>2 DEF Simulated, Fail
  <2> QED BY <2>1, <2>2
<1>8. ASSUME active' \subseteq active PROVE WritesAreOwn'
  BY <1>2, <1>8 DEF WritesAreOwn
<1>9. ASSUME NEW t \in Txs, Publish(t) PROVE WritesAreOwn'
  BY <1>3, <1>9 DEF Publish
<1>10. ASSUME NEW s \in Sweeps, NEW due \in SUBSET Txs, Sweep(s, due) PROVE WritesAreOwn'
  BY <1>3, <1>10 DEF Sweep
<1>11. ASSUME NEW j \in active, SweepNext(j) PROVE WritesAreOwn'
  BY <1>3, <1>11 DEF SweepNext
<1>12. ASSUME NEW j \in active, Receipt(j) PROVE WritesAreOwn'
  BY <1>4, <1>12 DEF Receipt
<1>13. ASSUME NEW j \in active, Throw(j) PROVE WritesAreOwn'
  BY <1>4, <1>13 DEF Throw, Fail
<1>14. ASSUME NEW p \in Procs, Reload(p) \/ Crash(p) PROVE WritesAreOwn'
  BY <1>8, <1>14 DEF Reload, Crash
<1>15. ASSUME NEW i \in DOMAIN ledger, Mine(i) PROVE WritesAreOwn'
  BY <1>8, <1>15 DEF Mine
<1>16. CASE UNCHANGED vars
  BY <1>8, <1>16 DEF vars
<1> QED BY <1>5, <1>6, <1>7, <1>9, <1>10, <1>11, <1>12, <1>13, <1>14, <1>15, <1>16,
           RunningTyped DEF Next, Step

\* In every behaviour a record that says confirmed, in the file or in the
\* state of any process, is attested on chain.
THEOREM ConfirmedIsTrue == Spec => []ConfirmedIsAttested
<1>1. Init => WritesAreOwn /\ ConfirmedIsAttested
  <2> SUFFICES ASSUME Init PROVE WritesAreOwn /\ ConfirmedIsAttested
    OBVIOUS
  <2>1. \A t \in Txs : NoRecords[t].status = "absent"
    BY DEF NoRecords
  <2> QED BY <2>1 DEF Init, WritesAreOwn, ConfirmedIsAttested
<1>2. TypeOK /\ WritesAreOwn /\ ConfirmedIsAttested /\ [Next]_vars => ConfirmedIsAttested'
  <2> SUFFICES ASSUME TypeOK, WritesAreOwn, ConfirmedIsAttested, [Next]_vars
               PROVE  ConfirmedIsAttested'
    OBVIOUS
  <2>0. Attested \subseteq Attested'
    BY AttestedGrows
  <2>1. ASSUME NEW t \in Txs, Publish(t) PROVE ConfirmedIsAttested'
    <3>1. t \in Activities /\ ProcOf(t) = "api"
      BY DEF Activities, ProcOf
    <3> QED BY <2>1, <3>1, StartConfirms DEF Publish
  <2>2. ASSUME NEW s \in Sweeps, NEW due \in SUBSET Txs, Sweep(s, due) PROVE ConfirmedIsAttested'
    <3>1. PICK t \in due :
            Start(s, file, t, file[t].attempts,
                  {[tx |-> u, attempts |-> file[u].attempts] : u \in due \ {t}})
      BY <2>2 DEF Sweep
    <3>2. s \in Activities /\ t \in Txs
      BY DEF Activities
    <3> QED BY <3>1, <3>2, StartConfirms
  <2>3. ASSUME NEW j \in active, SweepNext(j) PROVE ConfirmedIsAttested'
    <3>1. PICK w \in j.todo : Start(j.act, mem[ProcOf(j.act)], w.tx, w.attempts, j.todo \ {w})
      BY <2>3 DEF SweepNext
    <3>2. j.act \in Activities /\ w.tx \in Txs
      BY DEF TypeOK, Job, Waiting
    <3> QED BY <3>1, <3>2, StartConfirms
  <2>4. ASSUME NEW j \in active, Fail(j) PROVE ConfirmedIsAttested'
    BY <2>4, FinishConfirms DEF Fail
  <2>5. ASSUME NEW j \in active, Sent(j) PROVE ConfirmedIsAttested'
    <3>1. j.act \in Activities /\ j.tx \in Txs
      BY DEF TypeOK, Job
    <3>2. ProcOf(j.act) \in Procs
      BY <3>1, ProcTyped
    <3>3. Upsert(ProcOf(j.act), mem[ProcOf(j.act)], j.tx, "published", j.attempts)
      BY <2>5 DEF Sent
    <3> QED BY <3>1, <3>2, <3>3, UpsertConfirms
  <2>6. ASSUME NEW j \in active, Receipt(j) PROVE ConfirmedIsAttested'
    <3>1. j.write \in DOMAIN ledger /\ ledger[j.write].tx = j.tx
      BY <2>6 DEF Receipt, WritesAreOwn
    <3>2. ledger[j.write].state = "attested" => j.tx \in Attested
      BY <3>1 DEF Attested
    <3> QED BY <2>6, <3>2, FinishConfirms DEF Receipt
  <2>7. ASSUME file' = file, mem' = mem PROVE ConfirmedIsAttested'
    BY <2>0, <2>7 DEF ConfirmedIsAttested
  <2>8. ASSUME NEW p \in Procs, file' = file, mem' = [mem EXCEPT ![p] = file]
        PROVE  ConfirmedIsAttested'
    BY <2>0, <2>8 DEF ConfirmedIsAttested, TypeOK
  <2>9. ASSUME NEW p \in Procs, Reload(p) \/ Crash(p) PROVE ConfirmedIsAttested'
    BY <2>8, <2>9 DEF Reload, Crash
  <2>10. ASSUME NEW j \in active, Simulated(j) PROVE ConfirmedIsAttested'
    BY <2>4, <2>7, <2>10 DEF Simulated
  <2>11. ASSUME NEW j \in active, Send(j) PROVE ConfirmedIsAttested'
    BY <2>7, <2>11 DEF Send
  <2>12. ASSUME NEW j \in active, Throw(j) PROVE ConfirmedIsAttested'
    BY <2>4, <2>12 DEF Throw
  <2>13. ASSUME NEW i \in DOMAIN ledger, Mine(i) PROVE ConfirmedIsAttested'
    BY <2>7, <2>13 DEF Mine
  <2>14. CASE UNCHANGED vars
    BY <2>7, <2>14 DEF vars
  <2> QED BY <2>1, <2>2, <2>3, <2>5, <2>6, <2>9, <2>10, <2>11, <2>12, <2>13,
               <2>14, RunningTyped DEF Next, Step
<1> QED BY <1>1, <1>2, WritesStayOwn, TypeCorrect, PTL DEF Spec

-----------------------------------------------------------------------------
(* One process                                                             *)

\* The attestation transactions sent for t.
SendsOf(t) == {i \in DOMAIN ledger : ledger[i].tx = t}
Sends(t) == Cardinality(SendsOf(t))

Has(j, t) == j.tx = t \/ \E w \in j.todo : w.tx = t

ListOK(j) == \A w \in j.todo : w.tx # j.tx /\ \A v \in j.todo : v.tx = w.tx => v = w

(***************************************************************************)
(* The count of a record that one activity at most ever had on hand: it is *)
(* raised before anything is sent, and what an activity still has to send  *)
(* is not yet counted off.  A listed record keeps its count until the      *)
(* sweep comes to it, and is not confirmed in between.                     *)
(***************************************************************************)
CountInv(t) ==
    /\ Sends(t) <= file[t].attempts
    /\ \A j \in active : j.tx = t /\ j.stage # "next" =>
          /\ file[t].attempts = j.attempts
          /\ file[t].status # "confirmed"
          /\ j.stage \in {"simulate", "write"} => Sends(t) < j.attempts
    /\ \A j \in active : \A w \in j.todo : w.tx = t =>
          Sends(t) <= w.attempts /\ file[t].status # "confirmed"
    /\ \A j, k \in active : Has(j, t) /\ Has(k, t) => j = k

QueuedInv(t) ==
    IF t \in queued THEN file[t].status # "absent"
    ELSE file[t].status = "absent" /\ Sends(t) = 0 /\ \A j \in active : ~Has(j, t)

SingleInv ==
    /\ mem["api"] = file
    /\ \A j \in active : ListOK(j)
    /\ \A t \in Txs : QueuedInv(t)
    /\ \A t \in Txs \ shared : CountInv(t)

LEMMA SendsNat ==
    ASSUME TypeOK, NEW t
    PROVE  IsFiniteSet(SendsOf(t)) /\ Sends(t) \in Nat
<1>1. DOMAIN ledger = 1..Len(ledger) /\ Len(ledger) \in Nat
  BY DEF TypeOK
<1>2. IsFiniteSet(DOMAIN ledger)
  BY <1>1, FS_Interval
<1>3. SendsOf(t) \in SUBSET DOMAIN ledger
  BY DEF SendsOf
<1> QED BY <1>2, <1>3, FS_Subset, FS_CardinalityType DEF Sends

\* Mining sends nothing; sending counts for its own transaction only.
LEMMA SendsStay ==
    ASSUME TypeOK, [Next]_vars, NEW t,
           \A s \in Txs : ledger' = Append(ledger, [tx |-> s, state |-> "pool"]) => s # t
    PROVE  Sends(t)' = Sends(t)
<1> SUFFICES SendsOf(t)' = SendsOf(t)
  BY DEF Sends
<1>1. CASE ledger' = ledger
  BY <1>1 DEF SendsOf
<1>2. ASSUME NEW s \in Txs, ledger' = Append(ledger, [tx |-> s, state |-> "pool"])
      PROVE  SendsOf(t)' = SendsOf(t)
  <2>1. s # t
    BY <1>2
  <2> QED BY <1>2, <2>1, AppendEntries DEF SendsOf
<1>3. ASSUME NEW i \in DOMAIN ledger, Mine(i)
      PROVE  SendsOf(t)' = SendsOf(t)
  BY <1>3, MineEntries DEF SendsOf
<1> QED BY <1>1, <1>2, <1>3, LedgerStep

LEMMA SendsMore ==
    ASSUME TypeOK, NEW t \in Txs, ledger' = Append(ledger, [tx |-> t, state |-> "pool"])
    PROVE  Sends(t)' = Sends(t) + 1
<1>1. SendsOf(t)' = SendsOf(t) \cup {Len(ledger) + 1} /\ Len(ledger) + 1 \notin SendsOf(t)
  BY AppendEntries DEF SendsOf
<1> QED BY <1>1, SendsNat, FS_AddElement DEF Sends

\* What an activity has on hand.
LEMMA OnHandPointwise ==
    ASSUME NEW jobs, NEW t
    PROVE  t \in OnHand(jobs) <=> \E j \in jobs : Has(j, t)
BY DEF OnHand, Has

LEMMA OneProcessIsApi ==
    ASSUME OneProcess, NEW a \in Activities
    PROVE  ProcOf(a) = "api"
BY DEF OneProcess, Running

\* In one process, saving a record is changing the file.
LEMMA UpsertSingle ==
    ASSUME TypeOK, SingleInv, NEW t \in Txs, NEW status, NEW n,
           Upsert("api", file, t, status, n) \/ Upsert("api", mem["api"], t, status, n)
    PROVE  /\ mem'["api"] = file'
           /\ file'[t] = [status |-> status, attempts |-> n]
           /\ \A u \in Txs \ {t} : file'[u] = file[u]
BY QueueAssumption DEF Upsert, SingleInv, TypeOK

\* An activity starts with a record: a new one, one that the file says is
\* pending, or the next of its list.
LEMMA StartSingle ==
    ASSUME TypeOK, SingleInv, OneProcess, [Next]_vars,
           NEW a \in Activities, NEW t \in Txs, NEW n \in 0..(MaxAttempts - 1),
           NEW todo \in SUBSET Waiting,
           Start(a, file, t, n, todo) \/ Start(a, mem[ProcOf(a)], t, n, todo),
           ledger' = ledger, queued' = queued \cup {t},
           \A w \in todo : w.tx \in queued /\ w.tx # t /\ \A v \in todo : v.tx = w.tx => v = w,
           t \notin shared' => Sends(t) <= n /\ file[t].status # "confirmed",
           \A w \in todo : w.tx \notin shared' =>
                Sends(w.tx) <= w.attempts /\ file[w.tx].status # "confirmed"
    PROVE  SingleInv'
<1> DEFINE job == [act |-> a, stage |-> "simulate", tx |-> t,
                   attempts |-> n + 1, write |-> 0, todo |-> todo]
<1>1. /\ active' = Others(a) \cup {job}
      /\ shared' = shared \cup (OnHand(Others(a)) \cap OnHand({job}))
  BY DEF Start, Begin
<1>2. /\ job.stage = "simulate" /\ job.tx = t /\ job.attempts = n + 1 /\ job.todo = todo
  OBVIOUS
<1> HIDE DEF job
<1>3. /\ mem'["api"] = file'
      /\ file'[t] = [status |-> "pending_retry", attempts |-> n + 1]
      /\ \A u \in Txs \ {t} : file'[u] = file[u]
  <2>1. ProcOf(a) = "api"
    BY OneProcessIsApi
  <2> QED BY <2>1, UpsertSingle DEF Start
<1>4. file'[t].status = "pending_retry" /\ file'[t].attempts = n + 1
  BY <1>3
<1>5. Others(a) \subseteq active /\ n \in Nat
  BY DEF Others
<1>6. \A u : Sends(u)' = Sends(u) /\ Sends(u) \in Nat
  BY SendsNat DEF Sends, SendsOf
<1>7. \A j \in active' : ListOK(j)
  BY <1>1, <1>2, <1>5 DEF SingleInv, ListOK
<1>8. ASSUME NEW u \in Txs PROVE QueuedInv(u)'
  <2>1. CASE u \in queued'
    BY <1>3, <1>4, <2>1 DEF SingleInv, QueuedInv
  <2>2. CASE u \notin queued'
    <3>1. u \notin queued /\ u # t
      BY <2>2
    <3>2. ~Has(job, u)
      BY <1>2, <3>1 DEF Has
    <3>3. \A j \in active' : ~Has(j, u)
      BY <1>1, <1>5, <3>1, <3>2 DEF SingleInv, QueuedInv
    <3> QED BY <1>3, <1>6, <2>2, <3>1, <3>3 DEF SingleInv, QueuedInv
  <2> QED BY <2>1, <2>2
<1>9. ASSUME NEW u \in Txs, u \notin shared' PROVE CountInv(u)'
  <2>1. CountInv(u) /\ u \notin shared
    BY <1>1, <1>9 DEF SingleInv
  <2>2. Has(job, u) => \A k \in Others(a) : ~Has(k, u)
    BY <1>1, <1>9, OnHandPointwise
  <2>3. CASE u = t
    <3>1. Has(job, u) /\ \A k \in Others(a) : ~Has(k, u)
      BY <1>2, <2>2, <2>3 DEF Has
    <3>2. Sends(u) <= n
      BY <1>9, <2>3
    <3>3. \A k \in active' : Has(k, u) => k = job
      BY <1>1, <3>1
    <3>4. \A w \in todo : w.tx # u
      BY <2>3
    <3> QED BY <1>2, <1>4, <1>5, <1>6, <2>3, <3>2, <3>3, <3>4 DEF CountInv, Has
  <2>4. CASE u # t
    <3>1. file'[u] = file[u]
      BY <1>3, <2>4
    <3>2. \A k \in active' : k \in active \/ k = job
      BY <1>1, <1>5
    <3>3. \A w \in todo : w.tx = u => Sends(u) <= w.attempts /\ file[u].status # "confirmed"
      BY <1>9
    <3>4. \A j, k \in active' : Has(j, u) /\ Has(k, u) => j = k
      BY <1>1, <1>5, <2>1, <2>2 DEF CountInv
    <3>5. Sends(u) <= file'[u].attempts
      BY <2>1, <3>1 DEF CountInv
    <3>6. \A j \in active' : j.tx = u /\ j.stage # "next" => j \in active
      BY <1>2, <2>4, <3>2
    <3> QED BY <1>2, <1>6, <2>1, <3>1, <3>2, <3>3, <3>4, <3>5, <3>6 DEF CountInv
  <2> QED BY <2>3, <2>4
<1> QED BY <1>3, <1>7, <1>8, <1>9 DEF SingleInv

\* An attempt goes on, or ends, with its own record.
LEMMA AttemptSingle ==
    ASSUME TypeOK, SingleInv, [Next]_vars, NEW j \in active, j.stage # "next", NEW k,
           k.tx = j.tx, k.attempts = j.attempts, k.todo = j.todo,
           k.stage \in {"simulate", "write"} => j.stage \in {"simulate", "write"},
           active' \subseteq Others(j.act) \cup {k},
           shared' = shared, queued' = queued,
           \/ file' = file /\ mem' = mem
           \/ \E status \in Statuses \ {"absent"} :
                 /\ Upsert("api", mem["api"], j.tx, status, j.attempts)
                 /\ status = "confirmed" => k.stage = "next",
           \/ ledger' = ledger
           \/ /\ j.stage = "write" /\ k.stage = "sent"
              /\ ledger' = Append(ledger, [tx |-> j.tx, state |-> "pool"])
    PROVE  SingleInv'
<1>1. j \in Job /\ j.tx \in Txs /\ j.attempts \in Nat
  BY DEF TypeOK, Job
<1>2. ASSUME NEW i \in active' PROVE i = k \/ (i \in active /\ i.act # j.act /\ i # j)
  BY <1>2 DEF Others
<1>3. /\ mem'["api"] = file'
      /\ \A u \in Txs \ {j.tx} : file'[u] = file[u]
      /\ \/ file'[j.tx] = file[j.tx]
         \/ /\ file'[j.tx].status # "absent" /\ file'[j.tx].attempts = j.attempts
            /\ file'[j.tx].status = "confirmed" => k.stage = "next"
  <2>1. CASE file' = file /\ mem' = mem
    BY <2>1 DEF SingleInv
  <2>2. ASSUME NEW status \in Statuses \ {"absent"},
               Upsert("api", mem["api"], j.tx, status, j.attempts),
               status = "confirmed" => k.stage = "next"
        PROVE  /\ mem'["api"] = file'
               /\ \A u \in Txs \ {j.tx} : file'[u] = file[u]
               /\ file'[j.tx].status = status /\ file'[j.tx].attempts = j.attempts
    <3>1. /\ mem'["api"] = file'
          /\ file'[j.tx] = [status |-> status, attempts |-> j.attempts]
          /\ \A u \in Txs \ {j.tx} : file'[u] = file[u]
      BY <1>1, <2>2, UpsertSingle
    <3> QED BY <3>1
  <2> QED BY <2>1, <2>2
<1>4. \A u : Has(k, u) <=> Has(j, u)
  BY DEF Has
<1>5. Has(j, j.tx)
  BY DEF Has
<1>6. ASSUME NEW u \in Txs
      PROVE  /\ u # j.tx => Sends(u)' = Sends(u)
             /\ ledger' = ledger => Sends(u)' = Sends(u)
             /\ ledger' # ledger /\ u = j.tx => Sends(u)' = Sends(u) + 1
             /\ Sends(u) \in Nat
  <2>1. CASE ledger' = ledger
    BY <2>1, SendsNat DEF Sends, SendsOf
  <2>2. CASE ledger' = Append(ledger, [tx |-> j.tx, state |-> "pool"])
    <3>1. CASE u = j.tx
      BY <1>1, <2>2, <3>1, SendsMore, SendsNat, AppendEntries
    <3>2. CASE u # j.tx
      <4>1. SendsOf(u)' = SendsOf(u)
        BY <1>1, <2>2, <3>2, AppendEntries DEF SendsOf
      <4>2. ledger' # ledger
        BY <1>1, <2>2, AppendEntries
      <4> QED BY <3>2, <4>1, <4>2, SendsNat DEF Sends
    <3> QED BY <3>1, <3>2
  <2> QED BY <2>1, <2>2
<1>7. \A i \in active' : ListOK(i)
  BY <1>2 DEF SingleInv, ListOK
<1>8. ASSUME NEW u \in Txs PROVE QueuedInv(u)'
  <2>1. QueuedInv(u)
    BY DEF SingleInv
  <2>2. CASE u \in queued
    <3>1. file'[u].status # "absent"
      BY <1>3, <2>1, <2>2 DEF QueuedInv
    <3> QED BY <2>2, <3>1 DEF QueuedInv
  <2>3. CASE u \notin queued
    <3>1. u # j.tx
      BY <1>5, <2>1, <2>3 DEF QueuedInv
    <3>2. \A i \in active' : ~Has(i, u)
      BY <1>2, <1>4, <2>1, <2>3 DEF QueuedInv
    <3> QED BY <1>3, <1>6, <2>1, <2>3, <3>1, <3>2 DEF QueuedInv
  <2> QED BY <2>2, <2>3
<1>9. ASSUME NEW u \in Txs \ shared PROVE CountInv(u)'
  <2>1. CountInv(u)
    BY DEF SingleInv
  <2>2. \A h, i \in active' : Has(h, u) /\ Has(i, u) => h = i
    BY <1>2, <1>4, <2>1 DEF CountInv
  <2>3. CASE u # j.tx
    <3>1. file'[u] = file[u] /\ Sends(u)' = Sends(u)
      BY <1>3, <1>6, <2>3
    <3>2. \A i \in active' : i.tx = u => i \in active
      BY <1>2, <2>3
    <3>3. \A i \in active' : \A w \in i.todo : \E h \in active : w \in h.todo
      BY <1>2
    <3> QED BY <2>1, <2>2, <3>1, <3>2, <3>3 DEF CountInv
  <2>4. CASE u = j.tx
    <3>1. /\ file[u].attempts = j.attempts /\ file[u].status # "confirmed"
          /\ j.stage \in {"simulate", "write"} => Sends(u) < j.attempts
          /\ Sends(u) <= j.attempts
      BY <2>1, <2>4 DEF CountInv
    <3>2. /\ file'[u].attempts = j.attempts
          /\ file'[u].status = "confirmed" => k.stage = "next"
      BY <1>3, <2>4, <3>1
    <3>3. /\ Sends(u)' <= j.attempts
          /\ k.stage \in {"simulate", "write"} => Sends(u)' < j.attempts
      BY <1>1, <1>6, <2>4, <3>1
    <3>4. \A i \in active' : Has(i, u) => i = k
      BY <1>2, <1>5, <2>1, <2>4 DEF CountInv
    <3>5. \A w \in k.todo : w.tx # u
      BY <2>4 DEF SingleInv, ListOK
    <3> QED BY <2>2, <3>2, <3>3, <3>4, <3>5 DEF CountInv, Has
  <2> QED BY <2>3, <2>4
<1> QED BY <1>3, <1>7, <1>8, <1>9 DEF SingleInv

LEMMA RestSingle ==
    ASSUME TypeOK, SingleInv, [Next]_vars, active' \subseteq active,
           UNCHANGED <<queued, file, shared>>, mem'["api"] = file',
           \A u \in Txs : Sends(u)' = Sends(u)
    PROVE  SingleInv'
<1>1. \A u \in Txs : QueuedInv(u)'
  BY DEF SingleInv, QueuedInv
<1>2. ASSUME NEW u \in Txs \ shared PROVE CountInv(u)'
  BY DEF SingleInv, CountInv
<1> QED BY <1>1, <1>2 DEF SingleInv

LEMMA SingleStep == TypeOK /\ OneProcess /\ SingleInv /\ [Next]_vars => SingleInv' /\ OneProcess'
<1> SUFFICES ASSUME TypeOK, OneProcess, SingleInv, [Next]_vars PROVE SingleInv'
  <2>1. [Next]_vars => owner' = owner
    BY DEF Next, vars, Step, Publish, Sweep, Reload, SweepNext, Simulated, Send, Sent, Receipt,
           Throw, Crash, Mine, inputs
  <2> QED BY <2>1 DEF OneProcess, Running, ProcOf
<1>1. \A a \in Activities : ProcOf(a) = "api"
  BY OneProcessIsApi
<1>2. \A t \in Txs : QueuedInv(t) /\ (t \notin shared => CountInv(t))
  BY DEF SingleInv
<1>3. ASSUME NEW t \in Txs, Publish(t) PROVE SingleInv'
  <2>1. t \in Activities /\ t \notin queued /\ Sends(t) = 0 /\ file[t].status = "absent"
    BY <1>2, <1>3 DEF Publish, QueuedInv, Activities
  <2>2. /\ Start(t, mem[ProcOf(t)], t, 0, {}) /\ ledger' = ledger /\ queued' = queued \cup {t}
        /\ 0 \in 0..(MaxAttempts - 1)
    BY <1>1, <1>3, <2>1, QueueAssumption DEF Publish
  <2> QED BY <2>1, <2>2, StartSingle
<1>4. ASSUME NEW s \in Sweeps, NEW due \in SUBSET Txs, Sweep(s, due) PROVE SingleInv'
  <2> DEFINE list(t) == {[tx |-> u, attempts |-> file[u].attempts] : u \in due \ {t}}
  <2>1. PICK t \in due : Start(s, file, t, file[t].attempts, list(t))
    BY <1>4 DEF Sweep
  <2>2. ASSUME NEW u \in due
        PROVE  /\ u \in queued /\ file[u].status = "pending_retry"
               /\ file[u].attempts \in 0..(MaxAttempts - 1)
    <3>1. u \in Txs /\ file[u].status = "pending_retry" /\ file[u].attempts < MaxAttempts
      BY <1>4 DEF Sweep, Retryable
    <3>2. file[u].attempts \in 0..MaxAttempts
      BY <3>1 DEF TypeOK, Record
    <3>3. u \in queued
      BY <1>2, <3>1 DEF QueuedInv
    <3> QED BY <3>1, <3>2, <3>3, QueueAssumption
  <2>3. list(t) \in SUBSET Waiting
    BY <2>2 DEF Waiting
  <2>4. ASSUME NEW w \in list(t)
        PROVE  /\ w.tx \in due \ {t} /\ w.attempts = file[w.tx].attempts
               /\ \A v \in list(t) : v.tx = w.tx => v = w
    OBVIOUS
  <2> HIDE DEF list
  <2>5. s \in Activities /\ t \in Txs /\ ledger' = ledger /\ queued' = queued \cup {t}
    BY <1>4, <2>2 DEF Activities, Sweep
  <2>6. \A u \in due : u \notin shared' => Sends(u) <= file[u].attempts /\ file[u].status # "confirmed"
    <3>1. shared \subseteq shared'
      BY <2>1 DEF Start, Begin
    <3> QED BY <1>2, <2>2, <3>1 DEF CountInv
  <2> QED BY <2>1, <2>2, <2>3, <2>4, <2>5, <2>6, StartSingle
<1>5. ASSUME NEW j \in active, SweepNext(j) PROVE SingleInv'
  <2>1. PICK w \in j.todo : Start(j.act, mem[ProcOf(j.act)], w.tx, w.attempts, j.todo \ {w})
    BY <1>5 DEF SweepNext
  <2>2. /\ j.act \in Activities /\ w.tx \in Txs /\ w.attempts \in 0..(MaxAttempts - 1)
        /\ j.todo \ {w} \in SUBSET Waiting
    BY DEF TypeOK, Job, Waiting
  <2>3. \A v \in j.todo : v.tx \in Txs /\ Has(j, v.tx)
    BY DEF TypeOK, Job, Waiting, Has
  <2>4. \A v \in j.todo : v.tx \in queued
    BY <1>2, <2>3 DEF QueuedInv
  <2>5. queued' = queued \cup {w.tx} /\ ledger' = ledger
    BY <1>5, <2>4 DEF SweepNext
  <2>6. \A v \in j.todo \ {w} : v.tx # w.tx /\ \A x \in j.todo \ {w} : x.tx = v.tx => x = v
    BY DEF SingleInv, ListOK
  <2>7. \A v \in j.todo : v.tx \notin shared' =>
            Sends(v.tx) <= v.attempts /\ file[v.tx].status # "confirmed"
    <3>1. shared \subseteq shared'
      BY <2>1 DEF Start, Begin
    <3> QED BY <1>2, <2>3, <3>1 DEF CountInv
  <2> DEFINE todo == j.todo \ {w}
  <2>8. /\ todo \in SUBSET Waiting
        /\ Start(j.act, mem[ProcOf(j.act)], w.tx, w.attempts, todo)
    BY <2>1, <2>2
  <2>9. \A x \in todo : x.tx \in queued /\ x.tx # w.tx /\ \A v \in todo : v.tx = x.tx => v = x
    BY <2>4, <2>6
  <2>10. \A x \in todo : x.tx \notin shared' =>
            Sends(x.tx) <= x.attempts /\ file[x.tx].status # "confirmed"
    BY <2>7
  <2> HIDE DEF todo
  <2> QED BY <2>2, <2>5, <2>7, <2>8, <2>9, <2>10, StartSingle
<1>6. ASSUME NEW j \in active, j.stage # "next", NEW status \in Statuses \ {"absent"},
             Finish(j, status), UNCHANGED <<queued, ledger, shared>>
      PROVE  SingleInv'
  <2> DEFINE k == [j EXCEPT !.stage = "next"]
  <2>1. k.tx = j.tx /\ k.attempts = j.attempts /\ k.todo = j.todo /\ k.stage = "next"
    BY DEF TypeOK, Job
  <2>2. active' \subseteq Others(j.act) \cup {k}
    BY <1>6 DEF Finish
  <2>3. Upsert("api", mem["api"], j.tx, status, j.attempts)
    BY <1>1, <1>6 DEF Finish, TypeOK, Job
  <2> HIDE DEF k
  <2> QED BY <1>6, <2>1, <2>2, <2>3, AttemptSingle
<1>7. ASSUME NEW j \in active, j.stage # "next", Fail(j), UNCHANGED <<queued, ledger, shared>>
      PROVE  SingleInv'
  <2>1. "failed" \in Statuses \ {"absent"} /\ "pending_retry" \in Statuses \ {"absent"}
    BY DEF Statuses
  <2> QED BY <1>6, <1>7, <2>1 DEF Fail
<1>8. ASSUME NEW j \in active, Simulated(j) PROVE SingleInv'
  <2>1. CASE Attestable(j.tx)
    <3> DEFINE k == [j EXCEPT !.stage = "write", !.write = 0]
    <3>1. k.tx = j.tx /\ k.attempts = j.attempts /\ k.todo = j.todo /\ k.stage = "write"
      BY DEF TypeOK, Job
    <3>2. /\ active' \subseteq Others(j.act) \cup {k} /\ j.stage = "simulate"
          /\ UNCHANGED <<file, mem, queued, ledger, shared>>
      BY <1>8, <2>1 DEF Simulated, Advance
    <3> HIDE DEF k
    <3> QED BY <3>1, <3>2, AttemptSingle
  <2>2. CASE ~Attestable(j.tx)
    BY <1>7, <1>8, <2>2 DEF Simulated
  <2> QED BY <2>1, <2>2
<1>9. ASSUME NEW j \in active, Send(j) PROVE SingleInv'
  <2> DEFINE k == [j EXCEPT !.stage = "sent", !.write = Len(ledger) + 1]
  <2>1. k.tx = j.tx /\ k.attempts = j.attempts /\ k.todo = j.todo /\ k.stage = "sent"
    BY DEF TypeOK, Job
  <2>2. /\ active' \subseteq Others(j.act) \cup {k} /\ j.stage = "write"
        /\ UNCHANGED <<file, mem, queued, shared>>
        /\ ledger' = Append(ledger, [tx |-> j.tx, state |-> "pool"])
    BY <1>9 DEF Send, Advance
  <2> HIDE DEF k
  <2> QED BY <2>1, <2>2, AttemptSingle
<1>10. ASSUME NEW j \in active, Sent(j) PROVE SingleInv'
  <2> DEFINE k == [j EXCEPT !.stage = "receipt", !.write = j.write]
  <2>1. k.tx = j.tx /\ k.attempts = j.attempts /\ k.todo = j.todo /\ k.stage = "receipt"
    BY DEF TypeOK, Job
  <2>2. /\ active' \subseteq Others(j.act) \cup {k} /\ j.stage = "sent"
        /\ UNCHANGED <<queued, ledger, shared>>
        /\ Upsert("api", mem["api"], j.tx, "published", j.attempts)
    BY <1>1, <1>10 DEF Sent, Advance, TypeOK, Job
  <2>3. "published" \in Statuses \ {"absent"}
    BY DEF Statuses
  <2> HIDE DEF k
  <2> QED BY <2>1, <2>2, <2>3, AttemptSingle
<1>11. ASSUME NEW j \in active, Receipt(j) PROVE SingleInv'
  <2>1. "failed" \in Statuses \ {"absent"} /\ "confirmed" \in Statuses \ {"absent"}
    BY DEF Statuses
  <2> QED BY <1>6, <1>11, <2>1 DEF Receipt
<1>12. ASSUME NEW j \in active, Throw(j) PROVE SingleInv'
  BY <1>7, <1>12 DEF Throw
<1>13. ASSUME NEW i \in DOMAIN ledger, Mine(i) PROVE SingleInv'
  <2>1. \A s \in Txs : ledger' # Append(ledger, [tx |-> s, state |-> "pool"])
    BY <1>13, MineEntries, AppendEntries
  <2>2. \A u \in Txs : Sends(u)' = Sends(u)
    BY <2>1, SendsStay
  <2> QED BY <1>13, <2>2, RestSingle DEF Mine, SingleInv
<1>14. ASSUME ledger' = ledger, active' \subseteq active, UNCHANGED <<queued, file, shared>>,
              mem'["api"] = file
       PROVE  SingleInv'
  <2>1. \A u \in Txs : Sends(u)' = Sends(u)
    BY <1>14 DEF Sends, SendsOf
  <2> QED BY <1>14, <2>1, RestSingle
<1>15. ASSUME NEW p \in Running, Reload(p) \/ Crash(p) PROVE SingleInv'
  <2>1. mem'["api"] = file
    BY <1>15, QueueAssumption DEF Reload, Crash, TypeOK, SingleInv
  <2> QED BY <1>14, <1>15, <2>1 DEF Reload, Crash
<1>16. CASE UNCHANGED vars
  BY <1>14, <1>16 DEF vars, SingleInv
<1> QED BY <1>3, <1>4, <1>5, <1>8, <1>9, <1>10, <1>11, <1>12, <1>13, <1>15, <1>16 DEF Next, Step

LEMMA SingleInit == Init => SingleInv
<1> SUFFICES ASSUME Init PROVE SingleInv
  OBVIOUS
<1>1. \A t \in Txs : file[t].status = "absent" /\ file[t].attempts = 0
  BY DEF Init, NoRecords
<1>2. \A t : Sends(t) = 0
  <2>1. ledger = << >>
    BY DEF Init
  <2>2. \A t : SendsOf(t) = {}
    BY <2>1 DEF SendsOf
  <2> QED BY <2>2, FS_EmptySet DEF Sends
<1> QED BY <1>1, <1>2, QueueAssumption DEF Init, SingleInv, CountInv, QueuedInv

LEMMA SingleAlways == Spec => [](TypeOK /\ (OneProcess => SingleInv))
<1>1. ~OneProcess /\ [Next]_vars => ~OneProcess'
  <2>1. [Next]_vars => owner' = owner
    BY DEF Next, vars, Step, Publish, Sweep, Reload, SweepNext, Simulated, Send, Sent, Receipt,
           Throw, Crash, Mine, inputs
  <2> QED BY <2>1 DEF OneProcess, Running, ProcOf
<1> QED BY <1>1, SingleInit, SingleStep, TypeCorrect, PTL DEF Spec

\* Where one process runs the API and its sweeps, what the relay handed over is
\* in the file for good, through any overlap of attempts and sweeps, any
\* answer that is lost and any restart (upsert, loadState).
THEOREM NothingIsForgotten == Spec => []NeverForgotten
<1>1. TypeOK /\ (OneProcess => SingleInv) => NeverForgotten
  BY DEF SingleInv, QueuedInv, NeverForgotten, TypeOK
<1> QED BY <1>1, SingleAlways, PTL

\* There, every attestation transaction that is sent is counted in the file
\* before it is sent, so a crash between the two costs an attempt and never
\* sends more than MAX_ATTEMPTS: unless two activities had the record on hand.
THEOREM EverySendIsCounted == Spec => []SendsAreCounted
<1>1. TypeOK /\ (OneProcess => SingleInv) => SendsAreCounted
  BY DEF SingleInv, CountInv, Sends, SendsOf, SendsAreCounted
<1> QED BY <1>1, SingleAlways, PTL

\* So no record costs more than MAX_ATTEMPTS transactions, however many sweeps,
\* answers that are lost and restarts it takes.
THEOREM SendsAreBounded ==
    Spec => [](OneProcess => \A t \in Txs \ shared : Sends(t) <= MaxAttempts)
<1>1. TypeOK /\ (OneProcess => SingleInv)
      => (OneProcess => \A t \in Txs \ shared : Sends(t) <= MaxAttempts)
  <2> SUFFICES ASSUME TypeOK, SingleInv, NEW t \in Txs \ shared
               PROVE  Sends(t) <= MaxAttempts
    OBVIOUS
  <2>1. Sends(t) <= file[t].attempts
    BY DEF SingleInv, CountInv
  <2>2. file[t].attempts \in 0..MaxAttempts /\ MaxAttempts \in Nat
    BY QueueAssumption DEF TypeOK, Record
  <2> QED BY <2>1, <2>2, SendsNat
<1> QED BY <1>1, SingleAlways, PTL

\* A step saves at most one record, and none that is confirmed.
LEMMA ConfirmedStays ==
    ASSUME TypeOK, OneProcess, SingleInv, [Next]_vars,
           NEW t \in Txs, file[t].status = "confirmed", t \notin shared'
    PROVE  file'[t].status = "confirmed"
<1>1. shared \subseteq shared'
  BY DEF Next, vars, Step, Publish, Sweep, Reload, SweepNext, Simulated, Send, Sent, Receipt,
         Throw, Crash, Mine, Start, Begin
<1>2. CountInv(t) /\ QueuedInv(t)
  BY <1>1 DEF SingleInv
<1>3. \A a \in Activities : ProcOf(a) = "api"
  BY OneProcessIsApi
<1>4. ASSUME NEW a \in Activities, NEW x \in Txs, x # t, NEW n, NEW todo,
             Start(a, file, x, n, todo) \/ Start(a, mem["api"], x, n, todo)
      PROVE  file'[t].status = "confirmed"
  <2>1. ProcOf(a) = "api"
    BY <1>3
  <2>2. file'[t] = file[t]
    BY <1>4, <2>1, UpsertSingle DEF Start
  <2> QED BY <2>2
<1>5. ASSUME NEW j \in active, j.stage # "next", NEW status,
             Upsert("api", mem["api"], j.tx, status, j.attempts)
      PROVE  file'[t].status = "confirmed"
  <2>1. j.tx \in Txs /\ j.tx # t
    BY <1>2, <1>5 DEF CountInv, TypeOK, Job
  <2>2. file'[t] = file[t]
    BY <1>5, <2>1, UpsertSingle
  <2> QED BY <2>2
<1>6. ASSUME NEW x \in Txs, Publish(x) PROVE file'[t].status = "confirmed"
  <2>1. x # t /\ x \in Activities
    BY <1>2, <1>6 DEF Publish, QueuedInv, Activities
  <2> QED BY <1>4, <1>6, <2>1 DEF Publish
<1>7. ASSUME NEW s \in Sweeps, NEW due \in SUBSET Txs, Sweep(s, due)
      PROVE  file'[t].status = "confirmed"
  <2>1. s \in Activities /\ t \notin due
    BY <1>7 DEF Sweep, Retryable, Activities
  <2> QED BY <1>4, <1>7, <2>1 DEF Sweep
<1>8. ASSUME NEW j \in active, SweepNext(j) PROVE file'[t].status = "confirmed"
  <2>1. PICK w \in j.todo : Start(j.act, mem[ProcOf(j.act)], w.tx, w.attempts, j.todo \ {w})
    BY <1>8 DEF SweepNext
  <2>2. j.act \in Activities /\ w.tx \in Txs /\ w.tx # t
    BY <1>2 DEF CountInv, TypeOK, Job, Waiting
  <2> QED BY <1>3, <1>4, <2>1, <2>2
<1>9. ASSUME NEW j \in active, Simulated(j) \/ Sent(j) \/ Receipt(j) \/ Throw(j)
      PROVE  file'[t].status = "confirmed"
  <2>1. ProcOf(j.act) = "api"
    BY <1>3 DEF TypeOK, Job
  <2> QED BY <1>5, <1>9, <2>1 DEF Simulated, Sent, Receipt, Throw, Fail, Finish
<1>10. CASE file' = file
  BY <1>10
<1> QED BY <1>6, <1>7, <1>8, <1>9, <1>10 DEF Next, vars, Step, Send, Reload, Crash, Mine

\* There, a confirmed record stays confirmed: a sweep that listed it before it
\* was confirmed never writes its older state back, unless two activities had
\* it on hand at once (retryPendingAttestations, attemptPublish).
THEOREM ConfirmedIsForGood == Spec => ConfirmedForGood
<1>1. /\ TypeOK /\ (OneProcess => SingleInv)
      /\ [Next]_vars
      => [\A t \in Txs : OneProcess /\ file[t].status = "confirmed" /\ t \notin shared'
            => file'[t].status = "confirmed"]_vars
  BY ConfirmedStays
<1> QED BY <1>1, SingleAlways, PTL DEF Spec, ConfirmedForGood

==============================================================================
