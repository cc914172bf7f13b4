--------------------------- MODULE RegistryProofs ---------------------------
(***************************************************************************)
(* What RiskRegistry keeps for any number of records, servers, flushes and *)
(* readers: the contract's pointer never dangles, a queued record is lost  *)
(* only when two processes were at the queue file at once, and a record is *)
(* called included only under a root that the contract had.                *)
(***************************************************************************)
EXTENDS RiskRegistry, SequenceTheorems, TLAPS

Tx == [batch : Seq(Records), state : {"pool", "mined", "reverted"}]

Shape ==
    /\ call \in [Records -> [stage : {"idle", "write", "queued", "over"}, copy : Seq(Records)]]
    /\ queue \in Seq(Records)
    /\ flush \in [Flushes -> [stage : {"idle", "send", "receipt", "over"},
                              batch : Seq(Records), tx : Nat]]
    /\ txs \in Seq(Tx)

\* A flush that waits for a receipt waits for that of its own batch.
SentOwn ==
    \A f \in Flushes :
        flush[f].stage = "receipt" =>
            flush[f].tx \in DOMAIN txs /\ txs[flush[f].tx].batch = flush[f].batch

\* Every batch that is, or is about to be, offered to the chain is published.
OfferedIsPublished ==
    /\ \A i \in DOMAIN txs : txs[i].batch \in published
    /\ \A f \in Flushes : flush[f].stage = "send" => flush[f].batch \in published

InCommitted(r) == \E i \in DOMAIN txs : txs[i].state = "mined" /\ r \in ToSet(txs[i].batch)

\* Whoever wrote the queue back or cleared it, having seen these records, would
\* lose nothing that was queued alone.
Covers(seen) == \A r \in Queued \ raced : r \in ToSet(seen) \/ InCommitted(r)

(***************************************************************************)
(* The queue alone is not enough: a flush clears it long after it read it, *)
(* and a server replaces it by an older copy.  So the same is kept of what *)
(* each of them has in hand; it stays true because a record queued in the  *)
(* meantime is in raced.                                                   *)
(***************************************************************************)
KeptInv ==
    /\ Covers(queue)
    /\ \A f \in AtWork : Covers(flush[f].batch)
    /\ \A r \in Records : call[r].stage = "write" => Covers(call[r].copy)

RegistryInv == Shape /\ SentOwn /\ OfferedIsPublished /\ RootIsAvailable /\ (~cut => KeptInv)

-----------------------------------------------------------------------------

LEMMA CommittedPointwise == \A r : r \in Committed <=> InCommitted(r)
BY DEF Committed, InCommitted

LEMMA AppendedSet ==
    ASSUME NEW s \in Seq(Records), NEW r \in Records
    PROVE  ToSet(Append(s, r)) = ToSet(s) \cup {r}
<1> DEFINE t == Append(s, r)
<1>1. DOMAIN t = DOMAIN s \cup {Len(s) + 1}
    OBVIOUS
<1>2. t[Len(s) + 1] = r /\ \A i \in DOMAIN s : t[i] = s[i]
    OBVIOUS
<1>3. QED
    BY <1>1, <1>2 DEF ToSet

LEMMA InvInit == Init => RegistryInv
<1> SUFFICES ASSUME Init PROVE RegistryInv
    OBVIOUS
<1>1. Queued = {}
    BY DEF Init, Queued
<1>2. Shape /\ SentOwn /\ OfferedIsPublished
    BY DEF Init, Shape, SentOwn, OfferedIsPublished
<1>3. RootIsAvailable
    BY DEF Init, RootIsAvailable
<1>4. KeptInv
    BY <1>1 DEF KeptInv, Covers
<1>5. QED
    BY <1>2, <1>3, <1>4 DEF RegistryInv

-----------------------------------------------------------------------------

\* What is covered stays so when nothing new is queued alone and nothing that
\* was committed is undone.
LEMMA CoversStays ==
    ASSUME NEW seen, Covers(seen), Queued' \ raced' \subseteq Queued \ raced,
           \A r : InCommitted(r) => InCommitted(r)'
    PROVE  \A r \in Queued' \ raced' : r \in ToSet(seen) \/ InCommitted(r)'
BY DEF Covers

\* Mining and sending undo nothing.
LEMMA CommittedStays ==
    ASSUME Shape, [Next]_vars
    PROVE  \A r : InCommitted(r) => InCommitted(r)'
<1>1. CASE UNCHANGED txs
    BY <1>1 DEF InCommitted
<1>2. CASE \E f \in Flushes : FlushSends(f)
    <2>1. PICK f \in Flushes : FlushSends(f)
        BY <1>2
    <2>2. txs' = Append(txs, [batch |-> flush[f].batch, state |-> "pool"])
        BY <2>1 DEF FlushSends
    <2>3. \A i \in DOMAIN txs : i \in DOMAIN txs' /\ txs'[i] = txs[i]
        BY <2>2 DEF Shape
    <2>4. QED
        BY <2>3 DEF InCommitted
<1>3. CASE \E i \in DOMAIN txs : Mine(i)
    <2>1. PICK i \in DOMAIN txs : Mine(i)
        BY <1>3
    <2>2. /\ DOMAIN txs' = DOMAIN txs
          /\ \A k \in DOMAIN txs :
                txs[k].state = "mined" => txs'[k].state = "mined" /\ txs'[k].batch = txs[k].batch
        BY <2>1 DEF Mine, Shape, Tx
    <2>3. QED
        BY <2>2 DEF InCommitted
<1>4. QED
    BY <1>1, <1>2, <1>3
    DEF Next, vars, chain, GivesUp, QueueReads, QueueReadsCut, QueueWrites, Expire, ServerDies, FlushReads,
        FlushEnds, FlushStops, SetOperator, StartRead, ReadRoot, ReadUri, Prove, View, Answer, ReaderGoes

LEMMA ShapeNext == Shape /\ SentOwn /\ [Next]_vars => Shape'
<1> SUFFICES ASSUME Shape, SentOwn, [Next]_vars PROVE Shape'
    OBVIOUS
<1> DEFINE Call == [stage : {"idle", "write", "queued", "over"}, copy : Seq(Records)]
           Run == [stage : {"idle", "send", "receipt", "over"}, batch : Seq(Records), tx : Nat]
<1> USE DEF Shape
<1>1. ASSUME NEW r \in Records, GivesUp(r) \/ QueueReads(r) \/ QueueReadsCut(r) \/ QueueWrites(r)
      PROVE  Shape'
    <2>1. UNCHANGED <<flush, txs>>
        BY <1>1 DEF GivesUp, QueueReads, QueueReadsCut, QueueWrites, chain
    <2>2. queue' \in Seq(Records)
        <3>1. call[r].copy \in Seq(Records)
            OBVIOUS
        <3>2. Append(call[r].copy, r) \in Seq(Records)
            BY <3>1
        <3>3. QED
            BY <1>1, <3>2 DEF GivesUp, QueueReads, QueueReadsCut, QueueWrites
    <2>3. \E c \in Call : call' = [call EXCEPT ![r] = c]
        <3>1. [call[r] EXCEPT !.stage = "over"] \in Call
            OBVIOUS
        <3>2. [call[r] EXCEPT !.stage = "queued"] \in Call
            OBVIOUS
        <3>3. [stage |-> "write", copy |-> queue] \in Call
            OBVIOUS
        <3>4. [stage |-> "write", copy |-> <<>>] \in Call
            BY EmptySeq
        <3>5. QED
            BY <1>1, <3>1, <3>2, <3>3, <3>4
            DEF GivesUp, QueueReads, QueueReadsCut, QueueWrites, CallGoes
    <2>4. call' \in [Records -> Call]
        BY <2>3
    <2>5. QED
        BY <2>1, <2>2, <2>4
<1>2. ASSUME NEW s \in Servers, ServerDies(s) PROVE Shape'
    <2>1. UNCHANGED <<flush, txs>> /\ queue' \in Seq(Records)
        BY <1>2, EmptySeq DEF ServerDies, chain
    <2>2. \A r \in Records : [call[r] EXCEPT !.stage = "over"] \in Call
        OBVIOUS
    <2>3. call' \in [Records -> Call]
        BY <1>2, <2>2 DEF ServerDies
    <2>4. QED
        BY <2>1, <2>3
<1>3. ASSUME NEW f \in Flushes, FlushReads(f) \/ FlushSends(f) \/ FlushEnds(f) \/ FlushStops(f)
      PROVE  Shape'
    <2>1. UNCHANGED call /\ queue' \in Seq(Records)
        BY <1>3, EmptySeq DEF FlushReads, FlushSends, FlushEnds, FlushStops
    <2>2. txs' \in Seq(Tx)
        <3>1. [batch |-> flush[f].batch, state |-> "pool"] \in Tx
            BY DEF Tx
        <3>2. Append(txs, [batch |-> flush[f].batch, state |-> "pool"]) \in Seq(Tx)
            BY <3>1
        <3>3. QED
            BY <1>3, <3>2 DEF FlushReads, FlushSends, FlushEnds, FlushStops, chain
    <2>3. \E c \in Run : flush' = [flush EXCEPT ![f] = c]
        <3>1. \A stage \in {"send", "over"} :
                 [flush[f] EXCEPT !.stage = stage, !.batch = queue] \in Run
            OBVIOUS
        <3>2. [flush[f] EXCEPT !.stage = "receipt", !.tx = Len(txs) + 1] \in Run
            <4>1. Len(txs) + 1 \in Nat
                BY LenProperties
            <4>2. QED
                BY <4>1
        <3>3. [flush[f] EXCEPT !.stage = "over"] \in Run
            OBVIOUS
        <3>4. QED
            BY <1>3, <3>1, <3>2, <3>3 DEF FlushReads, FlushSends, FlushEnds, FlushStops
    <2>4. flush' \in [Flushes -> Run]
        BY <2>3
    <2>5. QED
        BY <2>1, <2>2, <2>4
<1>4. ASSUME NEW i \in DOMAIN txs, Mine(i) PROVE Shape'
    <2>1. UNCHANGED <<call, queue, flush>>
        BY <1>4 DEF Mine
    <2>2. txs' \in Seq(Tx)
        <3>1. i \in 1..Len(txs) /\ txs[i] \in Tx
            BY LenProperties
        <3>2. \A state \in {"mined", "reverted"} : [txs[i] EXCEPT !.state = state] \in Tx
            BY <3>1 DEF Tx
        <3>3. \E e \in Tx : txs' = [txs EXCEPT ![i] = e]
            BY <1>4, <3>2 DEF Mine
        <3>4. QED
            BY <3>1, <3>3, ExceptSeq
    <2>3. QED
        BY <2>1, <2>2
<1>5. CASE UNCHANGED <<call, queue, flush, txs>>
    BY <1>5
<1>6. QED
    BY <1>1, <1>2, <1>3, <1>4, <1>5
    DEF Next, vars, chain, Expire, SetOperator, StartRead, ReadRoot, ReadUri, Prove, View, Answer, ReaderGoes

LEMMA FlushNext ==
    ASSUME Shape, SentOwn, OfferedIsPublished, [Next]_vars
    PROVE  SentOwn' /\ OfferedIsPublished'
<1> USE DEF Shape, SentOwn, OfferedIsPublished
<1>1. CASE UNCHANGED <<flush, txs, published>>
    BY <1>1
<1>2. ASSUME NEW f \in Flushes, FlushReads(f) PROVE SentOwn' /\ OfferedIsPublished'
    BY <1>2 DEF FlushReads, chain
<1>3. ASSUME NEW f \in Flushes, FlushSends(f) PROVE SentOwn' /\ OfferedIsPublished'
    BY <1>3 DEF FlushSends, Tx
<1>4. ASSUME NEW f \in Flushes, FlushEnds(f) \/ FlushStops(f)
      PROVE  SentOwn' /\ OfferedIsPublished'
    BY <1>4 DEF FlushEnds, FlushStops, chain
<1>5. ASSUME NEW i \in DOMAIN txs, Mine(i) PROVE SentOwn' /\ OfferedIsPublished'
    BY <1>5 DEF Mine, Tx
<1>6. QED
    BY <1>1, <1>2, <1>3, <1>4, <1>5
    DEF Next, vars, chain, GivesUp, QueueReads, QueueReadsCut, QueueWrites, Expire, ServerDies,
        SetOperator, StartRead, ReadRoot, ReadUri, Prove, View, Answer, ReaderGoes

LEMMA RootNext ==
    ASSUME Shape, OfferedIsPublished, RootIsAvailable, [Next]_vars
    PROVE  RootIsAvailable'
<1> USE DEF RootIsAvailable
<1>1. published \subseteq published'
    BY DEF Next, vars, chain, GivesUp, QueueReads, QueueReadsCut, QueueWrites, Expire, ServerDies, FlushReads,
           FlushSends, FlushEnds, FlushStops, Mine, SetOperator, StartRead, ReadRoot, ReadUri, Prove,
           View, Answer, ReaderGoes
<1>2. CASE UNCHANGED registry
    BY <1>1, <1>2
<1>3. ASSUME NEW i \in DOMAIN txs, Mine(i) PROVE RootIsAvailable'
    BY <1>3 DEF Mine, OfferedIsPublished
<1>4. QED
    BY <1>2, <1>3
    DEF Next, vars, chain, GivesUp, QueueReads, QueueReadsCut, QueueWrites, Expire, ServerDies, FlushReads,
        FlushSends, FlushEnds, FlushStops, SetOperator, StartRead, ReadRoot, ReadUri, Prove, View,
        Answer, ReaderGoes

-----------------------------------------------------------------------------
(* Nothing queued alone is lost                                            *)

\* A step that queues nothing and writes neither the queue nor a copy of it
\* keeps what is covered.
LEMMA KeptUntouched ==
    ASSUME Shape, KeptInv, [Next]_vars,
           Queued' \ raced' \subseteq Queued \ raced,
           UNCHANGED queue,
           \A f \in AtWork' : f \in AtWork /\ flush'[f].batch = flush[f].batch,
           \A r \in Records : call'[r].stage = "write" =>
                call[r].stage = "write" /\ call'[r].copy = call[r].copy
    PROVE  KeptInv'
<1>1. Covers(queue)'
    BY CoversStays, CommittedStays DEF KeptInv, Covers
<1>2. ASSUME NEW f \in AtWork' PROVE Covers(flush[f].batch)'
    BY <1>2, CoversStays, CommittedStays DEF KeptInv, Covers
<1>3. ASSUME NEW r \in Records, call'[r].stage = "write" PROVE Covers(call[r].copy)'
    BY <1>3, CoversStays, CommittedStays DEF KeptInv, Covers
<1>4. QED
    BY <1>1, <1>2, <1>3 DEF KeptInv

\* A server takes a copy: it covers what the queue does.
LEMMA KeptByRead ==
    ASSUME Shape, KeptInv, NEW r \in Records, QueueReads(r)
    PROVE  KeptInv'
<1>1. UNCHANGED <<queue, flush, txs, raced>> /\ call' = [call EXCEPT ![r] = [stage |-> "write", copy |-> queue]]
    BY DEF QueueReads, chain
<1>2. Queued' \subseteq Queued
    BY <1>1 DEF Shape, Queued
<1>3. \A seen : Covers(seen) => \A o \in Queued' \ raced' : o \in ToSet(seen) \/ InCommitted(o)'
    BY <1>1, <1>2 DEF Covers, InCommitted
<1>4. Covers(queue)'
    BY <1>1, <1>3 DEF KeptInv, Covers
<1>5. ASSUME NEW f \in AtWork' PROVE Covers(flush[f].batch)'
    BY <1>1, <1>3, <1>5 DEF KeptInv, Covers, AtWork
<1>6. ASSUME NEW o \in Records, call'[o].stage = "write" PROVE Covers(call[o].copy)'
    <2>1. CASE o = r
        <3>1. call'[o].copy = queue
            BY <1>1, <2>1 DEF Shape
        <3>2. QED
            BY <1>3, <3>1 DEF KeptInv, Covers
    <2>2. CASE o # r
        <3>1. call'[o] = call[o]
            BY <1>1, <2>2 DEF Shape
        <3>2. QED
            BY <1>3, <1>6, <3>1 DEF KeptInv, Covers
    <2>3. QED
        BY <2>1, <2>2
<1>7. QED
    BY <1>4, <1>5, <1>6 DEF KeptInv

\* A server writes its copy back with a record more.  The record is in raced
\* unless nobody else has anything in hand.
LEMMA KeptByWrite ==
    ASSUME Shape, KeptInv, NEW r \in Records, QueueWrites(r)
    PROVE  KeptInv'
<1>1. /\ UNCHANGED <<flush, txs>>
      /\ call[r].stage = "write" /\ call[r].copy \in Seq(Records)
      /\ queue' = Append(call[r].copy, r)
      /\ call' = [call EXCEPT ![r].stage = "queued"]
      /\ raced' = raced \cup {o \in {r} : AtWork # {} \/ OthersAtFile(r) # {}}
    BY DEF QueueWrites, CallGoes, chain, Shape
<1>2. Queued' \ raced' \subseteq (Queued \ raced) \cup {r}
    BY <1>1 DEF Shape, Queued
<1>3. \A o : InCommitted(o) <=> InCommitted(o)'
    BY <1>1 DEF InCommitted
<1>4. Covers(queue)'
    <2>1. Covers(call[r].copy)
        BY <1>1 DEF KeptInv
    <2>2. ToSet(queue)' = ToSet(call[r].copy) \cup {r}
        BY <1>1, AppendedSet
    <2>3. QED
        BY <1>2, <1>3, <2>1, <2>2 DEF Covers
<1>5. ASSUME NEW f \in AtWork' PROVE Covers(flush[f].batch)'
    <2>1. f \in AtWork /\ r \in raced'
        BY <1>1, <1>5 DEF AtWork
    <2>2. Queued' \ raced' \subseteq Queued \ raced
        BY <1>1, <1>2, <2>1
    <2>3. QED
        BY <1>1, <1>3, <2>1, <2>2 DEF KeptInv, Covers
<1>6. ASSUME NEW o \in Records, call'[o].stage = "write" PROVE Covers(call[o].copy)'
    <2>1. o # r /\ call'[o] = call[o]
        BY <1>1, <1>6 DEF Shape
    <2>2. o \in OthersAtFile(r)
        BY <1>6, <2>1 DEF OthersAtFile
    <2>3. Queued' \ raced' \subseteq Queued \ raced
        BY <1>1, <1>2, <2>2
    <2>4. QED
        BY <1>3, <1>6, <2>1, <2>3 DEF KeptInv, Covers
<1>7. QED
    BY <1>4, <1>5, <1>6 DEF KeptInv

\* A flush takes the queue as its batch.
LEMMA KeptByFlushRead ==
    ASSUME Shape, KeptInv, NEW f \in Flushes, FlushReads(f)
    PROVE  KeptInv'
<1>1. /\ UNCHANGED <<call, queue, txs, raced>>
      /\ \E stage \in {"send", "over"} :
            flush' = [flush EXCEPT ![f].stage = stage, ![f].batch = queue]
    BY DEF FlushReads, chain
<1>2. \A seen : Covers(seen) => \A o \in Queued' \ raced' : o \in ToSet(seen) \/ InCommitted(o)'
    BY <1>1 DEF Covers, InCommitted, Queued
<1>3. Covers(queue)'
    BY <1>1, <1>2 DEF KeptInv, Covers
<1>4. ASSUME NEW g \in AtWork' PROVE Covers(flush[g].batch)'
    <2>1. CASE g = f
        <3>1. flush'[g].batch = queue
            BY <1>1, <1>4, <2>1 DEF Shape, AtWork
        <3>2. QED
            BY <1>2, <3>1 DEF KeptInv, Covers
    <2>2. CASE g # f
        <3>1. g \in AtWork /\ flush'[g] = flush[g]
            BY <1>1, <1>4, <2>2 DEF Shape, AtWork
        <3>2. QED
            BY <1>2, <3>1 DEF KeptInv, Covers
    <2>3. QED
        BY <2>1, <2>2
<1>5. ASSUME NEW r \in Records, call'[r].stage = "write" PROVE Covers(call[r].copy)'
    BY <1>1, <1>2, <1>5 DEF KeptInv, Covers
<1>6. QED
    BY <1>3, <1>4, <1>5 DEF KeptInv

\* A flush clears the queue: what its batch covers is committed with it.
LEMMA KeptByFlushEnd ==
    ASSUME Shape, SentOwn, KeptInv, NEW f \in Flushes, FlushEnds(f)
    PROVE  KeptInv'
<1>1. /\ UNCHANGED <<call, txs, raced>>
      /\ flush[f].stage = "receipt"
      /\ flush' = [flush EXCEPT ![f].stage = "over"]
      /\ queue' = IF txs[flush[f].tx].state = "mined" THEN <<>> ELSE queue
    BY DEF FlushEnds, chain
<1>2. \A seen : Covers(seen) => \A o \in Queued' \ raced' : o \in ToSet(seen) \/ InCommitted(o)'
    BY <1>1 DEF Covers, InCommitted, Queued
<1>3. Covers(queue)'
    <2>1. CASE txs[flush[f].tx].state = "mined"
        <3>1. Covers(flush[f].batch)
            BY <1>1 DEF KeptInv, AtWork
        <3>2. \A o \in ToSet(flush[f].batch) : InCommitted(o)'
            BY <1>1, <2>1 DEF SentOwn, InCommitted
        <3>3. QED
            BY <1>2, <3>1, <3>2 DEF Covers
    <2>2. CASE txs[flush[f].tx].state # "mined"
        BY <1>1, <1>2, <2>2 DEF KeptInv, Covers
    <2>3. QED
        BY <2>1, <2>2
<1>4. ASSUME NEW g \in AtWork' PROVE Covers(flush[g].batch)'
    <2>1. g \in AtWork /\ flush'[g].batch = flush[g].batch
        BY <1>1, <1>4 DEF Shape, AtWork
    <2>2. QED
        BY <1>2, <2>1 DEF KeptInv, Covers
<1>5. ASSUME NEW r \in Records, call'[r].stage = "write" PROVE Covers(call[r].copy)'
    BY <1>1, <1>2, <1>5 DEF KeptInv, Covers
<1>6. QED
    BY <1>3, <1>4, <1>5 DEF KeptInv

LEMMA KeptNext ==
    ASSUME Shape, SentOwn, ~cut => KeptInv, [Next]_vars
    PROVE  (~cut => KeptInv)'
<1> SUFFICES ASSUME ~cut' PROVE KeptInv'
    OBVIOUS
<1>1. ~cut /\ KeptInv
    <2>1. UNCHANGED cut \/ cut' = TRUE
        BY DEF Next, vars, chain, readers, GivesUp, QueueReads, QueueReadsCut, QueueWrites, Expire, ServerDies, FlushReads,
               FlushSends, FlushEnds, FlushStops, Mine, SetOperator, StartRead, ReadRoot, ReadUri, Prove,
               View, Answer, ReaderGoes
    <2>2. ~cut
        BY <2>1
    <2>3. QED
        BY <2>2
<1>2. ASSUME NEW r \in Records, QueueReads(r) \/ QueueWrites(r) PROVE KeptInv'
    BY <1>1, <1>2, KeptByRead, KeptByWrite
<1>3. ASSUME NEW f \in Flushes, FlushReads(f) \/ FlushEnds(f) PROVE KeptInv'
    BY <1>1, <1>3, KeptByFlushRead, KeptByFlushEnd
<1>4. ASSUME NEW r \in Records, GivesUp(r) PROVE KeptInv'
    <2>1. UNCHANGED <<queue, flush, raced>> /\ call' = [call EXCEPT ![r].stage = "over"]
        BY <1>4 DEF GivesUp, CallGoes
    <2>2. \A o \in Records : call'[o].stage \in {"write", "queued"} => call'[o] = call[o]
        BY <2>1 DEF Shape
    <2>3. QED
        BY <1>1, <2>1, <2>2, KeptUntouched DEF Queued, AtWork
<1>5. ASSUME NEW s \in Servers, ServerDies(s) PROVE KeptInv'
    <2>1. UNCHANGED <<queue, flush, raced>>
        BY <1>5 DEF ServerDies
    <2>2. \A o \in Records : call'[o].stage \in {"write", "queued"} => call'[o] = call[o]
        BY <1>5 DEF ServerDies, Shape
    <2>3. QED
        BY <1>1, <2>1, <2>2, KeptUntouched DEF Queued, AtWork
<1>6. ASSUME NEW f \in Flushes, FlushSends(f) \/ FlushStops(f) PROVE KeptInv'
    <2>1. UNCHANGED <<queue, call, raced>>
        BY <1>6 DEF FlushSends, FlushStops
    <2>2. ASSUME NEW g \in AtWork' PROVE g \in AtWork /\ flush'[g].batch = flush[g].batch
        <3>1. CASE g = f
            BY <1>6, <2>2, <3>1 DEF FlushSends, FlushStops, AtWork, Shape
        <3>2. CASE g # f
            <4>1. flush'[g] = flush[g]
                BY <1>6, <2>2, <3>2 DEF FlushSends, FlushStops, AtWork, Shape
            <4>2. QED
                BY <2>2, <4>1 DEF AtWork
        <3>3. QED
            BY <3>1, <3>2
    <2>3. QED
        BY <1>1, <2>1, <2>2, KeptUntouched DEF Queued
<1>7. CASE UNCHANGED <<queue, call, flush, raced>>
    BY <1>1, <1>7, KeptUntouched DEF Queued, AtWork
<1>8. QED
    BY <1>2, <1>3, <1>4, <1>5, <1>6, <1>7
    DEF Next, vars, chain, QueueReadsCut, Expire, Mine, SetOperator, StartRead, ReadRoot, ReadUri, Prove,
        View, Answer, ReaderGoes

LEMMA InvNext == RegistryInv /\ [Next]_vars => RegistryInv'
BY ShapeNext, FlushNext, RootNext, KeptNext DEF RegistryInv

\* Whatever crashes, reverts, overlaps and revocations there are, the pointer
\* that the contract serves leads to a published batch that hashes to its root
\* (flushBatchToMainnet writes the file before it commits).
THEOREM RootAlwaysAvailable == Spec => []RootIsAvailable
<1>1. RegistryInv => RootIsAvailable
    BY DEF RegistryInv
<1>2. QED
    BY <1>1, InvInit, InvNext, PTL DEF Spec

\* For any number of servers and flushes, a record is lost only when it was
\* queued while another process had read the queue file and not yet written it
\* back or cleared it, or once a write was cut short or read so
\* (queueRiskRecord, clearPendingRecords).
THEOREM QueuedAloneIsKept == Spec => []QueuedIsKept
<1>1. RegistryInv => QueuedIsKept
    <2> SUFFICES ASSUME RegistryInv, ~cut, NEW r \in Queued \ raced
                 PROVE  r \in ToSet(queue) \cup Committed
        BY DEF QueuedIsKept
    <2>1. Covers(queue)
        BY DEF RegistryInv, KeptInv
    <2>2. QED
        BY <2>1, CommittedPointwise DEF Covers
<1>2. QED
    BY <1>1, InvInit, InvNext, PTL DEF Spec

-----------------------------------------------------------------------------
(* verify_risk_inclusion                                                   *)

Readings == [stage : {"idle", "read", "view", "included", "excluded"},
             of : Targets \cup {NotStarted.of}, onchain : BOOLEAN,
             got : SUBSET {"root", "uri"}, root : SUBSET SUBSET Records,
             uri : Seq(Records), found : SUBSET Records, expired : BOOLEAN]

(***************************************************************************)
(* The root that a call has read was the contract's at some moment of the  *)
(* call, because the contract's root of any moment is; what the call has   *)
(* found hashes to that root.                                              *)
(***************************************************************************)
Found(q) ==
    /\ reader[q].found # {}
    /\ \A r \in reader[q].found : target[r] = reader[q].of
    /\ reader[q].found \subseteq Leaves(reader[q].root)

ReaderInv(q) ==
    /\ reader[q].stage = "idle" => reader[q].got = {}
    /\ reader[q].stage \in {"read", "view"} => registry.root \in current[q]
    /\ reader[q].stage = "read" /\ "root" \in reader[q].got => reader[q].root \in current[q]
    /\ reader[q].stage \in {"view", "included"} => reader[q].root \in current[q] /\ Found(q)

ReadersInv ==
    /\ RegistryInv
    /\ published \subseteq Seq(Records)
    /\ registry \in [root : SUBSET SUBSET Records, uri : Seq(Records)]
    /\ reader \in [Readers -> Readings]
    /\ DOMAIN current = Readers
    /\ \A q \in Readers : ReaderInv(q)

\* What a batch has about a target are leaves of its tree.
LEMMA FirstIsLeaf ==
    ASSUME NEW batch \in Seq(Records), NEW t
    PROVE  /\ RootOf(batch) \in SUBSET SUBSET Records
           /\ First(batch, t) \in SUBSET Records
           /\ First(batch, t) \subseteq Leaves(RootOf(batch))
           /\ \A r \in First(batch, t) : target[r] = t
<1>1. \A k \in DOMAIN batch : batch[k] \in Records
    OBVIOUS
<1>2. ASSUME NEW k \in DOMAIN batch
      PROVE  batch[k] \in Leaves(RootOf(batch))
    <2>1. k \in Nat \ {0} /\ DOMAIN batch = 1..Len(batch) /\ Len(batch) \in Nat
        OBVIOUS
    <2>2. PICK i \in DOMAIN batch : i % 2 = 1 /\ k \in {i, i + 1}
        <3>1. CASE k % 2 = 1
            BY <3>1
        <3>2. CASE k % 2 # 1
            <4>1. k - 1 \in DOMAIN batch /\ (k - 1) % 2 = 1 /\ k = (k - 1) + 1
                BY <2>1, <3>2
            <4> QED
                BY <4>1
        <3> QED
            BY <3>1, <3>2
    <2>3. {batch[j] : j \in {i, i + 1} \cap DOMAIN batch} \in RootOf(batch)
        BY <2>2 DEF RootOf
    <2>4. batch[k] \in {batch[j] : j \in {i, i + 1} \cap DOMAIN batch}
        BY <2>2
    <2> QED
        BY <2>3, <2>4 DEF Leaves
<1>3. RootOf(batch) \in SUBSET SUBSET Records
    BY <1>1 DEF RootOf
<1> QED
    BY <1>1, <1>2, <1>3 DEF First

\* The reader that takes a step, and the others, keep their types.
LEMMA ReadersMove ==
    ASSUME ReadersInv, NEW q \in Readers, NEW new \in Readings, ReaderGoes(q, new)
    PROVE  /\ UNCHANGED <<target, published, registry>>
           /\ reader' \in [Readers -> Readings]
           /\ reader'[q] = new
           /\ \A o \in Readers \ {q} : reader'[o] = reader[o]
BY DEF ReadersInv, ReaderGoes, inputs, chain

LEMMA ReadersAsk ==
    ASSUME ReadersInv, NEW q \in Readers,
           StartRead(q) \/ ReadRoot(q) \/ ReadUri(q) \/ View(q)
    PROVE  /\ UNCHANGED <<published, registry>> /\ reader' \in [Readers -> Readings]
           /\ DOMAIN current' = Readers
           /\ \A o \in Readers : ReaderInv(o)'
<1>1. ReaderInv(q) /\ reader[q] \in Readings /\ registry.root \in SUBSET SUBSET Records
      /\ registry.uri \in Seq(Records)
    BY DEF ReadersInv
<1>2. \A o \in Readers : ReaderInv(o)
    BY DEF ReadersInv
<1>3. CASE StartRead(q)
    <2>1. PICK t \in Targets, onchain \in BOOLEAN :
             ReaderGoes(q, [reader[q] EXCEPT !.stage = "read", !.of = t, !.onchain = onchain])
        BY <1>3 DEF StartRead
    <2> DEFINE new == [reader[q] EXCEPT !.stage = "read", !.of = t, !.onchain = onchain]
    <2>2. new \in Readings /\ new.stage = "read" /\ new.got = {}
        BY <1>1, <1>3 DEF Readings, StartRead, ReaderInv
    <2> HIDE DEF new
    <2>3. /\ UNCHANGED <<target, published, registry>>
          /\ reader' \in [Readers -> Readings] /\ reader'[q] = new
          /\ \A o \in Readers \ {q} : reader'[o] = reader[o]
        BY <2>1, <2>2, ReadersMove DEF new
    <2>4. current' = [current EXCEPT ![q] = {registry.root}] /\ DOMAIN current = Readers
        BY <1>3 DEF StartRead, ReadersInv
    <2>5. ReaderInv(q)'
        BY <2>2, <2>3, <2>4 DEF ReaderInv
    <2>6. \A o \in Readers \ {q} : ReaderInv(o)'
        BY <1>2, <2>3, <2>4 DEF ReaderInv, Found
    <2> QED
        BY <2>3, <2>4, <2>5, <2>6
<1>4. ASSUME NEW new \in Readings, ReaderGoes(q, new), UNCHANGED current,
             new.stage = reader[q].stage /\ reader[q].stage = "read",
             new.root = registry.root \/
                (new.root = reader[q].root /\ ("root" \in new.got => "root" \in reader[q].got))
      PROVE  /\ UNCHANGED <<published, registry>> /\ reader' \in [Readers -> Readings]
             /\ DOMAIN current' = Readers
             /\ \A o \in Readers : ReaderInv(o)'
    <2>1. /\ UNCHANGED <<target, published, registry>>
          /\ reader' \in [Readers -> Readings] /\ reader'[q] = new
          /\ \A o \in Readers \ {q} : reader'[o] = reader[o]
        BY <1>4, ReadersMove
    <2>2. ReaderInv(q)'
        BY <1>1, <1>4, <2>1 DEF ReaderInv
    <2>3. \A o \in Readers \ {q} : ReaderInv(o)'
        BY <1>2, <1>4, <2>1 DEF ReaderInv, Found
    <2> QED
        BY <1>4, <2>1, <2>2, <2>3 DEF ReadersInv
<1>5. CASE ReadRoot(q)
    <2> DEFINE new == [reader[q] EXCEPT !.root = registry.root, !.got = @ \cup {"root"}]
    <2>1. new \in Readings /\ new.stage = reader[q].stage /\ new.root = registry.root
        BY <1>1 DEF Readings
    <2> HIDE DEF new
    <2>2. ReaderGoes(q, new) /\ UNCHANGED current /\ reader[q].stage = "read"
        BY <1>5 DEF ReadRoot, new
    <2> QED
        BY <1>4, <2>1, <2>2
<1>6. CASE ReadUri(q)
    <2> DEFINE new == [reader[q] EXCEPT !.uri = registry.uri, !.got = @ \cup {"uri"}]
    <2>1. new \in Readings /\ new.stage = reader[q].stage /\ new.root = reader[q].root
          /\ new.got = reader[q].got \cup {"uri"}
        BY <1>1 DEF Readings
    <2> HIDE DEF new
    <2>2. ReaderGoes(q, new) /\ UNCHANGED current /\ reader[q].stage = "read"
        BY <1>6 DEF ReadUri, new
    <2> QED
        BY <1>4, <2>1, <2>2
<1>7. CASE View(q)
    <2>1. PICK included \in BOOLEAN : Answer(q, included)
        BY <1>7 DEF View
    <2> DEFINE new == [reader[q] EXCEPT !.stage = IF included THEN "included" ELSE "excluded"]
    <2>2. /\ new \in Readings /\ new.stage \in {"included", "excluded"}
          /\ new.found = reader[q].found /\ new.of = reader[q].of /\ new.root = reader[q].root
        BY <1>1 DEF Readings
    <2> HIDE DEF new
    <2>3. /\ UNCHANGED <<target, published, registry>>
          /\ reader' \in [Readers -> Readings] /\ reader'[q] = new
          /\ \A o \in Readers \ {q} : reader'[o] = reader[o]
        BY <2>1, <2>2, ReadersMove DEF new, Answer
    <2>4. UNCHANGED current /\ reader[q].stage = "view"
        BY <1>7 DEF View
    <2>5. ReaderInv(q)'
        BY <1>1, <2>2, <2>3, <2>4 DEF ReaderInv, Found
    <2>6. \A o \in Readers \ {q} : ReaderInv(o)'
        BY <1>2, <2>3, <2>4 DEF ReaderInv, Found
    <2> QED
        BY <2>3, <2>4, <2>5, <2>6 DEF ReadersInv
<1> QED
    BY <1>3, <1>5, <1>6, <1>7

\* Whatever batch the server sends, what is found in it is a leaf of the root
\* that it hashes to, and that is the root the call has read.
LEMMA ReadersProve ==
    ASSUME ReadersInv, NEW q \in Readers, Prove(q)
    PROVE  /\ UNCHANGED <<published, registry>> /\ reader' \in [Readers -> Readings]
           /\ DOMAIN current' = Readers
           /\ \A o \in Readers : ReaderInv(o)'
<1>1. ReaderInv(q) /\ reader[q] \in Readings
    BY DEF ReadersInv
<1>2. \A o \in Readers : ReaderInv(o)
    BY DEF ReadersInv
<1>3. /\ UNCHANGED current /\ DOMAIN current = Readers
      /\ reader[q].stage = "read" /\ "root" \in reader[q].got
    BY DEF Prove, ReadersInv
<1>4. ASSUME NEW new \in Readings, ReaderGoes(q, new), new.root = reader[q].root,
             \/ new.stage = "excluded"
             \/ /\ new.stage \in {"view", "included"}
                /\ new.found # {} /\ \A r \in new.found : target[r] = new.of
                /\ new.found \subseteq Leaves(new.root)
      PROVE  /\ UNCHANGED <<published, registry>> /\ reader' \in [Readers -> Readings]
             /\ DOMAIN current' = Readers
             /\ \A o \in Readers : ReaderInv(o)'
    <2>1. /\ UNCHANGED <<target, published, registry>>
          /\ reader' \in [Readers -> Readings] /\ reader'[q] = new
          /\ \A o \in Readers \ {q} : reader'[o] = reader[o]
        BY <1>4, ReadersMove
    <2>2. ReaderInv(q)'
        BY <1>1, <1>3, <1>4, <2>1 DEF ReaderInv, Found
    <2>3. \A o \in Readers \ {q} : ReaderInv(o)'
        BY <1>2, <1>3, <2>1 DEF ReaderInv, Found
    <2> QED
        BY <1>3, <2>1, <2>2, <2>3
<1>5. CASE Answer(q, FALSE)
    <2> DEFINE new == [reader[q] EXCEPT !.stage = "excluded"]
    <2>1. new \in Readings /\ new.root = reader[q].root /\ new.stage = "excluded"
        BY <1>1 DEF Readings
    <2>2. ReaderGoes(q, new)
        BY <1>5 DEF Answer
    <2> HIDE DEF new
    <2> QED
        BY <1>4, <2>1, <2>2
<1>6. CASE ~Answer(q, FALSE)
    <2>1. PICK batch \in Served(reader[q].uri) :
            LET found == First(batch, reader[q].of)
                late == found \subseteq expired
            IN  /\ found # {} /\ RootOf(batch) = reader[q].root
                /\ ReaderGoes(q, [reader[q] EXCEPT
                        !.stage = IF reader[q].onchain THEN "view"
                                  ELSE IF late THEN "excluded" ELSE "included",
                        !.found = found, !.expired = late])
        BY <1>6 DEF Prove
    <2>2. batch \in Seq(Records)
        <3>1. published \subseteq Seq(Records) /\ \A r \in Records : <<r>> \in Seq(Records)
            BY DEF ReadersInv
        <3> QED
            BY <3>1 DEF Served
    <2> DEFINE found == First(batch, reader[q].of)
               late == found \subseteq expired
               stage == IF reader[q].onchain THEN "view" ELSE IF late THEN "excluded" ELSE "included"
               new == [reader[q] EXCEPT !.stage = stage, !.found = found, !.expired = late]
    <2>3. /\ found \in SUBSET Records /\ found # {}
          /\ found \subseteq Leaves(reader[q].root)
          /\ \A r \in found : target[r] = reader[q].of
        BY <2>1, <2>2, FirstIsLeaf
    <2>4. late \in BOOLEAN /\ stage \in {"view", "excluded", "included"}
        OBVIOUS
    <2>5. ReaderGoes(q, new)
        BY <2>1
    <2> HIDE DEF found, late, stage
    <2>6. /\ new \in Readings /\ new.root = reader[q].root /\ new.of = reader[q].of
          /\ new.stage = stage /\ new.found = found
        BY <1>1, <2>3, <2>4 DEF Readings
    <2> HIDE DEF new
    <2> QED
        BY <1>4, <2>3, <2>4, <2>5, <2>6
<1> QED
    BY <1>5, <1>6

\* A call that is reading sees every root that the contract gets.
LEMMA ReadersMine ==
    ASSUME ReadersInv, NEW i \in DOMAIN txs, Mine(i)
    PROVE  /\ UNCHANGED <<published, reader>>
           /\ registry' \in [root : SUBSET SUBSET Records, uri : Seq(Records)]
           /\ DOMAIN current' = Readers
           /\ \A o \in Readers : ReaderInv(o)'
<1>1. /\ UNCHANGED <<target, published, reader>>
      /\ current' = [q \in Readers |-> IF reader[q].stage \in {"read", "view"}
                                       THEN current[q] \cup {registry'.root} ELSE current[q]]
    BY DEF Mine, inputs
<1>2. txs[i].batch \in Seq(Records)
    <2>1. txs \in Seq(Tx)
        BY DEF ReadersInv, RegistryInv, Shape
    <2>2. txs[i] \in Tx
        BY <2>1
    <2> QED
        BY <2>2 DEF Tx
<1>3. RootOf(txs[i].batch) \in SUBSET SUBSET Records
    BY <1>2, FirstIsLeaf
<1>4. registry' \in [root : SUBSET SUBSET Records, uri : Seq(Records)]
    BY <1>2, <1>3 DEF Mine, ReadersInv
<1>5. ASSUME NEW o \in Readers PROVE ReaderInv(o)'
    BY <1>1 DEF ReadersInv, ReaderInv, Found
<1> QED
    BY <1>1, <1>4, <1>5

LEMMA ReadersNext == ReadersInv /\ [Next]_vars => ReadersInv'
<1> SUFFICES ASSUME ReadersInv, [Next]_vars PROVE ReadersInv'
    OBVIOUS
<1>1. RegistryInv'
    BY InvNext DEF ReadersInv
<1>2. ASSUME NEW q \in Readers,
             StartRead(q) \/ ReadRoot(q) \/ ReadUri(q) \/ Prove(q) \/ View(q)
      PROVE  ReadersInv'
    BY <1>1, <1>2, ReadersAsk, ReadersProve DEF ReadersInv
<1>3. ASSUME NEW i \in DOMAIN txs, Mine(i) PROVE ReadersInv'
    BY <1>1, <1>3, ReadersMine DEF ReadersInv
<1>4. CASE /\ UNCHANGED <<target, registry, reader, current>>
           /\ published' = published \/ published' = published \cup {queue}
    <2>1. published' \subseteq Seq(Records)
        BY <1>4 DEF ReadersInv, RegistryInv, Shape
    <2> QED
        BY <1>1, <1>4, <2>1 DEF ReadersInv, ReaderInv, Found
<1> QED
    BY <1>2, <1>3, <1>4
    DEF Next, vars, inputs, chain, readers, GivesUp, QueueReads, QueueReadsCut, QueueWrites, Expire,
        ServerDies, FlushReads, FlushSends, FlushEnds, FlushStops, SetOperator

LEMMA ReadersInit == Init => ReadersInv
<1> SUFFICES ASSUME Init PROVE ReadersInv
    OBVIOUS
<1>1. RegistryInv
    BY InvInit
<1>2. NotStarted \in Readings /\ NotStarted.stage = "idle" /\ NotStarted.got = {}
    BY DEF NotStarted, Readings, NoRoot
<1>3. reader = [q \in Readers |-> NotStarted] /\ current = [q \in Readers |-> {}]
      /\ published = {}
    BY DEF Init
<1>4. registry \in [root : SUBSET SUBSET Records, uri : Seq(Records)]
    BY DEF Init, Uncommitted, NoRoot
<1> HIDE DEF NotStarted
<1> QED
    BY <1>1, <1>2, <1>3, <1>4 DEF ReadersInv, ReaderInv

\* included is answered only of a record about the target, in a batch whose
\* root was the contract's during the call: for any readers, flushes, commits
\* between the two reads, and answers of the server of the batch files.
THEOREM IncludedAlwaysGenuine == Spec => []IncludedIsGenuine
<1>1. ReadersInv => IncludedIsGenuine
    BY DEF ReadersInv, ReaderInv, Found, IncludedIsGenuine
<1> QED
    BY <1>1, ReadersInit, ReadersNext, PTL DEF Spec

=============================================================================
