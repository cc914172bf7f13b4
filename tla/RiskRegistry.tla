---------------------------- MODULE RiskRegistry ----------------------------
(***************************************************************************)
(* Risk records on their way to the registry contract and back:            *)
(* publish_risk_score puts a record into the queue file, a run of          *)
(* flushBatchToMainnet commits the Merkle root of the queue and clears it, *)
(* verify_risk_inclusion proves a record against the committed root.       *)
(*                                                                         *)
(* The servers that publish, the script that flushes and those who read    *)
(* are processes of their own.  Reading the queue file and writing it back *)
(* is one step of its process, but two for the others.                     *)
(***************************************************************************)
EXTENDS Naturals, FiniteSets, Sequences, SequencesExt

CONSTANTS
    Records,    \* risk records, each of one call of publish_risk_score
    Servers,    \* processes that publish
    Flushes,    \* runs of the flush script
    Readers,    \* calls of verify_risk_inclusion
    Targets,    \* addresses that records are about
    Faults      \* what goes wrong, of AllFaults

\* cut: a write of the queue is cut short where its server dies, or is read by
\* another process before it is done; the file is truncated at its start.
\* other_batch: the server of the batch files answers with another batch.
AllFaults == {"cut", "other_batch"}

ASSUME RegistryAssumption ==
    /\ IsFiniteSet(Records)
    /\ Faults \subseteq AllFaults

VARIABLES
    target,     \* [Records -> Targets]: never changed
    server,     \* [Records -> Servers]: where each is published, never changed
    call,       \* [Records -> stage and copy of the queue]
    queue,      \* the queue file; one that cannot be parsed counts as empty
    flush,      \* [Flushes -> stage, records read and number of the transaction]
    published,  \* the batch files that the data-availability server has
    txs,        \* the commitRiskRoot transactions, in the order of their nonces
    registry,   \* [root, uri] of the contract
    operator,   \* whether the flushing account may commit
    expired,    \* records past their expiresAt
    reader,     \* [Readers -> what the call has read, and its answer]
    cut,        \* a write of the queue was cut short, or read so (read by properties only)
    raced,      \* records queued while another process was at the file (read by properties only)
    current     \* [Readers -> roots since the call began] (read by properties only)

inputs == <<target, server>>
vars == <<target, server, call, queue, flush, published, txs, registry, operator,
          expired, reader, cut, raced, current>>

Batches == {b \in BoundedSeq(Records, Cardinality(Records)) : IsInjective(b)}

\* Leaves are hashed in pairs, each sorted.  Bound: a fifth leaf would add a level.
RootOf(batch) ==
    {{batch[k] : k \in {i, i + 1} \cap DOMAIN batch} : i \in {n \in DOMAIN batch : n % 2 = 1}}

NoRoot == {}

Uncommitted == [root |-> NoRoot, uri |-> <<>>]

NotStarted == [stage |-> "idle", of |-> CHOOSE t \in Targets : TRUE, onchain |-> FALSE,
               got |-> {}, root |-> NoRoot, uri |-> <<>>, found |-> {}, expired |-> FALSE]

Leaves(root) == UNION root

\* Each variable has its type; no record is twice in the queue or in a batch.
TypeOK ==
    /\ target \in [Records -> Targets]
    /\ server \in [Records -> Servers]
    /\ \A r \in Records :
          /\ call[r].stage \in {"idle", "write", "queued", "over"}
          /\ call[r].copy \in Batches
    /\ queue \in Batches
    /\ \A f \in Flushes :
          /\ flush[f].stage \in {"idle", "send", "receipt", "over"}
          /\ flush[f].batch \in Batches
          /\ flush[f].tx \in 0..Len(txs)
    /\ published \subseteq Batches
    /\ \A i \in DOMAIN txs : txs[i].batch \in Batches /\ txs[i].state \in {"pool", "mined", "reverted"}
    /\ registry.uri \in Batches
    /\ operator \in BOOLEAN
    /\ expired \subseteq Records
    /\ \A q \in Readers :
          /\ reader[q].stage \in {"idle", "read", "view", "included", "excluded"}
          /\ reader[q].found \subseteq Records
    /\ cut \in BOOLEAN
    /\ raced \subseteq Records

Init ==
    /\ target \in [Records -> Targets]
    /\ server \in [Records -> Servers]
    /\ call = [r \in Records |-> [stage |-> "idle", copy |-> <<>>]]
    /\ queue = <<>>
    /\ flush = [f \in Flushes |-> [stage |-> "idle", batch |-> <<>>, tx |-> 0]]
    /\ published = {}
    /\ txs = <<>>
    /\ registry = Uncommitted
    /\ operator \in BOOLEAN
    /\ expired = {}
    /\ reader = [q \in Readers |-> NotStarted]
    /\ cut = FALSE
    /\ raced = {}
    /\ current = [q \in Readers |-> {}]

chain == <<txs, registry, operator>>
readers == <<reader, current>>

-----------------------------------------------------------------------------
(* publish_risk_score                                                      *)

CallGoes(r, stage) == call' = [call EXCEPT ![r].stage = stage]

\* Input, signer, authorization, policy or risk assessment end the call.
GivesUp(r) ==
    /\ call[r].stage = "idle"
    /\ CallGoes(r, "over")
    /\ UNCHANGED <<inputs, queue, flush, published, chain, expired, readers, cut, raced>>

\* Nothing else of the same process runs between the read and the write.
AtFile(s) == {r \in Records : call[r].stage = "write" /\ server[r] = s}

\* After them queueRiskRecord reads the pending records ...
QueueReads(r) ==
    /\ call[r].stage = "idle" /\ AtFile(server[r]) = {}
    /\ call' = [call EXCEPT ![r] = [stage |-> "write", copy |-> queue]]
    /\ UNCHANGED <<inputs, queue, flush, published, chain, expired, readers, cut, raced>>

\* ... or, while another process writes, finds them cut and starts afresh ...
QueueReadsCut(r) ==
    /\ "cut" \in Faults
    /\ call[r].stage = "idle" /\ AtFile(server[r]) = {}
    /\ \E s \in Servers : AtFile(s) # {}
    /\ call' = [call EXCEPT ![r] = [stage |-> "write", copy |-> <<>>]]
    /\ cut' = TRUE
    /\ UNCHANGED <<inputs, queue, flush, published, chain, expired, readers, raced>>

\* Flushes that have read the queue and will clear it.
AtWork == {f \in Flushes : flush[f].stage \in {"send", "receipt"}}

OthersAtFile(r) == {o \in Records \ {r} : call[o].stage = "write"}

\* ... and writes them back with its own.
QueueWrites(r) ==
    /\ call[r].stage = "write"
    /\ queue' = Append(call[r].copy, r)
    /\ CallGoes(r, "queued")
    /\ raced' = raced \cup {o \in {r} : AtWork # {} \/ OthersAtFile(r) # {}}
    /\ UNCHANGED <<inputs, flush, published, chain, expired, readers, cut>>

\* The process dies at the write, which may be cut short.
ServerDies(s) ==
    /\ AtFile(s) # {}
    /\ call' = [r \in Records |-> IF r \in AtFile(s) THEN [call[r] EXCEPT !.stage = "over"] ELSE call[r]]
    /\ \/ UNCHANGED <<queue, cut>>
       \/ "cut" \in Faults /\ queue' = <<>> /\ cut' = TRUE
    /\ UNCHANGED <<inputs, flush, published, chain, expired, readers, raced>>

-----------------------------------------------------------------------------
(* flushBatchToMainnet                                                     *)

\* Mutant: the batch file is left to whoever serves it.
FlushReadsOnly(f) ==
    /\ flush[f].stage = "idle" /\ queue # <<>>
    /\ flush' = [flush EXCEPT ![f].stage = "send", ![f].batch = queue]
    /\ UNCHANGED <<inputs, call, queue, published, chain, expired, readers, cut, raced>>

\* The pending records become a batch file.  A flush without a server for it
\* ends here, with the file written.
FlushReads(f) ==
    /\ flush[f].stage = "idle" /\ queue # <<>>
    /\ \E stage \in {"send", "over"} :
          flush' = [flush EXCEPT ![f].stage = stage, ![f].batch = queue]
    /\ published' = published \cup {queue}
    /\ UNCHANGED <<inputs, call, queue, chain, expired, readers, cut, raced>>

FlushSends(f) ==
    /\ flush[f].stage = "send" /\ operator
    /\ txs' = Append(txs, [batch |-> flush[f].batch, state |-> "pool"])
    /\ flush' = [flush EXCEPT ![f].stage = "receipt", ![f].tx = Len(txs) + 1]
    /\ UNCHANGED <<inputs, call, queue, published, registry, operator, expired, readers, cut, raced>>

\* Mutant: the queue is cleared although the transaction reverted.
FlushEndsClearing(f) ==
    /\ flush[f].stage = "receipt" /\ txs[flush[f].tx].state # "pool"
    /\ flush' = [flush EXCEPT ![f].stage = "over"]
    /\ queue' = <<>>
    /\ UNCHANGED <<inputs, call, published, chain, expired, readers, cut, raced>>

\* The queue is cleared as it is now, whatever was read.
FlushEnds(f) ==
    /\ flush[f].stage = "receipt" /\ txs[flush[f].tx].state # "pool"
    /\ flush' = [flush EXCEPT ![f].stage = "over"]
    /\ queue' = IF txs[flush[f].tx].state = "mined" THEN <<>> ELSE queue
    /\ UNCHANGED <<inputs, call, published, chain, expired, readers, cut, raced>>

\* An await throws, or the process dies: the account is no operator, the node
\* is unreachable, an answer or the receipt does not come.
FlushStops(f) ==
    /\ flush[f].stage \in {"send", "receipt"}
    /\ flush' = [flush EXCEPT ![f].stage = "over"]
    /\ UNCHANGED <<inputs, call, queue, published, chain, expired, readers, cut, raced>>

-----------------------------------------------------------------------------
(* SafeHandsRegistry.sol                                                   *)

\* commitRiskRoot replaces the root; only an operator may.
Mine(i) ==
    /\ txs[i].state = "pool" /\ \A k \in 1..(i - 1) : txs[k].state # "pool"
    /\ txs' = [txs EXCEPT ![i].state = IF operator THEN "mined" ELSE "reverted"]
    /\ registry' = IF operator THEN [root |-> RootOf(txs[i].batch), uri |-> txs[i].batch] ELSE registry
    /\ current' = [q \in Readers |-> IF reader[q].stage \in {"read", "view"}
                                     THEN current[q] \cup {registry'.root} ELSE current[q]]
    /\ UNCHANGED <<inputs, call, queue, flush, published, operator, expired, reader, cut, raced>>

SetOperator ==
    /\ operator' = ~operator
    /\ UNCHANGED <<inputs, call, queue, flush, published, txs, registry, expired, readers, cut, raced>>

Expire(r) ==
    /\ expired' = expired \cup {r}
    /\ expired' # expired
    /\ UNCHANGED <<inputs, call, queue, flush, published, chain, readers, cut, raced>>

-----------------------------------------------------------------------------
(* verify_risk_inclusion                                                   *)

ReaderGoes(q, new) ==
    /\ reader' = [reader EXCEPT ![q] = new]
    /\ UNCHANGED <<inputs, call, queue, flush, published, chain, expired, cut, raced>>

Answer(q, included) ==
    ReaderGoes(q, [reader[q] EXCEPT !.stage = IF included THEN "included" ELSE "excluded"])

StartRead(q) ==
    /\ reader[q].stage = "idle"
    /\ \E t \in Targets, onchain \in BOOLEAN :
          ReaderGoes(q, [reader[q] EXCEPT !.stage = "read", !.of = t, !.onchain = onchain])
    /\ current' = [current EXCEPT ![q] = {registry.root}]

\* Root and pointer are two calls: a commit may come between them.
ReadRoot(q) ==
    /\ reader[q].stage = "read" /\ "root" \notin reader[q].got
    /\ ReaderGoes(q, [reader[q] EXCEPT !.root = registry.root, !.got = @ \cup {"root"}])
    /\ UNCHANGED current

ReadUri(q) ==
    /\ reader[q].stage = "read" /\ "uri" \notin reader[q].got
    /\ ReaderGoes(q, [reader[q] EXCEPT !.uri = registry.uri, !.got = @ \cup {"uri"}])
    /\ UNCHANGED current

\* What the data-availability server may answer for a pointer.
Served(uri) ==
    ({uri} \cap published) \cup {b \in published \cup {<<r>> : r \in Records} : "other_batch" \in Faults}

\* The first record about the target that the batch has, if it has one.
First(batch, t) ==
    {batch[i] : i \in {k \in DOMAIN batch : /\ target[batch[k]] = t
                                           /\ \A j \in 1..(k - 1) : target[batch[j]] # t}}

\* A batch that does not hash to the root proves nothing.
\* Mutant: the root that the batch hashes to is not compared.
ProveAgainstAnything(q) ==
    /\ reader[q].got = {"root", "uri"} /\ reader[q].stage = "read"
    /\ \/ reader[q].root # NoRoot /\ \E batch \in Served(reader[q].uri) :
            /\ First(batch, reader[q].of) # {}
            /\ ReaderGoes(q, [reader[q] EXCEPT
                    !.stage = IF reader[q].onchain THEN "view" ELSE "included",
                    !.found = First(batch, reader[q].of)])
       \/ Answer(q, FALSE)
    /\ UNCHANGED current

Prove(q) ==
    /\ reader[q].got = {"root", "uri"} /\ reader[q].stage = "read"
    /\ \/ reader[q].root # NoRoot /\ \E batch \in Served(reader[q].uri) :
            LET found == First(batch, reader[q].of)
                late == found \subseteq expired
            IN  /\ found # {} /\ RootOf(batch) = reader[q].root
                /\ ReaderGoes(q, [reader[q] EXCEPT
                        !.stage = IF reader[q].onchain THEN "view"
                                  ELSE IF late THEN "excluded" ELSE "included",
                        !.found = found, !.expired = late])
       \/ Answer(q, FALSE)
    /\ UNCHANGED current

\* verifyRiskRecord checks the proof against the root of now, and the expiry;
\* any error of the call excludes the record.
View(q) ==
    /\ reader[q].stage = "view"
    /\ \/ Answer(q, /\ registry.root = reader[q].root
                    /\ reader[q].found \cap expired = {}
                    /\ ~reader[q].expired)
       \/ Answer(q, FALSE)
    /\ UNCHANGED current

-----------------------------------------------------------------------------

Next ==
    \/ \E r \in Records :
          GivesUp(r) \/ QueueReads(r) \/ QueueReadsCut(r) \/ QueueWrites(r) \/ Expire(r)
    \/ \E s \in Servers : ServerDies(s)
    \/ \E f \in Flushes : FlushReads(f) \/ FlushSends(f) \/ FlushEnds(f) \/ FlushStops(f)
    \/ \E i \in DOMAIN txs : Mine(i)
    \/ SetOperator
    \/ \E q \in Readers : StartRead(q) \/ ReadRoot(q) \/ ReadUri(q) \/ Prove(q) \/ View(q)

Spec == Init /\ [][Next]_vars

-----------------------------------------------------------------------------
(* Properties                                                              *)

Committed == UNION {ToSet(txs[i].batch) : i \in {k \in DOMAIN txs : txs[k].state = "mined"}}

Queued == {r \in Records : call[r].stage = "queued"}

\* The pointer of the contract never dangles: whatever stops a flush, the batch
\* it points to is published and hashes to the root ("Fail closed rather than
\* commit a dead pointer on-chain" in flushBatchToMainnet).
RootIsAvailable ==
    registry # Uncommitted => registry.uri \in published /\ RootOf(registry.uri) = registry.root

\* A record that was queued waits in the file or is in a committed batch: no
\* revert, timeout, crash or second flush loses it.  It may be lost only when
\* it was queued while another process was at the file, or once a write was cut
\* short, or read so.
QueuedIsKept ==
    ~cut => Queued \ raced \subseteq ToSet(queue) \cup Committed

\* included is answered only of a record about the target, in a batch whose
\* root was the contract's at some moment of the call, whatever the server of
\* the batch files sends (the root comparison in verifyRiskInclusion).
IncludedIsGenuine ==
    \A q \in Readers :
        reader[q].stage = "included" =>
            /\ reader[q].found # {}
            /\ \A r \in reader[q].found : target[r] = reader[q].of
            /\ \E root \in current[q] : reader[q].found \subseteq Leaves(root)
=============================================================================
