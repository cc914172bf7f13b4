--------------------------- MODULE PreparedRelay ---------------------------
(***************************************************************************)
(* The relay of user-signed transactions in the HTTP API: POST             *)
(* /wallet/prepare stores what was checked, POST /broadcast-signed takes   *)
(* a transaction that the user signed for it, offers it to the node once   *)
(* and hands it to the attestation queue (module AttestationQueue).        *)
(*                                                                         *)
(* An action is what one request does between two awaits.  The store is    *)
(* the process's copy and the file, which every write replaces as a whole. *)
(***************************************************************************)
EXTENDS Naturals, FiniteSets, Sequences, SequencesExt

CONSTANTS
    Ids,            \* prepared transactions
    Requests,       \* requests to broadcast
    Txs,            \* signed transactions: equal but for their nonce
    MaxRecords,     \* SAFEHANDS_PREPARED_TX_MAX
    MaxOpen,        \* bound: requests under way at once
    Modes,          \* how the relay may be configured, of AllModes
    Differences,    \* in what a signed transaction may differ, of Fields
    Faults,         \* what goes wrong, of AllFaults
    MaxCrashes      \* bound: how often the process crashes

\* "hash" is the hash that the request repeats, the others are the signed
\* transaction's; "no_to" is a transaction without a recipient.
Fields == {"hash", "from", "to", "no_to", "value", "data", "chainId"}

\* off: SAFEHANDS_USER_SIGNED_BROADCAST_ENABLED is not set.
\* elsewhere: the active network is not Pharos mainnet.
\* unattested: neither attester key nor contract, and none is required.
\* misconfigured: required, and neither attester key nor contract.
\* sync, async: attested, and the response waits for the first attempt or not.
AllModes == {"off", "elsewhere", "unattested", "misconfigured", "sync", "async"}

\* lost_answer: the node's answer, or the offer itself, is lost twice.
\* disk: a write of a state file fails.
AllFaults == {"lost_answer", "disk"}

ASSUME RelayAssumption ==
    /\ IsFiniteSet(Ids) /\ IsFiniteSet(Requests)
    /\ MaxRecords \in Nat \ {0}
    /\ MaxOpen \in Nat \ {0}
    /\ Modes \subseteq AllModes
    /\ Differences \subseteq Fields
    /\ Faults \subseteq AllFaults
    /\ MaxCrashes \in Nat

VARIABLES
    mode,       \* the configuration of the process, never changed
    asked,      \* [Ids -> record]: what is prepared under each id, never changed
    req,        \* [Requests -> record]: what each request brings, never changed
    order,      \* the ids prepared so far, oldest first
    expired,    \* how many of them are past their TTL
    mem,        \* [Ids -> status]: the process's copy of the store
    disk,       \* [Ids -> status]: the file
    pc,         \* [Requests -> stage]
    afloat,     \* requests whose transaction may still reach the node
    accepted,   \* requests whose transaction the node took
    handed,     \* the transactions handed to the attestation queue
    raced,      \* ids that two requests had checked at once (read by properties only)
    crashes

inputs == <<mode, asked, req>>
store == <<order, expired, mem, disk>>
vars == <<mode, asked, req, order, expired, mem, disk, pc, afloat, accepted, handed, raced, crashes>>

\* A blocked action is never stored; question is REQUIRE_CONFIRMATION, and the
\* relay treats the decisions that are left alike.
Prepared == [question : BOOLEAN, mainnet : BOOLEAN]

Request == [id : Ids, tx : Txs, differs : {{}} \cup {{f} : f \in Differences}]

Statuses == {"absent", "fresh", "used"}

OpenStages == {"recover", "sending", "publishing"}
Stages == OpenStages \cup {"idle", "refused", "verified", "failed", "relayed", "dead"}

\* Each variable has its type; no id is prepared twice.
TypeOK ==
    /\ mode \in Modes
    /\ asked \in [Ids -> Prepared]
    /\ req \in [Requests -> Request]
    /\ order \in Seq(Ids) /\ IsInjective(order)
    /\ expired \in 0..Len(order)
    /\ mem \in [Ids -> Statuses]
    /\ disk \in [Ids -> Statuses]
    /\ pc \in [Requests -> Stages]
    /\ afloat \subseteq Requests
    /\ accepted \subseteq Requests
    /\ handed \subseteq Txs
    /\ raced \subseteq Ids
    /\ crashes \in 0..MaxCrashes

Init ==
    /\ mode \in Modes
    /\ asked \in [Ids -> Prepared]
    /\ req \in [Requests -> Request]
    /\ order = <<>>
    /\ expired = 0
    /\ mem = [i \in Ids |-> "absent"]
    /\ disk = [i \in Ids |-> "absent"]
    /\ pc = [r \in Requests |-> "idle"]
    /\ afloat = {}
    /\ accepted = {}
    /\ handed = {}
    /\ raced = {}
    /\ crashes = 0

-----------------------------------------------------------------------------
(* The store of prepared transactions                                      *)

Held(s) == {i \in Ids : s[i] # "absent"}

Without(s, gone) == [i \in Ids |-> IF i \in gone THEN "absent" ELSE s[i]]

\* cleanupExpired: the TTL is one constant, so the oldest expire first.
Swept(s) == Without(s, {order[n] : n \in 1..expired})

\* enforceStoreCap, over the creation order: of those held, only the
\* MaxRecords youngest stay.
Younger(s, born, i) ==
    {j \in Held(s) : \E m, n \in 1..Len(born) : m < n /\ born[m] = i /\ born[n] = j}

Capped(s, born) ==
    Without(s, {i \in Ids : Cardinality(Younger(s, born, i)) >= MaxRecords})

\* persist: the file becomes the copy, or the write fails and throws.
Persisted == disk' = mem'
PersistFails == "disk" \in Faults /\ UNCHANGED disk

\* savePreparedTx (mutant of Prepare: the cap is enforced before the record
\* is added).
PrepareCapsFirst(i) ==
    /\ i \notin ToSet(order)
    /\ order' = Append(order, i)
    /\ mem' = [Capped(Swept(mem), order) EXCEPT ![i] = "fresh"]
    /\ Persisted
    /\ UNCHANGED <<inputs, expired, pc, afloat, accepted, handed, raced, crashes>>

\* The sweep before it is persisted on its own, and each write may fail.
Prepare(i) ==
    /\ i \notin ToSet(order)
    /\ order' = Append(order, i)
    /\ \/ /\ mem' = Capped([Swept(mem) EXCEPT ![i] = "fresh"], order')
          /\ \/ Persisted
             \/ "disk" \in Faults /\ disk' = IF Swept(mem) = mem THEN disk ELSE Swept(mem)
       \/ /\ mem' = Swept(mem)
          /\ mem' # mem
          /\ PersistFails
    /\ UNCHANGED <<inputs, expired, pc, afloat, accepted, handed, raced, crashes>>

\* Time passes.
Expire ==
    /\ expired < Len(order)
    /\ expired' = expired + 1
    /\ UNCHANGED <<inputs, order, mem, disk, pc, afloat, accepted, handed, raced, crashes>>

\* The timer that removes expired records.
Sweep ==
    /\ mem' = Swept(mem)
    /\ mem' # mem
    /\ Persisted \/ PersistFails
    /\ UNCHANGED <<inputs, order, expired, pc, afloat, accepted, handed, raced, crashes>>

-----------------------------------------------------------------------------
(* POST /broadcast-signed                                                  *)

Goto(r, stage) == pc' = [pc EXCEPT ![r] = stage]

Waiting(i) == {s \in Requests : pc[s] = "recover" /\ req[s].id = i}

\* The request goes on to the signer, or is refused.
Admit(r, usable) ==
    /\ pc[r] = "idle"
    /\ Cardinality({s \in Requests : pc[s] \in OpenStages}) < MaxOpen
    /\ Goto(r, IF usable THEN "recover" ELSE "refused")
    /\ raced' = raced \cup {i \in {req[r].id} : usable /\ Waiting(i) # {}}
    /\ UNCHANGED <<inputs, order, expired, disk, afloat, accepted, handed, crashes>>

\* The record is reloaded and checked.  Mutant: the decision is not looked at.
SubmitAnyDecision(r) ==
    /\ mem' = Swept(disk)
    /\ Admit(r, Swept(disk)[req[r].id] = "fresh" /\ "hash" \notin req[r].differs)

Submit(r) ==
    /\ mem' = Swept(disk)
    /\ Admit(r, /\ Swept(disk)[req[r].id] = "fresh"
                /\ "hash" \notin req[r].differs
                /\ ~asked[req[r].id].question)

\* What the checks of the fields let pass: `to` is compared only if there is
\* one, so a contract creation passes under a record with a recipient.
PassesFieldChecks(r) == req[r].differs \subseteq {"no_to"}

MayBroadcast(r) ==
    /\ mode \notin {"off", "misconfigured"}
    /\ asked[req[r].id].mainnet

\* markPreparedTxUsed reloads, and does nothing for a record that is gone or
\* that another request has marked.
MarkUsed(i) ==
    LET fresh == Swept(disk)
    IN  IF fresh[i] = "fresh"
        THEN mem' = [fresh EXCEPT ![i] = "used"] /\ Persisted
        ELSE mem' = fresh /\ UNCHANGED disk

\* The signer is recovered; every field is compared, the record is marked and
\* the transaction is offered to the node in one step.
\* Mutant: the record is not marked before the broadcast.
VerifyMarksLater(r) ==
    /\ pc[r] = "recover"
    /\ PassesFieldChecks(r) /\ MayBroadcast(r) /\ mode # "elsewhere"
    /\ Goto(r, "sending")
    /\ afloat' = afloat \cup {r}
    /\ UNCHANGED <<inputs, store, accepted, handed, raced, crashes>>

Verify(r) ==
    /\ pc[r] = "recover"
    /\ \/ /\ ~PassesFieldChecks(r) \/ (mode # "off" /\ ~MayBroadcast(r))
          /\ Goto(r, "refused")
          /\ UNCHANGED <<store, afloat>>
       \/ /\ PassesFieldChecks(r) /\ mode = "off"
          /\ Goto(r, "verified")
          /\ UNCHANGED <<store, afloat>>
       \/ /\ PassesFieldChecks(r) /\ MayBroadcast(r)
          /\ MarkUsed(req[r].id)
          /\ Goto(r, IF mode = "elsewhere" THEN "failed" ELSE "sending")
          /\ afloat' = IF mode = "elsewhere" THEN afloat ELSE afloat \cup {r}
          /\ UNCHANGED <<order, expired>>
       \/ /\ PassesFieldChecks(r) /\ MayBroadcast(r)
          /\ Swept(disk)[req[r].id] = "fresh"
          /\ mem' = [Swept(disk) EXCEPT ![req[r].id] = "used"]
          /\ PersistFails
          /\ Goto(r, "failed")
          /\ UNCHANGED <<order, expired, afloat>>
    /\ UNCHANGED <<inputs, accepted, handed, raced, crashes>>

\* The node takes a transaction that it does not know yet.  The second try of
\* the client after a lost answer offers it nothing new.
NodeTakes(r) ==
    /\ r \in afloat
    /\ \A s \in accepted : req[s].tx # req[r].tx
    /\ accepted' = accepted \cup {r}
    /\ UNCHANGED <<inputs, store, pc, afloat, handed, raced, crashes>>

\* publishAttestation: the transaction is stored in the queue, unless there is
\* no attester, and with sync the request waits for its first attempt.
HandOver(r) ==
    /\ handed' = IF mode = "unattested" THEN handed ELSE handed \cup {req[r].tx}
    /\ Goto(r, IF mode = "sync" THEN "publishing" ELSE "relayed")

\* The node's result arrives.
Answered(r) ==
    /\ pc[r] = "sending" /\ r \in accepted
    /\ \/ HandOver(r)
       \/ /\ "disk" \in Faults
          /\ mode # "unattested"
          /\ Goto(r, IF mode = "sync" THEN "failed" ELSE "relayed")
          /\ UNCHANGED handed
    /\ UNCHANGED <<inputs, store, afloat, accepted, raced, crashes>>

\* The node's error arrives: for a transaction that it knows, always.
\* Mutant: a refused transaction gives its record back.
NodeRefusesUnmarks(r) ==
    /\ pc[r] = "sending" /\ r \notin accepted
    /\ Goto(r, "failed")
    /\ afloat' = afloat \ {r}
    /\ mem' = [i \in Ids |-> IF i = req[r].id /\ disk[i] = "used" THEN "fresh" ELSE disk[i]]
    /\ Persisted
    /\ UNCHANGED <<inputs, order, expired, accepted, handed, raced, crashes>>

NodeRefuses(r) ==
    /\ pc[r] = "sending" /\ r \notin accepted
    /\ Goto(r, "failed")
    /\ afloat' = afloat \ {r}
    /\ UNCHANGED <<inputs, store, accepted, handed, raced, crashes>>

\* Both tries time out, or the second is told "already known": the broadcast
\* fails, and the transaction may have been taken or may yet be.
\* Mutant: a failed broadcast is handed over all the same.
LoseAnswerHandsOver(r) ==
    /\ "lost_answer" \in Faults
    /\ pc[r] = "sending"
    /\ HandOver(r)
    /\ UNCHANGED <<inputs, store, afloat, accepted, raced, crashes>>

LoseAnswer(r) ==
    /\ "lost_answer" \in Faults
    /\ pc[r] = "sending"
    /\ Goto(r, "failed")
    /\ UNCHANGED <<inputs, store, afloat, accepted, handed, raced, crashes>>

\* The first attempt of the attestation is over, however it went.
Respond(r) ==
    /\ pc[r] = "publishing"
    /\ Goto(r, "relayed") \/ ("disk" \in Faults /\ Goto(r, "failed"))
    /\ UNCHANGED <<inputs, store, afloat, accepted, handed, raced, crashes>>

-----------------------------------------------------------------------------
\* The process dies and is started again on the file; what it had sent is sent.
Crash ==
    /\ crashes < MaxCrashes
    /\ crashes' = crashes + 1
    /\ mem' = Swept(disk)
    /\ pc' = [r \in Requests |-> IF pc[r] \in OpenStages THEN "dead" ELSE pc[r]]
    /\ UNCHANGED <<inputs, order, expired, disk, afloat, accepted, handed, raced>>

SendEnds(r) == Answered(r) \/ NodeRefuses(r) \/ LoseAnswer(r)

Next ==
    \/ \E i \in Ids : Prepare(i)
    \/ Expire
    \/ Sweep
    \/ \E r \in Requests :
          Submit(r) \/ Verify(r) \/ NodeTakes(r) \/ SendEnds(r) \/ Respond(r)
    \/ Crash

Spec == Init /\ [][Next]_vars

-----------------------------------------------------------------------------
(* Properties                                                              *)

\* A prepared transaction is relayed at most once: the node never takes two
\* transactions under one record ("Prepared transaction has already been
\* broadcast."), whatever crashes, evictions and failed writes come between.
OneRelayPerRecord ==
    \A r, s \in accepted : req[r].id = req[s].id => r = s

\* The same of every record that no two requests had checked at once: nothing
\* else makes the mark fail.
OneRelayUnlessRaced ==
    \A r, s \in accepted : req[r].id = req[s].id /\ req[r].id \notin raced => r = s

\* What the node took, or may still take, was allowed to proceed (a question is
\* never relayed), on the network it was prepared for, and has the record's
\* sender, value, data and chain, and its recipient unless it is a contract
\* creation, which is relayed under any recipient; and the record it was sent
\* under is usable in no copy of the store, through expiry, eviction, reloads,
\* failed writes and a crash.
RelayedAsPreparedUnlessCreation ==
    \A r \in afloat \cup accepted :
        /\ ~asked[req[r].id].question
        /\ asked[req[r].id].mainnet /\ mode \in {"unattested", "sync", "async"}
        /\ req[r].differs \subseteq {"no_to"}
        /\ "fresh" \notin {Swept(mem)[req[r].id], Swept(disk)[req[r].id]}

\* The queue never attests a transaction that the node did not take, and a
\* response that reports a broadcast speaks of one that it took.
AttestsOnlyTheRelayed ==
    /\ handed \subseteq {req[r].tx : r \in accepted}
    /\ \A r \in Requests : pc[r] \in {"publishing", "relayed"} => r \in accepted

\* The store and its file stay within the cap that bounds anonymous writes.
StoreBounded == Cardinality(Held(mem)) <= MaxRecords /\ Cardinality(Held(disk)) <= MaxRecords

\* A used record is never fresh again in the file: no stale copy of the store
\* overwrites the mark.
MarkIsForGood ==
    [][\A i \in Ids : disk[i] = "used" => disk'[i] # "fresh"]_vars
=============================================================================
