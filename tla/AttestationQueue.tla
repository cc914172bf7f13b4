-------------------------- MODULE AttestationQueue --------------------------
(***************************************************************************)
(* The queue that attests relayed transactions on chain, from the moment   *)
(* the relay (module PreparedRelay) hands one over: the first attempt in   *)
(* the API process, the sweeps that retry, in the API process and in the   *)
(* worker, the file that both keep their records in, and the contract.     *)
(*                                                                         *)
(* An activity is one publishAttestation or one sweep.  An action is what  *)
(* it does between two awaits; a record that a sweep has read is the       *)
(* sweep's own copy until it is written back with the process's whole      *)
(* state.                                                                  *)
(***************************************************************************)
EXTENDS Naturals, FiniteSets, Sequences

CONSTANTS
    Txs,            \* relayed transactions, named by their hash
    Hashes,         \* hashes of prepared transactions
    Procs,          \* the processes that run sweeps, "api" among them
    Sweeps,         \* sweeps that may be under way at once
    MaxAttempts,    \* SAFEHANDS_ATTESTATION_MAX_ATTEMPTS
    MaxActive,      \* bound: activities at once
    MaxWrites,      \* bound: attestation transactions ever sent
    MaxTroubles     \* bound: awaits that throw and processes that die

ASSUME QueueAssumption ==
    /\ IsFiniteSet(Txs)
    /\ Txs \cap Sweeps = {}
    /\ "api" \in Procs
    /\ MaxAttempts \in Nat \ {0}
    /\ {MaxActive, MaxWrites, MaxTroubles} \subseteq Nat

VARIABLES
    hashOf,     \* [Txs -> Hashes]: what each was prepared as, never changed
    owner,      \* [Sweeps -> Procs]: where each sweep runs, never changed
    queued,     \* the transactions handed over so far
    file,       \* [Txs -> record]: the store file
    mem,        \* [Procs -> [Txs -> record]]: each process's copy of it
    active,     \* what the activities are doing, at most one job each
    ledger,     \* the attestation transactions, in the order they were sent
    shared,     \* those two activities had on hand at once (read by properties only)
    troubles

inputs == <<hashOf, owner>>
vars == <<hashOf, owner, queued, file, mem, active, ledger, shared, troubles>>

Activities == Txs \cup Sweeps

ProcOf(a) == IF a \in Txs THEN "api" ELSE owner[a]

\* The processes of the deployment: the API, and those that run its sweeps.
Running == {ProcOf(a) : a \in Activities}
OneProcess == Running \subseteq {"api"}

Statuses == {"absent", "pending_retry", "published", "confirmed", "failed"}
Record == [status : Statuses, attempts : 0..MaxAttempts]

\* A record that a sweep has read and not yet come to.
Waiting == [tx : Txs, attempts : 0..(MaxAttempts - 1)]

Job == [act : Activities,
        stage : {"simulate", "write", "sent", "receipt", "next"},
        tx : Txs,
        attempts : 1..MaxAttempts,
        write : 0..MaxWrites,
        todo : SUBSET Waiting]

\* Each variable has its type; an activity has one job at a time.
TypeOK ==
    /\ hashOf \in [Txs -> Hashes]
    /\ owner \in [Sweeps -> Procs]
    /\ queued \subseteq Txs
    /\ file \in [Txs -> Record]
    /\ mem \in [Procs -> [Txs -> Record]]
    /\ \A j \in active : j \in Job
    /\ \A j, k \in active : j.act = k.act => j = k
    /\ ledger \in Seq([tx : Txs, state : {"pool", "attested", "reverted"}])
    /\ Len(ledger) <= MaxWrites
    /\ shared \subseteq Txs
    /\ troubles \in 0..MaxTroubles

NoRecords == [t \in Txs |-> [status |-> "absent", attempts |-> 0]]

Init ==
    /\ hashOf \in [Txs -> Hashes]
    /\ owner \in [Sweeps -> Procs]
    /\ queued = {}
    /\ file = NoRecords
    /\ mem = [p \in Procs |-> NoRecords]
    /\ active = {}
    /\ ledger = <<>>
    /\ shared = {}
    /\ troubles = 0

-----------------------------------------------------------------------------
(* Records and jobs                                                        *)

\* upsert: the record enters the process's state, and all of it the file.
Upsert(p, state, t, status, n) ==
    LET new == [state EXCEPT ![t] = [status |-> status, attempts |-> n]]
    IN  /\ mem' = [mem EXCEPT ![p] = new]
        /\ file' = new

Others(a) == {j \in active : j.act # a}
Idle(a) == Others(a) = active
MayStart(a) == Idle(a) /\ Cardinality(active) < MaxActive

\* What activities are at, or have listed and not yet come to.
OnHand(jobs) == {j.tx : j \in jobs} \cup {w.tx : w \in UNION {j.todo : j \in jobs}}

Begin(a, t, n, todo) ==
    LET job == [act |-> a, stage |-> "simulate", tx |-> t,
                attempts |-> n, write |-> 0, todo |-> todo]
    IN  /\ active' = Others(a) \cup {job}
        /\ shared' = shared \cup (OnHand(Others(a)) \cap OnHand({job}))

\* The first step of attemptPublish: the attempt is counted before anything
\* is sent.  Mutant: it is counted in the copy, and saved when it is over.
StartCountsLater(a, state, t, n, todo) ==
    Begin(a, t, n + 1, todo) /\ Upsert(ProcOf(a), state, t, "pending_retry", n)

Start(a, state, t, n, todo) ==
    Begin(a, t, n + 1, todo) /\ Upsert(ProcOf(a), state, t, "pending_retry", n + 1)

\* The attempt is over: its status is saved, and a sweep goes on.
Finish(j, status) ==
    /\ active' = Others(j.act) \cup {[k EXCEPT !.stage = "next"] :
                                        k \in {i \in {j} : i.todo # {}}}
    /\ Upsert(ProcOf(j.act), mem[ProcOf(j.act)], j.tx, status, j.attempts)

\* Any throw: the last attempt fails the record, another leaves it to a sweep.
\* Mutant: any throw fails it.
FailAtOnce(j) == Finish(j, "failed")

Fail(j) == Finish(j, IF j.attempts >= MaxAttempts THEN "failed" ELSE "pending_retry")

\* publishAttestation: a new record, stored and attempted at once.
Publish(t) ==
    /\ t \notin queued
    /\ MayStart(t)
    /\ queued' = queued \cup {t}
    /\ Start(t, mem["api"], t, 0, {})
    /\ UNCHANGED <<inputs, ledger, troubles>>

\* Time is not modelled: a record that waits for a retry may be due or not.
\* Mutant: the sweep does not look at the status.
RetryableInAnyStatus(state) ==
    {t \in Txs : state[t].status # "absent" /\ state[t].attempts < MaxAttempts}

Retryable(state) ==
    {t \in Txs : state[t].status = "pending_retry" /\ state[t].attempts < MaxAttempts}

\* retryPendingAttestations: the file is read, the due records are listed and
\* the first is attempted.
Sweep(s, due) ==
    /\ MayStart(s)
    /\ due # {} /\ due \subseteq Retryable(file)
    /\ \E t \in due :
          Start(s, file, t, file[t].attempts,
                {[tx |-> u, attempts |-> file[u].attempts] : u \in due \ {t}})
    /\ UNCHANGED <<inputs, queued, ledger, troubles>>

\* The sweep goes on with the next record of its list, as it was listed.
SweepNext(j) ==
    /\ j.stage = "next"
    /\ \E w \in j.todo :
          Start(j.act, mem[ProcOf(j.act)], w.tx, w.attempts, j.todo \ {w})
    /\ UNCHANGED <<inputs, queued, ledger, troubles>>

\* A status request, or a sweep that finds nothing due, reads the file.
Reload(p) ==
    /\ mem[p] # file
    /\ mem' = [mem EXCEPT ![p] = file]
    /\ UNCHANGED <<inputs, queued, file, active, ledger, shared, troubles>>

-----------------------------------------------------------------------------
(* SafeHandsAttestation.sol                                                *)

Attested == {ledger[i].tx : i \in {k \in DOMAIN ledger : ledger[k].state = "attested"}}

\* attest reverts when the transaction or what it was prepared as is attested.
\* That the attester keeps its role, and that hashes are not zero, is taken as
\* given: a revert for those would be one more revert.
\* Mutant: only the transaction is looked up.
AttestableByTx(t) == t \notin Attested

Attestable(t) ==
    /\ t \notin Attested
    /\ hashOf[t] \notin {hashOf[u] : u \in Attested}

Mine(i) ==
    /\ ledger[i].state = "pool"
    /\ ledger' = [ledger EXCEPT ![i].state =
                     IF Attestable(ledger[i].tx) THEN "attested" ELSE "reverted"]
    /\ UNCHANGED <<inputs, queued, file, mem, active, shared, troubles>>

-----------------------------------------------------------------------------
(* attemptPublish                                                          *)

Advance(j, stage, write) ==
    active' = Others(j.act) \cup {[j EXCEPT !.stage = stage, !.write = write]}

Simulated(j) ==
    /\ j.stage = "simulate"
    /\ IF Attestable(j.tx)
       THEN Advance(j, "write", 0) /\ UNCHANGED <<file, mem>>
       ELSE Fail(j)
    /\ UNCHANGED <<inputs, queued, ledger, shared, troubles>>

\* writeContract signs and sends; its answer is still to come.
Send(j) ==
    /\ j.stage = "write"
    /\ Len(ledger) < MaxWrites
    /\ ledger' = Append(ledger, [tx |-> j.tx, state |-> "pool"])
    /\ Advance(j, "sent", Len(ledger) + 1)
    /\ UNCHANGED <<inputs, queued, file, mem, shared, troubles>>

Sent(j) ==
    /\ j.stage = "sent"
    /\ Advance(j, "receipt", j.write)
    /\ Upsert(ProcOf(j.act), mem[ProcOf(j.act)], j.tx, "published", j.attempts)
    /\ UNCHANGED <<inputs, queued, ledger, shared, troubles>>

\* Mutant: the receipt's status is not looked at.
ReceiptOfAnyStatus(j) ==
    /\ j.stage = "receipt"
    /\ ledger[j.write].state # "pool"
    /\ Finish(j, "confirmed")
    /\ UNCHANGED <<inputs, queued, ledger, shared, troubles>>

Receipt(j) ==
    /\ j.stage = "receipt"
    /\ ledger[j.write].state # "pool"
    /\ Finish(j, IF ledger[j.write].state = "attested" THEN "confirmed" ELSE "failed")
    /\ UNCHANGED <<inputs, queued, ledger, shared, troubles>>

\* An await throws: the node is unreachable, the answer to a sent transaction
\* is lost, or its receipt does not come in time.
Throw(j) ==
    /\ troubles < MaxTroubles
    /\ troubles' = troubles + 1
    /\ j.stage # "next"
    /\ Fail(j)
    /\ UNCHANGED <<inputs, queued, ledger, shared>>

\* The process dies with its activities and starts again from the file.
\* Mutant: it starts with an empty state.
CrashForgets(p) ==
    /\ troubles < MaxTroubles
    /\ troubles' = troubles + 1
    /\ active' = {j \in active : ProcOf(j.act) # p}
    /\ mem' = [mem EXCEPT ![p] = NoRecords]
    /\ UNCHANGED <<inputs, queued, file, ledger, shared>>

Crash(p) ==
    /\ troubles < MaxTroubles
    /\ troubles' = troubles + 1
    /\ active' = {j \in active : ProcOf(j.act) # p}
    /\ mem' = [mem EXCEPT ![p] = file]
    /\ UNCHANGED <<inputs, queued, file, ledger, shared>>

Step(j) == SweepNext(j) \/ Simulated(j) \/ Send(j) \/ Sent(j) \/ Receipt(j)

SweepAll == \E s \in Sweeps : Sweep(s, Retryable(file))

Next ==
    \/ \E t \in Txs : Publish(t)
    \/ \E s \in Sweeps : \E due \in SUBSET Txs : Sweep(s, due)
    \/ \E p \in Running : Reload(p)
    \/ \E j \in active : Step(j) \/ Throw(j)
    \/ \E i \in DOMAIN ledger : Mine(i)
    \/ \E p \in Running : Crash(p)

Spec == Init /\ [][Next]_vars

\* Every await of an activity ends (viem's timeouts), the retry timer fires
\* until all that waits is due, and the chain mines what it was sent.
Fairness ==
    /\ \A a \in Activities : WF_vars(\E j \in active : j.act = a /\ Step(j))
    /\ WF_vars(SweepAll)
    /\ \A i \in 1..MaxWrites : WF_vars(i \in DOMAIN ledger /\ Mine(i))

FairSpec == Spec /\ Fairness

-----------------------------------------------------------------------------
(* Properties                                                              *)

\* The ledger is write-once: no transaction is attested twice, and nothing
\* that was prepared is, whatever retries, processes and overlaps there are.
WriteOnce ==
    \A i, k \in DOMAIN ledger :
        ledger[i].state = "attested" /\ ledger[k].state = "attested" /\ i # k
            => /\ ledger[i].tx # ledger[k].tx
               /\ hashOf[ledger[i].tx] # hashOf[ledger[k].tx]

\* A record that says confirmed, in the file or in a process, is on chain.
ConfirmedIsAttested ==
    \A t \in Txs :
        "confirmed" \in {file[t].status} \cup {mem[p][t].status : p \in Procs} => t \in Attested

\* Every attestation transaction that was paid for is counted against
\* MAX_ATTEMPTS, also when its attempt died, unless two activities had the
\* record on hand at once.
SendsAreCounted ==
    OneProcess => \A t \in Txs \ shared :
        Cardinality({i \in DOMAIN ledger : ledger[i].tx = t}) <= file[t].attempts

\* A confirmed record stays confirmed, unless two activities had it on hand at
\* once: a sweep never goes back to what its list still says.
ConfirmedForGood ==
    [][\A t \in Txs : OneProcess /\ file[t].status = "confirmed" /\ t \notin shared'
            => file'[t].status = "confirmed"]_vars

\* What was handed over is in the file until the end of time: it survives
\* every overlap and every restart.
NeverForgotten == OneProcess => \A t \in queued : file[t].status # "absent"

\* "If SafeHands broadcasts it, SafeHands attests it": what was handed over
\* is attested in the end, through retries and a restart, unless another
\* transaction was prepared like it (the ledger takes one record per hash).
UniqueAttestedEventually ==
    \A t \in Txs :
        t \in queued /\ OneProcess /\ (\A u \in Txs : hashOf[u] = hashOf[t] => u = t) ~> t \in Attested
=============================================================================
