------------------------- MODULE MCAttestationQueue -------------------------
(* AttestationQueue for TLC: transactions, hashes and sweeps are interchangeable. *)
EXTENDS AttestationQueue, TLC

QueueSymmetry == Permutations(Txs) \cup Permutations(Hashes) \cup Permutations(Sweeps)
=============================================================================
