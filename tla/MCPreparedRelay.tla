-------------------------- MODULE MCPreparedRelay --------------------------
(* PreparedRelay for TLC: ids, requests and transactions are interchangeable. *)
EXTENDS PreparedRelay, TLC

RelaySymmetry == Permutations(Ids) \cup Permutations(Requests) \cup Permutations(Txs)
============================================================================
