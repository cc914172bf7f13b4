---------------------------- MODULE MCRiskRegistry ----------------------------
(* RiskRegistry for TLC: records, flushes and servers are interchangeable. *)
EXTENDS RiskRegistry, TLC

RegistrySymmetry == Permutations(Records) \cup Permutations(Flushes) \cup Permutations(Servers)
===============================================================================
