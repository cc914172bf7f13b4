---------------------------- MODULE MCWriteGate ----------------------------
(* WriteGate for TLC: the configuration chooses tools and doors.    *)
EXTENDS WriteGate
============================================================================
