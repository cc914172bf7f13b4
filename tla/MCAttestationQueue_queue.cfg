\* The API and perhaps a worker, a sweep beside first attempts, one throw or
\* restart.
SPECIFICATION Spec
CONSTANTS
    Txs = {t1, t2}
    Hashes = {h1, h2}
    Procs = {"api", "worker"}
    Sweeps = {s1}
    MaxAttempts = 2
    MaxActive = 3
    MaxWrites = 3
    MaxTroubles = 1
SYMMETRY QueueSymmetry
INVARIANTS WriteOnce ConfirmedIsAttested NeverForgotten SendsAreCounted
PROPERTY ConfirmedForGood
CHECK_DEADLOCK FALSE
