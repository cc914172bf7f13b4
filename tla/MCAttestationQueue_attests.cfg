\* One process, a sweep beside first attempts, one throw or restart: what is
\* handed over is attested.
SPECIFICATION FairSpec
CONSTANTS
    Txs = {t1, t2}
    Hashes = {h1, h2}
    Procs = {"api"}
    Sweeps = {s1}
    MaxAttempts = 3
    MaxActive = 2
    MaxWrites = 6
    MaxTroubles = 1
PROPERTY UniqueAttestedEventually
CHECK_DEADLOCK FALSE
