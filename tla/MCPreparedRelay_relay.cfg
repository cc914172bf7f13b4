\* Two requests over two records in a store of one, in every configuration,
\* with lost answers, writes that fail and a crash.
SPECIFICATION Spec
CONSTANTS
    Ids = {i1, i2}
    Requests = {r1, r2}
    Txs = {t1, t2}
    MaxRecords = 1
    MaxOpen = 2
    Modes = {"off", "elsewhere", "unattested", "misconfigured", "sync", "async"}
    Differences = {"hash", "no_to", "value"}
    Faults = {"lost_answer", "disk"}
    MaxCrashes = 1
SYMMETRY RelaySymmetry
INVARIANTS OneRelayUnlessRaced RelayedAsPreparedUnlessCreation AttestsOnlyTheRelayed StoreBounded
PROPERTY MarkIsForGood
CHECK_DEADLOCK FALSE
