\* Two requests at once for one record.
SPECIFICATION Spec
CONSTANTS
    Ids = {i1}
    Requests = {r1, r2}
    Txs = {t1, t2}
    MaxRecords = 1
    MaxOpen = 2
    Modes = {"async"}
    Differences = {}
    Faults = {}
    MaxCrashes = 0
INVARIANT OneRelayPerRecord
CHECK_DEADLOCK FALSE
