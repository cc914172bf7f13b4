\* A reservation released after midnight, on one day's budget.
SPECIFICATION Spec
CONSTANTS
    Calls = {c1, c2, c3}
    Wallets = {w1}
    Tools = {"payment"}
    MaxAmount = 1
    Limit = 1
    TxCeiling = 1
    MaxDay = 2
    DiskMayFail = FALSE
    Faults = {}
    MaxCrashes = 0
SYMMETRY CallSymmetry
INVARIANT DailyCapHolds
CHECK_DEADLOCK FALSE
