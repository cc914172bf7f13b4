\* Every tool, three calls, a midnight and a crash, an outside without faults.
SPECIFICATION Spec
CONSTANTS
    Calls = {c1, c2, c3}
    Wallets = {w1}
    Tools = {"payment", "swap_erc20", "x402"}
    MaxAmount = 2
    Limit = 2
    TxCeiling = 1
    MaxDay = 2
    DiskMayFail = FALSE
    Faults = {}
    MaxCrashes = 1
SYMMETRY CallSymmetry
INVARIANTS BucketWithinLimit BooksBalance LandedIsHeld CapUpToLateReleases AllowanceIsOneSwap
PROPERTY KeepsBudget
CHECK_DEADLOCK FALSE
