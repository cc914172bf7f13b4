\* Answers are lost, saves fail, the process crashes: what still holds, and ends.
SPECIFICATION FairSpec
CONSTANTS
    Calls = {c1, c2}
    Wallets = {w1}
    Tools = {"payment", "swap_native", "swap_erc20", "x402"}
    MaxAmount = 2
    Limit = 2
    TxCeiling = 1
    MaxDay = 1
    DiskMayFail = TRUE
    Faults = {"lost_answer", "unread_challenge"}
    MaxCrashes = 1
PROPERTIES EveryCallReturns RevertedIsReleased
CHECK_DEADLOCK FALSE
