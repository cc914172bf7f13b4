\* Every tool through every door, any confirmation, evidence that changes
\* between two attempts.
SPECIFICATION Spec
CONSTANTS
    AllowUnlimited = TRUE
    Tools = {"send_payment", "approve_token", "execute_swap", "x402_pay_and_fetch"}
    Doors = {"direct", "safe_execute", "preflight_check"}
    MaxAttempts = 2
INVARIANTS SignedPassedTheGate EvidenceNeverWeakens VerdictIsHonoured
CHECK_DEADLOCK FALSE
