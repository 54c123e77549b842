SPECIFICATION RefundFairSpec
CONSTANTS
    r1 = r1
    r2 = r2
    r3 = r3
    Refunds = {r1, r2, r3}
    Amount <- MCAmount
    Total = 3
INVARIANTS
    RollUpExact
    AcknowledgedIsRecorded
PROPERTIES
    RefundsConverge
CHECK_DEADLOCK FALSE
