SPECIFICATION FairSpec
CONSTANTS
    Events = {e1, e2}
    Workers = {w1, w2}
    NoDelivery = NoDelivery
    MaxAttempts = 2
    InitialBackoff = 1
    LeaseDuration = 1
    BatchSize = 2
    Faults <- AllFaults
    MaxFaults = 2
INVARIANTS TypeOK RowsConsistent OneOwner DeliveredWasAccepted SendBudget
PROPERTIES NoStaleResult EventuallyFinal
\* The system rests when every delivery is final.
CHECK_DEADLOCK FALSE
