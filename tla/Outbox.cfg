SPECIFICATION FairSpec
CONSTANTS
    Keys = {k1, k2}
    MaxRequests = 2
    Dispatchers = {d1, d2}
    NoReply = NoReply
    BatchSize = 2
    Faults <- ConfirmedFaults
    MaxFaults = 2
INVARIANTS TypeOK IdempotentCreate RowsRecoverable DispatchedWasPublished
PROPERTIES NoStaleUndo EventuallyDispatched
\* The system rests when every row is dispatched.
CHECK_DEADLOCK FALSE
