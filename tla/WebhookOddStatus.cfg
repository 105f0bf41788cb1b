SPECIFICATION Spec
CONSTANTS
    Events = {e1}
    Workers = {w1, w2}
    NoDelivery = NoDelivery
    MaxAttempts = 2
    InitialBackoff = 1
    LeaseDuration = 1
    BatchSize = 2
    Faults <- ReceiverFaults
    MaxFaults = 2
INVARIANT MaxAttemptsCapsSends
\* The system rests when every delivery is final.
CHECK_DEADLOCK FALSE
