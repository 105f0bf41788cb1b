SPECIFICATION Spec
CONSTANTS
    Keys = {k1}
    MaxRequests = 1
    Dispatchers = {d1, d2}
    NoReply = NoReply
    BatchSize = 2
    Faults = {"unconfirmed"}
    MaxFaults = 1
INVARIANT DispatchedWasPublished
\* The system rests when every row is dispatched.
CHECK_DEADLOCK FALSE
