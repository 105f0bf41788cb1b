SPECIFICATION Spec
CONSTANTS
    Transfers = {t1}
    Workers = {w1, w2}
    NoWorker = NoWorker
    NoTransfer = NoTransfer
    NoHash = NoHash
    MaxRetries = 1
    MaxCopies = 1
    Faults = {"shutdown"}
    MaxFaults = 1
INVARIANT JobNotLost
\* The system stops when every job has been handled.
CHECK_DEADLOCK FALSE
