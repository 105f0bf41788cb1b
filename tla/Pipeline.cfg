SPECIFICATION FairSpec
CONSTANTS
    Keys = {k1}
    MaxRequests = 1
    Processes = {p1, p2}
    NoReply = NoReply
    NoWorker = NoWorker
    NoTransfer = NoTransfer
    NoHash = NoHash
    BatchSize = 1
    MaxRetries = 1
    DispatchFaults = {"crash", "db", "broker", "slow"}
    MaxDispatchFaults = 1
    ConsumeFaults = {"crash", "signer", "broadcast", "broker", "conn"}
    MaxConsumeFaults = 2
INVARIANTS NotStranded OnlyCommittedJobs JobNotLost
PROPERTY CommittedSettles
\* The system rests when every transfer is settled.
CHECK_DEADLOCK FALSE
