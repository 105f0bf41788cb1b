SPECIFICATION Spec
CONSTANTS
    Transfers = {t1}
    Workers = {w1, w2}
    NoWorker = NoWorker
    NoTransfer = NoTransfer
    NoHash = NoHash
    MaxRetries = 1
    MaxCopies = 2
    Faults = {"crash", "shutdown", "lock", "redis", "db", "signer",
              "broadcast", "broker", "unconfirmed", "conn"}
    MaxFaults = 3
SYMMETRY WorkerSymmetry
INVARIANTS
    TypeOK SubmissionEvidence OneTransaction
    ExclusiveProcessing InfrastructureNeverFailsTransfer
PROPERTIES NoRegression ImplementsLifecycle
\* The system stops when every job has been handled.
CHECK_DEADLOCK FALSE
