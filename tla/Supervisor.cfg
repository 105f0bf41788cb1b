SPECIFICATION FairSpec
CONSTANTS
    Subsystems <- WorkerSubsystems
    Consumers <- BrokerConsumers
    NoSubsystem = NoSubsystem
    MaxFailures = 4
    InitialBackoff = 1
    MaxBackoff = 3
INVARIANTS TypeOK BackoffMatchesFailures OkMeansAlive FailuresIsolated
PROPERTIES Drains FatalExits ConnectionLossExits
\* A worker that has returned does nothing more.
CHECK_DEADLOCK FALSE
