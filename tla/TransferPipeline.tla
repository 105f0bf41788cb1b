-------------------------- MODULE TransferPipeline --------------------------
(***************************************************************************)
(* A transfer from the API request to the chain: TransferOutbox writes and  *)
(* publishes it, TransferProcessing consumes it. Worker processes run an    *)
(* outbox dispatcher and a transfer consumer each (worker.go), so the crash *)
(* of a process takes both. The two meet at the broker: what the dispatcher *)
(* publishes is what the consumer's queue holds.                            *)
(*                                                                          *)
(* The failures that are known to lose a job are constants the run of this  *)
(* module does not choose: a shutdown, a failing database or Redis while an *)
(* error is being settled, a lost key, and a publish the broker never gets. *)
(* ShutdownLosesJob and OutboxUnconfirmed show what they do, and            *)
(* ProcessingSafety has all of them.                                        *)
(***************************************************************************)
EXTENDS Naturals, Sequences, FiniteSets

CONSTANTS
    Keys,              \* idempotency keys
    MaxRequests,       \* bound: requests per key
    Processes,         \* worker processes
    NoReply, NoWorker, NoTransfer, NoHash,
    BatchSize,         \* TRANSFER_OUTBOX_BATCH_SIZE
    MaxRetries,        \* TRANSFER_MAX_RETRIES
    DispatchFaults,    \* failures of the dispatchers that may happen
    MaxDispatchFaults, \* bound: how many of them
    ConsumeFaults,     \* failures of the consumers that may happen
    MaxConsumeFaults   \* bound: how many of them

VARIABLES
    \* of the API and the dispatchers
    transfers, reply, rowStatus, attemptCount, due, locked, delivered,
    point, batch, event, dispatchFaults,
    \* of the broker, the chain and the consumers
    status, txHash, history, attempts, lock, queue, published, sent,
    pc, job, loc, att, err, ctx, held, faults

Requests == Keys \X (1..MaxRequests)

Outbox == INSTANCE TransferOutbox WITH
    Dispatchers <- Processes,
    Faults <- DispatchFaults,
    MaxFaults <- MaxDispatchFaults,
    status <- rowStatus,
    pc <- point,
    faults <- dispatchFaults

\* An event is published once, and once more for every failure at most: the
\* consumer's bound on copies is no restriction.
Consumer == INSTANCE TransferProcessing WITH
    Transfers <- Requests,
    Workers <- Processes,
    MaxCopies <- MaxDispatchFaults + 1,
    Faults <- ConsumeFaults,
    MaxFaults <- MaxConsumeFaults

\* What the two components assume of their constants.
ASSUME PipelineAssumption ==
    /\ MaxRequests \in Nat
    /\ BatchSize \in Nat \ {0}
    /\ MaxRetries \in Nat
    /\ NoReply \notin Requests /\ NoHash \notin Requests /\ NoTransfer \notin Requests
    /\ NoWorker \notin Processes
    /\ MaxDispatchFaults \in Nat /\ DispatchFaults \subseteq Outbox!FaultKinds
    /\ MaxConsumeFaults \in Nat /\ ConsumeFaults \subseteq Consumer!FaultKinds

outboxVars == <<transfers, reply, rowStatus, attemptCount, due, locked,
                delivered, point, batch, event, dispatchFaults>>
consumerVars == <<status, txHash, history, attempts, lock, queue, published,
                  sent, pc, job, loc, att, err, ctx, held, faults>>
vars == <<outboxVars, consumerVars>>

-----------------------------------------------------------------------------

\* PublishTransferRequested: the event's job goes through the exchange to the
\* queue, unless the publish failed on the way.
Publish(p) ==
    /\ Outbox!PublishEvent(p)
    /\ LET t == event'[p].id
       IN  \/ t \in delivered' /\ Consumer!PublishTransferRequested(t)
           \/ /\ dispatchFaults' # dispatchFaults
              /\ delivered' = delivered
              /\ UNCHANGED consumerVars

\* The dispatcher's other steps.
Dispatch(p) ==
    /\ \/ Outbox!ClaimPendingOutbox(p)
       \/ Outbox!MarkOutboxDispatched(p)
       \/ Outbox!MarkOutboxRetry(p)
    /\ UNCHANGED consumerVars

Consume(p) == Consumer!WorkerStep(p) /\ UNCHANGED outboxVars

\* What happens to one of the two loops of p, or to what they depend on.
Trouble(p) ==
    \/ Outbox!MarkFails(p) /\ UNCHANGED consumerVars
    \/ /\ \/ \E j \in Consumer!Jobs : Consumer!AcquireFails(p, j)
          \/ Consumer!SignerFails(p)
          \/ Consumer!HeartbeatFails(p)
          \/ Consumer!ConnectionLost(p)
       /\ UNCHANGED outboxVars

\* The process dies, with its dispatcher and its consumer.
Crash(p) ==
    \/ Outbox!Crash(p) /\ Consumer!Crash(p)
    \/ Outbox!Crash(p) /\ pc[p] = "idle" /\ UNCHANGED consumerVars
    \/ point[p] = "poll" /\ Consumer!Crash(p) /\ UNCHANGED outboxVars

\* The API inserts, the outbox's clocks run.
Row(r) ==
    /\ Outbox!Create(r) \/ Outbox!BecomesDue(r) \/ Outbox!BecomesStale(r)
    /\ UNCHANGED consumerVars

Lock(t) ==
    /\ Consumer!LockExpires(t) \/ Consumer!LockLost(t)
    /\ UNCHANGED outboxVars

Init == Outbox!Init /\ Consumer!Init

Next ==
    \/ \E p \in Processes :
            Publish(p) \/ Dispatch(p) \/ Consume(p) \/ Trouble(p) \/ Crash(p)
    \/ \E r \in Requests : Row(r) \/ Lock(r)

Spec == Init /\ [][Next]_vars

\* Both loops of a process keep running, time passes, and a key that nobody
\* refreshes expires.
FairSpec ==
    /\ Spec
    /\ \A p \in Processes : WF_vars(Publish(p) \/ Dispatch(p)) /\ WF_vars(Consume(p))
    /\ \A r \in Requests :
        /\ WF_vars(Outbox!BecomesDue(r) /\ UNCHANGED consumerVars)
        /\ WF_vars(Outbox!BecomesStale(r) /\ UNCHANGED consumerVars)
        /\ WF_vars(Consumer!LockExpires(r) /\ UNCHANGED outboxVars)

-----------------------------------------------------------------------------
(* Properties *)

Unsettled(t) == status[t] \notin Consumer!Settled

(* Responsibility for a committed transfer is handed over, never dropped:     *)
(* until the transfer is settled, its outbox row will be published again or a *)
(* copy of its job is queued or unacknowledged. The dispatcher gives the row  *)
(* up after the publish, in another transaction, and the consumer may be done *)
(* with the first copy, or with all of them, before that.                     *)
NotStranded ==
    \A t \in transfers :
        Unsettled(t) => rowStatus[t] # "DISPATCHED" \/ Consumer!JobAlive(t)

(* Workers only ever see jobs of committed transfers, and a transfer that has *)
(* not been committed has not moved: the transfer-not-found branch of the     *)
(* consumer is dead as long as only the outbox publishes.                     *)
OnlyCommittedJobs ==
    \A t \in Requests :
        Consumer!JobAlive(t) \/ status[t] # "CREATED" => t \in transfers

(* A published job outlives every failure of the consumers until its transfer *)
(* is settled: handleDelivery and retryJob acknowledge on many paths, and     *)
(* each must have settled the transfer or left another copy.                  *)
JobNotLost == Consumer!JobNotLost

(* Every transfer the API commits is eventually pending on chain or failed,   *)
(* whatever publishes, marks, broadcasts, connections and processes fail on   *)
(* the way, though the outbox publishes it more than once.                    *)
CommittedSettles ==
    \A r \in Requests : r \in transfers ~> status[r] \in Consumer!Settled
=============================================================================
