----------------------- MODULE TransferPipelineProofs -----------------------
(***************************************************************************)
(* The pipeline runs its two components: every step of it is a step of the  *)
(* outbox, of the consumers, or of both. So the theorems about each of them *)
(* hold of the whole, and what is left to prove is that what one hands over *)
(* is what the other is given.                                              *)
(***************************************************************************)
EXTENDS TransferPipeline, TLAPS

O == INSTANCE TransferOutboxProofs WITH
    Dispatchers <- Processes,
    Faults <- DispatchFaults,
    MaxFaults <- MaxDispatchFaults,
    status <- rowStatus,
    pc <- point,
    faults <- dispatchFaults

C == INSTANCE TransferProcessingProofs WITH
    Transfers <- Requests,
    Workers <- Processes,
    MaxCopies <- MaxDispatchFaults + 1,
    Faults <- ConsumeFaults,
    MaxFaults <- MaxConsumeFaults

-----------------------------------------------------------------------------
(* The outbox *)

(* The pipeline takes steps of the outbox, or leaves it alone. *)
LEMMA RunsOutbox == Spec => Outbox!Spec
  <1>1. Init => Outbox!Init
    BY DEF Init
  <1>2. [Next]_vars => [Outbox!Next]_(Outbox!vars)
    <2> SUFFICES ASSUME Next PROVE Outbox!Next \/ UNCHANGED Outbox!vars
      BY DEF vars, outboxVars, Outbox!vars, Outbox!rowVars, Outbox!dispatcherVars
    <2>u. UNCHANGED outboxVars => UNCHANGED Outbox!vars
      BY DEF outboxVars, Outbox!vars, Outbox!rowVars, Outbox!dispatcherVars
    <2>1. ASSUME NEW p \in Processes,
                 Publish(p) \/ Dispatch(p) \/ Consume(p) \/ Trouble(p) \/ Crash(p)
          PROVE  Outbox!Next \/ UNCHANGED Outbox!vars
      BY <2>u, <2>1 DEF Publish, Dispatch, Consume, Trouble, Crash, Outbox!Next,
                        Outbox!DispatcherStep
    <2>2. ASSUME NEW r \in Requests, Row(r) \/ Lock(r)
          PROVE  Outbox!Next \/ UNCHANGED Outbox!vars
      BY <2>u, <2>2 DEF Row, Lock, Outbox!Next, Outbox!Requests, Requests
    <2> QED
      BY <2>1, <2>2 DEF Next
  <1> QED
    BY <1>1, <1>2, PTL DEF Spec, Outbox!Spec

(* The module's instance of the outbox is the one the theorems are about. *)
LEMMA SameOutbox == Outbox!Spec => O!Spec
  <1>1. Outbox!Init => O!Init
    BY DEF Outbox!Init, O!Init, Outbox!Requests, O!Requests, Outbox!NoEvent,
        O!NoEvent
  <1>2. \A x : Outbox!Create(x) => O!Create(x)
    BY DEF Outbox!Create, O!Create, Outbox!Existing, O!Existing,
        Outbox!InsertTransfer, O!InsertTransfer, Outbox!rowVars, O!rowVars,
        Outbox!Fault, O!Fault, Outbox!dispatcherVars, O!dispatcherVars
  <1>3. \A x : Outbox!BecomesDue(x) => O!BecomesDue(x)
    BY DEF Outbox!BecomesDue, O!BecomesDue, Outbox!dispatcherVars,
        O!dispatcherVars
  <1>4. \A x : Outbox!BecomesStale(x) => O!BecomesStale(x)
    BY DEF Outbox!BecomesStale, O!BecomesStale, Outbox!InHand, O!InHand,
        Outbox!Fault, O!Fault, Outbox!dispatcherVars, O!dispatcherVars
  <1>c. \A S : Outbox!Cardinality(S) = O!Cardinality(S)
    BY Zenon DEF Outbox!Cardinality, O!Cardinality
  <1>5. \A x : Outbox!ClaimPendingOutbox(x) => O!ClaimPendingOutbox(x)
    BY <1>c DEF Outbox!ClaimPendingOutbox, O!ClaimPendingOutbox, Outbox!Claimable,
        O!Claimable, Outbox!Requests, O!Requests
  <1>6. \A x : Outbox!PublishEvent(x) => O!PublishEvent(x)
    BY DEF Outbox!PublishEvent, O!PublishEvent, Outbox!Fault, O!Fault,
        Outbox!rowVars, O!rowVars
  <1>7. \A x : Outbox!MarkOutboxDispatched(x) => O!MarkOutboxDispatched(x)
    BY DEF Outbox!MarkOutboxDispatched, O!MarkOutboxDispatched, Outbox!GREATEST,
        O!GREATEST, Outbox!NextEvent, O!NextEvent, Outbox!NoEvent, O!NoEvent
  <1>8. \A x : Outbox!MarkOutboxRetry(x) => O!MarkOutboxRetry(x)
    BY DEF Outbox!MarkOutboxRetry, O!MarkOutboxRetry, Outbox!GREATEST,
        O!GREATEST, Outbox!rowVars, O!rowVars, Outbox!NextEvent, O!NextEvent,
        Outbox!NoEvent, O!NoEvent
  <1>9. \A x : Outbox!MarkFails(x) => O!MarkFails(x)
    BY DEF Outbox!MarkFails, O!MarkFails, Outbox!Fault, O!Fault,
        Outbox!NextEvent, O!NextEvent, Outbox!rowVars, O!rowVars,
        Outbox!NoEvent, O!NoEvent
  <1>10. \A x : Outbox!Crash(x) => O!Crash(x)
    BY DEF Outbox!Crash, O!Crash, Outbox!Fault, O!Fault, Outbox!NoEvent,
        O!NoEvent, Outbox!rowVars, O!rowVars
  <1>11. UNCHANGED Outbox!vars => UNCHANGED O!vars
    BY DEF Outbox!vars, O!vars, Outbox!rowVars, O!rowVars, Outbox!dispatcherVars,
        O!dispatcherVars
  <1>12. Outbox!Requests = O!Requests
    BY DEF Outbox!Requests, O!Requests
  <1>13. Outbox!Next => O!Next
    BY <1>2, <1>3, <1>4, <1>5, <1>6, <1>7, <1>8, <1>9, <1>10, <1>12, Zenon
    DEF Outbox!Next, O!Next, Outbox!DispatcherStep, O!DispatcherStep
  <1>14. [Outbox!Next]_(Outbox!vars) => [O!Next]_(O!vars)
    BY <1>11, <1>13
  <1> QED
    BY <1>1, <1>14, PTL DEF Outbox!Spec, O!Spec

(* What was proved of the outbox holds of the pipeline's. *)
LEMMA OutboxHolds == Spec => []O!OutboxInv /\ []O!PublishedInv /\ []O!JobsCommitted
  <1>a. /\ MaxRequests \in Nat
        /\ BatchSize \in Nat \ {0}
        /\ MaxDispatchFaults \in Nat
        /\ NoReply \notin O!Requests
        /\ DispatchFaults \subseteq O!FaultKinds
    BY PipelineAssumption DEF Requests, O!Requests, Outbox!FaultKinds, O!FaultKinds
  <1>1. O!Spec => [](O!OutboxInv /\ O!PublishedInv)
    BY <1>a, O!OutboxAlways
  <1>2. O!Spec => []O!JobsCommitted
    BY <1>a, O!CommittedAlways
  <1> QED
    BY <1>1, <1>2, RunsOutbox, SameOutbox, PTL

-----------------------------------------------------------------------------
(* The consumers *)

(* The module's instance of the consumers is the one the theorems are about. *)
LEMMA SameConsumers == Consumer!Spec => C!Spec
  <1>1. Consumer!Init => C!Init
    BY DEF Consumer!Init, C!Init, Consumer!Jobs, C!Jobs, Consumer!NoJob, C!NoJob
  <1>2. \A x, j : Consumer!HandleDelivery(x, j) => C!HandleDelivery(x, j)
    BY DEF Consumer!HandleDelivery, C!HandleDelivery, Consumer!Goto, C!Goto,
        Consumer!dbVars, C!dbVars
  <1>3. \A x, j : Consumer!AcquireFails(x, j) => C!AcquireFails(x, j)
    BY DEF Consumer!AcquireFails, C!AcquireFails, Consumer!Fault, C!Fault,
        Consumer!dbVars, C!dbVars, Consumer!localVars, C!localVars,
        Consumer!Remembered, C!Remembered
  <1>4. \A x : Consumer!GetByID(x) => C!GetByID(x)
    BY DEF Consumer!GetByID, C!GetByID, Consumer!Replies, C!Replies,
        Consumer!Settled, C!Settled, Consumer!Return, C!Return, Consumer!Goto,
        C!Goto, Consumer!Errors, C!Errors, Consumer!Fails, C!Fails,
        Consumer!dbVars, C!dbVars, Consumer!Fault, C!Fault,
        Consumer!Remembered, C!Remembered
  <1>5. \A x : Consumer!Advance(x) => C!Advance(x)
    BY DEF Consumer!Advance, C!Advance, Consumer!Successor, C!Successor,
        Consumer!Errors, C!Errors, Consumer!TransitionStatus,
        C!TransitionStatus, Consumer!Return, C!Return, Consumer!Replies,
        C!Replies, Consumer!Fails, C!Fails, Consumer!Goto, C!Goto,
        Consumer!Fault, C!Fault, Consumer!Remembered, C!Remembered
  <1>6. \A x : Consumer!GetLatestAttempt(x) => C!GetLatestAttempt(x)
    BY DEF Consumer!GetLatestAttempt, C!GetLatestAttempt, Consumer!Replies,
        C!Replies, Consumer!Goto, C!Goto, Consumer!ResumePoint, C!ResumePoint,
        Consumer!Errors, C!Errors, Consumer!Fails, C!Fails, Consumer!Return,
        C!Return, Consumer!dbVars, C!dbVars, Consumer!Fault, C!Fault,
        Consumer!Remembered, C!Remembered
  <1>7. \A x : Consumer!CreateAttemptAndSubmit(x) => C!CreateAttemptAndSubmit(x)
    BY DEF Consumer!CreateAttemptAndSubmit, C!CreateAttemptAndSubmit,
        Consumer!Errors, C!Errors, Consumer!CreateAttempt, C!CreateAttempt,
        Consumer!SignTransfer, C!SignTransfer, Consumer!Goto, C!Goto,
        Consumer!Return, C!Return, Consumer!AttemptConflicts,
        C!AttemptConflicts, Consumer!Replies, C!Replies, Consumer!Fails,
        C!Fails, Consumer!Fault, C!Fault, Consumer!Remembered, C!Remembered
  <1>8. \A x : Consumer!ResumeSubmission(x) => C!ResumeSubmission(x)
    BY DEF Consumer!ResumeSubmission, C!ResumeSubmission, Consumer!Errors,
        C!Errors, Consumer!UpdateAttempt, C!UpdateAttempt, Consumer!Goto,
        C!Goto, Consumer!Return, C!Return, Consumer!Replies, C!Replies,
        Consumer!Fails, C!Fails, Consumer!Fault, C!Fault, Consumer!Remembered,
        C!Remembered
  <1>9. \A x : Consumer!BroadcastTransfer(x) => C!BroadcastTransfer(x)
    BY DEF Consumer!BroadcastTransfer, C!BroadcastTransfer, Consumer!Goto,
        C!Goto, Consumer!Fault, C!Fault, Consumer!dbVars, C!dbVars,
        Consumer!Remembered, C!Remembered
  <1>10. \A x : Consumer!RecordBroadcast(x) => C!RecordBroadcast(x)
    BY DEF Consumer!RecordBroadcast, C!RecordBroadcast, Consumer!Errors,
        C!Errors, Consumer!UpdateAttempt, C!UpdateAttempt,
        Consumer!AfterBroadcast, C!AfterBroadcast, Consumer!Goto, C!Goto,
        Consumer!Return, C!Return, Consumer!Replies, C!Replies,
        Consumer!Fails, C!Fails, Consumer!Fault, C!Fault, Consumer!Remembered,
        C!Remembered
  <1>11. \A x : Consumer!SubmitBroadcastedAttempt(x) => C!SubmitBroadcastedAttempt(x)
    BY DEF Consumer!SubmitBroadcastedAttempt, C!SubmitBroadcastedAttempt,
        Consumer!Errors, C!Errors, Consumer!TransitionStatus,
        C!TransitionStatus, Consumer!Goto, C!Goto, Consumer!Return, C!Return,
        Consumer!Replies, C!Replies, Consumer!Fails, C!Fails, Consumer!Fault,
        C!Fault, Consumer!Remembered, C!Remembered
  <1>12. \A x : Consumer!Finish(x) => C!Finish(x)
    BY DEF Consumer!Finish, C!Finish, Consumer!Goto, C!Goto, Consumer!dbVars,
        C!dbVars
  <1>13. \A x : Consumer!RetryJob(x) => C!RetryJob(x)
    BY DEF Consumer!RetryJob, C!RetryJob, Consumer!Goto, C!Goto,
        Consumer!Enqueue, C!Enqueue, Consumer!Fault, C!Fault, Consumer!dbVars,
        C!dbVars, Consumer!Remembered, C!Remembered
  <1>14. \A x : Consumer!FailTransferGet(x) => C!FailTransferGet(x)
    BY DEF Consumer!FailTransferGet, C!FailTransferGet, Consumer!Replies,
        C!Replies, Consumer!Goto, C!Goto, Consumer!Settled, C!Settled,
        Consumer!Errors, C!Errors, Consumer!Fails, C!Fails, Consumer!dbVars,
        C!dbVars, Consumer!Fault, C!Fault, Consumer!Remembered, C!Remembered
  <1>15. \A x : Consumer!FailTransferSet(x) => C!FailTransferSet(x)
    BY DEF Consumer!FailTransferSet, C!FailTransferSet, Consumer!Errors,
        C!Errors, Consumer!TransitionStatus, C!TransitionStatus,
        Consumer!Goto, C!Goto, Consumer!Replies, C!Replies, Consumer!Fails,
        C!Fails, Consumer!Fault, C!Fault, Consumer!Remembered, C!Remembered
  <1>16. \A x : Consumer!Ack(x) => C!Ack(x)
    BY DEF Consumer!Ack, C!Ack, Consumer!Goto, C!Goto, Consumer!dbVars, C!dbVars
  <1>17. \A x : Consumer!Release(x) => C!Release(x)
    BY DEF Consumer!Release, C!Release, Consumer!Fault, C!Fault, Consumer!Idle,
        C!Idle, Consumer!dbVars, C!dbVars, Consumer!Remembered, C!Remembered,
        Consumer!NoJob, C!NoJob, Consumer!Enqueue, C!Enqueue
  <1>18. \A x : Consumer!SignerFails(x) => C!SignerFails(x)
    BY DEF Consumer!SignerFails, C!SignerFails, Consumer!Fault, C!Fault,
        Consumer!Return, C!Return, Consumer!dbVars, C!dbVars,
        Consumer!Remembered, C!Remembered, Consumer!Goto, C!Goto
  <1>19. \A x : Consumer!HeartbeatFails(x) => C!HeartbeatFails(x)
    BY DEF Consumer!HeartbeatFails, C!HeartbeatFails, Consumer!Processing,
        C!Processing, Consumer!Fault, C!Fault, Consumer!dbVars, C!dbVars,
        Consumer!Remembered, C!Remembered
  <1>20. \A x : Consumer!Shutdown(x) => C!Shutdown(x)
    BY DEF Consumer!Shutdown, C!Shutdown, Consumer!Fault, C!Fault,
        Consumer!dbVars, C!dbVars, Consumer!Remembered, C!Remembered
  <1>21. \A x : Consumer!Crash(x) => C!Crash(x)
    BY DEF Consumer!Crash, C!Crash, Consumer!Fault, C!Fault, Consumer!Idle,
        C!Idle, Consumer!dbVars, C!dbVars, Consumer!Remembered, C!Remembered,
        Consumer!NoJob, C!NoJob, Consumer!Enqueue, C!Enqueue
  <1>22. \A x : Consumer!ConnectionLost(x) => C!ConnectionLost(x)
    BY DEF Consumer!ConnectionLost, C!ConnectionLost, Consumer!Fault, C!Fault,
        Consumer!Enqueue, C!Enqueue, Consumer!dbVars, C!dbVars,
        Consumer!Remembered, C!Remembered
  <1>23. \A x : Consumer!PublishTransferRequested(x) => C!PublishTransferRequested(x)
    BY DEF Consumer!PublishTransferRequested, C!PublishTransferRequested,
        Consumer!Enqueue, C!Enqueue, Consumer!dbVars, C!dbVars,
        Consumer!localVars, C!localVars
  <1>24. \A x : Consumer!LockExpires(x) => C!LockExpires(x)
    BY DEF Consumer!LockExpires, C!LockExpires, Consumer!Heartbeats,
        C!Heartbeats, Consumer!dbVars, C!dbVars, Consumer!localVars,
        C!localVars, Consumer!Processing, C!Processing
  <1>25. \A x : Consumer!LockLost(x) => C!LockLost(x)
    BY DEF Consumer!LockLost, C!LockLost, Consumer!Heartbeats, C!Heartbeats,
        Consumer!Fault, C!Fault, Consumer!dbVars, C!dbVars,
        Consumer!localVars, C!localVars, Consumer!Processing, C!Processing,
        Consumer!Remembered, C!Remembered
  <1>u. UNCHANGED Consumer!vars => UNCHANGED C!vars
    BY DEF Consumer!vars, C!vars, Consumer!dbVars, C!dbVars, Consumer!localVars,
        C!localVars
  <1>n. Consumer!Next => C!Next
    BY <1>2, <1>3, <1>4, <1>5, <1>6, <1>7, <1>8, <1>9, <1>10,
        <1>11, <1>12, <1>13, <1>14, <1>15, <1>16, <1>17, <1>18,
        <1>19, <1>20, <1>21, <1>22, <1>23, <1>24, <1>25, Zenon
    DEF Consumer!Next, C!Next, Consumer!WorkerStep, C!WorkerStep,
        Consumer!WorkerEvent, C!WorkerEvent, Consumer!Jobs, C!Jobs
  <1>v. [Consumer!Next]_(Consumer!vars) => [C!Next]_(C!vars)
    BY <1>u, <1>n
  <1> QED
    BY <1>1, <1>v, PTL DEF Consumer!Spec, C!Spec

(* A dispatcher publishes the job of a committed transfer. *)
LEMMA PublishesRequests ==
    ASSUME O!OutboxInv, NEW p \in Processes, Publish(p)
    PROVE  /\ event'[p].id \in transfers
           /\ event'[p].id \in Requests
           /\ delivered' \in {delivered, delivered \cup {event'[p].id}}
           /\ UNCHANGED transfers
  <1>1. /\ O!TypeOK
        /\ \A e \in batch[p] : e.id \in transfers
    BY DEF O!OutboxInv, O!ClaimsFounded
  <1>2. transfers \subseteq Requests /\ DOMAIN event = Processes
    BY <1>1 DEF O!TypeOK, O!Requests, Requests
  <1>3. PICK e \in batch[p] :
            /\ event' = [event EXCEPT ![p] = e]
            /\ delivered' \in {delivered, delivered \cup {e.id}}
    BY DEF Publish, Outbox!PublishEvent
  <1>4. event'[p] = e
    BY <1>2, <1>3
  <1> QED
    BY <1>1, <1>2, <1>3, <1>4 DEF Publish, Outbox!PublishEvent

(* The pipeline takes steps of the consumers, or leaves them alone: it        *)
(* publishes jobs of requests only.                                           *)
LEMMA RunsConsumers == Spec => Consumer!Spec
  <1>1. Init => Consumer!Init
    BY DEF Init
  <1>2. O!OutboxInv /\ [Next]_vars => [Consumer!Next]_(Consumer!vars)
    <2>u. UNCHANGED consumerVars => UNCHANGED Consumer!vars
      BY DEF consumerVars, Consumer!vars, Consumer!dbVars, Consumer!localVars
    <2> SUFFICES ASSUME O!OutboxInv, Next
                 PROVE  Consumer!Next \/ UNCHANGED Consumer!vars
      BY <2>u DEF vars
    <2>1. ASSUME NEW p \in Processes, Publish(p)
          PROVE  Consumer!Next \/ UNCHANGED Consumer!vars
      BY <2>u, <2>1, PublishesRequests DEF Publish, Consumer!Next
    <2>2. ASSUME NEW p \in Processes, Dispatch(p) \/ Consume(p) \/ Crash(p)
          PROVE  Consumer!Next \/ UNCHANGED Consumer!vars
      BY <2>u, <2>2 DEF Dispatch, Consume, Crash, Consumer!Next, Consumer!WorkerEvent
    <2>3. ASSUME NEW p \in Processes, Trouble(p)
          PROVE  Consumer!Next \/ UNCHANGED Consumer!vars
      BY <2>u, <2>3 DEF Trouble, Consumer!Next, Consumer!WorkerEvent
    <2>4. ASSUME NEW r \in Requests, Row(r) \/ Lock(r)
          PROVE  Consumer!Next \/ UNCHANGED Consumer!vars
      BY <2>u, <2>4 DEF Row, Lock, Consumer!Next
    <2> QED
      BY <2>1, <2>2, <2>3, <2>4 DEF Next
  <1> QED
    BY <1>1, <1>2, OutboxHolds, PTL DEF Spec, Consumer!Spec

\* What the theorems about the consumers say of their part of the pipeline.
Founded == \A t \in Requests :
                C!JobAlive(t) \/ status[t] # "CREATED" => published[t] > 0

(* What was proved of the consumers holds of the pipeline's. *)
LEMMA ConsumersHold ==
    Spec => []C!TypeOK /\ []Founded /\ [](C!Reliable => C!JobNotLost)
  <1>a. /\ NoWorker \notin Processes
        /\ NoHash \notin Requests
        /\ NoTransfer \notin Requests
        /\ MaxRetries \in Nat
        /\ MaxDispatchFaults + 1 \in Nat
        /\ MaxConsumeFaults \in Nat
        /\ ConsumeFaults \subseteq C!FaultKinds
    BY PipelineAssumption DEF Consumer!FaultKinds, C!FaultKinds
  <1>1. C!Spec => []C!TypeOK
    BY <1>a, C!TypeCorrect
  <1>2. C!Spec => []Founded
    BY <1>a, C!OnlyPublishedWork DEF Founded
  <1>3. C!Spec => [](C!Reliable => C!JobNotLost)
    BY <1>a, C!JobsSurvive
  <1> QED
    BY <1>1, <1>2, <1>3, RunsConsumers, SameConsumers, PTL

-----------------------------------------------------------------------------
(* The hand-over *)

(* What the dispatchers have delivered is what the consumers were given. *)
HandedOver == \A t \in Requests : published[t] > 0 <=> t \in delivered

(* Nothing was delivered or published. *)
LEMMA HandOverInit == Init => HandedOver
  <1> SUFFICES ASSUME Init PROVE HandedOver
    OBVIOUS
  <1>1. \A t \in Requests : published[t] = 0
    BY DEF Init, Consumer!Init
  <1>2. delivered = {}
    BY DEF Init, Outbox!Init
  <1> QED
    BY <1>1, <1>2 DEF HandedOver

(* Only the publish of a dispatcher touches either. *)
LEMMA HandOverStep ==
    O!OutboxInv /\ C!TypeOK /\ HandedOver /\ [Next]_vars => HandedOver'
  <1> SUFFICES ASSUME O!OutboxInv, C!TypeOK, HandedOver, [Next]_vars
               PROVE  HandedOver'
    OBVIOUS
  <1>u. ASSUME UNCHANGED <<published, delivered>> PROVE HandedOver'
    BY <1>u DEF HandedOver
  <1>1. ASSUME NEW p \in Processes, Publish(p) PROVE HandedOver'
    <2>1. PICK t \in Requests : /\ t = event'[p].id
                                /\ delivered' \in {delivered, delivered \cup {t}}
      BY <1>1, PublishesRequests
    <2>2. CASE t \in delivered' /\ Consumer!PublishTransferRequested(t)
      <3>1. published' = [published EXCEPT ![t] = @ + 1]
        BY <2>2 DEF Consumer!PublishTransferRequested
      <3>2. published \in [Requests -> 0..(MaxDispatchFaults + 1)]
        BY DEF C!TypeOK
      <3>3. /\ published'[t] > 0
            /\ \A u \in Requests : u # t => published'[u] = published[u]
        BY <3>1, <3>2, PipelineAssumption
      <3> QED
        BY <2>1, <2>2, <3>3 DEF HandedOver
    <2>3. CASE delivered' = delivered /\ UNCHANGED consumerVars
      BY <1>u, <2>3 DEF consumerVars
    <2> QED
      BY <1>1, <2>1, <2>2, <2>3 DEF Publish
  <1>2. ASSUME NEW p \in Processes, Dispatch(p) PROVE HandedOver'
    BY <1>u, <1>2 DEF Dispatch, consumerVars, Outbox!ClaimPendingOutbox,
        Outbox!MarkOutboxDispatched, Outbox!MarkOutboxRetry, Outbox!NextEvent
  <1>3. ASSUME NEW p \in Processes, Consume(p) PROVE HandedOver'
    <2>1. UNCHANGED published
      BY <1>3 DEF Consume, Consumer!WorkerStep, Consumer!HandleDelivery,
          Consumer!GetByID, Consumer!Advance, Consumer!GetLatestAttempt,
          Consumer!CreateAttemptAndSubmit, Consumer!ResumeSubmission,
          Consumer!BroadcastTransfer, Consumer!RecordBroadcast,
          Consumer!SubmitBroadcastedAttempt, Consumer!Finish, Consumer!RetryJob,
          Consumer!FailTransferGet, Consumer!FailTransferSet, Consumer!Ack,
          Consumer!Release
    <2> QED
      BY <1>u, <1>3, <2>1 DEF Consume, outboxVars
  <1>4. ASSUME NEW p \in Processes, Trouble(p) \/ Crash(p) PROVE HandedOver'
    <2>1. UNCHANGED published
      BY <1>4 DEF Trouble, Crash, consumerVars, Consumer!AcquireFails,
          Consumer!SignerFails, Consumer!HeartbeatFails, Consumer!ConnectionLost,
          Consumer!Crash
    <2>2. UNCHANGED delivered
      BY <1>4 DEF Trouble, Crash, outboxVars, Outbox!MarkFails, Outbox!NextEvent,
          Outbox!Crash
    <2> QED
      BY <1>u, <2>1, <2>2
  <1>5. ASSUME NEW r \in Requests, Row(r) \/ Lock(r) PROVE HandedOver'
    <2>1. UNCHANGED published
      BY <1>5 DEF Row, Lock, consumerVars, Consumer!LockExpires, Consumer!LockLost
    <2>2. UNCHANGED delivered
      BY <1>5 DEF Row, Lock, outboxVars, Outbox!Create, Outbox!BecomesDue,
          Outbox!BecomesStale
    <2> QED
      BY <1>u, <2>1, <2>2
  <1>6. CASE UNCHANGED vars
    BY <1>u, <1>6 DEF vars, outboxVars, consumerVars
  <1> QED
    BY <1>1, <1>2, <1>3, <1>4, <1>5, <1>6 DEF Next

(* The hand-over is exact throughout. *)
LEMMA HandOverAlways == Spec => []HandedOver
  BY HandOverInit, HandOverStep, OutboxHolds, ConsumersHold, PTL DEF Spec

(* The two instances of the consumers mean the same. *)
LEMMA SameJobs ==
    /\ \A t : Consumer!JobAlive(t) <=> C!JobAlive(t)
    /\ JobNotLost <=> C!JobNotLost
    /\ Consumer!Settled = C!Settled
  <1>1. \A t : Consumer!JobAlive(t) <=> C!JobAlive(t)
    BY DEF Consumer!JobAlive, C!JobAlive, Consumer!Jobs, C!Jobs
  <1>2. Consumer!Settled = C!Settled
    BY DEF Consumer!Settled, C!Settled
  <1> QED
    BY <1>1, <1>2 DEF JobNotLost, Consumer!JobNotLost, C!JobNotLost

-----------------------------------------------------------------------------
(* The theorems *)

\* The failures under which a consumer gives a job up do not happen: nobody is
\* shut down, the database and Redis answer the consumers and the broker keeps
\* the retries they publish.
JobsKept ==
    ConsumeFaults \subseteq {"crash", "signer", "broadcast", "broker", "conn"}

\* Nor does the broker lose what a dispatcher gave it.
Lossless ==
    /\ JobsKept
    /\ "unconfirmed" \notin DispatchFaults

(* A published job outlives crashes, lost connections and failures of the     *)
(* signer, the broadcaster and the broker until its transfer is settled, for  *)
(* any number of processes, requests and failures (handleDelivery, retryJob). *)
THEOREM JobsOutliveFailures == Spec => [](JobsKept => JobNotLost)
  <1>1. (C!Reliable => C!JobNotLost) => (JobsKept => JobNotLost)
    BY SameJobs DEF JobsKept, C!Reliable
  <1> QED
    BY <1>1, ConsumersHold, PTL

(* Until a committed transfer is settled, its outbox row will be published    *)
(* again or a copy of its job is queued or unacknowledged: the dispatcher     *)
(* gives a row up only when the consumers have been given its job, and they   *)
(* keep it.                                                                   *)
THEOREM NeverStranded == Spec => [](Lossless => NotStranded)
  <1>1. ASSUME O!OutboxInv, O!PublishedInv, HandedOver, C!Reliable => C!JobNotLost
        PROVE  Lossless => NotStranded
    <2> SUFFICES ASSUME Lossless, NEW t \in transfers,
                        Unsettled(t), rowStatus[t] = "DISPATCHED"
                 PROVE  Consumer!JobAlive(t)
      BY DEF NotStranded
    <2>1. t \in Requests /\ t \in O!Requests
      BY <1>1 DEF O!OutboxInv, O!TypeOK, O!Requests, Requests
    <2>2. t \in delivered
      BY <1>1, <2>1 DEF O!PublishedInv, Lossless
    <2>3. published[t] > 0
      BY <1>1, <2>1, <2>2 DEF HandedOver
    <2>4. C!JobNotLost
      BY <1>1 DEF Lossless, JobsKept, C!Reliable
    <2> QED
      BY <2>1, <2>3, <2>4, SameJobs DEF C!JobNotLost, Unsettled
  <1> QED
    BY <1>1, OutboxHolds, ConsumersHold, HandOverAlways, PTL

(* Whatever fails: workers only see jobs of committed transfers, and one that *)
(* was not committed has not moved (Create commits the transfer with its      *)
(* outbox row; the consumer's transfer-not-found branch is dead).             *)
THEOREM CommittedOnly == Spec => []OnlyCommittedJobs
  <1>1. ASSUME O!JobsCommitted, HandedOver, Founded PROVE OnlyCommittedJobs
    BY <1>1, SameJobs DEF O!JobsCommitted, HandedOver, Founded, OnlyCommittedJobs
  <1> QED
    BY <1>1, OutboxHolds, ConsumersHold, HandOverAlways, PTL
=============================================================================
