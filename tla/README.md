# Aegis: a TLA+ verification project

Aegis (`src/`) takes requests to move tokens, stores them, and drives each one
through signing and broadcasting until it is pending on chain, telling the
client about it by webhook. This directory holds TLA+ models of the parts that
keep state, the TLC runs that check them on small instances and TLAPS proofs of
the main safety properties for instances of any size. `PROJECT.json` maps every
definition to the lines it models.

## 1. The system

### Components

| Component | Code | State | Operations |
|---|---|---|---|
| Transfer service | `transfers/service.go` | none of its own | create (validate, check the callback target, insert under the idempotency key), get, list |
| Transfer repository | `transfers/postgres_repository.go`, `migrations/` | `transfer_requests`, `transfer_status_history`, `transaction_attempts`, `transfer_outbox` | `Create` (transfer + history + outbox row in one transaction), `TransitionStatus`, `CreateAttempt`, `UpdateAttempt`, `ClaimPendingOutbox`, `MarkOutboxDispatched`, `MarkOutboxRetry` |
| Outbox dispatcher | `transfers/outbox_dispatcher.go`, `publisher.go` | the claimed batch | claim, publish, mark |
| Transfer consumer | `transfers/consumer.go` | the delivery in hand, the heartbeat | lock, process, retry / fail / requeue / acknowledge, release |
| Transfer processor | `transfers/processor.go` | the status and attempt it last saw | the status loop, sign, broadcast, resume, fail |
| Processing lock | `transfers/lock.go` | a Redis key with a token and a time to live | acquire, refresh, release |
| Webhook dispatcher | `webhooks/dispatcher.go`, `target_policy.go` | the connections of a dispatch | check the target, look it up, dial, follow redirects |
| Webhook delivery | `webhooks/` | `webhook_deliveries` (status, attempts, next attempt, lease) | schedule, claim, dispatch, mark delivered / retry / failed |
| Worker supervisor | `app/worker.go` | failure counter, delay, context, error channel | start, restart with backoff, give up, cancel, wait |
| Worker health | `app/worker_health.go` | the tracker of the subsystems | mark, report |
| Reconciliation | `reconciliation/` | `reconciliation_results` | list candidates, check receipts, store verdicts, list the latest mismatches |
| RabbitMQ client | `platform/rabbitmq/` | one connection | publish, consume, status |
| Wallets | `wallets/` | `wallets` | create, get, list |
| Escrow contract | `contracts/src/AegisEscrow.sol` | deposits | deposit, release, refund |
| HTTP API, configuration, bootstrap, health service, EVM client | `transport/`, `config/`, `bootstrap/`, `platform/` | none | routing, reading settings, opening connections, I/O |

### How they interact

The API writes a transfer and an outbox row in one transaction. Dispatchers claim
rows, publish a job to RabbitMQ and mark the row. Consumers take jobs, take the
Redis lock of the transfer, and let the processor move the transfer through
`CREATED -> VALIDATED -> QUEUED -> SIGNING -> SUBMITTED -> PENDING_ON_CHAIN` (or
to `FAILED`); the signed transaction is stored in `transaction_attempts` before
anything is sent. Every status change writes a history row, and the webhook worker
turns the history rows of webhook-eligible statuses into deliveries. The outbox
dispatcher, the consumer and the webhook worker run as goroutines of one worker
process under a supervisor; there may be several such processes. They share only
the database, Redis and the broker. Reconciliation runs in the API process on request, reads the
transfers and appends verdicts; it never writes a transfer. The escrow contract stands by
itself: no service calls it.

### What is hard

* **Several workers on one transfer.** The lock has a time to live, so its owner
  can lose it; jobs are delivered more than once; a retry is a new message.
  Correctness then rests on compare-and-set updates and on two unique indexes.
* **Broadcast, record, advance.** Three separate writes, any of which may fail or
  be followed by a crash; an error does not say whether the write took effect.
* **Acknowledging.** `handleDelivery` acknowledges on many paths; each must have
  settled the transfer or left another copy of the job.
* **Marks that are not fenced** (outbox) and **leases that run out under a worker**
  (webhooks).
* **Cancellation.** The same context governs processing, failing the transfer,
  publishing the retry and releasing the lock.
* **The hand-over.** The outbox gives a transfer up after publishing it, in another
  transaction than the publish; the consumer may have finished, or failed, before that.
* **Snapshots.** A reconciliation run compares statuses it read at its start, while workers
  move the transfers and another run may overlap.
* **Names.** The address behind a callback's name may change between any two lookups, and
  each redirect starts over.
* **Control given away.** The escrow contract pays by calling the payee.
* **Supervision.** Failure counters, delays and a tracker that must stay in step;
  a shutdown that must end from every state; a broker connection that nobody reopens.

`PROJECT.json` lists these under `hazards`, each at its line.

### What makes each component correct

* processing: a claim of submission has evidence; one transaction for a transfer;
  statuses only move forward; no job is lost; transfers settle; the loss of
  infrastructure alone fails nothing;
* lock: two live workers never process one transfer, as long as keys are not lost;
* outbox: one transfer for an idempotency key; rows stay claimable; marks undo
  nothing; DISPATCHED means published; every row is dispatched;
* webhooks: one owner of a lease; results are fenced; sends stay within the budget;
  DELIVERED means accepted; every event becomes final;
* the whole way: responsibility for a committed transfer is handed over and never
  dropped; every committed transfer settles;
* reconciliation: the mismatch list tells the truth after a run; later runs store later
  statuses; counts are those of the rows;
* callback targets: every connection satisfies the policy; the two copies of the policy
  agree; a dispatch ends;
* escrow: the contract holds what it promises; each deposit is paid once, in full, to the
  right account;
* supervisor: the delays follow the failures; the health report is truthful;
  failures stay isolated; shutdown ends; a fatal subsystem, or the loss of the broker, ends the
  worker.

## 2. The modules

`MC<Module>` extends its module and defines the symmetry set or the values that the
configurations give its constants.

### TransferProcessing

`consumer.go`, `processor.go`, `lock.go` and the repository operations they call. One step is one call
that leaves the process. `pc[w]` is where worker `w` is in `handleDelivery` /
`ProcessTransfer`; `job`, `loc`, `att`, `err`, `ctx` and `held` are the delivery, the
local copy of the transfer's status, the attempt in hand, the pending error, the
processing context and whether the broker still counts the delivery as the worker's.

| Action | Code |
|---|---|
| `PublishTransferRequested` | the dispatcher publishes (environment of this module) |
| `HandleDelivery`, `AcquireFails` | `acquireProcessingLock`, start of the heartbeat |
| `GetByID`, `Advance` | `ProcessTransfer`: the read and the turns of the loop |
| `GetLatestAttempt`, `CreateAttemptAndSubmit`, `SignerFails`, `ResumeSubmission` | `submitTransfer`, `createAttemptAndSubmit`, `resumeLatestAttempt`, `resumeSubmission` |
| `BroadcastTransfer`, `RecordBroadcast` | the two halves of `broadcastAttempt` |
| `SubmitBroadcastedAttempt` | `submitBroadcastedAttempt` |
| `Finish` | the error switch of `handleDelivery` |
| `RetryJob`, `FailTransferGet`, `FailTransferSet`, `Ack`, `Release` | the rest of `handleDelivery` |
| `HeartbeatFails`, `LockExpires`, `LockLost` | `startProcessingLockHeartbeat`, the Redis key |
| `Shutdown`, `Crash`, `ConnectionLost` | cancellation, death, loss of the broker connection |

A failed repository call may or may not have taken effect; a failed broadcast may or
may not have reached the network. A failure of a kind in `Faults` spends one unit of
the budget `MaxFaults`. Cancelled calls cost nothing once the context is cancelled.

`faults` is a record: how many failures have happened and which of the kinds that matter to
a property (`Remembered`) were among them. That lets one run with all kinds of failures state
`ExclusiveProcessing` for the behaviours in which no key was lost and
`InfrastructureNeverFailsTransfer` for those in which nothing else failed.

### TransferLifecycle

What the worker promises, without workers, queues, locks or attempts: the status takes the steps of the
documented path one at a time and is recorded with each, the network accepts a transaction only after
SIGNING, a transfer claims submission only for an accepted transaction, and it ends at
PENDING_ON_CHAIN or FAILED. `TransferProcessing` instantiates it with `accepted <- sent`, the
other variables having the same names, and `ImplementsLifecycle` is its specification: the
attempts, locks, jobs and locals are hidden, every other step is a stutter.

### TransferOutbox

`CreateTransfer`'s insert, `outbox_dispatcher.go` and the outbox statements. A row's
`available_at` and `locked_at` are kept as what the claim query asks of them: is the row
due, is its lock older than the timeout. A dispatcher holds its batch as the rows were
when it claimed them, which is what makes its marks stale.

### TransferPipeline

`TransferOutbox` and `TransferProcessing` composed, as instances that share the broker: the step in
which a dispatcher's publish reaches the queue is `PublishEvent` of the one and
`PublishTransferRequested` of the other at once. A worker process runs one dispatcher and one
consumer, so `Crash` takes both. All other steps are those of one instance with the other
unchanged.

### WebhookDelivery

`webhooks/service.go`, `worker.go`, `dispatcher.go` and `postgres_repository.go`. Leases are
kept as timestamps, since the fence of the marks compares timestamps: that two
claims of a row never carry the same one is checked, not assumed. `Tick` lets time pass
when nothing is due and nobody works; `SlowTick` lets it pass under a worker and
spends the budget.

### CallbackTarget

One callback URL from `CreateTransfer` through one `Dispatch`: `validateCallbackURLTarget` and its
helpers at creation, `validateTarget` before the request, `CheckRedirect` at each redirect and
`dialValidatedTarget` at each connection. A hostname is its labels and the number of final dots,
because `normalizeHostname` takes one dot at a time and the two copies of the policy call it a
different number of times. Every lookup of a name may answer anything. The transport may reuse a
connection it has, in which case nothing is looked up or checked again.

### Reconciliation

`Service.Run`, `compareStatuses`, the placeholder checker and the three statements of the
repository. It extends `TransferLifecycle`: the transfers move under the runs as that specification
allows, which is what the worker was shown to implement. `snap` and `earlier` record
what a run saw and which runs had returned before it, for the properties only. The code does nothing against
overlapping runs, and the one with the older snapshot may store its verdict last: `ListIsTrue` says of which transfers
the list is true nevertheless, and `VerdictsAdvance` when a verdict can go back at all. Any statement may fail,
with or without having stored its row, which ends the run as in the code.

### AegisEscrow

The contract's functions, one action each; `Pay` is the part `release` and `refund` share. A payment
pushes a frame with the state to return to, and the payee then has control: any function may be called, by it
or by a contract it calls, until it returns (`PayeeReturns`) or reverts (`PayeeReverts`, which undoes the whole frame). `deposits` and
`payments` record what happened, for `PaidAsAgreed`. Ownership may be handed over or given up at any
time, in the middle of a payment too; ether may be forced on the contract.

### WorkerSupervisor

`superviseWorkerSubsystem`, `RunWorker` and the status tracker. `run(ctx)` is a step that
ends in a result after a long or a short run. The fatal channel has room for one
error; a second one is dropped, as in the code's `select` with `default`. `conn` is the process's
one broker connection: a run of a consumer that starts after it broke fails at once, in
`Client.Consume`.

### Proof modules

Each holds the inductive invariants, lemmas and theorems of one module, which it extends:
`TransferProcessingProofs`, `TransferOutboxProofs`, `WebhookDeliveryProofs`, `CallbackTargetProofs`,
`WorkerSupervisorProofs`, `ReconciliationProofs`, `AegisEscrowProofs`; and `TransferPipelineProofs`, which
takes the first two as instances and applies their theorems to the composed system.

## 3. The runs

| Run | Instance | Shows |
|---|---|---|
| ProcessingSafety | 1 transfer, 2 workers, job published twice, 1 retry, any 3 failures of all 10 kinds; 1.9 million states | `TypeOK`, `SubmissionEvidence`, `OneTransaction`, `ExclusiveProcessing`, `InfrastructureNeverFailsTransfer`, `NoRegression`, `ImplementsLifecycle` |
| Pipeline | 1 key, 2 processes, 1 retry, 1 failure of the dispatchers (crash, database, broker, slowness) and 2 of the consumers (crash, signer, broadcast, broker, connection); 240 thousand states | `NotStranded`, `OnlyCommittedJobs`, `JobNotLost`, `CommittedSettles` |
| ShutdownLosesJob, BroadcastedFails | one failure | violations, see section 5 |
| Outbox | 2 keys, 2 requests each, 2 dispatchers, batch 2, any 2 failures with a broker that loses nothing it was given | `TypeOK`, `IdempotentCreate`, `RowsRecoverable`, `DispatchedWasPublished`, `NoStaleUndo`, `EventuallyDispatched` |
| OutboxUnconfirmed | one lost publish | violation, see section 5 |
| Webhook | 2 events, 2 workers, 2 attempts, lease 1, batch 2, any 2 failures | `TypeOK`, `RowsConsistent`, `OneOwner`, `DeliveredWasAccepted`, `SendBudget`, `NoStaleResult`, `EventuallyFinal` |
| WebhookOddStatus | a receiver answering above 599 | violation, see section 5 |
| Supervisor | 2 subsystems, one a consumer, budget 4, delays 1 to 3 | `TypeOK`, `BackoffMatchesFailures`, `OkMeansAlive`, `FailuresIsolated`, `Drains`, `FatalExits`, `ConnectionLossExits` |
| Reconciliation | 2 transfers, 2 runs, 1 failure, every assignment of receipts; 1.5 million states | `TypeOK`, `ListIsTrue`, `VerdictsAdvance`, `CountsMatchRows` |
| CallbackTarget | 4 names, 2 address literals, up to 3 final dots, 3 policies, the code's limit of 10 requests | `ConnectionsAllowed`, `CopiesAgree`, `DispatchEnds` |
| Escrow | 2 ids, 3 accounts with 2 units each; 1.1 million states | `Backed`, `PaidAsAgreed` |

Each run takes about a minute and a half or less.

**Why these bounds.** Transfers do not interact in processing except through the uniqueness
of hashes, so one transfer is enough. Two workers are needed for every race; a third adds no
new kind of overlap, because what a worker sees of the others is the rows, the key and the
queue. Two publications of a job and the retry give three copies in circulation, one more than
there are workers. Three failures allow a crash in the middle of a recovery from another one
with a third behind it; the outbox and webhook models use two, enough for a slow worker that is
overtaken by one that fails. Two attempts reach "not yet the last", "the last" and "one too
many". Delays 1 to 3 with a budget of 4 show a first delay, a doubled one and a capped one;
two subsystems compete for the one place in the error channel. Two reconciliation runs overlap or follow
each other in every way two can, and two transfers let a run fail between them. The names
of CallbackTarget are a subdomain of the allowed domain, one that only ends in the same letters, a local
name and a name in a local domain, and an address of each class; three dots are one more than any path
normalises away; the policy that allows everything is left out. Two escrow ids let a payee of one act on
the other, and three accounts are an owner, a payer and a recipient that may change places. The theorems of section 4 hold
for all values of the constants.

`Pipeline` leaves out the failures that are known to lose a job: shutdown, Redis and database failures while
an error is being settled, lost keys and lost publishes. With a cancelled context, `FailTransfer` or the
retry fails and the job is acknowledged or dropped (section 5), so `JobNotLost` holds only without
them. `ProcessingSafety` has all of them.

**Deadlock** is not checked: each system comes to rest when every job is handled, every
row dispatched, every run answered, every escrow settled or the worker has returned.

**Symmetry** (of workers, of transfers and of runs, of escrow ids and of accounts that are not the first owner) is used only
in ProcessingSafety, Reconciliation and Escrow, which check no liveness.

**Fairness.**

* `TransferPipeline`: each process's dispatcher and consumer keep stepping
  (`WF(Publish(p) \/ Dispatch(p))`, `WF(Consume(p))`): both are loops that only a failure ends.
  After a crash or a lost broker connection this assumes that the process is started again from outside, by
  whatever runs the worker: the client never reconnects, so the supervisor restarts the consumer on a dead
  connection until its budget is spent and the process exits (`ConnectionLossExits`). A key that nobody
  refreshes expires: it was set with a time to live. Time makes rows due and locks stale. Failures are
  never fair.
* `TransferOutbox`: the dispatcher polls on a ticker (`WF(DispatcherStep(d))`); time makes rows due and
  locks stale.
* `WebhookDelivery`: the worker polls on a ticker; the clock advances.
* `CallbackTarget`: the dispatch goes on or is timed out by its client; what it is answered is not
  restricted, so a receiver may redirect as long as it is let.
* `WorkerSupervisor`: goroutines run and timers fire; a subsystem returns *once its
  context is cancelled*, a consumer also once its delivery channel is closed with the
  connection, and may otherwise run forever.

Liveness properties are checked with finitely many failures, as any claim of eventual
success has to assume.

## 4. What is proved

All theorems hold for every value of the constants that satisfies the module's `ASSUME`:
any sets of transfers and workers, any number of failures of any kind.

**`TypeCorrect`** (`TypeOK`) needs to know that a worker with an attempt in hand points at an existing
row: `TypeInv` adds `LocalsOK`, which says that a worker past `GetLatestAttempt` has a
job with a transfer and an index into `attempts` of that transfer.

**`MutualExclusion`** (`ExclusiveProcessing`). The inductive invariant `HeartbeatHoldsLock` says that
a worker whose heartbeat runs with a live context has its token in the key, when
keys are not lost. That no key was lost is a statement about the log of failures, so the step lemmas need
that the log only grows (`FaultsRemembered`). Two workers with tokens in one key are the same worker. A
worker that settles its job has no heartbeat, so its key may expire and be taken; the token
comparison in `Release` is what keeps the invariant there.

**`EvidenceTheorem`, `OneTransactionTheorem`** (`SubmissionEvidence`, `OneTransaction`). The properties
speak of rows, but a stale worker may still be about to write: the inductive
invariant `EvidenceInv` also says what the workers' locals imply. `RowsEvident`: a transfer
has at most one attempt, with the hash the signer computes for it; a BROADCASTED one is on
the network, and nothing is on the network without one. `ClaimsEvident`: a worker that is
about to record a successful broadcast has seen the network accept it, and one that is about
to submit holds a BROADCASTED attempt. `HashesEvident`: a transfer past SIGNING has a
`tx_hash`, it is the signer's, and the attempt is BROADCASTED. None of this needs the lock: it
holds when keys disappear under their owners. TLC confirmed `EvidenceInv` on the
ProcessingSafety instance before it was proved.

**`Refinement`** (`ImplementsLifecycle`). A worker's writes are compared with the status it has seen, not
with what the path allows, and what it has seen may be stale. `PathInv` adds to `EvidenceInv` what makes
each write a step of `TransferLifecycle` or nothing: a transfer at SIGNING has SIGNING in its history, a
worker that goes on has seen its transfer open, one that submits it has seen it at SIGNING, and it
has really been there. Each action is then matched with one abstract step, or with a stutter.

**`NeverBack`** (`NoRegression`) uses `PathInv` for the statuses. For the attempts the comparison in `UpdateAttempt` is enough: a worker
that records a failed broadcast may have been overtaken by one that recorded a success.

**`InfrastructureHarmless`** (`InfrastructureNeverFailsTransfer`). `CleanInv` says where a worker can be while no
signer, broadcaster, database or shutdown has failed: it settles an error only when its lock was lost,
with a context that is cancelled, so its read fails before it could write FAILED.

**`JobsSurvive`** (`JobNotLost`). `JobInv` says, for each place in `handleDelivery`, where the copy of an unsettled
job is. `SomebodyCarries`: a published job whose transfer is not settled is queued, or some
worker holds the delivery at a place from which it settles the transfer or hands the job on. A worker at its
acknowledgement does not count, and one about to write FAILED counts only while nobody has moved the transfer since
it read it, since otherwise its write changes nothing and it acknowledges. `WorkersKnow`: what a worker has
read while it processes is still true, or somebody settled the transfer. That is where the lock comes in: it
needs `HeartbeatHoldsLock`, and holds because no second worker processes the transfer. The theorem has the
hypothesis `Reliable`: crashes, lost connections and failures of signer, broadcaster and publishes only. The
others lose jobs (section 3); the run `ShutdownLosesJob` shows it for a shutdown.

**`OnlyPublishedWork`** is about the same module without a hypothesis: a job that exists, or a transfer that has
moved, has been published.

**`JobsOutliveFailures`, `NeverStranded`, `CommittedOnly`** (`JobNotLost`, `NotStranded`, `OnlyCommittedJobs`) are proved
from the components' theorems, not from a new invariant of all variables. Every step of the pipeline is a step of the outbox
and a step of the consumers, or a stutter of one of them (`RunsOutbox`, `RunsConsumers`), so their theorems
hold of it; `PipelineAssumption` gives the components' assumptions for the values the pipeline gives their
constants. What relates the two is `HandedOver`: a job has been published to the consumers exactly if the outbox has
delivered its row. A DISPATCHED row was then published (`DispatchedPublished`) and its job survives
(`JobsSurvive`), which is `NeverStranded`. It needs `Lossless`, which the run's own failures satisfy: the hypotheses of those two
theorems. `CommittedOnly` needs nothing.

**`OutboxTyped`, `CreateIsIdempotent`, `RowsStayRecoverable`, `StaleUndoesNothing`, `DispatchedPublished`** (`TypeOK`,
`IdempotentCreate`, `RowsRecoverable`, `NoStaleUndo`, `DispatchedWasPublished`). `OutboxInv`: transfer and row exist
together, once per key (`RowsCreated`), replies name committed transfers (`RepliesFounded`), a PROCESSING row has
a lock that can go stale (`LocksSet`), and what a dispatcher holds is a committed row, whether or not it
still owns it (`ClaimsFounded`). `PublishedInv` says that a dispatcher about to mark a row has published it; it
holds unless the broker loses publishes, and that condition is part of the theorem's statement: the run
`OutboxUnconfirmed` refutes the property without it.

**`DeliveriesTyped`, `RowsStayConsistent`, `LeaseFences`, `DeliveredMeansAccepted`, `ResultsNeverStale`** (`TypeOK`,
`RowsConsistent`, `OneOwner`, `DeliveredWasAccepted`, `NoStaleResult`). That a lease timestamp is a fencing token
is the heart of `LeaseInv`: every claim somebody still holds is no later than its row's lease, and
if the row waits for a retry, earlier than any lease it can get (`ClaimsInv`). This needs that a claim is made only
after the old lease has passed, and that a backoff is positive; `BackoffPositive` derives the
latter from the cardinality of a power set, the one library fact about `2 ^ n`. `AcceptedInv` says that
a worker about to record a success has one.

**`SendsAreBudgeted`** (`SendBudget`). A batch is claimed before it is sent, so sends alone are not inductive. `BudgetInv`
bounds the *load* of an event, sends made plus claims still to be sent, by the attempts counted and the
failures. While a claim can still be recorded under the row's lease, the load may be one more, and the time left of the
lease is counted too: when the lease runs out under its worker, the time that passed was paid for as a
failure, so the event can be claimed again.

**`SupervisorTyped`, `HealthTruthful`, `FailureIsolation`, `BackoffIsExponential`** (`TypeOK`, `OkMeansAlive`,
`FailuresIsolated`, `BackoffMatchesFailures`). `SupervisorInv` adds that a counter is below the budget wherever the
loop continues (`BudgetLeft`), what the tracker says at each place of the loop
(`TrackerHonest`), and that an error in the channel is that of a fatal subsystem while
`RunWorker` has no result before it leaves its select (`ErrorsFounded`). The delay is doubled from step to step
while the property has a closed form; `DelayInStep` keeps the two together, also across a long run that
resets both.

**`RunsTyped`, `CountsAreRight`, `VerdictsFollow`, `MismatchesAreTrue`** (`TypeOK`, `CountsMatchRows`, `VerdictsAdvance`,
`ListIsTrue`). `ReconInv`: transfers only go forward, so a snapshot is behind the table and behind the snapshots of
later runs (`SnapsBehind`), and of any two, of overlapping runs too, one is behind the other throughout
(`SnapsOrdered`); what is left to compare and what was stored come from the snapshot
(`TodoFromSnap`, `RowsFromSnap`); what a run read is still to be compared or has a row (`Covered`); the rows of a run that
had returned precede those of the next (`RowsInOrder`). `ListIsTrue` follows because the last row of a
transfer is the run's own or that of a run that read the same status.

**`PaidOnceAndRight`, `AlwaysBacked`** (`PaidAsAgreed`, `Backed`). A failed payment returns to a saved state, so
`Sound` is required of the chain *and* of the state saved in every frame of the call stack. A sum over a set is
defined by recursion on the set; that changing one escrow changes the sum by the difference is proved by
induction on the subsets of `Ids`. The library's induction theorems take a predicate as an operator,
which the provers cannot instantiate; `InductionOnNat` and `InductionOnSubsets` are the same principles
stated for the set where a predicate holds, from the well-foundedness of `<`.

**`CopiesStayEqual`, `ConnectionsStayAllowed`** (`CopiesAgree`, `ConnectionsAllowed`). The first is about operators: the rules for
local names and literals know only hosts without a final dot, which one more normalisation leaves alone.
The second needs `TargetChecked`: between a check and the connection, the host is one that passed.

**Assumptions.** The bounds are natural numbers, positive where the configuration requires it. `Workers` of the
webhook module and `Ids` of the escrow are finite: there are finitely many processes, and an id is a `bytes32`.
In `CallbackTarget`, addresses are strings, names non-empty sequences of them, and policies
allow-lists of such names.

**Only model-checked**: liveness (`CommittedSettles`, `EventuallyDispatched`, `EventuallyFinal`,
`DispatchEnds`, `Drains`, `FatalExits`, `ConnectionLossExits`), which is beyond the prover's reach. Every invariant and
every action property of a passing run is proved. TLC checked every inductive invariant as an invariant of
a run before it was proved.

## 5. Where the code and its documents disagree

* **ShutdownLosesJob.** A shutdown during `ProcessTransfer` ends in the default branch of
  `handleDelivery`; `FailTransfer` fails on the same cancelled context and the job is
  acknowledged all the same. The transfer stays where it was, with no job. A failed heartbeat
  followed by an error of the signer or the broadcaster ends the same way.
* **OutboxUnconfirmed.** Publishing uses no publisher confirms, so a row is marked DISPATCHED
  although the broker may have dropped its job; `docs/architecture.md` promises an acknowledged
  publish. `retryJob` acknowledges its job after the same kind of publish.
* **BroadcastedFails.** A database error between BROADCASTED and SUBMITTED marks the transfer
  FAILED, and the promised resumption never happens.
* **WebhookOddStatus.** A response status above 599 violates a check constraint, so the
  attempt is never counted and the callback is sent again each time the lease runs out.

Each is a run that TLC refutes; the counterexamples are a few steps long. Two observations have no run:

* `README.md:28` says that CONFIRMED is driven by reconciliation, `docs/architecture.md:52` that it
  can be "once a real checker exists"; no code
  writes that status, and the models have no step to it.
* A transfer that failed before it had a `tx_hash` is never a candidate of reconciliation, even if its
  transaction was accepted (the state `BroadcastedFails` reaches), so the mismatch list does not show it.

## 6. What is not modelled

* **Data**: addresses, amounts, payloads, signatures, error texts, response bodies. They do not
  influence the control modelled here.
* **Branches that no reachable state takes**: malformed jobs and unknown transfers in
  the consumer (jobs are published for committed rows only), and the supervisor's branch for
  `context.Canceled` (the functions it is given turn it into nil).
* **Order of the queue and of batches**: left open, which allows more than the code does.
* **Reads**: list and get operations; the health service.
* **HTTP, configuration, bootstrap, the EVM client**: pure I/O or start-up.
* **Wallets**: one INSERT whose outcome a unique index decides, and reads. Nothing takes two steps.
* **Field checks of a new transfer** other than the callback target: each looks at one value.
* **The time of a verdict**: rows of reconciliation are kept in the order of their INSERTs, which is the order of
  `checked_at` up to the clock of one database server.
* **Widths**: `initialBackoff * 1<<(attempt-1)` overflows 64 bits only after more attempts than a
  configuration in use allows; attempts in the models are small naturals.

## 7. Plan

Modelled and checked: `TransferProcessing`, `TransferLifecycle` and the refinement, `TransferOutbox`,
`TransferPipeline`, `WebhookDelivery`, `CallbackTarget`, `WorkerSupervisor`, `Reconciliation`,
`AegisEscrow`. Proved: every invariant and action property of the passing runs. What is left are the stable parts
of the liveness arguments: that what a fair step needs stays true until it is taken.
