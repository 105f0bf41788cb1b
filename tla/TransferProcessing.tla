------------------------- MODULE TransferProcessing -------------------------
(***************************************************************************)
(* The transfer consumer: workers take jobs from the RabbitMQ queue, take   *)
(* the Redis processing lock of the job's transfer, drive the transfer      *)
(* through its statuses and its durable transaction attempt, and            *)
(* acknowledge, retry or fail the job (consumer.go, processor.go, lock.go   *)
(* and the repository operations they call).                                *)
(*                                                                          *)
(* One step is one call that leaves the process: a database transaction, a  *)
(* call of the signer or the broadcaster, a broker or Redis operation.      *)
(* Between two of them other workers, the heartbeat and failures interleave.*)
(*                                                                          *)
(* Abstractions.                                                            *)
(*  - The queue is a bag of jobs: the broker promises no order once jobs    *)
(*    are requeued. A prefetched delivery that is not being handled counts  *)
(*    as queued, since the broker returns it when the channel closes.       *)
(*  - A delivery that finds the lock taken is nacked with requeue; taking   *)
(*    the job and putting it back leaves the state unchanged.               *)
(*  - Jobs are published for committed transfers only (TransferOutbox), so  *)
(*    the malformed-job and transfer-not-found branches are never taken.    *)
(*  - The retry delay is positive, as the configuration requires.           *)
(*  - Failures are budgeted: every failure spends one unit of MaxFaults and *)
(*    only the kinds in Faults happen.                                      *)
(***************************************************************************)
EXTENDS Naturals, Sequences, FiniteSets

CONSTANTS
    Transfers,   \* transfer ids
    Workers,     \* consumers, one delivery at a time each
    NoWorker,    \* nobody holds the lock
    NoTransfer,  \* the transfer of the job of an idle worker
    NoHash,      \* the empty tx_hash
    MaxRetries,  \* TRANSFER_MAX_RETRIES
    MaxCopies,   \* bound: how often the outbox publishes the same job
    Faults,      \* the kinds of failure that may happen
    MaxFaults    \* bound: how many failures happen in a behaviour

FaultKinds == {"crash", "shutdown", "lock", "redis", "db", "signer",
               "broadcast", "broker", "unconfirmed", "conn"}

ASSUME ConstantsAssumption ==
    /\ NoWorker \notin Workers
    /\ NoHash \notin Transfers
    /\ NoTransfer \notin Transfers
    /\ MaxRetries \in Nat
    /\ MaxCopies \in Nat
    /\ MaxFaults \in Nat
    /\ Faults \subseteq FaultKinds

VARIABLES
    status,    \* transfer_requests.status
    txHash,    \* transfer_requests.tx_hash
    history,   \* transfer_status_history rows, oldest first
    attempts,  \* transaction_attempts rows, oldest first
    lock,      \* Redis: who owns the token under the transfer's key
    queue,     \* RabbitMQ: how many copies of each job are queued
    published, \* how often the outbox published the transfer's job
    sent,      \* hashes of the transactions the network has accepted
    pc,        \* where the worker is
    job,       \* the worker's job
    loc,       \* transfer.Status as the worker last read or wrote it
    att,       \* the attempt it works on, an index into attempts
    err,       \* the error of the operation in progress
    ctx,       \* the processing context
    held,      \* the broker still regards the delivery as the worker's
    faults     \* how many failures so far, and which of the remembered kinds

dbVars == <<status, txHash, history, attempts>>
localVars == <<pc, job, loc, att, err, ctx, held>>
vars == <<dbVars, lock, queue, published, sent, localVars, faults>>

-----------------------------------------------------------------------------
(* Types *)

Statuses == {"CREATED", "VALIDATED", "QUEUED", "SIGNING", "SUBMITTED",
             "PENDING_ON_CHAIN", "CONFIRMED", "FAILED"}

\* Statuses at which ProcessTransfer and FailTransfer leave a transfer alone.
Settled == {"PENDING_ON_CHAIN", "FAILED"}

AttemptStatuses == {"SIGNED", "BROADCASTING", "BROADCASTED", "FAILED"}

Attempts == [status : AttemptStatuses, hash : Transfers]

Jobs == [transfer : Transfers, attempt : 0..MaxRetries]

NoJob == [transfer |-> NoTransfer, attempt |-> 0]

Errors == {"nil", "transient", "invalid", "conflict", "error", "canceled"}

\* Points inside ProcessTransfer: the heartbeat goroutine runs.
Processing == {"get", "process", "create", "resume", "broadcast", "record",
               "latest", "submit", "finish"}

\* Points after heartbeatStop(): nobody refreshes the lock any more.
Settling == {"retry", "failget", "failset", "ack", "release"}

PCs == {"idle"} \cup Processing \cup Settling

\* The failures after which a transfer may be marked FAILED, or the processing
\* lock shared: the log of failures tells them apart, for the properties.
Remembered == {"signer", "broadcast", "db", "shutdown", "lock"}

FaultLogs == [count : 0..MaxFaults, kinds : SUBSET Remembered]

-----------------------------------------------------------------------------
(* Failures *)

\* A failure of kind k happens now.
Fault(k) ==
    /\ k \in Faults
    /\ faults.count < MaxFaults
    /\ faults' = [count |-> faults.count + 1,
                  kinds |-> faults.kinds \cup ({k} \cap Remembered)]

\* A repository call of w is answered.
Replies(w) == ctx[w] = "live" /\ UNCHANGED faults

\* A repository call of w returns an error: its context is cancelled, or the
\* database fails. Whether a write took effect is not known then.
Fails(w, r) ==
    \/ r = "canceled" /\ ctx[w] # "live" /\ UNCHANGED faults
    \/ r = "error" /\ ctx[w] = "live" /\ Fault("db")

-----------------------------------------------------------------------------
(* The repository *)

\* Mutant: the UPDATE has no status in its WHERE clause.
BlindTransitionStatus(w, to, hash, r) ==
    LET t == job[w].transfer
    IN  /\ r = "nil"
        /\ Replies(w)
        /\ status' = [status EXCEPT ![t] = to]
        /\ txHash' = [txHash EXCEPT ![t] = IF hash = NoHash THEN @ ELSE hash]
        /\ history' = [history EXCEPT ![t] = Append(@, <<loc[w], to>>)]

\* Compare-and-set of the status with its history row, in one transaction.
TransitionStatus(w, to, hash, r) ==
    LET t == job[w].transfer
        Commit == /\ status[t] = loc[w]
                  /\ status' = [status EXCEPT ![t] = to]
                  /\ txHash' = [txHash EXCEPT ![t] =
                                    IF hash = NoHash THEN @ ELSE hash]
                  /\ history' = [history EXCEPT ![t] =
                                    Append(@, <<loc[w], to>>)]
        Nothing == UNCHANGED <<status, txHash, history>>
    IN  \/ r = "nil" /\ Replies(w) /\ Commit
        \/ r = "invalid" /\ Replies(w) /\ status[t] # loc[w] /\ Nothing
        \/ Fails(w, r) /\ (Commit \/ Nothing)

\* Mutant: without the unique index on the transaction hash.
ActiveAttemptConflicts(t, hash) ==
    \E i \in DOMAIN attempts[t] :
        attempts[t][i].status \in {"SIGNED", "BROADCASTING"}

\* The two unique indexes on attempts: one active attempt per transfer, one
\* attempt per transaction hash.
AttemptConflicts(t, hash) ==
    \/ \E i \in DOMAIN attempts[t] :
            attempts[t][i].status \in {"SIGNED", "BROADCASTING"}
    \/ \E u \in Transfers : \E i \in DOMAIN attempts[u] :
            attempts[u][i].hash = hash

CreateAttempt(w, hash, r) ==
    LET t == job[w].transfer
        Insert == /\ ~AttemptConflicts(t, hash)
                  /\ attempts' = [attempts EXCEPT ![t] =
                        Append(@, [status |-> "SIGNED", hash |-> hash])]
    IN  \/ r = "nil" /\ Replies(w) /\ Insert
        \/ /\ r = "conflict"
           /\ Replies(w)
           /\ AttemptConflicts(t, hash)
           /\ UNCHANGED attempts
        \/ Fails(w, r) /\ (Insert \/ UNCHANGED attempts)

\* Compare-and-set of an attempt's status.
UpdateAttempt(w, from, to, r) ==
    LET t == job[w].transfer
        Commit == /\ attempts[t][att[w]].status = from
                  /\ attempts' = [attempts EXCEPT ![t][att[w]] =
                                    [status |-> to, hash |-> @.hash]]
    IN  \/ r = "nil" /\ Replies(w) /\ Commit
        \/ /\ r = "conflict"
           /\ Replies(w)
           /\ attempts[t][att[w]].status # from
           /\ UNCHANGED attempts
        \/ Fails(w, r) /\ (Commit \/ UNCHANGED attempts)

-----------------------------------------------------------------------------
(* The queue and the worker's locals *)

Enqueue(q, j) == [q EXCEPT ![j] = @ + 1]

\* The worker is done with its delivery, or dead. The broker takes back a
\* delivery that was never acknowledged.
Idle(w) ==
    /\ pc' = [pc EXCEPT ![w] = "idle"]
    /\ job' = [job EXCEPT ![w] = NoJob]
    /\ loc' = [loc EXCEPT ![w] = "CREATED"]
    /\ att' = [att EXCEPT ![w] = 0]
    /\ err' = [err EXCEPT ![w] = "nil"]
    /\ ctx' = [ctx EXCEPT ![w] = "live"]
    /\ held' = [held EXCEPT ![w] = FALSE]
    /\ queue' = IF held[w] THEN Enqueue(queue, job[w]) ELSE queue

\* The worker continues at point p; the rest of its locals is set elsewhere.
Goto(w, p) == pc' = [pc EXCEPT ![w] = p]

\* ProcessTransfer returns error e.
Return(w, e) == Goto(w, "finish") /\ err' = [err EXCEPT ![w] = e]

\* The hash SignTransfer computes: a function of the transfer alone.
SignTransfer(t) == t

-----------------------------------------------------------------------------
(* handleDelivery: taking a job *)

\* The outbox dispatcher publishes the transfer's job, at least once.
PublishTransferRequested(t) ==
    /\ published[t] < MaxCopies
    /\ published' = [published EXCEPT ![t] = @ + 1]
    /\ queue' = Enqueue(queue, [transfer |-> t, attempt |-> 0])
    /\ UNCHANGED <<dbVars, lock, sent, localVars, faults>>

\* SETNX on the transfer's key succeeds and the heartbeat starts.
HandleDelivery(w, j) ==
    /\ pc[w] = "idle"
    /\ queue[j] > 0
    /\ lock[j.transfer] = NoWorker
    /\ lock' = [lock EXCEPT ![j.transfer] = w]
    /\ queue' = [queue EXCEPT ![j] = @ - 1]
    /\ job' = [job EXCEPT ![w] = j]
    /\ held' = [held EXCEPT ![w] = TRUE]
    /\ Goto(w, "get")
    /\ UNCHANGED <<dbVars, published, sent, loc, att, err, ctx, faults>>

\* SETNX returns an error, and may have set the key all the same. The consumer
\* stops and its unacknowledged delivery goes back to the queue.
AcquireFails(w, j) ==
    /\ pc[w] = "idle"
    /\ queue[j] > 0
    /\ lock[j.transfer] = NoWorker
    /\ Fault("redis")
    /\ lock' \in {lock, [lock EXCEPT ![j.transfer] = w]}
    /\ UNCHANGED <<dbVars, queue, published, sent, localVars>>

-----------------------------------------------------------------------------
(* ProcessTransfer *)

\* The first read; transfers that are pending on chain or failed are left alone.
GetByID(w) ==
    /\ pc[w] = "get"
    /\ \/ /\ Replies(w)
          /\ LET s == status[job[w].transfer]
             IN  /\ loc' = [loc EXCEPT ![w] = s]
                 /\ IF s \in Settled THEN Return(w, "nil")
                    ELSE IF s = "CONFIRMED" THEN Return(w, "invalid")
                    ELSE Goto(w, "process") /\ UNCHANGED err
       \/ \E r \in Errors : Fails(w, r) /\ Return(w, r) /\ UNCHANGED loc
    /\ UNCHANGED <<dbVars, lock, queue, published, sent, job, att, ctx, held>>

\* The status after s in the loop's switch; SIGNING is left by submission.
Successor == [CREATED |-> "VALIDATED", VALIDATED |-> "QUEUED",
              QUEUED |-> "SIGNING", SUBMITTED |-> "PENDING_ON_CHAIN"]

\* One turn of the loop that only moves the status.
Advance(w) ==
    /\ pc[w] = "process"
    /\ loc[w] \in DOMAIN Successor
    /\ \E r \in Errors :
        /\ TransitionStatus(w, Successor[loc[w]], NoHash, r)
        /\ IF r = "nil"
           THEN /\ loc' = [loc EXCEPT ![w] = Successor[loc[w]]]
                /\ IF loc[w] = "SUBMITTED" THEN Return(w, "nil")
                   ELSE UNCHANGED <<pc, err>>
           ELSE Return(w, r) /\ UNCHANGED loc
    /\ UNCHANGED <<attempts, lock, queue, published, sent, job, att, ctx, held>>

\* Where resumeSubmission goes for an attempt of status s.
ResumePoint == [SIGNED |-> "resume", BROADCASTING |-> "broadcast",
                BROADCASTED |-> "submit", FAILED |-> "finish"]

\* submitTransfer and resumeLatestAttempt: read the latest attempt and resume
\* from its status. A conflict shows that an attempt exists, so only
\* submitTransfer can find none.
GetLatestAttempt(w) ==
    LET t == job[w].transfer
        n == Len(attempts[t])
        s == attempts[t][n].status
    IN  /\ \/ pc[w] = "process" /\ loc[w] = "SIGNING"
           \/ pc[w] = "latest"
        /\ \/ /\ Replies(w) /\ n = 0 /\ pc[w] = "process"
              /\ Goto(w, "create")
              /\ UNCHANGED <<att, err>>
           \/ /\ Replies(w) /\ n > 0
              /\ att' = [att EXCEPT ![w] = n]
              /\ Goto(w, ResumePoint[s])
              /\ err' = [err EXCEPT ![w] =
                            IF s = "FAILED" THEN "error" ELSE "nil"]
           \/ \E r \in Errors : Fails(w, r) /\ Return(w, r) /\ UNCHANGED att
        /\ UNCHANGED <<dbVars, lock, queue, published, sent, job, loc, ctx, held>>

\* The signer fails, transiently or for good.
SignerFails(w) ==
    /\ pc[w] = "create"
    /\ Fault("signer")
    /\ \E e \in {"transient", "error"} : Return(w, e)
    /\ UNCHANGED <<dbVars, lock, queue, published, sent, job, loc, att, ctx, held>>

\* The signed transaction is stored before anything is broadcast.
CreateAttemptAndSubmit(w) ==
    LET t == job[w].transfer
    IN  /\ pc[w] = "create"
        /\ \E r \in Errors :
            /\ CreateAttempt(w, SignTransfer(t), r)
            /\ \/ /\ r = "nil"
                  /\ att' = [att EXCEPT ![w] = Len(attempts[t]) + 1]
                  /\ Goto(w, "resume")
                  /\ UNCHANGED err
               \/ r = "conflict" /\ Goto(w, "latest") /\ UNCHANGED <<att, err>>
               \/ r \notin {"nil", "conflict"} /\ Return(w, r) /\ UNCHANGED att
        /\ UNCHANGED <<status, txHash, history, lock, queue, published, sent,
                       job, loc, ctx, held>>

\* resumeSubmission of a SIGNED attempt: claim it for broadcast.
ResumeSubmission(w) ==
    /\ pc[w] = "resume"
    /\ \E r \in Errors :
        /\ UpdateAttempt(w, "SIGNED", "BROADCASTING", r)
        /\ \/ r = "nil" /\ Goto(w, "broadcast") /\ UNCHANGED err
           \/ r = "conflict" /\ Goto(w, "latest") /\ UNCHANGED err
           \/ r \notin {"nil", "conflict"} /\ Return(w, r)
    /\ UNCHANGED <<status, txHash, history, lock, queue, published, sent,
                   job, loc, att, ctx, held>>

\* broadcastAttempt, the call: a failed broadcast may have reached the network.
BroadcastTransfer(w) ==
    LET h == attempts[job[w].transfer][att[w]].hash
    IN  /\ pc[w] = "broadcast"
        /\ Goto(w, "record")
        /\ \/ /\ sent' = sent \cup {h}
              /\ err' = [err EXCEPT ![w] = "nil"]
              /\ UNCHANGED faults
           \/ /\ Fault("broadcast")
              /\ sent' \in {sent, sent \cup {h}}
              /\ \E e \in {"transient", "error"} : err' = [err EXCEPT ![w] = e]
        /\ UNCHANGED <<dbVars, lock, queue, published, job, loc, att, ctx, held>>

\* Mutant: the attempt gets a status of the transfer.
SubmittedAfterBroadcast(e) == IF e = "nil" THEN "SUBMITTED" ELSE "FAILED"

\* Mutant: a transient error counts as a broadcast.
LenientAfterBroadcast(e) == IF e = "error" THEN "FAILED" ELSE "BROADCASTED"

\* The status a broadcast with result e leaves its attempt in.
AfterBroadcast(e) == CASE e = "nil" -> "BROADCASTED"
                       [] e = "transient" -> "SIGNED"
                       [] OTHER -> "FAILED"

\* broadcastAttempt, the result: a conflict means somebody else moved it on.
RecordBroadcast(w) ==
    /\ pc[w] = "record"
    /\ \E r \in Errors :
        /\ UpdateAttempt(w, "BROADCASTING", AfterBroadcast(err[w]), r)
        /\ \/ /\ r = "nil"
              /\ Goto(w, IF err[w] = "nil" THEN "submit" ELSE "finish")
              /\ UNCHANGED err
           \/ r = "conflict" /\ Goto(w, "latest") /\ UNCHANGED err
           \/ r \notin {"nil", "conflict"} /\ Return(w, r)
    /\ UNCHANGED <<status, txHash, history, lock, queue, published, sent,
                   job, loc, att, ctx, held>>

\* submitBroadcastedAttempt: SIGNING to SUBMITTED, with the attempt's hash.
SubmitBroadcastedAttempt(w) ==
    /\ pc[w] = "submit"
    /\ \E r \in Errors :
        /\ TransitionStatus(w, "SUBMITTED",
                            attempts[job[w].transfer][att[w]].hash, r)
        /\ IF r = "nil"
           THEN /\ loc' = [loc EXCEPT ![w] = "SUBMITTED"]
                /\ Goto(w, "process")
                /\ UNCHANGED err
           ELSE Return(w, r) /\ UNCHANGED loc
    /\ UNCHANGED <<attempts, lock, queue, published, sent, job, att, ctx, held>>

-----------------------------------------------------------------------------
(* handleDelivery: what becomes of the job *)

\* Mutant: an invalid state is not told apart from other errors.
StrictFinish(w) ==
    /\ pc[w] = "finish"
    /\ Goto(w, CASE err[w] = "nil" -> "ack"
                 [] err[w] = "transient" -> "retry"
                 [] OTHER -> "failget")
    /\ UNCHANGED <<dbVars, lock, queue, published, sent,
                   job, loc, att, err, ctx, held, faults>>

\* ProcessTransfer has returned and the heartbeat is stopped. Its error, if it
\* left one, replaces success and cancellation.
Finish(w) ==
    LET e == IF ctx[w] = "lost" /\ err[w] \in {"nil", "canceled"}
             THEN "transient" ELSE err[w]
    IN  /\ pc[w] = "finish"
        /\ err' = [err EXCEPT ![w] = e]
        /\ Goto(w, CASE e \in {"nil", "invalid"} -> "ack"
                     [] e = "transient" -> "retry"
                     [] OTHER -> "failget")
        /\ UNCHANGED <<dbVars, lock, queue, published, sent,
                       job, loc, att, ctx, held, faults>>

\* Mutant: the job is acknowledged although publishing the next one failed.
CarelessRetryJob(w) ==
    /\ pc[w] = "retry"
    /\ \/ /\ job[w].attempt >= MaxRetries
          /\ Goto(w, "failget")
          /\ UNCHANGED <<queue, faults>>
       \/ /\ job[w].attempt < MaxRetries
          /\ Fault("broker")
          /\ Goto(w, "ack")
          /\ UNCHANGED queue
    /\ UNCHANGED <<dbVars, lock, published, sent,
                   job, loc, att, err, ctx, held>>

\* retryJob. With retries left it waits, publishes the next attempt and
\* acknowledges this one; cancelled while waiting, or on a publish error, it
\* returns without acknowledging. Publishing uses no confirms: a message may be
\* lost after Publish has returned.
RetryJob(w) ==
    LET next == [job[w] EXCEPT !.attempt = @ + 1]
    IN  /\ pc[w] = "retry"
        /\ \/ /\ job[w].attempt >= MaxRetries
              /\ Goto(w, "failget")
              /\ UNCHANGED <<queue, faults>>
           \/ /\ job[w].attempt < MaxRetries
              /\ ctx[w] # "live"
              /\ Goto(w, "release")
              /\ UNCHANGED <<queue, faults>>
           \/ /\ job[w].attempt < MaxRetries
              /\ ctx[w] = "live"
              /\ \/ /\ queue' = Enqueue(queue, next)
                    /\ Goto(w, "ack")
                    /\ UNCHANGED faults
                 \/ /\ Fault("broker")
                    /\ queue' \in {queue, Enqueue(queue, next)}
                    /\ Goto(w, "release")
                 \/ /\ Fault("unconfirmed")
                    /\ Goto(w, "ack")
                    /\ UNCHANGED queue
        /\ UNCHANGED <<dbVars, lock, published, sent,
                       job, loc, att, err, ctx, held>>

\* Mutant: FailTransfer does not look at the status it read.
BlindFailTransferGet(w) ==
    /\ pc[w] = "failget"
    /\ Replies(w)
    /\ loc' = [loc EXCEPT ![w] = status[job[w].transfer]]
    /\ Goto(w, "failset")
    /\ UNCHANGED <<dbVars, lock, queue, published, sent,
                   job, att, err, ctx, held>>

\* FailTransfer, the read; its error is only logged.
FailTransferGet(w) ==
    LET s == status[job[w].transfer]
    IN  /\ pc[w] = "failget"
        /\ \/ /\ Replies(w)
              /\ loc' = [loc EXCEPT ![w] = s]
              /\ Goto(w, IF s \in Settled THEN "ack" ELSE "failset")
           \/ \E r \in Errors : Fails(w, r) /\ Goto(w, "ack") /\ UNCHANGED loc
        /\ UNCHANGED <<dbVars, lock, queue, published, sent,
                       job, att, err, ctx, held>>

\* FailTransfer, the write; its error, a lost race included, is dropped.
FailTransferSet(w) ==
    /\ pc[w] = "failset"
    /\ \E r \in Errors : TransitionStatus(w, "FAILED", NoHash, r)
    /\ Goto(w, "ack")
    /\ UNCHANGED <<attempts, lock, queue, published, sent,
                   job, loc, att, err, ctx, held>>

\* delivery.Ack. If the broker has already taken the delivery back this is an
\* error that stops the consumer.
Ack(w) ==
    /\ pc[w] = "ack"
    /\ held' = [held EXCEPT ![w] = FALSE]
    /\ Goto(w, "release")
    /\ UNCHANGED <<dbVars, lock, queue, published, sent,
                   job, loc, att, err, ctx, faults>>

\* Mutant: DEL without comparing the token.
BlindRelease(w) ==
    /\ pc[w] = "release"
    /\ ctx[w] = "live"
    /\ lock' = [lock EXCEPT ![job[w].transfer] = NoWorker]
    /\ Idle(w)
    /\ UNCHANGED <<dbVars, published, sent, faults>>

\* The deferred Release compares the token and deletes the key; it uses the
\* processing context, so it does nothing once that is cancelled. A consumer
\* that returned an error then closes its channel.
Release(w) ==
    LET t == job[w].transfer
    IN  /\ pc[w] = "release"
        /\ \/ /\ ctx[w] = "live"
              /\ lock' = [lock EXCEPT ![t] = IF @ = w THEN NoWorker ELSE @]
              /\ UNCHANGED faults
           \/ ctx[w] # "live" /\ UNCHANGED <<lock, faults>>
           \/ ctx[w] = "live" /\ Fault("redis") /\ UNCHANGED lock
        /\ Idle(w)
        /\ UNCHANGED <<dbVars, published, sent>>

-----------------------------------------------------------------------------
(* The lock's time to live, the heartbeat and the environment *)

\* w refreshes the lock of transfer t.
Heartbeats(w, t) == pc[w] \in Processing /\ ctx[w] = "live" /\ job[w].transfer = t

\* Mutant: SETNX without a time to live.
NeverExpires(t) == FALSE

\* The key expires: its owner no longer refreshes it.
LockExpires(t) ==
    /\ lock[t] # NoWorker
    /\ ~Heartbeats(lock[t], t)
    /\ lock' = [lock EXCEPT ![t] = NoWorker]
    /\ UNCHANGED <<dbVars, queue, published, sent, localVars, faults>>

\* The key disappears under an owner that does: a pause longer than the TTL, a
\* Redis failover.
LockLost(t) ==
    /\ lock[t] # NoWorker
    /\ Heartbeats(lock[t], t)
    /\ Fault("lock")
    /\ lock' = [lock EXCEPT ![t] = NoWorker]
    /\ UNCHANGED <<dbVars, queue, published, sent, localVars>>

\* Refresh fails: the key has another token or none, Redis fails, or the tick
\* was chosen although the context is already cancelled. The heartbeat cancels
\* the processing context and leaves a transient error behind.
HeartbeatFails(w) ==
    /\ pc[w] \in Processing
    /\ \/ ctx[w] = "live" /\ lock[job[w].transfer] # w /\ UNCHANGED faults
       \/ ctx[w] = "live" /\ Fault("redis")
       \/ ctx[w] = "shutdown" /\ UNCHANGED faults
    /\ ctx' = [ctx EXCEPT ![w] = "lost"]
    /\ UNCHANGED <<dbVars, lock, queue, published, sent,
                   pc, job, loc, att, err, held>>

\* The process is asked to stop: the context of the delivery is cancelled.
Shutdown(w) ==
    /\ pc[w] # "idle"
    /\ ctx[w] = "live"
    /\ Fault("shutdown")
    /\ ctx' = [ctx EXCEPT ![w] = "shutdown"]
    /\ UNCHANGED <<dbVars, lock, queue, published, sent,
                   pc, job, loc, att, err, held>>

\* The process dies and is started again. Its lock stays until it expires.
Crash(w) ==
    /\ pc[w] # "idle"
    /\ Fault("crash")
    /\ Idle(w)
    /\ UNCHANGED <<dbVars, lock, published, sent>>

\* The broker connection drops: the delivery is requeued while w works on. The
\* client never reconnects; w is back with the next job when its process has
\* been started again.
ConnectionLost(w) ==
    /\ pc[w] # "idle"
    /\ held[w]
    /\ Fault("conn")
    /\ held' = [held EXCEPT ![w] = FALSE]
    /\ queue' = Enqueue(queue, job[w])
    /\ UNCHANGED <<dbVars, lock, published, sent, pc, job, loc, att, err, ctx>>

-----------------------------------------------------------------------------
(* Specification *)

Init ==
    /\ status = [t \in Transfers |-> "CREATED"]
    /\ txHash = [t \in Transfers |-> NoHash]
    /\ history = [t \in Transfers |-> << <<"", "CREATED">> >>]
    /\ attempts = [t \in Transfers |-> << >>]
    /\ lock = [t \in Transfers |-> NoWorker]
    /\ queue = [j \in Jobs |-> 0]
    /\ published = [t \in Transfers |-> 0]
    /\ sent = {}
    /\ pc = [w \in Workers |-> "idle"]
    /\ job = [w \in Workers |-> NoJob]
    /\ loc = [w \in Workers |-> "CREATED"]
    /\ att = [w \in Workers |-> 0]
    /\ err = [w \in Workers |-> "nil"]
    /\ ctx = [w \in Workers |-> "live"]
    /\ held = [w \in Workers |-> FALSE]
    /\ faults = [count |-> 0, kinds |-> {}]

\* What the worker's own goroutine does next.
WorkerStep(w) ==
    \/ \E j \in Jobs : HandleDelivery(w, j)
    \/ GetByID(w)
    \/ Advance(w)
    \/ GetLatestAttempt(w)
    \/ CreateAttemptAndSubmit(w)
    \/ ResumeSubmission(w)
    \/ BroadcastTransfer(w)
    \/ RecordBroadcast(w)
    \/ SubmitBroadcastedAttempt(w)
    \/ Finish(w)
    \/ RetryJob(w)
    \/ FailTransferGet(w)
    \/ FailTransferSet(w)
    \/ Ack(w)
    \/ Release(w)

\* What happens to the worker.
WorkerEvent(w) ==
    \/ \E j \in Jobs : AcquireFails(w, j)
    \/ SignerFails(w)
    \/ HeartbeatFails(w)
    \/ Shutdown(w)
    \/ Crash(w)
    \/ ConnectionLost(w)

Next ==
    \/ \E w \in Workers : WorkerStep(w) \/ WorkerEvent(w)
    \/ \E t \in Transfers :
            PublishTransferRequested(t) \/ LockExpires(t) \/ LockLost(t)

Spec == Init /\ [][Next]_vars

-----------------------------------------------------------------------------
(* Properties *)

(* Type correctness: the columns, the locals of the workers and the counters. *)
TypeOK ==
    /\ status \in [Transfers -> Statuses]
    /\ txHash \in [Transfers -> Transfers \cup {NoHash}]
    /\ history \in [Transfers -> Seq((Statuses \cup {""}) \X Statuses)]
    /\ attempts \in [Transfers -> Seq(Attempts)]
    /\ lock \in [Transfers -> Workers \cup {NoWorker}]
    /\ queue \in [Jobs -> Nat]
    /\ published \in [Transfers -> 0..MaxCopies]
    /\ sent \subseteq Transfers
    /\ pc \in [Workers -> PCs]
    /\ job \in [Workers -> Jobs \cup {NoJob}]
    /\ loc \in [Workers -> Statuses]
    /\ att \in [Workers -> Nat]
    /\ err \in [Workers -> Errors]
    /\ ctx \in [Workers -> {"live", "shutdown", "lost"}]
    /\ held \in [Workers -> BOOLEAN]
    /\ faults \in FaultLogs

(* A transfer that claims submission has the evidence for it: a tx_hash, a    *)
(* BROADCASTED attempt with that hash, and a network that accepted it. The    *)
(* status, the attempt and the broadcast are written in three separate steps  *)
(* of possibly different workers (processor.go, broadcastAttempt and          *)
(* submitBroadcastedAttempt).                                                 *)
SubmissionEvidence ==
    \A t \in Transfers :
        /\ status[t] \in {"SUBMITTED", "PENDING_ON_CHAIN", "CONFIRMED"}
                => txHash[t] # NoHash
        /\ txHash[t] # NoHash
                => /\ txHash[t] \in sent
                   /\ \E i \in DOMAIN attempts[t] :
                        attempts[t][i] = [status |-> "BROADCASTED",
                                          hash |-> txHash[t]]

(* However many workers, retries and crashes: at most one transaction is ever *)
(* signed and stored for a transfer, and nothing reaches the network that is  *)
(* not stored (createAttemptAndSubmit persists before broadcastAttempt, and   *)
(* the unique indexes stop a worker that lost the race).                      *)
OneTransaction ==
    /\ \A t \in Transfers : Len(attempts[t]) <= 1
    /\ \A h \in sent : \E t \in Transfers : \E i \in DOMAIN attempts[t] :
            attempts[t][i].hash = h

\* The moves the processor's switch and FailTransfer make.
AllowedTransitions ==
    {<<s, Successor[s]>> : s \in DOMAIN Successor}
        \cup {<<"SIGNING", "SUBMITTED">>}
        \cup {<<s, "FAILED">> : s \in (Statuses \ Settled) \ {"CONFIRMED"}}

(* What no step of any worker, stale or not, may do: move a status other than *)
(* along the switch of ProcessTransfer, reopen or fail a settled transfer,    *)
(* change a tx_hash once written, touch an attempt that is BROADCASTED or     *)
(* FAILED (the compare-and-set guards of TransitionStatus and UpdateAttempt). *)
NoRegression ==
    [][\A t \in Transfers :
        /\ status'[t] # status[t]
                => <<status[t], status'[t]>> \in AllowedTransitions
        /\ txHash[t] # NoHash => txHash'[t] = txHash[t]
        /\ \A i \in DOMAIN attempts[t] :
                attempts[t][i].status \in {"BROADCASTED", "FAILED"}
                    => attempts'[t][i] = attempts[t][i]]_vars

(* As long as no key has disappeared under a live heartbeat, two workers with *)
(* a live context never process the same transfer: a worker that lost its     *)
(* lock while settling a job neither keeps it nor deletes its successor's key *)
(* (handleDelivery's deferred Release, the token comparison of lock.go).      *)
ExclusiveProcessing ==
    "lock" \notin faults.kinds =>
        \A v, w \in Workers : \A t \in Transfers :
            Heartbeats(v, t) /\ Heartbeats(w, t) => v = w

\* Some copy of a job of t is queued, or is some worker's unsettled delivery.
JobAlive(t) ==
    \/ \E j \in Jobs : j.transfer = t /\ queue[j] > 0
    \/ \E w \in Workers : job[w].transfer = t /\ held[w]

(* A published job is not lost: until its transfer is settled, some copy of   *)
(* it is queued or unacknowledged. handleDelivery and retryJob acknowledge    *)
(* on many paths; each must have settled the transfer or left another copy.   *)
JobNotLost ==
    \A t \in Transfers :
        published[t] > 0 /\ status[t] \notin Settled => JobAlive(t)

(* Losing locks, connections, publishes or whole workers never marks a        *)
(* transfer FAILED: only an error of the signer, the broadcaster or the       *)
(* database, or a shutdown, may (the error switch of handleDelivery).         *)
InfrastructureNeverFailsTransfer ==
    faults.kinds \subseteq {"lock"} =>
        \A t \in Transfers : status[t] # "FAILED"

(* docs/reliability-model.md on BROADCASTED attempts: "broadcast completed    *)
(* and follow-up state advancement can resume later". A FAILED transfer is    *)
(* never advanced again, so it must not have a BROADCASTED attempt.           *)
BroadcastedCanResume ==
    \A t \in Transfers : \A i \in DOMAIN attempts[t] :
        attempts[t][i].status = "BROADCASTED" => status[t] # "FAILED"

Lifecycle == INSTANCE TransferLifecycle WITH accepted <- sent

(* The workers, with their queue, locks, attempts, retries and crashes,       *)
(* implement the plain life of a transfer: every step of theirs is one step   *)
(* of TransferLifecycle or changes nothing of what it shows. In particular    *)
(* the history is the path the status took, nothing reaches the network       *)
(* before SIGNING, and no transfer claims a submission the network has not    *)
(* accepted.                                                                  *)
ImplementsLifecycle == Lifecycle!LifeSpec
=============================================================================
