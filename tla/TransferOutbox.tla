--------------------------- MODULE TransferOutbox ---------------------------
(***************************************************************************)
(* Transfer creation and the transactional outbox: the API stores a         *)
(* transfer together with its outbox row, dispatchers claim rows, publish   *)
(* the transfer's job and record the result (service.go CreateTransfer,     *)
(* outbox_dispatcher.go, publisher.go and the outbox part of                *)
(* postgres_repository.go).                                                 *)
(*                                                                          *)
(* Abstractions.                                                            *)
(*  - A request is a client's call with an idempotency key; the transfer it *)
(*    creates carries the request's name. Requests reaching the repository  *)
(*    have passed validation.                                               *)
(*  - available_at and locked_at are kept as what the claim query asks of   *)
(*    them: whether a row is due, whether its lock is older than the        *)
(*    processing timeout. Time passing is an action of the environment.     *)
(*  - The order of a batch (available_at) is left open.                     *)
(*  - A mark that fails because the context is cancelled is a database      *)
(*    failure: either way the row stays as it is.                           *)
(***************************************************************************)
EXTENDS Naturals, FiniteSets

CONSTANTS
    Keys,         \* idempotency keys
    MaxRequests,  \* bound: requests per key
    Dispatchers,  \* outbox dispatchers, one per worker process
    NoReply,      \* the request has not been answered with a transfer
    BatchSize,    \* TRANSFER_OUTBOX_BATCH_SIZE
    Faults,       \* the kinds of failure that may happen
    MaxFaults     \* bound: how many failures happen in a behaviour

Requests == Keys \X (1..MaxRequests)

FaultKinds == {"crash", "db", "broker", "unconfirmed", "slow"}

ASSUME OutboxAssumption ==
    /\ MaxRequests \in Nat
    /\ BatchSize \in Nat \ {0}
    /\ MaxFaults \in Nat
    /\ NoReply \notin Requests
    /\ Faults \subseteq FaultKinds

VARIABLES
    transfers,    \* transfer_requests rows
    reply,        \* the transfer each request was answered with
    status,       \* transfer_outbox.status, NONE without a row
    attemptCount, \* transfer_outbox.attempt_count
    due,          \* available_at <= NOW()
    locked,       \* locked_at: none, fresh, or older than the timeout
    delivered,    \* transfers whose job has reached the broker
    pc,           \* where the dispatcher is
    batch,        \* events it claimed and has not handled yet
    event,        \* the event it handles
    faults        \* failures so far

rowVars == <<status, attemptCount, due, locked>>
dispatcherVars == <<pc, batch, event>>
vars == <<transfers, reply, rowVars, delivered, dispatcherVars, faults>>

Statuses == {"NONE", "PENDING", "PROCESSING", "RETRY", "DISPATCHED"}

\* What a dispatcher knows of an event: the row as it was when claimed.
Events == [id : Requests, count : Nat]

NoEvent == [id |-> NoReply, count |-> 0]

Fault(k) == k \in Faults /\ faults < MaxFaults /\ faults' = faults + 1

-----------------------------------------------------------------------------
(* The API *)

\* Mutant: a plain INSERT without the unique idempotency key.
PlainExisting(r) == {}

\* The row ON CONFLICT (idempotency_key) runs into.
Existing(r) == {t \in transfers : t[1] = r[1]}

\* INSERT of the transfer, its history row and its outbox row, one transaction.
InsertTransfer(r) ==
    /\ transfers' = transfers \cup {r}
    /\ status' = [status EXCEPT ![r] = "PENDING"]
    /\ due' = [due EXCEPT ![r] = TRUE]
    /\ UNCHANGED <<attemptCount, locked>>

\* Mutant: the outbox row is not part of the transaction that fails.
LooseCreate(r) ==
    /\ reply[r] = NoReply
    /\ Existing(r) = {}
    /\ \/ /\ InsertTransfer(r)
          /\ reply' = [reply EXCEPT ![r] = r]
          /\ UNCHANGED faults
       \/ /\ Fault("db")
          /\ status' = [status EXCEPT ![r] = "PENDING"]
          /\ due' = [due EXCEPT ![r] = TRUE]
          /\ UNCHANGED <<transfers, reply, attemptCount, locked>>
    /\ UNCHANGED <<delivered, dispatcherVars>>

\* CreateTransfer: insert, or answer with the transfer the key already has.
\* After a database error the client does not know whether it was created.
Create(r) ==
    /\ reply[r] = NoReply
    /\ \/ /\ Existing(r) = {}
          /\ InsertTransfer(r)
          /\ reply' = [reply EXCEPT ![r] = r]
          /\ UNCHANGED faults
       \/ /\ \E t \in Existing(r) : reply' = [reply EXCEPT ![r] = t]
          /\ UNCHANGED <<transfers, rowVars, faults>>
       \/ /\ Existing(r) = {}
          /\ Fault("db")
          /\ InsertTransfer(r)
          /\ UNCHANGED reply
       \/ /\ Fault("db")
          /\ UNCHANGED <<transfers, rowVars, reply>>
    /\ UNCHANGED <<delivered, dispatcherVars>>

-----------------------------------------------------------------------------
(* The dispatcher *)

\* Mutant: the claim query forgets rows a dead dispatcher left PROCESSING.
FreshClaimable == {t \in Requests : status[t] \in {"PENDING", "RETRY"} /\ due[t]}

\* Rows ClaimPendingOutbox may take.
Claimable == {t \in Requests :
                \/ status[t] \in {"PENDING", "RETRY"} /\ due[t]
                \/ status[t] = "PROCESSING" /\ locked[t] = "stale"}

\* DispatchPending claims a batch; FOR UPDATE SKIP LOCKED keeps two claims from
\* taking the same row.
ClaimPendingOutbox(d) ==
    /\ pc[d] = "poll"
    /\ \E S \in SUBSET Claimable :
        /\ S # {} /\ Cardinality(S) <= BatchSize
        /\ status' = [t \in Requests |-> IF t \in S THEN "PROCESSING" ELSE status[t]]
        /\ locked' = [t \in Requests |-> IF t \in S THEN "fresh" ELSE locked[t]]
        /\ batch' = [batch EXCEPT ![d] =
                        {[id |-> t, count |-> attemptCount[t]] : t \in S}]
    /\ pc' = [pc EXCEPT ![d] = "next"]
    /\ UNCHANGED <<transfers, reply, attemptCount, due, delivered, event, faults>>

\* Mutant: the publish error is not looked at.
CarelessPublish(d) ==
    /\ pc[d] = "next"
    /\ \E e \in batch[d] :
        /\ event' = [event EXCEPT ![d] = e]
        /\ batch' = [batch EXCEPT ![d] = @ \ {e}]
        /\ Fault("broker")
        /\ pc' = [pc EXCEPT ![d] = "dispatched"]
    /\ UNCHANGED <<transfers, reply, rowVars, delivered>>

\* dispatchEvent, the publish. It uses no confirms, so the message may be lost
\* after Publish has returned; a publish that failed may have got through.
PublishEvent(d) ==
    /\ pc[d] = "next"
    /\ \E e \in batch[d] :
        /\ event' = [event EXCEPT ![d] = e]
        /\ batch' = [batch EXCEPT ![d] = @ \ {e}]
        /\ \/ /\ delivered' = delivered \cup {e.id}
              /\ pc' = [pc EXCEPT ![d] = "dispatched"]
              /\ UNCHANGED faults
           \/ /\ Fault("broker")
              /\ delivered' \in {delivered, delivered \cup {e.id}}
              /\ pc' = [pc EXCEPT ![d] = "retry"]
           \/ /\ Fault("unconfirmed")
              /\ pc' = [pc EXCEPT ![d] = "dispatched"]
              /\ UNCHANGED delivered
    /\ UNCHANGED <<transfers, reply, rowVars>>

\* The dispatcher goes on to the rest of its batch, or waits for the next tick.
NextEvent(d) ==
    /\ pc' = [pc EXCEPT ![d] = IF batch[d] = {} THEN "poll" ELSE "next"]
    /\ event' = [event EXCEPT ![d] = NoEvent]
    /\ UNCHANGED <<transfers, reply, delivered, batch>>

GREATEST(a, b) == IF a >= b THEN a ELSE b

\* Mutant: the row gets a status of the transfer.
MisnamedDispatched(d) ==
    /\ pc[d] = "dispatched"
    /\ status' = [status EXCEPT ![event[d].id] = "SUBMITTED"]
    /\ NextEvent(d)
    /\ UNCHANGED <<attemptCount, due, locked, faults>>

\* Mutant: attempt_count = $3.
OverwriteDispatched(d) ==
    LET t == event[d].id
    IN  /\ pc[d] = "dispatched"
        /\ attemptCount' = [attemptCount EXCEPT ![t] = event[d].count + 1]
        /\ status' = [status EXCEPT ![t] = "DISPATCHED"]
        /\ locked' = [locked EXCEPT ![t] = "none"]
        /\ NextEvent(d)
        /\ UNCHANGED <<due, faults>>

\* MarkOutboxDispatched, whoever holds the row by now.
MarkOutboxDispatched(d) ==
    LET t == event[d].id
    IN  /\ pc[d] = "dispatched"
        /\ IF status[t] # "DISPATCHED"
           THEN /\ status' = [status EXCEPT ![t] = "DISPATCHED"]
                /\ attemptCount' = [attemptCount EXCEPT ![t] =
                                        GREATEST(@, event[d].count + 1)]
                /\ locked' = [locked EXCEPT ![t] = "none"]
           ELSE UNCHANGED <<status, attemptCount, locked>>
        /\ NextEvent(d)
        /\ UNCHANGED <<due, faults>>

\* Mutant: the row keeps its status, but not its lock.
UnlockingRetry(d) ==
    LET t == event[d].id
    IN  /\ pc[d] = "retry"
        /\ attemptCount' = [attemptCount EXCEPT ![t] = event[d].count + 1]
        /\ locked' = [locked EXCEPT ![t] = "none"]
        /\ NextEvent(d)
        /\ UNCHANGED <<status, due, faults>>

\* scheduleRetry and MarkOutboxRetry: available again after the backoff.
MarkOutboxRetry(d) ==
    LET t == event[d].id
    IN  /\ pc[d] = "retry"
        /\ IF status[t] # "DISPATCHED"
           THEN /\ status' = [status EXCEPT ![t] = "RETRY"]
                /\ attemptCount' = [attemptCount EXCEPT ![t] =
                                        GREATEST(@, event[d].count + 1)]
                /\ due' = [due EXCEPT ![t] = FALSE]
                /\ locked' = [locked EXCEPT ![t] = "none"]
           ELSE UNCHANGED rowVars
        /\ NextEvent(d)
        /\ UNCHANGED faults

\* Either mark fails; the error is joined and the batch goes on. (A mark that
\* commits and then reports an error is a successful one to everybody else, and
\* a claim whose answer is lost is a claim followed by a crash.)
MarkFails(d) ==
    /\ pc[d] \in {"dispatched", "retry"}
    /\ Fault("db")
    /\ NextEvent(d)
    /\ UNCHANGED rowVars

\* The process dies: what it claimed stays PROCESSING.
Crash(d) ==
    /\ pc[d] # "poll"
    /\ Fault("crash")
    /\ pc' = [pc EXCEPT ![d] = "poll"]
    /\ batch' = [batch EXCEPT ![d] = {}]
    /\ event' = [event EXCEPT ![d] = NoEvent]
    /\ UNCHANGED <<transfers, reply, rowVars, delivered>>

-----------------------------------------------------------------------------
(* Time *)

BecomesDue(t) ==
    /\ status[t] = "RETRY"
    /\ ~due[t]
    /\ due' = [due EXCEPT ![t] = TRUE]
    /\ UNCHANGED <<transfers, reply, status, attemptCount, locked, delivered,
                   dispatcherVars, faults>>

\* Some dispatcher still has t in hand.
InHand(t) == \E d \in Dispatchers :
                event[d].id = t \/ \E e \in batch[d] : e.id = t

\* The processing timeout passes, normally because the dispatcher is gone, or
\* while one is slow or has a long batch.
BecomesStale(t) ==
    /\ locked[t] = "fresh"
    /\ \/ ~InHand(t) /\ UNCHANGED faults
       \/ InHand(t) /\ Fault("slow")
    /\ locked' = [locked EXCEPT ![t] = "stale"]
    /\ UNCHANGED <<transfers, reply, status, attemptCount, due, delivered,
                   dispatcherVars>>

-----------------------------------------------------------------------------
(* Specification *)

Init ==
    /\ transfers = {}
    /\ reply = [r \in Requests |-> NoReply]
    /\ status = [r \in Requests |-> "NONE"]
    /\ attemptCount = [r \in Requests |-> 0]
    /\ due = [r \in Requests |-> FALSE]
    /\ locked = [r \in Requests |-> "none"]
    /\ delivered = {}
    /\ pc = [d \in Dispatchers |-> "poll"]
    /\ batch = [d \in Dispatchers |-> {}]
    /\ event = [d \in Dispatchers |-> NoEvent]
    /\ faults = 0

DispatcherStep(d) ==
    \/ ClaimPendingOutbox(d)
    \/ PublishEvent(d)
    \/ MarkOutboxDispatched(d)
    \/ MarkOutboxRetry(d)

Next ==
    \/ \E r \in Requests : Create(r) \/ BecomesDue(r) \/ BecomesStale(r)
    \/ \E d \in Dispatchers : DispatcherStep(d) \/ MarkFails(d) \/ Crash(d)

Spec == Init /\ [][Next]_vars

\* The dispatcher loop keeps polling, and time passes.
FairSpec ==
    /\ Spec
    /\ \A d \in Dispatchers : WF_vars(DispatcherStep(d))
    /\ \A r \in Requests : WF_vars(BecomesDue(r)) /\ WF_vars(BecomesStale(r))

-----------------------------------------------------------------------------
(* Properties *)

(* Type correctness of the tables and of the dispatchers' locals. *)
TypeOK ==
    /\ transfers \subseteq Requests
    /\ reply \in [Requests -> Requests \cup {NoReply}]
    /\ status \in [Requests -> Statuses]
    /\ attemptCount \in [Requests -> Nat]
    /\ due \in [Requests -> BOOLEAN]
    /\ locked \in [Requests -> {"none", "fresh", "stale"}]
    /\ delivered \subseteq Requests
    /\ pc \in [Dispatchers -> {"poll", "next", "dispatched", "retry"}]
    /\ batch \in [Dispatchers -> SUBSET Events]
    /\ event \in [Dispatchers -> Events \cup {NoEvent}]
    /\ faults \in 0..MaxFaults

(* Clients that retry a request with the same key, after an answer or after   *)
(* an error that may have hidden a commit, all get one transfer, and it has   *)
(* its outbox row (Create of postgres_repository.go: one transaction, ON      *)
(* CONFLICT DO NOTHING).                                                      *)
IdempotentCreate ==
    \A r \in Requests : reply[r] # NoReply =>
        /\ reply[r] \in transfers
        /\ status[reply[r]] # "NONE"
        /\ \A q \in Requests : q[1] = r[1] /\ reply[q] # NoReply
                => reply[q] = reply[r]

(* No row falls out of the dispatchers' sight: an undispatched row is waiting *)
(* to be claimed, or PROCESSING under a lock that can go stale. A PROCESSING  *)
(* row without locked_at would match neither branch of ClaimPendingOutbox.    *)
RowsRecoverable ==
    \A t \in transfers :
        \/ status[t] \in {"PENDING", "RETRY", "DISPATCHED"}
        \/ status[t] = "PROCESSING" /\ locked[t] # "none"

(* What a stale dispatcher may not undo, although its marks are not fenced:   *)
(* DISPATCHED stays, and attempt_count never goes back (status <> DISPATCHED  *)
(* and GREATEST in MarkOutboxDispatched and MarkOutboxRetry).                 *)
NoStaleUndo ==
    [][\A t \in Requests :
        /\ status[t] = "DISPATCHED" => status'[t] = "DISPATCHED"
        /\ attemptCount'[t] >= attemptCount[t]]_vars

(* docs/architecture.md: the dispatcher "updates the row only after the       *)
(* broker acknowledges the publish path". A DISPATCHED row is never claimed   *)
(* again, so its job must have reached the broker.                            *)
DispatchedWasPublished ==
    \A t \in transfers : status[t] = "DISPATCHED" => t \in delivered

(* Every committed transfer is dispatched in the end, through failed          *)
(* publishes, failed marks, crashes and slow dispatchers.                     *)
EventuallyDispatched ==
    \A r \in Requests : r \in transfers ~> status[r] = "DISPATCHED"
=============================================================================
