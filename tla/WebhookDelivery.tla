--------------------------- MODULE WebhookDelivery ---------------------------
(***************************************************************************)
(* The webhook worker: status changes become delivery rows, workers claim   *)
(* due rows under a lease, post the callback and record the outcome, fenced *)
(* on the lease they claimed (webhooks/service.go, worker.go, dispatcher.go *)
(* and postgres_repository.go).                                             *)
(*                                                                          *)
(* The lease is modelled as it is stored: lease_expires_at is a timestamp,  *)
(* NOW() plus the lease duration, and the fence compares timestamps. That   *)
(* two claims of a row never carry the same one is a consequence to check.  *)
(*                                                                          *)
(* Abstractions.                                                            *)
(*  - Events are the status history rows ScheduleTransferStatusDeliveries   *)
(*    selects: status SUBMITTED, CONFIRMED or FAILED of a transfer with a   *)
(*    callback URL. Payload, URL checks and signatures are left out.        *)
(*  - Time advances when every worker waits and nothing is due; advancing   *)
(*    it while somebody works is a "slow" failure and spends the budget, so *)
(*    the clock is bounded without an artificial limit.                     *)
(*  - The order within a batch (next_attempt_at) is left open.              *)
(*  - A cancelled context ends a cycle like a crash does: the request may   *)
(*    have been sent and no result is stored.                               *)
(***************************************************************************)
EXTENDS Naturals, FiniteSets

CONSTANTS
    Events,         \* webhook-eligible transfer_status_history rows
    Workers,        \* webhook workers
    NoDelivery,     \* a worker between deliveries
    MaxAttempts,    \* WEBHOOK_MAX_ATTEMPTS
    InitialBackoff, \* WEBHOOK_INITIAL_BACKOFF
    LeaseDuration,  \* the effective lease duration
    BatchSize,      \* WEBHOOK_BATCH_SIZE
    Faults,         \* the kinds of failure that may happen
    MaxFaults       \* bound: how many failures happen in a behaviour

\* ok: 2xx. refused: any other status a row can store. odd: a status above 599.
\* error: no answer, with or without the receiver seeing the request.
ResponseKinds == {"ok", "refused", "odd", "error"}

FaultKinds == {"crash", "db", "slow", "odd"}

ASSUME WebhookAssumption ==
    /\ NoDelivery \notin Events
    /\ IsFiniteSet(Workers)
    /\ MaxAttempts \in Nat \ {0}
    /\ InitialBackoff \in Nat \ {0}
    /\ LeaseDuration \in Nat \ {0}
    /\ BatchSize \in Nat \ {0}
    /\ MaxFaults \in Nat
    /\ Faults \subseteq FaultKinds

VARIABLES
    happened,     \* status changes so far
    status,       \* webhook_deliveries.delivery_status, NONE without a row
    attemptCount, \* webhook_deliveries.attempt_count
    nextAt,       \* webhook_deliveries.next_attempt_at
    lease,        \* webhook_deliveries.lease_expires_at, 0 for NULL
    sends,        \* how often the callback was sent
    accepted,     \* events a receiver has answered with 2xx
    pc,           \* where the worker is
    batch,        \* claimed deliveries it has not handled yet
    delivery,     \* the delivery it handles
    result,       \* what Dispatch returned for it
    now,          \* the clock
    faults        \* failures so far

rowVars == <<status, attemptCount, nextAt, lease>>
workerVars == <<pc, batch, delivery, result>>
vars == <<happened, rowVars, sends, accepted, workerVars, now, faults>>

Statuses == {"NONE", "PENDING", "RETRYING", "IN_PROGRESS", "DELIVERED", "FAILED"}

Final == {"DELIVERED", "FAILED"}

\* A claimed row as the worker holds it.
Claims == [id : Events, count : Nat, lease : Nat]

NoClaim == [id |-> NoDelivery, count |-> 0, lease |-> 0]

Fault(k) == k \in Faults /\ faults < MaxFaults /\ faults' = faults + 1

-----------------------------------------------------------------------------
(* The cycle *)

\* A transfer gets a status that its owner is told about.
StatusChanges(e) ==
    /\ e \notin happened
    /\ happened' = happened \cup {e}
    /\ UNCHANGED <<rowVars, sends, accepted, workerVars, now, faults>>

\* History rows without a delivery; the others run into ON CONFLICT DO NOTHING.
Schedulable == {e \in happened : status[e] = "NONE"}

ScheduleTransferStatusDeliveries(w) ==
    /\ pc[w] = "wait"
    /\ Schedulable # {}
    /\ status' = [e \in Events |-> IF e \in Schedulable THEN "PENDING" ELSE status[e]]
    /\ nextAt' = [e \in Events |-> IF e \in Schedulable THEN now ELSE nextAt[e]]
    /\ attemptCount' =
        [e \in Events |-> IF e \in Schedulable THEN 0 ELSE attemptCount[e]]
    /\ UNCHANGED <<happened, lease, sends, accepted, workerVars, now, faults>>

\* Mutant: rows IN_PROGRESS are taken over whatever their lease.
Grabbable == {e \in Events :
                \/ status[e] \in {"PENDING", "RETRYING"} /\ nextAt[e] <= now
                \/ status[e] = "IN_PROGRESS"}

\* Mutant: rows IN_PROGRESS are left to the worker that claimed them.
Unclaimed == {e \in Events : /\ status[e] \in {"PENDING", "RETRYING"}
                             /\ nextAt[e] <= now}

\* Rows ClaimDueDeliveries may take.
Due == {e \in Events :
            \/ status[e] \in {"PENDING", "RETRYING"} /\ nextAt[e] <= now
            \/ status[e] = "IN_PROGRESS" /\ lease[e] # 0 /\ lease[e] <= now}

\* Claim a batch of due rows and lease each of them.
ClaimDueDeliveries(w) ==
    /\ pc[w] = "wait"
    /\ \E S \in SUBSET Due :
        /\ S # {} /\ Cardinality(S) <= BatchSize
        /\ status' = [e \in Events |-> IF e \in S THEN "IN_PROGRESS" ELSE status[e]]
        /\ lease' = [e \in Events |->
                        IF e \in S THEN now + LeaseDuration ELSE lease[e]]
        /\ batch' = [batch EXCEPT ![w] =
                        {[id |-> e, count |-> attemptCount[e],
                          lease |-> now + LeaseDuration] : e \in S}]
    /\ pc' = [pc EXCEPT ![w] = "dispatch"]
    /\ UNCHANGED <<happened, attemptCount, nextAt, sends, accepted, delivery,
                   result, now, faults>>

\* processDelivery, the request: the lease is not looked at again before it.
Dispatch(w) ==
    /\ pc[w] = "dispatch"
    /\ \E c \in batch[w], r \in ResponseKinds :
        /\ IF r = "odd" THEN Fault("odd") ELSE UNCHANGED faults
        /\ delivery' = [delivery EXCEPT ![w] = c]
        /\ batch' = [batch EXCEPT ![w] = @ \ {c}]
        /\ result' = [result EXCEPT ![w] = r]
        /\ sends' = [sends EXCEPT ![c.id] = @ + 1]
        /\ accepted' = IF r = "ok" THEN accepted \cup {c.id} ELSE accepted
    /\ pc' = [pc EXCEPT ![w] = "mark"]
    /\ UNCHANGED <<happened, rowVars, now>>

-----------------------------------------------------------------------------
(* Recording the result *)

\* The worker goes on with its batch.
NextDelivery(w) ==
    /\ pc' = [pc EXCEPT ![w] = IF batch[w] = {} THEN "wait" ELSE "dispatch"]
    /\ delivery' = [delivery EXCEPT ![w] = NoClaim]
    /\ result' = [result EXCEPT ![w] = "error"]
    /\ UNCHANGED batch

\* RunCycle returns an error: the rest of the batch is left to the leases.
EndCycle(w) ==
    /\ pc' = [pc EXCEPT ![w] = "wait"]
    /\ batch' = [batch EXCEPT ![w] = {}]
    /\ delivery' = [delivery EXCEPT ![w] = NoClaim]
    /\ result' = [result EXCEPT ![w] = "error"]

\* Mutant: the WHERE clause names the row only.
Unfenced(w) == TRUE

\* The WHERE clause of the three Mark operations.
HasLease(w) ==
    LET c == delivery[w]
    IN  status[c.id] = "IN_PROGRESS" /\ lease[c.id] = c.lease

\* Mutant: the budget is compared with > instead of >=.
GenerousOutcome(w) ==
    IF result[w] = "ok" THEN "DELIVERED"
    ELSE IF delivery[w].count + 1 > MaxAttempts THEN "FAILED"
    ELSE "RETRYING"

\* Mutant: the outbox's name for the status.
MisnamedOutcome(w) == IF result[w] = "ok" THEN "DELIVERED" ELSE "RETRY"

\* Mutant: any answer counts as delivered.
AnsweredOutcome(w) ==
    IF result[w] # "error" THEN "DELIVERED"
    ELSE IF delivery[w].count + 1 >= MaxAttempts THEN "FAILED"
    ELSE "RETRYING"

\* What processDelivery records for the result: MarkDelivered, MarkFailed or
\* MarkRetry.
Outcome(w) ==
    IF result[w] = "ok" THEN "DELIVERED"
    ELSE IF delivery[w].count + 1 >= MaxAttempts THEN "FAILED"
    ELSE "RETRYING"

\* The wait before the next attempt.
BackoffForAttempt(a) == InitialBackoff * 2 ^ (a - 1)

\* Mutant: the lease is not cleared.
LeasedOutcome(w, o) ==
    LET c == delivery[w]
    IN  /\ status' = [status EXCEPT ![c.id] = o]
        /\ attemptCount' = [attemptCount EXCEPT ![c.id] = c.count + 1]
        /\ nextAt' = [nextAt EXCEPT ![c.id] = now + InitialBackoff]
        /\ UNCHANGED lease

\* Record outcome o in the row.
StoreOutcome(w, o) ==
    LET c == delivery[w]
        a == c.count + 1
    IN  /\ status' = [status EXCEPT ![c.id] = o]
        /\ attemptCount' = [attemptCount EXCEPT ![c.id] = a]
        /\ nextAt' = [nextAt EXCEPT ![c.id] =
                IF o = "RETRYING" THEN now + BackoffForAttempt(a) ELSE 0]
        /\ lease' = [lease EXCEPT ![c.id] = 0]

\* Mark the delivery; without the lease nothing is written and the result is
\* dropped.
Mark(w) ==
    /\ pc[w] = "mark"
    /\ \/ HasLease(w) /\ result[w] # "odd" /\ StoreOutcome(w, Outcome(w))
       \/ ~HasLease(w) /\ UNCHANGED rowVars
    /\ NextDelivery(w)
    /\ UNCHANGED <<happened, sends, accepted, now, faults>>

\* The update is an error: a status code the row's check constraint refuses, or
\* the database fails, having written or not.
MarkFails(w) ==
    /\ pc[w] = "mark"
    /\ \/ HasLease(w) /\ result[w] = "odd" /\ UNCHANGED <<rowVars, faults>>
       \/ Fault("db") /\ UNCHANGED rowVars
       \/ /\ HasLease(w) /\ result[w] # "odd"
          /\ Fault("db")
          /\ StoreOutcome(w, Outcome(w))
    /\ EndCycle(w)
    /\ UNCHANGED <<happened, sends, accepted, now>>

\* The process dies or is stopped; the leases it holds run out.
Crash(w) ==
    /\ pc[w] # "wait"
    /\ Fault("crash")
    /\ EndCycle(w)
    /\ UNCHANGED <<happened, rowVars, sends, accepted, now>>

-----------------------------------------------------------------------------
(* Time *)

\* Everybody waits, for a retry to become due or for a lease to run out.
Quiet ==
    /\ \A w \in Workers : pc[w] = "wait"
    /\ Schedulable = {}
    /\ Due = {}
    /\ \E e \in happened : nextAt[e] > now \/ lease[e] > now

Tick ==
    /\ Quiet
    /\ now' = now + 1
    /\ UNCHANGED <<happened, rowVars, sends, accepted, workerVars, faults>>

\* Time passes under a worker: a slow receiver, a long batch, a pause.
SlowTick ==
    /\ \E w \in Workers : pc[w] # "wait"
    /\ Fault("slow")
    /\ now' = now + 1
    /\ UNCHANGED <<happened, rowVars, sends, accepted, workerVars>>

-----------------------------------------------------------------------------
(* Specification *)

Init ==
    /\ happened = {}
    /\ status = [e \in Events |-> "NONE"]
    /\ attemptCount = [e \in Events |-> 0]
    /\ nextAt = [e \in Events |-> 0]
    /\ lease = [e \in Events |-> 0]
    /\ sends = [e \in Events |-> 0]
    /\ accepted = {}
    /\ pc = [w \in Workers |-> "wait"]
    /\ batch = [w \in Workers |-> {}]
    /\ delivery = [w \in Workers |-> NoClaim]
    /\ result = [w \in Workers |-> "error"]
    /\ now = 0
    /\ faults = 0

WorkerStep(w) ==
    \/ ScheduleTransferStatusDeliveries(w)
    \/ ClaimDueDeliveries(w)
    \/ Dispatch(w)
    \/ Mark(w)
    \/ MarkFails(w)

Next ==
    \/ \E e \in Events : StatusChanges(e)
    \/ \E w \in Workers : WorkerStep(w) \/ Crash(w)
    \/ Tick
    \/ SlowTick

Spec == Init /\ [][Next]_vars

\* The worker loop keeps polling, and time passes.
FairSpec ==
    /\ Spec
    /\ \A w \in Workers : WF_vars(WorkerStep(w))
    /\ WF_vars(Tick)

-----------------------------------------------------------------------------
(* Properties *)

(* Type correctness of the delivery rows and of the workers' locals. *)
TypeOK ==
    /\ happened \subseteq Events
    /\ status \in [Events -> Statuses]
    /\ attemptCount \in [Events -> Nat]
    /\ nextAt \in [Events -> Nat]
    /\ lease \in [Events -> Nat]
    /\ sends \in [Events -> Nat]
    /\ accepted \subseteq Events
    /\ pc \in [Workers -> {"wait", "dispatch", "mark"}]
    /\ batch \in [Workers -> SUBSET Claims]
    /\ delivery \in [Workers -> Claims \cup {NoClaim}]
    /\ result \in [Workers -> ResponseKinds]
    /\ now \in Nat
    /\ faults \in 0..MaxFaults

(* The check constraints of migration 000011 hold as consequences of the      *)
(* code: attempts stay within the budget, a row in progress has a lease and   *)
(* a row that waits for an attempt has none.                                  *)
RowsConsistent ==
    \A e \in Events :
        /\ attemptCount[e] <= MaxAttempts
        /\ (status[e] = "IN_PROGRESS") = (lease[e] # 0)
        /\ status[e] = "FAILED" => attemptCount[e] = MaxAttempts

\* The claims w still has to record.
Holds(w) == batch[w] \cup (IF delivery[w] = NoClaim THEN {} ELSE {delivery[w]})

(* The lease timestamp is a fencing token: of all the claims of a row that    *)
(* workers still hold, at most one carries the timestamp stored in the row    *)
(* (ClaimDueDeliveries leases a row only once its old lease has passed).      *)
OneOwner ==
    \A v, w \in Workers : \A b \in Holds(v), c \in Holds(w) :
        /\ b.id = c.id
        /\ lease[b.id] # 0 /\ lease[b.id] = b.lease /\ lease[c.id] = c.lease
        => v = w

(* A row that says DELIVERED was accepted by its receiver, even when several  *)
(* workers sent it and their results arrive in another order.                 *)
DeliveredWasAccepted ==
    \A e \in Events : status[e] = "DELIVERED" => e \in accepted

(* docs/reliability-model.md: "`WEBHOOK_MAX_ATTEMPTS` caps the retry budget." *)
(* With every failure, of a worker, of the database or of a receiver that     *)
(* answers with a status no row can store, at most one more send goes         *)
(* unrecorded.                                                                *)
SendBudget == \A e \in Events : sends[e] <= MaxAttempts + faults

(* The same sentence read literally, for a run in which nothing of Aegis      *)
(* fails: a callback is sent at most WEBHOOK_MAX_ATTEMPTS times.              *)
MaxAttemptsCapsSends == \A e \in Events : sends[e] <= MaxAttempts

(* No worker, however late, reopens a delivered or failed row, takes an       *)
(* attempt back or counts two at once (the fenced Mark operations).           *)
NoStaleResult ==
    [][\A e \in Events :
        /\ status[e] \in Final => status'[e] = status[e]
        /\ attemptCount'[e] \in {attemptCount[e], attemptCount[e] + 1}]_vars

(* Every status change is delivered or given up in the end, through crashes,  *)
(* lost leases and aborted cycles.                                            *)
EventuallyFinal ==
    \A e \in Events : e \in happened ~> status[e] \in Final
=============================================================================
