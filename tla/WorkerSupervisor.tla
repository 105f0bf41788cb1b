-------------------------- MODULE WorkerSupervisor --------------------------
(***************************************************************************)
(* The worker process: RunWorker starts one supervisor goroutine for each   *)
(* subsystem (outbox dispatcher, transfer consumer, webhook worker), waits  *)
(* for a stop signal or a fatal error, and returns when every supervisor    *)
(* has (app/worker.go). The status tracker behind /healthz is written by    *)
(* the supervisors (app/worker_health.go).                                  *)
(*                                                                          *)
(* Abstractions.                                                            *)
(*  - run(ctx) is a step that ends with a result, after a run longer than   *)
(*    the healthy threshold or a shorter one.                               *)
(*  - The functions RunWorker passes turn context.Canceled into nil, so the *)
(*    supervisor's branch for that error is never taken. A nil result while *)
(*    the context is live happens: the consumer's retryJob returns          *)
(*    context.Canceled when only its processing context is cancelled.       *)
(*  - The process has one broker connection, opened before the supervisors  *)
(*    start; no code opens another (platform/rabbitmq/rabbitmq.go).         *)
(*  - Of the tracker, the status and the consecutive failures are kept;     *)
(*    restart counts, error texts and times are report data only.           *)
(*  - A supervisor's checks of the context, its tracker call and its sends  *)
(*    between two blocking points are one step.                             *)
(***************************************************************************)
EXTENDS Naturals

CONSTANTS
    Subsystems,      \* names of the supervised subsystems
    Consumers,       \* those that begin with a subscription at the broker
    NoSubsystem,     \* the error channel is empty
    MaxFailures,     \* maxConsecutiveSubsystemFailures
    InitialBackoff,  \* initialSubsystemRestartBackoff
    MaxBackoff       \* maxSubsystemRestartBackoff

ASSUME SupervisorAssumption ==
    /\ Consumers \subseteq Subsystems
    /\ NoSubsystem \notin Subsystems
    /\ MaxFailures \in Nat \ {0}
    /\ InitialBackoff \in Nat \ {0}
    /\ MaxBackoff \in Nat
    /\ InitialBackoff <= MaxBackoff

VARIABLES
    pc,        \* where the supervisor is
    subscribed,\* run got what it begins with: a subscription, for a consumer
    exit,      \* what run returned
    failures,  \* consecutiveFailures
    backoff,   \* the next restart delay
    tracked,   \* the tracker's status of the subsystem
    reported,  \* the tracker's ConsecutiveFailures
    fatalErrs, \* fatalSubsystemErrs, a channel with room for one error
    conn,      \* the broker connection is open
    healthErr, \* the health server's error is in its channel
    stop,      \* the process was asked to stop: the root context is cancelled
    cancelled, \* runCtx is cancelled
    main,      \* where RunWorker is
    result     \* what RunWorker will return

supervisorVars == <<pc, subscribed, exit, failures, backoff, tracked, reported,
                    fatalErrs>>
mainVars == <<conn, healthErr, stop, cancelled, main, result>>
vars == <<supervisorVars, mainVars>>

TrackedStatuses == {"starting", "running", "restarting", "stopped", "fatal"}

-----------------------------------------------------------------------------
(* superviseWorkerSubsystem *)

\* Consume: the client checks its connection and opens a channel on it.
Consume(s) == s \in Consumers => conn

\* Mutant: the context is not checked before the next run.
IgnorantStart(s) ==
    /\ pc[s] = "top"
    /\ pc' = [pc EXCEPT ![s] = "run"]
    /\ tracked' = [tracked EXCEPT ![s] = "running"]
    /\ subscribed' = [subscribed EXCEPT ![s] = Consume(s)]
    /\ UNCHANGED <<exit, failures, backoff, reported, fatalErrs, mainVars>>

\* The top of the loop: MarkRunning and the beginning of run, unless the worker
\* is stopping. The tracker is not told about a supervisor that stops here.
Start(s) ==
    /\ pc[s] = "top"
    /\ IF cancelled
       THEN pc' = [pc EXCEPT ![s] = "done"] /\ UNCHANGED <<tracked, subscribed>>
       ELSE /\ pc' = [pc EXCEPT ![s] = "run"]
            /\ tracked' = [tracked EXCEPT ![s] = "running"]
            /\ subscribed' = [subscribed EXCEPT ![s] = Consume(s)]
    /\ UNCHANGED <<exit, failures, backoff, reported, fatalErrs, mainVars>>

\* Mutant: a healthy run resets the failures and not the delay.
ForgetfulRunReturns(s) ==
    /\ pc[s] = "run"
    /\ pc' = [pc EXCEPT ![s] = "returned"]
    /\ \E r \in {"nil", "error"}, healthy \in BOOLEAN :
        /\ exit' = [exit EXCEPT ![s] = r]
        /\ failures' = [failures EXCEPT ![s] = IF healthy THEN 0 ELSE @]
    /\ UNCHANGED <<subscribed, backoff, tracked, reported, fatalErrs, mainVars>>

\* Mutant: the time of a run includes the wait before it.
ForgivingRunReturns(s) ==
    /\ pc[s] = "run"
    /\ pc' = [pc EXCEPT ![s] = "returned"]
    /\ \E r \in {"nil", "error"}, healthy \in BOOLEAN :
        /\ ~subscribed[s] => r = "error"
        /\ exit' = [exit EXCEPT ![s] = r]
        /\ failures' = [failures EXCEPT ![s] = IF healthy THEN 0 ELSE @]
        /\ backoff' = [backoff EXCEPT ![s] = IF healthy THEN InitialBackoff ELSE @]
    /\ UNCHANGED <<subscribed, tracked, reported, fatalErrs, mainVars>>

\* run(ctx) returns, at once with an error if it got no subscription; a healthy
\* run clears the record.
RunReturns(s) ==
    /\ pc[s] = "run"
    /\ pc' = [pc EXCEPT ![s] = "returned"]
    /\ \E r \in {"nil", "error"}, healthy \in BOOLEAN :
        /\ ~subscribed[s] => r = "error" /\ ~healthy
        /\ exit' = [exit EXCEPT ![s] = r]
        /\ failures' = [failures EXCEPT ![s] = IF healthy THEN 0 ELSE @]
        /\ backoff' = [backoff EXCEPT ![s] = IF healthy THEN InitialBackoff ELSE @]
    /\ UNCHANGED <<subscribed, tracked, reported, fatalErrs, mainVars>>

\* Mutant: a failure is counted without telling the tracker's status.
SilentSettle(s) ==
    /\ pc[s] = "returned"
    /\ failures' = [failures EXCEPT ![s] = @ + 1]
    /\ reported' = [reported EXCEPT ![s] = failures[s] + 1]
    /\ pc' = [pc EXCEPT ![s] = "budget"]
    /\ UNCHANGED <<subscribed, exit, backoff, tracked, fatalErrs, mainVars>>

\* The switch on the result: MarkStopped, or one more failure and MarkRestarting.
Settle(s) ==
    /\ pc[s] = "returned"
    /\ \/ /\ exit[s] = "nil" /\ cancelled
          /\ tracked' = [tracked EXCEPT ![s] = "stopped"]
          /\ pc' = [pc EXCEPT ![s] = "done"]
          /\ UNCHANGED <<failures, reported>>
       \/ /\ exit[s] # "nil" \/ ~cancelled
          /\ failures' = [failures EXCEPT ![s] = @ + 1]
          /\ reported' = [reported EXCEPT ![s] = failures[s] + 1]
          /\ tracked' = [tracked EXCEPT ![s] = "restarting"]
          /\ pc' = [pc EXCEPT ![s] = "budget"]
    /\ UNCHANGED <<subscribed, exit, backoff, fatalErrs, mainVars>>

\* Mutant: the fatal error is logged and not sent.
LoggedCheckBudget(s) ==
    /\ pc[s] = "budget"
    /\ IF failures[s] >= MaxFailures
       THEN /\ tracked' = [tracked EXCEPT ![s] = "fatal"]
            /\ pc' = [pc EXCEPT ![s] = "done"]
       ELSE pc' = [pc EXCEPT ![s] = "backoff"] /\ UNCHANGED tracked
    /\ UNCHANGED <<subscribed, exit, failures, backoff, reported, fatalErrs, mainVars>>

\* Mutant: the first failure is fatal.
ImpatientCheckBudget(s) ==
    /\ pc[s] = "budget"
    /\ pc' = [pc EXCEPT ![s] = "done"]
    /\ fatalErrs' = s
    /\ UNCHANGED <<subscribed, exit, failures, backoff, tracked, reported, mainVars>>

\* Over the budget: MarkFatal, a send that drops the error when the channel is
\* full, and the end. Otherwise the supervisor waits.
CheckBudget(s) ==
    /\ pc[s] = "budget"
    /\ \/ /\ failures[s] >= MaxFailures
          /\ tracked' = [tracked EXCEPT ![s] = "fatal"]
          /\ reported' = [reported EXCEPT ![s] = failures[s]]
          /\ fatalErrs' = IF fatalErrs = NoSubsystem THEN s ELSE fatalErrs
          /\ pc' = [pc EXCEPT ![s] = "done"]
       \/ /\ failures[s] < MaxFailures
          /\ pc' = [pc EXCEPT ![s] = "backoff"]
          /\ UNCHANGED <<tracked, reported, fatalErrs>>
    /\ UNCHANGED <<subscribed, exit, failures, backoff, mainVars>>

Least(a, b) == IF a <= b THEN a ELSE b

\* Mutant: the delay is not capped.
UncappedBackoffEnds(s) ==
    /\ pc[s] = "backoff"
    /\ backoff' = [backoff EXCEPT ![s] = @ * 2]
    /\ pc' = [pc EXCEPT ![s] = "top"]
    /\ UNCHANGED <<subscribed, exit, failures, tracked, reported, fatalErrs, mainVars>>

\* The restart timer fires, possibly although the worker is stopping.
BackoffEnds(s) ==
    /\ pc[s] = "backoff"
    /\ backoff' = [backoff EXCEPT ![s] = Least(@ * 2, MaxBackoff)]
    /\ pc' = [pc EXCEPT ![s] = "top"]
    /\ UNCHANGED <<subscribed, exit, failures, tracked, reported, fatalErrs, mainVars>>

\* The worker stops while the supervisor waits.
BackoffCancelled(s) ==
    /\ pc[s] = "backoff"
    /\ cancelled
    /\ tracked' = [tracked EXCEPT ![s] = "stopped"]
    /\ pc' = [pc EXCEPT ![s] = "done"]
    /\ UNCHANGED <<subscribed, exit, failures, backoff, reported, fatalErrs, mainVars>>

-----------------------------------------------------------------------------
(* RunWorker *)

\* A signal cancels the root context, and runCtx with it.
StopRequested ==
    /\ ~stop
    /\ stop' = TRUE
    /\ cancelled' = TRUE
    /\ UNCHANGED <<supervisorVars, conn, healthErr, main, result>>

\* The broker connection breaks. It stays broken.
ConnectionLost ==
    /\ main # "returned"
    /\ conn
    /\ conn' = FALSE
    /\ UNCHANGED <<supervisorVars, healthErr, stop, cancelled, main, result>>

\* ListenAndServe of the health server fails.
HealthServerFails ==
    /\ main # "returned"
    /\ ~healthErr
    /\ healthErr' = TRUE
    /\ UNCHANGED <<supervisorVars, conn, stop, cancelled, main, result>>

\* The select; of several ready cases any may be taken.
Select ==
    /\ main = "select"
    /\ main' = "wait"
    /\ \/ healthErr /\ result' = "health" /\ cancelled' = TRUE
       \/ fatalErrs # NoSubsystem /\ result' = "fatal" /\ cancelled' = TRUE
       \/ stop /\ UNCHANGED <<result, cancelled>>
    /\ UNCHANGED <<supervisorVars, conn, healthErr, stop>>

\* waitGroup.Wait: every supervisor has returned.
Wait ==
    /\ main = "wait"
    /\ \A s \in Subsystems : pc[s] = "done"
    /\ main' = "returned"
    /\ UNCHANGED <<supervisorVars, conn, healthErr, stop, cancelled, result>>

-----------------------------------------------------------------------------
(* Specification *)

Init ==
    /\ pc = [s \in Subsystems |-> "top"]
    /\ subscribed = [s \in Subsystems |-> FALSE]
    /\ exit = [s \in Subsystems |-> "nil"]
    /\ failures = [s \in Subsystems |-> 0]
    /\ backoff = [s \in Subsystems |-> InitialBackoff]
    /\ tracked = [s \in Subsystems |-> "starting"]
    /\ reported = [s \in Subsystems |-> 0]
    /\ fatalErrs = NoSubsystem
    /\ conn = TRUE
    /\ healthErr = FALSE
    /\ stop = FALSE
    /\ cancelled = FALSE
    /\ main = "select"
    /\ result = "nil"

\* What a supervisor does by itself.
SupervisorStep(s) ==
    \/ Start(s)
    \/ Settle(s)
    \/ CheckBudget(s)
    \/ BackoffEnds(s)
    \/ BackoffCancelled(s)

Next ==
    \/ \E s \in Subsystems : SupervisorStep(s) \/ RunReturns(s)
    \/ StopRequested
    \/ ConnectionLost
    \/ HealthServerFails
    \/ Select
    \/ Wait

Spec == Init /\ [][Next]_vars

\* Goroutines run, timers fire, and a subsystem whose context is cancelled
\* returns, as does a consumer when its delivery channel is closed with the
\* connection; otherwise it may run forever.
FairSpec ==
    /\ Spec
    /\ \A s \in Subsystems : /\ WF_vars(SupervisorStep(s))
                             /\ WF_vars((cancelled \/ ~Consume(s)) /\ RunReturns(s))
    /\ WF_vars(Select)
    /\ WF_vars(Wait)

-----------------------------------------------------------------------------
(* Properties *)

(* Type correctness of the supervisors, the tracker and RunWorker. *)
TypeOK ==
    /\ pc \in [Subsystems -> {"top", "run", "returned", "budget", "backoff", "done"}]
    /\ subscribed \in [Subsystems -> BOOLEAN]
    /\ exit \in [Subsystems -> {"nil", "error"}]
    /\ failures \in [Subsystems -> 0..MaxFailures]
    /\ backoff \in [Subsystems -> InitialBackoff..MaxBackoff]
    /\ tracked \in [Subsystems -> TrackedStatuses]
    /\ reported \in [Subsystems -> 0..MaxFailures]
    /\ fatalErrs \in Subsystems \cup {NoSubsystem}
    /\ conn \in BOOLEAN
    /\ healthErr \in BOOLEAN
    /\ stop \in BOOLEAN
    /\ cancelled \in BOOLEAN
    /\ main \in {"select", "wait", "returned"}
    /\ result \in {"nil", "health", "fatal"}

(* docs/reliability-model.md: "each subsystem restarts with exponential       *)
(* backoff". After k failures in a row the wait is the initial delay doubled  *)
(* k - 1 times, up to the maximum, and the tracker reports k: the counter and *)
(* the delay are kept apart, and a healthy run must reset both.               *)
BackoffMatchesFailures ==
    \A s \in Subsystems : pc[s] = "backoff" =>
        /\ failures[s] \in 1..(MaxFailures - 1)
        /\ backoff[s] = Least(InitialBackoff * 2 ^ (failures[s] - 1), MaxBackoff)
        /\ reported[s] = failures[s]

(* What Report answers. *)
HealthOK == \A s \in Subsystems : tracked[s] = "running"

(* The health endpoint does not vouch for the dead: when it answers "ok",     *)
(* every subsystem is running, or has returned this moment. Every way out of  *)
(* the supervisor's loop must have told the tracker, or never have told it    *)
(* that the subsystem runs.                                                   *)
OkMeansAlive ==
    HealthOK => \A s \in Subsystems : pc[s] \in {"run", "returned"}

(* docs/reliability-model.md: "a failure in one subsystem does not            *)
(* immediately stop the others". They are stopped by a signal, by the health  *)
(* server, or by a subsystem that has used up its failure budget.             *)
FailuresIsolated ==
    cancelled =>
        \/ stop
        \/ result = "health" /\ healthErr
        \/ \E s \in Subsystems : tracked[s] = "fatal" /\ failures[s] = MaxFailures

(* docs/architecture.md: "the worker waits for supervised subsystems to stop  *)
(* after the root context is cancelled". The wait ends.                       *)
Drains == cancelled ~> main = "returned"

(* docs/reliability-model.md: "the worker exits if a subsystem exceeds its    *)
(* consecutive failure budget instead of looping forever in a broken state",  *)
(* although its error may be dropped for want of room in the channel.         *)
FatalExits ==
    \A s \in Subsystems : tracked[s] = "fatal" ~> main = "returned"

(* A worker that has lost the broker does not stay up without one: nothing    *)
(* reconnects, so the consumer's restarts fail one after the other until its  *)
(* budget is spent, and the process returns, to be started again with a new   *)
(* connection. A restart that fails at once must not pass for a healthy run.  *)
ConnectionLossExits == Consumers # {} => (~conn ~> main = "returned")
=============================================================================
