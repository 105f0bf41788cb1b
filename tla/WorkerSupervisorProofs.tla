----------------------- MODULE WorkerSupervisorProofs -----------------------
(***************************************************************************)
(* Theorems about WorkerSupervisor, for any set of subsystems, any failure  *)
(* budget and any delays.                                                   *)
(***************************************************************************)
EXTENDS WorkerSupervisor, FiniteSetTheorems, TLAPS

-----------------------------------------------------------------------------
(* The inductive invariant *)

(* A supervisor that may run its subsystem again has budget left. *)
BudgetLeft ==
    \A s \in Subsystems :
        pc[s] \in {"top", "run", "returned", "backoff"} => failures[s] < MaxFailures

(* The tracker says running only between MarkRunning and the next mark, and   *)
(* fatal only of a supervisor that has ended over its budget.                 *)
TrackerHonest ==
    \A s \in Subsystems :
        /\ tracked[s] = "running" => pc[s] \in {"run", "returned"}
        /\ tracked[s] = "fatal" => pc[s] = "done" /\ failures[s] = MaxFailures

(* An error in the channel is that of a fatal subsystem, and RunWorker has no *)
(* result before it leaves the select.                                        *)
ErrorsFounded ==
    /\ fatalErrs # NoSubsystem => tracked[fatalErrs] = "fatal"
    /\ main = "select" => result = "nil"

SupervisorInv ==
    TypeOK /\ BudgetLeft /\ TrackerHonest /\ ErrorsFounded /\ FailuresIsolated

-----------------------------------------------------------------------------
(* Initially *)

(* The invariant holds when the supervisors start. *)
LEMMA SupervisorInit == Init => SupervisorInv
  <1> SUFFICES ASSUME Init PROVE SupervisorInv
    OBVIOUS
  <1>1. TypeOK
    <2>1. 0 \in 0..MaxFailures /\ InitialBackoff \in InitialBackoff..MaxBackoff
      BY SupervisorAssumption
    <2> QED
      BY <2>1, Zenon DEF Init, TypeOK, TrackedStatuses
  <1>2. BudgetLeft /\ TrackerHonest /\ ErrorsFounded /\ FailuresIsolated
    BY SupervisorAssumption
    DEF Init, BudgetLeft, TrackerHonest, ErrorsFounded, FailuresIsolated
  <1> QED
    BY <1>1, <1>2 DEF SupervisorInv

-----------------------------------------------------------------------------
(* Every step *)

(* Doubling a delay stays within its bounds. *)
LEMMA DoubledDelay ==
    ASSUME NEW b \in InitialBackoff..MaxBackoff
    PROVE  Least(b * 2, MaxBackoff) \in InitialBackoff..MaxBackoff
  BY SupervisorAssumption DEF Least

(* A subsystem that is fatal stays so: no step of its supervisor is left. *)
LEMMA FatalStays ==
    ASSUME SupervisorInv, NEW s \in Subsystems,
           SupervisorStep(s) \/ RunReturns(s)
    PROVE  /\ tracked[s] # "fatal"
           /\ \A u \in Subsystems : u # s =>
                /\ tracked'[u] = tracked[u]
                /\ failures'[u] = failures[u]
                /\ pc'[u] = pc[u]
  <1>1. pc[s] # "done"
    BY DEF SupervisorStep, Start, Settle, CheckBudget, BackoffEnds,
           BackoffCancelled, RunReturns
  <1>2. tracked[s] # "fatal"
    BY <1>1 DEF SupervisorInv, TrackerHonest
  <1>3. \A u \in Subsystems : u # s =>
            /\ tracked'[u] = tracked[u]
            /\ failures'[u] = failures[u]
            /\ pc'[u] = pc[u]
    BY DEF SupervisorInv, TypeOK, SupervisorStep, Start, Settle, CheckBudget,
           BackoffEnds, BackoffCancelled, RunReturns
  <1> QED
    BY <1>2, <1>3

(* The errors and the reasons for stopping survive a supervisor's step. *)
LEMMA ReasonsStay ==
    ASSUME SupervisorInv, NEW s \in Subsystems,
           SupervisorStep(s) \/ RunReturns(s),
           UNCHANGED mainVars,
           fatalErrs' = fatalErrs \/ (fatalErrs' = s /\ tracked'[s] = "fatal")
    PROVE  ErrorsFounded' /\ FailuresIsolated'
  <1>1. ErrorsFounded'
    BY FatalStays DEF SupervisorInv, TypeOK, ErrorsFounded, mainVars
  <1>2. FailuresIsolated'
    BY FatalStays DEF SupervisorInv, FailuresIsolated, mainVars
  <1> QED
    BY <1>1, <1>2

(* The steps of a supervisor keep the invariant. *)
LEMMA SupervisorStepInv ==
    ASSUME SupervisorInv, NEW s \in Subsystems,
           SupervisorStep(s) \/ RunReturns(s)
    PROVE  SupervisorInv'
  <1>t. TypeOK /\ BudgetLeft /\ TrackerHonest
    BY DEF SupervisorInv
  <1>b. MaxFailures \in Nat /\ InitialBackoff \in InitialBackoff..MaxBackoff
    BY SupervisorAssumption
  <1>1. CASE Start(s)
    <2>c. Consume(s) \in BOOLEAN
      BY Zenon DEF Consume
    <2>1. TypeOK'
      BY <1>t, <1>1, <2>c DEF TypeOK, Start, TrackedStatuses, mainVars
    <2>2. BudgetLeft' /\ TrackerHonest'
      BY <1>t, <1>1 DEF TypeOK, BudgetLeft, TrackerHonest, Start
    <2>3. ErrorsFounded' /\ FailuresIsolated'
      BY <1>1, ReasonsStay DEF Start, SupervisorStep
    <2> QED
      BY <2>1, <2>2, <2>3 DEF SupervisorInv
  <1>2. CASE RunReturns(s)
    <2>1. TypeOK'
      BY <1>t, <1>b, <1>2 DEF TypeOK, RunReturns, mainVars
    <2>2. BudgetLeft' /\ TrackerHonest'
      BY <1>t, <1>2, SupervisorAssumption DEF TypeOK, BudgetLeft, TrackerHonest, RunReturns
    <2>3. ErrorsFounded' /\ FailuresIsolated'
      BY <1>2, ReasonsStay DEF RunReturns
    <2> QED
      BY <2>1, <2>2, <2>3 DEF SupervisorInv
  <1>3. CASE Settle(s)
    <2>1. failures[s] + 1 \in 0..MaxFailures
      BY <1>t, <1>b, <1>3 DEF TypeOK, BudgetLeft, Settle
    <2>2. TypeOK'
      BY <1>t, <1>3, <2>1 DEF TypeOK, Settle, TrackedStatuses, mainVars
    <2>3. BudgetLeft' /\ TrackerHonest'
      BY <1>t, <1>3 DEF TypeOK, BudgetLeft, TrackerHonest, Settle
    <2>4. ErrorsFounded' /\ FailuresIsolated'
      BY <1>3, ReasonsStay DEF Settle, SupervisorStep
    <2> QED
      BY <2>2, <2>3, <2>4 DEF SupervisorInv
  <1>4. CASE CheckBudget(s)
    <2>1. TypeOK'
      BY <1>t, <1>4 DEF TypeOK, CheckBudget, TrackedStatuses, mainVars
    <2>2. failures[s] >= MaxFailures => failures[s] = MaxFailures
      BY <1>t, <1>b DEF TypeOK
    <2>3. BudgetLeft' /\ TrackerHonest'
      BY <1>t, <1>4, <2>2 DEF TypeOK, BudgetLeft, TrackerHonest, CheckBudget
    <2>4. fatalErrs' = fatalErrs \/ (fatalErrs' = s /\ tracked'[s] = "fatal")
      BY <1>t, <1>4 DEF TypeOK, CheckBudget
    <2>5. ErrorsFounded' /\ FailuresIsolated'
      BY <1>4, <2>4, ReasonsStay DEF CheckBudget, SupervisorStep
    <2> QED
      BY <2>1, <2>3, <2>5 DEF SupervisorInv
  <1>5. CASE BackoffEnds(s)
    <2>1. Least(backoff[s] * 2, MaxBackoff) \in InitialBackoff..MaxBackoff
      BY <1>t, DoubledDelay DEF TypeOK
    <2>2. TypeOK'
      BY <1>t, <1>5, <2>1 DEF TypeOK, BackoffEnds, mainVars
    <2>3. BudgetLeft' /\ TrackerHonest'
      BY <1>t, <1>5 DEF TypeOK, BudgetLeft, TrackerHonest, BackoffEnds
    <2>4. ErrorsFounded' /\ FailuresIsolated'
      BY <1>5, ReasonsStay DEF BackoffEnds, SupervisorStep
    <2> QED
      BY <2>2, <2>3, <2>4 DEF SupervisorInv
  <1>6. CASE BackoffCancelled(s)
    <2>1. TypeOK'
      BY <1>t, <1>6 DEF TypeOK, BackoffCancelled, TrackedStatuses, mainVars
    <2>2. BudgetLeft' /\ TrackerHonest'
      BY <1>t, <1>6 DEF TypeOK, BudgetLeft, TrackerHonest, BackoffCancelled
    <2>3. ErrorsFounded' /\ FailuresIsolated'
      BY <1>6, ReasonsStay DEF BackoffCancelled, SupervisorStep
    <2> QED
      BY <2>1, <2>2, <2>3 DEF SupervisorInv
  <1> QED
    BY <1>1, <1>2, <1>3, <1>4, <1>5, <1>6 DEF SupervisorStep

(* RunWorker's own steps leave the supervisors alone. *)
LEMMA MainStepInv ==
    ASSUME SupervisorInv,
           StopRequested \/ ConnectionLost \/ HealthServerFails \/ Select \/ Wait
    PROVE  SupervisorInv'
  <1>t. TypeOK /\ BudgetLeft /\ TrackerHonest /\ ErrorsFounded /\ FailuresIsolated
    BY DEF SupervisorInv
  <1>1. UNCHANGED supervisorVars
    BY DEF StopRequested, ConnectionLost, HealthServerFails, Select, Wait
  <1>2. BudgetLeft' /\ TrackerHonest'
    BY <1>t, <1>1 DEF supervisorVars, BudgetLeft, TrackerHonest
  <1>3. TypeOK'
    BY <1>t, <1>1
    DEF supervisorVars, TypeOK, StopRequested, ConnectionLost, HealthServerFails, Select,
        Wait
  <1>4. ErrorsFounded'
    BY <1>t, <1>1
    DEF supervisorVars, ErrorsFounded, StopRequested, ConnectionLost, HealthServerFails,
        Select, Wait
  <1>5. CASE StopRequested
    BY <1>5, <1>2, <1>3, <1>4 DEF StopRequested, FailuresIsolated, SupervisorInv
  <1>6. CASE ConnectionLost \/ HealthServerFails \/ Wait
    <2>1. FailuresIsolated'
      BY <1>t, <1>1, <1>6
      DEF supervisorVars, ConnectionLost, HealthServerFails, Wait, FailuresIsolated
    <2> QED
      BY <1>2, <1>3, <1>4, <2>1 DEF SupervisorInv
  <1>7. CASE Select
    <2>1. fatalErrs # NoSubsystem =>
            \E s \in Subsystems : tracked[s] = "fatal" /\ failures[s] = MaxFailures
      BY <1>t DEF TypeOK, ErrorsFounded, TrackerHonest
    <2>2. result = "nil"
      BY <1>t, <1>7 DEF ErrorsFounded, Select
    <2>3. FailuresIsolated'
      BY <1>t, <1>1, <1>7, <2>1, <2>2 DEF supervisorVars, Select, FailuresIsolated
    <2> QED
      BY <1>2, <1>3, <1>4, <2>3 DEF SupervisorInv
  <1> QED
    BY <1>5, <1>6, <1>7

(* The invariant is inductive. *)
LEMMA SupervisorNext == SupervisorInv /\ [Next]_vars => SupervisorInv'
  <1> SUFFICES ASSUME SupervisorInv, [Next]_vars PROVE SupervisorInv'
    OBVIOUS
  <1>1. CASE UNCHANGED vars
    BY <1>1
    DEF vars, supervisorVars, mainVars, SupervisorInv, TypeOK, BudgetLeft,
        TrackerHonest, ErrorsFounded, FailuresIsolated
  <1> QED
    BY <1>1, SupervisorStepInv, MainStepInv DEF Next

-----------------------------------------------------------------------------
(* The theorems *)

(* The supervisors, the tracker and RunWorker keep their types; with it the   *)
(* failure counters stay within the budget and the delays within their bounds *)
(* (superviseWorkerSubsystem).                                                *)
THEOREM SupervisorTyped == Spec => []TypeOK
  <1>1. SupervisorInv => TypeOK
    BY DEF SupervisorInv
  <1> QED
    BY <1>1, SupervisorInit, SupervisorNext, PTL DEF Spec

(* A health report "ok" is given only while every subsystem runs or has just  *)
(* returned (workerStatusTracker.Report against the supervisors' marks).      *)
THEOREM HealthTruthful == Spec => []OkMeansAlive
  <1>1. SupervisorInv => OkMeansAlive
    BY DEF SupervisorInv, TrackerHonest, OkMeansAlive, HealthOK
  <1> QED
    BY <1>1, SupervisorInit, SupervisorNext, PTL DEF Spec

(* The worker's context is cancelled only for a signal, a health server       *)
(* error or a subsystem that failed maxConsecutiveSubsystemFailures times in  *)
(* a row (RunWorker's select).                                                *)
THEOREM FailureIsolation == Spec => []FailuresIsolated
  <1>1. SupervisorInv => FailuresIsolated
    BY DEF SupervisorInv
  <1> QED
    BY <1>1, SupervisorInit, SupervisorNext, PTL DEF Spec

-----------------------------------------------------------------------------
(* The delays *)

\* The delay that k failures in a row have led to.
Delay(k) == Least(InitialBackoff * 2 ^ k, MaxBackoff)

(* The delay goes with the failure counter; between a failure and the end of  *)
(* the wait for it the counter is one ahead, and the tracker has been told.   *)
DelayInStep ==
    \A s \in Subsystems :
        /\ pc[s] \in {"top", "run", "returned"} => backoff[s] = Delay(failures[s])
        /\ pc[s] \in {"budget", "backoff"} =>
                /\ failures[s] >= 1
                /\ backoff[s] = Delay(failures[s] - 1)
                /\ reported[s] = failures[s]

(* Powers of two double: a set with one element more has twice the subsets.   *)
(* FS_SUBSET is the one fact about powers that the library proves.            *)
LEMMA PowerOfTwo ==
    ASSUME NEW n \in Nat
    PROVE  2 ^ n \in Nat /\ 2 ^ (n + 1) = 2 * 2 ^ n
  <1> DEFINE A == SUBSET (1..n)
             B == {x \cup {n + 1} : x \in A}
             U == SUBSET (1..(n + 1))
             f == [x \in A |-> x \cup {n + 1}]
  <1>1. IsFiniteSet(A) /\ Cardinality(A) = 2 ^ n /\ Cardinality(A) \in Nat
    <2>1. IsFiniteSet(1..n) /\ Cardinality(1..n) = n
      BY FS_Interval
    <2> QED
      BY <2>1, FS_SUBSET, FS_CardinalityType
  <1>2. IsFiniteSet(U) /\ Cardinality(U) = 2 ^ (n + 1)
    <2>1. IsFiniteSet(1..(n + 1)) /\ Cardinality(1..(n + 1)) = n + 1
      <3>1. n + 1 \in Int /\ 1 <= n + 1
        OBVIOUS
      <3> QED
        BY <3>1, FS_Interval
    <2> QED
      BY <2>1, FS_SUBSET
  <1>3. n + 1 \notin 1..n /\ 1..(n + 1) = (1..n) \cup {n + 1}
    OBVIOUS
  <1>4. \A x \in A : n + 1 \notin x
    BY <1>3
  <1>5. f \in Bijection(A, B)
    <2>1. f \in [A -> B]
      OBVIOUS
    <2>2. \A x, y \in A : f[x] = f[y] => x = y
      <3> SUFFICES ASSUME NEW x \in A, NEW y \in A, x \cup {n + 1} = y \cup {n + 1}
                   PROVE  x = y
        OBVIOUS
      <3> QED
        BY <1>4
    <2>3. \A t \in B : \E x \in A : f[x] = t
      OBVIOUS
    <2> QED
      BY <2>1, <2>2, <2>3 DEF Bijection, Injection, Surjection, IsInjective
  <1>6. IsFiniteSet(B) /\ Cardinality(B) = Cardinality(A)
    <2>1. ExistsBijection(A, B)
      BY <1>5 DEF ExistsBijection
    <2> HIDE DEF A, B
    <2> QED
      BY <1>1, <2>1, FS_Bijection
  <1>7. U = A \cup B
    <2>1. \A x \in U : n + 1 \notin x => x \in A
      BY <1>3
    <2>2. ASSUME NEW x \in U, n + 1 \in x
          PROVE  x \in B
      <3>1. x \ {n + 1} \in A
        BY <1>3
      <3>2. x = (x \ {n + 1}) \cup {n + 1}
        BY <2>2
      <3> QED
        BY <3>1, <3>2
    <2>3. A \subseteq U /\ B \subseteq U
      BY <1>3
    <2> QED
      BY <2>1, <2>2, <2>3
  <1>8. A \cap B = {}
    BY <1>4
  <1> HIDE DEF A, B, U
  <1>9. Cardinality(U) = Cardinality(A) + Cardinality(B)
    <2>1. Cardinality(A \cup B) = Cardinality(A) + Cardinality(B) - Cardinality(A \cap B)
      BY <1>1, <1>6, FS_Union
    <2>2. Cardinality(A \cap B) = 0
      BY <1>8, FS_EmptySet
    <2> QED
      BY <1>1, <1>6, <1>7, <2>1, <2>2
  <1>10. \A k \in Nat : k + k = 2 * k
    OBVIOUS
  <1> QED
    BY <1>1, <1>2, <1>6, <1>9, <1>10

(* The first delay is the initial one. *)
LEMMA FirstDelay == Delay(0) = InitialBackoff
  <1>1. 2 ^ 0 = 1
    <2>1. IsFiniteSet({}) /\ Cardinality({}) = 0
      BY FS_EmptySet
    <2>2. Cardinality(SUBSET {}) = 2 ^ 0
      BY <2>1, FS_SUBSET
    <2>3. SUBSET {} = {{}}
      BY Zenon
    <2>4. Cardinality({{}}) = 1
      BY FS_Singleton
    <2> QED
      BY <2>2, <2>3, <2>4
  <1>2. InitialBackoff * 1 = InitialBackoff
    BY SupervisorAssumption
  <1> QED
    BY <1>1, <1>2, SupervisorAssumption DEF Delay, Least

(* Doubling and capping a delay gives the delay of one failure more: the cap  *)
(* may be taken at every step or once.                                        *)
LEMMA NextDelay ==
    ASSUME NEW k \in Nat
    PROVE  Least(Delay(k) * 2, MaxBackoff) = Delay(k + 1)
  <1> DEFINE p == 2 ^ k
  <1>1. p \in Nat /\ 2 ^ (k + 1) = 2 * p
    BY PowerOfTwo
  <1>2. InitialBackoff \in Nat /\ MaxBackoff \in Nat
    BY SupervisorAssumption
  <1> DEFINE i == InitialBackoff * p
  <1>3. i \in Nat /\ InitialBackoff * (2 * p) = i * 2
    <2> HIDE DEF p
    <2>1. \A x, y \in Nat : x * y \in Nat /\ x * (2 * y) = (x * y) * 2
      OBVIOUS
    <2> QED
      BY <1>1, <1>2, <2>1
  <1>4. Delay(k) = Least(i, MaxBackoff) /\ Delay(k + 1) = Least(i * 2, MaxBackoff)
    BY <1>1, <1>3 DEF Delay
  <1> HIDE DEF i
  <1> QED
    BY <1>2, <1>3, <1>4 DEF Least

(* Before the first failure the delay is the initial one. *)
LEMMA DelayInit == Init => DelayInStep
  BY FirstDelay DEF Init, DelayInStep

(* Every step of the loop keeps the delay in step with the failures. *)
LEMMA DelayStep == SupervisorInv /\ DelayInStep /\ [Next]_vars => DelayInStep'
  <1> SUFFICES ASSUME SupervisorInv, DelayInStep, [Next]_vars PROVE DelayInStep'
    OBVIOUS
  <1>t. TypeOK
    BY DEF SupervisorInv
  <1>k. ASSUME UNCHANGED supervisorVars PROVE DelayInStep'
    BY <1>k DEF supervisorVars, DelayInStep
  <1>1. ASSUME NEW s \in Subsystems, SupervisorStep(s) \/ RunReturns(s)
        PROVE  DelayInStep'
    <2>n. failures[s] \in Nat /\ reported[s] \in Nat
      BY <1>t, SupervisorAssumption DEF TypeOK
    <2>s. /\ pc[s] \in {"top", "run", "returned"} => backoff[s] = Delay(failures[s])
          /\ pc[s] \in {"budget", "backoff"} =>
                /\ failures[s] >= 1
                /\ backoff[s] = Delay(failures[s] - 1)
                /\ reported[s] = failures[s]
      BY DEF DelayInStep
    <2>o. \A u \in Subsystems : u # s =>
            /\ pc'[u] = pc[u] /\ failures'[u] = failures[u]
            /\ backoff'[u] = backoff[u] /\ reported'[u] = reported[u]
      BY <1>t, <1>1 DEF TypeOK, SupervisorStep, Start, Settle, CheckBudget, BackoffEnds,
                        BackoffCancelled, RunReturns
    <2>i. \/ pc'[s] = "done"
          \/ /\ pc'[s] \in {"top", "run", "returned"}
             /\ backoff'[s] = Delay(failures'[s])
          \/ /\ pc'[s] \in {"budget", "backoff"}
             /\ failures'[s] >= 1
             /\ backoff'[s] = Delay(failures'[s] - 1)
             /\ reported'[s] = failures'[s]
      <3>1. CASE Start(s)
        BY <1>t, <2>s, <3>1 DEF TypeOK, Start
      <3>2. CASE RunReturns(s)
        BY <1>t, <2>s, <3>2, FirstDelay DEF TypeOK, RunReturns
      <3>3. CASE Settle(s)
        <4>1. failures[s] + 1 >= 1 /\ (failures[s] + 1) - 1 = failures[s]
          BY <2>n
        <4>2. \/ pc'[s] = "done"
              \/ /\ pc[s] = "returned" /\ pc'[s] = "budget" /\ backoff'[s] = backoff[s]
                 /\ failures'[s] = failures[s] + 1 /\ reported'[s] = failures[s] + 1
          BY <1>t, <3>3 DEF TypeOK, Settle
        <4> QED
          BY <2>s, <4>1, <4>2
      <3>4. CASE CheckBudget(s)
        BY <1>t, <2>s, <3>4 DEF TypeOK, CheckBudget
      <3>5. CASE BackoffEnds(s)
        <4>1. /\ pc[s] = "backoff" /\ pc'[s] = "top" /\ failures'[s] = failures[s]
              /\ backoff'[s] = Least(backoff[s] * 2, MaxBackoff)
          BY <1>t, <3>5 DEF TypeOK, BackoffEnds
        <4>2. failures[s] - 1 \in Nat /\ (failures[s] - 1) + 1 = failures[s]
          BY <2>n, <2>s, <4>1
        <4>3. backoff'[s] = Delay(failures[s])
          BY <2>s, <4>1, <4>2, NextDelay
        <4> QED
          BY <4>1, <4>3
      <3>6. CASE BackoffCancelled(s)
        BY <1>t, <3>6 DEF TypeOK, BackoffCancelled
      <3> QED
        BY <1>1, <3>1, <3>2, <3>3, <3>4, <3>5, <3>6 DEF SupervisorStep
    <2> QED
      BY <2>i, <2>o DEF DelayInStep
  <1>2. StopRequested \/ ConnectionLost \/ HealthServerFails \/ Select \/ Wait
        => UNCHANGED supervisorVars
    BY DEF StopRequested, ConnectionLost, HealthServerFails, Select, Wait
  <1>3. UNCHANGED vars => UNCHANGED supervisorVars
    BY DEF vars
  <1> QED
    BY <1>k, <1>1, <1>2, <1>3 DEF Next

(* The k-th failure in a row is followed by a wait of the initial delay       *)
(* doubled k - 1 times and capped, for every budget and every delay, and the  *)
(* tracker reports k (superviseWorkerSubsystem, MarkRestarting).              *)
THEOREM BackoffIsExponential == Spec => []BackoffMatchesFailures
  <1>1. Spec => []SupervisorInv
    BY SupervisorInit, SupervisorNext, PTL DEF Spec
  <1>2. Spec => []DelayInStep
    BY <1>1, DelayInit, DelayStep, PTL DEF Spec
  <1>3. SupervisorInv /\ DelayInStep => BackoffMatchesFailures
    <2> SUFFICES ASSUME SupervisorInv, DelayInStep, NEW s \in Subsystems, pc[s] = "backoff"
                 PROVE  /\ failures[s] \in 1..(MaxFailures - 1)
                        /\ backoff[s] = Delay(failures[s] - 1)
                        /\ reported[s] = failures[s]
      BY DEF BackoffMatchesFailures, Delay
    <2>1. failures[s] \in 0..MaxFailures /\ failures[s] < MaxFailures /\ MaxFailures \in Nat
      BY SupervisorAssumption DEF SupervisorInv, TypeOK, BudgetLeft
    <2>2. failures[s] >= 1 /\ backoff[s] = Delay(failures[s] - 1) /\ reported[s] = failures[s]
      BY DEF DelayInStep
    <2> QED
      BY <2>1, <2>2
  <1> QED
    BY <1>1, <1>2, <1>3, PTL
=============================================================================
