---------------------- MODULE TransferProcessingProofs ----------------------
(***************************************************************************)
(* Theorems about TransferProcessing, for any sets of transfers and workers *)
(* and any bounds, in this order:                                           *)
(*  - types, and that live workers exclude each other;                      *)
(*  - no published job is lost, and none comes from nowhere;                *)
(*  - a submitted transfer is backed by one stored, broadcast transaction;  *)
(*  - the workers implement the plain life of a transfer and never move a   *)
(*    row back;                                                             *)
(*  - what fails around a transfer does not fail the transfer.              *)
(***************************************************************************)
EXTENDS TransferProcessing, TLAPS

-----------------------------------------------------------------------------
(* Points at which a worker has an attempt in hand. *)
WithAttempt == {"resume", "broadcast", "record", "submit"}

(* A worker that is not idle has a job, and between reading or creating an    *)
(* attempt and recording its outcome it points at an existing row. Typing the *)
(* attempts needs this: UpdateAttempt writes the row the worker points at.    *)
LocalsOK ==
    \A w \in Workers :
        /\ pc[w] # "idle" => job[w] \in Jobs
        /\ pc[w] \in WithAttempt =>
                att[w] \in 1..Len(attempts[job[w].transfer])

TypeInv == TypeOK /\ LocalsOK

(* Writing the status of a row changes neither the other rows nor how many    *)
(* there are.                                                                 *)
LEMMA UpdateRow ==
    ASSUME NEW s \in Seq(Attempts), NEW i \in 1..Len(s), NEW x \in AttemptStatuses
    PROVE  LET u == [s EXCEPT ![i] = [status |-> x, hash |-> s[i].hash]]
           IN  /\ u \in Seq(Attempts)
               /\ Len(u) = Len(s)
               /\ u[i] = [status |-> x, hash |-> s[i].hash]
               /\ \A k \in 1..Len(s) : k # i => u[k] = s[k]
  <1>1. s[i] \in Attempts
    OBVIOUS
  <1>2. [status |-> x, hash |-> s[i].hash] \in Attempts
    BY <1>1 DEF Attempts
  <1> QED
    BY <1>2

(* Adding a row keeps the earlier ones. *)
LEMMA AppendRow ==
    ASSUME NEW s \in Seq(Attempts), NEW a \in Attempts
    PROVE  /\ Append(s, a) \in Seq(Attempts)
           /\ Len(Append(s, a)) = Len(s) + 1
           /\ Append(s, a)[Len(s) + 1] = a
           /\ \A k \in 1..Len(s) : Append(s, a)[k] = s[k]
  OBVIOUS

-----------------------------------------------------------------------------
(* What the repository operations do to typed rows. *)

(* A failure keeps within the budget. *)
LEMMA FaultBudget ==
    ASSUME faults \in FaultLogs, NEW k, Fault(k)
    PROVE  faults' \in FaultLogs
  BY ConstantsAssumption DEF Fault, FaultLogs, Remembered

(* So does a repository call, answered or not. *)
LEMMA RepositoryFaults ==
    ASSUME faults \in FaultLogs, NEW w, NEW r, Replies(w) \/ Fails(w, r)
    PROVE  faults' \in FaultLogs
  BY FaultBudget DEF Replies, Fails

(* TransitionStatus writes the status it was given to a transfer whose status *)
(* is the one the worker last saw, or writes nothing.                         *)
LEMMA TransitionStatusEffect ==
    ASSUME TypeInv,
           NEW w \in Workers, pc[w] # "idle",
           NEW to \in Statuses, NEW hash \in Transfers \cup {NoHash}, NEW r,
           TransitionStatus(w, to, hash, r)
    PROVE  LET t == job[w].transfer
           IN  /\ faults' \in FaultLogs
               /\ \/ UNCHANGED <<status, txHash, history>>
                  \/ /\ status[t] = loc[w]
                     /\ status' = [status EXCEPT ![t] = to]
                     /\ txHash' = [txHash EXCEPT ![t] =
                                    IF hash = NoHash THEN @ ELSE hash]
                     /\ history' = [history EXCEPT ![t] =
                                    Append(@, <<loc[w], to>>)]
  <1>1. faults' \in FaultLogs
    BY RepositoryFaults DEF TransitionStatus, TypeInv, TypeOK
  <1> QED
    BY <1>1 DEF TransitionStatus

(* The transfer and history rows TransitionStatus writes have their types. *)
LEMMA TransitionStatusType ==
    ASSUME TypeInv,
           NEW w \in Workers, pc[w] # "idle",
           NEW to \in Statuses, NEW hash \in Transfers \cup {NoHash}, NEW r,
           TransitionStatus(w, to, hash, r)
    PROVE  /\ faults' \in FaultLogs
           /\ status' \in [Transfers -> Statuses]
           /\ txHash' \in [Transfers -> Transfers \cup {NoHash}]
           /\ history' \in [Transfers -> Seq((Statuses \cup {""}) \X Statuses)]
  <1> DEFINE t == job[w].transfer
             Row == (Statuses \cup {""}) \X Statuses
  <1>1. t \in Transfers
    BY DEF TypeInv, LocalsOK, Jobs
  <1>2. CASE UNCHANGED <<status, txHash, history>>
    BY <1>2, TransitionStatusEffect DEF TypeInv, TypeOK
  <1>3. CASE /\ status' = [status EXCEPT ![t] = to]
             /\ txHash' = [txHash EXCEPT ![t] = IF hash = NoHash THEN @ ELSE hash]
             /\ history' = [history EXCEPT ![t] = Append(@, <<loc[w], to>>)]
    <2>1. /\ status' \in [Transfers -> Statuses]
          /\ txHash' \in [Transfers -> Transfers \cup {NoHash}]
          /\ faults' \in FaultLogs
      BY <1>1, <1>3, TransitionStatusEffect DEF TypeInv, TypeOK
    <2>2. /\ history \in [Transfers -> Seq(Row)]
          /\ <<loc[w], to>> \in Row
      BY DEF TypeInv, TypeOK
    <2>3. Append(history[t], <<loc[w], to>>) \in Seq(Row)
      <3> HIDE DEF Row
      <3> QED BY <1>1, <2>2
    <2>4. history' \in [Transfers -> Seq(Row)]
      <3> HIDE DEF Row
      <3> QED BY <1>1, <1>3, <2>2, <2>3
    <2> QED
      BY <2>1, <2>4
  <1>4. \/ UNCHANGED <<status, txHash, history>>
        \/ /\ status' = [status EXCEPT ![t] = to]
           /\ txHash' = [txHash EXCEPT ![t] = IF hash = NoHash THEN @ ELSE hash]
           /\ history' = [history EXCEPT ![t] = Append(@, <<loc[w], to>>)]
    BY DEF TransitionStatus
  <1> QED
    BY <1>2, <1>3, <1>4

(* CreateAttempt adds one SIGNED row, or nothing. *)
LEMMA CreateAttemptEffect ==
    ASSUME TypeInv,
           NEW w \in Workers, pc[w] # "idle",
           NEW hash \in Transfers, NEW r,
           CreateAttempt(w, hash, r)
    PROVE  LET t == job[w].transfer
               row == [status |-> "SIGNED", hash |-> hash]
           IN  /\ faults' \in FaultLogs
               /\ attempts' \in [Transfers -> Seq(Attempts)]
               /\ \/ UNCHANGED attempts /\ r # "nil"
                  \/ /\ ~AttemptConflicts(t, hash)
                     /\ attempts' = [attempts EXCEPT ![t] =
                                        Append(attempts[t], row)]
                     /\ Len(attempts'[t]) = Len(attempts[t]) + 1
  <1> DEFINE t == job[w].transfer
             row == [status |-> "SIGNED", hash |-> hash]
  <1>1. t \in Transfers
    BY DEF TypeInv, LocalsOK, Jobs
  <1>2. row \in Attempts
    BY DEF Attempts, AttemptStatuses
  <1>3. faults' \in FaultLogs
    BY RepositoryFaults DEF CreateAttempt, TypeInv, TypeOK
  <1>4. \/ UNCHANGED attempts /\ r # "nil"
        \/ /\ ~AttemptConflicts(t, hash)
           /\ attempts' = [attempts EXCEPT ![t] = Append(attempts[t], row)]
    BY DEF CreateAttempt, Fails
  <1>5. attempts \in [Transfers -> Seq(Attempts)]
    BY DEF TypeInv, TypeOK
  <1>6. Append(attempts[t], row) \in Seq(Attempts)
    BY <1>1, <1>2, <1>5, AppendRow
  <1>7. CASE UNCHANGED attempts /\ r # "nil"
    BY <1>3, <1>5, <1>7
  <1>8. CASE /\ ~AttemptConflicts(t, hash)
             /\ attempts' = [attempts EXCEPT ![t] = Append(attempts[t], row)]
    BY <1>1, <1>2, <1>3, <1>5, <1>6, <1>8, AppendRow
  <1> QED
    BY <1>4, <1>7, <1>8

(* UpdateAttempt moves the status of the row the worker points at from the    *)
(* status it expects, or writes nothing.                                      *)
LEMMA UpdateAttemptEffect ==
    ASSUME TypeInv,
           NEW w \in Workers, pc[w] \in WithAttempt,
           NEW from, NEW to \in AttemptStatuses, NEW r,
           UpdateAttempt(w, from, to, r)
    PROVE  LET t == job[w].transfer
               i == att[w]
           IN  /\ faults' \in FaultLogs
               /\ attempts' \in [Transfers -> Seq(Attempts)]
               /\ \A u \in Transfers : Len(attempts'[u]) = Len(attempts[u])
               /\ \/ UNCHANGED attempts /\ r # "nil"
                  \/ /\ attempts[t][i].status = from
                     /\ attempts'[t][i] = [status |-> to,
                                           hash |-> attempts[t][i].hash]
                     /\ \A k \in 1..Len(attempts[t]) :
                            k # i => attempts'[t][k] = attempts[t][k]
                     /\ \A u \in Transfers : u # t => attempts'[u] = attempts[u]
  <1> DEFINE t == job[w].transfer
             i == att[w]
             s == attempts[t]
             u == [s EXCEPT ![i] = [status |-> to, hash |-> s[i].hash]]
  <1>1. t \in Transfers /\ i \in 1..Len(attempts[t])
    BY DEF TypeInv, LocalsOK, Jobs, WithAttempt
  <1>2. attempts \in [Transfers -> Seq(Attempts)]
    BY DEF TypeInv, TypeOK
  <1>3. faults' \in FaultLogs
    BY RepositoryFaults DEF UpdateAttempt, TypeInv, TypeOK
  <1>4. \/ UNCHANGED attempts /\ r # "nil"
        \/ /\ attempts[t][i].status = from
           /\ attempts' = [attempts EXCEPT ![t] = u]
    BY DEF UpdateAttempt, Fails
  <1>5. /\ u \in Seq(Attempts)
        /\ Len(u) = Len(s)
        /\ u[i] = [status |-> to, hash |-> s[i].hash]
        /\ \A k \in 1..Len(s) : k # i => u[k] = s[k]
    BY <1>1, <1>2, UpdateRow
  <1>6. CASE UNCHANGED attempts /\ r # "nil"
    BY <1>2, <1>3, <1>6
  <1>7. CASE attempts[t][i].status = from /\ attempts' = [attempts EXCEPT ![t] = u]
    <2> HIDE DEF u
    <2> QED BY <1>1, <1>2, <1>3, <1>5, <1>7
  <1> QED
    BY <1>4, <1>6, <1>7

-----------------------------------------------------------------------------
(* Type correctness *)

(* The parts of the type invariant, so that a step can name the ones it moves. *)
DBType ==
    /\ status \in [Transfers -> Statuses]
    /\ txHash \in [Transfers -> Transfers \cup {NoHash}]
    /\ history \in [Transfers -> Seq((Statuses \cup {""}) \X Statuses)]
    /\ attempts \in [Transfers -> Seq(Attempts)]

SharedType ==
    /\ lock \in [Transfers -> Workers \cup {NoWorker}]
    /\ queue \in [Jobs -> Nat]
    /\ published \in [Transfers -> 0..MaxCopies]
    /\ sent \subseteq Transfers
    /\ faults \in FaultLogs

LocalType ==
    /\ pc \in [Workers -> PCs]
    /\ job \in [Workers -> Jobs \cup {NoJob}]
    /\ loc \in [Workers -> Statuses]
    /\ att \in [Workers -> Nat]
    /\ err \in [Workers -> Errors]
    /\ ctx \in [Workers -> {"live", "shutdown", "lost"}]
    /\ held \in [Workers -> BOOLEAN]

(* The parts make up the type invariant. *)
LEMMA TypeParts == TypeOK <=> DBType /\ SharedType /\ LocalType
  BY Zenon DEF TypeOK, DBType, SharedType, LocalType

(* A queue stays a bag of jobs. *)
LEMMA EnqueueType ==
    ASSUME queue \in [Jobs -> Nat], NEW j \in Jobs
    PROVE  Enqueue(queue, j) \in [Jobs -> Nat]
  BY DEF Enqueue

(* A sequence of one element. *)
LEMMA SingletonSeq ==
    ASSUME NEW S, NEW e \in S
    PROVE  <<e>> \in Seq(S)
  OBVIOUS

(* Init has the types. *)
LEMMA TypeInit == Init => TypeInv
  <1> SUFFICES ASSUME Init PROVE TypeInv
    OBVIOUS
  <1>1. << <<"", "CREATED">> >> \in Seq((Statuses \cup {""}) \X Statuses)
    <2> DEFINE Row == (Statuses \cup {""}) \X Statuses
    <2>1. <<"", "CREATED">> \in Row
      BY DEF Statuses
    <2> HIDE DEF Row
    <2>2. << <<"", "CREATED">> >> \in Seq(Row)
      BY <2>1, SingletonSeq
    <2> QED
      BY <2>2 DEF Row
  <1>2. DBType
    <2>1. /\ status \in [Transfers -> Statuses]
          /\ txHash \in [Transfers -> Transfers \cup {NoHash}]
      BY DEF Init, Statuses
    <2>2. attempts \in [Transfers -> Seq(Attempts)]
      <3>1. << >> \in Seq(Attempts)
        OBVIOUS
      <3> QED
        BY <3>1, Zenon DEF Init
    <2>3. history \in [Transfers -> Seq((Statuses \cup {""}) \X Statuses)]
      BY <1>1, Zenon DEF Init
    <2> QED
      BY <2>1, <2>2, <2>3 DEF DBType
  <1>3. SharedType
    <2>1. 0 \in Nat /\ 0 \in 0..MaxCopies
      BY ConstantsAssumption
    <2>2. [count |-> 0, kinds |-> {}] \in FaultLogs
      BY ConstantsAssumption DEF FaultLogs
    <2> QED
      BY <2>1, <2>2, Zenon DEF Init, SharedType
  <1>4. LocalType
    BY DEF Init, LocalType, PCs, Statuses, Errors
  <1>5. LocalsOK
    BY DEF Init, LocalsOK, WithAttempt
  <1> QED
    BY <1>2, <1>3, <1>4, <1>5, TypeParts DEF TypeInv

(* The two tables of the processor's switches. *)
LEMMA SuccessorType ==
    ASSUME NEW x \in DOMAIN Successor
    PROVE  Successor[x] \in Statuses
  BY DEF Successor, Statuses

(* Only a BROADCASTED attempt is resumed at submission. *)
LEMMA ResumePointType ==
    ASSUME NEW x \in AttemptStatuses
    PROVE  /\ ResumePoint[x] \in {"resume", "broadcast", "submit", "finish"}
           /\ ResumePoint[x] = "submit" => x = "BROADCASTED"
  BY DEF ResumePoint, AttemptStatuses

(* Every step keeps the types. Only steps that write to the database or to    *)
(* the attempt a worker points at need more than their own assignments.       *)
LEMMA TypeStep == TypeInv /\ [Next]_vars => TypeInv'
  <1> SUFFICES ASSUME TypeInv, [Next]_vars PROVE TypeInv'
    OBVIOUS
  <1> USE DEF Processing, Settling, PCs, WithAttempt
  <1>t. TypeOK /\ LocalsOK /\ DBType /\ SharedType /\ LocalType
    BY TypeParts DEF TypeInv
  <1>d. UNCHANGED dbVars => DBType'
    BY <1>t DEF dbVars, DBType
  <1>q. DBType' /\ SharedType' /\ LocalType' /\ LocalsOK' => TypeInv'
    <2>1. DBType' /\ SharedType' /\ LocalType' => TypeOK'
      BY Zenon DEF TypeOK, DBType, SharedType, LocalType
    <2> QED
      BY <2>1 DEF TypeInv
  <1>j. \A w \in Workers : pc[w] # "idle" =>
            job[w] \in Jobs /\ job[w].transfer \in Transfers
    BY <1>t DEF LocalsOK, Jobs
  <1>s. \A t \in Transfers : status[t] \in Statuses
    BY <1>t DEF DBType
  <1>a. \A t \in Transfers : /\ attempts[t] \in Seq(Attempts)
                            /\ Len(attempts[t]) \in Nat
    <2>1. attempts \in [Transfers -> Seq(Attempts)]
      BY <1>t DEF DBType
    <2>2. \A t \in Transfers : attempts[t] \in Seq(Attempts)
      BY <2>1
    <2> QED
      BY <2>2
  <1>1. ASSUME NEW t \in Transfers, PublishTransferRequested(t)
        PROVE  TypeInv'
    <2>1. DBType'
      BY <1>d, <1>1 DEF PublishTransferRequested
    <2>2. SharedType'
      <3>1. [transfer |-> t, attempt |-> 0] \in Jobs
        BY ConstantsAssumption DEF Jobs
      <3>2. queue' \in [Jobs -> Nat]
        BY <1>t, <1>1, <3>1, EnqueueType DEF SharedType, PublishTransferRequested
      <3> QED
        BY <1>t, <1>1, <3>2, ConstantsAssumption
        DEF SharedType, PublishTransferRequested
    <2>3. LocalType'
      BY <1>t, <1>1 DEF LocalType, PublishTransferRequested, localVars
    <2>4. LocalsOK'
      BY <1>t, <1>1 DEF LocalsOK, LocalType, PublishTransferRequested, localVars, dbVars
    <2> QED
      BY <1>q, <2>1, <2>2, <2>3, <2>4
  <1>2. ASSUME NEW w \in Workers, NEW j \in Jobs, HandleDelivery(w, j)
        PROVE  TypeInv'
    <2>1. DBType'
      BY <1>d, <1>2 DEF HandleDelivery
    <2>2. SharedType'
      <3>1. queue' \in [Jobs -> Nat]
        BY <1>t, <1>2 DEF SharedType, HandleDelivery
      <3>2. lock' \in [Transfers -> Workers \cup {NoWorker}]
        BY <1>t, <1>2 DEF SharedType, HandleDelivery
      <3> QED
        BY <1>t, <1>2, <3>1, <3>2 DEF SharedType, HandleDelivery
    <2>3. LocalType'
      BY <1>t, <1>2 DEF LocalType, HandleDelivery, localVars, Goto
    <2>4. LocalsOK'
      BY <1>t, <1>2 DEF LocalsOK, LocalType, HandleDelivery, localVars, dbVars, Goto
    <2> QED
      BY <1>q, <2>1, <2>2, <2>3, <2>4
  <1>3. ASSUME NEW w \in Workers, NEW j \in Jobs, AcquireFails(w, j)
        PROVE  TypeInv'
    <2>1. DBType'
      BY <1>d, <1>3 DEF AcquireFails
    <2>2. SharedType'
      BY <1>t, <1>3, FaultBudget DEF SharedType, AcquireFails
    <2>3. LocalType'
      BY <1>t, <1>3 DEF LocalType, AcquireFails, localVars
    <2>4. LocalsOK'
      BY <1>t, <1>3 DEF LocalsOK, LocalType, AcquireFails, localVars, dbVars
    <2> QED
      BY <1>q, <2>1, <2>2, <2>3, <2>4
  <1>4. ASSUME NEW w \in Workers, GetByID(w)
        PROVE  TypeInv'
    <2>1. DBType'
      BY <1>d, <1>4 DEF GetByID
    <2>2. SharedType'
      BY <1>t, <1>4, RepositoryFaults DEF SharedType, GetByID
    <2>3. LocalType'
      BY <1>t, <1>4, <1>j, <1>s DEF LocalType, GetByID, Goto, Return, Errors
    <2>4. LocalsOK'
      BY <1>t, <1>4 DEF LocalsOK, LocalType, GetByID, localVars, dbVars, Goto, Return
    <2> QED
      BY <1>q, <2>1, <2>2, <2>3, <2>4
  <1>5. ASSUME NEW w \in Workers, Advance(w)
        PROVE  TypeInv'
    <2>r. PICK r \in Errors :
            /\ TransitionStatus(w, Successor[loc[w]], NoHash, r)
            /\ IF r = "nil"
               THEN /\ loc' = [loc EXCEPT ![w] = Successor[loc[w]]]
                    /\ IF loc[w] = "SUBMITTED" THEN Return(w, "nil")
                       ELSE UNCHANGED <<pc, err>>
               ELSE Return(w, r) /\ UNCHANGED loc
      BY <1>5 DEF Advance
    <2>s. Successor[loc[w]] \in Statuses
      BY <1>5, SuccessorType DEF Advance
    <2>e. /\ faults' \in FaultLogs
          /\ status' \in [Transfers -> Statuses]
          /\ txHash' \in [Transfers -> Transfers \cup {NoHash}]
          /\ history' \in [Transfers -> Seq((Statuses \cup {""}) \X Statuses)]
      BY <1>5, <2>r, <2>s, TransitionStatusType DEF Advance
    <2>1. DBType'
      BY <1>t, <1>5, <2>e, Zenon DEF DBType, Advance
    <2>2. SharedType'
      BY <1>t, <1>5, <2>e DEF SharedType, Advance
    <2>3. LocalType'
      BY <1>t, <1>5, <2>r, <2>s DEF LocalType, Advance, Goto, Return, Errors
    <2>4. LocalsOK'
      BY <1>t, <1>5, <2>r DEF LocalsOK, LocalType, Advance, Goto, Return
    <2> QED
      BY <1>q, <2>1, <2>2, <2>3, <2>4
  <1>6. ASSUME NEW w \in Workers, GetLatestAttempt(w)
        PROVE  TypeInv'
    <2> DEFINE t == job[w].transfer
               n == Len(attempts[t])
               x == attempts[t][n].status
    <2>w. pc[w] # "idle"
      BY <1>6 DEF GetLatestAttempt
    <2>n. n \in Nat /\ t \in Transfers
      BY <1>j, <1>a, <2>w
    <2>u. UNCHANGED <<dbVars, job, loc, ctx, held>>
      BY <1>6 DEF GetLatestAttempt
    <2>x. n > 0 => x \in AttemptStatuses
      <3>1. attempts[t] \in Seq(Attempts)
        BY <1>a, <2>n
      <3>2. n > 0 => attempts[t][n] \in Attempts
        BY <3>1, <2>n
      <3> QED
        BY <3>2 DEF Attempts
    <2>p. n > 0 => ResumePoint[x] \in {"resume", "broadcast", "submit", "finish"}
      BY <2>x, ResumePointType
    <2>c. \/ Goto(w, "create") /\ UNCHANGED <<att, err>>
          \/ /\ n > 0
             /\ att' = [att EXCEPT ![w] = n]
             /\ Goto(w, ResumePoint[x])
             /\ err' = [err EXCEPT ![w] = IF x = "FAILED" THEN "error" ELSE "nil"]
          \/ \E r \in Errors : Return(w, r) /\ UNCHANGED att
      BY <1>6 DEF GetLatestAttempt
    <2> HIDE DEF n, x
    <2>1. DBType'
      BY <1>d, <1>6 DEF GetLatestAttempt
    <2>2. SharedType'
      BY <1>t, <1>6, RepositoryFaults DEF SharedType, GetLatestAttempt
    <2>3. LocalType'
      <3>1. CASE Goto(w, "create") /\ UNCHANGED <<att, err>>
        BY <1>t, <2>u, <3>1 DEF LocalType, Goto
      <3>2. CASE /\ n > 0
                 /\ att' = [att EXCEPT ![w] = n]
                 /\ Goto(w, ResumePoint[x])
                 /\ err' = [err EXCEPT ![w] = IF x = "FAILED" THEN "error" ELSE "nil"]
        BY <1>t, <2>u, <2>n, <2>p, <3>2 DEF LocalType, Goto, Errors
      <3>3. CASE \E r \in Errors : Return(w, r) /\ UNCHANGED att
        BY <1>t, <2>u, <3>3 DEF LocalType, Goto, Return
      <3> QED
        BY <2>c, <3>1, <3>2, <3>3
    <2>4. LocalsOK'
      <3>1. CASE Goto(w, "create") /\ UNCHANGED <<att, err>>
        BY <1>t, <1>j, <2>w, <2>u, <3>1 DEF LocalsOK, LocalType, dbVars, Goto
      <3>2. CASE n > 0 /\ att' = [att EXCEPT ![w] = n] /\ Goto(w, ResumePoint[x])
        <4>1. n \in 1..Len(attempts[t])
          BY <2>n, <3>2 DEF n
        <4> QED
          BY <1>t, <1>j, <2>w, <2>u, <2>p, <3>2, <4>1
          DEF LocalsOK, LocalType, dbVars, Goto
      <3>3. CASE \E r \in Errors : Return(w, r) /\ UNCHANGED att
        BY <1>t, <1>j, <2>w, <2>u, <3>3 DEF LocalsOK, LocalType, dbVars, Goto, Return
      <3> QED
        BY <2>c, <3>1, <3>2, <3>3
    <2> QED
      BY <1>q, <2>1, <2>2, <2>3, <2>4
  <1>7. ASSUME NEW w \in Workers, SignerFails(w)
        PROVE  TypeInv'
    <2>1. DBType'
      BY <1>d, <1>7 DEF SignerFails
    <2>2. SharedType'
      BY <1>t, <1>7, FaultBudget DEF SharedType, SignerFails
    <2>3. LocalType'
      BY <1>t, <1>7 DEF LocalType, SignerFails, localVars, Return, Goto, Errors
    <2>4. LocalsOK'
      BY <1>t, <1>7 DEF LocalsOK, LocalType, SignerFails, localVars, dbVars, Return, Goto, Errors
    <2> QED
      BY <1>q, <2>1, <2>2, <2>3, <2>4
  <1>8. ASSUME NEW w \in Workers, CreateAttemptAndSubmit(w)
        PROVE  TypeInv'
    <2> DEFINE t == job[w].transfer
    <2>w. pc[w] # "idle" /\ t \in Transfers
      BY <1>j, <1>8 DEF CreateAttemptAndSubmit
    <2>r. PICK r \in Errors :
            /\ CreateAttempt(w, SignTransfer(t), r)
            /\ \/ /\ r = "nil"
                  /\ att' = [att EXCEPT ![w] = Len(attempts[t]) + 1]
                  /\ Goto(w, "resume")
                  /\ UNCHANGED err
               \/ r = "conflict" /\ Goto(w, "latest") /\ UNCHANGED <<att, err>>
               \/ r \notin {"nil", "conflict"} /\ Return(w, r) /\ UNCHANGED att
      BY <1>8 DEF CreateAttemptAndSubmit
    <2>e. LET row == [status |-> "SIGNED", hash |-> t]
          IN  /\ faults' \in FaultLogs
              /\ attempts' \in [Transfers -> Seq(Attempts)]
              /\ \/ UNCHANGED attempts /\ r # "nil"
                 \/ /\ ~AttemptConflicts(t, t)
                    /\ attempts' = [attempts EXCEPT ![t] = Append(attempts[t], row)]
                    /\ Len(attempts'[t]) = Len(attempts[t]) + 1
      BY <2>w, <2>r, CreateAttemptEffect DEF SignTransfer
    <2>l. /\ Len(attempts[t]) \in Nat
          /\ r = "nil" => Len(attempts'[t]) = Len(attempts[t]) + 1
          /\ \A u \in Transfers : Len(attempts'[u]) \in Nat
          /\ \A u \in Transfers : Len(attempts'[u]) >= Len(attempts[u])
      <3>1. \A u \in Transfers : attempts'[u] \in Seq(Attempts)
        BY <2>e
      <3>2. \A u \in Transfers : u # t => attempts'[u] = attempts[u]
        BY <1>t, <2>e DEF DBType
      <3>3. Len(attempts'[t]) = Len(attempts[t]) \/ Len(attempts'[t]) = Len(attempts[t]) + 1
        BY <2>e
      <3>4. \A u \in Transfers : Len(attempts'[u]) \in Nat
        BY <3>1
      <3> QED
        BY <1>a, <2>w, <2>e, <3>2, <3>3, <3>4
    <2>u. UNCHANGED <<job, loc, ctx, held>>
      BY <1>8 DEF CreateAttemptAndSubmit
    <2>1. DBType'
      BY <1>t, <1>8, <2>e, Zenon DEF DBType, CreateAttemptAndSubmit
    <2>2. SharedType'
      BY <1>t, <1>8, <2>e DEF SharedType, CreateAttemptAndSubmit
    <2>3. LocalType'
      <3> DEFINE n == Len(attempts[t]) + 1
      <3>n. n \in Nat
        BY <2>l
      <3> HIDE DEF n
      <3>1. CASE att' = [att EXCEPT ![w] = n] /\ Goto(w, "resume") /\ UNCHANGED err
        BY <1>t, <2>u, <3>n, <3>1 DEF LocalType, Goto
      <3>2. CASE Goto(w, "latest") /\ UNCHANGED <<att, err>>
        BY <1>t, <2>u, <3>2 DEF LocalType, Goto
      <3>3. CASE Return(w, r) /\ UNCHANGED att
        BY <1>t, <2>u, <3>3 DEF LocalType, Goto, Return
      <3> QED
        BY <2>r, <3>1, <3>2, <3>3 DEF n
    <2>4. LocalsOK'
      <3>1. SUFFICES ASSUME NEW v \in Workers
                     PROVE  /\ pc'[v] # "idle" => job'[v] \in Jobs
                            /\ pc'[v] \in WithAttempt =>
                                 att'[v] \in 1..Len(attempts'[job'[v].transfer])
        BY DEF LocalsOK
      <3>2. CASE v # w
        <4>1. pc'[v] = pc[v] /\ att'[v] = att[v] /\ job'[v] = job[v]
          BY <1>t, <2>r, <2>u, <3>2 DEF LocalType, Goto, Return
        <4>2. pc[v] \in WithAttempt =>
                /\ att[v] \in 1..Len(attempts[job[v].transfer])
                /\ job[v].transfer \in Transfers
          BY <1>t, <1>j DEF LocalsOK
        <4> QED
          BY <1>a, <1>j, <2>l, <4>1, <4>2
      <3>3. CASE v = w
        <4>1. pc'[w] \in WithAttempt => r = "nil"
          BY <1>t, <2>r DEF LocalType, Goto, Return
        <4>2. r = "nil" => att'[w] = Len(attempts[t]) + 1
          BY <1>t, <2>r DEF LocalType
        <4> QED
          BY <1>j, <2>w, <2>l, <2>u, <3>3, <4>1, <4>2
      <3> QED
        BY <3>2, <3>3
    <2> QED
      BY <1>q, <2>1, <2>2, <2>3, <2>4
  <1>9. ASSUME NEW w \in Workers, ResumeSubmission(w)
        PROVE  TypeInv'
    <2>w. pc[w] \in WithAttempt /\ "BROADCASTING" \in AttemptStatuses
      BY <1>9 DEF ResumeSubmission, AttemptStatuses
    <2>r. PICK r \in Errors :
            /\ UpdateAttempt(w, "SIGNED", "BROADCASTING", r)
            /\ \/ r = "nil" /\ Goto(w, "broadcast") /\ UNCHANGED err
               \/ r = "conflict" /\ Goto(w, "latest") /\ UNCHANGED err
               \/ r \notin {"nil", "conflict"} /\ Return(w, r)
      BY <1>9 DEF ResumeSubmission
    <2>e. /\ faults' \in FaultLogs
          /\ attempts' \in [Transfers -> Seq(Attempts)]
          /\ \A u \in Transfers : Len(attempts'[u]) = Len(attempts[u])
      BY <2>w, <2>r, UpdateAttemptEffect
    <2>1. DBType'
      BY <1>t, <1>9, <2>e, Zenon DEF DBType, ResumeSubmission
    <2>2. SharedType'
      BY <1>t, <1>9, <2>e DEF SharedType, ResumeSubmission
    <2>3. LocalType'
      BY <1>t, <1>9, <2>r DEF LocalType, ResumeSubmission, Goto, Return, Errors
    <2>4. LocalsOK'
      BY <1>t, <1>9, <1>j, <2>r, <2>e DEF LocalsOK, LocalType, ResumeSubmission, Goto, Return
    <2> QED
      BY <1>q, <2>1, <2>2, <2>3, <2>4
  <1>10. ASSUME NEW w \in Workers, BroadcastTransfer(w)
        PROVE  TypeInv'
    <2> DEFINE t == job[w].transfer
               h == attempts[t][att[w]].hash
    <2>h. h \in Transfers
      <3>1. attempts[t] \in Seq(Attempts) /\ att[w] \in 1..Len(attempts[t])
        BY <1>t, <1>j, <1>10 DEF DBType, LocalsOK, BroadcastTransfer
      <3>2. attempts[t][att[w]] \in Attempts
        BY <3>1
      <3> QED
        BY <3>2 DEF Attempts
    <2>c. /\ sent' \in {sent, sent \cup {h}}
          /\ \E e \in {"nil", "transient", "error"} : err' = [err EXCEPT ![w] = e]
          /\ UNCHANGED faults \/ Fault("broadcast")
      BY <1>10 DEF BroadcastTransfer
    <2> HIDE DEF h
    <2>1. DBType'
      BY <1>d, <1>10 DEF BroadcastTransfer
    <2>2. SharedType'
      BY <1>t, <1>10, <2>h, <2>c, FaultBudget DEF SharedType, BroadcastTransfer
    <2>3. LocalType'
      BY <1>t, <1>10, <2>c DEF LocalType, BroadcastTransfer, Goto, Errors
    <2>4. LocalsOK'
      BY <1>t, <1>10 DEF LocalsOK, LocalType, BroadcastTransfer, Goto, dbVars
    <2> QED
      BY <1>q, <2>1, <2>2, <2>3, <2>4
  <1>11. ASSUME NEW w \in Workers, RecordBroadcast(w)
        PROVE  TypeInv'
    <2>w. pc[w] \in WithAttempt /\ AfterBroadcast(err[w]) \in AttemptStatuses
      BY <1>11 DEF RecordBroadcast, AttemptStatuses, AfterBroadcast
    <2>r. PICK r \in Errors :
            /\ UpdateAttempt(w, "BROADCASTING", AfterBroadcast(err[w]), r)
            /\ \/ /\ r = "nil"
                  /\ Goto(w, IF err[w] = "nil" THEN "submit" ELSE "finish")
                  /\ UNCHANGED err
               \/ r = "conflict" /\ Goto(w, "latest") /\ UNCHANGED err
               \/ r \notin {"nil", "conflict"} /\ Return(w, r)
      BY <1>11 DEF RecordBroadcast
    <2>e. /\ faults' \in FaultLogs
          /\ attempts' \in [Transfers -> Seq(Attempts)]
          /\ \A u \in Transfers : Len(attempts'[u]) = Len(attempts[u])
      BY <2>w, <2>r, UpdateAttemptEffect
    <2>1. DBType'
      BY <1>t, <1>11, <2>e, Zenon DEF DBType, RecordBroadcast
    <2>2. SharedType'
      BY <1>t, <1>11, <2>e DEF SharedType, RecordBroadcast
    <2>3. LocalType'
      BY <1>t, <1>11, <2>r DEF LocalType, RecordBroadcast, Goto, Return, Errors
    <2>4. LocalsOK'
      BY <1>t, <1>11, <1>j, <2>r, <2>e DEF LocalsOK, LocalType, RecordBroadcast, Goto, Return
    <2> QED
      BY <1>q, <2>1, <2>2, <2>3, <2>4
  <1>12. ASSUME NEW w \in Workers, SubmitBroadcastedAttempt(w)
        PROVE  TypeInv'
    <2> DEFINE t == job[w].transfer
               h == attempts[t][att[w]].hash
    <2>h. h \in Transfers /\ pc[w] # "idle"
      <3>1. attempts[t] \in Seq(Attempts) /\ att[w] \in 1..Len(attempts[t])
        BY <1>t, <1>j, <1>12 DEF DBType, LocalsOK, SubmitBroadcastedAttempt
      <3>2. attempts[t][att[w]] \in Attempts
        BY <3>1
      <3> QED
        BY <1>12, <3>2 DEF Attempts, SubmitBroadcastedAttempt
    <2>r. PICK r \in Errors :
            /\ TransitionStatus(w, "SUBMITTED", h, r)
            /\ IF r = "nil"
               THEN /\ loc' = [loc EXCEPT ![w] = "SUBMITTED"]
                    /\ Goto(w, "process")
                    /\ UNCHANGED err
               ELSE Return(w, r) /\ UNCHANGED loc
      BY <1>12 DEF SubmitBroadcastedAttempt
    <2> HIDE DEF h
    <2>e. /\ faults' \in FaultLogs
          /\ status' \in [Transfers -> Statuses]
          /\ txHash' \in [Transfers -> Transfers \cup {NoHash}]
          /\ history' \in [Transfers -> Seq((Statuses \cup {""}) \X Statuses)]
      <3>1. "SUBMITTED" \in Statuses
        BY DEF Statuses
      <3> QED
        BY <2>h, <2>r, <3>1, TransitionStatusType
    <2>1. DBType'
      BY <1>t, <1>12, <2>e, Zenon DEF DBType, SubmitBroadcastedAttempt
    <2>2. SharedType'
      BY <1>t, <1>12, <2>e DEF SharedType, SubmitBroadcastedAttempt
    <2>3. LocalType'
      BY <1>t, <1>12, <2>r DEF LocalType, SubmitBroadcastedAttempt, Goto, Return, Errors, Statuses
    <2>4. LocalsOK'
      BY <1>t, <1>12, <2>r DEF LocalsOK, LocalType, SubmitBroadcastedAttempt, Goto, Return
    <2> QED
      BY <1>q, <2>1, <2>2, <2>3, <2>4
  <1>13. ASSUME NEW w \in Workers, Finish(w)
        PROVE  TypeInv'
    <2>1. DBType'
      BY <1>d, <1>13 DEF Finish
    <2>2. SharedType'
      BY <1>t, <1>13 DEF SharedType, Finish
    <2>3. LocalType'
      BY <1>t, <1>13 DEF LocalType, Finish, localVars, Goto, Errors
    <2>4. LocalsOK'
      BY <1>t, <1>13 DEF LocalsOK, LocalType, Finish, localVars, dbVars, Goto, Errors
    <2> QED
      BY <1>q, <2>1, <2>2, <2>3, <2>4
  <1>14. ASSUME NEW w \in Workers, RetryJob(w)
        PROVE  TypeInv'
    <2>1. DBType'
      BY <1>d, <1>14 DEF RetryJob
    <2>2. SharedType'
      <3> DEFINE next == [job[w] EXCEPT !.attempt = @ + 1]
      <3>1. job[w] \in Jobs
        BY <1>j, <1>14 DEF RetryJob
      <3>2. job[w].attempt < MaxRetries => next \in Jobs
        BY <3>1, ConstantsAssumption DEF Jobs
      <3>3. \/ UNCHANGED queue
            \/ job[w].attempt < MaxRetries /\ queue' = Enqueue(queue, next)
        BY <1>14 DEF RetryJob
      <3>4. queue' \in [Jobs -> Nat]
        BY <1>t, <3>2, <3>3, EnqueueType DEF SharedType
      <3>5. faults' \in FaultLogs
        BY <1>t, <1>14, FaultBudget DEF RetryJob, SharedType
      <3> QED
        BY <1>t, <1>14, <3>4, <3>5 DEF SharedType, RetryJob
    <2>3. LocalType'
      BY <1>t, <1>14 DEF LocalType, RetryJob, localVars, Goto
    <2>4. LocalsOK'
      BY <1>t, <1>14 DEF LocalsOK, LocalType, RetryJob, localVars, dbVars, Goto
    <2> QED
      BY <1>q, <2>1, <2>2, <2>3, <2>4
  <1>15. ASSUME NEW w \in Workers, FailTransferGet(w)
        PROVE  TypeInv'
    <2>1. DBType'
      BY <1>d, <1>15 DEF FailTransferGet
    <2>2. SharedType'
      BY <1>t, <1>15, RepositoryFaults DEF SharedType, FailTransferGet
    <2>3. LocalType'
      BY <1>t, <1>15, <1>j, <1>s DEF LocalType, FailTransferGet, Goto
    <2>4. LocalsOK'
      BY <1>t, <1>15 DEF LocalsOK, LocalType, FailTransferGet, localVars, dbVars, Goto
    <2> QED
      BY <1>q, <2>1, <2>2, <2>3, <2>4
  <1>16. ASSUME NEW w \in Workers, FailTransferSet(w)
        PROVE  TypeInv'
    <2>e. /\ faults' \in FaultLogs
          /\ status' \in [Transfers -> Statuses]
          /\ txHash' \in [Transfers -> Transfers \cup {NoHash}]
          /\ history' \in [Transfers -> Seq((Statuses \cup {""}) \X Statuses)]
      <3>1. "FAILED" \in Statuses /\ NoHash \in Transfers \cup {NoHash}
        BY DEF Statuses
      <3> QED
        BY <1>16, <3>1, TransitionStatusType DEF FailTransferSet
    <2>1. DBType'
      BY <1>t, <1>16, <2>e, Zenon DEF DBType, FailTransferSet
    <2>2. SharedType'
      BY <1>t, <1>16, <2>e DEF SharedType, FailTransferSet
    <2>3. LocalType'
      BY <1>t, <1>16 DEF LocalType, FailTransferSet, localVars, Goto
    <2>4. LocalsOK'
      BY <1>t, <1>16 DEF LocalsOK, LocalType, FailTransferSet, localVars, dbVars, Goto
    <2> QED
      BY <1>q, <2>1, <2>2, <2>3, <2>4
  <1>17. ASSUME NEW w \in Workers, Ack(w)
        PROVE  TypeInv'
    <2>1. DBType'
      BY <1>d, <1>17 DEF Ack
    <2>2. SharedType'
      BY <1>t, <1>17 DEF SharedType, Ack
    <2>3. LocalType'
      BY <1>t, <1>17 DEF LocalType, Ack, localVars, Goto
    <2>4. LocalsOK'
      BY <1>t, <1>17 DEF LocalsOK, LocalType, Ack, localVars, dbVars, Goto
    <2> QED
      BY <1>q, <2>1, <2>2, <2>3, <2>4
  <1>18. ASSUME NEW w \in Workers, Release(w)
        PROVE  TypeInv'
    <2>1. DBType'
      BY <1>d, <1>18 DEF Release
    <2>2. SharedType'
      <3>1. CASE held[w]
        BY <1>t, <1>j, <1>18, <3>1, EnqueueType, FaultBudget DEF SharedType, Release, Idle
      <3>2. CASE ~held[w]
        BY <1>t, <1>18, <3>2, FaultBudget DEF SharedType, Release, Idle
      <3> QED
        BY <3>1, <3>2
    <2>3. LocalType'
      BY <1>t, <1>18 DEF LocalType, Release, localVars, Idle, NoJob, Statuses, Errors
    <2>4. LocalsOK'
      BY <1>t, <1>18 DEF LocalsOK, LocalType, Release, localVars, dbVars, Idle,
            NoJob, Statuses, Errors
    <2> QED
      BY <1>q, <2>1, <2>2, <2>3, <2>4
  <1>19. ASSUME NEW t \in Transfers, LockExpires(t)
        PROVE  TypeInv'
    <2>1. DBType'
      BY <1>d, <1>19 DEF LockExpires
    <2>2. SharedType'
      BY <1>t, <1>19 DEF SharedType, LockExpires
    <2>3. LocalType'
      BY <1>t, <1>19 DEF LocalType, LockExpires, localVars
    <2>4. LocalsOK'
      BY <1>t, <1>19 DEF LocalsOK, LocalType, LockExpires, localVars, dbVars
    <2> QED
      BY <1>q, <2>1, <2>2, <2>3, <2>4
  <1>20. ASSUME NEW t \in Transfers, LockLost(t)
        PROVE  TypeInv'
    <2>1. DBType'
      BY <1>d, <1>20 DEF LockLost
    <2>2. SharedType'
      BY <1>t, <1>20, FaultBudget DEF SharedType, LockLost
    <2>3. LocalType'
      BY <1>t, <1>20 DEF LocalType, LockLost, localVars
    <2>4. LocalsOK'
      BY <1>t, <1>20 DEF LocalsOK, LocalType, LockLost, localVars, dbVars
    <2> QED
      BY <1>q, <2>1, <2>2, <2>3, <2>4
  <1>21. ASSUME NEW w \in Workers, HeartbeatFails(w)
        PROVE  TypeInv'
    <2>1. DBType'
      BY <1>d, <1>21 DEF HeartbeatFails
    <2>2. SharedType'
      BY <1>t, <1>21, FaultBudget DEF SharedType, HeartbeatFails
    <2>3. LocalType'
      BY <1>t, <1>21 DEF LocalType, HeartbeatFails, localVars
    <2>4. LocalsOK'
      BY <1>t, <1>21 DEF LocalsOK, LocalType, HeartbeatFails, localVars, dbVars
    <2> QED
      BY <1>q, <2>1, <2>2, <2>3, <2>4
  <1>22. ASSUME NEW w \in Workers, Shutdown(w)
        PROVE  TypeInv'
    <2>1. DBType'
      BY <1>d, <1>22 DEF Shutdown
    <2>2. SharedType'
      BY <1>t, <1>22, FaultBudget DEF SharedType, Shutdown
    <2>3. LocalType'
      BY <1>t, <1>22 DEF LocalType, Shutdown, localVars
    <2>4. LocalsOK'
      BY <1>t, <1>22 DEF LocalsOK, LocalType, Shutdown, localVars, dbVars
    <2> QED
      BY <1>q, <2>1, <2>2, <2>3, <2>4
  <1>23. ASSUME NEW w \in Workers, Crash(w)
        PROVE  TypeInv'
    <2>1. DBType'
      BY <1>d, <1>23 DEF Crash
    <2>2. SharedType'
      <3>1. CASE held[w]
        BY <1>t, <1>j, <1>23, <3>1, EnqueueType, FaultBudget DEF SharedType, Crash, Idle
      <3>2. CASE ~held[w]
        BY <1>t, <1>23, <3>2, FaultBudget DEF SharedType, Crash, Idle
      <3> QED
        BY <3>1, <3>2
    <2>3. LocalType'
      BY <1>t, <1>23 DEF LocalType, Crash, localVars, Idle, NoJob, Statuses, Errors
    <2>4. LocalsOK'
      BY <1>t, <1>23 DEF LocalsOK, LocalType, Crash, localVars, dbVars, Idle,
            NoJob, Statuses, Errors
    <2> QED
      BY <1>q, <2>1, <2>2, <2>3, <2>4
  <1>24. ASSUME NEW w \in Workers, ConnectionLost(w)
        PROVE  TypeInv'
    <2>1. DBType'
      BY <1>d, <1>24 DEF ConnectionLost
    <2>2. SharedType'
      BY <1>t, <1>24, <1>j, EnqueueType, FaultBudget DEF SharedType, ConnectionLost
    <2>3. LocalType'
      BY <1>t, <1>24 DEF LocalType, ConnectionLost, localVars
    <2>4. LocalsOK'
      BY <1>t, <1>24 DEF LocalsOK, LocalType, ConnectionLost, localVars, dbVars
    <2> QED
      BY <1>q, <2>1, <2>2, <2>3, <2>4
  <1>25. CASE UNCHANGED vars
    BY <1>t, <1>25 DEF vars, dbVars, localVars, TypeInv, TypeOK, LocalsOK
  <1> QED
    BY <1>1, <1>2, <1>3, <1>4, <1>5, <1>6, <1>7, <1>8, <1>9, <1>10, <1>11, <1>12,
       <1>13, <1>14, <1>15, <1>16, <1>17, <1>18, <1>19, <1>20, <1>21, <1>22,
       <1>23, <1>24, <1>25
    DEF Next, WorkerStep, WorkerEvent

(* The columns, queues and locals always have their types: no statement of    *)
(* processor.go or consumer.go, run by any number of workers over any number  *)
(* of transfers, leaves them.                                                 *)
THEOREM TypeCorrect == Spec => []TypeOK
  <1>1. TypeInv => TypeOK
    BY DEF TypeInv
  <1> QED
    BY <1>1, TypeInit, TypeStep, PTL DEF Spec
-----------------------------------------------------------------------------
(* Mutual exclusion *)

(* Why two live workers never process one transfer: while a worker's          *)
(* heartbeat runs, the key in Redis carries its token, so nobody else's SETNX *)
(* succeeds. A lock that disappears under a live heartbeat is excluded.       *)
HeartbeatHoldsLock ==
    \A w \in Workers : \A t \in Transfers : Heartbeats(w, t) => lock[t] = w

(* The steps that touch no lock and start no heartbeat. *)
LEMMA QuietStep ==
    ASSUME HeartbeatHoldsLock, UNCHANGED lock,
           \A w \in Workers : \A t \in Transfers :
                Heartbeats(w, t)' => Heartbeats(w, t)
    PROVE  HeartbeatHoldsLock'
  BY DEF HeartbeatHoldsLock

(* A repository call forgets no failure. *)
LEMMA RepositoryRemembers ==
    ASSUME NEW w, NEW r, Replies(w) \/ Fails(w, r)
    PROVE  faults.kinds \subseteq faults'.kinds
  BY DEF Replies, Fails, Fault

(* No step forgets a failure: the log of kinds only grows. *)
LEMMA FaultsRemembered ==
    [Next]_vars => faults.kinds \subseteq faults'.kinds
  <1> SUFFICES ASSUME [Next]_vars
               PROVE  faults.kinds \subseteq faults'.kinds
    OBVIOUS
  <1>f. \A k : Fault(k) => faults.kinds \subseteq faults'.kinds
    BY DEF Fault
  <1>r. \A w, r : Replies(w) \/ Fails(w, r) => faults.kinds \subseteq faults'.kinds
    BY RepositoryRemembers
  <1>t. \A w, to, h, r : TransitionStatus(w, to, h, r)
                            => faults.kinds \subseteq faults'.kinds
    BY <1>r DEF TransitionStatus
  <1>c. \A w, h, r : CreateAttempt(w, h, r) => faults.kinds \subseteq faults'.kinds
    BY <1>r DEF CreateAttempt
  <1>u. \A w, a, b, r : UpdateAttempt(w, a, b, r)
                            => faults.kinds \subseteq faults'.kinds
    BY <1>r DEF UpdateAttempt
  <1>1. ASSUME NEW w \in Workers, WorkerStep(w)
        PROVE  faults.kinds \subseteq faults'.kinds
    <2>1. CASE \E j \in Jobs : HandleDelivery(w, j)
      BY <2>1 DEF HandleDelivery
    <2>2. CASE GetByID(w) \/ GetLatestAttempt(w) \/ FailTransferGet(w)
      BY <2>2, <1>r DEF GetByID, GetLatestAttempt, FailTransferGet
    <2>3. CASE Advance(w) \/ SubmitBroadcastedAttempt(w) \/ FailTransferSet(w)
      BY <2>3, <1>r, <1>t DEF Advance, SubmitBroadcastedAttempt, FailTransferSet
    <2>4. CASE CreateAttemptAndSubmit(w)
      BY <2>4, <1>c, <1>r DEF CreateAttemptAndSubmit
    <2>5. CASE ResumeSubmission(w) \/ RecordBroadcast(w)
      BY <2>5, <1>u, <1>r DEF ResumeSubmission, RecordBroadcast
    <2>6. CASE BroadcastTransfer(w) \/ RetryJob(w) \/ Release(w)
      BY <2>6, <1>f DEF BroadcastTransfer, RetryJob, Release
    <2>7. CASE Finish(w) \/ Ack(w)
      BY <2>7 DEF Finish, Ack
    <2> QED
      BY <1>1, <2>1, <2>2, <2>3, <2>4, <2>5, <2>6, <2>7 DEF WorkerStep
  <1>2. ASSUME NEW w \in Workers, WorkerEvent(w)
        PROVE  faults.kinds \subseteq faults'.kinds
    BY <1>2, <1>f DEF WorkerEvent, AcquireFails, SignerFails, HeartbeatFails,
                      Shutdown, Crash, ConnectionLost
  <1>3. ASSUME NEW t \in Transfers,
               PublishTransferRequested(t) \/ LockExpires(t) \/ LockLost(t)
        PROVE  faults.kinds \subseteq faults'.kinds
    BY <1>3, <1>f DEF PublishTransferRequested, LockExpires, LockLost
  <1>4. CASE UNCHANGED vars
    BY <1>4 DEF vars
  <1> QED
    BY <1>1, <1>2, <1>3, <1>4 DEF Next

(* Every step but the loss of a key under a live heartbeat keeps the token in *)
(* the key while the heartbeat runs.                                          *)
LEMMA LockStep ==
    TypeInv /\ HeartbeatHoldsLock /\ "lock" \notin faults'.kinds /\ [Next]_vars
        => HeartbeatHoldsLock'
  <1> SUFFICES ASSUME TypeInv, HeartbeatHoldsLock, "lock" \notin faults'.kinds,
                      [Next]_vars
               PROVE  HeartbeatHoldsLock'
    OBVIOUS
  <1>t. LocalType /\ lock \in [Transfers -> Workers \cup {NoWorker}]
    BY TypeParts DEF TypeInv, SharedType
  <1>w. \A w \in Workers : w # NoWorker
    BY ConstantsAssumption
  <1>1. ASSUME NEW t \in Transfers, PublishTransferRequested(t)
        PROVE  HeartbeatHoldsLock'
    BY <1>1, QuietStep DEF PublishTransferRequested, Heartbeats, localVars
  <1>2. ASSUME NEW w \in Workers, NEW j \in Jobs, HandleDelivery(w, j)
        PROVE  HeartbeatHoldsLock'
    <2>1. \A v \in Workers, t \in Transfers :
            v # w => (Heartbeats(v, t)' <=> Heartbeats(v, t))
      BY <1>t, <1>2 DEF HandleDelivery, Heartbeats, Goto, LocalType
    <2>2. \A t \in Transfers : Heartbeats(w, t)' => t = j.transfer
      BY <1>t, <1>2 DEF HandleDelivery, Heartbeats, Goto, LocalType
    <2>3. \A v \in Workers : ~Heartbeats(v, j.transfer) \/ j.transfer \notin Transfers
      BY <1>w, <1>2 DEF HandleDelivery, HeartbeatHoldsLock
    <2> QED
      BY <1>t, <1>2, <2>1, <2>2, <2>3 DEF HandleDelivery, HeartbeatHoldsLock
  <1>3. ASSUME NEW w \in Workers, NEW j \in Jobs, AcquireFails(w, j)
        PROVE  HeartbeatHoldsLock'
    <2>1. \A v \in Workers, t \in Transfers : Heartbeats(v, t)' <=> Heartbeats(v, t)
      BY <1>3 DEF AcquireFails, Heartbeats, localVars
    <2> QED
      BY <1>t, <1>w, <1>3, <2>1 DEF AcquireFails, HeartbeatHoldsLock
  <1>4. ASSUME NEW w \in Workers, Release(w)
        PROVE  HeartbeatHoldsLock'
    <2>1. \A v \in Workers, t \in Transfers :
            Heartbeats(v, t)' => v # w /\ Heartbeats(v, t)
      BY <1>t, <1>4 DEF Release, Idle, Heartbeats, LocalType, Processing
    <2>2. \A t \in Transfers : lock'[t] = lock[t] \/ lock[t] = w
      BY <1>t, <1>4 DEF Release
    <2> QED
      BY <2>1, <2>2 DEF HeartbeatHoldsLock
  <1>5. ASSUME NEW t \in Transfers, LockExpires(t)
        PROVE  HeartbeatHoldsLock'
    <2>1. \A v \in Workers, u \in Transfers : Heartbeats(v, u)' <=> Heartbeats(v, u)
      BY <1>5 DEF LockExpires, Heartbeats, localVars
    <2>2. \A v \in Workers : ~Heartbeats(v, t)
      BY <1>5 DEF LockExpires, HeartbeatHoldsLock
    <2> QED
      BY <1>t, <1>5, <2>1, <2>2 DEF LockExpires, HeartbeatHoldsLock
  <1>6. ASSUME NEW t \in Transfers, LockLost(t)
        PROVE  FALSE
    BY <1>6 DEF LockLost, Fault, Remembered
  <1>7. ASSUME NEW w \in Workers, GetByID(w)
        PROVE  HeartbeatHoldsLock'
    BY <1>t, <1>7, QuietStep
    DEF GetByID, Return, Goto, Heartbeats, LocalType, Processing
  <1>8. ASSUME NEW w \in Workers, Advance(w)
        PROVE  HeartbeatHoldsLock'
    BY <1>t, <1>8, QuietStep
    DEF Advance, Return, Goto, Heartbeats, LocalType, Processing
  <1>9. ASSUME NEW w \in Workers, GetLatestAttempt(w)
        PROVE  HeartbeatHoldsLock'
    BY <1>t, <1>9, QuietStep
    DEF GetLatestAttempt, Return, Goto, Heartbeats, LocalType, Processing
  <1>10. ASSUME NEW w \in Workers, SignerFails(w)
        PROVE  HeartbeatHoldsLock'
    BY <1>t, <1>10, QuietStep
    DEF SignerFails, Return, Goto, Heartbeats, LocalType, Processing
  <1>11. ASSUME NEW w \in Workers, CreateAttemptAndSubmit(w)
        PROVE  HeartbeatHoldsLock'
    BY <1>t, <1>11, QuietStep
    DEF CreateAttemptAndSubmit, Return, Goto, Heartbeats, LocalType, Processing
  <1>12. ASSUME NEW w \in Workers, ResumeSubmission(w)
        PROVE  HeartbeatHoldsLock'
    BY <1>t, <1>12, QuietStep
    DEF ResumeSubmission, Return, Goto, Heartbeats, LocalType, Processing
  <1>13. ASSUME NEW w \in Workers, BroadcastTransfer(w)
        PROVE  HeartbeatHoldsLock'
    BY <1>t, <1>13, QuietStep
    DEF BroadcastTransfer, Goto, Heartbeats, LocalType, Processing
  <1>14. ASSUME NEW w \in Workers, RecordBroadcast(w)
        PROVE  HeartbeatHoldsLock'
    BY <1>t, <1>14, QuietStep
    DEF RecordBroadcast, Return, Goto, Heartbeats, LocalType, Processing
  <1>15. ASSUME NEW w \in Workers, SubmitBroadcastedAttempt(w)
        PROVE  HeartbeatHoldsLock'
    BY <1>t, <1>15, QuietStep
    DEF SubmitBroadcastedAttempt, Return, Goto, Heartbeats, LocalType, Processing
  <1>16. ASSUME NEW w \in Workers, Finish(w)
        PROVE  HeartbeatHoldsLock'
    BY <1>t, <1>16, QuietStep
    DEF Finish, Goto, Heartbeats, LocalType, Processing
  <1>17. ASSUME NEW w \in Workers, RetryJob(w)
        PROVE  HeartbeatHoldsLock'
    BY <1>t, <1>17, QuietStep
    DEF RetryJob, Goto, Heartbeats, LocalType, Processing
  <1>18. ASSUME NEW w \in Workers, FailTransferGet(w)
        PROVE  HeartbeatHoldsLock'
    BY <1>t, <1>18, QuietStep
    DEF FailTransferGet, Goto, Heartbeats, LocalType, Processing
  <1>19. ASSUME NEW w \in Workers, FailTransferSet(w)
        PROVE  HeartbeatHoldsLock'
    BY <1>t, <1>19, QuietStep
    DEF FailTransferSet, Goto, Heartbeats, LocalType, Processing
  <1>20. ASSUME NEW w \in Workers, Ack(w)
        PROVE  HeartbeatHoldsLock'
    BY <1>t, <1>20, QuietStep
    DEF Ack, Goto, Heartbeats, LocalType, Processing
  <1>21. ASSUME NEW w \in Workers, HeartbeatFails(w)
        PROVE  HeartbeatHoldsLock'
    BY <1>t, <1>21, QuietStep
    DEF HeartbeatFails, Heartbeats, LocalType, Processing
  <1>22. ASSUME NEW w \in Workers, Shutdown(w)
        PROVE  HeartbeatHoldsLock'
    BY <1>t, <1>22, QuietStep
    DEF Shutdown, Heartbeats, LocalType, Processing
  <1>23. ASSUME NEW w \in Workers, Crash(w)
        PROVE  HeartbeatHoldsLock'
    BY <1>t, <1>23, QuietStep
    DEF Crash, Idle, Heartbeats, LocalType, Processing
  <1>24. ASSUME NEW w \in Workers, ConnectionLost(w)
        PROVE  HeartbeatHoldsLock'
    BY <1>t, <1>24, QuietStep
    DEF ConnectionLost, Heartbeats, LocalType, Processing
  <1>25. CASE UNCHANGED vars
    BY <1>25, QuietStep DEF vars, localVars, Heartbeats
  <1> QED
    BY <1>1, <1>2, <1>3, <1>4, <1>5, <1>6, <1>7, <1>8, <1>9, <1>10, <1>11, <1>12,
       <1>13, <1>14, <1>15, <1>16, <1>17, <1>18, <1>19, <1>20, <1>21, <1>22, <1>23, <1>24, <1>25
    DEF Next, WorkerStep, WorkerEvent

(* Two workers with a live context never process the same transfer, however   *)
(* many deliveries of its job there are and however locks expire, unless a    *)
(* key disappears under a live heartbeat (lock.go and the heartbeat of        *)
(* consumer.go). For the workers that do lose it, see OneTransaction.         *)
THEOREM MutualExclusion == Spec => []ExclusiveProcessing
  <1> DEFINE Safe == "lock" \notin faults.kinds => HeartbeatHoldsLock
  <1>1. Init => Safe
    BY DEF Init, HeartbeatHoldsLock, Heartbeats, Processing
  <1>2. TypeInv /\ Safe /\ [Next]_vars => Safe'
    BY LockStep, FaultsRemembered
  <1>3. Safe => ExclusiveProcessing
    BY DEF HeartbeatHoldsLock, ExclusiveProcessing
  <1> HIDE DEF Safe
  <1> QED
    BY <1>1, <1>2, <1>3, TypeInit, TypeStep, PTL DEF Spec

-----------------------------------------------------------------------------
(* Jobs are not lost *)

\* The failures that handleDelivery survives: no call of it is cancelled, no
\* key is lost, and the database and Redis answer.
Reliable == Faults \subseteq {"crash", "signer", "broadcast", "broker", "conn"}

Undisturbed == faults.kinds \subseteq Faults /\ \A w \in Workers : ctx[w] = "live"

Queued(t) == \E j \in Jobs : j.transfer = t /\ queue[j] > 0

\* The delivery in w's hands will settle t or be handed on. At "ack" it will
\* not, and at "failset" only if nobody has moved the transfer since the read.
Carries(w, t) ==
    /\ job[w].transfer = t
    /\ held[w]
    /\ \/ pc[w] \in Processing \cup {"retry", "failget", "release"}
       \/ pc[w] = "failset" /\ loc[w] = status[t]

(* What a worker knows of the transfer it processes: nobody else moves it     *)
(* but to FAILED, and when ProcessTransfer reports success, or a race that    *)
(* was lost, the transfer is settled. If its delivery was taken back, the     *)
(* copy waits for the lock.                                                   *)
Knows(w) ==
    LET t == job[w].transfer
    IN  /\ held[w] \/ Queued(t)
        /\ pc[w] # "get" => status[t] \in {loc[w]} \cup Settled
        /\ pc[w] = "finish" /\ err[w] \in {"nil", "invalid"} => status[t] \in Settled
        /\ pc[w] = "record" => err[w] # "invalid"

WorkersKnow == \A w \in Workers : pc[w] \in Processing => Knows(w)

(* Somebody is responsible for a published transfer until it is settled. *)
SomebodyCarries ==
    \A t \in Transfers :
        /\ status[t] # "CONFIRMED"
        /\ published[t] > 0 /\ status[t] \notin Settled
                => Queued(t) \/ \E w \in Workers : Carries(w, t)

JobInv == WorkersKnow /\ SomebodyCarries

(* Without those failures no repository call of a live worker fails. *)
LEMMA CallsAnswered ==
    ASSUME Reliable, Undisturbed, NEW w \in Workers, NEW r, Fails(w, r)
    PROVE  FALSE
  BY DEF Reliable, Undisturbed, Fails, Fault

(* A status is moved on from the one the worker saw, or somebody else did. *)
LEMMA MovesOrLoses ==
    ASSUME Reliable, Undisturbed, NEW w \in Workers, NEW to, NEW h, NEW r,
           TransitionStatus(w, to, h, r)
    PROVE  /\ UNCHANGED faults
           /\ \/ /\ r = "nil"
                 /\ status[job[w].transfer] = loc[w]
                 /\ status' = [status EXCEPT ![job[w].transfer] = to]
              \/ /\ r = "invalid"
                 /\ status[job[w].transfer] # loc[w]
                 /\ UNCHANGED status
  BY CallsAnswered DEF TransitionStatus, Replies

(* Attempts are written, or somebody else has written them. *)
LEMMA WritesOrConflicts ==
    ASSUME Reliable, Undisturbed, NEW w \in Workers, NEW r, NEW h, NEW a, NEW b,
           CreateAttempt(w, h, r) \/ UpdateAttempt(w, a, b, r)
    PROVE  UNCHANGED faults /\ r \in {"nil", "conflict"}
  BY CallsAnswered DEF CreateAttempt, UpdateAttempt, Replies

(* The latest attempt has a status. *)
LEMMA LatestStatus ==
    ASSUME TypeInv, NEW t \in Transfers, Len(attempts[t]) > 0
    PROVE  attempts[t][Len(attempts[t])].status \in AttemptStatuses
  <1>1. attempts[t] \in Seq(Attempts)
    BY DEF TypeInv, TypeOK
  <1>2. attempts[t][Len(attempts[t])] \in Attempts
    BY <1>1
  <1> QED
    BY <1>2 DEF Attempts

(* One worker processes a transfer at a time. *)
LEMMA Alone ==
    ASSUME Undisturbed, HeartbeatHoldsLock,
           NEW v \in Workers, NEW w \in Workers, NEW t \in Transfers,
           pc[v] \in Processing, pc[w] \in Processing,
           job[v].transfer = t, job[w].transfer = t
    PROVE  v = w
  BY DEF Undisturbed, HeartbeatHoldsLock, Heartbeats

(* What ProcessTransfer does to its transfer: the worker goes on with what it *)
(* wrote or with a settled transfer, and still has its delivery, or a copy of *)
(* it is queued.                                                              *)
LEMMA ProcessingStep ==
    ASSUME TypeInv, Undisturbed, HeartbeatHoldsLock, JobInv,
           NEW w \in Workers, NEW t \in Transfers,
           t = job[w].transfer, pc[w] \in Processing,
           UNCHANGED <<queue, published, job, held>>,
           \A v \in Workers : v # w =>
                pc'[v] = pc[v] /\ loc'[v] = loc[v] /\ err'[v] = err[v],
           \A u \in Transfers : u # t => status'[u] = status[u],
           pc'[w] \in Processing \ {"get"},
           status'[t] \in {loc'[w]} \cup Settled,
           status'[t] # "CONFIRMED",
           pc'[w] = "finish" /\ err'[w] \in {"nil", "invalid"} => status'[t] \in Settled,
           pc'[w] = "record" => err'[w] # "invalid"
    PROVE  JobInv'
  <1>q. \A u : Queued(u)' <=> Queued(u)
    BY DEF Queued
  <1>j. \A v \in Workers : pc[v] # "idle" => job[v].transfer \in Transfers
    BY DEF TypeInv, LocalsOK, Jobs
  <1>1. WorkersKnow'
    <2> SUFFICES ASSUME NEW v \in Workers, pc'[v] \in Processing
                 PROVE  Knows(v)'
      BY DEF WorkersKnow
    <2>2. CASE v = w
      BY <1>q, <2>2 DEF JobInv, WorkersKnow, Knows
    <2>3. CASE v # w
      <3>1. pc[v] \in Processing /\ job[v].transfer \in Transfers
        BY <1>j, <2>3 DEF Processing
      <3>2. job[v].transfer # t
        BY <2>3, <3>1, Alone
      <3>3. status'[job[v].transfer] = status[job[v].transfer]
        BY <3>1, <3>2
      <3> QED
        BY <1>q, <2>3, <3>1, <3>3 DEF JobInv, WorkersKnow, Knows
    <2> QED
      BY <2>2, <2>3
  <1>2. SomebodyCarries'
    <2> SUFFICES ASSUME NEW u \in Transfers
                 PROVE  /\ status'[u] # "CONFIRMED"
                        /\ published'[u] > 0 /\ status'[u] \notin Settled
                            => Queued(u)' \/ \E v \in Workers : Carries(v, u)'
      BY DEF SomebodyCarries
    <2>1. status'[u] # "CONFIRMED"
      BY DEF JobInv, SomebodyCarries
    <2>2. CASE u = t
      <3>1. held[w] => Carries(w, t)'
        BY DEF Carries
      <3> QED
        BY <1>q, <2>1, <2>2, <3>1 DEF JobInv, WorkersKnow, Knows
    <2>3. CASE u # t
      <3>1. \A v \in Workers : Carries(v, u) => v # w /\ Carries(v, u)'
        BY <2>3 DEF Carries
      <3> QED
        BY <1>q, <2>1, <2>3, <3>1 DEF JobInv, SomebodyCarries
    <2> QED
      BY <2>2, <2>3
  <1> QED
    BY <1>1, <1>2 DEF JobInv

(* Every step of ProcessTransfer is one of those. *)
LEMMA ProcessTransferStep ==
    ASSUME Reliable, TypeInv, Undisturbed, HeartbeatHoldsLock, JobInv,
           NEW w \in Workers,
           \/ GetByID(w) \/ Advance(w) \/ GetLatestAttempt(w) \/ SignerFails(w)
           \/ CreateAttemptAndSubmit(w) \/ ResumeSubmission(w)
           \/ BroadcastTransfer(w) \/ RecordBroadcast(w)
           \/ SubmitBroadcastedAttempt(w)
    PROVE  JobInv'
  <1>p. pc[w] \in Processing /\ pc[w] # "idle"
    BY DEF GetByID, Advance, GetLatestAttempt, SignerFails, CreateAttemptAndSubmit,
           ResumeSubmission, BroadcastTransfer, RecordBroadcast,
           SubmitBroadcastedAttempt, Processing
  <1>t. PICK t \in Transfers : t = job[w].transfer
    BY <1>p DEF TypeInv, LocalsOK, Jobs
  <1>l. /\ pc \in [Workers -> PCs]
        /\ loc \in [Workers -> Statuses]
        /\ err \in [Workers -> Errors]
        /\ status \in [Transfers -> Statuses]
    BY DEF TypeInv, TypeOK
  <1>k. /\ pc[w] # "get" => status[t] \in {loc[w]} \cup Settled
        /\ pc[w] = "record" => err[w] # "invalid"
        /\ status[t] # "CONFIRMED"
    BY <1>p, <1>t DEF JobInv, WorkersKnow, Knows, SomebodyCarries
  <1>f. \A r : ~Fails(w, r)
    BY CallsAnswered
  <1>s. "CONFIRMED" \notin Settled
    BY DEF Settled
  <1>1. CASE GetByID(w)
    BY <1>p, <1>t, <1>l, <1>k, <1>f, <1>1, ProcessingStep
    DEF GetByID, Return, Goto, dbVars, Processing
  <1>2. CASE Advance(w)
    <2>1. PICK r \in Errors :
            /\ TransitionStatus(w, Successor[loc[w]], NoHash, r)
            /\ IF r = "nil"
               THEN /\ loc' = [loc EXCEPT ![w] = Successor[loc[w]]]
                    /\ IF loc[w] = "SUBMITTED" THEN Return(w, "nil")
                       ELSE UNCHANGED <<pc, err>>
               ELSE Return(w, r) /\ UNCHANGED loc
      BY <1>2 DEF Advance
    <2>2. pc[w] = "process" /\ UNCHANGED <<queue, published, job, held>>
      BY <1>2 DEF Advance
    <2>3. CASE r = "nil"
      <3>1. status' = [status EXCEPT ![t] = Successor[loc[w]]]
        BY <1>t, <2>1, <2>3, MovesOrLoses
      <3>2. /\ Successor[loc[w]] # "CONFIRMED"
            /\ loc[w] = "SUBMITTED" => Successor[loc[w]] \in Settled
        BY <1>2 DEF Advance, Successor, Settled
      <3> HIDE DEF Successor
      <3> QED
        BY <1>p, <1>t, <1>l, <2>1, <2>2, <2>3, <3>1, <3>2, ProcessingStep
        DEF Return, Goto, Processing
    <2>4. CASE r # "nil"
      <3>1. r = "invalid" /\ status[t] # loc[w] /\ UNCHANGED status
        BY <1>t, <2>1, <2>4, MovesOrLoses
      <3> QED
        BY <1>p, <1>t, <1>l, <1>k, <1>s, <2>1, <2>2, <2>4, <3>1, ProcessingStep
        DEF Return, Goto, Processing
    <2> QED
      BY <2>3, <2>4
  <1>3. CASE GetLatestAttempt(w)
    <2>1. Len(attempts[t]) > 0 =>
            attempts[t][Len(attempts[t])].status \in AttemptStatuses
      BY LatestStatus
    <2>2. /\ UNCHANGED <<queue, published, job, held, loc, status>>
          /\ pc[w] # "get"
          /\ \/ Goto(w, "create") /\ UNCHANGED err
             \/ \E s \in AttemptStatuses :
                    /\ Goto(w, ResumePoint[s])
                    /\ err' = [err EXCEPT ![w] =
                                IF s = "FAILED" THEN "error" ELSE "nil"]
      BY <1>t, <1>f, <1>3, <2>1, Zenon DEF GetLatestAttempt, dbVars
    <2>3. /\ pc'[w] \in Processing \ {"get", "record"}
          /\ pc'[w] = "finish" => err'[w] = "error"
          /\ \A v \in Workers : v # w => pc'[v] = pc[v] /\ err'[v] = err[v]
      BY <1>l, <2>2 DEF Goto, ResumePoint, AttemptStatuses, Processing
    <2> QED
      BY <1>p, <1>t, <1>l, <1>k, <2>2, <2>3, ProcessingStep
  <1>4. CASE SignerFails(w)
    BY <1>p, <1>t, <1>l, <1>k, <1>4, ProcessingStep
    DEF SignerFails, Return, Goto, dbVars, Processing
  <1>5. CASE CreateAttemptAndSubmit(w)
    <2>1. PICK r \in Errors :
            /\ CreateAttempt(w, SignTransfer(job[w].transfer), r)
            /\ \/ r = "nil" /\ Goto(w, "resume") /\ UNCHANGED err
               \/ r = "conflict" /\ Goto(w, "latest") /\ UNCHANGED err
               \/ r \notin {"nil", "conflict"}
      BY <1>5 DEF CreateAttemptAndSubmit
    <2>2. r \in {"nil", "conflict"}
      BY <2>1, WritesOrConflicts
    <2> QED
      BY <1>p, <1>t, <1>l, <1>k, <1>5, <2>1, <2>2, ProcessingStep
      DEF CreateAttemptAndSubmit, Goto, Processing
  <1>6. CASE ResumeSubmission(w)
    <2>1. PICK r \in Errors :
            /\ UpdateAttempt(w, "SIGNED", "BROADCASTING", r)
            /\ \/ r = "nil" /\ Goto(w, "broadcast") /\ UNCHANGED err
               \/ r = "conflict" /\ Goto(w, "latest") /\ UNCHANGED err
               \/ r \notin {"nil", "conflict"}
      BY <1>6 DEF ResumeSubmission
    <2>2. r \in {"nil", "conflict"}
      BY <2>1, WritesOrConflicts
    <2> QED
      BY <1>p, <1>t, <1>l, <1>k, <1>6, <2>1, <2>2, ProcessingStep
      DEF ResumeSubmission, Goto, Processing
  <1>7. CASE BroadcastTransfer(w)
    BY <1>p, <1>t, <1>l, <1>k, <1>7, ProcessingStep
    DEF BroadcastTransfer, Goto, dbVars, Processing
  <1>8. CASE RecordBroadcast(w)
    <2>1. PICK r \in Errors :
            /\ UpdateAttempt(w, "BROADCASTING", AfterBroadcast(err[w]), r)
            /\ \/ /\ r = "nil"
                  /\ Goto(w, IF err[w] = "nil" THEN "submit" ELSE "finish")
                  /\ UNCHANGED err
               \/ r = "conflict" /\ Goto(w, "latest") /\ UNCHANGED err
               \/ r \notin {"nil", "conflict"}
      BY <1>8 DEF RecordBroadcast
    <2>2. r \in {"nil", "conflict"}
      BY <2>1, WritesOrConflicts
    <2> QED
      BY <1>p, <1>t, <1>l, <1>k, <1>8, <2>1, <2>2, ProcessingStep
      DEF RecordBroadcast, Goto, Processing
  <1>9. CASE SubmitBroadcastedAttempt(w)
    <2>1. PICK r \in Errors :
            /\ TransitionStatus(w, "SUBMITTED",
                                attempts[job[w].transfer][att[w]].hash, r)
            /\ IF r = "nil"
               THEN /\ loc' = [loc EXCEPT ![w] = "SUBMITTED"]
                    /\ Goto(w, "process")
                    /\ UNCHANGED err
               ELSE Return(w, r) /\ UNCHANGED loc
      BY <1>9 DEF SubmitBroadcastedAttempt
    <2>2. pc[w] = "submit" /\ UNCHANGED <<queue, published, job, held>>
      BY <1>9 DEF SubmitBroadcastedAttempt
    <2>3. CASE r = "nil"
      <3>1. status' = [status EXCEPT ![t] = "SUBMITTED"]
        BY <1>t, <2>1, <2>3, MovesOrLoses
      <3> QED
        BY <1>p, <1>t, <1>l, <2>1, <2>2, <2>3, <3>1, ProcessingStep
        DEF Goto, Processing
    <2>4. CASE r # "nil"
      <3>1. r = "invalid" /\ status[t] # loc[w] /\ UNCHANGED status
        BY <1>t, <2>1, <2>4, MovesOrLoses
      <3> QED
        BY <1>p, <1>t, <1>l, <1>k, <1>s, <2>1, <2>2, <2>4, <3>1, ProcessingStep
        DEF Return, Goto, Processing
    <2> QED
      BY <2>3, <2>4
  <1> QED
    BY <1>1, <1>2, <1>3, <1>4, <1>5, <1>6, <1>7, <1>8, <1>9

(* A settling step of w that writes no status: it changes where w is, and the *)
(* delivery stays carried.                                                    *)
LEMMA SettlingStep ==
    ASSUME TypeInv, JobInv,
           NEW w \in Workers, NEW t \in Transfers, t = job[w].transfer,
           pc[w] # "idle", pc'[w] \notin Processing,
           UNCHANGED <<status, published>>,
           \A v \in Workers : v # w =>
                /\ pc'[v] = pc[v] /\ loc'[v] = loc[v] /\ err'[v] = err[v]
                /\ job'[v] = job[v] /\ held'[v] = held[v],
           \A u \in Transfers : Queued(u) => Queued(u)',
           Carries(w, t) /\ status[t] \notin Settled => Queued(t)' \/ Carries(w, t)'
    PROVE  JobInv'
  <1>j. \A v \in Workers : pc[v] # "idle" => job[v].transfer \in Transfers
    BY DEF TypeInv, LocalsOK, Jobs
  <1>1. WorkersKnow'
    <2> SUFFICES ASSUME NEW v \in Workers, pc'[v] \in Processing
                 PROVE  Knows(v)'
      BY DEF WorkersKnow
    <2>1. v # w
      OBVIOUS
    <2>2. pc[v] \in Processing /\ pc[v] # "idle"
      BY <2>1 DEF Processing
    <2>3. Queued(job[v].transfer) => Queued(job[v].transfer)'
      BY <1>j, <2>2
    <2>4. Knows(v)
      BY <2>2 DEF JobInv, WorkersKnow
    <2>5. PICK u \in Transfers : u = job[v].transfer /\ u = job'[v].transfer
      BY <1>j, <2>1, <2>2
    <2> QED
      BY <2>1, <2>4, <2>5 DEF Knows
  <1>2. SomebodyCarries'
    <2>1. \A u \in Transfers : \A v \in Workers : v # w => (Carries(v, u)' <=> Carries(v, u))
      BY DEF Carries
    <2>2. \A u \in Transfers : Carries(w, u) => u = t
      BY DEF Carries
    <2> QED
      BY <2>1, <2>2 DEF JobInv, SomebodyCarries
  <1> QED
    BY <1>1, <1>2 DEF JobInv

(* The queue grows. *)
LEMMA EnqueueKeeps ==
    ASSUME TypeInv, NEW j \in Jobs, queue' = Enqueue(queue, j)
    PROVE  /\ \A u \in Transfers : Queued(u) => Queued(u)'
           /\ Queued(j.transfer)'
  <1>1. queue \in [Jobs -> Nat]
    BY DEF TypeInv, TypeOK
  <1>2. /\ \A k \in Jobs : queue'[k] >= queue[k]
        /\ queue'[j] > 0
        /\ queue' \in [Jobs -> Nat]
    BY <1>1 DEF Enqueue
  <1> QED
    BY <1>1, <1>2 DEF Queued

(* What handleDelivery does after ProcessTransfer: acknowledging is the only  *)
(* step that lets go of a delivery, and it is reached with a settled transfer *)
(* or after publishing the next copy.                                         *)
LEMMA SettleStep ==
    ASSUME Reliable, TypeInv, Undisturbed, HeartbeatHoldsLock, JobInv,
           NEW w \in Workers,
           \/ Finish(w) \/ RetryJob(w) \/ FailTransferGet(w) \/ Ack(w) \/ Release(w)
           \/ Crash(w)
    PROVE  JobInv'
  <1>p. pc[w] # "idle" /\ ctx[w] = "live"
    BY DEF Finish, RetryJob, FailTransferGet, Ack, Release, Crash, Undisturbed
  <1>t. PICK t \in Transfers : t = job[w].transfer
    BY <1>p DEF TypeInv, LocalsOK, Jobs
  <1>l. /\ pc \in [Workers -> PCs]
        /\ loc \in [Workers -> Statuses]
        /\ err \in [Workers -> Errors]
        /\ job \in [Workers -> Jobs \cup {NoJob}]
        /\ held \in [Workers -> BOOLEAN]
        /\ job[w] \in Jobs
    BY <1>p DEF TypeInv, TypeOK, LocalsOK
  <1>n. UNCHANGED queue => \A u \in Transfers : Queued(u) => Queued(u)'
    BY DEF Queued
  <1>1. CASE Finish(w)
    <2>1. err[w] \in {"nil", "invalid"} => status[t] \in Settled
      BY <1>t, <1>1 DEF Finish, JobInv, WorkersKnow, Knows, Processing
    <2>2. pc'[w] \in {"ack", "retry", "failget"}
      BY <1>p, <1>l, <1>1 DEF Finish, Goto
    <2>3. pc'[w] = "ack" => err[w] \in {"nil", "invalid"}
      BY <1>p, <1>l, <1>1 DEF Finish, Goto
    <2>4. Carries(w, t) /\ pc'[w] # "ack" => Carries(w, t)'
      BY <1>1, <2>2 DEF Finish, Carries
    <2> QED
      BY <1>p, <1>t, <1>l, <1>n, <1>1, <2>1, <2>2, <2>3, <2>4, SettlingStep
      DEF Finish, Goto, dbVars, Processing
  <1>2. CASE RetryJob(w)
    <2> DEFINE next == [job[w] EXCEPT !.attempt = @ + 1]
    <2>1. /\ UNCHANGED <<status, published, job, held, loc, err>>
          /\ \/ Goto(w, "failget") /\ UNCHANGED queue
             \/ /\ job[w].attempt < MaxRetries
                /\ queue' = Enqueue(queue, next)
                /\ Goto(w, "ack") \/ Goto(w, "release")
             \/ Goto(w, "release") /\ UNCHANGED queue
      BY <1>p, <1>2 DEF RetryJob, dbVars, Reliable, Fault
    <2>2. job[w].attempt < MaxRetries => next \in Jobs /\ next.transfer = t
      BY <1>t, <1>l, ConstantsAssumption DEF Jobs
    <2> HIDE DEF next
    <2>3. CASE queue' = Enqueue(queue, next) /\ job[w].attempt < MaxRetries
      <3>1. /\ \A u \in Transfers : Queued(u) => Queued(u)'
            /\ Queued(t)'
        BY <2>2, <2>3, EnqueueKeeps
      <3> QED
        BY <1>p, <1>t, <1>l, <1>2, <2>1, <3>1, SettlingStep
        DEF Goto, Processing
    <2>4. CASE UNCHANGED queue /\ (Goto(w, "failget") \/ Goto(w, "release"))
      <3>1. Carries(w, t) => Carries(w, t)'
        BY <1>l, <2>1, <2>4 DEF Goto, Carries
      <3> QED
        BY <1>p, <1>t, <1>l, <1>n, <2>1, <2>4, <3>1, SettlingStep
        DEF Goto, Processing
    <2> QED
      BY <2>1, <2>3, <2>4
  <1>3. CASE FailTransferGet(w)
    <2>1. /\ UNCHANGED <<status, queue, published, job, held, err>>
          /\ loc' = [loc EXCEPT ![w] = status[t]]
          /\ Goto(w, IF status[t] \in Settled THEN "ack" ELSE "failset")
      BY <1>t, <1>3, CallsAnswered DEF FailTransferGet, dbVars
    <2>2. Carries(w, t) /\ status[t] \notin Settled => Carries(w, t)'
      BY <1>l, <2>1 DEF Goto, Carries
    <2> QED
      BY <1>p, <1>t, <1>l, <1>n, <2>1, <2>2, SettlingStep DEF Goto, Processing
  <1>4. CASE Ack(w)
    <2>1. ~Carries(w, t)
      BY <1>4 DEF Ack, Carries, Processing
    <2> QED
      BY <1>p, <1>t, <1>l, <1>n, <1>4, <2>1, SettlingStep DEF Ack, Goto, Processing, dbVars
  <1>5. CASE Release(w) \/ Crash(w)
    <2>1. /\ UNCHANGED <<status, published>>
          /\ Idle(w)
      BY <1>5 DEF Release, Crash, dbVars
    <2>2. Carries(w, t) => Queued(t)'
      BY <1>t, <1>l, <2>1, EnqueueKeeps DEF Idle, Carries
    <2>3. \A u \in Transfers : Queued(u) => Queued(u)'
      BY <1>l, <1>n, <2>1, EnqueueKeeps DEF Idle
    <2> QED
      BY <1>p, <1>t, <1>l, <2>1, <2>2, <2>3, SettlingStep DEF Idle, Processing
  <1> QED
    BY <1>1, <1>2, <1>3, <1>4, <1>5

(* The other steps: a transfer is failed, a delivery is taken back or handed  *)
(* out, a job is published. A delivery is handed out only when nobody         *)
(* processes the transfer, so no worker loses the copy that stands for it.    *)
LEMMA DeliveryStep ==
    ASSUME Reliable, TypeInv, Undisturbed, HeartbeatHoldsLock, JobInv,
           \/ \E w \in Workers :
                \/ FailTransferSet(w)
                \/ ConnectionLost(w)
                \/ \E j \in Jobs : HandleDelivery(w, j)
           \/ \E t \in Transfers : PublishTransferRequested(t)
    PROVE  JobInv'
  <1>j. \A v \in Workers : pc[v] # "idle" => job[v].transfer \in Transfers
    BY DEF TypeInv, LocalsOK, Jobs
  <1>l. /\ pc \in [Workers -> PCs]
        /\ loc \in [Workers -> Statuses]
        /\ status \in [Transfers -> Statuses]
        /\ job \in [Workers -> Jobs \cup {NoJob}]
        /\ held \in [Workers -> BOOLEAN]
        /\ queue \in [Jobs -> Nat]
        /\ published \in [Transfers -> 0..MaxCopies]
    BY DEF TypeInv, TypeOK
  <1>i. "idle" \notin Processing
    BY DEF Processing
  <1>1. ASSUME NEW w \in Workers, FailTransferSet(w)
        PROVE  JobInv'
    <2>1. PICK t \in Transfers : t = job[w].transfer
      BY <1>j, <1>1 DEF FailTransferSet
    <2>2. PICK r \in Errors : TransitionStatus(w, "FAILED", NoHash, r)
      BY <1>1 DEF FailTransferSet
    <2>3. /\ pc[w] = "failset"
          /\ Goto(w, "ack")
          /\ UNCHANGED <<queue, published, job, loc, err, held>>
      BY <1>1 DEF FailTransferSet
    <2>q. \A u : Queued(u)' <=> Queued(u)
      BY <2>3 DEF Queued
    <2>4. CASE status' = [status EXCEPT ![t] = "FAILED"]
      <3>1. WorkersKnow'
        <4> SUFFICES ASSUME NEW v \in Workers, pc'[v] \in Processing
                     PROVE  Knows(v)'
          BY DEF WorkersKnow
        <4>1. pc[v] \in Processing /\ pc'[v] = pc[v]
          BY <1>l, <2>3 DEF Goto, Processing
        <4>2. PICK u \in Transfers : u = job[v].transfer /\ u = job'[v].transfer
          BY <1>j, <1>i, <2>3, <4>1
        <4>3. Knows(v)
          BY <4>1 DEF JobInv, WorkersKnow
        <4>4. status'[u] = status[u] \/ status'[u] \in Settled
          BY <1>l, <2>4 DEF Settled
        <4> QED
          BY <2>3, <2>q, <4>1, <4>2, <4>3, <4>4 DEF Knows
      <3>2. SomebodyCarries'
        <4>1. status'[t] = "FAILED" /\ \A u \in Transfers : u # t => status'[u] = status[u]
          BY <1>l, <2>4
        <4>2. \A u \in Transfers : \A v \in Workers :
                u # t /\ Carries(v, u) => Carries(v, u)'
          BY <1>l, <2>1, <2>3, <4>1 DEF Carries, Goto
        <4> QED
          BY <2>3, <2>q, <4>1, <4>2 DEF JobInv, SomebodyCarries, Settled
      <3> QED
        BY <3>1, <3>2 DEF JobInv
    <2>5. CASE status[t] # loc[w] /\ UNCHANGED status
      <3>1. ~Carries(w, t)
        BY <2>3, <2>5 DEF Carries, Processing
      <3> QED
        BY <1>l, <2>1, <2>3, <2>5, <2>q, <3>1, SettlingStep DEF Goto, Processing
    <2> QED
      BY <2>1, <2>2, <2>4, <2>5, MovesOrLoses
  <1>2. ASSUME NEW w \in Workers, ConnectionLost(w)
        PROVE  JobInv'
    <2>1. PICK t \in Transfers : t = job[w].transfer
      BY <1>j, <1>2 DEF ConnectionLost
    <2>2. /\ job[w] \in Jobs
          /\ queue' = Enqueue(queue, job[w])
          /\ held' = [held EXCEPT ![w] = FALSE]
          /\ UNCHANGED <<status, published, pc, job, loc, err>>
      BY <1>2 DEF ConnectionLost, dbVars, TypeInv, LocalsOK
    <2>3. (\A u \in Transfers : Queued(u) => Queued(u)') /\ Queued(t)'
      BY <2>1, <2>2, EnqueueKeeps
    <2>4. WorkersKnow'
      <3> SUFFICES ASSUME NEW v \in Workers, pc'[v] \in Processing
                   PROVE  Knows(v)'
        BY DEF WorkersKnow
      <3>1. PICK u \in Transfers : u = job[v].transfer /\ u = job'[v].transfer
        BY <1>j, <1>i, <2>2
      <3>2. Knows(v)
        BY <2>2 DEF JobInv, WorkersKnow
      <3>3. held'[v] \/ Queued(u)'
        BY <1>l, <2>1, <2>2, <2>3, <3>1, <3>2 DEF Knows
      <3> QED
        BY <2>2, <3>1, <3>2, <3>3 DEF Knows
    <2>5. SomebodyCarries'
      <3>1. \A u \in Transfers : \A v \in Workers :
                Carries(v, u) => Carries(v, u)' \/ u = t
        BY <1>l, <2>1, <2>2 DEF Carries
      <3> QED
        BY <2>2, <2>3, <3>1 DEF JobInv, SomebodyCarries
    <2> QED
      BY <2>4, <2>5 DEF JobInv
  <1>3. ASSUME NEW w \in Workers, NEW j \in Jobs, HandleDelivery(w, j)
        PROVE  JobInv'
    <2>1. PICK t \in Transfers : t = j.transfer
      BY DEF Jobs
    <2>2. /\ pc[w] = "idle" /\ lock[t] = NoWorker
          /\ queue' = [queue EXCEPT ![j] = @ - 1]
          /\ job' = [job EXCEPT ![w] = j]
          /\ held' = [held EXCEPT ![w] = TRUE]
          /\ pc' = [pc EXCEPT ![w] = "get"]
          /\ UNCHANGED <<status, published, loc, err>>
      BY <1>3, <2>1 DEF HandleDelivery, dbVars, Goto
    <2>3. \A u \in Transfers : u # t => (Queued(u)' <=> Queued(u))
      BY <1>l, <2>1, <2>2 DEF Queued
    <2>4. \A v \in Workers : pc[v] \in Processing => job[v].transfer # t
      BY <2>2, ConstantsAssumption DEF HeartbeatHoldsLock, Heartbeats, Undisturbed
    <2>5. WorkersKnow'
      <3> SUFFICES ASSUME NEW v \in Workers, pc'[v] \in Processing
                   PROVE  Knows(v)'
        BY DEF WorkersKnow
      <3>1. CASE v = w
        BY <1>l, <2>2, <3>1 DEF Knows
      <3>2. CASE v # w
        <4>1. pc[v] \in Processing /\ pc'[v] = pc[v] /\ held'[v] = held[v]
          BY <1>l, <2>2, <3>2
        <4>2. PICK u \in Transfers : u # t /\ u = job[v].transfer /\ u = job'[v].transfer
          BY <1>j, <1>i, <1>l, <2>2, <2>4, <3>2, <4>1
        <4>3. Knows(v)
          BY <4>1 DEF JobInv, WorkersKnow
        <4> QED
          BY <2>2, <2>3, <4>1, <4>2, <4>3 DEF Knows
      <3> QED
        BY <3>1, <3>2
    <2>6. SomebodyCarries'
      <3>1. Carries(w, t)'
        BY <1>l, <2>1, <2>2 DEF Carries, Processing
      <3>2. \A u \in Transfers : \A v \in Workers :
                Carries(v, u) => v # w
        BY <2>2 DEF Carries, Processing
      <3>3. \A u \in Transfers : \A v \in Workers :
                Carries(v, u) => Carries(v, u)'
        BY <1>l, <2>2, <3>2 DEF Carries
      <3> QED
        BY <2>2, <2>3, <3>1, <3>3 DEF JobInv, SomebodyCarries
    <2> QED
      BY <2>5, <2>6 DEF JobInv
  <1>4. ASSUME NEW t \in Transfers, PublishTransferRequested(t)
        PROVE  JobInv'
    <2> DEFINE new == [transfer |-> t, attempt |-> 0]
    <2>1. new \in Jobs /\ new.transfer = t
      BY ConstantsAssumption DEF Jobs
    <2>2. /\ queue' = Enqueue(queue, new)
          /\ published' = [published EXCEPT ![t] = @ + 1]
          /\ UNCHANGED <<status, pc, job, loc, err, held>>
      BY <1>4 DEF PublishTransferRequested, dbVars, localVars
    <2> HIDE DEF new
    <2>3. (\A u \in Transfers : Queued(u) => Queued(u)') /\ Queued(t)'
      BY <2>1, <2>2, EnqueueKeeps
    <2>4. WorkersKnow'
      <3> SUFFICES ASSUME NEW v \in Workers, pc'[v] \in Processing
                   PROVE  Knows(v)'
        BY DEF WorkersKnow
      <3>1. PICK u \in Transfers : u = job[v].transfer /\ u = job'[v].transfer
        BY <1>j, <1>i, <2>2
      <3>2. Knows(v)
        BY <2>2 DEF JobInv, WorkersKnow
      <3> QED
        BY <2>2, <2>3, <3>1, <3>2 DEF Knows
    <2>5. SomebodyCarries'
      <3>1. \A u \in Transfers : \A v \in Workers : Carries(v, u) => Carries(v, u)'
        BY <2>2 DEF Carries
      <3>2. \A u \in Transfers : u # t => published'[u] = published[u]
        BY <1>l, <2>2
      <3> QED
        BY <2>2, <2>3, <3>1, <3>2 DEF JobInv, SomebodyCarries
    <2> QED
      BY <2>4, <2>5 DEF JobInv
  <1> QED
    BY <1>1, <1>2, <1>3, <1>4

(* No context is ever cancelled: the heartbeat finds its token in the key,    *)
(* and nobody shuts down.                                                     *)
LEMMA UndisturbedStep ==
    ASSUME Reliable, TypeInv, Undisturbed, HeartbeatHoldsLock, [Next]_vars
    PROVE  Undisturbed'
  <1>c. ctx \in [Workers -> {"live", "shutdown", "lost"}]
    BY DEF TypeInv, TypeOK
  <1>j. \A w \in Workers : pc[w] # "idle" => job[w].transfer \in Transfers
    BY DEF TypeInv, LocalsOK, Jobs
  <1>f. /\ \A k : Fault(k) => faults'.kinds \subseteq Faults
        /\ UNCHANGED faults => faults'.kinds \subseteq Faults
    BY DEF Fault, Undisturbed
  <1>r. \A w \in Workers : \A r : ~Fails(w, r)
    BY CallsAnswered
  <1>t. \A w \in Workers : \A to, h, r : TransitionStatus(w, to, h, r) => UNCHANGED faults
    BY MovesOrLoses
  <1>a. \A w \in Workers : \A a, b, h, r :
            CreateAttempt(w, h, r) \/ UpdateAttempt(w, a, b, r) => UNCHANGED faults
    BY WritesOrConflicts
  <1>u. UNCHANGED ctx \/ (\E w \in Workers : Idle(w)) =>
            \A w \in Workers : ctx'[w] = "live"
    BY <1>c DEF Idle, Undisturbed
  <1>1. ASSUME NEW w \in Workers, WorkerStep(w)
        PROVE  Undisturbed'
    <2>1. CASE \E j \in Jobs : HandleDelivery(w, j)
      BY <1>f, <1>u, <2>1 DEF HandleDelivery, Undisturbed
    <2>2. CASE GetByID(w) \/ GetLatestAttempt(w) \/ FailTransferGet(w)
      BY <1>f, <1>u, <1>r, <2>2
      DEF GetByID, GetLatestAttempt, FailTransferGet, Replies, Undisturbed
    <2>3. CASE Advance(w) \/ SubmitBroadcastedAttempt(w) \/ FailTransferSet(w)
      BY <1>f, <1>u, <1>t, <2>3
      DEF Advance, SubmitBroadcastedAttempt, FailTransferSet, Undisturbed
    <2>4. CASE CreateAttemptAndSubmit(w)
      BY <1>f, <1>u, <1>a, <2>4 DEF CreateAttemptAndSubmit, Undisturbed
    <2>5. CASE ResumeSubmission(w) \/ RecordBroadcast(w)
      BY <1>f, <1>u, <1>a, <2>5 DEF ResumeSubmission, RecordBroadcast, Undisturbed
    <2>6. CASE BroadcastTransfer(w) \/ RetryJob(w)
      BY <1>f, <1>u, <2>6 DEF BroadcastTransfer, RetryJob, Undisturbed
    <2>7. CASE Release(w)
      BY <1>f, <1>u, <2>7 DEF Release, Undisturbed
    <2>8. CASE Finish(w) \/ Ack(w)
      BY <1>f, <1>u, <2>8 DEF Finish, Ack, Undisturbed
    <2> QED
      BY <1>1, <2>1, <2>2, <2>3, <2>4, <2>5, <2>6, <2>7, <2>8 DEF WorkerStep
  <1>2. ASSUME NEW w \in Workers, WorkerEvent(w)
        PROVE  Undisturbed'
    <2>1. CASE \E j \in Jobs : AcquireFails(w, j)
      BY <2>1 DEF AcquireFails, Fault, Reliable
    <2>2. CASE Shutdown(w)
      BY <2>2 DEF Shutdown, Fault, Reliable
    <2>3. CASE HeartbeatFails(w)
      <3>1. lock[job[w].transfer] = w
        BY <1>j, <2>3
        DEF HeartbeatFails, HeartbeatHoldsLock, Heartbeats, Undisturbed, Processing
      <3> QED
        BY <2>3, <3>1 DEF HeartbeatFails, Fault, Reliable, Undisturbed
    <2>4. CASE SignerFails(w) \/ ConnectionLost(w)
      BY <1>f, <1>u, <2>4 DEF SignerFails, ConnectionLost, Undisturbed
    <2>5. CASE Crash(w)
      BY <1>f, <1>u, <2>5 DEF Crash, Undisturbed
    <2> QED
      BY <1>2, <2>1, <2>2, <2>3, <2>4, <2>5 DEF WorkerEvent
  <1>3. ASSUME NEW t \in Transfers,
               PublishTransferRequested(t) \/ LockExpires(t) \/ LockLost(t)
        PROVE  Undisturbed'
    BY <1>3, <1>f, <1>u
    DEF PublishTransferRequested, LockExpires, LockLost, localVars, Undisturbed
  <1>4. CASE UNCHANGED vars
    BY <1>4, <1>f, <1>u DEF vars, localVars, Undisturbed
  <1> QED
    BY <1>1, <1>2, <1>3, <1>4 DEF Next

(* Every step leaves a published, unsettled transfer in somebody's hands. *)
LEMMA JobStep ==
    ASSUME Reliable, TypeInv, Undisturbed, HeartbeatHoldsLock, JobInv, [Next]_vars
    PROVE  JobInv'
  <1>q. ASSUME UNCHANGED <<status, queue, published, pc, job, loc, err, held>>
        PROVE  JobInv'
    BY <1>q DEF JobInv, WorkersKnow, Knows, SomebodyCarries, Carries, Queued
  <1>1. ASSUME NEW w \in Workers, WorkerStep(w) PROVE JobInv'
    <2>1. CASE \E j \in Jobs : HandleDelivery(w, j)
      BY <2>1, DeliveryStep
    <2>2. CASE FailTransferSet(w)
      BY <2>2, DeliveryStep
    <2>3. CASE \/ Finish(w) \/ RetryJob(w) \/ FailTransferGet(w)
               \/ Ack(w) \/ Release(w)
      BY <2>3, SettleStep
    <2> QED
      BY <1>1, <2>1, <2>2, <2>3, ProcessTransferStep DEF WorkerStep
  <1>2. ASSUME NEW w \in Workers, WorkerEvent(w) PROVE JobInv'
    <2>1. CASE \E j \in Jobs : AcquireFails(w, j)
      BY <2>1 DEF AcquireFails, Fault, Reliable
    <2>2. CASE Shutdown(w) \/ HeartbeatFails(w)
      BY <1>q, <2>2 DEF Shutdown, HeartbeatFails, dbVars
    <2>3. CASE SignerFails(w)
      BY <2>3, ProcessTransferStep
    <2>4. CASE ConnectionLost(w)
      BY <2>4, DeliveryStep
    <2>5. CASE Crash(w)
      BY <2>5, SettleStep
    <2> QED
      BY <1>2, <2>1, <2>2, <2>3, <2>4, <2>5 DEF WorkerEvent
  <1>3. ASSUME NEW t \in Transfers,
               PublishTransferRequested(t) \/ LockExpires(t) \/ LockLost(t)
        PROVE  JobInv'
    <2>1. CASE LockExpires(t) \/ LockLost(t)
      BY <1>q, <2>1 DEF LockExpires, LockLost, dbVars, localVars
    <2> QED
      BY <1>3, <2>1, DeliveryStep
  <1>4. CASE UNCHANGED vars
    BY <1>q, <1>4 DEF vars, dbVars, localVars
  <1> QED
    BY <1>1, <1>2, <1>3, <1>4 DEF Next

(* Nothing is published and nobody works. *)
LEMMA JobInit == Init => Undisturbed /\ HeartbeatHoldsLock /\ JobInv
  <1> SUFFICES ASSUME Init PROVE Undisturbed /\ HeartbeatHoldsLock /\ JobInv
    OBVIOUS
  <1>1. Undisturbed
    BY DEF Init, Undisturbed
  <1>2. \A w \in Workers : pc[w] \notin Processing
    BY DEF Init, Processing
  <1>3. \A t \in Transfers : published[t] = 0 /\ status[t] # "CONFIRMED"
    BY DEF Init
  <1>4. SomebodyCarries
    BY <1>3 DEF SomebodyCarries
  <1> QED
    BY <1>1, <1>2, <1>4 DEF HeartbeatHoldsLock, Heartbeats, JobInv, WorkersKnow

(* A published job is not lost: handleDelivery acknowledges it only when its  *)
(* transfer is settled or another copy was published, for any number of       *)
(* workers, crashes, lost connections and failures of the signer, the         *)
(* broadcaster and the broker. With a shutdown or a failing database or Redis *)
(* it may be, as the code drops the error of FailTransfer.                    *)
THEOREM JobsSurvive == Spec => [](Reliable => JobNotLost)
  <1> DEFINE Safe == Reliable => Undisturbed /\ HeartbeatHoldsLock /\ JobInv
  <1>1. Init => Safe
    BY JobInit
  <1>2. TypeInv /\ Safe /\ [Next]_vars => Safe'
    <2> SUFFICES ASSUME TypeInv, [Next]_vars, Reliable,
                        Undisturbed, HeartbeatHoldsLock, JobInv
                 PROVE  Undisturbed' /\ HeartbeatHoldsLock' /\ JobInv'
      BY DEF Reliable
    <2>1. Undisturbed' /\ JobInv'
      BY UndisturbedStep, JobStep
    <2>2. "lock" \notin faults'.kinds
      BY <2>1 DEF Undisturbed, Reliable
    <2> QED
      BY <2>1, <2>2, LockStep
  <1>3. Safe => (Reliable => JobNotLost)
    BY DEF JobInv, SomebodyCarries, Queued, Carries, JobNotLost, JobAlive
  <1> HIDE DEF Safe
  <1> QED
    BY <1>1, <1>2, <1>3, TypeInit, TypeStep, PTL DEF Spec

-----------------------------------------------------------------------------
(* Work needs a job *)

(* Nothing is queued, in hand or moved of a transfer that was never           *)
(* published.                                                                 *)
WorkFounded ==
    /\ \A j \in Jobs : queue[j] > 0 => published[j.transfer] > 0
    /\ \A w \in Workers : pc[w] # "idle" => published[job[w].transfer] > 0
    /\ \A w \in Workers : held[w] => pc[w] # "idle"
    /\ \A t \in Transfers : status[t] # "CREATED" => published[t] > 0

(* Steps of a worker that has a job and does not touch the queue. *)
LEMMA FoundedByWorker ==
    ASSUME TypeInv, WorkFounded, NEW w \in Workers, pc[w] # "idle",
           UNCHANGED <<queue, published, job>>,
           pc'[w] # "idle",
           \A v \in Workers : v # w => pc'[v] = pc[v],
           \A v \in Workers : v # w => held'[v] = held[v],
           \A u \in Transfers : u # job[w].transfer => status'[u] = status[u]
    PROVE  WorkFounded'
  BY DEF WorkFounded

(* Every step works on what was published. *)
LEMMA FoundedStep == TypeInv /\ WorkFounded /\ [Next]_vars => WorkFounded'
  <1> SUFFICES ASSUME TypeInv, WorkFounded, [Next]_vars PROVE WorkFounded'
    OBVIOUS
  <1>l. /\ pc \in [Workers -> PCs]
        /\ status \in [Transfers -> Statuses]
        /\ job \in [Workers -> Jobs \cup {NoJob}]
        /\ held \in [Workers -> BOOLEAN]
        /\ queue \in [Jobs -> Nat]
        /\ published \in [Transfers -> 0..MaxCopies]
    BY DEF TypeInv, TypeOK
  <1>j. \A w \in Workers : pc[w] # "idle" => job[w] \in Jobs /\ job[w].transfer \in Transfers
    BY DEF TypeInv, LocalsOK, Jobs
  <1>t. \A w \in Workers : \A to, h, r : TransitionStatus(w, to, h, r) =>
            \A u \in Transfers : u # job[w].transfer => status'[u] = status[u]
    BY <1>l DEF TransitionStatus
  <1>e. ASSUME NEW j \in Jobs, queue' = Enqueue(queue, j),
               published[j.transfer] > 0, UNCHANGED published
        PROVE  \A k \in Jobs : queue'[k] > 0 => published'[k.transfer] > 0
    BY <1>e, <1>l DEF Enqueue, WorkFounded
  <1>i. ASSUME NEW w \in Workers, Idle(w), pc[w] # "idle", UNCHANGED <<status, published>>
        PROVE  WorkFounded'
    <2>1. \A k \in Jobs : queue'[k] > 0 => published'[k.transfer] > 0
      <3>1. CASE held[w]
        BY <1>e, <1>i, <1>j, <3>1 DEF Idle, WorkFounded
      <3>2. CASE ~held[w]
        BY <1>i, <3>2 DEF Idle, WorkFounded
      <3> QED
        BY <3>1, <3>2
    <2>2. \A v \in Workers :
            /\ pc'[v] # "idle" => v # w /\ pc'[v] = pc[v] /\ job'[v] = job[v]
            /\ held'[v] => v # w /\ held[v]
      BY <1>l, <1>i DEF Idle
    <2>3. \A v \in Workers : v # w => pc'[v] = pc[v]
      BY <1>l, <1>i DEF Idle
    <2> QED
      BY <1>i, <2>1, <2>2, <2>3 DEF WorkFounded
  <1>1. ASSUME NEW w \in Workers, WorkerStep(w) PROVE WorkFounded'
    <2>1. ASSUME NEW j \in Jobs, HandleDelivery(w, j) PROVE WorkFounded'
      <3>1. /\ queue[j] > 0
            /\ \A k \in Jobs : queue'[k] > 0 => queue[k] > 0
            /\ UNCHANGED <<status, published>>
        BY <1>l, <2>1 DEF HandleDelivery, dbVars
      <3>2. /\ pc'[w] # "idle" /\ job'[w] = j
            /\ \A v \in Workers : v # w =>
                    pc'[v] = pc[v] /\ job'[v] = job[v] /\ held'[v] = held[v]
        BY <1>l, <2>1 DEF HandleDelivery, Goto
      <3> QED
        BY <3>1, <3>2 DEF WorkFounded
    <2>2. CASE GetByID(w)
      BY <1>l, <2>2, FoundedByWorker DEF GetByID, Return, Goto, dbVars
    <2>3. CASE Advance(w)
      BY <1>l, <1>t, <2>3, FoundedByWorker DEF Advance, Return, Goto
    <2>4. CASE GetLatestAttempt(w)
      <3>1. \A x \in AttemptStatuses : ResumePoint[x] # "idle"
        BY DEF AttemptStatuses, ResumePoint
      <3>2. Len(attempts[job[w].transfer]) > 0 =>
              attempts[job[w].transfer][Len(attempts[job[w].transfer])].status
                \in AttemptStatuses
        BY <1>j, <2>4, LatestStatus DEF GetLatestAttempt
      <3> HIDE DEF ResumePoint
      <3> QED
        BY <1>l, <2>4, <3>1, <3>2, FoundedByWorker
        DEF GetLatestAttempt, Return, Goto, dbVars
    <2>5. CASE CreateAttemptAndSubmit(w)
      BY <1>l, <2>5, FoundedByWorker DEF CreateAttemptAndSubmit, Return, Goto
    <2>6. CASE ResumeSubmission(w)
      BY <1>l, <2>6, FoundedByWorker DEF ResumeSubmission, Return, Goto
    <2>7. CASE BroadcastTransfer(w)
      BY <1>l, <2>7, FoundedByWorker DEF BroadcastTransfer, Goto, dbVars
    <2>8. CASE RecordBroadcast(w)
      BY <1>l, <2>8, FoundedByWorker DEF RecordBroadcast, Return, Goto
    <2>9. CASE SubmitBroadcastedAttempt(w)
      BY <1>l, <1>t, <2>9, FoundedByWorker DEF SubmitBroadcastedAttempt, Return, Goto
    <2>10. CASE Finish(w)
      BY <1>l, <2>10, FoundedByWorker DEF Finish, Goto, dbVars
    <2>11. CASE RetryJob(w)
      <3> DEFINE next == [job[w] EXCEPT !.attempt = @ + 1]
      <3>1. /\ UNCHANGED <<status, published, job, held>>
            /\ pc[w] # "idle" /\ pc'[w] # "idle"
            /\ \A v \in Workers : v # w => pc'[v] = pc[v]
            /\ UNCHANGED queue \/ (job[w].attempt < MaxRetries /\ queue' = Enqueue(queue, next))
        BY <1>l, <2>11 DEF RetryJob, Goto, dbVars
      <3>2. job[w].attempt < MaxRetries => next \in Jobs /\ next.transfer = job[w].transfer
        BY <1>j, <3>1, ConstantsAssumption DEF Jobs
      <3> HIDE DEF next
      <3>3. \A k \in Jobs : queue'[k] > 0 => published'[k.transfer] > 0
        BY <1>e, <3>1, <3>2 DEF WorkFounded
      <3> QED
        BY <3>1, <3>3 DEF WorkFounded
    <2>12. CASE FailTransferGet(w)
      BY <1>l, <2>12, FoundedByWorker DEF FailTransferGet, Goto, dbVars
    <2>13. CASE FailTransferSet(w)
      BY <1>l, <1>t, <2>13, FoundedByWorker DEF FailTransferSet, Goto
    <2>14. CASE Ack(w)
      BY <1>l, <2>14, FoundedByWorker DEF Ack, Goto, dbVars
    <2>15. CASE Release(w)
      BY <1>i, <2>15 DEF Release, dbVars
    <2> QED
      BY <1>1, <2>1, <2>2, <2>3, <2>4, <2>5, <2>6, <2>7, <2>8, <2>9, <2>10, <2>11,
         <2>12, <2>13, <2>14, <2>15 DEF WorkerStep
  <1>2. ASSUME NEW w \in Workers, WorkerEvent(w) PROVE WorkFounded'
    <2>1. CASE \E j \in Jobs : AcquireFails(w, j)
      BY <2>1 DEF AcquireFails, dbVars, localVars, WorkFounded
    <2>2. CASE SignerFails(w)
      BY <1>l, <2>2, FoundedByWorker DEF SignerFails, Return, Goto, dbVars
    <2>3. CASE HeartbeatFails(w) \/ Shutdown(w)
      BY <2>3 DEF HeartbeatFails, Shutdown, dbVars, WorkFounded
    <2>4. CASE Crash(w)
      BY <1>i, <2>4 DEF Crash, dbVars
    <2>5. CASE ConnectionLost(w)
      <3>1. /\ pc[w] # "idle"
            /\ queue' = Enqueue(queue, job[w])
            /\ UNCHANGED <<status, published, pc, job>>
            /\ \A v \in Workers : held'[v] => held[v]
        BY <1>l, <2>5 DEF ConnectionLost, dbVars
      <3>2. \A k \in Jobs : queue'[k] > 0 => published'[k.transfer] > 0
        BY <1>e, <1>j, <3>1 DEF WorkFounded
      <3> QED
        BY <3>1, <3>2 DEF WorkFounded
    <2> QED
      BY <1>2, <2>1, <2>2, <2>3, <2>4, <2>5 DEF WorkerEvent
  <1>3. ASSUME NEW t \in Transfers,
               PublishTransferRequested(t) \/ LockExpires(t) \/ LockLost(t)
        PROVE  WorkFounded'
    <2>1. CASE LockExpires(t) \/ LockLost(t)
      BY <2>1 DEF LockExpires, LockLost, dbVars, localVars, WorkFounded
    <2>2. CASE PublishTransferRequested(t)
      <3> DEFINE new == [transfer |-> t, attempt |-> 0]
      <3>1. new \in Jobs /\ new.transfer = t
        BY ConstantsAssumption DEF Jobs
      <3>2. /\ queue' = Enqueue(queue, new)
            /\ UNCHANGED <<status, pc, job, held>>
            /\ published' = [published EXCEPT ![t] = @ + 1]
        BY <2>2 DEF PublishTransferRequested, dbVars, localVars
      <3> HIDE DEF new
      <3>3. /\ published'[t] > 0
            /\ \A u \in Transfers : published[u] > 0 => published'[u] > 0
        BY <1>l, <3>2
      <3>4. \A k \in Jobs : k.transfer \in Transfers
        BY DEF Jobs
      <3>5. \A k \in Jobs : queue'[k] > 0 => k = new \/ queue[k] > 0
        BY <1>l, <3>1, <3>2 DEF Enqueue
      <3> QED
        BY <1>j, <3>1, <3>2, <3>3, <3>4, <3>5 DEF WorkFounded
    <2> QED
      BY <1>3, <2>1, <2>2
  <1>4. CASE UNCHANGED vars
    BY <1>4 DEF vars, dbVars, localVars, WorkFounded
  <1> QED
    BY <1>1, <1>2, <1>3, <1>4 DEF Next

(* A job that is queued or in somebody's hands, and a transfer that has       *)
(* moved, were published: consumers make no work of their own (the retry of   *)
(* retryJob is a copy).                                                       *)
THEOREM OnlyPublishedWork ==
    Spec => [](\A t \in Transfers :
                    JobAlive(t) \/ status[t] # "CREATED" => published[t] > 0)
  <1>1. Init => WorkFounded
    <2> SUFFICES ASSUME Init PROVE WorkFounded
      OBVIOUS
    <2>1. \A j \in Jobs : queue[j] = 0
      BY DEF Init
    <2>2. \A w \in Workers : pc[w] = "idle" /\ held[w] = FALSE
      BY DEF Init
    <2>3. \A t \in Transfers : status[t] = "CREATED"
      BY DEF Init
    <2> QED
      BY <2>1, <2>2, <2>3 DEF WorkFounded
  <1>2. TypeInv /\ WorkFounded =>
            \A t \in Transfers :
                    JobAlive(t) \/ status[t] # "CREATED" => published[t] > 0
    BY DEF WorkFounded, JobAlive
  <1> QED
    BY <1>1, <1>2, FoundedStep, TypeInit, TypeStep, PTL DEF Spec

-----------------------------------------------------------------------------
(* The inductive invariant. The two properties are not inductive: a worker    *)
(* about to write evidence must already have it. RowsEvident is about the     *)
(* attempts table and the network, ClaimsEvident about what a worker in the   *)
(* middle of broadcastAttempt or submitBroadcastedAttempt relies on,          *)
(* HashesEvident about the transfers table.                                   *)

\* The transfer's only attempt is recorded as broadcast.
HasBroadcast(t) == Len(attempts[t]) = 1 /\ attempts[t][1].status = "BROADCASTED"

RowsEvident ==
    \A t \in Transfers :
        /\ Len(attempts[t]) \in {0, 1}
        /\ Len(attempts[t]) = 1 =>
                /\ attempts[t][1].hash = t
                /\ attempts[t][1].status = "BROADCASTED" => t \in sent
        /\ t \in sent => Len(attempts[t]) = 1

ClaimsEvident ==
    \A w \in Workers :
        /\ pc[w] = "record" /\ err[w] = "nil" => job[w].transfer \in sent
        /\ pc[w] = "submit" => HasBroadcast(job[w].transfer)

HashesEvident ==
    \A t \in Transfers :
        /\ status[t] \in {"SUBMITTED", "PENDING_ON_CHAIN", "CONFIRMED"}
                => txHash[t] # NoHash
        /\ txHash[t] # NoHash => txHash[t] = t /\ HasBroadcast(t)

EvidenceInv == RowsEvident /\ ClaimsEvident /\ HashesEvident

-----------------------------------------------------------------------------
(* Frames *)

(* An index into a table of at most one row. *)
LEMMA OnlyRow ==
    ASSUME NEW k, k \in {0, 1}, NEW i \in 1..k
    PROVE  k = 1 /\ i = 1
  OBVIOUS

\* Nothing that is broadcast is forgotten.
Kept == /\ sent \subseteq sent'
        /\ \A t \in Transfers : HasBroadcast(t) => HasBroadcast(t)'

\* Worker w is not sent to a point that claims evidence, or was there before.
NoNewClaim(w) ==
    pc'[w] \in {"record", "submit"} =>
        pc'[w] = pc[w] /\ job'[w] = job[w] /\ err'[w] = err[w]

(* What a worker relies on survives a step that forgets nothing. *)
LEMMA ClaimsFrame ==
    ASSUME TypeInv, ClaimsEvident, Kept, \A w \in Workers : NoNewClaim(w)
    PROVE  ClaimsEvident'
  <1>1. \A w \in Workers : pc[w] # "idle" => job[w].transfer \in Transfers
    BY DEF TypeInv, LocalsOK, Jobs
  <1> QED
    BY <1>1 DEF ClaimsEvident, Kept, NoNewClaim

(* So does what a transfer row claims, when the row is left alone. *)
LEMMA HashesFrame ==
    ASSUME HashesEvident, Kept, UNCHANGED <<status, txHash>>
    PROVE  HashesEvident'
  BY DEF HashesEvident, Kept

(* A step that leaves attempts and the network alone. *)
LEMMA RowsFrame ==
    ASSUME RowsEvident, UNCHANGED <<attempts, sent>>
    PROVE  RowsEvident' /\ Kept
  BY DEF RowsEvident, Kept, HasBroadcast

(* A step that leaves the tables and the network alone. *)
LEMMA EvidenceFrame ==
    ASSUME TypeInv, EvidenceInv, UNCHANGED dbVars, UNCHANGED sent,
           \A w \in Workers : NoNewClaim(w)
    PROVE  EvidenceInv'
  <1>1. UNCHANGED <<status, txHash>> /\ UNCHANGED <<attempts, sent>>
    BY DEF dbVars
  <1>2. RowsEvident' /\ Kept
    BY <1>1, RowsFrame DEF EvidenceInv
  <1> QED
    BY <1>1, <1>2, ClaimsFrame, HashesFrame DEF EvidenceInv

(* A transition that writes no hash and does not itself claim submission. *)
LEMMA PlainTransition ==
    ASSUME TypeInv, EvidenceInv,
           NEW w \in Workers, pc[w] # "idle",
           NEW to \in Statuses, NEW r, TransitionStatus(w, to, NoHash, r),
           to \in {"SUBMITTED", "PENDING_ON_CHAIN", "CONFIRMED"} =>
                loc[w] \in {"SUBMITTED", "PENDING_ON_CHAIN", "CONFIRMED"},
           UNCHANGED <<attempts, sent>>
    PROVE  HashesEvident'
  <1> DEFINE t == job[w].transfer
  <1>1. Kept
    BY RowsFrame DEF EvidenceInv
  <1>2. CASE UNCHANGED <<status, txHash, history>>
    BY <1>1, <1>2, HashesFrame DEF EvidenceInv
  <1>3. CASE /\ status[t] = loc[w]
             /\ status' = [status EXCEPT ![t] = to]
             /\ txHash' = [txHash EXCEPT ![t] = IF NoHash = NoHash THEN @ ELSE NoHash]
    <2>1. /\ status \in [Transfers -> Statuses]
          /\ txHash \in [Transfers -> Transfers \cup {NoHash}]
      BY DEF TypeInv, TypeOK
    <2>2. \A u \in Transfers : txHash'[u] = txHash[u]
      BY <1>3, <2>1
    <2>3. \A u \in Transfers : status'[u] = status[u] \/ (u = t /\ status'[u] = to)
      BY <1>3, <2>1
    <2> QED
      BY <1>1, <1>3, <2>2, <2>3 DEF EvidenceInv, HashesEvident, Kept
  <1> QED
    BY <1>2, <1>3, TransitionStatusEffect

(* A row that UpdateAttempt may write is not BROADCASTED yet, so nothing      *)
(* broadcast is lost; and a row becomes BROADCASTED only with a transaction   *)
(* the network has.                                                           *)
LEMMA RowsUpdate ==
    ASSUME TypeInv, EvidenceInv,
           NEW w \in Workers, pc[w] \in WithAttempt,
           NEW from, from # "BROADCASTED", NEW to \in AttemptStatuses, NEW r,
           UpdateAttempt(w, from, to, r),
           to = "BROADCASTED" => job[w].transfer \in sent,
           UNCHANGED sent
    PROVE  /\ RowsEvident'
           /\ Kept
           /\ r = "nil" /\ to = "BROADCASTED" =>
                \A t \in Transfers : t = job[w].transfer => HasBroadcast(t)'
  <1> DEFINE t == job[w].transfer
  <1>1. t \in Transfers /\ att[w] \in 1..Len(attempts[t])
    BY DEF TypeInv, LocalsOK, Jobs, WithAttempt
  <1>2. Len(attempts[t]) = 1 /\ att[w] = 1 /\ attempts[t][1].hash = t
    <2>1. Len(attempts[t]) \in {0, 1}
      BY <1>1 DEF EvidenceInv, RowsEvident
    <2>2. Len(attempts[t]) = 1 /\ att[w] = 1
      BY <1>1, <2>1, OnlyRow
    <2> QED
      BY <1>1, <2>2 DEF EvidenceInv, RowsEvident
  <1>3. /\ \A u \in Transfers : Len(attempts'[u]) = Len(attempts[u])
        /\ \/ UNCHANGED attempts /\ r # "nil"
           \/ /\ attempts[t][1].status = from
              /\ attempts'[t][1] = [status |-> to, hash |-> t]
              /\ \A u \in Transfers : u # t => attempts'[u] = attempts[u]
    <2>1. /\ \A u \in Transfers : Len(attempts'[u]) = Len(attempts[u])
          /\ \/ UNCHANGED attempts /\ r # "nil"
             \/ /\ attempts[t][att[w]].status = from
                /\ attempts'[t][att[w]] = [status |-> to, hash |-> attempts[t][att[w]].hash]
                /\ \A u \in Transfers : u # t => attempts'[u] = attempts[u]
      <3>1. /\ \A u \in Transfers : Len(attempts'[u]) = Len(attempts[u])
            /\ \/ UNCHANGED attempts /\ r # "nil"
               \/ /\ attempts[t][att[w]].status = from
                  /\ attempts'[t][att[w]] = [status |-> to, hash |-> attempts[t][att[w]].hash]
                  /\ \A k \in 1..Len(attempts[t]) :
                        k # att[w] => attempts'[t][k] = attempts[t][k]
                  /\ \A u \in Transfers : u # t => attempts'[u] = attempts[u]
        BY UpdateAttemptEffect, Zenon
      <3> QED
        BY <3>1
    <2> QED
      BY <1>2, <2>1
  <1>4. CASE UNCHANGED attempts /\ r # "nil"
    BY <1>4, RowsFrame DEF EvidenceInv
  <1>5. CASE /\ attempts[t][1].status = from
             /\ attempts'[t][1] = [status |-> to, hash |-> t]
             /\ \A u \in Transfers : u # t => attempts'[u] = attempts[u]
    <2>1. RowsEvident'
      BY <1>1, <1>2, <1>3, <1>5 DEF EvidenceInv, RowsEvident
    <2>2. Kept
      BY <1>1, <1>2, <1>3, <1>5 DEF Kept, HasBroadcast
    <2>3. ASSUME to = "BROADCASTED", NEW u \in Transfers, u = t
          PROVE  HasBroadcast(u)'
      BY <1>1, <1>2, <1>3, <1>5, <2>3 DEF HasBroadcast
    <2> QED
      BY <2>1, <2>2, <2>3
  <1> QED
    BY <1>3, <1>4, <1>5

-----------------------------------------------------------------------------
(* The invariant is inductive *)

(* The invariant holds of fresh transfers. *)
LEMMA EvidenceInit == Init => EvidenceInv
  <1> SUFFICES ASSUME Init PROVE EvidenceInv
    OBVIOUS
  <1>1. RowsEvident
    <2>1. \A t \in Transfers : attempts[t] = << >>
      BY DEF Init
    <2>2. \A t \in Transfers : Len(attempts[t]) = 0
      BY <2>1
    <2>3. sent = {}
      BY DEF Init
    <2>4. 0 # 1
      OBVIOUS
    <2>5. \A t \in Transfers : t \notin sent
      BY <2>3, Zenon
    <2>6. \A t \in Transfers : Len(attempts[t]) # 1
      BY <2>2, <2>4, Zenon
    <2>7. \A t \in Transfers : Len(attempts[t]) \in {0, 1}
      BY <2>2, Zenon
    <2> QED
      BY <2>5, <2>6, <2>7, Zenon DEF RowsEvident
  <1>2. ClaimsEvident
    BY DEF Init, ClaimsEvident
  <1>3. HashesEvident
    BY DEF Init, HashesEvident
  <1> QED
    BY <1>1, <1>2, <1>3 DEF EvidenceInv

(* Every step keeps the invariant: one case per action of the consumer. *)
LEMMA EvidenceStep == TypeInv /\ EvidenceInv /\ [Next]_vars => EvidenceInv'
  <1> SUFFICES ASSUME TypeInv, EvidenceInv, [Next]_vars PROVE EvidenceInv'
    OBVIOUS
  <1>t. LocalType
    BY TypeParts DEF TypeInv
  <1>e. RowsEvident /\ ClaimsEvident /\ HashesEvident
    BY DEF EvidenceInv
  <1>1. ASSUME NEW t \in Transfers,
               PublishTransferRequested(t) \/ LockExpires(t) \/ LockLost(t)
        PROVE  EvidenceInv'
    BY <1>1, EvidenceFrame
    DEF PublishTransferRequested, LockExpires, LockLost, NoNewClaim, localVars
  <1>2. ASSUME NEW w \in Workers, NEW j \in Jobs, HandleDelivery(w, j)
        PROVE  EvidenceInv'
    <2>1. \A v \in Workers : NoNewClaim(v)
      BY <1>t, <1>2 DEF HandleDelivery, NoNewClaim, Goto, LocalType
    <2> QED
      BY <1>2, <2>1, EvidenceFrame DEF HandleDelivery
  <1>3. ASSUME NEW w \in Workers, NEW j \in Jobs, AcquireFails(w, j)
        PROVE  EvidenceInv'
    BY <1>3, EvidenceFrame DEF AcquireFails, NoNewClaim, localVars
  <1>4. ASSUME NEW w \in Workers, GetByID(w)
        PROVE  EvidenceInv'
    <2>1. \A v \in Workers : NoNewClaim(v)
      BY <1>t, <1>4 DEF GetByID, Return, Goto, NoNewClaim, LocalType
    <2> QED
      BY <1>4, <2>1, EvidenceFrame DEF GetByID
  <1>5. ASSUME NEW w \in Workers, SignerFails(w)
        PROVE  EvidenceInv'
    <2>1. \A v \in Workers : NoNewClaim(v)
      BY <1>t, <1>5 DEF SignerFails, Return, Goto, NoNewClaim, LocalType
    <2> QED
      BY <1>5, <2>1, EvidenceFrame DEF SignerFails
  <1>6. ASSUME NEW w \in Workers, Finish(w)
        PROVE  EvidenceInv'
    <2>1. \A v \in Workers : NoNewClaim(v)
      BY <1>t, <1>6 DEF Finish, Goto, NoNewClaim, LocalType
    <2> QED
      BY <1>6, <2>1, EvidenceFrame DEF Finish
  <1>7. ASSUME NEW w \in Workers, RetryJob(w)
        PROVE  EvidenceInv'
    <2>1. \A v \in Workers : NoNewClaim(v)
      BY <1>t, <1>7 DEF RetryJob, Goto, NoNewClaim, LocalType
    <2> QED
      BY <1>7, <2>1, EvidenceFrame DEF RetryJob
  <1>8. ASSUME NEW w \in Workers, FailTransferGet(w)
        PROVE  EvidenceInv'
    <2>1. \A v \in Workers : NoNewClaim(v)
      BY <1>t, <1>8 DEF FailTransferGet, Goto, NoNewClaim, LocalType
    <2> QED
      BY <1>8, <2>1, EvidenceFrame DEF FailTransferGet
  <1>9. ASSUME NEW w \in Workers, Ack(w)
        PROVE  EvidenceInv'
    <2>1. \A v \in Workers : NoNewClaim(v)
      BY <1>t, <1>9 DEF Ack, Goto, NoNewClaim, LocalType
    <2> QED
      BY <1>9, <2>1, EvidenceFrame DEF Ack
  <1>10. ASSUME NEW w \in Workers, Release(w)
        PROVE  EvidenceInv'
    <2>1. \A v \in Workers : NoNewClaim(v)
      BY <1>t, <1>10 DEF Release, Idle, NoNewClaim, LocalType
    <2> QED
      BY <1>10, <2>1, EvidenceFrame DEF Release
  <1>11. ASSUME NEW w \in Workers, HeartbeatFails(w)
        PROVE  EvidenceInv'
    <2>1. \A v \in Workers : NoNewClaim(v)
      BY <1>t, <1>11 DEF HeartbeatFails, NoNewClaim, LocalType
    <2> QED
      BY <1>11, <2>1, EvidenceFrame DEF HeartbeatFails
  <1>12. ASSUME NEW w \in Workers, Shutdown(w)
        PROVE  EvidenceInv'
    <2>1. \A v \in Workers : NoNewClaim(v)
      BY <1>t, <1>12 DEF Shutdown, NoNewClaim, LocalType
    <2> QED
      BY <1>12, <2>1, EvidenceFrame DEF Shutdown
  <1>13. ASSUME NEW w \in Workers, Crash(w)
        PROVE  EvidenceInv'
    <2>1. \A v \in Workers : NoNewClaim(v)
      BY <1>t, <1>13 DEF Crash, Idle, NoNewClaim, LocalType
    <2> QED
      BY <1>13, <2>1, EvidenceFrame DEF Crash
  <1>14. ASSUME NEW w \in Workers, ConnectionLost(w)
        PROVE  EvidenceInv'
    <2>1. \A v \in Workers : NoNewClaim(v)
      BY <1>t, <1>14 DEF ConnectionLost, NoNewClaim, LocalType
    <2> QED
      BY <1>14, <2>1, EvidenceFrame DEF ConnectionLost
  <1>15. ASSUME NEW w \in Workers, Advance(w)
        PROVE  EvidenceInv'
    <2>1. \A v \in Workers : NoNewClaim(v)
      BY <1>t, <1>15 DEF Advance, Return, Goto, NoNewClaim, LocalType
    <2>2. UNCHANGED <<attempts, sent>>
      BY <1>15 DEF Advance
    <2>3. PICK r : TransitionStatus(w, Successor[loc[w]], NoHash, r)
      BY <1>15 DEF Advance
    <2>4. /\ Successor[loc[w]] \in Statuses
          /\ Successor[loc[w]] \in {"SUBMITTED", "PENDING_ON_CHAIN", "CONFIRMED"} =>
                loc[w] \in {"SUBMITTED", "PENDING_ON_CHAIN", "CONFIRMED"}
      BY <1>15 DEF Advance, Successor, Statuses
    <2>5. HashesEvident'
      BY <1>15, <2>2, <2>3, <2>4, PlainTransition DEF Advance
    <2>6. RowsEvident' /\ Kept
      BY <1>e, <2>2, RowsFrame
    <2> QED
      BY <1>e, <2>1, <2>5, <2>6, ClaimsFrame DEF EvidenceInv
  <1>16. ASSUME NEW w \in Workers, FailTransferSet(w)
        PROVE  EvidenceInv'
    <2>1. \A v \in Workers : NoNewClaim(v)
      BY <1>t, <1>16 DEF FailTransferSet, Goto, NoNewClaim, LocalType
    <2>2. UNCHANGED <<attempts, sent>>
      BY <1>16 DEF FailTransferSet
    <2>3. PICK r : TransitionStatus(w, "FAILED", NoHash, r)
      BY <1>16 DEF FailTransferSet
    <2>4. "FAILED" \in Statuses
      BY DEF Statuses
    <2>5. HashesEvident'
      BY <1>16, <2>2, <2>3, <2>4, PlainTransition DEF FailTransferSet
    <2>6. RowsEvident' /\ Kept
      BY <1>e, <2>2, RowsFrame
    <2> QED
      BY <1>e, <2>1, <2>5, <2>6, ClaimsFrame DEF EvidenceInv
  <1>17. ASSUME NEW w \in Workers, GetLatestAttempt(w)
        PROVE  EvidenceInv'
    <2> DEFINE t == job[w].transfer
               n == Len(attempts[t])
               x == attempts[t][n].status
    <2>1. UNCHANGED <<attempts, sent>> /\ UNCHANGED <<status, txHash>> /\ UNCHANGED job
      BY <1>17 DEF GetLatestAttempt, dbVars
    <2>2. RowsEvident' /\ Kept
      BY <1>e, <2>1, RowsFrame
    <2>3. HashesEvident'
      BY <1>e, <2>1, <2>2, HashesFrame
    <2>4. t \in Transfers
      BY <1>17 DEF GetLatestAttempt, TypeInv, LocalsOK, Jobs
    <2>5. \/ Goto(w, "create") /\ UNCHANGED err
          \/ /\ n > 0
             /\ Goto(w, ResumePoint[x])
             /\ err' = [err EXCEPT ![w] = IF x = "FAILED" THEN "error" ELSE "nil"]
          \/ \E r \in Errors : Return(w, r)
      BY <1>17 DEF GetLatestAttempt
    <2>6. \A v \in Workers : v # w => NoNewClaim(v)
      BY <1>t, <2>1, <2>5 DEF Goto, Return, NoNewClaim, LocalType
    <2>7. pc'[w] \notin {"record", "submit"} \/ HasBroadcast(t)
      <3>1. CASE pc'[w] \in {"create", "finish"}
        BY <3>1
      <3>2. CASE n > 0 /\ Goto(w, ResumePoint[x])
        <4>1. n = 1
          BY <1>e, <2>4, <3>2 DEF RowsEvident
        <4>2. attempts[t] \in Seq(Attempts)
          BY <2>4 DEF TypeInv, TypeOK
        <4>3. attempts[t][1] \in Attempts
          BY <4>1, <4>2
        <4>4. x \in AttemptStatuses
          BY <4>1, <4>3 DEF Attempts
        <4>5. pc'[w] = ResumePoint[x]
          BY <1>t, <3>2 DEF Goto, LocalType
        <4> HIDE DEF x, n
        <4>6. pc'[w] = "submit" => x = "BROADCASTED"
          BY <4>4, <4>5, ResumePointType
        <4>7. pc'[w] # "record"
          BY <4>4, <4>5, ResumePointType
        <4> QED
          BY <4>1, <4>6, <4>7 DEF HasBroadcast, x, n
      <3> QED
        BY <1>t, <2>5, <3>1, <3>2 DEF Goto, Return, LocalType
    <2>8. pc'[w] # "record"
      <3>1. CASE n > 0 /\ Goto(w, ResumePoint[x])
        <4>1. attempts[t] \in Seq(Attempts)
          BY <2>4 DEF TypeInv, TypeOK
        <4>2. n \in 1..Len(attempts[t])
          BY <3>1, <4>1
        <4>3. attempts[t][n] \in Attempts
          BY <4>1, <4>2
        <4>4. x \in AttemptStatuses
          BY <4>3 DEF Attempts
        <4>5. pc'[w] = ResumePoint[x]
          BY <1>t, <3>1 DEF Goto, LocalType
        <4> HIDE DEF x, n
        <4> QED
          BY <4>4, <4>5, ResumePointType
      <3> QED
        BY <1>t, <2>5, <3>1 DEF Goto, Return, LocalType
    <2>9. ClaimsEvident'
      <3>1. \A v \in Workers : pc[v] # "idle" => job[v].transfer \in Transfers
        BY DEF TypeInv, LocalsOK, Jobs
      <3> QED
        BY <1>e, <2>1, <2>2, <2>4, <2>6, <2>7, <2>8, <3>1
        DEF ClaimsEvident, Kept, NoNewClaim
    <2> QED
      BY <2>2, <2>3, <2>9 DEF EvidenceInv
  <1>18. ASSUME NEW w \in Workers, CreateAttemptAndSubmit(w)
        PROVE  EvidenceInv'
    <2> DEFINE t == job[w].transfer
               row == [status |-> "SIGNED", hash |-> t]
    <2>1. UNCHANGED <<sent, status, txHash, job>>
      BY <1>18 DEF CreateAttemptAndSubmit
    <2>2. t \in Transfers /\ pc[w] # "idle"
      BY <1>18 DEF CreateAttemptAndSubmit, TypeInv, LocalsOK, Jobs
    <2>3. \A v \in Workers : NoNewClaim(v)
      BY <1>t, <1>18 DEF CreateAttemptAndSubmit, Goto, Return, NoNewClaim, LocalType
    <2>4. PICK r : CreateAttempt(w, t, r)
      BY <1>18 DEF CreateAttemptAndSubmit, SignTransfer
    <2>5. \/ UNCHANGED attempts
          \/ /\ ~AttemptConflicts(t, t)
             /\ attempts' = [attempts EXCEPT ![t] = Append(attempts[t], row)]
             /\ Len(attempts'[t]) = Len(attempts[t]) + 1
      BY <2>2, <2>4, CreateAttemptEffect
    <2>6. RowsEvident' /\ Kept
      <3>1. CASE UNCHANGED attempts
        BY <1>e, <2>1, <3>1, RowsFrame
      <3>2. CASE /\ ~AttemptConflicts(t, t)
                 /\ attempts' = [attempts EXCEPT ![t] = Append(attempts[t], row)]
                 /\ Len(attempts'[t]) = Len(attempts[t]) + 1
        <4>1. attempts \in [Transfers -> Seq(Attempts)]
          BY DEF TypeInv, TypeOK
        <4>2. Len(attempts[t]) = 0
          <5>1. Len(attempts[t]) = 1 => 1 \in DOMAIN attempts[t]
            BY <2>2, <4>1
          <5>2. Len(attempts[t]) = 1 => AttemptConflicts(t, t)
            BY <1>e, <2>2, <5>1 DEF RowsEvident, AttemptConflicts
          <5> QED
            BY <1>e, <2>2, <3>2, <5>2 DEF RowsEvident
        <4>3. row \in Attempts
          BY <2>2 DEF Attempts, AttemptStatuses
        <4>4. attempts'[t][1] = row /\ Len(attempts'[t]) = 1
          BY <2>2, <3>2, <4>1, <4>2, <4>3, AppendRow
        <4>5. \A u \in Transfers : u # t => attempts'[u] = attempts[u]
          BY <3>2, <4>1
        <4>6. t \notin sent
          BY <1>e, <2>2, <4>2 DEF RowsEvident
        <4>7. RowsEvident'
          BY <1>e, <2>1, <2>2, <4>4, <4>5 DEF RowsEvident
        <4>8. Kept
          BY <2>1, <2>2, <4>2, <4>5 DEF Kept, HasBroadcast
        <4> QED
          BY <4>7, <4>8
      <3> QED
        BY <2>5, <3>1, <3>2
    <2> QED
      BY <1>e, <2>1, <2>3, <2>6, ClaimsFrame, HashesFrame DEF EvidenceInv
  <1>19. ASSUME NEW w \in Workers, ResumeSubmission(w)
        PROVE  EvidenceInv'
    <2>1. \A v \in Workers : NoNewClaim(v)
      BY <1>t, <1>19 DEF ResumeSubmission, Goto, Return, NoNewClaim, LocalType
    <2>2. UNCHANGED sent /\ UNCHANGED <<status, txHash>>
      BY <1>19 DEF ResumeSubmission
    <2>3. PICK r : UpdateAttempt(w, "SIGNED", "BROADCASTING", r)
      BY <1>19 DEF ResumeSubmission
    <2>4. pc[w] \in WithAttempt /\ "BROADCASTING" \in AttemptStatuses
      BY <1>19 DEF ResumeSubmission, WithAttempt, AttemptStatuses
    <2>5. RowsEvident' /\ Kept
      BY <2>2, <2>3, <2>4, RowsUpdate
    <2> QED
      BY <1>e, <2>1, <2>2, <2>5, ClaimsFrame, HashesFrame DEF EvidenceInv
  <1>20. ASSUME NEW w \in Workers, BroadcastTransfer(w)
        PROVE  EvidenceInv'
    <2> DEFINE t == job[w].transfer
    <2>1. t \in Transfers /\ att[w] \in 1..Len(attempts[t])
      BY <1>20 DEF BroadcastTransfer, TypeInv, LocalsOK, Jobs, WithAttempt
    <2>2. Len(attempts[t]) = 1 /\ att[w] = 1 /\ attempts[t][1].hash = t
      <3>1. Len(attempts[t]) \in {0, 1}
        BY <1>e, <2>1 DEF RowsEvident
      <3>2. Len(attempts[t]) = 1 /\ att[w] = 1
        BY <2>1, <3>1, OnlyRow
      <3> QED
        BY <1>e, <2>1, <3>2 DEF RowsEvident
    <2>3. /\ \/ sent' = sent \cup {t}
             \/ sent' = sent /\ err'[w] # "nil"
          /\ UNCHANGED <<attempts, status, txHash, job>>
          /\ pc' = [pc EXCEPT ![w] = "record"]
          /\ \E e : err' = [err EXCEPT ![w] = e]
      BY <1>t, <1>20, <2>2 DEF BroadcastTransfer, Goto, dbVars, LocalType
    <2>4. RowsEvident'
      BY <1>e, <2>2, <2>3 DEF RowsEvident
    <2>5. Kept
      BY <2>3 DEF Kept, HasBroadcast
    <2>6. HashesEvident'
      BY <1>e, <2>3, <2>5, HashesFrame
    <2>7. ClaimsEvident'
      <3>1. \A v \in Workers : v # w => pc'[v] = pc[v] /\ err'[v] = err[v]
        BY <1>t, <2>3 DEF LocalType
      <3>2. pc'[w] = "record"
        BY <1>t, <2>3 DEF LocalType
      <3>3. \A v \in Workers : pc[v] # "idle" => job[v].transfer \in Transfers
        BY DEF TypeInv, LocalsOK, Jobs
      <3> QED
        BY <1>e, <2>3, <2>5, <3>1, <3>2, <3>3 DEF ClaimsEvident, Kept
    <2> QED
      BY <2>4, <2>6, <2>7 DEF EvidenceInv
  <1>21. ASSUME NEW w \in Workers, RecordBroadcast(w)
        PROVE  EvidenceInv'
    <2> DEFINE t == job[w].transfer
               to == AfterBroadcast(err[w])
    <2>1. UNCHANGED sent /\ UNCHANGED <<status, txHash>> /\ UNCHANGED job
      BY <1>21 DEF RecordBroadcast
    <2>2. PICK r \in Errors :
            /\ UpdateAttempt(w, "BROADCASTING", to, r)
            /\ \/ /\ r = "nil"
                  /\ Goto(w, IF err[w] = "nil" THEN "submit" ELSE "finish")
                  /\ UNCHANGED err
               \/ r = "conflict" /\ Goto(w, "latest") /\ UNCHANGED err
               \/ r \notin {"nil", "conflict"} /\ Return(w, r)
      BY <1>21 DEF RecordBroadcast
    <2>3. /\ pc[w] = "record" /\ pc[w] \in WithAttempt
          /\ to \in AttemptStatuses
          /\ to = "BROADCASTED" <=> err[w] = "nil"
      BY <1>21 DEF RecordBroadcast, WithAttempt, AttemptStatuses, AfterBroadcast
    <2>4. to = "BROADCASTED" => t \in sent
      BY <1>e, <2>3 DEF ClaimsEvident
    <2> HIDE DEF to
    <2>5. /\ RowsEvident'
          /\ Kept
          /\ r = "nil" /\ to = "BROADCASTED" =>
                \A u \in Transfers : u = t => HasBroadcast(u)'
      BY <2>1, <2>2, <2>3, <2>4, RowsUpdate
    <2>6. HashesEvident'
      BY <1>e, <2>1, <2>5, HashesFrame
    <2>7. ClaimsEvident'
      <3>1. \A v \in Workers : v # w => pc'[v] = pc[v] /\ err'[v] = err[v]
        BY <1>t, <2>2 DEF Goto, Return, LocalType
      <3>2. /\ pc'[w] # "record"
            /\ pc'[w] = "submit" => r = "nil" /\ err[w] = "nil"
        BY <1>t, <2>2 DEF Goto, Return, LocalType
      <3>3. \A v \in Workers : pc[v] # "idle" => job[v].transfer \in Transfers
        BY DEF TypeInv, LocalsOK, Jobs
      <3> QED
        BY <1>e, <2>1, <2>3, <2>5, <3>1, <3>2, <3>3 DEF ClaimsEvident, Kept
    <2> QED
      BY <2>5, <2>6, <2>7 DEF EvidenceInv
  <1>22. ASSUME NEW w \in Workers, SubmitBroadcastedAttempt(w)
        PROVE  EvidenceInv'
    <2> DEFINE t == job[w].transfer
    <2>1. UNCHANGED <<attempts, sent>> /\ UNCHANGED job
      BY <1>22 DEF SubmitBroadcastedAttempt
    <2>2. RowsEvident' /\ Kept
      BY <1>e, <2>1, RowsFrame
    <2>3. \A v \in Workers : NoNewClaim(v)
      BY <1>t, <1>22 DEF SubmitBroadcastedAttempt, Goto, Return, NoNewClaim, LocalType
    <2>4. /\ t \in Transfers /\ att[w] \in 1..Len(attempts[t]) /\ pc[w] # "idle"
          /\ HasBroadcast(t)
      BY <1>e, <1>22
      DEF SubmitBroadcastedAttempt, TypeInv, LocalsOK, Jobs, WithAttempt, ClaimsEvident
    <2>5. att[w] = 1 /\ attempts[t][1].hash = t
      BY <1>e, <2>4 DEF RowsEvident, HasBroadcast
    <2>6. PICK r : TransitionStatus(w, "SUBMITTED", t, r)
      BY <1>22, <2>5 DEF SubmitBroadcastedAttempt
    <2>7. \/ UNCHANGED <<status, txHash, history>>
          \/ /\ status' = [status EXCEPT ![t] = "SUBMITTED"]
             /\ txHash' = [txHash EXCEPT ![t] = IF t = NoHash THEN @ ELSE t]
      <3>1. "SUBMITTED" \in Statuses
        BY DEF Statuses
      <3> QED
        BY <2>4, <2>6, <3>1, TransitionStatusEffect
    <2>8. HashesEvident'
      <3>1. CASE UNCHANGED <<status, txHash, history>>
        BY <1>e, <2>2, <3>1, HashesFrame
      <3>2. CASE /\ status' = [status EXCEPT ![t] = "SUBMITTED"]
                 /\ txHash' = [txHash EXCEPT ![t] = IF t = NoHash THEN @ ELSE t]
        <4>1. /\ status \in [Transfers -> Statuses]
              /\ txHash \in [Transfers -> Transfers \cup {NoHash}]
          BY DEF TypeInv, TypeOK
        <4>2. txHash'[t] = t /\ t # NoHash
          BY <2>4, <3>2, <4>1, ConstantsAssumption
        <4>3. \A u \in Transfers : u # t => status'[u] = status[u] /\ txHash'[u] = txHash[u]
          BY <3>2, <4>1
        <4> QED
          BY <1>e, <2>2, <2>4, <4>2, <4>3 DEF HashesEvident, Kept
      <3> QED
        BY <2>7, <3>1, <3>2
    <2> QED
      BY <1>e, <2>2, <2>3, <2>8, ClaimsFrame DEF EvidenceInv
  <1>23. CASE UNCHANGED vars
    BY <1>23, EvidenceFrame DEF vars, localVars, NoNewClaim
  <1> QED
    BY <1>1, <1>2, <1>3, <1>4, <1>5, <1>6, <1>7, <1>8, <1>9, <1>10, <1>11, <1>12,
       <1>13, <1>14, <1>15, <1>16, <1>17, <1>18, <1>19, <1>20, <1>21, <1>22, <1>23
    DEF Next, WorkerStep, WorkerEvent

-----------------------------------------------------------------------------
(* The theorems *)

(* The invariant holds throughout. *)
LEMMA EvidenceAlways == Spec => [](TypeInv /\ EvidenceInv)
  BY TypeInit, TypeStep, EvidenceInit, EvidenceStep, PTL DEF Spec

(* A transfer that claims submission has a transaction hash, a BROADCASTED    *)
(* attempt with that hash and a network that accepted it, whatever fails and  *)
(* however the workers of processor.go interleave.                            *)
THEOREM EvidenceTheorem == Spec => []SubmissionEvidence
  <1>1. TypeInv /\ EvidenceInv => SubmissionEvidence
    <2> SUFFICES ASSUME TypeInv, EvidenceInv, NEW t \in Transfers, txHash[t] # NoHash
                 PROVE  /\ txHash[t] \in sent
                        /\ \E i \in DOMAIN attempts[t] :
                             attempts[t][i] = [status |-> "BROADCASTED", hash |-> txHash[t]]
      BY DEF SubmissionEvidence, EvidenceInv, HashesEvident
    <2>1. txHash[t] = t /\ HasBroadcast(t)
      BY DEF EvidenceInv, HashesEvident
    <2>2. attempts[t][1].hash = t /\ t \in sent
      BY <2>1 DEF EvidenceInv, RowsEvident, HasBroadcast
    <2>3. attempts[t] \in Seq(Attempts)
      BY DEF TypeInv, TypeOK
    <2>4. attempts[t][1] \in Attempts /\ 1 \in DOMAIN attempts[t]
      BY <2>1, <2>3 DEF HasBroadcast
    <2>5. attempts[t][1] = [status |-> "BROADCASTED", hash |-> t]
      BY <2>1, <2>2, <2>4 DEF Attempts, HasBroadcast
    <2> QED
      BY <2>1, <2>2, <2>4, <2>5
  <1> QED
    BY <1>1, EvidenceAlways, PTL

(* At most one transaction is ever stored for a transfer and nothing reaches  *)
(* the network that is not stored, even when workers lose their locks: the    *)
(* unique indexes behind CreateAttempt and the compare-and-set of             *)
(* UpdateAttempt suffice without the lock.                                    *)
THEOREM OneTransactionTheorem == Spec => []OneTransaction
  <1>1. TypeInv /\ EvidenceInv => OneTransaction
    <2> SUFFICES ASSUME TypeInv, EvidenceInv PROVE OneTransaction
      OBVIOUS
    <2>1. \A t \in Transfers : Len(attempts[t]) <= 1
      <3> SUFFICES ASSUME NEW t \in Transfers PROVE Len(attempts[t]) <= 1
        OBVIOUS
      <3>1. Len(attempts[t]) = 0 \/ Len(attempts[t]) = 1
        BY DEF EvidenceInv, RowsEvident
      <3>2. ASSUME NEW k, k = 0 \/ k = 1
            PROVE  k <= 1
        BY <3>2
      <3> QED
        BY <3>1, <3>2, Zenon
    <2>2. ASSUME NEW h \in sent
          PROVE  \E t \in Transfers : \E i \in DOMAIN attempts[t] :
                    attempts[t][i].hash = h
      <3>1. h \in Transfers
        BY DEF TypeInv, TypeOK
      <3>2. Len(attempts[h]) = 1 /\ attempts[h][1].hash = h
        BY <3>1 DEF EvidenceInv, RowsEvident
      <3>3. attempts[h] \in Seq(Attempts)
        BY <3>1 DEF TypeInv, TypeOK
      <3>4. 1 \in DOMAIN attempts[h]
        BY <3>2, <3>3
      <3> QED
        BY <3>1, <3>2, <3>4
    <2> QED
      BY <2>1, <2>2 DEF OneTransaction
  <1> QED
    BY <1>1, EvidenceAlways, PTL

-----------------------------------------------------------------------------
(* The path of a transfer. The workers implement TransferLifecycle only       *)
(* because a worker that is about to write a status, or to broadcast, is      *)
(* where the path allows it: what a worker has seen of its transfer may be    *)
(* stale, and its writes are compared with what it has seen, not with what    *)
(* the path allows.                                                           *)

\* Points at which a worker submits a transfer it has seen at SIGNING.
Submission == {"create", "resume", "broadcast", "record", "latest", "submit"}

\* Statuses a transfer can be moved on from.
Open == {"CREATED", "VALIDATED", "QUEUED", "SIGNING", "SUBMITTED"}

\* The transfer has been at SIGNING.
WasSigning(t) == \E i \in 1..Len(history[t]) : history[t][i][2] = "SIGNING"

(* The recorded path has the transfer's status, and no worker writes          *)
(* CONFIRMED.                                                                 *)
PathRecorded ==
    \A t \in Transfers : /\ status[t] # "CONFIRMED"
                         /\ status[t] = "SIGNING" => WasSigning(t)

(* A worker that goes on has seen its transfer open, and one that submits it  *)
(* has seen it at SIGNING, where it has really been.                          *)
PathSeen ==
    \A w \in Workers :
        /\ pc[w] \in {"process", "failset"} => loc[w] \in Open
        /\ pc[w] \in Submission => loc[w] = "SIGNING"
        /\ \A t \in Transfers :
                /\ pc[w] \in {"process"} \cup Submission /\ loc[w] = "SIGNING"
                /\ job[w].transfer = t
                => WasSigning(t)

PathInv == PathRecorded /\ PathSeen

\* What a worker has seen stays: it remains where it was, or goes on with the
\* submission.
Sees(w) ==
    pc'[w] \in {"process", "failset"} \cup Submission =>
        /\ loc'[w] = loc[w] /\ job'[w] = job[w]
        /\ \/ pc'[w] = pc[w]
           \/ /\ pc'[w] \in Submission
              /\ pc[w] \in Submission \/ (pc[w] = "process" /\ loc[w] = "SIGNING")

(* The invariant survives a step that writes no status. *)
LEMMA PathFrame ==
    ASSUME PathInv, UNCHANGED <<status, history>>, \A w \in Workers : Sees(w)
    PROVE  PathInv'
  <1>1. PathRecorded'
    BY DEF PathInv, PathRecorded, WasSigning
  <1>2. ASSUME NEW x, WasSigning(x) PROVE WasSigning(x)'
    BY <1>2 DEF WasSigning
  <1>3. PathSeen'
    BY <1>2 DEF PathInv, PathSeen, Sees, Submission
  <1> QED
    BY <1>1, <1>3 DEF PathInv

(* Adding a row to the history keeps what it shows, and shows the row. *)
LEMMA HistoryGrows ==
    ASSUME NEW S, NEW s \in Seq(S), NEW x \in S
    PROVE  /\ Append(s, x) \in Seq(S)
           /\ Len(Append(s, x)) = Len(s) + 1
           /\ Len(s) \in Nat
           /\ Append(s, x)[Len(s) + 1] = x
           /\ \A i \in 1..Len(s) : Append(s, x)[i] = s[i]
  OBVIOUS

(* A transition records its step: what has been signed stays so. *)
LEMMA TransitionPath ==
    ASSUME TypeInv, PathInv,
           NEW w \in Workers, pc[w] # "idle",
           NEW to \in Statuses, to # "CONFIRMED",
           NEW hash \in Transfers \cup {NoHash}, NEW r,
           TransitionStatus(w, to, hash, r)
    PROVE  /\ PathRecorded'
           /\ \A t \in Transfers : WasSigning(t) => WasSigning(t)'
           /\ r = "nil" /\ to = "SIGNING" =>
                \A t \in Transfers : t = job[w].transfer => WasSigning(t)'
  <1> DEFINE Row == (Statuses \cup {""}) \X Statuses
             row == <<loc[w], to>>
  <1>1. PICK t \in Transfers : t = job[w].transfer
    BY DEF TypeInv, LocalsOK, Jobs
  <1>2. /\ history \in [Transfers -> Seq(Row)] /\ status \in [Transfers -> Statuses]
        /\ row \in Row
    BY DEF TypeInv, TypeOK
  <1>3. row[2] = to
    OBVIOUS
  <1>4. CASE UNCHANGED <<status, txHash, history>> /\ r # "nil"
    BY <1>4 DEF PathInv, PathRecorded, WasSigning
  <1>5. CASE /\ status' = [status EXCEPT ![t] = to]
             /\ history' = [history EXCEPT ![t] = Append(@, row)]
    <2> HIDE DEF Row, row
    <2>1. /\ history'[t] = Append(history[t], row)
          /\ \A u \in Transfers : u # t => history'[u] = history[u]
          /\ status'[t] = to
          /\ \A u \in Transfers : u # t => status'[u] = status[u]
      BY <1>1, <1>2, <1>5
    <2>2. history[t] \in Seq(Row)
      BY <1>1, <1>2
    <2>3. /\ Len(history'[t]) = Len(history[t]) + 1
          /\ Len(history[t]) \in Nat
          /\ history'[t][Len(history[t]) + 1] = row
          /\ \A i \in 1..Len(history[t]) : history'[t][i] = history[t][i]
      BY <1>2, <2>1, <2>2, HistoryGrows
    <2>4. WasSigning(t) => WasSigning(t)'
      <3> SUFFICES ASSUME NEW i \in 1..Len(history[t]), history[t][i][2] = "SIGNING"
                   PROVE  \E k \in 1..Len(history'[t]) : history'[t][k][2] = "SIGNING"
        BY DEF WasSigning
      <3>1. i \in 1..Len(history'[t])
        BY <2>3
      <3> QED
        BY <2>3, <3>1
    <2>5. to = "SIGNING" => WasSigning(t)'
      <3> SUFFICES ASSUME to = "SIGNING"
                   PROVE  \E k \in 1..Len(history'[t]) : history'[t][k][2] = "SIGNING"
        BY DEF WasSigning
      <3>1. Len(history[t]) + 1 \in 1..Len(history'[t])
        BY <2>3
      <3> QED
        BY <1>3, <2>3, <3>1
    <2>6. \A u \in Transfers : u # t => (WasSigning(u) <=> WasSigning(u)')
      BY <2>1 DEF WasSigning
    <2>7. PathRecorded'
      BY <2>1, <2>5, <2>6 DEF PathInv, PathRecorded
    <2> QED
      BY <1>1, <2>4, <2>5, <2>6, <2>7
  <1>6. \/ UNCHANGED <<status, txHash, history>> /\ r # "nil"
        \/ /\ status' = [status EXCEPT ![t] = to]
           /\ history' = [history EXCEPT ![t] = Append(@, row)]
    BY <1>1 DEF TransitionStatus, Fails
  <1> QED
    BY <1>4, <1>5, <1>6

(* New transfers are at the start of the path. *)
LEMMA PathInit == Init => PathInv
  BY DEF Init, PathInv, PathRecorded, PathSeen, Submission

(* Every step keeps the path invariant. *)
LEMMA PathStep == TypeInv /\ PathInv /\ [Next]_vars => PathInv'
  <1> SUFFICES ASSUME TypeInv, PathInv, [Next]_vars PROVE PathInv'
    OBVIOUS
  <1>t. LocalType
    BY TypeParts DEF TypeInv
  <1>p. PathRecorded /\ PathSeen
    BY DEF PathInv
  <1>j. \A w \in Workers : pc[w] # "idle" => job[w].transfer \in Transfers
    BY DEF TypeInv, LocalsOK, Jobs
  \* Steps that write no status and after which nobody has seen anything new.
  <1>k. ASSUME UNCHANGED dbVars, UNCHANGED localVars PROVE PathInv'
    BY <1>k, PathFrame DEF dbVars, localVars, Sees
  <1>1. ASSUME NEW t \in Transfers,
               PublishTransferRequested(t) \/ LockExpires(t) \/ LockLost(t)
        PROVE  PathInv'
    BY <1>k, <1>1 DEF PublishTransferRequested, LockExpires, LockLost
  <1>2. ASSUME NEW w \in Workers, NEW j \in Jobs, HandleDelivery(w, j) \/ AcquireFails(w, j)
        PROVE  PathInv'
    <2>1. CASE AcquireFails(w, j)
      BY <1>k, <2>1 DEF AcquireFails
    <2>2. CASE HandleDelivery(w, j)
      <3>1. \A v \in Workers : Sees(v)
        BY <1>t, <2>2 DEF HandleDelivery, Sees, Goto, LocalType, Submission
      <3> QED
        BY <2>2, <3>1, PathFrame DEF HandleDelivery, dbVars
    <2> QED
      BY <1>2, <2>1, <2>2
  <1>3. ASSUME NEW w \in Workers,
               SignerFails(w) \/ HeartbeatFails(w) \/ Shutdown(w) \/ Crash(w)
               \/ ConnectionLost(w) \/ Finish(w) \/ RetryJob(w) \/ Ack(w) \/ Release(w)
        PROVE  PathInv'
    <2>1. \A v \in Workers : Sees(v)
      BY <1>t, <1>3
      DEF SignerFails, HeartbeatFails, Shutdown, Crash, ConnectionLost, Finish, RetryJob,
          Ack, Release, Idle, Return, Goto, Sees, LocalType, Submission
    <2> QED
      BY <1>3, <2>1, PathFrame
      DEF SignerFails, HeartbeatFails, Shutdown, Crash, ConnectionLost, Finish, RetryJob,
          Ack, Release, dbVars
  <1>4. ASSUME NEW w \in Workers,
               CreateAttemptAndSubmit(w) \/ ResumeSubmission(w) \/ BroadcastTransfer(w)
               \/ RecordBroadcast(w)
        PROVE  PathInv'
    <2>1. \A v \in Workers : Sees(v)
      BY <1>t, <1>4
      DEF CreateAttemptAndSubmit, ResumeSubmission, BroadcastTransfer, RecordBroadcast,
          Return, Goto, Sees, LocalType, Submission
    <2> QED
      BY <1>4, <2>1, PathFrame
      DEF CreateAttemptAndSubmit, ResumeSubmission, BroadcastTransfer, RecordBroadcast, dbVars
  <1>5. ASSUME NEW w \in Workers, GetLatestAttempt(w)
        PROVE  PathInv'
    <2>1. /\ pc[w] \in Submission \/ (pc[w] = "process" /\ loc[w] = "SIGNING")
          /\ UNCHANGED <<status, history, job, loc>>
      BY <1>5 DEF GetLatestAttempt, Submission, dbVars
    <2>2. \E p : pc' = [pc EXCEPT ![w] = p] /\ p \notin {"process", "failset"}
      <3> DEFINE n == Len(attempts[job[w].transfer])
                 x == attempts[job[w].transfer][n].status
      <3>1. \/ pc' = [pc EXCEPT ![w] = "create"]
            \/ n > 0 /\ pc' = [pc EXCEPT ![w] = ResumePoint[x]]
            \/ pc' = [pc EXCEPT ![w] = "finish"]
        BY <1>5 DEF GetLatestAttempt, Goto, Return
      <3>2. n > 0 => ResumePoint[x] \in {"resume", "broadcast", "submit", "finish"}
        <4>1. job[w].transfer \in Transfers
          BY <1>j, <2>1 DEF Submission
        <4>2. attempts[job[w].transfer] \in Seq(Attempts)
          BY <4>1 DEF TypeInv, TypeOK
        <4>3. n > 0 => attempts[job[w].transfer][n] \in Attempts
          BY <4>2
        <4>4. n > 0 => x \in AttemptStatuses
          BY <4>3 DEF Attempts
        <4> HIDE DEF x
        <4> QED
          BY <4>4, ResumePointType
      <3> HIDE DEF n, x
      <3>3. CASE n > 0 /\ pc' = [pc EXCEPT ![w] = ResumePoint[x]]
        BY <3>2, <3>3
      <3> QED
        BY <3>1, <3>3
    <2>3. \A v \in Workers : Sees(v)
      BY <1>t, <2>1, <2>2 DEF Sees, LocalType
    <2> QED
      BY <2>1, <2>3, PathFrame
  <1>6. ASSUME NEW w \in Workers, GetByID(w) \/ FailTransferGet(w)
        PROVE  PathInv'
    <2>0. PICK t \in Transfers : t = job[w].transfer
      BY <1>j, <1>6 DEF GetByID, FailTransferGet
    <2> DEFINE s == status[t]
    <2>1. UNCHANGED <<status, history, job>>
      BY <1>6 DEF GetByID, FailTransferGet, dbVars
    <2>2. s \in Statuses /\ s # "CONFIRMED" /\ (s = "SIGNING" => WasSigning(t))
      BY <1>p, <2>1 DEF TypeInv, TypeOK, PathRecorded
    <2> HIDE DEF s
    <2>3. \/ pc'[w] \in {"finish", "ack"}
          \/ pc'[w] \in {"process", "failset"} /\ loc'[w] = s /\ s \notin Settled
      BY <1>t, <1>6, <2>0, <2>2 DEF GetByID, FailTransferGet, Return, Goto, LocalType, Settled, s
    <2>4. \A v \in Workers : v # w => pc'[v] = pc[v] /\ loc'[v] = loc[v]
      BY <1>t, <1>6 DEF GetByID, FailTransferGet, Return, Goto, LocalType
    <2>5. s \notin Settled => s \in Open
      BY <2>2 DEF Statuses, Settled, Open
    <2>6. ASSUME NEW x, WasSigning(x) PROVE WasSigning(x)'
      BY <2>1, <2>6 DEF WasSigning
    <2>7. PathSeen'
      <3> SUFFICES ASSUME NEW v \in Workers
                   PROVE  /\ pc'[v] \in {"process", "failset"} => loc'[v] \in Open
                          /\ pc'[v] \in Submission => loc'[v] = "SIGNING"
                          /\ \A u \in Transfers :
                                /\ pc'[v] \in {"process"} \cup Submission
                                /\ loc'[v] = "SIGNING" /\ job[v].transfer = u
                                => WasSigning(u)'
        BY <2>1 DEF PathSeen
      <3>1. CASE v # w
        BY <1>p, <2>4, <2>6, <3>1 DEF PathSeen
      <3>2. CASE v = w
        BY <2>0, <2>2, <2>3, <2>5, <2>6, <3>2 DEF Submission
      <3> QED
        BY <3>1, <3>2
    <2>8. PathRecorded'
      BY <1>p, <2>1 DEF PathRecorded, WasSigning
    <2> QED
      BY <2>7, <2>8 DEF PathInv
  <1>7. ASSUME NEW w \in Workers, Advance(w) \/ SubmitBroadcastedAttempt(w) \/ FailTransferSet(w)
        PROVE  PathInv'
    <2>0. PICK t \in Transfers : t = job[w].transfer
      BY <1>j, <1>7 DEF Advance, SubmitBroadcastedAttempt, FailTransferSet
    <2>1. pc[w] # "idle" /\ UNCHANGED job
      BY <1>7 DEF Advance, SubmitBroadcastedAttempt, FailTransferSet
    <2>2. \E to \in Statuses, hash \in Transfers \cup {NoHash}, r \in Errors :
            /\ to # "CONFIRMED"
            /\ TransitionStatus(w, to, hash, r)
            /\ \/ pc'[w] \in {"finish", "ack"}
               \/ /\ pc'[w] = "process" /\ loc'[w] = to /\ r = "nil"
                  /\ to \in Open
      <3>1. CASE Advance(w)
        <4>1. /\ loc[w] \in DOMAIN Successor
              /\ Successor[loc[w]] \in Statuses /\ Successor[loc[w]] # "CONFIRMED"
              /\ loc[w] # "SUBMITTED" => Successor[loc[w]] \in Open
          BY <3>1 DEF Advance, Successor, Statuses, Open
        <4>2. \E r \in Errors :
                /\ TransitionStatus(w, Successor[loc[w]], NoHash, r)
                /\ \/ pc'[w] = "finish"
                   \/ /\ pc'[w] = "process" /\ loc'[w] = Successor[loc[w]]
                      /\ r = "nil" /\ loc[w] # "SUBMITTED"
          BY <1>t, <3>1 DEF Advance, Return, Goto, LocalType
        <4> QED
          BY <4>1, <4>2
      <3>2. CASE SubmitBroadcastedAttempt(w)
        <4> DEFINE h == attempts[t][att[w]].hash
        <4>1. h \in Transfers
          <5>1. attempts[t] \in Seq(Attempts) /\ att[w] \in 1..Len(attempts[t])
            BY <2>0, <3>2 DEF SubmitBroadcastedAttempt, TypeInv, TypeOK, LocalsOK, WithAttempt
          <5>2. attempts[t][att[w]] \in Attempts
            BY <5>1
          <5> QED
            BY <5>2 DEF Attempts
        <4>2. \E r \in Errors :
                /\ TransitionStatus(w, "SUBMITTED", h, r)
                /\ \/ pc'[w] = "finish"
                   \/ pc'[w] = "process" /\ loc'[w] = "SUBMITTED" /\ r = "nil"
          BY <1>t, <2>0, <3>2 DEF SubmitBroadcastedAttempt, Return, Goto, LocalType
        <4>3. "SUBMITTED" \in Statuses /\ "SUBMITTED" \in Open
          BY DEF Statuses, Open
        <4> HIDE DEF h
        <4> QED
          BY <4>1, <4>2, <4>3
      <3>3. CASE FailTransferSet(w)
        <4>1. \E r \in Errors : TransitionStatus(w, "FAILED", NoHash, r)
          BY <3>3 DEF FailTransferSet
        <4>2. pc'[w] = "ack"
          BY <1>t, <3>3 DEF FailTransferSet, Goto, LocalType
        <4>3. "FAILED" \in Statuses
          BY DEF Statuses
        <4> QED
          BY <4>1, <4>2, <4>3
      <3> QED
        BY <1>7, <3>1, <3>2, <3>3
    <2>3. PICK to \in Statuses, hash \in Transfers \cup {NoHash}, r \in Errors :
            /\ to # "CONFIRMED"
            /\ TransitionStatus(w, to, hash, r)
            /\ \/ pc'[w] \in {"finish", "ack"}
               \/ pc'[w] = "process" /\ loc'[w] = to /\ r = "nil" /\ to \in Open
      BY <2>2
    <2>4. /\ PathRecorded'
          /\ \A u \in Transfers : WasSigning(u) => WasSigning(u)'
          /\ r = "nil" /\ to = "SIGNING" => WasSigning(t)'
      BY <2>0, <2>1, <2>3, TransitionPath
    <2>5. \A v \in Workers : v # w => pc'[v] = pc[v] /\ loc'[v] = loc[v]
      BY <1>t, <1>7
      DEF Advance, SubmitBroadcastedAttempt, FailTransferSet, Return, Goto, LocalType
    <2>6. PathSeen'
      <3> SUFFICES ASSUME NEW v \in Workers
                   PROVE  /\ pc'[v] \in {"process", "failset"} => loc'[v] \in Open
                          /\ pc'[v] \in Submission => loc'[v] = "SIGNING"
                          /\ \A u \in Transfers :
                                /\ pc'[v] \in {"process"} \cup Submission
                                /\ loc'[v] = "SIGNING" /\ job[v].transfer = u
                                => WasSigning(u)'
        BY <2>1 DEF PathSeen
      <3>1. CASE v # w
        BY <1>p, <2>4, <2>5, <3>1 DEF PathSeen
      <3>2. CASE v = w
        BY <2>0, <2>3, <2>4, <3>2 DEF Submission
      <3> QED
        BY <3>1, <3>2
    <2> QED
      BY <2>4, <2>6 DEF PathInv
  <1>8. CASE UNCHANGED vars
    BY <1>k, <1>8 DEF vars
  <1> QED
    BY <1>1, <1>2, <1>3, <1>4, <1>5, <1>6, <1>7, <1>8 DEF Next, WorkerStep, WorkerEvent

-----------------------------------------------------------------------------
(* The refinement: every step is a step of TransferLifecycle, or one that it  *)
(* does not see.                                                              *)

(* A committed transition, in the terms of the lifecycle. *)
LEMMA TransitionMoves ==
    ASSUME TypeInv,
           NEW w \in Workers, pc[w] # "idle",
           NEW t \in Transfers, t = job[w].transfer,
           NEW to, NEW hash, NEW r,
           TransitionStatus(w, to, hash, r)
    PROVE  \/ UNCHANGED <<status, txHash, history>>
           \/ /\ status[t] = loc[w]
              /\ Lifecycle!Move(t, to)
              /\ hash = NoHash => txHash' = txHash
              /\ hash # NoHash => txHash' = [txHash EXCEPT ![t] = hash]
  <1>1. \/ UNCHANGED <<status, txHash, history>>
        \/ /\ status[t] = loc[w]
           /\ status' = [status EXCEPT ![t] = to]
           /\ txHash' = [txHash EXCEPT ![t] = IF hash = NoHash THEN @ ELSE hash]
           /\ history' = [history EXCEPT ![t] = Append(@, <<loc[w], to>>)]
    BY DEF TransitionStatus
  <1>2. hash = NoHash => [txHash EXCEPT ![t] = IF hash = NoHash THEN @ ELSE hash] = txHash
    BY DEF TypeInv, TypeOK
  <1> QED
    BY <1>1, <1>2 DEF Lifecycle!Move

(* Every step of the workers is a step of the path or none. *)
LEMMA LifeStep ==
    TypeInv /\ EvidenceInv /\ PathInv /\ [Next]_vars
        => Lifecycle!LifeNext \/ UNCHANGED Lifecycle!lifeVars
  <1> SUFFICES ASSUME TypeInv, EvidenceInv, PathInv, [Next]_vars
               PROVE  Lifecycle!LifeNext \/ UNCHANGED Lifecycle!lifeVars
    OBVIOUS
  <1>j. \A w \in Workers : pc[w] # "idle" => job[w].transfer \in Transfers
    BY DEF TypeInv, LocalsOK, Jobs
  <1>k. ASSUME UNCHANGED dbVars, UNCHANGED sent PROVE UNCHANGED Lifecycle!lifeVars
    BY <1>k DEF dbVars, Lifecycle!lifeVars
  <1>1. ASSUME NEW t \in Transfers,
               PublishTransferRequested(t) \/ LockExpires(t) \/ LockLost(t)
        PROVE  UNCHANGED Lifecycle!lifeVars
    BY <1>k, <1>1 DEF PublishTransferRequested, LockExpires, LockLost
  <1>2. ASSUME NEW w \in Workers, NEW j \in Jobs, HandleDelivery(w, j) \/ AcquireFails(w, j)
        PROVE  UNCHANGED Lifecycle!lifeVars
    BY <1>k, <1>2 DEF HandleDelivery, AcquireFails
  <1>3. ASSUME NEW w \in Workers,
               GetByID(w) \/ GetLatestAttempt(w) \/ SignerFails(w) \/ HeartbeatFails(w)
               \/ Shutdown(w) \/ Crash(w) \/ ConnectionLost(w) \/ Finish(w) \/ RetryJob(w)
               \/ FailTransferGet(w) \/ Ack(w) \/ Release(w)
        PROVE  UNCHANGED Lifecycle!lifeVars
    BY <1>k, <1>3
    DEF GetByID, GetLatestAttempt, SignerFails, HeartbeatFails, Shutdown, Crash,
        ConnectionLost, Finish, RetryJob, FailTransferGet, Ack, Release
  <1>4. ASSUME NEW w \in Workers,
               CreateAttemptAndSubmit(w) \/ ResumeSubmission(w) \/ RecordBroadcast(w)
        PROVE  UNCHANGED Lifecycle!lifeVars
    BY <1>4
    DEF CreateAttemptAndSubmit, ResumeSubmission, RecordBroadcast, Lifecycle!lifeVars
  <1>5. ASSUME NEW w \in Workers, BroadcastTransfer(w)
        PROVE  Lifecycle!LifeNext \/ UNCHANGED Lifecycle!lifeVars
    <2>1. PICK t \in Transfers : t = job[w].transfer
      BY <1>j, <1>5 DEF BroadcastTransfer
    <2>2. attempts[t][att[w]].hash = t
      <3>1. att[w] \in 1..Len(attempts[t]) /\ Len(attempts[t]) \in {0, 1}
        BY <1>5, <2>1
        DEF BroadcastTransfer, TypeInv, LocalsOK, WithAttempt, EvidenceInv, RowsEvident
      <3>2. Len(attempts[t]) = 1 /\ att[w] = 1
        BY <3>1, OnlyRow
      <3> QED
        BY <3>2 DEF EvidenceInv, RowsEvident
    <2>3. WasSigning(t)
      BY <1>5, <2>1 DEF BroadcastTransfer, PathInv, PathSeen, Submission
    <2>4. UNCHANGED <<status, txHash, history>> /\ sent' \in {sent, sent \cup {t}}
      BY <1>5, <2>1, <2>2 DEF BroadcastTransfer, dbVars
    <2>5. CASE sent' = sent
      BY <2>4, <2>5 DEF Lifecycle!lifeVars
    <2>6. CASE sent' = sent \cup {t}
      <3>1. Lifecycle!Accept(t)
        BY <2>3, <2>4, <2>6 DEF Lifecycle!Accept, WasSigning
      <3> QED
        BY <3>1 DEF Lifecycle!LifeNext
    <2> QED
      BY <2>4, <2>5, <2>6
  <1>6. ASSUME NEW w \in Workers, Advance(w)
        PROVE  Lifecycle!LifeNext \/ UNCHANGED Lifecycle!lifeVars
    <2>1. PICK t \in Transfers : t = job[w].transfer
      BY <1>j, <1>6 DEF Advance
    <2> DEFINE s == Successor[loc[w]]
    <2>2. /\ <<loc[w], s>> \in Lifecycle!PathSteps
          /\ s \in Lifecycle!LifeStatuses
      BY <1>6 DEF Advance, Successor, Lifecycle!PathSteps, Lifecycle!LifeStatuses
    <2>3. PICK r : TransitionStatus(w, s, NoHash, r)
      BY <1>6 DEF Advance
    <2>4. sent' = sent /\ pc[w] # "idle"
      BY <1>6 DEF Advance
    <2>5. CASE UNCHANGED <<status, txHash, history>>
      BY <2>4, <2>5 DEF Lifecycle!lifeVars
    <2>6. CASE status[t] = loc[w] /\ Lifecycle!Move(t, s) /\ txHash' = txHash
      <3>1. Lifecycle!StepAlongPath(t)
        BY <2>2, <2>4, <2>6 DEF Lifecycle!StepAlongPath
      <3> QED
        BY <3>1 DEF Lifecycle!LifeNext
    <2> HIDE DEF s
    <2> QED
      BY <2>1, <2>3, <2>4, <2>5, <2>6, TransitionMoves
  <1>7. ASSUME NEW w \in Workers, SubmitBroadcastedAttempt(w)
        PROVE  Lifecycle!LifeNext \/ UNCHANGED Lifecycle!lifeVars
    <2>1. PICK t \in Transfers : t = job[w].transfer
      BY <1>j, <1>7 DEF SubmitBroadcastedAttempt
    <2>2. HasBroadcast(t) /\ att[w] \in 1..Len(attempts[t])
      BY <1>7, <2>1
      DEF SubmitBroadcastedAttempt, EvidenceInv, ClaimsEvident, HasBroadcast, TypeInv,
          LocalsOK, WithAttempt
    <2>3. att[w] = 1 /\ attempts[t][att[w]].hash = t /\ t \in sent
      BY <2>2 DEF EvidenceInv, RowsEvident, HasBroadcast
    <2>4. loc[w] = "SIGNING"
      BY <1>7 DEF SubmitBroadcastedAttempt, PathInv, PathSeen, Submission
    <2>5. PICK r : TransitionStatus(w, "SUBMITTED", t, r)
      BY <1>7, <2>1, <2>3 DEF SubmitBroadcastedAttempt
    <2>6. sent' = sent /\ pc[w] # "idle" /\ t # NoHash
      BY <1>7, ConstantsAssumption DEF SubmitBroadcastedAttempt
    <2>7. CASE UNCHANGED <<status, txHash, history>>
      BY <2>6, <2>7 DEF Lifecycle!lifeVars
    <2>8. CASE /\ status[t] = loc[w] /\ Lifecycle!Move(t, "SUBMITTED")
               /\ txHash' = [txHash EXCEPT ![t] = t]
      <3>1. Lifecycle!Submit(t)
        BY <2>3, <2>4, <2>6, <2>8 DEF Lifecycle!Submit
      <3> QED
        BY <3>1 DEF Lifecycle!LifeNext
    <2> QED
      BY <2>1, <2>5, <2>6, <2>7, <2>8, TransitionMoves
  <1>8. ASSUME NEW w \in Workers, FailTransferSet(w)
        PROVE  Lifecycle!LifeNext \/ UNCHANGED Lifecycle!lifeVars
    <2>1. PICK t \in Transfers : t = job[w].transfer
      BY <1>j, <1>8 DEF FailTransferSet
    <2>2. loc[w] \in Open
      BY <1>8 DEF FailTransferSet, PathInv, PathSeen
    <2>3. PICK r : TransitionStatus(w, "FAILED", NoHash, r)
      BY <1>8 DEF FailTransferSet
    <2>4. sent' = sent /\ pc[w] # "idle"
      BY <1>8 DEF FailTransferSet
    <2>5. CASE UNCHANGED <<status, txHash, history>>
      BY <2>4, <2>5 DEF Lifecycle!lifeVars
    <2>6. CASE status[t] = loc[w] /\ Lifecycle!Move(t, "FAILED") /\ txHash' = txHash
      <3>1. Lifecycle!GiveUp(t)
        BY <2>2, <2>4, <2>6 DEF Lifecycle!GiveUp, Open
      <3> QED
        BY <3>1 DEF Lifecycle!LifeNext
    <2> QED
      BY <2>1, <2>3, <2>4, <2>5, <2>6, TransitionMoves
  <1>9. CASE UNCHANGED vars
    BY <1>k, <1>9 DEF vars
  <1> QED
    BY <1>1, <1>2, <1>3, <1>4, <1>5, <1>6, <1>7, <1>8, <1>9
    DEF Next, WorkerStep, WorkerEvent

(* So the path is known throughout. *)
LEMMA PathAlways == Spec => [](TypeInv /\ EvidenceInv /\ PathInv)
  BY EvidenceAlways, PathInit, PathStep, PTL DEF Spec

(* The workers of processor.go, with their queue, locks, attempts, retries    *)
(* and failures, implement TransferLifecycle: what a reader of the tables and *)
(* of the chain sees is the plain life of each transfer.                      *)
THEOREM Refinement == Spec => ImplementsLifecycle
  <1>1. Init => Lifecycle!LifeInit
    BY DEF Init, Lifecycle!LifeInit
  <1>2. TypeInv /\ EvidenceInv /\ PathInv /\ [Next]_vars
            => [Lifecycle!LifeNext]_(Lifecycle!lifeVars)
    BY LifeStep
  <1> QED
    BY <1>1, <1>2, PathAlways, PTL DEF Spec, ImplementsLifecycle, Lifecycle!LifeSpec

-----------------------------------------------------------------------------
(* Steps that go back *)

\* Attempts that are over stay as they are.
AttemptsStay ==
    \A t \in Transfers : \A i \in DOMAIN attempts[t] :
        attempts[t][i].status \in {"BROADCASTED", "FAILED"}
            => attempts'[t][i] = attempts[t][i]

(* UpdateAttempt moves SIGNED and BROADCASTING attempts only, CreateAttempt   *)
(* adds rows.                                                                 *)
LEMMA AttemptsStep == TypeInv /\ [Next]_vars => AttemptsStay
  <1> SUFFICES ASSUME TypeInv, [Next]_vars PROVE AttemptsStay
    OBVIOUS
  <1>j. \A w \in Workers : pc[w] # "idle" => job[w].transfer \in Transfers
    BY DEF TypeInv, LocalsOK, Jobs
  <1>a. /\ attempts \in [Transfers -> Seq(Attempts)]
        /\ \A t \in Transfers : DOMAIN attempts[t] = 1..Len(attempts[t])
    <2>1. attempts \in [Transfers -> Seq(Attempts)]
      BY DEF TypeInv, TypeOK
    <2>2. ASSUME NEW t \in Transfers PROVE DOMAIN attempts[t] = 1..Len(attempts[t])
      <3>1. attempts[t] \in Seq(Attempts)
        BY <2>1
      <3> QED
        BY <3>1
    <2> QED
      BY <2>1, <2>2
  <1>k. ASSUME UNCHANGED attempts PROVE AttemptsStay
    BY <1>k DEF AttemptsStay
  <1>u. ASSUME NEW w \in Workers, pc[w] \in WithAttempt,
               NEW from \in {"SIGNED", "BROADCASTING"}, NEW to \in AttemptStatuses, NEW r,
               UpdateAttempt(w, from, to, r)
        PROVE  AttemptsStay
    <2>1. PICK t \in Transfers : t = job[w].transfer
      BY <1>j, <1>u DEF WithAttempt
    <2>2. \/ UNCHANGED attempts
          \/ /\ attempts[t][att[w]].status = from
             /\ \A k \in 1..Len(attempts[t]) :
                    k # att[w] => attempts'[t][k] = attempts[t][k]
             /\ \A u \in Transfers : u # t => attempts'[u] = attempts[u]
      BY <1>u, <2>1, UpdateAttemptEffect
    <2>3. CASE UNCHANGED attempts
      BY <1>k, <2>3
    <2>4. CASE /\ attempts[t][att[w]].status = from
               /\ \A k \in 1..Len(attempts[t]) :
                    k # att[w] => attempts'[t][k] = attempts[t][k]
               /\ \A u \in Transfers : u # t => attempts'[u] = attempts[u]
      BY <1>a, <1>u, <2>4 DEF AttemptsStay
    <2> QED
      BY <2>2, <2>3, <2>4
  <1>1. ASSUME NEW w \in Workers, CreateAttemptAndSubmit(w)
        PROVE  AttemptsStay
    <2>1. PICK t \in Transfers : t = job[w].transfer
      BY <1>j, <1>1 DEF CreateAttemptAndSubmit
    <2> DEFINE row == [status |-> "SIGNED", hash |-> t]
    <2>2. \/ UNCHANGED attempts
          \/ attempts' = [attempts EXCEPT ![t] = Append(attempts[t], row)]
      <3>1. PICK r : CreateAttempt(w, t, r)
        BY <1>1, <2>1 DEF CreateAttemptAndSubmit, SignTransfer
      <3> QED
        BY <2>1, <3>1 DEF CreateAttempt
    <2>3. CASE attempts' = [attempts EXCEPT ![t] = Append(attempts[t], row)]
      <3>1. row \in Attempts
        BY DEF Attempts, AttemptStatuses
      <3> HIDE DEF row
      <3>2. attempts'[t] = Append(attempts[t], row) /\ attempts[t] \in Seq(Attempts)
        BY <1>a, <2>3
      <3>3. \A k \in 1..Len(attempts[t]) : attempts'[t][k] = attempts[t][k]
        BY <3>1, <3>2, AppendRow
      <3>4. \A u \in Transfers : u # t => attempts'[u] = attempts[u]
        BY <1>a, <2>3
      <3> QED
        BY <1>a, <3>3, <3>4 DEF AttemptsStay
    <2> QED
      BY <1>k, <2>2, <2>3
  <1>2. ASSUME NEW w \in Workers, ResumeSubmission(w)
        PROVE  AttemptsStay
    <2>1. pc[w] \in WithAttempt /\ \E r : UpdateAttempt(w, "SIGNED", "BROADCASTING", r)
      BY <1>2 DEF ResumeSubmission, WithAttempt
    <2>2. "BROADCASTING" \in AttemptStatuses
      BY DEF AttemptStatuses
    <2> QED
      BY <1>u, <2>1, <2>2
  <1>3. ASSUME NEW w \in Workers, RecordBroadcast(w)
        PROVE  AttemptsStay
    <2> DEFINE to == AfterBroadcast(err[w])
    <2>1. pc[w] \in WithAttempt /\ \E r : UpdateAttempt(w, "BROADCASTING", to, r)
      BY <1>3 DEF RecordBroadcast, WithAttempt
    <2>2. to \in AttemptStatuses
      BY DEF AfterBroadcast, AttemptStatuses
    <2> HIDE DEF to
    <2> QED
      BY <1>u, <2>1, <2>2
  <1>4. ASSUME NEW w \in Workers,
               GetByID(w) \/ GetLatestAttempt(w) \/ SignerFails(w) \/ HeartbeatFails(w)
               \/ Shutdown(w) \/ Crash(w) \/ ConnectionLost(w) \/ Finish(w) \/ RetryJob(w)
               \/ FailTransferGet(w) \/ Ack(w) \/ Release(w) \/ BroadcastTransfer(w)
               \/ Advance(w) \/ SubmitBroadcastedAttempt(w) \/ FailTransferSet(w)
               \/ (\E j \in Jobs : HandleDelivery(w, j) \/ AcquireFails(w, j))
        PROVE  AttemptsStay
    BY <1>k, <1>4
    DEF GetByID, GetLatestAttempt, SignerFails, HeartbeatFails, Shutdown, Crash,
        ConnectionLost, Finish, RetryJob, FailTransferGet, Ack, Release, BroadcastTransfer,
        Advance, SubmitBroadcastedAttempt, FailTransferSet, HandleDelivery, AcquireFails,
        dbVars
  <1>5. ASSUME NEW t \in Transfers,
               PublishTransferRequested(t) \/ LockExpires(t) \/ LockLost(t)
        PROVE  AttemptsStay
    BY <1>k, <1>5 DEF PublishTransferRequested, LockExpires, LockLost, dbVars
  <1>6. CASE UNCHANGED vars
    BY <1>k, <1>6 DEF vars, dbVars
  <1> QED
    BY <1>1, <1>2, <1>3, <1>4, <1>5, <1>6 DEF Next, WorkerStep, WorkerEvent

\* The status and the hash of a transfer go forward.
RowsForward ==
    \A t \in Transfers :
        /\ status'[t] # status[t] => <<status[t], status'[t]>> \in AllowedTransitions
        /\ txHash[t] # NoHash => txHash'[t] = txHash[t]

(* A step of the lifecycle goes forward, since the one hash it writes is the  *)
(* transfer's own.                                                            *)
LEMMA RowsStep ==
    ASSUME TypeInv, EvidenceInv, Lifecycle!LifeNext \/ UNCHANGED Lifecycle!lifeVars
    PROVE  RowsForward
  <1>t. /\ status \in [Transfers -> Statuses]
        /\ txHash \in [Transfers -> Transfers \cup {NoHash}]
    BY DEF TypeInv, TypeOK
  <1>m. ASSUME NEW t \in Transfers, NEW s, Lifecycle!Move(t, s),
               <<status[t], s>> \in AllowedTransitions
        PROVE  \A u \in Transfers : status'[u] # status[u] =>
                    <<status[u], status'[u]>> \in AllowedTransitions
    BY <1>t, <1>m DEF Lifecycle!Move
  <1>1. CASE UNCHANGED Lifecycle!lifeVars
    BY <1>1 DEF Lifecycle!lifeVars, RowsForward
  <1>2. ASSUME NEW t \in Transfers, Lifecycle!StepAlongPath(t)
        PROVE  RowsForward
    <2>1. PICK s : <<status[t], s>> \in Lifecycle!PathSteps /\ Lifecycle!Move(t, s)
      BY <1>2 DEF Lifecycle!StepAlongPath
    <2>2. <<status[t], s>> \in AllowedTransitions
      BY <2>1 DEF Lifecycle!PathSteps, AllowedTransitions, Successor
    <2>3. txHash' = txHash
      BY <1>2 DEF Lifecycle!StepAlongPath
    <2> QED
      BY <1>m, <2>1, <2>2, <2>3 DEF RowsForward
  <1>3. ASSUME NEW t \in Transfers, Lifecycle!Accept(t)
        PROVE  RowsForward
    BY <1>3 DEF Lifecycle!Accept, RowsForward
  <1>4. ASSUME NEW t \in Transfers, Lifecycle!Submit(t)
        PROVE  RowsForward
    <2>1. /\ Lifecycle!Move(t, "SUBMITTED") /\ txHash' = [txHash EXCEPT ![t] = t]
          /\ <<status[t], "SUBMITTED">> \in AllowedTransitions
      BY <1>4 DEF Lifecycle!Submit, AllowedTransitions
    <2>2. txHash[t] # NoHash => txHash[t] = t
      BY DEF EvidenceInv, HashesEvident
    <2>3. \A u \in Transfers : txHash[u] # NoHash => txHash'[u] = txHash[u]
      BY <1>t, <2>1, <2>2
    <2> QED
      BY <1>m, <2>1, <2>3 DEF RowsForward
  <1>5. ASSUME NEW t \in Transfers, Lifecycle!GiveUp(t)
        PROVE  RowsForward
    <2>1. /\ Lifecycle!Move(t, "FAILED") /\ txHash' = txHash
          /\ <<status[t], "FAILED">> \in AllowedTransitions
      BY <1>5 DEF Lifecycle!GiveUp, AllowedTransitions, Statuses, Settled
    <2> QED
      BY <1>m, <2>1 DEF RowsForward
  <1> QED
    BY <1>1, <1>2, <1>3, <1>4, <1>5 DEF Lifecycle!LifeNext

(* No step of any worker, stale or not, moves a status other than along the   *)
(* switch of ProcessTransfer, reopens or fails a settled transfer, changes a  *)
(* hash once written or touches an attempt that is over.                      *)
THEOREM NeverBack == Spec => NoRegression
  <1>1. TypeInv /\ EvidenceInv /\ PathInv /\ [Next]_vars => RowsForward /\ AttemptsStay
    BY AttemptsStep, LifeStep, RowsStep
  <1>2. RowsForward /\ AttemptsStay =>
            [\A t \in Transfers :
                /\ status'[t] # status[t]
                        => <<status[t], status'[t]>> \in AllowedTransitions
                /\ txHash[t] # NoHash => txHash'[t] = txHash[t]
                /\ \A i \in DOMAIN attempts[t] :
                        attempts[t][i].status \in {"BROADCASTED", "FAILED"}
                            => attempts'[t][i] = attempts[t][i]]_vars
    BY DEF RowsForward, AttemptsStay
  <1> QED
    BY <1>1, <1>2, PathAlways, PTL DEF Spec, NoRegression

-----------------------------------------------------------------------------
(* Which failures can fail a transfer *)

\* Nothing has failed but locks, connections, publishes and whole workers.
Clean == faults.kinds \subseteq {"lock"}

CleanRows ==
    \A t \in Transfers :
        /\ status[t] # "FAILED"
        /\ \A i \in 1..Len(attempts[t]) : attempts[t][i].status # "FAILED"

\* A worker reaches FailTransfer only with a context that is cancelled, when
\* its retries are used up by lost locks; the read fails then. ProcessTransfer
\* returns an error only for a race that was lost or a context that is gone.
CleanWorker(w) ==
    /\ ctx[w] # "shutdown"
    /\ pc[w] # "failset"
    /\ pc[w] \in {"retry", "failget"} => ctx[w] = "lost"
    /\ pc[w] = "record" => err[w] = "nil"
    /\ pc[w] = "finish" => \/ err[w] \in {"nil", "invalid"}
                           \/ err[w] = "canceled" /\ ctx[w] = "lost"

CleanInv == Clean => CleanRows /\ \A w \in Workers : CleanWorker(w)

(* Failures are remembered. *)
LEMMA CleanBefore ==
    ASSUME Clean', UNCHANGED faults \/ \E k : Fault(k)
    PROVE  Clean
  BY DEF Clean, Fault

(* While the log is clean, none of these calls fails. *)
LEMMA CleanFaults ==
    ASSUME Clean', NEW k \in {"signer", "broadcast", "db", "shutdown"}
    PROVE  ~Fault(k)
  <1> SUFFICES ASSUME Fault(k) PROVE FALSE
    OBVIOUS
  <1>1. k \in {k} \cap Remembered
    BY DEF Remembered
  <1>2. faults'.kinds = faults.kinds \cup ({k} \cap Remembered)
    BY DEF Fault
  <1>3. k \in faults'.kinds
    BY <1>1, <1>2
  <1>4. faults'.kinds \subseteq {"lock"}
    BY DEF Clean
  <1>5. k = "lock"
    BY <1>3, <1>4
  <1> QED
    BY <1>5

(* A repository call fails only when its context is cancelled. *)
LEMMA CleanFails ==
    ASSUME Clean', NEW w, NEW r, Fails(w, r)
    PROVE  r = "canceled" /\ ctx[w] # "live" /\ UNCHANGED faults
  BY CleanFaults DEF Fails

(* Idle workers and new transfers are clean. *)
LEMMA CleanInit == Init => CleanInv
  <1> SUFFICES ASSUME Init PROVE CleanInv
    OBVIOUS
  <1>1. \A w \in Workers : CleanWorker(w)
    BY DEF Init, CleanWorker
  <1>2. CleanRows
    <2>1. \A t \in Transfers : status[t] # "FAILED" /\ attempts[t] = << >>
      BY DEF Init
    <2>2. ASSUME NEW t \in Transfers, NEW i \in 1..Len(attempts[t]) PROVE FALSE
      <3>1. Len(attempts[t]) = 0
        BY <2>1
      <3> QED
        BY <2>2, <3>1
    <2> QED
      BY <2>1, <2>2 DEF CleanRows
  <1> QED
    BY <1>1, <1>2 DEF CleanInv

(* Every step keeps it. *)
LEMMA CleanStep == TypeInv /\ EvidenceInv /\ CleanInv /\ [Next]_vars => CleanInv'
  <1> SUFFICES ASSUME TypeInv, EvidenceInv, CleanInv, [Next]_vars, Clean'
               PROVE  CleanRows' /\ \A w \in Workers : CleanWorker(w)'
    BY DEF CleanInv
  <1>t. LocalType
    BY TypeParts DEF TypeInv
  <1>j. \A w \in Workers : pc[w] # "idle" => job[w].transfer \in Transfers
    BY DEF TypeInv, LocalsOK, Jobs
  <1>f. \A k \in {"signer", "broadcast", "db", "shutdown"} : ~Fault(k)
    BY CleanFaults
  <1>g. \A w, r : Fails(w, r) => r = "canceled" /\ ctx[w] # "live" /\ UNCHANGED faults
    BY CleanFails
  <1>x. \A w \in Workers : ctx[w] \in {"live", "shutdown", "lost"}
    BY <1>t DEF LocalType
  <1>c. ASSUME UNCHANGED faults \/ \E k : Fault(k)
        PROVE  Clean /\ CleanRows /\ \A w \in Workers : CleanWorker(w)
    BY <1>c, CleanBefore DEF CleanInv
  <1>r. ASSUME CleanRows, UNCHANGED <<status, attempts>> PROVE CleanRows'
    BY <1>r DEF CleanRows
  <1>1. ASSUME NEW t \in Transfers,
               PublishTransferRequested(t) \/ LockExpires(t) \/ LockLost(t)
        PROVE  CleanRows' /\ \A w \in Workers : CleanWorker(w)'
    <2>1. UNCHANGED faults \/ \E k : Fault(k)
      BY <1>1 DEF PublishTransferRequested, LockExpires, LockLost
    <2>2. UNCHANGED dbVars /\ UNCHANGED localVars
      BY <1>1 DEF PublishTransferRequested, LockExpires, LockLost
    <2> QED
      BY <1>c, <1>r, <2>1, <2>2 DEF dbVars, localVars, CleanWorker
  <1>2. ASSUME NEW w \in Workers, NEW j \in Jobs, HandleDelivery(w, j) \/ AcquireFails(w, j)
        PROVE  CleanRows' /\ \A v \in Workers : CleanWorker(v)'
    <2>1. UNCHANGED faults \/ \E k : Fault(k)
      BY <1>2 DEF HandleDelivery, AcquireFails
    <2>2. UNCHANGED dbVars
      BY <1>2 DEF HandleDelivery, AcquireFails
    <2>3. \A v \in Workers : CleanWorker(v)'
      BY <1>2, <1>c, <1>t, <2>1
      DEF HandleDelivery, AcquireFails, Goto, localVars, LocalType, CleanWorker
    <2> QED
      BY <1>c, <1>r, <2>1, <2>2, <2>3 DEF dbVars
  <1>3. ASSUME NEW w \in Workers,
               HeartbeatFails(w) \/ Crash(w) \/ ConnectionLost(w) \/ Finish(w)
               \/ RetryJob(w) \/ Ack(w) \/ Release(w) \/ SignerFails(w) \/ Shutdown(w)
        PROVE  CleanRows' /\ \A v \in Workers : CleanWorker(v)'
    <2>0. ~SignerFails(w) /\ ~Shutdown(w)
      BY <1>f DEF SignerFails, Shutdown
    <2>1. UNCHANGED faults \/ \E k : Fault(k)
      BY <1>3, <2>0
      DEF HeartbeatFails, Crash, ConnectionLost, Finish, RetryJob, Ack, Release
    <2>2. UNCHANGED dbVars
      BY <1>3 DEF HeartbeatFails, Crash, ConnectionLost, Finish, RetryJob, Ack, Release,
                  SignerFails, Shutdown
    <2>3. \A v \in Workers : CleanWorker(v)
      BY <1>c, <2>1
    <2>4. CASE HeartbeatFails(w) \/ ConnectionLost(w) \/ Ack(w)
      BY <1>c, <1>r, <1>t, <2>1, <2>2, <2>3, <2>4
      DEF HeartbeatFails, ConnectionLost, Ack, Goto, LocalType, CleanWorker, dbVars
    <2>5. CASE Crash(w) \/ Release(w)
      BY <1>c, <1>r, <1>t, <2>1, <2>2, <2>3, <2>5
      DEF Crash, Release, Idle, LocalType, CleanWorker, dbVars
    <2>6. CASE Finish(w)
      BY <1>c, <1>r, <1>t, <1>x, <2>1, <2>2, <2>3, <2>6
      DEF Finish, Goto, LocalType, CleanWorker, dbVars
    <2>7. CASE RetryJob(w)
      BY <1>c, <1>r, <1>t, <2>1, <2>2, <2>3, <2>7
      DEF RetryJob, Goto, LocalType, CleanWorker, dbVars
    <2> QED
      BY <1>3, <2>0, <2>4, <2>5, <2>6, <2>7
  <1>4. ASSUME NEW w \in Workers, GetByID(w) \/ FailTransferGet(w) \/ BroadcastTransfer(w)
        PROVE  CleanRows' /\ \A v \in Workers : CleanWorker(v)'
    <2>1. UNCHANGED faults
      BY <1>4, <1>f, <1>g DEF GetByID, FailTransferGet, BroadcastTransfer, Replies
    <2>2. UNCHANGED dbVars
      BY <1>4 DEF GetByID, FailTransferGet, BroadcastTransfer
    <2>3. \A v \in Workers : CleanWorker(v)
      BY <1>c, <2>1
    <2>4. CASE GetByID(w)
      BY <1>c, <1>g, <1>r, <1>t, <1>x, <2>1, <2>2, <2>3, <2>4
      DEF GetByID, Replies, Return, Goto, LocalType, CleanWorker, dbVars
    <2>5. CASE FailTransferGet(w)
      BY <1>c, <1>g, <1>r, <1>t, <1>x, <2>1, <2>2, <2>3, <2>5
      DEF FailTransferGet, Replies, Goto, LocalType, CleanWorker, dbVars
    <2>6. CASE BroadcastTransfer(w)
      BY <1>c, <1>f, <1>r, <1>t, <2>1, <2>2, <2>3, <2>6
      DEF BroadcastTransfer, Goto, LocalType, CleanWorker, dbVars
    <2> QED
      BY <1>4, <2>4, <2>5, <2>6
  <1>5. ASSUME NEW w \in Workers, GetLatestAttempt(w)
        PROVE  CleanRows' /\ \A v \in Workers : CleanWorker(v)'
    <2>1. PICK t \in Transfers : t = job[w].transfer
      BY <1>j, <1>5 DEF GetLatestAttempt
    <2> DEFINE n == Len(attempts[t])
               x == attempts[t][n].status
    <2>2. UNCHANGED faults /\ UNCHANGED dbVars /\ UNCHANGED ctx
      BY <1>5, <1>g DEF GetLatestAttempt, Replies
    <2>3. CleanRows /\ \A v \in Workers : CleanWorker(v)
      BY <1>c, <2>2
    <2>4. n > 0 => ResumePoint[x] \in {"resume", "broadcast", "submit"}
      <3>1. attempts[t] \in Seq(Attempts)
        BY DEF TypeInv, TypeOK
      <3>2. n > 0 => attempts[t][n] \in Attempts /\ n \in 1..Len(attempts[t])
        BY <3>1
      <3>3. n > 0 => x \in AttemptStatuses /\ x # "FAILED"
        BY <2>3, <3>2 DEF Attempts, CleanRows
      <3> HIDE DEF x
      <3> QED
        BY <3>3 DEF ResumePoint, AttemptStatuses
    <2>5. \/ Goto(w, "create") /\ UNCHANGED err
          \/ n > 0 /\ Goto(w, ResumePoint[x]) /\ \E e : err' = [err EXCEPT ![w] = e]
          \/ Return(w, "canceled") /\ ctx[w] # "live"
      BY <1>5, <1>g, <2>1 DEF GetLatestAttempt
    <2> HIDE DEF n, x
    <2>6. \A v \in Workers : CleanWorker(v)'
      BY <1>t, <1>x, <2>2, <2>3, <2>4, <2>5 DEF Goto, Return, LocalType, CleanWorker
    <2> QED
      BY <1>r, <2>2, <2>3, <2>6 DEF dbVars
  <1>6. ASSUME NEW w \in Workers, Advance(w) \/ SubmitBroadcastedAttempt(w) \/ FailTransferSet(w)
        PROVE  CleanRows' /\ \A v \in Workers : CleanWorker(v)'
    <2>1. PICK t \in Transfers : t = job[w].transfer
      BY <1>j, <1>6 DEF Advance, SubmitBroadcastedAttempt, FailTransferSet
    <2>2. UNCHANGED faults
      BY <1>6, <1>g
      DEF Advance, SubmitBroadcastedAttempt, FailTransferSet, TransitionStatus, Replies
    <2>3. CleanRows /\ \A v \in Workers : CleanWorker(v)
      BY <1>c, <2>2
    <2>4. ~FailTransferSet(w)
      BY <2>3 DEF FailTransferSet, CleanWorker
    <2>5. \E to, hash, r :
            /\ to # "FAILED"
            /\ TransitionStatus(w, to, hash, r)
            /\ \/ r = "nil" /\ pc'[w] = "process"
               \/ pc'[w] = "finish" /\ err'[w] = r
      <3>1. CASE Advance(w)
        <4>1. Successor[loc[w]] # "FAILED"
          BY <3>1 DEF Advance, Successor
        <4>2. \E r : /\ TransitionStatus(w, Successor[loc[w]], NoHash, r)
                     /\ \/ r = "nil" /\ pc'[w] = "process"
                        \/ pc'[w] = "finish" /\ err'[w] = r
          BY <1>t, <3>1 DEF Advance, Return, Goto, LocalType
        <4> QED
          BY <4>1, <4>2
      <3>2. CASE SubmitBroadcastedAttempt(w)
        BY <1>t, <3>2 DEF SubmitBroadcastedAttempt, Return, Goto, LocalType
      <3> QED
        BY <1>6, <2>4, <3>1, <3>2
    <2>6. PICK to, hash, r :
            /\ to # "FAILED"
            /\ TransitionStatus(w, to, hash, r)
            /\ \/ r = "nil" /\ pc'[w] = "process"
               \/ pc'[w] = "finish" /\ err'[w] = r
      BY <2>5
    <2>7. /\ status' = status \/ status' = [status EXCEPT ![t] = to]
          /\ r \in {"nil", "invalid"} \/ (r = "canceled" /\ ctx[w] # "live")
      BY <1>g, <2>1, <2>6 DEF TransitionStatus
    <2>8. UNCHANGED <<attempts, ctx>>
      BY <1>6 DEF Advance, SubmitBroadcastedAttempt, FailTransferSet
    <2>9. CleanRows'
      <3>1. status \in [Transfers -> Statuses]
        BY DEF TypeInv, TypeOK
      <3> QED
        BY <2>3, <2>6, <2>7, <2>8, <3>1 DEF CleanRows
    <2>10. \A v \in Workers : v # w => pc'[v] = pc[v] /\ err'[v] = err[v]
      BY <1>t, <1>6
      DEF Advance, SubmitBroadcastedAttempt, FailTransferSet, Return, Goto, LocalType
    <2>11. \A v \in Workers : CleanWorker(v)'
      BY <1>x, <2>3, <2>6, <2>7, <2>8, <2>10 DEF CleanWorker
    <2> QED
      BY <2>9, <2>11
  <1>7. ASSUME NEW w \in Workers, CreateAttemptAndSubmit(w)
        PROVE  CleanRows' /\ \A v \in Workers : CleanWorker(v)'
    <2>1. PICK t \in Transfers : t = job[w].transfer
      BY <1>j, <1>7 DEF CreateAttemptAndSubmit
    <2>2. UNCHANGED faults /\ UNCHANGED <<status, ctx>>
      BY <1>7, <1>g DEF CreateAttemptAndSubmit, CreateAttempt, Replies
    <2>3. CleanRows /\ \A v \in Workers : CleanWorker(v)
      BY <1>c, <2>2
    <2> DEFINE row == [status |-> "SIGNED", hash |-> t]
    <2>4. \/ UNCHANGED attempts
          \/ attempts' = [attempts EXCEPT ![t] = Append(attempts[t], row)]
      BY <1>7, <2>1 DEF CreateAttemptAndSubmit, CreateAttempt, SignTransfer
    <2>5. CleanRows'
      <3>1. CASE UNCHANGED attempts
        BY <1>r, <2>2, <2>3, <3>1
      <3>2. CASE attempts' = [attempts EXCEPT ![t] = Append(attempts[t], row)]
        <4>1. attempts \in [Transfers -> Seq(Attempts)]
          BY DEF TypeInv, TypeOK
        <4>2. row \in Attempts /\ row.status = "SIGNED"
          BY DEF Attempts, AttemptStatuses
        <4> HIDE DEF row
        <4>3. attempts'[t] = Append(attempts[t], row) /\ attempts[t] \in Seq(Attempts)
          BY <3>2, <4>1
        <4>4. /\ Len(attempts'[t]) = Len(attempts[t]) + 1 /\ Len(attempts[t]) \in Nat
              /\ attempts'[t][Len(attempts[t]) + 1] = row
              /\ \A k \in 1..Len(attempts[t]) : attempts'[t][k] = attempts[t][k]
          BY <4>2, <4>3, AppendRow
        <4>5. ASSUME NEW i \in 1..Len(attempts'[t])
              PROVE  attempts'[t][i].status # "FAILED"
          <5>1. i \in 1..Len(attempts[t]) \/ i = Len(attempts[t]) + 1
            BY <4>4, <4>5
          <5> QED
            BY <2>3, <4>2, <4>4, <5>1 DEF CleanRows
        <4>6. \A u \in Transfers : u # t => attempts'[u] = attempts[u]
          BY <3>2, <4>1
        <4> QED
          BY <2>2, <2>3, <4>5, <4>6 DEF CleanRows
      <3> QED
        BY <2>4, <3>1, <3>2
    <2>6. /\ \A v \in Workers : v # w => pc'[v] = pc[v] /\ err'[v] = err[v]
          /\ \/ pc'[w] \in {"resume", "latest"}
             \/ pc'[w] = "finish" /\ err'[w] = "canceled" /\ ctx[w] # "live"
      BY <1>t, <1>7, <1>g
      DEF CreateAttemptAndSubmit, CreateAttempt, Return, Goto, LocalType
    <2>7. \A v \in Workers : CleanWorker(v)'
      BY <1>x, <2>2, <2>3, <2>6 DEF CleanWorker
    <2> QED
      BY <2>5, <2>7
  <1>8. ASSUME NEW w \in Workers, ResumeSubmission(w) \/ RecordBroadcast(w)
        PROVE  CleanRows' /\ \A v \in Workers : CleanWorker(v)'
    <2>1. PICK t \in Transfers : t = job[w].transfer
      BY <1>j, <1>8 DEF ResumeSubmission, RecordBroadcast
    <2>2. UNCHANGED faults /\ UNCHANGED <<status, ctx>>
      BY <1>8, <1>g DEF ResumeSubmission, RecordBroadcast, UpdateAttempt, Replies
    <2>3. CleanRows /\ \A v \in Workers : CleanWorker(v)
      BY <1>c, <2>2
    <2>4. pc[w] \in WithAttempt /\ (pc[w] = "record" => err[w] = "nil")
      BY <1>8, <2>3 DEF ResumeSubmission, RecordBroadcast, WithAttempt, CleanWorker
    <2>5. PICK from \in AttemptStatuses, to \in {"BROADCASTING", "BROADCASTED"},
               r \in Errors :
            /\ UpdateAttempt(w, from, to, r)
            /\ \/ r \in {"nil", "conflict"} /\ pc'[w] \in {"broadcast", "latest", "submit"}
               \/ r \notin {"nil", "conflict"} /\ pc'[w] = "finish" /\ err'[w] = r
      <3>1. CASE ResumeSubmission(w)
        <4>1. PICK r \in Errors :
                /\ UpdateAttempt(w, "SIGNED", "BROADCASTING", r)
                /\ \/ r = "nil" /\ Goto(w, "broadcast")
                   \/ r = "conflict" /\ Goto(w, "latest")
                   \/ r \notin {"nil", "conflict"} /\ Return(w, r)
          BY <3>1 DEF ResumeSubmission
        <4>2. \/ r \in {"nil", "conflict"} /\ pc'[w] \in {"broadcast", "latest", "submit"}
              \/ r \notin {"nil", "conflict"} /\ pc'[w] = "finish" /\ err'[w] = r
          BY <1>t, <4>1 DEF Return, Goto, LocalType
        <4>3. "SIGNED" \in AttemptStatuses
          BY DEF AttemptStatuses
        <4> QED
          BY <4>1, <4>2, <4>3
      <3>2. CASE RecordBroadcast(w)
        <4>1. AfterBroadcast(err[w]) = "BROADCASTED"
          BY <2>4, <3>2 DEF RecordBroadcast, AfterBroadcast
        <4>2. "BROADCASTING" \in AttemptStatuses
          BY DEF AttemptStatuses
        <4>3. PICK r \in Errors :
                /\ UpdateAttempt(w, "BROADCASTING", "BROADCASTED", r)
                /\ \/ r \in {"nil", "conflict"} /\ pc'[w] \in {"broadcast", "latest", "submit"}
                   \/ r \notin {"nil", "conflict"} /\ pc'[w] = "finish" /\ err'[w] = r
          BY <1>t, <2>4, <3>2, <4>1 DEF RecordBroadcast, Return, Goto, LocalType
        <4> QED
          BY <4>2, <4>3
      <3> QED
        BY <1>8, <3>1, <3>2
    <2>6. CleanRows'
      <3>1. to \in AttemptStatuses
        BY <2>5 DEF AttemptStatuses
      <3>2. /\ \A u \in Transfers : Len(attempts'[u]) = Len(attempts[u])
            /\ \/ UNCHANGED attempts
               \/ /\ attempts'[t][att[w]] = [status |-> to, hash |-> attempts[t][att[w]].hash]
                  /\ \A k \in 1..Len(attempts[t]) :
                        k # att[w] => attempts'[t][k] = attempts[t][k]
                  /\ \A u \in Transfers : u # t => attempts'[u] = attempts[u]
        BY <2>1, <2>4, <2>5, <3>1, UpdateAttemptEffect
      <3>3. to # "FAILED"
        BY <2>5
      <3> QED
        BY <1>r, <2>2, <2>3, <3>2, <3>3 DEF CleanRows
    <2>7. r \notin {"nil", "conflict"} => r = "canceled" /\ ctx[w] # "live"
      BY <1>g, <2>5 DEF UpdateAttempt
    <2>8. \A v \in Workers : v # w => pc'[v] = pc[v] /\ err'[v] = err[v]
      BY <1>t, <1>8 DEF ResumeSubmission, RecordBroadcast, Return, Goto, LocalType
    <2>9. \A v \in Workers : CleanWorker(v)'
      BY <1>x, <2>2, <2>3, <2>5, <2>7, <2>8 DEF CleanWorker
    <2> QED
      BY <2>6, <2>9
  <1>9. CASE UNCHANGED vars
    BY <1>9, <1>c, <1>r DEF vars, dbVars, localVars, CleanWorker
  <1> QED
    BY <1>1, <1>2, <1>3, <1>4, <1>5, <1>6, <1>7, <1>8, <1>9
    DEF Next, WorkerStep, WorkerEvent

(* Lost locks, connections, publishes and workers, however many and in        *)
(* whatever order, never mark a transfer FAILED (the error switch of          *)
(* handleDelivery, retryJob and FailTransfer).                                *)
THEOREM InfrastructureHarmless == Spec => []InfrastructureNeverFailsTransfer
  <1>1. CleanInv => InfrastructureNeverFailsTransfer
    BY DEF CleanInv, Clean, CleanRows, InfrastructureNeverFailsTransfer
  <1> QED
    BY <1>1, EvidenceAlways, CleanInit, CleanStep, PTL DEF Spec
=============================================================================
