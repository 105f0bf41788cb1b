------------------------ MODULE TransferOutboxProofs ------------------------
(***************************************************************************)
(* Theorems about TransferOutbox, for any keys, requests and dispatchers,   *)
(* all kinds of failure and any bounds. The marks of a dispatcher are not   *)
(* fenced: what protects the rows is that no step of a dispatcher that has  *)
(* lost its claim can do harm, which is what the invariant says.            *)
(***************************************************************************)
EXTENDS TransferOutbox, TLAPS

-----------------------------------------------------------------------------
(* The inductive invariant *)

(* The transfer and its outbox row are created together, once per key. *)
RowsCreated ==
    /\ \A t \in Requests : t \in transfers <=> status[t] # "NONE"
    /\ \A t, u \in transfers : t[1] = u[1] => t = u

(* A client is told of committed transfers of its own key only. *)
RepliesFounded ==
    \A r \in Requests : reply[r] # NoReply =>
        reply[r] \in transfers /\ reply[r][1] = r[1]

(* A row that is being processed has a lock to go stale. *)
LocksSet == \A t \in Requests : status[t] = "PROCESSING" => locked[t] # "none"

(* What a dispatcher has in hand is the row of a committed transfer. *)
ClaimsFounded ==
    \A d \in Dispatchers :
        /\ \A e \in batch[d] : e.id \in transfers
        /\ pc[d] \in {"dispatched", "retry"} =>
                event[d] \in Events /\ event[d].id \in transfers

OutboxInv ==
    TypeOK /\ RowsCreated /\ RepliesFounded /\ LocksSet /\ ClaimsFounded

(* With a broker that keeps what it was given, a dispatcher about to mark a   *)
(* row DISPATCHED has published it.                                           *)
PublishedInv ==
    "unconfirmed" \notin Faults =>
        /\ \A t \in Requests : status[t] = "DISPATCHED" => t \in delivered
        /\ \A d \in Dispatchers :
                pc[d] = "dispatched" => event[d].id \in delivered

-----------------------------------------------------------------------------
(* Initially *)

(* The invariant holds of empty tables and idle dispatchers. *)
LEMMA OutboxInit == Init => OutboxInv /\ PublishedInv
  <1> SUFFICES ASSUME Init PROVE OutboxInv /\ PublishedInv
    OBVIOUS
  <1>1. TypeOK
    <2>1. 0 \in Nat /\ 0 \in 0..MaxFaults
      BY OutboxAssumption
    <2> QED
      BY <2>1, Zenon DEF Init, TypeOK, Statuses
  <1>2. RowsCreated /\ RepliesFounded /\ LocksSet /\ ClaimsFounded
    BY DEF Init, RowsCreated, RepliesFounded, LocksSet, ClaimsFounded
  <1>3. PublishedInv
    BY DEF Init, PublishedInv
  <1> QED
    BY <1>1, <1>2, <1>3 DEF OutboxInv

-----------------------------------------------------------------------------
(* What the actions do *)

(* A failure stays within the budget. *)
LEMMA FaultBudget ==
    ASSUME faults \in 0..MaxFaults, NEW k, Fault(k)
    PROVE  faults' \in 0..MaxFaults
  BY OutboxAssumption DEF Fault

(* An insert makes the key's first transfer and its row. *)
LEMMA InsertEffect ==
    ASSUME OutboxInv, NEW r \in Requests, Existing(r) = {}, InsertTransfer(r)
    PROVE  /\ r \notin transfers
           /\ transfers' = transfers \cup {r}
           /\ status' \in [Requests -> Statuses]
           /\ due' \in [Requests -> BOOLEAN]
           /\ UNCHANGED <<attemptCount, locked>>
           /\ status[r] = "NONE" /\ status'[r] = "PENDING"
           /\ \A t \in Requests : t # r => status'[t] = status[t]
           /\ \A t \in transfers : t[1] # r[1]
  BY DEF OutboxInv, TypeOK, RowsCreated, Existing, InsertTransfer, Statuses

(* A mark of either kind moves one committed row, or none. *)
LEMMA MarkEffect ==
    ASSUME OutboxInv, NEW d \in Dispatchers,
           MarkOutboxDispatched(d) \/ MarkOutboxRetry(d)
    PROVE  LET t == event[d].id
           IN  /\ t \in Requests /\ t \in transfers
               /\ status' \in [Requests -> Statuses]
               /\ attemptCount' \in [Requests -> Nat]
               /\ locked' \in [Requests -> {"none", "fresh", "stale"}]
               /\ due' \in [Requests -> BOOLEAN]
               /\ \A u \in Requests : attemptCount'[u] >= attemptCount[u]
               /\ \A u \in Requests : status'[u] # status[u] =>
                    /\ u = t
                    /\ status[u] # "DISPATCHED"
                    /\ status'[u] \in {"RETRY", "DISPATCHED"}
               /\ \A u \in Requests : locked'[u] # locked[u] =>
                    status'[u] \in {"RETRY", "DISPATCHED"}
               /\ status'[t] = "DISPATCHED" =>
                    status[t] = "DISPATCHED" \/ pc[d] = "dispatched"
               /\ NextEvent(d) /\ UNCHANGED faults
  <1> DEFINE t == event[d].id
             n == GREATEST(attemptCount[t], event[d].count + 1)
  <1>t. TypeOK
    BY DEF OutboxInv
  <1>1. pc[d] \in {"dispatched", "retry"}
    BY DEF MarkOutboxDispatched, MarkOutboxRetry
  <1>2. event[d] \in Events /\ t \in transfers
    BY <1>1 DEF OutboxInv, ClaimsFounded
  <1>3. t \in Requests /\ event[d].count \in Nat
    BY <1>2 DEF Events
  <1>4. attemptCount[t] \in Nat
    BY <1>t, <1>3 DEF TypeOK
  <1>5. n \in Nat /\ n >= attemptCount[t]
    BY <1>3, <1>4 DEF GREATEST
  <1> HIDE DEF n
  <1>6. CASE UNCHANGED rowVars /\ NextEvent(d) /\ UNCHANGED faults
    <2>1. \A u \in Requests : attemptCount[u] >= attemptCount[u]
      BY <1>t DEF TypeOK
    <2> QED
      BY <1>t, <1>2, <1>3, <1>6, <2>1 DEF rowVars, TypeOK
  <1>7. CASE /\ MarkOutboxDispatched(d)
             /\ status[t] # "DISPATCHED"
    <2>1. /\ status' = [status EXCEPT ![t] = "DISPATCHED"]
          /\ attemptCount' = [attemptCount EXCEPT ![t] = n]
          /\ locked' = [locked EXCEPT ![t] = "none"]
          /\ pc[d] = "dispatched"
          /\ NextEvent(d) /\ UNCHANGED <<due, faults>>
      BY <1>7 DEF MarkOutboxDispatched, n
    <2> QED
      BY <1>t, <1>2, <1>3, <1>5, <1>7, <2>1 DEF TypeOK, Statuses
  <1>8. CASE /\ MarkOutboxRetry(d)
             /\ status[t] # "DISPATCHED"
    <2>1. /\ status' = [status EXCEPT ![t] = "RETRY"]
          /\ attemptCount' = [attemptCount EXCEPT ![t] = n]
          /\ due' = [due EXCEPT ![t] = FALSE]
          /\ locked' = [locked EXCEPT ![t] = "none"]
          /\ NextEvent(d) /\ UNCHANGED faults
      BY <1>8 DEF MarkOutboxRetry, n
    <2> QED
      BY <1>t, <1>2, <1>3, <1>5, <1>8, <2>1 DEF TypeOK, Statuses
  <1>9. \/ UNCHANGED rowVars /\ NextEvent(d) /\ UNCHANGED faults
        \/ MarkOutboxDispatched(d) /\ status[t] # "DISPATCHED"
        \/ MarkOutboxRetry(d) /\ status[t] # "DISPATCHED"
    BY DEF MarkOutboxDispatched, MarkOutboxRetry, rowVars
  <1> QED
    BY <1>6, <1>7, <1>8, <1>9

(* A claim takes rows of committed transfers that are not dispatched. *)
LEMMA ClaimEffect ==
    ASSUME OutboxInv, NEW d \in Dispatchers, ClaimPendingOutbox(d)
    PROVE  /\ status' \in [Requests -> Statuses]
           /\ locked' \in [Requests -> {"none", "fresh", "stale"}]
           /\ batch' \in [Dispatchers -> SUBSET Events]
           /\ \A t \in Requests :
                \/ status'[t] = status[t] /\ locked'[t] = locked[t]
                \/ /\ t \in transfers
                   /\ status[t] # "DISPATCHED"
                   /\ status'[t] = "PROCESSING" /\ locked'[t] = "fresh"
           /\ \A e \in batch'[d] : e.id \in transfers
           /\ \A c \in Dispatchers : c # d => batch'[c] = batch[c]
  <1>t. TypeOK
    BY DEF OutboxInv
  <1>1. PICK S \in SUBSET Claimable :
            /\ status' = [t \in Requests |-> IF t \in S THEN "PROCESSING" ELSE status[t]]
            /\ locked' = [t \in Requests |-> IF t \in S THEN "fresh" ELSE locked[t]]
            /\ batch' = [batch EXCEPT ![d] =
                            {[id |-> t, count |-> attemptCount[t]] : t \in S}]
    BY DEF ClaimPendingOutbox
  <1>2. \A t \in S : t \in Requests /\ t \in transfers /\ status[t] # "DISPATCHED"
    BY DEF Claimable, OutboxInv, RowsCreated
  <1>3. status' \in [Requests -> Statuses] /\ locked' \in [Requests -> {"none", "fresh", "stale"}]
    BY <1>t, <1>1 DEF TypeOK, Statuses
  <1>4. \A t \in S : [id |-> t, count |-> attemptCount[t]] \in Events
    BY <1>t, <1>2 DEF TypeOK, Events
  <1>5. batch' \in [Dispatchers -> SUBSET Events]
    BY <1>t, <1>1, <1>4 DEF TypeOK
  <1>6. batch'[d] = {[id |-> t, count |-> attemptCount[t]] : t \in S}
    BY <1>t, <1>1 DEF TypeOK
  <1>7. \A e \in batch'[d] : e.id \in transfers
    BY <1>2, <1>6
  <1> QED
    BY <1>t, <1>1, <1>2, <1>3, <1>5, <1>7 DEF TypeOK

-----------------------------------------------------------------------------
(* Every step *)

(* The invariant survives a step that leaves the tables and the dispatchers   *)
(* alone, or only drops what a dispatcher has in hand.                        *)
LEMMA OutboxFrame ==
    ASSUME OutboxInv, UNCHANGED <<transfers, reply>>, UNCHANGED rowVars,
           delivered' \subseteq Requests, faults' \in 0..MaxFaults,
           pc' \in [Dispatchers -> {"poll", "next", "dispatched", "retry"}],
           batch' \in [Dispatchers -> SUBSET Events],
           event' \in [Dispatchers -> Events \cup {NoEvent}],
           \A d \in Dispatchers :
                /\ batch'[d] \subseteq batch[d]
                /\ pc'[d] \in {"dispatched", "retry"} =>
                        \/ pc'[d] = pc[d] /\ event'[d] = event[d]
                        \/ event'[d] \in batch[d]
    PROVE  OutboxInv'
  <1>1. TypeOK'
    BY DEF OutboxInv, TypeOK, rowVars
  <1>2. RowsCreated' /\ RepliesFounded' /\ LocksSet'
    BY DEF OutboxInv, RowsCreated, RepliesFounded, LocksSet, rowVars
  <1>3. \A d \in Dispatchers : batch[d] \subseteq Events
    BY DEF OutboxInv, TypeOK
  <1>4. ClaimsFounded'
    BY <1>3 DEF OutboxInv, ClaimsFounded
  <1> QED
    BY <1>1, <1>2, <1>4 DEF OutboxInv

(* After a mark, good or failed, the dispatcher has no event in hand. *)
LEMMA NextEventType ==
    ASSUME TypeOK, NEW d \in Dispatchers, NextEvent(d)
    PROVE  /\ pc' \in [Dispatchers -> {"poll", "next", "dispatched", "retry"}]
           /\ event' \in [Dispatchers -> Events \cup {NoEvent}]
           /\ UNCHANGED <<transfers, reply, delivered, batch>>
           /\ pc'[d] \in {"poll", "next"}
           /\ \A c \in Dispatchers : c # d => pc'[c] = pc[c] /\ event'[c] = event[c]
  BY DEF TypeOK, NextEvent

(* The invariant is inductive: one case per action. *)
LEMMA OutboxStep == OutboxInv /\ [Next]_vars => OutboxInv'
  <1> SUFFICES ASSUME OutboxInv, [Next]_vars PROVE OutboxInv'
    OBVIOUS
  <1>t. TypeOK /\ RowsCreated /\ RepliesFounded /\ LocksSet /\ ClaimsFounded
    BY DEF OutboxInv
  <1>f. \A k : Fault(k) => faults' \in 0..MaxFaults
    BY <1>t, FaultBudget DEF TypeOK
  <1>1. ASSUME NEW r \in Requests, Create(r)
        PROVE  OutboxInv'
    <2>1. UNCHANGED <<delivered, dispatcherVars>> /\ faults' \in 0..MaxFaults
      BY <1>t, <1>f, <1>1 DEF Create, TypeOK
    <2>2. CASE UNCHANGED <<transfers, rowVars, reply>>
      BY <1>t, <2>1, <2>2, OutboxFrame DEF TypeOK, dispatcherVars
    <2>3. CASE UNCHANGED <<transfers, rowVars>>
               /\ \E t \in Existing(r) : reply' = [reply EXCEPT ![r] = t]
      <3>1. PICK t \in Existing(r) : reply' = [reply EXCEPT ![r] = t]
        BY <2>3
      <3>2. t \in transfers /\ t \in Requests /\ t[1] = r[1]
        BY <1>t DEF Existing, TypeOK
      <3>3. TypeOK'
        BY <1>t, <2>1, <2>3, <3>1, <3>2 DEF TypeOK, rowVars, dispatcherVars
      <3>4. RepliesFounded'
        BY <1>t, <2>3, <3>1, <3>2 DEF TypeOK, RepliesFounded
      <3>5. RowsCreated' /\ LocksSet' /\ ClaimsFounded'
        BY <1>t, <2>1, <2>3
        DEF RowsCreated, LocksSet, ClaimsFounded, rowVars, dispatcherVars
      <3> QED
        BY <3>3, <3>4, <3>5 DEF OutboxInv
    <2>4. CASE /\ Existing(r) = {} /\ InsertTransfer(r)
               /\ reply' = reply \/ reply' = [reply EXCEPT ![r] = r]
      <3>1. /\ r \notin transfers
            /\ transfers' = transfers \cup {r}
            /\ status' \in [Requests -> Statuses]
            /\ due' \in [Requests -> BOOLEAN]
            /\ UNCHANGED <<attemptCount, locked>>
            /\ status[r] = "NONE" /\ status'[r] = "PENDING"
            /\ \A t \in Requests : t # r => status'[t] = status[t]
            /\ \A t \in transfers : t[1] # r[1]
        BY <2>4, InsertEffect
      <3>2. TypeOK'
        BY <1>t, <2>1, <2>4, <3>1 DEF TypeOK, dispatcherVars
      <3>3. RowsCreated'
        BY <1>t, <3>1 DEF TypeOK, RowsCreated
      <3>4. RepliesFounded'
        BY <1>t, <2>4, <3>1 DEF TypeOK, RepliesFounded
      <3>5. LocksSet' /\ ClaimsFounded'
        BY <1>t, <2>1, <3>1 DEF LocksSet, ClaimsFounded, dispatcherVars
      <3> QED
        BY <3>2, <3>3, <3>4, <3>5 DEF OutboxInv
    <2> QED
      BY <1>1, <2>2, <2>3, <2>4 DEF Create
  <1>2. ASSUME NEW t \in Requests, BecomesDue(t) \/ BecomesStale(t)
        PROVE  OutboxInv'
    <2>1. /\ UNCHANGED <<transfers, reply, status, attemptCount, delivered, dispatcherVars>>
          /\ due' \in [Requests -> BOOLEAN]
          /\ locked' \in [Requests -> {"none", "fresh", "stale"}]
          /\ faults' \in 0..MaxFaults
          /\ \A u \in Requests : locked[u] # "none" => locked'[u] # "none"
      BY <1>t, <1>f, <1>2 DEF BecomesDue, BecomesStale, TypeOK
    <2>2. TypeOK'
      BY <1>t, <2>1 DEF TypeOK, dispatcherVars
    <2>3. RowsCreated' /\ RepliesFounded' /\ LocksSet' /\ ClaimsFounded'
      BY <1>t, <2>1
      DEF RowsCreated, RepliesFounded, LocksSet, ClaimsFounded, dispatcherVars
    <2> QED
      BY <2>2, <2>3 DEF OutboxInv
  <1>3. ASSUME NEW d \in Dispatchers, ClaimPendingOutbox(d)
        PROVE  OutboxInv'
    <2>1. /\ UNCHANGED <<transfers, reply, attemptCount, due, delivered, event, faults>>
          /\ pc[d] = "poll" /\ pc' = [pc EXCEPT ![d] = "next"]
      BY <1>3 DEF ClaimPendingOutbox
    <2>2. TypeOK'
      BY <1>t, <1>3, <2>1, ClaimEffect DEF TypeOK
    <2>3. RowsCreated' /\ RepliesFounded' /\ LocksSet'
      <3>1. \A t \in Requests :
                \/ status'[t] = status[t] /\ locked'[t] = locked[t]
                \/ /\ t \in transfers
                   /\ status'[t] = "PROCESSING" /\ locked'[t] = "fresh"
        BY <1>3, ClaimEffect
      <3> QED
        BY <1>t, <2>1, <3>1 DEF RowsCreated, RepliesFounded, LocksSet
    <2>4. ClaimsFounded'
      <3>1. /\ \A e \in batch'[d] : e.id \in transfers
            /\ \A c \in Dispatchers : c # d => batch'[c] = batch[c]
        BY <1>3, ClaimEffect
      <3>2. \A c \in Dispatchers : c # d => pc'[c] = pc[c]
        BY <1>t, <2>1 DEF TypeOK
      <3>3. pc'[d] = "next"
        BY <1>t, <2>1 DEF TypeOK
      <3> QED
        BY <1>t, <2>1, <3>1, <3>2, <3>3 DEF ClaimsFounded
    <2> QED
      BY <2>2, <2>3, <2>4 DEF OutboxInv
  <1>4. ASSUME NEW d \in Dispatchers, PublishEvent(d)
        PROVE  OutboxInv'
    <2>1. PICK e \in batch[d] :
            /\ event' = [event EXCEPT ![d] = e]
            /\ batch' = [batch EXCEPT ![d] = @ \ {e}]
            /\ \/ /\ delivered' = delivered \cup {e.id}
                  /\ pc' = [pc EXCEPT ![d] = "dispatched"]
                  /\ UNCHANGED faults
               \/ /\ Fault("broker")
                  /\ delivered' \in {delivered, delivered \cup {e.id}}
                  /\ pc' = [pc EXCEPT ![d] = "retry"]
               \/ /\ Fault("unconfirmed")
                  /\ pc' = [pc EXCEPT ![d] = "dispatched"]
                  /\ UNCHANGED delivered
      BY <1>4 DEF PublishEvent
    <2>2. e \in Events /\ e.id \in Requests
      BY <1>t DEF TypeOK, Events
    <2>3. /\ UNCHANGED <<transfers, reply>> /\ UNCHANGED rowVars
          /\ delivered' \subseteq Requests /\ faults' \in 0..MaxFaults
      BY <1>t, <1>f, <1>4, <2>1, <2>2 DEF PublishEvent, TypeOK
    <2>4. /\ pc' \in [Dispatchers -> {"poll", "next", "dispatched", "retry"}]
          /\ batch' \in [Dispatchers -> SUBSET Events]
          /\ event' \in [Dispatchers -> Events \cup {NoEvent}]
      BY <1>t, <2>1, <2>2 DEF TypeOK
    <2>5. \A c \in Dispatchers :
            /\ batch'[c] \subseteq batch[c]
            /\ c # d => pc'[c] = pc[c] /\ event'[c] = event[c]
            /\ c = d => event'[c] \in batch[c]
      BY <1>t, <2>1 DEF TypeOK
    <2> QED
      BY <2>3, <2>4, <2>5, OutboxFrame
  <1>5. ASSUME NEW d \in Dispatchers,
               MarkOutboxDispatched(d) \/ MarkOutboxRetry(d)
        PROVE  OutboxInv'
    <2> DEFINE t == event[d].id
    <2>1. /\ t \in Requests /\ t \in transfers
          /\ status' \in [Requests -> Statuses]
          /\ attemptCount' \in [Requests -> Nat]
          /\ locked' \in [Requests -> {"none", "fresh", "stale"}]
          /\ due' \in [Requests -> BOOLEAN]
          /\ \A u \in Requests : status'[u] # status[u] =>
                u = t /\ status'[u] \in {"RETRY", "DISPATCHED"}
          /\ \A u \in Requests : locked'[u] # locked[u] =>
                status'[u] \in {"RETRY", "DISPATCHED"}
          /\ NextEvent(d) /\ UNCHANGED faults
      BY <1>5, MarkEffect
    <2>2. /\ pc' \in [Dispatchers -> {"poll", "next", "dispatched", "retry"}]
          /\ event' \in [Dispatchers -> Events \cup {NoEvent}]
          /\ UNCHANGED <<transfers, reply, delivered, batch>>
          /\ pc'[d] \in {"poll", "next"}
          /\ \A c \in Dispatchers : c # d => pc'[c] = pc[c] /\ event'[c] = event[c]
      BY <1>t, <2>1, NextEventType
    <2>3. TypeOK'
      BY <1>t, <2>1, <2>2 DEF TypeOK
    <2>4. RowsCreated' /\ RepliesFounded'
      BY <1>t, <2>1, <2>2 DEF RowsCreated, RepliesFounded
    <2>5. LocksSet'
      BY <1>t, <2>1, <2>2 DEF LocksSet
    <2>6. ClaimsFounded'
      BY <1>t, <2>2 DEF ClaimsFounded
    <2> QED
      BY <2>3, <2>4, <2>5, <2>6 DEF OutboxInv
  <1>6. ASSUME NEW d \in Dispatchers, MarkFails(d)
        PROVE  OutboxInv'
    <2>1. /\ NextEvent(d) /\ UNCHANGED rowVars /\ faults' \in 0..MaxFaults
      BY <1>f, <1>6 DEF MarkFails
    <2>2. /\ pc' \in [Dispatchers -> {"poll", "next", "dispatched", "retry"}]
          /\ event' \in [Dispatchers -> Events \cup {NoEvent}]
          /\ UNCHANGED <<transfers, reply, delivered, batch>>
          /\ pc'[d] \in {"poll", "next"}
          /\ \A c \in Dispatchers : c # d => pc'[c] = pc[c] /\ event'[c] = event[c]
      BY <1>t, <2>1, NextEventType
    <2> QED
      BY <1>t, <2>1, <2>2, OutboxFrame DEF TypeOK
  <1>7. ASSUME NEW d \in Dispatchers, Crash(d)
        PROVE  OutboxInv'
    <2>1. /\ UNCHANGED <<transfers, reply>> /\ UNCHANGED rowVars /\ UNCHANGED delivered
          /\ faults' \in 0..MaxFaults
          /\ pc' = [pc EXCEPT ![d] = "poll"]
          /\ batch' = [batch EXCEPT ![d] = {}]
          /\ event' = [event EXCEPT ![d] = NoEvent]
      BY <1>f, <1>7 DEF Crash
    <2>2. /\ pc' \in [Dispatchers -> {"poll", "next", "dispatched", "retry"}]
          /\ batch' \in [Dispatchers -> SUBSET Events]
          /\ event' \in [Dispatchers -> Events \cup {NoEvent}]
      BY <1>t, <2>1 DEF TypeOK
    <2>3. \A c \in Dispatchers :
            /\ batch'[c] \subseteq batch[c]
            /\ c # d => pc'[c] = pc[c] /\ event'[c] = event[c]
            /\ c = d => pc'[c] = "poll"
      BY <1>t, <2>1 DEF TypeOK
    <2> QED
      BY <1>t, <2>1, <2>2, <2>3, OutboxFrame DEF TypeOK
  <1>8. CASE UNCHANGED vars
    BY <1>t, <1>8, OutboxFrame DEF vars, dispatcherVars, TypeOK
  <1> QED
    BY <1>1, <1>2, <1>3, <1>4, <1>5, <1>6, <1>7, <1>8 DEF Next, DispatcherStep

(* No step marks a row DISPATCHED that was not published: the marks keep what *)
(* PublishEvent established.                                                  *)
LEMMA PublishedStep == OutboxInv /\ PublishedInv /\ [Next]_vars => PublishedInv'
  <1> SUFFICES ASSUME OutboxInv, [Next]_vars, "unconfirmed" \notin Faults,
                      \A t \in Requests : status[t] = "DISPATCHED" => t \in delivered,
                      \A d \in Dispatchers :
                            pc[d] = "dispatched" => event[d].id \in delivered
               PROVE  /\ \A t \in Requests : status'[t] = "DISPATCHED" => t \in delivered'
                      /\ \A d \in Dispatchers :
                            pc'[d] = "dispatched" => event'[d].id \in delivered'
    BY DEF PublishedInv
  <1>t. TypeOK
    BY DEF OutboxInv
  <1>1. ASSUME NEW r \in Requests, Create(r)
        PROVE  /\ \A t \in Requests : status'[t] = "DISPATCHED" => status[t] = "DISPATCHED"
               /\ UNCHANGED <<delivered, dispatcherVars>>
    BY <1>t, <1>1 DEF Create, InsertTransfer, TypeOK, rowVars
  <1>2. ASSUME NEW t \in Requests, BecomesDue(t) \/ BecomesStale(t)
        PROVE  UNCHANGED <<status, delivered, dispatcherVars>>
    BY <1>2 DEF BecomesDue, BecomesStale
  <1>3. ASSUME NEW d \in Dispatchers, ClaimPendingOutbox(d)
        PROVE  /\ \A t \in Requests : status'[t] = "DISPATCHED" => status[t] = "DISPATCHED"
               /\ UNCHANGED <<delivered, event>>
               /\ \A c \in Dispatchers : pc'[c] = "dispatched" => pc[c] = "dispatched"
    <2>1. \A t \in Requests : status'[t] = "DISPATCHED" => status[t] = "DISPATCHED"
      BY <1>3, ClaimEffect
    <2> QED
      BY <1>t, <1>3, <2>1 DEF ClaimPendingOutbox, TypeOK
  <1>4. ASSUME NEW d \in Dispatchers, PublishEvent(d)
        PROVE  /\ UNCHANGED status
               /\ delivered \subseteq delivered'
               /\ \A c \in Dispatchers : pc'[c] = "dispatched" =>
                    \/ pc[c] = "dispatched" /\ event'[c] = event[c]
                    \/ event'[c].id \in delivered'
    <2>1. PICK e \in batch[d] :
            /\ event' = [event EXCEPT ![d] = e]
            /\ \/ /\ delivered' = delivered \cup {e.id}
                  /\ pc' = [pc EXCEPT ![d] = "dispatched"]
               \/ /\ delivered' \in {delivered, delivered \cup {e.id}}
                  /\ pc' = [pc EXCEPT ![d] = "retry"]
      BY <1>4 DEF PublishEvent, Fault
    <2> QED
      BY <1>t, <1>4, <2>1 DEF PublishEvent, TypeOK, rowVars
  <1>5. ASSUME NEW d \in Dispatchers,
               MarkOutboxDispatched(d) \/ MarkOutboxRetry(d)
        PROVE  /\ \A t \in Requests : status'[t] = "DISPATCHED" => t \in delivered
               /\ UNCHANGED delivered
               /\ \A c \in Dispatchers : pc'[c] = "dispatched" =>
                    pc[c] = "dispatched" /\ event'[c] = event[c]
    <2>1. /\ \A u \in Requests : status'[u] # status[u] => u = event[d].id
          /\ status'[event[d].id] = "DISPATCHED" =>
                status[event[d].id] = "DISPATCHED" \/ pc[d] = "dispatched"
          /\ NextEvent(d)
      BY <1>5, MarkEffect
    <2>2. /\ UNCHANGED delivered
          /\ pc'[d] \in {"poll", "next"}
          /\ \A c \in Dispatchers : c # d => pc'[c] = pc[c] /\ event'[c] = event[c]
      BY <1>t, <2>1, NextEventType
    <2> QED
      BY <2>1, <2>2
  <1>6. ASSUME NEW d \in Dispatchers, MarkFails(d)
        PROVE  /\ UNCHANGED <<status, delivered>>
               /\ \A c \in Dispatchers : pc'[c] = "dispatched" =>
                    pc[c] = "dispatched" /\ event'[c] = event[c]
    <2>1. NextEvent(d) /\ UNCHANGED rowVars
      BY <1>6 DEF MarkFails
    <2>2. /\ UNCHANGED delivered
          /\ pc'[d] \in {"poll", "next"}
          /\ \A c \in Dispatchers : c # d => pc'[c] = pc[c] /\ event'[c] = event[c]
      BY <1>t, <2>1, NextEventType
    <2> QED
      BY <2>1, <2>2 DEF rowVars
  <1>7. ASSUME NEW d \in Dispatchers, Crash(d)
        PROVE  /\ UNCHANGED <<status, delivered>>
               /\ \A c \in Dispatchers : pc'[c] = "dispatched" =>
                    pc[c] = "dispatched" /\ event'[c] = event[c]
    BY <1>t, <1>7 DEF Crash, TypeOK, rowVars
  <1>8. CASE UNCHANGED vars
    BY <1>8 DEF vars, rowVars, dispatcherVars
  <1>9. CASE \E r \in Requests : Create(r) \/ BecomesDue(r) \/ BecomesStale(r)
    BY <1>1, <1>2, <1>9 DEF dispatcherVars
  <1>10. CASE \E d \in Dispatchers : DispatcherStep(d) \/ MarkFails(d) \/ Crash(d)
    BY <1>3, <1>4, <1>5, <1>6, <1>7, <1>10 DEF DispatcherStep
  <1> QED
    BY <1>8, <1>9, <1>10 DEF Next

-----------------------------------------------------------------------------
(* The theorems *)

\* Only jobs of committed transfers have reached the broker.
JobsCommitted == delivered \subseteq transfers

(* A dispatcher publishes what it has claimed, and rows are never deleted. *)
LEMMA CommittedStep == OutboxInv /\ JobsCommitted /\ [Next]_vars => JobsCommitted'
  <1> SUFFICES ASSUME OutboxInv, delivered \subseteq transfers, [Next]_vars
               PROVE  delivered' \subseteq transfers'
    BY DEF JobsCommitted
  <1>1. ASSUME NEW r \in Requests, Create(r)
        PROVE  delivered' \subseteq transfers'
    <2>1. transfers \subseteq transfers'
      BY <1>1 DEF Create, InsertTransfer
    <2> QED
      BY <1>1, <2>1 DEF Create
  <1>2. ASSUME NEW d \in Dispatchers, PublishEvent(d)
        PROVE  delivered' \subseteq transfers'
    <2>1. \A e \in batch[d] : e.id \in transfers
      BY DEF OutboxInv, ClaimsFounded
    <2> QED
      BY <1>2, <2>1 DEF PublishEvent
  <1>3. ASSUME UNCHANGED <<transfers, delivered>>
        PROVE  delivered' \subseteq transfers'
    BY <1>3
  <1>4. ASSUME NEW d \in Dispatchers,
               \/ ClaimPendingOutbox(d) \/ MarkOutboxDispatched(d)
               \/ MarkOutboxRetry(d) \/ MarkFails(d) \/ Crash(d)
        PROVE  UNCHANGED <<transfers, delivered>>
    BY <1>4 DEF ClaimPendingOutbox, MarkOutboxDispatched, MarkOutboxRetry,
                MarkFails, Crash, NextEvent
  <1>5. ASSUME NEW r \in Requests, BecomesDue(r) \/ BecomesStale(r)
        PROVE  UNCHANGED <<transfers, delivered>>
    BY <1>5 DEF BecomesDue, BecomesStale
  <1>6. CASE UNCHANGED vars
    BY <1>3, <1>6 DEF vars
  <1> QED
    BY <1>1, <1>2, <1>3, <1>4, <1>5, <1>6 DEF Next, DispatcherStep

(* The invariant holds throughout. *)
LEMMA OutboxAlways == Spec => [](OutboxInv /\ PublishedInv)
  BY OutboxInit, OutboxStep, PublishedStep, PTL DEF Spec

(* What the consumers are given is the work of committed transfers. *)
LEMMA CommittedAlways == Spec => []JobsCommitted
  <1>1. Init => JobsCommitted
    BY DEF Init, JobsCommitted
  <1> QED
    BY <1>1, OutboxAlways, CommittedStep, PTL DEF Spec

(* The outbox table, the replies and the dispatchers keep their types. *)
THEOREM OutboxTyped == Spec => []TypeOK
  <1>1. OutboxInv => TypeOK
    BY DEF OutboxInv
  <1> QED
    BY <1>1, OutboxAlways, PTL

(* All requests with one idempotency key that get an answer get the same      *)
(* transfer, committed with its outbox row, whatever errors hide commits from *)
(* clients (CreateTransfer, Create of postgres_repository.go).                *)
THEOREM CreateIsIdempotent == Spec => []IdempotentCreate
  <1>1. OutboxInv => IdempotentCreate
    BY DEF OutboxInv, TypeOK, RowsCreated, RepliesFounded, IdempotentCreate
  <1> QED
    BY <1>1, OutboxAlways, PTL

(* However dispatchers crash, stall and overtake each other, an undispatched  *)
(* row is one that ClaimPendingOutbox finds, now or once its lock is stale.   *)
THEOREM RowsStayRecoverable == Spec => []RowsRecoverable
  <1>1. OutboxInv => RowsRecoverable
    BY DEF OutboxInv, TypeOK, Statuses, RowsCreated, LocksSet, RowsRecoverable
  <1> QED
    BY <1>1, OutboxAlways, PTL

(* If the broker loses nothing it was given, a row that says DISPATCHED was   *)
(* published, also when the mark is that of a dispatcher that had lost the    *)
(* row (PublishTransferRequested before MarkOutboxDispatched).                *)
THEOREM DispatchedPublished ==
    Spec => []("unconfirmed" \notin Faults => DispatchedWasPublished)
  <1>1. OutboxInv /\ PublishedInv =>
            ("unconfirmed" \notin Faults => DispatchedWasPublished)
    BY DEF OutboxInv, TypeOK, PublishedInv, DispatchedWasPublished
  <1> QED
    BY <1>1, OutboxAlways, PTL

(* No step, of a stale dispatcher or of the API, takes a DISPATCHED row back  *)
(* or lowers an attempt count (the WHERE clause and GREATEST of the marks).   *)
THEOREM StaleUndoesNothing == Spec => NoStaleUndo
  <1> DEFINE Step == \A t \in Requests :
                /\ status[t] = "DISPATCHED" => status'[t] = "DISPATCHED"
                /\ attemptCount'[t] >= attemptCount[t]
  <1>1. OutboxInv /\ [Next]_vars => [Step]_vars
    <2> SUFFICES ASSUME OutboxInv, Next PROVE Step
      OBVIOUS
    <2>t. TypeOK
      BY DEF OutboxInv
    <2>r. \A t \in Requests : attemptCount[t] >= attemptCount[t]
      BY <2>t DEF TypeOK
    <2>1. ASSUME NEW r \in Requests, Create(r)
          PROVE  Step
      <3>1. CASE Existing(r) = {} /\ InsertTransfer(r)
        BY <2>r, <3>1, InsertEffect
      <3>2. CASE UNCHANGED rowVars
        BY <2>r, <3>2 DEF rowVars
      <3> QED
        BY <2>1, <3>1, <3>2 DEF Create, rowVars
    <2>2. ASSUME NEW t \in Requests, BecomesDue(t) \/ BecomesStale(t)
          PROVE  Step
      BY <2>r, <2>2 DEF BecomesDue, BecomesStale
    <2>3. ASSUME NEW d \in Dispatchers, ClaimPendingOutbox(d)
          PROVE  Step
      <3>1. \A t \in Requests : status[t] = "DISPATCHED" => status'[t] = "DISPATCHED"
        BY <2>3, ClaimEffect
      <3> QED
        BY <2>r, <2>3, <3>1 DEF ClaimPendingOutbox
    <2>4. ASSUME NEW d \in Dispatchers, PublishEvent(d) \/ MarkFails(d) \/ Crash(d)
          PROVE  Step
      BY <2>r, <2>4 DEF PublishEvent, MarkFails, Crash, rowVars
    <2>5. ASSUME NEW d \in Dispatchers,
                 MarkOutboxDispatched(d) \/ MarkOutboxRetry(d)
          PROVE  Step
      <3>1. /\ \A u \in Requests : attemptCount'[u] >= attemptCount[u]
            /\ \A u \in Requests : status'[u] # status[u] => status[u] # "DISPATCHED"
        BY <2>5, MarkEffect
      <3> QED
        BY <3>1
    <2> QED
      BY <2>1, <2>2, <2>3, <2>4, <2>5 DEF Next, DispatcherStep
  <1> QED
    BY <1>1, OutboxAlways, PTL DEF Spec, NoStaleUndo
=============================================================================
