----------------------- MODULE WebhookDeliveryProofs -----------------------
(***************************************************************************)
(* Theorems about WebhookDelivery, for any events and workers, any budget,  *)
(* delays, lease and batch size, all kinds of failure and any number of     *)
(* them. The lease timestamp fences late workers only if no two claims of a *)
(* row carry the same one; the invariant derives that from the clock.       *)
(***************************************************************************)
EXTENDS WebhookDelivery, FiniteSetTheorems, TLAPS

-----------------------------------------------------------------------------
(* The inductive invariant *)

(* The rows: the budget is not used up before the row is final, a lease is    *)
(* what a row in progress has, and it ends at most one duration from now.     *)
RowsInv ==
    \A e \in Events :
        /\ attemptCount[e] <= MaxAttempts
        /\ status[e] = "FAILED" => attemptCount[e] = MaxAttempts
        /\ status[e] \notin Final => attemptCount[e] < MaxAttempts
        /\ status[e] = "NONE" => attemptCount[e] = 0
        /\ status[e] = "IN_PROGRESS" <=> lease[e] # 0
        /\ lease[e] <= now + LeaseDuration

(* Where a worker is tells what it has in hand. *)
LocalsInv ==
    \A w \in Workers :
        /\ pc[w] = "wait" => batch[w] = {}
        /\ pc[w] = "mark" <=> delivery[w] # NoClaim

(* A claim is of a row that was claimed, and no later than its row: when the  *)
(* row is claimed again, its new lease is later than every one before. One    *)
(* that carries the row's lease carries the row's attempt count too.          *)
ClaimsInv ==
    \A w \in Workers : \A c \in Holds(w) :
        /\ status[c.id] \notin {"NONE", "PENDING"}
        /\ c.lease # 0
        /\ lease[c.id] # 0 => c.lease <= lease[c.id]
        /\ status[c.id] = "RETRYING" => c.lease < nextAt[c.id] + LeaseDuration
        /\ c.lease = lease[c.id] => c.count = attemptCount[c.id]
        /\ \A b \in Holds(w) : b.id = c.id => b = c

(* What is recorded as delivered, or about to be, was accepted. *)
AcceptedInv ==
    /\ \A e \in Events : status[e] = "DELIVERED" => e \in accepted
    /\ \A w \in Workers :
            pc[w] = "mark" /\ result[w] = "ok" => delivery[w].id \in accepted

LeaseInv == TypeOK /\ RowsInv /\ LocalsInv /\ ClaimsInv /\ OneOwner

-----------------------------------------------------------------------------
(* Numbers *)

(* A power of two is the size of a power set, so it is a positive number. *)
LEMMA PowerPositive ==
    ASSUME NEW n \in Nat
    PROVE  2 ^ n \in Nat /\ 2 ^ n >= 1
  <1>1. IsFiniteSet(1..n) /\ Cardinality(1..n) = n
    BY FS_Interval
  <1>2. IsFiniteSet(SUBSET (1..n)) /\ Cardinality(SUBSET (1..n)) = 2 ^ n
    BY <1>1, FS_SUBSET
  <1>3. SUBSET (1..n) # {}
    BY Zenon
  <1>4. Cardinality(SUBSET (1..n)) \in Nat /\ Cardinality(SUBSET (1..n)) # 0
    BY <1>2, <1>3, FS_CardinalityType, FS_EmptySet
  <1>5. \A k \in Nat : k # 0 => k >= 1
    OBVIOUS
  <1> QED
    BY <1>2, <1>4, <1>5

(* A retry waits at least one unit of time. *)
LEMMA BackoffPositive ==
    ASSUME NEW a \in Nat, a >= 1
    PROVE  BackoffForAttempt(a) \in Nat /\ BackoffForAttempt(a) >= 1
  <1> DEFINE p == 2 ^ (a - 1)
  <1>1. a - 1 \in Nat
    OBVIOUS
  <1>2. p \in Nat /\ p >= 1
    BY <1>1, PowerPositive
  <1> HIDE DEF p
  <1>3. InitialBackoff \in Nat /\ InitialBackoff >= 1
    BY WebhookAssumption
  <1>4. \A x, y \in Nat : x >= 1 /\ y >= 1 => x * y \in Nat /\ x * y >= 1
    OBVIOUS
  <1>5. BackoffForAttempt(a) = InitialBackoff * p
    BY DEF BackoffForAttempt, p
  <1> QED
    BY <1>2, <1>3, <1>4, <1>5

-----------------------------------------------------------------------------
(* Claims *)

(* The empty claim is no claim of an event. *)
LEMMA NoClaimIsNone == NoClaim \notin Claims
  BY WebhookAssumption DEF NoClaim, Claims

(* What a worker holds are claims of events. *)
LEMMA HoldsType ==
    ASSUME TypeOK, NEW w \in Workers, NEW c \in Holds(w)
    PROVE  c \in Claims /\ c.id \in Events /\ c.count \in Nat /\ c.lease \in Nat
  BY DEF TypeOK, Holds, Claims

(* The row a worker is about to mark is one that it holds. *)
LEMMA MarkHolds ==
    ASSUME LeaseInv, NEW w \in Workers, pc[w] = "mark"
    PROVE  delivery[w] \in Holds(w) /\ delivery[w] \in Claims
  BY DEF LeaseInv, TypeOK, LocalsInv, Holds

(* The effect of a claim. *)
LEMMA ClaimEffect ==
    ASSUME LeaseInv, NEW w \in Workers, ClaimDueDeliveries(w)
    PROVE  \E S \in SUBSET Due :
            /\ status' \in [Events -> Statuses]
            /\ lease' \in [Events -> Nat]
            /\ batch' \in [Workers -> SUBSET Claims]
            /\ \A e \in Events :
                    /\ e \in S => status'[e] = "IN_PROGRESS"
                                  /\ lease'[e] = now + LeaseDuration
                    /\ e \notin S => status'[e] = status[e] /\ lease'[e] = lease[e]
            /\ \A v \in Workers : v # w => batch'[v] = batch[v] /\ Holds(v)' = Holds(v)
            /\ Holds(w)' = batch'[w]
            /\ batch'[w] = {[id |-> e, count |-> attemptCount[e],
                             lease |-> now + LeaseDuration] : e \in S}
  <1>t. TypeOK /\ LocalsInv
    BY DEF LeaseInv
  <1>1. PICK S \in SUBSET Due :
        /\ status' = [e \in Events |-> IF e \in S THEN "IN_PROGRESS" ELSE status[e]]
        /\ lease' = [e \in Events |->
                        IF e \in S THEN now + LeaseDuration ELSE lease[e]]
        /\ batch' = [batch EXCEPT ![w] =
                        {[id |-> e, count |-> attemptCount[e],
                          lease |-> now + LeaseDuration] : e \in S}]
    BY DEF ClaimDueDeliveries
  <1>2. now + LeaseDuration \in Nat
    BY <1>t, WebhookAssumption DEF TypeOK
  <1>3. status' \in [Events -> Statuses] /\ lease' \in [Events -> Nat]
    BY <1>t, <1>1, <1>2 DEF TypeOK, Statuses
  <1>4. \A e \in S : [id |-> e, count |-> attemptCount[e],
                      lease |-> now + LeaseDuration] \in Claims
    BY <1>t, <1>2 DEF TypeOK, Claims, Due
  <1>5. batch' \in [Workers -> SUBSET Claims]
    BY <1>t, <1>1, <1>4 DEF TypeOK
  <1>6. batch'[w] = {[id |-> e, count |-> attemptCount[e],
                      lease |-> now + LeaseDuration] : e \in S}
    BY <1>t, <1>1 DEF TypeOK
  <1>7. \A v \in Workers : v # w => batch'[v] = batch[v]
    BY <1>t, <1>1 DEF TypeOK
  <1>8. delivery' = delivery /\ delivery[w] = NoClaim
    BY <1>t DEF ClaimDueDeliveries, LocalsInv
  <1>9. \A v \in Workers : v # w => Holds(v)' = Holds(v)
    BY <1>7, <1>8 DEF Holds
  <1>10. Holds(w)' = batch'[w]
    BY <1>8 DEF Holds
  <1>11. \A e \in Events :
            /\ e \in S => status'[e] = "IN_PROGRESS" /\ lease'[e] = now + LeaseDuration
            /\ e \notin S => status'[e] = status[e] /\ lease'[e] = lease[e]
    BY <1>1
  <1> QED
    BY <1>3, <1>5, <1>6, <1>7, <1>9, <1>10, <1>11

(* The effect of a stored outcome: only the row of the delivery changes, it   *)
(* was in progress under the very lease, and its attempt is counted.          *)
LEMMA StoreEffect ==
    ASSUME LeaseInv, NEW w \in Workers, pc[w] = "mark", HasLease(w),
           StoreOutcome(w, Outcome(w))
    PROVE  LET e == delivery[w].id
           IN  /\ e \in Events
               /\ status[e] = "IN_PROGRESS" /\ lease[e] = delivery[w].lease
               /\ attemptCount[e] < MaxAttempts
               /\ status' \in [Events -> Statuses]
               /\ attemptCount' \in [Events -> Nat]
               /\ nextAt' \in [Events -> Nat]
               /\ lease' \in [Events -> Nat]
               /\ status'[e] \in {"DELIVERED", "FAILED", "RETRYING"}
               /\ attemptCount'[e] = attemptCount[e] + 1
               /\ lease'[e] = 0
               /\ status'[e] = "DELIVERED" => result[w] = "ok"
               /\ status'[e] = "FAILED" => attemptCount'[e] = MaxAttempts
               /\ status'[e] = "RETRYING" =>
                        attemptCount'[e] < MaxAttempts /\ nextAt'[e] > now
               /\ \A u \in Events : u # e =>
                    /\ status'[u] = status[u] /\ attemptCount'[u] = attemptCount[u]
                    /\ nextAt'[u] = nextAt[u] /\ lease'[u] = lease[u]
  <1> DEFINE c == delivery[w]
             e == c.id
             a == c.count + 1
             o == Outcome(w)
             n == IF o = "RETRYING" THEN now + BackoffForAttempt(a) ELSE 0
  <1>t. TypeOK /\ RowsInv
    BY DEF LeaseInv
  <1>1. c \in Holds(w) /\ e \in Events /\ c.count \in Nat
    BY MarkHolds, HoldsType DEF LeaseInv
  <1>2. status[e] = "IN_PROGRESS" /\ lease[e] = c.lease
    BY DEF HasLease
  <1>3. c.count = attemptCount[e]
    BY <1>1, <1>2 DEF LeaseInv, ClaimsInv
  <1>4. attemptCount[e] \in Nat /\ attemptCount[e] < MaxAttempts /\ MaxAttempts \in Nat
    BY <1>1, <1>2, <1>t, WebhookAssumption DEF RowsInv, TypeOK, Final
  <1>5. a \in Nat /\ a >= 1 /\ a = attemptCount[e] + 1 /\ a <= MaxAttempts
    BY <1>3, <1>4
  <1>6. /\ o \in {"DELIVERED", "FAILED", "RETRYING"}
        /\ o = "DELIVERED" => result[w] = "ok"
        /\ o = "FAILED" => a >= MaxAttempts
        /\ o = "RETRYING" => ~(a >= MaxAttempts)
    BY DEF Outcome
  <1>7. BackoffForAttempt(a) \in Nat /\ BackoffForAttempt(a) >= 1
    BY <1>5, BackoffPositive
  <1>8. n \in Nat /\ (o = "RETRYING" => n > now)
    BY <1>t, <1>7 DEF TypeOK
  <1>9. /\ status' = [status EXCEPT ![e] = o]
        /\ attemptCount' = [attemptCount EXCEPT ![e] = a]
        /\ nextAt' = [nextAt EXCEPT ![e] = n]
        /\ lease' = [lease EXCEPT ![e] = 0]
    BY DEF StoreOutcome
  <1> HIDE DEF a, o, n
  <1>10. /\ status' \in [Events -> Statuses]
         /\ attemptCount' \in [Events -> Nat]
         /\ nextAt' \in [Events -> Nat]
         /\ lease' \in [Events -> Nat]
         /\ status'[e] = o /\ attemptCount'[e] = a /\ nextAt'[e] = n /\ lease'[e] = 0
         /\ \A u \in Events : u # e =>
                    /\ status'[u] = status[u] /\ attemptCount'[u] = attemptCount[u]
                    /\ nextAt'[u] = nextAt[u] /\ lease'[u] = lease[u]
    BY <1>t, <1>1, <1>5, <1>6, <1>8, <1>9 DEF TypeOK, Statuses
  <1>11. /\ o = "FAILED" => a = MaxAttempts
         /\ o = "RETRYING" => a < MaxAttempts
    BY <1>4, <1>5, <1>6
  <1> QED
    BY <1>1, <1>2, <1>4, <1>5, <1>6, <1>8, <1>10, <1>11

-----------------------------------------------------------------------------
(* The leases *)

(* The invariant holds of an empty table. *)
LEMMA LeaseInit == Init => LeaseInv
  <1> SUFFICES ASSUME Init PROVE LeaseInv
    OBVIOUS
  <1>1. TypeOK
    <2>1. 0 \in 0..MaxFaults
      BY WebhookAssumption
    <2> QED
      BY <2>1, Zenon DEF Init, TypeOK, Statuses, ResponseKinds
  <1>2. RowsInv
    BY WebhookAssumption DEF Init, RowsInv, Final
  <1>3. LocalsInv
    BY DEF Init, LocalsInv
  <1>4. \A w \in Workers : Holds(w) = {}
    BY DEF Init, Holds
  <1>5. ClaimsInv /\ OneOwner
    BY <1>4 DEF ClaimsInv, OneOwner
  <1> QED
    BY <1>1, <1>2, <1>3, <1>5 DEF LeaseInv

(* It survives a step that leaves the rows alone and drops claims at most. *)
LEMMA LeaseFrame ==
    ASSUME LeaseInv, TypeOK', LocalsInv', UNCHANGED rowVars, now' >= now,
           \A w \in Workers : Holds(w)' \subseteq Holds(w)
    PROVE  LeaseInv'
  <1>1. RowsInv'
    BY WebhookAssumption DEF LeaseInv, TypeOK, RowsInv, rowVars
  <1>2. ClaimsInv'
    BY DEF LeaseInv, ClaimsInv, rowVars
  <1>3. OneOwner'
    BY DEF LeaseInv, OneOwner, rowVars
  <1> QED
    BY <1>1, <1>2, <1>3 DEF LeaseInv

(* It survives the recording of an outcome: the other claims of the row are   *)
(* older than the time of the next attempt.                                   *)
LEMMA LeaseStore ==
    ASSUME LeaseInv, TypeOK', LocalsInv', now' = now,
           NEW w \in Workers, pc[w] = "mark", HasLease(w),
           StoreOutcome(w, Outcome(w)),
           \A v \in Workers : Holds(v)' \subseteq Holds(v)
    PROVE  LeaseInv'
  <1> DEFINE e == delivery[w].id
  <1>t. TypeOK /\ RowsInv /\ ClaimsInv /\ OneOwner
    BY DEF LeaseInv
  <1>1. /\ e \in Events
        /\ status[e] = "IN_PROGRESS" /\ lease[e] = delivery[w].lease
        /\ attemptCount[e] < MaxAttempts
        /\ status'[e] \in {"DELIVERED", "FAILED", "RETRYING"}
        /\ attemptCount'[e] = attemptCount[e] + 1
        /\ lease'[e] = 0
        /\ status'[e] = "FAILED" => attemptCount'[e] = MaxAttempts
        /\ status'[e] = "RETRYING" => attemptCount'[e] < MaxAttempts /\ nextAt'[e] > now
        /\ \A u \in Events : u # e =>
                /\ status'[u] = status[u] /\ attemptCount'[u] = attemptCount[u]
                /\ nextAt'[u] = nextAt[u] /\ lease'[u] = lease[u]
    BY StoreEffect
  <1>2. lease[e] # 0 /\ lease[e] <= now + LeaseDuration
    BY <1>t, <1>1 DEF RowsInv
  <1>n. /\ now \in Nat /\ LeaseDuration \in Nat /\ MaxAttempts \in Nat
        /\ \A u \in Events : attemptCount[u] \in Nat /\ lease[u] \in Nat /\ nextAt'[u] \in Nat
    BY <1>t, WebhookAssumption DEF TypeOK
  <1>3. RowsInv'
    BY <1>t, <1>1, <1>n DEF RowsInv, Final
  <1>4. ClaimsInv'
    <2> SUFFICES ASSUME NEW v \in Workers, NEW c \in Holds(v)'
                 PROVE  /\ status'[c.id] \notin {"NONE", "PENDING"}
                        /\ c.lease # 0
                        /\ lease'[c.id] # 0 => c.lease <= lease'[c.id]
                        /\ status'[c.id] = "RETRYING" =>
                                c.lease < nextAt'[c.id] + LeaseDuration
                        /\ c.lease = lease'[c.id] => c.count = attemptCount'[c.id]
                        /\ \A b \in Holds(v)' : b.id = c.id => b = c
      BY DEF ClaimsInv
    <2>1. c \in Holds(v) /\ c.id \in Events /\ c.lease \in Nat
      BY <1>t, HoldsType
    <2>2. /\ c.lease # 0
          /\ lease[c.id] # 0 => c.lease <= lease[c.id]
          /\ status[c.id] \notin {"NONE", "PENDING"}
          /\ status[c.id] = "RETRYING" => c.lease < nextAt[c.id] + LeaseDuration
          /\ c.lease = lease[c.id] => c.count = attemptCount[c.id]
          /\ \A b \in Holds(v) : b.id = c.id => b = c
      BY <1>t, <2>1 DEF ClaimsInv
    <2>3. CASE c.id # e
      BY <1>1, <2>1, <2>2, <2>3
    <2>4. CASE c.id = e
      <3>1. c.lease <= now + LeaseDuration
        BY <1>2, <1>n, <2>1, <2>2, <2>4
      <3>2. status'[e] = "RETRYING" => c.lease < nextAt'[e] + LeaseDuration
        BY <1>1, <1>n, <2>1, <3>1
      <3> QED
        BY <1>1, <2>2, <2>4, <3>2
    <2> QED
      BY <2>3, <2>4
  <1>5. OneOwner'
    <2> SUFFICES ASSUME NEW u \in Workers, NEW v \in Workers,
                        NEW b \in Holds(u)', NEW c \in Holds(v)',
                        b.id = c.id, lease'[b.id] # 0,
                        lease'[b.id] = b.lease, lease'[c.id] = c.lease
                 PROVE  u = v
      BY DEF OneOwner
    <2>1. b \in Holds(u) /\ c \in Holds(v) /\ b.id \in Events
      BY <1>t, HoldsType
    <2>2. lease[b.id] = lease'[b.id]
      BY <1>1, <2>1
    <2> QED
      BY <1>t, <2>1, <2>2 DEF OneOwner
  <1> QED
    BY <1>3, <1>4, <1>5 DEF LeaseInv

(* It survives a claim: a row that is due was leased, if at all, with a lease *)
(* that is over, so that the new one is later than every claim still held.    *)
LEMMA LeaseClaim ==
    ASSUME LeaseInv, NEW w \in Workers, ClaimDueDeliveries(w)
    PROVE  LeaseInv'
  <1>t. TypeOK /\ RowsInv /\ LocalsInv /\ ClaimsInv /\ OneOwner
    BY DEF LeaseInv
  <1>u. /\ UNCHANGED <<happened, attemptCount, nextAt, sends, accepted, delivery,
                       result, now, faults>>
        /\ pc[w] = "wait" /\ pc' = [pc EXCEPT ![w] = "dispatch"]
    BY DEF ClaimDueDeliveries
  <1>1. PICK S \in SUBSET Due :
            /\ status' \in [Events -> Statuses]
            /\ lease' \in [Events -> Nat]
            /\ batch' \in [Workers -> SUBSET Claims]
            /\ \A e \in Events :
                    /\ e \in S => status'[e] = "IN_PROGRESS"
                                  /\ lease'[e] = now + LeaseDuration
                    /\ e \notin S => status'[e] = status[e] /\ lease'[e] = lease[e]
            /\ \A v \in Workers : v # w => batch'[v] = batch[v] /\ Holds(v)' = Holds(v)
            /\ Holds(w)' = batch'[w]
            /\ batch'[w] = {[id |-> e, count |-> attemptCount[e],
                             lease |-> now + LeaseDuration] : e \in S}
    BY ClaimEffect
  <1>n. /\ now \in Nat /\ LeaseDuration \in Nat /\ LeaseDuration > 0
        /\ \A u \in Events : attemptCount[u] \in Nat /\ lease[u] \in Nat /\ nextAt[u] \in Nat
    BY <1>t, WebhookAssumption DEF TypeOK
  <1>2. TypeOK'
    BY <1>t, <1>u, <1>1 DEF TypeOK
  <1>3. LocalsInv'
    BY <1>t, <1>u, <1>1 DEF TypeOK, LocalsInv
  <1>4. \A e \in S :
            /\ e \in Events
            /\ status[e] \in {"PENDING", "RETRYING", "IN_PROGRESS"}
            /\ status[e] = "RETRYING" => nextAt[e] <= now
            /\ status[e] = "IN_PROGRESS" => lease[e] <= now
    BY DEF Due
  <1>5. RowsInv'
    BY <1>t, <1>u, <1>1, <1>4, <1>n DEF RowsInv, Final
  <1>6. ASSUME NEW v \in Workers, NEW c \in Holds(v), c.id \in S
        PROVE  c.lease < now + LeaseDuration
    <2>1. c.lease \in Nat /\ c.id \in Events
      BY <1>t, <1>6, HoldsType
    <2>2. status[c.id] = "RETRYING" => c.lease < nextAt[c.id] + LeaseDuration
      BY <1>t, <1>6 DEF ClaimsInv
    <2>3. status[c.id] = "IN_PROGRESS" => c.lease <= lease[c.id]
      BY <1>t, <1>6, <2>1 DEF ClaimsInv, RowsInv
    <2>4. status[c.id] # "PENDING"
      BY <1>t, <1>6 DEF ClaimsInv
    <2>5. CASE status[c.id] = "RETRYING"
      BY <1>4, <1>6, <1>n, <2>1, <2>2, <2>5
    <2>6. CASE status[c.id] = "IN_PROGRESS"
      BY <1>4, <1>6, <1>n, <2>1, <2>3, <2>6
    <2> QED
      BY <1>4, <1>6, <2>4, <2>5, <2>6
  <1>7. \A c \in Holds(w)' : /\ c.id \in S /\ c.id \in Events
                             /\ c.count = attemptCount[c.id]
                             /\ c.lease = now + LeaseDuration
                             /\ c = [id |-> c.id, count |-> attemptCount[c.id],
                                     lease |-> now + LeaseDuration]
    BY <1>1, <1>4
  <1>8. ClaimsInv'
    <2> SUFFICES ASSUME NEW v \in Workers, NEW c \in Holds(v)'
                 PROVE  /\ status'[c.id] \notin {"NONE", "PENDING"}
                        /\ c.lease # 0
                        /\ lease'[c.id] # 0 => c.lease <= lease'[c.id]
                        /\ status'[c.id] = "RETRYING" =>
                                c.lease < nextAt'[c.id] + LeaseDuration
                        /\ c.lease = lease'[c.id] => c.count = attemptCount'[c.id]
                        /\ \A b \in Holds(v)' : b.id = c.id => b = c
      BY DEF ClaimsInv
    <2>1. CASE v = w
      <3>1. /\ c.id \in S /\ c.id \in Events /\ c.count = attemptCount[c.id]
            /\ c.lease = now + LeaseDuration
        BY <1>7, <2>1
      <3>2. \A b \in Holds(v)' : b.id = c.id => b = c
        BY <1>7, <2>1
      <3>3. now + LeaseDuration \in Nat /\ now + LeaseDuration # 0
        BY <1>n
      <3>4. \A k \in Nat : k <= k
        OBVIOUS
      <3> QED
        BY <1>1, <1>u, <3>1, <3>2, <3>3, <3>4
    <2>2. CASE v # w
      <3>1. Holds(v)' = Holds(v) /\ c \in Holds(v)
        BY <1>1, <2>2
      <3>2. c.id \in Events /\ c.lease \in Nat
        BY <1>t, <3>1, HoldsType
      <3>3. /\ status[c.id] \notin {"NONE", "PENDING"}
            /\ c.lease # 0
            /\ lease[c.id] # 0 => c.lease <= lease[c.id]
            /\ status[c.id] = "RETRYING" => c.lease < nextAt[c.id] + LeaseDuration
            /\ c.lease = lease[c.id] => c.count = attemptCount[c.id]
            /\ \A b \in Holds(v) : b.id = c.id => b = c
        BY <1>t, <3>1 DEF ClaimsInv
      <3>4. CASE c.id \notin S
        BY <1>1, <1>u, <3>1, <3>2, <3>3, <3>4
      <3>5. CASE c.id \in S
        <4>1. c.lease < now + LeaseDuration
          BY <1>6, <3>1, <3>5
        <4>2. c.lease # now + LeaseDuration /\ c.lease <= now + LeaseDuration
          BY <1>n, <3>2, <4>1
        <4> QED
          BY <1>1, <3>1, <3>2, <3>3, <3>5, <4>2
      <3> QED
        BY <3>4, <3>5
    <2> QED
      BY <2>1, <2>2
  <1>9. OneOwner'
    <2>1. ASSUME NEW v \in Workers, v # w, NEW c \in Holds(v)', c.id \in S
          PROVE  lease'[c.id] # c.lease
      <3>1. c \in Holds(v)
        BY <1>1, <2>1
      <3>2. c.lease < now + LeaseDuration /\ c.lease \in Nat /\ c.id \in Events
        BY <1>6, <1>t, <2>1, <3>1, HoldsType
      <3>3. c.lease # now + LeaseDuration
        BY <1>n, <3>2
      <3> QED
        BY <1>1, <2>1, <3>2, <3>3
    <2> SUFFICES ASSUME NEW u \in Workers, NEW v \in Workers,
                        NEW b \in Holds(u)', NEW c \in Holds(v)',
                        b.id = c.id, lease'[b.id] # 0,
                        lease'[b.id] = b.lease, lease'[c.id] = c.lease
                 PROVE  u = v
      BY DEF OneOwner
    <2>2. CASE b.id \in S
      BY <2>1, <2>2
    <2>3. CASE b.id \notin S
      <3>1. u # w /\ v # w
        BY <1>7, <2>3
      <3>2. b \in Holds(u) /\ c \in Holds(v)
        BY <1>1, <3>1
      <3>3. b.id \in Events
        BY <1>t, <3>2, HoldsType
      <3>4. lease[b.id] = lease'[b.id]
        BY <1>1, <2>3, <3>3
      <3> QED
        BY <1>t, <3>2, <3>4 DEF OneOwner
    <2> QED
      BY <2>2, <2>3
  <1> QED
    BY <1>2, <1>3, <1>5, <1>8, <1>9 DEF LeaseInv

(* What is left in a worker's hands after it has handled a delivery, or given *)
(* its cycle up.                                                              *)
LEMMA LetGo ==
    ASSUME TypeOK, LocalsInv, NEW w \in Workers, NextDelivery(w) \/ EndCycle(w)
    PROVE  /\ pc' \in [Workers -> {"wait", "dispatch", "mark"}]
           /\ batch' \in [Workers -> SUBSET Claims]
           /\ delivery' \in [Workers -> Claims \cup {NoClaim}]
           /\ result' \in [Workers -> ResponseKinds]
           /\ LocalsInv'
           /\ \A v \in Workers : Holds(v)' \subseteq Holds(v)
           /\ pc'[w] # "mark"
           /\ \A v \in Workers : v # w =>
                /\ pc'[v] = pc[v] /\ batch'[v] = batch[v]
                /\ delivery'[v] = delivery[v] /\ result'[v] = result[v]
  <1>1. /\ pc' \in [Workers -> {"wait", "dispatch", "mark"}]
        /\ batch' \in [Workers -> SUBSET Claims]
        /\ delivery' \in [Workers -> Claims \cup {NoClaim}]
        /\ result' \in [Workers -> ResponseKinds]
    BY DEF TypeOK, NextDelivery, EndCycle, ResponseKinds
  <1>2. /\ pc'[w] # "mark" /\ delivery'[w] = NoClaim
        /\ batch'[w] \subseteq batch[w]
        /\ pc'[w] = "wait" => batch'[w] = {}
    BY DEF TypeOK, NextDelivery, EndCycle
  <1>3. \A v \in Workers : v # w =>
            /\ pc'[v] = pc[v] /\ batch'[v] = batch[v]
            /\ delivery'[v] = delivery[v] /\ result'[v] = result[v]
    BY DEF TypeOK, NextDelivery, EndCycle
  <1>4. LocalsInv'
    BY <1>2, <1>3 DEF LocalsInv
  <1>5. \A v \in Workers : Holds(v)' \subseteq Holds(v)
    BY <1>2, <1>3 DEF Holds
  <1> QED
    BY <1>1, <1>2, <1>3, <1>4, <1>5

(* What a request does to the locals: a claim moves from the batch into hand. *)
LEMMA DispatchEffect ==
    ASSUME LeaseInv, NEW w \in Workers, Dispatch(w)
    PROVE  \E c \in batch[w], r \in ResponseKinds :
            /\ c \in Claims /\ c.id \in Events
            /\ IF r = "odd" THEN Fault("odd") ELSE UNCHANGED faults
            /\ sends' = [sends EXCEPT ![c.id] = @ + 1]
            /\ accepted' = IF r = "ok" THEN accepted \cup {c.id} ELSE accepted
            /\ pc[w] = "dispatch" /\ delivery[w] = NoClaim
            /\ pc'[w] = "mark" /\ delivery'[w] = c /\ result'[w] = r
            /\ batch'[w] = batch[w] \ {c}
            /\ \A v \in Workers : v # w =>
                /\ pc'[v] = pc[v] /\ batch'[v] = batch[v]
                /\ delivery'[v] = delivery[v] /\ result'[v] = result[v]
            /\ pc' \in [Workers -> {"wait", "dispatch", "mark"}]
            /\ batch' \in [Workers -> SUBSET Claims]
            /\ delivery' \in [Workers -> Claims \cup {NoClaim}]
            /\ result' \in [Workers -> ResponseKinds]
            /\ \A v \in Workers : Holds(v)' = Holds(v)
  <1>t. TypeOK /\ LocalsInv
    BY DEF LeaseInv
  <1>1. PICK c \in batch[w], r \in ResponseKinds :
            /\ IF r = "odd" THEN Fault("odd") ELSE UNCHANGED faults
            /\ delivery' = [delivery EXCEPT ![w] = c]
            /\ batch' = [batch EXCEPT ![w] = @ \ {c}]
            /\ result' = [result EXCEPT ![w] = r]
            /\ sends' = [sends EXCEPT ![c.id] = @ + 1]
            /\ accepted' = IF r = "ok" THEN accepted \cup {c.id} ELSE accepted
    BY DEF Dispatch
  <1>2. c \in Claims /\ c.id \in Events
    BY <1>t DEF TypeOK, Claims
  <1>3. pc[w] = "dispatch" /\ delivery[w] = NoClaim /\ pc' = [pc EXCEPT ![w] = "mark"]
    BY <1>t DEF Dispatch, LocalsInv
  <1>4. /\ pc'[w] = "mark" /\ delivery'[w] = c /\ result'[w] = r
        /\ batch'[w] = batch[w] \ {c}
        /\ \A v \in Workers : v # w =>
            /\ pc'[v] = pc[v] /\ batch'[v] = batch[v]
            /\ delivery'[v] = delivery[v] /\ result'[v] = result[v]
    BY <1>t, <1>1, <1>3 DEF TypeOK
  <1>5. /\ pc' \in [Workers -> {"wait", "dispatch", "mark"}]
        /\ batch' \in [Workers -> SUBSET Claims]
        /\ delivery' \in [Workers -> Claims \cup {NoClaim}]
        /\ result' \in [Workers -> ResponseKinds]
    BY <1>t, <1>1, <1>2, <1>3 DEF TypeOK
  <1>6. \A v \in Workers : Holds(v)' = Holds(v)
    BY <1>2, <1>3, <1>4, NoClaimIsNone DEF Holds
  <1> QED
    BY <1>1, <1>2, <1>3, <1>4, <1>5, <1>6

(* A failure stays within the budget and is counted. *)
LEMMA FaultBudget ==
    ASSUME faults \in 0..MaxFaults, NEW k, Fault(k)
    PROVE  faults' \in 0..MaxFaults /\ faults' = faults + 1
  BY WebhookAssumption DEF Fault

(* The invariant is inductive: one case per action. *)
LEMMA LeaseStep == LeaseInv /\ [Next]_vars => LeaseInv'
  <1> SUFFICES ASSUME LeaseInv, [Next]_vars PROVE LeaseInv'
    OBVIOUS
  <1>t. TypeOK /\ RowsInv /\ LocalsInv /\ ClaimsInv /\ OneOwner
    BY DEF LeaseInv
  <1>f. \A k : Fault(k) => faults' \in 0..MaxFaults
    BY <1>t, FaultBudget DEF TypeOK
  <1>n. now \in Nat /\ now >= now
    BY <1>t DEF TypeOK
  <1>1. ASSUME NEW e \in Events, StatusChanges(e)
        PROVE  LeaseInv'
    <2>1. TypeOK' /\ LocalsInv' /\ UNCHANGED rowVars /\ now' = now
      BY <1>t, <1>1 DEF StatusChanges, TypeOK, LocalsInv, rowVars, workerVars
    <2>2. \A w \in Workers : Holds(w)' = Holds(w)
      BY <1>1 DEF StatusChanges, workerVars, Holds
    <2> QED
      BY <1>n, <2>1, <2>2, LeaseFrame
  <1>2. ASSUME NEW w \in Workers, ScheduleTransferStatusDeliveries(w)
        PROVE  LeaseInv'
    <2>1. /\ UNCHANGED <<happened, lease, sends, accepted, now, faults>>
          /\ UNCHANGED workerVars
          /\ status' = [e \in Events |-> IF e \in Schedulable THEN "PENDING" ELSE status[e]]
          /\ nextAt' = [e \in Events |-> IF e \in Schedulable THEN now ELSE nextAt[e]]
          /\ attemptCount' =
                [e \in Events |-> IF e \in Schedulable THEN 0 ELSE attemptCount[e]]
      BY <1>2 DEF ScheduleTransferStatusDeliveries
    <2>2. TypeOK' /\ LocalsInv'
      BY <1>t, <2>1 DEF TypeOK, LocalsInv, Statuses, workerVars
    <2>3. \A w2 \in Workers : Holds(w2)' = Holds(w2)
      BY <2>1 DEF workerVars, Holds
    <2>4. \A e \in Events :
            \/ status'[e] = status[e] /\ attemptCount'[e] = attemptCount[e]
               /\ nextAt'[e] = nextAt[e]
            \/ status[e] = "NONE" /\ status'[e] = "PENDING" /\ attemptCount'[e] = 0
               /\ attemptCount[e] = 0
      BY <1>t, <2>1 DEF Schedulable, RowsInv
    <2>5. RowsInv'
      BY <1>t, <2>1, <2>4, WebhookAssumption DEF RowsInv, Final, TypeOK
    <2>6. \A v \in Workers : \A c \in Holds(v) : c.id \in Events /\ status[c.id] # "NONE"
      BY <1>t, HoldsType DEF ClaimsInv
    <2>7. ClaimsInv'
      BY <1>t, <2>1, <2>3, <2>4, <2>6 DEF ClaimsInv
    <2>8. OneOwner'
      BY <1>t, <2>1, <2>3 DEF OneOwner
    <2> QED
      BY <2>2, <2>5, <2>7, <2>8 DEF LeaseInv
  <1>3. ASSUME NEW w \in Workers, Dispatch(w)
        PROVE  LeaseInv'
    <2>1. UNCHANGED <<happened, rowVars, now>>
      BY <1>3 DEF Dispatch
    <2>2. PICK c \in batch[w], r \in ResponseKinds :
            /\ c \in Claims /\ c.id \in Events
            /\ IF r = "odd" THEN Fault("odd") ELSE UNCHANGED faults
            /\ sends' = [sends EXCEPT ![c.id] = @ + 1]
            /\ accepted' = IF r = "ok" THEN accepted \cup {c.id} ELSE accepted
            /\ pc[w] = "dispatch" /\ delivery[w] = NoClaim
            /\ pc'[w] = "mark" /\ delivery'[w] = c /\ result'[w] = r
            /\ batch'[w] = batch[w] \ {c}
            /\ \A v \in Workers : v # w =>
                /\ pc'[v] = pc[v] /\ batch'[v] = batch[v]
                /\ delivery'[v] = delivery[v] /\ result'[v] = result[v]
            /\ pc' \in [Workers -> {"wait", "dispatch", "mark"}]
            /\ batch' \in [Workers -> SUBSET Claims]
            /\ delivery' \in [Workers -> Claims \cup {NoClaim}]
            /\ result' \in [Workers -> ResponseKinds]
            /\ \A v \in Workers : Holds(v)' = Holds(v)
      BY <1>3, DispatchEffect
    <2>3. faults' \in 0..MaxFaults /\ sends' \in [Events -> Nat] /\ accepted' \subseteq Events
      BY <1>t, <1>f, <2>2 DEF TypeOK
    <2>4. TypeOK'
      BY <1>t, <2>1, <2>2, <2>3 DEF TypeOK, rowVars
    <2>5. LocalsInv'
      BY <1>t, <2>2, NoClaimIsNone DEF LocalsInv
    <2> QED
      BY <1>n, <2>1, <2>2, <2>4, <2>5, LeaseFrame
  <1>4. ASSUME NEW w \in Workers, Mark(w) \/ MarkFails(w) \/ Crash(w)
        PROVE  LeaseInv'
    <2>1. /\ NextDelivery(w) \/ EndCycle(w)
          /\ UNCHANGED <<happened, sends, accepted, now>>
          /\ faults' \in 0..MaxFaults
          /\ \/ UNCHANGED rowVars
             \/ pc[w] = "mark" /\ HasLease(w) /\ StoreOutcome(w, Outcome(w))
      BY <1>t, <1>f, <1>4 DEF Mark, MarkFails, Crash, TypeOK
    <2>2. /\ pc' \in [Workers -> {"wait", "dispatch", "mark"}]
          /\ batch' \in [Workers -> SUBSET Claims]
          /\ delivery' \in [Workers -> Claims \cup {NoClaim}]
          /\ result' \in [Workers -> ResponseKinds]
          /\ LocalsInv'
          /\ \A v \in Workers : Holds(v)' \subseteq Holds(v)
      BY <1>t, <2>1, LetGo
    <2>3. CASE UNCHANGED rowVars
      <3>1. TypeOK'
        BY <1>t, <2>1, <2>2, <2>3 DEF TypeOK, rowVars
      <3> QED
        BY <1>n, <2>1, <2>2, <2>3, <3>1, LeaseFrame
    <2>4. CASE pc[w] = "mark" /\ HasLease(w) /\ StoreOutcome(w, Outcome(w))
      <3>1. /\ status' \in [Events -> Statuses]
            /\ attemptCount' \in [Events -> Nat]
            /\ nextAt' \in [Events -> Nat]
            /\ lease' \in [Events -> Nat]
        BY <2>4, StoreEffect
      <3>2. TypeOK'
        BY <1>t, <2>1, <2>2, <3>1 DEF TypeOK
      <3> QED
        BY <2>1, <2>2, <2>4, <3>2, LeaseStore
    <2> QED
      BY <2>1, <2>3, <2>4
  <1>5. CASE Tick \/ SlowTick
    <2>1. /\ now' = now + 1 /\ faults' \in 0..MaxFaults
          /\ UNCHANGED <<happened, sends, accepted>>
          /\ UNCHANGED rowVars /\ UNCHANGED workerVars
      BY <1>t, <1>f, <1>5 DEF Tick, SlowTick, TypeOK
    <2>2. now' \in Nat /\ now' >= now
      BY <1>n, <2>1
    <2>3. TypeOK' /\ LocalsInv'
      BY <1>t, <2>1, <2>2 DEF TypeOK, LocalsInv, rowVars, workerVars
    <2>4. \A w \in Workers : Holds(w)' = Holds(w)
      BY <2>1 DEF workerVars, Holds
    <2> QED
      BY <2>1, <2>2, <2>3, <2>4, LeaseFrame
  <1>6. CASE UNCHANGED vars
    <2>1. TypeOK' /\ LocalsInv' /\ UNCHANGED rowVars /\ now' = now
      BY <1>t, <1>6 DEF vars, TypeOK, LocalsInv, rowVars, workerVars
    <2>2. \A w \in Workers : Holds(w)' = Holds(w)
      BY <1>6 DEF vars, workerVars, Holds
    <2> QED
      BY <1>n, <2>1, <2>2, LeaseFrame
  <1> QED
    BY <1>1, <1>2, <1>3, <1>4, <1>5, <1>6, LeaseClaim DEF Next, WorkerStep

-----------------------------------------------------------------------------
(* Delivered means accepted *)

LEMMA AcceptedInit == Init => AcceptedInv
  BY DEF Init, AcceptedInv

(* A row becomes DELIVERED only through a worker that has the 2xx in hand. *)
LEMMA AcceptedStep == LeaseInv /\ AcceptedInv /\ [Next]_vars => AcceptedInv'
  <1> SUFFICES ASSUME LeaseInv, AcceptedInv, [Next]_vars PROVE AcceptedInv'
    OBVIOUS
  <1>t. TypeOK /\ LocalsInv
    BY DEF LeaseInv
  <1>1. ASSUME NEW e \in Events, StatusChanges(e)
        PROVE  AcceptedInv'
    BY <1>1 DEF StatusChanges, AcceptedInv, rowVars, workerVars
  <1>2. ASSUME NEW w \in Workers, ScheduleTransferStatusDeliveries(w)
        PROVE  AcceptedInv'
    BY <1>2 DEF ScheduleTransferStatusDeliveries, AcceptedInv, workerVars
  <1>3. ASSUME NEW w \in Workers, ClaimDueDeliveries(w)
        PROVE  AcceptedInv'
    <2>1. \A e \in Events : status'[e] = "DELIVERED" => status[e] = "DELIVERED"
      BY <1>3, ClaimEffect
    <2>2. /\ accepted' = accepted /\ delivery' = delivery /\ result' = result
          /\ \A v \in Workers : pc'[v] = "mark" => pc[v] = "mark"
      BY <1>t, <1>3 DEF ClaimDueDeliveries, TypeOK
    <2> QED
      BY <2>1, <2>2 DEF AcceptedInv
  <1>4. ASSUME NEW w \in Workers, Dispatch(w)
        PROVE  AcceptedInv'
    <2>1. PICK c \in batch[w], r \in ResponseKinds :
            /\ accepted' = IF r = "ok" THEN accepted \cup {c.id} ELSE accepted
            /\ pc'[w] = "mark" /\ delivery'[w] = c /\ result'[w] = r
            /\ \A v \in Workers : v # w =>
                /\ pc'[v] = pc[v] /\ delivery'[v] = delivery[v] /\ result'[v] = result[v]
      BY <1>4, DispatchEffect
    <2>2. status' = status
      BY <1>4 DEF Dispatch, rowVars
    <2> QED
      BY <2>1, <2>2 DEF AcceptedInv
  <1>5. ASSUME NEW w \in Workers, Mark(w) \/ MarkFails(w) \/ Crash(w)
        PROVE  AcceptedInv'
    <2>1. /\ NextDelivery(w) \/ EndCycle(w)
          /\ accepted' = accepted
          /\ \/ status' = status
             \/ pc[w] = "mark" /\ HasLease(w) /\ StoreOutcome(w, Outcome(w))
      BY <1>5 DEF Mark, MarkFails, Crash, rowVars
    <2>2. /\ pc'[w] # "mark"
          /\ \A v \in Workers : v # w =>
                /\ pc'[v] = pc[v] /\ delivery'[v] = delivery[v] /\ result'[v] = result[v]
      BY <1>t, <2>1, LetGo
    <2>3. \A e \in Events : status'[e] = "DELIVERED" => e \in accepted
      <3>1. CASE status' = status
        BY <3>1 DEF AcceptedInv
      <3>2. CASE pc[w] = "mark" /\ HasLease(w) /\ StoreOutcome(w, Outcome(w))
        <4>1. /\ status'[delivery[w].id] = "DELIVERED" => result[w] = "ok"
              /\ \A u \in Events : u # delivery[w].id => status'[u] = status[u]
          BY <3>2, StoreEffect
        <4> QED
          BY <3>2, <4>1 DEF AcceptedInv
      <3> QED
        BY <2>1, <3>1, <3>2
    <2> QED
      BY <2>1, <2>2, <2>3 DEF AcceptedInv
  <1>6. CASE Tick \/ SlowTick
    BY <1>6 DEF Tick, SlowTick, AcceptedInv, rowVars, workerVars
  <1>7. CASE UNCHANGED vars
    BY <1>7 DEF vars, AcceptedInv, rowVars, workerVars
  <1> QED
    BY <1>1, <1>2, <1>3, <1>4, <1>5, <1>6, <1>7 DEF Next, WorkerStep

-----------------------------------------------------------------------------
(* The sends *)

\* The workers that still have a claim of e to send.
Pending(e) == {w \in Workers : \E c \in batch[w] : c.id = e}

\* The sends of e, and those that will happen unless a worker fails first.
Load(e) == sends[e] + Cardinality(Pending(e))

\* The claims of w whose outcome it can still record.
Live(w) == batch[w] \cup (IF pc[w] = "mark" /\ result[w] # "odd"
                          THEN {delivery[w]} ELSE {})

\* Somebody can still record an outcome for e under the lease in the row.
Valid(e) == lease[e] # 0 /\ \E w \in Workers : \E c \in Live(w) :
                                c.id = e /\ c.lease = lease[e]

(* A send that is not counted in the row was paid for by a failure. A claim   *)
(* in hand that can still be recorded is worth one send more; once its lease  *)
(* is over it can be claimed again, and by then time has passed under its     *)
(* worker, which is a failure too.                                            *)
Budget(e) ==
    /\ ~Valid(e) => Load(e) <= attemptCount[e] + faults
    /\ Valid(e) => Load(e) + now + LeaseDuration <= attemptCount[e] + faults + 1 + lease[e]

BudgetInv == \A e \in Events : Budget(e)

(* Pending sends are countable. *)
LEMMA LoadType ==
    ASSUME TypeOK, NEW e \in Events
    PROVE  /\ IsFiniteSet(Pending(e)) /\ Cardinality(Pending(e)) \in Nat
           /\ Load(e) \in Nat
  <1>1. IsFiniteSet(Pending(e)) /\ Cardinality(Pending(e)) \in Nat
    BY WebhookAssumption, FS_Subset, FS_CardinalityType DEF Pending
  <1> QED
    BY <1>1 DEF Load, TypeOK

(* Every event has at most one send to its credit. *)
LEMMA LoadBound ==
    ASSUME LeaseInv, NEW e \in Events, Budget(e)
    PROVE  Load(e) <= attemptCount[e] + faults + 1
  <1>1. /\ Load(e) \in Nat /\ attemptCount[e] \in Nat /\ lease[e] \in Nat
        /\ now \in Nat /\ faults \in Nat /\ LeaseDuration \in Nat
    BY LoadType, WebhookAssumption DEF LeaseInv, TypeOK
  <1>2. lease[e] <= now + LeaseDuration
    BY DEF LeaseInv, RowsInv
  <1> QED
    BY <1>1, <1>2 DEF Budget

(* The step of an event whose row is left alone: it keeps its budget if its   *)
(* claims keep their worth, or if a failure is counted.                       *)
LEMMA BudgetKeep ==
    ASSUME LeaseInv, TypeOK', NEW e \in Events, Budget(e),
           attemptCount'[e] = attemptCount[e], lease'[e] = lease[e], now' = now,
           sends'[e] = sends[e], Pending(e)' \subseteq Pending(e),
           Valid(e)' => Valid(e), faults' >= faults,
           \/ Valid(e) => Valid(e)'
           \/ faults' >= faults + 1
    PROVE  Budget(e)'
  <1>1. /\ Load(e) \in Nat /\ attemptCount[e] \in Nat /\ lease[e] \in Nat
        /\ now \in Nat /\ faults \in Nat /\ LeaseDuration \in Nat
    BY LoadType, WebhookAssumption DEF LeaseInv, TypeOK
  <1>2. faults' \in Nat
    BY WebhookAssumption DEF TypeOK
  <1>3. Load(e)' \in Nat /\ Load(e)' <= Load(e)
    <2> DEFINE P == Pending(e)
               Q == Pending(e)'
    <2>1. IsFiniteSet(P) /\ Cardinality(P) \in Nat
      BY LoadType DEF LeaseInv
    <2>2. Cardinality(Q) <= Cardinality(P) /\ Cardinality(Q) \in Nat
      <3> HIDE DEF P, Q
      <3>1. Q \subseteq P
        BY DEF P, Q
      <3> QED
        BY <2>1, <3>1, FS_Subset, FS_CardinalityType
    <2>3. Load(e)' = sends'[e] + Cardinality(Q) /\ Load(e) = sends[e] + Cardinality(P)
      BY DEF Load
    <2>4. sends[e] \in Nat
      BY DEF LeaseInv, TypeOK
    <2> HIDE DEF P, Q
    <2> QED
      BY <2>1, <2>2, <2>3, <2>4
  <1>4. Load(e) <= attemptCount[e] + faults + 1
    BY LoadBound
  <1>5. /\ ~Valid(e) => Load(e) <= attemptCount[e] + faults
        /\ Valid(e) => Load(e) + now + LeaseDuration
                        <= attemptCount[e] + faults + 1 + lease[e]
    BY DEF Budget
  <1>6. ~Valid(e)' => Load(e)' <= attemptCount'[e] + faults'
    BY <1>1, <1>2, <1>3, <1>4, <1>5
  <1>7. Valid(e)' => Load(e)' + now' + LeaseDuration
                        <= attemptCount'[e] + faults' + 1 + lease'[e]
    BY <1>1, <1>2, <1>3, <1>5
  <1> QED
    BY <1>6, <1>7 DEF Budget

(* A claim is worth one send more than a row that is not claimed. *)
LEMMA BudgetClaim ==
    ASSUME LeaseInv, LeaseInv', BudgetInv, NEW w \in Workers, ClaimDueDeliveries(w)
    PROVE  BudgetInv'
  <1>t. TypeOK /\ RowsInv /\ LocalsInv
    BY DEF LeaseInv
  <1>1. PICK S \in SUBSET Due :
            /\ \A e \in Events :
                    /\ e \in S => status'[e] = "IN_PROGRESS"
                                  /\ lease'[e] = now + LeaseDuration
                    /\ e \notin S => status'[e] = status[e] /\ lease'[e] = lease[e]
            /\ \A v \in Workers : v # w => batch'[v] = batch[v] /\ Holds(v)' = Holds(v)
            /\ batch'[w] = {[id |-> e, count |-> attemptCount[e],
                             lease |-> now + LeaseDuration] : e \in S}
    BY ClaimEffect
  <1>2. /\ UNCHANGED <<attemptCount, nextAt, sends, delivery, result, now, faults>>
        /\ pc[w] = "wait" /\ pc' = [pc EXCEPT ![w] = "dispatch"]
    BY DEF ClaimDueDeliveries
  <1>3. batch[w] = {} /\ pc'[w] = "dispatch" /\ \A v \in Workers : v # w => pc'[v] = pc[v]
    BY <1>t, <1>2 DEF LocalsInv, TypeOK
  <1>4. Live(w) = {} /\ Live(w)' = batch'[w] /\ \A v \in Workers : v # w => Live(v)' = Live(v)
    BY <1>1, <1>2, <1>3 DEF Live
  <1>5. \A c \in batch'[w] : c.id \in S /\ c.lease = now + LeaseDuration
    BY <1>1
  <1>s. \A e \in S : \E c \in batch'[w] : c.id = e
    <2> TAKE e \in S
    <2> DEFINE c == [id |-> e, count |-> attemptCount[e], lease |-> now + LeaseDuration]
    <2>1. c \in batch'[w] /\ c.id = e
      BY <1>1
    <2> QED
      BY <2>1
  <1> SUFFICES ASSUME NEW e \in Events PROVE Budget(e)'
    BY DEF BudgetInv
  <1>b. Budget(e)
    BY DEF BudgetInv
  <1>n. /\ Load(e) \in Nat /\ attemptCount[e] \in Nat /\ lease[e] \in Nat
        /\ now \in Nat /\ faults \in Nat /\ LeaseDuration \in Nat /\ LeaseDuration >= 1
        /\ sends[e] \in Nat /\ IsFiniteSet(Pending(e)) /\ Cardinality(Pending(e)) \in Nat
    BY <1>t, LoadType, WebhookAssumption DEF TypeOK
  <1>6. CASE e \notin S
    <2>1. Pending(e)' = Pending(e)
      BY <1>1, <1>3, <1>5, <1>6 DEF Pending
    <2>2. Valid(e)' <=> Valid(e)
      <3>1. lease'[e] = lease[e]
        BY <1>1, <1>6
      <3>2. \A c \in Live(w)' : c.id # e
        BY <1>4, <1>5, <1>6
      <3> QED
        BY <1>4, <3>1, <3>2 DEF Valid
    <2>3. TypeOK' /\ lease'[e] = lease[e] /\ faults' >= faults
      BY <1>1, <1>2, <1>6, <1>n DEF LeaseInv
    <2> QED
      BY <1>b, <1>2, <2>1, <2>2, <2>3, BudgetKeep
  <1>7. CASE e \in S
    <2>1. Load(e) <= attemptCount[e] + faults
      <3>1. CASE ~Valid(e)
        BY <1>b, <3>1 DEF Budget
      <3>2. CASE Valid(e)
        <4>1. lease[e] # 0
          BY <3>2 DEF Valid
        <4>2. status[e] = "IN_PROGRESS"
          BY <1>t, <4>1 DEF RowsInv
        <4>3. lease[e] <= now
          BY <1>7, <4>2 DEF Due
        <4>4. Load(e) + now + LeaseDuration <= attemptCount[e] + faults + 1 + lease[e]
          BY <1>b, <3>2 DEF Budget
        <4> QED
          BY <1>n, <4>3, <4>4
      <3> QED
        BY <3>1, <3>2
    <2>2. Load(e)' = Load(e) + 1
      <3> DEFINE P == Pending(e)
                 Q == Pending(e)'
      <3>1. w \notin P
        BY <1>3 DEF Pending
      <3>2. Q = P \cup {w}
        BY <1>1, <1>7, <1>s DEF Pending
      <3>3. Load(e) = sends[e] + Cardinality(P) /\ Load(e)' = sends[e] + Cardinality(Q)
        BY <1>2 DEF Load
      <3> HIDE DEF P, Q
      <3>4. IsFiniteSet(P) /\ Cardinality(P) \in Nat
        BY <1>n DEF P
      <3>5. Cardinality(Q) = Cardinality(P) + 1
        BY <3>1, <3>2, <3>4, FS_AddElement
      <3> QED
        BY <1>n, <3>3, <3>4, <3>5
    <2>3. lease'[e] = now + LeaseDuration
      BY <1>1, <1>7
    <2>4. lease'[e] # 0
      BY <1>n, <2>3
    <2>5. Valid(e)'
      <3>1. PICK c \in batch'[w] : c.id = e
        BY <1>7, <1>s
      <3> QED
        BY <1>4, <1>5, <2>3, <2>4, <3>1 DEF Valid
    <2>6. Load(e)' + now' + LeaseDuration <= attemptCount'[e] + faults' + 1 + lease'[e]
      BY <1>n, <1>2, <2>1, <2>2, <2>3
    <2> QED
      BY <2>5, <2>6 DEF Budget
  <1> QED
    BY <1>6, <1>7

(* A send takes a pending one; an answer that no row can store is a failure. *)
LEMMA BudgetDispatch ==
    ASSUME LeaseInv, LeaseInv', BudgetInv, NEW w \in Workers, Dispatch(w)
    PROVE  BudgetInv'
  <1>t. TypeOK /\ RowsInv /\ LocalsInv /\ ClaimsInv
    BY DEF LeaseInv
  <1>1. UNCHANGED <<attemptCount, lease, now>>
    BY DEF Dispatch, rowVars
  <1>2. PICK c \in batch[w], r \in ResponseKinds :
            /\ c \in Claims /\ c.id \in Events
            /\ IF r = "odd" THEN Fault("odd") ELSE UNCHANGED faults
            /\ sends' = [sends EXCEPT ![c.id] = @ + 1]
            /\ pc[w] = "dispatch" /\ delivery[w] = NoClaim
            /\ pc'[w] = "mark" /\ delivery'[w] = c /\ result'[w] = r
            /\ batch'[w] = batch[w] \ {c}
            /\ \A v \in Workers : v # w =>
                /\ pc'[v] = pc[v] /\ batch'[v] = batch[v]
                /\ delivery'[v] = delivery[v] /\ result'[v] = result[v]
    BY DispatchEffect
  <1>3. /\ Live(w) = batch[w]
        /\ r # "odd" => Live(w)' = batch[w]
        /\ Live(w)' \subseteq batch[w]
        /\ \A b \in batch[w] : b # c => b \in Live(w)'
        /\ \A v \in Workers : v # w => Live(v)' = Live(v)
    BY <1>2 DEF Live
  <1>4. \A b \in batch[w] : b.id = c.id => b = c
    BY <1>t, <1>2 DEF ClaimsInv, Holds
  <1>f. faults \in Nat /\ faults' \in Nat /\ faults' >= faults
        /\ (r = "odd" => faults' >= faults + 1)
    <2>1. faults \in 0..MaxFaults /\ MaxFaults \in Nat
      BY <1>t, WebhookAssumption DEF TypeOK
    <2> QED
      BY <1>2, <2>1, FaultBudget
  <1> SUFFICES ASSUME NEW e \in Events PROVE Budget(e)'
    BY DEF BudgetInv
  <1>b. Budget(e)
    BY DEF BudgetInv
  <1>n. /\ Load(e) \in Nat /\ attemptCount[e] \in Nat /\ lease[e] \in Nat
        /\ now \in Nat /\ LeaseDuration \in Nat
        /\ sends[e] \in Nat /\ IsFiniteSet(Pending(e)) /\ Cardinality(Pending(e)) \in Nat
    BY <1>t, LoadType, WebhookAssumption DEF TypeOK
  <1>5. Valid(e)' => Valid(e)
    BY <1>1, <1>3 DEF Valid
  <1>6. r # "odd" \/ c.id # e => (Valid(e) => Valid(e)')
    BY <1>1, <1>3 DEF Valid
  <1>7. CASE c.id # e
    <2>1. Pending(e)' = Pending(e)
      BY <1>2, <1>7 DEF Pending
    <2>2. sends'[e] = sends[e] /\ TypeOK'
      BY <1>t, <1>2, <1>7 DEF LeaseInv, TypeOK
    <2> QED
      BY <1>b, <1>1, <1>5, <1>6, <1>7, <1>f, <2>1, <2>2, BudgetKeep
  <1>8. CASE c.id = e
    <2>1. Load(e)' = Load(e)
      <3> DEFINE P == Pending(e)
                 Q == Pending(e)'
      <3>1. w \in P
        BY <1>2, <1>8 DEF Pending
      <3>2. Q = P \ {w}
        BY <1>2, <1>4, <1>8 DEF Pending
      <3>3. Load(e) = sends[e] + Cardinality(P) /\ Load(e)' = sends'[e] + Cardinality(Q)
        BY DEF Load
      <3>4. sends'[e] = sends[e] + 1
        BY <1>t, <1>2, <1>8 DEF TypeOK
      <3> HIDE DEF P, Q
      <3>5. IsFiniteSet(P) /\ Cardinality(P) \in Nat
        BY <1>n DEF P
      <3>6. Cardinality(Q) = Cardinality(P) - 1
        BY <3>1, <3>2, <3>5, FS_RemoveElement
      <3> QED
        BY <1>n, <3>3, <3>4, <3>5, <3>6
    <2>2. Load(e) <= attemptCount[e] + faults + 1
      BY <1>b, LoadBound
    <2>3. /\ ~Valid(e) => Load(e) <= attemptCount[e] + faults
          /\ Valid(e) => Load(e) + now + LeaseDuration
                        <= attemptCount[e] + faults + 1 + lease[e]
      BY <1>b DEF Budget
    <2>4. ~Valid(e)' => Load(e)' <= attemptCount'[e] + faults'
      BY <1>n, <1>f, <1>1, <1>6, <2>1, <2>2, <2>3
    <2>5. Valid(e)' => Load(e)' + now' + LeaseDuration
                        <= attemptCount'[e] + faults' + 1 + lease'[e]
      BY <1>n, <1>f, <1>1, <1>5, <2>1, <2>3
    <2> QED
      BY <2>4, <2>5 DEF Budget
  <1> QED
    BY <1>7, <1>8

(* A recorded outcome counts its send; an outcome that is dropped, for want   *)
(* of the lease, was worth nothing; a batch that is dropped takes its sends   *)
(* with it, or is a failure.                                                  *)
LEMMA BudgetMark ==
    ASSUME LeaseInv, LeaseInv', BudgetInv, NEW w \in Workers,
           Mark(w) \/ MarkFails(w) \/ Crash(w)
    PROVE  BudgetInv'
  <1>t. TypeOK /\ RowsInv /\ LocalsInv /\ ClaimsInv
    BY DEF LeaseInv
  <1>f. faults \in Nat /\ faults' \in Nat /\ faults' >= faults
        /\ \A k : Fault(k) => faults' >= faults + 1
    <2>1. faults \in 0..MaxFaults /\ MaxFaults \in Nat /\ faults' \in 0..MaxFaults
      BY <1>t, WebhookAssumption DEF TypeOK, LeaseInv
    <2>2. \A k : Fault(k) => faults' >= faults + 1
      BY <2>1, FaultBudget
    <2>3. faults' = faults \/ faults' >= faults + 1
      BY <2>2 DEF Mark, MarkFails, Crash
    <2> QED
      BY <2>1, <2>2, <2>3
  <1>1. /\ UNCHANGED <<sends, now>>
        /\ NextDelivery(w) \/ EndCycle(w)
    BY DEF Mark, MarkFails, Crash
  <1>2. /\ LocalsInv' /\ pc'[w] # "mark"
        /\ \A v \in Workers : v # w =>
                /\ pc'[v] = pc[v] /\ batch'[v] = batch[v]
                /\ delivery'[v] = delivery[v] /\ result'[v] = result[v]
    BY <1>t, <1>1, LetGo
  <1>3. /\ batch'[w] = batch[w] \/ batch'[w] = {}
        /\ NextDelivery(w) => batch'[w] = batch[w]
        /\ EndCycle(w) => batch'[w] = {}
    BY <1>t, <1>1 DEF NextDelivery, EndCycle, TypeOK
  <1>4. /\ Live(w)' = batch'[w] /\ batch'[w] \subseteq Live(w)
        /\ \A v \in Workers : v # w => Live(v)' = Live(v)
    BY <1>2, <1>3 DEF Live
  <1> SUFFICES ASSUME NEW e \in Events PROVE Budget(e)'
    BY DEF BudgetInv
  <1>b. Budget(e)
    BY DEF BudgetInv
  <1>n. /\ Load(e) \in Nat /\ attemptCount[e] \in Nat /\ lease[e] \in Nat
        /\ now \in Nat /\ LeaseDuration \in Nat /\ attemptCount'[e] \in Nat
        /\ sends[e] \in Nat /\ IsFiniteSet(Pending(e)) /\ Cardinality(Pending(e)) \in Nat
    BY <1>t, LoadType, WebhookAssumption DEF TypeOK, LeaseInv
  <1>5. Pending(e)' \subseteq Pending(e)
    BY <1>2, <1>3 DEF Pending
  <1>6. Load(e)' \in Nat /\ Load(e)' <= Load(e)
    <2> DEFINE P == Pending(e)
               Q == Pending(e)'
    <2>1. Load(e)' = sends'[e] + Cardinality(Q) /\ Load(e) = sends[e] + Cardinality(P)
      BY DEF Load
    <2>2. Q \subseteq P /\ IsFiniteSet(P) /\ Cardinality(P) \in Nat
      BY <1>5, <1>n
    <2> HIDE DEF P, Q
    <2>3. Cardinality(Q) <= Cardinality(P) /\ Cardinality(Q) \in Nat
      BY <2>2, FS_Subset, FS_CardinalityType
    <2> QED
      BY <1>1, <1>n, <2>1, <2>2, <2>3
  <1>7. Load(e) <= attemptCount[e] + faults + 1
    BY <1>b, LoadBound
  \* The row of another event, or one that is not written.
  <1>8. ASSUME attemptCount'[e] = attemptCount[e], lease'[e] = lease[e],
               (Valid(e) => Valid(e)') \/ faults' >= faults + 1
        PROVE  Budget(e)'
    <2>1. Valid(e)' => Valid(e)
      BY <1>4, <1>8 DEF Valid
    <2>2. sends'[e] = sends[e] /\ now' = now /\ TypeOK'
      BY <1>1 DEF LeaseInv
    <2> QED
      BY <1>b, <1>5, <1>8, <1>f, <2>1, <2>2, BudgetKeep
  <1>9. CASE pc[w] = "mark" /\ HasLease(w) /\ StoreOutcome(w, Outcome(w))
    <2>1. /\ attemptCount'[delivery[w].id] = attemptCount[delivery[w].id] + 1
          /\ lease'[delivery[w].id] = 0
          /\ \A u \in Events : u # delivery[w].id =>
                attemptCount'[u] = attemptCount[u] /\ lease'[u] = lease[u]
      BY <1>9, StoreEffect
    <2>2. CASE delivery[w].id = e
      <3>1. ~Valid(e)'
        BY <2>1, <2>2 DEF Valid
      <3>2. Load(e)' <= attemptCount'[e] + faults'
        BY <1>6, <1>7, <1>f, <1>n, <2>1, <2>2
      <3> QED
        BY <3>1, <3>2 DEF Budget
    <2>3. CASE delivery[w].id # e
      <3>1. faults' >= faults + 1 \/ batch'[w] = batch[w] \/ (UNCHANGED lease /\ EndCycle(w))
        BY <1>3, <1>f DEF Mark, MarkFails, Crash, rowVars
      <3>2. ~(UNCHANGED lease)
        <4>1. lease[delivery[w].id] = delivery[w].lease /\ delivery[w] \in Holds(w)
          BY <1>9, MarkHolds DEF HasLease
        <4>2. lease[delivery[w].id] # 0
          BY <1>t, <4>1 DEF ClaimsInv
        <4> QED
          BY <2>1, <4>2
      <3>3. batch'[w] = batch[w] => (Valid(e) => Valid(e)')
        BY <1>4, <2>1, <2>3 DEF Valid, Live
      <3> QED
        BY <1>8, <2>1, <2>3, <3>1, <3>2, <3>3
    <2> QED
      BY <2>2, <2>3
  <1>10. CASE UNCHANGED rowVars /\ faults' >= faults + 1
    BY <1>8, <1>10 DEF rowVars
  <1>11. CASE UNCHANGED rowVars /\ Mark(w)
    <2>1. UNCHANGED rowVars /\ batch'[w] = batch[w] /\ pc[w] = "mark"
      BY <1>3, <1>11 DEF Mark
    <2>2. ~HasLease(w) \/ ~UNCHANGED rowVars
      <3>1. CASE ~HasLease(w)
        BY <3>1
      <3>2. CASE HasLease(w) /\ StoreOutcome(w, Outcome(w))
        <4>1. lease'[delivery[w].id] = 0 /\ lease[delivery[w].id] = delivery[w].lease
          BY <2>1, <3>2, StoreEffect
        <4>2. lease[delivery[w].id] # 0
          BY <1>t, <2>1, <4>1, MarkHolds DEF ClaimsInv
        <4> QED
          BY <4>1, <4>2 DEF rowVars
      <3> QED
        BY <1>11, <3>1, <3>2 DEF Mark
    <2>3. lease[e] # 0 => status[e] = "IN_PROGRESS"
      BY <1>t DEF RowsInv
    <2>4. Valid(e) => Valid(e)'
      <3>1. ASSUME lease[e] # 0 PROVE ~(delivery[w].id = e /\ delivery[w].lease = lease[e])
        BY <2>1, <2>2, <2>3, <3>1 DEF HasLease
      <3>2. \A c \in Live(w) : c \in batch'[w] \/ c = delivery[w]
        BY <2>1 DEF Live
      <3>3. lease' = lease
        BY <2>1 DEF rowVars
      <3> QED
        BY <1>4, <3>1, <3>2, <3>3 DEF Valid
    <2> QED
      BY <1>8, <2>1, <2>4 DEF rowVars
  <1>12. CASE UNCHANGED rowVars /\ EndCycle(w) /\ pc[w] = "mark" /\ result[w] = "odd"
    <2>1. Live(w) = batch[w] /\ batch'[w] = {} /\ Live(w)' = {}
      BY <1>3, <1>4, <1>12 DEF Live
    <2>2. lease' = lease /\ attemptCount' = attemptCount
      BY <1>12 DEF rowVars
    <2>3. CASE w \notin Pending(e)
      <3>1. \A c \in Live(w) : c.id # e
        BY <2>1, <2>3 DEF Pending
      <3>2. Valid(e) => Valid(e)'
        BY <1>4, <2>2, <3>1 DEF Valid
      <3> QED
        BY <1>8, <2>2, <3>2
    <2>4. CASE w \in Pending(e)
      <3>1. Load(e)' = Load(e) - 1
        <4> DEFINE P == Pending(e)
                   Q == Pending(e)'
        <4>1. Q = P \ {w}
          BY <1>2, <2>1 DEF Pending
        <4>2. Load(e) = sends[e] + Cardinality(P) /\ Load(e)' = sends'[e] + Cardinality(Q)
          BY DEF Load
        <4>3. w \in P /\ IsFiniteSet(P) /\ Cardinality(P) \in Nat
          BY <1>n, <2>4
        <4> HIDE DEF P, Q
        <4>4. Cardinality(Q) = Cardinality(P) - 1
          BY <4>1, <4>3, FS_RemoveElement
        <4> QED
          BY <1>1, <1>n, <4>2, <4>3, <4>4
      <3>2. /\ Valid(e)' => Valid(e)
            /\ Valid(e) => Load(e) + now + LeaseDuration
                            <= attemptCount[e] + faults + 1 + lease[e]
        BY <1>b, <1>4, <2>2 DEF Valid, Budget
      <3>3. ~Valid(e)' => Load(e)' <= attemptCount'[e] + faults'
        BY <1>7, <1>f, <1>n, <2>2, <3>1
      <3>4. Valid(e)' => Load(e)' + now' + LeaseDuration
                            <= attemptCount'[e] + faults' + 1 + lease'[e]
        BY <1>1, <1>f, <1>n, <2>2, <3>1, <3>2
      <3> QED
        BY <3>3, <3>4 DEF Budget
    <2> QED
      BY <2>3, <2>4
  <1>13. \/ pc[w] = "mark" /\ HasLease(w) /\ StoreOutcome(w, Outcome(w))
         \/ UNCHANGED rowVars /\ faults' >= faults + 1
         \/ UNCHANGED rowVars /\ Mark(w)
         \/ UNCHANGED rowVars /\ EndCycle(w) /\ pc[w] = "mark" /\ result[w] = "odd"
    BY <1>f DEF Mark, MarkFails, Crash
  <1> QED
    BY <1>9, <1>10, <1>11, <1>12, <1>13

(* Time passes under a worker as a failure, otherwise nobody has a claim. *)
LEMMA BudgetTime ==
    ASSUME LeaseInv, LeaseInv', BudgetInv, Tick \/ SlowTick
    PROVE  BudgetInv'
  <1>t. TypeOK /\ LocalsInv
    BY DEF LeaseInv
  <1>1. UNCHANGED <<attemptCount, lease, sends, pc, batch, delivery, result>> /\ now' = now + 1
    BY DEF Tick, SlowTick, rowVars, workerVars
  <1> SUFFICES ASSUME NEW e \in Events PROVE Budget(e)'
    BY DEF BudgetInv
  <1>b. Budget(e)
    BY DEF BudgetInv
  <1>n. /\ Load(e) \in Nat /\ attemptCount[e] \in Nat /\ lease[e] \in Nat
        /\ now \in Nat /\ LeaseDuration \in Nat
    BY <1>t, LoadType, WebhookAssumption DEF TypeOK
  <1>2. (Valid(e)' <=> Valid(e)) /\ Load(e)' = Load(e)
    BY <1>1 DEF Valid, Live, Load, Pending
  <1>3. CASE Tick
    <2>1. \A w \in Workers : pc[w] = "wait" /\ Live(w) = {}
      BY <1>t, <1>3 DEF Tick, Quiet, LocalsInv, Live
    <2>2. ~Valid(e) /\ faults' = faults
      BY <1>3, <2>1 DEF Tick, Valid
    <2> QED
      BY <1>b, <1>1, <1>2, <2>2 DEF Budget
  <1>4. CASE SlowTick
    <2>1. faults \in Nat /\ faults' = faults + 1
      <3>1. faults \in 0..MaxFaults /\ MaxFaults \in Nat /\ Fault("slow")
        BY <1>t, <1>4, WebhookAssumption DEF SlowTick, TypeOK
      <3> QED
        BY <3>1, FaultBudget
    <2>2. ~Valid(e) => Load(e) <= attemptCount[e] + (faults + 1)
      BY <1>b, <1>n, <2>1 DEF Budget
    <2>3. Valid(e) => Load(e) + (now + 1) + LeaseDuration
                        <= attemptCount[e] + (faults + 1) + 1 + lease[e]
      BY <1>b, <1>n, <2>1 DEF Budget
    <2> QED
      BY <1>1, <1>2, <2>1, <2>2, <2>3 DEF Budget
  <1> QED
    BY <1>3, <1>4

(* Nothing has been sent, and nothing claimed. *)
LEMMA BudgetInit == Init => BudgetInv
  <1> SUFFICES ASSUME Init, NEW e \in Events PROVE Budget(e)
    BY DEF BudgetInv
  <1>1. Pending(e) = {} /\ ~Valid(e)
    BY DEF Init, Pending, Valid
  <1>2. Load(e) = 0
    BY <1>1, FS_EmptySet DEF Init, Load
  <1> QED
    BY <1>1, <1>2 DEF Init, Budget

(* The budget invariant is inductive, next to the lease invariant. *)
LEMMA BudgetStep == LeaseInv /\ LeaseInv' /\ BudgetInv /\ [Next]_vars => BudgetInv'
  <1> SUFFICES ASSUME LeaseInv, LeaseInv', BudgetInv, [Next]_vars PROVE BudgetInv'
    OBVIOUS
  <1>k. ASSUME UNCHANGED <<attemptCount, lease, sends, pc, batch, delivery, result, now, faults>>
        PROVE  BudgetInv'
    BY <1>k DEF BudgetInv, Budget, Load, Pending, Valid, Live
  <1>1. ASSUME NEW e \in Events, StatusChanges(e)
        PROVE  BudgetInv'
    BY <1>k, <1>1 DEF StatusChanges, rowVars, workerVars
  <1>2. ASSUME NEW w \in Workers, ScheduleTransferStatusDeliveries(w)
        PROVE  BudgetInv'
    <2>1. attemptCount' = attemptCount
      <3>1. attemptCount \in [Events -> Nat] /\ \A e \in Schedulable : attemptCount[e] = 0
        BY DEF Schedulable, LeaseInv, TypeOK, RowsInv
      <3> QED
        BY <1>2, <3>1 DEF ScheduleTransferStatusDeliveries
    <2> QED
      BY <1>k, <1>2, <2>1 DEF ScheduleTransferStatusDeliveries, workerVars
  <1>3. CASE UNCHANGED vars
    BY <1>k, <1>3 DEF vars, rowVars, workerVars
  <1> QED
    BY <1>1, <1>2, <1>3, BudgetClaim, BudgetDispatch, BudgetMark, BudgetTime
    DEF Next, WorkerStep

-----------------------------------------------------------------------------
(* Theorems *)

LEMMA LeaseAlways == Spec => []LeaseInv
  BY LeaseInit, LeaseStep, PTL DEF Spec

(* The rows and the workers' locals keep their types. *)
THEOREM DeliveriesTyped == Spec => []TypeOK
  <1>1. LeaseInv => TypeOK
    BY DEF LeaseInv
  <1> QED
    BY <1>1, LeaseAlways, PTL

(* The constraints of migration 000011 are never violated: attempts stay      *)
(* within the budget, a row has a lease exactly while it is in progress, and  *)
(* one that has FAILED has used its budget up.                                *)
THEOREM RowsStayConsistent == Spec => []RowsConsistent
  <1>1. LeaseInv => RowsConsistent
    BY DEF LeaseInv, RowsInv, RowsConsistent
  <1> QED
    BY <1>1, LeaseAlways, PTL

(* The lease timestamp is a fencing token (ClaimDueDeliveries): whatever the  *)
(* workers' delays, no two of them hold claims of one row that both carry the *)
(* timestamp stored in it.                                                    *)
THEOREM LeaseFences == Spec => []OneOwner
  <1>1. LeaseInv => OneOwner
    BY DEF LeaseInv
  <1> QED
    BY <1>1, LeaseAlways, PTL

(* A row that says DELIVERED was accepted by its receiver (processDelivery,   *)
(* MarkDelivered).                                                            *)
THEOREM DeliveredMeansAccepted == Spec => []DeliveredWasAccepted
  <1>1. AcceptedInv => DeliveredWasAccepted
    BY DEF AcceptedInv, DeliveredWasAccepted
  <1> QED
    BY <1>1, AcceptedInit, AcceptedStep, LeaseAlways, PTL DEF Spec

(* Final rows stay, and attempts are counted one by one, through every claim, *)
(* late result and failed update (the fenced Mark operations).                *)
THEOREM ResultsNeverStale == Spec => NoStaleResult
  <1> DEFINE Step == \A e \in Events :
                        /\ status[e] \in Final => status'[e] = status[e]
                        /\ attemptCount'[e] \in {attemptCount[e], attemptCount[e] + 1}
  <1>1. LeaseInv /\ [Next]_vars => [Step]_vars
    <2> SUFFICES ASSUME LeaseInv, Next PROVE Step
      OBVIOUS
    <2>k. ASSUME UNCHANGED <<status, attemptCount>> PROVE Step
      BY <2>k
    <2>1. ASSUME NEW w \in Workers, ScheduleTransferStatusDeliveries(w)
          PROVE  Step
      BY <2>1 DEF ScheduleTransferStatusDeliveries, Schedulable, Final, LeaseInv, RowsInv
    <2>2. ASSUME NEW w \in Workers, ClaimDueDeliveries(w)
          PROVE  Step
      <3>1. PICK S \in SUBSET Due : \A e \in Events : e \notin S => status'[e] = status[e]
        BY <2>2, ClaimEffect
      <3>2. \A e \in Due : status[e] \notin Final
        BY DEF Due, Final
      <3>3. attemptCount' = attemptCount
        BY <2>2 DEF ClaimDueDeliveries
      <3> QED
        BY <3>1, <3>2, <3>3
    <2>3. ASSUME NEW w \in Workers, Mark(w) \/ MarkFails(w)
          PROVE  Step
      <3>1. CASE UNCHANGED rowVars
        BY <2>k, <3>1 DEF rowVars
      <3>2. CASE pc[w] = "mark" /\ HasLease(w) /\ StoreOutcome(w, Outcome(w))
        <4>1. /\ status[delivery[w].id] = "IN_PROGRESS"
              /\ attemptCount'[delivery[w].id] = attemptCount[delivery[w].id] + 1
              /\ \A u \in Events : u # delivery[w].id =>
                    status'[u] = status[u] /\ attemptCount'[u] = attemptCount[u]
          BY <3>2, StoreEffect
        <4> QED
          BY <4>1 DEF Final
      <3> QED
        BY <2>3, <3>1, <3>2 DEF Mark, MarkFails
    <2>4. (\E e \in Events : StatusChanges(e))
          \/ (\E w \in Workers : Dispatch(w) \/ Crash(w)) \/ Tick \/ SlowTick
          => UNCHANGED <<status, attemptCount>>
      BY DEF StatusChanges, Dispatch, Crash, Tick, SlowTick, rowVars
    <2> QED
      BY <2>k, <2>1, <2>2, <2>3, <2>4 DEF Next, WorkerStep
  <1>2. [Step]_vars => [\A e \in Events :
                        /\ status[e] \in Final => status'[e] = status[e]
                        /\ attemptCount'[e] \in {attemptCount[e], attemptCount[e] + 1}]_vars
    OBVIOUS
  <1> HIDE DEF Step
  <1> QED
    BY <1>1, <1>2, LeaseAlways, PTL DEF Spec, NoStaleResult

(* WEBHOOK_MAX_ATTEMPTS caps the sends of a callback up to one more for every *)
(* failure, for every number of workers and every batch.                      *)
THEOREM SendsAreBudgeted == Spec => []SendBudget
  <1>1. Spec => []BudgetInv
    BY BudgetInit, BudgetStep, LeaseAlways, PTL DEF Spec
  <1>2. LeaseInv /\ BudgetInv => SendBudget
    <2> SUFFICES ASSUME LeaseInv, BudgetInv, NEW e \in Events
                 PROVE  sends[e] <= MaxAttempts + faults
      BY DEF SendBudget
    <2>1. Budget(e) /\ TypeOK /\ RowsInv
      BY DEF BudgetInv, LeaseInv
    <2>2. /\ Load(e) \in Nat /\ sends[e] \in Nat /\ Cardinality(Pending(e)) \in Nat
          /\ attemptCount[e] \in Nat /\ faults \in Nat /\ MaxAttempts \in Nat
      BY <2>1, LoadType, WebhookAssumption DEF TypeOK
    <2>3. sends[e] <= Load(e)
      BY <2>2 DEF Load
    <2>4. CASE Valid(e)
      <3>1. attemptCount[e] < MaxAttempts
        BY <2>1, <2>4 DEF Valid, RowsInv, Final
      <3>2. Load(e) <= attemptCount[e] + faults + 1
        BY <2>1, LoadBound
      <3> QED
        BY <2>2, <2>3, <3>1, <3>2
    <2>5. CASE ~Valid(e)
      <3>1. attemptCount[e] <= MaxAttempts /\ Load(e) <= attemptCount[e] + faults
        BY <2>1, <2>5 DEF RowsInv, Budget
      <3> QED
        BY <2>2, <2>3, <3>1
    <2> QED
      BY <2>4, <2>5
  <1> QED
    BY <1>1, <1>2, LeaseAlways, PTL
=============================================================================
