------------------------ MODULE ReconciliationProofs ------------------------
(***************************************************************************)
(* Reconciliation for any sets of transfers and runs and any number of      *)
(* failures: what the rows of a run say, that their counts are right, when  *)
(* verdicts can go back, and of which transfers the mismatch list is true,  *)
(* with runs that overlap.                                                  *)
(***************************************************************************)
EXTENDS Reconciliation, FiniteSetTheorems, NaturalsInduction, WellFoundedInduction,
        TLAPS

-----------------------------------------------------------------------------
(* The inductive invariant *)

Compared == {"SUBMITTED", "PENDING_ON_CHAIN", "CONFIRMED", "FAILED"}

TypeInv ==
    /\ TypeOK
    /\ status \in [Transfers -> LifeStatuses]
    /\ txHash \in [Transfers -> Transfers \cup {NoHash}]
    /\ receipt \in [Transfers -> ReceiptStatuses \ {"NOT_FOUND"}]
    /\ results \in Seq(Rows)

\* A transfer claims its own transaction, from its submission on.
Claims ==
    \A t \in Transfers :
        /\ txHash[t] # NoHash => txHash[t] = t /\ status[t] \in Compared
        /\ status[t] \in {"SUBMITTED", "PENDING_ON_CHAIN", "CONFIRMED"} => txHash[t] = t

\* A snapshot is behind the table, and behind the snapshots of the runs that
\* started after its run had returned.
SnapsBehind ==
    \A r \in Runs : \A t \in Transfers :
        /\ Rank(snap[r][t]) <= Rank(status[t])
        /\ \A q \in earlier[r] : Rank(snap[q][t]) <= Rank(snap[r][t])

\* Of two snapshots one is behind the other for every transfer.
SnapsOrdered ==
    \A q, r \in Runs :
        \/ \A t \in Transfers : Rank(snap[q][t]) <= Rank(snap[r][t])
        \/ \A t \in Transfers : Rank(snap[r][t]) <= Rank(snap[q][t])

\* The runs that had returned have returned.
EarlierReturned == \A r \in Runs : earlier[r] \subseteq Returned

\* What is left to compare is from the snapshot, and has no row of this run.
TodoFromSnap ==
    \A r \in Runs :
        /\ at[r] # "running" => todo[r] = {}
        /\ \A c \in todo[r] :
            /\ c.hash = c.transfer
            /\ c.status = snap[r][c.transfer]
            /\ c.status \in Compared
            /\ \A i \in 1..Len(results) :
                    ~(results[i].run = r /\ results[i].transfer = c.transfer)

\* A row holds what its run compared: the snapshot and the receipt.
RowsFromSnap ==
    \A i \in 1..Len(results) :
        LET row == results[i]
        IN  /\ at[row.run] # "new"
            /\ row.status = snap[row.run][row.transfer]
            /\ row.status \in Compared
            /\ row.mismatch = compareStatuses(row.status, receipt[row.transfer])

\* A transfer that claims a transaction, and did when the run read it, is still
\* to be compared or has a row.
Covered ==
    \A r \in Runs : at[r] \in {"running", "ok"} =>
        \A t \in Transfers : txHash[t] # NoHash /\ snap[r][t] \in Compared =>
            \/ \E c \in todo[r] : c.transfer = t
            \/ \E i \in 1..Len(results) :
                    results[i].run = r /\ results[i].transfer = t

\* One row per transfer and run, the rows of earlier runs first.
RowsInOrder ==
    \A i, k \in 1..Len(results) :
        /\ results[i].run = results[k].run /\ results[i].transfer = results[k].transfer
                => i = k
        /\ results[i].run \in earlier[results[k].run] => i < k

\* The rows of a run that say mismatch.
Mismatched(r) == {i \in Stored(r) : results[i].mismatch}

\* The counts of a run that has not failed are those of its rows.
CountsInv ==
    \A r \in Runs :
        /\ at[r] = "new" => counts[r] = NoCounts
        /\ at[r] # "error" =>
            /\ counts[r].checked = Cardinality(Stored(r))
            /\ counts[r].mismatched = Cardinality(Mismatched(r))
            /\ counts[r].checked = counts[r].matched + counts[r].mismatched

ReconInv ==
    /\ TypeInv
    /\ Claims
    /\ SnapsBehind
    /\ SnapsOrdered
    /\ EarlierReturned
    /\ TodoFromSnap
    /\ RowsFromSnap
    /\ Covered
    /\ RowsInOrder
    /\ CountsInv

-----------------------------------------------------------------------------
(* The transfers move on *)

(* Every step of a transfer goes further, and a hash is written only by the   *)
(* submission, which comes from SIGNING.                                      *)
LEMMA LifeEffect ==
    ASSUME TypeInv, Claims, LifeNext
    PROVE  /\ status' \in [Transfers -> LifeStatuses]
           /\ txHash' \in [Transfers -> Transfers \cup {NoHash}]
           /\ Claims'
           /\ \A t \in Transfers :
                /\ Rank(status[t]) <= Rank(status'[t])
                /\ txHash'[t] # NoHash => txHash[t] # NoHash \/ status[t] = "SIGNING"
  <1>t. /\ status \in [Transfers -> LifeStatuses]
        /\ txHash \in [Transfers -> Transfers \cup {NoHash}]
    BY DEF TypeInv
  <1>1. PICK t \in Transfers : StepAlongPath(t) \/ Accept(t) \/ Submit(t) \/ GiveUp(t)
    BY DEF LifeNext
  <1>2. CASE StepAlongPath(t)
    <2>1. PICK s \in LifeStatuses : <<status[t], s>> \in PathSteps /\ Move(t, s)
      BY <1>2 DEF StepAlongPath
    <2>2. txHash' = txHash /\ status' = [status EXCEPT ![t] = s]
      BY <1>2, <2>1 DEF StepAlongPath, Move
    <2>3. /\ Rank(status[t]) <= Rank(s)
          /\ s \in {"SUBMITTED", "PENDING_ON_CHAIN", "CONFIRMED"}
                => status[t] = "SUBMITTED"
          /\ status[t] \in Compared => s \in Compared
      BY <2>1 DEF PathSteps, Rank, Compared
    <2>4. \A s2 \in LifeStatuses : Rank(s2) <= Rank(s2)
      BY DEF Rank, LifeStatuses
    <2> QED
      BY <1>t, <2>2, <2>3, <2>4 DEF Claims
  <1>3. CASE Accept(t)
    <2>1. \A s2 \in LifeStatuses : Rank(s2) <= Rank(s2)
      BY DEF Rank, LifeStatuses
    <2> QED
      BY <1>t, <1>3, <2>1 DEF Accept, Claims
  <1>4. CASE Submit(t)
    <2>1. /\ status[t] = "SIGNING" /\ txHash' = [txHash EXCEPT ![t] = t]
          /\ status' = [status EXCEPT ![t] = "SUBMITTED"]
      BY <1>4 DEF Submit, Move
    <2>2. /\ Rank("SIGNING") <= Rank("SUBMITTED")
          /\ \A s2 \in LifeStatuses : Rank(s2) <= Rank(s2)
      BY DEF Rank, LifeStatuses
    <2>3. "SUBMITTED" \in LifeStatuses
      BY DEF LifeStatuses
    <2> QED
      BY <1>t, <2>1, <2>2, <2>3 DEF Claims, Compared
  <1>5. CASE GiveUp(t)
    <2>1. /\ status[t] \in {"CREATED", "VALIDATED", "QUEUED", "SIGNING", "SUBMITTED"}
          /\ txHash' = txHash /\ status' = [status EXCEPT ![t] = "FAILED"]
      BY <1>5 DEF GiveUp, Move
    <2>2. /\ Rank(status[t]) <= Rank("FAILED")
          /\ \A s2 \in LifeStatuses : Rank(s2) <= Rank(s2)
      BY <2>1 DEF Rank, LifeStatuses
    <2>3. "FAILED" \in LifeStatuses
      BY DEF LifeStatuses
    <2> QED
      BY <1>t, <2>1, <2>2, <2>3 DEF Claims, Compared
  <1> QED
    BY <1>1, <1>2, <1>3, <1>4, <1>5

(* The ranks of the statuses are comparable. *)
LEMMA RankType == \A s : Rank(s) \in 0..7
  BY DEF Rank

(* Transfers that move on stay ahead of what the runs have read. *)
LEMMA LifeKeeps ==
    ASSUME ReconInv, LifeNext, UNCHANGED reconVars
    PROVE  ReconInv'
  <1>u. /\ UNCHANGED <<receipt, results, at, todo, counts, snap, earlier, faults>>
    BY DEF reconVars, runVars
  <1>t. TypeInv
    BY DEF ReconInv
  <1>1. /\ status' \in [Transfers -> LifeStatuses]
        /\ txHash' \in [Transfers -> Transfers \cup {NoHash}]
        /\ Claims'
        /\ \A t \in Transfers :
             /\ Rank(status[t]) <= Rank(status'[t])
             /\ txHash'[t] # NoHash => txHash[t] # NoHash \/ status[t] = "SIGNING"
    BY LifeEffect DEF ReconInv
  <1>2. TypeInv'
    BY <1>u, <1>t, <1>1 DEF TypeInv, TypeOK
  <1>3. SnapsBehind'
    <2> SUFFICES ASSUME NEW r \in Runs, NEW t \in Transfers
                 PROVE  Rank(snap[r][t]) <= Rank(status'[t])
      BY <1>u DEF ReconInv, SnapsBehind
    <2>1. Rank(snap[r][t]) <= Rank(status[t])
      BY DEF ReconInv, SnapsBehind
    <2>2. /\ Rank(snap[r][t]) \in Int
          /\ Rank(status[t]) \in Int
          /\ Rank(status'[t]) \in Int
      BY RankType
    <2> QED
      BY <1>1, <2>1, <2>2
  <1>4. EarlierReturned' /\ TodoFromSnap' /\ RowsInOrder' /\ CountsInv'
    <2>1. EarlierReturned' /\ TodoFromSnap' /\ RowsInOrder'
      BY <1>u DEF ReconInv, EarlierReturned, Returned, TodoFromSnap, RowsInOrder
    <2>2. \A r : Stored(r)' = Stored(r) /\ Mismatched(r)' = Mismatched(r)
      BY <1>u DEF Stored, Mismatched
    <2>3. CountsInv'
      BY <1>u, <2>2 DEF ReconInv, CountsInv
    <2> QED
      BY <2>1, <2>3
  <1>5. RowsFromSnap' /\ SnapsOrdered'
    BY <1>u DEF ReconInv, RowsFromSnap, SnapsOrdered
  <1>6. Covered'
    <2> SUFFICES ASSUME NEW r \in Runs, at[r] \in {"running", "ok"},
                        NEW t \in Transfers,
                        txHash'[t] # NoHash, snap[r][t] \in Compared
                 PROVE  \/ \E c \in todo[r] : c.transfer = t
                        \/ \E i \in 1..Len(results) :
                                results[i].run = r /\ results[i].transfer = t
      BY <1>u DEF Covered
    <2>1. txHash[t] # NoHash
      <3>1. Rank(snap[r][t]) <= Rank(status[t])
        BY DEF ReconInv, SnapsBehind
      <3>2. Rank(snap[r][t]) \in 4..7
        BY DEF Rank, Compared
      <3>3. Rank("SIGNING") = 3
        BY DEF Rank
      <3>4. status[t] # "SIGNING"
        BY <3>1, <3>2, <3>3
      <3> QED
        BY <1>1, <3>4
    <2> QED
      BY <2>1 DEF ReconInv, Covered
  <1> QED
    BY <1>1, <1>2, <1>3, <1>4, <1>5, <1>6 DEF ReconInv

-----------------------------------------------------------------------------
(* The runs *)

(* The candidates are the transfers that claim a transaction. *)
LEMMA CandidatesFacts ==
    ASSUME TypeInv, Claims
    PROVE  /\ CandidateSet \subseteq Candidates
           /\ \A c \in CandidateSet :
                c.hash = c.transfer /\ c.status = status[c.transfer] /\ c.status \in Compared
           /\ \A t \in Transfers : txHash[t] # NoHash /\ status[t] \in Compared
                => \E c \in CandidateSet : c.transfer = t
  <1>t. /\ status \in [Transfers -> LifeStatuses]
        /\ txHash \in [Transfers -> Transfers \cup {NoHash}]
    BY DEF TypeInv
  <1>1. ASSUME NEW c \in CandidateSet
        PROVE  /\ c \in Candidates
               /\ c.hash = c.transfer /\ c.status = status[c.transfer]
               /\ c.status \in Compared
    <2>1. PICK t \in Transfers :
            /\ txHash[t] # NoHash /\ status[t] \in Compared
            /\ c = [transfer |-> t, hash |-> txHash[t], status |-> status[t]]
      BY DEF CandidateSet, Compared
    <2>2. txHash[t] = t
      BY <2>1 DEF Claims
    <2> QED
      BY <1>t, <2>1, <2>2 DEF Candidates
  <1>2. ASSUME NEW t \in Transfers, txHash[t] # NoHash, status[t] \in Compared
        PROVE  \E c \in CandidateSet : c.transfer = t
    <2>1. [transfer |-> t, hash |-> txHash[t], status |-> status[t]] \in CandidateSet
      BY <1>2 DEF CandidateSet, Compared
    <2> QED
      BY <2>1
  <1> QED
    BY <1>1, <1>2

(* A run that reads its candidates is ahead of all that have read theirs. *)
LEMMA ListKeeps ==
    ASSUME ReconInv, NEW r \in Runs, ListCandidates(r)
    PROVE  ReconInv'
  <1>t. TypeInv /\ TypeOK
    BY DEF ReconInv, TypeInv
  <1>u. /\ UNCHANGED <<status, txHash, receipt, results>>
        /\ at[r] = "new"
        /\ snap' = [snap EXCEPT ![r] = status]
        /\ earlier' = [earlier EXCEPT ![r] = Returned]
    BY DEF ListCandidates, lifeVars
  <1>a. /\ \A q \in Runs : q # r => /\ at'[q] = at[q] /\ todo'[q] = todo[q]
                                    /\ counts'[q] = counts[q]
        /\ counts'[r] = NoCounts
        /\ \/ at'[r] = "running" /\ todo'[r] = CandidateSet
           \/ at'[r] = "error" /\ todo'[r] = {}
    BY <1>t, <1>u DEF ListCandidates, Abort, TypeOK, ReconInv, CountsInv
  <1>s. /\ \A q \in Runs : q # r => snap'[q] = snap[q] /\ earlier'[q] = earlier[q]
        /\ snap'[r] = status
        /\ earlier'[r] = Returned
    BY <1>t, <1>u DEF TypeOK
  <1>n. \A i \in 1..Len(results) : results[i].run \in Runs /\ results[i].run # r
    BY <1>t, <1>u DEF ReconInv, RowsFromSnap, TypeOK, Rows
  <1>1. TypeInv'
    <2>0. NoCounts \in [checked : Nat, matched : Nat, mismatched : Nat]
      BY DEF NoCounts
    <2>1. faults' \in 0..MaxFaults
      <3>1. faults \in 0..MaxFaults
        BY <1>t DEF TypeOK
      <3>2. faults' = faults \/ (faults < MaxFaults /\ faults' = faults + 1)
        BY DEF ListCandidates, Abort
      <3> QED
        BY <3>1, <3>2, ReconciliationAssumption
    <2>2. /\ at' \in [Runs -> {"new", "running", "ok", "error"}]
          /\ todo' \in [Runs -> SUBSET Candidates]
          /\ counts' \in [Runs -> [checked : Nat, matched : Nat, mismatched : Nat]]
      <3>1. CandidateSet \subseteq Candidates
        BY CandidatesFacts DEF ReconInv
      <3>2. CASE Abort(r)
        BY <1>t, <2>0, <3>2 DEF Abort, TypeOK
      <3>3. CASE /\ at' = [at EXCEPT ![r] = "running"]
                 /\ todo' = [todo EXCEPT ![r] = CandidateSet]
                 /\ UNCHANGED counts
        BY <1>t, <3>1, <3>3 DEF TypeOK
      <3> QED
        BY <3>2, <3>3 DEF ListCandidates
    <2>3. /\ snap' \in [Runs -> [Transfers -> LifeStatuses]]
          /\ earlier' \in [Runs -> SUBSET Runs]
      BY <1>t, <1>u DEF TypeOK, TypeInv, Returned
    <2> QED
      BY <1>t, <1>u, <2>1, <2>2, <2>3 DEF TypeInv, TypeOK
  <1>2. Claims'
    BY <1>u DEF ReconInv, Claims
  <1>e. \A q \in Runs : r \notin earlier[q]
    BY <1>u DEF ReconInv, EarlierReturned, Returned
  <1>3. SnapsBehind'
    <2> SUFFICES ASSUME NEW q \in Runs, NEW t \in Transfers
                 PROVE  /\ Rank(snap'[q][t]) <= Rank(status[t])
                        /\ \A p \in earlier'[q] : Rank(snap'[p][t]) <= Rank(snap'[q][t])
      BY <1>u DEF SnapsBehind
    <2>1. Rank(status[t]) <= Rank(status[t])
      BY RankType
    <2>2. \A p \in Runs : Rank(snap[p][t]) <= Rank(status[t])
      BY DEF ReconInv, SnapsBehind
    <2>3. CASE q = r
      <3>1. \A p \in Returned : p \in Runs /\ p # r
        BY <1>u DEF Returned
      <3> QED
        BY <1>s, <2>1, <2>2, <2>3, <3>1
    <2>4. CASE q # r
      <3>1. earlier[q] \subseteq Runs
        BY <1>t DEF TypeOK
      <3> QED
        BY <1>s, <1>e, <2>2, <2>4, <3>1 DEF ReconInv, SnapsBehind
    <2> QED
      BY <2>3, <2>4
  <1>4. EarlierReturned'
    <2>1. Returned \subseteq Returned'
      BY <1>a, <1>u DEF Returned
    <2> QED
      BY <1>s, <2>1 DEF ReconInv, EarlierReturned
  <1>5. TodoFromSnap'
    <2> SUFFICES ASSUME NEW q \in Runs
                 PROVE  /\ at'[q] # "running" => todo'[q] = {}
                        /\ \A c \in todo'[q] :
                            /\ c.hash = c.transfer
                            /\ c.status = snap'[q][c.transfer]
                            /\ c.status \in Compared
                            /\ \A i \in 1..Len(results) :
                                 ~(results[i].run = q /\ results[i].transfer = c.transfer)
      BY <1>u DEF TodoFromSnap
    <2>1. CASE q = r
      BY <1>a, <1>n, <1>s, <2>1, CandidatesFacts DEF ReconInv
    <2>2. CASE q # r
      BY <1>a, <1>s, <2>2 DEF ReconInv, TodoFromSnap
    <2> QED
      BY <2>1, <2>2
  <1>6. RowsFromSnap'
    BY <1>a, <1>n, <1>s, <1>u DEF ReconInv, RowsFromSnap
  <1>7. Covered'
    <2> SUFFICES ASSUME NEW q \in Runs, at'[q] \in {"running", "ok"},
                        NEW t \in Transfers,
                        txHash[t] # NoHash, snap'[q][t] \in Compared
                 PROVE  \/ \E c \in todo'[q] : c.transfer = t
                        \/ \E i \in 1..Len(results) :
                                results[i].run = q /\ results[i].transfer = t
      BY <1>u DEF Covered
    <2>1. CASE q = r
      BY <1>a, <1>s, <2>1, CandidatesFacts DEF ReconInv
    <2>2. CASE q # r
      BY <1>a, <1>s, <2>2 DEF ReconInv, Covered
    <2> QED
      BY <2>1, <2>2
  <1>8. RowsInOrder'
    BY <1>n, <1>s, <1>u DEF ReconInv, RowsInOrder
  <1>9. CountsInv'
    <2>1. \A q : Stored(q)' = Stored(q) /\ Mismatched(q)' = Mismatched(q)
      BY <1>u DEF Stored, Mismatched
    <2>2. CASE at'[r] = "running"
      BY <1>a, <1>u, <2>1, <2>2 DEF ReconInv, CountsInv
    <2>3. CASE at'[r] = "error"
      BY <1>a, <1>u, <2>1, <2>3 DEF ReconInv, CountsInv
    <2> QED
      BY <1>a, <2>2, <2>3
  <1>10. SnapsOrdered'
    <2> SUFFICES ASSUME NEW p \in Runs, NEW q \in Runs
                 PROVE  \/ \A t \in Transfers : Rank(snap'[p][t]) <= Rank(snap'[q][t])
                        \/ \A t \in Transfers : Rank(snap'[q][t]) <= Rank(snap'[p][t])
      BY DEF SnapsOrdered
    <2>1. \A x \in Runs : \A t \in Transfers : Rank(snap'[x][t]) <= Rank(snap'[r][t])
      BY <1>3, <1>s, <1>u DEF SnapsBehind
    <2>2. CASE p = r \/ q = r
      BY <2>1, <2>2
    <2>3. CASE p # r /\ q # r
      BY <1>s, <2>3 DEF ReconInv, SnapsOrdered
    <2> QED
      BY <2>2, <2>3
  <1> QED
    BY <1>1, <1>2, <1>3, <1>4, <1>5, <1>6, <1>7, <1>8, <1>9, <1>10 DEF ReconInv

(* A run returns when all it has read is stored. *)
LEMMA CompleteKeeps ==
    ASSUME ReconInv, NEW r \in Runs, Complete(r)
    PROVE  ReconInv'
  <1>t. TypeInv /\ TypeOK
    BY DEF ReconInv, TypeInv
  <1>u. /\ UNCHANGED <<status, txHash, receipt, results, todo, counts, snap, earlier, faults>>
        /\ at[r] = "running" /\ todo[r] = {}
        /\ at' = [at EXCEPT ![r] = "ok"]
    BY DEF Complete, lifeVars
  <1>a. /\ \A q \in Runs : q # r => at'[q] = at[q]
        /\ at'[r] = "ok"
    BY <1>t, <1>u DEF TypeOK
  <1>1. TypeInv'
    BY <1>t, <1>u DEF TypeInv, TypeOK
  <1>2. Claims' /\ SnapsBehind' /\ SnapsOrdered' /\ RowsInOrder'
    BY <1>u DEF ReconInv, Claims, SnapsBehind, SnapsOrdered, RowsInOrder
  <1>3. EarlierReturned'
    <2>1. Returned \subseteq Returned'
      BY <1>a DEF Returned
    <2> QED
      BY <1>u, <2>1 DEF ReconInv, EarlierReturned
  <1>4. TodoFromSnap'
    BY <1>u, <1>a DEF ReconInv, TodoFromSnap
  <1>5. RowsFromSnap'
    <2>1. \A i \in 1..Len(results) : results[i].run \in Runs
      BY <1>t DEF TypeOK, Rows
    <2> QED
      BY <1>u, <1>a, <2>1 DEF ReconInv, RowsFromSnap
  <1>6. Covered'
    BY <1>u, <1>a DEF ReconInv, Covered
  <1>7. CountsInv'
    <2>1. \A q : Stored(q)' = Stored(q) /\ Mismatched(q)' = Mismatched(q)
      BY <1>u DEF Stored, Mismatched
    <2> QED
      BY <1>a, <1>u, <2>1 DEF ReconInv, CountsInv
  <1> QED
    BY <1>1, <1>2, <1>3, <1>4, <1>5, <1>6, <1>7 DEF ReconInv

(* A row is appended. *)
LEMMA StoreEffect ==
    ASSUME ReconInv, NEW r \in Runs, NEW c \in todo[r], Store(r, c)
    PROVE  LET n == Len(results) + 1
           IN  /\ results' \in Seq(Rows)
               /\ Len(results') = n
               /\ \A i \in 1..Len(results) : results'[i] = results[i]
               /\ results'[n].transfer = c.transfer
               /\ results'[n].status = c.status
               /\ results'[n].mismatch = compareStatuses(c.status, receipt[c.transfer])
               /\ results'[n].mismatch = compareStatuses(c.status, CheckReceipt(c.hash))
               /\ results'[n].run = r
  <1> DEFINE row == [transfer |-> c.transfer, status |-> c.status,
                     receipt |-> CheckReceipt(c.hash),
                     mismatch |-> compareStatuses(c.status, CheckReceipt(c.hash)),
                     run |-> r]
  <1>1. c \in Candidates /\ c.transfer \in Transfers /\ c.status \in LifeStatuses
    BY DEF ReconInv, TypeInv, TypeOK, Candidates
  <1>2. CheckReceipt(c.hash) = receipt[c.transfer]
    BY <1>1, ReconciliationAssumption DEF ReconInv, TodoFromSnap, CheckReceipt
  <1>3. receipt[c.transfer] \in ReceiptStatuses
    BY <1>1 DEF ReconInv, TypeInv, TypeOK
  <1>4. compareStatuses(c.status, CheckReceipt(c.hash)) \in BOOLEAN
    BY DEF compareStatuses
  <1>5. row \in Rows
    BY <1>1, <1>2, <1>3, <1>4 DEF Rows
  <1>6. results' = Append(results, row)
    BY DEF Store
  <1>7. results \in Seq(Rows)
    BY DEF ReconInv, TypeInv
  <1>8. /\ row.transfer = c.transfer /\ row.status = c.status /\ row.run = r
        /\ row.mismatch = compareStatuses(c.status, CheckReceipt(c.hash))
    OBVIOUS
  <1> HIDE DEF row
  <1>9. /\ results' \in Seq(Rows)
        /\ Len(results') = Len(results) + 1
        /\ \A i \in 1..Len(results) : results'[i] = results[i]
        /\ results'[Len(results) + 1] = row
    BY <1>5, <1>6, <1>7
  <1> QED
    BY <1>2, <1>8, <1>9

(* The rows of a run are finitely many, and grow by the one that is appended. *)
LEMMA StoredGrows ==
    ASSUME ReconInv, NEW r \in Runs, NEW c \in todo[r], Store(r, c)
    PROVE  LET n == Len(results) + 1
           IN  /\ Cardinality(Stored(r)) \in Nat /\ Cardinality(Mismatched(r)) \in Nat
               /\ Cardinality(Stored(r)') = Cardinality(Stored(r)) + 1
               /\ Cardinality(Mismatched(r)') = Cardinality(Mismatched(r))
                        + (IF results'[n].mismatch THEN 1 ELSE 0)
               /\ \A q \in Runs : q # r => Stored(q)' = Stored(q) /\ Mismatched(q)' = Mismatched(q)
  <1> DEFINE n == Len(results) + 1
             S == Stored(r)
             M == Mismatched(r)
  <1>l. Len(results) \in Nat
    BY DEF ReconInv, TypeInv
  <1>s. /\ Len(results') = n
        /\ \A i \in 1..Len(results) : results'[i] = results[i]
        /\ results'[n].run = r
    BY StoreEffect
  <1>1. IsFiniteSet(S) /\ IsFiniteSet(M)
    <2>1. IsFiniteSet(1..Len(results))
      BY <1>l, FS_Interval
    <2>2. S \subseteq 1..Len(results) /\ M \subseteq 1..Len(results)
      BY DEF Stored, Mismatched
    <2> QED
      BY <2>1, <2>2, FS_Subset
  <1>2. n \notin S /\ n \notin M
    BY <1>l DEF Stored, Mismatched
  <1>3. Stored(r)' = S \cup {n}
    BY <1>l, <1>s DEF Stored
  <1>4. Mismatched(r)' = IF results'[n].mismatch THEN M \cup {n} ELSE M
    BY <1>l, <1>s DEF Stored, Mismatched
  <1>5. ASSUME NEW q \in Runs, q # r
        PROVE  Stored(q)' = Stored(q) /\ Mismatched(q)' = Mismatched(q)
    BY <1>l, <1>s, <1>5 DEF Stored, Mismatched
  <1> HIDE DEF n, S, M
  <1>6. /\ Cardinality(S) \in Nat /\ Cardinality(S \cup {n}) = Cardinality(S) + 1
        /\ Cardinality(M) \in Nat /\ Cardinality(M \cup {n}) = Cardinality(M) + 1
    BY <1>1, <1>2, FS_AddElement, FS_CardinalityType
  <1>7. Cardinality(Mismatched(r)') = Cardinality(M) + (IF results'[n].mismatch THEN 1 ELSE 0)
    BY <1>4, <1>6
  <1>8. Cardinality(Stored(r)') = Cardinality(S) + 1
    BY <1>3, <1>6
  <1> QED
    BY <1>5, <1>6, <1>7, <1>8 DEF n, S, M

(* A comparison stores a row of the snapshot; a run that fails may have too. *)
LEMMA CheckKeeps ==
    ASSUME ReconInv, NEW r \in Runs, CheckCandidate(r)
    PROVE  ReconInv'
  <1>t. TypeInv /\ TypeOK
    BY DEF ReconInv, TypeInv
  <1>u. UNCHANGED <<status, txHash, receipt, snap, earlier>> /\ at[r] = "running"
    BY DEF CheckCandidate, lifeVars
  <1>c. PICK c \in todo[r] :
          \/ /\ Store(r, c)
             /\ todo' = [todo EXCEPT ![r] = @ \ {c}]
             /\ counts' = [counts EXCEPT ![r] =
                              Count(@, compareStatuses(c.status, CheckReceipt(c.hash)))]
             /\ UNCHANGED <<at, faults>>
          \/ Abort(r) /\ (Store(r, c) \/ UNCHANGED results)
    BY DEF CheckCandidate
  <1>d. /\ c \in Candidates /\ c.hash = c.transfer /\ c.transfer \in Transfers
        /\ c.status = snap[r][c.transfer] /\ c.status \in Compared
        /\ \A i \in 1..Len(results) :
                ~(results[i].run = r /\ results[i].transfer = c.transfer)
    BY <1>t DEF TypeOK, Candidates, ReconInv, TodoFromSnap
  <1> DEFINE n == Len(results) + 1
             Stores == /\ Len(results') = n
                       /\ results' \in Seq(Rows)
                       /\ \A i \in 1..Len(results) : results'[i] = results[i]
                       /\ results'[n].transfer = c.transfer
                       /\ results'[n].status = c.status
                       /\ results'[n].mismatch = compareStatuses(c.status, receipt[c.transfer])
                       /\ results'[n].run = r
  <1>l. Len(results) \in Nat
    BY <1>t DEF TypeInv
  <1>a. /\ \A q \in Runs : q # r => /\ at'[q] = at[q] /\ todo'[q] = todo[q]
                                    /\ counts'[q] = counts[q]
        /\ \/ /\ at'[r] = "running" /\ todo'[r] = todo[r] \ {c} /\ Stores
              /\ counts'[r] = Count(counts[r], results'[n].mismatch)
              /\ Store(r, c)
           \/ at'[r] = "error" /\ todo'[r] = {} /\ (UNCHANGED results \/ (Stores /\ Store(r, c)))
    <2>1. Store(r, c) => Stores
      BY StoreEffect
    <2>2. Store(r, c) => results'[n].mismatch = compareStatuses(c.status, CheckReceipt(c.hash))
      BY StoreEffect
    <2> HIDE DEF n, Stores
    <2>3. CASE Abort(r) /\ (Store(r, c) \/ UNCHANGED results)
      BY <1>t, <2>1, <2>3 DEF Abort, TypeOK
    <2>4. CASE ~Abort(r)
      BY <1>c, <1>t, <1>u, <2>1, <2>2, <2>4 DEF TypeOK
    <2> QED
      BY <1>c, <2>3, <2>4
  <1>r. \A i \in 1..Len(results) : results[i].run \in Runs
    BY <1>t DEF TypeOK, Rows
  <1>e. \A q \in Runs : r \notin earlier[q]
    BY <1>u DEF ReconInv, EarlierReturned, Returned
  <1>1. TypeInv'
    <2>0. NoCounts \in [checked : Nat, matched : Nat, mismatched : Nat]
      BY DEF NoCounts
    <2>1. faults' \in 0..MaxFaults
      <3>1. faults \in 0..MaxFaults
        BY <1>t DEF TypeOK
      <3>2. faults' = faults \/ (faults < MaxFaults /\ faults' = faults + 1)
        BY <1>c DEF Abort
      <3> QED
        BY <3>1, <3>2, ReconciliationAssumption
    <2>2. /\ at' \in [Runs -> {"new", "running", "ok", "error"}]
          /\ todo' \in [Runs -> SUBSET Candidates]
          /\ counts' \in [Runs -> [checked : Nat, matched : Nat, mismatched : Nat]]
      <3>1. CASE Abort(r)
        BY <1>t, <2>0, <3>1 DEF Abort, TypeOK
      <3>2. CASE ~Abort(r)
        <4>1. ASSUME NEW m \in BOOLEAN
              PROVE  Count(counts[r], m) \in [checked : Nat, matched : Nat, mismatched : Nat]
          BY <1>t DEF Count, TypeOK
        <4>2. compareStatuses(c.status, CheckReceipt(c.hash)) \in BOOLEAN
          BY DEF compareStatuses
        <4> QED
          BY <1>c, <1>t, <3>2, <4>1, <4>2 DEF TypeOK
      <3> QED
        BY <3>1, <3>2
    <2>3. results' \in Seq(Rows)
      BY <1>a, <1>t DEF TypeInv
    <2>4. \A i \in 1..Len(results') : results'[i] \in Rows
      BY <2>3
    <2> QED
      BY <1>t, <1>u, <2>1, <2>2, <2>3, <2>4 DEF TypeInv, TypeOK
  <1>2. Claims' /\ SnapsBehind' /\ SnapsOrdered'
    BY <1>u DEF ReconInv, Claims, SnapsBehind, SnapsOrdered
  <1>4. EarlierReturned'
    <2>1. Returned \subseteq Returned'
      BY <1>a, <1>u DEF Returned
    <2> QED
      BY <1>u, <2>1 DEF ReconInv, EarlierReturned
  <1>5. TodoFromSnap'
    <2> SUFFICES ASSUME NEW q \in Runs
                 PROVE  /\ at'[q] # "running" => todo'[q] = {}
                        /\ \A d \in todo'[q] :
                            /\ d.hash = d.transfer
                            /\ d.status = snap[q][d.transfer]
                            /\ d.status \in Compared
                            /\ \A i \in 1..Len(results') :
                                 ~(results'[i].run = q /\ results'[i].transfer = d.transfer)
      BY <1>u DEF TodoFromSnap
    <2>1. at'[q] # "running" => todo'[q] = {}
      BY <1>a DEF ReconInv, TodoFromSnap
    <2>2. ASSUME NEW d \in todo'[q]
          PROVE  /\ d \in todo[q] /\ d.hash = d.transfer /\ d.status = snap[q][d.transfer]
                 /\ d.status \in Compared
                 /\ \A i \in 1..Len(results) :
                        ~(results[i].run = q /\ results[i].transfer = d.transfer)
                 /\ q = r => d # c /\ d.transfer # c.transfer
      <3>1. d \in todo[q] /\ (q = r => d # c)
        BY <1>a, <2>2
      <3>2. d \in Candidates
        BY <1>t, <3>1 DEF TypeOK
      <3>3. d.hash = d.transfer /\ d.status = snap[q][d.transfer]
        BY <3>1 DEF ReconInv, TodoFromSnap
      <3>4. q = r /\ d.transfer = c.transfer => d = c
        BY <1>d, <3>2, <3>3 DEF Candidates
      <3> QED
        BY <3>1, <3>3, <3>4 DEF ReconInv, TodoFromSnap
    <2>3. ASSUME NEW d \in todo'[q], NEW i \in 1..Len(results'),
                 results'[i].run = q, results'[i].transfer = d.transfer
          PROVE  FALSE
      <3>1. CASE i \in 1..Len(results)
        BY <1>a, <2>2, <2>3, <3>1
      <3>2. CASE i \notin 1..Len(results)
        <4>1. Stores /\ i = n
          BY <1>a, <1>l, <3>2
        <4> QED
          BY <2>2, <2>3, <4>1
      <3> QED
        BY <3>1, <3>2
    <2> QED
      BY <2>1, <2>2, <2>3
  <1>6. RowsFromSnap'
    <2> SUFFICES ASSUME NEW i \in 1..Len(results')
                 PROVE  /\ at'[results'[i].run] # "new"
                        /\ results'[i].status = snap[results'[i].run][results'[i].transfer]
                        /\ results'[i].status \in Compared
                        /\ results'[i].mismatch =
                              compareStatuses(results'[i].status, receipt[results'[i].transfer])
      BY <1>u DEF RowsFromSnap
    <2>1. CASE i \in 1..Len(results)
      BY <1>a, <1>r, <2>1 DEF ReconInv, RowsFromSnap
    <2>2. CASE i \notin 1..Len(results)
      <3>1. Stores /\ i = n
        BY <1>a, <1>l, <2>2
      <3> QED
        BY <1>a, <1>d, <3>1
    <2> QED
      BY <2>1, <2>2
  <1>7. Covered'
    <2> SUFFICES ASSUME NEW q \in Runs, at'[q] \in {"running", "ok"},
                        NEW t \in Transfers,
                        txHash[t] # NoHash, snap[q][t] \in Compared
                 PROVE  \/ \E d \in todo'[q] : d.transfer = t
                        \/ \E i \in 1..Len(results') :
                                results'[i].run = q /\ results'[i].transfer = t
      BY <1>u DEF Covered
    <2>1. \/ \E d \in todo[q] : d.transfer = t
          \/ \E i \in 1..Len(results) : results[i].run = q /\ results[i].transfer = t
      BY <1>a, <1>u DEF ReconInv, Covered
    <2>2. CASE \E i \in 1..Len(results) : results[i].run = q /\ results[i].transfer = t
      BY <1>a, <1>l, <2>2
    <2>3. ASSUME NEW d \in todo[q], d.transfer = t
          PROVE  \/ \E x \in todo'[q] : x.transfer = t
                 \/ \E i \in 1..Len(results') :
                         results'[i].run = q /\ results'[i].transfer = t
      <3>1. CASE q = r /\ d = c
        <4>1. Stores
          BY <1>a, <3>1
        <4>2. n \in 1..Len(results')
          BY <1>l, <4>1
        <4> QED
          BY <2>3, <3>1, <4>1, <4>2
      <3>2. CASE ~(q = r /\ d = c)
        BY <1>a, <2>3, <3>2
      <3> QED
        BY <3>1, <3>2
    <2> QED
      BY <2>1, <2>2, <2>3
  <1>8. RowsInOrder'
    <2> SUFFICES ASSUME NEW i \in 1..Len(results'), NEW k \in 1..Len(results')
                 PROVE  /\ results'[i].run = results'[k].run
                              /\ results'[i].transfer = results'[k].transfer => i = k
                        /\ results'[i].run \in earlier[results'[k].run] => i < k
      BY <1>u DEF RowsInOrder
    <2>1. CASE i \in 1..Len(results) /\ k \in 1..Len(results)
      BY <1>a, <2>1 DEF ReconInv, RowsInOrder
    <2>2. CASE i \in 1..Len(results) /\ k \notin 1..Len(results)
      <3>1. Stores /\ k = n
        BY <1>a, <1>l, <2>2
      <3> QED
        BY <1>d, <1>l, <2>2, <3>1
    <2>3. CASE i \notin 1..Len(results)
      <3>1. Stores /\ i = n
        BY <1>a, <1>l, <2>3
      <3>2. results'[k].run \in Runs
        BY <1>1 DEF TypeInv, TypeOK, Rows
      <3>3. k \in 1..Len(results) \/ k = n
        BY <1>l, <3>1
      <3> QED
        BY <1>d, <1>e, <3>1, <3>2, <3>3
    <2> QED
      BY <2>1, <2>2, <2>3
  <1>9. CountsInv'
    <2>1. CASE UNCHANGED results
      <3>1. \A q : Stored(q)' = Stored(q) /\ Mismatched(q)' = Mismatched(q)
        BY <2>1 DEF Stored, Mismatched
      <3>2. at'[r] = "error"
        BY <1>a, <1>l, <2>1
      <3> QED
        BY <1>a, <3>1, <3>2 DEF ReconInv, CountsInv
    <2>2. CASE Store(r, c)
      <3>1. /\ Cardinality(Stored(r)) \in Nat /\ Cardinality(Mismatched(r)) \in Nat
            /\ Cardinality(Stored(r)') = Cardinality(Stored(r)) + 1
            /\ Cardinality(Mismatched(r)') = Cardinality(Mismatched(r))
                        + (IF results'[n].mismatch THEN 1 ELSE 0)
            /\ \A q \in Runs : q # r => Stored(q)' = Stored(q) /\ Mismatched(q)' = Mismatched(q)
        BY <2>2, StoredGrows
      <3>2. ASSUME at'[r] # "error"
            PROVE  /\ counts'[r].checked = Cardinality(Stored(r)')
                   /\ counts'[r].mismatched = Cardinality(Mismatched(r)')
                   /\ counts'[r].checked = counts'[r].matched + counts'[r].mismatched
        <4>1. counts'[r] = Count(counts[r], results'[n].mismatch)
          BY <1>a, <3>2
        <4>2. /\ counts[r].checked = Cardinality(Stored(r))
              /\ counts[r].mismatched = Cardinality(Mismatched(r))
              /\ counts[r].checked = counts[r].matched + counts[r].mismatched
          BY <1>u DEF ReconInv, CountsInv
        <4>3. counts[r].matched \in Nat
          BY <1>t DEF TypeOK
        <4> QED
          BY <3>1, <4>1, <4>2, <4>3 DEF Count
      <3>3. at'[r] # "new"
        BY <1>a
      <3> QED
        BY <1>a, <3>1, <3>2, <3>3 DEF ReconInv, CountsInv
    <2> QED
      BY <1>a, <2>1, <2>2
  <1> QED
    BY <1>1, <1>2, <1>4, <1>5, <1>6, <1>7, <1>8, <1>9 DEF ReconInv

-----------------------------------------------------------------------------
(* The theorems *)

LEMMA ReconInit == Init => ReconInv
  <1> SUFFICES ASSUME Init PROVE ReconInv
    OBVIOUS
  <1>1. /\ status = [t \in Transfers |-> "CREATED"]
        /\ txHash = [t \in Transfers |-> NoHash]
        /\ receipt \in [Transfers -> ReceiptStatuses \ {"NOT_FOUND"}]
        /\ results = << >> /\ Len(results) = 0
        /\ at = [r \in Runs |-> "new"]
        /\ todo = [r \in Runs |-> {}]
        /\ counts = [r \in Runs |-> NoCounts]
        /\ snap = [r \in Runs |-> status]
        /\ earlier = [r \in Runs |-> {}]
        /\ faults = 0
    BY DEF Init, LifeInit
  <1>2. TypeInv
    <2>1. status \in [Transfers -> LifeStatuses]
      BY <1>1 DEF LifeStatuses
    <2>2. NoCounts \in [checked : Nat, matched : Nat, mismatched : Nat]
      BY DEF NoCounts
    <2>3. receipt \in [Transfers -> ReceiptStatuses]
      BY <1>1
    <2>4. results \in Seq(Rows) /\ \A i \in 1..Len(results) : results[i] \in Rows
      BY <1>1
    <2>5. at \in [Runs -> {"new", "running", "ok", "error"}] /\ faults \in 0..MaxFaults
      BY <1>1, ReconciliationAssumption
    <2>6. /\ todo \in [Runs -> SUBSET Candidates] /\ earlier \in [Runs -> SUBSET Runs]
          /\ snap \in [Runs -> [Transfers -> LifeStatuses]]
          /\ counts \in [Runs -> [checked : Nat, matched : Nat, mismatched : Nat]]
      BY <1>1, <2>1, <2>2
    <2> QED
      BY <1>1, <2>1, <2>3, <2>4, <2>5, <2>6 DEF TypeInv, TypeOK
  <1>3. Claims /\ EarlierReturned /\ TodoFromSnap /\ RowsFromSnap /\ Covered /\ RowsInOrder
    BY <1>1 DEF Claims, EarlierReturned, TodoFromSnap, RowsFromSnap, Covered, RowsInOrder
  <1>4. SnapsBehind /\ SnapsOrdered
    <2>1. /\ \A r \in Runs : \A t \in Transfers : snap[r][t] = "CREATED"
          /\ \A t \in Transfers : status[t] = "CREATED"
          /\ \A r \in Runs : earlier[r] = {}
      BY <1>1
    <2>2. Rank("CREATED") <= Rank("CREATED")
      BY DEF Rank
    <2> QED
      BY <2>1, <2>2 DEF SnapsBehind, SnapsOrdered
  <1>5. CountsInv
    <2>1. ASSUME NEW r \in Runs
          PROVE  Stored(r) = {} /\ Mismatched(r) = {}
      BY <1>1 DEF Stored, Mismatched
    <2>2. Cardinality({}) = 0
      BY FS_EmptySet
    <2>3. /\ \A r \in Runs : counts[r] = NoCounts
          /\ NoCounts.checked = 0 /\ NoCounts.matched = 0 /\ NoCounts.mismatched = 0
      BY <1>1 DEF NoCounts
    <2> QED
      BY <2>1, <2>2, <2>3 DEF CountsInv
  <1> QED
    BY <1>2, <1>3, <1>4, <1>5 DEF ReconInv

(* Steps that change nothing keep the invariant. *)
LEMMA ReconStutter == ReconInv /\ UNCHANGED vars => ReconInv'
  <1> SUFFICES ASSUME ReconInv, UNCHANGED vars PROVE ReconInv'
    OBVIOUS
  <1>u. UNCHANGED <<status, txHash, receipt, results, at, todo, counts, snap, earlier, faults>>
    BY DEF vars, lifeVars, reconVars, runVars
  <1>1. TypeInv'
    BY <1>u DEF ReconInv, TypeInv, TypeOK
  <1>2. /\ Claims' /\ SnapsBehind' /\ SnapsOrdered' /\ EarlierReturned' /\ TodoFromSnap'
        /\ RowsFromSnap' /\ Covered' /\ RowsInOrder'
    BY <1>u DEF ReconInv, Claims, SnapsBehind, SnapsOrdered, EarlierReturned, Returned, TodoFromSnap,
                RowsFromSnap, Covered, RowsInOrder
  <1>3. \A r : Stored(r)' = Stored(r) /\ Mismatched(r)' = Mismatched(r)
    BY <1>u DEF Stored, Mismatched
  <1>4. CountsInv'
    BY <1>u, <1>3 DEF ReconInv, CountsInv
  <1> QED
    BY <1>1, <1>2, <1>4 DEF ReconInv

(* So the invariant holds throughout. *)
LEMMA ReconAlways == Spec => []ReconInv
  <1>1. ReconInv /\ [Next]_vars => ReconInv'
    BY LifeKeeps, ListKeeps, CheckKeeps, CompleteKeeps, ReconStutter DEF Next
  <1> QED
    BY <1>1, ReconInit, PTL DEF Spec

(* The rows, the runs and what they keep have their types, whatever fails in  *)
(* between (Run and ListLatestMismatches).                                    *)
THEOREM RunsTyped == Spec => []TypeOK
  <1>1. ReconInv => TypeOK
    BY DEF ReconInv, TypeInv
  <1> QED
    BY <1>1, ReconAlways, PTL

(* The RunResult a successful run answers with counts exactly the rows it     *)
(* stored, one per candidate, for any number of runs that overlap it.         *)
THEOREM CountsAreRight == Spec => []CountsMatchRows
  <1>1. ReconInv => CountsMatchRows
    <2> SUFFICES ASSUME ReconInv, NEW r \in Runs
                 PROVE  /\ at[r] \in {"running", "ok"} =>
                            /\ counts[r].checked = Cardinality(Stored(r))
                            /\ counts[r].mismatched = Cardinality(Mismatched(r))
                            /\ counts[r].checked = counts[r].matched + counts[r].mismatched
                        /\ \A i, k \in Stored(r) :
                                results[i].transfer = results[k].transfer => i = k
      BY DEF CountsMatchRows, Mismatched
    <2>1. \A i, k \in Stored(r) : results[i].transfer = results[k].transfer => i = k
      BY DEF ReconInv, RowsInOrder, Stored
    <2> QED
      BY <2>1 DEF ReconInv, CountsInv
  <1> QED
    BY <1>1, ReconAlways, PTL

(* A verdict goes back only if its run overlapped the run of the verdict it   *)
(* covers and had read every transfer no later, for any number of runs: a     *)
(* snapshot is behind those of the runs that start later (ListCandidates).    *)
THEOREM VerdictsFollow == Spec => []VerdictsAdvance
  <1>1. ReconInv => VerdictsAdvance
    <2> SUFFICES ASSUME ReconInv,
                        NEW i \in 1..Len(results), NEW j \in 1..Len(results),
                        results[i].transfer = results[j].transfer,
                        Rank(results[j].status) < Rank(results[i].status)
                 PROVE  /\ results[i].run \notin earlier[results[j].run]
                        /\ \A t \in Transfers :
                            Rank(snap[results[j].run][t]) <= Rank(snap[results[i].run][t])
      BY DEF VerdictsAdvance
    <2> DEFINE old == results[i].run
               new == results[j].run
               u == results[i].transfer
    <2>1. old \in Runs /\ new \in Runs /\ u \in Transfers
      BY DEF ReconInv, TypeInv, TypeOK, Rows
    <2>2. results[i].status = snap[old][u] /\ results[j].status = snap[new][u]
      BY DEF ReconInv, RowsFromSnap
    <2>3. ~(Rank(snap[old][u]) <= Rank(snap[new][u]))
      <3>1. Rank(snap[old][u]) \in Int /\ Rank(snap[new][u]) \in Int
        BY RankType
      <3> QED
        BY <2>2, <3>1
    <2>4. old \notin earlier[new]
      BY <2>1, <2>3 DEF ReconInv, SnapsBehind
    <2>5. \A t \in Transfers : Rank(snap[new][t]) <= Rank(snap[old][t])
      BY <2>1, <2>3 DEF ReconInv, SnapsOrdered
    <2> QED
      BY <2>4, <2>5
  <1> QED
    BY <1>1, ReconAlways, PTL

(* The comparison says mismatch exactly if status and receipt contradict each *)
(* other, for every status that is compared and every receipt of a hash.      *)
LEMMA CompareIsRight ==
    \A s \in Compared : \A x \in ReceiptStatuses \ {"NOT_FOUND"} :
        compareStatuses(s, x) = Contradicts(s, x)
  <1> SUFFICES ASSUME NEW s \in Compared, NEW x \in ReceiptStatuses \ {"NOT_FOUND"}
               PROVE  compareStatuses(s, x) <=> Contradicts(s, x)
    BY DEF compareStatuses, Contradicts
  <1>1. /\ DOMAIN Tolerated = Compared
        /\ Tolerated["SUBMITTED"] = {"PENDING", "NOT_FOUND"}
        /\ Tolerated["PENDING_ON_CHAIN"] = {"PENDING", "NOT_FOUND"}
        /\ Tolerated["CONFIRMED"] = {"CONFIRMED"}
        /\ Tolerated["FAILED"] = {"FAILED", "NOT_FOUND"}
    BY DEF Tolerated, Compared
  <1>2. x \in {"PENDING", "CONFIRMED", "FAILED"}
    BY DEF ReceiptStatuses
  <1>3. s \in {"SUBMITTED", "PENDING_ON_CHAIN", "CONFIRMED", "FAILED"}
    BY DEF Compared
  <1> QED
    BY <1>1, <1>2, <1>3 DEF compareStatuses, Contradicts

(* A transfer that has rows has a last one. *)
LEMMA LastRow ==
    ASSUME Len(results) \in Nat, NEW t, RowsOf(t) # {}
    PROVE  \E k \in RowsOf(t) : \A m \in RowsOf(t) : m <= k
  <1> DEFINE R == OpToRel(<, Nat)
             After == {n \in Nat : n <= Len(results) /\ Len(results) - n \in RowsOf(t)}
  <1>1. \A x, y \in Nat : x < y => <<x, y>> \in R
    BY DEF OpToRel
  <1>2. \A m \in RowsOf(t) : /\ m \in 1..Len(results)
                             /\ Len(results) - m \in After
    BY DEF RowsOf
  <1>3. PICK n \in After : \A m \in After : <<m, n>> \notin R
    <2>1. IsWellFoundedOn(R, Nat)
      BY NatLessThanWellFounded
    <2>2. After \subseteq Nat /\ After # {}
      BY <1>2
    <2> HIDE DEF R, After
    <2> QED
      BY <2>1, <2>2, WFMin
  <1> HIDE DEF R
  <1>4. ASSUME NEW m \in RowsOf(t) PROVE m <= Len(results) - n
    <2>1. m \in 1..Len(results) /\ Len(results) - m \in After
      BY <1>2
    <2>2. ~(Len(results) - m < n)
      BY <1>1, <1>3, <2>1
    <2> QED
      BY <1>3, <2>1, <2>2
  <1> QED
    BY <1>3, <1>4

(* After a run the mismatch list is true of every transfer that has not moved *)
(* since, unless an overlapping run had read it before it moved, for any      *)
(* number of runs whatever became of them (Run, compareStatuses,              *)
(* ListLatestMismatches).                                                     *)
THEOREM MismatchesAreTrue == Spec => []ListIsTrue
  <1>1. ReconInv => ListIsTrue
    <2> SUFFICES ASSUME ReconInv, NEW r \in Runs, at[r] = "ok",
                        NEW t \in Transfers, txHash[t] # NoHash, snap[r][t] = status[t],
                        Outdated(r, t) = {}
                 PROVE  LatestIsMismatch(t) <=> Contradicts(status[t], receipt[t])
      BY DEF ListIsTrue, ListLatestMismatches
    <2>l. Len(results) \in Nat
      BY DEF ReconInv, TypeInv
    <2>c. status[t] \in Compared
      BY DEF ReconInv, Claims
    <2>1. PICK i \in 1..Len(results) : results[i].run = r /\ results[i].transfer = t
      BY <2>c DEF ReconInv, Covered, TodoFromSnap
    <2>2. ASSUME NEW k \in RowsOf(t), i <= k
          PROVE  results[k].mismatch = Contradicts(status[t], receipt[t])
      <3>1. /\ k \in 1..Len(results) /\ results[k].transfer = t
            /\ results[k].run \in Runs /\ at[results[k].run] # "new"
        BY <2>2 DEF RowsOf, ReconInv, TypeInv, TypeOK, Rows, RowsFromSnap
      <3>2. snap[results[k].run][t] = status[t]
        <4>1. CASE results[k].run = r
          BY <4>1
        <4>2. CASE results[k].run \in earlier[r]
          BY <2>l, <2>1, <2>2, <3>1, <4>2 DEF ReconInv, RowsInOrder
        <4>3. CASE results[k].run # r /\ results[k].run \notin earlier[r]
          BY <3>1, <4>3 DEF Outdated
        <4> QED
          BY <4>1, <4>2, <4>3
      <3>3. results[k].mismatch = compareStatuses(status[t], receipt[t])
        BY <3>1, <3>2 DEF ReconInv, RowsFromSnap
      <3>4. receipt[t] \in ReceiptStatuses \ {"NOT_FOUND"}
        BY DEF ReconInv, TypeInv
      <3> QED
        BY <2>c, <3>3, <3>4, CompareIsRight
    <2>3. i \in RowsOf(t)
      BY <2>1 DEF RowsOf
    <2>4. PICK k \in RowsOf(t) : \A m \in RowsOf(t) : m <= k
      BY <2>l, <2>3, LastRow
    <2>5. ASSUME NEW m \in RowsOf(t), \A n \in RowsOf(t) : n <= m
          PROVE  m = k
      BY <2>l, <2>4, <2>5 DEF RowsOf
    <2> QED
      BY <2>2, <2>3, <2>4, <2>5 DEF LatestIsMismatch
  <1> QED
    BY <1>1, ReconAlways, PTL
=============================================================================
