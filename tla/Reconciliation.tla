--------------------------- MODULE Reconciliation ---------------------------
(***************************************************************************)
(* Reconciliation runs: each POST /api/v1/jobs/reconcile lists the          *)
(* transfers that claim a transaction, compares each one's status with the  *)
(* receipt of its transaction and stores a verdict; the mismatch list shows *)
(* the latest verdict of each transfer (reconciliation/service.go,          *)
(* checker.go, postgres_repository.go).                                     *)
(*                                                                          *)
(* A run works on the statuses it read at its start, while the workers move *)
(* the transfers on and other runs store their verdicts: the transfers move *)
(* as TransferLifecycle allows, which is what TransferProcessing            *)
(* implements. One step is one statement of the database.                   *)
(*                                                                          *)
(* Abstractions.                                                            *)
(*  - Candidates are handled in any order, not the most recently updated    *)
(*    first.                                                                *)
(*  - Rows are kept in the order of checked_at, the time of the INSERT.     *)
(*  - The placeholder checker computes the receipt from a digest of the     *)
(*    hash: some fixed function of the hash, chosen at the start.           *)
(***************************************************************************)
EXTENDS TransferLifecycle, FiniteSets

CONSTANTS
    Runs,       \* reconciliation runs, one per request
    MaxFaults   \* bound: how many failures happen in a behaviour

ASSUME ReconciliationAssumption ==
    /\ NoHash \notin Transfers
    /\ MaxFaults \in Nat

VARIABLES
    receipt,   \* what the checker says of each transaction hash
    results,   \* reconciliation_results rows, in the order of checked_at
    at,        \* where the run is: new, running, or how it returned
    todo,      \* the candidates it has not compared yet
    counts,    \* its RunResult
    snap,      \* the statuses when it read its candidates (history variable)
    earlier,   \* the runs that had returned by then (history variable)
    faults     \* failures so far

runVars == <<at, todo, counts, snap, earlier>>
reconVars == <<receipt, results, runVars, faults>>
vars == <<lifeVars, reconVars>>

ReceiptStatuses == {"PENDING", "CONFIRMED", "FAILED", "NOT_FOUND"}

Candidates == [transfer : Transfers, hash : Transfers, status : LifeStatuses]

Rows == [transfer : Transfers, status : LifeStatuses,
         receipt : ReceiptStatuses, mismatch : BOOLEAN, run : Runs]

NoCounts == [checked |-> 0, matched |-> 0, mismatched |-> 0]

-----------------------------------------------------------------------------
(* The checker and the comparison *)

\* The placeholder: no answer without a hash, a digest of it otherwise.
CheckReceipt(hash) == IF hash = NoHash THEN "NOT_FOUND" ELSE receipt[hash]

\* The receipts that are no mismatch, for each status that is compared.
Tolerated == [SUBMITTED |-> {"PENDING", "NOT_FOUND"},
              PENDING_ON_CHAIN |-> {"PENDING", "NOT_FOUND"},
              CONFIRMED |-> {"CONFIRMED"},
              FAILED |-> {"FAILED", "NOT_FOUND"}]

compareStatuses(s, r) == s \in DOMAIN Tolerated /\ r \notin Tolerated[s]

-----------------------------------------------------------------------------
(* Run *)

\* Mutant: the WHERE clause lets a transfer without a hash through.
HashlessCandidateSet ==
    {[transfer |-> t, hash |-> txHash[t], status |-> status[t]] :
        t \in {u \in Transfers : status[u] \in {"SUBMITTED", "PENDING_ON_CHAIN",
                                                 "CONFIRMED", "FAILED"}}}

\* The rows of the candidate query.
CandidateSet ==
    {[transfer |-> t, hash |-> txHash[t], status |-> status[t]] :
        t \in {u \in Transfers : /\ txHash[u] # NoHash
                                 /\ status[u] \in {"SUBMITTED", "PENDING_ON_CHAIN",
                                                   "CONFIRMED", "FAILED"}}}

\* The run ends with an error: the answer carries no counts.
Abort(r) ==
    /\ faults < MaxFaults
    /\ faults' = faults + 1
    /\ at' = [at EXCEPT ![r] = "error"]
    /\ todo' = [todo EXCEPT ![r] = {}]
    /\ counts' = [counts EXCEPT ![r] = NoCounts]

Returned == {r \in Runs : at[r] \in {"ok", "error"}}

\* Mutant: the query reads a replica that has not seen the last step of some.
LaggingListCandidates(r) ==
    /\ at[r] = "new"
    /\ at' = [at EXCEPT ![r] = "running"]
    /\ \E lag \in SUBSET {c \in CandidateSet : c.status = "PENDING_ON_CHAIN"} :
        todo' = [todo EXCEPT ![r] = (CandidateSet \ lag)
                    \cup {[c EXCEPT !.status = "SUBMITTED"] : c \in lag}]
    /\ snap' = [snap EXCEPT ![r] = status]
    /\ earlier' = [earlier EXCEPT ![r] = Returned]
    /\ UNCHANGED <<lifeVars, receipt, results, counts, faults>>

\* ListCandidates: one snapshot of the transfers, or an error.
ListCandidates(r) ==
    /\ at[r] = "new"
    /\ \/ /\ at' = [at EXCEPT ![r] = "running"]
          /\ todo' = [todo EXCEPT ![r] = CandidateSet]
          /\ UNCHANGED <<counts, faults>>
       \/ Abort(r)
    /\ snap' = [snap EXCEPT ![r] = status]
    /\ earlier' = [earlier EXCEPT ![r] = Returned]
    /\ UNCHANGED <<lifeVars, receipt, results>>

\* The INSERT of a verdict on candidate c.
Store(r, c) ==
    results' = Append(results, [transfer |-> c.transfer, status |-> c.status,
                                receipt |-> CheckReceipt(c.hash),
                                mismatch |-> compareStatuses(c.status, CheckReceipt(c.hash)),
                                run |-> r])

Count(n, mismatch) ==
    [checked |-> n.checked + 1,
     matched |-> IF mismatch THEN n.matched ELSE n.matched + 1,
     mismatched |-> IF mismatch THEN n.mismatched + 1 ELSE n.mismatched]

\* Mutant: a verdict that could not be stored is skipped, but counted.
SkippingCheckCandidate(r) ==
    /\ at[r] = "running"
    /\ \E c \in todo[r] :
        LET mismatch == compareStatuses(c.status, CheckReceipt(c.hash))
        IN  /\ todo' = [todo EXCEPT ![r] = @ \ {c}]
            /\ counts' = [counts EXCEPT ![r] = Count(@, mismatch)]
            /\ \/ Store(r, c) /\ UNCHANGED faults
               \/ /\ faults < MaxFaults
                  /\ faults' = faults + 1
                  /\ UNCHANGED results
    /\ UNCHANGED <<lifeVars, receipt, at, snap, earlier>>

\* One turn of the loop. The INSERT may fail, with or without having stored the
\* row: the database, the client leaving, the process dying. That ends the run.
CheckCandidate(r) ==
    /\ at[r] = "running"
    /\ \E c \in todo[r] :
        LET mismatch == compareStatuses(c.status, CheckReceipt(c.hash))
        IN  \/ /\ Store(r, c)
               /\ todo' = [todo EXCEPT ![r] = @ \ {c}]
               /\ counts' = [counts EXCEPT ![r] = Count(@, mismatch)]
               /\ UNCHANGED <<at, faults>>
            \/ Abort(r) /\ (Store(r, c) \/ UNCHANGED results)
    /\ UNCHANGED <<lifeVars, receipt, snap, earlier>>

\* All candidates are compared; the counts are the answer.
Complete(r) ==
    /\ at[r] = "running"
    /\ todo[r] = {}
    /\ at' = [at EXCEPT ![r] = "ok"]
    /\ UNCHANGED <<lifeVars, receipt, results, todo, counts, snap, earlier, faults>>

-----------------------------------------------------------------------------
(* The mismatch list *)

RowsOf(t) == {i \in 1..Len(results) : results[i].transfer = t}

\* Mutant: DISTINCT ON with checked_at ascending.
OldestIsMismatch(t) ==
    \E i \in RowsOf(t) : (\A k \in RowsOf(t) : i <= k) /\ results[i].mismatch

\* Whether the latest row of t is a mismatch.
LatestIsMismatch(t) ==
    \E i \in RowsOf(t) : (\A k \in RowsOf(t) : k <= i) /\ results[i].mismatch

ListLatestMismatches == {t \in Transfers : LatestIsMismatch(t)}

-----------------------------------------------------------------------------
(* Specification *)

Init ==
    /\ LifeInit
    /\ receipt \in [Transfers -> ReceiptStatuses \ {"NOT_FOUND"}]
    /\ results = << >>
    /\ at = [r \in Runs |-> "new"]
    /\ todo = [r \in Runs |-> {}]
    /\ counts = [r \in Runs |-> NoCounts]
    /\ snap = [r \in Runs |-> status]
    /\ earlier = [r \in Runs |-> {}]
    /\ faults = 0

Next ==
    \/ \E r \in Runs : ListCandidates(r) \/ CheckCandidate(r) \/ Complete(r)
    \/ LifeNext /\ UNCHANGED reconVars

Spec == Init /\ [][Next]_vars

-----------------------------------------------------------------------------
(* Properties *)

(* Type correctness of the rows and of the runs. *)
TypeOK ==
    /\ receipt \in [Transfers -> ReceiptStatuses]
    /\ \A i \in 1..Len(results) : results[i] \in Rows
    /\ at \in [Runs -> {"new", "running", "ok", "error"}]
    /\ todo \in [Runs -> SUBSET Candidates]
    /\ counts \in [Runs -> [checked : Nat, matched : Nat, mismatched : Nat]]
    /\ snap \in [Runs -> [Transfers -> LifeStatuses]]
    /\ earlier \in [Runs -> SUBSET Runs]
    /\ faults \in 0..MaxFaults

\* What a status means, against what the chain says: a receipt that is final
\* contradicts every other status, and a transfer that is finished contradicts
\* a receipt that is not.
Contradicts(s, r) ==
    \/ r \in {"CONFIRMED", "FAILED"} /\ s # r
    \/ s \in {"CONFIRMED", "FAILED"} /\ r = "PENDING"

\* A run that has overlapped r, or started since, and read t at another status
\* than it has now: its verdict on t may be on top of r's.
Outdated(r, t) == {q \in Runs \ {r} : /\ at[q] # "new"
                                      /\ q \notin earlier[r]
                                      /\ snap[q][t] # status[t]}

(* After a run, the mismatch list tells the truth about every transfer that   *)
(* has not moved since the run read it, whatever other runs stored before, in *)
(* between or later: it is on the list exactly if its status contradicts the  *)
(* receipt of the transaction it claims. The one exception is a transfer that *)
(* an overlapping run had read before its last move, whose old verdict may be *)
(* stored last; the next run puts that right (Run, compareStatuses and the    *)
(* DISTINCT ON of ListLatestMismatches).                                      *)
ListIsTrue ==
    \A r \in Runs : at[r] = "ok" =>
        \A t \in Transfers :
            /\ txHash[t] # NoHash
            /\ snap[r][t] = status[t]
            /\ Outdated(r, t) = {}
            => (t \in ListLatestMismatches <=> Contradicts(status[t], receipt[t]))

\* How far a transfer with this status is: every step of LifeNext goes further.
Rank(s) == CASE s = "CREATED" -> 0
             [] s = "VALIDATED" -> 1
             [] s = "QUEUED" -> 2
             [] s = "SIGNING" -> 3
             [] s = "SUBMITTED" -> 4
             [] s = "PENDING_ON_CHAIN" -> 5
             [] s = "FAILED" -> 6
             [] OTHER -> 7

(* Verdicts follow the transfer. One that shows it further back than a        *)
(* verdict stored before it comes from a run that overlapped the other one,   *)
(* and whose snapshot is the older one of the two throughout: a run never     *)
(* mixes old statuses with new ones, and what runs one after the other store  *)
(* never goes back (ListCandidates reads its own snapshot in every run).      *)
VerdictsAdvance ==
    \A i, j \in 1..Len(results) :
        LET old == results[i].run
            new == results[j].run
        IN  /\ i < j
            /\ results[i].transfer = results[j].transfer
            /\ Rank(results[j].status) < Rank(results[i].status)
            => /\ old \notin earlier[new]
               /\ \A t \in Transfers : Rank(snap[new][t]) <= Rank(snap[old][t])

Stored(r) == {i \in 1..Len(results) : results[i].run = r}

(* The counts of a run that succeeds are those of the rows it stored, one per *)
(* candidate; a run that fails answers with no counts, though the rows it     *)
(* stored stay and are part of the mismatch list.                             *)
CountsMatchRows ==
    \A r \in Runs :
        /\ at[r] \in {"running", "ok"} =>
            /\ counts[r].checked = Cardinality(Stored(r))
            /\ counts[r].mismatched =
                    Cardinality({i \in Stored(r) : results[i].mismatch})
            /\ counts[r].checked = counts[r].matched + counts[r].mismatched
        /\ \A i, k \in Stored(r) :
                results[i].transfer = results[k].transfer => i = k
=============================================================================
