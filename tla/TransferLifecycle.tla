------------------------- MODULE TransferLifecycle -------------------------
(***************************************************************************)
(* What the worker promises about a transfer, without workers, queues, locks*)
(* or attempts: the columns a reader of transfer_requests and of            *)
(* transfer_status_history sees, and what the chain has accepted.           *)
(*                                                                          *)
(* The status walks the path of model.go one step at a time, is recorded    *)
(* with every step, and ends at PENDING_ON_CHAIN or FAILED. The transaction *)
(* is accepted by the chain only after the transfer was being signed, and   *)
(* the transfer claims submission only for an accepted transaction, whose   *)
(* hash it keeps.                                                           *)
(*                                                                          *)
(* TransferProcessing implements this specification; Reconciliation uses it *)
(* as its environment.                                                      *)
(***************************************************************************)
EXTENDS Naturals, Sequences

CONSTANTS
    Transfers,   \* transfer ids; the signer's hash is a function of the id
    NoHash       \* the empty tx_hash

VARIABLES
    status,    \* transfer_requests.status
    txHash,    \* transfer_requests.tx_hash
    history,   \* transfer_status_history rows, oldest first
    accepted   \* hashes of the transactions the network has accepted

lifeVars == <<status, txHash, history, accepted>>

LifeStatuses == {"CREATED", "VALIDATED", "QUEUED", "SIGNING", "SUBMITTED",
                 "PENDING_ON_CHAIN", "CONFIRMED", "FAILED"}

\* The steps of the path on which no transaction is chosen.
PathSteps == {<<"CREATED", "VALIDATED">>, <<"VALIDATED", "QUEUED">>,
              <<"QUEUED", "SIGNING">>, <<"SUBMITTED", "PENDING_ON_CHAIN">>}

-----------------------------------------------------------------------------

\* The status moves to s and the move is recorded with it.
Move(t, s) ==
    /\ status' = [status EXCEPT ![t] = s]
    /\ history' = [history EXCEPT ![t] = Append(@, <<status[t], s>>)]

\* The transfer takes a step of its path.
StepAlongPath(t) ==
    /\ \E s \in LifeStatuses : <<status[t], s>> \in PathSteps /\ Move(t, s)
    /\ UNCHANGED <<txHash, accepted>>

\* The network accepts the transaction of a transfer that has been at SIGNING,
\* wherever the transfer is by now.
Accept(t) ==
    /\ \E i \in 1..Len(history[t]) : history[t][i][2] = "SIGNING"
    /\ accepted' = accepted \cup {t}
    /\ UNCHANGED <<status, txHash, history>>

\* The transfer claims its submission.
Submit(t) ==
    /\ status[t] = "SIGNING"
    /\ t \in accepted
    /\ Move(t, "SUBMITTED")
    /\ txHash' = [txHash EXCEPT ![t] = t]
    /\ UNCHANGED accepted

\* The transfer is given up, at any point before it is settled.
GiveUp(t) ==
    /\ status[t] \in {"CREATED", "VALIDATED", "QUEUED", "SIGNING", "SUBMITTED"}
    /\ Move(t, "FAILED")
    /\ UNCHANGED <<txHash, accepted>>

LifeInit ==
    /\ status = [t \in Transfers |-> "CREATED"]
    /\ txHash = [t \in Transfers |-> NoHash]
    /\ history = [t \in Transfers |-> << <<"", "CREATED">> >>]
    /\ accepted = {}

LifeNext ==
    \E t \in Transfers :
        StepAlongPath(t) \/ Accept(t) \/ Submit(t) \/ GiveUp(t)

LifeSpec == LifeInit /\ [][LifeNext]_lifeVars
=============================================================================
