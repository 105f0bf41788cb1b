---------------------------- MODULE AegisEscrow ----------------------------
(***************************************************************************)
(* The escrow contract (contracts/src/AegisEscrow.sol): anyone deposits     *)
(* under a fresh id, and the owner releases the deposit to its recipient or *)
(* refunds it to its payer.                                                 *)
(*                                                                          *)
(* Paying calls the payee, which then has control and may call the contract *)
(* again, itself or through other contracts, so any account may be the      *)
(* caller; in the end it returns or reverts. `calls` is the stack of        *)
(* payments in progress, each with the state to go back to if it fails. A   *)
(* call that reverts has changed nothing, so reverted calls, plain          *)
(* transfers (receive) included, are not steps. A payee that is the         *)
(* contract itself always reverts, as any other may. Ownable and            *)
(* ReentrancyGuard are library contracts, modelled from their use.          *)
(***************************************************************************)
EXTENDS Naturals, Sequences, SequencesExt, FiniteSetsExt

CONSTANTS
    Ids,       \* escrow ids
    Accounts,  \* addresses, of people or of contracts
    Admin,     \* the owner the constructor sets
    Nobody,    \* the zero address
    Supply     \* bound: what each account owns at the start

ASSUME EscrowAssumption ==
    /\ IsFiniteSet(Ids)
    /\ Admin \in Accounts
    /\ Nobody \notin Accounts
    /\ Supply \in Nat

VARIABLES
    chain,   \* the state of the chain, a record
    calls    \* payments in progress, outermost first

vars == <<chain, calls>>

NoEscrow == [payer |-> Nobody, recipient |-> Nobody, amount |-> 0, status |-> "None"]

\* nonReentrant and onlyOwner.
NotEntered == ~chain.entered
OnlyOwner(c) == c = chain.owner

-----------------------------------------------------------------------------
(* The contract *)

\* The write of a new escrow, with the value that came along.
Fund(c, id, recipient, value) ==
    /\ chain' = [chain EXCEPT
            !.wallet[c] = @ - value,
            !.balance = @ + value,
            !.escrow[id] = [payer |-> c, recipient |-> recipient,
                            amount |-> value, status |-> "Funded"],
            !.deposits[id] = Append(@, [payer |-> c, recipient |-> recipient,
                                        amount |-> value])]
    /\ UNCHANGED calls

\* Mutant: an escrow that is settled may be funded again.
ReusingDeposit(c, id, recipient, value) ==
    /\ NotEntered
    /\ value > 0 /\ value <= chain.wallet[c]
    /\ recipient # Nobody
    /\ chain.escrow[id].status # "Funded"
    /\ Fund(c, id, recipient, value)

deposit(c, id, recipient, value) ==
    /\ NotEntered
    /\ value > 0 /\ value <= chain.wallet[c]
    /\ recipient # Nobody
    /\ chain.escrow[id].status = "None"
    /\ Fund(c, id, recipient, value)

\* The escrow is settled, then its amount is sent, which gives control to the
\* payee.
Pay(id, status, to) ==
    LET amount == chain.escrow[id].amount
    IN  /\ chain.escrow[id].status = "Funded"
        /\ chain' = [chain EXCEPT
                !.entered = TRUE,
                !.escrow[id].amount = 0,
                !.escrow[id].status = status,
                !.balance = @ - amount,
                !.wallet[to] = @ + amount,
                !.payments[id] = Append(@, [to |-> to, amount |-> amount])]
        /\ calls' = Append(calls, [to |-> to, saved |-> chain])

release(c, id) ==
    /\ OnlyOwner(c)
    /\ NotEntered
    /\ Pay(id, "Released", chain.escrow[id].recipient)

refund(c, id) ==
    /\ OnlyOwner(c)
    /\ NotEntered
    /\ Pay(id, "Refunded", chain.escrow[id].payer)

\* The payee returns: the function completes and leaves the guard.
PayeeReturns ==
    /\ calls # << >>
    /\ chain' = [chain EXCEPT !.entered = FALSE]
    /\ calls' = Front(calls)

\* Mutant: the result of the call is not looked at.
UncheckedPayeeReverts ==
    /\ calls # << >>
    /\ LET paid == Last(calls).to
           lost == Last(calls).saved.balance - chain.balance
       IN  chain' = [chain EXCEPT !.entered = FALSE,
                                  !.balance = @ + lost,
                                  !.wallet[paid] = @ - lost]
    /\ calls' = Front(calls)

\* The payee reverts, so the function reverts: NativeTransferFailed.
PayeeReverts ==
    /\ calls # << >>
    /\ chain' = Last(calls).saved
    /\ calls' = Front(calls)

-----------------------------------------------------------------------------
(* Ownable and the chain *)

\* transferOwnership and renounceOwnership are not guarded against reentrance.
TransferOwnership(c, to) ==
    /\ OnlyOwner(c)
    /\ chain' = [chain EXCEPT !.owner = to]
    /\ UNCHANGED calls

\* Ether can be forced on a contract without calling it.
ForceFunds(c) ==
    /\ chain.wallet[c] > 0
    /\ chain' = [chain EXCEPT !.wallet[c] = @ - 1,
                              !.balance = @ + 1,
                              !.forced = @ + 1]
    /\ UNCHANGED calls

-----------------------------------------------------------------------------
(* Specification *)

Init ==
    /\ chain = [escrow |-> [id \in Ids |-> NoEscrow],
                balance |-> 0,
                owner |-> Admin,
                entered |-> FALSE,
                wallet |-> [a \in Accounts |-> Supply],
                forced |-> 0,
                deposits |-> [id \in Ids |-> << >>],
                payments |-> [id \in Ids |-> << >>]]
    /\ calls = << >>

Next ==
    \/ \E c \in Accounts :
        \/ \E id \in Ids :
            \/ \E to \in Accounts \cup {Nobody} : \E v \in 1..Supply :
                    deposit(c, id, to, v)
            \/ release(c, id)
            \/ refund(c, id)
        \/ \E to \in Accounts \cup {Nobody} : TransferOwnership(c, to)
        \/ ForceFunds(c)
    \/ PayeeReturns
    \/ PayeeReverts

Spec == Init /\ [][Next]_vars

-----------------------------------------------------------------------------
(* Properties *)

(* At every moment, in the middle of a payment too, the contract holds what   *)
(* its funded escrows promise, plus what was forced on it: no sequence of     *)
(* deposits, payments, reentrant calls and failed sends loses or duplicates   *)
(* a deposit (the zeroed amount and the revert on a failed send).             *)
Backed ==
    LET Promised(id) == chain.escrow[id].amount
    IN  chain.balance = MapThenSumSet(Promised, Ids) + chain.forced

(* Each id is funded once, by one deposit, and paid at most once, in full:    *)
(* to the recipient of that deposit if Released, to its payer if Refunded. A  *)
(* payment that failed leaves it Funded and unpaid.                           *)
PaidAsAgreed ==
    \A id \in Ids :
        LET e == chain.escrow[id]
            d == chain.deposits[id]
            p == chain.payments[id]
        IN  CASE e.status = "None" -> d = << >> /\ p = << >>
              [] e.status = "Funded" ->
                    /\ d = <<[payer |-> e.payer, recipient |-> e.recipient,
                              amount |-> e.amount]>>
                    /\ p = << >>
              [] e.status = "Released" ->
                    /\ Len(d) = 1
                    /\ p = <<[to |-> d[1].recipient, amount |-> d[1].amount]>>
              [] e.status = "Refunded" ->
                    /\ Len(d) = 1
                    /\ p = <<[to |-> d[1].payer, amount |-> d[1].amount]>>
=============================================================================
