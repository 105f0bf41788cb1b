-------------------------- MODULE MCTransferOutbox --------------------------
(* TransferOutbox on small instances: the cfg files give the constants. *)
EXTENDS TransferOutbox

\* Every failure but those of a broker that loses messages it was given.
ConfirmedFaults == FaultKinds \ {"unconfirmed"}
=============================================================================
