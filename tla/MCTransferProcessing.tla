------------------------ MODULE MCTransferProcessing ------------------------
(* TransferProcessing on small instances: the cfg files give the constants. *)
EXTENDS TransferProcessing, TLC

\* Workers are interchangeable; used by the runs that check safety only.
WorkerSymmetry == Permutations(Workers)
=============================================================================
