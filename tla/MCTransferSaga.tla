--------------------------- MODULE MCTransferSaga ---------------------------
(* Constants of the runs of TransferSaga. *)
EXTENDS TransferSaga, TLC

Symmetry == Permutations(Goroutine) \cup Permutations(Caller)
=============================================================================
