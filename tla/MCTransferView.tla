--------------------------- MODULE MCTransferView ---------------------------
(* Constants of the run of TransferView. *)
EXTENDS TransferView, TLC

Symmetry == Permutations(Caller) \cup Permutations(Goroutine)
=============================================================================
