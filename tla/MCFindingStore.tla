--------------------------- MODULE MCFindingStore ---------------------------
(* Instances of FindingStore for TLC. *)
EXTENDS FindingStore, TLC

Symmetric == Permutations(Edits)
=============================================================================
