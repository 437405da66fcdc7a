--------------------------- MODULE MCClientIdList ---------------------------
(* Symmetry of the constants of ClientIdList, for runs of safety only.     *)
EXTENDS ClientIdList, TLC

Symmetry == Permutations(Callers) \cup Permutations(Workers) \cup Permutations(Processes)
=============================================================================
