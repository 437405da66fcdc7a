--------------------------- MODULE MCServiceCall ---------------------------
(***************************************************************************)
(* Values of the constants of ServiceCall for TLC.                         *)
(***************************************************************************)
EXTENDS ServiceCall, TLC, Naturals

(* Handle values are numbers, and the kernel picks the lowest free one: it *)
(* gives a closed value out again as soon as it can.  What is proved about *)
(* handles holds for every way to pick.                                    *)
AllocLowest(S) == {h \in S : \A g \in S : h <= g}

(* The registrations are alike, and so are the calls, the names and the    *)
(* valid parameter lists.                                                  *)
Symmetry == Permutations(Regs) \cup Permutations(Calls) \cup Permutations(Names)
            \cup Permutations(ValidShapes)
=============================================================================
