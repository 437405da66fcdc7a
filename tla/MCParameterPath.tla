-------------------------- MODULE MCParameterPath --------------------------
(* Parameter lists for ParameterPath: short ones over masks of every kind, *)
(* valid or not, and longer ones, which are truncated, go on behind lm, or *)
(* wrap their length.                                                      *)
EXTENDS ParameterPath

MCLists ==
  {<<>>, <<{"VL", "QW", "BY"}>>, <<{"PT", "U"}>>, <<{"PT", "NL"}, {"VL", "PT"}>>,
   <<{"VL", "DW", "BY"}, {"PT"}>>, <<{"PT", "NL"}, {"VL", "QW"}>>}
  \cup {[k \in 1..n |-> IF k = 3 THEN {"PT"} ELSE {"VL", "WO"}] : n \in 3..6}

MCReadable == 0..6 \cup {9, 10, 13, 14, 21, 22, 25, 26}

MCStale == {{"VL", "WO"}, {"PT"}, {"PT", "U"}}
=============================================================================
