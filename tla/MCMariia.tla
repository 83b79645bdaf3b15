------------------------------ MODULE MCMariia ------------------------------
(* One channel with a name in two cases; mode strings of one letter, and   *)
(* one that goes on after its author has given up being an operator.       *)
EXTENDS Mariia, TLC

MCLower == [n \in ChName |-> IF n = "#A" THEN "#a" ELSE n]

Symmetry == Permutations(Nick)

Letter(m, a, w) == [mode |-> m, add |-> a, arg |-> w]

MCModeCmds ==
  {<<Letter("o", TRUE, w)>> : w \in Nick} \cup
  {<<Letter("o", FALSE, w), Letter("i", TRUE, "")>> : w \in Nick} \cup
  {<<Letter("i", FALSE, ""), Letter("k", FALSE, "")>>, <<Letter("t", FALSE, "")>>,
   <<Letter("k", TRUE, "k")>>, <<Letter("l", TRUE, 1)>>, <<Letter("l", FALSE, "")>>}
=============================================================================
