------------------------------- MODULE MCAhmed -------------------------------
(* Mode strings that set and remove every mode, one of them going on after *)
(* its author has given up being an operator.                              *)
EXTENDS Ahmed, TLC

Change(m, a, w) == [mode |-> m, add |-> a, arg |-> w]

Given == {<<Change("o", TRUE, w)>> : w \in Nick}

(* It goes on when its first letter has cost its author the operator.      *)
Closed ==
  {<<Change("o", FALSE, w), Change("i", TRUE, ""), Change("t", TRUE, ""),
     Change("k", TRUE, "k"), Change("l", TRUE, 2)>> : w \in Nick}

Opened ==
  {<<Change("i", FALSE, ""), Change("t", FALSE, ""), Change("k", FALSE, "k"),
     Change("l", FALSE, 0)>>}

MCModeCmds == Given \cup Closed \cup Opened

Symmetry == Permutations(Fd) \cup Permutations(Nick) \cup Permutations(ChName)
=============================================================================
