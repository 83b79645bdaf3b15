------------------------------- MODULE MCBoris -------------------------------
(* Two nicknames that differ in case only and one more; numbers as +l may  *)
(* get them, -1 among them.                                                *)
EXTENDS Boris

MCLower == [w \in {"al", "AL", "bo", "ircServer", "IRCserver"} |->
              CASE w = "AL" -> "al"
                [] w \in {"ircServer", "IRCserver"} -> "ircserver"
                [] OTHER -> w]

Symmetry == Permutations(Cli)

AllFit == [m \in Mask |-> Cli]

(* The lists of KICK: one channel; a target, two, one twice.               *)
OneList == {<<"#a">>}
MCTargets == {<<"al">>, <<"al", "bo">>, <<"al", "al">>}
MCNumber == {-1, 1}
=============================================================================
