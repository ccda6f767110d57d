---------------------------- MODULE MCRunMachine ----------------------------
(* Values for the constants of RunMachine on a small instance. *)
EXTENDS RunMachine, TLC

Found(design, other) ==
  [status |-> IF design + other = 0 THEN "clear" ELSE "hazards",
   hazards |-> [design |-> design, other |-> other]]

(* No hazard, the waivable one alone, and it twice: a second of that title stays open. *)
MCVerdicts == {Found(0, 0), Found(1, 0), Found(2, 0)}

Titles == Permutations(Title)
=============================================================================
