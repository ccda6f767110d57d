------------------------------ MODULE MCRunDO ------------------------------
(* Values for the constants of RunDO on a small instance. *)
EXTENDS RunDO

MCVerdicts == {[status |-> "clear", hazards |-> NoHazards],
               [status |-> "hazards", hazards |-> [design |-> 1, other |-> 0]]}
MCVerdict == {[status |-> "clear", hazards |-> NoHazards]}
Symmetric == Permutations(Task) \union Permutations(Title)
=============================================================================
