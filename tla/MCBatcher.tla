----------------------------- MODULE MCBatcher -----------------------------
(* Values for the constants of Batcher on a small instance: the third event is too large to share a batch. *)
EXTENDS Batcher

MCSize == [e \in 1..MaxEvents |-> IF e = 3 THEN 3 ELSE 1]
=============================================================================
