----------------------------- MODULE MC_Replicas ----------------------------
(* Copies of a bookmark that was written twice in the same second.         *)
EXTENDS Replicas

TieUpdates ==
    {[reps |-> 1, page |-> 1, at |-> 1, body |-> 1],
     [reps |-> 1, page |-> 1, at |-> 1, body |-> 2]}
=============================================================================
