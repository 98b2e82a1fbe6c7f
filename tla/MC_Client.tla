----------------------------- MODULE MC_Client ------------------------------
(* The device, in two views checked side by side: a behaviour is one of    *)
(* SyncEngine (cards, the queue, the server and the runs) or Replicas      *)
(* (copies that merge), chosen at its start; they share no variable.       *)
EXTENDS SyncEngine, Replicas, TLC

VARIABLE view       \* the one that runs

(* Versions that rank one way by clock, another by repetitions and a third *)
(* by page.                                                                *)
MCUpdates ==
    {[reps |-> 1, page |-> 2, at |-> 3, body |-> 1],
     [reps |-> 3, page |-> 1, at |-> 2, body |-> 2],
     [reps |-> 3, page |-> 3, at |-> 1, body |-> 3],
     [reps |-> 2, page |-> 2, at |-> 2, body |-> 4]}

(* Bound: two runs are interleaved only while the cards are at their first *)
(* repetition, or there is one card.                                       *)
InBounds ==
    LET cards == {server[k] : k \in Keys} \cup {local[k] : k \in Keys}
    IN  \/ Cardinality({r \in Runs : pc[r] # "idle"}) <= 1
        \/ \A c \in cards : Reps(c) <= 1
        \/ Cardinality({k \in Keys : server[k] # NoCard \/ local[k] # NoCard}) <= 1

ClientInit == view \in {"engine", "copies"} /\ Init /\ CopiesInit

ClientNext ==
    /\ UNCHANGED view
    /\ \/ view = "engine" /\ Next /\ InBounds' /\ UNCHANGED copyVars
       \/ view = "copies" /\ CopiesNext /\ UNCHANGED vars

ClientSpec == ClientInit /\ [][ClientNext]_<<view, vars, copyVars>>

Symmetry == Permutations(Keys) \cup Permutations(Runs) \cup Permutations(Replica)

(* The view that runs; arrived feeds no guard and none of the properties   *)
(* of the run that takes this.                                             *)
View ==
    IF view = "engine"
    THEN <<now, server, local, queue, cursor, run, left, skipped, overlap>>
    ELSE copyVars

-----------------------------------------------------------------------------
(* Engine, device, server and copies keep their types.                     *)
ClientTypeOK == TypeOK /\ CopiesTypeOK
=============================================================================
