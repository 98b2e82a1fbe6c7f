------------------------------ MODULE Delivery ------------------------------
(***************************************************************************)
(* What the write queue promises, without drains, attempts, timeouts or    *)
(* kills: the user's changes of an entity are numbered, the queue carries  *)
(* the last one, only changes that were made reach the server, and an      *)
(* entity leaves the queue only once its last change has reached the       *)
(* server.  The promise is broken for an entity that is changed during its *)
(* own push: it may be at risk, and is then let go once any change of it   *)
(* has reached the server.  Whether the server stores a change that        *)
(* reaches it is no part of the promise.                                   *)
(***************************************************************************)
EXTENDS Naturals

CONSTANT Entities

VARIABLES
    written,    \* changes made so far
    carried,    \* the change the queue carries, 0 for none
    reached,    \* the newest change that has reached the server
    atRisk      \* entities whose last change was made during a push

vars == <<written, carried, reached, atRisk>>

Init ==
    /\ written = [e \in Entities |-> 0]
    /\ carried = [e \in Entities |-> 0]
    /\ reached = [e \in Entities |-> 0]
    /\ atRisk = {}

Change(e) ==
    /\ written' = [written EXCEPT ![e] = @ + 1]
    /\ carried' = [carried EXCEPT ![e] = written[e] + 1]
    /\ atRisk' \in {atRisk \cup {e}, atRisk \ {e}}
    /\ UNCHANGED reached

Deliver(e) ==
    /\ \E v \in 1..written[e] :
         /\ reached[e] < v
         /\ reached' = [reached EXCEPT ![e] = v]
    /\ UNCHANGED <<written, carried, atRisk>>

Release(e) ==
    /\ carried[e] # 0
    /\ reached[e] = written[e] \/ (e \in atRisk /\ reached[e] > 0)
    /\ carried' = [carried EXCEPT ![e] = 0]
    /\ UNCHANGED <<written, reached, atRisk>>

Next == \E e \in Entities : Change(e) \/ Deliver(e) \/ Release(e)

Spec == Init /\ [][Next]_vars
=============================================================================
