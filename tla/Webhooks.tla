------------------------------ MODULE Webhooks ------------------------------
(***************************************************************************)
(* The store's callbacks: StoreWebhookView records an event in two         *)
(* statements, a lookup and an insert that the unique constraint refuses   *)
(* if another delivery was faster.  A store repeats an event until it gets *)
(* a 2xx, at the same time even, and its payload may differ.  No task of   *)
(* the repository processes the events.                                    *)
(***************************************************************************)
CONSTANTS
    Workers,    \* requests that may run at once
    Events,     \* (platform, event id) pairs
    Payloads,
    None        \* no payload, no event

VARIABLES
    event,      \* WebhookEvent: the payload stored for an event
    inserting,  \* the event and payload a worker has not found and inserts
    accepted    \* events that have been answered with 202

vars == <<event, inserting, accepted>>

Calls == [id : Events, payload : Payloads]

TypeOK ==
    /\ event \in [Events -> Payloads \cup {None}]
    /\ inserting \in [Workers -> Calls \cup {None}]
    /\ accepted \in SUBSET Events

Init ==
    /\ event = [e \in Events |-> None]
    /\ inserting = [w \in Workers |-> None]
    /\ accepted = {}

-----------------------------------------------------------------------------
(* A call without an event id is refused and has no effect. *)
GetMiss(w, e, p) ==
    /\ inserting[w] = None
    /\ event[e] = None
    /\ inserting' = [inserting EXCEPT ![w] = [id |-> e, payload |-> p]]
    /\ UNCHANGED <<event, accepted>>

GetHit(w, e) ==
    /\ inserting[w] = None
    /\ event[e] # None
    /\ accepted' = accepted \cup {e}
    /\ UNCHANGED <<event, inserting>>

(* Mutant: update_or_create. *)
Overwrite(w) ==
    /\ inserting[w] # None
    /\ event' = [event EXCEPT ![inserting[w].id] = inserting[w].payload]
    /\ accepted' = accepted \cup {inserting[w].id}
    /\ inserting' = [inserting EXCEPT ![w] = None]

(* The insert, or the second lookup of get_or_create. *)
Create(w) ==
    /\ inserting[w] # None
    /\ event' = IF event[inserting[w].id] = None
                THEN [event EXCEPT ![inserting[w].id] = inserting[w].payload] ELSE event
    /\ accepted' = accepted \cup {inserting[w].id}
    /\ inserting' = [inserting EXCEPT ![w] = None]

(* The worker dies; without an answer the store repeats the event. *)
CallFails(w) ==
    /\ inserting[w] # None
    /\ inserting' = [inserting EXCEPT ![w] = None]
    /\ UNCHANGED <<event, accepted>>

Next ==
    \E w \in Workers :
        \/ \E e \in Events : GetHit(w, e) \/ \E p \in Payloads : GetMiss(w, e, p)
        \/ Create(w) \/ CallFails(w)

Spec == Init /\ [][Next]_vars

-----------------------------------------------------------------------------
(* An event is stored once: what was recorded first stays, whichever       *)
(* deliveries race for it.  (views.py 63-67, models.py 49-69)              *)
FirstDeliveryStays == [][\A e \in Events : event[e] # None => event'[e] = event[e]]_vars
=============================================================================
