------------------------------ MODULE Profiles ------------------------------
(***************************************************************************)
(* The preferences in the profile of one account, read and patched by      *)
(* requests of its devices.  A request looks the profile up, inserts it if *)
(* it has found none, and a PATCH then sets the fields it carries and      *)
(* saves the row with all its columns: it also writes what it has loaded   *)
(* of the others.  Values are numbered in the order of the edits, 0 being  *)
(* a field's default.                                                      *)
(***************************************************************************)
EXTENDS Naturals

CONSTANTS
    Workers,    \* requests that may run at once
    Fields,
    MaxEdits,   \* bound: PATCHes that are saved
    None        \* no profile

VARIABLES
    stored,     \* the row
    step,       \* of a request: "idle", "inserting" or "loaded"
    loaded,     \* the row as the request has it
    edits,      \* PATCHes saved so far
    behind      \* history: requests that loaded the row before its last save

vars == <<stored, step, loaded, edits, behind>>

Profile == [Fields -> Nat]
Defaults == [f \in Fields |-> 0]

TypeOK ==
    /\ stored \in {None} \cup Profile
    /\ step \in [Workers -> {"idle", "inserting", "loaded"}]
    /\ loaded \in [Workers -> {None} \cup Profile]
    /\ \A w \in Workers : loaded[w] \in IF step[w] = "loaded" THEN Profile ELSE {None}
    /\ edits \in 0..MaxEdits
    /\ behind \subseteq {w \in Workers : step[w] = "loaded"}

Init ==
    /\ stored = None
    /\ step = [w \in Workers |-> "idle"] /\ loaded = [w \in Workers |-> None]
    /\ edits = 0 /\ behind = {}

-----------------------------------------------------------------------------
Load(w, row) ==
    /\ step' = [step EXCEPT ![w] = "loaded"]
    /\ loaded' = [loaded EXCEPT ![w] = row]

Leave(w) ==
    /\ step' = [step EXCEPT ![w] = "idle"]
    /\ loaded' = [loaded EXCEPT ![w] = None]

(* get_or_create: the lookup ... *)
Find(w) ==
    /\ step[w] = "idle" /\ stored # None
    /\ Load(w, stored)
    /\ UNCHANGED <<stored, edits, behind>>

Miss(w) ==
    /\ step[w] = "idle" /\ stored = None
    /\ step' = [step EXCEPT ![w] = "inserting"]
    /\ UNCHANGED <<stored, loaded, edits, behind>>

(* Mutant: update_or_create. *)
InsertOrReset(w) ==
    /\ step[w] = "inserting"
    /\ stored' = Defaults
    /\ Load(w, Defaults)
    /\ UNCHANGED <<edits, behind>>

(* ... and the insert, or a second lookup if another was faster. *)
Insert(w) ==
    /\ step[w] = "inserting"
    /\ stored' = IF stored = None THEN Defaults ELSE stored
    /\ Load(w, stored')
    /\ UNCHANGED <<edits, behind>>

(* The save of a PATCH of the fields in F. *)
Save(w, F) ==
    /\ step[w] = "loaded"
    /\ edits < MaxEdits
    /\ edits' = edits + 1
    /\ stored' = [f \in Fields |-> IF f \in F THEN edits + 1 ELSE loaded[w][f]]
    /\ behind' = {v \in Workers \ {w} : step[v] = "loaded"}
    /\ Leave(w)

(* A GET is answered, a PATCH is refused, or the worker dies. *)
End(w) ==
    /\ step[w] # "idle"
    /\ Leave(w)
    /\ behind' = behind \ {w}
    /\ UNCHANGED <<stored, edits>>

Next ==
    \E w \in Workers :
        \/ Find(w) \/ Miss(w) \/ Insert(w) \/ End(w)
        \/ \E F \in SUBSET Fields \ {{}} : Save(w, F)

Spec == Init /\ [][Next]_vars

-----------------------------------------------------------------------------
(* A preference returns to an older value only by the save of a request    *)
(* that loaded the profile before a save of another: requests that follow  *)
(* each other lose nothing, and of those that create the profile together  *)
(* none resets what another has set.  (accounts/views.py 32-38)            *)
SetBackOnlyByOverlap ==
    [][\A f \in Fields :
         stored # None /\ stored'[f] < stored[f]
           => \E w \in behind : loaded'[w] = None /\ stored'[f] = loaded[w][f]]_vars
=============================================================================
