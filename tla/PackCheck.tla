----------------------------- MODULE PackCheck ------------------------------
(***************************************************************************)
(* The nightly task that hashes the object of every published version,     *)
(* while staff go on working on the rows of the catalogue.                 *)
(***************************************************************************)
EXTENDS Catalogue

VARIABLES
    checking,   \* verify_published_packs is running
    todo,       \* rows it has still to check, as its query found them
    failed,     \* versions it has counted
    suspects,   \* history: versions found whose object was bad at that time
    touched     \* history: versions whose object or row has changed since

check == <<checking, todo, failed, suspects>>

CheckTypeOK ==
    /\ checking \in BOOLEAN /\ todo \in SUBSET Copies
    /\ failed \in SUBSET Versions
    /\ suspects \in SUBSET Versions /\ touched \in SUBSET Versions

CheckInit ==
    /\ Init
    /\ checking = FALSE /\ todo = {} /\ failed = {} /\ suspects = {} /\ touched = {}

-----------------------------------------------------------------------------
(* Rows with a date in the future are checked too. *)
Found == {v \in Versions : state[v] \in {"scheduled", "published"}} \ revoked

VerifyStart ==
    /\ ~checking
    /\ checking' = TRUE
    /\ todo' = {[version |-> v, content |-> checksum[v]] : v \in Found}
    /\ suspects' = {v \in Found : store[v] # checksum[v]}
    /\ failed' = {} /\ touched' = {}
    /\ UNCHANGED vars

(* Mutant: a missing object is passed over. *)
VerifyPresent(c) ==
    /\ todo' = todo \ {c}
    /\ failed' = IF store[c.version] \notin {c.content, Missing}
                 THEN failed \cup {c.version} ELSE failed
    /\ UNCHANGED <<vars, checking, suspects, touched>>

VerifyNext(c) ==
    /\ todo' = todo \ {c}
    /\ failed' = IF store[c.version] # c.content THEN failed \cup {c.version} ELSE failed
    /\ UNCHANGED <<vars, checking, suspects, touched>>

(* It returns its counts; or the worker is lost, and the task, which is    *)
(* acknowledged late, starts again.                                        *)
VerifyEnd ==
    /\ checking
    /\ checking' = FALSE /\ todo' = {} /\ failed' = {} /\ suspects' = {} /\ touched' = {}
    /\ UNCHANGED vars

PackChanges ==
    /\ PackStep
    /\ touched' = IF checking
                  THEN touched \cup {v \in Versions : store'[v] # store[v]} ELSE {}
    /\ UNCHANGED check

CheckNext == VerifyStart \/ VerifyEnd \/ PackChanges \/ \E c \in todo : VerifyNext(c)

CheckSpec == CheckInit /\ [][CheckNext]_<<vars, check, touched>>

-----------------------------------------------------------------------------
(* The check counts every version that was on offer and bad when it began, *)
(* and none that was in order throughout.  (tasks.py 23-47)                *)
VerifyIsRight ==
    checking => /\ failed \subseteq suspects \cup touched
                /\ todo = {} => suspects \subseteq failed \cup touched
=============================================================================
