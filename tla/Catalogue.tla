----------------------------- MODULE Catalogue ------------------------------
(***************************************************************************)
(* One content pack: its numbered versions, the objects in storage and the *)
(* devices that download them.  The guard of ContentPackVersion.save looks *)
(* at the instance to be saved: a version with a publication date takes    *)
(* only a new revoked_at, and one without a date takes anything.  So a     *)
(* draft is never published by a save, and the admin's form, which writes  *)
(* every field and may clear the date, turns a published version into a    *)
(* draft.                                                                  *)
(* Who may download a premium pack does not matter here and is left out.   *)
(***************************************************************************)
EXTENDS Naturals

CONSTANTS
    Versions,   \* version numbers of the pack
    Contents,   \* payloads; a checksum stands for the payload it is of
    Devices,
    Damaged,    \* an object whose bytes have changed
    Missing,    \* an object that is gone
    None        \* nothing asked for, nothing installed

ASSUME VersionsAssumption == Versions \subseteq Nat
ASSUME ValuesAssumption ==
    Contents \cap {Damaged, Missing, None} = {} /\ None \notin {Damaged, Missing}

VARIABLES
    state,      \* of a version's row: "none", "draft", "scheduled", "published"
    checksum,   \* the payload its row vouches for
    revoked,    \* versions with a revoked_at
    store,      \* the object under its object_key
    asked,      \* the version a device has been sent to, with its checksum
    installed,  \* what a device has
    reopened    \* history: versions withdrawn or deleted once published

pack == <<state, checksum, revoked, store>>
device == <<asked, installed>>
vars == <<pack, device, reopened>>

(* What a device asked for or holds: the checksum of the answer, and the   *)
(* row it was read from, which the answer does not name.                   *)
Copies == [version : Versions, content : Contents]

TypeOK ==
    /\ state \in [Versions -> {"none", "draft", "scheduled", "published"}]
    /\ checksum \in [Versions -> Contents \cup {None}]
    /\ revoked \in SUBSET Versions
    /\ store \in [Versions -> Contents \cup {Damaged, Missing}]
    /\ asked \in [Devices -> Copies \cup {None}]
    /\ installed \in [Devices -> Copies \cup {None}]
    /\ reopened \in SUBSET Versions

Init ==
    /\ state = [v \in Versions |-> "none"]
    /\ checksum = [v \in Versions |-> None]
    /\ revoked = {}
    /\ store = [v \in Versions |-> Missing]
    /\ asked = [d \in Devices |-> None] /\ installed = [d \in Devices |-> None]
    /\ reopened = {}

-----------------------------------------------------------------------------
Offered(v) == state[v] = "published" /\ v \notin revoked

(* A row is written, and its object put in place. *)
Put(v, s, c) ==
    /\ state' = [state EXCEPT ![v] = s]
    /\ checksum' = [checksum EXCEPT ![v] = c]
    /\ store' = [store EXCEPT ![v] = c]

Upload(v, s, c) ==
    /\ state[v] = "none"
    /\ Put(v, s, c)
    /\ revoked' = revoked \ {v}
    /\ UNCHANGED <<device, reopened>>

(* Mutant: save without the guard. *)
EditAny(v, c) ==
    /\ state[v] # "none"
    /\ Put(v, state[v], c)
    /\ UNCHANGED <<revoked, device, reopened>>

EditDraft(v, c) ==
    /\ state[v] = "draft"
    /\ Put(v, "draft", c)
    /\ UNCHANGED <<revoked, device, reopened>>

(* The form, with the date cleared. *)
Withdraw(v, c) ==
    /\ state[v] \in {"scheduled", "published"}
    /\ Put(v, "draft", c)
    /\ reopened' = IF state[v] = "published" THEN reopened \cup {v} ELSE reopened
    /\ UNCHANGED <<revoked, device>>

(* save(update_fields=["revoked_at"]), which may also take it back. *)
Revoke(v) ==
    /\ state[v] # "none"
    /\ revoked' = IF v \in revoked THEN revoked \ {v} ELSE revoked \cup {v}
    /\ UNCHANGED <<state, checksum, store, device, reopened>>

(* The admin deletes a row; its number is free again. *)
DeleteVersion(v) ==
    /\ state[v] # "none"
    /\ state' = [state EXCEPT ![v] = "none"]
    /\ reopened' = IF state[v] = "published" THEN reopened \cup {v} ELSE reopened
    /\ UNCHANGED <<checksum, revoked, store, device>>

(* published_at is reached. *)
Due(v) ==
    /\ state[v] = "scheduled"
    /\ state' = [state EXCEPT ![v] = "published"]
    /\ UNCHANGED <<checksum, revoked, store, device, reopened>>

Damage(v, how) ==
    /\ store[v] \in Contents
    /\ store' = [store EXCEPT ![v] = how]
    /\ UNCHANGED <<state, checksum, revoked, device, reopened>>

-----------------------------------------------------------------------------
(* ContentPackViewSet.download: the newest version on offer. *)
Download(d) ==
    /\ \E v \in Versions :
         /\ Offered(v)
         /\ \A w \in Versions : Offered(w) => w <= v
         /\ asked' = [asked EXCEPT ![d] = [version |-> v, content |-> checksum[v]]]
    /\ UNCHANGED <<pack, installed, reopened>>

(* The device fetches the object, perhaps much later, and installs it if   *)
(* it hashes to the checksum.                                              *)
Install(d) ==
    /\ asked[d] # None
    /\ installed' = IF store[asked[d].version] = asked[d].content
                    THEN [installed EXCEPT ![d] = asked[d]] ELSE installed
    /\ asked' = [asked EXCEPT ![d] = None]
    /\ UNCHANGED <<pack, reopened>>

-----------------------------------------------------------------------------
(* What staff, the clock and the storage do to the pack. *)
PackStep ==
    \/ \E v \in Versions, c \in Contents :
         \/ \E s \in {"draft", "scheduled", "published"} : Upload(v, s, c)
         \/ EditDraft(v, c) \/ Withdraw(v, c)
    \/ \E v \in Versions :
         Revoke(v) \/ DeleteVersion(v) \/ Due(v) \/ \E how \in {Damaged, Missing} : Damage(v, how)

Next == PackStep \/ \E d \in Devices : Download(d) \/ Install(d)

Spec == Init /\ [][Next]_vars

-----------------------------------------------------------------------------
(* Two devices on the same version hold the same bytes, whatever is edited *)
(* or damaged between their downloads, unless the version was withdrawn or *)
(* deleted in the admin and issued again.  (models.py 80-92, views.py      *)
(* 41-67)                                                                  *)
SameVersionSameBytes ==
    \A d, e \in Devices :
        installed[d] # None /\ installed[e] # None
        /\ installed[d].version = installed[e].version
        /\ installed[d].content # installed[e].content
        => installed[d].version \in reopened
=============================================================================
