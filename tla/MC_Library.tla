----------------------------- MODULE MC_Library -----------------------------
(* Five services of the server that share nothing, checked side by side:   *)
(* a behaviour is one of Catalogue, PackCheck, Webhooks, Bookmarks or      *)
(* Profiles, and the state of the others stays as it was.                  *)
EXTENDS PackCheck, TLC

CONSTANTS Workers, Events, Payloads, Fields, MaxEdits,
          MaxRows, MaxTime, MaxWrites, Skew, PageSize, PullLimit

ASSUME NoneIsNoEvent == None \notin Events \cup Payloads
ASSUME NoneIsNoProfile == None \notin [Fields -> Nat]
ASSUME BoundsAssumption ==
    /\ {MaxEdits, MaxRows, MaxTime, MaxWrites, Skew} \subseteq Nat
    /\ {PageSize, PullLimit} \subseteq Nat \ {0}

VARIABLES
    service,    \* the one that runs
    event, inserting, accepted,
    now, written, count, updated, version, walk, after, seen, atStart, twice,
    cursor, have, missed,
    stored, step, loaded, edits, behind

W == INSTANCE Webhooks
B == INSTANCE Bookmarks
P == INSTANCE Profiles

checkVars == <<checking, todo, failed, suspects, touched>>
hookVars == <<event, inserting, accepted>>
markVars == <<now, written, count, updated, version, walk, after, seen, atStart, twice,
              cursor, have, missed>>
profileVars == <<stored, step, loaded, edits, behind>>

LibraryInit ==
    /\ service \in {"catalogue", "check", "webhooks", "bookmarks", "profiles"}
    /\ CheckInit /\ W!Init /\ B!Init /\ P!Init

LibraryNext ==
    /\ UNCHANGED service
    /\ \/ service = "catalogue" /\ Next
          /\ UNCHANGED <<checkVars, hookVars, markVars, profileVars>>
       \/ service = "check" /\ CheckNext /\ UNCHANGED <<hookVars, markVars, profileVars>>
       \/ service = "webhooks" /\ W!Next
          /\ UNCHANGED <<vars, checkVars, markVars, profileVars>>
       \/ service = "bookmarks" /\ B!Next
          /\ UNCHANGED <<vars, checkVars, hookVars, profileVars>>
       \/ service = "profiles" /\ P!Next
          /\ UNCHANGED <<vars, checkVars, hookVars, markVars>>

LibrarySpec ==
    LibraryInit /\ [][LibraryNext]_<<service, vars, checkVars, hookVars, markVars, profileVars>>

Symmetry == Permutations(Devices) \cup Permutations(Contents)

-----------------------------------------------------------------------------
(* Packs, nightly check, callbacks, bookmarks and profile keep their       *)
(* types; so does a bookmark's date its bound, the server's clock    *)
(* and the tolerance.                                                      *)
ServicesTypeOK == TypeOK /\ CheckTypeOK /\ W!TypeOK /\ B!TypeOK /\ P!TypeOK

(* See Webhooks. *)
FirstDeliveryStays == W!FirstDeliveryStays

(* See Bookmarks. *)
WalkIsComplete == B!WalkIsComplete

(* See Bookmarks. *)
LacksOnlyCutOrLate == B!LacksOnlyCutOrLate

(* See Profiles. *)
SetBackOnlyByOverlap == P!SetBackOnlyByOverlap
=============================================================================
