----------------------------- MODULE AccountRow -----------------------------
(***************************************************************************)
(* The row of one address in the user table and its profile.  A request    *)
(* loads the whole row when it authenticates and writes it later, in a     *)
(* statement of its own: some columns (update_fields) or, from the profile *)
(* screen, all of them.  A password reset reads and writes the row under   *)
(* its lock and is one step.  Passwords are numbered in the order they are *)
(* set; wrong ones end a request without effect and are left out, as is    *)
(* touch, which nothing calls.                                             *)
(***************************************************************************)
EXTENDS Naturals, Account

CONSTANT MaxPassword     \* bound: passwords ever set

ASSUME MaxPasswordAssumption == MaxPassword \in Nat

VARIABLES
    exists,     \* the row is there
    row,        \* its password, and whether a deletion has been requested
                \* (is_active and deletion_requested_at, written together)
    profile,    \* the profile's row is there
    newest,     \* the last password set
    at,         \* where each request is
    held,       \* request.user: the row as the request has loaded it
    cutShort,   \* history: a registration has ended half-way
    stale       \* history: requests that loaded the row before its last write

rowVars == <<exists, row, profile, newest, at, held, cutShort, stale>>

Rows == [password : Nat, marked : BOOLEAN]
NoRow == [password |-> 0, marked |-> FALSE]

Loaded == {r \in Requests : at[r] \in {"updating", "changing"}}

RowTypeOK ==
    /\ exists \in BOOLEAN /\ profile \in BOOLEAN /\ cutShort \in BOOLEAN
    /\ row \in Rows /\ newest \in Nat
    /\ at \in [Requests -> {"idle", "profiling", "updating", "changing"}]
    /\ held \in [Requests -> Rows]
    /\ \A r \in Requests \ Loaded : held[r] = NoRow
    /\ stale \in SUBSET Requests

RowInit ==
    /\ exists = FALSE /\ profile = FALSE /\ cutShort = FALSE
    /\ row = NoRow /\ newest = 0
    /\ at = [r \in Requests |-> "idle"]
    /\ held = [r \in Requests |-> NoRow]
    /\ stale = {}

-----------------------------------------------------------------------------
(* JWTAuthentication loads the row and refuses an inactive account. *)
Load(r, step) ==
    /\ exists /\ ~row.marked
    /\ at[r] = "idle"
    /\ at' = [at EXCEPT ![r] = step]
    /\ held' = [held EXCEPT ![r] = row]
    /\ UNCHANGED <<exists, row, profile, newest, cutShort, stale>>

(* Mutant: the user stays with the connection for its next request. *)
FinishKeepsUser(r) ==
    /\ at' = [at EXCEPT ![r] = "idle"]
    /\ UNCHANGED held

Finish(r) ==
    /\ at' = [at EXCEPT ![r] = "idle"]
    /\ held' = [held EXCEPT ![r] = NoRow]

(* Everyone else who has loaded the row now holds an old one. *)
Write(r, new) ==
    /\ row' = new
    /\ stale' = Loaded \ {r}

NewPassword ==
    /\ newest < MaxPassword
    /\ newest' = newest + 1

-----------------------------------------------------------------------------
(* RegisterSerializer.create: the user ... *)
Register(r) ==
    /\ ~exists
    /\ at[r] = "idle"
    /\ NewPassword
    /\ exists' = TRUE
    /\ row' = [password |-> newest + 1, marked |-> FALSE]
    /\ at' = [at EXCEPT ![r] = "profiling"]
    /\ UNCHANGED <<profile, held, cutShort, stale>>

(* Mutant: the profile is left to its first use. *)
SkipProfile(r) ==
    /\ at[r] = "profiling"
    /\ Finish(r)
    /\ UNCHANGED <<exists, row, profile, newest, cutShort, stale>>

(* ... and then the profile, unless it is there already, which raises. *)
CreateProfile(r) ==
    /\ at[r] = "profiling"
    /\ ~profile
    /\ profile' = TRUE
    /\ Finish(r)
    /\ UNCHANGED <<exists, row, newest, cutShort, stale>>

(* ProfileView.get_object *)
ViewProfile ==
    /\ exists /\ ~row.marked
    /\ profile' = TRUE
    /\ UNCHANGED <<exists, row, newest, at, held, cutShort, stale>>

(* MeView.patch loads the user and saves every column of it. *)
LoadForUpdate(r) == Load(r, "updating")

SaveMe(r) ==
    /\ at[r] = "updating"
    /\ Write(r, held[r])
    /\ Finish(r)
    /\ UNCHANGED <<exists, profile, newest, cutShort>>

(* ChangePasswordView checks the password it has loaded ... *)
LoadForChange(r) == Load(r, "changing")

(* Mutant: without update_fields. *)
SaveChangedUser(r) ==
    /\ at[r] = "changing"
    /\ NewPassword
    /\ Write(r, [held[r] EXCEPT !.password = newest + 1])
    /\ Finish(r)
    /\ UNCHANGED <<exists, profile, cutShort>>

(* ... and saves the new one. *)
SavePassword(r) ==
    /\ at[r] = "changing"
    /\ NewPassword
    /\ Write(r, [row EXCEPT !.password = newest + 1])
    /\ Finish(r)
    /\ UNCHANGED <<exists, profile, cutShort>>

(* ResetPasswordView, active account or not. *)
SetPassword(r) ==
    /\ exists
    /\ at[r] = "idle"
    /\ NewPassword
    /\ Write(r, [row EXCEPT !.password = newest + 1])
    /\ UNCHANGED <<exists, profile, at, held, cutShort>>

(* DeleteAccountView writes its two columns. *)
MarkDeleted(r) ==
    /\ exists /\ ~row.marked
    /\ at[r] = "idle"
    /\ Write(r, [row EXCEPT !.marked = TRUE])
    /\ UNCHANGED <<exists, profile, newest, at, held, cutShort>>

(* The worker dies or a statement raises. *)
RowRequestFails(r) ==
    /\ at[r] # "idle"
    /\ cutShort' = (cutShort \/ at[r] = "profiling")
    /\ Finish(r)
    /\ UNCHANGED <<exists, row, profile, newest, stale>>

(* The sweep deletes the user a month after the request, and the profile   *)
(* with it; no request lasts that long.                                    *)
EraseUser ==
    /\ exists /\ row.marked
    /\ \A r \in Requests : at[r] = "idle"
    /\ exists' = FALSE /\ row' = NoRow /\ profile' = FALSE /\ cutShort' = FALSE
    /\ UNCHANGED <<newest, at, held, stale>>

-----------------------------------------------------------------------------
RowNext ==
    \/ \E r \in Requests :
         \/ Register(r) \/ CreateProfile(r)
         \/ LoadForUpdate(r) \/ SaveMe(r) \/ LoadForChange(r) \/ SavePassword(r)
         \/ SetPassword(r) \/ MarkDeleted(r) \/ RowRequestFails(r)
    \/ ViewProfile \/ EraseUser

RowSpec == RowInit /\ [][RowNext]_rowVars

-----------------------------------------------------------------------------
(* A password or a requested deletion is taken back only by the profile    *)
(* screen's save of a row that was loaded before a later write: no other   *)
(* mix of requests loses one.  (auth_views.py 91-93, 134-135, views.py     *)
(* 52-55 against views.py 24-29)                                           *)
TakenBackOnlyByProfileScreen ==
    [][exists /\ exists' /\ (row'.password < row.password \/ (row.marked /\ ~row'.marked))
        => \E r \in stale : at[r] = "updating" /\ row' = held[r]]_rowVars

(* A user without a profile is one whose registration is still running or  *)
(* was cut short.  (serializers.py 38-41, views.py 36-38)                  *)
ProfileMissingOnlyIfCutShort ==
    exists /\ ~profile => cutShort \/ \E r \in Requests : at[r] = "profiling"

(* What the code's comment promises and a save of the whole row breaks:    *)
(* an account marked for deletion stays marked until it is erased.         *)
(* (views.py 49-55)                                                        *)
MarkedUntilErased == [][exists /\ row.marked => ~exists' \/ row'.marked]_rowVars
=============================================================================
