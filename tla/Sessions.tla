------------------------------ MODULE Sessions ------------------------------
(***************************************************************************)
(* The sessions of one account on the server: its refresh tokens, their    *)
(* rotation, their revocation and the daily job that prunes their rows.    *)
(* ATOMIC_REQUESTS is off, so a request is a sequence of statements that   *)
(* others run between, and it may stop after any of them; only a password  *)
(* reset is one transaction, which locks the user's row.                   *)
(*                                                                         *)
(* Login, refresh and logout are views of the JWT library, at the version  *)
(* the project pins (simplejwt 5.3.1).  A login creates a row in the       *)
(* outstanding table, with the user.  A refresh blacklists the token it    *)
(* was given, for which a row without a user is created if there is none,  *)
(* and answers with a new token that has no row.  The code reads the rows  *)
(* of the user only.  A password or a token that is wrong ends a request   *)
(* without effect and is left out; so is the password itself.  Lifetimes   *)
(* are left open: a token may expire at any time.                          *)
(***************************************************************************)
EXTENDS Account

CONSTANTS
    Tokens,     \* refresh tokens, by their jti
    NoToken

ASSUME NoTokenAssumption == NoToken \notin Tokens

VARIABLES
    active,       \* is_active: no deletion has been requested
    minted,       \* tokens that exist
    expired,      \* tokens whose expires_at has passed
    outstanding,  \* tokens with a row in the outstanding table that names the user
    blacklisted,  \* tokens with a row in the blacklist
    pc,           \* where each request is
    presented,    \* the token a refresh or a logout has checked
    listed,       \* the rows a revocation has read
    todo,         \* those it has not blacklisted
    root,         \* history: the login a token descends from
    closed,       \* history: logins a completed revocation has listed
    overlapped,   \* history: logins refreshed while a revocation ran
    refreshed     \* history: logins refreshed before a revocation listed them

tokens == <<active, minted, expired, outstanding, blacklisted>>
request == <<presented, listed, todo>>
history == <<root, closed, overlapped, refreshed>>
vars == <<tokens, pc, request, history>>

Steps == {"idle", "rotating", "minting", "leaving", "listing", "revoking", "resetting",
          "committing"}

TypeOK ==
    /\ active \in BOOLEAN
    /\ minted \in SUBSET Tokens /\ expired \in SUBSET minted
    /\ outstanding \in SUBSET minted /\ blacklisted \in SUBSET minted
    /\ pc \in [Requests -> Steps]
    /\ presented \in [Requests -> Tokens \cup {NoToken}]
    /\ listed \in [Requests -> SUBSET Tokens] /\ todo \in [Requests -> SUBSET Tokens]
    /\ root \in [Tokens -> Tokens]
    /\ {closed, overlapped, refreshed} \subseteq SUBSET Tokens

Init ==
    /\ active = TRUE
    /\ minted = {} /\ expired = {} /\ outstanding = {} /\ blacklisted = {}
    /\ pc = [r \in Requests |-> "idle"]
    /\ presented = [r \in Requests |-> NoToken]
    /\ listed = [r \in Requests |-> {}] /\ todo = [r \in Requests |-> {}]
    /\ root = [t \in Tokens |-> t]
    /\ closed = {} /\ overlapped = {} /\ refreshed = {}

-----------------------------------------------------------------------------
(* The refresh endpoint takes a token that is neither expired nor          *)
(* blacklisted.                                                            *)
Usable(t) == t \in minted \ (expired \cup blacklisted)

(* SessionListView.get: the user's unexpired rows less the blacklisted ones. *)
SessionList == outstanding \ (expired \cup blacklisted)

(* The only transaction holds the user's row. *)
UserLocked == \E r \in Requests : pc[r] \in {"resetting", "committing"}

Revoking == \E r \in Requests : pc[r] \in {"revoking", "committing"}

Families(T) == {root[t] : t \in T}

(* r is a refresh between its check and its answer. *)
Refreshing(r) == pc[r] \in {"rotating", "minting"} /\ presented[r] # NoToken

(* Logins that are being refreshed at this moment, and that have been. *)
InRotation == Families({presented[r] : r \in {q \in Requests : Refreshing(q)}})

Refreshed == {root[t] : t \in {u \in minted : root[u] # u}}

Move(r, from, to) ==
    /\ pc[r] = from
    /\ pc' = [pc EXCEPT ![r] = to]

End(r, from) ==
    /\ Move(r, from, "idle")
    /\ presented' = [presented EXCEPT ![r] = NoToken]
    /\ listed' = [listed EXCEPT ![r] = {}]
    /\ todo' = [todo EXCEPT ![r] = {}]

-----------------------------------------------------------------------------
(* Mutant: a login goes the way of a refresh. *)
AuthenticateRotates(r) ==
    /\ active
    /\ Move(r, "idle", "rotating")
    /\ UNCHANGED <<tokens, request, history>>

(* Login finds an active account and the right password. *)
Authenticate(r) ==
    /\ active
    /\ Move(r, "idle", "minting")
    /\ UNCHANGED <<tokens, request, history>>

RefreshCheck(r, t) ==
    /\ Usable(t)
    /\ Move(r, "idle", "rotating")
    /\ presented' = [presented EXCEPT ![r] = t]
    /\ overlapped' = IF Revoking THEN overlapped \cup {root[t]} ELSE overlapped
    /\ UNCHANGED <<tokens, listed, todo, root, closed, refreshed>>

(* BLACKLIST_AFTER_ROTATION *)
RotateBlacklist(r) ==
    /\ Move(r, "rotating", "minting")
    /\ blacklisted' = blacklisted \cup {presented[r]}
    /\ UNCHANGED <<active, minted, expired, outstanding, request, history>>

(* The row of a login's token, whose foreign key waits for the user's row. *)
MintLogin(r) ==
    /\ presented[r] = NoToken
    /\ ~UserLocked
    /\ \E t \in Tokens \ minted :
         /\ minted' = minted \cup {t}
         /\ outstanding' = outstanding \cup {t}
    /\ End(r, "minting")
    /\ UNCHANGED <<active, expired, blacklisted, history>>

(* A refresh answers with a token that no row records. *)
MintRotated(r) ==
    /\ presented[r] # NoToken
    /\ \E t \in Tokens \ minted :
         /\ minted' = minted \cup {t}
         /\ root' = [root EXCEPT ![t] = root[presented[r]]]
    /\ End(r, "minting")
    /\ UNCHANGED <<active, expired, outstanding, blacklisted, closed, overlapped, refreshed>>

(* Logout, by the library's TokenBlacklistView: the token is checked ...   *)
LogoutCheck(r, t) ==
    /\ Usable(t)
    /\ Move(r, "idle", "leaving")
    /\ presented' = [presented EXCEPT ![r] = t]
    /\ UNCHANGED <<tokens, listed, todo, history>>

(* ... and blacklisted. *)
Logout(r) ==
    /\ End(r, "leaving")
    /\ blacklisted' = blacklisted \cup {presented[r]}
    /\ UNCHANGED <<active, minted, expired, outstanding, history>>

(* LogoutAllView and SessionListView.delete. *)
LogoutAll(r) ==
    /\ active
    /\ Move(r, "idle", "listing")
    /\ UNCHANGED <<tokens, request, history>>

(* The save of the new password waits for the user's row. *)
ChangePassword(r) ==
    /\ ~UserLocked
    /\ LogoutAll(r)

(* ResetPasswordView has locked the link and the user, whether or not the  *)
(* account is being deleted.                                               *)
ResetPassword(r) ==
    /\ ~UserLocked
    /\ Move(r, "idle", "resetting")
    /\ UNCHANGED <<tokens, request, history>>

(* _revoke_all reads the rows once ... *)
ListOutstanding(r, from, to) ==
    /\ Move(r, from, to)
    /\ listed' = [listed EXCEPT ![r] = outstanding]
    /\ todo' = [todo EXCEPT ![r] = outstanding]
    /\ overlapped' = overlapped \cup InRotation
    /\ refreshed' = refreshed \cup (Refreshed \cap outstanding)
    /\ UNCHANGED <<tokens, presented, root, closed>>

(* ... and blacklists them one by one; a row pruned meanwhile raises.      *)
BlacklistNext(r, t) ==
    /\ pc[r] = "revoking"
    /\ t \in todo[r] \cap outstanding
    /\ blacklisted' = blacklisted \cup {t}
    /\ todo' = [todo EXCEPT ![r] = @ \ {t}]
    /\ UNCHANGED <<active, minted, expired, outstanding, pc, presented, listed, history>>

(* Mutant: what is left in the loop is passed over. *)
RevokedEarly(r) ==
    /\ End(r, "revoking")
    /\ closed' = closed \cup Families(listed[r])
    /\ UNCHANGED <<tokens, root, overlapped, refreshed>>

Revoked(r) ==
    /\ todo[r] = {}
    /\ End(r, "revoking")
    /\ closed' = closed \cup Families(listed[r])
    /\ UNCHANGED <<tokens, root, overlapped, refreshed>>

(* Nobody sees what a reset has written before it commits. *)
ResetCommit(r) ==
    /\ todo[r] \subseteq outstanding
    /\ End(r, "committing")
    /\ blacklisted' = blacklisted \cup todo[r]
    /\ closed' = closed \cup Families(listed[r])
    /\ UNCHANGED <<active, minted, expired, outstanding, root, overlapped, refreshed>>

(* A statement raises or the worker dies: what is committed stays, and a   *)
(* reset is rolled back.                                                   *)
RequestFails(r) ==
    /\ pc[r] # "idle"
    /\ End(r, pc[r])
    /\ UNCHANGED <<tokens, history>>

(* Mutant: the rows of dead tokens go, however they died. *)
PruneDead ==
    /\ outstanding' = outstanding \ (expired \cup blacklisted)
    /\ blacklisted' = {}
    /\ UNCHANGED <<active, minted, expired, pc, request, history>>

(* prune_expired_tokens; a row of the blacklist goes with its token's. *)
Prune ==
    /\ outstanding' = outstanding \ expired
    /\ blacklisted' = blacklisted \ expired
    /\ UNCHANGED <<active, minted, expired, pc, request, history>>

(* A token reaches the end of REFRESH_TOKEN_LIFETIME. *)
Expire(t) ==
    /\ t \in minted \ expired
    /\ expired' = expired \cup {t}
    /\ UNCHANGED <<active, minted, outstanding, blacklisted, pc, request, history>>

(* DeleteAccountView leaves the tokens as they are. *)
DeleteAccount ==
    /\ active /\ ~UserLocked
    /\ active' = FALSE
    /\ UNCHANGED <<minted, expired, outstanding, blacklisted, pc, request, history>>

-----------------------------------------------------------------------------
Next ==
    \/ \E r \in Requests :
         \/ Authenticate(r) \/ MintLogin(r)
         \/ RotateBlacklist(r) \/ MintRotated(r) \/ Logout(r)
         \/ \E t \in Tokens : RefreshCheck(r, t) \/ LogoutCheck(r, t) \/ BlacklistNext(r, t)
         \/ LogoutAll(r) \/ ChangePassword(r) \/ ResetPassword(r)
         \/ ListOutstanding(r, "listing", "revoking")
         \/ ListOutstanding(r, "resetting", "committing")
         \/ Revoked(r) \/ ResetCommit(r) \/ RequestFails(r)
    \/ \E t \in Tokens : Expire(t)
    \/ Prune \/ DeleteAccount

Spec == Init /\ [][Next]_vars

-----------------------------------------------------------------------------
(* A login whose row a completed revocation has listed is over, unless it  *)
(* had been refreshed before or was being refreshed while the revocation   *)
(* ran: a worker that died half-way, a row pruned under the loop, a reset  *)
(* that rolled back and a logout in between are no other way out.          *)
(* (auth_views.py 29-31, 99-102, 137-140; session_security.py 56-67)       *)
SurvivorsWereRefreshed ==
    \A t \in Tokens :
        Usable(t) /\ root[t] \in closed => root[t] \in overlapped \cup refreshed

(* The list of sessions shows the logins whose own token still works: not  *)
(* one of them is missing and none is there in vain, but a session that    *)
(* has been refreshed is not on it.                                        *)
(* (auth_views.py 191-201 against the refresh endpoint and the prune job)  *)
ListShowsFirstTokens == SessionList = {t \in Tokens : Usable(t) /\ root[t] = t}

(* auth_views.py 99-102, after a revocation "Every outstanding refresh     *)
(* token dies on every device": what still works of a login it has listed  *)
(* comes from a refresh that overlapped it.                                *)
SurvivorsOverlap ==
    \A t \in Tokens : Usable(t) /\ root[t] \in closed => root[t] \in overlapped

(* A refresh token that has stopped working never works again, whatever    *)
(* rows the clean-up job deletes.  (session_security.py 56-67)             *)
DeadTokenStaysDead == [][\A t \in minted : ~Usable(t) => ~Usable(t)']_vars
=============================================================================
