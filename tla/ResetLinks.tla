----------------------------- MODULE ResetLinks -----------------------------
(***************************************************************************)
(* The one-time tokens with which one account resets its password: issue,  *)
(* the mail that carries the link, consumption, and the retention sweep.   *)
(* A request is a sequence of statements that others run between; only the *)
(* reset is a transaction, which locks the link and, through               *)
(* select_related, the user's row.  The mail task is acknowledged late, so *)
(* it may run more than once; it may also never run.  Lifetimes are left   *)
(* open: a link may expire at any time.  Links for the verification of an  *)
(* address are issued by no code and left out.                             *)
(***************************************************************************)
EXTENDS Naturals, Account

CONSTANTS
    Links,      \* one-time tokens, by their hash
    NoLink

ASSUME NoLinkAssumption == NoLink \notin Links

VARIABLES
    enabled,    \* is_active: no deletion has been requested
    issued,     \* links ever created
    rows,       \* those with a row in the table
    lapsed,     \* those whose expires_at has passed
    consumed,   \* rows whose consumed_at is set
    queued,     \* links the broker has a mail task for
    mailed,     \* links that have reached the inbox
    stage,      \* where each request is
    link,       \* the link it works on
    uses,       \* history: password resets done with a link
    together    \* history: links created while another was being issued

table == <<issued, rows, lapsed, consumed>>
mail == <<queued, mailed>>
linkRequest == <<stage, link>>
linkHistory == <<uses, together>>
linksVars == <<enabled, table, mail, linkRequest, linkHistory>>

Stages == {"idle", "issuing", "creating", "sending", "resetting"}

LinksTypeOK ==
    /\ enabled \in BOOLEAN
    /\ issued \in SUBSET Links /\ rows \in SUBSET issued /\ lapsed \in SUBSET issued
    /\ consumed \in SUBSET rows
    /\ queued \in SUBSET issued /\ mailed \in SUBSET queued
    /\ stage \in [Requests -> Stages]
    /\ link \in [Requests -> issued \cup {NoLink}]
    /\ uses \in [Links -> Nat] /\ together \in SUBSET issued

LinksInit ==
    /\ enabled = TRUE
    /\ issued = {} /\ rows = {} /\ lapsed = {} /\ consumed = {}
    /\ queued = {} /\ mailed = {}
    /\ stage = [r \in Requests |-> "idle"]
    /\ link = [r \in Requests |-> NoLink]
    /\ uses = [l \in Links |-> 0] /\ together = {}

-----------------------------------------------------------------------------
(* The lookup of consume. *)
Live(l) == l \in rows \ (consumed \cup lapsed)

(* The transaction holds the link it found and the user's row. *)
Locked == \E r \in Requests : stage[r] = "resetting"

Step(r, from, to, l) ==
    /\ stage[r] = from
    /\ stage' = [stage EXCEPT ![r] = to]
    /\ link' = [link EXCEPT ![r] = l]

-----------------------------------------------------------------------------
(* An account that does not exist or is inactive is answered all the same. *)
ForgotPassword(r) ==
    /\ enabled
    /\ Step(r, "idle", "issuing", NoLink)
    /\ UNCHANGED <<enabled, table, mail, linkHistory>>

(* Mutant: only links that have expired are invalidated. *)
InvalidateExpired(r) ==
    /\ ~Locked
    /\ Step(r, "issuing", "creating", NoLink)
    /\ consumed' = consumed \cup (rows \cap lapsed)
    /\ UNCHANGED <<enabled, issued, rows, lapsed, mail, linkHistory>>

(* OneTimeToken.issue consumes what is outstanding, waiting for a row that *)
(* a reset has locked ...                                                  *)
InvalidateLinks(r) ==
    /\ ~Locked
    /\ Step(r, "issuing", "creating", NoLink)
    /\ consumed' = consumed \cup rows
    /\ UNCHANGED <<enabled, issued, rows, lapsed, mail, linkHistory>>

(* Mutant: the account has one row, which is issued again. *)
RecycleLink(r) ==
    /\ ~Locked
    /\ \E l \in Links :
         /\ Step(r, "creating", "sending", l)
         /\ issued' = issued \cup {l}
         /\ rows' = rows \cup {l}
         /\ consumed' = consumed \ {l}
    /\ UNCHANGED <<enabled, lapsed, mail, linkHistory>>

(* ... and creates the new one in a statement of its own. *)
CreateLink(r) ==
    /\ ~Locked
    /\ \E l \in Links \ issued :
         /\ Step(r, "creating", "sending", l)
         /\ issued' = issued \cup {l}
         /\ rows' = rows \cup {l}
         /\ together' = IF \E q \in Requests \ {r} : stage[q] = "creating"
                        THEN together \cup {l} ELSE together
    /\ UNCHANGED <<enabled, lapsed, consumed, mail, uses>>

(* Mutant: the mail is queued before its link is created. *)
QueueMailFirst(r) ==
    /\ stage[r] \in {"creating", "sending"}
    /\ Step(r, stage[r], "idle", NoLink)
    /\ queued' = queued \cup {link[r]}
    /\ UNCHANGED <<enabled, table, mailed, linkHistory>>

QueueMail(r) ==
    /\ Step(r, "sending", "idle", NoLink)
    /\ queued' = queued \cup {link[r]}
    /\ UNCHANGED <<enabled, table, mailed, linkHistory>>

(* send_password_reset, late and perhaps again. *)
SendReset(l) ==
    /\ l \in queued
    /\ mailed' = mailed \cup {l}
    /\ UNCHANGED <<enabled, table, queued, linkRequest, linkHistory>>

(* Mutant: consume without select_for_update. *)
ConsumeUnlocked(r, l) ==
    /\ l \in mailed /\ Live(l)
    /\ Step(r, "idle", "resetting", l)
    /\ UNCHANGED <<enabled, table, mail, linkHistory>>

(* ResetPasswordView.  A link that is not live any more when the lock is   *)
(* granted is a 400; nobody sees the row's new consumed_at before the      *)
(* commit.  The account need not be active.                                 *)
ConsumeLink(r, l) ==
    /\ ~Locked
    /\ l \in mailed /\ Live(l)
    /\ Step(r, "idle", "resetting", l)
    /\ UNCHANGED <<enabled, table, mail, linkHistory>>

(* Password, consumed_at and the revocation of all sessions take effect    *)
(* together.                                                               *)
ResetDone(r) ==
    /\ Step(r, "resetting", "idle", NoLink)
    /\ consumed' = consumed \cup (rows \cap {link[r]})
    /\ uses' = [uses EXCEPT ![link[r]] = @ + 1]
    /\ UNCHANGED <<enabled, issued, rows, lapsed, mail, together>>

(* A statement raises or the worker dies: what is committed stays, and a   *)
(* reset is rolled back.                                                   *)
LinkRequestFails(r) ==
    /\ stage[r] # "idle"
    /\ Step(r, stage[r], "idle", NoLink)
    /\ UNCHANGED <<enabled, table, mail, linkHistory>>

Disable ==
    /\ enabled /\ ~Locked
    /\ enabled' = FALSE
    /\ UNCHANGED <<table, mail, linkRequest, linkHistory>>

(* gdpr_retention_sweep deletes links that expired a week ago, when no     *)
(* reset that found one alive is still running ...                         *)
Sweep(old) ==
    /\ old # {} /\ old \subseteq rows \cap lapsed
    /\ \A r \in Requests : link[r] \notin old
    /\ rows' = rows \ old
    /\ consumed' = consumed \ old
    /\ UNCHANGED <<enabled, issued, lapsed, mail, linkRequest, linkHistory>>

(* ... and an account a month after its deletion was requested, with all   *)
(* its links; no request lasts that long.                                  *)
Erase ==
    /\ ~enabled /\ \A r \in Requests : stage[r] = "idle"
    /\ rows' = {} /\ consumed' = {}
    /\ UNCHANGED <<enabled, issued, lapsed, mail, linkRequest, linkHistory>>

(* A link reaches the end of its TTL. *)
Lapse(l) ==
    /\ l \in issued \ lapsed
    /\ lapsed' = lapsed \cup {l}
    /\ UNCHANGED <<enabled, issued, rows, consumed, mail, linkRequest, linkHistory>>

-----------------------------------------------------------------------------
LinksNext ==
    \/ \E r \in Requests :
         \/ ForgotPassword(r) \/ InvalidateLinks(r) \/ CreateLink(r) \/ QueueMail(r)
         \/ \E l \in Links : ConsumeLink(r, l)
         \/ ResetDone(r) \/ LinkRequestFails(r)
    \/ \E l \in Links : SendReset(l) \/ Lapse(l)
    \/ \E old \in SUBSET Links : Sweep(old)
    \/ Disable \/ Erase

LinksSpec == LinksInit /\ [][LinksNext]_linksVars

-----------------------------------------------------------------------------
(* A link changes the password at most once, whichever requests present it *)
(* at the same time and however often it is mailed.                        *)
(* (tokens.py 87-103, auth_views.py 74-88)                                 *)
WorksOnce == \A l \in Links : uses[l] <= 1

(* Two links are live at once only if one was created while the other's    *)
(* request had already invalidated what was outstanding.                   *)
(* (tokens.py 66-84)                                                       *)
TwoLinksOnlyByOverlap ==
    \A l, m \in Links : Live(l) /\ Live(m) /\ l # m => {l, m} \cap together # {}

(* A link that has stopped working never works again, whatever rows the    *)
(* sweep deletes and whichever reset is rolled back.                       *)
(* (tokens.py 69-103, security.py 92-115)                                  *)
DeadLinkStaysDead == [][\A l \in issued : ~Live(l) => ~Live(l)']_linksVars

(* A reset that is under way works on a link that was live when it took    *)
(* the lock, and no other request can take it away.                        *)
(* (tokens.py 89-103)                                                      *)
LockHolds ==
    \A r \in Requests : stage[r] = "resetting" => link[r] \in (rows \cap mailed) \ consumed
=============================================================================
