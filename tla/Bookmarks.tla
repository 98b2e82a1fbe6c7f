----------------------------- MODULE Bookmarks ------------------------------
(***************************************************************************)
(* The bookmarks of one user on the server: the endpoint that creates,     *)
(* patches and lists them, a device that walks the list page by page, and  *)
(* one that pulls them.  Rows are numbered in the order of their creation; *)
(* a deletion is a patch like any other, and rows never leave the table.   *)
(* The id a client sends is ignored, so a creation that is repeated makes  *)
(* a second row.  A patch takes the payload as it comes: nothing compares  *)
(* its client_updated_at with the row's.                                   *)
(***************************************************************************)
EXTENDS Naturals, FiniteSets

CONSTANTS
    MaxRows,    \* bound: bookmarks created
    MaxTime,    \* bound: the server's clock
    MaxWrites,  \* bound: creations and patches
    Skew,       \* how far ahead of the server's a device's clock may be
    PageSize,   \* page_size of the list
    PullLimit   \* PULL_LIMIT

VARIABLES
    now,        \* the server's clock
    written,    \* creations and patches so far
    count,      \* rows created
    updated,    \* client_updated_at of a row
    version,    \* the write a row holds
    walk,       \* "none", "walking" or "done"
    after,      \* the cursor of the walk: the last row of the page before
    seen,       \* rows of its pages
    atStart,    \* history: the rows there were when it began
    twice,      \* history: rows that were on two of its pages
    cursor,     \* server_time of the last pull
    have,       \* the version of a row the pulling device holds, 0 for none
    missed      \* history: rows cut from a page or written behind the cursor

table == <<now, written, count, updated, version>>
list == <<walk, after, seen, atStart, twice>>
pull == <<cursor, have, missed>>
vars == <<table, list, pull>>

Rows == 1..count

TypeOK ==
    /\ now \in Nat /\ written \in Nat /\ count \in 0..MaxRows
    /\ updated \in [1..MaxRows -> Nat]
    /\ \A b \in Rows : updated[b] <= now + Skew
    /\ version \in [1..MaxRows -> 0..written]
    /\ walk \in {"none", "walking", "done"} /\ after \in Nat
    /\ seen \in SUBSET Rows /\ atStart \in SUBSET Rows /\ twice \in SUBSET seen
    /\ cursor \in 0..now
    /\ have \in [1..MaxRows -> 0..written] /\ missed \in SUBSET Rows

Init ==
    /\ now = 1 /\ written = 0 /\ count = 0
    /\ updated = [b \in 1..MaxRows |-> 0] /\ version = [b \in 1..MaxRows |-> 0]
    /\ walk = "none" /\ after = 0 /\ seen = {} /\ atStart = {} /\ twice = {}
    /\ cursor = 0 /\ have = [b \in 1..MaxRows |-> 0] /\ missed = {}

-----------------------------------------------------------------------------
(* Mutant: the default order of the model's Meta. *)
PlaceByUpdate(b) == updated[b]

(* The list is ordered by created_at, newest first, unless the request     *)
(* asks OrderingFilter for another, which no code of the app does.         *)
Place(b) == b

(* Mutant: a patch is not validated. *)
WriteAnyTime(b, t) ==
    /\ written < MaxWrites
    /\ written' = written + 1
    /\ updated' = [updated EXCEPT ![b] = t]
    /\ version' = [version EXCEPT ![b] = written + 1]
    /\ missed' = IF t <= cursor THEN missed \cup {b} ELSE missed

(* A row is written, with the time its device gives it, which may be long  *)
(* past and at most Skew ahead.                                            *)
Write(b, t) ==
    /\ written < MaxWrites
    /\ t <= now + Skew
    /\ written' = written + 1
    /\ updated' = [updated EXCEPT ![b] = t]
    /\ version' = [version EXCEPT ![b] = written + 1]
    /\ missed' = IF t <= cursor THEN missed \cup {b} ELSE missed

Create(t) ==
    /\ count < MaxRows
    /\ count' = count + 1
    /\ Write(count + 1, t)
    /\ UNCHANGED <<now, list, cursor, have>>

Patch(b, t) ==
    /\ Write(b, t)
    /\ UNCHANGED <<now, count, list, cursor, have>>

Tick ==
    /\ now < MaxTime
    /\ now' = now + 1
    /\ UNCHANGED <<written, count, updated, version, list, pull>>

-----------------------------------------------------------------------------
StartWalk ==
    /\ walk = "none"
    /\ walk' = "walking"
    /\ after' = MaxRows + MaxTime + Skew + 1
    /\ atStart' = Rows
    /\ UNCHANGED <<seen, twice, table, pull>>

(* CursorPagination.paginate_queryset: the rows behind the cursor, and the *)
(* first PageSize of them.                                                 *)
Rest == {b \in Rows : Place(b) < after}
Before(b) == {c \in Rest : Place(c) > Place(b)}
Page == {b \in Rest : Cardinality(Before(b)) < PageSize}

NextPage ==
    /\ walk = "walking"
    /\ seen' = seen \cup Page
    /\ twice' = twice \cup (seen \cap Page)
    /\ walk' = IF Page = Rest THEN "done" ELSE "walking"
    /\ after' = IF Page = {} THEN after
                ELSE CHOOSE p \in {Place(b) : b \in Page} : \A b \in Page : p <= Place(b)
    /\ UNCHANGED <<atStart, table, pull>>

(* Mutant: the tolerance for clocks is counted twice. *)
ChangedLater == {b \in Rows : updated[b] > cursor + Skew}

Changed == {b \in Rows : updated[b] > cursor}

(* PullView: the newest PullLimit changes, by the clock of their devices   *)
(* (rows of one time in any order), and the time of the answer.            *)
Pull ==
    \E page \in SUBSET Changed :
      /\ Cardinality(page) = IF Cardinality(Changed) < PullLimit
                             THEN Cardinality(Changed) ELSE PullLimit
      /\ \A b \in Changed \ page, c \in page : updated[b] <= updated[c]
      /\ have' = [b \in 1..MaxRows |-> IF b \in page THEN version[b] ELSE have[b]]
      /\ missed' = (missed \ page) \cup (Changed \ page)
      /\ cursor' = now
      /\ UNCHANGED <<table, list>>

-----------------------------------------------------------------------------
Next ==
    \/ \E t \in 0..(MaxTime + Skew) : Create(t) \/ \E b \in Rows : Patch(b, t)
    \/ Tick \/ StartWalk \/ NextPage \/ Pull

Spec == Init /\ [][Next]_vars

-----------------------------------------------------------------------------
(* A walk through the list, however long it takes, shows every bookmark    *)
(* there was when it began, and none twice, while others are created and   *)
(* patched.  (pagination.py 4-15, quran/views.py 84-105)                   *)
WalkIsComplete == walk = "done" => atStart \subseteq seen /\ twice = {}

(* A pulling device lacks a write from behind its cursor only if that      *)
(* write was cut from a full page or reached the server with an older      *)
(* time than a pull before it.  (sync/views.py 72-91)                      *)
LacksOnlyCutOrLate ==
    \A b \in Rows : updated[b] <= cursor /\ have[b] # version[b] => b \in missed
=============================================================================
