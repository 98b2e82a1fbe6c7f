----------------------------- MODULE SyncEngine -----------------------------
(***************************************************************************)
(* SyncEngine.run on one device, against the sync endpoints of the server: *)
(* push what is queued, pull what is new, apply it, and move the cursor.   *)
(* The user reviews cards at any time, the account's other devices push    *)
(* through the same server, several triggers may have several runs going,  *)
(* and the app may be killed at any step.                                  *)
(*                                                                         *)
(* The queue is Outbox seen from here: a drain pushes the versions it read *)
(* when it began, removes a row once its push is answered, passes over     *)
(* rows the server refuses or the table holds back, and may give up at any *)
(* point.  The data are the memorisation cards, the only kind PushView     *)
(* stores; pull and apply are callbacks the repository leaves to a caller: *)
(* pull is PullView, apply the merge rule registered for cards.            *)
(***************************************************************************)
EXTENDS MergeRules, FiniteSets

CONSTANTS
    Keys,       \* the cards of the account
    Runs,       \* runs of the engine that may be going at once
    PullLimit,  \* PULL_LIMIT, 500 in the code
    MaxReps,    \* bound: repetitions of a card
    MaxTime,    \* bound: ticks of the clocks
    NoCard

ASSUME BoundsAssumption ==
    PullLimit \in Nat \ {0} /\ MaxReps \in Nat /\ MaxTime \in Nat

Card == [reps : Nat, at : Nat]

ASSUME NoCardAssumption == NoCard \notin Card

VARIABLES
    now,      \* the time, which every clock shows
    server,   \* the server's cards
    arrived,  \* when the version the server has of a card reached it
    local,    \* the device's cards
    queue,    \* the version the outbox row of a card carries
    cursor,   \* serverTime of the row 'all' of SyncCursors, 0 for none
    pc,       \* where each run is
    todo,     \* the rows its drain has read and is not done with
    pushed,   \* the one among them that the server has applied
    since,    \* the cursor it has read
    page,     \* the cards of the response that it has not applied
    stamp,    \* server_time of that response
    left,     \* history: the cards each run's cursor will pass unseen
    skipped,  \* history: the cards the cursor has passed so
    overlap   \* history: cards last reviewed while a drain held them

vars == <<now, server, arrived, local, queue, cursor, pc, todo,
          pushed, since, page, stamp, left, skipped, overlap>>

run == <<pc, todo, pushed, since, page, stamp>>

TypeOK ==
    /\ now \in Nat
    /\ server \in [Keys -> Card \cup {NoCard}]
    /\ arrived \in [Keys -> Nat]
    /\ local \in [Keys -> Card \cup {NoCard}]
    /\ queue \in [Keys -> Card \cup {NoCard}]
    /\ cursor \in Nat
    /\ pc \in [Runs -> {"idle", "draining", "pulling", "served", "applying"}]
    /\ todo \in [Runs -> [Keys -> Card \cup {NoCard}]]
    /\ pushed \in [Runs -> SUBSET Keys]
    /\ since \in [Runs -> Nat]
    /\ page \in [Runs -> [Keys -> Card \cup {NoCard}]]
    /\ stamp \in [Runs -> Nat]
    /\ left \in [Runs -> SUBSET Keys]
    /\ skipped \subseteq Keys
    /\ overlap \subseteq Keys

Empty == [k \in Keys |-> NoCard]

Init ==
    /\ now = 1
    /\ server = Empty
    /\ arrived = [k \in Keys |-> 0]
    /\ local = Empty
    /\ queue = Empty
    /\ cursor = 0
    /\ pc = [r \in Runs |-> "idle"]
    /\ todo = [r \in Runs |-> Empty]
    /\ pushed = [r \in Runs |-> {}]
    /\ since = [r \in Runs |-> 0]
    /\ page = [r \in Runs |-> Empty]
    /\ stamp = [r \in Runs |-> 0]
    /\ left = [r \in Runs |-> {}]
    /\ skipped = {}
    /\ overlap = {}

(* mine is at least as good as theirs. *)
Covers(mine, theirs) ==
    theirs # NoCard => mine # NoCard /\ ~IncomingWins(mine, theirs)

(* Mutant: whatever is pulled or pushed replaces the card. *)
Replaced(mine, theirs) == theirs

Merged(mine, theirs) ==
    IF mine = NoCard THEN theirs ELSE MoreRepetitions(mine, theirs)

(* Those of the cards that are among S. *)
Only(cards, S) == [k \in Keys |-> IF k \in S THEN cards[k] ELSE NoCard]

(* These runs are over. *)
Ended(S) ==
    /\ pc' = [r \in Runs |-> IF r \in S THEN "idle" ELSE pc[r]]
    /\ todo' = [r \in Runs |-> IF r \in S THEN Empty ELSE todo[r]]
    /\ pushed' = [r \in Runs |-> IF r \in S THEN {} ELSE pushed[r]]
    /\ since' = [r \in Runs |-> IF r \in S THEN 0 ELSE since[r]]
    /\ page' = [r \in Runs |-> IF r \in S THEN Empty ELSE page[r]]
    /\ stamp' = [r \in Runs |-> IF r \in S THEN 0 ELSE stamp[r]]
    /\ left' = [r \in Runs |-> IF r \in S THEN {} ELSE left[r]]

(* A version that reaches the server now is one run r will not see, and    *)
(* its cursor will pass.                                                   *)
LateFor(r, c) ==
    \/ pc[r] = "pulling" /\ c.at <= since[r]
    \/ pc[r] = "served"
    \/ pc[r] = "applying" /\ c.at <= stamp[r]

(* k joins S if late, and leaves it otherwise. *)
Marked(S, k, late) == IF late THEN S \cup {k} ELSE S \ {k}

(* A push reaches the server (merge_hifz_cards, a batch of one). *)
Accept(k, c) ==
    /\ server' = [server EXCEPT ![k] = Merged(@, c)]
    /\ IF Covers(server[k], c)
       THEN UNCHANGED <<arrived, left, skipped>>
       ELSE /\ arrived' = [arrived EXCEPT ![k] = now]
            /\ left' = [r \in Runs |-> Marked(left[r], k, LateFor(r, c))]
            /\ skipped' = Marked(skipped, k, c.at <= cursor)

-----------------------------------------------------------------------------
Tick ==
    /\ now < MaxTime
    /\ now' = now + 1
    /\ UNCHANGED <<server, arrived, local, queue, cursor, run, left, skipped, overlap>>

Reps(card) == IF card = NoCard THEN 0 ELSE card.reps

Reviewed(card) == [reps |-> Reps(card) + 1, at |-> now]

(* A review on this device: stored and enqueued. *)
Review(k) ==
    /\ Reps(local[k]) < MaxReps
    /\ local' = [local EXCEPT ![k] = Reviewed(@)]
    /\ queue' = [queue EXCEPT ![k] = Reviewed(local[k])]
    /\ overlap' = IF \E r \in Runs : todo[r][k] # NoCard
                  THEN overlap \cup {k} ELSE overlap \ {k}
    /\ UNCHANGED <<now, server, arrived, cursor, run, left, skipped>>

(* Another device pushes a card it reviewed a while ago. *)
OthersPush(k, c) ==
    /\ c.at <= now
    /\ Accept(k, c)
    /\ UNCHANGED <<now, local, queue, cursor, run, overlap>>

-----------------------------------------------------------------------------
(* SyncEngine.run calls drain, which reads the table; rows that are parked *)
(* or deferred are not among what it reads.  (Offline run returns at once, *)
(* with SyncReport.skipped.)                                               *)
Start(r) ==
    /\ pc[r] = "idle"
    /\ \E S \in SUBSET Keys : todo' = [todo EXCEPT ![r] = Only(queue, S)]
    /\ pc' = [pc EXCEPT ![r] = "draining"]
    /\ UNCHANGED <<now, server, arrived, local, queue, cursor, pushed, since, page,
                   stamp, left, skipped, overlap>>

(* A row it has read is pushed, and the server applies it. *)
PushRow(r, k) ==
    /\ pc[r] = "draining"
    /\ pushed[r] = {}
    /\ todo[r][k] # NoCard
    /\ Accept(k, todo[r][k])
    /\ pushed' = [pushed EXCEPT ![r] = {k}]
    /\ UNCHANGED <<now, local, queue, cursor, pc, todo, since, page, stamp, overlap>>

(* The answer arrives, and the row is deleted, whatever it carries by now. *)
PushAnswered(r, k) ==
    /\ pc[r] = "draining"
    /\ k \in pushed[r]
    /\ queue' = [queue EXCEPT ![k] = NoCard]
    /\ todo' = [todo EXCEPT ![r] = [@ EXCEPT ![k] = NoCard]]
    /\ pushed' = [pushed EXCEPT ![r] = {}]
    /\ UNCHANGED <<now, server, arrived, local, cursor, pc, since, page, stamp, left,
                   skipped, overlap>>

(* Mutant: a row the server refuses is dropped. *)
PushRefusedDrops(r, k) ==
    /\ pc[r] = "draining"
    /\ pushed[r] = {}
    /\ todo[r][k] # NoCard
    /\ queue' = [queue EXCEPT ![k] = NoCard]
    /\ todo' = [todo EXCEPT ![r] = [@ EXCEPT ![k] = NoCard]]
    /\ UNCHANGED <<now, server, arrived, local, cursor, pc, pushed, since, page, stamp,
                   left, skipped, overlap>>

(* The server refuses a row: it stays, and the drain goes on. *)
PushRefused(r, k) ==
    /\ pc[r] = "draining"
    /\ pushed[r] = {}
    /\ todo[r][k] # NoCard
    /\ todo' = [todo EXCEPT ![r] = [@ EXCEPT ![k] = NoCard]]
    /\ UNCHANGED <<now, server, arrived, local, queue, cursor, pc, pushed, since, page,
                   stamp, left, skipped, overlap>>

(* drain() returns, through with its rows or not (no answer to the last    *)
(* push, a 429), without saying which; the cursor is read and the pull     *)
(* sent.                                                                   *)
DrainReturns(r) ==
    /\ pc[r] = "draining"
    /\ pc' = [pc EXCEPT ![r] = "pulling"]
    /\ todo' = [todo EXCEPT ![r] = Empty]
    /\ pushed' = [pushed EXCEPT ![r] = {}]
    /\ since' = [since EXCEPT ![r] = cursor]
    /\ UNCHANGED <<now, server, arrived, local, queue, cursor, page, stamp, left,
                   skipped, overlap>>

(* PullView: the cards whose client_updated_at is past the cursor ... *)
Changed(t) == {k \in Keys : server[k] # NoCard /\ (t = 0 \/ server[k].at > t)}

(* ... the PullLimit oldest of them. *)
IsPage(S, t) ==
    /\ S \subseteq Changed(t)
    /\ \A k \in S, l \in Changed(t) \ S : server[k].at <= server[l].at
    /\ Cardinality(S) <= PullLimit
    /\ Cardinality(S) = PullLimit \/ S = Changed(t)

ServePage(r) ==
    /\ pc[r] = "pulling"
    /\ \E S \in SUBSET Keys :
         /\ IsPage(S, since[r])
         /\ page' = [page EXCEPT ![r] = Only(server, S)]
         /\ left' = [left EXCEPT ![r] = @ \cup (Changed(since[r]) \ S)]
    /\ pc' = [pc EXCEPT ![r] = "served"]
    /\ UNCHANGED <<now, server, arrived, local, queue, cursor, todo, pushed, since,
                   stamp, skipped, overlap>>

(* server_time is taken after the cards have been read. *)
StampPage(r) ==
    /\ pc[r] = "served"
    /\ stamp' = [stamp EXCEPT ![r] = now]
    /\ pc' = [pc EXCEPT ![r] = "applying"]
    /\ UNCHANGED <<now, server, arrived, local, queue, cursor, todo, pushed, since,
                   page, left, skipped, overlap>>

(* The next change of the response is merged into the local store. *)
Apply(r) ==
    /\ pc[r] = "applying"
    /\ \E k \in Keys :
         /\ page[r][k] # NoCard
         /\ local' = [local EXCEPT ![k] = Merged(@, page[r][k])]
         /\ page' = [page EXCEPT ![r] = [@ EXCEPT ![k] = NoCard]]
    /\ UNCHANGED <<now, server, arrived, queue, cursor, pc, todo, pushed, since,
                   stamp, left, skipped, overlap>>

(* Mutant: the cursor is saved before the changes are applied. *)
SetCursorEarly(r) ==
    /\ pc[r] = "applying"
    /\ cursor' = stamp[r]
    /\ skipped' = skipped \cup left[r]
    /\ UNCHANGED <<now, server, arrived, local, queue, run, left, overlap>>

(* The loop over the changes is done: the cursor takes server_time, and    *)
(* run returns; has_more is not looked at.                                 *)
SetCursor(r) ==
    /\ pc[r] = "applying"
    /\ page[r] = Empty
    /\ cursor' = stamp[r]
    /\ skipped' = skipped \cup left[r]
    /\ Ended({r})
    /\ UNCHANGED <<now, server, arrived, local, queue, overlap>>

(* The pull throws, and so does run; or the app is killed, with every run. *)
PullFails(r) ==
    /\ pc[r] \in {"pulling", "served"}
    /\ Ended({r})
    /\ UNCHANGED <<now, server, arrived, local, queue, cursor, skipped, overlap>>

Kill ==
    /\ \E r \in Runs : pc[r] # "idle"
    /\ Ended(Runs)
    /\ UNCHANGED <<now, server, arrived, local, queue, cursor, skipped, overlap>>

-----------------------------------------------------------------------------
OthersCards == [reps : 1..MaxReps, at : 1..MaxTime]

Next ==
    \/ Tick
    \/ \E k \in Keys : Review(k) \/ \E c \in OthersCards : OthersPush(k, c)
    \/ \E r \in Runs : \/ Start(r)
                       \/ \E k \in Keys : \/ PushRow(r, k)
                                         \/ PushAnswered(r, k)
                                         \/ PushRefused(r, k)
                       \/ DrainReturns(r)
                       \/ ServePage(r)
                       \/ StampPage(r)
                       \/ Apply(r)
                       \/ SetCursor(r)
                       \/ PullFails(r)
    \/ Kill

Spec == Init /\ [][Next]_vars

-----------------------------------------------------------------------------
(* Push before pull protects what it is for: the device never shows less   *)
(* progress than a review of its own that still waits in the queue,        *)
(* however far behind the copy that a pull brought.                        *)
(* (sync_engine.dart 13-17; merge_rules.dart 28-33)                        *)
UnsentReviewIsKept ==
    \A k \in Keys : Covers(local[k], queue[k])

(* Neither side ever takes a card back: no page, however old, no push of   *)
(* either device, however late, and no run that is cut short leaves less   *)
(* progress than there was.  (merge_rules.dart 28-44; services.py 71-77)   *)
NothingTakenBack ==
    [][\A k \in Keys : Covers(local'[k], local[k]) /\ Covers(server'[k], server[k])]_vars

(* What the device has and the server does not is queued: the two sides    *)
(* rank versions alike, so a push never leaves the server behind a card    *)
(* whose row it removes, unless the card was reviewed while a drain was    *)
(* holding it.  (sync_entity.dart 64-65; services.py 71-77)                *)
AheadIsQueued ==
    \A k \in Keys :
        Covers(server[k], local[k]) \/ queue[k] # NoCard \/ k \in overlap

(* The cursor passes a version the device lacks for two reasons only: the  *)
(* page was cut at its limit, or the version reached the server after the  *)
(* cards of a response were read and is older than what the cursor then    *)
(* took.  A kill between two changes, a pull that fails, a card replaced   *)
(* while it is on its way, and two runs that save their cursors in either  *)
(* order delay a change and never skip it.                                 *)
(* (merge_rules.dart 68-69; sync_engine.dart 44-48; views.py 72-87)        *)
OnlyCutOrLateIsSkipped ==
    \A k \in Keys :
        server[k] # NoCard /\ server[k].at <= cursor
            => Covers(local[k], server[k]) \/ k \in skipped

(* tables_sync.dart 32-34, with the server's clock no window of changes is *)
(* skipped "permanently and silently": once the cursor is past the time a  *)
(* version reached the server, the device has it.                          *)
NoChangeSkipped ==
    \A k \in Keys : 0 < arrived[k] /\ arrived[k] < cursor => Covers(local[k], server[k])
=============================================================================
