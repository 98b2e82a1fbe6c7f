------------------------------- MODULE Outbox -------------------------------
(***************************************************************************)
(* The client's durable write queue: the OutboxEntries table, the          *)
(* operations OutboxDao offers on it, and the drain loop of                *)
(* OutboxController, which nothing keeps from running twice at once: the   *)
(* connectivity listener starts one without awaiting it, SyncEngine.run    *)
(* another.  The app may be killed at any step; the table survives, the    *)
(* loops do not.                                                           *)
(*                                                                         *)
(* A payload is the number of the local write of its entity it carries.    *)
(* The table is the one OutboxDao imports, tables_sync.dart: one row per   *)
(* entity (unique key {entity, entityId}), whose id is the permanent id of *)
(* the record, so that an insert for the same entity conflicts on the id.  *)
(* AppDatabase still registers the table of tables.dart, without the key   *)
(* and without the columns the DAO needs.                                  *)
(*                                                                         *)
(* The server is outside this module, and so is what it makes of a change  *)
(* that reaches it.  It answers 200 for a card it merges, and as well for  *)
(* one its merge rejects (HifzMerge) and for a bookmark or a position,     *)
(* which PushView does not look at: to reach the server is not to be       *)
(* stored there.  A request whose sender gave up may still arrive.         *)
(***************************************************************************)
EXTENDS Naturals, FiniteSets

CONSTANTS
    Entities,     \* entities the user edits
    Drains,       \* calls of drain() that may be running at once
    MaxAttempts,  \* _maxAttempts, 10 in the code
    BatchSize,    \* _batchSize, 200 in the code
    MaxEdits,     \* bound: local writes per entity
    NoEntry       \* no row for the entity

ASSUME LimitsAssumption ==
    MaxAttempts \in Nat \ {0} /\ BatchSize \in Nat \ {0} /\ MaxEdits \in Nat

Entry == [ver : Nat, queuedAt : Nat, deferred : BOOLEAN, attempts : Nat]

(* What a drain holds of a row after it has read the table. *)
Snapshot == [entity : Entities, ver : Nat, queuedAt : Nat]

ASSUME NoEntryAssumption == NoEntry \notin Entry /\ NoEntry \notin Snapshot

VARIABLES
    local,     \* local[e]: the last local write of e, 0 if none
    outbox,    \* the table
    clock,     \* the device's clock, in the table's resolution
    online,    \* what the connectivity stream reported last
    pc,        \* where each drain is
    todo,      \* the rows it read and has not pushed
    sent,      \* the row its push in flight carries
    accepted,  \* whether the server has taken that push up
    seen,      \* attempts as markFailed has read it
    reached,   \* reached[e]: the newest version the server has taken up
    late,      \* pushes given up on that are still on their way
    refusals,  \* history: error answers for e, up to MaxAttempts
    overlap    \* history: entities last written while a drain held them

vars == <<local, outbox, clock, online, pc, todo, sent, accepted, seen,
          reached, late, refusals, overlap>>

loop == <<pc, todo, sent, accepted, seen>>

TypeOK ==
    /\ local \in [Entities -> Nat]
    /\ outbox \in [Entities -> Entry \cup {NoEntry}]
    /\ clock \in Nat
    /\ online \in BOOLEAN
    /\ pc \in [Drains -> {"idle", "reading", "looping", "sending", "marking"}]
    /\ todo \in [Drains -> SUBSET Snapshot]
    /\ sent \in [Drains -> Snapshot \cup {NoEntry}]
    /\ accepted \in [Drains -> BOOLEAN]
    /\ seen \in [Drains -> Nat]
    /\ reached \in [Entities -> Nat]
    /\ late \in SUBSET Snapshot
    /\ refusals \in [Entities -> Nat]
    /\ overlap \in SUBSET Entities

Init ==
    /\ local = [e \in Entities |-> 0]
    /\ outbox = [e \in Entities |-> NoEntry]
    /\ clock = 0
    /\ online = FALSE
    /\ pc = [d \in Drains |-> "idle"]
    /\ todo = [d \in Drains |-> {}]
    /\ sent = [d \in Drains |-> NoEntry]
    /\ accepted = [d \in Drains |-> FALSE]
    /\ seen = [d \in Drains |-> 0]
    /\ reached = [e \in Entities |-> 0]
    /\ late = {}
    /\ refusals = [e \in Entities |-> 0]
    /\ overlap = {}

-----------------------------------------------------------------------------
(* OutboxDao. *)

Max2(m, n) == IF m >= n THEN m ELSE n

(* Mutant: a write gives a row that has failed an attempt back. *)
EnqueuedForgiven(e, ver, at) ==
    [ver      |-> ver,
     queuedAt |-> at,
     deferred |-> outbox[e] # NoEntry /\ outbox[e].deferred,
     attempts |-> IF outbox[e] = NoEntry THEN 0 ELSE outbox[e].attempts - 1]

(* Mutant: insertOrIgnore, a row that is there stays as it is. *)
EnqueuedOnce(e, ver, at) ==
    IF outbox[e] # NoEntry THEN outbox[e]
    ELSE [ver |-> ver, queuedAt |-> at, deferred |-> FALSE, attempts |-> 0]

(* insertOnConflictUpdate: a conflicting row takes the columns the         *)
(* companion carries, and keeps attempts and deferUntil, which it does     *)
(* not.                                                                    *)
Enqueued(e, ver, at) ==
    [ver      |-> ver,
     queuedAt |-> at,
     deferred |-> outbox[e] # NoEntry /\ outbox[e].deferred,
     attempts |-> IF outbox[e] = NoEntry THEN 0 ELSE outbox[e].attempts]

(* Mutant: the last attempt is one too early. *)
DueButLast(e) ==
    /\ outbox[e] # NoEntry
    /\ ~outbox[e].deferred
    /\ outbox[e].attempts + 1 < MaxAttempts

Due(e) ==
    /\ outbox[e] # NoEntry
    /\ ~outbox[e].deferred
    /\ outbox[e].attempts < MaxAttempts

(* pending(limit): the BatchSize oldest due rows; rows queued within the   *)
(* same tick of the clock come in either order.                            *)
IsPending(S) ==
    /\ \A e \in S : Due(e)
    /\ \A e \in S, f \in Entities \ S :
          Due(f) => outbox[e].queuedAt <= outbox[f].queuedAt
    /\ Cardinality(S) <= BatchSize
    /\ Cardinality(S) = BatchSize \/ \A f \in Entities \ S : ~Due(f)

Row(e) == [entity |-> e, ver |-> outbox[e].ver, queuedAt |-> outbox[e].queuedAt]

-----------------------------------------------------------------------------
Holds(d, e) ==
    \/ \E x \in todo[d] : x.entity = e
    \/ sent[d] # NoEntry /\ sent[d].entity = e

(* The user changes an entity: the change is stored locally and enqueued.  *)
Write(e) ==
    /\ local[e] < MaxEdits
    /\ local' = [local EXCEPT ![e] = @ + 1]
    /\ \E t \in {clock, clock + 1} :
         /\ clock' = t
         /\ outbox' = [outbox EXCEPT ![e] = Enqueued(e, local[e] + 1, t)]
    /\ overlap' = IF \E d \in Drains : Holds(d, e)
                  THEN overlap \cup {e} ELSE overlap \ {e}
    /\ UNCHANGED <<online, loop, reached, late, refusals>>

(* The listener of OutboxController.build: the transition to online starts *)
(* a drain without awaiting it.                                            *)
Connect(d) ==
    /\ ~online
    /\ pc[d] = "idle"
    /\ online' = TRUE
    /\ pc' = [pc EXCEPT ![d] = "reading"]
    /\ UNCHANGED <<local, outbox, clock, todo, sent, accepted, seen, reached,
                   late, refusals, overlap>>

Disconnect ==
    /\ online
    /\ online' = FALSE
    /\ UNCHANGED <<local, outbox, clock, loop, reached, late, refusals, overlap>>

(* SyncEngine.run calls drain when the service says it is online. *)
SyncRun(d) ==
    /\ online
    /\ pc[d] = "idle"
    /\ pc' = [pc EXCEPT ![d] = "reading"]
    /\ UNCHANGED <<local, outbox, clock, online, todo, sent, accepted, seen,
                   reached, late, refusals, overlap>>

ReadQueue(d) ==
    /\ pc[d] = "reading"
    /\ \E S \in SUBSET Entities :
         /\ IsPending(S)
         /\ todo' = [todo EXCEPT ![d] = {Row(e) : e \in S}]
    /\ pc' = [pc EXCEPT ![d] = "looping"]
    /\ UNCHANGED <<local, outbox, clock, online, sent, accepted, seen, reached,
                   late, refusals, overlap>>

(* The next row of the list that was read, whatever the table holds now. *)
Push(d) ==
    /\ pc[d] = "looping"
    /\ \E x \in todo[d] :
         /\ \A y \in todo[d] : x.queuedAt <= y.queuedAt
         /\ sent' = [sent EXCEPT ![d] = x]
         /\ todo' = [todo EXCEPT ![d] = @ \ {x}]
    /\ accepted' = [accepted EXCEPT ![d] = FALSE]
    /\ pc' = [pc EXCEPT ![d] = "sending"]
    /\ UNCHANGED <<local, outbox, clock, online, seen, reached, late, refusals,
                   overlap>>

(* drain() returns, having been through its list or given up. *)
Return(d) ==
    /\ pc' = [pc EXCEPT ![d] = "idle"]
    /\ todo' = [todo EXCEPT ![d] = {}]
    /\ sent' = [sent EXCEPT ![d] = NoEntry]
    /\ accepted' = [accepted EXCEPT ![d] = FALSE]
    /\ seen' = [seen EXCEPT ![d] = 0]

Continue(d) ==
    /\ pc' = [pc EXCEPT ![d] = "looping"]
    /\ sent' = [sent EXCEPT ![d] = NoEntry]
    /\ accepted' = [accepted EXCEPT ![d] = FALSE]
    /\ seen' = [seen EXCEPT ![d] = 0]
    /\ UNCHANGED todo

DrainEnds(d) ==
    /\ pc[d] = "looping"
    /\ todo[d] = {}
    /\ Return(d)
    /\ UNCHANGED <<local, outbox, clock, online, reached, late, refusals, overlap>>

(* Ok: delete by id. *)
Acknowledged(d) ==
    /\ pc[d] = "sending"
    /\ accepted[d]
    /\ outbox' = [outbox EXCEPT ![sent[d].entity] = NoEntry]
    /\ Continue(d)
    /\ UNCHANGED <<local, clock, online, reached, late, refusals, overlap>>

(* RateLimitedFailure: defer the row and stop the drain. *)
RateLimited(d) ==
    /\ pc[d] = "sending"
    /\ ~accepted[d]
    /\ outbox' = [e \in Entities |->
                    IF e = sent[d].entity /\ outbox[e] # NoEntry
                    THEN [outbox[e] EXCEPT !.deferred = TRUE] ELSE outbox[e]]
    /\ Return(d)
    /\ UNCHANGED <<local, clock, online, reached, late, refusals, overlap>>

(* Mutant: having no network counts as a failed attempt. *)
UnreachableCounts(d) ==
    /\ pc[d] = "sending"
    /\ late' \in {late, late \cup {sent[d]}}
    /\ outbox' = [e \in Entities |->
                    IF e = sent[d].entity /\ outbox[e] # NoEntry
                    THEN [outbox[e] EXCEPT !.attempts = @ + 1] ELSE outbox[e]]
    /\ Return(d)
    /\ UNCHANGED <<local, clock, online, reached, refusals, overlap>>

(* Mutant: a push that times out is taken for one that has arrived. *)
UnreachableReleases(d) ==
    /\ pc[d] = "sending"
    /\ late' \in {late, late \cup {sent[d]}}
    /\ outbox' = [outbox EXCEPT ![sent[d].entity] = NoEntry]
    /\ Return(d)
    /\ UNCHANGED <<local, clock, online, reached, refusals, overlap>>

(* NetworkFailure or TimeoutFailure: stop, and leave the queue as it is.   *)
(* The push may have been taken up, be on its way, or be gone.             *)
Unreachable(d) ==
    /\ pc[d] = "sending"
    /\ late' \in {late, late \cup {sent[d]}}
    /\ Return(d)
    /\ UNCHANGED <<local, outbox, clock, online, reached, refusals, overlap>>

(* Any other failure, 4xx, 401 or 5xx: markFailed reads the row ...        *)
Refused(d) ==
    LET e == sent[d].entity IN
    /\ pc[d] = "sending"
    /\ refusals' = [refusals EXCEPT ![e] = IF @ + 1 < MaxAttempts THEN @ + 1 ELSE MaxAttempts]
    /\ \/ outbox[e] = NoEntry /\ Continue(d)
       \/ /\ outbox[e] # NoEntry
          /\ seen' = [seen EXCEPT ![d] = outbox[e].attempts]
          /\ pc' = [pc EXCEPT ![d] = "marking"]
          /\ UNCHANGED <<todo, sent, accepted>>
    /\ UNCHANGED <<local, outbox, clock, online, reached, late, overlap>>

(* ... and writes the counter it has read plus one; then the loop goes on. *)
MarkFailed(d) ==
    /\ pc[d] = "marking"
    /\ outbox' = [e \in Entities |->
                    IF e = sent[d].entity /\ outbox[e] # NoEntry
                    THEN [outbox[e] EXCEPT !.attempts = seen[d] + 1] ELSE outbox[e]]
    /\ Continue(d)
    /\ UNCHANGED <<local, clock, online, reached, late, refusals, overlap>>

(* deferUntil passes. *)
DeferralExpires(e) ==
    /\ outbox[e] # NoEntry
    /\ outbox[e].deferred
    /\ outbox' = [outbox EXCEPT ![e].deferred = FALSE]
    /\ UNCHANGED <<local, clock, online, loop, reached, late, refusals, overlap>>

(* The process is killed and started again.  The new process has heard     *)
(* nothing of the network yet; pushes in flight may still arrive.          *)
Kill ==
    /\ \E S \in SUBSET {sent[d] : d \in {c \in Drains : pc[c] = "sending"}} :
         late' = late \cup S
    /\ online' = FALSE
    /\ pc' = [d \in Drains |-> "idle"]
    /\ todo' = [d \in Drains |-> {}]
    /\ sent' = [d \in Drains |-> NoEntry]
    /\ accepted' = [d \in Drains |-> FALSE]
    /\ seen' = [d \in Drains |-> 0]
    /\ UNCHANGED <<local, outbox, clock, reached, refusals, overlap>>

-----------------------------------------------------------------------------
(* The server takes a push up: it merges, rejects or ignores the change.   *)

Reach(x) == reached' = [reached EXCEPT ![x.entity] = Max2(@, x.ver)]

ServerAccepts(d) ==
    /\ pc[d] = "sending"
    /\ ~accepted[d]
    /\ Reach(sent[d])
    /\ accepted' = [accepted EXCEPT ![d] = TRUE]
    /\ UNCHANGED <<local, outbox, clock, online, pc, todo, sent, seen, late,
                   refusals, overlap>>

LatePushArrives(x) ==
    /\ x \in late
    /\ late' = late \ {x}
    /\ Reach(x)
    /\ UNCHANGED <<local, outbox, clock, online, loop, refusals, overlap>>

-----------------------------------------------------------------------------
Drain(d) ==
    \/ ReadQueue(d)
    \/ Push(d)
    \/ DrainEnds(d)
    \/ Acknowledged(d)
    \/ RateLimited(d)
    \/ Unreachable(d)
    \/ Refused(d)
    \/ MarkFailed(d)

Next ==
    \/ \E e \in Entities : Write(e) \/ DeferralExpires(e)
    \/ \E d \in Drains : Connect(d) \/ SyncRun(d) \/ Drain(d) \/ ServerAccepts(d)
    \/ \E x \in late : LatePushArrives(x)
    \/ Disconnect
    \/ Kill

Spec == Init /\ [][Next]_vars

(* A process that is killed again and again still gets, now and then, as   *)
(* far as each step of its loop; a push that keeps being repeated is now   *)
(* and then taken up and its answer received; a deferral runs out.         *)
Progress ==
    /\ \A d \in Drains : /\ SF_vars(ReadQueue(d))
                         /\ SF_vars(Push(d))
                         /\ SF_vars(ServerAccepts(d))
                         /\ SF_vars(Acknowledged(d))
                         /\ SF_vars(MarkFailed(d))
                         /\ WF_vars(DrainEnds(d))
    /\ \A e \in Entities : WF_vars(DeferralExpires(e))

(* The network comes and goes: nothing but a transition to online starts a *)
(* drain by itself.                                                        *)
FairSpec ==
    Spec /\ Progress /\ WF_vars(Disconnect) /\ \A d \in Drains : SF_vars(Connect(d))

-----------------------------------------------------------------------------
Queued(e) == outbox[e] # NoEntry /\ outbox[e].ver = local[e]

(* Every write that has not reached the server is in the queue, at its     *)
(* newest version, unless it was made while a drain was holding an older   *)
(* snapshot of the same entity: whatever else happens (kills, lost         *)
(* answers, two drains, deferrals, parking), the queue forgets nothing     *)
(* else.  What the server makes of a write that reaches it is another      *)
(* matter.  (outbox_controller.dart 37-42, tables_sync.dart 3-6)           *)
ForgottenOnlyByOverlap ==
    \A e \in Entities : local[e] > reached[e] => Queued(e) \/ e \in overlap

(* tables_sync.dart 3-6: the table is "every local write that has not yet  *)
(* reached the server", and a force-quit loses nothing.                    *)
NothingUnsentIsForgotten ==
    \A e \in Entities : local[e] > reached[e] => Queued(e)

(* A row leaves the table only when the version that was pushed for it has *)
(* reached the server, never on a timeout, a 429 or a refusal.             *)
(* (outbox_controller.dart 40-67)                                          *)
DeletedOnlyWhenReached ==
    [][\A e \in Entities : outbox[e] # NoEntry /\ outbox'[e] = NoEntry =>
          \E d \in Drains : /\ sent[d] # NoEntry /\ sent[d].entity = e
                            /\ 0 < sent[d].ver /\ sent[d].ver <= reached[e]]_vars

(* Being offline never parks a row: the attempts a row has used up are at  *)
(* most the error answers the server gave, even when two drains count the  *)
(* same row.  (outbox_controller.dart 52-66; outbox_dao.dart 51-63)        *)
ParkedOnlyByRefusals ==
    \A e \in Entities : outbox[e] # NoEntry =>
        outbox[e].attempts <= refusals[e] \/ refusals[e] = MaxAttempts

(* The abstract queue this one implements. *)
D == INSTANCE Delivery WITH
        written <- local,
        carried <- [e \in Entities |-> IF outbox[e] = NoEntry THEN 0 ELSE outbox[e].ver],
        reached <- reached,
        atRisk <- overlap

(* Drains that overlap, repeated and late pushes, refusals and kills are   *)
(* invisible: the queue carries the last change of an entity until it has  *)
(* reached the server, and only changes that were made reach it.           *)
(* (tables_sync.dart 3-6; outbox_controller.dart 33-69)                    *)
ImplementsDelivery == D!Spec

(* A queued write is delivered or parked, as long as the network keeps     *)
(* coming back: kills, lost answers and rate limits only delay it.         *)
(* (outbox_controller.dart 20-69)                                          *)
EveryRowIsResolved ==
    \A e \in Entities :
        outbox[e] # NoEntry ~>
          outbox[e] = NoEntry \/ outbox[e].attempts >= MaxAttempts
=============================================================================
