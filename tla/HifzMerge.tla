----------------------------- MODULE HifzMerge -----------------------------
(***************************************************************************)
(* The server half of a sync push: backend/apps/sync/services.py           *)
(* merge_hifz_cards, called by PushView.post, against the table            *)
(* sync_hifz_card and its log of overwritten versions, sync_conflict.      *)
(*                                                                         *)
(* Several push requests of one user run at the same time.  Each is one    *)
(* database transaction (transaction.atomic) at READ COMMITTED, the        *)
(* isolation level of the configured PostgreSQL, that walks its batch and  *)
(* takes a row lock per card (select_for_update).  A lookup that finds no  *)
(* row locks nothing, so the insert that follows can meet a row another    *)
(* request committed in between: the unique constraint then aborts the     *)
(* whole batch.  Cards of different users never share a row, so one user   *)
(* is enough.                                                              *)
(*                                                                         *)
(* A card is its repetitions, its client_updated_at, a body (the fields    *)
(* ease, interval, lapses and due_at, which the merge copies but never     *)
(* reads), its last_reviewed_at, its revision and its id.  A payload may   *)
(* carry any of them (HifzCardSerializer hands all of them to clients);    *)
(* other keys, which raise or set nothing the merge reads, are left out.   *)
(***************************************************************************)
EXTENDS Naturals, Sequences, FiniteSets

CONSTANTS
    Ayahs,        \* the ayahs a card may be about
    Requests,     \* push requests the server handles at the same time
    Bodies,       \* contents of the fields the merge only copies
    Ids,          \* the primary keys a card may have; no two cards share one
    OwnId,        \* the one the server makes up for it
    Batches,      \* the batches of payloads clients send
    Absent,       \* a key the payload does not carry
    NoRow         \* no row in the table, or none written by the transaction

(* What a sync_conflict row keeps of an overwritten card.                  *)
Version == [reps : Nat, at : Nat, body : Bodies]

(* A row of sync_hifz_card, and with it the sync_conflict rows whose       *)
(* entity_id is this card, oldest first: they are written under its lock   *)
(* and in its transaction.  A last_reviewed_at of 0 is null.               *)
Row == [reps : Nat, at : Nat, body : Bodies, reviewed : Nat, id : Ids, rev : Nat,
        counterSet : BOOLEAN,   \* history: a payload brought a revision
        lost : Seq(Version)]

(* What the values of a payload are: "wire" is the body of a request       *)
(* (DictField: ayah is a primary key, client_updated_at a string), "pk" is *)
(* what test_sync_merge.py passes (a primary key and a datetime), and      *)
(* "model" is what the ORM calls of the merge need (an Ayah, a datetime).  *)
Forms == {"wire", "pk", "model"}

(* One element of the request's hifz_cards list.  A missing "repetitions"  *)
(* counts as 0 in the rule and defaults to 0 on insert, so it is 0 here.   *)
Payload == [ayah : Ayahs \cup {Absent}, reps : Nat,
            at : Nat \cup {Absent}, body : Bodies \cup {Absent},
            reviewed : Nat \cup {Absent}, rev : Nat \cup {Absent},
            id : Ids \cup {Absent}, form : Forms]

ASSUME BatchesAssumption == Batches \subseteq Seq(Payload)
ASSUME AbsentAssumption == Absent \notin Ayahs \cup Nat \cup Bodies \cup Ids
ASSUME OwnIdAssumption == OwnId \in Ids
ASSUME NoRowAssumption == NoRow \notin Row

VARIABLES
    card,     \* the committed table
    pc,       \* where each request's handler is
    batch,    \* the payloads it merges
    pos,      \* the payload it is at
    work,     \* rows its transaction has written and not committed
    locked,   \* rows its transaction has locked
    tally,    \* the counters applied, rejected and conflicts
    cause,    \* why its last transaction was rolled back
    acked     \* history: payloads of every transaction that committed

vars == <<card, pc, batch, pos, work, locked, tally, cause, acked>>

Causes == {"none", "duplicate", "not_null", "value_error", "type_error",
           "deadlock", "connection"}

(* MergeOutcome. *)
Outcome == [applied : Nat, rejected : Nat, conflicts : Nat]
ZeroTally == [applied |-> 0, rejected |-> 0, conflicts |-> 0]
NoWork == [a \in Ayahs |-> NoRow]

TypeOK ==
    /\ card \in [Ayahs -> Row \cup {NoRow}]
    /\ pc \in [Requests -> {"idle", "scan", "create", "committed", "failed"}]
    /\ batch \in [Requests -> Seq(Payload)]
    /\ pos \in [Requests -> Nat \ {0}]
    /\ work \in [Requests -> [Ayahs -> Row \cup {NoRow}]]
    /\ locked \in [Requests -> SUBSET Ayahs]
    /\ tally \in [Requests -> Outcome]
    /\ cause \in [Requests -> Causes]
    /\ acked \in SUBSET Payload

Init ==
    /\ card = [a \in Ayahs |-> NoRow]
    /\ pc = [r \in Requests |-> "idle"]
    /\ batch = [r \in Requests |-> <<>>]
    /\ pos = [r \in Requests |-> 1]
    /\ work = [r \in Requests |-> NoWork]
    /\ locked = [r \in Requests |-> {}]
    /\ tally = [r \in Requests |-> ZeroTally]
    /\ cause = [r \in Requests |-> "none"]
    /\ acked = {}

-----------------------------------------------------------------------------
(* _incoming_wins: progress beats recency, the clock breaks a tie. *)
IncomingWins(existing, incoming) ==
    IF incoming.reps # existing.reps
    THEN incoming.reps > existing.reps
    ELSE incoming.at > existing.at

(* The guard at the head of the loop: both keys are present. *)
WellFormed(p) == p.ayah # Absent /\ p.at # Absent

(* ayah is a foreign key: assigning anything but an Ayah to it, in the     *)
(* constructor or by setattr, raises ValueError.                           *)
Assignable(p) == p.form = "model"

(* client_updated_at of a request body is a string, which Python does not  *)
(* order against the row's datetime.                                       *)
Comparable(existing, p) == p.form # "wire" \/ p.reps # existing.reps

(* save() looks its row up by the primary key.  With the id of another     *)
(* card's record it finds none, inserts a second row for the user and the  *)
(* ayah, and the unique constraint refuses it.                             *)
SameRecord(row, p) == p.id \in {Absent, row.id}

Carried(value, default) == IF value = Absent THEN default ELSE value

(* _snapshot: not last_reviewed_at, revision or id. *)
Snapshot(row) == [reps |-> row.reps, at |-> row.at, body |-> row.body]

(* Mutant: a field the payload does not carry is emptied. *)
MergedBlank(row, p) ==
    [row EXCEPT !.reps = p.reps, !.at = p.at, !.body = p.body, !.rev = @ + 1,
                !.lost = Append(@, Snapshot(row))]

(* Mutant: the snapshot is taken after the fields have been assigned. *)
MergedThenSaved(row, p) ==
    LET new == [row EXCEPT !.reps = p.reps, !.at = p.at, !.body = Carried(p.body, @)]
    IN [new EXCEPT !.rev = @ + 1, !.lost = Append(@, Snapshot(new))]

(* Mutant: a version is only kept if its scheduling fields differ. *)
MergedQuietly(row, p) ==
    [row EXCEPT !.reps = p.reps, !.at = p.at, !.body = Carried(p.body, @), !.rev = @ + 1,
                !.lost = IF p.body \in {Absent, row.body} THEN @ ELSE Append(@, Snapshot(row))]

(* What the card becomes: every field the payload carries, setattr by      *)
(* setattr, one added to the revision that leaves, and the overwritten     *)
(* version kept as a SyncConflict.                                         *)
Merged(row, p) ==
    [reps       |-> p.reps,
     at         |-> p.at,
     body       |-> Carried(p.body, row.body),
     reviewed   |-> Carried(p.reviewed, row.reviewed),
     id         |-> row.id,
     rev        |-> Carried(p.rev, row.rev) + 1,
     counterSet |-> row.counterSet \/ p.rev # Absent,
     lost       |-> Append(row.lost, Snapshot(row))]

(* The payload, and the defaults of the model for what it leaves out.      *)
Created(p) ==
    [reps       |-> p.reps,
     at         |-> p.at,
     body       |-> p.body,
     reviewed   |-> Carried(p.reviewed, 0),
     id         |-> Carried(p.id, OwnId),
     rev        |-> Carried(p.rev, 1),
     counterSet |-> p.rev # Absent,
     lost       |-> <<>>]

-----------------------------------------------------------------------------
Current(r) == batch[r][pos[r]]

Scanning(r) == pc[r] = "scan" /\ pos[r] <= Len(batch[r])

(* What a query of r sees: its own writes, else what is committed. *)
Seen(r, a) == IF work[r][a] # NoRow THEN work[r][a] ELSE card[a]

(* Mutant: the row is read without select_for_update. *)
LockIgnored(r, a) == FALSE

HeldByOther(r, a) == \E q \in Requests \ {r} : a \in locked[q]

(* Mutant: an error leaves the transaction open. *)
RollbackKeepsLocks(r, why) ==
    /\ pc' = [pc EXCEPT ![r] = "failed"]
    /\ cause' = [cause EXCEPT ![r] = why]
    /\ work' = [work EXCEPT ![r] = NoWork]
    /\ UNCHANGED <<card, batch, pos, locked, tally, acked>>

(* Mutant: no transaction.atomic, so what was written stays. *)
RollbackCommits(r, why) ==
    /\ pc' = [pc EXCEPT ![r] = "failed"]
    /\ cause' = [cause EXCEPT ![r] = why]
    /\ card' = [a \in Ayahs |-> Seen(r, a)]
    /\ work' = [work EXCEPT ![r] = NoWork]
    /\ locked' = [locked EXCEPT ![r] = {}]
    /\ UNCHANGED <<batch, pos, tally, acked>>

(* The whole transaction is undone and its locks are released. *)
Rollback(r, why) ==
    /\ pc' = [pc EXCEPT ![r] = "failed"]
    /\ cause' = [cause EXCEPT ![r] = why]
    /\ work' = [work EXCEPT ![r] = NoWork]
    /\ locked' = [locked EXCEPT ![r] = {}]
    /\ UNCHANGED <<card, batch, pos, tally, acked>>

(* A push arrives, is validated and opens its transaction. *)
Receive(r) ==
    /\ pc[r] = "idle"
    /\ \E b \in Batches : batch' = [batch EXCEPT ![r] = b]
    /\ pc' = [pc EXCEPT ![r] = "scan"]
    /\ pos' = [pos EXCEPT ![r] = 1]
    /\ tally' = [tally EXCEPT ![r] = ZeroTally]
    /\ cause' = [cause EXCEPT ![r] = "none"]
    /\ UNCHANGED <<card, work, locked, acked>>

(* A payload without an ayah or without a clock is counted and skipped. *)
RejectMalformed(r) ==
    /\ Scanning(r)
    /\ ~WellFormed(Current(r))
    /\ pos' = [pos EXCEPT ![r] = @ + 1]
    /\ tally' = [tally EXCEPT ![r].rejected = @ + 1]
    /\ UNCHANGED <<card, pc, batch, work, locked, cause, acked>>

(* select_for_update finds no row, and therefore locks nothing. *)
LookupMiss(r) ==
    /\ Scanning(r)
    /\ WellFormed(Current(r))
    /\ Seen(r, Current(r).ayah) = NoRow
    /\ pc' = [pc EXCEPT ![r] = "create"]
    /\ UNCHANGED <<card, batch, pos, work, locked, tally, cause, acked>>

(* select_for_update finds the row and gets its lock: the rest of the loop *)
(* body runs under that lock.                                              *)
LookupHit(r) ==
    /\ Scanning(r)
    /\ WellFormed(Current(r))
    /\ Seen(r, Current(r).ayah) # NoRow
    /\ ~HeldByOther(r, Current(r).ayah)

(* Mutant: a tie goes to the incoming version. *)
TieApplies(r) ==
    LET p == Current(r) IN ~IncomingWins(p, Seen(r, p.ayah))

Applies(r) ==
    LET p == Current(r) IN IncomingWins(Seen(r, p.ayah), p)

Advance(r) ==
    /\ pos' = [pos EXCEPT ![r] = @ + 1]
    /\ locked' = [locked EXCEPT ![r] = @ \cup {Current(r).ayah}]

MergeWin(r) ==
    LET p == Current(r) IN
    /\ LookupHit(r)
    /\ Comparable(Seen(r, p.ayah), p)
    /\ Applies(r)
    /\ Assignable(p)
    /\ SameRecord(Seen(r, p.ayah), p)
    /\ work' = [work EXCEPT ![r][p.ayah] = Merged(Seen(r, p.ayah), p)]
    /\ Advance(r)
    /\ tally' = [tally EXCEPT ![r] = [applied |-> @.applied + 1,
                                      rejected |-> @.rejected,
                                      conflicts |-> @.conflicts + 1]]
    /\ UNCHANGED <<card, pc, batch, cause, acked>>

MergeLose(r) ==
    /\ LookupHit(r)
    /\ Comparable(Seen(r, Current(r).ayah), Current(r))
    /\ ~Applies(r)
    /\ Advance(r)
    /\ tally' = [tally EXCEPT ![r].rejected = @ + 1]
    /\ UNCHANGED <<card, pc, batch, work, cause, acked>>

(* The comparison, the assignment or the save raises. *)
MergeRaises(r) ==
    LET p == Current(r) IN
    /\ LookupHit(r)
    /\ \/ ~Comparable(Seen(r, p.ayah), p) /\ Rollback(r, "type_error")
       \/ /\ Comparable(Seen(r, p.ayah), p)
          /\ Applies(r) /\ ~Assignable(p)
          /\ Rollback(r, "value_error")
       \/ /\ Comparable(Seen(r, p.ayah), p)
          /\ Applies(r) /\ Assignable(p)
          /\ ~SameRecord(Seen(r, p.ayah), p)
          /\ Rollback(r, "duplicate")

(* objects.create: the row is inserted; another request's uncommitted      *)
(* insert of the same (user, ayah) makes this one wait for its outcome.    *)
Create(r) ==
    LET p == Current(r) IN
    /\ pc[r] = "create"
    /\ Assignable(p)
    /\ p.body # Absent
    /\ ~HeldByOther(r, p.ayah)
    /\ card[p.ayah] = NoRow
    /\ work' = [work EXCEPT ![r][p.ayah] = Created(p)]
    /\ Advance(r)
    /\ pc' = [pc EXCEPT ![r] = "scan"]
    /\ tally' = [tally EXCEPT ![r].applied = @ + 1]
    /\ UNCHANGED <<card, batch, cause, acked>>

(* The constructor raises, the NOT NULL column due_at is missing, or the   *)
(* row was inserted by a request that committed after our lookup.          *)
CreateRaises(r) ==
    LET p == Current(r) IN
    /\ pc[r] = "create"
    /\ \/ ~Assignable(p) /\ Rollback(r, "value_error")
       \/ Assignable(p) /\ p.body = Absent /\ Rollback(r, "not_null")
       \/ /\ Assignable(p) /\ p.body # Absent
          /\ ~HeldByOther(r, p.ayah)
          /\ card[p.ayah] # NoRow
          /\ Rollback(r, "duplicate")

(* The atomic block ends: every write becomes visible, every lock is freed. *)
Commit(r) ==
    /\ pc[r] = "scan"
    /\ pos[r] > Len(batch[r])
    /\ card' = [a \in Ayahs |-> Seen(r, a)]
    /\ acked' = acked \cup {batch[r][i] : i \in DOMAIN batch[r]}
    /\ pc' = [pc EXCEPT ![r] = "committed"]
    /\ work' = [work EXCEPT ![r] = NoWork]
    /\ locked' = [locked EXCEPT ![r] = {}]
    /\ UNCHANGED <<batch, pos, tally, cause>>

(* The request whose locks r is waiting for, in select_for_update or in    *)
(* the unique index.                                                       *)
WaitsFor(r, q) ==
    /\ r # q
    /\ Scanning(r) \/ pc[r] = "create"
    /\ Current(r).ayah \in locked[q]
    /\ \/ pc[r] = "create" /\ Assignable(Current(r)) /\ Current(r).body # Absent
       \/ pc[r] = "scan" /\ WellFormed(Current(r))
          /\ Seen(r, Current(r).ayah) # NoRow

InCycle(r) ==
    \E S \in SUBSET Requests :
        /\ r \in S
        /\ \A q \in S : (\E s \in S : WaitsFor(q, s)) /\ (\E s \in S : WaitsFor(s, q))

(* The database breaks a cycle of waiting transactions. *)
DeadlockVictim(r) == InCycle(r) /\ Rollback(r, "deadlock")

(* The worker or its connection dies before the transaction commits. *)
ConnectionLost(r) ==
    /\ pc[r] \in {"scan", "create"}
    /\ Rollback(r, "connection")

(* The response is sent, or lost, and the handler is free: the client does *)
(* not know which and may send the batch again.                            *)
Finish(r) ==
    /\ pc[r] \in {"committed", "failed"}
    /\ pc' = [pc EXCEPT ![r] = "idle"]
    /\ batch' = [batch EXCEPT ![r] = <<>>]
    /\ pos' = [pos EXCEPT ![r] = 1]
    /\ tally' = [tally EXCEPT ![r] = ZeroTally]
    /\ cause' = [cause EXCEPT ![r] = "none"]
    /\ UNCHANGED <<card, work, locked, acked>>

Step(r) ==
    \/ RejectMalformed(r)
    \/ LookupMiss(r)
    \/ MergeWin(r)
    \/ MergeLose(r)
    \/ MergeRaises(r)
    \/ Create(r)
    \/ CreateRaises(r)
    \/ Commit(r)
    \/ DeadlockVictim(r)
    \/ Finish(r)

Next == \E r \in Requests : Receive(r) \/ Step(r) \/ ConnectionLost(r)

Spec == Init /\ [][Next]_vars

(* A request that can run does (the worker's thread), the database breaks  *)
(* deadlocks, and it serves the queue of a row lock in order, so that a    *)
(* request whose lock is free again and again gets it.  Nobody has to send *)
(* a push, and no connection has to fail.                                  *)
FairSpec == Spec /\ \A r \in Requests : SF_vars(Step(r))

-----------------------------------------------------------------------------
(* A row that the payload no longer beats holds that much progress.        *)
Covers(row, p) == row # NoRow /\ ~IncomingWins(row, p)

(* The versions a row has on record as overwritten. *)
Kept(row) == {row.lost[i] : i \in DOMAIN row.lost}

(* The versions on record each lost to every later one and to the current  *)
(* one, and the revision counter counts them, unless a payload has set it. *)
CompleteHistory(row) ==
    /\ row.counterSet \/ row.rev = Len(row.lost) + 1
    /\ \A i \in DOMAIN row.lost :
         /\ IncomingWins(row.lost[i], row)
         /\ \A j \in 1..(i - 1) : IncomingWins(row.lost[j], row.lost[i])

(* No acknowledged review is lost: once the transaction of a push has      *)
(* committed, the card of each of its payloads is at least as far along,   *)
(* for ever and whatever other requests interleave.  It follows that a     *)
(* push repeated after a lost response changes nothing.                    *)
(* (services.py 28-77, "Losing a completed review is worse than replaying  *)
(* one")                                                                   *)
NoAckedReviewLost ==
    \A p \in acked : WellFormed(p) => Covers(card[p.ayah], p)

(* Some push that was acknowledged brought this version's progress. *)
Acked(a, v) == \E p \in acked : p.ayah = a /\ p.reps = v.reps /\ p.at = v.at

(* Nothing is there that was not acknowledged: the progress of each card,  *)
(* and of each version on its record, is one that a committed push brought *)
(* for that card, so a batch that failed at its last payload leaves no     *)
(* trace of the others.  With the above, a card is the best of what was    *)
(* acknowledged, in whatever order.  (services.py 31-70, "atomic")         *)
ProgressIsAcked ==
    \A a \in Ayahs : card[a] # NoRow =>
        \A v \in Kept(card[a]) \cup {card[a]} : Acked(a, v)

(* The conflict rows of a card are its history in order, each beaten by    *)
(* the next, whoever overwrote it, and without gaps: the revision counter, *)
(* kept apart from them, has counted as many, for as long as no payload    *)
(* carries a revision, which the merge takes over as it is.                *)
(* (services.py 50-64; models.py 37 "every write keeps a revision counter")*)
HistoryIsComplete ==
    \A a \in Ayahs : card[a] # NoRow => CompleteHistory(card[a])

(* A committed card is never deleted, and whenever one is replaced the     *)
(* replacement has won over it and what _snapshot takes of the replaced    *)
(* one (its scheduling and its clock, but not when it was last reviewed)   *)
(* is on record, even when one batch overwrites it more than once.         *)
(* (models.py 34-37 "never hard-deleted, never overwritten blindly")       *)
NeverOverwrittenBlindly ==
    [][\A a \in Ayahs : card[a] # NoRow /\ card'[a] # card[a] =>
           /\ card'[a] # NoRow
           /\ IncomingWins(card[a], card'[a])
           /\ Snapshot(card[a]) \in Kept(card'[a])]_vars

(* The conflict rows there are in the table new and not in the table old.  *)
Lost(row) == IF row = NoRow THEN 0 ELSE Len(row.lost)

NewConflicts(old, new) ==
    UNION {{<<a, i>> : i \in (Lost(old[a]) + 1)..Lost(new[a])} : a \in Ayahs}

(* The response counts what the commit makes visible: every payload is     *)
(* either applied or rejected, and the conflicts it reports are exactly    *)
(* the overwritten versions the commit adds to the log, whoever else       *)
(* committed since the batch began.  (services.py 29, 35-37, 51-68)        *)
ResponseIsTruthful ==
    [][\A r \in Requests : pc[r] = "scan" /\ pc'[r] = "committed" =>
          /\ tally[r].applied + tally[r].rejected = Len(batch[r])
          /\ tally[r].conflicts = Cardinality(NewConflicts(card, card'))]_vars

(* One payload after another, with nobody else at work. *)
MergedCard(row, p) ==
    IF row = NoRow THEN Created(p)
    ELSE IF IncomingWins(row, p) THEN Merged(row, p) ELSE row

MergedTable(table, p) ==
    [a \in Ayahs |-> IF WellFormed(p) /\ a = p.ayah THEN MergedCard(table[a], p) ELSE table[a]]

MergedBatch(table, b) ==
    LET after[i \in 0..Len(b)] == IF i = 0 THEN table ELSE MergedTable(after[i - 1], b[i])
    IN after[Len(b)]

(* Pushes are serializable: only a commit changes the table, and what it   *)
(* leaves is what merging its batch alone, payload by payload, makes of    *)
(* the table as it is at that moment, however many transactions read and   *)
(* committed in between.  (services.py 31-70; "select_for_update", 39)     *)
CommitsAreSerial ==
    [][LET committing == {r \in Requests : pc[r] = "scan" /\ pc'[r] = "committed"}
       IN  /\ committing = {} => card' = card
           /\ \A r \in committing : card' = MergedBatch(card, batch[r])]_vars

(* A push that was acknowledged before changes nothing, whatever others     *)
(* have pushed since.  (services.py 28-77)                                 *)
RetriesChangeNothing ==
    [][\A r \in Requests :
          /\ pc[r] = "scan" /\ pc'[r] = "committed"
          /\ \A i \in DOMAIN batch[r] : batch[r][i] \in acked
          => card' = card]_vars

(* Pushes never hold each other up for good: as long as some are in their  *)
(* transactions, one of them waits for no other, or is in a cycle of waits *)
(* that the database breaks.  (services.py 32-43)                          *)
SomeoneGoesOn ==
    LET merging == {r \in Requests : pc[r] \in {"scan", "create"}}
    IN  merging # {} =>
          \E r \in merging : InCycle(r) \/ \A q \in Requests : ~WaitsFor(r, q)

(* A push is always answered: lock waits, creation races and deadlocks     *)
(* never leave a handler stuck.  (services.py 31-43)                       *)
EveryPushAnswered ==
    \A r \in Requests : pc[r] # "idle" ~> pc[r] = "idle"

(* test_sync_merge.py 25-40: a new card whose "ayah" is a primary key is   *)
(* created, so assigning it does not fail.                                 *)
PrimaryKeyIsAccepted == \A r \in Requests : cause[r] # "value_error"
=============================================================================
