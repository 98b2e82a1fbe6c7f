-------------------------- MODULE HifzMerge_proofs --------------------------
(***************************************************************************)
(* The safety of the server merge, for any number of ayahs, concurrent     *)
(* pushes and batches.  The argument: a transaction only writes rows it    *)
(* holds the lock of, so between its lookup and its commit the committed   *)
(* row cannot move under it; each write is a strict improvement in the     *)
(* order of _incoming_wins; hence what a transaction sees at a card covers *)
(* every payload it has been through, and commits keep covering them.      *)
(***************************************************************************)
EXTENDS HifzMerge, TLAPS, FiniteSetTheorems, WellFoundedInduction

-----------------------------------------------------------------------------
(* The order of the rule. *)

Ranked(x) == x.reps \in Nat /\ x.at \in Nat

(* Winning is transitive, so a chain of merges only ever gains progress.   *)
LEMMA WinsTransitive ==
    ASSUME NEW x, NEW y, NEW z, Ranked(x), Ranked(y), Ranked(z),
           IncomingWins(x, y), IncomingWins(y, z)
    PROVE  IncomingWins(x, z)
  BY DEF Ranked, IncomingWins

(* What a row covers, every row that wins over it covers too.              *)
LEMMA CoverKept ==
    ASSUME NEW x, NEW y, NEW p, Ranked(x), Ranked(y), Ranked(p),
           y # NoRow, Covers(x, p), IncomingWins(x, y)
    PROVE  Covers(y, p)
  BY DEF Ranked, IncomingWins, Covers

LEMMA RowRanked ==
    ASSUME NEW row \in Row PROVE Ranked(row) /\ row # NoRow
  BY NoRowAssumption DEF Row, Ranked

LEMMA PayloadRanked ==
    ASSUME NEW p \in Payload, WellFormed(p)
    PROVE  Ranked(p) /\ p.ayah \in Ayahs
  BY DEF Payload, WellFormed, Ranked

(* A merge that wins yields a row: further along than the one it replaces, *)
(* with that one added to a history that stays complete.                   *)
LEMMA MergedRow ==
    ASSUME NEW row \in Row, NEW p \in Payload, WellFormed(p),
           CompleteHistory(row), IncomingWins(row, p)
    PROVE  /\ Merged(row, p) \in Row
           /\ CompleteHistory(Merged(row, p))
           /\ IncomingWins(row, Merged(row, p))
           /\ ~IncomingWins(Merged(row, p), p)
           /\ Snapshot(row) \in Kept(Merged(row, p))
           /\ Kept(row) \subseteq Kept(Merged(row, p))
<1> DEFINE new == Merged(row, p)
           n   == Len(row.lost)
<1>1. /\ Snapshot(row) \in Version
      /\ row.lost \in Seq(Version)
      /\ Ranked(row) /\ Ranked(p)
  BY RowRanked, PayloadRanked DEF Row, Snapshot, Version
<1>2. new \in Row
  BY <1>1 DEF Merged, Carried, Row, Payload, WellFormed
<1>3. /\ new.lost = Append(row.lost, Snapshot(row))
      /\ new.counterSet \/ (~row.counterSet /\ new.rev = row.rev + 1)
      /\ new.reps = p.reps /\ new.at = p.at
  BY DEF Merged, Carried, Row
<1>4. /\ Len(new.lost) = n + 1
      /\ n \in Nat
      /\ DOMAIN new.lost = 1..(n + 1)
      /\ DOMAIN row.lost = 1..n
      /\ new.lost[n + 1] = Snapshot(row)
      /\ \A i \in 1..n : new.lost[i] = row.lost[i]
  BY <1>1, <1>3
<1>5. IncomingWins(row, new) /\ ~IncomingWins(new, p) /\ Ranked(new)
  BY <1>1, <1>3 DEF IncomingWins, Ranked
<1>6. IncomingWins(Snapshot(row), new)
  BY <1>5 DEF Snapshot, IncomingWins
<1>7. ASSUME NEW i \in 1..n
      PROVE  /\ IncomingWins(row.lost[i], new)
             /\ IncomingWins(row.lost[i], Snapshot(row))
             /\ \A j \in 1..(i - 1) : IncomingWins(row.lost[j], row.lost[i])
  <2>1. IncomingWins(row.lost[i], row)
        /\ \A j \in 1..(i - 1) : IncomingWins(row.lost[j], row.lost[i])
    BY <1>4 DEF CompleteHistory
  <2>2. row.lost[i] \in Version
    BY <1>1, <1>4
  <2>3. IncomingWins(row.lost[i], new)
    BY <2>1, <2>2, <1>1, <1>5, WinsTransitive DEF Version, Ranked
  <2>4. IncomingWins(row.lost[i], Snapshot(row))
    BY <2>1 DEF Snapshot, IncomingWins
  <2>5. QED BY <2>1, <2>3, <2>4
<1>8. CompleteHistory(new)
  <2>1. new.counterSet \/ new.rev = Len(new.lost) + 1
    BY <1>3, <1>4 DEF CompleteHistory
  <2>2. ASSUME NEW i \in 1..(n + 1)
        PROVE  /\ IncomingWins(new.lost[i], new)
               /\ \A j \in 1..(i - 1) : IncomingWins(new.lost[j], new.lost[i])
    <3>1. CASE i = n + 1
      <4>1. ASSUME NEW j \in 1..(i - 1)
            PROVE  IncomingWins(new.lost[j], new.lost[i])
        <5>1. j \in 1..n
          BY <3>1, <1>4
        <5>2. QED BY <5>1, <3>1, <1>4, <1>7
      <4>2. QED BY <4>1, <3>1, <1>4, <1>6
    <3>2. CASE i # n + 1
      <4>1. i \in 1..n /\ \A j \in 1..(i - 1) : j \in 1..n
        BY <3>2, <1>4
      <4>2. QED BY <4>1, <1>4, <1>7
    <3>3. QED BY <3>1, <3>2
  <2>3. QED BY <2>1, <2>2, <1>4 DEF CompleteHistory
<1>9. Snapshot(row) \in Kept(new) /\ Kept(row) \subseteq Kept(new)
  BY <1>4 DEF Kept
<1>10. QED BY <1>2, <1>5, <1>8, <1>9

-----------------------------------------------------------------------------
(* The inductive invariant. *)

LocksExclusive ==
    \A r, q \in Requests : r # q => locked[r] \cap locked[q] = {}

(* A transaction writes only what it has locked, and what it writes is a   *)
(* row with its history, further along than the committed one it replaces. *)
WorkIsLocked ==
    \A r \in Requests, a \in Ayahs : work[r][a] # NoRow =>
        /\ a \in locked[r]
        /\ CompleteHistory(work[r][a])
        /\ card[a] # NoRow =>
             /\ IncomingWins(card[a], work[r][a])
             /\ Snapshot(card[a]) \in Kept(work[r][a])

(* The payloads a transaction has been through are covered by what it sees. *)
ScanIsCovered ==
    \A r \in Requests : pc[r] \in {"scan", "create"} =>
        /\ pos[r] <= Len(batch[r]) + 1
        /\ \A i \in 1..(pos[r] - 1) :
             WellFormed(batch[r][i]) =>
                 Covers(Seen(r, batch[r][i].ayah), batch[r][i])

(* A request about to insert has a well-formed payload at hand and has not *)
(* written its card.                                                       *)
CreateIsPending ==
    \A r \in Requests : pc[r] = "create" =>
        /\ pos[r] <= Len(batch[r])
        /\ WellFormed(Current(r))
        /\ work[r][Current(r).ayah] = NoRow

IInv ==
    /\ TypeOK
    /\ LocksExclusive
    /\ WorkIsLocked
    /\ ScanIsCovered
    /\ CreateIsPending
    /\ HistoryIsComplete
    /\ NoAckedReviewLost

-----------------------------------------------------------------------------
LEMMA InitType == Init => TypeOK
  BY DEF Init, TypeOK, NoWork, ZeroTally, Outcome, Causes

LEMMA RollbackType ==
    ASSUME TypeOK, NEW r \in Requests, NEW why \in Causes, Rollback(r, why)
    PROVE  TypeOK'
  BY DEF TypeOK, Rollback, NoWork

LEMMA CurrentPayload ==
    ASSUME TypeOK, NEW r \in Requests, pos[r] <= Len(batch[r])
    PROVE  Current(r) \in Payload
  BY DEF TypeOK, Current

LEMMA CreatedRow ==
    ASSUME NEW p \in Payload, WellFormed(p), p.body # Absent
    PROVE  /\ Created(p) \in Row
           /\ CompleteHistory(Created(p))
           /\ ~IncomingWins(Created(p), p)
<1>1. /\ p.reps \in Nat /\ p.at \in Nat /\ p.body \in Bodies
      /\ Carried(p.reviewed, 0) \in Nat /\ Carried(p.id, OwnId) \in Ids
      /\ Carried(p.rev, 1) \in Nat
  BY OwnIdAssumption DEF Payload, WellFormed, Carried
<1>2. Created(p) \in Row
  BY <1>1 DEF Row, Created
<1>3. CompleteHistory(Created(p))
  <2>1. Created(p).lost = <<>> /\ (Created(p).counterSet \/ Created(p).rev = 1)
    BY DEF Created, Carried
  <2>2. QED BY <2>1 DEF CompleteHistory
<1>4. ~IncomingWins(Created(p), p)
  BY <1>1 DEF Created, IncomingWins
<1>5. QED BY <1>2, <1>3, <1>4

LEMMA SeenRow ==
    ASSUME TypeOK, NEW r \in Requests, NEW a \in Ayahs
    PROVE  Seen(r, a) \in Row \cup {NoRow}
  BY DEF TypeOK, Seen

LEMMA Counted ==
    ASSUME TypeOK, NEW r \in Requests
    PROVE  /\ [tally EXCEPT ![r].rejected = @ + 1] \in [Requests -> Outcome]
           /\ [tally EXCEPT ![r].applied = @ + 1] \in [Requests -> Outcome]
           /\ [tally EXCEPT ![r] = [applied |-> @.applied + 1,
                                    rejected |-> @.rejected,
                                    conflicts |-> @.conflicts + 1]]
                \in [Requests -> Outcome]
<1>1. tally \in [Requests -> Outcome]
  BY DEF TypeOK
<1>2. QED BY <1>1 DEF Outcome

(* TypeOK is preserved by every step.                                      *)
LEMMA NextType ==
    ASSUME TypeOK, LocksExclusive, WorkIsLocked, HistoryIsComplete, CreateIsPending,
           [Next]_vars
    PROVE  TypeOK'
<1>1. CASE UNCHANGED vars
  BY <1>1 DEF vars, TypeOK
<1>2. CASE Next
  <2> SUFFICES ASSUME NEW r \in Requests, Receive(r) \/ Step(r) \/ ConnectionLost(r)
               PROVE  TypeOK'
    BY <1>2 DEF Next
  <2>1. CASE Receive(r)
    BY <2>1, BatchesAssumption DEF Receive, TypeOK, ZeroTally, Outcome, Causes
  <2>2. CASE RejectMalformed(r)
    <3>1. tally' \in [Requests -> Outcome]
      BY <2>2, Counted, Zenon DEF RejectMalformed
    <3>2. QED BY <2>2, <3>1 DEF RejectMalformed, TypeOK
  <2>3. CASE LookupMiss(r)
    BY <2>3 DEF LookupMiss, TypeOK
  <2>4. CASE MergeWin(r)
    <3> DEFINE p == Current(r)
    <3>1. /\ p \in Payload /\ WellFormed(p) /\ p.ayah \in Ayahs
          /\ Seen(r, p.ayah) \in Row
          /\ IncomingWins(Seen(r, p.ayah), p)
      BY <2>4, CurrentPayload, PayloadRanked, SeenRow
         DEF MergeWin, LookupHit, Scanning, Applies
    <3>2. CompleteHistory(Seen(r, p.ayah))
      BY <3>1, <2>4 DEF Seen, WorkIsLocked, HistoryIsComplete, MergeWin, LookupHit
    <3>3. Merged(Seen(r, p.ayah), p) \in Row
      BY <3>1, <3>2, MergedRow
    <3>4. work' \in [Requests -> [Ayahs -> Row \cup {NoRow}]]
      BY <2>4, <3>1, <3>3 DEF MergeWin, TypeOK
    <3>5. tally' \in [Requests -> Outcome]
      BY <2>4, Counted, Zenon DEF MergeWin
    <3>6. QED
      BY <2>4, <3>1, <3>4, <3>5 DEF MergeWin, Advance, TypeOK
  <2>5. CASE MergeLose(r)
    <3>1. Current(r).ayah \in Ayahs
      BY <2>5, CurrentPayload, PayloadRanked DEF MergeLose, LookupHit, Scanning
    <3>2. tally' \in [Requests -> Outcome]
      BY <2>5, Counted, Zenon DEF MergeLose
    <3>3. QED
      BY <2>5, <3>1, <3>2 DEF MergeLose, Advance, TypeOK
  <2>6. CASE MergeRaises(r)
    BY <2>6, RollbackType DEF MergeRaises, Causes
  <2>7. CASE Create(r)
    <3> DEFINE p == Current(r)
    <3>1. p \in Payload /\ WellFormed(p) /\ p.ayah \in Ayahs
      BY <2>7, CurrentPayload, PayloadRanked DEF Create, CreateIsPending
    <3>2. Created(p) \in Row
      BY <2>7, <3>1, CreatedRow DEF Create
    <3>3. work' \in [Requests -> [Ayahs -> Row \cup {NoRow}]]
      BY <2>7, <3>1, <3>2 DEF Create, TypeOK
    <3>4. tally' \in [Requests -> Outcome]
      BY <2>7, Counted, Zenon DEF Create
    <3>5. QED
      BY <2>7, <3>1, <3>3, <3>4 DEF Create, Advance, TypeOK
  <2>8. CASE CreateRaises(r)
    BY <2>8, RollbackType DEF CreateRaises, Causes
  <2>9. CASE Commit(r)
    <3>1. card' \in [Ayahs -> Row \cup {NoRow}]
      BY <2>9, SeenRow DEF Commit
    <3>2. acked' \subseteq Payload
      BY <2>9 DEF Commit, TypeOK
    <3>3. QED
      BY <2>9, <3>1, <3>2 DEF Commit, TypeOK, NoWork
  <2>10. CASE DeadlockVictim(r)
    BY <2>10, RollbackType DEF DeadlockVictim, Causes
  <2>11. CASE Finish(r)
    BY <2>11 DEF Finish, TypeOK, ZeroTally, Outcome, Causes
  <2>12. CASE ConnectionLost(r)
    BY <2>12, RollbackType DEF ConnectionLost, Causes
  <2>13. QED
    BY <2>1, <2>2, <2>3, <2>4, <2>5, <2>6, <2>7, <2>8, <2>9, <2>10, <2>11, <2>12
       DEF Step
<1>3. QED BY <1>1, <1>2

-----------------------------------------------------------------------------
(* A step of r is one of: it leaves card, work and locks alone; it locks    *)
(* the card of its payload, which nobody else holds; it rolls back; it      *)
(* commits.                                                                 *)
Frame(r) == UNCHANGED <<card, work, locked, acked>>

Grab(r) == MergeWin(r) \/ MergeLose(r) \/ Create(r)

Undo(r) == \E why \in Causes : Rollback(r, why)

LEMMA StepKinds ==
    ASSUME NEW r \in Requests, Receive(r) \/ Step(r) \/ ConnectionLost(r)
    PROVE  Frame(r) \/ Grab(r) \/ Undo(r) \/ Commit(r)
<1>1. Receive(r) \/ RejectMalformed(r) \/ LookupMiss(r) \/ Finish(r) => Frame(r)
  BY DEF Receive, RejectMalformed, LookupMiss, Finish, Frame
<1>2. MergeRaises(r) \/ CreateRaises(r) \/ DeadlockVictim(r) \/ ConnectionLost(r)
        => Undo(r)
  BY DEF MergeRaises, CreateRaises, DeadlockVictim, ConnectionLost, Undo, Causes
<1>3. QED BY <1>1, <1>2 DEF Step, Grab

(* What a step that takes a lock may rely on. *)
LEMMA GrabFacts ==
    ASSUME IInv, NEW r \in Requests, Grab(r)
    PROVE  LET p == Current(r) IN
           /\ pos[r] <= Len(batch[r])
           /\ p \in Payload /\ WellFormed(p) /\ p.ayah \in Ayahs /\ Ranked(p)
           /\ ~HeldByOther(r, p.ayah)
           /\ locked' = [locked EXCEPT ![r] = @ \cup {p.ayah}]
           /\ pos' = [pos EXCEPT ![r] = @ + 1]
           /\ pc' \in {pc, [pc EXCEPT ![r] = "scan"]}
           /\ UNCHANGED <<card, batch, acked>>
<1>1. /\ pos[r] <= Len(batch[r])
      /\ WellFormed(Current(r))
      /\ ~HeldByOther(r, Current(r).ayah)
      /\ Advance(r)
      /\ pc' \in {pc, [pc EXCEPT ![r] = "scan"]}
      /\ UNCHANGED <<card, batch, acked>>
  BY DEF Grab, MergeWin, MergeLose, Create, LookupHit, Scanning, IInv, CreateIsPending
<1>2. QED BY <1>1, CurrentPayload, PayloadRanked DEF Advance, IInv

LEMMA LocksStep ==
    ASSUME IInv, [Next]_vars
    PROVE  LocksExclusive'
<1>1. CASE UNCHANGED vars
  BY <1>1 DEF vars, IInv, LocksExclusive
<1>2. CASE Next
  <2> SUFFICES ASSUME NEW r \in Requests, Receive(r) \/ Step(r) \/ ConnectionLost(r)
               PROVE  LocksExclusive'
    BY <1>2 DEF Next
  <2>1. CASE Frame(r)
    BY <2>1 DEF Frame, IInv, LocksExclusive
  <2>2. CASE Grab(r)
    <3>1. PICK a \in Ayahs : /\ ~HeldByOther(r, a)
                            /\ locked' = [locked EXCEPT ![r] = @ \cup {a}]
      BY <2>2, GrabFacts
    <3>2. QED BY <3>1 DEF HeldByOther, IInv, TypeOK, LocksExclusive
  <2>3. CASE Undo(r)
    BY <2>3 DEF Undo, Rollback, IInv, TypeOK, LocksExclusive
  <2>4. CASE Commit(r)
    BY <2>4 DEF Commit, IInv, TypeOK, LocksExclusive
  <2>5. QED BY <2>1, <2>2, <2>3, <2>4, StepKinds
<1>3. QED BY <1>1, <1>2

(* What a transaction reads is a row with its history. *)
LEMMA SeenGood ==
    ASSUME IInv, NEW r \in Requests, NEW a \in Ayahs, Seen(r, a) # NoRow
    PROVE  /\ Seen(r, a) \in Row
           /\ CompleteHistory(Seen(r, a))
           /\ card[a] # NoRow => card[a] \in Row
  BY DEF IInv, TypeOK, WorkIsLocked, HistoryIsComplete, Seen

(* The row a transaction writes, compared with the committed one. *)
LEMMA GrabWrites ==
    ASSUME IInv, NEW r \in Requests, Grab(r),
           NEW p, p = Current(r), NEW a, a = p.ayah
    PROVE  LET new == work'[r][a] IN
           /\ \A q \in Requests, b \in Ayahs :
                 q # r \/ b # a => work'[q][b] = work[q][b]
           /\ Seen(r, a)' \in Row
           /\ Covers(Seen(r, a)', p)
           /\ Seen(r, a) # NoRow /\ Seen(r, a)' # Seen(r, a) =>
                 IncomingWins(Seen(r, a), Seen(r, a)')
           /\ new # NoRow =>
                /\ CompleteHistory(new)
                /\ card[a] # NoRow =>
                     /\ IncomingWins(card[a], new)
                     /\ Snapshot(card[a]) \in Kept(new)
<1> DEFINE old == IF work[r][a] # NoRow THEN work[r][a] ELSE card[a]
<1>0. old = Seen(r, a)
  BY DEF Seen
<1>1. /\ p \in Payload /\ WellFormed(p) /\ a \in Ayahs /\ Ranked(p)
      /\ card' = card
  BY GrabFacts
<1>2. work \in [Requests -> [Ayahs -> Row \cup {NoRow}]]
  BY DEF IInv, TypeOK
<1>3. CASE MergeWin(r)
  <2>1. /\ old \in Row /\ CompleteHistory(old) /\ IncomingWins(old, p)
        /\ work' = [work EXCEPT ![r][a] = Merged(old, p)]
        /\ card[a] # NoRow => card[a] \in Row
    BY <1>0, <1>1, <1>3, SeenGood DEF MergeWin, LookupHit, Applies
  <2>2. work'[r][a] = Merged(old, p) /\ Merged(old, p) \in Row
    BY <1>1, <1>2, <2>1, MergedRow
  <2>3. Seen(r, a)' = Merged(old, p)
    BY <2>2, NoRowAssumption DEF Seen
  <2>4. ASSUME card[a] # NoRow
        PROVE  /\ IncomingWins(card[a], Merged(old, p))
               /\ Snapshot(card[a]) \in Kept(Merged(old, p))
    <3>1. CASE work[r][a] = NoRow
      BY <3>1, <1>1, <2>1, MergedRow
    <3>2. CASE work[r][a] # NoRow
      <4>1. IncomingWins(card[a], old) /\ Snapshot(card[a]) \in Kept(old)
        BY <3>2, <2>4, <1>1 DEF IInv, WorkIsLocked
      <4>2. Ranked(card[a]) /\ Ranked(old) /\ Ranked(Merged(old, p))
        BY <2>1, <2>2, <2>4, RowRanked
      <4>3. IncomingWins(old, Merged(old, p)) /\ Kept(old) \subseteq Kept(Merged(old, p))
        BY <1>1, <2>1, MergedRow
      <4>4. QED BY <4>1, <4>2, <4>3, WinsTransitive
    <3>3. QED BY <3>1, <3>2
  <2>5. IncomingWins(old, Merged(old, p)) /\ CompleteHistory(Merged(old, p))
        /\ Covers(Merged(old, p), p)
    BY <1>1, <2>1, <2>2, MergedRow, NoRowAssumption DEF Covers
  <2>6. QED BY <1>0, <1>1, <1>2, <2>1, <2>2, <2>3, <2>4, <2>5
<1>4. CASE MergeLose(r)
  <2>1. work' = work /\ old \in Row /\ ~IncomingWins(old, p) /\ Seen(r, a)' = old
    BY <1>0, <1>1, <1>4, SeenGood DEF MergeLose, LookupHit, Applies, Seen
  <2>2. QED
    BY <1>0, <1>1, <2>1, NoRowAssumption DEF Covers, IInv, WorkIsLocked
<1>5. CASE Create(r)
  <2>1. /\ Created(p) \in Row /\ CompleteHistory(Created(p))
        /\ ~IncomingWins(Created(p), p)
        /\ work' = [work EXCEPT ![r][a] = Created(p)]
        /\ card[a] = NoRow
        /\ work[r][a] = NoRow
    BY <1>1, <1>5, CreatedRow DEF Create, IInv, CreateIsPending
  <2>2. work'[r][a] = Created(p)
    BY <1>1, <1>2, <2>1
  <2>3. Seen(r, a)' = Created(p) /\ old = NoRow
    BY <2>1, <2>2, NoRowAssumption DEF Seen
  <2>4. QED BY <1>0, <1>1, <1>2, <2>1, <2>2, <2>3, NoRowAssumption DEF Covers
<1>6. QED BY <1>3, <1>4, <1>5 DEF Grab

LEMMA WorkStep ==
    ASSUME IInv, [Next]_vars
    PROVE  WorkIsLocked'
<1>1. CASE UNCHANGED vars
  BY <1>1 DEF vars, IInv, WorkIsLocked
<1>2. CASE Next
  <2> SUFFICES ASSUME NEW r \in Requests, Receive(r) \/ Step(r) \/ ConnectionLost(r)
               PROVE  WorkIsLocked'
    BY <1>2 DEF Next
  <2>1. CASE Frame(r)
    BY <2>1 DEF Frame, IInv, WorkIsLocked
  <2>2. CASE Grab(r)
    <3> DEFINE p == Current(r)
               a == p.ayah
    <3>1. /\ a \in Ayahs
          /\ card' = card
          /\ locked' = [locked EXCEPT ![r] = @ \cup {a}]
      BY <2>2, GrabFacts
    <3>2. /\ \A q \in Requests, b \in Ayahs :
                q # r \/ b # a => work'[q][b] = work[q][b]
          /\ work'[r][a] # NoRow =>
               /\ CompleteHistory(work'[r][a])
               /\ card[a] # NoRow =>
                    /\ IncomingWins(card[a], work'[r][a])
                    /\ Snapshot(card[a]) \in Kept(work'[r][a])
      BY <2>2, GrabWrites
    <3>3. \A q \in Requests : locked[q] \subseteq locked'[q] /\ a \in locked'[r]
      BY <3>1 DEF IInv, TypeOK
    <3>4. QED BY <3>1, <3>2, <3>3 DEF IInv, WorkIsLocked
  <2>3. CASE Undo(r)
    BY <2>3 DEF Undo, Rollback, NoWork, IInv, TypeOK, WorkIsLocked
  <2>4. CASE Commit(r)
    <3>1. ASSUME NEW q \in Requests, NEW a \in Ayahs, work'[q][a] # NoRow
          PROVE  q # r /\ work'[q][a] = work[q][a] /\ locked'[q] = locked[q]
      BY <2>4, <3>1 DEF Commit, NoWork, IInv, TypeOK
    <3>2. ASSUME NEW q \in Requests, NEW a \in Ayahs, work'[q][a] # NoRow
          PROVE  card'[a] = card[a]
      <4>1. a \in locked[q] /\ q # r
        BY <3>1, <3>2 DEF IInv, WorkIsLocked
      <4>2. work[r][a] = NoRow
        BY <4>1 DEF IInv, LocksExclusive, WorkIsLocked
      <4>3. QED BY <2>4, <4>2 DEF Commit, Seen
    <3>3. QED BY <3>1, <3>2 DEF IInv, WorkIsLocked
  <2>5. QED BY <2>1, <2>2, <2>3, <2>4, StepKinds
<1>3. QED BY <1>1, <1>2

(* Every step keeps each committed card or replaces it by one that won     *)
(* over it and has it on record.                                           *)
CardAdvances ==
    \A a \in Ayahs : card[a] # NoRow /\ card'[a] # card[a] =>
        /\ card'[a] # NoRow
        /\ IncomingWins(card[a], card'[a])
        /\ Snapshot(card[a]) \in Kept(card'[a])

LEMMA CardStep ==
    ASSUME IInv, [Next]_vars
    PROVE  CardAdvances
<1>1. CASE UNCHANGED vars
  BY <1>1 DEF vars, CardAdvances
<1>2. CASE Next
  <2> SUFFICES ASSUME NEW r \in Requests, Receive(r) \/ Step(r) \/ ConnectionLost(r)
               PROVE  CardAdvances
    BY <1>2 DEF Next
  <2>1. CASE Frame(r)
    BY <2>1 DEF Frame, CardAdvances
  <2>2. CASE Grab(r)
    BY <2>2, GrabFacts DEF CardAdvances
  <2>3. CASE Undo(r)
    BY <2>3 DEF Undo, Rollback, CardAdvances
  <2>4. CASE Commit(r)
    BY <2>4 DEF Commit, Seen, IInv, WorkIsLocked, CardAdvances
  <2>5. QED BY <2>1, <2>2, <2>3, <2>4, StepKinds
<1>3. QED BY <1>1, <1>2

(* A payload covered by what a running transaction sees stays covered.     *)
LEMMA SeenStep ==
    ASSUME IInv, TypeOK', NEW r \in Requests,
           Frame(r) \/ Grab(r) \/ Undo(r) \/ Commit(r), CardAdvances,
           NEW q \in Requests, pc'[q] \in {"scan", "create"},
           NEW p \in Payload, WellFormed(p), Covers(Seen(q, p.ayah), p)
    PROVE  Covers(Seen(q, p.ayah)', p)
<1> DEFINE a   == p.ayah
           old == IF work[q][a] # NoRow THEN work[q][a] ELSE card[a]
           new == IF work'[q][a] # NoRow THEN work'[q][a] ELSE card'[a]
<1>1. old = Seen(q, a) /\ new = Seen(q, a)' /\ old # NoRow
  BY DEF Seen, Covers
<1>2. /\ a \in Ayahs /\ Ranked(p)
      /\ old \in Row /\ new \in Row \cup {NoRow}
  BY <1>1, PayloadRanked DEF IInv, TypeOK
<1>3. new = old \/ (new # NoRow /\ IncomingWins(old, new))
  <2>1. CASE Frame(r)
    BY <2>1 DEF Frame
  <2>2. CASE Grab(r)
    <3>1. card' = card
      BY <2>2, GrabFacts
    <3>2. CASE q = r /\ a = Current(r).ayah
      BY <2>2, <3>2, <1>1, GrabWrites, RowRanked
    <3>3. CASE q # r \/ a # Current(r).ayah
      BY <2>2, <3>1, <3>3, <1>2, GrabWrites
    <3>4. QED BY <3>2, <3>3
  <2>3. CASE Undo(r)
    BY <2>3, <1>2 DEF Undo, Rollback, IInv, TypeOK
  <2>4. CASE Commit(r)
    <3>1. q # r
      BY <2>4 DEF Commit, IInv, TypeOK
    <3>2. work'[q] = work[q]
      BY <2>4, <3>1 DEF Commit, IInv, TypeOK
    <3>3. QED BY <3>2, <1>1, <1>2 DEF CardAdvances
  <2>5. QED BY <2>1, <2>2, <2>3, <2>4
<1>4. CASE new = old
  BY <1>1, <1>4
<1>5. CASE new # NoRow /\ IncomingWins(old, new)
  BY <1>1, <1>2, <1>5, CoverKept, RowRanked
<1>6. QED BY <1>3, <1>4, <1>5

LEMMA AckedStep ==
    ASSUME IInv, TypeOK', [Next]_vars
    PROVE  NoAckedReviewLost'
<1> USE DEF IInv
<1>1. CardAdvances
  BY CardStep
<1>2. ASSUME NEW p \in acked, WellFormed(p)
      PROVE  Covers(card'[p.ayah], p)
  <2>1. Covers(card[p.ayah], p) /\ p \in Payload
    BY <1>2 DEF NoAckedReviewLost, TypeOK
  <2>2. p.ayah \in Ayahs /\ Ranked(p)
    BY <2>1, <1>2, PayloadRanked
  <2>3. card[p.ayah] \in Row /\ card'[p.ayah] \in Row \cup {NoRow}
    BY <2>1, <2>2 DEF Covers, TypeOK
  <2>4. CASE card'[p.ayah] = card[p.ayah]
    BY <2>1, <2>4
  <2>5. CASE card'[p.ayah] # card[p.ayah]
    BY <2>1, <2>2, <2>3, <2>5, <1>1, CoverKept, RowRanked DEF CardAdvances, Covers
  <2>6. QED BY <2>4, <2>5
<1>3. ASSUME NEW p \in acked', p \notin acked, WellFormed(p)
      PROVE  Covers(card'[p.ayah], p)
  <2>1. PICK r \in Requests : Commit(r)
    <3>1. acked' # acked
      BY <1>3
    <3>2. PICK r \in Requests : Receive(r) \/ Step(r) \/ ConnectionLost(r)
      BY <3>1 DEF Next, vars
    <3>3. QED BY <3>1, <3>2, StepKinds, GrabFacts DEF Frame, Undo, Rollback
  <2>2. PICK i \in 1..Len(batch[r]) : p = batch[r][i]
    BY <2>1, <1>3 DEF Commit, TypeOK
  <2>3. p \in Payload /\ p.ayah \in Ayahs
    BY <1>3, PayloadRanked DEF TypeOK
  <2>4. Covers(Seen(r, p.ayah), p)
    <3>1. i \in 1..(pos[r] - 1) /\ pc[r] = "scan"
      BY <2>1, <2>2 DEF Commit, TypeOK
    <3>2. QED BY <3>1, <2>2, <1>3 DEF ScanIsCovered
  <2>5. card'[p.ayah] = Seen(r, p.ayah)
    BY <2>1, <2>3 DEF Commit
  <2>6. QED BY <2>4, <2>5
<1>4. QED BY <1>2, <1>3 DEF NoAckedReviewLost

LEMMA HistoryStep ==
    ASSUME IInv, [Next]_vars
    PROVE  HistoryIsComplete'
<1>1. CASE UNCHANGED vars
  BY <1>1 DEF vars, IInv, HistoryIsComplete
<1>2. CASE Next
  <2> SUFFICES ASSUME NEW r \in Requests, Receive(r) \/ Step(r) \/ ConnectionLost(r)
               PROVE  HistoryIsComplete'
    BY <1>2 DEF Next
  <2>1. CASE card' = card
    BY <2>1 DEF IInv, HistoryIsComplete
  <2>2. CASE Commit(r)
    BY <2>2 DEF Commit, Seen, IInv, WorkIsLocked, HistoryIsComplete
  <2>3. QED BY <2>1, <2>2, StepKinds, GrabFacts DEF Frame, Undo, Rollback
<1>3. QED BY <1>1, <1>2

(* A step of r leaves the other requests where they are.                   *)
LEMMA OthersStay ==
    ASSUME TypeOK, NEW r \in Requests, Receive(r) \/ Step(r) \/ ConnectionLost(r),
           NEW q \in Requests, q # r
    PROVE  pc'[q] = pc[q] /\ batch'[q] = batch[q] /\ pos'[q] = pos[q]
           /\ work'[q] = work[q]
  BY DEF TypeOK, Step, Receive, RejectMalformed, LookupMiss, MergeWin, MergeLose,
         MergeRaises, Create, CreateRaises, Commit, DeadlockVictim, ConnectionLost,
         Finish, Advance, Rollback

(* How r itself moves, when it is still merging afterwards: it starts a    *)
(* batch, stays at its payload, or is done with it.                        *)
LEMMA OwnMove ==
    ASSUME IInv, NEW r \in Requests, Receive(r) \/ Step(r) \/ ConnectionLost(r),
           pc'[r] \in {"scan", "create"}
    PROVE  \/ /\ pos'[r] = 1 /\ batch'[r] \in Seq(Payload) /\ pc'[r] = "scan"
           \/ /\ pc[r] \in {"scan", "create"} /\ batch'[r] = batch[r]
              /\ pos[r] <= Len(batch[r])
              /\ \/ LookupMiss(r) /\ pos'[r] = pos[r]
                 \/ /\ pos'[r] = pos[r] + 1 /\ pc'[r] = "scan"
                    /\ RejectMalformed(r) \/ Grab(r)
<1> USE DEF IInv
<1>1. CASE Receive(r)
  BY <1>1, BatchesAssumption DEF Receive, TypeOK
<1>2. CASE LookupMiss(r)
  BY <1>2 DEF LookupMiss, Scanning, TypeOK
<1>3. CASE RejectMalformed(r)
  BY <1>3 DEF RejectMalformed, Scanning, TypeOK
<1>4. CASE Grab(r)
  <2>1. pc[r] \in {"scan", "create"} /\ pc'[r] = "scan"
    BY <1>4 DEF Grab, MergeWin, MergeLose, Create, LookupHit, Scanning, TypeOK
  <2>2. /\ pos[r] <= Len(batch[r]) /\ batch' = batch
        /\ pos' = [pos EXCEPT ![r] = @ + 1]
    BY <1>4, GrabFacts
  <2>3. QED BY <1>4, <2>1, <2>2 DEF TypeOK
<1>5. CASE Undo(r) \/ Commit(r) \/ Finish(r)
  BY <1>5 DEF Undo, Rollback, Commit, Finish, TypeOK
<1>6. QED
  <2>1. MergeRaises(r) \/ CreateRaises(r) \/ DeadlockVictim(r) \/ ConnectionLost(r)
          => Undo(r)
    BY DEF MergeRaises, CreateRaises, DeadlockVictim, ConnectionLost, Undo, Causes
  <2>2. QED BY <2>1, <1>1, <1>2, <1>3, <1>4, <1>5 DEF Step, Grab

LEMMA ScanStep ==
    ASSUME IInv, TypeOK', [Next]_vars
    PROVE  ScanIsCovered'
<1> USE DEF IInv
<1>1. CASE UNCHANGED vars
  BY <1>1 DEF vars, ScanIsCovered, Seen
<1>2. ASSUME NEW r \in Requests, Receive(r) \/ Step(r) \/ ConnectionLost(r),
             NEW q \in Requests, pc'[q] \in {"scan", "create"}
      PROVE  /\ pos'[q] <= Len(batch'[q]) + 1
             /\ \A i \in 1..(pos'[q] - 1), p \in Payload :
                  p = batch'[q][i] /\ WellFormed(p) => Covers(Seen(q, p.ayah)', p)
  <2>1. CardAdvances /\ (Frame(r) \/ Grab(r) \/ Undo(r) \/ Commit(r))
    BY <1>2, CardStep, StepKinds
  <2>2. ASSUME pc[q] \in {"scan", "create"},
               NEW i \in 1..(pos[q] - 1), NEW p \in Payload, p = batch[q][i],
               WellFormed(p)
        PROVE  Covers(Seen(q, p.ayah)', p)
    <3>1. Covers(Seen(q, p.ayah), p)
      BY <2>2 DEF ScanIsCovered
    <3>2. QED BY <3>1, <2>1, <2>2, <1>2, SeenStep
  <2>3. CASE q # r
    <3>1. pc'[q] = pc[q] /\ batch'[q] = batch[q] /\ pos'[q] = pos[q]
      BY <2>3, <1>2, OthersStay
    <3>2. QED BY <3>1, <2>2, <1>2 DEF ScanIsCovered
  <2>4. CASE q = r
    <3>1. CASE pos'[r] = 1 /\ batch'[r] \in Seq(Payload)
      BY <3>1, <2>4
    <3>2. CASE pc[r] \in {"scan", "create"} /\ batch'[r] = batch[r]
               /\ pos'[r] = pos[r]
      BY <3>2, <2>2, <2>4 DEF ScanIsCovered
    <3>3. CASE /\ pc[r] \in {"scan", "create"} /\ batch'[r] = batch[r]
               /\ pos[r] <= Len(batch[r]) /\ pos'[r] = pos[r] + 1
               /\ RejectMalformed(r) \/ Grab(r)
      <4>1. ASSUME NEW p \in Payload, p = batch[r][pos[r]], WellFormed(p)
            PROVE  Covers(Seen(r, p.ayah)', p)
        <5>1. Grab(r) /\ p = Current(r)
          BY <3>3, <4>1 DEF RejectMalformed, Current
        <5>2. QED BY <5>1, GrabWrites
      <4>2. pos[r] \in Nat \ {0} /\ Len(batch[r]) \in Nat
        BY DEF TypeOK
      <4>3. ASSUME NEW i \in 1..(pos'[r] - 1), NEW p \in Payload,
                   p = batch'[r][i], WellFormed(p)
            PROVE  Covers(Seen(r, p.ayah)', p)
        <5>1. i \in 1..(pos[r] - 1) \/ i = pos[r]
          BY <3>3, <4>2
        <5>2. CASE i \in 1..(pos[r] - 1)
          BY <5>2, <4>3, <2>2, <2>4, <3>3
        <5>3. CASE i = pos[r]
          BY <5>3, <4>1, <4>3, <3>3
        <5>4. QED BY <5>1, <5>2, <5>3
      <4>4. pos'[r] <= Len(batch'[r]) + 1
        BY <4>2, <3>3
      <4>5. QED BY <4>3, <4>4, <2>4, Zenon
    <3>4. QED BY <3>1, <3>2, <3>3, <2>4, <1>2, OwnMove
  <2>5. QED BY <2>3, <2>4
<1>3. CASE Next
  <2> SUFFICES ASSUME NEW q \in Requests, pc'[q] \in {"scan", "create"}
               PROVE  /\ pos'[q] <= Len(batch'[q]) + 1
                      /\ \A i \in 1..(pos'[q] - 1) :
                           (WellFormed(batch[q][i]) =>
                              Covers(Seen(q, batch[q][i].ayah), batch[q][i]))'
    BY DEF ScanIsCovered
  <2>1. /\ pos'[q] <= Len(batch'[q]) + 1
        /\ \A i \in 1..(pos'[q] - 1), p \in Payload :
             p = batch'[q][i] /\ WellFormed(p) => Covers(Seen(q, p.ayah)', p)
    BY <1>2, <1>3 DEF Next
  <2>2. \A i \in 1..(pos'[q] - 1) : batch'[q][i] \in Payload
    BY <2>1 DEF TypeOK
  <2>3. QED BY <2>1, <2>2 DEF Seen, WellFormed
<1>4. QED BY <1>1, <1>3

LEMMA CreateStep ==
    ASSUME IInv, TypeOK', [Next]_vars
    PROVE  CreateIsPending'
<1> USE DEF IInv
<1>1. CASE UNCHANGED vars
  BY <1>1 DEF vars, CreateIsPending, Current
<1>2. CASE Next
  <2> SUFFICES ASSUME NEW r \in Requests, Receive(r) \/ Step(r) \/ ConnectionLost(r),
                      NEW q \in Requests, pc'[q] = "create"
               PROVE  /\ pos'[q] <= Len(batch'[q])
                      /\ WellFormed(batch'[q][pos'[q]])
                      /\ work'[q][batch'[q][pos'[q]].ayah] = NoRow
    BY <1>2 DEF Next, CreateIsPending, Current
  <2>1. CASE q # r
    BY <2>1, OthersStay DEF CreateIsPending, Current
  <2>2. CASE q = r
    <3>1. LookupMiss(r) /\ batch'[r] = batch[r] /\ pos'[r] = pos[r]
          /\ pos[r] <= Len(batch[r])
      BY <2>2, OwnMove
    <3>2. QED BY <3>1, <2>2 DEF LookupMiss, Seen, Current
  <2>3. QED BY <2>1, <2>2
<1>3. QED BY <1>1, <1>2

-----------------------------------------------------------------------------
(* The theorems. *)

LEMMA Induction == Spec => []IInv
<1>1. Init => IInv
  BY InitType DEF Init, IInv, LocksExclusive, WorkIsLocked, ScanIsCovered, CreateIsPending,
                  HistoryIsComplete, NoAckedReviewLost, NoWork
<1>2. IInv /\ [Next]_vars => IInv'
  <2> SUFFICES ASSUME IInv, [Next]_vars PROVE IInv'
    OBVIOUS
  <2>1. TypeOK'
    BY NextType DEF IInv
  <2>2. LocksExclusive' /\ WorkIsLocked' /\ HistoryIsComplete'
    BY LocksStep, WorkStep, HistoryStep
  <2>3. ScanIsCovered' /\ CreateIsPending' /\ NoAckedReviewLost'
    BY <2>1, ScanStep, CreateStep, AckedStep
  <2>4. QED BY <2>1, <2>2, <2>3 DEF IInv
<1>3. QED BY <1>1, <1>2, PTL DEF Spec

(* Every reachable state is well typed: in particular a row always has a   *)
(* body, whatever the payloads leave out.  (models.py 44-51)               *)
THEOREM TypeCorrect == Spec => []TypeOK
  BY Induction, PTL DEF IInv

(* No acknowledged review is ever lost, for any number of concurrent       *)
(* pushes, cards and batches.  (services.py 28-77)                         *)
THEOREM AckedReviewsAreSafe == Spec => []NoAckedReviewLost
  BY Induction, PTL DEF IInv

(* The conflict rows of every card are an ordered chain, each version      *)
(* beaten by the next and by the card, and the revision agrees with their  *)
(* number until a payload brings a revision of its own.                    *)
(* (services.py 50-64)                                                     *)
THEOREM HistoriesAreComplete == Spec => []HistoryIsComplete
  BY Induction, PTL DEF IInv

(* Cards are only ever replaced by a winner that has on record what        *)
(* _snapshot takes of them: their scheduling fields and their clock.       *)
(* (services.py 50-64 and 80-89, models.py 34-37)                          *)
THEOREM OverwritesAreRecorded == Spec => NeverOverwrittenBlindly
<1>1. IInv /\ [Next]_vars =>
        [\A a \in Ayahs : card[a] # NoRow /\ card'[a] # card[a] =>
             /\ card'[a] # NoRow
             /\ IncomingWins(card[a], card'[a])
             /\ Snapshot(card[a]) \in Kept(card'[a])]_vars
  BY CardStep DEF CardAdvances
<1>2. QED BY <1>1, Induction, PTL DEF Spec, NeverOverwrittenBlindly

-----------------------------------------------------------------------------
(* The response.  The counters of a batch are those of the payloads it has *)
(* been through, and its conflicts the versions it has put on record and   *)
(* not committed: nobody else can commit a card it has written.            *)

Merging(r) == pc[r] \in {"scan", "create"}

Unseen(r) == NewConflicts(card, work[r])

PayloadsAreCounted ==
    \A r \in Requests : Merging(r) => tally[r].applied + tally[r].rejected + 1 = pos[r]

ConflictsAreCounted ==
    \A r \in Requests : Merging(r) =>
        IsFiniteSet(Unseen(r)) /\ tally[r].conflicts = Cardinality(Unseen(r))

LogsGrow ==
    \A r \in Requests, a \in Ayahs : work[r][a] # NoRow => Lost(card[a]) <= Lost(work[r][a])

NothingIsLeft == \A r \in Requests : ~Merging(r) => work[r] = NoWork

CountInv == PayloadsAreCounted /\ ConflictsAreCounted /\ LogsGrow /\ NothingIsLeft

LEMMA LostNat == ASSUME NEW row \in Row \cup {NoRow} PROVE Lost(row) \in Nat
  BY DEF Lost, Row

(* A table without more conflicts has no new ones. *)
LEMMA NoNewConflicts ==
    ASSUME NEW old \in [Ayahs -> Row \cup {NoRow}], NEW new \in [Ayahs -> Row \cup {NoRow}],
           \A a \in Ayahs : new[a] = NoRow \/ Lost(new[a]) <= Lost(old[a])
    PROVE  NewConflicts(old, new) = {}
<1>1. ASSUME NEW a \in Ayahs PROVE (Lost(old[a]) + 1)..Lost(new[a]) = {}
  <2>1. Lost(old[a]) \in Nat /\ Lost(new[a]) \in Nat /\ Lost(NoRow) = 0
    BY LostNat DEF Lost
  <2>2. QED BY <2>1
<1>2. QED BY <1>1 DEF NewConflicts

(* The new conflicts depend on no more than the number of versions each    *)
(* card has lost; one more version lost is one more conflict.              *)
LEMMA SameNewConflicts ==
    ASSUME NEW old, NEW new, NEW old2, NEW new2,
           \A a \in Ayahs : (Lost(old[a]) + 1)..Lost(new[a]) = (Lost(old2[a]) + 1)..Lost(new2[a])
    PROVE  NewConflicts(old, new) = NewConflicts(old2, new2)
  BY DEF NewConflicts

LEMMA OneNewConflict ==
    ASSUME NEW old \in [Ayahs -> Row \cup {NoRow}], NEW new \in [Ayahs -> Row \cup {NoRow}],
           NEW new2 \in [Ayahs -> Row \cup {NoRow}], NEW a \in Ayahs,
           \A b \in Ayahs \ {a} : new2[b] = new[b],
           NEW n \in Nat, Lost(old[a]) <= n, Lost(new[a]) = n \/ (new[a] = NoRow /\ Lost(old[a]) = n),
           Lost(new2[a]) = n + 1
    PROVE  /\ NewConflicts(old, new2) = NewConflicts(old, new) \cup {<<a, n + 1>>}
           /\ <<a, n + 1>> \notin NewConflicts(old, new)
<1>1. \A b \in Ayahs : Lost(old[b]) \in Nat /\ Lost(new[b]) \in Nat /\ Lost(new2[b]) \in Nat
  BY LostNat
<1>2. Lost(NoRow) = 0
  BY DEF Lost
<1>3. (Lost(old[a]) + 1)..Lost(new2[a]) = ((Lost(old[a]) + 1)..Lost(new[a])) \cup {n + 1}
  BY <1>1, <1>2
<1>4. n + 1 \notin (Lost(old[a]) + 1)..Lost(new[a])
  BY <1>1, <1>2
<1>5. QED BY <1>3, <1>4 DEF NewConflicts

(* What a request has written, no commit of another changes.               *)
LEMMA OthersCommit ==
    ASSUME IInv, NEW r \in Requests, Receive(r) \/ Step(r) \/ ConnectionLost(r),
           NEW q \in Requests, q # r, NEW a \in Ayahs, work[q][a] # NoRow
    PROVE  card'[a] = card[a]
<1>1. CASE Commit(r)
  <2>1. work[r][a] = NoRow
    BY DEF IInv, LocksExclusive, WorkIsLocked
  <2>2. QED BY <1>1, <2>1 DEF Commit, Seen
<1>2. QED BY <1>1, StepKinds, GrabFacts DEF Frame, Undo, Rollback

LEMMA OthersTally ==
    ASSUME TypeOK, NEW r \in Requests, Receive(r) \/ Step(r) \/ ConnectionLost(r),
           NEW q \in Requests, q # r
    PROVE  tally'[q] = tally[q]
  BY DEF TypeOK, Step, Receive, RejectMalformed, LookupMiss, MergeWin, MergeLose,
         MergeRaises, Create, CreateRaises, Commit, DeadlockVictim, ConnectionLost,
         Finish, Advance, Rollback

(* The counters of the request that moves. *)
LEMMA OwnTally ==
    ASSUME IInv, NEW r \in Requests
    PROVE  /\ Receive(r) => tally'[r] = ZeroTally /\ work' = work
           /\ LookupMiss(r) => tally' = tally /\ work' = work /\ Merging(r)
           /\ RejectMalformed(r) \/ MergeLose(r) =>
                /\ tally'[r].applied = tally[r].applied
                /\ tally'[r].rejected = tally[r].rejected + 1
                /\ tally'[r].conflicts = tally[r].conflicts
                /\ work' = work /\ card' = card
           /\ Create(r) =>
                /\ tally'[r].applied = tally[r].applied + 1
                /\ tally'[r].rejected = tally[r].rejected
                /\ tally'[r].conflicts = tally[r].conflicts
           /\ MergeWin(r) =>
                /\ tally'[r].applied = tally[r].applied + 1
                /\ tally'[r].rejected = tally[r].rejected
                /\ tally'[r].conflicts = tally[r].conflicts + 1
<1>1. tally \in [Requests -> Outcome]
  BY DEF IInv, TypeOK
<1>2. QED
  BY <1>1 DEF Receive, LookupMiss, RejectMalformed, MergeLose, Create, MergeWin, Scanning,
              Merging, Outcome

(* A card that is written has lost its row's versions, and that row. *)
LEMMA GrabLosses ==
    ASSUME IInv, CountInv, NEW r \in Requests, Grab(r),
           NEW a, a = Current(r).ayah
    PROVE  /\ a \in Ayahs /\ card' = card
           /\ \A b \in Ayahs \ {a} : work'[r][b] = work[r][b]
           /\ MergeLose(r) => work' = work
           /\ Create(r) => work[r][a] = NoRow /\ card[a] = NoRow /\ Lost(work'[r][a]) = 0
           /\ MergeWin(r) => Seen(r, a) \in Row /\ Lost(work'[r][a]) = Lost(Seen(r, a)) + 1
<1> DEFINE p == Current(r)
<1>1. p \in Payload /\ WellFormed(p) /\ a \in Ayahs /\ card' = card
  BY GrabFacts
<1>2. work \in [Requests -> [Ayahs -> Row \cup {NoRow}]]
  BY DEF IInv, TypeOK
<1>3. \A b \in Ayahs \ {a} : work'[r][b] = work[r][b]
  BY GrabWrites
<1>4. ASSUME Create(r)
      PROVE  work[r][a] = NoRow /\ card[a] = NoRow /\ Lost(work'[r][a]) = 0
  <2>1. work'[r][a] = Created(p)
    BY <1>1, <1>2, <1>4 DEF Create
  <2>2. Created(p) \in Row
    BY <1>1, <1>4, CreatedRow DEF Create
  <2>3. Lost(work'[r][a]) = 0
    BY <2>1, <2>2, NoRowAssumption DEF Lost, Created
  <2>4. QED BY <1>4, <2>3 DEF Create, IInv, CreateIsPending
<1>5. ASSUME MergeWin(r)
      PROVE  Seen(r, a) \in Row /\ Lost(work'[r][a]) = Lost(Seen(r, a)) + 1
  <2> DEFINE old == IF work[r][a] # NoRow THEN work[r][a] ELSE card[a]
  <2>1. old = Seen(r, a) /\ old \in Row /\ CompleteHistory(old) /\ IncomingWins(old, p)
    BY <1>1, <1>5, SeenGood DEF Seen, MergeWin, LookupHit, Applies
  <2>2. work'[r][a] = Merged(old, p) /\ Merged(old, p) \in Row
    BY <1>1, <1>2, <1>5, <2>1, MergedRow DEF MergeWin
  <2>3. PICK row \in Row : row = old
    BY <2>1
  <2>4. /\ Merged(row, p).lost = Append(row.lost, Snapshot(row))
        /\ row.lost \in Seq(Version) /\ Snapshot(row) \in Version
    BY DEF Merged, Row, Snapshot, Version
  <2>5. Len(Merged(row, p).lost) = Len(row.lost) + 1
    BY <2>4
  <2>6. QED BY <2>1, <2>2, <2>3, <2>5, NoRowAssumption DEF Lost
<1>6. MergeLose(r) => work' = work
  BY DEF MergeLose
<1>7. QED BY <1>1, <1>3, <1>4, <1>5, <1>6

LEMMA GrowStep ==
    ASSUME IInv, IInv', CountInv, [Next]_vars
    PROVE  LogsGrow' /\ NothingIsLeft'
<1> USE DEF CountInv
<1>1. CASE UNCHANGED vars
  BY <1>1 DEF vars, LogsGrow, NothingIsLeft, Merging
<1>2. ASSUME NEW r \in Requests, Receive(r) \/ Step(r) \/ ConnectionLost(r),
             NEW q \in Requests, NEW a \in Ayahs, work'[q][a] # NoRow
      PROVE  Lost(card'[a]) <= Lost(work'[q][a])
  <2>1. CASE q # r
    BY <1>2, <2>1, OthersStay, OthersCommit DEF LogsGrow, IInv
  <2>2. CASE q = r /\ Frame(r)
    BY <1>2, <2>2 DEF Frame, LogsGrow
  <2>3. CASE q = r /\ Grab(r)
    <3>1. CASE a # Current(r).ayah
      BY <1>2, <2>3, <3>1, GrabLosses DEF LogsGrow
    <3>2. CASE a = Current(r).ayah
      <4>1. card' = card /\ card[a] \in Row \cup {NoRow} /\ work[r][a] \in Row \cup {NoRow}
        BY <1>2, <2>3, GrabFacts DEF IInv, TypeOK
      <4>2. Lost(card[a]) \in Nat /\ Lost(work[r][a]) \in Nat /\ Lost(NoRow) = 0
        BY <4>1, LostNat DEF Lost
      <4>3. CASE MergeLose(r)
        BY <1>2, <2>3, <4>1, <4>3 DEF MergeLose, LogsGrow
      <4>4. CASE Create(r)
        BY <2>3, <3>2, <4>1, <4>2, <4>4, GrabLosses
      <4>5. CASE MergeWin(r)
        <5>1. Lost(work'[r][a]) = Lost(Seen(r, a)) + 1
          BY <2>3, <3>2, <4>5, GrabLosses
        <5>2. Lost(card[a]) <= Lost(Seen(r, a)) /\ Lost(Seen(r, a)) \in Nat
          BY <4>2 DEF Seen, LogsGrow
        <5>3. QED BY <2>3, <4>1, <4>2, <5>1, <5>2
      <4>6. QED BY <2>3, <4>3, <4>4, <4>5 DEF Grab
    <3>3. QED BY <3>1, <3>2
  <2>4. CASE q = r /\ (Undo(r) \/ Commit(r))
    BY <1>2, <2>4 DEF Undo, Rollback, Commit, NoWork, IInv, TypeOK
  <2>5. QED BY <1>2, <2>1, <2>2, <2>3, <2>4, StepKinds
<1>3. ASSUME NEW r \in Requests, Receive(r) \/ Step(r) \/ ConnectionLost(r),
             NEW q \in Requests, ~Merging(q)'
      PROVE  work'[q] = NoWork
  <2>1. CASE q # r
    BY <1>3, <2>1, OthersStay DEF Merging, NothingIsLeft, IInv
  <2>2. CASE q = r /\ (Receive(r) \/ RejectMalformed(r) \/ LookupMiss(r) \/ Finish(r))
    <3>1. ~Receive(r) /\ ~RejectMalformed(r) /\ ~LookupMiss(r)
      BY <1>3, <2>2 DEF Receive, RejectMalformed, LookupMiss, Scanning, Merging, IInv, TypeOK
    <3>2. QED BY <2>2, <3>1 DEF Finish, Merging, NothingIsLeft
  <2>3. CASE q = r /\ Grab(r)
    BY <1>3, <2>3 DEF Grab, MergeWin, MergeLose, Create, LookupHit, Scanning, Merging, IInv, TypeOK
  <2>4. CASE q = r /\ (Undo(r) \/ Commit(r))
    BY <2>4 DEF Undo, Rollback, Commit, IInv, TypeOK
  <2>5. MergeRaises(r) \/ CreateRaises(r) \/ DeadlockVictim(r) \/ ConnectionLost(r) => Undo(r)
    BY DEF MergeRaises, CreateRaises, DeadlockVictim, ConnectionLost, Undo, Causes
  <2>6. QED BY <1>3, <2>1, <2>2, <2>3, <2>4, <2>5 DEF Step, Grab
<1>4. QED BY <1>1, <1>2, <1>3 DEF Next, LogsGrow, NothingIsLeft

(* The steps after which a request is still merging. *)
LEMMA StillMerging ==
    ASSUME IInv, NEW r \in Requests, Receive(r) \/ Step(r) \/ ConnectionLost(r), Merging(r)'
    PROVE  \/ Receive(r) \/ LookupMiss(r) \/ RejectMalformed(r) \/ MergeLose(r)
           \/ Create(r) \/ MergeWin(r)
<1>1. CASE Undo(r) \/ Commit(r) \/ Finish(r)
  BY <1>1 DEF Undo, Rollback, Commit, Finish, Merging, IInv, TypeOK
<1>2. MergeRaises(r) \/ CreateRaises(r) \/ DeadlockVictim(r) \/ ConnectionLost(r) => Undo(r)
  BY DEF MergeRaises, CreateRaises, DeadlockVictim, ConnectionLost, Undo, Causes
<1>3. QED BY <1>1, <1>2 DEF Step

LEMMA CountStep ==
    ASSUME IInv, IInv', CountInv, [Next]_vars
    PROVE  PayloadsAreCounted' /\ ConflictsAreCounted'
<1> USE DEF CountInv
<1>1. CASE UNCHANGED vars
  BY <1>1 DEF vars, PayloadsAreCounted, ConflictsAreCounted, Merging, Unseen, NewConflicts
<1>2. ASSUME NEW r \in Requests, Receive(r) \/ Step(r) \/ ConnectionLost(r),
             NEW q \in Requests, Merging(q)'
      PROVE  /\ tally'[q].applied + tally'[q].rejected + 1 = pos'[q]
             /\ IsFiniteSet(Unseen(q)') /\ tally'[q].conflicts = Cardinality(Unseen(q)')
  <2>0. /\ card \in [Ayahs -> Row \cup {NoRow}] /\ card' \in [Ayahs -> Row \cup {NoRow}]
        /\ work[q] \in [Ayahs -> Row \cup {NoRow}] /\ work'[q] \in [Ayahs -> Row \cup {NoRow}]
        /\ Unseen(q)' = NewConflicts(card', work'[q])
    BY DEF IInv, TypeOK, Unseen
  <2>1. CASE q # r
    <3>1. Merging(q) /\ pos'[q] = pos[q] /\ tally'[q] = tally[q] /\ work'[q] = work[q]
      BY <1>2, <2>1, OthersStay, OthersTally DEF Merging, IInv
    <3>2. \A a \in Ayahs : (Lost(card[a]) + 1)..Lost(work[q][a])
                              = (Lost(card'[a]) + 1)..Lost(work'[q][a])
      <4>1. ASSUME NEW a \in Ayahs, work[q][a] = NoRow
            PROVE  (Lost(card[a]) + 1)..Lost(work[q][a]) = (Lost(card'[a]) + 1)..Lost(work'[q][a])
        <5>1. Lost(card[a]) \in Nat /\ Lost(card'[a]) \in Nat /\ Lost(work[q][a]) = 0
          BY <2>0, <4>1, LostNat DEF Lost
        <5>2. QED BY <3>1, <5>1
      <4>2. ASSUME NEW a \in Ayahs, work[q][a] # NoRow PROVE card'[a] = card[a]
        BY <1>2, <2>1, <4>2, OthersCommit
      <4>3. QED BY <3>1, <4>1, <4>2
    <3>3. Unseen(q)' = Unseen(q)
      BY <2>0, <3>2, SameNewConflicts DEF Unseen
    <3>4. QED BY <3>1, <3>3 DEF PayloadsAreCounted, ConflictsAreCounted
  <2>2. CASE q = r
    <3> DEFINE a == Current(r).ayah
    <3>0. pos[r] \in Nat /\ tally[r] \in Outcome
      BY DEF IInv, TypeOK
    <3>1. CASE Receive(r)
      <4>1. work'[r] = NoWork /\ tally'[r] = ZeroTally /\ pos'[r] = 1
        BY <3>1, OwnTally DEF Receive, NothingIsLeft, Merging, IInv, TypeOK
      <4>2. \A b \in Ayahs : work'[r][b] = NoRow
        BY <4>1 DEF NoWork
      <4>3. NewConflicts(card', work'[r]) = {}
        BY <2>0, <2>2, <4>2, NoNewConflicts
      <4>4. QED BY <2>0, <2>2, <4>1, <4>3, FS_EmptySet DEF ZeroTally
    <3>2. CASE LookupMiss(r)
      BY <2>0, <2>2, <3>2, OwnTally
         DEF LookupMiss, PayloadsAreCounted, ConflictsAreCounted, Unseen
    <3>3. CASE RejectMalformed(r) \/ MergeLose(r)
      <4>1. Merging(r) /\ pos'[r] = pos[r] + 1
        BY <3>3, GrabFacts DEF RejectMalformed, MergeLose, LookupHit, Scanning, Merging, Grab,
                               Advance, IInv, TypeOK
      <4>2. /\ tally'[r].applied = tally[r].applied
            /\ tally'[r].rejected = tally[r].rejected + 1
            /\ tally'[r].conflicts = tally[r].conflicts
            /\ work' = work /\ card' = card
        BY <3>3, OwnTally
      <4>3. QED BY <2>0, <2>2, <3>0, <4>1, <4>2
                DEF PayloadsAreCounted, ConflictsAreCounted, Unseen, Outcome
    <3>4. CASE Create(r)
      <4>1. Merging(r) /\ pos'[r] = pos[r] + 1
        BY <3>4 DEF Create, Merging, Advance, IInv, TypeOK
      <4>2. /\ tally'[r].applied = tally[r].applied + 1
            /\ tally'[r].rejected = tally[r].rejected
            /\ tally'[r].conflicts = tally[r].conflicts
        BY <3>4, OwnTally
      <4>3. /\ a \in Ayahs /\ card' = card /\ \A b \in Ayahs \ {a} : work'[r][b] = work[r][b]
            /\ Lost(work[r][a]) = 0 /\ Lost(work'[r][a]) = 0
        BY <3>4, GrabLosses DEF Grab, Lost
      <4>4. \A b \in Ayahs : (Lost(card[b]) + 1)..Lost(work[r][b])
                                = (Lost(card'[b]) + 1)..Lost(work'[r][b])
        BY <4>3
      <4>5. Unseen(r)' = Unseen(r)
        BY <2>0, <2>2, <4>4, SameNewConflicts DEF Unseen
      <4>6. QED BY <2>2, <3>0, <4>1, <4>2, <4>5
                DEF PayloadsAreCounted, ConflictsAreCounted, Outcome
    <3>5. CASE MergeWin(r)
      <4>0. PICK n \in Nat : n = Lost(Seen(r, a))
        BY <3>5, GrabLosses, LostNat DEF Grab
      <4>1. Merging(r) /\ pos'[r] = pos[r] + 1
        BY <3>5 DEF MergeWin, LookupHit, Scanning, Merging, Advance, IInv, TypeOK
      <4>2. /\ tally'[r].applied = tally[r].applied + 1
            /\ tally'[r].rejected = tally[r].rejected
            /\ tally'[r].conflicts = tally[r].conflicts + 1
        BY <3>5, OwnTally
      <4>3. /\ a \in Ayahs /\ card' = card /\ \A b \in Ayahs \ {a} : work'[r][b] = work[r][b]
            /\ Lost(work'[r][a]) = n + 1
        BY <3>5, <4>0, GrabLosses DEF Grab
      <4>4. Lost(card[a]) <= n
        BY <2>0, <4>0, <4>3 DEF Seen, LogsGrow
      <4>5. Lost(work[r][a]) = n \/ (work[r][a] = NoRow /\ Lost(card[a]) = n)
        BY <4>0 DEF Seen
      <4> HIDE DEF a
      <4>6. /\ Unseen(r)' = Unseen(r) \cup {<<a, n + 1>>} /\ <<a, n + 1>> \notin Unseen(r)
        <5> DEFINE old == card
                   new == work[r]
                   new2 == work'[r]
        <5>1. /\ old \in [Ayahs -> Row \cup {NoRow}] /\ new \in [Ayahs -> Row \cup {NoRow}]
              /\ new2 \in [Ayahs -> Row \cup {NoRow}]
          BY <2>0, <2>2
        <5>2. /\ \A b \in Ayahs \ {a} : new2[b] = new[b]
              /\ Lost(old[a]) <= n /\ Lost(new2[a]) = n + 1
              /\ Lost(new[a]) = n \/ (new[a] = NoRow /\ Lost(old[a]) = n)
          BY <4>3, <4>4, <4>5
        <5>3. Unseen(r)' = NewConflicts(old, new2) /\ Unseen(r) = NewConflicts(old, new)
          BY <2>0, <2>2, <4>3 DEF Unseen
        <5> HIDE DEF old, new, new2
        <5>4. /\ NewConflicts(old, new2) = NewConflicts(old, new) \cup {<<a, n + 1>>}
              /\ <<a, n + 1>> \notin NewConflicts(old, new)
          BY <4>3, <5>1, <5>2, OneNewConflict
        <5>5. QED BY <5>3, <5>4
      <4>7. IsFiniteSet(Unseen(r)) /\ tally[r].conflicts = Cardinality(Unseen(r))
        BY <4>1 DEF ConflictsAreCounted
      <4>8. IsFiniteSet(Unseen(r)') /\ Cardinality(Unseen(r)') = Cardinality(Unseen(r)) + 1
        BY <4>6, <4>7, FS_AddElement
      <4>9. QED BY <2>2, <3>0, <4>1, <4>2, <4>7, <4>8 DEF PayloadsAreCounted, Outcome
    <3>6. \/ Receive(r) \/ LookupMiss(r) \/ RejectMalformed(r) \/ MergeLose(r)
          \/ Create(r) \/ MergeWin(r)
      BY <1>2, <2>2, StillMerging
    <3>7. QED BY <3>1, <3>2, <3>3, <3>4, <3>5, <3>6
  <2>3. QED BY <2>1, <2>2
<1>3. QED BY <1>1, <1>2 DEF Next, PayloadsAreCounted, ConflictsAreCounted

LEMMA CountInvariance == Spec => []CountInv
<1>1. Init => CountInv
  BY DEF Init, CountInv, PayloadsAreCounted, ConflictsAreCounted, LogsGrow, NothingIsLeft,
         Merging, NoWork
<1>2. IInv /\ IInv' /\ CountInv /\ [Next]_vars => CountInv'
  BY GrowStep, CountStep DEF CountInv
<1>3. QED BY <1>1, <1>2, Induction, PTL DEF Spec

(* A step in which a request is through is its commit. *)
LEMMA OnlyCommitCommits ==
    ASSUME IInv, [Next]_vars, NEW r \in Requests, pc[r] = "scan", pc'[r] = "committed"
    PROVE  Commit(r) /\ pos[r] = Len(batch[r]) + 1
<1>1. PICK q \in Requests : Receive(q) \/ Step(q) \/ ConnectionLost(q)
  BY DEF Next, vars
<1>2. q = r
  BY <1>1, OthersStay DEF IInv
<1>3. Commit(r)
  BY <1>1, <1>2
     DEF Step, Receive, RejectMalformed, LookupMiss, MergeWin, MergeLose, MergeRaises, Create,
         CreateRaises, DeadlockVictim, ConnectionLost, Finish, Rollback, LookupHit, Scanning,
         IInv, TypeOK
<1>4. QED BY <1>3 DEF Commit, IInv, ScanIsCovered, TypeOK

(* The response of a push counts each payload once and reports exactly the *)
(* versions its commit has put on record, for any number of concurrent     *)
(* pushes.  (services.py 29, 35-37, 51-68)                                 *)
THEOREM ResponsesAreTruthful == Spec => ResponseIsTruthful
<1> DEFINE Truth == \A r \in Requests : pc[r] = "scan" /\ pc'[r] = "committed" =>
             /\ tally[r].applied + tally[r].rejected = Len(batch[r])
             /\ tally[r].conflicts = Cardinality(NewConflicts(card, card'))
<1>1. ASSUME IInv, IInv', CountInv, [Next]_vars PROVE Truth
  <2> SUFFICES ASSUME NEW r \in Requests, pc[r] = "scan", pc'[r] = "committed"
               PROVE  /\ tally[r].applied + tally[r].rejected = Len(batch[r])
                      /\ tally[r].conflicts = Cardinality(NewConflicts(card, card'))
    OBVIOUS
  <2>1. Commit(r) /\ pos[r] = Len(batch[r]) + 1
    BY <1>1, OnlyCommitCommits
  <2>2. tally[r].applied + tally[r].rejected = Len(batch[r])
    <3>1. Len(batch[r]) \in Nat /\ tally[r].applied \in Nat /\ tally[r].rejected \in Nat
      BY <1>1 DEF IInv, TypeOK, Outcome
    <3>2. QED BY <1>1, <2>1, <3>1 DEF CountInv, PayloadsAreCounted, Merging
  <2>3. NewConflicts(card, card') = Unseen(r)
    <3>1. ASSUME NEW a \in Ayahs
          PROVE  (Lost(card[a]) + 1)..Lost(card'[a]) = (Lost(card[a]) + 1)..Lost(work[r][a])
      <4>1. Lost(card[a]) \in Nat /\ Lost(NoRow) = 0
        BY <1>1, LostNat DEF IInv, TypeOK, Lost
      <4>2. QED BY <2>1, <4>1 DEF Commit, Seen
    <3>2. QED BY <3>1, SameNewConflicts DEF Unseen
  <2>4. QED BY <1>1, <2>2, <2>3 DEF CountInv, ConflictsAreCounted, Merging
<1>2. IInv /\ IInv' /\ CountInv /\ [Next]_vars => [Truth]_vars
  BY <1>1
<1>3. QED BY <1>2, Induction, CountInvariance, PTL DEF Spec, ResponseIsTruthful

-----------------------------------------------------------------------------
(* Serializability.  The tables between the payloads of a batch can be     *)
(* told from its locks: what it has been through it has locked, so at any  *)
(* moment they are those of a merge that began at the committed table.     *)

Tables == [Ayahs -> Row \cup {NoRow}]

(* The tables a merge of the first n payloads of b goes through. *)
Merge(after, table, b, n) ==
    /\ after[0] = table
    /\ \A i \in 1..n : after[i] = MergedTable(after[i - 1], b[i])

(* Numbers are well-founded. *)
LEMMA LeastElement ==
    ASSUME NEW S \in SUBSET Nat, S # {}
    PROVE  \E m \in S : \A n \in S : m <= n
<1>1. PICK m \in S : \A n \in S : ~(<<n, m>> \in OpToRel(<, Nat))
  BY NatLessThanWellFounded, WFMin DEF OpToRel
<1>2. \A n \in S : ~(n < m)
  BY <1>1 DEF OpToRel
<1>3. QED BY <1>2

(* A merge has one outcome. *)
LEMMA MergeIsUnique ==
    ASSUME NEW after, NEW after2, NEW table, NEW b, NEW n \in Nat,
           Merge(after, table, b, n), Merge(after2, table, b, n)
    PROVE  after[n] = after2[n]
<1> DEFINE D == {i \in 0..n : after[i] # after2[i]}
<1>1. SUFFICES ASSUME D # {} PROVE FALSE
  OBVIOUS
<1>2. PICK m \in D : \A i \in D : m <= i
  <2>1. D \in SUBSET Nat
    OBVIOUS
  <2> HIDE DEF D
  <2>2. QED BY <1>1, <2>1, LeastElement
<1>3. m # 0 /\ m \in 1..n /\ m - 1 \in 0..n
  BY <1>2 DEF Merge
<1>4. after[m - 1] = after2[m - 1]
  BY <1>2, <1>3
<1>5. QED BY <1>2, <1>3, <1>4 DEF Merge

(* A merge of payloads that change nothing ends where it began. *)
LEMMA MergeKeeps ==
    ASSUME NEW n \in Nat, NEW after, NEW table, NEW b, Merge(after, table, b, n),
           \A i \in 1..n : MergedTable(table, b[i]) = table
    PROVE  after[n] = table
<1> DEFINE same == [i \in 0..n |-> table]
<1>1. same[n] = table /\ Merge(same, table, b, n)
  BY DEF Merge
<1> HIDE DEF same
<1>2. QED BY <1>1, MergeIsUnique

(* What a merge ends with is what the batch makes of the table. *)
LEMMA MergeGivesBatch ==
    ASSUME NEW table, NEW b, Len(b) \in Nat, NEW after, DOMAIN after = 0..Len(b),
           after = [i \in DOMAIN after |-> after[i]], Merge(after, table, b, Len(b))
    PROVE  MergedBatch(table, b) = after[Len(b)]
<1> DEFINE Step1(f) == [i \in 0..Len(b) |-> IF i = 0 THEN table ELSE MergedTable(f[i - 1], b[i])]
           g == CHOOSE f : f = Step1(f)
<1>1. after = Step1(after)
  BY DEF Merge
<1>2. g = Step1(g)
  BY <1>1
<1>3. Merge(g, table, b, Len(b))
  BY <1>2 DEF Merge
<1>4. MergedBatch(table, b) = g[Len(b)]
  BY DEF MergedBatch
<1> HIDE DEF g
<1>5. QED BY <1>3, <1>4, MergeIsUnique

(* The table as a transaction sees it. *)
View(r) == [a \in Ayahs |-> Seen(r, a)]

SerialSoFar ==
    \A r \in Requests : Merging(r) =>
        \E after \in [0..(pos[r] - 1) -> Tables] :
            Merge(after, card, batch[r], pos[r] - 1) /\ after[pos[r] - 1] = View(r)

ScannedIsLocked ==
    \A r \in Requests : Merging(r) =>
        \A i \in 1..(pos[r] - 1) : WellFormed(batch[r][i]) => batch[r][i].ayah \in locked[r]

SerialInv == SerialSoFar /\ ScannedIsLocked

(* What a transaction has locked, no commit of another changes. *)
LEMMA LockedStays ==
    ASSUME IInv, NEW r \in Requests, Receive(r) \/ Step(r) \/ ConnectionLost(r),
           NEW q \in Requests, q # r, NEW a \in locked[q]
    PROVE  card'[a] = card[a] /\ a \in locked'[q]
<1>1. a \in Ayahs
  BY DEF IInv, TypeOK
<1>2. CASE Commit(r)
  <2>1. work[r][a] = NoRow
    BY <1>1 DEF IInv, LocksExclusive, WorkIsLocked
  <2>2. QED BY <1>1, <1>2, <2>1 DEF Commit, Seen, IInv, TypeOK
<1>3. CASE Frame(r)
  BY <1>3 DEF Frame
<1>4. CASE Grab(r)
  BY <1>4, GrabFacts DEF IInv, TypeOK
<1>5. CASE Undo(r)
  BY <1>5 DEF Undo, Rollback, IInv, TypeOK
<1>6. QED BY <1>2, <1>3, <1>4, <1>5, StepKinds

LEMMA ViewIsTable == ASSUME TypeOK, NEW r \in Requests PROVE View(r) \in Tables
  BY SeenRow DEF View, Tables

(* A request does one payload of its batch as if alone. *)
LEMMA PayloadInTurn ==
    ASSUME IInv, IInv', NEW r \in Requests, RejectMalformed(r) \/ Grab(r)
    PROVE  /\ card' = card /\ batch' = batch /\ pos'[r] = pos[r] + 1 /\ Merging(r)
           /\ pos[r] <= Len(batch[r])
           /\ View(r)' = MergedTable(View(r), Current(r))
           /\ WellFormed(Current(r)) => Current(r).ayah \in locked'[r]
           /\ locked[r] \subseteq locked'[r]
<1> DEFINE p == Current(r)
           a == p.ayah
<1>1. /\ card' = card /\ batch' = batch /\ pos'[r] = pos[r] + 1 /\ Merging(r)
      /\ pos[r] <= Len(batch[r])
      /\ WellFormed(p) => a \in locked'[r]
      /\ locked[r] \subseteq locked'[r]
  <2>1. CASE RejectMalformed(r)
    BY <2>1 DEF RejectMalformed, Scanning, Merging, IInv, TypeOK
  <2>2. CASE Grab(r)
    <3>1. Merging(r)
      BY <2>2 DEF Grab, MergeWin, MergeLose, Create, LookupHit, Scanning, Merging
    <3>2. QED BY <2>2, <3>1, GrabFacts DEF IInv, TypeOK
  <2>3. QED BY <2>1, <2>2
<1>2. ASSUME NEW b \in Ayahs
      PROVE  Seen(r, b)' = IF WellFormed(p) /\ b = a THEN MergedCard(Seen(r, b), p)
                           ELSE Seen(r, b)
  <2>1. CASE RejectMalformed(r)
    BY <2>1 DEF RejectMalformed, Seen
  <2>2. CASE Grab(r) /\ b # a
    <3>1. work'[r][b] = work[r][b]
      BY <2>2, GrabWrites
    <3>2. QED BY <1>1, <2>2, <3>1 DEF Seen
  <2>3. CASE Grab(r) /\ b = a
    <3>1. WellFormed(p) /\ work \in [Requests -> [Ayahs -> Row \cup {NoRow}]] /\ p \in Payload
      BY <2>3, GrabFacts DEF IInv, TypeOK
    <3>2. CASE MergeLose(r)
      BY <1>1, <2>3, <3>1, <3>2 DEF MergeLose, LookupHit, Applies, MergedCard, Seen
    <3>3. CASE Create(r)
      <4>1. Seen(r, a) = NoRow
        BY <3>3 DEF Create, Seen, IInv, CreateIsPending
      <4>2. work'[r][a] = Created(p) /\ Created(p) # NoRow
        BY <2>3, <3>1, <3>3, CreatedRow, NoRowAssumption DEF Create
      <4>3. QED BY <2>3, <3>1, <4>1, <4>2 DEF Seen, MergedCard
    <3>4. CASE MergeWin(r)
      <4> DEFINE old == IF work[r][a] # NoRow THEN work[r][a] ELSE card[a]
      <4>1. old = Seen(r, a) /\ old \in Row /\ CompleteHistory(old) /\ IncomingWins(old, p)
        BY <2>3, <3>4, SeenGood DEF Seen, MergeWin, LookupHit, Applies
      <4>2. work'[r][a] = Merged(old, p) /\ Merged(old, p) # NoRow
        BY <2>3, <3>1, <3>4, <4>1, MergedRow, NoRowAssumption DEF MergeWin
      <4>3. QED BY <2>3, <3>1, <4>1, <4>2, NoRowAssumption DEF Seen, MergedCard
    <3>5. QED BY <2>3, <3>2, <3>3, <3>4 DEF Grab
  <2>4. QED BY <2>1, <2>2, <2>3
<1>3. QED BY <1>1, <1>2 DEF View, MergedTable

(* The payloads behind a request stay in locked cards. *)
LEMMA LockedStep ==
    ASSUME IInv, IInv', ScannedIsLocked, [Next]_vars
    PROVE  ScannedIsLocked'
<1>1. CASE UNCHANGED vars
  BY <1>1 DEF vars, ScannedIsLocked, Merging
<1>2. ASSUME NEW r \in Requests, Receive(r) \/ Step(r) \/ ConnectionLost(r),
             NEW q \in Requests, Merging(q)'
      PROVE  \A i \in 1..(pos'[q] - 1) :
               WellFormed(batch'[q][i]) => batch'[q][i].ayah \in locked'[q]
  <2>1. CASE q # r
    <3>1. Merging(q) /\ batch'[q] = batch[q] /\ pos'[q] = pos[q]
      BY <1>2, <2>1, OthersStay DEF Merging, IInv
    <3>2. QED BY <1>2, <2>1, <3>1, LockedStays DEF ScannedIsLocked
  <2>2. CASE q = r /\ Receive(r)
    BY <2>2 DEF Receive, IInv, TypeOK
  <2>3. CASE q = r /\ LookupMiss(r)
    BY <2>3 DEF LookupMiss, Scanning, Merging, ScannedIsLocked
  <2>4. CASE q = r /\ (RejectMalformed(r) \/ Grab(r))
    <3>1. /\ batch' = batch /\ pos'[r] = pos[r] + 1 /\ Merging(r) /\ locked[r] \subseteq locked'[r]
          /\ WellFormed(batch[r][pos[r]]) => batch[r][pos[r]].ayah \in locked'[r]
      BY <1>2, <2>4, PayloadInTurn DEF Current
    <3>2. pos[r] \in Nat \ {0}
      BY DEF IInv, TypeOK
    <3>3. ASSUME NEW i \in 1..(pos'[r] - 1), WellFormed(batch'[r][i])
          PROVE  batch'[r][i].ayah \in locked'[r]
      <4>1. i \in 1..(pos[r] - 1) \/ i = pos[r]
        BY <3>1, <3>2
      <4>2. QED BY <3>1, <3>3, <4>1 DEF ScannedIsLocked
    <3>4. QED BY <2>4, <3>3
  <2>5. QED BY <1>2, <2>1, <2>2, <2>3, <2>4, StillMerging DEF Grab
<1>3. QED BY <1>1, <1>2 DEF Next, ScannedIsLocked

(* The tables of a merge begun anew at table2: those of the old one on L,   *)
(* table2 elsewhere.                                                       *)
Rebased(after, table2, n, L) ==
    [i \in 0..n |-> [a \in Ayahs |-> IF a \in L THEN after[i][a] ELSE table2[a]]]

AgreeOn(L, table, table2) == \A a \in L : table2[a] = table[a]

FirstAreIn(L, b, n) == \A i \in 1..n : WellFormed(b[i]) => b[i].ayah \in L

(* A merge can be begun anew at a table that agrees on the locked cards.   *)
LEMMA MergeMoves ==
    ASSUME NEW n \in Nat, NEW after \in [0..n -> Tables], NEW table \in Tables,
           NEW table2 \in Tables, NEW b \in Seq(Payload), n <= Len(b),
           Merge(after, table, b, n), NEW L \in SUBSET Ayahs,
           AgreeOn(L, table, table2), FirstAreIn(L, b, n)
    PROVE  /\ Rebased(after, table2, n, L) \in [0..n -> Tables]
           /\ Merge(Rebased(after, table2, n, L), table2, b, n)
<1> DEFINE after2 == Rebased(after, table2, n, L)
<1>1. after2 \in [0..n -> Tables]
  BY DEF Tables, Rebased
<1>2. after2[0] = table2
  BY DEF Merge, Tables, Rebased, AgreeOn
<1>3. ASSUME NEW i \in 1..n PROVE after2[i] = MergedTable(after2[i - 1], b[i])
  <2>1. i \in 0..n /\ i - 1 \in 0..n
    OBVIOUS
  <2>2. after[i] = MergedTable(after[i - 1], b[i])
    BY DEF Merge
  <2>3. ASSUME NEW a \in Ayahs PROVE after2[i][a] = MergedTable(after2[i - 1], b[i])[a]
    <3>1. CASE WellFormed(b[i]) /\ a = b[i].ayah
      BY <2>1, <2>2, <3>1 DEF MergedTable, Rebased, FirstAreIn
    <3>2. CASE ~(WellFormed(b[i]) /\ a = b[i].ayah)
      BY <2>1, <2>2, <3>2 DEF MergedTable, Rebased
    <3>3. QED BY <3>1, <3>2
  <2>4. QED BY <1>1, <2>1, <2>3 DEF MergedTable, Tables
<1> HIDE DEF after2
<1>4. Merge(after2, table2, b, n)
  BY <1>2, <1>3 DEF Merge
<1>5. QED BY <1>1, <1>4 DEF after2

(* A merge goes on by one payload. *)
LEMMA MergeGrows ==
    ASSUME NEW n \in Nat, NEW after \in [0..n -> Tables], NEW table \in Tables,
           NEW b \in Seq(Payload), NEW next \in Tables,
           Merge(after, table, b, n), next = MergedTable(after[n], b[n + 1])
    PROVE  \E after2 \in [0..(n + 1) -> Tables] :
             Merge(after2, table, b, n + 1) /\ after2[n + 1] = next
<1> DEFINE after2 == [i \in 0..(n + 1) |-> IF i = n + 1 THEN next ELSE after[i]]
<1>1. after2 \in [0..(n + 1) -> Tables]
  OBVIOUS
<1>2. after2[0] = table /\ after2[n + 1] = next
  BY DEF Merge
<1>3. ASSUME NEW i \in 1..(n + 1) PROVE after2[i] = MergedTable(after2[i - 1], b[i])
  <2>1. CASE i = n + 1
    BY <2>1
  <2>2. CASE i # n + 1
    <3>1. i \in 1..n /\ after2[i] = after[i] /\ after2[i - 1] = after[i - 1]
      BY <2>2
    <3>2. QED BY <3>1 DEF Merge
  <2>3. QED BY <2>1, <2>2
<1>4. QED BY <1>1, <1>2, <1>3 DEF Merge

LEMMA SerialStep ==
    ASSUME IInv, IInv', CountInv, SerialInv, [Next]_vars
    PROVE  SerialSoFar'
<1> USE DEF SerialInv
<1>1. CASE UNCHANGED vars
  <2>1. \A r \in Requests : View(r)' = View(r)
    BY <1>1 DEF vars, View, Seen
  <2>2. QED BY <1>1, <2>1 DEF vars, SerialSoFar, Merging
<1>2. ASSUME NEW r \in Requests, Receive(r) \/ Step(r) \/ ConnectionLost(r),
             NEW q \in Requests, Merging(q)'
      PROVE  \E after \in [0..(pos'[q] - 1) -> Tables] :
               Merge(after, card', batch'[q], pos'[q] - 1) /\ after[pos'[q] - 1] = View(q)'
  <2>0. /\ card \in Tables /\ card' \in Tables /\ View(q) \in Tables /\ View(q)' \in Tables
        /\ pos[q] \in Nat \ {0} /\ batch[q] \in Seq(Payload) /\ locked[q] \in SUBSET Ayahs
    <3>1. TypeOK /\ TypeOK'
      BY DEF IInv
    <3>2. View(q) \in Tables
      BY <3>1, ViewIsTable
    <3>3. View(q)' \in Tables
      BY <3>1 DEF TypeOK, View, Seen, Tables
    <3>4. QED BY <3>1, <3>2, <3>3 DEF TypeOK, Tables
  <2>1. CASE q # r
    <3>1. Merging(q) /\ batch'[q] = batch[q] /\ pos'[q] = pos[q] /\ work'[q] = work[q]
      BY <1>2, <2>1, OthersStay DEF Merging, IInv
    <3>2. PICK after \in [0..(pos[q] - 1) -> Tables] :
            Merge(after, card, batch[q], pos[q] - 1) /\ after[pos[q] - 1] = View(q)
      BY <3>1 DEF SerialSoFar
    <3> DEFINE n == pos[q] - 1
               b == batch[q]
               L == locked[q]
               old == card
               new == card'
    <3>3. n \in Nat /\ n <= Len(b)
      BY <2>0, <3>1 DEF IInv, ScanIsCovered, Merging
    <3>4. /\ \A a \in L : new[a] = old[a]
          /\ \A i \in 1..n : WellFormed(b[i]) => b[i].ayah \in L
      BY <1>2, <2>1, <3>1, LockedStays DEF ScannedIsLocked
    <3>5. /\ old \in Tables /\ new \in Tables /\ b \in Seq(Payload) /\ L \in SUBSET Ayahs
          /\ after \in [0..n -> Tables] /\ Merge(after, old, b, n)
      BY <2>0, <3>2
    <3>6. \A a \in Ayahs : View(q)'[a] = IF a \in L THEN View(q)[a] ELSE new[a]
      <4>1. \A a \in Ayahs \ L : work[q][a] = NoRow
        BY DEF IInv, WorkIsLocked
      <4>2. QED BY <3>1, <3>4, <4>1 DEF View, Seen
    <3>7. after[n] = View(q) /\ pos'[q] - 1 = n /\ batch'[q] = b
      BY <3>1, <3>2
    <3> HIDE DEF n, b, L, old, new
    <3> DEFINE after2 == Rebased(after, new, n, L)
    <3>8. after2 \in [0..n -> Tables] /\ Merge(after2, new, b, n)
      <4>1. AgreeOn(L, old, new) /\ FirstAreIn(L, b, n)
        BY <3>4 DEF AgreeOn, FirstAreIn
      <4>2. QED BY <3>3, <3>5, <4>1, MergeMoves
    <3>9. after2[n] = View(q)'
      <4>1. \A a \in Ayahs : after2[n][a] = IF a \in L THEN after[n][a] ELSE new[a]
        BY <3>3 DEF Rebased
      <4>2. after2[n] \in Tables
        BY <3>3, <3>8
      <4>3. \A a \in Ayahs : after2[n][a] = View(q)'[a]
        BY <3>6, <3>7, <4>1
      <4>4. QED BY <2>0, <4>2, <4>3 DEF Tables
    <3> HIDE DEF after2
    <3>10. Merge(after2, card', batch'[q], n)
      BY <3>7, <3>8 DEF new
    <3>11. QED BY <3>7, <3>8, <3>9, <3>10
  <2>2. CASE q = r /\ Receive(r)
    <3>1. pos'[r] = 1 /\ work' = work /\ work[r] = NoWork /\ card' = card
      BY <2>2 DEF Receive, CountInv, NothingIsLeft, Merging, IInv, TypeOK
    <3>2. View(r)' = card'
      BY <2>0, <3>1 DEF View, Seen, NoWork, Tables
    <3> DEFINE after == [i \in 0..0 |-> card']
    <3>3. after \in [0..0 -> Tables] /\ Merge(after, card', batch'[r], 0) /\ after[0] = View(r)'
      BY <2>0, <3>2 DEF Merge
    <3>4. pos'[r] - 1 = 0
      BY <3>1
    <3>5. QED BY <2>2, <3>3, <3>4
  <2>3. CASE q = r /\ LookupMiss(r)
    <3>1. View(r)' = View(r)
      BY <2>3 DEF LookupMiss, View, Seen
    <3>2. QED BY <2>3, <3>1 DEF LookupMiss, Scanning, Merging, SerialSoFar
  <2>4. CASE q = r /\ (RejectMalformed(r) \/ Grab(r))
    <3>1. /\ card' = card /\ batch' = batch /\ pos'[r] = pos[r] + 1 /\ Merging(r)
          /\ View(r)' = MergedTable(View(r), batch[r][pos[r]])
      BY <1>2, <2>4, PayloadInTurn DEF Current
    <3>2. PICK after \in [0..(pos[r] - 1) -> Tables] :
            Merge(after, card, batch[r], pos[r] - 1) /\ after[pos[r] - 1] = View(r)
      BY <3>1 DEF SerialSoFar
    <3>3. pos[r] - 1 \in Nat /\ pos[r] - 1 + 1 = pos[r] /\ pos'[r] - 1 = pos[r]
      BY <2>0, <2>4, <3>1
    <3> DEFINE n == pos[r] - 1
               b == batch[r]
               old == card
               next == View(r)'
    <3>4. /\ next \in Tables /\ after \in [0..n -> Tables] /\ n \in Nat
          /\ old \in Tables /\ b \in Seq(Payload)
      BY <2>0, <2>4, <3>2, <3>3
    <3>5. Merge(after, old, b, n) /\ next = MergedTable(after[n], b[n + 1])
      BY <3>1, <3>2, <3>3
    <3>6. pos'[r] - 1 = n + 1 /\ batch'[r] = b
      BY <3>1, <3>3
    <3> HIDE DEF n, b, old, next
    <3>7. PICK x \in Tables, t \in Tables, m \in Nat, c \in Seq(Payload) :
            x = next /\ t = old /\ m = n /\ c = b
      BY <3>4
    <3>8. \E after2 \in [0..(m + 1) -> Tables] : Merge(after2, t, c, m + 1) /\ after2[m + 1] = x
      <4>1. after \in [0..m -> Tables] /\ Merge(after, t, c, m) /\ x = MergedTable(after[m], c[m + 1])
        BY <3>4, <3>5, <3>7
      <4> DEFINE MT == MergedTable(after[m], c[m + 1])
      <4>2. x \in Tables /\ t \in Tables /\ m \in Nat /\ c \in Seq(Payload)
        BY <3>7
      <4>3. QED BY <4>1, <4>2, MergeGrows, SMTT(30)
    <3>9. QED BY <2>4, <3>1, <3>6, <3>7, <3>8 DEF next, old
  <2>5. QED BY <1>2, <2>1, <2>2, <2>3, <2>4, StillMerging DEF Grab
<1>3. QED BY <1>1, <1>2 DEF Next, SerialSoFar

LEMMA SerialInvariance == Spec => []SerialInv
<1>1. Init => SerialInv
  BY DEF Init, SerialInv, SerialSoFar, ScannedIsLocked, Merging
<1>2. IInv /\ IInv' /\ CountInv /\ SerialInv /\ [Next]_vars => SerialInv'
  BY LockedStep, SerialStep DEF SerialInv
<1>3. QED BY <1>1, <1>2, Induction, CountInvariance, PTL DEF Spec

(* A step that changes the table is a commit. *)
LEMMA OnlyCommitsChange ==
    ASSUME IInv, [Next]_vars, card' # card
    PROVE  \E r \in Requests : pc[r] = "scan" /\ pc'[r] = "committed"
<1>1. PICK r \in Requests : Receive(r) \/ Step(r) \/ ConnectionLost(r)
  BY DEF Next, vars
<1>2. Commit(r)
  BY <1>1, StepKinds, GrabFacts DEF Frame, Undo, Rollback, IInv
<1>3. QED BY <1>2 DEF Commit, IInv, TypeOK

(* Pushes are serializable: any number of them, on any cards, leave what   *)
(* their batches leave when they are merged one after another, in the      *)
(* order of the commits.  (services.py 31-70)                              *)
THEOREM PushesAreSerializable == Spec => CommitsAreSerial
<1> DEFINE committing == {r \in Requests : pc[r] = "scan" /\ pc'[r] = "committed"}
           Serial == /\ committing = {} => card' = card
                     /\ \A r \in committing : card' = MergedBatch(card, batch[r])
<1>1. ASSUME IInv, SerialInv, [Next]_vars, NEW r \in committing
      PROVE  card' = MergedBatch(card, batch[r])
  <2>1. card' = View(r) /\ pos[r] - 1 = Len(batch[r]) /\ Len(batch[r]) \in Nat
    BY <1>1, OnlyCommitCommits DEF Commit, View, IInv, TypeOK
  <2>2. PICK after \in [0..Len(batch[r]) -> Tables] :
          Merge(after, card, batch[r], Len(batch[r])) /\ after[Len(batch[r])] = View(r)
    BY <1>1, <2>1 DEF SerialInv, SerialSoFar, Merging
  <2>3. MergedBatch(card, batch[r]) = after[Len(batch[r])]
    BY <2>1, <2>2, MergeGivesBatch
  <2>4. QED BY <2>1, <2>2, <2>3
<1>2. IInv /\ [Next]_vars /\ committing = {} => card' = card
  BY OnlyCommitsChange
<1>3. IInv /\ SerialInv /\ [Next]_vars => [Serial]_vars
  BY <1>1, <1>2
<1>4. QED BY <1>3, Induction, SerialInvariance, PTL DEF Spec, CommitsAreSerial

-----------------------------------------------------------------------------
(* Nothing comes into the table but what was sent for that card.           *)

Sent(r, a, v) ==
    \/ Acked(a, v)
    \/ \E i \in 1..(pos[r] - 1) :
         batch[r][i].ayah = a /\ batch[r][i].reps = v.reps /\ batch[r][i].at = v.at

Told(row) == Kept(row) \cup {row}

WorkIsSent ==
    \A r \in Requests, a \in Ayahs : work[r][a] # NoRow =>
        \A v \in Told(work[r][a]) : Sent(r, a, v)

OriginInv == ProgressIsAcked /\ WorkIsSent

(* A row that is written tells of its predecessor, and of the payload.     *)
LEMMA GrabTells ==
    ASSUME IInv, NEW r \in Requests, Grab(r), work'[r][Current(r).ayah] # NoRow,
           NEW v \in Told(work'[r][Current(r).ayah])
    PROVE  \/ v.reps = Current(r).reps /\ v.at = Current(r).at
           \/ /\ Seen(r, Current(r).ayah) # NoRow
              /\ \E u \in Told(Seen(r, Current(r).ayah)) : u.reps = v.reps /\ u.at = v.at
<1> DEFINE p == Current(r)
           a == p.ayah
<1>1. WellFormed(p) /\ p \in Payload /\ a \in Ayahs
      /\ work \in [Requests -> [Ayahs -> Row \cup {NoRow}]]
  BY GrabFacts DEF IInv, TypeOK
<1>2. CASE MergeLose(r)
  <2>1. work' = work /\ Seen(r, a) = work[r][a]
    BY <1>2 DEF MergeLose, Seen
  <2>2. QED BY <2>1
<1>3. CASE Create(r)
  <2>1. work'[r][a] = Created(p)
    BY <1>1, <1>3 DEF Create
  <2>2. Kept(Created(p)) = {}
    BY DEF Kept, Created
  <2>3. QED BY <2>1, <2>2 DEF Told, Created
<1>4. CASE MergeWin(r)
  <2> DEFINE old == Seen(r, a)
  <2>1. work'[r][a] = Merged(old, p) /\ old # NoRow /\ old \in Row
    BY <1>1, <1>4, SeenGood DEF MergeWin, LookupHit
  <2>2. CASE v = Merged(old, p)
    BY <2>2 DEF Merged
  <2>3. CASE v \in Kept(Merged(old, p))
    <3>1. PICK i \in DOMAIN Append(old.lost, Snapshot(old)) : v = Append(old.lost, Snapshot(old))[i]
      BY <2>3 DEF Kept, Merged
    <3>2. old.lost \in Seq(Version) /\ Snapshot(old) \in Version
      BY <2>1 DEF Row, Snapshot, Version
    <3>3. v = Snapshot(old) \/ v \in Kept(old)
      BY <3>1, <3>2 DEF Kept
    <3>4. QED BY <2>1, <3>3 DEF Told, Snapshot
  <2>4. QED BY <2>1, <2>2, <2>3 DEF Told
<1>5. QED BY <1>2, <1>3, <1>4 DEF Grab

LEMMA AckedStays ==
    ASSUME IInv, [Next]_vars, NEW a, NEW v, Acked(a, v)
    PROVE  Acked(a, v)'
<1>1. acked \subseteq acked'
  <2>1. ASSUME NEW r \in Requests, Receive(r) \/ Step(r) \/ ConnectionLost(r)
        PROVE  acked \subseteq acked'
    BY <2>1, StepKinds, GrabFacts DEF Frame, Undo, Rollback, Commit
  <2>2. QED BY <2>1 DEF Next, vars
<1>2. QED BY <1>1 DEF Acked

LEMMA SentStep ==
    ASSUME IInv, IInv', CountInv, OriginInv, NEW r \in Requests,
           Receive(r) \/ Step(r) \/ ConnectionLost(r),
           NEW q \in Requests, NEW a \in Ayahs, work'[q][a] # NoRow,
           NEW v \in Told(work'[q][a])
    PROVE  Sent(q, a, v)'
<1> USE DEF OriginInv
<1>0. [Next]_vars
  BY DEF Next
<1>1. CASE q # r
  <2>1. batch'[q] = batch[q] /\ pos'[q] = pos[q] /\ work'[q] = work[q]
    BY <1>1, OthersStay DEF IInv
  <2>2. Sent(q, a, v)
    BY <2>1 DEF WorkIsSent
  <2>3. QED BY <1>0, <2>1, <2>2, AckedStays DEF Sent
<1>2. CASE q = r /\ Frame(r)
  <2>1. work' = work /\ work[r] # NoWork
    BY <1>2 DEF Frame, NoWork
  <2>2. batch'[r] = batch[r] /\ pos'[r] \in {pos[r], pos[r] + 1} /\ pos[r] \in Nat
    <3>1. Merging(r) /\ Merging(r)'
      <4>1. NothingIsLeft /\ NothingIsLeft'
        BY <1>0, GrowStep DEF CountInv
      <4>2. QED BY <2>1, <4>1 DEF NothingIsLeft, NoWork
    <3>2. LookupMiss(r) \/ RejectMalformed(r) \/ Grab(r)
      BY <3>1, StillMerging DEF Receive, Merging, Grab
    <3>3. TypeOK /\ UNCHANGED batch /\ (UNCHANGED pos \/ pos' = [pos EXCEPT ![r] = @ + 1])
      BY <3>2, GrabFacts DEF LookupMiss, RejectMalformed, IInv
    <3>4. QED BY <3>3 DEF TypeOK
  <2>3. Sent(r, a, v)
    BY <1>2, <2>1 DEF WorkIsSent
  <2>4. QED BY <1>0, <1>2, <2>2, <2>3, AckedStays DEF Sent
<1>3. CASE q = r /\ Grab(r)
  <2>1. batch'[r] = batch[r] /\ pos'[r] = pos[r] + 1 /\ pos[r] \in Nat \ {0}
    BY <1>3, GrabFacts DEF IInv, TypeOK
  <2>2. ASSUME NEW u, Sent(r, a, u), u.reps = v.reps, u.at = v.at PROVE Sent(q, a, v)'
    <3>1. CASE Acked(a, u)
      <4>1. Acked(a, v)
        BY <2>2, <3>1 DEF Acked
      <4>2. QED BY <1>0, <4>1, AckedStays DEF Sent
    <3>2. CASE ~Acked(a, u)
      BY <1>3, <2>1, <2>2, <3>2 DEF Sent
    <3>3. QED BY <3>1, <3>2
  <2>3. CASE a # Current(r).ayah
    <3>1. work'[r][a] = work[r][a]
      BY <1>3, <2>3, GrabWrites
    <3>2. QED BY <1>3, <2>2, <3>1 DEF WorkIsSent
  <2>4. CASE a = Current(r).ayah
    <3>1. CASE v.reps = Current(r).reps /\ v.at = Current(r).at
      BY <1>3, <2>1, <2>4, <3>1 DEF Sent, Current
    <3>2. CASE /\ Seen(r, a) # NoRow
               /\ \E u \in Told(Seen(r, a)) : u.reps = v.reps /\ u.at = v.at
      <4>1. PICK u \in Told(Seen(r, a)) : u.reps = v.reps /\ u.at = v.at
        BY <3>2
      <4>2. Sent(r, a, u)
        BY <3>2, <4>1 DEF Seen, WorkIsSent, ProgressIsAcked, Told, Sent
      <4>3. QED BY <2>2, <4>1, <4>2
    <3>3. QED BY <1>3, <2>4, <3>1, <3>2, GrabTells
  <2>5. QED BY <2>3, <2>4
<1>4. CASE q = r /\ (Undo(r) \/ Commit(r))
  BY <1>4 DEF Undo, Rollback, Commit, NoWork, IInv, TypeOK
<1>5. QED BY <1>1, <1>2, <1>3, <1>4, StepKinds

LEMMA OriginStep ==
    ASSUME IInv, IInv', CountInv, OriginInv, [Next]_vars
    PROVE  OriginInv'
<1> USE DEF OriginInv
<1>1. CASE UNCHANGED vars
  BY <1>1 DEF vars, ProgressIsAcked, WorkIsSent, Sent, Acked
<1>2. ASSUME NEW r \in Requests, Receive(r) \/ Step(r) \/ ConnectionLost(r)
      PROVE  OriginInv'
  <2>1. WorkIsSent'
    BY <1>2, SentStep DEF WorkIsSent
  <2>2. ASSUME NEW a \in Ayahs, card'[a] # NoRow, NEW v \in Told(card'[a])
        PROVE  Acked(a, v)'
    <3>1. CASE card'[a] = card[a]
      BY <2>2, <3>1, AckedStays DEF ProgressIsAcked, Told
    <3>2. CASE card'[a] # card[a]
      <4>1. Commit(r)
        BY <1>2, <3>2, StepKinds, GrabFacts DEF Frame, Undo, Rollback
      <4>2. card'[a] = work[r][a] /\ pos[r] - 1 = Len(batch[r])
            /\ acked' = acked \cup {batch[r][i] : i \in DOMAIN batch[r]}
            /\ batch[r] \in Seq(Payload)
        BY <3>2, <4>1 DEF Commit, Seen, IInv, TypeOK, ScanIsCovered
      <4>3. Sent(r, a, v)
        BY <2>2, <4>2 DEF WorkIsSent
      <4>4. CASE Acked(a, v)
        BY <4>4, AckedStays
      <4>5. CASE ~Acked(a, v)
        BY <4>2, <4>3, <4>5 DEF Sent, Acked
      <4>6. QED BY <4>4, <4>5
    <3>3. QED BY <3>1, <3>2
  <2>3. ProgressIsAcked'
    BY <2>2 DEF ProgressIsAcked, Told
  <2>4. QED BY <2>1, <2>3
<1>3. QED BY <1>1, <1>2 DEF Next

(* Whatever is in the table, current or overwritten, was brought by a push *)
(* that was acknowledged, for any number of concurrent pushes: a failed    *)
(* one leaves nothing.  (services.py 31-70)                                *)
THEOREM ProgressWasAcked == Spec => []ProgressIsAcked
<1>1. Init => OriginInv
  BY DEF Init, OriginInv, ProgressIsAcked, WorkIsSent, NoWork
<1>2. IInv /\ IInv' /\ CountInv /\ OriginInv /\ [Next]_vars => OriginInv'
  BY OriginStep
<1>3. QED BY <1>1, <1>2, Induction, CountInvariance, PTL DEF Spec, OriginInv

(* A push that is sent again after its answer was lost changes nothing,    *)
(* whatever was pushed in between.  (services.py 28-77)                    *)
THEOREM RetriesAreHarmless == Spec => RetriesChangeNothing
<1> DEFINE Again == \A r \in Requests :
             /\ pc[r] = "scan" /\ pc'[r] = "committed"
             /\ \A i \in DOMAIN batch[r] : batch[r][i] \in acked
             => card' = card
<1>1. ASSUME IInv, SerialInv, [Next]_vars, NEW r \in Requests,
             pc[r] = "scan", pc'[r] = "committed",
             \A i \in DOMAIN batch[r] : batch[r][i] \in acked
      PROVE  card' = card
  <2>1. card' = View(r) /\ pos[r] - 1 = Len(batch[r]) /\ batch[r] \in Seq(Payload)
        /\ card \in Tables
    BY <1>1, OnlyCommitCommits DEF Commit, View, IInv, TypeOK, Tables
  <2>2. PICK after \in [0..Len(batch[r]) -> Tables] :
          Merge(after, card, batch[r], Len(batch[r])) /\ after[Len(batch[r])] = View(r)
    BY <1>1, <2>1 DEF SerialInv, SerialSoFar, Merging
  <2>3. ASSUME NEW i \in 1..Len(batch[r]) PROVE MergedTable(card, batch[r][i]) = card
    <3>1. WellFormed(batch[r][i]) =>
            /\ card[batch[r][i].ayah] # NoRow
            /\ ~IncomingWins(card[batch[r][i].ayah], batch[r][i])
      BY <1>1, <2>1 DEF IInv, NoAckedReviewLost, Covers
    <3>2. QED BY <2>1, <3>1 DEF MergedTable, MergedCard, Tables
  <2>4. QED BY <2>1, <2>2, <2>3, MergeKeeps
<1>2. IInv /\ SerialInv /\ [Next]_vars => [Again]_vars
  BY <1>1
<1>3. QED BY <1>2, Induction, SerialInvariance, PTL DEF Spec, RetriesChangeNothing

-----------------------------------------------------------------------------
(* Where everybody waits for somebody of a finite set, a smallest such set *)
(* is a cycle: one that nobody of it waits for could be left out.          *)

LEMMA WaitsEndInCycle ==
    ASSUME NEW M, IsFiniteSet(M), M # {}, M \subseteq Requests,
           \A q \in M : \E s \in M : WaitsFor(q, s)
    PROVE  \E r \in M : InCycle(r)
<1> DEFINE Waiting(S) == S # {} /\ \A q \in S : \E s \in S : WaitsFor(q, s)
           Sizes == {Cardinality(S) : S \in {T \in SUBSET M : Waiting(T)}}
<1>1. ASSUME NEW S \in SUBSET M PROVE IsFiniteSet(S) /\ Cardinality(S) \in Nat
  BY <1>1, FS_Subset, FS_CardinalityType
<1>2. Sizes \in SUBSET Nat /\ Sizes # {}
  BY <1>1
<1>3. PICK n \in Sizes : \A m \in Sizes : n <= m
  <2> HIDE DEF Sizes
  <2>1. QED BY <1>2, LeastElement
<1>4. PICK S \in SUBSET M : Waiting(S) /\ \A T \in SUBSET M : Waiting(T) => Cardinality(S) <= Cardinality(T)
  BY <1>3
<1>5. ASSUME NEW s \in S, \A q \in S : ~WaitsFor(q, s) PROVE FALSE
  <2>1. Waiting(S \ {s})
    BY <1>4, <1>5
  <2>2. Cardinality(S \ {s}) = Cardinality(S) - 1
    BY <1>1, FS_RemoveElement
  <2>3. Cardinality(S) <= Cardinality(S \ {s})
    BY <1>4, <2>1
  <2>4. QED BY <1>1, <2>2, <2>3
<1>6. PICK r \in S : TRUE
  BY <1>4
<1>7. InCycle(r)
  BY <1>4, <1>5 DEF InCycle
<1>8. QED BY <1>6, <1>7

(* A request outside its transaction holds no lock.  (services.py 32-43)   *)
LocksAreFreed == \A r \in Requests : ~Merging(r) => locked[r] = {}

LEMMA FreedInvariance == Spec => []LocksAreFreed
<1>1. Init => LocksAreFreed
  BY DEF Init, LocksAreFreed
<1>2. ASSUME IInv, LocksAreFreed, [Next]_vars PROVE LocksAreFreed'
  <2>1. CASE UNCHANGED vars
    BY <1>2, <2>1 DEF vars, LocksAreFreed, Merging
  <2>2. ASSUME NEW r \in Requests, Receive(r) \/ Step(r) \/ ConnectionLost(r),
               NEW q \in Requests, ~Merging(q)'
        PROVE  locked'[q] = {}
    <3>1. CASE q # r /\ Grab(r)
      <4>1. locked'[q] = locked[q] /\ ~Merging(q)
        BY <1>2, <2>2, <3>1, GrabFacts, OthersStay DEF Merging, IInv, TypeOK
      <4>2. QED BY <1>2, <4>1 DEF LocksAreFreed
    <3>2. CASE q # r /\ ~Grab(r)
      <4>1. locked'[q] = locked[q] /\ ~Merging(q)
        BY <1>2, <2>2, <3>2, StepKinds, OthersStay
           DEF Frame, Undo, Rollback, Commit, Merging, IInv, TypeOK
      <4>2. QED BY <1>2, <4>1 DEF LocksAreFreed
    <3>3. CASE q = r /\ Grab(r)
      BY <1>2, <2>2, <3>3
         DEF Grab, MergeWin, MergeLose, Create, LookupHit, Scanning, Merging, IInv, TypeOK
    <3>4. CASE q = r /\ (Undo(r) \/ Commit(r))
      BY <1>2, <3>4 DEF Undo, Rollback, Commit, IInv, TypeOK
    <3>5. CASE q = r /\ (Receive(r) \/ RejectMalformed(r) \/ LookupMiss(r) \/ Finish(r))
      <4>1. Finish(r)
        BY <1>2, <2>2, <3>5
           DEF Receive, RejectMalformed, LookupMiss, Scanning, Merging, IInv, TypeOK
      <4>2. QED BY <1>2, <3>5, <4>1 DEF Finish, LocksAreFreed, Merging
    <3>6. MergeRaises(r) \/ CreateRaises(r) \/ DeadlockVictim(r) \/ ConnectionLost(r) => Undo(r)
      BY DEF MergeRaises, CreateRaises, DeadlockVictim, ConnectionLost, Undo, Causes
    <3>7. QED BY <2>2, <3>1, <3>2, <3>3, <3>4, <3>5, <3>6 DEF Step, Grab
  <2>3. QED BY <1>2, <2>1, <2>2 DEF Next, LocksAreFreed
<1>3. QED BY <1>1, <1>2, Induction, PTL DEF Spec

(* Of any finite number of pushes, one can always go on: it waits for no   *)
(* lock and no insert, or the database ends its wait.                      *)
THEOREM PushesDoNotBlock ==
    ASSUME IsFiniteSet(Requests)
    PROVE  Spec => []SomeoneGoesOn
<1> DEFINE M == {r \in Requests : pc[r] \in {"scan", "create"}}
<1>1. ASSUME LocksAreFreed, M # {}, \A r \in M : \E q \in Requests : WaitsFor(r, q)
      PROVE  \E r \in M : InCycle(r)
  <2>1. \A q \in M : \E s \in M : WaitsFor(q, s)
    BY <1>1 DEF LocksAreFreed, WaitsFor, Merging
  <2>2. IsFiniteSet(M)
    BY FS_Subset
  <2> HIDE DEF M
  <2>3. M \subseteq Requests
    BY DEF M
  <2>4. PICK N : N = M
    OBVIOUS
  <2>5. QED BY <1>1, <2>1, <2>2, <2>3, <2>4, WaitsEndInCycle
<1>2. LocksAreFreed => SomeoneGoesOn
  BY <1>1 DEF SomeoneGoesOn
<1>3. QED BY <1>2, FreedInvariance, PTL
=============================================================================
