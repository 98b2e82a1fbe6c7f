--------------------------- MODULE Outbox_proofs ----------------------------
(***************************************************************************)
(* The one way the write queue forgets a write that has not reached the    *)
(* server, for any number of entities, concurrent drains, attempts and     *)
(* batch sizes.  The argument: a row always carries the newest local write *)
(* of its entity; a snapshot a drain holds carries it too unless the       *)
(* entity was written while it was held, which is what overlap records; so *)
(* the newest write of the entity whose row a drain deletes has reached    *)
(* the server, or the entity is in overlap.                                *)
(***************************************************************************)
EXTENDS Outbox, TLAPS

Held(d, x) == x \in todo[d] \/ (sent[d] # NoEntry /\ x = sent[d])

(* A row carries the newest local write. *)
RowIsNewest ==
    \A e \in Entities : outbox[e] # NoEntry =>
        outbox[e].ver = local[e] /\ local[e] > 0

(* So does a snapshot, unless its entity was written while it was held. *)
SnapshotIsNewest ==
    \A d \in Drains : \A x \in Snapshot : Held(d, x) =>
        /\ 0 < x.ver
        /\ x.entity \notin overlap => x.ver = local[x.entity]

(* A push in flight is known, and taken up before it is acknowledged; a    *)
(* failure being recorded has been answered by the server.                 *)
PushIsKnown ==
    \A d \in Drains :
        /\ pc[d] \in {"sending", "marking"} => sent[d] \in Snapshot
        /\ accepted[d] => /\ sent[d] \in Snapshot
                          /\ sent[d].ver <= reached[sent[d].entity]
        /\ pc[d] = "marking" =>
             LET e == sent[d].entity IN
             seen[d] + 1 <= refusals[e] \/ refusals[e] = MaxAttempts

IInv ==
    /\ TypeOK
    /\ RowIsNewest
    /\ SnapshotIsNewest
    /\ PushIsKnown
    /\ ForgottenOnlyByOverlap
    /\ ParkedOnlyByRefusals

-----------------------------------------------------------------------------
LEMMA EnqueuedRow ==
    ASSUME TypeOK, NEW e \in Entities, NEW v \in Nat, NEW t \in Nat
    PROVE  /\ Enqueued(e, v, t) \in Entry
           /\ Enqueued(e, v, t).ver = v
           /\ Enqueued(e, v, t).attempts =
                IF outbox[e] = NoEntry THEN 0 ELSE outbox[e].attempts
  BY DEF TypeOK, Enqueued, Entry

LEMMA ChangedRow ==
    ASSUME NEW row \in Entry, NEW b \in BOOLEAN, NEW n \in Nat
    PROVE  /\ [row EXCEPT !.deferred = b] \in Entry
           /\ [row EXCEPT !.attempts = n] \in Entry
           /\ [row EXCEPT !.deferred = b].ver = row.ver
           /\ [row EXCEPT !.deferred = b].attempts = row.attempts
           /\ [row EXCEPT !.attempts = n].ver = row.ver
           /\ [row EXCEPT !.attempts = n].attempts = n
  BY DEF Entry

LEMMA SentSnapshot ==
    ASSUME TypeOK, NEW d \in Drains, sent[d] # NoEntry
    PROVE  sent[d] \in Snapshot /\ sent[d].entity \in Entities /\ sent[d].ver \in Nat
  BY DEF TypeOK, Snapshot

LEMMA TypeStep ==
    ASSUME IInv, [Next]_vars
    PROVE  TypeOK'
<1> USE DEF IInv
<1>1. CASE UNCHANGED vars
  BY <1>1 DEF vars, loop, TypeOK
<1>2. ASSUME NEW e \in Entities, Write(e) PROVE TypeOK'
  <2>1. PICK t \in {clock, clock + 1} :
          clock' = t /\ outbox' = [outbox EXCEPT ![e] = Enqueued(e, local[e] + 1, t)]
    BY <1>2 DEF Write
  <2>2. t \in Nat /\ local[e] + 1 \in Nat
    BY DEF TypeOK
  <2>3. outbox' \in [Entities -> Entry \cup {NoEntry}]
    BY <2>1, <2>2, EnqueuedRow DEF TypeOK
  <2>4. QED BY <1>2, <2>1, <2>2, <2>3 DEF Write, loop, TypeOK
<1>3. ASSUME NEW e \in Entities, DeferralExpires(e) PROVE TypeOK'
  <2>1. outbox[e] \in Entry
    BY <1>3 DEF DeferralExpires, TypeOK
  <2>2. [outbox[e] EXCEPT !.deferred = FALSE] \in Entry
    BY <2>1, ChangedRow
  <2>3. outbox' = [outbox EXCEPT ![e] = [outbox[e] EXCEPT !.deferred = FALSE]]
    BY <1>3 DEF DeferralExpires
  <2>4. outbox' \in [Entities -> Entry \cup {NoEntry}]
    BY <2>2, <2>3 DEF TypeOK
  <2>5. QED BY <1>3, <2>4 DEF DeferralExpires, loop, TypeOK
<1>4. ASSUME NEW d \in Drains, Connect(d) \/ SyncRun(d) PROVE TypeOK'
  BY <1>4 DEF Connect, SyncRun, TypeOK
<1>5. ASSUME NEW d \in Drains, ReadQueue(d) PROVE TypeOK'
  <2>1. ASSUME NEW e \in Entities, Due(e) PROVE Row(e) \in Snapshot
    BY <2>1 DEF Due, Row, Snapshot, TypeOK, Entry
  <2>2. PICK S \in SUBSET Entities :
          IsPending(S) /\ todo' = [todo EXCEPT ![d] = {Row(e) : e \in S}]
    BY <1>5 DEF ReadQueue
  <2>3. {Row(e) : e \in S} \subseteq Snapshot
    BY <2>1, <2>2 DEF IsPending
  <2>4. todo' \in [Drains -> SUBSET Snapshot]
    BY <2>2, <2>3 DEF TypeOK
  <2>5. QED BY <1>5, <2>4 DEF ReadQueue, TypeOK
<1>6. ASSUME NEW d \in Drains, Push(d) PROVE TypeOK'
  BY <1>6 DEF Push, TypeOK
<1>7. ASSUME NEW d \in Drains, DrainEnds(d) PROVE TypeOK'
  BY <1>7 DEF DrainEnds, Return, TypeOK
<1>8. ASSUME NEW d \in Drains, Acknowledged(d) PROVE TypeOK'
  BY <1>8 DEF Acknowledged, Continue, TypeOK
<1>9. ASSUME NEW d \in Drains, RateLimited(d) PROVE TypeOK'
  <2>1. ASSUME NEW e \in Entities, outbox[e] # NoEntry
        PROVE  [outbox[e] EXCEPT !.deferred = TRUE] \in Entry
    <3>1. outbox[e] \in Entry
      BY <2>1 DEF TypeOK
    <3>2. QED BY <3>1, ChangedRow
  <2>2. outbox' \in [Entities -> Entry \cup {NoEntry}]
    BY <1>9, <2>1 DEF RateLimited, TypeOK
  <2>3. QED BY <1>9, <2>2 DEF RateLimited, Return, TypeOK
<1>10. ASSUME NEW d \in Drains, Unreachable(d) PROVE TypeOK'
  BY <1>10 DEF Unreachable, Return, TypeOK, PushIsKnown
<1>11. ASSUME NEW d \in Drains, Refused(d) PROVE TypeOK'
  <2>1. sent[d] \in Snapshot /\ sent[d].entity \in Entities
    BY <1>11 DEF Refused, PushIsKnown, Snapshot
  <2>2. refusals' \in [Entities -> Nat]
    BY <1>11, <2>1, LimitsAssumption DEF Refused, TypeOK
  <2>3. CASE outbox[sent[d].entity] = NoEntry /\ Continue(d)
    BY <1>11, <2>2, <2>3 DEF Refused, Continue, TypeOK
  <2>4. CASE /\ outbox[sent[d].entity] # NoEntry
             /\ seen' = [seen EXCEPT ![d] = outbox[sent[d].entity].attempts]
             /\ pc' = [pc EXCEPT ![d] = "marking"]
             /\ UNCHANGED <<todo, sent, accepted>>
    <3>1. outbox[sent[d].entity].attempts \in Nat
      BY <2>1, <2>4 DEF TypeOK, Entry
    <3>2. QED BY <1>11, <2>2, <2>4, <3>1 DEF Refused, TypeOK
  <2>5. QED BY <1>11, <2>3, <2>4 DEF Refused
<1>12. ASSUME NEW d \in Drains, MarkFailed(d) PROVE TypeOK'
  <2>1. ASSUME NEW e \in Entities, outbox[e] # NoEntry
        PROVE  [outbox[e] EXCEPT !.attempts = seen[d] + 1] \in Entry
    <3>1. outbox[e] \in Entry /\ seen[d] + 1 \in Nat
      BY <2>1 DEF TypeOK
    <3>2. QED BY <3>1, ChangedRow
  <2>2. outbox' \in [Entities -> Entry \cup {NoEntry}]
    BY <1>12, <2>1 DEF MarkFailed, TypeOK
  <2>3. QED BY <1>12, <2>2 DEF MarkFailed, Continue, TypeOK
<1>13. ASSUME NEW d \in Drains, ServerAccepts(d) PROVE TypeOK'
  <2>1. sent[d] \in Snapshot
    BY <1>13 DEF ServerAccepts, PushIsKnown
  <2>2. QED BY <1>13, <2>1 DEF ServerAccepts, Reach, Max2, Snapshot, TypeOK
<1>14. ASSUME NEW x \in late, LatePushArrives(x) PROVE TypeOK'
  BY <1>14 DEF LatePushArrives, Reach, Max2, Snapshot, loop, TypeOK
<1>15. CASE Disconnect
  BY <1>15 DEF Disconnect, loop, TypeOK
<1>16. CASE Kill
  <2>1. late' \subseteq Snapshot
    BY <1>16 DEF Kill, PushIsKnown, TypeOK
  <2>2. QED BY <1>16, <2>1 DEF Kill, TypeOK
<1>17. QED
  BY <1>1, <1>2, <1>3, <1>4, <1>5, <1>6, <1>7, <1>8, <1>9, <1>10, <1>11, <1>12, <1>13,
     <1>14, <1>15, <1>16 DEF Next, Drain

-----------------------------------------------------------------------------
(* What a step does to each part of the state. *)

Acks(d, e) == accepted[d] /\ sent[d] # NoEntry /\ sent[d].entity = e

(* Only a write changes what a row carries; only an acknowledged push      *)
(* removes one; only markFailed counts an attempt.                         *)
LEMMA TableStep ==
    ASSUME IInv, [Next]_vars, ~\E e \in Entities : Write(e)
    PROVE  /\ local' = local /\ overlap' = overlap
           /\ \A f \in Entities :
                \/ outbox'[f] = outbox[f]
                \/ outbox'[f] = NoEntry /\ \E d \in Drains : Acks(d, f) /\ Acknowledged(d)
                \/ /\ outbox[f] # NoEntry
                   /\ outbox'[f].ver = outbox[f].ver
                   /\ outbox'[f] # NoEntry
                   /\ \/ outbox'[f].attempts = outbox[f].attempts
                      \/ \E d \in Drains : /\ pc[d] = "marking"
                                           /\ sent[d].entity = f
                                           /\ outbox'[f].attempts = seen[d] + 1
<1> DEFINE Goal == /\ local' = local /\ overlap' = overlap
                   /\ \A f \in Entities :
                        \/ outbox'[f] = outbox[f]
                        \/ outbox'[f] = NoEntry /\ \E d \in Drains : Acks(d, f) /\ Acknowledged(d)
                        \/ /\ outbox[f] # NoEntry
                           /\ outbox'[f].ver = outbox[f].ver
                           /\ outbox'[f] # NoEntry
                           /\ \/ outbox'[f].attempts = outbox[f].attempts
                              \/ \E d \in Drains : /\ pc[d] = "marking"
                                                   /\ sent[d].entity = f
                                                   /\ outbox'[f].attempts = seen[d] + 1
<1>0. TypeOK /\ PushIsKnown
  BY DEF IInv
<1>1. ASSUME NEW d \in Drains, Acknowledged(d) PROVE Goal
  <2>1. sent[d] \in Snapshot
    BY <1>0, <1>1 DEF Acknowledged, PushIsKnown
  <2>2. Acks(d, sent[d].entity)
    BY <1>1, <2>1, NoEntryAssumption DEF Acknowledged, Acks
  <2>3. QED BY <1>0, <1>1, <2>2 DEF Acknowledged, TypeOK
<1>2. ASSUME NEW d \in Drains, RateLimited(d) PROVE Goal
  <2>1. ASSUME NEW f \in Entities, outbox[f] # NoEntry
        PROVE  LET row == [outbox[f] EXCEPT !.deferred = TRUE]
               IN  row # NoEntry /\ row.ver = outbox[f].ver /\ row.attempts = outbox[f].attempts
    <3>1. outbox[f] \in Entry
      BY <1>0, <2>1 DEF TypeOK
    <3>2. QED BY <3>1, ChangedRow, NoEntryAssumption
  <2>2. QED BY <1>2, <2>1 DEF RateLimited
<1>3. ASSUME NEW d \in Drains, MarkFailed(d) PROVE Goal
  <2>1. ASSUME NEW f \in Entities, outbox[f] # NoEntry
        PROVE  LET row == [outbox[f] EXCEPT !.attempts = seen[d] + 1]
               IN  row # NoEntry /\ row.ver = outbox[f].ver /\ row.attempts = seen[d] + 1
    <3>1. outbox[f] \in Entry /\ seen[d] + 1 \in Nat
      BY <1>0, <2>1 DEF TypeOK
    <3>2. QED BY <3>1, ChangedRow, NoEntryAssumption
  <2>2. QED BY <1>3, <2>1 DEF MarkFailed
<1>4. ASSUME NEW e \in Entities, DeferralExpires(e) PROVE Goal
  <2>1. outbox[e] \in Entry /\ outbox[e] # NoEntry
    BY <1>0, <1>4 DEF TypeOK, DeferralExpires
  <2>2. outbox' = [outbox EXCEPT ![e] = [outbox[e] EXCEPT !.deferred = FALSE]]
    BY <1>4 DEF DeferralExpires
  <2>3. LET row == [outbox[e] EXCEPT !.deferred = FALSE]
        IN  row # NoEntry /\ row.ver = outbox[e].ver /\ row.attempts = outbox[e].attempts
    BY <2>1, ChangedRow, NoEntryAssumption
  <2>4. local' = local /\ overlap' = overlap
    BY <1>4 DEF DeferralExpires
  <2>5. QED BY <1>0, <2>1, <2>2, <2>3, <2>4 DEF TypeOK
<1>5. CASE UNCHANGED <<local, overlap, outbox>>
  BY <1>5
<1>6. QED
  BY <1>1, <1>2, <1>3, <1>4, <1>5 DEF Next, Drain, vars, loop, Connect, SyncRun, Disconnect,
     ReadQueue, Push, DrainEnds, Unreachable, Refused, Kill, ServerAccepts, LatePushArrives

(* What has reached the server, and the count of its refusals, only grow.  *)
LEMMA ServerStep ==
    ASSUME IInv, [Next]_vars
    PROVE  /\ reached' \in [Entities -> Nat] /\ refusals' \in [Entities -> Nat]
           /\ \A e \in Entities :
                /\ reached[e] <= reached'[e]
                /\ refusals[e] <= refusals'[e] \/ refusals'[e] = MaxAttempts
                /\ refusals[e] = MaxAttempts => refusals'[e] = MaxAttempts
<1>0. TypeOK /\ TypeOK' /\ PushIsKnown
  BY TypeStep DEF IInv
<1>1. ASSUME NEW x \in Snapshot, Reach(x)
      PROVE  \A e \in Entities : reached[e] <= reached'[e]
  BY <1>0, <1>1 DEF Reach, Max2, TypeOK, Snapshot
<1>2. ASSUME NEW d \in Drains, Refused(d)
      PROVE  /\ reached' = reached
             /\ \A e \in Entities :
                  /\ refusals[e] <= refusals'[e] \/ refusals'[e] = MaxAttempts
                  /\ refusals[e] = MaxAttempts => refusals'[e] = MaxAttempts
  BY <1>0, <1>2, LimitsAssumption DEF Refused, TypeOK
<1>3. ASSUME NEW d \in Drains, ServerAccepts(d)
      PROVE  refusals' = refusals /\ \A e \in Entities : reached[e] <= reached'[e]
  <2>1. sent[d] \in Snapshot /\ Reach(sent[d])
    BY <1>0, <1>3 DEF ServerAccepts, PushIsKnown
  <2>2. QED BY <1>1, <1>3, <2>1 DEF ServerAccepts
<1>4. ASSUME NEW x \in late, LatePushArrives(x)
      PROVE  refusals' = refusals /\ \A e \in Entities : reached[e] <= reached'[e]
  <2>1. x \in Snapshot /\ Reach(x)
    BY <1>0, <1>4 DEF LatePushArrives, TypeOK
  <2>2. QED BY <1>1, <1>4, <2>1 DEF LatePushArrives
<1>5. CASE UNCHANGED <<reached, refusals>>
  BY <1>0, <1>5 DEF TypeOK
<1>6. QED
  <2>1. \/ UNCHANGED <<reached, refusals>>
        \/ \E d \in Drains : Refused(d) \/ ServerAccepts(d)
        \/ \E x \in late : LatePushArrives(x)
    BY DEF Next, Drain, vars, Connect, SyncRun, Disconnect, ReadQueue, Push, DrainEnds,
       Unreachable, Kill, Acknowledged, RateLimited, MarkFailed, Write, DeferralExpires
  <2>2. \A e \in Entities :
                /\ reached[e] <= reached'[e]
                /\ refusals[e] <= refusals'[e] \/ refusals'[e] = MaxAttempts
                /\ refusals[e] = MaxAttempts => refusals'[e] = MaxAttempts
    BY <1>0, <1>2, <1>3, <1>4, <1>5, <2>1 DEF TypeOK
  <2>3. QED BY <1>0, <2>2 DEF TypeOK

(* A drain comes to hold a snapshot only by reading it off a row. *)
LEMMA HeldStep ==
    ASSUME IInv, [Next]_vars, NEW d \in Drains, NEW x \in Snapshot, Held(d, x)'
    PROVE  \/ Held(d, x)
           \/ \E e \in Entities : outbox[e] # NoEntry /\ x = Row(e) /\ ~Write(e)
<1>0. TypeOK
  BY DEF IInv
<1> USE <1>0
<1>1. ASSUME NEW c \in Drains, ReadQueue(c)
      PROVE  Held(d, x) \/ \E e \in Entities : outbox[e] # NoEntry /\ x = Row(e) /\ ~Write(e)
  <2>1. PICK S \in SUBSET Entities :
          IsPending(S) /\ todo' = [todo EXCEPT ![c] = {Row(e) : e \in S}]
    BY <1>1 DEF ReadQueue
  <2>2. \A e \in Entities : ~Write(e)
    <3>1. ASSUME NEW e \in Entities, Write(e) PROVE FALSE
      <4>1. local' # local
        BY <3>1 DEF Write, TypeOK
      <4>2. QED BY <1>1, <4>1 DEF ReadQueue
    <3>2. QED BY <3>1
  <2>3. sent' = sent
    BY <1>1 DEF ReadQueue
  <2>4. CASE d = c
    BY <2>1, <2>2, <2>3, <2>4 DEF IsPending, Due, Held, TypeOK
  <2>5. CASE d # c
    BY <2>1, <2>3, <2>5 DEF Held, TypeOK
  <2>6. QED BY <2>4, <2>5
<1>2. ASSUME NEW c \in Drains, Push(c) PROVE Held(d, x)
  BY <1>2 DEF Push, Held, TypeOK
<1>3. ASSUME NEW c \in Drains, Return(c) PROVE Held(d, x)
  BY <1>3 DEF Return, Held, TypeOK
<1>4. ASSUME NEW c \in Drains, Continue(c) PROVE Held(d, x)
  BY <1>4 DEF Continue, Held, TypeOK
<1>5. CASE Kill
  BY <1>5 DEF Kill, Held, TypeOK
<1>6. CASE UNCHANGED <<todo, sent>>
  BY <1>6 DEF Held
<1>7. QED
  <2>1. \/ \E c \in Drains : ReadQueue(c) \/ Push(c) \/ Return(c) \/ Continue(c)
        \/ Kill
        \/ UNCHANGED <<todo, sent>>
    BY DEF Next, Drain, vars, loop, Connect, SyncRun, Disconnect, DrainEnds, Unreachable,
       Acknowledged, RateLimited, Refused, MarkFailed, Write, DeferralExpires, ServerAccepts,
       LatePushArrives
  <2>2. QED BY <1>1, <1>2, <1>3, <1>4, <1>5, <1>6, <2>1

-----------------------------------------------------------------------------
(* Every part of the inductive invariant is kept. *)

(* What a write does, in the terms the invariants are stated in. *)
LEMMA WriteStep ==
    ASSUME IInv, NEW e \in Entities, Write(e)
    PROVE  /\ UNCHANGED <<loop, reached, refusals>>
           /\ local' = [local EXCEPT ![e] = @ + 1]
           /\ \A f \in Entities \ {e} : outbox'[f] = outbox[f]
           /\ outbox'[e] \in Entry /\ outbox'[e] # NoEntry
           /\ outbox'[e].ver = local[e] + 1
           /\ outbox'[e].attempts = IF outbox[e] = NoEntry THEN 0 ELSE outbox[e].attempts
<1>0. TypeOK
  BY DEF IInv
<1>1. PICK t \in {clock, clock + 1} :
        clock' = t /\ outbox' = [outbox EXCEPT ![e] = Enqueued(e, local[e] + 1, t)]
  BY DEF Write
<1>2. t \in Nat /\ local[e] + 1 \in Nat
  BY <1>0, <1>1 DEF TypeOK
<1>3. outbox'[e] = Enqueued(e, local[e] + 1, t) /\ \A f \in Entities \ {e} : outbox'[f] = outbox[f]
  BY <1>0, <1>1 DEF TypeOK
<1>4. /\ outbox'[e] \in Entry
      /\ outbox'[e].ver = local[e] + 1
      /\ outbox'[e].attempts = IF outbox[e] = NoEntry THEN 0 ELSE outbox[e].attempts
  BY <1>0, <1>2, <1>3, EnqueuedRow
<1>5. QED BY <1>3, <1>4, NoEntryAssumption DEF Write

LEMMA RowIsNewestStep ==
    ASSUME IInv, [Next]_vars
    PROVE  RowIsNewest'
<1>0. TypeOK /\ RowIsNewest
  BY DEF IInv
<1>1. ASSUME NEW e \in Entities, Write(e) PROVE RowIsNewest'
  BY <1>0, <1>1, WriteStep DEF RowIsNewest, TypeOK
<1>2. CASE ~\E e \in Entities : Write(e)
  BY <1>0, <1>2, TableStep DEF RowIsNewest
<1>3. QED BY <1>1, <1>2

LEMMA SnapshotIsNewestStep ==
    ASSUME IInv, [Next]_vars
    PROVE  SnapshotIsNewest'
<1>0. TypeOK /\ RowIsNewest /\ SnapshotIsNewest
  BY DEF IInv
<1> SUFFICES ASSUME NEW d \in Drains, NEW x \in Snapshot, Held(d, x)'
             PROVE  0 < x.ver /\ (x.entity \notin overlap' => x.ver = local'[x.entity])
  BY DEF SnapshotIsNewest
<1>1. x.entity \in Entities
  BY DEF Snapshot
<1>2. ASSUME NEW e \in Entities, Write(e)
      PROVE  0 < x.ver /\ (x.entity \notin overlap' => x.ver = local'[x.entity])
  <2>1. Held(d, x)
    BY <1>2, WriteStep DEF Held, loop
  <2>2. Holds(d, x.entity)
    BY <2>1 DEF Held, Holds
  <2>3. overlap' = IF \E c \in Drains : Holds(c, e) THEN overlap \cup {e} ELSE overlap \ {e}
    BY <1>2 DEF Write
  <2>4. x.entity = e => e \in overlap'
    BY <2>2, <2>3
  <2>5. x.entity # e => local'[x.entity] = local[x.entity] /\ (x.entity \in overlap => x.entity \in overlap')
    BY <1>0, <1>1, <1>2, <2>3, WriteStep DEF TypeOK
  <2>6. QED BY <1>0, <2>1, <2>4, <2>5 DEF SnapshotIsNewest
<1>3. CASE ~\E e \in Entities : Write(e)
  <2>1. local' = local /\ overlap' = overlap
    BY <1>3, TableStep
  <2>2. CASE Held(d, x)
    BY <1>0, <2>1, <2>2 DEF SnapshotIsNewest
  <2>3. ASSUME NEW e \in Entities, outbox[e] # NoEntry, x = Row(e)
        PROVE  0 < x.ver /\ x.ver = local[x.entity]
    BY <1>0, <2>3 DEF RowIsNewest, Row
  <2>4. QED BY <2>1, <2>2, <2>3, HeldStep
<1>4. QED BY <1>2, <1>3

LEMMA PushIsKnownStep ==
    ASSUME IInv, [Next]_vars
    PROVE  PushIsKnown'
<1>0. TypeOK /\ TypeOK' /\ PushIsKnown /\ ParkedOnlyByRefusals
  BY TypeStep DEF IInv
<1> SUFFICES ASSUME NEW d \in Drains
             PROVE  /\ pc'[d] \in {"sending", "marking"} => sent'[d] \in Snapshot
                    /\ accepted'[d] => /\ sent'[d] \in Snapshot
                                       /\ sent'[d].ver <= reached'[sent'[d].entity]
                    /\ pc'[d] = "marking" =>
                         LET e == sent'[d].entity IN
                         seen'[d] + 1 <= refusals'[e] \/ refusals'[e] = MaxAttempts
  BY DEF PushIsKnown
<1> DEFINE Goal == /\ pc'[d] \in {"sending", "marking"} => sent'[d] \in Snapshot
                   /\ accepted'[d] => /\ sent'[d] \in Snapshot
                                      /\ sent'[d].ver <= reached'[sent'[d].entity]
                   /\ pc'[d] = "marking" =>
                        LET e == sent'[d].entity IN
                        seen'[d] + 1 <= refusals'[e] \/ refusals'[e] = MaxAttempts
<1>1. ASSUME /\ sent'[d] = sent[d]
             /\ accepted'[d] => accepted[d]
             /\ pc'[d] = pc[d]
             /\ seen'[d] = seen[d]
      PROVE  Goal
  <2>1. ASSUME sent[d] \in Snapshot
        PROVE  /\ sent[d].entity \in Entities /\ sent[d].ver \in Nat
               /\ reached[sent[d].entity] <= reached'[sent[d].entity]
               /\ \/ refusals[sent[d].entity] <= refusals'[sent[d].entity]
                  \/ refusals'[sent[d].entity] = MaxAttempts
               /\ refusals[sent[d].entity] = MaxAttempts =>
                    refusals'[sent[d].entity] = MaxAttempts
    BY <2>1, ServerStep DEF Snapshot
  <2>2. accepted'[d] => /\ sent'[d] \in Snapshot
                        /\ sent'[d].ver <= reached'[sent'[d].entity]
    BY <1>0, <1>1, <2>1 DEF PushIsKnown, TypeOK
  <2>3. ASSUME pc[d] = "marking"
        PROVE  \/ seen[d] + 1 <= refusals'[sent[d].entity]
               \/ refusals'[sent[d].entity] = MaxAttempts
    <3>1. sent[d] \in Snapshot
      BY <1>0, <2>3 DEF PushIsKnown
    <3>2. \/ seen[d] + 1 <= refusals[sent[d].entity]
          \/ refusals[sent[d].entity] = MaxAttempts
      BY <1>0, <2>3 DEF PushIsKnown
    <3>3. QED BY <1>0, <2>1, <3>1, <3>2 DEF TypeOK
  <2>4. QED BY <1>0, <1>1, <2>2, <2>3 DEF PushIsKnown
<1>2. ASSUME pc'[d] \notin {"sending", "marking"}, ~accepted'[d] PROVE Goal
  BY <1>2
<1>3. ASSUME NEW c \in Drains, Push(c) PROVE Goal
  <2>1. PICK x \in todo[c] : sent' = [sent EXCEPT ![c] = x]
    BY <1>3 DEF Push
  <2>2. x \in Snapshot
    BY <1>0, <2>1 DEF TypeOK
  <2>3. CASE c = d
    BY <1>0, <1>3, <2>1, <2>2, <2>3 DEF Push, TypeOK
  <2>4. CASE c # d
    BY <1>0, <1>1, <1>3, <2>1, <2>4 DEF Push, TypeOK
  <2>5. QED BY <2>3, <2>4
<1>4. ASSUME NEW c \in Drains, Refused(c) PROVE Goal
  <2>1. CASE c # d
    <3>1. /\ sent'[d] = sent[d] /\ accepted'[d] = accepted[d]
          /\ pc'[d] = pc[d] /\ seen'[d] = seen[d]
      BY <1>0, <1>4, <2>1 DEF Refused, Continue, TypeOK
    <3>2. QED BY <1>1, <3>1
  <2>2. CASE c = d /\ Continue(d)
    BY <1>0, <1>2, <2>2 DEF Continue, TypeOK
  <2>3. CASE /\ c = d
             /\ outbox[sent[d].entity] # NoEntry
             /\ seen' = [seen EXCEPT ![d] = outbox[sent[d].entity].attempts]
             /\ pc' = [pc EXCEPT ![d] = "marking"]
             /\ UNCHANGED <<todo, sent, accepted>>
    <3> DEFINE e == sent[d].entity
    <3>1. sent[d] \in Snapshot /\ e \in Entities
      BY <1>0, <1>4, <2>3 DEF Refused, PushIsKnown, Snapshot
    <3>2. outbox[e] \in Entry
      BY <1>0, <2>3, <3>1 DEF TypeOK
    <3>3. outbox[e].attempts \in Nat /\ refusals[e] \in Nat
      BY <1>0, <3>1, <3>2 DEF TypeOK, Entry
    <3>4. outbox[e].attempts <= refusals[e] \/ refusals[e] = MaxAttempts
      BY <1>0, <2>3, <3>1 DEF ParkedOnlyByRefusals
    <3>5. refusals'[e] = IF refusals[e] + 1 < MaxAttempts THEN refusals[e] + 1 ELSE MaxAttempts
      BY <1>0, <1>4, <2>3, <3>1 DEF Refused, TypeOK
    <3>6. outbox[e].attempts + 1 <= refusals'[e] \/ refusals'[e] = MaxAttempts
      BY <3>3, <3>4, <3>5, LimitsAssumption
    <3>7. /\ sent'[d] = sent[d] /\ accepted'[d] = accepted[d]
          /\ pc'[d] = "marking" /\ seen'[d] = outbox[e].attempts
          /\ reached' = reached
      BY <1>0, <1>4, <2>3 DEF Refused, TypeOK
    <3>8. accepted[d] => sent[d].ver <= reached[e]
      BY <1>0 DEF PushIsKnown
    <3>9. QED BY <3>1, <3>6, <3>7, <3>8
  <2>4. QED BY <1>4, <2>1, <2>2, <2>3 DEF Refused
<1>5. ASSUME NEW c \in Drains, ServerAccepts(c) PROVE Goal
  <2>1. CASE c = d
    <3>1. sent[d] \in Snapshot /\ sent[d].entity \in Entities /\ sent[d].ver \in Nat
      BY <1>0, <1>5, <2>1 DEF ServerAccepts, PushIsKnown, Snapshot
    <3>2. sent[d].ver <= reached'[sent[d].entity]
      BY <1>0, <1>5, <2>1, <3>1 DEF ServerAccepts, Reach, Max2, TypeOK
    <3>3. QED BY <1>0, <1>5, <2>1, <3>1, <3>2 DEF ServerAccepts, TypeOK
  <2>2. CASE c # d
    BY <1>0, <1>1, <1>5, <2>2 DEF ServerAccepts, TypeOK
  <2>3. QED BY <2>1, <2>2
<1>6. ASSUME NEW c \in Drains, Connect(c) \/ SyncRun(c) \/ ReadQueue(c) PROVE Goal
  <2>1. CASE c = d
    BY <1>0, <1>6, <2>1 DEF Connect, SyncRun, ReadQueue, PushIsKnown, TypeOK
  <2>2. CASE c # d
    BY <1>0, <1>1, <1>6, <2>2 DEF Connect, SyncRun, ReadQueue, TypeOK
  <2>3. QED BY <2>1, <2>2
<1>7. ASSUME NEW c \in Drains, Return(c) \/ Continue(c) PROVE Goal
  <2>1. CASE c = d
    BY <1>0, <1>2, <1>7, <2>1 DEF Return, Continue, TypeOK
  <2>2. CASE c # d
    BY <1>0, <1>1, <1>7, <2>2 DEF Return, Continue, TypeOK
  <2>3. QED BY <2>1, <2>2
<1>8. CASE Kill
  BY <1>2, <1>8 DEF Kill
<1>9. CASE UNCHANGED loop
  BY <1>1, <1>9 DEF loop
<1>10. QED
  <2>1. \/ UNCHANGED loop
        \/ \E c \in Drains : \/ Push(c) \/ Refused(c) \/ ServerAccepts(c)
                             \/ Connect(c) \/ SyncRun(c) \/ ReadQueue(c)
                             \/ Return(c) \/ Continue(c)
        \/ Kill
    BY DEF Next, Drain, vars, loop, Disconnect, DrainEnds, Unreachable, Acknowledged,
       RateLimited, MarkFailed, Write, DeferralExpires, LatePushArrives
  <2>2. QED BY <1>3, <1>4, <1>5, <1>6, <1>7, <1>8, <1>9, <2>1

LEMMA ForgottenOnlyByOverlapStep ==
    ASSUME IInv, [Next]_vars
    PROVE  ForgottenOnlyByOverlap'
<1>0. TypeOK /\ RowIsNewest /\ SnapshotIsNewest /\ PushIsKnown /\ ForgottenOnlyByOverlap
  BY DEF IInv
<1> SUFFICES ASSUME NEW f \in Entities, local'[f] > reached'[f]
             PROVE  \/ outbox'[f] # NoEntry /\ outbox'[f].ver = local'[f]
                    \/ f \in overlap'
  BY DEF ForgottenOnlyByOverlap, Queued
<1>1. ASSUME NEW e \in Entities, Write(e)
      PROVE  \/ outbox'[f] # NoEntry /\ outbox'[f].ver = local'[f]
             \/ f \in overlap'
  <2>1. CASE f = e
    BY <1>0, <1>1, <2>1, WriteStep DEF TypeOK
  <2>2. CASE f # e
    <3>1. reached' = reached /\ outbox'[f] = outbox[f] /\ local'[f] = local[f]
      BY <1>0, <1>1, <2>2, WriteStep DEF TypeOK
    <3>2. f \in overlap => f \in overlap'
      BY <1>1, <2>2 DEF Write
    <3>3. QED BY <1>0, <3>1, <3>2 DEF ForgottenOnlyByOverlap, Queued
  <2>3. QED BY <2>1, <2>2
<1>2. CASE ~\E e \in Entities : Write(e)
  <2>1. local' = local /\ overlap' = overlap
    BY <1>2, TableStep
  <2>2. local[f] > reached[f]
    BY <1>0, <2>1, ServerStep DEF TypeOK
  <2>3. ASSUME NEW d \in Drains, Acks(d, f), f \notin overlap PROVE FALSE
    <3>1. sent[d] \in Snapshot /\ sent[d].ver <= reached[f] /\ Held(d, sent[d])
      BY <1>0, <2>3 DEF Acks, PushIsKnown, Held
    <3>2. sent[d].ver = local[f]
      BY <1>0, <2>3, <3>1 DEF SnapshotIsNewest, Acks
    <3>3. QED BY <1>0, <2>2, <3>1, <3>2 DEF TypeOK
  <2>4. f \notin overlap =>
          outbox[f] # NoEntry /\ outbox'[f] # NoEntry /\ outbox'[f].ver = outbox[f].ver
    BY <1>0, <1>2, <2>2, <2>3, TableStep DEF ForgottenOnlyByOverlap, Queued
  <2>5. QED BY <1>0, <2>1, <2>2, <2>4 DEF ForgottenOnlyByOverlap, Queued
<1>3. QED BY <1>1, <1>2

LEMMA ParkedOnlyByRefusalsStep ==
    ASSUME IInv, [Next]_vars
    PROVE  ParkedOnlyByRefusals'
<1>0. TypeOK /\ TypeOK' /\ PushIsKnown /\ ParkedOnlyByRefusals
  BY TypeStep DEF IInv
<1> SUFFICES ASSUME NEW f \in Entities, outbox'[f] # NoEntry
             PROVE  outbox'[f].attempts <= refusals'[f] \/ refusals'[f] = MaxAttempts
  BY DEF ParkedOnlyByRefusals
<1>1. ASSUME outbox[f] # NoEntry, outbox'[f].attempts = outbox[f].attempts
      PROVE  outbox'[f].attempts <= refusals'[f] \/ refusals'[f] = MaxAttempts
  <2>1. outbox[f].attempts \in Nat
    BY <1>0, <1>1 DEF TypeOK, Entry
  <2>2. outbox[f].attempts <= refusals[f] \/ refusals[f] = MaxAttempts
    BY <1>0, <1>1 DEF ParkedOnlyByRefusals
  <2>3. QED BY <1>0, <1>1, <2>1, <2>2, ServerStep DEF TypeOK
<1>2. ASSUME NEW e \in Entities, Write(e)
      PROVE  outbox'[f].attempts <= refusals'[f] \/ refusals'[f] = MaxAttempts
  <2>1. CASE f = e /\ outbox[e] = NoEntry
    BY <1>0, <1>2, <2>1, WriteStep DEF TypeOK
  <2>2. CASE f = e /\ outbox[e] # NoEntry
    BY <1>1, <1>2, <2>2, WriteStep
  <2>3. CASE f # e
    <3>1. outbox'[f] = outbox[f]
      BY <1>2, <2>3, WriteStep
    <3>2. QED BY <1>1, <3>1
  <2>4. QED BY <2>1, <2>2, <2>3
<1>3. CASE ~\E e \in Entities : Write(e)
  <2>1. ASSUME NEW d \in Drains, pc[d] = "marking", sent[d].entity = f,
               outbox'[f].attempts = seen[d] + 1
        PROVE  outbox'[f].attempts <= refusals'[f] \/ refusals'[f] = MaxAttempts
    <3>1. seen[d] + 1 <= refusals[f] \/ refusals[f] = MaxAttempts
      BY <1>0, <2>1 DEF PushIsKnown
    <3>2. QED BY <1>0, <2>1, <3>1, ServerStep DEF TypeOK
  <2>2. QED BY <1>1, <1>3, <2>1, TableStep
<1>4. QED BY <1>2, <1>3

-----------------------------------------------------------------------------
LEMMA Induction == Spec => []IInv
<1>1. Init => IInv
  <2> SUFFICES ASSUME Init PROVE IInv
    OBVIOUS
  <2>1. TypeOK
    BY DEF Init, TypeOK
  <2>2. RowIsNewest /\ ParkedOnlyByRefusals
    BY DEF Init, RowIsNewest, ParkedOnlyByRefusals
  <2>3. SnapshotIsNewest
    BY DEF Init, SnapshotIsNewest, Held
  <2>4. PushIsKnown
    BY DEF Init, PushIsKnown
  <2>5. ForgottenOnlyByOverlap
    BY DEF Init, ForgottenOnlyByOverlap
  <2>6. QED BY <2>1, <2>2, <2>3, <2>4, <2>5 DEF IInv
<1>2. IInv /\ [Next]_vars => IInv'
  BY TypeStep, RowIsNewestStep, SnapshotIsNewestStep, PushIsKnownStep, ForgottenOnlyByOverlapStep,
     ParkedOnlyByRefusalsStep DEF IInv
<1>3. QED BY <1>1, <1>2, PTL DEF Spec

(* The state of the queue, its drains and the server keeps its type.       *)
THEOREM TypeCorrect == Spec => []TypeOK
  BY Induction, PTL DEF IInv

(* A write that neither has reached the server nor is queued was made      *)
(* while a drain was holding an older snapshot of its entity; kills, lost  *)
(* answers, deferrals and parked rows never make the queue forget one.     *)
THEOREM WritesForgottenOnlyByOverlap == Spec => []ForgottenOnlyByOverlap
  BY Induction, PTL DEF IInv

(* A row uses up its attempts only on answers of the server.               *)
THEOREM RowsParkedOnlyByRefusals == Spec => []ParkedOnlyByRefusals
  BY Induction, PTL DEF IInv

(* A step that removes a row removes it for a version that has reached the *)
(* server.                                                                 *)
THEOREM RowsDeletedOnlyWhenReached == Spec => DeletedOnlyWhenReached
<1>1. IInv /\ [Next]_vars =>
        [\A e \in Entities : outbox[e] # NoEntry /\ outbox'[e] = NoEntry =>
           \E d \in Drains : /\ sent[d] # NoEntry /\ sent[d].entity = e
                             /\ 0 < sent[d].ver /\ sent[d].ver <= reached[e]]_vars
  <2> SUFFICES ASSUME IInv, [Next]_vars,
                      NEW e \in Entities, outbox[e] # NoEntry, outbox'[e] = NoEntry
               PROVE  \E d \in Drains : /\ sent[d] # NoEntry /\ sent[d].entity = e
                                        /\ 0 < sent[d].ver /\ sent[d].ver <= reached[e]
    OBVIOUS
  <2>1. ~\E f \in Entities : Write(f)
    BY WriteStep
  <2>2. PICK d \in Drains : Acks(d, e)
    BY <2>1, TableStep
  <2>3. sent[d] \in Snapshot /\ sent[d].ver <= reached[e] /\ Held(d, sent[d])
    BY <2>2 DEF IInv, Acks, PushIsKnown, Held
  <2>4. QED BY <2>2, <2>3 DEF IInv, SnapshotIsNewest, Acks
<1>2. QED BY <1>1, Induction, PTL DEF Spec, DeletedOnlyWhenReached

-----------------------------------------------------------------------------
(* The queue implements Delivery.  What a drain holds, what is still on    *)
(* its way and what has reached the server are changes that were made.     *)

NothingIsInvented ==
    /\ \A d \in Drains, x \in Snapshot : Held(d, x) => x.ver <= local[x.entity]
    /\ \A x \in late : x.ver <= local[x.entity]
    /\ \A e \in Entities : reached[e] <= local[e]

LEMMA LocalOnlyGrows ==
    ASSUME IInv, [Next]_vars
    PROVE  \A e \in Entities : local[e] <= local'[e]
<1>0. TypeOK
  BY DEF IInv
<1>1. ASSUME NEW e \in Entities, Write(e) PROVE \A f \in Entities : local[f] <= local'[f]
  BY <1>0, <1>1 DEF Write, TypeOK
<1>2. CASE ~\E e \in Entities : Write(e)
  BY <1>0, <1>2, TableStep DEF TypeOK
<1>3. QED BY <1>1, <1>2

(* A push still on its way was one a drain held.                           *)
LEMMA LateStep ==
    ASSUME IInv, [Next]_vars, NEW x \in late'
    PROVE  x \in late \/ (x \in Snapshot /\ \E d \in Drains : Held(d, x))
<1>0. TypeOK /\ PushIsKnown
  BY DEF IInv
<1>1. ASSUME NEW d \in Drains, pc[d] = "sending"
      PROVE  sent[d] \in Snapshot /\ Held(d, sent[d])
  BY <1>0, <1>1, NoEntryAssumption DEF PushIsKnown, Held
<1>2. \/ late' \subseteq late
      \/ \E d \in Drains : pc[d] = "sending" /\ late' \subseteq late \cup {sent[d]}
      \/ late' \subseteq late \cup {sent[d] : d \in {c \in Drains : pc[c] = "sending"}}
  <2>1. CASE Kill
    BY <2>1 DEF Kill
  <2>2. ASSUME NEW d \in Drains, Unreachable(d)
        PROVE  pc[d] = "sending" /\ late' \subseteq late \cup {sent[d]}
    BY <2>2 DEF Unreachable
  <2>3. CASE late' \subseteq late
    BY <2>3
  <2>4. QED
    BY <2>1, <2>2, <2>3 DEF Next, Drain, vars, loop, Connect, SyncRun, Disconnect, ReadQueue,
       Push, DrainEnds, Acknowledged, RateLimited, Refused, MarkFailed, Write,
       DeferralExpires, ServerAccepts, LatePushArrives
<1>3. QED BY <1>1, <1>2

(* Only a push that was held or on its way reaches the server.             *)
LEMMA ArrivalStep ==
    ASSUME IInv, [Next]_vars
    PROVE  \/ UNCHANGED reached
           \/ \E x \in Snapshot :
                /\ Reach(x) /\ UNCHANGED <<local, outbox, overlap>>
                /\ x \in late \/ \E d \in Drains : Held(d, x)
<1>0. TypeOK /\ PushIsKnown
  BY DEF IInv
<1>1. ASSUME NEW d \in Drains, ServerAccepts(d)
      PROVE  /\ sent[d] \in Snapshot /\ Held(d, sent[d])
             /\ Reach(sent[d]) /\ UNCHANGED <<local, outbox, overlap>>
  BY <1>0, <1>1, NoEntryAssumption DEF ServerAccepts, PushIsKnown, Held
<1>2. ASSUME NEW x \in late, LatePushArrives(x)
      PROVE  x \in Snapshot /\ Reach(x) /\ UNCHANGED <<local, outbox, overlap>>
  BY <1>0, <1>2 DEF LatePushArrives, TypeOK
<1>3. \/ UNCHANGED reached
      \/ \E d \in Drains : ServerAccepts(d)
      \/ \E x \in late : LatePushArrives(x)
  BY DEF Next, Drain, vars, Connect, SyncRun, Disconnect, ReadQueue, Push, DrainEnds,
     Unreachable, Kill, Acknowledged, RateLimited, Refused, MarkFailed, Write, DeferralExpires
<1>4. QED BY <1>1, <1>2, <1>3

LEMMA NothingIsInventedStep ==
    ASSUME IInv, NothingIsInvented, [Next]_vars
    PROVE  NothingIsInvented'
<1>0. TypeOK /\ TypeOK' /\ RowIsNewest
  BY TypeStep DEF IInv
<1>1. ASSUME NEW x \in Snapshot, x.ver <= local[x.entity] PROVE x.ver <= local'[x.entity]
  BY <1>0, <1>1, LocalOnlyGrows DEF TypeOK, Snapshot
<1>2. ASSUME NEW d \in Drains, NEW x \in Snapshot, Held(d, x)' PROVE x.ver <= local'[x.entity]
  <2>1. ASSUME NEW e \in Entities, outbox[e] # NoEntry, x = Row(e)
        PROVE  x.ver <= local[x.entity]
    BY <1>0, <2>1 DEF RowIsNewest, Row, TypeOK
  <2>2. QED BY <1>1, <1>2, <2>1, HeldStep DEF NothingIsInvented
<1>3. ASSUME NEW x \in late' PROVE x.ver <= local'[x.entity]
  <2>1. x \in Snapshot
    BY <1>0 DEF TypeOK
  <2>2. x.ver <= local[x.entity]
    BY <1>3, <2>1, LateStep DEF NothingIsInvented
  <2>3. QED BY <1>1, <2>1, <2>2
<1>4. ASSUME NEW e \in Entities PROVE reached'[e] <= local'[e]
  <2>1. CASE UNCHANGED reached
    BY <1>0, <2>1, LocalOnlyGrows DEF NothingIsInvented, TypeOK
  <2>2. ASSUME NEW x \in Snapshot, Reach(x), UNCHANGED local,
               x \in late \/ \E d \in Drains : Held(d, x)
        PROVE  reached'[e] <= local'[e]
    <3>1. x.ver <= local[x.entity]
      BY <2>2 DEF NothingIsInvented
    <3>2. QED BY <1>0, <2>2, <3>1 DEF NothingIsInvented, Reach, Max2, TypeOK, Snapshot
  <2>3. QED BY <2>1, <2>2, ArrivalStep
<1>5. QED BY <1>2, <1>3, <1>4 DEF NothingIsInvented

(* The queue as Delivery sees it.                                          *)
Carried == [e \in Entities |-> IF outbox[e] = NoEntry THEN 0 ELSE outbox[e].ver]

LEMMA DeliveryStep ==
    ASSUME IInv, IInv', NothingIsInvented, [Next]_vars
    PROVE  [D!Next]_(D!vars)
<1>0. TypeOK /\ TypeOK' /\ RowIsNewest /\ PushIsKnown /\ SnapshotIsNewest
  BY DEF IInv
<1>1. ASSUME NEW e \in Entities, Write(e) PROVE D!Change(e)
  <2>1. Carried' = [Carried EXCEPT ![e] = local[e] + 1]
    BY <1>0, <1>1, WriteStep DEF Carried
  <2>2. overlap' \in {overlap \cup {e}, overlap \ {e}}
    BY <1>1 DEF Write
  <2>3. QED BY <1>1, <2>1, <2>2, WriteStep DEF D!Change, Carried
<1>2. CASE ~\E e \in Entities : Write(e)
  <2>1. local' = local /\ overlap' = overlap
    BY <1>2, TableStep
  <2>2. ASSUME NEW x \in Snapshot, Reach(x), UNCHANGED outbox,
               x \in late \/ \E d \in Drains : Held(d, x)
        PROVE  D!Deliver(x.entity) \/ UNCHANGED reached
    <3>1. x.entity \in Entities /\ x.ver \in Nat /\ x.ver <= local[x.entity]
      BY <2>2 DEF NothingIsInvented, Snapshot
    <3>2. reached' = [reached EXCEPT ![x.entity] = Max2(reached[x.entity], x.ver)]
      BY <1>0, <2>2 DEF Reach
    <3>3. CASE reached[x.entity] < x.ver
      <4>1. x.ver \in 1..local[x.entity] /\ Max2(reached[x.entity], x.ver) = x.ver
        BY <1>0, <3>1, <3>3 DEF Max2, TypeOK
      <4>2. Carried' = Carried
        BY <2>2 DEF Carried
      <4>3. QED BY <2>1, <3>1, <3>2, <3>3, <4>1, <4>2 DEF D!Deliver, Carried
    <3>4. CASE ~(reached[x.entity] < x.ver)
      BY <1>0, <3>1, <3>2, <3>4 DEF Max2, TypeOK
    <3>5. QED BY <3>3, <3>4
  <2>3. ASSUME NEW d \in Drains, Acknowledged(d), NEW f \in Entities, f = sent[d].entity
        PROVE  D!Release(f) \/ UNCHANGED outbox
    <3>1. /\ sent[d] \in Snapshot /\ Held(d, sent[d])
          /\ sent[d].ver \in Nat /\ sent[d].ver <= reached[f]
      BY <1>0, <2>3, NoEntryAssumption DEF Acknowledged, PushIsKnown, Held, Snapshot
    <3>2. reached[f] = local[f] \/ (f \in overlap /\ reached[f] > 0)
      BY <1>0, <2>3, <3>1 DEF NothingIsInvented, SnapshotIsNewest, TypeOK
    <3>3. outbox' = [outbox EXCEPT ![f] = NoEntry] /\ UNCHANGED reached
      BY <2>3 DEF Acknowledged
    <3>4. CASE outbox[f] = NoEntry
      BY <1>0, <3>1, <3>3, <3>4 DEF TypeOK
    <3>5. CASE outbox[f] # NoEntry
      <4>1. Carried' = [Carried EXCEPT ![f] = 0]
        BY <1>0, <3>1, <3>3 DEF Carried, TypeOK
      <4>2. Carried[f] # 0
        BY <1>0, <3>1, <3>5 DEF Carried, RowIsNewest, TypeOK
      <4>3. QED BY <2>1, <3>1, <3>2, <3>3, <4>1, <4>2 DEF D!Release, Carried
    <3>6. QED BY <3>4, <3>5
  <2>4. CASE ~\E d \in Drains : Acknowledged(d)
    <3>1. Carried' = Carried
      BY <1>2, <2>4, TableStep DEF Carried
    <3>2. CASE UNCHANGED reached
      BY <2>1, <3>1, <3>2 DEF D!vars, Carried
    <3>3. ASSUME NEW x \in Snapshot, D!Deliver(x.entity) PROVE D!Next
      BY <3>3 DEF D!Next, Snapshot
    <3>4. CASE ~UNCHANGED reached
      <4>1. PICK x \in Snapshot : /\ Reach(x) /\ UNCHANGED <<local, outbox, overlap>>
                                  /\ x \in late \/ \E d \in Drains : Held(d, x)
        BY <3>4, ArrivalStep
      <4>2. D!Deliver(x.entity)
        BY <2>2, <3>4, <4>1
      <4>3. QED BY <3>3, <4>2
    <3>5. QED BY <3>2, <3>4
  <2>5. ASSUME NEW d \in Drains, Acknowledged(d) PROVE [D!Next]_(D!vars)
    <3>1. PICK f \in Entities : f = sent[d].entity
      BY <1>0, <2>5 DEF Acknowledged, PushIsKnown, Snapshot
    <3>2. CASE UNCHANGED outbox
      BY <2>1, <2>5, <3>2 DEF D!vars, Acknowledged
    <3>3. CASE D!Release(f)
      BY <3>3 DEF D!Next
    <3>4. QED BY <2>3, <2>5, <3>1, <3>2, <3>3
  <2>6. QED BY <2>4, <2>5
<1>3. ASSUME NEW e \in Entities, D!Change(e) PROVE D!Next
  BY <1>3 DEF D!Next
<1>4. QED BY <1>1, <1>2, <1>3

(* Every behaviour of the queue is one of Delivery, whatever the number of *)
(* entities, drains and attempts.                                          *)
THEOREM QueueImplementsDelivery == Spec => ImplementsDelivery
<1>1. Init => D!Init
  BY DEF Init, D!Init
<1>2. Init => NothingIsInvented
  BY DEF Init, NothingIsInvented, Held
<1>3. IInv /\ NothingIsInvented /\ [Next]_vars => NothingIsInvented'
  BY NothingIsInventedStep
<1>4. IInv /\ IInv' /\ NothingIsInvented /\ [Next]_vars => [D!Next]_(D!vars)
  BY DeliveryStep
<1>5. QED BY <1>1, <1>2, <1>3, <1>4, Induction, PTL DEF Spec, ImplementsDelivery, D!Spec
=============================================================================
