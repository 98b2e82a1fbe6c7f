------------------------- MODULE SyncEngine_proofs --------------------------
(***************************************************************************)
(* A run of the engine never undoes an unsent review, and never leaves the *)
(* device with progress that the server lacks and no push will bring; its  *)
(* cursor passes only what a page was cut before, or what came too late    *)
(* for one: for any number of cards and of runs, and any page size.        *)
(*                                                                         *)
(* The argument: versions are ranked by one total preorder on both sides,  *)
(* the server's cards only rise in it, and so a page is never ahead of the *)
(* server; a card of the device is then either covered by the server's or  *)
(* still the very version its queue row carries.  A version the cursor of  *)
(* a run will pass is, from the moment the server's cards are read, the    *)
(* device's, in the page, or on record as left out.                        *)
(***************************************************************************)
EXTENDS SyncEngine, TLAPS

Cards == Card \cup {NoCard}

PagesAreBehind ==
    \A r \in Runs, k \in Keys : Covers(server[k], page[r][k])

AheadIsTheQueuedVersion ==
    \A k \in Keys :
        \/ Covers(server[k], local[k])
        \/ queue[k] # NoCard /\ local[k] = queue[k]
        \/ k \in overlap

(* Without a review in between, a drain holds what the row still carries,  *)
(* or a row that is gone.                                                  *)
HeldIsQueued ==
    \A r \in Runs, k \in Keys :
        todo[r][k] # NoCard /\ k \notin overlap => queue[k] \in {todo[r][k], NoCard}

PushedHasArrived ==
    /\ \A r \in Runs : \A k \in pushed[r] :
            todo[r][k] # NoCard /\ Covers(server[k], todo[r][k])
    /\ \A r \in Runs : pc[r] # "draining" => pushed[r] = {}

IInv ==
    /\ TypeOK
    /\ UnsentReviewIsKept
    /\ PagesAreBehind
    /\ AheadIsTheQueuedVersion
    /\ HeldIsQueued
    /\ PushedHasArrived

-----------------------------------------------------------------------------
(* The order of versions. *)

LEMMA CoversIsTransitive ==
    ASSUME NEW a \in Cards, NEW b \in Cards, NEW c \in Cards,
           Covers(a, b), Covers(b, c)
    PROVE  Covers(a, c)
  BY DEF Cards, Card, Covers, IncomingWins

LEMMA CoversIsReflexive == ASSUME NEW a \in Cards PROVE Covers(a, a) /\ Covers(a, NoCard)
  BY DEF Cards, Card, Covers, IncomingWins

(* A merge is the least version that covers both. *)
LEMMA MergeIsJoin ==
    ASSUME NEW a \in Cards, NEW b \in Card
    PROVE  /\ Merged(a, b) \in {a, b}
           /\ Covers(Merged(a, b), a) /\ Covers(Merged(a, b), b)
<1>1. CASE a = NoCard
  BY <1>1, CoversIsReflexive DEF Merged, Cards
<1>2. CASE a # NoCard /\ IncomingWins(a, b)
  <2>1. Merged(a, b) = b
    BY <1>2 DEF Merged, MoreRepetitions
  <2>2. Covers(b, a)
    BY <1>2, NoCardAssumption DEF Cards, Card, Covers, IncomingWins
  <2>3. QED BY <2>1, <2>2, CoversIsReflexive DEF Cards
<1>3. CASE a # NoCard /\ ~IncomingWins(a, b)
  BY <1>3, CoversIsReflexive DEF Merged, MoreRepetitions, Covers
<1>4. QED BY <1>1, <1>2, <1>3

(* A merge that does not keep the local version takes a remote one, and    *)
(* what covers both covers it.                                             *)
LEMMA MergeIsCovered ==
    ASSUME NEW a \in Cards, NEW b \in Card, NEW c \in Cards, Covers(c, a), Covers(c, b)
    PROVE  Covers(c, Merged(a, b))
  BY MergeIsJoin

-----------------------------------------------------------------------------
LEMMA EmptyPage == Empty \in [Keys -> Cards] /\ \A k \in Keys : Empty[k] = NoCard
  BY DEF Empty, Cards

LEMMA AcceptStep ==
    ASSUME TypeOK, NEW k \in Keys, NEW c \in Card, Accept(k, c)
    PROVE  /\ server' \in [Keys -> Cards] /\ arrived' \in [Keys -> Nat]
           /\ left' \in [Runs -> SUBSET Keys] /\ skipped' \in SUBSET Keys
           /\ Covers(server'[k], c)
           /\ \A l \in Keys : Covers(server'[l], server[l])
           /\ \A l \in Keys : \A a \in Cards : Covers(server[l], a) => Covers(server'[l], a)
<1>1. server \in [Keys -> Cards]
  BY DEF TypeOK, Cards
<1>2. server'[k] = Merged(server[k], c) /\ server' = [server EXCEPT ![k] = Merged(server[k], c)]
  BY <1>1 DEF Accept
<1>3. server' \in [Keys -> Cards]
  BY <1>1, <1>2, MergeIsJoin DEF Cards
<1>4. /\ arrived' \in [Keys -> Nat]
      /\ left' \in [Runs -> SUBSET Keys] /\ skipped' \in SUBSET Keys
  <2>2. CASE UNCHANGED <<arrived, left, skipped>>
    BY <2>2 DEF TypeOK
  <2>3. CASE /\ arrived' = [arrived EXCEPT ![k] = now]
             /\ left' = [r \in Runs |-> Marked(left[r], k, LateFor(r, c))]
             /\ skipped' = Marked(skipped, k, c.at <= cursor)
    <3>1. \A S \in SUBSET Keys : Marked(S, k, c.at <= cursor) \in SUBSET Keys
      BY DEF Marked
    <3>2. \A r \in Runs : Marked(left[r], k, LateFor(r, c)) \in SUBSET Keys
      BY DEF Marked, TypeOK
    <3>3. QED BY <2>3, <3>1, <3>2 DEF TypeOK
  <2>4. QED BY <2>2, <2>3 DEF Accept
<1>5. Covers(server'[k], c) /\ Covers(server'[k], server[k])
  BY <1>1, <1>2, MergeIsJoin
<1>6. ASSUME NEW l \in Keys PROVE Covers(server'[l], server[l])
  <2>1. CASE l = k
    BY <1>5, <2>1
  <2>2. CASE l # k
    <3>1. server'[l] = server[l]
      BY <1>1, <1>2, <2>2
    <3>2. QED BY <1>1, <3>1, CoversIsReflexive
  <2>3. QED BY <2>1, <2>2
<1>7. ASSUME NEW l \in Keys, NEW a \in Cards, Covers(server[l], a)
      PROVE  Covers(server'[l], a)
  BY <1>1, <1>3, <1>6, <1>7, CoversIsTransitive
<1>8. QED BY <1>3, <1>4, <1>5, <1>6, <1>7

LEMMA OnlyIsTyped ==
    ASSUME NEW cards \in [Keys -> Cards], NEW S
    PROVE  /\ Only(cards, S) \in [Keys -> Cards]
           /\ \A k \in Keys : Only(cards, S)[k] \in {cards[k], NoCard}
  BY DEF Only, Cards

(* A run that ends drops what it held. *)
LEMMA EndedStep ==
    ASSUME TypeOK, NEW S \in SUBSET Runs, Ended(S)
    PROVE  /\ pc' \in [Runs -> {"idle", "draining", "pulling", "served", "applying"}]
           /\ since' \in [Runs -> Nat] /\ stamp' \in [Runs -> Nat]
           /\ page' \in [Runs -> [Keys -> Cards]] /\ todo' \in [Runs -> [Keys -> Cards]]
           /\ pushed' \in [Runs -> SUBSET Keys] /\ left' \in [Runs -> SUBSET Keys]
           /\ \A r \in Runs, k \in Keys : page'[r][k] \in {page[r][k], NoCard}
           /\ \A r \in Runs :
                \/ todo'[r] = todo[r] /\ pushed'[r] = pushed[r] /\ pc'[r] = pc[r]
                \/ pushed'[r] = {} /\ \A k \in Keys : todo'[r][k] = NoCard
<1>1. /\ pc' \in [Runs -> {"idle", "draining", "pulling", "served", "applying"}]
      /\ since' \in [Runs -> Nat] /\ stamp' \in [Runs -> Nat]
      /\ pushed' \in [Runs -> SUBSET Keys] /\ left' \in [Runs -> SUBSET Keys]
  BY DEF Ended, TypeOK
<1>2. page' \in [Runs -> [Keys -> Cards]] /\ todo' \in [Runs -> [Keys -> Cards]]
  BY EmptyPage DEF Ended, TypeOK, Cards
<1>3. \A r \in Runs : page'[r] \in {page[r], Empty}
  BY DEF Ended
<1>4. \A r \in Runs :
        \/ todo'[r] = todo[r] /\ pushed'[r] = pushed[r] /\ pc'[r] = pc[r]
        \/ todo'[r] = Empty /\ pushed'[r] = {}
  BY DEF Ended
<1>5. QED BY <1>1, <1>2, <1>3, <1>4, EmptyPage

-----------------------------------------------------------------------------
(* The parts of the invariant other than the type, by the variables a step *)
(* changes.                                                                *)

(* The server takes a version, of this device or of another. *)
LEMMA ServerMoves ==
    ASSUME IInv, NEW k \in Keys, NEW c \in Card, Accept(k, c),
           UNCHANGED <<local, queue, page, todo, pc, overlap>>,
           \A r \in Runs : \A l \in pushed'[r] :
               l \in pushed[r] \/ (l = k /\ todo[r][k] = c),
           \A r \in Runs : pc[r] # "draining" => pushed'[r] = {},
           pushed' \in [Runs -> SUBSET Keys]
    PROVE  /\ UnsentReviewIsKept' /\ PagesAreBehind' /\ AheadIsTheQueuedVersion'
           /\ HeldIsQueued' /\ PushedHasArrived'
<1>0. /\ TypeOK /\ UnsentReviewIsKept /\ PagesAreBehind /\ AheadIsTheQueuedVersion
      /\ HeldIsQueued /\ PushedHasArrived
  BY DEF IInv
<1>1. /\ local \in [Keys -> Cards] /\ page \in [Runs -> [Keys -> Cards]]
      /\ todo \in [Runs -> [Keys -> Cards]]
  BY <1>0 DEF TypeOK, Cards
<1>2. /\ Covers(server'[k], c)
      /\ \A l \in Keys : \A a \in Cards : Covers(server[l], a) => Covers(server'[l], a)
  BY <1>0, AcceptStep
<1>3. UnsentReviewIsKept' /\ HeldIsQueued'
  BY <1>0 DEF UnsentReviewIsKept, HeldIsQueued
<1>4. PagesAreBehind'
  BY <1>0, <1>1, <1>2 DEF PagesAreBehind
<1>5. AheadIsTheQueuedVersion'
  BY <1>0, <1>1, <1>2 DEF AheadIsTheQueuedVersion
<1>6. PushedHasArrived'
  <2> SUFFICES ASSUME NEW r \in Runs, NEW l \in pushed'[r]
               PROVE  todo[r][l] # NoCard /\ Covers(server'[l], todo[r][l])
    BY DEF PushedHasArrived
  <2>1. l \in Keys
    OBVIOUS
  <2>2. CASE l \in pushed[r]
    BY <1>0, <1>1, <1>2, <2>1, <2>2 DEF PushedHasArrived
  <2>3. CASE l = k /\ todo[r][k] = c
    BY <1>2, <2>3, NoCardAssumption
  <2>4. QED BY <2>2, <2>3
<1>7. QED BY <1>3, <1>4, <1>5, <1>6

(* A run moves on: it holds no more than it did, or what it reads now. *)
LEMMA RunMoves ==
    ASSUME IInv, UNCHANGED <<server, local, queue, overlap>>,
           \A r \in Runs, k \in Keys : Covers(server[k], page'[r][k]),
           \A r \in Runs, k \in Keys : todo'[r][k] \in {todo[r][k], queue[k], NoCard},
           \A r \in Runs : \/ pushed'[r] = {}
                           \/ pushed'[r] = pushed[r] /\ todo'[r] = todo[r] /\ pc'[r] = pc[r]
    PROVE  /\ UnsentReviewIsKept' /\ PagesAreBehind' /\ AheadIsTheQueuedVersion'
           /\ HeldIsQueued' /\ PushedHasArrived'
<1>0. /\ UnsentReviewIsKept /\ PagesAreBehind /\ AheadIsTheQueuedVersion
      /\ HeldIsQueued /\ PushedHasArrived
  BY DEF IInv
<1>1. UnsentReviewIsKept' /\ PagesAreBehind' /\ AheadIsTheQueuedVersion'
  BY <1>0 DEF UnsentReviewIsKept, PagesAreBehind, AheadIsTheQueuedVersion
<1>2. HeldIsQueued'
  BY <1>0 DEF HeldIsQueued
<1>3. PushedHasArrived'
  BY <1>0 DEF PushedHasArrived
<1>4. QED BY <1>1, <1>2, <1>3

LEMMA NothingMoves ==
    ASSUME IInv, UNCHANGED <<server, local, queue, page, todo, pc, pushed, overlap>>
    PROVE  /\ UnsentReviewIsKept' /\ PagesAreBehind' /\ AheadIsTheQueuedVersion'
           /\ HeldIsQueued' /\ PushedHasArrived'
  BY RunMoves DEF IInv, PagesAreBehind

LEMMA ReviewStep ==
    ASSUME IInv, NEW k \in Keys, Review(k)
    PROVE  IInv'
<1>0. /\ TypeOK /\ UnsentReviewIsKept /\ PagesAreBehind /\ AheadIsTheQueuedVersion
      /\ HeldIsQueued /\ PushedHasArrived
  BY DEF IInv
<1> DEFINE c == Reviewed(local[k])
<1>1. c \in Card
  BY <1>0 DEF TypeOK, Card, Reviewed, Reps
<1> HIDE DEF c
<1>2. local' = [local EXCEPT ![k] = c] /\ queue' = [queue EXCEPT ![k] = c]
  BY DEF Review, c
<1>3. \/ overlap' = overlap \cup {k} /\ \E r \in Runs : todo[r][k] # NoCard
      \/ overlap' = overlap \ {k} /\ \A r \in Runs : todo[r][k] = NoCard
  BY DEF Review
<1>4. TypeOK'
  BY <1>0, <1>1, <1>2, <1>3 DEF Review, run, TypeOK
<1>5. \A l \in Keys \ {k} : local'[l] = local[l] /\ queue'[l] = queue[l]
  BY <1>0, <1>2 DEF TypeOK
<1>6. local'[k] = c /\ queue'[k] = c
  BY <1>0, <1>2 DEF TypeOK
<1>7. Covers(c, c) /\ c # NoCard
  BY <1>1, CoversIsReflexive, NoCardAssumption DEF Cards
<1>8. UnsentReviewIsKept'
  BY <1>0, <1>5, <1>6, <1>7 DEF UnsentReviewIsKept
<1>9. UNCHANGED <<server, page, todo, pushed, pc>>
  BY DEF Review, run
<1>10. PagesAreBehind' /\ PushedHasArrived'
  BY <1>0, <1>9 DEF PagesAreBehind, PushedHasArrived
<1>11. AheadIsTheQueuedVersion'
  BY <1>0, <1>3, <1>5, <1>6, <1>7, <1>9 DEF AheadIsTheQueuedVersion
<1>12. HeldIsQueued'
  BY <1>0, <1>3, <1>5, <1>9 DEF HeldIsQueued
<1>13. QED BY <1>4, <1>8, <1>10, <1>11, <1>12 DEF IInv

LEMMA ApplyStep ==
    ASSUME IInv, NEW r \in Runs, Apply(r)
    PROVE  IInv'
<1>0. /\ TypeOK /\ UnsentReviewIsKept /\ PagesAreBehind /\ AheadIsTheQueuedVersion
      /\ HeldIsQueued /\ PushedHasArrived
  BY DEF IInv
<1>1. PICK k \in Keys :
        /\ page[r][k] # NoCard
        /\ local' = [local EXCEPT ![k] = Merged(local[k], page[r][k])]
        /\ page' = [page EXCEPT ![r] = [page[r] EXCEPT ![k] = NoCard]]
  BY DEF Apply
<1> DEFINE c == page[r][k]
           m == Merged(local[k], c)
<1>2. /\ local \in [Keys -> Cards] /\ queue \in [Keys -> Cards] /\ server \in [Keys -> Cards]
      /\ page \in [Runs -> [Keys -> Cards]] /\ c \in Card
  BY <1>0, <1>1 DEF TypeOK, Cards
<1>3. m \in {local[k], c} /\ m \in Cards /\ Covers(m, local[k])
  BY <1>2, MergeIsJoin DEF Cards
<1>4. local'[k] = m /\ \A l \in Keys \ {k} : local'[l] = local[l]
  BY <1>1, <1>2
<1>5. page' \in [Runs -> [Keys -> Cards]]
  BY <1>1, <1>2 DEF Cards
<1>6. \A s \in Runs, l \in Keys : page'[s][l] \in {page[s][l], NoCard}
  BY <1>1, <1>2
<1>7. UNCHANGED <<now, server, arrived, queue, cursor, pc, todo, pushed, since, stamp,
                  left, skipped, overlap>>
  BY DEF Apply
<1>8. TypeOK'
  <2>1. local' \in [Keys -> Cards]
    BY <1>1, <1>2, <1>3
  <2>2. QED BY <1>0, <1>5, <1>7, <2>1 DEF TypeOK, Cards
<1>9. UnsentReviewIsKept'
  <2>1. Covers(local[k], queue[k])
    BY <1>0 DEF UnsentReviewIsKept
  <2>2. Covers(m, queue[k])
    BY <1>2, <1>3, <2>1, CoversIsTransitive
  <2>3. QED BY <1>0, <1>4, <1>7, <2>2 DEF UnsentReviewIsKept
<1>10. PagesAreBehind'
  BY <1>0, <1>2, <1>6, <1>7, CoversIsReflexive DEF PagesAreBehind
<1>11. AheadIsTheQueuedVersion'
  <2>1. Covers(server[k], c)
    BY <1>0 DEF PagesAreBehind
  <2>2. \/ Covers(server[k], m)
        \/ queue[k] # NoCard /\ m = queue[k]
        \/ k \in overlap
    BY <1>0, <1>3, <2>1 DEF AheadIsTheQueuedVersion
  <2>3. QED BY <1>0, <1>4, <1>7, <2>2 DEF AheadIsTheQueuedVersion
<1>12. HeldIsQueued' /\ PushedHasArrived'
  BY <1>0, <1>7 DEF HeldIsQueued, PushedHasArrived
<1>13. QED BY <1>8, <1>9, <1>10, <1>11, <1>12 DEF IInv

LEMMA PushRowStep ==
    ASSUME IInv, NEW r \in Runs, NEW k \in Keys, PushRow(r, k)
    PROVE  IInv'
<1>0. TypeOK /\ PushedHasArrived
  BY DEF IInv
<1>1. todo[r][k] \in Card /\ Accept(k, todo[r][k])
  BY <1>0 DEF PushRow, TypeOK
<1>2. pushed' = [pushed EXCEPT ![r] = {k}] /\ pc[r] = "draining"
  BY DEF PushRow
<1>3. UNCHANGED <<now, local, queue, cursor, pc, todo, since, page, stamp, overlap>>
  BY DEF PushRow
<1>4. pushed' \in [Runs -> SUBSET Keys]
  BY <1>0, <1>2 DEF TypeOK
<1>5. TypeOK'
  BY <1>0, <1>1, <1>3, <1>4, AcceptStep DEF TypeOK, Cards
<1>6. /\ \A s \in Runs : \A l \in pushed'[s] :
           l \in pushed[s] \/ (l = k /\ todo[s][k] = todo[r][k])
      /\ \A s \in Runs : pc[s] # "draining" => pushed'[s] = {}
  BY <1>0, <1>2 DEF TypeOK, PushedHasArrived
<1>7. QED BY <1>1, <1>3, <1>4, <1>5, <1>6, ServerMoves DEF IInv

(* The row that goes carries, unless it was reviewed meanwhile, what the   *)
(* server has just applied.                                                *)
LEMMA PushAnsweredStep ==
    ASSUME IInv, NEW r \in Runs, NEW k \in Keys, PushAnswered(r, k)
    PROVE  IInv'
<1>0. /\ TypeOK /\ UnsentReviewIsKept /\ PagesAreBehind /\ AheadIsTheQueuedVersion
      /\ HeldIsQueued /\ PushedHasArrived
  BY DEF IInv
<1>1. /\ queue' = [queue EXCEPT ![k] = NoCard]
      /\ todo' = [todo EXCEPT ![r] = [todo[r] EXCEPT ![k] = NoCard]]
      /\ pushed' = [pushed EXCEPT ![r] = {}]
      /\ k \in pushed[r]
  BY DEF PushAnswered
<1>2. UNCHANGED <<now, server, arrived, local, cursor, pc, since, page, stamp, left, skipped,
                  overlap>>
  BY DEF PushAnswered
<1>3. /\ queue \in [Keys -> Cards] /\ todo \in [Runs -> [Keys -> Cards]]
      /\ pushed \in [Runs -> SUBSET Keys]
  BY <1>0 DEF TypeOK, Cards
<1>4. queue'[k] = NoCard /\ \A l \in Keys \ {k} : queue'[l] = queue[l]
  BY <1>1, <1>3
<1>5. /\ todo'[r][k] = NoCard
      /\ \A s \in Runs, l \in Keys : s # r \/ l # k => todo'[s][l] = todo[s][l]
  BY <1>1, <1>3
<1>6. TypeOK'
  <2>1. /\ queue' \in [Keys -> Cards] /\ todo' \in [Runs -> [Keys -> Cards]]
        /\ pushed' \in [Runs -> SUBSET Keys]
    BY <1>1, <1>3 DEF Cards
  <2>2. QED BY <1>0, <1>2, <2>1 DEF TypeOK, Cards
<1>7. UnsentReviewIsKept'
  BY <1>0, <1>2, <1>4 DEF UnsentReviewIsKept, Covers
<1>8. PagesAreBehind'
  BY <1>0, <1>2 DEF PagesAreBehind
<1>9. AheadIsTheQueuedVersion'
  <2>1. todo[r][k] # NoCard /\ Covers(server[k], todo[r][k])
    BY <1>0, <1>1 DEF PushedHasArrived
  <2>2. Covers(server[k], local[k]) \/ k \in overlap
    BY <1>0, <2>1 DEF AheadIsTheQueuedVersion, HeldIsQueued
  <2>3. QED BY <1>0, <1>2, <1>4, <2>2 DEF AheadIsTheQueuedVersion
<1>10. HeldIsQueued'
  BY <1>0, <1>2, <1>4, <1>5 DEF HeldIsQueued
<1>11. PushedHasArrived'
  <2>1. pushed'[r] = {} /\ \A s \in Runs \ {r} : pushed'[s] = pushed[s]
    BY <1>1, <1>3
  <2>2. QED BY <1>0, <1>2, <1>3, <1>5, <2>1 DEF PushedHasArrived
<1>12. QED BY <1>6, <1>7, <1>8, <1>9, <1>10, <1>11 DEF IInv

LEMMA EndsStep ==
    ASSUME IInv, NEW S \in SUBSET Runs, Ended(S), cursor' \in Nat, skipped' \in SUBSET Keys,
           UNCHANGED <<now, server, arrived, local, queue, overlap>>
    PROVE  IInv'
<1>0. TypeOK /\ PagesAreBehind
  BY DEF IInv
<1>1. TypeOK'
  BY <1>0, EndedStep DEF TypeOK, Cards
<1>2. /\ \A r \in Runs, k \in Keys : page'[r][k] \in {page[r][k], NoCard}
      /\ \A r \in Runs :
           \/ todo'[r] = todo[r] /\ pushed'[r] = pushed[r] /\ pc'[r] = pc[r]
           \/ pushed'[r] = {} /\ \A k \in Keys : todo'[r][k] = NoCard
  BY <1>0, EndedStep
<1>3. \A r \in Runs, k \in Keys : Covers(server[k], page'[r][k])
  BY <1>0, <1>2 DEF PagesAreBehind, Covers
<1>4. \A r \in Runs, k \in Keys : todo'[r][k] \in {todo[r][k], queue[k], NoCard}
  BY <1>2
<1>5. QED BY <1>1, <1>2, <1>3, <1>4, RunMoves DEF IInv

LEMMA RunStep ==
    ASSUME IInv, NEW r \in Runs,
           \/ Start(r) \/ (\E k \in Keys : PushRefused(r, k)) \/ DrainReturns(r)
           \/ ServePage(r) \/ StampPage(r) \/ SetCursor(r) \/ PullFails(r)
    PROVE  IInv'
<1>0. TypeOK /\ PagesAreBehind /\ PushedHasArrived
  BY DEF IInv
<1>00. /\ queue \in [Keys -> Cards] /\ server \in [Keys -> Cards]
       /\ todo \in [Runs -> [Keys -> Cards]] /\ page \in [Runs -> [Keys -> Cards]]
       /\ pushed \in [Runs -> SUBSET Keys]
  BY <1>0 DEF TypeOK, Cards
<1>1. CASE Start(r)
  <2>1. PICK S \in SUBSET Keys : todo' = [todo EXCEPT ![r] = Only(queue, S)]
    BY <1>1 DEF Start
  <2>2. /\ Only(queue, S) \in [Keys -> Cards]
        /\ \A k \in Keys : Only(queue, S)[k] \in {queue[k], NoCard}
    BY <1>00, OnlyIsTyped
  <2>3. todo' \in [Runs -> [Keys -> Cards]]
    BY <1>00, <2>1, <2>2
  <2>4. \A s \in Runs, k \in Keys : todo'[s][k] \in {todo[s][k], queue[k], NoCard}
    BY <1>00, <2>1, <2>2
  <2>5. TypeOK'
    BY <1>0, <1>1, <2>3 DEF Start, TypeOK, Cards
  <2>6. UNCHANGED <<server, local, queue, page, pushed, overlap>>
    BY <1>1 DEF Start
  <2>7. \A s \in Runs : \/ pushed'[s] = {}
                        \/ pushed'[s] = pushed[s] /\ todo'[s] = todo[s] /\ pc'[s] = pc[s]
    <3>1. pushed[r] = {}
      BY <1>0, <1>1 DEF Start, PushedHasArrived
    <3>2. \A s \in Runs \ {r} : todo'[s] = todo[s] /\ pc'[s] = pc[s]
      BY <1>0, <1>00, <1>1, <2>1 DEF Start, TypeOK
    <3>3. QED BY <2>6, <3>1, <3>2
  <2>8. \A s \in Runs, k \in Keys : Covers(server[k], page'[s][k])
    BY <1>0, <2>6 DEF PagesAreBehind
  <2>9. QED BY <2>4, <2>5, <2>6, <2>7, <2>8, RunMoves DEF IInv
<1>2. ASSUME NEW k \in Keys, PushRefused(r, k) PROVE IInv'
  <2>1. todo' = [todo EXCEPT ![r] = [todo[r] EXCEPT ![k] = NoCard]] /\ pushed[r] = {}
    BY <1>2 DEF PushRefused
  <2>2. UNCHANGED <<now, server, arrived, local, queue, cursor, pc, pushed, since, page,
                    stamp, left, skipped, overlap>>
    BY <1>2 DEF PushRefused
  <2>3. todo' \in [Runs -> [Keys -> Cards]]
    BY <1>00, <2>1 DEF Cards
  <2>4. TypeOK'
    BY <1>0, <2>2, <2>3 DEF TypeOK, Cards
  <2>5. \A s \in Runs, l \in Keys : todo'[s][l] \in {todo[s][l], NoCard}
    BY <1>00, <2>1
  <2>6. \A s \in Runs \ {r} : todo'[s] = todo[s]
    BY <1>00, <2>1
  <2>7. \A s \in Runs, l \in Keys : Covers(server[l], page'[s][l])
    BY <1>0, <2>2 DEF PagesAreBehind
  <2>8. QED BY <2>1, <2>2, <2>4, <2>5, <2>6, <2>7, RunMoves DEF IInv
<1>3. CASE DrainReturns(r)
  <2>1. todo' = [todo EXCEPT ![r] = Empty] /\ pushed' = [pushed EXCEPT ![r] = {}]
    BY <1>3 DEF DrainReturns
  <2>2. todo' \in [Runs -> [Keys -> Cards]]
    BY <1>00, <2>1, EmptyPage
  <2>3. TypeOK'
    BY <1>0, <1>3, <2>2 DEF DrainReturns, TypeOK, Cards
  <2>4. \A s \in Runs, k \in Keys : todo'[s][k] \in {todo[s][k], NoCard}
    BY <1>00, <2>1, EmptyPage
  <2>5. /\ pushed'[r] = {}
        /\ \A s \in Runs \ {r} : pushed'[s] = pushed[s] /\ todo'[s] = todo[s]
    BY <1>00, <2>1
  <2>6. \A s \in Runs \ {r} : pc'[s] = pc[s]
    BY <1>0, <1>3 DEF DrainReturns, TypeOK
  <2>7. UNCHANGED <<server, local, queue, page, overlap>>
    BY <1>3 DEF DrainReturns
  <2>8. \A s \in Runs, k \in Keys : Covers(server[k], page'[s][k])
    BY <1>0, <2>7 DEF PagesAreBehind
  <2>9. QED BY <2>3, <2>4, <2>5, <2>6, <2>7, <2>8, RunMoves DEF IInv
<1>4. CASE ServePage(r)
  <2>1. PICK S \in SUBSET Keys : page' = [page EXCEPT ![r] = Only(server, S)]
    BY <1>4 DEF ServePage
  <2>2. /\ Only(server, S) \in [Keys -> Cards]
        /\ \A k \in Keys : Only(server, S)[k] \in {server[k], NoCard}
    BY <1>00, OnlyIsTyped
  <2>3. page' \in [Runs -> [Keys -> Cards]]
    BY <1>00, <2>1, <2>2
  <2>4. TypeOK'
    <3>1. left' \in [Runs -> SUBSET Keys]
      BY <1>0, <1>4 DEF ServePage, Changed, TypeOK
    <3>2. QED BY <1>0, <1>4, <2>3, <3>1 DEF ServePage, TypeOK, Cards
  <2>5. \A s \in Runs, k \in Keys : page'[s][k] \in {page[s][k], server[k], NoCard}
    BY <1>00, <2>1, <2>2
  <2>6. \A s \in Runs, k \in Keys : Covers(server[k], page'[s][k])
    BY <1>0, <1>00, <2>5, CoversIsReflexive DEF PagesAreBehind
  <2>7. UNCHANGED <<server, local, queue, todo, pushed, overlap>>
    BY <1>4 DEF ServePage
  <2>8. \A s \in Runs : pushed'[s] = {} \/ pc'[s] = pc[s]
    BY <1>0, <1>4 DEF ServePage, TypeOK, PushedHasArrived
  <2>9. QED BY <2>4, <2>6, <2>7, <2>8, RunMoves DEF IInv
<1>5. CASE StampPage(r)
  <2>2. TypeOK'
    BY <1>0, <1>5 DEF StampPage, TypeOK
  <2>3. UNCHANGED <<server, local, queue, page, todo, pushed, overlap>>
    BY <1>5 DEF StampPage
  <2>4. \A s \in Runs : pushed'[s] = {} \/ pc'[s] = pc[s]
    BY <1>0, <1>5 DEF StampPage, TypeOK, PushedHasArrived
  <2>5. \A s \in Runs, k \in Keys : Covers(server[k], page'[s][k])
    BY <1>0, <2>3 DEF PagesAreBehind
  <2>6. QED BY <2>2, <2>3, <2>4, <2>5, RunMoves DEF IInv
<1>6. CASE SetCursor(r) \/ PullFails(r)
  <2>1. Ended({r})
    BY <1>6 DEF SetCursor, PullFails
  <2>2. /\ UNCHANGED <<now, server, arrived, local, queue, overlap>>
        /\ cursor' \in Nat /\ skipped' \in SUBSET Keys
    BY <1>0, <1>6 DEF SetCursor, PullFails, TypeOK
  <2>3. QED BY <2>1, <2>2, EndsStep
<1>7. QED BY <1>1, <1>2, <1>3, <1>4, <1>5, <1>6

LEMMA InitIInv == Init => IInv
<1> SUFFICES ASSUME Init PROVE IInv
  OBVIOUS
<1>1. TypeOK
  BY EmptyPage DEF Init, TypeOK, Cards
<1>2. UnsentReviewIsKept /\ PagesAreBehind /\ AheadIsTheQueuedVersion
  BY EmptyPage DEF Init, UnsentReviewIsKept, PagesAreBehind, AheadIsTheQueuedVersion, Covers
<1>3. HeldIsQueued /\ PushedHasArrived
  BY EmptyPage DEF Init, HeldIsQueued, PushedHasArrived
<1>4. QED BY <1>1, <1>2, <1>3 DEF IInv

LEMMA NextIInv == IInv /\ [Next]_vars => IInv'
<1> SUFFICES ASSUME IInv, [Next]_vars PROVE IInv'
  OBVIOUS
<1>0. TypeOK /\ PushedHasArrived
  BY DEF IInv
<1>1. CASE Tick
  <2>1. TypeOK'
    BY <1>0, <1>1 DEF Tick, run, TypeOK
  <2>2. QED BY <1>1, <2>1, NothingMoves DEF Tick, run, IInv
<1>2. ASSUME NEW k \in Keys, Review(k) PROVE IInv'
  BY <1>2, ReviewStep
<1>3. ASSUME NEW k \in Keys, NEW c \in OthersCards, OthersPush(k, c) PROVE IInv'
  <2>1. c \in Card
    BY BoundsAssumption DEF OthersCards, Card
  <2>2. Accept(k, c) /\ UNCHANGED <<now, local, queue, cursor, run, overlap>>
    BY <1>3 DEF OthersPush
  <2>3. TypeOK'
    BY <1>0, <2>1, <2>2, AcceptStep DEF TypeOK, run, Cards
  <2>4. pushed' \in [Runs -> SUBSET Keys] /\ pushed' = pushed
    BY <1>0, <2>2 DEF TypeOK, run
  <2>5. QED BY <1>0, <2>1, <2>2, <2>3, <2>4, ServerMoves DEF IInv, run, PushedHasArrived
<1>4. ASSUME NEW r \in Runs, NEW k \in Keys, PushRow(r, k) PROVE IInv'
  BY <1>4, PushRowStep
<1>5. ASSUME NEW r \in Runs, NEW k \in Keys, PushAnswered(r, k) PROVE IInv'
  BY <1>5, PushAnsweredStep
<1>6. ASSUME NEW r \in Runs, Apply(r) PROVE IInv'
  BY <1>6, ApplyStep
<1>7. ASSUME NEW r \in Runs,
             \/ Start(r) \/ (\E k \in Keys : PushRefused(r, k)) \/ DrainReturns(r)
             \/ ServePage(r) \/ StampPage(r) \/ SetCursor(r) \/ PullFails(r)
      PROVE  IInv'
  BY <1>7, RunStep
<1>8. CASE Kill
  <2>1. Ended(Runs) /\ UNCHANGED <<now, server, arrived, local, queue, cursor, skipped, overlap>>
    BY <1>8 DEF Kill
  <2>2. QED BY <1>0, <2>1, EndsStep DEF TypeOK
<1>9. CASE UNCHANGED vars
  <2>1. TypeOK'
    BY <1>0, <1>9 DEF vars, TypeOK
  <2>2. QED BY <1>9, <2>1, NothingMoves DEF vars, IInv
<1>10. QED BY <1>1, <1>2, <1>3, <1>4, <1>5, <1>6, <1>7, <1>8, <1>9 DEF Next

LEMMA Induction == Spec => []IInv
  BY InitIInv, NextIInv, PTL DEF Spec

(* The state of the engine, the device and the server keeps its type.      *)
THEOREM TypeCorrect == Spec => []TypeOK
  BY Induction, PTL DEF IInv

(* No pull takes away the progress of a review that is still to be sent.   *)
THEOREM UnsentReviewsAreKept == Spec => []UnsentReviewIsKept
  BY Induction, PTL DEF IInv

(* Progress the server lacks is in the queue, but for a card that was      *)
(* reviewed while a drain was holding its row.                             *)
THEOREM ProgressIsQueued == Spec => []AheadIsQueued
<1>1. IInv => AheadIsQueued
  BY DEF IInv, AheadIsTheQueuedVersion, AheadIsQueued
<1>2. QED BY <1>1, Induction, PTL

LEMMA StepsRise ==
    ASSUME IInv, Next
    PROVE  \A k \in Keys : Covers(local'[k], local[k]) /\ Covers(server'[k], server[k])
<1> DEFINE Rise == \A k \in Keys : Covers(local'[k], local[k]) /\ Covers(server'[k], server[k])
<1>1. Rise
  <2> SUFFICES ASSUME NEW k \in Keys
               PROVE  Covers(local'[k], local[k]) /\ Covers(server'[k], server[k])
    OBVIOUS
  <2>0. TypeOK /\ local \in [Keys -> Cards] /\ server \in [Keys -> Cards]
        /\ page \in [Runs -> [Keys -> Cards]] /\ todo \in [Runs -> [Keys -> Cards]]
    BY DEF IInv, TypeOK, Cards
  <2>1. Covers(local[k], local[k]) /\ Covers(server[k], server[k])
    BY <2>0, CoversIsReflexive
  <2>2. ASSUME NEW l \in Keys, Review(l) PROVE Rise
    <3>1. local' = [local EXCEPT ![l] = Reviewed(local[l])] /\ server' = server
      BY <2>2 DEF Review
    <3>2. Covers(Reviewed(local[l]), local[l])
      <4>1. local[l] \in Cards /\ now \in Nat
        BY <2>0 DEF TypeOK
      <4>2. Reviewed(local[l]) \in Card /\ Reviewed(local[l]) # NoCard
        BY <4>1, NoCardAssumption DEF Reviewed, Reps, Cards, Card
      <4>3. QED BY <4>1, <4>2 DEF Reviewed, Reps, Covers, IncomingWins, Cards, Card
    <3>3. QED BY <2>0, <3>1, <3>2, CoversIsReflexive
  <2>3. ASSUME NEW l \in Keys, NEW c \in Card, Accept(l, c), local' = local PROVE Rise
    BY <2>0, <2>3, AcceptStep, CoversIsReflexive
  <2>4. ASSUME NEW l \in Keys, NEW c \in OthersCards, OthersPush(l, c) PROVE Rise
    <3>1. c \in Card
      BY BoundsAssumption DEF OthersCards, Card
    <3>2. QED BY <2>3, <2>4, <3>1 DEF OthersPush
  <2>5. ASSUME NEW r \in Runs, NEW l \in Keys, PushRow(r, l) PROVE Rise
    <3>1. todo[r][l] \in Card
      BY <2>0, <2>5 DEF PushRow, Cards
    <3>2. QED BY <2>3, <2>5, <3>1 DEF PushRow
  <2>6. ASSUME NEW r \in Runs, Apply(r) PROVE Rise
    <3>1. PICK l \in Keys : /\ page[r][l] # NoCard
                            /\ local' = [local EXCEPT ![l] = Merged(local[l], page[r][l])]
      BY <2>6 DEF Apply
    <3>2. Covers(Merged(local[l], page[r][l]), local[l])
      <4>1. page[r][l] \in Card /\ local[l] \in Cards
        BY <2>0, <3>1 DEF Cards
      <4>2. QED BY <4>1, MergeIsJoin
    <3>3. server' = server
      BY <2>6 DEF Apply
    <3>4. QED BY <2>0, <3>1, <3>2, <3>3, CoversIsReflexive
  <2>7. CASE UNCHANGED <<local, server>>
    BY <2>1, <2>7
  <2>8. QED
    BY <2>2, <2>4, <2>5, <2>6, <2>7
       DEF Next, Tick, Start, PushAnswered, PushRefused, DrainReturns, ServePage, StampPage,
           SetCursor, PullFails, Kill
<1>2. QED BY <1>1

(* No step takes a card back, on the device or on the server, for any      *)
(* number of runs and devices.                                             *)
THEOREM CardsOnlyRise == Spec => NothingTakenBack
<1> DEFINE Rise == \A k \in Keys : Covers(local'[k], local[k]) /\ Covers(server'[k], server[k])
<1>1. IInv /\ [Next]_vars => [Rise]_vars
  BY StepsRise
<1>2. QED BY <1>1, Induction, PTL DEF Spec, NothingTakenBack

-----------------------------------------------------------------------------
(* The cursor, for any number of runs and any page size.                   *)

(* What the cursor of a run will pass, the device has, or has in the page  *)
(* it is applying, or it is on record as skipped.                          *)
RunsAccount ==
    \A r \in Runs, k \in Keys :
        server[k] # NoCard /\ LateFor(r, server[k])
        => \/ Covers(local[k], server[k])
           \/ k \in left[r] \cup skipped
           \/ pc[r] # "pulling" /\ page[r][k] = server[k]

SInv == IInv /\ OnlyCutOrLateIsSkipped /\ RunsAccount

(* What a run holds or has on record stays so.                             *)
Remembered(r, k) ==
    /\ LateFor(r, server[k])' => LateFor(r, server[k])
    /\ k \in left[r] \cup skipped => k \in left'[r] \cup skipped'
    /\ pc[r] # "pulling" /\ page[r][k] = server[k]
       => \/ pc'[r] # "pulling" /\ page'[r][k] = server[k]
          \/ Covers(local'[k], server[k])

(* A step that leaves the server alone, and of a run does no more than end *)
(* it or apply a card of its page.                                         *)
LEMMA ServerStays ==
    ASSUME SInv, server' = server, local' \in [Keys -> Cards],
           skipped \subseteq skipped',
           \A k \in Keys : Covers(local'[k], local[k]),
           NEW R \in SUBSET Runs,
           \A r \in R, k \in Keys : Remembered(r, k)
    PROVE  /\ cursor' = cursor => OnlyCutOrLateIsSkipped'
           /\ \A r \in R, k \in Keys :
                server[k] # NoCard /\ LateFor(r, server[k])'
                => \/ Covers(local'[k], server[k])
                   \/ k \in left'[r] \cup skipped'
                   \/ pc'[r] # "pulling" /\ page'[r][k] = server[k]
<1>1. local \in [Keys -> Cards] /\ server \in [Keys -> Cards]
  BY DEF SInv, IInv, TypeOK, Cards
<1>2. \A k \in Keys : Covers(local[k], server[k]) => Covers(local'[k], server[k])
  BY <1>1, CoversIsTransitive
<1>3. cursor' = cursor => OnlyCutOrLateIsSkipped'
  BY <1>2 DEF SInv, OnlyCutOrLateIsSkipped
<1>4. \A r \in R, k \in Keys :
        server[k] # NoCard /\ LateFor(r, server[k])'
        => \/ Covers(local'[k], server[k])
           \/ k \in left'[r] \cup skipped'
           \/ pc'[r] # "pulling" /\ page'[r][k] = server[k]
  BY <1>2 DEF SInv, RunsAccount, Remembered
<1>5. QED BY <1>3, <1>4

(* A version reaches the server: it is one of those the runs and the       *)
(* cursor pass, and on record as such, or still ahead of them.             *)
LEMMA AcceptAccounts ==
    ASSUME SInv, NEW k \in Keys, NEW c \in Card, Accept(k, c),
           UNCHANGED <<local, cursor, pc, since, page, stamp>>
    PROVE  OnlyCutOrLateIsSkipped' /\ RunsAccount'
<1>1. server \in [Keys -> Cards] /\ server' = [server EXCEPT ![k] = Merged(server[k], c)]
  BY DEF SInv, IInv, TypeOK, Cards, Accept
<1>2. c # NoCard
  BY NoCardAssumption
<1>3. CASE Covers(server[k], c)
  <2>1. Merged(server[k], c) = server[k]
    BY <1>2, <1>3 DEF Covers, Merged, MoreRepetitions
  <2>2. server' = server /\ UNCHANGED <<left, skipped>>
    BY <1>1, <1>3, <2>1 DEF Accept
  <2>3. QED BY <2>2 DEF SInv, OnlyCutOrLateIsSkipped, RunsAccount, LateFor
<1>4. CASE ~Covers(server[k], c)
  <2>1. Merged(server[k], c) = c
    BY <1>2, <1>4 DEF Covers, Merged, MoreRepetitions
  <2>2. server'[k] = c /\ \A l \in Keys \ {k} : server'[l] = server[l]
    BY <1>1, <2>1
  <2>3. /\ left' = [r \in Runs |-> Marked(left[r], k, LateFor(r, c))]
        /\ skipped' = Marked(skipped, k, c.at <= cursor)
    BY <1>4 DEF Accept
  <2>4. ASSUME NEW S, NEW late, NEW l, l # k
        PROVE  l \in S <=> l \in Marked(S, k, late)
    BY <2>4 DEF Marked
  <2>5. OnlyCutOrLateIsSkipped'
    <3> SUFFICES ASSUME NEW l \in Keys, server'[l] # NoCard, server'[l].at <= cursor
                 PROVE  Covers(local[l], server'[l]) \/ l \in skipped'
      BY DEF OnlyCutOrLateIsSkipped
    <3>1. CASE l = k
      BY <2>2, <2>3, <3>1 DEF Marked
    <3>2. CASE l # k
      <4>1. server'[l] = server[l] /\ (l \in skipped <=> l \in skipped')
        BY <2>2, <2>3, <2>4, <3>2
      <4>2. QED BY <4>1 DEF SInv, OnlyCutOrLateIsSkipped
    <3>3. QED BY <3>1, <3>2
  <2>6. RunsAccount'
    <3> SUFFICES ASSUME NEW r \in Runs, NEW l \in Keys, server'[l] # NoCard,
                        LateFor(r, server[l])'
                 PROVE  \/ Covers(local[l], server'[l])
                        \/ l \in left'[r] \cup skipped'
                        \/ pc[r] # "pulling" /\ page[r][l] = server'[l]
      BY DEF RunsAccount
    <3>0. left'[r] = Marked(left[r], k, LateFor(r, c)) /\ LateFor(r, server'[l])
      BY <2>3 DEF LateFor
    <3>1. CASE l = k
      BY <2>2, <3>0, <3>1 DEF Marked
    <3>2. CASE l # k
      <4>1. server'[l] = server[l]
        BY <2>2, <3>2
      <4>2. (l \in skipped <=> l \in skipped') /\ (l \in left[r] <=> l \in left'[r])
        BY <2>3, <2>4, <3>0, <3>2
      <4>3. QED BY <3>0, <4>1, <4>2 DEF SInv, RunsAccount
    <3>3. QED BY <3>1, <3>2
  <2>7. QED BY <2>5, <2>6
<1>5. QED BY <1>3, <1>4

(* A step of r alone, or of none, that leaves the server, the cursor and   *)
(* what is on record as skipped.                                           *)
LEMMA RunStays ==
    ASSUME SInv, UNCHANGED <<server, cursor, skipped>>, local' \in [Keys -> Cards],
           \A k \in Keys : Covers(local'[k], local[k]),
           NEW r \in Runs,
           \A s \in Runs \ {r} : /\ pc'[s] = pc[s] /\ since'[s] = since[s]
                                 /\ stamp'[s] = stamp[s] /\ left'[s] = left[s]
                                 /\ page'[s] = page[s],
           \A k \in Keys : Remembered(r, k)
    PROVE  OnlyCutOrLateIsSkipped' /\ RunsAccount'
<1>1. ASSUME NEW s \in Runs, NEW k \in Keys PROVE Remembered(s, k)
  <2>1. CASE s = r
    BY <2>1
  <2>2. CASE s # r
    BY <2>2 DEF Remembered, LateFor
  <2>3. QED BY <2>1, <2>2
<1>2. QED BY <1>1, ServerStays DEF RunsAccount

(* Runs that end account for nothing any more.                             *)
LEMMA EndAccounts ==
    ASSUME SInv, NEW S \in SUBSET Runs, Ended(S), UNCHANGED <<server, local>>,
           skipped \subseteq skipped'
    PROVE  RunsAccount' /\ (cursor' = cursor => OnlyCutOrLateIsSkipped')
<1>1. local' \in [Keys -> Cards] /\ \A k \in Keys : Covers(local'[k], local[k])
  BY CoversIsReflexive DEF SInv, IInv, TypeOK, Cards
<1>2. ASSUME NEW r \in Runs, NEW k \in Keys
      PROVE  LateFor(r, server[k])' => r \notin S
  BY DEF Ended, LateFor
<1>3. ASSUME NEW r \in Runs \ S, NEW k \in Keys PROVE Remembered(r, k)
  BY DEF Ended, LateFor, Remembered
<1>4. Runs \ S \in SUBSET Runs
  OBVIOUS
<1>5. /\ cursor' = cursor => OnlyCutOrLateIsSkipped'
      /\ \A r \in Runs \ S, k \in Keys :
           server[k] # NoCard /\ LateFor(r, server[k])'
           => \/ Covers(local'[k], server[k])
              \/ k \in left'[r] \cup skipped'
              \/ pc'[r] # "pulling" /\ page'[r][k] = server[k]
  BY <1>1, <1>3, <1>4, ServerStays
<1>6. RunsAccount'
  BY <1>2, <1>5 DEF RunsAccount
<1>7. QED BY <1>5, <1>6

(* What a page does not hold was cut from it, or is behind the cursor.     *)
LEMMA ServeAccounts ==
    ASSUME SInv, NEW r \in Runs, ServePage(r)
    PROVE  OnlyCutOrLateIsSkipped' /\ RunsAccount'
<1>0. /\ page \in [Runs -> [Keys -> Cards]] /\ left \in [Runs -> SUBSET Keys]
      /\ pc \in [Runs -> {"idle", "draining", "pulling", "served", "applying"}]
      /\ server \in [Keys -> Cards] /\ since \in [Runs -> Nat]
  BY DEF SInv, IInv, TypeOK, Cards
<1>1. PICK S \in SUBSET Keys : /\ page' = [page EXCEPT ![r] = Only(server, S)]
                               /\ left' = [left EXCEPT ![r] = left[r] \cup (Changed(since[r]) \ S)]
  BY DEF ServePage
<1>2. /\ page'[r] = Only(server, S) /\ left'[r] = left[r] \cup (Changed(since[r]) \ S)
      /\ pc[r] = "pulling" /\ pc'[r] = "served"
      /\ \A s \in Runs \ {r} : page'[s] = page[s] /\ left'[s] = left[s] /\ pc'[s] = pc[s]
  BY <1>0, <1>1 DEF ServePage
<1>3. UNCHANGED <<server, local, cursor, since, stamp, skipped>>
  BY DEF ServePage
<1>4. OnlyCutOrLateIsSkipped'
  BY <1>3 DEF SInv, OnlyCutOrLateIsSkipped
<1>5. ASSUME NEW s \in Runs, NEW k \in Keys, server[k] # NoCard, LateFor(s, server[k])'
      PROVE  \/ Covers(local[k], server[k])
             \/ k \in left'[s] \cup skipped
             \/ pc'[s] # "pulling" /\ page'[s][k] = server[k]
  <2>1. CASE s # r
    BY <1>2, <1>3, <1>5, <2>1 DEF SInv, RunsAccount, LateFor
  <2>2. CASE s = r /\ k \in S
    BY <1>2, <2>2 DEF Only
  <2>3. CASE s = r /\ k \in Changed(since[r]) \ S
    BY <1>2, <2>3
  <2>4. CASE s = r /\ k \notin Changed(since[r])
    <3>1. server[k] \in Card
      BY <1>0, <1>5 DEF Cards
    <3>2. server[k].at <= since[r]
      BY <1>0, <1>5, <2>4, <3>1 DEF Changed, Card
    <3>3. LateFor(r, server[k])
      BY <1>2, <3>2 DEF LateFor
    <3>4. QED BY <1>2, <1>5, <2>4, <3>3 DEF SInv, RunsAccount
  <2>5. QED BY <2>1, <2>2, <2>3, <2>4
<1>6. QED BY <1>3, <1>4, <1>5 DEF RunsAccount

LEMMA NextSInv == SInv /\ [Next]_vars => SInv'
<1> SUFFICES ASSUME SInv, [Next]_vars PROVE OnlyCutOrLateIsSkipped' /\ RunsAccount'
  BY NextIInv DEF SInv
<1>0. /\ TypeOK /\ IInv' /\ local' \in [Keys -> Cards]
      /\ local \in [Keys -> Cards] /\ page \in [Runs -> [Keys -> Cards]]
  BY NextIInv DEF SInv, IInv, TypeOK, Cards
<1>1. \A k \in Keys : Covers(local'[k], local[k])
  BY <1>0, StepsRise, CoversIsReflexive DEF SInv, vars
<1>2. CASE UNCHANGED <<server, cursor, run, left, skipped>>
  BY <1>0, <1>1, <1>2, ServerStays DEF RunsAccount, Remembered, LateFor, run
<1>3. ASSUME NEW k \in Keys, NEW c \in OthersCards, OthersPush(k, c)
      PROVE  OnlyCutOrLateIsSkipped' /\ RunsAccount'
  <2>1. c \in Card
    BY BoundsAssumption DEF OthersCards, Card
  <2>2. QED BY <1>3, <2>1, AcceptAccounts DEF OthersPush, run
<1>4. ASSUME NEW r \in Runs, NEW k \in Keys, PushRow(r, k)
      PROVE  OnlyCutOrLateIsSkipped' /\ RunsAccount'
  <2>1. todo[r][k] \in Card
    BY <1>0, <1>4 DEF PushRow, TypeOK
  <2>2. QED BY <1>4, <2>1, AcceptAccounts DEF PushRow
<1>5. ASSUME NEW r \in Runs,
             \/ Start(r)
             \/ \E k \in Keys : PushAnswered(r, k) \/ PushRefused(r, k)
      PROVE  OnlyCutOrLateIsSkipped' /\ RunsAccount'
  <2>1. UNCHANGED <<server, cursor, skipped, since, stamp, left, page>>
    BY <1>5 DEF Start, PushAnswered, PushRefused
  <2>2. /\ \A s \in Runs \ {r} : pc'[s] = pc[s]
        /\ pc[r] \in {"idle", "draining"} /\ pc'[r] = "draining"
    BY <1>0, <1>5 DEF Start, PushAnswered, PushRefused, TypeOK
  <2>3. \A k \in Keys : Remembered(r, k)
    BY <2>1, <2>2 DEF Remembered, LateFor
  <2>4. QED BY <1>0, <1>1, <2>1, <2>2, <2>3, RunStays
<1>6. ASSUME NEW r \in Runs, DrainReturns(r)
      PROVE  OnlyCutOrLateIsSkipped' /\ RunsAccount'
  <2>1. UNCHANGED <<server, local, cursor, skipped, stamp, left, page>>
    BY <1>6 DEF DrainReturns
  <2>2. /\ \A s \in Runs \ {r} : pc'[s] = pc[s] /\ since'[s] = since[s]
        /\ pc'[r] = "pulling" /\ since'[r] = cursor
    BY <1>0, <1>6 DEF DrainReturns, TypeOK
  <2>3. OnlyCutOrLateIsSkipped'
    BY <2>1 DEF SInv, OnlyCutOrLateIsSkipped
  <2>4. ASSUME NEW s \in Runs, NEW k \in Keys, server[k] # NoCard, LateFor(s, server[k])'
        PROVE  \/ Covers(local[k], server[k])
               \/ k \in left[s] \cup skipped
               \/ pc'[s] # "pulling" /\ page[s][k] = server[k]
    <3>1. CASE s = r
      <4>1. server[k].at <= cursor
        BY <2>1, <2>2, <2>4, <3>1 DEF LateFor
      <4>2. QED BY <2>4, <4>1 DEF SInv, OnlyCutOrLateIsSkipped
    <3>2. CASE s # r
      BY <2>1, <2>2, <2>4, <3>2 DEF SInv, RunsAccount, LateFor
    <3>3. QED BY <3>1, <3>2
  <2>5. QED BY <2>1, <2>3, <2>4 DEF RunsAccount
<1>7. ASSUME NEW r \in Runs, ServePage(r) PROVE OnlyCutOrLateIsSkipped' /\ RunsAccount'
  BY <1>7, ServeAccounts
<1>8. ASSUME NEW r \in Runs, StampPage(r) PROVE OnlyCutOrLateIsSkipped' /\ RunsAccount'
  <2>1. UNCHANGED <<server, cursor, skipped, since, left, page>>
    BY <1>8 DEF StampPage
  <2>2. /\ \A s \in Runs \ {r} : pc'[s] = pc[s] /\ stamp'[s] = stamp[s]
        /\ pc[r] = "served" /\ pc'[r] = "applying"
    BY <1>0, <1>8 DEF StampPage, TypeOK
  <2>3. \A k \in Keys : Remembered(r, k)
    BY <2>1, <2>2 DEF Remembered, LateFor
  <2>4. QED BY <1>0, <1>1, <2>1, <2>2, <2>3, RunStays
<1>9. ASSUME NEW r \in Runs, Apply(r) PROVE OnlyCutOrLateIsSkipped' /\ RunsAccount'
  <2>1. PICK k \in Keys :
          /\ page[r][k] # NoCard
          /\ local' = [local EXCEPT ![k] = Merged(local[k], page[r][k])]
          /\ page' = [page EXCEPT ![r] = [page[r] EXCEPT ![k] = NoCard]]
    BY <1>9 DEF Apply
  <2>2. UNCHANGED <<server, cursor, skipped, pc, since, stamp, left>>
    BY <1>9 DEF Apply
  <2>3. /\ \A s \in Runs \ {r} : page'[s] = page[s]
        /\ \A l \in Keys \ {k} : page'[r][l] = page[r][l]
    BY <1>0, <2>1
  <2>4. Covers(local'[k], page[r][k])
    <3>1. page[r][k] \in Card /\ local[k] \in Cards
      BY <1>0, <2>1 DEF Cards
    <3>2. local'[k] = Merged(local[k], page[r][k])
      BY <1>0, <2>1
    <3>3. QED BY <3>1, <3>2, MergeIsJoin
  <2>5. \A l \in Keys : Remembered(r, l)
    BY <2>2, <2>3, <2>4 DEF Remembered, LateFor
  <2>6. QED BY <1>0, <1>1, <2>2, <2>3, <2>5, RunStays
<1>10. ASSUME NEW r \in Runs, SetCursor(r) PROVE OnlyCutOrLateIsSkipped' /\ RunsAccount'
  <2>1. /\ UNCHANGED <<server, local>> /\ Ended({r}) /\ pc[r] = "applying"
        /\ cursor' = stamp[r] /\ skipped' = skipped \cup left[r] /\ page[r] = Empty
    BY <1>10 DEF SetCursor
  <2>2. RunsAccount'
    BY <2>1, EndAccounts
  <2>3. OnlyCutOrLateIsSkipped'
    <3> SUFFICES ASSUME NEW k \in Keys, server[k] # NoCard, server[k].at <= stamp[r]
                 PROVE  Covers(local[k], server[k]) \/ k \in skipped \cup left[r]
      BY <2>1 DEF OnlyCutOrLateIsSkipped
    <3>1. LateFor(r, server[k]) /\ page[r][k] # server[k]
      BY <2>1, EmptyPage DEF LateFor
    <3>2. QED BY <3>1 DEF SInv, RunsAccount
  <2>4. QED BY <2>2, <2>3
<1>11. ASSUME NEW r \in Runs, PullFails(r) PROVE OnlyCutOrLateIsSkipped' /\ RunsAccount'
  BY <1>11, EndAccounts DEF PullFails
<1>12. CASE Kill
  BY <1>12, EndAccounts DEF Kill
<1>13. CASE Tick \/ (\E k \in Keys : Review(k)) \/ UNCHANGED vars
  BY <1>2, <1>13 DEF Tick, Review, vars, run
<1>14. QED
  BY <1>3, <1>4, <1>5, <1>6, <1>7, <1>8, <1>9, <1>10, <1>11, <1>12, <1>13 DEF Next

(* For any number of runs and cards and any page size, the cursor passes   *)
(* no version but one that a page was cut before or that arrived too late  *)
(* for the page, unless the device has it.                                 *)
THEOREM CursorSkipsOnlyCutOrLate == Spec => []OnlyCutOrLateIsSkipped
<1>1. Init => SInv
  BY InitIInv, EmptyPage DEF Init, SInv, OnlyCutOrLateIsSkipped, RunsAccount
<1>2. SInv => OnlyCutOrLateIsSkipped
  BY DEF SInv
<1>3. QED BY <1>1, <1>2, NextSInv, PTL DEF Spec
=============================================================================
