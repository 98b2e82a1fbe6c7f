-------------------------- MODULE Replicas_proofs ---------------------------
(***************************************************************************)
(* The merge rules pick the best of whatever was received, for any set of  *)
(* updates and any number of replicas.  Cards are compared by a total      *)
(* preorder (no worse by repetitions, then by clock), so what beats none   *)
(* of a replica's updates is not beaten by those of another after the two  *)
(* have been merged: the argument is the transitivity of that order.       *)
(***************************************************************************)
EXTENDS Replicas, TLAPS

(* What the rules read of a version. *)
Version(u) == u.reps \in Nat /\ u.page \in Nat /\ u.at \in Nat

LEMMA UpdatesAreVersions == ASSUME NEW u \in Updates PROVE Version(u)
  BY UpdatesAssumption DEF Version

(* If a does not lose to b, and b not to c, then a does not lose to c. *)
LEMMA NotWorseIsTransitive ==
    ASSUME NEW a, NEW b, NEW c, Version(a), Version(b), Version(c),
           ~IncomingWins(a, b), ~IncomingWins(b, c)
    PROVE  ~IncomingWins(a, c)
  BY DEF Version, IncomingWins

(* The merged version is one of the two, and loses to neither.             *)
LEMMA MergedCard ==
    ASSUME NEW a, NEW b, Version(a), Version(b)
    PROVE  /\ MoreRepetitions(a, b) \in {a, b}
           /\ ~IncomingWins(MoreRepetitions(a, b), a)
           /\ ~IncomingWins(MoreRepetitions(a, b), b)
  BY DEF Version, IncomingWins, MoreRepetitions

IInv == CopiesTypeOK /\ CardsAreBest /\ PagesAreFurthest /\ MarksAreLatest

-----------------------------------------------------------------------------
(* A fold that takes in some updates together with the best of them, by    *)
(* each rule, leaves a replica with the best of all it has.                *)
LEMMA FoldStep ==
    ASSUME IInv, NEW r \in Replica, NEW S \in SUBSET Updates,
           NEW c \in S, NEW p \in Nat, NEW m \in S,
           \A u \in S : ~IncomingWins(c, u) /\ u.page <= p /\ u.at <= m.at,
           \E u \in S : u.page = p,
           Fold(r, S, c, p, m)
    PROVE  IInv'
<1>0. CopiesTypeOK /\ CardsAreBest /\ PagesAreFurthest /\ MarksAreLatest
  BY DEF IInv
<1>1. card[r] \in Updates /\ c \in Updates /\ mark[r] \in Updates /\ m \in Updates
      /\ place[r] \in Nat /\ got[r] \subseteq Updates
  BY <1>0 DEF CopiesTypeOK
<1>2. /\ got' = [got EXCEPT ![r] = got[r] \cup S]
      /\ card' = [card EXCEPT ![r] = MoreRepetitions(card[r], c)]
      /\ place' = [place EXCEPT ![r] = Furthest(place[r], p)]
      /\ mark' = [mark EXCEPT ![r] = LastWrite(mark[r], m)]
  BY DEF Fold
<1>3. MoreRepetitions(card[r], c) \in {card[r], c} /\ LastWrite(mark[r], m) \in {mark[r], m}
  BY DEF MoreRepetitions, LastWrite
<1>4. Furthest(place[r], p) \in {place[r], p}
      /\ place[r] <= Furthest(place[r], p) /\ p <= Furthest(place[r], p)
  BY <1>1 DEF Furthest
<1>5. CopiesTypeOK'
  BY <1>0, <1>1, <1>2, <1>3, <1>4 DEF CopiesTypeOK
<1>6. /\ got'[r] = got[r] \cup S /\ card'[r] = MoreRepetitions(card[r], c)
      /\ place'[r] = Furthest(place[r], p) /\ mark'[r] = LastWrite(mark[r], m)
      /\ \A s \in Replica \ {r} : /\ got'[s] = got[s] /\ card'[s] = card[s]
                                  /\ place'[s] = place[s] /\ mark'[s] = mark[s]
  BY <1>0, <1>2 DEF CopiesTypeOK
<1>7. CardsAreBest'
  <2>1. card'[r] \in got'[r]
    BY <1>0, <1>3, <1>6 DEF CardsAreBest
  <2>2. ASSUME NEW u \in got'[r] PROVE ~IncomingWins(card'[r], u)
    <3>1. Version(u) /\ Version(card[r]) /\ Version(c) /\ Version(card'[r])
      BY <1>1, <1>3, <1>6, UpdatesAreVersions
    <3>2. ~IncomingWins(card'[r], card[r]) /\ ~IncomingWins(card'[r], c)
      BY <1>6, <3>1, MergedCard
    <3>3. ~IncomingWins(card[r], u) \/ ~IncomingWins(c, u)
      BY <1>0, <1>6 DEF CardsAreBest
    <3>4. QED BY <3>1, <3>2, <3>3, NotWorseIsTransitive
  <2>3. QED BY <1>0, <1>6, <2>1, <2>2 DEF CardsAreBest
<1>8. PagesAreFurthest'
  <2>1. \E u \in got'[r] : u.page = place'[r]
    BY <1>0, <1>4, <1>6 DEF PagesAreFurthest
  <2>2. ASSUME NEW u \in got'[r] PROVE u.page <= place'[r]
    <3>1. u.page \in Nat /\ place'[r] \in Nat
      BY <1>1, <1>4, <1>6, UpdatesAssumption
    <3>2. u.page <= place[r] \/ u.page <= p
      BY <1>0, <1>6 DEF PagesAreFurthest
    <3>3. QED BY <1>1, <1>4, <1>6, <3>1, <3>2
  <2>3. QED BY <1>0, <1>6, <2>1, <2>2 DEF PagesAreFurthest
<1>9. MarksAreLatest'
  <2>1. mark'[r] \in got'[r]
    BY <1>0, <1>3, <1>6 DEF MarksAreLatest
  <2>2. ASSUME NEW u \in got'[r] PROVE u.at <= mark'[r].at
    <3>1. u.at \in Nat /\ mark[r].at \in Nat /\ m.at \in Nat
      BY <1>1, <1>6, UpdatesAssumption
    <3>2. u.at <= mark[r].at \/ u.at <= m.at
      BY <1>0, <1>6 DEF MarksAreLatest
    <3>3. QED BY <1>6, <3>1, <3>2 DEF LastWrite
  <2>3. QED BY <1>0, <1>6, <2>1, <2>2 DEF MarksAreLatest
<1>10. QED BY <1>5, <1>7, <1>8, <1>9 DEF IInv

LEMMA Induction == CopiesSpec => []IInv
<1>1. CopiesInit => IInv
  BY UpdatesAssumption
  DEF CopiesInit, IInv, CopiesTypeOK, CardsAreBest, PagesAreFurthest, MarksAreLatest, IncomingWins
<1>2. IInv /\ [CopiesNext]_copyVars => IInv'
  <2> SUFFICES ASSUME IInv, [CopiesNext]_copyVars PROVE IInv'
    OBVIOUS
  <2>1. ASSUME NEW r \in Replica, NEW u \in Updates, Deliver(r, u) PROVE IInv'
    <3>1. u.page \in Nat /\ ~IncomingWins(u, u) /\ u.page <= u.page /\ u.at <= u.at
      BY UpdatesAssumption DEF IncomingWins
    <3>2. QED BY <2>1, <3>1, FoldStep DEF Deliver
  <2>2. ASSUME NEW r \in Replica, NEW s \in Replica, Exchange(r, s) PROVE IInv'
    <3>1. /\ got[s] \in SUBSET Updates /\ card[s] \in got[s] /\ mark[s] \in got[s]
          /\ place[s] \in Nat
          /\ \A u \in got[s] : ~IncomingWins(card[s], u) /\ u.page <= place[s] /\ u.at <= mark[s].at
          /\ \E u \in got[s] : u.page = place[s]
      BY DEF IInv, CopiesTypeOK, CardsAreBest, PagesAreFurthest, MarksAreLatest
    <3>2. QED BY <2>2, <3>1, FoldStep DEF Exchange
  <2>3. CASE UNCHANGED copyVars
    BY <2>3 DEF copyVars, IInv, CopiesTypeOK, CardsAreBest, PagesAreFurthest, MarksAreLatest
  <2>4. QED BY <2>1, <2>2, <2>3 DEF CopiesNext
<1>3. QED BY <1>1, <1>2, PTL DEF CopiesSpec

(* A copy is made of updates, and its page of theirs.                      *)
THEOREM TypeCorrect == CopiesSpec => []CopiesTypeOK
  BY Induction, PTL DEF IInv

(* A copy of a card is the best version it has received, by any route, in  *)
(* any order and any number of times.                                      *)
THEOREM BestCardSurvives == CopiesSpec => []CardsAreBest
  BY Induction, PTL DEF IInv

(* A reading position never falls behind a page some device reached and    *)
(* the copy has heard of.                                                  *)
THEOREM FurthestPageSurvives == CopiesSpec => []PagesAreFurthest
  BY Induction, PTL DEF IInv

(* A bookmark is one of the newest versions it has received.               *)
THEOREM LatestMarkSurvives == CopiesSpec => []MarksAreLatest
  BY Induction, PTL DEF IInv

(* Copies that have received the same updates agree, for any replicas,     *)
(* updates and routes, except in which of two equally good versions they   *)
(* hold.                                                                   *)
THEOREM CopiesAgree == CopiesSpec => []SameUpdatesSameProgress
<1>1. ASSUME IInv, NEW r \in Replica, NEW s \in Replica, got[r] = got[s]
      PROVE  /\ card[r].reps = card[s].reps /\ card[r].at = card[s].at
             /\ place[r] = place[s]
             /\ mark[r].at = mark[s].at
  <2>1. /\ Version(card[r]) /\ Version(card[s]) /\ Version(mark[r]) /\ Version(mark[s])
        /\ place[r] \in Nat /\ place[s] \in Nat
    BY <1>1, UpdatesAreVersions DEF IInv, CopiesTypeOK
  <2>2. ~IncomingWins(card[r], card[s]) /\ ~IncomingWins(card[s], card[r])
    BY <1>1 DEF IInv, CardsAreBest
  <2>3. card[r].reps = card[s].reps /\ card[r].at = card[s].at
    BY <2>1, <2>2 DEF Version, IncomingWins
  <2>4. place[r] <= place[s] /\ place[s] <= place[r]
    BY <1>1 DEF IInv, PagesAreFurthest
  <2>5. mark[r].at <= mark[s].at /\ mark[s].at <= mark[r].at
    BY <1>1 DEF IInv, MarksAreLatest
  <2>6. QED BY <2>1, <2>3, <2>4, <2>5 DEF Version
<1>2. IInv => SameUpdatesSameProgress
  BY <1>1 DEF SameUpdatesSameProgress
<1>3. QED BY <1>2, Induction, PTL

(* Ties are all that keeps bookmarks apart: where no two versions were     *)
(* written at the same time, the rule is what its comment says.            *)
THEOREM MarksAgreeWithoutTies ==
    ASSUME \A u, v \in Updates : u.at = v.at => u = v
    PROVE  CopiesSpec => []SameUpdatesSameMark
<1>1. IInv => SameUpdatesSameMark
  <2> SUFFICES ASSUME IInv, NEW r \in Replica, NEW s \in Replica, got[r] = got[s]
               PROVE  mark[r] = mark[s]
    BY DEF SameUpdatesSameMark
  <2>1. mark[r] \in Updates /\ mark[s] \in Updates
    BY DEF IInv, CopiesTypeOK
  <2>2. mark[r].at \in Nat /\ mark[s].at \in Nat
    BY <2>1, UpdatesAssumption
  <2>3. mark[r].at <= mark[s].at /\ mark[s].at <= mark[r].at
    BY DEF IInv, MarksAreLatest
  <2>4. QED BY <2>1, <2>2, <2>3
<1>2. QED BY <1>1, Induction, PTL

(* What a copy has reached, no fold takes back, whatever arrives late,     *)
(* twice or by way of an older copy.                                       *)
THEOREM ProgressStays == CopiesSpec => CopiesOnlyAdvance
<1> DEFINE Advance == \A r \in Replica :
             /\ ~IncomingWins(card'[r], card[r])
             /\ place[r] <= place'[r]
             /\ mark[r].at <= mark'[r].at
<1>1. ASSUME IInv, NEW q \in Replica, NEW S \in SUBSET Updates,
             NEW c \in Updates, NEW p \in Nat, NEW m \in Updates, Fold(q, S, c, p, m)
      PROVE  Advance
  <2>1. ASSUME NEW r \in Replica
        PROVE  /\ Version(card[r]) /\ Version(c) /\ Version(mark[r]) /\ Version(m)
               /\ place[r] \in Nat
               /\ card'[r] \in {card[r], MoreRepetitions(card[r], c)}
               /\ place'[r] \in {place[r], Furthest(place[r], p)}
               /\ mark'[r] \in {mark[r], LastWrite(mark[r], m)}
    BY <1>1, UpdatesAreVersions DEF IInv, CopiesTypeOK, Fold
  <2>2. ASSUME NEW r \in Replica PROVE ~IncomingWins(card'[r], card[r])
    BY <2>1, MergedCard DEF IncomingWins, Version
  <2>3. ASSUME NEW r \in Replica PROVE place[r] <= place'[r] /\ mark[r].at <= mark'[r].at
    BY <2>1 DEF Furthest, LastWrite, Version
  <2>4. QED BY <2>2, <2>3
<1>2. ASSUME IInv, CopiesNext PROVE Advance
  <2>1. ASSUME NEW r \in Replica, NEW u \in Updates, Deliver(r, u) PROVE Advance
    BY <1>1, <1>2, <2>1, UpdatesAssumption DEF Deliver
  <2>2. ASSUME NEW r \in Replica, NEW s \in Replica, Exchange(r, s) PROVE Advance
    <3>1. got[s] \in SUBSET Updates /\ card[s] \in Updates /\ place[s] \in Nat /\ mark[s] \in Updates
      BY <1>2 DEF IInv, CopiesTypeOK
    <3>2. QED BY <1>1, <1>2, <2>2, <3>1 DEF Exchange
  <2>3. QED BY <1>2, <2>1, <2>2 DEF CopiesNext
<1>3. IInv /\ [CopiesNext]_copyVars => [Advance]_copyVars
  BY <1>2
<1>4. QED BY <1>3, Induction, PTL DEF CopiesSpec, CopiesOnlyAdvance
=============================================================================
