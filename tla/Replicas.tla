------------------------------ MODULE Replicas ------------------------------
(***************************************************************************)
(* What the merge rules promise when they are used: copies of a record on  *)
(* several devices and the server, each folding in the updates that reach  *)
(* it, in any order, again after a lost answer, directly or already        *)
(* merged into the copy of another.  An update stands for one version of a *)
(* memorisation card, of a reading position and of a bookmark at once;     *)
(* each is merged by the rule sync_entity.dart registers for it.           *)
(***************************************************************************)
EXTENDS MergeRules

CONSTANTS Replica, Updates

ASSUME UpdatesAssumption ==
    \A u \in Updates : u.reps \in Nat /\ u.page \in Nat /\ u.at \in Nat

VARIABLES
    got,    \* the updates folded into a replica's copy, by whatever way
    card,   \* moreRepetitions
    place,  \* furthest
    mark    \* lastWrite

copyVars == <<got, card, place, mark>>

CopiesTypeOK ==
    /\ got \in [Replica -> SUBSET Updates]
    /\ card \in [Replica -> Updates]
    /\ place \in [Replica -> Nat]
    /\ mark \in [Replica -> Updates]

(* Every copy starts with an update of its own. *)
CopiesInit ==
    /\ card \in [Replica -> Updates]
    /\ got = [r \in Replica |-> {card[r]}]
    /\ place = [r \in Replica |-> card[r].page]
    /\ mark = card

Fold(r, updates, c, p, m) ==
    /\ got' = [got EXCEPT ![r] = @ \cup updates]
    /\ card' = [card EXCEPT ![r] = MoreRepetitions(@, c)]
    /\ place' = [place EXCEPT ![r] = Furthest(@, p)]
    /\ mark' = [mark EXCEPT ![r] = LastWrite(@, m)]

(* An update arrives, for the first time or once more. *)
Deliver(r, u) == Fold(r, {u}, u, u.page, u)

(* A replica takes the copy of another: a push, or a pull. *)
Exchange(r, s) == Fold(r, got[s], card[s], place[s], mark[s])

CopiesNext ==
    \/ \E r \in Replica, u \in Updates : Deliver(r, u)
    \/ \E r, s \in Replica : Exchange(r, s)

CopiesSpec == CopiesInit /\ [][CopiesNext]_copyVars

-----------------------------------------------------------------------------
(* Whatever the order, the repetition and the route, a copy of a card is   *)
(* one of the versions it received, and none of them beats it: no review   *)
(* is lost to a clock.  (merge_rules.dart 28-44)                           *)
CardsAreBest ==
    \A r \in Replica :
        card[r] \in got[r] /\ \A u \in got[r] : ~IncomingWins(card[r], u)

(* A reading position is the furthest page any device reached.             *)
(* (merge_rules.dart 24-26)                                                *)
PagesAreFurthest ==
    \A r \in Replica :
        /\ \E u \in got[r] : u.page = place[r]
        /\ \A u \in got[r] : u.page <= place[r]

(* A bookmark is one of the newest versions received.                      *)
(* (merge_rules.dart 14-22)                                                *)
MarksAreLatest ==
    \A r \in Replica :
        mark[r] \in got[r] /\ \A u \in got[r] : u.at <= mark[r].at

(* Two copies that have folded in the same updates hold the same progress, *)
(* the same page and equally new bookmarks, so that neither of them would  *)
(* take anything from the other.  (merge_rules.dart 5-7, 14-44)            *)
SameUpdatesSameProgress ==
    \A r, s \in Replica : got[r] = got[s] =>
        /\ card[r].reps = card[s].reps /\ card[r].at = card[s].at
        /\ place[r] = place[s]
        /\ mark[r].at = mark[s].at

(* No fold takes a copy back behind what it held: a review, a page or a    *)
(* newer bookmark, once merged, is there for good.                         *)
(* (merge_rules.dart 14-44)                                                *)
CopiesOnlyAdvance ==
    [][\A r \in Replica :
         /\ ~IncomingWins(card'[r], card[r])
         /\ place[r] <= place'[r]
         /\ mark[r].at <= mark'[r].at]_copyVars

(* merge_rules.dart 5-7, "merge(a, b) has to equal merge(b, a)": two       *)
(* copies that have folded in the same updates are the same.               *)
SameUpdatesSameMark ==
    \A r, s \in Replica : got[r] = got[s] => mark[r] = mark[s]
=============================================================================
