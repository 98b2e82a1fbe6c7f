----------------------------- MODULE MergeRules -----------------------------
(***************************************************************************)
(* The client's merge rules, as operators on two versions.  A version      *)
(* carries the time its device wrote it (at), and a memorisation card the  *)
(* repetitions it has been through (reps).  The rule for cards is the one  *)
(* the server applies (HifzMerge!IncomingWins).                            *)
(***************************************************************************)
EXTENDS Naturals

(* Mutant: the comparison the wrong way round. *)
OldestWrite(local, remote) == IF remote.at < local.at THEN remote ELSE local

(* The newest version; a tie keeps the local one. *)
LastWrite(local, remote) == IF remote.at > local.at THEN remote ELSE local

(* Mutant: the page that arrived last. *)
LatestPage(local, remote) == remote

(* The higher page, whatever the clocks say. *)
Furthest(local, remote) == IF local >= remote THEN local ELSE remote

(* More repetitions, then the newer clock. *)
IncomingWins(local, remote) ==
    \/ remote.reps > local.reps
    \/ remote.reps = local.reps /\ remote.at > local.at

(* Mutant: the merge rule of bookmarks registered for cards. *)
NewestCard(local, remote) == LastWrite(local, remote)

(* Mutant: a card merged field by field. *)
FieldByField(local, remote) ==
    [local EXCEPT !.reps = Furthest(@, remote.reps), !.at = Furthest(@, remote.at)]

MoreRepetitions(local, remote) ==
    IF IncomingWins(local, remote) THEN remote ELSE local
=============================================================================
