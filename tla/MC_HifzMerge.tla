---------------------------- MODULE MC_HifzMerge ----------------------------
(* HifzMerge on two ayahs and two concurrent pushes.                       *)
EXTENDS HifzMerge, TLC

CONSTANTS a1, a2, b1, b2, i1, r1, r2

P(a, reps, at, body) ==
    [ayah |-> a, reps |-> reps, at |-> at, body |-> body, reviewed |-> Absent,
     rev |-> Absent, id |-> Absent, form |-> "model"]

(* More progress with the older clock, equal progress with different       *)
(* clocks, the two ways a payload can be incomplete, a revision and a time *)
(* of review, and an id the client made, which the server may not know.    *)
Newer     == P(a1, 1, 2, b2)
Tie       == [P(a1, 2, 2, b2) EXCEPT !.rev = 3, !.reviewed = 2]
Partial   == P(a1, 3, 1, Absent)
Malformed == P(Absent, 3, 1, b1)
Wire      == [P(a1, 2, 3, b1) EXCEPT !.form = "wire"]
ByKey     == [P(a1, 2, 1, b2) EXCEPT !.form = "pk"]
Other     == P(a2, 1, 1, b1)
OtherLate == [P(a2, 1, 2, b2) EXCEPT !.id = i1]

(* Two transactions that lock the cards in opposite orders and differ by   *)
(* clock or by repetitions, one card twice in a batch, both kinds of       *)
(* incomplete payload, and the raw form of a request body.                 *)
MCBatches ==
    {<<Newer, Other>>, <<OtherLate, Tie>>, <<Newer, Tie>>, <<Malformed, Partial>>,
     <<Wire>>}

(* The payload of test_a_new_card_is_created. *)
KeyBatches == {<<ByKey>>}
=============================================================================
