-------------------------- MODULE Sessions_proofs ---------------------------
(***************************************************************************)
(* A revocation ends every session it lists, for any number of requests    *)
(* and tokens, but those refreshed before or while it ran.                 *)
(*                                                                         *)
(* The argument: a login that has not been refreshed when a revocation     *)
(* lists it, and is not while it runs, has no usable token beyond those    *)
(* the revocation has still to blacklist, and none is about to be minted   *)
(* for it; when the loop is through it has none at all, and a login        *)
(* without one never gets one again.                                       *)
(***************************************************************************)
EXTENDS Sessions, TLAPS

Rotates(r, f) == Refreshing(r) /\ root[presented[r]] = f

Excused == overlapped \cup refreshed

(* No refresh of a login is under way. *)
Still(f) == \A r \in Requests : ~Rotates(r, f)

RotationsAreKnown ==
    \A r \in Requests :
        /\ presented[r] # NoToken => presented[r] \in minted
        /\ pc[r] \in {"rotating", "leaving"} => presented[r] # NoToken
        /\ pc[r] \notin {"rotating", "minting", "leaving"} => presented[r] = NoToken

RootsAreLogins ==
    \A t \in Tokens : root[t] = t \/ (t \in minted /\ root[t] \in minted)

ListsAreMinted == closed \subseteq minted /\ \A r \in Requests : listed[r] \subseteq minted

(* The rows of the user are those of logins, and a login's row stays until *)
(* its token has expired.                                                  *)
TokensAreRecorded ==
    /\ \A t \in outstanding : root[t] = t
    /\ \A t \in minted : root[t] = t => t \in outstanding \cup expired

ClosedAreGone ==
    \A f \in closed \ Excused : Still(f) /\ \A t \in Tokens : Usable(t) => root[t] # f

RevocationsAreOnTrack ==
    \A r \in Requests : pc[r] \in {"revoking", "committing"} =>
        \A f \in Families(listed[r]) \ Excused :
            Still(f) /\ \A t \in Tokens : Usable(t) /\ root[t] = f => t \in todo[r]

IInv ==
    /\ TypeOK
    /\ RotationsAreKnown /\ RootsAreLogins /\ ListsAreMinted
    /\ TokensAreRecorded
    /\ ClosedAreGone /\ RevocationsAreOnTrack

-----------------------------------------------------------------------------
LEMMA FamiliesAreMinted ==
    ASSUME TypeOK, RootsAreLogins, NEW T \in SUBSET minted
    PROVE  Families(T) \in SUBSET minted
  BY DEF Families, TypeOK, RootsAreLogins

(* A step that changes neither the logins nor the revocations, starts no   *)
(* refresh and brings no token to life.                                    *)
LEMMA QuietStep ==
    ASSUME IInv, TypeOK',
           \A t \in Tokens : Usable(t)' => Usable(t),
           \A r \in Requests : Refreshing(r)' => Refreshing(r) /\ presented'[r] = presented[r],
           \A r \in Requests : \/ pc'[r] \notin {"revoking", "committing"}
                               \/ pc'[r] = pc[r] /\ listed'[r] = listed[r] /\ todo'[r] = todo[r],
           UNCHANGED <<root, closed>>, Excused \subseteq Excused'
    PROVE  ClosedAreGone' /\ RevocationsAreOnTrack'
<1>1. ClosedAreGone'
  BY DEF IInv, TypeOK, ClosedAreGone, Still, Rotates
<1>2. ASSUME NEW r \in Requests, pc'[r] \in {"revoking", "committing"},
             NEW f \in Families(listed[r]) \ Excused'
      PROVE  Still(f)' /\ \A t \in Tokens : Usable(t)' /\ root[t] = f => t \in todo'[r]
  <2>1. Still(f) /\ \A t \in Tokens : Usable(t) /\ root[t] = f => t \in todo[r]
    BY <1>2 DEF IInv, RevocationsAreOnTrack
  <2>2. Still(f)'
    BY <2>1 DEF Still, Rotates
  <2>3. QED BY <1>2, <2>1, <2>2
<1>3. RevocationsAreOnTrack'
  BY <1>2 DEF RevocationsAreOnTrack, Families
<1>4. QED BY <1>1, <1>3

-----------------------------------------------------------------------------
LEMMA EndTyped ==
    ASSUME TypeOK, NEW r \in Requests, NEW from, End(r, from)
    PROVE  /\ pc' \in [Requests -> Steps] /\ presented' \in [Requests -> Tokens \cup {NoToken}]
           /\ listed' \in [Requests -> SUBSET Tokens] /\ todo' \in [Requests -> SUBSET Tokens]
           /\ pc[r] = from /\ pc'[r] = "idle" /\ presented'[r] = NoToken /\ listed'[r] = {}
           /\ \A q \in Requests : listed'[q] \in {listed[q], {}}
           /\ \A q \in Requests : presented'[q] \in {presented[q], NoToken}
           /\ \A q \in Requests \ {r} : /\ pc'[q] = pc[q] /\ listed'[q] = listed[q]
                                        /\ todo'[q] = todo[q] /\ presented'[q] = presented[q]
  BY DEF End, Move, TypeOK, Steps

LEMMA MoveTyped ==
    ASSUME TypeOK, NEW r \in Requests, NEW from, NEW to \in Steps, Move(r, from, to)
    PROVE  /\ pc' \in [Requests -> Steps]
           /\ pc[r] = from /\ pc'[r] = to
           /\ \A q \in Requests \ {r} : pc'[q] = pc[q]
  BY DEF Move, TypeOK, Steps

LEMMA InitIInv == Init => IInv
<1> SUFFICES ASSUME Init PROVE IInv
  OBVIOUS
<1>1. TypeOK
  BY DEF Init, TypeOK, Steps
<1>2. RotationsAreKnown /\ RootsAreLogins /\ ListsAreMinted /\ TokensAreRecorded
  BY DEF Init, RotationsAreKnown, RootsAreLogins, ListsAreMinted, TokensAreRecorded
<1>3. ClosedAreGone /\ RevocationsAreOnTrack
  BY DEF Init, ClosedAreGone, RevocationsAreOnTrack
<1>4. QED BY <1>1, <1>2, <1>3 DEF IInv

-----------------------------------------------------------------------------
(* Requests that take a step without touching a token, a login or a list.  *)
LEMMA MoveStep ==
    ASSUME IInv, NEW r \in Requests, NEW to \in {"minting", "listing", "resetting"},
           Move(r, "idle", to), UNCHANGED <<tokens, request, history>>
    PROVE  IInv'
<1>1. TypeOK'
  BY DEF IInv, TypeOK, Move, Steps, tokens, request, history
<1>2. /\ pc[r] = "idle" /\ pc'[r] = to /\ presented[r] = NoToken
      /\ \A q \in Requests \ {r} : pc'[q] = pc[q]
  <2>1. Move(r, "idle", to) /\ to \in Steps /\ TypeOK
    BY DEF IInv, Steps
  <2>2. pc[r] = "idle" /\ pc'[r] = to /\ \A q \in Requests \ {r} : pc'[q] = pc[q]
    BY <2>1, MoveTyped
  <2>3. QED BY <2>2 DEF IInv, RotationsAreKnown
<1>3. RotationsAreKnown' /\ RootsAreLogins' /\ ListsAreMinted' /\ TokensAreRecorded'
  <2>1. RotationsAreKnown'
    BY <1>2 DEF IInv, RotationsAreKnown, tokens, request
  <2>2. RootsAreLogins' /\ ListsAreMinted' /\ TokensAreRecorded'
    BY DEF IInv, RootsAreLogins, ListsAreMinted, TokensAreRecorded, tokens, request, history
  <2>3. QED BY <2>1, <2>2
<1>4. \A t \in Tokens : Usable(t)' => Usable(t)
  BY DEF Usable, tokens
<1>5. \A q \in Requests : Refreshing(q)' => Refreshing(q) /\ presented'[q] = presented[q]
  BY <1>2 DEF Refreshing, request
<1>6. ClosedAreGone' /\ RevocationsAreOnTrack'
  BY <1>2, <1>1, <1>4, <1>5, QuietStep DEF Excused, request, history
<1>7. QED BY <1>1, <1>3, <1>6 DEF IInv

LEMMA RefreshCheckStep ==
    ASSUME IInv, NEW r \in Requests, NEW t \in Tokens, RefreshCheck(r, t)
    PROVE  IInv'
<1> USE DEF RefreshCheck, tokens
<1>1. /\ pc' \in [Requests -> Steps] /\ pc'[r] = "rotating" /\ pc[r] = "idle"
      /\ \A q \in Requests \ {r} : pc'[q] = pc[q]
  BY MoveTyped DEF IInv, Steps
<1>2. /\ presented' \in [Requests -> Tokens \cup {NoToken}] /\ presented'[r] = t
      /\ \A q \in Requests \ {r} : presented'[q] = presented[q]
  BY DEF IInv, TypeOK
<1>3. TypeOK' /\ Excused \subseteq Excused'
  BY <1>1, <1>2 DEF IInv, TypeOK, Excused
<1>4. RotationsAreKnown' /\ RootsAreLogins' /\ ListsAreMinted' /\ TokensAreRecorded'
  BY <1>1, <1>2, NoTokenAssumption
     DEF IInv, RotationsAreKnown, RootsAreLogins, ListsAreMinted, TokensAreRecorded, Usable
<1>5. ClosedAreGone'
  <2>1. ASSUME NEW f \in closed \ Excused' PROVE Still(f)' /\ root[t] # f
    BY <1>1, <1>2, <1>3 DEF IInv, ClosedAreGone, Still, Rotates, Refreshing
  <2>2. QED BY <1>3, <2>1 DEF IInv, ClosedAreGone, Usable
<1>6. RevocationsAreOnTrack'
  <2> SUFFICES ASSUME NEW q \in Requests, pc'[q] \in {"revoking", "committing"},
                      NEW f \in Families(listed[q]) \ Excused'
               PROVE  Still(f)' /\ \A u \in Tokens : Usable(u) /\ root[u] = f => u \in todo[q]
    BY DEF RevocationsAreOnTrack, Families, Usable
  <2>1. q # r /\ pc[q] \in {"revoking", "committing"} /\ Revoking
    BY <1>1 DEF Revoking
  <2>2. Still(f) /\ \A u \in Tokens : Usable(u) /\ root[u] = f => u \in todo[q]
    BY <1>3, <2>1 DEF IInv, RevocationsAreOnTrack
  <2>3. root[t] # f
    BY <2>1 DEF Excused
  <2>4. QED BY <1>1, <1>2, <2>2, <2>3 DEF Still, Rotates, Refreshing
<1>7. QED BY <1>3, <1>4, <1>5, <1>6 DEF IInv

LEMMA RotateBlacklistStep ==
    ASSUME IInv, NEW r \in Requests, RotateBlacklist(r)
    PROVE  IInv'
<1> USE DEF RotateBlacklist, request, history
<1>1. /\ pc' \in [Requests -> Steps] /\ pc'[r] = "minting" /\ pc[r] = "rotating"
      /\ \A q \in Requests \ {r} : pc'[q] = pc[q]
  BY MoveTyped DEF IInv, Steps
<1>2. presented[r] \in minted
  BY <1>1 DEF IInv, RotationsAreKnown
<1>3. TypeOK'
  BY <1>1, <1>2 DEF IInv, TypeOK
<1>4. RotationsAreKnown' /\ RootsAreLogins' /\ ListsAreMinted' /\ TokensAreRecorded'
  BY <1>1 DEF IInv, RotationsAreKnown, RootsAreLogins, ListsAreMinted, TokensAreRecorded
<1>5. \A t \in Tokens : Usable(t)' => Usable(t)
  BY DEF Usable
<1>6. ClosedAreGone' /\ RevocationsAreOnTrack'
  BY <1>1, <1>3, <1>5, QuietStep DEF Refreshing, Excused
<1>7. QED BY <1>3, <1>4, <1>6 DEF IInv

LEMMA MintStep ==
    ASSUME IInv, NEW r \in Requests, MintLogin(r) \/ MintRotated(r)
    PROVE  IInv'
<1>1. PICK t \in Tokens \ minted :
         /\ minted' = minted \cup {t}
         /\ \/ presented[r] = NoToken /\ outstanding' = outstanding \cup {t} /\ root' = root
            \/ /\ presented[r] # NoToken /\ outstanding' = outstanding
               /\ root' = [root EXCEPT ![t] = root[presented[r]]]
  BY DEF MintLogin, MintRotated, history
<1>2. /\ End(r, "minting")
      /\ UNCHANGED <<active, expired, blacklisted, closed, overlapped, refreshed>>
  BY DEF MintLogin, MintRotated, history
<1>3. /\ root' \in [Tokens -> Tokens]
      /\ root'[t] = IF presented[r] = NoToken THEN t ELSE root[presented[r]]
      /\ \A u \in minted : root'[u] = root[u] /\ u # t
      /\ \A u \in Tokens \ {t} : root'[u] = root[u]
  BY <1>1 DEF IInv, TypeOK, RotationsAreKnown, RootsAreLogins
<1>4. TypeOK'
  BY <1>1, <1>2, <1>3, EndTyped DEF IInv, TypeOK
<1>5. RotationsAreKnown'
  BY <1>1, <1>2, EndTyped DEF IInv, RotationsAreKnown
<1>6. RootsAreLogins'
  <2>1. presented[r] # NoToken => presented[r] \in minted /\ root[presented[r]] \in minted
    BY DEF IInv, RotationsAreKnown, RootsAreLogins, TypeOK
  <2>2. root'[t] = t \/ root'[t] \in minted
    BY <1>3, <2>1
  <2>3. QED BY <1>1, <1>3, <2>2 DEF IInv, RootsAreLogins
<1>7. ListsAreMinted' /\ TokensAreRecorded'
  <2>1. ListsAreMinted'
    BY <1>1, <1>2, EndTyped DEF IInv, ListsAreMinted
  <2>2. root'[t] = t => t \in outstanding'
    BY <1>1, <1>3 DEF IInv, RotationsAreKnown, RootsAreLogins, TypeOK
  <2>3. \A u \in outstanding' : root'[u] = u
    BY <1>1, <1>3 DEF IInv, TokensAreRecorded, TypeOK
  <2>4. QED BY <1>1, <1>2, <1>3, <2>1, <2>2, <2>3 DEF IInv, TokensAreRecorded
<1>8. \A u \in Tokens : Usable(u)' => Usable(u) \/ u = t
  BY <1>1, <1>2 DEF Usable
<1>9. \A f \in minted : Still(f) => Still(f)' /\ root'[t] # f
  <2> SUFFICES ASSUME NEW f \in minted, Still(f) PROVE Still(f)' /\ root'[t] # f
    OBVIOUS
  <2>1. root'[t] # f
    BY <1>2, <1>3 DEF Still, Rotates, Refreshing, End, Move
  <2>2. Still(f)'
    BY <1>2, <1>3, EndTyped DEF IInv, Still, Rotates, Refreshing, RotationsAreKnown
  <2>3. QED BY <2>1, <2>2
<1>10. ClosedAreGone'
  <2> SUFFICES ASSUME NEW f \in closed \ Excused
               PROVE  Still(f)' /\ \A u \in Tokens : Usable(u)' => root'[u] # f
    BY <1>2 DEF ClosedAreGone, Excused
  <2>1. f \in minted /\ Still(f) /\ \A u \in Tokens : Usable(u) => root[u] # f
    BY DEF IInv, ListsAreMinted, ClosedAreGone
  <2>2. QED BY <1>3, <1>8, <1>9, <2>1
<1>11. RevocationsAreOnTrack'
  <2> SUFFICES ASSUME NEW q \in Requests, pc'[q] \in {"revoking", "committing"},
                      NEW f \in {root'[l] : l \in listed'[q]} \ Excused'
               PROVE  Still(f)' /\ \A u \in Tokens : Usable(u)' /\ root'[u] = f => u \in todo'[q]
    BY DEF RevocationsAreOnTrack, Families
  <2>1. q # r /\ pc'[q] = pc[q] /\ listed'[q] = listed[q] /\ todo'[q] = todo[q]
    BY <1>2, EndTyped DEF IInv
  <2>2. listed[q] \in SUBSET minted /\ f \in Families(listed[q])
    BY <1>3, <2>1 DEF IInv, ListsAreMinted, Families
  <2>3. f \in minted
    BY <2>2, FamiliesAreMinted DEF IInv
  <2>4. Still(f) /\ \A u \in Tokens : Usable(u) /\ root[u] = f => u \in todo[q]
    BY <1>2, <2>1, <2>2 DEF IInv, RevocationsAreOnTrack, Excused
  <2>5. QED BY <1>3, <1>8, <1>9, <2>1, <2>3, <2>4
<1>12. QED BY <1>4, <1>5, <1>6, <1>7, <1>10, <1>11 DEF IInv

(* A logout holds a token, but mints none.                                 *)
LEMMA LogoutCheckStep ==
    ASSUME IInv, NEW r \in Requests, NEW t \in Tokens, LogoutCheck(r, t)
    PROVE  IInv'
<1> USE DEF LogoutCheck, tokens, history
<1>1. /\ pc' \in [Requests -> Steps] /\ pc'[r] = "leaving" /\ pc[r] = "idle"
      /\ \A q \in Requests \ {r} : pc'[q] = pc[q]
  BY MoveTyped DEF IInv, Steps
<1>2. /\ presented' \in [Requests -> Tokens \cup {NoToken}] /\ presented'[r] = t
      /\ \A q \in Requests \ {r} : presented'[q] = presented[q]
  BY DEF IInv, TypeOK
<1>3. TypeOK'
  BY <1>1, <1>2 DEF IInv, TypeOK
<1>4. RotationsAreKnown' /\ RootsAreLogins' /\ ListsAreMinted' /\ TokensAreRecorded'
  BY <1>1, <1>2, NoTokenAssumption
     DEF IInv, RotationsAreKnown, RootsAreLogins, ListsAreMinted, TokensAreRecorded, Usable
<1>5. \A q \in Requests : Refreshing(q)' => Refreshing(q) /\ presented'[q] = presented[q]
  BY <1>1, <1>2 DEF Refreshing
<1>6. ClosedAreGone' /\ RevocationsAreOnTrack'
  BY <1>1, <1>3, <1>5, QuietStep DEF Usable, Excused
<1>7. QED BY <1>3, <1>4, <1>6 DEF IInv

LEMMA LogoutStep == ASSUME IInv, NEW r \in Requests, Logout(r) PROVE IInv'
<1> USE DEF Logout, history
<1>1. presented[r] \in minted
  BY EndTyped DEF IInv, RotationsAreKnown
<1>2. TypeOK'
  BY <1>1, EndTyped DEF IInv, TypeOK
<1>3. RotationsAreKnown' /\ RootsAreLogins' /\ ListsAreMinted' /\ TokensAreRecorded'
  BY EndTyped DEF IInv, RotationsAreKnown, RootsAreLogins, ListsAreMinted, TokensAreRecorded
<1>4. \A t \in Tokens : Usable(t)' => Usable(t)
  BY DEF Usable
<1>5. \A q \in Requests : Refreshing(q)' => Refreshing(q) /\ presented'[q] = presented[q]
  BY EndTyped DEF IInv, Refreshing
<1>6. ClosedAreGone' /\ RevocationsAreOnTrack'
  BY <1>2, <1>4, <1>5, EndTyped, QuietStep DEF IInv, Excused
<1>7. QED BY <1>2, <1>3, <1>6 DEF IInv

-----------------------------------------------------------------------------
LEMMA ListOutstandingStep ==
    ASSUME IInv, NEW r \in Requests, NEW from \in {"listing", "resetting"},
           NEW to \in {"revoking", "committing"},
           ListOutstanding(r, from, to)
    PROVE  IInv'
<1> USE DEF ListOutstanding, tokens
<1>1. /\ pc' \in [Requests -> Steps] /\ pc'[r] = to
      /\ \A q \in Requests \ {r} : pc'[q] = pc[q]
  BY MoveTyped DEF IInv, Steps
<1>2. pc[r] = from /\ from \notin {"rotating", "minting", "leaving"}
  BY DEF Move
<1>3. /\ listed' \in [Requests -> SUBSET Tokens] /\ todo' \in [Requests -> SUBSET Tokens]
      /\ listed'[r] = outstanding /\ todo'[r] = outstanding
      /\ \A q \in Requests \ {r} : listed'[q] = listed[q] /\ todo'[q] = todo[q]
  BY DEF IInv, TypeOK
<1>4. \A f : f \notin Excused' => Still(f) /\ f \notin Excused
  BY DEF IInv, TypeOK, InRotation, Families, Still, Rotates, Excused
<1>5. overlapped' \in SUBSET Tokens /\ refreshed' \in SUBSET Tokens
  BY DEF IInv, TypeOK, InRotation, Refreshing, Families, Refreshed
<1>6. TypeOK'
  BY <1>1, <1>3, <1>5 DEF IInv, TypeOK
<1>7. RotationsAreKnown' /\ RootsAreLogins' /\ ListsAreMinted' /\ TokensAreRecorded'
  <2>1. RotationsAreKnown'
    BY <1>2, <1>1 DEF IInv, RotationsAreKnown
  <2>2. RootsAreLogins' /\ TokensAreRecorded'
    BY DEF IInv, RootsAreLogins, TokensAreRecorded
  <2>3. ListsAreMinted'
    BY <1>3 DEF IInv, TypeOK, ListsAreMinted
  <2>4. QED BY <2>1, <2>2, <2>3
<1>8. ClosedAreGone'
  BY <1>1, <1>4 DEF IInv, ClosedAreGone, Still, Rotates, Refreshing, Usable
<1>9. RevocationsAreOnTrack'
  <2> SUFFICES ASSUME NEW q \in Requests, pc'[q] \in {"revoking", "committing"},
                      NEW f \in Families(listed'[q]) \ Excused'
               PROVE  Still(f) /\ \A u \in Tokens : Usable(u) /\ root[u] = f => u \in todo'[q]
    BY <1>2, <1>1 DEF RevocationsAreOnTrack, Families, Usable, Still, Rotates, Refreshing
  <2>1. Still(f) /\ f \notin Excused
    BY <1>4
  <2>2. CASE q = r
    <3>1. f \in outstanding /\ root[f] = f
      BY <1>3, <2>2 DEF IInv, TokensAreRecorded, Families
    <3>2. f \notin Refreshed
      BY <3>1 DEF Excused
    <3>3. \A u \in minted : root[u] = f => u = f
      BY <3>2 DEF Refreshed
    <3>4. QED BY <1>3, <2>1, <2>2, <3>1, <3>3 DEF Usable
  <2>3. CASE q # r
    BY <1>1, <1>3, <2>1, <2>3 DEF IInv, RevocationsAreOnTrack
  <2>4. QED BY <2>2, <2>3
<1>10. QED BY <1>6, <1>7, <1>8, <1>9 DEF IInv

LEMMA BlacklistNextStep ==
    ASSUME IInv, NEW r \in Requests, NEW t \in Tokens, BlacklistNext(r, t)
    PROVE  IInv'
<1> USE DEF BlacklistNext, history
<1>1. /\ todo' \in [Requests -> SUBSET Tokens]
      /\ todo'[r] = todo[r] \ {t} /\ \A q \in Requests \ {r} : todo'[q] = todo[q]
  BY DEF IInv, TypeOK
<1>2. TypeOK'
  BY <1>1 DEF IInv, TypeOK
<1>3. RotationsAreKnown' /\ RootsAreLogins' /\ ListsAreMinted' /\ TokensAreRecorded'
  BY DEF IInv, RotationsAreKnown, RootsAreLogins, ListsAreMinted, TokensAreRecorded
<1>4. \A u \in Tokens : Usable(u)' => Usable(u) /\ u # t
  BY DEF Usable
<1>5. ClosedAreGone'
  BY <1>4 DEF IInv, ClosedAreGone, Still, Rotates, Refreshing, Excused
<1>6. RevocationsAreOnTrack'
  BY <1>1, <1>4 DEF IInv, RevocationsAreOnTrack, Still, Rotates, Refreshing, Excused, Families
<1>7. QED BY <1>2, <1>3, <1>5, <1>6 DEF IInv

(* A revocation that ends has left nothing of what it has listed.          *)
LEMMA RevocationEnds ==
    ASSUME IInv, TypeOK', NEW r \in Requests, NEW from \in {"revoking", "committing"}, End(r, from),
           \A t \in Tokens : Usable(t)' => Usable(t) /\ t \notin todo[r],
           closed' = closed \cup Families(listed[r]),
           UNCHANGED <<root, overlapped, refreshed, minted, outstanding, expired>>
    PROVE  IInv'
<1>1. RotationsAreKnown'
  BY EndTyped DEF IInv, RotationsAreKnown
<1>2. closed' \subseteq minted
  BY FamiliesAreMinted DEF IInv, ListsAreMinted
<1>3. RootsAreLogins' /\ ListsAreMinted' /\ TokensAreRecorded'
  BY <1>2, EndTyped DEF IInv, RootsAreLogins, ListsAreMinted, TokensAreRecorded
<1>4. (\A f : Still(f) => Still(f)') /\ Excused' = Excused
  BY EndTyped DEF IInv, Still, Rotates, Refreshing, Excused
<1>5. ClosedAreGone'
  <2> SUFFICES ASSUME NEW f \in closed' \ Excused
               PROVE  Still(f)' /\ \A t \in Tokens : Usable(t)' => root[t] # f
    BY <1>4 DEF ClosedAreGone
  <2>1. CASE f \in closed
    BY <1>4, <2>1 DEF IInv, ClosedAreGone
  <2>2. CASE f \in Families(listed[r])
    <3>1. pc[r] \in {"revoking", "committing"}
      BY EndTyped DEF IInv
    <3>2. Still(f) /\ \A t \in Tokens : Usable(t) /\ root[t] = f => t \in todo[r]
      BY <2>2, <3>1 DEF IInv, RevocationsAreOnTrack
    <3>3. QED BY <1>4, <3>2
  <2>3. QED BY <2>1, <2>2
<1>6. RevocationsAreOnTrack'
  <2> SUFFICES ASSUME NEW q \in Requests, pc'[q] \in {"revoking", "committing"},
                      NEW f \in Families(listed'[q]) \ Excused
               PROVE  Still(f)' /\ \A t \in Tokens : Usable(t)' /\ root[t] = f => t \in todo'[q]
    BY <1>4 DEF RevocationsAreOnTrack, Families
  <2>1. q # r /\ pc'[q] = pc[q] /\ listed'[q] = listed[q] /\ todo'[q] = todo[q]
    BY EndTyped DEF IInv
  <2>2. Still(f) /\ \A t \in Tokens : Usable(t) /\ root[t] = f => t \in todo[q]
    BY <2>1 DEF IInv, RevocationsAreOnTrack
  <2>3. QED BY <1>4, <2>1, <2>2
<1>7. QED BY <1>1, <1>3, <1>5, <1>6 DEF IInv

LEMMA RevokedStep == ASSUME IInv, NEW r \in Requests, Revoked(r) PROVE IInv'
<1> USE DEF Revoked, tokens
<1>1. TypeOK'
  BY EndTyped DEF IInv, TypeOK, Families, ListsAreMinted
<1>2. \A t \in Tokens : Usable(t)' => Usable(t) /\ t \notin todo[r]
  BY DEF Usable
<1>3. QED BY <1>1, <1>2, RevocationEnds

LEMMA ResetCommitStep == ASSUME IInv, NEW r \in Requests, ResetCommit(r) PROVE IInv'
<1> USE DEF ResetCommit
<1>1. TypeOK'
  BY EndTyped DEF IInv, TypeOK, Families, ListsAreMinted
<1>2. \A t \in Tokens : Usable(t)' => Usable(t) /\ t \notin todo[r]
  BY DEF Usable
<1>3. QED BY <1>1, <1>2, RevocationEnds

LEMMA RequestFailsStep == ASSUME IInv, NEW r \in Requests, RequestFails(r) PROVE IInv'
<1> USE DEF RequestFails, tokens, history
<1>1. TypeOK'
  BY EndTyped DEF IInv, TypeOK
<1>2. RotationsAreKnown'
  BY EndTyped DEF IInv, RotationsAreKnown
<1>3. RootsAreLogins' /\ ListsAreMinted' /\ TokensAreRecorded'
  BY EndTyped DEF IInv, RootsAreLogins, ListsAreMinted, TokensAreRecorded
<1>4. \A t \in Tokens : Usable(t)' => Usable(t)
  BY DEF Usable
<1>5. \A q \in Requests : Refreshing(q)' => Refreshing(q) /\ presented'[q] = presented[q]
  BY EndTyped DEF IInv, Refreshing
<1>6. ClosedAreGone' /\ RevocationsAreOnTrack'
  BY <1>1, <1>4, <1>5, EndTyped, QuietStep DEF IInv, Excused
<1>7. QED BY <1>1, <1>2, <1>3, <1>6 DEF IInv

(* The clean-up, the clock and a deletion bring no token to life.          *)
LEMMA BackgroundStep ==
    ASSUME IInv, Prune \/ (\E t \in Tokens : Expire(t)) \/ DeleteAccount
    PROVE  IInv'
<1>1. UNCHANGED <<minted, pc, request, history>>
  BY DEF Prune, Expire, DeleteAccount
<1>2. TypeOK'
  BY <1>1 DEF IInv, TypeOK, Prune, Expire, DeleteAccount, request, history
<1>3. RotationsAreKnown' /\ RootsAreLogins' /\ ListsAreMinted'
  BY <1>1 DEF IInv, RotationsAreKnown, RootsAreLogins, ListsAreMinted, request, history
<1>4. TokensAreRecorded'
  BY <1>1 DEF IInv, TypeOK, TokensAreRecorded, Prune, Expire, DeleteAccount, history
<1>5. \A t \in Tokens : Usable(t)' => Usable(t)
  BY DEF Usable, Prune, Expire, DeleteAccount
<1>6. ClosedAreGone' /\ RevocationsAreOnTrack'
  BY <1>1, <1>2, <1>5, QuietStep DEF Refreshing, Excused, request, history
<1>7. QED BY <1>2, <1>3, <1>4, <1>6 DEF IInv

LEMMA StutterStep == ASSUME IInv, UNCHANGED vars PROVE IInv'
<1>1. TypeOK'
  BY DEF vars, tokens, request, history, IInv, TypeOK
<1>2. RotationsAreKnown' /\ RootsAreLogins' /\ ListsAreMinted' /\ TokensAreRecorded'
  BY DEF vars, tokens, request, history, IInv, RotationsAreKnown, RootsAreLogins,
         ListsAreMinted, TokensAreRecorded
<1>3. \A t \in Tokens : Usable(t)' => Usable(t)
  BY DEF Usable, vars, tokens
<1>4. ClosedAreGone' /\ RevocationsAreOnTrack'
  BY <1>1, <1>3, QuietStep DEF vars, Refreshing, Excused, request, history
<1>5. QED BY <1>1, <1>2, <1>4 DEF IInv

LEMMA StepIInv == IInv /\ [Next]_vars => IInv'
<1> SUFFICES ASSUME IInv, [Next]_vars PROVE IInv'
  OBVIOUS
<1>1. ASSUME NEW r \in Requests,
             Authenticate(r) \/ LogoutAll(r) \/ ChangePassword(r) \/ ResetPassword(r)
      PROVE  IInv'
  BY <1>1, MoveStep DEF Authenticate, LogoutAll, ChangePassword, ResetPassword, Steps
<1>2. ASSUME NEW r \in Requests, RotateBlacklist(r) \/ MintLogin(r) \/ MintRotated(r) PROVE IInv'
  BY <1>2, RotateBlacklistStep, MintStep
<1>3. ASSUME NEW r \in Requests, NEW t \in Tokens, RefreshCheck(r, t) \/ LogoutCheck(r, t) \/ BlacklistNext(r, t)
      PROVE  IInv'
  BY <1>3, RefreshCheckStep, LogoutCheckStep, BlacklistNextStep
<1>4. ASSUME NEW r \in Requests,
             ListOutstanding(r, "listing", "revoking") \/ ListOutstanding(r, "resetting", "committing")
      PROVE  IInv'
  BY <1>4, ListOutstandingStep
<1>5. ASSUME NEW r \in Requests, Logout(r) \/ Revoked(r) \/ ResetCommit(r) \/ RequestFails(r)
      PROVE  IInv'
  BY <1>5, LogoutStep, RevokedStep, ResetCommitStep, RequestFailsStep
<1>6. CASE (\E t \in Tokens : Expire(t)) \/ Prune \/ DeleteAccount
  BY <1>6, BackgroundStep
<1>7. CASE UNCHANGED vars
  BY <1>7, StutterStep
<1>8. QED BY <1>1, <1>2, <1>3, <1>4, <1>5, <1>6, <1>7 DEF Next

(* The tables, the requests and the histories keep their types.            *)
THEOREM TypeCorrect == Spec => []TypeOK
<1>1. IInv => TypeOK
  BY DEF IInv
<1>2. QED BY <1>1, InitIInv, StepIInv, PTL DEF Spec

(* For any number of requests and tokens: a login that a completed         *)
(* revocation has listed lives on only through a refresh before the        *)
(* listing or one that overlapped the revocation.                          *)
THEOREM RevocationsHold == Spec => []SurvivorsWereRefreshed
<1>1. IInv => SurvivorsWereRefreshed
  BY DEF IInv, ClosedAreGone, SurvivorsWereRefreshed, TypeOK, Excused
<1>2. QED BY <1>1, InitIInv, StepIInv, PTL DEF Spec

(* The list of sessions is exact for what it can show: the logins whose    *)
(* own token works, and nothing else.                                      *)
THEOREM ListIsExact == Spec => []ListShowsFirstTokens
<1>1. IInv => ListShowsFirstTokens
  BY DEF IInv, TypeOK, TokensAreRecorded, ListShowsFirstTokens, SessionList, Usable
<1>2. QED BY <1>1, InitIInv, StepIInv, PTL DEF Spec

-----------------------------------------------------------------------------
LEMMA NoTokenRevives ==
    ASSUME [Next]_vars, NEW t \in minted, ~Usable(t)
    PROVE  ~Usable(t)'
<1>1. blacklisted \subseteq blacklisted' \/ (blacklisted' = blacklisted \ expired /\ expired' = expired)
  BY DEF Next, vars, tokens, request, history, Authenticate, RotateBlacklist, MintLogin, MintRotated,
         RefreshCheck, LogoutCheck, Logout,
         BlacklistNext, LogoutAll, ChangePassword, ResetPassword, ListOutstanding, Revoked,
         ResetCommit, RequestFails, Expire, Prune, DeleteAccount
<1>2. expired \subseteq expired'
  BY DEF Next, vars, tokens, request, history, Authenticate, RotateBlacklist, MintLogin, MintRotated,
         RefreshCheck, LogoutCheck, Logout,
         BlacklistNext, LogoutAll, ChangePassword, ResetPassword, ListOutstanding, Revoked,
         ResetCommit, RequestFails, Expire, Prune, DeleteAccount
<1>3. QED BY <1>1, <1>2 DEF Usable

(* A token that no longer works never works again: not after its row in    *)
(* the blacklist is gone either.                                           *)
THEOREM TokensStayDead == Spec => DeadTokenStaysDead
<1>1. [Next]_vars => [\A t \in minted : ~Usable(t) => ~Usable(t)']_vars
  BY NoTokenRevives
<1>2. QED BY <1>1, PTL DEF Spec, DeadTokenStaysDead
=============================================================================
