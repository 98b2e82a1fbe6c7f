------------------------- MODULE AccountRow_proofs --------------------------
(***************************************************************************)
(* What several requests on one user's row may take back from each other,  *)
(* for any number of them.                                                 *)
(*                                                                         *)
(* The argument: a request that has loaded the row and is not counted as   *)
(* stale holds the row as it is, so only a stale one can write an older    *)
(* row; and a password that is set is newer than every password that the   *)
(* row or a request holds.                                                 *)
(***************************************************************************)
EXTENDS AccountRow, TLAPS

Numbered ==
    row.password <= newest /\ \A r \in Requests : held[r].password <= newest

FreshHoldTheRow == \A r \in Loaded \ stale : held[r] = row

LoadedExists == Loaded # {} => exists

IInv ==
    /\ RowTypeOK /\ Numbered /\ FreshHoldTheRow /\ LoadedExists
    /\ ProfileMissingOnlyIfCutShort

-----------------------------------------------------------------------------
LEMMA InitIInv == RowInit => IInv
<1> SUFFICES ASSUME RowInit PROVE IInv
  OBVIOUS
<1>1. RowTypeOK
  BY DEF RowInit, RowTypeOK, Rows, NoRow, Loaded
<1>2. Numbered
  BY DEF RowInit, Numbered, NoRow
<1>3. FreshHoldTheRow /\ LoadedExists /\ ProfileMissingOnlyIfCutShort
  BY DEF RowInit, FreshHoldTheRow, LoadedExists, ProfileMissingOnlyIfCutShort, Loaded
<1>4. QED BY <1>1, <1>2, <1>3 DEF IInv

(* The row of a request as it is loaded, and as it is let go.              *)
LEMMA LoadStep ==
    ASSUME IInv, NEW r \in Requests, NEW step \in {"updating", "changing"}, Load(r, step)
    PROVE  IInv'
<1> USE DEF IInv, Load
<1>1. /\ at' \in [Requests -> {"idle", "profiling", "updating", "changing"}]
      /\ held' \in [Requests -> Rows]
      /\ at[r] = "idle" /\ at'[r] = step /\ held'[r] = row
      /\ \A q \in Requests \ {r} : at'[q] = at[q] /\ held'[q] = held[q]
  BY DEF RowTypeOK
<1>2. RowTypeOK'
  BY <1>1 DEF RowTypeOK, Loaded
<1>3. Numbered'
  BY <1>1 DEF Numbered, RowTypeOK
<1>4. FreshHoldTheRow' /\ LoadedExists'
  BY <1>1 DEF FreshHoldTheRow, LoadedExists, Loaded
<1>5. ProfileMissingOnlyIfCutShort'
  BY <1>1 DEF ProfileMissingOnlyIfCutShort
<1>6. QED BY <1>2, <1>3, <1>4, <1>5

LEMMA FinishStep ==
    ASSUME RowTypeOK, NEW r \in Requests, Finish(r)
    PROVE  /\ at' \in [Requests -> {"idle", "profiling", "updating", "changing"}]
           /\ held' \in [Requests -> Rows]
           /\ at'[r] = "idle" /\ held'[r] = NoRow
           /\ \A q \in Requests \ {r} : at'[q] = at[q] /\ held'[q] = held[q]
  BY DEF Finish, RowTypeOK, Rows, NoRow

(* A request ends without a change of the row.                             *)
LEMMA EndStep ==
    ASSUME IInv, NEW r \in Requests, Finish(r), UNCHANGED <<exists, row, newest, stale>>,
           profile' \in BOOLEAN, profile => profile',
           cutShort' \in BOOLEAN, cutShort => cutShort',
           at[r] = "profiling" => profile' \/ cutShort'
    PROVE  IInv'
<1> USE DEF IInv
<1>1. /\ at' \in [Requests -> {"idle", "profiling", "updating", "changing"}]
      /\ held' \in [Requests -> Rows]
      /\ at'[r] = "idle" /\ held'[r] = NoRow
      /\ \A q \in Requests \ {r} : at'[q] = at[q] /\ held'[q] = held[q]
  BY FinishStep
<1>2. RowTypeOK'
  BY <1>1 DEF RowTypeOK, Loaded
<1>3. Numbered'
  BY <1>1 DEF Numbered, RowTypeOK, NoRow
<1>4. FreshHoldTheRow' /\ LoadedExists'
  BY <1>1 DEF FreshHoldTheRow, LoadedExists, Loaded
<1>5. ProfileMissingOnlyIfCutShort'
  BY <1>1 DEF ProfileMissingOnlyIfCutShort
<1>6. QED BY <1>2, <1>3, <1>4, <1>5

(* A request writes the row: each of the others that have loaded it is     *)
(* stale from now on.                                                      *)
LEMMA WriteStep ==
    ASSUME IInv, NEW r \in Requests, NEW new \in Rows, Write(r, new),
           newest' \in Nat, newest <= newest', new.password <= newest',
           at[r] \in {"updating", "changing"} => Finish(r),
           at[r] \notin {"updating", "changing"} => UNCHANGED <<at, held>>,
           UNCHANGED <<exists, profile, cutShort>>
    PROVE  IInv'
<1> USE DEF IInv
<1>1. /\ at' \in [Requests -> {"idle", "profiling", "updating", "changing"}]
      /\ held' \in [Requests -> Rows]
      /\ at'[r] \notin {"updating", "changing"}
      /\ \A q \in Requests : held'[q] = held[q] \/ held'[q] = NoRow
      /\ \A q \in Requests : at'[q] \notin {"updating", "changing"} => held'[q] = NoRow
      /\ \A q \in Requests \ {r} : at'[q] = at[q] /\ held'[q] = held[q]
      /\ at[r] = "profiling" => at'[r] = "profiling"
  <2>1. CASE at[r] \in {"updating", "changing"}
    BY <2>1, FinishStep DEF RowTypeOK, Loaded
  <2>2. CASE at[r] \notin {"updating", "changing"}
    BY <2>2 DEF RowTypeOK, Loaded
  <2>3. QED BY <2>1, <2>2
<1>2. row' = new /\ stale' = Loaded \ {r}
  BY DEF Write
<1>3. RowTypeOK'
  BY <1>1, <1>2 DEF RowTypeOK, Loaded
<1>4. Numbered'
  <2>1. \A q \in Requests : held'[q] \in Rows /\ held[q] \in Rows
    BY <1>1 DEF RowTypeOK
  <2>2. ASSUME NEW q \in Requests PROVE held'[q].password <= newest'
    <3>1. CASE held'[q] = held[q]
      BY <3>1, <2>1 DEF Numbered, RowTypeOK, Rows
    <3>2. CASE held'[q] = NoRow
      BY <3>2 DEF NoRow
    <3>3. QED BY <3>1, <3>2, <1>1
  <2>3. QED BY <2>2, <1>2 DEF Numbered
<1>5. FreshHoldTheRow' /\ LoadedExists'
  BY <1>1, <1>2 DEF FreshHoldTheRow, LoadedExists, Loaded
<1>6. ProfileMissingOnlyIfCutShort'
  BY <1>1 DEF ProfileMissingOnlyIfCutShort
<1>7. QED BY <1>3, <1>4, <1>5, <1>6

LEMMA RegisterStep ==
    ASSUME IInv, NEW r \in Requests, Register(r)
    PROVE  IInv'
<1> USE DEF IInv, Register, NewPassword
<1>1. /\ at' \in [Requests -> {"idle", "profiling", "updating", "changing"}]
      /\ at[r] = "idle" /\ at'[r] = "profiling"
      /\ \A q \in Requests \ {r} : at'[q] = at[q]
  BY DEF RowTypeOK
<1>2. RowTypeOK'
  BY <1>1 DEF RowTypeOK, Loaded, Rows
<1>3. Numbered'
  BY DEF Numbered, RowTypeOK, Rows
<1>4. Loaded = {} /\ Loaded' = {}
  BY <1>1 DEF LoadedExists, Loaded
<1>5. FreshHoldTheRow' /\ LoadedExists'
  BY <1>4 DEF FreshHoldTheRow, LoadedExists
<1>6. ProfileMissingOnlyIfCutShort'
  BY <1>1 DEF ProfileMissingOnlyIfCutShort
<1>7. QED BY <1>2, <1>3, <1>5, <1>6

LEMMA NewPasswordTyped ==
    ASSUME NEW old \in Rows, NEW n \in Nat
    PROVE  [old EXCEPT !.password = n + 1] \in Rows
<1> DEFINE new == [old EXCEPT !.password = n + 1]
<1>1. new = [password |-> n + 1, marked |-> old.marked]
  BY DEF Rows
<1>2. old.marked \in BOOLEAN
  BY DEF Rows
<1>3. QED BY <1>1, <1>2 DEF Rows

LEMMA NextIInv == IInv /\ [RowNext]_rowVars => IInv'
<1> SUFFICES ASSUME IInv, [RowNext]_rowVars PROVE IInv'
  OBVIOUS
<1>1. ASSUME NEW r \in Requests, Register(r) PROVE IInv'
  BY <1>1, RegisterStep
<1>2. ASSUME NEW r \in Requests, CreateProfile(r) PROVE IInv'
  BY <1>2, EndStep DEF CreateProfile, IInv, RowTypeOK
<1>3. ASSUME NEW r \in Requests, LoadForUpdate(r) \/ LoadForChange(r) PROVE IInv'
  BY <1>3, LoadStep DEF LoadForUpdate, LoadForChange
<1>4. ASSUME NEW r \in Requests, SaveMe(r) PROVE IInv'
  <2>1. held[r] \in Rows /\ held[r].password <= newest /\ newest \in Nat
    BY DEF IInv, RowTypeOK, Numbered
  <2>2. QED BY <1>4, <2>1, WriteStep DEF SaveMe
<1>5. ASSUME NEW r \in Requests, SavePassword(r) PROVE IInv'
  <2>1. PICK new \in Rows : new = [row EXCEPT !.password = newest + 1]
    BY NewPasswordTyped DEF IInv, RowTypeOK
  <2>2. newest \in Nat /\ new.password = newest + 1
    BY <2>1 DEF IInv, RowTypeOK, Rows
  <2>3. Write(r, new)
    BY <1>5, <2>1 DEF SavePassword, Write
  <2>4. QED BY <1>5, <2>2, <2>3, WriteStep DEF SavePassword, NewPassword
<1>6. ASSUME NEW r \in Requests, SetPassword(r) PROVE IInv'
  <2>1. PICK new \in Rows : new = [row EXCEPT !.password = newest + 1]
    BY NewPasswordTyped DEF IInv, RowTypeOK
  <2>2. newest \in Nat /\ new.password = newest + 1
    BY <2>1 DEF IInv, RowTypeOK, Rows
  <2>3. Write(r, new)
    BY <1>6, <2>1 DEF SetPassword, Write
  <2>4. QED BY <1>6, <2>2, <2>3, WriteStep DEF SetPassword, NewPassword
<1>7. ASSUME NEW r \in Requests, MarkDeleted(r) PROVE IInv'
  <2>1. PICK new \in Rows : new = [row EXCEPT !.marked = TRUE]
    BY DEF IInv, RowTypeOK, Rows
  <2>2. newest \in Nat /\ new.password <= newest
    BY <2>1 DEF IInv, RowTypeOK, Rows, Numbered
  <2>3. Write(r, new)
    BY <1>7, <2>1 DEF MarkDeleted, Write
  <2>4. QED BY <1>7, <2>2, <2>3, WriteStep DEF MarkDeleted
<1>8. ASSUME NEW r \in Requests, RowRequestFails(r) PROVE IInv'
  BY <1>8, EndStep DEF RowRequestFails, IInv, RowTypeOK
<1>9. CASE ViewProfile
  BY <1>9 DEF ViewProfile, IInv, RowTypeOK, Numbered, FreshHoldTheRow, LoadedExists,
     ProfileMissingOnlyIfCutShort, Loaded
<1>10. CASE EraseUser
  <2>1. Loaded = {} /\ Loaded' = {}
    BY <1>10 DEF EraseUser, Loaded
  <2>2. row' = NoRow /\ NoRow \in Rows /\ NoRow.password = 0
    BY <1>10 DEF EraseUser, NoRow, Rows
  <2>3. RowTypeOK'
    BY <1>10, <2>2 DEF EraseUser, IInv, RowTypeOK, Loaded
  <2>4. Numbered'
    BY <1>10, <2>2 DEF EraseUser, IInv, RowTypeOK, Numbered
  <2>5. QED
    BY <1>10, <2>1, <2>3, <2>4 DEF EraseUser, IInv, FreshHoldTheRow, LoadedExists,
       ProfileMissingOnlyIfCutShort
<1>11. CASE UNCHANGED rowVars
  BY <1>11 DEF rowVars, IInv, RowTypeOK, Numbered, FreshHoldTheRow, LoadedExists,
     ProfileMissingOnlyIfCutShort, Loaded
<1>12. QED
  BY <1>1, <1>2, <1>3, <1>4, <1>5, <1>6, <1>7, <1>8, <1>9, <1>10, <1>11 DEF RowNext

LEMMA Invariance == RowSpec => []IInv
  BY InitIInv, NextIInv, PTL DEF RowSpec

-----------------------------------------------------------------------------
(* The user's row, its profile and what the requests hold keep their       *)
(* types, and a request that has not loaded the row holds none.            *)
THEOREM TypeCorrect == RowSpec => []RowTypeOK
<1>1. IInv => RowTypeOK
  BY DEF IInv
<1>2. QED BY <1>1, Invariance, PTL

(* A user who lacks a profile has been registered half-way, or is being    *)
(* registered.                                                             *)
THEOREM ProfilesFollow == RowSpec => []ProfileMissingOnlyIfCutShort
<1>1. IInv => ProfileMissingOnlyIfCutShort
  BY DEF IInv
<1>2. QED BY <1>1, Invariance, PTL

(* The step form of the property below.                                    *)
LEMMA StepTakesBackOnlyByProfileScreen ==
    ASSUME IInv, [RowNext]_rowVars, exists, exists',
           row'.password < row.password \/ (row.marked /\ ~row'.marked)
    PROVE  \E r \in stale : at[r] = "updating" /\ row' = held[r]
<1>1. row \in Rows /\ row.password \in Nat /\ newest \in Nat /\ row.password <= newest
  BY DEF IInv, RowTypeOK, Rows, Numbered
<1>2. row' # row
  BY <1>1
<1>3. PICK r \in Requests : SaveMe(r) \/ SavePassword(r) \/ SetPassword(r) \/ MarkDeleted(r)
  BY <1>2 DEF RowNext, rowVars, Register, CreateProfile, LoadForUpdate, LoadForChange, Load,
     RowRequestFails, ViewProfile, EraseUser
<1>4. CASE SaveMe(r)
  <2>1. at[r] = "updating" /\ row' = held[r]
    BY <1>4 DEF SaveMe, Write
  <2>2. r \in stale
    BY <2>1, <1>2 DEF IInv, FreshHoldTheRow, Loaded
  <2>3. QED BY <2>1, <2>2
<1>5. CASE SavePassword(r) \/ SetPassword(r)
  <2>1. row' = [row EXCEPT !.password = newest + 1]
    BY <1>5 DEF SavePassword, SetPassword, Write
  <2>2. row'.password = newest + 1 /\ row'.marked = row.marked
    BY <2>1, <1>1 DEF Rows
  <2>3. QED BY <2>2, <1>1
<1>6. CASE MarkDeleted(r)
  <2>1. row' = [row EXCEPT !.marked = TRUE]
    BY <1>6 DEF MarkDeleted, Write
  <2>2. row'.password = row.password /\ row'.marked
    BY <2>1, <1>1 DEF Rows
  <2>3. QED BY <2>2, <1>1
<1>7. QED BY <1>3, <1>4, <1>5, <1>6

(* Of everything several requests can do to one row, only a profile edit   *)
(* that loaded the row before a later write takes a password or a          *)
(* requested deletion back.                                                *)
THEOREM OnlyProfileScreenTakesBack == RowSpec => TakenBackOnlyByProfileScreen
<1>1. IInv /\ [RowNext]_rowVars
      => [exists /\ exists' /\ (row'.password < row.password \/ (row.marked /\ ~row'.marked))
          => \E r \in stale : at[r] = "updating" /\ row' = held[r]]_rowVars
  BY StepTakesBackOnlyByProfileScreen
<1>2. QED BY <1>1, Invariance, PTL DEF RowSpec, TakenBackOnlyByProfileScreen
=============================================================================
