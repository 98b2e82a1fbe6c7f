--------------------------- MODULE Library_proofs ---------------------------
(***************************************************************************)
(* The services of MC_Library, for all values of its constants: content    *)
(* packs with their nightly check, store callbacks, profiles, bookmarks;   *)
(* and that the composition runs each of them as if it were alone.         *)
(*                                                                         *)
(* Packs.  As long as a version has not been reopened, its row stays       *)
(* published with the checksum that was sent to the devices, and they      *)
(* install nothing else.  The check remembers, with each row it has still  *)
(* to look at, the checksum its query found: an object that nobody has     *)
(* touched since compares now as it did then.                              *)
(***************************************************************************)
EXTENDS MC_Library, TLAPS, FiniteSetTheorems, WellFoundedInduction

-----------------------------------------------------------------------------
(* Content packs. *)

Vouched(copy) ==
    copy # None => \/ copy.version \in reopened
                   \/ state[copy.version] = "published" /\ checksum[copy.version] = copy.content

DevicesAreVouched == \A d \in Devices : Vouched(asked[d]) /\ Vouched(installed[d])

RowsHaveChecksum == \A v \in Versions : state[v] # "none" => checksum[v] \in Contents

IInv == TypeOK /\ RowsHaveChecksum /\ DevicesAreVouched

-----------------------------------------------------------------------------
LEMMA InitIInv == Init => IInv
  BY DEF Init, IInv, TypeOK, RowsHaveChecksum, DevicesAreVouched, Vouched

(* Staff, clock and storage write one version's row or object, and touch   *)
(* no published row but by reopening it.                                   *)
LEMMA PackStepEffect ==
    ASSUME TypeOK, RowsHaveChecksum, PackStep
    PROVE  /\ TypeOK' /\ RowsHaveChecksum' /\ UNCHANGED <<asked, installed>> /\ reopened \subseteq reopened'
           /\ \A v \in Versions : state[v] = "published" =>
                \/ v \in reopened'
                \/ state'[v] = "published" /\ checksum'[v] = checksum[v]
<1> USE DEF TypeOK, RowsHaveChecksum
<1> DEFINE Effect ==
      /\ TypeOK' /\ RowsHaveChecksum' /\ UNCHANGED <<asked, installed>> /\ reopened \subseteq reopened'
      /\ \A v \in Versions : state[v] = "published" =>
           \/ v \in reopened'
           \/ state'[v] = "published" /\ checksum'[v] = checksum[v]
<1>1. ASSUME NEW v \in Versions, NEW c \in Contents,
             NEW s \in {"draft", "scheduled", "published"}, Upload(v, s, c)
      PROVE  Effect
  BY <1>1 DEF Upload, Put, device
<1>2. ASSUME NEW v \in Versions, NEW c \in Contents, EditDraft(v, c) PROVE Effect
  BY <1>2 DEF EditDraft, Put, device
<1>3. ASSUME NEW v \in Versions, NEW c \in Contents, Withdraw(v, c) PROVE Effect
  BY <1>3 DEF Withdraw, Put, device
<1>4. ASSUME NEW v \in Versions, Revoke(v) PROVE Effect
  BY <1>4 DEF Revoke, device
<1>5. ASSUME NEW v \in Versions, DeleteVersion(v) PROVE Effect
  BY <1>5 DEF DeleteVersion, device
<1>6. ASSUME NEW v \in Versions, Due(v) PROVE Effect
  BY <1>6 DEF Due, device
<1>7. ASSUME NEW v \in Versions, NEW how \in {Damaged, Missing}, Damage(v, how) PROVE Effect
  BY <1>7 DEF Damage, device
<1>8. QED BY <1>1, <1>2, <1>3, <1>4, <1>5, <1>6, <1>7 DEF PackStep

LEMMA NextIInv == IInv /\ [Next]_vars => IInv'
<1> SUFFICES ASSUME IInv, [Next]_vars PROVE IInv'
  OBVIOUS
<1> USE DEF IInv
<1>1. CASE PackStep
  <2>1. TypeOK' /\ RowsHaveChecksum'
    BY <1>1, PackStepEffect
  <2>2. ASSUME NEW copy \in Copies \cup {None}, Vouched(copy) PROVE Vouched(copy)'
    <3>1. CASE copy = None
      BY <3>1 DEF Vouched
    <3>2. CASE copy # None
      <4>1. copy.version \in Versions
        BY <3>2 DEF Copies
      <4>2. QED BY <1>1, <2>2, <3>2, <4>1, PackStepEffect DEF Vouched
    <3>3. QED BY <3>1, <3>2
  <2>3. DevicesAreVouched'
    <3>1. UNCHANGED <<asked, installed>>
      BY <1>1, PackStepEffect
    <3>2. ASSUME NEW d \in Devices PROVE Vouched(asked[d])' /\ Vouched(installed[d])'
      <4>1. PICK a \in Copies \cup {None}, i \in Copies \cup {None} :
              a = asked[d] /\ i = installed[d]
        BY DEF TypeOK
      <4>2. Vouched(a) /\ Vouched(i)
        BY <4>1 DEF DevicesAreVouched
      <4>3. Vouched(a)' /\ Vouched(i)'
        BY <4>2, <2>2
      <4>4. QED BY <3>1, <4>1, <4>3 DEF Vouched
    <3>3. QED BY <3>2 DEF DevicesAreVouched
  <2>4. QED BY <2>1, <2>3
<1>2. ASSUME NEW d \in Devices, Download(d) PROVE IInv'
  <2>1. PICK v \in Versions :
          Offered(v) /\ asked' = [asked EXCEPT ![d] = [version |-> v, content |-> checksum[v]]]
    BY <1>2 DEF Download
  <2>2. UNCHANGED <<state, checksum, revoked, store, installed, reopened>>
    BY <1>2 DEF Download, pack
  <2>3. DevicesAreVouched'
    BY <2>1, <2>2 DEF DevicesAreVouched, Vouched, Offered, TypeOK
  <2>4. TypeOK' /\ RowsHaveChecksum'
    <3>1. [version |-> v, content |-> checksum[v]] \in Copies
      BY <2>1 DEF Offered, RowsHaveChecksum, Copies
    <3>2. QED BY <2>1, <2>2, <3>1 DEF TypeOK, RowsHaveChecksum
  <2>5. QED BY <2>3, <2>4
<1>3. ASSUME NEW d \in Devices, Install(d) PROVE IInv'
  <2>1. UNCHANGED <<state, checksum, revoked, store, reopened>>
    BY <1>3 DEF Install, pack
  <2>2. TypeOK' /\ RowsHaveChecksum'
    BY <1>3, <2>1 DEF Install, TypeOK, RowsHaveChecksum
  <2>3. DevicesAreVouched'
    BY <1>3, <2>1 DEF Install, DevicesAreVouched, Vouched, TypeOK
  <2>4. QED BY <2>2, <2>3
<1>4. CASE UNCHANGED vars
  BY <1>4 DEF vars, pack, device, TypeOK, RowsHaveChecksum, DevicesAreVouched, Vouched
<1>5. QED BY <1>1, <1>2, <1>3, <1>4 DEF Next

LEMMA Invariance == Spec => []IInv
  BY InitIInv, NextIInv, PTL DEF Spec

-----------------------------------------------------------------------------
(* Rows, objects and devices keep their types: a device is sent only to a  *)
(* version that has a checksum.                                            *)
THEOREM TypeCorrect == Spec => []TypeOK
<1>1. IInv => TypeOK
  BY DEF IInv
<1>2. QED BY <1>1, Invariance, PTL

(* Devices on the same version hold the same bytes, unless it was          *)
(* withdrawn or deleted and issued again.                                  *)
THEOREM VersionsAreImmutable == Spec => []SameVersionSameBytes
<1>1. IInv => SameVersionSameBytes
  BY DEF IInv, DevicesAreVouched, Vouched, SameVersionSameBytes
<1>2. QED BY <1>1, Invariance, PTL

-----------------------------------------------------------------------------
(* A version that nobody has touched, and that the check has not counted,  *)
(* is in order, or its row is still to be looked at.                       *)
SuspectsAreFound ==
    /\ failed \subseteq suspects \cup touched
    /\ \A v \in suspects \ (touched \cup failed) :
         \E c \in todo : c.version = v /\ store[v] # c.content
    /\ \A c \in todo : c.version \notin suspects \cup touched => store[c.version] = c.content

CheckIInv ==
    /\ TypeOK /\ RowsHaveChecksum /\ CheckTypeOK /\ SuspectsAreFound
    /\ ~checking => todo = {} /\ failed = {} /\ suspects = {}

LEMMA CheckInitIInv == CheckInit => CheckIInv
<1> SUFFICES ASSUME CheckInit PROVE CheckIInv
  OBVIOUS
<1>1. TypeOK /\ RowsHaveChecksum
  BY InitIInv DEF CheckInit, IInv
<1>2. CheckTypeOK /\ SuspectsAreFound /\ todo = {} /\ failed = {} /\ suspects = {}
  BY DEF CheckInit, CheckTypeOK, SuspectsAreFound
<1>3. QED BY <1>1, <1>2 DEF CheckIInv

LEMMA CheckNextIInv == CheckIInv /\ [CheckNext]_<<vars, check, touched>> => CheckIInv'
<1> SUFFICES ASSUME CheckIInv, [CheckNext]_<<vars, check, touched>> PROVE CheckIInv'
  OBVIOUS
<1> USE DEF CheckIInv
<1>1. ASSUME UNCHANGED vars
      PROVE  TypeOK' /\ RowsHaveChecksum' /\ UNCHANGED <<state, checksum, revoked, store>>
  BY <1>1 DEF vars, pack, device, TypeOK, RowsHaveChecksum
<1>2. CASE VerifyStart
  <2>1. todo' \in SUBSET Copies
    <3>1. ASSUME NEW v \in Found
          PROVE  [version |-> v, content |-> checksum[v]] \in Copies
      BY <3>1 DEF Found, RowsHaveChecksum, Copies
    <3>2. QED BY <1>2, <3>1 DEF VerifyStart
  <2>2. CheckTypeOK'
    BY <1>2, <2>1 DEF VerifyStart, CheckTypeOK, Found
  <2>3. ASSUME NEW v \in suspects'
        PROVE  \E c \in todo' : c.version = v /\ store[v] # c.content
    <3>1. v \in Found /\ store[v] # checksum[v]
      BY <1>2, <2>3 DEF VerifyStart
    <3>2. [version |-> v, content |-> checksum[v]] \in todo'
      BY <1>2, <3>1 DEF VerifyStart
    <3>3. QED BY <3>1, <3>2
  <2>4. ASSUME NEW c \in todo', c.version \notin suspects' PROVE store[c.version] = c.content
    BY <1>2, <2>4 DEF VerifyStart
  <2>5. failed' = {} /\ touched' = {} /\ checking' /\ UNCHANGED vars
    BY <1>2 DEF VerifyStart
  <2>6. QED BY <1>1, <2>2, <2>3, <2>4, <2>5 DEF SuspectsAreFound
<1>3. CASE VerifyEnd
  BY <1>1, <1>3 DEF VerifyEnd, CheckTypeOK, SuspectsAreFound
<1>4. CASE PackChanges
  <2>1. TypeOK' /\ RowsHaveChecksum'
    BY <1>4, PackStepEffect DEF PackChanges
  <2>2. CheckTypeOK'
    BY <1>4 DEF PackChanges, check, CheckTypeOK
  <2>3. UNCHANGED <<checking, todo, failed, suspects>>
    BY <1>4 DEF PackChanges, check
  <2>4. CASE ~checking
    BY <2>1, <2>2, <2>3, <2>4 DEF SuspectsAreFound
  <2>5. CASE checking
    <3>1. /\ touched \subseteq touched'
          /\ \A v \in Versions \ touched' : store'[v] = store[v]
      BY <1>4, <2>5 DEF PackChanges
    <3>2. suspects \subseteq Versions /\ \A c \in todo : c.version \in Versions
      BY DEF CheckTypeOK, Copies
    <3>3. SuspectsAreFound'
      BY <2>3, <3>1, <3>2 DEF SuspectsAreFound
    <3>4. QED BY <2>1, <2>2, <2>3, <2>5, <3>3
  <2>6. QED BY <2>4, <2>5
<1>5. ASSUME NEW c \in todo, VerifyNext(c) PROVE CheckIInv'
  <2>1. c.version \in Versions
    BY DEF CheckTypeOK, Copies
  <2>2. CheckTypeOK'
    BY <1>5, <2>1 DEF VerifyNext, CheckTypeOK
  <2>3. SuspectsAreFound'
    BY <1>1, <1>5 DEF VerifyNext, SuspectsAreFound
  <2>4. checking
    OBVIOUS
  <2>5. QED BY <1>1, <1>5, <2>2, <2>3, <2>4 DEF VerifyNext
<1>6. CASE UNCHANGED <<vars, check, touched>>
  BY <1>1, <1>6 DEF check, CheckTypeOK, SuspectsAreFound
<1>7. QED BY <1>2, <1>3, <1>4, <1>5, <1>6 DEF CheckNext

LEMMA CheckInvariance == CheckSpec => []CheckIInv
  BY CheckInitIInv, CheckNextIInv, PTL DEF CheckSpec

(* The nightly check counts each version that was on offer and bad when it *)
(* began, and none that was in order all along, whatever staff and storage *)
(* do while it runs.                                                       *)
THEOREM CheckIsRight == CheckSpec => []VerifyIsRight
<1>1. CheckIInv => VerifyIsRight
  BY DEF CheckIInv, SuspectsAreFound, VerifyIsRight
<1>2. QED BY <1>1, CheckInvariance, PTL

-----------------------------------------------------------------------------
(* Store callbacks.  A payload is written only where there is none: the    *)
(* insert looks again.                                                     *)

LEMMA WebhookTypes == W!Spec => []W!TypeOK
<1>1. W!Init => W!TypeOK
  BY DEF W!Init, W!TypeOK
<1>2. W!TypeOK /\ [W!Next]_W!vars => W!TypeOK'
  <2> SUFFICES ASSUME W!TypeOK, [W!Next]_W!vars PROVE W!TypeOK'
    OBVIOUS
  <2> USE DEF W!TypeOK
  <2>1. ASSUME NEW w \in Workers, NEW e \in Events, NEW p \in Payloads, W!GetMiss(w, e, p)
        PROVE  W!TypeOK'
    BY <2>1 DEF W!GetMiss, W!Calls
  <2>2. ASSUME NEW w \in Workers, NEW e \in Events, W!GetHit(w, e) PROVE W!TypeOK'
    BY <2>2 DEF W!GetHit
  <2>3. ASSUME NEW w \in Workers, W!Create(w) PROVE W!TypeOK'
    <3>1. inserting[w] \in W!Calls
      BY <2>3 DEF W!Create
    <3>2. inserting[w].id \in Events /\ inserting[w].payload \in Payloads
      BY <3>1 DEF W!Calls
    <3>3. QED BY <2>3, <3>2 DEF W!Create
  <2>4. ASSUME NEW w \in Workers, W!CallFails(w) PROVE W!TypeOK'
    BY <2>4 DEF W!CallFails
  <2>5. CASE UNCHANGED W!vars
    BY <2>5 DEF W!vars
  <2>6. QED BY <2>1, <2>2, <2>3, <2>4, <2>5 DEF W!Next
<1>3. QED BY <1>1, <1>2, PTL DEF W!Spec

(* What is recorded of an event first stays, whichever deliveries race for *)
(* it.                                                                     *)
THEOREM FirstDeliveriesStay == W!Spec => FirstDeliveryStays
<1>1. ASSUME W!TypeOK, W!Next, NEW e \in Events, event[e] # None
      PROVE  event'[e] = event[e]
  <2>1. ASSUME NEW w \in Workers, W!Create(w) PROVE event'[e] = event[e]
    BY <1>1, <2>1 DEF W!Create, W!TypeOK
  <2>2. QED BY <1>1, <2>1 DEF W!Next, W!GetMiss, W!GetHit, W!CallFails
<1>2. W!TypeOK /\ [W!Next]_W!vars
        => [\A e \in Events : event[e] # None => event'[e] = event[e]]_W!vars
  BY <1>1
<1>3. QED BY <1>2, WebhookTypes, PTL DEF W!Spec, FirstDeliveryStays, W!FirstDeliveryStays

-----------------------------------------------------------------------------
(* Profiles.  A request that is not behind has the row as it is, and an    *)
(* edit's number is higher than any in the row.                            *)

UpToDate == \A w \in Workers : step[w] = "loaded" /\ w \notin behind => loaded[w] = stored

LoadedIsStored == stored = None => \A w \in Workers : step[w] # "loaded"

Numbered ==
    /\ stored # None => \A f \in Fields : stored[f] <= edits
    /\ \A w \in Workers, f \in Fields : step[w] = "loaded" => loaded[w][f] <= edits

ProfileInv == P!TypeOK /\ UpToDate /\ LoadedIsStored /\ Numbered

LEMMA ProfileInitInv == P!Init => ProfileInv
  BY BoundsAssumption
     DEF P!Init, ProfileInv, P!TypeOK, UpToDate, LoadedIsStored, Numbered

LEMMA ProfileNextInv == ProfileInv /\ [P!Next]_P!vars => ProfileInv'
<1> SUFFICES ASSUME ProfileInv, [P!Next]_P!vars PROVE ProfileInv'
  OBVIOUS
<1> USE DEF ProfileInv
<1>1. ASSUME NEW w \in Workers, P!Find(w) PROVE ProfileInv'
  <2>1. P!TypeOK'
    BY <1>1 DEF P!TypeOK, P!Find, P!Load
  <2>2. UpToDate' /\ LoadedIsStored' /\ Numbered'
    BY <1>1 DEF P!TypeOK, P!Find, P!Load, UpToDate, LoadedIsStored, Numbered
  <2>3. QED BY <2>1, <2>2
<1>2. ASSUME NEW w \in Workers, P!Miss(w) PROVE ProfileInv'
  BY <1>2 DEF P!TypeOK, P!Miss, UpToDate, LoadedIsStored, Numbered
<1>3. ASSUME NEW w \in Workers, P!Insert(w) PROVE ProfileInv'
  <2>1. stored' \in P!Profile /\ stored' = IF stored = None THEN P!Defaults ELSE stored
    BY <1>3 DEF P!TypeOK, P!Insert, P!Profile, P!Defaults
  <2>2. P!TypeOK'
    BY <1>3, <2>1 DEF P!TypeOK, P!Insert, P!Load
  <2>3. LoadedIsStored' /\ UpToDate'
    BY <1>3, <2>1, NoneIsNoProfile
       DEF P!TypeOK, P!Insert, P!Load, P!Profile, UpToDate, LoadedIsStored
  <2>4. Numbered'
    BY <1>3, <2>1, BoundsAssumption
       DEF P!TypeOK, P!Insert, P!Load, P!Defaults, Numbered, LoadedIsStored
  <2>5. QED BY <2>2, <2>3, <2>4
<1>4. ASSUME NEW w \in Workers, NEW F \in SUBSET Fields, P!Save(w, F) PROVE ProfileInv'
  <2>1. stored' \in P!Profile /\ edits' = edits + 1 /\ edits \in Nat
        /\ \A f \in Fields : stored'[f] <= edits'
    BY <1>4, BoundsAssumption DEF P!TypeOK, P!Save, P!Profile, Numbered
  <2>2. P!TypeOK'
    BY <1>4, <2>1, BoundsAssumption DEF P!TypeOK, P!Save, P!Leave
  <2>3. UpToDate' /\ LoadedIsStored'
    BY <1>4, <2>1, NoneIsNoProfile
       DEF P!TypeOK, P!Save, P!Leave, P!Profile, UpToDate, LoadedIsStored
  <2>4. Numbered'
    BY <1>4, <2>1 DEF P!TypeOK, P!Save, P!Leave, P!Profile, Numbered
  <2>5. QED BY <2>2, <2>3, <2>4
<1>5. ASSUME NEW w \in Workers, P!End(w) PROVE ProfileInv'
  BY <1>5 DEF P!TypeOK, P!End, P!Leave, UpToDate, LoadedIsStored, Numbered
<1>6. CASE UNCHANGED P!vars
  BY <1>6 DEF P!vars, P!TypeOK, UpToDate, LoadedIsStored, Numbered
<1>7. QED BY <1>1, <1>2, <1>3, <1>4, <1>5, <1>6 DEF P!Next

LEMMA ProfileInvariance == P!Spec => []ProfileInv
  BY ProfileInitInv, ProfileNextInv, PTL DEF P!Spec

(* A preference returns to an older value only by the save of a request    *)
(* that had loaded the profile before a save of another, for any number of *)
(* requests and fields.                                                    *)
THEOREM PreferencesSetBackOnlyByOverlap == P!Spec => SetBackOnlyByOverlap
<1> DEFINE SetBack == \A f \in Fields :
             stored # None /\ stored'[f] < stored[f]
               => \E w \in behind : loaded'[w] = None /\ stored'[f] = loaded[w][f]
<1>1. ASSUME ProfileInv, P!Next PROVE SetBack
  <2>1. ASSUME NEW f \in Fields, stored # None, stored'[f] < stored[f],
               NEW w \in Workers, NEW F \in SUBSET Fields, P!Save(w, F)
        PROVE  w \in behind /\ loaded'[w] = None /\ stored'[f] = loaded[w][f]
    <3>1. stored \in P!Profile /\ edits \in Nat /\ stored[f] <= edits
      BY <1>1, <2>1, BoundsAssumption DEF ProfileInv, P!TypeOK, Numbered
    <3>2. stored'[f] = loaded[w][f]
      BY <2>1, <3>1 DEF P!Save, P!Profile
    <3>3. w \in behind
      BY <1>1, <2>1, <3>1, <3>2 DEF P!Save, P!Profile, ProfileInv, UpToDate
    <3>4. loaded'[w] = None
      BY <1>1, <2>1 DEF P!Save, P!Leave, ProfileInv, P!TypeOK
    <3>5. QED BY <3>2, <3>3, <3>4
  <2>2. ASSUME NEW f \in Fields, stored # None, stored'[f] < stored[f], stored' = stored
        PROVE  FALSE
    BY <1>1, <2>2 DEF ProfileInv, P!TypeOK, P!Profile
  <2>3. ASSUME stored # None, NEW w \in Workers,
               P!Find(w) \/ P!Miss(w) \/ P!Insert(w) \/ P!End(w)
        PROVE  stored' = stored
    BY <2>3 DEF P!Find, P!Miss, P!Insert, P!End
  <2>4. QED BY <1>1, <2>1, <2>2, <2>3 DEF P!Next
<1>2. ProfileInv /\ [P!Next]_P!vars => [SetBack]_P!vars
  BY <1>1
<1>3. QED BY <1>2, ProfileInvariance, PTL DEF P!Spec, SetBackOnlyByOverlap, P!SetBackOnlyByOverlap

-----------------------------------------------------------------------------
(* Bookmarks.  A walk has passed the rows from its cursor on, each once,   *)
(* and none behind it.                                                     *)

(* The instance counts as the library does. *)
LEMMA SameCardinality == ASSUME NEW S PROVE B!Cardinality(S) = Cardinality(S)
  BY DEF B!Cardinality, Cardinality

(* Numbers are well-founded. *)
LEMMA LeastElement ==
    ASSUME NEW S \in SUBSET Nat, S # {}
    PROVE  \E m \in S : \A n \in S : m <= n
<1>1. PICK m \in S : \A n \in S : ~(<<n, m>> \in OpToRel(<, Nat))
  BY NatLessThanWellFounded, WFMin DEF OpToRel
<1>2. \A n \in S : ~(n < m)
  BY <1>1 DEF OpToRel
<1>3. QED BY <1>2

WalkInv ==
    /\ walk = "none" => seen = {}
    /\ twice = {}
    /\ walk # "done" => \A b \in seen : after <= b
    /\ walk = "walking" => \A b \in atStart : b \in seen \/ b < after
    /\ walk = "done" => atStart \subseteq seen

BookmarkInv == B!TypeOK /\ WalkInv /\ LacksOnlyCutOrLate

LEMMA BookmarkInitInv == B!Init => BookmarkInv
<1> SUFFICES ASSUME B!Init PROVE BookmarkInv
  OBVIOUS
<1>1. B!TypeOK
  BY BoundsAssumption DEF B!Init, B!TypeOK, B!Rows
<1>2. WalkInv /\ LacksOnlyCutOrLate
  BY DEF B!Init, WalkInv, LacksOnlyCutOrLate, B!LacksOnlyCutOrLate, B!Rows
<1>3. QED BY <1>1, <1>2 DEF BookmarkInv

(* A row that is written is dated, and behind the cursor only if it is     *)
(* counted as missed.                                                      *)
LEMMA WriteStep ==
    ASSUME BookmarkInv, NEW b \in 1..MaxRows, NEW t \in Nat, B!Write(b, t),
           count' \in {count, count + 1}, b \in 1..count', count' \in 0..MaxRows,
           count' # count => b = count',
           UNCHANGED <<now, cursor, have, walk, after, seen, atStart, twice>>
    PROVE  BookmarkInv'
<1> USE DEF BookmarkInv
<1>1. /\ updated' = [updated EXCEPT ![b] = t] /\ version' = [version EXCEPT ![b] = written + 1]
      /\ written' = written + 1 /\ t <= now + Skew
      /\ missed' = IF t <= cursor THEN missed \cup {b} ELSE missed
  BY DEF B!Write
<1>2. B!TypeOK'
  <2>1. \A c \in B!Rows' : updated'[c] <= now' + Skew
    BY <1>1 DEF B!TypeOK, B!Rows
  <2>2. B!Rows \subseteq B!Rows' /\ missed' \in SUBSET B!Rows'
    BY <1>1 DEF B!TypeOK, B!Rows
  <2>3. version' \in [1..MaxRows -> 0..written'] /\ have' \in [1..MaxRows -> 0..written']
    BY <1>1 DEF B!TypeOK
  <2>4. updated' \in [1..MaxRows -> Nat] /\ written' \in Nat
    BY <1>1 DEF B!TypeOK
  <2>5. QED BY <2>1, <2>2, <2>3, <2>4 DEF B!TypeOK
<1>3. WalkInv'
  BY DEF WalkInv
<1>4. LacksOnlyCutOrLate'
  <2>1. ASSUME NEW c \in B!Rows', updated'[c] <= cursor', have'[c] # version'[c]
        PROVE  c \in missed'
    <3>1. CASE c = b
      BY <1>1, <2>1, <3>1 DEF B!TypeOK
    <3>2. CASE c # b
      <4>1. c \in B!Rows /\ c \in 1..MaxRows
        <5>1. c \in 1..count' /\ MaxRows \in Nat /\ count \in 0..MaxRows
          BY <2>1, BoundsAssumption DEF B!Rows, B!TypeOK
        <5>2. c \in 1..count
          BY <3>2, <5>1
        <5>3. QED BY <5>1, <5>2 DEF B!Rows
      <4>2. updated'[c] = updated[c] /\ version'[c] = version[c]
        BY <1>1, <3>2, <4>1 DEF B!TypeOK
      <4>3. QED BY <1>1, <2>1, <4>1, <4>2 DEF LacksOnlyCutOrLate, B!LacksOnlyCutOrLate
    <3>3. QED BY <3>1, <3>2
  <2>2. QED BY <2>1 DEF LacksOnlyCutOrLate, B!LacksOnlyCutOrLate
<1>5. QED BY <1>2, <1>3, <1>4

(* A page holds the rows behind the cursor down to its lowest, and the     *)
(* cursor moves there.                                                     *)
LEMMA NextPageStep ==
    ASSUME BookmarkInv, B!NextPage
    PROVE  BookmarkInv'
<1> USE DEF BookmarkInv
<1>1. /\ walk = "walking"
      /\ seen' = seen \cup B!Page /\ twice' = twice \cup (seen \cap B!Page)
      /\ walk' = IF B!Page = B!Rest THEN "done" ELSE "walking"
      /\ UNCHANGED <<atStart, now, written, count, updated, version, cursor, have, missed>>
  BY DEF B!NextPage, B!table, B!pull
<1>2. /\ \A b \in B!Rows : b \in B!Rest <=> b < after
      /\ B!Page \subseteq B!Rest /\ B!Rest \subseteq B!Rows
      /\ \A b \in B!Rest : b < after
  BY DEF B!Rest, B!Page, B!Place
<1>3. B!Rest \subseteq Nat /\ IsFiniteSet(B!Rest)
  <2>1. B!Rest \subseteq 1..count /\ count \in Nat
    BY <1>2, BoundsAssumption DEF B!Rows, B!TypeOK
  <2>2. IsFiniteSet(1..count)
    BY <2>1, FS_Interval
  <2>3. IsFiniteSet(B!Rest)
    BY <2>1, <2>2, FS_Subset
  <2>4. QED BY <2>1, <2>3
<1>4. ASSUME NEW b \in B!Page, NEW c \in B!Rest, b < c PROVE c \in B!Page
  <2>1. /\ Cardinality(B!Before(b)) < PageSize
        /\ Cardinality(B!Before(c)) < PageSize => c \in B!Page
    BY <1>4, SameCardinality, Zenon DEF B!Page
  <2>2. B!Before(c) \subseteq B!Before(b)
    <3>1. ASSUME NEW d \in B!Rest, d > c PROVE d > b
      BY <1>2, <1>3, <1>4, <3>1
    <3>2. QED BY <3>1 DEF B!Before, B!Place
  <2>3. IsFiniteSet(B!Before(b))
    BY <1>3, FS_Subset DEF B!Before
  <2>4. IsFiniteSet(B!Before(c)) /\ Cardinality(B!Before(c)) <= Cardinality(B!Before(b))
    BY <2>2, <2>3, FS_Subset
  <2>5. Cardinality(B!Before(b)) \in Nat /\ Cardinality(B!Before(c)) \in Nat
    BY <2>3, <2>4, FS_CardinalityType
  <2>6. QED BY <2>1, <2>4, <2>5, BoundsAssumption
<1>5. /\ after' \in Nat /\ after' <= after /\ \A b \in B!Page : after' <= b
      /\ \A b \in B!Rest \ B!Page : b < after'
  <2>1. CASE B!Page = {}
    BY <1>2, <2>1 DEF B!NextPage, B!TypeOK
  <2>2. CASE B!Page # {}
    <3>1. {B!Place(b) : b \in B!Page} = B!Page
      BY DEF B!Place
    <3>2. after' = CHOOSE p \in B!Page : \A b \in B!Page : p <= b
      BY <2>2, <3>1 DEF B!NextPage, B!Place
    <3>3. \E p \in B!Page : \A b \in B!Page : p <= b
      BY <1>2, <1>3, <2>2, LeastElement
    <3>4. after' \in B!Page /\ \A b \in B!Page : after' <= b
      BY <3>2, <3>3
    <3>5. \A b \in B!Rest \ B!Page : b < after'
      BY <1>2, <1>3, <1>4, <3>4
    <3>6. after' \in Nat /\ after \in Nat /\ after' < after
      BY <1>2, <1>3, <3>4 DEF B!TypeOK
    <3>7. QED BY <3>4, <3>5, <3>6
  <2>3. QED BY <2>1, <2>2
<1>6. seen \subseteq Nat /\ after \in Nat /\ atStart \subseteq B!Rows
  BY DEF B!TypeOK, B!Rows
<1>7. WalkInv'
  <2>1. seen \cap B!Page = {}
    BY <1>1, <1>2, <1>3, <1>6 DEF WalkInv
  <2>2. twice' = {} /\ walk' # "none"
    BY <1>1, <2>1 DEF WalkInv
  <2>3. \A b \in seen' : after' <= b
    BY <1>1, <1>5, <1>6 DEF WalkInv
  <2>4. \A b \in atStart : b \in seen \/ b \in B!Rest
    BY <1>1, <1>2, <1>6 DEF WalkInv
  <2>5. walk' = "walking" => \A b \in atStart' : b \in seen' \/ b < after'
    BY <1>1, <1>5, <2>4
  <2>6. walk' = "done" => atStart' \subseteq seen'
    BY <1>1, <2>4
  <2>7. QED BY <2>2, <2>3, <2>5, <2>6 DEF WalkInv
<1>8. B!TypeOK'
  BY <1>1, <1>2, <1>5 DEF B!TypeOK, B!Rows
<1>9. LacksOnlyCutOrLate'
  BY <1>1 DEF LacksOnlyCutOrLate, B!LacksOnlyCutOrLate, B!Rows
<1>10. QED BY <1>7, <1>8, <1>9

(* A pull takes every change past the cursor or counts it as missed.       *)
LEMMA PullStep ==
    ASSUME BookmarkInv, B!Pull
    PROVE  BookmarkInv'
<1> USE DEF BookmarkInv
<1>1. PICK page \in SUBSET B!Changed :
        /\ have' = [b \in 1..MaxRows |-> IF b \in page THEN version[b] ELSE have[b]]
        /\ missed' = (missed \ page) \cup (B!Changed \ page)
        /\ cursor' = now
        /\ UNCHANGED <<now, written, count, updated, version, walk, after, seen, atStart, twice>>
  BY DEF B!Pull, B!table, B!list
<1>2. B!TypeOK'
  <2>1. now \in Nat /\ cursor' \in 0..now' /\ missed' \in SUBSET B!Rows'
    <3>1. now \in Nat /\ cursor' \in 0..now'
      BY <1>1 DEF B!TypeOK
    <3>2. missed' \subseteq B!Rows
      BY <1>1 DEF B!TypeOK, B!Changed
    <3>3. QED BY <1>1, <3>1, <3>2 DEF B!Rows
  <2>2. have' \in [1..MaxRows -> 0..written']
    BY <1>1 DEF B!TypeOK
  <2>3. QED BY <1>1, <2>1, <2>2 DEF B!TypeOK, B!Rows
<1>3. WalkInv'
  BY <1>1 DEF WalkInv
<1>4. LacksOnlyCutOrLate'
  <2>1. ASSUME NEW b \in B!Rows, updated[b] <= now, have'[b] # version[b]
        PROVE  b \in missed'
    <3>1. b \in 1..MaxRows
      BY BoundsAssumption DEF B!Rows, B!TypeOK
    <3>2. b \notin page /\ have'[b] = have[b]
      BY <1>1, <2>1, <3>1
    <3>3. CASE updated[b] > cursor
      BY <1>1, <3>2, <3>3 DEF B!Changed
    <3>4. CASE ~(updated[b] > cursor)
      <4>1. updated[b] <= cursor
        BY <3>1, <3>4 DEF B!TypeOK
      <4>2. b \in missed
        BY <2>1, <3>2, <4>1 DEF LacksOnlyCutOrLate, B!LacksOnlyCutOrLate
      <4>3. QED BY <1>1, <3>2, <4>2
    <3>5. QED BY <3>3, <3>4
  <2>2. QED BY <1>1, <2>1 DEF LacksOnlyCutOrLate, B!LacksOnlyCutOrLate, B!Rows
<1>5. QED BY <1>2, <1>3, <1>4

LEMMA BookmarkNextInv == BookmarkInv /\ [B!Next]_B!vars => BookmarkInv'
<1> SUFFICES ASSUME BookmarkInv, [B!Next]_B!vars PROVE BookmarkInv'
  OBVIOUS
<1>0. /\ count \in 0..MaxRows /\ now \in Nat /\ {MaxRows, MaxTime, Skew} \subseteq Nat
      /\ 0..(MaxTime + Skew) \subseteq Nat
  BY BoundsAssumption DEF BookmarkInv, B!TypeOK
<1>1. ASSUME NEW t \in 0..(MaxTime + Skew), B!Create(t) PROVE BookmarkInv'
  <2>1. B!Write(count + 1, t) /\ count' = count + 1 /\ count < MaxRows
        /\ UNCHANGED <<now, cursor, have, walk, after, seen, atStart, twice>>
    BY <1>1 DEF B!Create, B!list
  <2>2. count + 1 \in 1..MaxRows /\ count + 1 \in 1..count' /\ count' \in 0..MaxRows /\ t \in Nat
    BY <1>0, <2>1
  <2>3. QED BY <2>1, <2>2, WriteStep
<1>2. ASSUME NEW t \in 0..(MaxTime + Skew), NEW b \in B!Rows, B!Patch(b, t) PROVE BookmarkInv'
  <2>1. b \in 1..MaxRows /\ b \in 1..count /\ t \in Nat
    BY <1>0 DEF B!Rows
  <2>2. B!Write(b, t) /\ UNCHANGED <<now, count, cursor, have, walk, after, seen, atStart, twice>>
    BY <1>2 DEF B!Patch, B!list
  <2>3. QED BY <1>0, <2>1, <2>2, WriteStep
<1>3. CASE B!Tick
  <2>1. /\ now' = now + 1
        /\ UNCHANGED <<written, count, updated, version, walk, after, seen, atStart, twice,
                       cursor, have, missed>>
    BY <1>3 DEF B!Tick, B!list, B!pull
  <2>2. B!TypeOK'
    <3>1. \A b \in B!Rows : updated[b] \in Nat /\ updated[b] <= now + Skew
      BY <1>0 DEF BookmarkInv, B!TypeOK, B!Rows
    <3>2. \A b \in B!Rows : updated[b] <= now' + Skew
      BY <1>0, <2>1, <3>1
    <3>3. now' \in Nat /\ cursor' \in 0..now'
      BY <1>0, <2>1 DEF BookmarkInv, B!TypeOK
    <3>4. QED BY <2>1, <3>2, <3>3 DEF BookmarkInv, B!TypeOK, B!Rows
  <2>3. WalkInv' /\ LacksOnlyCutOrLate'
    BY <2>1 DEF BookmarkInv, WalkInv, LacksOnlyCutOrLate, B!LacksOnlyCutOrLate, B!Rows
  <2>4. QED BY <2>2, <2>3 DEF BookmarkInv
<1>4. CASE B!StartWalk
  <2>1. /\ walk = "none" /\ walk' = "walking" /\ atStart' = B!Rows
        /\ after' = MaxRows + MaxTime + Skew + 1
        /\ UNCHANGED <<now, written, count, updated, version, cursor, have, missed, seen, twice>>
    BY <1>4 DEF B!StartWalk, B!table, B!pull
  <2>2. after' \in Nat /\ \A b \in B!Rows : b < after'
    BY <1>0, <2>1 DEF B!Rows
  <2>3. B!TypeOK'
    BY <2>1, <2>2 DEF BookmarkInv, B!TypeOK, B!Rows
  <2>4. WalkInv'
    BY <2>1, <2>2 DEF BookmarkInv, WalkInv
  <2>5. LacksOnlyCutOrLate'
    BY <2>1 DEF BookmarkInv, LacksOnlyCutOrLate, B!LacksOnlyCutOrLate, B!Rows
  <2>6. QED BY <2>3, <2>4, <2>5 DEF BookmarkInv
<1>5. CASE B!NextPage
  BY <1>5, NextPageStep
<1>6. CASE B!Pull
  BY <1>6, PullStep
<1>7. CASE UNCHANGED B!vars
  BY <1>7 DEF B!vars, B!table, B!list, B!pull, BookmarkInv, B!TypeOK, B!Rows, WalkInv,
              LacksOnlyCutOrLate, B!LacksOnlyCutOrLate
<1>8. QED BY <1>1, <1>2, <1>3, <1>4, <1>5, <1>6, <1>7 DEF B!Next

LEMMA BookmarkInvariance == B!Spec => []BookmarkInv
  BY BookmarkInitInv, BookmarkNextInv, PTL DEF B!Spec

(* A walk that is over has shown each bookmark there was when it began,    *)
(* and none twice, for any size of page and any writes in between.         *)
THEOREM WalksAreComplete == B!Spec => []WalkIsComplete
<1>1. BookmarkInv => WalkIsComplete
  BY DEF BookmarkInv, WalkInv, WalkIsComplete, B!WalkIsComplete
<1>2. QED BY <1>1, BookmarkInvariance, PTL

(* A device that pulls lacks only writes that were cut from a full page or *)
(* reached the server behind its cursor.                                   *)
THEOREM PullsLackOnlyCutOrLate == B!Spec => []LacksOnlyCutOrLate
<1>1. BookmarkInv => LacksOnlyCutOrLate
  BY DEF BookmarkInv
<1>2. QED BY <1>1, BookmarkInvariance, PTL

-----------------------------------------------------------------------------
(* The services side by side.  A step of the nightly check is, for the     *)
(* packs, a step of staff, clock or storage, or none.                      *)

LEMMA LibraryStep ==
    ASSUME LibraryNext
    PROVE  [Next]_vars /\ [W!Next]_W!vars /\ [B!Next]_B!vars /\ [P!Next]_P!vars
<1> USE DEF W!vars, B!vars, B!table, B!list, B!pull, P!vars, hookVars, markVars, profileVars
<1>1. CASE service = "catalogue"
  BY <1>1 DEF LibraryNext
<1>2. CASE service = "check"
  <2>1. CheckNext /\ UNCHANGED <<hookVars, markVars, profileVars>>
    BY <1>2 DEF LibraryNext
  <2>2. [Next]_vars
    BY <2>1 DEF CheckNext, VerifyStart, VerifyEnd, VerifyNext, PackChanges, Next
  <2>3. QED BY <2>1, <2>2
<1>3. CASE service = "webhooks"
  BY <1>3 DEF LibraryNext
<1>4. CASE service = "bookmarks"
  BY <1>4 DEF LibraryNext
<1>5. CASE service = "profiles"
  BY <1>5 DEF LibraryNext
<1>6. QED BY <1>1, <1>2, <1>3, <1>4, <1>5 DEF LibraryNext

LibraryVars == <<service, vars, checkVars, hookVars, markVars, profileVars>>

LEMMA LibraryStutter ==
    ASSUME UNCHANGED LibraryVars
    PROVE  UNCHANGED vars /\ UNCHANGED W!vars /\ UNCHANGED B!vars /\ UNCHANGED P!vars
  BY DEF LibraryVars, W!vars, B!vars, B!table, B!list, B!pull, P!vars,
         hookVars, markVars, profileVars

(* Packs, callbacks, bookmarks and profiles do, side by side, only what    *)
(* each of them does alone: no service writes another's tables.            *)
THEOREM ServicesAreIndependent == LibrarySpec => Spec /\ W!Spec /\ B!Spec /\ P!Spec
<1>1. LibraryInit => Init /\ W!Init /\ B!Init /\ P!Init
  BY DEF LibraryInit, CheckInit
<1>2. [LibraryNext]_LibraryVars
        => [Next]_vars /\ [W!Next]_W!vars /\ [B!Next]_B!vars /\ [P!Next]_P!vars
  BY LibraryStep, LibraryStutter
<1>3. QED BY <1>1, <1>2, PTL DEF LibrarySpec, LibraryVars, Spec, W!Spec, B!Spec, P!Spec

(* The invariant of the check, with the services that never run it. *)
OnlyTheCheckChecks == CheckIInv /\ (service # "check" => ~checking)

LEMMA LibraryCheckInvariance == LibrarySpec => []OnlyTheCheckChecks
<1>1. LibraryInit => OnlyTheCheckChecks
  BY CheckInitIInv DEF LibraryInit, OnlyTheCheckChecks, CheckInit
<1>2. IInv /\ IInv' /\ OnlyTheCheckChecks /\ [LibraryNext]_LibraryVars => OnlyTheCheckChecks'
  <2> SUFFICES ASSUME IInv', OnlyTheCheckChecks, [LibraryNext]_LibraryVars
               PROVE  OnlyTheCheckChecks'
    OBVIOUS
  <2>1. CASE LibraryNext /\ service = "check"
    <3>1. CheckIInv /\ CheckNext /\ service' = service
      BY <2>1 DEF LibraryNext, OnlyTheCheckChecks
    <3>2. CheckIInv'
      BY <3>1, CheckNextIInv
    <3>3. QED BY <2>1, <3>1, <3>2 DEF OnlyTheCheckChecks
  <2>2. CASE ~checking /\ UNCHANGED <<service, checkVars>>
    BY <2>2 DEF checkVars, OnlyTheCheckChecks, CheckIInv, CheckTypeOK, SuspectsAreFound, IInv
  <2>3. CASE UNCHANGED <<service, vars, checkVars>>
    BY <2>3 DEF vars, pack, device, checkVars, OnlyTheCheckChecks, CheckIInv, CheckTypeOK,
                SuspectsAreFound, IInv
  <2>4. QED BY <2>1, <2>2, <2>3 DEF LibraryNext, LibraryVars, OnlyTheCheckChecks
<1>3. QED BY <1>1, <1>2, Invariance, ServicesAreIndependent, PTL DEF LibrarySpec, LibraryVars

(* Every service keeps its types while the others run.                     *)
THEOREM ServicesTypeCorrect == LibrarySpec => []ServicesTypeOK
<1>1. OnlyTheCheckChecks => CheckTypeOK
  BY DEF OnlyTheCheckChecks, CheckIInv
<1>2. ProfileInv => P!TypeOK
  BY DEF ProfileInv
<1>3. BookmarkInv => B!TypeOK
  BY DEF BookmarkInv
<1>4. QED BY <1>1, <1>2, <1>3, TypeCorrect, LibraryCheckInvariance, ServicesAreIndependent,
             WebhookTypes, ProfileInvariance, BookmarkInvariance, PTL DEF ServicesTypeOK

(* What is shown of each service holds of the five together: the theorems  *)
(* above carry over.                                                       *)
THEOREM LibraryIsCorrect ==
    LibrarySpec => /\ [](SameVersionSameBytes /\ VerifyIsRight)
                   /\ [](WalkIsComplete /\ LacksOnlyCutOrLate)
                   /\ FirstDeliveryStays /\ SetBackOnlyByOverlap
<1>1. OnlyTheCheckChecks => VerifyIsRight
  BY DEF OnlyTheCheckChecks, CheckIInv, SuspectsAreFound, VerifyIsRight
<1>2. QED BY <1>1, LibraryCheckInvariance, ServicesAreIndependent, VersionsAreImmutable,
             WalksAreComplete, PullsLackOnlyCutOrLate, FirstDeliveriesStay,
             PreferencesSetBackOnlyByOverlap, PTL
=============================================================================
