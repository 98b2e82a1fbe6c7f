------------------------- MODULE ResetLinks_proofs --------------------------
(***************************************************************************)
(* A reset link works once, and two links work at the same time only if    *)
(* they were issued at the same time: for any number of requests and       *)
(* links.                                                                  *)
(*                                                                         *)
(* The argument: one reset holds the lock, and while it does nobody        *)
(* consumes or deletes its link, so the link it counts has not been used;  *)
(* and while a request is between the invalidation of the old links and    *)
(* the creation of its own, the only live links are the ones others have   *)
(* created meanwhile.                                                      *)
(***************************************************************************)
EXTENDS ResetLinks, TLAPS

OneReset ==
    \A r, q \in Requests : stage[r] = "resetting" /\ stage[q] = "resetting" => r = q

LinksAreHeld ==
    \A r \in Requests : stage[r] \in {"sending", "resetting"} => link[r] \in issued

UsedAreSpent ==
    \A l \in Links : uses[l] = 0 \/ (uses[l] = 1 /\ l \in issued /\ l \notin rows \ consumed)

LiveDuringIssue ==
    (\E r \in Requests : stage[r] = "creating") => \A l \in Links : Live(l) => l \in together

IInv ==
    /\ LinksTypeOK
    /\ OneReset /\ LinksAreHeld /\ LockHolds /\ UsedAreSpent
    /\ LiveDuringIssue /\ TwoLinksOnlyByOverlap

-----------------------------------------------------------------------------
LEMMA StepTyped ==
    ASSUME LinksTypeOK, NEW r \in Requests, NEW from, NEW to \in Stages,
           NEW l \in issued' \cup {NoLink}, Step(r, from, to, l), issued \subseteq issued'
    PROVE  /\ stage' \in [Requests -> Stages] /\ link' \in [Requests -> issued' \cup {NoLink}]
           /\ stage[r] = from /\ stage'[r] = to /\ link'[r] = l
           /\ \A q \in Requests \ {r} : stage'[q] = stage[q] /\ link'[q] = link[q]
  BY DEF Step, LinksTypeOK, Stages

LEMMA InitIInv == LinksInit => IInv
<1> SUFFICES ASSUME LinksInit PROVE IInv
  OBVIOUS
<1>1. LinksTypeOK
  BY DEF LinksInit, LinksTypeOK, Stages
<1>2. OneReset /\ LinksAreHeld /\ LockHolds /\ UsedAreSpent
  BY DEF LinksInit, OneReset, LinksAreHeld, LockHolds, UsedAreSpent
<1>3. LiveDuringIssue /\ TwoLinksOnlyByOverlap
  BY DEF LinksInit, LiveDuringIssue, TwoLinksOnlyByOverlap, Live
<1>4. QED BY <1>1, <1>2, <1>3 DEF IInv

(* A request moves on without touching a link, and takes no lock.          *)
LEMMA MoveStep ==
    ASSUME IInv, NEW r \in Requests, NEW from, NEW to \in Stages \ {"creating", "sending", "resetting"},
           Step(r, from, to, NoLink), UNCHANGED <<enabled, table, uses, together>>,
           queued' \in SUBSET issued, queued \subseteq queued', UNCHANGED mailed
    PROVE  IInv'
<1> USE DEF table
<1>1. /\ stage' \in [Requests -> Stages] /\ link' \in [Requests -> issued \cup {NoLink}]
      /\ stage'[r] = to /\ link'[r] = NoLink
      /\ \A q \in Requests \ {r} : stage'[q] = stage[q] /\ link'[q] = link[q]
  BY StepTyped DEF IInv
<1>2. LinksTypeOK'
  BY <1>1 DEF IInv, LinksTypeOK
<1>3. OneReset' /\ LinksAreHeld' /\ LockHolds' /\ UsedAreSpent'
  BY <1>1 DEF IInv, OneReset, LinksAreHeld, LockHolds, UsedAreSpent
<1>4. LiveDuringIssue' /\ TwoLinksOnlyByOverlap'
  BY <1>1 DEF IInv, LiveDuringIssue, TwoLinksOnlyByOverlap, Live
<1>5. QED BY <1>2, <1>3, <1>4 DEF IInv

LEMMA ForgotPasswordStep == ASSUME IInv, NEW r \in Requests, ForgotPassword(r) PROVE IInv'
  BY MoveStep DEF ForgotPassword, mail, linkHistory, Stages, IInv, LinksTypeOK

LEMMA RequestFailsStep == ASSUME IInv, NEW r \in Requests, LinkRequestFails(r) PROVE IInv'
  BY MoveStep DEF LinkRequestFails, mail, linkHistory, Stages, IInv, LinksTypeOK

LEMMA QueueMailStep == ASSUME IInv, NEW r \in Requests, QueueMail(r) PROVE IInv'
<1>1. link[r] \in issued
  BY DEF QueueMail, Step, IInv, LinksAreHeld
<1>2. QED BY <1>1, MoveStep DEF QueueMail, table, linkHistory, Stages, IInv, LinksTypeOK

LEMMA InvalidateLinksStep == ASSUME IInv, NEW r \in Requests, InvalidateLinks(r) PROVE IInv'
<1> USE DEF InvalidateLinks, mail, linkHistory
<1>1. /\ stage' \in [Requests -> Stages] /\ link' \in [Requests -> issued \cup {NoLink}]
      /\ stage'[r] = "creating"
      /\ \A q \in Requests \ {r} : stage'[q] = stage[q] /\ link'[q] = link[q]
  BY StepTyped DEF IInv, Stages
<1>2. \A q \in Requests : stage'[q] # "resetting"
  BY <1>1 DEF Locked
<1>3. LinksTypeOK'
  BY <1>1 DEF IInv, LinksTypeOK
<1>4. OneReset' /\ LockHolds'
  BY <1>2 DEF OneReset, LockHolds
<1>5. LinksAreHeld' /\ UsedAreSpent'
  BY <1>1 DEF IInv, LinksAreHeld, UsedAreSpent
<1>6. \A l \in Links : ~Live(l)'
  BY DEF Live
<1>7. LiveDuringIssue' /\ TwoLinksOnlyByOverlap'
  BY <1>6 DEF LiveDuringIssue, TwoLinksOnlyByOverlap
<1>8. QED BY <1>3, <1>4, <1>5, <1>7 DEF IInv

LEMMA CreateLinkStep == ASSUME IInv, NEW r \in Requests, CreateLink(r) PROVE IInv'
<1>1. PICK l \in Links \ issued :
         /\ Step(r, "creating", "sending", l)
         /\ issued' = issued \cup {l} /\ rows' = rows \cup {l}
         /\ together' = IF \E q \in Requests \ {r} : stage[q] = "creating"
                        THEN together \cup {l} ELSE together
  BY DEF CreateLink
<1>2. ~Locked /\ UNCHANGED <<enabled, lapsed, consumed, mail, uses>>
  BY DEF CreateLink
<1>3. /\ stage' \in [Requests -> Stages] /\ link' \in [Requests -> issued' \cup {NoLink}]
      /\ stage[r] = "creating" /\ stage'[r] = "sending" /\ link'[r] = l
      /\ \A q \in Requests \ {r} : stage'[q] = stage[q] /\ link'[q] = link[q]
  BY <1>1, StepTyped DEF IInv, Stages
<1>4. LinksTypeOK'
  BY <1>1, <1>2, <1>3 DEF IInv, LinksTypeOK, mail
<1>5. OneReset' /\ LockHolds'
  BY <1>2, <1>3 DEF OneReset, LockHolds, Locked
<1>6. LinksAreHeld' /\ UsedAreSpent'
  BY <1>1, <1>2, <1>3 DEF IInv, LinksAreHeld, UsedAreSpent
<1>7. \A m \in Links : Live(m)' => m = l \/ m \in together
  BY <1>1, <1>2, <1>3 DEF IInv, LiveDuringIssue, Live
<1>8. (\E q \in Requests : stage'[q] = "creating") => l \in together'
  BY <1>1, <1>3
<1>9. LiveDuringIssue' /\ TwoLinksOnlyByOverlap'
  BY <1>1, <1>7, <1>8 DEF LiveDuringIssue, TwoLinksOnlyByOverlap
<1>10. QED BY <1>4, <1>5, <1>6, <1>9 DEF IInv

LEMMA ConsumeLinkStep ==
    ASSUME IInv, NEW r \in Requests, NEW l \in Links, ConsumeLink(r, l) PROVE IInv'
<1> USE DEF ConsumeLink, table, mail, linkHistory
<1>1. LinksTypeOK /\ l \in issued /\ Step(r, "idle", "resetting", l) /\ UNCHANGED issued
  BY DEF IInv, LinksTypeOK, Live
<1>2. /\ stage' \in [Requests -> Stages] /\ link' \in [Requests -> issued \cup {NoLink}]
      /\ stage'[r] = "resetting" /\ link'[r] = l
      /\ \A q \in Requests \ {r} : stage'[q] = stage[q] /\ link'[q] = link[q]
  BY <1>1, StepTyped DEF Stages
<1>3. LinksTypeOK'
  BY <1>2 DEF IInv, LinksTypeOK
<1>4. OneReset' /\ LockHolds' /\ LinksAreHeld'
  BY <1>2 DEF IInv, LinksTypeOK, OneReset, LockHolds, LinksAreHeld, Locked, Live
<1>5. UsedAreSpent' /\ LiveDuringIssue' /\ TwoLinksOnlyByOverlap'
  BY <1>2 DEF IInv, UsedAreSpent, LiveDuringIssue, TwoLinksOnlyByOverlap, Live
<1>6. QED BY <1>3, <1>4, <1>5 DEF IInv

LEMMA ResetCommitStep == ASSUME IInv, NEW r \in Requests, ResetDone(r) PROVE IInv'
<1> USE DEF ResetDone, mail
<1>1. /\ stage' \in [Requests -> Stages] /\ link' \in [Requests -> issued \cup {NoLink}]
      /\ stage[r] = "resetting" /\ stage'[r] = "idle"
      /\ \A q \in Requests \ {r} : stage'[q] = stage[q] /\ link'[q] = link[q]
  BY StepTyped DEF IInv, Stages
<1>2. link[r] \in issued /\ link[r] \in Links /\ link[r] \in rows \ consumed
  BY <1>1 DEF IInv, LinksTypeOK, LinksAreHeld, LockHolds
<1>3. uses[link[r]] = 0
  BY <1>2 DEF IInv, UsedAreSpent
<1>4. /\ uses' \in [Links -> Nat] /\ uses'[link[r]] = 1
      /\ \A l \in Links \ {link[r]} : uses'[l] = uses[l]
  BY <1>2, <1>3 DEF IInv, LinksTypeOK
<1>5. LinksTypeOK'
  BY <1>1, <1>4 DEF IInv, LinksTypeOK
<1>6. \A q \in Requests : stage'[q] # "resetting"
  BY <1>1 DEF IInv, OneReset
<1>7. OneReset' /\ LockHolds'
  BY <1>6 DEF OneReset, LockHolds
<1>8. LinksAreHeld' /\ UsedAreSpent'
  BY <1>1, <1>2, <1>4 DEF IInv, LinksAreHeld, UsedAreSpent
<1>9. LiveDuringIssue' /\ TwoLinksOnlyByOverlap'
  BY <1>1 DEF IInv, LiveDuringIssue, TwoLinksOnlyByOverlap, Live
<1>10. QED BY <1>5, <1>7, <1>8, <1>9 DEF IInv

(* Mail, clock, sweep and deletion: no link comes to life, and none that a *)
(* reset holds goes away.                                                  *)
LEMMA BackgroundStep ==
    ASSUME IInv,
           \/ \E l \in Links : SendReset(l) \/ Lapse(l)
           \/ \E old \in SUBSET Links : Sweep(old)
           \/ Disable \/ Erase \/ UNCHANGED linksVars
    PROVE  IInv'
<1> USE DEF SendReset, Lapse, Sweep, Disable, Erase, linksVars, table, mail, linkRequest, linkHistory
<1>1. UNCHANGED <<linkRequest, linkHistory, issued>> /\ mailed \subseteq mailed'
  OBVIOUS
<1>2. LinksTypeOK'
  BY DEF IInv, LinksTypeOK
<1>3. OneReset' /\ LinksAreHeld'
  BY <1>1 DEF IInv, OneReset, LinksAreHeld
<1>4. LockHolds'
  <2>1. ASSUME NEW r \in Requests, stage[r] = "resetting"
        PROVE  link[r] \in rows' \/ link[r] \notin rows
    BY <2>1
  <2>2. consumed' \subseteq consumed
    OBVIOUS
  <2>3. QED BY <1>1, <2>1, <2>2 DEF IInv, LockHolds
<1>5. \A l \in Links : l \in rows' \ consumed' => l \in rows \ consumed
  BY DEF IInv, LinksTypeOK
<1>6. UsedAreSpent'
  BY <1>1, <1>5 DEF IInv, UsedAreSpent
<1>7. \A l \in Links : Live(l)' => Live(l)
  BY <1>5 DEF Live
<1>8. LiveDuringIssue' /\ TwoLinksOnlyByOverlap'
  BY <1>1, <1>7 DEF IInv, LiveDuringIssue, TwoLinksOnlyByOverlap
<1>9. QED BY <1>2, <1>3, <1>4, <1>6, <1>8 DEF IInv

LEMMA StepIInv == IInv /\ [LinksNext]_linksVars => IInv'
<1> SUFFICES ASSUME IInv, [LinksNext]_linksVars PROVE IInv'
  OBVIOUS
<1>1. ASSUME NEW r \in Requests,
             ForgotPassword(r) \/ InvalidateLinks(r) \/ CreateLink(r) \/ QueueMail(r)
      PROVE  IInv'
  BY <1>1, ForgotPasswordStep, InvalidateLinksStep, CreateLinkStep, QueueMailStep
<1>2. ASSUME NEW r \in Requests, NEW l \in Links, ConsumeLink(r, l) PROVE IInv'
  BY <1>2, ConsumeLinkStep
<1>3. ASSUME NEW r \in Requests, ResetDone(r) \/ LinkRequestFails(r) PROVE IInv'
  BY <1>3, ResetCommitStep, RequestFailsStep
<1>4. QED BY <1>1, <1>2, <1>3, BackgroundStep DEF LinksNext

(* The table, the mails and the requests keep their types.                 *)
THEOREM TypeCorrect == LinksSpec => []LinksTypeOK
<1>1. IInv => LinksTypeOK
  BY DEF IInv
<1>2. QED BY <1>1, InitIInv, StepIInv, PTL DEF LinksSpec

(* For any number of requests: a link changes the password at most once.   *)
THEOREM LinksWorkOnce == LinksSpec => []WorksOnce
<1>1. IInv => WorksOnce
  BY DEF IInv, UsedAreSpent, WorksOnce
<1>2. QED BY <1>1, InitIInv, StepIInv, PTL DEF LinksSpec

(* The link a running reset holds stays in the table and unconsumed.       *)
THEOREM ResetsKeepTheirLink == LinksSpec => []LockHolds
<1>1. IInv => LockHolds
  BY DEF IInv
<1>2. QED BY <1>1, InitIInv, StepIInv, PTL DEF LinksSpec

(* Two links are live together only if one was created between the other   *)
(* request's two statements.                                               *)
THEOREM TwoLinksOverlap == LinksSpec => []TwoLinksOnlyByOverlap
<1>1. IInv => TwoLinksOnlyByOverlap
  BY DEF IInv
<1>2. QED BY <1>1, InitIInv, StepIInv, PTL DEF LinksSpec

-----------------------------------------------------------------------------
LEMMA NoLinkRevives ==
    ASSUME [LinksNext]_linksVars, NEW l \in issued, ~Live(l)
    PROVE  ~Live(l)'
<1>1. /\ lapsed \subseteq lapsed'
      /\ rows' \cap issued \subseteq rows
      /\ consumed \cap rows' \subseteq consumed'
  BY DEF LinksNext, linksVars, table, mail, linkRequest, linkHistory, ForgotPassword, InvalidateLinks, CreateLink,
         QueueMail, ConsumeLink, ResetDone, LinkRequestFails, SendReset, Lapse, Sweep,
         Disable, Erase
<1>2. QED BY <1>1 DEF Live

(* A link that no longer works never works again: not after its row is     *)
(* swept either.                                                           *)
THEOREM LinksStayDead == LinksSpec => DeadLinkStaysDead
<1>1. [LinksNext]_linksVars => [\A l \in issued : ~Live(l) => ~Live(l)']_linksVars
  BY NoLinkRevives
<1>2. QED BY <1>1, PTL DEF LinksSpec, DeadLinkStaysDead
=============================================================================
