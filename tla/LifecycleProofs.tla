-------------------------- MODULE LifecycleProofs ---------------------------
(***************************************************************************)
(* Theorems about the Lifecycle module, for every number of threads, cards *)
(* and steps, messages and mishaps.                                        *)
(***************************************************************************)
EXTENDS Lifecycle, TLAPS

\* The escalation that is on its way to the store has its card.
TypeInv ==
    /\ TypeOK
    /\ at = "raising" => card.id \in CardIds

\* What the helpers of a step leave typed: the lock and the card of its
\* holder, and the workers.
Held ==
    /\ holder' \in Thread \cup {Nobody} /\ at' \in Points /\ (holder' = Nobody <=> at' = "out")
    /\ mem' \in Status \cup {"none"} /\ (mem' = "none" <=> at' = "out")
    /\ pc' \in [Worker -> {"idle", "posted", "queued", "inside", "broken"}]
    /\ card' \in Cards /\ cards' \in 0..MaxCards
    /\ (at' = "raising" => card'.id \in CardIds)
    /\ msg' \in [Worker -> [text : Texts \cup {"goal", "none"}, meant : 0..MaxCards]]

LEMMA RaiseType ==
    ASSUME TypeInv, NEW t \in Thread, NEW k \in CardKinds, Raise(t, k)
    PROVE  Held /\ UNCHANGED approved
BY LifecycleAssumption
   DEF TypeInv, TypeOK, Raise, Mint, Inside, Held, Thread, Points, Status, Parked, Cards, CardIds

LEMMA ProceedType ==
    ASSUME TypeInv, NEW t \in Thread, NEW p \in Points \ {"out", "raising"}, NEW s \in Status,
           Continue(t, p, s)
    PROVE  Held
BY LifecycleAssumption
   DEF TypeInv, TypeOK, Continue, Inside, Held, Thread, Status, Parked, Driving, Points

LEMMA ReturnType ==
    ASSUME TypeInv, NEW t \in Thread, Return(t)
    PROVE  Held /\ approved' = NoGrant
BY LifecycleAssumption
   DEF TypeInv, TypeOK, Return, Leave, Unlocked, Held, Thread, Points, Cards, Texts

\* The rest of what a step may change.
Rest ==
    /\ disk' \in [status : Status, card : Cards] /\ step' \in StepStatus
    /\ pend' \in 0..MaxCards /\ res' \in BOOLEAN /\ notes' \in Nat
    /\ timers' \subseteq Timers
    /\ approved' \in [card : 0..MaxCards, shown : 0..MaxCards, meant : 0..MaxCards]

LEMMA HelperType ==
    ASSUME TypeInv
    PROVE  /\ Onward \subseteq StepStatus /\ Unpark \in StepStatus
           /\ NoCard \in Cards /\ 0 \in 0..MaxCards
           /\ \A s \in Status, c \in Cards : At(s, c) \in [status : Status, card : Cards]
           /\ \A c \in Cards : c.id \in 0..MaxCards
           /\ NoGrant \in [card : 0..MaxCards, shown : 0..MaxCards, meant : 0..MaxCards]
           /\ \A k \in Wakes : timers \cup {Timer(k)} \subseteq Timers
BY LifecycleAssumption
   DEF LifecycleAssumption, TypeInv, TypeOK, Onward, Unpark, StepStatus, NoCard, Cards, CardIds,
       At, NoGrant, Timers, Wakes, Timer

\* A reply, an event or a timer that reaches the run: one case per status.
LEMMA ResumeType ==
    ASSUME TypeInv, NEW t \in Thread, NEW m, NEW event, NEW meant \in 0..MaxCards,
           Resume(t, m, event, meant)
    PROVE  Held /\ Rest
<1> USE DEF SaveRun, CancelAll, Rearm
<1>0. /\ disk \in [status : Status, card : Cards] /\ disk.status \in Status
      /\ disk.card \in Cards /\ disk.card.id \in 0..MaxCards
      /\ step \in StepStatus /\ pend \in 0..MaxCards /\ res \in BOOLEAN /\ notes \in Nat
      /\ timers \subseteq Timers
      /\ approved \in [card : 0..MaxCards, shown : 0..MaxCards, meant : 0..MaxCards]
      BY HelperType DEF TypeInv, TypeOK
<1>t. {"planning", "running", "stopped", "done"} \subseteq Status
      /\ {"planning", "driving", "performing", "replanning"} \subseteq Points \ {"out", "raising"}
      /\ {"review"} \subseteq CardKinds /\ {"check", "connect", "watch"} \subseteq Wakes
      /\ "failed" \in StepStatus
      BY DEF Status, Driving, Points, CardKinds, Review, Wakes, StepStatus
<1>1. CASE OnClarifying(t, m)
      BY <1>0, <1>t, <1>1, HelperType, RaiseType, ProceedType, ReturnType
      DEF OnClarifying, Proceed, Rest
<1>2. CASE OnApproval(t, m, event, meant)
  <2>1. CASE /\ disk.card = NoCard /\ Return(t)
             /\ UNCHANGED <<disk, step, pend, res, notes, timers>>
        BY <1>0, <2>1, HelperType, ReturnType DEF Rest
  <2>2. ASSUME NEW w \in 0..MaxCards, Approve(t, m, event, w), timers' \subseteq Timers
        PROVE  Held /\ Rest
    <3>1. \E p \in {"performing", "driving"}, s \in Status : Continue(t, p, s)
          BY <1>0, <1>t, <2>2 DEF Approve
    <3>2. Held
          BY <1>t, <3>1, ProceedType
    <3>3. /\ approved' = [card |-> pend, shown |-> disk.card.id, meant |-> w]
          /\ pend' = 0 /\ res' = FALSE /\ step' \in {step, Unpark}
          /\ UNCHANGED <<disk, notes>>
          BY <2>2 DEF Approve
    <3>4. approved' \in [card : 0..MaxCards, shown : 0..MaxCards, meant : 0..MaxCards]
          BY <1>0, <2>2, <3>3
    <3>5. pend' \in 0..MaxCards /\ res' \in BOOLEAN /\ step' \in StepStatus
          BY <1>0, <3>3, HelperType
    <3> QED BY <1>0, <2>2, <3>2, <3>3, <3>4, <3>5 DEF Rest
  <2>3. CASE Decline(t, m, event) /\ timers' \subseteq Timers
        BY <1>0, <1>t, <2>3, RaiseType DEF Decline, Rest
  <2>4. CASE Amend(t, m, event)
    <3>1. /\ pend' = 0 /\ res' = FALSE /\ UNCHANGED notes /\ step' \in {step, Unpark}
          /\ disk' \in {At("stopped", NoCard), At("running", NoCard)} /\ timers' \in {{}, timers}
          BY <2>4 DEF Amend
    <3>2. Return(t) \/ Proceed(t, "driving", "running")
          BY <2>4 DEF Amend
    <3>3. Held /\ approved' \in {approved, NoGrant}
          BY <1>t, <3>2, ReturnType, ProceedType DEF Proceed
    <3>4. pend' \in 0..MaxCards /\ step' \in StepStatus
          BY <1>0, <3>1, HelperType
    <3>5. disk' \in [status : Status, card : Cards]
          BY <1>t, <3>1, HelperType
    <3> QED BY <1>0, <3>1, <3>3, <3>4, <3>5, HelperType DEF Rest
  <2> QED BY <1>0, <1>2, <2>1, <2>2, <2>3, <2>4 DEF OnApproval
<1>3. CASE OnGo(t, m)
      BY <1>0, <1>t, <1>3, HelperType, ProceedType, ReturnType DEF OnGo, Proceed, Rest
<1>4. CASE OnConnect(t)
  <2>1. /\ disk.status = "awaiting_connect" /\ UNCHANGED <<pend, notes>>
        /\ step' = step /\ disk' \in {disk, At("running", NoCard)} /\ res' \in BOOLEAN
        /\ timers' \in {{}, timers \cup {Timer("connect")}}
        BY <1>0, <1>4 DEF OnConnect
  <2>2. \/ \E p \in {"performing", "driving"}, s \in {"running", disk.status} : Proceed(t, p, s)
        \/ Raise(t, "review") \/ Return(t)
        BY <1>4 DEF OnConnect
  <2>3. Held /\ approved' \in {approved, NoGrant}
        BY <1>0, <1>t, <2>2, RaiseType, ProceedType, ReturnType DEF Proceed
  <2> QED BY <1>0, <1>t, <2>1, <2>3, HelperType DEF Rest
<1>5. CASE OnWaiting(t, event)
      BY <1>0, <1>t, <1>5, HelperType, RaiseType, ProceedType, ReturnType
      DEF OnWaiting, Proceed, Rest
<1>6. CASE OnEscalated(t, m)
  <2>1. CASE Return(t) /\ UNCHANGED <<disk, step, timers, pend, res, notes>>
        BY <1>0, <2>1, HelperType, ReturnType DEF Rest
  <2>2. CASE StopEscalated(t) /\ UNCHANGED <<pend, res, notes>>
        BY <1>0, <1>t, <2>2, HelperType, ReturnType DEF StopEscalated, Rest
  <2>3. CASE ConfirmEscalated(t) /\ UNCHANGED <<pend, res, notes>>
        BY <1>0, <1>t, <2>3, HelperType, ReturnType, ProceedType
        DEF ConfirmEscalated, Proceed, Rest
  <2>4. CASE ReplanEscalated(t) /\ UNCHANGED <<pend, res, notes>>
        BY <1>0, <1>t, <2>4, HelperType, ReturnType, ProceedType
        DEF ReplanEscalated, Proceed, Rest
  <2> QED BY <1>6, <2>1, <2>2, <2>3, <2>4 DEF OnEscalated
<1>7. CASE OnOther(t, m)
      BY <1>0, <1>7, HelperType, ReturnType DEF OnOther, Rest
<1> QED BY <1>1, <1>2, <1>3, <1>4, <1>5, <1>6, <1>7 DEF Resume

\* The threads' and the poller's own variables, and the bounds.
Others ==
    /\ answered' \in [CardIds -> Texts \cup {"none"}]
    /\ claimed' \subseteq Timers /\ lost' \subseteq Timers
    /\ recovering' \in BOOLEAN /\ torn' \in BOOLEAN /\ overtaken' \in BOOLEAN
    /\ steps' \in 0..MaxSteps /\ messages' \in 0..MaxMessages /\ mishaps' \in 0..MaxMishaps

LEMMA Together == Held /\ Rest /\ Others => TypeInv'
BY DEF Held, Rest, Others, TypeInv, TypeOK, Thread

LEMMA OthersSame ==
    ASSUME TypeInv,
           UNCHANGED <<answered, lost, torn, steps, messages, mishaps>>,
           recovering' \in BOOLEAN, overtaken' \in BOOLEAN, claimed' \subseteq Timers
    PROVE  Others
BY DEF TypeInv, TypeOK, Others

LEMMA RestSame ==
    ASSUME TypeInv, UNCHANGED <<step, pend, res, notes>>,
           disk' \in [status : Status, card : Cards], timers' \subseteq Timers,
           approved' \in {approved, NoGrant}
    PROVE  Rest
BY HelperType DEF TypeInv, TypeOK, Rest

\* A worker's steps.
LEMMA WorkerType ==
    ASSUME TypeInv, NEW w \in Worker,
           WorkerActs(w) \/ \E text \in Texts : Post(w, text)
    PROVE  TypeInv'
<1> USE LifecycleAssumption DEF LifecycleAssumption
<1>0. w \in Thread /\ disk.card \in Cards /\ disk.card.id \in 0..MaxCards
      /\ (disk.card # NoCard => disk.card.id \in CardIds)
  <2>1. w \in Thread /\ disk.card \in Cards
        BY DEF Thread, TypeInv, TypeOK
  <2> QED BY <2>1 DEF Cards, CardIds, NoCard
<1>1. ASSUME NEW text \in Texts, Post(w, text) PROVE TypeInv'
  <2>1. Held
        BY <1>0, <1>1 DEF Post, TypeInv, TypeOK, Held, lock
  <2>2. Rest
        BY <1>1 DEF Post, TypeInv, TypeOK, Rest, lock
  <2>3. answered' \in [CardIds -> Texts \cup {"none"}]
        BY <1>0, <1>1 DEF Post, TypeInv, TypeOK
  <2>4. messages' \in 0..MaxMessages
        BY <1>1 DEF Post, TypeInv, TypeOK
  <2>5. Others
        BY <1>1, <2>3, <2>4 DEF Post, TypeInv, TypeOK, Others, history
  <2> QED BY <2>1, <2>2, <2>5, Together
<1>2. CASE ReadStatus(w)
  <2>1. Held
        BY <1>2 DEF ReadStatus, TypeInv, TypeOK, Held, lock, bounds, Texts
  <2>2. Rest
        BY <1>2 DEF ReadStatus, TypeInv, TypeOK, Rest, lock
  <2>3. Others
        BY <1>2, OthersSame DEF ReadStatus, TypeInv, TypeOK, bounds, history
  <2> QED BY <2>1, <2>2, <2>3, Together
<1>3. CASE EnterMessage(w)
  <2>1. msg[w].meant \in 0..MaxCards
        BY DEF TypeInv, TypeOK
  <2>2. Held /\ Rest
        BY <1>0, <1>3, <2>1, ResumeType DEF EnterMessage
  <2>3. Others
        BY <1>3, OthersSame DEF EnterMessage, history, TypeInv, TypeOK
  <2> QED BY <2>2, <2>3, Together
<1>4. CASE EnterGoal(w)
  <2>1. Held
        BY <1>0, <1>4, ProceedType DEF EnterGoal, Proceed, Points, Status, Driving
  <2>2. Rest
        BY <1>4, RestSame DEF EnterGoal, Proceed, store, TypeInv, TypeOK
  <2>3. Others
        BY <1>4, OthersSame DEF EnterGoal, store, history, TypeInv, TypeOK
  <2> QED BY <2>1, <2>2, <2>3, Together
<1>5. CASE EnterFail(w)
  <2>1. Held /\ approved' \in {approved, NoGrant}
        BY <1>0, <1>5, RaiseType, ReturnType DEF EnterFail, CardKinds, Review
  <2>2. Rest
        BY <1>5, <2>1, RestSame DEF EnterFail, store, TypeInv, TypeOK
  <2>3. Others
        BY <1>5, OthersSame DEF EnterFail, store, history, TypeInv, TypeOK
  <2> QED BY <2>1, <2>2, <2>3, Together
<1> QED BY <1>1, <1>2, <1>3, <1>4, <1>5 DEF WorkerActs

\* The poller's steps.
LEMMA PollerType == ASSUME TypeInv, PollerActs PROVE TypeInv'
<1>0. Poller \in Thread
      BY DEF Thread
<1>1. ASSUME NEW S \in SUBSET timers, Claim(S) PROVE TypeInv'
  <2>1. Held
        BY <1>1 DEF Claim, TypeInv, TypeOK, Held, lock, bounds
  <2>2. Rest
        BY <1>1, RestSame DEF Claim, TypeInv, TypeOK, store, lock
  <2>3. Others
        BY <1>1, OthersSame DEF Claim, TypeInv, TypeOK, store, bounds, history
  <2> QED BY <2>1, <2>2, <2>3, Together
<1>2. CASE DeliverReverify
  <2>1. Held /\ approved' \in {approved, NoGrant}
        BY <1>0, <1>2, RaiseType, ReturnType DEF DeliverReverify, CardKinds, Review
  <2>2. Rest
        BY <1>2, <2>1, RestSame DEF DeliverReverify, store, TypeInv, TypeOK
  <2>3. Others
        BY <1>2, OthersSame DEF DeliverReverify, store, history, TypeInv, TypeOK
  <2> QED BY <2>1, <2>2, <2>3, Together
<1>3. ASSUME NEW c \in CardIds, DeliverReap(c) PROVE TypeInv'
  <2>1. Held /\ approved' \in {approved, NoGrant}
        BY <1>0, <1>3, ReturnType DEF DeliverReap
  <2>2. At("stopped", NoCard) \in [status : Status, card : Cards]
        BY HelperType DEF Status
  <2>3. Rest
        BY <1>3, <2>1, <2>2, RestSame DEF DeliverReap, SaveRun, CancelAll, TypeInv, TypeOK
  <2>4. Others
        BY <1>3, OthersSame DEF DeliverReap, history, TypeInv, TypeOK
  <2> QED BY <2>1, <2>3, <2>4, Together
<1>4. CASE DeliverWake
  <2>1. 0 \in 0..MaxCards
        BY HelperType
  <2>2. Held /\ Rest
        BY <1>0, <1>4, <2>1, ResumeType DEF DeliverWake
  <2>3. Others
        BY <1>4, OthersSame DEF DeliverWake, history, TypeInv, TypeOK
  <2> QED BY <2>2, <2>3, Together
<1>5. CASE Recover
  <2>1. Held /\ approved' \in {approved, NoGrant}
        BY <1>0, <1>5, RaiseType, ProceedType, ReturnType
        DEF Recover, Proceed, CardKinds, Review, Status, Driving, Points
  <2>2. step' \in StepStatus
        BY <1>5, HelperType DEF Recover, TypeInv, TypeOK
  <2>3. Rest
        BY <1>5, <2>1, <2>2, HelperType DEF Recover, Rest, TypeInv, TypeOK
  <2>4. Others
        BY <1>5, OthersSame DEF Recover, history, TypeInv, TypeOK
  <2> QED BY <2>1, <2>3, <2>4, Together
<1> QED BY <1>1, <1>2, <1>3, <1>4, <1>5 DEF PollerActs

\* The holder stays inside and writes no more than its place, or asks.
LEMMA StayType ==
    ASSUME TypeInv, at # "out", NEW p \in Points \ {"out", "raising"}, Stay(p),
           UNCHANGED <<card, cards>> \/ \E k \in CardKinds : Ask(k)
    PROVE  Held
BY LifecycleAssumption
   DEF LifecycleAssumption, TypeInv, TypeOK, Stay, Ask, Mint, Held, Cards, CardIds, Points

LEMMA HolderIn ==
    ASSUME TypeInv, at # "out"
    PROVE  holder \in Thread /\ mem \in Status
BY DEF TypeInv, TypeOK

\* What a holder that only writes the run, the plan and the timers must show.
LEMMA HolderType ==
    ASSUME TypeInv, Held, Work, steps' \in 0..MaxSteps, notes' \in Nat,
           disk' \in [status : Status, card : Cards], step' \in StepStatus,
           pend' \in 0..MaxCards, res' \in BOOLEAN, timers' \subseteq Timers,
           approved' \in {approved, NoGrant}
    PROVE  TypeInv'
<1>1. Rest
      BY HelperType DEF Rest, TypeInv, TypeOK
<1>2. Others
      BY DEF Work, history, Others, TypeInv, TypeOK
<1> QED BY <1>1, <1>2, Together

\* The holder's steps.
LEMMA HolderWorksType == ASSUME TypeInv, HolderWorks \/ Checkpoint PROVE TypeInv'
<1> USE DEF Proceed
<1>0. /\ steps \in 0..MaxSteps /\ notes \in Nat /\ disk \in [status : Status, card : Cards]
      /\ step \in StepStatus /\ pend \in 0..MaxCards /\ res \in BOOLEAN
      /\ timers \subseteq Timers /\ card \in Cards /\ cards \in 0..MaxCards
      BY DEF TypeInv, TypeOK
<1>n. /\ {"planning", "running", "done", "waiting", "awaiting_connect", "escalated"} \subseteq Status
      /\ {"pending", "await", "watch", "running", "failed"} \subseteq StepStatus
      /\ {"review", "send", "clarify", "mandate", "approval", "preview", "undo"} \subseteq CardKinds
      /\ {"carding", "planning", "planned", "driving", "replanning", "await", "watch", "waiting",
          "stepping", "performing", "undoing", "polling", "connecting", "raised"}
         \subseteq Points \ {"out", "raising"}
      BY DEF Status, Driving, Parked, StepStatus, CardKinds, Review, Points
<1>d. /\ \A s \in Status : At(s, NoCard) \in [status : Status, card : Cards]
      /\ \A s \in Status : At(s, card) \in [status : Status, card : Cards]
      BY <1>0, HelperType
<1>1. CASE Start
  <2>1. Held /\ approved' \in {approved, NoGrant}
        BY <1>1, <1>n, HolderIn, RaiseType, ProceedType, StayType DEF Start, Stay
  <2> QED BY <1>0, <1>1, <1>n, <1>d, <2>1, HolderType DEF Start, SaveRun
<1>2. CASE SavePlan
  <2>1. Held /\ approved' \in {approved, NoGrant}
        BY <1>2, <1>n, StayType DEF SavePlan, Stay
  <2> QED BY <1>0, <1>2, <1>n, <2>1, HolderType DEF SavePlan
<1>3. CASE Planned
  <2>1. Held /\ approved' \in {approved, NoGrant}
        BY <1>3, <1>n, HolderIn, ProceedType, StayType DEF Planned, Stay
  <2> QED BY <1>0, <1>3, <1>n, <1>d, <2>1, HolderType DEF Planned, SaveRun
<1>4. CASE Replanned
  <2>1. Held /\ approved' \in {approved, NoGrant}
        BY <1>4, <1>n, HolderIn, RaiseType, ProceedType, ReturnType DEF Replanned
  <2> QED BY <1>0, <1>4, <1>n, <1>d, <2>1, HolderType DEF Replanned, SaveRun, CancelAll
<1>5. CASE NothingReady
  <2>1. Held /\ approved' \in {approved, NoGrant} /\ mem \in Status
        BY <1>5, HolderIn, ReturnType DEF NothingReady
  <2> QED BY <1>0, <1>5, <1>n, <1>d, <2>1, HolderType DEF NothingReady, SaveRun
<1>6. CASE ArmWait
  <2>1. Held /\ approved' \in {approved, NoGrant}
        BY <1>6, <1>n, StayType DEF ArmWait, Stay
  <2>2. timers' \subseteq Timers
        BY <1>0, <1>6 DEF ArmWait, Rearm, Timers, Timer, Wakes
  <2> QED BY <1>0, <1>6, <1>n, <2>1, <2>2, HolderType DEF ArmWait
<1>7. CASE SaveWaitingStep
  <2>1. Held /\ approved' \in {approved, NoGrant}
        BY <1>7, <1>n, StayType DEF SaveWaitingStep, Stay
  <2> QED BY <1>0, <1>7, <1>n, <2>1, HolderType DEF SaveWaitingStep
<1>8. CASE SaveWaitingRun
  <2>1. Held /\ approved' \in {approved, NoGrant}
        BY <1>8, HolderIn, ReturnType DEF SaveWaitingRun
  <2> QED BY <1>0, <1>8, <1>n, <1>d, <2>1, HolderType DEF SaveWaitingRun, SaveRun
<1>9. CASE RunStep
  <2>1. Held /\ approved' \in {approved, NoGrant}
        BY <1>9, <1>n, StayType DEF RunStep, Stay
  <2>2. steps' \in 0..MaxSteps
        BY <1>0, <1>9, LifecycleAssumption DEF RunStep, More, LifecycleAssumption
  <2> QED BY <1>0, <1>9, <1>n, <2>1, <2>2, HolderType DEF RunStep
<1>10. CASE StepAccepted
  <2>1. Held /\ approved' \in {approved, NoGrant}
        BY <1>10, <1>n, StayType DEF StepAccepted, Stay, InStep
  <2>2. timers' \subseteq Timers
        BY <1>0, <1>10 DEF StepAccepted, Timers, Timer
  <2>3. step' \in StepStatus
        BY <1>10, HelperType DEF StepAccepted
  <2> QED BY <1>0, <1>10, <1>n, <2>1, <2>2, <2>3, HolderType DEF StepAccepted
<1>11. CASE StepAgain
  <2>1. Held /\ approved' \in {approved, NoGrant}
        BY <1>11, <1>n, StayType DEF StepAgain, Stay
  <2>2. steps' \in 0..MaxSteps
        BY <1>0, <1>11, LifecycleAssumption DEF StepAgain, More, LifecycleAssumption
  <2> QED BY <1>0, <1>11, <1>n, <2>1, <2>2, HolderType DEF StepAgain
<1>12. CASE StepEscalates
  <2>1. Held /\ approved' \in {approved, NoGrant}
        BY <1>12, <1>n, HolderIn, RaiseType DEF StepEscalates, InStep
  <2> QED BY <1>0, <1>12, <1>n, <2>1, HolderType DEF StepEscalates
<1>13. CASE StepParks
  <2>1. Held /\ approved' \in {approved, NoGrant}
        BY <1>13, <1>n, StayType DEF StepParks, Stay, InStep
  <2>2. pend' \in 0..MaxCards
        BY <1>0, <1>13, LifecycleAssumption DEF StepParks, Ask, Mint, LifecycleAssumption
  <2> QED BY <1>0, <1>13, <2>1, <2>2, HolderType DEF StepParks
<1>14. CASE ShowCard
  <2>1. Held /\ approved' \in {approved, NoGrant}
        BY <1>14, <1>n, HolderIn, ProceedType, ReturnType DEF ShowCard
  <2>2. CardStatus(card.kind) \in Status
        BY DEF CardStatus, Status, Parked
  <2> QED BY <1>0, <1>14, <1>d, <2>1, <2>2, HolderType DEF ShowCard, SaveRun
<1>15. CASE StepConnects
  <2>1. Held /\ approved' \in {approved, NoGrant}
        BY <1>15, <1>n, StayType DEF StepConnects, Stay, InStep
  <2> QED BY <1>0, <1>15, <2>1, HolderType DEF StepConnects
<1>16. CASE SaveConnect
  <2>1. Held /\ approved' \in {approved, NoGrant}
        BY <1>16, <1>n, StayType DEF SaveConnect, Stay
  <2> QED BY <1>0, <1>16, <1>n, <1>d, <2>1, HolderType DEF SaveConnect, SaveRun
<1>17. CASE ArmPark
  <2>1. Held /\ approved' \in {approved, NoGrant}
        BY <1>17, HolderIn, ReturnType DEF ArmPark
  <2>2. timers' \subseteq Timers
        BY <1>17, HelperType DEF ArmPark, Rearm, Wakes
  <2> QED BY <1>0, <1>17, <2>1, <2>2, HolderType DEF ArmPark
<1>18. CASE ArmReaper
  <2>1. Held /\ approved' \in {approved, NoGrant}
        BY <1>18, <1>n, StayType DEF ArmReaper, Stay
  <2>2. timers' \subseteq Timers
        BY <1>0, <1>18 DEF ArmReaper, TypeInv, Timers, Reap
  <2> QED BY <1>0, <1>18, <2>1, <2>2, HolderType DEF ArmReaper
<1>19. CASE SaveEscalated
  <2>1. Held /\ approved' \in {approved, NoGrant}
        BY <1>19, HolderIn, ReturnType DEF SaveEscalated
  <2> QED BY <1>0, <1>19, <1>n, <1>d, <2>1, HolderType DEF SaveEscalated, SaveRun
<1>20. CASE Checkpoint
  <2>1. at # "out" /\ at \in Points \ {"out", "raising"}
        BY <1>20, <1>n DEF Checkpoint, InStep
  <2>2. Held /\ approved' \in {approved, NoGrant} /\ mem \in Status
        BY <1>20, <2>1, HolderIn, StayType DEF Checkpoint, Stay
  <2> QED BY <1>0, <1>20, <1>d, <2>2, HolderType DEF Checkpoint, SaveRun
<1> QED BY <1>1, <1>2, <1>3, <1>4, <1>5, <1>6, <1>7, <1>8, <1>9, <1>10, <1>11, <1>12, <1>13,
           <1>14, <1>15, <1>16, <1>17, <1>18, <1>19, <1>20 DEF HolderWorks

LEMMA TypeStep == TypeInv /\ [Next]_vars => TypeInv'
<1> SUFFICES ASSUME TypeInv, [Next]_vars PROVE TypeInv'
    OBVIOUS
<1>1. CASE Escape
      BY <1>1, LifecycleAssumption
      DEF Escape, Mishap, Unlocked, store, history, TypeInv, TypeOK, Thread, NoCard, NoGrant,
          Cards, Points, LifecycleAssumption
<1>2. CASE Crash
  <2>1. /\ pc' \in [Worker -> {"idle", "posted", "queued", "inside", "broken"}]
        /\ msg' \in [Worker -> [text : Texts \cup {"goal", "none"}, meant : 0..MaxCards]]
        BY <1>2, LifecycleAssumption DEF Crash, LifecycleAssumption
  <2> QED BY <1>2, <2>1, LifecycleAssumption
          DEF Crash, Mishap, Unlocked, store, TypeInv, TypeOK, Thread, NoCard, NoGrant,
              Cards, Points, LifecycleAssumption
<1>3. CASE UNCHANGED vars
      BY <1>3 DEF vars, store, lock, threads, bounds, history, TypeInv, TypeOK
<1> QED BY <1>1, <1>2, <1>3, WorkerType, PollerType, HolderWorksType DEF Next

LEMMA InitType == Init => TypeInv
<1> SUFFICES ASSUME Init PROVE TypeInv
    OBVIOUS
<1> USE LifecycleAssumption DEF Init, LifecycleAssumption
<1>1. disk \in [status : Status, card : Cards] /\ card \in Cards
      BY DEF At, Status, Driving, Cards
<1>2. msg \in [Worker -> [text : Texts \cup {"goal", "none"}, meant : 0..MaxCards]]
      OBVIOUS
<1>3. pc \in [Worker -> {"idle", "posted", "queued", "inside", "broken"}]
      OBVIOUS
<1>4. holder \in Thread \cup {Nobody} /\ answered \in [CardIds -> Texts \cup {"none"}]
      /\ approved \in [card : 0..MaxCards, shown : 0..MaxCards, meant : 0..MaxCards]
      BY DEF NoGrant
<1>5. /\ step \in StepStatus /\ at \in Points /\ at # "raising"
      /\ holder = Nobody /\ at = "out" /\ mem = "none"
      /\ pend \in 0..MaxCards /\ notes \in Nat
      BY DEF StepStatus, Points
<1>6. /\ timers \subseteq Timers /\ claimed \subseteq Timers /\ lost \subseteq Timers
      /\ res \in BOOLEAN /\ recovering \in BOOLEAN /\ torn \in BOOLEAN /\ overtaken \in BOOLEAN
      OBVIOUS
<1>7. /\ cards \in 0..MaxCards /\ steps \in 0..MaxSteps
      /\ messages \in 0..MaxMessages /\ mishaps \in 0..MaxMishaps
      OBVIOUS
<1> HIDE DEF Init
<1> QED BY <1>1, <1>2, <1>3, <1>4, <1>5, <1>6, <1>7 DEF TypeInv, TypeOK

\* The variables of the run, its threads and its timers keep their types, and
\* the lock is held by a thread exactly while that thread is inside.
THEOREM TypeCorrect == Spec => []TypeOK
<1>1. TypeInv => TypeOK
      BY DEF TypeInv
<1> QED BY <1>1, InitType, TypeStep, PTL DEF Spec

-----------------------------------------------------------------------------
(* A stopped run stays stopped.                                            *)

\* Only an escalation that is being raised is escalated in the holder's copy,
\* and no copy is stopped.
MemInv == mem # "stopped" /\ (mem = "escalated" => at \in {"raising", "raised"})

\* Where a step of the run's machinery can leave the holder.
LEMMA ResumeHolder ==
    ASSUME NEW t, NEW m, NEW event, NEW meant, Resume(t, m, event, meant)
    PROVE  /\ MemInv'
           /\ disk.status \in {"done", "stopped"} => at' = "out" /\ disk' = disk
           /\ disk'.status = "stopped" => at' = "out"
<1> USE DEF MemInv, Raise, Inside, Proceed, Continue, Return, Leave, Unlocked, Driving
<1>1. CASE OnClarifying(t, m)
      BY <1>1 DEF OnClarifying, SaveRun, At
<1>2. CASE OnApproval(t, m, event, meant)
  <2>1. disk.status = "awaiting_approval"
        BY <1>2 DEF OnApproval
  <2>2. ASSUME NEW w, Approve(t, m, event, w)
        PROVE  MemInv' /\ disk' = disk
        BY <2>1, <2>2 DEF Approve
  <2>3. CASE Decline(t, m, event)
        BY <2>1, <2>3 DEF Decline
  <2>4. CASE Amend(t, m, event)
        BY <2>1, <2>4 DEF Amend, SaveRun, At
  <2>5. CASE Return(t) /\ UNCHANGED <<disk, step, pend, res, notes, timers>>
        BY <2>1, <2>5
  <2> QED BY <1>2, <2>1, <2>2, <2>3, <2>4, <2>5 DEF OnApproval
<1>3. CASE OnGo(t, m)
      BY <1>3 DEF OnGo, SaveRun, At
<1>4. CASE OnConnect(t)
      BY <1>4 DEF OnConnect, SaveRun, At
<1>5. CASE OnWaiting(t, event)
      BY <1>5 DEF OnWaiting
<1>6. CASE OnEscalated(t, m)
  <2>1. disk.status = "escalated"
        BY <1>6 DEF OnEscalated
  <2>2. CASE Return(t) /\ UNCHANGED disk
        BY <2>1, <2>2
  <2>3. CASE StopEscalated(t)
        BY <2>1, <2>3 DEF StopEscalated, SaveRun, At
  <2>4. CASE ConfirmEscalated(t)
        BY <2>1, <2>4 DEF ConfirmEscalated, SaveRun, At
  <2>5. CASE ReplanEscalated(t)
        BY <2>1, <2>5 DEF ReplanEscalated, SaveRun, At
  <2> QED BY <1>6, <2>2, <2>3, <2>4, <2>5 DEF OnEscalated
<1>7. CASE OnOther(t, m)
      BY <1>7 DEF OnOther
<1> QED BY <1>1, <1>2, <1>3, <1>4, <1>5, <1>6, <1>7 DEF Resume

\* What a step under the lock does to the threads: it ends or goes on.
Moves(t) ==
    (\E k \in CardKinds : Raise(t, k)) \/ (\E p, s : Continue(t, p, s)) \/ Return(t)

LEMMA ResumeMoves ==
    ASSUME NEW t, NEW m, NEW event, NEW meant, Resume(t, m, event, meant)
    PROVE  Moves(t)
<1> USE DEF Moves, Proceed, CardKinds, Review
<1>1. CASE OnClarifying(t, m)
      BY <1>1 DEF OnClarifying
<1>2. CASE OnApproval(t, m, event, meant)
  <2>1. ASSUME NEW w, Approve(t, m, event, w) PROVE Moves(t)
        BY <2>1 DEF Approve
  <2> QED BY <1>2, <2>1 DEF OnApproval, Decline, Amend
<1>3. CASE OnGo(t, m)
      BY <1>3 DEF OnGo
<1>4. CASE OnConnect(t)
      BY <1>4 DEF OnConnect
<1>5. CASE OnWaiting(t, event)
      BY <1>5 DEF OnWaiting
<1>6. CASE OnEscalated(t, m)
      BY <1>6 DEF OnEscalated, StopEscalated, ConfirmEscalated, ReplanEscalated
<1>7. CASE OnOther(t, m)
      BY <1>7 DEF OnOther
<1> QED BY <1>1, <1>2, <1>3, <1>4, <1>5, <1>6, <1>7 DEF Resume

LEMMA HolderMoves ==
    ASSUME HolderWorks \/ Checkpoint
    PROVE  at # "out" /\ Work /\ (Moves(holder) \/ \E p : Stay(p))
BY DEF HolderWorks, Checkpoint, Start, SavePlan, Planned, Replanned, NothingReady, ArmWait,
       SaveWaitingStep, SaveWaitingRun, RunStep, StepAccepted, StepAgain, StepEscalates,
       StepParks, ShowCard, StepConnects, SaveConnect, ArmPark, ArmReaper, SaveEscalated,
       InStep, Moves, Proceed, CardKinds, Review

\* Only the thread that moves changes its place and its message.
OnlyMoves(t) ==
    \A w \in Worker :
        \/ w # t /\ pc'[w] = pc[w] /\ msg'[w] = msg[w]
        \/ w = t /\ pc'[w] \in {"inside", "idle"} /\ msg'[w].text \in {msg[w].text, "none"}

LEMMA MovesThreads == ASSUME TypeInv, NEW t, Moves(t) PROVE OnlyMoves(t)
BY DEF TypeInv, TypeOK, Moves, Raise, Inside, Continue, Return, Leave, OnlyMoves

\* While the new run waits for its thread nothing else happens to it.
Fresh ==
    /\ disk.status = "pending" /\ at = "out" /\ timers = {} /\ claimed = {}
    /\ \A v \in Worker : pc[v] # "broken"

GoalInv ==
    \A w \in Worker :
        /\ msg[w].text = "goal" => w = Starter
        /\ pc[w] = "posted" => msg[w].text # "goal"
        /\ pc[w] = "queued" /\ msg[w].text = "goal" => Fresh

LEMMA PendingResume ==
    ASSUME NEW t, NEW m, NEW event, NEW meant, Resume(t, m, event, meant),
           disk.status = "pending"
    PROVE  disk' = disk /\ timers' = timers /\ at' = "out"
BY DEF Resume, OnClarifying, OnApproval, OnGo, OnConnect, OnWaiting, OnEscalated, OnOther,
       Return, Leave, Unlocked

LEMMA GoalStep == TypeInv /\ GoalInv /\ [Next]_vars => GoalInv'
<1> SUFFICES ASSUME TypeInv, GoalInv, [Next]_vars PROVE GoalInv'
    OBVIOUS
<1> USE LifecycleAssumption DEF LifecycleAssumption
<1>0. holder = Nobody <=> at = "out"
      BY DEF TypeInv, TypeOK
<1>m. ASSUME NEW t, OnlyMoves(t), Fresh => Fresh' \/ (\A w \in Worker : w # t => pc[w] # "queued" \/ msg[w].text # "goal")
      PROVE  GoalInv'
      BY <1>m DEF GoalInv, OnlyMoves
<1>1. ASSUME NEW w \in Worker, NEW text \in Texts, Post(w, text) PROVE GoalInv'
      BY <1>1 DEF Post, GoalInv, Fresh, TypeInv, TypeOK, Texts, lock
<1>2. ASSUME NEW w \in Worker, ReadStatus(w) PROVE GoalInv'
      BY <1>2 DEF ReadStatus, GoalInv, Fresh, TypeInv, TypeOK, lock
<1>3. ASSUME NEW w \in Worker, EnterMessage(w) PROVE GoalInv'
  <2>1. OnlyMoves(w)
        BY <1>3, ResumeMoves, MovesThreads DEF EnterMessage
  <2>2. Fresh => Fresh'
        BY <1>3, <2>1, PendingResume DEF EnterMessage, Fresh, OnlyMoves
  <2> QED BY <1>m, <2>1, <2>2
<1>4. ASSUME NEW w \in Worker, EnterGoal(w) PROVE GoalInv'
  <2>1. OnlyMoves(w)
        BY <1>4, MovesThreads DEF EnterGoal, Proceed, Moves
  <2> QED BY <1>4, <1>m, <2>1 DEF EnterGoal, GoalInv
<1>5. ASSUME NEW w \in Worker, EnterFail(w) PROVE GoalInv'
  <2>1. OnlyMoves(w)
        BY <1>5, MovesThreads DEF EnterFail, Moves, CardKinds, Review
  <2> QED BY <1>5, <1>m, <2>1 DEF EnterFail, Fresh
<1>6. CASE PollerActs
  <2>1. ASSUME NEW S \in SUBSET timers, Claim(S) PROVE GoalInv'
        BY <2>1 DEF Claim, GoalInv, Fresh, store, lock
  <2>2. ASSUME Moves(Poller), claimed # {} PROVE GoalInv'
        BY <1>m, <2>2, MovesThreads DEF Fresh
  <2>3. CASE Recover
    <3>1. OnlyMoves(Poller)
          BY <2>3, MovesThreads DEF Recover, Proceed, Moves, CardKinds, Review
    <3>2. Fresh => Fresh'
          BY <2>3, <3>1 DEF Recover, Fresh, OnlyMoves, Return, Leave, Unlocked
    <3> QED BY <1>m, <3>1, <3>2
  <2>4. DeliverReverify => Moves(Poller) /\ claimed # {}
        BY DEF DeliverReverify, Moves, CardKinds, Review
  <2>5. DeliverWake => Moves(Poller) /\ claimed # {}
        BY ResumeMoves DEF DeliverWake
  <2>6. \A c \in CardIds : DeliverReap(c) => Moves(Poller) /\ claimed # {}
        BY DEF DeliverReap, Moves
  <2> QED BY <1>6, <2>1, <2>2, <2>3, <2>4, <2>5, <2>6 DEF PollerActs
<1>7. CASE HolderWorks \/ Checkpoint
  <2>1. at # "out" /\ (Moves(holder) \/ \E p : Stay(p))
        BY <1>7, HolderMoves
  <2>2. CASE Moves(holder)
        BY <1>m, <2>1, <2>2, MovesThreads DEF Fresh
  <2>3. CASE \E p : Stay(p)
        BY <2>1, <2>3 DEF Stay, GoalInv, Fresh
  <2> QED BY <2>1, <2>2, <2>3
<1>8. CASE Escape
      BY <1>0, <1>8 DEF Escape, GoalInv, Fresh, TypeInv, TypeOK
<1>9. CASE Crash
      BY <1>9 DEF Crash, GoalInv
<1>10. CASE UNCHANGED vars
      BY <1>10 DEF vars, store, lock, threads, GoalInv, Fresh
<1> QED BY <1>1, <1>2, <1>3, <1>4, <1>5, <1>6, <1>7, <1>8, <1>9, <1>10 DEF Next, WorkerActs

StopInv ==
    /\ TypeInv /\ GoalInv /\ MemInv
    /\ disk.status = "stopped" => at = "out"

\* What the holder saves is never a stopped run: only leaving threads stop it.
LEMMA HolderStops ==
    ASSUME MemInv, HolderWorks \/ Checkpoint
    PROVE  MemInv' /\ (disk'.status = "stopped" => disk' = disk)
<1> USE DEF MemInv, Raise, Inside, Proceed, Continue, Return, Leave, Unlocked, Stay, SaveRun, At
<1>1. CASE Start \/ SavePlan \/ Planned \/ Replanned
      BY <1>1 DEF Start, SavePlan, Planned, Replanned
<1>2. CASE NothingReady \/ Checkpoint
      BY <1>2 DEF NothingReady, Checkpoint, InStep
<1>3. CASE ArmWait \/ SaveWaitingStep \/ SaveWaitingRun
      BY <1>3 DEF ArmWait, SaveWaitingStep, SaveWaitingRun
<1>4. CASE RunStep \/ StepAccepted \/ StepAgain \/ StepEscalates \/ StepParks \/ StepConnects
      BY <1>4 DEF RunStep, StepAccepted, StepAgain, StepEscalates, StepParks, StepConnects, InStep
<1>5. CASE ShowCard
      BY <1>5 DEF ShowCard, CardStatus
<1>6. CASE SaveConnect \/ ArmPark \/ ArmReaper \/ SaveEscalated
      BY <1>6 DEF SaveConnect, ArmPark, ArmReaper, SaveEscalated
<1> QED BY <1>1, <1>2, <1>3, <1>4, <1>5, <1>6 DEF HolderWorks

LEMMA StopStep ==
    StopInv /\ [Next]_vars => StopInv' /\ (disk.status = "stopped" => disk' = disk)
<1> SUFFICES ASSUME StopInv, [Next]_vars
             PROVE  StopInv' /\ (disk.status = "stopped" => disk' = disk)
    OBVIOUS
<1>0. TypeInv' /\ GoalInv'
      BY TypeStep, GoalStep DEF StopInv
<1>h. holder = Nobody <=> at = "out"
      BY DEF StopInv, TypeInv, TypeOK
<1> SUFFICES /\ MemInv' /\ (disk'.status = "stopped" => at' = "out")
             /\ disk.status = "stopped" => disk' = disk
    BY <1>0 DEF StopInv
<1> USE DEF StopInv
<1>1. ASSUME NEW w \in Worker, WorkerActs(w) \/ \E text \in Texts : Post(w, text)
      PROVE  /\ MemInv' /\ (disk'.status = "stopped" => at' = "out")
             /\ disk.status = "stopped" => disk' = disk
  <2>1. CASE EnterMessage(w)
        BY <2>1, ResumeHolder DEF EnterMessage
  <2>2. CASE EnterGoal(w)
        BY <2>2 DEF EnterGoal, Proceed, Continue, Inside, MemInv, GoalInv, Fresh, store
  <2>3. CASE EnterFail(w)
        BY <2>3 DEF EnterFail, Raise, Inside, Return, Leave, Unlocked, MemInv, Driving, store
  <2>4. CASE ReadStatus(w) \/ \E text \in Texts : Post(w, text)
        BY <2>4 DEF ReadStatus, Post, lock, MemInv
  <2> QED BY <1>1, <2>1, <2>2, <2>3, <2>4 DEF WorkerActs
<1>2. CASE PollerActs
  <2>1. CASE DeliverWake
        BY <2>1, ResumeHolder DEF DeliverWake
  <2>2. CASE DeliverReverify
        BY <2>2 DEF DeliverReverify, Raise, Inside, Return, Leave, Unlocked, MemInv, store
  <2>3. ASSUME NEW c \in CardIds, DeliverReap(c)
        PROVE  /\ MemInv' /\ (disk'.status = "stopped" => at' = "out")
               /\ disk.status = "stopped" => disk' = disk
        BY <2>3 DEF DeliverReap, Reapable, Return, Leave, Unlocked, MemInv
  <2>4. CASE Recover
        BY <2>4 DEF Recover, Proceed, Continue, Raise, Inside, Return, Leave, Unlocked, MemInv
  <2>5. ASSUME NEW S \in SUBSET timers, Claim(S)
        PROVE  MemInv' /\ disk' = disk /\ at' = at
        BY <2>5 DEF Claim, store, lock, MemInv
  <2> QED BY <1>2, <2>1, <2>2, <2>3, <2>4, <2>5 DEF PollerActs
<1>3. CASE HolderWorks \/ Checkpoint
      BY <1>3, HolderMoves, HolderStops
<1>4. CASE Escape \/ Crash
      BY <1>4 DEF Escape, Crash, Unlocked, MemInv, store
<1>5. CASE UNCHANGED vars
      BY <1>5 DEF vars, store, lock, MemInv
<1> QED BY <1>1, <1>2, <1>3, <1>4, <1>5 DEF Next

\* A run that is stopped stays as it was stopped: no thread is inside it, so
\* nothing that was under way can still write it, and no entry reopens it.
THEOREM StoppedIsFinalHolds == Spec => StoppedIsFinal
<1>1. Init => StopInv
  <2>1. Init => TypeInv
        BY InitType
  <2> QED BY <2>1, LifecycleAssumption
          DEF Init, StopInv, GoalInv, Fresh, MemInv, At, LifecycleAssumption
<1>2. StopInv /\ [Next]_vars => StopInv'
      BY StopStep
<1>3. StopInv /\ [Next]_vars => [disk.status = "stopped" => disk' = disk]_vars
      BY StopStep
<1> QED BY <1>1, <1>2, <1>3, PTL DEF Spec, StoppedIsFinal

-----------------------------------------------------------------------------
(* Escalations have reapers.                                               *)

Somewhere == timers \cup claimed \cup lost

ReaperInv ==
    /\ StopInv /\ EscalationHasReaper
    /\ at = "raised" => Reap(card.id) \in Somewhere

\* A reply or a wake-up leaves the reaper of an open escalation alone.
LEMMA ResumeReaper ==
    ASSUME ReaperInv, NEW t, NEW m, NEW event, NEW meant, Resume(t, m, event, meant),
           UNCHANGED <<answered, lost>>, claimed' \in {claimed, claimed \ Wakers}
    PROVE  EscalationHasReaper' /\ at' # "raised"
<1> USE DEF Raise, Inside, Proceed, Continue, Return, Leave, Unlocked, SaveRun, At, CancelAll
<1>1. CASE disk.status # "escalated"
  <2>1. disk'.status # "escalated" /\ at' # "raised"
    <3>1. CASE OnClarifying(t, m)
          BY <3>1 DEF OnClarifying
    <3>2. CASE OnApproval(t, m, event, meant)
      <4>1. ASSUME NEW w, Approve(t, m, event, w) PROVE disk' = disk /\ at' # "raised"
            BY <4>1 DEF Approve
      <4> QED BY <1>1, <3>2, <4>1 DEF OnApproval, Decline, Amend
    <3>3. CASE OnGo(t, m)
          BY <3>3 DEF OnGo
    <3>4. CASE OnConnect(t)
          BY <3>4 DEF OnConnect
    <3>5. CASE OnWaiting(t, event)
          BY <3>5 DEF OnWaiting
    <3>6. CASE OnOther(t, m)
          BY <1>1, <3>6 DEF OnOther
    <3> QED BY <1>1, <3>1, <3>2, <3>3, <3>4, <3>5, <3>6 DEF Resume, OnEscalated
  <2> QED BY <2>1 DEF EscalationHasReaper
<1>2. CASE disk.status = "escalated"
  <2>1. OnEscalated(t, m)
        BY <1>2 DEF Resume, OnClarifying, OnApproval, OnGo, OnConnect, OnWaiting, OnOther, Driving
  <2>2. /\ at' # "raised"
        /\ disk'.status # "escalated" \/ (disk' = disk /\ timers' = timers)
        BY <2>1 DEF OnEscalated, StopEscalated, ConfirmEscalated, ReplanEscalated
  <2>3. \A c : Reap(c) \notin Wakers
        BY DEF Reap, Wakers, Timer, Wakes
  <2> QED BY <2>2, <2>3 DEF ReaperInv, EscalationHasReaper
<1> QED BY <1>1, <1>2

\* The holder's steps do too, until it has left the escalation behind.
LEMMA HolderReaper ==
    ASSUME ReaperInv, HolderWorks \/ Checkpoint
    PROVE  EscalationHasReaper' /\ (at' = "raised" => (Reap(card.id) \in Somewhere)')
<1> USE DEF Raise, Inside, Proceed, Continue, Return, Leave, Unlocked, Stay, SaveRun, At,
            CancelAll, Rearm, Work, history, Somewhere
<1>1. ASSUME UNCHANGED <<disk, answered, claimed, lost>>, timers \subseteq timers'
      PROVE  EscalationHasReaper'
      BY <1>1 DEF ReaperInv, EscalationHasReaper
<1>2. ASSUME disk'.status # "escalated" PROVE EscalationHasReaper'
      BY <1>2 DEF EscalationHasReaper
<1>3. CASE Start \/ SavePlan \/ Planned \/ Replanned
      BY <1>1, <1>2, <1>3 DEF Start, SavePlan, Planned, Replanned
<1>4. CASE NothingReady \/ Checkpoint
      BY <1>2, <1>4 DEF NothingReady, Checkpoint, InStep, ReaperInv, StopInv, MemInv
<1>5. CASE ArmWait \/ SaveWaitingStep \/ SaveWaitingRun
      BY <1>1, <1>2, <1>5 DEF ArmWait, SaveWaitingStep, SaveWaitingRun
<1>6. CASE RunStep \/ StepAccepted \/ StepAgain \/ StepEscalates \/ StepParks \/ StepConnects
      BY <1>1, <1>6 DEF RunStep, StepAccepted, StepAgain, StepEscalates, StepParks, StepConnects
<1>7. CASE ShowCard
      BY <1>2, <1>7 DEF ShowCard, CardStatus
<1>8. CASE SaveConnect \/ ArmPark
      BY <1>1, <1>2, <1>8 DEF SaveConnect, ArmPark
<1>9. CASE ArmReaper
      BY <1>1, <1>9 DEF ArmReaper
<1>10. CASE SaveEscalated
      BY <1>10 DEF SaveEscalated, ReaperInv, EscalationHasReaper
<1> QED BY <1>3, <1>4, <1>5, <1>6, <1>7, <1>8, <1>9, <1>10, HolderMoves DEF HolderWorks

LEMMA ReaperStep == ReaperInv /\ [Next]_vars => ReaperInv'
<1> SUFFICES ASSUME ReaperInv, [Next]_vars PROVE ReaperInv'
    OBVIOUS
<1>0. StopInv'
      BY StopStep DEF ReaperInv
<1>h. holder = Nobody <=> at = "out"
      BY DEF ReaperInv, StopInv, TypeInv, TypeOK
<1> SUFFICES EscalationHasReaper' /\ (at' = "raised" => (Reap(card.id) \in Somewhere)')
    BY <1>0 DEF ReaperInv
<1> DEFINE Goal == EscalationHasReaper' /\ (at' = "raised" => (Reap(card.id) \in Somewhere)')
<1>k. ASSUME UNCHANGED <<disk, answered>>, timers \cup claimed \cup lost \subseteq Somewhere',
             at' # "raised" \/ (at' = at /\ card' = card)
      PROVE  Goal
      BY <1>k DEF ReaperInv, EscalationHasReaper, Somewhere
<1>1. ASSUME NEW w \in Worker, WorkerActs(w) PROVE Goal
  <2>1. CASE EnterMessage(w)
        BY <2>1, ResumeReaper DEF EnterMessage, history
  <2>2. CASE EnterGoal(w)
        BY <1>k, <2>2 DEF EnterGoal, Proceed, Continue, Inside, store, history, Somewhere
  <2>3. CASE EnterFail(w)
        BY <1>k, <2>3 DEF EnterFail, Raise, Inside, Return, Leave, Unlocked, store, history, Somewhere
  <2>4. CASE ReadStatus(w)
        BY <1>k, <2>4 DEF ReadStatus, lock, history, Somewhere
  <2> QED BY <1>1, <2>1, <2>2, <2>3, <2>4 DEF WorkerActs
<1>2. ASSUME NEW w \in Worker, NEW text \in Texts, Post(w, text) PROVE Goal
  <2>1. \A c : answered'[c] = "none" => answered[c] = "none"
        BY <1>2 DEF Post, ReaperInv, StopInv, TypeInv, TypeOK, Texts
  <2> QED BY <1>2, <2>1 DEF Post, lock, history, ReaperInv, EscalationHasReaper, Somewhere
<1>3. CASE PollerActs
  <2>1. CASE DeliverWake
    <3>1. claimed' \in {claimed, claimed \ Wakers}
          BY <2>1 DEF DeliverWake
    <3> QED BY <2>1, <3>1, ResumeReaper DEF DeliverWake, history
  <2>2. CASE DeliverReverify
    <3>1. /\ UNCHANGED <<disk, answered, timers, lost>> /\ claimed' = claimed \ {Timer("reverify")}
          /\ at' # "raised"
          BY <2>2 DEF DeliverReverify, Raise, Inside, Return, Leave, Unlocked, store, history
    <3>2. \A c : Reap(c) # Timer("reverify")
          BY DEF Reap, Timer
    <3> QED BY <3>1, <3>2 DEF ReaperInv, EscalationHasReaper, Somewhere
  <2>3. ASSUME NEW c \in CardIds, DeliverReap(c) PROVE Goal
    <3>1. at' # "raised" /\ claimed' = claimed \ {Reap(c)} /\ UNCHANGED <<answered, lost>>
          BY <2>3 DEF DeliverReap, Return, Leave, Unlocked, history
    <3>2. CASE Reapable(c)
          BY <2>3, <3>1, <3>2 DEF DeliverReap, SaveRun, At, EscalationHasReaper
    <3>3. CASE ~Reapable(c)
      <4>1. UNCHANGED <<disk, timers>>
            BY <2>3, <3>3 DEF DeliverReap
      <4>2. \A d : d # c => Reap(d) # Reap(c)
            BY DEF Reap
      <4> QED BY <3>1, <3>3, <4>1, <4>2 DEF Reapable, ReaperInv, EscalationHasReaper
    <3> QED BY <3>2, <3>3
  <2>4. CASE Recover
        BY <1>k, <2>4 DEF Recover, Proceed, Continue, Raise, Inside, Return, Leave, Unlocked,
                          history, Somewhere
  <2>5. ASSUME NEW S \in SUBSET timers, Claim(S) PROVE Goal
        BY <1>k, <2>5 DEF Claim, store, lock, history, Somewhere
  <2> QED BY <1>3, <2>1, <2>2, <2>3, <2>4, <2>5 DEF PollerActs
<1>4. CASE HolderWorks \/ Checkpoint
      BY <1>4, HolderReaper
<1>5. CASE Escape \/ Crash
      BY <1>k, <1>5 DEF Escape, Crash, Unlocked, store, history, Somewhere
<1>6. CASE UNCHANGED vars
      BY <1>k, <1>6 DEF vars, store, lock, threads, history, Somewhere
<1> QED BY <1>1, <1>2, <1>3, <1>4, <1>5, <1>6 DEF Next

\* Every escalation nobody has answered has a reaper: armed before the run is
\* saved, never cancelled while the run is escalated, and lost only with what
\* the poller had claimed when the process died.
THEOREM EscalationHasReaperHolds == Spec => []EscalationHasReaper
<1>1. Init => ReaperInv
  <2>1. Init => StopInv
        BY InitType, LifecycleAssumption
        DEF Init, StopInv, GoalInv, Fresh, MemInv, At, LifecycleAssumption
  <2> QED BY <2>1 DEF Init, At, ReaperInv, EscalationHasReaper
<1>2. ReaperInv => EscalationHasReaper
      BY DEF ReaperInv
<1> QED BY <1>1, <1>2, ReaperStep, PTL DEF Spec

-----------------------------------------------------------------------------
(* Parked runs.  Until something dies underneath, a run that nobody holds   *)
(* is parked as its status says: with its step, its continuation and its    *)
(* timer.  ParkInv says it, and what a holder on its way there has in hand. *)

\* Cards a parked call is shown on, and steps that are begun and not over.
Approvals == {"approval", "preview", "undo"}
Begun == {"running", "await", "watch"}

\* What the points of a drive say of its step.
PointInv ==
    /\ InStep => step = "running"
    /\ at = "planned" => step = "pending"
    /\ at \in {"connecting", "polling"} => step = "running" /\ res
    /\ at = "polling" => disk.status = "awaiting_connect"
    /\ at = "carding" =>
         /\ card.kind \in {"clarify", "mandate"} \cup Approvals
         /\ card.kind = "mandate" => step = "pending"
         /\ card.kind \in Approvals => step = "running" /\ res /\ pend = card.id
    /\ at \in {"raising", "raised"} =>
         /\ card.kind \in Review
         /\ card.kind = "send" => step = "failed"
         /\ card.kind = "missing" => overtaken

\* A grant is pending for the card it was saved with.
GrantInv ==
    \/ torn
    \/ /\ approved.card \in {0, approved.shown}
       /\ disk.status = "awaiting_approval" /\ disk.card # NoCard /\ at # "carding"
            => pend \in {0, disk.card.id}

\* The parked call is the one its card shows.
CardFits == disk.card # NoCard /\ pend = disk.card.id /\ res /\ step = "running"

\* A run that nobody holds, by its status.
OutInv ==
    /\ disk.status = "awaiting_approval" => CardFits
    /\ disk.status = "awaiting_go" => step = "pending"
    /\ disk.status = "awaiting_connect" => step = "running" /\ res
    /\ disk.status = "running" => overtaken /\ step \in Begun
    /\ disk.status = "escalated" =>
         /\ disk.card.kind \in Review
         /\ disk.card.kind = "send" => step = "failed"
         /\ disk.card.kind = "missing" => overtaken

DriveInv ==
    /\ ~recovering
    /\ at = "driving" =>
         step \in {"pending", "done"} \/ (mem = "running" /\ overtaken /\ step \in Begun)
    /\ at = "undoing" => disk.status = "awaiting_approval" /\ CardFits
    /\ at = "out" => OutInv

\* Timers that are on their way.
Ahead == timers \cup claimed

Armed ==
    \/ step = "await" /\ Timer("window") \in Ahead
    \/ step = "watch" /\ Timer("watch") \in Ahead

WaitInv ==
    /\ at = "await" => Timer("window") \in Ahead
    /\ at = "watch" => Timer("watch") \in Ahead
    /\ at = "waiting" \/ (at = "out" /\ disk.status = "waiting") => Armed
    /\ at = "out" /\ disk.status = "awaiting_connect" => Timer("connect") \in Ahead

ParkInv ==
    /\ StopInv /\ PointInv /\ GrantInv
    /\ mishaps > 0 \/ (DriveInv /\ WaitInv)

\* What a step must leave, in two parts.
Places == PointInv' /\ GrantInv' /\ (mishaps' > 0 \/ DriveInv')
Waits == mishaps' > 0 \/ WaitInv'

\* A thread that enters the run finds it as its status says, and leaves it so.
LEMMA ResumePlaces ==
    ASSUME ParkInv, at = "out", NEW t, NEW m, NEW event, NEW meant, Resume(t, m, event, meant),
           UNCHANGED <<recovering, mishaps, overtaken, torn>>
    PROVE  Places
<1> USE DEF Places, PointInv, GrantInv, DriveInv, OutInv, CardFits, InStep, Begun, Approvals,
            Review, Raise, Mint, Inside, Proceed, Continue, Return, Leave, Unlocked, SaveRun, At, NoGrant
<1>0. PointInv /\ GrantInv /\ (mishaps > 0 \/ DriveInv) /\ (mishaps > 0 \/ WaitInv)
      BY DEF ParkInv
<1>1. CASE OnClarifying(t, m)
      BY <1>0, <1>1 DEF OnClarifying
<1>2. CASE OnApproval(t, m, event, meant)
  <2>1. CASE disk.card = NoCard /\ Return(t) /\ UNCHANGED <<disk, step, pend, res, notes, timers>>
        BY <1>0, <2>1
  <2>2. ASSUME NEW w, disk.status = "awaiting_approval", disk.card # NoCard,
               Approve(t, m, event, w)
        PROVE  Places
        BY <1>0, <2>2 DEF Approve
  <2>3. CASE Decline(t, m, event)
        BY <1>0, <2>3 DEF Decline
  <2>4. CASE disk.status = "awaiting_approval" /\ Amend(t, m, event)
        BY <1>0, <2>4 DEF Amend, Unpark
  <2> QED BY <1>2, <2>1, <2>2, <2>3, <2>4 DEF OnApproval
<1>3. CASE OnGo(t, m)
      BY <1>0, <1>3 DEF OnGo
<1>4. CASE OnConnect(t)
      BY <1>0, <1>4 DEF OnConnect
<1>5. CASE OnWaiting(t, event)
      BY <1>0, <1>5 DEF OnWaiting, WaitInv, Armed, Onward
<1>6. CASE OnEscalated(t, m)
  <2>1. disk.status = "escalated" /\ UNCHANGED <<pend, res, notes>>
        BY <1>6 DEF OnEscalated
  <2>s. step \in StepStatus
        BY DEF ParkInv, StopInv, TypeInv, TypeOK
  <2>2. CASE Return(t) /\ UNCHANGED <<disk, step, timers>>
        BY <1>0, <2>1, <2>2
  <2>3. CASE StopEscalated(t)
        BY <1>0, <2>1, <2>3 DEF StopEscalated
  <2>4. CASE "confirmed" \in Intents(Given(m)) /\ ConfirmEscalated(t)
    <3>1. disk.card.kind # "review"
          BY <2>4 DEF Intents
    <3>2. mishaps > 0 \/ step = "failed" \/ overtaken
          BY <1>0, <2>1, <3>1
    <3>3. step' \in IF step = "failed" THEN {"done", "pending"} ELSE {step}
          BY <2>4 DEF ConfirmEscalated, Onward
    <3>4. mishaps > 0 \/ step' \in {"done", "none", "pending"} \/ (overtaken /\ step' \in Begun)
          BY <3>2, <3>3, <2>s DEF StepStatus
    <3> QED BY <1>0, <2>1, <2>4, <3>4 DEF ConfirmEscalated
  <2>5. CASE ReplanEscalated(t)
        BY <1>0, <2>1, <2>5 DEF ReplanEscalated
  <2> QED BY <1>6, <2>2, <2>3, <2>4, <2>5 DEF OnEscalated
<1>7. CASE OnOther(t, m)
      BY <1>0, <1>7 DEF OnOther
<1> QED BY <1>1, <1>2, <1>3, <1>4, <1>5, <1>6, <1>7 DEF Resume

\* So does its timer: what a wake-up uses up it arms anew, or it ends the wait.
LEMMA ResumeWaits ==
    ASSUME ParkInv, at = "out", NEW t, NEW m, NEW event, NEW meant, Resume(t, m, event, meant),
           UNCHANGED mishaps,
           \/ event = "none" /\ claimed' = claimed
           \/ event = IF claimed = {Timer("check")} THEN "check" ELSE "timer"
    PROVE  Waits
<1> SUFFICES ASSUME ~(mishaps' > 0) PROVE WaitInv'
    BY DEF Waits
<1> USE DEF Raise, Mint, Inside, Proceed, Continue, Return, Leave, Unlocked, SaveRun, At, Rearm
<1>0. OutInv /\ WaitInv
      BY DEF ParkInv, DriveInv
<1>n. Timer("window") # Timer("check") /\ Timer("watch") # Timer("check")
      BY DEF Timer
<1>1. ASSUME at' \notin {"await", "watch", "waiting"},
             at' = "out" => disk'.status \notin {"waiting", "awaiting_connect"}
      PROVE  WaitInv'
      BY <1>1 DEF WaitInv
<1>2. CASE OnClarifying(t, m) \/ OnGo(t, m)
      BY <1>1, <1>2 DEF OnClarifying, OnGo
<1>3. CASE OnApproval(t, m, event, meant)
  <2>1. ASSUME NEW w, Approve(t, m, event, w) PROVE at' \in {"performing", "driving"}
        BY <2>1 DEF Approve
  <2> QED BY <1>1, <1>3, <2>1 DEF OnApproval, Decline, Amend
<1>4. CASE OnConnect(t)
      BY <1>4 DEF OnConnect, WaitInv, Ahead
<1>5. CASE OnWaiting(t, event)
  <2>1. CASE at' # "out"
        BY <1>5, <2>1, <1>1 DEF OnWaiting
  <2>2. CASE at' = "out"
    <3>1. UNCHANGED <<disk, step>> /\ disk.status = "waiting"
          BY <1>5, <2>2 DEF OnWaiting
    <3>2. Armed
          BY <1>0, <3>1 DEF WaitInv
    <3>3. CASE step = "await" /\ event # "timer" /\ timers \subseteq timers'
      <4>1. Timer("window") \in timers' \cup claimed'
            BY <1>n, <3>2, <3>3 DEF Armed, Ahead
      <4> QED BY <2>2, <3>1, <3>3, <4>1 DEF WaitInv, Armed, Ahead
    <3>4. CASE step = "watch" /\ Timer("watch") \in timers'
          BY <2>2, <3>1, <3>4 DEF WaitInv, Armed, Ahead
    <3>5. CASE step = "watch" /\ event # "timer" /\ timers' = timers
      <4>1. Timer("watch") \in timers' \cup claimed'
            BY <1>n, <3>2, <3>5 DEF Armed, Ahead
      <4> QED BY <2>2, <3>1, <3>5, <4>1 DEF WaitInv, Armed, Ahead
    <3> QED BY <1>5, <2>2, <3>3, <3>4, <3>5 DEF OnWaiting
  <2> QED BY <2>1, <2>2
<1>6. CASE OnEscalated(t, m)
  <2>1. disk.status = "escalated"
        BY <1>6 DEF OnEscalated
  <2> QED BY <1>1, <1>6, <2>1 DEF OnEscalated, StopEscalated, ConfirmEscalated, ReplanEscalated
<1>7. CASE OnOther(t, m)
      BY <1>1, <1>7 DEF OnOther, Driving
<1> QED BY <1>2, <1>3, <1>4, <1>5, <1>6, <1>7 DEF Resume

\* Steps beside the lock: a message is posted, a note written, timers claimed.
LEMMA AsidePark ==
    ASSUME ParkInv, UNCHANGED <<disk, step, pend, res, lock, recovering, mishaps>>,
           UNCHANGED <<torn, overtaken>>, Ahead \subseteq Ahead'
    PROVE  Places /\ Waits
<1>1. PointInv' /\ GrantInv'
      BY DEF ParkInv, PointInv, GrantInv, InStep, lock
<1>2. mishaps > 0 \/ DriveInv'
      BY DEF ParkInv, DriveInv, OutInv, CardFits, lock
<1>3. mishaps > 0 \/ WaitInv'
      BY DEF ParkInv, WaitInv, Armed, lock
<1> QED BY <1>1, <1>2, <1>3 DEF Places, Waits

\* A thread that looks in and leaves, and one that raises an escalation.
LEMMA VisitPark ==
    ASSUME ParkInv, at = "out", NEW t, UNCHANGED <<disk, step, pend, res, mishaps, torn>>,
           recovering' => recovering, \A k \in Wakes : Timer(k) \in Ahead => Timer(k) \in Ahead',
           \/ Return(t) /\ UNCHANGED overtaken
           \/ Raise(t, "review") /\ UNCHANGED overtaken
           \/ Raise(t, "missing") /\ overtaken'
    PROVE  Places /\ Waits
<1> USE DEF Raise, Mint, Inside, Return, Leave, Unlocked, NoGrant
<1>1. PointInv' /\ GrantInv'
      BY DEF ParkInv, PointInv, GrantInv, InStep, Review
<1>2. mishaps > 0 \/ DriveInv'
      BY DEF ParkInv, DriveInv, OutInv, CardFits
<1>3. mishaps > 0 \/ WaitInv'
      BY DEF ParkInv, WaitInv, Armed, Wakes
<1> QED BY <1>1, <1>2, <1>3 DEF Places, Waits

\* The holder has its card.
LEMMA CardIsThere ==
    ASSUME ParkInv, at = "carding"
    PROVE  card # NoCard
BY DEF ParkInv, PointInv, Approvals, NoCard

\* The holder's work.
LEMMA HolderPlaces ==
    ASSUME ParkInv, HolderWorks \/ Checkpoint
    PROVE  Places
<1> USE DEF Places, PointInv, GrantInv, DriveInv, OutInv, CardFits, InStep, Begun, Approvals,
            Review, Raise, Mint, Ask, Inside, Proceed, Continue, Return, Leave, Unlocked, Stay,
            SaveRun, At, NoGrant, Work, history
<1>0. PointInv /\ GrantInv /\ (mishaps > 0 \/ DriveInv) /\ (mishaps > 0 \/ WaitInv)
      BY DEF ParkInv
<1>1. CASE Start \/ SavePlan \/ Planned \/ Replanned
      BY <1>0, <1>1 DEF Start, SavePlan, Planned, Replanned
<1>2. CASE NothingReady
      BY <1>0, <1>2 DEF NothingReady
<1>3. CASE ArmWait \/ SaveWaitingStep \/ SaveWaitingRun
      BY <1>0, <1>3 DEF ArmWait, SaveWaitingStep, SaveWaitingRun
<1>4. CASE RunStep \/ Checkpoint
      BY <1>0, <1>4 DEF RunStep, Checkpoint
<1>5. CASE StepAccepted \/ StepAgain
      BY <1>0, <1>5 DEF StepAccepted, StepAgain, Onward
<1>6. CASE StepEscalates
      BY <1>0, <1>6 DEF StepEscalates
<1>7. CASE StepParks
      BY <1>0, <1>7 DEF StepParks
<1>8. CASE ShowCard
      BY <1>0, <1>8, CardIsThere DEF ShowCard, CardStatus
<1>9. CASE StepConnects \/ SaveConnect
      BY <1>0, <1>9 DEF StepConnects, SaveConnect
<1>11. CASE ArmPark
      BY <1>0, <1>11 DEF ArmPark
<1>10. CASE ArmReaper \/ SaveEscalated
      BY <1>0, <1>10 DEF ArmReaper, SaveEscalated
<1> QED BY <1>1, <1>2, <1>3, <1>4, <1>5, <1>6, <1>7, <1>8, <1>9, <1>10, <1>11
        DEF HolderWorks

LEMMA HolderWaits ==
    ASSUME ParkInv, HolderWorks \/ Checkpoint
    PROVE  Waits
<1> USE DEF Waits, WaitInv, Armed, Ahead, Raise, Mint, Ask, Inside, Proceed, Continue, Return,
            Leave, Unlocked, Stay, SaveRun, At, Work, CancelAll, Rearm
<1>0. (mishaps > 0 \/ DriveInv) /\ (mishaps > 0 \/ WaitInv)
      BY DEF ParkInv
<1>1. CASE Start \/ SavePlan \/ Planned \/ Replanned
      BY <1>0, <1>1 DEF Start, SavePlan, Planned, Replanned
<1>2. CASE NothingReady
      BY <1>0, <1>2 DEF NothingReady, DriveInv
<1>3. CASE ArmWait
      BY <1>0, <1>3 DEF ArmWait
<1>4. CASE SaveWaitingStep \/ SaveWaitingRun
      BY <1>0, <1>4 DEF SaveWaitingStep, SaveWaitingRun
<1>5. CASE RunStep \/ Checkpoint \/ StepAccepted \/ StepAgain
      BY <1>0, <1>5 DEF RunStep, Checkpoint, StepAccepted, StepAgain, InStep
<1>6. CASE StepEscalates \/ StepParks
      BY <1>0, <1>6 DEF StepEscalates, StepParks
<1>7. CASE ShowCard
      BY <1>0, <1>7 DEF ShowCard, CardStatus
<1>8. CASE StepConnects \/ SaveConnect
      BY <1>0, <1>8 DEF StepConnects, SaveConnect
<1>9. CASE ArmPark
      BY <1>0, <1>9 DEF ArmPark, DriveInv, ParkInv, PointInv
<1>10. CASE ArmReaper \/ SaveEscalated
      BY <1>0, <1>10 DEF ArmReaper, SaveEscalated
<1> QED BY <1>1, <1>2, <1>3, <1>4, <1>5, <1>6, <1>7, <1>8, <1>9, <1>10 DEF HolderWorks

LEMMA ParkStep == ParkInv /\ [Next]_vars => ParkInv'
<1> SUFFICES ASSUME ParkInv, [Next]_vars PROVE ParkInv'
    OBVIOUS
<1>0. StopInv'
      BY StopStep DEF ParkInv
<1>h. (holder = Nobody <=> at = "out") /\ mishaps \in Nat
      BY LifecycleAssumption DEF ParkInv, StopInv, TypeInv, TypeOK, LifecycleAssumption
<1> SUFFICES Places /\ Waits
    BY <1>0 DEF Places, Waits, ParkInv
<1>1. ASSUME NEW w \in Worker, WorkerActs(w) \/ \E text \in Texts : Post(w, text)
      PROVE  Places /\ Waits
  <2>1. CASE EnterMessage(w)
        BY <1>h, <2>1, ResumePlaces, ResumeWaits DEF EnterMessage, history
  <2>2. CASE EnterGoal(w)
    <3>1. Places
          BY <1>h, <2>2 DEF EnterGoal, Proceed, Continue, Inside, store, history, Places, ParkInv,
                PointInv, GrantInv, DriveInv, InStep
    <3>2. Waits
          BY <2>2 DEF EnterGoal, Proceed, Continue, Inside, Waits, WaitInv
    <3> QED BY <3>1, <3>2
  <2>3. CASE EnterFail(w)
        BY <1>h, <2>3, VisitPark DEF EnterFail, store, history, Ahead
  <2>4. CASE ReadStatus(w) \/ \E text \in Texts : Post(w, text)
        BY <2>4, AsidePark DEF ReadStatus, Post, history, bounds, Ahead
  <2> QED BY <1>1, <2>1, <2>2, <2>3, <2>4 DEF WorkerActs
<1>2. CASE PollerActs
  <2>1. CASE DeliverWake
        BY <1>h, <2>1, ResumePlaces, ResumeWaits DEF DeliverWake, history
  <2>2. CASE DeliverReverify
    <3>1. \A k \in Wakes : Timer(k) \in Ahead => Timer(k) \in Ahead'
          BY <2>2 DEF DeliverReverify, Ahead, Wakes, Timer
    <3> QED BY <1>h, <2>2, <3>1, VisitPark DEF DeliverReverify, store
  <2>3. ASSUME NEW c \in CardIds, DeliverReap(c) PROVE Places /\ Waits
    <3>1. at = "out" /\ at' = "out" /\ approved' = NoGrant
          /\ UNCHANGED <<step, pend, res, recovering, mishaps, torn, overtaken>>
          BY <1>h, <2>3 DEF DeliverReap, Return, Leave, Unlocked, history
    <3>2. CASE Reapable(c)
      <4>1. disk'.status = "stopped"
            BY <2>3, <3>2 DEF DeliverReap, SaveRun, At
      <4> QED BY <3>1, <4>1 DEF Places, Waits, ParkInv, PointInv, GrantInv, DriveInv, OutInv,
                                WaitInv, InStep, NoGrant
    <3>3. CASE ~Reapable(c)
      <4>1. \A k \in Wakes : Timer(k) # Reap(c)
            BY DEF Timer, Reap, Wakes
      <4>2. \A k \in Wakes : Timer(k) \in Ahead => Timer(k) \in Ahead'
            BY <2>3, <3>3, <4>1 DEF DeliverReap, Ahead
      <4> QED BY <2>3, <3>1, <3>3, <4>2, VisitPark DEF DeliverReap
    <3> QED BY <3>2, <3>3
  <2>4. CASE Recover
    <3>1. mishaps > 0 /\ at = "out"
          BY <1>h, <2>4 DEF Recover, ParkInv, DriveInv
    <3> QED BY <2>4, <3>1 DEF Recover, Proceed, Continue, Raise, Mint, Inside, Return, Leave,
               Unlocked, history, Places, Waits, ParkInv, PointInv, GrantInv, InStep, Review, NoGrant
  <2>5. ASSUME NEW S \in SUBSET timers, Claim(S) PROVE Places /\ Waits
        BY <2>5, AsidePark DEF Claim, store, history, bounds, Ahead
  <2> QED BY <1>2, <2>1, <2>2, <2>3, <2>4, <2>5 DEF PollerActs
<1>3. CASE HolderWorks \/ Checkpoint
      BY <1>3, HolderPlaces, HolderWaits
<1>4. CASE Escape \/ Crash
  <2>1. mishaps' > 0
        BY <1>h, <1>4 DEF Escape, Crash, Mishap
  <2>2. at' = "out" /\ approved' = NoGrant /\ UNCHANGED <<disk, pend>>
        BY <1>4 DEF Escape, Crash, Unlocked, store
  <2>3. (torn' \/ at # "carding") /\ (torn => torn')
    <3>1. CASE Escape
          BY <3>1 DEF Escape, history
    <3>2. CASE Crash
      <4>1. torn' = (torn \/ at = "carding")
            BY <3>2 DEF Crash
      <4> QED BY <4>1, Zenon
    <3> QED BY <1>4, <3>1, <3>2
  <2> QED BY <2>1, <2>2, <2>3 DEF Places, Waits, ParkInv, PointInv, GrantInv, InStep, NoGrant
<1>5. CASE UNCHANGED vars
      BY <1>5, AsidePark DEF vars, store, threads, bounds, history, Ahead
<1> QED BY <1>1, <1>2, <1>3, <1>4, <1>5 DEF Next

LEMMA ParkInvariant == Spec => []ParkInv
<1>1. Init => ParkInv
  <2>1. Init => StopInv
        BY InitType, LifecycleAssumption
        DEF Init, StopInv, GoalInv, Fresh, MemInv, At, LifecycleAssumption
  <2> QED BY <2>1 DEF Init, At, ParkInv, PointInv, GrantInv, DriveInv, OutInv, WaitInv, InStep,
             NoGrant
<1> QED BY <1>1, ParkStep, PTL DEF Spec

\* A run that waits for a timer has one that wakes it: armed before the run is
\* saved as waiting, and armed anew by every wake-up that does not end the wait.
THEOREM ParkedHasTimerHolds == Spec => []ParkedHasTimer
<1>1. ParkInv => ParkedHasTimer
  <2> SUFFICES ASSUME ParkInv, holder = Nobody, ~(mishaps > 0),
                      disk.status \in {"waiting", "awaiting_connect"}
               PROVE  Ahead \cap Wakers # {}
      BY DEF ParkedHasTimer, Ahead
  <2>1. at = "out" /\ WaitInv
        BY DEF ParkInv, StopInv, TypeInv, TypeOK
  <2>2. \E k \in {"window", "watch", "connect"} : Timer(k) \in Ahead
        BY <2>1 DEF WaitInv, Armed
  <2> QED BY <2>2 DEF Wakers, Wakes
<1> QED BY <1>1, ParkInvariant, PTL

\* A grant is for the card on the screen, and a card on the screen has its grant
\* pending and its call kept; a crash inside a park or a drive excepted.
THEOREM GrantFitsCardHolds == Spec => []GrantFitsCard
<1>1. ParkInv => GrantFitsCard
  <2> SUFFICES ASSUME ParkInv PROVE GrantFitsCard
      OBVIOUS
  <2>1. (holder = Nobody <=> at = "out") /\ mishaps \in Nat
        BY LifecycleAssumption DEF ParkInv, StopInv, TypeInv, TypeOK, LifecycleAssumption
  <2>2. mishaps = 0 => DriveInv
        BY <2>1 DEF ParkInv
  <2>3. torn \/ approved.card \in {0, approved.shown}
        BY DEF ParkInv, GrantInv
  <2> QED BY <2>1, <2>2, <2>3 DEF GrantFitsCard, DriveInv, OutInv, CardFits
<1> QED BY <1>1, ParkInvariant, PTL

\* A run that is running is being driven, is about to be, or is to be failed; a
\* mishap excepted, and a parked step that a re-verification has overtaken.
THEOREM RunningIsDrivenHolds == Spec => []RunningIsDriven
<1>1. ParkInv => RunningIsDriven
  <2> SUFFICES ASSUME ParkInv, disk.status = "running", holder = Nobody, ~(mishaps > 0)
               PROVE  overtaken /\ step \in {"running", "await", "watch"}
      BY DEF RunningIsDriven
  <2>1. at = "out" /\ DriveInv
        BY DEF ParkInv, StopInv, TypeInv, TypeOK
  <2> QED BY <2>1 DEF DriveInv, OutInv, Begun
<1> QED BY <1>1, ParkInvariant, PTL
=============================================================================
