---------------------------- MODULE BrokerProofs ----------------------------
(***************************************************************************)
(* Theorems about the Broker module, for every set of actions, every       *)
(* policy, mandate and bound.                                              *)
(***************************************************************************)
EXTENDS Broker, FiniteSetTheorems, SequenceTheorems, TLAPS

\* An action's recipients in one domain can be counted.
LEMMA FanType == \A a \in Action, d \in Domain : Fan(a, d) \in Nat
<1> SUFFICES ASSUME NEW a \in Action, NEW d \in Domain
             PROVE  Fan(a, d) \in Nat
    OBVIOUS
<1> DEFINE R == {r \in RecipsOf[a] : DomainOf[r] = d}
<1>1. IsFiniteSet(R)
  <2>1. IsFiniteSet(RecipsOf[a]) /\ R \subseteq RecipsOf[a]
        BY MandateAssumption DEF MandateAssumption
  <2> HIDE DEF R
  <2> QED BY <2>1, FS_Subset
<1> QED BY <1>1, FS_CardinalityType DEF Fan

\* The counters stay counters.
LEMMA CountsType ==
    /\ NewCounts \in Counts
    /\ \A c \in Counts, a \in Action : Bump(c, a) \in Counts
<1>1. NewCounts \in Counts
      BY DEF NewCounts, Counts
<1>2. ASSUME NEW c \in Counts, NEW a \in Action
      PROVE  Bump(c, a) \in Counts
  <2>1. /\ c.total \in Nat /\ c.byRec \in [Recipient -> Nat]
        /\ c.byDom \in [Domain -> Nat] /\ c.digests \in SUBSET Digest
        BY <1>2 DEF Counts
  <2>2. DigestOf[a] \in Digest
        BY MandateAssumption DEF MandateAssumption
  <2>3. [r \in Recipient |-> IF r \in RecipsOf[a] THEN c.byRec[r] + 1
                             ELSE c.byRec[r]] \in [Recipient -> Nat]
        BY <2>1
  <2>4. [d \in Domain |-> c.byDom[d] + Fan(a, d)] \in [Domain -> Nat]
        BY <2>1, FanType
  <2> QED BY <2>1, <2>2, <2>3, <2>4 DEF Bump, Counts
<1> QED BY <1>1, <1>2

\* So does the reach of the mandate.
LEMMA ReachType ==
    /\ NoReach \in [total : Nat, rec : [Recipient -> Nat], dom : [Domain -> Nat]]
    /\ \A w \in [total : Nat, rec : [Recipient -> Nat], dom : [Domain -> Nat]], a \in Action :
         Widen(w, a) \in [total : Nat, rec : [Recipient -> Nat], dom : [Domain -> Nat]]
BY FanType DEF NoReach, Widen

\* Learned trust stays a counter per class.
LEMMA TrustType ==
    \A t \in [Label -> Nat], a \in Action : RecordTrust(t, a) \in [Label -> Nat]
<1> SUFFICES ASSUME NEW t \in [Label -> Nat], NEW a \in Action
             PROVE  RecordTrust(t, a) \in [Label -> Nat]
    OBVIOUS
<1>1. LabelOf[a] \in Label
      BY MandateAssumption DEF MandateAssumption
<1>2. [t EXCEPT ![LabelOf[a]] = @ + 1] \in [Label -> Nat]
      BY <1>1
<1> QED BY <1>2 DEF RecordTrust

LEMMA ParkType ==
    /\ NoPark \in Parks
    /\ \A p \in Parks : p # NoPark => p.act \in Action /\ p.kind \in Kinds
    /\ \A a \in Action, k \in Kinds : [kind |-> k, act |-> a] \in Parks
BY DEF Parks, NoPark

\* What a tool call does to the bookkeeping of the loop.
LEMMA IssueType ==
    ASSUME TypeOK, NEW a \in Action, Issue(a)
    PROVE  calls' \in 0..MaxCalls /\ todo' = NoAction
<1>1. calls \in 0..MaxCalls /\ MaxCalls \in Nat
      BY BrokerAssumption DEF BrokerAssumption, TypeOK
<1> QED BY <1>1 DEF Issue

\* A fresh broker and its first call.
LEMMA NewBrokerType ==
    ASSUME TypeOK, NewBroker
    PROVE  /\ forwarded' \subseteq Action /\ verified' \subseteq Action
           /\ counts' \in Counts /\ effects' = <<>>
BY DEF TypeOK, NewBroker

LEMMA PerformPendingType ==
    ASSUME TypeOK, PerformPending
    PROVE  /\ phase' \in Idle \cup Live /\ phase' \notin {"parking", "parked"}
           /\ forwarded' \subseteq Action /\ verified' \subseteq Action
           /\ counts' \in Counts
           /\ effects' \in Seq([act : Action, exp : Evidence])
           /\ todo' \in Action \cup {NoAction}
           /\ resume' = NoAction /\ asked' = NoPark /\ wire' = NoAction
<1>1. CASE resume # NoAction
  <2>1. NewBroker /\ phase' = "loop" /\ todo' = resume
        BY <1>1 DEF PerformPending
  <2>2. /\ forwarded' \subseteq Action /\ verified' \subseteq Action
        /\ counts' \in Counts /\ effects' = <<>>
        BY <2>1, NewBrokerType
  <2>3. todo' \in Action \cup {NoAction} /\ phase' \in Live
        BY <2>1 DEF TypeOK, Live
  <2> QED BY <2>1, <2>2, <2>3 DEF PerformPending
<1>2. CASE resume = NoAction
      BY <1>2 DEF PerformPending, TypeOK, Idle, Live, memory
<1> QED BY <1>1, <1>2

LEMMA DenySendsType ==
    ASSUME TypeOK, NEW flip \in [Action -> SUBSET Evidence], DenySends(flip)
    PROVE  /\ ledger' \in [Action -> SUBSET Evidence]
           /\ excused' \in [Action -> Nat]
<1>1. ledger \in [Action -> SUBSET Evidence] /\ excused \in [Action -> Nat]
      BY DEF TypeOK
<1>2. ledger' \in [Action -> SUBSET Evidence]
      BY <1>1 DEF DenySends
<1>3. excused' \in [Action -> Nat]
      BY <1>1 DEF DenySends
<1> QED BY <1>2, <1>3

LEMMA SubjectType == Subject \in [Action -> SUBSET Evidence]
BY DEF Subject, Unconfirmed, Evidence

\* The type invariant in three parts: the driver and its broker, what is
\* stored, and history.
DriverType ==
    /\ phase \in Idle \cup Live
    /\ todo \in Action \cup {NoAction} /\ calls \in 0..MaxCalls
    /\ forwarded \subseteq Action /\ verified \subseteq Action /\ counts \in Counts
    /\ effects \in Seq([act : Action, exp : Evidence]) /\ park \in Parks
    /\ phase = "parking" => park # NoPark
    /\ phase = "parked" => asked # NoPark

StoreType ==
    /\ mode \in Mandates /\ spent \in BOOLEAN /\ about \in Action \cup {NoAction}
    /\ ledger \in [Action -> SUBSET Evidence] /\ savedCounts \in Counts
    /\ trust \in [Label -> Nat] /\ grants \subseteq Action
    /\ pending \in Action \cup {NoAction} /\ resume \in Action \cup {NoAction}
    /\ asked \in Parks

HistoryType ==
    /\ sent \in [Action -> Nat] /\ excused \in [Action -> Nat]
    /\ yes \subseteq Action /\ released \subseteq Action
    /\ wire \in Action \cup {NoAction}
    /\ auto \in [total : Nat, rec : [Recipient -> Nat], dom : [Domain -> Nat]]
    /\ missed \in [total : Int, rec : [Recipient -> Int], dom : [Domain -> Int]]
    /\ mishaps \in Nat /\ answers \in Nat

LEMMA TypeParts ==
    /\ TypeOK => DriverType /\ StoreType /\ HistoryType
    /\ DriverType' /\ StoreType' /\ HistoryType' => TypeOK'
BY DEF TypeOK, DriverType, StoreType, HistoryType

LEMMA StoreSame ==
    ASSUME TypeOK, UNCHANGED <<mode, escalation, store, continuation, asked>>
    PROVE  StoreType'
BY DEF TypeOK, StoreType, escalation, store, continuation

LEMMA HistorySame ==
    ASSUME TypeOK, UNCHANGED <<egress, yes, released, reach, bounds>>,
           wire' \in Action \cup {NoAction}
    PROVE  HistoryType'
BY DEF TypeOK, HistoryType, egress, reach, bounds

\* A step of the driver that touches neither the store nor history.
LEMMA DriverOnly ==
    ASSUME TypeOK, DriverType', wire' \in Action \cup {NoAction},
           UNCHANGED <<mode, escalation, store, continuation, asked, egress, yes, released,
                       reach, bounds>>
    PROVE  TypeOK'
BY StoreSame, HistorySame, TypeParts

\* A step that moves the driver and leaves the broker as it is.
LEMMA PhaseOnly ==
    ASSUME TypeOK, UNCHANGED <<todo, calls, memory, effects, park>>,
           phase' \in Idle \ {"parked"}
    PROVE  DriverType'
BY DEF TypeOK, DriverType, Idle, memory

\* A step that opens or closes a question and leaves the store as it is.
LEMMA QuestionOnly ==
    ASSUME TypeOK, UNCHANGED <<mode, store, continuation>>, asked' \in {asked, NoPark},
           spent' \in {spent, TRUE}, about' \in Action \cup {about, NoAction}
    PROVE  StoreType'
BY ParkType DEF TypeOK, StoreType, store, continuation

\* One more effect, or excuse, of an action.
LEMMA OneMore ==
    ASSUME NEW f \in [Action -> Nat], NEW a \in Action
    PROVE  [f EXCEPT ![a] = @ + 1] \in [Action -> Nat]
OBVIOUS

\* Losing the unsettled effects excuses some actions once more.
LEMMA LoseType ==
    ASSUME TypeOK, LoseUnsettled
    PROVE  excused' \in [Action -> Nat]
<1>1. excused \in [Action -> Nat]
      BY DEF TypeOK
<1> QED BY <1>1 DEF LoseUnsettled

\* A call that parks the loop.
LEMMA LoopParksType ==
    ASSUME TypeOK, NEW a \in Action, NEW k \in Kinds, Issue(a), LoopParks(a, k),
           wire' \in Action \cup {NoAction}
    PROVE  TypeOK'
<1>1. calls' \in 0..MaxCalls /\ todo' = NoAction
      BY IssueType
<1>2. park' \in Parks /\ phase' = "settle"
      BY ParkType DEF LoopParks
<1>3. DriverType /\ UNCHANGED <<memory, effects>>
      BY TypeParts DEF LoopParks
<1>4. DriverType'
      BY <1>1, <1>2, <1>3 DEF DriverType, Live, memory
<1> QED BY <1>4, DriverOnly DEF LoopParks

\* A call that leaves the broker as it is.
LEMMA CallType ==
    ASSUME TypeOK, NEW a \in Action, Issue(a), UNCHANGED <<phase, memory, park, asked>>,
           effects' \in Seq([act : Action, exp : Evidence])
    PROVE  DriverType'
<1>1. calls' \in 0..MaxCalls /\ todo' = NoAction
      BY IssueType
<1>2. DriverType
      BY TypeParts
<1> QED BY <1>1, <1>2 DEF DriverType, memory

\* The parked action is performed, or its step driven again.
LEMMA PerformType ==
    ASSUME TypeOK, PerformPending, UNCHANGED <<calls, park>>
    PROVE  DriverType'
BY PerformPendingType DEF TypeOK, DriverType

\* The type invariant of one step, one named case per action.
LEMMA TypeStep == TypeOK /\ [Next]_vars => TypeOK'
<1> SUFFICES ASSUME TypeOK, [Next]_vars PROVE TypeOK'
    OBVIOUS
<1> USE DEF escalation
<1>0. DriverType /\ StoreType /\ HistoryType
      BY TypeParts
<1>1. CASE StartStep
  <2>1. /\ forwarded' \subseteq Action /\ verified' \subseteq Action
        /\ counts' \in Counts /\ effects' = <<>>
        BY <1>1, NewBrokerType DEF StartStep
  <2>2. phase' = "loop" /\ calls' = 0 /\ UNCHANGED <<todo, park>> /\ wire' = NoAction
        BY <1>1 DEF StartStep
  <2>3. DriverType'
        BY <1>0, <2>1, <2>2, BrokerAssumption DEF BrokerAssumption, DriverType, Live
  <2> QED BY <1>1, <2>2, <2>3, DriverOnly DEF StartStep
<1>2. CASE LoopEnds
  <2>1. DriverType'
        BY <1>0, <1>2 DEF LoopEnds, DriverType, Live, memory
  <2> QED BY <1>2, <2>1, DriverOnly DEF LoopEnds
<1>3. ASSUME NEW a \in Action, Refuse(a) PROVE TypeOK'
  <2>1. DriverType'
        BY <1>0, <1>3, CallType DEF Refuse, DriverType
  <2> QED BY <1>3, <2>1, DriverOnly DEF Refuse
<1>4. ASSUME NEW a \in Action, Replay(a) PROVE TypeOK'
  <2>1. effects' \in Seq([act : Action, exp : Evidence])
        BY <1>0, <1>4 DEF Replay, DriverType, Evidence
  <2>2. DriverType'
        BY <1>4, <2>1, CallType DEF Replay
  <2> QED BY <1>4, <2>2, DriverOnly DEF Replay
<1>5. ASSUME NEW a \in Action, Ask(a) PROVE TypeOK'
      BY <1>5, LoopParksType DEF Ask, Kinds
<1>6. ASSUME NEW a \in Action, NotConnected(a) PROVE TypeOK'
      BY <1>6, LoopParksType DEF NotConnected, Kinds
<1>7. ASSUME NEW a \in Action, ExecuteFails(a) PROVE TypeOK'
  <2>1. sent' \in [Action -> Nat] /\ excused' \in [Action -> Nat] /\ mishaps' \in Nat
    <3>0. sent \in [Action -> Nat] /\ excused \in [Action -> Nat] /\ mishaps \in Nat
          BY <1>0 DEF HistoryType
    <3>1. CASE UNCHANGED <<egress, mishaps>>
          BY <3>0, <3>1 DEF egress
    <3>2. CASE /\ mishaps' = mishaps + 1
               /\ sent' = [sent EXCEPT ![a] = @ + 1]
               /\ excused' = [excused EXCEPT ![a] = @ + 1]
          BY <3>0, <3>2, OneMore
    <3> QED BY <1>7, <3>1, <3>2 DEF ExecuteFails, Mishap
  <2>2. DriverType'
        BY <1>0, <1>7, CallType DEF ExecuteFails, DriverType
  <2>3. StoreType'
        BY <1>7, StoreSame DEF ExecuteFails
  <2>4. HistoryType'
        BY <1>0, <1>7, <2>1 DEF ExecuteFails, HistoryType, reach
  <2> QED BY <2>2, <2>3, <2>4, TypeParts
<1>8. ASSUME NEW a \in Action, Read(a) PROVE TypeOK'
  <2>1. DriverType'
        BY <1>0, <1>8, CallType DEF Read, DriverType
  <2> QED BY <1>8, <2>1, DriverOnly DEF Read
<1>9. ASSUME NEW a \in Action, NEW exp \in Evidence, Forward(a, exp)
      PROVE  TypeOK'
  <2>1. calls' \in 0..MaxCalls /\ todo' = NoAction
        BY <1>9, IssueType DEF Forward
  <2>2. effects' \in Seq([act : Action, exp : Evidence])
        BY <1>0, <1>9 DEF Forward, DriverType
  <2>3. counts' \in Counts
        BY <1>0, <1>9, CountsType DEF Forward, DriverType
  <2>4. auto' \in [total : Nat, rec : [Recipient -> Nat], dom : [Domain -> Nat]]
        BY <1>0, <1>9, ReachType DEF Forward, HistoryType
  <2>5. sent' \in [Action -> Nat] /\ excused' \in [Action -> Nat] /\ mishaps' \in Nat
    <3>0. sent \in [Action -> Nat] /\ excused \in [Action -> Nat] /\ mishaps \in Nat
          BY <1>0 DEF HistoryType
    <3>1. CASE UNCHANGED <<egress, mishaps>>
          BY <3>0, <3>1 DEF egress
    <3>2. CASE sent' = [sent EXCEPT ![a] = @ + 1] /\ UNCHANGED <<excused, mishaps>>
          BY <3>0, <3>2, OneMore
    <3>3. CASE /\ mishaps' = mishaps + 1
               /\ sent' = [sent EXCEPT ![a] = @ + 1]
               /\ excused' = [excused EXCEPT ![a] = @ + 1]
          BY <3>0, <3>3, OneMore
    <3>4. \/ UNCHANGED <<sent, excused, mishaps>>
          \/ sent' = [sent EXCEPT ![a] = @ + 1] /\ UNCHANGED <<excused, mishaps>>
          \/ /\ mishaps' = mishaps + 1
             /\ sent' = [sent EXCEPT ![a] = @ + 1]
             /\ excused' = [excused EXCEPT ![a] = @ + 1]
          BY <1>9 DEF Forward, Mishap
    <3> QED BY <3>1, <3>2, <3>3, <3>4 DEF egress
  <2>6. forwarded' \subseteq Action /\ verified' \subseteq Action
        BY <1>0, <1>9 DEF Forward, DriverType
  <2>7. wire' = a /\ UNCHANGED <<mode, escalation, phase, park, store, continuation, asked,
                                 yes, released, missed, answers>>
        BY <1>9 DEF Forward
  <2>8. DriverType'
        BY <1>0, <2>1, <2>2, <2>3, <2>6, <2>7 DEF DriverType
  <2>9. StoreType'
        BY <2>7, StoreSame
  <2>10. HistoryType'
        BY <1>0, <2>4, <2>5, <2>7 DEF HistoryType, bounds
  <2> QED BY <2>8, <2>9, <2>10, TypeParts
<1>10. CASE SaveCounts
  <2>1. /\ savedCounts' \in Counts
        /\ forwarded' = {} /\ verified' = {} /\ counts' \in Counts
        BY <1>0, <1>10, CountsType DEF SaveCounts, Persist, BrokerEnds, DriverType, StoreType
  <2>2. /\ phase' = "record" /\ wire' = NoAction
        /\ UNCHANGED <<mode, escalation, todo, calls, effects, park, ledger, trust,
                       continuation, asked, egress, yes, released, reach, bounds>>
        BY <1>10 DEF SaveCounts
  <2>3. DriverType'
        BY <1>0, <2>1, <2>2 DEF DriverType, Live
  <2>4. StoreType'
        BY <1>0, <2>1, <2>2 DEF StoreType, continuation
  <2>5. HistoryType'
        BY <2>2, HistorySame
  <2> QED BY <2>3, <2>4, <2>5, TypeParts
<1>11. CASE BudgetSpent
  <2>1. /\ savedCounts' \in Counts
        /\ forwarded' = {} /\ verified' = {} /\ counts' \in Counts
        BY <1>0, <1>11, CountsType DEF BudgetSpent, Persist, BrokerEnds, DriverType, StoreType
  <2>2. /\ phase' = "escalated" /\ wire' = NoAction /\ spent' = TRUE
        /\ effects' = <<>> /\ park' = NoPark
        /\ UNCHANGED <<mode, about, todo, calls, ledger, trust, continuation, asked,
                       sent, yes, released, reach, bounds>>
        BY <1>11 DEF BudgetSpent
  <2>3. excused' \in [Action -> Nat]
        BY <1>11, LoseType DEF BudgetSpent
  <2>4. DriverType'
        BY <1>0, <2>1, <2>2, ParkType DEF DriverType, Idle
  <2>5. StoreType'
        BY <1>0, <2>1, <2>2 DEF StoreType, continuation
  <2>6. HistoryType'
        BY <1>0, <2>2, <2>3 DEF HistoryType, reach, bounds
  <2> QED BY <2>4, <2>5, <2>6, TypeParts
<1>12. CASE RecordEffect
  <2>1. /\ Head(effects) \in [act : Action, exp : Evidence]
        /\ Tail(effects) \in Seq([act : Action, exp : Evidence])
        BY <1>0, <1>12, HeadTailProperties DEF RecordEffect, DriverType
  <2>2. ledger' \in [Action -> SUBSET Evidence]
        BY <1>0, <1>12, <2>1 DEF RecordEffect, StoreType
  <2>3. DriverType'
        BY <1>0, <1>12, <2>1 DEF RecordEffect, DriverType, memory
  <2>4. StoreType'
        BY <1>0, <1>12, <2>2 DEF RecordEffect, StoreType, continuation
  <2>5. HistoryType'
        BY <1>12, HistorySame DEF RecordEffect
  <2> QED BY <2>3, <2>4, <2>5, TypeParts
<1>13. CASE StepOver
  <2>1. DriverType'
        BY <1>13, PhaseOnly DEF StepOver, Idle
  <2> QED BY <1>13, <2>1, DriverOnly DEF StepOver
<1>14. CASE SaveContinuation
  <2>1. park.act \in Action
        BY <1>0, <1>14, ParkType DEF SaveContinuation, DriverType
  <2>2. DriverType'
        BY <1>0, <1>14 DEF SaveContinuation, DriverType, Live, memory
  <2>3. StoreType'
        BY <1>0, <1>14, <2>1 DEF SaveContinuation, StoreType, store
  <2>4. HistoryType'
        BY <1>14, HistorySame DEF SaveContinuation
  <2> QED BY <2>2, <2>3, <2>4, TypeParts
<1>15. CASE ShowCard
  <2>1. DriverType'
        BY <1>0, <1>15, ParkType DEF ShowCard, DriverType, Idle, memory
  <2>2. StoreType'
        BY <1>0, <1>15 DEF ShowCard, StoreType, DriverType, store, continuation
  <2>3. HistoryType'
        BY <1>15, HistorySame DEF ShowCard
  <2> QED BY <2>1, <2>2, <2>3, TypeParts
<1>16. ASSUME OwnerYes \/ UndoElapses PROVE TypeOK'
  <2>1. asked.act \in Action
        BY <1>0, <1>16, ParkType DEF OwnerYes, UndoElapses, DriverType, StoreType
  <2>2. trust' \in [Label -> Nat]
        BY <1>0, <1>16, <2>1, TrustType DEF OwnerYes, UndoElapses, StoreType, store
  <2>3. grants' \subseteq Action /\ pending' = NoAction
        BY <1>0, <1>16 DEF OwnerYes, UndoElapses, TakeGrant, StoreType
  <2>4. PerformPending /\ UNCHANGED <<mode, escalation, calls, park, ledger, savedCounts, egress,
                                      reach, mishaps>>
        BY <1>16 DEF OwnerYes, UndoElapses, store, bounds
  <2>5. resume' = NoAction /\ asked' = NoPark /\ wire' = NoAction
        BY <2>4, PerformPendingType
  <2>6. /\ yes' \subseteq Action /\ released' \subseteq Action /\ answers' \in Nat
        BY <1>0, <1>16, <2>1 DEF OwnerYes, UndoElapses, Answered, HistoryType, bounds
  <2>7. DriverType'
        BY <2>4, PerformType
  <2>8. StoreType'
        BY <1>0, <2>2, <2>3, <2>4, <2>5, ParkType DEF StoreType
  <2>9. HistoryType'
        BY <1>0, <2>4, <2>5, <2>6 DEF HistoryType, egress, reach
  <2> QED BY <2>7, <2>8, <2>9, TypeParts
<1>18. ASSUME OwnerDeclines \/ OwnerAmends \/ ConnectGivesUp PROVE TypeOK'
  <2>1. /\ phase' \in {"escalated", "stopped", "ready"} /\ asked' = NoPark /\ wire' = NoAction
        /\ pending' \in {pending, NoAction} /\ resume' \in {resume, NoAction}
        /\ answers' \in {answers, answers + 1}
        /\ UNCHANGED <<mode, escalation, todo, calls, memory, effects, park, store, grants,
                       egress, yes, released, reach, mishaps>>
        BY <1>18 DEF OwnerDeclines, OwnerAmends, ConnectGivesUp, Answered, continuation, bounds
  <2>2. DriverType'
        BY <2>1, PhaseOnly DEF Idle
  <2>3. StoreType'
        BY <1>0, <2>1, ParkType DEF StoreType, store
  <2>4. HistoryType'
        BY <1>0, <2>1 DEF HistoryType, egress, reach
  <2> QED BY <2>2, <2>3, <2>4, TypeParts
<1>20. CASE Connected
  <2>1. resume' = NoAction /\ asked' = NoPark /\ wire' = NoAction
        BY <1>20, PerformPendingType DEF Connected
  <2>2. DriverType'
        BY <1>20, PerformType DEF Connected
  <2>3. StoreType'
        BY <1>0, <1>20, <2>1, ParkType DEF Connected, StoreType, store
  <2>4. HistoryType'
        BY <1>20, <2>1, HistorySame DEF Connected
  <2> QED BY <2>2, <2>3, <2>4, TypeParts
<1>21. ASSUME NEW b \in Action, RecheckMisses(b) PROVE TypeOK'
  <2>1. DriverType'
        BY <1>21, PhaseOnly DEF RecheckMisses, Idle
  <2>2. StoreType'
        BY <1>21, QuestionOnly DEF RecheckMisses
  <2>3. HistoryType'
        BY <1>21, HistorySame DEF RecheckMisses
  <2> QED BY <2>1, <2>2, <2>3, TypeParts
<1>22. ASSUME OwnerGuides \/ OwnerConfirms \/ OwnerStops PROVE TypeOK'
  <2>1. /\ phase' \in Idle \ {"parked"} /\ wire' = NoAction
        /\ answers' \in {answers, answers + 1} /\ mishaps' = mishaps
        /\ spent' \in {spent, TRUE} /\ about' \in {about, NoAction}
        /\ UNCHANGED <<mode, todo, calls, memory, effects, park, store, continuation,
                       asked, egress, yes, released, reach>>
        BY <1>22 DEF OwnerGuides, OwnerConfirms, OwnerStops, Questions, Idle, Answered, bounds
  <2>2. DriverType'
        BY <2>1, PhaseOnly
  <2>3. StoreType'
        BY <2>1, QuestionOnly
  <2>4. HistoryType'
        BY <1>0, <2>1 DEF HistoryType, egress, reach
  <2> QED BY <2>2, <2>3, <2>4, TypeParts
<1>23. CASE OwnerDenies
  <2>1. ledger' \in [Action -> SUBSET Evidence] /\ excused' \in [Action -> Nat]
        BY <1>23, SubjectType, DenySendsType DEF OwnerDenies
  <2>2. /\ phase' \in Idle \ {"parked"} /\ wire' = NoAction
        /\ mishaps' = mishaps + 1 /\ answers' = answers + 1
        /\ spent' \in {spent, TRUE} /\ about' \in {about, NoAction}
        /\ UNCHANGED <<mode, todo, calls, memory, effects, park, savedCounts,
                       trust, continuation, asked, sent, yes, released, reach>>
        BY <1>23 DEF OwnerDenies, Answered, Mishap, Idle
  <2>3. DriverType'
        BY <2>2, PhaseOnly
  <2>4. StoreType'
        BY <1>0, <2>1, <2>2 DEF StoreType, continuation
  <2>5. HistoryType'
        BY <1>0, <2>1, <2>2 DEF HistoryType, reach
  <2> QED BY <2>3, <2>4, <2>5, TypeParts
<1>24. CASE Crash
  <2>1. missed' \in [total : Int, rec : [Recipient -> Int], dom : [Domain -> Int]]
    <3>1. auto.total - savedCounts.total \in Int
          BY <1>0 DEF StoreType, HistoryType, Counts
    <3>2. /\ auto.dom \in [Domain -> Nat] /\ savedCounts.byDom \in [Domain -> Nat]
          /\ auto.rec \in [Recipient -> Nat] /\ savedCounts.byRec \in [Recipient -> Nat]
          BY <1>0 DEF StoreType, HistoryType, Counts
    <3>3. [d \in Domain |-> auto.dom[d] - savedCounts.byDom[d]] \in [Domain -> Int]
          BY <3>2
    <3>4. [r \in Recipient |-> auto.rec[r] - savedCounts.byRec[r]] \in [Recipient -> Int]
          BY <3>2
    <3> QED BY <1>24, <3>1, <3>3, <3>4 DEF Crash
  <2>2. excused' \in [Action -> Nat]
        BY <1>24, LoseType DEF Crash
  <2>3. DriverType'
        BY <1>24, CountsType, ParkType, BrokerAssumption
           DEF Crash, BrokerEnds, DriverType, Idle, BrokerAssumption
  <2>4. StoreType'
        BY <1>0, <1>24, ParkType DEF Crash, StoreType, store, continuation
  <2>5. HistoryType'
        BY <1>0, <1>24, <2>1, <2>2 DEF Crash, Mishap, HistoryType
  <2> QED BY <2>3, <2>4, <2>5, TypeParts
<1>26. CASE Recover
  <2>1. DriverType'
        BY <1>26, PhaseOnly DEF Recover, Idle
  <2> QED BY <1>26, <2>1, DriverOnly DEF Recover
<1>25. CASE UNCHANGED vars
      BY <1>25 DEF vars, TypeOK, memory, store, continuation, egress, reach, bounds
<1> QED BY <1>1, <1>2, <1>3, <1>4, <1>5, <1>6, <1>7, <1>8, <1>9, <1>10, <1>11, <1>12, <1>13, <1>14,
           <1>15, <1>16, <1>18, <1>20, <1>21, <1>22, <1>23, <1>24, <1>25, <1>26 DEF Next

LEMMA InitType == Init => TypeOK
<1> SUFFICES ASSUME Init PROVE TypeOK
    OBVIOUS
<1>1. /\ phase \in Idle \cup Live /\ phase \notin {"parking", "parked"}
      /\ todo \in Action \cup {NoAction} /\ calls \in 0..MaxCalls
      /\ forwarded \subseteq Action /\ verified \subseteq Action /\ counts \in Counts
      /\ effects \in Seq([act : Action, exp : Evidence]) /\ park \in Parks
      BY CountsType, ParkType, BrokerAssumption DEF BrokerAssumption, Init, Idle
<1>2. /\ mode \in Mandates /\ spent \in BOOLEAN /\ about \in Action \cup {NoAction}
      /\ ledger \in [Action -> SUBSET Evidence] /\ savedCounts \in Counts
      /\ trust \in [Label -> Nat] /\ grants \subseteq Action
      /\ pending \in Action \cup {NoAction} /\ resume \in Action \cup {NoAction}
      /\ asked \in Parks
      BY CountsType, ParkType DEF Init
<1>3. HistoryType
  <2>1. auto = NoReach /\ missed = NoReach
        BY DEF Init
  <2>2. missed \in [total : Int, rec : [Recipient -> Int], dom : [Domain -> Int]]
        BY <2>1 DEF NoReach
  <2>3. auto \in [total : Nat, rec : [Recipient -> Nat], dom : [Domain -> Nat]]
        BY <2>1, ReachType
  <2>4. /\ sent \in [Action -> Nat] /\ excused \in [Action -> Nat]
        /\ yes \subseteq Action /\ released \subseteq Action
        /\ wire \in Action \cup {NoAction} /\ mishaps \in Nat /\ answers \in Nat
        BY DEF Init
  <2> QED BY <2>2, <2>3, <2>4 DEF HistoryType
<1> QED BY <1>1, <1>2, <1>3 DEF TypeOK, HistoryType

\* Types hold, and no step makes more tool calls than its budget allows.
THEOREM TypeCorrect == Spec => []TypeOK
BY InitType, TypeStep, PTL DEF Spec

-----------------------------------------------------------------------------
(* No double send.  NoDoubleSend is not inductive: it says nothing of what  *)
(* the live broker knows.  OnceInv adds that an accepted send which is not  *)
(* excused is held in the ledger or among the unsettled effects, and that a *)
(* live broker knows everything that is held.                               *)

OnceInv ==
    /\ \A a \in Action : sent[a] <= excused[a] + (IF Held(a) THEN 1 ELSE 0)
    /\ phase = "loop" => \A a \in Action : Held(a) => a \in forwarded
    /\ phase \notin {"loop", "settle", "record"} => effects = <<>>

\* What appending and settling one effect do to the unsettled ones.
LEMMA UnsettledAppend ==
    ASSUME TypeOK, NEW b \in Action, NEW e \in Evidence,
           effects' = Append(effects, [act |-> b, exp |-> e])
    PROVE  \A a \in Action : Unsettled(a)' <=> Unsettled(a) \/ (a = b /\ e # "missing")
<1> DEFINE E == [act : Action, exp : Evidence]
           x == [act |-> b, exp |-> e]
<1>1. effects \in Seq(E) /\ x \in E
      BY DEF TypeOK
<1>2. /\ Len(effects') = Len(effects) + 1
      /\ \A i \in 1..Len(effects) : effects'[i] = effects[i]
      /\ effects'[Len(effects) + 1] = x
      /\ Len(effects) \in Nat
      BY <1>1
<1>3. x.act = b /\ x.exp = e
      OBVIOUS
<1> HIDE DEF x, E
<1> SUFFICES ASSUME NEW a \in Action
             PROVE  Unsettled(a)' <=> Unsettled(a) \/ (a = b /\ e # "missing")
    OBVIOUS
<1>4. Unsettled(a)' => Unsettled(a) \/ (a = b /\ e # "missing")
      BY <1>2, <1>3 DEF Unsettled
<1>5. Unsettled(a) => Unsettled(a)'
      BY <1>2 DEF Unsettled
<1>6. a = b /\ e # "missing" => Unsettled(a)'
  <2>1. Len(effects) + 1 \in 1..Len(effects')
        BY <1>2
  <2> QED BY <1>2, <1>3, <2>1 DEF Unsettled
<1> QED BY <1>4, <1>5, <1>6

LEMMA UnsettledTail ==
    ASSUME TypeOK, effects # <<>>, effects' = Tail(effects)
    PROVE  \A a \in Action :
             Unsettled(a) <=> Unsettled(a)' \/ (Head(effects).act = a
                                              /\ Head(effects).exp # "missing")
<1> DEFINE E == [act : Action, exp : Evidence]
<1>1. effects \in Seq(E)
      BY DEF TypeOK
<1>2. /\ Len(effects) \in Nat \ {0}
      /\ Len(effects') = Len(effects) - 1
      /\ \A i \in 1..Len(effects') : effects'[i] = effects[i + 1]
      /\ Head(effects) = effects[1]
  <2> HIDE DEF E
  <2> QED BY <1>1, HeadTailProperties
<1> SUFFICES ASSUME NEW a \in Action
             PROVE  Unsettled(a) <=> Unsettled(a)' \/ (Head(effects).act = a
                                              /\ Head(effects).exp # "missing")
    OBVIOUS
<1>3. ASSUME NEW i \in 1..Len(effects), i # 1
      PROVE  i - 1 \in 1..Len(effects') /\ effects'[i - 1] = effects[i]
      BY <1>2, <1>3
<1>4. Unsettled(a) => Unsettled(a)' \/ (Head(effects).act = a
                                      /\ Head(effects).exp # "missing")
      BY <1>2, <1>3 DEF Unsettled
<1>5. Unsettled(a)' => Unsettled(a)
  <2>1. ASSUME NEW i \in 1..Len(effects')
        PROVE  i + 1 \in 1..Len(effects) /\ effects'[i] = effects[i + 1]
        BY <1>2
  <2> QED BY <2>1 DEF Unsettled
<1>6. 1 \in 1..Len(effects)
      BY <1>2
<1>7. Head(effects).act = a /\ Head(effects).exp # "missing" => Unsettled(a)
      BY <1>2, <1>6 DEF Unsettled
<1> QED BY <1>4, <1>5, <1>7

\* No effects, nothing unsettled.
LEMMA UnsettledNone ==
    effects = <<>> => \A a \in Action : ~Unsettled(a)
BY DEF Unsettled

\* A step that leaves these alone keeps OnceInv, if it opens no loop.
LEMMA OnceFrame ==
    ASSUME OnceInv, UNCHANGED <<sent, excused, ledger, effects>>,
           phase' = "loop" => phase = "loop" /\ UNCHANGED forwarded,
           effects = <<>> \/ phase' \in {"loop", "settle", "record"}
    PROVE  OnceInv'
<1>1. \A a \in Action : Unsettled(a)' <=> Unsettled(a)
      BY DEF Unsettled
<1>2. \A a \in Action : Held(a)' <=> Held(a)
      BY <1>1 DEF Held
<1> QED BY <1>2 DEF OnceInv

\* The unsettled effects are lost, and excused where nothing else holds them.
LEMMA OnceLose ==
    ASSUME TypeOK, OnceInv, LoseUnsettled, effects' = <<>>, phase' # "loop",
           UNCHANGED <<sent, ledger>>
    PROVE  OnceInv'
<1>1. ASSUME NEW a \in Action
      PROVE  sent'[a] <= excused'[a] + (IF Held(a)' THEN 1 ELSE 0)
  <2>1. /\ sent[a] \in Nat /\ excused[a] \in Nat
        /\ sent[a] <= excused[a] + (IF Held(a) THEN 1 ELSE 0)
        BY DEF TypeOK, OnceInv
  <2>2. Held(a) <=> ledger[a] # {} \/ Unsettled(a)
        BY DEF Held
  <2>3. ledger[a] # {} => Held(a)'
        BY DEF Held
  <2>4. excused'[a] = IF Unsettled(a) /\ ledger[a] = {}
                      THEN excused[a] + 1 ELSE excused[a]
        BY DEF LoseUnsettled
  <2>5. sent'[a] = sent[a]
        OBVIOUS
  <2> QED BY <2>1, <2>2, <2>3, <2>4, <2>5
<1> QED BY <1>1 DEF OnceInv

\* A fresh broker knows what the ledger holds, and that is all there is.
LEMMA OnceFresh ==
    ASSUME OnceInv, NewBroker, effects = <<>>, UNCHANGED <<sent, excused, ledger>>
    PROVE  OnceInv'
<1>1. effects' = <<>> /\ forwarded' = {a \in Action : ledger[a] # {}}
      BY DEF NewBroker
<1>2. \A a \in Action : ~Unsettled(a) /\ ~Unsettled(a)'
      BY <1>1, UnsettledNone DEF Unsettled
<1>3. \A a \in Action : (Held(a)' <=> Held(a)) /\ (Held(a)' <=> ledger[a] # {})
      BY <1>2 DEF Held
<1> QED BY <1>1, <1>3 DEF OnceInv

LEMMA OncePerform ==
    ASSUME OnceInv, PerformPending, phase \in {"parked", "connect"},
           UNCHANGED <<sent, excused, ledger>>
    PROVE  OnceInv'
<1>1. effects = <<>>
      BY DEF OnceInv
<1>2. CASE resume # NoAction
      BY <1>1, <1>2, OnceFresh DEF PerformPending
<1>3. CASE resume = NoAction
      BY <1>1, <1>3, OnceFrame DEF PerformPending, memory
<1> QED BY <1>2, <1>3

\* An effect that the broker already knows, or comes to know, is appended.
LEMMA OnceAppend ==
    ASSUME TypeOK, OnceInv, phase = "loop", phase' = "loop",
           NEW a \in Action, NEW e \in Evidence,
           effects' = Append(effects, [act |-> a, exp |-> e]),
           e # "missing" => a \in forwarded',
           forwarded \subseteq forwarded',
           UNCHANGED ledger,
           \/ UNCHANGED <<sent, excused>>
           \/ /\ ~Held(a) /\ e # "missing" /\ UNCHANGED excused
              /\ sent' = [sent EXCEPT ![a] = @ + 1]
           \/ /\ sent' = [sent EXCEPT ![a] = @ + 1]
              /\ excused' = [excused EXCEPT ![a] = @ + 1]
    PROVE  OnceInv'
<1>1. \A b \in Action : Held(b)' <=> Held(b) \/ (b = a /\ e # "missing")
      BY UnsettledAppend DEF Held
<1>2. \A b \in Action : Held(b)' => b \in forwarded'
      BY <1>1 DEF OnceInv
<1>3. ASSUME NEW b \in Action
      PROVE  sent'[b] <= excused'[b] + (IF Held(b)' THEN 1 ELSE 0)
  <2>1. /\ sent[b] <= excused[b] + (IF Held(b) THEN 1 ELSE 0)
        /\ sent[b] \in Nat /\ excused[b] \in Nat
        BY DEF OnceInv, TypeOK
  <2>2. CASE UNCHANGED <<sent, excused>>
        BY <2>1, <2>2, <1>1
  <2>3. CASE /\ ~Held(a) /\ e # "missing" /\ UNCHANGED excused
             /\ sent' = [sent EXCEPT ![a] = @ + 1]
    <3>1. CASE b = a
      <4>1. sent'[b] = sent[b] + 1
            BY <2>3, <3>1 DEF TypeOK
      <4> QED BY <4>1, <2>1, <2>3, <3>1, <1>1
    <3>2. CASE b # a
      <4>1. sent'[b] = sent[b]
            BY <2>3, <3>2 DEF TypeOK
      <4> QED BY <4>1, <2>1, <2>3, <3>2, <1>1
    <3> QED BY <3>1, <3>2
  <2>4. CASE /\ sent' = [sent EXCEPT ![a] = @ + 1]
             /\ excused' = [excused EXCEPT ![a] = @ + 1]
    <3>1. \/ sent'[b] = sent[b] /\ excused'[b] = excused[b]
          \/ sent'[b] = sent[b] + 1 /\ excused'[b] = excused[b] + 1
          BY <2>4 DEF TypeOK
    <3> QED BY <3>1, <2>1, <1>1
  <2> QED BY <2>2, <2>3, <2>4
<1> QED BY <1>2, <1>3 DEF OnceInv

\* A call that is cleared is for an action nothing holds.
LEMMA ClearedIsNew ==
    ASSUME OnceInv, NEW a \in Action, phase = "loop", Cleared(a), SideEffecting(a)
    PROVE  ~Held(a)
BY DEF OnceInv, Cleared, Known

LEMMA OnceStep == TypeOK /\ OnceInv /\ [Next]_vars => OnceInv'
<1> SUFFICES ASSUME TypeOK, OnceInv, [Next]_vars PROVE OnceInv'
    OBVIOUS
<1> USE DEF memory, continuation, store, reach, egress, bounds
<1>1. CASE StartStep
  <2>1. effects = <<>>
        BY <1>1 DEF StartStep, OnceInv
  <2> QED BY <1>1, <2>1, OnceFresh DEF StartStep
<1>2. CASE LoopEnds
      BY <1>2, OnceFrame DEF LoopEnds
<1>3. ASSUME NEW a \in Action, Refuse(a) PROVE OnceInv'
      BY <1>3, OnceFrame DEF Refuse, Issue
<1>4. ASSUME NEW a \in Action, Replay(a) PROVE OnceInv'
      BY <1>4, OnceAppend DEF Replay, Issue, Known, Evidence
<1>5. ASSUME NEW a \in Action, Ask(a) PROVE OnceInv'
      BY <1>5, OnceFrame DEF Ask, LoopParks
<1>6. ASSUME NEW a \in Action, NotConnected(a) PROVE OnceInv'
      BY <1>6, OnceFrame DEF NotConnected, LoopParks
<1>7. ASSUME NEW a \in Action, ExecuteFails(a) PROVE OnceInv'
  <2>1. CASE UNCHANGED egress
        BY <1>7, <2>1, OnceFrame DEF ExecuteFails, Issue
  <2>2. CASE /\ SideEffecting(a)
             /\ sent' = [sent EXCEPT ![a] = @ + 1]
             /\ excused' = [excused EXCEPT ![a] = @ + 1]
    <3>1. \A b \in Action : (Held(b)' <=> Held(b))
          BY <1>7 DEF ExecuteFails, Held, Unsettled
    <3>2. ASSUME NEW b \in Action
          PROVE  sent'[b] <= excused'[b] + (IF Held(b) THEN 1 ELSE 0)
      <4>1. /\ sent[b] <= excused[b] + (IF Held(b) THEN 1 ELSE 0)
            /\ sent[b] \in Nat /\ excused[b] \in Nat
            BY DEF OnceInv, TypeOK
      <4>2. \/ sent'[b] = sent[b] /\ excused'[b] = excused[b]
            \/ sent'[b] = sent[b] + 1 /\ excused'[b] = excused[b] + 1
            BY <2>2 DEF TypeOK
      <4> QED BY <4>1, <4>2
    <3>3. phase = "loop" /\ phase' = "loop" /\ UNCHANGED <<forwarded, effects>>
          BY <1>7 DEF ExecuteFails, Issue
    <3> QED BY <3>1, <3>2, <3>3 DEF OnceInv
  <2> QED BY <1>7, <2>1, <2>2 DEF ExecuteFails
<1>8. ASSUME NEW a \in Action, Read(a) PROVE OnceInv'
      BY <1>8, OnceFrame DEF Read, Issue
<1>9. ASSUME NEW a \in Action, NEW exp \in Evidence, Forward(a, exp)
      PROVE  OnceInv'
  <2>1. ~Held(a)
        BY <1>9, ClearedIsNew DEF Forward, Remembered, Issue
  <2>2. /\ phase = "loop" /\ phase' = "loop"
        /\ effects' = Append(effects, [act |-> a, exp |-> exp])
        /\ exp # "missing" => a \in forwarded'
        /\ forwarded \subseteq forwarded'
        /\ UNCHANGED ledger
        BY <1>9 DEF Forward, Remembered, Issue
  <2>3. \/ UNCHANGED <<sent, excused>>
        \/ /\ exp # "missing" /\ UNCHANGED excused
           /\ sent' = [sent EXCEPT ![a] = @ + 1]
        \/ /\ sent' = [sent EXCEPT ![a] = @ + 1]
           /\ excused' = [excused EXCEPT ![a] = @ + 1]
        BY <1>9 DEF Forward
  <2> QED BY <2>1, <2>2, <2>3, OnceAppend
<1>10. CASE SaveCounts
      BY <1>10, OnceFrame DEF SaveCounts, Persist
<1>11. CASE BudgetSpent
      BY <1>11, OnceLose DEF BudgetSpent
<1>12. CASE RecordEffect
  <2> DEFINE e == Head(effects)
  <2>1. /\ effects # <<>> /\ effects' = Tail(effects)
        /\ phase = "record" /\ phase' = "record" /\ UNCHANGED <<sent, excused>>
        /\ ledger' = [ledger EXCEPT ![e.act] = @ \cup ({e.exp} \ {"missing"})]
        BY <1>12 DEF RecordEffect
  <2>2. ASSUME NEW a \in Action, Held(a)
        PROVE  Held(a)'
    <3>1. CASE ledger[a] # {}
      <4>1. ledger'[a] # {}
            BY <2>1, <3>1 DEF TypeOK
      <4> QED BY <4>1 DEF Held
    <3>2. CASE Unsettled(a)'
          BY <3>2 DEF Held
    <3>3. CASE e.act = a /\ e.exp # "missing"
      <4>1. e.exp \in ledger'[a]
            BY <2>1, <3>3 DEF TypeOK
      <4> QED BY <4>1 DEF Held
    <3> QED BY <2>1, <2>2, <3>1, <3>2, <3>3, UnsettledTail DEF Held
  <2>3. \A a \in Action : /\ sent[a] \in Nat /\ excused[a] \in Nat
                          /\ sent[a] <= excused[a] + (IF Held(a) THEN 1 ELSE 0)
        BY DEF TypeOK, OnceInv
  <2>4. \A a \in Action : sent'[a] <= excused'[a] + (IF Held(a)' THEN 1 ELSE 0)
        BY <2>1, <2>2, <2>3
  <2> QED BY <2>1, <2>4 DEF OnceInv
<1>13. CASE StepOver
      BY <1>13, OnceFrame DEF StepOver
<1>14. CASE SaveContinuation
      BY <1>14, OnceFrame DEF SaveContinuation
<1>15. CASE ShowCard
      BY <1>15, OnceFrame DEF ShowCard, OnceInv
<1>16. CASE OwnerYes
      BY <1>16, OncePerform DEF OwnerYes
<1>17. CASE UndoElapses
      BY <1>17, OncePerform DEF UndoElapses
<1>18. CASE OwnerDeclines
      BY <1>18, OnceFrame DEF OwnerDeclines, OnceInv
<1>19. CASE OwnerAmends
      BY <1>19, OnceFrame DEF OwnerAmends, OnceInv
<1>20. CASE Connected
      BY <1>20, OncePerform DEF Connected
<1>21. CASE ConnectGivesUp
      BY <1>21, OnceFrame DEF ConnectGivesUp, OnceInv
<1>22. ASSUME NEW b \in Action, RecheckMisses(b) PROVE OnceInv'
      BY <1>22, OnceFrame DEF RecheckMisses, Idle, OnceInv
<1>23. CASE OwnerGuides
      BY <1>23, OnceFrame DEF OwnerGuides, Questions, OnceInv
<1>24. CASE OwnerConfirms
      BY <1>24, OnceFrame DEF OwnerConfirms, OnceInv
<1>25. CASE OwnerDenies
  <2>1. /\ effects = <<>> /\ effects' = <<>> /\ UNCHANGED sent /\ phase' # "loop"
        BY <1>25 DEF OwnerDenies, OnceInv
  <2>2. \A a \in Action : /\ sent[a] \in Nat /\ excused[a] \in Nat
                          /\ Held(a) <=> ledger[a] # {}
                          /\ Held(a)' <=> ledger'[a] # {}
        BY <2>1, UnsettledNone DEF TypeOK, Held, Unsettled
  <2>3. ASSUME NEW flip \in [Action -> SUBSET Evidence], DenySends(flip),
               NEW a \in Action
        PROVE  sent'[a] <= excused'[a] + (IF Held(a)' THEN 1 ELSE 0)
    <3>1. sent[a] <= excused[a] + (IF ledger[a] # {} THEN 1 ELSE 0)
          BY <2>2 DEF OnceInv
    <3>2. /\ ledger'[a] = ledger[a] \ flip[a]
          /\ excused'[a] = IF ledger[a] # {} /\ ledger[a] \subseteq flip[a]
                            THEN excused[a] + 1 ELSE excused[a]
          BY <2>3 DEF DenySends
    <3>3. ledger'[a] = {} <=> ledger[a] \subseteq flip[a]
          BY <3>2
    <3> QED BY <2>1, <2>2, <3>1, <3>2, <3>3
  <2>4. \A a \in Action : sent'[a] <= excused'[a] + (IF Held(a)' THEN 1 ELSE 0)
    <3>1. DenySends(Subject)
          BY <1>25 DEF OwnerDenies
    <3> HIDE DEF Subject
    <3> QED BY <3>1, <2>3, SubjectType
  <2> QED BY <2>1, <2>4 DEF OnceInv
<1>26. CASE OwnerStops
      BY <1>26, OnceFrame DEF OwnerStops, Questions, OnceInv
<1>27. CASE Crash
      BY <1>27, OnceLose DEF Crash
<1>28. CASE Recover
      BY <1>28, OnceFrame DEF Recover, OnceInv
<1>29. CASE UNCHANGED vars
      BY <1>29, OnceFrame DEF vars, OnceInv
<1> QED BY <1>1, <1>2, <1>3, <1>4, <1>5, <1>6, <1>7, <1>8, <1>9, <1>10, <1>11, <1>12, <1>13,
           <1>14, <1>15, <1>16, <1>17, <1>18, <1>19, <1>20, <1>21, <1>22, <1>23, <1>24,
           <1>25, <1>26, <1>27, <1>28, <1>29 DEF Next

LEMMA OnceInvariant == Spec => [](TypeOK /\ OnceInv)
<1>1. Init => OnceInv
      BY UnsettledNone DEF Init, OnceInv, Held
<1> QED BY <1>1, InitType, TypeStep, OnceStep, PTL DEF Spec

\* Until a step has found the budget or the deadline spent, an action has no
\* more excuses than the run had mishaps.
ExcusesCounted == ~spent => \A a \in Action : excused[a] <= mishaps

LEMMA ExcusesStep == TypeOK /\ ExcusesCounted /\ [Next]_vars => ExcusesCounted'
<1> SUFFICES ASSUME TypeOK, ExcusesCounted, [Next]_vars, ~spent', NEW a \in Action
             PROVE  excused'[a] <= mishaps'
    BY DEF ExcusesCounted
<1> USE DEF escalation, egress, bounds
<1>0. excused[a] \in Nat /\ mishaps \in Nat
      BY DEF TypeOK
<1>1. CASE spent' = spent /\ UNCHANGED <<excused, mishaps>>
      BY <1>1 DEF ExcusesCounted
<1>2. CASE /\ spent' = spent /\ mishaps' = mishaps + 1
           /\ excused'[a] \in {excused[a], excused[a] + 1}
      BY <1>0, <1>2 DEF ExcusesCounted
<1>3. ASSUME NEW b \in Action,
             Refuse(b) \/ Replay(b) \/ Ask(b) \/ NotConnected(b) \/ Read(b)
               \/ RecheckMisses(b)
      PROVE  spent' = spent /\ UNCHANGED <<excused, mishaps>>
      BY <1>3 DEF Refuse, Replay, Ask, LoopParks, NotConnected, Read, RecheckMisses
<1>4. ASSUME NEW b \in Action, ExecuteFails(b)
      PROVE  excused'[a] <= mishaps'
  <2>1. excused' = [excused EXCEPT ![b] = @ + 1] => excused'[a] \in {excused[a], excused[a] + 1}
        BY DEF TypeOK
  <2> QED BY <1>1, <1>2, <1>4, <2>1 DEF ExecuteFails, Mishap
<1>5. ASSUME NEW b \in Action, NEW exp \in Evidence, Forward(b, exp)
      PROVE  excused'[a] <= mishaps'
  <2>1. excused' = [excused EXCEPT ![b] = @ + 1] => excused'[a] \in {excused[a], excused[a] + 1}
        BY DEF TypeOK
  <2> QED BY <1>1, <1>2, <1>5, <2>1 DEF Forward, Mishap
<1>6. StartStep \/ LoopEnds \/ SaveCounts \/ RecordEffect \/ StepOver \/ SaveContinuation
        \/ ShowCard \/ Recover
      => spent' = spent /\ UNCHANGED <<excused, mishaps>>
      BY DEF StartStep, LoopEnds, SaveCounts, RecordEffect, StepOver, SaveContinuation,
             ShowCard, Recover
<1>7. OwnerYes \/ UndoElapses \/ OwnerDeclines \/ OwnerAmends \/ Connected \/ ConnectGivesUp
        \/ OwnerConfirms \/ OwnerStops
      => spent' = spent /\ UNCHANGED <<excused, mishaps>>
      BY DEF OwnerYes, UndoElapses, OwnerDeclines, OwnerAmends, Connected, ConnectGivesUp,
             OwnerConfirms, OwnerStops
<1>8. CASE OwnerGuides
      BY <1>1, <1>8 DEF OwnerGuides
<1>9. CASE BudgetSpent
      BY <1>9 DEF BudgetSpent
<1>10. CASE OwnerDenies
  <2>1. excused'[a] \in {excused[a], excused[a] + 1}
        BY <1>10 DEF OwnerDenies, DenySends
  <2> QED BY <1>2, <1>10, <2>1 DEF OwnerDenies, Mishap
<1>11. CASE Crash
  <2>1. excused'[a] \in {excused[a], excused[a] + 1}
        BY <1>11 DEF Crash, LoseUnsettled
  <2> QED BY <1>2, <1>11, <2>1 DEF Crash, Mishap
<1>12. CASE UNCHANGED vars
      BY <1>1, <1>12 DEF vars
<1> QED BY <1>1, <1>3, <1>4, <1>5, <1>6, <1>7, <1>8, <1>9, <1>10, <1>11, <1>12 DEF Next

\* No exact action takes effect twice, but for a provider's lost answer, the
\* owner's report that it never arrived, or a record lost in a crash or with a
\* step that found the budget or the deadline spent; and as long as no step
\* has, for no more reasons than the run had mishaps.
THEOREM NoDoubleSendHolds == Spec => []NoDoubleSend
<1>1. TypeOK /\ OnceInv /\ ExcusesCounted => NoDoubleSend
  <2> SUFFICES ASSUME TypeOK, OnceInv, ExcusesCounted, NEW a \in Action
               PROVE  sent[a] <= 1 + excused[a] /\ (~spent => sent[a] <= 1 + mishaps)
      BY DEF NoDoubleSend
  <2>1. sent[a] \in Nat /\ excused[a] \in Nat /\ mishaps \in Nat
        BY DEF TypeOK
  <2>2. sent[a] <= 1 + excused[a]
        BY <2>1 DEF OnceInv
  <2> QED BY <2>1, <2>2 DEF ExcusesCounted
<1>2. Init => ExcusesCounted
  <2> SUFFICES ASSUME Init, NEW a \in Action PROVE excused[a] <= mishaps
      BY DEF ExcusesCounted
  <2>1. excused[a] = 0 /\ mishaps = 0
        BY DEF Init
  <2> QED BY <2>1
<1> QED BY <1>1, <1>2, ExcusesStep, OnceInvariant, PTL DEF Spec

\* Every effect the provider accepted is in the ledger once its step is over,
\* however the step ends, unless a crash or a step that found the budget or the
\* deadline spent lost it (operator.py:1102).
THEOREM LedgerCompleteHolds == Spec => []LedgerComplete
<1>1. TypeOK /\ OnceInv => LedgerComplete
  <2> SUFFICES ASSUME TypeOK, OnceInv, phase \in Idle, NEW a \in Action,
                      sent[a] > excused[a]
               PROVE  ledger[a] # {}
      BY DEF LedgerComplete
  <2>1. sent[a] \in Nat /\ excused[a] \in Nat
        BY DEF TypeOK
  <2>2. Held(a)
        BY <2>1 DEF OnceInv
  <2>3. effects = <<>>
        BY DEF OnceInv, Idle
  <2> QED BY <2>2, <2>3, UnsettledNone DEF Held
<1> QED BY <1>1, OnceInvariant, PTL

-----------------------------------------------------------------------------
(* What reaches the wire: every step that calls the provider cleared the    *)
(* call first.                                                              *)

LEMMA WireCleared ==
    ASSUME Next, wire' # NoAction
    PROVE  wire' \in Action /\ phase = "loop" /\ Cleared(wire')
<1>1. ASSUME NEW a \in Action,
             NotConnected(a) \/ ExecuteFails(a) \/ Read(a)
               \/ \E exp \in Evidence : Forward(a, exp)
      PROVE  wire' = a /\ phase = "loop" /\ Cleared(a)
      BY <1>1 DEF NotConnected, ExecuteFails, Read, Forward, Issue
<1>2. ASSUME NEW a \in Action, Refuse(a) \/ Replay(a) \/ Ask(a) \/ RecheckMisses(a)
      PROVE  wire' = NoAction
      BY <1>2 DEF Refuse, Replay, Ask, RecheckMisses
<1>3. StartStep \/ LoopEnds \/ SaveCounts \/ BudgetSpent \/ RecordEffect
        \/ StepOver \/ SaveContinuation \/ ShowCard \/ Crash \/ Recover
      => wire' = NoAction
      BY DEF StartStep, LoopEnds, SaveCounts, BudgetSpent, RecordEffect, StepOver,
             SaveContinuation, ShowCard, Crash, Recover
<1>4. OwnerYes \/ UndoElapses \/ OwnerDeclines \/ OwnerAmends \/ Connected
        \/ ConnectGivesUp \/ OwnerGuides \/ OwnerConfirms \/ OwnerDenies \/ OwnerStops
      => wire' = NoAction
      BY DEF OwnerYes, UndoElapses, OwnerDeclines, OwnerAmends, Connected, ConnectGivesUp,
             OwnerGuides, OwnerConfirms, OwnerDenies, OwnerStops, PerformPending
<1> QED BY <1>1, <1>2, <1>3, <1>4 DEF Next

\* Whatever the ledger holds as accepted is never put on the wire again.
THEOREM KnownStaysDoneHolds == Spec => KnownStaysDone
<1>1. OnceInv /\ [Next]_vars =>
        [wire' # NoAction /\ SideEffecting(wire') => ledger[wire'] = {}]_vars
  <2> SUFFICES ASSUME OnceInv, Next, wire' # NoAction, SideEffecting(wire')
               PROVE  ledger[wire'] = {}
      OBVIOUS
  <2>1. wire' \in Action /\ phase = "loop" /\ Cleared(wire')
        BY WireCleared
  <2> QED BY <2>1, ClearedIsNew DEF Held
<1> QED BY <1>1, OnceInvariant, PTL DEF Spec, KnownStaysDone

-----------------------------------------------------------------------------
(* The broker implements the abstract egress.                               *)

LEMMA DenyExcuses ==
    ASSUME NEW flip \in [Action -> SUBSET Evidence], DenySends(flip), UNCHANGED sent
    PROVE  Promise!Next
<1> DEFINE S == {a \in Action : ledger[a] # {} /\ ledger[a] \subseteq flip[a]}
<1>1. Promise!Excuse(S)
      BY DEF Promise!Excuse, DenySends
<1> QED BY <1>1 DEF Promise!Next

LEMMA PromiseStep ==
    TypeOK /\ OnceInv /\ [Next]_vars => [Promise!Next]_<<sent, excused>>
<1> SUFFICES ASSUME TypeOK, OnceInv, [Next]_vars
             PROVE  Promise!Next \/ UNCHANGED egress
    BY DEF egress
<1>1. ASSUME NEW a \in Action,
             Refuse(a) \/ Replay(a) \/ Ask(a) \/ NotConnected(a) \/ Read(a)
               \/ RecheckMisses(a)
      PROVE  UNCHANGED egress
      BY <1>1 DEF Refuse, Replay, Ask, NotConnected, Read, RecheckMisses, LoopParks
<1>2. ASSUME NEW a \in Action, ExecuteFails(a)
      PROVE  Promise!Next \/ UNCHANGED egress
  <2>1. CASE UNCHANGED egress
        BY <2>1
  <2>2. CASE /\ SideEffecting(a)
             /\ sent' = [sent EXCEPT ![a] = @ + 1]
             /\ excused' = [excused EXCEPT ![a] = @ + 1]
    <3>1. phase = "loop" /\ Cleared(a)
          BY <1>2 DEF ExecuteFails, Issue
    <3>2. sent[a] <= excused[a]
          BY <2>2, <3>1, ClearedIsNew DEF OnceInv, TypeOK
    <3>3. Promise!SendUnseen(a)
          BY <2>2, <3>2 DEF Promise!SendUnseen
    <3> QED BY <3>3 DEF Promise!Next
  <2> QED BY <1>2, <2>1, <2>2 DEF ExecuteFails
<1>3. ASSUME NEW a \in Action, NEW exp \in Evidence, Forward(a, exp)
      PROVE  Promise!Next \/ UNCHANGED egress
  <2>1. ~Held(a)
        BY <1>3, ClearedIsNew DEF Forward, Issue
  <2>2. sent[a] <= excused[a]
        BY <2>1 DEF OnceInv, TypeOK
  <2>3. CASE sent' = [sent EXCEPT ![a] = @ + 1] /\ UNCHANGED excused
        BY <2>2, <2>3 DEF Promise!Next, Promise!Send
  <2>4. CASE /\ sent' = [sent EXCEPT ![a] = @ + 1]
             /\ excused' = [excused EXCEPT ![a] = @ + 1]
        BY <2>2, <2>4 DEF Promise!Next, Promise!SendUnseen
  <2> QED BY <1>3, <2>3, <2>4 DEF Forward, egress
<1>4. StartStep \/ LoopEnds \/ SaveCounts \/ RecordEffect
        \/ StepOver \/ SaveContinuation \/ ShowCard \/ Recover
      => UNCHANGED egress
      BY DEF StartStep, LoopEnds, SaveCounts, RecordEffect, StepOver,
             SaveContinuation, ShowCard, Recover
<1>5. OwnerYes \/ UndoElapses \/ OwnerDeclines \/ OwnerAmends \/ Connected
        \/ ConnectGivesUp \/ OwnerGuides \/ OwnerConfirms \/ OwnerStops
      => UNCHANGED egress
      BY DEF OwnerYes, UndoElapses, OwnerDeclines, OwnerAmends, Connected,
             ConnectGivesUp, OwnerGuides, OwnerConfirms, OwnerStops, egress
<1>6. CASE OwnerDenies
  <2>1. DenySends(Subject) /\ UNCHANGED sent
        BY <1>6 DEF OwnerDenies
  <2> HIDE DEF Subject
  <2> QED BY <2>1, SubjectType, DenyExcuses
<1>7. CASE BudgetSpent \/ Crash
  <2> DEFINE S == {a \in Action : Unsettled(a) /\ ledger[a] = {}}
  <2>1. Promise!Excuse(S)
        BY <1>7 DEF BudgetSpent, Crash, LoseUnsettled, Promise!Excuse
  <2> QED BY <2>1 DEF Promise!Next
<1>8. CASE UNCHANGED vars
      BY <1>8 DEF vars
<1> QED BY <1>1, <1>2, <1>3, <1>4, <1>5, <1>6, <1>7, <1>8 DEF Next

\* Every behaviour of the broker is one of the abstract egress: a send is
\* repeated only after a reason to repeat it was noted.
THEOREM BrokerImplementsEgress == Spec => AtMostOnce
<1>1. Init => Promise!Init
      BY DEF Init, Promise!Init
<1> QED BY <1>1, PromiseStep, OnceInvariant, PTL DEF Spec, AtMostOnce, Promise!Spec
=============================================================================
