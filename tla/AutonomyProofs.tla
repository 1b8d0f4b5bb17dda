--------------------------- MODULE AutonomyProofs ---------------------------
(***************************************************************************)
(* Proofs about Autonomy, for every set of goals, proposals and pages and  *)
(* any number of crashes.                                                  *)
(***************************************************************************)
EXTENDS Autonomy, TLAPS

LEMMA ParsedType ==
    ASSUME NEW p \in Proposals, NEW g \in Goal
    PROVE  /\ Parsed(p, g) \in Mandate
           /\ Parsed(p, g).types \cap Forbidden = {}
BY AutonomyAssumption DEF Parsed, Sanitized, Named, NoMandate, Mandate, Goal

LEMMA TemplateType ==
    ASSUME NEW g \in Goal
    PROVE  /\ Template(g) \in Mandate
           /\ Template(g).types \cap Forbidden = {}
BY AutonomyAssumption DEF Template, Named, Mandate, Goal

LEMMA NoMandateType == NoMandate \in Mandate /\ NoMandate.types \cap Forbidden = {}
BY DEF NoMandate, Mandate

LEMMA AdmittedType == ASSUME NEW pages \in SUBSET Page PROVE Admitted(pages) \subseteq Address
BY AutonomyAssumption DEF Admitted

(* What the run is, the part of TypeOK the intake changes, and what it has  *)
(* reached, the part a step changes.                                        *)
RunType ==
    /\ status \in {"pending", "planning", "clarifying", "asked", "running", "approving",
                   "escalated", "stopped", "done"}
    /\ at \in {"intake", "fast", "plan", "proposed", "drive", "loop", "out"}
    /\ goal \in Goal /\ proposal \in Mandate /\ mandate \in Mandate /\ granted \subseteq Mandate
    /\ proposal.types \cap Forbidden = {} /\ mandate.types \cap Forbidden = {}
    /\ planned \in BOOLEAN /\ auto \in BOOLEAN

ReachType ==
    /\ kept \subseteq Address /\ discovered \subseteq Address /\ unasked \subseteq Address
    /\ reach \subseteq Address \cup Host
    /\ found \subseteq Page /\ read \subseteq Page

LEMMA TypeParts == TypeOK <=> RunType /\ ReachType /\ previews \in BOOLEAN /\ crashes \in 0..MaxCrashes
BY DEF TypeOK, RunType, ReachType

LEMMA GainType == ASSUME ReachType PROVE Gain \subseteq Address
BY AdmittedType DEF ReachType, Gain

LEMMA MakeBrokerType ==
    ASSUME RunType, ReachType, MakeBroker
    PROVE  reach' \subseteq Address \cup Host /\ found' \subseteq Page
BY DEF RunType, ReachType, MakeBroker, Mandate

LEMMA RunStep == ASSUME RunType, [Next]_vars PROVE RunType'
<1> USE DEF RunType, run, scope, loop, history, Quiet, Escalate
<1>1. CASE Screened
      BY <1>1 DEF Screened
<1>2. CASE FastPath
      BY <1>2 DEF FastPath
<1>3. CASE AskQuestions \/ StartPlanning
      BY <1>3 DEF AskQuestions, StartPlanning
<1>4. CASE Plan
      BY <1>4, ParsedType, TemplateType, NoMandateType DEF Plan
<1>5. CASE GoalGrants \/ ShowCard \/ NothingProposed
      BY <1>5 DEF GoalGrants, ShowCard, NothingProposed
<1>6. CASE StartLoop \/ StepOver \/ StepFails \/ Finish
      BY <1>6 DEF StartLoop, StepOver, StepFails, Finish
<1>7. CASE Approve \/ Decline \/ Revise \/ StopPreview \/ CloseEscalated
      BY <1>7 DEF Approve, Decline, Revise, StopPreview, CloseEscalated
<1>8. CASE Guide
      BY <1>8, NoMandateType DEF Guide
<1>9. CASE Crash
      BY <1>9 DEF Crash
<1>10. CASE \E r \in Replies : Clarify(r)
  <2>1. PICK r \in Replies : Clarify(r)
        BY <1>10
  <2>2. r \in Goal
        BY AutonomyAssumption
  <2>3. CASE r.illegal
        BY <2>1, <2>3 DEF Clarify
  <2>4. CASE ~r.illegal
    <3> DEFINE own == goal.own \cup r.own
               quoted == goal.quoted \cup r.quoted
               asks == goal.asks \/ r.asks
    <3>1. goal' = [own |-> own, quoted |-> quoted, asks |-> asks, single |-> goal.single,
                   constrained |-> TRUE, illegal |-> FALSE]
          BY <2>1, <2>4 DEF Clarify
    <3>2. own \in SUBSET Address /\ quoted \in SUBSET Address /\ goal.single \in BOOLEAN
          BY <2>2 DEF Goal
    <3>3. asks \in BOOLEAN
          OBVIOUS
    <3> HIDE DEF own, quoted, asks
    <3>4. goal' \in Goal
          BY <3>1, <3>2, <3>3 DEF Goal
    <3>5. /\ status' = "planning" /\ at' = "plan"
          /\ UNCHANGED <<proposal, planned, mandate, auto, granted>>
          BY <2>1, <2>4 DEF Clarify
    <3> QED BY <3>4, <3>5
  <2> QED BY <2>3, <2>4
<1>11. CASE \E yes \in BOOLEAN : AnswerCard(yes)
       BY <1>11, NoMandateType DEF AnswerCard
<1>12. CASE \E p \in Page : Fetch(p)
       BY <1>12 DEF Fetch
<1>13. CASE \E c \in Class, to \in SUBSET Address \ {{}} : Send(c, to) \/ Park(c, to)
       BY <1>13 DEF Send, Park
<1>14. CASE UNCHANGED vars
       BY <1>14 DEF vars
<1> QED BY <1>1, <1>2, <1>3, <1>4, <1>5, <1>6, <1>7, <1>8, <1>9, <1>10, <1>11, <1>12, <1>13,
           <1>14 DEF Next

LEMMA ReachStep == ASSUME RunType, ReachType, [Next]_vars PROVE ReachType'
<1> USE DEF ReachType, run, scope, loop, history, Quiet, Escalate
<1>1. CASE Screened \/ FastPath \/ AskQuestions \/ StartPlanning \/ Plan
      BY <1>1 DEF Screened, FastPath, AskQuestions, StartPlanning, Plan
<1>2. CASE GoalGrants \/ ShowCard \/ NothingProposed
      BY <1>2 DEF GoalGrants, ShowCard, NothingProposed
<1>3. CASE StartLoop
      BY <1>3, MakeBrokerType DEF StartLoop
<1>4. CASE StepOver \/ StepFails \/ Finish
      BY <1>4, GainType DEF StepOver, StepFails, Admit, Finish
<1>5. CASE Approve
      BY <1>5, MakeBrokerType DEF Approve
<1>6. CASE Decline \/ Revise \/ StopPreview \/ Guide \/ CloseEscalated \/ Crash
      BY <1>6 DEF Decline, Revise, StopPreview, Guide, CloseEscalated, Crash
<1>7. CASE \E r \in Replies : Clarify(r)
      BY <1>7 DEF Clarify
<1>8. CASE \E yes \in BOOLEAN : AnswerCard(yes)
      BY <1>8 DEF AnswerCard
<1>9. CASE \E p \in Page : Fetch(p)
      BY <1>9 DEF Fetch
<1>10. CASE \E c \in Class, to \in SUBSET Address \ {{}} : Send(c, to) \/ Park(c, to)
       BY <1>10, GainType DEF Send, Park
<1>11. CASE UNCHANGED vars
       BY <1>11 DEF vars
<1> QED BY <1>1, <1>2, <1>3, <1>4, <1>5, <1>6, <1>7, <1>8, <1>9, <1>10, <1>11 DEF Next

LEMMA ConfigStep ==
    ASSUME previews \in BOOLEAN, crashes \in 0..MaxCrashes, MaxCrashes \in Nat, [Next]_vars
    PROVE  previews' \in BOOLEAN /\ crashes' \in 0..MaxCrashes
<1> USE DEF run, scope, loop, history, Quiet
<1>1. CASE Crash
      BY <1>1 DEF Crash
<1>2. CASE ~Crash
      BY <1>2 DEF Next, vars, Screened, FastPath, AskQuestions, StartPlanning, Plan, GoalGrants,
         ShowCard, NothingProposed, StartLoop, StepOver, StepFails, Finish, Approve, Decline, Revise,
         StopPreview, Guide, CloseEscalated, Clarify, AnswerCard, Fetch, Send, Park
<1> QED BY <1>1, <1>2

\* Types; a mandate never lists a refused or NEVER class, whoever proposed it.
THEOREM TypeCorrect == Spec => []TypeOK
<1>1. Init => TypeOK
  <2> SUFFICES ASSUME Init PROVE TypeOK
      OBVIOUS
  <2>1. goal \in Goal
        BY AutonomyAssumption DEF Init
  <2>2. RunType
        BY <2>1, NoMandateType DEF Init, RunType
  <2>3. ReachType
        BY DEF Init, ReachType
  <2>4. previews \in BOOLEAN /\ crashes \in 0..MaxCrashes
        BY AutonomyAssumption DEF Init
  <2> QED BY <2>2, <2>3, <2>4, TypeParts
<1>2. TypeOK /\ [Next]_vars => TypeOK'
  <2> SUFFICES ASSUME TypeOK, [Next]_vars PROVE TypeOK'
      OBVIOUS
  <2>1. RunType /\ ReachType /\ previews \in BOOLEAN /\ crashes \in 0..MaxCrashes
        BY TypeParts
  <2>2. RunType' /\ ReachType'
        BY <2>1, RunStep, ReachStep
  <2>3. previews' \in BOOLEAN /\ crashes' \in 0..MaxCrashes
        BY <2>1, ConfigStep, AutonomyAssumption
  <2> QED BY <2>2, <2>3 DEF TypeOK, RunType, ReachType
<1> QED BY <1>1, <1>2, PTL DEF Spec

-----------------------------------------------------------------------------
(* Whom the run may reach, and why.                                        *)

\* Wherever a scope comes from, it is the owner's or it was read.
Grounded ==
    /\ \A e \in discovered \cup kept : Vouched(e)
    /\ found \subseteq read
    /\ mandate = NoMandate \/ mandate \in granted \/ mandate.scope \subseteq goal.own
    /\ \A e \in Address : Listed(e, reach) => Vouched(e)
    /\ OnlyVouched

\* The reasons only grow.
LEMMA VouchedStays ==
    ASSUME goal.own \subseteq goal'.own, granted \subseteq granted', read \subseteq read',
           NEW e, Vouched(e)
    PROVE  Vouched(e)'
BY DEF Vouched

LEMMA ReasonsGrow ==
    ASSUME RunType, [Next]_vars
    PROVE  goal.own \subseteq goal'.own /\ granted \subseteq granted' /\ read \subseteq read'
<1> USE DEF run, scope, loop, history, Quiet, Escalate
<1>1. CASE \E r \in Replies : Clarify(r)
      BY <1>1 DEF Clarify
<1>2. CASE \E yes \in BOOLEAN : AnswerCard(yes)
      BY <1>2 DEF AnswerCard
<1>3. CASE \E p \in Page : Fetch(p)
      BY <1>3 DEF Fetch
<1>4. CASE UNCHANGED vars
      BY <1>4 DEF vars
<1>5. CASE \E c \in Class, to \in SUBSET Address \ {{}} : Send(c, to) \/ Park(c, to)
      BY <1>5 DEF Send, Park
<1>6. CASE Next /\ UNCHANGED <<goal, granted, read>>
      BY <1>6
<1> QED BY <1>1, <1>2, <1>3, <1>4, <1>5, <1>6 DEF Next, Screened, FastPath, AskQuestions,
           StartPlanning, Plan, GoalGrants, ShowCard, NothingProposed, StartLoop, StepOver, StepFails,
           Finish, Approve, Decline, Revise, StopPreview, Guide,
           CloseEscalated, Crash

LEMMA GainVouched ==
    ASSUME found \subseteq read, NEW e \in Gain
    PROVE  Vouched(e)
<1>1. PICK p \in found : e \in Shows[p] /\ Admits(e, PageHost[p])
      BY DEF Gain, Admitted
<1> QED BY <1>1 DEF Admits, Vouched

LEMMA MandateVouched ==
    ASSUME RunType, ReachType, Grounded, NEW e \in Address,
           mandate # NoMandate, Listed(e, mandate.scope \cup discovered)
    PROVE  Vouched(e)
<1>1. goal.own \subseteq Address
      BY DEF RunType, Goal
<1>2. e \in mandate.scope \cup discovered
      \/ \E d \in mandate.scope \cap Host : <<HostOf[e], d>> \in Within
      BY AutonomyAssumption DEF Listed, ReachType
<1>3. CASE e \in discovered
      BY <1>3 DEF Grounded
<1>4. CASE mandate.scope \subseteq goal.own
      BY <1>1, <1>2, <1>3, <1>4, AutonomyAssumption DEF Vouched
<1>5. CASE mandate \in granted
      BY <1>2, <1>3, <1>5 DEF Vouched
<1> QED BY <1>4, <1>5 DEF Grounded

\* A broker made with the scope of the run reaches the vouched for.
LEMMA BrokerVouched ==
    ASSUME RunType, ReachType, Grounded, MakeBroker, NEW e \in Address, Listed(e, reach)'
    PROVE  Vouched(e)
<1>1. CASE mandate = NoMandate
      BY <1>1 DEF MakeBroker, Listed
<1>2. CASE mandate # NoMandate
      BY <1>2, MandateVouched DEF MakeBroker, Listed
<1> QED BY <1>1, <1>2

\* Nobody new: what a step may reach and the mandate are as they were.
LEMMA SameReach ==
    ASSUME Grounded, RunType, [Next]_vars,
           discovered' \cup kept' \subseteq discovered \cup kept, found' \subseteq found,
           UNCHANGED <<reach, unasked>>,
           mandate' = mandate \/ mandate' = NoMandate \/ mandate' \in granted'
           \/ mandate'.scope \subseteq goal'.own
    PROVE  Grounded'
<1>1. \A e : Vouched(e) => Vouched(e)'
      BY ReasonsGrow, VouchedStays
<1>2. (\A e \in discovered \cup kept : Vouched(e))'
      BY <1>1 DEF Grounded
<1>3. found' \subseteq read'
      BY ReasonsGrow DEF Grounded
<1>4. (mandate = NoMandate \/ mandate \in granted \/ mandate.scope \subseteq goal.own)'
      BY ReasonsGrow DEF Grounded
<1>5. (\A e \in Address : Listed(e, reach) => Vouched(e))'
      BY <1>1 DEF Grounded, Listed
<1>6. OnlyVouched'
      BY <1>1 DEF Grounded, OnlyVouched
<1> QED BY <1>2, <1>3, <1>4, <1>5, <1>6 DEF Grounded

LEMMA GroundedStep == ASSUME RunType, ReachType, Grounded, [Next]_vars PROVE Grounded'
<1> USE DEF run, scope, loop, history, Quiet, Escalate
<1>0. \A e : Vouched(e) => Vouched(e)'
      BY ReasonsGrow, VouchedStays
<1>1. CASE Screened \/ FastPath \/ AskQuestions \/ StartPlanning \/ Plan \/ ShowCard \/ NothingProposed
      BY <1>1, SameReach DEF Screened, FastPath, AskQuestions, StartPlanning, Plan, ShowCard,
         NothingProposed
<1>2. CASE GoalGrants
      BY <1>2, SameReach DEF GoalGrants, Grants, Named
<1>3. CASE StartLoop \/ Approve
  <2>1. MakeBroker /\ discovered' = discovered /\ kept' \subseteq kept \cup discovered
        /\ UNCHANGED <<mandate, goal, history>>
        BY <1>3 DEF StartLoop, Approve
  <2>2. (\A e \in Address : Listed(e, reach) => Vouched(e))'
        BY <2>1, <1>0, BrokerVouched
  <2>3. (\A e \in discovered \cup kept : Vouched(e))'
        BY <2>1, <1>0 DEF Grounded
  <2>4. found' \subseteq read'
        BY <2>1 DEF MakeBroker
  <2>5. OnlyVouched'
        BY <2>1, <1>0 DEF Grounded, OnlyVouched
  <2> QED BY <2>1, <2>2, <2>3, <2>4, <2>5 DEF Grounded
<1>4. CASE StepOver \/ StepFails \/ \E c \in Class, to \in SUBSET Address \ {{}} : Park(c, to)
  <2>1. /\ discovered' \cup kept' \subseteq discovered \cup kept \cup Gain
        /\ UNCHANGED <<mandate, goal, loop, history>>
        BY <1>4 DEF StepOver, StepFails, Park, Admit
  <2>2. \A e \in Gain : Vouched(e)
        BY GainVouched DEF Grounded
  <2>3. (\A e \in discovered \cup kept : Vouched(e))'
        BY <2>1, <2>2, <1>0 DEF Grounded
  <2>4. (\A e \in Address : Listed(e, reach) => Vouched(e))'
        BY <2>1, <1>0 DEF Grounded, Listed
  <2>5. OnlyVouched'
        BY <2>1, <1>0 DEF Grounded, OnlyVouched
  <2> QED BY <2>1, <2>3, <2>4, <2>5 DEF Grounded
<1>5. CASE Finish \/ Decline \/ Revise \/ StopPreview \/ Guide \/ CloseEscalated
      BY <1>5, SameReach DEF Finish, Decline, Revise, StopPreview, Guide, CloseEscalated
<1>6. CASE Crash
  <2>1. /\ discovered' \cup kept' \subseteq discovered \cup kept
        /\ reach' = {} /\ found' = {} /\ UNCHANGED <<mandate, goal, history>>
        BY <1>6 DEF Crash
  <2>2. (\A e \in Address : Listed(e, reach) => Vouched(e))'
        BY <2>1 DEF Listed
  <2>3. (\A e \in discovered \cup kept : Vouched(e))'
        BY <2>1, <1>0 DEF Grounded
  <2>4. OnlyVouched'
        BY <2>1, <1>0 DEF Grounded, OnlyVouched
  <2> QED BY <2>1, <2>2, <2>3, <2>4 DEF Grounded
<1>7. CASE \E r \in Replies : Clarify(r)
      BY <1>7, SameReach DEF Clarify
<1>8. CASE \E yes \in BOOLEAN : AnswerCard(yes)
  <2>1. PICK yes \in BOOLEAN : AnswerCard(yes)
        BY <1>8
  <2>2. mandate' = NoMandate \/ mandate' \in granted'
        BY <2>1 DEF AnswerCard
  <2> QED BY <2>1, <2>2, SameReach DEF AnswerCard
<1>9. CASE \E p \in Page : Fetch(p)
  <2>1. PICK p \in Page : Fetch(p)
        BY <1>9
  <2>2. found' \subseteq read'
        BY <2>1 DEF Fetch, Grounded
  <2>3. (\A e \in discovered \cup kept : Vouched(e))'
        BY <2>1, <1>0 DEF Grounded, Fetch
  <2>4. (\A e \in Address : Listed(e, reach) => Vouched(e))'
        BY <2>1, <1>0 DEF Grounded, Listed, Fetch
  <2>5. OnlyVouched'
        BY <2>1, <1>0 DEF Grounded, OnlyVouched, Fetch
  <2> QED BY <2>1, <2>2, <2>3, <2>4, <2>5 DEF Grounded, Fetch
<1>10. CASE \E c \in Class, to \in SUBSET Address \ {{}} : Send(c, to)
  <2>1. PICK c \in Class, to \in SUBSET Address \ {{}} : Send(c, to)
        BY <1>10
  <2>2. \A e \in to : Vouched(e)
        BY <2>1 DEF Send, Unprompted, Covered, Grounded
  <2>3. OnlyVouched'
        BY <2>1, <2>2, <1>0 DEF Grounded, OnlyVouched, Send
  <2>4. (\A e \in Address : Listed(e, reach) => Vouched(e))'
        BY <2>1, <1>0 DEF Grounded, Listed, Send
  <2>5. (\A e \in discovered \cup kept : Vouched(e))'
        BY <2>1, <1>0 DEF Grounded, Send
  <2> QED BY <2>1, <2>3, <2>4, <2>5 DEF Grounded, Send
<1>11. CASE UNCHANGED vars
       BY <1>11, SameReach DEF vars
<1> QED BY <1>1, <1>2, <1>3, <1>4, <1>5, <1>6, <1>7, <1>8, <1>9, <1>10, <1>11 DEF Next

\* Over clarifications, cards, pages, parks, escalations and any number of
\* restarts, nobody is written to without a question but those the owner
\* named or approved, and contacts read on their own organisation's pages.
THEOREM OnlyVouchedReached == Spec => []OnlyVouched
<1>1. Init => Grounded
      BY DEF Init, Grounded, Listed, OnlyVouched
<1>2. TypeOK /\ Grounded /\ [Next]_vars => Grounded'
      BY GroundedStep, TypeParts
<1>3. Grounded => OnlyVouched
      BY DEF Grounded
<1> QED BY <1>1, <1>2, <1>3, TypeCorrect, PTL DEF Spec

-----------------------------------------------------------------------------
(* The mandate nobody was shown.                                           *)

\* Until a plan has been taken up or its card answered, no goal has granted
\* anything.
UngrantedYet ==
    at \in {"intake", "fast", "plan", "proposed"} \/ status \in {"clarifying", "asked"} => ~auto

\* What the goal granted stays a mandate for sends to the addresses it names,
\* whatever replanning, guidance or a restart does to the run afterwards.
THEOREM UnshownStaysNarrow == Spec => []UnshownIsNarrow
<1>1. Init => UngrantedYet /\ UnshownIsNarrow
      BY DEF Init, UngrantedYet, UnshownIsNarrow
<1>2. TypeOK /\ UngrantedYet /\ UnshownIsNarrow /\ [Next]_vars => (UngrantedYet /\ UnshownIsNarrow)'
  <2> SUFFICES ASSUME TypeOK, UngrantedYet, UnshownIsNarrow, [Next]_vars
               PROVE  (UngrantedYet /\ UnshownIsNarrow)'
      OBVIOUS
  <2> USE DEF run, scope, loop, history, Quiet, Escalate
  <2>1. RunType
        BY TypeParts
  <2>2. UngrantedYet'
        BY DEF UngrantedYet, Next, vars, Screened, FastPath, AskQuestions, StartPlanning, Plan,
           GoalGrants, ShowCard, NothingProposed, StartLoop, StepOver, StepFails, Finish, Approve,
           Decline, Revise, StopPreview, Guide, CloseEscalated, Crash, Clarify, AnswerCard, Fetch, Send, Park
  <2>3. CASE GoalGrants
        BY <2>2, <2>3 DEF GoalGrants, Grants, Named, UnshownIsNarrow
  <2>4. CASE \E yes \in BOOLEAN : AnswerCard(yes)
        BY <2>2, <2>4 DEF AnswerCard, UngrantedYet, UnshownIsNarrow
  <2>5. CASE UNCHANGED <<mandate, auto>>
        BY <2>1, <2>2, <2>5, ReasonsGrow DEF UnshownIsNarrow
  <2>6. GoalGrants \/ (\E yes \in BOOLEAN : AnswerCard(yes)) \/ UNCHANGED <<mandate, auto>>
        BY DEF Next, vars, Screened, FastPath, AskQuestions, StartPlanning, Plan,
           ShowCard, NothingProposed, StartLoop, StepOver, StepFails, Finish, Approve,
           Decline, Revise, StopPreview, Guide, CloseEscalated, Crash, Clarify, Fetch, Send, Park
  <2> QED BY <2>3, <2>4, <2>5, <2>6
<1> QED BY <1>1, <1>2, TypeCorrect, PTL DEF Spec

\* A contact admitted from a page is in the stored continuation at every step,
\* so a restart at any point gives the run the scope it had.
THEOREM AdmittedAreKept == Spec => []AdmittedSurvive
<1>1. Init => AdmittedSurvive
      BY DEF Init, AdmittedSurvive
<1>2. AdmittedSurvive /\ [Next]_vars => AdmittedSurvive'
  <2> SUFFICES ASSUME AdmittedSurvive, [Next]_vars PROVE AdmittedSurvive'
      OBVIOUS
  <2> QED BY DEF AdmittedSurvive, Next, vars, run, scope, loop, history, Quiet, Escalate, Screened,
         FastPath, AskQuestions, StartPlanning, Plan, GoalGrants, ShowCard, NothingProposed, StartLoop,
         StepOver, Admit, StepFails, Finish, Approve, Decline, Revise, StopPreview, Guide,
           CloseEscalated, Crash, Clarify, AnswerCard,
         Fetch, Send, Park
<1> QED BY <1>1, <1>2, PTL DEF Spec
=============================================================================
