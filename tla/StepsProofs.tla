----------------------------- MODULE StepsProofs -----------------------------
(***************************************************************************)
(* Proofs about Steps, for every set of actions and every bound: what the  *)
(* owner's replies may correct, and what a run that is done rests on.      *)
(***************************************************************************)
EXTENDS Steps, FiniteSetTheorems, SequenceTheorems, TLAPS

-----------------------------------------------------------------------------
(* The invariant.                                                          *)

States == {"pending", "running", "failed", "done"}

\* A step of the plan.
PlanStep ==
    [want : Wants, state : States, rung : 0..LadderCap, vouched : BOOLEAN, after : SUBSET Nat]

PlanType == plan \in Seq(PlanStep)

PlaceType ==
    /\ status \in {"running", "asked", "escalated", "done", "stopped"}
    /\ at \in {"drive", "loop", "gate", "replan", "guided", "out"}
    /\ closed \in {"no", "gate", "owner"}
    /\ pend \in Action \cup {NoAction} /\ due \subseteq Action /\ world \subseteq Action
    /\ cur \in Nat \ {0}

FlagType == spent \in BOOLEAN /\ resumed \in BOOLEAN /\ pleaded \in BOOLEAN

CountType ==
    /\ replans \in 0..MaxReplans /\ calls \in 0..MaxCalls
    /\ replies \in 0..MaxReplies /\ crashes \in 0..MaxCrashes

\* Every forwarded call was looked at, and a read-back that verified it was
\* right.
Truthful(R) ==
    /\ R \subseteq Record
    /\ \A r \in R : r.phase = "forwarded" =>
         r.seen # "none" /\ (r.seen = "landed" => r.act \in world)

RecordInv == Truthful(ledger) /\ Truthful(effects)

\* A question is about records that were looked at and not verified.
Undecided(R) == R \subseteq Record /\ \A r \in R : r.seen \notin {"landed", "none"}

QuestionInv ==
    /\ ask = [why |-> ask.why, subject |-> ask.subject]
    /\ ask.why \in {"review", "send", "missing"}
    /\ Undecided(ask.subject)

\* The driver works on a step that is marked so, and so does a call that waits
\* for a yes; the card's status outlives its answer, the parked call does not;
\* what the owner closed is done, and nothing is looked at again.
Working == cur \in DOMAIN plan /\ plan[cur].state = "running"

DriveInv ==
    /\ at \in {"loop", "gate", "replan"} => Working
    /\ status = "asked" /\ at = "out" /\ pend # NoAction => Working
    /\ status = "asked" /\ at \notin {"out", "loop"} => pend = NoAction
    /\ status = "asked" /\ at = "loop" /\ ~resumed => pend = NoAction
    /\ at # "out" => status \in {"running", "asked"}
    /\ closed = "owner" => status = "done" /\ due = {}

\* A record of the class of r has a broken read-back, or the owner's word.
Doubtful(r) == \E q \in ledger : (q.seen = "broken" \/ q.owner) /\ LabelOf[q.act] = LabelOf[r.act]

Honest ==
    \A r \in ledger : (r.phase = "failed" /\ r.seen # "none") \/ r.act \in world \/ Doubtful(r)

Asked ==
    \A r \in ledger : r.phase = "forwarded" /\ r.seen = "plain" => r.owner \/ Doubtful(r)

\* What DoneIsHonest and DoubtsAreAsked say of a finished run holds as soon as
\* its plan is complete.
GateInv ==
    /\ Complete => closed = "owner" \/ (Honest /\ Asked)
    /\ status = "done" /\ closed = "gate" => Honest /\ Asked

StepsInv ==
    /\ PlanType /\ PlaceType /\ FlagType /\ CountType
    /\ RecordInv /\ QuestionInv
    /\ DriveInv /\ GateInv /\ EffectsEarned

-----------------------------------------------------------------------------
(* Plans.                                                                  *)

\* A list of steps keeps its type when its steps are changed one by one.
LEMMA ListType ==
    ASSUME NEW p \in Seq(PlanStep), NEW q, q = [i \in DOMAIN p |-> q[i]],
           \A i \in DOMAIN p : q[i] \in PlanStep
    PROVE  q \in Seq(PlanStep) /\ DOMAIN q = DOMAIN p
<1>1. DOMAIN p = 1..Len(p) /\ Len(p) \in Nat
    OBVIOUS
<1>2. q \in [1..Len(p) -> PlanStep]
    BY <1>1
<1> QED BY <1>1, <1>2

LEMMA ChangedStep ==
    ASSUME NEW s \in PlanStep, NEW x \in States
    PROVE  /\ [s EXCEPT !.state = x] \in PlanStep
           /\ \A n \in 0..LadderCap : [s EXCEPT !.state = x, !.rung = n] \in PlanStep
           /\ [s EXCEPT !.state = x, !.vouched = TRUE] \in PlanStep
           /\ [s EXCEPT !.after = {}] \in PlanStep
BY DEF PlanStep

LEMMA SetStateType ==
    ASSUME NEW p \in Seq(PlanStep), NEW i, NEW x \in States
    PROVE  LET q == [p EXCEPT ![i].state = x] IN
           /\ q \in Seq(PlanStep) /\ DOMAIN q = DOMAIN p
           /\ \A j \in DOMAIN p : q[j] = IF j = i THEN [p[j] EXCEPT !.state = x] ELSE p[j]
<1> DEFINE q == [p EXCEPT ![i].state = x]
<1>1. /\ q = [j \in DOMAIN p |-> q[j]]
      /\ \A j \in DOMAIN p : q[j] = IF j = i THEN [p[j] EXCEPT !.state = x] ELSE p[j]
    OBVIOUS
<1>2. \A j \in DOMAIN p : p[j] \in PlanStep
    OBVIOUS
<1>3. \A j \in DOMAIN p : q[j] \in PlanStep
    BY <1>1, <1>2, ChangedStep
<1> HIDE DEF q
<1> QED BY <1>1, <1>3, ListType

LEMMA SetRungType ==
    ASSUME NEW p \in Seq(PlanStep), NEW i \in DOMAIN p, NEW x \in States, NEW n \in 0..LadderCap
    PROVE  LET q == [p EXCEPT ![i].state = x, ![i].rung = n] IN
           /\ q \in Seq(PlanStep) /\ DOMAIN q = DOMAIN p
           /\ \A j \in DOMAIN p :
                q[j] = IF j = i THEN [p[j] EXCEPT !.state = x, !.rung = n] ELSE p[j]
<1> DEFINE q == [p EXCEPT ![i].state = x, ![i].rung = n]
<1>1. /\ q = [j \in DOMAIN p |-> q[j]]
      /\ \A j \in DOMAIN p : q[j] = IF j = i THEN [p[j] EXCEPT !.state = x, !.rung = n] ELSE p[j]
  <2>1. p[i] \in PlanStep
      OBVIOUS
  <2> QED BY <2>1 DEF PlanStep
<1>2. \A j \in DOMAIN p : p[j] \in PlanStep
    OBVIOUS
<1>3. \A j \in DOMAIN p : q[j] \in PlanStep
    BY <1>1, <1>2, ChangedStep
<1> HIDE DEF q
<1>4. q \in Seq(PlanStep) /\ DOMAIN q = DOMAIN p
    BY <1>1, <1>3, ListType
<1> QED BY <1>1, <1>4 DEF q

\* What is kept of the plan: steps that are done.
LEMMA KeptType ==
    ASSUME plan \in Seq(PlanStep), NEW kept \in Kept
    PROVE  /\ kept \in Seq(PlanStep)
           /\ \A i \in DOMAIN kept : \E j \in DOMAIN plan :
                IsDone(plan[j]) /\ kept[i] = [plan[j] EXCEPT !.after = {}]
<1> DEFINE S == {i \in DOMAIN plan : IsDone(plan[i])}
<1>1. DOMAIN plan = 1..Len(plan) /\ Len(plan) \in Nat /\ \A j \in DOMAIN plan : plan[j] \in PlanStep
    OBVIOUS
<1>2. IsFiniteSet(S)
  <2>1. S \subseteq 1..Len(plan) /\ 1 \in Int /\ Len(plan) \in Int
      BY <1>1
  <2> QED BY <2>1, FS_Interval, FS_Subset
<1>3. Cardinality(S) \in Nat
    BY <1>2, FS_CardinalityType
<1>4. PICK order \in [1..Cardinality(S) -> S] :
        kept = [i \in DOMAIN order |-> [plan[order[i]] EXCEPT !.after = {}]]
    BY DEF Kept, Increasing
<1>5. \A i \in 1..Cardinality(S) :
        /\ order[i] \in DOMAIN plan /\ IsDone(plan[order[i]])
        /\ kept[i] = [plan[order[i]] EXCEPT !.after = {}]
    BY <1>4
<1>6. \A i \in 1..Cardinality(S) : kept[i] \in PlanStep
    BY <1>1, <1>5, ChangedStep DEF States
<1>7. kept = [i \in 1..Cardinality(S) |-> kept[i]]
    BY <1>4
<1> HIDE DEF S
<1>8. kept \in [1..Cardinality(S) -> PlanStep] /\ DOMAIN kept = 1..Cardinality(S)
    BY <1>6, <1>7
<1> QED BY <1>3, <1>5, <1>8

\* Whatever the planner proposes is new: at least one step, and none begun.
LEMMA NewStepsType ==
    ASSUME NEW k \in Nat, NEW new \in NewSteps(k)
    PROVE  /\ new \in Seq(PlanStep) /\ Len(new) > 0
           /\ \A i \in DOMAIN new : new[i].state = "pending" /\ ~new[i].vouched
<1> DEFINE Needs(n) == {e \in [1..n -> SUBSET (1..n)] : \A i \in 1..n : e[i] \subseteq 1..(i - 1)}
           Proposal(n, w, d) == [i \in 1..n |-> NewStep(w[i], {k + j : j \in d[i]})]
           Proposals(n) == {Proposal(n, w, d) : w \in [1..n -> Wants], d \in Needs(n)}
<1>0. PICK n \in 1..MaxPlan : new \in Proposals(n)
  <2>1. NewSteps(k) = UNION {Proposals(n) : n \in 1..MaxPlan}
      BY DEF NewSteps
  <2> HIDE DEF Proposals
  <2> QED BY <2>1
<1>1. PICK w \in [1..n -> Wants], d \in [1..n -> SUBSET (1..n)] : new = Proposal(n, w, d)
  <2> HIDE DEF Proposal, Needs
  <2>1. PICK w \in [1..n -> Wants], d \in Needs(n) : new = Proposal(n, w, d)
      BY <1>0
  <2>2. d \in [1..n -> SUBSET (1..n)]
      BY DEF Needs
  <2> QED BY <2>1, <2>2
<1>2. n \in Nat \ {0}
    BY <1>0, StepsAssumption DEF StepsAssumption
<1>3. ASSUME NEW i \in 1..n
      PROVE  /\ new[i] \in PlanStep /\ new[i].state = "pending" /\ ~new[i].vouched
  <2>1. {k + j : j \in d[i]} \in SUBSET Nat
      BY <1>1, <1>2, <1>3
  <2>2. new[i] = NewStep(w[i], {k + j : j \in d[i]}) /\ w[i] \in Wants
      BY <1>1, <1>3
  <2> HIDE DEF NewSteps
  <2> QED BY <2>1, <2>2, StepsAssumption DEF NewStep, PlanStep, States, StepsAssumption
<1>4. new \in [1..n -> PlanStep]
    BY <1>1, <1>3
<1> QED BY <1>2, <1>3, <1>4

\* A revised plan: done steps that are kept, then at least one new step.
LEMMA RevisedType ==
    ASSUME plan \in Seq(PlanStep), NEW q \in Revised
    PROVE  /\ q \in Seq(PlanStep)
           /\ \E i \in DOMAIN q : ~IsDone(q[i])
           /\ \A i \in DOMAIN q :
                \/ q[i].state = "pending"
                \/ \E j \in DOMAIN plan : IsDone(plan[j]) /\ q[i] = [plan[j] EXCEPT !.after = {}]
<1>1. PICK kept \in Kept : \E new \in NewSteps(Len(kept)) : q = kept \o new
    BY DEF Revised
<1>2. kept \in Seq(PlanStep) /\ Len(kept) \in Nat
    BY <1>1, KeptType
<1>3. PICK new \in NewSteps(Len(kept)) : q = kept \o new
    BY <1>1
<1>4. /\ new \in Seq(PlanStep) /\ Len(new) > 0
      /\ \A i \in DOMAIN new : new[i].state = "pending" /\ ~new[i].vouched
    BY <1>2, <1>3, NewStepsType
<1>5. /\ q \in Seq(PlanStep) /\ Len(q) = Len(kept) + Len(new)
      /\ \A i \in 1..Len(q) : q[i] = IF i <= Len(kept) THEN kept[i] ELSE new[i - Len(kept)]
    BY <1>2, <1>3, <1>4, ConcatProperties
<1>6. /\ DOMAIN q = 1..Len(q) /\ DOMAIN new = 1..Len(new) /\ DOMAIN kept = 1..Len(kept)
      /\ Len(new) \in Nat /\ Len(q) \in Nat
    BY <1>2, <1>4, <1>5
<1>7. Len(q) \in DOMAIN q /\ q[Len(q)].state = "pending"
  <2>1. Len(q) - Len(kept) = Len(new) /\ Len(new) \in DOMAIN new /\ Len(q) \in 1..Len(q)
        /\ ~(Len(q) <= Len(kept))
      BY <1>2, <1>4, <1>5, <1>6
  <2> QED BY <1>4, <1>5, <1>6, <2>1
<1>8. ASSUME NEW i \in DOMAIN q
      PROVE  \/ q[i].state = "pending"
             \/ \E j \in DOMAIN plan : IsDone(plan[j]) /\ q[i] = [plan[j] EXCEPT !.after = {}]
  <2>1. CASE i <= Len(kept)
    <3>1. i \in DOMAIN kept /\ q[i] = kept[i]
        BY <1>2, <1>5, <1>6, <1>8, <2>1
    <3> QED BY <1>1, <3>1, KeptType
  <2>2. CASE ~(i <= Len(kept))
    <3>1. i - Len(kept) \in DOMAIN new /\ q[i] = new[i - Len(kept)]
        BY <1>2, <1>5, <1>6, <1>8, <2>2
    <3> QED BY <1>4, <3>1
  <2> QED BY <2>1, <2>2
<1> QED BY <1>5, <1>7, <1>8 DEF IsDone

-----------------------------------------------------------------------------
(* Records and questions.                                                  *)

\* The records a read-back has verified.
Landeds == {r \in Forwarded(ledger) : r.seen = "landed"}

\* What every step must leave of them.
RecordsKept == RecordInv' /\ QuestionInv' /\ Landeds \subseteq ledger'

\* What took effect stays so.
LEMMA StillTruthful ==
    ASSUME NEW R, Truthful(R), world \subseteq world'
    PROVE  Truthful(R)'
BY DEF Truthful

\* A record the owner has corrected is a record, and its read-back saw what it
\* saw.
LEMMA CorrectedRecords ==
    ASSUME NEW R, Undecided(R)
    PROVE  /\ Failed(R) \subseteq Record /\ Undecided(Failed(R))
           /\ \A r \in R : /\ [r EXCEPT !.phase = "failed"] \in Failed(R)
                           /\ [r EXCEPT !.phase = "failed"].seen = r.seen
           /\ \A r \in Failed(R) : r.phase = "failed"
           /\ \A r \in R : [r EXCEPT !.owner = TRUE] \in Record
<1>1. ASSUME NEW r \in R
      PROVE  /\ [r EXCEPT !.phase = "failed"] \in Record
             /\ [r EXCEPT !.phase = "failed"].seen = r.seen
             /\ [r EXCEPT !.phase = "failed"].phase = "failed"
             /\ [r EXCEPT !.owner = TRUE] \in Record
             /\ r.seen \notin {"landed", "none"}
    <2>1. r \in Record /\ r.seen \notin {"landed", "none"}
        BY DEF Undecided
    <2> QED BY <2>1 DEF Record
<1> QED BY <1>1 DEF Failed, Undecided

\* The records a reply is about are of the ledger, and undecided.
LEMMA SubjectIsOpen ==
    ASSUME RecordInv, QuestionInv
    PROVE  Subject \subseteq ledger /\ Undecided(Subject)
BY DEF RecordInv, QuestionInv, Truthful, Undecided, Subject, Plain, Forwarded

\* The question is a new one or the old one.
QuestionKept ==
    \/ ask' = ask
    \/ ask' = Review
    \/ ask' = [why |-> "send", subject |-> Plain(ledger)]
    \/ \E a : ask' = [why |-> "missing", subject |-> Doubted(a)]

LEMMA QuestionStep ==
    ASSUME RecordInv, QuestionInv, QuestionKept
    PROVE  QuestionInv'
<1>1. /\ Undecided(Plain(ledger)) /\ Undecided({})
      /\ \A a : Undecided(Doubted(a))
    BY DEF RecordInv, Truthful, Undecided, Plain, Doubted, Forwarded
<1>2. Undecided(ask'.subject) => Undecided(ask.subject)'
    BY DEF Undecided
<1>3. CASE ask' = ask
    BY <1>2, <1>3 DEF QuestionInv
<1>4. CASE ask' # ask
    <2>1. PICK why, S : /\ why \in {"review", "send", "missing"}
                        /\ ask' = [why |-> why, subject |-> S] /\ Undecided(S)
        BY <1>1, <1>4 DEF QuestionKept, Review
    <2>2. ask'.why = why /\ ask'.subject = S
        BY <2>1
    <2> QED BY <1>2, <2>1, <2>2 DEF QuestionInv
<1> QED BY <1>3, <1>4

\* The ledger grows at most by the records of the loop, which grow at most by
\* a truthful one.
LEMMA Grows ==
    ASSUME RecordInv, QuestionInv, QuestionKept, world \subseteq world',
           ledger' = ledger \/ ledger' = ledger \cup effects,
           effects' = {} \/ effects' = effects
    PROVE  RecordsKept
<1>1. Truthful(ledger)'
    BY DEF RecordInv, Truthful
<1>2. Truthful(effects)'
    BY DEF RecordInv, Truthful
<1>3. Landeds \subseteq ledger'
    BY DEF Landeds, Forwarded
<1> QED BY <1>1, <1>2, <1>3, QuestionStep DEF RecordsKept, RecordInv

\* A call of the executor adds its record to the loop.
LEMMA NoteKeeps ==
    ASSUME RecordInv, QuestionInv, NEW r \in Record, Note(r), world \subseteq world',
           r.phase = "forwarded" => r.seen # "none" /\ (r.seen = "landed" => r.act \in world')
    PROVE  RecordsKept
<1>1. ledger' = ledger /\ ask' = ask /\ effects' = effects \cup {r}
    BY DEF Note
<1>2. Truthful(ledger)' /\ Truthful(effects)'
    BY <1>1 DEF RecordInv, Truthful
<1>3. Landeds \subseteq ledger' /\ QuestionInv'
    BY <1>1, QuestionStep DEF Landeds, Forwarded, QuestionKept
<1> QED BY <1>2, <1>3 DEF RecordsKept, RecordInv

LEMMA EffectIsRecord ==
    ASSUME NEW a \in Action, NEW phase \in {"forwarded", "failed", "refused"},
           NEW seen \in Seen \cup {"none"}, NEW i \in Nat
    PROVE  /\ Effect(a, phase, seen, i) \in Record /\ Replay(a, seen, i) \in Record
           /\ Effect(a, phase, seen, i).phase = phase /\ Effect(a, phase, seen, i).seen = seen
           /\ Effect(a, phase, seen, i).act = a
           /\ Replay(a, seen, i).seen = seen /\ Replay(a, seen, i).act = a
BY DEF Effect, Replay, Record

LEMMA CallAddsRecord ==
    ASSUME RecordInv, QuestionInv, PlaceType, NEW a \in Action, Call(a)
    PROVE  RecordsKept
<1>1. cur \in Nat /\ world \subseteq Action
    BY DEF PlaceType
<1>2. CASE Refuse(a)
    <2>1. Note(Effect(a, "refused", "none", cur)) /\ world' = world
        BY <1>2 DEF Refuse
    <2> QED BY <1>1, <2>1, EffectIsRecord, NoteKeeps
<1>3. CASE Repeat(a)
    <2>1. CASE Sighted(a)
        <3>1. Note(Replay(a, "landed", cur)) /\ world' = world
            BY <1>3, <2>1 DEF Repeat
        <3>2. a \in world
            BY <2>1 DEF Sighted, RecordInv, Truthful, Forwarded
        <3>3. "landed" \in Seen
            BY DEF Seen
        <3> QED BY <1>1, <3>1, <3>2, <3>3, EffectIsRecord, NoteKeeps
    <2>2. CASE ~Sighted(a)
        <3>1. Note(Replay(a, "plain", cur)) /\ world' = world
            BY <1>3, <2>2 DEF Repeat
        <3>2. "plain" \in Seen
            BY DEF Seen
        <3> QED BY <1>1, <3>1, <3>2, EffectIsRecord, NoteKeeps
    <2> QED BY <2>1, <2>2
<1>4. CASE Forward(a)
    <2>1. PICK seen \in Seen, happens \in BOOLEAN :
            /\ seen = "landed" => happens
            /\ Note(Effect(a, "forwarded", seen, cur))
            /\ world' = IF happens THEN world \cup {a} ELSE world
        BY <1>4 DEF Forward
    <2>2. seen # "none" /\ (seen = "landed" => a \in world') /\ world \subseteq world'
        BY <2>1 DEF Seen
    <2> QED BY <1>1, <2>1, <2>2, EffectIsRecord, NoteKeeps
<1>5. CASE CallFails(a)
    <2>1. Note(Effect(a, "failed", "none", cur)) /\ world \subseteq world'
        BY <1>5 DEF CallFails
    <2> QED BY <1>1, <2>1, EffectIsRecord, NoteKeeps
<1> QED BY <1>2, <1>3, <1>4, <1>5 DEF Call

-----------------------------------------------------------------------------
(* What a reply of the owner may do to the ledger.                         *)

\* m is what a reply has made of the record l: the same act and the same
\* read-back, never less attested, and failed only if it was looked at.
Corrected(l, m) ==
    /\ m.act = l.act /\ m.seen = l.seen /\ (l.owner => m.owner)
    /\ m.phase = l.phase \/ (m.phase = "failed" /\ m.seen # "none")

Corrects ==
    /\ \A l \in ledger : \E m \in ledger' : Corrected(l, m)
    /\ \A m \in ledger' : \E l \in ledger : Corrected(l, m)

\* The subject is replaced by corrected records.
LEMMA SubjectCorrected ==
    ASSUME RecordInv, QuestionInv, NEW R, R \subseteq Record,
           \A l \in Subject : \E m \in R : Corrected(l, m),
           \A m \in R : \E l \in Subject : Corrected(l, m),
           ledger' = (ledger \ Subject) \cup R,
           effects' = effects, world' = world, QuestionInv'
    PROVE  Corrects /\ RecordsKept
<1>1. Subject \subseteq ledger /\ Undecided(Subject)
    BY SubjectIsOpen
<1>2. \A l \in ledger : Corrected(l, l)
    BY DEF Corrected
<1>3. Corrects
    BY <1>1, <1>2 DEF Corrects
<1>4. \A m \in R : m \in Record /\ m.seen \notin {"landed", "none"}
    BY <1>1 DEF Corrected, Undecided
<1>5. Truthful(ledger)' /\ Truthful(effects)'
    BY <1>4 DEF RecordInv, Truthful
<1>6. Landeds \subseteq ledger'
    BY <1>1 DEF Landeds, Forwarded, Undecided
<1> QED BY <1>3, <1>5, <1>6 DEF RecordsKept, RecordInv

LEMMA ConfirmCorrects ==
    ASSUME RecordInv, QuestionInv, OwnerConfirms
    PROVE  Corrects /\ RecordsKept
<1> DEFINE R == {[r EXCEPT !.owner = TRUE] : r \in Subject}
<1>1. Undecided(Subject)
    BY SubjectIsOpen
<1>2. ASSUME NEW l \in Subject
      PROVE  [l EXCEPT !.owner = TRUE] \in Record /\ Corrected(l, [l EXCEPT !.owner = TRUE])
    <2>1. l \in Record
        BY <1>1 DEF Undecided
    <2> QED BY <2>1 DEF Record, Corrected
<1>3. /\ ledger' = (ledger \ Subject) \cup R /\ effects' = effects /\ world' = world
      /\ ask' = Review
    BY DEF OwnerConfirms, Close
<1>4. QuestionInv'
    BY <1>3, QuestionStep DEF QuestionKept
<1>5. /\ R \subseteq Record
      /\ \A l \in Subject : \E m \in R : Corrected(l, m)
      /\ \A m \in R : \E l \in Subject : Corrected(l, m)
    BY <1>2
<1> HIDE DEF R
<1> QED BY <1>3, <1>4, <1>5, SubjectCorrected

\* A question stays open about undecided records.
LEMMA ReopenIsQuestion ==
    ASSUME RecordInv, QuestionInv, NEW R, Undecided(R), Reopen(R)
    PROVE  QuestionInv'
<1>1. CASE ask' = Review
    BY <1>1, QuestionStep DEF QuestionKept
<1>2. CASE ask' = [ask EXCEPT !.subject = R]
    <2>1. ask' = [why |-> ask.why, subject |-> R]
        BY <1>2 DEF QuestionInv
    <2>2. ask'.why = ask.why /\ ask'.subject = R
        BY <2>1
    <2> QED BY <2>1, <2>2 DEF QuestionInv, Undecided
<1> QED BY <1>1, <1>2 DEF Reopen

LEMMA DenialCorrects ==
    ASSUME RecordInv, QuestionInv, OwnerDenies
    PROVE  Corrects /\ RecordsKept
<1>1. Undecided(Subject) /\ Undecided(ask.subject)
    BY SubjectIsOpen DEF QuestionInv
<1>2. ASSUME NEW l \in Subject
      PROVE  Corrected(l, [l EXCEPT !.phase = "failed"])
    <2>1. l \in Record /\ l.seen # "none"
        BY <1>1 DEF Undecided
    <2> QED BY <2>1 DEF Record, Corrected
<1>3. /\ ledger' = (ledger \ Subject) \cup Failed(Subject)
      /\ effects' = effects /\ world' = world /\ Reopen(Failed(ask.subject))
    BY DEF OwnerDenies, history
<1>4. Failed(Subject) \subseteq Record /\ Undecided(Failed(ask.subject))
    BY <1>1, CorrectedRecords
<1>5. QuestionInv'
    BY <1>3, <1>4, ReopenIsQuestion
<1>6. /\ \A l \in Subject : \E m \in Failed(Subject) : Corrected(l, m)
      /\ \A m \in Failed(Subject) : \E l \in Subject : Corrected(l, m)
    BY <1>2 DEF Failed
<1> QED BY <1>3, <1>4, <1>5, <1>6, SubjectCorrected

LEMMA OwnerRecords ==
    ASSUME RecordInv, QuestionInv, Owner
    PROVE  RecordsKept
<1>1. CASE OwnerYes \/ OwnerDeclines \/ OwnerStops
    BY <1>1, Grows DEF OwnerYes, OwnerDeclines, OwnerStops, Escalate, Close, QuestionKept, history
<1>2. CASE OwnerConfirms \/ OwnerDenies
    BY <1>2, ConfirmCorrects, DenialCorrects
<1>3. CASE OwnerGuides
    <2>1. QuestionInv'
        BY <1>3, ReopenIsQuestion DEF OwnerGuides, QuestionInv
    <2>2. ledger' = ledger /\ effects' = effects /\ world' = world
        BY <1>3 DEF OwnerGuides, history
    <2>3. Truthful(ledger)' /\ Truthful(effects)'
        BY <2>2 DEF RecordInv, Truthful
    <2> QED BY <2>1, <2>2, <2>3 DEF RecordsKept, RecordInv, Landeds, Forwarded
<1> QED BY <1>1, <1>2, <1>3 DEF Owner

LEMMA RecordStep ==
    ASSUME RecordInv, QuestionInv, PlaceType, [Next]_vars
    PROVE  RecordsKept
<1> USE DEF QuestionKept
<1>1. CASE StartStep \/ Finalize \/ NothingReady \/ Guided \/ Plead \/ CloseGuided
    BY <1>1, Grows
       DEF StartStep, Finalize, NothingReady, Guided, Plead, CloseGuided, Close, stored, history
<1>2. CASE Exhausted \/ GiveUp \/ ClaimDone \/ (\E a \in Action : Park(a))
    BY <1>2, Grows DEF Exhausted, GiveUp, ClaimDone, Park, Settle, Escalate, history
<1>3. CASE Accept \/ AskOwner \/ FailResumed \/ LadderEnds
    BY <1>3, Grows DEF Accept, AskOwner, FailResumed, LadderEnds, Escalate, history
<1>4. CASE Climb \/ StartReplan \/ Rearchitect
    BY <1>4, Grows DEF Climb, StartReplan, Rearchitect, Escalate, history
<1>5. CASE Timer
    BY <1>5, Grows DEF Timer, Recheck, RecheckMisses, Escalate, memory, history
<1>6. CASE Spend \/ Crash
    BY <1>6, Grows DEF Spend, Crash, memory, history
<1>7. CASE UNCHANGED vars
    BY <1>7, Grows DEF vars, stored, memory, history
<1> QED BY <1>1, <1>2, <1>3, <1>4, <1>5, <1>6, <1>7, CallAddsRecord, OwnerRecords DEF Next, Drive

-----------------------------------------------------------------------------
(* What a step does to the plan.                                           *)

\* Every step of the new plan that is done, and not on the owner's word alone,
\* was done before.
Backed ==
    \A i \in DOMAIN plan' :
        IsDone(plan'[i]) /\ ~plan'[i].vouched =>
            \E j \in DOMAIN plan :
                IsDone(plan[j]) /\ ~plan[j].vouched /\ plan[j].want = plan'[i].want

\* The plan is a plan, and not complete unless it was.
PlanKept == PlanType' /\ Backed /\ (Complete' => Complete)

LEMMA SamePlan ==
    ASSUME PlanType, plan' = plan
    PROVE  PlanKept
BY DEF PlanKept, PlanType, Backed, Complete

\* A step is begun or has failed.
LEMMA SetStateKeeps ==
    ASSUME PlanType, NEW i \in DOMAIN plan, NEW x \in {"running", "failed"},
           plan' = SetState(i, x)
    PROVE  PlanKept /\ ~Complete' /\ DOMAIN plan' = DOMAIN plan /\ plan'[i].state = x
<1>1. x \in States /\ plan \in Seq(PlanStep) /\ plan' = [plan EXCEPT ![i].state = x]
    BY DEF States, PlanType, SetState
<1>2. /\ plan' \in Seq(PlanStep) /\ DOMAIN plan' = DOMAIN plan
      /\ \A j \in DOMAIN plan :
            plan'[j] = IF j = i THEN [plan[j] EXCEPT !.state = x] ELSE plan[j]
    BY <1>1, SetStateType
<1>3. \A j \in DOMAIN plan : plan[j] \in PlanStep
    BY <1>1
<1>4. plan'[i].state = x
    BY <1>2, <1>3 DEF PlanStep
<1>5. ASSUME NEW j \in DOMAIN plan, plan'[j].state = "done"
      PROVE  plan'[j] = plan[j]
    BY <1>2, <1>4, <1>5
<1> QED BY <1>2, <1>4, <1>5 DEF PlanKept, PlanType, Backed, Complete, IsDone

\* The next rung begins.
LEMMA ClimbKeeps ==
    ASSUME PlanType, Working, Climb
    PROVE  PlanKept /\ ~Complete' /\ Working'
<1>1. /\ plan \in Seq(PlanStep) /\ cur \in DOMAIN plan /\ cur' = cur
      /\ plan' = [plan EXCEPT ![cur].state = "running", ![cur].rung = NextRung(@)]
    BY DEF PlanType, Working, Climb
<1>2. \A j \in DOMAIN plan : plan[j] \in PlanStep
    BY <1>1
<1>3. PICK n \in 0..LadderCap : n = NextRung(plan[cur].rung)
    BY <1>1, <1>2, StepsAssumption
       DEF Climb, CanClimb, NextRung, PlanStep, StepsAssumption
<1>4. plan' = [plan EXCEPT ![cur].state = "running", ![cur].rung = n]
    BY <1>1, <1>2, <1>3 DEF PlanStep
<1>5. /\ plan' = [j \in DOMAIN plan |-> plan'[j]]
      /\ \A j \in DOMAIN plan :
            plan'[j] = IF j = cur THEN [plan[j] EXCEPT !.state = "running", !.rung = n]
                                  ELSE plan[j]
    BY <1>1, <1>2, <1>4 DEF PlanStep
<1>6. \A j \in DOMAIN plan : plan'[j] \in PlanStep
  <2>1. [plan[cur] EXCEPT !.state = "running", !.rung = n] \in PlanStep
      BY <1>1, <1>2, <1>3, ChangedStep DEF States
  <2> QED BY <1>2, <1>5, <2>1
<1>7. plan' \in Seq(PlanStep) /\ DOMAIN plan' = DOMAIN plan
  <2>1. plan' = [j \in DOMAIN plan |-> plan'[j]] /\ plan \in Seq(PlanStep)
      BY <1>1, <1>5
  <2> QED BY <1>6, <2>1, ListType
<1>8. plan'[cur].state = "running"
    BY <1>1, <1>2, <1>5 DEF PlanStep
<1>9. ASSUME NEW j \in DOMAIN plan, plan'[j].state = "done"
      PROVE  plan'[j] = plan[j]
    BY <1>5, <1>8, <1>9
<1> QED BY <1>1, <1>7, <1>8, <1>9 DEF PlanKept, PlanType, Backed, Complete, IsDone, Working

\* The step is accepted.
LEMMA AcceptPlan ==
    ASSUME PlanType, Working, Accept
    PROVE  /\ PlanType' /\ DOMAIN plan' = DOMAIN plan
           /\ \A j \in DOMAIN plan : j # cur => plan'[j] = plan[j]
           /\ plan'[cur].want = plan[cur].want
<1>1. /\ plan \in Seq(PlanStep) /\ cur \in DOMAIN plan
      /\ plan' = [plan EXCEPT ![cur].state = "done", ![cur].rung = 0]
    BY DEF PlanType, Working, Accept
<1>2. 0 \in 0..LadderCap /\ plan[cur] \in PlanStep
    BY <1>1, StepsAssumption DEF StepsAssumption
<1>3. /\ plan' \in Seq(PlanStep) /\ DOMAIN plan' = DOMAIN plan
      /\ \A j \in DOMAIN plan :
            plan'[j] = IF j = cur THEN [plan[j] EXCEPT !.state = "done", !.rung = 0]
                                  ELSE plan[j]
    BY <1>1, <1>2, SetRungType DEF States
<1>4. plan'[cur].want = plan[cur].want
    BY <1>1, <1>2, <1>3 DEF PlanStep
<1> QED BY <1>3, <1>4 DEF PlanType

\* Recovery puts running steps back.
Unparked ==
    plan' = [i \in DOMAIN plan |->
               IF plan[i].state = "running" THEN [plan[i] EXCEPT !.state = "pending"]
                                            ELSE plan[i]]

LEMMA UnparkKeeps ==
    ASSUME PlanType, Unparked
    PROVE  PlanKept
<1>1. /\ plan \in Seq(PlanStep) /\ plan' = [i \in DOMAIN plan |-> plan'[i]]
      /\ \A i \in DOMAIN plan : plan'[i] = IF plan[i].state = "running"
                                           THEN [plan[i] EXCEPT !.state = "pending"] ELSE plan[i]
    BY DEF PlanType, Unparked
<1>2. \A i \in DOMAIN plan : plan[i] \in PlanStep
    BY <1>1
<1>3. \A i \in DOMAIN plan : plan'[i] \in PlanStep
    BY <1>1, <1>2, ChangedStep DEF States
<1>4. plan' \in Seq(PlanStep) /\ DOMAIN plan' = DOMAIN plan
    BY <1>1, <1>3, ListType
<1>5. ASSUME NEW i \in DOMAIN plan, plan'[i].state = "done"
      PROVE  plan'[i] = plan[i]
    BY <1>1, <1>2, <1>5 DEF PlanStep
<1> QED BY <1>4, <1>5 DEF PlanKept, PlanType, Backed, Complete, IsDone

\* The owner vouches for the steps that failed.
LEMMA ConfirmPlan ==
    ASSUME PlanType, OwnerConfirms
    PROVE  PlanType' /\ Backed
<1>1. /\ plan \in Seq(PlanStep) /\ plan' = [i \in DOMAIN plan |-> plan'[i]]
      /\ \A i \in DOMAIN plan : plan'[i] = IF plan[i].state = "failed"
              THEN [plan[i] EXCEPT !.state = "done", !.vouched = TRUE] ELSE plan[i]
    BY DEF PlanType, OwnerConfirms
<1>2. \A i \in DOMAIN plan : plan[i] \in PlanStep
    BY DEF PlanType
<1>3. \A i \in DOMAIN plan : plan'[i] \in PlanStep
    BY <1>1, <1>2, ChangedStep DEF States
<1>4. plan' \in Seq(PlanStep) /\ DOMAIN plan' = DOMAIN plan
    BY <1>1, <1>3, ListType
<1>5. ASSUME NEW i \in DOMAIN plan, ~plan'[i].vouched
      PROVE  plan'[i] = plan[i]
    BY <1>1, <1>2, <1>5 DEF PlanStep
<1> QED BY <1>4, <1>5 DEF PlanType, Backed

\* The planner keeps what is done and adds what is not.
LEMMA RevisedKeeps ==
    ASSUME PlanType, plan' \in Revised
    PROVE  PlanKept /\ ~Complete'
<1>1. /\ plan \in Seq(PlanStep) /\ plan' \in Seq(PlanStep)
      /\ \E i \in DOMAIN plan' : ~IsDone(plan'[i])
      /\ \A i \in DOMAIN plan' :
           \/ plan'[i].state = "pending"
           \/ \E j \in DOMAIN plan : IsDone(plan[j]) /\ plan'[i] = [plan[j] EXCEPT !.after = {}]
    BY RevisedType DEF PlanType
<1>2. ASSUME NEW i \in DOMAIN plan', IsDone(plan'[i])
      PROVE  \E j \in DOMAIN plan : /\ IsDone(plan[j]) /\ plan[j].vouched = plan'[i].vouched
                                    /\ plan[j].want = plan'[i].want
    <2>1. PICK j \in DOMAIN plan : IsDone(plan[j]) /\ plan'[i] = [plan[j] EXCEPT !.after = {}]
        BY <1>1, <1>2 DEF IsDone
    <2>2. plan[j] \in PlanStep
        BY <1>1
    <2> QED BY <2>1, <2>2 DEF PlanStep
<1> QED BY <1>1, <1>2 DEF PlanKept, PlanType, Backed, Complete

\* The steps that leave a plan that is not complete.
Opens ==
    \/ StartStep \/ GiveUp \/ AskOwner \/ FailResumed \/ Climb \/ LadderEnds \/ Rearchitect
    \/ Guided

LEMMA OpensPlan ==
    ASSUME PlanType, DriveInv, Opens
    PROVE  PlanKept /\ ~Complete'
<1>1. at \in {"loop", "gate", "replan"} => Working
    BY DEF DriveInv
<1>2. CASE StartStep
    <2>1. cur' \in DOMAIN plan /\ plan' = SetState(cur', "running")
        BY <1>2 DEF StartStep, Ready
    <2> QED BY <2>1, SetStateKeeps
<1>3. CASE GiveUp \/ AskOwner \/ FailResumed \/ LadderEnds
    <2>1. cur \in DOMAIN plan /\ plan' = SetState(cur, "failed")
        BY <1>1, <1>3 DEF GiveUp, Settle, AskOwner, FailResumed, LadderEnds, Refused, Working
    <2> QED BY <2>1, SetStateKeeps
<1>4. CASE Climb
    BY <1>1, <1>4, ClimbKeeps DEF Climb, Refused
<1>5. CASE Rearchitect
    <2>1. CASE plan' \in Revised
        BY <2>1, RevisedKeeps
    <2>2. CASE plan' = SetState(cur, "failed")
        <3>1. cur \in DOMAIN plan
            BY <1>1, <1>5 DEF Rearchitect, Working
        <3> QED BY <2>2, <3>1, SetStateKeeps
    <2> QED BY <1>5, <2>1, <2>2 DEF Rearchitect
<1>6. CASE Guided
    BY <1>6, RevisedKeeps DEF Guided
<1> QED BY <1>2, <1>3, <1>4, <1>5, <1>6 DEF Opens

\* The steps that leave the plan, or put running steps back.
Leaves ==
    \/ Finalize \/ NothingReady \/ Exhausted \/ ClaimDone \/ StartReplan \/ Plead \/ CloseGuided
    \/ (\E a \in Action : Call(a) \/ Park(a))
    \/ OwnerYes \/ OwnerDeclines \/ OwnerStops \/ OwnerDenies \/ OwnerGuides
    \/ Timer \/ Spend \/ Crash \/ UNCHANGED vars

LEMMA LeavesPlan ==
    ASSUME Leaves
    PROVE  plan' = plan \/ Unparked
<1>1. CASE Finalize \/ NothingReady \/ Exhausted \/ ClaimDone \/ StartReplan \/ Plead
           \/ CloseGuided \/ UNCHANGED vars
    BY <1>1 DEF Finalize, NothingReady, Exhausted, ClaimDone, StartReplan, Plead, CloseGuided,
                vars, stored
<1>2. CASE \E a \in Action : Call(a) \/ Park(a)
    BY <1>2 DEF Call, Refuse, Repeat, Forward, CallFails, Note, Park
<1>3. CASE OwnerYes \/ Crash
    BY <1>3 DEF OwnerYes, Crash, Unparked
<1>4. CASE OwnerDeclines \/ OwnerStops \/ OwnerDenies \/ OwnerGuides \/ Timer \/ Spend
    BY <1>4 DEF OwnerDeclines, OwnerStops, OwnerDenies, OwnerGuides, Timer, Recheck,
                RecheckMisses, Spend
<1> QED BY <1>1, <1>2, <1>3, <1>4 DEF Leaves

LEMMA Kinds ==
    ASSUME [Next]_vars
    PROVE  Leaves \/ Opens \/ Accept \/ OwnerConfirms
BY DEF Next, Drive, Owner, Leaves, Opens

LEMMA PlanMove ==
    ASSUME PlanType, DriveInv, Leaves \/ Opens
    PROVE  PlanKept
BY LeavesPlan, OpensPlan, SamePlan, UnparkKeeps

LEMMA PlanTypeStep ==
    ASSUME PlanType, DriveInv, [Next]_vars
    PROVE  PlanType'
<1>1. Accept => Working
    BY DEF Accept, DriveInv
<1> QED BY <1>1, Kinds, PlanMove, AcceptPlan, ConfirmPlan DEF PlanKept

-----------------------------------------------------------------------------
(* Where the driver is, and the run's other state.                         *)

\* A call is made in the loop, and leaves the driver there.
LEMMA CallStays ==
    ASSUME NEW a \in Action, Call(a)
    PROVE  /\ at = "loop" /\ calls < MaxCalls
           /\ calls' = calls + 1 /\ pend' = NoAction
           /\ world' = world \/ world' = world \cup {a}
           /\ UNCHANGED <<status, plan, ledger, replans, ask, due, spent, at, cur, resumed,
                          pleaded, replies, crashes, closed>>
BY DEF Call, Refuse, Repeat, Forward, CallFails, Note, Calling

LEMMA PlaceStep ==
    ASSUME PlaceType, PlanType, RecordInv, [Next]_vars
    PROVE  PlaceType'
<1> USE DEF PlaceType
<1>1. CASE StartStep
  <2>1. cur' \in DOMAIN plan /\ DOMAIN plan \subseteq Nat \ {0}
      BY <1>1 DEF StartStep, Ready, PlanType
  <2> QED BY <1>1, <2>1 DEF StartStep, history
<1>2. CASE Finalize \/ NothingReady \/ Guided \/ Plead \/ CloseGuided
    BY <1>2 DEF Finalize, NothingReady, Guided, Plead, CloseGuided, Close, stored, history
<1>3. CASE Exhausted \/ GiveUp \/ ClaimDone \/ (\E a \in Action : Park(a))
    BY <1>3 DEF Exhausted, GiveUp, ClaimDone, Park, Escalate, history
<1>4. CASE Accept
  <2>1. {r.act : r \in BrokenChecks(effects)} \subseteq Action
      BY DEF RecordInv, Truthful, BrokenChecks, Forwarded, Record
  <2> QED BY <1>4, <2>1 DEF Accept, history
<1>5. CASE AskOwner \/ FailResumed \/ LadderEnds \/ Climb \/ StartReplan \/ Rearchitect
    BY <1>5 DEF AskOwner, FailResumed, LadderEnds, Climb, StartReplan, Rearchitect, Escalate,
                history
<1>6. CASE \E a \in Action : Call(a)
  <2>1. PICK a \in Action : Call(a)
      BY <1>6
  <2> QED BY <2>1, CallStays
<1>7. CASE Owner
    BY <1>7 DEF Owner, OwnerYes, OwnerDeclines, OwnerStops, OwnerConfirms, OwnerDenies, OwnerGuides,
                Escalate, Close, Reopen, history
<1>8. CASE Timer \/ Spend \/ Crash \/ UNCHANGED vars
    BY <1>8 DEF Timer, Recheck, RecheckMisses, Spend, Crash, Escalate, vars, stored, memory, history
<1> QED BY <1>1, <1>2, <1>3, <1>4, <1>5, <1>6, <1>7, <1>8 DEF Next, Drive

LEMMA FlagStep ==
    ASSUME FlagType, [Next]_vars
    PROVE  FlagType'
<1> USE DEF FlagType
<1>1. CASE StartStep \/ Finalize \/ NothingReady \/ Guided \/ Plead \/ CloseGuided
    BY <1>1 DEF StartStep, Finalize, NothingReady, Guided, Plead, CloseGuided, Close, stored
<1>2. CASE Exhausted \/ GiveUp \/ ClaimDone \/ Accept \/ AskOwner \/ (\E a \in Action : Park(a))
    BY <1>2 DEF Exhausted, GiveUp, ClaimDone, Accept, AskOwner, Park, Escalate
<1>3. CASE FailResumed \/ LadderEnds \/ Climb \/ StartReplan \/ Rearchitect
    BY <1>3 DEF FailResumed, LadderEnds, Climb, StartReplan, Rearchitect, Escalate
<1>4. CASE \E a \in Action : Call(a)
    BY <1>4, CallStays
<1>5. CASE Owner
    BY <1>5 DEF Owner, OwnerYes, OwnerDeclines, OwnerStops, OwnerConfirms, OwnerDenies, OwnerGuides,
                Escalate, Close
<1>6. CASE Timer \/ Spend \/ Crash \/ UNCHANGED vars
    BY <1>6 DEF Timer, Recheck, RecheckMisses, Spend, Crash, Escalate, vars, stored, memory
<1> QED BY <1>1, <1>2, <1>3, <1>4, <1>5, <1>6 DEF Next, Drive

LEMMA CountStep ==
    ASSUME CountType, [Next]_vars
    PROVE  CountType'
<1> USE StepsAssumption DEF CountType, StepsAssumption
<1>1. CASE StartStep \/ Finalize \/ NothingReady \/ Guided \/ Plead \/ CloseGuided
    BY <1>1 DEF StartStep, Finalize, NothingReady, Guided, Plead, CloseGuided, stored, bounds
<1>2. CASE Exhausted \/ GiveUp \/ ClaimDone \/ Accept \/ AskOwner \/ (\E a \in Action : Park(a))
    BY <1>2 DEF Exhausted, GiveUp, ClaimDone, Accept, AskOwner, Park, bounds
<1>3. CASE FailResumed \/ LadderEnds \/ Climb \/ StartReplan \/ Rearchitect
    BY <1>3 DEF FailResumed, LadderEnds, Climb, StartReplan, CanReplan, Rearchitect, bounds
<1>4. CASE \E a \in Action : Call(a)
  <2>1. /\ calls < MaxCalls /\ calls' = calls + 1
        /\ replans' = replans /\ replies' = replies /\ crashes' = crashes
      BY <1>4, CallStays
  <2> QED BY <2>1
<1>5. CASE Owner
  <2>1. /\ replies < MaxReplies /\ replies' = replies + 1
        /\ replans' = replans /\ calls' = calls /\ crashes' = crashes
      BY <1>5 DEF Owner, OwnerYes, OwnerDeclines, OwnerStops, OwnerConfirms, OwnerDenies,
                  OwnerGuides, Reply
  <2> QED BY <2>1
<1>6. CASE Timer \/ Spend \/ Crash \/ UNCHANGED vars
  <2>1. /\ replies' = replies /\ replans' = replans /\ calls' = calls
        /\ crashes' = crashes \/ (crashes < MaxCrashes /\ crashes' = crashes + 1)
      BY <1>6 DEF Timer, Recheck, RecheckMisses, Spend, Crash, vars, stored, bounds
  <2> QED BY <2>1
<1> QED BY <1>1, <1>2, <1>3, <1>4, <1>5, <1>6 DEF Next, Drive

\* The step the driver works on stays under way.
LEMMA StillWorking ==
    ASSUME Working, plan' = plan, cur' = cur
    PROVE  Working'
BY DEF Working

LEMMA DriveInvStep ==
    ASSUME PlanType, PlaceType, DriveInv, [Next]_vars
    PROVE  DriveInv'
<1> USE DEF DriveInv
<1>1. CASE StartStep
  <2>1. Working'
    <3>1. cur' \in DOMAIN plan /\ plan' = SetState(cur', "running")
        BY <1>1 DEF StartStep, Ready
    <3> QED BY <3>1, SetStateKeeps DEF Working
  <2> QED BY <1>1, <2>1 DEF StartStep, history
<1>2. CASE Finalize \/ NothingReady \/ Guided \/ Plead \/ CloseGuided
    BY <1>2 DEF Finalize, NothingReady, Guided, Plead, CloseGuided, Close, stored, history
<1>3. CASE Exhausted \/ GiveUp \/ AskOwner \/ FailResumed \/ LadderEnds
    BY <1>3 DEF Exhausted, GiveUp, AskOwner, FailResumed, LadderEnds, Refused, Settle, Escalate,
                history
<1>4. CASE ClaimDone \/ StartReplan \/ (\E a \in Action : Park(a))
    BY <1>4, StillWorking DEF ClaimDone, StartReplan, Refused, Park, Settle, Calling, history
<1>5. CASE Accept
    BY <1>5 DEF Accept, history
<1>6. CASE Climb
    BY <1>6, ClimbKeeps DEF Climb, Refused, history
<1>7. CASE Rearchitect
    BY <1>7 DEF Rearchitect, Escalate, history
<1>8. CASE \E a \in Action : Call(a)
    BY <1>8, CallStays, StillWorking
<1>9. CASE OwnerYes
    BY <1>9, StillWorking DEF OwnerYes, Reply, history
<1>10. CASE OwnerDeclines \/ OwnerStops \/ OwnerConfirms
    BY <1>10 DEF OwnerDeclines, OwnerStops, OwnerConfirms, Reply, Escalate, Close, history
<1>11. CASE OwnerDenies \/ OwnerGuides
    BY <1>11 DEF OwnerDenies, OwnerGuides, Reply, Reopen, history
<1>12. CASE Timer
    BY <1>12, StillWorking DEF Timer, Recheck, RecheckMisses, Escalate, memory, history
<1>13. CASE Crash
    BY <1>13, StillWorking DEF Crash, history
<1>14. CASE Spend \/ UNCHANGED vars
    BY <1>14, StillWorking DEF Spend, vars, stored, memory, history
<1> QED BY <1>1, <1>2, <1>3, <1>4, <1>5, <1>6, <1>7, <1>8, <1>9, <1>10, <1>11, <1>12, <1>13, <1>14
        DEF Next, Drive, Owner

-----------------------------------------------------------------------------
(* What a complete plan rests on.                                          *)

\* A reply corrects records without making a complete plan rest on less.
LEMMA CorrectsKeeps ==
    ASSUME Corrects, world' = world
    PROVE  (Honest => Honest') /\ (Asked => Asked')
<1>1. ASSUME NEW l \in ledger, NEW m, Corrected(l, m), Doubtful(l)
      PROVE  Doubtful(m)'
  <2>1. PICK q \in ledger : (q.seen = "broken" \/ q.owner) /\ LabelOf[q.act] = LabelOf[l.act]
      BY <1>1 DEF Doubtful
  <2>2. PICK p \in ledger' : Corrected(q, p)
      BY DEF Corrects
  <2> QED BY <1>1, <2>1, <2>2 DEF Corrected, Doubtful
<1>2. ASSUME Honest, NEW m \in ledger'
      PROVE  (m.phase = "failed" /\ m.seen # "none") \/ m.act \in world' \/ Doubtful(m)'
  <2>1. PICK l \in ledger : Corrected(l, m)
      BY DEF Corrects
  <2> QED BY <1>1, <1>2, <2>1 DEF Corrected, Honest
<1>3. ASSUME Asked, NEW m \in ledger', m.phase = "forwarded", m.seen = "plain"
      PROVE  m.owner \/ Doubtful(m)'
  <2>1. PICK l \in ledger : Corrected(l, m)
      BY DEF Corrects
  <2> QED BY <1>1, <1>3, <2>1 DEF Corrected, Asked
<1> QED BY <1>2, <1>3 DEF Honest, Asked, Doubtful

\* The ledger stays, and more may take effect.
LEMMA SameLedgerKeeps ==
    ASSUME ledger' = ledger, world \subseteq world'
    PROVE  (Honest => Honest') /\ (Asked => Asked')
BY DEF Honest, Asked, Doubtful

\* A gate that accepts has no failed or refused call that did not happen, and
\* no send in doubt the owner was not asked about.
LEMMA AcceptsSettles ==
    ASSUME RecordInv, NEW i, NEW want, Accepts(ledger, i, want, FALSE)
    PROVE  Honest /\ Asked
<1>1. \A r \in ledger : ~Contradicted(r, ledger)
  <2>1. LabelsOf({r \in ledger : Contradicted(r, ledger)}) = {}
      BY DEF Accepts, Sound, Unverified
  <2> QED BY <2>1 DEF LabelsOf
<1>2. \A r \in ledger : Unsure(r) => Doubtful(r)
  <2>1. ASSUME NEW r \in ledger, Unsure(r)
        PROVE  Doubtful(r)
    <3>1. LabelOf[r.act] \in Unverifiable(ledger)
        BY <2>1 DEF Unverifiable, LabelsOf
    <3>2. LabelOf[r.act] \in LabelsOf(BrokenChecks(ledger)) \cup LabelsOf(Confirmed(ledger))
        BY <3>1 DEF Accepts, Open
    <3>3. PICK q \in BrokenChecks(ledger) \cup Confirmed(ledger) : LabelOf[q.act] = LabelOf[r.act]
        BY <3>2 DEF LabelsOf
    <3> QED BY <3>3 DEF BrokenChecks, Confirmed, Forwarded, Doubtful
  <2> QED BY <2>1
<1>3. \A r \in ledger : r.phase = "forwarded" /\ r.seen = "landed" => r.act \in world
    BY DEF RecordInv, Truthful
<1>4. ASSUME NEW r \in ledger
      PROVE  r.act \in world \/ Doubtful(r)
  <2>1. r \in Record /\ (r.phase = "forwarded" => r.seen # "none")
      BY DEF RecordInv, Truthful
  <2>2. CASE r.phase = "forwarded"
    <3>1. r.seen \in Seen \ {"missing", "same"}
        BY <1>1, <2>1, <2>2 DEF Record, Contradicted
    <3> QED BY <1>2, <1>3, <2>2, <3>1 DEF Seen, Unsure
  <2>3. CASE r.phase = "failed"
    <3>1. r.act \in Verified(ledger)
        BY <1>1, <2>3 DEF Contradicted, Superseded
    <3> QED BY <1>3, <3>1 DEF Verified, Forwarded
  <2>4. CASE r.phase = "refused"
      BY <1>1, <2>4 DEF Contradicted
  <2> QED BY <2>1, <2>2, <2>3, <2>4 DEF Record
<1>5. Asked
    BY <1>2 DEF Asked, Unsure
<1> QED BY <1>4, <1>5 DEF Honest

\* The steps that leave the ledger alone and do not end the run at the gate.
LEMMA GateKeeps ==
    ASSUME GateInv, ledger' = ledger, world \subseteq world', Complete' => Complete,
           closed = "owner" => closed' = "owner",
           status' = "done" /\ closed' = "gate" => status = "done" /\ closed = "gate"
    PROVE  GateInv'
BY SameLedgerKeeps DEF GateInv

LEMMA GateOpens ==
    ASSUME ~Complete', status' # "done" \/ closed' # "gate"
    PROVE  GateInv'
BY DEF GateInv

LEMMA GateStep ==
    ASSUME PlanType, RecordInv, QuestionInv, DriveInv, GateInv, [Next]_vars
    PROVE  GateInv'
<1>1. /\ at # "out" => status \in {"running", "asked"}
      /\ closed = "owner" => status = "done" /\ due = {}
    BY DEF DriveInv
<1>2. CASE Opens
  <2>1. status' # "done"
      BY <1>1, <1>2 DEF Opens, StartStep, GiveUp, Settle, AskOwner, FailResumed, Climb, LadderEnds,
                        Rearchitect, Guided, Refused, Escalate
  <2> QED BY <1>2, <2>1, OpensPlan, GateOpens
<1>3. CASE ClaimDone \/ (\E a \in Action : Park(a))
  <2>1. at = "loop" /\ plan' = plan /\ (status' = status \/ status' = "asked")
      BY <1>3 DEF ClaimDone, Park, Settle
  <2>2. ~Complete /\ status' # "done"
      BY <1>1, <2>1 DEF DriveInv, Working, Complete, IsDone
  <2>3. ~Complete'
      BY <2>1, <2>2 DEF Complete
  <2> QED BY <2>2, <2>3, GateOpens
<1>4. CASE Finalize
  <2>1. Honest /\ Asked
      BY <1>1, <1>4 DEF Finalize, GateInv
  <2>2. ledger' = ledger /\ world' = world
      BY <1>4 DEF Finalize
  <2> QED BY <2>1, <2>2, SameLedgerKeeps DEF GateInv
<1>5. CASE Accept
  <2>1. Honest /\ Asked
      BY <1>5, AcceptsSettles DEF Accept
  <2>2. ledger' = ledger /\ world' = world
      BY <1>5 DEF Accept, history
  <2> QED BY <2>1, <2>2, SameLedgerKeeps DEF GateInv
<1>6. CASE OwnerConfirms
  <2>1. CASE Complete'
    <3>1. closed' = "owner"
        BY <1>6, <2>1 DEF OwnerConfirms, Close, Complete
    <3> QED BY <3>1 DEF GateInv
  <2>2. CASE ~Complete'
    <3>1. status' = "running"
        BY <1>6, <2>2 DEF OwnerConfirms, Complete
    <3> QED BY <2>2, <3>1, GateOpens
  <2> QED BY <2>1, <2>2
<1>7. CASE OwnerDenies
  <2>1. plan' = plan /\ world' = world /\ closed' = closed /\ status' # "done"
      BY <1>7 DEF OwnerDenies, Reopen, history
  <2>2. Complete' = Complete
      BY <2>1 DEF Complete
  <2> QED BY <1>7, <2>1, <2>2, DenialCorrects, CorrectsKeeps DEF GateInv
<1>8. CASE Leaves /\ ~(OwnerDenies \/ ClaimDone \/ Finalize \/ (\E a \in Action : Park(a)))
  <2>1. Complete' => Complete
      BY <1>8, PlanMove DEF PlanKept
  <2>2. CASE NothingReady \/ Exhausted \/ StartReplan \/ Plead \/ CloseGuided
      BY <1>1, <2>1, <2>2, GateKeeps
         DEF NothingReady, Exhausted, StartReplan, Refused, Plead, CloseGuided, Close, Escalate,
             stored, history
  <2>3. CASE \E a \in Action : Call(a)
    <3>1. /\ ledger' = ledger /\ world \subseteq world' /\ closed' = closed /\ status' = status
        BY <2>3, CallStays
    <3> QED BY <2>1, <3>1, GateKeeps
  <2>4. CASE OwnerYes \/ OwnerDeclines \/ OwnerStops \/ OwnerGuides
      BY <1>1, <2>1, <2>4, GateKeeps
         DEF OwnerYes, OwnerDeclines, OwnerStops, OwnerGuides, Reply, Reopen, Close, Escalate,
             history
  <2>5. CASE Timer \/ Spend \/ Crash \/ UNCHANGED vars
      BY <1>1, <2>1, <2>5, GateKeeps
         DEF Timer, Recheck, RecheckMisses, Spend, Crash, Escalate, vars, stored, history
  <2> QED BY <1>8, <2>2, <2>3, <2>4, <2>5 DEF Leaves
<1> QED BY <1>2, <1>3, <1>4, <1>5, <1>6, <1>7, <1>8, Kinds

-----------------------------------------------------------------------------
(* What a step that is done rests on.                                      *)

\* No record is lost, nor what its read-back saw.
LedgerKept == \A r \in ledger : \E m \in ledger' : m.act = r.act /\ m.seen = r.seen

LEMMA LedgerStep ==
    ASSUME RecordInv, QuestionInv, [Next]_vars
    PROVE  LedgerKept
<1>1. CASE OwnerConfirms \/ OwnerDenies
    BY <1>1, ConfirmCorrects, DenialCorrects DEF Corrects, Corrected, LedgerKept
<1>2. CASE ~(OwnerConfirms \/ OwnerDenies)
  <2>1. ledger' = ledger \/ ledger' = ledger \cup effects
    <3>1. CASE \E a \in Action : Call(a) \/ Park(a)
        BY <3>1, CallStays DEF Park, Settle
    <3>2. CASE ~(\E a \in Action : Call(a) \/ Park(a)) /\ Drive
        BY <3>2 DEF Drive, StartStep, Finalize, NothingReady, Exhausted, GiveUp, ClaimDone, Settle,
                    Accept, AskOwner, FailResumed, Climb, StartReplan, LadderEnds, Rearchitect,
                    Guided, Plead, CloseGuided, stored
    <3>3. CASE ~Drive
        BY <1>2, <3>3 DEF Next, Owner, OwnerYes, OwnerDeclines, OwnerStops, OwnerGuides, Timer,
                          Recheck, RecheckMisses, Spend, Crash, vars, stored
    <3> QED BY <3>1, <3>2, <3>3
  <2> QED BY <2>1 DEF LedgerKept
<1> QED BY <1>1, <1>2

\* The gate accepts a step that had to produce an effect only when a call of
\* that class went out and was not found missing.
LEMMA AcceptsEarned ==
    ASSUME RecordInv, NEW i, NEW want, want # "none", Accepts(ledger, i, want, FALSE)
    PROVE  \E r \in ledger : LabelOf[r.act] = want /\ r.seen \notin {"none", "missing"}
<1>1. want \in Landed(ledger, i)
    BY DEF Accepts, Sound
<1>2. PICK r \in Forwarded(ledger) : LabelOf[r.act] = want /\ r.seen # "missing"
    BY <1>1 DEF Landed, LabelsOf
<1> QED BY <1>2 DEF Forwarded, RecordInv, Truthful

LEMMA EarnedStep ==
    ASSUME PlanType, RecordInv, QuestionInv, DriveInv, EffectsEarned, [Next]_vars
    PROVE  EffectsEarned'
<1>1. ASSUME NEW want,
             \E r \in ledger : LabelOf[r.act] = want /\ r.seen \notin {"none", "missing"}
      PROVE  \E r \in ledger' : LabelOf[r.act] = want /\ r.seen \notin {"none", "missing"}
  <2>1. PICK r \in ledger : LabelOf[r.act] = want /\ r.seen \notin {"none", "missing"}
      BY <1>1
  <2>2. PICK m \in ledger' : m.act = r.act /\ m.seen = r.seen
      BY LedgerStep DEF LedgerKept
  <2> QED BY <2>1, <2>2
<1>2. CASE Backed
  <2>1. ASSUME NEW i \in DOMAIN plan', IsDone(plan'[i]), plan'[i].want # "none",
               ~plan'[i].vouched
        PROVE  \E r \in ledger' :
                  LabelOf[r.act] = plan'[i].want /\ r.seen \notin {"none", "missing"}
    <3>1. PICK j \in DOMAIN plan :
             IsDone(plan[j]) /\ ~plan[j].vouched /\ plan[j].want = plan'[i].want
        BY <1>2, <2>1 DEF Backed
    <3>2. \E r \in ledger :
             LabelOf[r.act] = plan'[i].want /\ r.seen \notin {"none", "missing"}
        BY <2>1, <3>1 DEF EffectsEarned
    <3> QED BY <1>1, <3>2
  <2> QED BY <2>1 DEF EffectsEarned
<1>3. CASE Accept
  <2>1. /\ Accepts(ledger, cur, plan[cur].want, FALSE) /\ Working
        /\ DOMAIN plan' = DOMAIN plan /\ plan'[cur].want = plan[cur].want
        /\ \A j \in DOMAIN plan : j # cur => plan'[j] = plan[j]
      BY <1>3, AcceptPlan DEF Accept, DriveInv
  <2>2. ASSUME NEW i \in DOMAIN plan', IsDone(plan'[i]), plan'[i].want # "none",
               ~plan'[i].vouched
        PROVE  \E r \in ledger :
                  LabelOf[r.act] = plan'[i].want /\ r.seen \notin {"none", "missing"}
    <3>1. CASE i = cur
        BY <2>1, <2>2, <3>1, AcceptsEarned
    <3>2. CASE i # cur
        BY <2>1, <2>2, <3>2 DEF EffectsEarned
    <3> QED BY <3>1, <3>2
  <2> QED BY <1>1, <2>2 DEF EffectsEarned
<1> QED BY <1>2, <1>3, Kinds, PlanMove, ConfirmPlan DEF PlanKept

-----------------------------------------------------------------------------
(* The theorems.                                                           *)

LEMMA InitInv ==
    ASSUME Init
    PROVE  StepsInv
<1>1. PlanType /\ ~Complete /\ \A i \in DOMAIN plan : ~IsDone(plan[i])
  <2>1. plan \in NewSteps(0) /\ 0 \in Nat
      BY DEF Init
  <2>2. /\ plan \in Seq(PlanStep) /\ Len(plan) > 0
        /\ \A i \in DOMAIN plan : plan[i].state = "pending"
      BY <2>1, NewStepsType
  <2>3. 1 \in DOMAIN plan
      BY <2>2
  <2> QED BY <2>2, <2>3 DEF PlanType, Complete, IsDone
<1>2. PlaceType /\ CountType
    BY StepsAssumption DEF Init, PlaceType, CountType, StepsAssumption
<1>3. FlagType
    BY DEF Init, FlagType
<1>4. RecordInv /\ QuestionInv /\ DriveInv
    BY DEF Init, RecordInv, Truthful, QuestionInv, Undecided, Review, DriveInv
<1>5. GateInv /\ EffectsEarned
    BY <1>1 DEF Init, GateInv, EffectsEarned
<1> QED BY <1>1, <1>2, <1>3, <1>4, <1>5 DEF StepsInv

\* The invariant holds in every state.
LEMMA Invariant == Spec => []StepsInv
<1>1. Init => StepsInv
    BY InitInv
<1>2. StepsInv /\ [Next]_vars => StepsInv'
    BY PlanTypeStep, PlaceStep, FlagStep, CountStep, RecordStep, DriveInvStep, GateStep,
       EarnedStep DEF StepsInv, RecordsKept
<1> QED BY <1>1, <1>2, PTL DEF Spec

\* The run's state keeps its types: the rungs of a step (_climb_ladder) and
\* the re-architectures of a run (_replan_remaining) stay within their caps.
THEOREM TypeCorrect == Spec => []TypeOK
<1>1. StepsInv => TypeOK
  <2>1. ASSUME StepsInv
        PROVE  plan \in Seq([want : Wants, state : {"pending", "running", "failed", "done"},
                             rung : 0..LadderCap, vouched : BOOLEAN, after : SUBSET Nat])
      BY <2>1 DEF StepsInv, PlanType, PlanStep, States
  <2>2. ASSUME StepsInv
        PROVE  /\ ledger \subseteq Record /\ effects \subseteq Record
               /\ ask.why \in {"review", "send", "missing"} /\ ask.subject \subseteq Record
      BY <2>2 DEF StepsInv, RecordInv, Truthful, QuestionInv, Undecided
  <2>3. StepsInv => PlaceType /\ FlagType /\ CountType
      BY DEF StepsInv
  <2> QED BY <2>1, <2>2, <2>3 DEF TypeOK, PlaceType, FlagType, CountType
<1> QED BY <1>1, Invariant, PTL

\* A question is never about a record that a read-back has verified, nor about
\* a call that was not made (_pending_send_effects).
THEOREM QuestionsAreOpen == Spec => []QuestionInv
<1>1. StepsInv => QuestionInv
    BY DEF StepsInv
<1> QED BY <1>1, Invariant, PTL

\* No reply of the owner and no re-check turns a verified record into one that
\* may be sent again (_pending_send_effects, operator.py).
THEOREM VerifiedStaysHolds == Spec => VerifiedStays
<1>1. StepsInv /\ [Next]_vars =>
        [{r \in Forwarded(ledger) : r.seen = "landed"} \subseteq ledger']_vars
    BY RecordStep DEF StepsInv, RecordsKept, Landeds
<1> QED BY <1>1, Invariant, PTL DEF Spec, VerifiedStays

\* A step with a required effect (done_criteria, effect_landed) is done only
\* when a call of that class went out and was not found missing, or the owner
\* vouched for the step.
THEOREM EffectsEarnedHolds == Spec => []EffectsEarned
<1>1. StepsInv => EffectsEarned
    BY DEF StepsInv
<1> QED BY <1>1, Invariant, PTL

\* A record of a class in doubt is one the properties name.
LEMMA DoubtfulLabel ==
    ASSUME NEW r
    PROVE  Doubtful(r) <=>
             LabelOf[r.act] \in LabelsOf({q \in ledger : q.seen = "broken" \/ q.owner})
BY DEF Doubtful, LabelsOf

\* A run the gate has let finish (_finalize) rests on no effect that did not
\* happen, except behind a broken read-back, the owner's word for its class or
\* the owner's own correction.
THEOREM DoneIsHonestHolds == Spec => []DoneIsHonest
<1>1. StepsInv => DoneIsHonest
    BY DoubtfulLabel DEF StepsInv, GateInv, DoneIsHonest, Honest, Denied
<1> QED BY <1>1, Invariant, PTL

\* A run the gate has let finish has put every send without a read-back to the
\* owner, unless its class has a broken read-back or was confirmed (_gate_step).
THEOREM DoubtsAreAskedHolds == Spec => []DoubtsAreAsked
<1>1. StepsInv => DoubtsAreAsked
    BY DoubtfulLabel DEF StepsInv, GateInv, DoubtsAreAsked, Asked, Forwarded
<1> QED BY <1>1, Invariant, PTL
=============================================================================
