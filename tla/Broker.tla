------------------------------- MODULE Broker -------------------------------
(***************************************************************************)
(* One run's traffic through the single egress, src/flowers/broker.py,     *)
(* with the executor loop that issues the calls (engine/executor.py) and   *)
(* the operator code that seeds each broker from the ledger, settles a     *)
(* step and turns the owner's answers into grants (engine/operator.py).    *)
(* A broker lives for one executor loop: what it learns reaches the store  *)
(* only when the step is settled, and a crash loses what was not settled.  *)
(*                                                                         *)
(* One thread drives a run here; the races between threads are the subject *)
(* of the Lifecycle module.  A failed, refused or deferred effect record   *)
(* never seeds a broker, so only forwarded ones are kept.                  *)
(***************************************************************************)
EXTENDS Mandate, Sequences

CONSTANTS
    NoAction,       \* the absence of an action
    Browser,        \* the actions that go through call_browser
    Previews,       \* send_preview # "never"
    ReadBack,       \* what the read-back of an action can come to
    MaxCalls,       \* budget.max_tool_calls of one step
    MaxMishaps,     \* bound on crashes, lost replies, late read-backs and denials
    MaxAnswers      \* bound on the owner's answers

Evidence == {"landed", "plain", "broken", "missing"}

ASSUME BrokerAssumption ==
    /\ NoAction \notin Action
    /\ Browser \subseteq Action
    /\ Previews \in BOOLEAN /\ ReadBack \in [Action -> SUBSET Evidence]
    /\ MaxCalls \in Nat /\ MaxMishaps \in Nat /\ MaxAnswers \in Nat

VARIABLES
    mode,       \* the run's mandate, and whether it was committed unseen
    spent,      \* the budget or the deadline has run out
    phase,      \* where the run's driver is
    todo,       \* the parked action executor.resume must perform first
    calls,      \* tool calls of the current step
    forwarded, verified, counts,    \* the live broker's memory
    effects,    \* StepResult.effects, not yet in the store
    park,       \* the park the loop ended with
    ledger, savedCounts,            \* the store: effects and mandate_counts
    grants, pending, resume,        \* the continuation
    asked,      \* the card the owner sees
    about,      \* whose re-check an escalation asks about; NoAction: the gate
    trust,      \* learned trust, shared by all runs
    \* history: nothing in the code reads it
    sent, excused,          \* see Egress
    yes, released,          \* cards answered yes, undo windows that elapsed
    wire,                   \* the action the last step put on the wire
    auto, missed,           \* mandate-covered forwards, and those uncounted
    mishaps, answers

memory == <<forwarded, verified, counts>>
continuation == <<grants, pending, resume>>
store == <<ledger, savedCounts, trust>>
escalation == <<spent, about>>
reach == <<auto, missed>>
egress == <<sent, excused>>
bounds == <<mishaps, answers>>
vars == <<mode, escalation, phase, todo, calls, memory, effects, park, store, continuation,
          asked, egress, yes, released, wire, reach, bounds>>

Kinds == {"preview", "undo", "side_effect", "connect"}
NoPark == [kind |-> "none", act |-> NoAction]
Parks == [kind : Kinds, act : Action] \cup {NoPark}
\* A stalled run is running and no step is ready; an escalation that asks
\* whether a send arrived is told from one that does not.
Idle == {"ready", "stalled", "parked", "connect", "escalated", "asking",
         "done", "stopped"}
Live == {"loop", "settle", "record", "parking"}

\* What went out under the mandate: in all, to each recipient, to each domain.
NoReach == [total |-> 0, rec |-> [r \in Recipient |-> 0], dom |-> [d \in Domain |-> 0]]
Widen(w, a) ==
    [total |-> w.total + 1,
     rec   |-> [r \in Recipient |-> IF r \in RecipsOf[a] THEN w.rec[r] + 1 ELSE w.rec[r]],
     dom   |-> [d \in Domain |-> w.dom[d] + Fan(a, d)]]

Init ==
    /\ mode \in Mandates /\ spent = FALSE /\ about = NoAction
    /\ phase = "ready" /\ todo = NoAction /\ calls = 0
    /\ forwarded = {} /\ verified = {} /\ counts = NewCounts
    /\ effects = <<>> /\ park = NoPark
    /\ ledger = [a \in Action |-> {}] /\ savedCounts = NewCounts
    /\ grants = {} /\ pending = NoAction /\ resume = NoAction
    /\ asked = NoPark /\ trust = [l \in Label |-> 0]
    /\ sent = [a \in Action |-> 0] /\ excused = [a \in Action |-> 0]
    /\ yes = {} /\ released = {} /\ wire = NoAction
    /\ auto = NoReach /\ missed = NoReach
    /\ mishaps = 0 /\ answers = 0

-----------------------------------------------------------------------------
(* What the broker decides about a call, in the order of call_integration. *)

Authed(a) == a \in grants
Covered(a) == SideEffecting(a) /\ Covers(counts, mode, a)
\* Mutant: the run's first grant stands for every later draft.
WantsFirstPreview(a) ==
    /\ Covered(a) /\ mode.auto /\ grants = {} /\ Previews
    /\ a \in Delivers \ Browser
WantsPreview(a) ==
    /\ Covered(a) /\ mode.auto /\ ~Authed(a) /\ Previews
    /\ a \in Delivers \ Browser
WantsUndo(a) == Covered(a) /\ mode.undo /\ ~Authed(a) /\ ~WantsPreview(a)
Learned(a) ==
    /\ SideEffecting(a) /\ ~Covered(a) /\ a \notin Browser
    /\ LabelOf[a] \notin Listed
    /\ LearnedCovers(trust, a)
MustAsk(a) == MustApprove(a) /\ ~Authed(a) /\ ~Covered(a) /\ ~Learned(a)
\* Mutant: only a confirmed effect is short-circuited.
KnownLanded(a) == SideEffecting(a) /\ a \in verified
Known(a) == SideEffecting(a) /\ a \in forwarded
Cleared(a) ==
    /\ a \notin Refused /\ ~Known(a)
    /\ ~WantsPreview(a) /\ ~WantsUndo(a) /\ ~MustAsk(a)

\* Mutant: the seed forgets what no read-back could confirm.
NewBrokerVerifiedOnly ==
    /\ forwarded' = {a \in Action : "landed" \in ledger[a]}
    /\ verified' = {a \in Action : "landed" \in ledger[a]}
    /\ counts' = savedCounts
    /\ effects' = <<>>

\* A fresh broker, seeded from the ledger: what the provider accepted and no
\* read-back proved missing is known, what a read-back confirmed is verified.
NewBroker ==
    /\ forwarded' = {a \in Action : ledger[a] # {}}
    /\ verified' = {a \in Action : "landed" \in ledger[a]}
    /\ counts' = savedCounts
    /\ effects' = <<>>

Mishap == mishaps < MaxMishaps /\ mishaps' = mishaps + 1

BrokerEnds == forwarded' = {} /\ verified' = {} /\ counts' = NewCounts

\* Mutant: the tool budget is not enforced.
IssueUnbounded(a) ==
    /\ phase = "loop"
    /\ IF todo = NoAction THEN calls' = calls + 1 ELSE todo = a /\ calls' = calls
    /\ todo' = NoAction

\* A tool call of the loop, or the parked action a resumed loop starts with.
Issue(a) ==
    /\ phase = "loop"
    /\ IF todo = NoAction
       THEN calls < MaxCalls /\ calls' = calls + 1
       ELSE todo = a /\ calls' = calls
    /\ todo' = NoAction

-----------------------------------------------------------------------------
(* The executor loop.                                                      *)

StartStep ==
    /\ phase = "ready"
    /\ NewBroker
    /\ phase' = "loop" /\ calls' = 0 /\ wire' = NoAction
    /\ UNCHANGED <<mode, escalation, todo, park, store, continuation, asked, egress, yes,
                   released, reach, bounds>>

\* Money and illegal content: no path from here to the provider.
Refuse(a) ==
    /\ Issue(a) /\ a \in Refused
    /\ wire' = NoAction
    /\ UNCHANGED <<mode, escalation, phase, memory, effects, park, store, continuation, asked,
                   egress, yes, released, reach, bounds>>

\* The idempotency short-circuit.  A replay claims the read-back only if the
\* original had one.
Replay(a) ==
    /\ Issue(a) /\ a \notin Refused /\ Known(a)
    /\ effects' = Append(effects,
         [act |-> a, exp |-> IF a \in verified THEN "landed" ELSE "plain"])
    /\ wire' = NoAction
    /\ UNCHANGED <<mode, escalation, phase, memory, park, store, continuation, asked, egress,
                   yes, released, reach, bounds>>

LoopParks(a, kind) ==
    /\ park' = [kind |-> kind, act |-> a]
    /\ phase' = "settle"
    /\ UNCHANGED <<mode, escalation, memory, effects, store, continuation, asked, egress, yes,
                   released, reach, bounds>>

\* The draft, the undo notice or the approval the call waits for.
Ask(a) ==
    /\ Issue(a) /\ a \notin Refused /\ ~Known(a)
    /\ wire' = NoAction
    /\ \/ WantsPreview(a) /\ LoopParks(a, "preview")
       \/ WantsUndo(a) /\ LoopParks(a, "undo")
       \/ ~WantsPreview(a) /\ ~WantsUndo(a) /\ MustAsk(a) /\ LoopParks(a, "side_effect")

\* The provider answered that the account is not connected; call_browser has
\* no such outcome.
NotConnected(a) ==
    /\ Issue(a) /\ Cleared(a) /\ a \notin Browser
    /\ wire' = a
    /\ LoopParks(a, "connect")

\* The provider refused the call, or its answer was lost after it took it.
ExecuteFails(a) ==
    /\ Issue(a) /\ Cleared(a)
    /\ wire' = a
    /\ \/ UNCHANGED <<egress, mishaps>>
       \/ /\ SideEffecting(a) /\ Mishap
          /\ sent' = [sent EXCEPT ![a] = @ + 1]
          /\ excused' = [excused EXCEPT ![a] = @ + 1]
    /\ UNCHANGED <<mode, escalation, phase, memory, effects, park, store, continuation, asked,
                   yes, released, reach, answers>>

\* Mutant: a send that cannot be confirmed is not remembered.
RememberedIfSeen(exp) == exp = "landed"
\* Accepted and not proved missing: never to be sent again.
Remembered(exp) == exp # "missing"

\* The provider accepted: read back, count against the caps, remember.  What
\* the read-back never showed either is not there or shows up too late.
Forward(a, exp) ==
    /\ Issue(a) /\ Cleared(a) /\ SideEffecting(a)
    /\ exp \in ReadBack[a] /\ (exp = "broken" => a \notin Browser)
    /\ effects' = Append(effects, [act |-> a, exp |-> exp])
    /\ counts' = IF Covered(a) THEN Bump(counts, a) ELSE counts
    /\ auto' = IF Covered(a) THEN Widen(auto, a) ELSE auto
    /\ forwarded' = IF Remembered(exp) THEN forwarded \cup {a} ELSE forwarded
    /\ verified' = IF exp = "landed" THEN verified \cup {a} ELSE verified
    /\ \/ /\ sent' = IF exp # "missing" THEN [sent EXCEPT ![a] = @ + 1] ELSE sent
          /\ UNCHANGED <<excused, mishaps>>
       \/ /\ exp = "missing" /\ Mishap
          /\ sent' = [sent EXCEPT ![a] = @ + 1]
          /\ excused' = [excused EXCEPT ![a] = @ + 1]
    /\ wire' = a
    /\ UNCHANGED <<mode, escalation, phase, park, store, continuation, asked, yes, released,
                   missed, answers>>

\* A read-only call: nothing to verify, nothing remembered.
Read(a) ==
    /\ Issue(a) /\ Cleared(a) /\ ~SideEffecting(a)
    /\ wire' = a
    /\ UNCHANGED <<mode, escalation, phase, memory, effects, park, store, continuation, asked,
                   egress, yes, released, reach, bounds>>

\* finish(), the tool budget or a model error.
LoopEnds ==
    /\ phase = "loop" /\ todo = NoAction
    /\ phase' = "settle" /\ wire' = NoAction
    /\ UNCHANGED <<mode, escalation, todo, calls, memory, effects, park, store, continuation,
                   asked, egress, yes, released, reach, bounds>>

-----------------------------------------------------------------------------
(* Settling the step: the counters, then the effects one by one, then the  *)
(* park.                                                                   *)

\* Mutant: a step that parks returns before its counters are saved.
PersistUnlessParked ==
    savedCounts' = IF counts.total # 0 /\ park = NoPark THEN counts ELSE savedCounts
Persist == savedCounts' = IF counts.total # 0 THEN counts ELSE savedCounts

SaveCounts ==
    /\ phase = "settle" /\ ~spent
    /\ Persist
    /\ BrokerEnds
    /\ phase' = "record" /\ wire' = NoAction
    /\ UNCHANGED <<mode, escalation, todo, calls, effects, park, ledger, trust,
                   continuation, asked, egress, yes, released, reach, bounds>>

Unsettled(a) == \E i \in 1..Len(effects) :
    effects[i].act = a /\ effects[i].exp # "missing"
Held(a) == ledger[a] # {} \/ Unsettled(a)

\* Effects that were never appended, of actions the ledger does not know.
LoseUnsettled ==
    excused' = [a \in Action |->
        IF Unsettled(a) /\ ledger[a] = {} THEN excused[a] + 1 ELSE excused[a]]

\* Budget or deadline spent: the run is escalated before the effects are
\* appended or the park is looked at, and both are gone with the step's result.
BudgetSpent ==
    /\ phase = "settle"
    /\ spent' = TRUE
    /\ Persist
    /\ BrokerEnds
    /\ effects' = <<>> /\ park' = NoPark
    /\ LoseUnsettled
    /\ phase' = "escalated" /\ wire' = NoAction
    /\ UNCHANGED <<mode, about, todo, calls, ledger, trust, continuation, asked,
                   sent, yes, released, reach, bounds>>

RecordEffect ==
    /\ phase = "record" /\ effects # <<>>
    /\ LET e == Head(effects) IN
       ledger' = [ledger EXCEPT ![e.act] = @ \cup ({e.exp} \ {"missing"})]
    /\ effects' = Tail(effects) /\ wire' = NoAction
    /\ UNCHANGED <<mode, escalation, phase, todo, calls, memory, park, savedCounts, trust,
                   continuation, asked, egress, yes, released, reach, bounds>>

\* The step's outcome: the next step or rung, no step that is ready, the end,
\* or an escalation; the gate's question is about the sends nobody could check.
StepOver ==
    /\ phase = "record" /\ effects = <<>> /\ park = NoPark
    /\ phase' \in {"ready", "stalled", "escalated", "asking", "done"}
    /\ phase' = "asking" => \E a \in Action : "plain" \in ledger[a]
    /\ wire' = NoAction
    /\ UNCHANGED <<mode, escalation, todo, calls, memory, effects, park, store, continuation,
                   asked, egress, yes, released, reach, bounds>>

\* Mutant: a step that parks returns before its effects are appended.
SaveContinuationFirst ==
    /\ phase = "record" /\ park # NoPark
    /\ pending' = IF park.kind = "connect" THEN pending ELSE park.act
    /\ resume' = park.act /\ effects' = <<>>
    /\ phase' = "parking" /\ wire' = NoAction
    /\ UNCHANGED <<mode, escalation, todo, calls, memory, park, store, grants, asked,
                   egress, yes, released, reach, bounds>>

SaveContinuation ==
    /\ phase = "record" /\ effects = <<>> /\ park # NoPark
    /\ pending' = IF park.kind = "connect" THEN pending ELSE park.act
    /\ resume' = park.act
    /\ phase' = "parking" /\ wire' = NoAction
    /\ UNCHANGED <<mode, escalation, todo, calls, memory, effects, park, store, grants, asked,
                   egress, yes, released, reach, bounds>>

ShowCard ==
    /\ phase = "parking"
    /\ asked' = park /\ park' = NoPark
    /\ phase' = IF park.kind = "connect" THEN "connect" ELSE "parked"
    /\ wire' = NoAction
    /\ UNCHANGED <<mode, escalation, todo, calls, memory, effects, store, continuation, egress,
                   yes, released, reach, bounds>>

-----------------------------------------------------------------------------
(* The owner, and the timers that stand in for the owner.                  *)

Answered == answers < MaxAnswers /\ answers' = answers + 1

\* The parked action is performed by a fresh broker; without a resume state
\* the step is driven again.
PerformPending ==
    /\ IF resume # NoAction
       THEN phase' = "loop" /\ NewBroker
       ELSE phase' = "ready" /\ UNCHANGED <<memory, effects>>
    /\ todo' = resume /\ resume' = NoAction
    /\ asked' = NoPark /\ wire' = NoAction

TakeGrant ==
    /\ grants' = IF pending # NoAction THEN grants \cup {pending} ELSE grants
    /\ pending' = NoAction

OwnerYes ==
    /\ phase = "parked" /\ Answered
    /\ TakeGrant /\ PerformPending
    /\ trust' = IF asked.kind = "undo" THEN trust ELSE RecordTrust(trust, asked.act)
    /\ yes' = yes \cup {asked.act}
    /\ UNCHANGED <<mode, escalation, calls, park, ledger, savedCounts, egress, released, reach,
                   mishaps>>

\* Mutant: a timer releases whatever card the run is parked on.
TimerReleases ==
    /\ phase = "parked"
    /\ TakeGrant /\ PerformPending
    /\ released' = released \cup {asked.act}
    /\ UNCHANGED <<mode, escalation, calls, park, store, egress, yes, reach, bounds>>

UndoElapses ==
    /\ phase = "parked" /\ asked.kind = "undo"
    /\ TakeGrant /\ PerformPending
    /\ released' = released \cup {asked.act}
    /\ UNCHANGED <<mode, escalation, calls, park, store, egress, yes, reach, bounds>>

\* A no, or words that are not a yes: the pending grant stays where it was.
OwnerDeclines ==
    /\ phase = "parked" /\ asked.kind # "preview" /\ Answered
    /\ phase' = "escalated" /\ asked' = NoPark /\ wire' = NoAction
    /\ UNCHANGED <<mode, escalation, todo, calls, memory, effects, park, store, continuation,
                   egress, yes, released, reach, mishaps>>

\* A draft answered no stops the run, answered with edits is drafted again.
OwnerAmends ==
    /\ phase = "parked" /\ asked.kind = "preview" /\ Answered
    /\ phase' \in {"stopped", "ready"}
    /\ pending' = NoAction /\ resume' = NoAction
    /\ asked' = NoPark /\ wire' = NoAction
    /\ UNCHANGED <<mode, escalation, todo, calls, memory, effects, park, store, grants, egress,
                   yes, released, reach, mishaps>>

Connected ==
    /\ phase = "connect"
    /\ PerformPending
    /\ UNCHANGED <<mode, escalation, calls, park, store, grants, pending, egress, yes, released,
                   reach, bounds>>

ConnectGivesUp ==
    /\ phase = "connect"
    /\ phase' = "escalated" /\ resume' = NoAction
    /\ asked' = NoPark /\ wire' = NoAction
    /\ UNCHANGED <<mode, escalation, todo, calls, memory, effects, park, store, grants, pending,
                   egress, yes, released, reach, bounds>>

\* A read-back that was broken is repeated once the step is accepted, whatever
\* the run is doing by then: proved missing, the send is put to the owner over
\* the card or the escalation that is open.  Allowed here for every broken
\* record and at any time; the code arms one timer for each accepted one.
RecheckMisses(b) ==
    /\ phase \in Idle \ {"ready", "stopped"}
    /\ "broken" \in ledger[b]
    /\ phase' = "asking" /\ about' = b
    /\ asked' = NoPark /\ wire' = NoAction
    /\ UNCHANGED <<mode, spent, todo, calls, memory, effects, park, store,
                   continuation, egress, yes, released, reach, bounds>>

Questions == {"escalated", "asking"}

\* Guidance drives the run on from a new plan, closes it or is asked for again;
\* with budget or time gone the escalation stays as it is.
OwnerGuides ==
    /\ phase \in Questions /\ Answered
    /\ \/ ~spent /\ phase' \in {"ready", "done", "escalated"} /\ about' = NoAction
          /\ UNCHANGED spent
       \/ spent' = TRUE /\ UNCHANGED <<phase, about>>
    /\ wire' = NoAction
    /\ UNCHANGED <<mode, todo, calls, memory, effects, park, store, continuation,
                   asked, egress, yes, released, reach, mishaps>>

\* "It arrived": the run goes on with whatever step is ready.  Nobody looks at
\* the budget or the deadline here.
OwnerConfirms ==
    /\ phase = "asking" /\ Answered
    /\ phase' \in {"ready", "stalled", "done"}
    /\ about' = NoAction /\ wire' = NoAction
    /\ UNCHANGED <<mode, spent, todo, calls, memory, effects, park, store,
                   continuation, asked, egress, yes, released, reach, mishaps>>

\* "It never arrived": the records the escalation was about become failed
\* ones.  It is about every plain unverifiable send, or, after a re-check
\* proved one send missing, about all unconfirmed records of that send.
Unconfirmed == {"plain", "broken"}
Subject ==
    [a \in Action |-> IF about = NoAction THEN {"plain"}
                      ELSE IF a = about THEN Unconfirmed ELSE {}]
DenySends(flip) ==
    /\ ledger' = [a \in Action |-> ledger[a] \ flip[a]]
    /\ excused' = [a \in Action |->
         IF ledger[a] # {} /\ ledger[a] \subseteq flip[a] THEN excused[a] + 1
         ELSE excused[a]]

\* The records are flipped before the budget and the deadline are looked at.
OwnerDenies ==
    /\ phase = "asking" /\ Answered
    /\ Mishap
    /\ DenySends(Subject)
    /\ \/ ~spent /\ phase' \in {"ready", "done", "escalated"} /\ about' = NoAction
          /\ UNCHANGED spent
       \/ spent' = TRUE /\ UNCHANGED <<phase, about>>
    /\ wire' = NoAction
    /\ UNCHANGED <<mode, todo, calls, memory, effects, park, savedCounts, trust,
                   continuation, asked, sent, yes, released, reach>>

\* The owner closes the escalation, or the reaper does.
OwnerStops ==
    /\ phase \in Questions
    /\ phase' = "stopped" /\ about' = NoAction /\ wire' = NoAction
    /\ UNCHANGED <<mode, spent, todo, calls, memory, effects, park, store,
                   continuation, asked, egress, yes, released, reach, bounds>>

-----------------------------------------------------------------------------
(* The process dies and the run is recovered, or the drive thread dies and *)
(* the run is failed: the broker, the unsettled effects and the parked     *)
(* call to perform are gone.                                               *)

Crash ==
    /\ phase \in Live
    /\ Mishap
    /\ phase' \in {"ready", "escalated"} /\ todo' = NoAction /\ calls' = 0
    /\ BrokerEnds
    /\ effects' = <<>> /\ park' = NoPark /\ asked' = NoPark /\ wire' = NoAction
    /\ LoseUnsettled
    /\ missed' = [total |-> auto.total - savedCounts.total,
                  rec |-> [r \in Recipient |-> auto.rec[r] - savedCounts.byRec[r]],
                  dom |-> [d \in Domain |-> auto.dom[d] - savedCounts.byDom[d]]]
    /\ UNCHANGED <<mode, escalation, store, continuation, sent, yes, released, auto, answers>>

\* A restart finds the stalled run among the running ones and re-opens the
\* step that was left running.
Recover ==
    /\ phase = "stalled"
    /\ phase' = "ready" /\ wire' = NoAction
    /\ UNCHANGED <<mode, escalation, todo, calls, memory, effects, park, store,
                   continuation, asked, egress, yes, released, reach, bounds>>

Next ==
    \/ StartStep \/ LoopEnds
    \/ \E a \in Action :
         \/ Refuse(a) \/ Replay(a) \/ Ask(a) \/ NotConnected(a)
         \/ ExecuteFails(a) \/ Read(a) \/ RecheckMisses(a)
         \/ \E exp \in Evidence : Forward(a, exp)
    \/ SaveCounts \/ BudgetSpent \/ RecordEffect \/ StepOver
    \/ SaveContinuation \/ ShowCard
    \/ OwnerYes \/ UndoElapses \/ OwnerDeclines \/ OwnerAmends
    \/ Connected \/ ConnectGivesUp \/ OwnerGuides \/ OwnerConfirms
    \/ OwnerDenies \/ OwnerStops
    \/ Crash \/ Recover

Spec == Init /\ [][Next]_vars
-----------------------------------------------------------------------------
(* Properties.                                                             *)

TypeOK ==
    /\ mode \in Mandates /\ spent \in BOOLEAN /\ about \in Action \cup {NoAction}
    /\ phase \in Idle \cup Live
    /\ todo \in Action \cup {NoAction} /\ calls \in 0..MaxCalls
    /\ forwarded \subseteq Action /\ verified \subseteq Action
    /\ counts \in Counts /\ savedCounts \in Counts
    /\ effects \in Seq([act : Action, exp : Evidence]) /\ park \in Parks
    /\ ledger \in [Action -> SUBSET Evidence]
    /\ phase = "parking" => park # NoPark
    /\ phase = "parked" => asked # NoPark
    /\ grants \subseteq Action
    /\ pending \in Action \cup {NoAction} /\ resume \in Action \cup {NoAction}
    /\ asked \in Parks /\ trust \in [Label -> Nat]
    /\ sent \in [Action -> Nat] /\ excused \in [Action -> Nat]
    /\ yes \subseteq Action /\ released \subseteq Action
    /\ wire \in Action \cup {NoAction}
    /\ auto \in [total : Nat, rec : [Recipient -> Nat], dom : [Domain -> Nat]]
    /\ missed \in [total : Int, rec : [Recipient -> Int], dom : [Domain -> Int]]
    /\ mishaps \in Nat /\ answers \in Nat

\* An exact action takes effect twice only if its record was lost, in a crash
\* or with a step that found the budget or the deadline spent, the provider's
\* answer to it was lost, or the owner reported it missing: never because a step
\* was retried, replanned, resumed or re-approved.  Before any step has found
\* the budget or the deadline spent, only mishaps count.
NoDoubleSend ==
    \A a \in Action :
        sent[a] <= 1 + excused[a] /\ (~spent => sent[a] <= 1 + mishaps)

\* What the ledger says happened is not put on the wire again, whichever
\* broker, grant, preview or undo release the call comes through.
KnownStaysDone ==
    [][wire' # NoAction /\ SideEffecting(wire') => ledger[wire'] = {}]_vars

\* A call that needs the owner goes out on a yes to a card that showed that
\* very action, and for anything less than NEVER also on an undo notice that
\* showed it and elapsed, on the mandate's cover at that moment, or on a
\* class without third parties the owner once said yes to.
Authority(a) ==
    \/ a \in yes
    \/ /\ Tier(a) = "ask"
       /\ \/ a \in released \/ Covered(a)
          \/ a \notin Intent /\ \E b \in yes : LabelOf[b] = LabelOf[a]
Authorized == [][wire' # NoAction /\ MustApprove(wire') => Authority(wire')]_vars

\* Under a mandate the owner never saw, no delivering send leaves before the
\* owner said yes to its very draft.
DraftsShown ==
    [][ /\ wire' \in Delivers \ Browser /\ Tier(wire') = "ask"
        /\ mode.auto /\ Previews
        => wire' \in yes ]_vars

\* The mandate's caps bound what really went out, in all, to a recipient and to
\* a domain, over all steps, parks and resumes of the run; only what a crash left
\* uncounted can exceed them.
CapsHold ==
    /\ auto.total <= mode.sends + missed.total
    /\ \A r \in Recipient : auto.rec[r] <= mode.perRec + missed.rec[r]
    /\ \A d \in Domain : auto.dom[d] <= mode.perDom + missed.dom[d]

\* Every effect the provider accepted is in the ledger once its step is over
\* (operator.py:1102, "Otherwise the forwarded effect would be dropped on the
\* early return and escape the read-back gate"), however the step ends: done,
\* parked, given up.  A step that finds the budget or the deadline spent returns
\* before that line: what it keeps to itself is excused, and not shown here.
LedgerComplete ==
    phase \in Idle => \A a \in Action : sent[a] > excused[a] => ledger[a] # {}

\* The broker implements the abstract egress.
Promise == INSTANCE Egress WITH Action <- Action, sent <- sent, excused <- excused
AtMostOnce == Promise!Spec
=============================================================================
