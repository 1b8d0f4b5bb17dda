-------------------------------- MODULE Steps --------------------------------
(***************************************************************************)
(* How one run gets done, src/flowers/engine/operator.py: the driver takes *)
(* the ready steps of the plan one by one, the executor makes calls,       *)
(* the gate judges the whole ledger, a refused step climbs its ladder, a   *)
(* spent ladder has the planner re-architect what remains, and what nobody *)
(* can verify is put to the owner, whose reply corrects records.  A broken *)
(* read-back is looked at again later.                                     *)
(*                                                                         *)
(* The model's decisions, which calls, when to claim completion, which     *)
(* plan, are free; so are the verdicts of a read-back, as far as they are  *)
(* truthful.  Locks, timers and cards are the subject of Lifecycle,        *)
(* authority that of Broker.                                               *)
(***************************************************************************)
EXTENDS TrustGate, Sequences

CONSTANTS
    NoAction,
    Wants,          \* the effects a step may be required to produce, or none
    LadderCap,      \* rungs of a step, _LADDER_HARD_CAP
    MaxReplans,     \* re-architectures of a run, _MAX_REPLANS
    MaxPlan,        \* steps the planner adds at once, max_steps
    MaxCalls,       \* bound on the calls of a run that reach the broker
    MaxReplies,     \* bound on the owner's replies
    MaxCrashes      \* bound on crashes

ASSUME StepsAssumption ==
    /\ NoAction \notin Action
    /\ Wants \subseteq Labels \cup {"none"}
    /\ LadderCap \in Nat /\ MaxReplans \in Nat /\ MaxPlan \in Nat \ {0}
    /\ MaxCalls \in Nat /\ MaxReplies \in Nat /\ MaxCrashes \in Nat

VARIABLES
    \* stored
    status,     \* of the run; the card is shown while it is "asked"
    plan,       \* the steps: the effect each must produce, its state, its rung,
                \* and the steps it depends on
    ledger,     \* the settled records
    replans,    \* re-architectures counted
    ask,        \* what an escalation is about: why, and the records in question
    pend,       \* the parked call
    due,        \* actions whose read-back a timer will repeat
    spent,      \* the budget or the deadline is exhausted
    \* in memory
    at,         \* where the driver is; "out" when nobody drives
    cur,        \* the step it works on
    resumed,    \* the loop was resumed by a yes: no redirect
    effects,    \* records of the loop
    pleaded,    \* the last escalation asked to rephrase
    \* bounds
    calls, replies, crashes,
    \* history: nothing in the code reads it
    world,      \* actions that took effect outside
    closed      \* who called the run done

stored == <<status, plan, ledger, replans, ask, pend, due, spent>>
memory == <<at, cur, resumed, effects, pleaded>>
bounds == <<calls, replies, crashes>>
history == <<world, closed>>
vars == <<stored, memory, bounds, history>>

NewStep(want, after) ==
    [want |-> want, state |-> "pending", rung |-> 0, vouched |-> FALSE, after |-> after]

\* What the planner proposes behind k kept steps: a dependency is on an earlier
\* step, and one on a kept step, which is done, is none.
NewSteps(k) ==
    UNION {{[i \in 1..n |-> NewStep(w[i], {k + j : j \in d[i]})] :
                w \in [1..n -> Wants],
                d \in {e \in [1..n -> SUBSET (1..n)] : \A i \in 1..n : e[i] \subseteq 1..(i - 1)}} :
           n \in 1..MaxPlan}

IsDone(s) == s.state = "done"

\* ready_indices.
Ready == {i \in DOMAIN plan : plan[i].state = "pending" /\ \A j \in plan[i].after : IsDone(plan[j])}
Complete == \A i \in DOMAIN plan : IsDone(plan[i])
SetState(i, s) == [plan EXCEPT ![i].state = s]

\* A question about nothing in particular.
Review == [why |-> "review", subject |-> {}]

Init ==
    /\ status = "running" /\ plan \in NewSteps(0) /\ ledger = {} /\ replans = 0 /\ ask = Review
    /\ pend = NoAction /\ due = {} /\ spent = FALSE
    /\ at = "drive" /\ cur = 1 /\ resumed = FALSE /\ effects = {} /\ pleaded = FALSE
    /\ calls = 0 /\ replies = 0 /\ crashes = 0
    /\ world = {} /\ closed = "no"

-----------------------------------------------------------------------------
(* Parts of handlers.                                                      *)

\* _escalate.  Releasing the run's resources forgets the plea.
Escalate(question) ==
    /\ status' = "escalated" /\ ask' = question
    /\ at' = "out" /\ effects' = {} /\ resumed' = FALSE /\ pleaded' = FALSE

\* The run is over; cancel_for_run drops the read-backs still due.
Close(s, by) ==
    /\ status' = s /\ closed' = by /\ ask' = Review
    /\ due' = {} /\ at' = "out" /\ pleaded' = FALSE

-----------------------------------------------------------------------------
(* The driver, _drive.                                                     *)

\* _run_generic_step.
StartStep ==
    /\ at = "drive"
    /\ cur' \in Ready /\ \A i \in Ready : cur' <= i
    /\ plan' = SetState(cur', "running")
    /\ at' = "loop" /\ effects' = {} /\ resumed' = FALSE
    /\ UNCHANGED <<status, ledger, replans, ask, pend, due, spent, pleaded, bounds, history>>

\* _finalize.  The re-checks stay armed.
Finalize ==
    /\ at = "drive" /\ Complete
    /\ status' = "done" /\ closed' = "gate" /\ at' = "out" /\ pleaded' = FALSE
    /\ UNCHANGED <<plan, ledger, replans, ask, pend, due, spent, cur, resumed, effects, bounds,
                   world>>

\* A step that is neither done nor ready: the driver leaves.
NothingReady ==
    /\ at = "drive" /\ Ready = {} /\ ~Complete
    /\ at' = "out"
    /\ UNCHANGED <<stored, cur, resumed, effects, pleaded, bounds, history>>

-----------------------------------------------------------------------------
(* The calls of the executor's loop.  A parked call is the first of the    *)
(* resumed loop.                                                           *)

Calling(a) == at = "loop" /\ calls < MaxCalls /\ (resumed /\ pend # NoAction => a = pend)

Note(r) ==
    /\ effects' = effects \cup {r} /\ calls' = calls + 1 /\ pend' = NoAction
    /\ UNCHANGED <<status, plan, ledger, replans, ask, due, spent, at, cur, resumed, pleaded,
                   replies, crashes, closed>>

Known(a) == \E r \in Forwarded(ledger \cup effects) : r.act = a /\ r.seen # "missing"
Sighted(a) == \E r \in Forwarded(ledger \cup effects) : r.act = a /\ r.seen = "landed"

Refuse(a) ==
    /\ Calling(a) /\ a \in Refusals
    /\ Note(Effect(a, "refused", "none", cur))
    /\ UNCHANGED world

\* _already_done.
Repeat(a) ==
    /\ Calling(a) /\ a \notin Refusals /\ Known(a)
    /\ Note(Replay(a, IF Sighted(a) THEN "landed" ELSE "plain", cur))
    /\ UNCHANGED world

\* A read-back may miss what is late, and sees nothing that is not there.
Forward(a) ==
    /\ Calling(a) /\ a \notin Refusals /\ ~Known(a)
    /\ \E seen \in Seen, happens \in BOOLEAN :
        /\ seen = "landed" => happens
        /\ a \in Browser => seen # "broken"
        /\ Note(Effect(a, "forwarded", seen, cur))
        /\ world' = IF happens THEN world \cup {a} ELSE world

\* The provider reports an error; the action may have happened all the same.
CallFails(a) ==
    /\ Calling(a) /\ a \notin Refusals /\ ~Known(a)
    /\ Note(Effect(a, "failed", "none", cur))
    /\ world' \in {world, world \cup {a}}

Call(a) == Refuse(a) \/ Repeat(a) \/ Forward(a) \/ CallFails(a)

\* The budget is used up, or the deadline passes.
Spend ==
    /\ ~spent /\ at \in {"loop", "gate", "out"} /\ status \notin {"done", "stopped"}
    /\ spent' = TRUE
    /\ UNCHANGED <<status, plan, ledger, replans, ask, pend, due, memory, bounds, history>>

-----------------------------------------------------------------------------
(* The result of the loop, _handle_step_result.                            *)

\* The terminators come before the records are appended.
Exhausted ==
    /\ at = "loop" /\ spent /\ (resumed => pend = NoAction)
    /\ Escalate(Review)
    /\ UNCHANGED <<plan, ledger, replans, pend, due, spent, cur, bounds, history>>

Settle == at = "loop" /\ ~spent /\ ledger' = ledger \cup effects

\* A call needs the owner, or the approved one needs him once more.
Park(a) ==
    /\ Settle /\ Calling(a)
    /\ a \notin Refusals /\ ~Known(a)
    /\ pend' = a /\ status' = "asked" /\ at' = "out"
    /\ effects' = {} /\ resumed' = FALSE
    /\ UNCHANGED <<plan, replans, ask, due, spent, cur, pleaded, bounds, history>>

\* The model is blocked, its budget is exhausted, or a tool keeps failing.
GiveUp ==
    /\ Settle /\ (resumed => pend = NoAction)
    /\ plan' = SetState(cur, "failed") /\ Escalate(Review)
    /\ UNCHANGED <<replans, pend, due, spent, cur, bounds, history>>

ClaimDone ==
    /\ Settle /\ (resumed => pend = NoAction)
    /\ at' = "gate"
    /\ UNCHANGED <<status, plan, replans, ask, pend, due, spent, cur, resumed, effects, pleaded,
                   bounds, history>>

\* The broken read-backs of this loop will be repeated by a timer.
Accept ==
    /\ at = "gate" /\ Accepts(ledger, cur, plan[cur].want, FALSE)
    /\ plan' = [plan EXCEPT ![cur].state = "done", ![cur].rung = 0]
    /\ due' = due \cup {r.act : r \in BrokenChecks(effects)}
    /\ at' = "drive" /\ effects' = {} /\ resumed' = FALSE
    /\ UNCHANGED <<status, ledger, replans, ask, pend, spent, cur, pleaded, bounds, history>>

\* Nothing but sends nobody can verify stands in the way.
AskOwner ==
    /\ at = "gate" /\ NeedsOwner(ledger, cur, plan[cur].want, FALSE)
    /\ plan' = SetState(cur, "failed")
    /\ Escalate([why |-> "send", subject |-> Plain(ledger)])
    /\ UNCHANGED <<ledger, replans, pend, due, spent, cur, bounds, history>>

\* The gate, or the verifier on the step that would finish the run.
Refused ==
    /\ at = "gate"
    /\ \E flagged \in BOOLEAN :
        /\ ~Accepts(ledger, cur, plan[cur].want, flagged)
        /\ ~NeedsOwner(ledger, cur, plan[cur].want, flagged)

\* An approved call that is not accepted is surfaced, not repeated.
FailResumed ==
    /\ Refused /\ resumed
    /\ plan' = SetState(cur, "failed") /\ Escalate(Review)
    /\ UNCHANGED <<ledger, replans, pend, due, spent, cur, bounds, history>>

\* One rung too many.
CanClimbOnceMore(rung) == ~spent /\ rung <= LadderCap

\* The next try repeats the rung.
SameRung(rung) == rung

CanClimb(rung) == ~spent /\ rung < LadderCap
NextRung(rung) == rung + 1
CanReplan == ~spent /\ replans < MaxReplans

\* _climb_ladder: the next rung starts at once.
Climb ==
    /\ Refused /\ ~resumed /\ CanClimb(plan[cur].rung)
    /\ plan' = [plan EXCEPT ![cur].state = "running", ![cur].rung = NextRung(@)]
    /\ at' = "loop" /\ effects' = {}
    /\ UNCHANGED <<status, ledger, replans, ask, pend, due, spent, cur, resumed, pleaded,
                   bounds, history>>

\* _replan_remaining: the attempt is counted before the planner is asked.
StartReplan ==
    /\ Refused /\ ~resumed /\ ~CanClimb(plan[cur].rung) /\ CanReplan
    /\ replans' = replans + 1
    /\ at' = "replan" /\ effects' = {}
    /\ UNCHANGED <<status, plan, ledger, ask, pend, due, spent, cur, resumed, pleaded,
                   bounds, history>>

LadderEnds ==
    /\ Refused /\ ~resumed /\ ~CanClimb(plan[cur].rung) /\ ~CanReplan
    /\ plan' = SetState(cur, "failed") /\ Escalate(Review)
    /\ UNCHANGED <<ledger, replans, pend, due, spent, cur, bounds, history>>

\* What is done is kept and re-indexed first; new steps follow.
Increasing(S) ==
    {f \in [1..Cardinality(S) -> S] : \A i, j \in DOMAIN f : i < j => f[i] < f[j]}
Kept ==
    {[i \in DOMAIN order |-> [plan[order[i]] EXCEPT !.after = {}]] :
        order \in Increasing({i \in DOMAIN plan : IsDone(plan[i])})}
Revised == UNION {{kept \o new : new \in NewSteps(Len(kept))} : kept \in Kept}

Rearchitect ==
    /\ at = "replan"
    /\ \/ /\ plan' \in Revised
          /\ at' = "drive"
          /\ UNCHANGED <<status, ask, resumed, effects, pleaded>>
       \/ /\ plan' = SetState(cur, "failed")
          /\ Escalate(Review)
    /\ UNCHANGED <<ledger, replans, pend, due, spent, cur, bounds, history>>

-----------------------------------------------------------------------------
(* The owner.                                                              *)

Reply == at = "out" /\ replies < MaxReplies /\ replies' = replies + 1

\* A yes to the card; an undo card takes every timer of the run with it.
\* Without the parked call, lost in a crash, the step starts again.
OwnerYes ==
    /\ Reply /\ status = "asked"
    /\ due' \in {due, {}}
    /\ \/ /\ pend # NoAction
          /\ at' = "loop" /\ resumed' = TRUE
          /\ UNCHANGED plan
       \/ /\ pend = NoAction
          /\ plan' = [i \in DOMAIN plan |->
                        IF plan[i].state = "running" THEN [plan[i] EXCEPT !.state = "pending"]
                                                     ELSE plan[i]]
          /\ at' = "drive"
          /\ UNCHANGED resumed
    /\ UNCHANGED <<status, ledger, replans, ask, pend, spent, cur, effects, pleaded, calls,
                   crashes, history>>

OwnerDeclines ==
    /\ Reply /\ status = "asked"
    /\ Escalate(Review)
    /\ UNCHANGED <<plan, ledger, replans, pend, due, spent, cur, calls, crashes, history>>

\* _pending_send_effects: the records a reply is about.
Subject == IF ask.subject # {} THEN ledger \cap ask.subject ELSE Plain(ledger)

OwnerStops ==
    /\ Reply /\ status = "escalated"
    /\ Close("stopped", closed)
    /\ UNCHANGED <<plan, ledger, replans, pend, spent, cur, resumed, effects, calls,
                   crashes, world>>

\* _confirm_escalated: every failed step counts as done.
OwnerConfirms ==
    /\ Reply /\ status = "escalated" /\ ask.why \in {"send", "missing"}
    /\ ledger' = (ledger \ Subject) \cup {[r EXCEPT !.owner = TRUE] : r \in Subject}
    /\ plan' = [i \in DOMAIN plan |->
                  IF plan[i].state = "failed"
                  THEN [plan[i] EXCEPT !.state = "done", !.vouched = TRUE] ELSE plan[i]]
    /\ \/ /\ \E i \in DOMAIN plan' : ~IsDone(plan'[i])
          /\ status' = "running" /\ ask' = Review /\ at' = "drive"
          /\ UNCHANGED <<due, pleaded, closed>>
       \/ /\ \A i \in DOMAIN plan' : IsDone(plan'[i])
          /\ Close("done", "owner")
    /\ UNCHANGED <<replans, pend, spent, cur, resumed, effects, calls, crashes, world>>

\* _replan_from_escalation, if anything is left to spend; else the question
\* stays, about the same records.
Reopen(subject) ==
    IF spent THEN ask' = [ask EXCEPT !.subject = subject] /\ UNCHANGED <<status, at>>
             ELSE ask' = Review /\ status' = "running" /\ at' = "guided"

Failed(R) == {[r EXCEPT !.phase = "failed"] : r \in R}

\* _resend_escalated: what never arrived, or is to be sent again.
OwnerDenies ==
    /\ Reply /\ status = "escalated" /\ ask.why \in {"send", "missing"}
    /\ ledger' = (ledger \ Subject) \cup Failed(Subject)
    /\ Reopen(Failed(ask.subject))
    /\ UNCHANGED <<plan, replans, pend, due, spent, cur, resumed, effects, pleaded,
                   calls, crashes, history>>

OwnerGuides ==
    /\ Reply /\ status = "escalated" /\ Reopen(ask.subject)
    /\ UNCHANGED <<plan, ledger, replans, pend, due, spent, cur, resumed, effects, pleaded,
                   calls, crashes, history>>

Guided ==
    /\ at = "guided"
    /\ plan' \in Revised
    /\ at' = "drive"
    /\ UNCHANGED <<status, ledger, replans, ask, pend, due, spent, cur, resumed, effects,
                   pleaded, bounds, history>>

\* _close_or_plea: no new steps.
Plead ==
    /\ at = "guided" /\ ~Complete /\ ~pleaded
    /\ status' = "escalated" /\ ask' = Review /\ at' = "out" /\ pleaded' = TRUE
    /\ UNCHANGED <<plan, ledger, replans, pend, due, spent, cur, resumed, effects, bounds,
                   history>>

CloseGuided ==
    /\ at = "guided" /\ (Complete \/ pleaded)
    /\ Close("done", "owner")
    /\ UNCHANGED <<plan, ledger, replans, pend, spent, cur, resumed, effects, bounds, world>>

-----------------------------------------------------------------------------
(* The timer, _reverify, and crashes.                                      *)

\* Nothing proves the send missing.
Recheck(a) ==
    /\ at = "out" /\ a \in due /\ due' = due \ {a}
    /\ UNCHANGED <<status, plan, ledger, replans, ask, pend, spent, memory, bounds, history>>

Doubted(a) == {r \in Forwarded(ledger) : r.act = a /\ r.seen \in {"plain", "same", "broken"}}

RecheckMisses(a) ==
    /\ at = "out" /\ a \in due /\ due' = due \ {a}
    /\ status # "stopped"
    /\ Escalate([why |-> "missing", subject |-> Doubted(a)])
    /\ closed' = "no"
    /\ UNCHANGED <<plan, ledger, replans, pend, spent, cur, bounds, world>>

\* A run that was driven is recovered; while the card's status is on disk
\* nobody does, and the grant of a yes is gone.
Crash ==
    /\ crashes < MaxCrashes /\ crashes' = crashes + 1
    /\ effects' = {} /\ resumed' = FALSE /\ pleaded' = FALSE
    /\ \/ /\ status = "running" /\ at' = "drive"
          /\ plan' = [i \in DOMAIN plan |->
                        IF plan[i].state = "running" THEN [plan[i] EXCEPT !.state = "pending"]
                                                     ELSE plan[i]]
          /\ UNCHANGED pend
       \/ /\ status # "running" /\ at' = "out"
          /\ pend' = IF at = "out" THEN pend ELSE NoAction
          /\ UNCHANGED plan
    /\ UNCHANGED <<status, ledger, replans, ask, due, spent, cur, calls, replies, history>>

-----------------------------------------------------------------------------
Drive ==
    \/ StartStep \/ Finalize \/ NothingReady \/ Exhausted \/ GiveUp \/ ClaimDone
    \/ Accept \/ AskOwner \/ FailResumed \/ Climb \/ StartReplan \/ LadderEnds \/ Rearchitect
    \/ Guided \/ Plead \/ CloseGuided
    \/ \E a \in Action : Call(a) \/ Park(a)

Owner ==
    \/ OwnerYes \/ OwnerDeclines \/ OwnerStops \/ OwnerConfirms \/ OwnerDenies \/ OwnerGuides

Timer == \E a \in Action : Recheck(a) \/ RecheckMisses(a)

Next == Drive \/ Owner \/ Timer \/ Spend \/ Crash

Spec == Init /\ [][Next]_vars

\* A driver that runs goes on: its thread is never waiting for the owner.
FairSpec == Spec /\ WF_vars(Drive)

-----------------------------------------------------------------------------
(* Properties.                                                             *)

\* Types, with the rungs of a step (_climb_ladder) and the re-architectures
\* of a run (_replan_remaining) within their caps.
TypeOK ==
    /\ status \in {"running", "asked", "escalated", "done", "stopped"}
    /\ plan \in Seq([want : Wants, state : {"pending", "running", "failed", "done"},
                     rung : 0..LadderCap, vouched : BOOLEAN, after : SUBSET Nat])
    /\ ledger \subseteq Record /\ effects \subseteq Record
    /\ replans \in 0..MaxReplans
    /\ ask.why \in {"review", "send", "missing"} /\ ask.subject \subseteq Record
    /\ pend \in Action \cup {NoAction} /\ due \subseteq Action
    /\ spent \in BOOLEAN /\ resumed \in BOOLEAN /\ pleaded \in BOOLEAN
    /\ at \in {"drive", "loop", "gate", "replan", "guided", "out"}
    /\ cur \in Nat \ {0}
    /\ calls \in 0..MaxCalls /\ replies \in 0..MaxReplies /\ crashes \in 0..MaxCrashes
    /\ world \subseteq Action /\ closed \in {"no", "gate", "owner"}

\* Records the owner has corrected: it never arrived.
Denied(L) == {r \in L : r.phase = "failed" /\ r.seen # "none"}

\* A run the gate has let finish (_finalize) rests on no effect that did not
\* happen: each action it recorded took effect, unless a record of its class
\* was confirmed by the owner or has a broken read-back, or the owner himself
\* has reported it missing (a crash in that reply finishes the run all the same).
DoneIsHonest ==
    status = "done" /\ closed = "gate" =>
        \A r \in ledger \ Denied(ledger) :
            \/ r.act \in world
            \/ LabelOf[r.act] \in LabelsOf({q \in ledger : q.seen = "broken" \/ q.owner})

\* A step with a required effect (done_criteria, effect_landed) is done only
\* when a call of that class went out and was not found missing, or the owner
\* vouched for the step; replans keep done steps but not their records' order.
EffectsEarned ==
    \A i \in DOMAIN plan :
        IsDone(plan[i]) /\ plan[i].want # "none" /\ ~plan[i].vouched =>
            \E r \in ledger : LabelOf[r.act] = plan[i].want /\ r.seen \notin {"none", "missing"}

\* No reply of the owner and no re-check turns a record a read-back has
\* verified into one that may be sent again (_pending_send_effects).
VerifiedStays == [][{r \in Forwarded(ledger) : r.seen = "landed"} \subseteq ledger']_vars

\* The ladder, the replans and the terminators bring every drive to its end
\* (the give-up sites of operator.py): done, parked, or escalated.
DriveEnds == at # "out" ~> at = "out"

\* A reply corrects only what it was about: a send the owner has confirmed is
\* not taken back by a later reply about another one (operator.py, 1229-1233).
ConfirmedStays == [][Confirmed(ledger) \subseteq Confirmed(ledger')]_vars

\* A run the gate has let finish has put every send without a read-back to the
\* owner (operator.py:1335-1336), unless a send of the same class has a broken
\* read-back or was confirmed: _gate_step tells them apart by label only.
DoubtsAreAsked ==
    status = "done" /\ closed = "gate" =>
        \A r \in Forwarded(ledger) :
            r.seen = "plain" =>
                \/ r.owner
                \/ LabelOf[r.act] \in LabelsOf({q \in ledger : q.seen = "broken" \/ q.owner})
=============================================================================
