------------------------------ MODULE Lifecycle ------------------------------
(***************************************************************************)
(* The life of one run, src/flowers/engine/operator.py: which threads may  *)
(* drive it, what is on disk while they do, and what wakes it when nobody  *)
(* does.  A request of the owner has a thread of its own                   *)
(* (channels/web.py, _spawn), the poller claims due timers and delivers    *)
(* them one by one (controlplane.py, tick; seams/timers.py, due).  All of  *)
(* them take the run's lock, but only after reading the run once without   *)
(* it; and the thread that holds the lock works on a copy of the run that  *)
(* reaches the store at a few points only.  A crash keeps the store and    *)
(* the timers and nothing else.                                            *)
(*                                                                         *)
(* What a step does is a free choice of its outcomes.  The plan is reduced *)
(* to the status of the first step that is not done.  Of several live      *)
(* timers of one kind one is kept.                                         *)
(***************************************************************************)
EXTENDS Naturals, FiniteSets

CONSTANTS
    Worker,         \* threads that serve the owner's requests
    Starter,        \* the one that drives the new run
    Poller, Nobody,
    MaxCards,       \* bound on the cards and escalations of a run
    MaxSteps,       \* bound on the steps and rungs a run takes
    MaxMessages,    \* bound on the owner's messages
    MaxMishaps      \* bound on crashes and escaped exceptions

ASSUME LifecycleAssumption ==
    /\ Starter \in Worker
    /\ Poller \notin Worker /\ Nobody \notin Worker \cup {Poller}
    /\ MaxCards \in Nat /\ MaxSteps \in Nat
    /\ MaxMessages \in Nat /\ MaxMishaps \in Nat

VARIABLES
    disk,       \* the stored run: its status and the card it is parked on
    step,       \* the stored plan: the status of its first unfinished step
    answered,   \* the stored answers of the cards
    pend, res,  \* the stored continuation: the card a grant is pending for,
                \* and whether a parked call is kept
    notes,      \* stored messages no step has read
    timers,     \* live timers
    holder,     \* the thread that holds the run's lock
    at,         \* how far the holder is
    mem, card,  \* the holder's run: its status, the card it is about to show
    approved,   \* history: its grant, as the card, the card shown, the card meant
    pc, msg,    \* the workers and the message each carries
    claimed,    \* timers the poller has claimed and not delivered
    recovering, \* the poller has yet to recover the run
    cards, steps, messages, mishaps,
    \* history: nothing in the code reads it
    lost,       \* claimed timers a crash lost
    torn,       \* a crash fell between saving a grant and its card
    overtaken   \* a re-verification has escalated the run

store == <<disk, step, answered, pend, res, notes>>
lock == <<holder, at, mem, card, approved>>
threads == <<pc, msg, claimed, recovering>>
bounds == <<cards, steps, messages, mishaps>>
history == <<lost, torn, overtaken>>
vars == <<store, timers, lock, threads, bounds, history>>

Thread == Worker \cup {Poller}
Texts == {"yes", "no", "words", "blank"}
Driving == {"pending", "planning", "running"}
Parked == {"clarifying", "awaiting_go", "awaiting_approval", "awaiting_connect",
           "waiting", "escalated"}
Status == Driving \cup Parked \cup {"done", "stopped"}
StepStatus == {"none", "pending", "running", "await", "watch", "failed", "done"}
Review == {"review", "send", "missing"}
CardKinds == {"clarify", "mandate", "approval", "preview", "undo"} \cup Review

CardIds == 1..MaxCards
NoCard == [id |-> 0, kind |-> "none"]
Cards == [id : CardIds, kind : CardKinds] \cup {NoCard}
Wakes == {"undo", "connect", "window", "check", "watch"}
Timer(k) == [kind |-> k, card |-> 0]
Reap(c) == [kind |-> "reap", card |-> c]
Timers == {Timer(k) : k \in Wakes \cup {"reverify"}} \cup {Reap(c) : c \in CardIds}
Wakers == {Timer(k) : k \in Wakes}

At(s, c) == [status |-> s, card |-> c]
NoGrant == [card |-> 0, shown |-> 0, meant |-> 0]

\* The run begin() created, and the thread that will drive it.
Init ==
    /\ disk = At("pending", NoCard) /\ step = "none"
    /\ answered = [c \in CardIds |-> "none"] /\ pend = 0 /\ res = FALSE
    /\ notes = 0 /\ timers = {}
    /\ holder = Nobody /\ at = "out" /\ mem = "none" /\ card = NoCard
    /\ pc = [w \in Worker |-> IF w = Starter THEN "queued" ELSE "idle"]
    /\ msg = [w \in Worker |-> [text |-> IF w = Starter THEN "goal" ELSE "none", meant |-> 0]]
    /\ claimed = {} /\ recovering = FALSE
    /\ cards = 0 /\ steps = 0 /\ messages = 0 /\ mishaps = 0
    /\ approved = NoGrant /\ lost = {} /\ torn = FALSE /\ overtaken = FALSE

-----------------------------------------------------------------------------
(* Under the lock.                                                         *)

\* Thread t goes on inside, at point p, with status s in its copy of the run.
Inside(t, p, s) ==
    /\ holder' = t /\ at' = p /\ mem' = s
    /\ pc' = IF t \in Worker THEN [pc EXCEPT ![t] = "inside"] ELSE pc

\* A lock that is not given back.
UnlockedNever ==
    /\ at' = "out" /\ mem' = "none" /\ card' = NoCard /\ approved' = NoGrant
    /\ UNCHANGED holder

Unlocked ==
    /\ holder' = Nobody /\ at' = "out" /\ mem' = "none" /\ card' = NoCard
    /\ approved' = NoGrant

\* Thread t is done with the run.
Leave(t) ==
    /\ Unlocked
    /\ pc' = IF t \in Worker THEN [pc EXCEPT ![t] = "idle"] ELSE pc
    /\ msg' = IF t \in Worker THEN [msg EXCEPT ![t] = [text |-> "none", meant |-> 0]] ELSE msg

Mint(kind) ==
    /\ cards < MaxCards
    /\ cards' = cards + 1 /\ card' = [id |-> cards + 1, kind |-> kind]

\* A card that asks; the bound leaves one for an escalation.
Ask(kind) == cards + 1 < MaxCards /\ Mint(kind)

\* _escalate: a new review card, its reaper armed before the run is saved.
Raise(t, kind) ==
    /\ Mint(kind) /\ Inside(t, "raising", "escalated")
    /\ UNCHANGED <<msg, approved>>

Continue(t, p, s) == Inside(t, p, s) /\ UNCHANGED <<card, cards, msg>>
Proceed(t, p, s) == Continue(t, p, s) /\ UNCHANGED approved
Return(t) == Leave(t) /\ UNCHANGED cards

More == steps < MaxSteps
\* The first unfinished step once the current one is done.
Onward == {"done"} \cup (IF More THEN {"pending"} ELSE {})
\* A step that keeps the mark of the drive that parked it.
UnparkNothing == step
Unpark == IF step = "running" THEN "pending" ELSE step
CancelAll == timers' = {}
\* One timer is enough, whatever it is for.
RearmIfNone(k) == timers' = IF timers = {} THEN {Timer(k)} ELSE timers
Rearm(k) == timers' = timers \cup {Timer(k)}
SaveRun(s, c) == disk' = At(s, c)

\* The answer handed in, else the one stored for the card.
Given(m) ==
    IF m # "none" \/ disk.card = NoCard THEN m ELSE answered[disk.card.id]

OnClarifying(t, m) ==
    /\ disk.status = "clarifying"
    /\ UNCHANGED <<step, pend, res, notes, timers>>
    /\ \/ Given(m) = "none" /\ Return(t) /\ UNCHANGED disk
       \/ Given(m) # "none" /\ Raise(t, "review") /\ UNCHANGED disk
       \/ Given(m) # "none" /\ Proceed(t, "planning", "planning")
          /\ SaveRun("planning", NoCard)

Elapsed(m, event) == disk.card.kind = "undo" /\ event = "timer" /\ Given(m) = "none"
Granted(m, event) == Elapsed(m, event) \/ Given(m) = "yes"

\* A yes, or an elapsed undo window: the pending grant becomes one, and the
\* parked call is performed.  The store still says awaiting_approval.
Approve(t, m, event, meant) ==
    /\ Granted(m, event)
    /\ approved' = [card |-> pend, shown |-> disk.card.id, meant |-> meant]
    /\ pend' = 0 /\ res' = FALSE
    /\ IF res /\ step = "running"
       THEN Continue(t, "performing", disk.status) /\ UNCHANGED step
       ELSE /\ Continue(t, "driving", IF res THEN "running" ELSE disk.status)
            /\ step' = IF res THEN step ELSE Unpark
    /\ UNCHANGED <<disk, notes>>

Decline(t, m, event) ==
    /\ ~Granted(m, event) /\ disk.card.kind # "preview"
    /\ Raise(t, "review")
    /\ UNCHANGED <<disk, step, pend, res, notes>>

\* A draft: no stops the run, any other reply is an edit.
Amend(t, m, event) ==
    /\ ~Granted(m, event) /\ disk.card.kind = "preview"
    /\ pend' = 0 /\ res' = FALSE
    /\ \/ Given(m) = "no" /\ SaveRun("stopped", NoCard) /\ CancelAll
          /\ Return(t) /\ UNCHANGED step
       \/ Given(m) # "no" /\ SaveRun("running", NoCard) /\ UNCHANGED timers
          /\ Proceed(t, "driving", "running") /\ step' = Unpark
    /\ UNCHANGED notes

OnApproval(t, m, event, meant) ==
    /\ disk.status = "awaiting_approval"
    /\ \/ disk.card = NoCard /\ Return(t)
          /\ UNCHANGED <<disk, step, pend, res, notes, timers>>
       \/ /\ disk.card # NoCard
          /\ \/ Approve(t, m, event, IF m # "none" THEN meant ELSE disk.card.id)
             \/ Decline(t, m, event)
          /\ IF disk.card.kind = "undo" THEN CancelAll ELSE UNCHANGED timers
       \/ disk.card # NoCard /\ Amend(t, m, event)

OnGo(t, m) ==
    /\ disk.status = "awaiting_go"
    /\ UNCHANGED <<step, pend, res, notes, timers>>
    /\ \/ Given(m) = "none" /\ Return(t) /\ UNCHANGED disk
       \/ Given(m) # "none" /\ Proceed(t, "driving", "running")
          /\ SaveRun("running", NoCard)

\* Connected, given up, or polled once more.
OnConnect(t) ==
    /\ disk.status = "awaiting_connect"
    /\ \/ /\ CancelAll /\ res' = FALSE /\ UNCHANGED step
          /\ IF res /\ step = "running"
             THEN Proceed(t, "performing", disk.status) /\ UNCHANGED disk
             ELSE /\ Proceed(t, "driving", "running")
                  /\ IF res THEN UNCHANGED disk ELSE SaveRun("running", NoCard)
       \/ CancelAll /\ res' = FALSE /\ Raise(t, "review") /\ UNCHANGED <<disk, step>>
       \/ Rearm("connect") /\ Return(t)
          /\ UNCHANGED <<disk, step, res>>
    /\ UNCHANGED <<pend, notes>>

\* The wait is over, is not, or has lasted too long.
OnWaiting(t, event) ==
    /\ disk.status = "waiting"
    /\ UNCHANGED <<disk, pend, res, notes>>
    /\ \/ step \notin {"await", "watch"} /\ Proceed(t, "driving", "running")
          /\ UNCHANGED <<step, timers>>
       \/ step \in {"await", "watch"} /\ CancelAll /\ Proceed(t, "driving", "running")
          /\ step' \in Onward
       \/ step \in {"await", "watch"} /\ event = "timer" /\ CancelAll
          /\ step' = "failed" /\ Raise(t, "review")
       \/ step = "await" /\ event # "timer" /\ Return(t) /\ UNCHANGED step
          /\ (UNCHANGED timers \/ (event = "check" /\ Rearm("check")))
       \/ step = "watch" /\ Return(t) /\ UNCHANGED step
          /\ (Rearm("watch") \/ (event # "timer" /\ UNCHANGED timers))

\* What a reply to an escalation can be taken for (denied and retry lead to
\* the same replan as guidance).
Intents(a) ==
    CASE a = "no"  -> {IF disk.card.kind = "send" THEN "guidance" ELSE "stop"}
      [] a = "yes" /\ disk.card.kind = "send" -> {"confirmed"}
      [] OTHER -> {"stop", "guidance"}
                  \cup (IF disk.card.kind = "review" THEN {} ELSE {"confirmed"})

StopEscalated(t) ==
    /\ SaveRun("stopped", NoCard) /\ CancelAll
    /\ Return(t) /\ UNCHANGED step

\* The owner saw the send arrive: its failed step is done after all.  With
\* steps left the run is driven on, whatever state they are in.
ConfirmEscalated(t) ==
    /\ step' \in IF step = "failed" THEN Onward ELSE {step}
    /\ IF step' \in {"done", "none"}
       THEN SaveRun("done", NoCard) /\ CancelAll /\ Return(t)
       ELSE SaveRun("running", NoCard) /\ UNCHANGED timers
            /\ Proceed(t, "driving", "running")

\* Without headroom nothing changes: the answered card stays.
ReplanEscalated(t) ==
    /\ UNCHANGED <<step, timers>>
    /\ \/ Return(t) /\ UNCHANGED disk
       \/ SaveRun("running", NoCard) /\ Proceed(t, "replanning", "running")

OnEscalated(t, m) ==
    /\ disk.status = "escalated"
    /\ UNCHANGED <<pend, res, notes>>
    /\ \/ /\ Given(m) \in {"none", "blank"}
          /\ Return(t) /\ UNCHANGED <<disk, step, timers>>
       \/ /\ Given(m) \notin {"none", "blank"}
          /\ \E i \in Intents(Given(m)) :
               \/ i = "stop" /\ StopEscalated(t)
               \/ i = "confirmed" /\ ConfirmEscalated(t)
               \/ i = "guidance" /\ ReplanEscalated(t)

\* A message for a run that turns out to be driving is a note; a run that is
\* done or stopped is left alone.
OnOther(t, m) ==
    /\ disk.status \in Driving \cup {"done", "stopped"}
    /\ notes' = IF disk.status \in Driving /\ m \in Texts \ {"blank"} THEN notes + 1 ELSE notes
    /\ Return(t)
    /\ UNCHANGED <<disk, step, pend, res, timers>>

Resume(t, m, event, meant) ==
    \/ OnClarifying(t, m) \/ OnApproval(t, m, event, meant) \/ OnGo(t, m)
    \/ OnConnect(t) \/ OnWaiting(t, event) \/ OnEscalated(t, m) \/ OnOther(t, m)

-----------------------------------------------------------------------------
(* The owner's requests.                                                   *)

\* ControlPlane.answer stores the text as the answer of the card it finds.
Post(w, text) ==
    /\ pc[w] = "idle" /\ messages < MaxMessages
    /\ messages' = messages + 1
    /\ pc' = [pc EXCEPT ![w] = "posted"]
    /\ msg' = [msg EXCEPT ![w] = [text |-> text, meant |-> disk.card.id]]
    /\ answered' = IF disk.card = NoCard THEN answered
                   ELSE [answered EXCEPT ![disk.card.id] = text]
    /\ UNCHANGED <<disk, step, pend, res, notes, timers, lock, claimed, recovering,
                   cards, steps, mishaps, history>>

\* resume() reads the status without the lock: a driving run gets a note.
ReadStatus(w) ==
    /\ pc[w] = "posted"
    /\ IF disk.status \in Driving /\ msg[w].text # "blank"
       THEN /\ notes' = notes + 1
            /\ pc' = [pc EXCEPT ![w] = "idle"]
            /\ msg' = [msg EXCEPT ![w] = [text |-> "none", meant |-> 0]]
       ELSE pc' = [pc EXCEPT ![w] = "queued"] /\ UNCHANGED <<notes, msg>>
    /\ UNCHANGED <<disk, step, answered, pend, res, timers, lock, claimed, recovering,
                   bounds, history>>

\* A message that waits until the run is parked.
EnterMessageParked(w) ==
    /\ pc[w] = "queued" /\ holder = Nobody /\ msg[w].text \in Texts
    /\ disk.status \in Parked
    /\ Resume(w, msg[w].text, "none", msg[w].meant)
    /\ UNCHANGED <<answered, claimed, recovering, steps, messages, mishaps, history>>

EnterMessage(w) ==
    /\ pc[w] = "queued" /\ holder = Nobody /\ msg[w].text \in Texts
    /\ Resume(w, msg[w].text, "none", msg[w].meant)
    /\ UNCHANGED <<answered, claimed, recovering, steps, messages, mishaps, history>>

\* run_pending, with the run object begin() returned.
EnterGoal(w) ==
    /\ pc[w] = "queued" /\ holder = Nobody /\ msg[w].text = "goal"
    /\ Proceed(w, "starting", "pending")
    /\ UNCHANGED <<store, timers, claimed, recovering, steps, messages, mishaps, history>>

\* fail(): an exception escaped from the thread's drive.
EnterFail(w) ==
    /\ pc[w] = "broken" /\ holder = Nobody
    /\ IF disk.status \in Driving THEN Raise(w, "review") ELSE Return(w)
    /\ UNCHANGED <<store, timers, claimed, recovering, steps, messages, mishaps, history>>

-----------------------------------------------------------------------------
(* The poller.                                                             *)

PollerFree == holder # Poller /\ ~recovering

\* due(): timers are marked fired before anything is done about them.
Claim(S) ==
    /\ PollerFree /\ claimed = {}
    /\ S # {} /\ S \subseteq timers
    /\ claimed' = S /\ timers' = timers \ S
    /\ UNCHANGED <<store, lock, pc, msg, recovering, bounds, history>>

\* Re-verification that reopens a run the owner closed.
DeliverReverifyAlways ==
    /\ PollerFree /\ holder = Nobody /\ Timer("reverify") \in claimed
    /\ claimed' = claimed \ {Timer("reverify")}
    /\ \/ Return(Poller) /\ UNCHANGED overtaken
       \/ Raise(Poller, "missing") /\ overtaken' = TRUE
    /\ UNCHANGED <<store, timers, recovering, steps, messages, mishaps, lost, torn>>

\* Re-verification that settles the run's timers with the send.
DeliverReverifyCancels ==
    /\ PollerFree /\ holder = Nobody /\ Timer("reverify") \in claimed
    /\ claimed' = claimed \ {Timer("reverify")}
    /\ \/ Return(Poller) /\ CancelAll /\ UNCHANGED overtaken
       \/ disk.status # "stopped" /\ Raise(Poller, "missing") /\ UNCHANGED timers
          /\ overtaken' = TRUE
    /\ UNCHANGED <<store, recovering, steps, messages, mishaps, lost, torn>>

DeliverReverify ==
    /\ PollerFree /\ holder = Nobody /\ Timer("reverify") \in claimed
    /\ claimed' = claimed \ {Timer("reverify")}
    /\ \/ Return(Poller) /\ UNCHANGED overtaken
       \/ disk.status # "stopped" /\ Raise(Poller, "missing") /\ overtaken' = TRUE
    /\ UNCHANGED <<store, timers, recovering, steps, messages, mishaps, lost, torn>>

\* Any answer of the run, whatever it answered.
ReapableUnanswered(c) ==
    /\ disk.status = "escalated" /\ disk.card.id = c
    /\ \A d \in CardIds : answered[d] = "none"

Reapable(c) ==
    disk.status = "escalated" /\ disk.card.id = c /\ answered[c] = "none"

DeliverReap(c) ==
    /\ PollerFree /\ holder = Nobody
    /\ Timer("reverify") \notin claimed /\ Reap(c) \in claimed
    /\ claimed' = claimed \ {Reap(c)}
    /\ IF Reapable(c) THEN SaveRun("stopped", NoCard) /\ CancelAll
       ELSE UNCHANGED <<disk, timers>>
    /\ Return(Poller)
    /\ UNCHANGED <<step, answered, pend, res, notes, recovering, steps, messages,
                   mishaps, history>>

\* One resume for the run in a tick; a check gives way to any other timer.
DeliverWake ==
    /\ PollerFree /\ holder = Nobody
    /\ claimed # {} /\ claimed \subseteq Wakers
    /\ claimed' = {}
    /\ Resume(Poller, "none", IF claimed = {Timer("check")} THEN "check" ELSE "timer", 0)
    /\ UNCHANGED <<answered, recovering, steps, messages, mishaps, history>>

\* A run found running or planning at startup is driven again from its plan.
Recover ==
    /\ recovering /\ holder = Nobody
    /\ recovering' = FALSE
    /\ \/ /\ disk.status \in {"running", "planning"} /\ step = "none"
          /\ Raise(Poller, "review") /\ UNCHANGED step
       \/ /\ disk.status \in {"running", "planning"} /\ step # "none"
          /\ step' = Unpark /\ Proceed(Poller, "driving", disk.status)
       \/ /\ disk.status \notin {"running", "planning"}
          /\ Return(Poller) /\ UNCHANGED step
    /\ UNCHANGED <<disk, answered, pend, res, notes, timers, claimed, steps, messages,
                   mishaps, history>>

-----------------------------------------------------------------------------
(* The holder's work.                                                      *)

Stay(p) == at' = p /\ UNCHANGED <<holder, mem, pc, msg, approved>>
Work == UNCHANGED <<answered, claimed, recovering, messages, mishaps, history>>

\* _run_pending: refuse, ask, or plan.
Start ==
    /\ at = "starting"
    /\ \/ Raise(holder, "review") /\ UNCHANGED disk
       \/ Ask("clarify") /\ Stay("carding") /\ UNCHANGED disk
       \/ SaveRun("planning", NoCard) /\ Proceed(holder, "planning", "planning")
    /\ Work /\ UNCHANGED <<step, pend, res, notes, timers, steps>>

SavePlan ==
    /\ at = "planning"
    /\ step' = "pending" /\ Stay("planned")
    /\ Work /\ UNCHANGED <<disk, pend, res, notes, timers, card, cards, steps>>

\* The mandate card, or straight to the first step.
Planned ==
    /\ at = "planned"
    /\ \/ Ask("mandate") /\ Stay("carding") /\ UNCHANGED disk
       \/ SaveRun("running", NoCard) /\ Proceed(holder, "driving", "running")
    /\ Work /\ UNCHANGED <<step, pend, res, notes, timers, steps>>

Replanned ==
    /\ at = "replanning"
    /\ \/ More /\ step' = "pending" /\ Proceed(holder, "driving", "running")
          /\ UNCHANGED <<disk, timers>>
       \/ Raise(holder, "review") /\ UNCHANGED <<disk, step, timers>>
       \/ SaveRun("done", NoCard) /\ CancelAll /\ Return(holder) /\ UNCHANGED step
    /\ Work /\ UNCHANGED <<pend, res, notes, steps>>

\* _drive with no step ready: all are done, or one is parked.
NothingReady ==
    /\ at = "driving" /\ step # "pending"
    /\ SaveRun(IF step = "done" THEN "done" ELSE mem, NoCard)
    /\ Return(holder)
    /\ Work /\ UNCHANGED <<step, pend, res, notes, timers, steps>>

\* A step of a waiting kind: its timers, then the plan, then the run.
ArmWait ==
    /\ at = "driving" /\ step = "pending"
    /\ \/ Stay("await")
          /\ timers' \in {timers \cup {Timer("window")},
                         timers \cup {Timer("check"), Timer("window")}}
       \/ Stay("watch") /\ Rearm("watch")
    /\ Work /\ UNCHANGED <<disk, step, pend, res, notes, card, cards, steps>>

SaveWaitingStep ==
    /\ at \in {"await", "watch"}
    /\ step' = at /\ Stay("waiting")
    /\ Work /\ UNCHANGED <<disk, pend, res, notes, timers, card, cards, steps>>

SaveWaitingRun ==
    /\ at = "waiting"
    /\ SaveRun("waiting", NoCard) /\ Return(holder)
    /\ Work /\ UNCHANGED <<step, pend, res, notes, timers, steps>>

\* The step starts; the owner's notes are folded in.
RunStep ==
    /\ at = "driving" /\ step = "pending" /\ More
    /\ steps' = steps + 1
    /\ step' = "running" /\ notes' = 0 /\ Stay("stepping")
    /\ Work /\ UNCHANGED <<disk, pend, res, timers, card, cards>>

InStep == at \in {"stepping", "performing"}

\* Counters of the mandate or of the replans are saved with the run.
Checkpoint ==
    /\ InStep
    /\ SaveRun(mem, NoCard)
    /\ Stay(at)
    /\ Work /\ UNCHANGED <<step, pend, res, notes, timers, card, cards, steps>>

\* The gate accepts; a send that could not be read back is checked later.
StepAccepted ==
    /\ InStep
    /\ step' \in Onward
    /\ timers' \in {timers, timers \cup {Timer("reverify")}}
    /\ Stay("driving")
    /\ Work /\ UNCHANGED <<disk, pend, res, notes, card, cards, steps>>

\* The next rung of the ladder, or a replan: both read the notes.
StepAgain ==
    /\ at = "stepping" /\ More
    /\ steps' = steps + 1 /\ notes' = 0
    /\ \/ Stay("stepping") /\ UNCHANGED step
       \/ Stay("driving") /\ step' = "pending"
    /\ Work /\ UNCHANGED <<disk, pend, res, timers, card, cards>>

\* The step failed, or the budget or the deadline is spent.
StepEscalates ==
    /\ InStep
    /\ \/ step' = "failed" /\ (Raise(holder, "review") \/ Raise(holder, "send"))
       \/ UNCHANGED step /\ Raise(holder, "review")
    /\ Work /\ UNCHANGED <<disk, pend, res, notes, timers, steps>>

\* A resumed step that parks again does not save its continuation.
StepParksOnce ==
    /\ InStep
    /\ \E k \in {"approval", "preview", "undo"} : Ask(k)
    /\ IF at = "stepping" THEN pend' = cards + 1 /\ res' = TRUE ELSE UNCHANGED <<pend, res>>
    /\ Stay("carding")
    /\ Work /\ UNCHANGED <<disk, step, notes, timers, steps>>

\* The continuation is saved before the card it belongs to.
StepParks ==
    /\ InStep
    /\ \E k \in {"approval", "preview", "undo"} : Ask(k)
    /\ pend' = cards + 1 /\ res' = TRUE
    /\ Stay("carding")
    /\ Work /\ UNCHANGED <<disk, step, notes, timers, steps>>

CardStatus(k) ==
    CASE k = "clarify" -> "clarifying"
      [] k = "mandate" -> "awaiting_go"
      [] OTHER -> "awaiting_approval"

ShowCard ==
    /\ at = "carding"
    /\ SaveRun(CardStatus(card.kind), card)
    /\ IF card.kind = "undo" THEN Proceed(holder, "undoing", mem) ELSE Return(holder)
    /\ Work /\ UNCHANGED <<step, pend, res, notes, timers, steps>>

StepConnects ==
    /\ InStep
    /\ res' = TRUE /\ Stay("connecting")
    /\ Work /\ UNCHANGED <<disk, step, pend, notes, timers, card, cards, steps>>

SaveConnect ==
    /\ at = "connecting"
    /\ SaveRun("awaiting_connect", NoCard) /\ Stay("polling")
    /\ Work /\ UNCHANGED <<step, pend, res, notes, timers, card, cards, steps>>

\* The undo window and the connect poll are armed after the run is saved.
ArmPark ==
    /\ at \in {"undoing", "polling"}
    /\ Rearm(IF at = "undoing" THEN "undo" ELSE "connect")
    /\ Return(holder)
    /\ Work /\ UNCHANGED <<disk, step, pend, res, notes, steps>>

\* The reaper that is armed already will do.
ArmReaperOnce ==
    /\ at = "raising" /\ Stay("raised")
    /\ timers' = IF \E c \in CardIds : Reap(c) \in timers THEN timers
                 ELSE timers \cup {Reap(card.id)}
    /\ Work /\ UNCHANGED <<disk, step, pend, res, notes, card, cards, steps>>

ArmReaper ==
    /\ at = "raising"
    /\ timers' = timers \cup {Reap(card.id)} /\ Stay("raised")
    /\ Work /\ UNCHANGED <<disk, step, pend, res, notes, card, cards, steps>>

SaveEscalated ==
    /\ at = "raised"
    /\ SaveRun("escalated", card) /\ Return(holder)
    /\ Work /\ UNCHANGED <<step, pend, res, notes, timers, steps>>

HolderWorks ==
    \/ Start \/ SavePlan \/ Planned \/ Replanned \/ NothingReady
    \/ ArmWait \/ SaveWaitingStep \/ SaveWaitingRun
    \/ RunStep \/ StepAccepted \/ StepAgain \/ StepEscalates
    \/ StepParks \/ ShowCard \/ StepConnects \/ SaveConnect \/ ArmPark
    \/ ArmReaper \/ SaveEscalated

-----------------------------------------------------------------------------
Mishap == mishaps < MaxMishaps /\ mishaps' = mishaps + 1

\* An exception escapes from the drive: a request's thread goes on to fail
\* the run, the poller goes on with its next timer.
Escape ==
    /\ at \in {"starting", "planning", "driving", "replanning", "stepping", "performing"}
    /\ Mishap
    /\ Unlocked
    /\ pc' = IF holder \in Worker THEN [pc EXCEPT ![holder] = "broken"] ELSE pc
    /\ UNCHANGED <<store, timers, msg, claimed, recovering, cards, steps, messages, history>>

\* The process dies and is started again.
Crash ==
    /\ Mishap
    /\ Unlocked
    /\ pc' = [w \in Worker |-> "idle"]
    /\ msg' = [w \in Worker |-> [text |-> "none", meant |-> 0]]
    /\ claimed' = {} /\ lost' = lost \cup claimed
    /\ recovering' = (disk.status \in {"running", "planning"})
    /\ torn' = (torn \/ at = "carding")
    /\ UNCHANGED <<store, timers, cards, steps, messages, overtaken>>

PollerActs ==
    \/ \E S \in SUBSET timers : Claim(S)
    \/ DeliverReverify \/ DeliverWake \/ Recover
    \/ \E c \in CardIds : DeliverReap(c)

WorkerActs(w) == ReadStatus(w) \/ EnterGoal(w) \/ EnterMessage(w) \/ EnterFail(w)

Next ==
    \/ \E w \in Worker : WorkerActs(w) \/ (\E text \in Texts : Post(w, text))
    \/ PollerActs \/ HolderWorks \/ Checkpoint
    \/ Escape \/ Crash

Spec == Init /\ [][Next]_vars

\* A drive goes on while its steps end, a thread that waits for the lock gets
\* it in the end, and a timer's time comes and the poller claims it.
Fairness ==
    /\ WF_vars(HolderWorks)
    /\ \A w \in Worker : SF_vars(WorkerActs(w))
    /\ SF_vars(DeliverReverify \/ DeliverWake \/ Recover \/ \E c \in CardIds : DeliverReap(c))
    /\ SF_vars(\E S \in SUBSET timers : S \cap Wakers # {} /\ Claim(S))
    /\ SF_vars(\E S \in SUBSET timers : Reap(disk.card.id) \in S /\ Claim(S))

FairSpec == Spec /\ Fairness
-----------------------------------------------------------------------------
(* Properties.                                                             *)

Points == {"out", "starting", "planning", "planned", "replanning", "driving",
           "stepping", "performing", "await", "watch", "waiting", "carding", "undoing",
           "connecting", "polling", "raising", "raised"}

TypeOK ==
    /\ disk \in [status : Status, card : Cards] /\ step \in StepStatus
    /\ answered \in [CardIds -> Texts \cup {"none"}]
    /\ pend \in 0..MaxCards /\ res \in BOOLEAN /\ notes \in Nat
    /\ timers \subseteq Timers /\ claimed \subseteq Timers /\ lost \subseteq Timers
    /\ holder \in Thread \cup {Nobody} /\ at \in Points /\ (holder = Nobody <=> at = "out")
    /\ mem \in Status \cup {"none"} /\ (mem = "none" <=> at = "out") /\ card \in Cards
    /\ pc \in [Worker -> {"idle", "posted", "queued", "inside", "broken"}]
    /\ msg \in [Worker -> [text : Texts \cup {"goal", "none"}, meant : 0..MaxCards]]
    /\ recovering \in BOOLEAN /\ torn \in BOOLEAN /\ overtaken \in BOOLEAN
    /\ cards \in 0..MaxCards /\ steps \in 0..MaxSteps
    /\ messages \in 0..MaxMessages /\ mishaps \in 0..MaxMishaps
    /\ approved \in [card : 0..MaxCards, shown : 0..MaxCards, meant : 0..MaxCards]

\* A stopped run stays stopped: no timer, note, late answer, re-verification,
\* failure or recovery brings it back.
StoppedIsFinal == [][disk.status = "stopped" => disk' = disk]_vars

\* Every escalation nobody answered has a reaper on its way, crashes between
\* the steps of _escalate included; only a timer claimed before a crash is lost.
EscalationHasReaper ==
    disk.status = "escalated" /\ answered[disk.card.id] = "none"
      => Reap(disk.card.id) \in timers \cup claimed \cup lost

\* A run that waits for a timer has one, unless something died underneath.
ParkedHasTimer ==
    disk.status \in {"waiting", "awaiting_connect"} /\ holder = Nobody
      => (timers \cup claimed) \cap Wakers # {} \/ mishaps > 0

\* A grant is for the card on the screen, and a card on the screen has its
\* grant pending; a crash inside a park or a drive excepted.
GrantFitsCard ==
    /\ approved.card \in {0, approved.shown} \/ torn
    /\ disk.status = "awaiting_approval" /\ holder = Nobody /\ mishaps = 0
         => disk.card # NoCard /\ pend = disk.card.id /\ res

\* docs/API.md:65, "a yes authorizes only the exact action shown".  A yes that
\* waits for the lock is taken for the card it finds there.
YesIsForItsCard == approved.meant # 0 => approved.card \in {0, approved.meant}

\* A run that is running is being driven, is about to be, or has an owner's
\* thread that will fail it; nothing is said of a run that met a mishap.  The
\* code has one exception: a re-verification escalates a run whose step is parked
\* or waiting, the owner confirms (_confirm_escalated), and the driver, with that
\* step still unfinished and nothing ready, leaves; no message makes it go on.
RunningIsDriven ==
    disk.status = "running" /\ holder = Nobody =>
        \/ recovering \/ \E w \in Worker : pc[w] = "broken"
        \/ overtaken /\ step \in {"running", "await", "watch"}
        \/ mishaps > 0

\* Nothing the owner writes waits for ever.
MessagesHandled == \A w \in Worker : pc[w] # "idle" ~> pc[w] = "idle"

\* An escalation the owner never answers is closed.
EscalationsClose == \A c \in CardIds :
    (disk.status = "escalated" /\ disk.card.id = c)
      ~> (disk.card.id # c \/ answered[c] # "none")

\* A run that waits for a timer has the timer delivered.
WaitsEnd ==
    disk.status \in {"waiting", "awaiting_connect"}
      ~> (claimed \cap Wakers # {} \/ disk.status \notin {"waiting", "awaiting_connect"})
=============================================================================
