# A verification project for flowers

flowers is a single-user agent. The owner states a goal; a planner turns it
into steps, an executor lets a language model call tools, and everything that
leaves the process goes through one broker. This directory keeps TLA+ models of
that machinery, the TLC configurations that check them on small instances, and
TLAPS proofs of the properties that must hold for every instance. Paths below
are relative to `src/flowers/`.

## 1. Inventory

### Parts, their state, their operations

| Part | State | Operations | Model |
|---|---|---|---|
| Broker (`broker.py`) | `_forwarded_gks`, `_verified_gks`, `mandate_counts`, one object per executor loop | `call_integration`, `call_browser`, `perform_pending` | `Broker`, `Egress` |
| Policy (`policy.py`) | none | `classify`, `is_refused`, `is_side_effecting` | `Policy` |
| Mandate (`mandate.py`) | scope and caps in the run, counters in the continuation | `covers`, `learned_covers`, `bump`; `parse_mandate`, `owner_grant`, `fast_path_goal`, `host_admits` | `Mandate` (the first three), `Autonomy` |
| Executor (`engine/executor.py`) | messages of one loop, tool budget | `run`, `resume`, `_dispatch` | inside `Broker` |
| Operator (`engine/operator.py`) | in memory per run: grants, pending grant, resume state, sandbox, discovered addresses; a lock per run | `begin`, `run_pending`, `resume`, `recover`, `fail`, `reap`, `reverify` | step settlement and owner authority inside `Broker`; the life of a run in `Lifecycle`; the drive over the plan in `Steps`; intake and the scope of a run in `Autonomy`; what a waiting step polls in `Watch` |
| Trust gate (`trustgate.py`, `effects.py`) | none | `classify_effects`, `landed_effects`, `gate_verdict` over the effect records | `TrustGate`, used by `Steps` |
| Planner, ladder (`engine/planner.py`, `types.py`) | the plan graph, rung per step, replan count | `plan`, `replan`, `ready_indices`, `_climb_ladder` | `Steps` |
| Timers, control plane (`seams/timers.py`, `controlplane.py`) | rows with `fired`, `cancelled` | `schedule`, `due`, `cancel_for_run`, `tick`, orphan recovery | `Lifecycle` (who is woken), `Watch` (when, and by which timer) |
| Store (`seams/store.py`) | runs, plans, effects, approvals and answers, usage, continuations, events, notes, memory, trust | one short transaction each | durable variables of the models; the event log in `EventStream` |
| Web channel (`channels/web.py`, `channels/static/index.html`) | spawned worker threads, SSE cursors; the page's `lastId` and `terminal` | `post_goal`, `post_answer`, `sse`; `connect`, `reattach` | the threads in `Lifecycle`; the stream and the page in `EventStream`, `Feed` |
| Demo launcher (`src/deploy/launcher/launcher.py`, `src/deploy/demo/wrapper.py`) | sessions, operator-funded slots, launches within the hour, all in memory; machines at the provider | `create_session`, `delete_session`, `proxy`, `_reaper`, `_watchdog` | `Launcher` |
| Clarifier, verifier, announcer, replies, memory | none that outlives a call, but the memory text | calls to a language model | free choices of the models |
| Integrations, browser, search, sandbox, model seams | remote | adapters | free choices of the models |

### How they interact

A request of the owner runs on a worker thread of its own (`web._spawn`), a
poller thread ticks the control plane, and both reach the operator, which
serialises a run by a lock (`_locked_run`) but reads some state outside it. The
operator drives steps; each step builds a fresh broker from the ledger in the
store, and settles the broker's findings when the step is over. A step that
needs the owner parks: the continuation (grants, pending grant, resume state) is
saved, a card is shown, timers are armed, the thread ends. An answer or a timer
brings the run back on another thread. When no step is left the trust gate
reads the ledger and decides between done, ask the owner, and fail.

### What is hard

* **Duplicate effects.** A send must not be repeated by a retry, a rung of the
  ladder, a replan, a resume or a restart, though every step has a new broker.
* **Authority.** Six ways lead to the wire (a yes, a preview, an elapsed undo
  window, a mandate, learned trust, an automatic tier); they are tested in one
  order and a grant survives across steps.
* **Scope.** What may be done unasked comes from text, partly quoted, from a model's
  proposal, from a card and from pages; it lives in memory, on disk and in a broker.
* **Caps** live in memory and are saved at settlement.
* **Crashes** between the provider's acceptance and the append, between a timer's
  claim and its delivery, between an answer and the next save.
* **Threads**: a second answer, a note, a timer, a re-verification, each racing
  a drive.
* **Truth**: the gate must not call a run done on an effect nobody saw.
* **Waits** live for days: their polls, streaks and digests are in a step's params,
  saved on some paths only, and any wake-up of the run reaches whatever wait it is in.
* **The page** reads a log in calls of its own, while the run ends.
* **Awaits** of the launcher: what it knew before one need not hold after it.

`PROJECT.json` lists these hazards at their lines.

### What makes each part correct

* Broker: at most one effect per exact action; no effect without authority; caps.
* Operator: a terminal status is final; a parked run has a card and can be
  answered; no owner message is lost; a run that can progress does.
* Mandate: nobody is written to unasked whom the owner, or his organisation's own
  page, has not vouched for.
* Timers: a WAITING run has a live timer; a claimed timer is delivered; a wait ends, and
  for what was read.
* Gate: done implies every side effect is confirmed or was put to the owner.
* Plan: steps run after their dependencies; the ladder terminates.
* Stream: a client that reads to the end has seen every event in order.
* Launcher: a slot is given back once; the reaper takes nobody's machine; machines end.

## 2. Plan

Order: what leaves the process first, then who may drive a run, then what the
program says of it.

1. `Policy`, `Mandate`, `Broker`, `Egress` and their proofs: **done**.
2. `Lifecycle`, waits included, and `LifecycleProofs`: **done**, the hazards without a
   property excepted.
3. `TrustGate` and `Steps`, the gate and the plan with its ladder, and `StepsProofs`: **done**.
   To come: what a denial must lead to; the re-check every broken read-back should have.
4. `Autonomy`, how a run comes by its scope, and `AutonomyProofs`: **done**.
5. `Watch`, what a run waits for, and `WatchProofs`: **done**.
6. `EventStream`, which implements `Feed`, and `EventStreamProofs`: **done**.
7. `Launcher` and `LauncherProofs`: **done**.
8. To come: the read-back derived from its base line and polls (`effects.py`), now a
   free verdict in `Broker` and `Steps`.

Abstract specifications worth stating: `Egress` (done); a run as a status
machine with one owner, implemented by `Lifecycle`; a log read by a cursor,
`Feed` (done). Every safety property the runs check is proved. Worth proving next: that
refinement of the status machine, and what the hazards without a property ask for.

## 3. The broker

### Correspondence

`Broker` follows one run. The broker object is `forwarded`, `verified`,
`counts`; the step result is `effects` and `park`; the store is `ledger` (the set
of evidence each exact action is recorded with), `savedCounts` and `trust`; the
continuation is `grants`, `pending`, `resume`; the card is `asked`. `mode` is the
run's `mandate_auto` flag, whether the mandate has an undo window, and its three
caps. `phase` is where the driver is: `ready` between steps, `loop` in the executor,
`settle` and `record` in `_run_generic_step` and `_handle_step_result`, `parking`
between saving the continuation and showing the card, and the idle phases: among
them `stalled` (RUNNING, and no step is ready), `escalated`, and `asking` for an
escalation that asks whether a send arrived. `about` is the send a re-check asks
about, `NoAction` when the gate asks; `spent` says that the budget or the
deadline has run out, which nothing in the code undoes.

The remaining variables are history. `sent` counts what took effect outside,
`excused` the reasons for which one more effect is legitimate, `yes` and
`released` the cards answered and windows elapsed, `wire` the action the last
step handed to the provider, `auto` and `missed` the mandate-covered sends and
those a crash left uncounted.

A broker call is one action per outcome: `Refuse`, `Replay` (the short-circuit),
`Ask` (preview, undo notice or approval), `NotConnected`, `ExecuteFails` (with or
without the effect having happened), `Forward` with the verdict of the read-back,
`Read`. Their guards are the tests of `call_integration` in its order; a browser
call differs by the guards that mention `Browser`. The verdicts are `landed`,
`plain` (cannot be verified), `broken` (the read-back itself failed) and `missing`
(not shown by the last poll). A missing send may still have landed, later than the polls
waited: the code re-opens it all the same, so that case counts as a mishap and excuses
one more. Then `SaveCounts`, `RecordEffect` (one append each, a crash may
fall between two), `StepOver`, or `SaveContinuation` and `ShowCard`. The owner's
side is `OwnerYes`, `OwnerDeclines`, `OwnerAmends` (a draft stopped or edited),
`OwnerGuides`, `OwnerConfirms` ("it arrived"), `OwnerDenies` ("it never arrived"),
`OwnerStops`, `Connected`, `ConnectGivesUp`; `UndoElapses` is the undo timer,
`RecheckMisses` the re-verification that proves a broken send missing, `Crash` the
end of the process or of the thread, `Recover` the start of the next one.

`BudgetSpent` is the return at `operator.py:1093-1100`: the run is escalated, and the
effects of the step are in no ledger. It is not the run's end. Guidance and a denial
look at the budget and stay where they are, but a re-check armed by an earlier step
may ask its question over that escalation, and "it arrived" then drives the run on
with no look at the budget (`_confirm_escalated`); so does a recovery of a run that
was RUNNING. The next broker is seeded without the lost effects and may send
them again: each such loss is an excuse in `excused`.

Exact actions are model values: a grant key is a digest of toolkit, slug and
parameters, and byte-identical parameters are what identity means there. The
tier of an action, its class label, recipients and domains are functions of it.

### Properties

| Property | Says |
|---|---|
| `TypeOK` | types, and the tool budget of a step |
| `NoDoubleSend` | effects of an exact action never exceed one plus its excuses (a record lost in a crash or with a step that found the budget or the deadline spent, a provider's answer lost, a read-back that never showed what landed, the owner's report); until a step has found the budget or the deadline spent, they never exceed one plus the run's mishaps. Proved; the first half is on small instances implied by `AtMostOnce` |
| `KnownStaysDone` | what the ledger holds as accepted never goes on the wire again |
| `Authorized` | what needs the owner goes out with a yes to that very action, or, below NEVER, an elapsed undo notice, the mandate's cover, or learned trust without third parties |
| `DraftsShown` | under an auto-committed mandate a delivering send waits for a yes to its draft |
| `CapsHold` | the mandate's caps bound what really went out, in all, to each recipient and to each domain; only sends a crash left uncounted exceed them |
| `LedgerComplete` | when a step is over, what went out unexcused is in the ledger |
| `AtMostOnce` | `Broker` implements `Egress` |

The budget return is excused in `LedgerComplete`, `NoDoubleSend` and `AtMostOnce`, though
the comment at `operator.py:1102` says why the append must come before an early return,
and though `docs/STATUS.md:78` promises "no duplicate across retries/replans/restarts"
but for a crash. With `MaxMishaps = 0` TLC refutes `\A a \in Action : sent[a] <= 1`. Such a
run in the code: a step sends a mail, its read-back is broken, the step is accepted and
arms the re-check (1220); the next step sends something else and finds the budget spent;
the re-check proves the mail missing, the owner says it did arrive, and the drive goes
on with a broker that does not know the second send. What does hold is the second half
of `NoDoubleSend`.

### Runs and bounds

* `broker`: two mails of a class under a mandate, one to `ann` and one to `ann` and
  `bob`, all in one domain; a label class that can be learned; a deletion on the
  NEVER floor through the browser, with an override that tries to waive it; a refused
  purchase; a look-up. The initial states are three mandates, one committed without a
  card, one with an undo window, one with neither. Each covers either mail alone, and
  after one of them a different cap decides on the other: one send in all; one
  to each recipient, and `ann` gets both; two to the domain, and the mails
  reach three. So a cap that is not tested, or a counter that is lost, is seen in
  `CapsHold`, which the digest test of a repeated call cannot stand in for. Read-backs
  (`ReadBack`) are chosen for each action: one mail is confirmed, the other is broken or
  never shown, the rest cannot be verified. Two calls a step are enough for a send
  and its repetition in one broker, two answers for a yes after a decline, an edit, a
  confirmation or a denial; one mishap is a crash, a lost reply, a late read-back or
  a denial.

Bounds are `MaxCalls` (the code's own tool budget), `MaxMishaps` and `MaxAnswers`.
The number of steps is not bounded: a run may loop through `ready` for ever.
`CHECK_DEADLOCK FALSE`, because a closed run stops. No fairness is assumed, for no
liveness is claimed of this module.

### Proofs

`BrokerProofs` and `BrokerScopeProofs` prove every property above for all values of the
constants, every set of mandates among them, from the assumptions `PolicyAssumption`, `MandateAssumption` and
`BrokerAssumption`, without bounding steps, calls, answers or mishaps.

* `TypeCorrect` is inductive as it stands.
* `NoDoubleSend` is not: it says nothing of where the memory of a send is. `OnceInv`
  adds that a sent action is either excused or *held* (in the ledger or in the
  unsettled effects), and that in a loop everything held is in the broker's
  memory. So a cleared action is not held and its effects are all excused. A crash
  and a budget return release held actions, and excuse exactly those. The second
  half needs `ExcusesCounted`: before a budget return every excuse is a mishap.
* `KnownStaysDone` follows: a cleared action is not held, hence not in the ledger.
* `LedgerComplete` follows too: in an idle phase no effects are unsettled, so what is
  held is in the ledger.
* `Authorized` and `DraftsShown` rest on `AuthInv`: grants are among the answered and
  released actions; only an ASK-tier action gets an undo window, and never one
  that needs a draft; while a card is shown the pending grant is the one on it;
  learned trust has a yes behind it.
* `CapsHold` rests on `CapInv`: the live counters in a loop and the saved ones outside
  it are within the caps and account for all covered sends but the missed ones.
* `BrokerImplementsEgress` maps each step to a send, an unseen send, an excuse or
  a stutter; a cleared action satisfies the abstract guard by `OnceInv`.

### Not in the model

How the mandate and its scope come about (section 6: here they are constants);
owner replies other than yes, no, edits, guidance and "it never arrived"; tools
that do not reach the broker; the seconds of an undo window (an undo card parked
by a resumed loop carries no release time, `executor.py:191`, so there the release
never happens: the model allows more). Here a yes answers the card on the screen;
that a second message may reach another card is shown by `Lifecycle`. The re-check is
allowed for every broken record and as often as the owner answers; the code arms
one timer for each broken send of a step it accepts (1220), so the model allows more.

## 4. The life of a run

### Correspondence

`Lifecycle` follows one run and asks who drives it, what is on disk meanwhile, and
what wakes it afterwards.

| Variable | Code |
|---|---|
| `disk` | the stored run: `status`, `pending_approval` (an id and a kind) |
| `step` | the stored plan, reduced to the status of its first unfinished step |
| `answered` | the approvals' stored answers |
| `pend`, `res` | the continuation: the pending grant (as the card it is for), `resume_state` |
| `notes` | owner notes not yet consumed |
| `timers`, `claimed` | rows of the timer table that are live; those `due()` returned to the poller |
| `holder`, `at` | the holder of the run's lock, and where it is |
| `mem`, `card` | the holder's own run object: its status, the card it made |
| `pc`, `msg` | the web worker threads and the message of each |
| `recovering` | startup found the run in `stalled_run_ids` |

Owner's side: `Post` (`ControlPlane.answer`), `ReadStatus` (the look at the status
that `Operator.resume` takes before the lock), then `EnterMessage`, which is
`Resume` with one branch per status. `EnterGoal` is `run_pending`, `EnterFail` is `fail`.
Poller's side: `Claim`, then `DeliverReverify`, `DeliverReap`, `DeliverWake` in the
order of `tick`, one resume a tick. `Recover` comes first after a crash.

The holder's side cuts the drive wherever the store is written: `SavePlan`,
`ArmWait`/`SaveWaitingStep`/`SaveWaitingRun`, `StepParks`/`ShowCard`/`ArmPark`,
`StepConnects`/`SaveConnect`/`ArmPark`, `Raise`/`ArmReaper`/`SaveEscalated`. A crash
or another thread's unlocked read may fall between any two. `Checkpoint` is a
save in the middle of a step, of a copy whose card is gone and whose status is
the one it had when the drive began. `Escape` is an exception that leaves the
drive; the worker then goes on to `EnterFail`, the poller to its next timer.

Abstractions: what a step, the gate, the planner, the clarifier and the intent
classifier decide is a free choice of outcome. Of several live timers of one kind
one is kept. `Post` reads the card and stores the answer in one step.
History variables: `approved` (the grant in use: the card it was pending for, the
card on the screen, the card the owner meant), `lost` (claimed and dropped by a
crash), `torn` (a crash between the continuation and the card), `overtaken` (a
re-verification has escalated the run).

### Properties

| Property | Says |
|---|---|
| `TypeOK` | types; the lock has a holder exactly when somebody works |
| `StoppedIsFinal` | nothing changes a stopped run: no timer, note, late answer, re-verification, failure or recovery |
| `EscalationHasReaper` | an unanswered escalation has its own reaper armed or claimed, crashes between the steps of `_escalate` included |
| `ParkedHasTimer` | a run that waits for a timer, and that nobody holds, has one |
| `GrantFitsCard` | a grant is for the card on the screen, and the card on the screen has its pending grant and its resume state |
| `RunningIsDriven` | a run that is running is driven, or is about to be |
| `MessagesHandled` | every message's thread ends |
| `EscalationsClose` | an escalation without an answer is closed, or replaced |
| `WaitsEnd` | a run that waits has a timer delivered |

`StoppedIsFinal` is not stated of `done`: `_reverify` reopens a done run on purpose,
when a send it counted on turns out to be missing.

`RunningIsDriven` says nothing of runs that met a mishap, and has one exception that is
the code's: a re-verification may escalate a run whose plan has a step parked or waiting
(`operator.py:1919`); when the owner confirms, the run is put on (925), finds nothing ready
and is left RUNNING, its timer consumed, with nobody to drive it and every further
message a note. The docstring at 1929 calls an escalation "never a dead end".
The proof shows that there is no other way: the exception asks for `overtaken` and for a
step that is parked or waiting.

### Runs and bounds

* `lifecycle`: three cards, two steps, one message beside the goal's own thread, one
  mishap. One mishap can fall into any gap; three cards are an approval, an escalation
  and a re-escalation by re-verification; the second step is what a step that parks
  again, or comes after a wait, needs. Two messages that race do not fit beside two steps;
  they are the subject of `lifecycle_yes`, and the theorems hold of any number.
* `lifecycle_live`: two cards, two steps, one message, no mishap, with fairness.
  Two steps are what a second rung or a step after a wait needs.
* `lifecycle_yes` (two messages) is expected to fail: `YesIsForItsCard`, the sentence of
  `docs/API.md:65` that a yes authorizes only the exact action shown.

`MaxCards` bounds the cards and escalations (one is kept back for an escalation, so
that the bound never leaves a step without a way out); `MaxSteps` stands for the
code's own bounds on steps, rungs and replans (`_LADDER_HARD_CAP`, `_MAX_REPLANS`, the
budget); `MaxMessages` and `MaxMishaps` bound the owner and the faults.
`CHECK_DEADLOCK FALSE`: a closed run stops.

### Fairness

* `WF_vars(HolderWorks)`: the thread that holds the lock goes on. Every call it
  makes has a timeout or a budget. `Checkpoint` is not in it: it does not advance.
* `SF_vars(WorkerActs(w))` for every worker, and `SF` for the poller's deliveries: a
  lock that is free again and again is got in the end. Python's `threading.Lock`
  promises no order, so weak fairness would not do and strong is the assumption
  that no thread starves for ever.
* `SF` for claiming a timer that wakes the run, and for claiming the reaper of the
  current escalation: time passes, and the poller ticks for as long as the process
  lives. A timer need not be claimed with any other. Re-verifications carry no
  fairness of their own.

No fairness is given to the owner: nothing claims that a message is ever sent.

### Proofs

`LifecycleProofs` proves the six safety properties for every number of threads, cards,
steps, messages and mishaps, from `LifecycleAssumption`.

* `TypeCorrect`: `TypeInv` adds to `TypeOK` that an escalation under way has a card, from
  which the reaper's type follows. Lemmas state what the helpers (`Raise`, `Continue`,
  `Return`) leave typed, so that a step's proof names only what it adds.
* `StoppedIsFinalHolds`: `StopInv` says that while the stored run is stopped nobody
  holds the lock and the goal's thread is past its start (`GoalInv`). It is needed
  because a holder saves without looking at the store: were a run stopped while
  a thread drives it, the next save would bring it back. It holds because `stopped`
  is only written under the lock, by a thread that then leaves.
* `EscalationHasReaperHolds`: `ReaperInv` also covers the thread between `ArmReaper` and
  `SaveEscalated`, whose card must already have its reaper. `MemInv` bounds what a
  holder's copy can say, so that no save but `SaveEscalated` writes an escalation.
* `ParkedHasTimerHolds`, `GrantFitsCardHolds` and `RunningIsDrivenHolds` rest on one invariant,
  `ParkInv`, for none of the three is inductive: what a thread leaves behind depends on
  the step it drove and on the card it made many saves earlier. `PointInv` says at
  each point of a drive what the plan's step and the card in the making are (a card about
  to be shown has its pending grant and its resume state). `GrantInv` is the grant and what
  is pending for it. `DriveInv` says what an unheld run looks like for each stored status
  (`OutInv`): a card fits, a run waiting for a connection has a step to resume, a RUNNING run
  is one that was overtaken; and that a driver with nothing ready has such a run. `WaitInv`
  follows the timer of a wait from before the step is saved until it is claimed. The last
  two are claimed of runs without a mishap only, as the properties are.

### Not in the model

Several runs and the routing of a message to one of them; the number of timers of
one kind; the wall clock.
Two ways to be stuck are in the model, and are known, but no property speaks of
them: a blank answer, or guidance without headroom, leaves an escalation answered
and therefore never reaped (`operator.py:1977`), and a run whose process dies while
it is PENDING is in no list recovery reads. Nor is a third: a note acknowledged
during the last step is read by none, though `docs/API.md:71` says that a message
sent while the run is running is never dropped.

## 5. The gate and the steps

### Correspondence

`TrustGate` has no state: it is the gate over a set of records. `Record` keeps of an
`EffectRecord` its exact action, its phase, what the read-back saw, whether the
owner attested it, whether it is a replay, and the index of its step. The five
things a read-back can see stand for the pairs of `expected_present` and
`drift_present` that `_verify_readback` returns, and for `readback_error`:

| `seen` | `expected_present` | `drift_present` |
|---|---|---|
| `landed` | True | any |
| `missing` | False | any |
| `same` | None | False |
| `plain` | None | True or None, no error |
| `broken` | None | None, with `readback_error` |

`Unverified` and `Unverifiable` are the two lists of `classify_effects`, `Landed` is
`landed_effects` of the step's own records (`_bundle`), `Open` is what `_gate_step`
leaves unverifiable after it drops labels, `Accepts` and `NeedsOwner` are its outcome.

`Steps` follows one run from plan to plan.

| Variable | Code |
|---|---|
| `status`, `ask` | the stored run; the escalation's reason and the records it is about (`subject_keys`) |
| `plan` | the stored plan: per step the label of its `effect_landed` criterion, its status, `_ladder`, `depends_on`; `vouched` is history |
| `ledger`, `effects` | the stored effects; those of the step result in memory |
| `replans` | `dag_replans` |
| `pend`, `resumed` | the parked call, and a loop that was resumed by a yes (`allow_redirect=False`) |
| `due` | live re-verification timers |
| `spent` | `_has_headroom` is false |
| `at`, `cur` | where the driver is, and on which step |
| `pleaded` | `_guidance_pleaded` |

`world` (what took effect outside) and `closed` (who called the run done) are history.

The drive is `StartStep`, `NothingReady`, `Finalize`. The executor's calls are `Refuse`,
`Repeat` (answered from memory), `Forward`, `CallFails`. `_handle_step_result` is, in its
order, `Exhausted` (before the records are appended), `Park`, `GiveUp`, `ClaimDone`;
then the gate: `Accept`, `AskOwner`, `FailResumed`, or the ladder with `Climb`,
`StartReplan`, `Rearchitect`, `LadderEnds`. The owner's replies are `OwnerYes` and
`OwnerDeclines` to a card, and `OwnerStops`, `OwnerConfirms`, `OwnerDenies` (a retry is
the same), `OwnerGuides` to an escalation; the last two end in `Guided`, `Plead` or
`CloseGuided`. `Recheck` and `RecheckMisses` are the timer. `Crash` includes recovery.

Abstractions. What the model calls, when it claims completion and what the planner
proposes are free. So is a read-back, but it is truthful: it never sees what is not
there, though it may miss what is. A stale file, a reliability signature, an unmet
check on files or sources and the verifier of the last step are one free
`flagged` that refuses. A call that would park is parked once the records of the
loop are settled. What is worth a yes, undo windows and mandates belong to
`Broker`; the lock, cards and claimed timers to `Lifecycle`.

### Properties

| Property | Says |
|---|---|
| `TypeOK` | types; the rungs of a step and the replans of a run are within their caps |
| `DoneIsHonest` | when the gate lets a run finish, each recorded action took effect, or its class has a record the owner confirmed or whose read-back is broken |
| `EffectsEarned` | a done step with a required effect has a record of that class, not found missing, or the owner's word |
| `VerifiedStays` | no reply and no re-check turns a verified record into one that may be sent again |
| `DoubtsAreAsked` | a run the gate lets finish has put every send nobody could confirm to the owner, unless its class has a broken or confirmed sibling |
| `DriveEnds` | every drive ends: done, parked or escalated |

`DoneIsHonest` has two exceptions. The one for classes is the code's own: `_gate_step`
drops labels and not records (1337-1346), so that a send without any read-back is accepted
beside a sibling whose read-back is broken or that was confirmed, though the comment at 1335
says it "still escalates below"; `DoubtsAreAsked` has the same exception. The one for records the
owner has denied is a crash: a denial saves RUNNING before it asks the planner, and
recovery then drives the old plan, which may be complete (`operator.py:985`).

### Runs and bounds

* `gate`: two mails of one class, a browser booking, a refused purchase. Two
  actions of a class are what a label confuses; the browser is what needs
  independent provenance. One rung, one replan, plans of up to two new steps with
  or without a dependency, two calls, two replies, one crash: two calls make a
  send and its failed sibling or its replay, two replies make a confirmation
  and a later denial, and each cap is reached and passed over. Steps all require
  the mail, so that a required effect can be missing.
* `gate_live`: the same with one call and one reply, and steps without a
  requirement too, under fairness.
* `gate_confirmed` is expected to fail: `ConfirmedStays`, the docstring at
  `operator.py:871`. A denial of a later send also marks failed the one the owner
  confirmed before.

`LadderCap`, `MaxReplans` and `MaxPlan` are the code's `_LADDER_HARD_CAP`, `_MAX_REPLANS` and
the planner's `max_steps`; `MaxCalls`, `MaxReplies`, `MaxCrashes` are bounds of the model
(the first stands for the executor's budgets). `CHECK_DEADLOCK FALSE`: a run that
is over stops.

### Fairness

`WF_vars(Drive)` alone: the thread that drives a run goes on, every call of it has a
timeout or a budget, and it never waits for the owner, since a question ends the
drive. Nothing is assumed of the owner, the timer or the clock; `Spend` is not fair,
so `DriveEnds` does not lean on the budget running out.

### Proofs

`StepsProofs` proves the five safety properties for every set of actions, plan and bound,
from the one inductive invariant `StepsInv` (TLC has checked it on the instance of `gate`).

* `TypeCorrect`: the plan is spliced by every replan, so its type needs lemmas about the
  helpers that change it (`SetStateType`, `SetRungType` and those about `Kept` and `Revised`).
  `Kept` enumerates the done steps by an increasing order of their indices instead of
  filtering the plan by `SelectSeq`, whose definition no prover can unfold by induction; the
  two are the same sequence.
* `QuestionsAreOpen` and `VerifiedStaysHolds`: `QuestionInv` says that what an open question is
  about was looked at and not verified. That must be known of the question and not only of
  the ledger, because the subject is picked when the run escalates and used when the
  reply comes.
* `EffectsEarnedHolds`: a step becomes done at the gate, whose acceptance needs an effect of
  the class in the records that are appended with it, or by the owner's word. `DriveInv` is
  there because the driver marks `cur`, and must still mean the step it began: a call that
  waits for a yes keeps its step `running`. What the owner's reply takes out of the ledger is
  put back as a failed record that was seen, so no other step loses its effect.
* `DoneIsHonestHolds` and `DoubtsAreAskedHolds`: the run is called done long after the gate let
  its last step pass, so `GateInv` states both as soon as the plan is complete, of the whole
  ledger. `RecordInv` says that a verified record is true, in the ledger and among the effects
  in memory. A denial keeps it because it takes its records out of what the two speak of, a
  confirmation because it hands the run to the owner or adds to what is doubtful; a
  re-check that fails changes no record.

### Not in the model

Steps that wait (in `Lifecycle`); notes folded into a step; the fast path of a
one-step goal, which skips only the verifier; records without a grant key or a step
index, which older stores may hold; the report's wording.

## 6. Scope and mandate

### Correspondence

`Autonomy` follows one run from its intake to its sends and asks whom it may write to
without a question, and why. A goal is what its text says to the code that reads it:

| Field of a goal | Code |
|---|---|
| `own`, `quoted` | addresses outside and only inside what `_strip_quoted` drops |
| `asks` | `_goal_words` meets `_SEND_IMPERATIVES`; quoted words count |
| `single` | content is present and no second task (`_fast_has_content`, `_fast_is_compound`) |
| `constrained` | `goal.constraints` is not empty |
| `illegal` | `is_disallowed_text` |

`Named`, `Sanitized`, `Parsed`, `Grants`, `Fast`, `Admits`, `Admitted`, `Listed`, `Covered` are
`goal_named_recipients`, `_sanitize_scope_entry`, `parse_mandate`, `owner_grant`,
`fast_path_goal`, `host_admits`, `admitted_from_fetch`, `_on_allowlist`, `covers`.

| Variable | Code |
|---|---|
| `status`, `mandate`, `auto` | the stored run; `asked` is AWAITING_GO, `approving` AWAITING_APPROVAL |
| `planned`, `proposal` | the stored plan and the mandate that rides on it |
| `kept` | `discovered` in the continuation |
| `discovered` | `Operator._discovered`, dropped by `_release_run_resources` |
| `reach` | `recipient_scope` of the mandate the live broker was made with |
| `found` | the fetch events of the step |
| `previews` | `send_preview` is not `never` |

`read`, `granted` and `unasked` are history. Intake is `Screened`, `FastPath`, `AskQuestions`,
`StartPlanning`, `Clarify`, `Plan` (the plan is saved with its proposal first, so that a
crash may fall before the mandate is taken up), `GoalGrants`, `ShowCard` with `AnswerCard`,
`NothingProposed`. A step is `StartLoop`, `Fetch`, `Send`, and `Park`, `StepOver` or `StepFails`,
which admit what was found (`Gain`) and save it, but for the budget's early return. The
broker of a loop keeps the scope it was made with: a contact found in a step is in
scope from the next one on.

Abstractions. Caps, repeats, undo windows, learned trust (which never reaches a third
party), owner overrides of a tier, and what becomes of a send belong to `Broker`; `covers` is
reduced to class and scope. The limits on the length of a mandate's lists and on the
addresses taken from a page are left out: they only make a scope smaller.
Whether `_load_continuation` finds grants still cached and returns early is a choice
in `Guide`. `Park` is any question about a send, an `Approve` any yes to it.

### Properties

| Property | Says |
|---|---|
| `TypeOK` | types; a mandate lists no refused or NEVER class, a scope only addresses and domains |
| `OnlyVouched` | who is written to unasked was named by the owner, is on a card he said yes to, or was read on a page of the organisation the address belongs to |
| `UnshownIsNarrow` | a mandate no card showed is for sends alone, to addresses in the owner's own words |
| `AdmittedSurvive` | what a run has admitted is in the continuation at every step, so a restart keeps it |

`OnlyVouched` speaks of all that is done in a run; the parser, the grant, the page rule, the
broker's copy and the continuation can each break it.

### Run and bounds

`autonomy`: four addresses (one named, one quoted, one on a restaurant's own page, one
at a public suffix), two pages, a class that sends, one that invites, one on the NEVER
floor. Goals differ in what they name, quote, ask and in whether the fast path takes them;
the clarifying answer names one more address and quotes another. The proposals hold the
empty, the covered, the wider scope, a domain and an entry that names nobody. One crash can
fall between any two steps. `MaxCrashes` is the only bound; steps, pages and parks repeat
without one. `CHECK_DEADLOCK FALSE`: a closed run stops. No fairness is assumed.

### Proofs

`AutonomyProofs` proves all four properties for every set of goals, proposals and
pages and any number of crashes, from `AutonomyAssumption`.

* `TypeCorrect` rests on `ParsedType`: whatever is proposed, what is parsed is a mandate
  without refused classes.
* `OnlyVouchedReached`: `OnlyVouched` says nothing of those who could be written to next.
  `Grounded` adds that everybody the live broker reaches is vouched for, that what is
  admitted, in memory and on disk, is, and that the mandate is empty, granted or within
  the owner's words. The reasons only grow (`ReasonsGrow`, `VouchedStays`), so that
  a scope once grounded stays so.
* `UnshownStaysNarrow` needs that no mandate is `auto` before a plan is taken up or its
  card answered (`UngrantedYet`): else the answer to a card could widen one.
* `AdmittedAreKept` is inductive as it stands.

### What the model shows beside them

The mandate `owner_grant` returns is described as tight, to exactly the named recipients
(`mandate.py:385`), but `_broker` widens it like any other (`operator.py:2018`): with previews
off, a contact read on its organisation's page is written to unasked under a mandate no
card showed. `OnlyVouched` counts such a contact as vouched for; `auto => unasked
\subseteq goal.own` is not a property of the code.

### Not in the model

The patterns that find an address in text and split it; the card's wording; the time
window of an undo; replans within a drive, which propose no mandate.

## 7. What a run waits for

### Correspondence

`Watch` follows one run from wait to wait. What `Lifecycle` takes for one step that waits
and one timer of a kind is here the step's parameters, its polls, and every timer with
its time.

| Variable | Code |
|---|---|
| `step`, `wait` | the waiting step's status and its `params` as planned |
| `streak`, `polls`, `digest` | `_match_streak`, `_polls` (or `_occurrences`), `_last_digest`, as saved in `params` |
| `left` | what is left until `_await_deadline_ts` |
| `timers`, `claimed` | live rows of the run; the wake-up `tick` has chosen of those `due()` returned |
| `replans`, `headroom` | `run.replans`; `_has_headroom`, with a heartbeat's `until_ts` |
| `page`, `inbox` | what the watched page says, how many replies have come |

`Park` is `_park_wait`. `Woken` is `_resume_waiting` with its three kinds: `Replied`,
`WindowCloses` (the next batch, or the owner), `StillOpen`; `Fires`, `OnceMore`, `Missed`,
`GivesUp`, `MissedUnsaved`; `Beat` and `BeatsEnd`. `Reads` is `_probe`: a page may fail to be
read, an inbox that fails is empty. `Matches`, `TextCondition` and `Matched` are
`_condition_met`, `_text_condition` and the `changed` rule. `Claim` is `due` with the choice
`tick` makes (`Chosen`), `Deliver` the resume, `Message` an owner's message to a run that
waits, `Crash` a death between the claim and the resume. `Advance` moves the clock.

Abstractions. A page is a model value with the needles it holds and the number after
the anchor; `count` is left out, as it is a bound on a number like `number_near`. The hard
backstops on polls and beats are part of `limit`. Time is in units; timers and windows
hold what is left of them. A wake-up runs under the run's lock and is one action; between
two waits the run is `running`, which `Lifecycle` details. History: `reads` (what a wait has
read, and which reads were out of schedule), `extra` (wake-ups not from the wait's own
timers), `lost` (a crash took a claimed one).

### Properties

| Property | Says |
|---|---|
| `TypeOK` | types; a streak is below what ends the wait, polls within their limit |
| `OutcomeIsEarned` | a wait that is met was shown what it watches for by as many polls as must confirm it, with no scheduled miss or failure between; a watch that is given up never was |
| `WaitIsTimed` | a run that waits has the timer of its wait, that of a window exactly at its end, armed or claimed |
| `WindowHonoured` | a window closes for want of replies at its end only |
| `OneChain` | a wait has one chain of wake-ups, and one more for each message or stale wake-up |
| `WaitEnds` | every wait ends |

The exceptions are the code's own. A poll outside the schedule, for an owner's
message or a stale check, saves a match but not a miss: the reset at `operator.py:1605` stays
in memory, and a streak goes on over it. Such a poll also arms the next one beside the one
that is armed. A wake-up is delivered to the run: one claimed before a message ended its
wait reaches the next wait as if it were its own (`controlplane.py:248`), and closes a window
just opened. A crash after the claim loses the timer.

Two more things the model shows, of which no property speaks. The digest is replaced
at each poll, so a match of `changed` is a change since the poll before; with the two
confirmations that are the default for a page (1588), a page that changes once never
fires the watch, though the planner is told that `{"changed": true}` means "fire when the
page changes at all" (`engine/planner.py:49`). And a failed inbox read at a window's end is
taken for silence (1697): the next batch goes out.

### Run and bounds

`watch`: a window of three units with a check each unit and two replies asked for; an await on
a page, which waits two units for a text (the probe of a window reads the page's conditions
as a watch's does, but never `changed`); a heartbeat of two beats; a watch on the inbox; three on a page (something absent, confirmed twice; three
conditions of which one is `changed`, confirmed twice; any change), over three pages, one of
which has no number and flickers. Two waits, so that a timer can outlive the first; one
replan, so that a batch goes out and the next may not; one message, which is what adds a chain
or breaks a schedule; one crash. Polls are limited by the waits themselves.
`CHECK_DEADLOCK FALSE`: a run that is over stops.

### Fairness

Weak, of the driver between two waits, of the poller's claim and delivery, and of the
clock. `tick` runs for as long as the process lives and one poll never ends it
(`channels/web.py:90`); a delivery stays possible until it is made. Nothing is assumed of
the page, the inbox, the owner.

### Proofs

`WatchProofs` proves all but `WaitEnds`, for every set of waits, pages and bounds, from
`WatchAssumption`.

* `WaitIsTimedHolds`: `WaitIsTimed` does not say what else may be claimed. `ItsTimers` adds
  that all armed timers are the wait's own, those of a window due exactly at its end, and that
  a run between waits has none (because a wait that ends cancels them all); `ItsClaim`, that
  an own claim of a window's timer means the window is at its end. `Chosen` enters where a
  check and a deadline are claimed together.
* `WindowHonouredHolds` follows from the same invariant.
* `OneChainHolds`: `ChainInv` counts the own claim with the armed timers, as a delivery
  turns the one into the other.
* `OutcomeIsEarnedHolds`: the property speaks of the end of a wait, and the code decides it
  from two saved parameters, so `EarnInv` ties these to the reads while the wait lasts. The
  streak is at most the number of reads that showed what is watched for since the last
  scheduled miss (`Counted`), and the digest is the last page that was read, unless a miss was
  left unsaved (`Digested`). As long as only the schedule has polled, both are exact
  (`Exact`, `Trailing`), and no row of reads is long enough (`NoRow`), which is what a watch that is
  given up must show. `MatchIsSignal` and `SignalIsMatch` say that what the code compares
  with its digest is what `Signal` says of the reads.

## 8. The event stream and the page

### Correspondence

| Variable | Code |
|---|---|
| `log`, `status` | the events of a run in the store; whether the run is `done` or `stopped` |
| `owed` | a thread is between the save of the end and the emit of the last word |
| `server`, `cursor` | where the generator of `sse` is; its `cursor` |
| `wire` | chunks yielded and not yet handled by the page |
| `page`, `lastId`, `rendered` | the page: no connection, reading, asking for the status, `terminal`, or loaded anew over a closed run; `lastId`; the bubbles shown |

`Write` is `append_event`, whose ids are places in the log. `Close` and `SayLast` are the two
halves of `_finalize` (and of the other paths to `stopped`), in the code's order. `Drain`,
`ReadStatus` and `FinalDrain` are one round of the generator, each a call of its own off the
event loop. `Connect`, `Render`, `Ended`, `Ask`, `AskFails`, `Drop`, `Reload` are the page
(`static/index.html`: `connect`, its `onerror`, `reattach`). `Restart` is the server's death.

Left out: keepalives, `replay_only`, the look of a bubble. History: `closedAt`, `said`, `cut`.

### Properties

| Property | Says |
|---|---|
| `TypeOK` | types; who is not read is not served |
| `PrefixShown` | `EventStream` implements `Feed`: whatever breaks, the page shows a prefix of the log, in order, without a gap, nothing twice |
| `ShownToTheEnd` | a page whose stream came to its end shows all that was written before the end was saved |
| `EventsArrive` | every event is rendered, unless the page was done with the run |

`ShownToTheEnd` excepts a page whose last stream broke (it asks for the status, learns
that the run is closed, and does not reconnect: `index.html:265`) and a run reopened by a
re-verification after the page was done with it.

### Runs and bounds

* `stream`: three words, a log of four events, two drops, restarts or reloads, one
  reopening. Four events are one before the end, the end's, one after it and one of a
  reopened run; two breaks are a drop and another while the page reconnects.
* `stream_last` is expected to fail, without drop or reopening: `LastWordShown`, the
  comment at `channels/web.py:321`. The final drain is there so that the last word is never
  lost to a close race; but the status is saved before the last word is written
  (`operator.py:1814`, 1845), so the drain may come between the two.

`CHECK_DEADLOCK FALSE`: a page that is done stops.

### Fairness

Weak, of the server's rounds and of the page. Nothing is assumed of the run, and breaks are
bounded, not unfair: `EventsArrive` says that a page that is left alone long enough catches up.

### Proofs

`EventStreamProofs` proves all but `EventsArrive`, for logs and breaks of any number, from
`StreamAssumption`. `FeedInv` relates three parts that no property mentions: the cursor is the
last event rendered plus what is on the wire, the wire holds the ids that follow the last
rendered, what is shown is the log up to `lastId`. From it each step is a step of `Feed` or a
stutter (`StreamImplementsFeed`). `EndInv` adds, for `ShownToTheEndHolds`, where the close falls:
a stream that ended has read beyond it, and the last word stands behind it.

## 9. The demo launcher

### Correspondence

Launches are numbered, a machine has the number of its launch. `req` is how far
`create_session` has come, cut at its awaits: the body, the post to the provider, the boot, the
destruction of a machine that did not come up. `sessions`, `active`, `recent` are `SESSIONS`,
`_operator_active`, `_launches`; `ending` and `proxying` are requests suspended in
`delete_session` and `proxy`; `reaper`, `listed`, `doomed` the reaper between its awaits. `machine`
is the provider's side: a machine that comes up has its watchdog (`demo/wrapper.py`), a dud
has none. What stands between two awaits is one action, as one event loop runs it.

Left out: session tokens, the body cap, headers, bytes. The provider answers as it likes:
refuses, starts a machine and answers, starts one and does not; destroying may fail, and
the launcher swallows that. History: `leaked`, `unlisted`.

### Properties

| Property | Says |
|---|---|
| `TypeOK` | types; slots and hourly launches within their caps |
| `SlotsAreHeld` | a visitor's slots are as many as his funded launches that hold one |
| `ReaperSparesSessions` | the reaper marks no machine that is in a session or being started, and drops a session only for a machine that is gone or newer than its list |
| `AllEnds` | machines end, and sessions |

What the code leaves open, and the properties say: a post that raises keeps its slot
until the launcher restarts (`launcher.py:246`; `leaked`); a session that becomes healthy while
the reaper's list is under way is dropped though its machine runs (385; `unlisted`). And two
sentences of the file hold in a weaker sense only: `MAX_SESSIONS` is looked at before the
awaits of a launch, so that several under way at once exceed it (180); a slot is
given back when a worker does not answer a request (350) or before its machine is
destroyed (313), so that the machine may still run when the visitor launches the next
(76-79 speaks of workers).

### Run and bounds

`launcher`: one visitor, two launches, one session at a time, one launch within the
hour, one slot, one restart. Two launches are what a stale list, a slot given back twice
and an exhausted cap need. `MaxLaunches` and `MaxRestarts` bound the model; the rest are the
code's settings. `CHECK_DEADLOCK FALSE`: with all launches over nothing need happen.

### Fairness

Weak, of requests under way (every call has a timeout), of watchdogs, of time (`Ages`)
and of the reaper's loop, which catches what it meets; strong, of a list and of a kill that are
tried again and again. The last is an assumption about the provider: one that refuses to
destroy a machine for ever keeps it. `AllEnds` is not claimed of requests that were never made.

### Proofs

`LauncherProofs` proves the three safety properties for every number of visitors, launches
and restarts, from `LauncherAssumption`. `SlotsAreHeld` is an equation between a counter and a
cardinality, and inductive only with `Placed`: a launch is in one place at a time, so that
what a session's end takes from the holders is what it takes from the count, and a launch
that has not reserved is not funded. `ReaperSparesSessions` rests on `Placed` and on `ListCovers`:
while a list is under way, what lives is in it or newer.

## 10. What is only model-checked

Liveness: `MessagesHandled`, `EscalationsClose` and `WaitsEnd` of the lifecycle, `DriveEnds` of the
steps, `WaitEnds` of the waits, `EventsArrive` of the stream, `AllEnds` of the launcher. Liveness
under fairness and `ENABLED` are outside the prover. Every invariant and every action
property of the passing runs, and both refinements, are proved.

Induction over data is outside it too. Nothing in the models needs it: the kept steps of a
replan are given by an increasing enumeration, and what is counted is counted step by step.

Promises that hold but for what a crash takes say so: `NoDoubleSend` excuses a record lost
between the provider's answer and the append, `ParkedHasTimer` and `WaitIsTimed` a timer
lost between its claim and its delivery. `NoDoubleSend` also excuses the effects a step
loses when it finds the budget or the deadline spent (section 3). Where a property excepts
a case the code leaves open, the hazard in `PROJECT.json` has a note, and lists no property
if nothing of it is left to catch.

## 11. What is not modelled

See `components` in `PROJECT.json`: adapters to services, prompts and formatting,
wiring and the extras templates. What a language model decides, and what a service
answers, enters the models as a free choice.
