-------------------------------- MODULE Watch --------------------------------
(***************************************************************************)
(* What a run waits for: a window for replies that is polled while it is   *)
(* open, a watch on a page or the inbox, a heartbeat                       *)
(* (src/flowers/engine/operator.py, _park_wait, _resume_waiting,           *)
(* _tick_recurring), with the timers that wake it (seams/timers.py) and    *)
(* the poller that claims and delivers them (controlplane.py, tick).       *)
(*                                                                         *)
(* A wake-up runs under the run's lock, so each is one action; what it     *)
(* reads is what the page or the inbox holds then, or a failure.  Time is  *)
(* relative: timers and windows hold what is left of them.  What a run     *)
(* does between two waits, its escalations and its other timers are the    *)
(* matter of Lifecycle.  A heartbeat's until_ts, a deadline and the budget *)
(* are one flag that may drop at any moment.                               *)
(***************************************************************************)
EXTENDS Naturals, FiniteSets, Sequences

CONSTANTS
    Waits,          \* the waiting steps a plan may hold: their params
    Pages,          \* what a watched page may read,
    WordsOf,        \* the needles in it, and the number after the anchor
    NumberOf, NoNumber,
    Failed,         \* a read that failed
    None,
    MaxWaits,       \* bound on the waiting steps of a run
    MaxReplans,     \* bound on batches (_LADDER_HARD_CAP)
    MaxReplies,     \* bound on the replies that come
    MaxMessages,    \* bound on the owner's messages
    MaxCrashes

Kinds == {"await", "watch", "beat"}
Keys == {"contains", "absent", "number_near", "changed"}
Events == {"timer", "check"}

\* every is the window of an await, the interval of the others; need, the
\* replies or the consecutive matches asked for; limit, the polls or beats.
ASSUME WatchAssumption ==
    /\ DOMAIN WordsOf = Pages /\ NumberOf \in [Pages -> Nat \cup {NoNumber}]
    /\ \A w \in Waits :
          /\ w.kind \in Kinds /\ w.probe \in {"inbox", "page"}
          /\ {w.every, w.check, w.need, w.limit} \subseteq Nat \ {0}
          /\ w.keys \subseteq Keys /\ w.most \in Nat
    /\ Failed \notin Pages \cup Nat /\ None \notin Pages \cup Nat \cup {Failed}
    /\ None \notin [event : Events, stale : BOOLEAN]
    /\ {MaxWaits, MaxReplans, MaxReplies, MaxMessages, MaxCrashes} \subseteq Nat

VARIABLES
    status,     \* the run: "running" between two waits
    step,       \* the waiting step: "waiting", "done", "failed" or "dropped"
    wait,       \* its params, as planned
    streak, polls, digest,  \* and those the polls keep there; beats count as polls
    left,       \* what is left of the window of an await
    timers,     \* live timers
    claimed,    \* the wake-up the poller has claimed for the run
    replans,    \* batches sent
    headroom,   \* budget and deadline allow more
    page, inbox,            \* the world: the page, the replies that have come
    waits, messages, crashes,
    reads,      \* history: what this wait has read, and which reads were out of schedule
    extra,      \* history: wake-ups of this wait that were not its own timers'
    lost        \* history: a crash lost a wake-up of this wait

plan == <<step, wait, streak, polls, digest, left>>
world == <<page, inbox>>
bounds == <<waits, messages, crashes>>
vars == <<status, plan, timers, claimed, replans, headroom, world, bounds, reads, extra, lost>>

Timer(kind, in) == [kind |-> kind, in |-> in]

Init ==
    /\ status = "running" /\ step = "none" /\ wait = None
    /\ streak = 0 /\ polls = 0 /\ digest = None /\ left = 0
    /\ timers = {} /\ claimed = None /\ replans = 0 /\ headroom = TRUE
    /\ page \in Pages /\ inbox = 0
    /\ waits = 0 /\ messages = 0 /\ crashes = 0
    /\ reads = <<>> /\ extra = 0 /\ lost = FALSE

-----------------------------------------------------------------------------
(* What is watched.                                                        *)

Inbox(w) == w.probe = "inbox"

\* A page is read or not; the inbox is empty when it could not be read.
Reads == IF Inbox(wait) THEN {inbox, 0} ELSE {page, Failed}

\* All the keys that are given hold, and one is given.  A key without a
\* needle holds.
TextCondition(p, w) ==
    /\ w.keys \ {"changed"} # {}
    /\ "contains" \in w.keys => w.contains \subseteq WordsOf[p]
    /\ "absent" \in w.keys => w.absent \cap WordsOf[p] = {}
    /\ "number_near" \in w.keys => NumberOf[p] # NoNumber /\ NumberOf[p] <= w.most

\* How much of the read meets the condition.
Matches(r, w) ==
    IF Inbox(w) THEN r ELSE IF r # Failed /\ TextCondition(r, w) THEN 1 ELSE 0

\* A failed read that is taken for an empty page.
MatchedAnyway(r, d) ==
    IF r = Failed THEN "absent" \in wait.keys
    ELSE IF Inbox(wait) \/ "changed" \notin wait.keys THEN Matches(r, wait) > 0
    ELSE d \notin {None, r} /\ (wait.keys # {"changed"} => TextCondition(r, wait))

\* A watch's poll: with "changed", the page differs from the one of digest d.
Matched(r, d) ==
    IF Inbox(wait) \/ "changed" \notin wait.keys THEN Matches(r, wait) > 0
    ELSE /\ r # Failed /\ d \notin {None, r}
         /\ wait.keys # {"changed"} => TextCondition(r, wait)

DigestOf(r) == IF Inbox(wait) \/ r = Failed \/ "changed" \notin wait.keys THEN digest ELSE r

-----------------------------------------------------------------------------
(* The run goes on, to the next wait or to its end.                        *)

\* A check that would not come before the window's end is not armed.
Checks(w, room) == IF w.check < room THEN {Timer("check", w.check)} ELSE {}

\* Timers that outlive the wait they were for.
CancelledNone == timers
Cancelled == {}

Park ==
    /\ status = "running" /\ waits < MaxWaits
    /\ \E w \in Waits :
          /\ wait' = w
          /\ left' = IF w.kind = "await" THEN w.every ELSE 0
          /\ timers' = timers \cup {Timer(w.kind, w.every)}
                              \cup (IF w.kind = "await" THEN Checks(w, w.every) ELSE {})
    /\ status' = "waiting" /\ step' = "waiting" /\ waits' = waits + 1
    /\ streak' = 0 /\ polls' = 0 /\ digest' = None /\ inbox' \in 0..MaxReplies
    /\ claimed' = IF claimed = None THEN None ELSE [claimed EXCEPT !.stale = TRUE]
    /\ reads' = <<>> /\ extra' = 0 /\ lost' = FALSE
    /\ UNCHANGED <<replans, headroom, page, messages, crashes>>

Finish ==
    /\ status = "running" /\ status' = "done"
    /\ UNCHANGED <<plan, timers, claimed, replans, headroom, world, bounds, reads, extra, lost>>

\* The wait is over; the run drives on, or asks its owner.
Ends(how, next) ==
    /\ step' = how /\ status' = next /\ timers' = Cancelled
    /\ UNCHANGED <<wait, streak, polls, digest, left>>

\* The wait goes on with these timers.
Rearm(T) == timers' = timers \cup T /\ UNCHANGED <<status, step, wait, left>>
NextPoll == {Timer(wait.kind, wait.every)}

-----------------------------------------------------------------------------
(* A wake-up e, "timer", "check" or "message", that reads r.               *)

Replied(r) ==
    /\ Matches(r, wait) >= wait.need
    /\ Ends("done", "running") /\ UNCHANGED replans

\* The next batch, or the owner: the planner may have nothing more.
WindowCloses(e, r) ==
    /\ Matches(r, wait) < wait.need /\ e = "timer"
    /\ \/ /\ headroom /\ replans < MaxReplans
          /\ replans' = replans + 1
          /\ Ends("dropped", "running") \/ Ends("failed", "escalated")
       \/ /\ ~headroom \/ replans = MaxReplans
          /\ Ends("failed", "escalated") /\ UNCHANGED replans

StillOpen(e, r) ==
    /\ Matches(r, wait) < wait.need /\ e # "timer"
    /\ Rearm(IF e = "check" THEN Checks(wait, left) ELSE {})
    /\ UNCHANGED <<streak, polls, digest, replans>>

Fires(r) ==
    /\ Matched(r, digest) /\ streak + 1 >= wait.need
    /\ Ends("done", "running") /\ UNCHANGED replans

\* One confirmation too many is asked for.
OnceMoreByOne(r) ==
    /\ Matched(r, digest) /\ streak < wait.need
    /\ streak' = streak + 1 /\ digest' = DigestOf(r)
    /\ Rearm(NextPoll) /\ UNCHANGED <<polls, replans>>

\* A match that another one has to confirm.
OnceMore(r) ==
    /\ Matched(r, digest) /\ streak + 1 < wait.need
    /\ streak' = streak + 1 /\ digest' = DigestOf(r)
    /\ Rearm(NextPoll) /\ UNCHANGED <<polls, replans>>

Missed(r) ==
    /\ ~Matched(r, digest) /\ polls + 1 < wait.limit /\ headroom
    /\ streak' = 0 /\ polls' = polls + 1 /\ digest' = DigestOf(r)
    /\ Rearm(NextPoll) /\ UNCHANGED replans

GivesUp(r) ==
    /\ ~Matched(r, digest)
    /\ polls + 1 >= wait.limit \/ ~headroom
    /\ Ends("failed", "escalated") /\ UNCHANGED replans

\* What a poll outside the schedule misses is not saved, the streak it broke
\* included.
MissedUnsaved(r) ==
    /\ ~Matched(r, digest)
    /\ UNCHANGED <<status, plan, timers, replans>>

\* Beats nobody counts.
BeatUncounted ==
    /\ headroom /\ polls < wait.limit
    /\ Rearm(NextPoll) /\ UNCHANGED <<streak, polls, digest, replans>>

Beat ==
    /\ headroom /\ polls < wait.limit
    /\ polls' = polls + 1
    /\ Rearm(NextPoll) /\ UNCHANGED <<streak, digest, replans>>

BeatsEnd ==
    /\ ~headroom \/ polls >= wait.limit
    /\ Ends("done", "running") /\ UNCHANGED replans

Polled(e, r) ==
    \/ wait.kind = "await" /\ (Replied(r) \/ WindowCloses(e, r) \/ StillOpen(e, r))
    \/ /\ wait.kind = "watch"
       /\ \/ Fires(r) \/ OnceMore(r)
          \/ e = "timer" /\ (Missed(r) \/ GivesUp(r))
          \/ e # "timer" /\ MissedUnsaved(r)

Woken(e) ==
    \/ \E r \in Reads :
          /\ Polled(e, r)
          /\ reads' = Append(reads, [got |-> r, aside |-> e # "timer"])
    \/ wait.kind = "beat" /\ (Beat \/ BeatsEnd) /\ UNCHANGED reads

-----------------------------------------------------------------------------
(* What wakes it.                                                          *)

\* The check goes first and its window's end is lost with it.
CheckFirst(due) == IF \E t \in due : t.kind = "check" THEN "check" ELSE "timer"

\* Every wake-up is taken for the end of the window.
AllDeadlines(due) == "timer"

\* Of the timers of a run one is delivered, and a check only alone.
Chosen(due) == IF \A t \in due : t.kind = "check" THEN "check" ELSE "timer"

Due == {t \in timers : t.in = 0}

Claim ==
    /\ Due # {} /\ claimed = None
    /\ timers' = timers \ Due
    /\ claimed' = [event |-> Chosen(Due), stale |-> FALSE]
    /\ UNCHANGED <<status, plan, replans, headroom, world, bounds, reads, extra, lost>>

\* A run that is driven has the lock; one that is over is left alone.
Deliver ==
    /\ claimed # None /\ status # "running" /\ claimed' = None
    /\ \/ status = "waiting" /\ Woken(claimed.event)
       \/ status # "waiting" /\ UNCHANGED <<status, plan, timers, replans, reads>>
    /\ extra' = IF claimed.stale THEN extra + 1 ELSE extra
    /\ UNCHANGED <<headroom, world, bounds, lost>>

\* The owner writes to a run that waits.  His words go nowhere.
Message ==
    /\ status = "waiting" /\ messages < MaxMessages
    /\ messages' = messages + 1 /\ extra' = extra + 1
    /\ Woken("message")
    /\ UNCHANGED <<claimed, headroom, world, waits, crashes, lost>>

\* The process dies between a claim and its delivery.
Crash ==
    /\ claimed # None /\ crashes < MaxCrashes
    /\ crashes' = crashes + 1 /\ claimed' = None
    /\ lost' = (lost \/ ~claimed.stale)
    /\ UNCHANGED <<status, plan, timers, replans, headroom, world, waits, messages, reads, extra>>

Less(n) == IF n = 0 THEN 0 ELSE n - 1

Advance ==
    /\ left > 0 \/ \E t \in timers : t.in > 0
    /\ left' = Less(left) /\ timers' = {[t EXCEPT !.in = Less(t.in)] : t \in timers}
    /\ UNCHANGED <<status, step, wait, streak, polls, digest, claimed, replans, headroom, world,
                   bounds, reads, extra, lost>>

World ==
    /\ \/ page' \in Pages \ {page} /\ UNCHANGED <<inbox, headroom>>
       \/ inbox < MaxReplies /\ inbox' = inbox + 1 /\ UNCHANGED <<page, headroom>>
       \/ headroom /\ headroom' = FALSE /\ UNCHANGED <<page, inbox>>
    /\ status = "waiting"
    /\ UNCHANGED <<status, plan, timers, claimed, replans, bounds, reads, extra, lost>>

Next == Park \/ Finish \/ Claim \/ Deliver \/ Message \/ Crash \/ Advance \/ World

\* The driver goes on, the poller ticks and time passes.
Fairness ==
    /\ WF_vars(Park \/ Finish) /\ WF_vars(Claim) /\ WF_vars(Deliver) /\ WF_vars(Advance)

Spec == Init /\ [][Next]_vars /\ Fairness

-----------------------------------------------------------------------------
(* Properties.                                                             *)

Observed == Pages \cup 0..MaxReplies

TypeOK ==
    /\ status \in {"running", "waiting", "escalated", "done"}
    /\ step \in {"none", "waiting", "done", "failed", "dropped"}
    /\ status = "waiting" <=> step = "waiting"
    /\ wait \in Waits \cup {None} /\ (step # "none" => wait \in Waits)
    /\ streak \in Nat /\ polls \in Nat /\ left \in Nat
    /\ step = "waiting" => streak < wait.need /\ polls <= wait.limit
    /\ digest \in Pages \cup {None}
    /\ timers \subseteq [kind : Kinds \cup {"check"}, in : Nat]
    /\ claimed \in [event : Events, stale : BOOLEAN] \cup {None}
    /\ replans \in 0..MaxReplans /\ headroom \in BOOLEAN
    /\ page \in Pages /\ inbox \in 0..MaxReplies
    /\ waits \in 0..MaxWaits /\ messages \in 0..MaxMessages /\ crashes \in 0..MaxCrashes
    /\ reads \in Seq([got : Observed \cup {Failed}, aside : BOOLEAN])
    /\ extra \in Nat /\ lost \in BOOLEAN

\* Read i met the condition of the wait: a watch with "changed" wants it to
\* differ from the read before it that did not fail.
Signal(i) ==
    LET got(k) == reads[k].got IN
    IF Inbox(wait)
    THEN got(i) >= (IF wait.kind = "await" THEN wait.need ELSE 1)
    ELSE /\ got(i) # Failed
         /\ wait.keys # {"changed"} => TextCondition(got(i), wait)
         /\ wait.kind = "watch" /\ "changed" \in wait.keys =>
               \E j \in 1..(i - 1) : /\ got(j) \notin {Failed, got(i)}
                                     /\ \A k \in (j + 1)..(i - 1) : got(k) = Failed

\* What ends a wait is what was read.  One that is met has been shown what is
\* watched for by as many polls as have to confirm it, with no scheduled poll
\* between that failed or showed something else (operator.py:1497, 1582, 1605);
\* a watch given up, if only its schedule polled, never was.  A poll that an
\* owner's message or a stray check makes breaks no streak, whatever it shows:
\* there the reset at 1605 is not saved.
OutcomeIsEarned ==
    LET need == IF wait.kind = "await" THEN 1 ELSE wait.need
        misses == {i \in DOMAIN reads : ~Signal(i) /\ ~reads[i].aside}
        signals == {i \in DOMAIN reads : Signal(i) /\ \A m \in misses : m < i}
        inarow(k) == \A i \in k..(k + need - 1) : i \in DOMAIN reads /\ Signal(i)
    IN  /\ step = "done" /\ wait.kind # "beat" => Cardinality(signals) >= need
        /\ step = "failed" /\ wait.kind = "watch" /\ (\A i \in DOMAIN reads : ~reads[i].aside)
             => \A k \in DOMAIN reads : ~inarow(k)

\* A run that waits has the timer of its wait, that of a window exactly at its
\* end, or the poller has claimed it; a check never takes its place
\* (controlplane.py:211, operator.py:1464).  A crash after a claim loses it.
WaitIsTimed ==
    status = "waiting" =>
        \/ lost
        \/ claimed = [event |-> "timer", stale |-> FALSE]
        \/ \E t \in timers : t.kind = wait.kind /\ (wait.kind = "await" => t.in = left)

\* A window for replies closes at its end and not at a check
\* (controlplane.py:208), but for a wake-up claimed before it was opened, which
\* resume() delivers to whatever wait it finds.
WindowHonoured ==
    [][step = "waiting" /\ wait.kind = "await" /\ step' \in {"failed", "dropped"}
          => left = 0 \/ claimed.stale]_vars

\* A wait has one chain of wake-ups, and one more for each message the owner
\* sent meanwhile or wake-up that was claimed before it (operator.py:1590,
\* 1653): each of these arms the next poll beside the one that is armed.
OneChain ==
    status = "waiting" =>
        Cardinality({t \in timers : t.kind = wait.kind}) <= 1 + extra

\* Every wait comes to an end: its window, its polls, its beats are bounded.
WaitEnds == status = "waiting" ~> status # "waiting" \/ lost
=============================================================================
