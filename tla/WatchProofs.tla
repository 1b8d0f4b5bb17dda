----------------------------- MODULE WatchProofs -----------------------------
(***************************************************************************)
(* Theorems about the Watch module, for every set of waits, pages and      *)
(* bounds: a run that waits has its timer, a window closes at its end and  *)
(* not before, the chains of wake-ups do not multiply, and what ends a     *)
(* wait has been read.                                                     *)
(***************************************************************************)
EXTENDS Watch, FiniteSetTheorems, TLAPS

-----------------------------------------------------------------------------
(* Types.                                                                  *)

StatusOK ==
    /\ status \in {"running", "waiting", "escalated", "done"}
    /\ step \in {"none", "waiting", "done", "failed", "dropped"}
    /\ status = "waiting" <=> step = "waiting"
    /\ wait \in Waits \cup {None} /\ (step # "none" => wait \in Waits)

CountsOK ==
    /\ streak \in Nat /\ polls \in Nat /\ left \in Nat
    /\ step = "waiting" => streak < wait.need /\ polls <= wait.limit

DigestOK == digest \in Pages \cup {None}
TimersOK == timers \subseteq [kind : Kinds \cup {"check"}, in : Nat]
ClaimedOK == claimed \in [event : Events, stale : BOOLEAN] \cup {None}
FlagsOK == headroom \in BOOLEAN /\ lost \in BOOLEAN

BoundsOK ==
    /\ replans \in 0..MaxReplans /\ page \in Pages /\ inbox \in 0..MaxReplies
    /\ waits \in 0..MaxWaits /\ messages \in 0..MaxMessages /\ crashes \in 0..MaxCrashes
    /\ extra \in Nat

Read == [got : Observed \cup {Failed}, aside : BOOLEAN]
ReadsOK == reads \in Seq(Read)

TypeInv ==
    StatusOK /\ CountsOK /\ DigestOK /\ TimersOK /\ ClaimedOK /\ FlagsOK /\ BoundsOK /\ ReadsOK

LEMMA TypeParts == TypeOK <=> TypeInv
BY DEF TypeOK, TypeInv, StatusOK, CountsOK, DigestOK, TimersOK, ClaimedOK, FlagsOK, BoundsOK,
       ReadsOK, Read

\* What the params of a wait may be.
LEMMA WaitType ==
    ASSUME NEW w \in Waits
    PROVE  /\ w.kind \in Kinds
           /\ w.every \in Nat \ {0} /\ w.check \in Nat \ {0}
           /\ w.need \in Nat \ {0} /\ w.limit \in Nat \ {0}
BY WatchAssumption DEF WatchAssumption

\* A run that waits has a wait.
LEMMA WaitingHasWait ==
    ASSUME TypeInv, status = "waiting" \/ step = "waiting"
    PROVE  status = "waiting" /\ step = "waiting" /\ wait \in Waits
BY DEF TypeInv, StatusOK

-----------------------------------------------------------------------------
(* What a wake-up may do: end the wait, or let it go on.                   *)

Over ==
    /\ step' \in {"done", "failed", "dropped"} /\ status' \in {"running", "escalated"}
    /\ timers' = {} /\ UNCHANGED <<wait, streak, polls, digest, left>>

GoesOn(e) ==
    /\ UNCHANGED <<status, step, wait, left>>
    /\ streak' \in Nat /\ polls' \in Nat /\ streak' < wait.need /\ polls' <= wait.limit
    /\ digest' \in Pages \cup {None}
    /\ \/ /\ wait.kind = "await" /\ e # "timer"
          /\ timers' = timers \cup (IF e = "check" THEN Checks(wait, left) ELSE {})
       \/ wait.kind # "await" /\ timers' = timers \cup NextPoll
       \/ wait.kind = "watch" /\ e # "timer" /\ timers' = timers

LEMMA EndsIsOver ==
    ASSUME NEW how \in {"done", "failed", "dropped"}, NEW next \in {"running", "escalated"},
           Ends(how, next)
    PROVE  Over
BY DEF Ends, Over, Cancelled

LEMMA DigestType ==
    ASSUME TypeInv, NEW r \in Reads
    PROVE  DigestOf(r) \in Pages \cup {None}
BY DEF TypeInv, DigestOK, BoundsOK, Reads, Inbox, DigestOf

LEMMA WindowWakeUp ==
    ASSUME TypeInv, status = "waiting", wait.kind = "await", NEW e, NEW r \in Reads,
           Replied(r) \/ WindowCloses(e, r) \/ StillOpen(e, r)
    PROVE  /\ Over \/ GoesOn(e)
           /\ replans' \in 0..MaxReplans
           /\ step' \in {"failed", "dropped"} => e = "timer"
<1>1. /\ step = "waiting" /\ replans \in 0..MaxReplans /\ MaxReplans \in Nat
      /\ streak \in Nat /\ polls \in Nat /\ streak < wait.need /\ polls <= wait.limit
      /\ digest \in Pages \cup {None}
      BY WaitingHasWait, WatchAssumption
      DEF TypeInv, BoundsOK, CountsOK, DigestOK, WatchAssumption
<1>2. CASE Replied(r)
  <2>1. Ends("done", "running") /\ UNCHANGED replans
        BY <1>2 DEF Replied
  <2>2. step' = "done"
        BY <2>1 DEF Ends
  <2> QED BY <2>1, <2>2, <1>1, EndsIsOver
<1>3. CASE WindowCloses(e, r)
  <2>1. /\ e = "timer"
        /\ Ends("dropped", "running") \/ Ends("failed", "escalated")
        BY <1>3 DEF WindowCloses
  <2>2. replans' \in 0..MaxReplans
        BY <1>1, <1>3 DEF WindowCloses
  <2> QED BY <2>1, <2>2, EndsIsOver
<1>4. CASE StillOpen(e, r)
  <2>1. /\ e # "timer" /\ UNCHANGED <<streak, polls, digest, replans>>
        /\ timers' = timers \cup (IF e = "check" THEN Checks(wait, left) ELSE {})
        /\ UNCHANGED <<status, step, wait, left>>
        BY <1>4 DEF StillOpen, Rearm
  <2>2. GoesOn(e)
        BY <2>1, <1>1 DEF GoesOn
  <2> QED BY <2>1, <2>2, <1>1
<1> QED BY <1>2, <1>3, <1>4

LEMMA WatchWakeUp ==
    ASSUME TypeInv, status = "waiting", wait.kind = "watch", NEW e, NEW r \in Reads,
           \/ Fires(r) \/ OnceMore(r)
           \/ e = "timer" /\ (Missed(r) \/ GivesUp(r))
           \/ e # "timer" /\ MissedUnsaved(r)
    PROVE  /\ Over \/ GoesOn(e)
           /\ UNCHANGED replans
<1>1. /\ step = "waiting" /\ wait \in Waits
      /\ streak \in Nat /\ polls \in Nat /\ streak < wait.need /\ polls <= wait.limit
      /\ digest \in Pages \cup {None}
      BY WaitingHasWait DEF TypeInv, CountsOK, DigestOK
<1>2. wait.need \in Nat \ {0} /\ wait.limit \in Nat \ {0}
      BY <1>1, WaitType
<1>3. CASE Fires(r) \/ GivesUp(r)
  <2>1. /\ Ends("done", "running") \/ Ends("failed", "escalated")
        /\ UNCHANGED replans
        BY <1>3 DEF Fires, GivesUp
  <2> QED BY <2>1, EndsIsOver
<1>4. CASE OnceMore(r)
  <2>1. /\ streak + 1 < wait.need /\ streak' = streak + 1 /\ digest' = DigestOf(r)
        /\ timers' = timers \cup NextPoll /\ UNCHANGED <<status, step, wait, left>>
        /\ UNCHANGED <<polls, replans>>
        BY <1>4 DEF OnceMore, Rearm
  <2> QED BY <2>1, <1>1, <1>2, DigestType DEF GoesOn
<1>5. CASE Missed(r)
  <2>1. /\ polls + 1 < wait.limit /\ streak' = 0 /\ polls' = polls + 1 /\ digest' = DigestOf(r)
        /\ timers' = timers \cup NextPoll /\ UNCHANGED <<status, step, wait, left>>
        /\ UNCHANGED replans
        BY <1>5 DEF Missed, Rearm
  <2> QED BY <2>1, <1>1, <1>2, DigestType DEF GoesOn
<1>6. CASE e # "timer" /\ MissedUnsaved(r)
  <2>1. UNCHANGED <<status, step, wait, streak, polls, digest, left, timers, replans>>
        BY <1>6 DEF MissedUnsaved, plan
  <2> QED BY <2>1, <1>1, <1>6 DEF GoesOn
<1> QED BY <1>3, <1>4, <1>5, <1>6

LEMMA BeatWakeUp ==
    ASSUME TypeInv, status = "waiting", wait.kind = "beat", NEW e, Beat \/ BeatsEnd
    PROVE  /\ Over \/ GoesOn(e)
           /\ UNCHANGED replans
<1>1. /\ step = "waiting" /\ wait \in Waits
      /\ streak \in Nat /\ polls \in Nat /\ streak < wait.need /\ polls <= wait.limit
      /\ digest \in Pages \cup {None}
      BY WaitingHasWait DEF TypeInv, CountsOK, DigestOK
<1>2. wait.need \in Nat \ {0} /\ wait.limit \in Nat \ {0}
      BY <1>1, WaitType
<1>3. CASE Beat
  <2>1. /\ polls < wait.limit /\ polls' = polls + 1
        /\ timers' = timers \cup NextPoll /\ UNCHANGED <<status, step, wait, left>>
        /\ UNCHANGED <<streak, digest, replans>>
        BY <1>3 DEF Beat, Rearm
  <2> QED BY <2>1, <1>1, <1>2 DEF GoesOn
<1>4. CASE BeatsEnd
      BY <1>4, EndsIsOver DEF BeatsEnd
<1> QED BY <1>3, <1>4

\* Whatever wakes a wait and whatever is read.
LEMMA WakeUp ==
    ASSUME TypeInv, status = "waiting", NEW e, Woken(e)
    PROVE  /\ Over \/ GoesOn(e)
           /\ replans' \in 0..MaxReplans /\ reads' \in Seq(Read)
           /\ wait.kind = "await" /\ step' \in {"failed", "dropped"} => e = "timer"
<1>1. replans \in 0..MaxReplans /\ reads \in Seq(Read)
      BY DEF TypeInv, BoundsOK, ReadsOK
<1>2. ASSUME NEW r \in Reads, Polled(e, r),
             reads' = Append(reads, [got |-> r, aside |-> e # "timer"])
      PROVE  /\ Over \/ GoesOn(e)
             /\ replans' \in 0..MaxReplans /\ reads' \in Seq(Read)
             /\ wait.kind = "await" /\ step' \in {"failed", "dropped"} => e = "timer"
  <2>1. r \in Observed \cup {Failed}
        BY WatchAssumption DEF Reads, Observed, TypeInv, BoundsOK, WatchAssumption
  <2>2. (e # "timer") \in BOOLEAN
        OBVIOUS
  <2>3. [got |-> r, aside |-> e # "timer"] \in Read
        BY <2>1, <2>2, Zenon DEF Read
  <2>4. reads' \in Seq(Read)
        BY <1>1, <1>2, <2>3
  <2>5. CASE wait.kind = "await" /\ (Replied(r) \/ WindowCloses(e, r) \/ StillOpen(e, r))
        BY <2>4, <2>5, WindowWakeUp
  <2>6. CASE /\ wait.kind = "watch"
             /\ \/ Fires(r) \/ OnceMore(r)
                \/ e = "timer" /\ (Missed(r) \/ GivesUp(r))
                \/ e # "timer" /\ MissedUnsaved(r)
        BY <2>4, <2>6, <1>1, WatchWakeUp
  <2> QED BY <1>2, <2>5, <2>6 DEF Polled
<1>3. CASE wait.kind = "beat" /\ (Beat \/ BeatsEnd) /\ UNCHANGED reads
      BY <1>1, <1>3, BeatWakeUp
<1> QED BY <1>2, <1>3 DEF Woken

-----------------------------------------------------------------------------
(* The types are kept.                                                     *)

LEMMA TypeInit == Init => TypeInv
<1> SUFFICES ASSUME Init
             PROVE  TypeInv
    OBVIOUS
<1>1. {MaxWaits, MaxReplans, MaxReplies, MaxMessages, MaxCrashes} \subseteq Nat
      BY WatchAssumption DEF WatchAssumption
<1>2. StatusOK /\ CountsOK /\ DigestOK /\ TimersOK /\ ClaimedOK
      BY DEF Init, StatusOK, CountsOK, DigestOK, TimersOK, ClaimedOK
<1>3. FlagsOK
      BY DEF Init, FlagsOK
<1>4. BoundsOK /\ ReadsOK
      BY <1>1 DEF Init, BoundsOK, ReadsOK
<1> QED BY <1>2, <1>3, <1>4 DEF TypeInv

\* Timers that are armed are timers.
LEMMA TimerType ==
    ASSUME NEW w \in Waits, NEW n \in Nat
    PROVE  /\ Timer(w.kind, w.every) \in [kind : Kinds \cup {"check"}, in : Nat]
           /\ Checks(w, n) \subseteq {Timer("check", w.check)}
           /\ Checks(w, n) \subseteq [kind : Kinds \cup {"check"}, in : Nat]
BY WaitType DEF Timer, Checks

\* So are those of a wait that goes on.
LEMMA OutcomeType ==
    ASSUME TypeInv, status = "waiting", NEW e, Over \/ GoesOn(e)
    PROVE  StatusOK' /\ CountsOK' /\ DigestOK' /\ TimersOK'
<1>1. /\ StatusOK /\ CountsOK /\ DigestOK /\ TimersOK
      /\ step = "waiting" /\ wait \in Waits
      BY WaitingHasWait DEF TypeInv
<1>2. CASE Over
      BY <1>1, <1>2 DEF Over, StatusOK, CountsOK, DigestOK, TimersOK
<1>3. CASE GoesOn(e)
  <2>1. StatusOK' /\ CountsOK' /\ DigestOK'
        BY <1>1, <1>3 DEF GoesOn, StatusOK, CountsOK, DigestOK
  <2>2. left \in Nat
        BY <1>1 DEF CountsOK
  <2>3. timers' \subseteq timers \cup Checks(wait, left) \cup NextPoll
        BY <1>3 DEF GoesOn
  <2>4. TimersOK'
        BY <1>1, <2>2, <2>3, TimerType DEF TimersOK, NextPoll
  <2> QED BY <2>1, <2>4
<1> QED BY <1>2, <1>3

LEMMA TypePark ==
    ASSUME TypeInv, Park
    PROVE  TypeInv'
<1>1. PICK w \in Waits :
          /\ wait' = w
          /\ left' = IF w.kind = "await" THEN w.every ELSE 0
          /\ timers' = timers \cup {Timer(w.kind, w.every)}
                              \cup (IF w.kind = "await" THEN Checks(w, w.every) ELSE {})
      BY DEF Park
<1>2. /\ status' = "waiting" /\ step' = "waiting" /\ waits' = waits + 1 /\ waits < MaxWaits
      /\ streak' = 0 /\ polls' = 0 /\ digest' = None /\ inbox' \in 0..MaxReplies
      /\ reads' = <<>> /\ extra' = 0
      /\ UNCHANGED <<replans, page, messages, crashes>>
      BY DEF Park
<1>3. w.every \in Nat \ {0} /\ w.need \in Nat \ {0} /\ w.limit \in Nat \ {0}
      BY WaitType
<1>4. StatusOK' /\ CountsOK' /\ DigestOK' /\ ReadsOK'
      BY <1>1, <1>2, <1>3 DEF StatusOK, CountsOK, DigestOK, ReadsOK
<1>5. TimersOK'
  <2>1. timers' \subseteq timers \cup {Timer(w.kind, w.every)} \cup Checks(w, w.every)
        BY <1>1
  <2> QED BY <2>1, <1>3, TimerType DEF TypeInv, TimersOK
<1>6. BoundsOK'
      BY <1>2, WatchAssumption DEF TypeInv, BoundsOK, WatchAssumption
<1>7. ClaimedOK'
  <2>1. claimed' = IF claimed = None THEN None ELSE [claimed EXCEPT !.stale = TRUE]
        BY DEF Park
  <2>2. CASE claimed = None
        BY <2>1, <2>2 DEF ClaimedOK
  <2>3. CASE claimed # None
        BY <2>1, <2>3 DEF TypeInv, ClaimedOK
  <2> QED BY <2>2, <2>3
<1>8. headroom' = headroom /\ lost' = FALSE
      BY DEF Park
<1>9. FlagsOK'
      BY <1>8 DEF TypeInv, FlagsOK
<1> QED BY <1>4, <1>5, <1>6, <1>7, <1>9 DEF TypeInv

LEMMA TypeClaim ==
    ASSUME TypeInv, Finish \/ Claim \/ Crash
    PROVE  TypeInv'
<1>1. /\ StatusOK /\ CountsOK /\ DigestOK /\ TimersOK /\ ClaimedOK /\ FlagsOK
      /\ BoundsOK /\ ReadsOK
      BY DEF TypeInv
<1>2. /\ UNCHANGED <<step, wait, streak, polls, digest, left, replans, headroom, page, inbox>>
      /\ UNCHANGED <<waits, messages, reads, extra>>
      BY DEF Finish, Claim, Crash, plan, world, bounds
<1>3. StatusOK' /\ CountsOK' /\ DigestOK' /\ ReadsOK'
      BY <1>1, <1>2 DEF Finish, Claim, Crash, StatusOK, CountsOK, DigestOK, ReadsOK
<1>4. TimersOK' /\ timers' \subseteq timers
      BY <1>1 DEF Finish, Claim, Crash, TimersOK
<1>5. ClaimedOK'
  <2>1. Chosen(Due) \in Events
        BY DEF Chosen, Events
  <2>2. CASE Claim
    <3>1. claimed' = [event |-> Chosen(Due), stale |-> FALSE]
          BY <2>2 DEF Claim
    <3> QED BY <2>1, <3>1 DEF ClaimedOK
  <2>3. CASE Finish \/ Crash
        BY <2>3, <1>1 DEF Finish, Crash, ClaimedOK
  <2> QED BY <2>2, <2>3
<1>6. BoundsOK'
      BY <1>1, <1>2, WatchAssumption DEF Finish, Claim, Crash, BoundsOK, bounds, WatchAssumption
<1>7. FlagsOK'
  <2>1. CASE Finish \/ Claim
        BY <2>1, <1>1, <1>2 DEF Finish, Claim, FlagsOK
  <2>2. CASE Crash
    <3>1. lost' = (lost \/ ~claimed.stale)
          BY <2>2 DEF Crash
    <3>2. lost' \in BOOLEAN
          BY <3>1
    <3> QED BY <3>2, <1>1, <1>2 DEF FlagsOK
  <2> QED BY <2>1, <2>2
<1> QED BY <1>3, <1>4, <1>5, <1>6, <1>7 DEF TypeInv

LEMMA TypeWake ==
    ASSUME TypeInv, Deliver \/ Message
    PROVE  TypeInv'
<1>1. /\ StatusOK /\ CountsOK /\ DigestOK /\ TimersOK /\ ClaimedOK /\ FlagsOK
      /\ BoundsOK /\ ReadsOK
      BY DEF TypeInv
<1>2. /\ UNCHANGED <<headroom, page, inbox, waits, crashes, lost>>
      /\ extra' \in {extra, extra + 1}
      /\ messages' = messages \/ (messages < MaxMessages /\ messages' = messages + 1)
      BY DEF Deliver, Message, world, bounds
<1>3. FlagsOK'
      BY <1>1, <1>2 DEF FlagsOK
<1>4. ClaimedOK'
      BY <1>1 DEF Deliver, Message, ClaimedOK
<1>5. ASSUME status = "waiting", NEW e, Woken(e)
      PROVE  /\ StatusOK' /\ CountsOK' /\ DigestOK' /\ TimersOK' /\ ReadsOK'
             /\ replans' \in 0..MaxReplans
      BY <1>5, WakeUp, OutcomeType DEF ReadsOK
<1>6. CASE status = "waiting"
  <2>1. \E e : Woken(e)
        BY <1>6 DEF Deliver, Message
  <2>2. /\ StatusOK' /\ CountsOK' /\ DigestOK' /\ TimersOK' /\ ReadsOK'
        /\ replans' \in 0..MaxReplans
        BY <1>5, <1>6, <2>1
  <2>3. BoundsOK'
        BY <1>1, <1>2, <2>2, WatchAssumption DEF BoundsOK, WatchAssumption
  <2> QED BY <2>2, <2>3, <1>3, <1>4 DEF TypeInv
<1>7. CASE status # "waiting"
  <2>1. /\ UNCHANGED <<status, step, wait, streak, polls, digest, left, timers, replans, reads>>
        /\ UNCHANGED messages
        BY <1>7 DEF Deliver, Message, plan, bounds
  <2>2. StatusOK' /\ CountsOK' /\ DigestOK' /\ TimersOK' /\ ReadsOK'
        BY <1>1, <2>1 DEF StatusOK, CountsOK, DigestOK, TimersOK, ReadsOK
  <2>3. BoundsOK'
        BY <1>1, <1>2, <2>1 DEF BoundsOK
  <2> QED BY <2>2, <2>3, <1>3, <1>4 DEF TypeInv
<1> QED BY <1>6, <1>7

LEMMA LessType == \A n \in Nat : Less(n) \in Nat
BY DEF Less

LEMMA TypeWorld ==
    ASSUME TypeInv, Advance \/ World
    PROVE  TypeInv'
<1>1. /\ StatusOK /\ CountsOK /\ DigestOK /\ TimersOK /\ ClaimedOK /\ FlagsOK
      /\ BoundsOK /\ ReadsOK
      BY DEF TypeInv
<1>2. /\ UNCHANGED <<status, step, wait, streak, polls, digest, claimed, replans>>
      /\ UNCHANGED <<waits, messages, crashes, reads, extra, lost>>
      BY DEF Advance, World, plan, bounds
<1>3. left' \in Nat
      BY <1>1, LessType DEF Advance, World, plan, CountsOK
<1>4. StatusOK' /\ CountsOK' /\ DigestOK' /\ ClaimedOK' /\ ReadsOK'
      BY <1>1, <1>2, <1>3 DEF StatusOK, CountsOK, DigestOK, ClaimedOK, ReadsOK
<1>5. TimersOK'
  <2>1. CASE Advance
    <3>1. timers' = {[t EXCEPT !.in = Less(t.in)] : t \in timers}
          BY <2>1 DEF Advance
    <3>2. \A t \in timers : [t EXCEPT !.in = Less(t.in)] \in [kind : Kinds \cup {"check"}, in : Nat]
          BY <1>1, LessType DEF TimersOK
    <3> QED BY <3>1, <3>2 DEF TimersOK
  <2>2. CASE World
        BY <2>2, <1>1 DEF World, TimersOK
  <2> QED BY <2>1, <2>2
<1>6. BoundsOK'
  <2>1. page' \in Pages /\ inbox' \in 0..MaxReplies
    <3>1. CASE Advance
          BY <3>1, <1>1 DEF Advance, world, BoundsOK
    <3>2. CASE World
          BY <3>2, <1>1, WatchAssumption DEF World, BoundsOK, WatchAssumption
    <3> QED BY <3>1, <3>2
  <2> QED BY <1>1, <1>2, <2>1 DEF BoundsOK
<1>7. FlagsOK'
  <2>1. headroom' = headroom \/ headroom' = FALSE
        BY DEF Advance, World
  <2> QED BY <1>1, <1>2, <2>1 DEF FlagsOK
<1> QED BY <1>4, <1>5, <1>6, <1>7 DEF TypeInv

LEMMA Unchanged ==
    ASSUME UNCHANGED vars
    PROVE  /\ UNCHANGED <<status, step, wait, streak, polls, digest, left, timers, claimed>>
           /\ UNCHANGED <<replans, headroom, page, inbox, waits, messages, crashes>>
           /\ UNCHANGED <<reads, extra, lost>>
BY DEF vars, plan, world, bounds

LEMMA TypeNext ==
    ASSUME TypeInv, [Next]_vars
    PROVE  TypeInv'
<1>1. CASE UNCHANGED vars
  <2>1. StatusOK' /\ CountsOK' /\ DigestOK' /\ TimersOK' /\ ClaimedOK' /\ BoundsOK' /\ ReadsOK'
        BY <1>1, Unchanged DEF TypeInv, StatusOK, CountsOK, DigestOK, TimersOK, ClaimedOK,
                               BoundsOK, ReadsOK
  <2>2. FlagsOK'
        BY <1>1, Unchanged DEF TypeInv, FlagsOK
  <2> QED BY <2>1, <2>2 DEF TypeInv
<1> QED BY <1>1, TypePark, TypeClaim, TypeWake, TypeWorld DEF Next

LEMMA TypeInvHolds == Spec => []TypeInv
<1>1. TypeInv /\ [Next]_vars => TypeInv'
      BY TypeNext
<1> QED BY TypeInit, <1>1, PTL DEF Spec

\* Every variable keeps its type: a wait that goes on has not had the matches
\* that end it, nor more polls or beats than it may (operator.py, _resume_waiting).
THEOREM TypeCorrect == Spec => []TypeOK
<1>1. TypeInv => TypeOK
      BY TypeParts
<1> QED BY TypeInvHolds, <1>1, PTL

-----------------------------------------------------------------------------
(* The timers of a wait.  Those that are armed are its own, and what the     *)
(* poller has claimed since the wait began was one of them.                  *)

Own(e) == claimed = [event |-> e, stale |-> FALSE]

ItsTimers ==
    /\ status # "waiting" => timers = {}
    /\ status = "waiting" =>
          \A t \in timers : \/ t.kind = wait.kind /\ (wait.kind = "await" => t.in = left)
                            \/ t.kind = "check" /\ wait.kind = "await"

ItsClaim ==
    status = "waiting" =>
        /\ Own("timer") /\ wait.kind = "await" => left = 0
        /\ Own("check") => wait.kind = "await"

WaitInv == ItsTimers /\ ItsClaim /\ WaitIsTimed

LEMMA KindsApart ==
    ASSUME NEW w \in Waits
    PROVE  w.kind # "check" /\ w.kind \in {"await", "watch", "beat"}
BY WaitType DEF Kinds

LEMMA NoneIsNoClaim ==
    /\ [event |-> "timer", stale |-> FALSE] # None
    /\ [event |-> "check", stale |-> FALSE] # None
<1>1. /\ [event |-> "timer", stale |-> FALSE] \in [event : Events, stale : BOOLEAN]
      /\ [event |-> "check", stale |-> FALSE] \in [event : Events, stale : BOOLEAN]
      BY DEF Events
<1> QED BY <1>1, WatchAssumption DEF WatchAssumption

LEMMA InvInit == Init => WaitInv
BY DEF Init, WaitInv, ItsTimers, ItsClaim, WaitIsTimed

LEMMA InvPark ==
    ASSUME TypeInv, WaitInv, Park
    PROVE  WaitInv'
<1>1. PICK w \in Waits :
          /\ wait' = w
          /\ left' = IF w.kind = "await" THEN w.every ELSE 0
          /\ timers' = timers \cup {Timer(w.kind, w.every)}
                              \cup (IF w.kind = "await" THEN Checks(w, w.every) ELSE {})
      BY DEF Park
<1>2. timers = {} /\ status' = "waiting"
      BY DEF Park, WaitInv, ItsTimers
<1>3. w.every \in Nat
      BY WaitType
<1>4. \A t \in timers' : \/ t = Timer(w.kind, w.every)
                         \/ t = Timer("check", w.check) /\ w.kind = "await"
      BY <1>1, <1>2, <1>3, TimerType
<1>5. Timer(w.kind, w.every) \in timers'
      BY <1>1
<1>6. ItsTimers'
      BY <1>1, <1>2, <1>4 DEF ItsTimers, Timer
<1>7. WaitIsTimed'
      BY <1>1, <1>2, <1>5 DEF WaitIsTimed, Timer
<1>8. ~Own("timer")' /\ ~Own("check")'
  <2>1. claimed' = IF claimed = None THEN None ELSE [claimed EXCEPT !.stale = TRUE]
        BY DEF Park
  <2>2. CASE claimed = None
        BY <2>1, <2>2, NoneIsNoClaim DEF Own
  <2>3. CASE claimed # None
    <3>1. claimed' = [event |-> claimed.event, stale |-> TRUE]
          BY <2>1, <2>3 DEF TypeInv, ClaimedOK
    <3> QED BY <3>1 DEF Own
  <2> QED BY <2>2, <2>3
<1>9. ItsClaim'
      BY <1>8 DEF ItsClaim
<1> QED BY <1>6, <1>7, <1>9 DEF WaitInv

LEMMA InvClaim ==
    ASSUME TypeInv, WaitInv, Claim
    PROVE  WaitInv'
<1>1. /\ timers' = timers \ Due /\ claimed = None
      /\ claimed' = [event |-> Chosen(Due), stale |-> FALSE]
      /\ UNCHANGED <<status, wait, left, lost>>
      BY DEF Claim, plan
<1>2. ItsTimers'
      BY <1>1 DEF WaitInv, ItsTimers
<1> SUFFICES ASSUME status = "waiting"
             PROVE  ItsClaim' /\ WaitIsTimed'
    BY <1>1, <1>2 DEF WaitInv, ItsClaim, WaitIsTimed
<1>3. wait \in Waits
      BY WaitingHasWait
<1>4. wait.kind # "check"
      BY <1>3, KindsApart
<1>5. \A t \in timers : \/ t.kind = wait.kind /\ (wait.kind = "await" => t.in = left)
                        \/ t.kind = "check" /\ wait.kind = "await"
      BY DEF WaitInv, ItsTimers
<1>6. Due \subseteq timers /\ Due # {} /\ \A t \in Due : t.in = 0
      BY DEF Claim, Due
<1>7. ItsClaim'
  <2>1. ASSUME Own("timer")', wait.kind = "await"
        PROVE  left = 0
    <3>1. Chosen(Due) = "timer"
          BY <1>1, <2>1 DEF Own
    <3>2. PICK t \in Due : t.kind # "check"
          BY <3>1 DEF Chosen
    <3> QED BY <3>2, <1>5, <1>6, <2>1
  <2>2. ASSUME Own("check")'
        PROVE  wait.kind = "await"
    <3>1. Chosen(Due) = "check"
          BY <1>1, <2>2 DEF Own
    <3>2. \A t \in Due : t.kind = "check"
          BY <3>1 DEF Chosen
    <3> QED BY <3>2, <1>4, <1>5, <1>6
  <2> QED BY <2>1, <2>2, <1>1 DEF ItsClaim
<1>8. WaitIsTimed'
  <2>1. claimed # [event |-> "timer", stale |-> FALSE]
        BY <1>1, NoneIsNoClaim
  <2>2. \/ lost
        \/ \E t \in timers : t.kind = wait.kind /\ (wait.kind = "await" => t.in = left)
        BY <2>1 DEF WaitInv, WaitIsTimed
  <2>3. CASE lost
        BY <2>3, <1>1 DEF WaitIsTimed
  <2>4. CASE \E t \in timers : t.kind = wait.kind /\ (wait.kind = "await" => t.in = left)
    <3>1. PICK t \in timers : t.kind = wait.kind /\ (wait.kind = "await" => t.in = left)
          BY <2>4
    <3>2. CASE t \in Due
      <4>1. Chosen(Due) = "timer"
            BY <3>1, <3>2, <1>4 DEF Chosen
      <4> QED BY <4>1, <1>1 DEF WaitIsTimed
    <3>3. CASE t \notin Due
          BY <3>1, <3>3, <1>1 DEF WaitIsTimed
    <3> QED BY <3>2, <3>3
  <2> QED BY <2>2, <2>3, <2>4
<1> QED BY <1>2, <1>7, <1>8 DEF WaitInv

\* A wake-up: unless it is the wait's own timer that has come, the timer stays.
LEMMA InvWake ==
    ASSUME TypeInv, WaitInv, status = "waiting", NEW e, Woken(e), UNCHANGED lost,
           Own("timer") => e = "timer" \/ claimed' = claimed,
           claimed' \in {claimed, None}
    PROVE  WaitInv'
<1>1. wait \in Waits /\ step = "waiting"
      BY WaitingHasWait
<1>2. wait.every \in Nat /\ wait.kind # "check" /\ left \in Nat
      BY <1>1, WaitType, KindsApart DEF TypeInv, CountsOK
<1>3. CASE Over
      BY <1>3 DEF Over, WaitInv, ItsTimers, ItsClaim, WaitIsTimed
<1>4. CASE GoesOn(e)
  <2>1. UNCHANGED <<status, wait, left>> /\ timers \subseteq timers'
        BY <1>4 DEF GoesOn
  <2>2. \A t \in timers' \ timers :
            \/ t = Timer("check", wait.check) /\ wait.kind = "await"
            \/ t = Timer(wait.kind, wait.every) /\ wait.kind # "await"
        BY <1>1, <1>2, <1>4, TimerType DEF GoesOn, NextPoll
  <2>3. ItsTimers'
        BY <2>1, <2>2 DEF WaitInv, ItsTimers, Timer
  <2>4. Own("timer")' => Own("timer")
        BY NoneIsNoClaim DEF Own
  <2>5. Own("check")' => Own("check")
        BY NoneIsNoClaim DEF Own
  <2>6. ItsClaim'
        BY <2>1, <2>4, <2>5 DEF WaitInv, ItsClaim
  <2>7. WaitIsTimed'
    <3>1. CASE lost
          BY <3>1 DEF WaitIsTimed
    <3>2. CASE \E t \in timers : t.kind = wait.kind /\ (wait.kind = "await" => t.in = left)
      <4>1. PICK t \in timers : t.kind = wait.kind /\ (wait.kind = "await" => t.in = left)
            BY <3>2
      <4>2. t \in timers' /\ wait' = wait /\ left' = left
            BY <2>1
      <4> QED BY <4>1, <4>2 DEF WaitIsTimed
    <3>3. CASE Own("timer") /\ claimed' = claimed
          BY <3>3 DEF WaitIsTimed, Own
    <3>4. CASE Own("timer") /\ e = "timer"
      <4>1. wait.kind # "await" /\ timers' = timers \cup NextPoll
            BY <3>4, <1>4 DEF GoesOn
      <4>2. Timer(wait.kind, wait.every) \in timers' /\ wait' = wait
            BY <4>1, <2>1 DEF NextPoll
      <4>3. Timer(wait.kind, wait.every).kind = wait.kind
            BY DEF Timer
      <4> QED BY <4>1, <4>2, <4>3 DEF WaitIsTimed
    <3> QED BY <3>1, <3>2, <3>3, <3>4 DEF WaitInv, WaitIsTimed, Own
  <2> QED BY <2>3, <2>6, <2>7 DEF WaitInv
<1> QED BY <1>3, <1>4, WakeUp

LEMMA InvDeliver ==
    ASSUME TypeInv, WaitInv, Deliver
    PROVE  WaitInv'
<1>1. claimed' = None /\ UNCHANGED lost
      BY DEF Deliver
<1>2. CASE status = "waiting"
  <2>1. Woken(claimed.event)
        BY <1>2 DEF Deliver
  <2>2. Own("timer") => claimed.event = "timer"
        BY DEF Own
  <2> QED BY <1>1, <1>2, <2>1, <2>2, InvWake
<1>3. CASE status # "waiting"
  <2>1. UNCHANGED <<status, timers>>
        BY <1>3 DEF Deliver
  <2> QED BY <1>3, <2>1 DEF WaitInv, ItsTimers, ItsClaim, WaitIsTimed
<1> QED BY <1>2, <1>3

LEMMA InvMessage ==
    ASSUME TypeInv, WaitInv, Message
    PROVE  WaitInv'
<1>1. status = "waiting" /\ Woken("message") /\ UNCHANGED <<claimed, lost>>
      BY DEF Message
<1> QED BY <1>1, InvWake

LEMMA InvCrash ==
    ASSUME TypeInv, WaitInv, Crash
    PROVE  WaitInv'
<1>1. /\ claimed' = None /\ lost' = (lost \/ ~claimed.stale)
      /\ UNCHANGED <<status, wait, left, timers>>
      BY DEF Crash, plan
<1>2. ItsTimers'
      BY <1>1 DEF WaitInv, ItsTimers
<1>3. ItsClaim'
      BY <1>1, NoneIsNoClaim DEF ItsClaim, Own
<1>4. WaitIsTimed'
  <2>1. CASE claimed = [event |-> "timer", stale |-> FALSE]
    <3>1. ~claimed.stale
          BY <2>1
    <3>2. lost'
          BY <3>1, <1>1
    <3> QED BY <3>2 DEF WaitIsTimed
  <2>2. CASE lost
    <3>1. lost'
          BY <2>2, <1>1
    <3> QED BY <3>1 DEF WaitIsTimed
  <2>3. CASE \E t \in timers : t.kind = wait.kind /\ (wait.kind = "await" => t.in = left)
        BY <2>3, <1>1 DEF WaitIsTimed
  <2>4. CASE status # "waiting"
        BY <2>4, <1>1 DEF WaitIsTimed
  <2> QED BY <2>1, <2>2, <2>3, <2>4 DEF WaitInv, WaitIsTimed
<1> QED BY <1>2, <1>3, <1>4 DEF WaitInv

LEMMA InvAdvance ==
    ASSUME TypeInv, WaitInv, Advance
    PROVE  WaitInv'
<1>1. /\ left' = Less(left) /\ timers' = {[t EXCEPT !.in = Less(t.in)] : t \in timers}
      /\ UNCHANGED <<status, wait, claimed, lost>>
      BY DEF Advance
<1>2. \A t \in timers : /\ [t EXCEPT !.in = Less(t.in)].kind = t.kind
                        /\ [t EXCEPT !.in = Less(t.in)].in = Less(t.in)
      BY DEF TypeInv, TimersOK
<1>3. ItsTimers'
  <2>1. \A u \in timers' : \E t \in timers : u.kind = t.kind /\ u.in = Less(t.in)
        BY <1>1, <1>2
  <2> QED BY <1>1, <2>1 DEF WaitInv, ItsTimers
<1>4. ItsClaim'
      BY <1>1 DEF WaitInv, ItsClaim, Own, Less
<1>5. WaitIsTimed'
  <2>1. CASE \E t \in timers : t.kind = wait.kind /\ (wait.kind = "await" => t.in = left)
    <3>1. PICK t \in timers : t.kind = wait.kind /\ (wait.kind = "await" => t.in = left)
          BY <2>1
    <3>2. [t EXCEPT !.in = Less(t.in)] \in timers'
          BY <1>1
    <3>3. \E u \in timers' : u.kind = wait'.kind /\ (wait'.kind = "await" => u.in = left')
          BY <3>1, <3>2, <1>1, <1>2
    <3> QED BY <3>3 DEF WaitIsTimed
  <2>2. CASE ~(\E t \in timers : t.kind = wait.kind /\ (wait.kind = "await" => t.in = left))
        BY <2>2, <1>1 DEF WaitInv, WaitIsTimed
  <2> QED BY <2>1, <2>2
<1> QED BY <1>3, <1>4, <1>5 DEF WaitInv

LEMMA InvNext ==
    ASSUME TypeInv, WaitInv, [Next]_vars
    PROVE  WaitInv'
<1>1. CASE UNCHANGED vars
      BY <1>1, Unchanged DEF WaitInv, ItsTimers, ItsClaim, WaitIsTimed, Own
<1>2. CASE World
  <2>1. UNCHANGED <<status, wait, left, timers, claimed, lost>>
        BY <1>2 DEF World, plan
  <2> QED BY <2>1 DEF WaitInv, ItsTimers, ItsClaim, WaitIsTimed, Own
<1>3. CASE Finish
  <2>1. status = "running" /\ status' = "done" /\ timers' = timers
        BY <1>3 DEF Finish
  <2> QED BY <2>1 DEF WaitInv, ItsTimers, ItsClaim, WaitIsTimed
<1> QED BY <1>1, <1>2, <1>3, InvPark, InvClaim, InvDeliver, InvMessage, InvCrash, InvAdvance
        DEF Next

LEMMA WaitInvHolds == Spec => []WaitInv
<1>1. TypeInv /\ WaitInv /\ [Next]_vars => WaitInv'
      BY InvNext
<1> QED BY TypeInvHolds, InvInit, <1>1, PTL DEF Spec

\* A run that waits is never left without the timer that will wake it, but for a
\* wake-up that a crash lost after its claim; a check never takes the place of
\* the end of the window (controlplane.py, tick).
THEOREM WaitIsTimedHolds == Spec => []WaitIsTimed
<1>1. WaitInv => WaitIsTimed
      BY DEF WaitInv
<1> QED BY WaitInvHolds, <1>1, PTL

\* A window for replies is closed at its end, however often it was polled before
\* and whatever the owner wrote meanwhile (controlplane.py, tick; operator.py,
\* _resume_waiting).
THEOREM WindowHonouredHolds == Spec => WindowHonoured
<1> DEFINE Step == step = "waiting" /\ wait.kind = "await" /\ step' \in {"failed", "dropped"}
                      => left = 0 \/ claimed.stale
<1>1. TypeInv /\ WaitInv /\ [Next]_vars => [Step]_vars
  <2> SUFFICES ASSUME TypeInv, WaitInv, Next, step = "waiting", wait.kind = "await",
                      step' \in {"failed", "dropped"}
               PROVE  left = 0 \/ claimed.stale
      OBVIOUS
  <2>1. status = "waiting"
        BY WaitingHasWait
  <2>2. CASE Deliver
    <3>1. Woken(claimed.event) /\ claimed # None
          BY <2>1, <2>2 DEF Deliver
    <3>2. claimed.event = "timer"
          BY <2>1, <3>1, WakeUp
    <3>3. claimed \in [event : Events, stale : BOOLEAN]
          BY <3>1 DEF TypeInv, ClaimedOK
    <3>4. CASE claimed.stale = FALSE
      <4>1. Own("timer")
            BY <3>2, <3>3, <3>4 DEF Own
      <4> QED BY <4>1, <2>1 DEF WaitInv, ItsClaim
    <3>5. CASE claimed.stale = TRUE
          BY <3>5
    <3> QED BY <3>3, <3>4, <3>5
  <2>3. CASE Message
    <3>1. Woken("message")
          BY <2>3 DEF Message
    <3> QED BY <3>1, <2>1, WakeUp
  <2>4. CASE Park \/ Finish \/ Claim \/ Crash \/ Advance \/ World
        BY <2>1, <2>4 DEF Park, Finish, Claim, Crash, Advance, World, plan
  <2> QED BY <2>2, <2>3, <2>4 DEF Next
<1> QED BY TypeInvHolds, WaitInvHolds, <1>1, PTL DEF Spec, WindowHonoured

-----------------------------------------------------------------------------
(* The chains of wake-ups.  OneChain leaves out the wake-up that is claimed  *)
(* and not yet delivered, which arms the next one when it comes.             *)

Mine == {t \in timers : t.kind = wait.kind}

ChainInv ==
    /\ IsFiniteSet(timers)
    /\ status = "waiting" =>
          Cardinality(Mine) + (IF Own("timer") THEN 1 ELSE 0) <= 1 + extra

LEMMA MineFinite ==
    ASSUME IsFiniteSet(timers)
    PROVE  IsFiniteSet(Mine) /\ Cardinality(Mine) \in Nat
<1>1. Mine \in SUBSET timers
      BY DEF Mine
<1> QED BY <1>1, FS_Subset, FS_CardinalityType

\* Checks are armed one at a time.
LEMMA ChecksFinite ==
    ASSUME NEW w \in Waits, NEW n \in Nat
    PROVE  IsFiniteSet(Checks(w, n))
<1>1. Checks(w, n) = {} \/ Checks(w, n) = {Timer("check", w.check)}
      BY DEF Checks
<1> QED BY <1>1, FS_EmptySet, FS_Singleton

LEMMA ChainInit == Init => ChainInv
<1>1. IsFiniteSet({})
      BY FS_EmptySet
<1> QED BY <1>1 DEF Init, ChainInv

LEMMA ChainPark ==
    ASSUME TypeInv, WaitInv, Park
    PROVE  ChainInv'
<1>1. PICK w \in Waits :
          /\ wait' = w
          /\ timers' = timers \cup {Timer(w.kind, w.every)}
                              \cup (IF w.kind = "await" THEN Checks(w, w.every) ELSE {})
      BY DEF Park
<1>2. timers = {} /\ extra' = 0
      BY DEF Park, WaitInv, ItsTimers
<1>3. w.every \in Nat /\ w.kind # "check"
      BY WaitType, KindsApart
<1>4. IsFiniteSet(timers')
  <2>1. IsFiniteSet({Timer(w.kind, w.every)}) /\ IsFiniteSet({}) /\ IsFiniteSet(Checks(w, w.every))
        BY <1>3, FS_Singleton, FS_EmptySet, ChecksFinite
  <2>2. timers' = {Timer(w.kind, w.every)} \cup Checks(w, w.every)
        \/ timers' = {Timer(w.kind, w.every)} \cup {}
        BY <1>1, <1>2
  <2> QED BY <2>1, <2>2, FS_Union
<1>5. Mine' = {Timer(w.kind, w.every)}
  <2>1. \A t \in Checks(w, w.every) : t.kind = "check"
        BY <1>3, TimerType DEF Timer
  <2>2. Timer(w.kind, w.every).kind = w.kind
        BY DEF Timer
  <2> QED BY <1>1, <1>2, <1>3, <2>1, <2>2 DEF Mine
<1>6. Cardinality(Mine') = 1
      BY <1>5, FS_Singleton
<1>7. ~Own("timer")'
  <2>1. claimed' = IF claimed = None THEN None ELSE [claimed EXCEPT !.stale = TRUE]
        BY DEF Park
  <2>2. CASE claimed = None
        BY <2>1, <2>2, NoneIsNoClaim DEF Own
  <2>3. CASE claimed # None
    <3>1. claimed' = [event |-> claimed.event, stale |-> TRUE]
          BY <2>1, <2>3 DEF TypeInv, ClaimedOK
    <3> QED BY <3>1 DEF Own
  <2> QED BY <2>2, <2>3
<1> QED BY <1>2, <1>4, <1>6, <1>7 DEF ChainInv

LEMMA ChainClaim ==
    ASSUME TypeInv, WaitInv, ChainInv, Claim
    PROVE  ChainInv'
<1>1. /\ timers' = timers \ Due /\ claimed = None
      /\ claimed' = [event |-> Chosen(Due), stale |-> FALSE]
      /\ UNCHANGED <<status, wait, extra>>
      BY DEF Claim, plan
<1>2. IsFiniteSet(timers) /\ IsFiniteSet(timers')
      BY <1>1, FS_Difference DEF ChainInv
<1> SUFFICES ASSUME status = "waiting"
             PROVE  Cardinality(Mine') + (IF Own("timer")' THEN 1 ELSE 0) <= 1 + extra
    BY <1>1, <1>2 DEF ChainInv
<1>3. Mine' = Mine \ Due
      BY <1>1 DEF Mine
<1>4. ~Own("timer")
      BY <1>1, NoneIsNoClaim DEF Own
<1>5. Cardinality(Mine) <= 1 + extra /\ Cardinality(Mine) \in Nat /\ IsFiniteSet(Mine)
      BY <1>2, <1>4, MineFinite DEF ChainInv
<1>6. extra \in Nat
      BY DEF TypeInv, BoundsOK
<1>7. /\ Cardinality(Mine \ Due) = Cardinality(Mine) - Cardinality(Mine \cap Due)
      /\ IsFiniteSet(Mine \ Due)
      BY <1>5, FS_Difference
<1>8. IsFiniteSet(Mine \cap Due) /\ Cardinality(Mine \cap Due) \in Nat
      BY <1>5, FS_Subset, FS_CardinalityType
<1>9. CASE Own("timer")'
  <2>1. Chosen(Due) = "timer"
        BY <1>1, <1>9 DEF Own
  <2>2. PICK t \in Due : t.kind # "check"
        BY <2>1 DEF Chosen
  <2>3. t \in Mine
        BY <2>2 DEF WaitInv, ItsTimers, Due, Mine
  <2>4. Cardinality(Mine \cap Due) # 0
        BY <2>2, <2>3, <1>8, FS_EmptySet
  <2> QED BY <2>4, <1>3, <1>5, <1>6, <1>7, <1>8
<1>10. CASE ~Own("timer")'
       BY <1>10, <1>3, <1>5, <1>6, <1>7, <1>8
<1> QED BY <1>9, <1>10

\* A wake-up arms at most one timer of the wait's kind, and a check none.
LEMMA ChainGrows ==
    ASSUME TypeInv, IsFiniteSet(timers), status = "waiting", NEW e, GoesOn(e)
    PROVE  /\ IsFiniteSet(timers') /\ Cardinality(Mine') \in Nat
           /\ Cardinality(Mine') <= Cardinality(Mine) + 1
           /\ wait.kind = "await" => Mine' = Mine
<1>1. wait \in Waits /\ left \in Nat /\ wait' = wait
      BY WaitingHasWait DEF TypeInv, CountsOK, GoesOn
<1>2. wait.kind # "check" /\ wait.every \in Nat
      BY <1>1, KindsApart, WaitType
<1>3. IsFiniteSet(Mine) /\ Cardinality(Mine) \in Nat
      BY MineFinite
<1>4. CASE timers' = timers
  <2>1. Mine' = Mine
        BY <1>1, <1>4 DEF Mine
  <2> QED BY <2>1, <1>3, <1>4
<1>5. CASE wait.kind = "await" /\ timers' = timers \cup Checks(wait, left)
  <2>1. \A t \in Checks(wait, left) : t.kind = "check"
        BY <1>1, TimerType DEF Timer
  <2>2. Mine' = Mine
        BY <1>1, <1>2, <1>5, <2>1 DEF Mine
  <2>3. IsFiniteSet(timers')
        BY <1>1, <1>5, ChecksFinite, FS_Union
  <2> QED BY <2>2, <2>3, <1>3
<1>6. CASE wait.kind # "await" /\ timers' = timers \cup NextPoll
  <2>1. Timer(wait.kind, wait.every).kind = wait.kind
        BY DEF Timer
  <2>2. Mine' = Mine \cup {Timer(wait.kind, wait.every)}
        BY <1>1, <1>6, <2>1 DEF Mine, NextPoll
  <2>3. IsFiniteSet(timers')
        BY <1>6, FS_AddElement DEF NextPoll
  <2>4. Cardinality(Mine') = Cardinality(Mine) \/ Cardinality(Mine') = Cardinality(Mine) + 1
        BY <2>2, <1>3, FS_AddElement
  <2> QED BY <2>3, <2>4, <1>3, <1>6
<1>7. \/ timers' = timers
      \/ wait.kind = "await" /\ timers' = timers \cup Checks(wait, left)
      \/ wait.kind # "await" /\ timers' = timers \cup NextPoll
      BY DEF GoesOn
<1> QED BY <1>4, <1>5, <1>6, <1>7

LEMMA ChainDeliver ==
    ASSUME TypeInv, WaitInv, ChainInv, Deliver
    PROVE  ChainInv'
<1>1. /\ claimed # None /\ claimed' = None
      /\ extra' = IF claimed.stale THEN extra + 1 ELSE extra
      BY DEF Deliver
<1>2. extra \in Nat /\ claimed \in [event : Events, stale : BOOLEAN]
      BY <1>1 DEF TypeInv, BoundsOK, ClaimedOK
<1>3. ~Own("timer")'
      BY <1>1, NoneIsNoClaim DEF Own
<1>4. CASE status # "waiting"
  <2>1. UNCHANGED <<status, timers>>
        BY <1>4 DEF Deliver
  <2> QED BY <1>4, <2>1 DEF ChainInv
<1>5. CASE status = "waiting"
  <2>1. Woken(claimed.event)
        BY <1>5 DEF Deliver
  <2>2. Over \/ GoesOn(claimed.event)
        BY <1>5, <2>1, WakeUp
  <2>3. CASE Over
    <3>1. IsFiniteSet({})
          BY FS_EmptySet
    <3> QED BY <2>3, <3>1 DEF Over, ChainInv
  <2>4. CASE GoesOn(claimed.event)
    <3>1. IsFiniteSet(timers) /\ Cardinality(Mine) \in Nat
          BY MineFinite DEF ChainInv
    <3>2. /\ IsFiniteSet(timers') /\ Cardinality(Mine') \in Nat
          /\ Cardinality(Mine') <= Cardinality(Mine) + 1
          /\ wait.kind = "await" => Mine' = Mine
          BY <3>1, <1>5, <2>4, ChainGrows
    <3>3. Cardinality(Mine) + (IF Own("timer") THEN 1 ELSE 0) <= 1 + extra
          BY <1>5 DEF ChainInv
    <3>4. CASE claimed.stale
      <4>1. extra' = extra + 1
            BY <1>1, <3>4
      <4>2. Cardinality(Mine) <= 1 + extra
            BY <3>1, <3>3, <1>2
      <4>3. Cardinality(Mine') <= 1 + extra'
            BY <4>1, <4>2, <3>1, <3>2, <1>2
      <4> QED BY <4>3, <1>3, <3>2 DEF ChainInv
    <3>5. CASE ~claimed.stale
      <4>1. extra' = extra
            BY <1>1, <3>5
      <4>2. Own("timer") \/ Own("check")
            BY <1>2, <3>5 DEF Own, Events
      <4>3. CASE Own("timer")
        <5>1. Cardinality(Mine) + 1 <= 1 + extra
              BY <3>3, <4>3
        <5>2. Cardinality(Mine') <= 1 + extra'
              BY <5>1, <4>1, <3>1, <3>2, <1>2
        <5> QED BY <5>2, <1>3, <3>2 DEF ChainInv
      <4>4. CASE Own("check")
        <5>1. Mine' = Mine
              BY <4>4, <1>5, <3>2 DEF WaitInv, ItsClaim
        <5>2. Cardinality(Mine) <= 1 + extra
              BY <3>1, <3>3, <1>2
        <5>3. Cardinality(Mine') <= 1 + extra'
              BY <5>1, <5>2, <4>1
        <5> QED BY <5>3, <1>3, <3>2 DEF ChainInv
      <4> QED BY <4>2, <4>3, <4>4
    <3> QED BY <3>4, <3>5
  <2> QED BY <2>2, <2>3, <2>4
<1> QED BY <1>4, <1>5

LEMMA ChainMessage ==
    ASSUME TypeInv, WaitInv, ChainInv, Message
    PROVE  ChainInv'
<1>1. /\ status = "waiting" /\ Woken("message") /\ extra' = extra + 1 /\ claimed' = claimed
      BY DEF Message
<1>2. Over \/ GoesOn("message")
      BY <1>1, WakeUp
<1>3. CASE Over
  <2>1. IsFiniteSet({})
        BY FS_EmptySet
  <2> QED BY <1>3, <2>1 DEF Over, ChainInv
<1>4. CASE GoesOn("message")
  <2>1. IsFiniteSet(timers) /\ Cardinality(Mine) \in Nat /\ extra \in Nat
        BY MineFinite DEF ChainInv, TypeInv, BoundsOK
  <2>2. /\ IsFiniteSet(timers') /\ Cardinality(Mine') \in Nat
        /\ Cardinality(Mine') <= Cardinality(Mine) + 1
        BY <2>1, <1>1, <1>4, ChainGrows
  <2>3. Cardinality(Mine) + (IF Own("timer") THEN 1 ELSE 0) <= 1 + extra
        BY <1>1 DEF ChainInv
  <2>4. Own("timer")' <=> Own("timer")
        BY <1>1 DEF Own
  <2>5. Cardinality(Mine') + (IF Own("timer")' THEN 1 ELSE 0) <= 1 + extra'
    <3>1. CASE Own("timer")
          BY <3>1, <1>1, <2>1, <2>2, <2>3, <2>4
    <3>2. CASE ~Own("timer")
          BY <3>2, <1>1, <2>1, <2>2, <2>3, <2>4
    <3> QED BY <3>1, <3>2
  <2> QED BY <2>2, <2>5 DEF ChainInv
<1> QED BY <1>2, <1>3, <1>4

LEMMA ChainAdvance ==
    ASSUME TypeInv, ChainInv, Advance
    PROVE  ChainInv'
<1>1. /\ timers' = {[t EXCEPT !.in = Less(t.in)] : t \in timers}
      /\ UNCHANGED <<status, wait, claimed, extra>>
      BY DEF Advance
<1>2. IsFiniteSet(timers) /\ extra \in Nat
      BY DEF ChainInv, TypeInv, BoundsOK
<1>3. IsFiniteSet(Mine) /\ Cardinality(Mine) \in Nat
      BY <1>2, MineFinite
<1> DEFINE f == [t \in timers |-> [t EXCEPT !.in = Less(t.in)]]
           g == [t \in Mine |-> [t EXCEPT !.in = Less(t.in)]]
<1>4. f \in Surjection(timers, timers')
      BY <1>1 DEF Surjection
<1>5. \A t \in timers : [t EXCEPT !.in = Less(t.in)].kind = t.kind
      BY DEF TypeInv, TimersOK
<1>6. g \in Surjection(Mine, Mine')
  <2>1. Mine \subseteq timers
        BY DEF Mine
  <2>2. Mine' = {u \in timers' : u.kind = wait.kind}
        BY <1>1 DEF Mine
  <2>3. \A t \in Mine : [t EXCEPT !.in = Less(t.in)] \in Mine'
        BY <1>1, <1>5, <2>1, <2>2 DEF Mine
  <2>4. \A u \in Mine' : \E t \in Mine : u = [t EXCEPT !.in = Less(t.in)]
        BY <1>1, <1>5, <2>2 DEF Mine
  <2>5. g \in [Mine -> Mine']
        BY <2>3
  <2>6. \A u \in Mine' : \E t \in Mine : g[t] = u
        BY <2>4
  <2> HIDE DEF g
  <2> QED BY <2>5, <2>6 DEF Surjection
<1> HIDE DEF f, g
<1>7. IsFiniteSet(timers')
      BY <1>2, <1>4, FS_Surjection
<1>8. IsFiniteSet(Mine') /\ Cardinality(Mine') <= Cardinality(Mine)
      BY <1>3, <1>6, FS_Surjection
<1>9. Cardinality(Mine') \in Nat
      BY <1>8, FS_CardinalityType
<1>10. Own("timer")' <=> Own("timer")
       BY <1>1 DEF Own
<1>11. status = "waiting" =>
          Cardinality(Mine') + (IF Own("timer")' THEN 1 ELSE 0) <= 1 + extra
  <2> SUFFICES ASSUME status = "waiting"
               PROVE  Cardinality(Mine') + (IF Own("timer")' THEN 1 ELSE 0) <= 1 + extra
      OBVIOUS
  <2>1. Cardinality(Mine) + (IF Own("timer") THEN 1 ELSE 0) <= 1 + extra
        BY DEF ChainInv
  <2>2. CASE Own("timer")
        BY <2>1, <2>2, <1>2, <1>3, <1>8, <1>9, <1>10
  <2>3. CASE ~Own("timer")
        BY <2>1, <2>3, <1>2, <1>3, <1>8, <1>9, <1>10
  <2> QED BY <2>2, <2>3
<1> QED BY <1>1, <1>7, <1>11 DEF ChainInv

LEMMA ChainNext ==
    ASSUME TypeInv, WaitInv, ChainInv, [Next]_vars
    PROVE  ChainInv'
<1>1. CASE UNCHANGED vars
      BY <1>1, Unchanged DEF ChainInv, Mine, Own
<1>2. CASE World
  <2>1. UNCHANGED <<status, wait, timers, claimed, extra>>
        BY <1>2 DEF World, plan
  <2> QED BY <2>1 DEF ChainInv, Mine, Own
<1>3. CASE Finish
  <2>1. status' = "done" /\ timers' = timers
        BY <1>3 DEF Finish
  <2> QED BY <2>1 DEF ChainInv
<1>4. CASE Crash
  <2>1. claimed' = None /\ UNCHANGED <<status, wait, timers, extra>>
        BY <1>4 DEF Crash, plan
  <2>2. ~Own("timer")'
        BY <2>1, NoneIsNoClaim DEF Own
  <2>3. Mine' = Mine /\ IsFiniteSet(timers')
        BY <2>1 DEF Mine, ChainInv
  <2>4. Cardinality(Mine) \in Nat /\ extra \in Nat
        BY MineFinite DEF ChainInv, TypeInv, BoundsOK
  <2> QED BY <2>1, <2>2, <2>3, <2>4 DEF ChainInv
<1> QED BY <1>1, <1>2, <1>3, <1>4, ChainPark, ChainClaim, ChainDeliver, ChainMessage,
           ChainAdvance DEF Next

\* However often the owner writes, the page is polled by one chain of timers and
\* at most one more for each of his messages or stray wake-ups (operator.py,
\* _resume_waiting and _tick_recurring).
THEOREM OneChainHolds == Spec => []OneChain
<1>1. TypeInv /\ WaitInv /\ ChainInv /\ [Next]_vars => ChainInv'
      BY ChainNext
<1>2. TypeInv /\ ChainInv => OneChain
  <2> SUFFICES ASSUME TypeInv, ChainInv, status = "waiting"
               PROVE  Cardinality(Mine) <= 1 + extra
      BY DEF OneChain, Mine
  <2>1. Cardinality(Mine) \in Nat /\ extra \in Nat
        BY MineFinite DEF ChainInv, TypeInv, BoundsOK
  <2> QED BY <2>1 DEF ChainInv
<1> QED BY TypeInvHolds, WaitInvHolds, ChainInit, <1>1, <1>2, PTL DEF Spec

-----------------------------------------------------------------------------
(* What has been read.  The streak of a watch counts reads that met its      *)
(* condition, and its digest is what the last read that was saved showed.    *)

Misses == {i \in DOMAIN reads : ~Signal(i) /\ ~reads[i].aside}
Signals == {i \in DOMAIN reads : Signal(i) /\ \A m \in Misses : m < i}

\* Only the schedule polled.
Pure == \A i \in DOMAIN reads : ~reads[i].aside

\* The last read that may not have failed is p.
Last(p) ==
    \E j \in DOMAIN reads : /\ reads[j].got = p
                            /\ \A k \in (j + 1)..Len(reads) : reads[k].got = Failed

Compares == ~Inbox(wait) /\ "changed" \in wait.keys

Counted == Cardinality(Signals) >= streak

\* A read that was not saved showed the digest again, or nothing of interest.
Digested ==
    Compares /\ digest # None =>
        \E p : /\ p # Failed /\ Last(p)
               /\ p = digest \/ (wait.keys # {"changed"} /\ ~TextCondition(p, wait))

\* On schedule, every read is saved.
Exact ==
    Compares => \/ digest = None /\ \A i \in DOMAIN reads : reads[i].got = Failed
                \/ digest # None /\ \E p : p = digest /\ Last(p)

\* and the streak is that of the reads.
Trailing == streak <= Len(reads) /\ \A i : i = Len(reads) - streak => i = 0 \/ ~Signal(i)

InARow(k, n) == \A i \in k..(k + n - 1) : i \in DOMAIN reads /\ Signal(i)
NoRow == \A k \in DOMAIN reads : ~InARow(k, wait.need)

WatchEarns ==
    step = "waiting" /\ wait.kind = "watch" =>
        Counted /\ Digested /\ (Pure => Exact /\ Trailing /\ NoRow)

DoneEarned ==
    step = "done" /\ wait.kind # "beat" =>
        Cardinality(Signals) >= (IF wait.kind = "await" THEN 1 ELSE wait.need)

FailedEarned == step = "failed" /\ wait.kind = "watch" /\ Pure => NoRow

EarnInv == WatchEarns /\ DoneEarned /\ FailedEarned

LEMMA EarnedOutcome == EarnInv => OutcomeIsEarned
BY DEF EarnInv, DoneEarned, FailedEarned, OutcomeIsEarned, Signals, Misses, Pure, NoRow, InARow

\* One more read r is taken.
Adds(r, aside) ==
    /\ wait' = wait /\ [got |-> r, aside |-> aside] \in Read
    /\ reads' = Append(reads, [got |-> r, aside |-> aside])

LEMMA AddedRead ==
    ASSUME TypeInv, NEW r, NEW b, Adds(r, b)
    PROVE  /\ Len(reads) \in Nat /\ DOMAIN reads = 1..Len(reads)
           /\ Len(reads') = Len(reads) + 1 /\ DOMAIN reads' = 1..(Len(reads) + 1)
           /\ \A i \in DOMAIN reads : reads'[i] = reads[i]
           /\ \A n : n = Len(reads) + 1 => reads'[n].got = r /\ reads'[n].aside = b
<1>1. reads \in Seq(Read) /\ [got |-> r, aside |-> b] \in Read
      BY DEF TypeInv, ReadsOK, Adds
<1>2. reads' = Append(reads, [got |-> r, aside |-> b])
      BY DEF Adds
<1>3. /\ Len(reads) \in Nat /\ DOMAIN reads = 1..Len(reads)
      /\ Len(reads') = Len(reads) + 1 /\ DOMAIN reads' = 1..(Len(reads) + 1)
      /\ \A i \in DOMAIN reads : reads'[i] = reads[i]
      /\ reads'[Len(reads) + 1] = [got |-> r, aside |-> b]
      BY <1>1, <1>2
<1> QED BY <1>3

\* What earlier reads showed does not depend on it.
LEMMA OldSignal ==
    ASSUME TypeInv, NEW r, NEW b, Adds(r, b), NEW i \in DOMAIN reads
    PROVE  (Signal(i)' <=> Signal(i)) /\ reads'[i] = reads[i]
<1>1. /\ \A k \in 1..i : reads'[k] = reads[k]
      /\ wait' = wait /\ i \in Nat
      BY AddedRead DEF Adds
<1>2. ASSUME NEW j \in 1..(i - 1)
      PROVE  /\ reads'[j] = reads[j]
             /\ (\A k \in (j + 1)..(i - 1) : reads'[k].got = Failed) <=>
                (\A k \in (j + 1)..(i - 1) : reads[k].got = Failed)
  <2>1. \A k \in (j + 1)..(i - 1) : k \in 1..i
        BY <1>1
  <2> QED BY <1>1, <2>1
<1>3. i \in 1..i
      BY <1>1, AddedRead
<1> QED BY <1>1, <1>2, <1>3 DEF Signal, Inbox, TextCondition

\* It meets the condition by itself and, with "changed", by the last read.
LEMMA NewSignal ==
    ASSUME TypeInv, NEW r, NEW b, Adds(r, b), NEW n, n = Len(reads) + 1
    PROVE  Signal(n)' <=>
             IF Inbox(wait)
             THEN r >= (IF wait.kind = "await" THEN wait.need ELSE 1)
             ELSE /\ r # Failed
                  /\ wait.keys # {"changed"} => TextCondition(r, wait)
                  /\ wait.kind = "watch" /\ "changed" \in wait.keys =>
                        \E p : p \notin {Failed, r} /\ Last(p)
<1>1. /\ Len(reads) \in Nat /\ DOMAIN reads = 1..Len(reads)
      /\ \A i \in DOMAIN reads : reads'[i] = reads[i]
      /\ reads'[n].got = r /\ wait' = wait
      BY AddedRead DEF Adds
<1>2. 1..(n - 1) = DOMAIN reads /\ n - 1 = Len(reads)
      BY <1>1
<1>3. (\E j \in 1..(n - 1) : /\ reads'[j].got \notin {Failed, r}
                             /\ \A k \in (j + 1)..(n - 1) : reads'[k].got = Failed)
      <=> \E p : p \notin {Failed, r} /\ Last(p)
  <2>1. ASSUME NEW j \in DOMAIN reads
        PROVE  (\A k \in (j + 1)..(n - 1) : reads'[k].got = Failed) <=>
               (\A k \in (j + 1)..Len(reads) : reads[k].got = Failed)
    <3>1. \A k \in (j + 1)..Len(reads) : k \in DOMAIN reads
          BY <1>1
    <3> QED BY <1>1, <1>2, <3>1
  <2> QED BY <1>1, <1>2, <2>1 DEF Last
<1> QED BY <1>1, <1>3 DEF Signal, Inbox, TextCondition

LEMMA NewLast ==
    ASSUME TypeInv, NEW r, NEW b, Adds(r, b)
    PROVE  Last(r)' /\ \A p : r = Failed /\ Last(p) => Last(p)'
<1>1. /\ Len(reads) \in Nat /\ DOMAIN reads = 1..Len(reads)
      /\ Len(reads') = Len(reads) + 1 /\ DOMAIN reads' = 1..(Len(reads) + 1)
      /\ \A i \in DOMAIN reads : reads'[i] = reads[i]
      /\ reads'[Len(reads) + 1].got = r
      BY AddedRead
<1>2. Last(r)'
      BY <1>1 DEF Last
<1>3. ASSUME NEW p, r = Failed, Last(p)
      PROVE  Last(p)'
  <2>1. PICK j \in DOMAIN reads : /\ reads[j].got = p
                                  /\ \A k \in (j + 1)..Len(reads) : reads[k].got = Failed
        BY <1>3 DEF Last
  <2>2. j \in DOMAIN reads' /\ reads'[j].got = p
        BY <1>1, <2>1
  <2>3. \A k \in (j + 1)..Len(reads') : reads'[k].got = Failed
        BY <1>1, <1>3, <2>1
  <2> QED BY <2>2, <2>3 DEF Last
<1> QED BY <1>2, <1>3

LEMMA OneLast ==
    ASSUME TypeInv, NEW p, NEW q, Last(p), Last(q), p # Failed, q # Failed
    PROVE  p = q
<1>1. Len(reads) \in Nat /\ DOMAIN reads = 1..Len(reads)
      BY DEF TypeInv, ReadsOK
<1>2. PICK i \in DOMAIN reads :
        reads[i].got = p /\ \A k \in (i + 1)..Len(reads) : reads[k].got = Failed
      BY DEF Last
<1>3. PICK j \in DOMAIN reads :
        reads[j].got = q /\ \A k \in (j + 1)..Len(reads) : reads[k].got = Failed
      BY DEF Last
<1>4. i = j
      BY <1>1, <1>2, <1>3
<1> QED BY <1>2, <1>3, <1>4

\* What a failed read and a page are.
LEMMA ReadType ==
    ASSUME TypeInv, NEW r \in Reads
    PROVE  /\ Inbox(wait) => r \in Nat
           /\ ~Inbox(wait) => r = Failed \/ (r \in Pages /\ r # Failed)
           /\ None # Failed /\ r # None
           /\ r \in Observed \cup {Failed}
BY WatchAssumption DEF Reads, Observed, TypeInv, BoundsOK, WatchAssumption

\* A poll that matches has read a signal.
LEMMA MatchIsSignal ==
    ASSUME TypeInv, Digested, wait.kind = "watch", NEW r \in Reads, NEW b, Adds(r, b),
           Matched(r, digest), NEW n, n = Len(reads) + 1
    PROVE  Signal(n)'
<1>1. CASE Inbox(wait)
  <2>1. r \in Nat /\ r > 0
        BY <1>1, ReadType DEF Matched, Matches
  <2>2. r >= 1
        BY <2>1
  <2> QED BY <1>1, <2>2, NewSignal
<1>2. CASE ~Inbox(wait) /\ "changed" \notin wait.keys
  <2>1. r # Failed /\ TextCondition(r, wait)
        BY <1>2 DEF Matched, Matches
  <2> QED BY <1>2, <2>1, NewSignal
<1>3. CASE Compares
  <2>1. /\ r # Failed /\ digest # None /\ digest # r
        /\ wait.keys # {"changed"} => TextCondition(r, wait)
        BY <1>3 DEF Compares, Matched
  <2>2. PICK p : /\ p # Failed /\ Last(p)
                 /\ p = digest \/ (wait.keys # {"changed"} /\ ~TextCondition(p, wait))
        BY <1>3, <2>1 DEF Digested
  <2>3. p \notin {Failed, r}
        BY <2>1, <2>2
  <2> QED BY <1>3, <2>1, <2>2, <2>3, NewSignal DEF Compares
<1> QED BY <1>1, <1>2, <1>3 DEF Compares

\* On schedule, a poll that reads a signal matches.
LEMMA SignalIsMatch ==
    ASSUME TypeInv, Exact, wait.kind = "watch", NEW r \in Reads, NEW b, Adds(r, b),
           NEW n, n = Len(reads) + 1, Signal(n)'
    PROVE  Matched(r, digest)
<1>1. CASE Inbox(wait)
  <2>1. r \in Nat /\ r >= 1
        BY <1>1, ReadType, NewSignal
  <2>2. r > 0
        BY <2>1
  <2> QED BY <1>1, <2>2 DEF Matched, Matches
<1>2. CASE ~Inbox(wait) /\ "changed" \notin wait.keys
  <2>1. r # Failed /\ TextCondition(r, wait)
        BY <1>2, NewSignal
  <2> QED BY <1>2, <2>1 DEF Matched, Matches
<1>3. CASE Compares
  <2>1. /\ r # Failed /\ (wait.keys # {"changed"} => TextCondition(r, wait))
        /\ \E p : p \notin {Failed, r} /\ Last(p)
        BY <1>3, NewSignal DEF Compares
  <2>2. PICK p : p \notin {Failed, r} /\ Last(p)
        BY <2>1
  <2>3. digest # None /\ Last(digest)
        BY <1>3, <2>2 DEF Exact, Last
  <2>4. digest # Failed
        BY <2>3, WatchAssumption DEF TypeInv, DigestOK, WatchAssumption
  <2>5. digest = p
        BY <2>2, <2>3, <2>4, OneLast
  <2> QED BY <1>3, <2>1, <2>2, <2>3, <2>5 DEF Matched, Compares
<1> QED BY <1>1, <1>2, <1>3 DEF Compares

\* Signals are never lost to a read that is one, or that is off schedule.
LEMMA SignalsKept ==
    ASSUME TypeInv, NEW r, NEW b, Adds(r, b), NEW n, n = Len(reads) + 1, Signal(n)' \/ b
    PROVE  /\ Cardinality(Signals) \in Nat /\ Cardinality(Signals') \in Nat
           /\ Cardinality(Signals') >= Cardinality(Signals)
           /\ Signal(n)' => Cardinality(Signals') >= Cardinality(Signals) + 1
<1>1. /\ Len(reads) \in Nat /\ DOMAIN reads = 1..Len(reads) /\ n \in Nat
      /\ DOMAIN reads' = 1..n
      /\ n \notin DOMAIN reads /\ reads'[n].aside = b
      /\ \A i \in DOMAIN reads' : i \in DOMAIN reads \/ i = n
      BY AddedRead
<1>2. Misses' \subseteq Misses
  <2>1. ASSUME NEW i \in Misses'
        PROVE  i \in Misses
    <3>1. i \in DOMAIN reads' /\ ~Signal(i)' /\ ~reads'[i].aside
          BY <2>1 DEF Misses
    <3>2. i # n
          BY <1>1, <3>1
    <3>3. i \in DOMAIN reads
          BY <1>1, <3>1, <3>2
    <3> QED BY <3>1, <3>3, OldSignal DEF Misses
  <2> QED BY <2>1
<1>3. Signals \subseteq Signals'
  <2>1. ASSUME NEW i \in Signals
        PROVE  i \in Signals'
    <3>1. i \in DOMAIN reads /\ Signal(i) /\ \A m \in Misses : m < i
          BY <2>1 DEF Signals
    <3>2. Signal(i)' /\ i \in DOMAIN reads'
          BY <1>1, <3>1, OldSignal
    <3> QED BY <1>2, <3>1, <3>2 DEF Signals
  <2> QED BY <2>1
<1>4. Signal(n)' => n \in Signals'
  <2>1. \A m \in Misses : m \in DOMAIN reads /\ m < n
        BY <1>1 DEF Misses
  <2> QED BY <1>1, <1>2, <2>1 DEF Signals
<1>5. IsFiniteSet(Signals') /\ IsFiniteSet(Signals) /\ n \notin Signals
  <2>1. Signals \subseteq 1..Len(reads) /\ Signals' \subseteq 1..n
        BY <1>1 DEF Signals
  <2>2. IsFiniteSet(1..n) /\ IsFiniteSet(1..Len(reads))
        BY <1>1, FS_Interval
  <2> QED BY <1>1, <2>1, <2>2, FS_Subset
<1>6. Cardinality(Signals) \in Nat /\ Cardinality(Signals') \in Nat
      BY <1>5, FS_CardinalityType
<1>7. Cardinality(Signals) <= Cardinality(Signals')
      BY <1>3, <1>5, FS_Subset
<1>8. ASSUME Signal(n)'
      PROVE  Cardinality(Signals') >= Cardinality(Signals) + 1
  <2>1. Signals \cup {n} \subseteq Signals'
        BY <1>3, <1>4, <1>8
  <2>2. Cardinality(Signals \cup {n}) = Cardinality(Signals) + 1
        BY <1>5, FS_AddElement
  <2>3. Cardinality(Signals \cup {n}) <= Cardinality(Signals')
        BY <1>5, <2>1, FS_Subset
  <2> QED BY <1>6, <2>2, <2>3
<1> QED BY <1>6, <1>7, <1>8

\* The digest follows the reads that are saved.
LEMMA DigestFollows ==
    ASSUME TypeInv, NEW r \in Reads, NEW b, Adds(r, b), digest' = DigestOf(r)
    PROVE  (Digested => Digested') /\ (Exact => Exact')
<1>1. (Compares' <=> Compares) /\ wait' = wait
      BY DEF Adds, Compares, Inbox
<1>2. CASE ~Compares
      BY <1>1, <1>2 DEF Digested, Exact
<1>3. CASE Compares /\ r = Failed
  <2>1. digest' = digest
        BY <1>3 DEF DigestOf
  <2>2. \A p : Last(p) => Last(p)'
        BY <1>3, NewLast
  <2>3. (\A i \in DOMAIN reads : reads[i].got = Failed) =>
            \A i \in DOMAIN reads' : reads'[i].got = Failed
        BY <1>3, AddedRead
  <2> QED BY <1>1, <1>3, <2>1, <2>2, <2>3 DEF Digested, Exact, TextCondition
<1>4. CASE Compares /\ r # Failed
  <2>1. digest' = r /\ r # None
        BY <1>4, ReadType DEF Compares, DigestOf
  <2>2. Last(r)'
        BY NewLast
  <2> QED BY <1>1, <1>4, <2>1, <2>2 DEF Digested, Exact
<1> QED BY <1>2, <1>3, <1>4

\* A miss that is not saved leaves the digest behind.
LEMMA DigestStays ==
    ASSUME TypeInv, Digested, NEW r \in Reads, NEW b, Adds(r, b), ~Matched(r, digest),
           digest' = digest
    PROVE  Digested'
<1>1. (Compares' <=> Compares) /\ wait' = wait
      BY DEF Adds, Compares, Inbox
<1>2. CASE ~Compares \/ digest = None
      BY <1>1, <1>2 DEF Digested
<1>3. CASE Compares /\ digest # None /\ r = Failed
  <2>1. \A p : Last(p) => Last(p)'
        BY <1>3, NewLast
  <2> QED BY <1>1, <1>3, <2>1 DEF Digested, TextCondition
<1>4. CASE Compares /\ digest # None /\ r # Failed
  <2>1. r = digest \/ (wait.keys # {"changed"} /\ ~TextCondition(r, wait))
        BY <1>4 DEF Compares, Matched
  <2>2. Last(r)'
        BY NewLast
  <2> QED BY <1>1, <1>4, <2>1, <2>2 DEF Digested, TextCondition
<1> QED BY <1>2, <1>3, <1>4

\* On schedule, the streak is that of the reads: a match prolongs it,
LEMMA TrailingMatch ==
    ASSUME TypeInv, Trailing, NEW r, NEW b, Adds(r, b), streak' = streak + 1
    PROVE  Trailing'
<1>1. /\ Len(reads) \in Nat /\ DOMAIN reads = 1..Len(reads) /\ streak \in Nat
      /\ Len(reads') = Len(reads) + 1
      BY AddedRead DEF TypeInv, CountsOK
<1>2. ASSUME NEW i, i = Len(reads') - streak', i # 0
      PROVE  ~Signal(i)'
  <2>1. i = Len(reads) - streak /\ i \in DOMAIN reads
        BY <1>1, <1>2 DEF Trailing
  <2> QED BY <1>2, <2>1, OldSignal DEF Trailing
<1>3. streak' <= Len(reads')
      BY <1>1 DEF Trailing
<1> QED BY <1>2, <1>3 DEF Trailing

\* and a miss ends it.
LEMMA TrailingMiss ==
    ASSUME TypeInv, NEW r, NEW b, Adds(r, b), streak' = 0,
           NEW n, n = Len(reads) + 1, ~Signal(n)'
    PROVE  Trailing'
<1>1. Len(reads') = n /\ n \in Nat
      BY AddedRead
<1> QED BY <1>1 DEF Trailing

\* No row is completed by a match with too short a streak,
LEMMA NoRowMatch ==
    ASSUME TypeInv, step = "waiting", Trailing, NoRow, NEW r, NEW b, Adds(r, b),
           streak + 1 < wait.need
    PROVE  NoRow'
<1>1. /\ Len(reads) \in Nat /\ DOMAIN reads = 1..Len(reads) /\ streak \in Nat
      /\ DOMAIN reads' = 1..(Len(reads) + 1) /\ wait' = wait
      BY AddedRead DEF TypeInv, CountsOK, Adds
<1>2. wait.need \in Nat
      BY WaitingHasWait, WaitType
<1>3. ASSUME NEW k \in DOMAIN reads',
             \A i \in k..(k + wait.need - 1) : i \in DOMAIN reads' /\ Signal(i)'
      PROVE  FALSE
  <2>1. k \in Nat \ {0} /\ k + wait.need - 1 <= Len(reads) + 1
        BY <1>1, <1>2, <1>3
  <2>2. PICK i : i = Len(reads) - streak
        OBVIOUS
  <2>3. i \in k..(k + wait.need - 1) \/ k + wait.need - 1 <= Len(reads)
        BY <1>1, <1>2, <2>1, <2>2
  <2>4. CASE k + wait.need - 1 <= Len(reads)
    <3>1. \A j \in k..(k + wait.need - 1) : j \in DOMAIN reads
          BY <1>1, <1>2, <2>1, <2>4
    <3>2. k \in DOMAIN reads /\ InARow(k, wait.need)
          BY <1>1, <1>2, <1>3, <2>1, <2>4, <3>1, OldSignal DEF InARow
    <3> QED BY <3>2 DEF NoRow
  <2>5. CASE i \in k..(k + wait.need - 1)
    <3>1. i \in DOMAIN reads /\ i # 0
      <4>1. i \in Int /\ i <= Len(reads)
            BY <1>1, <2>2
      <4>2. k <= i /\ 1 <= k
            BY <1>2, <2>1, <2>5
      <4> QED BY <1>1, <2>1, <4>1, <4>2
    <3>2. ~Signal(i)
          BY <2>2, <3>1 DEF Trailing
    <3> QED BY <1>3, <2>5, <3>1, <3>2, OldSignal
  <2> QED BY <2>3, <2>4, <2>5
<1> QED BY <1>1, <1>3 DEF NoRow, InARow

\* nor by a miss.
LEMMA NoRowMiss ==
    ASSUME TypeInv, step = "waiting", NoRow, NEW r, NEW b, Adds(r, b),
           NEW n, n = Len(reads) + 1, ~Signal(n)'
    PROVE  NoRow'
<1>1. /\ Len(reads) \in Nat /\ DOMAIN reads = 1..Len(reads)
      /\ DOMAIN reads' = 1..n /\ n \in Nat /\ wait' = wait
      BY AddedRead DEF Adds
<1>2. wait.need \in Nat \ {0}
      BY WaitingHasWait, WaitType
<1>3. ASSUME NEW k \in DOMAIN reads',
             \A i \in k..(k + wait.need - 1) : i \in DOMAIN reads' /\ Signal(i)'
      PROVE  FALSE
  <2>1. n \notin k..(k + wait.need - 1)
        BY <1>3
  <2>2. k \in Nat \ {0} /\ k + wait.need - 1 <= Len(reads)
        BY <1>1, <1>2, <1>3, <2>1
  <2>3. \A j \in k..(k + wait.need - 1) : j \in DOMAIN reads
        BY <1>1, <1>2, <2>2
  <2>4. k \in DOMAIN reads /\ InARow(k, wait.need)
        BY <1>1, <1>2, <1>3, <2>2, <2>3, OldSignal DEF InARow
  <2> QED BY <2>4 DEF NoRow
<1> QED BY <1>1, <1>3 DEF NoRow, InARow

-----------------------------------------------------------------------------
(* What ends a wait has been read.                                           *)

\* A wake-up that lets the wait go on.
LEMMA EarnsGoOn ==
    ASSUME TypeInv, WatchEarns, step = "waiting", wait.kind = "watch", NEW e, NEW r \in Reads,
           Adds(r, e # "timer"),
           OnceMore(r) \/ (e = "timer" /\ Missed(r)) \/ (e # "timer" /\ MissedUnsaved(r))
    PROVE  EarnInv'
<1> DEFINE b == e # "timer"
<1>1. PICK n : n = Len(reads) + 1
      OBVIOUS
<1>2. /\ Counted /\ Digested /\ (Pure => Exact /\ Trailing /\ NoRow) /\ wait' = wait
      /\ streak \in Nat
      BY DEF WatchEarns, Adds, TypeInv, CountsOK
<1>3. step' = "waiting"
      BY DEF OnceMore, Missed, MissedUnsaved, Rearm, plan
<1>4. Pure' => Pure /\ ~b
  <2>1. \A i \in DOMAIN reads : i \in DOMAIN reads' /\ reads'[i] = reads[i]
        BY AddedRead
  <2>2. n \in DOMAIN reads' /\ reads'[n].aside = b
        BY <1>1, AddedRead
  <2> QED BY <2>1, <2>2 DEF Pure
<1> HIDE DEF b
<1>5. CASE OnceMore(r)
  <2>1. /\ Matched(r, digest) /\ streak + 1 < wait.need
        /\ streak' = streak + 1 /\ digest' = DigestOf(r)
        BY <1>5 DEF OnceMore
  <2>2. Signal(n)'
        BY <1>1, <1>2, <2>1, MatchIsSignal
  <2>3. Counted'
    <3>1. Cardinality(Signals) \in Nat /\ Cardinality(Signals') \in Nat
          /\ Cardinality(Signals') >= Cardinality(Signals) + 1
          BY <1>1, <2>2, SignalsKept
    <3> QED BY <1>2, <2>1, <3>1 DEF Counted
  <2>4. Digested' /\ (Exact => Exact')
        BY <1>2, <2>1, DigestFollows
  <2>5. Pure => Trailing' /\ NoRow'
        BY <1>2, <2>1, TrailingMatch, NoRowMatch
  <2>6. WatchEarns'
        BY <1>2, <1>4, <2>3, <2>4, <2>5 DEF WatchEarns
  <2> QED BY <1>3, <2>6 DEF EarnInv, DoneEarned, FailedEarned
<1>6. CASE e = "timer" /\ Missed(r)
  <2>1. ~Matched(r, digest) /\ streak' = 0 /\ digest' = DigestOf(r)
        BY <1>6 DEF Missed
  <2>2. Counted'
    <3>1. IsFiniteSet(Signals')
      <4>1. DOMAIN reads' = 1..(Len(reads) + 1) /\ Len(reads) \in Nat
            BY AddedRead
      <4>2. IsFiniteSet(1..(Len(reads) + 1))
            BY <4>1, FS_Interval
      <4> QED BY <4>1, <4>2, FS_Subset DEF Signals
    <3>2. Cardinality(Signals') \in Nat
          BY <3>1, FS_CardinalityType
    <3> QED BY <2>1, <3>2 DEF Counted
  <2>3. Digested' /\ (Exact => Exact')
        BY <1>2, <2>1, DigestFollows
  <2>4. Pure => Trailing' /\ NoRow'
    <3>1. Pure => ~Signal(n)'
          BY <1>1, <1>2, <2>1, SignalIsMatch
    <3> QED BY <1>1, <1>2, <2>1, <3>1, TrailingMiss, NoRowMiss
  <2>5. WatchEarns'
        BY <1>2, <1>4, <2>2, <2>3, <2>4 DEF WatchEarns
  <2> QED BY <1>3, <2>5 DEF EarnInv, DoneEarned, FailedEarned
<1>7. CASE e # "timer" /\ MissedUnsaved(r)
  <2>1. ~Matched(r, digest) /\ streak' = streak /\ digest' = digest /\ b
        BY <1>7 DEF MissedUnsaved, plan, b
  <2>2. Counted'
    <3>1. Cardinality(Signals) \in Nat /\ Cardinality(Signals') \in Nat
          /\ Cardinality(Signals') >= Cardinality(Signals)
          BY <1>1, <1>7, SignalsKept
    <3> QED BY <1>2, <2>1, <3>1 DEF Counted
  <2>3. Digested'
        BY <1>2, <2>1, DigestStays
  <2>4. WatchEarns'
        BY <1>4, <2>1, <2>2, <2>3 DEF WatchEarns
  <2> QED BY <1>3, <2>4 DEF EarnInv, DoneEarned, FailedEarned
<1> QED BY <1>5, <1>6, <1>7

\* A watch that fires or is given up.
LEMMA EarnsEnd ==
    ASSUME TypeInv, WatchEarns, step = "waiting", wait.kind = "watch", NEW e, NEW r \in Reads,
           Adds(r, e # "timer"), Fires(r) \/ (e = "timer" /\ GivesUp(r))
    PROVE  EarnInv'
<1>1. PICK n : n = Len(reads) + 1
      OBVIOUS
<1>2. /\ Counted /\ Digested /\ (Pure => Exact /\ Trailing /\ NoRow) /\ wait' = wait
      /\ streak \in Nat /\ wait.need \in Nat
      BY WaitingHasWait, WaitType DEF WatchEarns, Adds, TypeInv, CountsOK
<1>3. CASE Fires(r)
  <2>1. Matched(r, digest) /\ streak + 1 >= wait.need /\ step' = "done"
        BY <1>3 DEF Fires, Ends
  <2>2. Signal(n)'
        BY <1>1, <1>2, <2>1, MatchIsSignal
  <2>3. Cardinality(Signals) \in Nat /\ Cardinality(Signals') \in Nat
        /\ Cardinality(Signals') >= Cardinality(Signals) + 1
        BY <1>1, <2>2, SignalsKept
  <2>4. Cardinality(Signals') >= wait.need
        BY <1>2, <2>1, <2>3 DEF Counted
  <2> QED BY <1>2, <2>1, <2>4 DEF EarnInv, WatchEarns, DoneEarned, FailedEarned
<1>4. CASE e = "timer" /\ GivesUp(r)
  <2>1. ~Matched(r, digest) /\ step' = "failed"
        BY <1>4 DEF GivesUp, Ends
  <2>2. Pure' => Pure
    <3>1. \A i \in DOMAIN reads : i \in DOMAIN reads' /\ reads'[i] = reads[i]
          BY AddedRead
    <3> QED BY <3>1 DEF Pure
  <2>3. Pure => NoRow'
    <3>1. Pure => ~Signal(n)'
          BY <1>1, <1>2, <2>1, SignalIsMatch
    <3> QED BY <1>1, <1>2, <3>1, NoRowMiss
  <2> QED BY <2>1, <2>2, <2>3 DEF EarnInv, WatchEarns, DoneEarned, FailedEarned
<1> QED BY <1>3, <1>4

\* A window that is answered, closed or left open.
LEMMA EarnsWindow ==
    ASSUME TypeInv, step = "waiting", wait.kind = "await", NEW e, NEW r \in Reads,
           Adds(r, e # "timer"), Replied(r) \/ WindowCloses(e, r) \/ StillOpen(e, r)
    PROVE  EarnInv'
<1>1. PICK n : n = Len(reads) + 1
      OBVIOUS
<1>2. wait' = wait /\ wait.need \in Nat \ {0}
      BY WaitingHasWait, WaitType DEF Adds
<1>3. CASE Replied(r)
  <2>1. Matches(r, wait) >= wait.need /\ step' = "done"
        BY <1>3 DEF Replied, Ends
  <2>2. Signal(n)'
    <3>1. CASE Inbox(wait)
          BY <1>1, <2>1, <3>1, NewSignal DEF Matches
    <3>2. CASE ~Inbox(wait)
      <4>1. r # Failed /\ TextCondition(r, wait)
            BY <1>2, <2>1, <3>2 DEF Matches
      <4> QED BY <1>1, <3>2, <4>1, NewSignal
    <3> QED BY <3>1, <3>2
  <2>3. Cardinality(Signals) \in Nat /\ Cardinality(Signals') \in Nat
        /\ Cardinality(Signals') >= Cardinality(Signals) + 1
        BY <1>1, <2>2, SignalsKept
  <2>4. Cardinality(Signals') >= 1
        BY <2>3
  <2> QED BY <1>2, <2>1, <2>4 DEF EarnInv, WatchEarns, DoneEarned, FailedEarned
<1>4. CASE WindowCloses(e, r) \/ StillOpen(e, r)
  <2>1. step' # "done"
        BY <1>4 DEF WindowCloses, StillOpen, Ends, Rearm
  <2> QED BY <1>2, <2>1 DEF EarnInv, WatchEarns, DoneEarned, FailedEarned
<1> QED BY <1>3, <1>4

LEMMA EarnsWoken ==
    ASSUME TypeInv, EarnInv, status = "waiting", NEW e, Woken(e)
    PROVE  EarnInv'
<1>1. step = "waiting" /\ wait \in Waits /\ WatchEarns
      BY WaitingHasWait DEF EarnInv
<1>2. ASSUME NEW r \in Reads, Polled(e, r),
             reads' = Append(reads, [got |-> r, aside |-> e # "timer"])
      PROVE  EarnInv'
  <2>1. (e # "timer") \in BOOLEAN
        OBVIOUS
  <2>2. [got |-> r, aside |-> e # "timer"] \in Read
        BY <2>1, ReadType, Zenon DEF Read
  <2>3. wait' = wait
        BY <1>2 DEF Polled, Replied, WindowCloses, StillOpen, Fires, OnceMore, Missed, GivesUp,
                    MissedUnsaved, Ends, Rearm, plan
  <2>4. Adds(r, e # "timer")
        BY <1>2, <2>2, <2>3 DEF Adds
  <2> QED BY <1>1, <1>2, <2>4, EarnsGoOn, EarnsEnd, EarnsWindow DEF Polled
<1>3. CASE wait.kind = "beat" /\ (Beat \/ BeatsEnd) /\ UNCHANGED reads
  <2>1. wait' = wait
        BY <1>3 DEF Beat, BeatsEnd, Ends, Rearm
  <2> QED BY <1>3, <2>1 DEF EarnInv, WatchEarns, DoneEarned, FailedEarned
<1> QED BY <1>2, <1>3 DEF Woken

\* What a step leaves alone.
LEMMA EarnsUnchanged ==
    ASSUME EarnInv, UNCHANGED <<step, wait, streak, digest, reads>>
    PROVE  EarnInv'
BY DEF EarnInv, WatchEarns, DoneEarned, FailedEarned, Counted, Digested, Exact, Trailing, NoRow,
       InARow, Signals, Misses, Signal, Pure, Last, Compares, Inbox, TextCondition

LEMMA EarnsPark ==
    ASSUME Park
    PROVE  EarnInv'
<1>1. step' = "waiting" /\ streak' = 0 /\ digest' = None /\ reads' = <<>>
      BY DEF Park
<1>2. DOMAIN reads' = {} /\ Len(reads') = 0
      BY <1>1
<1>3. Counted'
  <2>1. Signals' = {}
        BY <1>2 DEF Signals
  <2>2. Cardinality({}) = 0
        BY FS_EmptySet
  <2> QED BY <1>1, <2>1, <2>2 DEF Counted
<1>4. Digested' /\ Exact' /\ Trailing' /\ NoRow'
      BY <1>1, <1>2 DEF Digested, Exact, Trailing, NoRow
<1> QED BY <1>1, <1>3, <1>4 DEF EarnInv, WatchEarns, DoneEarned, FailedEarned

LEMMA EarnsNext ==
    ASSUME TypeInv, EarnInv, [Next]_vars
    PROVE  EarnInv'
<1>1. CASE Finish \/ Claim \/ Crash \/ Advance \/ World \/ UNCHANGED vars
  <2>1. UNCHANGED <<step, wait, streak, digest, reads>>
        BY <1>1, Unchanged DEF Finish, Claim, Crash, Advance, World, plan
  <2> QED BY <2>1, EarnsUnchanged
<1>2. CASE Deliver
  <2>1. CASE status = "waiting"
        BY <1>2, <2>1, EarnsWoken DEF Deliver
  <2>2. CASE status # "waiting"
    <3>1. UNCHANGED <<step, wait, streak, digest, reads>>
          BY <1>2, <2>2 DEF Deliver, plan
    <3> QED BY <3>1, EarnsUnchanged
  <2> QED BY <2>1, <2>2
<1>3. CASE Message
      BY <1>3, EarnsWoken DEF Message
<1> QED BY <1>1, <1>2, <1>3, EarnsPark DEF Next

\* A wait that is met was met by as many reads as have to confirm it, with no
\* scheduled poll between them that failed or showed something else; a watch
\* that only its schedule polled is given up only if it never was
\* (operator.py, _resume_waiting).
THEOREM OutcomeIsEarnedHolds == Spec => []OutcomeIsEarned
<1>1. Init => EarnInv
      BY DEF Init, EarnInv, WatchEarns, DoneEarned, FailedEarned
<1>2. TypeInv /\ EarnInv /\ [Next]_vars => EarnInv'
      BY EarnsNext
<1> QED BY TypeInvHolds, <1>1, <1>2, EarnedOutcome, PTL DEF Spec
=============================================================================
