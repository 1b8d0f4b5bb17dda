-------------------------- MODULE BrokerScopeProofs --------------------------
(***************************************************************************)
(* Proofs that the broker stays within what the owner allowed: Authorized  *)
(* and DraftsShown from one invariant about grants and cards, CapsHold     *)
(* from one about the counters.                                            *)
(***************************************************************************)
EXTENDS BrokerProofs

(* Authorized says of the step what made the call allowed.  AuthInv carries *)
(* the reason from the card to the grant: a grant was said yes to or its    *)
(* undo window elapsed, the grant in waiting is the one of the card shown,  *)
(* and only an ASK action that needed no draft ever had an undo window.     *)
UndoFit(a) == Tier(a) = "ask" /\ (mode.auto /\ Previews => a \notin Delivers \ Browser)

AuthInv ==
    /\ grants \subseteq yes \cup released
    /\ \A a \in released : UndoFit(a)
    /\ phase = "parking" /\ park.kind # "connect" => pending = park.act
    /\ phase = "parked" => pending = asked.act
    /\ park.kind = "undo" => UndoFit(park.act)
    /\ asked.kind = "undo" => UndoFit(asked.act)
    /\ \A l \in Label : trust[l] > 0 => \E b \in yes : LabelOf[b] = l

\* A step that shows no card, takes no grant and teaches nothing.
LEMMA AuthFrame ==
    ASSUME AuthInv, UNCHANGED <<mode, grants, released, yes, trust>>,
           phase' \notin {"parking", "parked"},
           park' = park \/ park' = NoPark, asked' = asked \/ asked' = NoPark
    PROVE  AuthInv'
BY DEF AuthInv, UndoFit, NoPark

\* A card answered, or its window elapsed: the grant it carried is taken.
LEMMA AuthTake ==
    ASSUME TypeOK, AuthInv, phase = "parked", TakeGrant, PerformPending,
           UNCHANGED <<mode, park>>,
           \/ UNCHANGED released /\ yes' = yes \cup {asked.act}
           \/ UNCHANGED yes /\ released' = released \cup {asked.act} /\ UndoFit(asked.act),
           trust' = trust \/ (asked.act \in yes' /\ trust' = RecordTrust(trust, asked.act))
    PROVE  AuthInv'
<1>1. asked.act \in Action /\ asked.act = pending
  <2>1. asked \in Parks /\ asked # NoPark /\ asked.act = pending
        BY DEF TypeOK, AuthInv
  <2> QED BY <2>1, ParkType
<1>2. grants' \subseteq yes' \cup released'
      BY <1>1 DEF TakeGrant, AuthInv
<1>3. \A a \in released' : UndoFit(a)'
      BY DEF AuthInv, UndoFit
<1>4. phase' \notin {"parking", "parked"} /\ asked' = NoPark
      BY DEF PerformPending
<1>5. (park.kind = "undo" => UndoFit(park.act))'
      BY DEF AuthInv, UndoFit
<1>6. ASSUME NEW l \in Label, trust'[l] > 0
      PROVE  \E b \in yes' : LabelOf[b] = l
  <2>1. yes \subseteq yes'
        OBVIOUS
  <2>2. CASE trust'[l] = trust[l]
        BY <1>6, <2>1, <2>2 DEF AuthInv
  <2>3. CASE trust'[l] # trust[l]
    <3>1. asked.act \in yes' /\ trust' = RecordTrust(trust, asked.act)
          BY <2>3
    <3>2. trust' = [trust EXCEPT ![LabelOf[asked.act]] = @ + 1]
          BY <2>3, <3>1 DEF RecordTrust
    <3>3. LabelOf[asked.act] = l
          BY <2>3, <3>2 DEF TypeOK
    <3> QED BY <3>1, <3>3
  <2> QED BY <2>2, <2>3
<1> QED BY <1>2, <1>3, <1>4, <1>5, <1>6 DEF AuthInv, NoPark

LEMMA AuthStep == TypeOK /\ AuthInv /\ [Next]_vars => AuthInv'
<1> SUFFICES ASSUME TypeOK, AuthInv, [Next]_vars PROVE AuthInv'
    OBVIOUS
<1> USE DEF memory, continuation, store, reach, egress, bounds
<1>1. ASSUME NEW a \in Action,
             \/ Refuse(a) \/ Replay(a) \/ ExecuteFails(a) \/ Read(a)
             \/ \E exp \in Evidence : Forward(a, exp)
      PROVE  AuthInv'
  <2>1. phase' = "loop" /\ UNCHANGED <<mode, grants, released, yes, trust, park, asked>>
        BY <1>1 DEF Refuse, Replay, ExecuteFails, Read, Forward, Issue
  <2> QED BY <2>1, AuthFrame
<1>2. ASSUME NEW a \in Action, Ask(a) \/ NotConnected(a)
      PROVE  AuthInv'
  <2>1. /\ phase' = "settle"
        /\ UNCHANGED <<mode, grants, released, yes, trust, asked>>
        /\ park'.act = a
        /\ park'.kind = "undo" => WantsUndo(a)
        BY <1>2 DEF Ask, NotConnected, LoopParks
  <2>2. WantsUndo(a) => UndoFit(a)
        BY DEF WantsUndo, WantsPreview, Covered, Covers, UndoFit
  <2> QED BY <2>1, <2>2 DEF AuthInv, UndoFit
<1>3. ASSUME StartStep \/ LoopEnds \/ SaveCounts \/ BudgetSpent \/ RecordEffect
               \/ StepOver \/ Crash \/ Recover
      PROVE  AuthInv'
  <2>1. /\ phase' \notin {"parking", "parked"}
        /\ UNCHANGED <<mode, grants, released, yes, trust>>
        /\ park' = park \/ park' = NoPark
        /\ asked' = asked \/ asked' = NoPark
        BY <1>3 DEF StartStep, LoopEnds, SaveCounts, BudgetSpent, RecordEffect,
                    StepOver, Crash, Recover
  <2> QED BY <2>1, AuthFrame
<1>4. CASE SaveContinuation
  <2>1. /\ pending' = (IF park.kind = "connect" THEN pending ELSE park.act)
        /\ phase' = "parking"
        /\ UNCHANGED <<mode, grants, released, yes, trust, asked, park>>
        BY <1>4 DEF SaveContinuation
  <2> QED BY <2>1 DEF AuthInv, UndoFit
<1>5. CASE ShowCard
  <2>1. /\ phase = "parking" /\ asked' = park /\ park' = NoPark
        /\ phase' = (IF park.kind = "connect" THEN "connect" ELSE "parked")
        /\ UNCHANGED <<mode, grants, released, yes, trust, pending>>
        BY <1>5 DEF ShowCard
  <2> QED BY <2>1 DEF AuthInv, UndoFit, NoPark
<1>6. CASE OwnerYes
  <2>1. /\ phase = "parked" /\ TakeGrant /\ PerformPending
        /\ UNCHANGED <<mode, park, released>>
        /\ yes' = yes \cup {asked.act}
        /\ trust' = trust \/ trust' = RecordTrust(trust, asked.act)
        BY <1>6 DEF OwnerYes
  <2> QED BY <2>1, AuthTake
<1>7. CASE UndoElapses
  <2>1. /\ phase = "parked" /\ TakeGrant /\ PerformPending
        /\ UNCHANGED <<mode, park, yes, trust>>
        /\ released' = released \cup {asked.act} /\ UndoFit(asked.act)
        BY <1>7 DEF UndoElapses, AuthInv
  <2> QED BY <2>1, AuthTake
<1>8. ASSUME \/ OwnerDeclines \/ OwnerAmends \/ Connected \/ ConnectGivesUp
             \/ OwnerGuides \/ OwnerConfirms \/ OwnerDenies \/ OwnerStops
             \/ \E b \in Action : RecheckMisses(b)
      PROVE  AuthInv'
  <2>1. /\ phase' \notin {"parking", "parked"}
        /\ UNCHANGED <<mode, grants, released, yes, trust, park>>
        /\ asked' = asked \/ asked' = NoPark
        BY <1>8 DEF OwnerDeclines, OwnerAmends, Connected, ConnectGivesUp,
                    OwnerGuides, OwnerConfirms, OwnerDenies, OwnerStops, RecheckMisses,
                    Questions, PerformPending
  <2> QED BY <2>1, AuthFrame
<1>9. CASE UNCHANGED vars
      BY <1>9 DEF vars, AuthInv, UndoFit
<1> QED BY <1>1, <1>2, <1>3, <1>4, <1>5, <1>6, <1>7, <1>8, <1>9 DEF Next

LEMMA AuthInvariant == Spec => [](TypeOK /\ AuthInv)
<1>1. Init => AuthInv
      BY DEF Init, AuthInv, NoPark
<1> QED BY <1>1, InitType, TypeStep, AuthStep, PTL DEF Spec

\* A cleared call that must be approved has one of the three authorities.
LEMMA ClearedAuthority ==
    ASSUME NEW a \in Action, Cleared(a), MustApprove(a)
    PROVE  Authed(a) \/ Covered(a) \/ Learned(a)
BY DEF Cleared, MustAsk

\* No action that needs the owner reaches the provider without one of the
\* authorities the owner gave.
THEOREM AuthorizedHolds == Spec => Authorized
<1>1. TypeOK /\ AuthInv /\ [Next]_vars =>
        [wire' # NoAction /\ MustApprove(wire') => Authority(wire')]_vars
  <2> SUFFICES ASSUME TypeOK, AuthInv, Next, wire' # NoAction, MustApprove(wire')
               PROVE  Authority(wire')
      OBVIOUS
  <2> DEFINE a == wire'
  <2>1. a \in Action /\ Cleared(a)
        BY WireCleared
  <2>2. CASE Authed(a)
        BY <2>2 DEF Authed, AuthInv, UndoFit, Authority
  <2>3. CASE Covered(a)
        BY <2>3 DEF Covered, Covers, Authority
  <2>4. CASE Learned(a)
    <3>1. Tier(a) = "ask" /\ a \notin Intent /\ trust[LabelOf[a]] > 0
          BY <2>1, <2>4, MandateAssumption
          DEF Learned, LearnedCovers, TypeOK, MandateAssumption
    <3>2. \E b \in yes : LabelOf[b] = LabelOf[a]
          BY <2>1, <3>1, MandateAssumption DEF AuthInv, MandateAssumption
    <3> QED BY <3>1, <3>2 DEF Authority
  <2> QED BY <2>1, <2>2, <2>3, <2>4, ClearedAuthority
<1> QED BY <1>1, AuthInvariant, PTL DEF Spec, Authorized

\* Under a mandate the owner never saw, a delivering send waits for a yes to
\* its draft.
THEOREM DraftsShownHolds == Spec => DraftsShown
<1>1. TypeOK /\ AuthInv /\ [Next]_vars =>
        [ /\ wire' \in Delivers \ Browser /\ Tier(wire') = "ask"
          /\ mode.auto /\ Previews
          => wire' \in yes ]_vars
  <2> SUFFICES ASSUME TypeOK, AuthInv, Next,
                      wire' \in Delivers \ Browser, Tier(wire') = "ask",
                      mode.auto, Previews
               PROVE  wire' \in yes
      OBVIOUS
  <2> DEFINE a == wire'
  <2>1. a \in Action /\ a \in Intent
        BY MandateAssumption DEF MandateAssumption
  <2>2. Cleared(a)
        BY <2>1, WireCleared, BrokerAssumption DEF BrokerAssumption
  <2>3. Authed(a)
        BY <2>1, <2>2, ClearedAuthority
        DEF MustApprove, Cleared, WantsPreview, Learned, LearnedCovers
  <2> QED BY <2>3 DEF Authed, AuthInv, UndoFit
<1> QED BY <1>1, AuthInvariant, PTL DEF Spec, DraftsShown

-----------------------------------------------------------------------------
(* The caps.  While a loop runs, its counters and what crashes lost account *)
(* for every covered forward; between loops the saved counters do.  A loop  *)
(* that has counted nothing still has the counters it was seeded with, so   *)
(* that not saving them loses nothing.                                      *)

WithinCaps(c) ==
    /\ c.total <= mode.sends
    /\ \A r \in Recipient : c.byRec[r] <= mode.perRec
    /\ \A d \in Domain : c.byDom[d] <= mode.perDom

Accounts(c) ==
    /\ c.total + missed.total = auto.total
    /\ \A r \in Recipient : c.byRec[r] + missed.rec[r] = auto.rec[r]
    /\ \A d \in Domain : c.byDom[d] + missed.dom[d] = auto.dom[d]

CapInv ==
    /\ WithinCaps(savedCounts)
    /\ IF phase \in {"loop", "settle"}
       THEN /\ WithinCaps(counts) /\ Accounts(counts)
            /\ counts.total = 0 => counts = savedCounts
       ELSE Accounts(savedCounts)

\* The caps of a mandate are counters.
LEMMA ModeType ==
    TypeOK => mode.sends \in Nat /\ mode.perRec \in Nat /\ mode.perDom \in Nat
BY MandateAssumption DEF TypeOK, MandateAssumption

\* What a cover allows, the counters can take.
LEMMA CoveredWithinCaps ==
    ASSUME TypeOK, NEW c \in Counts, NEW a \in Action, Covers(c, mode, a), WithinCaps(c)
    PROVE  WithinCaps(Bump(c, a))
<1>1. /\ c.total \in Nat /\ c.byRec \in [Recipient -> Nat]
      /\ c.byDom \in [Domain -> Nat]
      BY DEF Counts
<1>2. Bump(c, a).total <= mode.sends
      BY <1>1, ModeType DEF Bump, Covers
<1>3. ASSUME NEW r \in Recipient PROVE Bump(c, a).byRec[r] <= mode.perRec
      BY <1>1 DEF Bump, Covers, WithinCaps
<1>4. ASSUME NEW d \in Domain PROVE Bump(c, a).byDom[d] <= mode.perDom
  <2>1. Fan(a, d) \in Nat /\ c.byDom[d] \in Nat
        BY <1>1, FanType
  <2>2. Bump(c, a).byDom[d] = c.byDom[d] + Fan(a, d)
        BY DEF Bump
  <2>3. CASE Fan(a, d) > 0
        BY <2>2, <2>3 DEF Covers
  <2>4. CASE Fan(a, d) = 0
        BY <2>1, <2>2, <2>4 DEF WithinCaps
  <2> QED BY <2>1, <2>3, <2>4
<1> QED BY <1>2, <1>3, <1>4 DEF WithinCaps

\* Counting a covered forward keeps the account.
LEMMA ForwardAccounts ==
    ASSUME NEW c \in Counts, NEW a \in Action, Accounts(c), TypeOK,
           auto' = Widen(auto, a), UNCHANGED missed
    PROVE  /\ Bump(c, a).total + missed'.total = auto'.total
           /\ \A r \in Recipient : Bump(c, a).byRec[r] + missed'.rec[r] = auto'.rec[r]
           /\ \A d \in Domain : Bump(c, a).byDom[d] + missed'.dom[d] = auto'.dom[d]
<1>1. /\ c.total \in Nat /\ c.byDom \in [Domain -> Nat] /\ c.byRec \in [Recipient -> Nat]
      /\ auto.total \in Nat /\ auto.dom \in [Domain -> Nat] /\ auto.rec \in [Recipient -> Nat]
      /\ missed.total \in Int /\ missed.dom \in [Domain -> Int]
      /\ missed.rec \in [Recipient -> Int]
      BY DEF Counts, TypeOK
<1>2. Bump(c, a).total + missed'.total = auto'.total
      BY <1>1 DEF Bump, Widen, Accounts
<1>3. ASSUME NEW d \in Domain
      PROVE  Bump(c, a).byDom[d] + missed'.dom[d] = auto'.dom[d]
  <2>1. Fan(a, d) \in Nat
        BY FanType
  <2>2. /\ Bump(c, a).byDom[d] = c.byDom[d] + Fan(a, d)
        /\ auto'.dom[d] = auto.dom[d] + Fan(a, d)
        BY DEF Bump, Widen
  <2>3. c.byDom[d] + missed.dom[d] = auto.dom[d]
        BY DEF Accounts
  <2> QED BY <1>1, <2>1, <2>2, <2>3
<1>4. ASSUME NEW r \in Recipient
      PROVE  Bump(c, a).byRec[r] + missed'.rec[r] = auto'.rec[r]
  <2>1. c.byRec[r] + missed.rec[r] = auto.rec[r]
        BY DEF Accounts
  <2>2. c.byRec[r] \in Nat /\ missed.rec[r] \in Int /\ auto.rec[r] \in Nat
        BY <1>1
  <2>3. CASE r \in RecipsOf[a]
    <3>1. Bump(c, a).byRec[r] = c.byRec[r] + 1 /\ auto'.rec[r] = auto.rec[r] + 1
          BY <2>3 DEF Bump, Widen
    <3> QED BY <2>1, <2>2, <3>1
  <2>4. CASE r \notin RecipsOf[a]
    <3>1. Bump(c, a).byRec[r] = c.byRec[r] /\ auto'.rec[r] = auto.rec[r]
          BY <2>4 DEF Bump, Widen
    <3> QED BY <2>1, <2>2, <3>1
  <2> QED BY <2>3, <2>4
<1> QED BY <1>2, <1>3, <1>4

\* A step that touches no counter and neither enters nor leaves a loop.
LEMMA CapFrame ==
    ASSUME CapInv, UNCHANGED <<mode, counts, savedCounts, auto, missed>>,
           phase \in {"loop", "settle"} <=> phase' \in {"loop", "settle"}
    PROVE  CapInv'
BY DEF CapInv, WithinCaps, Accounts

\* A step between loops that touches no saved counter.
LEMMA CapBetween ==
    ASSUME CapInv, UNCHANGED <<mode, savedCounts, auto, missed>>,
           phase \notin {"loop", "settle"}, phase' \notin {"loop", "settle"}
    PROVE  CapInv'
BY DEF CapInv, WithinCaps, Accounts

\* A broker seeded with the saved counters.
LEMMA CapFresh ==
    ASSUME CapInv, UNCHANGED <<mode, savedCounts, auto, missed>>, NewBroker,
           phase \notin {"loop", "settle"}, phase' = "loop"
    PROVE  CapInv'
BY DEF CapInv, WithinCaps, Accounts, NewBroker

LEMMA CapPerform ==
    ASSUME CapInv, UNCHANGED <<mode, savedCounts, auto, missed>>, PerformPending,
           phase \notin {"loop", "settle"}
    PROVE  CapInv'
<1>1. CASE resume # NoAction
      BY <1>1, CapFresh DEF PerformPending
<1>2. CASE resume = NoAction
      BY <1>2, CapBetween DEF PerformPending
<1> QED BY <1>1, <1>2

\* The loop's counters become the saved ones.
LEMMA CapPersist ==
    ASSUME CapInv, TypeOK, Persist, phase = "settle", phase' \notin {"loop", "settle"},
           UNCHANGED <<mode, auto, missed>>
    PROVE  CapInv'
<1>1. savedCounts' = counts
      BY DEF Persist, CapInv
<1> QED BY <1>1 DEF CapInv, WithinCaps, Accounts

LEMMA CapStep == TypeOK /\ CapInv /\ [Next]_vars => CapInv'
<1> SUFFICES ASSUME TypeOK, CapInv, [Next]_vars PROVE CapInv'
    OBVIOUS
<1> USE DEF memory, continuation, store, reach, egress, bounds
<1>1. ASSUME NEW a \in Action,
             \/ Refuse(a) \/ Replay(a) \/ Ask(a) \/ NotConnected(a)
             \/ ExecuteFails(a) \/ Read(a)
      PROVE  CapInv'
  <2>1. /\ phase = "loop" /\ phase' \in {"loop", "settle"}
        /\ UNCHANGED <<mode, counts, savedCounts, auto, missed>>
        BY <1>1 DEF Refuse, Replay, Ask, NotConnected, LoopParks, ExecuteFails,
                    Read, Issue
  <2> QED BY <2>1, CapFrame
<1>2. ASSUME NEW a \in Action, NEW exp \in Evidence, Forward(a, exp)
      PROVE  CapInv'
  <2>1. phase = "loop" /\ phase' = "loop" /\ UNCHANGED <<mode, savedCounts, missed>>
        BY <1>2 DEF Forward, Issue
  <2>2. CASE Covered(a)
    <3>1. counts' = Bump(counts, a) /\ auto' = Widen(auto, a)
          BY <1>2, <2>2 DEF Forward
    <3>2. counts \in Counts /\ counts.total \in Nat
          BY DEF TypeOK, Counts
    <3>3. WithinCaps(Bump(counts, a))
          BY <2>1, <2>2, <3>2, CoveredWithinCaps DEF CapInv, Covered
    <3>4. Accounts(counts)'
          BY <2>1, <3>1, <3>2, ForwardAccounts DEF CapInv, Accounts
    <3>5. counts'.total # 0
          BY <3>1, <3>2 DEF Bump
    <3>6. WithinCaps(counts)' /\ WithinCaps(savedCounts)'
          BY <2>1, <3>1, <3>3 DEF CapInv, WithinCaps
    <3> QED BY <2>1, <3>4, <3>5, <3>6 DEF CapInv
  <2>3. CASE ~Covered(a)
        BY <1>2, <2>1, <2>3, CapFrame DEF Forward
  <2> QED BY <2>2, <2>3
<1>3. CASE StartStep
      BY <1>3, CapFresh DEF StartStep
<1>4. CASE LoopEnds
      BY <1>4, CapFrame DEF LoopEnds
<1>5. CASE SaveCounts
      BY <1>5, CapPersist DEF SaveCounts
<1>6. CASE BudgetSpent
      BY <1>6, CapPersist DEF BudgetSpent
<1>7. ASSUME \/ RecordEffect \/ StepOver \/ SaveContinuation \/ ShowCard
             \/ OwnerDeclines \/ OwnerAmends \/ ConnectGivesUp \/ OwnerGuides
             \/ OwnerConfirms \/ OwnerDenies \/ OwnerStops \/ Recover
             \/ \E b \in Action : RecheckMisses(b)
      PROVE  CapInv'
  <2>1. /\ phase \notin {"loop", "settle"} /\ phase' \notin {"loop", "settle"}
        /\ UNCHANGED <<mode, savedCounts, auto, missed>>
        BY <1>7 DEF RecordEffect, StepOver, SaveContinuation, ShowCard, OwnerDeclines,
                    OwnerAmends, ConnectGivesUp, OwnerGuides, OwnerConfirms, OwnerDenies,
                    OwnerStops, Recover, RecheckMisses, Idle, Questions
  <2> QED BY <2>1, CapBetween
<1>8. ASSUME OwnerYes \/ UndoElapses \/ Connected
      PROVE  CapInv'
  <2>1. /\ phase \notin {"loop", "settle"} /\ PerformPending
        /\ UNCHANGED <<mode, savedCounts, auto, missed>>
        BY <1>8 DEF OwnerYes, UndoElapses, Connected
  <2> QED BY <2>1, CapPerform
<1>9. CASE Crash
  <2>1. /\ phase' \notin {"loop", "settle"} /\ UNCHANGED <<mode, savedCounts, auto>>
        /\ missed' = [total |-> auto.total - savedCounts.total,
                      rec |-> [r \in Recipient |-> auto.rec[r] - savedCounts.byRec[r]],
                      dom |-> [d \in Domain |-> auto.dom[d] - savedCounts.byDom[d]]]
        BY <1>9 DEF Crash
  <2>2. /\ savedCounts.total \in Nat /\ savedCounts.byDom \in [Domain -> Nat]
        /\ savedCounts.byRec \in [Recipient -> Nat]
        /\ auto.total \in Nat /\ auto.dom \in [Domain -> Nat] /\ auto.rec \in [Recipient -> Nat]
        BY DEF TypeOK, Counts
  <2>3. Accounts(savedCounts)'
        BY <2>1, <2>2 DEF Accounts
  <2> QED BY <2>1, <2>3 DEF CapInv, WithinCaps
<1>10. CASE UNCHANGED vars
      BY <1>10, CapFrame DEF vars
<1> QED BY <1>1, <1>2, <1>3, <1>4, <1>5, <1>6, <1>7, <1>8, <1>9, <1>10 DEF Next

\* What went out under the mandate never exceeds its caps, but by what a
\* crash left uncounted.
THEOREM CapsHoldTheorem == Spec => []CapsHold
<1>1. Init => CapInv
  <2> SUFFICES ASSUME Init PROVE CapInv
      OBVIOUS
  <2>1. WithinCaps(NewCounts)
        BY InitType, ModeType DEF WithinCaps, NewCounts
  <2>2. Accounts(NewCounts)
        BY DEF Init, Accounts, NewCounts, NoReach
  <2> QED BY <2>1, <2>2 DEF Init, CapInv, WithinCaps, Accounts
<1>3. TypeOK /\ CapInv => CapsHold
  <2> SUFFICES ASSUME TypeOK, CapInv PROVE CapsHold
      OBVIOUS
  <2> DEFINE c == IF phase \in {"loop", "settle"} THEN counts ELSE savedCounts
  <2>1. WithinCaps(c) /\ Accounts(c) /\ c \in Counts
        BY DEF CapInv, TypeOK
  <2>2. /\ c.total \in Nat /\ c.byDom \in [Domain -> Nat] /\ c.byRec \in [Recipient -> Nat]
        /\ missed.total \in Int /\ missed.dom \in [Domain -> Int]
        /\ missed.rec \in [Recipient -> Int]
        BY <2>1 DEF TypeOK, Counts
  <2> HIDE DEF c
  <2>3. auto.total <= mode.sends + missed.total
        BY <2>1, <2>2, ModeType DEF WithinCaps, Accounts
  <2>4. ASSUME NEW d \in Domain
        PROVE  auto.dom[d] <= mode.perDom + missed.dom[d]
        BY <2>1, <2>2, ModeType DEF WithinCaps, Accounts
  <2>5. ASSUME NEW r \in Recipient
        PROVE  auto.rec[r] <= mode.perRec + missed.rec[r]
        BY <2>1, <2>2, ModeType DEF WithinCaps, Accounts
  <2> QED BY <2>3, <2>4, <2>5 DEF CapsHold
<1> QED BY <1>1, <1>3, InitType, TypeStep, CapStep, PTL DEF Spec
=============================================================================
