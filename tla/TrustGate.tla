----------------------------- MODULE TrustGate ------------------------------
(***************************************************************************)
(* The gate of src/flowers/trustgate.py over a run's ledger of effects,    *)
(* and the way engine/operator.py (_gate_step, _bundle) uses it.  Every    *)
(* call has a record of its own id, so each record is the terminal one of  *)
(* its id, and the gate, which answers with labels, sees the ledger as a   *)
(* set.  The store keeps no `mutating` field (seams/store.py, 38-74), so   *)
(* the gate takes every failed call for a mutating one.                    *)
(***************************************************************************)
EXTENDS Naturals, FiniteSets

CONSTANTS
    Action,     \* exact side-effecting actions, a grant key each
    LabelOf,    \* the toolkit:action label of an action
    Browser,    \* actions that need independent provenance
    Refusals    \* actions the broker refuses

ASSUME TrustGateAssumption ==
    /\ DOMAIN LabelOf = Action
    /\ Browser \subseteq Action /\ Refusals \subseteq Action

Labels == {LabelOf[a] : a \in Action}

\* What the read-back of an accepted call saw: its fingerprint, that it is
\* missing, no change at all where there is no fingerprint, nothing to look
\* at, or that looking itself failed.
Seen == {"landed", "missing", "same", "plain", "broken"}

\* An effect record; owner marks the owner's attestation, replay a call that
\* was answered from memory, step the step it was made in.
Record ==
    [act : Action, phase : {"forwarded", "failed", "refused"}, seen : Seen \cup {"none"},
     owner : BOOLEAN, replay : BOOLEAN, step : Nat]

Effect(a, phase, seen, i) ==
    [act |-> a, phase |-> phase, seen |-> seen, owner |-> FALSE, replay |-> FALSE, step |-> i]

Replay(a, seen, i) == [Effect(a, "forwarded", seen, i) EXCEPT !.replay = TRUE]

LabelsOf(R) == {LabelOf[r.act] : r \in R}
Forwarded(L) == {r \in L : r.phase = "forwarded"}

\* A replayed browser call has no observer of its own.
Observed(r) == ~(r.act \in Browser /\ r.replay)

-----------------------------------------------------------------------------
(* classify_effects.                                                       *)

\* Actions a read-back has verified.
Verified(L) == {r.act : r \in {q \in Forwarded(L) : q.seen = "landed" /\ Observed(q)}}

\* Any verified call of its class will do.
SupersededByClass(r, L) == LabelOf[r.act] \in {LabelOf[a] : a \in Verified(L)}

\* A failed call is history once the very same action is verified.
Superseded(r, L) == r.act \in Verified(L)

Contradicted(r, L) ==
    \/ r.phase = "refused"
    \/ r.phase = "forwarded" /\ r.seen \in {"missing", "same"}
    \/ r.phase = "failed" /\ ~Superseded(r, L)

\* An accepted call nothing can look at taken for a sure one.
UnsureUnlessPlain(r) == r.phase = "forwarded" /\ (r.seen = "broken" \/ (r.seen = "landed" /\ ~Observed(r)))

Unsure(r) ==
    r.phase = "forwarded" /\ (r.seen \in {"plain", "broken"} \/ (r.seen = "landed" /\ ~Observed(r)))

Unverified(L) == LabelsOf({r \in L : Contradicted(r, L)})
Unverifiable(L) == LabelsOf({r \in L : Unsure(r)})

\* landed_effects, for the objective check of the step at index i.
Landed(L, i) ==
    LabelsOf({r \in Forwarded(L) : /\ r.step = i /\ r.seen # "missing"
                                   /\ r.act \in Browser => r.seen = "landed" /\ Observed(r)})

-----------------------------------------------------------------------------
(* _gate_step.                                                             *)

\* Sends whose read-back is broken, and sends the owner has confirmed.
BrokenChecks(L) == {r \in Forwarded(L) : r.seen = "broken"}
Confirmed(L) == {r \in Forwarded(L) : r.owner}

\* The labels left for the owner.
Open(L) == Unverifiable(L) \ (LabelsOf(BrokenChecks(L)) \cup LabelsOf(Confirmed(L)))

\* Every send that went out.
PlainOrVerified(L) == Forwarded(L)

\* The records a question to the owner is about.
Plain(L) == {r \in Forwarded(L) : r.seen \in {"plain", "same"}}

\* A done criterion that a replan has lost.
SoundWithoutGoal(L, i, want, flagged) == ~flagged /\ Unverified(L) = {}

\* want is the effect the step has to produce; flagged, a stale read, a
\* reliability signature or another objective check that is not met.
Sound(L, i, want, flagged) ==
    ~flagged /\ Unverified(L) = {} /\ want \in Landed(L, i) \cup {"none"}

Accepts(L, i, want, flagged) == Sound(L, i, want, flagged) /\ Open(L) = {}
NeedsOwner(L, i, want, flagged) == Sound(L, i, want, flagged) /\ Open(L) # {}
=============================================================================
