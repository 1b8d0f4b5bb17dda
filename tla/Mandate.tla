------------------------------- MODULE Mandate ------------------------------
(***************************************************************************)
(* The autonomy scope the owner approved, src/flowers/mandate.py: which    *)
(* action classes, to whom, how many.  covers() is the only predicate by   *)
(* which a mandate authorizes an action, bump() the only writer of the     *)
(* counters it is checked against.  Parsing a label, a recipient list or a *)
(* domain out of a call's parameters is abstracted to functions of the     *)
(* exact action.                                                           *)
(***************************************************************************)
EXTENDS Policy, Integers, FiniteSets

CONSTANTS
    Label, LabelOf,         \* toolkit:SLUG, the class an action belongs to
    Digest, DigestOf,       \* digest of the parameters alone, not of the label
    Recipient, RecipsOf,    \* extract_recipients(): a set, duplicates removed
    Domain, DomainOf,       \* the domain of a recipient
    Delivers,               \* is_recipient_bearing(): delivering by its verb
    Intent,                 \* has_recipient_intent(): reaches a third party
    Listed, Scope,          \* the mandate's action_types and recipient_scope
    Mandates,               \* what a run's mandate may be: committed without a
                            \* card or not, with an undo window or not, and its
                            \* clamped caps in all, per recipient, per domain
    TrustThreshold          \* clean approvals before a class is learned

ASSUME MandateAssumption ==
    /\ LabelOf \in [Action -> Label]
    /\ DigestOf \in [Action -> Digest]
    /\ RecipsOf \in [Action -> SUBSET Recipient]
    /\ DomainOf \in [Recipient -> Domain \cup {"none"}]
    /\ Delivers \subseteq Intent /\ Intent \subseteq Action
    /\ \A a \in Action : RecipsOf[a] # {} => a \in Intent
    /\ \A a \in Action : IsFiniteSet(RecipsOf[a])
    /\ Listed \subseteq Label /\ Scope \subseteq Recipient
    /\ Mandates \subseteq [auto : BOOLEAN, undo : BOOLEAN, sends : Nat \ {0},
                           perRec : Nat \ {0}, perDom : Nat \ {0}]
    /\ TrustThreshold \in Nat

Counts == [total : Nat, byRec : [Recipient -> Nat],
           byDom : [Domain -> Nat], digests : SUBSET Digest]

NewCounts == [total |-> 0, byRec |-> [r \in Recipient |-> 0],
              byDom |-> [d \in Domain |-> 0], digests |-> {}]

\* How many of the action's recipients are in domain d.
Fan(a, d) == Cardinality({r \in RecipsOf[a] : DomainOf[r] = d})

Bump(c, a) ==
    [total   |-> c.total + 1,
     byRec   |-> [r \in Recipient |->
                    IF r \in RecipsOf[a] THEN c.byRec[r] + 1 ELSE c.byRec[r]],
     byDom   |-> [d \in Domain |-> c.byDom[d] + Fan(a, d)],
     digests |-> c.digests \cup {DigestOf[a]}]

Covers(c, m, a) ==
    /\ Tier(a) = "ask"
    /\ LabelOf[a] \in Listed
    /\ RecipsOf[a] \subseteq Scope
    /\ a \in Intent => RecipsOf[a] # {}
    /\ DigestOf[a] \notin c.digests
    /\ c.total < m.sends
    /\ \A r \in RecipsOf[a] : c.byRec[r] + 1 <= m.perRec
    /\ \A d \in Domain : Fan(a, d) > 0 => c.byDom[d] + Fan(a, d) <= m.perDom

LearnedCovers(trust, a) ==
    /\ Tier(a) = "ask"
    /\ a \notin Intent
    /\ trust[LabelOf[a]] >= (IF TrustThreshold > 1 THEN TrustThreshold ELSE 1)

\* What a clean owner approval of the action teaches (_record_trust).
RecordTrust(trust, a) ==
    IF Tier(a) = "ask" /\ a \notin Delivers
    THEN [trust EXCEPT ![LabelOf[a]] = @ + 1]
    ELSE trust
=============================================================================
