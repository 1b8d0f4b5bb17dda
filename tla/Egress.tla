------------------------------- MODULE Egress -------------------------------
(***************************************************************************)
(* What the broker promises about the outside world, without saying how:   *)
(* an exact action is put into effect once, and a second time only when    *)
(* there was a reason for it.  src/flowers/broker.py states the promise at *)
(* _forwarded_gks and the Broker module is shown to implement it.          *)
(***************************************************************************)
EXTENDS Naturals

CONSTANT Action

VARIABLES
    sent,       \* [Action -> Nat]: executions the provider accepted
    excused     \* [Action -> Nat]: reasons to send the action once more

Init == sent = [a \in Action |-> 0] /\ excused = [a \in Action |-> 0]

Send(a) ==
    /\ sent[a] <= excused[a]
    /\ sent' = [sent EXCEPT ![a] = @ + 1]
    /\ UNCHANGED excused

\* The provider took the action but said it failed, or the read-back never
\* showed it.
SendUnseen(a) ==
    /\ sent[a] <= excused[a]
    /\ sent' = [sent EXCEPT ![a] = @ + 1]
    /\ excused' = [excused EXCEPT ![a] = @ + 1]

\* The record of some actions was lost, in a crash or with a step that ended
\* at its budget or deadline, or the owner reported that they never arrived.
Excuse(S) ==
    /\ excused' = [a \in Action |-> IF a \in S THEN excused[a] + 1 ELSE excused[a]]
    /\ UNCHANGED sent

Next ==
    \/ \E a \in Action : Send(a) \/ SendUnseen(a)
    \/ \E S \in SUBSET Action : Excuse(S)

Spec == Init /\ [][Next]_<<sent, excused>>
=============================================================================
