-------------------------------- MODULE Feed --------------------------------
(***************************************************************************)
(* What the owner's page is promised of a run's durable event log: it has  *)
(* rendered a prefix of the log, in order, no event missing and none       *)
(* twice, and the prefix only grows until the page is loaded anew.         *)
(***************************************************************************)
EXTENDS Naturals, Sequences

CONSTANT Words

VARIABLES log, rendered
vars == <<log, rendered>>

Init == log = <<>> /\ rendered = <<>>

Write == \E w \in Words : log' = Append(log, w) /\ UNCHANGED rendered

Render ==
    /\ Len(rendered) < Len(log)
    /\ rendered' = Append(rendered, log[Len(rendered) + 1])
    /\ UNCHANGED log

Reload == rendered' = <<>> /\ UNCHANGED log

Next == Write \/ Render \/ Reload

Spec == Init /\ [][Next]_vars
=============================================================================
