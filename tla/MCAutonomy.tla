----------------------------- MODULE MCAutonomy -----------------------------
(* An owner who names one caterer and forwards a letter of another; the     *)
(* caterers' pages, one on a host of its own organisation; a class that     *)
(* sends, one that only invites, and one no mandate may list.               *)
EXTENDS Autonomy

MCHostOf == [ann |-> "acme", bob |-> "acme", chef |-> "mail.bistro", eve |-> "suffix"]
MCOrgOf == [h \in Host |->
    CASE h = "acme" -> "acme" [] h \in {"bistro", "mail.bistro"} -> "bistro" [] h = "suffix" -> "none"]
MCWithin == {<<h, h>> : h \in Host} \cup {<<"mail.bistro", "bistro">>}
MCShows == [menu |-> {"chef", "bob", "eve"}, blog |-> {"eve", "chef"}]
MCPageHost == [menu |-> "bistro", blog |-> "suffix"]

Ask(own, quoted, asks, single, illegal) ==
    [own |-> own, quoted |-> quoted, asks |-> asks, single |-> single, constrained |-> FALSE,
     illegal |-> illegal]
MCGoals ==
    {Ask({"ann"}, {"bob"}, TRUE, TRUE, FALSE), Ask({"ann"}, {"bob"}, TRUE, FALSE, FALSE),
     Ask({"ann"}, {}, FALSE, FALSE, FALSE), Ask({}, {"bob"}, TRUE, FALSE, FALSE),
     Ask({}, {}, TRUE, TRUE, TRUE)}
MCReplies == {Ask({"ann"}, {"bob"}, FALSE, FALSE, FALSE), Ask({}, {}, TRUE, FALSE, TRUE)}

MCProposals ==
    {[types |-> t, scope |-> s] :
        t \in {{"MAIL"}, {"MAIL", "WIPE"}, {"MAIL", "INVITE"}, {"WIPE"}},
        s \in {{}, {"ann"}, {"ann", "bob"}, {"bistro", "anyone"}}}
=============================================================================
