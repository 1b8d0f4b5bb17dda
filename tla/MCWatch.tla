------------------------------- MODULE MCWatch -------------------------------
(* A window for replies, watches on a page and the inbox, a heartbeat.      *)
EXTENDS Watch

CONSTANTS soldOut, flicker, cheap

MCWordsOf ==
    [p \in Pages |-> CASE p = soldOut -> {"sold out"} [] p = flicker -> {} [] p = cheap -> {"price"}]
MCNumberOf == [p \in Pages |-> CASE p = soldOut -> 9 [] p = flicker -> NoNumber [] p = cheap -> 5]

Plain(kind, probe, every, need, limit) ==
    [kind |-> kind, probe |-> probe, every |-> every, check |-> 1, need |-> need, limit |-> limit,
     keys |-> {}, contains |-> {}, absent |-> {}, most |-> 0]

Window == Plain("await", "inbox", 3, 2, 1)
Listing == [Plain("await", "page", 2, 1, 1) EXCEPT !.keys = {"contains"}, !.contains = {"price"}]
Heartbeat == Plain("beat", "inbox", 1, 1, 2)
Mail == Plain("watch", "inbox", 1, 1, 2)
Restock == [Plain("watch", "page", 1, 2, 3) EXCEPT !.keys = {"absent"}, !.absent = {"sold out"}]
PriceDrop ==
    [Plain("watch", "page", 1, 2, 2) EXCEPT
        !.keys = {"contains", "number_near", "changed"}, !.contains = {"price"}, !.most = 6]
AnyChange == [Plain("watch", "page", 1, 1, 2) EXCEPT !.keys = {"changed"}]

MCWaits == {Window, Listing, Heartbeat, Mail, Restock, PriceDrop, AnyChange}
=============================================================================
