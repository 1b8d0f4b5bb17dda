------------------------------ MODULE MCBroker ------------------------------
(* A small owner's world for the Broker: two mails of a class under a       *)
(* mandate, with a recipient and the domain in common; a label class that   *)
(* can be learned, a deletion nobody can wave through, a purchase nobody    *)
(* can make, and a look-up.                                                 *)
EXTENDS Broker

Tiering == [mail |-> "ask", mails |-> "ask", tag |-> "ask",
            wipe |-> "never", pay |-> "never", look |-> "auto"]
Class == [mail |-> "MAIL", mails |-> "MAIL", tag |-> "TAG",
          wipe |-> "WIPE", pay |-> "PAY", look |-> "LOOK"]
Reaches == [mail |-> {"ann"}, mails |-> {"ann", "bob"}, tag |-> {},
            wipe |-> {}, pay |-> {}, look |-> {}]

MCNatural == [a \in Action |-> Tiering[a]]
MCOverride == [a \in Action |-> IF a = "wipe" THEN "auto" ELSE "none"]
MCLabelOf == [a \in Action |-> Class[a]]
MCDigestOf == [a \in Action |-> a]
MCRecipsOf == [a \in Action |-> Reaches[a]]
MCDomainOf == [r \in Recipient |-> "acme"]
MCReadBack ==
    [a \in Action |-> CASE a = "mail"  -> {"landed"}
                        [] a = "mails" -> {"broken", "missing"}
                        [] OTHER       -> {"plain"}]

\* After one of the mails a different cap decides on the other under each:
\* the number of sends, ann's share, the domain's.
MCMandates == {
    [auto |-> TRUE,  undo |-> FALSE, sends |-> 1, perRec |-> 2, perDom |-> 3],
    [auto |-> FALSE, undo |-> TRUE,  sends |-> 2, perRec |-> 1, perDom |-> 3],
    [auto |-> FALSE, undo |-> FALSE, sends |-> 2, perRec |-> 2, perDom |-> 2]}
=============================================================================
