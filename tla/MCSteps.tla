------------------------------- MODULE MCSteps -------------------------------
(* Two sends of one class, a browser action and a refused purchase.         *)
EXTENDS Steps

CONSTANTS mail1, mail2, book, buy

MCLabelOf ==
    [a \in Action |-> CASE a \in {mail1, mail2} -> "mail" [] a = book -> "book" [] a = buy -> "buy"]
MCBrowser == Action \cap {book}
MCRefusals == Action \cap {buy}
=============================================================================
