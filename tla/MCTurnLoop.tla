---- MODULE MCTurnLoop ----
(* TurnLoop for three players, who sit in the order of their names.        *)
EXTENDS TurnLoop

CONSTANTS p, q, r

Trio == <<p, q, r>>
Duo == <<p, q>>
====
