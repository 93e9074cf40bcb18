------------------------------- MODULE MCWsHub --------------------------------
(* TLC's instances of WsHub: two nodes, and clients named after theirs. *)
EXTENDS WsHub, TLC

CONSTANTS a1, b1, b2, a, b

ABB == {a1, b1, b2}
AB == {a1, b1}
OnlyA == {a1}
OnlyB == {b1}
NoOne == {}
TwoNodes == {a, b}

MCHome == [c \in Clients |-> IF c = a1 THEN a ELSE b]

===============================================================================
