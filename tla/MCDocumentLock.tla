--------------------------- MODULE MCDocumentLock ----------------------------
(* TLC's instance of DocumentLock: an owner, an editor and a viewer. *)
EXTENDS DocumentLock, TLC

CONSTANTS o, e, v

MCUsers == {o, e, v}
MCEditors == {o, e}
TwoUsers == {o, e}
NoUsers == {}

(* Requests in progress are interchangeable. *)
Slots == Permutations(Txns)
===============================================================================
