---------------------------- MODULE MCStateWorker ----------------------------
(* TLC's instance of StateWorker: browsers that open one document. *)
EXTENDS StateWorker, TLC

CONSTANTS a, b

Both == {a, b}
OneOfThem == {a}
Nobody == {}

(* Where both browsers may do the same things they are interchangeable. *)
Browsers == Permutations(Clients)
===============================================================================
