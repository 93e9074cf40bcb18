------------------------------ MODULE GroupRenewal ------------------------------
(***************************************************************************)
(* What the interceptor of the browser promises to requests that are       *)
(* rejected for their access token.  The first to come renews the token,   *)
(* the others wait; a renewal that succeeds releases all that wait in one  *)
(* step and goes on itself, and nobody is released otherwise.  Whether a   *)
(* request renews or waits is decided by a flag alone: it is lowered by    *)
(* every end of a renewal, but a renewal that is given up leaves it        *)
(* raised, and then requests wait although nobody renews.                  *)
(***************************************************************************)
CONSTANT Requests

VARIABLES
    busy,      \* the flag: a renewal has begun
    renewing,  \* requests that renew the token
    waiting,   \* requests that wait for a renewal
    released   \* requests that are sent once more

vars == <<busy, renewing, waiting, released>>

Init == ~busy /\ renewing = {} /\ waiting = {} /\ released = {}

Idle(r) == r \notin renewing \cup waiting \cup released

Renew(r) ==
    /\ ~busy
    /\ Idle(r)
    /\ busy'
    /\ renewing' = renewing \cup {r}
    /\ UNCHANGED <<waiting, released>>

Wait(r) ==
    /\ busy
    /\ Idle(r)
    /\ waiting' = waiting \cup {r}
    /\ UNCHANGED <<busy, renewing, released>>

(* What ends a renewal may be the answer to a request that was sent once   *)
(* more, s, which then has its answer in the same step.                    *)
Succeed(r) ==
    /\ r \in renewing
    /\ ~busy'
    /\ renewing' = renewing \ {r}
    /\ waiting' = {}
    /\ \E s \in released \cup {r} : released' = (released \ {s}) \cup waiting \cup {r}

(* Those that wait go on waiting, for a later renewal. *)
Fail(r) ==
    /\ r \in renewing
    /\ ~busy'
    /\ renewing' = renewing \ {r}
    /\ UNCHANGED waiting
    /\ \E s \in released \cup {r} : released' = released \ {s}

(* Nobody is told, and the flag stays up.  A request of the renewal itself, *)
(* which may wait or be sent once more, is given up with it.               *)
GiveUp(r) ==
    /\ r \in renewing
    /\ renewing' = renewing \ {r}
    /\ \E s \in Requests : waiting' = waiting \ {s} /\ released' = released \ {s}
    /\ UNCHANGED busy

Leave(r) ==
    /\ r \in waiting
    /\ waiting' = waiting \ {r}
    /\ UNCHANGED <<busy, renewing, released>>

(* The retry of one that has renewed lowers the flag when it fails, also   *)
(* that of another renewal.                                                *)
Settle(r) ==
    /\ r \in released
    /\ released' = released \ {r}
    /\ UNCHANGED <<renewing, waiting>>
    /\ ~busy' \/ UNCHANGED busy

Next == \E r \in Requests :
           Renew(r) \/ Wait(r) \/ Succeed(r) \/ Fail(r) \/ GiveUp(r) \/ Leave(r) \/ Settle(r)

Spec == Init /\ [][Next]_vars
================================================================================
