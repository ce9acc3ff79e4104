------------------------- MODULE MCGuardedRequests -------------------------
(* Three requests with two keys and two bodies: repeats, reused keys and   *)
(* unrelated requests, together or one after the other; two admitted per   *)
(* window of two ticks.                                                    *)
EXTENDS GuardedRequests
CONSTANTS r1, r2, r3, k1, k2, b1, b2

MCRequests == {r1, r2, r3}
MCKeys == {k1, k2}
MCBodies == {b1, b2}
MCSent == {[r \in MCRequests |-> IF r = r3 THEN last ELSE [key |-> k1, body |-> b1]] :
              last \in {[key |-> k1, body |-> b1], [key |-> k1, body |-> b2], [key |-> k2, body |-> b1]}}
=============================================================================
