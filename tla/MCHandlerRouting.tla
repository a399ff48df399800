-------------------------- MODULE MCHandlerRouting --------------------------
(* Three brokers with two points each, interleaved on the ring, and a key  *)
(* before, between and after all points.                                   *)
EXTENDS HandlerRouting, TLC

CONSTANTS b1, b2, b3

RingPoints == (b1 :> {1, 5}) @@ (b2 :> {2, 6}) @@ (b3 :> {3, 8})
MCPoints == [b \in Brokers |-> RingPoints[b]]
MCKeyHash == [k \in Keys |-> k]
=============================================================================
