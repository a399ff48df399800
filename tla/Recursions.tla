----------------------------- MODULE Recursions -----------------------------
(* Recursive functions that several modules use: powers of two, for the     *)
(* sizes of zoom levels and of bit fields, the sums of the first elements   *)
(* of a sequence, and sequences joined one after the other.                 *)
EXTENDS Integers, Sequences

TwoTo[d \in Nat] == IF d = 0 THEN 1 ELSE 2 * TwoTo[d - 1]

SumTo(s) == LET sum[k \in 0..Len(s)] == IF k = 0 THEN 0 ELSE sum[k - 1] + s[k] IN sum

JoinedTo(p) == LET joined[k \in 0..Len(p)] == IF k = 0 THEN <<>> ELSE joined[k - 1] \o p[k] IN joined
Joined(p) == JoinedTo(p)[Len(p)]
=============================================================================
