---------------------------- MODULE MCRingSearch ----------------------------
(***************************************************************************)
(* Rows captured at times 1 to 4, up to five of them, in order or turned   *)
(* by the ring; range bounds from before the first to after the last.      *)
(***************************************************************************)
EXTENDS RingSearch

Sorted(b)  == \A i \in 1..(Len(b) - 1) : b[i] <= b[i + 1]
Straight   == {b \in UNION {[1..n -> 1..4] : n \in 0..5} : Sorted(b)}
Turned     == {b \in [1..4 -> 1..5] :
                  \E r \in 1..3 : Sorted([i \in 1..4 |-> b[((i + r) % 4) + 1]])}
MCBuffers  == Straight \cup Turned
MCBounds   == 0..5
=============================================================================
