---------------------------------- MODULE MCTtlCache ----------------------------------
(* A small instance of TtlCache for TLC. *)
EXTENDS TtlCache

CONSTANTS c1, c2, c3, k1, k2, k3

\* All assignments of keys to three calls, up to the names of calls and keys.
ThreeCalls ==
  {[c \in Call |-> k1],
   [c \in Call |-> IF c = c3 THEN k2 ELSE k1],
   [c \in Call |-> CASE c = c1 -> k1 [] c = c2 -> k2 [] c = c3 -> k3]}
=============================================================================
