------------------------------ MODULE MCSessions ------------------------------
(* Small instances of Sessions for TLC. *)
EXTENDS Sessions, TLC

Everything == AllKinds
Symmetry == Permutations(Req) \cup Permutations(Token)
================================================================================
