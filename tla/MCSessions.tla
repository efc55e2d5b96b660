----------------------------- MODULE MCSessions -----------------------------
(* Instances of Sessions for TLC. *)
EXTENDS Sessions, TLC

CONSTANTS c1, c2, c3, x, y

Symmetric == Permutations(Conns) \cup Permutations(Chars)
=============================================================================
