--------------------------- MODULE MCRegistration ---------------------------
(* Small instances of Registration for TLC. *)
EXTENDS Registration, TLC

MCPools == {[start |-> 1, size |-> 2]}

Symmetry == Permutations(Callsigns)
=============================================================================
