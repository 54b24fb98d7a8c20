--------------------------- MODULE MCAddressTable ---------------------------
(* Small instances of AddressTable for TLC. *)
EXTENDS AddressTable, TLC

\* A pool that starts above zero, so that addresses below it exist.
OnePool == {[start |-> 1, size |-> 4]}
\* Room for three blocks of two addresses and one address over.
UniformPool == {[start |-> 1, size |-> 7]}

Symmetry == Permutations(Callsigns)
=============================================================================
