--------------------------- MODULE MCCrowdedCell ---------------------------
(* Small instances of CrowdedCell for TLC. *)
EXTENDS CrowdedCell

MCPools == {[start |-> 1, size |-> 3], [start |-> 1, size |-> 4]}
=============================================================================
