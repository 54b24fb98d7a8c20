--------------------------- MODULE MCConfigFlash ----------------------------
(* Two sectors of three banks, used round more than once; two configurations. *)
EXTENDS ConfigFlash
CONSTANTS c1, c2
TwoConfigs == {c1, c2}
=============================================================================
