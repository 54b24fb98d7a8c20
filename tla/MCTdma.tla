------------------------------- MODULE MCTdma -------------------------------
(* The timings of modulation 24, of source/SI4463.cpp.                      *)
(* Queue sizes: one that makes a client fast and one that does not; taken   *)
(* for a frame number one is odd and one even.                              *)
EXTENDS Tdma

MCIds == {1, 4}
MCReported == {1, 2}
MCDownlink == {0, 9}
=============================================================================
