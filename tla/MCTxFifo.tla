------------------------------ MODULE MCTxFifo ------------------------------
(* Small instances of TxFifo for TLC. *)
EXTENDS TxFifo
=============================================================================
