------------------------------- MODULE TxQueue -------------------------------
(***************************************************************************)
(* What the transmit FIFO of a modem promises: frames leave in the order   *)
(* they entered, whole, once each, unless they are given up on the way:    *)
(* the oldest because it waited too long, or all of them because the FIFO  *)
(* is emptied.  TxFifo.tla is shown to implement this.                     *)
(***************************************************************************)
EXTENDS Sequences

CONSTANTS Frames, NoFrame

VARIABLES
  queue,  \* the frames that wait, oldest first
  sent    \* the frame sent last

vars == <<queue, sent>>

Init == queue = <<>> /\ sent = NoFrame

Enter(f) == queue' = Append(queue, f) /\ UNCHANGED sent

Send ==
  /\ queue # <<>>
  /\ sent' = Head(queue)
  /\ queue' = Tail(queue)

GiveUpOldest == queue # <<>> /\ queue' = Tail(queue) /\ UNCHANGED sent

Empty == queue' = <<>> /\ UNCHANGED sent

Next == (\E f \in Frames : Enter(f)) \/ Send \/ GiveUpOldest \/ Empty

Spec == Init /\ [][Next]_vars
=============================================================================
