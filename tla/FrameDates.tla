----------------------------- MODULE FrameDates -----------------------------
(***************************************************************************)
(* The age limit of frames that wait to be sent (Radio_purge_old_frames in *)
(* source/SI4463.cpp, ext_SRAM_periodic_call in source/L1L2_radio.cpp).    *)
(*                                                                         *)
(* A frame carries the low byte of the clock as of its creation; it is     *)
(* compared with the low byte of the clock of the moment.                  *)
(*                                                                         *)
(* Frames wait in one queue; the external SRAM, if there is one, is the    *)
(* part of it that is not in the internal FIFO yet.                        *)
(***************************************************************************)
EXTENDS Integers, Sequences

CONSTANTS
  DateWord,                \* 256: dates are bytes, in units of 65 ms
  CONF_Tx_rframe_timeout,  \* 30 to 120 units
  MaxQueue,                \* bound on the frames that wait
  MaxTime                  \* bound on the clock

ASSUME DateAssumption == DateWord \in Nat \ {0} /\ CONF_Tx_rframe_timeout \in Nat
ASSUME QueueAssumption == MaxQueue \in Nat /\ MaxTime \in Nat

VARIABLES
  is_SRAM_ext, \* whether there is an external SRAM
  now,      \* GLOBAL_timer, in units of 65 ms
  extern,   \* frames in the external SRAM, each by its time of creation
  intern,   \* frames in the internal FIFO
  given_up, \* the frames purged in this step
  sent      \* the frame sent in this step, if any

vars == <<is_SRAM_ext, now, extern, intern, given_up, sent>>

Date(time) == time % DateWord

Init ==
  /\ is_SRAM_ext \in BOOLEAN
  /\ now = 0
  /\ extern = <<>> /\ intern = <<>>
  /\ given_up = {} /\ sent = {}

\* The subtraction of two bytes is done in int.
DateDiff(born) == Date(now) - Date(born)

\* Radio_purge_old_frames.
\* Mutant: the distance between the bytes counts, whichever is the larger.
Mut_TooOld(born) ==
  DateDiff(born) > CONF_Tx_rframe_timeout \/ -DateDiff(born) > CONF_Tx_rframe_timeout
TooOld(born) == DateDiff(born) > CONF_Tx_rframe_timeout

\* ext_SRAM_periodic_call.
Recent(born) == DateDiff(born) < CONF_Tx_rframe_timeout

Tick ==
  /\ now < MaxTime
  /\ now' = now + 1
  /\ given_up' = {} /\ sent' = {}
  /\ UNCHANGED <<is_SRAM_ext, extern, intern>>

\* TX_FIFO_write_global: a frame enters the internal FIFO, or the external
\* SRAM if there is one.
\* Mutant: the date is rounded up.
Mut_PushIntern ==
  /\ ~is_SRAM_ext /\ Len(intern) < MaxQueue
  /\ intern' = Append(intern, now + 1)
  /\ given_up' = {} /\ sent' = {}
  /\ UNCHANGED <<is_SRAM_ext, now, extern>>
PushIntern ==
  /\ ~is_SRAM_ext /\ Len(intern) < MaxQueue
  /\ intern' = Append(intern, now)
  /\ given_up' = {} /\ sent' = {}
  /\ UNCHANGED <<is_SRAM_ext, now, extern>>

PushExtern ==
  /\ is_SRAM_ext /\ Len(extern) < MaxQueue
  /\ extern' = Append(extern, now)
  /\ given_up' = {} /\ sent' = {}
  /\ UNCHANGED <<is_SRAM_ext, now, intern>>

\* The main loop moves the oldest frame of the SRAM to the internal FIFO.
Move ==
  /\ extern # <<>> /\ Len(intern) < MaxQueue
  /\ extern' = Tail(extern)
  /\ sent' = {}
  /\ \/ Recent(Head(extern)) /\ intern' = Append(intern, Head(extern)) /\ given_up' = {}
     \/ ~Recent(Head(extern)) /\ given_up' = {Head(extern)} /\ UNCHANGED intern
  /\ UNCHANGED <<is_SRAM_ext, now>>

\* The modem's turn to transmit: the oldest frames are purged up to the first
\* that is not too old, and that one is sent if there is time for it.
Purged(n) ==
  /\ \A k \in 1 .. n : TooOld(intern[k])
  /\ n < Len(intern) => ~TooOld(intern[n + 1])
Transmit ==
  /\ intern # <<>>
  /\ \E n \in 0 .. Len(intern) :
       /\ Purged(n)
       /\ given_up' = {intern[k] : k \in 1 .. n}
       /\ \/ /\ sent' = {}
             /\ intern' = SubSeq(intern, n + 1, Len(intern))
          \/ /\ n < Len(intern)
             /\ sent' = {intern[n + 1]}
             /\ intern' = SubSeq(intern, n + 2, Len(intern))
  /\ UNCHANGED <<is_SRAM_ext, now, extern>>

Next == Tick \/ PushIntern \/ PushExtern \/ Move \/ Transmit
Spec == Init /\ [][Next]_vars

-----------------------------------------------------------------------------
Times == 0 .. now
Age(born) == now - born

\* The type of every variable; no frame comes from the future.
DatesTypeOK ==
  /\ is_SRAM_ext \in BOOLEAN
  /\ now \in Nat
  /\ extern \in Seq(Times) /\ intern \in Seq(Times)
  /\ given_up \subseteq Times /\ sent \subseteq Times

\* A frame is never given up before its time: the byte arithmetic errs, if at
\* all, on the side of keeping frames.
OnlyOldFramesGivenUp == \A born \in given_up : Age(born) >= CONF_Tx_rframe_timeout
=============================================================================
