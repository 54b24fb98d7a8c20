------------------------------- MODULE TxFifo -------------------------------
(***************************************************************************)
(* The transmit FIFO of a modem without external SRAM                      *)
(* (source/L1L2_radio.cpp, source/SI4463.cpp): a ring of blocks that the   *)
(* main loop fills and the radio interrupt empties, with no lock between   *)
(* the two.                                                                *)
(*                                                                         *)
(* A frame takes one to MaxBlocks blocks; its first block tells how many.  *)
(* The main loop writes a frame block by block and then moves last_ready   *)
(* over it.  The interrupt runs to completion between any two of the main  *)
(* loop's steps and takes whole frames below last_ready.                   *)
(***************************************************************************)
EXTENDS Integers, Sequences, FiniteSets

CONSTANTS
  Blocks,         \* 128: blocks in the ring
  MaxBlocks,      \* 3: blocks of the largest frame
  MaxSegments,    \* 6: frames of the largest packet
  LowThreshold,   \* 110: filling above which packets are refused
  HighThreshold,  \* 120: filling above which signaling is refused
  Word,           \* 2^32: the pointers are unsigned and wrap
  MaxFrames       \* bound on the frames written

ASSUME RingAssumption ==
  /\ Blocks \in Nat \ {0} /\ MaxBlocks \in Nat \ {0} /\ MaxSegments \in Nat \ {0}
  /\ LowThreshold \in Nat /\ HighThreshold \in Nat
\* The room above the thresholds is what one push may need.
ASSUME RoomAssumption ==
  /\ LowThreshold + MaxSegments * MaxBlocks <= Blocks
  /\ HighThreshold + MaxBlocks <= Blocks
ASSUME WordAssumption ==
  Word \in Nat /\ Word % Blocks = 0 /\ Word > 2 * Blocks /\ MaxFrames \in Nat

VARIABLES
  data,        \* TX_buff_intern_FIFOdata
  WR,          \* TX_buff_intern_WR_pointer
  RD,          \* TX_buff_intern_RD_pointer
  last_ready,  \* TX_buff_intern_last_ready
  pc,          \* what the main loop does next to the FIFO
  writing,     \* the frames it has still to write, the current one first
  part,        \* the block of the current frame to write next
  written,     \* frames handed to the FIFO so far
  radio,       \* CONF_radio_state_ON_OFF
  sent         \* the blocks the interrupt sent last

ring == <<data, WR, RD, last_ready>>
main == <<pc, writing, part, written>>
vars == <<ring, main, radio, sent>>

Sizes == 1 .. MaxBlocks
Frames == [serial : 1 .. MaxFrames, size : Sizes]
\* A block that was never written: its size byte, 0, is that of one block.
NoBlock == [serial |-> 0, size |-> 1, part |-> 1]
BlockOf(f, k) == [serial |-> f.serial, size |-> f.size, part |-> k]

\* Pointers: unsigned arithmetic, and the conversion of a difference to int.
Plus(a, n) == (a + n) % Word
Diff(a, b) == (a - b) % Word
Signed(n) == IF 2 * n < Word THEN n ELSE n - Word

Place(p) == p % Blocks
At(p) == data[Place(p)]

Init ==
  /\ data = [i \in 0 .. Blocks - 1 |-> NoBlock]
  /\ WR = 0 /\ RD = 0 /\ last_ready = 0
  /\ pc = "idle" /\ writing = <<>> /\ part = 1 /\ written = 0
  /\ radio = TRUE
  /\ sent = <<>>

-----------------------------------------------------------------------------
(***************************************************************************)
(* The main loop.                                                          *)
(***************************************************************************)

\* TX_FIFO_full_woSRAM.
\* Mutant: packets are refused only when the ring has no free block.
Mut_Full(threshold) == Signed(Diff(WR, RD)) >= Blocks
Full(threshold) == Signed(Diff(WR, RD)) > threshold

StartWriting(sizes) ==
  /\ pc = "idle"
  /\ written + Len(sizes) <= MaxFrames
  /\ pc' = "write"
  /\ writing' = [n \in DOMAIN sizes |-> [serial |-> written + n, size |-> sizes[n]]]
  /\ part' = 1
  /\ written' = written + Len(sizes)
  /\ UNCHANGED <<ring, radio, sent>>

\* segment_and_push: all segments of a packet but the last are of the largest
\* size.  The FIFO is looked at once for the whole packet; a packet that is
\* refused is dropped.
PushPacket(n, last) ==
  /\ ~Full(LowThreshold)
  /\ StartWriting([k \in 1 .. n |-> IF k < n THEN MaxBlocks ELSE last])

\* signaling_frame_push.
PushSignaling(size) ==
  /\ ~Full(HighThreshold)
  /\ StartWriting(<<size>>)

\* TX_intern_FIFO_write: one memcpy, and the pointer that goes with it.
\* Mutant: last_ready follows the pointer from block to block.
Mut_WriteBlock ==
  /\ pc = "write"
  /\ data' = [data EXCEPT ![Place(WR)] = BlockOf(Head(writing), part)]
  /\ WR' = Plus(WR, 1)
  /\ last_ready' = Plus(WR, 1)
  /\ part' = part + 1
  /\ pc' = IF part = Head(writing).size THEN "publish" ELSE "write"
  /\ UNCHANGED <<RD, writing, written, radio, sent>>
WriteBlock ==
  /\ pc = "write"
  /\ data' = [data EXCEPT ![Place(WR)] = BlockOf(Head(writing), part)]
  /\ WR' = Plus(WR, 1)
  /\ part' = part + 1
  /\ pc' = IF part = Head(writing).size THEN "publish" ELSE "write"
  /\ UNCHANGED <<RD, last_ready, writing, written, radio, sent>>

\* TX_intern_FIFO_write, its last statement; then the next segment.
\* Mutant: the last frame of a packet is left for the next packet to publish.
Mut_Publish ==
  /\ pc = "publish"
  /\ last_ready' = IF Len(writing) = 1 THEN last_ready ELSE WR
  /\ writing' = Tail(writing)
  /\ part' = 1
  /\ pc' = IF Len(writing) = 1 THEN "idle" ELSE "write"
  /\ UNCHANGED <<data, WR, RD, written, radio, sent>>
\* Mutant: the block counter goes on into the next frame.
Mut_PublishPart ==
  /\ pc = "publish"
  /\ last_ready' = WR
  /\ writing' = Tail(writing)
  /\ pc' = IF Len(writing) = 1 THEN "idle" ELSE "write"
  /\ UNCHANGED <<data, WR, RD, part, written, radio, sent>>
Publish ==
  /\ pc = "publish"
  /\ last_ready' = WR
  /\ writing' = Tail(writing)
  /\ part' = 1
  /\ pc' = IF Len(writing) = 1 THEN "idle" ELSE "write"
  /\ UNCHANGED <<data, WR, RD, written, radio, sent>>

\* RADIO_off: no frame of the FIFO is sent from here on.
RadioOff ==
  /\ pc = "idle" /\ radio
  /\ radio' = FALSE
  /\ UNCHANGED <<ring, main, sent>>

\* radio_flush_TX_FIFO, its three assignments to the internal FIFO.
FlushWR ==
  /\ pc = "idle"
  /\ WR' = 0
  /\ pc' = "flush RD"
  /\ UNCHANGED <<data, RD, last_ready, writing, part, written, radio, sent>>

FlushRD ==
  /\ pc = "flush RD"
  /\ RD' = 0
  /\ pc' = "flush last_ready"
  /\ UNCHANGED <<data, WR, last_ready, writing, part, written, radio, sent>>

FlushLastReady ==
  /\ pc = "flush last_ready"
  /\ last_ready' = 0
  /\ pc' = IF radio THEN "idle" ELSE "radio on"
  /\ UNCHANGED <<data, WR, RD, writing, part, written, radio, sent>>

\* RADIO_on flushes the FIFO before it starts the radio.
RadioOnFlush == ~radio /\ FlushWR
RadioOn ==
  /\ pc = "radio on"
  /\ pc' = "idle"
  /\ radio' = TRUE
  /\ UNCHANGED <<ring, writing, part, written, sent>>

\* signaling_periodic_call of a client that gives its connection up flushes
\* the FIFO while the radio is on.
TimeoutFlush == radio /\ FlushWR

-----------------------------------------------------------------------------
(***************************************************************************)
(* The interrupt, in SI4463_decide_new_TX_or_not.                          *)
(***************************************************************************)
Available == RD < last_ready

\* The number of blocks the size byte at RD stands for: that of the frame when
\* RD is at its first block, whatever the payload holds there when it is not.
SizesAt(p) == IF At(p).part = 1 THEN {At(p).size} ELSE Sizes

\* Radio_purge_old_frames: the oldest frame waited too long.  It does not look at
\* the radio's state: the interrupts pending when RADIO_off begins still purge.
\* They are over when it ends, 100 ms later, and so before RADIO_on flushes.
Purge ==
  /\ radio \/ pc = "idle"
  /\ Available
  /\ \E n \in SizesAt(RD) : RD' = Plus(RD, n)
  /\ UNCHANGED <<data, WR, last_ready, main, radio, sent>>

\* TX_intern_FIFO_read and SI4463_TX_new_frame.
\* Mutant: the pointer moves by one block whatever the frame's size.
Mut_Send ==
  /\ radio /\ Available
  /\ \E n \in SizesAt(RD) :
       /\ sent' = [k \in 1 .. n |-> At(Plus(RD, k - 1))]
       /\ RD' = Plus(RD, 1)
  /\ UNCHANGED <<data, WR, last_ready, main, radio>>
Send ==
  /\ radio /\ Available
  /\ \E n \in SizesAt(RD) :
       /\ sent' = [k \in 1 .. n |-> At(Plus(RD, k - 1))]
       /\ RD' = Plus(RD, n)
  /\ UNCHANGED <<data, WR, last_ready, main, radio>>

-----------------------------------------------------------------------------
Push ==
  \/ \E n \in 1 .. MaxSegments, last \in Sizes : PushPacket(n, last)
  \/ \E size \in Sizes : PushSignaling(size)
Write == WriteBlock \/ Publish
Switch == RadioOff \/ RadioOnFlush \/ FlushRD \/ FlushLastReady \/ RadioOn
Interrupt == Purge \/ Send

\* A master, or a client that keeps its connection.
Next == Push \/ Write \/ Switch \/ Interrupt
Spec == Init /\ [][Next]_vars

\* A client that may give its connection up.
ClientNext == Next \/ TimeoutFlush
ClientSpec == Init /\ [][ClientNext]_vars

\* The main loop goes on writing what it began to write.
Fairness == WF_vars(Write)
FairSpec == Spec /\ Fairness

-----------------------------------------------------------------------------
Pointers == 0 .. Word - 1
Block == [serial : 0 .. MaxFrames, size : Sizes, part : Sizes]

\* The type of every variable.
FifoTypeOK ==
  /\ data \in [0 .. Blocks - 1 -> Block]
  /\ WR \in Pointers /\ RD \in Pointers /\ last_ready \in Pointers
  /\ pc \in {"idle", "write", "publish", "flush RD", "flush last_ready", "radio on"}
  /\ writing \in Seq(Frames) /\ Len(writing) <= MaxSegments
  /\ part \in 1 .. MaxBlocks + 1
  /\ written \in 0 .. MaxFrames
  /\ radio \in BOOLEAN
  /\ sent \in Seq(Block) /\ Len(sent) <= MaxBlocks

Flushing == pc \in {"flush RD", "flush last_ready"}

\* Outside of a flush the pointers are in order and no further apart than the
\* ring is long, in the middle of a packet too: the thresholds, looked at once
\* per packet while the interrupt moves on, leave room for its last block.
PointersInOrder ==
  ~Flushing => RD <= last_ready /\ last_ready <= WR /\ WR <= RD + Blocks

\* What goes on the air is one whole frame.
WholeFrame(blocks) ==
  \A k \in DOMAIN blocks :
    blocks[k] = [blocks[1] EXCEPT !.part = k] /\ blocks[k].size = Len(blocks)
OnlyWholeFramesSent == WholeFrame(sent)

\* The frames that wait to be sent.
Waiting == IF Flushing THEN {} ELSE RD .. last_ready - 1
NthHeader(n) ==
  CHOOSE p \in Waiting :
    At(p).part = 1 /\ Cardinality({q \in Waiting : q <= p /\ At(q).part = 1}) = n
WaitingFrames ==
  [n \in 1 .. Cardinality({p \in Waiting : At(p).part = 1}) |->
     [serial |-> At(NthHeader(n)).serial, size |-> At(NthHeader(n)).size]]
FrameSent ==
  IF sent = <<>> THEN NoBlock
  ELSE IF WholeFrame(sent) THEN [serial |-> sent[1].serial, size |-> sent[1].size]
  ELSE [serial |-> -1, size |-> 0]

Queue == INSTANCE TxQueue WITH
  Frames <- Frames, NoFrame <- NoBlock, queue <- WaitingFrames, sent <- FrameSent

\* The frames the main loop published leave in their order, whole and once
\* each, wherever in the main loop's writes the interrupts fall.
QueueImplemented == Queue!Spec

\* The modem gets its turn to transmit again and again while frames are
\* available.  The FIFO does not see to that: the master sets its burst timer again
\* only when it heard a frame within CONF_radio_timeout, and a client waits to be
\* allocated a slot.
TurnsKeepComing == WF_vars(Send)

\* Some block of the frame is in the ring, published or not.
InRing(serial) == \E p \in RD .. WR - 1 : At(p).serial = serial

\* No frame that was accepted stays in the FIFO for ever, be it the last segment of
\* the last packet, as long as turns keep coming and the radio stays on: whatever
\* the main loop goes on to write, and wherever it is interrupted.
FramesLeave ==
  TurnsKeepComing =>
    \A serial \in 1 .. MaxFrames : InRing(serial) ~> (~InRing(serial) \/ ~radio)

\* The interrupt finds data available exactly when frames wait.
AvailableWhenWaiting == pc = "idle" => (Available <=> Diff(last_ready, RD) # 0)
=============================================================================
