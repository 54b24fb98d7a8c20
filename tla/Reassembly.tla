----------------------------- MODULE Reassembly -----------------------------
(***************************************************************************)
(* IP packets cut into radio frames and put together again                 *)
(* (segment_and_push and radio_RX_FIFO_dequeue in source/L1L2_radio.cpp).  *)
(*                                                                         *)
(* One sender and one of the stations it sends to, with the radio in       *)
(* between losing any frame; frames keep their order.  Segments carry a    *)
(* 4-bit packet counter, a 3-bit segment counter and a mark on the last.   *)
(* The master has one packet counter for all its clients, and a client     *)
(* drops the frames for others: between two packets for it the counter     *)
(* goes on by any number.                                                  *)
(***************************************************************************)
EXTENDS Integers, Sequences

CONSTANTS
  MaxSegments,  \* 6: segments of the largest packet
  PacketWord,   \* 16: the packet counter is sent modulo this
  SegmentWord,  \* 8: the segment counter is sent modulo this
  MaxPackets    \* bound on the packets sent, those for other stations included

ASSUME WordsAssumption ==
  /\ PacketWord \in Nat \ {0} /\ SegmentWord \in Nat /\ MaxSegments \in 1 .. SegmentWord
ASSUME BoundsAssumption == MaxPackets \in Nat \ {0}

VARIABLES
  packet,            \* number of the packet being sent, among all of the sender
  length,            \* its number of segments
  next_segment,      \* segment_counter: its segments before this one are sent
  packet_counter,    \* packets sent, to anybody, since the sender was started
  lost_one,          \* whether a segment of the packet was lost
  buffer,            \* what ethernet_buffer holds, up to size_received
  prev_seg_counter,
  curr_pkt_counter,
  delivered          \* what IPv4_from_radio was given in this step

sender == <<packet, length, next_segment, packet_counter>>
receiver == <<buffer, prev_seg_counter, curr_pkt_counter>>
vars == <<sender, lost_one, receiver, delivered>>

Init ==
  /\ packet \in 1 .. MaxPackets
  /\ length \in 1 .. MaxSegments
  /\ next_segment = 0
  /\ packet_counter = packet - 1
  /\ lost_one = FALSE
  /\ buffer = <<>>
  /\ prev_seg_counter = 0
  /\ curr_pkt_counter = 0
  /\ delivered = <<>>

\* The segment on the air; content tells which part of which packet it holds.
Segment ==
  [pkt |-> packet_counter % PacketWord,
   seg |-> next_segment % SegmentWord,
   last |-> next_segment = length - 1,
   content |-> <<packet, next_segment>>]

\* The sender goes on with the packet's next segment, or the next packet for
\* this station; more packets for others than the counter can tell apart make no
\* more difference.
Advance ==
  \/ /\ next_segment + 1 < length
     /\ next_segment' = next_segment + 1
     /\ UNCHANGED <<packet, length, packet_counter>>
  \/ /\ next_segment + 1 = length
     /\ \E others \in 0 .. PacketWord - 1 :
          /\ packet' = packet + 1 + others
          /\ packet_counter' = packet_counter + 1 + others
     /\ packet' <= MaxPackets
     /\ length' \in 1 .. MaxSegments
     /\ next_segment' = 0

NewPacket == packet' # packet

\* What the receiver's buffer becomes.  A segment that neither starts a packet
\* nor follows the one before it empties the buffer.
Starts(s) == s.seg = 0
\* Mutant: the packet counters are not compared.
Mut_Follows(s) == s.seg = prev_seg_counter + 1
Follows(s) == s.seg = prev_seg_counter + 1 /\ s.pkt = curr_pkt_counter
\* Mutant: the first segment of a packet is appended to what is left in the
\* buffer of the packet before.
Mut_Reassembled(s) ==
  IF Starts(s) \/ Follows(s) THEN Append(buffer, s.content) ELSE <<>>
Reassembled(s) ==
  IF Starts(s) THEN <<s.content>>
  ELSE IF Follows(s) THEN Append(buffer, s.content)
  ELSE <<>>

\* The buffer is given on when the last segment was put into it; it keeps what
\* it holds.
Receive ==
  LET s == Segment IN
  /\ Advance
  /\ buffer' = Reassembled(s)
  /\ curr_pkt_counter' = IF Starts(s) THEN s.pkt ELSE curr_pkt_counter
  /\ prev_seg_counter' = s.seg
  /\ delivered' = IF s.last THEN buffer' ELSE <<>>
  /\ lost_one' = (lost_one /\ ~NewPacket)

\* The radio loses the frame, or the transmit FIFO gives it up.
Lose ==
  /\ Advance
  /\ lost_one' = ~NewPacket
  /\ delivered' = <<>>
  /\ UNCHANGED receiver

Next == Receive \/ Lose
Spec == Init /\ [][Next]_vars

-----------------------------------------------------------------------------
Contents == (1 .. MaxPackets) \X (0 .. MaxSegments - 1)
Part(content) == content[2]
Source(content) == content[1]

\* The type of every variable; the buffer never outgrows a packet.
ReassemblyTypeOK ==
  /\ packet \in 1 .. MaxPackets
  /\ length \in 1 .. MaxSegments
  /\ next_segment \in 0 .. length - 1
  /\ packet_counter \in 0 .. MaxPackets
  /\ lost_one \in BOOLEAN
  /\ buffer \in Seq(Contents) /\ Len(buffer) <= MaxSegments
  /\ prev_seg_counter \in 0 .. SegmentWord - 1
  /\ curr_pkt_counter \in 0 .. PacketWord - 1
  /\ delivered \in Seq(Contents)

\* A packet that was not touched by losses is delivered, whole and alone,
\* whatever was lost before it.
WholePacket(p, n) == [k \in 1 .. n |-> <<p, k - 1>>]
UntouchedPacketArrives ==
  [][(Receive /\ Segment.last /\ ~lost_one) =>
       delivered' = WholePacket(packet, length)]_vars

\* What is delivered is a run of consecutive segments, and a segment is only
\* joined to one of another packet when the packet counter has come round in
\* between: as long as the sender has sent fewer than PacketWord packets, to
\* whomever, since the last segment kept, packets are never mixed.
CameRound(earlier, later) == later - earlier >= PacketWord
MixedOnlyWhenCounterComesRound ==
  \A k \in 1 .. Len(delivered) - 1 :
    /\ Part(delivered[k + 1]) = Part(delivered[k]) + 1
    /\ \/ Source(delivered[k + 1]) = Source(delivered[k])
       \/ CameRound(Source(delivered[k]), Source(delivered[k + 1]))
=============================================================================
