------------------------- MODULE Reassembly_proofs -------------------------
(***************************************************************************)
(* Proofs about segmentation and reassembly, for any number of segments    *)
(* and packets and any width of the two counters.                          *)
(***************************************************************************)
EXTENDS Reassembly, SequenceTheorems, TLAPS

\* The last segment in the buffer is the last one received.
LastPart ==
  buffer # <<>> =>
    LET c == buffer[Len(buffer)] IN
    prev_seg_counter = Part(c) /\ Len(buffer) <= Part(c) + 1

\* As long as nothing of the packet was lost, the buffer holds what was sent
\* of it so far.
Collected ==
  ~lost_one /\ next_segment # 0 =>
    /\ buffer = WholePacket(packet, next_segment)
    /\ prev_seg_counter = next_segment - 1
    /\ curr_pkt_counter = packet_counter % PacketWord

ReassemblyInv ==
  /\ ReassemblyTypeOK
  /\ packet_counter = packet - 1
  /\ LastPart
  /\ Collected

\* Two segments that follow each other may be joined: they are consecutive, and
\* of one packet unless the packet counter has come round between them.
Joined(earlier, later) ==
  /\ Part(later) = Part(earlier) + 1
  /\ Source(later) = Source(earlier) \/ CameRound(Source(earlier), Source(later))

\* The buffer holds joined segments, and the receiver's packet counter is that of
\* the packet it got something of last.
BufferJoined ==
  /\ \A k \in 1 .. Len(buffer) - 1 : Joined(buffer[k], buffer[k + 1])
  /\ buffer # <<>> =>
       LET c == buffer[Len(buffer)] IN
       /\ Source(c) <= packet
       /\ curr_pkt_counter = (Source(c) - 1) % PacketWord

-----------------------------------------------------------------------------
\* Numbers less than the modulus apart have different remainders.
LEMMA SameRemainder ==
  ASSUME NEW n \in Nat \ {0}, NEW a \in Nat, NEW b \in Nat,
         a <= b, b - a < n, a % n = b % n
  PROVE  a = b
<1> DEFINE q == a \div n
           r == b \div n
           x == a % n
<1>1. q \in Int /\ r \in Int /\ x \in Int /\ a = n * q + x /\ b = n * r + x
  OBVIOUS
<1> HIDE DEF q, r, x
<1>2. b - a = n * (r - q)
  BY <1>1
<1>3. r - q <= 0
  <2> SUFFICES ASSUME r - q >= 1 PROVE FALSE
    BY <1>1
  <2>1. n * (r - q) >= n
    BY <1>1
  <2> QED
    BY <1>2, <2>1
<1>4. n * (r - q) <= 0
  BY <1>1, <1>3
<1> QED
  BY <1>2, <1>4

\* The assumptions and types, in one place.
LEMMA Numbers ==
  ASSUME ReassemblyTypeOK
  PROVE  /\ PacketWord \in Nat \ {0} /\ SegmentWord \in Nat \ {0}
         /\ MaxSegments \in Nat \ {0} /\ MaxSegments <= SegmentWord
         /\ MaxPackets \in Nat \ {0}
         /\ packet \in Nat \ {0} /\ packet <= MaxPackets
         /\ length \in Nat \ {0} /\ length <= MaxSegments
         /\ next_segment \in Nat /\ next_segment < length
         /\ packet_counter \in Nat /\ packet_counter <= MaxPackets
         /\ prev_seg_counter \in Nat /\ curr_pkt_counter \in Nat
         /\ Len(buffer) \in Nat
<1>1. /\ PacketWord \in Nat \ {0} /\ SegmentWord \in Nat \ {0}
      /\ MaxSegments \in Nat \ {0} /\ MaxSegments <= SegmentWord
      /\ MaxPackets \in Nat \ {0}
  BY WordsAssumption, BoundsAssumption
<1>2. length \in Nat \ {0} /\ length <= MaxSegments
  BY <1>1 DEF ReassemblyTypeOK
<1>3. /\ packet \in Nat \ {0} /\ packet <= MaxPackets
      /\ next_segment \in Nat /\ next_segment < length
      /\ packet_counter \in Nat /\ packet_counter <= MaxPackets
      /\ prev_seg_counter \in Nat /\ curr_pkt_counter \in Nat
  BY <1>1, <1>2 DEF ReassemblyTypeOK
<1>4. Len(buffer) \in Nat
  BY DEF ReassemblyTypeOK
<1> QED
  BY <1>1, <1>2, <1>3, <1>4

\* The counters of the segment on the air.
LEMMA OnTheAir ==
  ASSUME ReassemblyTypeOK
  PROVE  /\ Segment.seg = next_segment
         /\ Segment.pkt = packet_counter % PacketWord
         /\ Segment.pkt \in 0 .. PacketWord - 1
         /\ Segment.last <=> next_segment = length - 1
         /\ Segment.content = <<packet, next_segment>>
         /\ Segment.content \in Contents
<1>1. next_segment % SegmentWord = next_segment
  <2>1. next_segment \in Nat /\ SegmentWord \in Nat \ {0} /\ next_segment < SegmentWord
    <3>1. /\ next_segment \in Nat /\ next_segment < length /\ length \in Nat
          /\ length <= MaxSegments /\ MaxSegments \in Nat
          /\ MaxSegments <= SegmentWord /\ SegmentWord \in Nat \ {0}
      BY Numbers
    <3> QED
      BY <3>1
  <2> QED
    BY <2>1
<1>2. packet_counter % PacketWord \in 0 .. PacketWord - 1
  BY Numbers
<1>3. <<packet, next_segment>> \in Contents
  BY Numbers DEF Contents
<1> QED
  BY <1>1, <1>2, <1>3 DEF Segment

\* The sender's next segment is of the same packet or the first of the next.
LEMMA Advances ==
  ASSUME ReassemblyTypeOK, packet_counter = packet - 1, Advance
  PROVE  /\ packet' \in 1 .. MaxPackets /\ length' \in 1 .. MaxSegments
         /\ next_segment' \in 0 .. length' - 1
         /\ packet_counter' \in 0 .. MaxPackets
         /\ packet_counter' = packet' - 1
         /\ \/ /\ ~NewPacket /\ next_segment' = next_segment + 1
               /\ UNCHANGED <<packet, length, packet_counter>>
            \/ NewPacket /\ next_segment' = 0
         /\ packet <= packet'
<1>1. CASE next_segment + 1 < length /\ next_segment' = next_segment + 1
           /\ UNCHANGED <<packet, length, packet_counter>>
  <2>1. next_segment \in Nat /\ length \in Nat
    BY Numbers
  <2>2. next_segment' \in 0 .. length' - 1
    BY <1>1, <2>1
  <2>3. /\ packet \in 1 .. MaxPackets /\ length \in 1 .. MaxSegments
        /\ packet_counter \in 0 .. MaxPackets
    BY DEF ReassemblyTypeOK
  <2>4. packet <= packet'
    BY <1>1, Numbers
  <2> QED
    BY <1>1, <2>2, <2>3, <2>4 DEF NewPacket
<1>2. CASE /\ \E others \in 0 .. PacketWord - 1 :
                /\ packet' = packet + 1 + others
                /\ packet_counter' = packet_counter + 1 + others
           /\ packet' <= MaxPackets
           /\ length' \in 1 .. MaxSegments /\ next_segment' = 0
  <2>0. PICK others \in 0 .. PacketWord - 1 :
          /\ packet' = packet + 1 + others
          /\ packet_counter' = packet_counter + 1 + others
    BY <1>2
  <2>1. /\ packet \in Nat /\ MaxPackets \in Nat /\ MaxSegments \in Nat
        /\ others \in Nat /\ packet_counter = packet - 1
    <3>1. PacketWord \in Nat
      BY Numbers
    <3> QED
      BY <3>1, Numbers
  <2>2. packet' \in 1 .. MaxPackets /\ packet' # packet /\ packet <= packet'
    BY <1>2, <2>0, <2>1
  <2>3. packet_counter' \in 0 .. MaxPackets /\ packet_counter' = packet' - 1
    BY <1>2, <2>0, <2>1
  <2>4. next_segment' \in 0 .. length' - 1
    <3>1. \A n \in 1 .. MaxSegments : 0 \in 0 .. n - 1
      BY <2>1
    <3> QED
      BY <1>2, <3>1
  <2> QED
    BY <1>2, <2>2, <2>3, <2>4 DEF NewPacket
<1> QED
  BY <1>1, <1>2 DEF Advance

\* A packet grows by its next segment.
LEMMA WholePacketGrows ==
  ASSUME NEW p, NEW n \in Nat
  PROVE  Append(WholePacket(p, n), <<p, n>>) = WholePacket(p, n + 1)
<1> DEFINE s == WholePacket(p, n)
           t == WholePacket(p, n + 1)
           S == {<<p, k - 1>> : k \in 1 .. n + 1}
<1>1. s \in [1 .. n -> S] /\ t \in [1 .. n + 1 -> S] /\ <<p, n>> \in S
  <2>1. \A k \in 1 .. n : k \in 1 .. n + 1
    OBVIOUS
  <2>2. n + 1 \in 1 .. n + 1 /\ (n + 1) - 1 = n
    OBVIOUS
  <2> QED
    BY <2>1, <2>2 DEF WholePacket
<1>2. s \in Seq(S) /\ t \in Seq(S) /\ Len(s) = n /\ Len(t) = n + 1
  <2> HIDE DEF s, t, S
  <2>1. n + 1 \in Nat
    OBVIOUS
  <2>2. s \in Seq(S) /\ t \in Seq(S)
    BY <1>1, <2>1, SeqDef
  <2> QED
    BY <1>1, <2>1, <2>2, LenProperties
<1>3. /\ Append(s, <<p, n>>) \in Seq(S) /\ Len(Append(s, <<p, n>>)) = n + 1
      /\ \A k \in 1 .. n : Append(s, <<p, n>>)[k] = s[k]
      /\ Append(s, <<p, n>>)[n + 1] = <<p, n>>
  <2> DEFINE c == <<p, n>>
  <2>1. c \in S
    BY <1>1
  <2> HIDE DEF s, S, c
  <2>2. /\ Append(s, c) \in Seq(S) /\ Len(Append(s, c)) = n + 1
        /\ \A k \in 1 .. n : Append(s, c)[k] = s[k]
        /\ Append(s, c)[n + 1] = c
    BY <1>2, <2>1, AppendProperties
  <2> QED
    BY <2>2 DEF c
<1>4. \A k \in 1 .. n + 1 : Append(s, <<p, n>>)[k] = t[k]
  <2> SUFFICES ASSUME NEW k \in 1 .. n + 1
               PROVE  Append(s, <<p, n>>)[k] = t[k]
    OBVIOUS
  <2>1. t[k] = <<p, k - 1>>
    BY DEF WholePacket
  <2>2. CASE k = n + 1
    BY <1>3, <2>1, <2>2
  <2>3. CASE k # n + 1
    <3>1. k \in 1 .. n
      BY <2>3
    <3>2. s[k] = <<p, k - 1>>
      BY <3>1 DEF WholePacket
    <3> QED
      BY <1>3, <2>1, <3>1, <3>2
  <2> QED
    BY <2>2, <2>3
<1> HIDE DEF s, t, S
<1>5. Append(s, <<p, n>>) = t
  BY <1>2, <1>3, <1>4, SeqEqual
<1> QED
  BY <1>5 DEF s, t

\* One segment is a packet of one.
LEMMA WholePacketOfOne ==
  ASSUME NEW p
  PROVE  <<<<p, 0>>>> = WholePacket(p, 1)
<1>1. /\ WholePacket(p, 1) = [k \in 1 .. 1 |-> <<p, k - 1>>]
      /\ \A k \in 1 .. 1 : k = 1 /\ k - 1 = 0
  BY DEF WholePacket
<1> QED
  BY <1>1

-----------------------------------------------------------------------------
\* What a segment does to the buffer: it starts it anew, is appended to it, or
\* empties it.
LEMMA Received ==
  ASSUME ReassemblyTypeOK, Receive
  PROVE  /\ prev_seg_counter' = next_segment
         /\ \/ /\ next_segment = 0 /\ buffer' = <<<<packet, 0>>>>
               /\ curr_pkt_counter' = packet_counter % PacketWord
            \/ /\ next_segment # 0 /\ next_segment = prev_seg_counter + 1
               /\ packet_counter % PacketWord = curr_pkt_counter
               /\ buffer' = Append(buffer, <<packet, next_segment>>)
               /\ curr_pkt_counter' = curr_pkt_counter
            \/ /\ next_segment # 0
               /\ ~(/\ next_segment = prev_seg_counter + 1
                    /\ packet_counter % PacketWord = curr_pkt_counter)
               /\ buffer' = <<>> /\ curr_pkt_counter' = curr_pkt_counter
         /\ delivered' = IF next_segment = length - 1 THEN buffer' ELSE <<>>
         /\ lost_one' = (lost_one /\ ~NewPacket)
         /\ Advance
<1>1. /\ buffer' = Reassembled(Segment)
      /\ curr_pkt_counter' = IF Segment.seg = 0 THEN Segment.pkt ELSE curr_pkt_counter
      /\ prev_seg_counter' = Segment.seg
      /\ delivered' = IF Segment.last THEN buffer' ELSE <<>>
      /\ lost_one' = (lost_one /\ ~NewPacket)
      /\ Advance
  BY DEF Receive, Starts
<1>2. Reassembled(Segment) =
        IF next_segment = 0 THEN <<<<packet, next_segment>>>>
        ELSE IF /\ next_segment = prev_seg_counter + 1
                /\ packet_counter % PacketWord = curr_pkt_counter
             THEN Append(buffer, <<packet, next_segment>>)
             ELSE <<>>
  BY OnTheAir DEF Reassembled, Starts, Follows
<1> QED
  BY <1>1, <1>2, OnTheAir

\* If nothing of the packet was lost before this segment, the buffer holds the
\* packet up to and with it.
LEMMA CollectsSegment ==
  ASSUME ReassemblyInv, Receive, ~lost_one
  PROVE  /\ buffer' = WholePacket(packet, next_segment + 1)
         /\ prev_seg_counter' = next_segment
         /\ curr_pkt_counter' = packet_counter % PacketWord
<1>1. ReassemblyTypeOK /\ Collected /\ next_segment \in Nat
  BY Numbers DEF ReassemblyInv
<1>2. CASE next_segment = 0
  <2>1. next_segment + 1 = 1
    BY <1>2
  <2> QED
    BY <1>1, <1>2, <2>1, Received, WholePacketOfOne
<1>3. CASE next_segment # 0
  <2>1. /\ buffer = WholePacket(packet, next_segment)
        /\ prev_seg_counter = next_segment - 1
        /\ curr_pkt_counter = packet_counter % PacketWord
    BY <1>1, <1>3 DEF Collected
  <2>2. next_segment = prev_seg_counter + 1
    BY <1>1, <2>1
  <2>3. buffer' = Append(buffer, <<packet, next_segment>>)
        /\ curr_pkt_counter' = curr_pkt_counter /\ prev_seg_counter' = next_segment
    BY <1>1, <1>3, <2>1, <2>2, Received
  <2> QED
    BY <1>1, <2>1, <2>3, WholePacketGrows
<1> QED
  BY <1>2, <1>3

\* Receiving a segment keeps the invariant.
LEMMA ReceiveKeepsInv ==
  ASSUME ReassemblyInv, Receive
  PROVE  ReassemblyInv'
<1>1. /\ ReassemblyTypeOK /\ packet_counter = packet - 1 /\ LastPart /\ Collected
      /\ buffer \in Seq(Contents)
  BY DEF ReassemblyInv, ReassemblyTypeOK
<1>2. Advance
  BY <1>1, Received
<1>3. <<packet, next_segment>> \in Contents
  BY <1>1, OnTheAir
<1>4. /\ buffer' \in Seq(Contents)
      /\ buffer' # <<>> =>
           /\ Len(buffer') <= next_segment + 1
           /\ Part(buffer'[Len(buffer')]) = next_segment
  <2>1. CASE next_segment = 0 /\ buffer' = <<<<packet, 0>>>>
    <3>1. buffer' = <<<<packet, next_segment>>>>
      BY <2>1
    <3> DEFINE c == <<packet, next_segment>>
    <3>2. Part(c) = next_segment
      BY DEF Part
    <3> HIDE DEF c
    <3>3. <<c>> \in Seq(Contents) /\ Len(<<c>>) = 1 /\ <<c>>[1] = c
      BY <1>3 DEF c
    <3>4. buffer' = <<c>>
      BY <3>1 DEF c
    <3> QED
      BY <2>1, <3>2, <3>3, <3>4
  <2>2. CASE /\ next_segment # 0 /\ next_segment = prev_seg_counter + 1
             /\ buffer' = Append(buffer, <<packet, next_segment>>)
    <3> DEFINE c == <<packet, next_segment>>
    <3>1. Part(c) = next_segment
      BY DEF Part
    <3>2. c \in Contents /\ buffer' = Append(buffer, c)
      BY <1>3, <2>2
    <3> HIDE DEF c
    <3>3. /\ Append(buffer, c) \in Seq(Contents)
          /\ Len(Append(buffer, c)) = Len(buffer) + 1
          /\ Append(buffer, c)[Len(buffer) + 1] = c
      BY <1>1, <3>2, AppendProperties
    <3>4. Len(buffer) <= next_segment
      <4>1. Len(buffer) \in Nat /\ next_segment \in Nat /\ prev_seg_counter \in Nat
        BY <1>1, Numbers
      <4>2. buffer = <<>> => Len(buffer) = 0
        OBVIOUS
      <4>3. buffer # <<>> => Len(buffer) <= prev_seg_counter + 1
        BY <1>1 DEF LastPart
      <4> QED
        BY <2>2, <4>1, <4>2, <4>3
    <3>5. Len(buffer) + 1 <= next_segment + 1
      BY <1>1, <3>4, Numbers
    <3> QED
      BY <3>1, <3>2, <3>3, <3>5
  <2>3. CASE buffer' = <<>>
    BY <2>3
  <2> QED
    BY <1>1, <2>1, <2>2, <2>3, Received
<1>5. Len(buffer') <= MaxSegments
  <2>1. Len(buffer') \in Nat /\ (buffer' = <<>> => Len(buffer') = 0)
    BY <1>4
  <2>2. next_segment + 1 <= MaxSegments /\ MaxSegments \in Nat /\ next_segment \in Nat
    BY <1>1, Numbers
  <2> QED
    BY <1>4, <2>1, <2>2
<1>6. ReassemblyTypeOK'
  <2>1. prev_seg_counter' \in 0 .. SegmentWord - 1
    <3>1. /\ next_segment \in Nat /\ next_segment < length /\ length \in Nat
          /\ length <= MaxSegments /\ MaxSegments \in Nat
          /\ MaxSegments <= SegmentWord /\ SegmentWord \in Nat \ {0}
      BY <1>1, Numbers
    <3>2. next_segment \in 0 .. SegmentWord - 1
      BY <3>1
    <3>3. prev_seg_counter' = next_segment
      BY <1>1, Received
    <3> QED
      BY <3>2, <3>3
  <2>2. curr_pkt_counter' \in 0 .. PacketWord - 1
    <3>1. packet_counter % PacketWord \in 0 .. PacketWord - 1
      BY <1>1, OnTheAir
    <3>2. curr_pkt_counter \in 0 .. PacketWord - 1
      BY <1>1 DEF ReassemblyTypeOK
    <3> QED
      BY <1>1, <3>1, <3>2, Received
  <2>3. delivered' \in Seq(Contents)
    <3>1. <<>> \in Seq(Contents)
      OBVIOUS
    <3> QED
      BY <1>1, <1>4, <3>1, Received
  <2>4. lost_one' \in BOOLEAN
    BY <1>1, Received
  <2>5. /\ packet' \in 1 .. MaxPackets /\ length' \in 1 .. MaxSegments
        /\ next_segment' \in 0 .. length' - 1
        /\ packet_counter' \in 0 .. MaxPackets
    BY <1>1, <1>2, Advances
  <2> QED
    BY <1>4, <1>5, <2>1, <2>2, <2>3, <2>4, <2>5 DEF ReassemblyTypeOK
<1>7. LastPart'
  BY <1>1, <1>4, Received DEF LastPart, Part
<1>8. Collected'
  <2> SUFFICES ASSUME ~lost_one', next_segment' # 0
               PROVE  /\ buffer' = WholePacket(packet', next_segment')
                      /\ prev_seg_counter' = next_segment' - 1
                      /\ curr_pkt_counter' = packet_counter' % PacketWord
    BY DEF Collected, WholePacket
  <2>1. /\ ~NewPacket /\ next_segment' = next_segment + 1
        /\ UNCHANGED <<packet, length, packet_counter>>
    BY <1>1, <1>2, Advances
  <2>2. ~lost_one
    BY <1>1, <2>1, Received
  <2>3. next_segment' - 1 = next_segment
    BY <1>1, <2>1, Numbers
  <2> QED
    BY <2>1, <2>2, <2>3, CollectsSegment
<1> QED
  BY <1>1, <1>2, <1>6, <1>7, <1>8, Advances DEF ReassemblyInv

\* Losing a segment keeps the invariant.
LEMMA LoseKeepsInv ==
  ASSUME ReassemblyInv, Lose
  PROVE  ReassemblyInv'
<1>1. /\ ReassemblyTypeOK /\ packet_counter = packet - 1 /\ LastPart
  BY DEF ReassemblyInv
<1>2. /\ Advance /\ delivered' = <<>> /\ lost_one' = ~NewPacket
      /\ UNCHANGED <<buffer, prev_seg_counter, curr_pkt_counter>>
  BY DEF Lose, receiver
<1>3. /\ packet' \in 1 .. MaxPackets /\ length' \in 1 .. MaxSegments
      /\ next_segment' \in 0 .. length' - 1
      /\ packet_counter' \in 0 .. MaxPackets /\ packet_counter' = packet' - 1
      /\ NewPacket => next_segment' = 0
  BY <1>1, <1>2, Advances
<1>4. ReassemblyTypeOK'
  <2>1. lost_one' \in BOOLEAN /\ delivered' \in Seq(Contents)
    BY <1>2 DEF NewPacket
  <2> QED
    BY <1>1, <1>2, <1>3, <2>1 DEF ReassemblyTypeOK
<1>5. LastPart'
  BY <1>1, <1>2 DEF LastPart
<1>6. Collected'
  BY <1>2, <1>3 DEF Collected
<1> QED
  BY <1>3, <1>4, <1>5, <1>6 DEF ReassemblyInv

\* The invariant holds initially, and every step keeps it.
LEMMA ReassemblyInductive ==
  /\ Init => ReassemblyInv
  /\ ReassemblyInv /\ [Next]_vars => ReassemblyInv'
<1>1. ASSUME Init PROVE ReassemblyInv
  <2>1. /\ packet \in 1 .. MaxPackets /\ packet_counter = packet - 1
        /\ length \in 1 .. MaxSegments /\ next_segment = 0
        /\ lost_one = FALSE /\ buffer = <<>>
        /\ prev_seg_counter = 0 /\ curr_pkt_counter = 0 /\ delivered = <<>>
    BY <1>1 DEF Init
  <2>2. /\ PacketWord \in Nat \ {0} /\ SegmentWord \in Nat \ {0}
        /\ MaxSegments \in Nat \ {0} /\ MaxPackets \in Nat \ {0}
    BY WordsAssumption, BoundsAssumption
  <2>3. /\ packet \in 1 .. MaxPackets /\ packet_counter \in 0 .. MaxPackets
        /\ prev_seg_counter \in 0 .. SegmentWord - 1
        /\ curr_pkt_counter \in 0 .. PacketWord - 1
    BY <2>1, <2>2
  <2>4. next_segment \in 0 .. length - 1
    BY <2>1, <2>2
  <2>5. buffer \in Seq(Contents) /\ Len(buffer) <= MaxSegments
        /\ delivered \in Seq(Contents)
    BY <2>1, <2>2
  <2>6. ReassemblyTypeOK
    BY <2>1, <2>3, <2>4, <2>5 DEF ReassemblyTypeOK
  <2> QED
    BY <2>1, <2>3, <2>6 DEF ReassemblyInv, LastPart, Collected
<1>2. ASSUME ReassemblyInv, [Next]_vars PROVE ReassemblyInv'
  <2>1. CASE Next
    BY <1>2, <2>1, ReceiveKeepsInv, LoseKeepsInv DEF Next
  <2>2. CASE UNCHANGED vars
    <3>1. UNCHANGED <<packet, length, next_segment, packet_counter, lost_one,
                      buffer, prev_seg_counter, curr_pkt_counter, delivered>>
      BY <2>2 DEF vars, sender, receiver
    <3>2. ReassemblyTypeOK'
      BY <1>2, <3>1 DEF ReassemblyInv, ReassemblyTypeOK
    <3> QED
      BY <1>2, <3>1, <3>2 DEF ReassemblyInv, LastPart, Collected, WholePacket
  <2> QED
    BY <1>2, <2>1, <2>2
<1> QED
  BY <1>1, <1>2

\* The buffer never outgrows the largest packet, whatever arrives of which
\* packets: each segment kept has a number of its own.
THEOREM ReassemblyTypes == Spec => []ReassemblyTypeOK
<1>1. ReassemblyInv => ReassemblyTypeOK
  BY DEF ReassemblyInv
<1> QED
  BY <1>1, ReassemblyInductive, PTL DEF Spec

\* A packet of which nothing was lost is delivered whole, whatever the buffer
\* and the counters held when its first segment came.
THEOREM UntouchedPacketsArrive == Spec => UntouchedPacketArrives
<1>1. ReassemblyInv /\ [Next]_vars =>
        [(Receive /\ Segment.last /\ ~lost_one) =>
           delivered' = WholePacket(packet, length)]_vars
  <2> SUFFICES ASSUME ReassemblyInv, Receive, Segment.last, ~lost_one
               PROVE  delivered' = WholePacket(packet, length)
    OBVIOUS
  <2>1. ReassemblyTypeOK
    BY DEF ReassemblyInv
  <2>2. next_segment = length - 1 /\ next_segment + 1 = length
    BY <2>1, OnTheAir, Numbers
  <2> QED
    BY <2>1, <2>2, Received, CollectsSegment
<1> QED
  BY <1>1, ReassemblyInductive, PTL DEF Spec, UntouchedPacketArrives

-----------------------------------------------------------------------------
\* A segment that is appended to others may be joined to the last of them.
LEMMA AppendsJoined ==
  ASSUME ReassemblyInv, BufferJoined, buffer # <<>>,
         next_segment = prev_seg_counter + 1,
         packet_counter % PacketWord = curr_pkt_counter
  PROVE  Joined(buffer[Len(buffer)], <<packet, next_segment>>)
<1> DEFINE c == buffer[Len(buffer)]
           source == Source(c)
<1>1. /\ ReassemblyTypeOK /\ packet_counter = packet - 1
      /\ prev_seg_counter = Part(c)
  BY DEF ReassemblyInv, LastPart
<1>2. source <= packet /\ curr_pkt_counter = (source - 1) % PacketWord
  BY DEF BufferJoined
<1>3. source \in Nat \ {0}
  <2>1. buffer \in Seq(Contents) /\ Len(buffer) \in 1 .. Len(buffer)
    <3>1. buffer \in Seq(Contents)
      BY <1>1 DEF ReassemblyTypeOK
    <3>2. Len(buffer) \in Nat /\ Len(buffer) # 0
      BY <3>1, EmptySeq
    <3> QED
      BY <3>1, <3>2
  <2>2. c \in Contents
    BY <2>1, ElementOfSeq
  <2>3. c[1] \in 1 .. MaxPackets
    BY <2>2 DEF Contents
  <2> QED
    BY <2>3, BoundsAssumption DEF Source
<1> HIDE DEF source
<1>4. packet = source \/ packet - source >= PacketWord
  <2>1. packet \in Nat \ {0} /\ PacketWord \in Nat \ {0}
    BY <1>1, Numbers
  <2>2. ASSUME packet - source < PacketWord PROVE packet = source
    <3>1. /\ source - 1 \in Nat /\ packet - 1 \in Nat /\ source - 1 <= packet - 1
          /\ (packet - 1) - (source - 1) < PacketWord
      BY <1>2, <1>3, <2>1, <2>2
    <3>2. (source - 1) % PacketWord = (packet - 1) % PacketWord
      BY <1>1, <1>2
    <3>3. source - 1 = packet - 1
      BY <2>1, <3>1, <3>2, SameRemainder
    <3> QED
      BY <1>3, <2>1, <3>3
  <2> QED
    BY <1>3, <2>1, <2>2
<1>5. Source(<<packet, next_segment>>) = packet /\ Part(<<packet, next_segment>>) = next_segment
  BY DEF Source, Part
<1> QED
  BY <1>1, <1>4, <1>5 DEF source, Joined, CameRound

\* Every step keeps the segments of the buffer joined.
LEMMA StepKeepsJoined ==
  ASSUME ReassemblyInv, BufferJoined, MixedOnlyWhenCounterComesRound, [Next]_vars
  PROVE  BufferJoined' /\ MixedOnlyWhenCounterComesRound'
<1>1. /\ ReassemblyTypeOK /\ packet_counter = packet - 1
      /\ buffer \in Seq(Contents) /\ Len(buffer) \in Nat /\ packet \in Nat
  BY Numbers DEF ReassemblyInv, ReassemblyTypeOK
<1>2. ASSUME Advance PROVE packet' \in Nat /\ packet <= packet'
  <2>1. packet' \in 1 .. MaxPackets /\ packet <= packet'
    BY <1>1, <1>2, Advances
  <2> QED
    BY <2>1, BoundsAssumption
<1>3. CASE Receive
  <2> DEFINE c == <<packet, next_segment>>
  <2>1. Advance /\ delivered' \in {<<>>, buffer'} /\ packet <= packet'
    BY <1>1, <1>2, <1>3, Received
  <2>2. Source(c) = packet
    BY DEF Source
  <2>3. ASSUME \A k \in 1 .. Len(buffer') - 1 : Joined(buffer'[k], buffer'[k + 1])
        PROVE  MixedOnlyWhenCounterComesRound'
    <3>1. Len(<<>>) = 0 /\ \A k : ~(k \in 1 .. 0 - 1)
      OBVIOUS
    <3>2. CASE delivered' = <<>>
      BY <3>1, <3>2 DEF MixedOnlyWhenCounterComesRound
    <3>3. CASE delivered' = buffer'
      BY <2>3, <3>3 DEF MixedOnlyWhenCounterComesRound, Joined, CameRound, Source, Part
    <3> QED
      BY <2>1, <3>2, <3>3
  <2> HIDE DEF c
  <2>4. CASE buffer' = <<c>> /\ curr_pkt_counter' = (packet - 1) % PacketWord
    <3>1. Len(buffer') = 1 /\ buffer'[1] = c /\ \A k : ~(k \in 1 .. 1 - 1)
      BY <2>4
    <3> QED
      BY <2>1, <2>2, <2>3, <2>4, <3>1 DEF BufferJoined, Source
  <2>5. CASE /\ buffer' = Append(buffer, c)
             /\ curr_pkt_counter' = (packet - 1) % PacketWord
             /\ next_segment = prev_seg_counter + 1
             /\ packet_counter % PacketWord = curr_pkt_counter
    <3> DEFINE n == Len(buffer)
    <3>1. /\ Len(buffer') = n + 1 /\ buffer'[n + 1] = c /\ n \in Nat
          /\ \A k \in 1 .. n : buffer'[k] = buffer[k]
      BY <1>1, <2>5, AppendProperties, OnTheAir DEF c
    <3>2. ASSUME NEW k \in 1 .. n PROVE Joined(buffer'[k], buffer'[k + 1])
      <4>1. CASE k = n
        <5>1. buffer # <<>>
          BY <3>1, <4>1
        <5>2. Joined(buffer[n], c)
          BY <2>5, <5>1, AppendsJoined DEF c
        <5> QED
          BY <3>1, <4>1, <5>2
      <4>2. CASE k # n
        <5>1. k \in 1 .. n - 1 /\ k + 1 \in 1 .. n
          BY <3>1, <4>2
        <5> QED
          BY <3>1, <5>1 DEF BufferJoined
      <4> QED
        BY <4>1, <4>2
    <3>3. n + 1 - 1 = n /\ buffer'[Len(buffer')] = c
      BY <3>1
    <3> HIDE DEF n
    <3>4. \A k \in 1 .. Len(buffer') - 1 : Joined(buffer'[k], buffer'[k + 1])
      BY <3>1, <3>2, <3>3
    <3> QED
      BY <2>1, <2>2, <2>3, <2>5, <3>3, <3>4
         DEF BufferJoined, Joined, CameRound, Source, Part
  <2>6. CASE buffer' = <<>>
    <3>1. Len(buffer') = 0 /\ \A k : ~(k \in 1 .. 0 - 1)
      BY <2>6
    <3> QED
      BY <2>3, <2>6, <3>1 DEF BufferJoined
  <2>7. \/ buffer' = <<c>> /\ curr_pkt_counter' = (packet - 1) % PacketWord
        \/ /\ buffer' = Append(buffer, c)
           /\ curr_pkt_counter' = (packet - 1) % PacketWord
           /\ next_segment = prev_seg_counter + 1
           /\ packet_counter % PacketWord = curr_pkt_counter
        \/ buffer' = <<>>
    BY <1>1, <1>3, Received DEF c
  <2> QED
    BY <2>4, <2>5, <2>6, <2>7
<1>4. CASE Lose
  <2>1. /\ Advance /\ delivered' = <<>>
        /\ UNCHANGED <<buffer, prev_seg_counter, curr_pkt_counter>>
    BY <1>4 DEF Lose, receiver
  <2>2. BufferJoined'
    <3>1. ASSUME buffer # <<>> PROVE Source(buffer[Len(buffer)]) <= packet'
      <4> DEFINE source == Source(buffer[Len(buffer)])
      <4>1. source \in Nat
        <5>1. Len(buffer) # 0
          BY <1>1, <3>1, EmptySeq
        <5>2. buffer[Len(buffer)] \in Contents
          BY <1>1, <5>1, ElementOfSeq
        <5>3. buffer[Len(buffer)][1] \in 1 .. MaxPackets
          BY <5>2 DEF Contents
        <5> QED
          BY <5>3, BoundsAssumption DEF Source
      <4>2. source <= packet
        BY <3>1 DEF BufferJoined
      <4> HIDE DEF source
      <4>3. source <= packet'
        BY <1>1, <1>2, <2>1, <4>1, <4>2
      <4> QED
        BY <4>3 DEF source
    <3> QED
      BY <2>1, <3>1 DEF BufferJoined, Joined, CameRound, Source, Part
  <2>3. MixedOnlyWhenCounterComesRound'
    <3>1. Len(delivered') = 0 /\ \A k : ~(k \in 1 .. 0 - 1)
      BY <2>1
    <3> QED
      BY <3>1 DEF MixedOnlyWhenCounterComesRound
  <2> QED
    BY <2>2, <2>3
<1>5. CASE UNCHANGED vars
  <2>1. UNCHANGED <<packet, buffer, curr_pkt_counter, delivered>>
    BY <1>5 DEF vars, sender, receiver
  <2> QED
    BY <2>1 DEF BufferJoined, Joined, MixedOnlyWhenCounterComesRound, CameRound, Source, Part
<1> QED
  BY <1>3, <1>4, <1>5 DEF Next

\* Whatever is lost, and however many packets the sender sends to others, a
\* segment is put behind one of another packet only if the packet counter has
\* come round in between.
THEOREM MixingNeedsTheCounterRound == Spec => []MixedOnlyWhenCounterComesRound
<1> DEFINE Inv == ReassemblyInv /\ BufferJoined /\ MixedOnlyWhenCounterComesRound
<1>1. Init => Inv
  <2> SUFFICES ASSUME Init PROVE BufferJoined /\ MixedOnlyWhenCounterComesRound
    BY ReassemblyInductive
  <2>1. buffer = <<>> /\ delivered = <<>> /\ Len(buffer) = 0 /\ Len(delivered) = 0
    BY DEF Init
  <2>2. \A k : ~(k \in 1 .. 0 - 1)
    OBVIOUS
  <2> QED
    BY <2>1, <2>2 DEF BufferJoined, MixedOnlyWhenCounterComesRound
<1>2. Inv /\ [Next]_vars => Inv'
  BY ReassemblyInductive, StepKeepsJoined
<1>3. Inv => MixedOnlyWhenCounterComesRound
  OBVIOUS
<1> QED
  BY <1>1, <1>2, <1>3, PTL DEF Spec

=============================================================================
