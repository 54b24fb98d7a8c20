--------------------------- MODULE TxFifo_proofs ---------------------------
(***************************************************************************)
(* Proofs about the transmit FIFO for a ring of any size, frames of any    *)
(* number of blocks and any thresholds that leave room for one push.       *)
(*                                                                         *)
(* They hold for as long as the pointers do not wrap: beyond, the code     *)
(* compares pointers that are no longer in order.                          *)
(***************************************************************************)
EXTENDS TxFifo, SequenceTheorems, FiniteSetTheorems, FunctionTheorems, TLAPS

NoWrap == MaxFrames * MaxBlocks < Word

Writing == pc \in {"write", "publish"}

\* Each block that waits belongs to a frame all blocks of which wait.
Framed ==
  \A p \in RD .. last_ready - 1 :
    LET first == p - At(p).part + 1 IN
    /\ At(p).part <= At(p).size
    /\ RD <= first /\ first + At(p).size <= last_ready
    /\ \A k \in 1 .. At(p).size : At(first + k - 1) = [At(p) EXCEPT !.part = k]

\* Behind last_ready there is the part of the current frame that is written.
Partial ==
  /\ WR = last_ready + part - 1
  /\ writing = <<>> => ~Writing /\ part = 1
  /\ writing # <<>> =>
       /\ Writing
       /\ pc = "write" => part <= Head(writing).size
       /\ pc = "publish" => part = Head(writing).size + 1
       /\ \A k \in 1 .. part - 1 : At(last_ready + k - 1) = BlockOf(Head(writing), k)

\* What is still to write fits into the ring.
Room == WR + Len(writing) * MaxBlocks <= RD + Blocks + (part - 1)

\* Every frame takes MaxBlocks blocks at most.
Count ==
  /\ Len(writing) <= written
  /\ WR <= (written - Len(writing)) * MaxBlocks + (part - 1)

\* The FIFO is flushed with the radio off.
FlushedOff ==
  /\ pc = "radio on" \/ Flushing => ~radio
  /\ Flushing => WR = 0 /\ writing = <<>> /\ part = 1
  /\ pc = "flush last_ready" => RD = 0

FifoInv ==
  /\ FifoTypeOK
  /\ FlushedOff
  /\ Count
  /\ ~Flushing => RD <= last_ready /\ Framed /\ Partial /\ Room
  /\ OnlyWholeFramesSent

-----------------------------------------------------------------------------
(***************************************************************************)
(* Pointers and places.                                                    *)
(***************************************************************************)

\* A number below the modulus is its own remainder.
LEMMA SmallRemainder ==
  ASSUME NEW n \in Nat \ {0}, NEW a \in Nat, a < n
  PROVE  a % n = a
OBVIOUS

\* Two positions less than a round apart have different places in the ring.
LEMMA PlacesApart ==
  ASSUME NEW a \in Nat, NEW b \in Nat, a < b, b - a < Blocks
  PROVE  Place(a) # Place(b)
<1> DEFINE q == a \div Blocks
           r == b \div Blocks
<1>1. /\ Blocks \in Nat \ {0}
      /\ q \in Int /\ r \in Int
      /\ a % Blocks \in Int /\ b % Blocks \in Int
      /\ a = Blocks * q + (a % Blocks) /\ b = Blocks * r + (b % Blocks)
  BY RingAssumption
<1> SUFFICES ASSUME a % Blocks = b % Blocks PROVE FALSE
  BY DEF Place
<1>2. b - a = Blocks * (r - q)
  BY <1>1
<1> HIDE DEF q, r
<1>3. r - q >= 1
  BY <1>1, <1>2
<1>4. Blocks * (r - q) >= Blocks
  BY <1>1, <1>3
<1> QED
  BY <1>1, <1>2, <1>4

\* What the types say of pointers, frames and blocks, in one place.
LEMMA Types ==
  ASSUME FifoTypeOK
  PROVE  /\ WR \in Nat /\ RD \in Nat /\ last_ready \in Nat
         /\ WR < Word /\ RD < Word /\ last_ready < Word
         /\ part \in Nat \ {0} /\ written \in Nat /\ written <= MaxFrames
         /\ Len(writing) \in Nat
         /\ writing # <<>> =>
              /\ Len(writing) >= 1
              /\ Head(writing) \in Frames
              /\ Head(writing).size \in Nat /\ Head(writing).size <= MaxBlocks
         /\ Blocks \in Nat \ {0} /\ MaxBlocks \in Nat \ {0} /\ Word \in Nat \ {0}
         /\ MaxFrames \in Nat
<1>1. /\ Blocks \in Nat \ {0} /\ MaxBlocks \in Nat \ {0} /\ Word \in Nat \ {0}
      /\ MaxFrames \in Nat
  <2>1. Blocks \in Nat \ {0} /\ MaxBlocks \in Nat \ {0}
    BY RingAssumption
  <2>2. Word \in Nat /\ Word > 2 * Blocks /\ MaxFrames \in Nat
    BY WordAssumption
  <2> QED
    BY <2>1, <2>2
<1>2. /\ WR \in Nat /\ RD \in Nat /\ last_ready \in Nat
      /\ WR < Word /\ RD < Word /\ last_ready < Word
      /\ part \in Nat \ {0} /\ written \in Nat /\ written <= MaxFrames
      /\ Len(writing) \in Nat
  <2>1. /\ WR \in Pointers /\ RD \in Pointers /\ last_ready \in Pointers
        /\ part \in 1 .. MaxBlocks + 1 /\ written \in 0 .. MaxFrames
        /\ writing \in Seq(Frames)
    BY DEF FifoTypeOK
  <2> QED
    BY <1>1, <2>1 DEF Pointers
<1>3. ASSUME writing # <<>>
      PROVE  Len(writing) >= 1 /\ Head(writing) \in Frames
  <2>1. writing \in Seq(Frames)
    BY DEF FifoTypeOK
  <2>2. Len(writing) \in Nat /\ Len(writing) # 0
    BY <1>3, <2>1
  <2> QED
    BY <1>3, <2>1, <2>2
<1>4. \A f \in Frames : f.size \in Nat /\ f.size <= MaxBlocks
  BY <1>1 DEF Frames, Sizes
<1> QED
  BY <1>1, <1>2, <1>3, <1>4

\* What the ring holds at any position is a block.
LEMMA BlockAt ==
  ASSUME FifoTypeOK, NEW p \in Nat
  PROVE  /\ Place(p) \in 0 .. Blocks - 1
         /\ At(p) \in Block
         /\ At(p).part \in Nat \ {0} /\ At(p).size \in Nat \ {0}
         /\ At(p).size <= MaxBlocks
<1>1. Place(p) \in 0 .. Blocks - 1
  BY RingAssumption DEF Place
<1>2. At(p) \in Block
  BY <1>1 DEF FifoTypeOK, At
<1> QED
  BY <1>1, <1>2, RingAssumption DEF Block, Sizes

-----------------------------------------------------------------------------
(***************************************************************************)
(* The main loop's steps.                                                  *)
(***************************************************************************)

\* What FifoInv says of the FIFO at rest, for the whole ring.
LEMMA AtRest ==
  ASSUME FifoInv, ~Flushing
  PROVE  /\ RD <= last_ready /\ last_ready <= WR /\ WR <= RD + Blocks
         /\ ~Writing => writing = <<>> /\ part = 1 /\ WR = last_ready
<1>1. FifoTypeOK /\ Partial /\ Room /\ RD <= last_ready
  BY DEF FifoInv
<1>2. CASE writing = <<>>
  <2>1. part = 1 /\ Len(writing) = 0
    BY <1>1, <1>2 DEF Partial
  <2> QED
    BY <1>1, <1>2, <2>1, Types DEF Partial, Room
<1>3. CASE writing # <<>>
  <2> DEFINE n == Len(writing)
             size == Head(writing).size
  <2>1. /\ WR \in Nat /\ RD \in Nat /\ last_ready \in Nat /\ part \in Nat \ {0}
        /\ Blocks \in Nat /\ MaxBlocks \in Nat
        /\ n \in Nat /\ n >= 1 /\ size \in Nat /\ size <= MaxBlocks
    BY <1>1, <1>3, Types
  <2>2. Writing /\ (part <= size \/ part = size + 1)
    BY <1>1, <1>3 DEF Partial, Writing
  <2>3. /\ WR = last_ready + part - 1
        /\ WR + n * MaxBlocks <= RD + Blocks + (part - 1)
        /\ RD <= last_ready
    BY <1>1 DEF Partial, Room
  <2> HIDE DEF n, size
  <2>4. n * MaxBlocks >= MaxBlocks /\ n * MaxBlocks \in Nat
    BY <2>1
  <2>5. part - 1 <= MaxBlocks
    BY <2>1, <2>2
  <2>6. last_ready <= WR /\ WR <= RD + Blocks
    BY <2>1, <2>3, <2>4, <2>5
  <2> QED
    BY <1>1, <2>2, <2>6
<1> QED
  BY <1>2, <1>3

\* The filling the main loop computes is the filling.
LEMMA FullMeans ==
  ASSUME FifoInv, pc = "idle", NEW threshold \in Nat, ~Full(threshold)
  PROVE  WR - RD <= threshold
<1>1. /\ RD <= WR /\ WR <= RD + Blocks /\ FifoTypeOK
  BY AtRest, Types DEF FifoInv, Flushing
<1>2. 2 * Blocks < Word
  BY WordAssumption
<1>3. WR - RD \in Nat /\ 2 * (WR - RD) < Word /\ WR - RD < Word
  BY <1>1, <1>2, Types
<1>4. Diff(WR, RD) = WR - RD
  BY <1>1, <1>3, Types, SmallRemainder DEF Diff
<1> QED
  BY <1>1, <1>3, <1>4, Types DEF Full, Signed

\* Taking up a push keeps the invariant if the thresholds leave room for it.
LEMMA StartKeepsInv ==
  ASSUME FifoInv, NEW threshold \in Nat, ~Full(threshold),
         NEW sizes \in Seq(Sizes), Len(sizes) >= 1, Len(sizes) <= MaxSegments,
         threshold + Len(sizes) * MaxBlocks <= Blocks,
         StartWriting(sizes)
  PROVE  FifoInv'
<1>1. /\ FifoTypeOK /\ pc = "idle" /\ ~Flushing /\ ~Writing
      /\ WR - RD <= threshold
  BY FullMeans DEF FifoInv, StartWriting, Flushing, Writing
<1>2. /\ writing = <<>> /\ part = 1 /\ WR = last_ready /\ RD <= last_ready
      /\ Len(writing) = 0
  BY <1>1, AtRest
<1>3. /\ DOMAIN sizes = 1 .. Len(sizes) /\ Len(sizes) \in Nat
      /\ \A k \in 1 .. Len(sizes) : sizes[k] \in Sizes
  BY LenProperties, ElementOfSeq
<1> DEFINE n == Len(sizes)
<1>14. /\ n \in Nat /\ n >= 1 /\ written \in Nat /\ written' = written + n
       /\ written' <= MaxFrames /\ MaxFrames \in Nat
       /\ MaxBlocks \in Nat /\ Blocks \in Nat /\ WR \in Nat /\ RD \in Nat
       /\ n * MaxBlocks \in Nat
  <2>1. written \in Nat /\ MaxFrames \in Nat /\ MaxBlocks \in Nat /\ Blocks \in Nat
        /\ WR \in Nat /\ RD \in Nat
    BY <1>1, Types
  <2>2. written' = written + n /\ written + n <= MaxFrames
    BY DEF StartWriting
  <2>3. n \in Nat /\ n >= 1
    BY <1>3
  <2> HIDE DEF n
  <2> QED
    BY <2>1, <2>2, <2>3
<1>4. /\ writing' \in [1 .. Len(sizes) -> Frames]
      /\ \A k \in 1 .. Len(sizes) :
           writing'[k] = [serial |-> written + k, size |-> sizes[k]]
  <2>1. \A k \in 1 .. Len(sizes) : written + k \in 1 .. MaxFrames
    <3> HIDE DEF n
    <3>1. \A k \in 1 .. n : written + k \in 1 .. MaxFrames
      BY <1>14
    <3> QED
      BY <3>1 DEF n
  <2> QED
    BY <1>3, <2>1 DEF StartWriting, Frames
<1>5. writing' \in Seq(Frames) /\ Len(writing') = Len(sizes)
  <2>1. writing' \in Seq(Frames)
    BY <1>3, <1>4, SeqDef
  <2>2. DOMAIN writing' = 1 .. Len(sizes)
    BY <1>4
  <2> QED
    BY <1>3, <2>1, <2>2, LenProperties
<1>6. writing' # <<>> /\ Head(writing').size \in Sizes
  BY <1>3, <1>4, <1>5
<1>7. /\ pc' = "write" /\ part' = 1 /\ written' = written + Len(sizes)
      /\ written' <= MaxFrames
      /\ UNCHANGED <<data, WR, RD, last_ready, radio, sent>>
  BY DEF StartWriting, ring
<1>8. FifoTypeOK'
  <2>1. written' \in 0 .. MaxFrames /\ part' \in 1 .. MaxBlocks + 1
    <3> HIDE DEF n
    <3>1. written' \in 0 .. MaxFrames /\ 1 \in 1 .. MaxBlocks + 1
      BY <1>14
    <3> QED
      BY <1>7, <3>1
  <2>2. Len(writing') <= MaxSegments
    BY <1>5
  <2> QED
    BY <1>1, <1>5, <1>7, <2>1, <2>2 DEF FifoTypeOK, Block
<1>9. FlushedOff'
  BY <1>7 DEF FlushedOff, Flushing
<1>10. Count'
  <2>1. WR <= (written - 0) * MaxBlocks + (1 - 1)
    BY <1>2 DEF FifoInv, Count
  <2>2. Len(writing') = n /\ part' - 1 = 1 - 1 /\ WR' = WR
    BY <1>5, <1>7
  <2> HIDE DEF n
  <2>3. written' - n = written - 0 /\ n <= written'
    BY <1>14
  <2> QED
    BY <2>1, <2>2, <2>3 DEF Count
<1>11. Partial'
  BY <1>1, <1>2, <1>6, <1>7, Types DEF Partial, Writing, Sizes
<1>12. Room'
  <2>1. /\ WR - RD <= threshold /\ threshold + n * MaxBlocks <= Blocks
        /\ Len(writing') = n /\ part' = 1 /\ WR' = WR /\ RD' = RD
    BY <1>1, <1>5, <1>7
  <2> HIDE DEF n
  <2>2. WR + n * MaxBlocks <= RD + Blocks + (1 - 1)
    <3> DEFINE x == n * MaxBlocks
    <3>1. x \in Nat /\ threshold + x <= Blocks
      BY <1>14, <2>1
    <3> HIDE DEF x
    <3>2. WR + x <= RD + Blocks + (1 - 1)
      BY <1>14, <2>1, <3>1
    <3> QED
      BY <3>2 DEF x
  <2> QED
    BY <2>1, <2>2 DEF Room
<1>13. Framed' /\ (RD <= last_ready)' /\ OnlyWholeFramesSent'
  BY <1>1, <1>2, <1>7 DEF FifoInv, Framed, At, OnlyWholeFramesSent
<1> QED
  BY <1>8, <1>9, <1>10, <1>11, <1>12, <1>13 DEF FifoInv

\* A block written at WR leaves the positions less than a round before it alone.
LEMMA RingWrite ==
  ASSUME FifoTypeOK, NEW x, data' = [data EXCEPT ![Place(WR)] = x]
  PROVE  /\ data'[Place(WR)] = x
         /\ \A p \in Nat : p < WR /\ WR - p < Blocks => data'[Place(p)] = data[Place(p)]
<1>1. data \in [0 .. Blocks - 1 -> Block]
  BY DEF FifoTypeOK
<1>2. Place(WR) \in 0 .. Blocks - 1 /\ \A p \in Nat : Place(p) \in 0 .. Blocks - 1
  BY BlockAt, Types
<1>3. \A p \in Nat : p < WR /\ WR - p < Blocks => Place(p) # Place(WR)
  BY PlacesApart, Types
<1> QED
  BY <1>1, <1>2, <1>3

\* While a frame is being written there is room for its next block, and the
\* write pointer does not wrap.
LEMMA RoomForBlock ==
  ASSUME NoWrap, FifoInv, pc = "write"
  PROVE  /\ writing # <<>> /\ part <= Head(writing).size
         /\ WR < RD + Blocks
         /\ Plus(WR, 1) = WR + 1 /\ WR + 1 < Word
<1>1. /\ FifoTypeOK /\ Partial /\ Room /\ Count /\ writing # <<>>
      /\ part <= Head(writing).size
  BY DEF FifoInv, Partial, Writing, Flushing
<1>2. /\ Len(writing) \in Nat /\ Len(writing) >= 1 /\ part <= MaxBlocks
      /\ WR \in Nat /\ RD \in Nat /\ part \in Nat \ {0}
      /\ written \in Nat /\ written <= MaxFrames /\ MaxFrames \in Nat
      /\ Blocks \in Nat \ {0} /\ MaxBlocks \in Nat /\ Word \in Nat \ {0}
  BY <1>1, Types
<1>3. Len(writing) * MaxBlocks >= MaxBlocks /\ Len(writing) * MaxBlocks \in Nat
  BY <1>2
<1>4. WR < RD + Blocks
  BY <1>1, <1>2, <1>3 DEF Room
<1>5. WR + 1 < Word
  <2>1. WR <= (written - Len(writing)) * MaxBlocks + (part - 1)
    BY <1>1 DEF Count
  <2>2. (written - Len(writing)) * MaxBlocks = written * MaxBlocks - Len(writing) * MaxBlocks
    BY <1>2
  <2>3. written * MaxBlocks <= MaxFrames * MaxBlocks /\ written * MaxBlocks \in Nat
    BY <1>2
  <2> QED
    BY <1>2, <1>3, <2>1, <2>2, <2>3 DEF NoWrap
<1>6. Plus(WR, 1) = WR + 1
  BY <1>2, <1>5, SmallRemainder DEF Plus
<1> QED
  BY <1>1, <1>4, <1>5, <1>6

\* Writing a block keeps the invariant: it falls outside of what waits.
LEMMA WriteKeepsInv ==
  ASSUME NoWrap, FifoInv, WriteBlock
  PROVE  FifoInv'
<1> DEFINE f == Head(writing)
           block == BlockOf(f, part)
<1>1. /\ FifoTypeOK /\ Partial /\ Room /\ Count /\ FlushedOff /\ Framed
      /\ pc = "write" /\ ~Flushing /\ RD <= last_ready
  BY DEF FifoInv, WriteBlock, Flushing
<1>2. /\ writing # <<>> /\ part <= f.size
      /\ WR < RD + Blocks /\ Plus(WR, 1) = WR + 1 /\ WR + 1 < Word
  BY <1>1, RoomForBlock
<1>3. /\ data' = [data EXCEPT ![Place(WR)] = block]
      /\ WR' = WR + 1 /\ part' = part + 1
      /\ pc' = IF part = f.size THEN "publish" ELSE "write"
      /\ UNCHANGED <<RD, last_ready, writing, written, radio, sent>>
  BY <1>2 DEF WriteBlock
<1>4. /\ WR \in Nat /\ RD \in Nat /\ last_ready \in Nat /\ part \in Nat \ {0}
      /\ WR = last_ready + part - 1
      /\ written \in Nat /\ Len(writing) \in Nat
      /\ f \in Frames /\ f.size \in Nat /\ f.size <= MaxBlocks
      /\ MaxBlocks \in Nat /\ Blocks \in Nat /\ Word \in Nat
  BY <1>1, <1>2, Types DEF Partial
<1>5. block \in Block
  BY <1>2, <1>4 DEF BlockOf, Block, Frames, Sizes
<1>6. FifoTypeOK'
  <2>1. data' \in [0 .. Blocks - 1 -> Block]
    BY <1>1, <1>3, <1>5 DEF FifoTypeOK
  <2>2. WR' \in Pointers /\ part' \in 1 .. MaxBlocks + 1
    BY <1>2, <1>3, <1>4 DEF Pointers
  <2> QED
    BY <1>1, <1>3, <2>1, <2>2 DEF FifoTypeOK, Pointers
<1>7. /\ data'[Place(WR)] = block
      /\ \A p \in Nat : RD <= p /\ p < WR => data'[Place(p)] = data[Place(p)]
  <2>1. \A p \in Nat : RD <= p /\ p < WR => WR - p < Blocks
    BY <1>2, <1>4
  <2> QED
    BY <1>1, <1>3, <2>1, RingWrite
<1>8. Framed'
  <2> SUFFICES ASSUME NEW p \in RD .. last_ready - 1
               PROVE  LET first == p - At(p).part + 1 IN
                      /\ At(p).part <= At(p).size
                      /\ data'[Place(p)] = At(p)
                      /\ RD <= first /\ first + At(p).size <= last_ready
                      /\ \A k \in 1 .. At(p).size :
                           data'[Place(first + k - 1)] = [At(p) EXCEPT !.part = k]
    BY <1>3 DEF Framed, At
  <2> DEFINE first == p - At(p).part + 1
  <2>1. p \in Nat /\ RD <= p /\ p < WR /\ data'[Place(p)] = At(p)
    BY <1>4, <1>7 DEF At
  <2>2. /\ At(p).part <= At(p).size
        /\ RD <= first /\ first + At(p).size <= last_ready
        /\ \A k \in 1 .. At(p).size : At(first + k - 1) = [At(p) EXCEPT !.part = k]
    BY <1>1 DEF Framed
  <2>3. At(p).size \in Nat /\ first \in Int
    BY <1>1, <2>1, BlockAt
  <2>4. ASSUME NEW k \in 1 .. At(p).size
        PROVE  data'[Place(first + k - 1)] = At(first + k - 1)
    <3> HIDE DEF first
    <3>1. first + k - 1 \in Nat /\ RD <= first + k - 1 /\ first + k - 1 < WR
      <4>1. RD <= first /\ first + At(p).size <= last_ready
        BY <2>2
      <4> QED
        BY <1>4, <2>3, <4>1
    <3> QED
      BY <1>7, <3>1 DEF At
  <2> QED
    BY <2>1, <2>2, <2>4
<1>9. Partial'
  <2>1. ASSUME NEW k \in 1 .. part
        PROVE  data'[Place(last_ready + k - 1)] = BlockOf(f, k)
    <3>1. CASE k = part
      BY <1>4, <1>7, <3>1
    <3>2. CASE k < part
      <4>1. /\ k \in 1 .. part - 1
            /\ last_ready + k - 1 \in Nat
            /\ RD <= last_ready + k - 1 /\ last_ready + k - 1 < WR
        BY <1>1, <1>4, <3>2
      <4>2. At(last_ready + k - 1) = BlockOf(f, k)
        BY <1>1, <1>2, <4>1 DEF Partial
      <4> QED
        BY <1>7, <4>1, <4>2 DEF At
    <3> QED
      BY <1>4, <3>1, <3>2
  <2>2. part' - 1 = part /\ WR' = last_ready' + part' - 1
    BY <1>3, <1>4
  <2> QED
    BY <1>2, <1>3, <1>4, <2>1, <2>2 DEF Partial, Writing, At
<1>10. Room' /\ Count'
  <2>1. (Len(writing) * MaxBlocks) \in Int
        /\ ((written - Len(writing)) * MaxBlocks) \in Int
    BY <1>4
  <2> QED
    BY <1>1, <1>3, <1>4, <2>1 DEF Room, Count
<1>11. FlushedOff' /\ (RD <= last_ready)' /\ OnlyWholeFramesSent'
  BY <1>1, <1>3 DEF FifoInv, FlushedOff, Flushing, OnlyWholeFramesSent
<1> QED
  BY <1>6, <1>8, <1>9, <1>10, <1>11 DEF FifoInv

\* Publishing a frame keeps the invariant: its blocks, all written, join those
\* that wait.
LEMMA PublishKeepsInv ==
  ASSUME FifoInv, Publish
  PROVE  FifoInv'
<1> DEFINE f == Head(writing)
<1>1. /\ FifoTypeOK /\ Partial /\ Room /\ Count /\ FlushedOff /\ Framed
      /\ pc = "publish" /\ ~Flushing /\ RD <= last_ready
  BY DEF FifoInv, Publish, Flushing
<1>2. writing # <<>> /\ part = f.size + 1
  BY <1>1 DEF Partial, Writing
<1>3. /\ last_ready' = WR /\ writing' = Tail(writing) /\ part' = 1
      /\ pc' = IF Len(writing) = 1 THEN "idle" ELSE "write"
      /\ UNCHANGED <<data, WR, RD, written, radio, sent>>
  BY DEF Publish
<1>4. /\ WR \in Nat /\ RD \in Nat /\ last_ready \in Nat
      /\ WR = last_ready + f.size
      /\ written \in Nat /\ Len(writing) \in Nat /\ Len(writing) >= 1
      /\ f \in Frames /\ f.size \in Nat /\ f.size <= MaxBlocks
      /\ MaxBlocks \in Nat \ {0} /\ Blocks \in Nat
  <2>1. /\ WR \in Nat /\ RD \in Nat /\ last_ready \in Nat
        /\ written \in Nat /\ Len(writing) \in Nat /\ Len(writing) >= 1
        /\ f \in Frames /\ f.size \in Nat /\ f.size <= MaxBlocks
        /\ MaxBlocks \in Nat \ {0} /\ Blocks \in Nat
    BY <1>1, <1>2, Types
  <2>2. WR = last_ready + part - 1
    BY <1>1 DEF Partial
  <2> HIDE DEF f
  <2>3. WR = last_ready + f.size
    BY <1>2, <2>1, <2>2
  <2> QED
    BY <2>1, <2>3
<1>5. /\ writing' \in Seq(Frames) /\ Len(writing') = Len(writing) - 1
      /\ writing' = <<>> <=> Len(writing) = 1
      /\ writing' # <<>> => Head(writing').size \in Sizes
  <2>1. writing \in Seq(Frames)
    BY <1>1 DEF FifoTypeOK
  <2>2. writing' \in Seq(Frames) /\ Len(writing') = Len(writing) - 1
    BY <1>2, <1>3, <2>1, HeadTailProperties
  <2>3. writing' = <<>> <=> Len(writing') = 0
    BY <2>2, EmptySeq
  <2>4. writing' # <<>> => Head(writing') \in Frames
    BY <2>2, HeadTailProperties
  <2> QED
    BY <1>4, <2>2, <2>3, <2>4 DEF Frames
<1>6. FifoTypeOK'
  <2>1. part' \in 1 .. MaxBlocks + 1 /\ Len(writing') <= MaxSegments
    <3>1. Len(writing) <= MaxSegments /\ MaxSegments \in Nat
      BY <1>1, RingAssumption DEF FifoTypeOK
    <3> QED
      BY <1>3, <1>4, <1>5, <3>1
  <2> QED
    BY <1>1, <1>3, <1>5, <2>1 DEF FifoTypeOK
<1>7. ASSUME NEW k \in 1 .. f.size
      PROVE  At(last_ready + k - 1) = BlockOf(f, k)
  <2>1. k \in 1 .. part - 1
    BY <1>2, <1>4
  <2> QED
    BY <1>1, <1>2, <2>1 DEF Partial
<1>8. Framed'
  <2> SUFFICES ASSUME NEW p \in RD .. WR - 1
               PROVE  LET first == p - At(p).part + 1 IN
                      /\ At(p).part <= At(p).size
                      /\ RD <= first /\ first + At(p).size <= WR
                      /\ \A k \in 1 .. At(p).size :
                           At(first + k - 1) = [At(p) EXCEPT !.part = k]
    BY <1>3 DEF Framed, At
  <2>1. CASE p < last_ready
    <3> DEFINE first == p - At(p).part + 1
    <3>1. p \in RD .. last_ready - 1 /\ p \in Nat
      BY <1>4, <2>1
    <3>2. /\ At(p).part <= At(p).size
          /\ RD <= first /\ first + At(p).size <= last_ready
          /\ \A k \in 1 .. At(p).size : At(first + k - 1) = [At(p) EXCEPT !.part = k]
      BY <1>1, <3>1 DEF Framed
    <3>3. At(p).size \in Nat /\ first \in Int
      BY <1>1, <3>1, BlockAt
    <3>4. first + At(p).size <= WR
      <4> HIDE DEF first
      <4> DEFINE size == At(p).size
      <4>1. first + size <= last_ready /\ size \in Nat /\ first \in Int
        BY <3>2, <3>3
      <4>2. last_ready <= WR /\ last_ready \in Nat /\ WR \in Nat
        BY <1>4
      <4> HIDE DEF size
      <4>3. first + size <= WR
        BY <4>1, <4>2
      <4> QED
        BY <4>3 DEF size
    <3> QED
      BY <3>2, <3>4
  <2>2. CASE p >= last_ready
    <3> DEFINE j == p - last_ready + 1
    <3>1. j \in 1 .. f.size /\ last_ready + j - 1 = p
      BY <1>4, <2>2
    <3>2. At(p) = BlockOf(f, j)
      BY <1>7, <3>1
    <3>3. At(p).part = j /\ At(p).size = f.size
      BY <3>2 DEF BlockOf
    <3>4. \A k \in 1 .. f.size : BlockOf(f, k) = [At(p) EXCEPT !.part = k]
      BY <3>2 DEF BlockOf
    <3>5. p - j + 1 = last_ready /\ j <= f.size /\ last_ready + f.size <= WR
      BY <1>4, <3>1
    <3> HIDE DEF j
    <3> QED
      BY <1>1, <1>7, <3>3, <3>4, <3>5
  <2> QED
    BY <1>4, <2>1, <2>2
<1>9. Partial'
  <2>1. WR' = last_ready' + part' - 1
    BY <1>3, <1>4
  <2>2. writing' = <<>> => pc' = "idle"
    BY <1>3, <1>5
  <2>3. writing' # <<>> => pc' = "write" /\ 1 <= Head(writing').size
    BY <1>3, <1>5, RingAssumption DEF Sizes
  <2>4. 1 .. part' - 1 = {}
    BY <1>3
  <2> QED
    BY <1>3, <2>1, <2>2, <2>3, <2>4 DEF Partial, Writing
<1>10. Room' /\ Count'
  <2> DEFINE n == Len(writing)
  <2>1. /\ (n - 1) * MaxBlocks = n * MaxBlocks - MaxBlocks /\ n * MaxBlocks \in Int
        /\ (written - (n - 1)) * MaxBlocks = (written - n) * MaxBlocks + MaxBlocks
        /\ (written - n) * MaxBlocks \in Int
    BY <1>4
  <2>2. /\ WR + n * MaxBlocks <= RD + Blocks + f.size
        /\ n <= written /\ WR <= (written - n) * MaxBlocks + f.size
    <3>1. part - 1 = f.size
      BY <1>2, <1>4
    <3> QED
      BY <1>1, <3>1 DEF Room, Count
  <2>3. /\ WR + (n - 1) * MaxBlocks <= RD + Blocks
        /\ n - 1 <= written /\ WR <= (written - (n - 1)) * MaxBlocks
    <3> DEFINE x == n * MaxBlocks
               y == (written - n) * MaxBlocks
    <3>1. /\ x \in Int /\ y \in Int /\ n \in Nat /\ (n - 1) * MaxBlocks = x - MaxBlocks
          /\ (written - (n - 1)) * MaxBlocks = y + MaxBlocks
      BY <1>4, <2>1
    <3>2. WR + x <= RD + Blocks + f.size /\ n <= written /\ WR <= y + f.size
      BY <2>2
    <3>3. /\ WR \in Nat /\ RD \in Nat /\ Blocks \in Nat /\ MaxBlocks \in Nat
          /\ f.size \in Nat /\ f.size <= MaxBlocks /\ written \in Nat
      BY <1>4
    <3> HIDE DEF x, y, n, f
    <3>4. WR + (x - MaxBlocks) <= RD + Blocks
      BY <3>1, <3>2, <3>3
    <3>5. n - 1 <= written /\ WR <= y + MaxBlocks
      BY <3>1, <3>2, <3>3
    <3> QED
      BY <3>1, <3>4, <3>5
  <2> HIDE DEF n
  <2>4. part' - 1 = 0 /\ Len(writing') = n - 1
    BY <1>3, <1>5 DEF n
  <2>5. RD + Blocks + 0 = RD + Blocks
        /\ (written - (n - 1)) * MaxBlocks + 0 = (written - (n - 1)) * MaxBlocks
    BY <1>4, <1>5 DEF n
  <2> QED
    BY <1>3, <2>3, <2>4, <2>5 DEF Room, Count
<1>11. FlushedOff' /\ (RD <= last_ready)' /\ OnlyWholeFramesSent'
  BY <1>1, <1>3, <1>4 DEF FifoInv, FlushedOff, Flushing, OnlyWholeFramesSent
<1> QED
  BY <1>6, <1>8, <1>9, <1>10, <1>11 DEF FifoInv

-----------------------------------------------------------------------------
(***************************************************************************)
(* Switching the radio, and the flush that goes with it.                   *)
(***************************************************************************)

\* Switching the radio off, or on again, touches nothing of the FIFO.
LEMMA SwitchKeepsInv ==
  ASSUME FifoInv, RadioOff \/ RadioOn
  PROVE  FifoInv'
<1>1. /\ FifoTypeOK /\ Count /\ FlushedOff /\ Framed /\ Partial /\ Room
      /\ ~Flushing /\ ~Writing /\ RD <= last_ready /\ OnlyWholeFramesSent
  BY DEF FifoInv, RadioOff, RadioOn, Flushing, Writing
<1>2. /\ UNCHANGED <<data, WR, RD, last_ready, writing, part, written, sent>>
      /\ pc' = "idle" /\ radio' \in BOOLEAN
  BY DEF RadioOff, RadioOn, ring, main
<1>3. FifoTypeOK'
  BY <1>1, <1>2 DEF FifoTypeOK
<1>4. Partial'
  BY <1>1, <1>2 DEF Partial, Writing
<1>5. Framed' /\ Room' /\ Count' /\ OnlyWholeFramesSent'
  BY <1>1, <1>2 DEF Framed, At, Room, Count, OnlyWholeFramesSent
<1>6. FlushedOff' /\ (RD <= last_ready)'
  BY <1>1, <1>2 DEF FlushedOff, Flushing
<1> QED
  BY <1>3, <1>4, <1>5, <1>6 DEF FifoInv

\* The three assignments of the flush keep the invariant: none of them needs
\* the order of the pointers, and after the last one they are all 0.
LEMMA FlushKeepsInv ==
  ASSUME FifoInv, RadioOnFlush \/ FlushRD \/ FlushLastReady
  PROVE  FifoInv'
<1>1. FifoTypeOK /\ Count /\ FlushedOff /\ OnlyWholeFramesSent
  BY DEF FifoInv
<1>2. /\ writing = <<>> /\ part = 1 /\ ~radio /\ Len(writing) = 0
      /\ UNCHANGED <<data, writing, part, written, radio, sent>>
  <2>1. CASE RadioOnFlush
    BY <2>1, AtRest DEF RadioOnFlush, FlushWR, Flushing, Writing
  <2>2. CASE FlushRD \/ FlushLastReady
    BY <1>1, <2>2 DEF FlushedOff, Flushing, FlushRD, FlushLastReady
  <2> QED
    BY <2>1, <2>2
<1>3. 0 \in Pointers /\ written * MaxBlocks \in Nat /\ written \in Nat /\ Blocks \in Nat
  BY <1>1, Types DEF Pointers
<1>4. OnlyWholeFramesSent'
  BY <1>1, <1>2 DEF OnlyWholeFramesSent
<1>5. ASSUME WR' = 0 PROVE Count'
  <2>1. (written - 0) * MaxBlocks + (1 - 1) = written * MaxBlocks
    BY <1>1, <1>3, Types
  <2>2. Len(writing') = 0 /\ part' = 1 /\ written' = written
    BY <1>2
  <2> QED
    BY <1>3, <1>5, <2>1, <2>2 DEF Count
<1>6. CASE RadioOnFlush
  <2>1. WR' = 0 /\ pc' = "flush RD" /\ UNCHANGED <<RD, last_ready>>
    BY <1>6 DEF RadioOnFlush, FlushWR
  <2>2. FifoTypeOK'
    BY <1>1, <1>2, <1>3, <2>1 DEF FifoTypeOK
  <2>3. FlushedOff' /\ Flushing'
    BY <1>2, <2>1 DEF FlushedOff, Flushing
  <2>4. Count'
    BY <1>5, <2>1
  <2> QED
    BY <1>4, <2>2, <2>3, <2>4 DEF FifoInv
<1>7. CASE FlushRD
  <2>1. /\ RD' = 0 /\ pc' = "flush last_ready" /\ UNCHANGED <<WR, last_ready>>
        /\ WR = 0
    BY <1>1, <1>7 DEF FlushRD, FlushedOff, Flushing
  <2>2. FifoTypeOK'
    BY <1>1, <1>2, <1>3, <2>1 DEF FifoTypeOK
  <2>3. FlushedOff' /\ Flushing'
    BY <1>2, <2>1 DEF FlushedOff, Flushing
  <2>4. Count'
    BY <1>5, <2>1
  <2> QED
    BY <1>4, <2>2, <2>3, <2>4 DEF FifoInv
<1>8. CASE FlushLastReady
  <2>1. /\ last_ready' = 0 /\ pc' = "radio on" /\ UNCHANGED <<WR, RD>>
        /\ WR = 0 /\ RD = 0
    BY <1>1, <1>2, <1>8 DEF FlushLastReady, FlushedOff, Flushing
  <2>2. FifoTypeOK'
    BY <1>1, <1>2, <1>3, <2>1 DEF FifoTypeOK
  <2>3. FlushedOff' /\ ~Flushing'
    BY <1>2, <2>1 DEF FlushedOff, Flushing
  <2>4. /\ WR' = 0 /\ RD' = 0 /\ last_ready' = 0 /\ pc' = "radio on"
        /\ writing' = <<>> /\ part' = 1 /\ Len(writing') = 0
    BY <1>2, <2>1
  <2>5. Count' /\ (RD <= last_ready)'
    <3>1. 0 <= 0
      OBVIOUS
    <3>2. RD' <= last_ready'
      BY <2>4, <3>1, Zenon
    <3> QED
      BY <1>5, <2>4, <3>2
  <2>6. Framed'
    <3>1. \A p : ~(p \in 0 .. 0 - 1)
      OBVIOUS
    <3> QED
      BY <2>1, <2>4, <3>1 DEF Framed
  <2>7. Partial'
    <3>1. 0 = 0 + 1 - 1
      OBVIOUS
    <3> QED
      BY <2>4, <3>1 DEF Partial, Writing
  <2>8. Room'
    <3>1. 0 + 0 * MaxBlocks = 0 /\ 0 <= 0 + Blocks + (1 - 1)
      BY RingAssumption
    <3> QED
      BY <2>4, <3>1 DEF Room
  <2> QED
    BY <1>4, <2>2, <2>3, <2>5, <2>6, <2>7, <2>8 DEF FifoInv
<1> QED
  BY <1>6, <1>7, <1>8

-----------------------------------------------------------------------------
(***************************************************************************)
(* The interrupt.                                                          *)
(***************************************************************************)

\* What waits starts with a whole frame, and the interrupt reads its size.
LEMMA FrameAtRD ==
  ASSUME FifoInv, radio \/ pc = "idle", Available
  PROVE  /\ ~Flushing /\ RD \in Nat /\ At(RD) \in Block /\ At(RD).part = 1
         /\ At(RD).size \in Sizes
         /\ SizesAt(RD) = {At(RD).size}
         /\ RD + At(RD).size <= last_ready
         /\ \A k \in 1 .. At(RD).size :
              /\ Plus(RD, k - 1) = RD + k - 1
              /\ At(RD + k - 1) = [At(RD) EXCEPT !.part = k]
         /\ Plus(RD, At(RD).size) = RD + At(RD).size
<1> DEFINE b == At(RD)
<1>1. /\ FifoTypeOK /\ FlushedOff /\ ~Flushing
  BY DEF FifoInv, FlushedOff, Flushing
<1>2. /\ RD \in Nat /\ last_ready \in Nat /\ last_ready < Word /\ Word \in Nat \ {0}
      /\ b \in Block /\ b.part \in Nat \ {0} /\ b.size \in Nat \ {0}
  BY <1>1, Types, BlockAt
<1>3. RD \in RD .. last_ready - 1
  BY <1>2 DEF Available
<1>4. /\ b.part <= b.size
      /\ RD <= RD - b.part + 1 /\ RD - b.part + 1 + b.size <= last_ready
      /\ \A k \in 1 .. b.size :
           At(RD - b.part + 1 + k - 1) = [b EXCEPT !.part = k]
  BY <1>1, <1>3 DEF FifoInv, Framed
<1>5. b.part = 1
  <2> DEFINE n == b.part
  <2>1. n \in Nat \ {0} /\ RD <= RD - n + 1
    BY <1>2, <1>4
  <2> HIDE DEF n
  <2>2. n = 1
    BY <1>2, <2>1
  <2> QED
    BY <2>2 DEF n
<1>6. RD - 1 + 1 = RD
  BY <1>2
<1>7. /\ RD + b.size <= last_ready
      /\ \A k \in 1 .. b.size : At(RD + k - 1) = [b EXCEPT !.part = k]
  BY <1>4, <1>5, <1>6
<1>8. ASSUME NEW n \in Nat, n <= b.size PROVE Plus(RD, n) = RD + n
  <2>1. RD + n \in Nat /\ RD + n < Word
    BY <1>2, <1>7, <1>8
  <2> QED
    BY <1>2, <2>1, SmallRemainder DEF Plus
<1>9. ASSUME NEW k \in 1 .. b.size PROVE Plus(RD, k - 1) = RD + k - 1
  <2>1. k - 1 \in Nat /\ k - 1 <= b.size /\ RD + (k - 1) = RD + k - 1
    BY <1>2
  <2> QED
    BY <1>8, <2>1
<1>10. b.size \in Sizes /\ SizesAt(RD) = {b.size}
  BY <1>2, <1>5 DEF Block, SizesAt
<1> QED
  BY <1>1, <1>2, <1>5, <1>7, <1>8, <1>9, <1>10

\* The frame at RD leaves: what waits behind it is still whole, for no frame
\* begins inside of another.
LEMMA AdvanceKeepsInv ==
  ASSUME FifoInv, radio \/ pc = "idle", Available, RD' = RD + At(RD).size,
         UNCHANGED <<data, WR, last_ready, main, radio>>,
         sent' \in Seq(Block), Len(sent') <= MaxBlocks, OnlyWholeFramesSent'
  PROVE  FifoInv'
<1> DEFINE b == At(RD)
           size == b.size
<1>1. /\ FifoTypeOK /\ FlushedOff /\ ~Flushing /\ Partial /\ Room /\ Count /\ Framed
  BY FrameAtRD DEF FifoInv
<1>2. UNCHANGED <<pc, writing, part, written, data, WR, last_ready, radio>>
  BY DEF main
<1>3. /\ RD \in Nat /\ last_ready \in Nat /\ WR \in Nat /\ last_ready < Word
      /\ part \in Nat /\ Blocks \in Nat /\ Len(writing) * MaxBlocks \in Nat
      /\ Word \in Nat
  BY <1>1, Types
<1>4. /\ b \in Block /\ b.part = 1 /\ size \in Nat \ {0}
      /\ RD + size <= last_ready /\ RD' = RD + size
      /\ \A k \in 1 .. size : At(RD + k - 1) = [b EXCEPT !.part = k]
  BY FrameAtRD, RingAssumption DEF Sizes
<1> HIDE DEF size
<1>5. FifoTypeOK'
  <2>1. RD' \in Pointers
    BY <1>3, <1>4 DEF Pointers
  <2> QED
    BY <1>1, <1>2, <2>1 DEF FifoTypeOK
<1>6. FlushedOff' /\ ~Flushing'
  BY <1>1, <1>2 DEF FlushedOff, Flushing
<1>7. Count' /\ Partial' /\ (RD <= last_ready)'
  <2>1. Count'
    BY <1>1, <1>2 DEF Count
  <2>2. Partial'
    BY <1>1, <1>2 DEF Partial, Writing, At
  <2> QED
    BY <1>2, <1>4, <2>1, <2>2
<1>8. Room'
  <2> DEFINE x == Len(writing) * MaxBlocks
  <2>1. /\ WR + x <= RD + Blocks + (part - 1)
        /\ x \in Nat /\ WR \in Nat /\ RD \in Nat /\ part \in Nat /\ Blocks \in Nat
        /\ size \in Nat
    BY <1>1, <1>3, <1>4 DEF Room
  <2> HIDE DEF x
  <2>2. WR + x <= RD + size + Blocks + (part - 1)
    BY <2>1
  <2> QED
    BY <1>2, <1>4, <2>2 DEF Room, x
<1>9. ASSUME NEW p \in RD + size .. last_ready - 1
      PROVE  LET first == p - At(p).part + 1 IN
             /\ At(p).part <= At(p).size
             /\ RD + size <= first /\ first + At(p).size <= last_ready
             /\ \A k \in 1 .. At(p).size : At(first + k - 1) = [At(p) EXCEPT !.part = k]
  <2> DEFINE first == p - At(p).part + 1
             j == first - RD + 1
  <2>1. p \in RD .. last_ready - 1 /\ p \in Nat
    BY <1>3, <1>4
  <2>2. /\ At(p).part <= At(p).size
        /\ RD <= first /\ first + At(p).size <= last_ready
        /\ \A k \in 1 .. At(p).size : At(first + k - 1) = [At(p) EXCEPT !.part = k]
    BY <1>1, <2>1 DEF Framed
  <2>3. /\ At(p) \in Block /\ At(p).part \in Nat \ {0} /\ At(p).size \in Nat \ {0}
        /\ first \in Int
    <3>1. /\ p \in Nat
          /\ At(p) \in Block /\ At(p).part \in Nat \ {0} /\ At(p).size \in Nat \ {0}
      BY <1>1, <2>1, BlockAt
    <3> QED
      BY <3>1
  <2>4. At(first) = [At(p) EXCEPT !.part = 1]
    <3>1. 1 \in 1 .. At(p).size
      BY <2>3
    <3>2. At(first + 1 - 1) = [At(p) EXCEPT !.part = 1]
      BY <2>2, <3>1
    <3>3. first + 1 - 1 = first
      BY <2>3
    <3> QED
      BY <3>2, <3>3
  <2>5. At(first).part = 1 /\ At(first).size = At(p).size
    BY <2>3, <2>4 DEF Block
  <2>6. ASSUME first < RD + size PROVE FALSE
    <3>1. j \in 1 .. size /\ RD + j - 1 = first
      <4>1. /\ RD <= first /\ first < RD + size /\ first \in Int
            /\ RD \in Nat /\ size \in Nat
        BY <1>3, <1>4, <2>2, <2>3, <2>6
      <4> HIDE DEF first
      <4>2. first - RD + 1 \in 1 .. size /\ RD + (first - RD + 1) - 1 = first
        BY <4>1
      <4> QED
        BY <4>2
    <3> HIDE DEF j
    <3>2. At(first) = [b EXCEPT !.part = j]
      BY <1>4, <3>1
    <3>3. At(first).part = j /\ At(first).size = size
      BY <1>4, <3>2 DEF Block, size
    <3>4. first = RD /\ At(p).size = size
      BY <1>3, <2>3, <2>5, <3>1, <3>3
    <3>5. At(p).part <= size /\ p >= RD + size
      BY <1>3, <1>4, <2>2, <3>4
    <3>6. p - At(p).part + 1 = RD
      BY <3>4
    <3> DEFINE m == At(p).part
    <3>7. m \in Nat /\ m <= size /\ p - m + 1 = RD
      BY <2>3, <3>5, <3>6
    <3>8. p \in Nat /\ RD \in Nat /\ size \in Nat /\ p >= RD + size
      BY <1>3, <1>4, <2>1, <3>5
    <3> HIDE DEF m, size
    <3> QED
      BY <3>7, <3>8
  <2>7. RD + size <= first
    <3> HIDE DEF first
    <3> QED
      BY <1>3, <1>4, <2>3, <2>6
  <2> QED
    BY <2>2, <2>7
<1>10. Framed'
  BY <1>2, <1>4, <1>9 DEF Framed, At
<1> QED
  BY <1>5, <1>6, <1>7, <1>8, <1>10 DEF FifoInv

\* Giving up the oldest frame, and sending it, keep the invariant.
LEMMA InterruptKeepsInv ==
  ASSUME FifoInv, Interrupt
  PROVE  FifoInv'
<1> DEFINE b == At(RD)
<1>1. (radio \/ pc = "idle") /\ Available /\ FifoTypeOK
  BY DEF Interrupt, Purge, Send, FifoInv
<1>2. /\ b \in Block /\ b.size \in 1 .. MaxBlocks /\ SizesAt(RD) = {b.size}
      /\ Plus(RD, b.size) = RD + b.size
      /\ \A k \in 1 .. b.size :
           /\ Plus(RD, k - 1) = RD + k - 1
           /\ At(RD + k - 1) = [b EXCEPT !.part = k]
      /\ b.part = 1
  BY <1>1, FrameAtRD DEF Sizes
<1>3. RD' = RD + b.size /\ UNCHANGED <<data, WR, last_ready, main, radio>>
  BY <1>2 DEF Interrupt, Purge, Send
<1>4. CASE Purge
  <2>1. sent' = sent
    BY <1>4 DEF Purge
  <2>2. sent' \in Seq(Block) /\ Len(sent') <= MaxBlocks
    BY <1>1, <2>1 DEF FifoTypeOK
  <2>3. OnlyWholeFramesSent'
    BY <2>1 DEF FifoInv, OnlyWholeFramesSent
  <2> QED
    BY <1>1, <1>3, <2>2, <2>3, AdvanceKeepsInv
<1>5. CASE Send
  <2> DEFINE n == b.size
  <2>1. sent' = [k \in 1 .. n |-> [b EXCEPT !.part = k]]
    BY <1>2, <1>5 DEF Send
  <2>2. n \in Nat \ {0} /\ n <= MaxBlocks /\ b \in Block
    BY <1>2, RingAssumption
  <2>3. \A k \in 1 .. n : [b EXCEPT !.part = k] \in Block
    BY <2>2, RingAssumption DEF Block, Sizes
  <2>4. sent' \in Seq(Block) /\ DOMAIN sent' = 1 .. n /\ Len(sent') = n
    <3>1. sent' \in [1 .. n -> Block]
      BY <2>1, <2>3
    <3>2. sent' \in Seq(Block)
      BY <2>2, <3>1, SeqDef
    <3> QED
      BY <2>2, <3>1, <3>2, LenProperties
  <2>5. sent'[1] = b
    <3>1. 1 \in 1 .. n
      BY <2>2
    <3>2. b = [b EXCEPT !.part = 1]
      BY <1>2 DEF Block
    <3> QED
      BY <2>1, <3>1, <3>2
  <2>6. \A k \in 1 .. n : sent'[k] = [sent'[1] EXCEPT !.part = k] /\ sent'[k].size = n
    BY <2>1, <2>2, <2>5 DEF Block
  <2>7. OnlyWholeFramesSent'
    BY <2>4, <2>6 DEF OnlyWholeFramesSent, WholeFrame
  <2> QED
    BY <1>1, <1>3, <2>2, <2>4, <2>7, AdvanceKeepsInv
<1> QED
  BY <1>4, <1>5 DEF Interrupt

-----------------------------------------------------------------------------
(***************************************************************************)
(* The invariant, and what follows from it.                                *)
(***************************************************************************)

\* The thresholds leave room for a packet and for a signaling frame.
LEMMA PushKeepsInv ==
  ASSUME FifoInv, Push
  PROVE  FifoInv'
<1>1. /\ Blocks \in Nat \ {0} /\ MaxBlocks \in Nat \ {0} /\ MaxSegments \in Nat \ {0}
      /\ LowThreshold \in Nat /\ HighThreshold \in Nat
      /\ LowThreshold + MaxSegments * MaxBlocks <= Blocks
      /\ HighThreshold + MaxBlocks <= Blocks
  BY RingAssumption, RoomAssumption
<1>2. ASSUME NEW n \in 1 .. MaxSegments, NEW last \in Sizes, PushPacket(n, last)
      PROVE  FifoInv'
  <2> DEFINE sizes == [k \in 1 .. n |-> IF k < n THEN MaxBlocks ELSE last]
  <2>1. n \in Nat /\ n >= 1 /\ n <= MaxSegments
    BY <1>1
  <2>2. sizes \in [1 .. n -> Sizes]
    BY <1>1 DEF Sizes
  <2>3. sizes \in Seq(Sizes)
    BY <2>1, <2>2, SeqDef
  <2>4. Len(sizes) = n
    BY <2>1, <2>2, <2>3, LenProperties
  <2>5. LowThreshold + n * MaxBlocks <= Blocks
    <3>1. n * MaxBlocks <= MaxSegments * MaxBlocks /\ n * MaxBlocks \in Nat
          /\ MaxSegments * MaxBlocks \in Nat
      BY <1>1, <2>1
    <3> QED
      BY <1>1, <3>1
  <2>6. ~Full(LowThreshold) /\ StartWriting(sizes)
    BY <1>2 DEF PushPacket
  <2> HIDE DEF sizes
  <2> QED
    BY <1>1, <2>1, <2>3, <2>4, <2>5, <2>6, StartKeepsInv
<1>3. ASSUME NEW size \in Sizes, PushSignaling(size)
      PROVE  FifoInv'
  <2> DEFINE sizes == <<size>>
  <2>1. sizes \in Seq(Sizes) /\ Len(sizes) = 1
    OBVIOUS
  <2>2. /\ Len(sizes) >= 1 /\ Len(sizes) <= MaxSegments
        /\ HighThreshold + Len(sizes) * MaxBlocks <= Blocks
    <3>1. 1 <= MaxSegments /\ HighThreshold + 1 * MaxBlocks <= Blocks
      BY <1>1
    <3> QED
      BY <2>1, <3>1
  <2>3. ~Full(HighThreshold) /\ StartWriting(sizes)
    BY <1>3 DEF PushSignaling
  <2> HIDE DEF sizes
  <2> QED
    BY <1>1, <2>1, <2>2, <2>3, StartKeepsInv
<1> QED
  BY <1>2, <1>3 DEF Push

\* The empty FIFO satisfies the invariant.
LEMMA InitInv ==
  ASSUME Init
  PROVE  FifoInv
<1>1. /\ Blocks \in Nat \ {0} /\ MaxBlocks \in Nat \ {0} /\ MaxSegments \in Nat \ {0}
      /\ Word \in Nat /\ Word > 2 * Blocks /\ MaxFrames \in Nat
  BY RingAssumption, WordAssumption
<1>2. /\ data = [i \in 0 .. Blocks - 1 |-> NoBlock]
      /\ WR = 0 /\ RD = 0 /\ last_ready = 0
      /\ pc = "idle" /\ writing = <<>> /\ part = 1 /\ written = 0
      /\ radio = TRUE /\ sent = <<>>
  BY DEF Init
<1>3. NoBlock \in Block
  BY <1>1 DEF NoBlock, Block, Sizes
<1>4. /\ 0 \in Pointers /\ 1 \in 1 .. MaxBlocks + 1 /\ 0 \in 0 .. MaxFrames
  BY <1>1 DEF Pointers
<1>5. FifoTypeOK
  <2>1. data \in [0 .. Blocks - 1 -> Block]
    BY <1>2, <1>3
  <2>2. /\ writing \in Seq(Frames) /\ Len(writing) <= MaxSegments
        /\ sent \in Seq(Block) /\ Len(sent) <= MaxBlocks
    BY <1>1, <1>2
  <2> QED
    BY <1>2, <1>4, <2>1, <2>2 DEF FifoTypeOK
<1>6. FlushedOff /\ ~Flushing
  BY <1>2 DEF FlushedOff, Flushing
<1>7. Count /\ Room
  <2>1. /\ 0 <= (0 - 0) * MaxBlocks + (1 - 1)
        /\ 0 + 0 * MaxBlocks <= 0 + Blocks + (1 - 1)
    BY <1>1
  <2>2. Len(writing) = 0
    BY <1>2
  <2> QED
    BY <1>2, <2>1, <2>2 DEF Count, Room
<1>8. Framed
  <2>1. \A p : ~(p \in 0 .. 0 - 1)
    OBVIOUS
  <2> QED
    BY <1>2, <2>1 DEF Framed
<1>9. Partial
  <2>1. 0 = 0 + 1 - 1
    OBVIOUS
  <2> QED
    BY <1>2, <2>1 DEF Partial, Writing
<1>10. OnlyWholeFramesSent
  <2>1. DOMAIN sent = {}
    BY <1>2
  <2> QED
    BY <2>1 DEF OnlyWholeFramesSent, WholeFrame
<1>11. RD <= last_ready
  BY <1>2
<1> QED
  BY <1>5, <1>6, <1>7, <1>8, <1>9, <1>10, <1>11 DEF FifoInv

\* Every step keeps the invariant while the pointers do not wrap.
LEMMA StepKeepsInv ==
  ASSUME NoWrap, FifoInv, [Next]_vars
  PROVE  FifoInv'
<1>1. CASE Push
  BY <1>1, PushKeepsInv
<1>2. CASE Write
  BY <1>2, WriteKeepsInv, PublishKeepsInv DEF Write
<1>3. CASE Switch
  BY <1>3, SwitchKeepsInv, FlushKeepsInv DEF Switch
<1>4. CASE Interrupt
  BY <1>4, InterruptKeepsInv
<1>5. CASE UNCHANGED vars
  <2>1. UNCHANGED <<data, WR, RD, last_ready, pc, writing, part, written, radio, sent>>
    BY <1>5 DEF vars, ring, main
  <2>2. FifoTypeOK'
    BY <2>1 DEF FifoInv, FifoTypeOK
  <2>3. FlushedOff' /\ Count' /\ OnlyWholeFramesSent'
    BY <2>1 DEF FifoInv, FlushedOff, Flushing, Count, OnlyWholeFramesSent
  <2>4. (~Flushing => RD <= last_ready /\ Framed /\ Partial /\ Room)'
    BY <2>1 DEF FifoInv, Flushing, Framed, Partial, Room, Writing, At
  <2> QED
    BY <2>2, <2>3, <2>4 DEF FifoInv
<1> QED
  BY <1>1, <1>2, <1>3, <1>4, <1>5 DEF Next

\* The inductive invariant: what waits between RD and last_ready are whole
\* frames end to end, behind them comes the part of the current frame that is
\* written, and what is still to write of the packet fits into the ring.
THEOREM FifoInvariant ==
  ASSUME NoWrap
  PROVE  Spec => []FifoInv
<1>1. Init => FifoInv
  BY InitInv
<1>2. FifoInv /\ [Next]_vars => FifoInv'
  BY NoWrap, StepKeepsInv
<1> QED
  BY <1>1, <1>2, PTL DEF Spec

\* Every variable keeps its type: no place outside of the ring is written.
THEOREM FifoTypes ==
  ASSUME NoWrap
  PROVE  Spec => []FifoTypeOK
<1>1. FifoInv => FifoTypeOK
  BY DEF FifoInv
<1> QED
  BY NoWrap, <1>1, FifoInvariant, PTL

\* The pointers of the main loop and of the interrupt stay in order and never
\* further apart than the ring is long, at every step of a push: what waits is
\* never overwritten.
THEOREM PointersStayInOrder ==
  ASSUME NoWrap
  PROVE  Spec => []PointersInOrder
<1>1. FifoInv => PointersInOrder
  BY AtRest DEF PointersInOrder
<1> QED
  BY NoWrap, <1>1, FifoInvariant, PTL

\* What the interrupt sends is always one whole frame, wherever between the main
\* loop's steps it comes.
THEOREM WholeFramesSent ==
  ASSUME NoWrap
  PROVE  Spec => []OnlyWholeFramesSent
<1>1. FifoInv => OnlyWholeFramesSent
  BY DEF FifoInv
<1> QED
  BY NoWrap, <1>1, FifoInvariant, PTL

-----------------------------------------------------------------------------
(***************************************************************************)
(* The transmit FIFO implements the queue of frames TxQueue.  The queue is  *)
(* found in the ring by counting the first blocks of frames that wait.      *)
(***************************************************************************)

(* Counting in a finite set of numbers.                                     *)

\* The elements of S up to p, and how many they are.
UpTo(S, p) == {q \in S : q <= p}
Rank(S, p) == Cardinality(UpTo(S, p))

LEMMA RankInRange ==
  ASSUME NEW S \in SUBSET Nat, IsFiniteSet(S), NEW p \in S
  PROVE  Rank(S, p) \in 1 .. Cardinality(S) /\ IsFiniteSet(UpTo(S, p))
<1>1. UpTo(S, p) \in SUBSET S /\ p \in UpTo(S, p)
  BY DEF UpTo
<1>2. IsFiniteSet(UpTo(S, p)) /\ Rank(S, p) <= Cardinality(S)
  BY <1>1, FS_Subset DEF Rank
<1>3. Rank(S, p) \in Nat /\ Cardinality(S) \in Nat
  BY <1>2, FS_CardinalityType DEF Rank
<1>4. Rank(S, p) # 0
  BY <1>1, <1>2, FS_EmptySet DEF Rank
<1> QED
  BY <1>2, <1>3, <1>4

LEMMA RankGrows ==
  ASSUME NEW S \in SUBSET Nat, IsFiniteSet(S), NEW p \in S, NEW q \in S, p < q
  PROVE  Rank(S, p) < Rank(S, q)
<1>1. UpTo(S, p) \in SUBSET UpTo(S, q) /\ q \in UpTo(S, q) /\ q \notin UpTo(S, p)
  <2>1. p \in Nat /\ q \in Nat /\ q <= q /\ ~ (q <= p)
    OBVIOUS
  <2>2. ASSUME NEW r \in S, r <= p PROVE r <= q
    <3>1. r \in Nat
      OBVIOUS
    <3> QED
      BY <2>1, <2>2, <3>1
  <2> QED
    BY <2>1, <2>2 DEF UpTo
<1>2. IsFiniteSet(UpTo(S, q)) /\ Rank(S, p) \in Nat /\ Rank(S, q) \in Nat
  BY RankInRange
<1>3. Rank(S, p) <= Rank(S, q) /\ Rank(S, p) # Rank(S, q)
  BY <1>1, <1>2, FS_Subset DEF Rank
<1> QED
  BY <1>2, <1>3

LEMMA RankTellsApart ==
  ASSUME NEW S \in SUBSET Nat, IsFiniteSet(S), NEW p \in S, NEW q \in S,
         Rank(S, p) = Rank(S, q)
  PROVE  p = q
<1>1. p \in Nat /\ q \in Nat /\ Rank(S, p) \in Nat
  BY RankInRange
<1>2. ~ (p < q) /\ ~ (q < p)
  BY <1>1, RankGrows
<1> QED
  BY <1>1, <1>2

\* Each rank is that of an element.
LEMMA RankIsOf ==
  ASSUME NEW S \in SUBSET Nat, IsFiniteSet(S), NEW n \in 1 .. Cardinality(S)
  PROVE  \E p \in S : Rank(S, p) = n
<1> DEFINE N == Cardinality(S)
           f == [p \in S |-> Rank(S, p)]
<1>1. N \in Nat
  BY FS_CardinalityType
<1>2. IsFiniteSet(1 .. N) /\ Cardinality(1 .. N) = N
  BY <1>1, FS_Interval
<1>3. f \in Injection(S, 1 .. N)
  <2>1. f \in [S -> 1 .. N]
    BY RankInRange
  <2>2. \A p, q \in S : f[p] = f[q] => p = q
    BY RankTellsApart
  <2> QED
    BY <2>1, <2>2 DEF Injection, IsInjective
<1>4. f \in Surjection(S, 1 .. N)
  BY <1>2, <1>3, FS_Injection
<1> QED
  BY <1>4 DEF Surjection

\* A largest element is added.
LEMMA RankWhenAdded ==
  ASSUME NEW S \in SUBSET Nat, IsFiniteSet(S), NEW x \in Nat, \A p \in S : p < x
  PROVE  /\ IsFiniteSet(S \cup {x}) /\ Cardinality(S \cup {x}) = Cardinality(S) + 1
         /\ Rank(S \cup {x}, x) = Cardinality(S) + 1
         /\ \A p \in S : Rank(S \cup {x}, p) = Rank(S, p)
<1> DEFINE T == S \cup {x}
<1>1. x \notin S
  OBVIOUS
<1>2. IsFiniteSet(T) /\ Cardinality(T) = Cardinality(S) + 1
  BY <1>1, FS_AddElement
<1>3. UpTo(T, x) = T
  <2>1. ASSUME NEW p \in T PROVE p <= x
    BY <2>1
  <2> QED
    BY <2>1 DEF UpTo
<1>4. \A p \in S : UpTo(T, p) = UpTo(S, p)
  BY DEF UpTo
<1> QED
  BY <1>2, <1>3, <1>4 DEF Rank

\* The smallest element is removed.
LEMMA RankWhenRemoved ==
  ASSUME NEW S \in SUBSET Nat, IsFiniteSet(S), NEW x \in S, \A p \in S : x <= p
  PROVE  /\ IsFiniteSet(S \ {x}) /\ Cardinality(S \ {x}) = Cardinality(S) - 1
         /\ Rank(S, x) = 1
         /\ \A p \in S \ {x} : Rank(S, p) = Rank(S \ {x}, p) + 1
<1> DEFINE T == S \ {x}
<1>1. IsFiniteSet(T) /\ Cardinality(T) = Cardinality(S) - 1
  BY FS_RemoveElement
<1>2. UpTo(S, x) = {x}
  <2>1. x <= x
    OBVIOUS
  <2>2. ASSUME NEW p \in S, p <= x PROVE p = x
    <3>1. p \in Nat /\ x \in Nat /\ x <= p
      OBVIOUS
    <3> QED
      BY <2>2, <3>1
  <2> QED
    BY <2>1, <2>2 DEF UpTo
<1>3. Rank(S, x) = 1
  BY <1>2, FS_Singleton DEF Rank
<1>4. ASSUME NEW p \in T PROVE Rank(S, p) = Rank(T, p) + 1
  <2>1. UpTo(S, p) = UpTo(T, p) \cup {x} /\ x \notin UpTo(T, p)
    BY DEF UpTo
  <2>2. IsFiniteSet(UpTo(T, p))
    BY <1>1, RankInRange
  <2> QED
    BY <2>1, <2>2, FS_AddElement DEF Rank
<1> QED
  BY <1>1, <1>3, <1>4

-----------------------------------------------------------------------------
(* The frames that wait, by the positions of their first blocks.            *)

Headers == {p \in Waiting : At(p).part = 1}
FrameAt(p) == [serial |-> At(p).serial, size |-> At(p).size]

\* NthHeader is what its name says, and WaitingFrames is a sequence.
Listing ==
  /\ Headers \in SUBSET Nat /\ IsFiniteSet(Headers) /\ Cardinality(Headers) \in Nat
  /\ \A n \in 1 .. Cardinality(Headers) :
       NthHeader(n) \in Headers /\ Rank(Headers, NthHeader(n)) = n
  /\ WaitingFrames \in Seq({FrameAt(p) : p \in Headers})
  /\ Len(WaitingFrames) = Cardinality(Headers)
  /\ \A n \in 1 .. Cardinality(Headers) : WaitingFrames[n] = FrameAt(NthHeader(n))

LEMMA Listed == FifoTypeOK => Listing
<1> SUFFICES ASSUME FifoTypeOK PROVE Listing
  OBVIOUS
<1>1. RD \in Nat /\ last_ready \in Nat
  BY Types
<1>2. Waiting \in SUBSET Nat /\ IsFiniteSet(Waiting)
  <2>1. last_ready - 1 \in Int
    BY <1>1
  <2>2. IsFiniteSet(RD .. last_ready - 1) /\ IsFiniteSet({})
    BY <1>1, <2>1, FS_Interval, FS_EmptySet
  <2> QED
    BY <1>1, <2>2 DEF Waiting
<1>3. Headers \in SUBSET Nat /\ IsFiniteSet(Headers)
  BY <1>2, FS_Subset DEF Headers
<1>4. Cardinality(Headers) \in Nat
  BY <1>3, FS_CardinalityType
<1>5. ASSUME NEW n \in 1 .. Cardinality(Headers)
      PROVE  NthHeader(n) \in Headers /\ Rank(Headers, NthHeader(n)) = n
  <2>1. PICK p \in Headers : Rank(Headers, p) = n
    BY <1>3, RankIsOf
  <2>2. \A q : {r \in Waiting : r <= q /\ At(r).part = 1} = UpTo(Headers, q)
    BY DEF Headers, UpTo
  <2>3. /\ p \in Waiting /\ At(p).part = 1
        /\ Cardinality({r \in Waiting : r <= p /\ At(r).part = 1}) = n
    BY <2>1, <2>2 DEF Headers, Rank
  <2>4. /\ NthHeader(n) \in Waiting /\ At(NthHeader(n)).part = 1
        /\ Cardinality({r \in Waiting : r <= NthHeader(n) /\ At(r).part = 1}) = n
    BY <2>3, Zenon DEF NthHeader
  <2> QED
    BY <2>2, <2>4 DEF Headers, Rank
<1>6. WaitingFrames = [n \in 1 .. Cardinality(Headers) |-> FrameAt(NthHeader(n))]
  BY DEF WaitingFrames, Headers, FrameAt
<1>7. /\ WaitingFrames \in Seq({FrameAt(p) : p \in Headers})
      /\ Len(WaitingFrames) = Cardinality(Headers)
  <2> DEFINE N == Cardinality(Headers)
             T == {FrameAt(p) : p \in Headers}
  <2>1. N \in Nat /\ \A n \in 1 .. N : FrameAt(NthHeader(n)) \in T
    BY <1>4, <1>5
  <2>2. WaitingFrames = [n \in 1 .. N |-> FrameAt(NthHeader(n))]
    BY <1>6
  <2> HIDE DEF N, T
  <2>3. WaitingFrames \in [1 .. N -> T]
    BY <2>1, <2>2
  <2>4. WaitingFrames \in Seq(T)
    BY <2>1, <2>3, SeqDef
  <2>5. Len(WaitingFrames) = N
    BY <2>1, <2>3, <2>4, LenProperties
  <2> QED
    BY <2>4, <2>5 DEF N, T
<1> QED
  BY <1>3, <1>4, <1>5, <1>6, <1>7 DEF Listing

LEMMA ListedNext == FifoTypeOK' => Listing'
  BY Listed, PTL

\* The header of a rank.
LEMMA HeaderIs ==
  ASSUME Listing, NEW n \in 1 .. Cardinality(Headers), NEW p \in Headers,
         Rank(Headers, p) = n
  PROVE  NthHeader(n) = p
<1>1. /\ Headers \in SUBSET Nat /\ IsFiniteSet(Headers)
      /\ NthHeader(n) \in Headers /\ Rank(Headers, NthHeader(n)) = n
  BY DEF Listing
<1> QED
  BY <1>1, RankTellsApart

\* Two sequences of one length with the same elements are one.
LEMMA SeqsEqual ==
  ASSUME NEW S, NEW T, NEW s \in Seq(S), NEW t \in Seq(T), Len(s) = Len(t),
         \A n \in 1 .. Len(s) : s[n] = t[n]
  PROVE  s = t
  OBVIOUS

\* Nothing changes if no frame comes or goes and those that wait are left alone.
LEMMA SameFrames ==
  ASSUME Listing, Listing', Headers' = Headers,
         \A p \in Headers : FrameAt(p)' = FrameAt(p)
  PROVE  WaitingFrames' = WaitingFrames
<1>1. ASSUME NEW n \in 1 .. Cardinality(Headers) PROVE WaitingFrames'[n] = WaitingFrames[n]
  <2>1. PICK p : p = NthHeader(n)'
    OBVIOUS
  <2>2. p \in Headers /\ Rank(Headers, p) = n
    BY <2>1 DEF Listing, Rank, UpTo
  <2>3. p = NthHeader(n)
    BY <2>2, HeaderIs
  <2>4. WaitingFrames'[n] = FrameAt(p)'
    BY <2>1 DEF Listing, FrameAt, At
  <2> QED
    BY <2>2, <2>3, <2>4 DEF Listing
<1>2. Len(WaitingFrames') = Len(WaitingFrames) /\ Len(WaitingFrames) = Cardinality(Headers)
  BY DEF Listing
<1>3. /\ WaitingFrames \in Seq({FrameAt(p) : p \in Headers})
      /\ WaitingFrames' \in Seq({FrameAt(p)' : p \in Headers'})
  BY DEF Listing, FrameAt, At
<1> QED
  BY <1>1, <1>2, <1>3, SeqsEqual

\* The frame that is published comes last.
LEMMA OneFrameMore ==
  ASSUME Listing, Listing', NEW x \in Nat, Headers' = Headers \cup {x},
         \A p \in Headers : p < x /\ FrameAt(p)' = FrameAt(p)
  PROVE  WaitingFrames' = Append(WaitingFrames, FrameAt(x)')
<1> DEFINE N == Cardinality(Headers)
<1>1. Headers \in SUBSET Nat /\ IsFiniteSet(Headers) /\ N \in Nat
  BY DEF Listing
<1>2. /\ Cardinality(Headers') = N + 1 /\ Rank(Headers', x) = N + 1
      /\ \A p \in Headers : Rank(Headers', p) = Rank(Headers, p)
  <2>1. \A p \in Headers : p < x
    OBVIOUS
  <2>2. /\ Cardinality(Headers \cup {x}) = N + 1 /\ Rank(Headers \cup {x}, x) = N + 1
        /\ \A p \in Headers : Rank(Headers \cup {x}, p) = Rank(Headers, p)
    BY <1>1, <2>1, RankWhenAdded
  <2> QED
    BY <2>2
<1>3. ASSUME NEW n \in 1 .. N + 1
      PROVE  WaitingFrames'[n] = IF n = N + 1 THEN FrameAt(x)' ELSE WaitingFrames[n]
  <2>1. PICK p : p = NthHeader(n)'
    OBVIOUS
  <2>2. p \in Headers' /\ Rank(Headers', p) = n /\ WaitingFrames'[n] = FrameAt(p)'
    BY <1>2, <2>1 DEF Listing, Rank, UpTo, FrameAt, At
  <2>3. CASE p = x
    BY <1>1, <1>2, <2>2, <2>3
  <2>4. CASE p \in Headers
    <3>1. Rank(Headers, p) = n /\ n \in 1 .. N
      <4>1. Rank(Headers, p) \in 1 .. N
        BY <1>1, <2>4, RankInRange
      <4> QED
        BY <1>2, <2>2, <2>4, <4>1
    <3>2. NthHeader(n) = p
      BY <2>4, <3>1, HeaderIs
    <3>3. WaitingFrames[n] = FrameAt(p)
      BY <3>1, <3>2 DEF Listing
    <3>4. n # N + 1
      BY <1>1, <3>1
    <3> QED
      BY <2>2, <2>4, <3>3, <3>4
  <2> QED
    BY <2>2, <2>3, <2>4
<1>4. Len(WaitingFrames) = N /\ Len(WaitingFrames') = N + 1
  BY <1>2 DEF Listing
<1>5. PICK S : WaitingFrames \in Seq(S) /\ FrameAt(x)' \in S
  <2>1. WaitingFrames \in Seq({FrameAt(p) : p \in Headers})
    BY DEF Listing
  <2>2. WaitingFrames \in Seq({FrameAt(p) : p \in Headers} \cup {FrameAt(x)'})
    BY <2>1
  <2> QED
    BY <2>2
<1>6. PICK T : WaitingFrames' \in Seq(T)
  BY DEF Listing
<1> HIDE DEF N
<1>7. /\ Append(WaitingFrames, FrameAt(x)') \in Seq(S)
      /\ Len(Append(WaitingFrames, FrameAt(x)')) = N + 1
      /\ \A n \in 1 .. N + 1 : Append(WaitingFrames, FrameAt(x)')[n] =
                                 IF n = N + 1 THEN FrameAt(x)' ELSE WaitingFrames[n]
  BY <1>1, <1>4, <1>5, AppendProperties
<1> QED
  BY <1>3, <1>4, <1>6, <1>7, SeqsEqual

\* The frame that leaves was the first.
LEMMA OneFrameLess ==
  ASSUME Listing, Listing', NEW x \in Headers, Headers' = Headers \ {x},
         \A p \in Headers : x <= p /\ FrameAt(p)' = FrameAt(p)
  PROVE  /\ WaitingFrames # <<>> /\ Head(WaitingFrames) = FrameAt(x)
         /\ WaitingFrames' = Tail(WaitingFrames)
<1> DEFINE N == Cardinality(Headers)
<1>1. Headers \in SUBSET Nat /\ IsFiniteSet(Headers) /\ N \in Nat
  BY DEF Listing
<1>2. /\ Cardinality(Headers') = N - 1 /\ Rank(Headers, x) = 1
      /\ \A p \in Headers' : Rank(Headers, p) = Rank(Headers', p) + 1
  <2>1. \A p \in Headers : x <= p
    OBVIOUS
  <2>2. /\ Cardinality(Headers \ {x}) = N - 1 /\ Rank(Headers, x) = 1
        /\ \A p \in Headers \ {x} : Rank(Headers, p) = Rank(Headers \ {x}, p) + 1
    BY <1>1, <2>1, RankWhenRemoved
  <2> QED
    BY <2>2
<1>3. 1 \in 1 .. N
  BY <1>1, <1>2, RankInRange
<1>4. WaitingFrames[1] = FrameAt(x)
  <2>1. NthHeader(1) = x
    BY <1>2, <1>3, HeaderIs
  <2> QED
    BY <1>3, <2>1 DEF Listing
<1>5. ASSUME NEW n \in 1 .. N - 1
      PROVE  WaitingFrames'[n] = WaitingFrames[n + 1]
  <2>1. PICK p : p = NthHeader(n)'
    OBVIOUS
  <2>2. p \in Headers' /\ Rank(Headers', p) = n /\ WaitingFrames'[n] = FrameAt(p)'
    BY <1>2, <2>1 DEF Listing, Rank, UpTo, FrameAt, At
  <2>3. p \in Headers /\ Rank(Headers, p) = n + 1 /\ n + 1 \in 1 .. N
    BY <1>1, <1>2, <2>2
  <2>4. NthHeader(n + 1) = p
    BY <2>3, HeaderIs
  <2>5. WaitingFrames[n + 1] = FrameAt(p)
    BY <2>3, <2>4 DEF Listing
  <2> QED
    BY <2>2, <2>3, <2>5
<1>6. Len(WaitingFrames) = N /\ Len(WaitingFrames') = N - 1
  BY <1>2 DEF Listing
<1>7. PICK S : WaitingFrames \in Seq(S)
  BY DEF Listing
<1>8. PICK T : WaitingFrames' \in Seq(T)
  BY DEF Listing
<1> HIDE DEF N
<1>9. /\ WaitingFrames # <<>> /\ Head(WaitingFrames) = WaitingFrames[1]
      /\ Tail(WaitingFrames) \in Seq(S) /\ Len(Tail(WaitingFrames)) = N - 1
      /\ \A n \in 1 .. N - 1 : Tail(WaitingFrames)[n] = WaitingFrames[n + 1]
  BY <1>1, <1>3, <1>6, <1>7
<1>10. WaitingFrames' = Tail(WaitingFrames)
  BY <1>5, <1>6, <1>8, <1>9, SeqsEqual
<1> QED
  BY <1>4, <1>9, <1>10

-----------------------------------------------------------------------------
(* Steps of the FIFO and of the queue.                                      *)

\* The steps of the queue in these terms.
LEMMA QueueSteps ==
  /\ \A f \in Frames : WaitingFrames' = Append(WaitingFrames, f) /\ FrameSent' = FrameSent
                       => Queue!Next
  /\ /\ WaitingFrames # <<>> /\ FrameSent' = Head(WaitingFrames)
     /\ WaitingFrames' = Tail(WaitingFrames)
     => Queue!Next
  /\ /\ WaitingFrames # <<>> /\ WaitingFrames' = Tail(WaitingFrames)
     /\ FrameSent' = FrameSent
     => Queue!Next
  /\ WaitingFrames' = <<>> /\ FrameSent' = FrameSent => Queue!Next
  /\ WaitingFrames' = WaitingFrames /\ FrameSent' = FrameSent => UNCHANGED Queue!vars
BY DEF Queue!Next, Queue!Enter, Queue!Send, Queue!GiveUpOldest, Queue!Empty, Queue!vars

\* A step that neither sends nor touches what waits.
LEMMA QuietStep ==
  ASSUME Listing, Listing', UNCHANGED sent, Waiting' = Waiting,
         \A p \in Waiting : data'[Place(p)] = data[Place(p)]
  PROVE  UNCHANGED Queue!vars
<1>1. \A p \in Waiting : At(p)' = At(p)
  BY DEF At
<1>2. Headers' = Headers /\ \A p \in Headers : FrameAt(p)' = FrameAt(p)
  BY <1>1 DEF Headers, FrameAt
<1>3. WaitingFrames' = WaitingFrames
  BY <1>2, SameFrames
<1>4. FrameSent' = FrameSent
  BY DEF FrameSent
<1> QED
  BY <1>3, <1>4, QueueSteps

\* What is published is a frame, behind all others.
LEMMA PublishEnters ==
  ASSUME FifoInv, Listing, Listing', Publish
  PROVE  Queue!Next
<1> DEFINE f == Head(writing)
           x == last_ready
<1>1. /\ FifoTypeOK /\ Partial /\ pc = "publish" /\ ~Flushing /\ ~Flushing' /\ RD <= last_ready
      /\ writing # <<>>
  BY DEF FifoInv, Publish, Flushing, Partial, Writing
<1>2. /\ f \in Frames /\ f.size \in Nat /\ f.size >= 1 /\ part = f.size + 1
      /\ WR = x + f.size
      /\ \A k \in 1 .. f.size : At(x + k - 1) = BlockOf(f, k)
      /\ RD \in Nat /\ x \in Nat /\ WR \in Nat
  <2>1. /\ f \in Frames /\ f.size \in Nat /\ RD \in Nat /\ x \in Nat /\ WR \in Nat
    BY <1>1, Types
  <2>2. f.size >= 1
    BY <2>1, RingAssumption DEF Frames, Sizes
  <2>3. part = f.size + 1 /\ WR = x + part - 1
        /\ \A k \in 1 .. part - 1 : At(x + k - 1) = BlockOf(f, k)
    BY <1>1 DEF Partial
  <2> HIDE DEF f, x
  <2> QED
    BY <2>1, <2>2, <2>3
<1>3. /\ UNCHANGED <<data, RD, sent>> /\ last_ready' = WR
  BY DEF Publish
<1>4. Waiting = RD .. x - 1 /\ Waiting' = RD .. x + f.size - 1
  BY <1>1, <1>2, <1>3 DEF Waiting
<1>5. \A p : At(p)' = At(p) /\ FrameAt(p)' = FrameAt(p)
  BY <1>3 DEF At, FrameAt
<1>6. At(x).part = 1 /\ FrameAt(x) = f
  <2>1. 1 \in 1 .. f.size /\ x + 1 - 1 = x
    BY <1>2
  <2>2. At(x) = BlockOf(f, 1)
    BY <1>2, <2>1
  <2>3. f = [serial |-> f.serial, size |-> f.size]
    BY <1>2 DEF Frames
  <2> HIDE DEF f, x
  <2> QED
    BY <2>2, <2>3 DEF BlockOf, FrameAt
<1>7. ASSUME NEW p \in x + 1 .. x + f.size - 1 PROVE At(p).part # 1
  <2>1. PICK k \in 2 .. f.size : p = x + k - 1
    <3> DEFINE size == f.size
    <3>1. size \in Nat /\ x \in Nat /\ p \in x + 1 .. x + size - 1
      BY <1>2
    <3> HIDE DEF size, x
    <3>2. p - x + 1 \in 2 .. size /\ p = x + (p - x + 1) - 1
      BY <3>1
    <3> QED
      BY <3>2 DEF size, x
  <2>2. k \in 1 .. f.size /\ k # 1
    BY <1>2
  <2>3. At(p) = BlockOf(f, k)
    BY <1>2, <2>1, <2>2
  <2> QED
    BY <2>2, <2>3 DEF BlockOf
<1> HIDE DEF f
<1>8. Headers' = Headers \cup {x}
  <2>1. ASSUME NEW p PROVE p \in Waiting' <=> p \in Waiting \/ p = x \/ p \in x + 1 .. x + f.size - 1
    BY <1>1, <1>2, <1>4
  <2>2. \A p : p \in Waiting' /\ At(p).part = 1 <=> (p \in Waiting /\ At(p).part = 1) \/ p = x
    BY <1>6, <1>7, <2>1
  <2> QED
    BY <1>5, <2>2 DEF Headers
<1>9. \A p \in Headers : p < x /\ FrameAt(p)' = FrameAt(p)
  BY <1>2, <1>4, <1>5 DEF Headers
<1>10. WaitingFrames' = Append(WaitingFrames, f)
  <2>1. PICK y \in Nat : y = x
    BY <1>2
  <2>2. WaitingFrames' = Append(WaitingFrames, FrameAt(y)')
    BY <1>8, <1>9, <2>1, OneFrameMore
  <2>3. FrameAt(y)' = f
    BY <1>5, <1>6, <2>1
  <2> QED
    BY <2>2, <2>3
<1>11. FrameSent' = FrameSent
  BY <1>3 DEF FrameSent
<1> QED
  BY <1>2, <1>10, <1>11, QueueSteps

\* The interrupt takes the first frame, whole.
LEMMA OldestLeaves ==
  ASSUME FifoInv, Listing, Listing', radio \/ pc = "idle", Available, RD' = RD + At(RD).size,
         UNCHANGED <<data, last_ready, pc>>
  PROVE  /\ WaitingFrames # <<>> /\ Head(WaitingFrames) = FrameAt(RD)
         /\ WaitingFrames' = Tail(WaitingFrames)
<1> DEFINE size == At(RD).size
<1>1. /\ ~Flushing /\ RD \in Nat /\ last_ready \in Nat /\ At(RD).part = 1
      /\ size \in Nat /\ size >= 1 /\ RD + size <= last_ready
      /\ \A k \in 1 .. size : At(RD + k - 1) = [At(RD) EXCEPT !.part = k]
      /\ At(RD) \in Block
  <2>1. size \in Sizes
    BY FrameAtRD
  <2>2. size \in Nat /\ size >= 1
    BY <2>1, RingAssumption DEF Sizes
  <2> QED
    BY <2>2, FrameAtRD, Types DEF FifoInv
<1> HIDE DEF size
<1>2. Waiting = RD .. last_ready - 1 /\ Waiting' = RD + size .. last_ready - 1
  BY <1>1 DEF Waiting, Flushing, size
<1>3. \A p : At(p)' = At(p) /\ FrameAt(p)' = FrameAt(p)
  BY DEF At, FrameAt
<1>4. ASSUME NEW p \in RD + 1 .. RD + size - 1 PROVE At(p).part # 1
  <2>1. p - RD + 1 \in 1 .. size /\ p = RD + (p - RD + 1) - 1 /\ p - RD + 1 # 1
    BY <1>1
  <2>2. At(p) = [At(RD) EXCEPT !.part = p - RD + 1]
    BY <1>1, <2>1
  <2> QED
    BY <1>1, <2>1, <2>2 DEF Block
<1>5. PICK x : x = RD
  OBVIOUS
<1>6. x \in Headers /\ Headers' = Headers \ {x} /\ \A p \in Headers : x <= p
  <2>1. ASSUME NEW p
        PROVE  p \in Waiting <=> p \in Waiting' \/ p = x \/ p \in x + 1 .. x + size - 1
    BY <1>1, <1>2, <1>5
  <2>2. \A p \in Waiting' : p # x
    BY <1>1, <1>2, <1>5
  <2>3. \A p : p \in Waiting /\ At(p).part = 1 <=> (p \in Waiting' /\ At(p).part = 1) \/ p = x
    BY <1>1, <1>4, <1>5, <2>1
  <2>4. \A p \in Waiting : x <= p
    BY <1>1, <1>2, <1>5
  <2> QED
    BY <1>3, <2>2, <2>3, <2>4 DEF Headers
<1>7. /\ WaitingFrames # <<>> /\ Head(WaitingFrames) = FrameAt(x)
      /\ WaitingFrames' = Tail(WaitingFrames)
  BY <1>3, <1>6, OneFrameLess
<1> QED
  BY <1>5, <1>7

LEMMA InterruptLeaves ==
  ASSUME FifoInv, FifoInv', Listing, Listing', Interrupt
  PROVE  Queue!Next
<1>1. /\ radio \/ pc = "idle"
      /\ Available /\ UNCHANGED <<data, last_ready, pc>>
      /\ \E n \in SizesAt(RD) : RD' = Plus(RD, n)
  BY DEF Interrupt, Purge, Send, main
<1>2. RD' = RD + At(RD).size
  BY <1>1, FrameAtRD
<1>3. /\ WaitingFrames # <<>> /\ Head(WaitingFrames) = FrameAt(RD)
      /\ WaitingFrames' = Tail(WaitingFrames)
  BY <1>1, <1>2, OldestLeaves
<1>4. CASE Purge
  <2>1. FrameSent' = FrameSent
    BY <1>4 DEF Purge, FrameSent
  <2> QED
    BY <1>3, <2>1, QueueSteps
<1>5. CASE Send
  <2> DEFINE size == At(RD).size
  <2>1. /\ size \in Sizes /\ SizesAt(RD) = {size} /\ RD \in Nat
        /\ \A k \in 1 .. size : Plus(RD, k - 1) = RD + k - 1
    BY <1>1, FrameAtRD
  <2>2. size \in Nat /\ size >= 1
    BY <2>1, RingAssumption DEF Sizes
  <2>3. sent' = [k \in 1 .. size |-> At(Plus(RD, k - 1))]
    BY <1>5, <2>1 DEF Send
  <2>4. sent'[1] = At(RD) /\ sent' # <<>>
    <3>1. 1 \in 1 .. size /\ Plus(RD, 1 - 1) = RD + 1 - 1 /\ RD + 1 - 1 = RD
      BY <2>1, <2>2
    <3>2. sent'[1] = At(RD)
      BY <2>3, <3>1
    <3>3. 1 \in DOMAIN sent' /\ DOMAIN <<>> = {}
      BY <2>3, <3>1
    <3> QED
      BY <3>2, <3>3
  <2>5. WholeFrame(sent')
    BY DEF FifoInv, OnlyWholeFramesSent, WholeFrame
  <2>6. FrameSent' = FrameAt(RD)
    BY <2>4, <2>5 DEF FrameSent, FrameAt, WholeFrame
  <2> QED
    BY <1>3, <2>6, QueueSteps
<1> QED
  BY <1>4, <1>5 DEF Interrupt

\* A write falls outside of what waits, and is not seen yet.
LEMMA WriteIsQuiet ==
  ASSUME NoWrap, FifoInv, Listing, Listing', WriteBlock
  PROVE  UNCHANGED Queue!vars
<1>1. /\ pc = "write" /\ FifoTypeOK /\ ~Flushing /\ ~Flushing' /\ Partial
      /\ UNCHANGED <<RD, last_ready, sent>>
      /\ data' = [data EXCEPT ![Place(WR)] = BlockOf(Head(writing), part)]
  BY DEF WriteBlock, FifoInv, Flushing
<1>2. /\ WR < RD + Blocks /\ WR = last_ready + part - 1
      /\ WR \in Nat /\ RD \in Nat /\ last_ready \in Nat /\ part \in Nat \ {0} /\ Blocks \in Nat
  BY <1>1, RoomForBlock, Types DEF Partial
<1>3. Waiting = RD .. last_ready - 1 /\ Waiting' = Waiting
  BY <1>1 DEF Waiting
<1>4. \A p \in Waiting : p \in Nat /\ p < WR /\ WR - p < Blocks
  BY <1>2, <1>3
<1>5. \A p \in Waiting : data'[Place(p)] = data[Place(p)]
  BY <1>1, <1>4, RingWrite
<1> QED
  BY <1>1, <1>3, <1>5, QuietStep

LEMMA SwitchEmpties ==
  ASSUME FifoInv, Listing, Listing', Switch
  PROVE  Queue!Next \/ UNCHANGED Queue!vars
<1>1. UNCHANGED <<data, sent>>
  BY DEF Switch, RadioOff, RadioOnFlush, FlushWR, FlushRD, FlushLastReady, RadioOn, ring
<1>2. CASE RadioOnFlush
  <2>1. Flushing'
    BY <1>2 DEF RadioOnFlush, FlushWR, Flushing
  <2>2. Headers' = {}
    BY <2>1 DEF Headers, Waiting
  <2>3. WaitingFrames' = <<>>
    <3>1. Len(WaitingFrames') = 0 /\ WaitingFrames' \in Seq({FrameAt(p)' : p \in Headers'})
      BY <2>2, FS_EmptySet DEF Listing, FrameAt, At
    <3> QED
      BY <3>1
  <2>4. FrameSent' = FrameSent
    BY <1>1 DEF FrameSent
  <2> QED
    BY <2>3, <2>4, QueueSteps
<1>3. CASE ~ RadioOnFlush
  <2>1. Waiting' = Waiting
    <3>1. CASE RadioOff \/ RadioOn
      BY <3>1 DEF RadioOff, RadioOn, ring, main, Waiting, Flushing
    <3>2. CASE FlushRD
      BY <3>2 DEF FlushRD, Waiting, Flushing
    <3>3. CASE FlushLastReady
      <4>1. Flushing /\ ~Flushing' /\ RD = 0 /\ RD' = 0 /\ last_ready' = 0
        BY <3>3 DEF FlushLastReady, Flushing, FifoInv, FlushedOff
      <4> QED
        BY <4>1 DEF Waiting
    <3> QED
      BY <1>3, <3>1, <3>2, <3>3 DEF Switch
  <2> QED
    BY <1>1, <2>1, QuietStep
<1> QED
  BY <1>2, <1>3

LEMMA QueueStep ==
  ASSUME NoWrap, FifoInv, FifoInv', [Next]_vars
  PROVE  [Queue!Next]_(Queue!vars)
<1>1. Listing /\ Listing'
  BY Listed, ListedNext DEF FifoInv
<1>2. CASE Push
  <2>1. /\ pc = "idle" /\ pc' = "write" /\ UNCHANGED <<data, RD, last_ready, sent>>
    BY <1>2 DEF Push, PushPacket, PushSignaling, StartWriting, ring
  <2>2. Waiting' = Waiting
    BY <2>1 DEF Waiting, Flushing
  <2> QED
    BY <1>1, <2>1, <2>2, QuietStep
<1>3. CASE Write
  BY <1>1, <1>3, NoWrap, WriteIsQuiet, PublishEnters DEF Write
<1>4. CASE Switch
  BY <1>1, <1>4, SwitchEmpties
<1>5. CASE Interrupt
  BY <1>1, <1>5, InterruptLeaves
<1>6. CASE UNCHANGED vars
  BY <1>1, <1>6, QuietStep DEF vars, ring, main, Waiting, Flushing
<1> QED
  BY <1>2, <1>3, <1>4, <1>5, <1>6 DEF Next

\* The ring implements the queue: the frames the main loop published leave in
\* their order, whole and once each, unless they are given up, wherever in the
\* main loop's writes the interrupts fall; for any ring, frames and thresholds.
THEOREM FifoImplementsQueue ==
  ASSUME NoWrap
  PROVE  Spec => QueueImplemented
<1>1. Init => Queue!Init
  <2> SUFFICES ASSUME Init PROVE Queue!Init
    OBVIOUS
  <2>1. Listing
    BY InitInv, Listed DEF FifoInv
  <2>2. Headers = {}
    BY DEF Init, Headers, Waiting, Flushing
  <2>3. WaitingFrames = <<>>
    <3>1. Len(WaitingFrames) = 0 /\ WaitingFrames \in Seq({FrameAt(p) : p \in Headers})
      BY <2>1, <2>2, FS_EmptySet DEF Listing
    <3> QED
      BY <3>1
  <2>4. FrameSent = NoBlock
    BY DEF Init, FrameSent
  <2> QED
    BY <2>3, <2>4 DEF Queue!Init
<1>2. FifoInv /\ FifoInv' /\ [Next]_vars => [Queue!Next]_(Queue!vars)
  BY NoWrap, QueueStep
<1> QED
  BY NoWrap, <1>1, <1>2, FifoInvariant, PTL DEF Spec, QueueImplemented, Queue!Spec

=============================================================================
