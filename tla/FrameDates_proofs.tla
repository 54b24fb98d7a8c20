------------------------- MODULE FrameDates_proofs -------------------------
(***************************************************************************)
(* Proofs about the age limit of frames, for any range of dates, any limit *)
(* and queues of any length.                                               *)
(***************************************************************************)
EXTENDS FrameDates, SequenceTheorems, TLAPS

\* Two dates are never further apart, in the order of time, than the times
\* they stand for; they are closer when the clock's low byte wrapped between.
LEMMA DatesLag ==
  ASSUME NEW n \in Nat \ {0}, NEW a \in Nat, NEW b \in Nat, b <= a
  PROVE  (a % n) - (b % n) <= a - b
<1> DEFINE q == a \div n
           r == b \div n
           x == a % n
           y == b % n
<1>1. /\ q \in Int /\ r \in Int /\ x \in 0 .. n - 1 /\ y \in 0 .. n - 1
      /\ a = n * q + x /\ b = n * r + y
  OBVIOUS
<1> HIDE DEF q, r, x, y
<1>2. a - b = n * (q - r) + (x - y)
  BY <1>1
<1>3. q - r >= 0
  <2> SUFFICES ASSUME q - r <= -1 PROVE FALSE
    BY <1>1
  <2>1. n * (q - r) <= -n
    BY <1>1
  <2>2. n * (q - r) \in Int /\ x - y < n
    BY <1>1
  <2> QED
    BY <1>1, <1>2, <2>1, <2>2
<1>4. n * (q - r) >= 0
  BY <1>1, <1>3
<1>5. n * (q - r) \in Int
  BY <1>1
<1>6. x - y <= a - b
  BY <1>1, <1>2, <1>4, <1>5
<1> QED
  BY <1>6 DEF x, y

\* A frame that the code takes for too old, or no longer recent, has waited for
\* at least the limit.
LEMMA TooOldIsOld ==
  ASSUME DatesTypeOK, NEW born \in Times, TooOld(born) \/ ~Recent(born)
  PROVE  Age(born) >= CONF_Tx_rframe_timeout
<1>1. /\ now \in Nat /\ born \in Nat /\ born <= now
      /\ DateWord \in Nat \ {0} /\ CONF_Tx_rframe_timeout \in Nat
  BY DateAssumption DEF DatesTypeOK, Times
<1>2. DateDiff(born) <= Age(born)
  BY <1>1, DatesLag DEF DateDiff, Date, Age
<1>3. DateDiff(born) \in Int /\ Age(born) \in Int
  BY <1>1 DEF DateDiff, Date, Age
<1>4. DateDiff(born) >= CONF_Tx_rframe_timeout
  BY <1>1, <1>3 DEF TooOld, Recent
<1> QED
  BY <1>1, <1>2, <1>3, <1>4

\* One step of the clock or of the FIFO keeps the types and purges only frames
\* that waited for the limit.
LEMMA DatesStep ==
  ASSUME DatesTypeOK, OnlyOldFramesGivenUp, [Next]_vars
  PROVE  DatesTypeOK' /\ OnlyOldFramesGivenUp'
<1>1. /\ is_SRAM_ext \in BOOLEAN /\ now \in Nat
      /\ extern \in Seq(Times) /\ intern \in Seq(Times)
      /\ given_up \subseteq Times /\ sent \subseteq Times
  BY DEF DatesTypeOK
<1>2. CASE Tick
  <2>1. now' = now + 1 /\ given_up' = {} /\ sent' = {}
        /\ UNCHANGED <<is_SRAM_ext, extern, intern>>
    BY <1>2 DEF Tick
  <2>2. Times \subseteq Times'
    BY <1>1, <2>1 DEF Times
  <2>3. extern \in Seq(Times') /\ intern \in Seq(Times')
    BY <1>1, <2>2
  <2> QED
    BY <1>1, <2>1, <2>3 DEF DatesTypeOK, OnlyOldFramesGivenUp
<1>3. CASE PushIntern \/ PushExtern
  <2>1. now \in Times
    BY <1>1 DEF Times
  <2>2. /\ given_up' = {} /\ sent' = {} /\ UNCHANGED <<is_SRAM_ext, now>>
        /\ extern' = extern \/ extern' = Append(extern, now)
        /\ intern' = intern \/ intern' = Append(intern, now)
    BY <1>3 DEF PushIntern, PushExtern
  <2>3. extern' \in Seq(Times) /\ intern' \in Seq(Times)
    <3>1. Append(extern, now) \in Seq(Times) /\ Append(intern, now) \in Seq(Times)
      BY <1>1, <2>1, AppendProperties
    <3> QED
      BY <1>1, <2>2, <3>1
  <2> QED
    BY <1>1, <2>2, <2>3 DEF DatesTypeOK, OnlyOldFramesGivenUp, Times
<1>4. CASE Move
  <2>1. extern # <<>> /\ extern' = Tail(extern) /\ sent' = {}
        /\ UNCHANGED <<is_SRAM_ext, now>>
    BY <1>4 DEF Move
  <2>2. Head(extern) \in Times /\ extern' \in Seq(Times)
    BY <1>1, <2>1, HeadTailProperties
  <2>3. /\ intern' = intern \/ intern' = Append(intern, Head(extern))
        /\ \/ given_up' = {}
           \/ given_up' = {Head(extern)} /\ ~Recent(Head(extern))
    BY <1>4 DEF Move
  <2>4. intern' \in Seq(Times) /\ given_up' \subseteq Times
    <3>1. Append(intern, Head(extern)) \in Seq(Times)
      BY <1>1, <2>2, AppendProperties
    <3> QED
      BY <1>1, <2>2, <2>3, <3>1
  <2>5. \A born \in given_up' : Age(born) >= CONF_Tx_rframe_timeout
    BY <2>2, <2>3, TooOldIsOld
  <2> QED
    BY <1>1, <2>1, <2>2, <2>4, <2>5 DEF DatesTypeOK, OnlyOldFramesGivenUp, Times, Age
<1>5. CASE Transmit
  <2>1. UNCHANGED <<is_SRAM_ext, now, extern>>
    BY <1>5 DEF Transmit
  <2>2. PICK n \in 0 .. Len(intern) :
          /\ Purged(n)
          /\ given_up' = {intern[k] : k \in 1 .. n}
          /\ \/ sent' = {} /\ intern' = SubSeq(intern, n + 1, Len(intern))
             \/ /\ n < Len(intern) /\ sent' = {intern[n + 1]}
                /\ intern' = SubSeq(intern, n + 2, Len(intern))
    BY <1>5 DEF Transmit
  <2>3. Len(intern) \in Nat /\ \A k \in 1 .. Len(intern) : intern[k] \in Times
    BY <1>1, ElementOfSeq, LenProperties
  <2>4. n \in Nat /\ n <= Len(intern)
    BY <2>3
  <2>5. \A k \in 1 .. n : intern[k] \in Times /\ TooOld(intern[k])
    BY <2>2, <2>3, <2>4 DEF Purged
  <2>6. given_up' \subseteq Times /\ \A born \in given_up' : TooOld(born)
    BY <2>2, <2>5
  <2>7. \A born \in given_up' : Age(born) >= CONF_Tx_rframe_timeout
    BY <2>6, TooOldIsOld
  <2>8. sent' \subseteq Times
    <3>1. n < Len(intern) => n + 1 \in 1 .. Len(intern)
      BY <2>3, <2>4
    <3> QED
      BY <2>2, <2>3, <3>1
  <2>9. \A m \in Nat \ {0} : SubSeq(intern, m, Len(intern)) \in Seq(Times)
    BY <1>1, <2>3
  <2>10. intern' \in Seq(Times)
    <3>1. n + 1 \in Nat \ {0} /\ n + 2 \in Nat \ {0}
      BY <2>4
    <3> QED
      BY <2>2, <2>9, <3>1
  <2> QED
    BY <1>1, <2>1, <2>6, <2>7, <2>8, <2>10 DEF DatesTypeOK, OnlyOldFramesGivenUp, Times, Age
<1>6. CASE UNCHANGED vars
  BY <1>6 DEF vars, DatesTypeOK, OnlyOldFramesGivenUp, Times, Age
<1> QED
  BY <1>2, <1>3, <1>4, <1>5, <1>6 DEF Next

\* Types and the age of what is purged are inductive together: no frame is
\* dated later than the clock.
THEOREM DatesInvariant == Spec => [](DatesTypeOK /\ OnlyOldFramesGivenUp)
<1>1. Init => DatesTypeOK /\ OnlyOldFramesGivenUp
  <2> SUFFICES ASSUME Init PROVE DatesTypeOK /\ OnlyOldFramesGivenUp
    OBVIOUS
  <2> QED
    BY DEF Init, DatesTypeOK, OnlyOldFramesGivenUp
<1>2. (DatesTypeOK /\ OnlyOldFramesGivenUp) /\ [Next]_vars
        => (DatesTypeOK /\ OnlyOldFramesGivenUp)'
  BY DatesStep
<1> QED
  BY <1>1, <1>2, PTL DEF Spec

\* The purge never gives up a frame before its time, whatever the width of the
\* dates: the byte arithmetic errs on the side of keeping frames.
THEOREM NoFrameGivenUpEarly == Spec => []OnlyOldFramesGivenUp
  BY DatesInvariant, PTL
=============================================================================
