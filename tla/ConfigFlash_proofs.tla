------------------------- MODULE ConfigFlash_proofs -------------------------
(***************************************************************************)
(* Proofs about the log of configurations, for any number of sectors, any   *)
(* number of records in each and any configurations.                        *)
(***************************************************************************)
EXTENDS ConfigFlash, WellFoundedInduction, TLAPS

-----------------------------------------------------------------------------
(* The inductive invariant.                                                 *)

\* A record is in the bank its index says.
Placed == \A b \in BankNumbers : flash[b].index # 0 => flash[b].index % Banks = b

\* Records in one sector are of one round of the banks, and a sector with a
\* record holds nothing else.
OneRound ==
  \A a, b \in BankNumbers :
    SectorOf(a) = SectorOf(b) /\ flash[a].index # 0
      => \/ flash[b] = Blank
         \/ flash[b].index # 0 /\ flash[b].index - b = flash[a].index - a

\* What is known of RAM and of the highest record at each step of a save.
Saving == under = new_index /\ new_index <= MaxIndex /\ ~resetting

Idle == config_index = Highest /\ Highest # 0 /\ Readable = last /\ ~resetting

Erasing == Saving /\ config_index = Highest /\ Readable = last /\ NewSector

Heading ==
  /\ Saving /\ config_index = Highest /\ Readable = last
  /\ NewSector => \A b \in BankNumbers : SectorOf(b) = SectorOf(Bank) => flash[b] = Blank

Filling == Saving /\ Highest = new_index /\ flash[Bank] = Record(new_index, "torn")

Phase ==
  /\ pc = "idle" => Idle
  /\ pc = "erase" => Erasing
  /\ pc = "header" => Heading
  /\ pc = "body" => Filling
  /\ pc = "reset" => resetting
  /\ pc = "off" => config_index = 0 /\ LatestKept

FlashInv == FlashTypeOK /\ Placed /\ OneRound /\ Phase

-----------------------------------------------------------------------------
(* Numbers.                                                                 *)

\* A non-empty set of natural numbers has a least element.
LEMMA LeastExists ==
  ASSUME NEW S \in SUBSET Nat, S # {}
  PROVE  \E m \in S : \A n \in S : m <= n
<1> DEFINE R == OpToRel(<, Nat)
<1>1. IsWellFoundedOn(R, Nat)
  BY NatLessThanWellFounded
<1> HIDE DEF R
<1>2. \E m \in S : \A n \in S : <<n, m>> \notin R
  BY <1>1, WFMin
<1>3. \A m, n \in Nat : n < m => <<n, m>> \in R
  BY DEF R, OpToRel
<1>4. PICK m \in S : \A n \in S : <<n, m>> \notin R
  BY <1>2
<1>5. ASSUME NEW n \in S PROVE m <= n
  <2>1. ~ (n < m) /\ m \in Nat /\ n \in Nat
    BY <1>3, <1>4, <1>5
  <2> QED
    BY <2>1
<1> QED
  BY <1>4, <1>5

\* Max is what its name says on a bounded set of natural numbers.
LEMMA MaxIsGreatest ==
  ASSUME NEW S \in SUBSET Nat, S # {}, NEW bound \in Nat, \A n \in S : n <= bound
  PROVE  Max(S) \in S /\ \A n \in S : n <= Max(S)
<1> DEFINE T == {bound - n : n \in S}
<1>1. T \in SUBSET Nat /\ T # {}
  <2>1. \A n \in S : bound - n \in Nat
    OBVIOUS
  <2> QED
    BY <2>1
<1>2. PICK t \in T : \A u \in T : t <= u
  BY <1>1, LeastExists
<1>3. PICK m \in S : t = bound - m
  BY <1>2
<1>4. ASSUME NEW n \in S PROVE m >= n
  <2>1. t <= bound - n /\ n \in Nat /\ m \in Nat
    BY <1>2, <1>4
  <2> QED
    BY <1>3, <2>1
<1>5. \E x \in S : \A y \in S : x >= y
  BY <1>4
<1>6. Max(S) \in S /\ \A y \in S : Max(S) >= y
  BY <1>5 DEF Max
<1> QED
  BY <1>6

LEMMA Division ==
  ASSUME NEW n \in Nat, NEW m \in Nat \ {0}
  PROVE  /\ n \div m \in Nat /\ n % m \in Nat /\ n % m < m
         /\ n = m * (n \div m) + (n % m)
OBVIOUS

LEMMA DivisionUnique ==
  ASSUME NEW n \in Nat, NEW m \in Nat \ {0}, NEW q \in Int, NEW r \in Nat, r < m,
         n = m * q + r
  PROVE  n \div m = q /\ n % m = r
<1> DEFINE p == n \div m
           s == n % m
<1>1. p \in Nat /\ s \in Nat /\ s < m /\ n = m * p + s
  BY Division
<1> HIDE DEF p, s
<1>2. m * (q - p) = s - r
  BY <1>1
<1>3. q - p = 0
  <2>1. CASE q - p >= 1
    <3>1. m * (q - p) >= m
      BY <1>1, <2>1
    <3> QED
      BY <1>1, <1>2, <3>1
  <2>2. CASE q - p <= -1
    <3>1. m * (q - p) <= -m
      BY <1>1, <2>2
    <3> QED
      BY <1>1, <1>2, <3>1
  <2> QED
    BY <1>1, <2>1, <2>2
<1>4. p = q
  BY <1>1, <1>3
<1>5. s = r
  BY <1>1, <1>4
<1> QED
  BY <1>4, <1>5 DEF p, s


LEMMA Sizes ==
  /\ SectorBanks \in Nat \ {0} /\ Banks \in Nat \ {0}
  /\ MaxIndex \in Nat /\ FirstIndex \in Nat /\ FirstIndex # 0 /\ FirstIndex <= MaxIndex
  /\ Banks \div SectorBanks \in Nat /\ Banks \div SectorBanks >= 2
  /\ Banks = SectorBanks * (Banks \div SectorBanks)
<1>1. /\ SectorBanks \in Nat \ {0} /\ Banks \in Nat \ {0} /\ Banks > SectorBanks
      /\ Banks % SectorBanks = 0
      /\ MaxIndex \in Nat /\ FirstIndex \in Nat /\ FirstIndex # 0 /\ FirstIndex <= MaxIndex
  BY ConfigFlashAssumption
<1> DEFINE k == Banks \div SectorBanks
<1>2. k \in Nat /\ Banks = SectorBanks * k
  BY <1>1, Division
<1> HIDE DEF k
<1>3. k >= 2
  <2>1. CASE k = 0
    BY <1>1, <1>2, <2>1
  <2>2. CASE k = 1
    BY <1>1, <1>2, <2>2
  <2> QED
    BY <1>2, <2>1, <2>2
<1> QED
  BY <1>1, <1>2, <1>3 DEF k

\* The bank of an index, and the bank of the next index: in the same sector, or
\* at the beginning of another.
LEMMA NextBank ==
  ASSUME NEW n \in Nat
  PROVE  /\ n % Banks \in BankNumbers
         /\ (n + 1) % SectorBanks # 0
              => /\ (n + 1) % Banks = (n % Banks) + 1
                 /\ SectorOf((n + 1) % Banks) = SectorOf(n % Banks)
         /\ (n + 1) % SectorBanks = 0
              => SectorOf((n + 1) % Banks) # SectorOf(n % Banks)
<1> DEFINE k == Banks \div SectorBanks
           q == n \div Banks
           b == n % Banks
           s == b \div SectorBanks
           t == b % SectorBanks
<1>1. /\ SectorBanks \in Nat \ {0} /\ Banks \in Nat \ {0} /\ k \in Nat /\ k >= 2
      /\ Banks = SectorBanks * k
  BY Sizes
<1>2. /\ q \in Nat /\ b \in Nat /\ b < Banks /\ n = Banks * q + b
  BY <1>1, Division
<1> HIDE DEF q, b, k
<1>3. /\ s \in Nat /\ t \in Nat /\ t < SectorBanks /\ b = SectorBanks * s + t
  BY <1>1, <1>2, Division
<1> HIDE DEF s, t
<1>4. n + 1 = SectorBanks * (k * q + s) + (t + 1)
  <2>1. Banks * q = SectorBanks * (k * q)
    BY <1>1, <1>2
  <2>2. SectorBanks * (k * q + s) = SectorBanks * (k * q) + SectorBanks * s
    BY <1>1, <1>2, <1>3
  <2> QED
    BY <1>1, <1>2, <1>3, <2>1, <2>2
<1>5. k * q + s \in Nat
  BY <1>1, <1>2, <1>3
<1>6. CASE t + 1 < SectorBanks
  <2>1. (n + 1) % SectorBanks # 0
    <3>1. (n + 1) % SectorBanks = t + 1
      BY <1>1, <1>3, <1>4, <1>5, <1>6, DivisionUnique
    <3> QED
      BY <1>3, <3>1
  <2>2. b + 1 < Banks
    <3>1. CASE s >= k
      <4>1. SectorBanks * s >= SectorBanks * k
        BY <1>1, <1>3, <3>1
      <4> QED
        BY <1>1, <1>2, <1>3, <4>1
    <3>2. CASE s <= k - 1
      <4>1. SectorBanks * s <= SectorBanks * (k - 1)
        BY <1>1, <1>3, <3>2
      <4>2. SectorBanks * (k - 1) = Banks - SectorBanks
        BY <1>1
      <4> QED
        BY <1>1, <1>2, <1>3, <1>6, <4>1, <4>2
    <3> QED
      BY <1>1, <1>3, <3>1, <3>2
  <2>3. (n + 1) % Banks = b + 1
    <3>1. n + 1 = Banks * q + (b + 1)
      BY <1>1, <1>2
    <3>2. n + 1 \in Nat /\ Banks \in Nat \ {0} /\ q \in Int /\ b + 1 \in Nat
      BY <1>1, <1>2
    <3> QED
      BY <2>2, <3>1, <3>2, DivisionUnique
  <2>4. (b + 1) \div SectorBanks = s
    <3>1. b + 1 = SectorBanks * s + (t + 1)
      BY <1>1, <1>2, <1>3
    <3> QED
      BY <1>1, <1>2, <1>3, <1>6, <3>1, DivisionUnique
  <2>5. b \in BankNumbers
    BY <1>1, <1>2 DEF BankNumbers
  <2> QED
    BY <2>1, <2>3, <2>4, <2>5 DEF SectorOf, b, s
<1>7. CASE t + 1 = SectorBanks
  <2>1. (n + 1) % SectorBanks = 0
    <3>1. n + 1 = SectorBanks * (k * q + s + 1) + 0
      BY <1>1, <1>4, <1>5, <1>7
    <3> QED
      BY <1>1, <1>2, <1>5, <3>1, DivisionUnique
  <2>2. CASE b + 1 < Banks
    <3>1. (n + 1) % Banks = b + 1
      <4>1. n + 1 = Banks * q + (b + 1)
        BY <1>1, <1>2
      <4>2. n + 1 \in Nat /\ Banks \in Nat \ {0} /\ q \in Int /\ b + 1 \in Nat
        BY <1>1, <1>2
      <4> QED
        BY <2>2, <4>1, <4>2, DivisionUnique
    <3>2. (b + 1) \div SectorBanks = s + 1
      <4>1. b + 1 = SectorBanks * (s + 1) + 0
        BY <1>1, <1>2, <1>3, <1>7
      <4> QED
        BY <1>1, <1>2, <1>3, <4>1, DivisionUnique
    <3>3. s + 1 # s /\ b \in BankNumbers
      BY <1>1, <1>2, <1>3 DEF BankNumbers
    <3> QED
      BY <2>1, <3>1, <3>2, <3>3 DEF SectorOf, b, s
  <2>3. CASE b + 1 = Banks
    <3>1. (n + 1) % Banks = 0
      <4>1. n + 1 = Banks * (q + 1) + 0
        BY <1>1, <1>2, <2>3
      <4> QED
        BY <1>1, <1>2, <4>1, DivisionUnique
    <3>2. 0 \div SectorBanks = 0
      <4>1. 0 = SectorBanks * 0 + 0
        BY <1>1
      <4> QED
        BY <1>1, <4>1, DivisionUnique
    <3>3. s # 0
      BY <1>1, <1>2, <1>3, <1>7, <2>3
    <3>4. b \in BankNumbers
      BY <1>1, <1>2 DEF BankNumbers
    <3> QED
      BY <2>1, <3>1, <3>2, <3>3, <3>4 DEF SectorOf, b, s
  <2> QED
    BY <1>1, <1>2, <2>2, <2>3
<1> QED
  BY <1>1, <1>3, <1>6, <1>7


-----------------------------------------------------------------------------
(* The highest index, in any contents f of the flash.                       *)

HighestIn(f) == Max({f[b].index : b \in BankNumbers})
Flashes == [BankNumbers -> Records]

LEMMA HighestIsGreatest ==
  ASSUME NEW f \in Flashes
  PROVE  /\ HighestIn(f) \in Nat /\ HighestIn(f) <= MaxIndex
         /\ \E b \in BankNumbers : f[b].index = HighestIn(f)
         /\ \A b \in BankNumbers : f[b].index \in Nat /\ f[b].index <= HighestIn(f)
<1> DEFINE S == {f[b].index : b \in BankNumbers}
<1>1. \A b \in BankNumbers : f[b].index \in Nat /\ f[b].index <= MaxIndex
  BY Sizes DEF Flashes, Records
<1>2. S \in SUBSET Nat /\ \A n \in S : n <= MaxIndex
  BY <1>1
<1>3. S # {}
  <2>1. 0 \in BankNumbers
    BY Sizes DEF BankNumbers
  <2> QED
    BY <2>1
<1>4. Max(S) \in S /\ \A n \in S : n <= Max(S)
  BY <1>2, <1>3, Sizes, MaxIsGreatest
<1> QED
  BY <1>1, <1>2, <1>4 DEF HighestIn

\* An index that is there and that no other exceeds is the highest.
LEMMA HighestIsUnique ==
  ASSUME NEW f \in Flashes, NEW a \in BankNumbers,
         \A b \in BankNumbers : f[b].index <= f[a].index
  PROVE  HighestIn(f) = f[a].index
<1>1. PICK b \in BankNumbers : f[b].index = HighestIn(f)
  BY HighestIsGreatest
<1>2. f[a].index <= HighestIn(f) /\ f[a].index \in Nat /\ HighestIn(f) \in Nat
  BY HighestIsGreatest
<1>3. HighestIn(f) <= f[a].index
  BY <1>1
<1> QED
  BY <1>2, <1>3

LEMMA HighestIsZero ==
  ASSUME NEW f \in Flashes
  PROVE  HighestIn(f) = 0 <=> \A b \in BankNumbers : f[b].index = 0
<1>1. PICK b \in BankNumbers : f[b].index = HighestIn(f)
  BY HighestIsGreatest
<1>2. ASSUME HighestIn(f) = 0, NEW a \in BankNumbers PROVE f[a].index = 0
  BY <1>2, HighestIsGreatest
<1> QED
  BY <1>1, <1>2

\* What is read at start.
LEMMA ReadableIs ==
  ASSUME FlashTypeOK, Placed
  PROVE  /\ Highest = HighestIn(flash) /\ Highest \in Nat /\ Highest <= MaxIndex
         /\ \A b \in BankNumbers : flash[b].index \in Nat /\ flash[b].index <= Highest
         /\ Highest = 0 => Readable = Blank
         /\ Highest # 0 => /\ Highest % Banks \in BankNumbers
                           /\ flash[Highest % Banks].index = Highest
                           /\ Readable = flash[Highest % Banks]
<1>1. flash \in Flashes /\ Highest = HighestIn(flash)
  BY DEF FlashTypeOK, Flashes, Highest, HighestIn
<1>2. PICK b \in BankNumbers : flash[b].index = Highest
  BY <1>1, HighestIsGreatest
<1>3. Highest # 0 => Highest % Banks = b
  BY <1>2 DEF Placed
<1> QED
  BY <1>1, <1>2, <1>3, HighestIsGreatest DEF Readable

\* Erasing some banks keeps the order of the records; unless that of the
\* highest is erased, it stays the highest.
LEMMA ErasingKeeps ==
  ASSUME FlashTypeOK, Placed, OneRound, flash' \in Flashes,
         \A b \in BankNumbers : flash'[b] = flash[b] \/ flash'[b] = Blank
  PROVE  /\ Placed' /\ OneRound'
         /\ (Highest # 0 => flash'[Highest % Banks] = flash[Highest % Banks])
              => Highest' = Highest /\ Readable' = Readable
<1>1. \A b \in BankNumbers : flash'[b].index # 0 => flash'[b] = flash[b]
  BY DEF Blank, Record
<1>2. Placed'
  BY <1>1 DEF Placed
<1>3. OneRound'
  BY <1>1 DEF OneRound
<1>4. ASSUME Highest # 0 => flash'[Highest % Banks] = flash[Highest % Banks]
      PROVE  Highest' = Highest /\ Readable' = Readable
  <2>1. Highest' = HighestIn(flash')
    BY DEF Highest, HighestIn
  <2>2. CASE Highest = 0
    <3>1. \A b \in BankNumbers : flash[b].index = 0
      BY <2>2, ReadableIs, HighestIsZero DEF FlashTypeOK, Flashes
    <3>2. \A b \in BankNumbers : flash'[b].index = 0
      BY <1>1, <3>1
    <3>3. Highest' = 0
      BY <2>1, <3>2, HighestIsZero
    <3> QED
      BY <2>2, <3>3 DEF Readable
  <2>3. CASE Highest # 0
    <3> DEFINE h == Highest % Banks
    <3>1. h \in BankNumbers /\ flash[h].index = Highest /\ flash'[h] = flash[h]
      BY <1>4, <2>3, ReadableIs
    <3>2. \A b \in BankNumbers : flash'[b].index <= flash'[h].index
      <4>1. ASSUME NEW b \in BankNumbers PROVE flash'[b].index <= Highest
        <5>1. flash[b].index <= Highest /\ Highest \in Nat
          BY ReadableIs
        <5> QED
          BY <5>1 DEF Blank, Record
      <4> QED
        BY <3>1, <4>1
    <3>3. HighestIn(flash') = Highest
      BY <3>1, <3>2, HighestIsUnique
    <3> QED
      BY <2>1, <2>3, <3>1, <3>3 DEF Readable
  <2> QED
    BY <2>2, <2>3
<1> QED
  BY <1>2, <1>3, <1>4


-----------------------------------------------------------------------------
(* The steps.                                                               *)

\* What is written, and what flash and RAM can hold.
LEMMA Contained ==
  /\ Blank \in Records
  /\ \A i \in 0 .. MaxIndex, c \in Contents : Record(i, c) \in Records
  /\ Default \in Contents /\ "torn" \in Contents /\ Configs \subseteq Contents
  /\ 0 \in Sectors /\ Max(Sectors) \in Nat
  /\ \A s \in Sectors : s < Max(Sectors) => s + 1 \in Sectors
<1>1. 0 \in 0 .. MaxIndex
  BY Sizes
<1>2. /\ Blank \in Records
      /\ \A i \in 0 .. MaxIndex, c \in Contents : Record(i, c) \in Records
      /\ Default \in Contents /\ "torn" \in Contents /\ Configs \subseteq Contents
  BY <1>1 DEF Blank, Record, Records, Contents
<1> DEFINE k == Banks \div SectorBanks
<1>3. k \in Nat /\ k >= 2 /\ Sectors = 0 .. k - 1
  BY Sizes DEF Sectors
<1> HIDE DEF k
<1>4. Sectors \in SUBSET Nat /\ 0 \in Sectors /\ \A n \in Sectors : n <= k
  BY <1>3
<1>5. Max(Sectors) \in Sectors
  BY <1>3, <1>4, MaxIsGreatest
<1> QED
  BY <1>2, <1>3, <1>4, <1>5

\* The next index, and its bank.
LEMMA NewIndexIs ==
  ASSUME FlashTypeOK
  PROVE  /\ new_index \in Nat /\ new_index # 0 /\ Bank \in BankNumbers
         /\ config_index = 0 => new_index = FirstIndex /\ NewSector
         /\ config_index # 0 => new_index = config_index + 1
<1>1. /\ config_index \in Nat /\ FirstIndex \in Nat /\ FirstIndex # 0
      /\ config_index = 0 => new_index = FirstIndex
      /\ config_index # 0 => new_index = config_index + 1
  BY Sizes DEF FlashTypeOK, new_index
<1>2. new_index \in Nat /\ new_index # 0
  BY <1>1
<1>3. Bank \in BankNumbers
  BY <1>2, NextBank DEF Bank
<1>4. FirstIndex % SectorBanks = 0
  <2> DEFINE q == FirstIndex \div Banks
             k == Banks \div SectorBanks
  <2>1. /\ q \in Nat /\ FirstIndex = Banks * q + (FirstIndex % Banks)
        /\ FirstIndex % Banks = 0
    BY Sizes, Division, ConfigFlashAssumption
  <2>2. k \in Nat /\ Banks = SectorBanks * k /\ SectorBanks \in Nat \ {0}
    BY Sizes
  <2> HIDE DEF q, k
  <2>3. FirstIndex = SectorBanks * (k * q) + 0
    BY <2>1, <2>2
  <2>4. k * q \in Int
    BY <2>1, <2>2
  <2> QED
    BY <1>1, <2>2, <2>3, <2>4, DivisionUnique
<1> QED
  BY <1>1, <1>2, <1>3, <1>4 DEF NewSector

\* The sector that is erased does not hold the highest record.
LEMMA HighestElsewhere ==
  ASSUME FlashInv, pc = "erase", Highest # 0
  PROVE  SectorOf(Highest % Banks) # SectorOf(Bank)
<1>1. FlashTypeOK /\ Placed /\ config_index = Highest /\ NewSector
  BY DEF FlashInv, Phase, Erasing
<1>2. new_index = Highest + 1 /\ Highest \in Nat
  BY <1>1, NewIndexIs, ReadableIs
<1> QED
  BY <1>1, <1>2, NextBank DEF Bank, NewSector

\* The bank that is programmed next is blank.  If its sector was not just
\* erased, the record before it in that sector is the highest, and any other
\* than a blank one would be higher.
LEMMA NextIsBlank ==
  ASSUME FlashInv, pc = "header"
  PROVE  /\ flash[Bank] = Blank
         /\ Highest < new_index
         /\ \A b \in BankNumbers :
              SectorOf(b) = SectorOf(Bank)
                => \/ flash[b] = Blank
                   \/ flash[b].index # 0 /\ flash[b].index - b = new_index - Bank
<1>1. /\ FlashTypeOK /\ Placed /\ OneRound /\ config_index = Highest
      /\ NewSector => \A b \in BankNumbers : SectorOf(b) = SectorOf(Bank) => flash[b] = Blank
  BY DEF FlashInv, Phase, Heading
<1>2. new_index \in Nat /\ new_index # 0 /\ Bank \in BankNumbers /\ Highest \in Nat
  BY <1>1, NewIndexIs, ReadableIs
<1>3. Highest < new_index
  BY <1>1, <1>2, NewIndexIs, Sizes
<1>4. CASE NewSector
  BY <1>1, <1>2, <1>3, <1>4
<1>5. CASE ~NewSector
  <2> DEFINE h == Highest % Banks
  <2>1. Highest # 0 /\ new_index = Highest + 1
    BY <1>1, <1>5, NewIndexIs
  <2>2. h \in BankNumbers /\ flash[h].index = Highest
    BY <1>1, <2>1, ReadableIs
  <2>3. Bank = h + 1 /\ SectorOf(Bank) = SectorOf(h)
    BY <1>2, <1>5, <2>1, NextBank DEF Bank, NewSector
  <2> HIDE DEF h
  <2>4. h \in Nat
    BY <2>2, Sizes DEF BankNumbers
  <2>5. ASSUME NEW b \in BankNumbers, SectorOf(b) = SectorOf(Bank)
        PROVE  \/ flash[b] = Blank
               \/ flash[b].index # 0 /\ flash[b].index - b = new_index - Bank
    <3>1. \/ flash[b] = Blank
          \/ flash[b].index # 0 /\ flash[b].index - b = Highest - h
      BY <1>1, <2>1, <2>2, <2>3, <2>5 DEF OneRound
    <3>2. Highest - h = new_index - Bank
      BY <1>2, <2>1, <2>3, <2>4
    <3> QED
      BY <3>1, <3>2
  <2>6. flash[Bank] = Blank
    <3>1. flash[Bank].index \in Nat /\ flash[Bank].index <= Highest
      BY <1>1, <1>2, ReadableIs
    <3>2. Bank \in Nat
      BY <2>3, <2>4
    <3>3. flash[Bank].index - Bank # new_index - Bank
      BY <1>2, <1>3, <3>1, <3>2
    <3> QED
      BY <1>2, <2>5, <3>3
  <2> QED
    BY <1>3, <2>5, <2>6
<1> QED
  BY <1>4, <1>5


\* The start of the modem.
LEMMA ReadKeeps ==
  ASSUME FlashInv, NFPR_config_read
  PROVE  FlashInv'
<1>1. /\ FlashTypeOK /\ Placed /\ OneRound /\ config_index = 0
      /\ flash' = flash /\ sector' = sector
      /\ config_index' = Highest /\ last' = Readable /\ resetting' = FALSE
      /\ Highest = 0 => raw_config' = Default /\ pc' = "erase" /\ under' = FirstIndex
      /\ Highest # 0 => raw_config' = Readable.config /\ pc' = "idle" /\ under' = 0
  BY DEF FlashInv, Phase, NFPR_config_read
<1>2. /\ Highest \in Nat /\ Highest <= MaxIndex
      /\ Highest = 0 => Readable = Blank
      /\ Highest # 0 => Readable = flash[Highest % Banks] /\ Highest % Banks \in BankNumbers
  BY <1>1, ReadableIs
<1>3. Readable \in Records
  BY <1>1, <1>2, Contained DEF FlashTypeOK
<1>4. Readable.config \in Contents
  BY <1>3 DEF Records
<1>5. FlashTypeOK'
  <2>1. config_index' \in 0 .. MaxIndex /\ under' \in 0 .. MaxIndex
    BY <1>1, <1>2, Sizes
  <2>2. raw_config' \in Contents /\ pc' \in {"erase", "idle"}
    BY <1>1, <1>4, Contained
  <2> QED
    BY <1>1, <1>3, <2>1, <2>2 DEF FlashTypeOK
<1>6. Highest' = Highest /\ Readable' = Readable /\ Placed' /\ OneRound'
  BY <1>1 DEF Highest, Readable, Placed, OneRound
<1>7. Highest = 0 => new_index' = FirstIndex /\ NewSector'
  <2>1. Highest = 0 => new_index' = FirstIndex
    BY <1>1 DEF new_index
  <2>2. NewSector
    BY <1>1, NewIndexIs
  <2>3. new_index = FirstIndex
    BY <1>1 DEF new_index
  <2> QED
    BY <2>1, <2>2, <2>3 DEF NewSector
<1>8. Phase'
  BY <1>1, <1>6, <1>7, Sizes DEF Phase, Idle, Erasing, Saving
<1> QED
  BY <1>1, <1>5, <1>6, <1>8 DEF FlashInv

\* A save begins.
LEMMA SaveKeeps ==
  ASSUME FlashInv, NEW c \in Configs, NFPR_config_save(c)
  PROVE  FlashInv'
<1>1. /\ FlashTypeOK /\ Placed /\ OneRound /\ Idle /\ new_index <= MaxIndex
      /\ raw_config' = c /\ under' = new_index
      /\ pc' = IF NewSector THEN "erase" ELSE "header"
      /\ UNCHANGED <<flash, config_index, sector, last, resetting>>
  BY DEF FlashInv, Phase, NFPR_config_save
<1>2. /\ Highest' = Highest /\ Readable' = Readable /\ Placed' /\ OneRound'
      /\ new_index' = new_index
  BY <1>1 DEF Highest, Readable, Placed, OneRound, new_index
<1>3. NewSector' <=> NewSector
  BY <1>2 DEF NewSector
<1>4. FlashTypeOK'
  BY <1>1, NewIndexIs, Sizes, Contained DEF FlashTypeOK
<1>5. Phase'
  BY <1>1, <1>2, <1>3 DEF Phase, Idle, Erasing, Heading, Saving
<1> QED
  BY <1>2, <1>4, <1>5 DEF FlashInv

\* The sector is erased.
LEMMA EraseKeeps ==
  ASSUME FlashInv, EraseSector
  PROVE  FlashInv'
<1>1. /\ FlashTypeOK /\ Placed /\ OneRound /\ Erasing /\ pc = "erase"
      /\ flash' = Erased(SectorOf(Bank)) /\ pc' = "header"
      /\ UNCHANGED <<raw_config, config_index, sector, last, under, resetting>>
  BY DEF FlashInv, Phase, EraseSector
<1>2. flash' = [b \in BankNumbers |->
                  IF SectorOf(b) = SectorOf(Bank) THEN Blank ELSE flash[b]]
  BY <1>1 DEF Erased
<1>3. \A b \in BankNumbers : flash'[b] = flash[b] \/ flash'[b] = Blank
  BY <1>2
<1>4. flash' \in Flashes
  BY <1>1, <1>2, Contained DEF FlashTypeOK, Flashes
<1>5. Highest # 0 => flash'[Highest % Banks] = flash[Highest % Banks]
  BY <1>1, <1>2, HighestElsewhere, ReadableIs
<1>6. Placed' /\ OneRound' /\ Highest' = Highest /\ Readable' = Readable
  BY <1>1, <1>3, <1>4, <1>5, ErasingKeeps
<1>7. new_index' = new_index /\ Bank' = Bank
  BY <1>1 DEF new_index, Bank
<1>8. \A b \in BankNumbers : SectorOf(b) = SectorOf(Bank) => flash'[b] = Blank
  BY <1>2
<1>9. FlashTypeOK'
  BY <1>1, <1>4 DEF FlashTypeOK, Flashes
<1>10. Phase'
  BY <1>1, <1>6, <1>7, <1>8 DEF Phase, Erasing, Heading, Saving
<1> QED
  BY <1>6, <1>9, <1>10 DEF FlashInv

\* The header makes the new record the highest.
LEMMA HeaderKeeps ==
  ASSUME FlashInv, ProgramHeader
  PROVE  FlashInv'
<1>1. /\ FlashTypeOK /\ Placed /\ OneRound /\ Heading /\ pc = "header"
      /\ flash' = IF flash[Bank] = Blank
                  THEN [flash EXCEPT ![Bank] = Record(new_index, "torn")] ELSE flash
      /\ pc' = "body"
      /\ UNCHANGED <<raw_config, config_index, sector, last, under, resetting>>
  BY DEF FlashInv, Phase, ProgramHeader
<1>2. /\ flash[Bank] = Blank /\ Highest < new_index
      /\ \A b \in BankNumbers :
           SectorOf(b) = SectorOf(Bank)
             => \/ flash[b] = Blank
                \/ flash[b].index # 0 /\ flash[b].index - b = new_index - Bank
  BY <1>1, NextIsBlank
<1>3. /\ new_index \in Nat /\ new_index # 0 /\ Bank \in BankNumbers /\ Highest \in Nat
      /\ new_index <= MaxIndex
  BY <1>1, NewIndexIs, ReadableIs DEF Heading, Saving
<1>4. /\ flash' \in Flashes
      /\ flash'[Bank] = Record(new_index, "torn")
      /\ \A b \in BankNumbers : b # Bank => flash'[b] = flash[b]
  <2>1. flash' = [flash EXCEPT ![Bank] = Record(new_index, "torn")]
    BY <1>1, <1>2
  <2>2. Record(new_index, "torn") \in Records
    BY <1>3, Contained, Sizes
  <2>3. flash \in [BankNumbers -> Records]
    BY <1>1 DEF FlashTypeOK
  <2> QED
    BY <1>3, <2>1, <2>2, <2>3 DEF Flashes
<1>5. flash'[Bank].index = new_index /\ flash[Bank].index = 0
  BY <1>2, <1>4 DEF Record, Blank
<1>6. Placed'
  BY <1>1, <1>4, <1>5 DEF Placed, Bank
<1>7. OneRound'
  <2> SUFFICES ASSUME NEW a \in BankNumbers, NEW b \in BankNumbers,
                      SectorOf(a) = SectorOf(b), flash'[a].index # 0
               PROVE  \/ flash'[b] = Blank
                      \/ flash'[b].index # 0 /\ flash'[b].index - b = flash'[a].index - a
    BY DEF OneRound
  <2>1. CASE a # Bank /\ b # Bank
    BY <1>1, <1>4, <2>1 DEF OneRound
  <2>2. CASE a = Bank /\ b # Bank
    BY <1>2, <1>4, <1>5, <2>2
  <2>3. CASE a # Bank /\ b = Bank
    <3>1. flash'[a] = flash[a] /\ flash[a] # Blank
      BY <1>4, <2>3 DEF Blank, Record
    <3> QED
      BY <1>2, <1>3, <1>5, <2>3, <3>1
  <2>4. CASE a = Bank /\ b = Bank
    BY <2>4
  <2> QED
    BY <2>1, <2>2, <2>3, <2>4
<1>8. Highest' = new_index
  <2>1. Highest' = HighestIn(flash')
    BY DEF Highest, HighestIn
  <2>2. ASSUME NEW b \in BankNumbers PROVE flash'[b].index <= new_index
    <3>1. flash[b].index \in Nat /\ flash[b].index <= Highest
      BY <1>1, ReadableIs
    <3> QED
      BY <1>2, <1>3, <1>4, <1>5, <3>1
  <2>3. HighestIn(flash') = flash'[Bank].index
    BY <1>3, <1>4, <1>5, <2>2, HighestIsUnique
  <2> QED
    BY <1>5, <2>1, <2>3
<1>9. new_index' = new_index /\ Bank' = Bank
  BY <1>1 DEF new_index, Bank
<1>10. FlashTypeOK'
  BY <1>1, <1>4 DEF FlashTypeOK, Flashes
<1>11. Phase'
  BY <1>1, <1>4, <1>8, <1>9 DEF Phase, Heading, Filling, Saving
<1> QED
  BY <1>6, <1>7, <1>10, <1>11 DEF FlashInv

\* The body completes it.
LEMMA BodyKeeps ==
  ASSUME FlashInv, ProgramBody
  PROVE  FlashInv'
<1>1. /\ FlashTypeOK /\ Placed /\ OneRound /\ Filling
      /\ flash' = IF flash[Bank] = Record(new_index, "torn")
                  THEN [flash EXCEPT ![Bank] = Record(new_index, raw_config)] ELSE flash
      /\ config_index' = new_index
      /\ last' = Record(new_index, raw_config) /\ under' = 0 /\ pc' = "idle"
      /\ UNCHANGED <<raw_config, sector, resetting>>
  BY DEF FlashInv, Phase, ProgramBody
<1>2. /\ new_index \in Nat /\ new_index # 0 /\ Bank \in BankNumbers
      /\ new_index <= MaxIndex /\ Highest = new_index /\ ~resetting
      /\ flash[Bank] = Record(new_index, "torn")
  BY <1>1, NewIndexIs DEF Filling, Saving
<1>3. Record(new_index, raw_config) \in Records /\ flash \in [BankNumbers -> Records]
  BY <1>1, <1>2, Contained, Sizes DEF FlashTypeOK
<1>4. /\ flash' \in Flashes
      /\ flash'[Bank] = Record(new_index, raw_config)
      /\ \A b \in BankNumbers : b # Bank => flash'[b] = flash[b]
  <2>1. flash' = [flash EXCEPT ![Bank] = Record(new_index, raw_config)]
    BY <1>1, <1>2
  <2> QED
    BY <1>2, <1>3, <2>1 DEF Flashes
<1>5. flash'[Bank].index = new_index /\ flash[Bank].index = new_index
  BY <1>2, <1>4 DEF Record
<1>6. \A b \in BankNumbers : flash'[b].index = flash[b].index
  BY <1>4, <1>5
<1>7. Placed'
  BY <1>1, <1>6 DEF Placed
<1>8. OneRound'
  <2> SUFFICES ASSUME NEW a \in BankNumbers, NEW b \in BankNumbers,
                      SectorOf(a) = SectorOf(b), flash'[a].index # 0
               PROVE  \/ flash'[b] = Blank
                      \/ flash'[b].index # 0 /\ flash'[b].index - b = flash'[a].index - a
    BY DEF OneRound
  <2>1. \/ flash[b] = Blank
        \/ flash[b].index # 0 /\ flash[b].index - b = flash[a].index - a
    BY <1>1, <1>6 DEF OneRound
  <2>2. flash[b] = Blank => b # Bank
    BY <1>2, <1>5 DEF Blank, Record
  <2> QED
    BY <1>4, <1>6, <2>1, <2>2
<1>9. Highest' = new_index
  <2>1. Highest' = HighestIn(flash')
    BY DEF Highest, HighestIn
  <2>2. \A b \in BankNumbers : flash'[b].index <= flash'[Bank].index
    BY <1>1, <1>2, <1>5, <1>6, ReadableIs
  <2>3. HighestIn(flash') = flash'[Bank].index
    BY <1>2, <1>4, <2>2, HighestIsUnique
  <2> QED
    BY <1>5, <2>1, <2>3
<1>10. Readable' = last'
  BY <1>1, <1>2, <1>4, <1>9 DEF Readable, Bank
<1>11. FlashTypeOK'
  BY <1>1, <1>2, <1>3, <1>4, Sizes DEF FlashTypeOK, Flashes
<1>12. Phase'
  BY <1>1, <1>2, <1>9, <1>10 DEF Phase, Idle
<1> QED
  BY <1>7, <1>8, <1>11, <1>12 DEF FlashInv


\* A reset erases sector by sector.
LEMMA ResetKeeps ==
  ASSUME FlashInv, HMI_cmd_reset_to_default \/ EraseNext
  PROVE  FlashInv'
<1>1. FlashTypeOK /\ Placed /\ OneRound /\ Phase
  BY DEF FlashInv
<1>2. CASE HMI_cmd_reset_to_default
  <2>1. /\ pc' = "reset" /\ sector' = 0 /\ resetting' = TRUE
        /\ UNCHANGED <<flash, raw_config, config_index, last, under>>
    BY <1>2 DEF HMI_cmd_reset_to_default
  <2>2. FlashTypeOK'
    BY <1>1, <2>1, Contained DEF FlashTypeOK
  <2>3. Placed' /\ OneRound'
    BY <1>1, <2>1 DEF Placed, OneRound
  <2>4. Phase'
    BY <2>1 DEF Phase
  <2> QED
    BY <2>2, <2>3, <2>4 DEF FlashInv
<1>3. CASE EraseNext
  <2>1. /\ flash' = [b \in BankNumbers |-> IF SectorOf(b) = sector THEN Blank ELSE flash[b]]
        /\ pc = "reset" /\ UNCHANGED <<last, under, resetting>>
        /\ \/ /\ sector < Max(Sectors) /\ sector' = sector + 1
              /\ UNCHANGED <<raw_config, config_index, pc>>
           \/ sector' = 0 /\ pc' = "off" /\ raw_config' = Default /\ config_index' = 0
    BY <1>3 DEF EraseNext, Erased
  <2>2. flash' \in Flashes
    BY <1>1, <2>1, Contained DEF FlashTypeOK, Flashes
  <2>3. \A b \in BankNumbers : flash'[b] = flash[b] \/ flash'[b] = Blank
    BY <2>1
  <2>4. Placed' /\ OneRound'
    BY <1>1, <2>2, <2>3, ErasingKeeps
  <2>5. FlashTypeOK'
    <3>1. sector' \in Sectors
      BY <1>1, <2>1, Contained DEF FlashTypeOK
    <3>2. /\ raw_config' \in Contents /\ config_index' \in 0 .. MaxIndex
          /\ pc' \in {"reset", "off"}
      BY <1>1, <2>1, Contained, Sizes DEF FlashTypeOK
    <3> QED
      BY <1>1, <2>1, <2>2, <3>1, <3>2 DEF FlashTypeOK, Flashes
  <2>6. Phase'
    BY <1>1, <2>1 DEF Phase, LatestKept
  <2> QED
    BY <2>4, <2>5, <2>6 DEF FlashInv
<1> QED
  BY <1>2, <1>3

\* A power failure leaves records or blank banks; unless during a reset, the
\* highest record stays.
LEMMA FailureErases ==
  ASSUME FlashInv, PowerFail
  PROVE  /\ flash' \in Flashes
         /\ \A b \in BankNumbers : flash'[b] = flash[b] \/ flash'[b] = Blank
         /\ pc # "erase" /\ pc # "reset" => flash' = flash
         /\ pc # "reset" => Highest' = Highest /\ Readable' = Readable
<1>1. /\ FlashTypeOK /\ Placed /\ OneRound /\ Phase
      /\ pc # "off" /\ pc' = "off" /\ raw_config' = Default
      /\ config_index' = 0 /\ sector' = 0
      /\ UNCHANGED <<last, under, resetting>>
      /\ flash' \in CASE pc = "erase" -> PartlyErased(SectorOf(Bank))
                      [] pc = "reset" -> PartlyErased(sector)
                      [] OTHER        -> {flash}
  BY DEF FlashInv, PowerFail
<1>2. /\ pc = "erase" => flash' \in PartlyErased(SectorOf(Bank))
      /\ pc = "reset" => flash' \in PartlyErased(sector)
      /\ pc # "erase" /\ pc # "reset" => flash' = flash
  BY <1>1
<1>3. ASSUME NEW s, flash' \in PartlyErased(s)
      PROVE  /\ flash' \in Flashes
             /\ \A b \in BankNumbers : flash'[b] = flash[b] \/ flash'[b] = Blank
             /\ \A b \in BankNumbers : SectorOf(b) # s => flash'[b] = flash[b]
  <2>1. PICK gone \in SUBSET {b \in BankNumbers : SectorOf(b) = s} :
          flash' = [b \in BankNumbers |-> IF b \in gone THEN Blank ELSE flash[b]]
    BY <1>3 DEF PartlyErased
  <2> QED
    BY <1>1, <2>1, Contained DEF FlashTypeOK, Flashes
<1>4. /\ flash' \in Flashes
      /\ \A b \in BankNumbers : flash'[b] = flash[b] \/ flash'[b] = Blank
  <2>1. flash \in Flashes
    BY <1>1 DEF FlashTypeOK, Flashes
  <2> QED
    BY <1>2, <1>3, <2>1
<1>5. pc # "reset" => Highest' = Highest /\ Readable' = Readable
  <2>1. CASE pc = "erase"
    <3>1. Highest # 0 => flash'[Highest % Banks] = flash[Highest % Banks]
      BY <1>1, <1>2, <1>3, <2>1, HighestElsewhere, ReadableIs
    <3> QED
      BY <1>1, <1>4, <3>1, ErasingKeeps
  <2>2. CASE pc # "erase" /\ pc # "reset"
    BY <1>2, <2>2 DEF Highest, Readable
  <2> QED
    BY <2>1, <2>2
<1> QED
  BY <1>2, <1>4, <1>5

\* Power may fail at any of these steps, or in the middle of an erasure.
LEMMA PowerFailKeeps ==
  ASSUME FlashInv, PowerFail
  PROVE  FlashInv'
<1>1. /\ FlashTypeOK /\ Placed /\ OneRound /\ Phase
      /\ pc # "off" /\ pc' = "off" /\ raw_config' = Default
      /\ config_index' = 0 /\ sector' = 0
      /\ UNCHANGED <<last, under, resetting>>
  BY DEF FlashInv, PowerFail
<1>2. /\ flash' \in Flashes
      /\ \A b \in BankNumbers : flash'[b] = flash[b] \/ flash'[b] = Blank
  BY FailureErases
<1>3. Placed' /\ OneRound'
  BY <1>1, <1>2, ErasingKeeps
<1>4. pc # "reset" => Highest' = Highest /\ Readable' = Readable
  BY FailureErases
<1>5. FlashTypeOK'
  BY <1>1, <1>2, Contained, Sizes DEF FlashTypeOK, Flashes
<1>6. LatestKept'
  <2>1. CASE pc \in {"idle", "erase", "header"}
    BY <1>1, <1>4, <2>1 DEF Phase, Idle, Erasing, Heading, LatestKept
  <2>2. CASE pc = "body"
    <3>1. /\ under = new_index /\ Highest = new_index /\ new_index # 0
      BY <1>1, <2>2, NewIndexIs DEF Phase, Filling, Saving
    <3>2. Readable.index = Highest
      BY <1>1, <3>1, ReadableIs
    <3> QED
      BY <1>1, <1>4, <2>2, <3>1, <3>2 DEF LatestKept
  <2>3. CASE pc = "reset"
    BY <1>1, <2>3 DEF Phase, LatestKept
  <2> QED
    BY <1>1, <2>1, <2>2, <2>3 DEF FlashTypeOK
<1>7. Phase'
  BY <1>1, <1>6 DEF Phase
<1> QED
  BY <1>3, <1>5, <1>7 DEF FlashInv

-----------------------------------------------------------------------------
(* The theorems.                                                            *)

LEMMA FlashInvariant == Spec => []FlashInv
<1>1. ASSUME Init PROVE FlashInv
  <2>1. /\ flash \in [BankNumbers -> {Blank, Garbage}]
        /\ raw_config = Default /\ config_index = 0 /\ pc = "off" /\ sector = 0
        /\ last = Blank /\ under = 0 /\ resetting = FALSE
    BY <1>1 DEF Init
  <2>2. Garbage \in Records /\ 0 \in 0 .. MaxIndex
    BY Sizes, Contained DEF Garbage
  <2>3. FlashTypeOK
    BY <2>1, <2>2, Contained DEF FlashTypeOK
  <2>4. \A b \in BankNumbers : flash[b].index = 0
    BY <2>1 DEF Blank, Garbage, Record
  <2>5. Placed /\ OneRound
    BY <2>4 DEF Placed, OneRound
  <2>6. Highest = 0
    <3>1. flash \in Flashes /\ Highest = HighestIn(flash)
      BY <2>3 DEF FlashTypeOK, Flashes, Highest, HighestIn
    <3> QED
      BY <2>4, <3>1, HighestIsZero
  <2>7. Phase
    BY <2>1, <2>6 DEF Phase, LatestKept, Readable
  <2> QED
    BY <2>3, <2>5, <2>7 DEF FlashInv
<1>2. ASSUME FlashInv, [Next]_vars PROVE FlashInv'
  <2>1. CASE UNCHANGED vars
    BY <1>2, <2>1
       DEF vars, FlashInv, FlashTypeOK, Placed, OneRound, Phase, Idle, Erasing, Heading,
           Filling, Saving, LatestKept, Highest, Readable, new_index, Bank, NewSector
  <2> QED
    BY <1>2, <2>1, ReadKeeps, SaveKeeps, EraseKeeps, HeaderKeeps, BodyKeeps, ResetKeeps,
       PowerFailKeeps DEF Next
<1> QED
  BY <1>1, <1>2, PTL DEF Spec

\* Flash and RAM keep their types through saves, resets and power failures.
THEOREM FlashTypesHold == Spec => []FlashTypeOK
<1>1. FlashInv => FlashTypeOK
  BY DEF FlashInv
<1> QED
  BY <1>1, FlashInvariant, PTL

\* virt_EEPROM_write programs blank flash only, for any number of sectors and
\* banks, wherever power failed before.
THEOREM ProgramsBlankOnly == Spec => []BlankBeforeProgram
<1>1. FlashInv => BlankBeforeProgram
  BY NextIsBlank DEF BlankBeforeProgram
<1> QED
  BY <1>1, FlashInvariant, PTL

\* The configuration saved last, or the one being saved, is what the next start
\* reads, for any number of sectors and banks, wherever power fails.
THEOREM LatestSurvives == Spec => []LatestKept
<1>1. ASSUME FlashInv PROVE LatestKept
  <2>1. FlashTypeOK /\ Placed /\ Phase
    BY <1>1 DEF FlashInv
  <2>2. CASE pc \in {"idle", "erase", "header", "reset", "off"}
    BY <2>1, <2>2 DEF Phase, Idle, Erasing, Heading, LatestKept
  <2>3. CASE pc = "body"
    <3>1. under = new_index /\ Highest = new_index /\ new_index # 0
      BY <2>1, <2>3, NewIndexIs DEF Phase, Filling, Saving
    <3>2. Readable.index = Highest
      BY <2>1, <3>1, ReadableIs
    <3> QED
      BY <3>1, <3>2 DEF LatestKept
  <2> QED
    BY <2>1, <2>2, <2>3 DEF FlashTypeOK
<1> QED
  BY <1>1, FlashInvariant, PTL

-----------------------------------------------------------------------------
(* Flash and RAM implement the store of ConfigStore.                        *)

\* Only a blank record is without configuration.
Filled ==
  /\ raw_config # NoConfig
  /\ \A b \in BankNumbers : flash[b].index # 0 => flash[b].config # NoConfig

StoreInv == FlashInv /\ Filled

LEMMA Distinct ==
  /\ Default # NoConfig /\ NoConfig \notin Configs /\ "torn" # NoConfig
  /\ \A i, c : Record(i, c).index = i /\ Record(i, c).config = c
  /\ Blank.index = 0 /\ Blank.config = NoConfig
BY ConfigFlashAssumption DEF Record, Blank

\* What the next start finds is one of the configurations in flash, or none.
Found ==
  /\ Highest = 0 => Readable.config = NoConfig /\ Present = {}
  /\ Highest # 0 => Readable.config \in Present /\ Readable.config # NoConfig

LEMMA KeptIs == StoreInv => Found
<1> SUFFICES ASSUME StoreInv PROVE Found
  OBVIOUS
<1>1. FlashTypeOK /\ Placed /\ Filled
  BY DEF StoreInv, FlashInv
<1>2. CASE Highest = 0
  <2>1. \A b \in BankNumbers : flash[b].index = 0
    BY <1>1, <1>2, ReadableIs, HighestIsZero DEF FlashTypeOK, Flashes
  <2>2. Readable = Blank
    BY <1>1, <1>2, ReadableIs
  <2> QED
    BY <1>2, <2>1, <2>2, Distinct DEF Found, Present
<1>3. CASE Highest # 0
  <2> DEFINE h == Highest % Banks
  <2>1. h \in BankNumbers /\ flash[h].index # 0 /\ Readable = flash[h]
    BY <1>1, <1>3, ReadableIs
  <2> QED
    BY <1>1, <1>3, <2>1 DEF Found, Present, Filled
<1> QED
  BY <1>2, <1>3

\* No step writes a record without configuration.
LEMMA FilledKeeps ==
  ASSUME StoreInv, Next
  PROVE  Filled'
<1>1. FlashInv /\ Filled /\ FlashTypeOK /\ Placed
  BY DEF StoreInv, FlashInv
<1>2. flash \in [BankNumbers -> Records]
  BY <1>1 DEF FlashTypeOK
<1>3. ASSUME \A b \in BankNumbers : flash'[b] = flash[b] \/ flash'[b] = Blank
      PROVE  \A b \in BankNumbers : flash'[b].index # 0 => flash'[b].config # NoConfig
  BY <1>1, <1>3, Distinct DEF Filled
<1>4. ASSUME NEW c, c # NoConfig, NEW i, flash' = [flash EXCEPT ![Bank] = Record(i, c)]
      PROVE  \A b \in BankNumbers : flash'[b].index # 0 => flash'[b].config # NoConfig
  <2>1. \A b \in BankNumbers : flash'[b] = flash[b] \/ flash'[b] = Record(i, c)
    BY <1>2, <1>4
  <2> QED
    BY <1>1, <1>4, <2>1, Distinct DEF Filled
<1>5. CASE NFPR_config_read
  <2>1. flash' = flash
    BY <1>5 DEF NFPR_config_read
  <2>2. raw_config' = Default \/ (Highest # 0 /\ raw_config' = Readable.config)
    BY <1>5 DEF NFPR_config_read
  <2>3. raw_config' # NoConfig
    BY <2>2, KeptIs, Distinct DEF Found
  <2> QED
    BY <1>3, <2>1, <2>3 DEF Filled
<1>6. CASE \E c \in Configs : NFPR_config_save(c)
  <2>1. flash' = flash /\ raw_config' \in Configs
    BY <1>6 DEF NFPR_config_save
  <2> QED
    BY <1>3, <2>1, Distinct DEF Filled
<1>7. CASE EraseSector
  BY <1>1, <1>3, <1>7 DEF EraseSector, Erased, Filled
<1>8. CASE ProgramHeader
  <2>1. raw_config' = raw_config
    BY <1>8 DEF ProgramHeader
  <2>2. flash' = flash \/ flash' = [flash EXCEPT ![Bank] = Record(new_index, "torn")]
    BY <1>8 DEF ProgramHeader
  <2> QED
    BY <1>1, <1>3, <1>4, <2>1, <2>2, Distinct DEF Filled
<1>9. CASE ProgramBody
  <2>1. raw_config' = raw_config
    BY <1>9 DEF ProgramBody
  <2>2. flash' = flash \/ flash' = [flash EXCEPT ![Bank] = Record(new_index, raw_config)]
    BY <1>9 DEF ProgramBody
  <2> QED
    BY <1>1, <1>3, <1>4, <2>1, <2>2 DEF Filled
<1>10. CASE HMI_cmd_reset_to_default
  BY <1>1, <1>10 DEF HMI_cmd_reset_to_default, Filled
<1>11. CASE EraseNext
  <2>1. raw_config' \in {raw_config, Default}
    BY <1>11 DEF EraseNext
  <2>2. \A b \in BankNumbers : flash'[b] = flash[b] \/ flash'[b] = Blank
    BY <1>11 DEF EraseNext, Erased
  <2> QED
    BY <1>1, <1>3, <2>1, <2>2, Distinct DEF Filled
<1>12. CASE PowerFail
  BY <1>1, <1>3, <1>12, FailureErases, Distinct DEF Filled, PowerFail
<1> QED
  BY <1>5, <1>6, <1>7, <1>8, <1>9, <1>10, <1>11, <1>12 DEF Next

LEMMA StoreInvariant == Spec => []StoreInv
<1>1. Init => Filled
  <2> SUFFICES ASSUME Init PROVE Filled
    OBVIOUS
  <2>1. \A b \in BankNumbers : flash[b].index = 0
    BY DEF Init, Blank, Garbage, Record
  <2> QED
    BY <2>1, Distinct DEF Init, Filled
<1>2. ASSUME StoreInv, [Next]_vars PROVE Filled'
  BY <1>2, FilledKeeps DEF StoreInv, Filled, vars
<1> QED
  BY <1>1, <1>2, FlashInvariant, PTL DEF Spec, StoreInv

\* The steps of the store, in terms of flash and RAM.
LEMMA StoreSteps ==
  /\ /\ pc = "off" /\ pc' # "off" /\ resetting' = FALSE
     /\ Pending' = IF Readable.config = NoConfig THEN Default ELSE NoConfig
     /\ Readable'.config = Readable.config /\ Present' = Present
     => Store!Next
  /\ /\ pc # "off" /\ pc' # "off" /\ resetting = FALSE /\ resetting' = resetting
     /\ Pending = NoConfig /\ Pending' \in Configs
     /\ Readable'.config = Readable.config /\ Present' = Present
     => Store!Next
  /\ /\ pc # "off" /\ pc' # "off" /\ resetting' = resetting
     /\ Pending # NoConfig /\ Pending' = Pending
     /\ Present' \subseteq Present
     /\ Readable.config = NoConfig \/ Readable.config \in Present'
     /\ Readable'.config = Readable.config
     => Store!Next
  /\ /\ pc # "off" /\ pc' # "off" /\ resetting' = resetting
     /\ Pending # NoConfig /\ Pending' = Pending
     /\ Readable'.config = "torn" /\ Present' = Present \cup {"torn"}
     => Store!Next
  /\ /\ pc # "off" /\ pc' # "off" /\ resetting' = resetting
     /\ Pending # NoConfig /\ Pending' = NoConfig
     /\ Readable.config = "torn" /\ Readable'.config = Pending
     /\ Present' \in {Present \cup {Pending}, (Present \ {"torn"}) \cup {Pending}}
     => Store!Next
  /\ /\ pc # "off" /\ pc' # "off" /\ resetting' = TRUE
     /\ Pending = NoConfig /\ Pending' = Pending
     /\ Readable'.config = Readable.config /\ Present' = Present
     => Store!Next
  /\ /\ pc # "off" /\ resetting = TRUE /\ resetting' = resetting
     /\ Pending' = Pending /\ Present' \subseteq Present
     /\ Readable'.config \in IF Present' = {} THEN {NoConfig} ELSE Present'
     => Store!Next
  /\ /\ pc # "off" /\ pc' = "off" /\ resetting' = resetting
     /\ Pending' = NoConfig /\ Present' \subseteq Present
     /\ Pending = NoConfig => Present' = Present
     /\ Readable.config = NoConfig \/ Readable.config \in Present'
     /\ Readable'.config = Readable.config
     => Store!Next
BY DEF Store!Next, Store!Start, Store!Save, Store!Erase, Store!MakeRoom, Store!Tear,
       Store!Complete, Store!Reset, Store!Lose, Store!PowerFail

\* What is read depends on flash only, and so does what flash holds.
LEMMA SameFlash ==
  ASSUME flash' = flash
  PROVE  Highest' = Highest /\ Readable' = Readable /\ Present' = Present
BY DEF Highest, Readable, Present

\* Erasing banks leaves some of the configurations.
LEMMA ErasingLeaves ==
  ASSUME \A b \in BankNumbers : flash'[b] = flash[b] \/ flash'[b] = Blank
  PROVE  Present' \subseteq Present
BY Distinct DEF Present

\* The start, the command "save" and the erasure of a sector.
LEMMA StartsImplement ==
  ASSUME StoreInv, StoreInv',
         NFPR_config_read \/ (\E c \in Configs : NFPR_config_save(c)) \/ EraseSector
  PROVE  Store!Next
<1>1. FlashTypeOK /\ Placed /\ OneRound /\ Phase /\ Filled
  BY DEF StoreInv, FlashInv
<1>2. Found /\ Found'
  BY KeptIs, PTL
<1>3. CASE NFPR_config_read
  <2>1. /\ flash' = flash /\ pc = "off" /\ resetting' = FALSE
        /\ Highest = 0 => raw_config' = Default /\ pc' = "erase"
        /\ Highest # 0 => pc' = "idle"
    BY <1>3 DEF NFPR_config_read
  <2>2. Pending' = IF Readable.config = NoConfig THEN Default ELSE NoConfig
    BY <1>2, <2>1 DEF Found, Pending
  <2> QED
    BY <2>1, <2>2, SameFlash, StoreSteps
<1>4. CASE \E c \in Configs : NFPR_config_save(c)
  <2>1. /\ flash' = flash /\ pc = "idle" /\ pc' \in {"erase", "header"}
        /\ raw_config' \in Configs /\ resetting' = resetting
    BY <1>4 DEF NFPR_config_save
  <2>2. resetting = FALSE
    BY <1>1, <2>1 DEF Phase, Idle, FlashTypeOK
  <2>3. Pending = NoConfig /\ Pending' \in Configs
    BY <2>1 DEF Pending
  <2> QED
    BY <2>1, <2>2, <2>3, SameFlash, StoreSteps
<1>5. CASE EraseSector
  <2>1. /\ pc = "erase" /\ pc' = "header" /\ raw_config' = raw_config
        /\ resetting' = resetting
        /\ flash' = [b \in BankNumbers |->
                       IF SectorOf(b) = SectorOf(Bank) THEN Blank ELSE flash[b]]
    BY <1>5 DEF EraseSector, Erased
  <2>2. \A b \in BankNumbers : flash'[b] = flash[b] \/ flash'[b] = Blank
    BY <2>1
  <2>3. Highest # 0 => flash'[Highest % Banks] = flash[Highest % Banks]
    BY <1>1, <2>1, HighestElsewhere, ReadableIs DEF StoreInv
  <2>4. Highest' = Highest /\ Readable' = Readable
    <3>1. flash' \in Flashes
      BY DEF StoreInv, FlashInv, FlashTypeOK, Flashes
    <3> QED
      BY <1>1, <2>2, <2>3, <3>1, ErasingKeeps
  <2>5. Pending # NoConfig /\ Pending' = Pending
    BY <1>1, <2>1 DEF Pending, Filled
  <2>6. Readable.config = NoConfig \/ Readable.config \in Present'
    BY <1>2, <2>4 DEF Found
  <2> QED
    BY <2>1, <2>2, <2>4, <2>5, <2>6, ErasingLeaves, StoreSteps
<1> QED
  BY <1>3, <1>4, <1>5

\* The two steps of programming.
LEMMA ProgramsImplement ==
  ASSUME StoreInv, StoreInv', ProgramHeader \/ ProgramBody
  PROVE  Store!Next
<1>1. FlashTypeOK /\ Placed /\ Phase /\ Filled
  BY DEF StoreInv, FlashInv
<1>2. flash \in [BankNumbers -> Records] /\ flash' \in Flashes
  BY DEF StoreInv, FlashInv, FlashTypeOK, Flashes
<1>3. ASSUME ProgramHeader
      PROVE  /\ flash[Bank].index = 0 /\ pc = "header" /\ pc' = "body"
             /\ flash' = [flash EXCEPT ![Bank] = Record(new_index, "torn")]
             /\ UNCHANGED <<raw_config, config_index, resetting>>
  <2>1. flash[Bank] = Blank /\ pc = "header"
    BY <1>3, NextIsBlank DEF StoreInv, ProgramHeader
  <2> QED
    BY <1>3, <2>1, Distinct DEF ProgramHeader
<1>4. ASSUME ProgramBody
      PROVE  /\ flash[Bank] = Record(new_index, "torn") /\ pc = "body" /\ pc' = "idle"
             /\ flash' = [flash EXCEPT ![Bank] = Record(new_index, raw_config)]
             /\ UNCHANGED <<raw_config, resetting>>
  BY <1>1, <1>4 DEF Phase, Filling, ProgramBody
<1>5. /\ Bank \in BankNumbers /\ new_index # 0
      /\ \A i, c : Record(i, c).index = i /\ Record(i, c).config = c
  BY <1>1, NewIndexIs, Distinct
<1>6. CASE ProgramHeader
  <2>1. Readable'.config = "torn"
    <3>1. Highest' = new_index /\ Bank' = Bank /\ new_index' = new_index
      <4>1. (Phase /\ pc = "body" => Highest = new_index)'
        BY DEF Phase, Filling
      <4>2. new_index' = new_index /\ Bank' = Bank /\ pc' = "body"
        BY <1>3, <1>6 DEF new_index, Bank
      <4> QED
        BY <4>1, <4>2 DEF StoreInv, FlashInv
    <3>2. Readable' = flash'[Bank]
      BY <1>5, <3>1 DEF Readable, Bank
    <3> QED
      BY <1>2, <1>3, <1>5, <1>6, <3>2
  <2>2. Present' = Present \cup {"torn"}
    <3>1. flash'[Bank].index # 0 /\ flash'[Bank].config = "torn"
      BY <1>2, <1>3, <1>5, <1>6
    <3>2. \A b \in BankNumbers : b # Bank => flash'[b] = flash[b]
      BY <1>2, <1>3, <1>6
    <3> QED
      BY <1>3, <1>5, <1>6, <3>1, <3>2 DEF Present
  <2>3. Pending # NoConfig /\ Pending' = Pending
    BY <1>1, <1>3, <1>6 DEF Pending, Filled
  <2> QED
    BY <1>3, <1>6, <2>1, <2>2, <2>3, StoreSteps
<1>7. CASE ProgramBody
  <2>1. Readable = flash[Bank] /\ Highest = new_index
    BY <1>1, <1>4, <1>5, <1>7 DEF Phase, Filling, Readable, Bank
  <2>2. \A b \in BankNumbers : b # Bank => flash'[b] = flash[b]
    BY <1>2, <1>4, <1>7
  <2>3. flash'[Bank].index = new_index /\ flash'[Bank].config = raw_config
    BY <1>2, <1>4, <1>5, <1>7
  <2>4. flash[Bank].index = new_index /\ flash[Bank].config = "torn"
    BY <1>4, <1>5, <1>7
  <2>5. Readable'.config = raw_config
    <3>1. \A b \in BankNumbers : flash'[b].index = flash[b].index
      BY <2>2, <2>3, <2>4
    <3>2. {flash'[b].index : b \in BankNumbers} = {flash[b].index : b \in BankNumbers}
      BY <3>1
    <3>3. Highest' = Highest
      BY <3>2 DEF Highest
    <3> QED
      BY <1>5, <2>1, <2>3, <3>3 DEF Readable, Bank
  <2>6. Present' \in {Present \cup {raw_config}, (Present \ {"torn"}) \cup {raw_config}}
    <3> DEFINE other == {flash[b].config : b \in {x \in BankNumbers \ {Bank} : flash[x].index # 0}}
    <3>1. Present = other \cup {"torn"}
      BY <1>5, <2>4 DEF Present
    <3>2. Present' = other \cup {raw_config}
      BY <1>5, <2>2, <2>3 DEF Present
    <3> QED
      BY <3>1, <3>2
  <2>7. Pending = raw_config /\ Pending # NoConfig /\ Pending' = NoConfig
    BY <1>1, <1>4, <1>7 DEF Pending, Filled
  <2> QED
    BY <1>4, <1>7, <2>1, <2>4, <2>5, <2>6, <2>7, StoreSteps
<1> QED
  BY <1>6, <1>7

\* Resets and power failures.
LEMMA LossesImplement ==
  ASSUME StoreInv, StoreInv', HMI_cmd_reset_to_default \/ EraseNext \/ PowerFail
  PROVE  Store!Next
<1>1. FlashTypeOK /\ Phase
  BY DEF StoreInv, FlashInv
<1>2. Found /\ Found'
  BY KeptIs, PTL
<1>3. Readable'.config \in IF Present' = {} THEN {NoConfig} ELSE Present'
  BY <1>2 DEF Found
<1>4. CASE HMI_cmd_reset_to_default
  <2>1. flash' = flash /\ pc = "idle" /\ pc' = "reset" /\ resetting' = TRUE
    BY <1>4 DEF HMI_cmd_reset_to_default
  <2>2. Pending = NoConfig /\ Pending' = Pending
    BY <2>1 DEF Pending
  <2> QED
    BY <2>1, <2>2, SameFlash, StoreSteps
<1>5. CASE EraseNext
  <2>1. pc = "reset" /\ pc' \in {"reset", "off"} /\ resetting' = resetting
    BY <1>5 DEF EraseNext
  <2>2. resetting = TRUE
    BY <1>1, <2>1 DEF Phase, FlashTypeOK
  <2>3. Present' \subseteq Present
    BY <1>5, ErasingLeaves DEF EraseNext, Erased
  <2>4. Pending' = Pending
    BY <2>1 DEF Pending
  <2> QED
    BY <1>3, <2>1, <2>2, <2>3, <2>4, StoreSteps
<1>6. CASE PowerFail
  <2>1. pc # "off" /\ pc' = "off" /\ resetting' = resetting
    BY <1>6 DEF PowerFail
  <2>2. Pending' = NoConfig
    BY <2>1 DEF Pending
  <2>3. Present' \subseteq Present
    BY <1>6, FailureErases, ErasingLeaves DEF StoreInv
  <2>4. CASE pc = "reset"
    <3>1. resetting = TRUE
      BY <1>1, <2>4 DEF Phase, FlashTypeOK
    <3>2. Pending = NoConfig
      BY <2>4 DEF Pending
    <3> QED
      BY <1>3, <2>1, <2>2, <2>3, <3>1, <3>2, StoreSteps
  <2>5. CASE pc # "reset"
    <3>1. Highest' = Highest /\ Readable' = Readable
      BY <1>6, <2>5, FailureErases DEF StoreInv
    <3>2. Readable.config = NoConfig \/ Readable.config \in Present'
      BY <1>2, <3>1 DEF Found
    <3>3. ASSUME Pending = NoConfig PROVE Present' = Present
      <4>1. CASE pc = "idle"
        BY <1>6, <4>1, FailureErases, SameFlash DEF StoreInv
      <4>2. CASE pc # "idle"
        <5>1. pc \in {"erase", "header", "body"}
          BY <1>1, <2>1, <2>5, <4>2 DEF FlashTypeOK
        <5> QED
          BY <3>3, <5>1 DEF Pending, StoreInv, Filled
      <4> QED
        BY <4>1, <4>2
    <3> QED
      BY <2>1, <2>2, <2>3, <3>1, <3>2, <3>3, StoreSteps
  <2> QED
    BY <2>4, <2>5
<1> QED
  BY <1>4, <1>5, <1>6

\* The flash log is the store its operator was promised, for any numbers of
\* sectors and records, any configurations and power failures at any step.
THEOREM FlashImplementsStore == Spec => StoreImplemented
<1>1. Init => Store!Init
  <2> SUFFICES ASSUME Init PROVE Store!Init
    OBVIOUS
  <2>1. \A b \in BankNumbers : flash[b].index = 0
    BY DEF Init, Blank, Garbage, Record
  <2>2. {flash[b].index : b \in BankNumbers} = {0}
    <3>1. 0 \in BankNumbers
      BY Sizes DEF BankNumbers
    <3> QED
      BY <2>1, <3>1
  <2>3. Max({0}) = 0
    BY DEF Max
  <2>4. Readable = Blank
    BY <2>2, <2>3 DEF Highest, Readable
  <2>5. Present = {} /\ Pending = NoConfig
    BY <2>1 DEF Present, Pending, Init
  <2> QED
    BY <2>4, <2>5, Distinct DEF Init, Store!Init
<1>2. ASSUME StoreInv, StoreInv', [Next]_vars PROVE [Store!Next]_(Store!vars)
  <2>1. CASE UNCHANGED vars
    BY <2>1, SameFlash DEF vars, Store!vars, Pending
  <2> QED
    BY <1>2, <2>1, StartsImplement, ProgramsImplement, LossesImplement DEF Next
<1> QED
  BY <1>1, <1>2, StoreInvariant, PTL DEF Spec, StoreImplemented, Store!Spec

=============================================================================
