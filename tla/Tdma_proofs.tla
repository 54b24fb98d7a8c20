---------------------------- MODULE Tdma_proofs -----------------------------
(***************************************************************************)
(* Proofs about the time slots of any cell, with any number of slots and    *)
(* clients (seven at most) and any timings that TimingAssumption allows:    *)
(* replaced allocations go out of use, a frame's slots are all handed out,  *)
(* bursts do not overlap, and every client's turn comes.                    *)
(***************************************************************************)
EXTENDS Tdma, FiniteSetTheorems, WellFoundedInduction, TLAPS

IsFunction(f) == f = [c \in Clients |-> f[c]]

\* The age of an allocation counts its bursts: the first one is in the frame the
\* allocation came with, the others replace lost allocations.  A slow client's
\* bursts are not counted in superseded.
AgeOf(c) ==
  /\ alloc_age[c] \in 0..2 /\ superseded[c] \in Nat
  /\ ~alloc[c].slow => superseded[c] + 1 <= alloc_age[c]
  /\ alloc[c].slow => superseded[c] = 0

AgeInv ==
  /\ IsFunction(alloc) /\ IsFunction(alloc_age) /\ IsFunction(superseded)
  /\ \A c \in Clients : AgeOf(c)

\* A client that hears a top may send one burst more.
LEMMA HearTopKeeps ==
  ASSUME AgeInv, NEW c \in Clients, NEW how, HearTop(c, how)
  PROVE  AgeInv'
<1> DEFINE mine  == how = "whole" /\ id[c] \in air.booked \cup {Discovery}
           l     == IF mine THEN Line(air, id[c]) ELSE alloc[c]
           age   == IF mine THEN 0 ELSE alloc_age[c]
           sends == AgeAllows(age) /\ HisTurn(air.nb, l)
<1>1. /\ alloc' = [alloc EXCEPT ![c] = l]
      /\ alloc_age' = [alloc_age EXCEPT ![c] = IF sends THEN age + 1 ELSE age]
      /\ superseded' = [superseded EXCEPT ![c] =
                          IF mine THEN 0
                          ELSE IF sends /\ ~l.slow THEN @ + 1 ELSE @]
  BY DEF HearTop
<1>2. /\ ~l.slow => HisTurn(air.nb, l)
      /\ age < 2 => AgeAllows(age)
      /\ AgeAllows(age) => age < 2
  BY DEF HisTurn, AgeAllows
<1>3. /\ mine => age = 0
      /\ ~mine => l = alloc[c] /\ age = alloc_age[c]
  OBVIOUS
<1>4. sends => AgeAllows(age)
  OBVIOUS
<1>5. ~l.slow /\ age < 2 => sends
  BY <1>2
<1> HIDE DEF mine, l, age, sends
<1>6. IsFunction(alloc') /\ IsFunction(alloc_age') /\ IsFunction(superseded')
  BY <1>1 DEF AgeInv, IsFunction
<1>7. \A d \in Clients : d # c =>
        alloc'[d] = alloc[d] /\ alloc_age'[d] = alloc_age[d] /\ superseded'[d] = superseded[d]
  BY <1>1 DEF AgeInv, IsFunction
<1>8. /\ alloc'[c] = l
      /\ alloc_age'[c] = IF sends THEN age + 1 ELSE age
      /\ superseded'[c] = IF mine THEN 0
                          ELSE IF sends /\ ~l.slow THEN superseded[c] + 1 ELSE superseded[c]
  BY <1>1 DEF AgeInv, IsFunction
<1>9. AgeOf(c)
  BY DEF AgeInv
<1>10. AgeOf(c)'
  <2>1. CASE mine
    BY <1>2, <1>3, <1>4, <1>5, <1>8, <2>1 DEF AgeOf
  <2>2. CASE ~mine
    BY <1>2, <1>3, <1>4, <1>5, <1>8, <1>9, <2>2 DEF AgeOf
  <2> QED
    BY <2>1, <2>2
<1> QED
  BY <1>6, <1>7, <1>10 DEF AgeInv, AgeOf, IsFunction

\* So may one that finds the top overdue.
LEMMA SlaveTimeoutKeeps ==
  ASSUME AgeInv, NEW c \in Clients, SlaveTimeout(c)
  PROVE  AgeInv'
<1> DEFINE sends == HisTurn((client_nb[c] + 1) % FrameNumbers, alloc[c])
<1>1. /\ alloc' = alloc
      /\ alloc_age' = [alloc_age EXCEPT ![c] = IF sends THEN @ + 1 ELSE @]
      /\ superseded' = [superseded EXCEPT ![c] = IF sends /\ ~alloc[c].slow THEN @ + 1 ELSE @]
      /\ alloc_age[c] < 2
  BY DEF SlaveTimeout, AgeAllows
<1>2. ~alloc[c].slow => sends
  BY DEF HisTurn
<1> HIDE DEF sends
<1>3. IsFunction(alloc') /\ IsFunction(alloc_age') /\ IsFunction(superseded')
  BY <1>1 DEF AgeInv, IsFunction
<1>4. \A d \in Clients : d # c =>
        alloc'[d] = alloc[d] /\ alloc_age'[d] = alloc_age[d] /\ superseded'[d] = superseded[d]
  BY <1>1 DEF AgeInv, IsFunction
<1>5. /\ alloc'[c] = alloc[c]
      /\ alloc_age'[c] = IF sends THEN alloc_age[c] + 1 ELSE alloc_age[c]
      /\ superseded'[c] = IF sends /\ ~alloc[c].slow THEN superseded[c] + 1 ELSE superseded[c]
  BY <1>1 DEF AgeInv, IsFunction
<1>6. AgeOf(c)
  BY DEF AgeInv
<1>7. AgeOf(c)'
  BY <1>1, <1>2, <1>5, <1>6 DEF AgeOf
<1> QED
  BY <1>3, <1>4, <1>7 DEF AgeInv, AgeOf, IsFunction

\* A fast client transmits at most once with an allocation that was replaced,
\* whatever is lost, in any cell.
THEOREM ReplacedAllocationsEnd == Spec => []SupersededOnce
<1>1. Init => AgeInv
  BY DEF Init, AgeInv, AgeOf, IsFunction
<1>2. AgeInv /\ [Next]_vars => AgeInv'
  <2> SUFFICES ASSUME AgeInv, [Next]_vars PROVE AgeInv'
    OBVIOUS
  <2>1. CASE UNCHANGED <<alloc, alloc_age, superseded>>
    BY <2>1 DEF AgeInv, AgeOf, IsFunction
  <2>2. ASSUME NEW d \in Downlink, MasterFrame(d) PROVE AgeInv'
    BY <2>1, <2>2 DEF MasterFrame
  <2>3. ASSUME NEW b \in bursts, NEW s \in Reported, MasterHears(b, s) PROVE AgeInv'
    BY <2>1, <2>3 DEF MasterHears, clientVars
  <2>4. ASSUME NEW i \in Ids, Book(i) PROVE AgeInv'
    BY <2>1, <2>4 DEF Book, clientVars
  <2>5. ASSUME NEW c \in Clients, NEW how, HearTop(c, how) PROVE AgeInv'
    BY <2>5, HearTopKeeps
  <2>6. ASSUME NEW c \in Clients, SlaveTimeout(c) PROVE AgeInv'
    BY <2>6, SlaveTimeoutKeeps
  <2>7. ASSUME NEW c \in Clients,
               MissTop(c) \/ (\E nb \in Numbers : HearData(c, nb)) \/ \E i \in Ids \cup {Discovery} : SetId(c, i)
        PROVE  AgeInv'
    BY <2>1, <2>7 DEF MissTop, HearData, SetId
  <2>8. CASE UNCHANGED vars
    BY <2>1, <2>8 DEF vars, clientVars
  <2> QED
    BY <2>2, <2>3, <2>4, <2>5, <2>6, <2>7, <2>8 DEF Next
<1>3. AgeInv => SupersededOnce
  BY DEF AgeInv, AgeOf, SupersededOnce
<1> QED
  BY <1>1, <1>2, <1>3, PTL DEF Spec

-----------------------------------------------------------------------------
(* Induction and recursion over an interval of numbers.  The proofs do      *)
(* without the library's theorems on them, which have operator parameters.  *)

LEMMA LeastExists ==
  ASSUME NEW S \in SUBSET Nat, S # {}
  PROVE  \E m \in S : \A n \in S : m <= n
<1> DEFINE R == OpToRel(<, Nat)
<1>1. IsWellFoundedOn(R, Nat)
  BY NatLessThanWellFounded
<1> HIDE DEF R
<1>2. \E m \in S : \A n \in S : <<n, m>> \notin R
  BY <1>1, WFMin
<1>3. \A m, n \in Nat : n < m => <<n, m>> \in R
  BY DEF R, OpToRel
<1>4. PICK m \in S : \A n \in S : <<n, m>> \notin R
  BY <1>2
<1>5. ASSUME NEW n \in S PROVE m <= n
  <2>1. ~ (n < m) /\ m \in Nat /\ n \in Nat
    BY <1>3, <1>4, <1>5
  <2> QED
    BY <2>1
<1> QED
  BY <1>4, <1>5

\* A set that has 0, and with each number the next, has them all.
LEMMA UpTo ==
  ASSUME NEW N \in Nat, NEW T, 0 \in T,
         \A n \in 1 .. N : n - 1 \in T => n \in T
  PROVE  \A n \in 0 .. N : n \in T
<1> SUFFICES ASSUME NEW n \in 0 .. N, n \notin T PROVE FALSE
  OBVIOUS
<1> DEFINE S == {k \in 0 .. N : k \notin T}
<1>1. S \in SUBSET Nat /\ n \in S
  OBVIOUS
<1>2. PICK m \in S : \A k \in S : m <= k
  BY <1>1, LeastExists
<1>3. m \in 0 .. N /\ m \notin T
  OBVIOUS
<1>4. m # 0
  BY <1>3
<1>5. m - 1 \in 0 .. N /\ m \in 1 .. N /\ ~ (m <= m - 1)
  BY <1>3, <1>4
<1>6. m - 1 \notin S
  BY <1>2, <1>5
<1> QED
  BY <1>3, <1>5, <1>6

\* Values in A from a on, each one what F makes of the one before.
HasRun(A, a, N, F) ==
  \E h \in [0 .. N -> A] : h[0] = a /\ \A n \in 1 .. N : h[n] = F[n][h[n - 1]]

LEMMA Iterates ==
  ASSUME NEW A, NEW a \in A, NEW N \in Nat, NEW F \in [1 .. N -> [A -> A]]
  PROVE  HasRun(A, a, N, F)
<1> DEFINE Ok(k, h) == h[0] = a /\ \A n \in 1 .. k : h[n] = F[n][h[n - 1]]
           T == {k \in 0 .. N : \E h \in [0 .. k -> A] : Ok(k, h)}
<1>1. 0 \in T
  <2> DEFINE h == [n \in 0 .. 0 |-> a]
  <2>1. h \in [0 .. 0 -> A] /\ Ok(0, h)
    OBVIOUS
  <2>2. 0 \in 0 .. N
    OBVIOUS
  <2> HIDE DEF h, Ok
  <2> QED
    BY <2>1, <2>2
<1>2. ASSUME NEW k \in 1 .. N, k - 1 \in T PROVE k \in T
  <2>1. PICK h \in [0 .. k - 1 -> A] : Ok(k - 1, h)
    BY <1>2
  <2> DEFINE g == [n \in 0 .. k |-> IF n = k THEN F[k][h[k - 1]] ELSE h[n]]
  <2>2. h[k - 1] \in A
    OBVIOUS
  <2>3. F[k][h[k - 1]] \in A
    BY <2>2
  <2>4. g \in [0 .. k -> A]
    BY <2>3
  <2>5. Ok(k, g)
    <3>1. g[0] = a
      BY <2>1
    <3>2. ASSUME NEW n \in 1 .. k PROVE g[n] = F[n][g[n - 1]]
      <4>1. g[n - 1] = h[n - 1]
        OBVIOUS
      <4>2. CASE n = k
        BY <4>1, <4>2
      <4>3. CASE n # k
        <5>1. n \in 1 .. k - 1 /\ g[n] = h[n]
          BY <4>3
        <5> QED
          BY <2>1, <4>1, <5>1
      <4> QED
        BY <4>2, <4>3
    <3> QED
      BY <3>1, <3>2
  <2>6. k \in 0 .. N
    OBVIOUS
  <2> HIDE DEF g, Ok
  <2> QED
    BY <2>4, <2>5, <2>6
<1>3. N \in T
  <2> HIDE DEF T
  <2>1. \A n \in 0 .. N : n \in T
    BY <1>1, <1>2, UpTo
  <2> QED
    BY <2>1
<1> QED
  BY <1>3 DEF HasRun


-----------------------------------------------------------------------------
(* Sums over client IDs, of which there are seven.                          *)

Share(f, S, i) == IF i \in S THEN f[i] ELSE 0

\* What SlotSum comes to.
SumOf(f, S) ==
  Share(f, S, 0) + Share(f, S, 1) + Share(f, S, 2) + Share(f, S, 3)
    + Share(f, S, 4) + Share(f, S, 5) + Share(f, S, 6)

LEMMA IdsAre == Ids \subseteq 0 .. 6 /\ IsFiniteSet(Ids)
<1>1. Ids \subseteq 0 .. 6
  BY TdmaAssumption
<1>2. IsFiniteSet(0 .. 6)
  <2>1. 0 \in Int /\ 6 \in Int
    OBVIOUS
  <2> QED
    BY <2>1, FS_Interval
<1> QED
  BY <1>1, <1>2, FS_Subset

LEMMA ShareIs ==
  ASSUME NEW f \in [Ids -> Nat], NEW S \in SUBSET Ids, NEW i
  PROVE  Share(f, S, i) \in Nat
BY DEF Share

LEMMA SumOfIsNat ==
  ASSUME NEW f \in [Ids -> Nat], NEW S \in SUBSET Ids
  PROVE  SumOf(f, S) \in Nat
BY ShareIs DEF SumOf

LEMMA SumOfNone ==
  ASSUME NEW f
  PROVE  SumOf(f, {}) = 0
BY DEF SumOf, Share

\* The sum grows by what is added to the set.
LEMMA SumOfMore ==
  ASSUME NEW f \in [Ids -> Nat], NEW S \in SUBSET Ids, NEW x \in S
  PROVE  SumOf(f, S) = f[x] + SumOf(f, S \ {x})
<1> DEFINE T == S \ {x}
<1>1. \A i : Share(f, S, i) \in Nat /\ Share(f, T, i) \in Nat
  BY ShareIs
<1>2. \A i : i # x => Share(f, S, i) = Share(f, T, i)
  BY DEF Share
<1>3. Share(f, S, x) = f[x] /\ Share(f, T, x) = 0
  BY DEF Share
<1>4. x \in 0 .. 6 /\ f[x] \in Nat
  BY IdsAre
<1> HIDE DEF T
<1>5. SumOf(f, S) = f[x] + SumOf(f, T)
  <2>1. x = 0 \/ x = 1 \/ x = 2 \/ x = 3 \/ x = 4 \/ x = 5 \/ x = 6
    BY <1>4
  <2>2. \A i \in {0, 1, 2, 3, 4, 5, 6} :
          /\ Share(f, S, i) \in Nat /\ Share(f, T, i) \in Nat
          /\ Share(f, S, i) = Share(f, T, i) + (IF i = x THEN f[x] ELSE 0)
    BY <1>1, <1>2, <1>3, <1>4
  <2> QED
    BY <1>4, <2>1, <2>2 DEF SumOf
<1> QED
  BY <1>5 DEF T

LEMMA SumOfSame ==
  ASSUME NEW f \in [Ids -> Nat], NEW g \in [Ids -> Nat], NEW S \in SUBSET Ids,
         \A i \in S : f[i] = g[i]
  PROVE  SumOf(f, S) = SumOf(g, S)
<1>1. \A i : Share(f, S, i) = Share(g, S, i)
  BY DEF Share
<1> QED
  BY <1>1 DEF SumOf

SlotSum(f, S) == MapThenSumSet(LAMBDA j : f[j], S)

\* The recursive definition of the community modules has the same value: if it
\* had another for some set of IDs, it would for a set with one ID less.
LEMMA SumIs ==
  ASSUME NEW f \in [Ids -> Nat], NEW S \in SUBSET Ids
  PROVE  SlotSum(f, S) = SumOf(f, S)
<1> DEFINE Sums(g) == g = [s \in SUBSET S |->
                             IF s = {} THEN 0
                             ELSE f[CHOOSE x \in s : TRUE] + g[s \ {CHOOSE x \in s : TRUE}]]
<1>1. SlotSum(f, S) = (CHOOSE g : Sums(g))[S]
  BY DEF SlotSum, MapThenSumSet, MapThenFoldSet
<1>10. \A s \in SUBSET S : \A x \in s : SumOf(f, s) = f[x] + SumOf(f, s \ {x})
  <2> SUFFICES ASSUME NEW s \in SUBSET S, NEW x \in s
               PROVE  SumOf(f, s) = f[x] + SumOf(f, s \ {x})
    OBVIOUS
  <2>1. s \in SUBSET Ids
    OBVIOUS
  <2> QED
    BY <2>1, SumOfMore
<1>2. \A s \in SUBSET S : s # {} =>
        SumOf(f, s) = f[CHOOSE x \in s : TRUE] + SumOf(f, s \ {CHOOSE x \in s : TRUE})
  <2> SUFFICES ASSUME NEW s \in SUBSET S, s # {}
               PROVE  LET x == CHOOSE x \in s : TRUE IN
                      SumOf(f, s) = f[x] + SumOf(f, s \ {x})
    OBVIOUS
  <2>1. (CHOOSE x \in s : TRUE) \in s
    OBVIOUS
  <2> QED
    BY <1>10, <2>1
<1>3. Sums([s \in SUBSET S |-> SumOf(f, s)])
  BY <1>2, SumOfNone
<1>4. Sums(CHOOSE g : Sums(g))
  <2> HIDE DEF Sums
  <2> QED
    BY <1>3
<1>5. PICK g : g = (CHOOSE h : Sums(h)) /\ Sums(g)
  BY <1>4
<1>6. ASSUME NEW s \in SUBSET S, g[s] # SumOf(f, s) PROVE FALSE
  <2> DEFINE D == {Cardinality(t) : t \in {t \in SUBSET S : g[t] # SumOf(f, t)}}
  <2>1. \A t \in SUBSET S : IsFiniteSet(t) /\ Cardinality(t) \in Nat
    BY IdsAre, FS_Subset, FS_CardinalityType
  <2>2. D \in SUBSET Nat /\ D # {}
    BY <1>6, <2>1
  <2>3. PICK m \in D : \A n \in D : m <= n
    BY <2>2, LeastExists
  <2>4. PICK t \in SUBSET S : g[t] # SumOf(f, t) /\ Cardinality(t) = m
    BY <2>3
  <2>5. t # {}
    BY <1>5, <2>4, SumOfNone
  <2>6. PICK x : x = (CHOOSE y \in t : TRUE) /\ x \in t
    BY <2>5
  <2>7. g[t] = f[x] + g[t \ {x}]
    BY <1>5, <2>5, <2>6
  <2>8. SumOf(f, t) = f[x] + SumOf(f, t \ {x})
    BY <1>10, <2>6
  <2>9. g[t \ {x}] # SumOf(f, t \ {x})
    BY <2>4, <2>7, <2>8
  <2>10. Cardinality(t \ {x}) = m - 1 /\ m \in Nat
    BY <2>1, <2>4, <2>6, FS_RemoveElement
  <2>11. m - 1 \in D
    BY <2>9, <2>10
  <2> QED
    BY <2>3, <2>10, <2>11
<1> QED
  BY <1>1, <1>5, <1>6

-----------------------------------------------------------------------------
(* The two passes of the allocation.                                        *)

Grants == [master : Nat, slots : [Ids -> Nat], total : Nat, masterNeed : Nat,
           need : [Ids -> Nat]]

\* The turn of client i in InTurn.
Turn(max, needed, S, b, i) ==
  IF i \in S /\ b.total < max /\ (needed => b.need[i] > 0) THEN GrantClient(b, i) ELSE b

\* What is granted is needed no longer.
Less(n) == IF n > 0 THEN n - 1 ELSE 0

LEMMA LessIs ==
  ASSUME NEW n \in Nat
  PROVE  Less(n) \in Nat
BY DEF Less

LEMMA FieldsOf ==
  ASSUME NEW a \in Grants
  PROVE  a = [master |-> a.master, slots |-> a.slots, total |-> a.total,
              masterNeed |-> a.masterNeed, need |-> a.need]
BY DEF Grants

LEMMA MasterGranted ==
  ASSUME NEW a \in Grants
  PROVE  /\ GrantMaster(a) \in Grants
         /\ GrantMaster(a).master = a.master + 1 /\ GrantMaster(a).total = a.total + 1
         /\ GrantMaster(a).slots = a.slots
<1> DEFINE n == [master |-> a.master + 1, slots |-> a.slots, total |-> a.total + 1,
                 masterNeed |-> Less(a.masterNeed), need |-> a.need]
<1>1. GrantMaster(a) = n
  <2>1. GrantMaster(a) = [a EXCEPT !.master = a.master + 1, !.total = a.total + 1,
                                   !.masterNeed = Less(a.masterNeed)]
    BY DEF GrantMaster, Less
  <2> QED
    BY <2>1, FieldsOf
<1>2. /\ a.master \in Nat /\ a.slots \in [Ids -> Nat] /\ a.total \in Nat
      /\ a.masterNeed \in Nat /\ a.need \in [Ids -> Nat]
  BY DEF Grants
<1>3. a.master + 1 \in Nat /\ a.total + 1 \in Nat /\ Less(a.masterNeed) \in Nat
  BY <1>2, LessIs
<1>4. n \in Grants
  BY <1>2, <1>3 DEF Grants
<1> QED
  BY <1>1, <1>4

LEMMA ClientGranted ==
  ASSUME NEW a \in Grants, NEW i \in Ids
  PROVE  /\ GrantClient(a, i) \in Grants
         /\ GrantClient(a, i).master = a.master /\ GrantClient(a, i).total = a.total + 1
         /\ GrantClient(a, i).slots = [a.slots EXCEPT ![i] = a.slots[i] + 1]
<1> DEFINE slots == [a.slots EXCEPT ![i] = a.slots[i] + 1]
           need  == [a.need EXCEPT ![i] = Less(a.need[i])]
           n     == [master |-> a.master, slots |-> slots, total |-> a.total + 1,
                     masterNeed |-> a.masterNeed, need |-> need]
<1>1. GrantClient(a, i) = n
  <2>1. GrantClient(a, i) = [a EXCEPT !.slots = slots, !.total = a.total + 1,
                                      !.need = need]
    BY DEF GrantClient, Less
  <2> HIDE DEF slots, need
  <2> QED
    BY <2>1, FieldsOf
<1>2. /\ a.master \in Nat /\ a.slots \in [Ids -> Nat] /\ a.total \in Nat
      /\ a.masterNeed \in Nat /\ a.need \in [Ids -> Nat]
  BY DEF Grants
<1>3. slots \in [Ids -> Nat] /\ need \in [Ids -> Nat] /\ a.total + 1 \in Nat
  BY <1>2, LessIs
<1> HIDE DEF slots, need
<1>4. n \in Grants
  BY <1>2, <1>3 DEF Grants
<1>5. n.slots = slots
  OBVIOUS
<1> QED
  BY <1>1, <1>4, <1>5 DEF slots

LEMMA TurnGrants ==
  ASSUME NEW max, NEW needed, NEW S \in SUBSET Ids, NEW b \in Grants, NEW i
  PROVE  Turn(max, needed, S, b, i) \in Grants
BY ClientGranted DEF Turn

\* InTurn is seven turns, one after the other.
SevenTurns(max, needed, S, a) ==
  \E h \in [0 .. 7 -> Grants] :
    /\ h[0] = a
    /\ \A i \in 1 .. 7 : h[i] = Turn(max, needed, S, h[i - 1], i - 1)
    /\ InTurn(max, needed, S, a) = h[7]

LEMMA InTurnIs ==
  ASSUME NEW max, NEW needed, NEW S \in SUBSET Ids, NEW a \in Grants
  PROVE  SevenTurns(max, needed, S, a)
<1> DEFINE Turns(g) == g = [i \in 0 .. 7 |-> IF i = 0 THEN a
                                             ELSE Turn(max, needed, S, g[i - 1], i - 1)]
           F == [n \in 1 .. 7 |-> [b \in Grants |-> Turn(max, needed, S, b, n - 1)]]
<1>1. InTurn(max, needed, S, a) = (CHOOSE g : Turns(g))[7]
  BY DEF InTurn, Turn
<1>2. F \in [1 .. 7 -> [Grants -> Grants]]
  BY TurnGrants
<1>3. \A b \in Grants, i \in 1 .. 7 : F[i][b] = Turn(max, needed, S, b, i - 1)
  OBVIOUS
<1> HIDE DEF F, Turns
<1>4. PICK h \in [0 .. 7 -> Grants] : h[0] = a /\ \A n \in 1 .. 7 : h[n] = F[n][h[n - 1]]
  <2>1. 7 \in Nat
    OBVIOUS
  <2>2. HasRun(Grants, a, 7, F)
    BY <1>2, <2>1, Iterates
  <2> QED
    BY <2>2 DEF HasRun
<1>5. \A n \in 1 .. 7 : h[n - 1] \in Grants
  OBVIOUS
<1>6. \A n \in 1 .. 7 : h[n] = Turn(max, needed, S, h[n - 1], n - 1)
  BY <1>3, <1>4, <1>5
<1>7. Turns(h)
  <2>1. \A i \in 0 .. 7 : h[i] = IF i = 0 THEN a ELSE Turn(max, needed, S, h[i - 1], i - 1)
    BY <1>4, <1>6
  <2> QED
    BY <2>1 DEF Turns
<1>8. Turns(CHOOSE g : Turns(g))
  BY <1>7
<1>9. PICK g : g = (CHOOSE f : Turns(f)) /\ Turns(g)
  BY <1>8
<1>10. g[0] = a /\ \A i \in 1 .. 7 : g[i] = Turn(max, needed, S, g[i - 1], i - 1)
  BY <1>9 DEF Turns
<1>11. \A i \in 0 .. 7 : g[i] \in Grants
  <2> DEFINE T == {i \in 0 .. 7 : g[i] \in Grants}
  <2>1. 0 \in T /\ \A i \in 1 .. 7 : i - 1 \in T => i \in T
    BY <1>10, TurnGrants
  <2> HIDE DEF T
  <2>2. \A i \in 0 .. 7 : i \in T
    BY <2>1, UpTo
  <2> QED
    BY <2>2 DEF T
<1>12. g \in [0 .. 7 -> Grants]
  BY <1>9, <1>11 DEF Turns
<1> QED
  BY <1>1, <1>9, <1>10, <1>12 DEF SevenTurns

\* What has been granted is counted, and no more than there is.
Counted(fast, a) ==
  /\ a \in Grants
  /\ a.master + SumOf(a.slots, fast) = a.total
  /\ a.total <= SlotCount

AtLeast(a, b) ==
  /\ b.master >= a.master /\ b.total >= a.total
  /\ \A i \in Ids : b.slots[i] >= a.slots[i]

LEMMA AtLeastTransitive ==
  ASSUME NEW a \in Grants, NEW b \in Grants, NEW c \in Grants, AtLeast(a, b), AtLeast(b, c)
  PROVE  AtLeast(a, c)
BY DEF AtLeast, Grants

\* One slot more for a client is one more in all.
LEMMA OneSlotMore ==
  ASSUME NEW f \in [Ids -> Nat], NEW S \in SUBSET Ids, NEW i \in S
  PROVE  SumOf([f EXCEPT ![i] = f[i] + 1], S) = SumOf(f, S) + 1
<1> DEFINE g == [f EXCEPT ![i] = f[i] + 1]
<1>1. g \in [Ids -> Nat] /\ g[i] = f[i] + 1 /\ \A j \in S \ {i} : g[j] = f[j]
  OBVIOUS
<1> HIDE DEF g
<1>2. SumOf(g, S \ {i}) = SumOf(f, S \ {i})
  BY <1>1, SumOfSame
<1>3. /\ SumOf(g, S) = g[i] + SumOf(g, S \ {i})
      /\ SumOf(f, S) = f[i] + SumOf(f, S \ {i})
  BY <1>1, SumOfMore
<1>4. SumOf(f, S \ {i}) \in Nat /\ f[i] \in Nat
  BY SumOfIsNat
<1>5. SumOf(g, S) = SumOf(f, S) + 1
  BY <1>1, <1>2, <1>3, <1>4
<1> QED
  BY <1>5 DEF g

LEMMA TurnCounts ==
  ASSUME NEW needed, NEW fast \in SUBSET Ids, NEW b, Counted(fast, b), NEW i
  PROVE  /\ Counted(fast, Turn(SlotCount, needed, fast, b, i))
         /\ AtLeast(b, Turn(SlotCount, needed, fast, b, i))
<1>1. b \in Grants /\ b.slots \in [Ids -> Nat] /\ b.total \in Nat /\ b.master \in Nat
  BY DEF Counted, Grants
<1>2. CASE Turn(SlotCount, needed, fast, b, i) = b
  BY <1>1, <1>2 DEF AtLeast
<1>3. CASE /\ i \in fast /\ b.total < SlotCount
           /\ Turn(SlotCount, needed, fast, b, i) = GrantClient(b, i)
  <2> DEFINE n == GrantClient(b, i)
  <2>1. /\ n \in Grants /\ n.master = b.master /\ n.total = b.total + 1
        /\ n.slots = [b.slots EXCEPT ![i] = b.slots[i] + 1]
    BY <1>1, <1>3, ClientGranted
  <2> HIDE DEF n
  <2>2. SumOf(n.slots, fast) = SumOf(b.slots, fast) + 1
    BY <1>1, <1>3, <2>1, OneSlotMore
  <2>3. SumOf(b.slots, fast) \in Nat /\ SlotCount \in Nat
    BY <1>1, SumOfIsNat, TdmaAssumption
  <2>4. Counted(fast, n)
    BY <1>1, <1>3, <2>1, <2>2, <2>3 DEF Counted
  <2>5. AtLeast(b, n)
    BY <1>1, <1>3, <2>1 DEF AtLeast
  <2> QED
    BY <1>3, <2>4, <2>5 DEF n
<1> QED
  BY <1>2, <1>3 DEF Turn

LEMMA InTurnCounts ==
  ASSUME NEW needed, NEW fast \in SUBSET Ids, NEW a, Counted(fast, a)
  PROVE  /\ Counted(fast, InTurn(SlotCount, needed, fast, a))
         /\ AtLeast(a, InTurn(SlotCount, needed, fast, a))
<1>1. a \in Grants
  BY DEF Counted
<1>2. PICK h \in [0 .. 7 -> Grants] :
        /\ h[0] = a
        /\ \A i \in 1 .. 7 : h[i] = Turn(SlotCount, needed, fast, h[i - 1], i - 1)
        /\ InTurn(SlotCount, needed, fast, a) = h[7]
  BY <1>1, InTurnIs DEF SevenTurns
<1> DEFINE T == {i \in 0 .. 7 : Counted(fast, h[i]) /\ AtLeast(a, h[i])}
<1>3. 0 \in T
  <2>1. AtLeast(a, a)
    BY <1>1 DEF AtLeast, Grants
  <2> QED
    BY <1>2, <2>1
<1>4. ASSUME NEW i \in 1 .. 7, i - 1 \in T PROVE i \in T
  <2>1. i \in 0 .. 7 /\ i - 1 \in 0 .. 7 /\ Counted(fast, h[i - 1]) /\ AtLeast(a, h[i - 1])
    BY <1>4
  <2>2. /\ Counted(fast, Turn(SlotCount, needed, fast, h[i - 1], i - 1))
        /\ AtLeast(h[i - 1], Turn(SlotCount, needed, fast, h[i - 1], i - 1))
    BY <2>1, TurnCounts
  <2>3. h[i] = Turn(SlotCount, needed, fast, h[i - 1], i - 1) /\ h[i] \in Grants /\ h[i - 1] \in Grants
    BY <1>2, <2>1
  <2>4. AtLeast(a, h[i])
    BY <1>1, <2>1, <2>2, <2>3, AtLeastTransitive
  <2> QED
    BY <2>1, <2>2, <2>3, <2>4
<1> HIDE DEF T
<1>5. \A i \in 0 .. 7 : i \in T
  BY <1>3, <1>4, UpTo
<1>6. 7 \in T
  BY <1>5
<1> QED
  BY <1>2, <1>6 DEF T

\* The master and each fast client have a slot.
FairGrants(fast) ==
  {a \in Grants : /\ Counted(fast, a)
                  /\ a.master >= 1 /\ \A i \in fast : a.slots[i] >= 1}

LEMMA MoreIsFair ==
  ASSUME NEW fast \in SUBSET Ids, NEW a \in FairGrants(fast), NEW b,
         Counted(fast, b), AtLeast(a, b)
  PROVE  b \in FairGrants(fast)
<1>1. a \in Grants /\ b \in Grants
  BY DEF FairGrants, Counted
<1>2. /\ a.master \in Nat /\ b.master \in Nat
      /\ \A i \in Ids : a.slots[i] \in Nat /\ b.slots[i] \in Nat
  BY <1>1 DEF Grants
<1> QED
  BY <1>1, <1>2 DEF FairGrants, AtLeast

\* One slot more for the master.
LEMMA MasterCounts ==
  ASSUME NEW fast \in SUBSET Ids, NEW a, Counted(fast, a), a.total < SlotCount
  PROVE  /\ Counted(fast, GrantMaster(a)) /\ AtLeast(a, GrantMaster(a))
         /\ GrantMaster(a).total = a.total + 1
<1> DEFINE n == GrantMaster(a)
<1>1. a \in Grants /\ a.slots \in [Ids -> Nat] /\ a.total \in Nat /\ a.master \in Nat
  BY DEF Counted, Grants
<1>2. n \in Grants /\ n.master = a.master + 1 /\ n.total = a.total + 1 /\ n.slots = a.slots
  BY <1>1, MasterGranted
<1> HIDE DEF n
<1>3. SumOf(a.slots, fast) \in Nat /\ SlotCount \in Nat
  BY <1>1, SumOfIsNat, TdmaAssumption
<1>4. Counted(fast, n) /\ AtLeast(a, n)
  BY <1>1, <1>2, <1>3 DEF Counted, AtLeast
<1> QED
  BY <1>2, <1>4 DEF n

\* There are fewer clients than slots, so each gets one in the first round.
LEMMA FirstSlotsFair ==
  ASSUME NEW fast \in SUBSET Ids, NEW downlink \in Nat, NEW needs \in [Ids -> Nat]
  PROVE  FirstSlots(fast, downlink, needs) \in FairGrants(fast)
<1> DEFINE none == [master |-> 0, slots |-> [i \in Ids |-> 0], total |-> 0,
                    masterNeed |-> downlink, need |-> needs]
           a    == GrantMaster(none)
           Before(i) == {j \in fast : j < i}
<1>1. none \in Grants
  BY DEF Grants
<1>2. /\ IsFiniteSet(fast) /\ Cardinality(fast) \in Nat
      /\ Cardinality(fast) < SlotCount /\ SlotCount \in Nat
  <2>1. /\ IsFiniteSet(fast) /\ Cardinality(fast) <= Cardinality(Ids)
        /\ Cardinality(fast) \in Nat /\ Cardinality(Ids) \in Nat
    BY IdsAre, FS_Subset, FS_CardinalityType
  <2> QED
    BY <2>1, TdmaAssumption
<1>18. \A j \in fast : j \in Int /\ 0 <= j /\ j <= 6
  BY IdsAre
<1>3. SumOf(none.slots, fast) = 0
  <2>1. none.slots = [i \in Ids |-> 0]
    OBVIOUS
  <2>2. \A i : Share([j \in Ids |-> 0], fast, i) = 0
    BY DEF Share
  <2> QED
    BY <2>1, <2>2 DEF SumOf
<1>4. Counted(fast, none) /\ none.total = 0 /\ none.master = 0
  BY <1>1, <1>2, <1>3 DEF Counted
<1> HIDE DEF none
<1>5. Counted(fast, a) /\ AtLeast(none, a) /\ a.total = 1 /\ a.master = 1
  BY <1>1, <1>2, <1>4, MasterCounts, MasterGranted
<1>6. a \in Grants
  BY <1>5 DEF Counted
<1> HIDE DEF a
<1>7. PICK h \in [0 .. 7 -> Grants] :
        /\ h[0] = a
        /\ \A i \in 1 .. 7 : h[i] = Turn(SlotCount, FALSE, fast, h[i - 1], i - 1)
        /\ InTurn(SlotCount, FALSE, fast, a) = h[7]
  <2>1. SevenTurns(SlotCount, FALSE, fast, a)
    BY <1>6, InTurnIs
  <2> QED
    BY <2>1 DEF SevenTurns
<1> DEFINE Given(i) == /\ h[i].total = 1 + Cardinality(Before(i))
                       /\ \A j \in Before(i) : h[i].slots[j] >= 1
           T == {i \in 0 .. 7 : Given(i)}
<1>8. 0 \in T
  <2>1. Before(0) = {}
    BY <1>18
  <2> QED
    BY <1>5, <1>7, <2>1, FS_EmptySet
<1>9. ASSUME NEW i \in 1 .. 7, i - 1 \in T PROVE i \in T
  <2> DEFINE b == h[i - 1]
             S == Before(i - 1)
  <2>1. /\ i \in 0 .. 7 /\ i - 1 \in 0 .. 7 /\ i - 1 \in Int /\ i \in Int
        /\ b.total = 1 + Cardinality(S) /\ \A j \in S : b.slots[j] >= 1
    BY <1>9
  <2>2. /\ b \in Grants /\ h[i] = Turn(SlotCount, FALSE, fast, b, i - 1)
    BY <1>7, <2>1
  <2>3. IsFiniteSet(S) /\ S \subseteq fast /\ Cardinality(S) \in Nat /\ i - 1 \notin S
    BY <1>2, FS_Subset, FS_CardinalityType
  <2> HIDE DEF b
  <2>4. CASE i - 1 \in fast
    <3>1. Before(i) = S \cup {i - 1}
      BY <1>18, <2>1, <2>4
    <3>2. Cardinality(Before(i)) = Cardinality(S) + 1 /\ IsFiniteSet(Before(i))
      <4> HIDE DEF S, Before
      <4> QED
        BY <2>3, <3>1, FS_AddElement
    <3>3. Cardinality(Before(i)) <= Cardinality(fast)
      BY <1>2, FS_Subset
    <3>4. b.total < SlotCount
      BY <1>2, <2>1, <2>3, <3>2, <3>3
    <3>5. h[i] = GrantClient(b, i - 1)
      BY <2>2, <2>4, <3>4 DEF Turn
    <3>6. /\ h[i].total = b.total + 1 /\ h[i].slots = [b.slots EXCEPT ![i - 1] = b.slots[i - 1] + 1]
          /\ b.slots \in [Ids -> Nat] /\ i - 1 \in Ids
      <4>1. i - 1 \in Ids /\ b \in Grants
        BY <2>2, <2>4
      <4>2. b.slots \in [Ids -> Nat]
        BY <4>1 DEF Grants
      <4> QED
        BY <3>5, <4>1, <4>2, ClientGranted
    <3>7. h[i].total = 1 + Cardinality(Before(i))
      BY <2>1, <2>3, <3>2, <3>6
    <3>8. ASSUME NEW j \in S \cup {i - 1} PROVE h[i].slots[j] >= 1
      <4>1. j \in Ids
        BY <2>3, <3>6
      <4> HIDE DEF S
      <4>2. CASE j = i - 1
        BY <3>6, <4>2
      <4>3. CASE j # i - 1
        BY <2>1, <3>6, <3>8, <4>1, <4>3
      <4> QED
        BY <4>2, <4>3
    <3> HIDE DEF S, Before
    <3> QED
      BY <2>1, <3>1, <3>7, <3>8
  <2>5. CASE i - 1 \notin fast
    <3>1. Before(i) = S
      BY <1>18, <2>1, <2>5
    <3>2. h[i] = b
      BY <2>2, <2>5 DEF Turn
    <3> HIDE DEF S, Before
    <3> QED
      BY <2>1, <3>1, <3>2
  <2> QED
    BY <2>4, <2>5
<1> HIDE DEF T, Before
<1>10. \A i \in 0 .. 7 : i \in T
  BY <1>8, <1>9, UpTo
<1>11. 7 \in T
  BY <1>10
<1>12. Before(7) = fast
  BY <1>18 DEF Before
<1>13. \A j \in fast : h[7].slots[j] >= 1
  BY <1>11, <1>12 DEF T
<1>14. Counted(fast, h[7]) /\ AtLeast(a, h[7])
  BY <1>5, <1>7, InTurnCounts
<1>15. h[7] \in Grants /\ h[7].master \in Nat
  BY <1>14 DEF Counted, Grants
<1>16. h[7].master >= 1
  BY <1>5, <1>14, <1>15 DEF AtLeast
<1>17. FirstSlots(fast, downlink, needs) = h[7]
  BY <1>7 DEF FirstSlots, a, none
<1> QED
  BY <1>13, <1>14, <1>15, <1>16, <1>17 DEF FairGrants

LEMMA FairIs ==
  ASSUME NEW fast \in SUBSET Ids, NEW a \in FairGrants(fast)
  PROVE  /\ Counted(fast, a) /\ a \in Grants
         /\ a.total \in Nat /\ a.total <= SlotCount /\ SlotCount \in Nat
BY TdmaAssumption DEF FairGrants, Counted, Grants

LEMMA MasterIfNeededFair ==
  ASSUME NEW fast \in SUBSET Ids, NEW a \in FairGrants(fast)
  PROVE  MasterIfNeeded(a) \in FairGrants(fast)
<1>1. CASE MasterIfNeeded(a) = a
  BY <1>1
<1>2. CASE a.total < SlotCount /\ MasterIfNeeded(a) = GrantMaster(a)
  <2>1. Counted(fast, GrantMaster(a)) /\ AtLeast(a, GrantMaster(a))
    BY <1>2, FairIs, MasterCounts
  <2> QED
    BY <1>2, <2>1, MoreIsFair
<1> QED
  BY <1>1, <1>2 DEF MasterIfNeeded

\* A round of turns, for those who need a slot or for all.
LEMMA InTurnFair ==
  ASSUME NEW needed, NEW fast \in SUBSET Ids, NEW a \in FairGrants(fast)
  PROVE  /\ InTurn(SlotCount, needed, fast, a) \in FairGrants(fast)
         /\ InTurn(SlotCount, needed, fast, a).total >= a.total
<1>1. /\ Counted(fast, InTurn(SlotCount, needed, fast, a))
      /\ AtLeast(a, InTurn(SlotCount, needed, fast, a))
  BY FairIs, InTurnCounts
<1> QED
  BY <1>1, MoreIsFair DEF AtLeast

LEMMA NeedRoundFair ==
  ASSUME NEW fast \in SUBSET Ids, NEW a \in FairGrants(fast)
  PROVE  NeedRound(fast, a) \in FairGrants(fast)
<1> DEFINE b == IF Cardinality(fast) > 1 THEN MasterIfNeeded(MasterIfNeeded(a))
                                         ELSE MasterIfNeeded(a)
<1>1. b \in FairGrants(fast)
  BY MasterIfNeededFair
<1>2. NeedRound(fast, a) = IF a.total < SlotCount THEN InTurn(SlotCount, TRUE, fast, b) ELSE a
  BY DEF NeedRound
<1> HIDE DEF b
<1>3. InTurn(SlotCount, TRUE, fast, b) \in FairGrants(fast)
  BY <1>1, InTurnFair
<1> QED
  BY <1>2, <1>3

\* A round of the second pass gives the master a slot at least.
LEMMA SpareRoundFair ==
  ASSUME NEW fast \in SUBSET Ids, NEW a \in FairGrants(fast)
  PROVE  /\ SpareRound(fast, a) \in FairGrants(fast)
         /\ SpareRound(fast, a).total >= a.total
         /\ a.total < SlotCount => SpareRound(fast, a).total >= a.total + 1
<1>1. CASE a.total < SlotCount
  <2> DEFINE b == GrantMaster(a)
             n == InTurn(SlotCount, FALSE, fast, b)
  <2>1. Counted(fast, b) /\ AtLeast(a, b) /\ b.total = a.total + 1
    BY <1>1, FairIs, MasterCounts
  <2>2. b \in FairGrants(fast)
    BY <2>1, MoreIsFair
  <2> HIDE DEF b
  <2>3. n \in FairGrants(fast) /\ n.total >= b.total
    BY <2>2, InTurnFair
  <2>4. SpareRound(fast, a) = n
    BY <1>1 DEF SpareRound, b
  <2> HIDE DEF n
  <2>5. n.total \in Nat /\ a.total \in Nat /\ b.total \in Nat
    BY <2>2, <2>3, FairIs
  <2> QED
    BY <2>1, <2>3, <2>4, <2>5
<1>2. CASE ~ (a.total < SlotCount)
  BY <1>2, FairIs DEF SpareRound
<1> QED
  BY <1>1, <1>2

\* The first pass, which starts from a.
NeedRuns(fast, a, g) ==
  g = [n \in 0 .. SlotCount |-> IF n = 0 THEN a ELSE NeedRound(fast, g[n - 1])]

LEMMA NeedPassFair ==
  ASSUME NEW fast \in SUBSET Ids, NEW a \in FairGrants(fast)
  PROVE  (CHOOSE g : NeedRuns(fast, a, g))[SlotCount] \in FairGrants(fast)
<1> DEFINE G == FairGrants(fast)
           F == [n \in 1 .. SlotCount |-> [b \in G |-> NeedRound(fast, b)]]
<1>1. F \in [1 .. SlotCount -> [G -> G]]
  BY NeedRoundFair
<1>2. \A b \in G, n \in 1 .. SlotCount : F[n][b] = NeedRound(fast, b)
  OBVIOUS
<1>3. SlotCount \in Nat
  BY TdmaAssumption
<1> HIDE DEF F, G
<1>4. HasRun(G, a, SlotCount, F)
  <2>1. a \in G
    BY DEF G
  <2> QED
    BY <1>1, <1>3, <2>1, Iterates
<1>5. PICK h \in [0 .. SlotCount -> G] :
        h[0] = a /\ \A n \in 1 .. SlotCount : h[n] = F[n][h[n - 1]]
  BY <1>4 DEF HasRun
<1>6. \A n \in 1 .. SlotCount : h[n] = NeedRound(fast, h[n - 1])
  <2>1. \A n \in 1 .. SlotCount : h[n - 1] \in G
    BY <1>3
  <2> QED
    BY <1>2, <1>5, <2>1
<1>7. NeedRuns(fast, a, h)
  <2>1. \A n \in 0 .. SlotCount : h[n] = IF n = 0 THEN a ELSE NeedRound(fast, h[n - 1])
    BY <1>3, <1>5, <1>6
  <2> QED
    BY <2>1 DEF NeedRuns
<1>8. PICK g : g = (CHOOSE f : NeedRuns(fast, a, f)) /\ NeedRuns(fast, a, g)
  BY <1>7
<1>15. g[0] = a /\ \A n \in 1 .. SlotCount : g[n] = NeedRound(fast, g[n - 1])
  <2>1. g = [n \in 0 .. SlotCount |-> IF n = 0 THEN a ELSE NeedRound(fast, g[n - 1])]
    BY <1>8 DEF NeedRuns
  <2>2. \A n \in 0 .. SlotCount : g[n] = IF n = 0 THEN a ELSE NeedRound(fast, g[n - 1])
    BY <2>1
  <2>3. 0 \in 0 .. SlotCount /\ \A n \in 1 .. SlotCount : n \in 0 .. SlotCount /\ n # 0
    BY <1>3
  <2> QED
    BY <2>2, <2>3
<1> DEFINE T == {n \in 0 .. SlotCount : g[n] \in G}
<1>9. 0 \in T /\ \A n \in 1 .. SlotCount : n - 1 \in T => n \in T
  BY <1>3, <1>15, NeedRoundFair DEF G
<1> HIDE DEF T
<1>10. \A n \in 0 .. SlotCount : n \in T
  BY <1>3, <1>9, UpTo
<1>11. SlotCount \in T
  BY <1>3, <1>10
<1> QED
  BY <1>8, <1>11 DEF T, G

\* The second pass.
SpareRuns(fast, a, g) ==
  g = [n \in 0 .. SlotCount |-> IF n = 0 THEN a ELSE SpareRound(fast, g[n - 1])]

LEMMA SparePassFills ==
  ASSUME NEW fast \in SUBSET Ids, NEW a \in FairGrants(fast)
  PROVE  /\ (CHOOSE g : SpareRuns(fast, a, g))[SlotCount] \in FairGrants(fast)
         /\ (CHOOSE g : SpareRuns(fast, a, g))[SlotCount].total = SlotCount
<1> DEFINE G == FairGrants(fast)
           F == [n \in 1 .. SlotCount |-> [b \in G |-> SpareRound(fast, b)]]
<1>1. F \in [1 .. SlotCount -> [G -> G]]
  BY SpareRoundFair
<1>2. \A b \in G, n \in 1 .. SlotCount : F[n][b] = SpareRound(fast, b)
  OBVIOUS
<1>3. SlotCount \in Nat
  BY TdmaAssumption
<1> HIDE DEF F, G
<1>4. HasRun(G, a, SlotCount, F)
  <2>1. a \in G
    BY DEF G
  <2> QED
    BY <1>1, <1>3, <2>1, Iterates
<1>5. PICK h \in [0 .. SlotCount -> G] :
        h[0] = a /\ \A n \in 1 .. SlotCount : h[n] = F[n][h[n - 1]]
  BY <1>4 DEF HasRun
<1>6. \A n \in 1 .. SlotCount : h[n] = SpareRound(fast, h[n - 1])
  <2>1. \A n \in 1 .. SlotCount : h[n - 1] \in G
    BY <1>3
  <2> QED
    BY <1>2, <1>5, <2>1
<1>7. SpareRuns(fast, a, h)
  <2>1. \A n \in 0 .. SlotCount : h[n] = IF n = 0 THEN a ELSE SpareRound(fast, h[n - 1])
    BY <1>3, <1>5, <1>6
  <2> QED
    BY <2>1 DEF SpareRuns
<1>8. PICK g : g = (CHOOSE f : SpareRuns(fast, a, f)) /\ SpareRuns(fast, a, g)
  BY <1>7
<1>15. g[0] = a /\ \A n \in 1 .. SlotCount : g[n] = SpareRound(fast, g[n - 1])
  <2>1. g = [n \in 0 .. SlotCount |-> IF n = 0 THEN a ELSE SpareRound(fast, g[n - 1])]
    BY <1>8 DEF SpareRuns
  <2>2. \A n \in 0 .. SlotCount : g[n] = IF n = 0 THEN a ELSE SpareRound(fast, g[n - 1])
    BY <2>1
  <2>3. 0 \in 0 .. SlotCount /\ \A n \in 1 .. SlotCount : n \in 0 .. SlotCount /\ n # 0
    BY <1>3
  <2> QED
    BY <2>2, <2>3
<1> DEFINE Raised(n) == g[n] \in G /\ (g[n].total >= n \/ g[n].total = SlotCount)
           T == {n \in 0 .. SlotCount : Raised(n)}
<1>9. 0 \in T
  BY <1>3, <1>15, FairIs DEF G
<1>10. ASSUME NEW n \in 1 .. SlotCount, n - 1 \in T PROVE n \in T
  <2>1. n \in 0 .. SlotCount /\ n - 1 \in 0 .. SlotCount /\ Raised(n - 1)
    BY <1>3, <1>10
  <2>2. g[n] = SpareRound(fast, g[n - 1])
    BY <1>15
  <2>3. /\ g[n] \in G /\ g[n].total >= g[n - 1].total
        /\ g[n - 1].total < SlotCount => g[n].total >= g[n - 1].total + 1
    BY <2>1, <2>2, SpareRoundFair DEF G
  <2>4. /\ g[n].total \in Nat /\ g[n - 1].total \in Nat
        /\ g[n].total <= SlotCount /\ g[n - 1].total <= SlotCount
    BY <2>1, <2>3, FairIs DEF G
  <2> QED
    BY <1>3, <2>1, <2>3, <2>4
<1> HIDE DEF T
<1>11. \A n \in 0 .. SlotCount : n \in T
  BY <1>3, <1>9, <1>10, UpTo
<1>12. SlotCount \in T
  BY <1>3, <1>11
<1>13. Raised(SlotCount)
  BY <1>12 DEF T
<1>14. g[SlotCount] \in FairGrants(fast) /\ g[SlotCount].total = SlotCount
  BY <1>13, FairIs DEF G
<1> QED
  BY <1>8, <1>14

\* Together they hand out all the slots.
LEMMA AllocationFills ==
  ASSUME NEW fast \in SUBSET Ids, NEW downlink \in Nat, NEW needs \in [Ids -> Nat]
  PROVE  /\ Allocation(fast, downlink, needs) \in FairGrants(fast)
         /\ Allocation(fast, downlink, needs).total = SlotCount
<1> DEFINE a == FirstSlots(fast, downlink, needs)
           b == (CHOOSE g : NeedRuns(fast, a, g))[SlotCount]
<1>1. a \in FairGrants(fast)
  BY FirstSlotsFair
<1>2. Allocation(fast, downlink, needs) = (CHOOSE g : SpareRuns(fast, b, g))[SlotCount]
  BY DEF Allocation, NeedRuns, SpareRuns
<1> HIDE DEF a
<1>3. b \in FairGrants(fast)
  BY <1>1, NeedPassFair
<1> HIDE DEF b
<1> QED
  BY <1>2, <1>3, SparePassFills

-----------------------------------------------------------------------------
(* Where the lines of an allocation lie in the frame.                       *)

\* What the master broadcasts: all the slots, in shares of one at least.
AirOK(a) ==
  /\ a \in [nb : 0 .. (FrameNumbers - 1), booked : SUBSET Ids, fast : SUBSET Ids,
            master : Nat, slots : [Ids -> Nat]]
  /\ a.fast \subseteq a.booked
  /\ a.master >= 1 /\ \A i \in a.fast : a.slots[i] >= 1
  /\ a.master + SumOf(a.slots, a.fast) = SlotCount

FastBefore(a, i) == {j \in a.fast : j < i}

\* The slots before a line, and the line's own; slow clients have the two slots
\* after the shared ones.
SlowPlace(i) == IF i # Discovery /\ i < 4 THEN SlotCount ELSE SlotCount + 1

Place(a, i) == IF i \in a.fast THEN a.master + SumOf(a.slots, FastBefore(a, i))
                               ELSE SlowPlace(i)

Width(a, i) == IF i \in a.fast THEN a.slots[i] ELSE 1

OffsetOf(p) ==
  Rounded(ReducedSlot + SlotMargin + TRMargin + TAMargin + p * (SlotDuration + SlotMargin))

SlowResidue(i) == IF i = Discovery THEN Multiframe - 1 ELSE i % Multiframe

\* A slow line is always at the same place, whatever allocation it is from.
SlowLine(l) ==
  l.slow => l.slots = 1 /\ l.offset = OffsetOf(SlowPlace(l.id)) /\ l.residue = SlowResidue(l.id)

InFrame(l) == BurstEnd(l) <= FrameDuration

\* What a burst shows of its line.
BurstOK(b) ==
  /\ b.line \in Lines /\ SlowLine(b.line) /\ InFrame(b.line)
  /\ b.how # "timeout" => HisTurn(air.nb, b.line)
  /\ b.how = "whole" =>
       b.line = Line(air, b.line.id) /\ b.line.id \in air.booked \cup {Discovery}

MasterSide ==
  /\ booked \in [Ids -> BOOLEAN]
  /\ uplink_st \in [Ids -> 0..MaxNeed]
  /\ uplink_usage \in [Ids -> 0..UsageMemory]
  /\ is_fast \in [Ids -> BOOLEAN] /\ up2date \in [Ids -> BOOLEAN]
  /\ frame_nb \in 0..(FrameNumbers - 1)
  /\ AirOK(air)

\* What a client starts with fits no frame, but is too old for a burst.
ClientSide ==
  /\ id \in [Clients -> Ids \cup {Discovery}]
  /\ alloc \in [Clients -> Lines]
  /\ alloc_age \in [Clients -> 0..2]
  /\ client_nb \in [Clients -> 0..(FrameNumbers - 1)]
  /\ top \in [Clients -> {"due", "whole", "top", "missed"}]
  /\ top_age \in [Clients -> 0..2]
  /\ \A c \in Clients : SlowLine(alloc[c]) /\ (alloc_age[c] < 2 => InFrame(alloc[c]))

BurstSide == \A b \in bursts : BurstOK(b)

SlotsInv == MasterSide /\ ClientSide /\ BurstSide

LEMMA TimesAreNat ==
  /\ FrameDuration \in Nat /\ SlotDuration \in Nat /\ ReducedSlot \in Nat
  /\ SlotMargin \in Nat /\ TRMargin \in Nat /\ TAMargin \in Nat
  /\ SlotCount \in Nat /\ Multiframe \in Nat \ {0} /\ FrameNumbers \in Nat \ {0}
BY TdmaAssumption

LEMMA RoundedIs ==
  ASSUME NEW t \in Nat
  PROVE  Rounded(t) \in Nat /\ Rounded(t) <= t /\ t <= Rounded(t) + 9
BY DEF Rounded

LEMMA ProductGrows ==
  ASSUME NEW m \in Nat, NEW n \in Nat, NEW d \in Nat, m <= n
  PROVE  m * d \in Nat /\ n * d \in Nat /\ m * d <= n * d
<1>1. PICK k \in Nat : n = m + k
  <2>1. n - m \in Nat /\ n = m + (n - m)
    OBVIOUS
  <2> QED
    BY <2>1
<1>2. n * d = m * d + k * d
  BY <1>1
<1>3. k * d \in Nat /\ m * d \in Nat /\ n * d \in Nat
  OBVIOUS
<1> QED
  BY <1>2, <1>3

\* The first offset counts the master's slots like those of clients.
LEMMA FirstOffsetIs ==
  ASSUME NEW m \in Nat
  PROVE  FirstOffset(m) = ReducedSlot + SlotMargin + TRMargin + TAMargin
                            + m * (SlotDuration + SlotMargin)
<1>1. /\ SlotDuration \in Nat /\ ReducedSlot \in Nat
      /\ SlotMargin \in Nat /\ TRMargin \in Nat /\ TAMargin \in Nat
  BY TimesAreNat
<1>2. (m - 1) * SlotMargin = m * SlotMargin - SlotMargin
  BY <1>1
<1>3. m * (SlotDuration + SlotMargin) = m * SlotDuration + m * SlotMargin
  BY <1>1
<1>4. m * SlotDuration \in Nat /\ m * SlotMargin \in Nat
  BY <1>1
<1> QED
  BY <1>1, <1>2, <1>3, <1>4 DEF FirstOffset, MasterBurst

LEMMA SpansAdd ==
  ASSUME NEW m \in Nat, NEW n \in Nat
  PROVE  /\ FirstOffset(m) + Span(n)
              = ReducedSlot + SlotMargin + TRMargin + TAMargin
                  + (m + n) * (SlotDuration + SlotMargin)
         /\ FirstOffset(m) + Span(n) \in Nat
<1> DEFINE D == SlotDuration + SlotMargin
           R == ReducedSlot + SlotMargin + TRMargin + TAMargin
<1>1. D \in Nat /\ R \in Nat
  BY TimesAreNat
<1>2. FirstOffset(m) = R + m * D /\ Span(n) = n * D
  BY FirstOffsetIs DEF Span
<1> HIDE DEF D, R
<1>3. /\ (m + n) * D = m * D + n * D
      /\ m * D \in Nat /\ n * D \in Nat
  BY <1>1
<1>4. FirstOffset(m) + Span(n) = R + (m + n) * D /\ FirstOffset(m) + Span(n) \in Nat
  BY <1>1, <1>2, <1>3
<1> QED
  BY <1>4 DEF D, R

\* A burst of n slots, p slots after the reduced one.
LEMMA BurstEndIs ==
  ASSUME NEW l, NEW p \in Nat, l.offset = OffsetOf(p), l.slots \in Nat
  PROVE  /\ BurstEnd(l) = OffsetOf(p) + l.slots * (SlotDuration + SlotMargin) - SlotMargin
         /\ OffsetOf(p) \in Nat
         /\ OffsetOf(p) <= ReducedSlot + SlotMargin + TRMargin + TAMargin
                             + p * (SlotDuration + SlotMargin)
         /\ ReducedSlot + SlotMargin + TRMargin + TAMargin + p * (SlotDuration + SlotMargin)
              <= OffsetOf(p) + 9
<1> DEFINE n == l.slots
           t == ReducedSlot + SlotMargin + TRMargin + TAMargin
                  + p * (SlotDuration + SlotMargin)
<1>1. n \in Nat /\ SlotDuration \in Nat /\ SlotMargin \in Nat
  BY TimesAreNat
<1>2. t \in Nat
  <2>1. p * (SlotDuration + SlotMargin) \in Nat
    BY <1>1
  <2> QED
    BY <2>1, TimesAreNat
<1>3. OffsetOf(p) = Rounded(t)
  BY DEF OffsetOf
<1> HIDE DEF t
<1>4. Rounded(t) \in Nat /\ Rounded(t) <= t /\ t <= Rounded(t) + 9
  BY <1>2, RoundedIs
<1>5. BurstEnd(l) = OffsetOf(p) + n * SlotDuration + (n - 1) * SlotMargin
  BY DEF BurstEnd
<1> HIDE DEF n
<1>6. /\ (n - 1) * SlotMargin = n * SlotMargin - SlotMargin
      /\ n * (SlotDuration + SlotMargin) = n * SlotDuration + n * SlotMargin
      /\ n * SlotDuration \in Nat /\ n * SlotMargin \in Nat
  BY <1>1
<1>7. BurstEnd(l) = OffsetOf(p) + n * (SlotDuration + SlotMargin) - SlotMargin
  BY <1>1, <1>3, <1>4, <1>5, <1>6
<1>8. OffsetOf(p) \in Nat /\ OffsetOf(p) <= t /\ t <= OffsetOf(p) + 9
  BY <1>3, <1>4
<1> QED
  BY <1>7, <1>8 DEF t, n

\* Lines that take different slots are apart: the margin between slots is more
\* than rounding takes away.
LEMMA LinesApart ==
  ASSUME NEW l, NEW m, NEW p \in Nat, NEW q \in Nat,
         l.offset = OffsetOf(p), l.slots \in Nat, m.offset = OffsetOf(q), m.slots \in Nat,
         p + l.slots <= q
  PROVE  ~ Collide(l, m) /\ ~ Collide(m, l)
<1> DEFINE D == SlotDuration + SlotMargin
           R == ReducedSlot + SlotMargin + TRMargin + TAMargin
           n == l.slots
<1>1. D \in Nat /\ R \in Nat /\ SlotMargin \in Nat /\ n \in Nat /\ SlotMargin >= 10
  BY TimesAreNat, TimingAssumption
<1>2. /\ BurstEnd(l) = OffsetOf(p) + n * D - SlotMargin
      /\ OffsetOf(p) \in Nat /\ OffsetOf(p) <= R + p * D
  BY BurstEndIs
<1>3. OffsetOf(q) \in Nat /\ R + q * D <= OffsetOf(q) + 9
  BY BurstEndIs
<1>4. p + n <= q
  OBVIOUS
<1> HIDE DEF D, R, n
<1>5. (p + n) * D <= q * D /\ q * D \in Nat
  BY <1>1, <1>4, ProductGrows
<1>6. (p + n) * D = p * D + n * D /\ p * D \in Nat /\ n * D \in Nat
  BY <1>1
<1>7. BurstEnd(l) <= OffsetOf(q) /\ BurstEnd(l) \in Int
  BY <1>1, <1>2, <1>3, <1>5, <1>6
<1> QED
  BY <1>3, <1>7 DEF Collide

\* A line within the slots of a frame ends with the frame.
LEMMA LineInFrame ==
  ASSUME NEW l, NEW p \in Nat, l.offset = OffsetOf(p), l.slots \in Nat,
         p + l.slots <= SlotCount + 2
  PROVE  InFrame(l)
<1> DEFINE D == SlotDuration + SlotMargin
           R == ReducedSlot + SlotMargin + TRMargin + TAMargin
           n == l.slots
           q == SlotCount + 2
<1>1. D \in Nat /\ R \in Nat /\ SlotMargin \in Nat /\ n \in Nat /\ q \in Nat /\ FrameDuration \in Nat
  BY TimesAreNat
<1>2. /\ BurstEnd(l) = OffsetOf(p) + n * D - SlotMargin
      /\ OffsetOf(p) \in Nat /\ OffsetOf(p) <= R + p * D
  BY BurstEndIs
<1>3. R - SlotMargin + q * D <= FrameDuration
  BY TimesAreNat, TimingAssumption
<1>4. p + n <= q
  OBVIOUS
<1> HIDE DEF D, R, n, q
<1>5. (p + n) * D <= q * D /\ q * D \in Nat
  BY <1>1, <1>4, ProductGrows
<1>6. (p + n) * D = p * D + n * D /\ p * D \in Nat /\ n * D \in Nat
  BY <1>1
<1>7. BurstEnd(l) <= FrameDuration
  BY <1>1, <1>2, <1>3, <1>5, <1>6
<1> QED
  BY <1>7 DEF InFrame

LEMMA AirIs ==
  ASSUME NEW a, AirOK(a)
  PROVE  /\ a.nb \in 0 .. (FrameNumbers - 1) /\ a.booked \in SUBSET Ids
         /\ a.fast \in SUBSET Ids /\ a.master \in Nat /\ a.slots \in [Ids -> Nat]
BY DEF AirOK

LEMMA SlotSumsAre ==
  ASSUME NEW a, AirOK(a), NEW i
  PROVE  /\ SlotsBefore(a, i) = SumOf(a.slots, FastBefore(a, i))
         /\ SlotsBefore(a, i) \in Nat
         /\ MultiframeOffset(a) = FirstOffset(a.master) + Span(SumOf(a.slots, a.fast))
<1>1. a.slots \in [Ids -> Nat] /\ a.fast \in SUBSET Ids
  BY AirIs
<1>2. /\ SlotsBefore(a, i) = SlotSum(a.slots, FastBefore(a, i))
      /\ MultiframeOffset(a) = FirstOffset(a.master) + Span(SlotSum(a.slots, a.fast))
  BY DEF SlotsBefore, MultiframeOffset, SlotSum, FastBefore
<1>3. FastBefore(a, i) \in SUBSET Ids
  BY <1>1 DEF FastBefore
<1> QED
  BY <1>1, <1>2, <1>3, SumIs, SumOfIsNat

LEMMA SumOfPart ==
  ASSUME NEW f \in [Ids -> Nat], NEW S \in SUBSET Ids, NEW T \in SUBSET S
  PROVE  SumOf(f, T) <= SumOf(f, S)
<1>1. \A i : Share(f, T, i) \in Nat /\ Share(f, S, i) \in Nat
  BY ShareIs
<1>2. \A i : Share(f, T, i) <= Share(f, S, i)
  <2> SUFFICES ASSUME NEW i PROVE Share(f, T, i) <= Share(f, S, i)
    OBVIOUS
  <2>1. CASE i \in T
    BY <1>1, <2>1 DEF Share
  <2>2. CASE i \notin T
    <3>1. Share(f, T, i) = 0
      BY <2>2 DEF Share
    <3> QED
      BY <1>1, <3>1
  <2> QED
    BY <2>1, <2>2
<1> QED
  BY <1>1, <1>2 DEF SumOf

\* A fast client's slots come before those of the next, and within the shared ones.
LEMMA FastPlaces ==
  ASSUME NEW a, AirOK(a), NEW i \in a.fast, NEW S \in SUBSET a.fast,
         FastBefore(a, i) \cup {i} \subseteq S
  PROVE  Place(a, i) + Width(a, i) <= a.master + SumOf(a.slots, S)
<1> DEFINE B == FastBefore(a, i)
           f == a.slots
<1>1. f \in [Ids -> Nat] /\ a.fast \in SUBSET Ids /\ a.master \in Nat /\ i \in Ids
  BY AirIs
<1>2. i \notin B
  <2>1. i \in Int
    BY <1>1, IdsAre
  <2> QED
    BY <2>1 DEF FastBefore
<1>3. B \in SUBSET Ids /\ S \in SUBSET Ids /\ B \cup {i} \in SUBSET S
  BY <1>1 DEF FastBefore
<1> HIDE DEF B, f
<1>4. B \cup {i} \in SUBSET Ids /\ (B \cup {i}) \ {i} = B /\ i \in B \cup {i}
  BY <1>1, <1>2, <1>3
<1>5. SumOf(f, B \cup {i}) = f[i] + SumOf(f, B)
  <2>1. SumOf(f, B \cup {i}) = f[i] + SumOf(f, (B \cup {i}) \ {i})
    BY <1>1, <1>4, SumOfMore
  <2> QED
    BY <1>4, <2>1
<1>6. SumOf(f, B \cup {i}) <= SumOf(f, S)
  BY <1>1, <1>3, SumOfPart
<1>7. SumOf(f, B) \in Nat /\ SumOf(f, S) \in Nat /\ f[i] \in Nat
  BY <1>1, <1>3, SumOfIsNat
<1>8. Place(a, i) = a.master + SumOf(f, B) /\ Width(a, i) = f[i]
  BY DEF Place, Width, B, f
<1>9. Place(a, i) + Width(a, i) <= a.master + SumOf(f, S)
  BY <1>1, <1>5, <1>6, <1>7, <1>8
<1> QED
  BY <1>9 DEF f

\* Where the line of client i lies.
LEMMA PlaceIs ==
  ASSUME NEW a, AirOK(a), NEW i \in Ids \cup {Discovery}
  PROVE  /\ Place(a, i) \in Nat /\ Width(a, i) \in 1 .. SlotCount
         /\ Place(a, i) + Width(a, i) <= SlotCount + 2
         /\ i \in a.fast => Place(a, i) + Width(a, i) <= SlotCount
<1>1. a.slots \in [Ids -> Nat] /\ a.fast \in SUBSET Ids /\ a.master \in Nat
  BY AirIs
<1>2. SlotCount \in Nat /\ SlotCount >= 1
  <2>1. a.master >= 1 /\ a.master + SumOf(a.slots, a.fast) = SlotCount
    BY DEF AirOK
  <2> QED
    BY <1>1, <2>1, SumOfIsNat, TimesAreNat
<1>3. CASE i \in a.fast
  <2>1. FastBefore(a, i) \in SUBSET Ids /\ FastBefore(a, i) \cup {i} \subseteq a.fast
    BY <1>1, <1>3 DEF FastBefore
  <2>2. SumOf(a.slots, FastBefore(a, i)) \in Nat
    BY <1>1, <2>1, SumOfIsNat
  <2>3. Place(a, i) \in Nat /\ Place(a, i) >= 1
    BY <1>1, <1>3, <2>2 DEF Place, AirOK
  <2>4. Width(a, i) \in Nat /\ Width(a, i) >= 1
    BY <1>1, <1>3 DEF Width, AirOK
  <2>5. Place(a, i) + Width(a, i) <= SlotCount
    BY <1>1, <1>3, <2>1, FastPlaces DEF AirOK
  <2> QED
    BY <1>2, <1>3, <2>3, <2>4, <2>5
<1>4. CASE i \notin a.fast
  BY <1>2, <1>4 DEF Place, Width, SlowPlace
<1> QED
  BY <1>3, <1>4

LEMMA LineIs ==
  ASSUME NEW a, AirOK(a), NEW i \in Ids \cup {Discovery}
  PROVE  /\ Line(a, i).id = i
         /\ Line(a, i).offset = OffsetOf(Place(a, i))
         /\ Line(a, i).slots = Width(a, i)
         /\ Line(a, i).slow <=> i \notin a.fast
         /\ i \notin a.fast => Line(a, i).residue = SlowResidue(i)
         /\ Line(a, i) \in Lines
<1>1. a.slots \in [Ids -> Nat] /\ a.fast \in SUBSET Ids /\ a.master \in Nat
  BY AirIs
<1>2. Discovery \notin Ids /\ \A j \in Ids : j \in Int
  BY IdsAre DEF Discovery
<1>3. /\ SumOf(a.slots, a.fast) \in Nat /\ SlotCount \in Nat
      /\ a.master + SumOf(a.slots, a.fast) = SlotCount
  BY <1>1, SumOfIsNat, TimesAreNat DEF AirOK
<1>4. /\ Rounded(MultiframeOffset(a)) = OffsetOf(SlotCount)
      /\ Rounded(LastOffset(a)) = OffsetOf(SlotCount + 1)
  <2> DEFINE n == SumOf(a.slots, a.fast)
  <2>1. /\ FirstOffset(a.master) + Span(n)
             = ReducedSlot + SlotMargin + TRMargin + TAMargin
                 + SlotCount * (SlotDuration + SlotMargin)
        /\ FirstOffset(a.master) + Span(n) \in Nat
    BY <1>1, <1>3, SpansAdd
  <2>2. MultiframeOffset(a) = FirstOffset(a.master) + Span(n)
    BY SlotSumsAre
  <2>3. LastOffset(a) = ReducedSlot + SlotMargin + TRMargin + TAMargin
                          + (SlotCount + 1) * (SlotDuration + SlotMargin)
    <3> DEFINE D == SlotDuration + SlotMargin
               R == ReducedSlot + SlotMargin + TRMargin + TAMargin
    <3>1. D \in Nat /\ R \in Nat /\ Span(1) = 1 * D
      BY TimesAreNat DEF Span
    <3>2. LastOffset(a) = R + SlotCount * D + Span(1)
      BY <2>1, <2>2 DEF LastOffset
    <3> HIDE DEF D, R
    <3>3. LastOffset(a) = R + (SlotCount + 1) * D
      BY <1>3, <3>1, <3>2
    <3> QED
      BY <3>3 DEF D, R
  <2> QED
    BY <2>1, <2>2, <2>3 DEF OffsetOf
<1>5. CASE i \in a.fast
  <2>1. Line(a, i) = [id |-> i, offset |-> Rounded(FirstOffset(a.master) + Span(SlotsBefore(a, i))),
                      slots |-> a.slots[i], residue |-> 0, slow |-> FALSE]
    BY <1>1, <1>2, <1>5 DEF Line
  <2>2. Rounded(FirstOffset(a.master) + Span(SlotsBefore(a, i))) = OffsetOf(Place(a, i))
    <3>1. Place(a, i) = a.master + SlotsBefore(a, i) /\ SlotsBefore(a, i) \in Nat
      BY <1>5, SlotSumsAre DEF Place
    <3> QED
      BY <1>1, <3>1, SpansAdd DEF OffsetOf
  <2>3. a.slots[i] = Width(a, i)
    BY <1>5 DEF Width
  <2>4. Place(a, i) \in Nat /\ Width(a, i) \in 1 .. SlotCount
    BY PlaceIs
  <2>5. OffsetOf(Place(a, i)) \in Nat
    BY <2>1, <2>2, <2>3, <2>4, BurstEndIs
  <2>6. 0 \in 0 .. (Multiframe - 1)
    BY TimesAreNat
  <2> QED
    BY <1>5, <2>1, <2>2, <2>3, <2>4, <2>5, <2>6 DEF Lines
<1>6. CASE i \notin a.fast
  <2>1. Line(a, i) = [id |-> i, offset |-> OffsetOf(SlowPlace(i)), slots |-> 1,
                      residue |-> SlowResidue(i), slow |-> TRUE]
    <3>1. CASE i = Discovery
      BY <1>4, <3>1 DEF Line, SlowPlace, SlowResidue
    <3>2. CASE i # Discovery /\ i < 4
      BY <1>4, <1>6, <3>2 DEF Line, SlowPlace, SlowResidue
    <3>3. CASE i # Discovery /\ ~ (i < 4)
      BY <1>4, <1>6, <3>3 DEF Line, SlowPlace, SlowResidue
    <3> QED
      BY <3>1, <3>2, <3>3
  <2>2. Place(a, i) = SlowPlace(i) /\ Width(a, i) = 1
    BY <1>6 DEF Place, Width
  <2>3. Place(a, i) \in Nat /\ Width(a, i) \in 1 .. SlotCount
    BY PlaceIs
  <2>4. OffsetOf(Place(a, i)) \in Nat
    BY <2>1, <2>2, <2>3, BurstEndIs
  <2>5. SlowResidue(i) \in 0 .. (Multiframe - 1)
    BY <1>2, TimesAreNat DEF SlowResidue
  <2> QED
    BY <1>6, <2>1, <2>2, <2>3, <2>4, <2>5 DEF Lines
<1> QED
  BY <1>5, <1>6

\* Slow clients that share a slot have frames of their own.
LEMMA SlowSolo ==
  ASSUME NEW i \in Ids \cup {Discovery}, NEW j \in Ids \cup {Discovery}, i # j,
         SlowResidue(i) = SlowResidue(j)
  PROVE  SlowPlace(i) # SlowPlace(j)
<1>1. SlotCount \in Nat /\ SlotCount # SlotCount + 1
  BY TimesAreNat
<1>2. /\ \A k \in Ids : k >= 4 => k % Multiframe # Multiframe - 1
      /\ \A k, m \in Ids :
           (k < 4 <=> m < 4) /\ k % Multiframe = m % Multiframe => k = m
      /\ \A k \in Ids : k \in Int /\ k # Discovery
  <2>1. \A k \in Ids : k \in Int /\ k # Discovery
    BY IdsAre DEF Discovery
  <2>2. \A k \in Ids : k >= 4 => k % Multiframe # Multiframe - 1
    BY TdmaAssumption
  <2>3. \A k, m \in Ids : (k < 4 <=> m < 4) /\ k % Multiframe = m % Multiframe => k = m
    BY TdmaAssumption, Zenon
  <2> QED
    BY <2>1, <2>2, <2>3
<1>3. CASE i \in Ids /\ j \in Ids
  <2>1. ~ (i < 4 <=> j < 4)
    BY <1>2, <1>3 DEF SlowResidue
  <2> QED
    BY <1>1, <1>2, <1>3, <2>1 DEF SlowPlace
<1>4. CASE i = Discovery /\ j \in Ids
  BY <1>1, <1>2, <1>4 DEF SlowPlace, SlowResidue
<1>5. CASE j = Discovery /\ i \in Ids
  BY <1>1, <1>2, <1>5 DEF SlowPlace, SlowResidue
<1> QED
  BY <1>3, <1>4, <1>5

\* A slow line on its turn is apart from all others on theirs.
LEMMA SlowApart ==
  ASSUME NEW a, AirOK(a), NEW l \in Lines, l.slow, SlowLine(l), HisTurn(a.nb, l),
         NEW j \in Ids \cup {Discovery}, j # l.id, HisTurn(a.nb, Line(a, j))
  PROVE  ~ Collide(l, Line(a, j)) /\ ~ Collide(Line(a, j), l)
<1> DEFINE m == Line(a, j)
           p == SlowPlace(l.id)
           q == Place(a, j)
<1>1. /\ l.slots = 1 /\ l.offset = OffsetOf(p) /\ l.residue = SlowResidue(l.id)
      /\ l.id \in Ids \cup {Discovery} /\ a.nb % Multiframe = l.residue
  BY DEF SlowLine, Lines, HisTurn
<1>2. /\ m.offset = OffsetOf(q) /\ m.slots = Width(a, j)
      /\ m.slow <=> j \notin a.fast
      /\ j \notin a.fast => m.residue = SlowResidue(j)
  BY LineIs
<1>3. /\ q \in Nat /\ Width(a, j) \in Nat
      /\ j \in a.fast => q + Width(a, j) <= SlotCount
  BY PlaceIs, TimesAreNat
<1>4. SlotCount \in Nat /\ (p = SlotCount \/ p = SlotCount + 1) /\ p \in Nat
  BY TimesAreNat DEF SlowPlace
<1>5. p + l.slots <= q \/ q + m.slots <= p
  <2>1. CASE j \in a.fast
    BY <1>2, <1>3, <1>4, <2>1
  <2>2. CASE j \notin a.fast
    <3>1. a.nb % Multiframe = m.residue /\ q = SlowPlace(j) /\ Width(a, j) = 1
      BY <1>2, <2>2 DEF HisTurn, Place, Width
    <3>2. SlowResidue(j) = SlowResidue(l.id)
      BY <1>1, <1>2, <2>2, <3>1
    <3>3. q # p
      BY <1>1, <3>1, <3>2, SlowSolo
    <3>4. q = SlotCount \/ q = SlotCount + 1
      BY <3>1 DEF SlowPlace
    <3> QED
      BY <1>1, <1>2, <1>4, <3>1, <3>3, <3>4
  <2> QED
    BY <2>1, <2>2
<1>6. m.slots \in Nat /\ l.slots \in Nat
  BY <1>1, <1>2, <1>3
<1> HIDE DEF m, p, q
<1>7. ~ Collide(l, m) /\ ~ Collide(m, l)
  BY <1>1, <1>2, <1>3, <1>4, <1>5, <1>6, LinesApart
<1> QED
  BY <1>7 DEF m

\* The lines of one allocation are apart.
LEMMA FastApart ==
  ASSUME NEW a, AirOK(a), NEW i \in a.fast, NEW j \in a.fast, i < j
  PROVE  ~ Collide(Line(a, i), Line(a, j)) /\ ~ Collide(Line(a, j), Line(a, i))
<1>1. a.fast \in SUBSET Ids /\ \A k \in a.fast : k \in Int
  <2>1. a.fast \in SUBSET Ids
    BY AirIs
  <2>2. \A k \in Ids : k \in Int
    BY IdsAre
  <2>3. \A k \in a.fast : k \in Int
    BY <2>1, <2>2
  <2> QED
    BY <2>1, <2>3
<1>2. FastBefore(a, j) \in SUBSET a.fast /\ FastBefore(a, i) \cup {i} \subseteq FastBefore(a, j)
  BY <1>1 DEF FastBefore
<1>3. Place(a, i) + Width(a, i) <= a.master + SumOf(a.slots, FastBefore(a, j))
  BY <1>2, FastPlaces
<1>4. Place(a, i) + Width(a, i) <= Place(a, j)
  BY <1>3 DEF Place
<1>5. \A k \in a.fast : /\ Line(a, k).offset = OffsetOf(Place(a, k))
                        /\ Line(a, k).slots = Width(a, k)
                        /\ Place(a, k) \in Nat /\ Width(a, k) \in Nat
  BY <1>1, LineIs, PlaceIs, TimesAreNat
<1> QED
  BY <1>4, <1>5, LinesApart

LEMMA OwnLineSlow ==
  ASSUME NEW a, AirOK(a), NEW i \in Ids \cup {Discovery}
  PROVE  SlowLine(Line(a, i)) /\ InFrame(Line(a, i))
<1>1. /\ Line(a, i).id = i
      /\ Line(a, i).offset = OffsetOf(Place(a, i))
      /\ Line(a, i).slots = Width(a, i)
      /\ Line(a, i).slow <=> i \notin a.fast
      /\ i \notin a.fast => Line(a, i).residue = SlowResidue(i)
  BY LineIs
<1>2. /\ Place(a, i) \in Nat /\ Width(a, i) \in Nat
      /\ Place(a, i) + Width(a, i) <= SlotCount + 2
  BY PlaceIs, TimesAreNat
<1>3. SlowLine(Line(a, i))
  BY <1>1 DEF SlowLine, Place, Width
<1>4. InFrame(Line(a, i))
  BY <1>1, <1>2, LineInFrame
<1> QED
  BY <1>3, <1>4

LEMMA OwnLinesApart ==
  ASSUME NEW a, AirOK(a), NEW i \in Ids \cup {Discovery}, NEW j \in Ids \cup {Discovery},
         i # j, HisTurn(a.nb, Line(a, i)), HisTurn(a.nb, Line(a, j))
  PROVE  ~ Collide(Line(a, i), Line(a, j))
<1>1. /\ Line(a, i) \in Lines /\ Line(a, i).id = i /\ SlowLine(Line(a, i))
      /\ Line(a, j) \in Lines /\ Line(a, j).id = j /\ SlowLine(Line(a, j))
  BY LineIs, OwnLineSlow
<1>2. CASE Line(a, i).slow
  BY <1>1, <1>2, SlowApart
<1>3. CASE Line(a, j).slow
  BY <1>1, <1>3, SlowApart
<1>4. CASE ~ Line(a, i).slow /\ ~ Line(a, j).slow
  <2>1. i \in a.fast /\ j \in a.fast /\ i \in Int /\ j \in Int
    BY <1>4, LineIs, AirIs, IdsAre
  <2>2. i < j \/ j < i
    BY <2>1
  <2> QED
    BY <2>1, <2>2, FastApart
<1> QED
  BY <1>2, <1>3, <1>4

\* The invariant says that bursts are apart.
LEMMA SlotsKeepApart ==
  ASSUME SlotsInv
  PROVE  TdmaTypeOK /\ FrameFilled /\ CurrentBurstsDisjoint /\ SlowBurstsAlone
<1>1. AirOK(air) /\ air.booked \in SUBSET Ids /\ \A b \in bursts : BurstOK(b)
  BY AirIs DEF SlotsInv, MasterSide, BurstSide
<1>2. \A i : \A l \in LinesOfOthers(i) :
        \E j \in Ids \cup {Discovery} : j # i /\ l = Line(air, j) /\ HisTurn(air.nb, l)
  BY <1>1 DEF LinesOfOthers
<1>3. FrameFilled
  <2>1. air.slots \in [Ids -> Nat] /\ air.fast \in SUBSET Ids
    BY <1>1, AirIs
  <2>2. SlotSum(air.slots, air.fast) = SumOf(air.slots, air.fast)
    BY <2>1, SumIs
  <2>3. air.master + SlotSum(air.slots, air.fast) = SlotCount
    BY <1>1, <2>2 DEF AirOK
  <2> QED
    BY <1>1, <2>3 DEF FrameFilled, AirOK, SlotSum
<1>4. CurrentBurstsDisjoint
  <2> SUFFICES ASSUME NEW b \in bursts
               PROVE  /\ b.how = "whole" => \A l \in LinesOfOthers(b.line.id) : ~ Collide(b.line, l)
                      /\ BurstEnd(b.line) <= FrameDuration
    BY DEF CurrentBurstsDisjoint
  <2>1. BurstOK(b)
    BY <1>1
  <2>2. ASSUME b.how = "whole", NEW l \in LinesOfOthers(b.line.id) PROVE ~ Collide(b.line, l)
    <3>1. PICK j \in Ids \cup {Discovery} :
            j # b.line.id /\ l = Line(air, j) /\ HisTurn(air.nb, l)
      BY <1>2
    <3>2. /\ b.line = Line(air, b.line.id) /\ b.line.id \in Ids \cup {Discovery}
          /\ HisTurn(air.nb, b.line)
      BY <1>1, <2>1, <2>2 DEF BurstOK
    <3> QED
      BY <1>1, <3>1, <3>2, OwnLinesApart
  <2> QED
    BY <2>1, <2>2 DEF BurstOK, InFrame
<1>5. SlowBurstsAlone
  <2> SUFFICES ASSUME NEW b \in bursts, b.line.slow, b.how # "timeout",
                      NEW l \in LinesOfOthers(b.line.id)
               PROVE  ~ Collide(b.line, l)
    BY DEF SlowBurstsAlone
  <2>1. b.line \in Lines /\ SlowLine(b.line) /\ HisTurn(air.nb, b.line)
    BY <1>1 DEF BurstOK
  <2>2. PICK j \in Ids \cup {Discovery} :
          j # b.line.id /\ l = Line(air, j) /\ HisTurn(air.nb, l)
    BY <1>2
  <2> QED
    BY <1>1, <2>1, <2>2, SlowApart
<1>6. TdmaTypeOK
  BY <1>1 DEF SlotsInv, MasterSide, ClientSide, TdmaTypeOK, BurstOK
<1> QED
  BY <1>3, <1>4, <1>5, <1>6

-----------------------------------------------------------------------------
(* Every step keeps the invariant.                                          *)

\* What the master sends for a frame hands out all the slots.
LEMMA MasterFrameKeeps ==
  ASSUME SlotsInv, NEW downlink \in Downlink, MasterFrame(downlink)
  PROVE  SlotsInv'
<1> DEFINE slow   == frame_nb % Multiframe = 0
           used   == [i \in Ids |-> booked[i] /\ uplink_usage[i] > 0]
           usage  == [i \in Ids |-> IF used[i] THEN uplink_usage[i] - 1
                                               ELSE uplink_usage[i]]
           fast   == [i \in Ids |-> is_fast[i] \/ used[i]]
           pass   == IF slow THEN SlowPass(usage, fast)
                     ELSE [usage |-> usage, fast |-> fast]
           st     == [i \in Ids |-> IF slow /\ ~booked[i] THEN 0
                                    ELSE IF booked[i] /\ ~up2date[i] /\ uplink_st[i] > 0
                                    THEN uplink_st[i] - 1 ELSE uplink_st[i]]
           fastNow == {i \in Ids : booked[i] /\ pass.fast[i]}
           need   == IF downlink > MaxNeed THEN MaxNeed ELSE downlink
           a      == Allocation(fastNow, need, st)
<1>1. /\ uplink_st' = st /\ uplink_usage' = pass.usage /\ is_fast' = pass.fast
      /\ up2date' = [i \in Ids |-> FALSE]
      /\ air' = [nb |-> frame_nb, booked |-> {i \in Ids : booked[i]},
                 fast |-> fastNow, master |-> a.master, slots |-> a.slots]
      /\ frame_nb' = (frame_nb + 1) % FrameNumbers
      /\ top' = [c \in Clients |-> "due"]
      /\ top_age' = [c \in Clients |-> IF top_age[c] < 2 THEN top_age[c] + 1 ELSE 2]
      /\ bursts' = {}
      /\ booked' = booked /\ id' = id /\ alloc' = alloc /\ alloc_age' = alloc_age
      /\ client_nb' = client_nb
  BY DEF MasterFrame
<1>2. MasterSide /\ ClientSide
  BY DEF SlotsInv
<1>3. /\ UsageMemory \in Nat /\ MaxNeed \in Nat /\ FrameNumbers \in Nat \ {0}
      /\ downlink \in Nat
  BY TdmaAssumption
<1>4. st \in [Ids -> 0..MaxNeed]
  <2>1. \A i \in Ids : uplink_st[i] \in 0..MaxNeed
    BY <1>2 DEF MasterSide
  <2>2. ASSUME NEW i \in Ids PROVE st[i] \in 0..MaxNeed
    BY <1>3, <2>1
  <2> QED
    BY <2>2
<1>5. usage \in [Ids -> 0..UsageMemory]
  <2>1. \A i \in Ids : uplink_usage[i] \in 0..UsageMemory
    BY <1>2 DEF MasterSide
  <2>2. ASSUME NEW i \in Ids PROVE usage[i] \in 0..UsageMemory
    <3>1. used[i] => uplink_usage[i] > 0
      OBVIOUS
    <3> HIDE DEF used
    <3>2. usage[i] = IF used[i] THEN uplink_usage[i] - 1 ELSE uplink_usage[i]
      OBVIOUS
    <3> QED
      BY <1>3, <2>1, <3>1, <3>2
  <2> QED
    BY <2>2
<1>6. fast \in [Ids -> BOOLEAN]
  <2>1. \A i \in Ids : (is_fast[i] \/ used[i]) \in BOOLEAN
    OBVIOUS
  <2> QED
    BY <2>1
<1> HIDE DEF usage, fast, st, slow
<1>7. pass.usage \in [Ids -> 0..UsageMemory]
  BY <1>3, <1>5 DEF SlowPass
<1>8. pass.fast \in [Ids -> BOOLEAN]
  BY <1>6 DEF SlowPass
<1> HIDE DEF pass
<1>9. fastNow \in SUBSET Ids /\ fastNow \subseteq {i \in Ids : booked[i]}
  OBVIOUS
<1>10. need \in Nat /\ st \in [Ids -> Nat]
  BY <1>3, <1>4
<1> HIDE DEF fastNow, need
<1>11. a \in FairGrants(fastNow) /\ a.total = SlotCount
  BY <1>9, <1>10, AllocationFills
<1> HIDE DEF a
<1>12. /\ a.master \in Nat /\ a.slots \in [Ids -> Nat]
       /\ a.master >= 1 /\ \A i \in fastNow : a.slots[i] >= 1
       /\ a.master + SumOf(a.slots, fastNow) = SlotCount
  BY <1>11 DEF FairGrants, Counted, Grants
<1>13. frame_nb \in 0 .. (FrameNumbers - 1)
  BY <1>2 DEF MasterSide
<1>14. AirOK(air')
  <2> DEFINE on == {i \in Ids : booked[i]}
             n  == [nb |-> frame_nb, booked |-> on,
                    fast |-> fastNow, master |-> a.master, slots |-> a.slots]
  <2>1. on \in SUBSET Ids /\ fastNow \subseteq on
    BY <1>9
  <2> HIDE DEF on
  <2>2. n \in [nb : 0 .. (FrameNumbers - 1), booked : SUBSET Ids, fast : SUBSET Ids,
               master : Nat, slots : [Ids -> Nat]]
    BY <1>9, <1>12, <1>13, <2>1
  <2>3. AirOK(n)
    BY <1>12, <2>1, <2>2 DEF AirOK
  <2> QED
    BY <1>1, <2>3 DEF on
<1>15. (frame_nb + 1) % FrameNumbers \in 0 .. (FrameNumbers - 1)
  BY <1>3, <1>13
<1>16. MasterSide'
  <2>1. booked' \in [Ids -> BOOLEAN]
    BY <1>1, <1>2 DEF MasterSide
  <2>2. up2date' \in [Ids -> BOOLEAN]
    BY <1>1
  <2> QED
    BY <1>1, <1>4, <1>7, <1>8, <1>14, <1>15, <2>1, <2>2 DEF MasterSide
<1>17. ClientSide'
  <2>1. top_age' \in [Clients -> 0..2]
    <3>1. \A c \in Clients : top_age[c] \in 0..2
      BY <1>2 DEF ClientSide
    <3> QED
      BY <1>1, <3>1
  <2>2. top' \in [Clients -> {"due", "whole", "top", "missed"}]
    BY <1>1
  <2> QED
    BY <1>1, <1>2, <2>1, <2>2 DEF ClientSide
<1>18. BurstSide'
  BY <1>1 DEF BurstSide
<1> QED
  BY <1>16, <1>17, <1>18 DEF SlotsInv

\* Steps that change neither the broadcast nor the bursts.
LEMMA BurstsStay ==
  ASSUME BurstSide, air' = air, bursts' = bursts
  PROVE  BurstSide'
<1>1. \A b : BurstOK(b) => BurstOK(b)'
  <2> SUFFICES ASSUME NEW b, BurstOK(b) PROVE BurstOK(b)'
    OBVIOUS
  <2> QED
    BY DEF BurstOK
<1> QED
  BY <1>1 DEF BurstSide

LEMMA MasterHearsKeeps ==
  ASSUME SlotsInv, NEW b \in bursts, NEW size \in Reported, MasterHears(b, size)
  PROVE  SlotsInv'
<1>1. /\ b.id \in Ids
      /\ uplink_st' = [uplink_st EXCEPT ![b.id] = size]
      /\ up2date' = [up2date EXCEPT ![b.id] = TRUE]
      /\ uplink_usage' = [uplink_usage EXCEPT ![b.id] = IF size > 1 THEN UsageMemory ELSE @]
      /\ is_fast' = [is_fast EXCEPT ![b.id] = @ \/ size > 1]
      /\ UNCHANGED <<booked, frame_nb, air, id, alloc, alloc_age, client_nb, top, top_age, bursts>>
  BY DEF MasterHears, clientVars
<1>2. size \in 0..MaxNeed /\ UsageMemory \in Nat
  BY TdmaAssumption
<1>3. MasterSide /\ ClientSide /\ BurstSide
  BY DEF SlotsInv
<1>4. uplink_st' \in [Ids -> 0..MaxNeed] /\ up2date' \in [Ids -> BOOLEAN]
  BY <1>1, <1>2, <1>3 DEF MasterSide
<1>5. uplink_usage' \in [Ids -> 0..UsageMemory]
  BY <1>1, <1>2, <1>3 DEF MasterSide
<1>6. is_fast' \in [Ids -> BOOLEAN]
  <2>1. is_fast \in [Ids -> BOOLEAN] /\ (is_fast[b.id] \/ size > 1) \in BOOLEAN
    BY <1>3 DEF MasterSide
  <2> QED
    BY <1>1, <2>1
<1>7. MasterSide'
  BY <1>1, <1>3, <1>4, <1>5, <1>6 DEF MasterSide
<1>8. ClientSide'
  BY <1>1, <1>3 DEF ClientSide
<1>9. BurstSide'
  BY <1>1, <1>3, BurstsStay
<1> QED
  BY <1>7, <1>8, <1>9 DEF SlotsInv

LEMMA BookKeeps ==
  ASSUME SlotsInv, NEW i \in Ids, Book(i)
  PROVE  SlotsInv'
<1>1. /\ booked' = [booked EXCEPT ![i] = ~@]
      /\ UNCHANGED <<uplink_st, uplink_usage, is_fast, up2date, frame_nb, air,
                     id, alloc, alloc_age, client_nb, top, top_age, bursts>>
  BY DEF Book, clientVars
<1>2. MasterSide /\ ClientSide /\ BurstSide
  BY DEF SlotsInv
<1>3. booked' \in [Ids -> BOOLEAN]
  <2>1. booked \in [Ids -> BOOLEAN] /\ (~ booked[i]) \in BOOLEAN
    BY <1>2 DEF MasterSide
  <2> QED
    BY <1>1, <2>1
<1>4. MasterSide'
  BY <1>1, <1>2, <1>3 DEF MasterSide
<1>5. ClientSide'
  BY <1>1, <1>2 DEF ClientSide
<1>6. BurstSide'
  BY <1>1, <1>2, BurstsStay
<1> QED
  BY <1>4, <1>5, <1>6 DEF SlotsInv

\* A client's burst, at the top or when the top is overdue.
LEMMA HearTopKeepsApart ==
  ASSUME SlotsInv, NEW c \in Clients, NEW how \in {"whole", "top"}, HearTop(c, how)
  PROVE  SlotsInv'
<1> DEFINE mine  == how = "whole" /\ id[c] \in air.booked \cup {Discovery}
           l     == IF mine THEN Line(air, id[c]) ELSE alloc[c]
           age   == IF mine THEN 0 ELSE alloc_age[c]
           sends == AgeAllows(age) /\ HisTurn(air.nb, l)
           b     == Burst(c, l, IF mine THEN "whole" ELSE "top")
<1>1. /\ top' = [top EXCEPT ![c] = how] /\ top_age' = [top_age EXCEPT ![c] = 0]
      /\ client_nb' = [client_nb EXCEPT ![c] = air.nb]
      /\ alloc' = [alloc EXCEPT ![c] = l]
      /\ alloc_age' = [alloc_age EXCEPT ![c] = IF sends THEN age + 1 ELSE age]
      /\ bursts' = IF sends THEN bursts \cup {b} ELSE bursts
      /\ UNCHANGED <<booked, uplink_st, uplink_usage, is_fast, up2date, frame_nb, air, id>>
  BY DEF HearTop, masterVars
<1>2. MasterSide /\ ClientSide /\ BurstSide /\ AirOK(air)
  BY DEF SlotsInv, MasterSide
<1>3. /\ id[c] \in Ids \cup {Discovery} /\ alloc[c] \in Lines /\ alloc_age[c] \in 0..2
      /\ SlowLine(alloc[c]) /\ (alloc_age[c] < 2 => InFrame(alloc[c]))
  BY <1>2 DEF ClientSide
<1>4. /\ Line(air, id[c]) \in Lines /\ Line(air, id[c]).id = id[c]
      /\ SlowLine(Line(air, id[c])) /\ InFrame(Line(air, id[c]))
  BY <1>2, <1>3, LineIs, OwnLineSlow
<1>5. l \in Lines /\ SlowLine(l) /\ age \in 0..2 /\ (age < 2 => InFrame(l))
  BY <1>3, <1>4
<1>6. mine => l = Line(air, l.id) /\ l.id \in air.booked \cup {Discovery}
  BY <1>4
<1>7. sends => age < 2 /\ HisTurn(air.nb, l)
  BY DEF AgeAllows
<1>8. b.line = l /\ (b.how = "whole" => mine)
  BY DEF Burst
<1> HIDE DEF mine, l, age, b
<1>9. sends => BurstOK(b)
  BY <1>5, <1>6, <1>7, <1>8 DEF BurstOK
<1> HIDE DEF sends
<1>10. BurstSide'
  <2>1. \A d : BurstOK(d) => BurstOK(d)'
    <3> SUFFICES ASSUME NEW d, BurstOK(d) PROVE BurstOK(d)'
      OBVIOUS
    <3>1. air' = air
      BY <1>1
    <3> QED
      BY <3>1 DEF BurstOK
  <2>2. \A d \in bursts' : BurstOK(d)
    BY <1>1, <1>2, <1>9 DEF BurstSide
  <2> QED
    BY <2>1, <2>2 DEF BurstSide
<1>11. MasterSide'
  BY <1>1, <1>2 DEF MasterSide
<1>12. ClientSide'
  <2>1. air.nb \in 0 .. (FrameNumbers - 1)
    BY <1>2, AirIs
  <2>2. /\ top' \in [Clients -> {"due", "whole", "top", "missed"}]
        /\ top_age' \in [Clients -> 0..2]
        /\ client_nb' \in [Clients -> 0 .. (FrameNumbers - 1)]
    BY <1>1, <1>2, <2>1 DEF ClientSide
  <2>3. alloc \in [Clients -> Lines] /\ alloc_age \in [Clients -> 0..2]
    BY <1>2 DEF ClientSide
  <2>4. alloc' \in [Clients -> Lines] /\ alloc'[c] = l /\ \A d \in Clients : d # c => alloc'[d] = alloc[d]
    BY <1>1, <1>5, <2>3
  <2> DEFINE n == IF sends THEN age + 1 ELSE age
  <2>5. n \in 0..2 /\ (n < 2 => age < 2)
    BY <1>5, <1>7
  <2>6. alloc_age' = [alloc_age EXCEPT ![c] = n]
    BY <1>1
  <2> HIDE DEF n
  <2>7. /\ alloc_age' \in [Clients -> 0..2] /\ alloc_age'[c] = n
        /\ \A d \in Clients : d # c => alloc_age'[d] = alloc_age[d]
    BY <2>3, <2>5, <2>6
  <2>8. ASSUME NEW d \in Clients
        PROVE  SlowLine(alloc'[d]) /\ (alloc_age'[d] < 2 => InFrame(alloc'[d]))
    <3>1. CASE d = c
      BY <1>5, <2>4, <2>5, <2>7, <3>1
    <3>2. CASE d # c
      BY <1>2, <2>4, <2>7, <3>2 DEF ClientSide
    <3> QED
      BY <3>1, <3>2
  <2>9. \A d \in Clients : (SlowLine(alloc[d]) /\ (alloc_age[d] < 2 => InFrame(alloc[d])))'
    BY <2>8 DEF SlowLine, InFrame
  <2>10. id' \in [Clients -> Ids \cup {Discovery}]
    BY <1>1, <1>2 DEF ClientSide
  <2> QED
    BY <2>2, <2>4, <2>7, <2>9, <2>10 DEF ClientSide
<1> QED
  BY <1>10, <1>11, <1>12 DEF SlotsInv

LEMMA SlaveTimeoutKeepsApart ==
  ASSUME SlotsInv, NEW c \in Clients, SlaveTimeout(c)
  PROVE  SlotsInv'
<1> DEFINE nb    == (client_nb[c] + 1) % FrameNumbers
           sends == HisTurn(nb, alloc[c])
           b     == Burst(c, alloc[c], "timeout")
<1>1. /\ AgeAllows(alloc_age[c])
      /\ client_nb' = [client_nb EXCEPT ![c] = nb]
      /\ alloc_age' = [alloc_age EXCEPT ![c] = IF sends THEN @ + 1 ELSE @]
      /\ bursts' = IF sends THEN bursts \cup {b} ELSE bursts
      /\ UNCHANGED <<booked, uplink_st, uplink_usage, is_fast, up2date, frame_nb, air,
                     id, alloc, top, top_age>>
  BY DEF SlaveTimeout, masterVars
<1>2. MasterSide /\ ClientSide /\ BurstSide
  BY DEF SlotsInv
<1>3. /\ client_nb[c] \in 0 .. (FrameNumbers - 1) /\ FrameNumbers \in Nat \ {0}
      /\ alloc[c] \in Lines /\ alloc_age[c] \in 0..2
      /\ SlowLine(alloc[c]) /\ (alloc_age[c] < 2 => InFrame(alloc[c]))
  BY <1>2, TimesAreNat DEF ClientSide
<1>4. nb \in 0 .. (FrameNumbers - 1)
  BY <1>3
<1>5. alloc_age[c] < 2
  BY <1>1 DEF AgeAllows
<1>6. b.line = alloc[c] /\ b.how = "timeout"
  BY DEF Burst
<1> HIDE DEF nb, sends, b
<1>7. BurstOK(b)
  BY <1>3, <1>5, <1>6 DEF BurstOK
<1>8. BurstSide'
  <2>1. \A d : BurstOK(d) => BurstOK(d)'
    <3> SUFFICES ASSUME NEW d, BurstOK(d) PROVE BurstOK(d)'
      OBVIOUS
    <3>1. air' = air
      BY <1>1
    <3> QED
      BY <3>1 DEF BurstOK
  <2>2. \A d \in bursts' : BurstOK(d)
    BY <1>1, <1>2, <1>7 DEF BurstSide
  <2> QED
    BY <2>1, <2>2 DEF BurstSide
<1>9. MasterSide'
  BY <1>1, <1>2 DEF MasterSide
<1>10. ClientSide'
  <2>1. client_nb' \in [Clients -> 0 .. (FrameNumbers - 1)]
    BY <1>1, <1>2, <1>4 DEF ClientSide
  <2>2. alloc_age \in [Clients -> 0..2]
    BY <1>2 DEF ClientSide
  <2> DEFINE n == IF sends THEN alloc_age[c] + 1 ELSE alloc_age[c]
  <2>3. n \in 0..2
    BY <1>3, <1>5
  <2>4. alloc_age' = [alloc_age EXCEPT ![c] = n]
    BY <1>1
  <2> HIDE DEF n
  <2>5. /\ alloc_age' \in [Clients -> 0..2]
        /\ \A d \in Clients : d # c => alloc_age'[d] = alloc_age[d]
    BY <2>2, <2>3, <2>4
  <2>6. alloc' = alloc
    BY <1>1
  <2>7. \A d \in Clients : (SlowLine(alloc[d]) /\ (alloc_age[d] < 2 => InFrame(alloc[d])))'
    <3> SUFFICES ASSUME NEW d \in Clients
                 PROVE  SlowLine(alloc'[d]) /\ (alloc_age'[d] < 2 => InFrame(alloc'[d]))
      BY DEF SlowLine, InFrame
    <3>1. CASE d = c
      BY <1>3, <1>5, <2>6, <3>1
    <3>2. CASE d # c
      BY <1>2, <2>5, <2>6, <3>2 DEF ClientSide
    <3> QED
      BY <3>1, <3>2
  <2> QED
    BY <1>1, <1>2, <2>1, <2>5, <2>7 DEF ClientSide
<1> QED
  BY <1>8, <1>9, <1>10 DEF SlotsInv

\* Whatever a client takes for the frame's number is one.
LEMMA NumbersInRange ==
  ASSUME frame_nb \in 0 .. (FrameNumbers - 1)
  PROVE  Numbers \subseteq 0 .. (FrameNumbers - 1)
<1>1. ASSUME NEW size \in Reported PROVE size % FrameNumbers \in 0 .. (FrameNumbers - 1)
  <2>1. size \in Nat /\ FrameNumbers \in Nat \ {0}
    BY TdmaAssumption
  <2> QED
    BY <2>1
<1> QED
  BY <1>1 DEF Numbers

\* The other steps of a client.
LEMMA ClientStepKeeps ==
  ASSUME SlotsInv, NEW c \in Clients,
         MissTop(c) \/ (\E nb \in Numbers : HearData(c, nb)) \/ \E i \in Ids \cup {Discovery} : SetId(c, i)
  PROVE  SlotsInv'
<1>1. UNCHANGED <<booked, uplink_st, uplink_usage, is_fast, up2date, frame_nb, air,
                  alloc, alloc_age, top_age, bursts>>
  BY DEF MissTop, HearData, SetId, masterVars
<1>2. MasterSide /\ ClientSide /\ BurstSide
  BY DEF SlotsInv
<1>3. frame_nb \in 0 .. (FrameNumbers - 1)
  BY <1>2 DEF MasterSide
<1>4. /\ id' \in [Clients -> Ids \cup {Discovery}]
      /\ client_nb' \in [Clients -> 0 .. (FrameNumbers - 1)]
      /\ top' \in [Clients -> {"due", "whole", "top", "missed"}]
  <2>1. CASE MissTop(c)
    BY <1>2, <2>1 DEF MissTop, ClientSide
  <2>2. CASE \E nb \in Numbers : HearData(c, nb)
    BY <1>2, <1>3, <2>2, NumbersInRange DEF HearData, ClientSide
  <2>3. ASSUME NEW i \in Ids \cup {Discovery}, SetId(c, i)
        PROVE  /\ id' \in [Clients -> Ids \cup {Discovery}]
               /\ client_nb' = client_nb /\ top' = top
    BY <1>2, <2>3 DEF SetId, ClientSide
  <2> QED
    BY <1>2, <2>1, <2>2, <2>3 DEF ClientSide
<1>5. MasterSide'
  BY <1>1, <1>2 DEF MasterSide
<1>6. ClientSide'
  BY <1>1, <1>2, <1>4 DEF ClientSide
<1>7. BurstSide'
  BY <1>1, <1>2, BurstsStay
<1> QED
  BY <1>5, <1>6, <1>7 DEF SlotsInv

LEMMA SlotsInvStarts ==
  ASSUME Init
  PROVE  SlotsInv
<1>1. /\ SlotCount \in Nat /\ SlotCount >= 1 /\ Multiframe \in Nat \ {0}
      /\ FrameNumbers \in Nat \ {0} /\ UsageMemory \in Nat /\ MaxNeed \in Nat
  <2>1. Cardinality(Ids) \in Nat
    BY IdsAre, FS_CardinalityType
  <2> QED
    BY <2>1, TdmaAssumption
<1>2. AirOK(air)
  <2> DEFINE n == [nb |-> 0, booked |-> {}, fast |-> {}, master |-> SlotCount,
                   slots |-> [i \in Ids |-> 0]]
  <2>1. n \in [nb : 0 .. (FrameNumbers - 1), booked : SUBSET Ids, fast : SUBSET Ids,
               master : Nat, slots : [Ids -> Nat]]
    BY <1>1
  <2>2. AirOK(n)
    BY <1>1, <2>1, SumOfNone DEF AirOK
  <2> QED
    BY <2>2 DEF Init
<1>3. MasterSide
  BY <1>1, <1>2 DEF Init, MasterSide
<1>4. ClientSide
  <2> DEFINE l == [id |-> Discovery, offset |-> 48000, slots |-> 1, residue |-> 0, slow |-> FALSE]
  <2>1. l \in Lines /\ SlowLine(l)
    BY <1>1 DEF Lines, SlowLine
  <2>2. alloc = [c \in Clients |-> l] /\ alloc_age = [c \in Clients |-> 2]
    BY DEF Init
  <2> HIDE DEF l
  <2>3. \A c \in Clients : alloc[c] = l /\ alloc_age[c] = 2
    BY <2>2
  <2>4. /\ alloc \in [Clients -> Lines] /\ alloc_age \in [Clients -> 0..2]
        /\ \A c \in Clients : SlowLine(alloc[c]) /\ (alloc_age[c] < 2 => InFrame(alloc[c]))
    BY <2>1, <2>2, <2>3
  <2>5. /\ id \in [Clients -> Ids \cup {Discovery}]
        /\ top \in [Clients -> {"due", "whole", "top", "missed"}]
    BY DEF Init
  <2>6. client_nb \in [Clients -> 0..(FrameNumbers - 1)] /\ top_age \in [Clients -> 0..2]
    BY <1>1 DEF Init
  <2> QED
    BY <2>4, <2>5, <2>6 DEF ClientSide
<1>5. BurstSide
  BY DEF Init, BurstSide
<1> QED
  BY <1>3, <1>4, <1>5 DEF SlotsInv

LEMMA SlotsInvHolds == Spec => []SlotsInv
<1>1. Init => SlotsInv
  BY SlotsInvStarts
<1>2. SlotsInv /\ [Next]_vars => SlotsInv'
  <2> SUFFICES ASSUME SlotsInv, [Next]_vars PROVE SlotsInv'
    OBVIOUS
  <2>1. ASSUME NEW d \in Downlink, MasterFrame(d) PROVE SlotsInv'
    BY <2>1, MasterFrameKeeps
  <2>2. ASSUME NEW b \in bursts, NEW s \in Reported, MasterHears(b, s) PROVE SlotsInv'
    BY <2>2, MasterHearsKeeps
  <2>3. ASSUME NEW i \in Ids, Book(i) PROVE SlotsInv'
    BY <2>3, BookKeeps
  <2>4. ASSUME NEW c \in Clients, NEW how \in {"whole", "top"}, HearTop(c, how) PROVE SlotsInv'
    BY <2>4, HearTopKeepsApart
  <2>5. ASSUME NEW c \in Clients, SlaveTimeout(c) PROVE SlotsInv'
    BY <2>5, SlaveTimeoutKeepsApart
  <2>6. ASSUME NEW c \in Clients,
               MissTop(c) \/ (\E nb \in Numbers : HearData(c, nb)) \/ \E i \in Ids \cup {Discovery} : SetId(c, i)
        PROVE  SlotsInv'
    BY <2>6, ClientStepKeeps
  <2>7. CASE UNCHANGED vars
    <3>1. UNCHANGED <<booked, uplink_st, uplink_usage, is_fast, up2date, frame_nb, air,
                      id, alloc, alloc_age, client_nb, top, top_age, bursts>>
      BY <2>7 DEF vars, masterVars, clientVars
    <3>2. MasterSide /\ ClientSide /\ BurstSide
      BY DEF SlotsInv
    <3>3. MasterSide'
      BY <3>1, <3>2 DEF MasterSide
    <3>4. ClientSide'
      BY <3>1, <3>2 DEF ClientSide
    <3>5. BurstSide'
      BY <3>1, <3>2, BurstsStay
    <3> QED
      BY <3>3, <3>4, <3>5 DEF SlotsInv
  <2> QED
    BY <2>1, <2>2, <2>3, <2>4, <2>5, <2>6, <2>7 DEF Next
<1> QED
  BY <1>1, <1>2, PTL DEF Spec

\* Every variable of the scheduler stays in its range, in any cell: ages, frame
\* numbers and queue sizes wrap or stop where they should.
THEOREM SchedulerTypesHold == Spec => []TdmaTypeOK
BY SlotsInvHolds, SlotsKeepApart, PTL

\* The two passes of the allocation hand out every slot, for any number of slots
\* and clients and whatever anybody needs.
THEOREM AllSlotsGiven == Spec => []FrameFilled
BY SlotsInvHolds, SlotsKeepApart, PTL

\* Who transmits as the current allocation says has the air to himself, with any
\* timings whose margin outlasts the rounding of offsets, and no burst on any
\* allocation reaches into the next frame.
THEOREM CurrentLinesApart == Spec => []CurrentBurstsDisjoint
BY SlotsInvHolds, SlotsKeepApart, PTL

\* A slow client timed by a top collides with nobody who follows the current
\* allocation, however old its own is.
THEOREM SlowLinesApart == Spec => []SlowBurstsAlone
BY SlotsInvHolds, SlotsKeepApart, PTL

-----------------------------------------------------------------------------
(* Turns.                                                                   *)

LEMMA RemainderUnique ==
  ASSUME NEW n \in Nat, NEW m \in Nat \ {0}, NEW q \in Int, NEW r \in Nat, r < m,
         n = m * q + r
  PROVE  n % m = r
<1> DEFINE p == n \div m
           s == n % m
<1>1. p \in Int /\ s \in Nat /\ s < m /\ n = m * p + s
  OBVIOUS
<1> HIDE DEF p, s
<1>2. m * (q - p) = s - r
  BY <1>1
<1>3. CASE q - p >= 1
  <2>1. m * (q - p) >= m
    BY <1>1, <1>3
  <2> QED
    BY <1>1, <1>2, <2>1
<1>4. CASE q - p <= -1
  <2>1. m * (q - p) <= -m
    BY <1>1, <1>4
  <2> QED
    BY <1>1, <1>2, <2>1
<1>5. CASE q - p = 0
  <2>1. s = r
    BY <1>1, <1>2, <1>5
  <2> QED
    BY <2>1 DEF s
<1> QED
  BY <1>1, <1>3, <1>4, <1>5

\* A slow client's turn comes within any Multiframe frames, the wrap of frame
\* numbers included: the place among Multiframe of the frame k after number nb is
\* counted on across the wrap.
THEOREM EveryTurnComes ==
  ASSUME NEW nb \in 0 .. (FrameNumbers - 1), NEW l \in Lines
  PROVE  \E k \in 0 .. (Multiframe - 1) : HisTurn((nb + k) % FrameNumbers, l)
<1> DEFINE M == Multiframe
           F == FrameNumbers
<1>1. M \in Nat \ {0} /\ F \in Nat \ {0} /\ F % M = 0
  BY TdmaAssumption
<1>2. nb \in Nat /\ l.residue \in Nat /\ l.residue < M
  BY <1>1 DEF Lines
<1> HIDE DEF M, F
<1> DEFINE r == nb % M
           d == nb \div M
           k == IF l.residue >= r THEN l.residue - r ELSE M + l.residue - r
           x == nb + k
<1>3. r \in Nat /\ r < M /\ d \in Int /\ nb = M * d + r
  BY <1>1, <1>2
<1> HIDE DEF r, d
<1>4. k \in 0 .. (M - 1) /\ x \in Nat
  BY <1>1, <1>2, <1>3
<1>5. PICK e \in Int : x = M * e + l.residue
  <2>1. CASE l.residue >= r
    BY <1>1, <1>2, <1>3, <2>1
  <2>2. CASE l.residue < r
    <3>1. M * (d + 1) = M * d + M
      BY <1>1, <1>3
    <3>2. x = M * (d + 1) + l.residue
      BY <1>1, <1>2, <1>3, <2>2, <3>1
    <3>3. d + 1 \in Int
      BY <1>3
    <3> QED
      BY <3>2, <3>3
  <2> QED
    BY <1>2, <1>3, <2>1, <2>2
<1> HIDE DEF k, x
<1> DEFINE y == x % F
           g == x \div F
           c == F \div M
<1>6. y \in Nat /\ g \in Int /\ x = F * g + y
  BY <1>1, <1>4
<1>7. c \in Int /\ F = M * c
  BY <1>1
<1> HIDE DEF y, g, c
<1>8. y = M * (e - c * g) + l.residue /\ e - c * g \in Int
  <2>1. F * g = M * (c * g)
    BY <1>1, <1>6, <1>7
  <2>2. c * g \in Int
    BY <1>6, <1>7
  <2>3. M * (e - c * g) = M * e - M * (c * g)
    BY <1>1, <1>5, <2>2
  <2>4. M * e \in Int /\ M * (c * g) \in Int
    BY <1>1, <1>5, <2>2
  <2> QED
    BY <1>2, <1>5, <1>6, <2>1, <2>2, <2>3, <2>4
<1>9. y % M = l.residue
  BY <1>1, <1>2, <1>6, <1>8, RemainderUnique
<1> QED
  BY <1>4, <1>9 DEF HisTurn, M, F, k, x, y

=============================================================================
