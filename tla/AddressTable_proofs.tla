------------------------ MODULE AddressTable_proofs ------------------------
(***************************************************************************)
(* Proofs about the master's address table for any number of callsigns and *)
(* entries, any block sizes and any pool.                                  *)
(***************************************************************************)
EXTENDS AddressTable, WellFoundedInduction, TLAPS

\* The three facts the safety properties rest on, together inductive.
TableInv == TypeOK /\ CallsignsUnique /\ BlocksInPool

\* Client IDs are numbers.
LEMMA SlotsNat == Slots \subseteq Nat
BY TableAssumption DEF Slots

\* A gap the search accepts lies in the pool: under TableInv no candidate is
\* beyond the pool's end, so the unsigned difference never wraps.
LEMMA FittingInPool ==
  ASSUME TableInv, NEW req \in ReqSizes, NEW booked \in SUBSET Live,
         NEW p \in Fitting(booked, req)
  PROVE  /\ p \in Nat
         /\ pool.start <= p
         /\ p + req <= PoolEnd
<1> DEFINE limit == PoolEnd
<1>1. /\ pool.start \in Nat /\ pool.size \in Nat /\ pool.size > 0
      /\ PoolEnd = pool.start + pool.size
      /\ PoolEnd < Word
      /\ req \in Nat /\ req > 0
  BY PoolAssumption, SizeAssumption DEF TableInv, TypeOK, PoolEnd
<1>2. p \in Candidates(booked) /\ GapFits(booked, p, req)
  BY DEF Fitting
<1>3. p \in Nat /\ pool.start <= p /\ p <= PoolEnd
  <2>1. CASE p = pool.start
    BY <2>1, <1>1
  <2>2. ASSUME NEW i \in booked, p = IP_begin[i] + IP_size[i]
        PROVE  p \in Nat /\ pool.start <= p /\ p <= PoolEnd
    <3>1. i \in Owned /\ i \in Slots
      BY DEF TableInv, BlocksInPool, Live, Owned
    <3>2. InPool(i) /\ IP_begin[i] \in Nat /\ IP_size[i] \in Nat
      BY <3>1 DEF TableInv, BlocksInPool, TypeOK
    <3> QED
      BY <2>2, <3>2, <1>1 DEF InPool
  <2> QED
    BY <1>2, <2>1, <2>2 DEF Candidates
<1>4. Minus(PoolEnd, p) >= req
  BY <1>2 DEF GapFits, GapLimits
<1>5. Minus(PoolEnd, p) = PoolEnd - p
  BY <1>1, <1>3 DEF Minus
<1> QED
  BY <1>1, <1>3, <1>4, <1>5

-----------------------------------------------------------------------------
\* Booking entry i for c with a block of the pool keeps the invariant, as long
\* as no other entry has that callsign.
LEMMA BookKeepsInv ==
  ASSUME TableInv, NEW c \in Callsigns, NEW i \in Slots,
         NEW req \in ReqSizes, NEW p \in Nat,
         pool.start <= p, p + req <= PoolEnd,
         \A j \in Slots : callsign[j] = c => j = i,
         Book(c, i, p, req), UNCHANGED pool
  PROVE  TableInv'
<1>1. req \in Nat /\ req >= 1
  BY SizeAssumption
<1>2. c # NoCallsign
  BY CallsignAssumption
<1>3. TypeOK'
  BY <1>1 DEF TableInv, TypeOK, Book, Answers, Ack
<1>4. Owned' = Owned \cup {i}
  BY <1>2 DEF TableInv, TypeOK, Book, Owned, Slots
<1>5. \A j \in Slots : callsign'[j] = IF j = i THEN c ELSE callsign[j]
  BY DEF TableInv, TypeOK, Book
<1>6. CallsignsUnique'
  BY <1>2, <1>4, <1>5 DEF TableInv, CallsignsUnique, Owned, Slots
<1>7. BlocksInPool'
  <2>1. Live' \subseteq Owned'
    BY <1>4 DEF TableInv, TypeOK, BlocksInPool, Book, Live, Slots
  <2>2. ASSUME NEW j \in Owned' PROVE (IP_size[j] >= 1 /\ InPool(j))'
    <3>1. CASE j = i
      BY <3>1, <1>1 DEF TableInv, TypeOK, Book, InPool, PoolEnd
    <3>2. CASE j # i
      <4>1. j \in Owned
        BY <3>2, <1>4
      <4> QED
        BY <3>2, <4>1 DEF TableInv, TypeOK, BlocksInPool, Book, InPool, PoolEnd,
                          Owned
    <3> QED
      BY <3>1, <3>2
  <2> QED
    BY <2>1, <2>2 DEF BlocksInPool
<1> QED
  BY <1>3, <1>6, <1>7 DEF TableInv

\* A step that leaves callsigns and blocks alone keeps the invariant if it
\* books no entry without an owner.
LEMMA StatusStepKeepsInv ==
  ASSUME TableInv, UNCHANGED <<callsign, IP_begin, IP_size, pool>>,
         status' \in [Slots -> {0, 1}], answer' \in Answers,
         Live' \subseteq Owned
  PROVE  TableInv'
<1>1. TypeOK'
  BY DEF TableInv, TypeOK
<1>2. Owned' = Owned
  BY DEF Owned, Slots
<1>3. CallsignsUnique'
  BY <1>2 DEF TableInv, CallsignsUnique
<1>4. BlocksInPool'
  BY <1>2 DEF TableInv, BlocksInPool, InPool, PoolEnd
<1> QED
  BY <1>1, <1>3, <1>4 DEF TableInv

\* Only one entry can be the existing one of a callsign.
LEMMA ExistingEntryIsOnly ==
  ASSUME TableInv, NEW c \in Callsigns, NEW i \in Slots, IsExistingEntry(c, i)
  PROVE  i \in Owned /\ \A j \in Slots : callsign[j] = c => j = i
BY CallsignAssumption DEF TableInv, CallsignsUnique, IsExistingEntry, Matching, Owned

\* Booking an entry again as it stands keeps the invariant: its block is one
\* that was in the pool already.
LEMMA ReuseKeepsInv ==
  ASSUME TableInv, NEW c \in Callsigns, NEW req \in ReqSizes, ReuseEntry(c, req)
  PROVE  TableInv'
<1>1. PICK i \in Slots :
        /\ IsExistingEntry(c, i)
        /\ status' = [status EXCEPT ![i] = 1]
        /\ answer' = Ack(c, i, IP_begin[i], IP_size[i])
        /\ UNCHANGED <<callsign, IP_begin, IP_size, pool>>
  BY DEF ReuseEntry
<1>2. i \in Owned
  BY <1>1, ExistingEntryIsOnly
<1>3. status' \in [Slots -> {0, 1}]
  BY <1>1 DEF TableInv, TypeOK
<1>4. answer' \in Answers
  BY <1>1 DEF TableInv, TypeOK, Answers, Ack
<1>5. Live' \subseteq Owned
  BY <1>1, <1>2 DEF TableInv, TypeOK, BlocksInPool, Live, Slots
<1> QED
  BY <1>1, <1>3, <1>4, <1>5, StatusStepKeepsInv

\* A resize, granted or refused, keeps the invariant: the new block comes from
\* the search, and the entry keeps its callsign.
LEMMA ResizeKeepsInv ==
  ASSUME TableInv, NEW c \in Callsigns, NEW req \in ReqSizes, ResizeEntry(c, req)
  PROVE  TableInv'
<1>1. PICK i \in Slots :
        /\ IsExistingEntry(c, i)
        /\ \/ /\ \E p \in Fitting(Live \ {i}, req) : Book(c, i, p, req)
              /\ UNCHANGED pool
           \/ /\ status' = [status EXCEPT ![i] = 0]
              /\ answer' = Nack(c, 2)
              /\ UNCHANGED <<callsign, IP_begin, IP_size, pool>>
  BY DEF ResizeEntry
<1>2. \A j \in Slots : callsign[j] = c => j = i
  BY <1>1, ExistingEntryIsOnly
<1>3. CASE \E p \in Fitting(Live \ {i}, req) : Book(c, i, p, req) /\ UNCHANGED pool
  <2>1. PICK p \in Fitting(Live \ {i}, req) : Book(c, i, p, req) /\ UNCHANGED pool
    BY <1>3
  <2>2. p \in Nat /\ pool.start <= p /\ p + req <= PoolEnd
    BY FittingInPool
  <2> QED
    BY <1>2, <2>1, <2>2, BookKeepsInv
<1>4. CASE /\ status' = [status EXCEPT ![i] = 0]
           /\ answer' = Nack(c, 2)
           /\ UNCHANGED <<callsign, IP_begin, IP_size, pool>>
  <2>1. status' \in [Slots -> {0, 1}]
    BY <1>4 DEF TableInv, TypeOK
  <2>2. answer' \in Answers
    BY <1>4 DEF Answers, Nack
  <2>3. Live' \subseteq Owned
    BY <1>4 DEF TableInv, TypeOK, BlocksInPool, Live, Slots
  <2> QED
    BY <1>4, <2>1, <2>2, <2>3, StatusStepKeepsInv
<1> QED
  BY <1>1, <1>3, <1>4

\* Taking over a free entry keeps the invariant: no other entry has the callsign.
LEMMA NewKeepsInv ==
  ASSUME TableInv, NEW c \in Callsigns, NEW req \in ReqSizes, NewEntry(c, req)
  PROVE  TableInv'
<1>1. \A j \in Slots : callsign[j] # c
  BY DEF NewEntry, Matching
<1>2. CASE \E i \in Slots, p \in Fitting(Live, req) :
             Book(c, i, p, req) /\ UNCHANGED pool
  <2>1. PICK i \in Slots, p \in Fitting(Live, req) :
          Book(c, i, p, req) /\ UNCHANGED pool
    BY <1>2
  <2>2. p \in Nat /\ pool.start <= p /\ p + req <= PoolEnd
    BY FittingInPool
  <2> QED
    BY <1>1, <2>1, <2>2, BookKeepsInv
<1>3. CASE /\ \E r \in {2, 3} : answer' = Nack(c, r)
           /\ UNCHANGED <<status, callsign, IP_begin, IP_size, pool>>
  <2>1. answer' \in Answers
    BY <1>3 DEF Answers, Nack
  <2>2. status' \in [Slots -> {0, 1}] /\ Live' \subseteq Owned
    BY <1>3 DEF TableInv, TypeOK, BlocksInPool, Live, Slots
  <2> QED
    BY <1>3, <2>1, <2>2, StatusStepKeepsInv
<1> QED
  BY <1>2, <1>3 DEF NewEntry

\* A disconnection only frees an entry.
LEMMA DisconnectKeepsInv ==
  ASSUME TableInv, NEW c \in Callsigns, disconnect_req_process(c)
  PROVE  TableInv'
<1>1. answer' \in Answers
  BY DEF disconnect_req_process, Answers, DisconnectAck
<1>2. status' \in [Slots -> {0, 1}] /\ Live' \subseteq Owned
  BY DEF disconnect_req_process, TableInv, TypeOK, BlocksInPool, Live, Slots
<1> QED
  BY <1>1, <1>2, StatusStepKeepsInv DEF disconnect_req_process

\* The sweep of the timeouts only frees entries.
LEMMA ExpireKeepsInv ==
  ASSUME TableInv, NEW expired \in SUBSET Live, free_expired(expired)
  PROVE  TableInv'
<1>1. answer' \in Answers
  BY DEF free_expired, Answers
<1>2. status' \in [Slots -> {0, 1}] /\ Live' \subseteq Owned
  BY DEF free_expired, TableInv, TypeOK, BlocksInPool, Live, Slots
<1> QED
  BY <1>1, <1>2, StatusStepKeepsInv DEF free_expired

\* An empty table satisfies the invariant whatever the pool.
LEMMA EmptyTableInv ==
  ASSUME status = Zeros, callsign = NoCallsigns, IP_begin = Zeros,
         IP_size = Zeros, answer = NoAnswer, pool \in Pools
  PROVE  TableInv
<1>1. TypeOK
  BY DEF TypeOK, Zeros, NoCallsigns, Answers
<1>2. Owned = {} /\ Live = {}
  BY DEF Owned, Live, Zeros, NoCallsigns
<1> QED
  BY <1>1, <1>2 DEF TableInv, CallsignsUnique, BlocksInPool

\* A reboot leaves an empty table.
LEMMA RebootKeepsInv ==
  ASSUME TableInv, master_reboot
  PROVE  TableInv'
<1>1. TypeOK'
  BY DEF master_reboot, TableInv, TypeOK, Zeros, NoCallsigns, Answers
<1>2. Owned' = {} /\ Live' = {}
  BY DEF master_reboot, Owned, Live, Zeros, NoCallsigns, Slots
<1> QED
  BY <1>1, <1>2 DEF TableInv, CallsignsUnique, BlocksInPool

\* Every step of the master keeps the invariant.
LEMMA TableStep == TableInv /\ [TableNext]_tableVars => TableInv'
<1> SUFFICES ASSUME TableInv, [TableNext]_tableVars
             PROVE  TableInv'
  OBVIOUS
<1>1. ASSUME NEW c \in Callsigns, NEW req \in ReqSizes, connect_req_process(c, req)
      PROVE  TableInv'
  BY <1>1, ReuseKeepsInv, ResizeKeepsInv, NewKeepsInv DEF connect_req_process
<1>2. ASSUME NEW c \in Callsigns, disconnect_req_process(c)
      PROVE  TableInv'
  BY <1>2, DisconnectKeepsInv
<1>3. ASSUME NEW expired \in SUBSET Live, free_expired(expired)
      PROVE  TableInv'
  BY <1>3, ExpireKeepsInv
<1>4. CASE answer_pushed
  BY <1>4, StatusStepKeepsInv
     DEF answer_pushed, TableInv, TypeOK, BlocksInPool, Answers, Live, Slots
<1>5. CASE master_reboot
  BY <1>5, RebootKeepsInv
<1>6. CASE UNCHANGED tableVars
  BY <1>6 DEF tableVars, TableInv, TypeOK, CallsignsUnique, BlocksInPool,
              Live, Owned, InPool, PoolEnd, Slots
<1> QED
  BY <1>1, <1>2, <1>3, <1>4, <1>5, <1>6 DEF TableNext

\* The inductive invariant of the master's table.
THEOREM TableInvariant == TableSpec => []TableInv
<1>1. TableInit => TableInv
  BY EmptyTableInv DEF TableInit
<1> QED
  BY <1>1, TableStep, PTL DEF TableSpec

\* The table keeps its types whatever is requested, times out or reboots.
THEOREM TableTypeOK == TableSpec => []TypeOK
<1>1. TableInv => TypeOK
  BY DEF TableInv
<1> QED
  BY <1>1, TableInvariant, PTL

\* No callsign ever holds two entries, so no client is given two client IDs.
THEOREM OneEntryPerCallsign == TableSpec => []CallsignsUnique
<1>1. TableInv => CallsignsUnique
  BY DEF TableInv
<1> QED
  BY <1>1, TableInvariant, PTL

\* Every block that is or can be booked again stays inside the pool.
THEOREM BlocksStayInPool == TableSpec => []BlocksInPool
<1>1. TableInv => BlocksInPool
  BY DEF TableInv
<1> QED
  BY <1>1, TableInvariant, PTL

-----------------------------------------------------------------------------
(***************************************************************************)
(* Fresh blocks.                                                           *)
(***************************************************************************)

\* If the booked blocks do not overlap, a block the search accepts overlaps
\* none of them: its begin is the pool's start or the end of a booked block, so
\* no booked block can reach over it from below.
LEMMA FittingIsFree ==
  ASSUME TableInv, BookedBlocksDisjoint, NEW req \in ReqSizes,
         NEW booked \in SUBSET Live, NEW p \in Fitting(booked, req),
         NEW j \in booked
  PROVE  p + req <= IP_begin[j] \/ IP_begin[j] + IP_size[j] <= p
<1>1. /\ pool.start \in Nat /\ PoolEnd \in Nat /\ req \in Nat
      /\ p \in Nat
  BY PoolAssumption, SizeAssumption, FittingInPool
     DEF TableInv, TypeOK, PoolEnd
<1>2. \A k \in booked : /\ k \in Slots
                        /\ IP_begin[k] \in Nat /\ IP_size[k] \in Nat
                        /\ IP_size[k] >= 1
                        /\ pool.start <= IP_begin[k]
                        /\ IP_begin[k] + IP_size[k] <= PoolEnd
  BY DEF TableInv, TypeOK, BlocksInPool, InPool, Live, Owned
<1>3. CASE p <= IP_begin[j]
  <2>1. IP_begin[j] < PoolEnd
    BY <1>1, <1>2
  <2>2. IP_begin[j] \in GapLimits(booked, p)
    BY <1>3, <2>1 DEF GapLimits
  <2>3. Minus(IP_begin[j], p) >= req
    BY <2>2 DEF Fitting, GapFits
  <2> QED
    BY <1>1, <1>2, <1>3, <2>3 DEF Minus
<1>4. CASE p > IP_begin[j]
  <2>1. PICK k \in booked : p = IP_begin[k] + IP_size[k]
    BY <1>1, <1>2, <1>4 DEF Fitting, Candidates
  <2>2. k = j \/ BlocksApart(k, j)
    BY DEF BookedBlocksDisjoint
  <2> QED
    BY <1>1, <1>2, <1>4, <2>1, <2>2 DEF BlocksApart
<1> QED
  BY <1>1, <1>2, <1>3, <1>4

\* A booking with a block the search found, among blocks that do not overlap,
\* leaves that block clear of every other booked one.
LEMMA BookFreshIsFree ==
  ASSUME TableInv, BookedBlocksDisjoint, NEW c \in Callsigns, NEW i \in Slots,
         NEW req \in ReqSizes, NEW booked \in SUBSET Live,
         Live \ {i} \subseteq booked, NEW p \in Fitting(booked, req),
         Book(c, i, p, req),
         NEW a \in Slots, NEW b \in Slots, a # b,
         FreshBlock(a), status'[a] # 0, status'[b] # 0
  PROVE  BlocksApart(a, b)'
<1>1. a = i
  BY DEF FreshBlock, Book, TableInv, TypeOK
<1>2. b \in booked
  BY <1>1 DEF Book, TableInv, TypeOK, Live
<1>3. p + req <= IP_begin[b] \/ IP_begin[b] + IP_size[b] <= p
  BY <1>2, FittingIsFree
<1>4. /\ IP_begin'[a] = p /\ IP_size'[a] = req
      /\ IP_begin'[b] = IP_begin[b] /\ IP_size'[b] = IP_size[b]
  BY <1>1 DEF Book, TableInv, TypeOK
<1> QED
  BY <1>3, <1>4 DEF BlocksApart

\* The same for every step: only bookings hand out blocks.
LEMMA FreshStep ==
  ASSUME TableInv, BookedBlocksDisjoint, TableNext,
         NEW a \in Slots, NEW b \in Slots, a # b,
         FreshBlock(a), status'[a] # 0, status'[b] # 0
  PROVE  BlocksApart(a, b)'
<1>1. ASSUME NEW c \in Callsigns, NEW req \in ReqSizes, ResizeEntry(c, req)
      PROVE  BlocksApart(a, b)'
  <2>1. PICK i \in Slots : \E p \in Fitting(Live \ {i}, req) : Book(c, i, p, req)
    BY <1>1 DEF ResizeEntry, FreshBlock
  <2>2. PICK p \in Fitting(Live \ {i}, req) : Book(c, i, p, req)
    BY <2>1
  <2> QED
    BY <2>2, BookFreshIsFree
<1>2. ASSUME NEW c \in Callsigns, NEW req \in ReqSizes, NewEntry(c, req)
      PROVE  BlocksApart(a, b)'
  <2>1. PICK i \in Slots, p \in Fitting(Live, req) : Book(c, i, p, req)
    BY <1>2 DEF NewEntry, FreshBlock
  <2> QED
    BY <2>1, BookFreshIsFree
<1>3. ASSUME NEW c \in Callsigns, NEW req \in ReqSizes, ReuseEntry(c, req)
      PROVE  FALSE
  BY <1>3 DEF ReuseEntry, FreshBlock
<1>4. ASSUME NEW c \in Callsigns, disconnect_req_process(c)
      PROVE  FALSE
  BY <1>4 DEF disconnect_req_process, FreshBlock
<1>5. ASSUME NEW expired \in SUBSET Live, free_expired(expired)
      PROVE  FALSE
  BY <1>5 DEF free_expired, FreshBlock
<1>6. CASE master_reboot
  BY <1>6 DEF master_reboot, Zeros
<1>7. CASE answer_pushed
  BY <1>7 DEF answer_pushed, FreshBlock
<1> QED
  BY <1>1, <1>2, <1>3, <1>4, <1>5, <1>6, <1>7 DEF TableNext, connect_req_process

\* A block handed out for the first time never overlaps a booked one, unless
\* booked blocks already overlapped: only ReuseEntry can create an overlap.
THEOREM FreshBlocksAreFree == TableSpec => FreshBlockIsFree
<1>1. TableInv /\ [TableNext]_tableVars =>
        [BookedBlocksDisjoint =>
           \A i, j \in Slots :
             FreshBlock(i) /\ status'[i] # 0 /\ status'[j] # 0 /\ i # j
               => BlocksApart(i, j)']_tableVars
  BY FreshStep
<1> QED
  BY <1>1, TableInvariant, PTL DEF TableSpec, FreshBlockIsFree

-----------------------------------------------------------------------------
(***************************************************************************)
(* Refusals.                                                               *)
(***************************************************************************)

\* A bounded, non-empty set of numbers has a greatest element.
LEMMA GreatestExists ==
  ASSUME NEW p \in Nat, NEW S \in SUBSET Nat, S # {}, \A n \in S : n <= p
  PROVE  \E m \in S : \A n \in S : n <= m
<1> DEFINE R == OpToRel(<, Nat)
           D == {d \in Nat : p - d \in S}
<1>1. IsWellFoundedOn(R, Nat)
  BY NatLessThanWellFounded
<1>2. \A m, n \in Nat : n < m => <<n, m>> \in R
  BY DEF R, OpToRel
<1> HIDE DEF R
<1>3. D \in SUBSET Nat /\ D # {}
  <2>1. PICK n \in S : n \in Nat
    OBVIOUS
  <2>2. p - n \in Nat /\ p - (p - n) = n
    BY <2>1
  <2> QED
    BY <2>2
<1>4. PICK d \in D : \A e \in D : <<e, d>> \notin R
  BY <1>1, <1>3, WFMin
<1>5. d \in Nat /\ p - d \in S
  OBVIOUS
<1>6. ASSUME NEW n \in S PROVE n <= p - d
  <2>1. n \in Nat /\ n <= p /\ p - n \in Nat /\ p - (p - n) = n
    OBVIOUS
  <2>2. p - n \in D
    BY <2>1
  <2>3. ~ (p - n < d)
    BY <1>2, <1>4, <1>5, <2>1, <2>2
  <2> QED
    BY <1>5, <2>1, <2>3
<1> QED
  BY <1>5, <1>6

\* A block of the pool that overlaps no booked one is not overlooked: the gap it
\* lies in begins at the last candidate before it, and has room.
LEMMA GapIsFound ==
  ASSUME TableInv, NEW req \in ReqSizes, NEW booked \in SUBSET Live,
         NEW p \in pool.start .. PoolEnd - req,
         \A j \in booked : Block(j) \cap (p .. p + req - 1) = {}
  PROVE  Fitting(booked, req) # {}
<1>1. /\ pool.start \in Nat /\ PoolEnd \in Nat /\ req \in Nat /\ req >= 1
      /\ p \in Nat /\ pool.start <= p /\ p + req <= PoolEnd
  BY PoolAssumption, SizeAssumption DEF TableInv, TypeOK, PoolEnd
<1>2. \A k \in booked : /\ IP_begin[k] \in Nat /\ IP_size[k] \in Nat
                        /\ IP_size[k] >= 1
  BY DEF TableInv, TypeOK, BlocksInPool, Live, Owned
<1>3. \A k \in booked : IP_begin[k] + IP_size[k] <= p \/ p + req <= IP_begin[k]
  <2> SUFFICES ASSUME NEW k \in booked, ~ (IP_begin[k] + IP_size[k] <= p),
                      ~ (p + req <= IP_begin[k])
               PROVE  FALSE
    OBVIOUS
  <2> DEFINE q == IF p <= IP_begin[k] THEN IP_begin[k] ELSE p
  <2>1. q \in Block(k) /\ q \in p .. p + req - 1
    BY <1>1, <1>2 DEF Block
  <2> QED
    BY <2>1
<1> DEFINE S == {c \in Candidates(booked) : c <= p}
<1>4. S \in SUBSET Nat /\ pool.start \in S
  BY <1>1, <1>2 DEF Candidates
<1>5. PICK q \in S : \A c \in S : c <= q
  BY <1>1, <1>4, GreatestExists
<1>6. q \in Candidates(booked) /\ q \in Nat /\ q <= p
  BY <1>4
<1>7. ASSUME NEW n \in GapLimits(booked, q) PROVE Minus(n, q) >= req
  <2>1. CASE n = PoolEnd
    BY <1>1, <1>6, <2>1 DEF Minus
  <2>2. ASSUME NEW j \in booked, n = IP_begin[j], q <= n PROVE Minus(n, q) >= req
    <3>1. n \in Nat /\ IP_size[j] \in Nat /\ IP_size[j] >= 1
      BY <1>2, <2>2
    <3>2. ~ (IP_begin[j] + IP_size[j] <= p)
      <4> SUFFICES ASSUME IP_begin[j] + IP_size[j] <= p PROVE FALSE
        OBVIOUS
      <4>1. IP_begin[j] + IP_size[j] \in S
        BY DEF Candidates
      <4>2. IP_begin[j] + IP_size[j] <= q
        BY <1>5, <4>1
      <4> QED
        BY <1>6, <2>2, <3>1, <4>2
    <3>3. p + req <= n
      BY <1>3, <2>2, <3>2
    <3> QED
      BY <1>1, <1>6, <3>1, <3>3 DEF Minus
  <2> QED
    BY <2>1, <2>2 DEF GapLimits
<1>8. q \in Fitting(booked, req)
  BY <1>6, <1>7 DEF Fitting, GapFits
<1> QED
  BY <1>8

\* What the answer to a request says of the table.
RefusalRight(req) ==
  \/ answer'.reason = 3 /\ Live = Slots
  \/ /\ answer'.reason = 2
     /\ \A p \in pool.start .. PoolEnd - req :
          \E j \in Live' : Block(j)' \cap (p .. p + req - 1) # {}

LEMMA RefusedStep ==
  ASSUME TableInv, NEW c \in Callsigns, NEW req \in ReqSizes,
         connect_req_process(c, req), answer'.type = "NACK"
  PROVE  RefusalRight(req)
<1>1. ASSUME NEW booked \in SUBSET Live, Fitting(booked, req) = {}, Live' = booked,
             answer' = Nack(c, 2), UNCHANGED <<IP_begin, IP_size, pool>>
      PROVE  RefusalRight(req)
  <2>1. ASSUME NEW p \in pool.start .. PoolEnd - req
        PROVE  \E j \in Live' : Block(j)' \cap (p .. p + req - 1) # {}
    <3>1. \E j \in booked : Block(j) \cap (p .. p + req - 1) # {}
      BY <1>1, GapIsFound
    <3>2. \A j : Block(j)' = Block(j)
      BY <1>1 DEF Block
    <3> QED
      BY <1>1, <3>1, <3>2
  <2>2. answer'.reason = 2
    BY <1>1 DEF Nack
  <2> QED
    BY <2>1, <2>2 DEF RefusalRight
<1>2. \A i, begin, size : answer' # Ack(c, i, begin, size)
  BY DEF Ack
<1>6. \A i, p : ~ Book(c, i, p, req)
  BY <1>2 DEF Book
<1>3. CASE ReuseEntry(c, req)
  BY <1>2, <1>3 DEF ReuseEntry
<1>4. CASE ResizeEntry(c, req)
  <2>1. PICK i \in Slots :
          /\ Fitting(Live \ {i}, req) = {}
          /\ status' = [status EXCEPT ![i] = 0] /\ answer' = Nack(c, 2)
          /\ UNCHANGED <<callsign, IP_begin, IP_size, pool>>
    BY <1>4, <1>6 DEF ResizeEntry
  <2>2. Live' = Live \ {i}
    BY <2>1 DEF TableInv, TypeOK, Live, Slots
  <2>3. Live \ {i} \in SUBSET Live
    OBVIOUS
  <2> QED
    BY <1>1, <2>1, <2>2, <2>3
<1>5. CASE NewEntry(c, req)
  <2>1. CASE /\ Fitting(Live, req) = {} /\ answer' = Nack(c, 2)
             /\ UNCHANGED <<status, callsign, IP_begin, IP_size, pool>>
    <3>1. Live' = Live /\ Live \in SUBSET Live
      BY <2>1 DEF Live, Slots
    <3> QED
      BY <1>1, <2>1, <3>1
  <2>2. CASE Live = Slots /\ answer' = Nack(c, 3)
    BY <2>2 DEF RefusalRight, Nack
  <2> QED
    BY <1>5, <1>6, <2>1, <2>2 DEF NewEntry
<1> QED
  BY <1>3, <1>4, <1>5 DEF connect_req_process

\* The master never refuses what it has: the search, which tries only the pool's
\* start and the ends of booked blocks, finds a gap whenever there is one, in any
\* pool and for any mix of sizes.
THEOREM RefusalsAreRight == TableSpec => RefusedOnlyWhenFull
<1>1. TableInv /\ [TableNext]_tableVars =>
        [\A c \in Callsigns, req \in ReqSizes :
           connect_req_process(c, req) /\ answer'.type = "NACK" =>
             \/ answer'.reason = 3 /\ Live = Slots
             \/ /\ answer'.reason = 2
                /\ \A p \in pool.start .. PoolEnd - req :
                     \E j \in Live' : Block(j)' \cap (p .. p + req - 1) # {}]_tableVars
  BY RefusedStep DEF RefusalRight
<1> QED
  BY <1>1, TableInvariant, PTL DEF TableSpec, RefusedOnlyWhenFull

-----------------------------------------------------------------------------
(***************************************************************************)
(* When every client asks for the same size s, entry i always holds the    *)
(* i-th block of s addresses of the pool, so that booking a freed entry    *)
(* again can never overlap: the first free entry and the first gap always  *)
(* correspond.                                                             *)
(***************************************************************************)
UniformInv(s) ==
  /\ \A i \in Owned : IP_size[i] = s /\ IP_begin[i] = pool.start + i * s
  /\ \A i \in Slots \ Owned : IP_size[i] = 0

\* Multiples of s are s apart.
LEMMA Multiples ==
  ASSUME NEW a \in Nat, NEW b \in Nat, NEW s \in Nat, a < b
  PROVE  a * s + s <= b * s
<1>1. PICK d \in Nat : b = a + 1 + d
  BY b - a - 1 \in Nat
<1>2. b * s = a * s + s + d * s
  BY <1>1
<1>3. d * s \in Nat /\ a * s \in Nat
  OBVIOUS
<1> QED
  BY <1>2, <1>3

\* The gap the search returns for the first free entry i is the i-th block.
LEMMA UniformPlace ==
  ASSUME NEW s \in Nat, ReqSizes = {s}, TableInv, UniformInv(s),
         NEW i \in Slots, IsFirstFree(i),
         NEW p, IsLookedForRange(Live, s, p)
  PROVE  p = pool.start + i * s
<1> DEFINE at(k) == pool.start + k * s
<1>1. /\ pool.start \in Nat /\ PoolEnd \in Nat /\ s >= 1 /\ s \in ReqSizes
      /\ PoolEnd < Word /\ Slots \subseteq Nat
      /\ \A k \in Nat : at(k) \in Nat /\ at(k + 1) = at(k) + s
  BY PoolAssumption, SizeAssumption, SlotsNat DEF TableInv, TypeOK, PoolEnd
<1>2. \A a, b \in Nat : a < b => at(a) + s <= at(b)
  BY <1>1, Multiples
<1>3. \A k \in Live : /\ k \in Slots /\ k \in Nat
                      /\ IP_begin[k] = at(k) /\ IP_size[k] = s
                      /\ at(k) + s <= PoolEnd
  BY <1>1 DEF TableInv, BlocksInPool, InPool, UniformInv, Live, Owned
<1>4. i \notin Live /\ \A k \in Nat : k < i => k \in Live
  <2>1. \A k \in Nat : k < i => k \in Slots
    BY TableAssumption DEF Slots
  <2> QED
    BY <2>1, <1>1 DEF IsFirstFree, Live
<1>5. p \in Fitting(Live, s)
  BY DEF IsLookedForRange
<1>6. p \in Nat /\ p + s <= PoolEnd
  BY <1>1, <1>5, FittingInPool
<1>7. PICK m \in Nat : p = at(m) /\ (m = 0 \/ m - 1 \in Live)
  <2>1. CASE p = pool.start
    BY <2>1, <1>1
  <2>2. CASE \E k \in Live : p = IP_begin[k] + IP_size[k]
    <3>1. PICK k \in Live : p = IP_begin[k] + IP_size[k]
      BY <2>2
    <3>2. p = at(k + 1) /\ k + 1 \in Nat /\ (k + 1) - 1 \in Live
      BY <3>1, <1>1, <1>3
    <3> QED
      BY <3>2
  <2> QED
    BY <1>5, <2>1, <2>2 DEF Fitting, Candidates
<1>8. ~(m < i)
  <2> SUFFICES ASSUME m < i PROVE FALSE
    OBVIOUS
  <2>1. m \in Live /\ IP_begin[m] = p /\ p < PoolEnd
    BY <1>1, <1>3, <1>4, <1>6, <1>7
  <2>2. IP_begin[m] \in GapLimits(Live, p)
    BY <2>1, <1>6 DEF GapLimits
  <2>3. Minus(p, p) >= s
    BY <1>5, <2>1, <2>2 DEF Fitting, GapFits
  <2> QED
    BY <2>3, <1>1, <1>6 DEF Minus
<1>9. ~(m > i)
  <2> SUFFICES ASSUME m > i PROVE FALSE
    OBVIOUS
  <2>0. i \in Nat
    BY <1>1
  <2>1. at(i) \in Candidates(Live)
    <3>1. CASE i = 0
      BY <3>1, <1>1 DEF Candidates
    <3>2. CASE i > 0
      <4>1. i - 1 \in Live /\ i - 1 \in Nat
        BY <3>2, <1>4, <2>0
      <4>2. IP_begin[i - 1] + IP_size[i - 1] = at((i - 1) + 1)
        BY <4>1, <1>1, <1>3
      <4> QED
        BY <4>1, <4>2, <2>0 DEF Candidates
    <3> QED
      BY <2>0, <3>1, <3>2
  <2>2. at(i) + s <= p
    BY <1>2, <1>7, <2>0
  <2>3. GapFits(Live, at(i), s)
    <3> SUFFICES ASSUME NEW n \in GapLimits(Live, at(i))
                 PROVE  Minus(n, at(i)) >= s
      BY DEF GapFits
    <3>1. CASE n = PoolEnd
      BY <3>1, <2>0, <2>2, <1>1, <1>6 DEF Minus
    <3>2. CASE \E j \in Live : n = IP_begin[j] /\ at(i) <= n
      <4>1. PICK j \in Live : n = IP_begin[j] /\ at(i) <= n
        BY <3>2
      <4>2. n = at(j) /\ j \in Nat /\ j # i
        BY <4>1, <1>3, <1>4
      <4>3. ~(j < i)
        BY <4>1, <4>2, <1>1, <1>2, <2>0
      <4>4. at(i) + s <= n
        BY <4>2, <4>3, <1>2, <2>0
      <4> QED
        BY <4>2, <4>4, <1>1, <2>0 DEF Minus
    <3> QED
      BY <3>1, <3>2 DEF GapLimits
  <2>4. p <= at(i)
    BY <2>1, <2>3 DEF IsLookedForRange, Fitting
  <2> QED
    BY <2>0, <2>2, <2>4, <1>1, <1>6
<1> QED
  BY <1>1, <1>7, <1>8, <1>9

\* Every step keeps entry i at the i-th block when all ask for the size s.
LEMMA UniformStep ==
  ASSUME NEW s \in Nat, ReqSizes = {s}, TableInv, UniformInv(s), TableNext
  PROVE  UniformInv(s)'
<1>1. ASSUME NEW c \in Callsigns, ReuseEntry(c, s) PROVE UniformInv(s)'
  BY <1>1 DEF ReuseEntry, UniformInv, Owned, Slots
<1>2. ASSUME NEW c \in Callsigns, ResizeEntry(c, s) PROVE FALSE
  <2>1. PICK i \in Slots : IsExistingEntry(c, i) /\ IP_size[i] # s
    BY <1>2 DEF ResizeEntry
  <2>2. i \in Owned
    BY <2>1, ExistingEntryIsOnly
  <2> QED
    BY <2>1, <2>2 DEF UniformInv
<1>3. ASSUME NEW c \in Callsigns, NewEntry(c, s) PROVE UniformInv(s)'
  <2>1. CASE \E i \in Slots, p \in Fitting(Live, s) :
               /\ IsFirstFree(i) /\ IsLookedForRange(Live, s, p)
               /\ Book(c, i, p, s) /\ UNCHANGED pool
    <3>1. PICK i \in Slots, p \in Fitting(Live, s) :
            /\ IsFirstFree(i) /\ IsLookedForRange(Live, s, p)
            /\ Book(c, i, p, s) /\ UNCHANGED pool
      BY <2>1
    <3>2. p = pool.start + i * s
      BY <3>1, UniformPlace
    <3>3. c # NoCallsign
      BY CallsignAssumption
    <3> QED
      BY <3>1, <3>2, <3>3
         DEF TableInv, TypeOK, UniformInv, Book, Owned, Slots
  <2>2. CASE UNCHANGED <<callsign, IP_begin, IP_size, pool>>
    BY <2>2 DEF UniformInv, Owned, Slots
  <2> QED
    BY <1>3, <2>1, <2>2 DEF NewEntry
<1>4. ASSUME NEW c \in Callsigns, disconnect_req_process(c)
      PROVE  UniformInv(s)'
  BY <1>4 DEF disconnect_req_process, UniformInv, Owned, Slots
<1>5. ASSUME NEW expired \in SUBSET Live, free_expired(expired)
      PROVE  UniformInv(s)'
  BY <1>5 DEF free_expired, UniformInv, Owned, Slots
<1>6. CASE master_reboot
  BY <1>6 DEF master_reboot, UniformInv, Owned, Slots, NoCallsigns, Zeros
<1>7. CASE answer_pushed
  BY <1>7 DEF answer_pushed, UniformInv, Owned, Slots
<1> QED
  BY <1>1, <1>2, <1>3, <1>4, <1>5, <1>6, <1>7 DEF TableNext, connect_req_process

\* With one size, entry i holds the i-th block at all times.
LEMMA UniformInvariant ==
  ASSUME NEW s \in Nat, ReqSizes = {s}
  PROVE  TableSpec => [](TableInv /\ UniformInv(s))
<1>1. TableInit => TableInv /\ UniformInv(s)
  BY EmptyTableInv
     DEF TableInit, UniformInv, Owned, Slots, NoCallsigns, Zeros
<1>2. TableInv /\ UniformInv(s) /\ [TableNext]_tableVars
        => TableInv' /\ UniformInv(s)'
  <2>1. CASE UNCHANGED tableVars
    BY <2>1, TableStep DEF tableVars, UniformInv, Owned, Slots
  <2> QED
    BY <2>1, TableStep, UniformStep
<1> QED
  BY <1>1, <1>2, PTL DEF TableSpec

\* Blocks of one size at different multiples do not overlap.
LEMMA UniformBlocksApart ==
  ASSUME NEW s \in Nat, ReqSizes = {s}, TableInv, UniformInv(s),
         NEW i \in Owned, NEW j \in Owned, i # j
  PROVE  BlocksApart(i, j)
<1>1. /\ i \in Nat /\ j \in Nat /\ pool.start \in Nat
      /\ i * s \in Nat /\ j * s \in Nat
  BY SlotsNat, PoolAssumption DEF Owned, TableInv, TypeOK
<1>2. i * s + s <= j * s \/ j * s + s <= i * s
  BY <1>1, Multiples
<1>3. /\ IP_begin[i] = pool.start + i * s /\ IP_size[i] = s
      /\ IP_begin[j] = pool.start + j * s /\ IP_size[j] = s
  BY DEF UniformInv
<1> QED
  BY <1>1, <1>2, <1>3 DEF BlocksApart

\* When all clients ask for blocks of one size, no address is ever booked
\* twice, through any sequence of requests, timeouts, returns and reboots.
THEOREM UniformSizesNeverOverlap ==
  ASSUME NEW s \in Nat, ReqSizes = {s}
  PROVE  TableSpec => []BookedBlocksDisjoint
<1>1. TableInv /\ UniformInv(s) => BookedBlocksDisjoint
  BY UniformBlocksApart DEF BookedBlocksDisjoint, TableInv, BlocksInPool
<1> QED
  BY <1>1, UniformInvariant, PTL

\* When all clients ask for blocks of one size, every address of a booked
\* block is routed to the entry that booked it, although the routing looks at
\* freed entries too.
THEOREM UniformSizesRouteToBooker ==
  ASSUME NEW s \in Nat, ReqSizes = {s}
  PROVE  TableSpec => []RoutedToBooker
<1>1. TableInv /\ UniformInv(s) => RoutedToBooker
  <2> SUFFICES ASSUME TableInv, UniformInv(s),
                      NEW i \in Live, NEW ip \in Block(i)
               PROVE  RoutesTo(ip, i)
    BY DEF RoutedToBooker
  <2>1. i \in Owned /\ i \in Slots
    BY DEF TableInv, BlocksInPool, Live
  <2>2. \A k \in Slots : IP_begin[k] \in Nat /\ IP_size[k] \in Nat
    BY DEF TableInv, TypeOK
  <2>3. ip \in Int /\ IP_begin[i] <= ip /\ ip < IP_begin[i] + IP_size[i]
    BY <2>1, <2>2 DEF Block
  <2>4. ASSUME NEW j \in Holders(ip) PROVE j = i
    <3>1. j \in Slots /\ IP_begin[j] <= ip /\ ip < IP_begin[j] + IP_size[j]
      BY DEF Holders
    <3>2. j \in Owned
      BY <3>1, <2>2, <2>3 DEF UniformInv
    <3>3. j = i \/ BlocksApart(i, j)
      BY <2>1, <3>2, UniformBlocksApart
    <3> QED
      BY <2>1, <2>2, <2>3, <3>1, <3>3 DEF BlocksApart
  <2>5. i \in Holders(ip) /\ i \in Nat
    BY <2>1, <2>3, SlotsNat DEF Holders
  <2> QED
    BY <2>4, <2>5 DEF RoutesTo
<1> QED
  BY <1>1, UniformInvariant, PTL

=============================================================================
