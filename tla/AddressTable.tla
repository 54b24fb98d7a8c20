---------------------------- MODULE AddressTable ----------------------------
(***************************************************************************)
(* The client address table of an NPR-70 TDMA master                       *)
(* (source/signaling.cpp, table declared in source/global_variables.h).    *)
(*                                                                         *)
(* One entry per radio client ID.  A connection request books an entry and *)
(* a block of IP addresses of the master's pool for a callsign; a timeout  *)
(* or a disconnection frees the entry but keeps its callsign and block, so *)
(* that a client that comes back finds them again.                         *)
(*                                                                         *)
(* This module is the master alone: requests come from an environment that *)
(* may send anything at any time.  Registration.tla adds the clients, the  *)
(* radio link and the timers.                                              *)
(***************************************************************************)
EXTENDS Integers, FiniteSets

CONSTANTS
  Callsigns,              \* callsigns of the client modems
  NoCallsign,             \* the empty callsign of an entry never used
  radio_addr_table_size,  \* number of entries, 7 in the firmware
  ReqSizes,               \* block sizes the clients ask for
  Pools,                  \* address pools the operator configures
  Word                    \* 2^32: IP arithmetic is unsigned modulo Word

ASSUME CallsignAssumption == NoCallsign \notin Callsigns
ASSUME TableAssumption == radio_addr_table_size \in Nat \ {0}
ASSUME SizeAssumption == ReqSizes \subseteq Nat \ {0}
ASSUME WordAssumption == Word \in Nat
ASSUME PoolAssumption ==
  /\ Pools \subseteq [start : Nat, size : Nat \ {0}]
  /\ \A p \in Pools : p.start + p.size < Word

VARIABLES
  status,    \* CONF_radio_addr_table_status: 0 free, 1 booked
  callsign,  \* CONF_radio_addr_table_callsign
  IP_begin,  \* CONF_radio_addr_table_IP_begin
  IP_size,   \* CONF_radio_addr_table_IP_size
  pool,      \* CONF_radio_IP_start and CONF_radio_IP_size
  answer     \* the answer the master composed in this step, if any

tableVars == <<status, callsign, IP_begin, IP_size, pool, answer>>

Slots == 0 .. radio_addr_table_size - 1
PoolEnd == pool.start + pool.size
Live == {i \in Slots : status[i] # 0}

NoAnswer == [type |-> "none"]
Ack(c, i, begin, size) ==
  [type |-> "ACK", to |-> c, id |-> i, begin |-> begin, size |-> size]
Nack(c, reason) == [type |-> "NACK", to |-> c, reason |-> reason]
DisconnectAck(c) == [type |-> "DISC_ACK", to |-> c]

Answers ==
  {NoAnswer}
    \cup [type : {"ACK"}, to : Callsigns, id : Slots, begin : Nat, size : Nat]
    \cup [type : {"NACK"}, to : Callsigns, reason : {2, 3}]
    \cup [type : {"DISC_ACK"}, to : Callsigns]

-----------------------------------------------------------------------------
(***************************************************************************)
(* signaling_lookfor_IP_range: first fit.                                  *)
(***************************************************************************)

\* Unsigned subtraction of two addresses.
Minus(a, b) == IF a >= b THEN a - b ELSE a - b + Word

\* The addresses the code compares to find the end of the gap that begins at
\* pos: the pool's end and the booked blocks that begin between pos and it.
GapLimits(booked, pos) ==
  {PoolEnd} \cup
  {n \in {IP_begin[j] : j \in booked} : pos <= n /\ n < PoolEnd}

\* The smallest limit leaves room for req addresses.
\* Mutant: the gap is taken to hold one address more than it does.
Mut_GapFits(booked, pos, req) ==
  \A n \in GapLimits(booked, pos) : Minus(n, pos) >= req - 1
\* Mutant: only the pool's end limits a gap.
Mut_GapFitsPool(booked, pos, req) == Minus(PoolEnd, pos) >= req
GapFits(booked, pos, req) ==
  \A n \in GapLimits(booked, pos) : Minus(n, pos) >= req

\* A gap begins at the pool's start or where a booked block ends.
\* Mutant: the gap in front of the first block is not looked at.
Mut_Candidates(booked) ==
  IF booked = {} THEN {pool.start} ELSE {IP_begin[i] + IP_size[i] : i \in booked}
Candidates(booked) ==
  {pool.start} \cup {IP_begin[i] + IP_size[i] : i \in booked}

Fitting(booked, req) == {p \in Candidates(booked) : GapFits(booked, p, req)}

\* p is what signaling_lookfor_IP_range returns; it returns 0xFFFFFFFF when
\* Fitting is empty.
IsLookedForRange(booked, req, p) ==
  /\ p \in Fitting(booked, req)
  /\ \A q \in Fitting(booked, req) : p <= q

-----------------------------------------------------------------------------
(***************************************************************************)
(* signaling_connect_req_process, its three cases.                         *)
(***************************************************************************)

\* The entries that have a callsign, booked or not.
\* Mutant: only booked entries are searched.
Mut_Matching(c) == {i \in Live : callsign[i] = c}
Matching(c) == {i \in Slots : callsign[i] = c}

\* The search for a callsign keeps the last entry that matches.
IsExistingEntry(c, i) == i \in Matching(c) /\ \A j \in Matching(c) : j <= i

\* The search for an empty entry runs downwards and keeps the last one found.
IsFirstFree(i) == status[i] = 0 /\ \A j \in Slots : status[j] = 0 => i <= j

\* Mutant: an entry counts its bookings.
Mut_Book(c, i, begin, size) ==
  /\ status' = [status EXCEPT ![i] = @ + 1]
  /\ callsign' = [callsign EXCEPT ![i] = c]
  /\ IP_begin' = [IP_begin EXCEPT ![i] = begin]
  /\ IP_size' = [IP_size EXCEPT ![i] = size]
  /\ answer' = Ack(c, i, begin, size)
Book(c, i, begin, size) ==
  /\ status' = [status EXCEPT ![i] = 1]
  /\ callsign' = [callsign EXCEPT ![i] = c]
  /\ IP_begin' = [IP_begin EXCEPT ![i] = begin]
  /\ IP_size' = [IP_size EXCEPT ![i] = size]
  /\ answer' = Ack(c, i, begin, size)

\* 2.1: the entry matches callsign and size: it is booked again as it stands.
ReuseEntry(c, req) ==
  \E i \in Slots :
    /\ IsExistingEntry(c, i)
    /\ IP_size[i] = req
    /\ status' = [status EXCEPT ![i] = 1]
    /\ answer' = Ack(c, i, IP_begin[i], IP_size[i])
    /\ UNCHANGED <<callsign, IP_begin, IP_size, pool>>

\* 2.2: the client asks for another size: its entry is freed, then booked
\* again with a new block if there is one.
ResizeEntry(c, req) ==
  \E i \in Slots :
    LET others == Live \ {i} IN
    /\ IsExistingEntry(c, i)
    /\ IP_size[i] # req
    /\ \/ /\ \E p \in Fitting(others, req) :
               IsLookedForRange(others, req, p) /\ Book(c, i, p, req)
          /\ UNCHANGED pool
       \/ /\ Fitting(others, req) = {}
          /\ status' = [status EXCEPT ![i] = 0]
          /\ answer' = Nack(c, 2)
          /\ UNCHANGED <<callsign, IP_begin, IP_size, pool>>

\* 2.3: no entry has the callsign: the first free entry is taken over.
NewEntry(c, req) ==
  /\ Matching(c) = {}
  /\ \/ /\ \E i \in Slots, p \in Fitting(Live, req) :
             /\ IsFirstFree(i)
             /\ IsLookedForRange(Live, req, p)
             /\ Book(c, i, p, req)
        /\ UNCHANGED pool
     \/ /\ Live # Slots
        /\ Fitting(Live, req) = {}
        /\ answer' = Nack(c, 2)
        /\ UNCHANGED <<status, callsign, IP_begin, IP_size, pool>>
     \/ /\ Live = Slots
        /\ answer' = Nack(c, 3)
        /\ UNCHANGED <<status, callsign, IP_begin, IP_size, pool>>

connect_req_process(c, req) ==
  ReuseEntry(c, req) \/ ResizeEntry(c, req) \/ NewEntry(c, req)

-----------------------------------------------------------------------------
\* signaling_disconnect_req_process: the last entry with the callsign is
\* freed; the acknowledgement is sent whether there was one or not.
disconnect_req_process(c) ==
  /\ \/ \E i \in Slots : /\ IsExistingEntry(c, i)
                         /\ status' = [status EXCEPT ![i] = 0]
     \/ /\ Matching(c) = {}
        /\ UNCHANGED status
  /\ answer' = DisconnectAck(c)
  /\ UNCHANGED <<callsign, IP_begin, IP_size, pool>>

\* The master's half of signaling_periodic_call frees the booked entries that
\* were not heard for connexion_timeout periods; here, any set of entries.
free_expired(expired) ==
  /\ status' = [i \in Slots |-> IF i \in expired THEN 0 ELSE status[i]]
  /\ answer' = NoAnswer
  /\ UNCHANGED <<callsign, IP_begin, IP_size, pool>>

\* signaling_frame_push hands the answer to the transmit FIFO.
answer_pushed ==
  /\ answer' = NoAnswer
  /\ UNCHANGED <<status, callsign, IP_begin, IP_size, pool>>

\* The table is in RAM and init1 clears it.
NoCallsigns == [i \in Slots |-> NoCallsign]
Zeros == [i \in Slots |-> 0]

TableInit ==
  /\ status = Zeros
  /\ callsign = NoCallsigns
  /\ IP_begin = Zeros
  /\ IP_size = Zeros
  /\ pool \in Pools
  /\ answer = NoAnswer

\* A reboot of the master; the pool is read back from flash.
master_reboot ==
  /\ status' = Zeros
  /\ callsign' = NoCallsigns
  /\ IP_begin' = Zeros
  /\ IP_size' = Zeros
  /\ answer' = NoAnswer
  /\ UNCHANGED pool

TableNext ==
  \/ \E c \in Callsigns, req \in ReqSizes : connect_req_process(c, req)
  \/ \E c \in Callsigns : disconnect_req_process(c)
  \/ \E expired \in SUBSET Live : free_expired(expired)
  \/ answer_pushed
  \/ master_reboot

TableSpec == TableInit /\ [][TableNext]_tableVars

-----------------------------------------------------------------------------
\* lookfor_client_ID_from_IP (source/Eth_IPv4.cpp): the last entry whose block
\* holds the address; 250 when there is none.
NoClientID == 250
Holders(ip) ==
  {i \in Slots : IP_begin[i] <= ip /\ ip < IP_begin[i] + IP_size[i]}
RoutesTo(ip, i) == i \in Holders(ip) /\ \A j \in Holders(ip) : j <= i

-----------------------------------------------------------------------------
Block(i) == IP_begin[i] .. IP_begin[i] + IP_size[i] - 1
BlocksApart(i, j) ==
  \/ IP_begin[i] + IP_size[i] <= IP_begin[j]
  \/ IP_begin[j] + IP_size[j] <= IP_begin[i]
InPool(i) == pool.start <= IP_begin[i] /\ IP_begin[i] + IP_size[i] <= PoolEnd
Owned == {i \in Slots : callsign[i] # NoCallsign}

\* Every field of an entry has its type, and the answer is one the signaling
\* frames can carry.
TypeOK ==
  /\ status \in [Slots -> {0, 1}]
  /\ callsign \in [Slots -> Callsigns \cup {NoCallsign}]
  /\ IP_begin \in [Slots -> Nat]
  /\ IP_size \in [Slots -> Nat]
  /\ pool \in Pools
  /\ answer \in Answers

\* A callsign has at most one entry, booked or freed: a client that comes
\* back, resizes, times out and comes back again never holds two client IDs.
CallsignsUnique ==
  \A i, j \in Owned : callsign[i] = callsign[j] => i = j

\* Every block that may be booked again lies in the pool: whatever gap the
\* search picked, and whatever happened to the table since, an entry with an
\* owner never names an address outside the range the master was given.
BlocksInPool ==
  /\ Live \subseteq Owned
  /\ \A i \in Owned : IP_size[i] >= 1 /\ InPool(i)

\* No two booked entries share an address.
BookedBlocksDisjoint == \A i, j \in Live : i # j => BlocksApart(i, j)

\* A block handed out for the first time overlaps no booked block, provided the
\* booked blocks did not overlap each other before the step: the first-fit
\* search, which compares only begins with ends, never lands inside a block.
FreshBlock(i) == <<callsign'[i], IP_size'[i]>> # <<callsign[i], IP_size[i]>>
FreshBlockIsFree ==
  [][BookedBlocksDisjoint =>
       \A i, j \in Slots :
         FreshBlock(i) /\ status'[i] # 0 /\ status'[j] # 0 /\ i # j
           => BlocksApart(i, j)']_tableVars

\* A client is refused only when the master really has nothing for it: with
\* reason 3 when every entry is booked, with reason 2 when each block of that
\* size in the pool overlaps one that stays booked.  The search tries only the
\* pool's start and the ends of booked blocks: this says that is enough.
RefusedOnlyWhenFull ==
  [][\A c \in Callsigns, req \in ReqSizes :
       connect_req_process(c, req) /\ answer'.type = "NACK" =>
         \/ answer'.reason = 3 /\ Live = Slots
         \/ /\ answer'.reason = 2
            /\ \A p \in pool.start .. PoolEnd - req :
                 \E j \in Live' : Block(j)' \cap (p .. p + req - 1) # {}]_tableVars

\* A packet for an address of a booked block is sent to the entry that booked
\* it: freed entries, which keep their blocks, never capture it.
RoutedToBooker ==
  \A i \in Live : \A ip \in Block(i) : RoutesTo(ip, i)

=============================================================================
