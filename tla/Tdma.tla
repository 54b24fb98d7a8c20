-------------------------------- MODULE Tdma --------------------------------
(***************************************************************************)
(* The time slots of a cell (source/TDMA.cpp).  Once per TDMA frame the     *)
(* master computes who transmits when and broadcasts it as the first radio  *)
(* frame of its burst, together with the frame's number and the mark (the   *)
(* "top") from which clients count time.  Clients that transmit are "fast"  *)
(* and share 15 slots with the master; the others are "slow" and take turns *)
(* in two further slots, one frame in four each.                            *)
(*                                                                          *)
(* Times are microseconds from the top, on arrival at the master: the       *)
(* timing advance that compensates a client's distance is left out.         *)
(***************************************************************************)
EXTENDS Integers, FiniteSets, FiniteSetsExt

CONSTANTS Ids,           \* client IDs, at most 0..6 (radio_addr_table_size)
          Clients,       \* modems that are not the master
          SlotCount,     \* slots shared by master and fast clients: 15
          FrameNumbers,  \* frame numbers run modulo this: 32
          Multiframe,    \* slow clients transmit one frame in this many: 4
          UsageMemory,   \* allocations a client stays fast without need: 32
          MaxNeed,       \* largest queue size reported: 30
          Reported,      \* queue sizes clients report
          Downlink,      \* queue sizes of the master
          FrameDuration, SlotDuration, ReducedSlot, SlotMargin, TRMargin, TAMargin

ASSUME TdmaAssumption ==
  /\ Ids \subseteq 0..6 /\ IsFiniteSet(Clients)
  /\ SlotCount \in Nat /\ SlotCount > Cardinality(Ids)
  /\ FrameNumbers \in Nat \ {0} /\ Multiframe \in Nat \ {0}
  /\ FrameNumbers % Multiframe = 0
  /\ \A i \in Ids : i >= 4 => i % Multiframe # Multiframe - 1  \* left to discovery
  /\ \A i, j \in Ids :                  \* who shares a slot has a turn of its own
       (i < 4 <=> j < 4) /\ i % Multiframe = j % Multiframe => i = j
  /\ UsageMemory \in Nat \ {0} /\ MaxNeed \in Nat
  /\ Reported \subseteq 0..MaxNeed /\ Downlink \subseteq Nat
  /\ {FrameDuration, SlotDuration, ReducedSlot, SlotMargin, TRMargin, TAMargin}
       \subseteq Nat

\* What the timing tables of all modulations have in common: the margin
\* outlasts the rounding of offsets, and a frame holds its slots.
ASSUME TimingAssumption ==
  /\ SlotMargin >= 10
  /\ ReducedSlot + TRMargin + TAMargin + (SlotCount + 2) * (SlotDuration + SlotMargin)
       <= FrameDuration

VARIABLES
  booked,        \* CONF_radio_addr_table_status
  uplink_st,     \* TDMA_table_uplink_st: frames waiting, as last reported
  uplink_usage,  \* TDMA_table_uplink_usage: allocations left before slow
  is_fast,       \* TDMA_table_is_fast
  up2date,       \* TDMA_table_up2date: reported since the last allocation
  frame_nb,      \* TDMA_frame_nb at the master
  air,           \* the allocation broadcast in the current frame
  id,            \* my_radio_client_ID of each modem
  alloc,         \* offset_time_TX_slave, time_max_TX_burst, my_multiframe_*
  alloc_age,     \* slave_alloc_RX_age: bursts since alloc was received
  client_nb,     \* TDMA_frame_nb at each client
  top,           \* what became of the current frame's top at each client
  top_age,       \* frames since each client's last top, up to 2
  bursts,        \* bursts scheduled in the current frame
  superseded     \* history: fast bursts since alloc was replaced by the master

masterVars == <<booked, uplink_st, uplink_usage, is_fast, up2date, frame_nb, air>>
clientVars == <<id, alloc, alloc_age, client_nb, top, top_age, bursts, superseded>>
vars == <<masterVars, clientVars>>

Discovery == 126         \* 0x7E, the ID of a client without an ID

-----------------------------------------------------------------------------
(* The allocation.  It works on a record of what has been granted so far    *)
(* and what is still needed.                                                *)

GrantMaster(a) ==
  [a EXCEPT !.master = @ + 1, !.total = @ + 1,
            !.masterNeed = IF @ > 0 THEN @ - 1 ELSE 0]

GrantClient(a, i) ==
  [a EXCEPT !.slots[i] = @ + 1, !.total = @ + 1,
            !.need[i] = IF @ > 0 THEN @ - 1 ELSE 0]

\* Grants a slot to each client of S, or to each that needs one, in the order of
\* their IDs, as long as fewer than max are granted.
InTurn(max, needed, S, a) ==
  LET upTo[i \in 0..7] ==
        IF i = 0 THEN a
        ELSE LET b == upTo[i - 1] IN
             IF i - 1 \in S /\ b.total < max /\ (needed => b.need[i - 1] > 0)
             THEN GrantClient(b, i - 1) ELSE b
  IN upTo[7]

\* One slot for the master and for each fast client; there are fewer clients
\* than slots.
FirstSlots(fast, downlink, needs) ==
  InTurn(SlotCount, FALSE, fast,
         GrantMaster([master |-> 0, slots |-> [i \in Ids |-> 0], total |-> 0,
                      masterNeed |-> downlink, need |-> needs]))

\* One round of the first pass: who needs a slot gets one, the master two if
\* several clients are fast.
MasterIfNeeded(a) ==
  IF a.masterNeed > 0 /\ a.total < SlotCount THEN GrantMaster(a) ELSE a

NeedRound(fast, a) ==
  IF a.total < SlotCount
  THEN InTurn(SlotCount, TRUE, fast,
              IF Cardinality(fast) > 1 THEN MasterIfNeeded(MasterIfNeeded(a))
                                       ELSE MasterIfNeeded(a))
  ELSE a

\* Mutant: clients are granted their slots in a round that is full already.
Mut_SpareRound(fast, a) ==
  IF a.total < SlotCount THEN InTurn(2 * SlotCount, FALSE, fast, GrantMaster(a)) ELSE a

\* One round of the second pass: what is left goes round, needed or not.
SpareRound(fast, a) ==
  IF a.total < SlotCount
  THEN InTurn(SlotCount, FALSE, fast, GrantMaster(a))
  ELSE a

\* Mutant: slots that nobody needs are left unused.
Mut_Allocation(fast, downlink, needs) ==
  LET pass1[n \in 0..SlotCount] ==
        IF n = 0 THEN FirstSlots(fast, downlink, needs) ELSE NeedRound(fast, pass1[n - 1])
  IN pass1[SlotCount]

\* A round that grants nothing changes nothing, so SlotCount rounds of each
\* pass do what the loops do until they stop.
Allocation(fast, downlink, needs) ==
  LET pass1[n \in 0..SlotCount] ==
        IF n = 0 THEN FirstSlots(fast, downlink, needs) ELSE NeedRound(fast, pass1[n - 1])
      pass2[n \in 0..SlotCount] ==
        IF n = 0 THEN pass1[SlotCount] ELSE SpareRound(fast, pass2[n - 1])
  IN pass2[SlotCount]

-----------------------------------------------------------------------------
(* The timings built from an allocation.                                    *)

Span(n) == n * (SlotDuration + SlotMargin)

MasterBurst(n) ==
  ReducedSlot + SlotMargin + n * SlotDuration + (n - 1) * SlotMargin

FirstOffset(n) == MasterBurst(n) + SlotMargin + TRMargin + TAMargin

SlotsBefore(a, i) == MapThenSumSet(LAMBDA j : a.slots[j], {j \in a.fast : j < i})

MultiframeOffset(a) ==
  FirstOffset(a.master) + Span(MapThenSumSet(LAMBDA j : a.slots[j], a.fast))

\* Offsets are sent in units of ten microseconds.
Rounded(t) == 10 * (t \div 10)

\* Mutant: both groups of slow clients share one slot.
Mut_LastOffset(a) == MultiframeOffset(a)

LastOffset(a) == MultiframeOffset(a) + Span(1)

\* The line for client ID i in allocation a, as a client uses it.
Line(a, i) ==
  IF i = Discovery
  THEN [id |-> i, offset |-> Rounded(LastOffset(a)), slots |-> 1,
        residue |-> Multiframe - 1, slow |-> TRUE]
  ELSE IF i \in a.fast
  THEN [id |-> i, offset |-> Rounded(FirstOffset(a.master) + Span(SlotsBefore(a, i))),
        slots |-> a.slots[i], residue |-> 0, slow |-> FALSE]
  ELSE [id |-> i,
        offset |-> Rounded(IF i < 4 THEN MultiframeOffset(a) ELSE LastOffset(a)),
        slots |-> 1, residue |-> i % Multiframe, slow |-> TRUE]

BurstEnd(l) == l.offset + l.slots * SlotDuration + (l.slots - 1) * SlotMargin

-----------------------------------------------------------------------------
(* The master.                                                              *)

\* TDMA_master_allocation_slow, once every four frames: who has not used its
\* slots becomes slow, and entries that are free are reset.
SlowPass(usage, fast) ==
  [usage |-> [i \in Ids |-> IF booked[i] THEN usage[i] ELSE UsageMemory],
   fast  |-> [i \in Ids |-> IF booked[i] THEN fast[i] /\ usage[i] > 0 ELSE TRUE]]

\* TDMA_master_allocation, and the burst that broadcasts it: the frame before
\* is over for every client.
MasterFrame(downlink) ==
  LET slow   == frame_nb % Multiframe = 0
      used   == [i \in Ids |-> booked[i] /\ uplink_usage[i] > 0]
      usage  == [i \in Ids |-> IF used[i] THEN uplink_usage[i] - 1
                                          ELSE uplink_usage[i]]
      fast   == [i \in Ids |-> is_fast[i] \/ used[i]]
      pass   == IF slow THEN SlowPass(usage, fast)
                ELSE [usage |-> usage, fast |-> fast]
      st     == [i \in Ids |-> IF slow /\ ~booked[i] THEN 0
                               ELSE IF booked[i] /\ ~up2date[i] /\ uplink_st[i] > 0
                               THEN uplink_st[i] - 1 ELSE uplink_st[i]]
      fastNow == {i \in Ids : booked[i] /\ pass.fast[i]}
      a      == Allocation(fastNow, IF downlink > MaxNeed THEN MaxNeed ELSE downlink, st)
  IN /\ \A c \in Clients : top[c] # "due"
     /\ uplink_st' = st
     /\ uplink_usage' = pass.usage
     /\ is_fast' = pass.fast
     /\ up2date' = [i \in Ids |-> FALSE]
     /\ air' = [nb |-> frame_nb, booked |-> {i \in Ids : booked[i]},
                fast |-> fastNow, master |-> a.master, slots |-> a.slots]
     /\ frame_nb' = (frame_nb + 1) % FrameNumbers
     /\ top' = [c \in Clients |-> "due"]
     /\ top_age' = [c \in Clients |-> IF top_age[c] < 2 THEN top_age[c] + 1 ELSE 2]
     /\ bursts' = {}
     /\ UNCHANGED <<booked, id, alloc, alloc_age, client_nb, superseded>>

\* TDMA_byte_RX_interp at the master: a frame of client i's burst, with the
\* number of frames the client has waiting.  Bursts come after the top.
MasterHears(b, size) ==
  /\ b.id \in Ids
  /\ \A c \in Clients : top[c] # "due"
  /\ uplink_st' = [uplink_st EXCEPT ![b.id] = size]
  /\ up2date' = [up2date EXCEPT ![b.id] = TRUE]
  /\ uplink_usage' = [uplink_usage EXCEPT ![b.id] = IF size > 1 THEN UsageMemory ELSE @]
  /\ is_fast' = [is_fast EXCEPT ![b.id] = @ \/ size > 1]
  /\ UNCHANGED <<booked, frame_nb, air, clientVars>>

\* The address table books and frees entries (signaling.cpp), at any time; only
\* the next allocation looks at it, so it may as well be after the tops.
Book(i) ==
  /\ \A c \in Clients : top[c] # "due"
  /\ booked' = [booked EXCEPT ![i] = ~@]
  /\ UNCHANGED <<uplink_st, uplink_usage, is_fast, up2date, frame_nb, air, clientVars>>

-----------------------------------------------------------------------------
(* The clients.                                                             *)

\* slave_alloc_RX_age < 2.
\* Mutant: one burst too many.
Mut_AgeAllows(age) == age <= 2

AgeAllows(age) == age < 2

\* Mutant: the client ID is compared without its mask.
Mut_HisTurn(nb, l) == l.slow => nb % Multiframe = l.id

HisTurn(nb, l) == l.slow => nb % Multiframe = l.residue

Burst(c, l, how) == [modem |-> c, id |-> id[c], line |-> l, how |-> how]

\* A frame of the master reaches client c with its TDMA byte intact.  The
\* allocation in it may still be lost to errors ("top"), or not ("whole").
\* radio_RX_FIFO_dequeue looks at the allocation first and at the top then.
HearTop(c, how) ==
  LET mine  == how = "whole" /\ id[c] \in air.booked \cup {Discovery}
      l     == IF mine THEN Line(air, id[c]) ELSE alloc[c]
      age   == IF mine THEN 0 ELSE alloc_age[c]
      sends == AgeAllows(age) /\ HisTurn(air.nb, l)
  IN /\ top[c] = "due"
     /\ top' = [top EXCEPT ![c] = how]
     /\ top_age' = [top_age EXCEPT ![c] = 0]
     /\ client_nb' = [client_nb EXCEPT ![c] = air.nb]
     /\ alloc' = [alloc EXCEPT ![c] = l]
     /\ alloc_age' = [alloc_age EXCEPT ![c] = IF sends THEN age + 1 ELSE age]
     /\ bursts' = IF sends THEN bursts \cup {Burst(c, l, IF mine THEN "whole" ELSE "top")} ELSE bursts
     /\ superseded' = [superseded EXCEPT ![c] =
                         IF mine THEN 0
                         ELSE IF sends /\ ~l.slow THEN @ + 1 ELSE @]
     /\ UNCHANGED <<masterVars, id>>

MissTop(c) ==
  /\ top[c] = "due"
  /\ top' = [top EXCEPT ![c] = "missed"]
  /\ UNCHANGED <<masterVars, id, alloc, alloc_age, client_nb, top_age, bursts, superseded>>

\* A frame without a top whose TDMA byte is intact.  That of the master carries
\* the number of the next frame: TDMA_byte_elaboration counts up once the top is
\* sent.  That of another client, in whichever cell, carries the frames it has
\* waiting, and its size is taken for the number all the same.
HearData(c, nb) ==
  /\ top[c] # "due"
  /\ client_nb' = [client_nb EXCEPT ![c] = nb]
  /\ UNCHANGED <<masterVars, id, alloc, alloc_age, top, top_age, bursts, superseded>>

Numbers == {frame_nb} \cup {size % FrameNumbers : size \in Reported}

\* TDMA_slave_timeout: the main loop finds the top overdue.  It calls this
\* again and again while the age of the top is in a window of two
\* milliseconds, one frame after the last top.
SlaveTimeout(c) ==
  LET nb    == (client_nb[c] + 1) % FrameNumbers
      sends == HisTurn(nb, alloc[c])
  IN /\ top[c] = "missed" /\ top_age[c] = 1
     /\ AgeAllows(alloc_age[c])
     /\ \A b \in bursts : b.modem # c        \* slave_new_burst_tx_pending
     /\ client_nb' = [client_nb EXCEPT ![c] = nb]
     /\ alloc_age' = [alloc_age EXCEPT ![c] = IF sends THEN @ + 1 ELSE @]
     /\ bursts' = IF sends THEN bursts \cup {Burst(c, alloc[c], "timeout")} ELSE bursts
     /\ superseded' = [superseded EXCEPT ![c] =
                         IF sends /\ ~alloc[c].slow THEN @ + 1 ELSE @]
     /\ UNCHANGED <<masterVars, id, alloc, top, top_age>>

\* Registration gives the client another ID, or takes it back; only the next
\* allocation received looks at it.
SetId(c, i) ==
  /\ id[c] # i /\ \A d \in Clients : top[d] # "due"
  /\ id' = [id EXCEPT ![c] = i]
  /\ UNCHANGED <<masterVars, alloc, alloc_age, client_nb, top, top_age, bursts, superseded>>

-----------------------------------------------------------------------------
Init ==
  /\ booked = [i \in Ids |-> FALSE]
  /\ uplink_st = [i \in Ids |-> 0]
  /\ uplink_usage = [i \in Ids |-> UsageMemory]
  /\ is_fast = [i \in Ids |-> TRUE]
  /\ up2date = [i \in Ids |-> FALSE]
  /\ frame_nb = 0
  /\ air = [nb |-> 0, booked |-> {}, fast |-> {}, master |-> SlotCount,
            slots |-> [i \in Ids |-> 0]]
  /\ id = [c \in Clients |-> Discovery]
  /\ alloc = [c \in Clients |-> [id |-> Discovery, offset |-> 48000, slots |-> 1,
                                 residue |-> 0, slow |-> FALSE]]
  /\ alloc_age = [c \in Clients |-> 2]
  /\ client_nb = [c \in Clients |-> 0]
  /\ top = [c \in Clients |-> "missed"]
  /\ top_age = [c \in Clients |-> 2]
  /\ bursts = {}
  /\ superseded = [c \in Clients |-> 0]

Next ==
  \/ \E d \in Downlink : MasterFrame(d)
  \/ \E b \in bursts, s \in Reported : MasterHears(b, s)
  \/ \E i \in Ids : Book(i)
  \/ \E c \in Clients : \/ \E how \in {"whole", "top"} : HearTop(c, how)
                        \/ MissTop(c)
                        \/ \E nb \in Numbers : HearData(c, nb)
                        \/ SlaveTimeout(c)
                        \/ \E i \in Ids \cup {Discovery} : SetId(c, i)

Spec == Init /\ [][Next]_vars

\* Time passes: tops are heard or not, and the master's timer goes on.  The
\* second conjunct is weak fairness of MasterFrame, which is enabled when no
\* top is due and makes all of them due.
FairSpec ==
  /\ Spec
  /\ \A c \in Clients :
       WF_vars(MissTop(c) \/ \E how \in {"whole", "top"} : HearTop(c, how))
  /\ []<>(\E c \in Clients : top[c] = "due")

-----------------------------------------------------------------------------
(* Properties.                                                              *)

Lines == [id : Ids \cup {Discovery}, offset : Nat, slots : 1..SlotCount,
          residue : 0..(Multiframe - 1), slow : BOOLEAN]

TdmaTypeOK ==
  /\ booked \in [Ids -> BOOLEAN]
  /\ uplink_st \in [Ids -> 0..MaxNeed]
  /\ uplink_usage \in [Ids -> 0..UsageMemory]
  /\ is_fast \in [Ids -> BOOLEAN] /\ up2date \in [Ids -> BOOLEAN]
  /\ frame_nb \in 0..(FrameNumbers - 1)
  /\ id \in [Clients -> Ids \cup {Discovery}]
  /\ alloc \in [Clients -> Lines]
  /\ alloc_age \in [Clients -> 0..2]
  /\ client_nb \in [Clients -> 0..(FrameNumbers - 1)]
  /\ top \in [Clients -> {"due", "whole", "top", "missed"}]
  /\ top_age \in [Clients -> 0..2]
  /\ \A b \in bursts : b.line \in Lines

\* The two passes of TDMA_master_allocation hand out all the slots of a frame,
\* no more and no fewer, at least one to the master and to each fast client:
\* the slots of slow clients stay at the same place from frame to frame.
FrameFilled ==
  /\ air.master >= 1 /\ \A i \in air.fast : air.slots[i] >= 1
  /\ air.master + MapThenSumSet(LAMBDA i : air.slots[i], air.fast) = SlotCount

\* The lines of the current allocation on which somebody may transmit in this
\* frame, client ID i aside.
LinesOfOthers(i) ==
  {l \in {Line(air, j) : j \in (air.booked \cup {Discovery}) \ {i}} : HisTurn(air.nb, l)}

Collide(l, m) == l.offset < BurstEnd(m) /\ m.offset < BurstEnd(l)

\* Who transmits as the frame's allocation says collides with nobody else who
\* does, fast or slow, and no burst, on whatever allocation, reaches into the
\* next frame.
CurrentBurstsDisjoint ==
  \A b \in bursts :
    /\ b.how = "whole" => \A l \in LinesOfOthers(b.line.id) : ~Collide(b.line, l)
    /\ BurstEnd(b.line) <= FrameDuration

\* A slow client that times its burst by a top does not collide with those who
\* transmit as the frame's allocation says, however old its own allocation.
SlowBurstsAlone ==
  \A b \in bursts :
    b.line.slow /\ b.how # "timeout" =>
      \A l \in LinesOfOthers(b.line.id) : ~Collide(b.line, l)

\* A fast client transmits at most once with an allocation that a later one has
\* replaced, whatever it hears meanwhile.
SupersededOnce == \A c \in Clients : superseded[c] <= 1

\* A client that receives the allocations from some time on, and is in them,
\* transmits again and again, fast or slow, whatever the others ask for.
TurnComes ==
  \A c \in Clients :
    /\ <>[](top[c] \in {"due", "whole"} /\ id[c] \in air.booked \cup {Discovery})
    /\ <>[][UNCHANGED id]_vars
    => []<>(\E b \in bursts : b.modem = c)
=============================================================================
