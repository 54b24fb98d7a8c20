# NPR-70 modem firmware: specifications, model checking and proofs

NPR-70 is the firmware of a packet-radio modem that carries IP over 70 cm
amateur radio. Modems form cells: one TDMA *master* and up to seven *clients*.
The firmware (`source/`) runs a single main loop on a microcontroller, preempted
by the interrupts of the radio chip (SI4463) and of a few one-shot timers.
`pi-pico/` ports it to another board; `mbed-os/` is vendored.

This directory holds TLA+ specifications of the parts of that firmware in which
modems, or the main loop and its interrupts, interact; the TLC runs that check
them; and proofs, checked by TLAPS, of every invariant and action property the
passing runs check and of the three refinements, for all values of the
constants.
What is only model-checked are the liveness properties (§5).

## 1. Inventory

| Component | Source | State | Operations | Talks to |
|---|---|---|---|---|
| Signaling and registration | `signaling.cpp` | the master's table `CONF_radio_addr_table_*` (status, callsign, block of IP addresses, date); a client's `my_client_radio_connexion_state`, client ID, block, two counters | request, acknowledgement, refusal, disconnection, periodic call, WHOIS | transmit FIFO (answers, requests), receive path (frames in), TDMA (client IDs), Ethernet side (routing) |
| Transmit FIFO and segmentation | `L1L2_radio.cpp`, `SI4463.cpp` | ring of 128 blocks with three pointers, optional external SRAM in front of it | segment and push, write, read, purge, flush | filled by the main loop, emptied by the radio interrupt |
| Receive path | `L1L2_radio.cpp`, `SI4463.cpp` | ring filled by the interrupt, one reassembly buffer per client | receive interrupt, dequeue, FEC decoding, reassembly | signaling, TDMA, Ethernet side |
| Radio driver | `SI4463.cpp` | radio on or off, receiving or transmitting, temperature | on, off, interrupts, burst preparation | both FIFOs, TDMA |
| TDMA scheduling | `TDMA.cpp` | the master's slots and timings, a client's slot | allocation, its reception, burst timing | address table, radio driver |
| Ethernet side | `Eth_IPv4.cpp` | temporary packet while the FIFO is full | Ethernet to radio, radio to Ethernet, look-up of the client that holds an address | address table, transmit FIFO, DHCP and ARP |
| DHCP and ARP | `DHCP_ARP.cpp` | one table for leases or ARP answers | DHCP server, ARP proxy, ARP client, sweep, reset | Ethernet side, signaling (reset) |
| Configuration | `config_flash.cpp` | log of 256-byte records in flash | read, write, erase, apply | everything, at start |
| Operator interface | `HMI_telnet.cpp` | one context per terminal | commands | radio driver, signaling, configuration |
| Main loop | `main.cpp` | timers | polls all of the above | |
| SNMP, W5500 driver, Pico port | `SNMP.cpp`, `W5500.cpp`, `pi-pico/` | counters, chip registers, glue | | |

### What is hard in it

* **Several modems, no common clock.** Master and client each time the other
  out, from events the other one does not see; frames are lost, delayed in
  FIFOs and purged; either side reboots without the other knowing.
* **Main loop and interrupts share memory without locks.** The transmit ring is
  written by the one and read by the other; correctness hangs on the order of
  a handful of assignments, and on thresholds looked at once per packet.
* **Tables that forget half.** A freed entry of the address table keeps its
  callsign and its block, is still searched and still routes packets.
* **Narrow numbers.** Dates of one byte, packet counters of four bits, pointers
  that wrap, unsigned differences of addresses.

`PROJECT.json` lists each hazard with its line and the properties aimed at it.

### What makes each component correct

* Address table: one entry per callsign, blocks inside the pool, booked blocks
  disjoint, packets routed to who booked the address, refusals justified.
* Registration: up to some age of an answer the master still holds what it said;
  a wrong connection ends; who asks is served in the end, or the reason why not
  is known.
* Transmit FIFO: frames leave whole, in order and once; the ring never
  overflows; whatever is published leaves; frames that are too old do not.
* Receive path: a packet not touched by losses is delivered; segments of
  different packets are not joined, as far as the packet counter can tell.
* TDMA: the slots of a frame add up; bursts of two modems do not overlap; an
  allocation that was replaced goes out of use; every client keeps a slot.
* DHCP and ARP: a host has one entry; a lease lasts as long as the host was
  told; addresses are in the client's block; frames follow an address to its
  host.
* Configuration: flash is programmed only where it is blank; after a power
  failure the modem starts with the last configuration saved completely, or
  with the one it was writing; only a reset, also one cut short, goes back
  further.

## 2. Modules

    AddressTable  <--EXTENDS--  Registration  --implements-->  Lease
         ^                           ^
         |                           |
    AddressTable_proofs         MCRegistration
    MCAddressTable              Registration_proofs (EXTENDS both)
                                CrowdedCell  <--  MCCrowdedCell

    TxFifo  --implements-->  TxQueue    FrameDates           Reassembly
       ^                                    ^                    ^
    MCTxFifo                         FrameDates_proofs    Reassembly_proofs
    TxFifo_proofs

    Tdma                     DhcpArp                      ConfigFlash
       ^                         ^                             ^
    MCTdma                   MCDhcpArp                    MCConfigFlash
    Tdma_proofs              DhcpArp_proofs               ConfigFlash_proofs

    ConfigFlash  --implements-->  ConfigStore

### AddressTable

The master's table alone, against an environment that may send any request at
any time. The variables are the arrays of `global_variables.h`, indexed by
client ID, with `answer` for the message the master composes in a step.
`connect_req_process` is `signaling_connect_req_process` with its three cases
`ReuseEntry`, `ResizeEntry` and `NewEntry`; the rest of the actions are the
disconnection, the timeout of entries and a reboot. `IsLookedForRange` says
which address `signaling_lookfor_IP_range` returns: the least of its candidates
(the pool's start and the ends of booked blocks) whose gap is large enough,
computed with unsigned differences, as the code does. `RoutesTo` is
`lookfor_client_ID_from_IP`.

Simplifications: an address is a number; the answer's further fields are left
out, as is the timing advance `TDMA_init_TA` records for a new client (it is
state of the TDMA component).

### Registration

The table of AddressTable, its clients, the frames between them and the two
kinds of timeouts. One action per periodic call, per frame received, per
operator command that concerns the connection, and per reboot. A link is a
queue of signaling frames: bounded (`signaling_frame_push` drops a frame that
finds the FIFO full), lossy, in order, without duplicates (no layer of the
firmware repeats a frame). Radio off at a client means that it receives
nothing and that nothing of what it queued is sent.

Time is counted in calls of `signaling_periodic_call`, which every modem makes
every 2 s. A round lets each modem make one call, in any order: this assumes
that their periods are the same to within a round over a timeout, which ten
calls and crystal oscillators give. The master measures the age of an entry on
its clock and not in calls, so an entry may be freed one call before or after
the tenth: `MaybeOverdue` and `Overdue` bound the choice. A frame may wait for
any time: no bound is taken from the purge of old frames, which never purges
some (FrameDates). An answer counts the rounds it is under way, and `since` the
rounds since the master made the answer a client took last; both are history,
for neither end sees them, and they saturate at `SureRounds`.

The master's receive path drops frames whose client ID is neither that of a
booked entry nor the one of the unconnected (`PassesFilter`), so a request
carries the client ID its sender had.

States 4 and 5 of a client (disconnecting) are never entered by the firmware
and are not modelled; nor is the disconnect request, which nothing sends.

### Lease

What registration promises: a client ID with its block is leased to one client
at a time, each client holds at most one, and a lease is not taken back while
its holder relies on it. `Registration!LeaseImplemented` is the refinement: the
leases are the booked entries, and the clients that may rely on theirs are those
whose last answer the master made fewer than `SureRounds` rounds ago (`Fresh`).
`SureRounds` is any number below `connexion_timeout`; with `connexion_timeout`
itself TLC finds a counterexample, so this is where the agreement ends. What
lies beyond is not promised by the code and not claimed here: a client counts
from the arrival of its answer and stays connected until that is more than ten
calls ago, the master counts from the request it heard, and in the time between
the two the client may use an ID and a block the master has given to another.

### CrowdedCell

Registration with one client (`Watched`) in all detail. The others are an
environment: the master may hear a request of each of them whenever its radio is
on, which is more than they can do in Registration. Others book, free, take over
and move blocks around the client's, so that the pool fragments. All operator
actions and reboots of the watched client and of the master are in it.

### TxFifo and TxQueue

The ring of a modem without external SRAM. The main loop's accesses are single
steps (`WriteBlock`, `Publish`, the three assignments of
`radio_flush_TX_FIFO`), between any two of which the interrupt may purge or
send frames; interrupts do not interrupt each other. Blocks carry the serial
number, size and position of the frame they belong to. Pointers are modulo
`Word`, differences are converted to `int`, the ring is indexed modulo
`Blocks`, as in the code. A frame read at a place where none begins has an
arbitrary size, for its size byte is then part of a payload.

`Purge` does not look at the radio's state, as `Radio_purge_old_frames` does not;
the interrupts that are pending when `RADIO_off` begins are over 100 ms later,
when it ends, and so before `RADIO_on` flushes.

The three pointers are not `volatile`; the model takes the order of the source
for the order of the accesses.

`TxQueue` is a plain queue of frames; `QueueImplemented` maps the blocks between
`RD` and `last_ready` to it.

### FrameDates

The age of frames that wait, in the internal FIFO or the external SRAM before
it, compared through one byte of the clock. `Transmit` purges as many frames as
`Radio_purge_old_frames` does, then sends one or not (there may be no time left
in the slot).

### Reassembly

`segment_and_push` at one end, `radio_RX_FIFO_dequeue` at the other, a lossy
radio in between. Segments carry which part of which packet they hold, so that
what is delivered can be compared with what was sent. The sender has one packet
counter for all stations: between two packets for the receiver it goes on by any
number of packets for others, which the receiver's filter drops.

### Tdma

The slots of a cell, frame by frame. `MasterFrame` is the whole of
`TDMA_master_allocation` (with `TDMA_master_allocation_slow` every fourth
frame): who is fast, the two passes that hand out slots in rounds, and the
broadcast in `air`. The loops are functions of the round: a round in which
nothing is granted changes nothing, so as many rounds as there are slots are as
good as "until none is left". A client hears the frame whole (`HearTop` with
"whole": allocation, then top), hears only a top, or misses both; a data frame
of the master still gives it the frame's number, and one of another client a wrong
number, for its queue size is taken for one (`HearData`). The main loop may stand
in for a missed top (`SlaveTimeout`). `Line` and `BurstEnd` are the
timings, in microseconds from the top; offsets travel in units of ten.

The age of an allocation, `slave_alloc_RX_age`, counts bursts and not time.
`air`, `bursts`, `top` and `top_age` describe the current frame; `superseded` is
a history variable. The address table and registration appear as `Book` and
`SetId`, at any time. `radio_addr_table_size` is 7, which leaves the last turn of
the second slot to clients without an ID; the module assumes that, and that IDs
which share a slot have turns of their own (`TdmaAssumption`).
`TimingAssumption` is what the tables of all modulations
(`SI4463.cpp:154`) have in common: a margin of 10 microseconds at least, and a
frame that holds the reduced slot and 17 others with their margins.

### DhcpArp

The table of `DHCP_ARP.cpp` in its two uses. In mode "dhcp" `DHCP_server` is the
treatment of one message, as `lookfor_free_LAN_IP` decides it: the cases of that
function that can apply together are one action each (`NewLease`, `OtherLease`,
`SameLease`, `OfferPrevious`, `OfferFree`, `MatchOnly`, `Refuse`). A status or
address that the code leaves unassigned is an arbitrary one. `granted` is a
history of the leases the server granted, to which the table is compared; a lease
is `booked` if the server found a place to write it down, for with a full table it
acknowledges all the same (`DHCP_ARP.cpp:245`). `LanReset` is the reset by a
connection answer with another LAN configuration: it clears the statuses of the
table and with them what the server knows of its leases. Hosts are not told;
those behind a switch do not even see the link go down, and keep their leases.
As hosts may send any message at any time, nothing about them has to be
remembered for that.

In mode "arp" the table holds answers to ARP requests; hosts may take addresses
over (`Move`), requests get lost, and `FromRadio` looks addresses up, refreshes
and parks a frame until `ArpReply` sends it. A reply that is not addressed to the
modem changes no entry but sends or drops that frame all the same, as
`DHCP_ARP.cpp:641` does. `Known`, `Usable` and `RefreshDue`
are the three ages of `lookfor_MAC_from_IP`. Time is in half timeouts, modulo
`Word`, as the timer of 2^32 microseconds wraps after about 72 minutes.

### ConfigFlash and ConfigStore

The log of configuration records. A save is three steps (erase the sector if
the bank is its first, program the header with magic number and index, program
the body), a reset erases a sector per step, and `PowerFail` may come between
any two or in the middle of an erasure. RAM is lost then and `NFPR_config_read`
looks for the highest index. Banks are used by index modulo `Banks`.

`ConfigStore` is what the operator sees of it: a configuration that is kept, the
others memory still holds, and one that is being saved. `StoreImplemented` maps
the first to the record `virt_EEPROM_read` would find, the second to the records
in flash. In `ConfigStore` a save cannot fail while the modem runs, an erasure
never takes the configuration kept, and only a reset lets an older one or none
take its place. A save cut short after its header leaves the value `"torn"`:
nothing in the firmware tells such a record from a whole one.

## 3. Runs

| Run | Question | Instance |
|---|---|---|
| `table_mixed` | Types, `CallsignsUnique`, `BlocksInPool`, `FreshBlockIsFree`, `RefusedOnlyWhenFull` under any sequence of requests | 4 callsigns, 3 entries, blocks of 1 and 2 in a pool of 4 |
| `table_uniform` | `BookedBlocksDisjoint`, `RoutedToBooker` when all ask for one size | 4 callsigns, 4 entries, blocks of 2 in a pool of 7 |
| `registration_safety` | `FreshClientsAgree`, `LeaseImplemented` | 2 clients, 1 entry, timeout of 3 calls, answers relied on for 2 rounds, frames delayed for any time, one operator action |
| `cell_served` | `StaleConnectionEnds` with nothing but the timers fair, `ServedUnlessLockedOut` with the client's link fair as well | one client among 2, 2 entries, sizes 1 and 2 in pools of 3 and of 4, reboots of both sides |
| `txfifo_queue` | `PointersInOrder`, `OnlyWholeFramesSent`, `QueueImplemented`, `FramesLeave` | ring of 8, frames of 1 to 3 blocks, 5 frames, thresholds as tight as the firmware's |
| `txfifo_timeout` | finding: a flush with the radio on leaves the pointers crossed | as `txfifo_queue` |
| `dates_recent` | `OnlyOldFramesGivenUp` | dates modulo 8, limit 3, clock to 20 |
| `reassembly_loss` | `UntouchedPacketArrives`, `MixedOnlyWhenCounterComesRound` under any losses and any number of packets for others | 8 packets of 1 to 6 segments, packet counter modulo 3 |
| `tdma_slots` | `FrameFilled`, `CurrentBurstsDisjoint`, `SlowBurstsAlone`, `SupersededOnce`, `TurnComes` | client IDs 1 and 4, one client that may have either or none, 15 slots, timings of modulation 24 |
| `lan_table` | `OneEntryPerMac`, `LeasesKept`, `LeasesInRange`, `FramesFollowHost` | 3 hosts, 2 addresses, table of 2, ranges of one and two addresses, timer of two timeouts |
| `dhcp_twice` | finding: an address is leased to two hosts | as `lan_table`, DHCP only |
| `flash_power` | `BlankBeforeProgram`, `LatestKept`, `StoreImplemented` under power failures | 2 sectors of 3 banks, 14 saves, 2 configurations |

Why the bounds are enough:

* *Table.* There are more callsigns than entries and more demand than pool, so
  entries change owners, the table and the pool fill up, gaps appear before,
  between and after blocks, and a gap of one address stays between blocks of
  two. The proofs lift the bounds.
* *Registration.* Two clients on one entry is the contest the timeouts decide.
  The timeout is 3 calls rather than 10, with refresh and retry periods in the
  same order; longer ones only add rounds in which nothing is compared. Ages that
  saturate at `SureRounds` lose nothing, as only smaller ones are looked at. One
  intervention or reboot can fall at any moment of any exchange. The proofs lift
  all of this.
* *CrowdedCell.* The timeout is 2, the least that is greater than the refresh
  period, since only the order of the thresholds matters. `Fresh` plays no part,
  so `SureRounds` is 0 and the histories stay constant. In the pool of three a
  block of one in the middle leaves no gap for two, although two addresses are
  free; then `RoomForAll` is false and the property promises nothing. In the pool
  of four there always is one beside a block of one. One intervention is enough to refuse a client that
  was connected (a new size), to end its connection or to make the master forget
  it; requests of the others and losses are not bounded.
* *TxFifo.* 110 + 18 = 128 and 120 + 3 < 128 in the firmware; 2 + 6 = 8 and
  5 + 3 = 8 here. Five frames of up to three blocks go round the ring of eight
  almost twice.
* *FrameDates.* The clock goes round more than twice; the limit is below half of
  a round, as 120 is of 256.
* *Reassembly.* 6 segments is the firmware's largest packet. The counter of 3
  values comes round between packets by the packets for others alone, by lost
  ones alone, or by both; the firmware's counter has 16 values.
* *Tdma.* The properties speak of one client against the lines of all the
  others in the allocation, so one client and one other ID are enough; IDs 1
  and 4 use the two slots of the slow clients and the same turn of four taken
  modulo 2. Frame numbers are modulo 2 instead of 32 and 4, and a client is slow
  after one allocation without need instead of 32. Slots, margins and durations
  are the firmware's for modulation 24. A client reports one queue size that makes
  it fast and one that does not. With 15 slots, need and 9 waiting
  frames at the master both passes end in the middle of a round.
* *DhcpArp.* Three hosts, two addresses and two places: hosts contend for
  addresses, and a request for a free address finds the table full when both
  entries hold the other address, as `dhcp_twice` shows they can; with a range
  larger than the table it takes no more than many hosts. Two of the hosts own
  addresses in the ARP mode, and there is room for all addresses there. The timer wraps after two timeouts rather than twelve,
  which is the least at which an expired answer can look fresh again.
* *ConfigFlash.* The indices go round the banks more than twice. A sector has 3
  banks, the least with one that is neither first nor last; the firmware has 2
  sectors of 8.

Runs that stop: packets are numbered in Reassembly and end, and in `tdma_slots`
nothing is left to happen at the end of a frame if nobody transmits but the
next one (`CHECK_DEADLOCK FALSE` in both). In all others every state has a
successor and TLC checks that.

### Fairness

* `Timers`: periodic calls keep coming, because the main loop never blocks. As a
  round ends only when every modem made its call, weak fairness of the periodic
  steps together is weak fairness of each.
* `FairLink`: strong fairness of reception on the link of the client that is
  watched: a link used again and again is not lost for ever. It is fairness of
  reception, not of service: a request that was received may still be dropped by
  the filter or refused. Without it nothing can be promised of a radio.
  `StaleConnectionEnds` does without.
* `ServedUnlessLockedOut` has two premises besides: that there is room
  (`RoomForAll`: the addresses the others leave, spread over all gaps there can
  be, do not leave each of them too small; a plain sum would not do, for a pool
  fragments), and that the client is not `LockedOut` (§4).
* `TxFifo!Fairness`: the main loop goes on writing what it began. Nothing makes
  the interrupt come: the master arms its burst timer again only if it heard a
  frame within `CONF_radio_timeout` (`SI4463.cpp:854`), and a client waits to be
  allocated a slot. That turns to transmit keep coming is a premise of
  `FramesLeave` (`TurnsKeepComing`). `FramesLeave` speaks of each single frame, so
  that it says something although the number of frames is bounded.
* `Tdma!FairSpec`: frames follow one another, because the master's timer is
  periodic. That a client hears them is not assumed but a premise of
  `TurnComes`.
* `DhcpArp!FairSpec`: time passes, traffic for each address goes on at all ages
  of its entry, and an owner that is asked again and again answers at last. The
  second is about the network: a frame every timeout, all in step with the
  expiry, would never find the answer in the half of its life in which it is
  asked for again, and once the timer wrapped it would look fresh.
  That replies to others do not come for ever is not assumed but a premise of
  `FramesFollowHost` (`RepliesToOthersEnd`).

## 4. Findings

1. **Flush under a running radio** (`txfifo_timeout`, `L1L2_radio.cpp:732`). A
   client's timeout flushes the FIFO with three assignments while interrupts
   may use it; the read pointer can end up ahead of the others, and then no
   frame is sent until as many blocks have been written.
2. **An address leased twice** (`dhcp_twice`, `DHCP_ARP.cpp:114`). Host 1 has the
   first address; host 2 is offered the second; host 1 moves its lease to the
   second, which an offer does not protect; host 2 requests it, and the match
   with its own entry is enough for a positive answer.

What else the modelling showed of the code, without a text that says otherwise:

* *Returning clients overlap* (`signaling.cpp:203`). A client whose entry was
  freed gets its old block back without a look at the table, although part of
  it may be booked by others. `BookedBlocksDisjoint` fails with two block sizes
  in one cell; with one size it holds (`table_uniform`, and proved).
* *The two timeouts disagree in the end* (`signaling.cpp:557`, `574`). The client
  counts from the answer, the master from the request, and an answer may wait
  long in the FIFO. `FreshClientsAgree` holds up to the round before the master's
  timeout and not a round longer; the client stays connected beyond that.
* *A refused client is locked out* (`signaling.cpp:360`). A refusal leaves the
  client its client ID and its block, which it goes on to use, and frees its
  entry (`signaling.cpp:212`). The master then drops each of its requests, for
  they are sent under the client ID of a free entry (`L1L2_radio.cpp:153`). It is
  let in again if another client books that entry, so that the filter lets its
  requests pass, if its radio is switched off and on, or if it is rebooted.
* *A pool fragments* (`signaling.cpp:156`). A block of two finds no place among
  blocks of one at every other address, as often as its client may ask.
* *Old frames are kept* (`SI4463.cpp:942`). The difference of two date bytes is
  negative after the byte wrapped: a frame dated in the last
  `CONF_Tx_rframe_timeout` values of the byte is never purged, however long it
  waits, and every other one only until the byte wraps. `OnlyOldFramesGivenUp`
  is about frames given up early, and nothing else here relies on the purge.
* *Packets are mixed* (`L1L2_radio.cpp:397`). The four bits of the packet counter
  count the packets to all clients. If the end of one packet and the head of
  another for the same client are lost, with 15 packets for others in between,
  the two are delivered as one.
* *Truncated packets are delivered* (`L1L2_radio.cpp:217`). After a continuity
  error the segments that follow are collected again; the tail goes up as a
  packet.
* *Leases the server does not know of* (`DHCP_ARP.cpp:245`, `signaling.cpp:350`).
  With all places allocated a request for a free address is acknowledged without
  an entry, and a reset of the LAN forgets leases that hosts go on to use; the
  server may grant such an address to another host.
* *A reply to others sends the frame that waits* (`DHCP_ARP.cpp:641`). The test
  whether a reply is for the modem guards the entry and not the flush: the frame
  that waits goes out with a MAC field nobody wrote, or is dropped.
* *A slow client in another's turn* (`TDMA.cpp:192`). `TDMA_slave_timeout` is
  called on every pass of the main loop (`main.cpp:86`) and counts the frame
  number up each time, for the two milliseconds in which it holds the top for
  missed. `SlowBurstsAlone` fails for the bursts it starts, and leaves them out.
* *A master that stays silent* (`SI4463.cpp:854`). The master stops arming its
  burst timer once it has heard nothing for nearly `CONF_radio_timeout`, but a
  frame starts it again only if it comes more than a second after that
  (`L1L2_radio.cpp:127`). A client that begins to call within that second keeps
  `last_rframe_seen` fresh (`L1L2_radio.cpp:133`), and is not heard.
* *The receive ring is unchecked* (`SI4463.cpp:642`). The interrupt does not
  compare with the read pointer.
* *ARP entries are for good* (`DHCP_ARP.cpp:626`). Only entries never used are
  taken for new addresses. Once all are used a new address is never resolved,
  and each answer sends its waiting frame with whatever its MAC field held
  (`Eth_IPv4.cpp:280`); an answer for any other address drops that frame.

## 5. Proofs

`AddressTable_proofs` holds for any number of callsigns and entries, any set of
block sizes, any pools. The assumptions are those of AddressTable: the empty
callsign is not a client's, there is an entry, sizes are positive, and a pool
ends below 2^32.

* `TableInvariant`: `TypeOK`, `CallsignsUnique` and `BlocksInPool` together are
  inductive. Neither of the last two is without the first. The lemma that
  matters is `FittingInPool`: no candidate of the search is beyond the pool's
  end, because booked blocks are inside the pool, so the unsigned difference
  does not wrap and the gap ends inside the pool.
* `FreshBlocksAreFree`: if booked blocks are disjoint, a gap the search accepts
  is disjoint from all of them. A booked block that begins below the candidate
  and reaches into the gap would overlap the booked block that ends at the
  candidate (`FittingIsFree`). So an overlap can only come from booking a freed
  entry again.
* `RefusalsAreRight`: if a block of the pool is clear of all booked ones, the
  last candidate before it begins a gap the search accepts (`GapIsFound`). A
  booked block between the two would end at a later candidate, so the limit of
  the gap is beyond the clear block. Booked blocks need not be disjoint.
* `UniformSizesNeverOverlap`, `UniformSizesRouteToBooker`: with one size `s`,
  entry `i` always holds the addresses from `pool.start + i * s` on
  (`UniformInv`). The search returns the first free gap and the table its first
  free entry; `UniformPlace` shows that they correspond. Freed entries then
  hold blocks nobody else can get, which makes routing by all entries right.

`Registration_proofs` holds for any number of clients and entries, any sizes,
pools, timeouts and links, and for frames that are delayed for any time, on the
assumptions of Registration (the thresholds are in their order, `SureRounds` is
below the timeout, the master is not one of the clients).

* `RegistrationUsesTable`: each step of `FullSpec`, the reboots and changed
  requests included, is one that AddressTable allows, because requests on their
  way keep their type. The theorems about the table then hold in a cell.
* `RegTypesHold`, from the types of links and answers.
* `FreshAgree`: the invariant is `RegInv`. Under `Spec` a client asks for one
  size (`Requested`), so no entry is ever resized and a request changes no entry
  that is booked (`RequestStep`). An acknowledgement under way for fewer than
  `SureRounds` rounds says what the table says, and its entry was dated no
  earlier than the acknowledgement was made, give or take the call the master
  made in this round (`AnswersStand`); the same holds of the entry of a fresh
  client and its `since` (`ClientStands`). Both stay below the age at which the
  master may free an entry (`SweepAgrees`). Neither `FreshClientsAgree` nor
  either of the two is inductive alone, for a client becomes fresh by an answer
  under way.
* `RegistrationImplementsLease`: what the master frees nobody relies on, because
  who does still agrees with the table afterwards (`SweepMoves`); a client that
  becomes fresh relies on a lease that was granted, and one that was fresh
  before is told nothing new, as it has one entry (`ClientMoves`).

`TxFifo_proofs` holds for any ring, largest frame and largest packet, and any
thresholds that leave room for one push (`RoomAssumption`), for as long as the
pointers do not wrap (`NoWrap`: the frames written take fewer blocks than a
pointer has values; 2^32 in the firmware). Past a wrap the pointers are no
longer in order and the code compares them all the same. It is about `Spec`:
under `ClientSpec` the properties do not hold (finding 1).

* `FifoInv` is inductive. Neither `PointersInOrder` nor `OnlyWholeFramesSent`
  is: that the interrupt sends a whole frame depends on
  what the ring holds between `RD` and `last_ready` (`Framed`: each block that
  waits belongs to a frame all of which waits), which depends in turn on what is
  behind `last_ready` when it moves (`Partial`: the first `part - 1` blocks of
  the current frame) and on writes that do not reach round to `RD` (`Room`: the
  rest of the packet fits, although the filling was looked at once, before it).
  `Count` bounds the pointers and `FlushedOff` says that a flush finds nothing
  half written and the radio off.
* `PlacesApart` (positions less than a round apart are different places) is what
  makes a write leave the waiting blocks alone. `AdvanceKeepsInv` is the other
  half: no frame begins inside of another, so moving `RD` over one frame leaves
  whole frames.

Its second half shows that the ring implements the queue, on the same assumptions
and from `FifoInv`:

* The abstract queue is found in the ring by selecting the headers that wait, in
  the order of their places. How many headers are before a place is its rank; a
  counting argument (the lemmas on `Rank`) makes the list the one with the frame
  of each header at its rank (`Listing`), without any induction over the ring.
* `PublishEnters`: moving `last_ready` adds one header after all others, that of
  the frame just written (`OneFrameMore`). `OldestLeaves`: the header at `RD` is
  the first, and moving `RD` over its frame removes it alone (`OneFrameLess`).
  Writes below `last_ready` change no waiting header (`WriteIsQuiet`), and a
  flush with the radio off empties both (`SwitchEmpties`).

`FrameDates_proofs`: the difference of two dates is at most the difference of the
times (`DatesLag`), because a wrap between them only makes it smaller. So
`OnlyOldFramesGivenUp` holds for any width of the dates; the converse does not.

`Reassembly_proofs`: `UntouchedPacketArrives` follows from `ReassemblyInv`, whose
part `Collected` says that the buffer holds what was sent of the packet if
nothing of it was lost, and that the two counters of the receiver are those of
its last segment. `LastPart` (the last segment in the buffer is the last one
received, and the buffer is no longer than its number) bounds the buffer.
`MixingNeedsTheCounterRound` needs `BufferJoined` as well: the segments in the
buffer are joined as the property says, and the receiver's packet counter is that
of the packet its last segment is of. A segment that follows has the same packet
counter, so its packet is the same or `PacketWord` packets later at least
(`SameRemainder`). It assumes nothing of the losses.

`Tdma_proofs` holds for any clients, slots, margins and durations, on the two
assumptions of Tdma:

* `ReplacedAllocationsEnd` needs the age of the allocation (`AgeOf`): while a
  client is fast, every burst with an allocation that was replaced is counted in
  `alloc_age` on top of the one in the frame the allocation came with, and the
  age allows two.
* `AllSlotsGiven`: the allocation is a recursive function, and so is the sum of
  the slots. Neither is computed by induction over data. `Iterates` shows, by
  the least number that fails, that a run of a function has a value at each
  step; so the recursive definition has one, and what each step keeps
  (`FairGrants`) holds at the last one. Sums are over seven IDs at most and are
  compared with a sum of seven terms (`SumIs`). Each round of the second pass
  grants a slot as long as there is one, so after as many rounds as slots none
  is left (`SparePassFills`).
* `CurrentLinesApart` and `SlowLinesApart`: each line has a place and a width in
  slots (`PlaceIs`, `LineIs`). Fast lines follow each other (`FastPlaces`), slow
  ones come after all of them, at the same place whatever the allocation
  (`SlowLine`), because all slots are handed out. Two slow lines at one place
  have different turns (`SlowSolo`). Lines at different places are apart in time
  because the margin outlasts the rounding (`LinesApart`), and end within the
  frame (`LineInFrame`). `SlotsInv` adds what a client knows: an allocation that
  its age allows to use is within the frame, and a burst marked "whole" follows
  the allocation on the air. That is what makes it inductive: the three
  properties say nothing of the allocations that clients keep.
* `EveryTurnComes` is the arithmetic behind `TurnComes`: frame numbers wrap at a
  multiple of `Multiframe`, so no turn is skipped.

`DhcpArp_proofs` holds for any table, hosts, addresses and ranges:

* `TableInvariant`: types, one entry per host and an owner for each entry. The
  lemma is `DhcpStep`: whatever a message does, entries of other hosts that are
  allocated stay as they are, others are kept or overwritten, and the host is
  left with one entry (`OwnEntry`), because every case frees the host's entry
  before it makes a new one. It holds for any status the code leaves
  unassigned.
* `LeasesAreKept`: a lease that was written down is held by an entry that is no
  older than the lease (`LeaseInv`). `OwnLease` says that after a message of a
  host its lease is booked only with a fresh entry for it, `OwnEntry` that a
  message of another host leaves that entry alone, also when the table is full.
* `LeasesStayInRange`: entries, not only leases, are in the range (`RangeInv`),
  because a request that matches an entry is granted without a look at the
  range.

`ConfigFlash_proofs` holds for any sizes of sectors and flash and any
configurations. `FlashInv` is inductive:

* A record is in the bank of its index (`Placed`), and a sector with a record
  holds only records of the same round of the banks, or blanks (`OneRound`).
  So the bank after the highest record is blank, unless it begins a sector
  (`NextIsBlank`), and it is that which makes `BlankBeforeProgram` hold.
* The sector a save erases is not that of the highest record
  (`HighestElsewhere`), as there are two sectors at least. So the record the
  modem would start with outlives the erasure, in whole or in part
  (`ErasingKeeps`). `Phase` says for each step of a save what the highest record
  is and what RAM knows of it.
* `FlashImplementsStore`: step by step from `FlashInv` and `Filled`, that a
  record with an index is never without configuration (`StoreInv`). The two
  steps of programming need `NextIsBlank`, without which a save could fail
  unnoticed; the erasures need `HighestElsewhere`; and the steps of a reset that
  what is found next is one of the records left, or none is left (`KeptIs`).
* The index is assumed not to reach `MaxIndex`, a bound of the model; the
  firmware's has 32 bits.

The prover does not reach liveness under fairness: `StaleConnectionEnds`,
`ServedUnlessLockedOut`, `FramesLeave`, `TurnComes` and `FramesFollowHost` stay
with TLC. Recursive definitions are within reach only as recursive functions on
an interval, as in `Tdma_proofs`.

## 6. Not modelled

* Signaling: the WHOIS exchange (it informs the operator, and a client that is
  made master keeps what it learned), the packing of messages into frames, the
  operator's commands that move the pool.
* Radio: the receive ring (nothing bounds how long the main loop leaves it),
  the burst timers and the blind bursts at power-up, FEC, temperature.
* TDMA: the timing advance and FDD.
* LAN: the ARP proxy, which answers and keeps nothing; the mixed use of the
  table on the Pico board; DHCP answers that are lost; the translation of
  packets.
* Flash: the external EEPROM; erasures that leave a page unstable.
* SNMP, the chip drivers and the Pico port are I/O and formatting.
  `ext_SRAM2.cpp` is compiled only under a macro nothing defines,
  `Virt_Chan.cpp` is not used, and the register tables under `SI4463/` are data.

## 7. What remains

1. `RadioBurst`: the burst timers of the master and how it is started again.
2. `RxFifo`: the receive ring, under a stated bound on the main loop.
3. Extensions of AddressTable: the operator who moves the pool under booked
   entries (unsigned differences wrap, `signaling.cpp:170`), a client promoted
   to master with entries learned from WHOIS.
