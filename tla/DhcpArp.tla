------------------------------ MODULE DhcpArp -------------------------------
(***************************************************************************)
(* The table of a modem's LAN (source/DHCP_ARP.cpp): the leases of its DHCP *)
(* server if it is a client that runs one, the answers to its ARP requests  *)
(* if not.  Entries are found by address or by MAC and nothing else keeps   *)
(* the two uses of an entry apart.  With it goes the one Ethernet frame     *)
(* that waits for an ARP answer (source/Eth_IPv4.cpp).                      *)
(*                                                                          *)
(* Time is counted in halves of DHCP_ARP_timeout, modulo Word, as the       *)
(* microsecond timer wraps.                                                 *)
(***************************************************************************)
EXTENDS Integers

CONSTANTS TableSize,     \* DHCP_ARP_tab_size: 32
          Macs, NoMac,   \* hosts; what is in a MAC field nobody wrote
          Stations,      \* the hosts that may have the addresses, without DHCP
          Addresses,     \* addresses of the LAN
          Ranges,        \* the sets of them the DHCP server may have to give out
          Word,          \* 2^32 microseconds
          Modes          \* "dhcp": a client with DHCP on; "arp": all others

ASSUME DhcpArpAssumption ==
  /\ TableSize \in Nat /\ NoMac \notin Macs
  /\ Stations \subseteq Macs /\ Stations # {}
  /\ Addresses \subseteq Nat \ {0} /\ Ranges \subseteq SUBSET Addresses
  /\ Word \in Nat /\ Word > 3
  /\ Modes \subseteq {"dhcp", "arp"}

VARIABLES
  mode,     \* the configuration, fixed
  range,    \* DHCP_range_start and DHCP_range_size, from the master
  status,   \* DHCP_ARP_status
  mac,      \* DHCP_ARP_MAC
  ip,       \* DHCP_ARP_IP
  age,      \* the clock less DHCP_ARP_date
  granted,  \* the leases the DHCP server granted and has not thrown away itself,
            \* by host, with the time they have left (history)
  owner,    \* the host that has each address (ARP)
  asked,    \* addresses an ARP request is out for
  waiting,  \* temp_Eth_buff_IP, or 0 if temp_Eth_buff_size is 0
  sent      \* the MAC the last frame for each address was sent to

tableVars == <<status, mac, ip, age>>
lanVars == <<owner, asked, waiting, sent>>
vars == <<mode, range, tableVars, granted, lanVars>>

Slots == 1..TableSize
Timeout == 2
Statuses == 0..3       \* free, in progress, allocated, expired

\* Loops over the table keep the last entry that fits, or the first one.
Last(S) == CHOOSE i \in S : \A j \in S : j <= i
First(S) == CHOOSE i \in S : \A j \in S : i <= j

-----------------------------------------------------------------------------
(* The DHCP server.                                                         *)

Types == {"discover", "request", "release", "inform"}

\* lookfor_free_LAN_IP assigns new_status for the first two types only; values
\* beyond 3 would count as 1 does.
NewStatuses(type) ==
  CASE type = "discover" -> {1} [] type = "request" -> {2} [] OTHER -> Statuses

Allocated(a) == {i \in Slots : ip[i] = a /\ status[i] = 2}
Previous(m) == {i \in Slots : mac[i] = m /\ status[i] # 0}

\* The address asked for is in the range and allocated to no other entry.
Agreed(m, a) ==
  /\ a \in range
  /\ Allocated(a) \subseteq IF Previous(m) = {} THEN {} ELSE {Last(Previous(m))}

FreeAddresses == {a \in range : Allocated(a) = {}}

\* An ACK starts or prolongs the lease of the address a host asked for; booked:
\* the server found a place to write it down.  For the host a NAK, a new discovery
\* or a release ends it.  The server throws it away when it clears its table and
\* when an inform makes it write an unassigned status: the host, which does not
\* notice, may use the address longer, and as it may send any message at any time
\* nothing more has to be known of it.
NoLease == [address |-> 0, left |-> 0, booked |-> FALSE]
Grant(m, a, room) ==
  [granted EXCEPT ![m] = [address |-> a, left |-> Timeout, booked |-> room]]
Without(m) == [granted EXCEPT ![m] = NoLease]
Agree(type, m, a, room) == IF type = "request" THEN Grant(m, a, room) ELSE Without(m)
Deny(type, m) == IF type = "inform" THEN granted ELSE Without(m)

\* DHCP_release comes last in the treatment of a release.
Released(type, m, macs, stats) ==
  IF type = "release" THEN [i \in Slots |-> IF macs[i] = m THEN 0 ELSE stats[i]]
                      ELSE stats

\* Mutant: a lease asked for again is not dated again.
Mut_SetStatus(type, m, i, s) ==
  /\ status' = Released(type, m, mac, [status EXCEPT ![i] = s])
  /\ UNCHANGED <<mac, ip, age>>

\* Entry i is given status s; a lease starts or is prolonged.
SetStatus(type, m, i, s) ==
  /\ status' = Released(type, m, mac, [status EXCEPT ![i] = s])
  /\ age' = [age EXCEPT ![i] = IF type = "request" THEN 0 ELSE @]
  /\ UNCHANGED <<mac, ip>>

\* A new entry goes to the first place that is not allocated; if there is none
\* the answer is given all the same.  stats is the status before.
Places(stats) == {i \in Slots : stats[i] # 2}
NewEntry(type, m, a, s, stats) ==
  IF Places(stats) = {}
  THEN /\ status' = Released(type, m, mac, stats)
       /\ UNCHANGED <<mac, ip, age>>
  ELSE LET i == First(Places(stats)) IN
       /\ mac' = [mac EXCEPT ![i] = m]
       /\ ip' = [ip EXCEPT ![i] = a]
       /\ age' = [age EXCEPT ![i] = IF s = 2 THEN 0 ELSE @]
       /\ status' = Released(type, m, mac', [stats EXCEPT ![i] = s])

\* The client has no entry yet and its address is agreed.
NewLease(type, m, a) ==
  /\ Previous(m) = {} /\ Agreed(m, a)
  /\ \E s \in NewStatuses(type) : NewEntry(type, m, a, s, status)
  /\ granted' = Agree(type, m, a, Places(status) # {})

\* Mutant: the entry it had is not freed.
Mut_OtherLease(type, m, a) ==
  /\ Previous(m) # {} /\ Agreed(m, a)
  /\ ip[Last(Previous(m))] # a
  /\ \E s \in NewStatuses(type) : NewEntry(type, m, a, s, status)
  /\ granted' = Agree(type, m, a, TRUE)

\* It has an entry, asks for another address, and gets it; there is room, for
\* its entry is freed.
OtherLease(type, m, a) ==
  /\ Previous(m) # {} /\ Agreed(m, a)
  /\ LET i == Last(Previous(m)) IN
       /\ ip[i] # a
       /\ \E s \in NewStatuses(type) :
            NewEntry(type, m, a, s, [status EXCEPT ![i] = 0])
  /\ granted' = Agree(type, m, a, TRUE)

\* It asks again for the address of its entry.
SameLease(type, m, a) ==
  /\ Previous(m) # {} /\ Agreed(m, a)
  /\ LET i == Last(Previous(m)) IN
       /\ ip[i] = a
       /\ \E s \in NewStatuses(type) : SetStatus(type, m, i, s)
  /\ granted' = Agree(type, m, a, TRUE)

\* It discovers with an address it cannot have, and is offered its entry's.
OfferPrevious(m, a) ==
  /\ Previous(m) # {} /\ ~Agreed(m, a)
  /\ SetStatus("discover", m, Last(Previous(m)), 1)
  /\ granted' = Without(m)

\* It discovers without an entry, and is offered the first free address.
OfferFree(m, a) ==
  /\ Previous(m) = {} /\ ~Agreed(m, a) /\ FreeAddresses # {}
  /\ NewEntry("discover", m, First(FreeAddresses), 1, status)
  /\ granted' = Without(m)

\* It requests the address of its entry, which has been allocated to another
\* meanwhile: the match alone makes the answer positive, and the address in the
\* answer is never written.
MatchOnly(type, m, a) ==
  /\ Previous(m) # {} /\ ~Agreed(m, a)
  /\ LET i == Last(Previous(m)) IN
       /\ ip[i] = a
       /\ SetStatus(type, m, i, IF type = "request" THEN 2 ELSE status[i])
  /\ granted' \in IF type = "request" THEN {Grant(m, a, TRUE), Without(m)}
                                     ELSE {Deny(type, m)}

Refuse(type, m, a) ==
  /\ ~Agreed(m, a)
  /\ IF Previous(m) = {} THEN type = "discover" => FreeAddresses = {}
                         ELSE type # "discover" /\ ip[Last(Previous(m))] # a
  /\ granted' = Deny(type, m)
  /\ status' = Released(type, m, mac, status)
  /\ UNCHANGED <<mac, ip, age>>

\* DHCP_server treats a message of host m that names address a, or none (0).
DHCP_server(type, m, a) ==
  /\ mode = "dhcp"
  /\ \/ NewLease(type, m, a)
     \/ OtherLease(type, m, a)
     \/ SameLease(type, m, a)
     \/ type = "discover" /\ (OfferPrevious(m, a) \/ OfferFree(m, a))
     \/ type # "discover" /\ MatchOnly(type, m, a)
     \/ Refuse(type, m, a)
  /\ UNCHANGED <<mode, range, lanVars>>

\* signaling_connect_ACK_process with another LAN configuration clears the
\* statuses of the table, and nothing else of it.  Hosts plugged into the modem
\* may notice that its link goes down for a while; behind a switch they do not,
\* and keep their leases.  (A client without DHCP clears its answers too; it only
\* asks again, and this is left out.)
\* Mutant: the table is not cleared.
Mut_LanReset(r) ==
  /\ mode = "dhcp"
  /\ range' = r
  /\ granted' = [m \in Macs |-> NoLease]
  /\ UNCHANGED <<mode, tableVars, lanVars>>
LanReset(r) ==
  /\ mode = "dhcp"
  /\ range' = r
  /\ status' = [i \in Slots |-> 0]
  /\ granted' = [m \in Macs |-> NoLease]
  /\ UNCHANGED <<mode, mac, ip, age, lanVars>>

-----------------------------------------------------------------------------
(* The ARP side.  Frames from radio are modelled here only: with a DHCP server *)
(* they go to the host that has the lease, or are kept and never sent, and     *)
(* change nothing else.                                                        *)

\* Entries lookfor_MAC_from_IP finds, and whether their answer is still good.
Known(stats, ips, a) == {i \in Slots : ips[i] = a /\ stats[i] \in {2, 3}}
Usable(ages, i) == ages[i] < Timeout
\* Mutant: a known address is never asked for again.
Mut_RefreshDue(ages, i) == FALSE
RefreshDue(ages, i) == ages[i] >= Timeout \div 2

\* IPv4_from_radio: a packet for the LAN is sent to the MAC of its address, or
\* waits, in the place of the packet that waited before.
FromRadio(a) ==
  LET known == Known(status, ip, a)
      i     == Last(known)
      found == known # {} /\ Usable(age, i)
  IN /\ mode = "arp"
     /\ sent' = IF found THEN [sent EXCEPT ![a] = mac[i]] ELSE sent
     /\ waiting' = IF found THEN waiting ELSE a
     /\ asked' = IF known = {} \/ RefreshDue(age, i) THEN asked \cup {a} ELSE asked
     /\ UNCHANGED <<mode, range, tableVars, granted, owner>>

\* The entry an answer is written to: any for its address, whatever its status,
\* else one that was never used.
Entry(a) ==
  LET same == {i \in Slots : ip[i] = a}
      free == {i \in Slots : status[i] = 0}
  IN IF same # {} THEN {Last(same)} ELSE IF free # {} THEN {First(free)} ELSE {}

\* flush_temp_Eth_buffer: the frame that waits is sent if it is for this
\* address, to the MAC found or else, while the modem asks again, to what its
\* MAC field held; it is dropped if it is for another.  out: requests still out.
Flush(a, out) ==
  LET known == Known(status', ip', a)
      i     == Last(known)
      found == known # {} /\ Usable(age', i)
  IN /\ waiting' = 0
     /\ sent' = IF waiting # a THEN sent
                ELSE [sent EXCEPT ![a] = IF found THEN mac'[i] ELSE NoMac]
     /\ asked' = IF waiting = a /\ (known = {} \/ RefreshDue(age', i))
                 THEN out \cup {a} ELSE out

\* ARP_client_answer_treatment: the owner of an address sends a reply, asked or
\* not.  A reply that is not addressed to the modem, such as that of a host which
\* announces an address it took over, changes no entry, but it flushes too.
ArpReply(a, addressed) ==
  /\ mode = "arp"
  /\ IF ~addressed \/ Entry(a) = {} THEN UNCHANGED tableVars
     ELSE LET i == Last(Entry(a)) IN
          /\ mac' = [mac EXCEPT ![i] = owner[a]]
          /\ status' = [status EXCEPT ![i] = 2]
          /\ ip' = [ip EXCEPT ![i] = a]
          /\ age' = [age EXCEPT ![i] = 0]
  /\ Flush(a, IF addressed THEN asked \ {a} ELSE asked)
  /\ UNCHANGED <<mode, range, granted, owner>>

\* A request or its answer is lost.
LoseReply(a) ==
  /\ a \in asked
  /\ asked' = asked \ {a}
  /\ UNCHANGED <<mode, range, tableVars, granted, owner, waiting, sent>>

\* Another host, or another interface, has the address from now on.
Move(a, m) ==
  /\ mode = "arp" /\ owner[a] # m
  /\ owner' = [owner EXCEPT ![a] = m]
  /\ UNCHANGED <<mode, range, tableVars, granted, asked, waiting, sent>>

-----------------------------------------------------------------------------
\* Half a timeout passes; DHCP_ARP_periodic_free_table is called many times in
\* it.
\* Mutant: ages as if the timer did not wrap.
Mut_Aged == [i \in Slots |-> age[i] + 1]
Aged == [i \in Slots |-> (age[i] + 1) % Word]
Expired(i) == status[i] = 2 /\ Aged[i] > Timeout

Periodic ==
  /\ age' = Aged
  /\ status' = [i \in Slots |-> IF Expired(i) THEN 3 ELSE status[i]]
  /\ granted' = [m \in Macs |-> IF granted[m].left > 1
                                THEN [granted[m] EXCEPT !.left = @ - 1] ELSE NoLease]
  /\ UNCHANGED <<mode, range, mac, ip, lanVars>>

Init ==
  /\ mode \in Modes
  /\ range \in IF mode = "dhcp" THEN Ranges ELSE {Addresses}  \* unused
  /\ status = [i \in Slots |-> 0]
  /\ mac = [i \in Slots |-> NoMac]
  /\ ip = [i \in Slots |-> 0]
  /\ age = [i \in Slots |-> 0]
  /\ granted = [m \in Macs |-> NoLease]
  /\ owner \in IF mode = "arp" THEN [Addresses -> Stations]
               ELSE {[a \in Addresses |-> CHOOSE m \in Stations : TRUE]}  \* unused
  /\ asked = {} /\ waiting = 0
  /\ sent = [a \in Addresses |-> NoMac]

Next ==
  \/ \E type \in Types, m \in Macs, a \in Addresses \cup {0} : DHCP_server(type, m, a)
  \/ \E r \in Ranges : LanReset(r)
  \/ \E a \in Addresses : FromRadio(a) \/ LoseReply(a)
  \/ \E a \in Addresses, addressed \in BOOLEAN : ArpReply(a, addressed)
  \/ \E a \in Addresses, m \in Stations : Move(a, m)
  \/ Periodic

Spec == Init /\ [][Next]_vars

(* Time passes.  Frames for each address keep coming and keep no step with the *)
(* dates of its entry: some come when it must be asked for, some when it need  *)
(* not be.  A host that is asked again and again answers at last.              *)
FairSpec ==
  /\ Spec
  /\ WF_vars(Periodic)
  /\ \A a \in Addresses :
       /\ SF_vars(FromRadio(a) /\ asked' # asked)
       /\ SF_vars(FromRadio(a) /\ sent' # sent)
       /\ SF_vars(a \in asked /\ ArpReply(a, TRUE))

-----------------------------------------------------------------------------
(* Properties.                                                              *)

\* Types of the table, of the leases and of the waiting frame.
LanTypeOK ==
  /\ mode \in Modes /\ range \in Ranges \cup {Addresses}
  /\ status \in [Slots -> Statuses]
  /\ mac \in [Slots -> Macs \cup {NoMac}]
  /\ ip \in [Slots -> Addresses \cup {0}]
  /\ age \in [Slots -> 0..Word - 1]
  /\ granted \in [Macs -> [address : Addresses \cup {0}, left : 0..Timeout, booked : BOOLEAN]]
  /\ owner \in [Addresses -> Macs]
  /\ asked \subseteq Addresses /\ waiting \in Addresses \cup {0}
  /\ sent \in [Addresses -> Macs \cup {NoMac}]

\* The DHCP server has one entry of a host at most: lookfor_free_LAN_IP keeps
\* only the last one it finds, so a second one would hold its address for ever.
OneEntryPerMac ==
  mode = "dhcp" =>
    \A i, j \in Slots :
      status[i] # 0 /\ status[j] # 0 /\ mac[i] = mac[j] => i = j

\* A lease the server wrote down stays in its table as long as it lasts for the
\* host, unless a reset by the master clears the table: the entry does not expire
\* before the lease, and no message of another host takes it, not even when the
\* table is full.
LeasesKept ==
  \A m \in Macs : granted[m].booked =>
    \E i \in Slots : status[i] = 2 /\ mac[i] = m /\ ip[i] = granted[m].address

\* However the master moves the client's block, the server grants no address
\* outside the present one, not even to a host that had it before, and not when
\* the table is full.
LeasesInRange == \A m \in Macs : granted[m].left > 0 => granted[m].address \in range

\* An address the server has written down for one host is not written down for a
\* second one (DHCP_ARP.cpp:139, "not allocated to another MAC").
NoAddressLeasedTwice ==
  \A m, n \in Macs :
    granted[m].booked /\ granted[n].booked /\ m # n
      => granted[m].address # granted[n].address

\* Once no address changes its host, frames end up at the right one, though an
\* answer is kept long after it expired and its date wraps; provided replies to
\* others do not come for ever, for then frames go out with an unwritten MAC.
RepliesToOthersEnd == <>[][\A a \in Addresses : ~ArpReply(a, FALSE)]_vars
FramesFollowHost ==
  mode = "arp" /\ <>[][UNCHANGED owner]_vars /\ RepliesToOthersEnd
    => <>[](\A a \in Addresses : sent[a] = owner[a])
=============================================================================
