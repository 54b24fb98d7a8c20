--------------------------- MODULE DhcpArp_proofs ---------------------------
(***************************************************************************)
(* Proofs about the LAN table, for any size of the table, any hosts and any *)
(* addresses: its types, one entry per host, and leases that are kept.      *)
(***************************************************************************)
EXTENDS DhcpArp, WellFoundedInduction, TLAPS

LessThan == {ss \in Nat \X Nat : ss[1] < ss[2]}

\* The order of the natural numbers is well founded.
LEMMA LessThanWellFounded == IsWellFoundedOn(LessThan, Nat)
<1>1. OpToRel(<, Nat) = LessThan
  BY Zenon DEF OpToRel, LessThan
<1> QED
  BY <1>1, NatLessThanWellFounded, Zenon

\* A non-empty set of numbers has a smallest element.
LEMMA FirstIn ==
  ASSUME NEW S \in SUBSET Nat, S # {}
  PROVE  First(S) \in S
<1>1. PICK x \in S : \A y \in S : ~ (<<y, x>> \in LessThan)
  BY LessThanWellFounded, WFMin
<1>2. ASSUME NEW y \in S PROVE x <= y
  <2>1. x \in Nat /\ y \in Nat /\ (y < x => <<y, x>> \in LessThan)
    BY DEF LessThan
  <2> QED
    BY <1>1, <2>1
<1> QED
  BY <1>2 DEF First

\* A non-empty set of places has a last one.
LEMMA LastIn ==
  ASSUME NEW S \in SUBSET Slots, S # {}
  PROVE  Last(S) \in S
<1> DEFINE T == {TableSize - i : i \in S}
<1>0. TableSize \in Nat
  BY DhcpArpAssumption
<1>1. S \in SUBSET (1..TableSize) /\ T \in SUBSET Nat /\ T # {}
  <2>1. \A i \in S : i \in 1..TableSize
    BY DEF Slots
  <2>2. \A i \in 1..TableSize : TableSize - i \in Nat
    BY <1>0
  <2> QED
    BY <2>1, <2>2
<1>2. PICK x \in T : \A y \in T : ~ (<<y, x>> \in LessThan)
  BY <1>1, LessThanWellFounded, WFMin
<1>3. PICK j \in S : x = TableSize - j
  BY <1>2
<1>4. ASSUME NEW i \in S PROVE i <= j
  <2>1. TableSize - i \in T /\ TableSize - i \in Nat
    BY <1>1
  <2>2. x \in Nat /\ (TableSize - i < x => <<TableSize - i, x>> \in LessThan)
    BY <1>1, <2>1 DEF LessThan
  <2>3. ~ (TableSize - i < x)
    BY <1>2, <2>1, <2>2
  <2> QED
    BY <1>0, <1>1, <1>3, <2>2, <2>3
<1> QED
  BY <1>4 DEF Last

\* The sets the table is searched for.
LEMMA SlotsAreNumbers == Slots \subseteq Nat
  BY DhcpArpAssumption DEF Slots

-----------------------------------------------------------------------------
(* What a step of the DHCP server does to the table.                        *)

DhcpTypes ==
  /\ status \in [Slots -> Statuses]
  /\ mac \in [Slots -> Macs \cup {NoMac}]
  /\ ip \in [Slots -> Addresses \cup {0}]
  /\ age \in [Slots -> 0..Word - 1]

\* The entries of other hosts are kept or overwritten, the host has one at most.
OwnEntry(m) ==
  /\ \A i \in Slots : mac'[i] # m => mac'[i] = mac[i] /\ status'[i] = status[i]
  /\ \A i \in Slots : mac[i] # m /\ status[i] = 2
       => /\ mac'[i] = mac[i] /\ status'[i] = 2
          /\ ip'[i] = ip[i] /\ age'[i] = age[i]
  /\ \A i, j \in Slots :
       mac'[i] = m /\ mac'[j] = m /\ status'[i] # 0 /\ status'[j] # 0 => i = j

\* One entry at most per host means that the last one found is the only one.
LEMMA OnlyPrevious ==
  ASSUME DhcpTypes, OneEntryPerMac, mode = "dhcp", NEW m \in Macs,
         Previous(m) # {}
  PROVE  /\ Last(Previous(m)) \in Slots
         /\ mac[Last(Previous(m))] = m /\ status[Last(Previous(m))] # 0
         /\ \A i \in Slots : mac[i] = m /\ status[i] # 0 => i = Last(Previous(m))
<1>1. Last(Previous(m)) \in Previous(m)
  BY LastIn DEF Previous
<1> QED
  BY <1>1 DEF Previous, OneEntryPerMac

\* Released changes the host's own entries only, and stays within the types.
LEMMA ReleasedOwn ==
  ASSUME NEW type, NEW m \in Macs, NEW macs \in [Slots -> Macs \cup {NoMac}],
         NEW stats \in [Slots -> Statuses]
  PROVE  /\ Released(type, m, macs, stats) \in [Slots -> Statuses]
         /\ \A i \in Slots : macs[i] # m => Released(type, m, macs, stats)[i] = stats[i]
         /\ \A i \in Slots : Released(type, m, macs, stats)[i] # 0 => stats[i] # 0
         /\ type # "release" => Released(type, m, macs, stats) = stats
<1>1. CASE type = "release"
  BY <1>1 DEF Released, Statuses
<1>2. CASE type # "release"
  BY <1>2 DEF Released
<1> QED
  BY <1>1, <1>2

LEMMA SetStatusStep ==
  ASSUME DhcpTypes, OneEntryPerMac, mode = "dhcp", NEW type, NEW m \in Macs,
         Previous(m) # {}, NEW s \in Statuses,
         SetStatus(type, m, Last(Previous(m)), s)
  PROVE  DhcpTypes' /\ OwnEntry(m)
<1> DEFINE p == Last(Previous(m))
           stats == [status EXCEPT ![p] = s]
<1>1. p \in Slots /\ mac[p] = m /\ \A i \in Slots : mac[i] = m /\ status[i] # 0 => i = p
  BY OnlyPrevious
<1>2. stats \in [Slots -> Statuses] /\ \A i \in Slots : i # p => stats[i] = status[i]
  BY <1>1 DEF DhcpTypes
<1>3. mac' = mac /\ ip' = ip /\ status' = Released(type, m, mac, stats)
  BY DEF SetStatus
<1>4. age' \in [Slots -> 0..Word - 1] /\ \A i \in Slots : i # p => age'[i] = age[i]
  <2>1. 0 \in 0..Word - 1
    BY DhcpArpAssumption
  <2>2. age' = [age EXCEPT ![p] = IF type = "request" THEN 0 ELSE @]
    BY DEF SetStatus
  <2> QED
    BY <1>1, <2>1, <2>2 DEF DhcpTypes
<1> HIDE DEF p, stats
<1>5. mac \in [Slots -> Macs \cup {NoMac}] /\ ip \in [Slots -> Addresses \cup {0}]
  BY DEF DhcpTypes
<1>6. /\ status' \in [Slots -> Statuses]
      /\ \A i \in Slots : mac[i] # m => status'[i] = stats[i]
      /\ \A i \in Slots : status'[i] # 0 => stats[i] # 0
  <2>1. /\ Released(type, m, mac, stats) \in [Slots -> Statuses]
        /\ \A i \in Slots : mac[i] # m => Released(type, m, mac, stats)[i] = stats[i]
        /\ \A i \in Slots : Released(type, m, mac, stats)[i] # 0 => stats[i] # 0
    BY <1>2, <1>5, ReleasedOwn
  <2> QED
    BY <1>3, <2>1
<1>7. DhcpTypes'
  BY <1>3, <1>4, <1>5, <1>6 DEF DhcpTypes
<1>8. \A i \in Slots : mac[i] # m => i # p /\ status'[i] = status[i]
  BY <1>1, <1>2, <1>6
<1>9. \A i, j \in Slots :
        mac'[i] = m /\ mac'[j] = m /\ status'[i] # 0 /\ status'[j] # 0 => i = j
  <2>1. \A i \in Slots : mac'[i] = m /\ status'[i] # 0 => i = p
    BY <1>1, <1>2, <1>3, <1>6
  <2> QED
    BY <2>1
<1> QED
  BY <1>3, <1>4, <1>7, <1>8, <1>9 DEF OwnEntry

\* NewEntry keeps the types and the entries of others; it starts from statuses
\* in which the host has no entry.
LEMMA NewEntryStep ==
  ASSUME DhcpTypes, NEW type, NEW m \in Macs,
         NEW a \in Addresses \cup {0}, NEW s \in Statuses,
         NEW stats \in [Slots -> Statuses],
         \A i \in Slots : mac[i] = m => stats[i] = 0,
         \A i \in Slots : mac[i] # m => stats[i] = status[i],
         NewEntry(type, m, a, s, stats)
  PROVE  DhcpTypes' /\ OwnEntry(m)
<1> DEFINE places == Places(stats)
<1>1. mac \in [Slots -> Macs \cup {NoMac}] /\ ip \in [Slots -> Addresses \cup {0}]
      /\ age \in [Slots -> 0..Word - 1] /\ status \in [Slots -> Statuses]
  BY DEF DhcpTypes
<1>2. CASE places = {}
  <2>1. UNCHANGED <<mac, ip, age>> /\ status' = Released(type, m, mac, stats)
    BY <1>2 DEF NewEntry
  <2>2. /\ status' \in [Slots -> Statuses]
        /\ \A i \in Slots : mac[i] # m => status'[i] = stats[i]
        /\ \A i \in Slots : status'[i] # 0 => stats[i] # 0
    <3>1. /\ Released(type, m, mac, stats) \in [Slots -> Statuses]
          /\ \A i \in Slots : mac[i] # m => Released(type, m, mac, stats)[i] = stats[i]
          /\ \A i \in Slots : Released(type, m, mac, stats)[i] # 0 => stats[i] # 0
      <4>1. CASE type = "release"
        BY <1>1, <4>1 DEF Released, Statuses
      <4>2. CASE type # "release"
        BY <4>2 DEF Released
      <4> QED
        BY <4>1, <4>2
    <3> QED
      BY <2>1, <3>1
  <2>3. \A i \in Slots : mac'[i] = m => status'[i] = 0
    BY <2>1, <2>2
  <2> QED
    BY <1>1, <2>1, <2>2, <2>3 DEF DhcpTypes, OwnEntry
<1>3. CASE places # {}
  <2> DEFINE p == First(places)
             new == [stats EXCEPT ![p] = s]
  <2>1. p \in Slots /\ stats[p] # 2
    BY <1>3, FirstIn, SlotsAreNumbers DEF Places
  <2>2. /\ mac' = [mac EXCEPT ![p] = m] /\ ip' = [ip EXCEPT ![p] = a]
        /\ age' = [age EXCEPT ![p] = IF s = 2 THEN 0 ELSE @]
        /\ status' = Released(type, m, mac', new)
    BY <1>3 DEF NewEntry
  <2> HIDE DEF places, p
  <2>3. new \in [Slots -> Statuses] /\ \A i \in Slots : i # p => new[i] = stats[i]
    BY <2>1
  <2> HIDE DEF new
  <2>4. /\ mac' \in [Slots -> Macs \cup {NoMac}] /\ mac'[p] = m
        /\ \A i \in Slots : i # p => mac'[i] = mac[i]
    BY <1>1, <2>1, <2>2
  <2>5. /\ ip' \in [Slots -> Addresses \cup {0}]
        /\ \A i \in Slots : i # p => ip'[i] = ip[i]
    BY <1>1, <2>1, <2>2
  <2>6. /\ age' \in [Slots -> 0..Word - 1]
        /\ \A i \in Slots : i # p => age'[i] = age[i]
    <3>1. 0 \in 0..Word - 1
      BY DhcpArpAssumption
    <3> QED
      BY <1>1, <2>1, <2>2, <3>1
  <2>7. /\ status' \in [Slots -> Statuses]
        /\ \A i \in Slots : mac'[i] # m => status'[i] = new[i]
        /\ \A i \in Slots : status'[i] # 0 => new[i] # 0
    <3>1. mac' \in [Slots -> Macs \cup {NoMac}]
      BY <2>4
    <3>2. status' = Released(type, m, mac', new)
      BY <2>2
    <3>3. /\ Released(type, m, mac', new) \in [Slots -> Statuses]
          /\ \A i \in Slots : mac'[i] # m => Released(type, m, mac', new)[i] = new[i]
          /\ \A i \in Slots : Released(type, m, mac', new)[i] # 0 => new[i] # 0
      <4>1. CASE type = "release"
        BY <2>3, <3>1, <4>1 DEF Released, Statuses
      <4>2. CASE type # "release"
        BY <2>3, <4>2 DEF Released
      <4> QED
        BY <4>1, <4>2
    <3> QED
      BY <3>2, <3>3
  <2>8. DhcpTypes'
    BY <2>4, <2>5, <2>6, <2>7 DEF DhcpTypes
  <2>9. ASSUME NEW i \in Slots, mac[i] # m, i # p
        PROVE  mac'[i] = mac[i] /\ status'[i] = status[i] /\ ip'[i] = ip[i] /\ age'[i] = age[i]
    BY <2>3, <2>4, <2>5, <2>6, <2>7, <2>9
  <2>10. \A i \in Slots : mac'[i] = m /\ status'[i] # 0 => i = p
    BY <2>3, <2>4, <2>7
  <2>11. mac[p] # m => status[p] # 2
    BY <2>1
  <2> QED
    BY <2>4, <2>8, <2>9, <2>10, <2>11 DEF OwnEntry
<1> QED
  BY <1>2, <1>3

\* Any step of the DHCP server leaves the entries of other hosts alone.
LEMMA DhcpStep ==
  ASSUME DhcpTypes, range \in SUBSET Addresses, OneEntryPerMac,
         NEW type \in Types, NEW m \in Macs,
         NEW a \in Addresses \cup {0}, DHCP_server(type, m, a)
  PROVE  DhcpTypes' /\ OwnEntry(m)
<1>0. mode = "dhcp" /\ NewStatuses(type) \subseteq Statuses /\ 1 \in Statuses /\ 2 \in Statuses
  BY DEF DHCP_server, NewStatuses, Types, Statuses
<1> DEFINE p == Last(Previous(m))
<1>1. ASSUME Previous(m) = {}
      PROVE  \A i \in Slots : mac[i] = m => status[i] = 0
  BY <1>1 DEF Previous
<1>t. status \in [Slots -> Statuses] /\ mac \in [Slots -> Macs \cup {NoMac}]
  BY DEF DhcpTypes
<1>2. CASE NewLease(type, m, a)
  <2>1. PICK s \in NewStatuses(type) : NewEntry(type, m, a, s, status)
    BY <1>2 DEF NewLease
  <2>2. Previous(m) = {}
    BY <1>2 DEF NewLease
  <2> QED
    BY <1>0, <1>1, <1>t, <2>1, <2>2, NewEntryStep
<1>3. CASE OtherLease(type, m, a)
  <2> DEFINE stats == [status EXCEPT ![p] = 0]
  <2>1. PICK s \in NewStatuses(type) : NewEntry(type, m, a, s, stats)
    BY <1>3 DEF OtherLease
  <2>2. p \in Slots /\ mac[p] = m /\ \A i \in Slots : mac[i] = m /\ status[i] # 0 => i = p
    BY <1>0, <1>3, OnlyPrevious DEF OtherLease
  <2>3. stats \in [Slots -> Statuses] /\ (\A i \in Slots : mac[i] = m => stats[i] = 0)
        /\ \A i \in Slots : mac[i] # m => stats[i] = status[i]
    <3>1. 0 \in Statuses
      BY DEF Statuses
    <3> QED
      BY <1>t, <2>2, <3>1
  <2> HIDE DEF stats
  <2> QED
    BY <1>0, <2>1, <2>3, NewEntryStep
<1>4. CASE SameLease(type, m, a)
  <2>1. PICK s \in NewStatuses(type) : SetStatus(type, m, p, s)
    BY <1>4 DEF SameLease
  <2> QED
    BY <1>0, <1>4, <2>1, SetStatusStep DEF SameLease
<1>5. CASE type = "discover" /\ OfferPrevious(m, a)
  BY <1>0, <1>5, SetStatusStep DEF OfferPrevious
<1>6. CASE type = "discover" /\ OfferFree(m, a)
  <2>1. First(FreeAddresses) \in Addresses
    <3>1. FreeAddresses \in SUBSET Nat /\ FreeAddresses # {} /\ FreeAddresses \subseteq Addresses
      BY <1>6, DhcpArpAssumption DEF OfferFree, FreeAddresses
    <3> QED
      BY <3>1, FirstIn
  <2>2. NewEntry("discover", m, First(FreeAddresses), 1, status) /\ Previous(m) = {}
    BY <1>6 DEF OfferFree
  <2> QED
    BY <1>0, <1>1, <1>t, <2>1, <2>2, NewEntryStep
<1>7. CASE type # "discover" /\ MatchOnly(type, m, a)
  <2> DEFINE s == IF type = "request" THEN 2 ELSE status[p]
  <2>1. SetStatus(type, m, p, s) /\ Previous(m) # {}
    BY <1>7 DEF MatchOnly
  <2>2. p \in Slots
    BY <1>0, <2>1, OnlyPrevious
  <2>3. s \in Statuses
    BY <1>0, <1>t, <2>2
  <2> HIDE DEF s
  <2> QED
    BY <1>0, <2>1, <2>3, SetStatusStep
<1>8. CASE Refuse(type, m, a)
  <2>1. UNCHANGED <<mac, ip, age>> /\ status' = Released(type, m, mac, status)
    BY <1>8 DEF Refuse
  <2>2. /\ status' \in [Slots -> Statuses]
        /\ \A i \in Slots : mac[i] # m => status'[i] = status[i]
        /\ \A i \in Slots : status'[i] # 0 => status[i] # 0
    <3>1. /\ Released(type, m, mac, status) \in [Slots -> Statuses]
          /\ \A i \in Slots : mac[i] # m => Released(type, m, mac, status)[i] = status[i]
          /\ \A i \in Slots : Released(type, m, mac, status)[i] # 0 => status[i] # 0
      BY <1>t, ReleasedOwn
    <3> QED
      BY <2>1, <3>1
  <2>3. \A i, j \in Slots :
          mac'[i] = m /\ mac'[j] = m /\ status'[i] # 0 /\ status'[j] # 0 => i = j
    BY <1>0, <2>1, <2>2 DEF OneEntryPerMac
  <2> QED
    BY <2>1, <2>2, <2>3 DEF DhcpTypes, OwnEntry
<1> QED
  BY <1>2, <1>3, <1>4, <1>5, <1>6, <1>7, <1>8 DEF DHCP_server

-----------------------------------------------------------------------------
(* Types and entries.                                                       *)

Leases == [address : Addresses \cup {0}, left : 0..Timeout, booked : BOOLEAN]

EntriesOwned == \A i \in Slots : status[i] # 0 => mac[i] \in Macs

TableInv == LanTypeOK /\ OneEntryPerMac /\ EntriesOwned

LEMMA TypesDhcp ==
  ASSUME LanTypeOK
  PROVE  DhcpTypes /\ range \in SUBSET Addresses
  BY DhcpArpAssumption DEF LanTypeOK, DhcpTypes

\* What a message does to the leases: the host's is started, ended, or left as
\* it is.
Answered(type, m, a) ==
  \/ type = "request" /\ \E room \in BOOLEAN : granted' = Grant(m, a, room)
  \/ granted' = Without(m)
  \/ type = "inform" /\ granted' = granted

LEMMA DhcpAnswers ==
  ASSUME NEW type, NEW m, NEW a, DHCP_server(type, m, a)
  PROVE  Answered(type, m, a)
<1>1. \A room \in BOOLEAN :
        granted' = Agree(type, m, a, room) => Answered(type, m, a)
  BY DEF Agree, Answered
<1>2. granted' = Deny(type, m) => Answered(type, m, a)
  BY DEF Deny, Answered
<1>3. (Places(status) # {}) \in BOOLEAN
  OBVIOUS
<1>4. CASE NewLease(type, m, a)
  BY <1>1, <1>3, <1>4 DEF NewLease
<1>5. CASE OtherLease(type, m, a) \/ SameLease(type, m, a)
  BY <1>1, <1>5 DEF OtherLease, SameLease
<1>6. CASE OfferPrevious(m, a) \/ OfferFree(m, a)
  BY <1>6 DEF OfferPrevious, OfferFree, Answered
<1>7. CASE MatchOnly(type, m, a)
  BY <1>2, <1>7 DEF MatchOnly, Answered
<1>8. CASE Refuse(type, m, a)
  BY <1>2, <1>8 DEF Refuse
<1> QED
  BY <1>4, <1>5, <1>6, <1>7, <1>8 DEF DHCP_server

\* Answers keep the leases' type and those of other hosts.
LEMMA LeaseTypes ==
  ASSUME LanTypeOK, NEW type, NEW m \in Macs, NEW a \in Addresses \cup {0},
         Answered(type, m, a)
  PROVE  /\ granted' \in [Macs -> Leases]
         /\ \A n \in Macs : n # m => granted'[n] = granted[n]
         /\ \/ /\ type = "request"
               /\ \E room \in BOOLEAN :
                    granted'[m] = [address |-> a, left |-> Timeout, booked |-> room]
            \/ granted'[m] = NoLease
            \/ type = "inform" /\ granted'[m] = granted[m] /\ granted' = granted
<1>1. NoLease \in Leases
  BY DEF NoLease, Timeout, Leases
<1>2. \A room \in BOOLEAN : [address |-> a, left |-> Timeout, booked |-> room] \in Leases
  BY DEF Timeout, Leases
<1>4. granted \in [Macs -> Leases]
  BY DEF LanTypeOK, Leases
<1>5. CASE granted' = Without(m)
  BY <1>1, <1>4, <1>5 DEF Without
<1>6. CASE type = "inform" /\ granted' = granted
  BY <1>4, <1>6
<1>7. CASE type = "request" /\ \E room \in BOOLEAN : granted' = Grant(m, a, room)
  <2>1. PICK room \in BOOLEAN : granted' = Grant(m, a, room)
    BY <1>7
  <2> DEFINE l == [address |-> a, left |-> Timeout, booked |-> room]
  <2>2. l \in Leases /\ granted' = [granted EXCEPT ![m] = l]
    BY <1>2, <2>1 DEF Grant
  <2>3. granted'[m] = l /\ granted' \in [Macs -> Leases]
        /\ \A n \in Macs : n # m => granted'[n] = granted[n]
    <3> HIDE DEF l
    <3> QED
      BY <1>4, <2>2
  <2> QED
    BY <1>7, <2>3
<1> QED
  BY <1>5, <1>6, <1>7 DEF Answered

\* A message to the DHCP server keeps the invariant.
LEMMA DhcpKeeps ==
  ASSUME TableInv, NEW type \in Types, NEW m \in Macs,
         NEW a \in Addresses \cup {0}, DHCP_server(type, m, a)
  PROVE  TableInv'
<1>1. DhcpTypes' /\ OwnEntry(m)
  BY DhcpStep, TypesDhcp DEF TableInv
<1>2. Answered(type, m, a)
  BY DhcpAnswers
<1>3. UNCHANGED <<mode, range, lanVars>> /\ mode = "dhcp"
  BY DEF DHCP_server
<1>4. LanTypeOK'
  <2>1. granted' \in [Macs -> Leases]
    BY <1>2, LeaseTypes DEF TableInv
  <2> QED
    BY <1>1, <1>3, <2>1 DEF TableInv, LanTypeOK, DhcpTypes, lanVars, Leases
<1>5. OneEntryPerMac'
  <2> SUFFICES ASSUME NEW i \in Slots, NEW j \in Slots,
                      status'[i] # 0, status'[j] # 0, mac'[i] = mac'[j]
               PROVE  i = j
    BY DEF OneEntryPerMac
  <2>1. CASE mac'[i] = m
    BY <1>1, <2>1 DEF OwnEntry
  <2>2. CASE mac'[i] # m
    <3>1. mac'[i] = mac[i] /\ status'[i] = status[i] /\ mac'[j] = mac[j] /\ status'[j] = status[j]
      BY <1>1, <2>2 DEF OwnEntry
    <3> QED
      BY <1>3, <3>1 DEF TableInv, OneEntryPerMac
  <2> QED
    BY <2>1, <2>2
<1>6. EntriesOwned'
  <2> SUFFICES ASSUME NEW i \in Slots, status'[i] # 0, mac'[i] # m
               PROVE  mac'[i] \in Macs
    BY DEF EntriesOwned
  <2> QED
    BY <1>1 DEF OwnEntry, TableInv, EntriesOwned
<1> QED
  BY <1>4, <1>5, <1>6 DEF TableInv

\* A frame from the radio changes nothing but the waiting frame and the requests.
LEMMA FromRadioKeeps ==
  ASSUME TableInv, NEW a \in Addresses, FromRadio(a)
  PROVE  TableInv'
<1> DEFINE known == Known(status, ip, a)
<1>1. UNCHANGED <<mode, range, status, mac, ip, age, granted, owner>>
  BY DEF FromRadio, tableVars
<1>2. known # {} => mac[Last(known)] \in Macs \cup {NoMac}
  <2>1. known # {} => Last(known) \in Slots
    BY LastIn DEF Known
  <2> QED
    BY <2>1 DEF TableInv, LanTypeOK
<1>3. sent' \in {sent, [sent EXCEPT ![a] = mac[Last(known)]]}
      /\ (sent' # sent => known # {})
  BY DEF FromRadio
<1> HIDE DEF known
<1>4. sent' \in [Addresses -> Macs \cup {NoMac}]
  BY <1>2, <1>3 DEF TableInv, LanTypeOK
<1>5. asked' \subseteq Addresses /\ waiting' \in Addresses \cup {0}
  BY DEF FromRadio, TableInv, LanTypeOK
<1> QED
  BY <1>1, <1>4, <1>5 DEF TableInv, LanTypeOK, OneEntryPerMac, EntriesOwned

\* A reply writes one entry at most, with the host that has the address.
LEMMA ArpReplyKeeps ==
  ASSUME TableInv, NEW a \in Addresses, NEW addressed \in BOOLEAN,
         ArpReply(a, addressed)
  PROVE  TableInv'
<1>1. mode = "arp" /\ UNCHANGED <<mode, range, granted, owner>> /\ owner[a] \in Macs
  BY DEF ArpReply, TableInv, LanTypeOK
<1>2. /\ status' \in [Slots -> Statuses]
      /\ mac' \in [Slots -> Macs \cup {NoMac}]
      /\ ip' \in [Slots -> Addresses \cup {0}]
      /\ age' \in [Slots -> 0..Word - 1]
      /\ EntriesOwned'
  <2>1. CASE ~addressed \/ Entry(a) = {}
    BY <2>1 DEF ArpReply, tableVars, TableInv, LanTypeOK, EntriesOwned
  <2>2. CASE addressed /\ Entry(a) # {}
    <3> DEFINE p == Last(Entry(a))
    <3>1. /\ mac' = [mac EXCEPT ![p] = owner[a]] /\ status' = [status EXCEPT ![p] = 2]
          /\ ip' = [ip EXCEPT ![p] = a] /\ age' = [age EXCEPT ![p] = 0]
      BY <2>2 DEF ArpReply
    <3> HIDE DEF p
    <3>2. 0 \in 0..Word - 1 /\ 2 \in Statuses
      BY DhcpArpAssumption DEF Statuses
    <3>3. /\ status' \in [Slots -> Statuses] /\ mac' \in [Slots -> Macs \cup {NoMac}]
          /\ ip' \in [Slots -> Addresses \cup {0}]
      BY <1>1, <3>1, <3>2 DEF TableInv, LanTypeOK
    <3>4. age' \in [Slots -> 0..Word - 1]
      BY <3>1, <3>2 DEF TableInv, LanTypeOK
    <3>5. ASSUME NEW i \in Slots, status'[i] # 0
          PROVE  mac'[i] \in Macs
      <4>1. status \in [Slots -> Statuses] /\ mac \in [Slots -> Macs \cup {NoMac}]
        BY DEF TableInv, LanTypeOK
      <4>2. CASE i = p
        BY <1>1, <3>1, <4>1, <4>2
      <4>3. CASE i # p
        BY <3>1, <3>5, <4>1, <4>3 DEF TableInv, EntriesOwned
      <4> QED
        BY <4>2, <4>3
    <3> QED
      BY <3>3, <3>4, <3>5 DEF EntriesOwned
  <2> QED
    BY <2>1, <2>2
<1>3. asked' \subseteq Addresses /\ waiting' = 0
      /\ sent' \in [Addresses -> Macs \cup {NoMac}]
  <2> DEFINE known == Known(status', ip', a)
  <2>1. known # {} => Last(known) \in Slots
    BY LastIn DEF Known
  <2>2. known # {} => mac'[Last(known)] \in Macs \cup {NoMac}
    BY <1>2, <2>1
  <2>3. /\ waiting' = 0
        /\ asked' \in {asked, asked \ {a}, asked \cup {a}, (asked \ {a}) \cup {a}}
    BY DEF ArpReply, Flush
  <2>4. \E m \in Macs \cup {NoMac} : sent' \in {sent, [sent EXCEPT ![a] = m]}
    BY <2>2 DEF ArpReply, Flush
  <2> QED
    BY <2>3, <2>4 DEF TableInv, LanTypeOK
<1> QED
  BY <1>1, <1>2, <1>3 DEF TableInv, LanTypeOK, OneEntryPerMac

\* Time only lets entries expire.
LEMMA PeriodicKeeps ==
  ASSUME TableInv, Periodic
  PROVE  TableInv'
<1>1. UNCHANGED <<mode, range, mac, ip, lanVars>>
  BY DEF Periodic
<1>2. age' \in [Slots -> 0..Word - 1]
  <2>1. \A i \in Slots : age[i] \in Nat
    BY DhcpArpAssumption DEF TableInv, LanTypeOK
  <2>2. \A n \in Nat : (n + 1) % Word \in 0..Word - 1
    BY DhcpArpAssumption
  <2> QED
    BY <2>1, <2>2 DEF Periodic, Aged
<1>3. status \in [Slots -> Statuses] /\ 3 \in Statuses
  BY DEF TableInv, LanTypeOK, Statuses
<1>4. status' \in [Slots -> Statuses] /\ \A i \in Slots : status'[i] # 0 => status[i] # 0
  BY <1>3 DEF Periodic, Expired
<1>5. granted' \in [Macs -> Leases]
  <2> SUFFICES ASSUME NEW m \in Macs
               PROVE  (IF granted[m].left > 1 THEN [granted[m] EXCEPT !.left = @ - 1] ELSE NoLease)
                        \in Leases
    BY DEF Periodic
  <2>1. granted[m] \in Leases
    BY DEF TableInv, LanTypeOK, Leases
  <2>2. NoLease \in Leases
    BY DEF NoLease, Timeout, Leases
  <2> QED
    BY <2>1, <2>2 DEF Timeout, Leases
<1> QED
  BY <1>1, <1>2, <1>4, <1>5 DEF TableInv, LanTypeOK, OneEntryPerMac, EntriesOwned, lanVars, Leases

\* A reset leaves a table without entries.
LEMMA LanResetKeeps ==
  ASSUME TableInv, NEW r \in Ranges, LanReset(r)
  PROVE  TableInv'
<1>1. UNCHANGED <<mode, mac, ip, age, lanVars>> /\ range' = r
  BY DEF LanReset
<1>2. status' = [i \in Slots |-> 0] /\ 0 \in Statuses
  BY DEF LanReset, Statuses
<1>3. granted' \in [Macs -> Leases]
  BY DEF LanReset, NoLease, Timeout, Leases
<1> QED
  BY <1>1, <1>2, <1>3 DEF TableInv, LanTypeOK, OneEntryPerMac, EntriesOwned, lanVars, Leases

\* The types, one entry per host and an owner for each entry, whatever happens.
THEOREM TableInvariant == Spec => []TableInv
<1>1. Init => TableInv
  <2> SUFFICES ASSUME Init PROVE TableInv
    OBVIOUS
  <2>1. 0 \in 0..Word - 1 /\ 0 \in Statuses
    BY DhcpArpAssumption DEF Statuses
  <2>2. owner \in [Addresses -> Macs]
    BY DhcpArpAssumption DEF Init
  <2>3. granted \in [Macs -> Leases]
    BY DEF Init, NoLease, Timeout, Leases
  <2>r. range \in Ranges \cup {Addresses}
    BY DEF Init
  <2>4. LanTypeOK
    BY <2>r, <2>1, <2>2, <2>3 DEF Init, LanTypeOK, Leases
  <2> QED
    BY <2>4 DEF Init, TableInv, OneEntryPerMac, EntriesOwned
<1>2. TableInv /\ [Next]_vars => TableInv'
  <2> SUFFICES ASSUME TableInv, [Next]_vars PROVE TableInv'
    OBVIOUS
  <2>1. CASE UNCHANGED vars
    BY <2>1 DEF vars, tableVars, lanVars, TableInv, LanTypeOK, OneEntryPerMac, EntriesOwned
  <2>2. ASSUME NEW type \in Types, NEW m \in Macs, NEW a \in Addresses \cup {0},
               DHCP_server(type, m, a)
        PROVE  TableInv'
    BY <2>2, DhcpKeeps
  <2>3. ASSUME NEW a \in Addresses, FromRadio(a) PROVE TableInv'
    BY <2>3, FromRadioKeeps
  <2>4. ASSUME NEW a \in Addresses, NEW addressed \in BOOLEAN, ArpReply(a, addressed)
        PROVE  TableInv'
    BY <2>4, ArpReplyKeeps
  <2>5. ASSUME NEW a \in Addresses, LoseReply(a) PROVE TableInv'
    BY <2>5 DEF LoseReply, tableVars, TableInv, LanTypeOK, OneEntryPerMac, EntriesOwned
  <2>6. ASSUME NEW a \in Addresses, NEW m \in Stations, Move(a, m) PROVE TableInv'
    BY <2>6, DhcpArpAssumption
       DEF Move, tableVars, TableInv, LanTypeOK, OneEntryPerMac, EntriesOwned
  <2>7. CASE Periodic
    BY <2>7, PeriodicKeeps
  <2>8. ASSUME NEW r \in Ranges, LanReset(r) PROVE TableInv'
    BY <2>8, LanResetKeeps
  <2> QED
    BY <2>1, <2>2, <2>3, <2>4, <2>5, <2>6, <2>7, <2>8 DEF Next
<1> QED
  BY <1>1, <1>2, PTL DEF Spec

\* The table, the leases and the waiting frame keep their types.
THEOREM LanTypes == Spec => []LanTypeOK
<1>1. TableInv => LanTypeOK
  BY DEF TableInv
<1> QED
  BY <1>1, TableInvariant, PTL

\* The DHCP server never has two entries of a host.
THEOREM HostsHaveOneEntry == Spec => []OneEntryPerMac
<1>1. TableInv => OneEntryPerMac
  BY DEF TableInv
<1> QED
  BY <1>1, TableInvariant, PTL

-----------------------------------------------------------------------------
(* Leases.  An entry is no older than the lease it stands for.               *)

Holds(i, m) ==
  /\ status[i] = 2 /\ mac[i] = m /\ ip[i] = granted[m].address
  /\ age[i] + granted[m].left <= Timeout

LeaseInv ==
  \A m \in Macs : granted[m].booked =>
    mode = "dhcp" /\ \E i \in Slots : Holds(i, m)

\* NewEntry for a request, with a place left, makes the entry of the lease.
LEMMA NewEntryMade ==
  ASSUME TableInv, NEW m \in Macs, NEW a \in Addresses \cup {0},
         NEW stats \in [Slots -> Statuses], Places(stats) # {},
         NewEntry("request", m, a, 2, stats)
  PROVE  \E i \in Slots : status'[i] = 2 /\ mac'[i] = m /\ ip'[i] = a /\ age'[i] = 0
<1> DEFINE places == Places(stats)
           p == First(places)
<1>1. p \in Slots /\ places # {}
  BY FirstIn, SlotsAreNumbers DEF Places
<1>2. /\ mac' = [mac EXCEPT ![p] = m] /\ ip' = [ip EXCEPT ![p] = a]
      /\ age' = [age EXCEPT ![p] = 0]
      /\ status' = [stats EXCEPT ![p] = 2]
  BY <1>1 DEF NewEntry, Released
<1> HIDE DEF p, places
<1> QED
  BY <1>1, <1>2 DEF TableInv, LanTypeOK

\* After a message, the host has a booked lease only with the fresh entry for it,
\* or because the message changed nothing.
LEMMA OwnLease ==
  ASSUME TableInv, NEW type \in Types, NEW m \in Macs,
         NEW a \in Addresses \cup {0}, DHCP_server(type, m, a),
         granted'[m].booked
  PROVE  \/ /\ granted'[m].address = a /\ granted'[m].left = Timeout
            /\ \E i \in Slots : status'[i] = 2 /\ mac'[i] = m /\ ip'[i] = a /\ age'[i] = 0
         \/ granted'[m] = granted[m] /\ UNCHANGED tableVars
<1>1. mode = "dhcp"
  BY DEF DHCP_server
<1>3. granted \in [Macs -> Leases] /\ ~NoLease.booked
  BY DEF NoLease, TableInv, LanTypeOK, Leases
<1>2. granted' # Without(m)
  BY <1>3 DEF Without
<1>t. status \in [Slots -> Statuses] /\ mac \in [Slots -> Macs \cup {NoMac}]
  BY DEF TableInv, LanTypeOK
<1> DEFINE p == Last(Previous(m))
<1>p. ASSUME Previous(m) # {}
      PROVE  p \in Slots /\ mac[p] = m
             /\ \A i \in Slots : mac[i] = m /\ status[i] # 0 => i = p
  BY <1>1, <1>p, OnlyPrevious, TypesDhcp DEF TableInv
<1>s. ASSUME type = "request", Previous(m) # {}, SetStatus(type, m, p, 2), ip[p] = a
      PROVE  status'[p] = 2 /\ mac'[p] = m /\ ip'[p] = a /\ age'[p] = 0
  <2>1. p \in Slots /\ mac[p] = m
    BY <1>p, <1>s
  <2> HIDE DEF p
  <2> QED
    BY <1>s, <1>t, <2>1 DEF SetStatus, Released, TableInv, LanTypeOK
<1>r. CASE type = "request"
  <2>4. granted'[m].address = a /\ granted'[m].left = Timeout
    <3>1. Answered(type, m, a)
      BY DhcpAnswers
    <3>2. PICK room \in BOOLEAN :
            granted'[m] = [address |-> a, left |-> Timeout, booked |-> room]
      <4>1. LanTypeOK
        BY DEF TableInv
      <4>2. granted'[m] # NoLease
        BY <1>3
      <4>3. \/ \E room \in BOOLEAN :
                 granted'[m] = [address |-> a, left |-> Timeout, booked |-> room]
            \/ granted'[m] = NoLease
            \/ type = "inform"
        BY <3>1, <4>1, LeaseTypes
      <4> QED
        BY <1>r, <4>2, <4>3
    <3> QED
      BY <3>2
  <2>5. NewStatuses(type) = {2}
    BY <1>r DEF NewStatuses
  <2>6. CASE NewLease(type, m, a)
    <3>1. NewEntry("request", m, a, 2, status)
      BY <1>r, <2>5, <2>6 DEF NewLease
    <3>2. Places(status) # {}
      <4>1. granted' = [granted EXCEPT ![m] = [address |-> a, left |-> Timeout,
                                               booked |-> Places(status) # {}]]
        BY <1>r, <2>6 DEF NewLease, Agree, Grant
      <4>2. granted'[m].booked = (Places(status) # {})
        BY <1>3, <4>1
      <4> QED
        BY <4>2
    <3> QED
      BY <1>t, <2>4, <3>1, <3>2, NewEntryMade
  <2>7. CASE OtherLease(type, m, a)
    <3> DEFINE stats == [status EXCEPT ![p] = 0]
    <3>1. NewEntry("request", m, a, 2, stats)
      BY <1>r, <2>5, <2>7 DEF OtherLease
    <3>2. p \in Slots
      BY <2>7, <1>p DEF OtherLease
    <3>3. stats \in [Slots -> Statuses] /\ stats[p] # 2
      <4>1. 0 \in Statuses
        BY DEF Statuses
      <4> QED
        BY <1>t, <3>2, <4>1
    <3> HIDE DEF stats
    <3>4. Places(stats) # {}
      BY <3>2, <3>3 DEF Places
    <3>5. \E i \in Slots : status'[i] = 2 /\ mac'[i] = m /\ ip'[i] = a /\ age'[i] = 0
      BY <3>1, <3>3, <3>4, NewEntryMade
    <3> QED
      BY <2>4, <3>5
  <2>8. CASE SameLease(type, m, a)
    BY <2>4, <2>5, <2>8, <1>s, <1>r, <1>p DEF SameLease
  <2>9. CASE MatchOnly(type, m, a)
    BY <2>4, <2>9, <1>s, <1>r, <1>p DEF MatchOnly
  <2>10. CASE Refuse(type, m, a)
    BY <1>2, <1>r, <2>10 DEF Refuse, Deny
  <2> QED
    BY <1>r, <2>6, <2>7, <2>8, <2>9, <2>10 DEF DHCP_server
<1>i. CASE type = "inform"
  <2>1. \A stats : Released(type, m, mac, stats) = stats
    BY <1>i DEF Released
  <2>2. ASSUME MatchOnly(type, m, a) \/ Refuse(type, m, a) PROVE UNCHANGED tableVars
    <3>1. CASE MatchOnly(type, m, a)
      <4>1. SetStatus(type, m, p, status[p]) /\ p \in Slots
        BY <1>i, <1>p, <3>1 DEF MatchOnly
      <4>2. status' = [status EXCEPT ![p] = status[p]] /\ age' = [age EXCEPT ![p] = @]
            /\ mac' = mac /\ ip' = ip
        BY <1>i, <2>1, <4>1 DEF SetStatus
      <4>3. age \in [Slots -> 0..Word - 1]
        BY DEF TableInv, LanTypeOK
      <4> HIDE DEF p
      <4> QED
        BY <1>t, <4>1, <4>2, <4>3 DEF tableVars
    <3>2. CASE Refuse(type, m, a)
      BY <2>1, <3>2 DEF Refuse, tableVars
    <3> QED
      BY <2>2, <3>1, <3>2
  <2>3. MatchOnly(type, m, a) \/ Refuse(type, m, a)
    BY <1>2, <1>i DEF DHCP_server, NewLease, OtherLease, SameLease, Agree
  <2>4. granted' = granted
    BY <1>2, <1>i, DhcpAnswers DEF Answered
  <2> QED
    BY <2>2, <2>3, <2>4
<1>o. CASE type \in {"discover", "release"}
  BY <1>2, <1>o, DhcpAnswers DEF Answered
<1> QED
  BY <1>r, <1>i, <1>o DEF Types

\* Whatever hosts ask for, and however few places there are for them, the server
\* keeps the entry of a lease it wrote down as long as the lease lasts, or until a
\* reset by the master clears the table.
THEOREM LeasesAreKept == Spec => []LeasesKept
<1>1. Init => LeaseInv
  BY DEF Init, LeaseInv, NoLease
<1>2. TableInv /\ LeaseInv /\ [Next]_vars => LeaseInv'
  <2> SUFFICES ASSUME TableInv, LeaseInv, [Next]_vars, NEW m \in Macs,
                      granted'[m].booked
               PROVE  mode' = "dhcp" /\ \E i \in Slots : Holds(i, m)'
    BY DEF LeaseInv
  <2>1. CASE UNCHANGED <<mode, tableVars, granted>>
    BY <2>1 DEF tableVars, LeaseInv, Holds
  <2>2. ASSUME NEW type \in Types, NEW n \in Macs, NEW a \in Addresses \cup {0},
               DHCP_server(type, n, a)
        PROVE  mode' = "dhcp" /\ \E i \in Slots : Holds(i, m)'
    <3>1. mode = "dhcp" /\ mode' = mode
      BY <2>2 DEF DHCP_server
    <3>2. CASE m = n
      <4>1. CASE granted'[m] = granted[m] /\ UNCHANGED tableVars
        BY <3>1, <4>1 DEF tableVars, LeaseInv, Holds
      <4>2. CASE /\ granted'[m].address = a /\ granted'[m].left = Timeout
                 /\ \E i \in Slots : status'[i] = 2 /\ mac'[i] = m
                                     /\ ip'[i] = a /\ age'[i] = 0
        BY <3>1, <4>2 DEF Holds, Timeout
      <4> QED
        BY <2>2, <3>2, <4>1, <4>2, OwnLease
    <3>3. CASE m # n
      <4>1. Answered(type, n, a)
        BY <2>2, DhcpAnswers
      <4>2. granted'[m] = granted[m]
        BY <3>3, <4>1, LeaseTypes DEF TableInv
      <4>3. PICK i \in Slots : Holds(i, m)
        BY <4>2 DEF LeaseInv
      <4>4. OwnEntry(n)
        BY <2>2, DhcpStep, TypesDhcp DEF TableInv
      <4>5. mac'[i] = mac[i] /\ status'[i] = 2 /\ ip'[i] = ip[i] /\ age'[i] = age[i]
        BY <3>3, <4>3, <4>4 DEF OwnEntry, Holds
      <4> QED
        BY <3>1, <4>2, <4>3, <4>5 DEF Holds
    <3> QED
      BY <3>2, <3>3
  <2>3. ASSUME NEW a \in Addresses, NEW addressed \in BOOLEAN, ArpReply(a, addressed)
        PROVE  mode' = "dhcp" /\ \E i \in Slots : Holds(i, m)'
    BY <2>3 DEF ArpReply, LeaseInv
  <2>4. CASE Periodic
    <3>1. granted'[m] = IF granted[m].left > 1 THEN [granted[m] EXCEPT !.left = @ - 1] ELSE NoLease
      BY <2>4 DEF Periodic
    <3>2. granted[m] \in Leases
      BY DEF TableInv, LanTypeOK, Leases
    <3>3. /\ granted[m].left > 1 /\ granted'[m].address = granted[m].address
          /\ granted'[m].left = granted[m].left - 1 /\ granted[m].booked
      <4>1. ~NoLease.booked
        BY DEF NoLease
      <4>2. granted[m].left > 1
        BY <3>1, <4>1
      <4>3. granted'[m] = [granted[m] EXCEPT !.left = @ - 1]
        BY <3>1, <4>2
      <4> QED
        BY <3>2, <4>2, <4>3 DEF Leases
    <3>4. granted[m].left \in 0..Timeout
      BY <3>2 DEF Leases
    <3>5. PICK i \in Slots : Holds(i, m) /\ mode = "dhcp"
      BY <3>3, <3>4 DEF LeaseInv, Timeout
    <3>6. age[i] \in Nat /\ age[i] + granted[m].left <= 2
      BY <3>5, DhcpArpAssumption DEF Holds, Timeout, TableInv, LanTypeOK
    <3>7. Word \in Nat /\ Word > 3
      BY DhcpArpAssumption
    <3>8. age[i] = 0 /\ granted[m].left = 2
      BY <3>3, <3>4, <3>6 DEF Timeout
    <3>9. Aged[i] = 1
      BY <3>7, <3>8 DEF Aged
    <3>10. age'[i] = 1 /\ status'[i] = 2
      BY <2>4, <3>5, <3>9 DEF Periodic, Expired, Timeout, Holds
    <3> QED
      BY <2>4, <3>3, <3>5, <3>8, <3>10 DEF Periodic, Holds, Timeout
  <2>5. CASE \E a \in Addresses : FromRadio(a) \/ LoseReply(a)
    BY <2>1, <2>5 DEF FromRadio, LoseReply
  <2>6. CASE \E a \in Addresses, n \in Stations : Move(a, n)
    BY <2>1, <2>6 DEF Move
  <2>7. CASE \E r \in Ranges : LanReset(r)
    BY <2>7 DEF LanReset, NoLease
  <2> QED
    BY <2>1, <2>2, <2>3, <2>4, <2>5, <2>6, <2>7 DEF Next, vars
<1>3. LeaseInv => LeasesKept
  BY DEF LeaseInv, LeasesKept, Holds
<1> QED
  BY <1>1, <1>2, <1>3, TableInvariant, PTL DEF Spec

-----------------------------------------------------------------------------
(* The range.  No entry outlives the range its address was taken from.       *)

EntriesInRange == \A i \in Slots : status[i] # 0 => ip[i] \in range

RangeInv ==
  /\ mode = "dhcp" => EntriesInRange
  /\ \A m \in Macs : granted[m].left > 0 => mode = "dhcp" /\ granted[m].address \in range

\* A new entry has the address it is made for.
LEMMA NewEntryInRange ==
  ASSUME DhcpTypes, NEW type, NEW m \in Macs, NEW a \in range, NEW s \in Statuses,
         NEW stats \in [Slots -> Statuses],
         \A i \in Slots : stats[i] # 0 => ip[i] \in range,
         NewEntry(type, m, a, s, stats)
  PROVE  \A i \in Slots : status'[i] # 0 => ip'[i] \in range
<1> DEFINE places == Places(stats)
<1>1. mac \in [Slots -> Macs \cup {NoMac}] /\ ip \in [Slots -> Addresses \cup {0}]
  BY DEF DhcpTypes
<1>2. CASE places = {}
  <2>1. ip' = ip /\ status' = Released(type, m, mac, stats)
    BY <1>2 DEF NewEntry
  <2>2. \A i \in Slots : Released(type, m, mac, stats)[i] # 0 => stats[i] # 0
    BY <1>1, ReleasedOwn
  <2> QED
    BY <2>1, <2>2
<1>3. CASE places # {}
  <2> DEFINE p == First(places)
             new == [stats EXCEPT ![p] = s]
  <2>1. p \in Slots
    BY <1>3, FirstIn, SlotsAreNumbers DEF Places
  <2>2. /\ mac' = [mac EXCEPT ![p] = m] /\ ip' = [ip EXCEPT ![p] = a]
        /\ status' = Released(type, m, mac', new)
    BY <1>3 DEF NewEntry
  <2> HIDE DEF places, p
  <2>3. new \in [Slots -> Statuses] /\ \A i \in Slots : i # p => new[i] = stats[i]
    BY <2>1
  <2> HIDE DEF new
  <2>4. mac' \in [Slots -> Macs \cup {NoMac}]
    BY <1>1, <2>1, <2>2
  <2>5. ip'[p] = a /\ \A i \in Slots : i # p => ip'[i] = ip[i]
    BY <1>1, <2>1, <2>2
  <2>6. \A i \in Slots : Released(type, m, mac', new)[i] # 0 => new[i] # 0
    <3> DEFINE macs == mac'
    <3>1. macs \in [Slots -> Macs \cup {NoMac}]
      BY <2>4
    <3> HIDE DEF macs
    <3>2. \A i \in Slots : Released(type, m, macs, new)[i] # 0 => new[i] # 0
      BY <2>3, <3>1 DEF Released
    <3> QED
      BY <3>2 DEF macs
  <2> QED
    BY <2>2, <2>3, <2>5, <2>6
<1> QED
  BY <1>2, <1>3

\* A new status leaves the entry its address.
LEMMA SetStatusInRange ==
  ASSUME DhcpTypes, OneEntryPerMac, mode = "dhcp", EntriesInRange,
         NEW type, NEW m \in Macs, Previous(m) # {}, NEW s \in Statuses,
         SetStatus(type, m, Last(Previous(m)), s)
  PROVE  \A i \in Slots : status'[i] # 0 => ip'[i] \in range
<1> DEFINE p == Last(Previous(m))
           stats == [status EXCEPT ![p] = s]
<1>1. p \in Slots /\ status[p] # 0
  BY OnlyPrevious
<1>2. stats \in [Slots -> Statuses] /\ \A i \in Slots : i # p => stats[i] = status[i]
  BY <1>1 DEF DhcpTypes
<1>3. ip' = ip /\ status' = Released(type, m, mac, stats)
  BY DEF SetStatus
<1> HIDE DEF p, stats
<1>4. \A i \in Slots : Released(type, m, mac, stats)[i] # 0 => stats[i] # 0
  BY <1>2, ReleasedOwn DEF DhcpTypes
<1> QED
  BY <1>1, <1>2, <1>3, <1>4 DEF EntriesInRange

\* Any step of the DHCP server keeps the addresses in the range; what it grants
\* is in it too.
LEMMA DhcpInRange ==
  ASSUME DhcpTypes, range \in SUBSET Addresses, OneEntryPerMac, EntriesInRange,
         NEW type \in Types, NEW m \in Macs,
         NEW a \in Addresses \cup {0}, DHCP_server(type, m, a)
  PROVE  /\ \A i \in Slots : status'[i] # 0 => ip'[i] \in range
         /\ granted' = Without(m) \/ granted' = granted \/ a \in range
<1>0. mode = "dhcp" /\ NewStatuses(type) \subseteq Statuses /\ 1 \in Statuses /\ 2 \in Statuses
  BY DEF DHCP_server, NewStatuses, Types, Statuses
<1> DEFINE p == Last(Previous(m))
<1>t. status \in [Slots -> Statuses] /\ mac \in [Slots -> Macs \cup {NoMac}]
  BY DEF DhcpTypes
<1>p. ASSUME Previous(m) # {} PROVE p \in Slots /\ status[p] # 0
  BY <1>0, <1>p, OnlyPrevious
<1>2. CASE NewLease(type, m, a)
  <2>1. PICK s \in NewStatuses(type) : NewEntry(type, m, a, s, status)
    BY <1>2 DEF NewLease
  <2>2. a \in range
    BY <1>2 DEF NewLease, Agreed
  <2>3. s \in Statuses /\ \A i \in Slots : status[i] # 0 => ip[i] \in range
    BY <1>0 DEF EntriesInRange
  <2> QED
    BY <1>t, <2>1, <2>2, <2>3, NewEntryInRange
<1>3. CASE OtherLease(type, m, a)
  <2> DEFINE stats == [status EXCEPT ![p] = 0]
  <2>1. PICK s \in NewStatuses(type) : NewEntry(type, m, a, s, stats)
    BY <1>3 DEF OtherLease
  <2>2. a \in range
    BY <1>3 DEF OtherLease, Agreed
  <2>3. p \in Slots /\ 0 \in Statuses
    BY <1>3, <1>p DEF OtherLease, Statuses
  <2>4. stats \in [Slots -> Statuses] /\ \A i \in Slots : stats[i] # 0 => status[i] # 0
    BY <1>t, <2>3
  <2> HIDE DEF stats
  <2>5. s \in Statuses /\ \A i \in Slots : stats[i] # 0 => ip[i] \in range
    BY <1>0, <2>4 DEF EntriesInRange
  <2> QED
    BY <2>1, <2>2, <2>4, <2>5, NewEntryInRange
<1>4. CASE SameLease(type, m, a)
  <2>1. PICK s \in NewStatuses(type) : SetStatus(type, m, p, s)
    BY <1>4 DEF SameLease
  <2>2. a \in range /\ Previous(m) # {} /\ s \in Statuses
    BY <1>0, <1>4 DEF SameLease, Agreed
  <2> QED
    BY <1>0, <2>1, <2>2, SetStatusInRange
<1>5. CASE type = "discover" /\ OfferPrevious(m, a)
  BY <1>0, <1>5, SetStatusInRange DEF OfferPrevious
<1>6. CASE type = "discover" /\ OfferFree(m, a)
  <2>1. First(FreeAddresses) \in range
    <3>1. FreeAddresses \in SUBSET Nat /\ FreeAddresses # {} /\ FreeAddresses \subseteq range
      BY <1>6, DhcpArpAssumption DEF OfferFree, FreeAddresses
    <3> QED
      BY <3>1, FirstIn
  <2>2. NewEntry("discover", m, First(FreeAddresses), 1, status) /\ granted' = Without(m)
    BY <1>6 DEF OfferFree
  <2>3. \A i \in Slots : status[i] # 0 => ip[i] \in range
    BY DEF EntriesInRange
  <2> QED
    BY <1>0, <1>t, <2>1, <2>2, <2>3, NewEntryInRange
<1>7. CASE type # "discover" /\ MatchOnly(type, m, a)
  <2> DEFINE s == IF type = "request" THEN 2 ELSE status[p]
  <2>1. SetStatus(type, m, p, s) /\ Previous(m) # {} /\ ip[p] = a
    BY <1>7 DEF MatchOnly
  <2>2. p \in Slots /\ status[p] # 0
    BY <1>p, <2>1
  <2>3. s \in Statuses
    BY <1>0, <1>t, <2>2
  <2>4. a \in range
    BY <2>1, <2>2 DEF EntriesInRange
  <2> HIDE DEF s
  <2> QED
    BY <1>0, <2>1, <2>3, <2>4, SetStatusInRange
<1>8. CASE Refuse(type, m, a)
  <2>1. ip' = ip /\ status' = Released(type, m, mac, status) 
        /\ granted' \in {Without(m), granted}
    BY <1>8 DEF Refuse, Deny
  <2>2. \A i \in Slots : Released(type, m, mac, status)[i] # 0 => status[i] # 0
    BY <1>t, ReleasedOwn
  <2> QED
    BY <2>1, <2>2 DEF EntriesInRange
<1> QED
  BY <1>2, <1>3, <1>4, <1>5, <1>6, <1>7, <1>8 DEF DHCP_server

\* However the range moves, the server grants addresses of the present one only:
\* after a reset it has neither an entry nor a lease of the range before.
THEOREM LeasesStayInRange == Spec => []LeasesInRange
<1>1. Init => RangeInv
  BY DEF Init, RangeInv, EntriesInRange, NoLease
<1>2. TableInv /\ RangeInv /\ [Next]_vars => RangeInv'
  <2> SUFFICES ASSUME TableInv, RangeInv, [Next]_vars
               PROVE  RangeInv'
    OBVIOUS
  <2>1. CASE UNCHANGED <<mode, range, tableVars, granted>>
    BY <2>1 DEF tableVars, RangeInv, EntriesInRange
  <2>2. ASSUME NEW type \in Types, NEW n \in Macs, NEW a \in Addresses \cup {0},
               DHCP_server(type, n, a)
        PROVE  RangeInv'
    <3>1. mode = "dhcp" /\ UNCHANGED <<mode, range>>
      BY <2>2 DEF DHCP_server
    <3>2. DhcpTypes /\ range \in SUBSET Addresses /\ OneEntryPerMac /\ EntriesInRange
      BY <3>1, TypesDhcp DEF TableInv, RangeInv
    <3>3. /\ \A i \in Slots : status'[i] # 0 => ip'[i] \in range
          /\ granted' = Without(n) \/ granted' = granted \/ a \in range
      BY <2>2, <3>2, DhcpInRange
    <3>4. /\ \A m \in Macs : m # n => granted'[m] = granted[m]
          /\ \/ \E room \in BOOLEAN :
                  granted'[n] = [address |-> a, left |-> Timeout, booked |-> room]
             \/ granted'[n] = NoLease
             \/ granted'[n] = granted[n]
      BY <2>2, DhcpAnswers, LeaseTypes DEF TableInv
    <3>5. granted \in [Macs -> Leases] /\ NoLease.left = 0
      BY DEF TableInv, LanTypeOK, Leases, NoLease
    <3>7. granted'[n].left > 0 => granted'[n].address \in range
      <4>1. CASE granted' = Without(n)
        BY <3>5, <4>1 DEF Without
      <4>2. CASE a \in range
        <5>1. CASE granted'[n] = NoLease \/ granted'[n] = granted[n]
          BY <3>5, <5>1 DEF RangeInv
        <5>2. CASE \E room \in BOOLEAN :
                     granted'[n] = [address |-> a, left |-> Timeout, booked |-> room]
          BY <4>2, <5>2
        <5> QED
          BY <3>4, <5>1, <5>2
      <4>3. CASE granted' = granted
        BY <4>3 DEF RangeInv
      <4> QED
        BY <3>3, <4>1, <4>2, <4>3
    <3>8. \A m \in Macs : granted'[m].left > 0 => granted'[m].address \in range
      BY <3>4, <3>7 DEF RangeInv
    <3> QED
      BY <3>1, <3>3, <3>8 DEF RangeInv, EntriesInRange
  <2>3. ASSUME NEW a \in Addresses, NEW addressed \in BOOLEAN, ArpReply(a, addressed)
        PROVE  RangeInv'
    BY <2>3 DEF ArpReply, RangeInv
  <2>4. CASE Periodic
    <3>1. UNCHANGED <<mode, range, ip>>
      BY <2>4 DEF Periodic
    <3>2. \A i \in Slots : status'[i] # 0 => status[i] # 0
      BY <2>4 DEF Periodic, Expired
    <3>3. ASSUME NEW m \in Macs, granted'[m].left > 0
          PROVE  granted[m].left > 0 /\ granted'[m].address = granted[m].address
      <4>1. granted[m] \in Leases
        BY DEF TableInv, LanTypeOK, Leases
      <4>2. granted'[m] = IF granted[m].left > 1 THEN [granted[m] EXCEPT !.left = @ - 1] ELSE NoLease
        BY <2>4 DEF Periodic
      <4>3. NoLease.left = 0
        BY DEF NoLease
      <4>4. granted[m].left > 1
        BY <3>3, <4>2, <4>3
      <4>5. granted'[m] = [granted[m] EXCEPT !.left = @ - 1]
        BY <4>2, <4>4
      <4> QED
        BY <4>1, <4>4, <4>5 DEF Timeout, Leases
    <3> QED
      BY <3>1, <3>2, <3>3 DEF RangeInv, EntriesInRange
  <2>5. CASE \E a \in Addresses : FromRadio(a) \/ LoseReply(a)
    BY <2>1, <2>5 DEF FromRadio, LoseReply
  <2>6. CASE \E a \in Addresses, n \in Stations : Move(a, n)
    BY <2>1, <2>6 DEF Move
  <2>7. CASE \E r \in Ranges : LanReset(r)
    BY <2>7 DEF LanReset, NoLease, RangeInv, EntriesInRange
  <2> QED
    BY <2>1, <2>2, <2>3, <2>4, <2>5, <2>6, <2>7 DEF Next, vars
<1>3. RangeInv => LeasesInRange
  BY DEF RangeInv, LeasesInRange
<1> QED
  BY <1>1, <1>2, <1>3, TableInvariant, PTL DEF Spec
=============================================================================
