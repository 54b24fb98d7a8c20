---------------------------- MODULE Registration ----------------------------
(***************************************************************************)
(* Registration of the clients of one TDMA cell with its master            *)
(* (source/signaling.cpp, RADIO_on and RADIO_off of source/SI4463.cpp).    *)
(*                                                                         *)
(* The master's address table is that of AddressTable.  Each client runs   *)
(* the connection state machine of signaling_periodic_call; requests and   *)
(* answers cross a radio link that loses frames, delays them in the        *)
(* transmit FIFOs for any time, and never duplicates or reorders those of  *)
(* one sender.  A frame purged from its FIFO for its age is a lost one; as *)
(* many are never purged (FrameDates.tla), no bound on the delay is taken  *)
(* from it.                                                                *)
(*                                                                         *)
(* Time is counted in calls of signaling_periodic_call.  All modems of a   *)
(* cell call it with the same period but in any order within a period: a   *)
(* round lets each of them call it once.                                   *)
(***************************************************************************)
EXTENDS AddressTable, Sequences, FiniteSetsExt

CONSTANTS
  Master,              \* the master modem, among those that tick
  WaitCalls,           \* 2: calls between requests while waiting
  RefreshCalls,        \* 5: calls before a connected client refreshes
  RetryCalls,          \* 15: calls between requests of a rejected client
  connexion_timeout,   \* 10
  SureRounds,          \* rounds an answer is relied on, counted from when the
                       \* master made it; connexion_timeout - 1 at most
  MaxLink,             \* bound on the frames queued per link
  MaxOps               \* bound on operator interventions and reboots

ASSUME CallsAssumption ==
  /\ WaitCalls \in Nat /\ RefreshCalls \in Nat /\ RetryCalls \in Nat
  /\ connexion_timeout \in Nat \ {0}
  /\ WaitCalls < RefreshCalls /\ RefreshCalls < connexion_timeout
  /\ SureRounds \in Nat /\ SureRounds < connexion_timeout
ASSUME LinkAssumption ==
  MaxLink \in Nat \ {0} /\ MaxOps \in Nat
ASSUME MasterAssumption == Master \notin Callsigns

VARIABLES
  age,       \* master: calls since CONF_radio_addr_table_date was set
  state,     \* my_client_radio_connexion_state: 1 waiting, 2 connected,
             \* 3 rejected
  client_ID, \* my_radio_client_ID
  block,     \* the block of IP addresses the client serves to its LAN
  req_size,  \* CONF_radio_IP_size_requested
  radio,     \* CONF_radio_state_ON_OFF of the client
  counter,   \* connect_state_machine_counter
  last_ack,  \* time_counter_last_ack
  since,     \* history: rounds since the master made the answer the client
             \* took last, which the client cannot know
  up, down,  \* signaling frames under way from and to each client
  ticked,    \* modems that made their periodic call in this round
  ops        \* operator interventions left

clientVars == <<state, client_ID, block, req_size, radio, counter, last_ack>>
timeVars == <<ticked, ops>>
vars == <<tableVars, age, clientVars, since, up, down, timeVars>>

Unconnected == 126  \* 0x7E
MaxCount == RetryCalls + 1          \* counters are only compared: they saturate
MaxAck == connexion_timeout + 1
Bump(n, limit) == IF n < limit THEN n + 1 ELSE n

\* A request carries the client ID of its frame's first byte
\* (signaling_frame_init).  An answer counts the rounds it is under way.
Request(id, size) == [id |-> id, size |-> size]
Answer(body) == [body |-> body, delay |-> 0]

\* A frame that finds the FIFO full is dropped without notice.
\* Mutant: the FIFO's limit is not looked at.
Mut_Push(link, frame) == Append(link, frame)
Push(link, frame) == IF Len(link) < MaxLink THEN Append(link, frame) ELSE link

NoBlock == [begin |-> 0, size |-> 0]

Init ==
  /\ TableInit
  /\ age = Zeros
  /\ state = [c \in Callsigns |-> 1]
  /\ client_ID = [c \in Callsigns |-> Unconnected]
  /\ block = [c \in Callsigns |-> NoBlock]
  /\ req_size \in [Callsigns -> ReqSizes]
  /\ radio \in [Callsigns -> BOOLEAN]  \* CONF_radio_default_state_ON_OFF
  /\ counter = [c \in Callsigns |-> 0]
  /\ last_ack = [c \in Callsigns |-> 0]
  /\ since = [c \in Callsigns |-> 0]
  /\ up = [c \in Callsigns |-> <<>>]
  /\ down = [c \in Callsigns |-> <<>>]
  /\ ticked = {}
  /\ ops = MaxOps

\* Steps in which the master's table does not take part.
TableIdle == answer_pushed /\ UNCHANGED age

-----------------------------------------------------------------------------
(***************************************************************************)
(* Periodic calls.                                                         *)
(***************************************************************************)

\* Mutant: a rejected client does not ask again.
Mut_RequestDueRejected(c) ==
  \/ state[c] = 1 /\ counter[c] > WaitCalls
  \/ state[c] = 2 /\ counter[c] > RefreshCalls
RequestDue(c) ==
  \/ state[c] = 1 /\ counter[c] > WaitCalls
  \/ state[c] = 2 /\ counter[c] > RefreshCalls
  \/ state[c] = 3 /\ counter[c] > RetryCalls

\* Mutant: a connected client never gives up.
Mut_LinkTimedOut(c) == FALSE
LinkTimedOut(c) == state[c] = 2 /\ last_ack[c] > connexion_timeout

\* The client's half of signaling_periodic_call.  While connected, the counter
\* is reset by the answer and not by the request, so that requests repeat on
\* every call until one is answered.
ClientPeriodic(c) ==
  LET requested == IF RequestDue(c) THEN Push(up[c], Request(client_ID[c], req_size[c]))
                   ELSE up[c]
      restarted == IF RequestDue(c) /\ state[c] # 2 THEN 0 ELSE counter[c]
  IN
  /\ c \notin ticked
  /\ ticked' = ticked \cup {c}
  /\ \/ /\ LinkTimedOut(c)
        /\ state' = [state EXCEPT ![c] = 1]
        /\ client_ID' = [client_ID EXCEPT ![c] = Unconnected]
        /\ up' = [up EXCEPT ![c] = <<>>]  \* radio_flush_TX_FIFO
     \/ /\ ~LinkTimedOut(c)
        /\ up' = [up EXCEPT ![c] = requested]
        /\ UNCHANGED <<state, client_ID>>
  /\ counter' = [counter EXCEPT ![c] = Bump(restarted, MaxCount)]
  /\ last_ack' = [last_ack EXCEPT ![c] = Bump(@, MaxAck)]
  /\ TableIdle
  /\ UNCHANGED <<block, req_size, radio, since, down, ops>>

\* The master's half: entries not heard for more than connexion_timeout
\* periods are freed.  At its n-th call after the date was set at least n - 1
\* periods have passed, and n or a little more at most, for the main loop may
\* be late: an entry is overdue for certain at one call, perhaps at the call
\* before.
\* Mutant: the table is swept with half the timeout.
Mut_MaybeOverdue == {i \in Live : age[i] >= connexion_timeout \div 2}
MaybeOverdue == {i \in Live : age[i] >= connexion_timeout - 1}
Overdue == {i \in Live : age[i] >= connexion_timeout}

MasterPeriodic ==
  /\ Master \notin ticked
  /\ ticked' = ticked \cup {Master}
  /\ \E expired \in SUBSET MaybeOverdue :
       /\ Overdue \subseteq expired
       /\ free_expired(expired)
       /\ age' = [i \in Slots |->
                    IF i \in Live \ expired THEN Bump(age[i], connexion_timeout) ELSE 0]
  /\ UNCHANGED <<clientVars, since, up, down, ops>>

\* A round ends when every modem made its call.
Older(link) == [n \in 1 .. Len(link) |-> [link[n] EXCEPT !.delay = Bump(@, SureRounds)]]

EndRound(clients) ==
  /\ ticked = clients \cup {Master}
  /\ ticked' = {}
  /\ down' = [c \in Callsigns |-> Older(down[c])]
  /\ since' = [c \in Callsigns |-> Bump(since[c], SureRounds)]
  /\ TableIdle
  /\ UNCHANGED <<clientVars, up, ops>>

-----------------------------------------------------------------------------
(***************************************************************************)
(* Frames received.                                                        *)
(***************************************************************************)

\* signaling_connect_req_process with the answer it pushes.  A booking dates
\* the entry; a refused client's entry, if it had one, is free.
\* Mutant: a refresh does not date the entry.
Mut_Dated(i) == IF status[i] = 0 /\ status'[i] = 1 THEN 0 ELSE age[i]
Dated(i) ==
  IF (answer'.type = "ACK" /\ answer'.id = i) \/ status'[i] = 0 THEN 0 ELSE age[i]

\* The client ID filter of radio_RX_FIFO_dequeue: the master hears only client
\* IDs of booked entries and that of the unconnected, whoever transmits.
PassesFilter(id) == id = Unconnected \/ id \in Live

MasterReceive(c) ==
  LET request == Head(up[c]) IN
  /\ radio[c]
  /\ up[c] # <<>>
  /\ up' = [up EXCEPT ![c] = Tail(@)]
  /\ \/ /\ PassesFilter(request.id)
        /\ connect_req_process(c, request.size)
        /\ age' = [i \in Slots |-> Dated(i)]
        /\ down' = [down EXCEPT ![c] = Push(@, Answer(answer'))]
     \/ /\ ~PassesFilter(request.id)
        /\ TableIdle
        /\ UNCHANGED down
  /\ UNCHANGED <<clientVars, since, timeVars>>

\* signaling_connect_ACK_process: taken in any state.
connect_ACK_process(c, ack) ==
  /\ state' = [state EXCEPT ![c] = 2]
  /\ client_ID' = [client_ID EXCEPT ![c] = ack.id]
  /\ block' = [block EXCEPT ![c] = [begin |-> ack.begin, size |-> ack.size]]
  /\ counter' = [counter EXCEPT ![c] = 0]
  /\ last_ack' = [last_ack EXCEPT ![c] = 0]

\* signaling_connect_NACK_process: the client keeps its client ID.
connect_NACK_process(c) ==
  /\ state' = [state EXCEPT ![c] = 3]
  /\ counter' = [counter EXCEPT ![c] = 0]
  /\ UNCHANGED <<client_ID, block, last_ack>>

ClientReceive(c) ==
  /\ radio[c]
  /\ down[c] # <<>>
  /\ LET received == Head(down[c]).body IN
     \/ /\ received.type = "ACK"
        /\ connect_ACK_process(c, received)
        /\ since' = [since EXCEPT ![c] = Head(down[c]).delay]
     \/ /\ received.type = "NACK"
        /\ connect_NACK_process(c)
        /\ UNCHANGED since
  /\ down' = [down EXCEPT ![c] = Tail(@)]
  /\ TableIdle
  /\ UNCHANGED <<req_size, radio, up, timeVars>>

\* A frame is lost: it is received with errors or not at all, or was purged from
\* the FIFO (Radio_purge_old_frames).
LoseUp(c) ==
  /\ up[c] # <<>>
  /\ up' = [up EXCEPT ![c] = Tail(@)]
  /\ TableIdle
  /\ UNCHANGED <<clientVars, since, down, timeVars>>

LoseDown(c) ==
  /\ down[c] # <<>>
  /\ down' = [down EXCEPT ![c] = Tail(@)]
  /\ TableIdle
  /\ UNCHANGED <<clientVars, since, up, timeVars>>

-----------------------------------------------------------------------------
(***************************************************************************)
(* The operator, and reboots.                                              *)
(***************************************************************************)
Intervene == ops > 0 /\ ops' = ops - 1 /\ UNCHANGED ticked

Disconnected(c) ==
  /\ state' = [state EXCEPT ![c] = 1]
  /\ client_ID' = [client_ID EXCEPT ![c] = Unconnected]

\* telnet "radio off", RADIO_off(1): the state machine's counters go on.
RadioOff(c) ==
  /\ Intervene
  /\ radio[c]
  /\ radio' = [radio EXCEPT ![c] = FALSE]
  /\ Disconnected(c)
  /\ TableIdle
  /\ UNCHANGED <<block, req_size, counter, last_ack, since, up, down>>

\* telnet "radio on", RADIO_on(1): the transmit FIFO is flushed.
RadioOn(c) ==
  /\ Intervene
  /\ ~radio[c]
  /\ radio' = [radio EXCEPT ![c] = TRUE]
  /\ Disconnected(c)
  /\ up' = [up EXCEPT ![c] = <<>>]
  /\ TableIdle
  /\ UNCHANGED <<block, req_size, counter, last_ack, since, down>>

\* telnet "set client_req_size": off and on again if the radio was on.
SetReqSize(c, size) ==
  /\ Intervene
  /\ size # req_size[c]
  /\ req_size' = [req_size EXCEPT ![c] = size]
  /\ \/ /\ radio[c]
        /\ Disconnected(c)
        /\ up' = [up EXCEPT ![c] = <<>>]
     \/ /\ ~radio[c]
        /\ UNCHANGED <<state, client_ID, up>>
  /\ TableIdle
  /\ UNCHANGED <<block, radio, counter, last_ack, since, down>>

\* A power cycle of a client: its configuration is read back from flash, the
\* rest of its memory is cleared.
ClientReboot(c) ==
  /\ Intervene
  /\ Disconnected(c)
  /\ block' = [block EXCEPT ![c] = NoBlock]
  /\ \E on \in BOOLEAN : radio' = [radio EXCEPT ![c] = on]
  /\ counter' = [counter EXCEPT ![c] = 0]
  /\ last_ack' = [last_ack EXCEPT ![c] = 0]
  /\ up' = [up EXCEPT ![c] = <<>>]
  /\ TableIdle
  /\ UNCHANGED <<req_size, since, down>>

\* A power cycle of the master: its table and what it queued are gone, and no
\* client is told.
MasterReboot ==
  /\ Intervene
  /\ master_reboot
  /\ age' = Zeros
  /\ down' = [c \in Callsigns |-> <<>>]
  /\ UNCHANGED <<clientVars, since, up>>

-----------------------------------------------------------------------------
Periodic == MasterPeriodic \/ EndRound(Callsigns) \/ \E c \in Callsigns : ClientPeriodic(c)

Radio ==
  \E c \in Callsigns :
    MasterReceive(c) \/ ClientReceive(c) \/ LoseUp(c) \/ LoseDown(c)

\* What a client's operator may do without the master noticing.
ClientOperator ==
  \E c \in Callsigns : RadioOff(c) \/ RadioOn(c) \/ ClientReboot(c)

Resize == \E c \in Callsigns, size \in ReqSizes : SetReqSize(c, size)

\* Clients come and go, with fixed requests, under a master that stays up.
Next == Periodic \/ Radio \/ ClientOperator
Spec == Init /\ [][Next]_vars

\* Everything that can happen.
FullNext == Next \/ Resize \/ MasterReboot
FullSpec == Init /\ [][FullNext]_vars

-----------------------------------------------------------------------------
Modems == Callsigns \cup {Master}
UpFrames == [id : Slots \cup {Unconnected}, size : ReqSizes]
DownFrames == [body : Answers, delay : 0 .. SureRounds]

\* The type of every variable, with the bounds the counters saturate at.
RegTypeOK ==
  /\ TypeOK
  /\ age \in [Slots -> 0 .. connexion_timeout]
  /\ state \in [Callsigns -> 1 .. 3]
  /\ client_ID \in [Callsigns -> Slots \cup {Unconnected}]
  /\ block \in [Callsigns -> [begin : Nat, size : Nat]]
  /\ req_size \in [Callsigns -> ReqSizes]
  /\ radio \in [Callsigns -> BOOLEAN]
  /\ counter \in [Callsigns -> 0 .. MaxCount]
  /\ last_ack \in [Callsigns -> 0 .. MaxAck]
  /\ since \in [Callsigns -> 0 .. SureRounds]
  /\ \A c \in Callsigns : /\ up[c] \in Seq(UpFrames)
                          /\ down[c] \in Seq(DownFrames)
                          /\ Len(up[c]) <= MaxLink /\ Len(down[c]) <= MaxLink
  /\ ticked \subseteq Modems
  /\ ops \in 0 .. MaxOps

\* The master's table says of c what c believes.
Agree(c) ==
  /\ client_ID[c] \in Live
  /\ callsign[client_ID[c]] = c
  /\ block[c] = [begin |-> IP_begin[client_ID[c]], size |-> IP_size[client_ID[c]]]

\* Answered recently enough that the master cannot have given c up yet: its
\* timeout runs from the request it answered, and ends up to a period early as
\* c's rounds count.  A client cannot tell, for it counts from the arrival of the
\* answer, which may have been under way for any time.
Fresh(c) == state[c] = 2 /\ since[c] < SureRounds

LeaseOf(c, i, b) == [holder |-> c, id |-> i, terms |-> b]
PoolAddresses == UNION {p.start .. p.start + p.size : p \in Pools}

\* Until connexion_timeout - 1 rounds after an answer was made, the master holds
\* an entry for the client that took it, under the client ID it transmits with and
\* with the block it serves: however late the answer came, whatever was lost since
\* and however often the radio was switched off or the client rebooted meanwhile.
\* Later the two timeouts, which are counted from different events, do disagree:
\* the client stays connected until its last_ack exceeds connexion_timeout, and
\* the master may have given its client ID and block to another by then.
FreshClientsAgree == \A c \in Callsigns : Fresh(c) => Agree(c)

\* The leases of client IDs and blocks: the master's are the booked entries,
\* the clients may rely on those the master confirmed recently.
Lessor == INSTANCE Lease WITH
  Parties <- Callsigns,
  IDs <- Slots,
  Terms <- [begin : PoolAddresses, size : ReqSizes],
  NoLease <- NoAnswer,
  lease <- [i \in Slots |->
              IF status[i] = 0 THEN NoAnswer
              ELSE LeaseOf(callsign[i], i, [begin |-> IP_begin[i], size |-> IP_size[i]])],
  relied_on <- {LeaseOf(c, client_ID[c], block[c]) : c \in {d \in Callsigns : Fresh(d)}}

\* While the master stays up and requests do not change, a client ID and its
\* block are leased to one client at a time and taken back only when that
\* client no longer relies on them, over lost and delayed frames, timeouts,
\* radios switched off and on, and clients that reboot.
LeaseImplemented == Lessor!Spec

=============================================================================
