----------------------------- MODULE CrowdedCell -----------------------------
(***************************************************************************)
(* One client of a cell, and whether it is served.  This is Registration    *)
(* with one client in all detail and the others as an environment: the      *)
(* master may hear a request of any of them whenever its radio is on.  That *)
(* is more than they can do in Registration, where a request is sent at     *)
(* certain calls only and may be late, lost or dropped.                     *)
(***************************************************************************)
EXTENDS Registration

CONSTANT Watched  \* the client modelled in detail

ASSUME WatchedAssumption == Watched \in Callsigns

Others == Callsigns \ {Watched}

\* A request of another client; what becomes of the answer is its own business.
OtherHeard(d) ==
  /\ radio[d]
  /\ connect_req_process(d, req_size[d])
  /\ age' = [i \in Slots |-> Dated(i)]
  /\ UNCHANGED <<clientVars, since, up, down, timeVars>>

CellPeriodic == MasterPeriodic \/ ClientPeriodic(Watched) \/ EndRound({Watched})

CellRadio ==
  \/ MasterReceive(Watched) \/ ClientReceive(Watched)
  \/ LoseUp(Watched) \/ LoseDown(Watched)
  \/ \E d \in Others : OtherHeard(d)

CellOperator ==
  \/ \E c \in Callsigns : RadioOff(c) \/ RadioOn(c)
  \/ \E size \in ReqSizes : SetReqSize(Watched, size)
  \/ ClientReboot(Watched)
  \/ MasterReboot

CellNext == CellPeriodic \/ CellRadio \/ CellOperator

\* The main loops make the periodic calls, so they keep coming; as a round ends
\* only when both made theirs, fairness of any of them is fairness of each.
Timers == WF_vars(CellPeriodic)

CellSpec == Init /\ [][CellNext]_vars /\ Timers

\* A link that is used again and again eventually carries a frame: the radio
\* loses frames, not all of them for ever.  Whether the master listens to what it
\* received is another matter.
FairLink == SF_vars(MasterReceive(Watched)) /\ SF_vars(ClientReceive(Watched))

-----------------------------------------------------------------------------
\* A connected client whose client ID or block the master does not hold for it,
\* because the master rebooted, timed it out or moved its block, does not stay
\* connected so for ever: its request is answered, or its requests are dropped by
\* the filter and it gives up.  This is about connected clients: a refused one keeps
\* its client ID and block until an answer, its operator or a reboot takes them.
StaleConnectionEnds ==
  (state[Watched] = 2 /\ ~Agree(Watched)) ~> (state[Watched] # 2 \/ Agree(Watched))

\* The others, wherever their blocks lie, leave a gap for the client's: the
\* addresses they do not use, spread over one gap more than there are blocks, do
\* not leave every gap too small.
RoomForAll ==
  LET active == {d \in Others : radio[d]}
      unused == pool.size - MapThenSumSet(LAMBDA d : req_size[d], active)
  IN
  /\ Cardinality(active) < radio_addr_table_size
  /\ unused > (Cardinality(active) + 1) * (req_size[Watched] - 1)

\* Refused while it had a client ID whose entry is free now: the master drops the
\* requests it goes on to send under that client ID, and nothing else in the code
\* takes the client ID from it.
LockedOut == state[Watched] = 3 /\ client_ID[Watched] \in Slots \ Live

Served == state[Watched] = 2 /\ block[Watched].size = req_size[Watched]

\* A client that keeps its radio on, over a fair link, is connected with a block
\* of the size its operator asked for last, again and again, from the time on
\* when the others leave room for it and it is not locked out: whatever frames
\* were lost, on its link or theirs, whichever answers to an older request were on
\* their way, whoever rebooted, and if it was refused before.
ServedUnlessLockedOut ==
  FairLink /\ <>[](radio[Watched] /\ RoomForAll /\ ~LockedOut) => []<>Served

=============================================================================
