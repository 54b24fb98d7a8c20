------------------------- MODULE Registration_proofs -------------------------
(***************************************************************************)
(* Proofs about registration, for any number of clients and entries, any    *)
(* sizes, timeouts, delays and lengths of the links: the table is used as    *)
(* AddressTable allows, clients that were answered recently are right about  *)
(* their entries, and registration implements the lease service.            *)
(***************************************************************************)
EXTENDS Registration, AddressTable_proofs, SequenceTheorems

-----------------------------------------------------------------------------
(* Links.                                                                   *)

\* A round later every frame is where it was, and a round older.
LEMMA OlderLink ==
  ASSUME NEW link \in Seq(DownFrames)
  PROVE  /\ Older(link) \in Seq(DownFrames) /\ Len(Older(link)) = Len(link)
         /\ \A n \in 1 .. Len(link) :
              /\ Older(link)[n].body = link[n].body
              /\ Older(link)[n].delay = Bump(link[n].delay, SureRounds)
<1>1. ASSUME NEW f \in DownFrames
      PROVE  /\ [f EXCEPT !.delay = Bump(@, SureRounds)] \in DownFrames
             /\ [f EXCEPT !.delay = Bump(@, SureRounds)].body = f.body
             /\ [f EXCEPT !.delay = Bump(@, SureRounds)].delay = Bump(f.delay, SureRounds)
  <2>1. f.delay \in 0 .. SureRounds /\ Bump(f.delay, SureRounds) \in 0 .. SureRounds
    BY CallsAssumption DEF DownFrames, Bump
  <2> QED
    BY <2>1 DEF DownFrames
<1>2. \A n \in 1 .. Len(link) : link[n] \in DownFrames
  OBVIOUS
<1>3. Older(link) \in [1 .. Len(link) -> DownFrames]
  BY <1>1, <1>2 DEF Older
<1>4. Len(link) \in Nat
  OBVIOUS
<1>5. Older(link) \in Seq(DownFrames) /\ Len(Older(link)) = Len(link)
  <2>1. Older(link) \in Seq(DownFrames)
    BY <1>3, <1>4, SeqDef
  <2> QED
    BY <1>3, <1>4, <2>1, LenProperties
<1> QED
  BY <1>1, <1>2, <1>5 DEF Older

\* A frame that is pushed leaves a link that is short enough.
LEMMA PushedLink ==
  ASSUME NEW S, NEW link \in Seq(S), NEW frame \in S, Len(link) <= MaxLink
  PROVE  Push(link, frame) \in Seq(S) /\ Len(Push(link, frame)) <= MaxLink
<1>1. MaxLink \in Nat /\ Len(link) \in Nat
  BY LinkAssumption
<1> QED
  BY <1>1 DEF Push

\* The first frame goes.
LEMMA TailLink ==
  ASSUME NEW S, NEW link \in Seq(S), link # <<>>
  PROVE  /\ Head(link) \in S /\ Tail(link) \in Seq(S)
         /\ Head(link) = link[1] /\ 1 \in 1 .. Len(link)
         /\ Len(Tail(link)) <= Len(link)
         /\ \A n \in 1 .. Len(Tail(link)) :
              n + 1 \in 1 .. Len(link) /\ Tail(link)[n] = link[n + 1]
  OBVIOUS

-----------------------------------------------------------------------------
(* The type of every variable.  The master's answers are what its table holds, *)
(* the table is asked with what the clients send, and they send the client IDs  *)
(* they were answered: one induction for the table and the types together.      *)

UpTypes ==
  /\ req_size \in [Callsigns -> ReqSizes]
  /\ up \in [Callsigns -> Seq(UpFrames)]
  /\ \A c \in Callsigns : Len(up[c]) <= MaxLink
ClientTypes ==
  /\ state \in [Callsigns -> 1 .. 3]
  /\ client_ID \in [Callsigns -> Slots \cup {Unconnected}]
  /\ block \in [Callsigns -> [begin : Nat, size : Nat]]
  /\ radio \in [Callsigns -> BOOLEAN]
  /\ counter \in [Callsigns -> 0 .. MaxCount]
  /\ last_ack \in [Callsigns -> 0 .. MaxAck]
SinceTypes == since \in [Callsigns -> 0 .. SureRounds]
TimeTypes == ticked \subseteq Modems /\ ops \in 0 .. MaxOps
DownTypes ==
  /\ down \in [Callsigns -> Seq(DownFrames)]
  /\ \A c \in Callsigns : Len(down[c]) <= MaxLink
AgeTypes == age \in [Slots -> 0 .. connexion_timeout]
RegTypes ==
  UpTypes /\ ClientTypes /\ SinceTypes /\ TimeTypes /\ DownTypes /\ AgeTypes

LEMMA Bounds ==
  /\ MaxCount \in Nat /\ MaxCount >= 1 /\ MaxAck \in Nat /\ MaxAck >= 2
  /\ MaxLink \in Nat /\ MaxOps \in Nat /\ connexion_timeout \in Nat /\ SureRounds \in Nat
  /\ \A n \in 0 .. MaxCount : Bump(n, MaxCount) \in 0 .. MaxCount
  /\ \A n \in 0 .. MaxAck : Bump(n, MaxAck) \in 0 .. MaxAck
  /\ \A n \in 0 .. connexion_timeout : Bump(n, connexion_timeout) \in 0 .. connexion_timeout
  /\ \A n \in 0 .. SureRounds : Bump(n, SureRounds) \in 0 .. SureRounds
  BY CallsAssumption, LinkAssumption DEF MaxCount, MaxAck, Bump

\* A step that replaces one link by another short one.
LEMMA UpChanges ==
  ASSUME UpTypes, NEW c \in Callsigns, NEW link \in Seq(UpFrames),
         Len(link) <= MaxLink, up' = [up EXCEPT ![c] = link],
         req_size' \in [Callsigns -> ReqSizes]
  PROVE  UpTypes'
  BY DEF UpTypes

\* The empty link, and what is left of a link without its first frame.
LEMMA ShorterLinks ==
  ASSUME NEW S, NEW link \in Seq(S), Len(link) <= MaxLink
  PROVE  /\ <<>> \in Seq(S) /\ Len(<<>>) <= MaxLink
         /\ link # <<>> => Tail(link) \in Seq(S) /\ Len(Tail(link)) <= MaxLink
<1>1. MaxLink \in Nat
  BY LinkAssumption
<1> QED
  BY <1>1

LEMMA UpStep == UpTypes /\ ClientTypes /\ [FullNext]_vars => UpTypes'
<1> SUFFICES ASSUME UpTypes, ClientTypes, [FullNext]_vars PROVE UpTypes'
  OBVIOUS
<1> USE DEF UpTypes
<1>1. \A c \in Callsigns :
        /\ up[c] \in Seq(UpFrames) /\ Len(up[c]) <= MaxLink
        /\ <<>> \in Seq(UpFrames) /\ Len(<<>>) <= MaxLink
        /\ up[c] # <<>> => Tail(up[c]) \in Seq(UpFrames) /\ Len(Tail(up[c])) <= MaxLink
  BY ShorterLinks
<1>2. CASE UNCHANGED <<req_size, up>>
  BY <1>2
<1>3. ASSUME NEW c \in Callsigns, UNCHANGED req_size,
             \/ up' = [up EXCEPT ![c] = <<>>]
             \/ up[c] # <<>> /\ up' = [up EXCEPT ![c] = Tail(@)]
      PROVE  UpTypes'
  BY <1>1, <1>3, UpChanges
<1>4. ASSUME NEW c \in Callsigns, ClientPeriodic(c) PROVE UpTypes'
  <2> DEFINE request == Request(client_ID[c], req_size[c])
  <2>0. request \in UpFrames
    BY DEF ClientTypes, Request, UpFrames
  <2> HIDE DEF request
  <2>1. Push(up[c], request) \in Seq(UpFrames) /\ Len(Push(up[c], request)) <= MaxLink
    BY <1>1, <2>0, PushedLink
  <2>2. \/ up' = [up EXCEPT ![c] = <<>>] \/ up' = [up EXCEPT ![c] = up[c]]
        \/ up' = [up EXCEPT ![c] = Push(up[c], request)]
    BY <1>4 DEF ClientPeriodic, request
  <2>3. UNCHANGED req_size
    BY <1>4 DEF ClientPeriodic
  <2> QED
    BY <1>1, <2>1, <2>2, <2>3, UpChanges
<1>5. CASE EndRound(Callsigns)
  BY <1>2, <1>5 DEF EndRound, clientVars
<1>6. ASSUME NEW c \in Callsigns, NEW size \in ReqSizes, SetReqSize(c, size)
      PROVE  UpTypes'
  <2>1. req_size' \in [Callsigns -> ReqSizes]
    BY <1>6 DEF SetReqSize
  <2>2. up' = [up EXCEPT ![c] = <<>>] \/ up' = up
    BY <1>6 DEF SetReqSize
  <2> QED
    BY <1>1, <2>1, <2>2, UpChanges
<1>7. CASE Periodic
  BY <1>2, <1>4, <1>5, <1>7 DEF Periodic, MasterPeriodic, clientVars
<1>8. CASE Radio
  <2>1. PICK c \in Callsigns : MasterReceive(c) \/ ClientReceive(c) \/ LoseUp(c) \/ LoseDown(c)
    BY <1>8 DEF Radio
  <2>2. CASE MasterReceive(c)
    BY <1>3, <2>2 DEF MasterReceive, clientVars
  <2>3. CASE ClientReceive(c) \/ LoseDown(c)
    BY <1>2, <2>3 DEF ClientReceive, LoseDown, clientVars
  <2>4. CASE LoseUp(c)
    BY <1>3, <2>4 DEF LoseUp, clientVars
  <2> QED
    BY <2>1, <2>2, <2>3, <2>4
<1>9. CASE ClientOperator
  <2>1. PICK c \in Callsigns : RadioOff(c) \/ RadioOn(c) \/ ClientReboot(c)
    BY <1>9 DEF ClientOperator
  <2>2. CASE RadioOff(c)
    BY <1>2, <2>2 DEF RadioOff
  <2>3. CASE RadioOn(c)
    BY <1>3, <2>3 DEF RadioOn
  <2>4. CASE ClientReboot(c)
    BY <1>3, <2>4 DEF ClientReboot
  <2> QED
    BY <2>1, <2>2, <2>3, <2>4
<1>10. CASE Resize
  BY <1>6, <1>10 DEF Resize
<1>11. CASE MasterReboot
  BY <1>2, <1>11 DEF MasterReboot, clientVars
<1>12. CASE UNCHANGED vars
  BY <1>2, <1>12 DEF vars, clientVars
<1> QED
  BY <1>7, <1>8, <1>9, <1>10, <1>11, <1>12 DEF FullNext, Next

\* Whatever registration does to the table, AddressTable does.
LEMMA TableUse == UpTypes /\ [FullNext]_vars => [TableNext]_tableVars
<1> SUFFICES ASSUME UpTypes, [FullNext]_vars PROVE [TableNext]_tableVars
  OBVIOUS
<1>1. TableIdle => TableNext
  BY DEF TableIdle, TableNext
<1>2. CASE UNCHANGED vars
  BY <1>2 DEF vars, tableVars
<1>3. CASE MasterPeriodic
  <2>1. PICK expired \in SUBSET MaybeOverdue : free_expired(expired)
    BY <1>3 DEF MasterPeriodic
  <2>2. expired \in SUBSET Live
    BY DEF MaybeOverdue
  <2> QED
    BY <2>1, <2>2 DEF TableNext
<1>4. ASSUME NEW c \in Callsigns, MasterReceive(c) PROVE TableNext
  <2>1. up[c] \in Seq(UpFrames) /\ up[c] # <<>>
    BY <1>4 DEF MasterReceive, UpTypes
  <2>2. Head(up[c]) \in UpFrames
    BY <2>1
  <2>3. Head(up[c]).size \in ReqSizes
    BY <2>2 DEF UpFrames
  <2>4. TableIdle \/ connect_req_process(c, Head(up[c]).size)
    BY <1>4 DEF MasterReceive
  <2> QED
    BY <1>1, <2>3, <2>4 DEF TableNext
<1>5. CASE MasterReboot
  BY <1>5 DEF MasterReboot, TableNext
<1>6. CASE EndRound(Callsigns) \/ \E c \in Callsigns : ClientPeriodic(c)
  BY <1>1, <1>6 DEF EndRound, ClientPeriodic
<1>7. CASE \E c \in Callsigns : ClientReceive(c) \/ LoseUp(c) \/ LoseDown(c)
  BY <1>1, <1>7 DEF ClientReceive, LoseUp, LoseDown
<1>8. CASE ClientOperator \/ Resize
  BY <1>1, <1>8 DEF ClientOperator, RadioOff, RadioOn, ClientReboot, Resize, SetReqSize
<1> QED
  BY <1>2, <1>3, <1>4, <1>5, <1>6, <1>7, <1>8 DEF FullNext, Next, Periodic, Radio

\* A step that replaces one link by another short one.
LEMMA DownChanges ==
  ASSUME DownTypes, NEW c \in Callsigns, NEW link \in Seq(DownFrames),
         Len(link) <= MaxLink, down' = [down EXCEPT ![c] = link]
  PROVE  DownTypes'
  BY DEF DownTypes

LEMMA DownStep == DownTypes /\ TypeOK' /\ [FullNext]_vars => DownTypes'
<1> SUFFICES ASSUME DownTypes, TypeOK', [FullNext]_vars PROVE DownTypes'
  OBVIOUS
<1> USE DEF DownTypes
<1>1. \A c \in Callsigns :
        /\ down[c] \in Seq(DownFrames) /\ Len(down[c]) <= MaxLink
        /\ <<>> \in Seq(DownFrames) /\ Len(<<>>) <= MaxLink
        /\ down[c] # <<>> => Tail(down[c]) \in Seq(DownFrames) /\ Len(Tail(down[c])) <= MaxLink
  BY ShorterLinks
<1>2. CASE UNCHANGED down
  BY <1>2
<1>3. CASE EndRound(Callsigns)
  BY <1>1, <1>3, OlderLink DEF EndRound
<1>4. ASSUME NEW c \in Callsigns, MasterReceive(c) PROVE DownTypes'
  <2> DEFINE frame == Answer(answer')
  <2>1. frame \in DownFrames
    BY Bounds DEF TypeOK, Answer, DownFrames
  <2>2. down' = down \/ down' = [down EXCEPT ![c] = Push(down[c], frame)]
    BY <1>4 DEF MasterReceive
  <2> HIDE DEF frame
  <2>3. Push(down[c], frame) \in Seq(DownFrames) /\ Len(Push(down[c], frame)) <= MaxLink
    BY <1>1, <2>1, PushedLink
  <2> QED
    BY <1>2, <2>2, <2>3, DownChanges
<1>5. ASSUME NEW c \in Callsigns, ClientReceive(c) \/ LoseDown(c) PROVE DownTypes'
  <2>1. down[c] # <<>> /\ down' = [down EXCEPT ![c] = Tail(down[c])]
    BY <1>5 DEF ClientReceive, LoseDown
  <2> QED
    BY <1>1, <2>1, DownChanges
<1>6. CASE MasterReboot
  BY <1>1, <1>6 DEF MasterReboot
<1>7. CASE Periodic
  BY <1>2, <1>3, <1>7 DEF Periodic, MasterPeriodic, ClientPeriodic
<1>8. CASE Radio
  BY <1>2, <1>4, <1>5, <1>8 DEF Radio, LoseUp
<1>9. CASE ClientOperator
  BY <1>2, <1>9 DEF ClientOperator, RadioOff, RadioOn, ClientReboot
<1>10. CASE Resize
  BY <1>2, <1>10 DEF Resize, SetReqSize
<1>11. CASE UNCHANGED vars
  BY <1>2, <1>11 DEF vars
<1> QED
  BY <1>6, <1>7, <1>8, <1>9, <1>10, <1>11 DEF FullNext, Next

LEMMA AgeStep == AgeTypes /\ [FullNext]_vars => AgeTypes'
<1> SUFFICES ASSUME AgeTypes, [FullNext]_vars PROVE AgeTypes'
  OBVIOUS
<1> USE DEF AgeTypes
<1>1. 0 \in 0 .. connexion_timeout
  BY Bounds
<1>2. CASE UNCHANGED age
  BY <1>2
<1>3. CASE MasterPeriodic
  <2>1. PICK expired \in SUBSET MaybeOverdue :
          age' = [i \in Slots |-> IF i \in Live \ expired THEN Bump(age[i], connexion_timeout) ELSE 0]
    BY <1>3 DEF MasterPeriodic
  <2>2. \A i \in Slots : Bump(age[i], connexion_timeout) \in 0 .. connexion_timeout
    BY Bounds
  <2> QED
    BY <1>1, <2>1, <2>2
<1>4. CASE \E c \in Callsigns : MasterReceive(c)
  <2>1. age' = [i \in Slots |-> Dated(i)] \/ UNCHANGED age
    BY <1>4 DEF MasterReceive, TableIdle
  <2>2. \A i \in Slots : Dated(i) \in 0 .. connexion_timeout
    BY <1>1 DEF Dated
  <2> QED
    BY <2>1, <2>2
<1>5. CASE MasterReboot
  BY <1>1, <1>5 DEF MasterReboot, Zeros
<1> QED
  BY <1>2, <1>3, <1>4, <1>5
  DEF FullNext, Next, Periodic, Radio, ClientOperator, Resize, TableIdle, EndRound,
      ClientPeriodic, ClientReceive, LoseUp, LoseDown, RadioOff, RadioOn, ClientReboot,
      SetReqSize, vars

LEMMA TimeStep == TimeTypes /\ [FullNext]_vars => TimeTypes'
<1> SUFFICES ASSUME TimeTypes, [FullNext]_vars PROVE TimeTypes'
  OBVIOUS
<1> USE DEF TimeTypes
<1>1. CASE UNCHANGED timeVars
  BY <1>1 DEF timeVars
<1>2. CASE Intervene
  BY <1>2, Bounds DEF Intervene
<1>3. ASSUME NEW m \in Modems, ticked' = ticked \cup {m}, UNCHANGED ops PROVE TimeTypes'
  BY <1>3
<1>4. CASE MasterPeriodic
  BY <1>3, <1>4 DEF MasterPeriodic, Modems
<1>5. CASE \E c \in Callsigns : ClientPeriodic(c)
  BY <1>3, <1>5 DEF ClientPeriodic, Modems
<1>6. CASE EndRound(Callsigns)
  BY <1>6 DEF EndRound
<1> QED
  BY <1>1, <1>2, <1>4, <1>5, <1>6
  DEF FullNext, Next, Periodic, Radio, ClientOperator, Resize, MasterReceive, ClientReceive,
      LoseUp, LoseDown, RadioOff, RadioOn, ClientReboot, SetReqSize, MasterReboot, vars, timeVars

\* An ACK or a request's answer has the fields its process copies.
LEMMA AckFields ==
  ASSUME NEW a \in Answers, a.type = "ACK"
  PROVE  /\ a.to \in Callsigns /\ a.id \in Slots /\ a.begin \in Nat /\ a.size \in Nat
         /\ a = Ack(a.to, a.id, a.begin, a.size)
<1>1. a \in [type : {"ACK"}, to : Callsigns, id : Slots, begin : Nat, size : Nat]
  BY DEF Answers, NoAnswer
<1> QED
  BY <1>1 DEF Ack

LEMMA ClientStep ==
  ClientTypes /\ UpTypes /\ DownTypes /\ [FullNext]_vars => ClientTypes'
<1> SUFFICES ASSUME ClientTypes, UpTypes, DownTypes, [FullNext]_vars PROVE ClientTypes'
  OBVIOUS
<1> USE DEF ClientTypes
<1>0. 0 \in 0 .. MaxCount /\ 0 \in 0 .. MaxAck /\ {1, 2, 3} \subseteq 1 .. 3
  BY Bounds
<1>1. CASE UNCHANGED clientVars
  BY <1>1 DEF clientVars
<1>2. ASSUME NEW c \in Callsigns, ClientPeriodic(c) PROVE ClientTypes'
  <2>1. counter' \in [Callsigns -> 0 .. MaxCount]
    <3>1. PICK n \in {0, counter[c]} : counter' = [counter EXCEPT ![c] = Bump(n, MaxCount)]
      BY <1>2 DEF ClientPeriodic
    <3>2. n \in 0 .. MaxCount
      BY <1>0
    <3> QED
      BY <3>1, <3>2, Bounds
  <2>2. last_ack' \in [Callsigns -> 0 .. MaxAck]
    BY <1>2, Bounds DEF ClientPeriodic
  <2>3. state' \in [Callsigns -> 1 .. 3] /\ client_ID' \in [Callsigns -> Slots \cup {Unconnected}]
    BY <1>2, <1>0 DEF ClientPeriodic
  <2> QED
    BY <1>2, <2>1, <2>2, <2>3 DEF ClientPeriodic
<1>3. ASSUME NEW c \in Callsigns, ClientReceive(c) PROVE ClientTypes'
  <2> DEFINE received == Head(down[c]).body
  <2>1. received \in Answers
    <3>1. down[c] \in Seq(DownFrames) /\ down[c] # <<>>
      BY <1>3 DEF ClientReceive, DownTypes
    <3>2. Head(down[c]) \in DownFrames
      BY <3>1
    <3> QED
      BY <3>2 DEF DownFrames
  <2> HIDE DEF received
  <2>2. UNCHANGED <<req_size, radio>>
    BY <1>3 DEF ClientReceive
  <2>3. CASE received.type = "ACK" /\ connect_ACK_process(c, received)
    <3>1. received.id \in Slots /\ received.begin \in Nat /\ received.size \in Nat
      BY <2>1, <2>3, AckFields
    <3> QED
      BY <1>0, <2>2, <2>3, <3>1 DEF connect_ACK_process
  <2>4. CASE connect_NACK_process(c)
    BY <1>0, <2>2, <2>4 DEF connect_NACK_process
  <2> QED
    BY <1>3, <2>3, <2>4 DEF ClientReceive, received
<1>4. CASE ClientOperator
  <2>1. PICK c \in Callsigns : RadioOff(c) \/ RadioOn(c) \/ ClientReboot(c)
    BY <1>4 DEF ClientOperator
  <2> USE <1>0 DEF Disconnected
  <2>2. CASE RadioOff(c)
    BY <2>2 DEF RadioOff
  <2>3. CASE RadioOn(c)
    BY <2>3 DEF RadioOn
  <2>4. CASE ClientReboot(c)
    <3>1. NoBlock \in [begin : Nat, size : Nat]
      BY DEF NoBlock
    <3> QED
      BY <2>4, <3>1 DEF ClientReboot
  <2> QED
    BY <2>1, <2>2, <2>3, <2>4
<1>5. ASSUME NEW c \in Callsigns, NEW size \in ReqSizes, SetReqSize(c, size)
      PROVE  ClientTypes'
  BY <1>0, <1>5 DEF SetReqSize, Disconnected
<1> QED
  BY <1>1, <1>2, <1>3, <1>4, <1>5
  DEF FullNext, Next, Periodic, Radio, Resize, MasterPeriodic, EndRound, MasterReceive,
      LoseUp, LoseDown, MasterReboot, vars, clientVars

LEMMA SinceStep == SinceTypes /\ DownTypes /\ [FullNext]_vars => SinceTypes'
<1> SUFFICES ASSUME SinceTypes, DownTypes, [FullNext]_vars PROVE SinceTypes'
  OBVIOUS
<1> USE DEF SinceTypes
<1>1. CASE UNCHANGED since
  BY <1>1
<1>2. CASE EndRound(Callsigns)
  BY <1>2, Bounds DEF EndRound
<1>3. ASSUME NEW c \in Callsigns, ClientReceive(c) PROVE SinceTypes'
  <2>1. Head(down[c]) \in DownFrames
    BY <1>3 DEF ClientReceive, DownTypes
  <2>2. Head(down[c]).delay \in 0 .. SureRounds
    BY <2>1 DEF DownFrames
  <2>3. UNCHANGED since \/ since' = [since EXCEPT ![c] = Head(down[c]).delay]
    BY <1>3 DEF ClientReceive
  <2> QED
    BY <2>2, <2>3
<1> QED
  BY <1>1, <1>2, <1>3
  DEF FullNext, Next, Periodic, Radio, ClientOperator, Resize, MasterPeriodic, ClientPeriodic,
      MasterReceive, LoseUp, LoseDown, RadioOff, RadioOn, ClientReboot, SetReqSize,
      MasterReboot, vars

LEMMA CellStep == TableInv /\ RegTypes /\ [FullNext]_vars => TableInv' /\ RegTypes'
<1> SUFFICES ASSUME TableInv, RegTypes, [FullNext]_vars PROVE TableInv' /\ RegTypes'
  OBVIOUS
<1>1. TableInv'
  BY TableUse, TableStep DEF RegTypes
<1>2. TypeOK'
  BY <1>1 DEF TableInv
<1> QED
  BY <1>1, <1>2, UpStep, DownStep, AgeStep, TimeStep, ClientStep, SinceStep DEF RegTypes

LEMMA RegTypesInit == Init => RegTypes
<1> SUFFICES ASSUME Init PROVE RegTypes
  OBVIOUS
<1>1. \A S : <<>> \in Seq(S) /\ Len(<<>>) = 0 /\ 0 <= MaxLink
  BY LinkAssumption
<1>2. UpTypes /\ DownTypes
  BY <1>1 DEF Init, UpTypes, DownTypes
<1>3. AgeTypes /\ TimeTypes /\ SinceTypes
  BY Bounds DEF Init, AgeTypes, TimeTypes, SinceTypes, Zeros
<1>4. ClientTypes
  BY Bounds DEF Init, ClientTypes, NoBlock
<1> QED
  BY <1>2, <1>3, <1>4 DEF RegTypes

LEMMA CellInvariant == FullSpec => [](TableInv /\ RegTypes)
<1>1. Init => TableInv
  BY EmptyTableInv DEF Init, TableInit
<1> QED
  BY <1>1, RegTypesInit, CellStep, PTL DEF FullSpec

\* Registration uses the table as AddressTable specifies it, reboots of the
\* master included: all that holds of the table holds in a cell.
THEOREM RegistrationUsesTable == FullSpec => TableSpec
<1>1. Init => TableInit
  BY DEF Init
<1>2. RegTypes => UpTypes
  BY DEF RegTypes
<1> QED
  BY <1>1, <1>2, TableUse, CellInvariant, PTL DEF FullSpec, TableSpec

\* Every variable of a cell keeps its type and every link its bound, whatever
\* answers, timeouts, operators and reboots follow one another: an answer on its
\* way always has a client ID and a block in it, and no counter runs away.
THEOREM RegTypesHold == FullSpec => []RegTypeOK
<1>1. TableInv /\ RegTypes => RegTypeOK
  BY DEF TableInv, RegTypes, RegTypeOK, UpTypes, ClientTypes, SinceTypes, TimeTypes, DownTypes,
         AgeTypes
<1> QED
  BY <1>1, CellInvariant, PTL

-----------------------------------------------------------------------------
(* Clients that were answered recently are right about their entries.       *)
(* Under Spec requests keep their size, so an entry keeps its block as long *)
(* as it is booked; its date is no older than the answer, under way or      *)
(* taken, up to the call the master made in this round.  After SureRounds    *)
(* nothing is said of an answer any more: it may still arrive.               *)

\* Requests do not change.
LEMMA SpecIsFull == Spec => FullSpec
<1>1. [Next]_vars => [FullNext]_vars
  BY DEF FullNext
<1> QED
  BY <1>1, PTL DEF Spec, FullSpec

\* Every request is for the size its client always asks for, and so is every
\* entry.
Requested ==
  /\ \A c \in Callsigns : \A n \in 1 .. Len(up[c]) : up[c][n].size = req_size[c]
  /\ \A i \in Slots, c \in Callsigns : callsign[i] = c => IP_size[i] = req_size[c]

\* What an answer says of an entry still is so.
Stands(c, ack) ==
  /\ ack.id \in Live /\ callsign[ack.id] = c
  /\ IP_begin[ack.id] = ack.begin /\ IP_size[ack.id] = ack.size

\* The call the master made in this round.
Swept == IF Master \in ticked THEN 1 ELSE 0

AnswerStands(c, frame) ==
  frame.body.type = "ACK" /\ frame.delay < SureRounds =>
    /\ Stands(c, frame.body)
    /\ age[frame.body.id] <= frame.delay + Swept
AnswersStand(c) == \A n \in 1 .. Len(down[c]) : AnswerStands(c, down[c][n])
ClientStands(c) ==
  Fresh(c) => Agree(c) /\ age[client_ID[c]] <= since[c] + Swept
AgreeInv == \A c \in Callsigns : AnswersStand(c) /\ ClientStands(c)

\* A step that frees no entry, changes none that is booked, and makes none look
\* older.
TableKept ==
  /\ Live \subseteq Live'
  /\ \A i \in Live : /\ callsign'[i] = callsign[i] /\ IP_begin'[i] = IP_begin[i]
                     /\ IP_size'[i] = IP_size[i] /\ age'[i] <= age[i]

\* The entries left by a request for the size the client always asks for: only
\* its own entry is dated, none changes.
LEMMA RequestStep ==
  ASSUME TableInv, TypeOK', AgeTypes, Requested, NEW c \in Callsigns,
         connect_req_process(c, req_size[c]), req_size[c] \in ReqSizes,
         age' = [i \in Slots |-> Dated(i)]
  PROVE  /\ TableKept
         /\ answer'.type = "ACK" => Stands(c, answer)' /\ age'[answer'.id] = 0
         /\ \A i \in Slots, d \in Callsigns :
              callsign'[i] = d => IP_size'[i] = req_size[d]
<1> USE DEF TableInv
<1>1. ~ ResizeEntry(c, req_size[c])
  BY DEF ResizeEntry, IsExistingEntry, Matching, Requested
<1>2. \A i \in Slots : age[i] \in Nat /\ Dated(i) \in {0, age[i]}
  BY Bounds DEF AgeTypes, Dated
<1>3. ASSUME NEW i \in Slots, answer' = Ack(c, i, IP_begin'[i], IP_size'[i]), status'[i] = 1,
             callsign'[i] = c
      PROVE  Stands(c, answer)' /\ age'[answer'.id] = 0
  <2>1. /\ answer'.type = "ACK" /\ answer'.id = i
        /\ answer'.begin = IP_begin'[i] /\ answer'.size = IP_size'[i]
    BY <1>3 DEF Ack
  <2>2. age'[i] = 0
    BY <2>1 DEF Dated
  <2> QED
    BY <1>3, <2>1, <2>2 DEF Stands, Live
<1>4. CASE ReuseEntry(c, req_size[c])
  <2>1. PICK i \in Slots : /\ callsign[i] = c /\ IP_size[i] = req_size[c]
                           /\ status' = [status EXCEPT ![i] = 1]
                           /\ answer' = Ack(c, i, IP_begin[i], IP_size[i])
                           /\ UNCHANGED <<callsign, IP_begin, IP_size, pool>>
    BY <1>4 DEF ReuseEntry, IsExistingEntry, Matching
  <2>2. TableKept
    BY <2>1, <1>2 DEF TableKept, Live, TypeOK
  <2>3. status'[i] = 1
    BY <2>1 DEF TypeOK
  <2> QED
    BY <1>3, <2>1, <2>2, <2>3 DEF Requested
<1>5. CASE NewEntry(c, req_size[c])
  <2>1. ASSUME UNCHANGED <<status, callsign, IP_begin, IP_size, pool>>, answer'.type = "NACK"
        PROVE  TableKept /\ answer'.type # "ACK" /\ UNCHANGED <<callsign, IP_size>>
    BY <2>1, <1>2 DEF TableKept, Live
  <2>2. ASSUME NEW i \in Slots, NEW p, status[i] = 0, Book(c, i, p, req_size[c])
        PROVE  /\ TableKept
               /\ Stands(c, answer)' /\ age'[answer'.id] = 0
               /\ \A j \in Slots, d \in Callsigns : callsign'[j] = d => IP_size'[j] = req_size[d]
    <3>1. /\ status'[i] = 1 /\ callsign'[i] = c /\ IP_begin'[i] = p /\ IP_size'[i] = req_size[c]
          /\ \A j \in Slots \ {i} : /\ status'[j] = status[j] /\ callsign'[j] = callsign[j]
                                    /\ IP_begin'[j] = IP_begin[j] /\ IP_size'[j] = IP_size[j]
      BY <2>2 DEF Book, TypeOK
    <3>2. TableKept
      BY <2>2, <3>1, <1>2 DEF TableKept, Live
    <3>3. answer' = Ack(c, i, IP_begin'[i], IP_size'[i])
      BY <2>2, <3>1 DEF Book
    <3> QED
      BY <1>3, <3>1, <3>2, <3>3 DEF Requested
  <2>3. \/ UNCHANGED <<status, callsign, IP_begin, IP_size, pool>> /\ answer'.type = "NACK"
        \/ \E i \in Slots, p \in Fitting(Live, req_size[c]) :
             status[i] = 0 /\ Book(c, i, p, req_size[c])
    BY <1>5 DEF NewEntry, IsFirstFree, Nack
  <2>4. CASE UNCHANGED <<status, callsign, IP_begin, IP_size, pool>> /\ answer'.type = "NACK"
    BY <2>1, <2>4 DEF Requested
  <2> QED
    BY <2>2, <2>3, <2>4
<1> QED
  BY <1>1, <1>4, <1>5 DEF connect_req_process

LEMMA RequestedStep ==
  TableInv /\ TypeOK' /\ RegTypes /\ Requested /\ [Next]_vars => Requested'
<1> SUFFICES ASSUME TableInv, TypeOK', RegTypes, Requested, [Next]_vars PROVE Requested'
  OBVIOUS
<1> DEFINE Asked(c) == \A n \in 1 .. Len(up[c]) : up[c][n].size = req_size[c]
           Given == \A i \in Slots, c \in Callsigns : callsign[i] = c => IP_size[i] = req_size[c]
<1>1. (\A c \in Callsigns : Asked(c)) /\ Given
  BY DEF Requested
<1>2. UNCHANGED req_size
  BY DEF Next, Periodic, Radio, ClientOperator, MasterPeriodic, EndRound, ClientPeriodic,
         MasterReceive, ClientReceive, LoseUp, LoseDown, RadioOff, RadioOn, ClientReboot,
         vars, clientVars
<1>3. \A c \in Callsigns : up[c] \in Seq(UpFrames) /\ req_size[c] \in ReqSizes
                           /\ Len(up[c]) <= MaxLink
  BY DEF RegTypes, UpTypes
<1>4. Given'
  <2>1. CASE UNCHANGED <<callsign, IP_size>>
    BY <1>1, <1>2, <2>1
  <2>2. ASSUME NEW c \in Callsigns, MasterReceive(c) PROVE Given'
    <3>1. /\ up[c] # <<>>
          /\ \/ /\ connect_req_process(c, Head(up[c]).size)
                /\ age' = [i \in Slots |-> Dated(i)]
             \/ TableIdle
      BY <2>2 DEF MasterReceive
    <3>2. Head(up[c]).size = req_size[c]
      BY <1>1, <1>3, <3>1, TailLink
    <3>3. CASE TableIdle
      BY <2>1, <3>3 DEF TableIdle, answer_pushed
    <3> QED
      BY <1>2, <1>3, <3>1, <3>2, <3>3, RequestStep DEF RegTypes
  <2> QED
    BY <2>1, <2>2
    DEF Next, Periodic, Radio, ClientOperator, MasterPeriodic, free_expired, EndRound,
        ClientPeriodic, ClientReceive, LoseUp, LoseDown, RadioOff, RadioOn, ClientReboot,
        TableIdle, answer_pushed, vars, tableVars
<1>5. ASSUME NEW c \in Callsigns, UNCHANGED up PROVE Asked(c)'
  BY <1>1, <1>2, <1>5
<1>6. ASSUME NEW c \in Callsigns, NEW d \in Callsigns,
             NEW link, up' = [up EXCEPT ![d] = link],
             \A n \in 1 .. Len(link) : link[n].size = req_size[d]
      PROVE  Asked(c)'
  <2>1. up'[c] = IF c = d THEN link ELSE up[c]
    BY <1>6 DEF RegTypes, UpTypes
  <2> QED
    BY <1>1, <1>2, <1>6, <2>1
<1>7. ASSUME NEW c \in Callsigns, NEW d \in Callsigns,
             \/ up' = [up EXCEPT ![d] = <<>>]
             \/ up[d] # <<>> /\ up' = [up EXCEPT ![d] = Tail(up[d])]
      PROVE  Asked(c)'
  <2>1. \A n \in 1 .. Len(<<>>) : <<>>[n].size = req_size[d]
    OBVIOUS
  <2>2. CASE up' = [up EXCEPT ![d] = <<>>]
    BY <1>6, <2>1, <2>2
  <2>3. CASE up[d] # <<>> /\ up' = [up EXCEPT ![d] = Tail(up[d])]
    <3>1. \A n \in 1 .. Len(Tail(up[d])) : Tail(up[d])[n].size = req_size[d]
      BY <1>1, <1>3, <2>3, TailLink
    <3> QED
      BY <1>6, <2>3, <3>1
  <2> QED
    BY <1>7, <2>2, <2>3
<1>8. ASSUME NEW c \in Callsigns, NEW d \in Callsigns, ClientPeriodic(d) PROVE Asked(c)'
  <2> DEFINE request == Request(client_ID[d], req_size[d])
             link == Push(up[d], request)
  <2>1. request \in UpFrames /\ request.size = req_size[d]
    BY <1>3 DEF Request, UpFrames, RegTypes, ClientTypes
  <2>2. \/ up' = [up EXCEPT ![d] = <<>>] \/ up' = [up EXCEPT ![d] = up[d]]
        \/ up' = [up EXCEPT ![d] = link]
    BY <1>8 DEF ClientPeriodic
  <2> HIDE DEF request
  <2>3. \A n \in 1 .. Len(link) : link[n].size = req_size[d]
    <3>1. \A n \in 1 .. Len(link) :
            \/ link[n] = request
            \/ n \in 1 .. Len(up[d]) /\ link[n] = up[d][n]
      <4>1. up[d] \in Seq(UpFrames) /\ Len(up[d]) <= MaxLink
        BY <1>3
      <4> QED
        BY <2>1, <4>1, LinkAssumption DEF Push
    <3> QED
      BY <1>1, <2>1, <3>1
  <2> HIDE DEF link
  <2>4. CASE up' = [up EXCEPT ![d] = <<>>]
    BY <1>7, <2>4
  <2>5. CASE up' = [up EXCEPT ![d] = up[d]]
    BY <1>1, <1>6, <2>5
  <2>6. CASE up' = [up EXCEPT ![d] = link]
    BY <1>6, <2>3, <2>6
  <2> QED
    BY <2>2, <2>4, <2>5, <2>6
<1>9. ASSUME NEW c \in Callsigns, EndRound(Callsigns) PROVE Asked(c)'
  BY <1>5, <1>9 DEF EndRound
<1>10. \A c \in Callsigns : Asked(c)'
  <2> TAKE c \in Callsigns
  <2>1. CASE Periodic
    BY <1>5, <1>8, <1>9, <2>1 DEF Periodic, MasterPeriodic
  <2>2. CASE Radio
    BY <1>5, <1>7, <2>2 DEF Radio, MasterReceive, ClientReceive, LoseUp, LoseDown
  <2>3. CASE ClientOperator
    BY <1>5, <1>7, <2>3 DEF ClientOperator, RadioOff, RadioOn, ClientReboot
  <2>4. CASE UNCHANGED vars
    BY <1>5, <2>4 DEF vars
  <2> QED
    BY <2>1, <2>2, <2>3, <2>4 DEF Next
<1> QED
  BY <1>4, <1>10 DEF Requested

\* Answers of which only the body counts keep their truth where the entries are
\* kept and no call of the master intervenes.
LEMMA AnswersAfter ==
  ASSUME TableKept, UNCHANGED ticked, RegTypes, AgeTypes', NEW c \in Callsigns, AnswersStand(c),
         \A n \in 1 .. Len(down'[c]) :
           \/ AnswerStands(c, down[c][n])'
           \/ \E k \in 1 .. Len(down[c]) : down'[c][n] = down[c][k]
  PROVE  AnswersStand(c)'
<1>1. ASSUME NEW k \in 1 .. Len(down[c]), NEW f, f = down[c][k],
             f.body.type = "ACK" /\ f.delay < SureRounds
      PROVE  Stands(c, f.body)' /\ age'[f.body.id] <= f.delay + Swept
  <2>1. Stands(c, f.body) /\ age[f.body.id] <= f.delay + Swept
    BY <1>1 DEF AnswersStand, AnswerStands
  <2>2. Stands(c, f.body)' /\ age'[f.body.id] <= age[f.body.id]
    BY <2>1 DEF Stands, TableKept
  <2>3. age'[f.body.id] \in Nat /\ age[f.body.id] \in Nat
    BY <2>1, Bounds DEF Stands, Live, AgeTypes, RegTypes
  <2>4. f.delay \in Nat /\ Swept \in Nat
    <3>1. down[c] \in Seq(DownFrames)
      BY DEF RegTypes, DownTypes
    <3>2. f \in DownFrames
      BY <1>1, <3>1
    <3> QED
      BY <3>2, Bounds DEF DownFrames, Swept
  <2> QED
    BY <2>1, <2>2, <2>3, <2>4
<1>2. ASSUME NEW n \in 1 .. Len(down'[c]) PROVE AnswerStands(c, down[c][n])'
  <2>1. CASE \E k \in 1 .. Len(down[c]) : down'[c][n] = down[c][k]
    <3>1. PICK k \in 1 .. Len(down[c]) : down'[c][n] = down[c][k]
      BY <2>1
    <3>2. \A f : f = down[c][k] /\ f.body.type = "ACK" /\ f.delay < SureRounds =>
                   Stands(c, f.body)' /\ age'[f.body.id] <= f.delay + Swept
      BY <1>1
    <3> QED
      BY <3>1, <3>2 DEF AnswerStands, Stands, Live, Swept
  <2> QED
    BY <2>1
<1> QED
  BY <1>2 DEF AnswersStand

LEMMA ClientAfter ==
  ASSUME TableKept, UNCHANGED ticked, RegTypes, AgeTypes', NEW c \in Callsigns, ClientStands(c),
         state'[c] = state[c], client_ID'[c] = client_ID[c], block'[c] = block[c],
         since'[c] = since[c]
  PROVE  ClientStands(c)'
<1>1. SUFFICES ASSUME Fresh(c)'
               PROVE  Agree(c)' /\ (age[client_ID[c]] <= since[c] + Swept)'
  BY DEF ClientStands
<1>2. Fresh(c)
  BY <1>1 DEF Fresh
<1>3. Agree(c) /\ age[client_ID[c]] <= since[c] + Swept
  BY <1>2 DEF ClientStands
<1>4. Agree(c)' /\ age'[client_ID[c]] <= age[client_ID[c]]
  BY <1>3 DEF Agree, TableKept
<1>5. Swept' = Swept
  BY DEF Swept
<1>6. /\ age'[client_ID[c]] \in Nat /\ age[client_ID[c]] \in Nat
      /\ since[c] \in Nat /\ Swept \in Nat
  BY <1>3, Bounds DEF Agree, Live, RegTypes, AgeTypes, SinceTypes, Swept
<1> QED
  BY <1>3, <1>4, <1>5, <1>6

\* What the two timeouts leave: an entry that an answer under way or a client
\* relies on is never as old as the master frees it.
LEMMA SweepAgrees ==
  ASSUME RegTypes, AgeTypes', MasterPeriodic, NEW c \in Callsigns,
         AnswersStand(c), ClientStands(c)
  PROVE  AnswersStand(c)' /\ ClientStands(c)'
<1>1. PICK expired \in SUBSET MaybeOverdue :
         /\ free_expired(expired)
         /\ age' = [i \in Slots |->
                      IF i \in Live \ expired THEN Bump(age[i], connexion_timeout) ELSE 0]
  BY DEF MasterPeriodic
<1>2. Swept = 0 /\ Swept' = 1
  BY DEF MasterPeriodic, Swept
<1>3. /\ SureRounds \in Nat /\ connexion_timeout \in Nat
      /\ SureRounds + 1 <= connexion_timeout
  BY CallsAssumption
<1>4. ASSUME NEW i \in Live, age[i] <= connexion_timeout - 2
      PROVE  /\ i \in Live' /\ callsign'[i] = callsign[i]
             /\ IP_begin'[i] = IP_begin[i] /\ IP_size'[i] = IP_size[i]
             /\ age'[i] <= age[i] + 1 /\ age[i] \in Nat /\ age'[i] \in Nat
  <2>1. i \in Slots /\ age[i] \in Nat /\ age'[i] \in Nat
    BY Bounds DEF Live, RegTypes, AgeTypes
  <2>2. i \notin expired
    BY <1>1, <1>3, <1>4, <2>1 DEF MaybeOverdue
  <2>3. status'[i] = status[i] /\ UNCHANGED <<callsign, IP_begin, IP_size>>
    BY <1>1, <2>1, <2>2 DEF free_expired
  <2>4. age'[i] <= age[i] + 1
    BY <1>1, <2>1, <2>2, Bounds DEF Bump
  <2> QED
    BY <2>1, <2>3, <2>4 DEF Live
<1>5. UNCHANGED <<down, state, client_ID, block, since>>
  BY DEF MasterPeriodic, clientVars
<1>6. AnswersStand(c)'
  <2>1. SUFFICES ASSUME NEW n \in 1 .. Len(down[c]), down[c][n].body.type = "ACK",
                        down[c][n].delay < SureRounds
                 PROVE  /\ Stands(c, down[c][n].body)'
                        /\ age'[down[c][n].body.id] <= down[c][n].delay + 1
    BY <1>2, <1>5 DEF AnswersStand, AnswerStands
  <2> DEFINE f == down[c][n]
  <2>2. f.delay \in Nat
    <3>1. down[c] \in Seq(DownFrames)
      BY DEF RegTypes, DownTypes
    <3>2. f \in DownFrames
      BY <3>1
    <3> HIDE DEF f
    <3> QED
      BY <3>2, CallsAssumption DEF DownFrames
  <2>3. Stands(c, f.body) /\ age[f.body.id] <= f.delay
    BY <1>2, <2>1, <2>2 DEF AnswersStand, AnswerStands
  <2>4. f.body.id \in Live /\ age[f.body.id] \in Nat
    <3>1. f.body.id \in Live
      BY <2>3 DEF Stands
    <3>2. \A i \in Live : age[i] \in Nat
      BY Bounds DEF Live, RegTypes, AgeTypes
    <3> QED
      BY <3>1, <3>2
  <2>5. age[f.body.id] <= connexion_timeout - 2
    BY <1>3, <2>1, <2>2, <2>3, <2>4
  <2>6. /\ f.body.id \in Live' /\ callsign'[f.body.id] = callsign[f.body.id]
        /\ IP_begin'[f.body.id] = IP_begin[f.body.id] /\ IP_size'[f.body.id] = IP_size[f.body.id]
        /\ age'[f.body.id] <= age[f.body.id] + 1 /\ age'[f.body.id] \in Nat
    BY <1>4, <2>4, <2>5
  <2>7. Stands(c, f.body)'
    BY <1>5, <2>3, <2>6 DEF Stands
  <2> QED
    BY <2>2, <2>3, <2>4, <2>6, <2>7
<1>7. ClientStands(c)'
  <2>1. SUFFICES ASSUME Fresh(c)'
                 PROVE  Agree(c)' /\ age'[client_ID[c]] <= since[c] + 1
    BY <1>2, <1>5 DEF ClientStands
  <2>2. Fresh(c) /\ since[c] < SureRounds
    BY <1>5, <2>1 DEF Fresh
  <2>3. Agree(c) /\ age[client_ID[c]] <= since[c] /\ since[c] \in Nat
    <3>1. since[c] \in Nat
      BY Bounds DEF RegTypes, SinceTypes
    <3> QED
      BY <1>2, <2>2, <3>1 DEF ClientStands
  <2>4. client_ID[c] \in Live /\ age[client_ID[c]] \in Nat
    BY <2>3, Bounds DEF Agree, Live, RegTypes, AgeTypes
  <2>5. age[client_ID[c]] <= connexion_timeout - 2
    BY <1>3, <2>2, <2>3, <2>4
  <2>6. /\ client_ID[c] \in Live' /\ callsign'[client_ID[c]] = callsign[client_ID[c]]
        /\ IP_begin'[client_ID[c]] = IP_begin[client_ID[c]]
        /\ IP_size'[client_ID[c]] = IP_size[client_ID[c]]
        /\ age'[client_ID[c]] <= age[client_ID[c]] + 1 /\ age'[client_ID[c]] \in Nat
    BY <1>4, <2>4, <2>5
  <2>7. Agree(c)'
    BY <1>5, <2>3, <2>6 DEF Agree
  <2> QED
    BY <2>3, <2>4, <2>6, <2>7
<1> QED
  BY <1>6, <1>7

\* A round later every answer is a round older, and the master has not called.
LEMMA RoundAgrees ==
  ASSUME RegTypes, EndRound(Callsigns), NEW c \in Callsigns, AnswersStand(c), ClientStands(c)
  PROVE  AnswersStand(c)' /\ ClientStands(c)'
<1>1. /\ Swept = 1 /\ Swept' = 0
      /\ down'[c] = Older(down[c]) /\ down[c] \in Seq(DownFrames)
      /\ since'[c] = Bump(since[c], SureRounds)
  BY DEF EndRound, Swept, RegTypes, DownTypes
<1>2. UNCHANGED <<status, callsign, IP_begin, IP_size, age, state, client_ID, block>>
  BY DEF EndRound, TableIdle, answer_pushed, clientVars
<1>3. \A n \in 0 .. SureRounds :
        Bump(n, SureRounds) < SureRounds => n < SureRounds /\ Bump(n, SureRounds) = n + 1
  BY CallsAssumption DEF Bump
<1>4. AnswersStand(c)'
  <2>1. SUFFICES ASSUME NEW n \in 1 .. Len(down[c]) PROVE AnswerStands(c, down[c][n])'
    BY <1>1, OlderLink DEF AnswersStand
  <2>2. /\ down'[c][n].body = down[c][n].body
        /\ down'[c][n].delay = Bump(down[c][n].delay, SureRounds)
    BY <1>1, OlderLink
  <2>3. AnswerStands(c, down[c][n])
    BY DEF AnswersStand
  <2>4. Stands(c, down[c][n].body) => Stands(c, down[c][n].body)'
    BY <1>2, <2>2 DEF Stands, Live
  <2>5. down[c][n].delay \in 0 .. SureRounds
    <3>1. down[c][n] \in DownFrames
      BY <1>1
    <3> QED
      BY <3>1 DEF DownFrames
  <2> QED
    BY <1>1, <1>2, <1>3, <2>2, <2>3, <2>4, <2>5 DEF AnswerStands
<1>5. ClientStands(c)'
  <2>1. since[c] \in 0 .. SureRounds
    BY DEF RegTypes, SinceTypes
  <2> QED
    BY <1>1, <1>2, <1>3, <2>1 DEF ClientStands, Fresh, Agree, Live
<1> QED
  BY <1>4, <1>5

\* A client that makes its call goes on as it did, or gives up.
LEMMA CallAgrees ==
  ASSUME RegTypes, NEW d \in Callsigns, ClientPeriodic(d),
         NEW c \in Callsigns, AnswersStand(c), ClientStands(c)
  PROVE  AnswersStand(c)' /\ ClientStands(c)'
<1>1. UNCHANGED <<status, callsign, IP_begin, IP_size, age, down, block, since>>
  BY DEF ClientPeriodic, TableIdle, answer_pushed
<1>2. Swept' = Swept
  BY MasterAssumption DEF ClientPeriodic, Swept
<1>3. AnswersStand(c)'
  BY <1>1, <1>2 DEF AnswersStand, AnswerStands, Stands, Live
<1>4. state'[c] = 1 \/ (state'[c] = state[c] /\ client_ID'[c] = client_ID[c])
  BY DEF ClientPeriodic, RegTypes, ClientTypes
<1> QED
  BY <1>1, <1>2, <1>3, <1>4 DEF ClientStands, Fresh, Agree, Live

\* An answer is as new as the date of its entry.
LEMMA AnswerAgrees ==
  ASSUME TableInv, TypeOK', RegTypes, RegTypes', Requested, NEW d \in Callsigns, MasterReceive(d),
         NEW c \in Callsigns, AnswersStand(c), ClientStands(c)
  PROVE  AnswersStand(c)' /\ ClientStands(c)'
<1>1. UNCHANGED <<state, client_ID, block, since, ticked>>
  BY DEF MasterReceive, clientVars, timeVars
<1>2. CASE TableIdle /\ UNCHANGED down
  <2>1. TableKept
    <3>1. \A i \in Live : age[i] \in Nat
      BY Bounds DEF RegTypes, AgeTypes, Live
    <3> QED
      BY <1>2, <3>1 DEF TableKept, Live, TableIdle, answer_pushed
  <2>2. AnswersStand(c)'
    BY <1>1, <1>2, <2>1, AnswersAfter DEF RegTypes
  <2> QED
    BY <1>1, <2>1, <2>2, ClientAfter DEF RegTypes
<1>3. CASE /\ connect_req_process(d, Head(up[d]).size)
           /\ age' = [i \in Slots |-> Dated(i)]
           /\ down' = [down EXCEPT ![d] = Push(down[d], Answer(answer'))]
  <2>1. connect_req_process(d, req_size[d]) /\ req_size[d] \in ReqSizes
    <3>1. up[d] # <<>> /\ up[d] \in Seq(UpFrames) /\ req_size[d] \in ReqSizes
      BY DEF MasterReceive, RegTypes, UpTypes
    <3>2. Head(up[d]).size = req_size[d]
      BY <3>1, TailLink DEF Requested
    <3> QED
      BY <1>3, <3>1, <3>2
  <2>2. /\ TableKept
        /\ answer'.type = "ACK" => Stands(d, answer)' /\ age'[answer'.id] = 0
    BY <1>3, <2>1, RequestStep DEF RegTypes
  <2>3. ClientStands(c)'
    BY <1>1, <2>2, ClientAfter DEF RegTypes
  <2>4. ASSUME NEW n \in 1 .. Len(down'[c])
        PROVE  \/ AnswerStands(c, down[c][n])'
               \/ \E k \in 1 .. Len(down[c]) : down'[c][n] = down[c][k]
    <3> DEFINE frame == Answer(answer')
    <3>1. /\ frame \in DownFrames /\ frame.body = answer' /\ frame.delay = 0
      BY Bounds DEF TypeOK, Answer, DownFrames
    <3>2. down'[c] = IF c = d THEN Push(down[c], frame) ELSE down[c]
      BY <1>3 DEF RegTypes, DownTypes
    <3> HIDE DEF frame
    <3>3. down[c] \in Seq(DownFrames) /\ Len(down[c]) <= MaxLink
      BY DEF RegTypes, DownTypes
    <3>4. \/ c = d /\ down'[c][n] = frame
          \/ \E k \in 1 .. Len(down[c]) : down'[c][n] = down[c][k]
      <4>1. CASE c # d
        BY <2>4, <3>2, <4>1
      <4>2. CASE c = d
        <5>1. \A k \in 1 .. Len(Push(down[c], frame)) :
                \/ Push(down[c], frame)[k] = frame
                \/ k \in 1 .. Len(down[c]) /\ Push(down[c], frame)[k] = down[c][k]
          BY <3>1, <3>3, LinkAssumption DEF Push
        <5> QED
          BY <2>4, <3>2, <4>2, <5>1
      <4> QED
        BY <4>1, <4>2
    <3>5. ASSUME c = d, down'[c][n] = frame PROVE AnswerStands(c, down[c][n])'
      <4>1. down'[c][n].body = answer' /\ down'[c][n].delay = 0 /\ Swept' \in Nat
        BY <3>1, <3>5 DEF Swept
      <4> QED
        BY <2>2, <3>5, <4>1 DEF AnswerStands, Stands, Live
    <3> QED
      BY <3>4, <3>5
  <2> QED
    BY <1>1, <2>2, <2>3, <2>4, AnswersAfter DEF RegTypes
<1> QED
  BY <1>2, <1>3 DEF MasterReceive

\* A client that takes an answer that stands is right about its entry, whose date
\* is no older than the answer may be.
LEMMA TakingAgrees ==
  ASSUME RegTypes, RegTypes', NEW d \in Callsigns, ClientReceive(d),
         NEW c \in Callsigns, AnswersStand(c), ClientStands(c)
  PROVE  AnswersStand(c)' /\ ClientStands(c)'
<1>1. /\ UNCHANGED <<status, callsign, IP_begin, IP_size, age, ticked>>
      /\ down[d] # <<>> /\ down' = [down EXCEPT ![d] = Tail(down[d])]
  BY DEF ClientReceive, TableIdle, answer_pushed, timeVars
<1>2. TableKept
  <2>1. \A i \in Live : age[i] \in Nat
    BY Bounds DEF RegTypes, AgeTypes, Live
  <2> QED
    BY <1>1, <2>1 DEF TableKept, Live
<1>3. /\ \A e \in Callsigns : down[e] \in Seq(DownFrames)
      /\ \A e \in Callsigns : down'[e] = IF e = d THEN Tail(down[d]) ELSE down[e]
  BY <1>1 DEF RegTypes, DownTypes
<1>4. \A n \in 1 .. Len(down'[c]) : \E k \in 1 .. Len(down[c]) : down'[c][n] = down[c][k]
  BY <1>1, <1>3, TailLink
<1>5. AnswersStand(c)'
  BY <1>1, <1>2, <1>4, AnswersAfter DEF RegTypes
<1>6. CASE c # d
  <2>1. /\ state'[c] = state[c] /\ client_ID'[c] = client_ID[c] /\ block'[c] = block[c]
        /\ since'[c] = since[c]
    <3> USE DEF RegTypes, ClientTypes, SinceTypes
    <3>1. ASSUME NEW ack, connect_ACK_process(d, ack)
          PROVE  state'[c] = state[c] /\ client_ID'[c] = client_ID[c] /\ block'[c] = block[c]
      BY <1>6, <3>1 DEF connect_ACK_process
    <3>2. ASSUME connect_NACK_process(d)
          PROVE  state'[c] = state[c] /\ client_ID'[c] = client_ID[c] /\ block'[c] = block[c]
      BY <1>6, <3>2 DEF connect_NACK_process
    <3>3. since'[c] = since[c]
      BY <1>6 DEF ClientReceive
    <3> QED
      BY <3>1, <3>2, <3>3 DEF ClientReceive
  <2> QED
    BY <1>1, <1>2, <1>5, <2>1, ClientAfter DEF RegTypes
<1>7. CASE c = d
  <2> DEFINE received == Head(down[c])
  <2>1. /\ received = down[c][1] /\ 1 \in 1 .. Len(down[c]) /\ received \in DownFrames
    BY <1>1, <1>3, <1>7, TailLink
  <2>2. received.delay \in 0 .. SureRounds /\ AnswerStands(c, received)
    BY <2>1 DEF DownFrames, AnswersStand
  <2>3. \/ /\ received.body.type = "ACK" /\ connect_ACK_process(c, received.body)
           /\ since' = [since EXCEPT ![c] = received.delay]
        \/ connect_NACK_process(c)
    BY <1>7 DEF ClientReceive
  <2> HIDE DEF received
  <2>4. CASE /\ received.body.type = "ACK" /\ connect_ACK_process(c, received.body)
             /\ since' = [since EXCEPT ![c] = received.delay]
    <3>1. /\ client_ID'[c] = received.body.id /\ since'[c] = received.delay
          /\ block'[c] = [begin |-> received.body.begin, size |-> received.body.size]
      BY <2>4 DEF connect_ACK_process, RegTypes, ClientTypes, SinceTypes
    <3>2. SUFFICES ASSUME received.delay < SureRounds
                   PROVE  Agree(c)' /\ (age[client_ID[c]] <= since[c] + Swept)'
      BY <1>5, <3>1 DEF ClientStands, Fresh
    <3>3. Stands(c, received.body) /\ age[received.body.id] <= received.delay + Swept
      BY <2>2, <2>4, <3>2 DEF AnswerStands
    <3>4. Agree(c)'
      BY <1>1, <3>1, <3>3 DEF Stands, Agree, Live
    <3>5. Swept' = Swept /\ age'[client_ID'[c]] = age[received.body.id]
      BY <1>1, <3>1 DEF Swept
    <3> QED
      BY <3>1, <3>3, <3>4, <3>5
  <2>5. CASE connect_NACK_process(c)
    <3>1. state'[c] = 3
      BY <2>5 DEF connect_NACK_process, RegTypes, ClientTypes
    <3> QED
      BY <1>5, <3>1 DEF ClientStands, Fresh
  <2> QED
    BY <2>3, <2>4, <2>5
<1> QED
  BY <1>6, <1>7

\* Nothing else makes a client fresh or an answer.
LEMMA OtherStepsAgree ==
  ASSUME RegTypes, RegTypes', NEW d \in Callsigns,
         LoseUp(d) \/ LoseDown(d) \/ RadioOff(d) \/ RadioOn(d) \/ ClientReboot(d),
         NEW c \in Callsigns, AnswersStand(c), ClientStands(c)
  PROVE  AnswersStand(c)' /\ ClientStands(c)'
<1>1. UNCHANGED <<status, callsign, IP_begin, IP_size, age, ticked>>
  BY DEF LoseUp, LoseDown, RadioOff, RadioOn, ClientReboot, TableIdle, answer_pushed,
         timeVars, Intervene
<1>2. TableKept
  <2>1. \A i \in Live : age[i] \in Nat
    BY Bounds DEF RegTypes, AgeTypes, Live
  <2> QED
    BY <1>1, <2>1 DEF TableKept, Live
<1>3. \A n \in 1 .. Len(down'[c]) : \E k \in 1 .. Len(down[c]) : down'[c][n] = down[c][k]
  <2>1. CASE UNCHANGED down
    BY <2>1
  <2>2. CASE LoseDown(d)
    <3>1. /\ down[d] \in Seq(DownFrames) /\ down[d] # <<>>
          /\ down'[c] = IF c = d THEN Tail(down[d]) ELSE down[c]
      BY <2>2 DEF LoseDown, RegTypes, DownTypes
    <3> QED
      BY <3>1, TailLink
  <2> QED
    BY <2>1, <2>2 DEF LoseUp, RadioOff, RadioOn, ClientReboot
<1>4. AnswersStand(c)'
  BY <1>1, <1>2, <1>3, AnswersAfter DEF RegTypes
<1>5. \/ state'[c] = 1
      \/ /\ state'[c] = state[c] /\ client_ID'[c] = client_ID[c] /\ block'[c] = block[c]
         /\ since'[c] = since[c]
  <2>1. CASE LoseUp(d) \/ LoseDown(d)
    BY <2>1 DEF LoseUp, LoseDown, clientVars
  <2>2. ASSUME Disconnected(d) PROVE state'[c] = 1 \/ c # d
    BY <2>2 DEF Disconnected, RegTypes, ClientTypes
  <2>3. ASSUME c # d, RadioOff(d) \/ RadioOn(d)
        PROVE  /\ state'[c] = state[c] /\ client_ID'[c] = client_ID[c]
               /\ block'[c] = block[c] /\ since'[c] = since[c]
    BY <2>3 DEF RadioOff, RadioOn, Disconnected, RegTypes, ClientTypes
  <2>4. ASSUME c # d, ClientReboot(d)
        PROVE  /\ state'[c] = state[c] /\ client_ID'[c] = client_ID[c]
               /\ block'[c] = block[c] /\ since'[c] = since[c]
    BY <2>4 DEF ClientReboot, Disconnected, RegTypes, ClientTypes
  <2>5. RadioOff(d) \/ RadioOn(d) \/ ClientReboot(d) => Disconnected(d)
    BY DEF RadioOff, RadioOn, ClientReboot
  <2> QED
    BY <2>1, <2>2, <2>3, <2>4, <2>5
<1>6. CASE state'[c] = 1
  BY <1>4, <1>6 DEF ClientStands, Fresh
<1>7. CASE /\ state'[c] = state[c] /\ client_ID'[c] = client_ID[c] /\ block'[c] = block[c]
           /\ since'[c] = since[c]
  BY <1>1, <1>2, <1>4, <1>7, ClientAfter DEF RegTypes
<1> QED
  BY <1>5, <1>6, <1>7

LEMMA AgreeStep ==
  TableInv /\ RegTypes /\ Requested /\ AgreeInv /\ [Next]_vars => AgreeInv'
<1> SUFFICES ASSUME TableInv, RegTypes, Requested, AgreeInv, [Next]_vars,
                    NEW c \in Callsigns
             PROVE  AnswersStand(c)' /\ ClientStands(c)'
  BY DEF AgreeInv
<1>1. AnswersStand(c) /\ ClientStands(c)
  BY DEF AgreeInv
<1>2. TableInv' /\ RegTypes'
  BY CellStep DEF FullNext
<1>3. TypeOK' /\ AgeTypes'
  BY <1>2 DEF RegTypes, TableInv
<1>4. CASE Periodic
  BY <1>1, <1>3, <1>4, SweepAgrees, RoundAgrees, CallAgrees DEF Periodic
<1>5. CASE Radio
  BY <1>1, <1>2, <1>3, <1>5, AnswerAgrees, TakingAgrees, OtherStepsAgree DEF Radio
<1>6. CASE ClientOperator
  BY <1>1, <1>2, <1>6, OtherStepsAgree DEF ClientOperator
<1>7. CASE UNCHANGED vars
  BY <1>1, <1>7
  DEF vars, tableVars, clientVars, timeVars, AnswersStand, AnswerStands, Stands, ClientStands,
      Fresh, Agree, Live, Swept
<1> QED
  BY <1>4, <1>5, <1>6, <1>7 DEF Next

RegInv == TableInv /\ RegTypes /\ Requested /\ AgreeInv

LEMMA RegInvariant == Spec => []RegInv
<1>1. Init => Requested /\ AgreeInv
  <2>1. Init => Requested
    BY CallsignAssumption DEF Init, Requested, TableInit, NoCallsigns
  <2>2. Init => AgreeInv
    BY DEF Init, AgreeInv, AnswersStand, ClientStands, Fresh
  <2> QED
    BY <2>1, <2>2
<1>2. TableInv /\ TableInv' /\ RegTypes /\ Requested /\ AgreeInv /\ [Next]_vars
        => Requested' /\ AgreeInv'
  BY RequestedStep, AgreeStep DEF TableInv
<1>3. Spec => [](TableInv /\ RegTypes)
  BY SpecIsFull, CellInvariant, PTL
<1> QED
  BY <1>1, <1>2, <1>3, PTL DEF Spec, RegInv

\* Until SureRounds rounds after an answer was made, the master holds an entry for
\* the client that took it, under the client ID it transmits with and with the
\* block it serves: for any number of clients, any timeouts, links that lose
\* frames and delay them for any time, radios switched off and on and clients that
\* reboot, as long as the master stays up and requests keep their size.  SureRounds
\* is any number below the master's timeout: what the master may free, counted from
\* the answer, is the only limit.
THEOREM FreshAgree == Spec => []FreshClientsAgree
<1>1. RegInv => FreshClientsAgree
  BY DEF FreshClientsAgree, RegInv, AgreeInv, ClientStands
<1> QED
  BY <1>1, RegInvariant, PTL

-----------------------------------------------------------------------------
(* Registration implements the lease service.                               *)

\* The lease of a client ID, if it has one, and the one a client believes in.
Booked(i) ==
  IF status[i] = 0 THEN NoAnswer
  ELSE LeaseOf(callsign[i], i, [begin |-> IP_begin[i], size |-> IP_size[i]])
Believed(c) == LeaseOf(c, client_ID[c], block[c])
Granted == [i \in Slots |-> Booked(i)]
Relied == {Believed(c) : c \in {d \in Callsigns : Fresh(d)}}

\* What is booked are leases, and what fresh clients believe in is booked.
LEMMA Leased ==
  ASSUME RegInv
  PROVE  /\ \A i \in Slots : Booked(i) = NoAnswer <=> status[i] = 0
         /\ \A i \in Live : Booked(i) \in Lessor!Leases
         /\ \A c \in Callsigns :
              Agree(c) <=> client_ID[c] \in Live /\ Booked(client_ID[c]) = Believed(c)
<1> USE DEF RegInv
<1>1. ASSUME NEW c, NEW i, NEW t PROVE LeaseOf(c, i, t) # NoAnswer
  <2>1. "holder" \in DOMAIN LeaseOf(c, i, t) /\ "holder" \notin DOMAIN NoAnswer
    BY DEF LeaseOf, NoAnswer
  <2> QED
    BY <2>1
<1>2. \A i \in Slots : Booked(i) = NoAnswer <=> status[i] = 0
  BY <1>1 DEF Booked
<1>3. ASSUME NEW i \in Live PROVE Booked(i) \in Lessor!Leases
  <2>1. i \in Slots /\ i \in Owned /\ callsign[i] \in Callsigns
    BY DEF TableInv, BlocksInPool, Owned, Live, TypeOK
  <2>2. IP_size[i] = req_size[callsign[i]] /\ req_size[callsign[i]] \in ReqSizes
    BY <2>1 DEF Requested, RegTypes, UpTypes
  <2>3. IP_begin[i] \in PoolAddresses
    <3>1. /\ pool \in Pools /\ pool.start \in Nat /\ pool.size \in Nat
          /\ InPool(i) /\ IP_begin[i] \in Nat /\ IP_size[i] \in Nat
      BY <2>1, PoolAssumption DEF TableInv, TypeOK, BlocksInPool
    <3>2. IP_begin[i] \in pool.start .. pool.start + pool.size
      BY <3>1 DEF InPool, PoolEnd
    <3> QED
      BY <3>1, <3>2 DEF PoolAddresses
  <2>4. Booked(i) = LeaseOf(callsign[i], i, [begin |-> IP_begin[i], size |-> IP_size[i]])
    BY DEF Booked, Live
  <2> QED
    BY <2>1, <2>2, <2>3, <2>4 DEF Lessor!Leases, LeaseOf
<1>4. ASSUME NEW c \in Callsigns
      PROVE  Agree(c) <=> client_ID[c] \in Live /\ Booked(client_ID[c]) = Believed(c)
  BY DEF Agree, Booked, Believed, LeaseOf, Live
<1> QED
  BY <1>2, <1>3, <1>4

\* The steps of the lease service in these terms.
LEMMA LessorSteps ==
  /\ \A l \in Lessor!Leases :
       \/ /\ Granted[l.id] = NoAnswer
          /\ \A i \in Slots : Granted[i] # NoAnswer => Granted[i].holder # l.holder
          /\ Granted' = [Granted EXCEPT ![l.id] = l] /\ Relied' = Relied
       \/ Granted[l.id] = l /\ Relied' = Relied \cup {l} /\ Granted' = Granted
       => Lessor!Next
  /\ \A gone \in SUBSET Relied :
       Relied' = Relied \ gone /\ Granted' = Granted => Lessor!Next
  /\ \A ids \in SUBSET Slots :
       /\ \A l \in Relied : l.id \notin ids
       /\ Granted' = [i \in Slots |-> IF i \in ids THEN NoAnswer ELSE Granted[i]]
       /\ Relied' = Relied
       => Lessor!Next
  /\ Granted' = Granted /\ Relied' = Relied => UNCHANGED Lessor!vars
BY DEF Granted, Relied, Booked, Believed, Lessor!Next, Lessor!Grant, Lessor!RelyOn,
       Lessor!Doubt, Lessor!TakeBack, Lessor!vars

\* A step of one client, the table left alone: it goes on as it did, doubts its
\* lease, or is told of the one it was granted.
LEMMA ClientMoves ==
  ASSUME RegInv, RegInv', FreshClientsAgree, FreshClientsAgree',
         UNCHANGED <<status, callsign, IP_begin, IP_size>>, NEW c \in Callsigns,
         \A d \in Callsigns \ {c} : Fresh(d)' = Fresh(d) /\ Believed(d)' = Believed(d)
  PROVE  Lessor!Next \/ UNCHANGED Lessor!vars
<1>1. Granted' = Granted /\ \A i \in Slots : Booked(i)' = Booked(i)
  BY DEF Granted, Booked
<1>2. ASSUME NEW d \in Callsigns, Fresh(d)
      PROVE  client_ID[d] \in Live /\ Booked(client_ID[d]) = Believed(d)
             /\ Believed(d) \in Lessor!Leases /\ Believed(d).holder = d
  BY <1>2, Leased DEF FreshClientsAgree, Believed, LeaseOf
<1>3. CASE ~ Fresh(c) /\ ~ Fresh(c)'
  <2>1. Relied' = Relied
    BY <1>3 DEF Relied
  <2> QED
    BY <1>1, <2>1, LessorSteps
<1>4. CASE Fresh(c) /\ ~ Fresh(c)'
  <2>1. Relied' = Relied \ {Believed(c)}
    <3>1. ASSUME NEW d \in Callsigns \ {c}, Fresh(d) PROVE Believed(d) # Believed(c)
      BY <1>2, <1>4, <3>1
    <3> QED
      BY <1>4, <3>1 DEF Relied
  <2> QED
    <3>1. {Believed(c)} \in SUBSET Relied
      BY <1>4 DEF Relied
    <3> QED
      BY <1>1, <2>1, <3>1, LessorSteps
<1>5. CASE Fresh(c)'
  <2>1. Agree(c)'
    BY <1>5 DEF FreshClientsAgree
  <2>2. PICK l : l = Believed(c)'
    OBVIOUS
  <2>3. /\ l.id \in Live /\ Booked(l.id) = l /\ callsign[l.id] = c
        /\ l \in Lessor!Leases /\ Granted[l.id] = l
    <3>1. l = LeaseOf(c, client_ID'[c], block'[c]) /\ l.id = client_ID'[c]
      BY <2>2 DEF Believed, LeaseOf
    <3>2. /\ l.id \in Live /\ callsign[l.id] = c
          /\ block'[c] = [begin |-> IP_begin[l.id], size |-> IP_size[l.id]]
      BY <2>1, <3>1 DEF Agree, Live
    <3>3. Booked(l.id) = l
      BY <3>1, <3>2 DEF Booked, Live
    <3> QED
      BY <3>2, <3>3, Leased DEF Granted, Live
  <2>4. Fresh(c) => Relied' = (Relied \ {Believed(c)}) \cup {l}
    <3> SUFFICES ASSUME Fresh(c) PROVE Relied' = (Relied \ {Believed(c)}) \cup {l}
      OBVIOUS
    <3>1. \A d \in Callsigns \ {c} : Fresh(d) => Believed(d) # Believed(c)
      BY <1>2
    <3> QED
      BY <1>5, <2>2, <3>1 DEF Relied
  <2>5. Fresh(c) => Believed(c) = l
    <3> SUFFICES ASSUME Fresh(c) PROVE Believed(c) = l
      OBVIOUS
    <3>1. client_ID[c] \in Live /\ callsign[client_ID[c]] = c
          /\ Booked(client_ID[c]) = Believed(c)
      BY <1>2 DEF FreshClientsAgree, Agree
    <3>2. client_ID[c] = l.id
      <4>1. c # NoCallsign
        BY CallsignAssumption
      <4> QED
        BY <2>3, <3>1, <4>1 DEF RegInv, TableInv, CallsignsUnique, Owned, Live
    <3> QED
      BY <2>3, <3>1, <3>2
  <2>6. CASE Fresh(c)
    <3>1. Believed(c) \in Relied
      BY <2>6 DEF Relied
    <3>2. Relied' = Relied
      BY <2>4, <2>5, <2>6, <3>1
    <3> QED
      BY <1>1, <3>2, LessorSteps
  <2>7. CASE ~ Fresh(c)
    <3>1. Relied' = Relied \cup {l}
      BY <1>5, <2>2, <2>7 DEF Relied
    <3> QED
      BY <1>1, <2>3, <3>1, LessorSteps
  <2> QED
    BY <2>6, <2>7
<1> QED
  BY <1>3, <1>4, <1>5

\* A request grants a lease to a client that has none, or changes nothing.
LEMMA RequestMoves ==
  ASSUME RegInv, RegInv', NEW c \in Callsigns, MasterReceive(c)
  PROVE  Lessor!Next \/ UNCHANGED Lessor!vars
<1> USE DEF RegInv
<1>1. Relied' = Relied
  BY DEF MasterReceive, clientVars, Relied, Believed, Fresh
<1>2. connect_req_process(c, req_size[c]) \/ TableIdle
  <2>1. up[c] # <<>> /\ up[c] \in Seq(UpFrames)
    BY DEF MasterReceive, RegTypes, UpTypes
  <2>2. Head(up[c]).size = req_size[c]
    BY <2>1, TailLink DEF Requested
  <2> QED
    BY <2>2 DEF MasterReceive
<1>3. ~ ResizeEntry(c, req_size[c])
  BY DEF ResizeEntry, IsExistingEntry, Matching, Requested
<1>4. CASE UNCHANGED <<status, callsign, IP_begin, IP_size>>
  <2>1. Granted' = Granted
    BY <1>4 DEF Granted, Booked
  <2> QED
    BY <1>1, <2>1, LessorSteps
<1>5. ASSUME NEW i \in Slots, status[i] = 0, status'[i] = 1, callsign'[i] = c,
             \A j \in Slots \ {i} : callsign[j] # c,
             \A j \in Slots \ {i} : /\ status'[j] = status[j] /\ callsign'[j] = callsign[j]
                                    /\ IP_begin'[j] = IP_begin[j] /\ IP_size'[j] = IP_size[j]
      PROVE  Lessor!Next
  <2>1. PICK l : l = Booked(i)'
    OBVIOUS
  <2>2. l = LeaseOf(c, i, [begin |-> IP_begin'[i], size |-> IP_size'[i]])
    BY <1>5, <2>1 DEF Booked
  <2>3. l.id = i /\ l.holder = c
    BY <2>2 DEF LeaseOf
  <2>4. l \in Lessor!Leases
    <3>1. callsign'[i] \in Callsigns /\ IP_size'[i] = req_size'[c] /\ req_size'[c] \in ReqSizes
      BY <1>5 DEF Requested, RegTypes, UpTypes
    <3>2. IP_begin'[i] \in PoolAddresses
      <4>1. i \in Owned'
        BY <1>5, CallsignAssumption DEF Owned
      <4>2. /\ pool' \in Pools /\ pool'.start \in Nat /\ pool'.size \in Nat
            /\ InPool(i)' /\ IP_begin'[i] \in Nat /\ IP_size'[i] \in Nat
        BY <4>1, PoolAssumption DEF TableInv, TypeOK, BlocksInPool
      <4>3. IP_begin'[i] \in pool'.start .. pool'.start + pool'.size
        BY <4>2 DEF InPool, PoolEnd
      <4> QED
        BY <4>2, <4>3 DEF PoolAddresses
    <3> QED
      BY <1>5, <2>2, <3>1, <3>2 DEF Lessor!Leases, LeaseOf
  <2>5. Granted[l.id] = NoAnswer
    BY <1>5, <2>3 DEF Granted, Booked
  <2>6. ASSUME NEW j \in Slots, Granted[j] # NoAnswer PROVE Granted[j].holder # l.holder
    BY <1>5, <2>3, <2>6 DEF Granted, Booked, LeaseOf
  <2>7. Granted' = [Granted EXCEPT ![l.id] = l]
    <3>1. \A j \in Slots : Booked(j)' = IF j = i THEN l ELSE Booked(j)
      BY <1>5, <2>1 DEF Booked
    <3> QED
      BY <2>3, <3>1 DEF Granted
  <2> QED
    BY <1>1, <2>4, <2>5, <2>6, <2>7, LessorSteps
<1>6. CASE ReuseEntry(c, req_size[c])
  <2>1. PICK i \in Slots : /\ IsExistingEntry(c, i)
                           /\ status' = [status EXCEPT ![i] = 1]
                           /\ UNCHANGED <<callsign, IP_begin, IP_size, pool>>
    BY <1>6 DEF ReuseEntry
  <2>2. callsign[i] = c /\ \A j \in Slots \ {i} : callsign[j] # c
    BY <2>1, ExistingEntryIsOnly DEF IsExistingEntry, Matching
  <2>3. status \in [Slots -> {0, 1}]
    BY DEF TableInv, TypeOK
  <2>4. CASE status[i] = 0
    BY <1>5, <2>1, <2>2, <2>3, <2>4
  <2>5. CASE status[i] = 1
    <3>1. status' = status
      BY <2>1, <2>3, <2>5
    <3> QED
      BY <1>4, <2>1, <3>1
  <2> QED
    BY <2>3, <2>4, <2>5
<1>7. CASE NewEntry(c, req_size[c])
  <2>1. \A j \in Slots : callsign[j] # c
    BY <1>7 DEF NewEntry, Matching
  <2>2. ASSUME NEW i \in Slots, NEW p, status[i] = 0, Book(c, i, p, req_size[c])
        PROVE  Lessor!Next
    <3>1. /\ status'[i] = 1 /\ callsign'[i] = c
          /\ \A j \in Slots \ {i} : /\ status'[j] = status[j] /\ callsign'[j] = callsign[j]
                                    /\ IP_begin'[j] = IP_begin[j] /\ IP_size'[j] = IP_size[j]
      BY <2>2 DEF Book, TableInv, TypeOK
    <3> QED
      BY <1>5, <2>1, <2>2, <3>1
  <2> QED
    BY <1>4, <1>7, <2>2 DEF NewEntry, IsFirstFree
<1> QED
  BY <1>2, <1>3, <1>4, <1>6, <1>7 DEF connect_req_process, TableIdle, answer_pushed

\* What the master frees, nobody relies on: those who do still agree with it.
LEMMA SweepMoves ==
  ASSUME RegInv, RegInv', FreshClientsAgree', MasterPeriodic
  PROVE  Lessor!Next
<1>1. PICK expired \in SUBSET MaybeOverdue : free_expired(expired)
  BY DEF MasterPeriodic
<1>2. UNCHANGED <<clientVars, since>> /\ Relied' = Relied
  BY DEF MasterPeriodic, clientVars, Relied, Believed, Fresh
<1>3. expired \in SUBSET Slots
  BY DEF MaybeOverdue, Live
<1>4. Granted' = [i \in Slots |-> IF i \in expired THEN NoAnswer ELSE Granted[i]]
  BY <1>1 DEF free_expired, Granted, Booked
<1>5. ASSUME NEW l \in Relied PROVE l.id \notin expired
  <2>1. PICK c \in Callsigns : Fresh(c) /\ l = Believed(c)
    BY DEF Relied
  <2>2. l.id = client_ID[c] /\ Fresh(c)' /\ client_ID'[c] = client_ID[c]
    BY <1>2, <2>1 DEF Believed, LeaseOf, Fresh, clientVars
  <2>3. status'[l.id] # 0 /\ l.id \in Slots
    BY <2>2 DEF FreshClientsAgree, Agree, Live
  <2> QED
    BY <1>1, <2>3 DEF free_expired
<1> QED
  BY <1>2, <1>3, <1>4, <1>5, LessorSteps

\* At the end of a round some clients cease to be sure of their leases.
LEMMA RoundMoves ==
  ASSUME RegTypes, EndRound(Callsigns)
  PROVE  Lessor!Next
<1>1. /\ UNCHANGED <<status, callsign, IP_begin, IP_size, state, client_ID, block>>
      /\ since' = [c \in Callsigns |-> Bump(since[c], SureRounds)]
  BY DEF EndRound, TableIdle, answer_pushed, clientVars
<1>2. Granted' = Granted
  BY <1>1 DEF Granted, Booked
<1>3. \A c \in Callsigns : Believed(c)' = Believed(c) /\ (Fresh(c)' => Fresh(c))
  <2>1. \A n \in 0 .. SureRounds : Bump(n, SureRounds) < SureRounds => n < SureRounds
    BY CallsAssumption DEF Bump
  <2> QED
    BY <1>1, <2>1 DEF Believed, Fresh, RegTypes, SinceTypes
<1>4. Relied' \subseteq Relied
  BY <1>3 DEF Relied
<1>5. PICK gone \in SUBSET Relied : gone = Relied \ Relied'
  OBVIOUS
<1>6. Relied' = Relied \ gone
  BY <1>4, <1>5
<1> QED
  BY <1>2, <1>6, LessorSteps

LEMMA LessorStep ==
  RegInv /\ RegInv' /\ FreshClientsAgree /\ FreshClientsAgree' /\ [Next]_vars
    => [Lessor!Next]_(Lessor!vars)
<1> SUFFICES ASSUME RegInv, RegInv', FreshClientsAgree, FreshClientsAgree', [Next]_vars
             PROVE  Lessor!Next \/ UNCHANGED Lessor!vars
  OBVIOUS
<1>1. CASE UNCHANGED <<status, callsign, IP_begin, IP_size, clientVars, since>>
  <2>1. Granted' = Granted /\ Relied' = Relied
    BY <1>1 DEF Granted, Booked, Relied, Believed, Fresh, clientVars
  <2> QED
    BY <2>1, LessorSteps
<1>2. ASSUME NEW c \in Callsigns,
             \/ ClientPeriodic(c) \/ ClientReceive(c)
             \/ RadioOff(c) \/ RadioOn(c) \/ ClientReboot(c)
      PROVE  Lessor!Next \/ UNCHANGED Lessor!vars
  <2>1. UNCHANGED <<status, callsign, IP_begin, IP_size>>
    BY <1>2 DEF ClientPeriodic, ClientReceive, RadioOff, RadioOn, ClientReboot, TableIdle,
                answer_pushed
  <2>2. ASSUME NEW d \in Callsigns \ {c}
        PROVE  /\ state'[d] = state[d] /\ client_ID'[d] = client_ID[d]
               /\ block'[d] = block[d] /\ since'[d] = since[d]
    <3> USE DEF RegInv, RegTypes, ClientTypes, SinceTypes
    <3>1. CASE ClientPeriodic(c)
      BY <3>1 DEF ClientPeriodic
    <3>2. CASE ClientReceive(c)
      <4>1. ASSUME NEW ack, connect_ACK_process(c, ack)
            PROVE  state'[d] = state[d] /\ client_ID'[d] = client_ID[d] /\ block'[d] = block[d]
        BY <4>1 DEF connect_ACK_process
      <4>2. ASSUME connect_NACK_process(c)
            PROVE  state'[d] = state[d] /\ client_ID'[d] = client_ID[d] /\ block'[d] = block[d]
        BY <4>2 DEF connect_NACK_process
      <4> QED
        BY <3>2, <4>1, <4>2 DEF ClientReceive
    <3>3. CASE RadioOff(c)
      BY <3>3 DEF RadioOff, Disconnected
    <3>4. CASE RadioOn(c)
      BY <3>4 DEF RadioOn, Disconnected
    <3>5. CASE ClientReboot(c)
      BY <3>5 DEF ClientReboot, Disconnected
    <3> QED
      BY <1>2, <3>1, <3>2, <3>3, <3>4, <3>5
  <2>3. \A d \in Callsigns \ {c} : Fresh(d)' = Fresh(d) /\ Believed(d)' = Believed(d)
    BY <2>2 DEF Fresh, Believed
  <2> QED
    BY <2>1, <2>3, ClientMoves
<1>3. CASE Periodic
  BY <1>2, <1>3, SweepMoves, RoundMoves DEF Periodic, RegInv
<1>4. CASE Radio
  BY <1>1, <1>2, <1>4, RequestMoves DEF Radio, LoseUp, LoseDown, TableIdle, answer_pushed
<1>5. CASE ClientOperator
  BY <1>2, <1>5 DEF ClientOperator
<1>6. CASE UNCHANGED vars
  BY <1>1, <1>6 DEF vars, tableVars
<1> QED
  BY <1>3, <1>4, <1>5, <1>6 DEF Next

\* Registration implements the lease service, for any number of clients and any
\* timeouts: whatever frames are lost, and however late they come, a client ID and its block belong
\* to one client at a time, and the master takes back only what its holder no
\* longer relies on.
THEOREM RegistrationImplementsLease == Spec => LeaseImplemented
<1>1. Init => Lessor!Init
  <2> SUFFICES ASSUME Init PROVE Lessor!Init
    OBVIOUS
  <2>1. Granted = [i \in Slots |-> NoAnswer]
    BY DEF Init, TableInit, Zeros, Granted, Booked
  <2>2. Relied = {}
    BY DEF Init, Relied, Fresh
  <2> QED
    BY <2>1, <2>2 DEF Lessor!Init, Granted, Booked, Relied, Believed
<1> QED
  BY <1>1, LessorStep, RegInvariant, FreshAgree, PTL DEF Spec, LeaseImplemented, Lessor!Spec

=============================================================================
