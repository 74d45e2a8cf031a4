---------------------------- MODULE PrimeProofs ----------------------------
(***************************************************************************)
(* Proofs about Prime, for all places, timer periods, clock skews and      *)
(* commands: the globals stay in their types, the rungs of the ladder say  *)
(* what is there, and an acknowledged position is the broker's.            *)
(***************************************************************************)
EXTENDS Prime, TLAPS

(* Where the main loop is, and the session it has there. *)
Placed ==
    /\ pc \in {"startack", "suback", "puback", "yield"} => "mqttConnect" \in rungs
    /\ pc = "connack" => rungs \cap {"socketConnect", "mqttConnect"} = {"socketConnect"}
    /\ pc = "connack" => client = "idle"
    /\ client = "connected" <=> pc \in {"startack", "suback"}
    /\ client = "subscribed" => "mqttConnect" \in rungs
    /\ pc = "puback" => client = "subscribed" /\ fix \in Places /\ ~delivered

(* What is under way: one request or one acknowledgement at most, none     *)
(* when there is no session that waits for it, and never a position of     *)
(* before the last one that was acknowledged.                              *)
Wire ==
    /\ sock # "open" => req = "none" /\ ack = "none"
    /\ req = "none" \/ ack = "none"
    /\ client = "subscribed" /\ pc # "puback" => req = "none" /\ ack = "none"
    /\ pc = "connack" => req \in {"none", "CONNECT"} /\ ack \in {"none", "CONNACK"}
    /\ pc = "puback" => req \in {"none", fix} /\ (ack # "none" => brokerPos = fix)
    /\ delivered => req \notin Places

Inv == TypeOK /\ LadderTruthful /\ Placed /\ Wire /\ AckMeansStored

USE DEF deviceVars, wireVars, envVars

-----------------------------------------------------------------------------
(* The timers stay within what they are compared with.                     *)

Ages(a) == a \in [Timers -> Int] /\ \A t \in Timers : MinAge <= a[t] /\ a[t] <= Period[t] + 1

LEMMA PeriodType == Period \in [Timers -> Nat]
  BY PrimeAssumption DEF Period, Timers

LEMMA ClampTyped ==
  ASSUME NEW t \in Timers, NEW n \in Int
  PROVE  Clamp(t, n) \in Int /\ MinAge <= Clamp(t, n) /\ Clamp(t, n) <= Period[t] + 1
  <1>1. Period[t] \in Nat
    BY PeriodType
  <1> QED BY <1>1, PrimeAssumption DEF Clamp

LEMMA ZeroAges == Ages([t \in Timers |-> 0])
  BY PeriodType, PrimeAssumption DEF Ages

LEMMA SetClockTyped ==
  ASSUME Ages(age), NEW skew \in Skews
  PROVE  Ages(SetClock(skew))
  BY ClampTyped, PrimeAssumption DEF Ages, SetClock

-----------------------------------------------------------------------------
(* Each step of the loop.                                                  *)

LEMMA InitInv == Init => Inv
  <1> SUFFICES ASSUME Init PROVE Inv
    OBVIOUS
  <1>1. TypeOK
    BY ZeroAges DEF Init, TypeOK, Ages, Pcs, BootFlags, Flags
  <1> QED BY <1>1 DEF Inv, Init, LadderTruthful, Placed, Wire, AckMeansStored

LEMMA LadderStep == ASSUME Inv, Ladder PROVE Inv'
  <1>1. ASSUME NEW m \in BOOLEAN, NEW r \in BOOLEAN, NEW j \in BOOLEAN
        PROVE  /\ Reached(m, r, j) \subseteq Rungs \ {"mqttConnect"}
               /\ "socketConnect" \in Reached(m, r, j) <=> "socketConnect" \in rungs
               /\ "mdmIP" \in Reached(m, r, j) => "mdmRegister" \in Reached(m, r, j)
               /\ "mdmRegister" \in Reached(m, r, j) => "mdmInit" \in Reached(m, r, j)
               /\ "mdmIP" \in rungs => "mdmIP" \in Reached(m, r, j)
    BY DEF Inv, LadderTruthful, Reached, Rungs
  <1>2. LocalOutcomes \subseteq BOOLEAN /\ Outcomes \subseteq BOOLEAN
    BY DEF LocalOutcomes, Outcomes
  <1>3. ASSUME NEW m \in LocalOutcomes, NEW r \in Outcomes, NEW j \in Outcomes, Climb(m, r, j)
        PROVE  Inv'
    <2>1. TypeOK'
      BY <1>1, <1>2, <1>3 DEF Inv, TypeOK, Climb, Pcs
    <2>2. LadderTruthful' /\ Placed' /\ Wire' /\ AckMeansStored'
      BY <1>1, <1>2, <1>3 DEF Inv, LadderTruthful, Placed, Wire, AckMeansStored, Climb, TypeOK
    <2> QED BY <2>1, <2>2 DEF Inv
  <1>4. ASSUME NEW m \in LocalOutcomes, NEW r \in Outcomes, NEW j \in Outcomes,
               NEW tcp \in Outcomes, NEW sent \in LocalOutcomes,
               ClimbToSocket(m, r, j, tcp, sent)
        PROVE  Inv'
    <2>1. TypeOK'
      BY <1>1, <1>2, <1>4 DEF Inv, TypeOK, ClimbToSocket, CloseSocket, Pcs, Waits, Rungs
    <2>2. LadderTruthful'
      BY <1>1, <1>2, <1>4 DEF Inv, LadderTruthful, ClimbToSocket, CloseSocket
    <2>3. Placed'
      BY <1>1, <1>2, <1>4 DEF Inv, LadderTruthful, Placed, ClimbToSocket, CloseSocket
    <2>4. Wire' /\ AckMeansStored'
      BY <1>1, <1>2, <1>4, PrimeAssumption
         DEF Inv, Placed, Wire, AckMeansStored, ClimbToSocket, CloseSocket
    <2> QED BY <2>1, <2>2, <2>3, <2>4 DEF Inv
  <1>5. CASE /\ pc = "ladder" /\ "off" \notin flags /\ "mqttConnect" \in rungs
             /\ pc' = "yield"
             /\ UNCHANGED <<rungs, flags, age, lastPos, fix, client, delivered, wireVars, envVars>>
    BY <1>5 DEF Inv, TypeOK, LadderTruthful, Placed, Wire, AckMeansStored, Pcs
  <1> QED BY <1>3, <1>4, <1>5 DEF Ladder

LEMMA AcksStep == ASSUME Inv, Acks PROVE Inv'
  <1>1. ASSUME NEW sent \in Sendable, Connected(sent) PROVE Inv'
    <2>1. TypeOK'
      BY <1>1 DEF Inv, TypeOK, Connected, Written, Pcs, Waits, Rungs
    <2>2. LadderTruthful' /\ Placed'
      BY <1>1 DEF Inv, TypeOK, LadderTruthful, Placed, Connected
    <2>3. Wire' /\ AckMeansStored'
      BY <1>1, PrimeAssumption
         DEF Inv, TypeOK, Placed, Wire, AckMeansStored, Connected, Written
    <2> QED BY <2>1, <2>2, <2>3 DEF Inv
  <1>2. ASSUME NEW sent \in Sendable, Subscribe(sent) PROVE Inv'
    <2>1. TypeOK'
      BY <1>2 DEF Inv, TypeOK, Subscribe, Written, Pcs, Waits
    <2>2. LadderTruthful' /\ Placed'
      BY <1>2 DEF Inv, TypeOK, LadderTruthful, Placed, Subscribe
    <2>3. Wire' /\ AckMeansStored'
      BY <1>2, PrimeAssumption
         DEF Inv, TypeOK, Placed, Wire, AckMeansStored, Subscribe, Written
    <2> QED BY <2>1, <2>2, <2>3 DEF Inv
  <1>3. CASE Subscribed
    <2>1. TypeOK'
      BY <1>3 DEF Inv, TypeOK, Subscribed, Pcs
    <2>2. LadderTruthful' /\ Placed' /\ Wire' /\ AckMeansStored'
      BY <1>3 DEF Inv, TypeOK, LadderTruthful, Placed, Wire, AckMeansStored, Subscribed
    <2> QED BY <2>1, <2>2 DEF Inv
  <1>4. CASE Published
    <2>1. TypeOK'
      BY <1>4 DEF Inv, TypeOK, Published, Cleared, Pcs
    <2>2. LadderTruthful' /\ Placed'
      BY <1>4 DEF Inv, TypeOK, LadderTruthful, Placed, Published
    <2>3. Wire' /\ AckMeansStored'
      BY <1>4, PrimeAssumption DEF Inv, TypeOK, Placed, Wire, AckMeansStored, Published
    <2> QED BY <2>1, <2>2, <2>3 DEF Inv
  <1> QED BY <1>1, <1>2, <1>3, <1>4 DEF Acks

LEMMA TimeOutStep == ASSUME Inv, TimeOut PROVE Inv'
  <1>1. CASE ConnectTimesOut
    <2>1. TypeOK'
      BY <1>1 DEF Inv, TypeOK, ConnectTimesOut, CloseSocket, Pcs
    <2>2. LadderTruthful' /\ Placed' /\ Wire' /\ AckMeansStored'
      BY <1>1, PrimeAssumption
         DEF Inv, LadderTruthful, Placed, Wire, AckMeansStored, ConnectTimesOut, CloseSocket
    <2> QED BY <2>1, <2>2 DEF Inv
  <1>2. CASE SessionTimesOut
    <2>1. TypeOK'
      BY <1>2 DEF Inv, TypeOK, SessionTimesOut, Pcs
    <2>2. LadderTruthful' /\ Placed' /\ Wire' /\ AckMeansStored'
      BY <1>2 DEF Inv, LadderTruthful, Placed, Wire, AckMeansStored, SessionTimesOut
    <2> QED BY <2>1, <2>2 DEF Inv
  <1>3. CASE PublishTimesOut
    <2>1. TypeOK'
      BY <1>3 DEF Inv, TypeOK, PublishTimesOut, Cleared, Pcs
    <2>2. LadderTruthful' /\ Placed' /\ Wire' /\ AckMeansStored'
      BY <1>3 DEF Inv, LadderTruthful, Placed, Wire, AckMeansStored, PublishTimesOut
    <2> QED BY <2>1, <2>2 DEF Inv
  <1> QED BY <1>1, <1>2, <1>3 DEF TimeOut

LEMMA FixStep == ASSUME Inv, Fixes PROVE Inv'
  <1> SUFFICES ASSUME NEW skew \in Skews, NEW sent \in Sendable, Fix(skew, sent) PROVE Inv'
    BY DEF Fixes
  <1>1. Ages(age')
    <2>1. Ages(age)
      BY DEF Inv, TypeOK, Ages
    <2> QED BY <2>1, SetClockTyped DEF Fix
  <1>2. Moved \subseteq Flags /\ Cleared(Moved) \subseteq Flags
    BY DEF Inv, TypeOK, Moved, Cleared, Flags
  <1>3. CASE ~Due(Moved)
    <2>1. TypeOK'
      BY <1>1, <1>2, <1>3 DEF Inv, TypeOK, Ages, Fix, Pcs
    <2>2. LadderTruthful' /\ Placed' /\ Wire' /\ AckMeansStored'
      BY <1>3 DEF Inv, LadderTruthful, Placed, Wire, AckMeansStored, Fix
    <2> QED BY <2>1, <2>2 DEF Inv
  <1>4. CASE Due(Moved) /\ Usable /\ sent
    <2>1. TypeOK'
      BY <1>1, <1>2, <1>4 DEF Inv, TypeOK, Ages, Fix, Written, Pcs, Waits
    <2>2. client = "subscribed"
      BY <1>4 DEF Inv, Placed, Usable, Fix
    <2>3. LadderTruthful' /\ Placed'
      BY <1>4, <2>2 DEF Inv, TypeOK, LadderTruthful, Placed, Fix
    <2>4. Wire' /\ AckMeansStored'
      BY <1>4, <2>2 DEF Inv, TypeOK, Placed, Wire, AckMeansStored, Fix, Written
    <2> QED BY <2>1, <2>3, <2>4 DEF Inv
  <1>5. CASE Due(Moved) /\ (Usable => ~sent)
    <2>1. TypeOK'
      BY <1>1, <1>2, <1>5 DEF Inv, TypeOK, Ages, Fix, Pcs
    <2>2. LadderTruthful' /\ Placed' /\ Wire' /\ AckMeansStored'
      BY <1>5 DEF Inv, TypeOK, LadderTruthful, Placed, Wire, AckMeansStored, Fix, Usable
    <2> QED BY <2>1, <2>2 DEF Inv
  <1> QED BY <1>3, <1>4, <1>5 DEF Fix

LEMMA CheckStep == ASSUME Inv, Checks PROVE Inv'
  <1> SUFFICES ASSUME NEW connected \in isConnected, Check(connected) PROVE Inv'
    BY DEF Checks
  <1>1. Raises \in [Timers -> Flags] /\ Expired \subseteq Timers
    BY DEF Raises, Timers, Flags, Expired
  <1>2. Ages(age')
    BY PeriodType, PrimeAssumption DEF Inv, TypeOK, Ages, Check
  <1>3. TypeOK'
    BY <1>1, <1>2 DEF Inv, TypeOK, Ages, Check, SameSocket, CloseSocket, Pcs
  <1>4. ~connected => client \in {"NULL", "idle"}
    BY DEF isConnected, Inv, TypeOK
  <1>5. LadderTruthful' /\ Placed' /\ Wire' /\ AckMeansStored'
    BY <1>4, PrimeAssumption
       DEF Inv, TypeOK, LadderTruthful, Placed, Wire, AckMeansStored, Check, SameSocket, CloseSocket
  <1> QED BY <1>3, <1>5 DEF Inv

LEMMA PowerDownStep == ASSUME Inv, PowerDown PROVE Inv'
  <1>1. TypeOK'
    BY ZeroAges DEF Inv, TypeOK, Ages, PowerDown, CloseSocket, BootFlags, Flags, Pcs
  <1>2. LadderTruthful' /\ Placed' /\ Wire' /\ AckMeansStored'
    BY PrimeAssumption
       DEF Inv, TypeOK, LadderTruthful, Placed, Wire, AckMeansStored, PowerDown, CloseSocket
  <1> QED BY <1>1, <1>2 DEF Inv

LEMMA ReadCommandStep ==
  ASSUME Inv, NEW c \in Commands, ReadCommand(c) \/ Command(c)
  PROVE  Inv'
  <1>1. messageArrived(c) \subseteq Flags
    BY DEF Inv, TypeOK, messageArrived, Flags
  <1>2. TypeOK'
    BY <1>1 DEF Inv, TypeOK, ReadCommand, Command
  <1>3. LadderTruthful' /\ Placed' /\ Wire' /\ AckMeansStored'
    BY DEF Inv, LadderTruthful, Placed, Wire, AckMeansStored, ReadCommand, Command
  <1> QED BY <1>2, <1>3 DEF Inv

LEMMA BrokerStep == ASSUME Inv, BrokerHandles PROVE Inv'
  <1>1. TypeOK'
    BY DEF Inv, TypeOK, BrokerHandles, Reply
  <1>2. LadderTruthful' /\ Placed'
    BY DEF Inv, LadderTruthful, Placed, BrokerHandles
  <1>3. Wire' /\ AckMeansStored'
    BY PrimeAssumption DEF Inv, TypeOK, Placed, Wire, AckMeansStored, BrokerHandles, Reply
  <1> QED BY <1>1, <1>2, <1>3 DEF Inv

LEMMA OtherStep ==
  ASSUME Inv,
         \/ EndYield \/ NoSentence \/ Sentence \/ Tick
         \/ \E n \in {"up", "slow", "down"} : NetworkChanges(n)
         \/ \E p \in Places : Move(p)
         \/ UNCHANGED vars
  PROVE  Inv'
  <1>1. CASE EndYield \/ NoSentence \/ Sentence \/ UNCHANGED vars
    <2>1. TypeOK'
      BY <1>1 DEF Inv, TypeOK, EndYield, NoSentence, Sentence, vars, Pcs
    <2>2. LadderTruthful' /\ Placed' /\ Wire' /\ AckMeansStored'
      BY <1>1 DEF Inv, LadderTruthful, Placed, Wire, AckMeansStored,
                  EndYield, NoSentence, Sentence, vars
    <2> QED BY <2>1, <2>2 DEF Inv
  <1>2. CASE Tick
    <2>1. Ages(age')
      BY <1>2, ClampTyped DEF Inv, TypeOK, Ages, Tick
    <2>2. TypeOK'
      BY <1>2, <2>1 DEF Inv, TypeOK, Ages, Tick
    <2>3. LadderTruthful' /\ Placed' /\ Wire' /\ AckMeansStored'
      BY <1>2 DEF Inv, LadderTruthful, Placed, Wire, AckMeansStored, Tick
    <2> QED BY <2>2, <2>3 DEF Inv
  <1>3. ASSUME NEW n \in {"up", "slow", "down"}, NetworkChanges(n) PROVE Inv'
    <2>1. TypeOK'
      BY <1>3 DEF Inv, TypeOK, NetworkChanges, SameSocket
    <2>2. LadderTruthful' /\ Placed' /\ Wire' /\ AckMeansStored'
      BY <1>3, PrimeAssumption
         DEF Inv, LadderTruthful, Placed, Wire, AckMeansStored, NetworkChanges, SameSocket
    <2> QED BY <2>1, <2>2 DEF Inv
  <1>4. ASSUME NEW p \in Places, Move(p) PROVE Inv'
    BY <1>4 DEF Inv, TypeOK, LadderTruthful, Placed, Wire, AckMeansStored, Move
  <1> QED BY <1>1, <1>2, <1>3, <1>4

LEMMA Inductive == Spec => []Inv
  <1>1. Inv /\ [Next]_vars => Inv'
    BY LadderStep, AcksStep, TimeOutStep, FixStep, CheckStep, PowerDownStep,
       ReadCommandStep, BrokerStep, OtherStep DEF Next
  <1> QED BY <1>1, InitInv, PTL DEF Spec

-----------------------------------------------------------------------------
(* Every reachable state of the firmware and its connection is well typed; *)
(* the timers stay within their periods whatever the receiver's clock says *)
(* (main.cpp:94-114, 464-476).                                             *)
THEOREM TypeCorrect == Spec => []TypeOK
  <1>1. Inv => TypeOK
    BY DEF Inv
  <1> QED BY <1>1, Inductive, PTL

(* What main believes of modem, socket and client is what is there, at     *)
(* every point of the loop and after every failure (main.cpp:207-459).     *)
THEOREM LadderIsTruthful == Spec => []LadderTruthful
  <1>1. Inv => LadderTruthful
    BY DEF Inv
  <1> QED BY <1>1, Inductive, PTL

(* A publish that returned success was the publish the PUBACK was for,     *)
(* though the packet id is not compared (MQTTClient.h:818-861).            *)
THEOREM AcknowledgedIsStored == Spec => []AckMeansStored
  <1>1. Inv => AckMeansStored
    BY DEF Inv
  <1> QED BY <1>1, Inductive, PTL
=============================================================================
