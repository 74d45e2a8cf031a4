------------------------------- MODULE Prime -------------------------------
(***************************************************************************)
(* The OwnTracks Prime firmware: the main loop of main.cpp, which climbs   *)
(* from the modem to an MQTT session, reads the GPS receiver and publishes *)
(* positions, and the MQTT client it drives (MQTTClient.h), which blocks   *)
(* in every request until its acknowledgement or a time-out and delivers   *)
(* commands from within whatever call happens to read the socket.          *)
(*                                                                         *)
(* The Boolean globals are sets of the names that are true: rungs for the  *)
(* connection, flags for the rest.  The network, the broker and the        *)
(* receiver are the environment.  A TCP connection the network has lost    *)
(* stays "dead" until the device closes it: reads bring nothing, writes    *)
(* may still seem to succeed.                                              *)
(*                                                                         *)
(* Abstracted: coordinates (places lie more than MINDIST apart), payloads, *)
(* NMEA parsing, packet ids, the keep-alive (its pings change nothing that *)
(* is modelled: an unanswered one ends no session), and TLS.               *)
(***************************************************************************)
EXTENDS Integers, FiniteSets

CONSTANTS
    Places,       \* where the device can be
    NoPlace,      \* (0, 0), where it has never been
    MININTERVAL, MAXINTERVAL, RESYNC,  \* periods of the three timers
    Skews,        \* what setting the clock from the receiver may add to it
    MinAge,       \* bound: how far a timer can lie in the future
    Commands,     \* payloads published to the device's cmd topic
    MaxCmds       \* bound: commands on their way at a time

ASSUME PrimeAssumption ==
    /\ NoPlace \notin Places
    /\ MININTERVAL \in Nat /\ MAXINTERVAL \in Nat /\ RESYNC \in Nat
    /\ Skews \subseteq Int /\ MinAge \in Int /\ MinAge <= 0
    /\ Commands \subseteq {"gps", "reset", "off"}
    /\ Places \cap {"none", "CONNECT", "START", "SUBSCRIBE"} = {}
    /\ MaxCmds \in Nat

Rungs  == {"mdmInit", "mdmRegister", "mdmIP", "socketConnect", "mqttConnect"}
Flags  == {"sendMin", "sendMax", "sendDist", "sendOnce", "setTime", "off", "reset"}
Timers == {"min", "max", "time"}
Period == [t \in Timers |-> CASE t = "min" -> MININTERVAL
                              [] t = "max" -> MAXINTERVAL
                              [] OTHER     -> RESYNC]
(* Mutant: the hourly timer raises the flag of the other one.              *)
Mut_Raises == [t \in Timers |-> IF t = "time" THEN "setTime" ELSE "sendMin"]

Raises == [t \in Timers |-> CASE t = "min" -> "sendMin"
                              [] t = "max" -> "sendMax"
                              [] OTHER     -> "setTime"]

VARIABLES
    pc,        \* where the main loop is
    rungs,     \* which of mdmInit .. mqttConnect are true
    flags,     \* which of sendMin .. reset are true
    age,       \* now - lastMin, now - lastMax, now - lastTime
    lastPos,   \* lastLa, lastLo
    fix,       \* la, lo while they are being published
    client,    \* NULL, not connected, connected, with the handler attached
    sock,      \* the TCP connection
    req,       \* the request the broker has not handled yet
    ack,       \* the acknowledgement the client has not read yet
    cmds,      \* commands the client has not read yet
    brokerPos, \* the retained position
    network, at,
    delivered  \* observer: the last transmission was acknowledged

deviceVars == <<pc, rungs, flags, age, lastPos, fix, client, delivered>>
wireVars   == <<sock, req, ack, cmds>>
envVars    == <<network, at, brokerPos>>
vars       == <<deviceVars, wireVars, envVars>>

Waits == {"connack", "startack", "suback", "puback"}
Pcs   == {"ladder", "yield", "gps", "check", "halted"} \cup Waits

TypeOK ==
    /\ pc \in Pcs /\ rungs \subseteq Rungs /\ flags \subseteq Flags
    /\ age \in [Timers -> Int] /\ \A t \in Timers : MinAge <= age[t] /\ age[t] <= Period[t] + 1
    /\ lastPos \in Places \cup {NoPlace} /\ fix \in Places \cup {NoPlace}
    /\ client \in {"NULL", "idle", "connected", "subscribed"}
    /\ sock \in {"closed", "open", "dead"}
    /\ req \in {"none", "CONNECT", "START", "SUBSCRIBE"} \cup Places
    /\ ack \in {"none", "CONNACK", "PUBACK", "SUBACK"}
    /\ cmds \subseteq Commands
    /\ brokerPos \in Places \cup {NoPlace} /\ at \in Places
    /\ network \in {"up", "slow", "down"} /\ delivered \in BOOLEAN

(* The globals as main finds them after power-on or NVIC_SystemReset. *)
BootFlags == {"sendOnce", "setTime"}

Init ==
    /\ pc = "ladder" /\ rungs = {} /\ flags = BootFlags
    /\ age = [t \in Timers |-> 0]
    /\ lastPos = NoPlace /\ fix = NoPlace /\ client = "NULL" /\ delivered = FALSE
    /\ sock = "closed" /\ req = "none" /\ ack = "none" /\ cmds = {}
    /\ brokerPos = NoPlace /\ at \in Places /\ network \in {"up", "down"}

-----------------------------------------------------------------------------
(* The connection. *)

(* What a call may return that needs the network, or only the device. *)
LocalOutcomes == IF network = "up" THEN {TRUE} ELSE BOOLEAN

Outcomes == CASE network = "up" -> {TRUE} [] network = "slow" -> BOOLEAN [] OTHER -> {FALSE}

(* sendPacket: a write to a connection that is gone may still succeed. *)
Sendable == IF sock = "open" /\ network = "up" THEN {TRUE} ELSE BOOLEAN

CloseSocket == sock' = "closed" /\ req' = "none" /\ ack' = "none" /\ cmds' = {}

SameSocket == UNCHANGED <<sock, req, ack, cmds>>

(* What is written to a connection that is gone goes nowhere. *)
Written(r) == IF sock = "open" THEN r ELSE "none"

(* The modem's rungs: each is tried if it is not held and the one below is. *)
Reached(m, r, j) ==
    LET init     == "mdmInit" \in rungs \/ m
        register == "mdmRegister" \in rungs \/ (init /\ r)
        ip       == "mdmIP" \in rungs \/ (register /\ j)
    IN  (rungs \cap {"socketConnect"}) \cup {x \in {"mdmInit"} : init}
            \cup {x \in {"mdmRegister"} : register} \cup {x \in {"mdmIP"} : ip}

Climb(m, r, j) ==
    /\ pc = "ladder" /\ "off" \notin flags /\ "mqttConnect" \notin rungs
    /\ "mdmIP" \notin Reached(m, r, j) /\ "socketConnect" \notin rungs
    /\ rungs' = Reached(m, r, j)
    /\ pc' = "gps"
    /\ UNCHANGED <<flags, age, lastPos, fix, client, delivered, wireVars, envVars>>

(* Up to the socket: it is there, or connects or does not; and then a new  *)
(* client sends CONNECT; when that fails the socket is closed.             *)
ClimbToSocket(m, r, j, tcp, sent) ==
    /\ pc = "ladder" /\ "off" \notin flags /\ "mqttConnect" \notin rungs
    /\ "mdmIP" \in Reached(m, r, j) \/ "socketConnect" \in rungs
    /\ \/ /\ ~tcp /\ "socketConnect" \notin rungs
          /\ rungs' = Reached(m, r, j) /\ pc' = "gps"
          /\ UNCHANGED <<client, wireVars>>
       \/ /\ tcp \/ "socketConnect" \in rungs
          /\ client' = "idle"
          /\ \/ /\ ~sent
                /\ rungs' = Reached(m, r, j) \ {"socketConnect"} /\ pc' = "gps"
                /\ CloseSocket
             \/ /\ sent
                /\ rungs' = Reached(m, r, j) \cup {"socketConnect"} /\ pc' = "connack"
                /\ sock' = (IF "socketConnect" \in rungs THEN sock ELSE "open")
                /\ req' = (IF sock' = "open" THEN "CONNECT" ELSE "none")
                /\ ack' = "none" /\ cmds' = {}
    /\ UNCHANGED <<flags, age, lastPos, fix, delivered, envVars>>

(* With a session the ladder is passed by. *)
Ladder ==
    \/ \E m \in LocalOutcomes, r, j \in Outcomes :
          \/ Climb(m, r, j)
          \/ \E tcp \in Outcomes, sent \in LocalOutcomes : ClimbToSocket(m, r, j, tcp, sent)
    \/ /\ pc = "ladder" /\ "off" \notin flags /\ "mqttConnect" \in rungs
       /\ pc' = "yield"
       /\ UNCHANGED <<rungs, flags, age, lastPos, fix, client, delivered, wireVars, envVars>>

(* The CONNACK is in: main publishes that it has started. *)
Connected(sent) ==
    /\ pc = "connack" /\ ack = "CONNACK"
    /\ rungs' = rungs \cup {"mqttConnect"}
    /\ client' = (IF sent THEN "connected" ELSE "idle")
    /\ pc' = (IF sent THEN "startack" ELSE "yield")
    /\ req' = (IF sent THEN Written("START") ELSE req)
    /\ ack' = "none"
    /\ UNCHANGED <<sock, cmds, flags, age, lastPos, fix, delivered, envVars>>

(* ... and, whatever came of it, subscribes, which a client that is not    *)
(* connected any more refuses.                                             *)
Subscribe(sent) ==
    /\ pc = "startack" /\ ack = "PUBACK"
    /\ client' = (IF sent THEN "connected" ELSE "idle")
    /\ pc' = (IF sent THEN "suback" ELSE "yield")
    /\ req' = (IF sent THEN Written("SUBSCRIBE") ELSE req)
    /\ ack' = "none"
    /\ UNCHANGED <<sock, cmds, rungs, flags, age, lastPos, fix, delivered, envVars>>

Subscribed ==
    /\ pc = "suback" /\ ack = "SUBACK"
    /\ client' = "subscribed" /\ pc' = "yield" /\ ack' = "none"
    /\ UNCHANGED <<sock, req, cmds, rungs, flags, age, lastPos, fix, delivered, envVars>>

(* Mutant: waitfor does not look at its timer.                             *)
Mut_MayTimeOut == FALSE

MayTimeOut == sock # "open" \/ network # "up"

(* Mutant: the socket is closed and socketConnect stays.                   *)
Mut_ConnectTimesOut ==
    /\ pc = "connack" /\ MayTimeOut
    /\ CloseSocket
    /\ pc' = "gps"
    /\ UNCHANGED <<rungs, flags, age, lastPos, fix, client, delivered, envVars>>

ConnectTimesOut ==
    /\ pc = "connack" /\ MayTimeOut
    /\ rungs' = rungs \ {"socketConnect", "mqttConnect"}
    /\ CloseSocket
    /\ pc' = "gps"
    /\ UNCHANGED <<flags, age, lastPos, fix, client, delivered, envVars>>

(* cleanSession: the client is not connected and has no handler. *)
SessionTimesOut ==
    /\ pc \in {"startack", "suback"} /\ MayTimeOut
    /\ client' = "idle" /\ pc' = "yield"
    /\ UNCHANGED <<rungs, flags, age, lastPos, fix, delivered, wireVars, envVars>>

-----------------------------------------------------------------------------
(* Commands, from any call that reads the socket. *)

messageArrived(c) ==
    flags \cup (CASE c = "gps"   -> {"sendOnce"}
                  [] c = "reset" -> {"off", "reset"}
                  [] OTHER       -> {"off"})

Reading ==
    \/ pc \in {"startack", "suback", "puback"}
    \/ pc \in {"yield", "check"} /\ "mqttConnect" \in rungs

(* Without a handler a command is acknowledged and dropped. *)
ReadCommand(c) ==
    /\ Reading /\ sock = "open" /\ c \in cmds
    /\ cmds' = cmds \ {c}
    /\ flags' = (IF client = "subscribed" THEN messageArrived(c) ELSE flags)
    /\ UNCHANGED <<sock, req, ack, pc, rungs, age, lastPos, fix, client, delivered, envVars>>

EndYield ==
    /\ pc = "yield" /\ pc' = "gps"
    /\ UNCHANGED <<rungs, flags, age, lastPos, fix, client, delivered, wireVars, envVars>>

-----------------------------------------------------------------------------
(* The receiver. *)

NoSentence ==
    /\ pc = "gps" /\ pc' = "ladder"
    /\ UNCHANGED <<rungs, flags, age, lastPos, fix, client, delivered, wireVars, envVars>>

Sentence ==
    /\ pc = "gps" /\ "off" \notin flags
    /\ pc' = "check"
    /\ UNCHANGED <<rungs, flags, age, lastPos, fix, client, delivered, wireVars, envVars>>

Clamp(t, n) == IF n > Period[t] + 1 THEN Period[t] + 1 ELSE IF n < MinAge THEN MinAge ELSE n

(* Mutant: the timers are not kept within what they are compared with.     *)
Mut_SetClock(skew) ==
    IF "setTime" \in flags THEN [t \in Timers |-> age[t] + skew] ELSE age

(* gpstime_set: every timer is that much older, or younger. *)
SetClock(skew) ==
    IF "setTime" \in flags THEN [t \in Timers |-> Clamp(t, age[t] + skew)] ELSE age

Moved == (flags \ {"setTime"}) \cup (IF at # lastPos THEN {"sendDist"} ELSE {})

Due(f) == {"sendMin", "sendDist"} \subseteq f \/ "sendMax" \in f \/ "sendOnce" \in f

Cleared(f) == f \ {"sendMin", "sendMax", "sendDist", "sendOnce"}

Usable == "mqttConnect" \in rungs /\ client \in {"connected", "subscribed"}

(* A sentence RMC with a valid position.  Whether or not the position is   *)
(* published, the flags and the last position are those of a transmission. *)
Fix(skew, sent) ==
    /\ pc = "gps" /\ "off" \notin flags
    /\ age' = SetClock(skew)
    /\ \/ /\ ~Due(Moved)
          /\ flags' = Moved /\ pc' = "check"
          /\ UNCHANGED <<lastPos, fix, client, delivered, wireVars>>
       \/ /\ Due(Moved) /\ Usable /\ sent
          /\ flags' = Moved /\ pc' = "puback"
          /\ fix' = at /\ delivered' = FALSE
          /\ req' = Written(at)
          /\ UNCHANGED <<lastPos, client, sock, ack, cmds>>
       \/ /\ Due(Moved) /\ (Usable => ~sent)
          /\ flags' = Cleared(Moved) /\ pc' = "check"
          /\ lastPos' = at /\ delivered' = FALSE
          /\ client' = (IF Usable THEN "idle" ELSE client)
          /\ UNCHANGED <<fix, wireVars>>
    /\ UNCHANGED <<rungs, envVars>>

(* waitfor(PUBACK): any PUBACK will do, the packet id is not compared. *)
Published ==
    /\ pc = "puback" /\ ack = "PUBACK"
    /\ ack' = "none" /\ delivered' = TRUE
    /\ flags' = Cleared(flags) /\ lastPos' = fix /\ fix' = NoPlace
    /\ pc' = "check"
    /\ UNCHANGED <<sock, req, cmds, rungs, age, client, envVars>>

(* Mutant: a publish that fails does not end the session.                  *)
Mut_PublishTimesOut ==
    /\ pc = "puback" /\ MayTimeOut
    /\ delivered' = FALSE
    /\ flags' = Cleared(flags) /\ lastPos' = fix /\ fix' = NoPlace
    /\ pc' = "check"
    /\ UNCHANGED <<client, rungs, age, wireVars, envVars>>

PublishTimesOut ==
    /\ pc = "puback" /\ MayTimeOut
    /\ client' = "idle" /\ delivered' = FALSE
    /\ flags' = Cleared(flags) /\ lastPos' = fix /\ fix' = NoPlace
    /\ pc' = "check"
    /\ UNCHANGED <<rungs, age, wireVars, envVars>>

Expired == {t \in Timers : age[t] > Period[t]}

(* Mutant: main trusts its own mqttConnect instead of the client.          *)
Mut_isConnected == {"mqttConnect" \in rungs}

(* isConnected() on the NULL of a client never made reads what it finds. *)
isConnected == CASE client = "NULL" -> BOOLEAN
                 [] client = "idle" -> {FALSE}
                 [] OTHER           -> {TRUE}

Check(connected) ==
    /\ pc = "check" /\ pc' = "gps"
    /\ \/ connected /\ rungs' = rungs /\ SameSocket
       \/ ~connected /\ rungs' = rungs \cap {"mdmInit"} /\ CloseSocket
    /\ flags' = flags \cup {Raises[t] : t \in Expired}
    /\ age' = [t \in Timers |-> IF t \in Expired THEN 0 ELSE age[t]]
    /\ UNCHANGED <<lastPos, fix, client, delivered, envVars>>

(* The end of main: with reset the processor starts again, else it stops. *)
PowerDown ==
    /\ pc = "ladder" /\ "off" \in flags
    /\ rungs' = {} /\ CloseSocket /\ delivered' = FALSE /\ fix' = NoPlace
    /\ IF "reset" \in flags
       THEN /\ pc' = "ladder" /\ flags' = BootFlags /\ client' = "NULL"
            /\ age' = [t \in Timers |-> 0] /\ lastPos' = NoPlace
       ELSE /\ pc' = "halted"
            /\ client' = (IF client = "NULL" THEN "NULL" ELSE "idle")
            /\ UNCHANGED <<flags, age, lastPos>>
    /\ UNCHANGED envVars

-----------------------------------------------------------------------------
(* The environment. *)

Reply(r) == CASE r = "CONNECT" -> "CONNACK" [] r = "SUBSCRIBE" -> "SUBACK" [] OTHER -> "PUBACK"

BrokerHandles ==
    /\ sock = "open" /\ req # "none" /\ ack = "none"
    /\ ack' = Reply(req) /\ req' = "none"
    /\ brokerPos' = (IF req \in Places THEN req ELSE brokerPos)
    /\ UNCHANGED <<sock, cmds, network, at, deviceVars>>

(* Sessions are clean: the broker keeps no command for a device without a  *)
(* subscription.  It may send one before the SUBACK.                       *)
Command(c) ==
    /\ sock = "open" /\ (client = "subscribed" \/ ack = "SUBACK")
    /\ c \notin cmds /\ Cardinality(cmds) < MaxCmds
    /\ cmds' = cmds \cup {c}
    /\ UNCHANGED <<sock, req, ack, deviceVars, envVars>>

NetworkChanges(n) ==
    /\ n # network /\ network' = n
    /\ IF n = "down" /\ sock = "open"
       THEN sock' = "dead" /\ req' = "none" /\ ack' = "none" /\ cmds' = {}
       ELSE SameSocket
    /\ UNCHANGED <<at, brokerPos, deviceVars>>

Move(p) == p # at /\ at' = p /\ UNCHANGED <<network, brokerPos, deviceVars, wireVars>>

Tick ==
    /\ pc # "halted"
    /\ age' = [t \in Timers |-> Clamp(t, age[t] + 1)] /\ age' # age
    /\ UNCHANGED <<pc, rungs, flags, lastPos, fix, client, delivered, wireVars, envVars>>

Fixes   == \E skew \in Skews, sent \in Sendable : Fix(skew, sent)
Acks    == (\E sent \in Sendable : Connected(sent) \/ Subscribe(sent)) \/ Subscribed \/ Published
TimeOut == ConnectTimesOut \/ SessionTimesOut \/ PublishTimesOut
Checks  == \E connected \in isConnected : Check(connected)

Next ==
    \/ Ladder \/ Acks \/ TimeOut \/ EndYield
    \/ NoSentence \/ Sentence \/ Fixes \/ Checks \/ PowerDown
    \/ \E c \in Commands : ReadCommand(c) \/ Command(c)
    \/ BrokerHandles \/ Tick
    \/ \E n \in {"up", "slow", "down"} : NetworkChanges(n)
    \/ \E p \in Places : Move(p)

Spec == Init /\ [][Next]_vars

(* The loop and the broker do not stop; time goes on; the receiver has a   *)
(* fix again and again, and in between nothing to say, as it speaks once a *)
(* second.  Nothing is assumed of the network, of commands or of moves.    *)
Fairness ==
    /\ WF_vars(Ladder) /\ WF_vars(Acks) /\ WF_vars(TimeOut) /\ WF_vars(EndYield)
    /\ WF_vars(Checks) /\ WF_vars(PowerDown) /\ WF_vars(BrokerHandles) /\ WF_vars(Tick)
    /\ SF_vars(Fixes) /\ SF_vars(NoSentence)

FairSpec == Spec /\ Fairness

-----------------------------------------------------------------------------
(* Properties.  main takes its globals at their word: a rung holds only on *)
(* top of the others, socketConnect says whether there is a socket to      *)
(* close, and mqttConnect that there is a client to call.                  *)
LadderTruthful ==
    /\ "mqttConnect" \in rungs => "socketConnect" \in rungs /\ client # "NULL"
    /\ "socketConnect" \in rungs => "mdmIP" \in rungs
    /\ "mdmIP" \in rungs => "mdmRegister" \in rungs
    /\ "mdmRegister" \in rungs => "mdmInit" \in rungs
    /\ "socketConnect" \in rungs <=> sock # "closed"

(* publish takes any PUBACK for its own.  It may: a publish that was given *)
(* up ends the session, and its late PUBACK with it, so that after a       *)
(* publish that returned success the broker holds the position from which  *)
(* the device measures its next move.                                      *)
AckMeansStored == delivered => brokerPos = lastPos

(* A command "off" or "reset" that was taken ends the main loop, wherever  *)
(* in it the command was read and whatever the network does meanwhile.     *)
OffObeyed == "off" \in flags ~> (pc = "halted" \/ "off" \notin flags)

(* Positions are lost, and the device then believes it has reported where  *)
(* it is; nor does it notice by itself that its connection is gone.  Still *)
(* while the network stays up, a device that stays at a place is in the    *)
(* end known to be there.                                                  *)
PositionConverges ==
    \A p \in Places :
        <>[](network = "up" /\ at = p /\ "off" \notin flags) => <>[](brokerPos = p)

(* ... and it gets a session that takes commands, whatever state the last  *)
(* failure left the ladder, the socket and the client in.                  *)
SessionRecovers ==
    <>[](network = "up" /\ "off" \notin flags) =>
        <>[](client = "subscribed" /\ "mqttConnect" \in rungs /\ sock = "open")

(* "Transmits position once on startup" (main.cpp:10): sendOnce is reset   *)
(* by a position that reached the broker.                                  *)
StartupPositionSent == "sendOnce" \notin flags => brokerPos # NoPlace
=============================================================================
