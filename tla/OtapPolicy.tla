----------------------------- MODULE OtapPolicy -----------------------------
(***************************************************************************)
(* What the OTAP server promises its operators about the four things it    *)
(* stores.  They change when an operator has asked for it, and as he asked:*)
(* each command of otc.py takes effect once, at one instant at which what  *)
(* it requires holds, or is refused because that does not hold, or is lost *)
(* to a fault.  All that devices do by themselves is to use up the         *)
(* once-only assignments that are made for them.                           *)
(*                                                                         *)
(* OtapServer, whose handlers read, decide and write in separate steps, is *)
(* shown to implement this when the server runs one worker.                *)
(***************************************************************************)
EXTENDS Integers

CONSTANTS Imeis, Custids, Versions, Snames, Workers, Any, None

VARIABLES
    jars, otap, settings, imeiset,
    asked,     \* worker -> the command it has been given, and not carried out
    count,     \* commands that operators have given
    faults     \* faults so far

tables == <<jars, otap, settings, imeiset>>
vars   == <<tables, asked, count, faults>>

Commands ==
    ({"add"} \X Imeis \X Custids)
    \cup ({"deliver"} \X Imeis \X (Versions \cup {Any}))
    \cup ({"purge"} \X Versions)
    \cup ({"define", "undef"} \X Snames)
    \cup ({"set"} \X Imeis \X Snames \X BOOLEAN)

Init ==
    /\ jars     = {}
    /\ otap     = [i \in Imeis |-> None]
    /\ settings = {}
    /\ imeiset  = [i \in Imeis |-> None]
    /\ asked    = [w \in Workers |-> None]
    /\ count    = 0
    /\ faults   = 0

-----------------------------------------------------------------------------
(* An operator gives a command.                                            *)
Given == count' = count + 1 /\ UNCHANGED faults

Ask(w, cmd) ==
    /\ Given
    /\ asked[w] = None /\ asked' = [asked EXCEPT ![w] = cmd]
    /\ UNCHANGED tables

(* These commands are carried out as they are given.                       *)
Block(S, b) ==
    /\ Given
    /\ otap' = [i \in Imeis |-> IF i \in S /\ otap[i] # None
                                  THEN [otap[i] EXCEPT !.block = b]
                                  ELSE otap[i]]
    /\ UNCHANGED <<jars, settings, imeiset, asked>>

Upload(v) ==
    /\ Given
    /\ jars' = jars \cup {v}
    /\ UNCHANGED <<otap, settings, imeiset, asked>>

Unset(i, s) ==
    /\ Given
    /\ imeiset[i] # None /\ imeiset[i].sname = s
    /\ imeiset' = [imeiset EXCEPT ![i] = None]
    /\ UNCHANGED <<jars, otap, settings, asked>>

(* And these have nothing to do with what is stored here.                  *)
Other == Given /\ UNCHANGED <<tables, asked>>

-----------------------------------------------------------------------------
(* A command that was given is carried out.                                *)
Done(w, cmd) ==
    /\ asked[w] = cmd /\ asked' = [asked EXCEPT ![w] = None]
    /\ UNCHANGED <<count, faults>>

(* A new device gets a row that is not blocked and has nothing queued; one *)
(* that is known keeps what is queued for it.                              *)
AddImei(w, i, c) ==
    /\ Done(w, <<"add", i, c>>)
    /\ otap' = [otap EXCEPT ![i] =
                 [custid  |-> c,
                  block   |-> FALSE,
                  deliver |-> IF otap[i] = None THEN None ELSE otap[i].deliver]]
    /\ UNCHANGED <<jars, settings, imeiset>>

(* Only a version that is there is queued, or '*'.                         *)
Deliverable(i, v) == otap[i] # None /\ v \in jars \cup {Any}

Deliver(w, i, v) ==
    /\ Done(w, <<"deliver", i, v>>)
    /\ Deliverable(i, v)
    /\ otap' = [otap EXCEPT ![i].deliver = v]
    /\ UNCHANGED <<jars, settings, imeiset>>

(* Only a version that is queued for nobody is removed.                    *)
Purge(w, v) ==
    /\ Done(w, <<"purge", v>>)
    /\ \A i \in Imeis : otap[i] # None => otap[i].deliver # v
    /\ jars' = jars \ {v}
    /\ UNCHANGED <<otap, settings, imeiset>>

Define(w, s) ==
    /\ Done(w, <<"define", s>>)
    /\ settings' = settings \cup {s}
    /\ UNCHANGED <<jars, otap, imeiset>>

(* Only a set that is assigned to nobody is destroyed.                     *)
Undef(w, s) ==
    /\ Done(w, <<"undef", s>>)
    /\ \A i \in Imeis : imeiset[i] # None => imeiset[i].sname # s
    /\ settings' = settings \ {s}
    /\ UNCHANGED <<jars, otap, imeiset>>

(* Only a set that is defined is assigned, to a device that has none.      *)
Assign(w, i, s, once) ==
    /\ Done(w, <<"set", i, s, once>>)
    /\ s \in settings
    /\ imeiset[i] = None
    /\ imeiset' = [imeiset EXCEPT ![i] = [sname |-> s, once |-> once]]
    /\ UNCHANGED <<jars, otap, settings>>

(* It is refused, for what it asks cannot be done,                         *)
Refuse(w, cmd) ==
    /\ Done(w, cmd)
    /\ \/ \E i \in Imeis, v \in Versions \cup {Any} :
            cmd = <<"deliver", i, v>> /\ ~Deliverable(i, v)
       \/ \E i \in Imeis, s \in Snames, once \in BOOLEAN :
            cmd = <<"set", i, s, once>> /\ imeiset[i] # None
    /\ UNCHANGED tables

(* or lost with the worker that was to do it.                              *)
Fault ==
    /\ faults' = faults + 1
    /\ asked' = asked \/ \E w \in Workers : asked' = [asked EXCEPT ![w] = None]
    /\ UNCHANGED <<tables, count>>

-----------------------------------------------------------------------------
(* A device that is registered and not blocked fetches what is meant for   *)
(* it once only.                                                           *)
Spend(i) ==
    /\ otap[i] # None /\ ~otap[i].block
    /\ imeiset[i] # None /\ imeiset[i].once
    /\ imeiset' = [imeiset EXCEPT ![i] = None]
    /\ UNCHANGED <<jars, otap, settings, asked, count, faults>>

-----------------------------------------------------------------------------
Give ==
    \/ \E w \in Workers, cmd \in Commands : Ask(w, cmd)
    \/ \E S \in SUBSET Imeis, b \in BOOLEAN : Block(S, b)
    \/ \E v \in Versions : Upload(v)
    \/ \E i \in Imeis, s \in Snames : Unset(i, s)
    \/ Other

CarryOut(w) ==
    \/ \E i \in Imeis, c \in Custids : AddImei(w, i, c)
    \/ \E i \in Imeis, v \in Versions \cup {Any} : Deliver(w, i, v)
    \/ \E v \in Versions : Purge(w, v)
    \/ \E s \in Snames : Define(w, s) \/ Undef(w, s)
    \/ \E i \in Imeis, s \in Snames, once \in BOOLEAN : Assign(w, i, s, once)
    \/ \E cmd \in Commands : Refuse(w, cmd)

Next ==
    \/ Give
    \/ \E w \in Workers : CarryOut(w)
    \/ Fault
    \/ \E i \in Imeis : Spend(i)

Spec == Init /\ [][Next]_vars
=============================================================================
