------------------------------ MODULE Geofence ------------------------------
(***************************************************************************)
(* Geofences in OwnTracks pista: o2s.py stores the waypoints its users     *)
(* publish, owntracks/waypoints.py compares every position with the        *)
(* waypoints that were in the table when o2s started, remembers in a       *)
(* persistent dictionary (owntracks/persist.py) which fence a device is    *)
(* in, and publishes an alert when it enters or leaves one.                *)
(*                                                                         *)
(* o2s has one thread, so checks do not overlap; it may be killed between  *)
(* any two of their steps.  An alert is handed to paho, which sends it at  *)
(* once or after the callback (QoS 0: what is queued dies with the         *)
(* process or the connection).                                             *)
(*                                                                         *)
(* Abstracted: coordinates and distances (a fence is the set of places     *)
(* within its radius), the text of alerts, the fences drawn on the map,    *)
(* and positions that on_message drops before it comes to wp.check.        *)
(***************************************************************************)
EXTENDS Integers, Sequences

CONSTANTS
    Devices,      \* topics
    Places,       \* where a device can be
    Fences,       \* waypoints: coordinates, radius and name
    Centre,       \* fence -> its coordinates
    Area,         \* fence -> the places within its radius; {}: no radius
    Unspeakable,  \* fences for whose alert formatting the watcher's line raises
    Stamps,       \* time stamps (tst) of waypoints, to the second
    None,
    MaxRows,      \* bound: ids given out by the table waypoint
    MaxMoves,     \* bound: moves of the devices
    MaxFaults,    \* bound: kills, failed writes and broken connections
    MaxOut        \* bound: alerts queued in paho when a position is read

ASSUME FenceAssumption ==
    /\ Area \in [Fences -> SUBSET Places]
    /\ Unspeakable \subseteq Fences
    /\ DOMAIN Centre = Fences
    /\ None \notin Fences \cup Places \cup Devices \cup [tst : Stamps, fence : Fences]
ASSUME FenceBounds ==
    MaxRows \in Nat /\ MaxMoves \in Nat /\ MaxFaults \in Nat /\ MaxOut \in Nat

Ids      == 1 .. MaxRows
Row      == [tst : Stamps, fence : Fences]
Loadable == {f \in Fences : Area[f] # {}}
Alert    == [event : {"enters", "leaves"}, dev : Devices, fence : Fences]

VARIABLES
    waypoint,   \* the table: id -> row
    used,       \* ids given out
    wplist,     \* self.wplist, by id: the fences loaded when o2s started
    tlist,      \* self.tlist in memory: device -> fence it is in
    disk,       \* the file self.tlist is synced to
    chk,        \* the check in progress
    out,        \* alerts queued in paho
    told,       \* observer: what the alerts received say of each device
    at,         \* where each device is
    last,       \* observer: place of the last check o2s has completed
    moves, faults

vars == <<waypoint, used, wplist, tlist, disk, chk, out, told, at, last, moves, faults>>
table == <<waypoint, used>>

Resting == [pc |-> "idle", dev |-> None, place |-> None, k |-> 1]
Check   == [pc : {"idle", "loop", "left"}, dev : Devices \cup {None},
            place : Places \cup {None}, k : 1 .. MaxRows + 1]

TypeOK ==
    /\ waypoint \in [Ids -> Row \cup {None}]
    /\ used     \in 0 .. MaxRows
    /\ wplist   \in [Ids -> Loadable \cup {None}]
    /\ tlist    \in [Devices -> Loadable \cup {None}]
    /\ disk     \in [Devices -> Loadable \cup {None}]
    /\ chk      \in Check
    /\ out      \in Seq(Alert)
    /\ told     \in [Devices -> Fences \cup {None}]
    /\ at       \in [Devices -> Places]
    /\ last     \in [Devices -> Places \cup {None}]
    /\ moves    \in 0 .. MaxMoves
    /\ faults   \in 0 .. MaxFaults

(* Mutant: a waypoint without a radius is loaded.                          *)
Mut_Load(rows) == [n \in Ids |-> IF rows[n] # None THEN rows[n].fence ELSE None]

(* load_waypoints: rows without a radius are passed over.  Select returns  *)
(* the rows by id.                                                         *)
Load(rows) ==
    [n \in Ids |-> IF rows[n] # None /\ Area[rows[n].fence] # {}
                     THEN rows[n].fence ELSE None]

(* o2s is started for the first time on a table of waypoints.              *)
Init ==
    /\ waypoint \in [Ids -> Row \cup {None}]
    /\ \A m, n \in Ids : m # n /\ waypoint[m] # None /\ waypoint[n] # None =>
            waypoint[m].tst # waypoint[n].tst
    /\ used \in 0 .. MaxRows
    /\ \A n \in Ids : waypoint[n] = None <=> n > used
    /\ wplist = Load(waypoint)
    /\ tlist  = [d \in Devices |-> None]
    /\ disk   = tlist
    /\ chk    = Resting
    /\ out    = <<>>
    /\ told   = [d \in Devices |-> None]
    /\ at     \in [Devices -> Places]
    /\ last   = [d \in Devices |-> None]
    /\ moves  = 0
    /\ faults = 0

-----------------------------------------------------------------------------
(* on_message for a waypoint: REPLACE INTO waypoint.  The unique index is  *)
(* on tst alone, so whatever row has this time stamp goes; the new row     *)
(* gets a new id.  self.wplist is not told.                                *)
StoreWaypoint(t, f) ==
    /\ chk.pc = "idle"
    /\ used < MaxRows
    /\ used' = used + 1
    /\ waypoint' = [n \in Ids |->
            IF n = used' THEN [tst |-> t, fence |-> f]
            ELSE IF waypoint[n] # None /\ waypoint[n].tst = t THEN None
            ELSE waypoint[n]]
    /\ UNCHANGED <<wplist, tlist, disk, chk, out, told, at, last, moves, faults>>

Move(d, p) ==
    /\ moves < MaxMoves
    /\ moves' = moves + 1
    /\ at' = [at EXCEPT ![d] = p]
    /\ UNCHANGED <<table, wplist, tlist, disk, chk, out, told, last, faults>>

(* A position of d arrives and on_message calls wp.check.                  *)
Report(d) ==
    /\ chk.pc = "idle"
    /\ Len(out) < MaxOut
    /\ chk' = [pc |-> "loop", dev |-> d, place |-> at[d], k |-> 1]
    /\ UNCHANGED <<table, wplist, tlist, disk, out, told, at, last, moves, faults>>

-----------------------------------------------------------------------------
(* check: one step per fence of self.wplist, two when the device leaves.   *)

Fence     == wplist[chk.k]
In(f)     == chk.place \in Area[f]
Recorded  == tlist[chk.dev]

(* Mutant: fences are compared by their name and radius too.               *)
Mut_Same(f, g) == f # None /\ f = g

(* WayPoint.__eq__ compares the coordinates only.                          *)
Same(f, g) == f # None /\ g # None /\ Centre[f] = Centre[g]

Examining == chk.pc = "loop" /\ chk.k <= MaxRows
NextFence == chk' = [pc |-> "loop", dev |-> chk.dev, place |-> chk.place, k |-> chk.k + 1]

(* check returns to on_message, normally or by an exception caught there.  *)
Return == chk' = Resting /\ last' = [last EXCEPT ![chk.dev] = chk.place]
Raise  == chk' = Resting /\ last' = [last EXCEPT ![chk.dev] = None]

Publish(event) == out' = Append(out, [event |-> event, dev |-> chk.dev, fence |-> Fence])
Quiet == UNCHANGED out

Record(f) == tlist' = [tlist EXCEPT ![chk.dev] = f]
Sync      == disk' = tlist'

PassBy ==
    /\ Examining
    /\ \/ Fence = None
       \/ Fence # None /\ ~In(Fence) /\ ~Same(Recorded, Fence)
    /\ NextFence
    /\ Quiet
    /\ UNCHANGED <<tlist, disk, last>>

(* The alert of a leave comes before the entry is deleted.  If alert       *)
(* raises, having published, the entry is not deleted at all.              *)
Leave ==
    /\ Examining
    /\ Fence # None
    /\ ~In(Fence) /\ Same(Recorded, Fence)
    /\ Publish("leaves")
    /\ IF Fence \in Unspeakable
         THEN Raise
         ELSE chk' = [chk EXCEPT !.pc = "left"] /\ UNCHANGED last
    /\ UNCHANGED <<tlist, disk>>

(* Mutant: check is over when the device has left.                         *)
Mut_LeaveSync ==
    /\ chk.pc = "left"
    /\ Record(None)
    /\ Sync
    /\ Return
    /\ Quiet

LeaveSync ==
    /\ chk.pc = "left"
    /\ Record(None)
    /\ Sync
    /\ NextFence
    /\ Quiet
    /\ UNCHANGED last

(* Mutant: the alert comes before the entry is made.                       *)
Mut_Enter ==
    /\ Examining
    /\ Fence # None
    /\ In(Fence) /\ Recorded = None
    /\ Publish("enters")
    /\ IF Fence \in Unspeakable
         THEN Raise /\ UNCHANGED <<tlist, disk>>
         ELSE Record(Fence) /\ Sync /\ NextFence /\ UNCHANGED last

Enter ==
    /\ Examining
    /\ Fence # None
    /\ In(Fence) /\ Recorded = None
    /\ Record(Fence)
    /\ Sync
    /\ Publish("enters")
    /\ IF Fence \in Unspeakable THEN Raise ELSE NextFence /\ UNCHANGED last

(* Mutant: every position in a fence is an alert.                          *)
Mut_StillAt ==
    /\ Examining
    /\ Fence # None
    /\ In(Fence) /\ Recorded # None
    /\ Publish("enters")
    /\ Return
    /\ UNCHANGED <<tlist, disk>>

(* In a fence and recorded in one, this or another: return.                *)
StillAt ==
    /\ Examining
    /\ Fence # None
    /\ In(Fence) /\ Recorded # None
    /\ Return
    /\ Quiet
    /\ UNCHANGED <<tlist, disk>>

EndOfList ==
    /\ chk.pc = "loop"
    /\ chk.k > MaxRows
    /\ Return
    /\ Quiet
    /\ UNCHANGED <<tlist, disk>>

CheckStep ==
    /\ PassBy \/ Leave \/ LeaveSync \/ Enter \/ StillAt \/ EndOfList
    /\ UNCHANGED <<table, wplist, told, at, moves, faults>>

-----------------------------------------------------------------------------
(* The subscriber of alert_topic receives the oldest alert.                *)
Deliver ==
    /\ out # <<>>
    /\ out' = Tail(out)
    /\ LET a == Head(out)
       IN  told' = [told EXCEPT ![a.dev] = IF a.event = "enters" THEN a.fence ELSE None]
    /\ UNCHANGED <<table, wplist, tlist, disk, chk, at, last, moves, faults>>

Fault == faults < MaxFaults /\ faults' = faults + 1

(* sync raises (the disk is full): memory is ahead of the file and the     *)
(* rest of the check does not happen.                                      *)
SyncFails ==
    /\ Fault
    /\ \/ chk.pc = "left" /\ Record(None)
       \/ Examining /\ Fence # None /\ In(Fence) /\ Recorded = None /\ Record(Fence)
    /\ Raise
    /\ UNCHANGED <<table, wplist, disk, out, told, at, moves>>

(* The connection breaks; paho drops what it had queued and reconnects.    *)
Reconnect ==
    /\ Fault
    /\ chk.pc = "idle" /\ out # <<>>
    /\ out' = <<>>
    /\ UNCHANGED <<table, wplist, tlist, disk, chk, told, at, last, moves>>

(* o2s is killed at any point and started again.                           *)
Restart ==
    /\ Fault
    /\ tlist'  = disk
    /\ wplist' = Load(waypoint)
    /\ chk'    = Resting
    /\ out'    = <<>>
    /\ last'   = [d \in Devices |-> None]
    /\ UNCHANGED <<table, disk, told, at, moves>>

Next ==
    \/ \E t \in Stamps, f \in Fences : StoreWaypoint(t, f)
    \/ \E d \in Devices, p \in Places : Move(d, p)
    \/ \E d \in Devices : Report(d)
    \/ CheckStep
    \/ Deliver
    \/ SyncFails
    \/ Reconnect
    \/ Restart

Spec == Init /\ [][Next]_vars

(* o2s finishes the checks it has begun, paho sends what is queued, and a  *)
(* device publishes its position for ever; positions wait in the socket    *)
(* while another is checked.                                               *)
Fairness ==
    /\ WF_vars(CheckStep)
    /\ WF_vars(Deliver)
    /\ \A d \in Devices : SF_vars(Report(d))

FairSpec == Spec /\ Fairness

-----------------------------------------------------------------------------
Inside(p)  == {n \in Ids : wplist[n] # None /\ p \in Area[wplist[n]]}
Twins(f)   == {n \in Ids : wplist[n] # None /\ f # None /\ Centre[wplist[n]] = Centre[f]}
Stuck(f)   == \E n \in Twins(f) : wplist[n] \in Unspeakable
Checked(d) == last[d] # None /\ ~(chk.pc # "idle" /\ chk.dev = d)

(* The fences loaded with the same coordinates have the same radius.       *)
OneRadius ==
    \A m \in Ids : \A n \in Twins(wplist[m]) : Area[wplist[m]] = Area[wplist[n]]

(* A device that is recorded nowhere was, when last checked, outside every *)
(* fence: the one pass of check (waypoints.py:147-184), which deletes an   *)
(* entry half-way through the list, misses no fence before or behind it.   *)
NowhereMeansOutside ==
    \A d \in Devices :
        OneRadius /\ Checked(d) /\ tlist[d] = None => Inside(last[d]) = {}

(* A device that is still recorded in a fence it was outside of when last  *)
(* checked is there for one of two reasons: it was in another fence that   *)
(* comes earlier in the list, where check returns (waypoints.py:184), or   *)
(* its fence has not been loaded again (moved or given another radius 0).  *)
StaleOnlyBehind ==
    \A d \in Devices :
        OneRadius /\ Checked(d) /\ tlist[d] # None =>
            LET twins == Twins(tlist[d]) IN
            \/ twins = {}
            \/ twins \cap Inside(last[d]) # {}
            \/ \E m \in Inside(last[d]) : \A n \in twins : m < n

(* The inductive invariant behind the two: what check knows of the fences  *)
(* it has examined, and of the one a device has just been said to leave.   *)
Busy ==
    chk.pc # "idle" =>
        /\ chk.dev \in Devices /\ chk.place \in Places
        /\ chk.pc = "left" =>
              /\ chk.k \in Ids
              /\ Fence # None /\ ~In(Fence)
              /\ Recorded # None /\ chk.k \in Twins(Recorded)

Examined == {n \in Ids : n < chk.k}

Scanned ==
    chk.pc # "idle" /\ OneRadius =>
        \/ Examined \cap Inside(chk.place) = {} /\ Examined \cap Twins(Recorded) = {}
        \/ Recorded # None /\ Twins(Recorded) \cap Inside(chk.place) # {}

(* While nothing has failed, who listens to alert_topic knows exactly what *)
(* the dictionary says, once the queue is empty.                           *)
Agreement ==
    faults = 0 /\ chk.pc = "idle" /\ out = <<>> =>
        \A d \in Devices : told[d] = tlist[d] \/ Stuck(tlist[d])

(* Whatever was lost, killed or failed to sync: a device that stays        *)
(* outside every fence is in the end recorded nowhere, and one that stays  *)
(* in a fence is recorded in one, except for the fences that are no longer *)
(* loaded and those whose alert raises.                                    *)
Settles ==
    \A d \in Devices :
        /\ <>[](Inside(at[d]) = {}) =>
              <>[](tlist[d] = None \/ Twins(tlist[d]) = {} \/ Stuck(tlist[d]))
        /\ <>[](OneRadius /\ Inside(at[d]) # {}) => <>[](tlist[d] # None)

(* "... an MQTT topic name to which geofence enter/leave events will be    *)
(* published" (o2s.conf.sample:138-140): after a check that ran to its     *)
(* end, the fence a device is said to be in is one that it is in.          *)
RecordedMeansInside ==
    \A d \in Devices :
        Checked(d) /\ tlist[d] # None => last[d] \in Area[tlist[d]]

(* The same sentence, of the events themselves: while nothing has failed,  *)
(* a device is not said to leave when it is not said to be anywhere.       *)
AlertsAlternate ==
    [][faults' = 0 /\ out # <<>> /\ out' = Tail(out) =>
         (Head(out).event = "enters" <=> told[Head(out).dev] = None)]_vars
=============================================================================
