--------------------------- MODULE GeofenceProofs ---------------------------
(* Proofs about Geofence: types, and what the dictionary says of a device  *)
(* whose last check has run to its end, through failed writes, kills and   *)
(* restarts with another table of waypoints.                               *)
EXTENDS Geofence, TLAPS

Verdict(d, p) ==
    IF tlist[d] = None
      THEN Inside(p) = {}
      ELSE \/ Twins(tlist[d]) = {}
           \/ Twins(tlist[d]) \cap Inside(p) # {}
           \/ \E m \in Inside(p) : \A n \in Twins(tlist[d]) : m < n

Judged == \A d \in Devices : OneRadius /\ Checked(d) => Verdict(d, last[d])

IInv == TypeOK /\ Busy /\ Scanned /\ Judged

LEMMA JudgedMeans == Judged <=> NowhereMeansOutside /\ StaleOnlyBehind
  BY DEF Judged, Verdict, NowhereMeansOutside, StaleOnlyBehind

-----------------------------------------------------------------------------
(* Types, and the shape of the check in progress.                          *)

LEMMA LoadTyped ==
  ASSUME NEW rows \in [Ids -> Row \cup {None}]
  PROVE  Load(rows) \in [Ids -> Loadable \cup {None}]
  BY FenceAssumption DEF Load, Row, Loadable

LEMMA TypedInit == Init => TypeOK /\ Busy
  <1> SUFFICES ASSUME Init PROVE TypeOK /\ Busy
    OBVIOUS
  <1>1. wplist \in [Ids -> Loadable \cup {None}]
    BY LoadTyped DEF Init
  <1>2. chk \in Check
    BY FenceBounds DEF Init, Resting, Check
  <1>3. moves \in 0 .. MaxMoves /\ faults \in 0 .. MaxFaults
    BY FenceBounds DEF Init
  <1>4. out \in Seq(Alert)
    BY DEF Init
  <1> QED BY <1>1, <1>2, <1>3, <1>4 DEF Init, TypeOK, Busy, Resting

(* The five ways a step of check ends, by the request it leaves.           *)
LEMMA EndedTyped ==
  ASSUME TypeOK, Busy, chk.pc # "idle", Return \/ Raise
  PROVE  /\ chk' \in Check /\ chk'.pc = "idle"
         /\ last' \in [Devices -> Places \cup {None}]
  BY FenceBounds DEF TypeOK, Busy, Return, Raise, Resting, Check

LEMMA NextFenceTyped ==
  ASSUME TypeOK, Busy, chk.pc # "idle", chk.k \in Ids, NextFence
  PROVE  chk' \in Check /\ chk'.pc = "loop" /\ chk'.dev = chk.dev
            /\ chk'.place = chk.place /\ chk'.k = chk.k + 1
  BY FenceBounds DEF TypeOK, NextFence, Check, Ids

LEMMA ExaminingMeans ==
  ASSUME TypeOK, Busy, Examining
  PROVE  /\ chk.pc = "loop" /\ chk.k \in Ids
         /\ Fence \in Loadable \cup {None}
         /\ chk.dev \in Devices /\ chk.place \in Places
         /\ Recorded \in Loadable \cup {None}
  BY FenceBounds DEF TypeOK, Busy, Examining, Check, Ids, Fence, Recorded

LEMMA PublishTyped ==
  ASSUME TypeOK, chk.dev \in Devices, Fence \in Loadable,
         NEW event \in {"enters", "leaves"}, Publish(event)
  PROVE  out' \in Seq(Alert)
  BY DEF TypeOK, Publish, Alert, Loadable

LEMMA RecordTyped ==
  ASSUME TypeOK, NEW f \in Loadable \cup {None}, Record(f)
  PROVE  tlist' \in [Devices -> Loadable \cup {None}]
  BY DEF TypeOK, Record

LEMMA CheckStepTyped ==
  ASSUME TypeOK, Busy, CheckStep
  PROVE  TypeOK' /\ Busy'
  <1> DEFINE rest == /\ waypoint' \in [Ids -> Row \cup {None}] /\ used' \in 0 .. MaxRows
                     /\ wplist' \in [Ids -> Loadable \cup {None}]
                     /\ told' \in [Devices -> Fences \cup {None}]
                     /\ at' \in [Devices -> Places]
                     /\ moves' \in 0 .. MaxMoves /\ faults' \in 0 .. MaxFaults
             mine == /\ tlist' \in [Devices -> Loadable \cup {None}]
                     /\ disk' \in [Devices -> Loadable \cup {None}]
                     /\ chk' \in Check
                     /\ out' \in Seq(Alert)
                     /\ last' \in [Devices -> Places \cup {None}]
  <1>1. rest
    BY DEF CheckStep, TypeOK, table
  <1>2. SUFFICES mine /\ Busy'
    BY <1>1 DEF TypeOK
  <1> HIDE DEF rest
  <1>3. CASE PassBy
    <2>1. chk' \in Check /\ chk'.pc = "loop" /\ chk'.dev \in Devices /\ chk'.place \in Places
      BY <1>3, ExaminingMeans, NextFenceTyped DEF PassBy
    <2> QED BY <1>3, <2>1 DEF PassBy, Quiet, TypeOK, Busy
  <1>4. CASE Leave
    <2>1. /\ chk.k \in Ids /\ chk.dev \in Devices /\ chk.place \in Places /\ chk.pc = "loop"
          /\ Fence \in Loadable
      BY <1>4, ExaminingMeans DEF Leave
    <2>2. out' \in Seq(Alert)
      BY <1>4, <2>1, PublishTyped DEF Leave
    <2>3. tlist' \in [Devices -> Loadable \cup {None}] /\ disk' \in [Devices -> Loadable \cup {None}]
      BY <1>4 DEF Leave, TypeOK
    <2>4. CASE Fence \in Unspeakable
      BY <1>4, <2>1, <2>2, <2>3, <2>4, EndedTyped DEF Leave, Busy
    <2>5. CASE Fence \notin Unspeakable
      <3>1. chk' = [chk EXCEPT !.pc = "left"] /\ UNCHANGED last
        BY <1>4, <2>5 DEF Leave
      <3>2. chk' \in Check /\ chk'.dev = chk.dev /\ chk'.place = chk.place /\ chk'.k = chk.k
        BY <3>1 DEF TypeOK, Check
      <3>3. wplist' = wplist /\ tlist' = tlist
        BY <1>4 DEF Leave, CheckStep
      <3>4. Fence' = Fence /\ Recorded' = Recorded
        BY <3>2, <3>3 DEF Fence, Recorded
      <3>5. Twins(Recorded)' = Twins(Recorded)
        BY <3>3, <3>4 DEF Twins
      <3>6. Recorded # None /\ chk.k \in Twins(Recorded)
        BY <1>4, <2>1 DEF Leave, Same, Twins, Fence
      <3>7. Busy'
        BY <1>4, <2>1, <3>2, <3>4, <3>5, <3>6 DEF Busy, Leave, In
      <3> QED BY <2>2, <2>3, <3>1, <3>2, <3>7 DEF TypeOK
    <2> QED BY <2>4, <2>5
  <1>5. CASE LeaveSync
    <2>1. chk' \in Check /\ chk'.pc = "loop" /\ chk'.dev \in Devices /\ chk'.place \in Places
      BY <1>5, NextFenceTyped DEF LeaveSync, Busy
    <2>2. tlist' \in [Devices -> Loadable \cup {None}]
      BY <1>5, RecordTyped DEF LeaveSync
    <2> QED BY <1>5, <2>1, <2>2 DEF LeaveSync, Sync, Quiet, TypeOK, Busy
  <1>6. CASE Enter
    <2>1. /\ chk.k \in Ids /\ chk.dev \in Devices /\ chk.place \in Places /\ chk.pc = "loop"
          /\ Fence \in Loadable
      BY <1>6, ExaminingMeans DEF Enter
    <2>2. out' \in Seq(Alert)
      BY <1>6, <2>1, PublishTyped DEF Enter
    <2>3. tlist' \in [Devices -> Loadable \cup {None}] /\ disk' \in [Devices -> Loadable \cup {None}]
      BY <1>6, <2>1, RecordTyped DEF Enter, Sync
    <2>4. CASE Fence \in Unspeakable
      BY <1>6, <2>1, <2>2, <2>3, <2>4, EndedTyped DEF Enter, Busy
    <2>5. CASE Fence \notin Unspeakable
      BY <1>6, <2>1, <2>2, <2>3, <2>5, NextFenceTyped DEF Enter, Busy, TypeOK
    <2> QED BY <2>4, <2>5
  <1>7. CASE StillAt
    BY <1>7, ExaminingMeans, EndedTyped DEF StillAt, Quiet, TypeOK, Busy
  <1>8. CASE EndOfList
    BY <1>8, EndedTyped DEF EndOfList, Quiet, TypeOK, Busy
  <1> QED BY <1>3, <1>4, <1>5, <1>6, <1>7, <1>8 DEF CheckStep

LEMMA TypedNext == TypeOK /\ Busy /\ [Next]_vars => TypeOK' /\ Busy'
  <1> SUFFICES ASSUME TypeOK, Busy, [Next]_vars PROVE TypeOK' /\ Busy'
    OBVIOUS
  <1>1. CASE UNCHANGED vars
    BY <1>1 DEF vars, TypeOK, Busy, Fence, In, Recorded, Twins
  <1>2. ASSUME NEW t \in Stamps, NEW f \in Fences, StoreWaypoint(t, f)
        PROVE  TypeOK' /\ Busy'
    <2>1. waypoint' \in [Ids -> Row \cup {None}]
      BY <1>2 DEF StoreWaypoint, TypeOK, Row
    <2>2. used' \in 0 .. MaxRows
      BY <1>2, FenceBounds DEF StoreWaypoint, TypeOK
    <2> QED BY <1>2, <2>1, <2>2 DEF StoreWaypoint, TypeOK, Busy
  <1>3. ASSUME NEW d \in Devices, NEW p \in Places, Move(d, p)
        PROVE  TypeOK' /\ Busy'
    <2>1. moves' \in 0 .. MaxMoves
      BY <1>3, FenceBounds DEF Move, TypeOK
    <2>2. at' \in [Devices -> Places]
      BY <1>3 DEF Move, TypeOK
    <2> QED BY <1>3, <2>1, <2>2 DEF Move, table, TypeOK, Busy, Fence, In, Recorded, Twins
  <1>4. ASSUME NEW d \in Devices, Report(d)
        PROVE  TypeOK' /\ Busy'
    <2>1. chk' \in Check /\ chk'.pc = "loop" /\ chk'.dev = d /\ chk'.place \in Places
      BY <1>4, FenceBounds DEF Report, TypeOK, Check
    <2> QED BY <1>4, <2>1 DEF Report, table, TypeOK, Busy
  <1>5. CASE CheckStep
    BY <1>5, CheckStepTyped
  <1>6. CASE Deliver
    <2>1. /\ Head(out) \in Alert
          /\ out' \in Seq(Alert)
      BY <1>6 DEF Deliver, TypeOK
    <2>2. told' \in [Devices -> Fences \cup {None}]
      BY <1>6, <2>1 DEF Deliver, TypeOK, Alert
    <2> QED BY <1>6, <2>1, <2>2 DEF Deliver, table, TypeOK, Busy, Fence, In, Recorded, Twins
  <1>7. ASSUME Fault
        PROVE  faults' \in 0 .. MaxFaults
    BY <1>7, FenceBounds DEF Fault, TypeOK
  <1>8. CASE SyncFails
    <2>1. chk.pc # "idle" /\ chk' \in Check /\ chk'.pc = "idle"
             /\ last' \in [Devices -> Places \cup {None}]
      BY <1>8, ExaminingMeans, EndedTyped DEF SyncFails
    <2>2. tlist' \in [Devices -> Loadable \cup {None}]
      BY <1>8, ExaminingMeans, RecordTyped DEF SyncFails
    <2> QED BY <1>7, <1>8, <2>1, <2>2 DEF SyncFails, table, TypeOK, Busy
  <1>9. CASE Reconnect
    BY <1>7, <1>9 DEF Reconnect, table, TypeOK, Busy
  <1>10. CASE Restart
    <2>1. wplist' \in [Ids -> Loadable \cup {None}]
      BY <1>10, LoadTyped DEF Restart, TypeOK
    <2>2. chk' \in Check /\ chk'.pc = "idle"
      BY <1>10, FenceBounds DEF Restart, Resting, Check
    <2> QED BY <1>7, <1>10, <2>1, <2>2 DEF Restart, table, TypeOK, Busy
  <1> QED BY <1>1, <1>2, <1>3, <1>4, <1>5, <1>6, <1>8, <1>9, <1>10 DEF Next

-----------------------------------------------------------------------------
(* What the pass over the list finds out.                                  *)

(* Fences of the same centre and radius contain the same places.           *)
LEMMA TwinsAlike ==
  ASSUME TypeOK, OneRadius, NEW f, NEW p, NEW m \in Twins(f), NEW n \in Twins(f),
         m \in Inside(p)
  PROVE  n \in Inside(p)
  <1>1. n \in Twins(wplist[m]) /\ m \in Ids /\ n \in Ids
    BY DEF Twins
  <1>2. Area[wplist[m]] = Area[wplist[n]]
    BY <1>1 DEF OneRadius
  <1> QED BY <1>1, <1>2 DEF Inside, Twins

(* A check that runs to its end knows where the device is.                 *)
LEMMA Concluded ==
  ASSUME TypeOK, Busy, Scanned, OneRadius, StillAt \/ EndOfList
  PROVE  Verdict(chk.dev, chk.place)
  <1> DEFINE p == chk.place
  <1>1. CASE Recorded # None /\ Twins(Recorded) \cap Inside(p) # {}
    BY <1>1 DEF Verdict, Recorded
  <1>2. CASE Examined \cap Inside(p) = {} /\ Examined \cap Twins(Recorded) = {}
    <2>1. CASE StillAt
      <3>1. chk.k \in Ids /\ chk.k \in Inside(p) /\ Recorded # None
        BY <2>1, ExaminingMeans DEF StillAt, In, Inside, Fence
      <3>2. ASSUME NEW n \in Twins(Recorded)
            PROVE  chk.k < n \/ n \in Inside(p)
        <4>1. n \in Ids /\ n \notin Examined
          BY <1>2 DEF Twins
        <4>2. n = chk.k \/ chk.k < n
          BY <3>1, <4>1 DEF Examined, Ids
        <4> QED BY <4>2, <3>1
      <3> QED BY <3>1, <3>2 DEF Verdict, Recorded
    <2>2. CASE EndOfList
      <3>1. Examined = Ids
        BY <2>2, FenceBounds DEF EndOfList, Examined, Ids, TypeOK, Check
      <3>2. Inside(p) = {} /\ Twins(Recorded) = {}
        BY <1>2, <3>1 DEF Inside, Twins
      <3> QED BY <3>2 DEF Verdict, Recorded
    <2> QED BY <2>1, <2>2
  <1>3. chk.pc # "idle"
    BY DEF StillAt, EndOfList, Examining
  <1> QED BY <1>1, <1>2, <1>3 DEF Scanned

(* One more fence has been examined.                                       *)
LEMMA ScannedNext ==
  ASSUME TypeOK, Busy, Scanned, CheckStep, PassBy \/ LeaveSync \/ Enter, chk'.pc # "idle"
  PROVE  Scanned'
  <1> SUFFICES ASSUME OneRadius'
               PROVE  \/ /\ (Examined \cap Inside(chk.place))' = {}
                         /\ (Examined \cap Twins(Recorded))' = {}
                      \/ /\ Recorded' # None
                         /\ (Twins(Recorded) \cap Inside(chk.place))' # {}
    BY DEF Scanned
  <1>1. chk.pc # "idle" /\ chk.k \in Ids
    BY ExaminingMeans DEF PassBy, LeaveSync, Enter, Busy
  <1>2. NextFence
    BY EndedTyped, <1>1 DEF PassBy, LeaveSync, Enter
  <1>3. /\ chk'.dev = chk.dev /\ chk'.place = chk.place /\ chk'.k = chk.k + 1
        /\ wplist' = wplist
    BY <1>1, <1>2, NextFenceTyped DEF CheckStep
  <1>4. OneRadius /\ Inside(chk.place)' = Inside(chk.place)
    BY <1>3 DEF OneRadius, Inside, Twins
  <1>5. Examined' = Examined \cup {chk.k}
    BY <1>1, <1>3 DEF Examined, Ids
  <1>6. ASSUME NEW f PROVE Twins(f)' = Twins(f)
    BY <1>3 DEF Twins
  <1>7. Twins(None) = {}
    BY DEF Twins
  <1>8. CASE PassBy
    <2>1. Recorded' = Recorded /\ Twins(Recorded)' = Twins(Recorded)
      BY <1>3, <1>8 DEF PassBy, Recorded, Twins
    <2>2. chk.k \notin Inside(chk.place) /\ chk.k \notin Twins(Recorded)
      BY <1>8 DEF PassBy, Inside, Twins, Same, In, Fence
    <2> QED BY <1>1, <1>3, <1>4, <1>5, <2>1, <2>2 DEF Scanned
  <1>9. CASE LeaveSync
    <2>1. Recorded' = None /\ Twins(Recorded)' = {}
      BY <1>3, <1>9 DEF LeaveSync, Record, Recorded, Twins, Busy, TypeOK
    <2>2. /\ chk.k \in Twins(Recorded) /\ chk.k \notin Inside(chk.place)
      BY <1>9 DEF LeaveSync, Busy, In, Inside, Fence
    <2>3. Twins(Recorded) \cap Inside(chk.place) = {}
      BY <1>4, <2>2, TwinsAlike
    <2>4. Examined \cap Inside(chk.place) = {}
      BY <1>1, <1>4, <2>3 DEF Scanned
    <2> QED BY <1>3, <1>4, <1>5, <2>1, <2>2, <2>4
  <1>10. CASE Enter
    <2>1. Fence \in Loadable /\ chk.dev \in Devices /\ chk.k \in Ids /\ In(Fence)
      BY <1>10, ExaminingMeans DEF Enter
    <2>2. Recorded' = Fence
      BY <1>3, <1>10, <2>1 DEF Enter, Record, Recorded, TypeOK
    <2>3. Fence # None
      BY <1>10 DEF Enter
    <2>4. chk.k \in Twins(Fence) /\ chk.k \in Inside(chk.place)
      BY <2>1, <2>3 DEF Twins, Inside, In, Fence
    <2>5. chk.k \in Twins(Recorded)'
      BY <1>3, <2>2, <2>4 DEF Twins
    <2> QED BY <1>3, <1>4, <2>2, <2>3, <2>4, <2>5
  <1> QED BY <1>8, <1>9, <1>10

LEMMA ScannedStep == TypeOK /\ Busy /\ Scanned /\ [Next]_vars => Scanned'
  <1> SUFFICES ASSUME TypeOK, Busy, Scanned, [Next]_vars, chk'.pc # "idle"
               PROVE  Scanned'
    BY DEF Scanned
  <1>1. CASE UNCHANGED <<chk, wplist, tlist>>
    BY <1>1 DEF Scanned, OneRadius, Examined, Inside, Twins, Recorded
  <1>2. ASSUME NEW d \in Devices, Report(d)
        PROVE  Scanned'
    <2>1. chk'.k = 1
      BY <1>2 DEF Report
    <2>2. Examined' = {}
      BY <2>1, FenceBounds DEF Examined, Ids
    <2> QED BY <2>2 DEF Scanned
  <1>3. CASE CheckStep
    <2>1. CASE Leave
      <3>1. chk' = [chk EXCEPT !.pc = "left"]
        BY <2>1 DEF Leave, Raise, Resting
      <3>2. chk.pc # "idle" /\ chk'.dev = chk.dev /\ chk'.place = chk.place /\ chk'.k = chk.k
        BY <2>1, <3>1 DEF TypeOK, Check, Leave, Examining
      <3>3. UNCHANGED <<wplist, tlist>>
        BY <1>3, <2>1 DEF CheckStep, Leave
      <3> QED BY <3>2, <3>3 DEF Scanned, OneRadius, Examined, Inside, Twins, Recorded
    <2>2. CASE StillAt \/ EndOfList
      BY <2>2 DEF StillAt, EndOfList, Return, Resting
    <2> QED BY <1>3, <2>1, <2>2, ScannedNext DEF CheckStep
  <1>4. CASE SyncFails \/ Restart
    BY <1>4 DEF SyncFails, Restart, Raise, Resting
  <1> QED BY <1>1, <1>2, <1>3, <1>4
          DEF Next, vars, StoreWaypoint, Move, Deliver, Reconnect

-----------------------------------------------------------------------------
(* A step that touches neither the fences nor what is known of d.          *)
LEMMA VerdictKept ==
  ASSUME NEW d \in Devices, NEW p, Verdict(d, p), wplist' = wplist, tlist'[d] = tlist[d]
  PROVE  Verdict(d, p)'
  BY DEF Verdict, Inside, Twins

(* A step of the check of d leaves every other device alone, and ends with *)
(* d unchecked or with a verdict on d.                                     *)
LEMMA JudgedCheckStep ==
  ASSUME TypeOK, Busy, Scanned, Judged, CheckStep
  PROVE  Judged'
  <1>1. wplist' = wplist /\ chk.pc # "idle" /\ chk.dev \in Devices /\ chk.place \in Places
    BY DEF CheckStep, PassBy, Leave, LeaveSync, Enter, StillAt, EndOfList, Examining, Busy
  <1> PICK me \in Devices : me = chk.dev
    BY <1>1
  <1> PICK here \in Places : here = chk.place
    BY <1>1
  <1>2. ASSUME NEW d \in Devices, d # me
        PROVE  tlist'[d] = tlist[d] /\ last'[d] = last[d]
    BY <1>1, <1>2 DEF CheckStep, PassBy, Leave, LeaveSync, Enter, StillAt, EndOfList,
                      Record, Return, Raise, TypeOK
  <1>3. OneRadius' <=> OneRadius
    BY <1>1 DEF OneRadius, Twins
  <1>4. ASSUME NEW d \in Devices, d # me, OneRadius', Checked(d)'
        PROVE  Verdict(d, last[d])' /\ last'[d] = last[d]
    <2>1. Verdict(d, last[d])
      BY <1>2, <1>3, <1>4 DEF Judged, Checked
    <2>2. tlist'[d] = tlist[d] /\ last'[d] = last[d]
      BY <1>2, <1>4
    <2>3. ASSUME NEW p, Verdict(d, p) PROVE Verdict(d, p)'
      BY <1>1, <2>2, <2>3, VerdictKept
    <2> QED BY <2>1, <2>2, <2>3 DEF Verdict, Inside
  <1>5. ASSUME OneRadius', Checked(me)'
        PROVE  Verdict(me, last[me])'
    <2>1. CASE StillAt \/ EndOfList
      <3>1. last'[me] = here /\ tlist'[me] = tlist[me]
        BY <1>1, <2>1 DEF StillAt, EndOfList, Return, TypeOK
      <3>2. Verdict(me, here)
        BY <1>3, <1>5, <2>1, Concluded
      <3> QED BY <1>1, <3>1, <3>2 DEF Verdict, Inside, Twins
    <2>2. CASE chk'.pc # "idle" /\ chk'.dev = me
      BY <1>5, <2>2 DEF Checked
    <2>3. CASE Raise
      BY <1>1, <1>5, <2>3 DEF Raise, Checked, TypeOK
    <2>4. PassBy \/ LeaveSync \/ Enter \/ Leave =>
             Raise \/ (chk'.pc # "idle" /\ chk'.dev = me)
      <3>1. CASE NextFence
        BY <3>1 DEF NextFence
      <3>2. CASE Leave
        BY <3>2 DEF Leave, TypeOK, Check
      <3> QED BY <3>1, <3>2 DEF PassBy, LeaveSync, Enter
    <2> QED BY <2>1, <2>2, <2>3, <2>4 DEF CheckStep
  <1> QED BY <1>4, <1>5 DEF Judged, Verdict, Inside

LEMMA JudgedStep == TypeOK /\ Busy /\ Scanned /\ Judged /\ [Next]_vars => Judged'
  <1> SUFFICES ASSUME TypeOK, Busy, Scanned, Judged, [Next]_vars PROVE Judged'
    OBVIOUS
  <1>1. CASE UNCHANGED <<chk, wplist, tlist, last>>
    BY <1>1 DEF Judged, OneRadius, Checked, Verdict, Inside, Twins
  <1>2. ASSUME NEW d \in Devices, Report(d)
        PROVE  Judged'
    <2>1. UNCHANGED <<wplist, tlist, last>> /\ chk.pc = "idle"
      BY <1>2 DEF Report
    <2> QED BY <2>1 DEF Judged, OneRadius, Checked, Verdict, Inside, Twins
  <1>3. CASE CheckStep
    BY <1>3, JudgedCheckStep
  <1>4. CASE SyncFails
    <2>1. chk.dev \in Devices /\ wplist' = wplist
      BY <1>4, ExaminingMeans DEF SyncFails, Busy
    <2> PICK me \in Devices : me = chk.dev
      BY <2>1
    <2>2. last'[me] = None
      BY <1>4 DEF SyncFails, Raise, TypeOK
    <2>3. ASSUME NEW d \in Devices, d # me
          PROVE  tlist'[d] = tlist[d] /\ last'[d] = last[d]
      BY <1>4, <2>3 DEF SyncFails, Record, Raise, TypeOK
    <2>4. ASSUME NEW d \in Devices, OneRadius', Checked(d)'
          PROVE  Verdict(d, last[d])'
      <3>1. d # me
        BY <2>2, <2>4 DEF Checked
      <3>2. OneRadius /\ Checked(d) /\ tlist'[d] = tlist[d] /\ last'[d] = last[d]
        BY <2>1, <2>3, <2>4, <3>1 DEF OneRadius, Twins, Checked
      <3>3. Verdict(d, last[d])
        BY <3>2 DEF Judged
      <3> QED BY <2>1, <3>2, <3>3 DEF Verdict, Inside, Twins
    <2> QED BY <2>4 DEF Judged
  <1>5. CASE Restart
    BY <1>5 DEF Restart, Judged, Checked
  <1> QED BY <1>1, <1>2, <1>3, <1>4, <1>5
          DEF Next, vars, StoreWaypoint, Move, Deliver, Reconnect

-----------------------------------------------------------------------------
LEMMA Inductive == Spec => []IInv
  <1>1. Init => IInv
    <2>1. Init => Scanned
      BY DEF Init, Scanned, Resting
    <2>2. Init => Judged
      BY DEF Init, Judged, Checked
    <2> QED BY <2>1, <2>2, TypedInit DEF IInv
  <1>2. IInv /\ [Next]_vars => IInv'
    BY TypedNext, ScannedStep, JudgedStep DEF IInv
  <1> QED BY <1>1, <1>2, PTL DEF Spec

(* Every reachable state is well typed: in particular only waypoints with  *)
(* a radius are ever loaded or recorded (waypoints.py:54-55).              *)
THEOREM TypeCorrect == Spec => []TypeOK
  <1>1. IInv => TypeOK
    BY DEF IInv
  <1> QED BY <1>1, Inductive, PTL

(* A device that is recorded nowhere was outside every fence when it was   *)
(* last checked (waypoints.py:147-184).                                    *)
THEOREM NowhereIsOutside == Spec => []NowhereMeansOutside
  <1>1. IInv => NowhereMeansOutside
    BY JudgedMeans DEF IInv
  <1> QED BY <1>1, Inductive, PTL

(* A device is left in a fence it was outside of only behind an earlier    *)
(* fence, or when its fence is no longer loaded (waypoints.py:164-184).    *)
THEOREM StaleIsBehind == Spec => []StaleOnlyBehind
  <1>1. IInv => StaleOnlyBehind
    BY JudgedMeans DEF IInv
  <1> QED BY <1>1, Inductive, PTL

-----------------------------------------------------------------------------
(* What the subscriber of the alerts believes.                             *)
(* What a subscriber will believe of d when it has all that is queued: the *)
(* last alert about d, or what it has believed all along.                  *)
Meaning(a) == IF a.event = "enters" THEN a.fence ELSE None

LastAbout(d, n) == n \in DOMAIN out /\ out[n].dev = d
                      /\ \A m \in DOMAIN out : m > n => out[m].dev # d

Says(d, f) ==
    \/ (\A n \in DOMAIN out : out[n].dev # d) /\ told[d] = f
    \/ \E n \in DOMAIN out : LastAbout(d, n) /\ f = Meaning(out[n])

(* Between the alert of a leave and the deletion of the entry the two part. *)
Heard(d) ==
    IF chk.pc = "left" /\ chk.dev = d THEN Says(d, None)
                                      ELSE Says(d, tlist[d]) \/ Stuck(tlist[d])

AllHeard == faults = 0 => \A d \in Devices : Heard(d)

LEMMA SaidLast ==
  ASSUME TypeOK, NEW a \in Alert, out' = Append(out, a), UNCHANGED told
  PROVE  /\ Says(a.dev, Meaning(a))'
         /\ \A d \in Devices : \A f : d # a.dev /\ Says(d, f) => Says(d, f)'
  <1>1. /\ Len(out) \in Nat /\ Len(out') = Len(out) + 1
        /\ DOMAIN out = 1 .. Len(out) /\ DOMAIN out' = 1 .. Len(out) + 1
        /\ out'[Len(out) + 1] = a
        /\ \A n \in DOMAIN out : out'[n] = out[n]
    BY DEF TypeOK
  <1>2. Says(a.dev, Meaning(a))'
    <2>1. PICK n \in Nat : n = Len(out) + 1
      BY <1>1
    <2>2. n \in DOMAIN out' /\ out'[n] = a /\ \A m \in DOMAIN out' : ~(m > n)
      BY <1>1, <2>1
    <2>3. LastAbout(a.dev, n)'
      BY <2>2 DEF LastAbout
    <2> QED BY <2>2, <2>3 DEF Says
  <1>3. ASSUME NEW d \in Devices, NEW f, d # a.dev, Says(d, f)
        PROVE  Says(d, f)'
    <2>1. CASE (\A n \in DOMAIN out : out[n].dev # d) /\ told[d] = f
      <3>1. \A n \in DOMAIN out' : out'[n].dev # d
        BY <1>1, <1>3, <2>1
      <3> QED BY <2>1, <3>1 DEF Says
    <2>2. CASE \E n \in DOMAIN out : LastAbout(d, n) /\ f = Meaning(out[n])
      <3>1. PICK n \in DOMAIN out : LastAbout(d, n) /\ f = Meaning(out[n])
        BY <2>2
      <3>2. LastAbout(d, n)'
        BY <1>1, <1>3, <3>1 DEF LastAbout
      <3>3. n \in DOMAIN out' /\ f = Meaning(out'[n])
        BY <1>1, <3>1
      <3> QED BY <3>2, <3>3 DEF Says
    <2> QED BY <1>3, <2>1, <2>2 DEF Says
  <1> QED BY <1>2, <1>3

LEMMA SaidDelivered ==
  ASSUME TypeOK, Deliver, NEW d \in Devices, NEW f, Says(d, f)
  PROVE  Says(d, f)'
  <1>0. /\ out # <<>> /\ out' = Tail(out) /\ out \in Seq(Alert)
        /\ told' = [told EXCEPT ![Head(out).dev] = Meaning(Head(out))]
    BY DEF Deliver, TypeOK, Meaning
  <1>1. /\ out # <<>> /\ out' = Tail(out) /\ Head(out) = out[1] /\ out \in Seq(Alert)
        /\ told' = [told EXCEPT ![out[1].dev] = Meaning(out[1])]
    <2>1. Head(out) = out[1]
      BY <1>0
    <2> QED BY <1>0, <2>1
  <1>2. /\ Len(out) \in Nat /\ Len(out) >= 1
        /\ DOMAIN out = 1 .. Len(out) /\ DOMAIN out' = 1 .. Len(out) - 1
        /\ \A n \in DOMAIN out' : n + 1 \in DOMAIN out /\ out'[n] = out[n + 1]
    BY <1>1
  <1>3. told \in [Devices -> Fences \cup {None}] /\ out[1].dev \in Devices
    <2>1. out[1] \in Alert
      BY <1>1, <1>2
    <2> QED BY <2>1 DEF TypeOK, Alert
  <1>4. CASE (\A n \in DOMAIN out : out[n].dev # d) /\ told[d] = f
    <2>1. \A n \in DOMAIN out' : out'[n].dev # d
      BY <1>2, <1>4
    <2>2. told'[d] = f
      BY <1>1, <1>2, <1>3, <1>4
    <2> QED BY <2>1, <2>2 DEF Says
  <1>5. CASE \E n \in DOMAIN out : LastAbout(d, n) /\ f = Meaning(out[n])
    <2>1. PICK n \in DOMAIN out : LastAbout(d, n) /\ f = Meaning(out[n])
      BY <1>5
    <2>2. CASE n = 1
      <3>1. \A m \in DOMAIN out' : out'[m].dev # d
        BY <1>2, <2>1, <2>2 DEF LastAbout
      <3>2. told'[d] = f
        BY <1>1, <1>3, <2>1, <2>2 DEF LastAbout
      <3> QED BY <3>1, <3>2 DEF Says
    <2>3. CASE n # 1
      <3> DEFINE k == n - 1
      <3>1. k \in DOMAIN out' /\ out'[k] = out[n]
        BY <1>2, <2>3
      <3>2. LastAbout(d, k)'
        <4>1. out'[k].dev = d
          BY <2>1, <3>1 DEF LastAbout
        <4>2. \A m \in DOMAIN out' : m > k => out'[m].dev # d
          BY <1>2, <2>1 DEF LastAbout
        <4> QED BY <3>1, <4>1, <4>2 DEF LastAbout
      <3>3. f = Meaning(out'[k])
        BY <2>1, <3>1
      <3> HIDE DEF k
      <3> QED BY <3>1, <3>2, <3>3 DEF Says
    <2> QED BY <2>2, <2>3
  <1> QED BY <1>4, <1>5 DEF Says

LEMMA SaidAll ==
  ASSUME out = <<>>, NEW d, NEW f
  PROVE  Says(d, f) <=> told[d] = f
  <1>1. DOMAIN out = {}
    OBVIOUS
  <1> QED BY <1>1 DEF Says

LEMMA SaidSame ==
  ASSUME UNCHANGED <<out, told>>, NEW d, NEW f, Says(d, f)
  PROVE  Says(d, f)'
  BY DEF Says, LastAbout

LEMMA StuckSame ==
  ASSUME UNCHANGED wplist, NEW d \in Devices, tlist'[d] = tlist[d], Stuck(tlist[d])
  PROVE  Stuck(tlist[d])'
  BY DEF Stuck, Twins

(* A device the step is not about is still said to be where it was.        *)
LEMMA HeardOthers ==
  ASSUME UNCHANGED wplist, NEW d \in Devices, Heard(d), tlist'[d] = tlist[d],
         ~(chk.pc = "left" /\ chk.dev = d), ~(chk'.pc = "left" /\ chk'.dev = d),
         Says(d, tlist[d]) => Says(d, tlist[d])'
  PROVE  Heard(d)'
  <1>1. Says(d, tlist[d]) \/ Stuck(tlist[d])
    BY DEF Heard
  <1>2. Says(d, tlist[d])' \/ Stuck(tlist[d])'
    BY <1>1, StuckSame
  <1> QED BY <1>2 DEF Heard

LEMMA HeardCheckStep ==
  ASSUME TypeOK, Busy, CheckStep, faults = 0, AllHeard, NEW d \in Devices
  PROVE  Heard(d)'
  <1>1. /\ UNCHANGED <<wplist, told>> /\ Heard(d)
        /\ chk.pc # "idle" /\ chk.dev \in Devices
    BY DEF CheckStep, AllHeard, PassBy, Leave, LeaveSync, Enter, StillAt, EndOfList,
           Examining, Busy
  <1>2. CASE PassBy \/ StillAt \/ EndOfList
    <2>1. /\ chk.pc = "loop" /\ chk'.pc # "left" /\ UNCHANGED <<tlist, out>>
      BY <1>2 DEF PassBy, StillAt, EndOfList, Examining, NextFence, Return, Resting, Quiet
    <2>2. Says(d, tlist[d]) => Says(d, tlist[d])'
      BY <1>1, <2>1, SaidSame
    <2> QED BY <1>1, <2>1, <2>2, HeardOthers
  <1>3. CASE Leave
    <2>0. PICK a : a = [event |-> "leaves", dev |-> chk.dev, fence |-> Fence]
      OBVIOUS
    <2>1. /\ chk.pc = "loop" /\ chk.k \in Ids /\ Fence \in Loadable
          /\ Same(Recorded, Fence)
      BY <1>3, ExaminingMeans DEF Leave
    <2>2. a \in Alert /\ a.dev = chk.dev /\ Meaning(a) = None /\ out' = Append(out, a)
      BY <1>1, <1>3, <2>0, <2>1 DEF Leave, Publish, Alert, Loadable, Meaning
    <2>3. Says(a.dev, None)'
          /\ \A e \in Devices : \A f : e # a.dev /\ Says(e, f) => Says(e, f)'
      BY <1>1, <2>2, SaidLast
    <2>4. /\ chk' = [chk EXCEPT !.pc = "left"] \/ (Fence \in Unspeakable /\ chk' = Resting)
          /\ UNCHANGED tlist
      BY <1>3 DEF Leave, Raise
    <2>5. CASE d = chk.dev
      <3>1. CASE Fence \in Unspeakable /\ chk' = Resting
        <4>1. Stuck(tlist[d])
          BY <2>1, <2>5, <3>1 DEF Stuck, Twins, Same, Loadable, Fence, Recorded
        <4>2. Stuck(tlist[d])'
          BY <1>1, <2>4, <4>1, StuckSame
        <4> QED BY <3>1, <4>2 DEF Heard, Resting
      <3>2. CASE chk' = [chk EXCEPT !.pc = "left"]
        <4>1. chk'.pc = "left" /\ chk'.dev = d
          BY <2>5, <3>2 DEF TypeOK, Check
        <4> QED BY <2>2, <2>3, <2>5, <4>1 DEF Heard
      <3> QED BY <2>4, <3>1, <3>2
    <2>6. CASE d # chk.dev
      <3>1. ~(chk'.pc = "left" /\ chk'.dev = d)
        BY <2>4, <2>6 DEF Resting, TypeOK, Check
      <3>2. Says(d, tlist[d]) => Says(d, tlist[d])'
        BY <2>2, <2>3, <2>4, <2>6
      <3> QED BY <1>1, <2>1, <2>4, <3>1, <3>2, HeardOthers
    <2> QED BY <2>5, <2>6
  <1>4. CASE LeaveSync
    <2>1. /\ chk.pc = "left" /\ chk'.pc # "left" /\ UNCHANGED out
          /\ tlist' = [tlist EXCEPT ![chk.dev] = None]
      BY <1>4 DEF LeaveSync, NextFence, Quiet, Record
    <2>2. tlist \in [Devices -> Loadable \cup {None}]
      BY DEF TypeOK
    <2>3. CASE d = chk.dev
      <3>1. Says(d, None)'
        BY <1>1, <2>1, <2>3, SaidSame DEF Heard
      <3> QED BY <1>1, <2>1, <2>2, <2>3, <3>1 DEF Heard
    <2>4. CASE d # chk.dev
      <3>1. tlist'[d] = tlist[d]
        BY <1>1, <2>1, <2>2, <2>4
      <3>2. Says(d, tlist[d]) => Says(d, tlist[d])'
        BY <1>1, <2>1, <3>1, SaidSame
      <3> QED BY <1>1, <2>1, <2>4, <3>1, <3>2, HeardOthers
    <2> QED BY <2>3, <2>4
  <1>5. CASE Enter
    <2>0. PICK a : a = [event |-> "enters", dev |-> chk.dev, fence |-> Fence]
      OBVIOUS
    <2>1. chk.pc = "loop" /\ Fence \in Loadable
      BY <1>5, ExaminingMeans DEF Enter
    <2>2. a \in Alert /\ a.dev = chk.dev /\ Meaning(a) = Fence /\ out' = Append(out, a)
      BY <1>1, <1>5, <2>0, <2>1 DEF Enter, Publish, Alert, Loadable, Meaning
    <2>3. Says(a.dev, Meaning(a))'
          /\ \A e \in Devices : \A f : e # a.dev /\ Says(e, f) => Says(e, f)'
      BY <1>1, <2>2, SaidLast
    <2>4. /\ tlist' = [tlist EXCEPT ![chk.dev] = Fence] /\ chk'.pc # "left"
          /\ tlist \in [Devices -> Loadable \cup {None}]
      BY <1>5 DEF Enter, Record, Raise, NextFence, Resting, TypeOK
    <2>5. CASE d = chk.dev
      <3>1. tlist'[d] = Meaning(a)
        BY <1>1, <2>2, <2>4, <2>5
      <3>2. Says(d, tlist[d])'
        BY <2>2, <2>3, <2>5, <3>1
      <3> QED BY <2>4, <3>2 DEF Heard
    <2>6. CASE d # chk.dev
      <3>1. tlist'[d] = tlist[d]
        BY <1>1, <2>4, <2>6
      <3>2. Says(d, tlist[d]) => Says(d, tlist[d])'
        BY <2>2, <2>3, <2>6, <3>1
      <3> QED BY <1>1, <2>1, <2>4, <3>1, <3>2, HeardOthers
    <2> QED BY <2>5, <2>6
  <1> QED BY <1>2, <1>3, <1>4, <1>5 DEF CheckStep

LEMMA HeardStep == TypeOK /\ Busy /\ AllHeard /\ [Next]_vars => AllHeard'
  <1> SUFFICES ASSUME TypeOK, Busy, AllHeard, [Next]_vars, faults' = 0, NEW d \in Devices
               PROVE  Heard(d)'
    BY DEF AllHeard
  <1>1. faults = 0 /\ ~SyncFails /\ ~Reconnect /\ ~Restart
    <2>1. faults \in Nat
      BY FenceBounds DEF TypeOK
    <2>2. faults' = faults + 1 \/ faults' = faults
      BY DEF Next, vars, StoreWaypoint, Move, Report, CheckStep, Deliver, SyncFails,
             Reconnect, Restart, Fault
    <2> QED BY <2>1, <2>2 DEF SyncFails, Reconnect, Restart, Fault
  <1>2. Heard(d)
    BY <1>1 DEF AllHeard
  <1>3. CASE UNCHANGED <<chk, wplist, tlist, out, told>>
    BY <1>2, <1>3 DEF Heard, Says, LastAbout, Stuck, Twins
  <1>4. ASSUME NEW e \in Devices, Report(e)
        PROVE  Heard(d)'
    <2>1. chk.pc = "idle" /\ chk'.pc = "loop" /\ UNCHANGED <<wplist, tlist, out, told>>
      BY <1>4 DEF Report
    <2>2. Says(d, tlist[d]) => Says(d, tlist[d])'
      BY <2>1, SaidSame
    <2> QED BY <1>2, <2>1, <2>2, HeardOthers
  <1>5. CASE CheckStep
    BY <1>1, <1>5, HeardCheckStep
  <1>6. CASE Deliver
    <2>1. UNCHANGED <<chk, wplist, tlist>>
      BY <1>6 DEF Deliver
    <2>2. tlist[d] \in Loadable \cup {None}
      BY DEF TypeOK
    <2>3. CASE chk.pc = "left" /\ chk.dev = d
      BY <1>2, <1>6, <2>1, <2>3, SaidDelivered DEF Heard
    <2>4. CASE ~(chk.pc = "left" /\ chk.dev = d)
      <3>1. Says(d, tlist[d]) => Says(d, tlist[d])'
        BY <1>6, <2>1, SaidDelivered DEF Says, LastAbout
      <3> QED BY <1>2, <2>1, <2>4, <3>1, HeardOthers
    <2> QED BY <2>3, <2>4
  <1> QED BY <1>1, <1>3, <1>4, <1>5, <1>6 DEF Next, vars, StoreWaypoint, Move

(* While nothing fails, who has received every alert knows where o2s has   *)
(* each device, through every check and every delay of the alerts          *)
(* (waypoints.py:147-184), but for the fences whose alert raises.          *)
THEOREM SubscriberAgrees == Spec => []Agreement
  <1>1. Init => AllHeard
    <2> SUFFICES ASSUME Init, NEW d \in Devices PROVE Heard(d)
      BY DEF AllHeard
    <2>1. chk.pc # "left" /\ out = <<>> /\ told[d] = tlist[d]
      BY DEF Init, Resting
    <2> QED BY <2>1, SaidAll DEF Heard
  <1>2. IInv /\ AllHeard /\ [Next]_vars => AllHeard'
    BY HeardStep DEF IInv
  <1>3. AllHeard => Agreement
    <2> SUFFICES ASSUME AllHeard, faults = 0, chk.pc = "idle", out = <<>>, NEW d \in Devices
                 PROVE  told[d] = tlist[d] \/ Stuck(tlist[d])
      BY DEF Agreement
    <2>1. Says(d, tlist[d]) \/ Stuck(tlist[d])
      BY DEF AllHeard, Heard
    <2> QED BY <2>1, SaidAll
  <1> QED BY <1>1, <1>2, <1>3, Inductive, PTL DEF Spec
=============================================================================
