----------------------------- MODULE JobsProofs -----------------------------
(* Proofs about Jobs: types, and what the app shows to run, through kills, *)
(* launches and touches that are cut short.                                *)
EXTENDS Jobs, SequenceTheorems, TLAPS

(* TypeOK, by whose variables it speaks of. *)
AppTyped ==
    /\ app \in {"active", "failing", "inactive", "dead"}
    /\ activity \in Activities \cup {None} /\ saved \in Activities \cup {None}
    /\ pausable \in BOOLEAN

LinkTyped ==
    /\ status \in {"closed", "connecting", "connected"}
    /\ queue \in Seq(Messages) /\ up \in Seq(Messages) /\ unacked \subseteq Reports

O2sTyped ==
    /\ down \in Seq(Reports) /\ o2s \in BOOLEAN /\ jobstart \in Times \cup {None}
    /\ rows \in Seq(Rows)
    /\ \A k \in DOMAIN rows : rows[k].end = None => rows[k].duration = None

BookTyped ==
    /\ retained \in JobIds \cup {pauseId, noId} /\ sheet \in Seq(Intervals)
    /\ now \in 0 .. MaxTime /\ faults \in 0 .. MaxFaults
    /\ undone \in Times \cup {None}

Offline == app \in {"inactive", "dead"} => status = "closed"

LEMMA Parts == TypeOK <=> AppTyped /\ LinkTyped /\ O2sTyped /\ BookTyped /\ Offline
  BY DEF TypeOK, AppTyped, LinkTyped, O2sTyped, BookTyped, Offline

LEMMA PartsPrime == TypeOK' <=> AppTyped' /\ LinkTyped' /\ O2sTyped' /\ BookTyped' /\ Offline'
  BY DEF TypeOK, AppTyped, LinkTyped, O2sTyped, BookTyped, Offline

LEMMA JobsAreNotNone ==
  /\ None \notin Activities
  /\ \A j \in JobIds, b \in BOOLEAN : [job |-> j, running |-> b] \in Activities
  BY JobsAssumption DEF Activities

(* The end of job j has been published, and does not count.                *)
EndUndone(j) ==
    undone # None /\ \E n \in DOMAIN sheet : sheet[n].job = j /\ sheet[n].end = undone

(* What the store of the phone may lack is what stop has done after its    *)
(* log, and the end of the job of a touch that is being cut short.         *)
SavedBehind ==
    \/ saved = activity
    \/ activity = None /\ saved # None /\ ~saved.running
    \/ /\ app = "failing" /\ activity # None /\ ~activity.running
       /\ saved # None /\ EndUndone(saved.job)

Truth == SavedBehind /\ RunningTruthful

-----------------------------------------------------------------------------
(* Sequences.                                                              *)

LEMMA StartedTyped ==
  ASSUME BookTyped, now < MaxTime, NEW j \in JobIds \cup {pauseId, noId}
  PROVE  Started(j) \in Seq(Messages)
  <1>1. [kind |-> "current", job |-> j] \in Messages
    BY DEF Messages, Current
  <1>2. now + 1 \in Times
    BY JobsAssumption DEF BookTyped, Times
  <1>3. [kind |-> "report", job |-> j, at |-> now + 1] \in Messages
    BY <1>2 DEF Messages, Reports
  <1> QED BY <1>1, <1>3 DEF Started

LEMMA EndedTyped ==
  ASSUME BookTyped, now < MaxTime
  PROVE  Ended \in Seq(Messages)
  BY StartedTyped DEF Ended

LEMMA ReportsOf ==
  ASSUME NEW s \in Seq(Messages)
  PROVE  {m \in ToSet(s) : IsReport(m)} \subseteq Reports
  <1> SUFFICES ASSUME NEW m \in ToSet(s), IsReport(m) PROVE m \in Reports
    OBVIOUS
  <1>1. m \in Messages
    BY DEF ToSet
  <1> QED BY <1>1 DEF Messages, Current, Reports, IsReport

LEMMA PublishTyped ==
  ASSUME LinkTyped, NEW msgs \in Seq(Messages), Publish(msgs)
  PROVE  LinkTyped' /\ status' = status
  <1>1. up \o msgs \in Seq(Messages) /\ queue \o msgs \in Seq(Messages)
    BY ConcatProperties DEF LinkTyped
  <1> QED BY <1>1, ReportsOf DEF LinkTyped, Publish

LEMMA PrefixTyped ==
  ASSUME LinkTyped, NEW k \in 0 .. Len(up)
  PROVE  SubSeq(up, 1, k) \in Seq(Messages)
  <1>1. \A i \in 1 .. k : up[i] \in Messages
    BY ElementOfSeq DEF LinkTyped
  <1> QED BY <1>1, SubSeqProperties

LEMMA ClosedTyped ==
  ASSUME BookTyped, now < MaxTime
  PROVE  /\ Closed \in Seq(Intervals) /\ Len(Closed) = Len(sheet)
         /\ \A k \in DOMAIN Closed : Closed[k].end # None
  <1>1. Len(sheet) \in Nat /\ DOMAIN sheet = 1 .. Len(sheet)
    BY LenProperties DEF BookTyped
  <1>2. now + 1 \in Times /\ now + 1 # None
    BY JobsAssumption DEF BookTyped, Times
  <1>3. \A k \in DOMAIN sheet : sheet[k] \in Intervals
    BY <1>1, ElementOfSeq DEF BookTyped
  <1>4. Closed \in [1 .. Len(sheet) -> Intervals]
    BY <1>1, <1>2, <1>3 DEF Closed, Intervals
  <1>5. Closed \in Seq(Intervals)
    BY <1>1, <1>4, SeqDef
  <1>6. Len(Closed) = Len(sheet)
    BY <1>1, <1>4, <1>5, LenProperties
  <1> QED BY <1>1, <1>2, <1>4, <1>5, <1>6 DEF Closed

(* After a note of j, what is open is an interval of j, or none for noId;  *)
(* what was open has ended now, what had ended has not changed.            *)
LEMMA NoteTyped ==
  ASSUME BookTyped, now < MaxTime, NEW j \in JobIds \cup {pauseId, noId}, Note(j)
  PROVE  /\ sheet' \in Seq(Intervals)
         /\ \A i \in JobIds :
               (\E n \in DOMAIN sheet' : sheet'[n].job = i /\ sheet'[n].end = None) <=> i = j
         /\ \A k \in DOMAIN sheet :
               /\ k \in DOMAIN sheet' /\ sheet'[k].job = sheet[k].job
               /\ sheet'[k].end = IF sheet[k].end = None THEN now + 1 ELSE sheet[k].end
  <1> DEFINE new == [job |-> j, start |-> now + 1, end |-> None]
  <1>1. /\ Closed \in Seq(Intervals) /\ Len(Closed) = Len(sheet)
        /\ \A k \in DOMAIN Closed : Closed[k].end # None
    BY ClosedTyped
  <1>0. /\ DOMAIN Closed = DOMAIN sheet
        /\ \A k \in DOMAIN sheet :
              /\ Closed[k].job = sheet[k].job
              /\ Closed[k].end = IF sheet[k].end = None THEN now + 1 ELSE sheet[k].end
    BY DEF Closed
  <1>2. CASE j = noId
    BY <1>0, <1>1, <1>2, JobsAssumption DEF Note
  <1>3. CASE j # noId
    <2>1. new \in Intervals
      BY <1>3, JobsAssumption DEF BookTyped, Intervals, Times
    <2>2. sheet' = Append(Closed, new)
      BY <1>3 DEF Note
    <2> HIDE DEF new
    <2>3. /\ sheet' \in Seq(Intervals)
          /\ Len(sheet') = Len(Closed) + 1
          /\ \A i \in 1 .. Len(Closed) : sheet'[i] = Closed[i]
          /\ sheet'[Len(Closed) + 1] = new
      BY <1>1, <2>1, <2>2, AppendProperties
    <2>4. /\ Len(Closed) \in Nat /\ DOMAIN Closed = 1 .. Len(Closed)
          /\ DOMAIN sheet' = 1 .. Len(Closed) + 1
      BY <1>1, <2>3, LenProperties
    <2>5. new.job = j /\ new.end = None
      BY DEF new
    <2>6. \A n \in DOMAIN sheet' : sheet'[n].end = None <=> n = Len(Closed) + 1
      BY <1>1, <2>3, <2>4, <2>5
    <2>7. \A k \in DOMAIN sheet : k \in DOMAIN sheet' /\ sheet'[k] = Closed[k]
      BY <1>0, <2>3, <2>4
    <2> QED BY <1>0, <2>3, <2>4, <2>5, <2>6, <2>7
  <1> QED BY <1>2, <1>3

-----------------------------------------------------------------------------
(* The worker's touches.                                                   *)
Kept == TypeOK' /\ Truth'

LEMMA Touched ==
  ASSUME TypeOK, Touching, NEW j \in JobIds \cup {pauseId, noId}, Note(j),
         NEW msgs \in Seq(Messages), Publish(msgs),
         activity' \in Activities \cup {None}, saved' \in Activities \cup {None},
         app' \in {"active", "failing"}, faults' \in 0 .. MaxFaults,
         undone' \in Times \cup {None}
  PROVE  TypeOK'
  <1>1. AppTyped' /\ LinkTyped'
    BY PublishTyped, Parts DEF AppTyped, Touching
  <1>2. O2sTyped'
    BY Parts DEF O2sTyped, Touching, o2sVars
  <1>3. BookTyped'
    BY NoteTyped, Parts, JobsAssumption DEF BookTyped, Touching
  <1>4. Offline'
    BY DEF Offline
  <1> QED BY <1>1, <1>2, <1>3, <1>4, PartsPrime

(* The touches that end well: the app stays, nothing is undone.            *)
LEMMA WellTyped ==
  ASSUME TypeOK, Touch
  PROVE  /\ Touching /\ BookTyped /\ now < MaxTime /\ AppTyped
         /\ app' \in {"active", "failing"} /\ faults' \in 0 .. MaxFaults
         /\ undone' = None /\ undone' \in Times \cup {None}
  BY Parts DEF Touch, Touching, BookTyped

LEMMA StartJob ==
  ASSUME TypeOK, NEW j \in JobIds, startJob(j)
  PROVE  Kept
  <1>1. BookTyped /\ now < MaxTime
    BY WellTyped DEF startJob
  <1>2. /\ activity' = [job |-> j, running |-> TRUE] /\ saved' = activity'
        /\ activity' \in Activities
    BY DEF startJob, log, Activities
  <1>3. TypeOK'
    BY <1>1, <1>2, StartedTyped, WellTyped, Touched DEF startJob
  <1>4. Truth'
    <2>1. \A i \in JobIds : activity' = [job |-> i, running |-> TRUE] <=> i = j
      BY <1>2
    <2>2. \A i \in JobIds :
             (\E n \in DOMAIN sheet' : sheet'[n].job = i /\ sheet'[n].end = None) <=> i = j
      BY <1>1, <1>2, NoteTyped DEF startJob
    <2>3. undone' = None
      BY WellTyped DEF startJob
    <2> QED BY <1>2, <2>1, <2>2, <2>3 DEF Truth, SavedBehind, RunningTruthful
  <1> QED BY <1>3, <1>4 DEF Kept

LEMMA Resumed ==
  ASSUME TypeOK, Resume
  PROVE  Kept
  <1>1. BookTyped /\ now < MaxTime /\ activity \in Activities
    BY WellTyped DEF Resume, AppTyped
  <1>2. /\ activity' = [job |-> activity.job, running |-> TRUE] /\ saved' = activity'
        /\ activity.job \in JobIds /\ activity' \in Activities
    BY <1>1 DEF Resume, log, Activities
  <1>3. Ended \o Started(activity.job) \in Seq(Messages)
    BY <1>1, <1>2, EndedTyped, StartedTyped, ConcatProperties
  <1>4. TypeOK'
    BY <1>2, <1>3, WellTyped, Touched DEF Resume
  <1>5. Truth'
    <2>1. \A i \in JobIds : activity' = [job |-> i, running |-> TRUE] <=> i = activity.job
      BY <1>2
    <2>2. \A i \in JobIds :
             (\E n \in DOMAIN sheet' : sheet'[n].job = i /\ sheet'[n].end = None) <=> i = activity.job
      BY <1>1, <1>2, NoteTyped DEF Resume
    <2>3. undone' = None
      BY WellTyped DEF Resume
    <2> QED BY <1>2, <2>1, <2>2, <2>3 DEF Truth, SavedBehind, RunningTruthful
  <1> QED BY <1>4, <1>5 DEF Kept

LEMMA Paused ==
  ASSUME TypeOK, pause
  PROVE  Kept
  <1> DEFINE j    == IF pausable THEN pauseId ELSE noId
             more == IF pausable THEN Started(pauseId) ELSE <<>>
  <1>1. BookTyped /\ now < MaxTime /\ activity \in Activities
    BY WellTyped DEF pause, AppTyped
  <1>2. /\ activity' = [job |-> activity.job, running |-> FALSE] /\ saved' = activity'
        /\ activity' \in Activities
    BY <1>1 DEF pause, log, Activities
  <1>3. Ended \o more \in Seq(Messages)
    BY <1>1, EndedTyped, StartedTyped, ConcatProperties
  <1>4. j \in JobIds \cup {pauseId, noId} /\ j \notin JobIds
    BY JobsAssumption
  <1>5. Note(j) /\ Publish(Ended \o more) /\ Touch
    BY DEF pause
  <1> HIDE DEF j, more
  <1>6. TypeOK'
    BY <1>2, <1>3, <1>4, <1>5, WellTyped, Touched
  <1>7. \A i \in JobIds :
           ~(\E n \in DOMAIN sheet' : sheet'[n].job = i /\ sheet'[n].end = None)
    BY <1>1, <1>4, <1>5, NoteTyped
  <1>8. Truth'
    BY <1>2, <1>7 DEF Truth, SavedBehind, RunningTruthful
  <1> QED BY <1>6, <1>8 DEF Kept

LEMMA Stopped ==
  ASSUME TypeOK, stop
  PROVE  Kept
  <1>1. BookTyped /\ now < MaxTime /\ activity \in Activities
    BY WellTyped DEF stop, AppTyped
  <1>2. /\ activity' = None /\ saved' = [job |-> activity.job, running |-> FALSE]
        /\ saved' \in Activities
    BY <1>1 DEF stop, log, Activities
  <1>3. TypeOK'
    BY <1>1, <1>2, EndedTyped, WellTyped, Touched DEF stop
  <1>4. \A i \in JobIds :
           ~(\E n \in DOMAIN sheet' : sheet'[n].job = i /\ sheet'[n].end = None)
    BY <1>1, NoteTyped, JobsAssumption DEF stop
  <1>5. /\ None # [job |-> activity.job, running |-> FALSE]
        /\ \A i \in JobIds : None # [job |-> i, running |-> TRUE]
    BY <1>2, JobsAreNotNone
  <1>6. Truth'
    BY <1>2, <1>4, <1>5 DEF Truth, SavedBehind, RunningTruthful
  <1> QED BY <1>3, <1>6 DEF Kept

LEMMA Faulty ==
  ASSUME BookTyped, Fault
  PROVE  faults' \in 0 .. MaxFaults
  BY JobsAssumption DEF BookTyped, Fault

(* What a touch that is cut short publishes, and what the worker notes.    *)
LEMMA CutShortSays ==
  ASSUME TypeOK, CutShort
  PROVE  \E j \in {noId, pauseId} :
            /\ Note(j)
            /\ Publish(Ended \o (IF j = noId THEN <<>> ELSE Started(pauseId)))
  <1>1. BookTyped /\ now < MaxTime
    BY Parts DEF CutShort, Touching
  <1>2. Ended \o <<>> = Ended
    BY <1>1, EndedTyped, ConcatEmptySeq
  <1> QED BY <1>2, JobsAssumption DEF CutShort

LEMMA Torn ==
  ASSUME TypeOK, Truth, CutShort
  PROVE  Kept
  <1>1. BookTyped /\ AppTyped /\ now < MaxTime /\ activity \in Activities
    BY Parts DEF CutShort, Touching, AppTyped
  <1>2. /\ activity' = [job |-> activity.job, running |-> FALSE]
        /\ activity' \in Activities /\ activity' # None
        /\ saved' = saved /\ saved \in Activities \cup {None}
    BY <1>1, JobsAreNotNone DEF CutShort, Activities, AppTyped
  <1>3. PICK j \in {noId, pauseId} :
            /\ Note(j)
            /\ Publish(Ended \o (IF j = noId THEN <<>> ELSE Started(pauseId)))
    BY CutShortSays
  <1> DEFINE more == IF j = noId THEN <<>> ELSE Started(pauseId)
  <1>4. Ended \o more \in Seq(Messages)
    BY <1>1, EndedTyped, StartedTyped, ConcatProperties
  <1>5. j \in JobIds \cup {pauseId, noId} /\ j \notin JobIds
    BY JobsAssumption
  <1> HIDE DEF more
  <1>6. now + 1 \in Times /\ now + 1 # None
    BY <1>1, JobsAssumption DEF BookTyped, Times
  <1>7. undone' = (IF activity.running /\ undone = None THEN now + 1 ELSE undone)
        /\ undone' \in Times \cup {None}
    BY <1>1, <1>6 DEF CutShort, BookTyped
  <1>8. TypeOK'
    <2>1. Touching /\ app' = "failing" /\ faults' \in 0 .. MaxFaults
      BY <1>1, Faulty DEF CutShort
    <2>2. Publish(Ended \o more)
      BY <1>3 DEF more
    <2> QED BY <1>2, <1>3, <1>4, <1>5, <1>7, <2>1, <2>2, Touched
  <1>9. /\ \A i \in JobIds :
              ~(\E n \in DOMAIN sheet' : sheet'[n].job = i /\ sheet'[n].end = None)
        /\ \A k \in DOMAIN sheet :
              /\ k \in DOMAIN sheet' /\ sheet'[k].job = sheet[k].job
              /\ sheet'[k].end = IF sheet[k].end = None THEN now + 1 ELSE sheet[k].end
    BY <1>1, <1>3, <1>5, NoteTyped
  <1>10. RunningTruthful'
    BY <1>2, <1>9 DEF RunningTruthful
  <1>11. saved = activity
    BY <1>1, JobsAreNotNone DEF CutShort, Touching, Truth, SavedBehind
  <1>12. CASE ~activity.running
    <2>1. activity' = activity
      BY <1>1, <1>2, <1>12 DEF Activities
    <2> QED BY <1>2, <1>8, <1>10, <1>11, <2>1 DEF Kept, Truth, SavedBehind
  <1>13. CASE activity.running
    <2>1. activity.job \in JobIds /\ activity = [job |-> activity.job, running |-> TRUE]
      BY <1>1, <1>13 DEF Activities
    <2>2. PICK n \in DOMAIN sheet : sheet[n].job = activity.job /\ sheet[n].end = undone
      BY <2>1 DEF Truth, RunningTruthful
    <2>3. sheet'[n].end = undone' /\ undone' # None
      BY <1>6, <1>7, <1>9, <1>13, <2>2
    <2>4. EndUndone(saved.job)'
      BY <1>2, <1>9, <1>11, <2>2, <2>3 DEF EndUndone
    <2>5. app' = "failing" /\ saved # None
      BY <1>1, <1>11, JobsAreNotNone DEF CutShort
    <2> QED BY <1>2, <1>8, <1>10, <2>4, <2>5 DEF Kept, Truth, SavedBehind
  <1> QED BY <1>12, <1>13

-----------------------------------------------------------------------------
(* The app's life and its session.                                         *)
LEMMA TruthKept ==
  ASSUME Truth, UNCHANGED <<activity, sheet, undone>>,
         UNCHANGED <<app, saved>> \/ (app # "failing" /\ saved' \in {saved, activity})
  PROVE  Truth'
  BY DEF Truth, SavedBehind, EndUndone, RunningTruthful

LEMMA Broken ==
  ASSUME LinkTyped, Break
  PROVE  LinkTyped' /\ status' = "closed"
  BY PrefixTyped DEF LinkTyped, Break

LEMMA Connecting ==
  ASSUME LinkTyped, Connect, up' = up
  PROVE  LinkTyped'
  BY DEF LinkTyped, Connect

LEMMA Lives ==
  ASSUME TypeOK, Truth,
         applicationDidBecomeActive \/ applicationWillResignActive \/ Launch \/ newMessage
  PROVE  Kept
  <1>1. UNCHANGED <<activity, sheet, undone, retained, o2sVars, now, faults>>
        /\ app # "failing" /\ saved' \in {saved, activity}
    BY DEF applicationDidBecomeActive, applicationWillResignActive, Launch, newMessage
  <1>2. Truth'
    BY <1>1, TruthKept
  <1>3. O2sTyped' /\ BookTyped'
    BY <1>1, Parts DEF O2sTyped, BookTyped, o2sVars
  <1>4. AppTyped'
    BY <1>1, Parts DEF AppTyped, applicationDidBecomeActive, applicationWillResignActive,
                       Launch, newMessage
  <1>5. LinkTyped' /\ Offline'
    <2>1. CASE applicationDidBecomeActive \/ Launch
      BY <2>1, Parts, Connecting DEF applicationDidBecomeActive, Launch, Offline
    <2>2. CASE applicationWillResignActive
      BY <2>2, Parts, Broken DEF applicationWillResignActive, Offline
    <2>3. CASE newMessage
      BY <2>3, Parts DEF newMessage, linkVars, LinkTyped, Offline
    <2> QED BY <2>1, <2>2, <2>3
  <1> QED BY <1>2, <1>3, <1>4, <1>5, PartsPrime DEF Kept

(* The store of the phone, which is all that is left, tells what runs, or  *)
(* what ran before the touch that was cut short.                           *)
LEMMA Killed ==
  ASSUME TypeOK, Truth, Kill
  PROVE  Kept
  <1>1. /\ app' = "dead" /\ status' = "closed" /\ activity' = saved
        /\ UNCHANGED <<saved, pausable, retained, down, o2s, jobstart, rows, now, sheet, undone>>
    BY DEF Kill, o2sVars
  <1>2. AppTyped' /\ O2sTyped' /\ Offline'
    BY <1>1, Parts DEF AppTyped, O2sTyped, Offline
  <1>3. BookTyped'
    BY <1>1, Parts, Faulty DEF BookTyped, Kill
  <1>4. LinkTyped'
    BY Parts, PrefixTyped DEF LinkTyped, Kill
  <1>5. RunningTruthful'
    <2>1. CASE saved = activity
      BY <1>1, <2>1 DEF Truth, RunningTruthful
    <2>2. CASE activity = None /\ saved # None /\ ~saved.running
      <3>1. \A j \in JobIds : activity # [job |-> j, running |-> TRUE]
        BY <2>2, JobsAreNotNone
      <3>2. \A j \in JobIds : activity' # [job |-> j, running |-> TRUE]
        BY <1>1, <2>2
      <3> QED BY <1>1, <3>1, <3>2 DEF Truth, RunningTruthful
    <2>3. CASE activity # None /\ ~activity.running /\ EndUndone(saved.job)
      <3>1. \A j \in JobIds : activity # [job |-> j, running |-> TRUE]
        BY <2>3
      <3>2. ASSUME NEW j \in JobIds, activity' = [job |-> j, running |-> TRUE]
            PROVE  \E n \in DOMAIN sheet' : sheet'[n].job = j /\ sheet'[n].end = undone'
        BY <1>1, <2>3, <3>2 DEF EndUndone
      <3> QED BY <1>1, <3>1, <3>2 DEF Truth, RunningTruthful
    <2> QED BY <2>1, <2>2, <2>3 DEF Truth, SavedBehind
  <1>6. Truth'
    BY <1>1, <1>5 DEF Truth, SavedBehind
  <1> QED BY <1>2, <1>3, <1>4, <1>6, PartsPrime DEF Kept

LEMMA Linked ==
  ASSUME TypeOK, Truth, reconnect \/ connected \/ ConnectionLost \/ checkTxFlows
  PROVE  Kept
  <1>1. UNCHANGED <<app, activity, saved, pausable, sheet, undone, retained, down, o2s, jobstart,
                    rows, now>>
    BY DEF reconnect, connected, ConnectionLost, checkTxFlows, appVars, o2sVars
  <1>2. Truth'
    BY <1>1, TruthKept
  <1>3. AppTyped' /\ O2sTyped'
    BY <1>1, Parts DEF AppTyped, O2sTyped
  <1>4. BookTyped'
    BY <1>1, Parts, Faulty DEF BookTyped, reconnect, connected, ConnectionLost, checkTxFlows
  <1>5. LinkTyped' /\ Offline'
    <2>1. CASE reconnect
      BY <1>1, <2>1, Parts, PrefixTyped DEF reconnect, LinkTyped, Offline
    <2>2. CASE connected
      <3>1. up \o queue \in Seq(Messages)
        BY Parts, ConcatProperties DEF LinkTyped
      <3>2. unacked' \subseteq Reports
        BY <2>2, Parts, ReportsOf DEF LinkTyped, connected
      <3> QED BY <1>1, <2>2, <3>1, <3>2, Parts DEF connected, LinkTyped, Offline
    <2>3. CASE ConnectionLost
      BY <1>1, <2>3, Parts, Broken DEF ConnectionLost, Offline
    <2>4. CASE checkTxFlows
      <3>1. PICK r \in unacked : up' = Append(up, r)
        BY <2>4 DEF checkTxFlows
      <3>2. r \in Messages
        BY Parts DEF LinkTyped, Messages
      <3>3. up' \in Seq(Messages)
        BY <3>1, <3>2, Parts, AppendProperties DEF LinkTyped
      <3> QED BY <1>1, <2>4, <3>3, Parts DEF checkTxFlows, LinkTyped, Offline
    <2> QED BY <2>1, <2>2, <2>3, <2>4
  <1> QED BY <1>2, <1>3, <1>4, <1>5, PartsPrime DEF Kept

-----------------------------------------------------------------------------
(* The broker and o2s.                                                     *)
LEMMA Received ==
  ASSUME TypeOK, Truth, BrokerReceives
  PROVE  Kept
  <1> DEFINE r == Head(up)
  <1>1. UNCHANGED <<app, activity, saved, pausable, sheet, undone, status, queue, unacked, o2s,
                    jobstart, rows, now, faults>>
    BY DEF BrokerReceives, appVars
  <1>2. Truth' /\ AppTyped' /\ Offline'
    BY <1>1, Parts, TruthKept DEF AppTyped, Offline
  <1>3. r \in Messages /\ up' \in Seq(Messages)
    BY Parts, HeadTailProperties DEF LinkTyped, BrokerReceives
  <1>4. IsReport(r) => r \in Reports
    BY <1>3 DEF IsReport, Messages, Current
  <1>5. r.job \in JobIds \cup {pauseId, noId}
    BY <1>3 DEF Messages, Current, Reports
  <1>6. retained' \in {retained, r.job}
    BY DEF BrokerReceives
  <1>7. down' = down \/ (r \in Reports /\ down' = Append(down, r))
    BY <1>4 DEF BrokerReceives
  <1> HIDE DEF r
  <1>8. LinkTyped' /\ BookTyped'
    BY <1>1, <1>3, <1>5, <1>6, Parts DEF LinkTyped, BookTyped
  <1>9. down' \in Seq(Reports)
    BY <1>7, Parts, AppendProperties DEF O2sTyped
  <1>10. O2sTyped'
    BY <1>1, <1>9, Parts DEF O2sTyped
  <1> QED BY <1>2, <1>8, <1>10, PartsPrime DEF Kept

LEMMA Outside ==
  ASSUME TypeOK, Truth, UNCHANGED <<appVars, linkVars, retained, now, sheet, undone>>,
         faults' \in 0 .. MaxFaults, O2sTyped'
  PROVE  Kept
  <1>1. Truth'
    BY TruthKept DEF appVars
  <1>2. AppTyped' /\ LinkTyped' /\ BookTyped' /\ Offline'
    BY Parts DEF AppTyped, LinkTyped, BookTyped, Offline, appVars, linkVars
  <1> QED BY <1>1, <1>2, PartsPrime DEF Kept

LEMMA HeadDown ==
  ASSUME O2sTyped, down # <<>>
  PROVE  /\ Head(down) \in Reports /\ Tail(down) \in Seq(Reports)
         /\ Head(down).at \in Times /\ Head(down).at # None
  <1>1. Head(down) \in Reports /\ Tail(down) \in Seq(Reports)
    BY HeadTailProperties DEF O2sTyped
  <1> QED BY <1>1, JobsAssumption DEF Reports, Times

LEMMA EndStored ==
  ASSUME O2sTyped, NEW r \in Reports, StoreEnd(r)
  PROVE  /\ rows' \in Seq(Rows)
         /\ \A k \in DOMAIN rows' : rows'[k].end = None => rows'[k].duration = None
  <1>1. CASE UNCHANGED rows
    BY <1>1 DEF O2sTyped
  <1>2. ASSUME NEW k \in DOMAIN rows,
               rows' = [rows EXCEPT ![k] = [job |-> rows[k].job, start |-> rows[k].start,
                                            end |-> r.at, duration |-> Duration(r.at)]]
        PROVE  /\ rows' \in Seq(Rows)
               /\ \A n \in DOMAIN rows' : rows'[n].end = None => rows'[n].duration = None
    <2> DEFINE new == [job |-> rows[k].job, start |-> rows[k].start,
                       end |-> r.at, duration |-> Duration(r.at)]
    <2>1. r.at \in Times /\ r.at # None
      BY JobsAssumption DEF Reports, Times
    <2>2. Duration(r.at) \in ((- MaxTime) .. MaxTime) \cup {None}
      BY <2>1, JobsAssumption DEF Duration, O2sTyped, Times
    <2>3. k \in 1 .. Len(rows) /\ DOMAIN rows = 1 .. Len(rows) /\ rows[k] \in Rows
      BY LenProperties, ElementOfSeq DEF O2sTyped
    <2>4. new \in Rows /\ new.end # None
      BY <2>1, <2>2, <2>3 DEF Rows
    <2>5. rows' = [rows EXCEPT ![k] = new]
      BY <1>2
    <2> HIDE DEF new
    <2>6. /\ rows' \in Seq(Rows) /\ DOMAIN rows' = DOMAIN rows
          /\ \A n \in DOMAIN rows : rows'[n] = IF n = k THEN new ELSE rows[n]
      BY <2>3, <2>4, <2>5, ExceptSeq DEF O2sTyped
    <2> QED BY <2>4, <2>6 DEF O2sTyped
  <1> QED BY <1>1, <1>2 DEF StoreEnd

LEMMA StartStored ==
  ASSUME O2sTyped, NEW r \in Reports, StoreStart(r)
  PROVE  /\ rows' \in Seq(Rows)
         /\ \A k \in DOMAIN rows' : rows'[k].end = None => rows'[k].duration = None
  <1> DEFINE new == [job |-> r.job, start |-> r.at, end |-> None, duration |-> None]
  <1>1. new \in Rows /\ new.duration = None
    BY DEF StoreStart, IsEnd, IsReport, Reports, Rows
  <1>2. rows' = Append(rows, new)
    BY DEF StoreStart
  <1> HIDE DEF new
  <1>3. /\ rows' \in Seq(Rows) /\ Len(rows') = Len(rows) + 1 /\ Len(rows) \in Nat
        /\ \A k \in 1 .. Len(rows) : rows'[k] = rows[k]
        /\ rows'[Len(rows) + 1] = new
    BY <1>1, <1>2, AppendProperties, LenProperties DEF O2sTyped
  <1>4. DOMAIN rows' = 1 .. Len(rows) + 1 /\ DOMAIN rows = 1 .. Len(rows)
    BY <1>3, LenProperties DEF O2sTyped
  <1>5. ASSUME NEW k \in DOMAIN rows', rows'[k].end = None
        PROVE  rows'[k].duration = None
    <2>1. CASE k \in DOMAIN rows
      BY <1>3, <1>4, <1>5, <2>1 DEF O2sTyped
    <2>2. CASE k = Len(rows) + 1
      BY <1>1, <1>3, <2>2
    <2> QED BY <1>3, <1>4, <2>1, <2>2
  <1> QED BY <1>3, <1>5

LEMMA O2sStep ==
  ASSUME TypeOK, Truth, O2s
  PROVE  Kept
  <1>0. O2sTyped /\ BookTyped
    BY Parts
  <1>1. CASE on_currentjob
    <2> DEFINE r == Head(down)
    <2>1. r \in Reports /\ r.at \in Times /\ down' \in Seq(Reports)
      BY <1>0, <1>1, HeadDown DEF on_currentjob
    <2>2. Remember(r) /\ (StoreStart(r) \/ StoreEnd(r))
          /\ UNCHANGED <<appVars, linkVars, retained, o2s, now, faults, sheet, undone>>
      BY <1>1 DEF on_currentjob
    <2> HIDE DEF r
    <2>3. /\ rows' \in Seq(Rows)
          /\ \A k \in DOMAIN rows' : rows'[k].end = None => rows'[k].duration = None
      BY <1>0, <2>1, <2>2, StartStored, EndStored
    <2>4. O2sTyped'
      BY <1>0, <2>1, <2>2, <2>3 DEF O2sTyped, Remember
    <2> QED BY <1>0, <2>2, <2>4, Outside DEF BookTyped
  <1>2. CASE StoreStartFails
    <2>1. O2sTyped'
      BY <1>0, <1>2, HeadDown DEF StoreStartFails, Remember, O2sTyped
    <2> QED BY <1>0, <1>2, <2>1, Faulty, Outside DEF StoreStartFails
  <1>3. CASE Crash \/ on_disconnect
    <2>1. /\ UNCHANGED rows /\ down' = <<>> /\ o2s' = FALSE
          /\ jobstart' \in {None, jobstart}
      BY <1>3 DEF Crash, on_disconnect
    <2>2. down' \in Seq(Reports)
      BY <2>1
    <2>3. O2sTyped'
      BY <1>0, <2>1, <2>2 DEF O2sTyped
    <2> QED BY <1>0, <1>3, <2>3, Faulty, Outside DEF Crash, on_disconnect
  <1>4. CASE on_connect
    <2>1. O2sTyped'
      BY <1>0, <1>4 DEF on_connect, O2sTyped
    <2> QED BY <1>0, <1>4, <2>1, Outside DEF on_connect, BookTyped
  <1> QED BY <1>1, <1>2, <1>3, <1>4 DEF O2s

-----------------------------------------------------------------------------
(* The theorems.                                                           *)
Inv == TypeOK /\ Truth

LEMMA InvInit == Init => Inv
  <1> SUFFICES ASSUME Init PROVE Inv
    OBVIOUS
  <1>1. TypeOK
    BY JobsAssumption DEF Init, TypeOK
  <1>2. \A j \in JobIds : activity # [job |-> j, running |-> TRUE]
    BY JobsAreNotNone DEF Init
  <1> QED BY <1>1, <1>2 DEF Init, Inv, Truth, SavedBehind, RunningTruthful

LEMMA InvNext == Inv /\ [Next]_vars => Inv'
  <1> SUFFICES ASSUME Inv, [Next]_vars PROVE Inv'
    OBVIOUS
  <1>1. TypeOK /\ Truth
    BY DEF Inv
  <1>2. CASE Worker
    BY <1>1, <1>2, StartJob, Resumed, Paused, Stopped, Torn DEF Worker, Kept, Inv
  <1>3. CASE App
    BY <1>1, <1>3, Lives, Killed, Linked DEF App, Kept, Inv
  <1>4. CASE BrokerReceives
    BY <1>1, <1>4, Received DEF Kept, Inv
  <1>5. CASE O2s
    BY <1>1, <1>5, O2sStep DEF Kept, Inv
  <1>6. CASE UNCHANGED vars
    <2>1. UNCHANGED <<app, activity, saved, pausable, status, queue, unacked, up, retained,
                      down, o2s, jobstart, rows, now, faults, sheet, undone>>
      BY <1>6 DEF vars, appVars, linkVars, o2sVars
    <2>2. Truth'
      BY <1>1, <2>1, TruthKept
    <2>3. TypeOK'
      BY <1>1, <2>1 DEF TypeOK
    <2> QED BY <2>2, <2>3 DEF Inv
  <1> QED BY <1>2, <1>3, <1>4, <1>5, <1>6 DEF Next

(* The app, the session, o2s and its table keep their types.               *)
THEOREM TypeCorrect == Spec => []TypeOK
  <1>1. Inv => TypeOK
    BY DEF Inv
  <1> QED BY InvInit, InvNext, <1>1, PTL DEF Spec

(* However often the app is killed, or cut short in a touch: what the      *)
(* worker has started and not ended runs, and what runs and has been ended *)
(* was ended by a touch that was cut short between its report and its save.*)
THEOREM RunningIsTruthful == Spec => []RunningTruthful
  <1>1. Inv => RunningTruthful
    BY DEF Inv, Truth
  <1> QED BY InvInit, InvNext, <1>1, PTL DEF Spec
=============================================================================
