-------------------------------- MODULE Jobs --------------------------------
(***************************************************************************)
(* A worker's time sheet: OwnTracks Activo, the iOS app that starts,       *)
(* pauses and stops jobs (ActivityModel.m, AppDelegate.m), the MQTT session*)
(* that carries its reports, and o2s, which turns them into rows of the    *)
(* table Job (o2s.py, on_currentjob).                                      *)
(*                                                                         *)
(* Every start and every end is two messages: a retained one that says what*)
(* is current, and a report with its time.  Nothing acknowledges a report  *)
(* from end to end: the session of the app is clean, as is that of o2s,    *)
(* which subscribes at QoS 0.                                              *)
(*                                                                         *)
(* Abstracted: task, place and machine, which go with the job; names; the  *)
(* log and the running total on the screen; acknowledgements, which do no  *)
(* more than keep a report from being sent again; the page of jobs that o2s*)
(* publishes.  The window of 16 unacknowledged messages is never full, so  *)
(* that a connected session sends at once, and sending fails only when the *)
(* connection ends.  Touches of the worker are a second apart at least.    *)
(***************************************************************************)
EXTENDS Integers, FiniteSets, SequencesExt

CONSTANTS
    JobIds,     \* jobs the worker can choose
    pauseId,    \* the job that stands for a pause
    noId,       \* no job: the report of an end
    jobtopic,   \* is the option set, so that o2s remembers when a job started
    None,
    MaxTime,    \* bound: touches of the worker
    MaxFaults   \* bound: connections broken, processes killed, writes failed,
                \* reports repeated

Activities == [job : JobIds, running : BOOLEAN]

ASSUME JobsAssumption ==
    /\ pauseId \notin JobIds /\ noId \notin JobIds \cup {pauseId} /\ None \notin Int /\ None \notin Activities
    /\ jobtopic \in BOOLEAN /\ MaxTime \in Nat /\ MaxFaults \in Nat

Times    == 1 .. MaxTime
Current  == [kind : {"current"}, job : JobIds \cup {pauseId, noId}]
Reports  == [kind : {"report"}, job : JobIds \cup {pauseId, noId}, at : Times]
Messages == Current \cup Reports

VARIABLES
    app,        \* "active", "failing" (it will end before it saves what it has
                \* published), "inactive" (in the background) or "dead"
    activity,   \* ActivityModel.activity: [job, running], or None
    saved,      \* the same in the store of the phone
    pausable,   \* is there a job pauseId in the app's catalogue?
    status,     \* of mqttSession: "closed", "connecting" or "connected"
    queue,      \* what was published while it was not connected
    unacked,    \* reports of this connection, which may be sent again
    up,         \* sent, and not yet at the broker
    retained,   \* what the broker retains
    down,       \* reports on their way from the broker to o2s
    o2s,        \* is o2s running?
    jobstart,   \* jobs[device]['jobstart'], or None
    rows,       \* table Job: <<[job, start, end, duration], ...>>
    now, faults,
    sheet,      \* history: what the worker did, <<[job, start, end], ...>>
    excuses,    \* history: ends lost, starts repeated
    repeated,   \* history: has the report of an end been repeated?
    harmed,     \* history: was a report lost, or o2s restarted?
    stale,      \* history: was what is current lost since the last touch?
    undone      \* history: when the end of the job was published that runs again
                \* because that was not saved; or None

appVars  == <<app, activity, saved, pausable>>
linkVars == <<status, queue, unacked, up>>
o2sVars  == <<down, o2s, jobstart, rows>>
history  == <<excuses, repeated, harmed, stale>>
vars     == <<appVars, linkVars, retained, o2sVars, now, faults, sheet, history, undone>>

Intervals  == [job : JobIds \cup {pauseId}, start : Times, end : Times \cup {None}]
Rows       == [job : JobIds \cup {pauseId}, start : Times, end : Times \cup {None},
               duration : ((- MaxTime) .. MaxTime) \cup {None}]

TypeOK ==
    /\ app \in {"active", "failing", "inactive", "dead"}
    /\ activity \in Activities \cup {None} /\ saved \in Activities \cup {None}
    /\ pausable \in BOOLEAN
    /\ status \in {"closed", "connecting", "connected"}
    /\ queue \in Seq(Messages) /\ up \in Seq(Messages) /\ down \in Seq(Reports)
    /\ unacked \subseteq Reports
    /\ retained \in JobIds \cup {pauseId, noId}
    /\ o2s \in BOOLEAN /\ jobstart \in Times \cup {None}
    /\ rows \in Seq(Rows) /\ sheet \in Seq(Intervals)
    /\ \A k \in DOMAIN rows : rows[k].end = None => rows[k].duration = None
    /\ now \in 0 .. MaxTime /\ faults \in 0 .. MaxFaults
    /\ undone \in Times \cup {None}
    /\ app \in {"inactive", "dead"} => status = "closed"

Init ==
    /\ app = "active" /\ activity = None /\ saved = None /\ pausable \in BOOLEAN
    /\ status = "connecting" /\ queue = <<>> /\ unacked = {} /\ up = <<>>
    /\ retained = noId
    /\ down = <<>> /\ o2s = TRUE /\ jobstart = None /\ rows = <<>>
    /\ now = 0 /\ faults = 0
    /\ sheet = <<>> /\ excuses = 0 /\ repeated = FALSE /\ harmed = FALSE /\ stale = FALSE
    /\ undone = None

-----------------------------------------------------------------------------
(* What is lost.                                                           *)
IsReport(m) == m.kind = "report"
IsEnd(m)    == IsReport(m) /\ m.job = noId

Count(s, Test(_)) == Cardinality({k \in DOMAIN s : Test(s[k])})

Lose(s) ==
    /\ excuses' = excuses + Count(s, IsEnd)
    /\ harmed' = (harmed \/ Count(s, IsReport) > 0)
    /\ stale' = (stale \/ Count(s, IsReport) < Len(s))
    /\ UNCHANGED repeated

Fault == faults < MaxFaults /\ faults' = faults + 1

-----------------------------------------------------------------------------
(* The app: what the worker touches.                                       *)
Started(j) == <<[kind |-> "current", job |-> j], [kind |-> "report", job |-> j, at |-> now + 1]>>

(* Mutant: what is retained is not cleared.                                *)
Mut_Ended == <<[kind |-> "report", job |-> noId, at |-> now + 1]>>

Ended == Started(noId)

(* Messages are sent at once over a connection that is up, and stored      *)
(* otherwise.                                                              *)
Publish(msgs) ==
    \/ /\ status = "connected"
       /\ up' = up \o msgs
       /\ unacked' = unacked \cup {m \in ToSet(msgs) : IsReport(m)}
       /\ UNCHANGED <<status, queue>>
    \/ /\ status # "connected"
       /\ queue' = queue \o msgs
       /\ UNCHANGED <<status, up, unacked>>

Touching ==
    /\ app = "active" /\ now < MaxTime /\ now' = now + 1
    /\ stale' = FALSE
    /\ UNCHANGED <<pausable, retained, o2sVars, excuses, repeated, harmed>>

Touch == Touching /\ undone' = None /\ UNCHANGED <<app, faults>>

(* Mutant: an entry is made and not saved.                                 *)
Mut_log(a) == UNCHANGED saved

(* An entry in the log saves everything: a is the activity by then.  When  *)
(* that fails, saveContext aborts: see CutShort.                           *)
log(a) == saved' = a

(* The worker's own record: the interval under way, if any, is closed; one *)
(* of job j is opened, unless j is noId.                                   *)
Closed ==
    [k \in DOMAIN sheet |->
        IF sheet[k].end # None THEN sheet[k]
        ELSE [job |-> sheet[k].job, start |-> sheet[k].start, end |-> now + 1]]

Note(j) ==
    sheet' = (IF j = noId THEN Closed
              ELSE Append(Closed, [job |-> j, start |-> now + 1, end |-> None]))

startJob(j) ==
    /\ Touch /\ activity = None
    /\ activity' = [job |-> j, running |-> TRUE] /\ log(activity')
    /\ Publish(Started(j)) /\ Note(j)

(* Mutant: what stood for the pause is not ended.                          *)
Mut_Resume ==
    /\ Touch /\ activity # None /\ ~activity.running
    /\ activity' = [activity EXCEPT !.running = TRUE] /\ log(activity')
    /\ Publish(Started(activity.job)) /\ Note(activity.job)

(* After a pause the job goes on; before that, whatever stood for the pause*)
(* is ended.                                                               *)
Resume ==
    /\ Touch /\ activity # None /\ ~activity.running
    /\ activity' = [activity EXCEPT !.running = TRUE] /\ log(activity')
    /\ Publish(Ended \o Started(activity.job)) /\ Note(activity.job)

pause ==
    /\ Touch /\ activity # None /\ activity.running
    /\ activity' = [activity EXCEPT !.running = FALSE] /\ log(activity')
    /\ Publish(Ended \o (IF pausable THEN Started(pauseId) ELSE <<>>))
    /\ Note(IF pausable THEN pauseId ELSE noId)

(* Mutant: the end of the job is not reported.                             *)
Mut_stop ==
    /\ Touch /\ activity # None /\ activity.running
    /\ activity' = None /\ log([activity EXCEPT !.running = FALSE])
    /\ UNCHANGED linkVars /\ Note(noId)

(* The activity is deleted after the log has saved it, halted. *)
stop ==
    /\ Touch /\ activity # None /\ activity.running
    /\ activity' = None /\ log([activity EXCEPT !.running = FALSE])
    /\ Publish(Ended) /\ Note(noId)

(* The app ends after it has published and before log has saved: it is     *)
(* killed there, or saveContext aborts.  An end is on its way by then, that*)
(* of stop or of a pause, or that with which startJob resumes; a pause has *)
(* said its own start too.  What is published after the save, or not sent  *)
(* yet, is lost with a Kill after the whole touch; nothing is left of a    *)
(* touch that ends before it publishes.                                    *)
CutShort ==
    /\ Touching /\ activity # None
    /\ app' = "failing" /\ Fault
    /\ activity' = [activity EXCEPT !.running = FALSE] /\ UNCHANGED saved
    /\ undone' = (IF activity.running /\ undone = None THEN now + 1 ELSE undone)
    /\ \/ Publish(Ended) /\ Note(noId)
       \/ /\ activity.running /\ pausable
          /\ Publish(Ended \o Started(pauseId)) /\ Note(pauseId)

-----------------------------------------------------------------------------
(* The app: its life, and its session.                                     *)

(* connect: the session is clean, so what was stored for it is dropped.    *)
Connect ==
    /\ status' = "connecting" /\ queue' = <<>> /\ unacked' = {}
    /\ Lose(queue)

(* A connection that ends takes with it what the network had not delivered.*)
Break ==
    /\ status' = "closed" /\ UNCHANGED <<queue, unacked>>
    /\ \E k \in 0 .. Len(up) :
          /\ up' = SubSeq(up, 1, k)
          /\ Lose(SubSeq(up, k + 1, Len(up)))

applicationDidBecomeActive ==
    /\ app = "inactive" /\ app' = "active"
    /\ Connect
    /\ UNCHANGED <<activity, saved, pausable, up, retained, o2sVars, now, faults, sheet, undone>>

applicationWillResignActive ==
    /\ app = "active" /\ app' = "inactive" /\ saved' = activity
    /\ Break
    /\ UNCHANGED <<activity, pausable, retained, o2sVars, now, faults, sheet, undone>>

(* What was not saved is forgotten, as is what was stored for the session: *)
(* a job that was stopped is back, halted; it is back running when it was  *)
(* its touch that has been cut short.                                      *)
Kill ==
    /\ app # "dead" /\ app' = "dead"
    /\ IF app = "failing" THEN UNCHANGED faults ELSE Fault
    /\ status' = "closed" /\ queue' = <<>> /\ unacked' = {}
    /\ activity' = saved
    /\ \E k \in 0 .. Len(up) :
          /\ up' = SubSeq(up, 1, k)
          /\ Lose(SubSeq(up, k + 1, Len(up)) \o queue)
    /\ UNCHANGED <<saved, pausable, retained, o2sVars, now, sheet, undone>>

Launch ==
    /\ app = "dead" /\ app' = "active"
    /\ Connect
    /\ UNCHANGED <<activity, saved, pausable, up, retained, o2sVars, now, faults, sheet, undone>>

(* The worker taps "Reconnect": the connection is closed, if there is one. *)
reconnect ==
    /\ app = "active" /\ status' = "connecting" /\ queue' = <<>> /\ unacked' = {}
    /\ \E k \in 0 .. Len(up) :
          /\ up' = SubSeq(up, 1, k)
          /\ Lose(SubSeq(up, k + 1, Len(up)) \o queue)
    /\ UNCHANGED <<appVars, retained, o2sVars, now, faults, sheet, undone>>

(* Mutant: what was stored while connecting is left where it is.           *)
Mut_connected ==
    /\ app = "active" /\ status = "connecting" /\ status' = "connected"
    /\ UNCHANGED <<appVars, queue, unacked, up, retained, o2sVars, now, faults, sheet, history, undone>>

(* Mutant: what was stored is sent with the latest deadline first.         *)
Mut_Latest ==
    /\ app = "active" /\ status = "connecting" /\ status' = "connected"
    /\ queue' = <<>> /\ up' = up \o Reverse(queue)
    /\ unacked' = unacked \cup {m \in ToSet(queue) : IsReport(m)}
    /\ UNCHANGED <<appVars, retained, o2sVars, now, faults, sheet, history, undone>>

(* Messages stored while the session was connecting are sent.              *)
connected ==
    /\ app = "active" /\ status = "connecting" /\ status' = "connected"
    /\ queue' = <<>> /\ up' = up \o queue
    /\ unacked' = unacked \cup {m \in ToSet(queue) : IsReport(m)}
    /\ UNCHANGED <<appVars, retained, o2sVars, now, faults, sheet, history, undone>>

ConnectionLost ==
    /\ app = "active" /\ status # "closed" /\ Fault
    /\ Break
    /\ UNCHANGED <<appVars, retained, o2sVars, now, sheet, undone>>

(* newMessage: the catalogue changes, and with it everything is saved.     *)
newMessage ==
    /\ app = "active" /\ status = "connected" /\ pausable' \in BOOLEAN /\ saved' = activity
    /\ UNCHANGED <<app, activity, linkVars, retained, o2sVars, now, faults, sheet, history, undone>>

(* checkTxFlows: a report is sent again when its acknowledgement is late.  *)
checkTxFlows ==
    /\ app = "active" /\ status = "connected" /\ Fault
    /\ \E m \in unacked :
          /\ up' = Append(up, m)
          /\ excuses' = excuses + (IF IsEnd(m) THEN 0 ELSE 1)
          /\ repeated' = (repeated \/ IsEnd(m))
    /\ UNCHANGED <<appVars, status, queue, unacked, retained, o2sVars, now, sheet, harmed, stale, undone>>

-----------------------------------------------------------------------------
(* The broker: retains, and forwards reports to o2s if it is subscribed.   *)
BrokerReceives ==
    /\ up # <<>> /\ up' = Tail(up)
    /\ LET m == Head(up) IN
          \/ /\ ~IsReport(m) /\ retained' = m.job
             /\ UNCHANGED <<down, history>>
          \/ /\ IsReport(m) /\ o2s /\ down' = Append(down, m)
             /\ UNCHANGED <<retained, history>>
          \/ /\ IsReport(m) /\ ~o2s /\ Lose(<<m>>)
             /\ UNCHANGED <<retained, down>>
    /\ UNCHANGED <<appVars, status, queue, unacked, o2s, jobstart, rows, now, faults, sheet, undone>>

-----------------------------------------------------------------------------
(* o2s.                                                                    *)
IsOpen(r) == r.end = None

(* Mutant: the times are subtracted the wrong way round.                   *)
Mut_Duration(at) == IF jobstart = None THEN None ELSE jobstart - at

Duration(at) == IF jobstart = None THEN None ELSE at - jobstart

Remember(m) == jobstart' = (IF jobtopic /\ ~IsEnd(m) THEN m.at ELSE jobstart)

StoreStart(m) ==
    /\ ~IsEnd(m)
    /\ rows' = Append(rows, [job |-> m.job, start |-> m.at, end |-> None, duration |-> None])

(* Mutant: the length is stored without the end.                           *)
Mut_StoreEnd(m) ==
    /\ IsEnd(m)
    /\ \/ Count(rows, IsOpen) = 0 /\ UNCHANGED rows
       \/ \E k \in DOMAIN rows :
             /\ IsOpen(rows[k])
             /\ rows' = [rows EXCEPT ![k].duration = Duration(m.at)]

(* Job.get: any row of the device that is open.                            *)
StoreEnd(m) ==
    /\ IsEnd(m)
    /\ \/ Count(rows, IsOpen) = 0 /\ UNCHANGED rows
       \/ \E k \in DOMAIN rows :
             /\ IsOpen(rows[k])
             /\ rows' = [rows EXCEPT ![k] = [job |-> @.job, start |-> @.start, end |-> m.at,
                                              duration |-> Duration(m.at)]]

on_currentjob ==
    /\ o2s /\ down # <<>> /\ down' = Tail(down)
    /\ Remember(Head(down))
    /\ StoreStart(Head(down)) \/ StoreEnd(Head(down))
    /\ UNCHANGED <<appVars, linkVars, retained, o2s, now, faults, sheet, history, undone>>

(* The start of a job that cannot be stored is logged.                     *)
StoreStartFails ==
    /\ o2s /\ down # <<>> /\ Fault
    /\ ~IsEnd(Head(down)) /\ Remember(Head(down))
    /\ down' = Tail(down) /\ Lose(<<Head(down)>>)
    /\ UNCHANGED <<appVars, linkVars, retained, o2s, rows, now, sheet, undone>>

(* o2s stops: it is killed, or raises because the end of a job cannot be   *)
(* stored.  Its memory goes, and what was on its way to it.                *)
Crash ==
    /\ o2s /\ o2s' = FALSE /\ Fault
    /\ jobstart' = None
    /\ down' = <<>>
    /\ excuses' = excuses + Count(down, IsEnd) /\ harmed' = TRUE
    /\ UNCHANGED <<appVars, linkVars, retained, rows, now, sheet, repeated, stale, undone>>

(* Its connection to the broker breaks; paho connects again.               *)
on_disconnect ==
    /\ o2s /\ o2s' = FALSE /\ Fault
    /\ down' = <<>> /\ Lose(down)
    /\ UNCHANGED <<appVars, linkVars, retained, jobstart, rows, now, sheet, undone>>

on_connect ==
    /\ ~o2s /\ o2s' = TRUE
    /\ UNCHANGED <<appVars, linkVars, retained, down, jobstart, rows, now, faults, sheet, history, undone>>

-----------------------------------------------------------------------------
Worker == (\E j \in JobIds : startJob(j)) \/ Resume \/ pause \/ stop \/ CutShort

App ==
    \/ applicationDidBecomeActive \/ applicationWillResignActive \/ Kill \/ Launch
    \/ reconnect \/ connected \/ ConnectionLost \/ newMessage
    \/ checkTxFlows

O2s == on_currentjob \/ StoreStartFails \/ Crash \/ on_disconnect \/ on_connect

Next == Worker \/ App \/ BrokerReceives \/ O2s

Spec == Init /\ [][Next]_vars

(* What was sent arrives while the connections last; o2s reads what it gets. *)
Fairness == WF_vars(BrokerReceives) /\ WF_vars(on_currentjob)

FairSpec == Spec /\ Fairness

-----------------------------------------------------------------------------
(* Properties.                                                             *)

(* A start that is never ended leaves a row open, and an end closes one    *)
(* row only: there are never more rows open than the one of the job that   *)
(* runs and one for each end that was lost or start that was repeated.     *)
(* The app may be killed: it comes back to end what it has started.        *)
OpenRowsExcused == Count(rows, IsOpen) <= 1 + excuses

(* Whatever starts are lost and however often o2s is restarted, a row that *)
(* is closed is an interval the worker worked or paused, with its length   *)
(* or with none, as long as no end was lost and no report repeated.        *)
RowsTruthful ==
    excuses = 0 /\ ~repeated =>
        \A k \in DOMAIN rows : ~IsOpen(rows[k]) =>
            /\ \E n \in DOMAIN sheet : /\ sheet[n].job = rows[k].job
                                       /\ sheet[n].start = rows[k].start
                                       /\ sheet[n].end = rows[k].end
            /\ rows[k].duration \in {None, rows[k].end - rows[k].start}

(* When nothing is lost, repeated or restarted, and all has arrived, the   *)
(* table is the worker's time sheet.                                       *)
RowsComplete ==
    excuses = 0 /\ ~repeated /\ ~harmed /\ Count(queue \o up \o down, IsReport) = 0 =>
        rows = [k \in DOMAIN sheet |->
                   [job |-> sheet[k].job, start |-> sheet[k].start, end |-> sheet[k].end,
                    duration |-> IF sheet[k].end = None \/ ~jobtopic THEN None
                                 ELSE sheet[k].end - sheet[k].start]]

(* What the worker has started and not ended runs, however often the app is*)
(* killed and though stop does not save what it has done.  What the app    *)
(* shows to run has not been ended, unless the app was cut short after it  *)
(* had published the end: then it is the job of which that was the end.    *)
RunningTruthful ==
    \A j \in JobIds :
        /\ (\E n \in DOMAIN sheet : sheet[n].job = j /\ sheet[n].end = None) =>
               activity = [job |-> j, running |-> TRUE]
        /\ activity = [job |-> j, running |-> TRUE] =>
               \E n \in DOMAIN sheet : sheet[n].job = j /\ sheet[n].end = undone

(* What will be retained when all that is under way has arrived: the last  *)
(* of it that is not a report, or what is retained.                        *)
Coming(j) ==
    LET s == up \o queue IN
    \/ j = retained /\ \A k \in DOMAIN s : IsReport(s[k])
    \/ \E k \in DOMAIN s : /\ ~IsReport(s[k]) /\ s[k].job = j
                           /\ \A i \in DOMAIN s : k < i => IsReport(s[i])

(* What is retained, once what is under way has arrived, is what the app   *)
(* shows, unless what the last touch published was lost.  While a job runs *)
(* again of which the end was published, it is that end, or the pause.     *)
RetainedTruthful ==
    ~stale => CASE activity = None -> Coming(noId)
                [] activity # None /\ activity.running /\ undone = None -> Coming(activity.job)
                [] OTHER -> Coming(noId) \/ Coming(pauseId)

(* From the app to the table there is one line, which loses messages and   *)
(* says reports again but never lets one overtake another: what was stored *)
(* for the session is sent before anything that is published later, and    *)
(* what o2s writes is what the front of the line says.                     *)
Line == INSTANCE ReportLine WITH
            Works <- JobIds \cup {pauseId},
            clock <- now,
            line  <- down \o up \o queue,
            kept  <- unacked \cup {m \in ToSet(queue) : IsReport(m)},
            table <- [k \in DOMAIN rows |->
                        [job |-> rows[k].job, start |-> rows[k].start, end |-> rows[k].end]]
ImplementsLine == Line!Spec

(* While the app and o2s stay connected, whatever was published, before    *)
(* the session was up or since, is retained or handled in the end.         *)
ReportsArrive ==
    <>[](status = "connected" /\ o2s) =>
        <>[](queue = <<>> /\ up = <<>> /\ down = <<>>)

(* CHANGELOG.md says that a report carries its time to allow queued        *)
(* transmission: what was stored while there was no connection is sent     *)
(* over the next one.                                                      *)
QueuedTransmission ==
    [][status = "closed" /\ queue # <<>> /\ status' = "connecting" => queue' = queue]_vars
=============================================================================
