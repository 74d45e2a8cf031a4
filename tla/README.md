# Verification of OwnTracks sundry

TLA+ models of the parts of this repository that keep state, the TLC
configurations that check them, and theorems about them whose proofs TLAPS
checks. All paths are relative to the root of the repository, which is called
`src/` here. `PROJECT.json` maps every definition to the lines it models.

To check: `tlc -config <name>.cfg <module>` for the runs listed below, and
`tlapm <module>.tla` for `OtapServerProofs`, `OtapPolicyProofs`,
`OtapAnswersProofs`, `GeofenceProofs`, `PrimeProofs`, `AuthPluginProofs`, `JobsProofs`
and `JobsTableProofs` (which takes five minutes).

| Component | Modules | Runs |
|---|---|---|
| OTAP server | `OtapServer`, `OtapPolicy` (abstract), `MCOtap`, `OtapServerProofs`, `OtapPolicyProofs`, `OtapAnswersProofs` | `otap_one`, `otap_fleet`, `otap_emptyjars` |
| Geofences | `Geofence`, `MCGeofence`, `GeofenceProofs` | `geofence`, `geofence_settles`, `geofence_jump`, `geofence_watcher` |
| Prime firmware | `Prime`, `MCPrime`, `PrimeProofs` | `prime`, `prime_startup` |
| mplug | `AuthPlugin`, `MCAuth`, `AuthPluginProofs` | `auth` |
| Activo app and job tracking of o2s | `Jobs`, `ReportLine` (abstract), `MCJobs`, `JobsProofs`, `JobsTableProofs` | `jobs`, `jobs_queue` |

## 1. The system

OwnTracks sundry is a collection of programs round an MQTT broker to which
devices (phones, the Greenwich and Prime trackers) publish their positions.

| Part | Source | State it keeps | Operations | What is hard |
|---|---|---|---|---|
| OTAP server | `otap/otap.py`, `otap/owntracks/dbschema.py` | tables Otap, Settings, Imeiset, Versioncheck; a directory of JAR files | JSON-RPC methods; versioncheck, otap.jad, JAR download, notify; JAR upload | check-then-act over database and files, whole-row saves, lost replies, killed workers, a device that acts on old answers |
| OTAP command line | `otap/otc.py` | none | turns a command into a request | - |
| o2s: storage and map | `pista/o2s.py` | Location, Lastloc, Waypoint, retained topics, `devices` in memory | on_message, on_info, on_tell ... | late positions, upserts, restart loses the memory |
| o2s: jobs | `pista/o2s.py` 472-700 | tables of jobs, `jobs[device]` in memory | on_job, on_activejob, on_currentjob | duplicated and lost messages, restart in the middle of a job |
| Geofences | `pista/owntracks/waypoints.py`, `persist.py` | list of fences, persistent dictionary device -> fence | load, check, alert, sync | order of the list, crash between alert and sync, reloaded fences, exceptions |
| ctrld, pista web | `pista/ctrld.py`, `pista/pista.py`, `owntracks/auth` | none of their own | read-only queries | - |
| Reverse geocoding | `pista/owntracks/revgeo.py` | cache table Geo | look up, ask, store | - |
| CAN and DTC decoding | `can2human.py`, `dtc.py` | none | tables, bit fields | - |
| mplug | `traction-mplug/*.c` | ACL cache with expiry, back-end that authenticated | unpwd_check, acl_check | stale decisions, requests that share a key of the cache, failing database |
| Prime firmware | `prime/OwnTracksPrime/main.cpp` | connection ladder, send flags, timers | main loop, messageArrived | reconnection, flags cleared without a publish |
| Activo iOS app | `OwnTracksActivo/.../ActivityModel.m` | the activity in Core Data, retained messages | startJob, pause, stop | crash between deletion or publish and save, two publishes for one change |
| Hosted API | `hosted/api/app.js`, `models/` | users, devices, permissions, shares, sessions | REST handlers | what is undone when one of several statements fails |
| m2s | `backend/m2s/` | tables | on_message through plug-ins | - |
| Others | `backend/wapp`, `hosted/backend`, `hosted/frontend`, `electron`, `contrib`, `pista-micro`, `turnkey-owntracks` | none | views, packaging | - |
| Vendored | peewee, Pods, wolfSSL, mbed, MQTT, uthash, JavaScript libraries | | | third-party |

How they interact: devices publish to the broker; o2s and m2s subscribe and
write to the database which pista, ctrld and wapp read; o2s publishes alerts
and map data back; mplug decides, inside the broker, who may; the Activo app
publishes jobs which o2s records; Greenwich trackers poll the OTAP server by
HTTP, and operators drive it with otc. The OTAP server shares nothing with the
rest but the broker it sends notices to.

What makes each part correct:

- OTAP: a version that is queued has its file, a set that is assigned is
  defined; a blocked or foreign device gets nothing; a once-only set is handed
  out once; devices end up with the version queued for them.
- Geofences: after a check the dictionary agrees with where the device is, and
  what was published agrees with the dictionary, in spite of restarts.
- Jobs: every job that ends is stored once with its duration; at most one is
  open per device.
- Storage: Lastloc is the latest position.
- mplug: nobody is granted what the tables have not allowed, to that request or
  to one with the same key of the cache, since it was asked for, and a change to the tables takes effect, whatever is cached.
- Prime: whatever fails, the device gets back to a session, obeys a command
  to stop, and its position is known in the end.
- Activo: what the app shows to run is what the worker started, through kills
  (but for one that comes between publishing an end and saving it), and what is retained at the broker is what the app shows.
- Hosted: a share, device or session that is gone is not usable, and a request
  that is answered with an error has changed nothing.

The hazards behind these, each at its line, are the list `hazards` in
`PROJECT.json`.

## 2. The order of the modules

1. **OTAP server**: `OtapServer`, and the abstract `OtapPolicy` it implements.
2. **Geofences**: `Geofence`, with the table of waypoints.
3. **Prime firmware**: `Prime`, the main loop composed with the MQTT client it
   calls and with the network, the broker and the receiver.
4. **mplug**: `AuthPlugin`, the plug-in composed with the tables that others
   write to.
5. **Activo and job tracking**: `Jobs`, the app composed with its MQTT session,
   the broker and o2s's table of jobs, and the abstract `ReportLine` it implements.

Each has its theorems in a module of its own. What could follow: the
last-location table and the Hosted API (section 9), and proofs of what is only
model-checked (listed at the end of each section).

## 3. OTAP: modules and code

`OtapServer` models a request as one step per access to the database or the
file system. What a handler keeps in local variables is the record `req[w]` of
the worker that serves it; `pc` says which access comes next. peewee's
`Model.save()` writes all columns of a row, so a handler that reads a row and
saves it writes back everything it read: `SaveRow` does just that.

| Definitions | Code |
|---|---|
| `jars`, `Highest` | the files of `cf.jardir`, `list_jars()` |
| `otap`, `settings`, `imeiset` | the tables of `dbschema.py` |
| `AddImei`/`AddSave`, `Deliver`.. `DeliverSave`, `Purge`/`PurgeRemove`, `Block`, `SetColumn`/`RowSave`, `SDefine`, `SUndef`, `SSet`, `SUnset` | the methods of class `Methods` |
| `JarUpload` | `jarupload` |
| `VersionCheck`, `VcList`, `VcSave`, `VcSettings`, `VcOnce`, `VcClear`, `VcReply` | `versioncheck` and `imei_settings` |
| `OtapGet`, `JadList`, `JadStat`, `JadReply` | `otap_get`, the JAD |
| `JarFile`, `JarReply` | `jarfile` |
| `OtapNotify` | `otap_notify` |
| `DeviceRequest`, `dev` | the tracker's firmware, which is not in the repository: it polls versioncheck, then asks for the JAD, the JAR of the JAD, and notifies |
| `LoseReply`, `Crash` | the network; the WSGI server that kills or reloads a worker (`py-autoreload` in the README of otap) |

Abstracted: columns that no handler decides on (tid, reported, lastcheck,
comment, flags), the log of version checks, MQTT notices, the text of
parameter sets, the key of the operator. Methods that only read (show, find,
jars, imei, showsets, showconfig, versionlog) have no action.

`OtapPolicy` is what operators may rely on. A command is given (`Ask`) and
later carried out once, at one instant at which its condition holds, or refused
because it does not, or lost to a fault; block, unset and an upload are carried
out as they are given. Devices change nothing but a once-only assignment, which
they use up (`Spend`). Nothing else may happen to the tables: a block or a
version that comes or goes without the command of an operator is no step of
`OtapPolicy`, nor is a permanent assignment that a poll clears.

`OtapServer` instantiates it (`Policy == INSTANCE OtapPolicy WITH ...`). The
refinement mapping is the identity on `jars`, `otap`, `settings` and `imeiset`;
`count` is the number of operators' requests (`ops`), which is what tells a
command that is given from a step of a device; and `asked` is what the
requests being served have still to carry out, read off their `pc` and local
variables (`Asking`). A step that carries a command out, or refuses it, therefore
comes from the worker that was given it, and comes once. `ImplementsPolicy` is
checked by two runs and proved.

### Runs

| Run | Question | Bounds |
|---|---|---|
| `otap_one` | do the decisions of a handler hold when it acts on them, does it implement `OtapPolicy`? | 1 device, 2 customers, 2 versions, 1 set, 7 operator requests, 2 faults |
| `otap_fleet` | is what is done for one device without effect on another? Do devices reach their version, are once-only sets used up? | 2 devices, 2 versions, 1 set, 5 requests, 1 fault, fairness |
| `otap_emptyjars` | finding: settings withheld (below) | 1 device, 1 version, 5 requests |

Why they are enough: upload, add, deliver, a change of mind and a purge are
five requests; define, set, unset or undef four; seven let the two meet. Two
versions are needed for "highest" and for an upgrade that is a downgrade, two
customers for a device that has been moved, two devices for a purge or undef
that must count the others. The two faults allow a lost reply after a crash.

Properties. `DeliverHasJar`, `NoDanglingSet`: check-then-act of deliver/purge
and s_set/s_undef. `OnceOnly`, `ClearedIsHandedOut`: the assignment is deleted
in a step of its own after it was read and before it is sent.
`SettingsPushedWithJars`: settings reach every device that is not blocked.
`OffersFollowTheRow`: device and server act on a decision several steps old.
`PermanentStays`, `SimulationIsReadOnly`: who may change what.
`ImplementsPolicy`: refinement, broken for example by a versioncheck that saves
an old `deliver` or clears a permanent assignment. `Consistent` is the inductive invariant.

Fairness (`Fairness`): a worker runs its handler to the end (weak: nothing can
disable it but a fault); a device polls every `versionInterval` seconds for ever
and its connection waits in the listen queue while the server is busy (strong,
because the server may be busy whenever it looks). Operators and faults are
not fair and are bounded, so `Convergence` speaks of what comes after them.

### One worker

All OTAP runs use one worker: that is how the program is deployed (wsgiref's
single thread under bottle's `run`, or the `uwsgi.ini` of otap's README, which
sets no `processes`). The model has any number of them. With `Workers =
{w1, w2}` TLC finds `DeliverHasJar`, `NoDanglingSet` and `ImplementsPolicy`
violated: purge between the check and the save of deliver, undef between those
of s_set, and a versioncheck that writes back the row it read before an
operator blocked the device (the shortest counterexample to `ImplementsPolicy`). Nothing in the code or database prevents these;
a deployment with several processes would meet them. `TypeCorrect` is proved
for every number of workers.

### What is proved

From the constants' assumptions alone:

- `OtapServerProofs!TypeCorrect`: `Spec => []TypeOK`. `TypeOK` is not
  inductive: a handler that saves `req[w].row` needs it to be a row at that
  step. `Shape` says what each local variable is at each `pc`, and `TypeOK /\
  Shape` is.

With the assumption `OneWorker`, stated in each theorem:

- `ConsistentAlways`: `Spec => []Consistent`, the inductive invariant `TypeOK`,
  `Shape`, `Fresh`, `DeliverHasJar`, `NoDanglingSet`, `NotYetGiven`. `Fresh` is
  the heart: what a handler has read still agrees with the tables at every
  later step. E.g. `DeliverHasJar` is preserved by PurgeRemove only because
  `Fresh` says that still nobody has the version queued, and by DeliverSave
  only because the version is still in the directory. The proof has one lemma
  per handler.
- `QueuedVersionIsThere`, `AssignedSetIsDefined`, `OnceOnlyIsOnce`,
  `NothingIsDiscarded`: the properties above, from it.
- `Refinement`: `Spec => ImplementsPolicy`. The step of a handler that writes is
  its command, which was `asked` until then; the step that accepts an
  operator's request is `Ask`, or the whole command if it has one access only;
  the DELETE of versioncheck is `Spend`; the save of versioncheck and of notify
  writes the row back as it is, by `Fresh`; every other step leaves the variables
  of `OtapPolicy` alone. `PolicyOperator`, `PolicyDevice` and `PolicyFault`
  collect these.

- in `OtapAnswersProofs`, on top of it: `SettingsArePushed`, `OffersAreTrue`,
  `PermanentIsKept`, `SimulationOnlyReads`. Their invariant is `Answers`:
  `Simulated` (a simulation never gets to the steps of a once-only assignment),
  `Pushing` (why versioncheck skips the settings) and `Offering` (a device that
  is being served is served from its own row, and once an upgrade or a JAD is
  decided it stays entitled to it until the reply leaves).

Only model-checked: the liveness properties, which are beyond this prover, like
everything with ENABLED.

### Finding

`otap_emptyjars`: with `deliver` `'*'` and an empty JAR directory,
`list_jars()[-1]` (`otap/otap.py:759`) raises IndexError, the `except` at line
793 catches it, and the device is answered without the settings that are
assigned to it; the comment at line 770 says that they are pushed.

## 4. Geofences: modules and code

| Definitions | Code |
|---|---|
| `waypoint`, `StoreWaypoint` | table Waypoint, `REPLACE` in `on_message` (`o2s.py` 944-960); the unique index is on `tst` alone |
| `wplist`, `Load` | `load_waypoints`, once per start; by id, with gaps for rows that are not loaded |
| `tlist`, `disk`, `Sync` | `self.tlist`, a `PersistentDict`, and its file, replaced by a rename |
| `chk` | the loop of `WP.check`: device, place, index |
| `PassBy`, `Leave`, `LeaveSync`, `Enter`, `StillAt`, `EndOfList` | its branches, in the order of its statements |
| `Return`, `Raise` | it returns, or raises and `on_message` catches |
| `out`, `Deliver`, `Reconnect` | alerts that paho has queued; QoS 0 |
| `SyncFails`, `Restart` | a failing write; o2s killed at any step |
| `told`, `last` | observers: what a subscriber believes, where the last complete check was |

Coordinates are abstracted to places: a fence has a centre, which `__eq__`
compares, and an area, the places within its radius. `Unspeakable` are the
fences for whose alert formatting the watcher's line raises: all of them if
`alert_keys` leaves out `tid` or `tstamp`, those whose name is not ASCII
otherwise (Python 2), none if no watcher is configured. o2s has one thread: no
two checks overlap, but kills and deliveries come between their steps.
The map's fences and the positions that `on_message` drops are not modelled.

Runs: `geofence` (1 device, 3 places, 4 waypoints of which two are concentric
and one has no radius, 3 ids, 2 moves, 2 faults): `NowhereMeansOutside`,
`StaleOnlyBehind`, `Agreement`. Three ids give a fence one before and one
behind it in the list; two faults a failed write followed by a restart.
`geofence_settles` (2 devices, 2 ids, 1 move, 1 fault): liveness: whoever stays
outside every fence is in the end recorded nowhere, whoever stays in one is
recorded in some fence; two devices,
since one might keep o2s busy. Fairness: o2s finishes the check it has
begun and paho sends what is queued (weak); a device reports for ever and its
positions wait in the socket while another is checked (strong). The bound
`MaxOut` stands for paho's queue being emptied between positions.

Findings: `geofence_jump`: `check` returns at the first fence that contains a
device which is recorded in any, so a device that goes from one fence to
another earlier in the list, without a position in between, neither leaves nor
enters (`waypoints.py:184`; `o2s.conf.sample:138-140` says enter and leave
events are published). `StaleOnlyBehind` states what is true instead.
`geofence_watcher`: the line for the watcher is formatted outside of any `try`
after the alert was published (`waypoints.py:129`); when it raises on a leave,
the entry is not deleted and the leave is published with every position.

Also seen, and stated as exceptions of the properties: a device recorded in a
waypoint that has been moved or deleted stays recorded for ever after the next
start, and enters no other fence (`Twins = {}`); two loaded waypoints with the
same coordinates and different radii make a device that stands between the two
radii enter and leave with every position (`OneRadius` excludes it); what the
subscriber believes is not repaired after a fault (`Agreement` is about runs
without one).

Proved in `GeofenceProofs`, for all constants: `TypeCorrect`,
`NowhereIsOutside`, `StaleIsBehind`. They rest on `IInv`: `TypeOK`, `Busy` (the
shape of a check), `Scanned` and the two properties. `Scanned` is the loop
invariant: either no fence examined so far contains the place or is the one
recorded, or the device is recorded in a fence it is in. Without it a check
that reaches its end says nothing about the fences at its beginning.
`TwinsAlike` is where `OneRadius` comes in. `SubscriberAgrees` proves
`Agreement` from `Heard`: what the queued alerts will make the subscriber believe
of a device (`Says`, its last alert in the queue) is what is recorded, except
between the alert of a leave and the deletion of the entry. Only model-checked:
`Settles`, which is liveness.

## 5. Prime: modules and code

`Prime` is the main loop of the tracker's firmware, cut where it waits: in the
GPS receiver, and in every request of the MQTT client, which blocks until the
acknowledgement or a time-out and meanwhile delivers commands. The globals
`mdmInit` .. `mqttConnect` are the set `rungs`, `sendMin` .. `reset` the set
`flags`; the three timers are kept as ages.

| Definitions | Code |
|---|---|
| `Climb`, `ClimbToSocket`, `Ladder` | the ladder of `main` up to `connect` (207-303) |
| `Connected`, `Subscribe`, `Subscribed`, `ConnectTimesOut`, `SessionTimesOut` | the rest of it: CONNACK, the start message, the subscription (295-337) and the client's `waitfor`, `cleanSession` |
| `ReadCommand`, `messageArrived`, `EndYield` | `Client::cycle`, `yield`, the handler of the cmd topic |
| `NoSentence`, `Sentence`, `Fix`, `Published`, `PublishTimesOut` | the receiver's loop and the transmission (339-423) |
| `SetClock` | `gpstime_set` |
| `isConnected`, `Check` | after each sentence: is the client still connected, which timers have expired (439-476) |
| `PowerDown` | the end of `main` |
| `BrokerHandles`, `Command`, `NetworkChanges`, `Move`, `Tick` | broker, network, whereabouts, time |

The client is NULL before the first connect, and `main` calls `isConnected()`
on it all the same: its answer is then any. A connection the network has lost
stays, "dead", until the device closes it; a write to it may succeed.

Abstracted: coordinates (places lie more than MINDIST apart), NMEA, payloads,
packet ids, TLS (`MQTTwolf.h` has the same calls), and the keep-alive: its
ping is sent without a look at the answer, so it ends no session.

`prime`: two places, commands `gps`, `reset`, `off`, one on its way at a time,
periods 0 and 1, a clock set one back or two forth. Two places make a move and
a return; the periods keep their order and let every timer expire; -1 puts a
timer into the future, 2 makes all of them expire at once. The network goes up,
slow and down without bound.

Properties. `LadderTruthful`: the globals agree with each other, with the
socket and with the client. `AckMeansStored`: `waitfor(PUBACK)` does not
compare packet ids, and gets away with it, since a publish that was given up
ends the session. `OffObeyed`, `PositionConverges`, `SessionRecovers`:
liveness. Fairness: the loop and the broker go on and time passes (weak); the
receiver has a fix again and again and pauses between two sentences (strong,
an assumption about the receiver). Nothing is assumed of network and commands;
the premises of the properties say how long they behave.

Finding, `prime_startup`: the position that is due at start-up is given up when
the first fix comes before the session (`main.cpp:404`, 417-422), where
`main.cpp:10` promises one. `PositionConverges` states what is true instead:
the hourly transmission repairs it.

Proved in `PrimeProofs` for all constants: `TypeCorrect`, `LadderIsTruthful`,
`AcknowledgedIsStored`. The invariant adds `Placed` (which wait goes with which
rungs and which client) and `Wire` (what can be on its way in which wait).
Without `Wire` a PUBACK might be for the start message or an earlier position.
Liveness is only model-checked.

## 6. mplug: modules and code

`AuthPlugin` is the plug-in as the broker calls it: `unpwd_check` in one step
(one query), `mosquitto_auth_acl_check` in up to five: the cache, the superuser
query, the ACL query, the cache again, the answer. The broker has one thread,
so calls do not overlap; tables change and the database goes away between any
two steps.

| Definitions | Code |
|---|---|
| `unpwd_check`, `Anonymous`, `Leave` | `mosquitto_auth_unpwd_check`; the broker |
| `acl_check`, `Hit`, `Miss` | `mosquitto_auth_acl_check` up to the query, `cache_q` |
| `superuser`, `aclcheck` | `be_mysql_superuser`, `be_mysql_aclcheck` |
| `hexify`, `acl_cache`, `Added`, `Swept` | `cache.c` |
| `Restart` | plug-in cleanup and init |
| `Outage`, `ChangePassword`, `ChangeSuper`, `ChangeAcl` | MySQL and who writes to it |
| `credible` | observer: the requests the tables have allowed since the question was put |

Abstracted: the queries, the patterns and the hashing of passwords: `acl` is
the set of requests they allow. `hexify` joins client, user, topic and access
by colons and escapes nothing (`cache.c:65`), and each of them may contain
colons, so different requests may join to the same string and share an entry
of the cache. `Digest` is therefore any function of the request, with no
assumption on what it tells apart; `Alike(r)` are the requests that share the
key of r. The index of the
back-end that authenticated is one variable for all clients; the Makefile can
build one back-end only, so it makes no difference and is left out, as is what
is written to Redis, which nothing reads.

`auth`: one client, which logs in as one user or comes as the anonymous one, so
that two users share a clientid; two topics; three requests of which two, of
different users, share a key and the third, of the same user as one of
them, does not; a lifetime of one second, so that an entry is fresh, old and
expired (144,664 states, a minute).

Properties. `GrantsJustified`: what the tables grant was allowed to that very
request; what the cache grants was allowed to it or to one with the same key,
since it was asked for: no decision crosses to another key or outlives its
entry. That two requests with the same key share their decisions, as long as the
entry lives, is what the code does. `MissBeforeStore`: `acl_cache` would lose a decision for
which it finds an expired entry; it finds none. `RevocationTakesEffect`: an
entry is returned once more after it has expired (`cache.c:161`), and a hit
does not renew it. `PermissionTakesEffect`: a failed query is cached as a "no",
for no longer than its lifetime. Both speak of all requests that share a key:
while one of them is allowed, its entries answer for the others. Fairness: a call runs to its end and time
passes (weak); nobody has to ask.

Proved in `AuthPluginProofs` for all constants: `TypeCorrect`,
`GrantsAreJustified`, `StoredAfterMiss`. The invariant adds `NowCredible`: what
is allowed now is credible. Nothing is assumed of `Digest` but its domain.
Liveness is only model-checked.

## 7. Jobs: modules and code

`Jobs` composes the Activo app, its MQTT session, the broker and o2s. Every
start or end is two messages, a retained one without a time and a report with
it.

| Definitions | Code |
|---|---|
| `startJob`, `Resume`, `pause`, `stop`, `log` | `ActivityModel.m` 59-259; which button is enabled, `ViewController.m` 349-364 |
| `CutShort` | the app ends between what a touch publishes and what `log` saves: killed there, or `saveContext` aborts (`AppDelegate.m` 301-311) |
| `saved` | what `log`, the background and a catalogue message have saved |
| `Publish`, `Connect`, `Break`, `connected`, `checkTxFlows` | `MQTTSession.m`: flows sent or stored, deleted by a clean connect, sent when connected, sent again |
| `applicationDidBecomeActive`, `applicationWillResignActive`, `reconnect`, `Launch`, `newMessage` | `AppDelegate.m` |
| `Kill`, `ConnectionLost` | iOS, the network |
| `BrokerReceives` | the broker: retains, forwards to o2s if subscribed |
| `on_currentjob`, `Remember`, `StoreStart`, `StoreEnd`, `StoreStartFails` | `o2s.py` 606-700, table Job |
| `Crash`, `on_disconnect`, `on_connect` | o2s ends (also by `raise` at 685), loses its connection, starts or connects again and subscribes at QoS 0 |
| `sheet`, `excuses`, `repeated`, `harmed`, `stale`, `undone` | observers: the worker's own time sheet, what is known to have been lost or repeated, and the end that was published and not saved |

Abstracted: task, place and machine; names; the running total on the screen;
acknowledgements, which only keep a report from being sent again; the job
catalogue, but for whether it has the job that stands for a pause.

A handler is one step, since the app and o2s have one thread each, and nothing
comes between its statements but the end of the process. Where that makes a
difference it is a step of its own. `pause`, `stop` and a start that resumes write
the end of the job to the connection before `log` saves it (`ActivityModel.m`
131-170, 192-208). `CutShort` is the touch that ends in between: its end is
published, nothing is saved, and the app is `"failing"`: it does nothing more
but end (`Kill`). The end of a `pause` may be on its way with the start that stands
for the pause or without it. A touch that ends before it publishes is a `Kill`
before it, and one of which only the first messages were delivered is covered by
what a broken connection loses. o2s ending between the row it writes and
its next message is `Crash`.

Two touches of the worker are a second apart. The
window of 16 unacknowledged messages is never full: beyond it the session
stores what is published though it is connected (`MQTTSession.m:238`), and a
later message may overtake it (see `hazards`). iOS ending the app in an orderly
way is `applicationWillResignActive` and `Kill`.

`jobs`: one job besides the pause, three touches of the worker (start, pause
and resume, or start, stop and start; any but the first may be cut short), two
faults: a loss and a restart that meets it, or two touches cut short (960,593
states, three minutes). Two jobs would add nothing but names: there is one activity at a time
and the table is searched for open rows of the device, of whatever job.

`ReportLine` says what is left of the session, the broker and the subscription
for somebody who only sees the phone and the table: one line of messages, which
may lose any stretch of it and say again a report it keeps, but makes none up
and lets none overtake another; the table changes only by the report at its
front. `Jobs` instantiates it (`Line`): the line is `down \o up \o queue`, what it
keeps are the reports unacknowledged or stored, the table is that of o2s
without the lengths. A broken connection, a clean connect, the broker's taking
of a retained message and o2s's failure to write are its `Lose`, a touch is its
`Say`, `checkTxFlows` its `Repeat`. `jobs` checks `ImplementsLine`: an order of
sending that put a later message before an earlier one would violate it.

Properties. `OpenRowsExcused`: no more rows are open than lost ends and
repeated starts explain. `RowsTruthful`: `jobstart` lives in memory only;
after a restart an end is stored without a duration, but never with a wrong
one. `RowsComplete`: when nothing was lost the table is the time sheet.
`RunningTruthful`: every job that was started and not ended is shown to run.
The reverse has one exception. `stop` deletes the activity after `log` saved it
and does not save again, so a killed app comes back with the stopped job,
halted. But if the app ended after it had published the end and before `log`
saved, the job comes back running, though o2s has closed its row; `undone` is
the time of that end, and the job shown to run is the one that was ended then
and no other, until the next touch. `RetainedTruthful`: broker and app agree,
unless what the last touch published was lost; in the `undone` case the broker
retains the end, or the pause, of the job that the app shows running. `ReportsArrive`: what was stored while connecting is
sent. Fairness: the broker and o2s handle what they have (weak).

Finding, `jobs_queue`: what is reported without a connection is deleted by the
next connect, because the session is clean (`AppDelegate.m:112`,
`MQTTSession.m:1054`), where `CHANGELOG.md:51` speaks of queued transmission.

Also seen: the comment at `dbschema.py:101` says that the end of a job is looked
up by `tid`; the code uses the topic. A row that cannot be closed makes o2s end
(`raise`, `o2s.py:685`), while a row that cannot be opened is logged.

Proved in `JobsProofs` for all constants: `TypeCorrect` and
`RunningIsTruthful`. The invariant adds `SavedBehind`: what the phone has saved
is the activity, or there is none and what is saved is halted, or the app is
failing and what is saved is the job whose end at `undone` was published. It
says what `Kill` brings back.

Proved in `JobsTableProofs`, also for all constants (any number of touches,
faults, jobs, and any lengths of the queues): `OpenRowsAreExcused`,
`RowsAreTruthful`, `RowsAreComplete` and `RetainedIsTruthful`, the other safety
invariants of `jobs`. They assume `JobsAssumption` alone: the job identifiers,
the pause, no job and `None` are different things and the bounds are numbers.

None of them is inductive, for each speaks of the table or the broker and the
reports that will change them are still under way. The invariant is therefore
about the whole line from the app to o2s, `Wire == down \o up \o queue`:

| Part | Holds | Says |
|---|---|---|
| `Faithful` | no end lost, no report repeated | `Matched`: every start under way and every open row is answered by the interval that the next end closes, or that is open, and no start comes before that end; one row at most is open. `Stored`: closed rows are intervals; of an open one o2s remembers the start or nothing |
| `Whole` | besides, no report lost, no restart | `Lined`: the rows are a beginning of the sheet and the starts under way are the rest of it in order. `Exact`: every length is there |
| `Excused` | always | `Bounded`: a function over the line bounds the open rows when the first k messages have been handled; it rises with a start, falls by one at most and only at an end, and ends at the excuses and the job that runs |
| `Rise`, `Idle`, `Flushed`, `Deaf` | always | starts of the sheet go up; no activity, nothing open; nothing is queued for a session that is connected; without the option nothing is remembered |

All but a few steps do one thing to the line: take something out of it
(`Thinned`: the broken connection, the clean session, the broker that nobody
subscribes to, o2s that restarts). So the argument has one lemma per part for a
line that is thinned (`ThinnedGood`), one for a message appended (a touch of the
worker, or `Repeated`) and one for a start and an end that is handled
(`Handled`). Where an end is lost or repeated the claim of `Faithful` is void,
and `Excused` shows that the excuse makes up for it.

For `RetainedIsTruthful` the invariant is `Known`: unless `stale`, the last
message of `up \o queue` that is not a report, or in its absence what is
retained, tells what the activity is, or is the end or the pause of the job
that runs `undone`. A kill brings back the saved activity, which shows the same
by `SavedBehind`.

`LineIsImplemented`, `Spec => ImplementsLine`, is proved for all constants as
well: each action says, loses, repeats or handles messages of the line, or
leaves it alone (`TouchSays`, `WorkerSays`, `ThinnedLoses`, `AgainRepeats`,
`PublishHeld`, `HandledEnters`). It needs the invariant above for two facts: no
message is queued while the session is connected, so that what is published
then goes to the end of the line, and what has been repeated or stored is kept.

`ReportsArrive` is liveness and only model-checked.

## 8. Mutants

The operators `Mut_X` stand before the definition `X` they vary: a dropped
guard, a lost condition of a WHERE clause, a missing or a swapped statement.
Each is a bug the property named in `PROJECT.json` finds; none is used by a
specification.

## 9. Not modelled

- Last location: one REPLACE per message in one thread. The last to arrive
  wins, whatever its time; there is no decision to check.
- `on_activejob`: the older callback, for devices that send no time. It has the
  branches of `on_currentjob`, with the server's clock.
- Hosted API: REST handlers over Sequelize. What interleaves there is decided
  by the library's callbacks and the isolation of a database whose schema is
  made elsewhere, neither of them in the repository. One hazard of it is listed at
  its line.
- m2s: one INSERT per message; no decision depends on an earlier one.
- Read-only programs (ctrld, pista web, wapp), pure decoding (CAN, DTC, base64,
  hashing), views and packaging.
- Vendored code, of which only what the modelled code relies on is stated:
  peewee's save, paho's queue, the MQTT clients of Prime and Activo (these in
  `Prime` and `Jobs`). Nine tenths of the C code of the repository is such
  (wolfSSL, mbed, Pods), so that the definitions of `PROJECT.json`, though they
  cover the programs above, are a small share of all lines.
