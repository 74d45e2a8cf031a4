----------------------------- MODULE OtapServer -----------------------------
(***************************************************************************)
(* The OTAP (over the air provisioning) server of OwnTracks Greenwich,     *)
(* otap/otap.py, its database, its directory of JAR files, the operators   *)
(* who drive it with otc.py and the devices that poll it.                  *)
(*                                                                         *)
(* A request is served by one worker of the WSGI server and is split into  *)
(* one step per access to the database or to the file system; the local    *)
(* variables of the handler are the fields of req[w].  The first access    *)
(* of a handler is made by the action that starts the request.             *)
(*                                                                         *)
(* peewee's Model.save() writes every column of the row, so a handler that *)
(* reads a row and saves it writes back what it read (req[w].row).         *)
(*                                                                         *)
(* Abstracted: the columns reported, lastcheck, tid, comment and flags,    *)
(* the versioncheck log and the MQTT notifications, none of which any      *)
(* handler's control depends on; the text of a parameter set; the key      *)
(* check (an operator here has the key).                                   *)
(***************************************************************************)
EXTENDS Integers

CONSTANTS
    Imeis,        \* devices, by IMEI
    Custids,      \* customers, the first component of a device's URIs
    Versions,     \* firmware versions, ordered as StrictVersion orders them
    Snames,       \* names of parameter sets
    Workers,      \* processes of the WSGI server
    CustomerOf,   \* the customer in the URIs a device is configured with
    Any,          \* deliver = '*': the highest version there is
    None,         \* SQL NULL, a missing row, Python's None
    MaxOps,       \* bound: requests the operators make
    MaxFaults     \* bound: responses lost and workers killed

Deliverables == Versions \cup {Any, None}
Row          == [custid : Custids, block : BOOLEAN, deliver : Deliverables]
Assignment   == [sname : Snames, once : BOOLEAN]

(* A set of versions that is not empty has a highest one: there are        *)
(* finitely many files.                                                    *)
ASSUME VersionsAssumption ==
    /\ Versions \subseteq Nat
    /\ \A J \in SUBSET Versions : J # {} => \E v \in J : \A u \in J : u <= v
ASSUME CustomerAssumption == CustomerOf \in [Imeis -> Custids]
ASSUME BoundAssumption    == MaxOps \in Nat /\ MaxFaults \in Nat
ASSUME NullAssumption ==
    /\ Any  \notin Versions
    /\ None \notin Versions \cup {Any} \cup Imeis \cup Snames \cup Row
                     \cup Assignment

VARIABLES
    jars,       \* versions of the files in cf.jardir
    otap,       \* table Otap: IMEI -> row
    settings,   \* table Settings: the names that are defined
    imeiset,    \* table Imeiset: IMEI -> the set assigned to it (imei is unique)
    req,        \* worker -> the request it is serving
    dev,        \* device -> firmware it runs and how far its upgrade is
    given,      \* observer: replies that carried the latest once-only assignment
    ops,        \* requests made by operators
    faults      \* losses and crashes so far

db   == <<jars, otap, settings, imeiset>>
vars == <<jars, otap, settings, imeiset, req, dev, given, ops, faults>>

Idle == [pc   |-> "idle", imei |-> None,  ver  |-> None,  cur  |-> None,
         row  |-> None,   sname |-> None, sets |-> None,  once |-> FALSE,
         up   |-> FALSE,  found |-> FALSE, live |-> FALSE, simu |-> FALSE]

PCs == {"idle", "add_save", "deliver_check", "deliver_get", "deliver_save",
        "purge_remove", "define_save", "undef_delete", "set_save", "row_save",
        "vc_list", "vc_save", "vc_sets", "vc_once", "vc_clear", "vc_reply",
        "jad_list", "jad_stat", "jad_reply", "jar_reply"}

Request == [pc   : PCs,
            imei : Imeis \cup {None},
            ver  : Deliverables,
            cur  : Versions \cup {None},
            row  : Row \cup {None},
            sname : Snames \cup {None},
            sets : Snames \cup {None},
            once : BOOLEAN,
            up   : BOOLEAN,
            found : BOOLEAN,
            live : BOOLEAN,    \* a device still waits for the reply
            simu : BOOLEAN]    \* the User-Agent is SIMU: otc versioncheck

Phases == {"run", "told", "jad", "notify"}
Device == [ver : Versions, phase : Phases, jad : Versions \cup {None}]

TypeOK ==
    /\ jars     \in SUBSET Versions
    /\ otap     \in [Imeis -> Row \cup {None}]
    /\ settings \in SUBSET Snames
    /\ imeiset  \in [Imeis -> Assignment \cup {None}]
    /\ req      \in [Workers -> Request]
    /\ dev      \in [Imeis -> Device]
    /\ given    \in [Imeis -> Nat]
    /\ ops      \in 0 .. MaxOps
    /\ faults   \in 0 .. MaxFaults

(* The tables have just been created and nothing has been uploaded; the    *)
(* devices left the factory with some firmware.                            *)
Init ==
    /\ jars     = {}
    /\ otap     = [i \in Imeis |-> None]
    /\ settings = {}
    /\ imeiset  = [i \in Imeis |-> None]
    /\ req      = [w \in Workers |-> Idle]
    /\ dev      \in [Imeis -> [ver : Versions, phase : {"run"}, jad : {None}]]
    /\ given    = [i \in Imeis |-> 0]
    /\ ops      = 0
    /\ faults   = 0

-----------------------------------------------------------------------------
(* The operations of a handler on its own request.                         *)

Serving(w, pc) == req[w].pc = pc
Begin(w, r)    == Serving(w, "idle") /\ req' = [req EXCEPT ![w] = r]
Go(w, pc)      == req' = [req EXCEPT ![w].pc = pc]
Finish(w)      == req' = [req EXCEPT ![w] = Idle]

(* A request of otc.py: no device waits for its reply.                     *)
Operator == ops < MaxOps /\ ops' = ops + 1
NoOperator == UNCHANGED ops

(* list_jars()[-1] of a non-empty directory                                *)
Highest(J) == CHOOSE v \in J : \A u \in J : u <= v

(* Otap.get(imei, custid): the row a device with these URIs is served from *)
Visible(i, c) == otap[i] # None /\ otap[i].custid = c

(* o.save(): every column of the copy overwrites the row.                  *)
SaveRow(i, row) == otap' = [otap EXCEPT ![i] = row]

-----------------------------------------------------------------------------
(* add_imei                                                                *)

AddImei(w, i, c) ==
    /\ Operator
    /\ Begin(w, [Idle EXCEPT !.pc = "add_save", !.imei = i,
                    !.row = IF otap[i] # None
                              THEN [otap[i] EXCEPT !.custid = c, !.block = FALSE]
                              ELSE [custid |-> c, block |-> FALSE, deliver |-> None],
                    !.found = otap[i] # None])
    /\ UNCHANGED <<db, dev, given, faults>>

(* An UPDATE when the row was there, else an INSERT, which the unique      *)
(* index refuses if the row has appeared meanwhile.                        *)
AddSave(w) ==
    /\ Serving(w, "add_save")
    /\ IF req[w].found \/ otap[req[w].imei] = None
         THEN SaveRow(req[w].imei, req[w].row)
         ELSE UNCHANGED otap
    /\ Finish(w)
    /\ UNCHANGED <<jars, settings, imeiset, dev, given, ops, faults>>

-----------------------------------------------------------------------------
(* deliver: a version, '*' (ANY) or 'latest', which is resolved at once    *)

Deliver(w, i, v) ==
    /\ Operator
    /\ Begin(w, [Idle EXCEPT !.pc = IF v = Any THEN "deliver_get" ELSE "deliver_check",
                             !.imei = i, !.ver = v])
    /\ UNCHANGED <<db, dev, given, faults>>

DeliverLatest(w, i) ==
    /\ jars # {}
    /\ Deliver(w, i, Highest(jars))

(* Mutant: the version is not looked for in the directory.                 *)
Mut_DeliverCheck(w) ==
    /\ Serving(w, "deliver_check")
    /\ Go(w, "deliver_get")
    /\ UNCHANGED <<db, dev, given, ops, faults>>

DeliverCheck(w) ==
    /\ Serving(w, "deliver_check")
    /\ IF req[w].ver \in jars THEN Go(w, "deliver_get") ELSE Finish(w)
    /\ UNCHANGED <<db, dev, given, ops, faults>>

DeliverGet(w) ==
    /\ Serving(w, "deliver_get")
    /\ LET row == otap[req[w].imei]
       IN  IF row = None
             THEN Finish(w)
             ELSE req' = [req EXCEPT ![w].pc = "deliver_save",
                                     ![w].row = [row EXCEPT !.deliver = req[w].ver]]
    /\ UNCHANGED <<db, dev, given, ops, faults>>

DeliverSave(w) ==
    /\ Serving(w, "deliver_save")
    /\ SaveRow(req[w].imei, req[w].row)
    /\ Finish(w)
    /\ UNCHANGED <<jars, settings, imeiset, dev, given, ops, faults>>

-----------------------------------------------------------------------------
(* purge, jarupload and block                                              *)

(* Mutant: blocked devices are not counted.                                *)
Mut_QueuedFor(v) ==
    {i \in Imeis : otap[i] # None /\ ~otap[i].block /\ otap[i].deliver = v}

QueuedFor(v) == {i \in Imeis : otap[i] # None /\ otap[i].deliver = v}

Purge(w, v) ==
    /\ Operator
    /\ QueuedFor(v) = {}
    /\ Begin(w, [Idle EXCEPT !.pc = "purge_remove", !.ver = v])
    /\ UNCHANGED <<db, dev, given, faults>>

PurgeRemove(w) ==
    /\ Serving(w, "purge_remove")
    /\ jars' = jars \ {req[w].ver}
    /\ Finish(w)
    /\ UNCHANGED <<otap, settings, imeiset, dev, given, ops, faults>>

(* The file is named after the MIDlet-Version in the manifest; an upload   *)
(* of a version that is there is refused, or with force replaces the file. *)
JarUpload(w, v) ==
    /\ Operator
    /\ Serving(w, "idle")
    /\ jars' = jars \cup {v}
    /\ UNCHANGED <<otap, settings, imeiset, req, dev, given, faults>>

(* One UPDATE statement, for one IMEI or for ALL.                          *)
Block(w, S, b) ==
    /\ Operator
    /\ Serving(w, "idle")
    /\ otap' = [i \in Imeis |-> IF i \in S /\ otap[i] # None
                                  THEN [otap[i] EXCEPT !.block = b]
                                  ELSE otap[i]]
    /\ UNCHANGED <<jars, settings, imeiset, req, dev, given, faults>>

(* setcomment and setflags read the row, set one column and save them all. *)
SetColumn(w, i) ==
    /\ Operator
    /\ otap[i] # None
    /\ Begin(w, [Idle EXCEPT !.pc = "row_save", !.imei = i, !.row = otap[i]])
    /\ UNCHANGED <<db, dev, given, faults>>

(* The o.save() that ends setcomment, setflags and otap_notify.            *)
RowSave(w) ==
    /\ Serving(w, "row_save")
    /\ SaveRow(req[w].imei, req[w].row)
    /\ Finish(w)
    /\ dev' = IF req[w].live THEN [dev EXCEPT ![req[w].imei].phase = "run"] ELSE dev
    /\ UNCHANGED <<jars, settings, imeiset, given, ops, faults>>

-----------------------------------------------------------------------------
(* s_define, s_undef and s_set                                             *)

(* The text of a set that exists is updated: only a new name is a change.  *)
SDefine(w, s) ==
    /\ Operator
    /\ s \notin settings
    /\ Begin(w, [Idle EXCEPT !.pc = "define_save", !.sname = s])
    /\ UNCHANGED <<db, dev, given, faults>>

DefineSave(w) ==
    /\ Serving(w, "define_save")
    /\ settings' = settings \cup {req[w].sname}
    /\ Finish(w)
    /\ UNCHANGED <<jars, otap, imeiset, dev, given, ops, faults>>

(* Mutant: once-only assignments are not counted.                          *)
Mut_AssignedTo(s) ==
    {i \in Imeis : imeiset[i] # None /\ ~imeiset[i].once /\ imeiset[i].sname = s}

AssignedTo(s) == {i \in Imeis : imeiset[i] # None /\ imeiset[i].sname = s}

SUndef(w, s) ==
    /\ Operator
    /\ AssignedTo(s) = {}
    /\ Begin(w, [Idle EXCEPT !.pc = "undef_delete", !.sname = s])
    /\ UNCHANGED <<db, dev, given, faults>>

UndefDelete(w) ==
    /\ Serving(w, "undef_delete")
    /\ settings' = settings \ {req[w].sname}
    /\ Finish(w)
    /\ UNCHANGED <<jars, otap, imeiset, dev, given, ops, faults>>

SSet(w, i, s, once) ==
    /\ Operator
    /\ s \in settings
    /\ Begin(w, [Idle EXCEPT !.pc = "set_save", !.imei = i, !.sname = s, !.once = once])
    /\ UNCHANGED <<db, dev, given, faults>>

(* imei is unique in Imeiset: a second assignment is refused.              *)
SetSave(w) ==
    LET i == req[w].imei IN
    /\ Serving(w, "set_save")
    /\ IF imeiset[i] = None
         THEN /\ imeiset' = [imeiset EXCEPT ![i] = [sname |-> req[w].sname,
                                                    once  |-> req[w].once]]
              /\ given' = [given EXCEPT ![i] = 0]
         ELSE UNCHANGED <<imeiset, given>>
    /\ Finish(w)
    /\ UNCHANGED <<jars, otap, settings, dev, ops, faults>>

SUnset(w, i, s) ==
    /\ Operator
    /\ Serving(w, "idle")
    /\ i \in AssignedTo(s)
    /\ imeiset' = [imeiset EXCEPT ![i] = None]
    /\ UNCHANGED <<jars, otap, settings, req, dev, given, faults>>

-----------------------------------------------------------------------------
(* versioncheck.  The reply of a device that is unknown, or known to       *)
(* another customer, is upgrade=0 without settings.                        *)

VersionCheck(w, i, c, cur, simu) ==
    /\ Begin(w, [Idle EXCEPT
            !.pc = IF ~Visible(i, c)              THEN "vc_reply"
                   ELSE IF otap[i].deliver = Any  THEN "vc_list"
                   ELSE                                "vc_save",
            !.imei = i, !.cur = cur, !.simu = simu, !.live = ~simu,
            !.row  = IF Visible(i, c) THEN otap[i] ELSE None,
            !.ver  = IF Visible(i, c) THEN otap[i].deliver ELSE None])
    /\ UNCHANGED <<db, dev, given, faults>>

(* list_jars()[-1] of an empty directory raises IndexError, caught by the  *)
(* handler: the rest of its body, save and settings included, is skipped.  *)
VcList(w) ==
    /\ Serving(w, "vc_list")
    /\ IF jars = {}
         THEN Go(w, "vc_reply")
         ELSE req' = [req EXCEPT ![w].pc = "vc_save", ![w].ver = Highest(jars)]
    /\ UNCHANGED <<db, dev, given, ops, faults>>

(* Mutants: the block does not stop an upgrade; a device that must upgrade *)
(* is not sent its settings; it is not, but they are cleared; only a       *)
(* higher version is an upgrade.                                           *)
Mut_VcSave(w, up, next) ==
    LET r == req[w] IN
    /\ Serving(w, "vc_save")
    /\ IF r.simu THEN UNCHANGED otap ELSE SaveRow(r.imei, r.row)
    /\ req' = [req EXCEPT ![w].up = up, ![w].pc = next]
    /\ UNCHANGED <<jars, settings, imeiset, dev, given, ops, faults>>

Mut_Offered(r)  == r.row.deliver # None /\ r.cur # r.ver
Mut_Skips(r, p) == IF r.row.block THEN "vc_reply"
                   ELSE IF Mut_Offered(r) THEN p ELSE "vc_sets"

Mut_VcSaveBlocked(w) ==
    Mut_VcSave(w, Mut_Offered(req[w]), IF req[w].row.block THEN "vc_reply" ELSE "vc_sets")
Mut_VcSaveNoSettings(w) ==
    Mut_VcSave(w, ~req[w].row.block /\ Mut_Offered(req[w]), Mut_Skips(req[w], "vc_reply"))
Mut_VcSaveClears(w) ==
    Mut_VcSave(w, ~req[w].row.block /\ Mut_Offered(req[w]), Mut_Skips(req[w], "vc_once"))
Mut_VcSaveHigher(w) ==
    Mut_VcSave(w, ~req[w].row.block /\ req[w].row.deliver # None /\ req[w].cur < req[w].ver,
               IF req[w].row.block THEN "vc_reply" ELSE "vc_sets")

(* Mutant: what a device has been offered is queued for it no longer.      *)
Mut_VcSaveUnqueues(w) ==
    LET r == req[w] IN
    /\ Serving(w, "vc_save")
    /\ IF r.simu THEN UNCHANGED otap ELSE SaveRow(r.imei, [r.row EXCEPT !.deliver = None])
    /\ req' = [req EXCEPT
            ![w].up = ~r.row.block /\ r.row.deliver # None /\ r.cur # r.ver,
            ![w].pc = IF r.row.block THEN "vc_reply" ELSE "vc_sets"]
    /\ UNCHANGED <<jars, settings, imeiset, dev, given, ops, faults>>

VcSave(w) ==
    LET r == req[w] IN
    /\ Serving(w, "vc_save")
    /\ IF r.simu THEN UNCHANGED otap ELSE SaveRow(r.imei, r.row)
    /\ req' = [req EXCEPT
            ![w].up = ~r.row.block /\ r.row.deliver # None /\ r.cur # r.ver,
            ![w].pc = IF r.row.block THEN "vc_reply" ELSE "vc_sets"]
    /\ UNCHANGED <<jars, settings, imeiset, dev, given, ops, faults>>

(* imei_settings: Settings joined with Imeiset                             *)
ImeiSettings(i) ==
    IF imeiset[i] # None /\ imeiset[i].sname \in settings THEN imeiset[i].sname ELSE None

(* Mutant: a simulated device is not told from a real one.                 *)
Mut_VcSettings(w) ==
    /\ Serving(w, "vc_sets")
    /\ req' = [req EXCEPT ![w].sets = ImeiSettings(req[w].imei), ![w].pc = "vc_once"]
    /\ UNCHANGED <<db, dev, given, ops, faults>>

VcSettings(w) ==
    /\ Serving(w, "vc_sets")
    /\ req' = [req EXCEPT ![w].sets = ImeiSettings(req[w].imei),
                          ![w].pc = IF req[w].simu THEN "vc_reply" ELSE "vc_once"]
    /\ UNCHANGED <<db, dev, given, ops, faults>>

(* Mutants: every assignment is once-only; none is.                        *)
Mut_VcOnceAll(w) ==
    /\ Serving(w, "vc_once")
    /\ IF imeiset[req[w].imei] # None
         THEN req' = [req EXCEPT ![w].once = TRUE, ![w].pc = "vc_clear"]
         ELSE Go(w, "vc_reply")
    /\ UNCHANGED <<db, dev, given, ops, faults>>

Mut_VcOnceNone(w) ==
    /\ Serving(w, "vc_once")
    /\ Go(w, "vc_reply")
    /\ UNCHANGED <<db, dev, given, ops, faults>>

VcOnce(w) ==
    LET a == imeiset[req[w].imei] IN
    /\ Serving(w, "vc_once")
    /\ IF a # None /\ a.once
         THEN req' = [req EXCEPT ![w].once = TRUE, ![w].pc = "vc_clear"]
         ELSE Go(w, "vc_reply")
    /\ UNCHANGED <<db, dev, given, ops, faults>>

(* Mutants: the assignment is not deleted; every device's is.              *)
Mut_VcClearNone(w) ==
    /\ Serving(w, "vc_clear")
    /\ Go(w, "vc_reply")
    /\ UNCHANGED <<db, dev, given, ops, faults>>

Mut_VcClearAll(w) ==
    /\ Serving(w, "vc_clear")
    /\ imeiset' = [i \in Imeis |-> None]
    /\ Go(w, "vc_reply")
    /\ UNCHANGED <<jars, otap, settings, dev, given, ops, faults>>

VcClear(w) ==
    /\ Serving(w, "vc_clear")
    /\ imeiset' = [imeiset EXCEPT ![req[w].imei] = None]
    /\ Go(w, "vc_reply")
    /\ UNCHANGED <<jars, otap, settings, dev, given, ops, faults>>

(* The response leaves the server; a device that was told to upgrade will. *)
VcReply(w) ==
    LET r == req[w] IN
    /\ Serving(w, "vc_reply")
    /\ given' = IF r.once /\ r.sets # None
                  THEN [given EXCEPT ![r.imei] = @ + 1] ELSE given
    /\ dev' = IF r.live /\ r.up THEN [dev EXCEPT ![r.imei].phase = "told"] ELSE dev
    /\ Finish(w)
    /\ UNCHANGED <<db, ops, faults>>

-----------------------------------------------------------------------------
(* otap_get (the JAD descriptor) and jarfile (the JAR itself)              *)

(* Mutant: the row is looked up by IMEI alone.                             *)
Mut_OtapGet(w, i, c) ==
    LET deliver == IF otap[i] # None /\ ~otap[i].block THEN otap[i].deliver ELSE None IN
    /\ Begin(w, [Idle EXCEPT
            !.pc = IF deliver = None     THEN "jad_reply"
                   ELSE IF deliver = Any THEN "jad_list"
                   ELSE                       "jad_stat",
            !.imei = i, !.ver = deliver, !.live = TRUE])
    /\ UNCHANGED <<db, dev, given, faults>>

OtapGet(w, i, c) ==
    LET deliver == IF Visible(i, c) /\ ~otap[i].block THEN otap[i].deliver ELSE None IN
    /\ Begin(w, [Idle EXCEPT
            !.pc = IF deliver = None     THEN "jad_reply"
                   ELSE IF deliver = Any THEN "jad_list"
                   ELSE                       "jad_stat",
            !.imei = i, !.ver = deliver, !.live = TRUE])
    /\ UNCHANGED <<db, dev, given, faults>>

(* Here the IndexError of an empty directory is not caught: status 500.    *)
JadList(w) ==
    /\ Serving(w, "jad_list")
    /\ IF jars = {}
         THEN req' = [req EXCEPT ![w].pc = "jad_reply", ![w].ver = None]
         ELSE req' = [req EXCEPT ![w].pc = "jad_stat", ![w].ver = Highest(jars)]
    /\ UNCHANGED <<db, dev, given, ops, faults>>

JadStat(w) ==
    /\ Serving(w, "jad_stat")
    /\ req' = [req EXCEPT ![w].pc = "jad_reply",
                          ![w].ver = IF req[w].ver \in jars THEN @ ELSE None]
    /\ UNCHANGED <<db, dev, given, ops, faults>>

JadReply(w) ==
    LET r == req[w] IN
    /\ Serving(w, "jad_reply")
    /\ dev' = IF r.live
                THEN [dev EXCEPT ![r.imei].phase = IF r.ver = None THEN "run" ELSE "jad",
                                 ![r.imei].jad   = r.ver]
                ELSE dev
    /\ Finish(w)
    /\ UNCHANGED <<db, given, ops, faults>>

(* The jarURL of the JAD names the version; nothing but the file matters.  *)
JarFile(w, i, v) ==
    /\ Begin(w, [Idle EXCEPT !.pc = "jar_reply", !.imei = i, !.live = TRUE,
                             !.ver = IF v \in jars THEN v ELSE None])
    /\ UNCHANGED <<db, dev, given, faults>>

(* Mutant: a 404 is not told from a file.                                  *)
Mut_JarReply(w) ==
    LET r == req[w] IN
    /\ Serving(w, "jar_reply")
    /\ dev' = IF r.live
                THEN [dev EXCEPT ![r.imei] =
                        [ver |-> r.ver, phase |-> "notify", jad |-> None]]
                ELSE dev
    /\ Finish(w)
    /\ UNCHANGED <<db, given, ops, faults>>

(* The device installs what it downloaded, or gives up on a 404.           *)
JarReply(w) ==
    LET r == req[w] IN
    /\ Serving(w, "jar_reply")
    /\ dev' = CASE ~r.live      -> dev
                [] r.ver = None -> [dev EXCEPT ![r.imei].phase = "run",
                                               ![r.imei].jad = None]
                [] OTHER        -> [dev EXCEPT ![r.imei] =
                                     [ver |-> r.ver, phase |-> "notify", jad |-> None]]
    /\ Finish(w)
    /\ UNCHANGED <<db, given, ops, faults>>

(* otap_notify: the result of the upgrade; the row, if there, is saved.    *)
OtapNotify(w, i, c) ==
    /\ IF Visible(i, c)
         THEN /\ Begin(w, [Idle EXCEPT !.pc = "row_save", !.imei = i,
                                       !.row = otap[i], !.live = TRUE])
              /\ UNCHANGED dev
         ELSE /\ Serving(w, "idle")
              /\ dev' = [dev EXCEPT ![i].phase = "run"]
              /\ UNCHANGED req
    /\ UNCHANGED <<db, given, faults>>

-----------------------------------------------------------------------------
(* The devices (firmware, not in this repository): one request at a time,  *)
(* always to the URIs of the customer they are configured for.             *)

Waiting(i) == \E w \in Workers : req[w].live /\ req[w].imei = i

DeviceRequest(w, i) ==
    /\ ~Waiting(i)
    /\ NoOperator
    /\ \/ dev[i].phase = "run"    /\ VersionCheck(w, i, CustomerOf[i], dev[i].ver, FALSE)
       \/ dev[i].phase = "told"   /\ OtapGet(w, i, CustomerOf[i])
       \/ dev[i].phase = "jad"    /\ JarFile(w, i, dev[i].jad)
       \/ dev[i].phase = "notify" /\ OtapNotify(w, i, CustomerOf[i])

(* The device that waits for w gives up and goes back to polling.          *)
Disconnect(w) ==
    dev' = IF req[w].live
             THEN [dev EXCEPT ![req[w].imei].phase = "run", ![req[w].imei].jad = None]
             ELSE dev

(* The response is lost: the handler still runs to its end.                *)
LoseReply(w) ==
    /\ faults < MaxFaults
    /\ faults' = faults + 1
    /\ req[w].live
    /\ req' = [req EXCEPT ![w].live = FALSE]
    /\ Disconnect(w)
    /\ UNCHANGED <<db, given, ops>>

(* The worker is killed or reloaded between two accesses.                  *)
Crash(w) ==
    /\ faults < MaxFaults
    /\ faults' = faults + 1
    /\ ~Serving(w, "idle")
    /\ Finish(w)
    /\ Disconnect(w)
    /\ UNCHANGED <<db, given, ops>>

-----------------------------------------------------------------------------
OperatorRequest(w) ==
    \/ \E i \in Imeis, c \in Custids : AddImei(w, i, c)
    \/ \E i \in Imeis, v \in Versions \cup {Any} : Deliver(w, i, v)
    \/ \E i \in Imeis : DeliverLatest(w, i)
    \/ \E v \in Versions : Purge(w, v)
    \/ \E v \in Versions : JarUpload(w, v)
    \/ \E S \in {{i} : i \in Imeis} \cup {Imeis}, b \in BOOLEAN : Block(w, S, b)
    \/ \E i \in Imeis : SetColumn(w, i)
    \/ \E s \in Snames : SDefine(w, s)
    \/ \E s \in Snames : SUndef(w, s)
    \/ \E i \in Imeis, s \in Snames, once \in BOOLEAN : SSet(w, i, s, once)
    \/ \E i \in Imeis, s \in Snames : SUnset(w, i, s)
    \/ \E i \in Imeis, c \in Custids, cur \in Versions :
            Operator /\ VersionCheck(w, i, c, cur, TRUE)

HandlerStep(w) ==
    \/ AddSave(w)
    \/ DeliverCheck(w) \/ DeliverGet(w) \/ DeliverSave(w)
    \/ PurgeRemove(w)
    \/ RowSave(w)
    \/ DefineSave(w) \/ UndefDelete(w) \/ SetSave(w)
    \/ VcList(w) \/ VcSave(w) \/ VcSettings(w) \/ VcOnce(w) \/ VcClear(w) \/ VcReply(w)
    \/ JadList(w) \/ JadStat(w) \/ JadReply(w)
    \/ JarReply(w)

Next ==
    \E w \in Workers :
        \/ OperatorRequest(w)
        \/ \E i \in Imeis : DeviceRequest(w, i)
        \/ HandlerStep(w)
        \/ LoseReply(w)
        \/ Crash(w)

Spec == Init /\ [][Next]_vars

(* A worker runs its handler to the end; a device polls every              *)
(* versionInterval seconds for ever and its connection waits in the        *)
(* listen queue of a busy server until it is accepted.                     *)
Fairness ==
    /\ \A w \in Workers : WF_vars(HandlerStep(w))
    /\ \A i \in Imeis : SF_vars(\E w \in Workers : DeviceRequest(w, i))

FairSpec == Spec /\ Fairness

-----------------------------------------------------------------------------
(* The inductive invariant.  What a handler's local variables hold at each *)
(* of its steps, whoever else is being served:                             *)
WithImei == PCs \ {"idle", "purge_remove", "define_save", "undef_delete"}
WithRow  == {"add_save", "deliver_save", "row_save", "vc_list", "vc_save"}

Shape(r) ==
    /\ r.pc \in WithImei => r.imei \in Imeis
    /\ r.pc \in WithRow => r.row \in Row
    /\ r.pc \in {"define_save", "undef_delete", "set_save"} => r.sname \in Snames
    /\ r.pc \in {"deliver_check", "jad_stat", "purge_remove"} => r.ver \in Versions
    /\ r.pc \in {"deliver_get", "deliver_save"} => r.ver \in Versions \cup {Any}
    /\ r.pc \in {"jad_reply", "jar_reply"} => r.ver \in Versions \cup {None}
    /\ r.live => r.pc \in WithImei

(* and, with one worker, that they still agree with the tables they were   *)
(* read from, and that a condition that was checked still holds when the   *)
(* write that relies on it is made:                                        *)
Fresh(w) ==
    LET r == req[w] IN
    /\ r.pc = "add_save" =>
          /\ r.found <=> otap[r.imei] # None
          /\ ~r.row.block
          /\ r.row.deliver = IF r.found THEN otap[r.imei].deliver ELSE None
    /\ r.pc \in {"deliver_get", "deliver_save"} => r.ver \in jars \cup {Any}
    /\ r.pc = "deliver_save" =>
          otap[r.imei] # None /\ r.row = [otap[r.imei] EXCEPT !.deliver = r.ver]
    /\ r.pc \in {"row_save", "vc_list", "vc_save"} =>
          otap[r.imei] # None /\ r.row = otap[r.imei]
    /\ r.pc = "purge_remove" => QueuedFor(r.ver) = {}
    /\ r.pc = "undef_delete" => AssignedTo(r.sname) = {}
    /\ r.pc = "set_save" => r.sname \in settings
    /\ r.pc \in {"vc_sets", "vc_once", "vc_clear"} =>
          otap[r.imei] # None /\ ~otap[r.imei].block
    /\ r.pc = "vc_once" => r.sets = ImeiSettings(r.imei)
    /\ r.pc = "vc_clear" =>
          /\ imeiset[r.imei] # None /\ imeiset[r.imei].once
          /\ r.sets = imeiset[r.imei].sname
    /\ r.pc \in {"vc_list", "vc_save", "vc_sets", "vc_once"} => ~r.once
    /\ r.pc = "vc_reply" /\ r.once =>
          imeiset[r.imei] = None /\ given[r.imei] = 0

(* Every version that is queued for a device is in the JAR directory: what *)
(* the check of deliver and the count of purge keep true together          *)
(* (otap.py:252-266, 286-301), whatever else saves rows meanwhile.         *)
DeliverHasJar ==
    \A i \in Imeis : otap[i] # None => otap[i].deliver \in jars \cup {Any, None}

(* A parameter set that is assigned to a device is defined: s_undef counts *)
(* the assignments, s_set looks the name up (otap.py:613-622, 660-670).    *)
NoDanglingSet ==
    \A i \in Imeis : imeiset[i] # None => imeiset[i].sname \in settings

(* A once-only assignment that is still in the table has not been handed   *)
(* out.                                                                    *)
NotYetGiven ==
    \A i \in Imeis :
        /\ given[i] <= 1
        /\ imeiset[i] # None /\ imeiset[i].once => given[i] = 0

Consistent ==
    /\ TypeOK
    /\ \A w \in Workers : Shape(req[w]) /\ Fresh(w)
    /\ DeliverHasJar
    /\ NoDanglingSet
    /\ NotYetGiven

(* set --once hands the parameter set to the device once only: no          *)
(* assignment is carried by two replies, although it is deleted in a step  *)
(* after the one that read it and the worker may die between the two.      *)
OnceOnly == \A i \in Imeis : given[i] <= 1

(* versioncheck never discards a once-only assignment it is not about to   *)
(* hand out: what vc_clear deletes is what the reply will carry.           *)
ClearedIsHandedOut ==
    \A w \in Workers : Serving(w, "vc_clear") =>
        /\ imeiset[req[w].imei] # None
        /\ req[w].sets = imeiset[req[w].imei].sname

(* "Device is not being blocked, but it may have settings we want to push. *)
(* Do it" (otap.py:775): when versioncheck is about to answer a device     *)
(* that is registered and not blocked, an assignment that is still there   *)
(* is in the reply.                                                        *)
SettingsPushed ==
    \A w \in Workers :
        LET i == req[w].imei IN
        Serving(w, "vc_reply") /\ req[w].row # None /\ imeiset[i] # None =>
            otap[i].block \/ req[w].sets = imeiset[i].sname

(* The same where it is true: '*' has a JAR to stand for.                  *)
SettingsPushedWithJars ==
    \A w \in Workers :
        LET i == req[w].imei IN
        Serving(w, "vc_reply") /\ req[w].row # None /\ imeiset[i] # None =>
            \/ otap[i].block
            \/ otap[i].deliver = Any /\ jars = {}
            \/ req[w].sets = imeiset[i].sname

(* A device is told to upgrade, and is given a JAD, only while its row     *)
(* exists under the customer it asked for, is not blocked and queues       *)
(* something; the JAD is for the version queued, or for the highest JAR if *)
(* that is '*', and the JAR is there at that moment.  The decision is      *)
(* taken several accesses before the reply that acts on it.                *)
Entitled(i) ==
    /\ Visible(i, CustomerOf[i])
    /\ ~otap[i].block
    /\ otap[i].deliver # None

OffersFollowTheRow ==
    [][\A i \in Imeis :
         /\ dev[i].phase # "told" /\ dev'[i].phase = "told" => Entitled(i)
         /\ dev[i].phase # "jad" /\ dev'[i].phase = "jad" =>
                /\ Entitled(i)
                /\ dev'[i].jad \in jars
                /\ dev'[i].jad = IF otap[i].deliver = Any THEN Highest(jars)
                                                           ELSE otap[i].deliver]_vars

(* A device that polls uses up nothing but a once-only assignment of its   *)
(* own, while it is registered and not blocked: a permanent one stays      *)
(* until an operator takes it away.                                        *)
PermanentStays ==
    [][ops' = ops => \A i \in Imeis :
         imeiset[i] # None /\ imeiset'[i] # imeiset[i] =>
            /\ imeiset[i].once /\ imeiset'[i] = None
            /\ otap[i] # None /\ ~otap[i].block]_vars

(* otc versioncheck simulates a device: it moves no row, consumes no       *)
(* once-only assignment and triggers no upgrade.                           *)
SimulationIsReadOnly ==
    [][\A w \in Workers : req[w].simu /\ req'[w] # req[w] => UNCHANGED <<db, dev, given>>]_vars

(* The command of an operator that a request still has to carry out.       *)
Asking(r) ==
    CASE r.pc = "add_save"     -> <<"add", r.imei, r.row.custid>>
      [] r.pc \in {"deliver_check", "deliver_get", "deliver_save"}
                               -> <<"deliver", r.imei, r.ver>>
      [] r.pc = "purge_remove" -> <<"purge", r.ver>>
      [] r.pc = "define_save"  -> <<"define", r.sname>>
      [] r.pc = "undef_delete" -> <<"undef", r.sname>>
      [] r.pc = "set_save"     -> <<"set", r.imei, r.sname, r.once>>
      [] OTHER                 -> None

Asked == [w \in Workers |-> Asking(req[w])]

(* With one worker the handlers, for all their separate reads and writes,  *)
(* are the indivisible commands of OtapPolicy: the rows, the JARs and the  *)
(* parameter sets change only as an operator has asked, once for each time *)
(* he asked, and a device by itself changes nothing but a once-only        *)
(* assignment, which it uses up: no poll or report saves a stale copy of a *)
(* row, and none clears a permanent assignment.                            *)
Policy == INSTANCE OtapPolicy WITH
              jars <- jars, otap <- otap, settings <- settings, imeiset <- imeiset,
              asked <- Asked, count <- ops, faults <- faults
ImplementsPolicy == Policy!Spec

(* What device i should end up running, or None if nothing is queued.      *)
Target(i) ==
    IF ~Entitled(i) THEN None
    ELSE IF otap[i].deliver # Any THEN otap[i].deliver
    ELSE IF jars = {} THEN None ELSE Highest(jars)

(* Once the operators have stopped and faults have ended, every device     *)
(* that is entitled to an upgrade runs the version queued for it, however  *)
(* many replies were lost and whatever was purged between JAD and JAR.     *)
Convergence ==
    \A i \in Imeis : <>[](Target(i) # None => dev[i].ver = Target(i))

(* A once-only assignment does not linger: it is handed out, withdrawn, or *)
(* its device has been blocked, moved away or left with '*' and no JARs.   *)
OnceIsSpent ==
    \A i \in Imeis :
        (imeiset[i] # None /\ imeiset[i].once) ~>
            \/ imeiset[i] = None
            \/ ~Visible(i, CustomerOf[i]) \/ otap[i].block
            \/ otap[i].deliver = Any /\ jars = {}
=============================================================================
