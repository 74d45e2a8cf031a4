-------------------------- MODULE OtapPolicyProofs --------------------------
(* With one worker the handlers of OtapServer keep what they promise, and  *)
(* implement the indivisible commands of OtapPolicy.                       *)
EXTENDS OtapServerProofs

(* The server runs one worker: wsgiref's single thread, or uWSGI without   *)
(* a processes setting.                                                    *)
OneWorker == \A v, w \in Workers : v = w

Facts ==
    /\ \A w \in Workers : Fresh(w)
    /\ DeliverHasJar
    /\ NoDanglingSet
    /\ NotYetGiven

(* The steps at which a handler relies on something it read before         *)
Relying == {"add_save", "deliver_get", "deliver_save", "row_save", "purge_remove",
            "undef_delete", "set_save", "vc_list", "vc_save", "vc_sets", "vc_once",
            "vc_clear", "vc_reply"}

LEMMA NotRelying ==
  ASSUME NEW w \in Workers, req'[w].pc \notin Relying
  PROVE  Fresh(w)'
  BY DEF Fresh, Relying

LEMMA OnlyWorker ==
  ASSUME OneWorker, NEW w \in Workers, Fresh(w)'
  PROVE  (\A v \in Workers : Fresh(v))'
  BY DEF OneWorker

(* A step that writes no table keeps the facts about tables.               *)
LEMMA QuietStep ==
  ASSUME OneWorker, Facts, NEW w \in Workers, Fresh(w)', UNCHANGED <<db, given>>
  PROVE  Facts'
  <1>1. DeliverHasJar' /\ NoDanglingSet' /\ NotYetGiven'
    BY DEF Facts, DeliverHasJar, NoDanglingSet, NotYetGiven, db
  <1>2. (\A v \in Workers : Fresh(v))'
    BY OnlyWorker
  <1> QED BY <1>1, <1>2 DEF Facts

LEMMA BegunRequest ==
  ASSUME Typed, NEW w \in Workers, NEW r, Begin(w, r)
  PROVE  req'[w] = r
  BY DEF Begin, Typed, TypeOK

LEMMA FinishedRequest ==
  ASSUME Typed, NEW w \in Workers, Finish(w)
  PROVE  Fresh(w)'
  <1>1. req'[w].pc = "idle"
    BY DEF Finish, Typed, TypeOK, Idle
  <1> QED BY <1>1, NotRelying DEF Relying

-----------------------------------------------------------------------------
LEMMA FactsInit == Init => Facts
  BY DEF Init, Facts, Fresh, DeliverHasJar, NoDanglingSet, NotYetGiven, Idle

LEMMA FactsVersionCheck ==
  ASSUME OneWorker, Typed, Facts, NEW w \in Workers, NEW i \in Imeis, NEW c \in Custids,
         NEW cur, NEW simu \in BOOLEAN, VersionCheck(w, i, c, cur, simu)
  PROVE  Facts'
  <1> DEFINE pc   == IF ~Visible(i, c)              THEN "vc_reply"
                     ELSE IF otap[i].deliver = Any  THEN "vc_list"
                     ELSE                                "vc_save"
             row  == IF Visible(i, c) THEN otap[i] ELSE None
             ver  == IF Visible(i, c) THEN otap[i].deliver ELSE None
             live == ~simu
             r    == [Idle EXCEPT !.pc = pc, !.imei = i, !.cur = cur, !.simu = simu,
                                  !.live = live, !.row = row, !.ver = ver]
  <1>0. Begin(w, r)
    BY DEF VersionCheck
  <1> HIDE DEF pc, row, ver, live
  <1>1. req'[w].pc = pc /\ req'[w].imei = i /\ req'[w].row = row /\ ~req'[w].once
    <2>1. req'[w] = r
      BY <1>0, BegunRequest
    <2> QED BY <2>1 DEF Idle
  <1>2. UNCHANGED <<db, given>>
    BY DEF VersionCheck
  <1>3. Fresh(w)'
    <2>1. CASE Visible(i, c)
      <3>1. req'[w].pc \in {"vc_list", "vc_save"} /\ req'[w].row = otap[i] /\ otap[i] # None
        BY <1>1, <2>1 DEF Visible, pc, row
      <3> QED BY <1>1, <1>2, <3>1 DEF Fresh, db
    <2>2. CASE ~Visible(i, c)
      BY <1>1, <1>2, <2>2 DEF Fresh, pc
    <2> QED BY <2>1, <2>2
  <1> QED BY <1>2, <1>3, QuietStep

(* Requests of the operators                                               *)
LEMMA FactsOperator ==
  ASSUME OneWorker, Typed, Facts, NEW w \in Workers, OperatorRequest(w)
  PROVE  Facts'
  <1>1. ASSUME NEW i \in Imeis, NEW c \in Custids, AddImei(w, i, c)
        PROVE  Facts'
    <2> DEFINE row   == IF otap[i] # None
                          THEN [otap[i] EXCEPT !.custid = c, !.block = FALSE]
                          ELSE [custid |-> c, block |-> FALSE, deliver |-> None]
               found == otap[i] # None
               r     == [Idle EXCEPT !.pc = "add_save", !.imei = i, !.row = row,
                                     !.found = found]
    <2>1. Begin(w, r)
      BY <1>1 DEF AddImei
    <2>2. ~row.block /\ row.deliver = IF found THEN otap[i].deliver ELSE None
      BY RowOf DEF Row
    <2> HIDE DEF row, found
    <2>3. /\ req'[w].pc = "add_save" /\ req'[w].imei = i
          /\ req'[w].row = row /\ req'[w].found = found
      <3>1. req'[w] = r
        BY <2>1, BegunRequest
      <3> QED BY <3>1 DEF Idle
    <2>4. otap' = otap
      BY <1>1 DEF AddImei, db
    <2>5. found <=> otap'[i] # None
      BY <2>4 DEF found
    <2>6. Fresh(w)'
      BY <2>2, <2>3, <2>4, <2>5 DEF Fresh
    <2> QED BY <1>1, <2>6, QuietStep DEF AddImei
  <1>2. ASSUME NEW i \in Imeis, NEW v \in Versions \cup {Any}, Deliver(w, i, v)
        PROVE  Facts'
    <2> DEFINE pc == IF v = Any THEN "deliver_get" ELSE "deliver_check"
               r  == [Idle EXCEPT !.pc = pc, !.imei = i, !.ver = v]
    <2>0. Begin(w, r)
      BY <1>2 DEF Deliver
    <2> HIDE DEF pc
    <2>1. req'[w].pc = pc /\ req'[w].ver = v
      <3>1. req'[w] = r
        BY <2>0, BegunRequest
      <3> QED BY <3>1 DEF Idle
    <2>2. Fresh(w)'
      BY <1>2, <2>1 DEF Fresh, Deliver, db, pc
    <2> QED BY <1>2, <2>2, QuietStep DEF Deliver
  <1>3. ASSUME NEW i \in Imeis, DeliverLatest(w, i)
        PROVE  Facts'
    <2>1. Highest(jars) \in Versions
      BY <1>3, HighestIsThere DEF DeliverLatest, Typed, TypeOK
    <2> QED BY <1>2, <1>3, <2>1 DEF DeliverLatest
  <1>4. ASSUME NEW v \in Versions, Purge(w, v)
        PROVE  Facts'
    <2>1. req'[w].pc = "purge_remove" /\ req'[w].ver = v
      BY <1>4, BegunRequest DEF Purge, Idle
    <2>2. Fresh(w)'
      BY <1>4, <2>1 DEF Fresh, Purge, QueuedFor, db
    <2> QED BY <1>4, <2>2, QuietStep DEF Purge
  <1>5. ASSUME NEW v \in Versions, JarUpload(w, v)
        PROVE  Facts'
    <2>1. Fresh(w)'
      BY <1>5, NotRelying DEF JarUpload, Serving, Relying
    <2>2. (\A u \in Workers : Fresh(u))'
      BY <2>1, OnlyWorker
    <2>3. DeliverHasJar' /\ NoDanglingSet' /\ NotYetGiven'
      BY <1>5 DEF JarUpload, Facts, DeliverHasJar, NoDanglingSet, NotYetGiven
    <2> QED BY <2>2, <2>3 DEF Facts
  <1>6. ASSUME NEW S \in SUBSET Imeis, NEW b \in BOOLEAN, Block(w, S, b)
        PROVE  Facts'
    <2>1. Fresh(w)'
      BY <1>6, NotRelying DEF Block, Serving, Relying
    <2>2. (\A u \in Workers : Fresh(u))'
      BY <2>1, OnlyWorker
    <2>3. ASSUME NEW i \in Imeis, otap'[i] # None
          PROVE  otap[i] # None /\ otap'[i].deliver = otap[i].deliver
      BY <1>6, <2>3, RowOf, NullAssumption DEF Block, Row
    <2>4. DeliverHasJar' /\ NoDanglingSet' /\ NotYetGiven'
      BY <1>6, <2>3 DEF Block, Facts, DeliverHasJar, NoDanglingSet, NotYetGiven
    <2> QED BY <2>2, <2>4 DEF Facts
  <1>7. ASSUME NEW i \in Imeis, SetColumn(w, i)
        PROVE  Facts'
    <2> DEFINE row == otap[i]
               r   == [Idle EXCEPT !.pc = "row_save", !.imei = i, !.row = row]
    <2>0. Begin(w, r)
      BY <1>7 DEF SetColumn
    <2> HIDE DEF row
    <2>1. req'[w].pc = "row_save" /\ req'[w].imei = i /\ req'[w].row = row
      <3>1. req'[w] = r
        BY <2>0, BegunRequest
      <3> QED BY <3>1 DEF Idle
    <2>2. Fresh(w)'
      BY <1>7, <2>1 DEF Fresh, SetColumn, db, row
    <2> QED BY <1>7, <2>2, QuietStep DEF SetColumn
  <1>8. ASSUME NEW s \in Snames, SDefine(w, s)
        PROVE  Facts'
    <2>1. req'[w].pc = "define_save"
      BY <1>8, BegunRequest DEF SDefine, Idle
    <2> QED BY <1>8, <2>1, NotRelying, QuietStep DEF SDefine, Relying
  <1>9. ASSUME NEW s \in Snames, SUndef(w, s)
        PROVE  Facts'
    <2>1. req'[w].pc = "undef_delete" /\ req'[w].sname = s
      BY <1>9, BegunRequest DEF SUndef, Idle
    <2>2. Fresh(w)'
      BY <1>9, <2>1 DEF Fresh, SUndef, AssignedTo, db
    <2> QED BY <1>9, <2>2, QuietStep DEF SUndef
  <1>10. ASSUME NEW i \in Imeis, NEW s \in Snames, NEW once \in BOOLEAN, SSet(w, i, s, once)
         PROVE  Facts'
    <2>1. req'[w].pc = "set_save" /\ req'[w].sname = s
      BY <1>10, BegunRequest DEF SSet, Idle
    <2>2. Fresh(w)'
      BY <1>10, <2>1 DEF Fresh, SSet, db
    <2> QED BY <1>10, <2>2, QuietStep DEF SSet
  <1>11. ASSUME NEW i \in Imeis, NEW s \in Snames, SUnset(w, i, s)
         PROVE  Facts'
    <2>1. Fresh(w)'
      BY <1>11, NotRelying DEF SUnset, Serving, Relying
    <2>2. (\A u \in Workers : Fresh(u))'
      BY <2>1, OnlyWorker
    <2>3. DeliverHasJar' /\ NoDanglingSet' /\ NotYetGiven'
      BY <1>11 DEF SUnset, Facts, DeliverHasJar, NoDanglingSet, NotYetGiven, Typed, TypeOK
    <2> QED BY <2>2, <2>3 DEF Facts
  <1>12. ASSUME NEW i \in Imeis, NEW c \in Custids, NEW cur \in Versions, NEW simu \in BOOLEAN,
                VersionCheck(w, i, c, cur, simu)
         PROVE  Facts'
    BY <1>12, FactsVersionCheck
  <1> QED
    BY <1>1, <1>2, <1>3, <1>4, <1>5, <1>6, <1>7, <1>8, <1>9, <1>10, <1>11, <1>12
    DEF OperatorRequest

(* Requests of the devices                                                 *)
LEMMA FactsDevice ==
  ASSUME OneWorker, Typed, Facts, NEW w \in Workers, NEW i \in Imeis, DeviceRequest(w, i)
  PROVE  Facts'
  <1> DEFINE c == CustomerOf[i]
  <1>0. c \in Custids
    BY CustomerAssumption
  <1>1. ASSUME VersionCheck(w, i, c, dev[i].ver, FALSE)
        PROVE  Facts'
    BY <1>0, <1>1, FactsVersionCheck
  <1>2. ASSUME OtapGet(w, i, c)
        PROVE  Facts'
    <2> DEFINE d  == IF Visible(i, c) /\ ~otap[i].block THEN otap[i].deliver ELSE None
               pc == IF d = None     THEN "jad_reply"
                     ELSE IF d = Any THEN "jad_list"
                     ELSE                 "jad_stat"
               r  == [Idle EXCEPT !.pc = pc, !.imei = i, !.ver = d, !.live = TRUE]
    <2>1. Begin(w, r)
      BY <1>2 DEF OtapGet
    <2>2. pc \in {"jad_reply", "jad_list", "jad_stat"}
      OBVIOUS
    <2> HIDE DEF d, pc
    <2>3. req'[w].pc = pc
      <3>1. req'[w] = r
        BY <2>1, BegunRequest
      <3> QED BY <3>1 DEF Idle
    <2>4. Fresh(w)'
      BY <2>2, <2>3, NotRelying DEF Relying
    <2> QED BY <1>2, <2>4, QuietStep DEF OtapGet
  <1>3. ASSUME JarFile(w, i, dev[i].jad)
        PROVE  Facts'
    <2> DEFINE v == IF dev[i].jad \in jars THEN dev[i].jad ELSE None
               r == [Idle EXCEPT !.pc = "jar_reply", !.imei = i, !.live = TRUE, !.ver = v]
    <2>1. Begin(w, r)
      BY <1>3 DEF JarFile
    <2> HIDE DEF v
    <2>2. req'[w].pc = "jar_reply"
      <3>1. req'[w] = r
        BY <2>1, BegunRequest
      <3> QED BY <3>1 DEF Idle
    <2>3. Fresh(w)'
      BY <2>2, NotRelying DEF Relying
    <2> QED BY <1>3, <2>3, QuietStep DEF JarFile
  <1>4. ASSUME OtapNotify(w, i, c)
        PROVE  Facts'
    <2>1. Fresh(w)'
      <3>1. CASE Visible(i, c)
        <4> DEFINE row == otap[i]
                   r   == [Idle EXCEPT !.pc = "row_save", !.imei = i, !.row = row, !.live = TRUE]
        <4>1. Begin(w, r)
          BY <1>4, <3>1 DEF OtapNotify
        <4>2. row # None
          BY <3>1 DEF Visible
        <4> HIDE DEF row
        <4>3. req'[w].pc = "row_save" /\ req'[w].imei = i /\ req'[w].row = row
          <5>1. req'[w] = r
            BY <4>1, BegunRequest
          <5> QED BY <5>1 DEF Idle
        <4> QED BY <1>4, <4>2, <4>3 DEF Fresh, OtapNotify, db, row
      <3>2. CASE ~Visible(i, c)
        BY <1>4, <3>2, NotRelying DEF OtapNotify, Serving, Relying
      <3> QED BY <3>1, <3>2
    <2> QED BY <1>4, <2>1, QuietStep DEF OtapNotify
  <1> QED BY <1>1, <1>2, <1>3, <1>4 DEF DeviceRequest

-----------------------------------------------------------------------------
(* A row whose version is there replaces a row.                            *)
LEMMA FactsSaved ==
  ASSUME OneWorker, Typed, Facts, NEW w \in Workers, NEW i \in Imeis, NEW row \in Row,
         row.deliver \in jars \cup {Any, None}, SaveRow(i, row),
         Fresh(w)', UNCHANGED <<jars, settings, imeiset, given>>
  PROVE  Facts'
  <1>1. (\A v \in Workers : Fresh(v))'
    BY OnlyWorker
  <1>2. DeliverHasJar'
    BY DEF Facts, DeliverHasJar, SaveRow, Typed, TypeOK
  <1>3. NoDanglingSet' /\ NotYetGiven'
    BY DEF Facts, NoDanglingSet, NotYetGiven
  <1> QED BY <1>1, <1>2, <1>3 DEF Facts

(* A row that replaces itself changes nothing.                             *)
LEMMA SavedSame ==
  ASSUME Typed, NEW i \in Imeis, SaveRow(i, otap[i])
  PROVE  otap' = otap
  BY DEF SaveRow, Typed, TypeOK

LEMMA FactsAddSave ==
  ASSUME OneWorker, Typed, Facts, NEW w \in Workers, AddSave(w)
  PROVE  Facts'
  <1> DEFINE i == req[w].imei
             row == req[w].row
  <1>1. i \in Imeis /\ row \in Row
    BY ShapeAt DEF AddSave, Serving, WithImei, WithRow, PCs
  <1>2. /\ req[w].found <=> otap[i] # None
        /\ ~row.block
        /\ row.deliver = IF otap[i] # None THEN otap[i].deliver ELSE None
    BY DEF AddSave, Serving, Facts, Fresh
  <1>3. SaveRow(i, row)
    BY <1>2 DEF AddSave
  <1>4. Fresh(w)' /\ UNCHANGED <<jars, settings, imeiset, given>>
    BY FinishedRequest DEF AddSave
  <1> HIDE DEF i, row
  <1>5. row.deliver \in jars \cup {Any, None}
    BY <1>1, <1>2 DEF Facts, DeliverHasJar
  <1> QED BY <1>1, <1>3, <1>4, <1>5, FactsSaved

LEMMA FactsDeliver ==
  ASSUME OneWorker, Typed, Facts, NEW w \in Workers,
         DeliverCheck(w) \/ DeliverGet(w) \/ DeliverSave(w)
  PROVE  Facts'
  <1>1. CASE DeliverCheck(w)
    <2>1. Fresh(w)'
      <3>1. CASE req[w].ver \in jars
        <4>1. req'[w].pc = "deliver_get" /\ req'[w].ver = req[w].ver
          BY <1>1, <3>1, ShapeAt DEF DeliverCheck, Go, Typed, TypeOK, Request
        <4> QED BY <1>1, <3>1, <4>1 DEF Fresh, DeliverCheck, db
      <3>2. CASE req[w].ver \notin jars
        BY <1>1, <3>2, FinishedRequest DEF DeliverCheck
      <3> QED BY <3>1, <3>2
    <2> QED BY <1>1, <2>1, QuietStep DEF DeliverCheck
  <1>2. CASE DeliverGet(w)
    <2> DEFINE row == otap[req[w].imei]
               new == [row EXCEPT !.deliver = req[w].ver]
    <2>1. req[w].ver \in jars \cup {Any}
      BY <1>2 DEF DeliverGet, Serving, Facts, Fresh
    <2>2. Fresh(w)'
      <3>1. CASE row = None
        BY <1>2, <3>1, FinishedRequest DEF DeliverGet
      <3>2. CASE row # None
        <4>1. req' = [req EXCEPT ![w].pc = "deliver_save", ![w].row = new]
          BY <1>2, <3>2 DEF DeliverGet
        <4> HIDE DEF new
        <4>2. /\ req'[w].pc = "deliver_save" /\ req'[w].row = new
              /\ req'[w].ver = req[w].ver /\ req'[w].imei = req[w].imei
          BY <4>1, ShapeAt DEF Typed, TypeOK, Request
        <4>3. UNCHANGED <<otap, jars>>
          BY <1>2 DEF DeliverGet, db
        <4> QED BY <2>1, <3>2, <4>2, <4>3 DEF Fresh, new
      <3> QED BY <3>1, <3>2
    <2> QED BY <1>2, <2>2, QuietStep DEF DeliverGet
  <1>3. CASE DeliverSave(w)
    <2> DEFINE i == req[w].imei
               row == req[w].row
               v == req[w].ver
    <2>1. i \in Imeis /\ row \in Row /\ v \in Versions \cup {Any}
      BY <1>3, ShapeAt DEF DeliverSave, Serving, WithImei, WithRow, PCs
    <2>2. otap[i] # None /\ row = [otap[i] EXCEPT !.deliver = v] /\ v \in jars \cup {Any}
      BY <1>3 DEF DeliverSave, Serving, Facts, Fresh
    <2>3. SaveRow(i, row)
      BY <1>3 DEF DeliverSave
    <2>4. Fresh(w)' /\ UNCHANGED <<jars, settings, imeiset, given>>
      BY <1>3, FinishedRequest DEF DeliverSave
    <2> HIDE DEF i, row, v
    <2>5. row.deliver = v
      BY <2>1, <2>2, RowOf DEF Row
    <2> QED BY <2>1, <2>2, <2>3, <2>4, <2>5, FactsSaved
  <1> QED BY <1>1, <1>2, <1>3

LEMMA FactsPurgeRemove ==
  ASSUME OneWorker, Typed, Facts, NEW w \in Workers, PurgeRemove(w)
  PROVE  Facts'
  <1> DEFINE v == req[w].ver
  <1>1. QueuedFor(v) = {}
    BY DEF PurgeRemove, Serving, Facts, Fresh
  <1>2. jars' = jars \ {v} /\ UNCHANGED <<otap, settings, imeiset, given>>
    BY DEF PurgeRemove
  <1>3. (\A u \in Workers : Fresh(u))'
    BY FinishedRequest, OnlyWorker DEF PurgeRemove
  <1> HIDE DEF v
  <1>5. \A i \in Imeis : otap[i] # None => otap[i].deliver # v
    BY <1>1 DEF QueuedFor
  <1>6. DeliverHasJar' /\ NoDanglingSet' /\ NotYetGiven'
    BY <1>2, <1>5 DEF Facts, DeliverHasJar, NoDanglingSet, NotYetGiven
  <1> QED BY <1>3, <1>6 DEF Facts

LEMMA FactsRowSave ==
  ASSUME OneWorker, Typed, Facts, NEW w \in Workers, RowSave(w)
  PROVE  Facts'
  <1>1. req[w].imei \in Imeis
    BY ShapeAt DEF RowSave, Serving, WithImei, PCs
  <1>2. req[w].row = otap[req[w].imei]
    BY DEF RowSave, Serving, Facts, Fresh
  <1>3. otap' = otap
    BY <1>1, <1>2, SavedSame DEF RowSave
  <1>4. UNCHANGED <<db, given>>
    BY <1>3 DEF RowSave, db
  <1>5. Fresh(w)'
    BY FinishedRequest DEF RowSave
  <1> QED BY <1>4, <1>5, QuietStep

LEMMA FactsSettings ==
  ASSUME OneWorker, Typed, Facts, NEW w \in Workers,
         DefineSave(w) \/ UndefDelete(w) \/ SetSave(w)
  PROVE  Facts'
  <1> DEFINE s == req[w].sname
  <1>0. s \in Snames
    BY ShapeAt DEF DefineSave, UndefDelete, SetSave, Serving
  <1>1. (\A u \in Workers : Fresh(u))'
    BY FinishedRequest, OnlyWorker DEF DefineSave, UndefDelete, SetSave
  <1>2. CASE DefineSave(w)
    <2>1. settings' = settings \cup {s} /\ UNCHANGED <<jars, otap, imeiset, given>>
      BY <1>2 DEF DefineSave
    <2>2. DeliverHasJar' /\ NoDanglingSet' /\ NotYetGiven'
      BY <2>1 DEF Facts, DeliverHasJar, NoDanglingSet, NotYetGiven
    <2> QED BY <1>1, <2>2 DEF Facts
  <1>3. CASE UndefDelete(w)
    <2>1. settings' = settings \ {s} /\ UNCHANGED <<jars, otap, imeiset, given>>
      BY <1>3 DEF UndefDelete
    <2>2. AssignedTo(s) = {}
      BY <1>3 DEF UndefDelete, Serving, Facts, Fresh
    <2>3. \A i \in Imeis : imeiset[i] # None => imeiset[i].sname # s
      BY <2>2 DEF AssignedTo
    <2>4. DeliverHasJar' /\ NoDanglingSet' /\ NotYetGiven'
      BY <2>1, <2>3 DEF Facts, DeliverHasJar, NoDanglingSet, NotYetGiven
    <2> QED BY <1>1, <2>4 DEF Facts
  <1>4. CASE SetSave(w)
    <2> DEFINE i == req[w].imei
               a == [sname |-> s, once |-> req[w].once]
    <2>1. i \in Imeis /\ req[w].once \in BOOLEAN
      BY <1>4, ShapeAt DEF SetSave, Serving, WithImei, PCs
    <2>2. s \in settings
      BY <1>4 DEF SetSave, Serving, Facts, Fresh
    <2>3. CASE imeiset[i] = None
      <3>1. /\ imeiset' = [imeiset EXCEPT ![i] = a]
            /\ given' = [given EXCEPT ![i] = 0]
            /\ UNCHANGED <<jars, otap, settings>>
        BY <1>4, <2>3 DEF SetSave
      <3>2. DeliverHasJar' /\ NoDanglingSet' /\ NotYetGiven'
        BY <2>1, <2>2, <3>1
        DEF Facts, DeliverHasJar, NoDanglingSet, NotYetGiven, Typed, TypeOK
      <3> QED BY <1>1, <3>2 DEF Facts
    <2>4. CASE imeiset[i] # None
      BY <1>1, <1>4, <2>4, QuietStep DEF SetSave, db
    <2> QED BY <2>3, <2>4
  <1> QED BY <1>2, <1>3, <1>4

LEMMA FactsVcRows ==
  ASSUME OneWorker, Typed, Facts, NEW w \in Workers, VcList(w) \/ VcSave(w)
  PROVE  Facts'
  <1> DEFINE r == req[w]
  <1>1. r.imei \in Imeis /\ r.row \in Row
    BY ShapeAt DEF VcList, VcSave, Serving, WithImei, WithRow, PCs
  <1>2. otap[r.imei] # None /\ r.row = otap[r.imei] /\ ~r.once
    BY DEF VcList, VcSave, Serving, Facts, Fresh
  <1>3. UNCHANGED <<db, given>>
    BY <1>1, <1>2, SavedSame DEF VcList, VcSave, db
  <1>4. /\ req'[w].pc \in {"vc_reply", "vc_save", "vc_sets"}
        /\ req'[w].pc = "vc_sets" => ~r.row.block
        /\ req'[w].imei = r.imei /\ req'[w].row = r.row /\ req'[w].once = r.once
    <2>1. CASE VcList(w)
      BY <2>1, ShapeAt DEF VcList, Go, Typed, TypeOK, Request
    <2>2. CASE VcSave(w)
      <3> DEFINE up == ~r.row.block /\ r.row.deliver # None /\ r.cur # r.ver
                 pc == IF r.row.block THEN "vc_reply" ELSE "vc_sets"
      <3>1. req' = [req EXCEPT ![w].up = up, ![w].pc = pc]
        BY <2>2 DEF VcSave
      <3>2. pc \in {"vc_reply", "vc_sets"} /\ (pc = "vc_sets" => ~r.row.block)
        OBVIOUS
      <3> HIDE DEF up, pc
      <3>3. /\ req'[w].pc = pc /\ req'[w].imei = r.imei
            /\ req'[w].row = r.row /\ req'[w].once = r.once
        BY <3>1, ShapeAt DEF Typed, TypeOK, Request
      <3> QED BY <3>2, <3>3
    <2> QED BY <2>1, <2>2
  <1> HIDE DEF r
  <1>5. Fresh(w)'
    BY <1>2, <1>3, <1>4 DEF Fresh, db
  <1> QED BY <1>3, <1>5, QuietStep

LEMMA FactsVcSets ==
  ASSUME OneWorker, Typed, Facts, NEW w \in Workers, VcSettings(w) \/ VcOnce(w)
  PROVE  Facts'
  <1> DEFINE r == req[w]
             a == imeiset[r.imei]
  <1>1. r.imei \in Imeis /\ ~r.once /\ otap[r.imei] # None /\ ~otap[r.imei].block
    BY ShapeAt DEF VcSettings, VcOnce, Serving, WithImei, PCs, Facts, Fresh
  <1>2. UNCHANGED <<db, given>>
    BY DEF VcSettings, VcOnce
  <1>3. CASE VcSettings(w)
    <2> DEFINE sets == ImeiSettings(r.imei)
               pc   == IF r.simu THEN "vc_reply" ELSE "vc_once"
    <2>1. req' = [req EXCEPT ![w].sets = sets, ![w].pc = pc]
      BY <1>3 DEF VcSettings
    <2>2. pc \in {"vc_reply", "vc_once"}
      OBVIOUS
    <2>3. /\ req'[w].pc = pc /\ req'[w].sets = sets
          /\ req'[w].imei = r.imei /\ req'[w].once = r.once
      <3> HIDE DEF sets, pc
      <3> QED BY <2>1, ShapeAt DEF Typed, TypeOK, Request
    <2> HIDE DEF pc, r
    <2>4. Fresh(w)'
      BY <1>1, <1>2, <2>2, <2>3 DEF Fresh, ImeiSettings, db
    <2> QED BY <1>2, <2>4, QuietStep
  <1>4. CASE VcOnce(w)
    <2>1. r.sets = ImeiSettings(r.imei)
      BY <1>4 DEF VcOnce, Serving, Facts, Fresh
    <2>2. a # None => r.sets = a.sname
      BY <1>1, <2>1 DEF ImeiSettings, Facts, NoDanglingSet
    <2>3. \/ /\ a # None /\ a.once
             /\ req'[w].pc = "vc_clear" /\ req'[w].imei = r.imei /\ req'[w].sets = r.sets
          \/ req'[w].pc = "vc_reply" /\ ~req'[w].once
      <3>1. CASE a # None /\ a.once
        <4>1. req' = [req EXCEPT ![w].once = TRUE, ![w].pc = "vc_clear"]
          BY <1>4, <3>1 DEF VcOnce
        <4> QED BY <3>1, <4>1, ShapeAt DEF Typed, TypeOK, Request
      <3>2. CASE ~(a # None /\ a.once)
        <4>1. Go(w, "vc_reply")
          BY <1>4, <3>2 DEF VcOnce
        <4> QED BY <1>1, <4>1, ShapeAt DEF Go, Typed, TypeOK, Request
      <3> QED BY <3>1, <3>2
    <2>4. UNCHANGED <<otap, imeiset>>
      BY <1>2 DEF db
    <2> HIDE DEF r
    <2>5. Fresh(w)'
      BY <1>1, <2>2, <2>3, <2>4 DEF Fresh
    <2> QED BY <1>2, <2>5, QuietStep
  <1> QED BY <1>3, <1>4

LEMMA FactsVcClear ==
  ASSUME OneWorker, Typed, Facts, NEW w \in Workers, VcClear(w)
  PROVE  Facts'
  <1> DEFINE i == req[w].imei
  <1>1. i \in Imeis /\ imeiset[i] # None /\ imeiset[i].once
    BY ShapeAt DEF VcClear, Serving, WithImei, PCs, Facts, Fresh
  <1>2. given[i] = 0
    BY <1>1 DEF Facts, NotYetGiven
  <1>3. /\ imeiset' = [imeiset EXCEPT ![i] = None]
        /\ UNCHANGED <<jars, otap, settings, given>>
    BY DEF VcClear
  <1>4. req'[w].pc = "vc_reply" /\ req'[w].imei = i
    BY ShapeAt DEF VcClear, Go, Typed, TypeOK, Request
  <1> HIDE DEF i
  <1>5. imeiset'[i] = None /\ given'[i] = 0
    BY <1>1, <1>2, <1>3 DEF Typed, TypeOK
  <1>6. Fresh(w)'
    BY <1>4, <1>5 DEF Fresh
  <1>7. (\A u \in Workers : Fresh(u))'
    BY <1>6, OnlyWorker
  <1>8. DeliverHasJar' /\ NoDanglingSet' /\ NotYetGiven'
    BY <1>1, <1>3 DEF Facts, DeliverHasJar, NoDanglingSet, NotYetGiven, Typed, TypeOK
  <1> QED BY <1>7, <1>8 DEF Facts

LEMMA FactsVcReply ==
  ASSUME OneWorker, Typed, Facts, NEW w \in Workers, VcReply(w)
  PROVE  Facts'
  <1> DEFINE i == req[w].imei
  <1>1. i \in Imeis
    BY ShapeAt DEF VcReply, Serving, WithImei, PCs
  <1>2. UNCHANGED db
    BY DEF VcReply
  <1>3. (\A u \in Workers : Fresh(u))'
    BY FinishedRequest, OnlyWorker DEF VcReply
  <1>4. NotYetGiven'
    <2>1. CASE req[w].once /\ req[w].sets # None
      <3>1. imeiset[i] = None /\ given[i] = 0
        BY <2>1 DEF VcReply, Serving, Facts, Fresh
      <3>2. given' = [given EXCEPT ![i] = @ + 1]
        BY <2>1 DEF VcReply
      <3>3. imeiset' = imeiset
        BY <1>2 DEF db
      <3> HIDE DEF i
      <3> QED BY <1>1, <3>1, <3>2, <3>3 DEF Facts, NotYetGiven, Typed, TypeOK
    <2>2. CASE ~(req[w].once /\ req[w].sets # None)
      BY <1>2, <2>2 DEF VcReply, Facts, NotYetGiven, db
    <2> QED BY <2>1, <2>2
  <1>5. DeliverHasJar' /\ NoDanglingSet'
    BY <1>2 DEF Facts, DeliverHasJar, NoDanglingSet, db
  <1> QED BY <1>3, <1>4, <1>5 DEF Facts

LEMMA FactsDownload ==
  ASSUME OneWorker, Typed, Facts, NEW w \in Workers,
         JadList(w) \/ JadStat(w) \/ JadReply(w) \/ JarReply(w)
  PROVE  Facts'
  <1>1. UNCHANGED <<db, given>>
    BY DEF JadList, JadStat, JadReply, JarReply
  <1>2. CASE JadList(w) \/ JadStat(w)
    <2>1. req'[w].pc \in {"jad_reply", "jad_stat"}
      BY <1>2, ShapeAt DEF JadList, JadStat, Typed, TypeOK, Request
    <2>2. Fresh(w)'
      BY <2>1, NotRelying DEF Relying
    <2> QED BY <1>1, <2>2, QuietStep
  <1>3. CASE JadReply(w) \/ JarReply(w)
    BY <1>1, <1>3, FinishedRequest, QuietStep DEF JadReply, JarReply
  <1> QED BY <1>2, <1>3

LEMMA FactsFault ==
  ASSUME OneWorker, Typed, Facts, NEW w \in Workers, LoseReply(w) \/ Crash(w)
  PROVE  Facts'
  <1>1. UNCHANGED <<db, given>>
    BY DEF LoseReply, Crash
  <1>2. CASE LoseReply(w)
    <2>1. req' = [req EXCEPT ![w].live = FALSE]
      BY <1>2 DEF LoseReply
    <2>2. /\ req'[w].pc = req[w].pc     /\ req'[w].imei = req[w].imei
          /\ req'[w].row = req[w].row   /\ req'[w].ver = req[w].ver
          /\ req'[w].sname = req[w].sname /\ req'[w].sets = req[w].sets
          /\ req'[w].once = req[w].once /\ req'[w].found = req[w].found
      BY <2>1, ShapeAt DEF Typed, TypeOK, Request
    <2>3. Fresh(w)
      BY DEF Facts
    <2>4. Fresh(w)'
      BY <1>1, <2>2, <2>3 DEF Fresh, QueuedFor, AssignedTo, ImeiSettings, db
    <2> QED BY <1>1, <2>4, QuietStep
  <1>3. CASE Crash(w)
    BY <1>1, <1>3, FinishedRequest, QuietStep DEF Crash
  <1> QED BY <1>2, <1>3

LEMMA FactsNext ==
  ASSUME OneWorker, Typed, Facts, [Next]_vars
  PROVE  Facts'
  <1>1. ASSUME NEW w \in Workers, HandlerStep(w)
        PROVE  Facts'
    BY <1>1, FactsAddSave, FactsDeliver, FactsPurgeRemove, FactsRowSave, FactsSettings,
       FactsVcRows, FactsVcSets, FactsVcClear, FactsVcReply, FactsDownload DEF HandlerStep
  <1>2. CASE UNCHANGED vars
    BY <1>2 DEF vars, Facts, Fresh, DeliverHasJar, NoDanglingSet, NotYetGiven, QueuedFor,
                AssignedTo, ImeiSettings
  <1>3. CASE Next
    BY <1>1, <1>3, FactsOperator, FactsDevice, FactsFault DEF Next
  <1> QED BY <1>2, <1>3

-----------------------------------------------------------------------------
(* With one worker every handler's decision still holds when it is acted   *)
(* upon (add_imei, deliver, purge, s_undef, s_set, versioncheck).          *)
THEOREM ConsistentAlways == ASSUME OneWorker PROVE Spec => []Consistent
  <1>1. Init => Typed /\ Facts
    BY TypedInit, FactsInit
  <1>2. Typed /\ Facts /\ [Next]_vars => (Typed /\ Facts)'
    BY TypedNext, FactsNext
  <1>3. Typed /\ Facts => Consistent
    BY DEF Typed, Facts, Consistent
  <1> QED BY <1>1, <1>2, <1>3, PTL DEF Spec

(* A version that is queued for a device has its JAR, through every purge. *)
THEOREM QueuedVersionIsThere == ASSUME OneWorker PROVE Spec => []DeliverHasJar
  <1>1. Consistent => DeliverHasJar
    BY DEF Consistent
  <1> QED BY <1>1, ConsistentAlways, PTL

(* A parameter set that is assigned is defined, through every undef.       *)
THEOREM AssignedSetIsDefined == ASSUME OneWorker PROVE Spec => []NoDanglingSet
  <1>1. Consistent => NoDanglingSet
    BY DEF Consistent
  <1> QED BY <1>1, ConsistentAlways, PTL

(* A once-only assignment is carried by one reply at most, whatever is     *)
(* lost and whenever the worker dies.                                      *)
THEOREM OnceOnlyIsOnce == ASSUME OneWorker PROVE Spec => []OnceOnly
  <1>1. Consistent => OnceOnly
    BY DEF Consistent, NotYetGiven, OnceOnly
  <1> QED BY <1>1, ConsistentAlways, PTL

(* versioncheck deletes only the assignment its reply carries.             *)
THEOREM NothingIsDiscarded == ASSUME OneWorker PROVE Spec => []ClearedIsHandedOut
  <1>1. Consistent => ClearedIsHandedOut
    BY DEF Consistent, Fresh, Serving, ClearedIsHandedOut
  <1> QED BY <1>1, ConsistentAlways, PTL

-----------------------------------------------------------------------------
(* The commands of OtapPolicy.                                             *)
PolicyStep == Policy!Next \/ UNCHANGED Policy!vars

LEMMA AskedAt ==
  ASSUME NEW w \in Workers
  PROVE  Asked[w] = Asking(req[w])
  BY DEF Asked

LEMMA IdleAsks == Asking(Idle) = None
  BY DEF Asking, Idle

(* What a request comes to ask is all that changes.                        *)
LEMMA AskedOf ==
  ASSUME Typed, NEW w \in Workers, NEW r, req' = [req EXCEPT ![w] = r]
  PROVE  Asked' = [Asked EXCEPT ![w] = Asking(r)]
  <1>1. \A v \in Workers : req'[v] = IF v = w THEN r ELSE req[v]
    BY DEF Typed, TypeOK
  <1>2. Asked' = [v \in Workers |-> IF v = w THEN Asking(r) ELSE Asking(req[v])]
    <2>1. ASSUME NEW v \in Workers
          PROVE  Asked'[v] = IF v = w THEN Asking(r) ELSE Asking(req[v])
      BY <1>1 DEF Asked, Asking
    <2> QED BY <2>1 DEF Asked
  <1> QED BY <1>2 DEF Asked

LEMMA AskedSame ==
  ASSUME Typed, NEW w \in Workers, NEW r, req' = [req EXCEPT ![w] = r],
         Asking(r) = Asking(req[w])
  PROVE  Asked' = Asked
  BY AskedOf DEF Asked

(* Nothing that OtapPolicy speaks of changes.                              *)
LEMMA QuietPolicy ==
  ASSUME Asked' = Asked, UNCHANGED <<db, ops, faults>>
  PROVE  PolicyStep
  BY DEF PolicyStep, Policy!vars, Policy!tables, db

(* A command is given, and served by a request that asks for it; or it is  *)
(* one of those that have nothing to do with the tables.                   *)
LEMMA CommandGiven ==
  ASSUME Typed, NEW w \in Workers, Operator, NEW r, Begin(w, r),
         Asking(r) \in Policy!Commands \cup {None}, UNCHANGED <<db, faults>>
  PROVE  PolicyStep
  <1>1. Asked[w] = None
    <2>1. req[w].pc = "idle"
      BY DEF Begin, Serving
    <2> QED BY <2>1, AskedAt DEF Asking
  <1>2. Asked' = [Asked EXCEPT ![w] = Asking(r)]
    BY AskedOf DEF Begin
  <1>3. CASE Asking(r) \in Policy!Commands
    <2>1. Policy!Ask(w, Asking(r))
      BY <1>1, <1>2 DEF Policy!Ask, Policy!Given, Policy!tables, Operator, db
    <2> QED BY <1>3, <2>1 DEF PolicyStep, Policy!Next, Policy!Give
  <1>4. CASE Asking(r) = None
    <2>1. Asked' = Asked
      BY <1>1, <1>2, <1>4 DEF Asked
    <2>2. Policy!Other
      BY <2>1 DEF Policy!Other, Policy!Given, Policy!tables, Operator, db
    <2> QED BY <2>2 DEF PolicyStep, Policy!Next, Policy!Give
  <1> QED BY <1>3, <1>4

LEMMA PolicyCheck ==
  ASSUME Typed, NEW w \in Workers, NEW i, NEW c, NEW cur, NEW simu,
         VersionCheck(w, i, c, cur, simu)
  PROVE  \E r : Begin(w, r) /\ Asking(r) = None
  <1> DEFINE pc   == IF ~Visible(i, c)              THEN "vc_reply"
                     ELSE IF otap[i].deliver = Any  THEN "vc_list"
                     ELSE                                "vc_save"
             row  == IF Visible(i, c) THEN otap[i] ELSE None
             ver  == IF Visible(i, c) THEN otap[i].deliver ELSE None
             live == ~simu
             r    == [Idle EXCEPT !.pc = pc, !.imei = i, !.cur = cur, !.simu = simu,
                                  !.live = live, !.row = row, !.ver = ver]
  <1>1. Begin(w, r)
    BY DEF VersionCheck
  <1>2. pc \in {"vc_reply", "vc_list", "vc_save"}
    OBVIOUS
  <1> HIDE DEF pc, row, ver, live
  <1>3. Asking(r) = None
    BY <1>2 DEF Asking, Idle
  <1> QED BY <1>1, <1>3

LEMMA PolicyOperator ==
  ASSUME Typed, NEW w \in Workers, OperatorRequest(w)
  PROVE  PolicyStep
  <1>1. ASSUME NEW i \in Imeis, NEW c \in Custids, AddImei(w, i, c)
        PROVE  PolicyStep
    <2> DEFINE row   == IF otap[i] # None
                          THEN [otap[i] EXCEPT !.custid = c, !.block = FALSE]
                          ELSE [custid |-> c, block |-> FALSE, deliver |-> None]
               found == otap[i] # None
               r     == [Idle EXCEPT !.pc = "add_save", !.imei = i, !.row = row,
                                     !.found = found]
    <2>1. Begin(w, r) /\ Operator /\ UNCHANGED <<db, faults>>
      BY <1>1 DEF AddImei
    <2>2. row.custid = c
      BY RowOf DEF Row
    <2> HIDE DEF row, found
    <2>3. Asking(r) = <<"add", i, c>>
      BY <2>2 DEF Asking, Idle
    <2> QED BY <2>1, <2>3, CommandGiven DEF Policy!Commands
  <1>2. ASSUME NEW i \in Imeis, NEW v \in Versions \cup {Any}, Deliver(w, i, v)
        PROVE  PolicyStep
    <2> DEFINE pc == IF v = Any THEN "deliver_get" ELSE "deliver_check"
               r  == [Idle EXCEPT !.pc = pc, !.imei = i, !.ver = v]
    <2>1. Begin(w, r) /\ Operator /\ UNCHANGED <<db, faults>>
      BY <1>2 DEF Deliver
    <2>2. pc \in {"deliver_get", "deliver_check"}
      OBVIOUS
    <2> HIDE DEF pc
    <2>3. Asking(r) = <<"deliver", i, v>>
      BY <2>2 DEF Asking, Idle
    <2> QED BY <2>1, <2>3, CommandGiven DEF Policy!Commands
  <1>3. ASSUME NEW i \in Imeis, DeliverLatest(w, i)
        PROVE  PolicyStep
    <2>1. Highest(jars) \in Versions
      BY <1>3, HighestIsThere DEF DeliverLatest, Typed, TypeOK
    <2> QED BY <1>2, <1>3, <2>1 DEF DeliverLatest
  <1>4. ASSUME NEW v \in Versions, Purge(w, v)
        PROVE  PolicyStep
    <2> DEFINE r == [Idle EXCEPT !.pc = "purge_remove", !.ver = v]
    <2>1. Begin(w, r) /\ Operator /\ UNCHANGED <<db, faults>>
      BY <1>4 DEF Purge
    <2>2. Asking(r) = <<"purge", v>>
      BY DEF Asking, Idle
    <2> QED BY <2>1, <2>2, CommandGiven DEF Policy!Commands
  <1>5. ASSUME NEW v \in Versions, JarUpload(w, v)
        PROVE  PolicyStep
    <2>1. Policy!Upload(v)
      BY <1>5 DEF JarUpload, Operator, Policy!Upload, Policy!Given, Asked
    <2> QED BY <2>1 DEF PolicyStep, Policy!Next, Policy!Give
  <1>6. ASSUME NEW S \in SUBSET Imeis, NEW b \in BOOLEAN, Block(w, S, b)
        PROVE  PolicyStep
    <2>1. Policy!Block(S, b)
      BY <1>6 DEF Block, Operator, Policy!Block, Policy!Given, Asked
    <2> QED BY <2>1 DEF PolicyStep, Policy!Next, Policy!Give
  <1>7. ASSUME NEW i \in Imeis, SetColumn(w, i)
        PROVE  PolicyStep
    <2> DEFINE row == otap[i]
               r   == [Idle EXCEPT !.pc = "row_save", !.imei = i, !.row = row]
    <2>1. Begin(w, r) /\ Operator /\ UNCHANGED <<db, faults>>
      BY <1>7 DEF SetColumn
    <2> HIDE DEF row
    <2>2. Asking(r) = None
      BY DEF Asking, Idle
    <2> QED BY <2>1, <2>2, CommandGiven
  <1>8. ASSUME NEW s \in Snames, SDefine(w, s)
        PROVE  PolicyStep
    <2> DEFINE r == [Idle EXCEPT !.pc = "define_save", !.sname = s]
    <2>1. Begin(w, r) /\ Operator /\ UNCHANGED <<db, faults>>
      BY <1>8 DEF SDefine
    <2>2. Asking(r) = <<"define", s>>
      BY DEF Asking, Idle
    <2> QED BY <2>1, <2>2, CommandGiven DEF Policy!Commands
  <1>9. ASSUME NEW s \in Snames, SUndef(w, s)
        PROVE  PolicyStep
    <2> DEFINE r == [Idle EXCEPT !.pc = "undef_delete", !.sname = s]
    <2>1. Begin(w, r) /\ Operator /\ UNCHANGED <<db, faults>>
      BY <1>9 DEF SUndef
    <2>2. Asking(r) = <<"undef", s>>
      BY DEF Asking, Idle
    <2> QED BY <2>1, <2>2, CommandGiven DEF Policy!Commands
  <1>10. ASSUME NEW i \in Imeis, NEW s \in Snames, NEW once \in BOOLEAN, SSet(w, i, s, once)
         PROVE  PolicyStep
    <2> DEFINE r == [Idle EXCEPT !.pc = "set_save", !.imei = i, !.sname = s, !.once = once]
    <2>1. Begin(w, r) /\ Operator /\ UNCHANGED <<db, faults>>
      BY <1>10 DEF SSet
    <2>2. Asking(r) = <<"set", i, s, once>>
      BY DEF Asking, Idle
    <2> QED BY <2>1, <2>2, CommandGiven DEF Policy!Commands
  <1>11. ASSUME NEW i \in Imeis, NEW s \in Snames, SUnset(w, i, s)
         PROVE  PolicyStep
    <2>1. Policy!Unset(i, s)
      BY <1>11 DEF SUnset, AssignedTo, Operator, Policy!Unset, Policy!Given, Asked
    <2> QED BY <2>1 DEF PolicyStep, Policy!Next, Policy!Give
  <1>12. ASSUME NEW i \in Imeis, NEW c \in Custids, NEW cur \in Versions,
                Operator, VersionCheck(w, i, c, cur, TRUE)
         PROVE  PolicyStep
    <2>1. PICK r : Begin(w, r) /\ Asking(r) = None
      BY <1>12, PolicyCheck
    <2>2. UNCHANGED <<db, faults>>
      BY <1>12 DEF VersionCheck
    <2> QED BY <1>12, <2>1, <2>2, CommandGiven
  <1> QED
    BY <1>1, <1>2, <1>3, <1>4, <1>5, <1>6, <1>7, <1>8, <1>9, <1>10, <1>11, <1>12
    DEF OperatorRequest

(* A device gives no command: its requests begin unnoticed.                *)
LEMMA PolicyDevice ==
  ASSUME Typed, NEW w \in Workers, NEW i \in Imeis, DeviceRequest(w, i)
  PROVE  PolicyStep
  <1> DEFINE c == CustomerOf[i]
  <1>1. UNCHANGED <<db, ops, faults>>
    BY DEF DeviceRequest, NoOperator, VersionCheck, OtapGet, JarFile, OtapNotify
  <1>2. req' = req \/ \E r : Begin(w, r) /\ Asking(r) = None
    <2>1. CASE VersionCheck(w, i, c, dev[i].ver, FALSE)
      BY <2>1, PolicyCheck
    <2>2. CASE OtapGet(w, i, c)
      <3> DEFINE d  == IF Visible(i, c) /\ ~otap[i].block THEN otap[i].deliver ELSE None
                 pc == IF d = None     THEN "jad_reply"
                       ELSE IF d = Any THEN "jad_list"
                       ELSE                 "jad_stat"
                 r  == [Idle EXCEPT !.pc = pc, !.imei = i, !.ver = d, !.live = TRUE]
      <3>1. Begin(w, r)
        BY <2>2 DEF OtapGet
      <3>2. pc \in {"jad_reply", "jad_list", "jad_stat"}
        OBVIOUS
      <3> HIDE DEF d, pc
      <3>3. Asking(r) = None
        BY <3>2 DEF Asking, Idle
      <3> QED BY <3>1, <3>3
    <2>3. CASE JarFile(w, i, dev[i].jad)
      <3> DEFINE v == IF dev[i].jad \in jars THEN dev[i].jad ELSE None
                 r == [Idle EXCEPT !.pc = "jar_reply", !.imei = i, !.live = TRUE, !.ver = v]
      <3>1. Begin(w, r)
        BY <2>3 DEF JarFile
      <3> HIDE DEF v
      <3>2. Asking(r) = None
        BY DEF Asking, Idle
      <3> QED BY <3>1, <3>2
    <2>4. CASE OtapNotify(w, i, c) /\ Visible(i, c)
      <3> DEFINE row == otap[i]
                 r   == [Idle EXCEPT !.pc = "row_save", !.imei = i, !.row = row, !.live = TRUE]
      <3>1. Begin(w, r)
        BY <2>4 DEF OtapNotify
      <3> HIDE DEF row
      <3>2. Asking(r) = None
        BY DEF Asking, Idle
      <3> QED BY <3>1, <3>2
    <2>5. CASE OtapNotify(w, i, c) /\ ~Visible(i, c)
      BY <2>5 DEF OtapNotify
    <2> QED BY <2>1, <2>2, <2>3, <2>4, <2>5 DEF DeviceRequest
  <1>3. Asked' = Asked
    <2>1. ASSUME NEW r, Begin(w, r), Asking(r) = None
          PROVE  Asked' = Asked
      <3>1. req[w].pc = "idle" /\ req' = [req EXCEPT ![w] = r]
        BY <2>1 DEF Begin, Serving
      <3>2. Asking(req[w]) = None
        BY <3>1 DEF Asking
      <3> QED BY <2>1, <3>1, <3>2, AskedSame
    <2>2. CASE req' = req
      BY <2>2 DEF Asked
    <2> QED BY <1>2, <2>1, <2>2
  <1> QED BY <1>1, <1>3, QuietPolicy

(* A handler that ends has carried out, or refused, what it was asked.     *)
LEMMA PolicyDone ==
  ASSUME Typed, NEW w \in Workers, NEW cmd, Asking(req[w]) = cmd, Finish(w),
         UNCHANGED <<ops, faults>>
  PROVE  Policy!Done(w, cmd)
  <1>1. Asked[w] = cmd
    BY AskedAt
  <1>2. Asked' = [Asked EXCEPT ![w] = None]
    BY AskedOf, IdleAsks DEF Finish
  <1> QED BY <1>1, <1>2 DEF Policy!Done

LEMMA PolicyAdd ==
  ASSUME Typed, Facts, NEW w \in Workers, AddSave(w)
  PROVE  PolicyStep
  <1> DEFINE i == req[w].imei
             row == req[w].row
             c == row.custid
  <1>1. i \in Imeis /\ row \in Row /\ c \in Custids
    BY ShapeAt DEF AddSave, Serving, WithImei, WithRow, PCs, Row
  <1>2. /\ req[w].found <=> otap[i] # None
        /\ ~row.block
        /\ row.deliver = IF otap[i] # None THEN otap[i].deliver ELSE None
    BY DEF AddSave, Serving, Facts, Fresh
  <1>3. SaveRow(i, row)
    BY <1>2 DEF AddSave
  <1>4. Policy!Done(w, <<"add", i, c>>)
    BY PolicyDone DEF AddSave, Serving, Asking
  <1>5. UNCHANGED <<jars, settings, imeiset>>
    BY DEF AddSave
  <1> HIDE DEF i, row
  <1>6. row = [custid  |-> c, block |-> FALSE,
               deliver |-> IF otap[i] = None THEN None ELSE otap[i].deliver]
    BY <1>1, <1>2 DEF Row
  <1>7. Policy!AddImei(w, i, c)
    BY <1>3, <1>4, <1>5, <1>6 DEF SaveRow, Policy!AddImei
  <1> QED BY <1>1, <1>7 DEF PolicyStep, Policy!Next, Policy!CarryOut

LEMMA PolicyDeliver ==
  ASSUME Typed, Facts, NEW w \in Workers, DeliverCheck(w) \/ DeliverGet(w) \/ DeliverSave(w)
  PROVE  PolicyStep
  <1> DEFINE i == req[w].imei
             v == req[w].ver
             cmd == <<"deliver", i, v>>
  <1>1. i \in Imeis /\ v \in Versions \cup {Any}
    BY ShapeAt DEF DeliverCheck, DeliverGet, DeliverSave, Serving, WithImei, PCs
  <1>2. Asking(req[w]) = cmd
    BY DEF DeliverCheck, DeliverGet, DeliverSave, Serving, Asking
  <1>3. UNCHANGED <<ops, faults, jars, settings, imeiset>>
    BY DEF DeliverCheck, DeliverGet, DeliverSave, db
  <1>4. ASSUME Finish(w), UNCHANGED otap, ~Policy!Deliverable(i, v)
        PROVE  PolicyStep
    <2>1. Policy!Done(w, cmd)
      BY <1>2, <1>3, <1>4, PolicyDone
    <2>2. Policy!Refuse(w, cmd)
      BY <1>1, <1>3, <1>4, <2>1 DEF Policy!Refuse, Policy!tables
    <2>3. cmd \in Policy!Commands
      BY <1>1 DEF Policy!Commands
    <2> QED BY <2>2, <2>3 DEF PolicyStep, Policy!Next, Policy!CarryOut
  <1>5. CASE DeliverCheck(w)
    <2>1. CASE v \in jars
      <3> DEFINE r == [req[w] EXCEPT !.pc = "deliver_get"]
      <3>1. req' = [req EXCEPT ![w] = r]
        BY <1>5, <2>1 DEF DeliverCheck, Go
      <3>2. Asking(r) = cmd
        BY ShapeAt DEF Asking, Request
      <3>3. Asked' = Asked
        BY <1>2, <3>1, <3>2, AskedSame
      <3> QED BY <1>5, <3>3, QuietPolicy DEF DeliverCheck
    <2>2. CASE v \notin jars
      <3>1. v # Any
        BY <1>5, ShapeAt, NullAssumption DEF DeliverCheck, Serving
      <3> QED BY <1>4, <1>5, <2>2, <3>1 DEF DeliverCheck, Policy!Deliverable, db
    <2> QED BY <2>1, <2>2
  <1>6. CASE DeliverGet(w)
    <2>1. CASE otap[i] = None
      BY <1>4, <1>6, <2>1 DEF DeliverGet, Policy!Deliverable, db
    <2>2. CASE otap[i] # None
      <3> DEFINE row == [otap[i] EXCEPT !.deliver = v]
                 r   == [req[w] EXCEPT !.pc = "deliver_save", !.row = row]
      <3>1. req' = [req EXCEPT ![w].pc = "deliver_save", ![w].row = row]
        BY <1>6, <2>2 DEF DeliverGet
      <3> HIDE DEF row
      <3>2. req' = [req EXCEPT ![w] = r]
        BY <3>1
      <3>3. Asking(r) = cmd
        BY ShapeAt DEF Asking, Request
      <3>4. Asked' = Asked
        BY <1>2, <3>2, <3>3, AskedSame
      <3> QED BY <1>6, <3>4, QuietPolicy DEF DeliverGet
    <2> QED BY <2>1, <2>2
  <1>7. CASE DeliverSave(w)
    <2>1. /\ otap[i] # None /\ v \in jars \cup {Any}
          /\ req[w].row = [otap[i] EXCEPT !.deliver = v]
      BY <1>7 DEF DeliverSave, Serving, Facts, Fresh
    <2>2. SaveRow(i, req[w].row)
      BY <1>7 DEF DeliverSave
    <2>3. Policy!Done(w, cmd)
      BY <1>2, <1>3, <1>7, PolicyDone DEF DeliverSave
    <2> HIDE DEF i, v
    <2>4. Policy!Deliver(w, i, v)
      BY <1>1, <1>3, <2>1, <2>2, <2>3
      DEF SaveRow, Policy!Deliver, Policy!Deliverable, Typed, TypeOK
    <2> QED BY <1>1, <2>4 DEF PolicyStep, Policy!Next, Policy!CarryOut
  <1> QED BY <1>5, <1>6, <1>7

LEMMA PolicyPurge ==
  ASSUME Typed, Facts, NEW w \in Workers, PurgeRemove(w)
  PROVE  PolicyStep
  <1> DEFINE v == req[w].ver
  <1>1. v \in Versions /\ QueuedFor(v) = {}
    BY ShapeAt DEF PurgeRemove, Serving, Facts, Fresh
  <1>2. Policy!Done(w, <<"purge", v>>)
    BY PolicyDone DEF PurgeRemove, Serving, Asking
  <1>3. Policy!Purge(w, v)
    BY <1>1, <1>2 DEF PurgeRemove, QueuedFor, Policy!Purge
  <1> QED BY <1>1, <1>3 DEF PolicyStep, Policy!Next, Policy!CarryOut

LEMMA PolicySettings ==
  ASSUME Typed, Facts, NEW w \in Workers, DefineSave(w) \/ UndefDelete(w) \/ SetSave(w)
  PROVE  PolicyStep
  <1> DEFINE s == req[w].sname
  <1>0. s \in Snames
    BY ShapeAt DEF DefineSave, UndefDelete, SetSave, Serving
  <1>1. CASE DefineSave(w)
    <2>1. Policy!Done(w, <<"define", s>>)
      BY <1>1, PolicyDone DEF DefineSave, Serving, Asking
    <2>2. Policy!Define(w, s)
      BY <1>1, <2>1 DEF DefineSave, Policy!Define
    <2> QED BY <1>0, <2>2 DEF PolicyStep, Policy!Next, Policy!CarryOut
  <1>2. CASE UndefDelete(w)
    <2>1. Policy!Done(w, <<"undef", s>>)
      BY <1>2, PolicyDone DEF UndefDelete, Serving, Asking
    <2>2. AssignedTo(s) = {}
      BY <1>2 DEF UndefDelete, Serving, Facts, Fresh
    <2>3. Policy!Undef(w, s)
      BY <1>2, <2>1, <2>2 DEF UndefDelete, AssignedTo, Policy!Undef
    <2> QED BY <1>0, <2>3 DEF PolicyStep, Policy!Next, Policy!CarryOut
  <1>3. CASE SetSave(w)
    <2> DEFINE i == req[w].imei
               once == req[w].once
               cmd == <<"set", i, s, once>>
    <2>1. i \in Imeis /\ once \in BOOLEAN
      BY <1>3, ShapeAt DEF SetSave, Serving, WithImei, PCs
    <2>2. s \in settings
      BY <1>3 DEF SetSave, Serving, Facts, Fresh
    <2>3. Policy!Done(w, cmd)
      BY <1>3, PolicyDone DEF SetSave, Serving, Asking
    <2>4. CASE imeiset[i] = None
      <3>1. Policy!Assign(w, i, s, once)
        BY <1>3, <2>2, <2>3, <2>4 DEF SetSave, Policy!Assign
      <3> QED BY <1>0, <2>1, <3>1 DEF PolicyStep, Policy!Next, Policy!CarryOut
    <2>5. CASE imeiset[i] # None
      <3>1. Policy!Refuse(w, cmd)
        BY <1>0, <1>3, <2>1, <2>3, <2>5 DEF SetSave, Policy!Refuse, Policy!tables
      <3>2. cmd \in Policy!Commands
        BY <1>0, <2>1 DEF Policy!Commands
      <3> QED BY <3>1, <3>2 DEF PolicyStep, Policy!Next, Policy!CarryOut
    <2> QED BY <2>4, <2>5
  <1> QED BY <1>1, <1>2, <1>3

(* The handlers that serve devices, or only save what is there, ask for    *)
(* nothing, before a step and after it.                                    *)
Bystanders == {"idle", "row_save", "vc_list", "vc_save", "vc_sets", "vc_once", "vc_clear",
               "vc_reply", "jad_list", "jad_stat", "jad_reply", "jar_reply"}

LEMMA BystanderPolicy ==
  ASSUME Typed, NEW w \in Workers, NEW r, req' = [req EXCEPT ![w] = r],
         req[w].pc \in Bystanders, r.pc \in Bystanders
  PROVE  Asked' = Asked
  <1>1. Asking(req[w]) = None /\ Asking(r) = None
    BY DEF Asking, Bystanders
  <1> QED BY <1>1, AskedSame

LEMMA PolicyBystander ==
  ASSUME Typed, Facts, NEW w \in Workers,
         \/ RowSave(w) \/ VcList(w) \/ VcSave(w) \/ VcSettings(w) \/ VcOnce(w) \/ VcReply(w)
         \/ JadList(w) \/ JadStat(w) \/ JadReply(w) \/ JarReply(w)
  PROVE  PolicyStep
  <1>1. UNCHANGED db
    <2>1. CASE RowSave(w) \/ VcSave(w)
      <3>1. req[w].imei \in Imeis /\ req[w].row = otap[req[w].imei]
        BY <2>1, ShapeAt DEF RowSave, VcSave, Serving, WithImei, PCs, Facts, Fresh
      <3> QED BY <2>1, <3>1, SavedSame DEF RowSave, VcSave, db
    <2>2. CASE ~(RowSave(w) \/ VcSave(w))
      BY <2>2 DEF VcList, VcSettings, VcOnce, VcReply, JadList, JadStat, JadReply, JarReply
    <2> QED BY <2>1, <2>2
  <1>2. UNCHANGED <<ops, faults>>
    BY DEF RowSave, VcList, VcSave, VcSettings, VcOnce, VcReply, JadList, JadStat, JadReply,
           JarReply
  <1>3. req[w].pc \in Bystanders
    BY DEF RowSave, VcList, VcSave, VcSettings, VcOnce, VcReply, JadList, JadStat, JadReply,
           JarReply, Serving, Bystanders
  <1>4. CASE RowSave(w) \/ VcReply(w) \/ JadReply(w) \/ JarReply(w)
    <2>1. req' = [req EXCEPT ![w] = Idle]
      BY <1>4 DEF RowSave, VcReply, JadReply, JarReply, Finish
    <2>2. Idle.pc \in Bystanders
      BY DEF Idle, Bystanders
    <2>3. Asked' = Asked
      BY <1>3, <2>1, <2>2, BystanderPolicy
    <2> QED BY <1>1, <1>2, <2>3, QuietPolicy
  <1>5. CASE ~(RowSave(w) \/ VcReply(w) \/ JadReply(w) \/ JarReply(w))
    <2>0. VcList(w) \/ VcSave(w) \/ VcSettings(w) \/ VcOnce(w) \/ JadList(w) \/ JadStat(w)
      BY <1>5
    <2>1. req'[w].pc \in Bystanders
      <3>1. CASE VcList(w) \/ VcOnce(w)
        BY <3>1, ShapeAt DEF VcList, VcOnce, Go, Typed, TypeOK, Request, Bystanders
      <3>2. CASE VcSave(w)
        <4> DEFINE up == ~req[w].row.block /\ req[w].row.deliver # None /\ req[w].cur # req[w].ver
                   pc == IF req[w].row.block THEN "vc_reply" ELSE "vc_sets"
        <4>1. req' = [req EXCEPT ![w].up = up, ![w].pc = pc]
          BY <3>2 DEF VcSave
        <4>2. pc \in {"vc_reply", "vc_sets"}
          OBVIOUS
        <4> HIDE DEF up, pc
        <4> QED BY <4>1, <4>2, ShapeAt DEF Typed, TypeOK, Request, Bystanders
      <3>3. CASE VcSettings(w)
        <4> DEFINE sets == ImeiSettings(req[w].imei)
                   pc   == IF req[w].simu THEN "vc_reply" ELSE "vc_once"
        <4>1. req' = [req EXCEPT ![w].sets = sets, ![w].pc = pc]
          BY <3>3 DEF VcSettings
        <4>2. pc \in {"vc_reply", "vc_once"}
          OBVIOUS
        <4> HIDE DEF sets, pc
        <4> QED BY <4>1, <4>2, ShapeAt DEF Typed, TypeOK, Request, Bystanders
      <3>4. CASE JadList(w) \/ JadStat(w)
        BY <3>4, ShapeAt DEF JadList, JadStat, Typed, TypeOK, Request, Bystanders
      <3> QED BY <2>0, <3>1, <3>2, <3>3, <3>4
    <2>2. req' = [req EXCEPT ![w] = req'[w]]
      <3>1. \E r : req' = [req EXCEPT ![w] = r]
        BY <2>0 DEF VcList, VcSave, VcSettings, VcOnce, JadList, JadStat, Go
      <3> QED BY <3>1 DEF Typed, TypeOK
    <2>3. Asked' = Asked
      BY <1>3, <2>1, <2>2, BystanderPolicy
    <2> QED BY <1>1, <1>2, <2>3, QuietPolicy
  <1> QED BY <1>4, <1>5

(* The one thing a device changes: an assignment that was for once only.   *)
LEMMA PolicySpend ==
  ASSUME Typed, Facts, NEW w \in Workers, VcClear(w)
  PROVE  PolicyStep
  <1> DEFINE i == req[w].imei
  <1>1. /\ i \in Imeis
        /\ otap[i] # None /\ ~otap[i].block
        /\ imeiset[i] # None /\ imeiset[i].once
    BY ShapeAt DEF VcClear, Serving, WithImei, PCs, Facts, Fresh
  <1>2. Asked' = Asked
    <2> DEFINE r == [req[w] EXCEPT !.pc = "vc_reply"]
    <2>1. req' = [req EXCEPT ![w] = r]
      BY DEF VcClear, Go
    <2>2. r.pc \in Bystanders /\ req[w].pc \in Bystanders
      BY ShapeAt DEF VcClear, Serving, Bystanders, Request
    <2> QED BY <2>1, <2>2, BystanderPolicy
  <1>3. Policy!Spend(i)
    BY <1>1, <1>2 DEF VcClear, Policy!Spend
  <1> QED BY <1>1, <1>3 DEF PolicyStep, Policy!Next

LEMMA PolicyFault ==
  ASSUME Typed, NEW w \in Workers, LoseReply(w) \/ Crash(w)
  PROVE  PolicyStep
  <1>1. faults' = faults + 1 /\ UNCHANGED <<db, ops>>
    BY DEF LoseReply, Crash
  <1>2. Asked' = Asked \/ Asked' = [Asked EXCEPT ![w] = None]
    <2>1. CASE LoseReply(w)
      <3> DEFINE r == [req[w] EXCEPT !.live = FALSE]
      <3>1. req' = [req EXCEPT ![w] = r]
        BY <2>1 DEF LoseReply
      <3>2. /\ r.pc = req[w].pc /\ r.imei = req[w].imei /\ r.row = req[w].row
            /\ r.ver = req[w].ver /\ r.sname = req[w].sname /\ r.once = req[w].once
        BY ShapeAt DEF Request
      <3> HIDE DEF r
      <3>3. Asking(r) = Asking(req[w])
        BY <3>2 DEF Asking
      <3> QED BY <3>1, <3>3, AskedSame
    <2>2. CASE Crash(w)
      BY <2>2, AskedOf, IdleAsks DEF Crash, Finish
    <2> QED BY <2>1, <2>2
  <1>3. Policy!Fault
    BY <1>1, <1>2 DEF Policy!Fault, Policy!tables, db
  <1> QED BY <1>3 DEF PolicyStep, Policy!Next

LEMMA PolicyNext ==
  ASSUME Typed, Facts, [Next]_vars
  PROVE  PolicyStep
  <1>1. ASSUME NEW w \in Workers, HandlerStep(w)
        PROVE  PolicyStep
    BY <1>1, PolicyAdd, PolicyDeliver, PolicyPurge, PolicySettings, PolicyBystander,
       PolicySpend DEF HandlerStep
  <1>2. CASE UNCHANGED vars
    <2>1. Asked' = Asked /\ UNCHANGED <<db, ops, faults>>
      BY <1>2 DEF vars, Asked, db
    <2> QED BY <2>1, QuietPolicy
  <1>3. CASE Next
    BY <1>1, <1>3, PolicyOperator, PolicyDevice, PolicyFault DEF Next
  <1> QED BY <1>2, <1>3

LEMMA PolicyInit == Init => Policy!Init
  <1> SUFFICES ASSUME Init PROVE Policy!Init
    OBVIOUS
  <1>1. Asked = [w \in Workers |-> None]
    BY IdleAsks DEF Init, Asked
  <1> QED BY <1>1 DEF Init, Policy!Init

(* The handlers, step by step, are the commands of OtapPolicy: what is     *)
(* stored changes once for each command that an operator has given, as he  *)
(* gave it, and devices only use up once-only assignments.                 *)
THEOREM Refinement == ASSUME OneWorker PROVE Spec => ImplementsPolicy
  <1>1. Init => Typed /\ Facts /\ Policy!Init
    BY TypedInit, FactsInit, PolicyInit
  <1>2. Typed /\ Facts /\ [Next]_vars => (Typed /\ Facts)' /\ [Policy!Next]_(Policy!vars)
    BY TypedNext, FactsNext, PolicyNext DEF PolicyStep
  <1> QED BY <1>1, <1>2, PTL DEF Spec, ImplementsPolicy, Policy!Spec
=============================================================================
