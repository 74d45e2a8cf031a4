------------------------- MODULE OtapAnswersProofs -------------------------
(* What the server of OtapServer answers to a device: settings, upgrades   *)
(* and JADs that agree with the tables at the moment the reply leaves, and *)
(* nothing that a simulation or a poll may not touch.                      *)
EXTENDS OtapPolicyProofs

VcSteps   == {"vc_list", "vc_save", "vc_sets", "vc_once", "vc_clear"}
Answering == VcSteps \cup {"vc_reply", "jad_list", "jad_stat", "jad_reply"}

Elsewhere(w) == req[w].pc \notin Answering /\ ~req[w].simu

(* A simulation never gets to the steps of a once-only assignment, and no  *)
(* device waits for its end.                                               *)
Simulated(w) ==
    LET r == req[w] IN
    r.simu => r.pc \in {"vc_list", "vc_save", "vc_sets", "vc_reply"} /\ ~r.live /\ ~r.once

(* What versioncheck still knows at the steps that may skip the settings.  *)
Pushing(w) ==
    LET r == req[w] IN
    /\ r.pc = "vc_list" => r.row.deliver = Any
    /\ r.pc = "vc_reply" /\ r.row # None /\ imeiset[r.imei] # None =>
          \/ otap[r.imei].block
          \/ otap[r.imei].deliver = Any /\ jars = {}
          \/ r.sets = imeiset[r.imei].sname

Wanted(i) == IF otap[i].deliver = Any THEN Highest(jars) ELSE otap[i].deliver

(* What stands behind an upgrade that is offered: at first that the device *)
(* is served from its own row, later that it is entitled.                  *)
Offering(w) ==
    LET r == req[w] IN
    /\ r.pc \in VcSteps /\ r.live => Visible(r.imei, CustomerOf[r.imei])
    /\ r.pc \in {"vc_list", "vc_save"} => ~r.up
    /\ r.pc \in Answering /\ r.live /\ r.up => Entitled(r.imei)
    /\ r.pc \in {"jad_list", "jad_stat"} => Entitled(r.imei)
    /\ r.pc = "jad_list" => otap[r.imei].deliver = Any
    /\ r.pc = "jad_stat" => r.ver = Wanted(r.imei)
    /\ r.pc = "jad_reply" /\ r.ver # None =>
          Entitled(r.imei) /\ r.ver \in jars /\ r.ver = Wanted(r.imei)

Answers(w) == Simulated(w) /\ Pushing(w) /\ Offering(w)

LEMMA NotAnswering ==
  ASSUME NEW w \in Workers, Elsewhere(w)'
  PROVE  Answers(w)'
  BY DEF Elsewhere, Answers, Simulated, Pushing, Offering, Answering, VcSteps

-----------------------------------------------------------------------------
(* Requests that are not answered with an upgrade.                         *)
LEMMA OperatorElsewhere ==
  ASSUME Typed, NEW w \in Workers, Simulated(w), OperatorRequest(w)
  PROVE  \/ Elsewhere(w)'
         \/ \E i \in Imeis, c \in Custids, cur \in Versions : VersionCheck(w, i, c, cur, TRUE)
  <1>1. ASSUME NEW i \in Imeis, NEW c \in Custids, AddImei(w, i, c)
        PROVE  Elsewhere(w)'
    <2> DEFINE row   == IF otap[i] # None
                          THEN [otap[i] EXCEPT !.custid = c, !.block = FALSE]
                          ELSE [custid |-> c, block |-> FALSE, deliver |-> None]
               found == otap[i] # None
               r     == [Idle EXCEPT !.pc = "add_save", !.imei = i, !.row = row,
                                     !.found = found]
    <2>1. Begin(w, r)
      BY <1>1 DEF AddImei
    <2> HIDE DEF row, found
    <2>2. req'[w] = r
      BY <2>1, BegunRequest
    <2> QED BY <2>2 DEF Idle, Elsewhere, Answering, VcSteps
  <1>2. ASSUME NEW i \in Imeis, NEW v, Deliver(w, i, v)
        PROVE  Elsewhere(w)'
    <2> DEFINE pc == IF v = Any THEN "deliver_get" ELSE "deliver_check"
               r  == [Idle EXCEPT !.pc = pc, !.imei = i, !.ver = v]
    <2>1. Begin(w, r) /\ pc \in {"deliver_get", "deliver_check"}
      BY <1>2 DEF Deliver
    <2> HIDE DEF pc
    <2>2. req'[w] = r
      BY <2>1, BegunRequest
    <2> QED BY <2>1, <2>2 DEF Idle, Elsewhere, Answering, VcSteps
  <1>3. ASSUME NEW i \in Imeis, DeliverLatest(w, i)
        PROVE  Elsewhere(w)'
    BY <1>2, <1>3 DEF DeliverLatest
  <1>4. ASSUME NEW v \in Versions, Purge(w, v)
        PROVE  Elsewhere(w)'
    <2>1. req'[w] = [Idle EXCEPT !.pc = "purge_remove", !.ver = v]
      BY <1>4, BegunRequest DEF Purge
    <2> QED BY <2>1 DEF Idle, Elsewhere, Answering, VcSteps
  <1>5. ASSUME req[w].pc = "idle", UNCHANGED req
        PROVE  Elsewhere(w)'
    BY <1>5 DEF Elsewhere, Answering, VcSteps, Simulated
  <1>6. ASSUME NEW i \in Imeis, SetColumn(w, i)
        PROVE  Elsewhere(w)'
    <2> DEFINE row == otap[i]
    <2>1. Begin(w, [Idle EXCEPT !.pc = "row_save", !.imei = i, !.row = row])
      BY <1>6 DEF SetColumn
    <2> HIDE DEF row
    <2>2. req'[w] = [Idle EXCEPT !.pc = "row_save", !.imei = i, !.row = row]
      BY <2>1, BegunRequest
    <2> QED BY <2>2 DEF Idle, Elsewhere, Answering, VcSteps
  <1>7. ASSUME NEW s \in Snames, SDefine(w, s)
        PROVE  Elsewhere(w)'
    <2>1. req'[w] = [Idle EXCEPT !.pc = "define_save", !.sname = s]
      BY <1>7, BegunRequest DEF SDefine
    <2> QED BY <2>1 DEF Idle, Elsewhere, Answering, VcSteps
  <1>8. ASSUME NEW s \in Snames, SUndef(w, s)
        PROVE  Elsewhere(w)'
    <2>1. req'[w] = [Idle EXCEPT !.pc = "undef_delete", !.sname = s]
      BY <1>8, BegunRequest DEF SUndef
    <2> QED BY <2>1 DEF Idle, Elsewhere, Answering, VcSteps
  <1>9. ASSUME NEW i \in Imeis, NEW s \in Snames, NEW once \in BOOLEAN, SSet(w, i, s, once)
        PROVE  Elsewhere(w)'
    <2>1. req'[w] = [Idle EXCEPT !.pc = "set_save", !.imei = i, !.sname = s, !.once = once]
      BY <1>9, BegunRequest DEF SSet
    <2> QED BY <2>1 DEF Idle, Elsewhere, Answering, VcSteps
  <1> QED
    BY <1>1, <1>2, <1>3, <1>4, <1>5, <1>6, <1>7, <1>8, <1>9
    DEF OperatorRequest, JarUpload, Block, SUnset, Serving

LEMMA HandlerElsewhere ==
  ASSUME Typed, NEW w \in Workers, Simulated(w),
         \/ AddSave(w) \/ DeliverCheck(w) \/ DeliverGet(w) \/ DeliverSave(w)
         \/ PurgeRemove(w) \/ RowSave(w) \/ DefineSave(w) \/ UndefDelete(w) \/ SetSave(w)
         \/ VcReply(w) \/ JadReply(w) \/ JarReply(w)
  PROVE  Elsewhere(w)'
  <1>1. CASE Finish(w)
    BY <1>1 DEF Finish, Typed, TypeOK, Idle, Elsewhere, Answering, VcSteps
  <1>2. CASE DeliverCheck(w) /\ ~Finish(w)
    BY <1>2, ShapeAt DEF DeliverCheck, Go, Typed, TypeOK, Request, Serving, Simulated,
                         Elsewhere, Answering, VcSteps
  <1>3. CASE DeliverGet(w) /\ ~Finish(w)
    <2>1. PICK row : req' = [req EXCEPT ![w].pc = "deliver_save", ![w].row = row]
      BY <1>3 DEF DeliverGet
    <2> QED BY <1>3, <2>1, ShapeAt DEF DeliverGet, Typed, TypeOK, Request, Serving, Simulated,
                                       Elsewhere, Answering, VcSteps
  <1> QED
    BY <1>1, <1>2, <1>3
    DEF AddSave, DeliverSave, PurgeRemove, RowSave, DefineSave, UndefDelete, SetSave,
        VcReply, JadReply, JarReply

-----------------------------------------------------------------------------
(* The first step of a versioncheck, of a device or simulated.             *)
LEMMA AnswersVersionCheck ==
  ASSUME Typed, NEW w \in Workers, NEW i \in Imeis, NEW c \in Custids,
         NEW cur, NEW simu \in BOOLEAN, VersionCheck(w, i, c, cur, simu),
         simu \/ c = CustomerOf[i]
  PROVE  Answers(w)'
  <1> DEFINE pc   == IF ~Visible(i, c)              THEN "vc_reply"
                     ELSE IF otap[i].deliver = Any  THEN "vc_list"
                     ELSE                                "vc_save"
             row  == IF Visible(i, c) THEN otap[i] ELSE None
             ver  == IF Visible(i, c) THEN otap[i].deliver ELSE None
             live == ~simu
             r    == [Idle EXCEPT !.pc = pc, !.imei = i, !.cur = cur, !.simu = simu,
                                  !.live = live, !.row = row, !.ver = ver]
  <1>0. Begin(w, r)
    BY DEF VersionCheck
  <1>1. /\ pc \in {"vc_list", "vc_save", "vc_reply"}
        /\ pc = "vc_list" => row.deliver = Any
        /\ pc = "vc_reply" => row = None
        /\ pc \in VcSteps => Visible(i, c)
    BY DEF VcSteps
  <1>2. otap' = otap
    BY DEF VersionCheck, db
  <1> HIDE DEF pc, row, ver, live
  <1>3. /\ req'[w].pc = pc /\ req'[w].row = row /\ req'[w].imei = i
        /\ req'[w].simu = simu /\ ~req'[w].once /\ ~req'[w].up /\ req'[w].live = live
    <2>1. req'[w] = r
      BY <1>0, BegunRequest
    <2> QED BY <2>1 DEF Idle
  <1>4. Simulated(w)'
    BY <1>1, <1>3 DEF Simulated, live
  <1>5. Pushing(w)'
    BY <1>1, <1>3 DEF Pushing
  <1>6. Offering(w)'
    <2>1. live => c = CustomerOf[i]
      BY DEF live
    <2> QED BY <1>1, <1>2, <1>3, <2>1 DEF Offering, Visible
  <1> QED BY <1>4, <1>5, <1>6 DEF Answers

LEMMA AnswersDevice ==
  ASSUME Typed, NEW w \in Workers, Answers(w), NEW i \in Imeis, DeviceRequest(w, i)
  PROVE  Answers(w)'
  <1> DEFINE c == CustomerOf[i]
  <1>0. c \in Custids
    BY CustomerAssumption
  <1>1. ASSUME VersionCheck(w, i, c, dev[i].ver, FALSE)
        PROVE  Answers(w)'
    BY <1>0, <1>1, AnswersVersionCheck
  <1>2. ASSUME OtapGet(w, i, c)
        PROVE  Answers(w)'
    <2> DEFINE d  == IF Visible(i, c) /\ ~otap[i].block THEN otap[i].deliver ELSE None
               pc == IF d = None     THEN "jad_reply"
                     ELSE IF d = Any THEN "jad_list"
                     ELSE                 "jad_stat"
               r  == [Idle EXCEPT !.pc = pc, !.imei = i, !.ver = d, !.live = TRUE]
    <2>1. Begin(w, r)
      BY <1>2 DEF OtapGet
    <2>2. /\ pc \in {"jad_reply", "jad_list", "jad_stat"}
          /\ pc = "jad_reply" => d = None
          /\ pc # "jad_reply" => Entitled(i) /\ d = otap[i].deliver
          /\ pc = "jad_list" => otap[i].deliver = Any
          /\ pc = "jad_stat" => otap[i].deliver # Any
      BY DEF Entitled
    <2>3. UNCHANGED <<otap, jars>>
      BY <1>2 DEF OtapGet, db
    <2> HIDE DEF d, pc, c
    <2>4. /\ req'[w].pc = pc /\ req'[w].imei = i /\ req'[w].ver = d
          /\ ~req'[w].simu /\ ~req'[w].up
      <3>1. req'[w] = r
        BY <2>1, BegunRequest
      <3> QED BY <3>1 DEF Idle
    <2>5. Offering(w)'
      <3>1. /\ req'[w].pc \notin VcSteps
            /\ Entitled(i)' <=> Entitled(i)
            /\ Wanted(i)' = Wanted(i)
        BY <2>2, <2>3, <2>4 DEF VcSteps, Entitled, Visible, Wanted
      <3>2. pc = "jad_stat" => d = Wanted(i)
        BY <2>2 DEF Wanted
      <3> QED BY <2>2, <2>3, <2>4, <3>1, <3>2 DEF Offering, Entitled, Visible, Wanted
    <2> QED BY <2>2, <2>4, <2>5 DEF Answers, Simulated, Pushing
  <1>3. ASSUME JarFile(w, i, dev[i].jad)
        PROVE  Answers(w)'
    <2> DEFINE v == IF dev[i].jad \in jars THEN dev[i].jad ELSE None
    <2>1. Begin(w, [Idle EXCEPT !.pc = "jar_reply", !.imei = i, !.live = TRUE, !.ver = v])
      BY <1>3 DEF JarFile
    <2> HIDE DEF v
    <2>2. req'[w] = [Idle EXCEPT !.pc = "jar_reply", !.imei = i, !.live = TRUE, !.ver = v]
      BY <2>1, BegunRequest
    <2>3. Elsewhere(w)'
      BY <2>2 DEF Idle, Elsewhere, Answering, VcSteps
    <2> QED BY <2>3, NotAnswering
  <1>4. ASSUME OtapNotify(w, i, c)
        PROVE  Answers(w)'
    <2>1. Elsewhere(w)'
      <3>1. CASE Visible(i, c)
        <4> DEFINE row == otap[i]
                   r   == [Idle EXCEPT !.pc = "row_save", !.imei = i, !.row = row, !.live = TRUE]
        <4>1. Begin(w, r)
          BY <1>4, <3>1 DEF OtapNotify
        <4> HIDE DEF row
        <4>2. req'[w] = r
          BY <4>1, BegunRequest
        <4> QED BY <4>2 DEF Idle, Elsewhere, Answering, VcSteps
      <3>2. CASE ~Visible(i, c)
        BY <1>4, <3>2 DEF OtapNotify, Serving, Elsewhere, Answering, VcSteps, Answers, Simulated
      <3> QED BY <3>1, <3>2
    <2> QED BY <2>1, NotAnswering
  <1> QED BY <1>1, <1>2, <1>3, <1>4 DEF DeviceRequest

-----------------------------------------------------------------------------
(* The further steps of versioncheck and of the JAD.                       *)
LEMMA AnswersVersionCheckSteps ==
  ASSUME Typed, Facts, NEW w \in Workers, Answers(w),
         VcList(w) \/ VcSave(w) \/ VcSettings(w) \/ VcOnce(w) \/ VcClear(w)
  PROVE  Answers(w)'
  <1> DEFINE r == req[w]
             i == r.imei
  <1>1. i \in Imeis /\ Fresh(w) /\ Simulated(w) /\ Pushing(w) /\ Offering(w)
    BY ShapeAt DEF VcList, VcSave, VcSettings, VcOnce, VcClear, Serving, WithImei, PCs, Facts,
                   Answers
  <1>2. UNCHANGED otap
    <2>1. CASE VcSave(w)
      <3>1. otap[i] # None /\ r.row = otap[i]
        BY <1>1, <2>1 DEF VcSave, Serving, Fresh
      <3> QED BY <1>1, <2>1, <3>1, SavedSame DEF VcSave
    <2>2. CASE ~VcSave(w)
      BY <2>2 DEF VcList, VcSettings, VcOnce, VcClear, db
    <2> QED BY <2>1, <2>2
  <1>3. ASSUME /\ req'[w].pc \in VcSteps \cup {"vc_reply"} /\ req'[w].pc # "vc_list"
               /\ req'[w].imei = i /\ req'[w].live = r.live /\ req'[w].simu = r.simu
               /\ r.pc \in VcSteps
               /\ req'[w].pc = "vc_save" => ~req'[w].up
               /\ req'[w].up /\ r.live => Entitled(i)
        PROVE  Offering(w)'
    BY <1>1, <1>2, <1>3 DEF Offering, VcSteps, Answering, Entitled, Visible
  <1>4. CASE VcList(w)
    <2>1. r.pc = "vc_list" /\ ~r.up /\ ~r.once /\ otap[i].deliver = Any
      BY <1>1, <1>4 DEF VcList, Serving, Fresh, Pushing, Offering
    <2>2. /\ req'[w].imei = i /\ req'[w].live = r.live /\ req'[w].simu = r.simu
          /\ req'[w].once = r.once /\ req'[w].up = r.up
          /\ req'[w].pc = IF jars = {} THEN "vc_reply" ELSE "vc_save"
      BY <1>4, ShapeAt DEF VcList, Go, Typed, TypeOK, Request
    <2>3. UNCHANGED jars
      BY <1>4 DEF VcList, db
    <2>4. Offering(w)'
      BY <1>3, <2>1, <2>2 DEF VcSteps
    <2> HIDE DEF r, i
    <2>5. Simulated(w)'
      BY <1>1, <2>1, <2>2 DEF Simulated, r
    <2>6. Pushing(w)'
      BY <1>2, <2>1, <2>2, <2>3 DEF Pushing
    <2> QED BY <2>4, <2>5, <2>6 DEF Answers
  <1>5. CASE VcSave(w)
    <2> DEFINE up == ~r.row.block /\ r.row.deliver # None /\ r.cur # r.ver
               pc == IF r.row.block THEN "vc_reply" ELSE "vc_sets"
    <2>1. req' = [req EXCEPT ![w].up = up, ![w].pc = pc]
      BY <1>5 DEF VcSave
    <2>2. /\ pc \in {"vc_reply", "vc_sets"} /\ (pc = "vc_reply" => r.row.block)
          /\ up => ~r.row.block /\ r.row.deliver # None
      OBVIOUS
    <2>3. r.pc = "vc_save" /\ otap[i] # None /\ r.row = otap[i] /\ ~r.once
      BY <1>1, <1>5 DEF VcSave, Serving, Fresh
    <2>4. r.live => Visible(i, CustomerOf[i])
      BY <1>1, <2>3 DEF Offering, VcSteps
    <2> HIDE DEF up, pc
    <2>5. /\ req'[w].pc = pc /\ req'[w].imei = i /\ req'[w].up = up
          /\ req'[w].live = r.live /\ req'[w].simu = r.simu /\ req'[w].once = r.once
      BY <2>1, ShapeAt DEF Typed, TypeOK, Request
    <2>6. req'[w].up /\ r.live => Entitled(i)
      BY <2>2, <2>3, <2>4, <2>5 DEF Entitled
    <2>7. Offering(w)'
      BY <1>3, <2>2, <2>3, <2>5, <2>6 DEF VcSteps
    <2> HIDE DEF r, i
    <2>8. Simulated(w)'
      BY <1>1, <2>2, <2>3, <2>5 DEF Simulated, r
    <2>9. Pushing(w)'
      BY <1>2, <2>2, <2>3, <2>5 DEF Pushing
    <2> QED BY <2>7, <2>8, <2>9 DEF Answers
  <1>6. CASE VcSettings(w)
    <2> DEFINE sets == ImeiSettings(i)
               pc   == IF r.simu THEN "vc_reply" ELSE "vc_once"
    <2>1. req' = [req EXCEPT ![w].sets = sets, ![w].pc = pc] /\ r.pc = "vc_sets"
      BY <1>6 DEF VcSettings, Serving
    <2>2. imeiset[i] # None => sets = imeiset[i].sname
      BY <1>1 DEF ImeiSettings, Facts, NoDanglingSet
    <2>3. pc \in {"vc_reply", "vc_once"} /\ (r.simu => pc = "vc_reply")
      OBVIOUS
    <2>4. imeiset' = imeiset
      BY <1>6 DEF VcSettings, db
    <2> HIDE DEF sets, pc
    <2>5. /\ req'[w].pc = pc /\ req'[w].imei = i /\ req'[w].sets = sets /\ req'[w].up = r.up
          /\ req'[w].live = r.live /\ req'[w].simu = r.simu /\ req'[w].once = r.once
      BY <2>1, ShapeAt DEF Typed, TypeOK, Request
    <2>6. r.up /\ r.live => Entitled(i)
      BY <1>1, <2>1 DEF Offering, Answering, VcSteps
    <2>7. Offering(w)'
      BY <1>3, <2>1, <2>3, <2>5, <2>6 DEF VcSteps
    <2> HIDE DEF r, i
    <2>8. Simulated(w)'
      BY <1>1, <2>3, <2>5 DEF Simulated, r
    <2>9. Pushing(w)'
      BY <2>2, <2>3, <2>4, <2>5 DEF Pushing
    <2> QED BY <2>7, <2>8, <2>9 DEF Answers
  <1>7. CASE VcOnce(w)
    <2>1. r.pc = "vc_once" /\ ~r.simu /\ (imeiset[i] # None => r.sets = imeiset[i].sname)
      BY <1>1, <1>7 DEF VcOnce, Serving, Fresh, ImeiSettings, Facts, NoDanglingSet, Simulated
    <2>2. /\ req'[w].pc \in {"vc_clear", "vc_reply"} /\ req'[w].imei = i
          /\ req'[w].sets = r.sets /\ req'[w].up = r.up
          /\ req'[w].live = r.live /\ req'[w].simu = r.simu
      <3>1. CASE imeiset[i] # None /\ imeiset[i].once
        <4>1. req' = [req EXCEPT ![w].once = TRUE, ![w].pc = "vc_clear"]
          BY <1>7, <3>1 DEF VcOnce
        <4> QED BY <4>1, ShapeAt DEF Typed, TypeOK, Request
      <3>2. CASE ~(imeiset[i] # None /\ imeiset[i].once)
        <4>1. Go(w, "vc_reply")
          BY <1>7, <3>2 DEF VcOnce
        <4> QED BY <4>1, ShapeAt DEF Go, Typed, TypeOK, Request
      <3> QED BY <3>1, <3>2
    <2>3. imeiset' = imeiset
      BY <1>7 DEF VcOnce, db
    <2>4. r.up /\ r.live => Entitled(i)
      BY <1>1, <2>1 DEF Offering, Answering, VcSteps
    <2>5. Offering(w)'
      BY <1>3, <2>1, <2>2, <2>4 DEF VcSteps
    <2> HIDE DEF r, i
    <2> QED BY <2>1, <2>2, <2>3, <2>5 DEF Answers, Simulated, Pushing
  <1>8. CASE VcClear(w)
    <2>1. r.pc = "vc_clear" /\ ~r.simu
      BY <1>1, <1>8 DEF VcClear, Serving, Simulated
    <2>2. /\ req'[w].pc = "vc_reply" /\ req'[w].imei = i /\ req'[w].up = r.up
          /\ req'[w].live = r.live /\ req'[w].simu = r.simu
      BY <1>8, ShapeAt DEF VcClear, Go, Typed, TypeOK, Request
    <2>3. imeiset'[i] = None
      BY <1>1, <1>8 DEF VcClear, Typed, TypeOK
    <2>4. r.up /\ r.live => Entitled(i)
      BY <1>1, <2>1 DEF Offering, Answering, VcSteps
    <2>5. Offering(w)'
      BY <1>3, <2>1, <2>2, <2>4 DEF VcSteps
    <2> HIDE DEF r, i
    <2> QED BY <2>1, <2>2, <2>3, <2>5 DEF Answers, Simulated, Pushing
  <1> QED BY <1>4, <1>5, <1>6, <1>7, <1>8

LEMMA AnswersJad ==
  ASSUME Typed, NEW w \in Workers, Answers(w), JadList(w) \/ JadStat(w)
  PROVE  Answers(w)'
  <1> DEFINE r == req[w]
             i == r.imei
  <1>1. /\ UNCHANGED <<otap, jars>> /\ r.pc \in {"jad_list", "jad_stat"} /\ Offering(w)
        /\ Simulated(w)
    BY DEF JadList, JadStat, Serving, db, Answers
  <1>2. /\ Entitled(i)
        /\ r.pc = "jad_list" => otap[i].deliver = Any
        /\ r.pc = "jad_stat" => r.ver = Wanted(i)
        /\ ~r.simu
    BY <1>1 DEF Offering, Simulated
  <1>3. /\ req'[w].imei = i /\ ~req'[w].simu
        /\ req'[w].pc \in {"jad_stat", "jad_reply"}
        /\ req'[w].pc = "jad_stat" => req'[w].ver = Wanted(i)
        /\ req'[w].pc = "jad_reply" /\ req'[w].ver # None =>
              req'[w].ver \in jars /\ req'[w].ver = Wanted(i)
    <2>1. CASE JadList(w)
      <3>1. r.pc = "jad_list" /\ Wanted(i) = Highest(jars)
        BY <1>2, <2>1 DEF JadList, Serving, Wanted
      <3>2. CASE jars = {}
        <4>1. req' = [req EXCEPT ![w].pc = "jad_reply", ![w].ver = None]
          BY <2>1, <3>2 DEF JadList
        <4> QED BY <1>2, <4>1, ShapeAt DEF Typed, TypeOK, Request
      <3>3. CASE jars # {}
        <4> DEFINE top == Highest(jars)
        <4>1. req' = [req EXCEPT ![w].pc = "jad_stat", ![w].ver = top]
          BY <2>1, <3>3 DEF JadList
        <4> HIDE DEF top
        <4>2. /\ req'[w].imei = i /\ req'[w].simu = r.simu
              /\ req'[w].pc = "jad_stat" /\ req'[w].ver = top
          BY <4>1, ShapeAt DEF Typed, TypeOK, Request
        <4> QED BY <1>2, <3>1, <4>2 DEF top
      <3> QED BY <3>2, <3>3
    <2>2. CASE JadStat(w)
      <3> DEFINE v == IF r.ver \in jars THEN r.ver ELSE None
      <3>1. req' = [req EXCEPT ![w].pc = "jad_reply", ![w].ver = v] /\ r.pc = "jad_stat"
        BY <2>2 DEF JadStat, Serving
      <3>2. v # None => v \in jars /\ v = r.ver
        OBVIOUS
      <3> HIDE DEF v
      <3>3. /\ req'[w].imei = i /\ req'[w].simu = r.simu
            /\ req'[w].pc = "jad_reply" /\ req'[w].ver = v
        BY <3>1, ShapeAt DEF Typed, TypeOK, Request
      <3> QED BY <1>2, <3>1, <3>2, <3>3
    <2> QED BY <2>1, <2>2
  <1>4. Offering(w)'
    <2> HIDE DEF r, i
    <2> QED BY <1>1, <1>2, <1>3 DEF Offering, VcSteps, Answering, Entitled, Visible, Wanted
  <1> QED BY <1>3, <1>4 DEF Answers, Simulated, Pushing

LEMMA AnswersFault ==
  ASSUME Typed, NEW w \in Workers, Answers(w), LoseReply(w) \/ Crash(w)
  PROVE  Answers(w)'
  <1>1. CASE LoseReply(w)
    <2>1. req' = [req EXCEPT ![w].live = FALSE] /\ UNCHANGED db
      BY <1>1 DEF LoseReply
    <2>2. /\ req'[w].pc = req[w].pc   /\ req'[w].imei = req[w].imei
          /\ req'[w].row = req[w].row /\ req'[w].sets = req[w].sets
          /\ req'[w].ver = req[w].ver /\ req'[w].up = req[w].up
          /\ req'[w].once = req[w].once /\ req'[w].simu = req[w].simu /\ ~req'[w].live
      BY <2>1, ShapeAt DEF Typed, TypeOK, Request
    <2>3. Simulated(w)' /\ Pushing(w)'
      BY <2>1, <2>2 DEF Answers, Simulated, Pushing, db
    <2>4. Offering(w)'
      BY <2>1, <2>2 DEF Answers, Offering, Entitled, Visible, Wanted, db
    <2> QED BY <2>3, <2>4 DEF Answers
  <1>2. CASE Crash(w)
    <2>1. Elsewhere(w)'
      BY <1>2 DEF Crash, Finish, Typed, TypeOK, Idle, Elsewhere, Answering, VcSteps
    <2> QED BY <2>1, NotAnswering
  <1> QED BY <1>1, <1>2

(* With one worker, whoever steps is w.                                    *)
LEMMA WhoSteps ==
  ASSUME OneWorker, NEW w \in Workers, Next
  PROVE  \/ OperatorRequest(w) \/ (\E i \in Imeis : DeviceRequest(w, i))
         \/ HandlerStep(w) \/ LoseReply(w) \/ Crash(w)
  BY DEF Next, OneWorker

LEMMA AnswersNext ==
  ASSUME OneWorker, Typed, Facts, NEW w \in Workers, Answers(w), [Next]_vars
  PROVE  Answers(w)'
  <1>1. CASE UNCHANGED vars
    BY <1>1 DEF vars, Answers, Simulated, Pushing, Offering, Entitled, Visible, Wanted
  <1>2. CASE Next
    <2>1. ASSUME OperatorRequest(w)
          PROVE  Answers(w)'
      <3>1. Simulated(w)
        BY DEF Answers
      <3> QED BY <2>1, <3>1, OperatorElsewhere, NotAnswering, AnswersVersionCheck
    <2>2. ASSUME HandlerStep(w)
          PROVE  Answers(w)'
      <3>1. Simulated(w)
        BY DEF Answers
      <3> QED BY <2>2, <3>1, HandlerElsewhere, NotAnswering, AnswersVersionCheckSteps, AnswersJad
              DEF HandlerStep
    <2> QED BY <1>2, <2>1, <2>2, WhoSteps, AnswersDevice, AnswersFault
  <1> QED BY <1>1, <1>2

-----------------------------------------------------------------------------
(* The theorems.                                                           *)
AllAnswers == \A w \in Workers : Answers(w)

LEMMA AnswersAlways == ASSUME OneWorker PROVE Spec => [](Typed /\ Facts /\ AllAnswers)
  <1>1. Init => Typed /\ Facts /\ AllAnswers
    <2>1. Init => AllAnswers
      BY DEF Init, AllAnswers, Answers, Simulated, Pushing, Offering, Idle, Answering, VcSteps
    <2> QED BY <2>1, TypedInit, FactsInit
  <1>2. Typed /\ Facts /\ AllAnswers /\ [Next]_vars => (Typed /\ Facts /\ AllAnswers)'
    BY TypedNext, FactsNext, AnswersNext DEF AllAnswers
  <1> QED BY <1>1, <1>2, PTL DEF Spec

(* A device that is registered and not blocked is answered with the        *)
(* settings assigned to it, unless it is given "any" JAR of none, whatever *)
(* operators, losses and crashes come between the accesses of versioncheck.*)
THEOREM SettingsArePushed == ASSUME OneWorker PROVE Spec => []SettingsPushedWithJars
  <1>1. AllAnswers => SettingsPushedWithJars
    BY DEF AllAnswers, Answers, Pushing, SettingsPushedWithJars, Serving
  <1> QED BY <1>1, AnswersAlways, PTL

(* A poll takes away nothing but a once-only assignment, of a device that  *)
(* is registered and not blocked: the DELETE of versioncheck is the only   *)
(* one it gets to (otap.py:782-789).                                       *)
THEOREM PermanentIsKept == ASSUME OneWorker PROVE Spec => PermanentStays
  <1> DEFINE kept == ops' = ops => \A i \in Imeis :
                imeiset[i] # None /\ imeiset'[i] # imeiset[i] =>
                   /\ imeiset[i].once /\ imeiset'[i] = None
                   /\ otap[i] # None /\ ~otap[i].block
  <1>1. ASSUME Typed, Facts, [Next]_vars PROVE kept
    <2> SUFFICES ASSUME ops' = ops, NEW j \in Imeis, imeiset[j] # None, imeiset'[j] # imeiset[j]
                 PROVE  imeiset[j].once /\ imeiset'[j] = None /\ otap[j] # None /\ ~otap[j].block
      OBVIOUS
    <2>1. Next
      BY <1>1 DEF vars
    <2>2. ops \in Nat
      BY <1>1 DEF Typed, TypeOK
    <2>3. PICK w \in Workers :
             \/ OperatorRequest(w) \/ (\E i \in Imeis : DeviceRequest(w, i))
             \/ HandlerStep(w) \/ LoseReply(w) \/ Crash(w)
      BY <2>1 DEF Next
    <2>4. ~OperatorRequest(w)
      <3>1. OperatorRequest(w) => ops' = ops + 1
        BY DEF OperatorRequest, AddImei, Deliver, DeliverLatest, Purge, JarUpload, Block,
               SetColumn, SDefine, SUndef, SSet, SUnset, Operator
      <3> QED BY <2>2, <3>1, SMTT(30)
    <2>5. VcClear(w) \/ SetSave(w)
      <3>1. ~LoseReply(w) /\ ~Crash(w) /\ ~\E i \in Imeis : DeviceRequest(w, i)
        BY DEF LoseReply, Crash, DeviceRequest, VersionCheck, OtapGet, JarFile, OtapNotify, db
      <3> QED BY <2>3, <2>4, <3>1, SMTT(60)
              DEF HandlerStep, AddSave, DeliverCheck, DeliverGet, DeliverSave, PurgeRemove,
                  RowSave, DefineSave, UndefDelete, VcList, VcSave, VcSettings, VcOnce,
                  VcReply, JadList, JadStat, JadReply, JarReply, db
    <2>6. req[w].imei \in Imeis /\ imeiset \in [Imeis -> (Assignment \cup {None})]
      BY <1>1, <2>5, ShapeAt DEF VcClear, SetSave, Serving, WithImei, PCs, Typed, TypeOK
    <2>7. VcClear(w)
      BY <2>5, <2>6 DEF SetSave
    <2>8. imeiset' = [imeiset EXCEPT ![req[w].imei] = None] /\ Fresh(w) /\ req[w].pc = "vc_clear"
      BY <1>1, <2>7 DEF VcClear, Facts, Serving
    <2>9. j = req[w].imei
      BY <2>6, <2>8
    <2> QED BY <2>6, <2>8, <2>9 DEF Fresh
  <1>2. Typed /\ Facts /\ AllAnswers /\ [Next]_vars => [kept]_vars
    BY <1>1
  <1> QED BY <1>2, AnswersAlways, PTL DEF Spec, PermanentStays

(* "otc versioncheck" reads only: a simulation, in every one of its steps, *)
(* moves no row, uses no assignment up and starts no upgrade.              *)
THEOREM SimulationOnlyReads == ASSUME OneWorker PROVE Spec => SimulationIsReadOnly
  <1> DEFINE reads == \A w \in Workers :
                req[w].simu /\ req'[w] # req[w] => UNCHANGED <<db, dev, given>>
  <1>1. ASSUME Typed, Facts, AllAnswers, [Next]_vars PROVE reads
    <2> SUFFICES ASSUME NEW w \in Workers, req[w].simu, req'[w] # req[w]
                 PROVE  UNCHANGED <<db, dev, given>>
      OBVIOUS
    <2>1. /\ req[w].pc \in {"vc_list", "vc_save", "vc_sets", "vc_reply"}
          /\ ~req[w].live /\ ~req[w].once
      BY <1>1 DEF AllAnswers, Answers, Simulated
    <2>2. Next
      <3>1. vars' # vars
        BY SMTT(30) DEF vars
      <3> QED BY <1>1, <3>1
    <2>3. ~OperatorRequest(w) /\ ~(\E i \in Imeis : DeviceRequest(w, i)) /\ ~LoseReply(w)
      BY <2>1 DEF OperatorRequest, AddImei, Deliver, DeliverLatest, Purge, JarUpload, Block,
               SetColumn, SDefine, SUndef, SSet, SUnset, DeviceRequest, VersionCheck, OtapGet,
               JarFile, OtapNotify, Begin, Serving, LoseReply
    <2>4. CASE Crash(w)
      BY <2>1, <2>4 DEF Crash, Disconnect
    <2>5. CASE HandlerStep(w)
      <3>1. VcList(w) \/ VcSave(w) \/ VcSettings(w) \/ VcReply(w)
        BY <2>1, <2>5
        DEF HandlerStep, AddSave, DeliverCheck, DeliverGet, DeliverSave, PurgeRemove, RowSave,
            DefineSave, UndefDelete, SetSave, VcOnce, VcClear, JadList, JadStat, JadReply,
            JarReply, Serving
      <3> QED BY <2>1, <3>1 DEF VcList, VcSave, VcSettings, VcReply, db
    <2> QED BY <2>2, <2>3, <2>4, <2>5, WhoSteps
  <1>2. Typed /\ Facts /\ AllAnswers /\ [Next]_vars => [reads]_vars
    BY <1>1
  <1> QED BY <1>2, AnswersAlways, PTL DEF Spec, SimulationIsReadOnly

(* The reply that tells a device to upgrade, and the JAD it is given, still*)
(* agree with its row and the directory when they leave the server, though *)
(* they were decided several accesses before (otap.py:737-826, 900-972).   *)
THEOREM OffersAreTrue == ASSUME OneWorker PROVE Spec => OffersFollowTheRow
  <1> DEFINE told(i) == dev[i].phase # "told" /\ dev'[i].phase = "told"
             jad(i)  == dev[i].phase # "jad" /\ dev'[i].phase = "jad"
             offers  == \A i \in Imeis :
                /\ told(i) => Entitled(i)
                /\ jad(i) => /\ Entitled(i)
                             /\ dev'[i].jad \in jars
                             /\ dev'[i].jad = IF otap[i].deliver = Any THEN Highest(jars)
                                                                       ELSE otap[i].deliver
  <1>1. ASSUME Typed, Facts, AllAnswers, [Next]_vars PROVE offers
    <2> SUFFICES ASSUME NEW j \in Imeis, told(j) \/ jad(j)
                 PROVE  /\ told(j) => Entitled(j)
                        /\ jad(j) => Entitled(j) /\ dev'[j].jad \in jars
                                     /\ dev'[j].jad = Wanted(j)
      BY DEF Wanted
    <2>1. PICK w \in Workers :
             \/ OperatorRequest(w) \/ (\E i \in Imeis : DeviceRequest(w, i))
             \/ HandlerStep(w) \/ LoseReply(w) \/ Crash(w)
      BY <1>1 DEF Next, vars
    <2>2. dev \in [Imeis -> Device] /\ Offering(w)
      BY <1>1 DEF Typed, TypeOK, AllAnswers, Answers
    <2>3. VcReply(w) \/ JadReply(w)
      <3>1. ~OperatorRequest(w) /\ ~(\E i \in Imeis : DeviceRequest(w, i))
        BY <2>2 DEF OperatorRequest, AddImei, Deliver, DeliverLatest, Purge, JarUpload, Block,
               SetColumn, SDefine, SUndef, SSet, SUnset, DeviceRequest, VersionCheck, OtapGet,
               JarFile, OtapNotify, Device
      <3>2. ~LoseReply(w) /\ ~Crash(w)
        BY <2>2 DEF LoseReply, Crash, Disconnect, Device
      <3>3. ~RowSave(w) /\ ~JarReply(w)
        BY <2>2 DEF RowSave, JarReply, Device
      <3> QED BY <2>1, <3>1, <3>2, <3>3, SMTT(60)
              DEF HandlerStep, AddSave, DeliverCheck, DeliverGet, DeliverSave, PurgeRemove,
                  DefineSave, UndefDelete, SetSave, VcList, VcSave, VcSettings, VcOnce,
                  VcClear, JadList, JadStat
    <2>4. CASE VcReply(w)
      <3>1. req[w].pc = "vc_reply" /\ req[w].live /\ req[w].up
            /\ dev' = [dev EXCEPT ![req[w].imei].phase = "told"]
        BY <2>4 DEF VcReply, Serving
      <3>2. j = req[w].imei /\ ~jad(j)
        BY <2>2, <3>1 DEF Device
      <3>3. Entitled(j)
        BY <2>2, <3>1, <3>2 DEF Offering, Answering
      <3> QED BY <3>2, <3>3
    <2>5. CASE JadReply(w)
      <3> DEFINE v == req[w].ver
                 p == IF v = None THEN "run" ELSE "jad"
      <3>1. req[w].pc = "jad_reply"
            /\ dev' = [dev EXCEPT ![req[w].imei].phase = p, ![req[w].imei].jad = v]
        BY <2>5 DEF JadReply, Serving
      <3>2. p \in {"run", "jad"} /\ (p = "jad" => v # None)
        OBVIOUS
      <3> HIDE DEF v, p
      <3>3. j = req[w].imei /\ ~told(j) /\ dev'[j].phase = p /\ dev'[j].jad = v
        BY <2>2, <3>1, <3>2 DEF Device
      <3>4. jad(j) => Entitled(j) /\ v \in jars /\ v = Wanted(j)
        BY <2>2, <3>1, <3>2, <3>3 DEF Offering, v
      <3> QED BY <3>3, <3>4
    <2> QED BY <2>3, <2>4, <2>5
  <1>2. Typed /\ Facts /\ AllAnswers /\ [Next]_vars => [offers]_vars
    BY <1>1
  <1> QED BY <1>2, AnswersAlways, PTL DEF Spec, OffersFollowTheRow
=============================================================================
