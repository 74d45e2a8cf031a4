-------------------------- MODULE OtapServerProofs --------------------------
(* Theorems about OtapServer, for every value of its constants.            *)
EXTENDS OtapServer, TLAPS

(* The type invariant is not inductive alone: what o.save() writes is a    *)
(* row only because of what the handler's step says its locals hold.       *)
Typed == TypeOK /\ \A w \in Workers : Shape(req[w])

-----------------------------------------------------------------------------
(* Requests: a request that begins, moves on or ends leaves well-typed,    *)
(* well-shaped requests behind.                                            *)
ReqTyped == req' \in [Workers -> Request] /\ \A w \in Workers : Shape(req'[w])

(* The variables other than req                                            *)
RestTyped ==
    /\ jars'     \in SUBSET Versions
    /\ otap'     \in [Imeis -> Row \cup {None}]
    /\ settings' \in SUBSET Snames
    /\ imeiset'  \in [Imeis -> Assignment \cup {None}]
    /\ dev'      \in [Imeis -> Device]
    /\ given'    \in [Imeis -> Nat]
    /\ ops'      \in 0 .. MaxOps
    /\ faults'   \in 0 .. MaxFaults

LEMMA TypedParts == ReqTyped /\ RestTyped => Typed'
  BY DEF ReqTyped, RestTyped, Typed, TypeOK

(* A request that touches no table, device or counter but its own           *)
LEMMA OperatorRest ==
  ASSUME Typed, Operator, UNCHANGED <<db, dev, given, faults>>
  PROVE  RestTyped
  BY BoundAssumption DEF Typed, TypeOK, Operator, RestTyped, db

LEMMA QuietRest ==
  ASSUME Typed, UNCHANGED <<db, dev, given, ops, faults>>
  PROVE  RestTyped
  BY DEF Typed, TypeOK, RestTyped, db

LEMMA IdleShape == Idle \in Request /\ Shape(Idle)
  BY NullAssumption DEF Idle, Request, PCs, Deliverables, Shape, WithImei, WithRow

(* The shapes of the requests that carry a row or a choice                 *)
RequestOf(r) == r \in Request /\ Shape(r)

LEMMA AddRequest ==
  ASSUME NEW i \in Imeis, NEW row \in Row, NEW found \in BOOLEAN
  PROVE  RequestOf([Idle EXCEPT !.pc = "add_save", !.imei = i, !.row = row, !.found = found])
  <1> DEFINE r == [Idle EXCEPT !.pc = "add_save", !.imei = i, !.row = row, !.found = found]
  <1>1. r \in Request
    BY DEF Idle, Request, Deliverables, PCs
  <1>2. Shape(r)
    BY DEF Idle, PCs, Shape, WithImei, WithRow
  <1> QED BY <1>1, <1>2 DEF RequestOf

LEMMA NotifyRequest ==
  ASSUME NEW i \in Imeis, NEW row \in Row
  PROVE  RequestOf([Idle EXCEPT !.pc = "row_save", !.imei = i, !.row = row, !.live = TRUE])
  <1> DEFINE r == [Idle EXCEPT !.pc = "row_save", !.imei = i, !.row = row, !.live = TRUE]
  <1>1. r \in Request
    BY DEF Idle, Request, Deliverables, PCs
  <1>2. Shape(r)
    BY DEF Idle, PCs, Shape, WithImei, WithRow
  <1> QED BY <1>1, <1>2 DEF RequestOf

LEMMA CheckRequest ==
  ASSUME NEW i \in Imeis, NEW cur \in Versions, NEW simu \in BOOLEAN, NEW live \in BOOLEAN,
         NEW row \in Row \cup {None}, NEW ver \in Deliverables, NEW pc \in PCs,
         pc = "vc_reply" \/ (pc \in {"vc_list", "vc_save"} /\ row \in Row)
  PROVE  RequestOf([Idle EXCEPT !.pc = pc, !.imei = i, !.cur = cur, !.simu = simu,
                                !.live = live, !.row = row, !.ver = ver])
  <1> DEFINE r == [Idle EXCEPT !.pc = pc, !.imei = i, !.cur = cur, !.simu = simu,
                               !.live = live, !.row = row, !.ver = ver]
  <1>1. r \in Request
    BY DEF Idle, Request
  <1>2. Shape(r)
    BY DEF Idle, PCs, Shape, WithImei, WithRow
  <1> QED BY <1>1, <1>2 DEF RequestOf

LEMMA JadRequest ==
  ASSUME NEW i \in Imeis, NEW d \in Deliverables, NEW pc \in PCs,
         \/ pc = "jad_reply" /\ d = None
         \/ pc = "jad_list"
         \/ pc = "jad_stat" /\ d \in Versions
  PROVE  RequestOf([Idle EXCEPT !.pc = pc, !.imei = i, !.ver = d, !.live = TRUE])
  <1> DEFINE r == [Idle EXCEPT !.pc = pc, !.imei = i, !.ver = d, !.live = TRUE]
  <1>1. r \in Request
    BY DEF Idle, Request
  <1>2. Shape(r)
    BY DEF Idle, PCs, Shape, WithImei, WithRow
  <1> QED BY <1>1, <1>2 DEF RequestOf

LEMMA JarRequest ==
  ASSUME NEW i \in Imeis, NEW v \in Versions \cup {None}
  PROVE  RequestOf([Idle EXCEPT !.pc = "jar_reply", !.imei = i, !.live = TRUE, !.ver = v])
  <1> DEFINE r == [Idle EXCEPT !.pc = "jar_reply", !.imei = i, !.live = TRUE, !.ver = v]
  <1>1. r \in Request
    BY DEF Idle, Request, Deliverables, PCs
  <1>2. Shape(r)
    BY DEF Idle, PCs, Shape, WithImei, WithRow
  <1> QED BY <1>1, <1>2 DEF RequestOf

LEMMA ReplaceReq ==
  ASSUME Typed, NEW w \in Workers, NEW r \in Request, Shape(r),
         req' = [req EXCEPT ![w] = r]
  PROVE  ReqTyped
  BY DEF Typed, TypeOK, ReqTyped

LEMMA BeginReq ==
  ASSUME Typed, NEW w \in Workers, NEW r \in Request, Shape(r), Begin(w, r)
  PROVE  ReqTyped
  BY ReplaceReq DEF Begin

LEMMA FinishReq ==
  ASSUME Typed, NEW w \in Workers, Finish(w)
  PROVE  ReqTyped
  BY ReplaceReq, IdleShape DEF Finish

LEMMA SameReq ==
  ASSUME Typed, UNCHANGED req
  PROVE  ReqTyped
  BY DEF Typed, TypeOK, ReqTyped

(* list_jars()[-1] is one of the jars.                                     *)
LEMMA HighestIsThere ==
  ASSUME NEW J \in SUBSET Versions, J # {}
  PROVE  Highest(J) \in J /\ \A u \in J : u <= Highest(J)
  BY VersionsAssumption DEF Highest

LEMMA RowOf ==
  ASSUME Typed, NEW i \in Imeis, otap[i] # None
  PROVE  otap[i] \in Row /\ otap[i].deliver \in Deliverables
  <1>1. otap[i] \in Row
    BY DEF Typed, TypeOK
  <1> QED BY <1>1 DEF Row

LEMMA PhaseOf ==
  ASSUME Typed, NEW i \in Imeis, NEW p \in Phases, dev' = [dev EXCEPT ![i].phase = p]
  PROVE  dev' \in [Imeis -> Device]
  BY DEF Typed, TypeOK, Device

LEMMA SavedRow ==
  ASSUME Typed, NEW i \in Imeis, NEW row \in Row, SaveRow(i, row)
  PROVE  otap' \in [Imeis -> Row \cup {None}]
  BY DEF Typed, TypeOK, SaveRow

LEMMA Disconnected ==
  ASSUME Typed, NEW w \in Workers, Disconnect(w)
  PROVE  dev' \in [Imeis -> Device]
  BY DEF Typed, TypeOK, Disconnect, Device, Phases, Shape

LEMMA VersionCheckReq ==
  ASSUME Typed, NEW w \in Workers, NEW i \in Imeis, NEW c \in Custids,
         NEW cur \in Versions, NEW simu \in BOOLEAN, VersionCheck(w, i, c, cur, simu)
  PROVE  ReqTyped
  <1> DEFINE pc  == IF ~Visible(i, c)              THEN "vc_reply"
                    ELSE IF otap[i].deliver = Any  THEN "vc_list"
                    ELSE                                "vc_save"
             row == IF Visible(i, c) THEN otap[i] ELSE None
             ver == IF Visible(i, c) THEN otap[i].deliver ELSE None
             live == ~simu
             r   == [Idle EXCEPT !.pc = pc, !.imei = i, !.cur = cur, !.simu = simu,
                                 !.live = live, !.row = row, !.ver = ver]
  <1>1. /\ row \in Row \cup {None} /\ ver \in Deliverables /\ pc \in PCs
        /\ pc = "vc_reply" \/ (pc \in {"vc_list", "vc_save"} /\ row \in Row)
    <2>1. CASE Visible(i, c)
      <3>1. row \in Row /\ ver \in Deliverables
        BY <2>1, RowOf DEF Visible
      <3>2. pc \in {"vc_list", "vc_save"}
        BY <2>1
      <3> HIDE DEF row, ver, pc
      <3> QED BY <3>1, <3>2 DEF PCs
    <2>2. CASE ~Visible(i, c)
      <3>1. row = None /\ ver = None
        BY <2>2
      <3>2. pc = "vc_reply"
        BY <2>2
      <3> HIDE DEF row, ver, pc
      <3> QED BY <3>1, <3>2 DEF Deliverables, PCs
    <2> QED BY <2>1, <2>2
  <1>2. Begin(w, r)
    BY DEF VersionCheck
  <1>3. live \in BOOLEAN
    OBVIOUS
  <1> HIDE DEF pc, row, ver, live
  <1>4. RequestOf(r)
    BY <1>1, <1>3, CheckRequest
  <1> HIDE DEF r
  <1> QED BY <1>2, <1>4, BeginReq DEF RequestOf

-----------------------------------------------------------------------------
LEMMA TypedInit == Init => Typed
  BY IdleShape, BoundAssumption, NullAssumption
  DEF Init, Typed, TypeOK, Device, Phases

(* Requests of the operators                                               *)
LEMMA TypedOperator ==
  ASSUME Typed, NEW w \in Workers, OperatorRequest(w)
  PROVE  Typed'
  <1> USE DEF Request, PCs, Deliverables, Shape, WithImei, WithRow
  <1> SUFFICES ReqTyped /\ RestTyped
    BY TypedParts
  <1>1. ASSUME NEW i \in Imeis, NEW c \in Custids, AddImei(w, i, c)
        PROVE  ReqTyped /\ RestTyped
    <2> DEFINE row == IF otap[i] # None
                        THEN [otap[i] EXCEPT !.custid = c, !.block = FALSE]
                        ELSE [custid |-> c, block |-> FALSE, deliver |-> None]
    <2> DEFINE found == otap[i] # None
    <2> DEFINE r == [Idle EXCEPT !.pc = "add_save", !.imei = i, !.row = row,
                                 !.found = found]
    <2>1. row \in Row /\ found \in BOOLEAN
      <3>1. CASE otap[i] = None
        BY <3>1 DEF Row
      <3>2. CASE otap[i] # None
        BY <3>2, RowOf DEF Row
      <3> QED BY <3>1, <3>2
    <2>2. Begin(w, r)
      BY <1>1 DEF AddImei
    <2> HIDE DEF row, found
    <2>3. RequestOf(r)
      BY <2>1, AddRequest
    <2> HIDE DEF r
    <2> QED BY <1>1, <2>2, <2>3, BeginReq, OperatorRest DEF AddImei, RequestOf
  <1>2. ASSUME NEW i \in Imeis, NEW v \in Versions \cup {Any}, Deliver(w, i, v)
        PROVE  ReqTyped /\ RestTyped
    <2> DEFINE r == [Idle EXCEPT !.pc = IF v = Any THEN "deliver_get" ELSE "deliver_check",
                                 !.imei = i, !.ver = v]
    <2>1. r \in Request /\ Shape(r)
      BY IdleShape DEF Idle
    <2>2. Begin(w, r)
      BY <1>2 DEF Deliver
    <2> HIDE DEF r
    <2> QED BY <1>2, <2>1, <2>2, BeginReq, OperatorRest DEF Deliver
  <1>3. ASSUME NEW i \in Imeis, DeliverLatest(w, i)
        PROVE  ReqTyped /\ RestTyped
    <2>1. Highest(jars) \in Versions
      BY <1>3, HighestIsThere DEF DeliverLatest, Typed, TypeOK
    <2> QED BY <1>2, <1>3, <2>1 DEF DeliverLatest
  <1>4. ASSUME NEW v \in Versions, Purge(w, v)
        PROVE  ReqTyped /\ RestTyped
    <2> DEFINE r == [Idle EXCEPT !.pc = "purge_remove", !.ver = v]
    <2>1. r \in Request /\ Shape(r)
      BY IdleShape DEF Idle
    <2>2. Begin(w, r)
      BY <1>4 DEF Purge
    <2> HIDE DEF r
    <2> QED BY <1>4, <2>1, <2>2, BeginReq, OperatorRest DEF Purge
  <1>5. ASSUME NEW v \in Versions, JarUpload(w, v)
        PROVE  ReqTyped /\ RestTyped
    <2>1. ReqTyped
      BY <1>5, SameReq DEF JarUpload
    <2>2. RestTyped
      BY <1>5, BoundAssumption DEF JarUpload, Operator, Typed, TypeOK, RestTyped
    <2> QED BY <2>1, <2>2
  <1>6. ASSUME NEW S, NEW b \in BOOLEAN, Block(w, S, b)
        PROVE  ReqTyped /\ RestTyped
    <2>1. ReqTyped
      BY <1>6, SameReq DEF Block
    <2>2. otap' \in [Imeis -> Row \cup {None}]
      BY <1>6 DEF Block, Typed, TypeOK, Row
    <2>3. RestTyped
      BY <1>6, <2>2, BoundAssumption DEF Block, Operator, Typed, TypeOK, RestTyped
    <2> QED BY <2>1, <2>3
  <1>7. ASSUME NEW i \in Imeis, SetColumn(w, i)
        PROVE  ReqTyped /\ RestTyped
    <2> DEFINE r == [Idle EXCEPT !.pc = "row_save", !.imei = i, !.row = otap[i]]
    <2>1. otap[i] \in Row
      BY <1>7 DEF SetColumn, Typed, TypeOK
    <2>2. r \in Request /\ Shape(r)
      BY <2>1, IdleShape DEF Idle
    <2>3. Begin(w, r)
      BY <1>7 DEF SetColumn
    <2> HIDE DEF r
    <2> QED BY <1>7, <2>2, <2>3, BeginReq, OperatorRest DEF SetColumn
  <1>8. ASSUME NEW s \in Snames, SDefine(w, s)
        PROVE  ReqTyped /\ RestTyped
    <2> DEFINE r == [Idle EXCEPT !.pc = "define_save", !.sname = s]
    <2>1. r \in Request /\ Shape(r)
      BY IdleShape DEF Idle
    <2>2. Begin(w, r)
      BY <1>8 DEF SDefine
    <2> HIDE DEF r
    <2> QED BY <1>8, <2>1, <2>2, BeginReq, OperatorRest DEF SDefine
  <1>9. ASSUME NEW s \in Snames, SUndef(w, s)
        PROVE  ReqTyped /\ RestTyped
    <2> DEFINE r == [Idle EXCEPT !.pc = "undef_delete", !.sname = s]
    <2>1. r \in Request /\ Shape(r)
      BY IdleShape DEF Idle
    <2>2. Begin(w, r)
      BY <1>9 DEF SUndef
    <2> HIDE DEF r
    <2> QED BY <1>9, <2>1, <2>2, BeginReq, OperatorRest DEF SUndef
  <1>10. ASSUME NEW i \in Imeis, NEW s \in Snames, NEW once \in BOOLEAN, SSet(w, i, s, once)
         PROVE  ReqTyped /\ RestTyped
    <2> DEFINE r == [Idle EXCEPT !.pc = "set_save", !.imei = i, !.sname = s, !.once = once]
    <2>1. r \in Request /\ Shape(r)
      BY IdleShape DEF Idle
    <2>2. Begin(w, r)
      BY <1>10 DEF SSet
    <2> HIDE DEF r
    <2> QED BY <1>10, <2>1, <2>2, BeginReq, OperatorRest DEF SSet
  <1>11. ASSUME NEW i \in Imeis, NEW s \in Snames, SUnset(w, i, s)
         PROVE  ReqTyped /\ RestTyped
    <2>1. ReqTyped
      BY <1>11, SameReq DEF SUnset
    <2>2. RestTyped
      BY <1>11, BoundAssumption DEF SUnset, Operator, Typed, TypeOK, RestTyped
    <2> QED BY <2>1, <2>2
  <1>12. ASSUME NEW i \in Imeis, NEW c \in Custids, NEW cur \in Versions,
                Operator, VersionCheck(w, i, c, cur, TRUE)
         PROVE  ReqTyped /\ RestTyped
    BY <1>12, VersionCheckReq, OperatorRest DEF VersionCheck
  <1> QED
    BY <1>1, <1>2, <1>3, <1>4, <1>5, <1>6, <1>7, <1>8, <1>9, <1>10, <1>11, <1>12
    DEF OperatorRequest

-----------------------------------------------------------------------------
(* Requests of the devices                                                 *)
LEMMA TypedDevice ==
  ASSUME Typed, NEW w \in Workers, NEW i \in Imeis, DeviceRequest(w, i)
  PROVE  Typed'
  <1> USE DEF Request, PCs, Deliverables, Shape, WithImei, WithRow
  <1> SUFFICES ReqTyped /\ RestTyped
    BY TypedParts
  <1>0. UNCHANGED ops /\ CustomerOf[i] \in Custids /\ dev[i].ver \in Versions
    BY CustomerAssumption DEF DeviceRequest, NoOperator, Typed, TypeOK, Device
  <1>1. CASE VersionCheck(w, i, CustomerOf[i], dev[i].ver, FALSE)
    BY <1>0, <1>1, VersionCheckReq, QuietRest DEF VersionCheck
  <1>2. CASE OtapGet(w, i, CustomerOf[i])
    <2> DEFINE d == IF Visible(i, CustomerOf[i]) /\ ~otap[i].block
                      THEN otap[i].deliver ELSE None
    <2> DEFINE pc == IF d = None     THEN "jad_reply"
                     ELSE IF d = Any THEN "jad_list"
                     ELSE                 "jad_stat"
    <2> DEFINE r == [Idle EXCEPT !.pc = pc, !.imei = i, !.ver = d, !.live = TRUE]
    <2>1. /\ d \in Deliverables /\ pc \in PCs
          /\ \/ pc = "jad_reply" /\ d = None
             \/ pc = "jad_list"
             \/ pc = "jad_stat" /\ d \in Versions
      <3>1. d \in Deliverables
        BY RowOf DEF Visible
      <3>2. CASE d = None
        BY <3>2
      <3>3. CASE d = Any /\ d # None
        <4>1. pc = "jad_list"
          BY <3>3
        <4> HIDE DEF d, pc
        <4> QED BY <3>1, <4>1
      <3>4. CASE d \in Versions /\ d # None
        <4>1. pc = "jad_stat"
          BY <3>4, NullAssumption
        <4> HIDE DEF d, pc
        <4> QED BY <3>1, <3>4, <4>1
      <3> HIDE DEF d, pc
      <3> QED BY <3>1, <3>2, <3>3, <3>4 DEF Deliverables
    <2>2. Begin(w, r)
      BY <1>2 DEF OtapGet
    <2> HIDE DEF d, pc
    <2>3. RequestOf(r)
      BY <2>1, JadRequest
    <2> HIDE DEF r
    <2> QED BY <1>0, <1>2, <2>2, <2>3, BeginReq, QuietRest DEF OtapGet, RequestOf
  <1>3. CASE JarFile(w, i, dev[i].jad)
    <2> DEFINE ver == IF dev[i].jad \in jars THEN dev[i].jad ELSE None
               r   == [Idle EXCEPT !.pc = "jar_reply", !.imei = i, !.live = TRUE, !.ver = ver]
    <2>1. ver \in Versions \cup {None}
      BY DEF Typed, TypeOK
    <2>2. Begin(w, r)
      BY <1>3 DEF JarFile
    <2> HIDE DEF ver
    <2>3. RequestOf(r)
      BY <2>1, JarRequest
    <2> HIDE DEF r
    <2> QED BY <1>0, <1>3, <2>2, <2>3, BeginReq, QuietRest DEF JarFile, RequestOf
  <1>4. CASE OtapNotify(w, i, CustomerOf[i])
    <2>1. CASE Visible(i, CustomerOf[i])
      <3> DEFINE row == otap[i]
                 r   == [Idle EXCEPT !.pc = "row_save", !.imei = i,
                                     !.row = row, !.live = TRUE]
      <3>1. row \in Row
        BY <2>1 DEF Visible, Typed, TypeOK
      <3>2. Begin(w, r)
        BY <1>4, <2>1 DEF OtapNotify
      <3> HIDE DEF row
      <3>3. RequestOf(r)
        BY <3>1, NotifyRequest
      <3> HIDE DEF r
      <3> QED BY <1>0, <1>4, <2>1, <3>2, <3>3, BeginReq, QuietRest DEF OtapNotify, RequestOf
    <2>2. CASE ~Visible(i, CustomerOf[i])
      <3>1. ReqTyped
        BY <1>4, <2>2, SameReq DEF OtapNotify
      <3>2. dev' \in [Imeis -> Device]
        BY <1>4, <2>2, PhaseOf DEF OtapNotify, Phases
      <3>3. RestTyped
        BY <1>0, <1>4, <3>2 DEF OtapNotify, Typed, TypeOK, RestTyped, db
      <3> QED BY <3>1, <3>3
    <2> QED BY <2>1, <2>2
  <1> QED
    BY <1>1, <1>2, <1>3, <1>4 DEF DeviceRequest

-----------------------------------------------------------------------------
(* The steps of a handler                                                  *)
LEMMA GoReq ==
  ASSUME Typed, NEW w \in Workers, NEW pc \in PCs, Go(w, pc), Shape([req[w] EXCEPT !.pc = pc])
  PROVE  ReqTyped
  <1>1. [req[w] EXCEPT !.pc = pc] \in Request
    BY DEF Typed, TypeOK, Request
  <1>2. req' = [req EXCEPT ![w] = [req[w] EXCEPT !.pc = pc]]
    BY DEF Go
  <1> QED BY <1>1, <1>2, ReplaceReq

(* What Shape says of the step a request is at                             *)
LEMMA ShapeAt ==
  ASSUME Typed, NEW w \in Workers
  PROVE  /\ req[w].pc \in WithImei => req[w].imei \in Imeis
         /\ req[w].pc \in WithRow => req[w].row \in Row
         /\ req[w].pc \in {"define_save", "undef_delete", "set_save"} => req[w].sname \in Snames
         /\ req[w].pc \in {"deliver_check", "jad_stat", "purge_remove"} => req[w].ver \in Versions
         /\ req[w].pc \in {"deliver_get", "deliver_save"} => req[w].ver \in Versions \cup {Any}
         /\ req[w].pc \in {"jad_reply", "jar_reply"} => req[w].ver \in Versions \cup {None}
         /\ req[w].live => req[w].imei \in Imeis
         /\ req[w].once \in BOOLEAN
         /\ req[w] \in Request
  BY DEF Typed, TypeOK, Shape, Request

LEMMA TypedAdministration ==
  ASSUME Typed, NEW w \in Workers,
         \/ AddSave(w) \/ DeliverSave(w) \/ PurgeRemove(w) \/ RowSave(w)
         \/ DefineSave(w) \/ UndefDelete(w) \/ SetSave(w)
  PROVE  Typed'
  <1> SUFFICES ReqTyped /\ RestTyped
    BY TypedParts
  <1>0. ReqTyped
    BY FinishReq DEF AddSave, DeliverSave, PurgeRemove, RowSave, DefineSave, UndefDelete, SetSave
  <1>1. CASE AddSave(w)
    <2>1. req[w].imei \in Imeis /\ req[w].row \in Row
      BY <1>1, ShapeAt DEF AddSave, Serving, WithImei, WithRow, PCs
    <2>2. otap' \in [Imeis -> Row \cup {None}]
      <3>1. CASE UNCHANGED otap
        BY <3>1 DEF Typed, TypeOK
      <3>2. CASE SaveRow(req[w].imei, req[w].row)
        BY <2>1, <3>2, SavedRow
      <3> QED BY <1>1, <3>1, <3>2 DEF AddSave
    <2> QED BY <1>0, <1>1, <2>2 DEF AddSave, Typed, TypeOK, RestTyped
  <1>2. CASE DeliverSave(w)
    <2>1. req[w].imei \in Imeis /\ req[w].row \in Row
      BY <1>2, ShapeAt DEF DeliverSave, Serving, WithImei, WithRow, PCs
    <2>2. otap' \in [Imeis -> Row \cup {None}]
      BY <1>2, <2>1, SavedRow DEF DeliverSave
    <2> QED BY <1>0, <1>2, <2>2 DEF DeliverSave, Typed, TypeOK, RestTyped
  <1>3. CASE PurgeRemove(w)
    BY <1>0, <1>3 DEF PurgeRemove, Typed, TypeOK, RestTyped
  <1>4. CASE RowSave(w)
    <2>1. req[w].imei \in Imeis /\ req[w].row \in Row
      BY <1>4, ShapeAt DEF RowSave, Serving, WithImei, WithRow, PCs
    <2>2. otap' \in [Imeis -> Row \cup {None}]
      BY <1>4, <2>1, SavedRow DEF RowSave
    <2>3. dev' \in [Imeis -> Device]
      <3>1. CASE req[w].live
        BY <1>4, <2>1, <3>1, PhaseOf DEF RowSave, Phases
      <3>2. CASE ~req[w].live
        BY <1>4, <3>2 DEF RowSave, Typed, TypeOK
      <3> QED BY <3>1, <3>2
    <2> QED BY <1>0, <1>4, <2>2, <2>3 DEF RowSave, Typed, TypeOK, RestTyped
  <1>5. CASE DefineSave(w)
    <2>1. req[w].sname \in Snames
      BY <1>5, ShapeAt DEF DefineSave, Serving
    <2> QED BY <1>0, <1>5, <2>1 DEF DefineSave, Typed, TypeOK, RestTyped
  <1>6. CASE UndefDelete(w)
    BY <1>0, <1>6 DEF UndefDelete, Typed, TypeOK, RestTyped
  <1>7. CASE SetSave(w)
    <2>1. req[w].imei \in Imeis /\ req[w].sname \in Snames /\ req[w].once \in BOOLEAN
      BY <1>7, ShapeAt DEF SetSave, Serving, WithImei, PCs
    <2>2. /\ imeiset' \in [Imeis -> Assignment \cup {None}]
          /\ given' \in [Imeis -> Nat]
      BY <1>7, <2>1 DEF SetSave, Typed, TypeOK, Assignment
    <2> QED BY <1>0, <1>7, <2>2 DEF SetSave, Typed, TypeOK, RestTyped
  <1> QED
    BY <1>1, <1>2, <1>3, <1>4, <1>5, <1>6, <1>7

LEMMA TypedDeliver ==
  ASSUME Typed, NEW w \in Workers, DeliverCheck(w) \/ DeliverGet(w)
  PROVE  Typed'
  <1> SUFFICES ReqTyped /\ RestTyped
    BY TypedParts
  <1>0. RestTyped
    BY QuietRest DEF DeliverCheck, DeliverGet
  <1>1. CASE DeliverCheck(w)
    <2>1. CASE Finish(w)
      BY <1>0, <2>1, FinishReq
    <2>2. CASE Go(w, "deliver_get")
      <3>1. req[w].imei \in Imeis /\ req[w].ver \in Versions
        BY <1>1, ShapeAt DEF DeliverCheck, Serving, WithImei, PCs
      <3>2. Shape([req[w] EXCEPT !.pc = "deliver_get"])
        BY <3>1, ShapeAt DEF Shape, WithImei, WithRow, PCs, Request
      <3> QED BY <1>0, <2>2, <3>2, GoReq DEF PCs
    <2> QED BY <1>1, <2>1, <2>2 DEF DeliverCheck
  <1>2. CASE DeliverGet(w)
    <2> DEFINE i == req[w].imei
               row == [otap[i] EXCEPT !.deliver = req[w].ver]
               r == [req[w] EXCEPT !.pc = "deliver_save", !.row = row]
    <2>1. i \in Imeis /\ req[w].ver \in Versions \cup {Any}
      BY <1>2, ShapeAt DEF DeliverGet, Serving, WithImei, PCs
    <2>2. CASE otap[i] = None
      BY <1>0, <1>2, <2>2, FinishReq DEF DeliverGet
    <2>3. CASE otap[i] # None
      <3>1. row \in Row
        BY <2>1, <2>3, RowOf DEF Row, Deliverables
      <3>2. req' = [req EXCEPT ![w] = r]
        BY <1>2, <2>3 DEF DeliverGet
      <3> HIDE DEF row
      <3>3. r \in Request
        BY <3>1, ShapeAt DEF Request, PCs
      <3>4. Shape(r)
        BY <2>1, <3>1, ShapeAt DEF Shape, WithImei, WithRow, PCs, Request
      <3> QED BY <1>0, <3>2, <3>3, <3>4, ReplaceReq
    <2> QED BY <2>2, <2>3
  <1> QED BY <1>1, <1>2

LEMMA TypedVersionCheck ==
  ASSUME Typed, NEW w \in Workers,
         \/ VcList(w) \/ VcSave(w) \/ VcSettings(w) \/ VcOnce(w) \/ VcClear(w) \/ VcReply(w)
  PROVE  Typed'
  <1> SUFFICES ReqTyped /\ RestTyped
    BY TypedParts
  <1>0. req[w].imei \in Imeis /\ req[w] \in Request
    BY ShapeAt DEF VcList, VcSave, VcSettings, VcOnce, VcClear, VcReply, Serving, WithImei, PCs
  <1>1. CASE VcList(w)
    <2>1. req[w].row \in Row
      BY <1>1, ShapeAt DEF VcList, Serving, WithRow
    <2>2. CASE jars = {}
      <3>1. Shape([req[w] EXCEPT !.pc = "vc_reply"])
        BY <1>0, ShapeAt DEF Shape, WithImei, WithRow, PCs, Request
      <3>2. ReqTyped
        BY <1>1, <2>2, <3>1, GoReq DEF VcList, PCs
      <3> QED BY <1>1, <3>2, QuietRest DEF VcList
    <2>3. CASE jars # {}
      <3> DEFINE v == Highest(jars)
                 r == [req[w] EXCEPT !.pc = "vc_save", !.ver = v]
      <3>1. v \in Versions
        BY <2>3, HighestIsThere DEF Typed, TypeOK
      <3>2. req' = [req EXCEPT ![w] = r]
        BY <1>1, <2>3 DEF VcList
      <3> HIDE DEF v
      <3>3. r \in Request
        BY <1>0, <3>1 DEF Request, PCs, Deliverables
      <3>4. Shape(r)
        BY <1>0, <2>1, <3>1 DEF Shape, WithImei, WithRow, PCs, Request
      <3>5. ReqTyped
        BY <3>2, <3>3, <3>4, ReplaceReq
      <3> QED BY <1>1, <3>5, QuietRest DEF VcList
    <2> QED BY <2>2, <2>3
  <1>2. CASE VcSave(w)
    <2>1. req[w].row \in Row
      BY <1>2, ShapeAt DEF VcSave, Serving, WithRow
    <2> DEFINE up == ~req[w].row.block /\ req[w].row.deliver # None /\ req[w].cur # req[w].ver
               pc == IF req[w].row.block THEN "vc_reply" ELSE "vc_sets"
               r  == [req[w] EXCEPT !.up = up, !.pc = pc]
    <2>2. req' = [req EXCEPT ![w] = r]
      BY <1>2 DEF VcSave
    <2>3. up \in BOOLEAN
      OBVIOUS
    <2>4. pc \in {"vc_reply", "vc_sets"}
      OBVIOUS
    <2> HIDE DEF up, pc
    <2>5. r \in Request
      BY <1>0, <2>3, <2>4 DEF Request, PCs
    <2>6. Shape(r)
      BY <1>0, <2>4 DEF Shape, WithImei, WithRow, PCs, Request
    <2>7. otap' \in [Imeis -> Row \cup {None}]
      <3>1. CASE UNCHANGED otap
        BY <3>1 DEF Typed, TypeOK
      <3>2. CASE SaveRow(req[w].imei, req[w].row)
        BY <1>0, <2>1, <3>2, SavedRow
      <3> QED BY <1>2, <3>1, <3>2 DEF VcSave
    <2>8. RestTyped
      BY <1>2, <2>7 DEF VcSave, Typed, TypeOK, RestTyped
    <2> QED BY <2>2, <2>5, <2>6, <2>8, ReplaceReq
  <1>3. CASE VcSettings(w)
    <2> DEFINE s  == ImeiSettings(req[w].imei)
               pc == IF req[w].simu THEN "vc_reply" ELSE "vc_once"
               r  == [req[w] EXCEPT !.sets = s, !.pc = pc]
    <2>1. req' = [req EXCEPT ![w] = r]
      BY <1>3 DEF VcSettings
    <2>2. s \in Snames \cup {None}
      BY <1>0 DEF ImeiSettings, Typed, TypeOK
    <2>3. pc \in {"vc_reply", "vc_once"}
      OBVIOUS
    <2> HIDE DEF s, pc
    <2>4. r \in Request
      BY <1>0, <2>2, <2>3 DEF Request, PCs
    <2>5. Shape(r)
      BY <1>0, <2>3 DEF Shape, WithImei, WithRow, PCs, Request
    <2>6. ReqTyped
      BY <2>1, <2>4, <2>5, ReplaceReq
    <2> QED BY <1>3, <2>6, QuietRest DEF VcSettings
  <1>4. CASE VcOnce(w)
    <2> DEFINE r == [req[w] EXCEPT !.once = TRUE, !.pc = "vc_clear"]
    <2>1. CASE Go(w, "vc_reply")
      <3>1. Shape([req[w] EXCEPT !.pc = "vc_reply"])
        BY <1>0 DEF Shape, WithImei, WithRow, PCs, Request
      <3> QED BY <1>4, <2>1, <3>1, GoReq, QuietRest DEF VcOnce, PCs
    <2>2. CASE req' = [req EXCEPT ![w] = r]
      <3>1. r \in Request
        BY <1>0 DEF Request, PCs
      <3>2. Shape(r)
        BY <1>0 DEF Shape, WithImei, WithRow, PCs, Request
      <3> QED BY <1>4, <2>2, <3>1, <3>2, ReplaceReq, QuietRest DEF VcOnce
    <2> QED BY <1>4, <2>1, <2>2 DEF VcOnce
  <1>5. CASE VcClear(w)
    <2>1. Shape([req[w] EXCEPT !.pc = "vc_reply"])
      BY <1>0 DEF Shape, WithImei, WithRow, PCs, Request
    <2>2. ReqTyped
      BY <1>5, <2>1, GoReq DEF VcClear, PCs
    <2>3. RestTyped
      BY <1>5 DEF VcClear, Typed, TypeOK, RestTyped
    <2> QED BY <2>2, <2>3
  <1>6. CASE VcReply(w)
    <2>1. ReqTyped
      BY <1>6, FinishReq DEF VcReply
    <2>2. given' \in [Imeis -> Nat]
      BY <1>0, <1>6 DEF VcReply, Typed, TypeOK
    <2>3. dev' \in [Imeis -> Device]
      <3>1. CASE UNCHANGED dev
        BY <3>1 DEF Typed, TypeOK
      <3>2. CASE dev' = [dev EXCEPT ![req[w].imei].phase = "told"]
        BY <1>0, <3>2, PhaseOf DEF Phases
      <3> QED BY <1>6, <3>1, <3>2 DEF VcReply
    <2>4. RestTyped
      BY <1>6, <2>2, <2>3 DEF VcReply, Typed, TypeOK, RestTyped, db
    <2> QED BY <2>1, <2>4
  <1> QED BY <1>1, <1>2, <1>3, <1>4, <1>5, <1>6

LEMMA TypedDownload ==
  ASSUME Typed, NEW w \in Workers, JadList(w) \/ JadStat(w) \/ JadReply(w) \/ JarReply(w)
  PROVE  Typed'
  <1> SUFFICES ReqTyped /\ RestTyped
    BY TypedParts
  <1>0. req[w].imei \in Imeis /\ req[w] \in Request
    BY ShapeAt DEF JadList, JadStat, JadReply, JarReply, Serving, WithImei, PCs
  <1>1. CASE JadList(w)
    <2>0. RestTyped
      BY <1>1, QuietRest DEF JadList
    <2>1. CASE jars = {}
      <3> DEFINE r == [req[w] EXCEPT !.pc = "jad_reply", !.ver = None]
      <3>1. r \in Request
        BY <1>0 DEF Request, PCs, Deliverables
      <3>2. Shape(r)
        BY <1>0 DEF Shape, WithImei, WithRow, PCs, Request
      <3>3. req' = [req EXCEPT ![w] = r]
        BY <1>1, <2>1 DEF JadList
      <3> QED BY <2>0, <3>1, <3>2, <3>3, ReplaceReq
    <2>2. CASE jars # {}
      <3> DEFINE v == Highest(jars)
                 r == [req[w] EXCEPT !.pc = "jad_stat", !.ver = v]
      <3>1. v \in Versions
        BY <2>2, HighestIsThere DEF Typed, TypeOK
      <3>2. req' = [req EXCEPT ![w] = r]
        BY <1>1, <2>2 DEF JadList
      <3> HIDE DEF v
      <3>3. r \in Request
        BY <1>0, <3>1 DEF Request, PCs, Deliverables
      <3>4. Shape(r)
        BY <1>0, <3>1 DEF Shape, WithImei, WithRow, PCs, Request
      <3> QED BY <2>0, <3>2, <3>3, <3>4, ReplaceReq
    <2> QED BY <2>1, <2>2
  <1>2. CASE JadStat(w)
    <2> DEFINE v == IF req[w].ver \in jars THEN req[w].ver ELSE None
               r == [req[w] EXCEPT !.pc = "jad_reply", !.ver = v]
    <2>1. v \in Versions \cup {None}
      BY DEF Typed, TypeOK
    <2>2. req' = [req EXCEPT ![w] = r]
      BY <1>2 DEF JadStat
    <2> HIDE DEF v
    <2>3. r \in Request
      BY <1>0, <2>1 DEF Request, PCs, Deliverables
    <2>4. Shape(r)
      BY <1>0, <2>1 DEF Shape, WithImei, WithRow, PCs, Request
    <2>5. ReqTyped
      BY <2>2, <2>3, <2>4, ReplaceReq
    <2> QED BY <1>2, <2>5, QuietRest DEF JadStat
  <1>3. CASE JadReply(w)
    <2>1. req[w].ver \in Versions \cup {None}
      BY <1>3, ShapeAt DEF JadReply, Serving
    <2>2. ReqTyped
      BY <1>3, FinishReq DEF JadReply
    <2>3. dev' \in [Imeis -> Device]
      <3>1. CASE UNCHANGED dev
        BY <3>1 DEF Typed, TypeOK
      <3>2. CASE req[w].live
        <4> DEFINE i == req[w].imei
                   p == IF req[w].ver = None THEN "run" ELSE "jad"
                   d == [dev[i] EXCEPT !.phase = p, !.jad = req[w].ver]
        <4>1. dev' = [dev EXCEPT ![i] = d]
          BY <1>3, <3>2 DEF JadReply
        <4>2. p \in Phases
          BY DEF Phases
        <4>3. dev[i] \in Device
          BY <1>0 DEF Typed, TypeOK
        <4> HIDE DEF p
        <4>4. d \in Device
          BY <2>1, <4>2, <4>3 DEF Device
        <4> HIDE DEF d
        <4> QED BY <1>0, <4>1, <4>4 DEF Typed, TypeOK
      <3> QED BY <1>3, <3>1, <3>2 DEF JadReply
    <2>4. RestTyped
      BY <1>3, <2>3 DEF JadReply, Typed, TypeOK, RestTyped, db
    <2> QED BY <2>2, <2>4
  <1>4. CASE JarReply(w)
    <2>1. req[w].ver \in Versions \cup {None}
      BY <1>4, ShapeAt DEF JarReply, Serving
    <2>2. ReqTyped
      BY <1>4, FinishReq DEF JarReply
    <2>3. dev' \in [Imeis -> Device]
      BY <1>0, <1>4, <2>1 DEF JarReply, Typed, TypeOK, Device, Phases
    <2>4. RestTyped
      BY <1>4, <2>3 DEF JarReply, Typed, TypeOK, RestTyped, db
    <2> QED BY <2>2, <2>4
  <1> QED BY <1>1, <1>2, <1>3, <1>4

(* Lost replies and killed workers                                         *)
LEMMA TypedFault ==
  ASSUME Typed, NEW w \in Workers, LoseReply(w) \/ Crash(w)
  PROVE  Typed'
  <1> SUFFICES ReqTyped /\ RestTyped
    BY TypedParts
  <1>1. dev' \in [Imeis -> Device]
    BY Disconnected DEF LoseReply, Crash
  <1>2. RestTyped
    BY <1>1, BoundAssumption DEF LoseReply, Crash, Typed, TypeOK, RestTyped, db
  <1>3. CASE LoseReply(w)
    <2> DEFINE r == [req[w] EXCEPT !.live = FALSE]
    <2>1. r \in Request
      BY ShapeAt DEF Request
    <2>2. Shape(r)
      BY ShapeAt DEF Shape, Request
    <2>3. req' = [req EXCEPT ![w] = r]
      BY <1>3 DEF LoseReply
    <2> QED BY <1>2, <2>1, <2>2, <2>3, ReplaceReq
  <1>4. CASE Crash(w)
    BY <1>2, <1>4, FinishReq DEF Crash
  <1> QED BY <1>3, <1>4

LEMMA TypedNext == Typed /\ [Next]_vars => Typed'
  <1> SUFFICES ASSUME Typed, [Next]_vars PROVE Typed'
    OBVIOUS
  <1>1. CASE UNCHANGED vars
    BY <1>1 DEF vars, Typed, TypeOK
  <1>2. ASSUME NEW w \in Workers,
               \/ OperatorRequest(w)
               \/ \E i \in Imeis : DeviceRequest(w, i)
               \/ HandlerStep(w)
               \/ LoseReply(w)
               \/ Crash(w)
        PROVE  Typed'
    BY <1>2, TypedOperator, TypedDevice, TypedAdministration, TypedDeliver,
       TypedVersionCheck, TypedDownload, TypedFault DEF HandlerStep
  <1> QED BY <1>1, <1>2 DEF Next

(* Type correctness, for any number of workers.                            *)
THEOREM TypeCorrect == Spec => []TypeOK
  <1>1. Typed => TypeOK
    BY DEF Typed
  <1> QED BY <1>1, TypedInit, TypedNext, PTL DEF Spec
=============================================================================
