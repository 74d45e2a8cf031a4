-------------------------- MODULE AuthPluginProofs --------------------------
(* Proofs about AuthPlugin, for any clients, users, topics and tables.     *)
EXTENDS AuthPlugin, TLAPS

(* What is allowed now counts as allowed since anything was asked.         *)
NowCredible == \A r \in Requests : Allowed(r) => r \in credible

Inv == TypeOK /\ NowCredible /\ GrantsJustified /\ MissBeforeStore

-----------------------------------------------------------------------------
(* The parts of a request, and the fields of a call, by what it waits for. *)
LEMMA RequestParts ==
    ASSUME NEW r \in Requests
    PROVE  r[2] \in Users /\ r[3] \in Topics /\ hexify(r) \in Hexes
    BY AuthAssumption DEF hexify, Hexes

LEMMA CallShape ==
    ASSUME call \in Calls
    PROVE  /\ call = Idle \/ call.pc \in {"super", "acl", "store", "answer"}
           /\ call.pc \in {"super", "acl", "store", "answer"} => call.req \in Requests
           /\ call.pc \in {"store", "answer"} => call.granted \in BOOLEAN
           /\ call.pc \in {"super", "acl", "store", "answer"} => call # Idle
    BY DEF Calls, Idle

LEMMA CallKinds ==
    ASSUME NEW r \in Requests
    PROVE  /\ [pc |-> "super", req |-> r] \in Calls
           /\ [pc |-> "acl", req |-> r] \in Calls
           /\ \A g \in BOOLEAN : /\ [pc |-> "store", req |-> r, granted |-> g] \in Calls
                                 /\ [pc |-> "answer", req |-> r, granted |-> g] \in Calls
    BY DEF Calls

LEMMA IdleCall == Idle \in Calls /\ Idle.pc = "idle"
    BY DEF Calls, Idle

LEMMA SessionKinds ==
    ASSUME NEW l \in Logins \cup {None}
    PROVE  /\ [on |-> TRUE, login |-> l] \in [on : BOOLEAN, login : Logins \cup {None}]
           /\ Off \in [on : BOOLEAN, login : Logins \cup {None}]
    BY DEF Off

(* Entries that an action makes are entries. *)
LEMMA EntryKinds ==
    /\ NoEntry \notin Entries
    /\ \A g \in BOOLEAN : [granted |-> g, age |-> 0] \in Entries
    /\ \A e \in Entries : /\ e.granted \in BOOLEAN
                          /\ Older(e) \in Entries
                          /\ Older(e).granted = e.granted
    /\ Older(NoEntry) = NoEntry
    <1>1. NoEntry \notin Entries
        BY AuthAssumption DEF NoEntry, Entries
    <1>2. ASSUME NEW g \in BOOLEAN PROVE [granted |-> g, age |-> 0] \in Entries
        BY AuthAssumption DEF Entries
    <1>3. ASSUME NEW e \in Entries
          PROVE  e.granted \in BOOLEAN /\ Older(e) \in Entries /\ Older(e).granted = e.granted
        <2>1. e.granted \in BOOLEAN /\ e.age \in 0 .. cacheseconds + 1
            BY DEF Entries
        <2>2. CASE e.age > cacheseconds
            BY <2>1, <2>2 DEF Older
        <2>3. CASE ~(e.age > cacheseconds)
            <3>1. Older(e) = [granted |-> e.granted, age |-> e.age + 1]
                BY <1>1, <2>3 DEF Older
            <3>2. e.age + 1 \in 0 .. cacheseconds + 1
                BY <2>1, <2>3, AuthAssumption
            <3> QED BY <2>1, <3>1, <3>2 DEF Entries
        <2> QED BY <2>2, <2>3
    <1>4. Older(NoEntry) = NoEntry
        BY DEF Older
    <1> QED BY <1>1, <1>2, <1>3, <1>4

-----------------------------------------------------------------------------
(* The cache changes only as the lemmas below say: every entry is the one  *)
(* that was there, older perhaps, or gone, but for what acl_cache adds.    *)
Kept(h) == cache'[h] = NoEntry
              \/ (cache[h] # NoEntry /\ cache'[h].granted = cache[h].granted)

(* Allowed after the step, or since it was asked; the same of a request    *)
(* with the key of this one.                                               *)
May(r)     == Allowed(r)' \/ r \in credible
SomeMay(r) == \E q \in Alike(r) : May(q)

LEMMA AlikeItself ==
    ASSUME NEW r \in Requests
    PROVE  r \in Alike(r) /\ (May(r) => SomeMay(r))
    BY DEF Alike, SomeMay

LEMMA SameKey ==
    ASSUME NEW r \in Requests, NEW q \in Requests, hexify(q) = hexify(r)
    PROVE  Alike(q) = Alike(r)
    BY DEF Alike, hexify

(* What may be granted is credible as long as its key is in use.           *)
LEMMA StaysCredible ==
    ASSUME Observe, NEW r \in Requests, SomeMay(r),
           cache'[hexify(r)] # NoEntry \/ (call' # Idle /\ call'.req = r)
    PROVE  Vouched(r)'
    <1>1. PICK q \in Alike(r) : May(q)
        BY DEF SomeMay
    <1>2. q \in Requests /\ Digest[q] = Digest[r] /\ r \in Alike(q)
        BY <1>1 DEF Alike
    <1>3. Concerned(q)'
        <2>1. CASE cache'[hexify(r)] # NoEntry
            BY <1>2, <2>1 DEF Concerned, hexify
        <2>2. CASE call' # Idle /\ call'.req = r
            BY <1>2, <2>2 DEF Concerned, Alike
        <2> QED BY <2>1, <2>2
    <1>4. q \in credible'
        BY <1>1, <1>2, <1>3 DEF Observe, May
    <1>5. q \in Alike(r)'
        BY <1>1 DEF Alike
    <1> QED BY <1>4, <1>5 DEF Vouched

(* An action that keeps or drops entries, and adds and answers only what   *)
(* it justifies, keeps the justified grants justified.                     *)
LEMMA StillJustified ==
    ASSUME TypeOK, TypeOK', NowCredible, GrantsJustified, Observe,
           \A r \in Requests : Kept(hexify(r))
                \/ (cache'[hexify(r)].granted => SomeMay(r)),
           \A q \in Requests : call'.pc = "store" /\ call'.granted /\ call'.req = q => May(q),
           call'.pc = "answer" /\ call'.granted => SomeMay(call'.req)
    PROVE  GrantsJustified' /\ NowCredible'
    <1>1. NowCredible'
        BY DEF NowCredible, Observe
    <1>2. ASSUME NEW r \in Requests, cache'[hexify(r)] # NoEntry, cache'[hexify(r)].granted
          PROVE  Vouched(r)'
        <2>1. CASE Kept(hexify(r))
            <3>1. Vouched(r)
                BY <1>2, <2>1 DEF Kept, GrantsJustified
            <3>2. SomeMay(r)
                BY <3>1 DEF Vouched, SomeMay, May
            <3> QED BY <1>2, <3>2, StaysCredible
        <2>2. CASE ~Kept(hexify(r))
            BY <1>2, <2>2, StaysCredible
        <2> QED BY <2>1, <2>2
    <1>3. ASSUME call'.pc \in {"store", "answer"}, call'.granted
          PROVE  /\ call'.req \in Requests /\ call' # Idle
                 /\ Vouched(call.req)'
                 /\ call'.pc = "store" => call'.req \in credible'
        <2>1. call' \in Calls
            BY DEF TypeOK
        <2>2. call'.req \in Requests /\ call' # Idle
            BY <1>3, <2>1 DEF Calls, Idle
        <2>3. PICK r \in Requests : r = call'.req
            BY <2>2
        <2>4. SomeMay(r)
            BY <1>3, <2>3, AlikeItself
        <2>5. Vouched(r)'
            BY <2>2, <2>3, <2>4, StaysCredible
        <2>6. ASSUME call'.pc = "store" PROVE r \in credible'
            <3>1. Concerned(r)'
                BY <2>2, <2>3, AlikeItself DEF Concerned, Alike
            <3>2. May(r)
                BY <1>3, <2>3, <2>6
            <3> QED BY <3>1, <3>2 DEF Observe, May
        <2>7. Vouched(call.req)'
            BY <2>3, <2>5
        <2> QED BY <2>2, <2>3, <2>6, <2>7
    <1>4. (\A r \in Requests :
             cache[hexify(r)] # NoEntry /\ cache[hexify(r)].granted => Vouched(r))'
        BY <1>2 DEF hexify
    <1>5. GrantsJustified'
        BY <1>3, <1>4 DEF GrantsJustified
    <1> QED BY <1>1, <1>5

-----------------------------------------------------------------------------
(* Who calls.                                                              *)

(* Actions that leave the cache and the call alone: clients that come and  *)
(* go, and those who write to the tables.                                  *)
LEMMA OutsideInv ==
    ASSUME Inv, Observe, UNCHANGED <<cache, call>>,
           up' \in BOOLEAN, hash' \in [Logins -> Passwords \cup {None}],
           supers' \subseteq Users, acl' \subseteq Requests,
           session' \in [Clients -> [on : BOOLEAN, login : Logins \cup {None}]]
    PROVE  Inv'
    <1>1. TypeOK'
        BY DEF Inv, TypeOK, Observe
    <1>2. \A r \in Requests : Kept(hexify(r))
        BY DEF Kept
    <1>3. /\ \A q \in Requests : call'.pc = "store" /\ call'.granted /\ call'.req = q => May(q)
          /\ call'.pc = "answer" /\ call'.granted => SomeMay(call'.req)
        BY DEF Inv, GrantsJustified, Vouched, May, SomeMay
    <1>4. GrantsJustified' /\ NowCredible'
        BY <1>1, <1>2, <1>3, StillJustified DEF Inv
    <1>5. MissBeforeStore'
        BY DEF Inv, MissBeforeStore, hexify
    <1> QED BY <1>1, <1>4, <1>5 DEF Inv

LEMMA ClientsInv ==
    ASSUME Inv, Observe, NEW c \in Clients,
           (\E l \in Logins, w \in Passwords : unpwd_check(c, l, w))
               \/ Anonymous(c) \/ Leave(c)
    PROVE  Inv'
    <1>1. session' \in [Clients -> [on : BOOLEAN, login : Logins \cup {None}]]
        <2>1. CASE Anonymous(c) \/ Leave(c)
            BY <2>1, SessionKinds DEF Inv, TypeOK, Anonymous, Leave
        <2>2. ASSUME NEW l \in Logins, NEW w \in Passwords, unpwd_check(c, l, w)
              PROVE  session' \in [Clients -> [on : BOOLEAN, login : Logins \cup {None}]]
            BY <2>2, SessionKinds DEF Inv, TypeOK, unpwd_check
        <2> QED BY <2>1, <2>2
    <1>2. UNCHANGED <<tables, cache, call>>
        BY DEF unpwd_check, Anonymous, Leave
    <1> QED BY <1>1, <1>2, OutsideInv DEF Inv, TypeOK, tables

LEMMA TablesInv == ASSUME Inv, Observe, Tables PROVE Inv'
    <1>1. CASE Outage
        BY <1>1, OutsideInv DEF Outage, Inv, TypeOK
    <1>2. ASSUME NEW l \in Logins, NEW w \in Passwords \cup {None}, ChangePassword(l, w)
          PROVE  Inv'
        BY <1>2, OutsideInv DEF ChangePassword, Inv, TypeOK
    <1>3. ASSUME NEW u \in Users, ChangeSuper(u)
          PROVE  Inv'
        BY <1>3, OutsideInv DEF ChangeSuper, Inv, TypeOK
    <1>4. ASSUME NEW r \in Requests, ChangeAcl(r)
          PROVE  Inv'
        <2>1. acl' \subseteq Requests
            BY <1>4 DEF ChangeAcl, Inv, TypeOK
        <2> QED BY <1>4, <2>1, OutsideInv DEF ChangeAcl, Inv, TypeOK
    <1> QED BY <1>1, <1>2, <1>3, <1>4 DEF Tables

-----------------------------------------------------------------------------
(* mosquitto_auth_acl_check, step by step.                                 *)

(* What an action does to the cache and the call gives the whole.          *)
LEMMA CallInv ==
    ASSUME Inv, Observe, UNCHANGED <<tables, session>>,
           cache' \in [Hexes -> Entries \cup {NoEntry}], call' \in Calls,
           \A r \in Requests : Kept(hexify(r))
                \/ (cache'[hexify(r)].granted => SomeMay(r)),
           \A q \in Requests : call'.pc = "store" /\ call'.granted /\ call'.req = q => May(q),
           call'.pc = "answer" /\ call'.granted => SomeMay(call'.req),
           call'.pc \in {"super", "acl", "store"} /\ cacheseconds > 0 =>
               cache'[hexify(call'.req)] = NoEntry
    PROVE  Inv'
    <1>1. TypeOK'
        BY DEF Inv, TypeOK, Observe, tables
    <1>2. GrantsJustified' /\ NowCredible'
        BY <1>1, StillJustified DEF Inv
    <1>3. MissBeforeStore'
        BY DEF MissBeforeStore, hexify
    <1> QED BY <1>1, <1>2, <1>3 DEF Inv

LEMMA HitInv ==
    ASSUME Inv, Observe, UNCHANGED <<tables, session>>, NEW r \in Requests, Hit(r)
    PROVE  Inv'
    <1>1. hexify(r) \in Hexes /\ cache[hexify(r)] \in Entries
        BY RequestParts DEF Hit, Inv, TypeOK
    <1> DEFINE g == cache[hexify(r)].granted
    <1>2. g \in BOOLEAN /\ call' = [pc |-> "answer", req |-> r, granted |-> g]
        BY <1>1, EntryKinds DEF Hit
    <1>3. call' \in Calls
        BY <1>2, CallKinds
    <1>4. cache' = [cache EXCEPT ![hexify(r)] = NoEntry] \/ cache' = cache
        BY DEF Hit
    <1>5. cache' \in [Hexes -> Entries \cup {NoEntry}]
        BY <1>4 DEF Inv, TypeOK
    <1>6. \A q \in Requests : Kept(hexify(q))
        <2> TAKE q \in Requests
        <2>1. hexify(q) \in Hexes
            BY RequestParts
        <2> QED BY <1>4, <2>1 DEF Kept, Inv, TypeOK
    <1>7. call'.pc = "answer" /\ call'.req = r /\ call'.granted = g
        BY <1>2
    <1>8. g => SomeMay(r)
        BY DEF Hit, Inv, GrantsJustified, Vouched, May, SomeMay
    <1> HIDE DEF g
    <1> QED BY <1>3, <1>5, <1>6, <1>7, <1>8, CallInv

LEMMA MissInv ==
    ASSUME Inv, Observe, UNCHANGED <<tables, session>>, NEW r \in Requests, Miss(r)
    PROVE  Inv'
    <1>1. call' \in Calls /\ call'.req = r
        BY CallKinds DEF Miss
    <1>2. call'.pc # "answer" /\ (call'.pc = "store" => May(r))
        BY DEF Miss, Inv, NowCredible, Allowed, May
    <1>3. \A q \in Requests : Kept(hexify(q))
        BY DEF Kept, Miss
    <1>4. cacheseconds > 0 => cache'[hexify(r)] = NoEntry
        BY AuthAssumption DEF Miss
    <1>5. cache' \in [Hexes -> Entries \cup {NoEntry}]
        BY DEF Miss, Inv, TypeOK
    <1> QED BY <1>1, <1>2, <1>3, <1>4, <1>5, CallInv

LEMMA AclCheckInv ==
    ASSUME Inv, Observe, NEW c \in Clients, NEW t \in Topics, acl_check(c, t)
    PROVE  Inv'
    <1>1. PICK r \in Requests : Hit(r) \/ Miss(r)
        BY DEF acl_check
    <1> QED BY <1>1, HitInv, MissInv DEF acl_check

LEMMA QueriesInv ==
    ASSUME Inv, Observe, superuser \/ aclcheck
    PROVE  Inv'
    <1>1. PICK r \in Requests : r = call.req
        BY CallShape DEF superuser, aclcheck, Inv, TypeOK
    <1>2. UNCHANGED <<tables, session, cache>>
        BY DEF superuser, aclcheck
    <1>3. call.pc \in {"super", "acl"}
        BY DEF superuser, aclcheck
    <1>4. \/ call' = [pc |-> "acl", req |-> r]
          \/ \E g \in BOOLEAN : /\ call' = [pc |-> "store", req |-> r, granted |-> g]
                                /\ g => Allowed(r)
        <2>1. CASE superuser
            BY <1>1, <2>1 DEF superuser, Allowed
        <2>2. CASE aclcheck
            <3> DEFINE g == up /\ call.req \in acl
            <3>1. g \in BOOLEAN /\ (g => Allowed(r))
                BY <1>1 DEF Allowed, Inv, TypeOK
            <3> QED BY <1>1, <2>2, <3>1 DEF aclcheck
        <2> QED BY <2>1, <2>2
    <1>5. call' \in Calls /\ call'.req = r
        <2>1. CASE call' = [pc |-> "acl", req |-> r]
            BY <2>1, CallKinds
        <2>2. ASSUME NEW g \in BOOLEAN, call' = [pc |-> "store", req |-> r, granted |-> g]
              PROVE  call' \in Calls /\ call'.req = r
            BY <2>2, CallKinds
        <2> QED BY <1>4, <2>1, <2>2
    <1>6. call'.pc # "answer" /\ (call'.pc = "store" /\ call'.granted => May(r))
        BY <1>4 DEF Inv, NowCredible, May
    <1>7. \A q \in Requests : Kept(hexify(q))
        BY <1>2 DEF Kept
    <1>8. cacheseconds > 0 => cache'[hexify(r)] = NoEntry
        BY <1>1, <1>2, <1>3 DEF Inv, MissBeforeStore
    <1>9. cache' \in [Hexes -> Entries \cup {NoEntry}]
        BY <1>2 DEF Inv, TypeOK
    <1> QED BY <1>2, <1>5, <1>6, <1>7, <1>8, <1>9, CallInv

(* Only the entry of the call is added; it is new, or the call's own.      *)
LEMMA StoreInv == ASSUME Inv, Observe, acl_cache PROVE Inv'
    <1>1. PICK r \in Requests : r = call.req /\ call.granted \in BOOLEAN
        BY CallShape DEF acl_cache, Inv, TypeOK
    <1>2. PICK g \in BOOLEAN : g = call.granted
        BY <1>1
    <1>3. call' = [pc |-> "answer", req |-> r, granted |-> g]
        BY <1>1, <1>2 DEF acl_cache
    <1>4. g => SomeMay(r)
        BY <1>1, <1>2, AlikeItself DEF acl_cache, Inv, GrantsJustified, May
    <1>5. call' \in Calls /\ call'.pc = "answer" /\ call'.req = r /\ call'.granted = g
        BY <1>3, CallKinds
    <1> DEFINE f == Added(hexify(r), g)
    <1>6. hexify(r) \in Hexes
        BY RequestParts
    <1>7. f \in [Hexes -> Entries \cup {NoEntry}]
        BY <1>6, EntryKinds DEF Added, Inv, TypeOK
    <1>8. \A h \in Hexes :
             \/ f[h] = cache[h]
             \/ h = hexify(r) /\ f[h].granted = g
        BY <1>6 DEF Added, Inv, TypeOK
    <1>9. cache' = cache \/ cache' = Swept(f)
        BY <1>1, <1>2 DEF acl_cache
    <1> HIDE DEF f
    <1>10. \A h \in Hexes : cache'[h] = f[h] \/ cache'[h] = NoEntry \/ cache'[h] = cache[h]
        BY <1>9 DEF Swept
    <1>11. cache' \in [Hexes -> Entries \cup {NoEntry}]
        BY <1>7, <1>9 DEF Swept, Inv, TypeOK
    <1>12. ASSUME NEW q \in Requests
           PROVE  Kept(hexify(q)) \/ (cache'[hexify(q)].granted => SomeMay(q))
        <2>1. hexify(q) \in Hexes
            BY RequestParts
        <2>2. hexify(q) = hexify(r) => (SomeMay(r) => SomeMay(q))
            BY SameKey DEF SomeMay
        <2> QED BY <1>4, <1>8, <1>10, <2>1, <2>2 DEF Kept
    <1>13. UNCHANGED <<tables, session>>
        BY DEF acl_cache
    <1> QED BY <1>4, <1>5, <1>11, <1>12, <1>13, CallInv

LEMMA AnswerInv == ASSUME Inv, Observe, Answer PROVE Inv'
    <1>1. call' \in Calls /\ call'.pc = "idle"
        BY IdleCall DEF Answer
    <1>2. \A q \in Requests : Kept(hexify(q))
        BY DEF Kept, Answer
    <1> QED BY <1>1, <1>2, CallInv DEF Answer, Inv, TypeOK

LEMMA RestartInv == ASSUME Inv, Observe, Restart PROVE Inv'
    <1>1. TypeOK'
        <2>1. session' \in [Clients -> [on : BOOLEAN, login : Logins \cup {None}]]
            BY SessionKinds DEF Restart
        <2>2. call' \in Calls /\ cache' \in [Hexes -> Entries \cup {NoEntry}]
            BY IdleCall DEF Restart
        <2> QED BY <2>1, <2>2 DEF Inv, TypeOK, Observe, Restart, tables
    <1>2. \A q \in Requests : cache'[hexify(q)] = NoEntry
        BY RequestParts DEF Restart
    <1>3. call'.pc = "idle"
        BY DEF Restart, Idle
    <1>4. GrantsJustified' /\ NowCredible'
        BY <1>1, <1>2, <1>3, StillJustified DEF Inv, Kept
    <1>5. MissBeforeStore'
        BY <1>3 DEF MissBeforeStore
    <1> QED BY <1>1, <1>4, <1>5 DEF Inv

LEMMA TickInv == ASSUME Inv, Observe, Tick PROVE Inv'
    <1>1. \A h \in Hexes : cache[h] \in Entries \cup {NoEntry} /\ cache'[h] = Older(cache[h])
        BY DEF Inv, TypeOK, Tick
    <1>2. cache' \in [Hexes -> Entries \cup {NoEntry}]
        <2>1. \A h \in Hexes : cache'[h] \in Entries \cup {NoEntry}
            BY <1>1, EntryKinds
        <2>2. cache' = [h \in Hexes |-> cache'[h]]
            BY DEF Tick
        <2> QED BY <2>1, <2>2
    <1>3. \A q \in Requests : Kept(hexify(q))
        BY <1>1, EntryKinds, RequestParts DEF Kept
    <1>4. UNCHANGED <<tables, session, call>>
        BY DEF Tick
    <1>5. call'.pc \in {"super", "acl", "store"} /\ cacheseconds > 0 =>
              cache'[hexify(call'.req)] = NoEntry
        BY <1>1, <1>4, EntryKinds, CallShape, RequestParts
           DEF Inv, TypeOK, MissBeforeStore
    <1>6. /\ \A q \in Requests : call'.pc = "store" /\ call'.granted /\ call'.req = q => May(q)
          /\ call'.pc = "answer" /\ call'.granted => SomeMay(call'.req)
        BY <1>4 DEF Inv, GrantsJustified, Vouched, May, SomeMay
    <1> QED BY <1>2, <1>3, <1>4, <1>5, <1>6, CallInv DEF Inv, TypeOK

-----------------------------------------------------------------------------
(* The whole.                                                              *)

LEMMA InitInv == Init => Inv
    <1> SUFFICES ASSUME Init PROVE Inv
        OBVIOUS
    <1>1. TypeOK
        <2>1. session \in [Clients -> [on : BOOLEAN, login : Logins \cup {None}]]
            BY SessionKinds DEF Init
        <2>2. call \in Calls /\ cache \in [Hexes -> Entries \cup {NoEntry}]
            BY IdleCall DEF Init
        <2> QED BY <2>1, <2>2 DEF Init, TypeOK
    <1>2. call.pc = "idle" /\ \A r \in Requests : cache[hexify(r)] = NoEntry
        BY RequestParts DEF Init, Idle
    <1> QED BY <1>1, <1>2 DEF Init, Inv, NowCredible, GrantsJustified, MissBeforeStore

LEMMA StepInv == Inv /\ [Next]_vars => Inv'
    <1> SUFFICES ASSUME Inv, [Next]_vars PROVE Inv'
        OBVIOUS
    <1>1. CASE Plugin /\ Observe
        BY <1>1, QueriesInv, StoreInv, AnswerInv DEF Plugin
    <1>2. CASE Broker /\ Observe
        BY <1>2, ClientsInv, AclCheckInv DEF Broker
    <1>3. CASE Restart /\ Observe
        BY <1>3, RestartInv
    <1>4. CASE Tick /\ Observe
        BY <1>4, TickInv
    <1>5. CASE Tables /\ Observe
        BY <1>5, TablesInv
    <1>6. CASE UNCHANGED vars
        <2>1. UNCHANGED <<up, hash, supers, acl, session, cache, call, credible>>
            BY <1>6 DEF vars, tables
        <2>2. TypeOK'
            BY <2>1 DEF Inv, TypeOK
        <2>3. NowCredible'
            BY <2>1 DEF Inv, NowCredible, Allowed
        <2> QED BY <2>1, <2>2, <2>3 DEF Inv, GrantsJustified, MissBeforeStore, hexify, Vouched, Alike
    <1> QED BY <1>1, <1>2, <1>3, <1>4, <1>5, <1>6 DEF Next

LEMMA AlwaysInv == Spec => []Inv
    BY InitInv, StepInv, PTL DEF Spec

(* The tables, the cache and the calls stay in their types. *)
THEOREM TypeCorrect == Spec => []TypeOK
    BY AlwaysInv, PTL DEF Inv

(* What the tables are asked was allowed to that client and user on that   *)
(* topic; what the cache grants was allowed, at some time since it was     *)
(* asked, to that request or to another that has its key.                  *)
THEOREM GrantsAreJustified == Spec => []GrantsJustified
    BY AlwaysInv, PTL DEF Inv

(* acl_cache never finds the decision it is to remember, so never drops    *)
(* one, whatever happens between the question and the answer.              *)
THEOREM StoredAfterMiss == Spec => []MissBeforeStore
    BY AlwaysInv, PTL DEF Inv
=============================================================================
