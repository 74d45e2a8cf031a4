----------------------------- MODULE AuthPlugin -----------------------------
(***************************************************************************)
(* mplug, the plugin with which the Mosquitto broker authenticates its     *)
(* clients and decides what they may read and write: a decision is looked  *)
(* for in a cache (cache.c), then asked of the MySQL back-end (mplug.c,    *)
(* be-mysql.c) in up to two queries, and remembered for cacheseconds.      *)
(* The broker has one thread: calls do not overlap.  Others write to the   *)
(* tables, and the database comes and goes, between any two queries.       *)
(*                                                                         *)
(* Time is kept as the age of each entry, up to the one at which it has    *)
(* expired.  A topic stands for a topic and an access to it.               *)
(*                                                                         *)
(* Abstracted: queries, patterns and password hashing (tables hold what    *)
(* they amount to); what is written to Redis, which the plugin never       *)
(* reads; the index of the back-end that authenticated, as there is one;   *)
(* calls without a topic or a clientid, which the broker does not make.    *)
(***************************************************************************)
EXTENDS Integers

CONSTANTS
    Clients,      \* clientids
    Logins,       \* user names as clients give them: "user|device"
    Wellformed,   \* those that split into a user and a device
    Passwords,
    Users,        \* what is left without the device
    UserOf,       \* login -> user; None, an anonymous client -> anonusername
    Global,       \* users that match the option superusers
    Topics,
    Requests,     \* those that clients make: client, user and topic
    Digest,       \* request -> key in the cache
    cacheseconds,
    None

ASSUME AuthAssumption ==
    /\ Requests \subseteq Clients \X Users \X Topics
    /\ Wellformed \subseteq Logins
    /\ None \notin Logins \cup Passwords
    /\ UserOf \in [Logins \cup {None} -> Users]
    /\ cacheseconds \in Nat

(* The digest is that of clientid, user name, topic and access, joined by  *)
(* colons.  Each may hold colons of its own, so that different requests    *)
(* can join to the same string: they share an entry of the cache, and      *)
(* nothing is assumed of which do.                                         *)
ASSUME DigestAssumption == DOMAIN Digest = Requests

Hexes == {Digest[r] : r \in Requests}

Alike(r) == {q \in Requests : Digest[q] = Digest[r]}

NoEntry == [granted |-> FALSE, age |-> -1]
Entries == [granted : BOOLEAN, age : 0 .. cacheseconds + 1]

VARIABLES
    up,        \* the database answers
    hash,      \* table of users: login -> password or None
    supers,    \* users for which superquery returns 1
    acl,       \* requests that aclquery and matching its patterns allow
    session,   \* client -> [on, login]
    cache,     \* ud->aclcache
    call,      \* the call of mosquitto_auth_acl_check in progress
    credible   \* observer: requests the tables have allowed at some time since
               \* they were asked about, for the present call or entry

tables == <<up, hash, supers, acl>>
vars   == <<tables, session, cache, call, credible>>

Allowed(r) == r[2] \in Global \cup supers \/ r \in acl

Calls == [pc : {"idle"}]
             \cup [pc : {"super", "acl"}, req : Requests]
             \cup [pc : {"store", "answer"}, req : Requests, granted : BOOLEAN]
Idle  == [pc |-> "idle"]
Off   == [on |-> FALSE, login |-> None]

TypeOK ==
    /\ up \in BOOLEAN
    /\ hash \in [Logins -> Passwords \cup {None}]
    /\ supers \subseteq Users /\ acl \subseteq Requests
    /\ session \in [Clients -> [on : BOOLEAN, login : Logins \cup {None}]]
    /\ cache \in [Hexes -> Entries \cup {NoEntry}]
    /\ call \in Calls
    /\ credible \subseteq Requests

Init ==
    /\ up = TRUE
    /\ hash \in [Logins -> Passwords \cup {None}]
    /\ supers = {} /\ acl \in SUBSET Requests
    /\ session = [c \in Clients |-> Off]
    /\ cache = [h \in Hexes |-> NoEntry]
    /\ call = Idle
    /\ credible = {r \in Requests : Allowed(r)}

-----------------------------------------------------------------------------
(* Clients come and go.  The back-end is asked for the password of a login *)
(* it can split; when the database is away nobody is let in.               *)
unpwd_check(c, l, w) ==
    /\ call = Idle /\ ~session[c].on
    /\ up /\ l \in Wellformed /\ hash[l] = w
    /\ session' = [session EXCEPT ![c] = [on |-> TRUE, login |-> l]]
    /\ UNCHANGED <<tables, cache, call>>

(* A client without a user name is not checked, if the broker lets it in. *)
Anonymous(c) ==
    /\ call = Idle /\ ~session[c].on
    /\ session' = [session EXCEPT ![c] = [on |-> TRUE, login |-> None]]
    /\ UNCHANGED <<tables, cache, call>>

Leave(c) ==
    /\ call = Idle /\ session[c].on
    /\ session' = [session EXCEPT ![c] = Off]
    /\ UNCHANGED <<tables, cache, call>>

-----------------------------------------------------------------------------
(* mosquitto_auth_acl_check. *)

(* Mutant: the user name is left out of what is digested.                  *)
Mut_hexify(r) == Digest[<<r[1], UserOf[None], r[3]>>]

hexify(r) == Digest[r]

Expired(e) == e # NoEntry /\ e.age > cacheseconds

(* Mutants: an entry that has expired stays; a hit renews the entry.       *)
Mut_Hit(r) ==
    /\ cacheseconds > 0 /\ cache[hexify(r)] # NoEntry
    /\ call' = [pc |-> "answer", req |-> r, granted |-> cache[hexify(r)].granted]
    /\ UNCHANGED cache

Mut_HitRenews(r) ==
    /\ cacheseconds > 0 /\ cache[hexify(r)] # NoEntry
    /\ call' = [pc |-> "answer", req |-> r, granted |-> cache[hexify(r)].granted]
    /\ cache' = [cache EXCEPT ![hexify(r)] = [granted |-> @.granted, age |-> 0]]

(* cache_q: what is in the cache is the answer, once more after it has     *)
(* expired.                                                                *)
Hit(r) ==
    /\ cacheseconds > 0 /\ cache[hexify(r)] # NoEntry
    /\ call' = [pc |-> "answer", req |-> r, granted |-> cache[hexify(r)].granted]
    /\ cache' = (IF Expired(cache[hexify(r)])
                   THEN [cache EXCEPT ![hexify(r)] = NoEntry] ELSE cache)

(* Mutant: an entry that has expired counts as a miss, and stays.          *)
Mut_Miss(r) ==
    /\ cacheseconds = 0 \/ cache[hexify(r)] = NoEntry \/ Expired(cache[hexify(r)])
    /\ call' = (IF r[2] \in Global
                  THEN [pc |-> "store", req |-> r, granted |-> TRUE]
                  ELSE [pc |-> "super", req |-> r])
    /\ UNCHANGED cache

Miss(r) ==
    /\ cacheseconds = 0 \/ cache[hexify(r)] = NoEntry
    /\ call' = (IF r[2] \in Global
                  THEN [pc |-> "store", req |-> r, granted |-> TRUE]
                  ELSE [pc |-> "super", req |-> r])
    /\ UNCHANGED cache

acl_check(c, t) ==
    /\ call = Idle /\ session[c].on
    /\ \E r \in Requests :
          r = <<c, UserOf[session[c].login], t>> /\ (Hit(r) \/ Miss(r))
    /\ UNCHANGED <<tables, session>>

(* A failed query is a "no". *)
superuser ==
    /\ call.pc = "super"
    /\ call' = (IF up /\ call.req[2] \in supers
                  THEN [pc |-> "store", req |-> call.req, granted |-> TRUE]
                  ELSE [pc |-> "acl", req |-> call.req])
    /\ UNCHANGED <<tables, session, cache>>

aclcheck ==
    /\ call.pc = "acl"
    /\ call' = [pc |-> "store", req |-> call.req,
                granted |-> up /\ call.req \in acl]
    /\ UNCHANGED <<tables, session, cache>>

(* acl_cache: an entry that is there already is not touched, unless it has *)
(* expired; then all the others that have expired are dropped as well.     *)
Added(h, granted) ==
    IF cache[h] = NoEntry
      THEN [cache EXCEPT ![h] = [granted |-> granted, age |-> 0]] ELSE cache

Swept(f) == [h \in Hexes |-> IF Expired(f[h]) THEN NoEntry ELSE f[h]]

acl_cache ==
    /\ call.pc = "store"
    /\ call' = [pc |-> "answer", req |-> call.req, granted |-> call.granted]
    /\ cache' = (IF cacheseconds = 0 THEN cache
                   ELSE Swept(Added(hexify(call.req), call.granted)))
    /\ UNCHANGED <<tables, session>>

Answer ==
    /\ call.pc = "answer" /\ call' = Idle
    /\ UNCHANGED <<tables, session, cache>>

(* The broker is restarted: mosquitto_auth_plugin_cleanup and _init. *)
Restart ==
    /\ session' = [c \in Clients |-> Off]
    /\ cache' = [h \in Hexes |-> NoEntry]
    /\ call' = Idle
    /\ UNCHANGED tables

-----------------------------------------------------------------------------
(* Time, the database and those who write to it. *)

(* Mutant: the age of an entry has no end.                                 *)
Mut_Older(e) ==
    IF e = NoEntry THEN e ELSE [granted |-> e.granted, age |-> e.age + 1]

Older(e) ==
    IF e = NoEntry \/ e.age > cacheseconds THEN e
    ELSE [granted |-> e.granted, age |-> e.age + 1]

Tick ==
    /\ cache' = [h \in Hexes |-> Older(cache[h])] /\ cache' # cache
    /\ UNCHANGED <<tables, session, call>>

Outage == up' = ~up /\ UNCHANGED <<hash, supers, acl, session, cache, call>>

ChangePassword(l, w) ==
    /\ hash' = [hash EXCEPT ![l] = w] /\ hash' # hash
    /\ UNCHANGED <<up, supers, acl, session, cache, call>>

ChangeSuper(u) ==
    /\ supers' = (IF u \in supers THEN supers \ {u} ELSE supers \cup {u})
    /\ UNCHANGED <<up, hash, acl, session, cache, call>>

ChangeAcl(r) ==
    /\ acl' = (IF r \in acl THEN acl \ {r} ELSE acl \cup {r})
    /\ UNCHANGED <<up, hash, supers, session, cache, call>>

(* A request is concerned while its key has an entry, or is that of the    *)
(* request that is being answered.                                         *)
Concerned(r) ==
    cache[Digest[r]] # NoEntry \/ (call # Idle /\ call.req \in Alike(r))

Observe ==
    credible' = {r \in Requests : Allowed(r)' \/ (r \in credible /\ Concerned(r)')}

Plugin == superuser \/ aclcheck \/ acl_cache \/ Answer

Broker ==
    \E c \in Clients :
        \/ \E l \in Logins, w \in Passwords : unpwd_check(c, l, w)
        \/ Anonymous(c) \/ Leave(c)
        \/ \E t \in Topics : acl_check(c, t)

Tables ==
    \/ Outage
    \/ \E l \in Logins, w \in Passwords \cup {None} : ChangePassword(l, w)
    \/ (\E u \in Users : ChangeSuper(u)) \/ (\E r \in Requests : ChangeAcl(r))

Next == (Plugin \/ Broker \/ Restart \/ Tick \/ Tables) /\ Observe

Spec == Init /\ [][Next]_vars

(* A call runs to its end, and time goes on.  Nobody has to ask. *)
Fairness == WF_vars(Plugin /\ Observe) /\ WF_vars(Tick /\ Observe)

FairSpec == Spec /\ Fairness

-----------------------------------------------------------------------------
(* Properties.  What the tables are asked is decided for the request that  *)
(* is asked about.  What the cache holds, and answers, was allowed, at some *)
(* time since it was asked, to that request or to one with the same key:   *)
(* no decision is given to a request with another key, or survives its     *)
(* entry.                                                                  *)
Vouched(r) == \E q \in Alike(r) : q \in credible

GrantsJustified ==
    /\ \A r \in Requests :
          cache[hexify(r)] # NoEntry /\ cache[hexify(r)].granted => Vouched(r)
    /\ call.pc = "store" /\ call.granted => call.req \in credible
    /\ call.pc = "answer" /\ call.granted => Vouched(call.req)

(* acl_cache would drop a decision for which it found an entry, and the    *)
(* entry if it has expired.  It never finds one: what cache_q did not      *)
(* answer is not in the cache when the database has.                       *)
MissBeforeStore ==
    call.pc \in {"super", "acl", "store"} /\ cacheseconds > 0 =>
        cache[hexify(call.req)] = NoEntry

Answers(r, granted) == call.pc = "answer" /\ call.req = r /\ call.granted = granted

(* A permission that was taken away is in the end refused, though it was   *)
(* in the cache or on its way there, and however often it is asked for: an *)
(* entry is not renewed by those who use it.  While another request with   *)
(* the same key is allowed, its entries answer for both.                   *)
RevocationTakesEffect ==
    \A r \in Requests :
        <>[](\A q \in Alike(r) : ~Allowed(q)) => <>[]~Answers(r, TRUE)

(* A permission that was given is in the end granted: the refusals that an *)
(* outage, or the time before, has left in the cache do not stay.  Those   *)
(* of a request with the same key count as its own.                        *)
PermissionTakesEffect ==
    \A r \in Requests :
        <>[](up /\ Alike(r) \subseteq acl) => <>[]~Answers(r, FALSE)
=============================================================================
