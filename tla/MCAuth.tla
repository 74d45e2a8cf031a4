------------------------------- MODULE MCAuth -------------------------------
(* One client that logs in as a user with a device, or anonymously.  Its   *)
(* request as the one has the key of one of its requests as the other; a   *)
(* third request has a key of its own.                                     *)
EXTENDS AuthPlugin
CONSTANTS c1, l1, l2, u1, u2, t1, t2
MCUserOf   == [l \in Logins \cup {None} |-> IF l = None THEN u2 ELSE u1]
MCRequests == {<<c1, u1, t1>>, <<c1, u2, t1>>, <<c1, u2, t2>>}
MCDigest   == [r \in Requests |-> IF r = <<c1, u2, t1>> THEN "hex1" ELSE "hex2"]
=============================================================================
