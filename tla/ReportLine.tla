----------------------------- MODULE ReportLine -----------------------------
(***************************************************************************)
(* What lies between a worker's phone and the table of jobs, seen from     *)
(* outside: one line of messages.  It may lose messages, and say a report  *)
(* again as long as it keeps it; it never makes one up, and never lets one *)
(* overtake another.  The table changes only by the report that has come   *)
(* to the front.  Jobs, where the line is the session of an app, a broker  *)
(* and the subscription of o2s, is shown to implement this.                *)
(***************************************************************************)
EXTENDS Integers, Sequences

CONSTANTS Works, noId, None

VARIABLES
    clock,  \* of the worker's touches
    line,   \* said, and not yet handled
    kept,   \* reports that may be said again
    table   \* <<[job, start, end], ...>>

vars == <<clock, line, kept, table>>

Init == clock = 0 /\ line = <<>> /\ kept = {} /\ table = <<>>

Says(j) == <<[kind |-> "current", job |-> j], [kind |-> "report", job |-> j, at |-> clock + 1]>>

(* A touch ends something, starts something, or both.                      *)
Touches ==
    {Says(noId)} \cup {Says(j) : j \in Works} \cup {Says(noId) \o Says(j) : j \in Works}

Say ==
    /\ clock' = clock + 1 /\ UNCHANGED table
    /\ \E msgs \in Touches :
          /\ line' = line \o msgs
          /\ kept' = kept \cup {msgs[k] : k \in {l \in DOMAIN msgs : msgs[l].kind = "report"}}

(* s without what stands after a and up to b.                              *)
Without(s, a, b) == [k \in 1 .. Len(s) - (b - a) |-> s[IF k <= a THEN k ELSE k + (b - a)]]

Lose ==
    /\ UNCHANGED <<clock, table>> /\ kept' \subseteq kept
    /\ \E a \in 0 .. Len(line) : \E b \in a .. Len(line) : line' = Without(line, a, b)

Repeat ==
    /\ UNCHANGED <<clock, kept, table>>
    /\ \E m \in kept : line' = Append(line, m)

(* A start opens an entry, an end closes one that is open if there is one. *)
Enter(m) ==
    \/ m.job # noId /\ table' = Append(table, [job |-> m.job, start |-> m.at, end |-> None])
    \/ /\ m.job = noId
       /\ \E k \in DOMAIN table :
             table[k].end = None /\ table' = [table EXCEPT ![k].end = m.at]
    \/ m.job = noId /\ UNCHANGED table /\ \A k \in DOMAIN table : table[k].end # None

Handle ==
    /\ UNCHANGED <<clock, kept>>
    /\ line # <<>> /\ line[1].kind = "report"
    /\ line' = Tail(line) /\ Enter(line[1])

Next == Say \/ Handle \/ Repeat \/ Lose

Spec == Init /\ [][Next]_vars
=============================================================================
