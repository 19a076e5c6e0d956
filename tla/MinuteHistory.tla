--------------------------- MODULE MinuteHistory ----------------------------
(***************************************************************************)
(* What the panel promises about the history of its servers: the reports   *)
(* of a server are averaged minute by minute. One minute is open at a      *)
(* time, and when a later one opens it becomes, whole, a stored minute or  *)
(* is lost. A stored minute is never touched again, only forgotten. The    *)
(* minutes of a server go forward, and a report is counted at most once.   *)
(***************************************************************************)
EXTENDS Integers

CONSTANT Servers

VARIABLES
  open,         \* the minute each server's reports are averaged into
  minutes,      \* the stored minutes of each server
  counted       \* every report that was ever averaged

vars == <<open, minutes, counted>>

NoMinute == [time |-> -1, samples |-> {}]

\* A report joins the open minute.
Average(u) ==
  /\ \E s \in open'[u].samples \ counted :
       open'[u] = [time |-> open[u].time, samples |-> open[u].samples \cup {s}]
  /\ minutes'[u] = minutes[u]

\* A report opens a minute later than all before; the last one is closed.
Open(u) ==
  /\ \E s \in open'[u].samples \ counted :
       open'[u] = [time |-> open'[u].time, samples |-> {s}]
  /\ \A r \in minutes[u] \cup {open[u]} : r.time < open'[u].time
  /\ \/ minutes'[u] = minutes[u]
     \/ /\ open[u].samples # {}
        /\ \A r \in minutes[u] : r.time < open[u].time
        /\ minutes'[u] = minutes[u] \cup {open[u]}

\* Stored minutes, the open one, or nothing, are forgotten.
Forget(u) ==
  /\ open'[u] \in {open[u], NoMinute}
  /\ minutes'[u] \subseteq minutes[u]

Init ==
  /\ open = [u \in Servers |-> NoMinute]
  /\ minutes = [u \in Servers |-> {}]
  /\ counted = {}

Next ==
  /\ counted' = counted \cup UNION {open'[u].samples : u \in Servers}
  /\ \A u \in Servers : Average(u) \/ Open(u) \/ Forget(u)

Spec == Init /\ [][Next]_vars
=============================================================================
