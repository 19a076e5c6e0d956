----------------------------- MODULE PageSocket -----------------------------
(***************************************************************************)
(* What the panel's page is promised about the live updates it gets over   *)
(* /ws, for as long as it is open and however often it has to connect      *)
(* again: every update it gets was published, and later than all it got    *)
(* before, over this connection or an earlier one. Updates may be missed,  *)
(* and one that was published before the page connected may still come.    *)
(***************************************************************************)
EXTENDS Naturals

VARIABLES
  published,    \* number of updates published
  up,           \* is the page connected?
  pos           \* the last update that it got or that it will not get any more

vars == <<published, up, pos>>

Publish ==
  /\ published' = published + 1
  /\ UNCHANGED <<up, pos>>

Open ==
  /\ ~up
  /\ up' = TRUE
  /\ UNCHANGED <<published, pos>>

\* The connection is lost, and what was on its way may be lost with it.
Drop ==
  /\ up' = FALSE
  /\ pos' \in pos..published
  /\ UNCHANGED published

\* The page gets an update; those between it and the last are lost.
Get ==
  /\ up
  /\ pos' \in (pos + 1)..published
  /\ UNCHANGED <<published, up>>

Init ==
  /\ published = 0
  /\ up = FALSE
  /\ pos = 0

Next == Publish \/ Open \/ Drop \/ Get

Spec == Init /\ [][Next]_vars
=============================================================================
