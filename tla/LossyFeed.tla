----------------------------- MODULE LossyFeed ------------------------------
(***************************************************************************)
(* What the hub's broadcast promises a browser, and all it promises: the   *)
(* updates it shows are updates that were published, each at most once and *)
(* in the order they were published. Some may be missing. An update counts *)
(* as published when it enters the hub's queue; updates are numbered in    *)
(* that order.                                                             *)
(***************************************************************************)
EXTENDS Naturals, Sequences

CONSTANT Clients

VARIABLES
  published,    \* number of updates published
  shown         \* the numbers of the updates each client was shown

vars == <<published, shown>>

Publish ==
  /\ published' = published + 1
  /\ UNCHANGED shown

\* A client is shown a later update than before; the ones between are lost.
Show(c) ==
  /\ \E n \in 1..published :
       /\ \A i \in 1..Len(shown[c]) : shown[c][i] < n
       /\ shown' = [shown EXCEPT ![c] = Append(@, n)]
  /\ UNCHANGED published

Init ==
  /\ published = 0
  /\ shown = [c \in Clients |-> << >>]

Next == Publish \/ \E c \in Clients : Show(c)

Spec == Init /\ [][Next]_vars
=============================================================================
