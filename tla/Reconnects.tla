----------------------------- MODULE Reconnects -----------------------------
(***************************************************************************)
(* Broadcast, with one page among the browsers that keeps itself up to     *)
(* date: whenever its connection is closed it makes another one. Together  *)
(* they give it what PageSocket promises, on which Panel is built.         *)
(*                                                                         *)
(* To the panel the page's next connection is one more client. The hub may *)
(* not have seen the end of the last one yet, and may go on sending to     *)
(* both; what is sent to a browser that is gone is not shown.              *)
(***************************************************************************)
EXTENDS Broadcast, FiniteSetsExt

CONSTANT Page   \* the connections that the page makes, numbered in that order

ASSUME ReconnectsAssumption == Page \subseteq Clients \cap Nat

\* The page has a connection, as far as it knows.
Connected == \E c \in Page : alive[c]

\* Seeded bug: the page also connects again on an error that closes nothing.
ConnectsOnError(c) == TRUE

\* connectWS is called when the page opens, and then by onclose.
MayConnect(c) ==
  c \in Page =>
    /\ ~Connected
    /\ \A d \in Page : d < c => reader[d] # "none"

\* A step of Broadcast, in which the page connects only when it may.
PageNext ==
  /\ Next
  /\ \A c \in Clients : alive'[c] /\ ~alive[c] => MayConnect(c)

PageSpec == Init /\ [][PageNext]_vars

FairPageSpec == PageSpec /\ Fairness

-----------------------------------------------------------------------------
(* Properties *)

\* The updates that came over one connection
GotOver(c) == {shown[c][i] : i \in 1..Len(shown[c])}

\* Those that came over any of the page's, and 0
Got == {0} \cup UNION {GotOver(c) : c \in Page}

LastGot == Max(Got)

Socket == INSTANCE PageSocket WITH
            published <- Len(entered), up <- Connected, pos <- LastGot

\* The page gets an update.
Arrives == \E c \in Page : shown'[c] # shown[c]

\* However often the page loses its connection, and whatever the hub still
\* sends to the old ones, every update it gets is later than all it got before:
\* none comes twice (hub.go, run; app.js, connectWS).
PageServed == Socket!Spec /\ [][Arrives => Socket!Get]_vars
=============================================================================
