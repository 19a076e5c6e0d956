----------------------------- MODULE Broadcast ------------------------------
(***************************************************************************)
(* The live push to browsers: the tail of Hub.Ingest that publishes an     *)
(* update, the hub's goroutine run, and the goroutines of each WebSocket   *)
(* connection, wsReader and wsWriter, with the bounded channels between    *)
(* them. A connection is made once; a browser that reconnects is another   *)
(* member of Clients.                                                      *)
(*                                                                         *)
(* Hub.mu is released before an update is offered to bcCh, so the updates  *)
(* of handlers that overlap may enter it in another order than they were   *)
(* ingested in. An update has the number of its ingestion and the server   *)
(* it is about; in the channels it is known by its place in entered. What  *)
(* else it says is not modelled.                                           *)
(***************************************************************************)
EXTENDS Naturals, Sequences

CONSTANTS
  Servers,      \* the servers whose reports are ingested
  Impatient,    \* those whose agent may time out and post the next report
  Clients,      \* the *wsClient values that may ever be made
  Flaky,        \* those whose reads and pings may fail with both ends there
  AddCap,       \* capacity of addCh (16)
  DelCap,       \* capacity of delCh (16)
  BcCap,        \* capacity of bcCh (128)
  SendCap,      \* capacity of a client's channel send (64)
  MaxIngested   \* bound: reports ingested

ASSUME BroadcastAssumption ==
  /\ Impatient \subseteq Servers
  /\ Flaky \subseteq Clients
  /\ AddCap \in Nat \ {0}
  /\ DelCap \in Nat \ {0}
  /\ BcCap \in Nat \ {0}
  /\ SendCap \in Nat \ {0}
  /\ MaxIngested \in Nat

VARIABLES
  ingested,     \* number of reports that have gone through Hub.mu
  pending,      \* their updates that have not been offered to bcCh yet
  entered,      \* history variable: the updates in the order they entered it
  bcQ,          \* Hub.bcCh
  addQ,         \* Hub.addCh
  delQ,         \* Hub.delCh
  clients,      \* Hub.clients
  send,         \* the channel send of each client
  closed,       \* has the channel send of the client been closed?
  reader,       \* where the goroutine of ServeWS and wsReader is
  writer,       \* where the goroutine wsWriter is
  hand,         \* the update wsWriter is writing to the connection, or 0
  open,         \* is the panel's end of the connection open?
  alive,        \* is the browser's end of the connection there?
  shown         \* history variable: the updates that reached the browser

feed  == <<ingested, pending, entered>>
chans == <<bcQ, addQ, delQ>>
conns == <<open, alive>>
vars  == <<feed, chans, clients, send, closed, reader, writer, hand, conns,
           shown>>

Update == [id : Nat, from : Servers]

\* number of updates that have entered bcCh
published == Len(entered)

ReaderPcs == {"none", "joining", "reading", "leaving", "closing", "done"}
WriterPcs == {"none", "waiting", "writing", "done"}

-----------------------------------------------------------------------------
(* Hub.Ingest and the handlers that call it *)

\* Seeded bug: the agent is answered before the update is offered to bcCh.
IngestAfterReply(s) ==
  /\ ingested < MaxIngested
  /\ ingested' = ingested + 1
  /\ pending' = pending \cup {[id |-> ingested + 1, from |-> s]}
  /\ UNCHANGED <<entered, chans, clients, send, closed, reader, writer, hand,
                 conns, shown>>

\* A handler leaves Hub.mu. The agent had its last report answered, after its
\* update was offered to bcCh, or gave up waiting.
Ingest(s) ==
  /\ ingested < MaxIngested
  /\ s \in Impatient \/ ~\E u \in pending : u.from = s
  /\ ingested' = ingested + 1
  /\ pending' = pending \cup {[id |-> ingested + 1, from |-> s]}
  /\ UNCHANGED <<entered, chans, clients, send, closed, reader, writer, hand,
                 conns, shown>>

\* Seeded bug: a queue without a capacity.
PublishUnbounded(u) ==
  /\ pending' = pending \ {u}
  /\ entered' = Append(entered, u)
  /\ bcQ' = Append(bcQ, published + 1)
  /\ UNCHANGED <<ingested, addQ, delQ, clients, send, closed, reader, writer,
                 hand, conns, shown>>

\* The non-blocking send goes through: bcCh takes the update.
Publish(u) ==
  /\ Len(bcQ) < BcCap
  /\ pending' = pending \ {u}
  /\ entered' = Append(entered, u)
  /\ bcQ' = Append(bcQ, published + 1)
  /\ UNCHANGED <<ingested, addQ, delQ, clients, send, closed, reader, writer,
                 hand, conns, shown>>

\* With the channel full the update is dropped.
PublishDropped(u) ==
  /\ Len(bcQ) = BcCap
  /\ pending' = pending \ {u}
  /\ UNCHANGED <<ingested, entered, chans, clients, send, closed, reader,
                 writer, hand, conns, shown>>

-----------------------------------------------------------------------------
(* Hub.run: one case of the select at a time, any that is ready *)

Register ==
  /\ addQ # << >>
  /\ addQ' = Tail(addQ)
  /\ clients' = clients \cup {Head(addQ)}
  /\ UNCHANGED <<feed, bcQ, delQ, send, closed, reader, writer, hand,
                 conns, shown>>

\* Seeded bug: close(c.send) without looking the client up.
UnregisterAlways ==
  /\ delQ # << >>
  /\ LET c == Head(delQ) IN
       /\ clients' = clients \ {c}
       /\ closed' = [closed EXCEPT ![c] = TRUE]
  /\ delQ' = Tail(delQ)
  /\ UNCHANGED <<feed, bcQ, addQ, send, reader, writer, hand, conns,
                 shown>>

\* Only a registered client has its channel closed.
Unregister ==
  /\ delQ # << >>
  /\ LET c == Head(delQ) IN
       /\ clients' = clients \ {c}
       /\ closed' = [closed EXCEPT ![c] = @ \/ c \in clients]
  /\ delQ' = Tail(delQ)
  /\ UNCHANGED <<feed, bcQ, addQ, send, reader, writer, hand, conns,
                 shown>>

\* Seeded bug: an update that found a channel full is distributed once more.
DistributeRetries ==
  /\ bcQ # << >>
  /\ bcQ' = IF \E c \in clients : Len(send[c]) = SendCap THEN bcQ ELSE Tail(bcQ)
  /\ send' = [c \in Clients |->
                IF c \in clients /\ Len(send[c]) < SendCap
                THEN Append(send[c], Head(bcQ)) ELSE send[c]]
  /\ UNCHANGED <<feed, addQ, delQ, clients, closed, reader, writer, hand,
                 conns, shown>>

\* Every registered client whose channel has room is sent the update.
Distribute ==
  /\ bcQ # << >>
  /\ bcQ' = Tail(bcQ)
  /\ send' = [c \in Clients |->
                IF c \in clients /\ Len(send[c]) < SendCap
                THEN Append(send[c], Head(bcQ)) ELSE send[c]]
  /\ UNCHANGED <<feed, addQ, delQ, clients, closed, reader, writer, hand,
                 conns, shown>>

Run == Register \/ Unregister \/ Distribute

-----------------------------------------------------------------------------
(* ServeWS and wsReader *)

\* The upgrade succeeds; ServeWS is about to send on addCh.
Connect(c) ==
  /\ reader[c] = "none"
  /\ reader' = [reader EXCEPT ![c] = "joining"]
  /\ open' = [open EXCEPT ![c] = TRUE]
  /\ alive' = [alive EXCEPT ![c] = TRUE]
  /\ UNCHANGED <<feed, chans, clients, send, closed, writer, hand, shown>>

\* Seeded bug: the send on addCh has a default case too.
JoinDrops(c) ==
  /\ reader[c] = "joining"
  /\ addQ' = IF Len(addQ) < AddCap THEN Append(addQ, c) ELSE addQ
  /\ reader' = [reader EXCEPT ![c] = "reading"]
  /\ writer' = [writer EXCEPT ![c] = "waiting"]
  /\ UNCHANGED <<feed, bcQ, delQ, clients, send, closed, hand, conns,
                 shown>>

\* The send on addCh goes through; wsWriter is started, wsReader reads.
Join(c) ==
  /\ reader[c] = "joining"
  /\ Len(addQ) < AddCap
  /\ addQ' = Append(addQ, c)
  /\ reader' = [reader EXCEPT ![c] = "reading"]
  /\ writer' = [writer EXCEPT ![c] = "waiting"]
  /\ UNCHANGED <<feed, bcQ, delQ, clients, send, closed, hand, conns,
                 shown>>

\* Seeded bug: no read deadline, only a browser that is gone ends the loop.
ReadFailsNoDeadline(c) ==
  /\ reader[c] = "reading"
  /\ ~alive[c]
  /\ reader' = [reader EXCEPT ![c] = "leaving"]
  /\ UNCHANGED <<feed, chans, clients, send, closed, writer, hand, conns,
                 shown>>

\* The browser is gone, or nobody pings it, so that no pong moves the deadline.
ReadDue(c) == ~alive[c] \/ writer[c] = "done"

\* ReadMessage returns an error. Of a connection that works it may too, for a
\* message over the limit or a pong that comes after the deadline.
ReadFails(c) ==
  /\ reader[c] = "reading"
  /\ ReadDue(c) \/ c \in Flaky
  /\ reader' = [reader EXCEPT ![c] = "leaving"]
  /\ UNCHANGED <<feed, chans, clients, send, closed, writer, hand, conns,
                 shown>>

\* Seeded bug: the send on delCh has a default case too.
LeaveDrops(c) ==
  /\ reader[c] = "leaving"
  /\ delQ' = IF Len(delQ) < DelCap THEN Append(delQ, c) ELSE delQ
  /\ reader' = [reader EXCEPT ![c] = "closing"]
  /\ UNCHANGED <<feed, bcQ, addQ, clients, send, closed, writer, hand, conns,
                 shown>>

\* The deferred send on delCh goes through.
Leave(c) ==
  /\ reader[c] = "leaving"
  /\ Len(delQ) < DelCap
  /\ delQ' = Append(delQ, c)
  /\ reader' = [reader EXCEPT ![c] = "closing"]
  /\ UNCHANGED <<feed, bcQ, addQ, clients, send, closed, writer, hand,
                 conns, shown>>

\* conn.Close()
CloseConn(c) ==
  /\ reader[c] = "closing"
  /\ open' = [open EXCEPT ![c] = FALSE]
  /\ reader' = [reader EXCEPT ![c] = "done"]
  /\ UNCHANGED <<feed, chans, clients, send, closed, writer, hand, alive,
                 shown>>

Reader(c) == Join(c) \/ ReadFails(c) \/ Leave(c) \/ CloseConn(c)

-----------------------------------------------------------------------------
(* wsWriter *)

TakeUpdate(c) ==
  /\ writer[c] = "waiting"
  /\ send[c] # << >>
  /\ hand' = [hand EXCEPT ![c] = Head(send[c])]
  /\ send' = [send EXCEPT ![c] = Tail(@)]
  /\ writer' = [writer EXCEPT ![c] = "writing"]
  /\ UNCHANGED <<feed, chans, clients, closed, reader, conns, shown>>

\* The channel is closed and drained: a close message, then return.
SeeClosed(c) ==
  /\ writer[c] = "waiting"
  /\ closed[c]
  /\ send[c] = << >>
  /\ writer' = [writer EXCEPT ![c] = "done"]
  /\ UNCHANGED <<feed, chans, clients, send, closed, reader, hand, conns,
                 shown>>

WriteSucceeds(c) ==
  /\ writer[c] = "writing"
  /\ open[c]
  /\ shown' = [shown EXCEPT ![c] = IF alive[c] THEN Append(@, hand[c]) ELSE @]
  /\ hand' = [hand EXCEPT ![c] = 0]
  /\ writer' = [writer EXCEPT ![c] = "waiting"]
  /\ UNCHANGED <<feed, chans, clients, send, closed, reader, conns>>

\* The connection is closed, or the write deadline passes.
WriteFails(c) ==
  /\ writer[c] = "writing"
  /\ hand' = [hand EXCEPT ![c] = 0]
  /\ writer' = [writer EXCEPT ![c] = "done"]
  /\ UNCHANGED <<feed, chans, clients, send, closed, reader, conns, shown>>

\* The ticker fires and the ping cannot be written: an end is gone, or both are
\* there and the write deadline passes all the same.
PingFails(c) ==
  /\ writer[c] = "waiting"
  /\ ~open[c] \/ ~alive[c] \/ c \in Flaky
  /\ writer' = [writer EXCEPT ![c] = "done"]
  /\ UNCHANGED <<feed, chans, clients, send, closed, reader, hand, conns,
                 shown>>

\* An update, a closed channel, or an end that is gone: wsWriter must go on.
WriteDue(c) == send[c] # << >> \/ closed[c] \/ ~open[c] \/ ~alive[c]

Writer(c) ==
  \/ TakeUpdate(c)
  \/ SeeClosed(c)
  \/ WriteSucceeds(c)
  \/ WriteFails(c)
  \/ PingFails(c)

-----------------------------------------------------------------------------
(* The browser *)

\* The tab is closed, or the network between is lost.
BrowserLeaves(c) ==
  /\ alive[c]
  /\ alive' = [alive EXCEPT ![c] = FALSE]
  /\ UNCHANGED <<feed, chans, clients, send, closed, reader, writer, hand,
                 open, shown>>

-----------------------------------------------------------------------------
(* Specification *)

Init ==
  /\ ingested = 0
  /\ pending = {}
  /\ entered = << >>
  /\ bcQ = << >>
  /\ addQ = << >>
  /\ delQ = << >>
  /\ clients = {}
  /\ send = [c \in Clients |-> << >>]
  /\ closed = [c \in Clients |-> FALSE]
  /\ reader = [c \in Clients |-> "none"]
  /\ writer = [c \in Clients |-> "none"]
  /\ hand = [c \in Clients |-> 0]
  /\ open = [c \in Clients |-> FALSE]
  /\ alive = [c \in Clients |-> FALSE]
  /\ shown = [c \in Clients |-> << >>]

Next ==
  \/ \E s \in Servers : Ingest(s)
  \/ \E u \in pending : Publish(u) \/ PublishDropped(u)
  \/ Run
  \/ \E c \in Clients : Connect(c) \/ Reader(c) \/ Writer(c) \/ BrowserLeaves(c)

Spec == Init /\ [][Next]_vars

\* Every goroutine is scheduled, and a select that runs again and again takes
\* each case that stays ready, for it chooses at random. A read and a ping of a
\* connection that works need not fail.
Fairness ==
  /\ WF_vars(Register)
  /\ WF_vars(Unregister)
  /\ WF_vars(Distribute)
  /\ \A c \in Clients :
       /\ WF_vars((reader[c] = "reading" => ReadDue(c)) /\ Reader(c))
       /\ WF_vars((writer[c] = "waiting" => WriteDue(c)) /\ Writer(c))

FairSpec == Spec /\ Fairness

-----------------------------------------------------------------------------
(* Properties *)

TypeOK ==
  /\ ingested \in Nat
  /\ pending \subseteq Update
  /\ entered \in Seq(Update)
  /\ bcQ \in Seq(Nat) /\ Len(bcQ) <= BcCap
  /\ addQ \in Seq(Clients) /\ Len(addQ) <= AddCap
  /\ delQ \in Seq(Clients) /\ Len(delQ) <= DelCap
  /\ clients \subseteq Clients
  /\ send \in [Clients -> Seq(Nat)]
  /\ \A c \in Clients : Len(send[c]) <= SendCap
  /\ closed \in [Clients -> BOOLEAN]
  /\ reader \in [Clients -> ReaderPcs]
  /\ writer \in [Clients -> WriterPcs]
  /\ hand \in [Clients -> Nat]
  /\ open \in [Clients -> BOOLEAN]
  /\ alive \in [Clients -> BOOLEAN]
  /\ shown \in [Clients -> Seq(Nat)]

\* The hub never sends on a closed channel and never closes one twice, either
\* of which would bring the panel down, in whatever order the select takes a
\* connection's arrival and its departure (hub.go, run).
NoSendOnClosed == \A c \in clients : ~closed[c]

\* Is the arrival of c waiting for the hub?
Announced(c) == \E i \in 1..Len(addQ) : addQ[i] = c

\* As long as a connection is read the hub has it, or its arrival is waiting;
\* its channel is closed only once its reader has announced the departure. So as
\* long as both its goroutines run, a browser is left out of nothing but updates
\* its full channel dropped (ServeWS, wsReader and the three cases of run).
ServedWhileRead ==
  \A c \in Clients :
    /\ reader[c] \in {"reading", "leaving"} => c \in clients \/ Announced(c)
    /\ closed[c] => reader[c] \in {"closing", "done"}

\* A browser is shown published updates, each at most once and in the order
\* they entered bcCh.
Feed == INSTANCE LossyFeed WITH
          Clients <- Clients, published <- Len(entered), shown <- shown
FeedSpec == Feed!Spec

\* The update of c at place i of what it was shown
ShownUpdate(c, i) == entered[shown[c][i]]

\* No browser is shown an older report of a server after a newer one, although
\* updates enter bcCh outside Hub.mu, unless the server's agent times out.
NewestLast ==
  \A c \in Clients : \A i, j \in 1..Len(shown[c]) :
    /\ i < j
    /\ ShownUpdate(c, i).from = ShownUpdate(c, j).from
    /\ ShownUpdate(c, i).from \notin Impatient
    => ShownUpdate(c, i).id < ShownUpdate(c, j).id

\* No connection is forgotten: however many arrive and leave at once, and
\* however slow the others are, the hub registers it unless it ends before.
JoinsServed ==
  \A c \in Clients :
    reader[c] = "joining"
      ~> c \in clients \/ reader[c] \notin {"joining", "reading"}

\* A connection that ends after the hub registered it leaves clients again.
\* (One whose departure is taken before its arrival stays there for good.)
LeaversRemoved ==
  \A c \in Clients :
    reader[c] = "leaving" /\ c \in clients ~> c \notin clients

\* When either end of a connection fails, both of its goroutines end: the
\* writer on a ping or a closed channel, the reader on its deadline.
ConnectionsEnd ==
  \A c \in Clients :
    reader[c] = "reading" /\ (~alive[c] \/ writer[c] = "done")
      ~> reader[c] = "done" /\ writer[c] = "done"
=============================================================================
