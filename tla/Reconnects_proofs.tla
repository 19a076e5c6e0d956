------------------------- MODULE Reconnects_proofs --------------------------
(***************************************************************************)
(* Theorems about Reconnects: what PageSocket promises a page is kept, for *)
(* any number of connections, of other browsers, and any capacities of the *)
(* channels.                                                               *)
(***************************************************************************)
EXTENDS Reconnects, Broadcast_proofs

USE DEF published, feed, chans, conns

-----------------------------------------------------------------------------
(* Lemmas about the operators *)

\* A bound that belongs to a set of numbers is the greatest of them.
LEMMA MaxIs ==
  ASSUME NEW G \in SUBSET Nat, NEW n \in G, \A m \in G : m <= n
  PROVE  Max(G) = n
<1>1. \E x \in G : \A y \in G : x >= y
  <2>1. \A y \in G : n >= y
    OBVIOUS
  <2>2. QED
    BY <2>1
<1> DEFINE Bounds(x) == \A y \in G : x >= y
<1>2. Max(G) \in G /\ Bounds(Max(G))
  <2>1. \E x \in G : Bounds(x)
    BY <1>1
  <2> HIDE DEF Bounds
  <2>2. (CHOOSE x \in G : Bounds(x)) \in G /\ Bounds(CHOOSE x \in G : Bounds(x))
    BY <2>1, Zenon
  <2>3. QED
    BY <2>2 DEF Bounds, Max
<1>3. Max(G) >= n /\ Max(G) <= n /\ Max(G) \in Nat /\ n \in Nat
  BY <1>2
<1> HIDE DEF Bounds
<1>4. QED
  BY <1>3

\* What the page got over a connection.
LEMMA GotIs ==
  ASSUME NEW m
  PROVE  m \in Got <=>
           m = 0 \/ \E c \in Page : \E i \in 1..Len(shown[c]) : m = shown[c][i]
BY DEF Got, GotOver

-----------------------------------------------------------------------------
(* The inductive invariant *)

\* A connection the hub was not told of has been sent nothing.
Fresh ==
  \A c \in Clients : reader[c] \in {"none", "joining"} =>
    send[c] = << >> /\ writer[c] = "none"

\* What is on its way over the page's connection is later than what it got
\* over any; what is still in the hub's queue is, too (FeedInv).
Ahead ==
  \A c, d \in Page : alive[c] =>
    \A k \in 1..Len(shown[d]) :
      /\ \A i \in 1..Len(send[c]) : shown[d][k] < send[c][i]
      /\ writer[c] = "writing" => shown[d][k] < hand[c]

\* The page has one connection at a time.
OneAlive == \A c, d \in Page : alive[c] /\ alive[d] => c = d

\* Of what the page got there is a last update, and it was published.
HasLast == \E n \in Got : n <= published /\ \A m \in Got : m <= n

PageInv == FeedInv /\ OpenInv /\ Fresh /\ Ahead /\ OneAlive /\ HasLast

-----------------------------------------------------------------------------
(* Every step keeps it *)

\* A connection is in the hub's table only after it was announced.
LEMMA FreshInductive ==
  ASSUME OpenInv, Fresh, [Next]_vars
  PROVE  Fresh'
<1> USE DEF Fresh
<1>0. TypeOK
  BY DEF OpenInv
<1>1. CASE Distribute
  <2>1. \A c \in Clients : reader[c] \in {"none", "joining"} => c \notin clients
    BY DEF OpenInv, AnnouncedOnce
  <2>2. QED
    BY <1>1, <2>1 DEF Distribute
<1>2. ASSUME NEW c \in Clients, Connect(c) \/ Join(c) PROVE Fresh'
  BY <1>0, <1>2 DEF Connect, Join, TypeOK
<1>3. ASSUME NEW c \in Clients, ReadFails(c) \/ Leave(c) \/ CloseConn(c)
      PROVE  Fresh'
  BY <1>0, <1>3 DEF ReadFails, Leave, CloseConn, TypeOK
<1>4. ASSUME NEW c \in Clients, Writer(c) PROVE Fresh'
  <2>1. reader[c] \notin {"none", "joining"}
    BY <1>4 DEF Writer, TakeUpdate, SeeClosed, WriteSucceeds, WriteFails,
                PingFails
  <2>2. /\ reader' = reader
        /\ \A d \in Clients \ {c} : send'[d] = send[d] /\ writer'[d] = writer[d]
    BY <1>0, <1>4 DEF Writer, TakeUpdate, SeeClosed, WriteSucceeds, WriteFails,
                      PingFails, TypeOK
  <2>3. QED
    BY <2>1, <2>2
<1>5. CASE UNCHANGED <<reader, send, writer>>
  BY <1>5
<1>6. CASE \/ \E s \in Servers : Ingest(s)
           \/ \E u \in pending : Publish(u) \/ PublishDropped(u)
           \/ Register \/ Unregister \/ \E c \in Clients : BrowserLeaves(c)
           \/ UNCHANGED vars
  BY <1>5, <1>6 DEF Ingest, Publish, PublishDropped, Register, Unregister,
                    BrowserLeaves, vars
<1>7. QED
  BY <1>1, <1>2, <1>3, <1>4, <1>6 DEF Next, Run, Reader

\* A connection comes up only by being made, and only while the page has none.
LEMMA AliveSteps ==
  ASSUME TypeOK, [PageNext]_vars
  PROVE  \/ alive' = alive
         \/ \E c \in Clients : /\ Connect(c) /\ alive' = [alive EXCEPT ![c] = TRUE]
                               /\ ~alive[c] => MayConnect(c)
         \/ \E c \in Clients : BrowserLeaves(c)
<1>1. ASSUME NEW c \in Clients, Connect(c), PageNext
      PROVE  /\ alive' = [alive EXCEPT ![c] = TRUE]
             /\ ~alive[c] => MayConnect(c)
  BY <1>1 DEF Connect, PageNext, TypeOK
<1>2. QED
  BY <1>1 DEF PageNext, Next, Run, Reader, Writer, vars, Ingest, Publish,
     PublishDropped, Register, Unregister, Distribute, Join, ReadFails, Leave,
     CloseConn, TakeUpdate, SeeClosed, WriteSucceeds, WriteFails, PingFails

\* The page never has two connections.
LEMMA OneInductive ==
  ASSUME TypeOK, OneAlive, [PageNext]_vars
  PROVE  OneAlive'
<1> USE ReconnectsAssumption DEF OneAlive
<1>1. CASE alive' = alive
  BY <1>1
<1>2. ASSUME NEW c \in Clients, alive' = [alive EXCEPT ![c] = TRUE],
             ~alive[c] => MayConnect(c)
      PROVE  OneAlive'
  <2>1. CASE c \in Page /\ ~alive[c]
    <3>1. \A d \in Page : ~alive[d]
      BY <1>2, <2>1 DEF MayConnect, Connected
    <3>2. QED
      BY <1>2, <3>1 DEF TypeOK
  <2>2. CASE ~(c \in Page /\ ~alive[c])
    <3>1. \A d \in Page : alive'[d] => alive[d]
      BY <1>2, <2>2 DEF TypeOK
    <3>2. QED
      BY <3>1
  <2>3. QED
    BY <2>1, <2>2
<1>3. ASSUME NEW c \in Clients, BrowserLeaves(c) PROVE OneAlive'
  BY <1>3 DEF BrowserLeaves, TypeOK
<1>4. QED
  BY <1>1, <1>2, <1>3, AliveSteps

\* What the page got was published, and before what the hub still has queued.
LEMMA GotBefore ==
  ASSUME FeedInv, NEW d \in Page, NEW k \in 1..Len(shown[d])
  PROVE  /\ shown[d][k] \in Nat /\ shown[d][k] <= published
         /\ \A i \in 1..Len(bcQ) : shown[d][k] < bcQ[i]
<1>1. d \in Clients
  BY ReconnectsAssumption
<1>2. shown[d][k] \in Nat
  BY <1>1 DEF FeedInv, TypeOK
<1>3. Before(shown[d][k], d)
  BY <1>1 DEF FeedInv, InOrderFor
<1>4. QED
  BY <1>2, <1>3 DEF Before

\* What is shown over the page's connection is later than all it got before.
LEMMA ShowsLater ==
  ASSUME PageInv, NEW c \in Page, alive[c], WriteSucceeds(c)
  PROVE  /\ hand[c] \in 1..published
         /\ \A m \in Got : m < hand[c]
         /\ Got' = Got \cup {hand[c]}
         /\ shown' = [shown EXCEPT ![c] = Append(@, hand[c])]
         /\ published' = published
<1>1. /\ c \in Clients /\ shown \in [Clients -> Seq(Nat)] /\ hand[c] \in Nat
      /\ shown' = [shown EXCEPT ![c] = Append(@, hand[c])]
      /\ published' = published /\ writer[c] = "writing"
  BY ReconnectsAssumption DEF PageInv, FeedInv, TypeOK, WriteSucceeds
<1>2. hand[c] \in 1..published
  BY <1>1 DEF PageInv, FeedInv, InOrderFor
<1>3. ASSUME NEW m \in Got PROVE m < hand[c]
  <2>1. CASE m = 0
    BY <1>2, <2>1
  <2>2. ASSUME NEW d \in Page, NEW k \in 1..Len(shown[d]), m = shown[d][k]
        PROVE  m < hand[c]
    BY <1>1, <2>2 DEF PageInv, Ahead
  <2>3. QED
    BY <2>1, <2>2, GotIs
<1>4. /\ shown'[c] = Append(shown[c], hand[c])
      /\ Len(shown[c]) \in Nat /\ Len(shown'[c]) = Len(shown[c]) + 1
      /\ \A i \in 1..Len(shown[c]) : shown'[c][i] = shown[c][i]
      /\ shown'[c][Len(shown[c]) + 1] = hand[c]
  BY <1>1, SendFacts
<1>5. \A d \in Page \ {c} : shown'[d] = shown[d]
  BY <1>1, ReconnectsAssumption
<1>6. GotOver(c)' = GotOver(c) \cup {hand[c]}
  <2>1. \A i \in 1..Len(shown'[c]) : i \in 1..Len(shown[c]) \/ i = Len(shown[c]) + 1
    BY <1>4
  <2>2. \A i \in 1..Len(shown[c]) : i \in 1..Len(shown'[c])
    BY <1>4
  <2>3. Len(shown[c]) + 1 \in 1..Len(shown'[c])
    BY <1>4
  <2>4. QED
    BY <1>4, <2>1, <2>2, <2>3 DEF GotOver
<1>7. Got' = Got \cup {hand[c]}
  <2>1. \A d \in Page \ {c} : GotOver(d)' = GotOver(d)
    BY <1>5 DEF GotOver
  <2>2. ASSUME NEW m PROVE m \in Got' <=> m \in Got \/ m = hand[c]
    <3>1. m \in Got' <=> m = 0 \/ \E d \in Page : m \in GotOver(d)'
      BY DEF Got
    <3>2. m \in Got <=> m = 0 \/ \E d \in Page : m \in GotOver(d)
      BY DEF Got
    <3>3. QED
      BY <1>6, <2>1, <3>1, <3>2
  <2>3. QED
    BY <2>2
<1>8. QED
  BY <1>1, <1>2, <1>3, <1>7

\* Any other step gives the page nothing.
LEMMA ShowsNothing ==
  ASSUME TypeOK, [Next]_vars,
         ~\E c \in Page : alive[c] /\ WriteSucceeds(c)
  PROVE  /\ Got' = Got
         /\ \A d \in Page : shown'[d] = shown[d]
<1>1. \A d \in Page : shown'[d] = shown[d]
  <2>1. ASSUME NEW c \in Clients, WriteSucceeds(c), NEW d \in Page
        PROVE  shown'[d] = shown[d]
    BY <2>1, ReconnectsAssumption DEF WriteSucceeds, TypeOK
  <2>2. QED
    BY <2>1 DEF Next, Run, Reader, Writer, vars, Ingest, Publish,
       PublishDropped, Register, Unregister, Distribute, Connect, Join,
       ReadFails, Leave, CloseConn, TakeUpdate, SeeClosed, WriteFails,
       PingFails, BrowserLeaves
<1>2. QED
  BY <1>1 DEF Got, GotOver

\* The numbers a page got are numbers.
LEMMA GotNumbers ==
  ASSUME FeedInv
  PROVE  Got \in SUBSET Nat
BY GotBefore, GotIs

\* Nothing that was published is unpublished.
LEMMA PublishedGrows ==
  ASSUME FeedInv, [Next]_vars
  PROVE  published \in Nat /\ published' \in Nat /\ published <= published'
<1>1. [Feed!Next]_Feed!vars /\ published \in Nat
  BY FeedStep DEF FeedInv, TypeOK
<1>2. QED
  BY <1>1 DEF Feed!Next, Feed!Publish, Feed!Show, Feed!vars

\* The page's last update stays one, or the new one is.
LEMMA LastInductive ==
  ASSUME PageInv, [Next]_vars
  PROVE  HasLast'
<1>1. PICK n \in Got : n <= published /\ \A m \in Got : m <= n
  BY DEF PageInv, HasLast
<1>2. /\ published \in Nat /\ published' \in Nat /\ published <= published'
      /\ Got \in SUBSET Nat
  BY PublishedGrows, GotNumbers DEF PageInv
<1>3. ASSUME NEW c \in Page, alive[c], WriteSucceeds(c) PROVE HasLast'
  <2>1. /\ hand[c] \in 1..published /\ \A m \in Got : m < hand[c]
        /\ Got' = Got \cup {hand[c]} /\ published' = published
    BY <1>3, ShowsLater
  <2>2. hand[c] \in Got' /\ hand[c] <= published' /\ \A m \in Got' : m <= hand[c]
    BY <1>2, <2>1
  <2>3. QED
    BY <2>2 DEF HasLast
<1>4. CASE ~\E c \in Page : alive[c] /\ WriteSucceeds(c)
  <2>1. Got' = Got
    BY <1>4, ShowsNothing DEF PageInv, FeedInv
  <2>2. n \in Got' /\ n <= published' /\ \A m \in Got' : m <= n
    BY <1>1, <1>2, <2>1
  <2>3. QED
    BY <2>2 DEF HasLast
<1>5. QED
  BY <1>3, <1>4

\* What an update that was shown precedes, it precedes after every step.
LEMMA AheadStep ==
  ASSUME PageInv, [Next]_vars, NEW c \in Page, NEW d \in Page, alive[c],
         NEW k \in 1..Len(shown[d])
  PROVE  /\ \A i \in 1..Len(send'[c]) : shown[d][k] < send'[c][i]
         /\ writer'[c] = "writing" => shown[d][k] < hand'[c]
<1> DEFINE Goal == /\ \A i \in 1..Len(send'[c]) : shown[d][k] < send'[c][i]
                   /\ writer'[c] = "writing" => shown[d][k] < hand'[c]
<1>0. /\ TypeOK /\ Ahead /\ c \in Clients
      /\ send[c] \in Seq(Nat) /\ Len(send[c]) \in Nat /\ bcQ \in Seq(Nat)
      /\ \A i \in 1..Len(send[c]) : shown[d][k] < send[c][i]
      /\ writer[c] = "writing" => shown[d][k] < hand[c]
      /\ \A i \in 1..Len(bcQ) : shown[d][k] < bcQ[i]
  <2>1. TypeOK /\ Ahead /\ c \in Clients
    BY ReconnectsAssumption DEF PageInv, FeedInv
  <2>2. send[c] \in Seq(Nat) /\ Len(send[c]) \in Nat /\ bcQ \in Seq(Nat)
    BY <2>1 DEF TypeOK
  <2>3. /\ \A i \in 1..Len(send[c]) : shown[d][k] < send[c][i]
        /\ writer[c] = "writing" => shown[d][k] < hand[c]
    BY <2>1 DEF Ahead
  <2>4. \A i \in 1..Len(bcQ) : shown[d][k] < bcQ[i]
    BY GotBefore DEF PageInv
  <2>5. QED
    BY <2>1, <2>2, <2>3, <2>4
<1>1. CASE Distribute
  <2>1. /\ bcQ # << >> /\ writer' = writer /\ hand' = hand
        /\ send'[c] \in {send[c], Append(send[c], Head(bcQ))}
    BY <1>0, <1>1 DEF Distribute
  <2>2. Head(bcQ) \in Nat /\ Head(bcQ) = bcQ[1] /\ 1 \in 1..Len(bcQ)
    BY <1>0, <2>1, ReceiveFacts
  <2>3. CASE send'[c] = Append(send[c], Head(bcQ))
    <3>1. /\ Len(send'[c]) = Len(send[c]) + 1
          /\ \A i \in 1..Len(send[c]) : send'[c][i] = send[c][i]
          /\ send'[c][Len(send[c]) + 1] = bcQ[1]
      BY <1>0, <2>2, <2>3, SendFacts
    <3>2. \A i \in 1..Len(send'[c]) : i \in 1..Len(send[c]) \/ i = Len(send[c]) + 1
      BY <1>0, <3>1
    <3>3. QED
      BY <1>0, <2>1, <2>2, <3>1, <3>2
  <2>4. QED
    BY <1>0, <2>1, <2>3
<1>2. CASE TakeUpdate(c)
  <2>1. /\ send[c] # << >> /\ hand'[c] = Head(send[c]) /\ send'[c] = Tail(send[c])
    BY <1>0, <1>2 DEF TakeUpdate, TypeOK
  <2>2. /\ hand'[c] = send[c][1] /\ Len(send[c]) \in Nat \ {0}
        /\ Len(send'[c]) = Len(send[c]) - 1
        /\ \A i \in 1..Len(send'[c]) : send'[c][i] = send[c][i + 1]
    BY <1>0, <2>1, ReceiveFacts
  <2>3. 1 \in 1..Len(send[c]) /\ \A i \in 1..Len(send'[c]) : i + 1 \in 1..Len(send[c])
    BY <2>2
  <2>4. QED
    BY <1>0, <2>2, <2>3
<1>3. CASE /\ send'[c] = send[c]
           /\ writer'[c] = "writing" => /\ writer[c] = "writing"
                                       /\ hand'[c] = hand[c]
  BY <1>0, <1>3
<1>4. ASSUME NEW e \in Clients, Reader(e) \/ Connect(e) \/ BrowserLeaves(e)
      PROVE  Goal
  BY <1>0, <1>3, <1>4 DEF Reader, Join, ReadFails, Leave, CloseConn, Connect,
                          BrowserLeaves, TypeOK
<1>5. ASSUME NEW e \in Clients, Writer(e) PROVE Goal
  <2>1. CASE e # c
    <3>1. send'[c] = send[c] /\ hand'[c] = hand[c] /\ writer'[c] = writer[c]
      BY <1>0, <1>5, <2>1 DEF Writer, TakeUpdate, SeeClosed, WriteSucceeds,
                              WriteFails, PingFails, TypeOK
    <3>2. QED
      BY <1>3, <3>1
  <2>2. CASE e = c /\ ~TakeUpdate(c)
    <3>1. send'[c] = send[c] /\ writer'[c] # "writing"
      BY <1>0, <1>5, <2>2 DEF Writer, SeeClosed, WriteSucceeds, WriteFails,
                              PingFails, TypeOK
    <3>2. QED
      BY <1>3, <3>1
  <2>3. QED
    BY <1>2, <2>1, <2>2
<1>6. CASE \/ \E s \in Servers : Ingest(s)
           \/ \E u \in pending : Publish(u) \/ PublishDropped(u)
           \/ Register \/ Unregister
           \/ UNCHANGED vars
  BY <1>3, <1>6 DEF Ingest, Publish, PublishDropped, Register, Unregister, vars
<1>7. QED
  BY <1>1, <1>4, <1>5, <1>6 DEF Next, Run

\* Every step keeps what is on its way ahead of what was shown.
LEMMA AheadInductive ==
  ASSUME PageInv, [PageNext]_vars
  PROVE  Ahead'
<1> SUFFICES ASSUME NEW c \in Page, NEW d \in Page, alive'[c],
                    NEW k \in 1..Len(shown'[d])
             PROVE  /\ \A i \in 1..Len(send'[c]) : shown'[d][k] < send'[c][i]
                    /\ writer'[c] = "writing" => shown'[d][k] < hand'[c]
  BY DEF Ahead
<1>0. /\ c \in Clients /\ d \in Clients /\ TypeOK /\ [Next]_vars
  BY ReconnectsAssumption DEF PageInv, FeedInv, PageNext
\* A connection just made: it has been sent nothing.
<1>1. CASE ~alive[c]
  <2>1. PICK e \in Clients : Connect(e)
    BY <1>0, <1>1, AliveSteps DEF BrowserLeaves, TypeOK
  <2>2. e = c
    BY <1>0, <1>1, <2>1 DEF Connect, TypeOK
  <2>3. send'[c] = << >> /\ writer'[c] = "none"
    BY <1>0, <2>1, <2>2 DEF Connect, PageInv, Fresh
  <2>4. 1..Len(<< >>) = {}
    OBVIOUS
  <2>5. QED
    BY <2>3, <2>4
<1>2. CASE alive[c] /\ shown'[d] = shown[d]
  BY <1>0, <1>2, AheadStep
\* An update just shown: over this connection, for it is the only one.
<1>3. CASE alive[c] /\ shown'[d] # shown[d]
  <2>1. alive[d] /\ WriteSucceeds(d)
    <3>1. PICK e \in Page : alive[e] /\ WriteSucceeds(e)
      BY <1>0, <1>3, ShowsNothing
    <3>2. e = d
      BY <1>0, <1>3, <3>1, ShowsLater DEF TypeOK
    <3>3. QED
      BY <3>1, <3>2
  <2>2. c = d
    BY <1>3, <2>1 DEF PageInv, OneAlive
  <2>3. writer'[c] = "waiting" /\ send' = send /\ writer[c] = "writing"
    BY <1>0, <2>1, <2>2 DEF WriteSucceeds, TypeOK
  <2>4. /\ hand[c] \in Nat
        /\ \A i \in 1..Len(send[c]) : send[c][i] \in Nat /\ hand[c] < send[c][i]
    BY <1>0, <2>3 DEF PageInv, FeedInv, InOrderFor, Before, TypeOK
  <2>5. shown'[d][k] \in Got' /\ Got \in SUBSET Nat
    <3>1. shown'[d][k] \in GotOver(d)'
      BY DEF GotOver
    <3>2. QED
      BY <3>1, GotNumbers DEF PageInv, Got
  <2>6. shown'[d][k] \in Nat /\ shown'[d][k] <= hand[c]
    <3>1. Got' = Got \cup {hand[c]} /\ \A m \in Got : m < hand[c]
      BY <2>1, <2>2, ShowsLater
    <3>2. \A m \in Got : m \in Nat /\ m <= hand[c]
      BY <2>4, <2>5, <3>1
    <3>3. \A m \in Got' : m \in Nat /\ m <= hand[c]
      BY <2>4, <3>1, <3>2
    <3>4. QED
      BY <2>5, <3>3
  <2>7. QED
    BY <2>2, <2>3, <2>4, <2>6
<1>4. QED
  BY <1>1, <1>2, <1>3

\* Every step keeps the whole.
LEMMA PageInductive == PageInv /\ [PageNext]_vars => PageInv'
<1> SUFFICES ASSUME PageInv, [PageNext]_vars PROVE PageInv'
  OBVIOUS
<1>1. [Next]_vars /\ TypeOK
  BY DEF PageNext, PageInv, FeedInv
<1>2. FeedInv' /\ OpenInv' /\ Fresh'
  BY <1>1, FeedInductive, OpenInductive, FreshInductive DEF PageInv
<1>3. Ahead' /\ OneAlive' /\ HasLast'
  BY <1>1, AheadInductive, OneInductive, LastInductive DEF PageInv
<1>4. QED
  BY <1>2, <1>3 DEF PageInv

-----------------------------------------------------------------------------
(* The refinement *)

\* The last update the page got.
LEMMA LastIs ==
  ASSUME PageInv
  PROVE  /\ LastGot \in Got /\ LastGot \in Nat /\ LastGot <= published
         /\ \A m \in Got : m <= LastGot
<1>1. PICK n \in Got : n <= published /\ \A m \in Got : m <= n
  BY DEF PageInv, HasLast
<1>2. Got \in SUBSET Nat
  BY GotNumbers DEF PageInv
<1>3. LastGot = n
  BY <1>1, <1>2, MaxIs DEF LastGot
<1>4. QED
  BY <1>1, <1>2, <1>3

\* When the page gets an update, it is a later one than the last.
LEMMA ArrivesIsGet ==
  ASSUME PageInv, NEW c \in Page, alive[c], WriteSucceeds(c)
  PROVE  Socket!Get
<1>1. /\ hand[c] \in 1..published /\ Got' = Got \cup {hand[c]}
      /\ \A m \in Got : m < hand[c]
      /\ published' = published
  BY ShowsLater
<1>2. /\ LastGot \in Got /\ LastGot \in Nat
      /\ published \in Nat /\ Got \in SUBSET Nat
  BY LastIs, GotNumbers DEF PageInv, FeedInv, TypeOK
<1>3. LastGot' = hand[c]
  <2>1. /\ Got' \in SUBSET Nat /\ hand[c] \in Got'
        /\ \A m \in Got' : m <= hand[c]
    <3>1. hand[c] \in Nat
      BY <1>1
    <3>2. \A m \in Got : m \in Nat /\ m <= hand[c]
      BY <1>1, <1>2, <3>1
    <3>3. QED
      BY <1>1, <3>1, <3>2
  <2>2. Max(Got') = hand[c]
    BY <2>1, MaxIs
  <2>3. QED
    BY <2>2 DEF LastGot
<1>4. LastGot' \in (LastGot + 1)..published
  BY <1>1, <1>2, <1>3
<1>5. Connected /\ Connected' = Connected
  BY DEF Connected, WriteSucceeds
<1>6. QED
  BY <1>1, <1>4, <1>5 DEF Socket!Get

\* Steps that do not concern the page change only what is published, if that.
LEMMA ElsewhereStep ==
  ASSUME PageInv, [Next]_vars,
         ~\E c \in Page : alive[c] /\ WriteSucceeds(c),
         Connected' = Connected
  PROVE  [Socket!Next]_Socket!vars
<1>1. Got' = Got
  BY ShowsNothing DEF PageInv, FeedInv
<1>2. LastGot' = LastGot
  BY <1>1 DEF LastGot
<1>3. published' = published \/ published' = published + 1
  <2>1. [Feed!Next]_Feed!vars
    BY FeedStep DEF PageInv
  <2>2. QED
    BY <2>1 DEF Feed!Next, Feed!Publish, Feed!Show, Feed!vars
<1>4. QED
  BY <1>2, <1>3 DEF Socket!Next, Socket!vars, Socket!Publish

\* Every step of the hub and the browsers is one of the socket, or none.
LEMMA PageStep ==
  ASSUME PageInv, [PageNext]_vars
  PROVE  [Socket!Next]_Socket!vars /\ (Arrives => Socket!Get)
<1>0. [Next]_vars /\ TypeOK
  BY DEF PageNext, PageInv, FeedInv
<1>1. CASE \E c \in Page : alive[c] /\ WriteSucceeds(c)
  BY <1>1, ArrivesIsGet DEF Socket!Next
<1>2. CASE ~\E c \in Page : alive[c] /\ WriteSucceeds(c)
  <2>1. ~Arrives
    BY <1>0, <1>2, ShowsNothing DEF Arrives
  <2>2. CASE Connected' = Connected
    BY <1>0, <1>2, <2>2, <2>1, ElsewhereStep
  <2>3. CASE Connected' # Connected
    <3>1. /\ Got' = Got /\ LastGot' = LastGot
      BY <1>0, <1>2, ShowsNothing DEF LastGot
    <3>2. alive' # alive
      BY <2>3 DEF Connected
    <3>3. published' = published
      BY <1>0, <3>2, AliveSteps DEF Connect, BrowserLeaves
    <3>4. CASE ~Connected /\ Connected'
      <4>1. Connected' = TRUE
        BY <3>4 DEF Connected
      <4>2. Socket!Open
        BY <3>1, <3>3, <3>4, <4>1 DEF Socket!Open
      <4>3. QED
        BY <2>1, <4>2 DEF Socket!Next
    <3>5. CASE Connected /\ ~Connected'
      <4>1. LastGot' \in LastGot..published
        BY <3>1, LastIs DEF PageInv, FeedInv, TypeOK
      <4>2. Connected' = FALSE
        BY <3>5 DEF Connected
      <4>3. Socket!Drop
        BY <3>3, <4>1, <4>2 DEF Socket!Drop
      <4>4. QED
        BY <2>1, <4>3 DEF Socket!Next
    <3>6. Connected \in BOOLEAN /\ Connected' \in BOOLEAN
      BY DEF Connected
    <3>7. QED
      BY <2>1, <2>3, <3>4, <3>5, <3>6, Zenon
  <2>4. QED
    BY <2>2, <2>3
<1>3. QED
  BY <1>1, <1>2

\* However many connections the page makes, one after the other, and whatever
\* the hub still sends to the old ones, every update the page gets is later
\* than all it got before.
THEOREM PageIsServed == PageSpec => PageServed
<1>1. Init => PageInv /\ Socket!Init
  <2> SUFFICES ASSUME Init PROVE PageInv /\ Socket!Init
    OBVIOUS
  <2>1. FeedInv
    <3>1. TypeOK
      BY BroadcastAssumption DEF Init, TypeOK, ReaderPcs, WriterPcs
    <3>2. QED
      BY <3>1 DEF Init, FeedInv, Rising, InOrderFor, Before
  <2>2. OpenInv
    BY <2>1 DEF Init, FeedInv, OpenInv, AnnouncedOnce, NoSendOnClosed
  <2>3. \A c \in Page : 1..Len(shown[c]) = {} /\ ~alive[c]
    <3>1. 1..Len(<< >>) = {}
      OBVIOUS
    <3>2. QED
      BY <3>1, ReconnectsAssumption DEF Init
  <2>4. Got = {0}
    BY <2>3 DEF Got, GotOver
  <2>5. published = 0
    BY DEF Init
  <2>6. HasLast
    BY <2>4, <2>5 DEF HasLast
  <2>7. Fresh /\ Ahead /\ OneAlive
    BY <2>3 DEF Init, Fresh, Ahead, OneAlive
  <2>8. PageInv
    BY <2>1, <2>2, <2>6, <2>7 DEF PageInv
  <2>9. LastGot = 0
    BY <2>4, <2>8, LastIs
  <2>10. Connected = FALSE
    BY <2>3 DEF Connected
  <2>11. QED
    BY <2>5, <2>8, <2>9, <2>10 DEF Socket!Init
<1>2. PageInv /\ [PageNext]_vars
        => [Socket!Next]_Socket!vars /\ [Arrives => Socket!Get]_vars
  BY PageStep
<1>3. QED
  BY <1>1, <1>2, PageInductive, PTL DEF PageSpec, PageServed, Socket!Spec
=============================================================================
