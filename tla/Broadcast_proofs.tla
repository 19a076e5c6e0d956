-------------------------- MODULE Broadcast_proofs --------------------------
(***************************************************************************)
(* Theorems about Broadcast, for any number of connections and any         *)
(* capacities of the channels.                                             *)
(***************************************************************************)
EXTENDS Broadcast, TLAPS

USE DEF published, feed, chans, conns

-----------------------------------------------------------------------------
(* Lemmas about sequences used as channels *)

\* What a send does to a channel.
LEMMA SendFacts ==
  ASSUME NEW S, NEW s \in Seq(S), NEW e \in S
  PROVE  /\ Append(s, e) \in Seq(S)
         /\ Len(s) \in Nat
         /\ Len(Append(s, e)) = Len(s) + 1
         /\ \A i \in 1..Len(s) : Append(s, e)[i] = s[i]
         /\ Append(s, e)[Len(s) + 1] = e
OBVIOUS

\* What a receive does to a channel.
LEMMA ReceiveFacts ==
  ASSUME NEW S, NEW s \in Seq(S), s # << >>
  PROVE  /\ Head(s) \in S /\ Head(s) = s[1]
         /\ Tail(s) \in Seq(S)
         /\ Len(s) \in Nat \ {0}
         /\ Len(Tail(s)) = Len(s) - 1
         /\ \A i \in 1..(Len(s) - 1) : Tail(s)[i] = s[i + 1]
OBVIOUS

-----------------------------------------------------------------------------
(* Type correctness *)

\* Every step keeps the types and the capacities.
LEMMA TypeInductive == TypeOK /\ [Next]_vars => TypeOK'
<1> SUFFICES ASSUME TypeOK, [Next]_vars PROVE TypeOK'
  OBVIOUS
<1> USE BroadcastAssumption DEF TypeOK, ReaderPcs, WriterPcs
<1>0. ASSUME NEW s \in Servers, Ingest(s) PROVE TypeOK'
  <2>1. [id |-> ingested + 1, from |-> s] \in Update
    BY DEF Update
  <2>2. QED
    BY <1>0, <2>1 DEF Ingest
<1>1. ASSUME NEW u \in pending, Publish(u) \/ PublishDropped(u) PROVE TypeOK'
  <2>1. u \in Update /\ entered \in Seq(Update) /\ published + 1 \in Nat
    OBVIOUS
  <2>2. Append(entered, u) \in Seq(Update)
    BY <2>1, SendFacts
  <2>3. /\ Append(bcQ, published + 1) \in Seq(Nat)
        /\ Len(Append(bcQ, published + 1)) = Len(bcQ) + 1
    BY <2>1, SendFacts
  <2>4. CASE Publish(u)
    BY <2>2, <2>3, <2>4 DEF Publish
  <2>5. CASE PublishDropped(u)
    BY <2>5 DEF PublishDropped
  <2>6. QED
    BY <1>1, <2>4, <2>5
<1>2. CASE Register
  <2>1. /\ Head(addQ) \in Clients /\ Tail(addQ) \in Seq(Clients)
        /\ Len(Tail(addQ)) <= AddCap
    BY <1>2, ReceiveFacts DEF Register
  <2>2. QED
    BY <1>2, <2>1 DEF Register
<1>3. CASE Unregister
  <2>1. /\ Head(delQ) \in Clients /\ Tail(delQ) \in Seq(Clients)
        /\ Len(Tail(delQ)) <= DelCap
    BY <1>3, ReceiveFacts DEF Unregister
  <2>2. closed' \in [Clients -> BOOLEAN]
    BY <1>3, <2>1 DEF Unregister
  <2>3. QED
    BY <1>3, <2>1, <2>2 DEF Unregister
<1>4. CASE Distribute
  <2>1. Head(bcQ) \in Nat /\ Tail(bcQ) \in Seq(Nat) /\ Len(Tail(bcQ)) <= BcCap
    BY <1>4, ReceiveFacts DEF Distribute
  <2>2. ASSUME NEW c \in Clients
        PROVE  /\ send'[c] \in Seq(Nat)
               /\ Len(send'[c]) <= SendCap
    BY <1>4, <2>1, SendFacts DEF Distribute
  <2>3. send' \in [Clients -> Seq(Nat)]
    BY <1>4, <2>1 DEF Distribute
  <2>4. QED
    BY <1>4, <2>1, <2>2, <2>3 DEF Distribute
<1>5. ASSUME NEW c \in Clients, Connect(c) PROVE TypeOK'
  BY <1>5 DEF Connect
<1>6. ASSUME NEW c \in Clients, Join(c) PROVE TypeOK'
  <2>1. addQ' \in Seq(Clients) /\ Len(addQ') <= AddCap
    BY <1>6, SendFacts DEF Join
  <2>2. QED
    BY <1>6, <2>1 DEF Join
<1>7. ASSUME NEW c \in Clients, ReadFails(c) PROVE TypeOK'
  BY <1>7 DEF ReadFails
<1>8. ASSUME NEW c \in Clients, Leave(c) PROVE TypeOK'
  <2>1. delQ' \in Seq(Clients) /\ Len(delQ') <= DelCap
    BY <1>8, SendFacts DEF Leave
  <2>2. QED
    BY <1>8, <2>1 DEF Leave
<1>9. ASSUME NEW c \in Clients, CloseConn(c) PROVE TypeOK'
  BY <1>9 DEF CloseConn
<1>10. ASSUME NEW c \in Clients, TakeUpdate(c) PROVE TypeOK'
  <2>1. /\ Head(send[c]) \in Nat /\ Tail(send[c]) \in Seq(Nat)
        /\ Len(Tail(send[c])) <= SendCap
    BY <1>10, ReceiveFacts DEF TakeUpdate
  <2>2. QED
    BY <1>10, <2>1 DEF TakeUpdate
<1>11. ASSUME NEW c \in Clients, SeeClosed(c) \/ WriteFails(c) \/ PingFails(c)
       PROVE  TypeOK'
  <2>1. CASE WriteFails(c)
    BY <2>1 DEF WriteFails
  <2>2. CASE SeeClosed(c) \/ PingFails(c)
    BY <2>2 DEF SeeClosed, PingFails
  <2>3. QED
    BY <1>11, <2>1, <2>2
<1>12. ASSUME NEW c \in Clients, WriteSucceeds(c) PROVE TypeOK'
  <2>1. Append(shown[c], hand[c]) \in Seq(Nat)
    BY SendFacts
  <2>2. QED
    BY <1>12, <2>1 DEF WriteSucceeds
<1>13. ASSUME NEW c \in Clients, BrowserLeaves(c) PROVE TypeOK'
  BY <1>13 DEF BrowserLeaves
<1>14. CASE UNCHANGED vars
  BY <1>14 DEF vars
<1>15. QED
  BY <1>0, <1>1, <1>2, <1>3, <1>4, <1>5, <1>6, <1>7, <1>8, <1>9, <1>10,
     <1>11, <1>12, <1>13, <1>14 DEF Next, Run, Reader, Writer

\* Every reachable state has its type, and no channel holds more than its
\* capacity.
THEOREM TypeCorrect == Spec => []TypeOK
<1>1. Init => TypeOK
  BY BroadcastAssumption DEF Init, TypeOK, ReaderPcs, WriterPcs
<1>2. QED
  BY <1>1, TypeInductive, PTL DEF Spec

-----------------------------------------------------------------------------
(* No send on a closed channel *)

\* A connection is announced on addCh once, before it is registered.
AnnouncedOnce ==
  /\ \A i, j \in 1..Len(addQ) : addQ[i] = addQ[j] => i = j
  /\ \A i \in 1..Len(addQ) : addQ[i] \notin clients /\ ~closed[addQ[i]]
  /\ \A c \in Clients : reader[c] \in {"none", "joining"} =>
       /\ c \notin clients /\ ~closed[c]
       /\ \A i \in 1..Len(addQ) : addQ[i] # c

\* The inductive invariant
OpenInv == TypeOK /\ AnnouncedOnce /\ NoSendOnClosed

\* Every step keeps it.
LEMMA OpenInductive == OpenInv /\ [Next]_vars => OpenInv'
<1> SUFFICES ASSUME OpenInv, [Next]_vars PROVE AnnouncedOnce' /\ NoSendOnClosed'
  BY TypeInductive DEF OpenInv
<1> USE DEF OpenInv, AnnouncedOnce, NoSendOnClosed
<1>0. TypeOK
  OBVIOUS
<1>1. ASSUME UNCHANGED <<addQ, clients, closed>>,
             \A c \in Clients : reader'[c] \in {"none", "joining"} =>
                                  reader[c] \in {"none", "joining"}
      PROVE  AnnouncedOnce' /\ NoSendOnClosed'
  BY <1>1
<1>2. CASE Register
  <2>1. /\ addQ \in Seq(Clients) /\ addQ # << >>
        /\ addQ' = Tail(addQ)
        /\ clients' = clients \cup {addQ[1]}
        /\ closed' = closed /\ reader' = reader
    BY <1>0, <1>2, ReceiveFacts DEF Register, TypeOK
  <2>2. /\ Len(addQ) \in Nat \ {0}
        /\ Len(addQ') = Len(addQ) - 1
        /\ \A i \in 1..Len(addQ') : /\ i + 1 \in 1..Len(addQ)
                                    /\ addQ'[i] = addQ[i + 1]
    BY <2>1, ReceiveFacts
  <2>3. 1 \in 1..Len(addQ) /\ \A i \in 1..Len(addQ') : addQ'[i] # addQ[1]
    BY <2>2
  <2>4. ASSUME NEW i \in 1..Len(addQ')
        PROVE  /\ addQ'[i] \notin clients' /\ ~closed'[addQ'[i]]
               /\ \A j \in 1..Len(addQ') : addQ'[i] = addQ'[j] => i = j
    BY <2>1, <2>2, <2>3
  <2>5. ASSUME NEW c \in Clients, reader'[c] \in {"none", "joining"}
        PROVE  /\ c \notin clients' /\ ~closed'[c]
               /\ \A i \in 1..Len(addQ') : addQ'[i] # c
    BY <2>1, <2>2, <2>3, <2>5
  <2>6. NoSendOnClosed'
    BY <2>1, <2>3
  <2>7. QED
    BY <2>4, <2>5, <2>6
<1>3. CASE Unregister
  <2>1. delQ # << >> /\ Head(delQ) \in Clients
    BY <1>0, <1>3, ReceiveFacts DEF Unregister, TypeOK
  <2>2. /\ clients' \subseteq clients
        /\ \A c \in Clients : closed'[c] => closed[c] \/ c \in clients \ clients'
        /\ UNCHANGED <<addQ, reader>>
    BY <1>0, <1>3, <2>1 DEF Unregister, TypeOK
  <2>3. \A i \in 1..Len(addQ) : addQ[i] \in Clients
    BY <1>0 DEF TypeOK
  <2>4. clients \subseteq Clients
    BY <1>0 DEF TypeOK
  <2>5. AnnouncedOnce'
    BY <2>2, <2>3
  <2>6. NoSendOnClosed'
    BY <2>2, <2>4
  <2>7. QED
    BY <2>5, <2>6
<1>4. ASSUME NEW c \in Clients, Join(c)
      PROVE  AnnouncedOnce' /\ NoSendOnClosed'
  <2>1. /\ addQ \in Seq(Clients)
        /\ addQ' = Append(addQ, c)
        /\ reader[c] = "joining"
        /\ reader' = [reader EXCEPT ![c] = "reading"]
        /\ UNCHANGED <<clients, closed>>
    BY <1>0, <1>4 DEF Join, TypeOK
  <2>2. /\ Len(addQ) \in Nat
        /\ Len(addQ') = Len(addQ) + 1
        /\ \A i \in 1..Len(addQ) : addQ'[i] = addQ[i]
        /\ addQ'[Len(addQ) + 1] = c
    BY <2>1, SendFacts
  <2>3. \A i \in 1..Len(addQ') : i \in 1..Len(addQ) \/ i = Len(addQ) + 1
    BY <2>2
  <2>4. /\ c \notin clients /\ ~closed[c]
        /\ \A i \in 1..Len(addQ) : addQ[i] # c
    BY <2>1
  <2>5. ASSUME NEW i \in 1..Len(addQ')
        PROVE  /\ addQ'[i] \notin clients /\ ~closed[addQ'[i]]
               /\ \A j \in 1..Len(addQ') : addQ'[i] = addQ'[j] => i = j
    BY <2>2, <2>3, <2>4
  <2>6. ASSUME NEW d \in Clients, reader'[d] \in {"none", "joining"}
        PROVE  /\ d \notin clients /\ ~closed[d]
               /\ \A i \in 1..Len(addQ') : addQ'[i] # d
    <3>1. d # c /\ reader[d] \in {"none", "joining"}
      BY <1>0, <2>1, <2>6 DEF TypeOK
    <3>2. QED
      BY <2>2, <2>3, <3>1
  <2>7. QED
    BY <2>1, <2>5, <2>6
<1>5. CASE \/ \E s \in Servers : Ingest(s)
           \/ \E u \in pending : Publish(u) \/ PublishDropped(u)
           \/ Distribute
  BY <1>1, <1>5 DEF Ingest, Publish, PublishDropped, Distribute
<1>6. ASSUME NEW c \in Clients,
             Connect(c) \/ ReadFails(c) \/ Leave(c) \/ CloseConn(c)
      PROVE  AnnouncedOnce' /\ NoSendOnClosed'
  BY <1>0, <1>1, <1>6 DEF Connect, ReadFails, Leave, CloseConn, TypeOK
<1>7. ASSUME NEW c \in Clients, Writer(c) \/ BrowserLeaves(c)
      PROVE  AnnouncedOnce' /\ NoSendOnClosed'
  BY <1>1, <1>7 DEF Writer, TakeUpdate, SeeClosed, WriteSucceeds, WriteFails,
                    PingFails, BrowserLeaves
<1>8. CASE UNCHANGED vars
  BY <1>1, <1>8 DEF vars
<1>9. QED
  BY <1>2, <1>3, <1>4, <1>5, <1>6, <1>7, <1>8 DEF Next, Run, Reader

\* The hub never sends on a closed channel and never closes one twice.
THEOREM HubNeverPanics == Spec => []NoSendOnClosed
<1>1. Init => OpenInv
  <2>1. Init => TypeOK
    BY BroadcastAssumption DEF Init, TypeOK, ReaderPcs, WriterPcs
  <2>2. QED
    BY <2>1 DEF Init, OpenInv, AnnouncedOnce, NoSendOnClosed
<1>2. OpenInv => NoSendOnClosed
  BY DEF OpenInv
<1>3. QED
  BY <1>1, <1>2, OpenInductive, PTL DEF Spec
-----------------------------------------------------------------------------
(* No connection is lost between its goroutines and the hub *)

\* Only connections that have been read to the end are in delCh.
OnlyDeparted ==
  \A i \in 1..Len(delQ) : reader[delQ[i]] \in {"closing", "done"}

\* The inductive invariant
ServedInv == TypeOK /\ OnlyDeparted /\ ServedWhileRead

\* Every step keeps it.
LEMMA ServedInductive == ServedInv /\ [Next]_vars => ServedInv'
<1> SUFFICES ASSUME ServedInv, [Next]_vars
             PROVE  OnlyDeparted' /\ ServedWhileRead'
  BY TypeInductive DEF ServedInv
<1> USE DEF ServedInv, OnlyDeparted, ServedWhileRead
<1>1. TypeOK /\ TypeOK'
  BY TypeInductive
<1>2. ASSUME UNCHANGED <<addQ, delQ, clients, closed, reader>>
      PROVE  OnlyDeparted' /\ ServedWhileRead'
  BY <1>2 DEF Announced
<1>3. CASE Register
  <2>1. /\ addQ \in Seq(Clients) /\ addQ # << >>
        /\ addQ' = Tail(addQ)
        /\ clients' = clients \cup {addQ[1]}
        /\ UNCHANGED <<delQ, closed, reader>>
    BY <1>1, <1>3, ReceiveFacts DEF Register, TypeOK
  <2>2. /\ Len(addQ) \in Nat \ {0}
        /\ Len(addQ') = Len(addQ) - 1
        /\ \A i \in 1..Len(addQ') : addQ'[i] = addQ[i + 1]
    BY <2>1, ReceiveFacts
  <2>3. ASSUME NEW c \in Clients, Announced(c) PROVE c \in clients' \/ Announced(c)'
    <3>1. PICK i \in 1..Len(addQ) : addQ[i] = c
      BY <2>3 DEF Announced
    <3>2. CASE i = 1
      BY <2>1, <3>1, <3>2
    <3>3. CASE i # 1
      <4>1. i - 1 \in 1..Len(addQ') /\ (i - 1) + 1 = i
        BY <2>2, <3>3
      <4>2. addQ'[i - 1] = c
        BY <2>2, <3>1, <4>1
      <4>3. QED
        BY <4>1, <4>2 DEF Announced
    <3>4. QED
      BY <3>2, <3>3
  <2>4. QED
    BY <2>1, <2>3
<1>4. CASE Unregister
  <2>1. /\ delQ \in Seq(Clients) /\ delQ # << >>
        /\ delQ' = Tail(delQ)
        /\ clients' = clients \ {delQ[1]}
        /\ closed' = [closed EXCEPT ![delQ[1]] = @ \/ delQ[1] \in clients]
        /\ UNCHANGED <<addQ, reader>>
    BY <1>1, <1>4, ReceiveFacts DEF Unregister, TypeOK
  <2>2. /\ Len(delQ) \in Nat \ {0}
        /\ Len(delQ') = Len(delQ) - 1
        /\ \A i \in 1..Len(delQ') : /\ i + 1 \in 1..Len(delQ)
                                    /\ delQ'[i] = delQ[i + 1]
    BY <2>1, ReceiveFacts
  <2>3. delQ[1] \in Clients /\ reader[delQ[1]] \in {"closing", "done"}
    BY <2>1, <2>2
  <2>4. OnlyDeparted'
    BY <2>1, <2>2
  <2>5. ASSUME NEW c \in Clients, c # delQ[1]
        PROVE  /\ closed'[c] = closed[c] /\ reader'[c] = reader[c]
               /\ c \in clients => c \in clients'
               /\ Announced(c) => Announced(c)'
    BY <1>1, <2>1, <2>5 DEF Announced, TypeOK
  <2>6. ServedWhileRead'
    BY <2>1, <2>3, <2>5
  <2>7. QED
    BY <2>4, <2>6
<1>5. ASSUME NEW c \in Clients, Join(c)
      PROVE  OnlyDeparted' /\ ServedWhileRead'
  <2>1. /\ addQ \in Seq(Clients)
        /\ addQ' = Append(addQ, c)
        /\ reader[c] = "joining"
        /\ reader' = [reader EXCEPT ![c] = "reading"]
        /\ UNCHANGED <<delQ, clients, closed>>
    BY <1>1, <1>5 DEF Join, TypeOK
  <2>2. /\ Len(addQ) \in Nat
        /\ Len(addQ') = Len(addQ) + 1
        /\ \A i \in 1..Len(addQ) : addQ'[i] = addQ[i]
        /\ addQ'[Len(addQ) + 1] = c
    BY <2>1, SendFacts
  <2>3. Announced(c)' /\ \A d \in Clients : Announced(d) => Announced(d)'
    BY <2>2 DEF Announced
  <2>4. \A i \in 1..Len(delQ) : delQ[i] \in Clients /\ delQ[i] # c
    <3>1. delQ \in Seq(Clients)
      BY <1>1 DEF TypeOK
    <3>2. ASSUME NEW i \in 1..Len(delQ) PROVE reader[delQ[i]] # "joining"
      OBVIOUS
    <3>3. QED
      BY <2>1, <3>1, <3>2
  <2>5. QED
    BY <1>1, <2>1, <2>3, <2>4 DEF TypeOK
<1>6. ASSUME NEW c \in Clients, Leave(c)
      PROVE  OnlyDeparted' /\ ServedWhileRead'
  <2>1. /\ delQ \in Seq(Clients)
        /\ delQ' = Append(delQ, c)
        /\ reader[c] = "leaving"
        /\ reader' = [reader EXCEPT ![c] = "closing"]
        /\ UNCHANGED <<addQ, clients, closed>>
    BY <1>1, <1>6 DEF Leave, TypeOK
  <2>2. /\ Len(delQ) \in Nat
        /\ Len(delQ') = Len(delQ) + 1
        /\ \A i \in 1..Len(delQ) : delQ'[i] = delQ[i]
        /\ delQ'[Len(delQ) + 1] = c
    BY <2>1, SendFacts
  <2>3. \A i \in 1..Len(delQ') : i \in 1..Len(delQ) \/ i = Len(delQ) + 1
    BY <2>2
  <2>4. reader'[c] = "closing" /\ \A d \in Clients \ {c} : reader'[d] = reader[d]
    BY <1>1, <2>1 DEF TypeOK
  <2>5. \A i \in 1..Len(delQ) : delQ[i] \in Clients
    BY <2>1
  <2>6. OnlyDeparted'
    BY <2>2, <2>3, <2>4, <2>5
  <2>7. ServedWhileRead'
    BY <2>1, <2>4 DEF Announced
  <2>8. QED
    BY <2>6, <2>7
<1>7. ASSUME NEW c \in Clients, Connect(c) \/ ReadFails(c) \/ CloseConn(c)
      PROVE  OnlyDeparted' /\ ServedWhileRead'
  <2>1. /\ UNCHANGED <<addQ, delQ, clients, closed>>
        /\ \A d \in Clients \ {c} : reader'[d] = reader[d]
        /\ \/ reader[c] = "none" /\ reader'[c] = "joining"
           \/ reader[c] = "reading" /\ reader'[c] = "leaving"
           \/ reader[c] = "closing" /\ reader'[c] = "done"
    BY <1>1, <1>7 DEF Connect, ReadFails, CloseConn, TypeOK
  <2>2. \A i \in 1..Len(delQ) : delQ[i] \in Clients
    BY <1>1 DEF TypeOK
  <2>3. QED
    BY <2>1, <2>2 DEF Announced
<1>8. CASE \/ \E s \in Servers : Ingest(s)
           \/ \E u \in pending : Publish(u) \/ PublishDropped(u)
           \/ Distribute
  BY <1>2, <1>8 DEF Ingest, Publish, PublishDropped, Distribute
<1>9. ASSUME NEW c \in Clients, Writer(c) \/ BrowserLeaves(c)
      PROVE  OnlyDeparted' /\ ServedWhileRead'
  BY <1>2, <1>9 DEF Writer, TakeUpdate, SeeClosed, WriteSucceeds, WriteFails,
                    PingFails, BrowserLeaves
<1>10. CASE UNCHANGED vars
  BY <1>2, <1>10 DEF vars
<1>11. QED
  BY <1>3, <1>4, <1>5, <1>6, <1>7, <1>8, <1>9, <1>10 DEF Next, Run, Reader

\* For any number of browsers and any capacities, no connection that is read
\* is unknown to the hub, and none has its channel closed before it is over.
THEOREM ReadersAreServed == Spec => []ServedWhileRead
<1>1. Init => ServedInv
  <2>1. Init => TypeOK
    BY BroadcastAssumption DEF Init, TypeOK, ReaderPcs, WriterPcs
  <2>2. QED
    BY <2>1 DEF Init, ServedInv, OnlyDeparted, ServedWhileRead
<1>2. ServedInv => ServedWhileRead
  BY DEF ServedInv
<1>3. QED
  BY <1>1, <1>2, ServedInductive, PTL DEF Spec

-----------------------------------------------------------------------------
(* The broadcast implements LossyFeed *)

Rising(s) == \A i, j \in 1..Len(s) : i < j => s[i] < s[j]

\* Update n comes before everything still on its way to client c.
Before(n, c) ==
  /\ n <= published
  /\ \A i \in 1..Len(send[c]) : n < send[c][i]
  /\ \A i \in 1..Len(bcQ) : n < bcQ[i]

\* What is on its way to client c is in order: first what it was shown, then
\* what its writer holds, its channel, and the hub's queue.
InOrderFor(c) ==
  /\ Rising(send[c])
  /\ \A i \in 1..Len(send[c]) : /\ send[c][i] \in 1..published
                                /\ \A j \in 1..Len(bcQ) : send[c][i] < bcQ[j]
  /\ writer[c] = "writing" => hand[c] \in 1..published /\ Before(hand[c], c)
  /\ \A k \in 1..Len(shown[c]) :
       /\ Before(shown[c][k], c)
       /\ writer[c] = "writing" => shown[c][k] < hand[c]

\* The inductive invariant
FeedInv ==
  /\ TypeOK
  /\ Rising(bcQ)
  /\ \A i \in 1..Len(bcQ) : bcQ[i] \in 1..published
  /\ \A c \in Clients : InOrderFor(c)

\* A send to the hub's queue keeps the order.
LEMMA PublishInOrder ==
  ASSUME FeedInv, NEW u \in pending, Publish(u)
  PROVE  /\ Rising(bcQ')
         /\ \A i \in 1..Len(bcQ') : bcQ'[i] \in 1..published'
         /\ \A c \in Clients : InOrderFor(c)'
<1>1. /\ published \in Nat /\ bcQ \in Seq(Nat)
      /\ published' = published + 1
      /\ bcQ' = Append(bcQ, published + 1)
      /\ UNCHANGED <<send, writer, hand, shown>>
  BY SendFacts DEF FeedInv, TypeOK, Publish
<1>2. /\ Len(bcQ) \in Nat /\ Len(bcQ') = Len(bcQ) + 1
      /\ \A i \in 1..Len(bcQ) : bcQ'[i] = bcQ[i]
      /\ bcQ'[Len(bcQ) + 1] = published + 1
  BY <1>1, SendFacts
<1>3. \A i \in 1..Len(bcQ') : i \in 1..Len(bcQ) \/ i = Len(bcQ) + 1
  BY <1>2
<1>4. \A i \in 1..Len(bcQ') : /\ bcQ'[i] \in 1..published'
                              /\ i \in 1..Len(bcQ) => bcQ'[i] \in 1..published
  BY <1>1, <1>2, <1>3 DEF FeedInv
<1>5. Rising(bcQ')
  BY <1>1, <1>2, <1>3, <1>4 DEF FeedInv, Rising
<1>6. ASSUME NEW n \in Nat, NEW c \in Clients, Before(n, c)
      PROVE  /\ n <= published'
             /\ \A i \in 1..Len(bcQ') : n < bcQ'[i]
  BY <1>1, <1>2, <1>3, <1>6 DEF Before
<1>7. ASSUME NEW c \in Clients PROVE InOrderFor(c)'
  <2>1. /\ send[c] \in Seq(Nat) /\ hand[c] \in Nat /\ shown[c] \in Seq(Nat)
        /\ InOrderFor(c)
    BY DEF FeedInv, TypeOK
  <2>2. ASSUME NEW i \in 1..Len(send[c]), NEW j \in 1..Len(bcQ')
        PROVE  send[c][i] \in 1..published' /\ send[c][i] < bcQ'[j]
    BY <1>1, <1>2, <1>3, <2>1 DEF InOrderFor
  <2>3. ASSUME writer[c] = "writing"
        PROVE  hand[c] \in 1..published' /\ Before(hand[c], c)'
    <3>1. hand[c] \in 1..published /\ Before(hand[c], c)
      BY <2>1, <2>3 DEF InOrderFor
    <3>2. QED
      BY <1>1, <1>6, <2>1, <3>1 DEF Before
  <2>4. ASSUME NEW k \in 1..Len(shown[c])
        PROVE  Before(shown[c][k], c)'
    <3>1. Before(shown[c][k], c) /\ shown[c][k] \in Nat
      BY <2>1 DEF InOrderFor
    <3>2. QED
      BY <1>1, <1>6, <3>1 DEF Before
  <2>5. Len(send[c]) \in Nat /\ \A i \in 1..Len(send[c]) : send[c][i] \in 1..published'
    BY <1>1, <2>1 DEF InOrderFor
  <2>6. QED
    BY <1>1, <2>1, <2>2, <2>3, <2>4, <2>5 DEF InOrderFor
<1>8. QED
  BY <1>4, <1>5, <1>7

\* A step that only lets a writer stop keeps the order.
LEMMA StopInOrder ==
  ASSUME FeedInv, NEW c \in Clients,
         UNCHANGED <<published, bcQ, send[c], shown[c]>>,
         writer'[c] = "writing" => writer[c] = "writing" /\ UNCHANGED hand[c]
  PROVE  InOrderFor(c)'
BY DEF FeedInv, InOrderFor, Before

\* The hub moves an update from its queue to the clients' channels.
LEMMA DistributeInOrder ==
  ASSUME FeedInv, Distribute
  PROVE  /\ Rising(bcQ')
         /\ \A i \in 1..Len(bcQ') : bcQ'[i] \in 1..published'
         /\ \A c \in Clients : InOrderFor(c)'
<1>1. /\ published \in Nat /\ bcQ \in Seq(Nat) /\ bcQ # << >>
      /\ bcQ' = Tail(bcQ)
      /\ UNCHANGED <<published, writer, hand, shown>>
  BY DEF FeedInv, TypeOK, Distribute
<1>2. /\ Head(bcQ) = bcQ[1] /\ Len(bcQ) \in Nat \ {0}
      /\ Len(bcQ') = Len(bcQ) - 1
      /\ \A i \in 1..Len(bcQ') : bcQ'[i] = bcQ[i + 1]
  BY <1>1, ReceiveFacts
<1>3. 1 \in 1..Len(bcQ) /\ bcQ[1] \in 1..published
  BY <1>2 DEF FeedInv
<1>4. ASSUME NEW i \in 1..Len(bcQ')
      PROVE  /\ i + 1 \in 1..Len(bcQ) /\ bcQ'[i] = bcQ[i + 1]
             /\ bcQ[i + 1] \in 1..published /\ bcQ[1] < bcQ[i + 1]
  <2>1. i \in Nat /\ i >= 1 /\ i + 1 \in 1..Len(bcQ) /\ 1 < i + 1
    BY <1>2
  <2>2. QED
    BY <1>2, <1>3, <2>1 DEF FeedInv, Rising
<1>5. Rising(bcQ')
  <2>1. ASSUME NEW i \in 1..Len(bcQ'), NEW j \in 1..Len(bcQ'), i < j
        PROVE  bcQ'[i] < bcQ'[j]
    <3>1. i \in Nat /\ j \in Nat /\ i + 1 < j + 1
      BY <1>2, <2>1
    <3>2. QED
      BY <1>4, <3>1 DEF FeedInv, Rising
  <2>2. QED
    BY <2>1 DEF Rising
<1>6. ASSUME NEW c \in Clients PROVE InOrderFor(c)'
  <2>1. /\ send[c] \in Seq(Nat) /\ hand[c] \in Nat /\ shown[c] \in Seq(Nat)
        /\ InOrderFor(c) /\ Len(send[c]) \in Nat
        /\ send'[c] \in {send[c], Append(send[c], bcQ[1])}
    BY <1>2 DEF FeedInv, TypeOK, Distribute
  <2>2. ASSUME NEW i \in 1..Len(send'[c])
        PROVE  \/ i \in 1..Len(send[c]) /\ send'[c][i] = send[c][i]
               \/ i = Len(send[c]) + 1 /\ send'[c][i] = bcQ[1]
    <3>1. CASE send'[c] = send[c]
      BY <3>1
    <3>2. CASE send'[c] = Append(send[c], bcQ[1])
      <4>1. /\ Len(send'[c]) = Len(send[c]) + 1
            /\ \A k \in 1..Len(send[c]) : send'[c][k] = send[c][k]
            /\ send'[c][Len(send[c]) + 1] = bcQ[1]
        BY <1>3, <2>1, <3>2, SendFacts
      <4>2. i \in 1..Len(send[c]) \/ i = Len(send[c]) + 1
        BY <2>1, <4>1
      <4>3. QED
        BY <4>1, <4>2
    <3>3. QED
      BY <2>1, <3>1, <3>2
  <2>3. ASSUME NEW i \in 1..Len(send[c])
        PROVE  /\ send[c][i] \in 1..published
               /\ \A j \in 1..Len(bcQ) : send[c][i] < bcQ[j]
    BY <2>1 DEF InOrderFor
  <2>4. Rising(send'[c])
    <3>1. ASSUME NEW i \in 1..Len(send'[c]), NEW j \in 1..Len(send'[c]), i < j
          PROVE  send'[c][i] < send'[c][j]
      <4>1. i \in 1..Len(send[c]) /\ send'[c][i] = send[c][i]
        BY <2>1, <2>2, <3>1
      <4>2. CASE j \in 1..Len(send[c]) /\ send'[c][j] = send[c][j]
        BY <2>1, <3>1, <4>1, <4>2 DEF InOrderFor, Rising
      <4>3. CASE send'[c][j] = bcQ[1]
        BY <1>3, <2>3, <4>1, <4>3
      <4>4. QED
        BY <2>2, <4>2, <4>3
    <3>2. QED
      BY <3>1 DEF Rising
  <2>5. ASSUME NEW i \in 1..Len(send'[c])
        PROVE  /\ send'[c][i] \in 1..published
               /\ \A j \in 1..Len(bcQ') : send'[c][i] < bcQ'[j]
    BY <1>3, <1>4, <2>2, <2>3
  <2>6. ASSUME NEW n \in Nat, Before(n, c) PROVE Before(n, c)'
    <3>1. \A i \in 1..Len(send'[c]) : n < send'[c][i]
      BY <1>3, <2>2, <2>6 DEF Before
    <3>2. \A i \in 1..Len(bcQ') : n < bcQ'[i]
      BY <1>4, <2>6 DEF Before
    <3>3. QED
      BY <1>1, <2>6, <3>1, <3>2 DEF Before
  <2>7. writer[c] = "writing" => hand[c] \in 1..published /\ Before(hand[c], c)'
    BY <1>1, <2>1, <2>6 DEF InOrderFor, Before
  <2>8. ASSUME NEW k \in 1..Len(shown[c])
        PROVE  /\ Before(shown[c][k], c)'
               /\ writer[c] = "writing" => shown[c][k] < hand[c]
    <3>1. shown[c][k] \in Nat /\ Before(shown[c][k], c)
      BY <2>1 DEF InOrderFor
    <3>2. Before(shown[c][k], c)'
      BY <1>1, <2>6, <3>1 DEF Before
    <3>3. QED
      BY <2>1, <3>2 DEF InOrderFor
  <2>9. QED
    BY <1>1, <2>4, <2>5, <2>7, <2>8 DEF InOrderFor, Before
<1>7. QED
  BY <1>1, <1>4, <1>5, <1>6

\* The writer takes the oldest update of its channel in hand.
LEMMA TakeInOrder ==
  ASSUME FeedInv, NEW c \in Clients, TakeUpdate(c)
  PROVE  InOrderFor(c)'
<1>1. /\ published \in Nat /\ bcQ \in Seq(Nat) /\ Len(bcQ) \in Nat
      /\ send[c] \in Seq(Nat) /\ send[c] # << >> /\ shown[c] \in Seq(Nat)
      /\ hand'[c] = Head(send[c]) /\ send'[c] = Tail(send[c])
      /\ UNCHANGED <<published, bcQ, shown>>
      /\ InOrderFor(c)
  BY DEF FeedInv, TypeOK, TakeUpdate
<1>2. /\ hand'[c] = send[c][1] /\ Len(send[c]) \in Nat \ {0}
      /\ Len(send'[c]) = Len(send[c]) - 1
      /\ \A i \in 1..Len(send'[c]) : send'[c][i] = send[c][i + 1]
  BY <1>1, ReceiveFacts
<1>3. 1 \in 1..Len(send[c]) /\ hand'[c] \in 1..published
  BY <1>1, <1>2 DEF InOrderFor
<1>4. ASSUME NEW i \in 1..Len(send'[c])
      PROVE  /\ i + 1 \in 1..Len(send[c]) /\ send'[c][i] = send[c][i + 1]
             /\ send[c][i + 1] \in 1..published
             /\ send[c][1] < send[c][i + 1]
  <2>1. i \in Nat /\ i + 1 \in 1..Len(send[c]) /\ 1 < i + 1
    BY <1>2
  <2>2. QED
    BY <1>1, <1>2, <1>3, <2>1 DEF InOrderFor, Rising
<1>5. Rising(send'[c])
  <2>1. ASSUME NEW i \in 1..Len(send'[c]), NEW j \in 1..Len(send'[c]), i < j
        PROVE  send'[c][i] < send'[c][j]
    <3>1. i \in Nat /\ j \in Nat /\ i + 1 < j + 1
      BY <1>2, <2>1
    <3>2. QED
      BY <1>1, <1>4, <3>1 DEF InOrderFor, Rising
  <2>2. QED
    BY <2>1 DEF Rising
<1>6. ASSUME NEW i \in 1..Len(send'[c]), NEW j \in 1..Len(bcQ')
      PROVE  send'[c][i] < bcQ'[j]
  BY <1>1, <1>4 DEF InOrderFor
<1>7. Before(hand[c], c)'
  <2>1. hand'[c] <= published'
    BY <1>1, <1>3
  <2>2. \A i \in 1..Len(send'[c]) : hand'[c] < send'[c][i]
    BY <1>2, <1>4
  <2>3. \A i \in 1..Len(bcQ') : hand'[c] < bcQ'[i]
    BY <1>1, <1>2, <1>3 DEF InOrderFor
  <2>4. QED
    BY <2>1, <2>2, <2>3 DEF Before
<1>8. ASSUME NEW k \in 1..Len(shown'[c])
      PROVE  Before(shown[c][k], c)' /\ shown'[c][k] < hand'[c]
  <2>1. shown[c][k] \in Nat /\ Before(shown[c][k], c)
    BY <1>1, <1>8 DEF InOrderFor
  <2>2. QED
    BY <1>1, <1>2, <1>3, <1>4, <2>1 DEF Before
<1>9. QED
  BY <1>1, <1>3, <1>4, <1>5, <1>6, <1>7, <1>8 DEF InOrderFor

\* The writer shows what it has in hand.
LEMMA ShowInOrder ==
  ASSUME FeedInv, NEW c \in Clients, WriteSucceeds(c)
  PROVE  InOrderFor(c)'
<1>1. /\ shown[c] \in Seq(Nat) /\ hand[c] \in Nat
      /\ writer[c] = "writing" /\ writer'[c] = "waiting"
      /\ shown'[c] \in {shown[c], Append(shown[c], hand[c])}
      /\ UNCHANGED <<published, bcQ, send>>
      /\ InOrderFor(c)
  BY DEF FeedInv, TypeOK, WriteSucceeds
<1>2. Before(hand[c], c) /\ Len(shown[c]) \in Nat
  BY <1>1 DEF InOrderFor
<1>3. ASSUME NEW k \in 1..Len(shown'[c]) PROVE Before(shown'[c][k], c)
  <2>1. CASE shown'[c] = shown[c]
    BY <1>1, <2>1 DEF InOrderFor
  <2>2. CASE shown'[c] = Append(shown[c], hand[c])
    <3>1. /\ Len(shown'[c]) = Len(shown[c]) + 1
          /\ \A i \in 1..Len(shown[c]) : shown'[c][i] = shown[c][i]
          /\ shown'[c][Len(shown[c]) + 1] = hand[c]
      BY <1>1, <2>2, SendFacts
    <3>2. k \in 1..Len(shown[c]) \/ k = Len(shown[c]) + 1
      BY <1>2, <3>1
    <3>3. QED
      BY <1>1, <1>2, <3>1, <3>2 DEF InOrderFor
  <2>3. QED
    BY <1>1, <2>1, <2>2
<1>4. QED
  BY <1>1, <1>3 DEF InOrderFor, Before

\* Every step keeps the order of what is on its way.
LEMMA FeedInductive == FeedInv /\ [Next]_vars => FeedInv'
<1> SUFFICES ASSUME FeedInv, [Next]_vars
             PROVE  /\ Rising(bcQ')
                    /\ \A i \in 1..Len(bcQ') : bcQ'[i] \in 1..published'
                    /\ \A c \in Clients : InOrderFor(c)'
  BY TypeInductive DEF FeedInv, Rising
<1>1. CASE \E u \in pending : Publish(u)
  BY <1>1, PublishInOrder
<1>2. CASE Distribute
  BY <1>2, DistributeInOrder
<1>3. CASE UNCHANGED <<published, bcQ, send, writer, hand, shown>>
  BY <1>3, StopInOrder DEF FeedInv
<1>4. CASE \/ \E s \in Servers : Ingest(s)
           \/ \E u \in pending : PublishDropped(u)
           \/ Register \/ Unregister
  BY <1>3, <1>4 DEF Ingest, PublishDropped, Register, Unregister
<1>5. ASSUME NEW c \in Clients, TakeUpdate(c) \/ WriteSucceeds(c)
      PROVE  /\ UNCHANGED <<published, bcQ>>
             /\ \A d \in Clients : InOrderFor(d)'
  <2>1. UNCHANGED <<published, bcQ>>
    BY <1>5 DEF TakeUpdate, WriteSucceeds
  <2>2. ASSUME NEW d \in Clients, d # c PROVE InOrderFor(d)'
    <3>1. UNCHANGED <<send[d], hand[d], shown[d], writer[d]>>
      BY <1>5, <2>2 DEF TakeUpdate, WriteSucceeds, FeedInv, TypeOK
    <3>2. QED
      BY <2>1, <3>1, StopInOrder
  <2>3. InOrderFor(c)'
    BY <1>5, TakeInOrder, ShowInOrder
  <2>4. QED
    BY <2>1, <2>2, <2>3
<1>6. ASSUME NEW c \in Clients,
             Join(c) \/ SeeClosed(c) \/ WriteFails(c) \/ PingFails(c)
      PROVE  /\ UNCHANGED <<published, bcQ>>
             /\ \A d \in Clients : InOrderFor(d)'
  <2>1. /\ UNCHANGED <<published, bcQ, send, shown>>
        /\ \A d \in Clients : writer'[d] = "writing" =>
                               writer[d] = "writing" /\ UNCHANGED hand[d]
    BY <1>6 DEF Join, SeeClosed, WriteFails, PingFails, FeedInv, TypeOK
  <2>2. QED
    BY <2>1, StopInOrder
<1>7. ASSUME NEW c \in Clients,
             \/ Connect(c) \/ ReadFails(c) \/ Leave(c) \/ CloseConn(c)
             \/ BrowserLeaves(c)
      PROVE  UNCHANGED <<published, bcQ, send, writer, hand, shown>>
  BY <1>7 DEF Connect, ReadFails, Leave, CloseConn, BrowserLeaves
<1>8. CASE UNCHANGED vars
  BY <1>3, <1>8 DEF vars
<1>9. Rising(bcQ) /\ \A i \in 1..Len(bcQ) : bcQ[i] \in 1..published
  BY DEF FeedInv
<1>10. QED
  BY <1>1, <1>2, <1>3, <1>4, <1>5, <1>6, <1>7, <1>8, <1>9
     DEF Next, Run, Reader, Writer, Rising

\* Every step publishes an update, shows a client a later one than before, or
\* changes nothing a browser sees.
LEMMA FeedStep ==
  ASSUME FeedInv, [Next]_vars
  PROVE  [Feed!Next]_Feed!vars
<1> USE DEF Feed!vars
<1>1. ASSUME NEW u \in pending, Publish(u) PROVE Feed!Next
  <2>1. published' = published + 1
    BY <1>1, SendFacts DEF Publish, FeedInv, TypeOK
  <2>2. QED
    BY <1>1, <2>1 DEF Publish, Feed!Next, Feed!Publish
<1>2. CASE UNCHANGED <<published, shown>>
  BY <1>2
<1>3. ASSUME NEW c \in Clients, WriteSucceeds(c)
      PROVE  Feed!Show(c) \/ UNCHANGED <<published, shown>>
  <2>1. CASE ~alive[c]
    BY <1>3, <2>1 DEF WriteSucceeds, FeedInv, TypeOK
  <2>2. CASE alive[c]
    <3>1. /\ UNCHANGED published
          /\ shown' = [shown EXCEPT ![c] = Append(@, hand[c])]
      BY <1>3, <2>2 DEF WriteSucceeds
    <3>2. /\ hand[c] \in 1..published
          /\ \A i \in 1..Len(shown[c]) : shown[c][i] < hand[c]
      BY <1>3 DEF WriteSucceeds, FeedInv, InOrderFor
    <3>3. QED
      BY <3>1, <3>2 DEF Feed!Show
  <2>3. QED
    BY <2>1, <2>2 DEF FeedInv, TypeOK
<1>4. CASE \/ \E s \in Servers : Ingest(s)
           \/ \E u \in pending : PublishDropped(u)
           \/ Run
  BY <1>2, <1>4 DEF Ingest, PublishDropped, Run, Register, Unregister,
                    Distribute
<1>5. ASSUME NEW c \in Clients,
             \/ Connect(c) \/ Reader(c) \/ BrowserLeaves(c)
             \/ TakeUpdate(c) \/ SeeClosed(c) \/ WriteFails(c)
             \/ PingFails(c)
      PROVE  UNCHANGED <<published, shown>>
  BY <1>5 DEF Connect, Reader, Join, ReadFails, Leave, CloseConn,
              BrowserLeaves, TakeUpdate, SeeClosed, WriteFails, PingFails
<1>6. CASE UNCHANGED vars
  BY <1>2, <1>6 DEF vars
<1>7. QED
  BY <1>1, <1>2, <1>3, <1>4, <1>5, <1>6 DEF Next, Writer, Feed!Next

\* The broadcast implements the feed.
THEOREM FeedImplemented == Spec => FeedSpec
<1>1. Init => FeedInv /\ Feed!Init
  <2>1. Init => TypeOK
    BY BroadcastAssumption DEF Init, TypeOK, ReaderPcs, WriterPcs
  <2>2. QED
    BY <2>1 DEF Init, FeedInv, Rising, InOrderFor, Before, Feed!Init
<1>2. FeedInv /\ [Next]_vars => [Feed!Next]_Feed!vars
  BY FeedStep
<1>3. QED
  BY <1>1, <1>2, FeedInductive, PTL DEF Spec, FeedSpec, Feed!Spec

-----------------------------------------------------------------------------
(* The newest report of a server is shown last *)

\* What was shown to each client are places of entered, in order.
ShownInv ==
  \A c \in Clients :
    /\ Rising(shown[c])
    /\ \A k \in 1..Len(shown[c]) : shown[c][k] \in 1..published

\* Every step keeps it.
LEMMA ShownInductive ==
  ASSUME FeedInv, ShownInv, [Next]_vars
  PROVE  ShownInv'
<1>1. /\ published \in Nat
      /\ \A c \in Clients : shown[c] \in Seq(Nat)
  BY DEF FeedInv, TypeOK
<1>2. [Feed!Next]_Feed!vars
  BY FeedStep
<1>3. published' \in Nat /\ published <= published'
  BY <1>1, <1>2 DEF Feed!Next, Feed!Publish, Feed!Show, Feed!vars
<1>4. ASSUME NEW c \in Clients, shown'[c] = shown[c]
      PROVE  /\ Rising(shown'[c])
             /\ \A k \in 1..Len(shown'[c]) : shown'[c][k] \in 1..published'
  BY <1>1, <1>3, <1>4 DEF ShownInv
<1>5. ASSUME NEW c \in Clients, NEW n \in 1..published,
             \A i \in 1..Len(shown[c]) : shown[c][i] < n,
             shown'[c] = Append(shown[c], n)
      PROVE  /\ Rising(shown'[c])
             /\ \A k \in 1..Len(shown'[c]) : shown'[c][k] \in 1..published'
  <2>1. /\ n \in Nat /\ Len(shown[c]) \in Nat
        /\ Len(shown'[c]) = Len(shown[c]) + 1
        /\ \A i \in 1..Len(shown[c]) : shown'[c][i] = shown[c][i]
        /\ shown'[c][Len(shown[c]) + 1] = n
    BY <1>1, <1>5, SendFacts
  <2>2. \A i \in 1..Len(shown'[c]) : i \in 1..Len(shown[c]) \/ i = Len(shown[c]) + 1
    BY <2>1
  <2>3. ASSUME NEW i \in 1..Len(shown'[c]) PROVE shown'[c][i] \in 1..published'
    <3>1. shown'[c][i] \in 1..published
      BY <2>1, <2>2 DEF ShownInv
    <3>2. QED
      BY <1>1, <1>3, <3>1
  <2>4. ASSUME NEW i \in 1..Len(shown'[c]), NEW j \in 1..Len(shown'[c]), i < j
        PROVE  shown'[c][i] < shown'[c][j]
    <3>1. i \in 1..Len(shown[c]) /\ shown'[c][i] = shown[c][i]
      BY <2>1, <2>2, <2>4
    <3>2. CASE j \in 1..Len(shown[c])
      BY <2>1, <2>4, <3>1, <3>2 DEF ShownInv, Rising
    <3>3. CASE j = Len(shown[c]) + 1
      BY <1>5, <2>1, <3>1, <3>3
    <3>4. QED
      BY <2>2, <3>2, <3>3
  <2>5. QED
    BY <2>3, <2>4 DEF Rising
<1>6. ASSUME NEW c \in Clients
      PROVE  /\ Rising(shown'[c])
             /\ \A k \in 1..Len(shown'[c]) : shown'[c][k] \in 1..published'
  <2>1. CASE shown' = shown
    BY <1>4, <2>1
  <2>2. ASSUME NEW d \in Clients, Feed!Show(d)
        PROVE  /\ Rising(shown'[c])
               /\ \A k \in 1..Len(shown'[c]) : shown'[c][k] \in 1..published'
    <3>1. PICK n \in 1..published :
            /\ \A i \in 1..Len(shown[d]) : shown[d][i] < n
            /\ shown' = [shown EXCEPT ![d] = Append(@, n)]
      BY <2>2 DEF Feed!Show
    <3>2. CASE c = d
      <4>1. shown'[c] = Append(shown[c], n)
        BY <3>1, <3>2 DEF FeedInv, TypeOK
      <4>2. QED
        BY <1>5, <3>1, <3>2, <4>1
    <3>3. CASE c # d
      <4>1. shown'[c] = shown[c]
        BY <3>1, <3>3 DEF FeedInv, TypeOK
      <4>2. QED
        BY <1>4, <4>1
    <3>4. QED
      BY <3>2, <3>3
  <2>3. QED
    BY <1>2, <2>1, <2>2 DEF Feed!Next, Feed!Publish, Feed!vars
<1>7. QED
  BY <1>6 DEF ShownInv, Rising

\* Does update u of a patient agent's server have to come before v?
MustPrecede(u, v) == u.from = v.from /\ u.from \notin Impatient

\* The updates of a patient agent's server are offered to bcCh one by one in
\* the order of their ingestion.
OrderInv ==
  /\ \A u \in pending : u.id <= ingested
  /\ \A n \in 1..Len(entered) : entered[n].id <= ingested
  /\ \A u, v \in pending : MustPrecede(u, v) => u = v
  /\ \A n \in 1..Len(entered) : \A u \in pending :
       MustPrecede(entered[n], u) => entered[n].id < u.id
  /\ \A m, n \in 1..Len(entered) :
       m < n /\ MustPrecede(entered[m], entered[n])
         => entered[m].id < entered[n].id

\* Every step keeps it.
LEMMA OrderInductive ==
  ASSUME TypeOK, OrderInv, [Next]_vars
  PROVE  OrderInv'
<1>0. /\ ingested \in Nat /\ pending \subseteq Update
      /\ entered \in Seq(Update) /\ Len(entered) \in Nat
      /\ \A n \in 1..Len(entered) : entered[n] \in Update
      /\ \A u \in Update : u.id \in Nat /\ u.from \in Servers
  <2>1. \A u \in Update : u.id \in Nat /\ u.from \in Servers
    BY DEF Update
  <2>2. QED
    BY <2>1 DEF TypeOK
<1>1. ASSUME NEW s \in Servers, Ingest(s) PROVE OrderInv'
  <2> DEFINE new == [id |-> ingested + 1, from |-> s]
  <2>1. /\ ingested' = ingested + 1 /\ entered' = entered
        /\ pending' = pending \cup {new}
        /\ new.id = ingested + 1 /\ new.from = s
        /\ \A u \in pending : u.from = s => s \in Impatient
    BY <1>1 DEF Ingest
  <2> HIDE DEF new
  <2>2. ASSUME NEW u \in pending', NEW v \in pending', MustPrecede(u, v)
        PROVE  u = v
    BY <2>1, <2>2 DEF OrderInv, MustPrecede
  <2>3. ASSUME NEW n \in 1..Len(entered), NEW u \in pending',
               MustPrecede(entered[n], u)
        PROVE  entered[n].id < u.id
    BY <1>0, <2>1, <2>3 DEF OrderInv
  <2>4. /\ \A u \in pending' : u.id <= ingested'
        /\ \A n \in 1..Len(entered) : entered[n].id <= ingested'
    BY <1>0, <2>1 DEF OrderInv
  <2>5. QED
    BY <2>1, <2>2, <2>3, <2>4 DEF OrderInv, MustPrecede
<1>2. ASSUME NEW u \in pending, Publish(u) PROVE OrderInv'
  <2>1. /\ u \in Update /\ ingested' = ingested /\ pending' = pending \ {u}
        /\ entered' = Append(entered, u)
    BY <1>0, <1>2 DEF Publish
  <2>2. /\ Len(entered') = Len(entered) + 1
        /\ \A n \in 1..Len(entered) : entered'[n] = entered[n]
        /\ entered'[Len(entered) + 1] = u
    BY <1>0, <2>1, SendFacts
  <2>3. \A n \in 1..Len(entered') : n \in 1..Len(entered) \/ n = Len(entered) + 1
    BY <1>0, <2>2
  <2>4. ASSUME NEW n \in 1..Len(entered'), NEW v \in pending',
               MustPrecede(entered'[n], v)
        PROVE  entered'[n].id < v.id
    <3>1. CASE n \in 1..Len(entered)
      BY <2>1, <2>2, <2>4, <3>1 DEF OrderInv
    <3>2. CASE n = Len(entered) + 1
      BY <2>1, <2>2, <2>4, <3>2 DEF OrderInv
    <3>3. QED
      BY <2>3, <3>1, <3>2
  <2>5. ASSUME NEW m \in 1..Len(entered'), NEW n \in 1..Len(entered'), m < n,
               MustPrecede(entered'[m], entered'[n])
        PROVE  entered'[m].id < entered'[n].id
    <3>1. m \in 1..Len(entered) /\ entered'[m] = entered[m]
      BY <1>0, <2>2, <2>3, <2>5
    <3>2. CASE n \in 1..Len(entered)
      BY <2>2, <2>5, <3>1, <3>2 DEF OrderInv
    <3>3. CASE n = Len(entered) + 1
      BY <2>2, <2>5, <3>1, <3>3 DEF OrderInv
    <3>4. QED
      BY <2>3, <3>2, <3>3
  <2>6. \A n \in 1..Len(entered') : entered'[n].id <= ingested'
    BY <2>1, <2>2, <2>3 DEF OrderInv
  <2>7. /\ \A v \in pending' : v.id <= ingested'
        /\ \A v, w \in pending' : MustPrecede(v, w) => v = w
    BY <2>1 DEF OrderInv
  <2>8. QED
    BY <2>4, <2>5, <2>6, <2>7 DEF OrderInv, MustPrecede
<1>3. CASE \E u \in pending : PublishDropped(u)
  BY <1>3 DEF PublishDropped, OrderInv, MustPrecede
<1>4. CASE UNCHANGED feed
  BY <1>4 DEF OrderInv, MustPrecede
<1>5. CASE Run
  BY <1>4, <1>5 DEF Run, Register, Unregister, Distribute
<1>6. ASSUME NEW c \in Clients,
             Connect(c) \/ Reader(c) \/ Writer(c) \/ BrowserLeaves(c)
      PROVE  UNCHANGED feed
  BY <1>6 DEF Connect, Reader, Join, ReadFails, Leave, CloseConn, Writer,
              TakeUpdate, SeeClosed, WriteSucceeds, WriteFails, PingFails,
              BrowserLeaves
<1>7. CASE UNCHANGED vars
  BY <1>4, <1>7 DEF vars
<1>8. QED
  BY <1>1, <1>2, <1>3, <1>4, <1>5, <1>6, <1>7 DEF Next

\* No browser is shown an older report of a server after a newer one, unless
\* the agent of that server times out.
THEOREM NewestShownLast == Spec => []NewestLast
<1>1. Init => FeedInv /\ ShownInv /\ OrderInv
  <2>1. Init => TypeOK
    BY BroadcastAssumption DEF Init, TypeOK, ReaderPcs, WriterPcs
  <2>2. QED
    BY <2>1 DEF Init, FeedInv, Rising, InOrderFor, Before, ShownInv, OrderInv
<1>2. FeedInv /\ ShownInv /\ OrderInv /\ [Next]_vars
        => FeedInv' /\ ShownInv' /\ OrderInv'
  BY FeedInductive, ShownInductive, OrderInductive DEF FeedInv
<1>3. ShownInv /\ OrderInv => NewestLast
  <2> SUFFICES ASSUME ShownInv, OrderInv, NEW c \in Clients,
                      NEW i \in 1..Len(shown[c]), NEW j \in 1..Len(shown[c]),
                      i < j, MustPrecede(ShownUpdate(c, i), ShownUpdate(c, j))
               PROVE  ShownUpdate(c, i).id < ShownUpdate(c, j).id
    BY DEF NewestLast, MustPrecede
  <2>1. shown[c][i] \in 1..Len(entered) /\ shown[c][j] \in 1..Len(entered)
    BY DEF ShownInv
  <2>2. shown[c][i] < shown[c][j]
    BY DEF ShownInv, Rising
  <2>3. QED
    BY <2>1, <2>2 DEF OrderInv, ShownUpdate
<1>4. QED
  BY <1>1, <1>2, <1>3, PTL DEF Spec
=============================================================================
