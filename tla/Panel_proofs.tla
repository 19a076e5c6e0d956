---------------------------- MODULE Panel_proofs ----------------------------
(***************************************************************************)
(* Theorems about Panel, for any servers, window and capacity of the       *)
(* charts, and any number of lists and histories on their way at once.     *)
(***************************************************************************)
EXTENDS Panel, TLAPS

-----------------------------------------------------------------------------
(* Lemmas about the operators *)

\* A card for each of some servers makes a page.
LEMMA PageOfCards ==
  ASSUME NEW S \in SUBSET Servers, NEW p \in [S -> Card]
  PROVE  p \in Pages
BY DEF Pages

\* The page of a browser that has no list yet.
LEMMA EmptyPage == << >> \in Pages
<1>1. << >> \in [{} -> Card]
  OBVIOUS
<1>2. QED
  BY <1>1 DEF Pages

\* What the hub says of a server is a card.
LEMMA CardType ==
  ASSUME TypeOK, NEW u \in Servers
  PROVE  CardOf(u) \in Card
<1>1. latest[u].report \in 0..MaxReports
  BY DEF TypeOK
<1>2. Online(u) \in BOOLEAN
  BY DEF Online
<1>3. QED
  BY <1>1, <1>2 DEF CardOf, Card

\* A page with the card of one of its servers changed.
LEMMA PatchedPage ==
  ASSUME NEW p \in Pages, NEW u \in DOMAIN p, NEW c \in Card
  PROVE  [p EXCEPT ![u] = c] \in Pages
BY DEF Pages

\* A chart with a sample pushed: at most LiveKeep samples, the last of which is
\* the new one and the others among the old ones in their order.
LEMMA PushedFacts ==
  ASSUME NEW u \in Servers, live[u] \in Seq(1..MaxReports),
         Len(live[u]) <= LiveKeep, NEW n \in 1..MaxReports
  PROVE  /\ Pushed(u, n) \in Seq(1..MaxReports)
         /\ Len(Pushed(u, n)) <= LiveKeep
         /\ \E d \in {0, 1} :
              /\ Len(Pushed(u, n)) = Len(live[u]) + 1 - d
              /\ \A k \in 1..Len(Pushed(u, n)) :
                   Pushed(u, n)[k] = IF k + d = Len(live[u]) + 1 THEN n
                                     ELSE live[u][k + d]
<1> DEFINE kept == Append(live[u], n)
<1>1. /\ kept \in Seq(1..MaxReports) /\ Len(kept) = Len(live[u]) + 1
      /\ \A k \in 1..Len(kept) :
           kept[k] = IF k = Len(live[u]) + 1 THEN n ELSE live[u][k]
  OBVIOUS
<1>2. LiveKeep \in Nat
  BY PanelAssumption
<1> HIDE DEF kept
<1>3. CASE Len(kept) > LiveKeep
  <2>1. Pushed(u, n) = Tail(kept)
    BY <1>3 DEF Pushed, kept
  <2>2. /\ Tail(kept) \in Seq(1..MaxReports)
        /\ Len(Tail(kept)) = Len(live[u])
        /\ \A k \in 1..Len(Tail(kept)) : Tail(kept)[k] = kept[k + 1]
    BY <1>1, <1>2, <1>3
  <2>3. \A k \in 1..Len(Tail(kept)) :
          Tail(kept)[k] = IF k + 1 = Len(live[u]) + 1 THEN n ELSE live[u][k + 1]
    BY <1>1, <2>2
  <2>4. QED
    BY <2>1, <2>2, <2>3
<1>4. CASE ~(Len(kept) > LiveKeep)
  <2>1. Pushed(u, n) = kept
    BY <1>4 DEF Pushed, kept
  <2>2. QED
    BY <1>1, <1>2, <1>4, <2>1
<1>5. QED
  BY <1>3, <1>4

\* A chart that is emptied.
LEMMA AnswerEmpties ==
  ASSUME live \in [Servers -> Seq(1..MaxReports)],
         \A v \in Servers : Len(live[v]) <= LiveKeep,
         NEW u \in Servers
  PROVE  /\ [live EXCEPT ![u] = << >>] \in [Servers -> Seq(1..MaxReports)]
         /\ \A v \in Servers : Len([live EXCEPT ![u] = << >>][v]) <= LiveKeep
<1>1. << >> \in Seq(1..MaxReports) /\ Len(<< >>) <= LiveKeep
  BY PanelAssumption
<1>2. QED
  BY <1>1

-----------------------------------------------------------------------------
(* Type correctness *)

\* Every step keeps the types.
LEMMA TypeInductive == TypeOK /\ [Next]_vars => TypeOK'
<1> SUFFICES ASSUME TypeOK, [Next]_vars PROVE TypeOK'
  OBVIOUS
<1> USE DEF hub, charts, socket, Socket!Publish, Socket!Drop, Socket!Open, Socket!Get
<1>1. ASSUME NEW u \in Servers, Report(u) PROVE TypeOK'
  <2>1. /\ Len(log') = Len(log) + 1 /\ log' \in Seq(Servers)
        /\ Len(log') <= MaxReports
    BY <1>1, PanelAssumption DEF TypeOK, Report
  <2>2. [report |-> Len(log) + 1, at |-> now]
          \in [report : 0..MaxReports, at : Nat]
    BY <1>1, <2>1, PanelAssumption DEF TypeOK, Report
  <2>3. latest' \in [Servers -> [report : 0..MaxReports, at : Nat]]
    BY <1>1, <2>2 DEF TypeOK, Report
  <2>4. pos' \in 0..Len(log')
    <3>1. Len(log) \in Nat /\ pos' = pos /\ pos \in 0..Len(log)
      BY <1>1 DEF TypeOK, Report
    <3>2. QED
      BY <2>1, <3>1
  <2>5. /\ now' = now /\ listed' = listed /\ front' = front
        /\ up' = up /\ servers' = servers /\ lists' = lists /\ detail' = detail
        /\ asked' = asked /\ history' = history /\ live' = live /\ poll' = poll
    BY <1>1 DEF Report
  <2>6. QED
    BY <2>1, <2>3, <2>4, <2>5 DEF TypeOK
<1>2. ASSUME NEW u \in Servers, ToggleListed(u) PROVE TypeOK'
  BY <1>2 DEF TypeOK, ToggleListed
<1>3. ASSUME NEW u \in Servers, OpenDetail(u) PROVE TypeOK'
  <2>1. asked' \in [Servers -> 0..MaxAsked]
    <3>1. asked[u] + 1 \in 0..MaxAsked
      BY <1>3, PanelAssumption DEF TypeOK, OpenDetail
    <3>2. QED
      BY <1>3, <3>1 DEF TypeOK, OpenDetail
  <2>2. /\ now' = now /\ listed' = listed /\ latest' = latest /\ log' = log
        /\ front' = front /\ up' = up /\ pos' = pos /\ servers' = servers
        /\ lists' = lists /\ detail' \in Servers /\ history' = history
        /\ live' = live /\ poll' = poll
    BY <1>3 DEF OpenDetail
  <2>3. QED
    BY <2>1, <2>2 DEF TypeOK
<1>4. ASSUME NEW u \in Servers, HistoryArrives(u) PROVE TypeOK'
  <2>1. /\ live' \in [Servers -> Seq(1..MaxReports)]
        /\ \A v \in Servers : Len(live'[v]) <= LiveKeep
    BY <1>4, AnswerEmpties DEF TypeOK, HistoryArrives
  <2>2. asked' \in [Servers -> 0..MaxAsked]
    <3>1. asked[u] \in 0..MaxAsked /\ asked[u] > 0 /\ MaxAsked \in Nat
      BY <1>4, PanelAssumption DEF TypeOK, HistoryArrives
    <3>2. asked[u] - 1 \in 0..MaxAsked
      BY <3>1
    <3>3. QED
      BY <1>4, <3>2 DEF TypeOK, HistoryArrives
  <2>3. QED
    BY <1>4, <2>1, <2>2 DEF TypeOK, HistoryArrives
<1>5. ASSUME NEW u \in Servers, HistoryFails(u) PROVE TypeOK'
  <2>1. /\ live' \in [Servers -> Seq(1..MaxReports)]
        /\ \A v \in Servers : Len(live'[v]) <= LiveKeep
    BY <1>5, AnswerEmpties DEF TypeOK, HistoryFails
  <2>2. asked' \in [Servers -> 0..MaxAsked]
    <3>1. asked[u] \in 0..MaxAsked /\ asked[u] > 0 /\ MaxAsked \in Nat
      BY <1>5, PanelAssumption DEF TypeOK, HistoryFails
    <3>2. asked[u] - 1 \in 0..MaxAsked
      BY <3>1
    <3>3. QED
      BY <1>5, <3>2 DEF TypeOK, HistoryFails
  <2>3. QED
    BY <1>5, <2>1, <2>2 DEF TypeOK, HistoryFails
<1>6. CASE Tick
  <2>1. now' \in Nat /\ now' >= Start
    BY <1>6, PanelAssumption DEF TypeOK, Tick
  <2>2. /\ listed' = listed /\ latest' = latest /\ log' = log /\ front' = front
        /\ up' = up /\ pos' = pos /\ servers' = servers /\ lists' = lists
        /\ detail' = detail /\ asked' = asked /\ history' = history
        /\ live' = live /\ poll' = poll
    BY <1>6 DEF Tick
  <2>3. QED
    BY <2>1, <2>2 DEF TypeOK
<1>7. CASE Restart
  <2>1. latest' \in [Servers -> [report : 0..MaxReports, at : Nat]]
    BY <1>7, PanelAssumption DEF Restart, Unseen
  <2>2. Idle \in Call
    BY EmptyPage DEF Idle, Call
  <2>3. lists' \in [Slots -> Call]
    BY <1>7, <2>2 DEF TypeOK, Restart
  <2>4. up' \in BOOLEAN /\ pos' = Len(log) /\ log' = log
    BY <1>7 DEF Restart
  <2>5. poll' \in [step : {"idle", "read", "answered"},
                  online : SUBSET Servers, data : SUBSET Servers]
    BY <1>7 DEF Restart, NoPoll
  <2>6. pos' \in 0..Len(log')
    BY <2>4 DEF TypeOK
  <2>7. QED
    BY <1>7, <2>1, <2>3, <2>4, <2>5, <2>6 DEF TypeOK, Restart
<1>8. ASSUME NEW i \in Slots, ReadRows(i) PROVE TypeOK'
  <2>1. [u \in listed |-> [report |-> 0, online |-> FALSE]] \in [listed -> Card]
    BY PanelAssumption DEF Card
  <2>2. [u \in listed |-> [report |-> 0, online |-> FALSE]] \in Pages
    BY <2>1, PageOfCards DEF TypeOK
  <2>3. lists' \in [Slots -> Call]
    BY <1>8, <2>2 DEF TypeOK, ReadRows, Call
  <2>4. QED
    BY <1>8, <2>3 DEF TypeOK, ReadRows
<1>9. ASSUME NEW i \in Slots, Augment(i) PROVE TypeOK'
  <2> DEFINE S == DOMAIN lists[i].page
  <2>1. S \in SUBSET Servers
    BY DEF TypeOK, Call, Pages
  <2>2. [u \in S |-> CardOf(u)] \in [S -> Card]
    BY <2>1, CardType
  <2>3. [u \in S |-> CardOf(u)] \in Pages
    BY <2>1, <2>2, PageOfCards
  <2>4. lists' \in [Slots -> Call]
    BY <1>9, <2>3 DEF TypeOK, Augment, Call
  <2>5. QED
    BY <1>9, <2>4 DEF TypeOK, Augment
<1>10. ASSUME NEW i \in Slots, ListArrives(i) PROVE TypeOK'
  BY <1>10, EmptyPage DEF TypeOK, ListArrives, Idle, Call
<1>11. ASSUME NEW i \in Slots, ListFails(i) PROVE TypeOK'
  BY <1>11, EmptyPage DEF TypeOK, ListFails, Idle, Call
<1>12. CASE Connect
  BY <1>12 DEF TypeOK, Connect
<1>13. CASE Disconnect
  <2>1. pos \in 0..Len(log) /\ Len(log) \in Nat
    BY DEF TypeOK
  <2>2. up' = FALSE /\ pos' \in 0..Len(log)
    BY <1>13, <2>1 DEF Disconnect
  <2>3. QED
    BY <1>13, <2>2 DEF TypeOK, Disconnect
<1>14. ASSUME NEW n \in (pos + 1)..Len(log), OnLive(n) PROVE TypeOK'
  <2>1. n \in 1..MaxReports /\ n \in 1..Len(log) /\ log[n] \in Servers
    BY <1>14, PanelAssumption DEF TypeOK, OnLive
  <2>2. /\ now' = now /\ listed' = listed /\ latest' = latest /\ log' = log
        /\ front' = front /\ lists' = lists /\ detail' = detail
        /\ asked' = asked /\ history' = history /\ poll' = poll
        /\ up' = up /\ pos' \in 0..Len(log')
    <3>1. pos' = n /\ log' = log /\ n \in 0..Len(log)
      BY <1>14, <2>1 DEF OnLive
    <3>2. QED
      BY <1>14, <3>1 DEF OnLive
  <2>3. CASE log[n] \in DOMAIN servers
    <3>1. [report |-> n, online |-> TRUE] \in Card
      BY <2>1 DEF Card
    <3>2. servers' = [servers EXCEPT ![log[n]] = [report |-> n, online |-> TRUE]]
      BY <1>14, <2>3 DEF OnLive
    <3>3. servers' \in Pages
      BY <2>3, <3>1, <3>2, PatchedPage DEF TypeOK
    <3>4. /\ live' \in [Servers -> Seq(1..MaxReports)]
          /\ \A u \in Servers : Len(live'[u]) <= LiveKeep
      <4>1. /\ Pushed(log[n], n) \in Seq(1..MaxReports)
            /\ Len(Pushed(log[n], n)) <= LiveKeep
        BY <2>1, PushedFacts DEF TypeOK
      <4>2. CASE detail = log[n]
        <5>1. live' = [live EXCEPT ![log[n]] = Pushed(log[n], n)]
          BY <1>14, <2>3, <4>2 DEF OnLive
        <5>2. QED
          BY <2>1, <4>1, <5>1 DEF TypeOK
      <4>3. CASE detail # log[n]
        <5>1. live' = live
          BY <1>14, <2>3, <4>3 DEF OnLive
        <5>2. QED
          BY <5>1 DEF TypeOK
      <4>4. QED
        BY <4>2, <4>3
    <3>5. QED
      BY <2>1, <2>2, <3>3, <3>4 DEF TypeOK
  <2>4. CASE log[n] \notin DOMAIN servers
    <3>1. servers' = servers /\ live' = live
      BY <1>14, <2>4 DEF OnLive
    <3>2. QED
      BY <2>1, <2>2, <3>1 DEF TypeOK
  <2>5. QED
    BY <2>3, <2>4
<1>15. CASE CloseDetail
  BY <1>15 DEF TypeOK, CloseDetail
<1>16. CASE PollOnline
  BY <1>16 DEF TypeOK, PollOnline
<1>17. CASE PollLatest
  BY <1>17 DEF TypeOK, PollLatest
<1>18. CASE UNCHANGED vars
  BY <1>18 DEF TypeOK, vars
<1>19. QED
  BY <1>1, <1>2, <1>3, <1>4, <1>5, <1>6, <1>7, <1>8, <1>9, <1>10, <1>11,
     <1>12, <1>13, <1>14, <1>15, <1>16, <1>17, <1>18
     DEF Next, LoadAll, HistoryAnswer

\* The panel starts with them.
LEMMA TypeAtStart == Init => TypeOK
<1> SUFFICES ASSUME Init PROVE TypeOK
  OBVIOUS
<1>1. Idle \in Call /\ << >> \in Pages
  BY EmptyPage DEF Idle, Call
<1>2. latest \in [Servers -> [report : 0..MaxReports, at : Nat]]
  BY PanelAssumption DEF Init, Unseen
<1>3. Len(<< >>) = 0 /\ << >> \in Seq(Servers) /\ << >> \in Seq(1..MaxReports)
  OBVIOUS
<1>4. up \in BOOLEAN /\ pos = 0 /\ log = << >>
  BY DEF Init
<1>5. poll \in [step : {"idle", "read", "answered"},
                online : SUBSET Servers, data : SUBSET Servers]
  BY DEF Init, NoPoll
<1>6. /\ now \in Nat /\ now >= Start /\ listed \subseteq Servers
      /\ front \in {"panel", "komari"} /\ servers \in Pages
      /\ detail \in Servers \cup {NoServer}
      /\ history \in Servers \cup {NoServer}
      /\ asked \in [Servers -> 0..MaxAsked]
  BY <1>1, PanelAssumption DEF Init
<1>7. /\ log \in Seq(Servers) /\ Len(log) <= MaxReports
      /\ \A u \in Servers : Len(live[u]) <= LiveKeep
      /\ live \in [Servers -> Seq(1..MaxReports)]
  BY <1>3, PanelAssumption DEF Init
<1>8. lists \in [Slots -> Call]
  BY <1>1 DEF Init
<1>9. QED
  BY <1>2, <1>3, <1>4, <1>5, <1>6, <1>7, <1>8 DEF TypeOK

\* Cards, lists under way, charts and answers to a theme keep their types, for
\* any constants; no chart outgrows LiveKeep.
THEOREM TypeCorrect == Spec => []TypeOK
<1>1. QED
  BY TypeAtStart, TypeInductive, PTL DEF Spec

-----------------------------------------------------------------------------
(* The live samples *)

\* One chart: what LiveInOrder says of one server.
ChartInOrder(u) ==
  /\ \A k \in 1..Len(live[u]) :
       /\ live[u][k] <= Len(log) /\ log[live[u][k]] = u
       /\ live[u][k] <= pos
  /\ \A j, k \in 1..Len(live[u]) : j < k => live[u][j] < live[u][k]

\* The samples of a chart are numbers of updates.
LEMMA Sample ==
  ASSUME NEW S, NEW s \in Seq(S), NEW k \in 1..Len(s)
  PROVE  s[k] \in S
OBVIOUS

\* A chart whose samples did not change, or were cleared, stays in order as
\* long as the log only grows and the connection does not go back.
LEMMA QuietChart ==
  ASSUME TypeOK, NEW u \in Servers, ChartInOrder(u),
         live'[u] \in {live[u], << >>},
         Len(log) <= Len(log'), \A n \in 1..Len(log) : log'[n] = log[n],
         pos' \in pos..Len(log)
  PROVE  ChartInOrder(u)'
<1>1. CASE live'[u] = << >>
  BY <1>1 DEF ChartInOrder
<1>2. CASE live'[u] = live[u]
  <2>1. /\ live[u] \in Seq(1..MaxReports) /\ MaxReports \in Nat
        /\ Len(log) \in Nat /\ Len(log') >= Len(log)
    BY PanelAssumption DEF TypeOK
  <2>2. ASSUME NEW k \in 1..Len(live[u])
        PROVE  /\ live[u][k] <= Len(log') /\ log'[live[u][k]] = u
               /\ live[u][k] <= pos'
    <3>1. /\ live[u][k] \in 1..Len(log) /\ log[live[u][k]] = u
          /\ live[u][k] <= pos
      BY <2>1, <2>2 DEF ChartInOrder
    <3>2. live[u][k] <= Len(log')
      BY <2>1, <3>1
    <3>3. log'[live[u][k]] = u
      BY <3>1
    <3>4. live[u][k] \in Nat /\ pos \in Nat /\ pos' \in Nat /\ pos <= pos'
      <4>1. live[u][k] \in Nat
        BY <2>1, <3>1
      <4>2. pos \in Nat
        BY <2>1 DEF TypeOK
      <4>3. QED
        BY <2>1, <4>1, <4>2
    <3>5. QED
      BY <3>1, <3>2, <3>3, <3>4
  <2>3. \A j, k \in 1..Len(live[u]) : j < k => live[u][j] < live[u][k]
    BY DEF ChartInOrder
  <2>4. QED
    BY <1>2, <2>2, <2>3 DEF ChartInOrder
<1>3. QED
  BY <1>1, <1>2

\* An update that comes is newer than every sample of its chart.
LEMMA PushedChart ==
  ASSUME TypeOK, NEW u \in Servers, ChartInOrder(u),
         NEW n \in (pos + 1)..Len(log), log[n] = u,
         live'[u] = Pushed(u, n), log' = log, pos' = n
  PROVE  ChartInOrder(u)'
<1>1. /\ live[u] \in Seq(1..MaxReports) /\ Len(live[u]) <= LiveKeep
      /\ pos \in 0..Len(log) /\ Len(log) \in 0..MaxReports /\ MaxReports \in Nat
  BY PanelAssumption DEF TypeOK
<1>2. n \in 1..MaxReports /\ n \in 1..Len(log) /\ pos < n
  BY <1>1
<1>3. PICK d \in {0, 1} :
        /\ Len(Pushed(u, n)) = Len(live[u]) + 1 - d
        /\ \A k \in 1..Len(Pushed(u, n)) :
             Pushed(u, n)[k] = IF k + d = Len(live[u]) + 1 THEN n
                               ELSE live[u][k + d]
  BY <1>1, <1>2, PushedFacts
<1>4. Len(live[u]) \in Nat
  BY <1>1
<1>5. ASSUME NEW k \in 1..Len(Pushed(u, n))
      PROVE  /\ Pushed(u, n)[k] <= n /\ log[Pushed(u, n)[k]] = u
             /\ k + d # Len(live[u]) + 1 =>
                  /\ k + d \in 1..Len(live[u])
                  /\ Pushed(u, n)[k] = live[u][k + d]
                  /\ live[u][k + d] < n
  <2>1. CASE k + d = Len(live[u]) + 1
    BY <1>2, <1>3, <2>1
  <2>2. CASE k + d # Len(live[u]) + 1
    <3>1. k + d \in 1..Len(live[u])
      BY <1>3, <1>4, <1>5, <2>2
    <3>2. Pushed(u, n)[k] = live[u][k + d]
      BY <1>3, <1>5, <2>2
    <3>3. live[u][k + d] \in 1..MaxReports /\ live[u][k + d] <= pos
      <4>1. live[u][k + d] \in 1..MaxReports
        BY <1>1, <3>1, Sample
      <4>2. live[u][k + d] <= pos
        BY <3>1 DEF ChartInOrder
      <4>3. QED
        BY <4>1, <4>2
    <3>4. log[live[u][k + d]] = u
      BY <3>1 DEF ChartInOrder
    <3>5. live[u][k + d] < n
      BY <1>1, <1>2, <3>3
    <3>6. QED
      BY <1>1, <1>2, <2>2, <3>1, <3>2, <3>3, <3>4, <3>5
  <2>3. QED
    BY <2>1, <2>2
<1>6. ASSUME NEW j \in 1..Len(Pushed(u, n)), NEW k \in 1..Len(Pushed(u, n)), j < k
      PROVE  Pushed(u, n)[j] < Pushed(u, n)[k]
  <2>1. j + d # Len(live[u]) + 1
    BY <1>3, <1>4, <1>6
  <2>2. CASE k + d = Len(live[u]) + 1
    BY <1>3, <1>5, <2>1, <2>2
  <2>3. CASE k + d # Len(live[u]) + 1
    <3>1. /\ j + d \in 1..Len(live[u]) /\ k + d \in 1..Len(live[u])
          /\ Pushed(u, n)[j] = live[u][j + d] /\ Pushed(u, n)[k] = live[u][k + d]
      BY <1>5, <2>1, <2>3
    <3>2. j + d < k + d
      BY <1>6
    <3>3. live[u][j + d] < live[u][k + d]
      BY <3>1, <3>2 DEF ChartInOrder
    <3>4. QED
      BY <3>1, <3>3
  <2>4. QED
    BY <2>2, <2>3
<1>7. \A k \in 1..Len(live'[u]) :
        /\ live'[u][k] <= Len(log') /\ log'[live'[u][k]] = u
        /\ live'[u][k] <= pos'
  <2>1. \A k \in 1..Len(Pushed(u, n)) : Pushed(u, n)[k] \in 1..MaxReports
    BY <1>1, <1>2, PushedFacts
  <2>2. QED
    BY <1>1, <1>2, <1>5, <2>1
<1>8. QED
  BY <1>6, <1>7 DEF ChartInOrder

\* Every step keeps every chart in order.
LEMMA LiveInductive == TypeOK /\ LiveInOrder /\ [Next]_vars => LiveInOrder'
<1> SUFFICES ASSUME TypeOK, LiveInOrder, [Next]_vars, NEW u \in Servers
             PROVE  ChartInOrder(u)'
  BY DEF LiveInOrder, ChartInOrder
<1>1. ChartInOrder(u)
  BY DEF LiveInOrder, ChartInOrder
<1>2. ASSUME NEW n \in (pos + 1)..Len(log), OnLive(n) PROVE ChartInOrder(u)'
  <2>1. pos' = n /\ log' = log
    BY <1>2 DEF OnLive, hub
  <2>2. CASE log[n] \in DOMAIN servers /\ detail = log[n] /\ log[n] = u
    <3>1. live'[u] = Pushed(u, n)
      BY <1>2, <2>2 DEF OnLive, TypeOK
    <3>2. QED
      BY <1>1, <2>1, <2>2, <3>1, PushedChart
  <2>3. CASE ~(log[n] \in DOMAIN servers /\ detail = log[n] /\ log[n] = u)
    <3>1. live'[u] = live[u]
      BY <1>2, <2>3 DEF OnLive, TypeOK
    <3>2. live[u] \in Seq(1..MaxReports) /\ pos \in 0..Len(log) /\ pos < n
      BY <2>1 DEF TypeOK
    <3>3. \A k \in 1..Len(live[u]) : live[u][k] \in 1..MaxReports
      BY <3>2, Sample
    <3>4. \A k \in 1..Len(live[u]) : live[u][k] <= n
      BY <1>1, <2>1, <3>2, <3>3, PanelAssumption DEF ChartInOrder
    <3>5. QED
      BY <1>1, <2>1, <3>1, <3>4 DEF ChartInOrder
  <2>4. QED
    BY <2>2, <2>3
<1>3. CASE ~(\E n \in (pos + 1)..Len(log) : OnLive(n))
  <2>1. /\ Len(log) <= Len(log')
        /\ \A n \in 1..Len(log) : log'[n] = log[n]
    <3>1. log \in Seq(Servers) /\ (log' = log \/ \E s \in Servers : log' = Append(log, s))
      BY <1>3 DEF TypeOK, Next, LoadAll, HistoryAnswer, hub, vars, Report,
         ToggleListed, Tick, Restart, ReadRows, Augment, ListArrives,
         ListFails, Connect, Disconnect, Socket!Open, Socket!Drop,
         Socket!Publish, Socket!Get, OpenDetail, CloseDetail, HistoryArrives,
         HistoryFails, PollOnline, PollLatest
    <3>2. QED
      BY <3>1
  <2>2. pos' \in pos..Len(log)
    <3>1. pos \in Nat /\ Len(log) \in Nat /\ pos <= Len(log)
      BY DEF TypeOK
    <3>2. pos' = pos \/ pos' = Len(log) \/ pos' \in pos..Len(log)
      BY <1>3 DEF Next, LoadAll, HistoryAnswer, hub, socket, vars, Report,
         ToggleListed, Tick, Restart, ReadRows, Augment, ListArrives,
         ListFails, Connect, Disconnect, Socket!Open, Socket!Drop,
         Socket!Publish, OpenDetail, CloseDetail, HistoryArrives,
         HistoryFails, PollOnline, PollLatest
    <3>3. QED
      BY <3>1, <3>2
  <2>3. live'[u] \in {live[u], << >>}
    BY <1>3 DEF TypeOK, Next, LoadAll, HistoryAnswer, charts, vars, Report,
       ToggleListed, Tick, Restart, ReadRows, Augment, ListArrives, ListFails,
       Connect, Disconnect, Socket!Open, Socket!Drop, Socket!Publish,
       Socket!Get, OpenDetail, CloseDetail, HistoryArrives, HistoryFails,
       PollOnline, PollLatest
  <2>4. QED
    BY <1>1, <2>1, <2>2, <2>3, QuietChart
<1>4. QED
  BY <1>2, <1>3

\* The live samples of a chart are its server's and in order, for any number of
\* servers, reports, connections and histories awaited, and any LiveKeep.
THEOREM ChartsInOrder == Spec => []LiveInOrder
<1>1. Init => LiveInOrder
  <2>1. ASSUME Init, NEW u \in Servers PROVE 1..Len(live[u]) = {}
    <3>1. live[u] = << >>
      BY <2>1 DEF Init
    <3>2. 1..Len(<< >>) = {}
      OBVIOUS
    <3>3. QED
      BY <3>1, <3>2
  <2>2. QED
    BY <2>1 DEF LiveInOrder
<1>2. QED
  BY <1>1, TypeCorrect, LiveInductive, PTL DEF Spec

-----------------------------------------------------------------------------
(* What a Komari theme is told *)

\* Between its two reads, the hub has a report of every server it found online.
PollSeen ==
  /\ poll.step = "read" => \A u \in poll.online : latest[u] # Unseen
  /\ OnlineHasReport

\* A server that was never seen is not online: the clock is past Window.
LEMMA UnseenIsOffline ==
  ASSUME TypeOK, NEW u \in Servers, Online(u)
  PROVE  latest[u] # Unseen
<1>1. SUFFICES ASSUME latest[u] = Unseen PROVE FALSE
  OBVIOUS
<1>2. latest[u].at = 0
  BY <1>1 DEF Unseen
<1>3. QED
  BY <1>2, PanelAssumption DEF TypeOK, Online

\* Every step keeps that.
LEMMA PollInductive == TypeOK /\ PollSeen /\ [Next]_vars => PollSeen'
<1> SUFFICES ASSUME TypeOK, PollSeen, [Next]_vars PROVE PollSeen'
  OBVIOUS
<1>1. ASSUME NEW u \in Servers, Report(u) PROVE PollSeen'
  <2>1. Len(log) + 1 # 0
    BY DEF TypeOK
  <2>2. \A v \in Servers : latest[v] # Unseen => latest'[v] # Unseen
    BY <1>1, <2>1 DEF TypeOK, Report, Unseen
  <2>3. poll' = poll /\ poll.online \subseteq Servers
    BY <1>1 DEF TypeOK, Report
  <2>4. QED
    BY <2>2, <2>3 DEF PollSeen, OnlineHasReport
<1>2. CASE Restart
  BY <1>2 DEF Restart, NoPoll, PollSeen, OnlineHasReport
<1>3. CASE PollOnline
  <2>1. poll' = [step |-> "read", online |-> {u \in Servers : Online(u)},
                 data |-> {}] /\ latest' = latest
    BY <1>3 DEF PollOnline, hub
  <2>2. QED
    BY <2>1, UnseenIsOffline DEF PollSeen, OnlineHasReport
<1>4. CASE PollLatest
  <2>1. /\ poll'.step = "answered" /\ poll'.online = poll.online
        /\ poll'.data = {u \in Servers : latest[u] # Unseen}
        /\ poll.step = "read" /\ poll.online \subseteq Servers
    BY <1>4 DEF TypeOK, PollLatest
  <2>2. QED
    BY <2>1 DEF PollSeen, OnlineHasReport
<1>5. CASE poll' = poll /\ latest' = latest
  BY <1>5 DEF PollSeen, OnlineHasReport
<1>6. QED
  BY <1>1, <1>2, <1>3, <1>4, <1>5
     DEF Next, LoadAll, HistoryAnswer, hub, vars, ToggleListed, Tick,
        ReadRows, Augment, ListArrives, ListFails, Connect, Disconnect,
        Socket!Open, Socket!Drop, Socket!Publish, Socket!Get, OnLive,
        OpenDetail, CloseDetail, HistoryArrives, HistoryFails

\* A theme is never told that a server is online without its report, whatever
\* number of servers report between the two reads.
THEOREM ThemesSeeReports == Spec => []OnlineHasReport
<1>1. Init => PollSeen
  BY DEF Init, PollSeen, OnlineHasReport, NoPoll
<1>2. PollSeen => OnlineHasReport
  BY DEF PollSeen
<1>3. QED
  BY <1>1, <1>2, TypeCorrect, PollInductive, PTL DEF Spec

-----------------------------------------------------------------------------
(* The cards *)

\* What a card may say: nothing, or a report of its own server; and online
\* only with a report.
TrueOf(card, u, l) ==
  /\ card.report # 0 => card.report <= Len(l) /\ l[card.report] = u
  /\ card.online => card.report # 0

TruePage(p, l) == \A u \in DOMAIN p : TrueOf(p[u], u, l)

\* Cards are made of what the hub knows, travel in the lists under way and are
\* changed by live updates: what each of them says is true.
CardInv ==
  /\ \A u \in Servers :
       /\ latest[u].report <= Len(log)
       /\ latest[u].report # 0 => log[latest[u].report] = u
       /\ latest[u].report = 0 => latest[u] = Unseen
  /\ \A i \in Slots : TruePage(lists[i].page, log)
  /\ TruePage(servers, log)

\* What was reported stays reported.
LEMMA LogGrows ==
  ASSUME TypeOK, [Next]_vars
  PROVE  /\ Len(log) \in Nat /\ Len(log') \in Nat /\ Len(log) <= Len(log')
         /\ \A n \in 1..Len(log) : log'[n] = log[n]
<1>1. log \in Seq(Servers) /\ (log' = log \/ \E s \in Servers : log' = Append(log, s))
  BY DEF TypeOK, Next, LoadAll, HistoryAnswer, hub, vars, Report,
     ToggleListed, Tick, Restart, ReadRows, Augment, ListArrives, ListFails,
     Connect, Disconnect, Socket!Open, Socket!Drop,
         Socket!Publish, Socket!Get, OnLive, OpenDetail, CloseDetail, HistoryArrives,
     HistoryFails, PollOnline, PollLatest
<1>2. QED
  BY <1>1

\* So a page that was true stays true.
LEMMA TrueStays ==
  ASSUME TypeOK, [Next]_vars, NEW p \in Pages, TruePage(p, log)
  PROVE  TruePage(p, log')
<1>1. /\ Len(log) \in Nat /\ Len(log') \in Nat /\ Len(log) <= Len(log')
      /\ \A n \in 1..Len(log) : log'[n] = log[n]
  BY LogGrows
<1>2. ASSUME NEW u \in DOMAIN p, p[u].report # 0
      PROVE  p[u].report <= Len(log') /\ log'[p[u].report] = u
  <2>1. p[u].report \in Nat
    BY PanelAssumption DEF Pages, Card
  <2>2. p[u].report <= Len(log) /\ log[p[u].report] = u
    BY <1>2 DEF TruePage, TrueOf
  <2>3. p[u].report \in 1..Len(log)
    BY <1>1, <1>2, <2>1, <2>2
  <2>4. QED
    BY <1>1, <2>2, <2>3
<1>3. QED
  BY <1>2 DEF TruePage, TrueOf

\* What the hub says of a server is true.
LEMMA HubTells ==
  ASSUME TypeOK, CardInv, NEW u \in Servers
  PROVE  TrueOf(CardOf(u), u, log)
<1>1. /\ latest[u].report # 0 =>
           latest[u].report <= Len(log) /\ log[latest[u].report] = u
      /\ latest[u].report = 0 => latest[u] = Unseen
  BY DEF CardInv
<1>2. Online(u) => latest[u] # Unseen
  BY UnseenIsOffline
<1>3. QED
  BY <1>1, <1>2 DEF TrueOf, CardOf

\* The page of a call.
LEMMA PageOfCall ==
  ASSUME TypeOK, NEW i \in Slots
  PROVE  lists[i].page \in Pages
BY DEF TypeOK, Call

\* Every step keeps what the hub knows true.
LEMMA HubInductive ==
  ASSUME TypeOK, CardInv, [Next]_vars, NEW u \in Servers
  PROVE  /\ latest'[u].report <= Len(log')
         /\ latest'[u].report # 0 => log'[latest'[u].report] = u
         /\ latest'[u].report = 0 => latest'[u] = Unseen
<1>1. /\ Len(log) \in Nat /\ Len(log') \in Nat /\ Len(log) <= Len(log')
      /\ \A n \in 1..Len(log) : log'[n] = log[n]
  BY LogGrows
<1>2. /\ latest[u].report \in Nat /\ latest[u].report <= Len(log)
      /\ latest[u].report # 0 => log[latest[u].report] = u
      /\ latest[u].report = 0 => latest[u] = Unseen
  BY PanelAssumption DEF CardInv, TypeOK
<1>3. CASE latest'[u] = latest[u]
  <2>1. latest[u].report # 0 => latest[u].report \in 1..Len(log)
    BY <1>1, <1>2
  <2>2. QED
    BY <1>1, <1>2, <1>3, <2>1
<1>4. CASE Restart
  BY <1>1, <1>4 DEF Restart, Unseen
<1>5. CASE Report(u)
  <2>1. latest'[u] = [report |-> Len(log) + 1, at |-> now]
    BY <1>5 DEF Report, TypeOK
  <2>2. Len(log') = Len(log) + 1 /\ log'[Len(log) + 1] = u
    BY <1>5 DEF Report, TypeOK
  <2>3. QED
    BY <1>1, <2>1, <2>2
<1>6. QED
  BY <1>3, <1>4, <1>5
     DEF Next, LoadAll, HistoryAnswer, hub, vars, Report, ToggleListed, Tick,
        ReadRows, Augment, ListArrives, ListFails, Connect, Disconnect,
        Socket!Open, Socket!Drop, Socket!Publish, Socket!Get, OnLive,
        OpenDetail, CloseDetail, HistoryArrives, HistoryFails, PollOnline,
        PollLatest, TypeOK

\* Every step keeps the lists under way true.
LEMMA ListsInductive ==
  ASSUME TypeOK, CardInv, [Next]_vars, NEW i \in Slots
  PROVE  TruePage(lists'[i].page, log')
<1>1. CASE lists'[i] = lists[i]
  BY <1>1, TrueStays, PageOfCall DEF CardInv
<1>2. CASE lists'[i] = Idle
  <2>1. lists'[i].page = << >> /\ DOMAIN << >> = {}
    BY <1>2 DEF Idle
  <2>2. QED
    BY <2>1 DEF TruePage
<1>3. CASE ReadRows(i)
  <2>1. lists'[i].page = [u \in listed |-> [report |-> 0, online |-> FALSE]]
    BY <1>3 DEF ReadRows, TypeOK
  <2>2. \A u \in listed :
          TrueOf([v \in listed |-> [report |-> 0, online |-> FALSE]][u], u, log')
    BY DEF TrueOf
  <2>3. QED
    BY <2>1, <2>2 DEF TruePage
<1>4. CASE Augment(i)
  <2> DEFINE S == DOMAIN lists[i].page
             p == [u \in S |-> CardOf(u)]
  <2>1. S \in SUBSET Servers
    BY PageOfCall DEF Pages
  <2>2. p \in Pages
    BY <2>1, CardType, PageOfCards
  <2>3. TruePage(p, log)
    BY <2>1, HubTells DEF TruePage
  <2>4. lists'[i].page = p
    BY <1>4 DEF Augment, TypeOK
  <2>5. log' = log
    BY <1>4 DEF Augment, hub
  <2>6. QED
    BY <2>3, <2>4, <2>5
<1>5. QED
  BY <1>1, <1>2, <1>3, <1>4
     DEF Next, LoadAll, HistoryAnswer, vars, Report, ToggleListed, Tick,
        Restart, ReadRows, Augment, ListArrives, ListFails, Connect,
        Disconnect, Socket!Open, Socket!Drop, Socket!Publish, Socket!Get,
        OnLive, OpenDetail, CloseDetail, HistoryArrives, HistoryFails,
        PollOnline, PollLatest, TypeOK

\* Every step keeps what the cards, the lists and the hub say true.
LEMMA CardInductive == TypeOK /\ CardInv /\ [Next]_vars => CardInv'
<1> SUFFICES ASSUME TypeOK, CardInv, [Next]_vars PROVE CardInv'
  OBVIOUS
<1>1. TruePage(servers', log')
  <2>1. CASE servers' = servers
    BY <2>1, TrueStays DEF CardInv, TypeOK
  <2>2. ASSUME NEW i \in Slots, ListArrives(i) PROVE TruePage(servers', log')
    <3>1. servers' = lists[i].page /\ log' = log
      BY <2>2 DEF ListArrives, hub
    <3>2. QED
      BY <3>1 DEF CardInv
  <2>3. ASSUME NEW n \in (pos + 1)..Len(log), OnLive(n), log[n] \in DOMAIN servers
        PROVE  TruePage(servers', log')
    <3>1. /\ log' = log
          /\ servers' = [servers EXCEPT ![log[n]] = [report |-> n, online |-> TRUE]]
      BY <2>3 DEF OnLive, hub
    <3>2. n \in 1..Len(log)
      BY DEF TypeOK
    <3>3. TrueOf([report |-> n, online |-> TRUE], log[n], log')
      BY <3>1, <3>2 DEF TrueOf
    <3>4. \A u \in DOMAIN servers : TrueOf(servers[u], u, log')
      BY <3>1 DEF CardInv, TruePage
    <3>5. QED
      BY <3>1, <3>3, <3>4 DEF TruePage
  <2>4. QED
    BY <2>1, <2>2, <2>3
       DEF Next, LoadAll, HistoryAnswer, vars, Report, ToggleListed, Tick,
          Restart, ReadRows, Augment, ListFails, Connect, Disconnect,
          Socket!Open, Socket!Drop, Socket!Publish, Socket!Get, OnLive,
          OpenDetail, CloseDetail, HistoryArrives, HistoryFails, PollOnline,
          PollLatest
<1>2. QED
  BY <1>1, HubInductive, ListsInductive DEF CardInv

\* No card shows another server's report, and none says online without one:
\* for any number of servers, lists on their way, live updates and restarts.
THEOREM CardsOwn == Spec => []CardsTrue
<1>1. ASSUME Init PROVE CardInv
  <2>1. TruePage(<< >>, log)
    <3>1. DOMAIN << >> = {}
      OBVIOUS
    <3>2. QED
      BY <3>1 DEF TruePage
  <2>2. \A u \in Servers : latest[u] = Unseen
    BY <1>1 DEF Init
  <2>3. Len(log) = 0
    BY <1>1 DEF Init
  <2>4. QED
    BY <1>1, <2>1, <2>2, <2>3 DEF CardInv, Init, Idle, Unseen
<1>2. CardInv => CardsTrue
  BY DEF CardInv, CardsTrue, TruePage, TrueOf
<1>3. QED
  BY <1>1, <1>2, TypeCorrect, CardInductive, PTL DEF Spec

\* Cards and themes together: nothing shown of a server is another's, and
\* nothing is shown online without a report.
THEOREM ShownIsTrue == Spec => []ShownTrue
<1>1. CardsTrue /\ OnlineHasReport => ShownTrue
  BY DEF ShownTrue
<1>2. QED
  BY <1>1, CardsOwn, ThemesSeeReports, PTL
=============================================================================
