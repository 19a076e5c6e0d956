------------------------------- MODULE Panel -------------------------------
(***************************************************************************)
(* What browsers are told of the servers. The panel's page, app.js, gets   *)
(* the list of servers anew every minute, patches it with the live updates *)
(* that come over /ws, and opens one server's charts, whose history it     *)
(* fetches. A theme written for Komari asks over its own socket instead.   *)
(*                                                                         *)
(* Requests overlap each other and the live updates: the answer of an      *)
(* earlier one may come last. The steps of the socket /ws are those of     *)
(* PageSocket, the specification that Reconnects implements: some of the   *)
(* updates, each once and in order. Updates are numbered as they are       *)
(* published, and the report of an update is known by that number.         *)
(***************************************************************************)
EXTENDS Integers, Sequences, FiniteSets

CONSTANTS
  Servers,      \* uuids of servers
  Agents,       \* those whose agent has been installed
  Hideable,     \* those an administrator may hide or show
  NoServer,     \* detailUuid = null, and the charts' history = []
  Window,       \* seconds a server counts as online after a report (60)
  LiveKeep,     \* live samples kept per chart (120)
  Start,        \* the clock when the panel starts
  MaxTime,      \* bound: last clock value
  MaxReports,   \* bound: reports ingested
  MaxLists,     \* bound: calls of loadAll at once
  MaxAsked,     \* bound: requests for the history of one server at once
  MaxPending    \* bound: lists under way and charts open or awaited, together

ASSUME PanelAssumption ==
  /\ NoServer \notin Servers
  /\ Agents \subseteq Servers
  /\ Hideable \subseteq Servers
  /\ Window \in Nat \ {0}
  /\ LiveKeep \in Nat \ {0}
  /\ Start \in Nat /\ Start >= Window
  /\ MaxTime \in Nat
  /\ MaxReports \in Nat
  /\ MaxLists \in Nat
  /\ MaxAsked \in Nat
  /\ MaxPending \in Nat

VARIABLES
  now,          \* the panel's clock
  listed,       \* servers in the table that are not hidden
  latest,       \* Hub.latest and Hub.lastSeen, or Unseen
  log,          \* history variable: the server of each update published
  front,        \* the front page the browser loaded
  up,           \* is /ws connected?
  pos,          \* the last update that came over /ws or was missed
  servers,      \* servers: what the page shows
  lists,        \* the calls of loadAll under way
  detail,       \* detailUuid
  asked,        \* unanswered requests for the history of a server
  history,      \* whose history detailHistory is
  live,         \* liveRecent
  poll          \* the request on the socket of a Komari theme

hub    == <<now, listed, latest, log>>
socket == <<up, pos>>
charts == <<detail, asked, history, live>>
vars   == <<hub, front, socket, servers, lists, charts, poll>>

Slots  == 1..MaxLists
Card   == [report : 0..MaxReports, online : BOOLEAN]
Pages  == UNION {[S -> Card] : S \in SUBSET Servers}
Call   == [step : {"idle", "read", "answered"}, page : Pages]
Idle   == [step |-> "idle", page |-> << >>]
NoPoll == [step |-> "idle", online |-> {}, data |-> {}]

\* No report since the panel started: the zero values of the hub's maps.
Unseen == [report |-> 0, at |-> 0]

Online(u) == now - latest[u].at < Window

CardOf(u) == [report |-> latest[u].report, online |-> Online(u)]

\* The lists and the charts under way
Busy   == {i \in Slots : lists[i].step # "idle"}
Charts == {u \in Servers : u = detail \/ asked[u] > 0}

\* Bound: may another list or chart begin? A first list always may.
Room == Cardinality(Busy) + Cardinality(Charts) < MaxPending

\* The socket: what is published on it are the updates of the log.
Socket == INSTANCE PageSocket WITH
            published <- Len(log), up <- up, pos <- pos

-----------------------------------------------------------------------------
(* The panel's server *)

\* Hub.Ingest, and its update is published.
Report(u) ==
  /\ u \in Agents
  /\ Len(log) < MaxReports
  /\ log' = Append(log, u)
  /\ latest' = [latest EXCEPT ![u] = [report |-> Len(log) + 1, at |-> now]]
  /\ Socket!Publish
  /\ UNCHANGED <<now, listed, front, servers, lists, charts, poll>>

\* A server is hidden, or is shown again. The hub keeps what it knows of it,
\* even of one that is deleted: to the page that is one never shown again.
ToggleListed(u) ==
  /\ u \in Hideable
  /\ listed' = IF u \in listed THEN listed \ {u} ELSE listed \cup {u}
  /\ UNCHANGED <<now, latest, log, front, socket, servers, lists, charts, poll>>

Tick ==
  /\ now < MaxTime
  /\ now' = now + 1
  /\ UNCHANGED <<listed, latest, log, front, socket, servers, lists, charts, poll>>

\* The hub's maps and its queue of updates are lost, and so are the requests
\* being handled. The charts' requests see a network error, see HistoryFails.
Restart ==
  /\ latest' = [u \in Servers |-> Unseen]
  /\ UNCHANGED <<now, listed, log, front, servers, charts>>
  /\ Socket!Drop
  /\ pos' = Len(log)
  /\ lists' = [i \in Slots |->
                 IF lists[i].step = "answered" THEN lists[i] ELSE Idle]
  /\ poll' = NoPoll

-----------------------------------------------------------------------------
(* loadAll: when the page is opened and every minute. It asks for the site *)
(* first; nothing happens between its asking and ReadRows.                 *)

\* Seeded bug: no setInterval, so the list is only asked for at the start.
ReadRowsOnce(i) ==
  /\ front = "panel"
  /\ servers = << >> /\ lists[i].step = "idle" /\ (Busy = {} \/ Room)
  /\ lists' = [lists EXCEPT ![i] =
       [step |-> "read",
        page |-> [u \in listed |-> [report |-> 0, online |-> FALSE]]]]
  /\ UNCHANGED <<hub, front, socket, servers, charts, poll>>

\* handlePublicServers reads the table,
ReadRows(i) ==
  /\ front = "panel"
  /\ lists[i].step = "idle" /\ (Busy = {} \/ Room)
  /\ lists' = [lists EXCEPT ![i] =
       [step |-> "read",
        page |-> [u \in listed |-> [report |-> 0, online |-> FALSE]]]]
  /\ UNCHANGED <<hub, front, socket, servers, charts, poll>>

\* and then Hub.Augment fills in what is known of each server.
Augment(i) ==
  /\ lists[i].step = "read"
  /\ lists' = [lists EXCEPT ![i] =
       [step |-> "answered", page |-> [u \in DOMAIN lists[i].page |-> CardOf(u)]]]
  /\ UNCHANGED <<hub, front, socket, servers, charts, poll>>

\* The page is replaced as a whole.
ListArrives(i) ==
  /\ lists[i].step = "answered"
  /\ servers' = lists[i].page
  /\ lists' = [lists EXCEPT ![i] = Idle]
  /\ UNCHANGED <<hub, front, socket, charts, poll>>

ListFails(i) ==
  /\ lists[i].step # "idle"
  /\ lists' = [lists EXCEPT ![i] = Idle]
  /\ UNCHANGED <<hub, front, socket, servers, charts, poll>>

-----------------------------------------------------------------------------
(* /ws: connectWS and onLive *)

\* connectWS
Connect ==
  /\ front = "panel"
  /\ UNCHANGED <<hub, front, servers, lists, charts, poll>>
  /\ Socket!Open

\* onclose; the page connects again after a delay.
Disconnect ==
  /\ up
  /\ UNCHANGED <<hub, front, servers, lists, charts, poll>>
  /\ Socket!Drop

\* Seeded bug: a chart keeps every live sample.
PushedUnbounded(u, n) == Append(live[u], n)

\* pushDetailLive: a sample enters, the oldest leaves when there are too many.
Pushed(u, n) ==
  LET kept == Append(live[u], n)
  IN IF Len(kept) > LiveKeep THEN Tail(kept) ELSE kept

\* Seeded bug: an update changes the card of the server whose charts are open.
OnLiveInDetail(n) ==
  /\ up
  /\ pos' = n
  /\ LET u == IF detail = NoServer THEN log[n] ELSE detail IN
       servers' = IF u \in DOMAIN servers
                  THEN [servers EXCEPT ![u] = [report |-> n, online |-> TRUE]]
                  ELSE servers
  /\ UNCHANGED <<hub, front, up, lists, charts, poll>>

\* Seeded bug: any server's update goes into the charts that are open.
OnLiveAnyChart(n) ==
  /\ up
  /\ pos' = n
  /\ LET u == log[n] IN
       IF u \in DOMAIN servers
       THEN /\ servers' = [servers EXCEPT ![u] = [report |-> n, online |-> TRUE]]
            /\ live' = IF detail # NoServer
                       THEN [live EXCEPT ![detail] = Pushed(detail, n)] ELSE live
       ELSE UNCHANGED <<servers, live>>
  /\ UNCHANGED <<hub, front, up, lists, detail, asked, history, poll>>

\* Update n comes. Only a server on the page has its card changed.
OnLive(n) ==
  /\ UNCHANGED <<hub, front, lists, detail, asked, history, poll>>
  /\ Socket!Get
  /\ pos' = n
  /\ LET u == log[n] IN
       IF u \in DOMAIN servers
       THEN /\ servers' = [servers EXCEPT ![u] = [report |-> n, online |-> TRUE]]
            /\ live' = IF detail = u THEN [live EXCEPT ![u] = Pushed(u, n)]
                       ELSE live
       ELSE UNCHANGED <<servers, live>>

-----------------------------------------------------------------------------
(* The charts of one server: openDetail and closeDetail *)

\* The card of a server is clicked; its history is asked for. The history of
\* the server opened before is still in detailHistory.
OpenDetail(u) ==
  /\ detail = NoServer
  /\ u \in DOMAIN servers
  /\ asked[u] < MaxAsked /\ Room
  /\ detail' = u
  /\ asked' = [asked EXCEPT ![u] = @ + 1]
  /\ UNCHANGED <<hub, front, socket, servers, lists, history, live, poll>>

CloseDetail ==
  /\ detail # NoServer
  /\ detail' = NoServer
  /\ UNCHANGED <<hub, front, socket, servers, lists, asked, history, live, poll>>

\* The answer of a request, whichever server is open by now.
HistoryArrives(u) ==
  /\ asked[u] > 0
  /\ asked' = [asked EXCEPT ![u] = @ - 1]
  /\ history' = u
  /\ live' = [live EXCEPT ![u] = << >>]
  /\ UNCHANGED <<hub, front, socket, servers, lists, detail, poll>>

\* Seeded bug: an error leaves detailHistory as it was.
HistoryFailsSilently(u) ==
  /\ asked[u] > 0
  /\ asked' = [asked EXCEPT ![u] = @ - 1]
  /\ live' = [live EXCEPT ![u] = << >>]
  /\ UNCHANGED <<hub, front, socket, servers, lists, detail, history, poll>>

HistoryFails(u) ==
  /\ asked[u] > 0
  /\ asked' = [asked EXCEPT ![u] = @ - 1]
  /\ history' = NoServer
  /\ live' = [live EXCEPT ![u] = << >>]
  /\ UNCHANGED <<hub, front, socket, servers, lists, detail, poll>>

-----------------------------------------------------------------------------
(* The socket of a Komari theme: "get", answered from two reads of the hub *)

\* Seeded bug: the reports of those read as online, with who is online by now.
PollOnlineLast ==
  /\ poll.step = "read"
  /\ poll' = [step |-> "answered", online |-> {u \in Servers : Online(u)},
              data |-> poll.online]
  /\ UNCHANGED <<hub, front, socket, servers, lists, charts>>

\* Hub.OnlineUUIDs. A request that follows an answer replaces it.
PollOnline ==
  /\ front = "komari"
  /\ poll.step # "read"
  /\ poll' = [step |-> "read", online |-> {u \in Servers : Online(u)}, data |-> {}]
  /\ UNCHANGED <<hub, front, socket, servers, lists, charts>>

\* Hub.LatestAll: the servers it has a report of.
PollLatest ==
  /\ poll.step = "read"
  /\ poll' = [poll EXCEPT !.step = "answered",
                          !.data = {u \in Servers : latest[u] # Unseen}]
  /\ UNCHANGED <<hub, front, socket, servers, lists, charts>>

-----------------------------------------------------------------------------
Init ==
  /\ now = Start
  /\ listed = Servers
  /\ latest = [u \in Servers |-> Unseen]
  /\ log = << >>
  /\ front \in {"panel", "komari"}
  /\ up = FALSE
  /\ pos = 0
  /\ servers = << >>
  /\ lists = [i \in Slots |-> Idle]
  /\ detail = NoServer
  /\ asked = [u \in Servers |-> 0]
  /\ history = NoServer
  /\ live = [u \in Servers |-> << >>]
  /\ poll = NoPoll

LoadAll(i) == ReadRows(i) \/ Augment(i) \/ ListArrives(i) \/ ListFails(i)

HistoryAnswer(u) == HistoryArrives(u) \/ HistoryFails(u)

Next ==
  \/ \E u \in Servers : \/ Report(u) \/ ToggleListed(u)
                         \/ OpenDetail(u) \/ HistoryAnswer(u)
  \/ Tick \/ Restart
  \/ \E i \in Slots : LoadAll(i)
  \/ Connect \/ Disconnect
  \/ \E n \in (pos + 1)..Len(log) : OnLive(n)
  \/ CloseDetail
  \/ PollOnline \/ PollLatest

Spec == Init /\ [][Next]_vars

\* The page's timer goes on, and what is asked for is answered or fails. Live
\* updates may all be missed.
FairSpec ==
  /\ Spec
  /\ WF_vars(\E i \in Slots : ReadRows(i))
  /\ \A i \in Slots : WF_vars(Augment(i)) /\ WF_vars(ListArrives(i))
  /\ \A u \in Servers : WF_vars(HistoryAnswer(u))

-----------------------------------------------------------------------------
(* Properties *)

\* Types; a chart never holds more than LiveKeep live samples, and the page
\* has cards for servers only.
TypeOK ==
  /\ now \in Nat /\ now >= Start
  /\ listed \subseteq Servers
  /\ latest \in [Servers -> [report : 0..MaxReports, at : Nat]]
  /\ log \in Seq(Servers) /\ Len(log) <= MaxReports
  /\ front \in {"panel", "komari"}
  /\ up \in BOOLEAN
  /\ pos \in 0..Len(log)
  /\ servers \in Pages
  /\ lists \in [Slots -> Call]
  /\ detail \in Servers \cup {NoServer}
  /\ asked \in [Servers -> 0..MaxAsked]
  /\ history \in Servers \cup {NoServer}
  /\ \A u \in Servers : Len(live[u]) <= LiveKeep
  /\ live \in [Servers -> Seq(1..MaxReports)]
  /\ poll \in [step : {"idle", "read", "answered"},
               online : SUBSET Servers, data : SUBSET Servers]

\* The live samples in a server's chart are reports of that server, in the
\* order they were published and none twice, and none of them is still to come
\* over the connection: over connections lost and made again, and over charts
\* closed and opened again while their history is awaited.
LiveInOrder ==
  \A u \in Servers :
    /\ \A k \in 1..Len(live[u]) :
         /\ live[u][k] <= Len(log) /\ log[live[u][k]] = u
         /\ live[u][k] <= pos
    /\ \A j, k \in 1..Len(live[u]) : j < k => live[u][j] < live[u][k]

\* A card shows a report of its own server, or none, and one that says online
\* shows a report: whatever lists, live updates of any server, and restarts of
\* the panel come in between (Hub.Augment, loadAll and onLive).
CardsTrue ==
  \A u \in DOMAIN servers :
    /\ servers[u].report # 0 =>
         servers[u].report <= Len(log) /\ log[servers[u].report] = u
    /\ servers[u].online => servers[u].report # 0

\* Whatever is reported between the two reads of the hub, a Komari theme is
\* never told that a server is online without being told its report.
OnlineHasReport == poll.step = "answered" => poll.online \subseteq poll.data

\* What is shown of a server is true of it, on the page's cards and in what a
\* Komari theme is told (onLive, loadAll and the queries of the hub).
ShownTrue == CardsTrue /\ OnlineHasReport

Disturbance ==
  \/ Restart
  \/ \E u \in Servers : Report(u) \/ ToggleListed(u)
  \/ \E i \in Slots : ListFails(i)

PageAgrees == servers = [u \in listed |-> CardOf(u)]

\* Lists that overtake each other, late live updates and a dead socket may
\* leave an old page: once the panel is left alone the page comes to show its
\* servers, their last reports and who is online, and shows nothing else
\* (loadAll, which replaces the page every minute, and onLive).
PageSettles ==
  front = "panel" /\ <>[][~Disturbance]_vars => <>[]PageAgrees

\* Charts are open, and show the history of another server.
ShowsAnother == detail # NoServer /\ history \notin {detail, NoServer}

\* A server whose charts are opened when no other server's history is awaited
\* comes to show its own history or none, unless it is closed before. With
\* another's history awaited it need not: its answer may come last.
ChartsComeRight ==
  (/\ ShowsAnother
   /\ asked[detail] > 0
   /\ \A v \in Servers \ {detail} : asked[v] = 0) ~> ~ShowsAnother
=============================================================================
