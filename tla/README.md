# Verification of Meerkat Monitor

TLA+ modules of the concurrent core of the Meerkat panel, model-checked with
TLC and, for their safety, proved with TLAPS. Lines such as `hub.go:107` are of
`src/internal/server/` unless a path says otherwise. `PROJECT.json` maps every
definition to the lines it stands for.

## 1. The system

An **agent** on every monitored host collects a report every few seconds and
posts it to the **panel**, one Go process with a SQLite file behind one
connection. The panel keeps the live view in memory (the **hub**), one averaged
row per server and minute in the database (the **store**), pushes live updates to
browsers over WebSockets, and a **notifier** goroutine looks every minute for
something to alert about. Administrators create, edit and delete servers,
alert rules and settings at any time over HTTP.

| Component | State | Operations | What makes it correct |
|---|---|---|---|
| Agent loop (`agent/agent.go`) | its token; one report at a time | collect, post, wait up to a timeout, on to the next | at most one report unanswered |
| Report handler (`api.go:88`) | locals of a goroutine per request | check token, traffic baseline, read clock, `Hub.Ingest` | what was acknowledged is accounted for |
| Hub, live view and ring (`hub.go:92`) | `latest`, `lastSeen`, `recent`, `seq` under `Hub.mu` | Ingest, Online, Latest, Recent, Augment | pure averages, none counted twice, live view agrees with itself |
| Hub, broadcast (`hub.go:69`, `394`-`442`) | `clients`, owned by one goroutine; channels `addCh`, `delCh`, `bcCh`, `send` | register, unregister, distribute; reader and writer per connection | no send on a closed channel, order kept, every goroutine ends |
| Store (`store.go`) | tables `servers`, `stats_minute`, `load_rules`, `settings`, `admins`, under `Store.mu` | one SQL statement each, `DeleteServer` three | deletion is final, one row per minute, marks are true |
| Traffic accounting (`store.go:431`, `notify.go:262`) | month's baseline in `servers` | set on the first report of a month; usage is latest minus baseline | usage is what passed since |
| Notifier (`notify.go`) | marks in the database, `trafficNotifyState` in memory | rounds of offline, load, expiry and traffic checks | alerts come, and do not repeat |
| Sessions (`api.go:25`-`55`) | map of tokens with expiry under a mutex | create, valid, destroy | no use after expiry |
| Themes (`theme.go`) | directories; the active theme's name in `settings` | install, select, delete, serve | what is offered is whole, the front page is found |
| Dashboard, public and Komari queries | none | read and convert | the ranking is of the right servers |
| Frontends (`web_dist/assets/*.js`) | list of servers, open detail view | load, patch by live update, open | what is shown belongs to what is named |
| Start, routing, shutdown (`server.go`, `src/main.go`) | none | what survives a stop is what is in SQLite | |

**How they interact.** A handler runs in its own goroutine and takes `Store.mu`
and `Hub.mu` one after the other, except that a flush takes `Store.mu` while it
holds `Hub.mu`. It hands updates to the hub's goroutine through `bcCh` after
releasing `Hub.mu`. The notifier reads the store and the hub and writes marks
to the store. Administrators only write to the store: the hub is not told of a
deletion.

**What is hard.** An agent that times out leaves a handler behind, so a server
has several handlers that overtake each other between the token check, the clock
reading and `Hub.mu`. Deletion is three statements without a transaction. A
flush that fails, and a stop, lose up to a minute. Channels are bounded, with a
drop on one side and a block on the other. Arrival and departure of one
connection are taken in any order. A Send lasts seconds, and everything may be
edited between what a round read and the mark it writes. Counters of hosts start
anew at a reboot, and the month turns between two steps of a handler.

## 2. Modules

| Module | Models |
|---|---|
| `ReportPipeline` | agents, report handlers, `Hub.Ingest` with its ring, `stats_minute`, create/reset/delete, pruning, clock steps, restart |
| `MinuteHistory` | abstract: what the panel promises about a server's history |
| `ReportPipeline_proofs` | nine theorems about it, the refinement of `MinuteHistory` among them |
| `LossyFeed` | abstract: what a browser is promised about the updates it is shown |
| `Broadcast` | the tail of `Hub.Ingest`, `Hub.run`, `ServeWS`, `wsReader`, `wsWriter` and the channels between them; implements `LossyFeed` |
| `Broadcast_proofs` | five theorems, the refinement among them |
| `Traffic` | the month's baseline, usage, quota alerts, reboots, failed writes, restart |
| `Traffic_proofs` | four theorems about it |
| `Alerts` | the notifier's offline, load and expiry checks, their marks, edits meanwhile, crash |
| `Alerts_proofs` | four theorems about it |
| `PageSocket` | abstract: what the panel's page is promised about live updates, over all its connections |
| `Reconnects` | `Broadcast` with a page that connects again whenever it is disconnected; implements `PageSocket` |
| `Reconnects_proofs` | that it does |
| `Panel` | what browsers are told: the page's list, its live updates and charts, and a Komari theme's socket; its socket is `PageSocket`'s |
| `Panel_proofs` | five theorems about it |
| `Themes` | installing, choosing and deleting a theme, and the front page served meanwhile |
| `Themes_proofs` | four theorems about it |
| `MC*` | the module named after it with TLC's symmetry sets, for its configurations |

### ReportPipeline

A request is a record with a stage: `Authenticate` (token looked up), `Stamp`
(`time.Now()` read), `Ingest` (all of `Hub.Ingest` and the reply, under
`Hub.mu`). Handlers interleave between these. The averages of a minute are
represented by the set of samples they are taken over, which is what tells a
wrong average from a right one. `DeleteServer` is two steps under `Store.mu`
(`deleting`), and each may fail. History variables: `accepted` and `dropped`;
a sample is dropped only by a recorded cause (restart, failed flush, deletion,
age). The clock can be set back. `HistorySpec` says that the ring and `stats_minute`
implement `MinuteHistory`, with the ring's minute as `open` and the rows as `minutes`:
a minute is closed whole or lost, only a later one opens, a closed one is never
touched again. Bounds: `MaxTime`, `MaxSamples`, `MaxTokens`,
`MaxInFlight`.

### Broadcast

A handler leaves `Hub.mu` with an update in `pending` (`Ingest`) and offers it to `bcCh`
later (`Publish`, `PublishDropped`), so updates of overlapping handlers may enter in the
other order (`entered`). An agent in `Impatient` may time out and have several updates
pending. A connection is two program counters, a channel, and two ends that may fail.
The read and the ping of a connection in `Flaky` may also fail while both ends are there
(a message over the limit, a late pong, a write deadline); of every connection they must
fail in the end when an end is gone or nobody pings any more (`ReadDue`, `WriteDue`).
The capacities are constants. `FeedSpec` says that all of this implements `LossyFeed`,
with `Len(entered)` as `published`. Bound: `MaxIngested`.

### Traffic

A counter is the one the server's limit type selects. `MonthlyTrafficRecord` is three
steps: it takes the date, reads the row, and only then takes `Store.mu` to write a
baseline; handlers of one server overlap in between when its agent gives up on a
post. History variables remember how much had really passed and how often the host
had rebooted at every reading (`passed`, `at`, `boots`, `boot`), so that "usage" can
be compared with the truth, whether a handler was overtaken (`met`), and the last
alert of each server. Bounds: `MaxMonth`, `MaxPassed`, `MaxBoots`.

Two handlers that overlap do move a baseline twice: both find the old month and
both write. `ResetOnce` therefore does not say that a baseline is final; it says that
a second move in a month, or one back to an earlier month, is always the write of a
handler that another one overtook after it had taken the date.

### Alerts

Every check reads what the code reads once at its start, then sends and marks in
separate steps. Of a minute's row only matters whether it is over the threshold;
all rules share one threshold, metric and ratio; every server has its offline
alert switched on. `LoadRule` ids come from AUTOINCREMENT; a PUT checks nothing, so
`interval_min` may become 0. `lost` remembers the alerts whose mark was
not stored or, of the expiry alert, could not be read (`notify.go:201` drops the
error, so that no day is as good as any other): these are the ones that may repeat. A
Send that the channel refuses counts as an alert, for the code marks it all the same.
`dbError` covers the reads of `checkExpiry` as well. Bounds: `MaxTime`, `Ids`, `MaxRules`
(rows of `load_rules` at once).

### Panel

The page as `app.js` keeps it (`servers`, `detailUuid`, `detailHistory`, `liveRecent`)
with its requests on their way: a list is read from the table (`ReadRows`), filled in
from the hub (`Augment`) and replaces the page when it arrives, in any order with live
updates and other lists; a history may arrive when another server is open, or
fail. `/ws` is taken as what `PageSocket` says of it: `up` is whether the page is
connected, `pos` the last update it got or will not get any more, and `OnLive`
takes any later one: the steps of the socket are `PageSocket`'s own actions. A card
is the number of the report it shows and a flag. A site that uses a Komari theme has
that as its front page instead (`front`), and its request is two reads of the hub
(`PollOnline`, `PollLatest`). Reports are published in the order
they are ingested, as they are for agents that await their answers. Bounds:
`MaxTime`, `MaxReports`, `MaxLists`, `MaxAsked`, and `MaxPending` for lists and charts
together.

### Reconnects and PageSocket

`LossyFeed` is about one connection. To the hub the page's next connection is one
more client, and it may not have noticed the end of the last one, and go on
sending to both. `Reconnects` is `Broadcast` where some of the clients are the
connections of one page (`Page`), which makes one only when it has none
(`connectWS`, called at the start and by `onclose`). `PageServed` says that this
implements `PageSocket`, with `Len(entered)` as `published`, `Connected` as `up` and
the last update that came over any connection as `pos`. The connections are numbered
in the order the page makes them.

`Panel` is written against `PageSocket`'s actions, so that what it assumes of its
socket can be read there, and `Reconnects` shows that the hub with its channels and
goroutines behaves so. Two things are between them and argued here only: `Panel`
publishes an update in the step that ingests it (true of agents that await their
answers), and its `Restart` begins a new hub, where `Reconnects` has one.

### Themes

The admin requests of `theme.go` and `api.go:708`-`780` take no lock, so every
read and every change of the file system or of the setting `active_theme` is a
step. `os.RemoveAll` takes one entry at a time, folders last; `copyDir` is
`filepath.Walk`'s order (`dist/` before `komari-theme.json`), a file in two steps, for
it is truncated before it is written. An entry remembers which package it is from,
which tells a half copied theme from a whole one. A package counts from the point
where it is accepted: unpacking into a temporary directory and refusing touch
nothing others see. `"asset"` stands for the files next to `index.html`; paths
under `/assets/` never reach a theme (`server.go:144`).

The history variables say what the code leaves open: `torn` (a removal under way or
cut short), `exposed` (an install met another install or a delete on the theme, which
nothing keeps apart) and `met` (which requests did). `ListedWhole` holds outside
these. `InstallHeals` says how a theme leaves them: by an install that is answered with
success and met nobody, whatever was there before.

No property says that the theme in use is there, for the code does not keep it:
`DeleteTheme` reads the setting, and the theme may be chosen between that read and
the removal (`api.go:751`), or the read may fail and count as the built-in page
(`store.go:710`), although `theme.go:191` says that an active theme cannot be deleted.
What holds is that the front page is then found all the same (`FrontPageFound`).
Bound: `MaxPackages`.

### Seeded bugs

Definitions under a comment "Seeded bug" take no part in a specification. Each
is a plausible wrong version of the definition below it, and each property
fails when one of them takes that definition's place; `PROJECT.json` ("mutants")
says which.

## 3. What TLC checks

| Run | Properties | Shows |
|---|---|---|
| `pipeline_serial` | TypeOK, NothingLost, LiveViewAgrees, NeverOverwritten, HistorySpec | an agent that waits for its answers, with failing writes, deletions, resets, pruning and restarts: stored exactly once or lost for a recorded cause, as `MinuteHistory` promises |
| `pipeline_overlap` | MinutesPure, CountedOnce, RevokedIsSilent, LossIsReplacement, ReportsSettle | all faults, overtaking handlers and a clock set back among them: averages stay pure, a deleted server falls silent, a stored report goes missing only with a recorded cause or when its minute is written again, and no order of `Hub.mu` and `Store.mu` blocks an agent for good |
| `pipeline_orphan` | DeletedHistoryGone, **violated** | a handler authenticated before a deletion writes a row after it |
| `broadcast` | TypeOK, NoSendOnClosed, ServedWhileRead, NewestLast, FeedSpec, PageServed, JoinsServed, LeaversRemoved, ConnectionsEnd | a page that connects again, also when a deadline closed its connection, while the hub may still have the old one, and two servers, one of them impatient: no connection is lost or closed too early; updates come in order, none twice over all connections, the newest of the patient server last; those that arrive are served, those that leave are removed, and no goroutine stays |
| `traffic_faults` | TypeOK, UsageBounded, ResetOnce, NoNagging | two handlers of one server at once, a month's change, a reboot, restarts and failed writes: usage is never invented, a baseline is moved again only by a handler that was overtaken, alerts only rise |
| `traffic_reboot` | UsageComplete, **violated** | traffic before a reboot is lost from the usage |
| `traffic_missed` | QuotaAlerted, **violated** | a level last month ended with is not alerted about this month |
| `alerts` | TypeOK, MarksTrue, RuleSpaced, ExpiryOncePerDay, RoundsEnd, HotRuleAlerted | over edits, midnight, a channel that refuses, failed marks and crashes: marks are true, a rule's alerts spaced, one expiry alert a day but for marks lost or unread, rounds end, and a server that stays hot is alerted about once crashes stop |
| `alerts_all_servers` | AllServersRuleAlerted, **violated** | a rule for "all servers" never fires |
| `alerts_offline` | OfflineAlerted, **violated** | the offline alert never fires: `LastSeen` of a row is never assigned |
| `themes` | TypeOK, ListedWhole, InstallHeals, FrontPageFound | two admin requests on one theme in every order of their steps, failing disk and settings, crashes, and a browser: themes on offer are whole, an install that met nobody mends what others left, the front page is found even when the theme in use is not |
| `panel` | TypeOK, LiveInOrder, ShownTrue, PageSettles, ChartsComeRight | two lists, live updates and histories overtake each other, the socket drops, a server is hidden, the panel restarts: charts hold their own server's samples and come right, every card is its own server's, the page settles on what the hub knows, a theme gets a report with every server online |

**Why the bounds are enough.** A minute of two ticks and a clock of four to seven let a
report fall into the same minute, the next and one after a gap; two handlers are what it
takes to overtake; four samples fill a ring, flush it and start the next twice.
`RecentKeep = 2` makes the buffer drop. Channels of capacity 1 with two clients are full
and empty in every combination, and two updates suffice for one to be lost behind the
other. Both clients of `broadcast` are connections of one page: the hub has both at
once, and one has a full channel while the other has room, as with two browsers, but at
most one browser is there at a time; two that are is left to the proofs of the safety,
which are for any clients and any pages among them. The first connection is `Flaky`, the
second is not. `traffic_faults` has two handlers, two months, one reboot, two units of
traffic and one limit: a baseline taken before and after the reboot, by the handler that
was first and by the one that was overtaken, and a level that rises; a third unit, and a
second limit, are in `traffic_reboot` and `traffic_missed` with one handler (`Limits =
{0, 1, 2}`). Two rule ids let one be deleted and another created while an alert is on
its way. `alerts` starts at minute 3 of days of two minutes: midnight is between its two
minutes. One server is enough for `ReportPipeline`: servers meet only at `Store.mu` and
in `MaxInFlight`. One theme is enough for `Themes`: no step reads another theme than its
own; two requests are what it takes to meet, and two packages what it takes to mix them;
`FrontPageFound` exempts requests for other files, which the run leaves out (`Paths`)
and the proofs cover. `panel` has one server that reports twice, is hidden and shown
again, and one whose agent is not installed, to open other charts; a second of a window
of one makes a server silent. Two lists may be under way, and the older may arrive last
(a request of more than a minute); of lists and charts two are under way at a time
(`MaxPending`). A chart keeps one live sample (`LiveKeep`), so that two reports fill it
and overflow it; that several samples of one chart stay in order is `ChartsInOrder`'s
proof, and the run shows that they are the chart's own. `alerts` asks for a ratio of
1/1, the boundary; others are not run. The proofs remove the bounds of every component.

**Where a system may stop.** Deadlock is not checked in `broadcast`: once all
updates are published and all connections are over nothing is left to do.

**Fairness.** `ReportPipeline` and `Broadcast`: every goroutine that can go on
does (the Go scheduler preempts, and a mutex is handed to a starving waiter
within a millisecond), and a `select` that runs again and again takes a case that
stays ready, for it picks at random; a read or ping of a connection that works need
not fail. `Alerts`: the ticker fires again, and a Send
ends by the client's timeout. `Panel`: the page's timer fires again, the server
handles what it was asked, and a request is answered or fails; a live update may be
missed. Nothing is assumed of agents, browsers,
administrators, clocks, or failures, and where an outcome may be a success or a
failure, fairness is of the two together.

## 4. What TLAPS proves

For every value of the constants that satisfies the module's assumption
(`PipelineAssumption`, `BroadcastAssumption`, `ReconnectsAssumption`,
`TrafficAssumption`, `AlertsAssumption`, `PanelAssumption`, `ThemesAssumption`).

| Theorem | Says |
|---|---|
| `ReportPipeline_proofs!TypeCorrect` | `[]TypeOK` |
| `PureAverages`, `NoDoubleCount` | `[]MinutesPure`, `[]CountedOnce` with every fault |
| `DeletedFallsSilent` | `RevokedIsSilent` with every fault |
| `LostByReplacement` | `LossIsReplacement` with every fault |
| `MinutesAreFinal`, `NoSilentLoss` | `NeverOverwritten`, `[]NothingLost` where `Orderly` |
| `ImplementsHistory` | `HistorySpec` where `Orderly`: the ring and `stats_minute` implement `MinuteHistory` |
| `LiveViewIsRight` | `[]LiveViewAgrees` where `Orderly` |
| `Broadcast_proofs!TypeCorrect` | `[]TypeOK`, the capacities included |
| `HubNeverPanics`, `ReadersAreServed` | `[]NoSendOnClosed`, `[]ServedWhileRead` |
| `NewestShownLast` | `[]NewestLast` |
| `FeedImplemented` | `FeedSpec`: `Broadcast` implements `LossyFeed` |
| `Traffic_proofs!TypeCorrect` | `[]TypeOK` with any number of handlers |
| `UsageNeverInvented` | `[]UsageBounded` with any number of handlers and every fault |
| `BaselineMovesAgainOnlyIfOvertaken` | `ResetOnce` with any number of handlers and every fault |
| `NeverNagged` | `NoNagging` with any number of handlers and every fault |
| `Alerts_proofs!TypeCorrect` | `[]TypeOK` for any servers, rules and intervals, with every fault |
| `MarksAreTrue`, `AlertsAreSpaced`, `OneExpiryAlertADay` | `[]MarksTrue`, `RuleSpaced`, `ExpiryOncePerDay` |
| `Panel_proofs!TypeCorrect` | `[]TypeOK`: no chart outgrows `LiveKeep` |
| `ChartsInOrder`, `ThemesSeeReports` | `[]LiveInOrder`, `[]OnlineHasReport` for any number of requests at once |
| `CardsOwn`, `ShownIsTrue` | `[]CardsTrue`, and `[]ShownTrue`, which is both |
| `Reconnects_proofs!PageIsServed` | `PageServed`: the hub and the reconnecting page implement `PageSocket` |
| `Themes_proofs!TypeCorrect` | `[]TypeOK`: no entry on disk without its folder |
| `ListedThemesWhole`, `InstallMends` | `[]ListedWhole`, `InstallHeals` for any number of themes and requests, with every fault |
| `FrontPage` | `FrontPageFound` |

**Assumptions of their own.** `Orderly`: no agent times out and the clock is not set
back. It is needed: with `"agentTimeout"` among the faults of
`PipelineSerial.cfg`, TLC finds a handler that reaches `Hub.mu` a minute late, makes
the ring go back (`hub.go:107` compares with "other", not with "later"), and has
a stored minute replaced. There, too, `lastSeen` and the last report go back, so that a
server that reports may be shown offline until its next report (`hub.go:95`, ten
seconds after `agent.go:124`): `LiveViewAgrees` is about agents that wait. In the other
components a property that needs it says so itself (`Impatient`, `met`).

**The arguments.** *CountedOnce* is not inductive: it must be known that a handler's
report is in no average yet (`OnceInv`: sequence numbers of requests in flight
are unused and distinct). *NeverOverwritten* needs, under `Orderly`, that every stored
row is older than the ring and the ring not newer than the clock (`OrderInv`).
*HistorySpec* follows from the same invariant, step by step: every action of
`ReportPipeline` leaves each server's open minute and rows as one of the three
actions of `MinuteHistory` does. *LiveViewAgrees* needs that the live samples are
known and older than the request in flight (`LiveInv`). *LossIsReplacement* needs
nothing but `OnceInv`: a stored report is of the minute of its row, and the ring that
replaces the row is in no row yet.
*NoSendOnClosed* follows from: a closed channel's client has left the
reader's loop and its departure was taken, so it is not registered again.
*ServedWhileRead* needs that only connections read to their end wait in `delCh`
(`ServedInv`). The
refinement needs that what a client has been shown, is being written, and waits
in its channel and in `bcCh` is one increasing sequence (`FeedInv`). *NewestLast*
adds that a patient server has one update pending, newer than all of it that
entered (`OrderInv` of `Broadcast_proofs`). *PageServed* adds to `FeedInv` and `OpenInv`
that the page has one connection at a time and that what is under way over it is
later than what came over any (`PageInv`): the hub sends to a connection only what
is still in `bcCh` when it is registered, and all the page got came before that.
*RuleSpaced* needs that alerts are in the
past, that a rule found due is dealt with once in a round, and that its row's mark
is at least its last stored alert (`RuleInv`); *ExpiryOncePerDay* the same of the day's
setting (`DayInv`). *LiveInOrder* is inductive with the types: the connection has passed
every sample a chart holds. *CardsTrue* must hold of the hub and of the lists under
way as well (`CardInv`), and what was reported stays reported. *OnlineHasReport*
needs that between the two reads the hub keeps a report of every server found
online (`PollSeen`), for a restart ends the request. The two are *ShownTrue*.
*UsageBounded* needs that any two readings of a host's counter that are around
somewhere (in a row, in the hub, in a handler, at the host now) agree
(`ReadingsAgree`): one taken later within the same boot exceeds the other by exactly
the traffic in between, one taken after a reboot by at most that. What was read when,
and by which handler, then does not matter. *NoNagging* needs that the notifier's memory is
the level of the last alert and that level the one of its usage and limit
(`LevelInv`): a level is monotone in the usage, so another level with no less usage
is a higher one. *ResetOnce* needs that a handler about to write
which nobody overtook has taken a later month than the row's (`MonthInv`).
*ListedWhole* and *InstallHeals* share `ThemesInv`: an install that met nobody finds on
disk exactly what it has copied so far (`CopyInv`), for whoever else changes that
directory has met it (`MeetInv`); the manifest comes last, and with it in place the
copy is the package. *FrontPageFound* needs that a
request no removal disturbed finds the file it has just seen (`PageInv`).

**Only model-checked.** All liveness (`ReportsSettle`, `JoinsServed`,
`LeaversRemoved`, `ConnectionsEnd`, `RoundsEnd`, `HotRuleAlerted`, `PageSettles`,
`ChartsComeRight`), which is outside the prover's reach. Every safety property of a
passing run is a theorem.

## 5. Disagreements found

- A report in flight outlives `DeleteServer` in `stats_minute` (`pipeline_orphan`).
- Usage forgets the traffic before a reboot (`traffic_reboot`).
- The memory of quota levels is not cleared with the month (`traffic_missed`).
- Rules for all servers never fire (`alerts_all_servers`).
- Offline alerts never fire (`alerts_offline`).

Also met while modelling, without a run: a handler whose agent gave up on it sets
`lastSeen` and the last report back (`hub.go:95`); two such handlers move a month's
baseline twice (`store.go:435`); an expiry alert is repeated on the same day when its
mark cannot be read (`notify.go:201`); a departure taken before its arrival
(`hub.go:74`) leaves a dead client in `Hub.clients`, which is why `LeaversRemoved` is
about clients that were registered first; the charts of a server show another's history
when that was opened before and its answer comes last, and until its own answer comes
(`app.js:337`), which `ChartsComeRight` leaves open; the dashboard's rankings are not
cut to five (`api.go:911` cuts a copy of the slice); a minute flushed twice when
handlers overtake each other (above); a quota check between the write of a new baseline
and `Hub.Ingest` may pair them wrongly for one round (`api.go:143`). The theme in use
can be deleted, although `theme.go:191` says it cannot: when it is chosen between the
check and the removal, or when the setting cannot be read (`store.go:710` drops the
error). A crash during `os.RemoveAll` may leave a theme that is still offered without
its assets (`torn`). Assets a theme keeps in `dist/assets/` are looked for in the
built-in panel (`server.go:144`), and a preview in the root of its package is not found
(`server.go:133`).

## 6. Not modelled

Metric collection, the installer, HTML and CSS, drawing, Komari conversions,
formatting of messages, the login notification: pure input and output, no state of
their own. Site settings and descriptive columns are read and written whole; a
description an older handler writes last is put right by the next report
(`api.go:119`). The dashboard's sums and ranking are pure, and a table of cases
tests them. Sessions: `create`, `valid` and `destroy` are each one critical section of
one mutex and touch nothing else, so that properties would repeat them. The admin
frontend keeps no state the server does not send it.

## 7. Plan

Done, in the order of importance: `ReportPipeline` with theorems and its abstract
history; `LossyFeed` and `Broadcast`, the refinement proved, with the gap after
`Hub.mu`; `Traffic`; `Alerts`; `Themes`; `PageSocket` between `Reconnects` and `Panel`;
theorems for every safety property.

Left:

1. The safety that the liveness properties rest on, as invariants with proofs: for
   `HotRuleAlerted` that a due rule without an alert is still to be dealt with, for
   `PageSettles` that a page which differs has an answer or a timer to come.
2. An abstract specification of an alert (due, sent, marked) that the three checks
   of `Alerts` implement.
3. The agent's pace and stop: the interval of the server's reply.
4. `Panel` over `Reconnects` itself, with a restart of the panel in both, in place of
   `PageSocket` between them.
5. `ChartsComeRight` without its premise, once the page drops the answer of a server
   that is no longer open; `LeaversRemoved` likewise, once a departure cannot be
   taken before its arrival.
