------------------------------ MODULE Traffic -------------------------------
(***************************************************************************)
(* The monthly traffic of a server: the counter its host reports, the      *)
(* baseline MonthlyTrafficRecord keeps in table servers and resets when    *)
(* the month changes, the usage computed from baseline and latest report,  *)
(* and the notifier's round checkTraffic with its memory of levels.        *)
(*                                                                         *)
(* A counter is the one the server's traffic_limit_type counts: up, down   *)
(* or their sum. A report handler is four steps, as it is in               *)
(* handleAgentReport: it takes the date, it reads the row's month, it may  *)
(* write a baseline, and later it enters Hub.Ingest. The handlers of one   *)
(* server overlap when its agent gives up on a post and sends the next.    *)
(* Everything the notifier reads of table servers it reads once, at the    *)
(* start of a round.                                                       *)
(***************************************************************************)
EXTENDS Integers, FiniteSets

CONSTANTS
  Servers,      \* the uuids
  Handlers,     \* the handlers of one server's reports that may run at once
  Limits,       \* the values of traffic_limit; 0 is no limit
  TrafficPct,   \* NotifySettings.TrafficPct
  Faults,       \* which of AllFaults may happen
  MaxMonth,     \* bound: last month
  MaxPassed,    \* bound: traffic of one host
  MaxBoots      \* bound: reboots of one host

AllFaults ==
  {"reboot",    \* a host reboots and its counters start anew
   "dbError"}   \* an UPDATE of table servers fails

ASSUME TrafficAssumption ==
  /\ Limits \subseteq Nat
  /\ 0 \in Limits
  /\ TrafficPct \in Nat \ {0}
  /\ Faults \subseteq AllFaults
  /\ MaxMonth \in Nat \ {0}
  /\ MaxPassed \in Nat
  /\ MaxBoots \in Nat

VARIABLES
  month,        \* the month of time.Now().UTC(), from 1
  counter,      \* the counter of each host, since it booted
  passed,       \* history variable: all the traffic of each host
  boots,        \* history variable: how often each host has rebooted
  row,          \* of table servers: traffic_limit, monthly_base_*,
                \* monthly_reset (0 is ''); at and boot are history: passed
                \* and boots when the base was read
  latest,       \* Hub.latest: the total, with the same history
  handler,      \* the running handlers of handleAgentReport
  round,        \* the notifier's round: ListServers' result, who is left
  levels,       \* trafficNotifyState; NoLevel where the map has no entry
  alert         \* history variable: the last alert of each server

hosts  == <<counter, passed, boots>>
vars   == <<month, hosts, row, latest, handler, round, levels, alert>>

-----------------------------------------------------------------------------
(* Data *)

\* Field met of a handler is history: another handler of the server has written
\* the baseline since this one took the date.
HandlerPcs == {"idle", "recording", "dated", "writing", "ingesting"}
Idle     == [pc |-> "idle", total |-> 0, at |-> 0, boot |-> 0, month |-> 0,
             met |-> FALSE]
NoReport == [known |-> FALSE, total |-> 0, at |-> 0, boot |-> 0]
NoLevel  == -1
NoAlert  == [month |-> 0, base |-> 0, limit |-> 0, level |-> NoLevel,
             used |-> 0, turn |-> FALSE]

RowType     == [limit : Limits, base : Nat, month : Nat, at : Nat, boot : Nat]
LatestType  == [known : BOOLEAN, total : Nat, at : Nat, boot : Nat]
HandlerType == [pc : HandlerPcs, total : Nat, at : Nat, boot : Nat, month : Nat,
                met : BOOLEAN]
LevelType   == Nat \cup {NoLevel}
AlertType   == [month : Nat, base : Nat, limit : Limits, level : LevelType,
                used : Nat, turn : BOOLEAN]

\* What is left of a when b is taken away, never less than nothing.
Minus(a, b) == IF a > b THEN a - b ELSE 0

\* Seeded bug: the subtraction of unsigned numbers wraps around (of 16 bits here).
UsedWraps(r, total) == (total - r.base) % 65536

\* monthlyTrafficUsed
Used(r, total) == Minus(total, r.base)

\* fillTraffic: the usage the panel shows of a server that has reported
Shown(s) == Used(row[s], latest[s].total)

\* used * 100 / limit, in integers
Percent(r, total) == (Used(r, total) * 100) \div r.limit

-----------------------------------------------------------------------------
(* The hosts and the calendar *)

Transfer(s) ==
  /\ passed[s] < MaxPassed
  /\ counter' = [counter EXCEPT ![s] = @ + 1]
  /\ passed' = [passed EXCEPT ![s] = @ + 1]
  /\ UNCHANGED <<month, boots, row, latest, handler, round, levels, alert>>

Reboot(s) ==
  /\ "reboot" \in Faults
  /\ boots[s] < MaxBoots
  /\ counter[s] > 0
  /\ counter' = [counter EXCEPT ![s] = 0]
  /\ boots' = [boots EXCEPT ![s] = @ + 1]
  /\ UNCHANGED <<month, passed, row, latest, handler, round, levels, alert>>

NextMonth ==
  /\ month < MaxMonth
  /\ month' = month + 1
  /\ UNCHANGED <<hosts, row, latest, handler, round, levels, alert>>

-----------------------------------------------------------------------------
(* handleAgentReport *)

\* The agent posts a report; its token is good.
Report(s, h) ==
  /\ handler[s][h].pc = "idle"
  /\ handler' = [handler EXCEPT ![s][h] =
       [Idle EXCEPT !.pc = "recording", !.total = counter[s], !.at = passed[s],
                    !.boot = boots[s]]]
  /\ UNCHANGED <<month, hosts, row, latest, round, levels, alert>>

\* MonthlyTrafficRecord takes the date.
TakeDate(s, h) ==
  /\ handler[s][h].pc = "recording"
  /\ handler' = [handler EXCEPT ![s][h] =
       [@ EXCEPT !.pc = "dated", !.month = month]]
  /\ UNCHANGED <<month, hosts, row, latest, round, levels, alert>>

\* Seeded bug: every report writes the baseline.
ReadBaseForgetful(s, h) ==
  /\ handler[s][h].pc = "dated"
  /\ handler' = [handler EXCEPT ![s][h] = [@ EXCEPT !.pc = "writing"]]
  /\ UNCHANGED <<month, hosts, row, latest, round, levels, alert>>

\* A report of which MonthlyTrafficRecord has returned.
Recorded(x) == [x EXCEPT !.pc = "ingesting", !.month = 0, !.met = FALSE]

\* It reads the row: only one of another month needs a new baseline.
ReadBase(s, h) ==
  /\ handler[s][h].pc = "dated"
  /\ handler' = [handler EXCEPT ![s][h] =
       IF row[s].month = @.month THEN Recorded(@) ELSE [@ EXCEPT !.pc = "writing"]]
  /\ UNCHANGED <<month, hosts, row, latest, round, levels, alert>>

\* The handlers of s once h has written a baseline.
Overtaken(s, h) ==
  [g \in Handlers |->
     IF g = h THEN Recorded(handler[s][g])
     ELSE [handler[s][g] EXCEPT
             !.met = @ \/ handler[s][g].pc \in {"dated", "writing"}]]

\* Seeded bug: the traffic since the last baseline is written as the new one.
WriteBaseAsDelta(s, h) ==
  /\ handler[s][h].pc = "writing"
  /\ row' = [row EXCEPT ![s] = [@ EXCEPT !.base = handler[s][h].total - @,
                                         !.month = handler[s][h].month,
                                         !.at = handler[s][h].at,
                                         !.boot = handler[s][h].boot]]
  /\ handler' = [handler EXCEPT ![s] = Overtaken(s, h)]
  /\ UNCHANGED <<month, hosts, latest, round, levels, alert>>

\* Under Store.mu: this report is the new baseline, whatever the row says now.
WriteBase(s, h) ==
  /\ handler[s][h].pc = "writing"
  /\ row' = [row EXCEPT ![s] = [@ EXCEPT !.base = handler[s][h].total,
                                         !.month = handler[s][h].month,
                                         !.at = handler[s][h].at,
                                         !.boot = handler[s][h].boot]]
  /\ handler' = [handler EXCEPT ![s] = Overtaken(s, h)]
  /\ UNCHANGED <<month, hosts, latest, round, levels, alert>>

\* The SELECT or the UPDATE fails; the error is ignored.
RecordFails(s, h) ==
  /\ "dbError" \in Faults
  /\ handler[s][h].pc \in {"dated", "writing"}
  /\ handler' = [handler EXCEPT ![s][h] = Recorded(@)]
  /\ UNCHANGED <<month, hosts, row, latest, round, levels, alert>>

\* Hub.Ingest
Ingest(s, h) ==
  /\ handler[s][h].pc = "ingesting"
  /\ latest' = [latest EXCEPT ![s] =
       [known |-> TRUE, total |-> handler[s][h].total,
        at |-> handler[s][h].at, boot |-> handler[s][h].boot]]
  /\ handler' = [handler EXCEPT ![s][h] = Idle]
  /\ UNCHANGED <<month, hosts, row, round, levels, alert>>

Handle(s, h) ==
  \/ Report(s, h)
  \/ TakeDate(s, h)
  \/ ReadBase(s, h)
  \/ WriteBase(s, h)
  \/ RecordFails(s, h)
  \/ Ingest(s, h)

-----------------------------------------------------------------------------
(* checkTraffic *)

NoRound == [rows |-> [s \in Servers |-> [limit |-> 0, base |-> 0, month |-> 0,
                                         at |-> 0, boot |-> 0]],
            left |-> {}]

\* The round without s.
Visited(s) ==
  IF round.left = {s} THEN NoRound ELSE [round EXCEPT !.left = @ \ {s}]

\* ListServers; every server is visited once.
StartRound ==
  /\ round.left = {}
  /\ round' = [rows |-> row, left |-> Servers]
  /\ UNCHANGED <<month, hosts, row, latest, handler, levels, alert>>

\* Is s over the threshold, by its row of the round and its latest report?
OverThreshold(s) ==
  /\ round.rows[s].limit > 0
  /\ latest[s].known
  /\ Percent(round.rows[s], latest[s].total) >= TrafficPct

LevelOf(s) == Percent(round.rows[s], latest[s].total) \div 5

\* An alert about s, with its facts. That Send may fail changes nothing here.
AlertOf(s) ==
  [month |-> month,
   base  |-> round.rows[s].at,
   limit |-> round.rows[s].limit,
   level |-> LevelOf(s),
   used  |-> Used(round.rows[s], latest[s].total),
   turn  |-> ~alert[s].turn]

SkipServer(s) ==
  /\ s \in round.left
  /\ ~OverThreshold(s)
  /\ round' = Visited(s)
  /\ UNCHANGED <<month, hosts, row, latest, handler, levels, alert>>

\* Seeded bug: the memory keeps the first level of a server.
CheckServerKeepsFirst(s) ==
  /\ s \in round.left
  /\ OverThreshold(s)
  /\ round' = Visited(s)
  /\ levels' = [levels EXCEPT ![s] = IF @ # NoLevel THEN @ ELSE LevelOf(s)]
  /\ alert' = [alert EXCEPT ![s] = IF levels[s] = LevelOf(s) THEN @
                                   ELSE AlertOf(s)]
  /\ UNCHANGED <<month, hosts, row, latest, handler>>

\* An alert, unless the level is the one of the last check that was over.
CheckServer(s) ==
  /\ s \in round.left
  /\ OverThreshold(s)
  /\ round' = Visited(s)
  /\ levels' = [levels EXCEPT ![s] = LevelOf(s)]
  /\ alert' = [alert EXCEPT ![s] = IF levels[s] = LevelOf(s) THEN @
                                   ELSE AlertOf(s)]
  /\ UNCHANGED <<month, hosts, row, latest, handler>>

-----------------------------------------------------------------------------
(* The administrator and the panel *)

\* UpdateServer with another traffic_limit
SetLimit(s) ==
  /\ \E l \in Limits \ {row[s].limit} : row' = [row EXCEPT ![s] = [@ EXCEPT !.limit = l]]
  /\ UNCHANGED <<month, hosts, latest, handler, round, levels, alert>>

\* The panel stops and starts again: only the table survives.
Restart ==
  /\ handler' = [s \in Servers |-> [h \in Handlers |-> Idle]]
  /\ latest' = [s \in Servers |-> NoReport]
  /\ round' = NoRound
  /\ levels' = [s \in Servers |-> NoLevel]
  /\ alert' = [s \in Servers |-> NoAlert]
  /\ UNCHANGED <<month, hosts, row>>

-----------------------------------------------------------------------------
(* Specification *)

Init ==
  /\ month = 1
  /\ counter = [s \in Servers |-> 0]
  /\ passed = [s \in Servers |-> 0]
  /\ boots = [s \in Servers |-> 0]
  /\ \E l \in Limits :
       row = [s \in Servers |-> [limit |-> l, base |-> 0, month |-> 0, at |-> 0,
                                 boot |-> 0]]
  /\ latest = [s \in Servers |-> NoReport]
  /\ handler = [s \in Servers |-> [h \in Handlers |-> Idle]]
  /\ round = NoRound
  /\ levels = [s \in Servers |-> NoLevel]
  /\ alert = [s \in Servers |-> NoAlert]

Next ==
  \/ NextMonth
  \/ StartRound
  \/ Restart
  \/ \E s \in Servers :
       \/ Transfer(s) \/ Reboot(s) \/ SetLimit(s)
       \/ SkipServer(s) \/ CheckServer(s)
       \/ \E h \in Handlers : Handle(s, h)

Spec == Init /\ [][Next]_vars

-----------------------------------------------------------------------------
(* Properties *)

TypeOK ==
  /\ month \in Nat
  /\ counter \in [Servers -> Nat]
  /\ passed \in [Servers -> Nat]
  /\ boots \in [Servers -> Nat]
  /\ row \in [Servers -> RowType]
  /\ latest \in [Servers -> LatestType]
  /\ handler \in [Servers -> [Handlers -> HandlerType]]
  /\ round \in [rows : [Servers -> RowType], left : SUBSET Servers]
  /\ levels \in [Servers -> LevelType]
  /\ alert \in [Servers -> AlertType]

\* The usage the panel shows is never more than the traffic that passed between
\* the baseline and the latest report, whichever of the server's reports wrote
\* the one and was ingested last, over reboots of the host, restarts of the panel
\* and failed writes (monthlyTrafficUsed, api.go:145 and notify.go:236). Only when
\* the latest report is from before a reboot and the baseline from after it, two
\* handlers having met, are the two not comparable.
UsageBounded ==
  \A s \in Servers : latest[s].known /\ row[s].boot <= latest[s].boot =>
    Shown(s) <= Minus(latest[s].at, row[s].at)

Quiet(s) == \A h \in Handlers : handler[s][h].pc = "idle"

\* The usage shown is all the traffic since the baseline: it is the
\* "traffic used in this billing cycle" (notify.go:261) and "counted and reset
\* by month" (README.md:30).
UsageComplete ==
  \A s \in Servers : Quiet(s) /\ latest[s].known =>
    Shown(s) >= Minus(latest[s].at, row[s].at)

\* This step moves the baseline of s.
Moves(s) == <<row[s].base, row[s].month>>' # <<row[s].base, row[s].month>>

\* It is written by a handler that another one of s overtook.
WrittenLate(s) ==
  \E h \in Handlers : /\ handler[s][h].pc = "writing" /\ handler[s][h].met
                      /\ handler'[s][h].pc = "ingesting"

\* The baseline is moved to a later month, never again in the same month or back
\* to an earlier one, which would leave traffic out; except by a handler that
\* another one of the server overtook between taking the date and writing: what
\* it found in the row, before it took the lock, is then out of date
\* (MonthlyTrafficRecord, store.go:432-447). Overtaking is the only way.
ResetOnce ==
  [][\A s \in Servers :
       Moves(s) => row'[s].month > row[s].month \/ WrittenLate(s)]_vars

\* Are two alerts about the same baseline and limit?
SameQuota(a, b) ==
  /\ a.level # NoLevel /\ b.level # NoLevel
  /\ a.base = b.base /\ a.limit = b.limit

\* Within a month an administrator is alerted again only about a higher level
\* than the time before, or when the usage fell in between, as it does when the
\* host reboots (checkTraffic: only on a new step of 5%, notify.go:241).
NoNagging ==
  [][\A s \in Servers :
       alert'[s].turn # alert[s].turn /\ SameQuota(alert[s], alert'[s])
         => \/ alert'[s].level > alert[s].level
            \/ alert'[s].used < alert[s].used]_vars

\* A check of this round finds s over the threshold, by a baseline of this month.
FoundOver(s) ==
  /\ s \in round.left \ round'.left
  /\ levels'[s] # NoLevel
  /\ OverThreshold(s)
  /\ round.rows[s].month = month

\* A server that a check finds over the threshold has been alerted about in that
\* month ("reminds on every 5% step", notify.go:218).
QuotaAlerted ==
  [][\A s \in Servers : FoundOver(s) => alert'[s].month = month]_vars
=============================================================================
