------------------------------- MODULE Alerts -------------------------------
(***************************************************************************)
(* The notifier's rounds: Notifier.run and check with checkOffline,        *)
(* checkLoad and checkExpiry, the marks they leave in the database so as   *)
(* not to repeat themselves, and what administrators do to settings, rules *)
(* and servers meanwhile. checkTraffic is in module Traffic.               *)
(*                                                                         *)
(* A round reads the settings once, and a check reads its rows, its clock  *)
(* and the history once, before it sends anything. A request to the        *)
(* channel takes up to 15 seconds, and everything else goes on meanwhile.  *)
(* The clock counts minutes. Of a row of a minute only matters whether it  *)
(* is over a rule's threshold, the same one for all rules here.            *)
(***************************************************************************)
EXTENDS Integers, FiniteSets

CONSTANTS
  Servers,      \* the uuids
  AllServers,   \* a rule's server_uuid ""
  Ids,          \* bound: the ids load_rules may give out
  MaxRules,     \* bound: rows of load_rules at a time
  Intervals,    \* the values of interval_min; 0 through a PUT
  Window,       \* minutes of history checkLoad looks at (10)
  Ratio,        \* a rule's ratio, in percent
  Grace,        \* offline_grace, in minutes
  Cooldown,     \* minutes between two offline alerts (30)
  Day,          \* minutes of a day
  Faults,       \* which of AllFaults may happen
  Start,        \* the clock at first
  MaxTime       \* bound: last minute

AllFaults ==
  {"crash",     \* the panel stops and starts again
   "sendFails", \* the channel does not take an alert
   "dbError"}   \* the UPDATE of a mark, or a SELECT of checkExpiry, fails

ASSUME AlertsAssumption ==
  /\ AllServers \notin Servers
  /\ Ids \subseteq Nat \ {0}
  /\ MaxRules \in Nat
  /\ Intervals \subseteq Nat
  /\ Window \in Nat \ {0}
  /\ Ratio \in 1..100
  /\ Grace \in Nat
  /\ Cooldown \in Nat
  /\ Day \in Nat \ {0}
  /\ Faults \subseteq AllFaults
  /\ Start \in Nat \ {0}
  /\ \A i \in Intervals : Start >= i
  /\ MaxTime \in Nat

VARIABLES
  now,          \* time.Now(), in minutes
  settings,     \* the settings row "notify"
  servers,      \* uuids with a row in table servers
  expiring,     \* those whose expired_at is less than expiry_days away
  marked,       \* last_offline_notify of each server
  lastSeen,     \* Hub.lastSeen
  minutes,      \* table stats_minute: the last Window minutes of each server
  rules,        \* table load_rules
  lastId,       \* its AUTOINCREMENT
  lastDay,      \* the settings row "expiry_last_notify_day"
  pc,           \* where Notifier.run is
  ns,           \* the settings of the round
  at,           \* the clock as the running check has read it
  due,          \* the rules the running check has still to alert about
  current,      \* the rule it is alerting about
  sent,         \* history variable: times of a rule's alerts, last day of
                \* an expiry alert, the servers with an offline alert
  lost          \* history variable: the alerts whose mark was not stored, and
                \* whether the running checkExpiry failed to read its mark

fleet == <<servers, expiring, marked, lastSeen, minutes>>
admin == <<settings, rules, lastId>>
check == <<pc, ns, at, due, current>>
notes == <<sent, lost>>
vars  == <<now, fleet, admin, lastDay, check, notes>>

-----------------------------------------------------------------------------
(* Data *)

Settings == [enabled : BOOLEAN, expiry : BOOLEAN]
Load     == {"none", "cool", "hot"}
Rule     == [server : Servers \cup {AllServers}, interval : Intervals, last : Nat]
Due      == [id : Ids, interval : Intervals]
Pcs      == {"resting", "offline", "load", "sending", "marking",
             "expiry", "sendingExpiry", "markingExpiry"}
NoRule   == [id |-> 0, interval |-> 0]
NoMinute == [i \in 1..Window |-> "none"]

DayOf(t) == t \div Day

\* The function f without d in its domain
Without(f, d) == [x \in DOMAIN f \ d |-> f[x]]

\* hist[u] of AllRecentHistory: a map with the server ids of the rows as keys
PointsOf(u) ==
  IF u \in Servers THEN {i \in 1..Window : minutes[u][i] # "none"} ELSE {}
OverOf(u) == {i \in PointsOf(u) : minutes[u][i] = "hot"}

\* Seeded bug: the share has to be more than the ratio.
RatioExceeded(u) ==
  Cardinality(OverOf(u)) * 100 > Ratio * Cardinality(PointsOf(u))

\* Has server u been over the threshold for the rule's share of the time?
RatioReached(u) ==
  Cardinality(OverOf(u)) * 100 >= Ratio * Cardinality(PointsOf(u))

\* Does checkLoad alert about rule r at time t?
LoadDue(r, t) ==
  /\ t - r.last >= r.interval
  /\ PointsOf(r.server) # {}
  /\ RatioReached(r.server)

\* LastSeen as ListServers returns it: scanServer does not assign it.
ListedLastSeen(s) == 0

\* Does checkOffline alert about server s?
OfflineDue(s) ==
  /\ now - ListedLastSeen(s) >= 1
  /\ ListedLastSeen(s) # 0
  /\ now - ListedLastSeen(s) >= Grace
  /\ now - marked[s] >= Cooldown

-----------------------------------------------------------------------------
(* The servers and their history *)

\* A minute goes by. Some servers report in it, and have a row for it.
Tick ==
  /\ now < MaxTime
  /\ now' = now + 1
  /\ \E load \in [Servers -> Load] :
       /\ \A s \in Servers \ servers : load[s] = "none"
       /\ minutes' = [s \in Servers |->
            [i \in 1..Window |-> IF i < Window THEN minutes[s][i + 1]
                                 ELSE load[s]]]
       /\ lastSeen' = [s \in Servers |->
                         IF load[s] = "none" THEN lastSeen[s] ELSE now']
  /\ UNCHANGED <<servers, expiring, marked, admin, lastDay, check, notes>>

-----------------------------------------------------------------------------
(* The administrator *)

\* Seeded bug: the mark of the day is part of what is saved.
SaveNotifyForgetsDay ==
  /\ settings' \in Settings \ {settings}
  /\ lastDay' = 0
  /\ UNCHANGED <<now, fleet, rules, lastId, check, notes>>

\* PUT /api/admin/notify
SaveNotify ==
  /\ settings' \in Settings \ {settings}
  /\ UNCHANGED <<now, fleet, rules, lastId, lastDay, check, notes>>

\* Seeded bug: the id is the first that is free. (The alerts of the rule that
\* had it are not alerts of this one.)
CreateRuleReusesId ==
  /\ \E id \in Ids \ DOMAIN rules, u \in Servers \cup {AllServers}, i \in Intervals \ {0} :
       /\ \A j \in Ids \ DOMAIN rules : id <= j
       /\ rules' = [x \in DOMAIN rules \cup {id} |->
            IF x = id THEN [server |-> u, interval |-> i, last |-> 0]
            ELSE rules[x]]
       /\ sent' = [sent EXCEPT !.load[id] = {}]
  /\ UNCHANGED <<now, fleet, settings, lastId, lastDay, check, lost>>

\* POST /api/admin/loadrules, which keeps interval_min above 0
CreateRule ==
  /\ lastId + 1 \in Ids
  /\ Cardinality(DOMAIN rules) < MaxRules
  /\ lastId' = lastId + 1
  /\ \E u \in Servers \cup {AllServers}, i \in Intervals \ {0} :
       rules' = [x \in DOMAIN rules \cup {lastId'} |->
         IF x = lastId' THEN [server |-> u, interval |-> i, last |-> 0]
         ELSE rules[x]]
  /\ UNCHANGED <<now, fleet, settings, lastDay, check, notes>>

\* Seeded bug: the whole row is replaced.
UpdateRuleResets ==
  /\ \E id \in DOMAIN rules, i \in Intervals :
       rules' = [rules EXCEPT ![id].interval = i, ![id].last = 0]
  /\ UNCHANGED <<now, fleet, settings, lastId, lastDay, check, notes>>

\* PUT /api/admin/loadrules/<id>, which checks nothing, interval_min neither
UpdateRule ==
  /\ \E id \in DOMAIN rules, u \in Servers \cup {AllServers}, i \in Intervals :
       rules' = [rules EXCEPT ![id].server = u, ![id].interval = i]
  /\ UNCHANGED <<now, fleet, settings, lastId, lastDay, check, notes>>

DeleteRule ==
  /\ \E id \in DOMAIN rules : rules' = Without(rules, {id})
  /\ UNCHANGED <<now, fleet, settings, lastId, lastDay, check, notes>>

\* DeleteServer: the row, its history and the rules about it
DeleteServer ==
  /\ \E s \in servers :
       /\ servers' = servers \ {s}
       /\ minutes' = [minutes EXCEPT ![s] = NoMinute]
       /\ rules' = Without(rules, {id \in DOMAIN rules : rules[id].server = s})
  /\ UNCHANGED <<now, expiring, marked, lastSeen, settings, lastId, lastDay,
                 check, notes>>

\* UpdateServer with another expired_at
SetExpiry ==
  /\ \E s \in servers :
       expiring' = IF s \in expiring THEN expiring \ {s} ELSE expiring \cup {s}
  /\ UNCHANGED <<now, servers, marked, lastSeen, minutes, admin, lastDay, check,
                 notes>>

-----------------------------------------------------------------------------
(* Notifier.check *)

Goto(l) == pc' = l

NoSettings == [enabled |-> FALSE, expiry |-> FALSE]

\* The round is over; what it has read goes out of scope.
Rest ==
  /\ pc' = "resting"
  /\ ns' = NoSettings
  /\ at' = 0

\* The settings of the round; a disabled notifier has nothing to do.
StartRound ==
  /\ pc = "resting"
  /\ settings.enabled
  /\ ns' = settings
  /\ Goto("offline")
  /\ UNCHANGED <<now, fleet, admin, lastDay, at, due, current, notes>>

\* checkOffline. Its loop never comes to a Send (see OfflineAlerted), so it is
\* one step.
CheckOffline ==
  /\ pc = "offline"
  /\ LET found == {s \in servers : OfflineDue(s)} IN
       /\ sent' = [sent EXCEPT !.offline = @ \cup found]
       /\ marked' = [s \in Servers |-> IF s \in found THEN now ELSE marked[s]]
  /\ Goto("load")
  /\ UNCHANGED <<now, servers, expiring, lastSeen, minutes, admin, lastDay, ns,
                 at, due, current, lost>>

\* checkLoad reads rules, history and clock.
CheckLoad ==
  /\ pc = "load"
  /\ at' = now
  /\ due' = {[id |-> id, interval |-> rules[id].interval] :
               id \in {x \in DOMAIN rules : LoadDue(rules[x], now)}}
  /\ Goto("sending")
  /\ UNCHANGED <<now, fleet, admin, lastDay, ns, current, notes>>

\* Seeded bug: an alert that is not taken stays due.
SendLoadRetries ==
  /\ pc = "sending"
  /\ \E r \in due :
       /\ \A q \in due : r.id <= q.id
       /\ current' = r
       /\ sent' = [sent EXCEPT !.load[r.id] = @ \cup {at}]
       /\ due' \in {due \ {r}, IF "sendFails" \in Faults THEN due ELSE due \ {r}}
  /\ Goto("marking")
  /\ UNCHANGED <<now, fleet, admin, lastDay, ns, at, lost>>

\* Send about the rule with the least id. Whether the channel takes the alert
\* makes no difference.
SendLoad ==
  /\ pc = "sending"
  /\ \E r \in due :
       /\ \A q \in due : r.id <= q.id
       /\ current' = r
       /\ due' = due \ {r}
       /\ sent' = [sent EXCEPT !.load[r.id] = @ \cup {at}]
  /\ Goto("marking")
  /\ UNCHANGED <<now, fleet, admin, lastDay, ns, at, lost>>

\* MarkLoadRuleNotified, which may find no row any more
MarkLoad ==
  /\ pc = "marking"
  /\ rules' = [id \in DOMAIN rules |->
       IF id = current.id THEN [rules[id] EXCEPT !.last = at] ELSE rules[id]]
  /\ lost' = [lost EXCEPT !.load = @ \ {current.id}]
  /\ current' = NoRule
  /\ Goto("sending")
  /\ UNCHANGED <<now, fleet, settings, lastId, lastDay, ns, at, due, sent>>

MarkLoadFails ==
  /\ "dbError" \in Faults
  /\ pc = "marking"
  /\ lost' = [lost EXCEPT !.load = @ \cup {current.id}]
  /\ current' = NoRule
  /\ Goto("sending")
  /\ UNCHANGED <<now, fleet, admin, lastDay, ns, at, due, sent>>

\* Seeded bug: the first rule ends the loop.
LoadsDoneEarly ==
  /\ pc = "sending"
  /\ Goto("expiry")
  /\ UNCHANGED <<now, fleet, admin, lastDay, ns, at, due, current, notes>>

\* The loop over the rules is done.
LoadsDone ==
  /\ pc = "sending"
  /\ due = {}
  /\ at' = 0
  /\ Goto("expiry")
  /\ UNCHANGED <<now, fleet, admin, lastDay, ns, due, current, notes>>

ExpiryDue == ns.expiry /\ servers \cap expiring # {}

\* checkExpiry up to the Send. It ends here when it is off, nothing expires, it
\* is done today or ListServers fails; a mark that cannot be read is taken for
\* that of no day.
CheckExpiry ==
  /\ pc = "expiry"
  /\ \/ /\ ExpiryDue /\ lastDay # DayOf(now)
        /\ at' = now
        /\ Goto("sendingExpiry")
        /\ UNCHANGED <<ns, lost>>
     \/ /\ ExpiryDue /\ "dbError" \in Faults
        /\ at' = now
        /\ lost' = [lost EXCEPT !.unread = TRUE]
        /\ Goto("sendingExpiry")
        /\ UNCHANGED ns
     \/ /\ ~ExpiryDue \/ lastDay = DayOf(now) \/ "dbError" \in Faults
        /\ Rest
        /\ UNCHANGED lost
  /\ UNCHANGED <<now, fleet, admin, lastDay, due, current, sent>>

SendExpiry ==
  /\ pc = "sendingExpiry"
  /\ sent' = [sent EXCEPT !.expiry = DayOf(at)]
  /\ lost' = [lost EXCEPT !.unread = FALSE]
  /\ Goto("markingExpiry")
  /\ UNCHANGED <<now, fleet, admin, lastDay, ns, at, due, current>>

\* SetSetting("expiry_last_notify_day", dayKey)
MarkExpiry ==
  /\ pc = "markingExpiry"
  /\ lastDay' = DayOf(at)
  /\ lost' = [lost EXCEPT !.expiry = FALSE]
  /\ Rest
  /\ UNCHANGED <<now, fleet, admin, due, current, sent>>

MarkExpiryFails ==
  /\ "dbError" \in Faults
  /\ pc = "markingExpiry"
  /\ lost' = [lost EXCEPT !.expiry = TRUE]
  /\ Rest
  /\ UNCHANGED <<now, fleet, admin, lastDay, due, current, sent>>

Notifier ==
  \/ StartRound
  \/ CheckOffline
  \/ CheckLoad \/ SendLoad \/ MarkLoad \/ MarkLoadFails \/ LoadsDone
  \/ CheckExpiry \/ SendExpiry \/ MarkExpiry \/ MarkExpiryFails

\* The panel stops and starts again; an alert just sent keeps no mark.
Crash ==
  /\ "crash" \in Faults
  /\ Rest
  /\ due' = {}
  /\ current' = NoRule
  /\ lastSeen' = [s \in Servers |-> 0]
  /\ lost' = [load   |-> IF pc = "marking" THEN lost.load \cup {current.id}
                         ELSE lost.load,
              expiry |-> lost.expiry \/ pc = "markingExpiry",
              unread |-> FALSE]
  /\ UNCHANGED <<now, servers, expiring, marked, minutes, admin, lastDay, sent>>

-----------------------------------------------------------------------------
(* Specification *)

Init ==
  /\ now = Start
  /\ settings = NoSettings
  /\ servers = Servers
  /\ expiring = {}
  /\ marked = [s \in Servers |-> 0]
  /\ lastSeen = [s \in Servers |-> 0]
  /\ minutes = [s \in Servers |-> NoMinute]
  /\ rules = [x \in {} |-> 0]
  /\ lastId = 0
  /\ lastDay = 0
  /\ pc = "resting"
  /\ ns = NoSettings
  /\ at = 0
  /\ due = {}
  /\ current = NoRule
  /\ sent = [load |-> [id \in Ids |-> {}], expiry |-> 0, offline |-> {}]
  /\ lost = [load |-> {}, expiry |-> FALSE, unread |-> FALSE]

Admin ==
  \/ SaveNotify
  \/ CreateRule \/ UpdateRule \/ DeleteRule
  \/ DeleteServer \/ SetExpiry

Next == Tick \/ Admin \/ Notifier \/ Crash

Spec == Init /\ [][Next]_vars

\* The ticker fires again and again, and a Send ends within its 15 seconds.
FairSpec == Spec /\ WF_vars(Notifier)

-----------------------------------------------------------------------------
(* Properties *)

TypeOK ==
  /\ now \in Nat
  /\ settings \in Settings
  /\ servers \subseteq Servers
  /\ expiring \subseteq Servers
  /\ marked \in [Servers -> Nat]
  /\ lastSeen \in [Servers -> Nat]
  /\ minutes \in [Servers -> [1..Window -> Load]]
  /\ DOMAIN rules \subseteq Ids
  /\ \A id \in DOMAIN rules : rules[id] \in Rule
  /\ lastId \in Nat
  /\ lastDay \in Nat
  /\ pc \in Pcs
  /\ ns \in Settings
  /\ at \in Nat
  /\ due \subseteq Due
  /\ due # {} => pc \in {"sending", "marking"}
  /\ current \in IF pc = "marking" THEN Due ELSE {NoRule}
  /\ sent \in [load    : [Ids -> SUBSET Nat],
              expiry  : Nat,
              offline : SUBSET Servers]
  /\ lost \in [load : SUBSET Ids, expiry : BOOLEAN, unread : BOOLEAN]

\* What a rule's row says of its last alert is true, whatever was edited,
\* deleted and created while the alert was on its way: a new rule never
\* inherits the silence of another (MarkLoadRuleNotified, store.go:572).
MarksTrue ==
  \A id \in DOMAIN rules :
    rules[id].last # 0 => rules[id].last \in sent.load[id]

\* Two alerts of one rule come from checks at least its interval apart, over
\* edits and restarts, unless the mark of the first was lost (checkLoad).
RuleSpaced ==
  [][SendLoad => \/ current'.id \in lost.load
                 \/ \A t \in sent.load[current'.id] :
                      at - t >= current'.interval]_vars

\* There is at most one expiry alert a day ("at most once a day", notify.go:176),
\* whatever is saved meanwhile and whenever the panel starts again, unless the
\* mark of the first was not stored or the check that sends the second could not
\* read it (notify.go:201 takes the error for a mark of no day).
ExpiryOncePerDay ==
  [][SendExpiry =>
       lost.expiry \/ lost.unread \/ DayOf(at) > sent.expiry]_vars

\* A round comes to an end, whatever the channel does.
RoundsEnd == pc # "resting" ~> pc = "resting"

AllHot(s) == OverOf(s) = PointsOf(s) /\ PointsOf(s) # {}

\* A rule about a server that stays over its threshold is alerted about, if
\* only the panel stays up.
HotRuleAlerted ==
  <>[][~Crash]_vars =>
    \A id \in Ids :
      <>[](/\ settings.enabled
           /\ id \in DOMAIN rules
           /\ rules[id].server \in Servers
           /\ AllHot(rules[id].server))
        => <>(sent.load[id] # {})

\* A rule with an empty server_uuid is about "all servers" (types.go:156).
AllServersRuleAlerted ==
  \A id \in Ids :
    <>[](/\ settings.enabled
         /\ id \in DOMAIN rules
         /\ rules[id].server = AllServers
         /\ servers # {}
         /\ \A s \in servers : AllHot(s))
      => <>(sent.load[id] # {})

\* A server that stays silent for longer than its grace is alerted about
\* ("checks servers for being offline", notify.go:70).
OfflineAlerted ==
  \A s \in Servers :
    <>[](/\ settings.enabled
         /\ s \in servers
         /\ lastSeen[s] # 0
         /\ now - lastSeen[s] > Grace)
      => <>(s \in sent.offline)
=============================================================================
