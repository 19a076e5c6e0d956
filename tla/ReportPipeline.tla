--------------------------- MODULE ReportPipeline ---------------------------
(***************************************************************************)
(* The path of an agent's report through the panel: the agent's POST, the  *)
(* HTTP handler handleAgentReport, Hub.Ingest with its per-minute ring,    *)
(* and the table stats_minute the ring is flushed to; together with what   *)
(* an administrator does to a server meanwhile (create, reset the token,   *)
(* delete), the pruning of old history, and a restart of the panel.        *)
(*                                                                         *)
(* One HTTP request runs in one goroutine, so several handlers are in      *)
(* flight at once. A handler reads the token, later reads the clock, and   *)
(* later still takes Hub.mu; these are the three steps of a request here.  *)
(* Hub.Ingest is one step because it holds Hub.mu throughout, the flush to *)
(* SQLite included.                                                        *)
(*                                                                         *)
(* A sample stands for the numbers of one report. Its averages over a      *)
(* minute are represented by the set of samples they are taken over.       *)
(***************************************************************************)
EXTENDS Integers, FiniteSets, Sequences

CONSTANTS
  Servers,      \* the uuids that may ever be created
  Minute,       \* length of an aggregation bucket (60 s in the code)
  RecentKeep,   \* live samples kept per server (recentKeep = 120)
  Retention,    \* age at which history is pruned (data_keep_days)
  Faults,       \* which of AllFaults the environment may produce
  Start,        \* the clock when the panel first starts
  MaxTime,      \* bound: last clock value
  MaxSamples,   \* bound: reports collected by one agent
  MaxTokens,    \* bound: tokens generated for one server
  MaxInFlight   \* bound: handlers running at once

AllFaults == {"agentTimeout", "clockStep", "dbError", "restart"}

ASSUME PipelineAssumption ==
  /\ Minute \in Nat \ {0}
  /\ RecentKeep \in Nat \ {0}
  /\ Retention \in Nat
  /\ Faults \subseteq AllFaults
  /\ Start \in Nat
  /\ MaxTime \in Nat
  /\ MaxSamples \in Nat
  /\ MaxTokens \in Nat
  /\ MaxInFlight \in Nat

VARIABLES
  now,          \* time.Now().Unix() on the panel's host
  created,      \* uuids CreateServer has generated
  registered,   \* uuids with a row in table servers
  token,        \* column token of table servers, as the number of resets
  history,      \* table stats_minute: the rows of each server
  deleting,     \* the servers whose DeleteServer holds Store.mu
  latest,       \* Hub.latest
  lastSeen,     \* Hub.lastSeen
  recent,       \* Hub.recent
  ring,         \* Hub.seq
  inflight,     \* the requests whose handler is running
  sent,         \* reports collected by each server's agent
  waiting,      \* is the agent blocked in cli.Do?
  agentToken,   \* the token each agent was configured with
  accepted,     \* history variable: every sample that was ingested
  dropped       \* history variable: samples given up by a recorded cause

store  == <<created, registered, token, history, deleting>>
hub    == <<latest, lastSeen, recent, ring>>
agents == <<sent, waiting, agentToken>>
ghosts == <<accepted, dropped>>
vars   == <<now, store, hub, inflight, agents, ghosts>>

-----------------------------------------------------------------------------
(* Data *)

Sample  == [from : Servers, seq : Nat, at : Nat]
Row     == [time : Int, samples : SUBSET Sample]
Request == [from : Servers, seq : Nat, stage : {"authed", "stamped"}, at : Nat]

NoSample == [from |-> "none", seq |-> 0, at |-> 0]
NoRing   == [time |-> -1, samples |-> {}]    \* a nil *reportRing

\* bucket := now - now%60
BucketOf(t) == t - (t % Minute)

SampleOf(q) == [from |-> q.from, seq |-> q.seq, at |-> q.at]

\* Seeded bug: a plain INSERT into a table without the key.
SaveMinuteAppends(rows, p) == rows \cup {p}

\* Store.SaveMinute: INSERT OR REPLACE on the key (server_id, time).
SaveMinute(rows, p) == {r \in rows : r.time # p.time} \cup {p}

\* Seeded bug: the buffer drops what comes in, not what is oldest.
PushRecentKeepsOld(buf, s) ==
  IF Len(buf) < RecentKeep THEN Append(buf, s) ELSE buf

\* append, then drop from the front what exceeds keepCount
PushRecent(buf, s) ==
  LET longer == Append(buf, s)
  IN  IF Len(longer) > RecentKeep
      THEN SubSeq(longer, Len(longer) - RecentKeep + 1, Len(longer))
      ELSE longer

\* Seeded bug: the row of a deleted server still authenticates its agent.
TokenOutlivesRow(u, tk) == u \in created /\ token[u] = tk

\* Does token tk authenticate an agent of server u?
ServerUUIDByToken(u, tk) == u \in registered /\ token[u] = tk

\* Does a report stamped at t for server u start another bucket?
StartsBucket(u, t) == ring[u].time # BucketOf(t)

\* Store.mu is free unless DeleteServer is between two of its statements.
StoreFree == deleting = {}

-----------------------------------------------------------------------------
(* The agent and its request *)

\* The agent collects its next report, as the request it is posted with.
Collected(u) ==
  [from |-> u, seq |-> sent[u] + 1, stage |-> "authed", at |-> 0]

\* The agent posts a report; the handler looks the token up.
Authenticate(u) ==
  /\ ~waiting[u]
  /\ sent[u] < MaxSamples
  /\ Cardinality(inflight) < MaxInFlight
  /\ ServerUUIDByToken(u, agentToken[u])
  /\ sent' = [sent EXCEPT ![u] = @ + 1]
  /\ waiting' = [waiting EXCEPT ![u] = TRUE]
  /\ inflight' = inflight \cup {Collected(u)}
  /\ UNCHANGED <<now, store, hub, agentToken, ghosts>>

\* The token is unknown: 401, the agent logs it and will collect afresh.
Refuse(u) ==
  /\ ~waiting[u]
  /\ sent[u] < MaxSamples
  /\ ~ServerUUIDByToken(u, agentToken[u])
  /\ sent' = [sent EXCEPT ![u] = @ + 1]
  /\ UNCHANGED <<now, store, hub, inflight, waiting, agentToken, ghosts>>

\* The agent's HTTP client gives up after its timeout; the handler does not.
AgentTimeout(u) ==
  /\ "agentTimeout" \in Faults
  /\ waiting[u]
  /\ waiting' = [waiting EXCEPT ![u] = FALSE]
  /\ UNCHANGED <<now, store, hub, inflight, sent, agentToken, ghosts>>

\* now := time.Now().Unix(), read before Hub.Ingest is called
Stamp(q) ==
  /\ q.stage = "authed"
  /\ inflight' = (inflight \ {q}) \cup
       {[from |-> q.from, seq |-> q.seq, stage |-> "stamped", at |-> now]}
  /\ UNCHANGED <<now, store, hub, agents, ghosts>>

-----------------------------------------------------------------------------
(* Hub.Ingest, under Hub.mu, and the reply to the agent *)

\* What every call of Ingest does, whatever happens to the ring.
Observe(q) ==
  LET u == q.from
      s == SampleOf(q)
  IN  /\ latest' = [latest EXCEPT ![u] = s]
      /\ lastSeen' = [lastSeen EXCEPT ![u] = q.at]
      /\ recent' = [recent EXCEPT ![u] = PushRecent(@, s)]
      /\ accepted' = accepted \cup {s}
      /\ inflight' = inflight \ {q}
      /\ waiting' = [waiting EXCEPT ![u] = @ /\ q.seq # sent[u]]
      /\ UNCHANGED <<now, created, registered, token, deleting, sent,
                     agentToken>>

\* Seeded bugs: the sums of the last minute are not reset; its start is kept.
RestartedWithOldSums(q) ==
  [ring EXCEPT ![q.from] = [time    |-> BucketOf(q.at),
                            samples |-> @.samples \cup {SampleOf(q)}]]
RestartedAtOldTime(q) == [ring EXCEPT ![q.from].samples = {SampleOf(q)}]

\* rg = &reportRing{bucketStart: bucket}, then the sample is added
Restarted(q) ==
  [ring EXCEPT ![q.from] = [time    |-> BucketOf(q.at),
                            samples |-> {SampleOf(q)}]]

\* Seeded bug: the sums are assigned, not added to.
AccumulateOverwrites(q) == [ring EXCEPT ![q.from].samples = {SampleOf(q)}]

\* the sums and the count grow by the sample
Accumulate(q) ==
  [ring EXCEPT ![q.from] = [time    |-> @.time,
                            samples |-> @.samples \cup {SampleOf(q)}]]

\* The ring is of the report's minute: add the report to it.
IngestIntoBucket(q) ==
  /\ q.stage = "stamped"
  /\ ~StartsBucket(q.from, q.at)
  /\ Observe(q)
  /\ ring' = Accumulate(q)
  /\ UNCHANGED <<history, dropped>>

\* There is no ring for the server yet: start one.
IngestFirst(q) ==
  /\ q.stage = "stamped"
  /\ StartsBucket(q.from, q.at)
  /\ ring[q.from].samples = {}
  /\ Observe(q)
  /\ ring' = Restarted(q)
  /\ UNCHANGED <<history, dropped>>

\* Seeded bug: the report is added to the sums before they are flushed.
IngestFlushAfterAdding(q) ==
  /\ q.stage = "stamped"
  /\ StartsBucket(q.from, q.at)
  /\ ring[q.from].samples # {}
  /\ StoreFree
  /\ Observe(q)
  /\ ring' = Restarted(q)
  /\ history' =
       [history EXCEPT ![q.from] = SaveMinute(@, Accumulate(q)[q.from])]
  /\ UNCHANGED dropped

\* The ring is of another minute: flush it (flushPoint) and start a new one.
IngestFlush(q) ==
  /\ q.stage = "stamped"
  /\ StartsBucket(q.from, q.at)
  /\ ring[q.from].samples # {}
  /\ StoreFree
  /\ Observe(q)
  /\ ring' = Restarted(q)
  /\ history' = [history EXCEPT ![q.from] = SaveMinute(@, ring[q.from])]
  /\ UNCHANGED dropped

\* As IngestFlush, but SaveMinute returns an error: the point is only logged.
IngestFlushFails(q) ==
  /\ "dbError" \in Faults
  /\ q.stage = "stamped"
  /\ StartsBucket(q.from, q.at)
  /\ ring[q.from].samples # {}
  /\ StoreFree
  /\ Observe(q)
  /\ ring' = Restarted(q)
  /\ dropped' = dropped \cup ring[q.from].samples
  /\ UNCHANGED history

Ingest(q) ==
  \/ IngestIntoBucket(q)
  \/ IngestFirst(q)
  \/ IngestFlush(q)
  \/ IngestFlushFails(q)

-----------------------------------------------------------------------------
(* The administrator *)

\* A fresh random uuid and token; the agent is installed with that token.
CreateServer(u) ==
  /\ StoreFree
  /\ u \notin created
  /\ created' = created \cup {u}
  /\ registered' = registered \cup {u}
  /\ UNCHANGED <<now, token, history, deleting, hub, inflight, agents, ghosts>>

ResetToken(u) ==
  /\ StoreFree
  /\ u \in registered
  /\ token[u] < MaxTokens
  /\ token' = [token EXCEPT ![u] = @ + 1]
  /\ UNCHANGED <<now, created, registered, history, deleting, hub, inflight,
                 agents, ghosts>>

\* The operator restarts an idle agent with the server's current token.
Reconfigure(u) ==
  /\ ~waiting[u]
  /\ u \in registered
  /\ agentToken' = [agentToken EXCEPT ![u] = token[u]]
  /\ UNCHANGED <<now, store, hub, inflight, sent, waiting, ghosts>>

\* Seeded bug: the statement on table servers matches no row.
DeleteServerRowMisses(u) ==
  /\ StoreFree
  /\ u \in registered
  /\ deleting' = {u}
  /\ UNCHANGED <<now, created, registered, token, history, hub, inflight,
                 agents, ghosts>>

\* DeleteServer, first statement: the row of table servers, under Store.mu
DeleteServerRow(u) ==
  /\ StoreFree
  /\ u \in registered
  /\ registered' = registered \ {u}
  /\ deleting' = {u}
  /\ UNCHANGED <<now, created, token, history, hub, inflight, agents, ghosts>>

SamplesOf(rows) == UNION {r.samples : r \in rows}

\* Seeded bug: the deletion also takes Hub.mu, to drop the server from the
\* hub, while it holds Store.mu; a flush holds Hub.mu and waits for Store.mu.
DeletionNeedsHubMu(u) ==
  /\ u \in deleting
  /\ ~(\E q \in inflight : q.stage = "stamped" /\ StartsBucket(q.from, q.at))

\* DeleteServer has what its next statement needs, Store.mu alone.
DeletionGoesOn(u) == u \in deleting

\* DeleteServer, second statement: the history; Store.mu is released. (The
\* third statement deletes alert rules, which are no state of this module.)
DeleteHistory(u) ==
  /\ DeletionGoesOn(u)
  /\ history' = [history EXCEPT ![u] = {}]
  /\ dropped' = dropped \cup SamplesOf(history[u])
  /\ deleting' = {}
  /\ UNCHANGED <<now, created, registered, token, hub, inflight, agents,
                 accepted>>

\* The second statement fails: the error is returned, Store.mu is released.
DeleteHistoryFails(u) ==
  /\ "dbError" \in Faults
  /\ DeletionGoesOn(u)
  /\ deleting' = {}
  /\ UNCHANGED <<now, created, registered, token, history, hub, inflight,
                 agents, ghosts>>

-----------------------------------------------------------------------------
(* Background activity, the clock, and a restart of the panel *)

Expired(u) == {r \in history[u] : r.time < now - Retention}

\* pruneOnce
PruneHistory ==
  /\ history' = [u \in Servers |-> history[u] \ Expired(u)]
  /\ dropped' = dropped \cup UNION {SamplesOf(Expired(u)) : u \in Servers}
  /\ UNCHANGED <<now, created, registered, token, deleting, hub, inflight,
                 agents, accepted>>

Tick ==
  /\ now < MaxTime
  /\ now' = now + 1
  /\ UNCHANGED <<store, hub, inflight, agents, ghosts>>

\* The wall clock is set back (NTP, or a virtual machine resumed).
ClockStep ==
  /\ "clockStep" \in Faults
  /\ now > Start
  /\ now' = now - 1
  /\ UNCHANGED <<store, hub, inflight, agents, ghosts>>

\* The panel stops (a crash, or Shutdown, which flushes no ring) and starts
\* again: NewHub. Requests in flight end with a connection error.
Restart ==
  /\ "restart" \in Faults
  /\ latest' = [u \in Servers |-> NoSample]
  /\ lastSeen' = [u \in Servers |-> 0]
  /\ recent' = [u \in Servers |-> << >>]
  /\ ring' = [u \in Servers |-> NoRing]
  /\ inflight' = {}
  /\ deleting' = {}
  /\ waiting' = [u \in Servers |-> FALSE]
  /\ dropped' = dropped \cup UNION {ring[u].samples : u \in Servers}
  /\ UNCHANGED <<now, created, registered, token, history, sent, agentToken,
                 accepted>>

-----------------------------------------------------------------------------
(* Specification *)

Init ==
  /\ now = Start
  /\ created = {}
  /\ registered = {}
  /\ token = [u \in Servers |-> 0]
  /\ history = [u \in Servers |-> {}]
  /\ deleting = {}
  /\ latest = [u \in Servers |-> NoSample]
  /\ lastSeen = [u \in Servers |-> 0]
  /\ recent = [u \in Servers |-> << >>]
  /\ ring = [u \in Servers |-> NoRing]
  /\ inflight = {}
  /\ sent = [u \in Servers |-> 0]
  /\ waiting = [u \in Servers |-> FALSE]
  /\ agentToken = [u \in Servers |-> 0]
  /\ accepted = {}
  /\ dropped = {}

AgentStep(u) == Authenticate(u) \/ Refuse(u) \/ AgentTimeout(u)
AdminStep(u) ==
  \/ CreateServer(u)
  \/ ResetToken(u)
  \/ Reconfigure(u)
  \/ DeleteServerRow(u)
  \/ DeleteHistory(u)
  \/ DeleteHistoryFails(u)

Next ==
  \/ \E u \in Servers : AgentStep(u) \/ AdminStep(u)
  \/ \E q \in inflight : Stamp(q) \/ Ingest(q)
  \/ PruneHistory
  \/ Tick
  \/ ClockStep
  \/ Restart

Spec == Init /\ [][Next]_vars

\* The steps of the handlers that serve server u's agent
HandlerStep(u) == \E q \in inflight : q.from = u /\ (Stamp(q) \/ Ingest(q))

\* The Go scheduler runs every goroutine, and a mutex is handed to a waiter
\* before long, so a handler and a DeleteServer under way both finish.
FairSpec ==
  /\ Spec
  /\ \A u \in Servers :
       /\ WF_vars(HandlerStep(u))
       /\ WF_vars(DeleteHistory(u) \/ DeleteHistoryFails(u))

-----------------------------------------------------------------------------
(* Properties *)

TypeOK ==
  /\ now \in Nat
  /\ created \subseteq Servers
  /\ registered \subseteq created
  /\ token \in [Servers -> Nat]
  /\ history \in [Servers -> SUBSET Row]
  /\ deleting \subseteq created \ registered
  /\ latest \in [Servers -> Sample \cup {NoSample}]
  /\ lastSeen \in [Servers -> Nat]
  /\ recent \in [Servers -> Seq(Sample)]
  /\ ring \in [Servers -> Row]
  /\ inflight \subseteq Request
  /\ sent \in [Servers -> Nat]
  /\ waiting \in [Servers -> BOOLEAN]
  /\ agentToken \in [Servers -> Nat]
  /\ accepted \subseteq Sample
  /\ dropped \subseteq Sample

\* A stored minute averages over at least one report, and every report it
\* averages over is of its own server and was stamped within that minute; so
\* for the ring still being filled (hub.go, Ingest's aggregation part).
MinutesPure ==
  \A u \in Servers :
    /\ \A r \in history[u] : r.samples # {}
    /\ \A r \in history[u] \cup {ring[u]} :
         \A s \in r.samples : s.from = u /\ BucketOf(s.at) = r.time

\* No report enters two averages: a server has one row per minute, and no
\* report is in two of its rows, or in a row and in the ring as well,
\* whatever the order in which concurrent handlers reach Hub.Ingest.
CountedOnce ==
  \A u \in Servers :
    \A r1 \in history[u] :
      /\ r1.samples \cap ring[u].samples = {}
      /\ \A r2 \in history[u] \ {r1} :
           r1.time # r2.time /\ r1.samples \cap r2.samples = {}

Stored(s) ==
  \/ s \in ring[s.from].samples
  \/ \E r \in history[s.from] : s \in r.samples

\* Every report the panel acknowledged is in a stored minute or in the ring,
\* unless it was lost for one of the reasons on record: a restart, a failed
\* write, the deletion of its server, its age.
NothingLost == accepted \subseteq {s \in accepted : Stored(s) \/ s \in dropped}

\* When handlers overtake each other or the clock is set back, a minute may be
\* started again, and its row is then replaced. That is the only loss nothing
\* records: a report that was stored goes without a cause on record only when
\* the ring is flushed over the row of the report's own minute (hub.go, Ingest
\* and flushPoint; store.go, SaveMinute's INSERT OR REPLACE).
LossIsReplacement ==
  [][\A s \in accepted :
       Stored(s) /\ ~Stored(s)' /\ s \notin dropped' =>
         /\ ring[s.from].time = BucketOf(s.at)
         /\ ring[s.from] \in history'[s.from] \ history[s.from]]_vars

\* A minute once written is never replaced: it leaves the table only when it
\* is too old or when its server is deleted ("one row per minute", hub.go:32).
NeverOverwritten ==
  [][\A u \in Servers : \A r \in history[u] :
       \/ r \in history'[u]
       \/ r.time < now - Retention
       \/ u \in deleting]_vars

\* What the live view of a server shows agrees: the recent samples are in the
\* order the agent took them, the newest is Hub.latest, and Hub.lastSeen is
\* its time.
LiveViewAgrees ==
  \A u \in Servers :
    LET n == Len(recent[u]) IN
    /\ n <= RecentKeep
    /\ \A i, j \in 1..n : i < j => /\ recent[u][i].seq < recent[u][j].seq
                                   /\ recent[u][i].at <= recent[u][j].at
    /\ IF n = 0 THEN latest[u] = NoSample /\ lastSeen[u] = 0
       ELSE latest[u] = recent[u][n] /\ lastSeen[u] = latest[u].at

\* Once a server's row is gone and no handler that authenticated before is
\* left, nothing of it changes except that its history shrinks, and no new
\* report of it is let in (store.go, DeleteServer and ServerUUIDByToken).
RevokedIsSilent ==
  [][\A u \in Servers :
       u \notin registered' /\ ~(\E q \in inflight : q.from = u) =>
         /\ ~(\E q \in inflight' : q.from = u)
         /\ history'[u] \subseteq history[u]
         /\ ring'[u] \in {ring[u], NoRing}]_vars

Deleted(u) == u \in created \ (registered \cup deleting)

\* DeleteServer "deletes the server and its history" (store.go:319).
DeletedHistoryGone == \A u \in Servers : Deleted(u) => history[u] = {}

\* The minutes of a server as its history shows them: each is closed whole,
\* after the ones before it, is never touched again, and no report is in two.
History == INSTANCE MinuteHistory
             WITH Servers <- Servers, open <- ring, minutes <- history,
                  counted <- accepted

\* Handlers, a failing or restarted panel and the administrator together do to
\* stats_minute and the ring only what MinuteHistory allows (hub.go, Ingest and
\* flushPoint; store.go, SaveMinute, DeleteServer and PruneHistory).
HistorySpec == History!Spec

\* An agent that waits for the panel's answer gets it: no interleaving of
\* flushes under Hub.mu with the writers of Store.mu blocks a handler for good.
ReportsSettle == \A u \in Servers : waiting[u] ~> ~waiting[u]
=============================================================================
