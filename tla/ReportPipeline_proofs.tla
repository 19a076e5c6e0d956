----------------------- MODULE ReportPipeline_proofs -----------------------
(***************************************************************************)
(* Theorems about ReportPipeline, for any set of servers, any length of a  *)
(* minute and any bounds.                                                  *)
(***************************************************************************)
EXTENDS ReportPipeline, TLAPS

-----------------------------------------------------------------------------
(* Lemmas about the operators *)

\* A bucket starts at or before the times that fall into it.
LEMMA BucketType ==
  ASSUME NEW t \in Nat
  PROVE  BucketOf(t) \in Nat /\ BucketOf(t) <= t
BY PipelineAssumption DEF BucketOf

\* Later times fall into later buckets (or the same one).
LEMMA BucketMonotone ==
  ASSUME NEW a \in Nat, NEW b \in Nat, a <= b
  PROVE  BucketOf(a) <= BucketOf(b)
<1> DEFINE qa == a \div Minute
           qb == b \div Minute
<1>1. /\ qa \in Nat /\ qb \in Nat /\ Minute \in Nat \ {0}
      /\ a = Minute * qa + (a % Minute) /\ a % Minute \in 0..(Minute - 1)
      /\ b = Minute * qb + (b % Minute) /\ b % Minute \in 0..(Minute - 1)
  BY PipelineAssumption
<1>2. BucketOf(a) = Minute * qa /\ BucketOf(b) = Minute * qb
  BY <1>1 DEF BucketOf
<1>3. CASE qa <= qb
  <2>1. \A n, x, y \in Nat : x <= y => n * x <= n * y
    OBVIOUS
  <2>2. QED
    BY <1>1, <1>2, <1>3, <2>1
<1>4. CASE qb + 1 <= qa
  <2>1. \A n, x, y \in Nat : y + 1 <= x => n * y + n <= n * x
    OBVIOUS
  <2>2. Minute * qb + Minute <= Minute * qa
    BY <1>1, <1>4, <2>1
  <2>3. Minute * qa \in Nat /\ Minute * qb \in Nat
    BY <1>1
  <2>4. QED
    BY <1>1, <1>2, <2>2, <2>3
<1>5. QED
  BY <1>1, <1>3, <1>4

\* The buffer of recent samples stays a sequence of samples.
LEMMA PushRecentType ==
  ASSUME NEW buf \in Seq(Sample), NEW s \in Sample
  PROVE  PushRecent(buf, s) \in Seq(Sample)
BY PipelineAssumption DEF PushRecent

\* Writing a row leaves a set of rows.
LEMMA SaveMinuteType ==
  ASSUME NEW rows \in SUBSET Row, NEW p \in Row
  PROVE  SaveMinute(rows, p) \in SUBSET Row
BY DEF SaveMinute
-----------------------------------------------------------------------------
(* Type correctness *)

\* A request is turned into a sample of the same server.
LEMMA SampleOfType ==
  ASSUME NEW q \in Request
  PROVE  SampleOf(q) \in Sample /\ SampleOf(q).from = q.from
BY DEF SampleOf, Request, Sample

\* The part of the state Hub.Ingest always changes keeps its type.
LEMMA ObserveType ==
  ASSUME TypeOK, NEW q \in inflight, Observe(q)
  PROVE  /\ now' \in Nat
         /\ created' \subseteq Servers
         /\ registered' \subseteq created'
         /\ token' \in [Servers -> Nat]
         /\ deleting' \subseteq created' \ registered'
         /\ latest' \in [Servers -> Sample \cup {NoSample}]
         /\ lastSeen' \in [Servers -> Nat]
         /\ recent' \in [Servers -> Seq(Sample)]
         /\ inflight' \subseteq Request
         /\ sent' \in [Servers -> Nat]
         /\ waiting' \in [Servers -> BOOLEAN]
         /\ agentToken' \in [Servers -> Nat]
         /\ accepted' \subseteq Sample
<1>1. q \in Request /\ q.from \in Servers /\ q.at \in Nat
  BY DEF TypeOK, Request
<1>2. SampleOf(q) \in Sample
  BY <1>1, SampleOfType
<1>3. recent' \in [Servers -> Seq(Sample)]
  <2>1. PushRecent(recent[q.from], SampleOf(q)) \in Seq(Sample)
    BY <1>1, <1>2, PushRecentType DEF TypeOK
  <2>2. QED
    BY <2>1 DEF TypeOK, Observe
<1>4. waiting' \in [Servers -> BOOLEAN]
  BY DEF TypeOK, Observe
<1>5. QED
  BY <1>1, <1>2, <1>3, <1>4 DEF TypeOK, Observe

\* The ring stays a row when a report is added or another minute starts.
LEMMA RingType ==
  ASSUME TypeOK, NEW q \in inflight
  PROVE  /\ Accumulate(q) \in [Servers -> Row]
         /\ Restarted(q) \in [Servers -> Row]
<1>1. q \in Request /\ q.from \in Servers /\ q.at \in Nat
  BY DEF TypeOK, Request
<1>2. SampleOf(q) \in Sample /\ BucketOf(q.at) \in Nat
  BY <1>1, SampleOfType, BucketType
<1>3. QED
  BY <1>1, <1>2 DEF TypeOK, Row, Accumulate, Restarted

\* The samples of a set of rows are samples.
LEMMA SamplesOfType ==
  ASSUME NEW rows \in SUBSET Row
  PROVE  SamplesOf(rows) \subseteq Sample
BY DEF SamplesOf, Row

\* Every step keeps the types.
LEMMA TypeInductive == TypeOK /\ [Next]_vars => TypeOK'
<1> SUFFICES ASSUME TypeOK, [Next]_vars PROVE TypeOK'
  OBVIOUS
<1> USE DEF TypeOK, store, hub, agents, ghosts
<1>1. ASSUME NEW u \in Servers, Authenticate(u) PROVE TypeOK'
  BY <1>1 DEF Authenticate, Collected, Request
<1>2. ASSUME NEW u \in Servers, Refuse(u) PROVE TypeOK'
  BY <1>2 DEF Refuse
<1>3. ASSUME NEW u \in Servers, AgentTimeout(u) PROVE TypeOK'
  BY <1>3 DEF AgentTimeout
<1>4. ASSUME NEW q \in inflight, Stamp(q) PROVE TypeOK'
  <2>1. inflight' \subseteq Request
    BY <1>4 DEF Stamp, Request
  <2>2. QED
    BY <1>4, <2>1 DEF Stamp
<1>5. ASSUME NEW q \in inflight, Ingest(q) PROVE TypeOK'
  <2>1. Observe(q)
    BY <1>5 DEF Ingest, IngestIntoBucket, IngestFirst, IngestFlush,
                IngestFlushFails
  <2>2. ring' \in [Servers -> Row]
    BY <1>5, RingType DEF Ingest, IngestIntoBucket, IngestFirst, IngestFlush,
                          IngestFlushFails
  <2>3. q.from \in Servers /\ ring[q.from] \in Row
    BY DEF Request
  <2>4. history' \in [Servers -> SUBSET Row]
    <3>1. SaveMinute(history[q.from], ring[q.from]) \in SUBSET Row
      BY <2>3, SaveMinuteType
    <3>2. QED
      BY <1>5, <3>1 DEF Ingest, IngestIntoBucket, IngestFirst, IngestFlush,
                        IngestFlushFails
  <2>5. dropped' \subseteq Sample
    BY <1>5, <2>3 DEF Ingest, IngestIntoBucket, IngestFirst, IngestFlush,
                      IngestFlushFails, Row
  <2>6. QED
    BY <2>1, <2>2, <2>4, <2>5, ObserveType
<1>6. ASSUME NEW u \in Servers, CreateServer(u) PROVE TypeOK'
  BY <1>6 DEF CreateServer, StoreFree
<1>7. ASSUME NEW u \in Servers, ResetToken(u) PROVE TypeOK'
  BY <1>7 DEF ResetToken
<1>8. ASSUME NEW u \in Servers, Reconfigure(u) PROVE TypeOK'
  BY <1>8 DEF Reconfigure
<1>9. ASSUME NEW u \in Servers, DeleteServerRow(u) PROVE TypeOK'
  BY <1>9 DEF DeleteServerRow
<1>10. ASSUME NEW u \in Servers, DeleteHistory(u) PROVE TypeOK'
  <2>1. SamplesOf(history[u]) \subseteq Sample
    BY SamplesOfType
  <2>2. QED
    BY <1>10, <2>1 DEF DeleteHistory, DeletionGoesOn
<1>11. ASSUME NEW u \in Servers, DeleteHistoryFails(u) PROVE TypeOK'
  BY <1>11 DEF DeleteHistoryFails, DeletionGoesOn
<1>12. ASSUME PruneHistory PROVE TypeOK'
  <2>1. \A u \in Servers : SamplesOf(Expired(u)) \subseteq Sample
    BY SamplesOfType DEF Expired
  <2>2. QED
    BY <1>12, <2>1 DEF PruneHistory
<1>13. ASSUME Tick PROVE TypeOK'
  BY <1>13 DEF Tick
<1>14. ASSUME ClockStep PROVE TypeOK'
  BY <1>14, PipelineAssumption DEF ClockStep
<1>15. ASSUME Restart PROVE TypeOK'
  BY <1>15 DEF Restart, NoRing, Row
<1>16. CASE UNCHANGED vars
  BY <1>16 DEF vars
<1>17. QED
  BY <1>1, <1>2, <1>3, <1>4, <1>5, <1>6, <1>7, <1>8, <1>9, <1>10, <1>11,
     <1>12, <1>13, <1>14, <1>15, <1>16 DEF Next, AgentStep, AdminStep

\* Every reachable state has its type.
THEOREM TypeCorrect == Spec => []TypeOK
<1>1. Init => TypeOK
  BY PipelineAssumption DEF Init, TypeOK, NoRing, Row
<1>2. QED
  BY <1>1, TypeInductive, PTL DEF Spec
-----------------------------------------------------------------------------
(* No report enters two averages, whatever the environment does *)

\* A step other than the three of a handler only forgets, and it records the
\* reports it forgets.
Forgets ==
  /\ inflight' \subseteq inflight
  /\ accepted' = accepted
  /\ dropped \subseteq dropped'
  /\ \A u \in Servers :
       /\ sent'[u] >= sent[u]
       /\ history'[u] \subseteq history[u]
       /\ ring'[u] \in {ring[u], NoRing}
       /\ ring'[u] = ring[u] \/ ring[u].samples \subseteq dropped'
       /\ \A r \in history[u] \ history'[u] :
            /\ r.samples \subseteq dropped'
            /\ u \in deleting \/ r.time < now - Retention

\* What the aggregation part of Hub.Ingest does to the ring and the rows.
Aggregates(q) ==
  /\ dropped \subseteq dropped'
  /\ \/ /\ ring[q.from].time = BucketOf(q.at)
        /\ ring' = Accumulate(q)
        /\ history' = history
     \/ /\ ring[q.from].time # BucketOf(q.at)
        /\ ring' = Restarted(q)
        /\ \/ /\ ring[q.from].samples \subseteq dropped'
              /\ history' = history
           \/ /\ ring[q.from].samples # {}
              /\ history' =
                   [history EXCEPT ![q.from] = SaveMinute(@, ring[q.from])]

\* Every step is a step of a handler or forgets.
LEMMA StepKinds ==
  ASSUME TypeOK, [Next]_vars
  PROVE  \/ \E u \in Servers : Authenticate(u)
         \/ \E q \in inflight : Stamp(q)
         \/ \E q \in inflight : q.stage = "stamped" /\ Observe(q) /\ Aggregates(q)
         \/ Forgets
<1> USE DEF TypeOK, store, hub, agents, ghosts, Forgets
<1>1. ASSUME NEW u \in Servers, Refuse(u) PROVE Forgets
  BY <1>1 DEF Refuse
<1>2. ASSUME NEW u \in Servers, AgentTimeout(u) PROVE Forgets
  BY <1>2 DEF AgentTimeout
<1>3. ASSUME NEW q \in inflight, Ingest(q)
      PROVE  q.stage = "stamped" /\ Observe(q) /\ Aggregates(q)
  BY <1>3 DEF Ingest, IngestIntoBucket, IngestFirst, IngestFlush,
              IngestFlushFails, Aggregates, StartsBucket
<1>4. ASSUME NEW u \in Servers, AdminStep(u) PROVE Forgets
  <2>1. CASE CreateServer(u)
    BY <2>1 DEF CreateServer
  <2>2. CASE ResetToken(u) \/ Reconfigure(u)
    BY <2>2 DEF ResetToken, Reconfigure
  <2>3. CASE DeleteServerRow(u)
    BY <2>3 DEF DeleteServerRow
  <2>4. CASE DeleteHistory(u)
    <3>1. /\ history' = [history EXCEPT ![u] = {}]
          /\ dropped' = dropped \cup SamplesOf(history[u])
          /\ u \in deleting
          /\ UNCHANGED <<sent, ring, inflight, accepted>>
      BY <2>4 DEF DeleteHistory, DeletionGoesOn
    <3>2. \A r \in history[u] : r.samples \subseteq dropped'
      BY <3>1 DEF SamplesOf
    <3>3. QED
      BY <3>1, <3>2
  <2>5. CASE DeleteHistoryFails(u)
    BY <2>5 DEF DeleteHistoryFails, DeletionGoesOn
  <2>6. QED
    BY <1>4, <2>1, <2>2, <2>3, <2>4, <2>5 DEF AdminStep
<1>5. ASSUME PruneHistory PROVE Forgets
  <2>1. /\ history' = [u \in Servers |-> history[u] \ Expired(u)]
        /\ dropped' = dropped \cup UNION {SamplesOf(Expired(u)) : u \in Servers}
        /\ UNCHANGED <<sent, ring, inflight, accepted>>
    BY <1>5 DEF PruneHistory
  <2>2. ASSUME NEW u \in Servers, NEW r \in history[u] \ history'[u]
        PROVE  r.samples \subseteq dropped' /\ r.time < now - Retention
    BY <2>1, <2>2 DEF SamplesOf, Expired
  <2>3. QED
    BY <2>1, <2>2
<1>6. ASSUME Tick \/ ClockStep PROVE Forgets
  BY <1>6 DEF Tick, ClockStep
<1>7. ASSUME Restart PROVE Forgets
  BY <1>7 DEF Restart
<1>8. CASE UNCHANGED vars
  BY <1>8 DEF vars
<1>9. QED
  BY <1>1, <1>2, <1>3, <1>4, <1>5, <1>6, <1>7, <1>8 DEF Next, AgentStep

\* A request in flight has a number of its own, which no ingested report has.
Fresh ==
  /\ \A q \in inflight : q.seq <= sent[q.from]
  /\ \A q1, q2 \in inflight : q1.from = q2.from /\ q1.seq = q2.seq => q1 = q2
  /\ \A s \in accepted :
       /\ s.seq <= sent[s.from]
       /\ \A q \in inflight : ~(q.from = s.from /\ q.seq = s.seq)

\* Only ingested reports are in the rings and the rows.
Known ==
  \A u \in Servers :
    \A r \in history[u] \cup {ring[u]} : r.samples \subseteq accepted

\* The inductive invariant
OnceInv == TypeOK /\ Fresh /\ Known /\ MinutesPure /\ CountedOnce

\* The numbers of requests stay unique.
LEMMA FreshInductive == OnceInv /\ [Next]_vars => Fresh'
<1> SUFFICES ASSUME OnceInv, [Next]_vars PROVE Fresh'
  OBVIOUS
<1> USE DEF OnceInv, TypeOK
<1>1. ASSUME NEW u \in Servers, Authenticate(u) PROVE Fresh'
  <2> DEFINE new == [from |-> u, seq |-> sent[u] + 1, stage |-> "authed",
                     at |-> 0]
  <2>1. /\ sent' = [sent EXCEPT ![u] = @ + 1]
        /\ inflight' = inflight \cup {new}
        /\ accepted' = accepted
    BY <1>1 DEF Authenticate, Collected, ghosts
  <2>2. \A v \in Servers : sent[v] \in Nat /\ sent'[v] \in Nat
                           /\ sent[v] <= sent'[v]
    BY <2>1
  <2>3. \A q \in inflight : q.from \in Servers /\ q.seq \in Nat
                            /\ q.seq <= sent[q.from]
    BY DEF Fresh, Request
  <2>4. \A s \in accepted : s.from \in Servers /\ s.seq \in Nat
                            /\ s.seq <= sent[s.from]
    BY DEF Fresh, Sample
  <2>5. \A q \in inflight' : q.seq <= sent'[q.from]
    BY <2>1, <2>2, <2>3
  <2>6. \A q1, q2 \in inflight' :
          q1.from = q2.from /\ q1.seq = q2.seq => q1 = q2
    BY <2>1, <2>3 DEF Fresh
  <2>7. \A s \in accepted' : \A q \in inflight' :
          ~(q.from = s.from /\ q.seq = s.seq)
    BY <2>1, <2>4 DEF Fresh
  <2>8. \A s \in accepted' : s.seq <= sent'[s.from]
    BY <2>1, <2>2, <2>4
  <2>9. QED
    BY <2>5, <2>6, <2>7, <2>8 DEF Fresh
<1>2. ASSUME NEW q \in inflight, Stamp(q) PROVE Fresh'
  <2> DEFINE new == [from |-> q.from, seq |-> q.seq, stage |-> "stamped",
                     at |-> now]
  <2>1. /\ inflight' = (inflight \ {q}) \cup {new}
        /\ new.from = q.from /\ new.seq = q.seq
        /\ sent' = sent /\ accepted' = accepted
    BY <1>2 DEF Stamp, agents, ghosts
  <2> HIDE DEF new
  <2>2. QED
    BY <2>1 DEF Fresh
<1>3. ASSUME NEW q \in inflight, Observe(q) PROVE Fresh'
  <2>1. /\ inflight' = inflight \ {q}
        /\ accepted' = accepted \cup {SampleOf(q)}
        /\ sent' = sent
    BY <1>3 DEF Observe
  <2>2. SampleOf(q).from = q.from /\ SampleOf(q).seq = q.seq
    BY DEF SampleOf
  <2>3. QED
    BY <2>1, <2>2 DEF Fresh
<1>4. ASSUME Forgets PROVE Fresh'
  <2>1. \A q \in inflight : q.from \in Servers /\ q.seq \in Nat
    BY DEF Request
  <2>2. \A s \in accepted : s.from \in Servers /\ s.seq \in Nat
    BY DEF Sample
  <2>3. \A v \in Servers : sent'[v] \in Nat
    BY TypeInductive
  <2>4. QED
    BY <1>4, <2>1, <2>2, <2>3 DEF Fresh, Forgets
<1>5. QED
  BY <1>1, <1>2, <1>3, <1>4, StepKinds
\* What an ingesting step adds to the ring and the rows of its server.
LEMMA AggregatesFacts ==
  ASSUME TypeOK, NEW q \in inflight, Aggregates(q)
  PROVE  /\ \A u \in Servers : u # q.from =>
              ring'[u] = ring[u] /\ history'[u] = history[u]
         /\ q.from \in Servers
         /\ \/ /\ ring[q.from].time = BucketOf(q.at)
               /\ ring'[q.from] =
                    [time    |-> BucketOf(q.at),
                     samples |-> ring[q.from].samples \cup {SampleOf(q)}]
               /\ history'[q.from] = history[q.from]
            \/ /\ ring[q.from].time # BucketOf(q.at)
               /\ ring'[q.from] = [time    |-> BucketOf(q.at),
                                   samples |-> {SampleOf(q)}]
               /\ \/ /\ ring[q.from].samples \subseteq dropped'
                     /\ history'[q.from] = history[q.from]
                  \/ /\ ring[q.from].samples # {}
                     /\ history'[q.from] =
                          {r \in history[q.from] : r.time # ring[q.from].time}
                            \cup {ring[q.from]}
<1>1. q.from \in Servers
  BY DEF TypeOK, Request
<1>2. ring \in [Servers -> Row] /\ history \in [Servers -> SUBSET Row]
  BY DEF TypeOK
<1>3. CASE ring[q.from].time = BucketOf(q.at) /\ ring' = Accumulate(q)
           /\ history' = history
  BY <1>1, <1>2, <1>3 DEF Accumulate
<1>4. CASE /\ ring[q.from].time # BucketOf(q.at)
           /\ ring' = Restarted(q)
           /\ ring[q.from].samples \subseteq dropped'
           /\ history' = history
  BY <1>1, <1>2, <1>4 DEF Restarted
<1>5. CASE /\ ring[q.from].time # BucketOf(q.at)
           /\ ring' = Restarted(q)
           /\ ring[q.from].samples # {}
           /\ history' = [history EXCEPT ![q.from] =
                            SaveMinute(@, ring[q.from])]
  BY <1>1, <1>2, <1>5 DEF Restarted, SaveMinute
<1>6. QED
  BY <1>3, <1>4, <1>5 DEF Aggregates

\* After it, a row or ring is one there was before, or the server's new ring,
\* which holds the report and at most what the ring of that minute held.
LEMMA RowsAfter ==
  ASSUME TypeOK, NEW q \in inflight, Aggregates(q),
         NEW u \in Servers, NEW r \in history'[u] \cup {ring'[u]}
  PROVE  \/ r \in history[u] \cup {ring[u]}
         \/ /\ u = q.from
            /\ r.time = BucketOf(q.at)
            /\ \/ r.samples = {SampleOf(q)}
               \/ /\ ring[u].time = BucketOf(q.at)
                  /\ r.samples = ring[u].samples \cup {SampleOf(q)}
<1>1. CASE u # q.from
  BY <1>1, AggregatesFacts
<1>2. CASE u = q.from /\ r = ring'[u]
  <2>1. \/ /\ ring[u].time = BucketOf(q.at)
           /\ r = [time    |-> BucketOf(q.at),
                   samples |-> ring[u].samples \cup {SampleOf(q)}]
        \/ r = [time |-> BucketOf(q.at), samples |-> {SampleOf(q)}]
    BY <1>2, AggregatesFacts
  <2>2. QED
    BY <1>2, <2>1
<1>3. CASE u = q.from /\ r \in history'[u]
  BY <1>3, AggregatesFacts
<1>4. QED
  BY <1>1, <1>2, <1>3

\* Nothing but ingested reports gets into the rings and the rows.
LEMMA KnownInductive == OnceInv /\ [Next]_vars => Known'
<1> SUFFICES ASSUME OnceInv, [Next]_vars PROVE Known'
  OBVIOUS
<1> USE DEF OnceInv
<1>1. ASSUME UNCHANGED <<history, ring, accepted>> PROVE Known'
  BY <1>1 DEF Known
<1>2. ASSUME NEW u \in Servers, Authenticate(u) PROVE Known'
  BY <1>1, <1>2 DEF Authenticate, Collected, store, hub, ghosts
<1>3. ASSUME NEW q \in inflight, Stamp(q) PROVE Known'
  BY <1>1, <1>3 DEF Stamp, store, hub, ghosts
<1>4. ASSUME NEW q \in inflight, Observe(q), Aggregates(q) PROVE Known'
  <2>1. accepted' = accepted \cup {SampleOf(q)}
    BY <1>4 DEF Observe
  <2>2. QED
    BY <1>4, <2>1, RowsAfter DEF Known
<1>5. ASSUME Forgets PROVE Known'
  BY <1>5 DEF Known, Forgets, NoRing
<1>6. QED
  BY <1>2, <1>3, <1>4, <1>5, StepKinds

\* The averages stay pure.
LEMMA PureInductive == OnceInv /\ [Next]_vars => MinutesPure'
<1> SUFFICES ASSUME OnceInv, [Next]_vars PROVE MinutesPure'
  OBVIOUS
<1> USE DEF OnceInv
<1>1. ASSUME UNCHANGED <<history, ring>> PROVE MinutesPure'
  BY <1>1 DEF MinutesPure
<1>2. ASSUME NEW u \in Servers, Authenticate(u) PROVE MinutesPure'
  BY <1>1, <1>2 DEF Authenticate, Collected, store, hub
<1>3. ASSUME NEW q \in inflight, Stamp(q) PROVE MinutesPure'
  BY <1>1, <1>3 DEF Stamp, store, hub
<1>4. ASSUME NEW q \in inflight, Aggregates(q) PROVE MinutesPure'
  <2>1. SampleOf(q).from = q.from /\ SampleOf(q).at = q.at
    BY DEF SampleOf
  <2>2. ASSUME NEW u \in Servers, NEW r \in history'[u] \cup {ring'[u]},
               NEW s \in r.samples
        PROVE  s.from = u /\ BucketOf(s.at) = r.time
    BY <1>4, <2>1, <2>2, RowsAfter DEF MinutesPure
  <2>3. ASSUME NEW u \in Servers, NEW r \in history'[u]
        PROVE  r.samples # {}
    <3>1. CASE u # q.from
      BY <1>4, <2>3, <3>1, AggregatesFacts DEF MinutesPure
    <3>2. CASE u = q.from
      <4>1. \/ history'[u] = history[u]
            \/ /\ ring[u].samples # {}
               /\ history'[u] = {p \in history[u] : p.time # ring[u].time}
                                  \cup {ring[u]}
        BY <1>4, <3>2, AggregatesFacts
      <4>2. QED
        BY <2>3, <4>1 DEF MinutesPure
    <3>3. QED
      BY <3>1, <3>2
  <2>4. QED
    BY <2>2, <2>3 DEF MinutesPure
<1>5. ASSUME Forgets PROVE MinutesPure'
  BY <1>5 DEF MinutesPure, Forgets, NoRing
<1>6. QED
  BY <1>2, <1>3, <1>4, <1>5, StepKinds

\* No report gets into a second average.
LEMMA CountedInductive == OnceInv /\ [Next]_vars => CountedOnce'
<1> SUFFICES ASSUME OnceInv, [Next]_vars PROVE CountedOnce'
  OBVIOUS
<1> USE DEF OnceInv
<1>1. ASSUME UNCHANGED <<history, ring>> PROVE CountedOnce'
  BY <1>1 DEF CountedOnce
<1>2. ASSUME NEW u \in Servers, Authenticate(u) PROVE CountedOnce'
  BY <1>1, <1>2 DEF Authenticate, Collected, store, hub
<1>3. ASSUME NEW q \in inflight, Stamp(q) PROVE CountedOnce'
  BY <1>1, <1>3 DEF Stamp, store, hub
<1>4. ASSUME NEW q \in inflight, Aggregates(q) PROVE CountedOnce'
  <2>1. SampleOf(q) \notin accepted
    BY DEF Fresh, SampleOf
  <2>2. \A r \in history[q.from] \cup {ring[q.from]} : SampleOf(q) \notin r.samples
    BY <1>4, <2>1, AggregatesFacts DEF Known
  <2>3. ASSUME NEW u \in Servers, u # q.from
        PROVE  ring'[u] = ring[u] /\ history'[u] = history[u]
    BY <1>4, <2>3, AggregatesFacts
  <2>4. ASSUME NEW r1 \in history'[q.from]
        PROVE  /\ r1.samples \cap ring'[q.from].samples = {}
               /\ \A r2 \in history'[q.from] \ {r1} :
                    r1.time # r2.time /\ r1.samples \cap r2.samples = {}
    <3> DEFINE u == q.from
    <3>1. u \in Servers
      BY <1>4, AggregatesFacts
    <3>2. CASE /\ ring'[u] = [time    |-> BucketOf(q.at),
                              samples |-> ring[u].samples \cup {SampleOf(q)}]
               /\ history'[u] = history[u]
      BY <2>2, <2>4, <3>1, <3>2 DEF CountedOnce
    <3>3. CASE /\ ring'[u] = [time    |-> BucketOf(q.at),
                              samples |-> {SampleOf(q)}]
               /\ history'[u] = history[u]
      BY <2>2, <2>4, <3>1, <3>3 DEF CountedOnce
    <3>4. CASE /\ ring'[u] = [time    |-> BucketOf(q.at),
                              samples |-> {SampleOf(q)}]
               /\ history'[u] = {r \in history[u] : r.time # ring[u].time}
                                  \cup {ring[u]}
      BY <2>2, <2>4, <3>1, <3>4 DEF CountedOnce
    <3>5. QED
      BY <1>4, <3>2, <3>3, <3>4, AggregatesFacts
  <2>5. QED
    BY <2>3, <2>4 DEF CountedOnce
<1>5. ASSUME Forgets PROVE CountedOnce'
  BY <1>5 DEF CountedOnce, Forgets, NoRing
<1>6. QED
  BY <1>2, <1>3, <1>4, <1>5, StepKinds

\* The invariant holds in every reachable state.
LEMMA OnceInvariant == Spec => []OnceInv
<1>1. Init => OnceInv
  <2>1. Init => TypeOK
    BY PipelineAssumption DEF Init, TypeOK, NoRing, Row
  <2>2. QED
    BY <2>1 DEF Init, OnceInv, Fresh, Known, MinutesPure, CountedOnce, NoRing
<1>2. OnceInv /\ [Next]_vars => OnceInv'
  BY TypeInductive, FreshInductive, KnownInductive, PureInductive,
     CountedInductive DEF OnceInv
<1>3. QED
  BY <1>1, <1>2, PTL DEF Spec

\* Averages never mix servers or minutes, with any faults: handlers that
\* overtake one another, a clock that is set back, failed writes, restarts.
THEOREM PureAverages == Spec => []MinutesPure
BY OnceInvariant, PTL DEF OnceInv

\* No report enters two averages, with any faults.
THEOREM NoDoubleCount == Spec => []CountedOnce
BY OnceInvariant, PTL DEF OnceInv
\* A deleted server falls silent, with any faults: the handlers that had
\* authenticated before are the only way anything of it can still be written.
THEOREM DeletedFallsSilent == Spec => RevokedIsSilent
<1> DEFINE Silent(u) ==
      u \notin registered' /\ ~(\E q \in inflight : q.from = u) =>
        /\ ~(\E q \in inflight' : q.from = u)
        /\ history'[u] \subseteq history[u]
        /\ ring'[u] \in {ring[u], NoRing}
<1>1. ASSUME TypeOK, [Next]_vars, NEW u \in Servers PROVE Silent(u)
  <2>1. ASSUME NEW v \in Servers, Authenticate(v) PROVE Silent(u)
    BY <2>1 DEF Authenticate, Collected, ServerUUIDByToken, store, hub
  <2>2. ASSUME NEW q \in inflight, Stamp(q) PROVE Silent(u)
    BY <2>2 DEF Stamp, store, hub
  <2>3. ASSUME NEW q \in inflight, Observe(q), Aggregates(q) PROVE Silent(u)
    BY <1>1, <2>3, AggregatesFacts DEF Observe
  <2>4. ASSUME Forgets PROVE Silent(u)
    BY <2>4 DEF Forgets
  <2>5. QED
    BY <1>1, <2>1, <2>2, <2>3, <2>4, StepKinds
<1>2. TypeOK /\ [Next]_vars => [\A u \in Servers : Silent(u)]_vars
  BY <1>1
<1>3. QED
  BY <1>2, TypeCorrect, PTL DEF Spec, RevokedIsSilent

-----------------------------------------------------------------------------
(* What nothing records is a replaced minute *)

\* A step that loses a stored report, and does not record it, flushes the ring
\* over the row of the report's minute.
LEMMA LossKinds ==
  ASSUME OnceInv, [Next]_vars, NEW s \in accepted,
         Stored(s), ~Stored(s)', s \notin dropped'
  PROVE  /\ ring[s.from].time = BucketOf(s.at)
         /\ ring[s.from] \in history'[s.from] \ history[s.from]
<1> DEFINE u == s.from
<1> USE DEF OnceInv
<1>1. u \in Servers
  BY DEF TypeOK, Sample
<1>2. PICK r \in history[u] \cup {ring[u]} : s \in r.samples
  BY DEF Stored
<1>3. ring'[u] # r /\ r \notin history'[u]
  BY <1>2 DEF Stored
<1>4. ASSUME NEW v \in Servers, Authenticate(v) PROVE FALSE
  BY <1>2, <1>3, <1>4 DEF Authenticate, store, hub
<1>5. ASSUME NEW q \in inflight, Stamp(q) PROVE FALSE
  BY <1>2, <1>3, <1>5 DEF Stamp, store, hub
<1>6. ASSUME NEW q \in inflight, Aggregates(q)
      PROVE  /\ ring[u].time = BucketOf(s.at)
             /\ ring[u] \in history'[u] \ history[u]
  <2>1. u = q.from
    BY <1>1, <1>2, <1>3, <1>6, AggregatesFacts
  <2>2. CASE ring'[u].samples = ring[u].samples \cup {SampleOf(q)}
             /\ history'[u] = history[u]
    BY <1>2, <1>3, <2>2 DEF Stored
  <2>3. CASE ring[u].samples \subseteq dropped' /\ history'[u] = history[u]
    BY <1>2, <1>3, <2>3
  <2>4. CASE /\ ring[u].samples # {}
             /\ history'[u] = {p \in history[u] : p.time # ring[u].time}
                                \cup {ring[u]}
    <3>1. r \in history[u] /\ r.time = ring[u].time
      BY <1>2, <1>3, <2>4
    <3>2. r.time = BucketOf(s.at)
      BY <1>1, <1>2, <3>1 DEF MinutesPure
    <3>3. ring[u] \notin history[u]
      BY <1>1, <2>4 DEF CountedOnce
    <3>4. QED
      BY <2>4, <3>1, <3>2, <3>3
  <2>5. \/ /\ ring'[u] = [time    |-> BucketOf(q.at),
                         samples |-> ring[u].samples \cup {SampleOf(q)}]
           /\ history'[u] = history[u]
        \/ ring[u].samples \subseteq dropped' /\ history'[u] = history[u]
        \/ /\ ring[u].samples # {}
           /\ history'[u] = {p \in history[u] : p.time # ring[u].time}
                              \cup {ring[u]}
    <3>1. TypeOK
      OBVIOUS
    <3>2. \/ /\ ring'[q.from] = [time    |-> BucketOf(q.at),
                                 samples |-> ring[q.from].samples
                                               \cup {SampleOf(q)}]
             /\ history'[q.from] = history[q.from]
          \/ ring[q.from].samples \subseteq dropped'
             /\ history'[q.from] = history[q.from]
          \/ /\ ring[q.from].samples # {}
             /\ history'[q.from] =
                  {p \in history[q.from] : p.time # ring[q.from].time}
                    \cup {ring[q.from]}
      <4> HIDE DEF OnceInv, TypeOK
      <4>1. QED
        BY <1>6, <3>1, AggregatesFacts
    <3>3. QED
      BY <2>1, <3>2 DEF u
  <2>6. QED
    BY <2>2, <2>3, <2>4, <2>5
<1>7. ASSUME Forgets PROVE FALSE
  <2>1. CASE r \in history[u]
    BY <1>1, <1>2, <1>3, <1>7, <2>1 DEF Forgets
  <2>2. CASE r = ring[u]
    BY <1>1, <1>2, <1>3, <1>7, <2>2 DEF Forgets
  <2>3. QED
    BY <1>2, <2>1, <2>2
<1>8. QED
  BY <1>4, <1>5, <1>6, <1>7, StepKinds

\* Whatever the handlers, the clock, the administrator and the store do, a
\* stored report is lost only with a cause on record, or with the row of its
\* minute, which the ring started again for that minute replaces (SaveMinute).
THEOREM LostByReplacement == Spec => LossIsReplacement
<1>1. OnceInv /\ [Next]_vars =>
        [\A s \in accepted :
           Stored(s) /\ ~Stored(s)' /\ s \notin dropped' =>
             /\ ring[s.from].time = BucketOf(s.at)
             /\ ring[s.from] \in history'[s.from] \ history[s.from]]_vars
  BY LossKinds
<1>2. QED
  BY <1>1, OnceInvariant, PTL DEF Spec, LossIsReplacement

-----------------------------------------------------------------------------
(* Nothing is lost when an agent has one request at a time and time passes *)

\* No agent gives up on a request, and the clock is never set back.
Orderly == Faults \cap {"agentTimeout", "clockStep"} = {}

\* The request in flight is the one its agent waits for.
OneRequest ==
  \A q \in inflight : waiting[q.from] /\ q.seq = sent[q.from]

\* Stored minutes lie before the ring's, and before the minute of the report
\* in flight; the ring's minute is no later than the report's or the clock's.
Ordered ==
  /\ \A u \in Servers :
       /\ ring[u].time <= BucketOf(now)
       /\ \A r \in history[u] :
            /\ r.time < BucketOf(now)
            /\ ring[u].samples # {} => r.time < ring[u].time
  /\ \A q \in inflight :
       q.stage = "stamped" =>
         /\ q.at <= now
         /\ ring[q.from].time <= BucketOf(q.at)
         /\ \A r \in history[q.from] : r.time < BucketOf(q.at)

\* The inductive invariant
OrderInv == OnceInv /\ OneRequest /\ Ordered

\* Agents stay in step with their requests.
LEMMA OneRequestInductive ==
  ASSUME Orderly, OrderInv, [Next]_vars
  PROVE  OneRequest'
<1> USE DEF OrderInv, OnceInv, TypeOK, store, hub, agents, ghosts
<1>0. \A q \in inflight : q.from \in Servers /\ q.seq \in Nat
  BY DEF Request
<1>1. ASSUME UNCHANGED <<inflight, sent, waiting>> PROVE OneRequest'
  BY <1>1 DEF OneRequest
<1>2. ASSUME NEW u \in Servers, Authenticate(u) PROVE OneRequest'
  BY <1>0, <1>2 DEF Authenticate, Collected, OneRequest
<1>3. ASSUME NEW u \in Servers, Refuse(u) PROVE OneRequest'
  BY <1>0, <1>3 DEF Refuse, OneRequest
<1>4. ASSUME NEW q \in inflight, Stamp(q) PROVE OneRequest'
  BY <1>4 DEF Stamp, OneRequest
<1>5. ASSUME NEW q \in inflight, Observe(q) PROVE OneRequest'
  <2>1. \A p \in inflight' : p \in inflight /\ p.from # q.from
    BY <1>5 DEF Observe, OneRequest, Fresh
  <2>2. QED
    BY <1>0, <1>5, <2>1 DEF Observe, OneRequest
<1>6. ASSUME NEW u \in Servers, AdminStep(u) PROVE OneRequest'
  BY <1>1, <1>6 DEF AdminStep, CreateServer, ResetToken, Reconfigure,
                    DeleteServerRow, DeleteHistory, DeleteHistoryFails,
                    DeletionGoesOn
<1>7. CASE PruneHistory \/ Tick \/ ClockStep
  BY <1>1, <1>7 DEF PruneHistory, Tick, ClockStep
<1>8. CASE Restart
  BY <1>8 DEF Restart, OneRequest
<1>9. CASE UNCHANGED vars
  BY <1>1, <1>9 DEF vars
<1>10. ASSUME NEW u \in Servers PROVE ~AgentTimeout(u)
  BY DEF Orderly, AgentTimeout
<1>11. ASSUME NEW q \in inflight, Ingest(q) PROVE Observe(q)
  BY <1>11 DEF Ingest, IngestIntoBucket, IngestFirst, IngestFlush,
               IngestFlushFails
<1>12. QED
  BY <1>2, <1>3, <1>4, <1>5, <1>6, <1>7, <1>8, <1>9, <1>10, <1>11
     DEF Next, AgentStep

\* The clock only goes forward.
LEMMA ClockForward ==
  ASSUME Orderly, TypeOK, [Next]_vars
  PROVE  now' \in Nat /\ now <= now'
<1>1. now' \in Nat
  BY TypeInductive DEF TypeOK
<1>2. ASSUME NEW q \in inflight, Ingest(q) PROVE now' = now
  BY <1>2 DEF Ingest, IngestIntoBucket, IngestFirst, IngestFlush,
              IngestFlushFails, Observe
<1>3. ~ClockStep
  BY DEF Orderly, ClockStep
<1>4. ASSUME NEW u \in Servers, AgentStep(u) \/ AdminStep(u) PROVE now' = now
  BY <1>4 DEF AgentStep, Authenticate, Collected, Refuse, AgentTimeout, AdminStep,
              CreateServer, ResetToken, Reconfigure, DeleteServerRow,
              DeleteHistory, DeleteHistoryFails, DeletionGoesOn
<1>5. QED
  BY <1>1, <1>2, <1>3, <1>4
     DEF Next, Stamp, PruneHistory, Tick, Restart, vars, TypeOK

\* The minutes stay in order.
LEMMA OrderedInductive ==
  ASSUME Orderly, OrderInv, [Next]_vars
  PROVE  Ordered'
<1> USE DEF OrderInv, OnceInv
<1>1. now \in Nat /\ now' \in Nat /\ now <= now'
  BY ClockForward DEF TypeOK
<1>2. /\ BucketOf(now) \in Nat /\ BucketOf(now') \in Nat
      /\ BucketOf(now) <= BucketOf(now')
  BY <1>1, BucketType, BucketMonotone
<1>3. \A u \in Servers : /\ ring[u].time \in Int
                         /\ \A r \in history[u] : r.time \in Int
  BY DEF TypeOK, Row
<1>4. \A q \in inflight : q.from \in Servers /\ q.at \in Nat
  BY DEF TypeOK, Request
<1>5. ASSUME NEW q \in inflight PROVE BucketOf(q.at) \in Nat
  BY <1>4, BucketType
<1>6. ASSUME NEW u \in Servers, Authenticate(u) PROVE Ordered'
  <2>1. /\ inflight' = inflight \cup {[from |-> u, seq |-> sent[u] + 1,
                                       stage |-> "authed", at |-> 0]}
        /\ UNCHANGED <<now, ring, history>>
    BY <1>6 DEF Authenticate, Collected, store, hub
  <2>2. QED
    BY <2>1 DEF Ordered
<1>7. ASSUME NEW q \in inflight, Stamp(q) PROVE Ordered'
  <2>1. /\ inflight' = (inflight \ {q}) \cup
             {[from |-> q.from, seq |-> q.seq, stage |-> "stamped", at |-> now]}
        /\ UNCHANGED <<now, ring, history>>
    BY <1>7 DEF Stamp, store, hub
  <2>2. QED
    BY <1>1, <1>4, <2>1 DEF Ordered
<1>8. ASSUME NEW q \in inflight, q.stage = "stamped", Observe(q), Aggregates(q)
      PROVE  Ordered'
  <2> DEFINE u == q.from
             b == BucketOf(q.at)
  <2>1. /\ inflight' = inflight \ {q}
        /\ now' = now
    BY <1>8 DEF Observe
  <2>2. \A p \in inflight' : p \in inflight /\ p.from # u
    BY <2>1 DEF OneRequest, Fresh
  <2>3. /\ u \in Servers /\ b \in Nat /\ b <= BucketOf(now)
        /\ ring[u].time <= b
        /\ \A r \in history[u] : r.time < b
    BY <1>1, <1>4, <1>5, <1>8, BucketMonotone DEF Ordered
  <2>4. ASSUME NEW v \in Servers, v # u
        PROVE  ring'[v] = ring[v] /\ history'[v] = history[v]
    BY <1>8, <2>4, AggregatesFacts
  <2>5. /\ ring'[u].time = b
        /\ \A r \in history'[u] :
             r \in history[u] \/ (r = ring[u] /\ ring[u].time # b)
    <3>1. \/ ring'[u] = [time    |-> b,
                         samples |-> ring[u].samples \cup {SampleOf(q)}]
          \/ ring'[u] = [time |-> b, samples |-> {SampleOf(q)}]
      BY <1>8, AggregatesFacts
    <3>2. \/ history'[u] = history[u]
          \/ /\ ring[u].time # b
             /\ history'[u] = {r \in history[u] : r.time # ring[u].time}
                                \cup {ring[u]}
      BY <1>8, AggregatesFacts
    <3>3. QED
      BY <3>1, <3>2
  <2>6. \A r \in history'[u] : r.time < b
    BY <1>3, <2>3, <2>5
  <2>7. \A r \in history'[u] : r.time < BucketOf(now)
    <3>1. \A r \in history'[u] : r.time \in Int
      BY <1>3, <2>3, <2>5
    <3>2. QED
      BY <1>2, <2>3, <2>6, <3>1
  <2> HIDE DEF u, b
  <2>8. QED
    BY <2>1, <2>2, <2>3, <2>4, <2>5, <2>6, <2>7, <1>4 DEF Ordered
<1>9. ASSUME Forgets PROVE Ordered'
  <2>1. ASSUME NEW u \in Servers
        PROVE  /\ ring'[u] \in {ring[u], NoRing}
               /\ history'[u] \subseteq history[u]
    BY <1>9 DEF Forgets
  <2>2. inflight' \subseteq inflight
    BY <1>9 DEF Forgets
  <2>3. ASSUME NEW u \in Servers
        PROVE  /\ ring'[u].time <= BucketOf(now')
               /\ \A r \in history'[u] :
                    /\ r.time < BucketOf(now')
                    /\ ring'[u].samples # {} => r.time < ring'[u].time
    BY <1>2, <1>3, <2>1 DEF Ordered, NoRing
  <2>4. ASSUME NEW q \in inflight', q.stage = "stamped"
        PROVE  /\ q.at <= now'
               /\ ring'[q.from].time <= BucketOf(q.at)
               /\ \A r \in history'[q.from] : r.time < BucketOf(q.at)
    BY <1>1, <1>4, <1>5, <2>1, <2>2, <2>4 DEF Ordered, NoRing
  <2>5. QED
    BY <2>3, <2>4 DEF Ordered
<1>10. QED
  BY <1>6, <1>7, <1>8, <1>9, StepKinds

\* The invariant holds in every reachable state.
LEMMA OrderInvariant ==
  ASSUME Orderly
  PROVE  Spec => []OrderInv
<1>1. Init => OneRequest /\ Ordered
  <2>1. BucketOf(Start) \in Nat
    BY PipelineAssumption, BucketType
  <2>2. QED
    BY <2>1 DEF Init, OneRequest, Ordered, NoRing
<1>2. OrderInv /\ [Next]_vars /\ OnceInv' => OrderInv'
  BY OneRequestInductive, OrderedInductive DEF OrderInv
<1>3. OrderInv <=> OnceInv /\ OneRequest /\ Ordered
  BY DEF OrderInv
<1>4. QED
  BY <1>1, <1>2, <1>3, OnceInvariant, PTL DEF Spec

\* Between its being written and its being pruned or its server's deletion, a
\* minute is never replaced, when handlers do not overtake one another.
THEOREM MinutesAreFinal ==
  ASSUME Orderly
  PROVE  Spec => NeverOverwritten
<1> DEFINE Kept(u) == \A r \in history[u] : \/ r \in history'[u]
                                            \/ r.time < now - Retention
                                            \/ u \in deleting
<1>1. ASSUME OrderInv, [Next]_vars, NEW u \in Servers PROVE Kept(u)
  <2> USE DEF OrderInv, OnceInv
  <2>1. ASSUME UNCHANGED history PROVE Kept(u)
    BY <2>1
  <2>2. ASSUME NEW v \in Servers, Authenticate(v) PROVE Kept(u)
    BY <2>1, <2>2 DEF Authenticate, Collected, store
  <2>3. ASSUME NEW q \in inflight, Stamp(q) PROVE Kept(u)
    BY <2>1, <2>3 DEF Stamp, store
  <2>4. ASSUME NEW q \in inflight, Aggregates(q) PROVE Kept(u)
    <3>1. CASE u # q.from
      BY <1>1, <2>4, <3>1, AggregatesFacts
    <3>2. CASE u = q.from /\ history'[u] = history[u]
      BY <3>2
    <3>3. CASE /\ u = q.from
               /\ ring[u].samples # {}
               /\ history'[u] = {r \in history[u] : r.time # ring[u].time}
                                  \cup {ring[u]}
      <4>1. \A r \in history[u] : /\ r.time < ring[u].time
                                  /\ r.time \in Int /\ ring[u].time \in Int
        <5>1. \A v \in Servers : ring[v].samples # {} =>
                \A r \in history[v] : r.time < ring[v].time
          BY <1>1 DEF Ordered
        <5>2. \A v \in Servers : /\ ring[v].time \in Int
                                 /\ \A r \in history[v] : r.time \in Int
          BY <1>1 DEF TypeOK, Row
        <5>3. QED
          BY <3>3, <5>1, <5>2
      <4>2. QED
        BY <3>3, <4>1
    <3>4. QED
      BY <1>1, <2>4, <3>1, <3>2, <3>3, AggregatesFacts
  <2>5. ASSUME Forgets PROVE Kept(u)
    BY <2>5 DEF Forgets
  <2>6. QED
    BY <1>1, <2>2, <2>3, <2>4, <2>5, StepKinds
<1>2. OrderInv /\ [Next]_vars => [\A u \in Servers : Kept(u)]_vars
  BY <1>1
<1>3. QED
  BY <1>2, OrderInvariant, PTL DEF Spec, NeverOverwritten

\* A step keeps every acknowledged report, or puts it on record as lost.
LEMMA NothingLostInductive ==
  ASSUME Orderly, OrderInv, NothingLost, [Next]_vars
  PROVE  NothingLost'
<1> USE DEF OrderInv, OnceInv
<1>1. SUFFICES ASSUME NEW s \in accepted'
               PROVE  Stored(s)' \/ s \in dropped'
  BY DEF NothingLost
<1>2. ASSUME s \in accepted, UNCHANGED <<history, ring, dropped>>
      PROVE  Stored(s)' \/ s \in dropped'
  BY <1>2 DEF NothingLost, Stored
<1>3. ASSUME NEW u \in Servers, Authenticate(u)
      PROVE  Stored(s)' \/ s \in dropped'
  BY <1>2, <1>3 DEF Authenticate, Collected, store, hub, ghosts
<1>4. ASSUME NEW q \in inflight, Stamp(q)
      PROVE  Stored(s)' \/ s \in dropped'
  BY <1>2, <1>4 DEF Stamp, store, hub, ghosts
<1>5. ASSUME NEW q \in inflight, Observe(q), Aggregates(q)
      PROVE  Stored(s)' \/ s \in dropped'
  <2> DEFINE u == q.from
  <2>1. /\ accepted' = accepted \cup {SampleOf(q)}
        /\ dropped \subseteq dropped'
        /\ SampleOf(q).from = u
        /\ u \in Servers
    BY <1>5, AggregatesFacts DEF Observe, Aggregates, SampleOf
  <2>2. CASE s = SampleOf(q)
    <3>1. \/ ring'[u] = [time    |-> BucketOf(q.at),
                         samples |-> ring[u].samples \cup {SampleOf(q)}]
          \/ ring'[u] = [time |-> BucketOf(q.at), samples |-> {SampleOf(q)}]
      BY <1>5, AggregatesFacts
    <3>2. QED
      BY <2>1, <2>2, <3>1 DEF Stored
  <2>3. CASE s \in accepted /\ s.from # u
    <3>1. s.from \in Servers
      BY <2>3 DEF TypeOK, Sample
    <3>2. ring'[s.from] = ring[s.from] /\ history'[s.from] = history[s.from]
      BY <1>5, <2>3, <3>1, AggregatesFacts
    <3>3. QED
      BY <2>1, <2>3, <3>2 DEF Stored, NothingLost
  <2>4. CASE s \in accepted /\ s.from = u /\ s \notin dropped
    <3>1. s \in ring[u].samples \/ \E r \in history[u] : s \in r.samples
      BY <2>4 DEF NothingLost, Stored
    <3>2. CASE /\ ring'[u] = [time    |-> BucketOf(q.at),
                              samples |-> ring[u].samples \cup {SampleOf(q)}]
               /\ history'[u] = history[u]
      BY <2>4, <3>1, <3>2 DEF Stored
    <3>3. CASE /\ ring[u].samples \subseteq dropped'
               /\ history'[u] = history[u]
      BY <2>4, <3>1, <3>3 DEF Stored
    <3>4. CASE /\ ring[u].samples # {}
               /\ history'[u] = {r \in history[u] : r.time # ring[u].time}
                                  \cup {ring[u]}
      <4>1. \A r \in history[u] : /\ r.time < ring[u].time
                                  /\ r.time \in Int /\ ring[u].time \in Int
        <5>1. \A v \in Servers : ring[v].samples # {} =>
                \A r \in history[v] : r.time < ring[v].time
          BY DEF Ordered
        <5>2. \A v \in Servers : /\ ring[v].time \in Int
                                 /\ \A r \in history[v] : r.time \in Int
          BY DEF TypeOK, Row
        <5>3. QED
          BY <2>1, <3>4, <5>1, <5>2
      <4>2. QED
        BY <2>4, <3>1, <3>4, <4>1 DEF Stored
    <3>5. QED
      BY <1>5, <3>2, <3>3, <3>4, AggregatesFacts
  <2>5. QED
    BY <1>1, <2>1, <2>2, <2>3, <2>4
<1>6. ASSUME Forgets PROVE Stored(s)' \/ s \in dropped'
  <2>1. s \in accepted /\ s.from \in Servers
    BY <1>6 DEF Forgets, TypeOK, Sample
  <2>2. QED
    BY <1>6, <2>1 DEF Forgets, NothingLost, Stored
<1>7. QED
  BY <1>3, <1>4, <1>5, <1>6, StepKinds

\* Every acknowledged report is stored or on record as lost, when handlers do
\* not overtake one another and the clock is not set back.
THEOREM NoSilentLoss ==
  ASSUME Orderly
  PROVE  Spec => []NothingLost
<1>1. Init => NothingLost
  BY DEF Init, NothingLost
<1>2. OrderInv /\ NothingLost /\ [Next]_vars => NothingLost'
  BY NothingLostInductive
<1>3. QED
  BY <1>1, <1>2, OrderInvariant, PTL DEF Spec
-----------------------------------------------------------------------------
(* The history of a server implements MinuteHistory *)

\* One server's part of a step of MinuteHistory
HistoryStep(u) ==
  History!Average(u) \/ History!Open(u) \/ History!Forget(u)

\* An ingesting step adds the report to the open minute or opens one.
LEMMA IngestingIsAStep ==
  ASSUME Orderly, OrderInv, NEW q \in inflight, q.stage = "stamped",
         Observe(q), Aggregates(q), NEW u \in Servers
  PROVE  HistoryStep(u)
<1> USE DEF OrderInv, OnceInv
<1> DEFINE s == SampleOf(q)
           b == BucketOf(q.at)
<1>1. CASE u # q.from
  BY <1>1, AggregatesFacts DEF HistoryStep, History!Forget
<1>2. CASE u = q.from
  <2>1. s \notin accepted
    BY DEF Fresh, SampleOf
  <2>2. /\ ring[u].time \in Int /\ b \in Nat
        /\ \A r \in history[u] : r.time \in Int
    BY <1>2, BucketType DEF TypeOK, Row, Request
  <2>3. /\ ring[u].time <= b
        /\ \A r \in history[u] : r.time < b
    BY <1>2 DEF Ordered
  <2>4. ring[u].samples # {} => \A r \in history[u] : r.time < ring[u].time
    BY DEF Ordered
  <2>5. CASE /\ ring[u].time = b
             /\ ring'[u] = [time    |-> b,
                            samples |-> ring[u].samples \cup {s}]
             /\ history'[u] = history[u]
    <3>1. s \in ring'[u].samples \ accepted
      BY <2>1, <2>5
    <3>2. QED
      BY <2>5, <3>1 DEF HistoryStep, History!Average
  <2>6. CASE /\ ring[u].time # b
             /\ ring'[u] = [time |-> b, samples |-> {s}]
             /\ \/ history'[u] = history[u]
                \/ /\ ring[u].samples # {}
                   /\ history'[u] = {r \in history[u] : r.time # ring[u].time}
                                      \cup {ring[u]}
    <3>1. s \in ring'[u].samples \ accepted
      BY <2>1, <2>6
    <3>2. ring'[u] = [time |-> ring'[u].time, samples |-> {s}]
      BY <2>6
    <3>3. \A r \in history[u] \cup {ring[u]} : r.time < ring'[u].time
      BY <2>2, <2>3, <2>6
    <3>4. \/ history'[u] = history[u]
          \/ /\ ring[u].samples # {}
             /\ \A r \in history[u] : r.time < ring[u].time
             /\ history'[u] = history[u] \cup {ring[u]}
      <4>1. CASE history'[u] = history[u]
        BY <4>1
      <4>2. CASE /\ ring[u].samples # {}
                 /\ history'[u] = {r \in history[u] : r.time # ring[u].time}
                                    \cup {ring[u]}
        <5>1. \A r \in history[u] : r.time < ring[u].time
          BY <2>4, <4>2
        <5>2. {r \in history[u] : r.time # ring[u].time} = history[u]
          BY <2>2, <5>1
        <5>3. QED
          BY <4>2, <5>1, <5>2
      <4>3. QED
        BY <2>6, <4>1, <4>2
    <3>5. History!Open(u)
      BY <3>1, <3>2, <3>3, <3>4 DEF History!Open
    <3>6. QED
      BY <3>5 DEF HistoryStep
  <2>7. QED
    BY <1>2, <2>5, <2>6, AggregatesFacts
<1>3. QED
  BY <1>1, <1>2

\* The reports counted grow by those of the rings.
LEMMA CountedGrows ==
  ASSUME OrderInv, OrderInv', [Next]_vars
  PROVE  accepted' = accepted \cup UNION {ring'[u].samples : u \in Servers}
<1> USE DEF OrderInv, OnceInv
<1>1. \A u \in Servers : ring'[u].samples \subseteq accepted'
  BY DEF Known
<1>2. CASE accepted' = accepted
  BY <1>1, <1>2
<1>3. ASSUME NEW q \in inflight, Observe(q), Aggregates(q)
      PROVE  accepted' = accepted \cup UNION {ring'[u].samples : u \in Servers}
  <2>1. accepted' = accepted \cup {SampleOf(q)}
    BY <1>3 DEF Observe
  <2>2. q.from \in Servers /\ SampleOf(q) \in ring'[q.from].samples
    <3>1. \/ ring'[q.from] =
               [time    |-> BucketOf(q.at),
                samples |-> ring[q.from].samples \cup {SampleOf(q)}]
          \/ ring'[q.from] = [time    |-> BucketOf(q.at),
                              samples |-> {SampleOf(q)}]
      BY <1>3, AggregatesFacts
    <3>2. QED
      BY <1>3, <3>1, AggregatesFacts
  <2>3. QED
    BY <1>1, <2>1, <2>2
<1>4. ASSUME NEW u \in Servers, Authenticate(u) PROVE accepted' = accepted
  BY <1>4 DEF Authenticate, Collected, ghosts
<1>5. ASSUME NEW q \in inflight, Stamp(q) PROVE accepted' = accepted
  BY <1>5 DEF Stamp, ghosts
<1>6. ASSUME Forgets PROVE accepted' = accepted
  BY <1>6 DEF Forgets
<1>7. QED
  BY <1>2, <1>3, <1>4, <1>5, <1>6, StepKinds

\* The pipeline implements MinuteHistory when handlers do not overtake one
\* another and the clock is not set back.
THEOREM ImplementsHistory ==
  ASSUME Orderly
  PROVE  Spec => HistorySpec
<1>1. Init => History!Init
  BY DEF Init, History!Init, History!NoMinute, NoRing
<1>2. ASSUME OrderInv, OrderInv', [Next]_vars PROVE [History!Next]_(History!vars)
  <2>1. accepted' = accepted \cup UNION {ring'[u].samples : u \in Servers}
    BY <1>2, CountedGrows
  <2>2. ASSUME NEW u \in Servers PROVE HistoryStep(u)
    <3>1. ASSUME UNCHANGED <<ring, history>> PROVE HistoryStep(u)
      BY <3>1 DEF HistoryStep, History!Forget
    <3>2. ASSUME NEW v \in Servers, Authenticate(v) PROVE HistoryStep(u)
      BY <3>1, <3>2 DEF Authenticate, Collected, store, hub
    <3>3. ASSUME NEW q \in inflight, Stamp(q) PROVE HistoryStep(u)
      BY <3>1, <3>3 DEF Stamp, store, hub
    <3>4. ASSUME NEW q \in inflight, q.stage = "stamped", Observe(q),
                 Aggregates(q)
          PROVE  HistoryStep(u)
      BY <1>2, <3>4, IngestingIsAStep
    <3>5. ASSUME Forgets PROVE HistoryStep(u)
      BY <3>5 DEF Forgets, HistoryStep, History!Forget, History!NoMinute,
                  NoRing
    <3>6. QED
      BY <1>2, <3>2, <3>3, <3>4, <3>5, StepKinds DEF OrderInv, OnceInv
  <2>3. QED
    BY <2>1, <2>2 DEF HistoryStep, History!Next
<1>3. QED
  BY <1>1, <1>2, OrderInvariant, PTL DEF Spec, HistorySpec, History!Spec
-----------------------------------------------------------------------------
(* The live view agrees with the reports *)

\* r is the buffer with a sample pushed, which made it forget d samples.
PushedAs(buf, s, r, d) ==
  /\ r = PushRecent(buf, s)
  /\ Len(r) \in 1..RecentKeep
  /\ r[Len(r)] = s
  /\ Len(r) + d = Len(buf) + 1
  /\ \A i \in 1..(Len(r) - 1) : i + d \in 1..Len(buf) /\ r[i] = buf[i + d]

\* The buffer keeps the newest samples, the new one last.
LEMMA PushRecentFacts ==
  ASSUME NEW buf \in Seq(Sample), Len(buf) <= RecentKeep, NEW s \in Sample
  PROVE  \E r \in Seq(Sample), d \in {0, 1} : PushedAs(buf, s, r, d)
<1> DEFINE longer == Append(buf, s)
<1>1. /\ longer \in Seq(Sample) /\ Len(longer) = Len(buf) + 1
      /\ Len(buf) \in Nat /\ RecentKeep \in Nat \ {0}
      /\ longer[Len(buf) + 1] = s
      /\ \A i \in 1..Len(buf) : longer[i] = buf[i]
  BY PipelineAssumption
<1> HIDE DEF longer
<1>2. CASE Len(longer) <= RecentKeep
  <2>1. longer = PushRecent(buf, s)
    BY <1>1, <1>2 DEF PushRecent, longer
  <2>2. PushedAs(buf, s, longer, 0)
    BY <1>1, <1>2, <2>1 DEF PushedAs
  <2>3. QED
    BY <1>1, <2>2
<1>3. CASE Len(longer) > RecentKeep
  <2>1. Len(longer) = RecentKeep + 1
    BY <1>1, <1>3
  <2> DEFINE r == SubSeq(longer, 2, RecentKeep + 1)
  <2>2. r = PushRecent(buf, s)
    BY <1>1, <1>3, <2>1 DEF PushRecent, longer
  <2>3. /\ r \in Seq(Sample) /\ Len(r) = RecentKeep
        /\ \A i \in 1..RecentKeep : r[i] = longer[i + 1]
    BY <1>1, <2>1
  <2> HIDE DEF r
  <2>4. PushedAs(buf, s, r, 1)
    BY <1>1, <2>1, <2>2, <2>3 DEF PushedAs
  <2>5. QED
    BY <2>3, <2>4
<1>4. QED
  BY <1>1, <1>2, <1>3

\* The recent samples of a server were ingested, and none is later than the
\* clock or than the report in flight.
RecentKnown ==
  /\ \A u \in Servers : \A i \in 1..Len(recent[u]) :
       /\ recent[u][i] \in accepted
       /\ recent[u][i].from = u
       /\ recent[u][i].at <= now
  /\ \A q \in inflight :
       q.stage = "stamped" =>
         \A i \in 1..Len(recent[q.from]) : recent[q.from][i].at <= q.at

\* The inductive invariant
LiveInv == OrderInv /\ RecentKnown /\ LiveViewAgrees

\* The live view of one server
AgreesFor(u) ==
  LET n == Len(recent[u]) IN
  /\ n <= RecentKeep
  /\ \A i, j \in 1..n : i < j => /\ recent[u][i].seq < recent[u][j].seq
                                 /\ recent[u][i].at <= recent[u][j].at
  /\ IF n = 0 THEN latest[u] = NoSample /\ lastSeen[u] = 0
     ELSE latest[u] = recent[u][n] /\ lastSeen[u] = latest[u].at

\* A step other than an ingesting one keeps the hub's view, or a restart
\* clears it.
LEMMA ViewKinds ==
  ASSUME TypeOK, [Next]_vars
  PROVE  \/ \E q \in inflight : q.stage = "stamped" /\ Observe(q)
         \/ UNCHANGED <<latest, lastSeen, recent, accepted>>
         \/ /\ latest' = [u \in Servers |-> NoSample]
            /\ lastSeen' = [u \in Servers |-> 0]
            /\ recent' = [u \in Servers |-> << >>]
            /\ inflight' = {}
<1> USE DEF hub, ghosts
<1>1. ASSUME NEW u \in Servers, AgentStep(u)
      PROVE  UNCHANGED <<latest, lastSeen, recent, accepted>>
  BY <1>1 DEF AgentStep, Authenticate, Refuse, AgentTimeout
<1>2. ASSUME NEW u \in Servers, AdminStep(u)
      PROVE  UNCHANGED <<latest, lastSeen, recent, accepted>>
  BY <1>2 DEF AdminStep, CreateServer, ResetToken, Reconfigure,
              DeleteServerRow, DeleteHistory, DeleteHistoryFails
<1>3. ASSUME NEW q \in inflight, Ingest(q)
      PROVE  q.stage = "stamped" /\ Observe(q)
  BY <1>3 DEF Ingest, IngestIntoBucket, IngestFirst, IngestFlush,
              IngestFlushFails
<1>4. ASSUME NEW q \in inflight, Stamp(q)
      PROVE  UNCHANGED <<latest, lastSeen, recent, accepted>>
  BY <1>4 DEF Stamp
<1>5. CASE PruneHistory \/ Tick \/ ClockStep
  BY <1>5 DEF PruneHistory, Tick, ClockStep
<1>6. CASE Restart
  BY <1>6 DEF Restart
<1>7. CASE UNCHANGED vars
  BY <1>7 DEF vars
<1>8. QED
  BY <1>1, <1>2, <1>3, <1>4, <1>5, <1>6, <1>7 DEF Next

\* The report being ingested is the newest of its server.
LEMMA NewestOfAll ==
  ASSUME LiveInv, NEW q \in inflight, q.stage = "stamped"
  PROVE  /\ q.from \in Servers /\ SampleOf(q) \in Sample
         /\ SampleOf(q).from = q.from /\ SampleOf(q).at = q.at
         /\ q.at \in Nat /\ q.at <= now
         /\ lastSeen[q.from] <= q.at
         /\ \A i \in 1..Len(recent[q.from]) :
              /\ recent[q.from][i].seq < SampleOf(q).seq
              /\ recent[q.from][i].at <= q.at
<1> USE DEF LiveInv, OrderInv, OnceInv
<1>1. /\ q.from \in Servers /\ SampleOf(q) \in Sample /\ q.at \in Nat
      /\ q.seq \in Nat /\ SampleOf(q).seq = q.seq
      /\ SampleOf(q).from = q.from /\ SampleOf(q).at = q.at
  BY SampleOfType DEF TypeOK, Request, SampleOf
<1>2. q.seq = sent[q.from] /\ q.at <= now
  BY DEF OneRequest, Ordered
<1>3. ASSUME NEW i \in 1..Len(recent[q.from])
      PROVE  /\ recent[q.from][i].seq < q.seq
             /\ recent[q.from][i].at <= q.at
  <2> DEFINE s == recent[q.from][i]
  <2>1. s \in accepted /\ s.from = q.from /\ s.at <= q.at
    BY <1>1 DEF RecentKnown
  <2>2. s.seq \in Nat /\ s.seq <= sent[s.from] /\ s.seq # q.seq
    BY <2>1 DEF Fresh, TypeOK, Sample
  <2>3. QED
    BY <1>1, <1>2, <2>1, <2>2
<1>4. lastSeen[q.from] <= q.at
  <2>1. Len(recent[q.from]) \in Nat
    BY <1>1 DEF TypeOK
  <2>2. QED
    BY <1>1, <1>3, <2>1 DEF LiveViewAgrees
<1>5. QED
  BY <1>1, <1>2, <1>3, <1>4

\* Ingesting keeps the view in agreement.
LEMMA ObserveAgrees ==
  ASSUME LiveInv, NEW q \in inflight, q.stage = "stamped", Observe(q)
  PROVE  RecentKnown' /\ LiveViewAgrees'
<1> USE DEF LiveInv, OrderInv, OnceInv
<1> DEFINE u == q.from
           s == SampleOf(q)
           buf == recent[u]
<1>1. /\ latest' = [latest EXCEPT ![u] = s]
      /\ lastSeen' = [lastSeen EXCEPT ![u] = q.at]
      /\ recent' = [recent EXCEPT ![u] = PushRecent(buf, s)]
      /\ accepted' = accepted \cup {s}
      /\ inflight' = inflight \ {q}
      /\ now' = now
  BY DEF Observe
<1>2. /\ u \in Servers /\ s \in Sample /\ s.from = u /\ s.at = q.at
      /\ q.at \in Nat /\ q.at <= now
      /\ \A i \in 1..Len(buf) : buf[i].seq < s.seq /\ buf[i].at <= q.at
  BY NewestOfAll
<1>3. buf \in Seq(Sample) /\ Len(buf) \in Nat /\ Len(buf) <= RecentKeep
  BY <1>2 DEF TypeOK, LiveViewAgrees
<1> HIDE DEF LiveInv, OrderInv, OnceInv, u, s, buf
<1>4. PICK r \in Seq(Sample), d \in {0, 1} : PushedAs(buf, s, r, d)
  BY <1>2, <1>3, PushRecentFacts
<1>5. /\ r = PushRecent(buf, s)
      /\ Len(r) \in 1..RecentKeep /\ r[Len(r)] = s
      /\ Len(r) + d = Len(buf) + 1
      /\ \A i \in 1..(Len(r) - 1) : i + d \in 1..Len(buf) /\ r[i] = buf[i + d]
  BY <1>4 DEF PushedAs
<1> USE DEF LiveInv, OrderInv, OnceInv, u, s, buf
<1>6. /\ recent'[u] = r /\ latest'[u] = s /\ lastSeen'[u] = q.at
      /\ \A v \in Servers \ {u} : /\ recent'[v] = recent[v]
                                  /\ latest'[v] = latest[v]
                                  /\ lastSeen'[v] = lastSeen[v]
  BY <1>1, <1>2, <1>5 DEF TypeOK
<1>7. \A p \in inflight' : p \in inflight /\ p.from # u
  BY <1>1 DEF OneRequest, Fresh
<1>8. ASSUME NEW i \in 1..Len(r)
      PROVE  /\ r[i] \in accepted' /\ r[i].from = u /\ r[i].at <= now
             /\ r[i] = s \/ (i # Len(r) /\ i + d \in 1..Len(buf)
                             /\ r[i] = buf[i + d])
  <2>1. CASE i = Len(r)
    BY <1>1, <1>2, <1>5, <2>1
  <2>2. CASE i # Len(r)
    <3>1. i \in 1..(Len(r) - 1)
      BY <1>5, <2>2
    <3>2. i + d \in 1..Len(buf) /\ r[i] = buf[i + d]
      BY <1>5, <3>1
    <3>3. QED
      BY <1>1, <1>2, <2>2, <3>2 DEF RecentKnown
  <2>3. QED
    BY <2>1, <2>2
<1>9. ASSUME NEW i \in 1..Len(r), NEW j \in 1..Len(r), i < j
      PROVE  r[i].seq < r[j].seq /\ r[i].at <= r[j].at
  <2>1. i \in 1..(Len(r) - 1) /\ i + d \in 1..Len(buf) /\ r[i] = buf[i + d]
    BY <1>5, <1>9
  <2>2. CASE j = Len(r)
    BY <1>2, <1>5, <2>1, <2>2
  <2>3. CASE j # Len(r)
    <3>1. j + d \in 1..Len(buf) /\ r[j] = buf[j + d] /\ i + d < j + d
      BY <1>5, <1>9, <2>3
    <3>2. QED
      BY <1>2, <2>1, <3>1 DEF LiveViewAgrees
  <2>4. QED
    BY <2>2, <2>3
<1> HIDE DEF u, s, buf
<1>10. \A v \in Servers : \A i \in 1..Len(recent'[v]) :
         /\ recent'[v][i] \in accepted'
         /\ recent'[v][i].from = v
         /\ recent'[v][i].at <= now'
  BY <1>1, <1>6, <1>8 DEF RecentKnown
<1>11. \A p \in inflight' : p.stage = "stamped" =>
         \A i \in 1..Len(recent'[p.from]) : recent'[p.from][i].at <= p.at
  BY <1>6, <1>7 DEF RecentKnown, TypeOK, Request
<1>12. AgreesFor(u)'
  BY <1>2, <1>5, <1>6, <1>9 DEF AgreesFor
<1>13. \A v \in Servers \ {u} : AgreesFor(v)'
  BY <1>6 DEF AgreesFor, LiveViewAgrees
<1>14. QED
  BY <1>10, <1>11, <1>12, <1>13 DEF RecentKnown, LiveViewAgrees, AgreesFor

\* No other step breaks the agreement.
LEMMA LiveInductive ==
  ASSUME Orderly, LiveInv, [Next]_vars
  PROVE  RecentKnown' /\ LiveViewAgrees'
<1> USE DEF LiveInv, OrderInv, OnceInv
<1>1. now \in Nat /\ now' \in Nat /\ now <= now'
  BY ClockForward DEF TypeOK
<1>2. ASSUME NEW q \in inflight, q.stage = "stamped", Observe(q)
      PROVE  RecentKnown' /\ LiveViewAgrees'
  BY <1>2, ObserveAgrees
<1>3. CASE /\ latest' = [u \in Servers |-> NoSample]
           /\ lastSeen' = [u \in Servers |-> 0]
           /\ recent' = [u \in Servers |-> << >>]
           /\ inflight' = {}
  <2>1. \A u \in Servers : /\ recent'[u] = << >> /\ latest'[u] = NoSample
                           /\ lastSeen'[u] = 0
    BY <1>3
  <2>2. QED
    BY <1>3, <2>1, PipelineAssumption DEF RecentKnown, LiveViewAgrees
<1>4. CASE UNCHANGED <<latest, lastSeen, recent, accepted>>
  <2>1. LiveViewAgrees'
    BY <1>4 DEF LiveViewAgrees
  <2>2. ASSUME NEW u \in Servers, NEW i \in 1..Len(recent[u])
        PROVE  /\ recent[u][i] \in accepted
               /\ recent[u][i].from = u
               /\ recent[u][i].at <= now /\ recent[u][i].at <= now'
    <3>1. /\ recent[u][i] \in accepted
          /\ recent[u][i].from = u
          /\ recent[u][i].at <= now
      BY DEF RecentKnown
    <3>2. recent[u][i].at \in Nat
      BY <3>1 DEF TypeOK, Sample
    <3>3. QED
      BY <1>1, <3>1, <3>2
  <2>3. ASSUME NEW q \in inflight', q.stage = "stamped",
               NEW i \in 1..Len(recent[q.from])
        PROVE  recent[q.from][i].at <= q.at
    <3>1. q \in inflight \/ q.at = now
      <4>1. ASSUME NEW u \in Servers, Authenticate(u) PROVE q \in inflight
        BY <2>3, <4>1 DEF Authenticate, Collected
      <4>2. ASSUME NEW p \in inflight, Stamp(p)
            PROVE  q \in inflight \/ q.at = now
        BY <4>2 DEF Stamp
      <4>3. ASSUME NEW p \in inflight, Observe(p) PROVE q \in inflight
        BY <4>3 DEF Observe
      <4>4. ASSUME Forgets PROVE q \in inflight
        BY <4>4 DEF Forgets
      <4>5. QED
        BY <4>1, <4>2, <4>3, <4>4, StepKinds
    <3>2. q.from \in Servers
      <4>1. TypeOK'
        BY TypeInductive
      <4>2. QED
        BY <2>3, <4>1 DEF TypeOK, Request
    <3>3. QED
      BY <2>2, <2>3, <3>1, <3>2 DEF RecentKnown
  <2>4. QED
    BY <1>4, <2>1, <2>2, <2>3 DEF RecentKnown
<1>5. QED
  BY <1>2, <1>3, <1>4, ViewKinds

\* The invariant holds in every reachable state.
LEMMA LiveInvariant ==
  ASSUME Orderly
  PROVE  Spec => []LiveInv
<1>1. Init => RecentKnown /\ LiveViewAgrees
  BY PipelineAssumption DEF Init, RecentKnown, LiveViewAgrees
<1>2. LiveInv /\ [Next]_vars /\ OrderInv' => LiveInv'
  BY LiveInductive DEF LiveInv
<1>3. LiveInv <=> OrderInv /\ RecentKnown /\ LiveViewAgrees
  BY DEF LiveInv
<1>4. QED
  BY <1>1, <1>2, <1>3, OrderInvariant, PTL DEF Spec

\* What the live view shows agrees with the reports ingested, when handlers do
\* not overtake one another and the clock is not set back.
THEOREM LiveViewIsRight ==
  ASSUME Orderly
  PROVE  Spec => []LiveViewAgrees
BY LiveInvariant, PTL DEF LiveInv
=============================================================================
