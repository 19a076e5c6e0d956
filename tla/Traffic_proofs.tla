--------------------------- MODULE Traffic_proofs ---------------------------
(***************************************************************************)
(* Theorems about Traffic, for any set of servers, any limits, any bounds  *)
(* and any number of reports of a server handled at once.                  *)
(***************************************************************************)
EXTENDS Traffic, TLAPS

-----------------------------------------------------------------------------
(* Lemmas about the operators *)

\* A quotient of naturals is a natural.
LEMMA QuotientType ==
  ASSUME NEW a \in Nat, NEW b \in Nat \ {0}
  PROVE  a \div b \in Nat
OBVIOUS

\* Minus never goes below zero.
LEMMA MinusType ==
  ASSUME NEW a \in Nat, NEW b \in Nat
  PROVE  Minus(a, b) \in Nat
BY DEF Minus

\* Of a row with a limit the percentage is a natural number.
LEMMA PercentType ==
  ASSUME NEW r \in RowType, NEW total \in Nat, r.limit > 0
  PROVE  Used(r, total) \in Nat /\ Percent(r, total) \in Nat
<1>1. r.base \in Nat /\ r.limit \in Nat \ {0}
  <2>1. r.base \in Nat /\ r.limit \in Limits
    BY DEF RowType
  <2>2. Limits \subseteq Nat
    BY TrafficAssumption
  <2>3. \A n \in Nat : n > 0 => n \in Nat \ {0}
    OBVIOUS
  <2>4. QED
    BY <2>1, <2>2, <2>3
<1>2. Used(r, total) \in Nat
  BY <1>1, MinusType DEF Used
<1>3. Used(r, total) * 100 \in Nat
  BY <1>2
<1>4. QED
  BY <1>1, <1>2, <1>3, QuotientType DEF Percent

\* The facts an alert states have their types.
LEMMA AlertOfType ==
  ASSUME TypeOK, NEW s \in Servers, OverThreshold(s)
  PROVE  LevelOf(s) \in LevelType /\ AlertOf(s) \in AlertType
<1>1. /\ round.rows[s] \in RowType /\ round.rows[s].limit > 0
      /\ latest[s].total \in Nat /\ latest[s].at \in Nat
      /\ month \in Nat /\ alert[s].turn \in BOOLEAN
  BY DEF TypeOK, OverThreshold, LatestType, AlertType
<1>2. /\ round.rows[s].at \in Nat /\ round.rows[s].limit \in Limits
  BY <1>1 DEF RowType
<1>3. /\ Used(round.rows[s], latest[s].total) \in Nat
      /\ Percent(round.rows[s], latest[s].total) \in Nat
  BY <1>1, PercentType
<1>4. LevelOf(s) \in Nat
  BY <1>3, QuotientType DEF LevelOf
<1>5. QED
  BY <1>1, <1>2, <1>3, <1>4 DEF AlertOf, AlertType, LevelType

-----------------------------------------------------------------------------
(* Type correctness *)

\* The values of an idle panel have their types.
LEMMA InitialTypes ==
  /\ Idle \in HandlerType
  /\ NoReport \in LatestType
  /\ NoLevel \in LevelType
  /\ NoAlert \in AlertType
  /\ NoRound \in [rows : [Servers -> RowType], left : SUBSET Servers]
<1>1. 0 \in Limits
  BY TrafficAssumption
<1>2. QED
  BY <1>1 DEF Idle, HandlerType, HandlerPcs, NoReport, LatestType, NoLevel,
              LevelType, NoAlert, AlertType, NoRound, RowType

\* What replacing one handler does to the table of handlers.
LEMMA HandlerUpdate ==
  ASSUME NEW f \in [Servers -> [Handlers -> HandlerType]],
         NEW s \in Servers, NEW h \in Handlers, NEW x \in HandlerType
  PROVE  /\ [f EXCEPT ![s][h] = x] \in [Servers -> [Handlers -> HandlerType]]
         /\ [f EXCEPT ![s][h] = x][s][h] = x
         /\ \A u \in Servers : \A g \in Handlers : <<u, g>> # <<s, h>>
              => [f EXCEPT ![s][h] = x][u][g] = f[u][g]
OBVIOUS

\* A round without one of its servers is a round.
LEMMA VisitedType ==
  ASSUME TypeOK, NEW s \in Servers
  PROVE  Visited(s) \in [rows : [Servers -> RowType], left : SUBSET Servers]
<1>1. [round EXCEPT !.left = @ \ {s}]
        \in [rows : [Servers -> RowType], left : SUBSET Servers]
  BY DEF TypeOK
<1>2. QED
  BY <1>1, InitialTypes DEF Visited

\* What MonthlyTrafficRecord leaves of a report, and of those it overtakes.
LEMMA RecordedFacts ==
  ASSUME NEW x \in HandlerType
  PROVE  /\ Recorded(x) \in HandlerType
         /\ Recorded(x).pc = "ingesting" /\ Recorded(x).total = x.total
         /\ Recorded(x).at = x.at /\ Recorded(x).boot = x.boot
BY DEF Recorded, HandlerType, HandlerPcs

LEMMA OvertakenFacts ==
  ASSUME TypeOK, NEW s \in Servers, NEW h \in Handlers
  PROVE  /\ Overtaken(s, h) \in [Handlers -> HandlerType]
         /\ Overtaken(s, h)[h] = Recorded(handler[s][h])
         /\ \A g \in Handlers \ {h} :
              /\ Overtaken(s, h)[g].pc = handler[s][g].pc
              /\ Overtaken(s, h)[g].total = handler[s][g].total
              /\ Overtaken(s, h)[g].at = handler[s][g].at
              /\ Overtaken(s, h)[g].boot = handler[s][g].boot
              /\ Overtaken(s, h)[g].month = handler[s][g].month
              /\ handler[s][g].pc \in {"dated", "writing"}
                   => Overtaken(s, h)[g].met
<1> DEFINE other(g) == [handler[s][g] EXCEPT
             !.met = @ \/ handler[s][g].pc \in {"dated", "writing"}]
<1>1. \A g \in Handlers : handler[s][g] \in HandlerType
  BY DEF TypeOK
<1>2. \A g \in Handlers : Recorded(handler[s][g]) \in HandlerType
  BY <1>1, RecordedFacts
<1>3. ASSUME NEW g \in Handlers
      PROVE  /\ other(g) \in HandlerType
             /\ other(g).pc = handler[s][g].pc
             /\ other(g).total = handler[s][g].total
             /\ other(g).at = handler[s][g].at
             /\ other(g).boot = handler[s][g].boot
             /\ other(g).month = handler[s][g].month
             /\ handler[s][g].pc \in {"dated", "writing"} => other(g).met
  BY <1>1 DEF HandlerType
<1> HIDE DEF other
<1>4. Overtaken(s, h) =
        [g \in Handlers |-> IF g = h THEN Recorded(handler[s][g]) ELSE other(g)]
  BY DEF Overtaken, other
<1>5. QED
  BY <1>2, <1>3, <1>4

\* Every step keeps the types.
LEMMA TypeInductive == TypeOK /\ [Next]_vars => TypeOK'
<1> SUFFICES ASSUME TypeOK, [Next]_vars PROVE TypeOK'
  OBVIOUS
<1> USE DEF TypeOK, hosts
<1>1. CASE NextMonth
  BY <1>1 DEF NextMonth
<1>2. CASE StartRound
  BY <1>2 DEF StartRound
<1>3. CASE Restart
  BY <1>3, InitialTypes DEF Restart
<1>4. ASSUME NEW s \in Servers, Transfer(s) PROVE TypeOK'
  BY <1>4 DEF Transfer
<1>5. ASSUME NEW s \in Servers, Reboot(s) PROVE TypeOK'
  BY <1>5 DEF Reboot
<1>6. ASSUME NEW s \in Servers, SetLimit(s) PROVE TypeOK'
  <2>1. PICK l \in Limits : row' = [row EXCEPT ![s] = [@ EXCEPT !.limit = l]]
    BY <1>6 DEF SetLimit
  <2>2. [row[s] EXCEPT !.limit = l] \in RowType
    BY DEF RowType
  <2>3. QED
    BY <1>6, <2>1, <2>2 DEF SetLimit
<1>7. ASSUME NEW s \in Servers, SkipServer(s) PROVE TypeOK'
  <2>1. round' \in [rows : [Servers -> RowType], left : SUBSET Servers]
    BY <1>7, VisitedType DEF SkipServer
  <2>2. QED
    BY <1>7, <2>1 DEF SkipServer
<1>8. ASSUME NEW s \in Servers, CheckServer(s) PROVE TypeOK'
  <2>1. LevelOf(s) \in LevelType /\ AlertOf(s) \in AlertType
    BY <1>8, AlertOfType DEF CheckServer
  <2>2. round' \in [rows : [Servers -> RowType], left : SUBSET Servers]
    BY <1>8, VisitedType DEF CheckServer
  <2>3. levels' \in [Servers -> LevelType] /\ alert' \in [Servers -> AlertType]
    BY <1>8, <2>1 DEF CheckServer
  <2>4. QED
    BY <1>8, <2>2, <2>3 DEF CheckServer
<1>9. ASSUME NEW s \in Servers, NEW h \in Handlers, Handle(s, h) PROVE TypeOK'
  <2> DEFINE me == handler[s][h]
  <2>1. /\ me \in HandlerType /\ me.total \in Nat /\ me.at \in Nat
        /\ me.boot \in Nat /\ me.month \in Nat
    BY DEF HandlerType
  <2>2. CASE Report(s, h)
    BY <2>2, HandlerUpdate DEF Report, Idle, HandlerType, HandlerPcs
  <2>3. Recorded(me) \in HandlerType
    BY <2>1, RecordedFacts
  <2>4. CASE TakeDate(s, h)
    <3>1. [me EXCEPT !.pc = "dated", !.month = month] \in HandlerType
      BY <2>1 DEF HandlerType, HandlerPcs
    <3>2. QED
      BY <2>4, <3>1, HandlerUpdate DEF TakeDate
  <2>5. CASE ReadBase(s, h)
    <3>1. [me EXCEPT !.pc = "writing"] \in HandlerType
      BY <2>1 DEF HandlerType, HandlerPcs
    <3>2. QED
      BY <2>3, <2>5, <3>1, HandlerUpdate DEF ReadBase
  <2>6. CASE WriteBase(s, h)
    <3>1. [row[s] EXCEPT !.base = me.total, !.month = me.month, !.at = me.at,
                         !.boot = me.boot] \in RowType
      BY <2>1 DEF RowType
    <3>2. row' \in [Servers -> RowType]
      BY <2>6, <3>1 DEF WriteBase
    <3>3. handler' \in [Servers -> [Handlers -> HandlerType]]
      BY <2>6, OvertakenFacts DEF WriteBase
    <3>4. QED
      BY <2>6, <3>2, <3>3 DEF WriteBase
  <2>7. CASE RecordFails(s, h)
    BY <2>3, <2>7, HandlerUpdate DEF RecordFails
  <2>8. CASE Ingest(s, h)
    <3>1. handler' \in [Servers -> [Handlers -> HandlerType]]
      BY <2>8, InitialTypes, HandlerUpdate DEF Ingest
    <3>2. latest' \in [Servers -> LatestType]
      BY <2>1, <2>8 DEF Ingest, LatestType
    <3>3. QED
      BY <2>8, <3>1, <3>2 DEF Ingest
  <2>9. QED
    BY <1>9, <2>2, <2>4, <2>5, <2>6, <2>7, <2>8 DEF Handle
<1>10. CASE UNCHANGED vars
  BY <1>10 DEF vars
<1>11. QED
  BY <1>1, <1>2, <1>3, <1>4, <1>5, <1>6, <1>7, <1>8, <1>9, <1>10 DEF Next

\* The counters, the table, the handlers and the notifier's memory stay what
\* they are declared as, whatever is interleaved with a report handler.
THEOREM TypeCorrect == Spec => []TypeOK
<1>1. Init => TypeOK
  BY InitialTypes DEF Init, TypeOK, RowType
<1>2. QED
  BY <1>1, TypeInductive, PTL DEF Spec

-----------------------------------------------------------------------------
(* The steps of a handler *)

\* A handler's step leaves the hosts, the date and the notifier alone, and
\* everything of other servers.
LEMMA HandleFrame ==
  ASSUME TypeOK, NEW s \in Servers, NEW h \in Handlers, Handle(s, h)
  PROVE  /\ UNCHANGED <<month, counter, passed, boots, levels, alert>>
         /\ \A u \in Servers \ {s} : /\ row'[u] = row[u]
                                     /\ latest'[u] = latest[u]
                                     /\ handler'[u] = handler[u]
<1> USE DEF TypeOK, hosts
<1>1. CASE Report(s, h)
  BY <1>1 DEF Report
<1>2. CASE TakeDate(s, h)
  BY <1>2 DEF TakeDate
<1>3. CASE ReadBase(s, h)
  BY <1>3 DEF ReadBase
<1>4. CASE WriteBase(s, h)
  BY <1>4 DEF WriteBase
<1>5. CASE RecordFails(s, h)
  BY <1>5 DEF RecordFails
<1>6. CASE Ingest(s, h)
  BY <1>6 DEF Ingest
<1>7. QED
  BY <1>1, <1>2, <1>3, <1>4, <1>5, <1>6 DEF Handle

\* Of its own server, all but WriteBase change the one handler only.
LEMMA HandlerAlone ==
  ASSUME TypeOK, NEW s \in Servers, NEW h \in Handlers,
         \/ Report(s, h) \/ TakeDate(s, h) \/ ReadBase(s, h)
         \/ RecordFails(s, h) \/ Ingest(s, h)
  PROVE  row' = row /\ \A g \in Handlers \ {h} : handler'[s][g] = handler[s][g]
BY DEF TypeOK, Report, TakeDate, ReadBase, RecordFails, Ingest

-----------------------------------------------------------------------------
(* The usage is never more than the traffic *)

\* A reading of a server's counter: its value, the traffic that had passed and
\* the reboots there had been.
Reading(x) == [total |-> x.total, at |-> x.at, boot |-> x.boot]
FirstReading == [total |-> 0, at |-> 0, boot |-> 0]
Now(s)  == [total |-> counter[s], at |-> passed[s], boot |-> boots[s]]
Base(s) == [total |-> row[s].base, at |-> row[s].at, boot |-> row[s].boot]

\* All that anybody holds of s.
Readings(s) ==
  {FirstReading, Now(s), Base(s), Reading(latest[s])}
    \cup {Reading(handler[s][h]) : h \in Handlers}

\* Between two reboots the counter grows by the traffic; after a reboot it
\* counts no more than the traffic since any reading before.
Agree(a, b) ==
  /\ a.boot < b.boot => a.at <= b.at /\ b.total <= b.at - a.at
  /\ a.boot = b.boot => b.total - a.total = b.at - a.at

\* No reading is from the future, and all agree.
ReadingsAgree ==
  \A s \in Servers :
    /\ \A a \in Readings(s) : a.at <= passed[s] /\ a.boot <= boots[s]
    /\ \A a, b \in Readings(s) : Agree(a, b)

ReadingType == [total : Nat, at : Nat, boot : Nat]

LEMMA ReadingsType ==
  ASSUME TypeOK, NEW s \in Servers
  PROVE  Readings(s) \subseteq ReadingType
<1>1. /\ counter[s] \in Nat /\ passed[s] \in Nat /\ boots[s] \in Nat
      /\ row[s] \in RowType /\ latest[s] \in LatestType
      /\ \A h \in Handlers : handler[s][h] \in HandlerType
  BY DEF TypeOK
<1>2. QED
  BY <1>1 DEF Readings, Reading, FirstReading, Now, Base, ReadingType, RowType,
              LatestType, HandlerType

\* The invariant is what the property needs.
LEMMA AgreementSuffices ==
  ASSUME TypeOK, ReadingsAgree
  PROVE  UsageBounded
<1> SUFFICES ASSUME NEW s \in Servers, row[s].boot <= latest[s].boot
             PROVE  Used(row[s], latest[s].total)
                      <= Minus(latest[s].at, row[s].at)
  BY DEF UsageBounded, Shown
<1>1. /\ row[s].base \in Nat /\ row[s].at \in Nat /\ row[s].boot \in Nat
      /\ latest[s].total \in Nat /\ latest[s].at \in Nat /\ latest[s].boot \in Nat
  BY DEF TypeOK, RowType, LatestType
<1>2. Agree(Base(s), Reading(latest[s]))
  BY DEF ReadingsAgree, Readings
<1>3. /\ row[s].boot < latest[s].boot =>
           /\ row[s].at <= latest[s].at
           /\ latest[s].total <= latest[s].at - row[s].at
      /\ row[s].boot = latest[s].boot =>
           latest[s].total - row[s].base = latest[s].at - row[s].at
  BY <1>2 DEF Agree, Base, Reading
<1>4. QED
  BY <1>1, <1>3 DEF Used, Minus

\* A step reads nothing but the counter as it is.
LEMMA NothingElseRead ==
  ASSUME TypeOK, [Next]_vars, NEW u \in Servers
  PROVE  Readings(u)' \subseteq Readings(u) \cup {Now(u)'}
<1> USE DEF hosts
<1>1. SUFFICES /\ Base(u)' \in Readings(u)
               /\ Reading(latest[u])' \in Readings(u)
               /\ \A g \in Handlers : Reading(handler[u][g])' \in Readings(u)
  BY DEF Readings
<1>2. /\ Base(u) \in Readings(u) /\ Reading(latest[u]) \in Readings(u)
      /\ \A g \in Handlers : Reading(handler[u][g]) \in Readings(u)
      /\ FirstReading \in Readings(u) /\ Now(u) \in Readings(u)
  BY DEF Readings
<1>3. CASE UNCHANGED <<row, latest, handler>>
  BY <1>2, <1>3 DEF Base, Reading
<1>4. CASE NextMonth \/ StartRound \/ UNCHANGED vars
  BY <1>3, <1>4 DEF NextMonth, StartRound, vars
<1>5. CASE Restart
  BY <1>2, <1>5 DEF Restart, Idle, NoReport, Base, Reading, FirstReading
<1>6. ASSUME NEW s \in Servers,
             Transfer(s) \/ Reboot(s) \/ SkipServer(s) \/ CheckServer(s)
      PROVE  UNCHANGED <<row, latest, handler>>
  BY <1>6 DEF Transfer, Reboot, SkipServer, CheckServer
<1>7. ASSUME NEW s \in Servers, SetLimit(s)
      PROVE  Base(u)' = Base(u) /\ UNCHANGED <<latest, handler>>
  <2>1. PICK l \in Limits : row' = [row EXCEPT ![s] = [@ EXCEPT !.limit = l]]
    BY <1>7 DEF SetLimit
  <2>2. /\ row'[u].base = row[u].base /\ row'[u].at = row[u].at
        /\ row'[u].boot = row[u].boot
    BY <2>1 DEF TypeOK, RowType
  <2>3. QED
    BY <1>7, <2>2 DEF SetLimit, Base
<1>8. ASSUME NEW s \in Servers, NEW h \in Handlers, Handle(s, h), u # s
      PROVE  UNCHANGED <<row[u], latest[u], handler[u]>>
  BY <1>8, HandleFrame
<1>9. ASSUME NEW h \in Handlers, Handle(u, h)
      PROVE  /\ Base(u)' \in Readings(u)
             /\ Reading(latest[u])' \in Readings(u)
             /\ \A g \in Handlers : Reading(handler[u][g])' \in Readings(u)
  <2> DEFINE me == handler[u][h]
  <2>1. me \in HandlerType /\ row[u] \in RowType
    BY DEF TypeOK
  <2>2. ASSUME row' = row, latest' = latest,
               \A g \in Handlers \ {h} : handler'[u][g] = handler[u][g],
               Reading(handler'[u][h]) \in Readings(u)
        PROVE  /\ Base(u)' \in Readings(u)
               /\ Reading(latest[u])' \in Readings(u)
               /\ \A g \in Handlers : Reading(handler[u][g])' \in Readings(u)
    BY <1>2, <2>2 DEF Base, Reading
  <2>3. CASE Report(u, h)
    <3>1. /\ handler'[u][h].total = counter[u] /\ handler'[u][h].at = passed[u]
          /\ handler'[u][h].boot = boots[u]
      BY <2>3 DEF Report, Idle, TypeOK
    <3>2. Reading(handler'[u][h]) = Now(u)
      BY <3>1 DEF Reading, Now
    <3>3. latest' = latest
      BY <2>3 DEF Report
    <3>4. QED
      BY <1>2, <2>2, <2>3, <3>2, <3>3, HandlerAlone
  <2>4. CASE TakeDate(u, h) \/ ReadBase(u, h) \/ RecordFails(u, h)
    <3>1. handler'[u][h] \in {[me EXCEPT !.pc = "dated", !.month = month],
                              [me EXCEPT !.pc = "writing"], Recorded(me)}
      BY <2>4 DEF TakeDate, ReadBase, RecordFails, TypeOK
    <3>2. /\ handler'[u][h].total = me.total /\ handler'[u][h].at = me.at
          /\ handler'[u][h].boot = me.boot
      BY <2>1, <3>1, RecordedFacts DEF HandlerType
    <3>3. Reading(handler'[u][h]) = Reading(me) /\ latest' = latest
      BY <2>4, <3>2 DEF Reading, TakeDate, ReadBase, RecordFails
    <3>4. QED
      BY <1>2, <2>2, <2>4, <3>3, HandlerAlone
  <2>5. CASE WriteBase(u, h)
    <3>1. handler'[u] = Overtaken(u, h) /\ latest' = latest
      BY <2>5 DEF WriteBase, TypeOK
    <3>2. Base(u)' = Reading(me)
      <4>1. row'[u] = [row[u] EXCEPT !.base = me.total, !.month = me.month,
                                     !.at = me.at, !.boot = me.boot]
        BY <2>5 DEF WriteBase, TypeOK
      <4>2. /\ row'[u].base = me.total /\ row'[u].at = me.at
            /\ row'[u].boot = me.boot
        BY <2>1, <4>1 DEF RowType
      <4>3. QED
        BY <4>2 DEF Base, Reading
    <3>3. ASSUME NEW g \in Handlers
          PROVE  Reading(handler'[u][g]) = Reading(handler[u][g])
      BY <2>1, <3>1, OvertakenFacts, RecordedFacts DEF Reading
    <3>4. QED
      BY <1>2, <3>1, <3>2, <3>3 DEF Reading
  <2>6. CASE Ingest(u, h)
    <3>1. /\ latest'[u].total = me.total /\ latest'[u].at = me.at
          /\ latest'[u].boot = me.boot /\ handler'[u][h] = Idle
      BY <2>6 DEF Ingest, TypeOK
    <3>2. /\ Reading(latest[u])' = Reading(me)
          /\ Reading(handler'[u][h]) = FirstReading
      BY <3>1 DEF Reading, Idle, FirstReading
    <3>3. row' = row /\ \A g \in Handlers \ {h} : handler'[u][g] = handler[u][g]
      BY <2>6, HandlerAlone
    <3>4. QED
      BY <1>2, <3>2, <3>3 DEF Base, Reading
  <2>7. QED
    BY <1>9, <2>3, <2>4, <2>5, <2>6 DEF Handle
<1>10. QED
  <2>1. CASE \E s \in Servers : \E h \in Handlers : Handle(s, h)
    BY <1>2, <1>8, <1>9, <2>1 DEF Base, Reading
  <2>2. CASE \E s \in Servers : SetLimit(s)
    BY <1>2, <1>7, <2>2 DEF Reading
  <2>3. QED
    BY <1>3, <1>4, <1>5, <1>6, <2>1, <2>2 DEF Next

\* The counter as it is follows every reading there was.
LEMMA NowAgrees ==
  ASSUME TypeOK, ReadingsAgree, [Next]_vars, NEW u \in Servers,
         NEW a \in Readings(u)
  PROVE  /\ a.at <= passed'[u] /\ a.boot <= boots'[u]
         /\ Agree(a, Now(u)') /\ Agree(Now(u)', a) /\ Agree(Now(u)', Now(u)')
<1> USE DEF hosts
<1>1. /\ a.at \in Nat /\ a.boot \in Nat /\ a.total \in Nat
      /\ counter[u] \in Nat /\ passed[u] \in Nat /\ boots[u] \in Nat
  BY ReadingsType DEF ReadingType, TypeOK
<1>2. a.at <= passed[u] /\ a.boot <= boots[u] /\ Agree(a, Now(u))
  BY DEF ReadingsAgree, Readings
<1> DEFINE Counted ==
      \/ UNCHANGED <<counter[u], passed[u], boots[u]>>
      \/ /\ counter'[u] = counter[u] + 1 /\ passed'[u] = passed[u] + 1
         /\ boots'[u] = boots[u]
      \/ /\ counter'[u] = 0 /\ passed'[u] = passed[u]
         /\ boots'[u] = boots[u] + 1
<1>3. Counted
  <2>1. ASSUME NEW s \in Servers, Transfer(s) PROVE Counted
    BY <2>1 DEF Transfer, TypeOK
  <2>2. ASSUME NEW s \in Servers, Reboot(s) PROVE Counted
    BY <2>2 DEF Reboot, TypeOK
  <2>3. ASSUME NEW s \in Servers, NEW h \in Handlers, Handle(s, h)
        PROVE  UNCHANGED <<counter, passed, boots>>
    BY <2>3, HandleFrame
  <2>4. ASSUME NEW s \in Servers, SetLimit(s) \/ SkipServer(s) \/ CheckServer(s)
        PROVE  UNCHANGED <<counter, passed, boots>>
    BY <2>4 DEF SetLimit, SkipServer, CheckServer
  <2>5. CASE NextMonth \/ StartRound \/ Restart \/ UNCHANGED vars
    BY <2>5 DEF NextMonth, StartRound, Restart, vars
  <2>6. QED
    BY <2>1, <2>2, <2>3, <2>4, <2>5 DEF Next
<1>4. QED
  BY <1>1, <1>2, <1>3 DEF Agree, Now

\* Every step keeps the agreement.
LEMMA AgreementInductive ==
  ASSUME TypeOK, ReadingsAgree, [Next]_vars
  PROVE  ReadingsAgree'
<1> SUFFICES ASSUME NEW u \in Servers
             PROVE  /\ \A a \in Readings(u)' : a.at <= passed'[u]
                                               /\ a.boot <= boots'[u]
                    /\ \A a, b \in Readings(u)' : Agree(a, b)
  BY DEF ReadingsAgree, Agree
<1>1. Readings(u)' \subseteq Readings(u) \cup {Now(u)'}
  BY NothingElseRead
<1>2. \A a, b \in Readings(u) : Agree(a, b)
  BY DEF ReadingsAgree
<1>3. \A a \in Readings(u) : /\ a.at <= passed'[u] /\ a.boot <= boots'[u]
                             /\ Agree(a, Now(u)') /\ Agree(Now(u)', a)
                             /\ Agree(Now(u)', Now(u)')
  BY NowAgrees
<1>4. Now(u)'.at <= passed'[u] /\ Now(u)'.boot <= boots'[u]
  <2>1. passed'[u] \in Nat /\ boots'[u] \in Nat
    BY TypeInductive DEF TypeOK
  <2>2. QED
    BY <2>1 DEF Now
<1>5. Agree(Now(u)', Now(u)')
  BY <1>3 DEF Readings
<1>6. QED
  BY <1>1, <1>2, <1>3, <1>4, <1>5

\* The usage shown is never more than the traffic since the baseline, for any
\* number of reports of a server handled at once and in whatever order they write
\* the baseline and reach the hub, over reboots, restarts and failed writes.
THEOREM UsageNeverInvented == Spec => []UsageBounded
<1>1. Init => ReadingsAgree
  <2> SUFFICES ASSUME Init, NEW s \in Servers PROVE Readings(s) = {FirstReading}
    BY DEF Init, ReadingsAgree, Agree, FirstReading
  <2>1. /\ Now(s) = FirstReading /\ Base(s) = FirstReading
        /\ Reading(latest[s]) = FirstReading
        /\ \A h \in Handlers : Reading(handler[s][h]) = FirstReading
    BY DEF Init, Now, Base, Reading, FirstReading, NoReport, Idle
  <2>2. QED
    BY <2>1 DEF Readings
<1>2. TypeOK /\ ReadingsAgree /\ [Next]_vars => ReadingsAgree'
  BY AgreementInductive
<1>3. TypeOK /\ ReadingsAgree => UsageBounded
  BY AgreementSuffices
<1>4. QED
  BY <1>1, <1>2, <1>3, TypeCorrect, PTL DEF Spec

-----------------------------------------------------------------------------
(* When a baseline is moved again *)

\* What a handler found in the row still holds unless another one has written:
\* the row is of no later month than the handler's, and of an earlier one where
\* it is about to be written.
MonthInv ==
  \A s \in Servers :
    /\ row[s].month <= month
    /\ \A h \in Handlers : handler[s][h].pc \in {"dated", "writing"} =>
         /\ handler[s][h].month <= month
         /\ ~handler[s][h].met =>
              /\ row[s].month <= handler[s][h].month
              /\ handler[s][h].pc = "writing" => row[s].month < handler[s][h].month

\* A step moves the baseline of s as ResetOnce allows.
Allowed(s) == Moves(s) => row'[s].month > row[s].month \/ WrittenLate(s)

\* Every step keeps it and moves a baseline only so.
LEMMA MonthInductive ==
  ASSUME TypeOK, MonthInv, [Next]_vars
  PROVE  MonthInv' /\ \A u \in Servers : Allowed(u)
<1> USE DEF MonthInv, Allowed, Moves, WrittenLate
<1>1. month \in Nat /\ \A u \in Servers : row[u].month \in Nat
        /\ \A g \in Handlers : /\ handler[u][g] \in HandlerType
                               /\ handler[u][g].month \in Nat
  BY DEF TypeOK, RowType, HandlerType
<1>2. ASSUME UNCHANGED <<row, handler>>, month' = month \/ month' = month + 1
      PROVE  MonthInv' /\ \A u \in Servers : Allowed(u)
  BY <1>1, <1>2
<1>3. CASE NextMonth \/ StartRound \/ UNCHANGED vars
  BY <1>2, <1>3 DEF NextMonth, StartRound, vars
<1>4. CASE Restart
  <2>1. /\ \A u \in Servers : \A g \in Handlers : handler'[u][g].pc = "idle"
        /\ UNCHANGED <<row, month>>
    BY <1>4 DEF Restart, Idle
  <2>2. QED
    BY <2>1
<1>5. ASSUME NEW s \in Servers,
             \/ Transfer(s) \/ Reboot(s) \/ SkipServer(s) \/ CheckServer(s)
      PROVE  MonthInv' /\ \A u \in Servers : Allowed(u)
  BY <1>2, <1>5 DEF Transfer, Reboot, SkipServer, CheckServer
<1>6. ASSUME NEW s \in Servers, SetLimit(s)
      PROVE  MonthInv' /\ \A u \in Servers : Allowed(u)
  <2>1. PICK l \in Limits : row' = [row EXCEPT ![s] = [@ EXCEPT !.limit = l]]
    BY <1>6 DEF SetLimit
  <2>2. \A u \in Servers : /\ row'[u].base = row[u].base
                           /\ row'[u].month = row[u].month
    BY <2>1 DEF TypeOK, RowType
  <2>3. QED
    BY <1>6, <2>2 DEF SetLimit
<1>7. ASSUME NEW s \in Servers, NEW h \in Handlers, Handle(s, h)
      PROVE  MonthInv' /\ \A u \in Servers : Allowed(u)
  <2> DEFINE me == handler[s][h]
  <2>1. /\ month' = month
        /\ \A u \in Servers \ {s} : row'[u] = row[u] /\ handler'[u] = handler[u]
    BY <1>7, HandleFrame
  <2>2. ASSUME row' = row,
               \A g \in Handlers \ {h} : handler'[s][g] = handler[s][g],
               handler'[s][h].pc \in {"dated", "writing"} =>
                 /\ handler'[s][h].month <= month
                 /\ ~handler'[s][h].met =>
                      /\ row[s].month <= handler'[s][h].month
                      /\ handler'[s][h].pc = "writing" =>
                           row[s].month < handler'[s][h].month
        PROVE  MonthInv' /\ \A u \in Servers : Allowed(u)
    BY <2>1, <2>2
  <2>3. CASE Report(s, h) \/ RecordFails(s, h) \/ Ingest(s, h)
    <3>1. handler'[s][h].pc \in {"recording", "ingesting", "idle"}
      <4>1. CASE Report(s, h)
        <5>1. handler'[s][h] = [Idle EXCEPT !.pc = "recording",
                !.total = counter[s], !.at = passed[s], !.boot = boots[s]]
          BY <4>1 DEF Report, TypeOK
        <5>2. handler'[s][h].pc = "recording"
          BY <5>1 DEF Idle
        <5>3. QED
          BY <5>2
      <4>2. CASE Ingest(s, h)
        <5>1. handler'[s][h].pc = "idle"
          BY <4>2 DEF Ingest, Idle, TypeOK
        <5>2. QED
          BY <5>1
      <4>3. CASE RecordFails(s, h)
        <5>1. handler'[s][h] = Recorded(me)
          BY <4>3 DEF RecordFails, TypeOK
        <5>2. QED
          BY <1>1, <5>1, RecordedFacts
      <4>4. QED
        BY <2>3, <4>1, <4>2, <4>3
    <3>2. QED
      BY <2>2, <2>3, <3>1, HandlerAlone
  <2>4. CASE TakeDate(s, h)
    <3>1. handler'[s][h] = [me EXCEPT !.pc = "dated", !.month = month]
      BY <2>4 DEF TakeDate, TypeOK
    <3>2. handler'[s][h].pc = "dated" /\ handler'[s][h].month = month
      BY <1>1, <3>1 DEF HandlerType
    <3>3. QED
      BY <1>1, <2>2, <2>4, <3>2, HandlerAlone
  <2>5. CASE ReadBase(s, h)
    <3>1. CASE row[s].month = me.month
      <4>1. handler'[s][h].pc = "ingesting"
        BY <1>1, <2>5, <3>1, RecordedFacts DEF ReadBase, TypeOK
      <4>2. QED
        BY <2>2, <2>5, <4>1, HandlerAlone
    <3>2. CASE row[s].month # me.month
      <4>1. handler'[s][h] = [me EXCEPT !.pc = "writing"] /\ me.pc = "dated"
        BY <2>5, <3>2 DEF ReadBase, TypeOK
      <4>2. handler'[s][h].month = me.month /\ handler'[s][h].met = me.met
        BY <1>1, <4>1 DEF HandlerType
      <4>3. QED
        BY <1>1, <2>2, <2>5, <3>2, <4>1, <4>2, HandlerAlone
    <3>3. QED
      BY <3>1, <3>2
  <2>6. CASE WriteBase(s, h)
    <3>1. row'[s].month = me.month /\ me.pc = "writing"
      BY <2>6 DEF WriteBase, TypeOK, RowType
    <3>2. handler'[s] = Overtaken(s, h)
      BY <2>6 DEF WriteBase, TypeOK
    <3>3. /\ handler'[s][h].pc = "ingesting"
          /\ \A g \in Handlers \ {h} :
               /\ handler'[s][g].pc = handler[s][g].pc
               /\ handler'[s][g].month = handler[s][g].month
               /\ handler[s][g].pc \in {"dated", "writing"} => handler'[s][g].met
      BY <1>1, <3>2, OvertakenFacts, RecordedFacts
    <3>4. MonthInv'
      BY <1>1, <2>1, <3>1, <3>3
    <3>5. \A u \in Servers : Allowed(u)
      BY <1>1, <2>1, <3>1, <3>3
    <3>6. QED
      BY <3>4, <3>5
  <2>7. QED
    BY <1>7, <2>3, <2>4, <2>5, <2>6 DEF Handle
<1>8. QED
  BY <1>3, <1>4, <1>5, <1>6, <1>7 DEF Next

\* However many reports of a server are handled at once, a baseline is moved
\* again in its month, or back, only by a handler that another one overtook
\* between taking the date and writing (MonthlyTrafficRecord reads the row
\* before it takes the lock).
THEOREM BaselineMovesAgainOnlyIfOvertaken == Spec => ResetOnce
<1>1. Init => MonthInv
  BY DEF Init, MonthInv, Idle
<1>2. TypeOK /\ MonthInv /\ [Next]_vars => MonthInv'
  BY MonthInductive
<1>3. TypeOK /\ MonthInv /\ [Next]_vars =>
        [\A s \in Servers :
           Moves(s) => row'[s].month > row[s].month \/ WrittenLate(s)]_vars
  BY MonthInductive DEF Allowed
<1>4. QED
  BY <1>1, <1>2, <1>3, TypeCorrect, PTL DEF Spec, ResetOnce

-----------------------------------------------------------------------------
(* No nagging *)

\* The memory of levels is that of the last alert, and the level of an alert is
\* the one of the usage it states.
LevelInv ==
  \A s \in Servers :
    /\ levels[s] = alert[s].level
    /\ alert[s].level # NoLevel =>
         /\ alert[s].limit > 0
         /\ alert[s].level = ((alert[s].used * 100) \div alert[s].limit) \div 5

\* More usage of one limit is no lower a level.
LEMMA LevelMonotone ==
  ASSUME NEW a \in Nat, NEW b \in Nat, a <= b, NEW l \in Nat \ {0}
  PROVE  /\ ((a * 100) \div l) \div 5 <= ((b * 100) \div l) \div 5
         /\ ((a * 100) \div l) \div 5 \in Nat /\ ((b * 100) \div l) \div 5 \in Nat
<1>1. a * 100 \in Nat /\ b * 100 \in Nat /\ a * 100 <= b * 100
  OBVIOUS
<1>2. ASSUME NEW x \in Nat, NEW y \in Nat, x <= y, NEW k \in Nat \ {0}
      PROVE  x \div k <= y \div k /\ x \div k \in Nat /\ y \div k \in Nat
  BY <1>2
<1>3. /\ (a * 100) \div l <= (b * 100) \div l
      /\ (a * 100) \div l \in Nat /\ (b * 100) \div l \in Nat
  BY <1>1, <1>2
<1>4. QED
  BY <1>2, <1>3

\* Every step keeps it, and an alert repeats itself only as NoNagging allows.
LEMMA LevelInductive ==
  ASSUME TypeOK, LevelInv, [Next]_vars
  PROVE  /\ LevelInv'
         /\ \A s \in Servers :
              alert'[s].turn # alert[s].turn /\ SameQuota(alert[s], alert'[s])
                => \/ alert'[s].level > alert[s].level
                   \/ alert'[s].used < alert[s].used
<1> USE DEF LevelInv
<1> DEFINE Nags(s) ==
      /\ alert'[s].turn # alert[s].turn
      /\ SameQuota(alert[s], alert'[s])
      /\ ~(alert'[s].level > alert[s].level \/ alert'[s].used < alert[s].used)
<1>1. ASSUME UNCHANGED <<levels, alert>>
      PROVE  LevelInv' /\ \A s \in Servers : ~Nags(s)
  BY <1>1
<1>2. CASE Restart
  <2>1. \A s \in Servers : alert'[s].level = NoLevel /\ levels'[s] = NoLevel
    BY <1>2 DEF Restart, NoAlert
  <2>2. QED
    BY <2>1 DEF SameQuota
<1>3. ASSUME NEW s \in Servers, CheckServer(s)
      PROVE  LevelInv' /\ \A u \in Servers : ~Nags(u)
  <2> DEFINE new == AlertOf(s)
  <2>1. /\ levels' = [levels EXCEPT ![s] = LevelOf(s)]
        /\ alert' = [alert EXCEPT ![s] = IF levels[s] = LevelOf(s) THEN @ ELSE new]
        /\ OverThreshold(s)
    BY <1>3 DEF CheckServer
  <2>2. \A u \in Servers \ {s} : levels'[u] = levels[u] /\ alert'[u] = alert[u]
    BY <2>1 DEF TypeOK
  <2>3. levels'[s] = LevelOf(s)
    BY <2>1 DEF TypeOK
  <2>4. CASE levels[s] = LevelOf(s)
    <3>1. alert'[s] = alert[s]
      BY <2>1, <2>4 DEF TypeOK
    <3>2. QED
      BY <2>2, <2>3, <2>4, <3>1
  <2>5. CASE levels[s] # LevelOf(s)
    <3>1. alert'[s] = new
      BY <2>1, <2>5 DEF TypeOK
    <3>2. /\ new.level = LevelOf(s)
          /\ new.limit = round.rows[s].limit
          /\ new.used = Used(round.rows[s], latest[s].total)
      BY DEF AlertOf
    <3>3. /\ new.level = ((new.used * 100) \div new.limit) \div 5
          /\ new.limit > 0
      BY <2>1, <3>2 DEF LevelOf, Percent, OverThreshold
    <3>4. LevelInv'
      BY <2>2, <2>3, <3>1, <3>2, <3>3
    <3>5. ~Nags(s)
      <4> HIDE DEF new
      <4>1. SUFFICES ASSUME SameQuota(alert[s], new), ~(new.used < alert[s].used)
                     PROVE  new.level > alert[s].level
        BY <3>1
      <4>2. /\ alert[s].limit = new.limit /\ alert[s].level # new.level
            /\ alert[s].level = ((alert[s].used * 100) \div new.limit) \div 5
        BY <2>5, <3>2, <4>1 DEF SameQuota
      <4>3. alert[s] \in AlertType /\ new \in AlertType
        BY <2>1, AlertOfType DEF TypeOK, new
      <4>4. alert[s].used \in Nat /\ new.used \in Nat /\ new.limit \in Nat \ {0}
        <5>1. alert[s].used \in Nat /\ new.used \in Nat /\ new.limit \in Limits
          BY <4>3 DEF AlertType
        <5>2. new.limit \in Nat
          BY <5>1, TrafficAssumption
        <5>3. QED
          BY <3>3, <5>1, <5>2
      <4>5. /\ alert[s].level <= new.level
            /\ alert[s].level \in Nat /\ new.level \in Nat
        BY <3>3, <4>1, <4>2, <4>4, LevelMonotone
      <4>6. QED
        BY <4>2, <4>5
    <3>6. QED
      BY <2>2, <3>4, <3>5
  <2>6. QED
    BY <2>4, <2>5
<1>4. ASSUME NEW s \in Servers, NEW h \in Handlers, Handle(s, h)
      PROVE  UNCHANGED <<levels, alert>>
  BY <1>4 DEF Handle, Report, ReadBase, TakeDate,
               WriteBase, RecordFails, Ingest
<1>5. ASSUME NEW s \in Servers,
             Transfer(s) \/ Reboot(s) \/ SetLimit(s) \/ SkipServer(s)
      PROVE  UNCHANGED <<levels, alert>>
  BY <1>5 DEF Transfer, Reboot, SetLimit, SkipServer
<1>6. CASE NextMonth \/ StartRound \/ UNCHANGED vars
  BY <1>1, <1>6 DEF NextMonth, StartRound, vars
<1>7. QED
  BY <1>1, <1>2, <1>3, <1>4, <1>5, <1>6 DEF Next

\* An administrator is not alerted again about the same baseline and limit
\* unless the level rose or the usage fell: for any servers, limits and number
\* of reports handled at once, and under every fault (checkTraffic).
THEOREM NeverNagged == Spec => NoNagging
<1>1. Init => LevelInv
  BY DEF Init, LevelInv, NoAlert
<1>2. TypeOK /\ LevelInv /\ [Next]_vars =>
        /\ LevelInv'
        /\ [\A s \in Servers :
              alert'[s].turn # alert[s].turn /\ SameQuota(alert[s], alert'[s])
                => \/ alert'[s].level > alert[s].level
                   \/ alert'[s].used < alert[s].used]_vars
  BY LevelInductive
<1>3. QED
  BY <1>1, <1>2, TypeCorrect, PTL DEF Spec, NoNagging
=============================================================================
