--------------------------- MODULE Alerts_proofs ---------------------------
(***************************************************************************)
(* Theorems about Alerts, for any servers, rules and intervals, any length *)
(* of a day and every fault.                                               *)
(***************************************************************************)
EXTENDS Alerts, TLAPS

-----------------------------------------------------------------------------
(* Lemmas about the operators *)

\* Days are numbers, and later minutes are of later days (or the same one).
LEMMA DayFacts ==
  ASSUME NEW a \in Nat, NEW b \in Nat, a <= b
  PROVE  DayOf(a) \in Nat /\ DayOf(b) \in Nat /\ DayOf(a) <= DayOf(b)
<1> DEFINE qa == a \div Day
           qb == b \div Day
<1>1. /\ qa \in Nat /\ qb \in Nat /\ Day \in Nat \ {0}
      /\ a = Day * qa + (a % Day) /\ a % Day \in 0..(Day - 1)
      /\ b = Day * qb + (b % Day) /\ b % Day \in 0..(Day - 1)
  BY AlertsAssumption
<1>2. CASE qa <= qb
  BY <1>1, <1>2 DEF DayOf
<1>3. CASE qb + 1 <= qa
  <2>1. \A n, x, y \in Nat : y + 1 <= x => n * y + n <= n * x
    OBVIOUS
  <2>2. Day * qb + Day <= Day * qa /\ Day * qa \in Nat /\ Day * qb \in Nat
    BY <1>1, <1>3, <2>1
  <2>3. QED
    BY <1>1, <2>2
<1>4. QED
  BY <1>1, <1>2, <1>3

\* What a rule found due is alerted about with.
LEMMA DueType ==
  ASSUME TypeOK, NEW t
  PROVE  {[id |-> id, interval |-> rules[id].interval] :
            id \in {x \in DOMAIN rules : LoadDue(rules[x], t)}} \subseteq Due
BY DEF TypeOK, Due, Rule
-----------------------------------------------------------------------------
(* Type correctness *)

\* Every step keeps the types.
LEMMA TypeInductive == TypeOK /\ [Next]_vars => TypeOK'
<1> SUFFICES ASSUME TypeOK, [Next]_vars PROVE TypeOK'
  OBVIOUS
<1> USE DEF fleet, admin, check, notes, Goto
<1>1. CASE Tick
  <2>1. PICK load \in [Servers -> Load] :
          /\ now' = now + 1
          /\ minutes' = [s \in Servers |->
               [i \in 1..Window |-> IF i < Window THEN minutes[s][i + 1]
                                    ELSE load[s]]]
          /\ lastSeen' = [s \in Servers |->
               IF load[s] = "none" THEN lastSeen[s] ELSE now']
    BY <1>1 DEF Tick
  <2>2. minutes' \in [Servers -> [1..Window -> Load]]
    BY <2>1, AlertsAssumption DEF TypeOK
  <2>3. now' \in Nat /\ lastSeen' \in [Servers -> Nat]
    BY <2>1 DEF TypeOK
  <2>4. QED
    BY <1>1, <2>2, <2>3 DEF TypeOK, Tick
<1>2. CASE SaveNotify
  BY <1>2 DEF TypeOK, SaveNotify
<1>3. CASE CreateRule
  <2>1. PICK u \in Servers \cup {AllServers}, i \in Intervals \ {0} :
          /\ lastId' = lastId + 1 /\ lastId' \in Ids
          /\ rules' = [x \in DOMAIN rules \cup {lastId'} |->
               IF x = lastId' THEN [server |-> u, interval |-> i, last |-> 0]
               ELSE rules[x]]
    BY <1>3 DEF CreateRule
  <2>2. [server |-> u, interval |-> i, last |-> 0] \in Rule
    BY DEF Rule
  <2>3. /\ lastId' \in Nat
        /\ DOMAIN rules' \subseteq Ids
        /\ \A id \in DOMAIN rules' : rules'[id] \in Rule
    BY <2>1, <2>2 DEF TypeOK
  <2>4. QED
    BY <1>3, <2>3 DEF TypeOK, CreateRule
<1>4. CASE UpdateRule
  <2>1. PICK id \in DOMAIN rules, u \in Servers \cup {AllServers},
             i \in Intervals :
          rules' = [rules EXCEPT ![id].server = u, ![id].interval = i]
    BY <1>4 DEF UpdateRule
  <2>2. DOMAIN rules' = DOMAIN rules
    BY <2>1
  <2>3. ASSUME NEW x \in DOMAIN rules' PROVE rules'[x] \in Rule
    BY <2>1 DEF TypeOK, Rule
  <2>4. QED
    BY <1>4, <2>2, <2>3 DEF TypeOK, UpdateRule
<1>5. CASE DeleteRule
  BY <1>5 DEF TypeOK, DeleteRule, Without
<1>6. CASE DeleteServer
  <2>1. NoMinute \in [1..Window -> Load]
    BY DEF NoMinute, Load
  <2>2. QED
    BY <1>6, <2>1 DEF TypeOK, DeleteServer, Without
<1>7. CASE SetExpiry
  BY <1>7 DEF TypeOK, SetExpiry
<1>8. CASE StartRound
  BY <1>8 DEF TypeOK, StartRound, Pcs
<1>9. CASE CheckOffline
  BY <1>9 DEF TypeOK, CheckOffline, Pcs
<1>10. CASE CheckLoad
  BY <1>10, DueType DEF TypeOK, CheckLoad, Pcs
<1>11. CASE SendLoad
  <2>1. PICK r \in due : /\ current' = r
                         /\ due' = due \ {r}
                         /\ sent' = [sent EXCEPT !.load[r.id] = @ \cup {at}]
    BY <1>11 DEF SendLoad
  <2>2. r \in Due /\ r.id \in Ids
    BY DEF TypeOK, Due
  <2>3. sent' \in [load    : [Ids -> SUBSET Nat],
                   expiry  : Nat,
                   offline : SUBSET Servers]
    BY <2>1, <2>2 DEF TypeOK
  <2>4. QED
    BY <1>11, <2>1, <2>2, <2>3 DEF TypeOK, SendLoad, Pcs
<1>12. CASE MarkLoad
  <2>1. /\ DOMAIN rules' \subseteq Ids
        /\ \A id \in DOMAIN rules' : rules'[id] \in Rule
    BY <1>12 DEF TypeOK, MarkLoad, Rule
  <2>2. QED
    BY <1>12, <2>1 DEF TypeOK, MarkLoad, Pcs
<1>13. CASE MarkLoadFails
  <2>1. current.id \in Ids
    BY <1>13 DEF TypeOK, Due, MarkLoadFails
  <2>2. QED
    BY <1>13, <2>1 DEF TypeOK, MarkLoadFails, Pcs
<1>14. CASE LoadsDone
  BY <1>14 DEF TypeOK, LoadsDone, Pcs
<1>15. CASE CheckExpiry
  <2>1. due = {}
    BY <1>15 DEF TypeOK, CheckExpiry
  <2>2. pc' \in Pcs /\ ns' \in Settings /\ at' \in Nat
    <3>1. CASE at' = now /\ pc' = "sendingExpiry" /\ ns' = ns
      BY <3>1 DEF TypeOK, Pcs
    <3>2. CASE Rest
      BY <3>2 DEF TypeOK, Rest, Pcs, NoSettings, Settings
    <3>3. QED
      BY <1>15, <3>1, <3>2 DEF CheckExpiry
  <2>3. current = NoRule /\ pc' # "marking"
    BY <1>15 DEF TypeOK, CheckExpiry, Rest
  <2>4. lost' \in [load : SUBSET Ids, expiry : BOOLEAN, unread : BOOLEAN]
    BY <1>15 DEF TypeOK, CheckExpiry
  <2>5. QED
    BY <1>15, <2>1, <2>2, <2>3, <2>4 DEF TypeOK, CheckExpiry
<1>16. CASE SendExpiry
  <2>1. DayOf(at) \in Nat
    BY DayFacts DEF TypeOK
  <2>2. QED
    BY <1>16, <2>1 DEF TypeOK, SendExpiry, Pcs
<1>17. CASE MarkExpiry
  <2>1. DayOf(at) \in Nat
    BY DayFacts DEF TypeOK
  <2>2. QED
    BY <1>17, <2>1 DEF TypeOK, MarkExpiry, Rest, Pcs, NoSettings, Settings
<1>18. CASE MarkExpiryFails
  BY <1>18 DEF TypeOK, MarkExpiryFails, Rest, Pcs, NoSettings, Settings
<1>19. CASE Crash
  <2>1. pc = "marking" => current.id \in Ids
    BY DEF TypeOK, Due
  <2>2. lost' \in [load : SUBSET Ids, expiry : BOOLEAN, unread : BOOLEAN]
    BY <1>19, <2>1 DEF TypeOK, Crash
  <2>3. QED
    BY <1>19, <2>2 DEF TypeOK, Crash, Rest, Pcs, NoSettings, Settings
<1>20. CASE UNCHANGED vars
  BY <1>20 DEF TypeOK, vars
<1>21. QED
  BY <1>1, <1>2, <1>3, <1>4, <1>5, <1>6, <1>7, <1>8, <1>9, <1>10, <1>11,
     <1>12, <1>13, <1>14, <1>15, <1>16, <1>17, <1>18, <1>19, <1>20
     DEF Next, Admin, Notifier
\* Every reachable state has its type.
THEOREM TypeCorrect == Spec => []TypeOK
<1>1. Init => TypeOK
  <2>1. NoMinute \in [1..Window -> Load]
    BY DEF NoMinute, Load
  <2>2. QED
    BY <2>1, AlertsAssumption
       DEF Init, TypeOK, NoSettings, Settings, Pcs
<1>2. QED
  BY <1>1, TypeInductive, PTL DEF Spec
-----------------------------------------------------------------------------
(* The marks of rules, and the time between their alerts *)

\* Is checkLoad under way?
Alerting == pc \in {"sending", "marking"}

\* The times of a rule's alerts are past, and not after the check under way.
SentInPast ==
  /\ at <= now
  /\ \A id \in Ids : \A t \in sent.load[id] : t <= now /\ (Alerting => t <= at)

\* Ids are given out in order: what is due has one, and no rule that is still
\* to be created has ever been alerted about.
IdsInOrder ==
  /\ \A id \in DOMAIN rules : id <= lastId
  /\ \A r \in due : r.id <= lastId
  /\ \A id \in Ids : id > lastId => sent.load[id] = {}

\* Each rule that is due is so once, the one whose alert awaits its mark no
\* more, and the last alert of each was its interval ago.
DueOnce ==
  /\ \A r, q \in due : r.id = q.id => r = q
  /\ pc = "marking" => /\ \A r \in due : r.id # current.id
                       /\ at \in sent.load[current.id]
  /\ \A r \in due : \/ r.id \in lost.load
                    \/ \A t \in sent.load[r.id] : at - t >= r.interval

\* A rule's mark is not older than its last alert, once that has its mark.
MarksLatest ==
  \A id \in DOMAIN rules :
    \/ id \in lost.load
    \/ pc = "marking" /\ current.id = id
    \/ \A t \in sent.load[id] : t <= rules[id].last

\* The inductive invariant
RuleInv ==
  TypeOK /\ SentInPast /\ IdsInOrder /\ DueOnce /\ MarksLatest /\ MarksTrue

\* The part of the state the invariant is about
RuleView == <<rules, lastId, pc, at, due, current, sent.load, lost.load>>

\* A step is one of checkLoad's or of the administrator on the rules, or a
\* restart, or it changes nothing of this.
LEMMA RuleSteps ==
  ASSUME TypeOK, at <= now, [Next]_vars
  PROVE  \/ CreateRule \/ UpdateRule
         \/ /\ DOMAIN rules' \subseteq DOMAIN rules
            /\ \A id \in DOMAIN rules' : rules'[id] = rules[id]
            /\ UNCHANGED <<lastId, pc, at, due, current, sent, lost, now>>
         \/ CheckLoad \/ SendLoad \/ MarkLoad \/ MarkLoadFails
         \/ /\ due = {} /\ due' = {}
            /\ pc # "marking" /\ ~Alerting'
            /\ at' <= now
            /\ now' = now
            /\ UNCHANGED <<rules, lastId, current, sent.load, lost.load>>
         \/ Crash
         \/ now' = now + 1 /\ UNCHANGED RuleView
<1> USE DEF fleet, admin, check, notes, Goto, Alerting
<1>1. CASE Tick
  BY <1>1 DEF Tick, RuleView
<1>2. CASE SaveNotify \/ SetExpiry
  BY <1>2 DEF SaveNotify, SetExpiry
<1>3. CASE DeleteRule \/ DeleteServer
  BY <1>3 DEF DeleteRule, DeleteServer, Without
<1>4. CASE StartRound
  BY <1>4 DEF StartRound, TypeOK
<1>5. CASE CheckOffline
  BY <1>5 DEF CheckOffline, TypeOK
<1>6. CASE LoadsDone
  BY <1>6 DEF LoadsDone, TypeOK
<1>7. CASE CheckExpiry
  BY <1>7 DEF CheckExpiry, TypeOK, Rest
<1>8. CASE SendExpiry
  BY <1>8 DEF SendExpiry, TypeOK
<1>9. CASE MarkExpiry \/ MarkExpiryFails
  BY <1>9 DEF MarkExpiry, MarkExpiryFails, TypeOK, Rest
<1>10. CASE UNCHANGED vars
  BY <1>10 DEF vars
<1>11. QED
  BY <1>1, <1>2, <1>3, <1>4, <1>5, <1>6, <1>7, <1>8, <1>9, <1>10
     DEF Next, Admin, Notifier

\* A step keeps the marks true and the alerts of a rule apart.
LEMMA RuleInductive == RuleInv /\ [Next]_vars => RuleInv'
<1> SUFFICES ASSUME RuleInv, [Next]_vars PROVE RuleInv'
  OBVIOUS
<1> USE DEF RuleInv, Alerting, fleet, admin, check, notes, Goto
<1>1. TypeOK'
  BY TypeInductive
<1>2. /\ now \in Nat /\ at \in Nat /\ lastId \in Nat /\ due \subseteq Due
      /\ Ids \subseteq Nat
      /\ DOMAIN rules \subseteq Ids
      /\ \A id \in DOMAIN rules : rules[id] \in Rule
      /\ sent.load \in [Ids -> SUBSET Nat]
      /\ \A id \in Ids : \A t \in sent.load[id] : t \in Nat
  BY AlertsAssumption DEF TypeOK
<1>3. CASE CreateRule
  <2>1. PICK u \in Servers \cup {AllServers}, i \in Intervals \ {0} :
          /\ lastId' = lastId + 1 /\ lastId' \in Ids
          /\ rules' = [x \in DOMAIN rules \cup {lastId'} |->
               IF x = lastId' THEN [server |-> u, interval |-> i, last |-> 0]
               ELSE rules[x]]
          /\ UNCHANGED <<now, pc, at, due, current, sent, lost>>
    BY <1>3 DEF CreateRule
  <2>2. sent.load[lastId'] = {}
    BY <1>2, <2>1 DEF IdsInOrder
  <2>3. ASSUME NEW id \in DOMAIN rules'
        PROVE  \/ id \in DOMAIN rules /\ rules'[id] = rules[id] /\ id <= lastId
               \/ id = lastId' /\ rules'[id].last = 0
    BY <1>2, <2>1 DEF IdsInOrder
  <2>4. SentInPast' /\ DueOnce'
    BY <2>1 DEF SentInPast, DueOnce
  <2>5. IdsInOrder'
    <3>1. ASSUME NEW id \in DOMAIN rules' PROVE id <= lastId'
      <4>1. id = lastId' \/ (id \in Nat /\ id <= lastId)
        BY <1>2, <2>3
      <4>2. QED
        BY <1>2, <2>1, <4>1
    <3>2. \A r \in due : r.id \in Nat /\ r.id <= lastId
      BY <1>2 DEF IdsInOrder, Due
    <3>3. QED
      BY <1>2, <2>1, <3>1, <3>2 DEF IdsInOrder
  <2>6. MarksLatest' /\ MarksTrue'
    BY <2>1, <2>2, <2>3 DEF MarksLatest, MarksTrue
  <2>7. QED
    BY <1>1, <2>4, <2>5, <2>6
<1>4. CASE UpdateRule
  <2>1. PICK e \in DOMAIN rules, u \in Servers \cup {AllServers},
             i \in Intervals :
          rules' = [rules EXCEPT ![e].server = u, ![e].interval = i]
    BY <1>4 DEF UpdateRule
  <2>2. UNCHANGED <<now, lastId, pc, at, due, current, sent, lost>>
    BY <1>4 DEF UpdateRule
  <2>3. /\ DOMAIN rules' = DOMAIN rules
        /\ \A id \in DOMAIN rules : rules'[id].last = rules[id].last
    BY <1>2, <2>1 DEF Rule
  <2>4. QED
    BY <1>1, <2>2, <2>3
       DEF SentInPast, IdsInOrder, DueOnce, MarksLatest, MarksTrue
<1>5. CASE /\ DOMAIN rules' \subseteq DOMAIN rules
           /\ \A id \in DOMAIN rules' : rules'[id] = rules[id]
           /\ UNCHANGED <<lastId, pc, at, due, current, sent, lost, now>>
  BY <1>1, <1>5 DEF SentInPast, IdsInOrder, DueOnce, MarksLatest, MarksTrue
<1>6. CASE CheckLoad
  <2>1. /\ pc = "load" /\ pc' = "sending" /\ at' = now
        /\ due' = {[id |-> id, interval |-> rules[id].interval] :
                     id \in {x \in DOMAIN rules : LoadDue(rules[x], now)}}
        /\ UNCHANGED <<now, rules, lastId, current, sent, lost>>
    BY <1>6 DEF CheckLoad
  <2>2. ASSUME NEW r \in due'
        PROVE  /\ r.id \in DOMAIN rules
               /\ r.interval = rules[r.id].interval
               /\ r = [id |-> r.id, interval |-> r.interval]
               /\ now - rules[r.id].last >= r.interval
    BY <2>1 DEF LoadDue
  <2>3. SentInPast'
    BY <1>2, <2>1 DEF SentInPast
  <2>4. IdsInOrder'
    BY <2>1, <2>2 DEF IdsInOrder
  <2>5. ASSUME NEW r \in due'
        PROVE  \/ r.id \in lost'.load
               \/ \A t \in sent'.load[r.id] : at' - t >= r.interval
    <3>1. \/ r.id \in lost.load
          \/ \A t \in sent.load[r.id] : t <= rules[r.id].last
      BY <2>1, <2>2 DEF MarksLatest
    <3>2. /\ rules[r.id].last \in Nat /\ r.interval \in Nat
          /\ \A t \in sent.load[r.id] : t \in Nat
      BY <1>2, <2>2, AlertsAssumption DEF Rule
    <3>3. QED
      BY <1>2, <2>1, <2>2, <3>1, <3>2
  <2>6. \A r, q \in due' : r.id = q.id => r = q
    BY <2>2
  <2>7. DueOnce'
    BY <2>1, <2>5, <2>6 DEF DueOnce
  <2>8. MarksLatest' /\ MarksTrue'
    BY <2>1 DEF MarksLatest, MarksTrue
  <2>9. QED
    BY <1>1, <2>3, <2>4, <2>7, <2>8
<1>7. CASE SendLoad
  <2>1. PICK r \in due :
          /\ current' = r
          /\ due' = due \ {r}
          /\ sent' = [sent EXCEPT !.load[r.id] = @ \cup {at}]
    BY <1>7 DEF SendLoad
  <2>2. /\ pc = "sending" /\ pc' = "marking"
        /\ UNCHANGED <<now, rules, lastId, at, lost>>
    BY <1>7 DEF SendLoad
  <2>3. /\ r.id \in Ids /\ r.id <= lastId
        /\ sent'.load = [sent.load EXCEPT ![r.id] = @ \cup {at}]
    BY <1>2, <2>1 DEF IdsInOrder, Due, TypeOK
  <2>4. /\ sent'.load[r.id] = sent.load[r.id] \cup {at}
        /\ \A id \in Ids \ {r.id} : sent'.load[id] = sent.load[id]
    BY <1>2, <2>3
  <2>5. SentInPast'
    BY <1>2, <2>2, <2>4 DEF SentInPast
  <2>6. IdsInOrder'
    BY <1>2, <2>1, <2>2, <2>3, <2>4 DEF IdsInOrder
  <2>7. \A q \in due' : q \in due /\ q.id # r.id /\ q.id \in Ids
    BY <1>2, <2>1 DEF DueOnce, Due
  <2>8. DueOnce'
    BY <2>1, <2>2, <2>4, <2>7 DEF DueOnce
  <2>9. MarksLatest'
    BY <1>2, <2>1, <2>2, <2>4 DEF MarksLatest
  <2>10. MarksTrue'
    BY <1>2, <2>2, <2>4 DEF MarksTrue
  <2>11. QED
    BY <1>1, <2>5, <2>6, <2>8, <2>9, <2>10
<1>8. CASE MarkLoad
  <2>1. /\ pc = "marking" /\ pc' = "sending"
        /\ rules' = [id \in DOMAIN rules |->
             IF id = current.id THEN [rules[id] EXCEPT !.last = at]
             ELSE rules[id]]
        /\ lost' = [lost EXCEPT !.load = @ \ {current.id}]
        /\ UNCHANGED <<now, lastId, at, due, sent>>
    BY <1>8 DEF MarkLoad
  <2>2. /\ DOMAIN rules' = DOMAIN rules
        /\ \A id \in DOMAIN rules :
             rules'[id].last = IF id = current.id THEN at ELSE rules[id].last
    BY <1>2, <2>1 DEF Rule
  <2>3. lost'.load = lost.load \ {current.id}
    BY <2>1 DEF TypeOK
  <2>4. SentInPast' /\ IdsInOrder'
    BY <2>1, <2>2 DEF SentInPast, IdsInOrder
  <2>5. DueOnce'
    BY <2>1, <2>3 DEF DueOnce
  <2>6. MarksLatest'
    BY <1>2, <2>1, <2>2, <2>3 DEF MarksLatest, SentInPast
  <2>7. MarksTrue'
    BY <2>1, <2>2 DEF MarksTrue, DueOnce
  <2>8. QED
    BY <1>1, <2>4, <2>5, <2>6, <2>7
<1>9. CASE MarkLoadFails
  <2>1. /\ pc = "marking" /\ pc' = "sending"
        /\ lost' = [lost EXCEPT !.load = @ \cup {current.id}]
        /\ UNCHANGED <<now, rules, lastId, at, due, sent>>
    BY <1>9 DEF MarkLoadFails
  <2>2. lost'.load = lost.load \cup {current.id}
    BY <2>1 DEF TypeOK
  <2>3. QED
    BY <1>1, <2>1, <2>2
       DEF SentInPast, IdsInOrder, DueOnce, MarksLatest, MarksTrue
<1>10. CASE /\ due = {} /\ due' = {}
            /\ pc # "marking" /\ ~Alerting'
            /\ at' <= now
            /\ now' = now
            /\ UNCHANGED <<rules, lastId, current, sent.load, lost.load>>
  BY <1>1, <1>10 DEF SentInPast, IdsInOrder, DueOnce, MarksLatest, MarksTrue
<1>11. CASE Crash
  <2>1. /\ pc' = "resting" /\ at' = 0 /\ due' = {}
        /\ lost'.load = IF pc = "marking" THEN lost.load \cup {current.id}
                        ELSE lost.load
        /\ UNCHANGED <<now, rules, lastId, sent>>
    BY <1>11 DEF Crash, Rest
  <2>2. QED
    BY <1>1, <1>2, <2>1
       DEF SentInPast, IdsInOrder, DueOnce, MarksLatest, MarksTrue
<1>12. CASE now' = now + 1 /\ UNCHANGED RuleView
  <2>1. SentInPast'
    <3>1. at' = at /\ pc' = pc /\ sent'.load = sent.load
      BY <1>12 DEF RuleView
    <3>2. ASSUME NEW id \in Ids, NEW t \in sent.load[id]
          PROVE  t \in Nat /\ t <= now /\ (Alerting => t <= at)
      BY <1>2 DEF SentInPast
    <3>3. at <= now /\ now' = now + 1
      BY <1>12 DEF SentInPast
    <3>4. at' <= now'
      BY <1>2, <3>1, <3>3
    <3>5. ASSUME NEW id \in Ids, NEW t \in sent'.load[id]
          PROVE  t <= now' /\ (Alerting' => t <= at')
      BY <1>2, <3>1, <3>2, <3>3
    <3>6. QED
      BY <3>4, <3>5 DEF SentInPast
  <2>2. QED
    BY <1>1, <1>12, <2>1
       DEF RuleView, IdsInOrder, DueOnce, MarksLatest, MarksTrue
<1>13. QED
  <2>1. at <= now
    BY DEF SentInPast
  <2>2. QED
    BY <1>3, <1>4, <1>5, <1>6, <1>7, <1>8, <1>9, <1>10, <1>11, <1>12, <2>1,
       RuleSteps

\* The invariant holds in every reachable state.
LEMMA RuleInvariant == Spec => []RuleInv
<1>1. Init => RuleInv
  <2>1. Init => TypeOK
    <3>1. NoMinute \in [1..Window -> Load]
      BY DEF NoMinute, Load
    <3>2. QED
      BY <3>1, AlertsAssumption
         DEF Init, TypeOK, NoSettings, Settings, Pcs
  <2>2. Init => SentInPast /\ IdsInOrder /\ DueOnce /\ MarksLatest /\ MarksTrue
    BY AlertsAssumption
       DEF Init, SentInPast, Alerting, IdsInOrder, DueOnce, MarksLatest,
           MarksTrue
  <2>3. QED
    BY <2>1, <2>2 DEF RuleInv
<1>2. QED
  BY <1>1, RuleInductive, PTL DEF Spec

\* What a rule's row says of its last alert is true, over edits, deletions,
\* failed marks and crashes.
THEOREM MarksAreTrue == Spec => []MarksTrue
BY RuleInvariant, PTL DEF RuleInv

\* A rule's alerts come from checks its interval apart, unless a mark is lost.
THEOREM AlertsAreSpaced == Spec => RuleSpaced
<1>1. RuleInv /\ [Next]_vars =>
        [SendLoad => \/ current'.id \in lost.load
                     \/ \A t \in sent.load[current'.id] :
                          at - t >= current'.interval]_vars
  BY DEF RuleInv, DueOnce, SendLoad
<1>2. QED
  BY <1>1, RuleInvariant, PTL DEF Spec, RuleSpaced
-----------------------------------------------------------------------------
(* Expiry alerts *)

\* The days of the last expiry alert and of its mark are no later than today;
\* the mark is up to date unless it was lost or is being written, and an
\* alert about to be sent is of a later day than the one before, if the check
\* could read the mark.
DayInv ==
  /\ at <= now
  /\ sent.expiry <= DayOf(now) /\ lastDay <= DayOf(now)
  /\ lost.expiry \/ pc = "markingExpiry" \/ sent.expiry <= lastDay
  /\ pc = "sendingExpiry" =>
       lost.expiry \/ lost.unread \/ DayOf(at) > sent.expiry
  /\ pc = "markingExpiry" => sent.expiry = DayOf(at)

\* A step keeps the days in order.
LEMMA DayInductive == TypeOK /\ DayInv /\ [Next]_vars => DayInv'
<1> SUFFICES ASSUME TypeOK, DayInv, [Next]_vars PROVE DayInv'
  OBVIOUS
<1> USE DEF fleet, admin, check, notes, Goto
<1>1. /\ now \in Nat /\ at \in Nat /\ lastDay \in Nat /\ sent.expiry \in Nat
      /\ DayOf(now) \in Nat /\ DayOf(at) \in Nat /\ DayOf(at) <= DayOf(now)
      /\ now + 1 \in Nat
      /\ DayOf(now + 1) \in Nat /\ DayOf(now) <= DayOf(now + 1)
  BY DayFacts DEF TypeOK, DayInv
<1>2. CASE Tick
  BY <1>1, <1>2 DEF DayInv, Tick
<1>3. ASSUME UNCHANGED <<now, lastDay, sent.expiry, lost.expiry>>, at' <= now,
             pc # "markingExpiry", pc' \notin {"sendingExpiry", "markingExpiry"}
      PROVE  DayInv'
  BY <1>3 DEF DayInv
<1>4. ASSUME UNCHANGED <<now, lastDay, sent.expiry, lost, at, pc>>
      PROVE  DayInv'
  BY <1>4 DEF DayInv
<1>5. CASE Admin
  BY <1>4, <1>5 DEF Admin, SaveNotify, CreateRule, UpdateRule, DeleteRule,
                    DeleteServer, SetExpiry
<1>6. CASE StartRound \/ CheckOffline
  BY <1>3, <1>6 DEF StartRound, CheckOffline, DayInv, TypeOK
<1>7. CASE CheckLoad \/ LoadsDone
  BY <1>1, <1>3, <1>7 DEF CheckLoad, LoadsDone, DayInv
<1>8. CASE SendLoad \/ MarkLoad \/ MarkLoadFails
  <2>1. sent'.expiry = sent.expiry /\ lost'.expiry = lost.expiry
    BY <1>8 DEF SendLoad, MarkLoad, MarkLoadFails, TypeOK
  <2>2. QED
    BY <1>3, <1>8, <2>1 DEF SendLoad, MarkLoad, MarkLoadFails, DayInv
<1>9. CASE CheckExpiry
  <2>1. /\ pc = "expiry" /\ lost'.expiry = lost.expiry
        /\ UNCHANGED <<now, lastDay, sent>>
    BY <1>9 DEF CheckExpiry, TypeOK
  <2>2. CASE at' = now /\ pc' = "sendingExpiry" /\ lastDay # DayOf(now)
    BY <1>1, <2>1, <2>2 DEF DayInv
  <2>3. CASE at' = now /\ pc' = "sendingExpiry" /\ lost'.unread
    BY <1>1, <2>1, <2>3 DEF DayInv
  <2>4. CASE Rest
    BY <1>1, <1>3, <2>1, <2>4 DEF Rest
  <2>5. QED
    BY <1>9, <2>2, <2>3, <2>4 DEF CheckExpiry, TypeOK
<1>10. CASE SendExpiry
  <2>1. /\ pc' = "markingExpiry" /\ sent'.expiry = DayOf(at)
        /\ lost'.expiry = lost.expiry
        /\ UNCHANGED <<now, at, lastDay>>
    BY <1>10 DEF SendExpiry, TypeOK
  <2>2. QED
    BY <1>1, <2>1 DEF DayInv
<1>11. CASE MarkExpiry
  <2>1. /\ pc = "markingExpiry" /\ pc' = "resting" /\ at' = 0
        /\ lastDay' = DayOf(at)
        /\ UNCHANGED <<now, sent>>
    BY <1>11 DEF MarkExpiry, Rest
  <2>2. QED
    BY <1>1, <2>1 DEF DayInv
<1>12. CASE MarkExpiryFails
  <2>1. /\ pc' = "resting" /\ at' = 0 /\ lost'.expiry = TRUE
        /\ UNCHANGED <<now, lastDay, sent>>
    BY <1>12 DEF MarkExpiryFails, Rest, TypeOK
  <2>2. QED
    BY <1>1, <2>1 DEF DayInv
<1>13. CASE Crash
  <2>1. /\ pc' = "resting" /\ at' = 0
        /\ lost'.expiry = (lost.expiry \/ pc = "markingExpiry")
        /\ UNCHANGED <<now, lastDay, sent>>
    BY <1>13 DEF Crash, Rest
  <2>2. lost'.expiry \/ sent'.expiry <= lastDay'
    BY <2>1 DEF DayInv
  <2>3. at' <= now' /\ sent'.expiry <= DayOf(now') /\ lastDay' <= DayOf(now')
    BY <1>1, <2>1 DEF DayInv
  <2>4. QED
    BY <2>1, <2>2, <2>3 DEF DayInv
<1>14. CASE UNCHANGED vars
  BY <1>4, <1>14 DEF vars
<1>15. QED
  BY <1>2, <1>5, <1>6, <1>7, <1>8, <1>9, <1>10, <1>11, <1>12, <1>13, <1>14
     DEF Next, Notifier

\* There is at most one expiry alert a day, unless the mark of the first was not
\* stored or could not be read: for any servers and rules, over crashes, failed
\* writes and failed reads (checkExpiry).
THEOREM OneExpiryAlertADay == Spec => ExpiryOncePerDay
<1>1. Init => DayInv
  <2>1. DayOf(Start) \in Nat
    BY DayFacts, AlertsAssumption
  <2>2. QED
    BY <2>1, AlertsAssumption DEF Init, DayInv
<1>2. TypeOK /\ DayInv /\ [Next]_vars => DayInv'
  BY DayInductive
<1>3. DayInv /\ [Next]_vars =>
        [SendExpiry =>
           lost.expiry \/ lost.unread \/ DayOf(at) > sent.expiry]_vars
  BY DEF DayInv, SendExpiry
<1>4. QED
  BY <1>1, <1>2, <1>3, TypeCorrect, PTL DEF Spec, ExpiryOncePerDay
=============================================================================
