-------------------------- MODULE Dashboard_proofs --------------------------
(***************************************************************************)
(* Proofs about what a browser shows of a task, for every sequence of      *)
(* metrics and every bound: type correctness, which says that no result is *)
(* drawn more than twice until the next answer, and that no connection     *)
(* stays in the room of a task nobody looks at.                            *)
(***************************************************************************)
EXTENDS Dashboard, SequenceTheorems, TLAPS

USE DEF Results, Queries

-----------------------------------------------------------------------------
(* A result is drawn twice at most: by an answer, and by the one push that *)
(* carries it, which is sent when the result is new (PushedOnce, NotYet).  *)
(* Until that push arrives there is room for it (RoomToDraw), as answers   *)
(* know the results there are (AnswersAreResults).                         *)

Carries(p, r) == p.event = "result" /\ p.result = r
Pushed(r) == {i \in DOMAIN inbox : Carries(inbox[i], r)}

PushedOnce == \A r \in Results : \A i, j \in Pushed(r) : i = j
RoomToDraw == \A r \in Results : Pushed(r) # {} => points[r] <= 1
NotYet == \A r \in Results : r > results => points[r] = 0 /\ Pushed(r) = {}
AnswersAreResults ==
  \A i \in Queries :
    queries[i] # Free /\ queries[i].page = "detail" /\ queries[i].data # NoData
      => queries[i].data \subseteq 1..results

DrawInv == TypeOK /\ PushedOnce /\ RoomToDraw /\ NotYet /\ AnswersAreResults

LEMMA Bounds ==
  /\ MaxQueries \in Nat \ {0} /\ MaxResults \in Nat
  /\ MaxVisits \in Nat /\ MaxFaults \in Nat
BY BoundsAssumption

LEMMA RowType == TypeOK => ServerRow \in Row
BY Bounds DEF TypeOK, ServerRow, Row, Status

LEMMA DrawnType ==
  ASSUME NEW set
  PROVE  /\ Drawn(set) \in [Results -> 0..2]
         /\ \A r \in Results : Drawn(set)[r] <= 1
         /\ \A r \in Results : r \notin set => Drawn(set)[r] = 0
BY DEF Drawn

LEMMA UndrawnType ==
  /\ Undrawn \in [Results -> 0..2]
  /\ \A r \in Results : Undrawn[r] = 0
BY DEF Undrawn

(* A query is asked without data.                                          *)
LEMMA FreshQuery ==
  /\ DashboardQuery \in Query /\ DashboardQuery.data = NoData
  /\ \A r \in Ranges : DetailQuery(r) \in Query /\ DetailQuery(r).data = NoData
  /\ \A page \in {"dashboard", "detail"} :
       FirstQuery(page) \in Query /\ FirstQuery(page).data = NoData
BY DEF DashboardQuery, DetailQuery, FirstQuery, Query, Ranges

LEMMA AskType ==
  ASSUME NEW qs \in [Queries -> {Free} \cup Query], NEW query \in Query, Ask(qs, query)
  PROVE  /\ queries' \in [Queries -> {Free} \cup Query]
         /\ \A i \in Queries : queries'[i] = qs[i] \/ queries'[i] = query
BY DEF Ask

(* Asking keeps what is known of the answers.                              *)
LEMMA AskKeepsAnswers ==
  ASSUME DrawInv, NEW query \in Query, query.data = NoData, results' = results,
         NEW qs \in [Queries -> {Free} \cup Query],
         \A i \in Queries : qs[i] = queries[i] \/ qs[i] = Free,
         Ask(qs, query)
  PROVE  queries' \in [Queries -> {Free} \cup Query] /\ AnswersAreResults'
<1>1. \A i \in Queries : queries'[i] = queries[i] \/ queries'[i] = Free \/ queries'[i] = query
  BY AskType
<1> QED
  BY <1>1, AskType DEF DrawInv, AnswersAreResults

(* What Emit does to the pushes on their way.                              *)
LEMMA EmitPushes ==
  ASSUME TypeOK, NEW pushes \in Seq(Push), Emit(pushes)
  PROVE  /\ inbox' \in Seq(Push)
         /\ inbox' # <<>> => up
         /\ \A i \in DOMAIN inbox' :
              \/ i \in DOMAIN inbox /\ inbox'[i] = inbox[i]
              \/ /\ i > Len(inbox) /\ i - Len(inbox) \in DOMAIN pushes
                 /\ inbox'[i] = pushes[i - Len(inbox)]
<1>1. inbox \in Seq(Push) /\ (inbox # <<>> => up)
  BY DEF TypeOK
<1>2. CASE up
  BY <1>1, <1>2 DEF Emit
<1>3. CASE ~up
  BY <1>1, <1>3 DEF Emit
<1> QED
  BY <1>2, <1>3

(* Pushes that carry no result change nothing of the drawing.              *)
LEMMA OtherPushes ==
  ASSUME DrawInv, NEW pushes \in Seq(Push), Emit(pushes),
         \A j \in DOMAIN pushes : pushes[j].event # "result",
         points' = points, results' = results
  PROVE  PushedOnce' /\ RoomToDraw' /\ NotYet'
<1>1. \A r \in Results : Pushed(r)' \subseteq Pushed(r)
  BY EmitPushes DEF Pushed, Carries, DrawInv
<1> QED
  BY <1>1 DEF DrawInv, PushedOnce, RoomToDraw, NotYet

(* With the connection goes what was on its way.                           *)
LEMMA NothingPushed ==
  ASSUME DrawInv, inbox' = <<>>, results' = results,
         points' = points \/ points' = Undrawn
  PROVE  PushedOnce' /\ RoomToDraw' /\ NotYet'
<1>1. \A r \in Results : Pushed(r)' = {}
  BY DEF Pushed
<1> QED
  BY <1>1, UndrawnType DEF DrawInv, PushedOnce, RoomToDraw, NotYet

(* A page that starts anew draws nothing.                                  *)
LEMMA Redrawn ==
  ASSUME DrawInv, inbox' = inbox, results' = results,
         points' = points \/ points' = Undrawn
  PROVE  PushedOnce' /\ RoomToDraw' /\ NotYet'
<1>1. \A r \in Results : Pushed(r)' = Pushed(r)
  BY DEF Pushed
<1>2. \A r \in Results : points'[r] = points[r] \/ points'[r] = 0
  BY UndrawnType
<1> QED
  BY <1>1, <1>2 DEF DrawInv, PushedOnce, RoomToDraw, NotYet

LEMMA InitDrawInv == Init => DrawInv
<1> SUFFICES ASSUME Init PROVE DrawInv
  OBVIOUS
<1>1. queries \in [Queries -> {Free} \cup Query]
      /\ \A i \in Queries : queries[i] # Free => queries[i].data = NoData
  BY FreshQuery DEF Init
<1>2. Unlisted \in [listed: BOOLEAN, latest: 0..MaxResults, rest: 0..MaxResults,
                         alert: {"alerting", "normal"}]
  BY Bounds DEF Unlisted
<1>3. <<>> \in Seq(Push) /\ <<>> \in Seq({"subscribe", "unsubscribe"})
  OBVIOUS
<1>4. TypeOK
  <2>1. {} \subseteq ToSet(Metrics) /\ {} \subseteq 1..0 /\ 0 \in 0..0
    OBVIOUS
  <2>2. /\ alerting \subseteq ToSet(Metrics) /\ latest \in 0..results /\ stored \subseteq 1..results
        /\ results \in 0..MaxResults /\ visits \in 0..MaxVisits /\ faults \in 0..MaxFaults
    BY <2>1, Bounds DEF Init
  <2>3. points \in [Results -> 0..2]
    BY UndrawnType DEF Init
  <2>4. /\ inRoom \in BOOLEAN /\ up \in BOOLEAN /\ listening \in BOOLEAN
        /\ (inRoom => up) /\ (listening => view = "detail") /\ (inbox # <<>> => up)
        /\ range \in Ranges /\ pointsRange \in Ranges /\ view \in {"dashboard", "detail"}
    BY DEF Init, Ranges
  <2>5. /\ inbox \in Seq(Push) /\ outbox \in Seq({"subscribe", "unsubscribe"})
        /\ shown \in [listed: BOOLEAN, latest: 0..MaxResults, rest: 0..MaxResults,
                         alert: {"alerting", "normal"}]
    BY <1>2, <1>3 DEF Init
  <2> QED
    BY <1>1, <2>2, <2>3, <2>4, <2>5 DEF TypeOK
<1>5. \A r \in Results : Pushed(r) = {}
  BY DEF Init, Pushed
<1> QED
  BY <1>1, <1>4, <1>5, UndrawnType
     DEF Init, DrawInv, PushedOnce, RoomToDraw, NotYet, AnswersAreResults

-----------------------------------------------------------------------------
LEMMA ProbeResultDrawInv == DrawInv /\ OnProbeResult => DrawInv'
<1> SUFFICES ASSUME DrawInv, OnProbeResult PROVE DrawInv'
  OBVIOUS
<1>0. TypeOK
  BY DEF DrawInv
<1> DEFINE Sent == IF inRoom THEN <<[event |-> "result", result |-> results + 1]>> ELSE <<>>
           Event(m, now) == [event |-> "alert", alert |-> Status({m} \cap now)]
<1>1. PICK changed \in SUBSET ToSet(Metrics), written \in BOOLEAN :
        LET now == SymDiff(alerting, changed)
            Changed(m) == m \in changed
            events == SelectSeq(Metrics, Changed)
        IN /\ alerting' = now
           /\ stored' = IF written THEN stored \cup {results + 1} ELSE stored
           /\ \E n \in 0..Len(events) :
                /\ Emit(Sent \o [i \in 1..n |-> Event(events[i], now)])
                /\ IF written /\ n = Len(events) THEN UNCHANGED faults ELSE Fault
  BY DEF OnProbeResult
<1> DEFINE now == SymDiff(alerting, changed)
           Changed(m) == m \in changed
           events == SelectSeq(Metrics, Changed)
<1>2. PICK n \in 0..Len(events) :
        /\ Emit(Sent \o [i \in 1..n |-> Event(events[i], now)])
        /\ IF written /\ n = Len(events) THEN UNCHANGED faults ELSE Fault
  BY <1>1
<1>n. alerting' = now
  BY <1>1
<1>s. stored' = IF written THEN stored \cup {results + 1} ELSE stored
  BY <1>1
<1> HIDE DEF now, Changed, events
<1> DEFINE alerts == [i \in 1..n |-> Event(events[i], now)]
           pushes == Sent \o alerts
<1>3. results' = results + 1 /\ results + 1 \in Results /\ results \in Nat
  BY <1>0, Bounds DEF OnProbeResult, TypeOK
<1>4. Sent \in Seq(Push) /\ \A j \in DOMAIN Sent : j = 1 /\ Carries(Sent[j], results + 1)
  <2>1. [event |-> "result", result |-> results + 1] \in Push
    BY <1>3 DEF Push
  <2> QED
    BY <2>1 DEF Carries
<1>5. alerts \in Seq(Push) /\ \A j \in DOMAIN alerts : alerts[j].event = "alert"
  <2>1. \A m, on : Event(m, on) \in Push /\ Event(m, on).event = "alert"
    BY DEF Push, Status
  <2>2. \A j \in 1..n : alerts[j] \in Push /\ alerts[j].event = "alert"
    BY <2>1
  <2> HIDE DEF Event
  <2> QED
    BY <2>2
<1>6. /\ pushes \in Seq(Push)
      /\ \A j \in DOMAIN pushes :
           \/ j = 1 /\ Carries(pushes[j], results + 1)
           \/ pushes[j].event = "alert"
  <2> HIDE DEF alerts, Sent
  <2>1. \A j \in DOMAIN pushes :
          \/ j \in DOMAIN Sent /\ pushes[j] = Sent[j]
          \/ j - Len(Sent) \in DOMAIN alerts /\ pushes[j] = alerts[j - Len(Sent)]
    BY <1>4, <1>5
  <2> QED
    BY <1>4, <1>5, <2>1
<1>7. Emit(pushes)
  BY <1>2
<1> HIDE DEF pushes
<1>8. /\ inbox' \in Seq(Push) /\ (inbox' # <<>> => up)
      /\ \A i \in DOMAIN inbox' :
           \/ i \in DOMAIN inbox /\ inbox'[i] = inbox[i]
           \/ i = Len(inbox) + 1 /\ Carries(inbox'[i], results + 1)
           \/ inbox'[i].event = "alert"
  <2>1. Len(inbox) \in Nat
    BY <1>0 DEF TypeOK
  <2>2. DOMAIN pushes \subseteq Nat
    BY <1>6
  <2>3. \A i \in DOMAIN inbox' : i \in Nat
    BY <1>0, <1>6, <1>7, EmitPushes
  <2> QED
    BY <1>0, <1>6, <1>7, <2>1, <2>2, <2>3, EmitPushes
<1>z. PICK new \in Results : new = results + 1
  BY <1>3
<1>9. \A r \in Results : r # new => Pushed(r)' \subseteq Pushed(r)
  BY <1>8, <1>3, <1>z DEF Pushed, Carries
<1>10. Pushed(new) = {} /\ points[new] = 0
  BY <1>3, <1>z DEF DrawInv, NotYet
<1>11. Pushed(new)' \subseteq {Len(inbox) + 1}
  <2> SUFFICES ASSUME NEW i \in DOMAIN inbox', Carries(inbox'[i], new)
               PROVE  i = Len(inbox) + 1
    BY DEF Pushed
  <2>1. ~(i \in DOMAIN inbox /\ inbox'[i] = inbox[i])
    BY <1>10 DEF Pushed
  <2>2. inbox'[i].event # "alert"
    BY DEF Carries
  <2> QED
    BY <1>8, <1>z, <2>1, <2>2
<1>12. points' = points /\ queries' = queries
  BY DEF OnProbeResult, detail
<1>13. PushedOnce'
  <2> SUFFICES ASSUME NEW s \in Results PROVE \A i, j \in Pushed(s)' : i = j
    BY DEF PushedOnce
  <2>1. CASE s = new
    BY <1>11, <2>1
  <2>2. CASE s # new
    BY <1>9, <2>2 DEF DrawInv, PushedOnce
  <2> QED
    BY <2>1, <2>2
<1>14. RoomToDraw'
  BY <1>3, <1>z, <1>9, <1>10, <1>12 DEF DrawInv, RoomToDraw
<1>15. NotYet'
  BY <1>3, <1>z, <1>9, <1>12 DEF DrawInv, NotYet
<1>16. AnswersAreResults'
  BY <1>3, <1>12 DEF DrawInv, AnswersAreResults
<1>17. alerting' \subseteq ToSet(Metrics)
  BY <1>0, <1>n DEF TypeOK, SymDiff, now
<1>18. stored' \subseteq 1..results' /\ latest' \in 0..results' /\ results' \in 0..MaxResults
  <2>1. stored' \subseteq stored \cup {results + 1}
    BY <1>s
  <2> QED
    BY <1>0, <1>3, <2>1, Bounds DEF TypeOK, OnProbeResult
<1>19. faults' \in 0..MaxFaults
  BY <1>0, <1>2, Bounds DEF TypeOK, Fault
<1>20. TypeOK'
  BY <1>0, <1>8, <1>12, <1>17, <1>18, <1>19 DEF OnProbeResult, TypeOK, detail
<1> QED
  BY <1>13, <1>14, <1>15, <1>16, <1>20 DEF DrawInv

LEMMA PushDrawInv == DrawInv /\ OnPush => DrawInv'
<1> SUFFICES ASSUME DrawInv, OnPush PROVE DrawInv'
  OBVIOUS
<1>0. TypeOK
  BY DEF DrawInv
<1> DEFINE p == Head(inbox)
<1>1. /\ inbox \in Seq(Push) /\ inbox # <<>> /\ inbox' = Tail(inbox)
      /\ p = inbox[1] /\ 1 \in DOMAIN inbox /\ p \in Push
  BY <1>0 DEF OnPush, TypeOK
<1>2. /\ inbox' \in Seq(Push)
      /\ \A i \in DOMAIN inbox' :
           i \in Nat /\ i + 1 \in DOMAIN inbox /\ i + 1 # 1 /\ inbox'[i] = inbox[i + 1]
  BY <1>1
<1>3. \A r \in Results : \A i \in Pushed(r)' : i \in Nat /\ i + 1 \in Pushed(r) /\ i + 1 # 1
  BY <1>2 DEF Pushed
<1>4. \A r \in Results : Pushed(r)' # {} => Pushed(r) # {}
  BY <1>3
<1>5. PushedOnce'
  <2> SUFFICES ASSUME NEW r \in Results, NEW i \in Pushed(r)', NEW j \in Pushed(r)'
               PROVE  i = j
    BY DEF PushedOnce
  <2>1. i + 1 = j + 1 /\ i \in Nat /\ j \in Nat
    BY <1>3 DEF DrawInv, PushedOnce
  <2> QED
    BY <2>1
<1>6. results' = results /\ queries' = queries
  BY DEF OnPush, bounds
<1>7. CASE points' = points
  <2>1. RoomToDraw' /\ NotYet'
    BY <1>4, <1>6, <1>7 DEF DrawInv, RoomToDraw, NotYet
  <2> QED
    <3>1. shown' \in [listed: BOOLEAN, latest: 0..MaxResults, rest: 0..MaxResults,
                         alert: {"alerting", "normal"}]
      <4>1. CASE OnSnapshot(p)
        <5>1. p.row \in Row /\ shown' = AfterSnapshot(p.row)
          BY <1>1, <4>1 DEF OnSnapshot, Push
        <5>2. CASE shown.listed /\ p.row.latest # 0
          <6>1. shown' = [listed |-> TRUE, latest |-> p.row.latest, rest |-> 0,
                          alert |-> p.row.alert]
            BY <5>1, <5>2 DEF AfterSnapshot
          <6>2. 0 \in 0..MaxResults
            BY Bounds
          <6>3. p.row.latest \in 0..MaxResults /\ p.row.alert \in {"alerting", "normal"}
            BY <5>1 DEF Row
          <6> QED
            BY <6>1, <6>2, <6>3
        <5>3. CASE ~(shown.listed /\ p.row.latest # 0)
          BY <1>0, <5>1, <5>3 DEF AfterSnapshot, TypeOK
        <5> QED
          BY <5>2, <5>3
      <4>2. CASE OnAlert(p)
        BY <1>0, <1>1, <4>2 DEF OnAlert, AfterAlert, TypeOK, Push
      <4>3. CASE OnTaskDetail(p)
        BY <1>0, <4>3 DEF OnTaskDetail, TypeOK
      <4> QED
        BY <4>1, <4>2, <4>3 DEF OnPush
    <3>2. inbox' # <<>> => up
      BY <1>0, <1>1 DEF TypeOK
    <3>3. TypeOK'
      BY <1>0, <1>2, <1>6, <1>7, <3>1, <3>2 DEF OnPush, TypeOK, server, bounds
    <3> QED
      BY <1>5, <1>6, <2>1, <3>3 DEF DrawInv, AnswersAreResults
<1>8. CASE points' # points
  <2>1. /\ p.event = "result" /\ shown' = shown
        /\ points' = [points EXCEPT ![p.result] = @ + 1]
    BY <1>8 DEF OnPush, OnSnapshot, OnAlert, OnTaskDetail
  <2>2. PICK r \in Results : r = p.result /\ 1 \in Pushed(r)
    BY <1>1, <2>1 DEF Push, Pushed, Carries
  <2>3. points \in [Results -> 0..2] /\ points[r] <= 1 /\ ~(r > results)
    BY <1>0, <2>2 DEF DrawInv, RoomToDraw, NotYet, TypeOK
  <2>4. points' = [points EXCEPT ![r] = @ + 1] /\ points' \in [Results -> 0..2]
    BY <2>1, <2>2, <2>3
  <2>5. Pushed(r)' = {}
    <3> SUFFICES ASSUME NEW i \in Pushed(r)' PROVE FALSE
      OBVIOUS
    <3>1. i + 1 \in Pushed(r) /\ i + 1 # 1
      BY <1>3, <2>2
    <3> QED
      BY <2>2, <3>1 DEF DrawInv, PushedOnce
  <2>6. \A s \in Results : s # r => points'[s] = points[s]
    BY <2>3, <2>4
  <2>7. RoomToDraw' /\ NotYet'
    <3> SUFFICES ASSUME NEW s \in Results
                 PROVE  /\ Pushed(s)' # {} => points'[s] <= 1
                        /\ s > results => points'[s] = 0 /\ Pushed(s)' = {}
      BY <1>6 DEF RoomToDraw, NotYet
    <3>1. CASE s = r
      BY <2>3, <2>5, <3>1
    <3>2. CASE s # r
      BY <1>4, <2>6, <3>2 DEF DrawInv, RoomToDraw, NotYet
    <3> QED
      BY <3>1, <3>2
  <2>8. inbox' # <<>> => up
    BY <1>0, <1>1 DEF TypeOK
  <2>9. TypeOK'
    BY <1>0, <1>2, <1>6, <2>1, <2>4, <2>8 DEF OnPush, TypeOK, server, bounds
  <2> QED
    BY <1>5, <1>6, <2>7, <2>9 DEF DrawInv, AnswersAreResults
<1> QED
  BY <1>7, <1>8

(* Steps of the page keep what is typed of the rest.                       *)
LEMMA NewDetailType ==
  ASSUME NEW listens \in BOOLEAN, NewDetail(listens)
  PROVE  /\ listening' = listens /\ points' = Undrawn /\ points' \in [Results -> 0..2]
         /\ range' \in Ranges /\ pointsRange' \in Ranges
BY UndrawnType DEF NewDetail, Ranges

LEMMA LoadDrawInv ==
  ASSUME DrawInv, NEW page \in {"dashboard", "detail"}, Load(page)
  PROVE  DrawInv'
<1>0. TypeOK
  BY DEF DrawInv
<1> DEFINE free == [i \in Queries |-> Free]
<1>1. free \in [Queries -> {Free} \cup Query] /\ \A i \in Queries : free[i] = Free
  OBVIOUS
<1>2. Ask(free, FirstQuery(page)) /\ results' = results
  BY DEF Load
<1> HIDE DEF free
<1>3. queries' \in [Queries -> {Free} \cup Query] /\ AnswersAreResults'
  BY <1>1, <1>2, FreshQuery, AskKeepsAnswers
<1>4. /\ points' = Undrawn /\ points' \in [Results -> 0..2]
      /\ range' \in Ranges /\ pointsRange' \in Ranges /\ listening' = FALSE
  BY NewDetailType DEF Load
<1>5. PushedOnce' /\ RoomToDraw' /\ NotYet'
  BY <1>2, <1>4, NothingPushed DEF Load
<1>6. shown' \in [listed: BOOLEAN, latest: 0..MaxResults, rest: 0..MaxResults,
                         alert: {"alerting", "normal"}]
  BY Bounds DEF Load, Unlisted
<1>7. /\ visits' \in 0..MaxVisits
      /\ inbox' \in Seq(Push) /\ outbox' \in Seq({"subscribe", "unsubscribe"})
  BY <1>0, Bounds DEF Load, Visit, TypeOK
<1>8. TypeOK'
  BY <1>0, <1>3, <1>4, <1>6, <1>7 DEF Load, TypeOK, server
<1> QED
  BY <1>3, <1>5, <1>8 DEF DrawInv

LEMMA OpenDetailDrawInv == DrawInv /\ OpenDetail => DrawInv'
<1> SUFFICES ASSUME DrawInv, OpenDetail PROVE DrawInv'
  OBVIOUS
<1>0. TypeOK
  BY DEF DrawInv
<1>1. queries' \in [Queries -> {Free} \cup Query] /\ AnswersAreResults'
  BY <1>0, FreshQuery, AskKeepsAnswers DEF OpenDetail, Ranges, TypeOK
<1>2. /\ points' = Undrawn /\ points' \in [Results -> 0..2]
      /\ range' \in Ranges /\ pointsRange' \in Ranges /\ listening' = TRUE
  BY NewDetailType DEF OpenDetail
<1>3. PushedOnce' /\ RoomToDraw' /\ NotYet'
  BY <1>2, Redrawn DEF OpenDetail
<1>4. visits' \in 0..MaxVisits /\ outbox' \in Seq({"subscribe", "unsubscribe"})
  BY <1>0, Bounds DEF OpenDetail, Visit, TypeOK
<1>5. TypeOK'
  BY <1>0, <1>1, <1>2, <1>4 DEF OpenDetail, TypeOK, server
<1> QED
  BY <1>1, <1>3, <1>5 DEF DrawInv

LEMMA OpenDashboardDrawInv == DrawInv /\ OpenDashboard => DrawInv'
<1> SUFFICES ASSUME DrawInv, OpenDashboard PROVE DrawInv'
  OBVIOUS
<1>0. TypeOK
  BY DEF DrawInv
<1> DEFINE kept == [i \in Queries |-> IF queries[i] # Free /\ queries[i].page = "detail"
                                     THEN Free ELSE queries[i]]
<1>1. /\ kept \in [Queries -> {Free} \cup Query]
      /\ \A i \in Queries : kept[i] = queries[i] \/ kept[i] = Free
  BY <1>0 DEF TypeOK
<1>2. Ask(kept, DashboardQuery) /\ results' = results
  BY DEF OpenDashboard
<1> HIDE DEF kept
<1>3. queries' \in [Queries -> {Free} \cup Query] /\ AnswersAreResults'
  BY <1>1, <1>2, FreshQuery, AskKeepsAnswers
<1>4. /\ points' = Undrawn /\ points' \in [Results -> 0..2]
      /\ range' \in Ranges /\ pointsRange' \in Ranges /\ listening' = FALSE
  BY NewDetailType DEF OpenDashboard
<1>5. PushedOnce' /\ RoomToDraw' /\ NotYet'
  BY <1>4, Redrawn DEF OpenDashboard
<1>6. visits' \in 0..MaxVisits /\ outbox' \in Seq({"subscribe", "unsubscribe"})
  BY <1>0, Bounds DEF OpenDashboard, Visit, TypeOK
<1>7. TypeOK'
  BY <1>0, <1>3, <1>4, <1>6 DEF OpenDashboard, TypeOK, server
<1> QED
  BY <1>3, <1>5, <1>7 DEF DrawInv

LEMMA AskAgainDrawInv ==
  ASSUME DrawInv, NEW r \in Ranges, SetRange(r) \/ RefreshDetail
  PROVE  DrawInv'
<1>0. TypeOK
  BY DEF DrawInv
<1>1. PICK q \in Ranges : Ask(queries, DetailQuery(q))
  BY <1>0 DEF SetRange, RefreshDetail, TypeOK
<1>2. results' = results /\ inbox' = inbox /\ points' = points
  BY DEF SetRange, RefreshDetail, links, bounds, detail
<1>3. queries' \in [Queries -> {Free} \cup Query] /\ AnswersAreResults'
  BY <1>0, <1>1, <1>2, FreshQuery, AskKeepsAnswers DEF TypeOK
<1>4. PushedOnce' /\ RoomToDraw' /\ NotYet'
  BY <1>2, Redrawn
<1>5. visits' \in 0..MaxVisits /\ range' \in Ranges
  BY <1>0, Bounds DEF SetRange, RefreshDetail, Visit, TypeOK, bounds, detail
<1>6. TypeOK'
  <2>1. CASE SetRange(r)
    BY <1>0, <1>3, <1>5, <2>1 DEF SetRange, TypeOK, server, links
  <2>2. CASE RefreshDetail
    BY <1>0, <1>3, <2>2 DEF RefreshDetail, TypeOK, server, links, bounds, detail
  <2> QED
    BY <2>1, <2>2
<1> QED
  BY <1>3, <1>4, <1>6 DEF DrawInv

(* A query that is computed finds rows or results there are.               *)
LEMMA ComputeDrawInv ==
  ASSUME DrawInv, NEW i \in Queries, Compute(i)
  PROVE  DrawInv'
<1>0. TypeOK
  BY DEF DrawInv
<1> DEFINE data == IF queries[i].page = "dashboard" THEN ServerRow ELSE stored
<1>1. queries[i] \in Query /\ queries' = [queries EXCEPT ![i].data = data]
  BY <1>0 DEF Compute, TypeOK
<1>2. stored \subseteq 1..results /\ stored \subseteq Results
  BY <1>0, Bounds DEF TypeOK
<1>3. /\ [queries[i] EXCEPT !.data = data] \in Query
      /\ [queries[i] EXCEPT !.data = data].page = "detail"
           => [queries[i] EXCEPT !.data = data].data = stored
  BY <1>0, <1>1, <1>2, RowType DEF Query
<1>4. queries' \in [Queries -> {Free} \cup Query]
      /\ queries'[i] = [queries[i] EXCEPT !.data = data]
      /\ \A j \in Queries : j # i => queries'[j] = queries[j]
  BY <1>0, <1>1, <1>3 DEF TypeOK
<1>5. results' = results /\ inbox' = inbox /\ points' = points
  BY DEF Compute, links, bounds, detail
<1>6. AnswersAreResults'
  BY <1>2, <1>3, <1>4, <1>5 DEF DrawInv, AnswersAreResults
<1>7. PushedOnce' /\ RoomToDraw' /\ NotYet'
  BY <1>5, Redrawn
<1>8. TypeOK'
  BY <1>0, <1>4 DEF Compute, TypeOK, server, links, bounds, detail
<1> QED
  BY <1>6, <1>7, <1>8 DEF DrawInv

(* An answer draws every result it brings once.                            *)
LEMMA AnswerDrawInv ==
  ASSUME DrawInv, NEW i \in Queries, Answer(i)
  PROVE  DrawInv'
<1>0. TypeOK
  BY DEF DrawInv
<1> DEFINE q == queries[i]
<1>1. q \in Query /\ q # Free /\ q.data # NoData
  BY <1>0 DEF Answer, TypeOK
<1>2. /\ queries' \in [Queries -> {Free} \cup Query]
      /\ \A j \in Queries : queries'[j] = Free \/ queries'[j] = queries[j]
  BY <1>0 DEF Answer, TypeOK
<1>3. results' = results /\ inbox' = inbox
  BY DEF Answer, links, bounds
<1>4. AnswersAreResults'
  BY <1>2, <1>3 DEF DrawInv, AnswersAreResults
<1>5. CASE q.page = "dashboard"
  <2>1. points' = points /\ pointsRange' = pointsRange
        /\ shown' = [listed |-> TRUE, latest |-> q.data.latest, rest |-> q.data.latest,
                     alert |-> q.data.alert]
    BY <1>5 DEF Answer
  <2>2. q.data \in Row
    BY <1>1, <1>5 DEF Query
  <2>3. shown' \in [listed: BOOLEAN, latest: 0..MaxResults, rest: 0..MaxResults,
                         alert: {"alerting", "normal"}]
    BY <2>1, <2>2 DEF Row
  <2>4. TypeOK'
    BY <1>0, <1>2, <2>1, <2>3 DEF Answer, TypeOK, server, links, bounds
  <2> QED
    BY <1>3, <1>4, <2>1, <2>4, Redrawn DEF DrawInv
<1>6. CASE q.page # "dashboard"
  <2>1. points' = Drawn(q.data) /\ pointsRange' = q.range /\ shown' = shown
    BY <1>6 DEF Answer
  <2>2. q.page = "detail" /\ q.range \in Ranges
    BY <1>1, <1>6 DEF Query
  <2>3. q.data \subseteq 1..results /\ results \in Nat
    BY <1>0, <1>1, <2>2 DEF DrawInv, AnswersAreResults, TypeOK
  <2>4. points' \in [Results -> 0..2] /\ \A r \in Results : points'[r] <= 1
    BY <2>1, DrawnType
  <2>5. \A r \in Results : r > results => points'[r] = 0
    <3> SUFFICES ASSUME NEW r \in Results, r > results PROVE points'[r] = 0
      OBVIOUS
    <3>1. r \notin q.data
      BY <2>3
    <3> QED
      BY <2>1, <3>1, DrawnType
  <2>6. \A r \in Results : Pushed(r)' = Pushed(r)
    BY <1>3 DEF Pushed
  <2>7. PushedOnce' /\ RoomToDraw' /\ NotYet'
    BY <1>3, <2>4, <2>5, <2>6 DEF DrawInv, PushedOnce, RoomToDraw, NotYet
  <2>8. TypeOK'
    BY <1>0, <1>2, <2>1, <2>2, <2>4 DEF Answer, TypeOK, server, links, bounds
  <2> QED
    BY <1>4, <2>7, <2>8 DEF DrawInv
<1> QED
  BY <1>5, <1>6

LEMMA FaultDrawInv ==
  ASSUME DrawInv, Drop \/ ServerRestart \/ \E i \in Queries : QueryFails(i)
  PROVE  DrawInv'
<1>0. TypeOK
  BY DEF DrawInv
<1>1. faults' \in 0..MaxFaults
  BY <1>0, Bounds DEF Drop, ServerRestart, QueryFails, Fault, TypeOK
<1>2. CASE Drop \/ ServerRestart
  <2>0. Disconnected
    BY <1>2 DEF Drop, ServerRestart
  <2>1. results' = results /\ inbox' = <<>> /\ points' = points /\ queries' = queries
    BY <1>2, <2>0 DEF Disconnected, Drop, ServerRestart, detail
  <2>2. PushedOnce' /\ RoomToDraw' /\ NotYet' /\ AnswersAreResults'
    BY <2>1, NothingPushed DEF DrawInv, AnswersAreResults
  <2>3. outbox' \in Seq({"subscribe", "unsubscribe"}) /\ inbox' \in Seq(Push)
    BY <1>0, <2>0 DEF Disconnected, TypeOK
  <2>4. alerting' \subseteq ToSet(Metrics) /\ latest' \in 0..results /\ stored' = stored
    BY <1>0, <1>2 DEF Drop, ServerRestart, TypeOK, server
  <2>5. TypeOK'
    BY <1>0, <1>1, <2>0, <2>1, <2>3, <2>4 DEF Disconnected, TypeOK, detail
  <2> QED
    BY <2>2, <2>5 DEF DrawInv
<1>3. CASE \E i \in Queries : QueryFails(i)
  <2>1. results' = results /\ inbox' = inbox /\ points' = points
    BY <1>3 DEF QueryFails, links, detail
  <2>2. /\ queries' \in [Queries -> {Free} \cup Query]
        /\ \A j \in Queries : queries'[j] = Free \/ queries'[j] = queries[j]
    BY <1>0, <1>3 DEF QueryFails, TypeOK
  <2>3. AnswersAreResults'
    BY <2>1, <2>2 DEF DrawInv, AnswersAreResults
  <2>4. TypeOK'
    BY <1>0, <1>1, <1>3, <2>2 DEF QueryFails, TypeOK, server, links, detail
  <2> QED
    BY <2>1, <2>3, <2>4, Redrawn DEF DrawInv
<1> QED
  BY <1>2, <1>3

LEMMA NextDrawInv == DrawInv /\ [Next]_vars => DrawInv'
<1> SUFFICES ASSUME DrawInv, [Next]_vars PROVE DrawInv'
  OBVIOUS
<1>0. TypeOK
  BY DEF DrawInv
<1>1. CASE OnProbeBatch
  <2>1. results' = results + 1 /\ results \in Nat /\ inbox' = inbox /\ points' = points
        /\ queries' = queries
    BY <1>0, <1>1 DEF OnProbeBatch, TypeOK, links, detail
  <2>2. \A r \in Results : Pushed(r)' = Pushed(r)
    BY <2>1 DEF Pushed
  <2>3. PushedOnce' /\ RoomToDraw' /\ NotYet' /\ AnswersAreResults'
    BY <2>1, <2>2 DEF DrawInv, PushedOnce, RoomToDraw, NotYet, AnswersAreResults
  <2>4. latest' \in 0..results' /\ stored' \subseteq 1..results' /\ results' \in 0..MaxResults
    BY <1>0, <1>1, <2>1, Bounds DEF OnProbeBatch, TypeOK
  <2>5. TypeOK'
    BY <1>0, <1>1, <2>4 DEF OnProbeBatch, TypeOK, links, detail
  <2> QED
    BY <2>3, <2>5 DEF DrawInv
<1>2. CASE PushSnapshot
  <2> DEFINE pushes == <<[event |-> "snapshot", row |-> ServerRow]>>
  <2>1. pushes \in Seq(Push) /\ \A j \in DOMAIN pushes : pushes[j].event # "result"
    BY <1>0, RowType DEF Push
  <2>2. Emit(pushes) /\ points' = points /\ results' = results /\ queries' = queries
    BY <1>2 DEF PushSnapshot, detail, bounds
  <2> HIDE DEF pushes
  <2>3. PushedOnce' /\ RoomToDraw' /\ NotYet' /\ AnswersAreResults'
    BY <2>1, <2>2, OtherPushes DEF DrawInv, AnswersAreResults
  <2>4. inbox' \in Seq(Push) /\ (inbox' # <<>> => up)
    BY <1>0, <2>1, <2>2, EmitPushes
  <2>5. TypeOK'
    BY <1>0, <1>2, <2>4 DEF PushSnapshot, TypeOK, server, detail, bounds
  <2> QED
    BY <2>3, <2>5 DEF DrawInv
<1>3. CASE OnSubscription
  <2>1. outbox' \in Seq({"subscribe", "unsubscribe"})
    BY <1>0, <1>3 DEF OnSubscription, TypeOK
  <2>2. TypeOK'
    BY <1>0, <1>3, <2>1 DEF OnSubscription, TypeOK, server, detail, bounds
  <2>3. results' = results /\ inbox' = inbox /\ points' = points /\ queries' = queries
    BY <1>3 DEF OnSubscription, detail, bounds
  <2> QED
    BY <2>2, <2>3, Redrawn DEF DrawInv, AnswersAreResults
<1>4. CASE Connect
  <2>1. TypeOK'
    BY <1>0, <1>4 DEF Connect, TypeOK, server, links, detail, bounds
  <2>2. results' = results /\ inbox' = inbox /\ points' = points /\ queries' = queries
    BY <1>4 DEF Connect, links, detail, bounds
  <2> QED
    BY <2>1, <2>2, Redrawn DEF DrawInv, AnswersAreResults
<1>5. CASE UNCHANGED vars
  <2>1. TypeOK'
    BY <1>0, <1>5 DEF vars, TypeOK, server, links, detail, bounds
  <2>2. results' = results /\ inbox' = inbox /\ points' = points /\ queries' = queries
    BY <1>5 DEF vars, links, detail, bounds
  <2> QED
    BY <2>1, <2>2, Redrawn DEF DrawInv, AnswersAreResults
<1>6. CASE RefreshDetail
  BY <1>6, AskAgainDrawInv DEF Ranges
<1> QED
  BY <1>1, <1>2, <1>3, <1>4, <1>5, <1>6, ProbeResultDrawInv, PushDrawInv, LoadDrawInv,
     OpenDetailDrawInv, OpenDashboardDrawInv, AskAgainDrawInv, ComputeDrawInv,
     AnswerDrawInv, FaultDrawInv DEF Next

(* Every reachable state of the server, the network and the page is typed; *)
(* above all, answers and pushes together never draw a result of a task    *)
(* more than twice, however queries, pushes, pages and faults overlap.     *)
THEOREM TypeCorrect == Spec => []TypeOK
<1>1. DrawInv => TypeOK
  BY DEF DrawInv
<1> QED
  BY <1>1, InitDrawInv, NextDrawInv, PTL DEF Spec

-----------------------------------------------------------------------------
(* While no detail page is open, either the connection is outside the room *)
(* with nothing on its way, or the last packet on its way leaves the room. *)

RoomInv ==
  view = "dashboard" => IF outbox = <<>> THEN ~inRoom
                        ELSE outbox[Len(outbox)] = "unsubscribe"

LEMMA NextRoomInv == TypeOK /\ RoomInv /\ [Next]_vars => RoomInv'
<1> SUFFICES ASSUME TypeOK, RoomInv, [Next]_vars PROVE RoomInv'
  OBVIOUS
<1>0. outbox \in Seq({"subscribe", "unsubscribe"})
  BY DEF TypeOK
<1>1. CASE view' = view /\ inRoom' = inRoom /\ outbox' = outbox
  BY <1>1 DEF RoomInv
<1>2. CASE OnSubscription
  <2> SUFFICES ASSUME view = "dashboard"
               PROVE  IF outbox' = <<>> THEN ~inRoom'
                      ELSE outbox'[Len(outbox')] = "unsubscribe"
    BY <1>2 DEF OnSubscription, RoomInv
  <2>1. outbox # <<>> /\ outbox' = Tail(outbox) /\ inRoom' = (Head(outbox) = "subscribe")
    BY <1>2 DEF OnSubscription
  <2>2. outbox[Len(outbox)] = "unsubscribe"
    BY <2>1 DEF RoomInv
  <2>3. /\ Len(outbox) \in Nat \ {0} /\ Len(outbox') = Len(outbox) - 1
        /\ outbox' \in Seq({"subscribe", "unsubscribe"}) /\ Head(outbox) = outbox[1]
        /\ \A i \in 1..Len(outbox') : outbox'[i] = outbox[i + 1]
    BY <1>0, <2>1, HeadTailProperties, EmptySeq
  <2>4. CASE outbox' = <<>>
    <3>1. Len(outbox) = 1
      BY <2>3, <2>4
    <3>2. Head(outbox) = "unsubscribe"
      BY <2>2, <2>3, <3>1
    <3> QED
      BY <2>1, <2>4, <3>2
  <2>5. CASE outbox' # <<>>
    <3>1. Len(outbox') \in Nat \ {0}
      BY <2>3, <2>5, EmptySeq
    <3>2. outbox'[Len(outbox')] = outbox[Len(outbox)]
      BY <2>3, <3>1
    <3> QED
      BY <2>2, <2>5, <3>2
  <2> QED
    BY <2>4, <2>5
<1>3. ASSUME NEW page, Load(page) PROVE RoomInv'
  BY <1>3 DEF Load, RoomInv
<1>4. CASE OpenDetail
  BY <1>4 DEF OpenDetail, RoomInv
<1>5. CASE OpenDashboard
  <2>1. outbox' = Append(outbox, "unsubscribe")
    BY <1>5 DEF OpenDashboard
  <2>2. outbox' # <<>> /\ outbox'[Len(outbox')] = "unsubscribe"
    BY <1>0, <2>1
  <2> QED
    BY <2>2 DEF RoomInv
<1>6. CASE Disconnected
  BY <1>6 DEF Disconnected, RoomInv
<1>7. CASE OnProbeResult \/ OnProbeBatch \/ PushSnapshot \/ RefreshDetail \/ OnPush \/ Connect
  BY <1>1, <1>7 DEF OnProbeResult, OnProbeBatch, PushSnapshot, RefreshDetail, OnPush,
                    Connect, links
<1>8. ASSUME NEW i \in Queries, Compute(i) \/ Answer(i) \/ QueryFails(i) PROVE RoomInv'
  BY <1>1, <1>8 DEF Compute, Answer, QueryFails, links
<1>9. ASSUME NEW r \in Ranges, SetRange(r) PROVE RoomInv'
  BY <1>1, <1>9 DEF SetRange, links
<1>10. CASE UNCHANGED vars
  BY <1>1, <1>10 DEF vars, links
<1> QED
  BY <1>2, <1>3, <1>4, <1>5, <1>6, <1>7, <1>8, <1>9, <1>10 DEF Next, Drop, ServerRestart

(* A connection is in the room of a task only while its page is open, or   *)
(* until the packet that leaves the room arrives, whatever is buffered,    *)
(* dropped or sent again by visits and reconnections.                      *)
THEOREM RoomIsRead == Spec => []RoomHasReader
<1>1. Init => RoomInv
  BY DEF Init, RoomInv
<1>2. TypeOK /\ RoomInv => RoomHasReader
  <2> SUFFICES ASSUME TypeOK, RoomInv, inRoom, view # "detail"
               PROVE  "unsubscribe" \in ToSet(outbox)
    BY DEF RoomHasReader
  <2>1. outbox # <<>> /\ outbox[Len(outbox)] = "unsubscribe"
    BY DEF RoomInv, TypeOK
  <2>2. Len(outbox) \in DOMAIN outbox
    BY <2>1 DEF TypeOK
  <2> QED
    BY <2>1, <2>2 DEF ToSet
<1> QED
  BY <1>1, <1>2, TypeCorrect, NextRoomInv, PTL DEF Spec
=============================================================================
