----------------------------- MODULE Dashboard ------------------------------
(***************************************************************************)
(* What a browser shows of one task: the pushes of the /dashboard          *)
(* namespace (server/ws/dashboard_handler.py and who calls it), the        *)
(* queries of server/api/data.py, and the page: useSocket.ts, the          *)
(* dashboard store and TaskDetailView.vue.                                 *)
(*                                                                         *)
(* Pushes arrive in order on the connection they were sent on, or not at   *)
(* all.  A query is asked, computed in one step of the server, and         *)
(* answered later, in any order with pushes and other answers.  The status *)
(* of nodes and the summary are left out: nothing repeats their pushes.    *)
(***************************************************************************)
EXTENDS Naturals, Sequences, SequencesExt

CONSTANTS
  Metrics,      \* what can alert, in the order of the rules: latency, packet_loss, ...
  NoData,       \* a query that was not computed yet
  Free,         \* no query
  MaxQueries,   \* bound: queries of the browser under way at a time
  MaxResults,   \* bound: results of the task
  MaxVisits,    \* bound: pages opened and ranges chosen
  MaxFaults     \* bound: dropped connections, restarts, failed queries and writes

ASSUME BoundsAssumption ==
  MaxQueries \in Nat \ {0} /\ {MaxResults, MaxVisits, MaxFaults} \subseteq Nat

Results == 1..MaxResults
Ranges == {"raw", "aggregated"}   \* up to 24 hours, or more
Queries == 1..MaxQueries

VARIABLES
  (* the server *)
  alerting,   \* metrics of the task in state "alerting"
  latest,     \* _latest_results of the task: a result, or 0
  stored,     \* results that queries find
  inRoom,     \* the browser's connection is in the task's room
  (* the network *)
  inbox,      \* pushes on their way to the browser
  outbox,     \* packets on their way to the server, or buffered while down
  queries,    \* queries under way
  (* the browser *)
  view,       \* the page: "dashboard" or "detail"
  up,         \* the socket is connected
  listening,  \* handleRealtimeUpdate is registered
  shown,      \* the row of the task in the store; "rest" is the result whose
              \* jitter, status_code and timestamp it has, 0 when they are null
  range, points, pointsRange,  \* TaskDetailView: how often each result is drawn
  (* bounds *)
  results, visits, faults

server == <<alerting, latest, stored>>
links == <<inRoom, inbox, outbox>>
detail == <<listening, range, points, pointsRange>>
bounds == <<results, visits, faults>>
vars == <<server, links, queries, view, up, detail, shown, bounds>>

Status(metrics) == IF metrics # {} THEN "alerting" ELSE "normal"  \* get_alert_status
Row == [latest: 0..MaxResults, alert: {"alerting", "normal"}]
Unlisted == [listed |-> FALSE, latest |-> 0, rest |-> 0, alert |-> "normal"]
Undrawn == [r \in Results |-> 0]
Drawn(set) == [r \in Results |-> IF r \in set THEN 1 ELSE 0]

Query ==
  [page: {"dashboard"}, data: {NoData} \cup Row]
  \cup [page: {"detail"}, range: Ranges, data: {NoData} \cup SUBSET Results]
Push == [event: {"snapshot"}, row: Row] \cup [event: {"result"}, result: Results]
        \cup [event: {"alert"}, alert: {"alerting", "normal"}]

TypeOK ==
  /\ alerting \subseteq ToSet(Metrics) /\ latest \in 0..results /\ stored \subseteq 1..results
  /\ inRoom \in BOOLEAN /\ up \in BOOLEAN /\ listening \in BOOLEAN
  /\ inbox \in Seq(Push) /\ outbox \in Seq({"subscribe", "unsubscribe"})
  /\ queries \in [Queries -> {Free} \cup Query]
  /\ view \in {"dashboard", "detail"}
  /\ shown \in [listed: BOOLEAN, latest: 0..MaxResults, rest: 0..MaxResults,
               alert: {"alerting", "normal"}]
  /\ range \in Ranges /\ pointsRange \in Ranges /\ points \in [Results -> 0..2]
  /\ (inRoom => up) /\ (listening => view = "detail") /\ (inbox # <<>> => up)
  /\ results \in 0..MaxResults /\ visits \in 0..MaxVisits /\ faults \in 0..MaxFaults

DashboardQuery == [page |-> "dashboard", data |-> NoData]
DetailQuery(r) == [page |-> "detail", range |-> r, data |-> NoData]
FirstQuery(page) == IF page = "detail" THEN DetailQuery("raw") ELSE DashboardQuery

(* The server just started, a page was just loaded (see Load).             *)
Init ==
  /\ alerting = {} /\ latest = 0 /\ stored = {}
  /\ inRoom = FALSE /\ inbox = <<>> /\ outbox = <<>>
  /\ view \in {"dashboard", "detail"}
  /\ queries = [i \in Queries |-> IF i = 1 THEN FirstQuery(view) ELSE Free]
  /\ up = FALSE /\ listening = FALSE /\ shown = Unlisted
  /\ range = "raw" /\ points = Undrawn /\ pointsRange = "raw"
  /\ results = 0 /\ visits = 0 /\ faults = 0

-----------------------------------------------------------------------------
(* The server.                                                             *)
Fault == faults < MaxFaults /\ faults' = faults + 1
Emit(pushes) == inbox' = IF up THEN inbox \o pushes ELSE inbox

(* on_agent_probe_result, after the duplicates are gone.  The write may    *)
(* raise; metrics may change their state, and the events go out one by     *)
(* one, until a commit raises (record_alert_event).                        *)
OnProbeResult ==
  /\ results < MaxResults /\ results' = results + 1
  /\ latest' = results + 1
  /\ \E changed \in SUBSET ToSet(Metrics), written \in BOOLEAN :
       LET now == SymDiff(alerting, changed)
           Changed(m) == m \in changed
           Event(m) == [event |-> "alert", alert |-> Status({m} \cap now)]
           events == SelectSeq(Metrics, Changed)
       IN /\ alerting' = now
          /\ stored' = IF written THEN stored \cup {results + 1} ELSE stored
          /\ \E n \in 0..Len(events) :
               /\ Emit((IF inRoom THEN <<[event |-> "result", result |-> results + 1]>>
                                  ELSE <<>>)
                       \o [i \in 1..n |-> Event(events[i])])
               /\ IF written /\ n = Len(events) THEN UNCHANGED faults ELSE Fault
  /\ UNCHANGED <<inRoom, outbox, queries, view, up, detail, shown, visits>>

(* on_agent_probe_batch stores and does not tell anybody.                  *)
OnProbeBatch ==
  /\ results < MaxResults /\ results' = results + 1
  /\ stored' = stored \cup {results + 1}
  /\ UNCHANGED <<alerting, latest, links, queries, view, up, detail, shown,
                 visits, faults>>

ServerRow == [latest |-> latest, alert |-> Status(alerting)]

(* snapshot_pusher, once a second.  Bound: when no push is on its way (they *)
(* may follow it).                                                         *)
PushSnapshot ==
  /\ up /\ inbox = <<>>
  /\ Emit(<<[event |-> "snapshot", row |-> ServerRow]>>)
  /\ UNCHANGED <<server, inRoom, outbox, queries, view, up, detail, shown, bounds>>

(* on_dashboard_subscribe_task, on_dashboard_unsubscribe_task.             *)
OnSubscription ==
  /\ up /\ outbox # <<>>
  /\ inRoom' = (Head(outbox) = "subscribe") /\ outbox' = Tail(outbox)
  /\ UNCHANGED <<server, inbox, queries, view, up, detail, shown, bounds>>

(* dashboard() and task_data().                                            *)
Compute(i) ==
  /\ queries[i] # Free /\ queries[i].data = NoData
  /\ queries' = [queries EXCEPT ![i].data =
                   IF queries[i].page = "dashboard" THEN ServerRow ELSE stored]
  /\ UNCHANGED <<server, links, view, up, detail, shown, bounds>>

-----------------------------------------------------------------------------
(* The browser.                                                            *)
Ask(qs, query) ==
  \E i \in Queries :
    /\ qs[i] = Free /\ \A j \in 1..(i - 1) : qs[j] # Free
    /\ queries' = [qs EXCEPT ![i] = query]
Visit == visits < MaxVisits /\ visits' = visits + 1

(* The state of TaskDetailView belongs to an instance of the component.    *)
NewDetail(listens) ==
  /\ listening' = listens /\ points' = Undrawn
  /\ range' = "raw" /\ pointsRange' = "raw"

(* A page is loaded by its address.  onMounted of the detail page, a child *)
(* of the layout, runs before the layout's, which makes the socket: it has *)
(* nothing to subscribe or to listen with.                                 *)
Load(page) ==
  /\ Visit /\ view' = page /\ shown' = Unlisted
  /\ Ask([i \in Queries |-> Free], FirstQuery(page))
  /\ up' = FALSE /\ inRoom' = FALSE /\ inbox' = <<>> /\ outbox' = <<>>
  /\ NewDetail(FALSE)
  /\ UNCHANGED <<server, results, faults>>

(* From one page to the other inside the application.  socket.emit keeps   *)
(* packets while the socket is down.                                       *)
OpenDetail ==
  /\ view = "dashboard" /\ Visit /\ view' = "detail"
  /\ Ask(queries, DetailQuery("raw"))
  /\ outbox' = Append(outbox, "subscribe") /\ NewDetail(TRUE)
  /\ UNCHANGED <<server, inRoom, inbox, up, shown, results, faults>>
(* Mutant of OpenDashboard: onUnmounted does not unsubscribe.              *)
OpenDashboardQuietly ==
  /\ view = "detail" /\ Visit /\ view' = "dashboard"
  /\ Ask([i \in Queries |-> Free], DashboardQuery) /\ NewDetail(FALSE)
  /\ UNCHANGED <<server, links, up, shown, results, faults>>
OpenDashboard ==
  /\ view = "detail" /\ Visit /\ view' = "dashboard"
  /\ Ask([i \in Queries |-> IF queries[i] # Free /\ queries[i].page = "detail"
                            THEN Free ELSE queries[i]], DashboardQuery)
  /\ outbox' = Append(outbox, "unsubscribe") /\ NewDetail(FALSE)
  /\ UNCHANGED <<server, inRoom, inbox, up, shown, results, faults>>

(* watch(range): the points of the other range stay until the answer.      *)
SetRange(r) ==
  /\ view = "detail" /\ r # range /\ Visit
  /\ range' = r /\ Ask(queries, DetailQuery(r))
  /\ UNCHANGED <<server, links, view, up, listening, points, pointsRange, shown,
                 results, faults>>

(* Mutant of RefreshDetail: only in place of the pushes.                   *)
RefreshWhenDown ==
  /\ view = "detail" /\ ~up /\ \A i \in Queries : queries[i] = Free
  /\ Ask(queries, DetailQuery(range))
  /\ UNCHANGED <<server, links, view, up, detail, shown, bounds>>
(* The timer of startAutoRefresh.  Bound: it waits for earlier queries, but *)
(* a range may be chosen while its query is under way.                     *)
RefreshDetail ==
  /\ view = "detail" /\ \A i \in Queries : queries[i] = Free
  /\ Ask(queries, DetailQuery(range))
  /\ UNCHANGED <<server, links, view, up, detail, shown, bounds>>

(* fetchDashboard and fetchData go on.                                     *)
Answer(i) ==
  LET q == queries[i] IN
  /\ q # Free /\ q.data # NoData
  /\ queries' = [queries EXCEPT ![i] = Free]
  /\ IF q.page = "dashboard"
     THEN /\ shown' = [listed |-> TRUE, latest |-> q.data.latest,
                      rest |-> q.data.latest, alert |-> q.data.alert]
          /\ UNCHANGED <<points, pointsRange>>
     ELSE /\ points' = Drawn(q.data) /\ pointsRange' = q.range
          /\ UNCHANGED shown
  /\ UNCHANGED <<server, links, view, up, listening, range, bounds>>

(* Mutants of AfterSnapshot: the status comes with the alerts alone; what  *)
(* the snapshot does not carry stays.                                      *)
AfterSnapshotLatest(row) ==
  IF shown.listed /\ row.latest # 0
  THEN [shown EXCEPT !.latest = row.latest, !.rest = 0] ELSE shown
AfterSnapshotMerge(row) ==
  IF shown.listed /\ row.latest # 0
  THEN [shown EXCEPT !.latest = row.latest, !.alert = row.alert] ELSE shown
(* updateTaskSnapshot passes over a task the snapshot does not have.  A    *)
(* snapshot carries latency, loss, success and status; the page puts null  *)
(* in the place of the rest.                                               *)
AfterSnapshot(row) ==
  IF shown.listed /\ row.latest # 0
  THEN [listed |-> TRUE, latest |-> row.latest, rest |-> 0, alert |-> row.alert]
  ELSE shown
AfterAlert(status) == IF shown.listed THEN [shown EXCEPT !.alert = status] ELSE shown

OnSnapshot(p) ==
  p.event = "snapshot" /\ shown' = AfterSnapshot(p.row) /\ UNCHANGED points
OnAlert(p) ==
  p.event = "alert" /\ shown' = AfterAlert(p.alert) /\ UNCHANGED points
(* The page keeps 500 points at most; a run has fewer results.             *)
OnTaskDetail(p) ==
  /\ p.event = "result" /\ UNCHANGED shown
  /\ points' = IF listening /\ range = "raw"
               THEN [points EXCEPT ![p.result] = @ + 1] ELSE points
OnPush ==
  /\ inbox # <<>> /\ inbox' = Tail(inbox)
  /\ OnSnapshot(Head(inbox)) \/ OnAlert(Head(inbox)) \/ OnTaskDetail(Head(inbox))
  /\ UNCHANGED <<server, inRoom, outbox, queries, view, up, listening, range,
                 pointsRange, bounds>>

(* socket.io-client connects again by itself; nobody subscribes again.     *)
Connect ==
  /\ ~up /\ up' = TRUE
  /\ UNCHANGED <<server, links, queries, view, detail, shown, bounds>>

-----------------------------------------------------------------------------
(* Mutant of Disconnected: the room survives the connection.               *)
DisconnectedKeepRoom ==
  /\ up' = FALSE /\ inbox' = <<>> /\ outbox' = IF up THEN <<>> ELSE outbox
  /\ UNCHANGED <<inRoom, view, detail, shown, results, visits>>
Disconnected ==
  /\ up' = FALSE /\ inRoom' = FALSE /\ inbox' = <<>>
  /\ outbox' = IF up THEN <<>> ELSE outbox
  /\ UNCHANGED <<view, detail, shown, results, visits>>

Drop == up /\ Fault /\ Disconnected /\ UNCHANGED <<server, queries>>

(* What is in memory is gone: alert states, _latest_results, rooms.        *)
ServerRestart ==
  /\ Fault /\ Disconnected
  /\ alerting' = {} /\ latest' = 0 /\ UNCHANGED <<stored, queries>>

QueryFails(i) ==
  /\ queries[i] # Free /\ Fault /\ queries' = [queries EXCEPT ![i] = Free]
  /\ UNCHANGED <<server, links, view, up, detail, shown, results, visits>>

Next ==
  \/ OnProbeResult \/ OnProbeBatch \/ PushSnapshot \/ OnSubscription
  \/ \E i \in Queries : Compute(i) \/ Answer(i) \/ QueryFails(i)
  \/ Load("dashboard") \/ Load("detail") \/ OpenDetail \/ OpenDashboard
  \/ \E r \in Ranges : SetRange(r)
  \/ RefreshDetail \/ OnPush \/ Connect
  \/ Drop \/ ServerRestart

Spec == Init /\ [][Next]_vars

(* The pusher and the timer go on, packets and answers arrive.             *)
Fairness ==
  /\ WF_vars(PushSnapshot) /\ WF_vars(OnSubscription) /\ WF_vars(OnPush)
  /\ WF_vars(RefreshDetail) /\ WF_vars(Connect)
  /\ \A i \in Queries : WF_vars(Compute(i)) /\ WF_vars(Answer(i))
FairSpec == Spec /\ Fairness

-----------------------------------------------------------------------------
(* A connection is in the room of a task only while its page is open, or   *)
(* until the packet that leaves the room arrives (PROJECT.md:885), however *)
(* visits, reconnections and buffered packets overlap.                     *)
RoomHasReader ==
  inRoom => \/ view = "detail"
            \/ "unsubscribe" \in ToSet(outbox)

(* When results and faults stop, the row of the task in the store agrees   *)
(* with the engine and, in latency, loss and success, with the latest      *)
(* result, although answers overtake pushes and the push of an alert       *)
(* speaks of one metric only; the fields a snapshot does not carry are     *)
(* then blank or of that result, never of an older one - unless the server *)
(* has no result since it started, when nothing corrects the row.          *)
DashboardSettles ==
  <>[](shown.listed /\ up /\ latest # 0
         => /\ shown.latest = latest /\ shown.alert = Status(alerting)
            /\ shown.rest \in {0, latest})

(* When they stop, an open detail page shows the range chosen last and     *)
(* every stored result once, although its subscription may be lost and an  *)
(* answer and a push may both bring a result.                              *)
DetailSettles ==
  <>[](view = "detail"
         => /\ pointsRange = range
            /\ range = "raw" => points = Drawn(stored))
=============================================================================
