# NetworkStatus-Rabbit: a TLA+ model

NetworkStatus-Rabbit has *agents*, which probe targets (ICMP, TCP, UDP, HTTP,
DNS), and one *center*, which keeps nodes, tasks and accounts in SQLite, probe
results in InfluxDB, and shows them in a web page. Agents and center talk over
Socket.IO (namespace `/agent`); the page uses a REST API and a second namespace
(`/dashboard`). The repository has no tests. Its specification is
`src/project-files/PROJECT.md` (Chinese), quoted below by line.

Contents: [execution model](#execution-model), [inventory](#inventory),
[modules](#modules-and-how-they-follow-the-code),
[runs](#runs), [disagreements](#where-code-and-documents-disagree),
[proofs](#proofs), [not modelled](#what-is-not-modelled), [plan](#plan).

## Execution model

Everything here rests on how the two programs are scheduled.

*Center.* `server/extensions.py:7` selects `async_mode='eventlet'`, and nothing
calls `eventlet.monkey_patch()`. SQLite, the InfluxDB client, bcrypt and
`requests` therefore block the only OS thread instead of yielding to another
green thread. So a Socket.IO handler, a REST request and one pass of a
background loop are each **one atomic step**; what interleaves is whole
handlers. Packets of one session are handled in order. State in module-level
variables (`_agent_sessions`, `_node_connections`, `_heartbeat_windows`,
`_sync_state`, the dedup cache, the alert engine) is lost when the process
restarts; SQLite and InfluxDB stay.

*Agent.* It uses threads: one per running probe, one per backfill, a heartbeat
thread, and - the part that matters - python-socketio's client starts **a
thread for every incoming packet**. Two packets that arrive in order may be
handled in any order, and their statements interleave. Only `on_disconnect`
runs inside the read loop, before the client reconnects. SQLite operations of
`local_cache.py` are under a lock, so each is one step.

*Connection.* A session is one Socket.IO connection. While it lives its packets
arrive in order. When it dies, what is in flight may be lost, and the center may
notice the end (`on_disconnect`) long after the agent opened the next session.

## Inventory

| Component | State | Operations | Talks to | What is hard | What makes it correct |
|---|---|---|---|---|---|
| **Delivery of results** - `agent/ws_client.py`, `agent/local_cache.py`, `server/ws/agent_handler.py`, write side of `server/services/influx_service.py` | rows of `local_results` with `ack_status`; `connected`, `authenticated`; dedup cache; points in `bucket_raw` | `send_probe_result`, `_backfill`, `on_result_ack`, `on_batch_ack`, `cleanup_old_acked`; `on_agent_probe_result`, `on_agent_probe_batch`, `write_probe_result` | agent to center and back | probe, backfill and ack threads race; sessions die mid-backfill; agent and center restart; writes raise | no result disappears without the center deciding on it; nothing waits behind a good connection; duplicates only where memory was lost; a stored result can be read; what is held is settled in the end |
| **Task synchronisation** - `server/api/tasks.py`, `server/services/task_service.py`, `sync_retry_checker` in `server/app.py`, task handlers of agent and center | `probe_tasks`, `config_version`, `_sync_state`, `_node_connections`; at the agent `scheduler.tasks` and `config_version` | create, update, toggle, delete; `on_agent_auth`, `on_agent_task_ack`, retry; `on_task_sync`, `on_task_assign`, `on_task_remove` | center to agent and back | packet threads reorder; retries carry an old version; changes are sent once; late ends of sessions | the agent ends with the center's tasks; a pending sync ends; a registered connection is the live one |
| **Node status** - `server/ws/agent_handler.py`, `server/services/node_service.py`, `heartbeat_checker`, `server/api/nodes.py` | `enabled`, `status`; sessions, registry, heartbeat window | authenticate, heartbeat, disconnect, check, disable, enable, delete | agent, administrator, page | checker against reconnections and administrators; restarts; failing commits | silent nodes are not online, steady ones are; disabled stays disabled; whoever is connected is in service |
| **Alert engine** - `server/services/alert_service.py` | per task and metric: window, state, recovery count, last alert, fail count; `alert_history` | `process_probe_result` | called by result handlers; webhooks | settings change mid-window; a commit fails after the state changed; restart | the documented rule on the samples; history agrees with state; cooldown; fresh alerts; earned recoveries |
| **Probe scheduler** - `agent/scheduler.py` | `tasks`, `_stop_events`, threads | `update_tasks`, `start_task`, `stop_task`, the loop of a probe | packet threads, delivery | packet threads interleave over two dictionaries | one live thread per task; a stopped task stops |
| **Probes and tools** - `agent/probes/*`, `network-plugins` | none | run and parse | scheduler | external programs | parsing |
| **Accounts** - `server/api/auth.py`, `server/api/users.py`, `server/utils/auth.py`, `manage.py` | users with role, failed logins, lock; tokens of browsers | login, logout, create, promote, delete; `create-admin`, `remove-admin`, `reset-password` | page, administrator's shell | `manage.py` is another process on the same file; reading and committing are apart, with bcrypt between them | an administrator remains; the lock counts what was guessed; a reset opens the account |
| **Data queries and aggregates** - `server/api/data.py`, read side of `influx_service.py`, `scripts/setup-influxdb.py` | buckets `raw`, `agg_1m`, `agg_1h` | two downsampling tasks, retention, `query_task_data`, `query_task_stats`, `dashboard` | page, InfluxDB | late results, runs that fail, windows and retention against ranges | a chart shows what was measured in its range |
| **Dashboard push** - `server/ws/dashboard_handler.py`, `snapshot_pusher`, emits of the handlers | rooms, `_latest_results` | subscribe, unsubscribe, push of snapshots, results, alerts, node status | page | lost pushes; pushes of one metric; rooms of pages that were left | what is pushed last agrees with the center |
| **Web frontend** - `web/src`, chiefly `useSocket.ts`, `stores/dashboard.ts`, `TaskDetailView.vue` | the Pinia store, the points and the range of a page, one socket | load, navigate, choose a range, refresh by a timer, take answers and pushes | REST, `/dashboard` | answers overtake pushes and each other; subscriptions are lost | a page left alone ends up showing what the center has |
| **Alert history and channels API** - `server/api/alerts.py` | `alert_history`, `alert_channels` | list, create, change, delete, test | page, engine | little: single statements | - |
| **Settings API** - `server/api/settings.py` | key-value rows | read, write | page | little; nothing reads them | - |
| **Deployment** - `scripts/*.sh`, `docker-compose.yml`, `config.py` | none | - | - | - | - |

Delivery, synchronisation and node status share sessions: each of their modules
has `alive`, `authed`, `session` and `open`, with the same `Connect`,
`Disconnect`, `OnAgentAuth` and `OnDisconnect`, cut to what the module's
properties can see. They are separate modules because their other state is
disjoint: results never touch tasks or heartbeats, except that a deleted task
(`removed` in ResultDelivery) orphans its results. The hazards of the code,
each at its line, with the properties that watch it, are in `PROJECT.json`.

## Modules and how they follow the code

| Module | Role |
|---|---|
| `ResultCustody` | abstract: a measured result is *held* by the agent until the center *settles* it |
| `ResultDelivery` | the mechanism; implements `ResultCustody` by a refinement mapping |
| `TaskSync` | tasks of a node, version, retries, packet threads |
| `NodeStatus` | heartbeats, checker, administrator |
| `AlertEngine` | windows, states, cooldowns and history rows of one task |
| `AgentScheduler` | the agent's scheduler, statement by statement |
| `Accounts` | users, roles, the login lock, and the processes of `manage.py` |
| `Dashboard` | one task as a browser sees it: server, connection, queries, page |
| `History` | the points of one task in the three buckets, and what a chart finds |
| `MCResultDelivery`, `MCAlertEngine`, `MCAccounts`, `MCDashboard` | values of the constants for TLC |
| `*_proofs` | theorems, see [proofs](#proofs) |

`ResultDelivery`. `probe[r]` is where `send_probe_result` stands: the row is
cached (`StoreResult`), the flags are read (`CheckLink`), the packet is emitted
(`EmitResult`), the row becomes *sent* (`MarkSent`): four steps, because an
acknowledgement may be handled between any two. `_backfill` reads all
unacknowledged rows once (`BackfillRead`) and sends chunks (`BackfillSend`).
At the center each handler is an action over `Ingest`, which is the common path
orphan check, dedup check, write, dedup entry. A write may raise, and a write
that raised may have been stored (a timeout); both are choices. `SamePoint` says
which results share an InfluxDB point: same series, same second, because
timestamps are cut to seconds (`influx_service.py:86`). `fate` remembers what
the center decided: *stored*, *discarded* (orphan) or *lost* (acknowledged
though its write raised).

`TaskSync`. A task is a revision number, so "the agent runs the tasks of the
center" is an equality. Every packet at the agent is a record with its next
step: *apply* (what `update_tasks`, `start_task` or `stop_task` does to
`scheduler.tasks`), *version* (set `config_version`) and *ack*. The packet
`center:task_update` cannot be sent (see below), so `on_task_update` of the
agent never runs and has no action. An authentication reads the tasks in a database
session of its own (`Enabled`). The retry loop has one session for good, never
committed, rolled back or removed, and its local `tasks` holds the objects of its last
retry (`held`): SQLAlchemy returns an object it still has with the attributes it
had, so a retry sends `Loaded`, old revisions included. A retry for another node lets the
objects go (`RetryElsewhere`), and a deleted task comes back as another row (`Forgotten`).

`NodeStatus`. Time is a tick of one second; `beats` is the window of heartbeats, each
the pair of its age and of its number within its second. Disabling or deleting a connected node fails in the code (see below),
so `DisableNode` changes nothing when `conn # 0`. `broken` models SQLAlchemy: a
pass of the checker whose commit raises is logged without a rollback, and every
later pass raises as well.

`AlertEngine`. A value is one of *ok*, *breach*, *absent*. `Evaluate` applies
`_check_threshold` to every configured metric, `RecordEvents` writes the rows in
the code's order, stopping at a commit that raises, after which the engine's state has
changed but the rows that follow are lost. Of a row only its type is kept: the column
`notified` and what a webhook answered are read by nothing, and matter here only in that
the second commit, which sets it, may raise too.

`AgentScheduler`. One action per access to a dictionary: `update_tasks` is
`Snapshot`, `Drop`, `Look`, `Compare`, `Store`; `start_task` is `StartTask` and
`Launch`; `stop_task` is `Stop` and `PopTask`; `_task_loop` is `CheckEvent`,
`ReadConfig`, `Report`. Each packet runs its own program counter, so handlers
interleave with each other and with the probing threads. `told` is what the
packets, taken in order, ask for. This module justifies the atomic `Apply` of
`TaskSync` for packets handled one at a time (`InOrderIsExact`), and shows what may happen
otherwise.

`Accounts`. A request or command that writes is two actions, `...Read` and
`...Commit` (`remove-admin` three: it reads the user, counts, deletes), because
SQLite is asked outside a transaction until the commit and bcrypt takes a third
of a second in between. The server runs one request at a time (`web`), each
process of `manage.py` one command (`cli`). `Flush` is what makes the
interleavings interesting: SQLAlchemy writes only the columns that differ from
what was *loaded*, so a reset of a count that was 0 writes nothing. `guesses`,
`streak`, `disturbed` and `overlapped` record what happened. Time has no
variable: a lock never runs out (see below).

`Dashboard`. `inbox` and `outbox` are the two directions of the connection, in
order, emptied when it breaks; what the browser sends while it is down waits in
`outbox`, as in socket.io-client. A query is asked, computed (`Compute`, one step
of the server) and answered at any later time. The row of a task in the store is
whether it is listed, the latest result, the alert status, and `rest`: the result whose
jitter, status code and timestamp are shown. An answer of the query has these, a snapshot
does not, and the page then writes null over them (`rest` 0). The detail page counts how
often it draws each result; that it drops the oldest beyond 500 points
(`TaskDetailView.vue:325`) is left out, as a run has two. `Load` has no socket to subscribe with, because the
page is mounted before its layout, which makes it; `OpenDetail` has. A new
component gets new state; an answer to the old one changes nothing, so leaving a page
frees its queries.

`History`. A point of an aggregate is the set of results it was computed from.
`Tick` is a minute; at each the minute task is due, every `Hour` minutes the hour
task, and points as old as their bucket keeps go. `numeric` tells the results that have
one of the aggregated fields from probes that failed without any. `aggregateWindow`
stamps a window with its end (`MinuteStamp`, `HourStamp`), which is why the minute that
ends with an hour counts for the next one (`HourOf`). The fallback of
`query_task_data` fails (see below) and so adds nothing to `TaskData`. A range is the number
of minutes of one the page offers, in hours or days. Written in minutes (`90m`) it would be
answered from `raw` whatever its length (`influx_service.py:254-261`); the page never asks so.

Variables in a section "what happened" record history for the properties and
bounds; no guard of a handler reads them except the bounds.

## Runs

All bounds are constants named `Max...` in the modules. No run has deadlock
checking on, because each system really stops at its bounds: there are no more
samples, sessions or changes (`TaskSync`, `ResultDelivery`, `AlertEngine`), or time
has nothing left to tell apart.

| Run | Question | Instance |
|---|---|---|
| `delivery_backfill` | Is any result lost or stranded between probe threads and backfill? | 2 results of one series and second, chunks of 1, 2 sessions with 1 break and 1 failed write; in 1 session also an eviction (or server restart) and a rename (`FewFaults`); symmetric results |
| `delivery_custody` | Does the mechanism keep custody under every fault? | 1 result; one drop, reboot, eviction or restart, failed write, rename, deletion each |
| `delivery_live` | Is a held result settled in the end? | 1 result, 3 sessions, fairness |
| `alert_rule` | Does the engine follow the documented rule, and does history follow it? | 5 samples, settings that switch once, 1 restart, 1 failed commit |
| `sync_tasks` | Does a full sync bring the agent to the center's tasks, and does it get there? | 1 task, 2 changes, 2 sessions, 2 retries, 1 restart, fairness |
| `node_status` | Is the status right, whatever reconnects, restarts or is disabled? | window 4, threshold 2, interval 2, 3 sessions, 1 restart, 1 failed check |
| `scheduler` | Does the agent probe exactly what it was told, and do stopped threads end? | 1 task with two settings, 3 packets, 3 threads, 3 changes, fairness of threads |
| `accounts` | Do roles and the lock survive requests and commands that overlap? | 2 names, 3 rows, 2 processes, 3 commands, 2 failures lock; names and processes symmetric |
| `dashboard` | Does a page end up showing what the center has, and does it leave its room? | 2 metrics, 2 results, 2 visits, 2 queries at a time, 1 fault, fairness |
| `history` | Do charts of every range show what came in time? | hours of 2 minutes, 11 minutes, 2 results, 1 failed run; buckets keep 3, 5, 8 minutes, ranges 2, 5, 8 |
| `sync_late_end`, `scheduler_race` | Does the program do what its comments and documents say? It does not, see below. | smallest instance that shows it |

*Why the bounds are enough.* Two results are needed for a chunk left over when a
session dies, two sessions for anything late from the first; a third only
repeats the second, except in `delivery_live` and `node_status`, where it lets a
session fail after a reconnection. `ChunkSize = 1` makes every chunk boundary
appear. The results of `delivery_backfill` share a point (`Together`), so that one may replace the
other, and a result that is sent again after an eviction and a rename gets a second point; one
session is enough for that, as a result goes alone and again in a batch. `delivery_custody` has these
faults with a second session, for one result. Window 4 with threshold 2 keeps the relation of 120 and 20 that matters:
more heartbeats than the threshold fit in the window, and the checker has two
passes in a window. The settings of `MCAlertEngine` have the defaults' shape (5 of
which 3, recovery 3) in small: five samples fill a window of three or two, raise an alert,
recover and raise again, and the settings may change in the middle. One task suffices for `TaskSync` because its packets
carry all tasks or one, and a task never refers to another; two changes let one
overtake the sync of the other. `AgentScheduler` needs two settings for a
restart, and three packets for two syncs around a change. `Accounts` needs two processes for removals
that overlap and three rows for somebody who is created, promoted and removed meanwhile; with
a limit of 2 a count is either below the limit or at it, as with 10. `Dashboard`
has two metrics so that one may recover while the other alerts, and two queries so that answers
change places; a visit more repeats the first two. In `History` every order that matters between
range, retention and two hours is that of the real figures (`RawRange <= RawKeep`, `MinKeep >= 2 * Hour`),
and eleven minutes outlast the longest retention of a point made in the first hour.
Theorems remove these bounds for the properties they cover.

*Fairness.* `ResultDelivery` and `TaskSync` assume weak fairness of threads that
have a next statement, of handlers that have a packet, of the client's
reconnection (python-socketio retries for ever) and of each end noticing a dead
session (ping timeout); `TaskSync` also of the retry loop; `AgentScheduler` of threads;
`Dashboard` of the snapshot pusher and the page's timer, which are endless loops, of
socket.io-client's reconnection, and of packets, queries and answers that are on their
way, which are handled unless a fault drops them. Nothing is assumed of
new probes, of administrators or of faults, and faults are bounded, which is the
usual "if connections stop breaking". `SilentIsNotOnline` and `SteadyIsOnline`
are bounded-time properties and need none: `Tick` cannot pass a check that is due.

### What the properties say

- `NoSilentLoss`: from the moment a probe measured, the agent has a row it will
  send again or the center decided on the result. `KeepsCustody` says it as a
  refinement, with the order of the steps.
- `NothingStranded`: when an authenticated session is quiet, no result waits for
  the next session, apart from those whose write in a batch raised. It holds because
  `on_auth_result` sets the flag *before* `_backfill` reads.
- `DuplicatesOnlyAfterForgetting`, `StoredHasPoint`: the check before the write and
  the tags of a point make delivery idempotent, up to what was forgotten; a result that
  was stored can be read, or one of its series and second that replaced it, also after the
  same result was written again under a new name of the node.
- `EventuallySettled`: what is held is settled, or is one of those refused writes.
- `FollowsRule`: the decision of each sample, restated on the whole trail of
  samples (the reference definition) instead of on the engine's own state.
- `HistoryFollowsState`, `AlertBacked`, `RecoveryEarned`, `AlertsAreFresh`,
  `AlertsSpaced`: history and state agree where no row was lost; an alert has
  enough breaches in the trail, also across a change of settings; a recovery has
  enough good samples in a row since the alert; with settings that are `Selective` (as the defaults are)
  an alert needs a breach since the last recovery; alert rows are a cooldown apart until a restart.
- `AgentNeverAhead`, `SyncHasConnection`, `CleanSyncConverges`, `CleanSyncArrives`,
  `PendingEnds`: see the comments in `TaskSync`. "Clean" is needed: a change
  that overlaps a sync can be applied before it and be undone by it; and a retry after the update
  of a task that an earlier retry holds (`touched`) may bring back old settings, so it ends
  "clean" as well. Without that clause TLC finds the agent with the old settings in the
  bounds of `sync_tasks`.
- `ConnectedIsInService`, `DisabledIsDisabled`, `SilentIsNotOnline`,
  `SteadyIsOnline`: the two columns, the registry and the window agree.
- `InOrderIsExact`, `AtMostOneThread`: packets that do not overlap leave exactly one
  thread per task. `StoppedReportsOnce`, `RemovedEnds` hold however they overlap:
  the second look at the dictionary ends threads whose stop event was overwritten.

- `AdminRemains`: once there was an administrator there is one, unless two
  removals overlapped: the exact limit of what PROJECT.md:1123 asks.
- `LockoutCounts`: between two successes exactly `Limit` wrong passwords lock,
  whatever resets, promotions and removals come between reading and writing the
  count. `ResetUnlocks`: a reset leaves the account open, unless a wrong password was
  counted while it ran.
- `RoomHasReader`: whoever is in the room of a task has its page open or is leaving.
- `DashboardSettles`, `DetailSettles`: when results, visits and faults stop, the row
  (latest result and status; of what a snapshot does not carry only that it is that
  of the latest result, or nothing) and the points agree with the center for good; the mechanisms are the snapshot
  every second and the timer, and without either the properties fail (see the mutants).
  `latest # 0` and `up` say where the code has no such mechanism: after a restart the
  snapshot has no entry for the task until its next result.
- `TimelyIsShown`: each minute and each hour is aggregated twice, which is why one run
  may fail and a result may be a minute late; the retention of a bucket outlasts
  the ranges that read it. `InMinute` and `InHour` say which results that covers.

Every property has a mutant: a plausible bug (an operator in the module, marked
"mutant of") that makes TLC find the property violated on the run's own
configuration.

## Where code and documents disagree

Shown by a run:

1. `NewestIsRegistered`: the late end of an old session unregisters the new one
   (`agent_handler.py:63`); the node is connected and gets no task.
2. `NoIdleTask`: full syncs that are handled at once can leave a task in the
   agent's dictionary without a thread (`scheduler.py:54`); the agent
   acknowledges, every later sync finds the task unchanged, and it is never
   probed, against the overwriting that PROJECT.md:806 promises.

Met while modelling, without a run; the modules follow the code:

- A single result whose write raises is acknowledged (`agent_handler.py:187`);
  PROJECT.md:757 says the acknowledgement comes after the result is stored. The
  result is in no store (`fate` *lost*).
- An alert that lasts is never repeated (`alert_service.py:77`); PROJECT.md:1031
  says it is after the cooldown.
- Disabling a connected node calls `socketio.disconnect`, which does not exist
  (`nodes.py:113`), so the request fails before its commit, against PROJECT.md:999.
- Updates and toggles are never sent, as their payload contains itself
  (`tasks.py:240`); PROJECT.md:1041 says every change is. `UpdateTask` and `ToggleTask`
  of `TaskSync` therefore send nothing.
- A row goes *acked* and back to *sent* when the acknowledgement is handled
  before `mark_sent` (`ws_client.py:222`); PROJECT.md:557 has only the way forward.
  It costs one more delivery.
- Points have a resolution of one second (`influx_service.py:86`); PROJECT.md:407,
  753 speak of unique results. A rename of the node between two
  deliveries of a forgotten result gives two points (`influx_service.py:92-105`).
- `continuous_fail` compares with `>` and goes through the window like the
  others (`alert_service.py:50,149`); PROJECT.md:1440 describes N failures in a row.
- Cooldowns are lost at a restart (`alert_service.py:29`; PROJECT.md:526), and a
  row counts as notified whatever `send_webhook` returned
  (`alert_service.py:196-204`; PROJECT.md:523).
- Equal versions do not mean equal tasks, because the agent sets its version
  blindly (`ws_client.py:60-95`; PROJECT.md:806).
- The second retry of a sync sends a task as it was at the first, if it was updated in
  between (`app.py:183`: one database session for good, and the objects of the last retry); the
  docstring of `get_tasks_for_node` (`task_service.py:23`) and PROJECT.md:806 ask for the
  tasks of the node. The agent acknowledges and keeps the old settings until the next sync.
- A snapshot carries no jitter, status code and timestamp (`app.py:156-161`), and the page puts
  null in their place (`dashboard.ts:41-45`): the code of an HTTP task
  (`DashboardView.vue:105`) is gone a second after the page loaded, though PROJECT.md:823
  speaks of the latest state.
- A change does not make the sync pending (`tasks.py:112-117`; PROJECT.md:1041), and
  a disconnect clears the sync state instead of making it *desync*
  (`agent_handler.py:64`; PROJECT.md:1043).
- Authentication sets an offline node online without waiting for heartbeats
  (`agent_handler.py:103`; PROJECT.md:998), and neither it nor disabling pushes the new
  status to the page (PROJECT.md:822).
- A lock never ends: logging in while locked compares a naive with an aware time
  (`auth.py:39`) and raises, also after the 15 minutes of PROJECT.md:1100, until a
  password reset.
- `remove-admin` counts administrators and deletes in two steps (`manage.py:51-58`):
  two of them may leave none, against PROJECT.md:1123.
- A password reset does not clear a lock that was set while it ran, because only
  changed columns are written (`manage.py:81-83`).
- An answer of the dashboard query that was overtaken by a push leaves a stale node
  status on the page, and nothing repeats the push (`dashboard.ts:27,58`; PROJECT.md:822).
- A detail page loaded by its address never subscribes, and nobody subscribes
  again after a reconnection (`useSocket.ts:64`, `TaskDetailView.vue:338`;
  PROJECT.md:837). The timer makes up for it.
- Results that arrive more than about two minutes late never reach the aggregates
  (`setup-influxdb.py:70`; PROJECT.md:745).
- The aggregates hold means only (`setup-influxdb.py:73`; PROJECT.md:428), and no
  `success`: over more than 24 hours the availability is 0 (`influx_service.py:220,240`), and
  minutes in which every TCP, HTTP or DNS probe failed are gaps.
- The fallback of `query_task_data` takes the mean of a Boolean, which Flux refuses
  (`influx_service.py:171`, against the comment at 120), and would only be tried
  when an aggregate is empty altogether (`:126`).
- Hours are shifted by a minute, because minute points carry the end of their
  minute (`setup-influxdb.py:84`).

## Proofs

TLAPS checks the theorems for every value of the constants, under the named
assumptions of the modules only. They say that bounds are numbers, that sets are
finite, that every result has a task (`TaskOfAssumption`), that sharing a point is an
equivalence (`SamePointAssumption`), that the heartbeats the threshold asks for fit in the
window with one to spare (20 in 120), and that each range is kept by the bucket that answers it
and minutes for two hours (24 hours of 3 days, 7 of 7 days, 30 of 30 days, as in
`setup-influxdb.py` and `influx_service.py`). TLC evaluates all of them on the runs' values. One
theorem has a hypothesis of its own: `AlertsRestOnNews` asks for `Selective` settings,
a window shorter than trigger and recovery together. The defaults are (5 < 3 + 3), and
so are those of the run, which `MCAlertEngine` assumes for TLC to evaluate; without it the property
is false, as the window outlives the recovery.

| Module | Theorem | Argument |
|---|---|---|
| `ResultDelivery_proofs` | `TypeCorrect` | one step per action |
| | `NothingIsLost`, `StaysReadable`, from `InvariantHolds` | `IInv` below |
| | `CustodyKept`: the refinement of `ResultCustody` | every action is mapped to `Measure`, `Settle`, `Recustody` or a stutter, using `IInv` |
| | `NothingIsStranded` | `LinkInv` below |
| | `FewDuplicates` | `CopyInv` below |
| `TaskSync_proofs` | `TypeCorrect`, `SyncIsConnected` | one step per action |
| | `AgentIsBehind` | `VersionInv`: packets and pending syncs carry no version beyond the node's |
| | `SyncConverges` | `CleanInv` below |
| `NodeStatus_proofs` | `TypeCorrect`, `ConnectedInService`, `DisabledStays` | `ServiceInv` |
| | `SilentGoesOffline`, `SteadyGoesOnline` | `SilenceInv`, `SteadyInv` below |
| `AlertEngine_proofs` | `TypeCorrect`, lemmas on windows | - |
| | `HistoryCorrect`, `RuleFollowed`, `RecoveryIsEarned`, `AlertsAreSpaced`, from `RulesHold` | `RuleInv` below |
| | `AlertIsBacked`, `AlertsRestOnNews`, from `WindowHolds` | `WindowInv` below |
| `AgentScheduler_proofs` | `TypeCorrect`, `StoppedIsLateOnce` | `LateInv`: a thread that was stopped and may still report has no late result yet |
| | `NeverProbedTwice`, `InOrderProbesWhatIsTold` | `OrderInv` below |
| `Accounts_proofs` | `TypeCorrect`, `LockCounts`, `ResetOpens`, `AdministratorRemains` | `LockInv` and `AdminInv` below |
| `Dashboard_proofs` | `TypeCorrect`, `RoomIsRead` | `DrawInv` and `RoomInv` below |
| `History_proofs` | `TypeCorrect`, `TimelyShown` | `TimeInv` and `KeptInv` below |

`NoSilentLoss` is not inductive: an acknowledgement in flight could
name a result whose fate is open. `IInv` adds that every result named by an
acknowledgement on its way (`AcksAreDue`), every *acked* row (`RowsAreDue`) and every
entry of the dedup cache (`SeenIsSettled`: a result that is not fresh is
acknowledged without a write) has a fate, and that a result that was not measured yet is
nowhere (`DueIsUnknown`, `SentIsStored`).

`NothingStranded` rests on what the threads at the agent and the packets know
about each other. `LinkInv` says of an authenticated session (`OnTheirWay`) that every
result held, undecided and not refused is being sent by its probe, read or
still to be sent by the backfill of the session, in a packet of it, or that the answer which starts
the backfill is still coming. A probe that looks at the flags and finds them down leaves
its row to that backfill, so `FlagsFollow` says when they are up: from the answer on, since
`on_auth_result` raises them before it starts the backfill. `Opened` keeps sessions apart
that were not opened yet. A result whose packet is ingested is decided or refused, by `Ingest`.

`DuplicatesOnlyAfterForgetting` needs the dedup cache in the count (`FewCopies`): the copies of a
result are at most one, *if it is in the cache*, and one more for every entry forgotten and
every write that raised. A write then pays for its copy by the entry it adds or the write that
raised, and an entry that goes pays with `forgets`. A rename of the node costs nothing of
its own: the tag only decides whether a second copy replaces the first.

`CleanSyncConverges`: while no change overlaps (`clean`), every packet on its way is a
full sync with the center's tasks, and the agent runs them already or has one to apply
(`CleanInv`). A reconnection adds such a packet. A retry does when what it sends, `Loaded`, is
`Enabled`: `HeldInv` says that as long as no held task was updated (`touched`) each
object held has the revision of its row (`LoadedIsEnabled`), and after that a retry
that arrives ends `clean`.

`SilentIsNotOnline`: no heartbeat is younger than the silence (`BeatsAreOlder`), so a pass
after a window of silence counts none, and a node that is online was heard within a window of the
last pass (`OnlineIsRecent`). `SteadyIsOnline` is the same count from below: each tick of
the steady time left a heartbeat of its age (`SteadyIsHeard`; an injection of the ticks into the window
gives its size), so a pass after the threshold sets the node online (`OfflineIsBrief`).

`FollowsRule` compares the engine with the trail, so `RuleInv` ties them: the
window is the end of the trail while the settings have not changed
(`WindowIsTrail`), the recovery count is at most the good samples in a row and, while
alerting, exactly those since the alert (`CountIsCalm`), without a restart the last alert row is no
younger than the engine's last alert (`RowsAreOlder`), and history follows state.

`RuleInv` says nothing of the window once the settings have changed. `WindowInv` does: it is always
*an* end of the trail (`WindowIsEnd`), so breaches it counts are breaches among the last
samples, which gives `AlertBacked` although the window may be shorter than the new setting.
For `AlertsAreFresh` it adds that behind every breach in the window there are as many good samples as
the recovery counted (`CountedBehind`), hence after a recovery, as long as no breach came, at least as many as
some setting asks for (`EarnedBehind`): with `Selective` settings the breaches left are fewer than
any trigger.

`ConnectedIsInService` needs `DisabledIsDisabled`: a checker that wrote a
status for a disabled node would break both.

The lock is counted from a row that was loaded earlier, so `LockInv` says of
every login and reset under way how the table can differ from what it loaded: a login
still knows the count, because one request runs at a time, unless a reset cleared it (`LoginKnows`); a
reset has seen the lock and the count it must clear unless a guess disturbed it (`ResetKnows`); a row that is not there has no
guesses (`Uncounted`). Even `TypeOK` needs it, since it bounds `guesses` by `Limit`.
`AdminInv` says of a removal that nothing will stop any more (`Sure`: it has counted, or it
loaded the user as no administrator) that somebody else is an
administrator, or that removals overlapped: promotions only add to that, and
the page removes no administrator.

`AtMostOneThread` and `InOrderIsExact` follow the one handler under way through its
statements. `OrderInv` says, as long as no two packets overlapped, that a stored stop event is that of
the only live thread of its task (`EventsAreThreads`), that a stored task has
one unless the handler is between stopping and starting it (`TasksHaveThreads`), and of that
handler what it knows of the task it is about (`StepKnows`), of what its packet asks for
(`KindKnows`), and that the dictionary differs from what was told only in what it has still to
do (`Progress`). This is what lets `TaskSync` apply a packet in one step.

Even the type of `points` in `Dashboard` is a claim, that no result is drawn more than twice. It
holds because the one push of a result (`PushedOnce`), sent when the result is new
(`NotYet`), finds it drawn by an answer at most (`RoomToDraw`). `RoomInv`: without an open page, the
last packet on its way leaves the room, or there is none and the room was left.

`TimelyIsShown`: `KeptInv` says of each bucket that a result is in the point of its window as long as the
bucket keeps it, once a run over the window could find it. The step that could undo this is a second run,
which replaces the point: it must find everything again, in `raw` for a minute and in the
minutes for an hour (`SecondRunFinds`, by arithmetic on windows and retention).

Only model-checked: `EventuallySettled`, `CleanSyncArrives`, `PendingEnds`, `RemovedEnds`,
`DashboardSettles` and `DetailSettles`, which speak of what must happen in the end: liveness under
fairness is outside the prover's reach. Every other property of a passing run
is a theorem. The two violations are counterexamples and need no proof.

## What is not modelled

- Probes and tools: they run programs and parse text; the rest sees a result.
- Alert history and channels API, settings, deployment: see the table; single
  statements, which nothing interleaves with, or values read once at start.
- Of the queries: the statistics and summaries (arithmetic over what was found) and
  the filters. Of the pushes: node status and the summary, which nothing repeats.
  Of the frontend: forms, drawing and pages that fetch a list when opened.
- Wrong cookies, wrong passwords' texts and the expiry of a lock (it raises).
- Authentication that fails on a wrong token: the connection is ended and no
  state changes. `NodeStatus` has the rejections that depend on state.
- Deleting a task with rows in `alert_history`, or a node with tasks: the
  NOT NULL foreign key makes the request fail, and nothing changes.
- A commit that fails in a REST request: the request answers 500.
- A blocked center (a webhook of ten seconds): steps are atomic, their duration
  is not modelled except by `Tick`.

## Plan

Done, in this order: delivery, synchronisation, node status, alerts, the
scheduler, accounts, dashboard, history; and the proof of every safety and action
property that a passing run checks. Left:

1. An abstract specification `TaskCopy` (the agent's tasks are some past or
   present set of the center's, and a clean sync makes it the present one) for
   `TaskSync` and `AgentScheduler`, as `ResultCustody` is for `ResultDelivery`.
2. A correspondence between the `Apply` of `TaskSync` and a whole packet of
   `AgentScheduler`: its content is `InOrderIsExact`, which is proved, but the two modules
   are not composed.
