------------------------------ MODULE TaskSync ------------------------------
(***************************************************************************)
(* How the probe tasks of one node reach its agent: the task API           *)
(* (server/api/tasks.py), the session registry (server/ws/agent_handler.py *)
(* and server/services/node_service.py), the synchronisation state with    *)
(* its retries (server/services/task_service.py, sync_retry_checker of     *)
(* server/app.py) and the task handlers of agent/ws_client.py.             *)
(*                                                                         *)
(* Server handlers, API requests and passes of the retry checker are one   *)
(* step each (see ResultDelivery).  At the agent every packet has a thread *)
(* of its own with three steps, apply, set the version, acknowledge; the   *)
(* threads of a session interleave.  They last milliseconds, the client    *)
(* waits seconds before it reconnects: none outlives its session.          *)
(***************************************************************************)
EXTENDS Naturals, FiniteSets, Sequences

CONSTANTS
  Tasks,         \* identities of tasks of the node
  MaxRetries,    \* SYNC_MAX_RETRIES
  MaxChanges,    \* bound: changes of the tasks by administrators
  MaxSessions,   \* bound: connections the agent opens; the last one lasts
  MaxRestarts    \* bound: restarts of the server, of the agent

ASSUME BoundsAssumption ==
  /\ MaxRetries \in Nat /\ MaxChanges \in Nat
  /\ MaxSessions \in Nat /\ MaxRestarts \in Nat

Sessions == 1..MaxSessions
Versions == 0..MaxChanges

VARIABLES
  (* the server *)
  db,        \* probe_tasks: [Tasks -> [rev, on]]; rev 0 is "no such task"
  version,   \* config_version of the node
  alive,     \* sessions the server has not seen end
  authed,    \* _agent_sessions
  conn,      \* _node_connections of the node: a session, or 0
  sync,      \* _sync_state of the node
  held,      \* objects the retry checker keeps: [Tasks -> revision, or 0]
  (* the connection *)
  up,        \* [Sessions -> packets on their way to the server]
  down,      \* packets on their way to, or in a thread of, the agent
  (* the agent *)
  session, open,
  running,   \* scheduler.tasks: [Tasks -> the revision that runs, or 0]
  agentVersion, \* WSClient.config_version
  (* what happened, for the properties and the bounds *)
  newest,    \* the session that authenticated last
  clean,     \* a full sync was sent on its own in this session, and since
             \* then no task changed and no retry was sent after a touch
  touched,   \* a task was updated while the retry checker held it
  restarts

serverVars == <<db, version, alive, authed, conn, sync, held>>
agentVars  == <<session, open, running, agentVersion>>
vars == <<serverVars, agentVars, up, down, newest, clean, touched, restarts>>

(* clear_sync_state, mark_sync_pending, mark_sync_acked, and the two       *)
(* outcomes of check_pending_syncs for a sync that timed out.              *)
NoSync == [state |-> "none", version |-> 0, retries |-> 0]
PendingAt(v) == [state |-> "pending", version |-> v, retries |-> 0]
AckedAt(v) ==
  IF sync.state # "none" /\ sync.version <= v
  THEN [sync EXCEPT !.state = "synced"] ELSE sync
Retried == [sync EXCEPT !.retries = @ + 1]
Desync == [sync EXCEPT !.state = "desync"]

NoTask == [rev |-> 0, on |-> FALSE]
Revision(task) == IF task.on THEN task.rev ELSE 0
Enabled == [t \in Tasks |-> Revision(db[t])]
NotRunning == [t \in Tasks |-> 0]

(* get_tasks_for_node in the session of the retry checker, which is never  *)
(* committed, rolled back or removed: the database chooses the rows, and a *)
(* row whose object the checker still holds keeps the attributes it had    *)
(* when that object was loaded.                                            *)
Loaded == [t \in Tasks |-> IF Enabled[t] # 0 /\ held[t] # 0 THEN held[t] ELSE Enabled[t]]

Packet == [type : {"sync", "assign", "remove"}, to : Sessions,
           version : Versions, about : SUBSET Tasks, tasks : [Tasks -> Versions],
           nth : 0..MaxRetries, step : {"apply", "version", "ack"}]

TypeOK ==
  /\ db \in [Tasks -> [rev : Versions, on : BOOLEAN]]
  /\ version \in Versions /\ agentVersion \in Versions
  /\ authed \subseteq alive /\ alive \subseteq Sessions
  /\ conn \in 0..MaxSessions /\ newest \in 0..MaxSessions
  /\ session \in 0..MaxSessions /\ open \in BOOLEAN
  /\ sync \in [state : {"none", "pending", "synced", "desync"},
               version : Versions, retries : 0..MaxRetries]
  /\ up \in [Sessions -> Seq([type : {"auth", "ack"}, version : Versions])]
  /\ down \subseteq Packet
  /\ running \in [Tasks -> Versions]
  /\ held \in [Tasks -> Versions]
  /\ clean \in BOOLEAN /\ touched \in BOOLEAN /\ restarts \in 0..MaxRestarts

Init ==
  /\ db = [t \in Tasks |-> NoTask]
  /\ version = 0 /\ agentVersion = 0
  /\ alive = {} /\ authed = {} /\ conn = 0 /\ newest = 0
  /\ session = 0 /\ open = FALSE
  /\ sync = NoSync
  /\ up = [s \in Sessions |-> << >>]
  /\ down = {}
  /\ running = NotRunning /\ held = NotRunning
  /\ clean = FALSE /\ touched = FALSE /\ restarts = 0

-----------------------------------------------------------------------------
Reaches(s) == s = session /\ open /\ s \in alive

(* emit(..., to=sid): what is sent to a session the agent no longer holds  *)
(* is lost, without an error.                                              *)
Sent(s, packet) == IF Reaches(s) THEN down \cup {packet} ELSE down

SyncPacket(s, v, tasks, nth) ==
  [type |-> "sync", to |-> s, version |-> v, about |-> Tasks,
   tasks |-> tasks, nth |-> nth, step |-> "apply"]
(* A full sync that arrives, and that no packet on its way can overtake.   *)
Settles(s) == Reaches(s) /\ down = {}

Notice(type, t) ==
  [type |-> type, to |-> conn, version |-> version', about |-> {t},
   tasks |-> [NotRunning EXCEPT ![t] = Revision(db'[t])], nth |-> 0,
   step |-> "apply"]

(* Every change of a task: the row and config_version in one transaction.  *)
Change(t, task) ==
  /\ version < MaxChanges
  /\ version' = version + 1
  /\ db' = [db EXCEPT ![t] = task]
  /\ clean' = FALSE
  /\ UNCHANGED <<alive, authed, conn, sync, agentVars, up, newest, restarts>>
(* A task that is deleted and one that is created later are not the same   *)
(* row: what the checker holds of the first is never found again.          *)
Forgotten(t) == held' = [held EXCEPT ![t] = 0] /\ UNCHANGED touched

CreateTask(t) ==
  /\ db[t] = NoTask
  /\ Change(t, [rev |-> version + 1, on |-> TRUE])
  /\ down' = IF conn # 0 THEN Sent(conn, Notice("assign", t)) ELSE down
  /\ UNCHANGED <<held, touched>>

(* Mutant of DeleteTask: the version is raised twice, once in the packet.   *)
DeleteTaskTwice(t) ==
  /\ db[t] # NoTask
  /\ Change(t, NoTask)
  /\ down' = IF conn # 0
             THEN Sent(conn, [Notice("remove", t) EXCEPT !.version = version + 2])
             ELSE down
  /\ Forgotten(t)

(* _try_notify_agent of a center_task_update puts the payload into itself  *)
(* (payload['changes'] = payload): emit cannot encode it and raises, which *)
(* is caught, so a connected agent is sent nothing.                        *)
UpdateTask(t) ==
  /\ db[t] # NoTask
  /\ Change(t, [rev |-> version + 1, on |-> db[t].on])
  /\ touched' = (touched \/ held[t] # 0)
  /\ UNCHANGED <<down, held>>

ToggleTask(t) ==
  /\ db[t] # NoTask
  /\ \E on \in BOOLEAN : Change(t, [rev |-> db[t].rev, on |-> on])
  /\ UNCHANGED <<down, held, touched>>

DeleteTask(t) ==
  /\ db[t] # NoTask
  /\ Change(t, NoTask)
  /\ down' = IF conn # 0 THEN Sent(conn, Notice("remove", t)) ELSE down
  /\ Forgotten(t)

-----------------------------------------------------------------------------
(* The agent's end of the connection.                                      *)

(* on_connect authenticates with the version the agent is at.              *)
Connect ==
  /\ ~open /\ session < MaxSessions
  /\ session' = session + 1 /\ open' = TRUE
  /\ alive' = alive \cup {session + 1}
  /\ up' = [up EXCEPT ![session + 1] =
              Append(@, [type |-> "auth", version |-> agentVersion])]
  /\ UNCHANGED <<db, version, authed, conn, sync, held, down, running,
                 agentVersion, newest, clean, touched, restarts>>

(* The threads that started have ended; what did not arrive is lost.       *)
Disconnect ==
  /\ open /\ session < MaxSessions
  /\ \A m \in down : m.step = "apply"
  /\ open' = FALSE
  /\ down' = {} /\ clean' = FALSE
  /\ UNCHANGED <<serverVars, session, running, agentVersion, up, newest,
                 touched, restarts>>

(* A new agent process runs nothing and is at version 0.                   *)
AgentRestart ==
  /\ session < MaxSessions
  /\ restarts < MaxRestarts /\ restarts' = restarts + 1
  /\ open' = FALSE /\ running' = NotRunning /\ agentVersion' = 0
  /\ down' = {} /\ clean' = FALSE
  /\ UNCHANGED <<serverVars, session, up, newest, touched>>

(* The three steps of on_task_sync, on_task_assign and on_task_remove: the *)
(* scheduler, then the version, then the acknowledgement.                  *)
Step(m, next) == (down \ {m}) \cup {[m EXCEPT !.step = next]}

(* Mutant of Apply: a full sync only adds tasks.                           *)
ApplyAdding(m) ==
  /\ m.step = "apply"
  /\ running' = [t \in Tasks |-> IF m.tasks[t] # 0 THEN m.tasks[t] ELSE running[t]]
  /\ down' = Step(m, "version")
  /\ UNCHANGED <<serverVars, session, open, agentVersion, up, newest, clean,
                 touched, restarts>>

Apply(m) ==
  /\ m.step = "apply"
  /\ running' = [t \in Tasks |-> IF t \in m.about THEN m.tasks[t] ELSE running[t]]
  /\ down' = Step(m, "version")
  /\ UNCHANGED <<serverVars, session, open, agentVersion, up, newest, clean,
                 touched, restarts>>

SetVersion(m) ==
  /\ m.step = "version"
  /\ agentVersion' = m.version
  /\ down' = Step(m, "ack")
  /\ UNCHANGED <<serverVars, session, open, running, up, newest, clean,
                 touched, restarts>>

SendTaskAck(m) ==
  /\ m.step = "ack"
  /\ down' = down \ {m}
  /\ up' = [up EXCEPT ![m.to] =
              Append(@, [type |-> "ack", version |-> m.version])]
  /\ UNCHANGED <<serverVars, agentVars, newest, clean, touched, restarts>>

-----------------------------------------------------------------------------
(* The server.                                                             *)

Take(s, type) ==
  /\ s \in alive /\ up[s] # << >> /\ Head(up[s]).type = type
  /\ up' = [up EXCEPT ![s] = Tail(@)]

(* on_agent_auth: register the session, then a full sync unless the agent  *)
(* is at the same version and the node is not marked desync.               *)
OnAgentAuth(s) ==
  /\ Take(s, "auth")
  /\ authed' = authed \cup {s}
  /\ conn' = s /\ newest' = s
  /\ IF Head(up[s]).version # version \/ sync.state = "desync"
     THEN /\ down' = Sent(s, SyncPacket(s, version, Enabled, 0))
          /\ sync' = PendingAt(version)
          /\ clean' = Settles(s)
     ELSE UNCHANGED <<down, sync, clean>>
  /\ UNCHANGED <<db, version, alive, held, agentVars, touched, restarts>>

(* on_agent_task_ack and mark_sync_acked.                                  *)
OnAgentTaskAck(s) ==
  /\ Take(s, "ack")
  /\ sync' = IF s \in authed THEN AckedAt(Head(up[s]).version) ELSE sync
  /\ UNCHANGED <<db, version, alive, authed, conn, held, agentVars, down, newest,
                 clean, touched, restarts>>

(* Mutants of OnDisconnect: the session stays in _agent_sessions; the      *)
(* synchronisation state of the node stays.                                *)
OnDisconnectKeepSession(s) ==
  /\ s \in alive /\ ~(open /\ s = session)
  /\ alive' = alive \ {s}
  /\ up' = [up EXCEPT ![s] = << >>]
  /\ IF s \in authed
     THEN conn' = 0 /\ sync' = NoSync
     ELSE UNCHANGED <<conn, sync>>
  /\ UNCHANGED <<db, version, authed, held, agentVars, down, newest, clean,
                 touched, restarts>>
OnDisconnectKeepSync(s) ==
  /\ s \in alive /\ ~(open /\ s = session)
  /\ alive' = alive \ {s} /\ authed' = authed \ {s}
  /\ up' = [up EXCEPT ![s] = << >>]
  /\ conn' = IF s \in authed THEN 0 ELSE conn
  /\ UNCHANGED <<db, version, sync, held, agentVars, down, newest, clean,
                 touched, restarts>>

(* The server's on_disconnect of a session, maybe long after it ended: it  *)
(* unregisters the node, whichever session the node is at by then.         *)
OnDisconnect(s) ==
  /\ s \in alive /\ ~(open /\ s = session)
  /\ alive' = alive \ {s} /\ authed' = authed \ {s}
  /\ up' = [up EXCEPT ![s] = << >>]
  /\ IF s \in authed
     THEN conn' = 0 /\ sync' = NoSync
     ELSE UNCHANGED <<conn, sync>>
  /\ UNCHANGED <<db, version, held, agentVars, down, newest, clean,
                 touched, restarts>>

RetrySyncForever ==    \* mutant of RetrySync: the attempts are not counted
  /\ sync.state = "pending" /\ conn # 0
  /\ down' = Sent(conn, SyncPacket(conn, sync.version, Loaded, sync.retries))
  /\ UNCHANGED <<serverVars, agentVars, up, newest, clean, touched, restarts>>

(* sync_retry_checker, when SYNC_TIMEOUT has passed: the tasks as far as   *)
(* this session knows them, with the version of then.                      *)
RetrySync ==
  /\ sync.state = "pending"
  /\ IF sync.retries < MaxRetries /\ conn # 0
     THEN /\ sync' = Retried
          /\ held' = Loaded
          /\ down' = Sent(conn, SyncPacket(conn, sync.version, Loaded, sync.retries + 1))
          /\ clean' = IF Reaches(conn) /\ touched THEN FALSE ELSE clean \/ Settles(conn)
     ELSE /\ sync' = Desync
          /\ UNCHANGED <<down, clean, held>>
  /\ UNCHANGED <<db, version, alive, authed, conn, agentVars, up, newest,
                 touched, restarts>>

(* A retry for another node takes the place of the objects: nothing holds  *)
(* those of this node any more.                                            *)
RetryElsewhere ==
  /\ held # NotRunning \/ touched
  /\ held' = NotRunning /\ touched' = FALSE
  /\ UNCHANGED <<db, version, alive, authed, conn, sync, agentVars, up, down,
                 newest, clean, restarts>>

(* A restart keeps the database; the agent notices its session is gone.    *)
ServerRestart ==
  /\ session < MaxSessions
  /\ restarts < MaxRestarts /\ restarts' = restarts + 1
  /\ \A m \in down : m.step = "apply"
  /\ alive' = {} /\ authed' = {} /\ conn' = 0 /\ sync' = NoSync
  /\ up' = [s \in Sessions |-> << >>]
  /\ held' = NotRunning /\ touched' = FALSE
  /\ open' = FALSE /\ down' = {} /\ clean' = FALSE
  /\ UNCHANGED <<db, version, session, running, agentVersion, newest>>

-----------------------------------------------------------------------------
PacketThread(m) == Apply(m) \/ SetVersion(m) \/ SendTaskAck(m)
ServerHandler(s) == OnAgentAuth(s) \/ OnAgentTaskAck(s) \/ OnDisconnect(s)

Next ==
  \/ \E t \in Tasks : CreateTask(t) \/ UpdateTask(t) \/ ToggleTask(t) \/ DeleteTask(t)
  \/ \E m \in down : PacketThread(m)
  \/ \E s \in Sessions : ServerHandler(s)
  \/ Connect \/ Disconnect \/ AgentRestart
  \/ RetrySync \/ RetryElsewhere \/ ServerRestart

Spec == Init /\ [][Next]_vars

(* Threads and handlers run and the client reconnects; nothing is assumed  *)
(* of administrators and of failures.                                      *)
Fairness ==
  /\ WF_vars(\E m \in down : PacketThread(m))
  /\ \A s \in Sessions : WF_vars(ServerHandler(s))
  /\ WF_vars(Connect)
  /\ WF_vars(RetrySync)

FairSpec == Spec /\ Fairness

-----------------------------------------------------------------------------
(* The agent is never ahead of the center: the branch of on_agent_auth for *)
(* a higher version (PROJECT.md 7.6, rule 5, "异常") is never taken.        *)
AgentNeverAhead ==
  /\ agentVersion <= version
  /\ \A s \in Sessions : \A i \in 1..Len(up[s]) : up[s][i].version <= version

(* The synchronisation state belongs to a registered connection, so the    *)
(* retry checker always has a session to send to.                          *)
SyncHasConnection == sync.state # "none" => conn # 0

Quiet == open /\ session \in authed /\ up[session] = << >> /\ down = {}

(* A full sync settles the matter: when it overlapped with no change of a  *)
(* task, before or after it, the agent ends up with the tasks of the       *)
(* center, reconnections and retries included - but for a retry after a    *)
(* task was updated that the checker holds since an earlier retry.         *)
CleanSyncConverges == Quiet /\ clean => running = Enabled

(* ... and it does get there, or a session follows that has to do it.      *)
CleanSyncArrives == clean ~> (~clean \/ running = Enabled)

(* Retries are bounded (SYNC_MAX_RETRIES): a pending sync ends as synced,  *)
(* as desync, or with its connection.                                      *)
PendingEnds == sync.state = "pending" ~> sync.state # "pending"

(* The node can be reached: while the server has not seen the end of the   *)
(* session that authenticated last, it is the one it sends to.             *)
NewestIsRegistered == newest \in authed => conn = newest
=============================================================================
