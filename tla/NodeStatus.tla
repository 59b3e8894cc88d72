------------------------------ MODULE NodeStatus ------------------------------
(***************************************************************************)
(* The status of one node: authentication and heartbeats on the /agent     *)
(* namespace (server/ws/agent_handler.py), the heartbeat window and the    *)
(* registry (server/services/node_service.py), heartbeat_checker of        *)
(* server/app.py and what an administrator does to the node                *)
(* (server/api/nodes.py).                                                  *)
(*                                                                         *)
(* A handler, a request and a pass of the checker are one step each (see   *)
(* ResultDelivery).  Time passes in ticks of one second; the checker has   *)
(* one pass every Interval ticks, as long as nothing blocks the server.    *)
(***************************************************************************)
EXTENDS Naturals, FiniteSets

CONSTANTS
  Window,        \* WINDOW_SIZE, in ticks (120)
  Threshold,     \* OFFLINE_THRESHOLD (20)
  Interval,      \* ticks between two passes of heartbeat_checker (10)
  MaxBurst,      \* bound: heartbeats that arrive in one tick
  MaxSessions,   \* bound: connections the agent opens
  MaxRestarts,   \* bound: restarts of the server
  MaxCheckFails  \* bound: passes of the checker whose commit raises

ASSUME BoundsAssumption ==
  /\ Interval \in Nat \ {0} /\ MaxBurst \in Nat \ {0}
  /\ Threshold \in Nat /\ Window \in Nat /\ Threshold + 1 < Window
  /\ MaxSessions \in Nat /\ MaxRestarts \in Nat /\ MaxCheckFails \in Nat

Sessions == 1..MaxSessions
Ages == 0..(Window - 1)
Heartbeats == Ages \X (1..MaxBurst)
Silent == Window + Interval          \* bounds of the two clocks below
Steady == Threshold + 1 + Interval

VARIABLES
  (* the database *)
  enabled, status,   \* columns of the node; "deleted" is "no such row"
  (* the server *)
  alive,       \* sessions the server has not seen end
  authed,      \* _agent_sessions
  conn,        \* _node_connections of the node: a session, or 0
  beats,       \* _heartbeat_windows: <<age, which of that age>>
  sinceCheck,  \* ticks since the last pass of the checker
  broken,      \* the database session of the checker needs a rollback
  (* the agent *)
  session, open,
  (* what happened, for the properties and the bounds *)
  silence,     \* ticks without a heartbeat or an authentication
  steady,      \* ticks in a row that each had a heartbeat
  restarts, checkFails

node   == <<enabled, status>>
server == <<alive, authed, conn>>
agent  == <<session, open>>
bounds == <<restarts, checkFails>>
vars == <<node, server, beats, sinceCheck, broken, agent, silence,
          steady, bounds>>

TypeOK ==
  /\ enabled \in BOOLEAN
  /\ status \in {"registered", "online", "offline", "disabled", "deleted"}
  /\ authed \subseteq alive /\ alive \subseteq Sessions
  /\ conn \in authed \cup {0}
  /\ beats \subseteq Heartbeats
  /\ sinceCheck \in 0..Interval /\ broken \in BOOLEAN
  /\ session \in 0..MaxSessions /\ open \in BOOLEAN
  /\ silence \in 0..Silent /\ steady \in 0..Steady
  /\ restarts \in 0..MaxRestarts /\ checkFails \in 0..MaxCheckFails

(* create_node made the row; the server just started.                      *)
Init ==
  /\ enabled = TRUE /\ status = "registered"
  /\ alive = {} /\ authed = {} /\ conn = 0
  /\ beats = {}
  /\ sinceCheck = Interval /\ broken = FALSE
  /\ session = 0 /\ open = FALSE
  /\ silence = 0 /\ steady = 0
  /\ restarts = 0 /\ checkFails = 0

-----------------------------------------------------------------------------
(* The agent's end of the connection.                                      *)
Connect ==
  /\ ~open /\ session < MaxSessions
  /\ session' = session + 1 /\ open' = TRUE
  /\ alive' = alive \cup {session + 1}
  /\ UNCHANGED <<node, authed, conn, beats, sinceCheck, broken,
                 silence, steady, bounds>>

Disconnect ==
  /\ open /\ open' = FALSE
  /\ UNCHANGED <<node, server, beats, sinceCheck, broken, session,
                 silence, steady, bounds>>

-----------------------------------------------------------------------------
(* on_agent_auth: the token is right, the node may be gone or disabled.    *)
Accept(s) ==
  /\ authed' = authed \cup {s} /\ conn' = s /\ status' = "online"
  /\ silence' = 0
  /\ UNCHANGED <<enabled, alive>>
Reject(s) ==
  /\ alive' = alive \ {s}
  /\ UNCHANGED <<node, authed, conn, silence>>

OnAgentAuth(s) ==
  /\ s \in alive \ authed
  /\ IF status # "deleted" /\ enabled THEN Accept(s) ELSE Reject(s)
  /\ UNCHANGED <<beats, sinceCheck, broken, agent, steady, bounds>>

(* on_agent_heartbeat and record_heartbeat: only the session is looked at. *)
OnAgentHeartbeat(s) ==
  /\ s \in authed
  /\ \E n \in 1..MaxBurst :
       /\ <<0, n>> \notin beats /\ \A k \in 1..(n - 1) : <<0, k>> \in beats
       /\ beats' = beats \cup {<<0, n>>}
  /\ silence' = 0
  /\ UNCHANGED <<node, server, sinceCheck, broken, agent, steady, bounds>>

(* Mutant of OnDisconnect: the session stays in _agent_sessions.            *)
OnDisconnectKeepSession(s) ==
  /\ s \in alive /\ ~(open /\ s = session)
  /\ alive' = alive \ {s}
  /\ conn' = IF s \in authed THEN 0 ELSE conn
  /\ UNCHANGED <<authed, node, beats, sinceCheck, broken, agent, silence,
                 steady, bounds>>

(* on_disconnect unregisters the node, whichever session it is at by now.  *)
OnDisconnect(s) ==
  /\ s \in alive /\ ~(open /\ s = session)
  /\ alive' = alive \ {s} /\ authed' = authed \ {s}
  /\ conn' = IF s \in authed THEN 0 ELSE conn
  /\ UNCHANGED <<node, beats, sinceCheck, broken, agent, silence,
                 steady, bounds>>

-----------------------------------------------------------------------------
(* Time.  record_heartbeat and get_heartbeat_count drop what is as old as  *)
(* the window before they look at it.                                      *)
Least(a, b) == IF a <= b THEN a ELSE b
Aged == {b \in Heartbeats : b[1] > 0 /\ <<b[1] - 1, b[2]>> \in beats}
HeardNow == \E n \in 1..MaxBurst : <<0, n>> \in beats

Tick ==
  /\ sinceCheck < Interval /\ sinceCheck' = sinceCheck + 1
  /\ beats' = Aged
  /\ silence' = Least(Silent, silence + 1)
  /\ steady' = IF HeardNow THEN Least(Steady, steady + 1) ELSE 0
  /\ UNCHANGED <<node, server, broken, agent, bounds>>

HeartbeatCount == Cardinality(beats)
IsConnected == conn # 0   \* mutant of IsOnline
IsOnline == HeartbeatCount > Threshold
NewStatus == IF IsOnline THEN "online" ELSE "offline"

(* The checker only looks at nodes in these states.                        *)
OnlyOnline == status = "online" /\ enabled   \* mutant of Checked
Checked == status \in {"online", "offline"} /\ enabled

(* heartbeat_checker.  A pass that has something to write may fail; the    *)
(* handler logs it and does not roll back, so every later pass fails too.  *)
HeartbeatCheck ==
  /\ sinceCheck = Interval /\ sinceCheck' = 0
  /\ \/ ~broken /\ status' = (IF Checked THEN NewStatus ELSE status)
        /\ UNCHANGED <<broken, checkFails>>
     \/ ~broken /\ Checked /\ (IsOnline \/ status # NewStatus)
        /\ checkFails < MaxCheckFails /\ checkFails' = checkFails + 1
        /\ broken' = TRUE
        /\ UNCHANGED status
     \/ broken /\ UNCHANGED <<status, broken, checkFails>>
  /\ UNCHANGED <<enabled, server, beats, agent, silence, steady, restarts>>

-----------------------------------------------------------------------------
(* The administrator.  For a node that is connected, disabling and deleting *)
(* call socketio.disconnect, which the SocketIO object does not have: the  *)
(* request fails before its commit and changes nothing.  (A node that has  *)
(* tasks cannot be deleted either: the foreign key of a task is not null.) *)
DisableAnyway ==      \* mutant of DisableNode: the session is left alone
  /\ status # "deleted"
  /\ enabled' = FALSE /\ status' = "disabled"
  /\ UNCHANGED <<server, beats, sinceCheck, broken, agent, silence, steady, bounds>>
DisableNode ==
  /\ status # "deleted"
  /\ IF conn = 0 THEN enabled' = FALSE /\ status' = "disabled" ELSE UNCHANGED node
  /\ UNCHANGED <<server, beats, sinceCheck, broken, agent, silence, steady, bounds>>

EnableOnly ==         \* mutant of EnableNode: the status is left alone
  /\ status # "deleted"
  /\ enabled' = TRUE
  /\ UNCHANGED <<status, server, beats, sinceCheck, broken, agent, silence, steady,
                 bounds>>
EnableNode ==
  /\ status # "deleted"
  /\ enabled' = TRUE
  /\ status' = IF status = "disabled" THEN "registered" ELSE status
  /\ UNCHANGED <<server, beats, sinceCheck, broken, agent, silence, steady, bounds>>

DeleteNode ==
  /\ status # "deleted" /\ conn = 0
  /\ status' = "deleted"
  /\ UNCHANGED <<enabled, server, beats, sinceCheck, broken, agent, silence,
                 steady, bounds>>

(* A restart forgets sessions and heartbeats; the checker starts at once.  *)
ServerRestart ==
  /\ restarts < MaxRestarts /\ restarts' = restarts + 1
  /\ alive' = {} /\ authed' = {} /\ conn' = 0 /\ open' = FALSE
  /\ beats' = {} /\ sinceCheck' = Interval /\ broken' = FALSE
  /\ silence' = 0 /\ steady' = 0
  /\ UNCHANGED <<node, session, checkFails>>

-----------------------------------------------------------------------------
Next ==
  \/ \E s \in Sessions : OnAgentAuth(s) \/ OnAgentHeartbeat(s) \/ OnDisconnect(s)
  \/ Connect \/ Disconnect \/ Tick \/ HeartbeatCheck
  \/ DisableNode \/ EnableNode \/ DeleteNode \/ ServerRestart

Spec == Init /\ [][Next]_vars

-----------------------------------------------------------------------------
(* A node the center would send tasks to is in service: it is neither      *)
(* disabled nor deleted behind the back of its connection, and the checker *)
(* watches it.                                                             *)
ConnectedIsInService ==
  conn # 0 => enabled /\ status \in {"online", "offline"}

(* The two columns agree: an enabled node is never shown as disabled, and  *)
(* the checker and late handlers never revive a disabled one.              *)
DisabledIsDisabled == status # "deleted" => (enabled <=> status # "disabled")

(* A node that fell silent is not online for longer than the window and    *)
(* one pass of the checker, whatever ended its connection, including a     *)
(* restart of the server; a checker that lost its database session no      *)
(* longer sees to that.                                                    *)
SilentIsNotOnline == ~broken /\ silence = Silent => status # "online"

(* A connected node that is heard every second is online as soon as the    *)
(* threshold is passed and the checker had a pass, and does not flap.      *)
SteadyIsOnline == ~broken /\ conn # 0 /\ steady = Steady => status = "online"
=============================================================================
