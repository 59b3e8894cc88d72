--------------------------- MODULE TaskSync_proofs ---------------------------
(***************************************************************************)
(* Proofs about the synchronisation of tasks, for every set of tasks and   *)
(* every bound: type correctness, that a synchronisation state belongs to  *)
(* a connection, that the agent is never ahead of the center, and that a   *)
(* full sync that no change overlaps with settles the matter.              *)
(***************************************************************************)
EXTENDS TaskSync, TLAPS

USE DEF Sessions, Versions

-----------------------------------------------------------------------------
(* Type correctness.                                                       *)

SyncStates == [state : {"none", "pending", "synced", "desync"},
               version : Versions, retries : 0..MaxRetries]
UpMsg == [type : {"auth", "ack"}, version : Versions]

(* The enabled tasks are revisions, and so is what a packet says of them.  *)
LEMMA EnabledType == TypeOK => Enabled \in [Tasks -> Versions] /\ Loaded \in [Tasks -> Versions]
<1>1. TypeOK => Enabled \in [Tasks -> Versions]
  BY BoundsAssumption DEF TypeOK, Enabled, Revision
<1> QED
  BY <1>1 DEF TypeOK, Loaded

(* A full sync to a session the agent holds is a packet.                   *)
LEMMA SyncPacketType ==
  ASSUME TypeOK, NEW s, Reaches(s), NEW v \in Versions,
         NEW tasks \in [Tasks -> Versions], NEW nth \in 0..MaxRetries
  PROVE  SyncPacket(s, v, tasks, nth) \in Packet
<1>1. s \in Sessions
  BY DEF TypeOK, Reaches
<1> QED
  BY <1>1 DEF SyncPacket, Packet

LEMMA SentType ==
  ASSUME TypeOK, NEW s, NEW packet, Reaches(s) => packet \in Packet
  PROVE  Sent(s, packet) \subseteq Packet
BY DEF TypeOK, Sent

(* The packet a handler takes off a session is one the agent sent.         *)
LEMMA TakeType ==
  ASSUME TypeOK, NEW s \in Sessions, NEW type, Take(s, type)
  PROVE  /\ Head(up[s]) \in UpMsg
         /\ up' \in [Sessions -> Seq(UpMsg)]
<1>1. up[s] \in Seq(UpMsg) /\ up[s] # << >>
  BY DEF TypeOK, Take, UpMsg
<1>2. Head(up[s]) \in UpMsg /\ Tail(up[s]) \in Seq(UpMsg)
  BY <1>1
<1>3. up \in [Sessions -> Seq(UpMsg)]
  BY DEF TypeOK, UpMsg
<1> QED
  BY <1>2, <1>3 DEF Take

(* What the agent sends, and a session that ends.                          *)
LEMMA SendType ==
  ASSUME TypeOK, NEW s \in Sessions, NEW type \in {"auth", "ack"}, NEW v \in Versions
  PROVE  [up EXCEPT ![s] = Append(@, [type |-> type, version |-> v])]
           \in [Sessions -> Seq(UpMsg)]
<1>1. [type |-> type, version |-> v] \in UpMsg
  BY DEF UpMsg
<1>2. up \in [Sessions -> Seq(UpMsg)]
  BY DEF TypeOK, UpMsg
<1>3. Append(up[s], [type |-> type, version |-> v]) \in Seq(UpMsg)
  BY <1>1, <1>2
<1> QED
  BY <1>2, <1>3

LEMMA CloseType ==
  ASSUME TypeOK, NEW s \in Sessions
  PROVE  [up EXCEPT ![s] = << >>] \in [Sessions -> Seq(UpMsg)]
<1>1. up \in [Sessions -> Seq(UpMsg)]
  BY DEF TypeOK, UpMsg
<1>2. << >> \in Seq(UpMsg)
  OBVIOUS
<1> QED
  BY <1>1, <1>2

(* A change of a task, and what a connected agent is told of it.           *)
LEMMA ChangeType ==
  ASSUME TypeOK, NEW t \in Tasks, NEW task \in [rev : Versions, on : BOOLEAN],
         Change(t, task)
  PROVE  /\ db' \in [Tasks -> [rev : Versions, on : BOOLEAN]]
         /\ version' \in Versions
         /\ \A type \in {"assign", "remove"} :
              Reaches(conn) => Notice(type, t) \in Packet
<1>1. version' \in Versions
  BY BoundsAssumption DEF TypeOK, Change
<1>2. db' \in [Tasks -> [rev : Versions, on : BOOLEAN]]
  BY DEF TypeOK, Change
<1>3. [NotRunning EXCEPT ![t] = Revision(db'[t])] \in [Tasks -> Versions]
  BY <1>2, BoundsAssumption DEF NotRunning, Revision
<1>4. Reaches(conn) => conn \in Sessions
  BY DEF TypeOK, Reaches
<1>5. 0 \in 0..MaxRetries
  BY BoundsAssumption
<1> QED
  BY <1>1, <1>2, <1>3, <1>4, <1>5 DEF Notice, Packet

LEMMA StepType ==
  ASSUME TypeOK, NEW m \in down, NEW next \in {"version", "ack"}
  PROVE  Step(m, next) \subseteq Packet
BY DEF TypeOK, Step, Packet

LEMMA InitTypeOK == Init => TypeOK
<1> SUFFICES ASSUME Init PROVE TypeOK
  OBVIOUS
<1>1. 0 \in Versions /\ 0 \in 0..MaxSessions /\ 0 \in 0..MaxRetries /\ 0 \in 0..MaxRestarts
  BY BoundsAssumption
<1>2. NoTask \in [rev : Versions, on : BOOLEAN] /\ NotRunning \in [Tasks -> Versions]
  BY <1>1 DEF NoTask, NotRunning
<1>3. NoSync \in SyncStates
  BY <1>1 DEF NoSync, SyncStates
<1>4. up \in [Sessions -> Seq(UpMsg)]
  BY DEF Init
<1> QED
  BY <1>1, <1>2, <1>3, <1>4 DEF Init, TypeOK, SyncStates, UpMsg

LEMMA NextTypeOK == TypeOK /\ [Next]_vars => TypeOK'
<1> SUFFICES ASSUME TypeOK, [Next]_vars PROVE TypeOK'
  OBVIOUS
<1> USE BoundsAssumption
<1>1. ASSUME NEW t \in Tasks, CreateTask(t) PROVE TypeOK'
  <2>1. [rev |-> version + 1, on |-> TRUE] \in [rev : Versions, on : BOOLEAN]
    BY <1>1 DEF CreateTask, Change, TypeOK
  <2>2. down' \subseteq Packet
    BY <1>1, <2>1, ChangeType, SentType DEF CreateTask, TypeOK
  <2> QED
    BY <1>1, <2>1, <2>2, ChangeType DEF CreateTask, Change, TypeOK, agentVars
<1>2. ASSUME NEW t \in Tasks, UpdateTask(t) PROVE TypeOK'
  <2>1. [rev |-> version + 1, on |-> db[t].on] \in [rev : Versions, on : BOOLEAN]
    BY <1>2 DEF UpdateTask, Change, TypeOK
  <2> QED
    BY <1>2, <2>1, ChangeType DEF UpdateTask, Change, TypeOK, agentVars
<1>3. ASSUME NEW t \in Tasks, ToggleTask(t) PROVE TypeOK'
  <2>1. PICK on \in BOOLEAN : Change(t, [rev |-> db[t].rev, on |-> on]) /\ down' = down
    BY <1>3 DEF ToggleTask
  <2>2. [rev |-> db[t].rev, on |-> on] \in [rev : Versions, on : BOOLEAN]
    BY DEF TypeOK
  <2>3. held' = held /\ touched' = touched
    BY <1>3 DEF ToggleTask
  <2> QED
    BY <2>1, <2>2, <2>3, ChangeType DEF Change, TypeOK, agentVars
<1>4. ASSUME NEW t \in Tasks, DeleteTask(t) PROVE TypeOK'
  <2>1. NoTask \in [rev : Versions, on : BOOLEAN]
    BY DEF NoTask
  <2>2. down' \subseteq Packet
    BY <1>4, <2>1, ChangeType, SentType DEF DeleteTask, TypeOK
  <2>3. held' \in [Tasks -> Versions]
    BY <1>4 DEF DeleteTask, Forgotten, TypeOK
  <2> QED
    BY <1>4, <2>1, <2>2, <2>3, ChangeType DEF DeleteTask, Forgotten, Change, TypeOK, agentVars
<1>5. ASSUME NEW m \in down, Apply(m) PROVE TypeOK'
  <2>1. running' \in [Tasks -> Versions]
    BY <1>5 DEF Apply, TypeOK, Packet
  <2> QED
    BY <1>5, <2>1, StepType DEF Apply, TypeOK, serverVars
<1>6. ASSUME NEW m \in down, SetVersion(m) PROVE TypeOK'
  <2>1. agentVersion' \in Versions
    BY <1>6 DEF SetVersion, TypeOK, Packet
  <2> QED
    BY <1>6, <2>1, StepType DEF SetVersion, TypeOK, serverVars
<1>7. ASSUME NEW m \in down, SendTaskAck(m) PROVE TypeOK'
  <2>1. m.to \in Sessions /\ m.version \in Versions
    BY DEF TypeOK, Packet
  <2>2. up' \in [Sessions -> Seq(UpMsg)]
    BY <1>7, <2>1, SendType DEF SendTaskAck
  <2> QED
    BY <1>7, <2>2 DEF SendTaskAck, TypeOK, UpMsg, serverVars, agentVars
<1>8. ASSUME NEW s \in Sessions, OnAgentAuth(s) PROVE TypeOK'
  <2>1. up' \in [Sessions -> Seq(UpMsg)] /\ s \in alive
    BY <1>8, TakeType DEF OnAgentAuth, Take
  <2>2. Sent(s, SyncPacket(s, version, Enabled, 0)) \subseteq Packet
    <3>1. version \in Versions /\ 0 \in 0..MaxRetries
      BY DEF TypeOK
    <3>2. Reaches(s) => SyncPacket(s, version, Enabled, 0) \in Packet
      BY <3>1, SyncPacketType, EnabledType
    <3> QED
      BY <3>2, SentType
  <2>3. PendingAt(version) \in SyncStates
    BY DEF PendingAt, SyncStates, TypeOK
  <2>4. down' \subseteq Packet /\ sync' \in SyncStates /\ clean' \in BOOLEAN
    BY <1>8, <2>2, <2>3 DEF OnAgentAuth, TypeOK, SyncStates, Settles, Reaches
  <2>5. conn' \in 0..MaxSessions /\ newest' \in 0..MaxSessions /\ authed' \subseteq alive'
    BY <1>8, <2>1 DEF OnAgentAuth, TypeOK
  <2> QED
    BY <1>8, <2>1, <2>4, <2>5 DEF OnAgentAuth, TypeOK, UpMsg, SyncStates, agentVars
<1>9. ASSUME NEW s \in Sessions, OnAgentTaskAck(s) PROVE TypeOK'
  <2>1. up' \in [Sessions -> Seq(UpMsg)]
    BY <1>9, TakeType DEF OnAgentTaskAck
  <2>2. sync' \in SyncStates
    BY <1>9 DEF OnAgentTaskAck, AckedAt, TypeOK, SyncStates
  <2> QED
    BY <1>9, <2>1, <2>2 DEF OnAgentTaskAck, TypeOK, UpMsg, SyncStates, agentVars
<1>10. ASSUME NEW s \in Sessions, OnDisconnect(s) PROVE TypeOK'
  <2>1. up' \in [Sessions -> Seq(UpMsg)]
    BY <1>10, CloseType DEF OnDisconnect
  <2>2. sync' \in SyncStates /\ conn' \in 0..MaxSessions
    BY <1>10 DEF OnDisconnect, NoSync, TypeOK, SyncStates
  <2> QED
    BY <1>10, <2>1, <2>2 DEF OnDisconnect, TypeOK, UpMsg, SyncStates, agentVars
<1>11. CASE Connect
  <2>1. session + 1 \in Sessions /\ agentVersion \in Versions
    BY <1>11 DEF Connect, TypeOK
  <2>2. up' \in [Sessions -> Seq(UpMsg)]
    BY <1>11, <2>1, SendType DEF Connect
  <2>3. alive' \subseteq Sessions /\ authed' \subseteq alive' /\ session' \in 0..MaxSessions
    BY <1>11, <2>1 DEF Connect, TypeOK
  <2> QED
    BY <1>11, <2>2, <2>3 DEF Connect, TypeOK, UpMsg
<1>12. CASE Disconnect
  BY <1>12 DEF Disconnect, TypeOK, serverVars
<1>13. CASE AgentRestart
  <2>1. running' \in [Tasks -> Versions] /\ agentVersion' \in Versions
    BY <1>13 DEF AgentRestart, NotRunning
  <2>2. restarts' \in 0..MaxRestarts
    BY <1>13 DEF AgentRestart, TypeOK
  <2> QED
    BY <1>13, <2>1, <2>2 DEF AgentRestart, TypeOK, serverVars
<1>14. CASE RetrySync
  <2>1. CASE sync.retries < MaxRetries /\ conn # 0
    <3>1. sync.retries + 1 \in 0..MaxRetries /\ sync.version \in Versions
      BY <2>1 DEF TypeOK
    <3>2. sync' \in SyncStates
      BY <1>14, <2>1, <3>1 DEF RetrySync, Retried, TypeOK, SyncStates
    <3>3. down' \subseteq Packet
      BY <1>14, <2>1, <3>1, SyncPacketType, SentType, EnabledType DEF RetrySync
    <3>4. clean' \in BOOLEAN /\ held' \in [Tasks -> Versions]
      BY <1>14, <2>1, EnabledType DEF RetrySync, TypeOK, Settles, Reaches
    <3> QED
      BY <1>14, <3>2, <3>3, <3>4 DEF RetrySync, TypeOK, SyncStates, agentVars
  <2>2. CASE ~(sync.retries < MaxRetries /\ conn # 0)
    <3>1. sync' \in SyncStates
      BY <1>14, <2>2 DEF RetrySync, Desync, TypeOK, SyncStates
    <3> QED
      BY <1>14, <2>2, <3>1 DEF RetrySync, TypeOK, SyncStates, agentVars
  <2> QED
    BY <2>1, <2>2
<1>15. CASE ServerRestart
  <2>1. up' \in [Sessions -> Seq(UpMsg)]
    BY <1>15 DEF ServerRestart
  <2>2. restarts' \in 0..MaxRestarts /\ sync' \in SyncStates /\ conn' \in 0..MaxSessions
    BY <1>15 DEF ServerRestart, TypeOK, NoSync, SyncStates
  <2>3. held' \in [Tasks -> Versions]
    BY <1>15 DEF ServerRestart, NotRunning
  <2> QED
    BY <1>15, <2>1, <2>2, <2>3 DEF ServerRestart, TypeOK, SyncStates, UpMsg
<1>16. CASE UNCHANGED vars
  BY <1>16 DEF vars, serverVars, agentVars, TypeOK
<1>17. CASE RetryElsewhere
  <2>1. held' \in [Tasks -> Versions]
    BY <1>17 DEF RetryElsewhere, NotRunning
  <2> QED
    BY <1>17, <2>1 DEF RetryElsewhere, TypeOK, agentVars
<1> QED
  BY <1>1, <1>2, <1>3, <1>4, <1>5, <1>6, <1>7, <1>8, <1>9, <1>10, <1>11, <1>12,
     <1>13, <1>14, <1>15, <1>16, <1>17 DEF Next, PacketThread, ServerHandler

(* Every reachable state of the center and its agent is typed: a packet    *)
(* names tasks and versions there are, and no sync is retried more often   *)
(* than SYNC_MAX_RETRIES.                                                  *)
THEOREM TypeCorrect == Spec => []TypeOK
BY InitTypeOK, NextTypeOK, PTL DEF Spec

-----------------------------------------------------------------------------
(* A state of the synchronisation appears with the connection it is for    *)
(* and goes when the node is unregistered, whoever unregisters it.         *)

LEMMA NextSyncHasConnection ==
  TypeOK /\ SyncHasConnection /\ [Next]_vars => SyncHasConnection'
<1> SUFFICES ASSUME TypeOK, SyncHasConnection, [Next]_vars PROVE SyncHasConnection'
  OBVIOUS
<1> USE DEF SyncHasConnection
<1>1. ASSUME NEW t \in Tasks,
             CreateTask(t) \/ UpdateTask(t) \/ ToggleTask(t) \/ DeleteTask(t)
      PROVE  SyncHasConnection'
  BY <1>1 DEF CreateTask, UpdateTask, ToggleTask, DeleteTask, Change
<1>2. ASSUME NEW m \in down, PacketThread(m) PROVE SyncHasConnection'
  BY <1>2 DEF PacketThread, Apply, SetVersion, SendTaskAck, serverVars
<1>3. ASSUME NEW s \in Sessions, OnAgentAuth(s) PROVE SyncHasConnection'
  BY <1>3, BoundsAssumption DEF OnAgentAuth
<1>4. ASSUME NEW s \in Sessions, OnAgentTaskAck(s) PROVE SyncHasConnection'
  BY <1>4 DEF OnAgentTaskAck, AckedAt
<1>5. ASSUME NEW s \in Sessions, OnDisconnect(s) PROVE SyncHasConnection'
  BY <1>5 DEF OnDisconnect, NoSync
<1>6. CASE RetrySync
  BY <1>6 DEF RetrySync
<1>7. CASE ServerRestart
  BY <1>7 DEF ServerRestart, NoSync
<1>8. CASE Connect \/ Disconnect \/ AgentRestart \/ RetryElsewhere \/ UNCHANGED vars
  BY <1>8 DEF Connect, Disconnect, AgentRestart, RetryElsewhere, vars, serverVars
<1> QED
  BY <1>1, <1>2, <1>3, <1>4, <1>5, <1>6, <1>7, <1>8 DEF Next, ServerHandler

(* The retry checker always has a session to send to: the synchronisation  *)
(* state of a node (_sync_state) is that of a registered connection, with  *)
(* late ends of old sessions and restarts at any point.                    *)
THEOREM SyncIsConnected == Spec => []SyncHasConnection
<1>1. Init => SyncHasConnection
  BY DEF Init, SyncHasConnection, NoSync
<1> QED
  BY <1>1, TypeCorrect, NextSyncHasConnection, PTL DEF Spec

-----------------------------------------------------------------------------
(* The agent learns versions from packets only, and packets carry the      *)
(* version of the node or that of a pending sync: neither is ahead.        *)

CarriesKnown ==
  /\ \A m \in down : m.version <= version
  /\ sync.version <= version

VersionInv == TypeOK /\ AgentNeverAhead /\ CarriesKnown

LEMMA VersionsAreNumbers ==
  ASSUME TypeOK
  PROVE  /\ version \in Nat /\ agentVersion \in Nat /\ sync.version \in Nat
         /\ \A m \in down : m.version \in Nat
         /\ \A s \in Sessions : \A i \in 1..Len(up[s]) : up[s][i].version \in Nat
<1>1. up \in [Sessions -> Seq(UpMsg)]
  BY DEF TypeOK, UpMsg
<1>2. \A s \in Sessions : \A i \in 1..Len(up[s]) : up[s][i] \in UpMsg
  BY <1>1
<1>3. \A s \in Sessions : \A i \in 1..Len(up[s]) : up[s][i].version \in Nat
  BY <1>2, BoundsAssumption DEF UpMsg
<1>4. \A m \in down : m.version \in Nat
  BY BoundsAssumption DEF TypeOK, Packet
<1>5. version \in Versions /\ agentVersion \in Versions /\ sync.version \in Versions
  BY DEF TypeOK
<1> QED
  BY <1>3, <1>4, <1>5, BoundsAssumption

(* What the sessions carry stays known when the version only grows.        *)
UpKnown == \A s \in Sessions : \A i \in 1..Len(up[s]) : up[s][i].version <= version

LEMMA GrowKeepsKnown ==
  ASSUME VersionInv, up' = up, version' \in Nat, version <= version'
  PROVE  UpKnown'
BY VersionsAreNumbers DEF VersionInv, AgentNeverAhead, UpKnown

LEMMA SendKeepsKnown ==
  ASSUME VersionInv, version' = version, NEW s \in Sessions,
         NEW type \in {"auth", "ack"}, NEW v \in Versions, v <= version,
         up' = [up EXCEPT ![s] = Append(@, [type |-> type, version |-> v])]
  PROVE  UpKnown'
<1>1. up \in [Sessions -> Seq(UpMsg)]
  BY DEF VersionInv, TypeOK, UpMsg
<1>2. up'[s] = Append(up[s], [type |-> type, version |-> v])
  BY <1>1
<1>3. \A i \in 1..Len(up'[s]) :
        \/ i \in 1..Len(up[s]) /\ up'[s][i] = up[s][i]
        \/ up'[s][i] = [type |-> type, version |-> v]
  BY <1>1, <1>2
<1>4. \A i \in 1..Len(up'[s]) : up'[s][i].version <= version
  BY <1>3 DEF VersionInv, AgentNeverAhead
<1>5. \A u \in Sessions : u # s => up'[u] = up[u]
  BY <1>1
<1> QED
  BY <1>4, <1>5 DEF VersionInv, AgentNeverAhead, UpKnown

LEMMA TakeKeepsKnown ==
  ASSUME VersionInv, version' = version, NEW s \in Sessions, NEW type, Take(s, type)
  PROVE  UpKnown' /\ Head(up[s]).version <= version
<1>1. up \in [Sessions -> Seq(UpMsg)] /\ up[s] # << >>
  BY DEF VersionInv, TypeOK, UpMsg, Take
<1>2. up[s] \in Seq(UpMsg) /\ 1 \in 1..Len(up[s]) /\ Head(up[s]) = up[s][1]
  BY <1>1
<1>3. up'[s] = Tail(up[s]) /\ \A u \in Sessions : u # s => up'[u] = up[u]
  BY <1>1 DEF Take
<1>4. \A i \in 1..Len(up'[s]) : i + 1 \in 1..Len(up[s]) /\ up'[s][i] = up[s][i + 1]
  BY <1>2, <1>3
<1>5. \A i \in 1..Len(up'[s]) : up'[s][i].version <= version
  BY <1>4 DEF VersionInv, AgentNeverAhead
<1> QED
  BY <1>2, <1>3, <1>5 DEF VersionInv, AgentNeverAhead, UpKnown

LEMMA CloseKeepsKnown ==
  ASSUME VersionInv, version' = version, NEW s \in Sessions,
         up' = [up EXCEPT ![s] = << >>]
  PROVE  UpKnown'
<1>1. up \in [Sessions -> Seq(UpMsg)]
  BY DEF VersionInv, TypeOK, UpMsg
<1>2. \A u \in Sessions : up'[u] = IF u = s THEN << >> ELSE up[u]
  BY <1>1
<1> QED
  BY <1>2 DEF VersionInv, AgentNeverAhead, UpKnown

LEMMA NextVersionInv == VersionInv /\ [Next]_vars => VersionInv'
<1> SUFFICES ASSUME VersionInv, [Next]_vars
             PROVE  agentVersion' <= version' /\ UpKnown' /\ CarriesKnown'
  BY NextTypeOK DEF VersionInv, AgentNeverAhead, UpKnown
<1>0. TypeOK /\ TypeOK' /\ agentVersion <= version /\ UpKnown
  BY NextTypeOK DEF VersionInv, AgentNeverAhead, UpKnown
<1>n. version \in Nat /\ agentVersion \in Nat /\ sync.version \in Nat
  BY <1>0, VersionsAreNumbers
<1>m. \A m \in down : m.version \in Versions /\ m.version \in Nat /\ m.version <= version
  BY <1>0, VersionsAreNumbers DEF VersionInv, CarriesKnown, TypeOK, Packet
<1>p. sync.version <= version
  BY DEF VersionInv, CarriesKnown
<1>1. ASSUME NEW t \in Tasks, NEW task, Change(t, task),
             NEW type \in {"assign", "remove"},
             down' \in {down, Sent(conn, Notice(type, t))}
      PROVE  agentVersion' <= version' /\ UpKnown' /\ CarriesKnown'
  <2>1. version' = version + 1 /\ up' = up /\ sync' = sync /\ agentVersion' = agentVersion
    BY <1>1 DEF Change, agentVars
  <2>2. \A m \in down' : m \in down \/ m = Notice(type, t)
    BY <1>1 DEF Sent
  <2>3. Notice(type, t).version = version'
    BY DEF Notice
  <2>4. \A m \in down' : m.version <= version'
    BY <2>1, <2>2, <2>3, <1>n, <1>m
  <2> QED
    BY <2>1, <2>4, <1>n, <1>0, <1>p, GrowKeepsKnown DEF CarriesKnown
<1>2. ASSUME NEW t \in Tasks,
             CreateTask(t) \/ UpdateTask(t) \/ ToggleTask(t) \/ DeleteTask(t)
      PROVE  agentVersion' <= version' /\ UpKnown' /\ CarriesKnown'
  BY <1>1, <1>2 DEF CreateTask, UpdateTask, ToggleTask, DeleteTask
<1>3. ASSUME NEW m \in down, Apply(m)
      PROVE  agentVersion' <= version' /\ UpKnown' /\ CarriesKnown'
  <2>1. \A p \in down' : \E q \in down : p.version = q.version
    BY <1>3, <1>0 DEF Apply, Step, TypeOK, Packet
  <2> QED
    BY <1>3, <2>1, <1>0, <1>m, <1>p DEF Apply, serverVars, CarriesKnown, UpKnown
<1>4. ASSUME NEW m \in down, SetVersion(m)
      PROVE  agentVersion' <= version' /\ UpKnown' /\ CarriesKnown'
  <2>1. \A p \in down' : \E q \in down : p.version = q.version
    BY <1>4, <1>0 DEF SetVersion, Step, TypeOK, Packet
  <2> QED
    BY <1>4, <2>1, <1>0, <1>m, <1>p DEF SetVersion, serverVars, CarriesKnown, UpKnown
<1>5. ASSUME NEW m \in down, SendTaskAck(m)
      PROVE  agentVersion' <= version' /\ UpKnown' /\ CarriesKnown'
  <2>1. m.to \in Sessions
    BY <1>0 DEF TypeOK, Packet
  <2>2. UpKnown'
    BY <1>5, <2>1, <1>m, SendKeepsKnown DEF SendTaskAck, serverVars
  <2> QED
    BY <1>5, <2>2, <1>0, <1>m, <1>p DEF SendTaskAck, serverVars, agentVars, CarriesKnown
<1>6. ASSUME NEW s \in Sessions, OnAgentAuth(s)
      PROVE  agentVersion' <= version' /\ UpKnown' /\ CarriesKnown'
  <2>1. UpKnown'
    BY <1>6, TakeKeepsKnown DEF OnAgentAuth
  <2>2. \A m \in down' : m \in down \/ m = SyncPacket(s, version, Enabled, 0)
    BY <1>6 DEF OnAgentAuth, Sent
  <2>3. SyncPacket(s, version, Enabled, 0).version = version
    BY DEF SyncPacket
  <2>4. sync'.version \in {version, sync.version}
    BY <1>6 DEF OnAgentAuth, PendingAt
  <2> QED
    BY <1>6, <2>1, <2>2, <2>3, <2>4, <1>0, <1>n, <1>m, <1>p
       DEF OnAgentAuth, agentVars, CarriesKnown
<1>7. ASSUME NEW s \in Sessions, OnAgentTaskAck(s)
      PROVE  agentVersion' <= version' /\ UpKnown' /\ CarriesKnown'
  <2>1. UpKnown'
    BY <1>7, TakeKeepsKnown DEF OnAgentTaskAck
  <2>2. sync'.version = sync.version
    BY <1>7, <1>0 DEF OnAgentTaskAck, AckedAt, TypeOK
  <2> QED
    BY <1>7, <2>1, <2>2, <1>0, <1>m, <1>p DEF OnAgentTaskAck, agentVars, CarriesKnown
<1>8. ASSUME NEW s \in Sessions, OnDisconnect(s)
      PROVE  agentVersion' <= version' /\ UpKnown' /\ CarriesKnown'
  <2>1. UpKnown'
    BY <1>8, CloseKeepsKnown DEF OnDisconnect
  <2>2. sync'.version \in {0, sync.version}
    BY <1>8 DEF OnDisconnect, NoSync
  <2> QED
    BY <1>8, <2>1, <2>2, <1>0, <1>n, <1>m, <1>p DEF OnDisconnect, agentVars, CarriesKnown
<1>9. CASE Connect
  <2>1. session + 1 \in Sessions /\ agentVersion \in Versions
    BY <1>9, <1>0, BoundsAssumption DEF Connect, TypeOK
  <2>2. UpKnown'
    BY <1>9, <2>1, <1>0, SendKeepsKnown DEF Connect
  <2> QED
    BY <1>9, <2>2, <1>0, <1>m, <1>p DEF Connect, CarriesKnown
<1>10. CASE Disconnect \/ AgentRestart
  BY <1>10, <1>0, <1>n, <1>p DEF Disconnect, AgentRestart, serverVars, CarriesKnown, UpKnown
<1>11. CASE RetrySync
  <2>1. sync'.version = sync.version
    BY <1>11, <1>0 DEF RetrySync, Retried, Desync, TypeOK
  <2>2. \A m \in down' : m \in down \/ m = SyncPacket(conn, sync.version, Loaded, sync.retries + 1)
    BY <1>11 DEF RetrySync, Sent
  <2>3. SyncPacket(conn, sync.version, Loaded, sync.retries + 1).version = sync.version
    BY DEF SyncPacket
  <2> QED
    BY <1>11, <2>1, <2>2, <2>3, <1>0, <1>m, <1>p DEF RetrySync, agentVars, CarriesKnown, UpKnown
<1>12. CASE ServerRestart
  <2>1. UpKnown'
    BY <1>12 DEF ServerRestart, UpKnown
  <2> QED
    BY <1>12, <2>1, <1>0, <1>n DEF ServerRestart, NoSync, CarriesKnown
<1>13. CASE UNCHANGED vars
  BY <1>13, <1>0, <1>m, <1>p DEF vars, serverVars, agentVars, CarriesKnown, UpKnown
<1>14. CASE RetryElsewhere
  BY <1>14, <1>0, <1>m, <1>p DEF RetryElsewhere, agentVars, CarriesKnown, UpKnown
<1> QED
  BY <1>2, <1>3, <1>4, <1>5, <1>6, <1>7, <1>8, <1>9, <1>10, <1>11, <1>12, <1>13, <1>14
     DEF Next, PacketThread, ServerHandler

(* No agent reports a version above config_version, whatever is lost,      *)
(* retried late or overtaken: the branch of on_agent_auth for an agent     *)
(* that is ahead is never taken.                                           *)
THEOREM AgentIsBehind == Spec => []AgentNeverAhead
<1>1. Init => VersionInv
  <2> SUFFICES ASSUME Init PROVE VersionInv
    OBVIOUS
  <2>1. AgentNeverAhead /\ CarriesKnown
    BY DEF Init, AgentNeverAhead, CarriesKnown, NoSync
  <2> QED
    BY <2>1, InitTypeOK DEF VersionInv
<1>2. VersionInv => AgentNeverAhead
  BY DEF VersionInv
<1> QED
  BY <1>1, <1>2, NextVersionInv, PTL DEF Spec

-----------------------------------------------------------------------------
(* What the retry checker holds is what the database has, as long as no    *)
(* task was updated under it, so its retries carry the tasks of the center. *)

HeldInv == ~touched => \A t \in Tasks : held[t] \in {0, db[t].rev}

LEMMA LoadedIsEnabled ==
  ASSUME TypeOK, HeldInv, ~touched
  PROVE  Loaded = Enabled
<1>1. \A t \in Tasks : held[t] \in {0, db[t].rev}
  BY DEF HeldInv
<1>2. \A t \in Tasks : Enabled[t] # 0 => Enabled[t] = db[t].rev
  BY DEF Enabled, Revision
<1>3. \A t \in Tasks : Loaded[t] = Enabled[t]
  BY <1>1, <1>2 DEF Loaded
<1> QED
  BY <1>3 DEF Loaded, Enabled

LEMMA NextHeldInv == TypeOK /\ HeldInv /\ [Next]_vars => HeldInv'
<1> SUFFICES ASSUME TypeOK, HeldInv, [Next]_vars PROVE HeldInv'
  OBVIOUS
<1>1. ASSUME NEW t \in Tasks, CreateTask(t) \/ ToggleTask(t) PROVE HeldInv'
  <2>1. PICK task : Change(t, task) /\ (db[t].rev = 0 \/ task.rev = db[t].rev)
    <3>1. CASE CreateTask(t)
      <4>1. db[t].rev = 0
        BY <3>1 DEF CreateTask, NoTask
      <4> QED
        BY <3>1, <4>1 DEF CreateTask
    <3>2. CASE ToggleTask(t)
      <4>1. PICK on \in BOOLEAN : Change(t, [rev |-> db[t].rev, on |-> on])
        BY <3>2 DEF ToggleTask
      <4>2. [rev |-> db[t].rev, on |-> on].rev = db[t].rev
        OBVIOUS
      <4> QED
        BY <4>1, <4>2
    <3> QED
      BY <1>1, <3>1, <3>2
  <2>2. held' = held /\ touched' = touched
    BY <1>1 DEF CreateTask, ToggleTask
  <2>3. db' = [db EXCEPT ![t] = task]
    BY <2>1 DEF Change
  <2> SUFFICES ASSUME ~touched, NEW u \in Tasks PROVE held[u] \in {0, db'[u].rev}
    BY <2>2 DEF HeldInv
  <2>4. held[u] \in {0, db[u].rev}
    BY DEF HeldInv
  <2>5. CASE u = t
    BY <2>1, <2>3, <2>4, <2>5 DEF TypeOK
  <2>6. CASE u # t
    BY <2>3, <2>4, <2>6 DEF TypeOK
  <2> QED
    BY <2>5, <2>6
<1>2. ASSUME NEW t \in Tasks, UpdateTask(t) PROVE HeldInv'
  <2> SUFFICES ASSUME ~touched', NEW u \in Tasks PROVE held'[u] \in {0, db'[u].rev}
    BY DEF HeldInv
  <2>1. ~touched /\ held[t] = 0 /\ held' = held
    BY <1>2 DEF UpdateTask, TypeOK
  <2>2. u # t => db'[u] = db[u]
    BY <1>2 DEF UpdateTask, Change, TypeOK
  <2> QED
    BY <2>1, <2>2 DEF HeldInv
<1>3. ASSUME NEW t \in Tasks, DeleteTask(t) PROVE HeldInv'
  <2> SUFFICES ASSUME ~touched, NEW u \in Tasks PROVE held'[u] \in {0, db'[u].rev}
    BY <1>3 DEF DeleteTask, Forgotten, HeldInv
  <2>1. held'[u] = IF u = t THEN 0 ELSE held[u]
    BY <1>3 DEF DeleteTask, Forgotten, TypeOK
  <2>2. u # t => db'[u] = db[u]
    BY <1>3 DEF DeleteTask, Change, TypeOK
  <2> QED
    BY <2>1, <2>2 DEF HeldInv
<1>4. CASE RetrySync
  <2>1. db' = db /\ touched' = touched /\ held' \in {held, Loaded}
    BY <1>4 DEF RetrySync
  <2>2. ~touched => Loaded = Enabled
    BY LoadedIsEnabled
  <2>3. \A t \in Tasks : Enabled[t] \in {0, db[t].rev}
    BY DEF Enabled, Revision
  <2> QED
    BY <2>1, <2>2, <2>3 DEF HeldInv
<1>5. CASE RetryElsewhere \/ ServerRestart
  BY <1>5 DEF RetryElsewhere, ServerRestart, NotRunning, HeldInv
<1>6. CASE UNCHANGED <<db, held, touched>>
  BY <1>6 DEF HeldInv
<1>7. ASSUME NEW m \in down, PacketThread(m) PROVE UNCHANGED <<db, held, touched>>
  BY <1>7 DEF PacketThread, Apply, SetVersion, SendTaskAck, serverVars
<1>8. ASSUME NEW s \in Sessions, ServerHandler(s) PROVE UNCHANGED <<db, held, touched>>
  BY <1>8 DEF ServerHandler, OnAgentAuth, OnAgentTaskAck, OnDisconnect
<1>9. CASE Connect \/ Disconnect \/ AgentRestart \/ UNCHANGED vars
  BY <1>6, <1>9 DEF Connect, Disconnect, AgentRestart, vars, serverVars
<1> QED
  BY <1>1, <1>2, <1>3, <1>4, <1>5, <1>6, <1>7, <1>8, <1>9 DEF Next

-----------------------------------------------------------------------------
(* While no task has changed since a full sync was sent on its own, nor a  *)
(* retry was sent after a touch, all that is on its way is a full sync     *)
(* with the tasks of the center, and either the agent runs them already or *)
(* a packet has yet to be applied.                                         *)

CleanInv ==
  clean => /\ \A m \in down : m.about = Tasks /\ m.tasks = Enabled
           /\ running = Enabled \/ \E m \in down : m.step = "apply"

LEMMA SyncPacketAbout ==
  ASSUME NEW s, NEW v, NEW tasks, NEW nth
  PROVE  /\ SyncPacket(s, v, tasks, nth).about = Tasks
         /\ SyncPacket(s, v, tasks, nth).tasks = tasks
         /\ SyncPacket(s, v, tasks, nth).step = "apply"
BY DEF SyncPacket

LEMMA SendFullSync ==
  ASSUME CleanInv, NEW s, NEW v, NEW tasks, NEW nth, db' = db, running' = running,
         down' = Sent(s, SyncPacket(s, v, tasks, nth)),
         clean' => clean \/ Settles(s), clean' /\ Reaches(s) => tasks = Enabled
  PROVE  CleanInv'
<1>1. Enabled' = Enabled
  BY DEF Enabled
<1>2. CASE Reaches(s)
  <2>1. down' = down \cup {SyncPacket(s, v, tasks, nth)}
    BY <1>2 DEF Sent
  <2>2. clean' => \A m \in down : m.about = Tasks /\ m.tasks = Enabled
    BY DEF CleanInv, Settles
  <2> QED
    BY <1>1, <1>2, <2>1, <2>2, SyncPacketAbout DEF CleanInv
<1>3. CASE ~Reaches(s)
  BY <1>1, <1>3 DEF Sent, Settles, CleanInv
<1> QED
  BY <1>2, <1>3

LEMMA NextCleanInv == TypeOK /\ HeldInv /\ CleanInv /\ [Next]_vars => CleanInv'
<1> SUFFICES ASSUME TypeOK, HeldInv, CleanInv, [Next]_vars PROVE CleanInv'
  OBVIOUS
<1>1. ASSUME NEW t \in Tasks,
             CreateTask(t) \/ UpdateTask(t) \/ ToggleTask(t) \/ DeleteTask(t)
      PROVE  CleanInv'
  BY <1>1 DEF CreateTask, UpdateTask, ToggleTask, DeleteTask, Change, CleanInv
<1>2. ASSUME NEW m \in down, Apply(m) PROVE CleanInv'
  <2> SUFFICES ASSUME clean
               PROVE  /\ \A p \in down' : p.about = Tasks /\ p.tasks = Enabled'
                      /\ running' = Enabled'
    BY <1>2 DEF Apply, CleanInv
  <2>1. Enabled' = Enabled
    BY <1>2 DEF Apply, Enabled, serverVars
  <2>2. \A p \in down : p.about = Tasks /\ p.tasks = Enabled
    BY DEF CleanInv
  <2>3. [m EXCEPT !.step = "version"].about = m.about
        /\ [m EXCEPT !.step = "version"].tasks = m.tasks
    BY DEF TypeOK, Packet
  <2>4. running' = Enabled
    BY <1>2, <2>2 DEF Apply, Enabled
  <2> QED
    BY <1>2, <2>1, <2>2, <2>3, <2>4 DEF Apply, Step
<1>3. ASSUME NEW m \in down, SetVersion(m) PROVE CleanInv'
  <2>1. Enabled' = Enabled
    BY <1>3 DEF SetVersion, Enabled, serverVars
  <2>2. [m EXCEPT !.step = "ack"].about = m.about
        /\ [m EXCEPT !.step = "ack"].tasks = m.tasks
    BY DEF TypeOK, Packet
  <2> QED
    BY <1>3, <2>1, <2>2 DEF SetVersion, Step, CleanInv
<1>4. ASSUME NEW m \in down, SendTaskAck(m) PROVE CleanInv'
  <2>1. Enabled' = Enabled
    BY <1>4 DEF SendTaskAck, Enabled, serverVars
  <2> QED
    BY <1>4, <2>1 DEF SendTaskAck, CleanInv, agentVars
<1>5. ASSUME NEW s \in Sessions, OnAgentAuth(s) PROVE CleanInv'
  <2>1. CASE Head(up[s]).version # version \/ sync.state = "desync"
    BY <1>5, <2>1, SendFullSync DEF OnAgentAuth, agentVars
  <2>2. CASE ~(Head(up[s]).version # version \/ sync.state = "desync")
    BY <1>5, <2>2 DEF OnAgentAuth, CleanInv, Enabled, agentVars
  <2> QED
    BY <2>1, <2>2
<1>6. ASSUME NEW s \in Sessions, OnAgentTaskAck(s) \/ OnDisconnect(s) PROVE CleanInv'
  BY <1>6 DEF OnAgentTaskAck, OnDisconnect, CleanInv, Enabled, agentVars
<1>7. CASE Connect
  BY <1>7 DEF Connect, CleanInv, Enabled
<1>8. CASE Disconnect \/ AgentRestart \/ ServerRestart
  BY <1>8 DEF Disconnect, AgentRestart, ServerRestart, CleanInv
<1>9. CASE RetrySync
  <2>1. CASE sync.retries < MaxRetries /\ conn # 0
    <3>1. clean' => clean \/ Settles(conn)
      BY <1>9, <2>1 DEF RetrySync
    <3>2. clean' /\ Reaches(conn) => Loaded = Enabled
      BY <1>9, <2>1, LoadedIsEnabled DEF RetrySync
    <3> QED
      BY <1>9, <2>1, <3>1, <3>2, SendFullSync DEF RetrySync, agentVars
  <2>2. CASE ~(sync.retries < MaxRetries /\ conn # 0)
    BY <1>9, <2>2 DEF RetrySync, CleanInv, Enabled, agentVars
  <2> QED
    BY <2>1, <2>2
<1>10. CASE UNCHANGED vars
  BY <1>10 DEF vars, serverVars, agentVars, CleanInv, Enabled
<1>11. CASE RetryElsewhere
  BY <1>11 DEF RetryElsewhere, agentVars, CleanInv, Enabled
<1> QED
  BY <1>1, <1>2, <1>3, <1>4, <1>5, <1>6, <1>7, <1>8, <1>9, <1>10, <1>11
     DEF Next, PacketThread, ServerHandler

(* A full sync that overlaps with no change of a task settles the matter:  *)
(* once nothing is on its way, the agent runs the tasks of the center, in  *)
(* whatever order the packets of the session were handled, with lost       *)
(* packets, reconnections and every retry that comes before an update of a *)
(* task which the retry checker keeps from an earlier retry.               *)
THEOREM SyncConverges == Spec => []CleanSyncConverges
<1>1. Init => HeldInv /\ CleanInv
  BY DEF Init, HeldInv, CleanInv, NotRunning
<1>2. CleanInv => CleanSyncConverges
  BY DEF CleanInv, CleanSyncConverges, Quiet
<1> QED
  BY <1>1, <1>2, TypeCorrect, NextHeldInv, NextCleanInv, PTL DEF Spec
=============================================================================
