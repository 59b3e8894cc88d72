--------------------------- MODULE ResultDelivery ---------------------------
(***************************************************************************)
(* The path of a probe result from the agent to the time-series store and  *)
(* of its acknowledgement back: agent/ws_client.py, agent/local_cache.py,  *)
(* the /agent namespace of server/ws/agent_handler.py and the write side   *)
(* of server/services/influx_service.py.                                   *)
(*                                                                         *)
(* Agent side: every probe runs in a thread of its own, and the Socket.IO  *)
(* client runs the handler of every incoming packet in a thread of its     *)
(* own, so the steps of send_probe_result, of on_auth_result and of the    *)
(* acknowledgement handlers interleave.  Only on_disconnect runs inside    *)
(* the read loop, before any reconnection.                                 *)
(* Server side: eventlet without monkey patching; a handler never yields   *)
(* (SQLite, the InfluxDB client and bcrypt block the only OS thread), so a *)
(* handler is one step and packets of a session are handled in order.      *)
(*                                                                         *)
(* A session is one Socket.IO connection, numbered in the order the agent  *)
(* opens them.  Packets of a session arrive in order while it lives; what  *)
(* is in flight when it dies may be lost or, at the server, handled late.  *)
(***************************************************************************)
EXTENDS Naturals, FiniteSets, Sequences

CONSTANTS
  Results,      \* the results the probes of one agent produce (result_id)
  Tasks,        \* the probe tasks they belong to
  TaskOf,       \* [Results -> Tasks]
  SamePoint(_, _), \* two results of one series that fall in the same second
  ChunkSize,    \* results per agent_probe_batch
  MaxSessions,  \* bound: connections the agent opens
  MaxDrops,     \* bound: connections that break by themselves
  MaxReboots,   \* bound: restarts of the agent process
  MaxForgets,   \* bound: dedup entries evicted, and server restarts
  MaxBadWrites, \* bound: writes to InfluxDB that raise
  MaxRenames,   \* bound: changes of the node name, a tag of every point
  MaxRemoved    \* bound: tasks deleted

ASSUME TaskOfAssumption == TaskOf \in [Results -> Tasks]
ASSUME SamePointAssumption ==
  \A p, q, r \in Results :
    /\ SamePoint(q, r) \in BOOLEAN
    /\ SamePoint(r, r)
    /\ SamePoint(q, r) => SamePoint(r, q)
    /\ SamePoint(p, q) /\ SamePoint(q, r) => SamePoint(p, r)
ASSUME BoundsAssumption ==
  /\ ChunkSize \in Nat \ {0}
  /\ MaxSessions \in Nat /\ MaxDrops \in Nat /\ MaxReboots \in Nat
  /\ MaxForgets \in Nat /\ MaxBadWrites \in Nat /\ MaxRenames \in Nat
  /\ MaxRemoved \in Nat
ASSUME ResultsAssumption == IsFiniteSet(Results)

Sessions == 1..MaxSessions
Names == 0..MaxRenames

VARIABLES
  (* the agent *)
  probe,         \* [Results -> where send_probe_result of it stands]
  cache,         \* local_results: [Results -> ack_status, or "none"]
  connected,     \* WSClient.connected
  authenticated, \* WSClient.authenticated
  session,       \* the last session opened; 0 before the first
  open,          \* the Socket.IO client still holds that session
  backfill,      \* [Sessions -> where the _backfill thread of it stands]
  batch,         \* [Sessions -> results that thread has read, not yet sent]
  (* the connection *)
  up,            \* [Sessions -> packets on their way to the server]
  down,          \* packets on their way to, or in a handler of, the agent
  (* the server *)
  alive,         \* sessions the server has not seen end
  authed,        \* _agent_sessions: the sessions that authenticated
  removed,       \* tasks that were deleted
  seen,          \* _dedup_cache
  points,        \* bucket_raw: <<result, node name when written>>
  nodeName,      \* the current name of the node
  (* what happened, for the properties and the bounds *)
  fate,          \* what the center made of a result it handled
  refused,       \* results whose last write in a batch raised
  drops, reboots, forgets, badWrites

agentVars  == <<probe, cache, connected, authenticated, session, open,
                backfill, batch>>
serverVars == <<alive, authed, removed, seen, points, nodeName, fate, refused>>
bounds     == <<drops, reboots, forgets, badWrites>>
vars == <<agentVars, up, down, serverVars, bounds>>

-----------------------------------------------------------------------------
ProbeSteps == {"due", "check", "emit", "mark", "done"}
Rows       == {"none", "pending", "sent", "acked"}
Backfills  == {"none", "read", "send", "done"}
Fates      == {"none", "lost", "discarded", "stored"}

UpMsg   == [type : {"auth", "result", "batch"}, ids : SUBSET Results]
DownMsg == [type : {"connect", "auth_result", "ack"}, to : Sessions,
            ids : SUBSET Results]

TypeOK ==
  /\ probe \in [Results -> ProbeSteps]
  /\ cache \in [Results -> Rows]
  /\ connected \in BOOLEAN /\ authenticated \in BOOLEAN /\ open \in BOOLEAN
  /\ session \in 0..MaxSessions
  /\ open => session # 0
  /\ backfill \in [Sessions -> Backfills]
  /\ batch \in [Sessions -> SUBSET Results]
  /\ up \in [Sessions -> Seq(UpMsg)]
  /\ down \subseteq DownMsg
  /\ alive \subseteq Sessions /\ authed \subseteq alive
  /\ removed \subseteq Tasks
  /\ seen \subseteq Results
  /\ points \subseteq Results \X Names
  /\ nodeName \in Names
  /\ fate \in [Results -> Fates]
  /\ refused \subseteq Results
  /\ drops \in 0..MaxDrops /\ reboots \in 0..MaxReboots
  /\ forgets \in 0..MaxForgets /\ badWrites \in 0..MaxBadWrites

Init ==
  /\ probe = [r \in Results |-> "due"]
  /\ cache = [r \in Results |-> "none"]
  /\ connected = FALSE /\ authenticated = FALSE /\ open = FALSE
  /\ session = 0
  /\ backfill = [s \in Sessions |-> "none"]
  /\ batch = [s \in Sessions |-> {}]
  /\ up = [s \in Sessions |-> << >>]
  /\ down = {}
  /\ alive = {} /\ authed = {} /\ removed = {} /\ seen = {}
  /\ points = {}
  /\ nodeName = 0
  /\ fate = [r \in Results |-> "none"]
  /\ refused = {}
  /\ drops = 0 /\ reboots = 0 /\ forgets = 0 /\ badWrites = 0

-----------------------------------------------------------------------------
(* The local cache.                                                        *)

(* INSERT OR REPLACE of a row that is pending.                             *)
Stored(r) == [cache EXCEPT ![r] = "pending"]

(* UPDATE local_results SET ack_status = status WHERE result_id IN ids: a  *)
(* row that is not there stays away, and the old status does not matter.   *)
SetStatus(ids, status) ==
  [r \in Results |->
     IF r \in ids /\ cache[r] # "none" THEN status ELSE cache[r]]

(* Mutant of Unacked: the query forgets the rows that were sent.           *)
UnackedPendingOnly == {r \in Results : cache[r] = "pending"}
Unacked == {r \in Results : cache[r] \in {"pending", "sent"}}

(* sio.emit: the packet joins the session the client holds.  It raises     *)
(* when there is none, which every caller tells apart by "open".           *)
Emitted(type, ids) ==
  [up EXCEPT ![session] = Append(@, [type |-> type, ids |-> ids])]

(* A reply of the server reaches the agent only on the session it holds.   *)
Reply(s, type, ids) ==
  IF open /\ s = session
  THEN down \cup {[type |-> type, to |-> s, ids |-> ids]}
  ELSE down

-----------------------------------------------------------------------------
(* send_probe_result, run by the thread of a probe: cache first, then look *)
(* at the connection, emit, and only then mark the row as sent.            *)

StoreResult(r) ==
  /\ probe[r] = "due"
  /\ cache' = Stored(r)
  /\ probe' = [probe EXCEPT ![r] = "check"]
  /\ UNCHANGED <<connected, authenticated, session, open, backfill, batch,
                 up, down, serverVars, bounds>>

CheckLink(r) ==
  /\ probe[r] = "check"
  /\ probe' = [probe EXCEPT ![r] =
                 IF connected /\ authenticated THEN "emit" ELSE "done"]
  /\ UNCHANGED <<cache, connected, authenticated, session, open, backfill,
                 batch, up, down, serverVars, bounds>>

EmitResult(r) ==
  /\ probe[r] = "emit"
  /\ \/ open /\ up' = Emitted("result", {r})
             /\ probe' = [probe EXCEPT ![r] = "mark"]
     \/ ~open /\ probe' = [probe EXCEPT ![r] = "done"]
              /\ UNCHANGED up
  /\ UNCHANGED <<cache, connected, authenticated, session, open, backfill,
                 batch, down, serverVars, bounds>>

MarkSent(r) ==
  /\ probe[r] = "mark"
  /\ cache' = SetStatus({r}, "sent")
  /\ probe' = [probe EXCEPT ![r] = "done"]
  /\ UNCHANGED <<connected, authenticated, session, open, backfill, batch,
                 up, down, serverVars, bounds>>

(* Mutant of CleanupOldAcked: the age is looked at, the status is not.      *)
CleanupOld ==
  /\ \E old \in SUBSET {r \in Results : cache[r] # "pending" /\ probe[r] = "done"} :
       /\ old # {}
       /\ cache' = SetStatus(old, "none")
  /\ UNCHANGED <<probe, connected, authenticated, session, open, backfill,
                 batch, up, down, serverVars, bounds>>

(* cleanup_old_acked: rows acknowledged more than three days ago, so long  *)
(* after the thread that sent them ended.                                  *)
CleanupOldAcked ==
  /\ \E old \in SUBSET {r \in Results : cache[r] = "acked" /\ probe[r] = "done"} :
       /\ old # {}
       /\ cache' = SetStatus(old, "none")
  /\ UNCHANGED <<probe, connected, authenticated, session, open, backfill,
                 batch, up, down, serverVars, bounds>>

-----------------------------------------------------------------------------
(* The agent's end of the connection.                                      *)

Connect ==
  /\ ~open /\ session < MaxSessions
  /\ session' = session + 1
  /\ open' = TRUE
  /\ alive' = alive \cup {session + 1}
  /\ down' = down \cup {[type |-> "connect", to |-> session + 1, ids |-> {}]}
  /\ UNCHANGED <<probe, cache, connected, authenticated, backfill, batch, up,
                 authed, removed, seen, points, nodeName, fate, refused,
                 bounds>>

(* The connection breaks, or the client notices that the server ended it.  *)
Disconnect ==
  /\ open
  /\ \/ session \notin alive /\ UNCHANGED drops
     \/ drops < MaxDrops /\ drops' = drops + 1
  /\ open' = FALSE /\ connected' = FALSE /\ authenticated' = FALSE
  /\ UNCHANGED <<probe, cache, session, backfill, batch, up, down, serverVars,
                 reboots, forgets, badWrites>>

(* _authenticate: its emit raises when the session is gone already.        *)
Authenticate == up' = IF open THEN Emitted("auth", {}) ELSE up

OnConnect(m) ==
  /\ m.type = "connect"
  /\ down' = down \ {m}
  /\ connected' = TRUE
  /\ Authenticate
  /\ UNCHANGED <<probe, cache, authenticated, session, open, backfill, batch,
                 serverVars, bounds>>

OnAuthResult(m) ==
  /\ m.type = "auth_result"
  /\ down' = down \ {m}
  /\ authenticated' = TRUE
  /\ backfill' = [backfill EXCEPT ![m.to] = "read"]
  /\ UNCHANGED <<probe, cache, connected, session, open, batch, up,
                 serverVars, bounds>>

(* _backfill reads the unacknowledged rows once ...                        *)
BackfillRead(s) ==
  /\ backfill[s] = "read"
  /\ batch' = [batch EXCEPT ![s] = Unacked]
  /\ backfill' = [backfill EXCEPT ![s] =
                    IF Unacked = {} THEN "done" ELSE "send"]
  /\ UNCHANGED <<probe, cache, connected, authenticated, session, open, up,
                 down, serverVars, bounds>>

(* Mutant of BackfillSend: the loop over the chunks ends after the first.  *)
BackfillSendFirst(s) ==
  /\ backfill[s] = "send" /\ open
  /\ \E chunk \in SUBSET batch[s] :
       /\ Cardinality(chunk) = ChunkSize
       /\ up' = Emitted("batch", chunk)
  /\ batch' = [batch EXCEPT ![s] = {}]
  /\ backfill' = [backfill EXCEPT ![s] = "done"]
  /\ UNCHANGED <<probe, cache, connected, authenticated, session, open, down,
                 serverVars, bounds>>

(* ... and sends what it read in chunks; emit raises once the session is   *)
(* gone, which ends the thread.                                            *)
BackfillSend(s) ==
  /\ backfill[s] = "send"
  /\ \/ /\ open
        /\ \E chunk \in SUBSET batch[s] :
             /\ \/ Cardinality(chunk) = ChunkSize
                \/ chunk = batch[s] /\ Cardinality(chunk) < ChunkSize
             /\ up' = Emitted("batch", chunk)
             /\ batch' = [batch EXCEPT ![s] = @ \ chunk]
             /\ backfill' = [backfill EXCEPT ![s] =
                               IF batch[s] = chunk THEN "done" ELSE "send"]
     \/ /\ ~open
        /\ batch' = [batch EXCEPT ![s] = {}]
        /\ backfill' = [backfill EXCEPT ![s] = "done"]
        /\ UNCHANGED up
  /\ UNCHANGED <<probe, cache, connected, authenticated, session, open, down,
                 serverVars, bounds>>

(* on_result_ack and on_batch_ack.                                         *)
OnAck(m) ==
  /\ m.type = "ack"
  /\ down' = down \ {m}
  /\ cache' = SetStatus(m.ids, "acked")
  /\ UNCHANGED <<probe, connected, authenticated, session, open, backfill,
                 batch, up, serverVars, bounds>>

(* A packet that had not reached the agent when its session ended.         *)
LosePacket(m) ==
  /\ ~(open /\ m.to = session)
  /\ down' = down \ {m}
  /\ UNCHANGED <<agentVars, up, serverVars, bounds>>

(* The agent process ends and starts again: only the SQLite file stays.    *)
Reboot ==
  /\ reboots < MaxReboots /\ reboots' = reboots + 1
  /\ probe' = [r \in Results |-> IF probe[r] = "due" THEN "due" ELSE "done"]
  /\ connected' = FALSE /\ authenticated' = FALSE /\ open' = FALSE
  /\ backfill' = [s \in Sessions |->
                    IF backfill[s] = "none" THEN "none" ELSE "done"]
  /\ batch' = [s \in Sessions |-> {}]
  /\ down' = {}
  /\ UNCHANGED <<cache, session, up, serverVars, drops, forgets, badWrites>>

-----------------------------------------------------------------------------
(* The server.  Every handler takes the next packet of a session.          *)

Packet(s) == Head(up[s])
Take(s) ==
  /\ s \in alive /\ up[s] # << >>
  /\ up' = [up EXCEPT ![s] = Tail(@)]

OnAgentAuth(s) ==
  /\ Take(s) /\ Packet(s).type = "auth"
  /\ authed' = authed \cup {s}
  /\ down' = Reply(s, "auth_result", {})
  /\ UNCHANGED <<agentVars, alive, removed, seen, points, nodeName, fate,
                 refused, bounds>>

(* A result or batch on a session that never authenticated.                *)
IgnorePacket(s) ==
  /\ Take(s) /\ Packet(s).type # "auth" /\ s \notin authed
  /\ UNCHANGED <<agentVars, down, serverVars, bounds>>

Orphans(ids) == {r \in ids : TaskOf[r] \in removed}
FreshUnchecked(ids) == ids \ Orphans(ids)  \* mutant of Fresh: no dedup check
Fresh(ids)   == ids \ (Orphans(ids) \cup seen)

(* write_probe_result of the results in written: a point with the same     *)
(* tags and second is overwritten, so of several such results one stays.   *)
Write(written) ==
  \E kept \in SUBSET written :
    /\ \A r \in written : \E q \in kept : SamePoint(r, q)
    /\ \A q, r \in kept : SamePoint(q, r) => q = r
    /\ points' = {x \in points : x[2] = nodeName =>
                                   \A q \in kept : ~SamePoint(x[1], q)}
                   \cup (kept \X {nodeName})

(* Mutant of Ingest: the points of the second are deleted before the write, *)
(* which may raise.                                                        *)
IngestDeleting(ids, raised, unsure, lost) ==
  LET written == (Fresh(ids) \ raised) \cup unsure
      Replaced(x) == x[2] = nodeName /\ \E r \in Fresh(ids) : SamePoint(x[1], r) IN
  /\ badWrites' = badWrites + Cardinality(raised)
  /\ badWrites' <= MaxBadWrites
  /\ seen' = seen \cup (Fresh(ids) \ raised)
  /\ points' = {x \in points : ~Replaced(x)} \cup (written \X {nodeName})
  /\ fate' = [r \in Results |->
                IF r \in written \/ fate[r] = "stored" THEN "stored"
                ELSE IF r \in Orphans(ids) THEN "discarded"
                ELSE IF r \in lost THEN "lost" ELSE fate[r]]

(* The fresh results among ids are written.  For those in raised the call  *)
(* raises, although a request that timed out may have been stored; the     *)
(* others enter the dedup cache.  lost names what is acknowledged though   *)
(* it was not stored.                                                      *)
Ingest(ids, raised, unsure, lost) ==
  LET written == (Fresh(ids) \ raised) \cup unsure IN
  /\ badWrites' = badWrites + Cardinality(raised)
  /\ badWrites' <= MaxBadWrites
  /\ seen' = seen \cup (Fresh(ids) \ raised)
  /\ Write(written)
  /\ fate' = [r \in Results |->
                IF r \in written \/ fate[r] = "stored" THEN "stored"
                ELSE IF r \in Orphans(ids) THEN "discarded"
                ELSE IF r \in lost THEN "lost" ELSE fate[r]]

(* on_agent_probe_result acknowledges in every case, after the write.      *)
OnAgentProbeResult(s) ==
  /\ Take(s) /\ Packet(s).type = "result" /\ s \in authed
  /\ LET ids == Packet(s).ids IN
     \E raised \in SUBSET Fresh(ids) : \E unsure \in SUBSET raised :
       /\ Ingest(ids, raised, unsure, raised \ unsure)
       /\ down' = Reply(s, "ack", ids)
       /\ refused' = refused \ ids
  /\ UNCHANGED <<agentVars, alive, authed, removed, nodeName, drops, reboots,
                 forgets>>

(* Mutant of OnAgentProbeBatch: accepted_ids names the whole batch.        *)
OnAgentProbeBatchAckAll(s) ==
  /\ Take(s) /\ Packet(s).type = "batch" /\ s \in authed
  /\ LET ids == Packet(s).ids IN
     \E raised \in SUBSET Fresh(ids) : \E unsure \in SUBSET raised :
       /\ Ingest(ids, raised, unsure, {})
       /\ down' = Reply(s, "ack", ids)
       /\ refused' = (refused \ ids) \cup raised
  /\ UNCHANGED <<agentVars, alive, authed, removed, nodeName, drops, reboots,
                 forgets>>

(* on_agent_probe_batch leaves the failed writes out of accepted_ids.      *)
OnAgentProbeBatch(s) ==
  /\ Take(s) /\ Packet(s).type = "batch" /\ s \in authed
  /\ LET ids == Packet(s).ids IN
     \E raised \in SUBSET Fresh(ids) : \E unsure \in SUBSET raised :
       /\ Ingest(ids, raised, unsure, {})
       /\ down' = Reply(s, "ack", ids \ raised)
       /\ refused' = (refused \ ids) \cup raised
  /\ UNCHANGED <<agentVars, alive, authed, removed, nodeName, drops, reboots,
                 forgets>>

(* Mutant of OnServerDisconnect: the entry of _agent_sessions stays.       *)
OnServerDisconnectKeep(s) ==
  /\ s \in alive
  /\ \/ ~(open /\ s = session) /\ UNCHANGED drops
     \/ open /\ s = session /\ drops < MaxDrops /\ drops' = drops + 1
  /\ alive' = alive \ {s}
  /\ up' = [up EXCEPT ![s] = << >>]
  /\ UNCHANGED <<agentVars, down, authed, removed, seen, points, nodeName, fate,
                 refused, reboots, forgets, badWrites>>

(* The server's on_disconnect: it learns that the agent left, or it times  *)
(* out a session the agent still holds.                                    *)
OnServerDisconnect(s) ==
  /\ s \in alive
  /\ \/ ~(open /\ s = session) /\ UNCHANGED drops
     \/ open /\ s = session /\ drops < MaxDrops /\ drops' = drops + 1
  /\ alive' = alive \ {s}
  /\ authed' = authed \ {s}
  /\ up' = [up EXCEPT ![s] = << >>]
  /\ UNCHANGED <<agentVars, down, removed, seen, points, nodeName, fate,
                 refused, reboots, forgets, badWrites>>

(* The dedup cache lives in memory: an entry leaves after _DEDUP_TTL or by *)
(* _DEDUP_MAX_SIZE, and a restart of the server empties it.                *)
EvictSeen(r) ==
  /\ r \in seen
  /\ forgets < MaxForgets /\ forgets' = forgets + 1
  /\ seen' = seen \ {r}
  /\ UNCHANGED <<agentVars, up, down, alive, authed, removed, points, nodeName,
                 fate, refused, drops, reboots, badWrites>>

ServerRestart ==
  /\ forgets < MaxForgets /\ forgets' = forgets + 1
  /\ alive' = {} /\ authed' = {} /\ seen' = {}
  /\ up' = [s \in Sessions |-> << >>]
  /\ UNCHANGED <<agentVars, down, removed, points, nodeName, fate, refused,
                 drops, reboots, badWrites>>

DeleteTask(t) ==
  /\ t \notin removed /\ Cardinality(removed) < MaxRemoved
  /\ removed' = removed \cup {t}
  /\ UNCHANGED <<agentVars, up, down, alive, authed, seen, points, nodeName,
                 fate, refused, bounds>>

(* update_node may rename the node; the name is the source_node tag.       *)
RenameNode ==
  /\ nodeName < MaxRenames
  /\ nodeName' = nodeName + 1
  /\ UNCHANGED <<agentVars, up, down, alive, authed, removed, seen, points,
                 fate, refused, bounds>>

-----------------------------------------------------------------------------
ProbeThread(r) == StoreResult(r) \/ CheckLink(r) \/ EmitResult(r) \/ MarkSent(r)
PacketThread(m) == OnConnect(m) \/ OnAuthResult(m) \/ OnAck(m)
BackfillThread(s) == BackfillRead(s) \/ BackfillSend(s)
ServerHandler(s) == OnAgentAuth(s) \/ IgnorePacket(s)
                      \/ OnAgentProbeResult(s) \/ OnAgentProbeBatch(s)

Next ==
  \/ \E r \in Results : ProbeThread(r) \/ EvictSeen(r)
  \/ \E m \in down : PacketThread(m) \/ LosePacket(m)
  \/ \E s \in Sessions :
       BackfillThread(s) \/ ServerHandler(s) \/ OnServerDisconnect(s)
  \/ \E t \in Tasks : DeleteTask(t)
  \/ CleanupOldAcked \/ Connect \/ Disconnect \/ Reboot
  \/ ServerRestart \/ RenameNode

Spec == Init /\ [][Next]_vars

(* Threads run, packets of a living session arrive, the client reconnects  *)
(* and each end notices a dead session.  Nothing is assumed of new probes, *)
(* of faults or of what an administrator does.                             *)
Fairness ==
  /\ \A r \in Results :
       WF_vars(CheckLink(r)) /\ WF_vars(EmitResult(r)) /\ WF_vars(MarkSent(r))
  /\ WF_vars(\E m \in down : PacketThread(m))
  /\ \A s \in Sessions : /\ WF_vars(BackfillThread(s))
                         /\ WF_vars(ServerHandler(s))
  /\ WF_vars(Connect)
  /\ WF_vars(session \notin alive /\ Disconnect)

FairSpec == Spec /\ Fairness

-----------------------------------------------------------------------------
Held(r) == cache[r] \in {"pending", "sent"}

(* A measured result is never lost track of: until the center decided its  *)
(* fate, the agent keeps a row it will send again (local_cache.py, "not    *)
(* acked" rows are neither cleaned nor skipped by the backfill).           *)
NoSilentLoss ==
  \A r \in Results : probe[r] # "due" => Held(r) \/ fate[r] # "none"

(* Once a session is authenticated at the center and no thread, packet or  *)
(* probe is under way, ...                                                 *)
Quiet ==
  /\ open /\ session \in authed /\ up[session] = << >> /\ down = {}
  /\ \A s \in Sessions : backfill[s] \in {"none", "done"}
  /\ \A r \in Results : probe[r] \in {"due", "done"}

(* ... the agent knows that it may send, and no result waits for a next    *)
(* connection, other than those whose write in a batch raised: a result is *)
(* either stored before the backfill reads the cache, or it is sent on its *)
(* own after the flag was set (on_auth_result sets it before _backfill).   *)
NothingStranded ==
  Quiet => /\ connected /\ authenticated
           /\ \A r \in Results : Held(r) => fate[r] # "none" \/ r \in refused

(* The same result is in the store twice only if the dedup cache lost it   *)
(* in between, or a write was stored although it raised: the check before  *)
(* the write and the tags of the point together make the write idempotent. *)
DuplicatesOnlyAfterForgetting ==
  \A r \in Results :
    Cardinality({x \in points : x[1] = r}) <= 1 + forgets + badWrites

(* What was stored can be read back, up to the resolution of the store:    *)
(* another result of the same series and second may have taken its place,  *)
(* nothing else does - no retry, failed write, rename or eviction          *)
(* (PROJECT.md 7.4.1).                                                     *)
StoredHasPoint ==
  \A r \in Results : fate[r] = "stored" => \E x \in points : SamePoint(r, x[1])

(* The delivery implements the custody of results.                         *)
Custody == INSTANCE ResultCustody WITH
  held <- {r \in Results : Held(r)}, settled <- {r \in Results : fate[r] # "none"}
KeepsCustody == Custody!Spec

(* A result the agent holds is settled in the end, when connections stop   *)
(* breaking: the reconnection and its backfill bring it to the center.     *)
EventuallySettled ==
  \A r \in Results : Held(r) ~> fate[r] # "none" \/ r \in refused
=============================================================================
