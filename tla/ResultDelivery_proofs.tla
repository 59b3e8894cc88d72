------------------------ MODULE ResultDelivery_proofs ------------------------
(***************************************************************************)
(* Proofs about ResultDelivery, for every set of results and tasks and     *)
(* every value of the bounds: type correctness; that no measured result is *)
(* silently lost, and what is promised of offline recovery and of the      *)
(* dedup cache; and that the delivery implements ResultCustody.            *)
(***************************************************************************)
EXTENDS ResultDelivery, FiniteSetTheorems, TLAPS

USE DEF Sessions, Names

-----------------------------------------------------------------------------
(* The packet of a handler is one of the session's, the rest stays typed.  *)
LEMMA TakeType ==
  ASSUME TypeOK, NEW s \in Sessions, Take(s)
  PROVE  /\ Packet(s) \in UpMsg
         /\ up' \in [Sessions -> Seq(UpMsg)]
<1>1. up[s] \in Seq(UpMsg) /\ up[s] # << >>
  BY DEF TypeOK, Take
<1>2. Head(up[s]) \in UpMsg /\ Tail(up[s]) \in Seq(UpMsg)
  BY <1>1
<1> QED
  BY <1>2 DEF TypeOK, Take, Packet

(* What the agent emits is typed, on the session it holds.                 *)
LEMMA EmittedType ==
  ASSUME TypeOK, open, NEW type \in {"auth", "result", "batch"},
         NEW ids \in SUBSET Results
  PROVE  Emitted(type, ids) \in [Sessions -> Seq(UpMsg)]
<1>1. session \in Sessions
  BY BoundsAssumption DEF TypeOK
<1>2. [type |-> type, ids |-> ids] \in UpMsg
  BY DEF UpMsg
<1>3. Append(up[session], [type |-> type, ids |-> ids]) \in Seq(UpMsg)
  BY <1>1, <1>2 DEF TypeOK
<1> QED
  BY <1>3 DEF Emitted, TypeOK

(* A reply of the server is typed.                                         *)
LEMMA ReplyType ==
  ASSUME TypeOK, NEW s \in Sessions, NEW type \in {"connect", "auth_result", "ack"},
         NEW ids \in SUBSET Results
  PROVE  Reply(s, type, ids) \subseteq DownMsg
BY DEF Reply, TypeOK, DownMsg

(* A change of ack_status leaves a typed cache.                            *)
LEMMA SetStatusType ==
  ASSUME TypeOK, NEW ids, NEW status \in Rows
  PROVE  SetStatus(ids, status) \in [Results -> Rows]
BY DEF SetStatus, TypeOK

(* The effects of a result or batch on the store are typed.                *)
LEMMA IngestType ==
  ASSUME TypeOK, NEW ids \in SUBSET Results, NEW raised \in SUBSET Fresh(ids),
         NEW unsure \in SUBSET raised, NEW lost \in SUBSET Results,
         Ingest(ids, raised, unsure, lost), nodeName' = nodeName
  PROVE  /\ seen' \subseteq Results
         /\ points' \subseteq Results \X Names
         /\ fate' \in [Results -> Fates]
         /\ badWrites' \in 0..MaxBadWrites
<1> DEFINE written == (Fresh(ids) \ raised) \cup unsure
<1>1. Fresh(ids) \subseteq Results /\ raised \subseteq Results
  BY DEF Fresh
<1>2. Cardinality(raised) \in Nat
  BY <1>1, ResultsAssumption, FS_Subset, FS_CardinalityType
<1>3. badWrites' \in 0..MaxBadWrites
  BY <1>2, BoundsAssumption DEF Ingest, TypeOK
<1>4. PICK kept \in SUBSET written :
        points' = {x \in points : x[2] = nodeName =>
                                    \A q \in kept : ~SamePoint(x[1], q)}
                    \cup (kept \X {nodeName})
  BY DEF Ingest, Write
<1>5. points' \subseteq Results \X Names
  BY <1>1, <1>4 DEF TypeOK
<1>6. fate' \in [Results -> Fates]
  BY DEF Ingest, TypeOK, Fates
<1> QED
  BY <1>1, <1>3, <1>5, <1>6 DEF Ingest, TypeOK

-----------------------------------------------------------------------------
LEMMA InitTypeOK == Init => TypeOK
<1> SUFFICES ASSUME Init PROVE TypeOK
  OBVIOUS
<1>1. up \in [Sessions -> Seq(UpMsg)]
  <2>1. << >> \in Seq(UpMsg)
    OBVIOUS
  <2> QED
    BY <2>1 DEF Init
<1>2. /\ drops \in 0..MaxDrops /\ reboots \in 0..MaxReboots
      /\ forgets \in 0..MaxForgets /\ badWrites \in 0..MaxBadWrites
      /\ nodeName \in Names /\ session \in 0..MaxSessions
  BY BoundsAssumption DEF Init
<1>3. /\ probe \in [Results -> ProbeSteps] /\ cache \in [Results -> Rows]
      /\ fate \in [Results -> Fates]
      /\ backfill \in [Sessions -> Backfills] /\ batch \in [Sessions -> SUBSET Results]
  BY DEF Init, ProbeSteps, Rows, Backfills, Fates
<1> QED
  BY <1>1, <1>2, <1>3 DEF Init, TypeOK

LEMMA NextTypeOK == TypeOK /\ [Next]_vars => TypeOK'
<1> SUFFICES ASSUME TypeOK, [Next]_vars PROVE TypeOK'
  OBVIOUS
<1> USE BoundsAssumption
<1>1. ASSUME NEW r \in Results, ProbeThread(r) PROVE TypeOK'
  <2>1. CASE StoreResult(r)
    BY <2>1 DEF StoreResult, Stored, TypeOK, ProbeSteps, Rows, serverVars, bounds
  <2>2. CASE CheckLink(r)
    BY <2>2 DEF CheckLink, TypeOK, ProbeSteps, serverVars, bounds
  <2>3. CASE EmitResult(r)
    <3>1. up' \in [Sessions -> Seq(UpMsg)]
      BY <2>3, EmittedType DEF EmitResult, TypeOK
    <3> QED
      BY <2>3, <3>1 DEF EmitResult, TypeOK, ProbeSteps, serverVars, bounds
  <2>4. CASE MarkSent(r)
    BY <2>4, SetStatusType DEF MarkSent, TypeOK, ProbeSteps, Rows, serverVars, bounds
  <2> QED
    BY <1>1, <2>1, <2>2, <2>3, <2>4 DEF ProbeThread
<1>2. ASSUME NEW r \in Results, EvictSeen(r) PROVE TypeOK'
  BY <1>2 DEF EvictSeen, TypeOK, agentVars
<1>3. ASSUME NEW m \in down, PacketThread(m) PROVE TypeOK'
  <2>1. CASE OnConnect(m)
    <3>1. up' \in [Sessions -> Seq(UpMsg)]
      BY <2>1, EmittedType DEF OnConnect, Authenticate, TypeOK
    <3> QED
      BY <2>1, <3>1 DEF OnConnect, TypeOK, serverVars, bounds
  <2>2. CASE OnAuthResult(m)
    BY <2>2 DEF OnAuthResult, TypeOK, DownMsg, Backfills, serverVars, bounds
  <2>3. CASE OnAck(m)
    BY <2>3, SetStatusType DEF OnAck, TypeOK, Rows, serverVars, bounds
  <2> QED
    BY <1>3, <2>1, <2>2, <2>3 DEF PacketThread
<1>4. ASSUME NEW m \in down, LosePacket(m) PROVE TypeOK'
  BY <1>4 DEF LosePacket, TypeOK, agentVars, serverVars, bounds
<1>5. ASSUME NEW s \in Sessions, BackfillThread(s) PROVE TypeOK'
  <2>1. CASE BackfillRead(s)
    BY <2>1 DEF BackfillRead, Unacked, TypeOK, Backfills, serverVars, bounds
  <2>2. CASE BackfillSend(s)
    <3>1. ASSUME open, NEW chunk \in SUBSET batch[s],
                 up' = Emitted("batch", chunk),
                 batch' = [batch EXCEPT ![s] = @ \ chunk],
                 backfill' = [backfill EXCEPT ![s] =
                                IF batch[s] = chunk THEN "done" ELSE "send"]
          PROVE  TypeOK'
      <4>1. chunk \in SUBSET Results
        BY DEF TypeOK
      <4>2. up' \in [Sessions -> Seq(UpMsg)]
        BY <3>1, <4>1, EmittedType
      <4>3. batch' \in [Sessions -> SUBSET Results]
        BY <3>1 DEF TypeOK
      <4>4. backfill' \in [Sessions -> Backfills]
        BY <3>1 DEF TypeOK, Backfills
      <4> QED
        BY <2>2, <4>2, <4>3, <4>4 DEF BackfillSend, TypeOK, serverVars, bounds
    <3>2. CASE ~open
      BY <2>2, <3>2 DEF BackfillSend, TypeOK, Backfills, serverVars, bounds
    <3> QED
      BY <2>2, <3>1, <3>2 DEF BackfillSend
  <2> QED
    BY <1>5, <2>1, <2>2 DEF BackfillThread
<1>6. ASSUME NEW s \in Sessions, ServerHandler(s) PROVE TypeOK'
  <2>1. CASE OnAgentAuth(s)
    BY <2>1, TakeType, ReplyType DEF OnAgentAuth, Take, TypeOK, agentVars, bounds
  <2>2. CASE IgnorePacket(s)
    BY <2>2, TakeType DEF IgnorePacket, TypeOK, agentVars, serverVars, bounds
  <2>3. CASE OnAgentProbeResult(s)
    <3> DEFINE ids == Packet(s).ids
    <3>1. ids \in SUBSET Results /\ up' \in [Sessions -> Seq(UpMsg)]
      BY <2>3, TakeType DEF OnAgentProbeResult, UpMsg
    <3>2. PICK raised \in SUBSET Fresh(ids), unsure \in SUBSET Fresh(ids) :
            /\ unsure \subseteq raised
            /\ Ingest(ids, raised, unsure, raised \ unsure)
            /\ down' = Reply(s, "ack", ids)
            /\ refused' = refused \ ids
      BY <2>3 DEF OnAgentProbeResult
    <3>3. raised \ unsure \in SUBSET Results
      BY <3>1 DEF Fresh
    <3>4. /\ seen' \subseteq Results
          /\ points' \subseteq Results \X Names
          /\ fate' \in [Results -> Fates]
          /\ badWrites' \in 0..MaxBadWrites
      BY <2>3, <3>1, <3>2, <3>3, IngestType DEF OnAgentProbeResult
    <3>5. down' \subseteq DownMsg
      BY <3>1, <3>2, ReplyType
    <3> QED
      BY <2>3, <3>1, <3>2, <3>4, <3>5 DEF OnAgentProbeResult, TypeOK, agentVars
  <2>4. CASE OnAgentProbeBatch(s)
    <3> DEFINE ids == Packet(s).ids
    <3>1. ids \in SUBSET Results /\ up' \in [Sessions -> Seq(UpMsg)]
      BY <2>4, TakeType DEF OnAgentProbeBatch, UpMsg
    <3>2. PICK raised \in SUBSET Fresh(ids), unsure \in SUBSET Fresh(ids) :
            /\ unsure \subseteq raised
            /\ Ingest(ids, raised, unsure, {})
            /\ down' = Reply(s, "ack", ids \ raised)
            /\ refused' = (refused \ ids) \cup raised
      BY <2>4 DEF OnAgentProbeBatch
    <3>3. raised \subseteq Results /\ ids \ raised \in SUBSET Results
      BY <3>1 DEF Fresh
    <3>4. /\ seen' \subseteq Results
          /\ points' \subseteq Results \X Names
          /\ fate' \in [Results -> Fates]
          /\ badWrites' \in 0..MaxBadWrites
      <4>1. {} \in SUBSET Results /\ unsure \in SUBSET raised
        BY <3>2
      <4>2. Ingest(ids, raised, unsure, {}) /\ nodeName' = nodeName
        BY <2>4, <3>2 DEF OnAgentProbeBatch
      <4> QED
        BY <3>1, <4>1, <4>2, IngestType
    <3>5. down' \subseteq DownMsg
      BY <3>2, <3>3, ReplyType
    <3>6. refused' \subseteq Results
      BY <3>2, <3>3 DEF TypeOK
    <3> QED
      BY <2>4, <3>1, <3>4, <3>5, <3>6 DEF OnAgentProbeBatch, TypeOK, agentVars
  <2> QED
    BY <1>6, <2>1, <2>2, <2>3, <2>4 DEF ServerHandler
<1>7. ASSUME NEW s \in Sessions, OnServerDisconnect(s) PROVE TypeOK'
  <2>1. up' \in [Sessions -> Seq(UpMsg)]
    BY <1>7 DEF OnServerDisconnect, TypeOK
  <2> QED
    BY <1>7, <2>1 DEF OnServerDisconnect, TypeOK, agentVars
<1>8. ASSUME NEW t \in Tasks, DeleteTask(t) PROVE TypeOK'
  BY <1>8 DEF DeleteTask, TypeOK, agentVars, bounds
<1>9. CASE CleanupOldAcked
  <2>1. cache' \in [Results -> Rows]
    <3>1. PICK old : cache' = SetStatus(old, "none")
      BY <1>9 DEF CleanupOldAcked
    <3> QED
      BY <3>1, SetStatusType DEF Rows
  <2> QED
    BY <1>9, <2>1 DEF CleanupOldAcked, TypeOK, serverVars, bounds
<1>10. CASE Connect
  <2>1. session + 1 \in Sessions /\ session' = session + 1
    BY <1>10 DEF Connect, TypeOK
  <2>2. /\ down' \subseteq DownMsg
        /\ alive' \subseteq Sessions /\ authed \subseteq alive'
    BY <1>10, <2>1 DEF Connect, TypeOK, DownMsg
  <2> QED
    BY <1>10, <2>1, <2>2 DEF Connect, TypeOK, bounds
<1>11. CASE Disconnect
  <2>1. drops' \in 0..MaxDrops
    BY <1>11 DEF Disconnect, TypeOK
  <2> QED
    BY <1>11, <2>1 DEF Disconnect, TypeOK, serverVars
<1>12. CASE Reboot
  <2>1. probe' \in [Results -> ProbeSteps]
    BY <1>12 DEF Reboot, ProbeSteps
  <2>2. /\ backfill' \in [Sessions -> Backfills]
        /\ batch' \in [Sessions -> SUBSET Results]
    BY <1>12 DEF Reboot, Backfills
  <2>3. reboots' \in 0..MaxReboots
    BY <1>12 DEF Reboot, TypeOK
  <2>4. down' \subseteq DownMsg /\ open' = FALSE
    BY <1>12 DEF Reboot
  <2>5. /\ cache' \in [Results -> Rows] /\ session' \in 0..MaxSessions
        /\ up' \in [Sessions -> Seq(UpMsg)]
        /\ drops' \in 0..MaxDrops /\ forgets' \in 0..MaxForgets
        /\ badWrites' \in 0..MaxBadWrites
    BY <1>12 DEF Reboot, TypeOK
  <2>6. /\ alive' \subseteq Sessions /\ authed' \subseteq alive'
        /\ removed' \subseteq Tasks /\ seen' \subseteq Results
        /\ points' \subseteq Results \X Names /\ nodeName' \in Names
        /\ fate' \in [Results -> Fates] /\ refused' \subseteq Results
    BY <1>12 DEF Reboot, TypeOK, serverVars
  <2> QED
    BY <1>12, <2>1, <2>2, <2>3, <2>4, <2>5, <2>6 DEF Reboot, TypeOK
<1>13. CASE ServerRestart
  BY <1>13 DEF ServerRestart, TypeOK, agentVars
<1>14. CASE RenameNode
  BY <1>14 DEF RenameNode, TypeOK, agentVars, bounds
<1>15. CASE UNCHANGED vars
  BY <1>15 DEF TypeOK, vars, agentVars, serverVars, bounds
<1> QED
  BY <1>1, <1>2, <1>3, <1>4, <1>5, <1>6, <1>7, <1>8, <1>9, <1>10, <1>11,
     <1>12, <1>13, <1>14, <1>15 DEF Next

(* Every reachable state is typed: the agent's rows and flags, the packets *)
(* of each session, the server's registry and the points of the store.     *)
THEOREM TypeCorrect == Spec => []TypeOK
BY InitTypeOK, NextTypeOK, PTL DEF Spec
-----------------------------------------------------------------------------
(***************************************************************************)
(* No silent loss.  NoSilentLoss is not inductive alone: an                *)
(* acknowledgement ends the agent's custody of a row, so the invariant     *)
(* also says that the center has decided the fate of what it acknowledges, *)
(* on the way to the agent (AcksAreDue) and in its rows (RowsAreDue), that *)
(* what its dedup cache skips was decided before (SeenIsSettled), and that *)
(* nothing is known of a result before its probe has stored it.            *)
(***************************************************************************)
Due(r) == probe[r] = "due"

AcksAreDue == \A m \in down : m.type = "ack" => \A r \in m.ids : fate[r] # "none"
RowsAreDue == \A r \in Results : cache[r] = "acked" => fate[r] # "none"
SeenIsSettled == \A r \in seen : fate[r] # "none"
DueIsUnknown == \A r \in Results : Due(r) => cache[r] = "none" /\ fate[r] = "none"
SentIsStored ==
  /\ \A s \in Sessions : \A i \in DOMAIN up[s] : \A r \in up[s][i].ids : ~Due(r)
  /\ \A s \in Sessions : \A r \in batch[s] : ~Due(r)

IInv ==
  /\ TypeOK /\ AcksAreDue /\ RowsAreDue /\ SeenIsSettled
  /\ NoSilentLoss /\ DueIsUnknown /\ SentIsStored

-----------------------------------------------------------------------------
(* What is on its way to the server names results of the agent.           *)
LEMMA PacketTyped ==
  ASSUME up \in [Sessions -> Seq(UpMsg)]
  PROVE  \A s \in Sessions : \A i \in DOMAIN up[s] : up[s][i].ids \subseteq Results
<1>1. \A s \in Sessions : \A i \in DOMAIN up[s] : up[s][i] \in UpMsg
  OBVIOUS
<1> QED
  BY <1>1 DEF UpMsg

(* Taking a packet off a session leaves nothing new on its way.            *)
LEMMA TakeKeeps ==
  ASSUME IInv, NEW s \in Sessions, Take(s), probe' = probe, batch' = batch
  PROVE  /\ SentIsStored'
         /\ \A r \in Packet(s).ids : ~Due(r)
<1>1. up[s] \in Seq(UpMsg) /\ up[s] # << >>
  BY DEF IInv, TypeOK, Take
<1>2. 1 \in DOMAIN up[s] /\ Head(up[s]) = up[s][1]
  BY <1>1
<1>3. \A i \in DOMAIN Tail(up[s]) :
        i + 1 \in DOMAIN up[s] /\ Tail(up[s])[i] = up[s][i + 1]
  BY <1>1
<1>4. /\ up'[s] = Tail(up[s])
      /\ \A u \in Sessions \ {s} : up'[u] = up[u]
  BY DEF IInv, TypeOK, Take
<1>5. \A u \in Sessions : \A i \in DOMAIN up'[u] : \A r \in up'[u][i].ids : ~Due(r)
  <2>1. \A i \in DOMAIN up'[s] : \A r \in up'[s][i].ids : ~Due(r)
    BY <1>3, <1>4 DEF IInv, SentIsStored
  <2>2. \A u \in Sessions \ {s} : \A i \in DOMAIN up'[u] : \A r \in up'[u][i].ids : ~Due(r)
    BY <1>4 DEF IInv, SentIsStored
  <2> QED
    BY <2>1, <2>2
<1> QED
  BY <1>2, <1>5 DEF IInv, SentIsStored, Packet, Due

(* What is emitted has been stored before, as what is on its way was.      *)
LEMMA EmittedKeeps ==
  ASSUME IInv, open, NEW type \in {"auth", "result", "batch"},
         NEW ids \in SUBSET Results, \A r \in ids : ~Due(r),
         up' = Emitted(type, ids), \A r \in Results : Due(r)' => Due(r),
         \A s \in Sessions : batch'[s] \subseteq batch[s]
  PROVE  SentIsStored'
<1> DEFINE m == [type |-> type, ids |-> ids]
<1>1. session \in Sessions /\ up[session] \in Seq(UpMsg) /\ m \in UpMsg
  <2>1. session \in Sessions /\ up[session] \in Seq(UpMsg)
    BY BoundsAssumption DEF IInv, TypeOK
  <2>2. m \in UpMsg
    BY DEF UpMsg
  <2> QED
    BY <2>1, <2>2
<1>2. \A i \in DOMAIN Append(up[session], m) :
        \/ i \in DOMAIN up[session] /\ Append(up[session], m)[i] = up[session][i]
        \/ Append(up[session], m)[i] = m
  BY <1>1
<1>3. /\ up'[session] = Append(up[session], m)
      /\ \A u \in Sessions \ {session} : up'[u] = up[u]
  BY <1>1 DEF IInv, TypeOK, Emitted
<1>p. \A u \in Sessions : \A i \in DOMAIN up'[u] :
        up'[u][i] = m \/ \E j \in DOMAIN up[u] : up'[u][i] = up[u][j]
  <2>1. \A i \in DOMAIN up'[session] :
          up'[session][i] = m \/ \E j \in DOMAIN up[session] : up'[session][i] = up[session][j]
    <3> HIDE DEF m
    <3> QED
      BY <1>2, <1>3
  <2> HIDE DEF m
  <2> QED
    BY <1>3, <2>1
<1>m. m.ids \subseteq Results /\ \A r \in m.ids : ~Due(r)
  OBVIOUS
<1>4. \A u \in Sessions : \A i \in DOMAIN up'[u] : up'[u][i].ids \subseteq Results
  <2>1. \A u \in Sessions : \A i \in DOMAIN up[u] : up[u][i].ids \subseteq Results
    BY PacketTyped DEF IInv, TypeOK
  <2> HIDE DEF m
  <2> QED
    BY <1>p, <1>m, <2>1
<1>5. \A u \in Sessions : \A i \in DOMAIN up'[u] : \A r \in up'[u][i].ids : ~Due(r)
  <2>1. \A u \in Sessions : \A i \in DOMAIN up[u] : \A r \in up[u][i].ids : ~Due(r)
    BY DEF IInv, SentIsStored
  <2> HIDE DEF m
  <2> QED
    BY <1>p, <1>m, <2>1
<1>6. \A u \in Sessions : \A r \in batch'[u] : r \in Results /\ ~Due(r)
  BY DEF IInv, SentIsStored, TypeOK
<1> QED
  BY <1>4, <1>5, <1>6 DEF SentIsStored

(* The center decides the fate of everything it handles, other than the    *)
(* results of a batch that it leaves out of the acknowledgement.           *)
LEMMA IngestSettles ==
  ASSUME IInv, NEW ids \in SUBSET Results, NEW raised \in SUBSET Fresh(ids),
         NEW unsure \in SUBSET raised, NEW lost,
         Ingest(ids, raised, unsure, lost), \A r \in ids : ~Due(r), probe' = probe
  PROVE  /\ \A r \in Results : fate[r] # "none" => fate'[r] # "none"
         /\ \A r \in Results : fate[r] = "none" /\ fate'[r] # "none" =>
              r \in ids \/ r \in lost
         /\ \A r \in (ids \ raised) \cup lost : r \in Results => fate'[r] # "none"
         /\ \A r \in seen' : fate'[r] # "none"
<1>1. \A r \in Results : fate'[r] =
        IF r \in (Fresh(ids) \ raised) \cup unsure \/ fate[r] = "stored" THEN "stored"
        ELSE IF r \in Orphans(ids) THEN "discarded"
        ELSE IF r \in lost THEN "lost" ELSE fate[r]
  BY DEF Ingest
<1>2. \A r \in ids \ raised : r \in Fresh(ids) \ raised \/ r \in Orphans(ids) \/ r \in seen
  BY DEF Fresh
<1>3. seen' = seen \cup (Fresh(ids) \ raised) /\ seen \subseteq Results
  BY DEF Ingest, IInv, TypeOK
<1>4. Fresh(ids) \subseteq ids /\ Orphans(ids) \subseteq ids
  BY DEF Fresh, Orphans
<1> QED
  BY <1>1, <1>2, <1>3, <1>4 DEF IInv, SeenIsSettled

(* A reply that acknowledges only what is settled keeps AcksAreDue.        *)
LEMMA ReplyKeeps ==
  ASSUME IInv, NEW s, NEW type, NEW ids \in SUBSET Results, down' = Reply(s, type, ids),
         \A r \in Results : fate[r] # "none" => fate'[r] # "none",
         type = "ack" => \A r \in ids : fate'[r] # "none"
  PROVE  AcksAreDue'
<1>1. \A m \in down : m.ids \in SUBSET Results
  BY DEF IInv, TypeOK, DownMsg
<1>2. \A m \in down' : m \in down \/ (m.type = type /\ m.ids = ids)
  BY DEF Reply
<1> QED
  BY <1>1, <1>2 DEF IInv, AcksAreDue

(* The handler of a result or of a batch.                                  *)
LEMMA HandlerKeeps ==
  ASSUME IInv, NEW s \in Sessions, Take(s), agentVars' = agentVars,
         NEW raised \in SUBSET Fresh(Packet(s).ids), NEW unsure \in SUBSET raised,
         NEW lost \in SUBSET Packet(s).ids, NEW acked \in SUBSET Packet(s).ids,
         Ingest(Packet(s).ids, raised, unsure, lost),
         acked \subseteq (Packet(s).ids \ raised) \cup unsure \cup lost,
         down' = Reply(s, "ack", acked), TypeOK'
  PROVE  IInv'
<1> DEFINE ids == Packet(s).ids
<1>1. ids \in SUBSET Results
  BY TakeType DEF IInv, UpMsg
<1>2. probe' = probe /\ batch' = batch /\ cache' = cache
  BY DEF agentVars
<1>3. SentIsStored' /\ \A r \in ids : ~Due(r)
  BY <1>2, TakeKeeps
<1>4. /\ \A r \in Results : fate[r] # "none" => fate'[r] # "none"
      /\ \A r \in Results : fate[r] = "none" /\ fate'[r] # "none" => r \in ids \/ r \in lost
      /\ \A r \in (ids \ raised) \cup lost : r \in Results => fate'[r] # "none"
      /\ \A r \in seen' : fate'[r] # "none"
  BY <1>1, <1>2, <1>3, IngestSettles
<1>5. \A r \in unsure : fate'[r] # "none"
  BY <1>1 DEF Ingest, Fresh
<1>6. AcksAreDue'
  BY <1>1, <1>4, <1>5, ReplyKeeps
<1>7. DueIsUnknown'
  BY <1>2, <1>3, <1>4 DEF IInv, DueIsUnknown, Due
<1>8. NoSilentLoss' /\ RowsAreDue' /\ SeenIsSettled'
  BY <1>2, <1>4 DEF IInv, NoSilentLoss, Held, RowsAreDue, SeenIsSettled
<1> QED
  BY <1>3, <1>6, <1>7, <1>8 DEF IInv

(* A step that neither stores, sends, settles nor acknowledges anything.   *)
LEMMA OtherKeeps ==
  ASSUME IInv, TypeOK', cache' = cache, fate' = fate, up' = up, batch' = batch,
         down' \subseteq down, seen' \subseteq seen,
         \A r \in Results : Due(r)' <=> Due(r)
  PROVE  IInv'
<1>1. AcksAreDue' /\ SeenIsSettled'
  BY DEF IInv, AcksAreDue, SeenIsSettled
<1>2. RowsAreDue' /\ NoSilentLoss' /\ DueIsUnknown'
  BY DEF IInv, RowsAreDue, NoSilentLoss, DueIsUnknown, Held, Due
<1>3. SentIsStored'
  <2>1. \A s \in Sessions : \A i \in DOMAIN up[s] : up[s][i].ids \subseteq Results
    BY PacketTyped DEF IInv, TypeOK
  <2>2. \A s \in Sessions : batch[s] \subseteq Results
    BY DEF IInv, TypeOK
  <2> QED
    BY <2>1, <2>2 DEF IInv, SentIsStored
<1> QED
  BY <1>1, <1>2, <1>3 DEF IInv

-----------------------------------------------------------------------------
LEMMA InitIInv == Init => IInv
<1> SUFFICES ASSUME Init PROVE IInv
  OBVIOUS
<1>1. TypeOK
  BY InitTypeOK
<1>2. AcksAreDue /\ RowsAreDue /\ SeenIsSettled /\ NoSilentLoss /\ DueIsUnknown
  BY DEF Init, AcksAreDue, RowsAreDue, SeenIsSettled, NoSilentLoss, DueIsUnknown
<1>3. SentIsStored
  BY DEF Init, SentIsStored
<1> QED
  BY <1>1, <1>2, <1>3 DEF IInv

LEMMA NextIInv == IInv /\ [Next]_vars => IInv'
<1> SUFFICES ASSUME IInv, [Next]_vars PROVE IInv'
  OBVIOUS
<1>t. TypeOK /\ TypeOK'
  BY NextTypeOK DEF IInv
<1> USE <1>t
<1>1. ASSUME NEW r \in Results, ProbeThread(r) PROVE IInv'
  <2>1. CASE StoreResult(r)
    <3>1. /\ cache' = [cache EXCEPT ![r] = "pending"]
          /\ probe' = [probe EXCEPT ![r] = "check"]
          /\ up' = up /\ batch' = batch /\ down' = down /\ fate' = fate /\ seen' = seen
      BY <2>1 DEF StoreResult, Stored, serverVars
    <3>2. \A s \in Sessions : \A i \in DOMAIN up[s] : up[s][i].ids \subseteq Results
      BY PacketTyped DEF TypeOK
    <3>3. \A q \in Results : Due(q)' => Due(q)
      BY <3>1 DEF Due, TypeOK
    <3>4. SentIsStored'
      <4>1. \A s \in Sessions : \A i \in DOMAIN up'[s] : \A q \in up'[s][i].ids : ~Due(q)'
        BY <3>1, <3>2, <3>3 DEF IInv, SentIsStored
      <4>2. \A s \in Sessions : \A q \in batch'[s] : ~Due(q)'
        BY <3>1, <3>3 DEF IInv, SentIsStored, TypeOK
      <4> QED
        BY <4>1, <4>2 DEF SentIsStored
    <3>5. AcksAreDue' /\ SeenIsSettled'
      BY <3>1 DEF IInv, AcksAreDue, SeenIsSettled
    <3>6. RowsAreDue' /\ NoSilentLoss' /\ DueIsUnknown'
      BY <3>1 DEF IInv, RowsAreDue, NoSilentLoss, DueIsUnknown, Held, Due, TypeOK
    <3> QED
      BY <3>4, <3>5, <3>6 DEF IInv
  <2>2. CASE CheckLink(r)
    <3>1. /\ cache' = cache /\ fate' = fate /\ up' = up /\ batch' = batch
          /\ down' \subseteq down /\ seen' \subseteq seen
      BY <2>2 DEF CheckLink, serverVars
    <3>2. \A q \in Results : Due(q)' <=> Due(q)
      BY <2>2 DEF CheckLink, serverVars, Due, TypeOK
    <3> QED
      BY <3>1, <3>2, OtherKeeps
  <2>3. CASE EmitResult(r)
    <3>1. /\ cache' = cache /\ down' = down /\ batch' = batch /\ fate' = fate /\ seen' = seen
          /\ \A q \in Results : Due(q)' <=> Due(q)
          /\ ~Due(r)
      BY <2>3 DEF EmitResult, serverVars, Due, TypeOK
    <3>2. SentIsStored'
      <4>1. CASE open
        <5>1. up' = Emitted("result", {r})
          BY <2>3, <4>1 DEF EmitResult
        <5> QED
          BY <3>1, <4>1, <5>1, EmittedKeeps
      <4>2. CASE ~open
        <5>1. up' = up
          BY <2>3, <4>2 DEF EmitResult
        <5>2. \A s \in Sessions : \A i \in DOMAIN up[s] : up[s][i].ids \subseteq Results
          BY PacketTyped DEF TypeOK
        <5> QED
          BY <3>1, <5>1, <5>2 DEF IInv, SentIsStored, TypeOK
      <4> QED
        BY <4>1, <4>2
    <3> QED
      BY <3>1, <3>2 DEF IInv, AcksAreDue, RowsAreDue, SeenIsSettled, NoSilentLoss,
                        DueIsUnknown, Held, Due
  <2>4. CASE MarkSent(r)
    <3>1. /\ cache' = SetStatus({r}, "sent") /\ up' = up /\ batch' = batch
          /\ down' = down /\ fate' = fate /\ seen' = seen
          /\ \A q \in Results : Due(q)' <=> Due(q)
          /\ ~Due(r)
      BY <2>4 DEF MarkSent, serverVars, Due, TypeOK
    <3>2. \A s \in Sessions : \A i \in DOMAIN up[s] : up[s][i].ids \subseteq Results
      BY PacketTyped DEF TypeOK
    <3>3. SentIsStored'
      BY <3>1, <3>2 DEF IInv, SentIsStored, TypeOK
    <3> QED
      BY <3>1, <3>3 DEF IInv, AcksAreDue, RowsAreDue, SeenIsSettled, NoSilentLoss,
                        DueIsUnknown, Held, Due, SetStatus
  <2> QED
    BY <1>1, <2>1, <2>2, <2>3, <2>4 DEF ProbeThread
<1>2. ASSUME NEW r \in Results, EvictSeen(r) PROVE IInv'
  <2>1. /\ cache' = cache /\ fate' = fate /\ up' = up /\ batch' = batch
        /\ down' \subseteq down /\ seen' \subseteq seen
    BY <1>2 DEF EvictSeen, agentVars
  <2>2. \A q \in Results : Due(q)' <=> Due(q)
    BY <1>2 DEF EvictSeen, agentVars, Due
  <2> QED
    BY <2>1, <2>2, OtherKeeps
<1>3. ASSUME NEW m \in down, PacketThread(m) PROVE IInv'
  <2>1. CASE OnConnect(m)
    <3>1. /\ cache' = cache /\ down' = down \ {m} /\ batch' = batch /\ fate' = fate
          /\ seen' = seen /\ probe' = probe
      BY <2>1 DEF OnConnect, serverVars
    <3>2. SentIsStored'
      <4>1. CASE open
        <5>1. up' = Emitted("auth", {})
          BY <2>1, <4>1 DEF OnConnect, Authenticate
        <5> QED
          BY <3>1, <4>1, <5>1, EmittedKeeps DEF Due
      <4>2. CASE ~open
        BY <2>1, <3>1, <4>2 DEF OnConnect, Authenticate, IInv, SentIsStored, Due
      <4> QED
        BY <4>1, <4>2
    <3> QED
      BY <3>1, <3>2 DEF IInv, AcksAreDue, RowsAreDue, SeenIsSettled, NoSilentLoss,
                        DueIsUnknown, Held, Due
  <2>2. CASE OnAuthResult(m)
    <3>1. /\ cache' = cache /\ fate' = fate /\ up' = up /\ batch' = batch
          /\ down' \subseteq down /\ seen' \subseteq seen
      BY <2>2 DEF OnAuthResult, serverVars
    <3>2. \A r \in Results : Due(r)' <=> Due(r)
      BY <2>2 DEF OnAuthResult, serverVars, Due
    <3> QED
      BY <3>1, <3>2, OtherKeeps
  <2>3. CASE OnAck(m)
    <3>1. /\ cache' = SetStatus(m.ids, "acked") /\ up' = up /\ batch' = batch
          /\ down' = down \ {m} /\ fate' = fate /\ seen' = seen /\ probe' = probe
      BY <2>3 DEF OnAck, serverVars
    <3>2. \A r \in m.ids : fate[r] # "none"
      BY <2>3 DEF OnAck, IInv, AcksAreDue
    <3> QED
      BY <3>1, <3>2 DEF IInv, AcksAreDue, RowsAreDue, SeenIsSettled, NoSilentLoss,
                        DueIsUnknown, SentIsStored, Held, Due, SetStatus
  <2> QED
    BY <1>3, <2>1, <2>2, <2>3 DEF PacketThread
<1>4. ASSUME NEW m \in down, LosePacket(m) PROVE IInv'
  <2>1. /\ cache' = cache /\ fate' = fate /\ up' = up /\ batch' = batch
        /\ down' \subseteq down /\ seen' \subseteq seen
    BY <1>4 DEF LosePacket, agentVars, serverVars
  <2>2. \A r \in Results : Due(r)' <=> Due(r)
    BY <1>4 DEF LosePacket, agentVars, serverVars, Due
  <2> QED
    BY <2>1, <2>2, OtherKeeps
<1>5. ASSUME NEW s \in Sessions, BackfillThread(s) PROVE IInv'
  <2>1. /\ cache' = cache /\ down' = down /\ fate' = fate /\ seen' = seen /\ probe' = probe
    BY <1>5 DEF BackfillThread, BackfillRead, BackfillSend, serverVars
  <2>2. SentIsStored'
    <3>1. CASE BackfillRead(s)
      <4>1. up' = up /\ batch' = [batch EXCEPT ![s] = Unacked]
        BY <3>1 DEF BackfillRead
      <4>2. \A r \in Unacked : ~Due(r)
        BY DEF IInv, DueIsUnknown, Unacked
      <4> QED
        BY <2>1, <4>1, <4>2 DEF IInv, SentIsStored, Due, TypeOK
    <3>2. ASSUME open, NEW chunk \in SUBSET batch[s], up' = Emitted("batch", chunk),
                 batch' = [batch EXCEPT ![s] = @ \ chunk]
          PROVE  SentIsStored'
      <4>1. /\ chunk \in SUBSET Results
            /\ \A r \in chunk : ~Due(r)
            /\ \A u \in Sessions : batch'[u] \subseteq batch[u]
        BY <3>2 DEF TypeOK, IInv, SentIsStored
      <4> QED
        BY <2>1, <3>2, <4>1, EmittedKeeps DEF Due
    <3>3. ASSUME up' = up, batch' = [batch EXCEPT ![s] = {}] PROVE SentIsStored'
      BY <2>1, <3>3 DEF IInv, SentIsStored, Due, TypeOK
    <3> QED
      BY <1>5, <3>1, <3>2, <3>3 DEF BackfillThread, BackfillSend
  <2> QED
    BY <2>1, <2>2 DEF IInv, AcksAreDue, RowsAreDue, SeenIsSettled, NoSilentLoss,
                      DueIsUnknown, Held, Due
<1>6. ASSUME NEW s \in Sessions, ServerHandler(s) PROVE IInv'
  <2>1. CASE OnAgentAuth(s)
    <3>1. /\ Take(s) /\ down' = Reply(s, "auth_result", {}) /\ cache' = cache
          /\ fate' = fate /\ seen' = seen /\ probe' = probe /\ batch' = batch
      BY <2>1 DEF OnAgentAuth, agentVars
    <3>2. SentIsStored' /\ AcksAreDue'
      BY <3>1, TakeKeeps, ReplyKeeps
    <3> QED
      BY <3>1, <3>2 DEF IInv, RowsAreDue, SeenIsSettled, NoSilentLoss, DueIsUnknown, Held, Due
  <2>2. CASE IgnorePacket(s)
    <3>1. /\ Take(s) /\ down' = down /\ cache' = cache
          /\ fate' = fate /\ seen' = seen /\ probe' = probe /\ batch' = batch
      BY <2>2 DEF IgnorePacket, agentVars, serverVars
    <3>2. SentIsStored'
      BY <3>1, TakeKeeps
    <3> QED
      BY <3>1, <3>2 DEF IInv, AcksAreDue, RowsAreDue, SeenIsSettled, NoSilentLoss,
                        DueIsUnknown, Held, Due
  <2>3. CASE OnAgentProbeResult(s)
    <3> DEFINE ids == Packet(s).ids
    <3>1. Take(s) /\ agentVars' = agentVars
      BY <2>3 DEF OnAgentProbeResult
    <3>2. PICK raised \in SUBSET Fresh(ids), unsure \in SUBSET Fresh(ids) :
            /\ unsure \subseteq raised
            /\ Ingest(ids, raised, unsure, raised \ unsure)
            /\ down' = Reply(s, "ack", ids)
      BY <2>3 DEF OnAgentProbeResult
    <3>3. raised \ unsure \in SUBSET ids /\ ids \subseteq (ids \ raised) \cup unsure \cup (raised \ unsure)
      BY DEF Fresh
    <3> QED
      BY <3>1, <3>2, <3>3, HandlerKeeps
  <2>4. CASE OnAgentProbeBatch(s)
    <3> DEFINE ids == Packet(s).ids
    <3>1. Take(s) /\ agentVars' = agentVars
      BY <2>4 DEF OnAgentProbeBatch
    <3>2. PICK raised \in SUBSET Fresh(ids), unsure \in SUBSET Fresh(ids) :
            /\ unsure \subseteq raised
            /\ Ingest(ids, raised, unsure, {})
            /\ down' = Reply(s, "ack", ids \ raised)
      BY <2>4 DEF OnAgentProbeBatch
    <3>3. {} \in SUBSET ids /\ ids \ raised \in SUBSET ids
      OBVIOUS
    <3>4. ids \ raised \subseteq (ids \ raised) \cup unsure \cup {}
      OBVIOUS
    <3> QED
      BY <3>1, <3>2, <3>3, <3>4, HandlerKeeps
  <2> QED
    BY <1>6, <2>1, <2>2, <2>3, <2>4 DEF ServerHandler
<1>7. ASSUME NEW s \in Sessions, OnServerDisconnect(s) PROVE IInv'
  <2>1. /\ cache' = cache /\ down' = down /\ fate' = fate /\ seen' = seen
        /\ probe' = probe /\ batch' = batch /\ up' = [up EXCEPT ![s] = << >>]
    BY <1>7 DEF OnServerDisconnect, agentVars
  <2>2. SentIsStored'
    <3>1. \A q \in Results : Due(q)' <=> Due(q)
      BY <2>1 DEF Due
    <3>2. \A z \in Sessions : up'[z] = up[z] \/ up'[z] = << >>
      BY <2>1 DEF TypeOK
    <3>3. \A z \in Sessions : \A i \in DOMAIN up'[z] : i \in DOMAIN up[z] /\ up'[z][i] = up[z][i]
      BY <3>2
    <3>4. \A z \in Sessions : \A i \in DOMAIN up[z] : up[z][i].ids \subseteq Results
      BY PacketTyped DEF TypeOK
    <3>5. \A z \in Sessions : \A i \in DOMAIN up'[z] : \A q \in up'[z][i].ids : ~Due(q)'
      BY <3>1, <3>3, <3>4 DEF IInv, SentIsStored
    <3>6. \A z \in Sessions : \A q \in batch'[z] : ~Due(q)'
      BY <2>1, <3>1 DEF IInv, SentIsStored, TypeOK
    <3> QED
      BY <3>5, <3>6 DEF SentIsStored
  <2> QED
    BY <2>1, <2>2 DEF IInv, AcksAreDue, RowsAreDue, SeenIsSettled, NoSilentLoss,
                      DueIsUnknown, Held, Due
<1>8. ASSUME NEW t \in Tasks, DeleteTask(t) PROVE IInv'
  <2>1. /\ cache' = cache /\ fate' = fate /\ up' = up /\ batch' = batch
        /\ down' \subseteq down /\ seen' \subseteq seen
    BY <1>8 DEF DeleteTask, agentVars
  <2>2. \A r \in Results : Due(r)' <=> Due(r)
    BY <1>8 DEF DeleteTask, agentVars, Due
  <2> QED
    BY <2>1, <2>2, OtherKeeps
<1>9. CASE CleanupOldAcked
  <2>1. PICK old \in SUBSET {r \in Results : cache[r] = "acked" /\ probe[r] = "done"} :
          cache' = SetStatus(old, "none")
    BY <1>9 DEF CleanupOldAcked
  <2>2. /\ up' = up /\ batch' = batch /\ down' = down /\ fate' = fate
        /\ seen' = seen /\ probe' = probe
    BY <1>9 DEF CleanupOldAcked, serverVars
  <2> QED
    BY <2>1, <2>2 DEF IInv, AcksAreDue, RowsAreDue, SeenIsSettled, NoSilentLoss,
                      DueIsUnknown, SentIsStored, Held, Due, SetStatus
<1>10. CASE Connect
  BY <1>10 DEF Connect, IInv, AcksAreDue, RowsAreDue, SeenIsSettled,
               NoSilentLoss, DueIsUnknown, SentIsStored, Held, Due
<1>11. CASE Disconnect
  <2>1. /\ cache' = cache /\ fate' = fate /\ up' = up /\ batch' = batch
        /\ down' \subseteq down /\ seen' \subseteq seen
    BY <1>11 DEF Disconnect, serverVars
  <2>2. \A r \in Results : Due(r)' <=> Due(r)
    BY <1>11 DEF Disconnect, serverVars, Due
  <2> QED
    BY <2>1, <2>2, OtherKeeps
<1>12. CASE Reboot
  <2>1. /\ cache' = cache /\ up' = up /\ down' = {} /\ fate' = fate /\ seen' = seen
        /\ batch' = [s \in Sessions |-> {}]
    BY <1>12 DEF Reboot, serverVars
  <2>2. \A r \in Results : Due(r)' <=> Due(r)
    BY <1>12 DEF Reboot, Due, TypeOK
  <2>3. \A s \in Sessions : \A i \in DOMAIN up[s] : up[s][i].ids \subseteq Results
    BY PacketTyped DEF TypeOK
  <2>4. SentIsStored'
    BY <2>1, <2>2, <2>3 DEF IInv, SentIsStored
  <2> QED
    BY <2>1, <2>2, <2>4 DEF IInv, AcksAreDue, RowsAreDue, SeenIsSettled,
                            NoSilentLoss, DueIsUnknown, Held, Due
<1>13. CASE ServerRestart
  BY <1>13 DEF ServerRestart, agentVars, IInv, AcksAreDue, RowsAreDue,
               SeenIsSettled, NoSilentLoss, DueIsUnknown, SentIsStored, Held, Due
<1>14. CASE RenameNode
  <2>1. /\ cache' = cache /\ fate' = fate /\ up' = up /\ batch' = batch
        /\ down' \subseteq down /\ seen' \subseteq seen
    BY <1>14 DEF RenameNode, agentVars
  <2>2. \A r \in Results : Due(r)' <=> Due(r)
    BY <1>14 DEF RenameNode, agentVars, Due
  <2> QED
    BY <2>1, <2>2, OtherKeeps
<1>15. CASE UNCHANGED vars
  <2>1. /\ cache' = cache /\ fate' = fate /\ up' = up /\ batch' = batch
        /\ down' \subseteq down /\ seen' \subseteq seen
    BY <1>15 DEF vars, agentVars, serverVars
  <2>2. \A r \in Results : Due(r)' <=> Due(r)
    BY <1>15 DEF vars, agentVars, serverVars, Due
  <2> QED
    BY <2>1, <2>2, OtherKeeps
<1> QED
  BY <1>1, <1>2, <1>3, <1>4, <1>5, <1>6, <1>7, <1>8, <1>9, <1>10, <1>11,
     <1>12, <1>13, <1>14, <1>15 DEF Next

(* The invariant holds in every reachable state.                           *)
THEOREM InvariantHolds == Spec => []IInv
BY InitIInv, NextIInv, PTL DEF Spec

(* A measured result is held by the agent until the center has decided its *)
(* fate (local_cache.py, ws_client.py and agent_handler.py together).      *)
THEOREM NothingIsLost == Spec => []NoSilentLoss
<1>1. IInv => NoSilentLoss
  BY DEF IInv
<1> QED
  BY InvariantHolds, <1>1, PTL

-----------------------------------------------------------------------------
(* Only the handlers of results and batches touch the store.               *)
LEMMA StoreSteps ==
  ASSUME TypeOK, [Next]_vars
  PROVE  \/ points' = points /\ fate' = fate
         \/ \E s \in Sessions : OnAgentProbeResult(s) \/ OnAgentProbeBatch(s)
<1> USE DEF agentVars, serverVars, bounds
<1>1. ASSUME NEW r \in Results, ProbeThread(r) \/ EvictSeen(r)
      PROVE  points' = points /\ fate' = fate
  BY <1>1 DEF ProbeThread, StoreResult, CheckLink, EmitResult, MarkSent, EvictSeen
<1>2. ASSUME NEW m \in down, PacketThread(m) \/ LosePacket(m)
      PROVE  points' = points /\ fate' = fate
  BY <1>2 DEF PacketThread, OnConnect, OnAuthResult, OnAck, LosePacket
<1>3. ASSUME NEW s \in Sessions, BackfillThread(s) \/ OnServerDisconnect(s)
                                   \/ OnAgentAuth(s) \/ IgnorePacket(s)
      PROVE  points' = points /\ fate' = fate
  BY <1>3 DEF BackfillThread, BackfillRead, BackfillSend, OnServerDisconnect,
              OnAgentAuth, IgnorePacket
<1>4. ASSUME \/ \E t \in Tasks : DeleteTask(t)
             \/ CleanupOldAcked \/ Connect \/ Disconnect \/ Reboot
             \/ ServerRestart \/ RenameNode \/ UNCHANGED vars
      PROVE  points' = points /\ fate' = fate
  BY <1>4 DEF DeleteTask, CleanupOldAcked, Connect, Disconnect, Reboot,
              ServerRestart, RenameNode, vars
<1> QED
  BY <1>1, <1>2, <1>3, <1>4 DEF Next, ServerHandler

LEMMA IngestReadable ==
  ASSUME TypeOK, StoredHasPoint, NEW ids \in SUBSET Results,
         NEW raised \in SUBSET Fresh(ids), NEW unsure \in SUBSET raised, NEW lost,
         Ingest(ids, raised, unsure, lost)
  PROVE  StoredHasPoint'
<1> DEFINE written == (Fresh(ids) \ raised) \cup unsure
<1>1. written \subseteq Results
  BY DEF Fresh
<1>2. PICK kept \in SUBSET written :
        /\ \A r \in written : \E q \in kept : SamePoint(r, q)
        /\ points' = {x \in points : x[2] = nodeName =>
                                       \A q \in kept : ~SamePoint(x[1], q)}
                       \cup (kept \X {nodeName})
  BY DEF Ingest, Write
<1>3. \A q \in kept : \E x \in points' : x[1] = q
  <2>1. \A q \in kept : <<q, nodeName>> \in points' /\ <<q, nodeName>>[1] = q
    BY <1>2
  <2> QED
    BY <2>1
<1>4. SUFFICES ASSUME NEW r \in Results, fate'[r] = "stored"
               PROVE  \E x \in points' : SamePoint(r, x[1])
  BY DEF StoredHasPoint
<1>5. r \in written \/ fate[r] = "stored"
  BY <1>4 DEF Ingest, TypeOK
<1>6. CASE r \in written
  BY <1>2, <1>3, <1>6
<1>7. CASE fate[r] = "stored"
  <2>1. PICK x \in points : SamePoint(r, x[1])
    BY <1>7 DEF StoredHasPoint
  <2>2. CASE x \in points'
    BY <2>1, <2>2
  <2>3. CASE x \notin points'
    <3>1. PICK q \in kept : SamePoint(x[1], q)
      BY <1>2, <2>1, <2>3
    <3>2. x[1] \in Results /\ q \in Results
      BY <1>1, <2>1 DEF TypeOK
    <3>3. SamePoint(r, q)
      BY <2>1, <3>1, <3>2, SamePointAssumption
    <3> QED
      BY <1>3, <3>3
  <2> QED
    BY <2>2, <2>3
<1> QED
  BY <1>5, <1>6, <1>7

(* What was stored can be read back at its second, whatever was stored     *)
(* later and under which node name (influx_service.py).                    *)
THEOREM StaysReadable == Spec => []StoredHasPoint
<1>1. Init => StoredHasPoint
  BY DEF Init, StoredHasPoint
<1>2. TypeOK /\ StoredHasPoint /\ [Next]_vars => StoredHasPoint'
  <2> SUFFICES ASSUME TypeOK, StoredHasPoint, [Next]_vars PROVE StoredHasPoint'
    OBVIOUS
  <2>1. CASE points' = points /\ fate' = fate
    BY <2>1 DEF StoredHasPoint
  <2>2. ASSUME NEW s \in Sessions, OnAgentProbeResult(s) \/ OnAgentProbeBatch(s)
        PROVE  StoredHasPoint'
    <3> DEFINE ids == Packet(s).ids
    <3>1. ids \in SUBSET Results
      BY <2>2, TakeType DEF OnAgentProbeResult, OnAgentProbeBatch, UpMsg
    <3>2. PICK raised \in SUBSET Fresh(ids), unsure \in SUBSET Fresh(ids) :
            /\ unsure \subseteq raised
            /\ \E lost \in {raised \ unsure, {}} : Ingest(ids, raised, unsure, lost)
      BY <2>2 DEF OnAgentProbeResult, OnAgentProbeBatch
    <3> QED
      BY <3>1, <3>2, IngestReadable
  <2> QED
    BY <2>1, <2>2, StoreSteps
<1> QED
  BY <1>1, <1>2, TypeCorrect, PTL DEF Spec
-----------------------------------------------------------------------------
(***************************************************************************)
(* Refinement of ResultCustody.  A step of a probe that stores its row is  *)
(* Measure; a handler of the server that decides the fate of results is    *)
(* Settle, which needs that they are still held: the invariant says so of  *)
(* all that is on its way; every other step moves only the custody of what *)
(* is settled.                                                             *)
(***************************************************************************)
AllHeld    == {r \in Results : Held(r)}
AllSettled == {r \in Results : fate[r] # "none"}

(* A step that changes no fate and no custody of what is unsettled.        *)
LEMMA RecustodyStep ==
  ASSUME IInv, fate' = fate,
         \A r \in Results : fate[r] = "none" => (Held(r)' <=> Held(r))
  PROVE  [Custody!Next]_(Custody!vars)
<1>1. AllSettled' = AllSettled
  BY DEF AllSettled
<1>2. AllHeld' \ AllSettled = AllHeld \ AllSettled
  BY DEF AllHeld, AllSettled
<1>3. AllHeld' \in SUBSET Results
  BY DEF AllHeld
<1>4. Custody!Recustody(AllHeld')
  BY <1>1, <1>2 DEF Custody!Recustody, AllHeld, AllSettled
<1> QED
  BY <1>3, <1>4 DEF Custody!Next

(* A handler settles results of its packet, all of them held until then.   *)
LEMMA SettleStep ==
  ASSUME IInv, cache' = cache, NEW ids \in SUBSET Results, \A r \in ids : ~Due(r),
         \A r \in Results : fate[r] # "none" => fate'[r] # "none",
         \A r \in Results : fate[r] = "none" /\ fate'[r] # "none" => r \in ids
  PROVE  [Custody!Next]_(Custody!vars)
<1>0. PICK R : R = AllSettled' \ AllSettled
  OBVIOUS
<1>1. AllHeld' = AllHeld
  BY DEF AllHeld, Held
<1>2. AllSettled \subseteq AllSettled'
  BY DEF AllSettled
<1>3. R \subseteq AllHeld
  BY <1>0 DEF AllHeld, AllSettled, IInv, NoSilentLoss, Due
<1>4. CASE R = {}
  BY <1>0, <1>1, <1>2, <1>4 DEF Custody!vars, AllHeld, AllSettled
<1>5. CASE R # {}
  <2>1. Custody!Settle(R)
    <3>1. AllSettled' = AllSettled \cup R
      BY <1>0, <1>2
    <3> QED
      BY <1>1, <1>3, <1>5, <3>1 DEF Custody!Settle, AllHeld, AllSettled
  <2>2. R \in SUBSET Results
    BY <1>0 DEF AllSettled
  <2> QED
    BY <2>1, <2>2 DEF Custody!Next
<1> QED
  BY <1>4, <1>5

LEMMA InitCustody == Init => Custody!Init
BY DEF Init, Custody!Init, Held

LEMMA NextCustody == IInv /\ [Next]_vars => [Custody!Next]_(Custody!vars)
<1> SUFFICES ASSUME IInv, [Next]_vars PROVE [Custody!Next]_(Custody!vars)
  OBVIOUS
<1> USE DEF serverVars, agentVars, bounds
<1>1. ASSUME NEW r \in Results, StoreResult(r) PROVE [Custody!Next]_(Custody!vars)
  <2>1. cache[r] = "none" /\ fate[r] = "none"
    BY <1>1 DEF StoreResult, IInv, DueIsUnknown, Due
  <2>2. cache' = [cache EXCEPT ![r] = "pending"] /\ fate' = fate
    BY <1>1 DEF StoreResult, Stored
  <2>3. AllHeld' = AllHeld \cup {r} /\ AllSettled' = AllSettled
    BY <2>2 DEF AllHeld, AllSettled, Held, IInv, TypeOK
  <2>4. r \notin AllHeld \cup AllSettled
    BY <2>1 DEF AllHeld, AllSettled, Held
  <2>5. Custody!Measure(r)
    BY <2>3, <2>4 DEF Custody!Measure, AllHeld, AllSettled
  <2> QED
    BY <2>5 DEF Custody!Next
<1>2. ASSUME NEW r \in Results, CheckLink(r) \/ EmitResult(r) \/ MarkSent(r) \/ EvictSeen(r)
      PROVE  [Custody!Next]_(Custody!vars)
  <2>1. fate' = fate
    BY <1>2 DEF CheckLink, EmitResult, MarkSent, EvictSeen
  <2>2. cache' = cache \/ cache' = SetStatus({r}, "sent")
    BY <1>2 DEF CheckLink, EmitResult, MarkSent, EvictSeen
  <2>3. \A q \in Results : fate[q] = "none" => (Held(q)' <=> Held(q))
    BY <2>2 DEF Held, SetStatus, IInv, RowsAreDue, TypeOK, Rows
  <2> QED
    BY <2>1, <2>3, RecustodyStep
<1>3. ASSUME NEW m \in down, PacketThread(m) \/ LosePacket(m)
      PROVE  [Custody!Next]_(Custody!vars)
  <2>1. fate' = fate
    BY <1>3 DEF PacketThread, OnConnect, OnAuthResult, OnAck, LosePacket
  <2>2. cache' = cache \/ (m.type = "ack" /\ cache' = SetStatus(m.ids, "acked"))
    BY <1>3 DEF PacketThread, OnConnect, OnAuthResult, OnAck, LosePacket
  <2>3. \A q \in Results : fate[q] = "none" => (Held(q)' <=> Held(q))
    BY <2>2 DEF Held, SetStatus, IInv, AcksAreDue
  <2> QED
    BY <2>1, <2>3, RecustodyStep
<1>4. ASSUME NEW s \in Sessions, BackfillThread(s) \/ OnServerDisconnect(s)
                                   \/ OnAgentAuth(s) \/ IgnorePacket(s)
      PROVE  [Custody!Next]_(Custody!vars)
  <2>1. fate' = fate /\ cache' = cache
    BY <1>4 DEF BackfillThread, BackfillRead, BackfillSend, OnServerDisconnect,
                OnAgentAuth, IgnorePacket
  <2> QED
    BY <2>1, RecustodyStep DEF Held
<1>5. ASSUME NEW s \in Sessions, OnAgentProbeResult(s) \/ OnAgentProbeBatch(s)
      PROVE  [Custody!Next]_(Custody!vars)
  <2> DEFINE ids == Packet(s).ids
  <2>1. Take(s) /\ probe' = probe /\ batch' = batch /\ cache' = cache
    BY <1>5 DEF OnAgentProbeResult, OnAgentProbeBatch
  <2>2. ids \in SUBSET Results /\ \A r \in ids : ~Due(r)
    BY <2>1, TakeType, TakeKeeps DEF IInv, UpMsg
  <2>3. PICK raised \in SUBSET Fresh(ids), unsure \in SUBSET Fresh(ids) :
          /\ unsure \subseteq raised
          /\ \E lost \in {raised \ unsure, {}} : Ingest(ids, raised, unsure, lost)
    BY <1>5 DEF OnAgentProbeResult, OnAgentProbeBatch
  <2>4. PICK lost \in {raised \ unsure, {}} : Ingest(ids, raised, unsure, lost)
    BY <2>3
  <2>5. lost \subseteq ids
    BY DEF Fresh
  <2>6. /\ \A r \in Results : fate[r] # "none" => fate'[r] # "none"
        /\ \A r \in Results : fate[r] = "none" /\ fate'[r] # "none" => r \in ids \/ r \in lost
    BY <2>1, <2>2, <2>3, <2>4, IngestSettles
  <2> QED
    BY <2>1, <2>2, <2>5, <2>6, SettleStep
<1>6. CASE CleanupOldAcked
  <2>1. PICK old \in SUBSET {r \in Results : cache[r] = "acked" /\ probe[r] = "done"} :
          cache' = SetStatus(old, "none")
    BY <1>6 DEF CleanupOldAcked
  <2>2. fate' = fate
    BY <1>6 DEF CleanupOldAcked
  <2>3. \A q \in Results : fate[q] = "none" => (Held(q)' <=> Held(q))
    BY <2>1 DEF Held, SetStatus
  <2> QED
    BY <2>2, <2>3, RecustodyStep
<1>7. ASSUME \/ \E t \in Tasks : DeleteTask(t)
             \/ Connect \/ Disconnect \/ Reboot \/ ServerRestart \/ RenameNode
             \/ UNCHANGED vars
      PROVE  [Custody!Next]_(Custody!vars)
  <2>1. fate' = fate /\ cache' = cache
    BY <1>7 DEF DeleteTask, Connect, Disconnect, Reboot, ServerRestart, RenameNode, vars
  <2> QED
    BY <2>1, RecustodyStep DEF Held
<1> QED
  BY <1>1, <1>2, <1>3, <1>4, <1>5, <1>6, <1>7 DEF Next, ProbeThread, ServerHandler

(* The agent's cache, the acknowledgements of the center and the backfill  *)
(* together keep every measured result in custody until it is settled.     *)
THEOREM CustodyKept == Spec => KeepsCustody
<1>1. Spec => []IInv
  BY InvariantHolds
<1> QED
  BY <1>1, InitCustody, NextCustody, PTL DEF Spec, KeepsCustody, Custody!Spec
-----------------------------------------------------------------------------
(***************************************************************************)
(* Nothing is stranded.  While the agent holds a session that the center   *)
(* has authenticated, a result it holds and the center knows nothing of is *)
(* on its way (OnTheirWay): its own thread will send it, a packet has it,  *)
(* the backfill of the session has read it or will read the cache, or the  *)
(* answer that starts the backfill is coming.  That a thread which looks   *)
(* at the flags does not leave its result behind rests on FlagsFollow: the *)
(* flags are up once the center has authenticated the session, or the      *)
(* answer is still to come and the backfill with it.                       *)
(***************************************************************************)
Packets(s) == {up[s][i] : i \in DOMAIN up[s]}

Opened == /\ alive \subseteq 1..session
          /\ \A s \in Sessions : s > session => Packets(s) = {}

InService == open /\ session \in authed
Asked == \E p \in Packets(session) : p.type = "auth"
Answered == \E m \in down : m.type = "auth_result" /\ m.to = session

FlagsFollow ==
  /\ open /\ (session \in authed \/ Asked) => connected
  /\ InService => authenticated \/ Answered

Unknown(r) == Held(r) /\ fate[r] = "none" /\ r \notin refused
Coming(r) ==
  \/ probe[r] \in {"check", "emit"}
  \/ Answered
  \/ backfill[session] = "read"
  \/ backfill[session] = "send" /\ r \in batch[session]
  \/ \E p \in Packets(session) : r \in p.ids
OnTheirWay == InService => \A r \in Results : Unknown(r) => Coming(r)

LinkInv == IInv /\ Opened /\ FlagsFollow /\ OnTheirWay

LEMMA SessionTyped == TypeOK /\ open => session \in Sessions
BY BoundsAssumption DEF TypeOK

(* A packet that is emitted joins those of the session the agent holds.    *)
LEMMA PacketsEmitted ==
  ASSUME TypeOK, open, NEW type, NEW ids, up' = Emitted(type, ids), NEW s \in Sessions
  PROVE  Packets(s)' = IF s = session THEN Packets(s) \cup {[type |-> type, ids |-> ids]}
                       ELSE Packets(s)
<1> DEFINE m == [type |-> type, ids |-> ids]
<1>1. session \in Sessions /\ up[session] \in Seq(UpMsg) /\ up \in [Sessions -> Seq(UpMsg)]
  BY SessionTyped DEF TypeOK
<1>2. /\ up'[session] = Append(up[session], m)
      /\ \A u \in Sessions : u # session => up'[u] = up[u]
  BY <1>1 DEF Emitted
<1> HIDE DEF m
<1>3. CASE s = session
  <2> DEFINE q == up[session]
             u == Append(q, m)
  <2>1. /\ DOMAIN q = 1..Len(q) /\ Len(q) \in Nat /\ DOMAIN u = 1..(Len(q) + 1)
        /\ u[Len(q) + 1] = m /\ \A i \in 1..Len(q) : u[i] = q[i]
    BY <1>1
  <2> HIDE DEF q, u
  <2>2. {u[i] : i \in DOMAIN u} = {q[i] : i \in DOMAIN q} \cup {m}
    <3>1. ASSUME NEW i \in DOMAIN u PROVE u[i] \in {q[j] : j \in DOMAIN q} \cup {m}
      BY <2>1
    <3>2. ASSUME NEW j \in DOMAIN q PROVE q[j] \in {u[i] : i \in DOMAIN u}
      <4>1. j \in DOMAIN u /\ u[j] = q[j]
        BY <2>1
      <4> QED
        BY <4>1
    <3>3. m \in {u[i] : i \in DOMAIN u}
      <4>1. Len(q) + 1 \in DOMAIN u
        BY <2>1
      <4> QED
        BY <2>1, <4>1
    <3> QED
      BY <3>1, <3>2, <3>3
  <2> QED
    <3>1. Packets(s) = {q[i] : i \in DOMAIN q}
      BY <1>3 DEF Packets, q
    <3>2. up'[s] = u
      BY <1>2, <1>3 DEF u, q
    <3>3. Packets(s)' = {u[i] : i \in DOMAIN u}
      BY <3>2 DEF Packets
    <3> QED
      BY <1>3, <2>2, <3>1, <3>3 DEF m
<1>4. CASE s # session
  BY <1>2, <1>4 DEF Packets
<1> QED
  BY <1>3, <1>4

(* A packet that is taken was one of its session's; the others stay.       *)
LEMMA PacketsTaken ==
  ASSUME TypeOK, NEW s \in Sessions, Take(s)
  PROVE  /\ Packet(s) \in Packets(s)
         /\ Packets(s) = Packets(s)' \cup {Packet(s)}
         /\ \A z \in Sessions : z # s => Packets(z)' = Packets(z)
<1>1. up[s] \in Seq(UpMsg) /\ up[s] # << >> /\ up \in [Sessions -> Seq(UpMsg)]
  BY DEF TypeOK, Take
<1>2. up'[s] = Tail(up[s]) /\ \A z \in Sessions : z # s => up'[z] = up[z]
  BY <1>1 DEF Take
<1> DEFINE q == up[s]
           u == Tail(q)
<1>3. /\ DOMAIN q = 1..Len(q) /\ Len(q) \in Nat /\ Len(q) # 0 /\ Head(q) = q[1]
      /\ DOMAIN u = 1..(Len(q) - 1) /\ \A i \in 1..(Len(q) - 1) : u[i] = q[i + 1]
  BY <1>1
<1> HIDE DEF q, u
<1>4. {q[i] : i \in DOMAIN q} = {u[i] : i \in DOMAIN u} \cup {Head(q)}
  <2>1. ASSUME NEW i \in DOMAIN q PROVE q[i] \in {u[j] : j \in DOMAIN u} \cup {Head(q)}
    <3>1. CASE i = 1
      BY <1>3, <3>1
    <3>2. CASE i # 1
      <4>1. i - 1 \in DOMAIN u /\ u[i - 1] = q[i]
        BY <1>3, <3>2
      <4> QED
        BY <4>1
    <3> QED
      BY <3>1, <3>2
  <2>2. ASSUME NEW j \in DOMAIN u PROVE u[j] \in {q[i] : i \in DOMAIN q}
    <3>1. j + 1 \in DOMAIN q /\ u[j] = q[j + 1]
      BY <1>3
    <3> QED
      BY <3>1
  <2>3. Head(q) \in {q[i] : i \in DOMAIN q}
    <3>1. 1 \in DOMAIN q
      BY <1>3
    <3> QED
      BY <1>3, <3>1
  <2> QED
    BY <2>1, <2>2, <2>3
<1> QED
  BY <1>2, <1>4 DEF Packets, Packet, q, u

LEMMA PacketsSame ==
  ASSUME up' = up, NEW s \in Sessions PROVE Packets(s)' = Packets(s)
BY DEF Packets

LEMMA PacketsCleared ==
  ASSUME NEW s \in Sessions, up'[s] = << >> PROVE Packets(s)' = {}
BY DEF Packets

(* Steps that touch no row, flag, thread or packet.                        *)
LEMMA LinkSame ==
  ASSUME LinkInv, IInv', UNCHANGED <<agentVars, up, down, alive, authed, fate, refused>>
  PROVE  LinkInv'
<1>1. \A s \in Sessions : Packets(s)' = Packets(s)
  BY PacketsSame
<1>2. open => session \in Sessions
  BY SessionTyped DEF LinkInv, IInv
<1>3. Opened'
  BY <1>1 DEF LinkInv, Opened, agentVars
<1>4. FlagsFollow'
  BY <1>1, <1>2 DEF LinkInv, FlagsFollow, InService, Asked, Answered, agentVars
<1>5. OnTheirWay'
  BY <1>1, <1>2 DEF LinkInv, OnTheirWay, InService, Unknown, Held, Coming, Answered, agentVars
<1> QED
  BY <1>3, <1>4, <1>5 DEF LinkInv

(* The thread of a probe.                                                  *)
LEMMA ProbeKeepsLink ==
  ASSUME LinkInv, IInv', NEW r \in Results, ProbeThread(r)
  PROVE  LinkInv'
<1>t. TypeOK /\ IInv /\ (open => session \in Sessions)
  BY SessionTyped DEF LinkInv, IInv
<1>u. /\ UNCHANGED <<connected, authenticated, session, open, backfill, batch, down>>
      /\ UNCHANGED <<alive, authed, fate, refused>>
  BY DEF ProbeThread, StoreResult, CheckLink, EmitResult, MarkSent, serverVars
<1>1. \A s \in Sessions :
        Packets(s)' = IF open /\ EmitResult(r) /\ s = session
                      THEN Packets(s) \cup {[type |-> "result", ids |-> {r}]}
                      ELSE Packets(s)
  <2>1. CASE open /\ EmitResult(r)
    <3>1. up' = Emitted("result", {r})
      BY <2>1 DEF EmitResult
    <3> QED
      BY <1>t, <2>1, <3>1, PacketsEmitted
  <2>2. CASE ~(open /\ EmitResult(r))
    <3>1. up' = up
      BY <2>2 DEF ProbeThread, StoreResult, CheckLink, EmitResult, MarkSent
    <3> QED
      BY <2>2, <3>1, PacketsSame
  <2> QED
    BY <2>1, <2>2
<1>2. Opened'
  <2>1. \A s \in Sessions : s > session => s # session
    BY DEF TypeOK
  <2> QED
    BY <1>1, <1>u, <2>1 DEF LinkInv, Opened
<1>3. FlagsFollow'
  BY <1>1, <1>t, <1>u DEF LinkInv, FlagsFollow, InService, Asked, Answered
<1>4. OnTheirWay'
  <2> SUFFICES ASSUME InService, NEW q \in Results, Unknown(q)'
               PROVE  Coming(q)'
    BY <1>u DEF OnTheirWay, InService
  <2>1. session \in Sessions
    BY <1>t DEF InService
  <2>2. CASE StoreResult(r)
    <3>1. /\ cache' = [cache EXCEPT ![r] = "pending"]
          /\ probe' = [probe EXCEPT ![r] = "check"]
      BY <2>2 DEF StoreResult, Stored
    <3>2. CASE q = r
      BY <1>t, <3>1, <3>2 DEF TypeOK, Coming
    <3>3. CASE q # r
      <4>1. Unknown(q) /\ probe'[q] = probe[q]
        BY <1>t, <1>u, <3>1, <3>3 DEF TypeOK, Unknown, Held
      <4> QED
        BY <1>1, <1>u, <2>1, <4>1 DEF LinkInv, OnTheirWay, Coming, Answered
    <3> QED
      BY <3>2, <3>3
  <2>3. CASE CheckLink(r)
    <3>1. /\ cache' = cache /\ probe[r] = "check"
          /\ probe' = [probe EXCEPT ![r] = IF connected /\ authenticated THEN "emit" ELSE "done"]
      BY <2>3 DEF CheckLink
    <3>2. Unknown(q)
      BY <1>u, <3>1 DEF Unknown, Held
    <3>3. Answered' <=> Answered
      BY <1>u DEF Answered
    <3>4. CASE q = r
      <4>1. probe'[r] = "emit" \/ ~connected \/ ~authenticated
        BY <1>t, <3>1 DEF TypeOK
      <4>2. connected /\ (authenticated \/ Answered)
        BY DEF LinkInv, FlagsFollow, InService
      <4> QED
        BY <3>3, <3>4, <4>1, <4>2 DEF Coming
    <3>5. CASE q # r
      <4>1. probe'[q] = probe[q]
        BY <1>t, <3>1, <3>5 DEF TypeOK
      <4> QED
        BY <1>1, <1>u, <2>1, <3>2, <3>3, <4>1 DEF LinkInv, OnTheirWay, Coming
    <3> QED
      BY <3>4, <3>5
  <2>4. CASE EmitResult(r)
    <3>1. /\ cache' = cache /\ open
          /\ probe' = [probe EXCEPT ![r] = "mark"]
      BY <2>4 DEF EmitResult, InService
    <3>2. Unknown(q)
      BY <1>u, <3>1 DEF Unknown, Held
    <3>3. Packets(session)' = Packets(session) \cup {[type |-> "result", ids |-> {r}]}
      BY <1>1, <1>u, <2>1, <2>4, <3>1 DEF Packets
    <3>4. CASE q = r
      <4> DEFINE p == [type |-> "result", ids |-> {r}]
      <4>1. q \in p.ids /\ p \in Packets(session)'
        BY <3>3, <3>4
      <4> HIDE DEF p
      <4> QED
        BY <4>1 DEF Coming
    <3>5. CASE q # r
      <4>1. probe'[q] = probe[q]
        BY <1>t, <3>1, <3>5 DEF TypeOK
      <4> QED
        BY <1>u, <3>2, <3>3, <4>1 DEF LinkInv, OnTheirWay, Coming, Answered
    <3> QED
      BY <3>4, <3>5
  <2>5. CASE MarkSent(r)
    <3>1. /\ cache' = SetStatus({r}, "sent") /\ probe[r] = "mark"
          /\ probe' = [probe EXCEPT ![r] = "done"]
      BY <2>5 DEF MarkSent
    <3>2. cache[q] # "acked"
      BY <1>t, <1>u DEF IInv, RowsAreDue, Unknown
    <3>3. Unknown(q)
      BY <1>t, <1>u, <3>1, <3>2 DEF Unknown, Held, SetStatus, TypeOK, Rows
    <3>4. probe'[q] = probe[q] \/ probe[q] = "mark"
      BY <1>t, <3>1 DEF TypeOK
    <3> QED
      BY <1>1, <1>u, <2>1, <2>5, <3>1, <3>3, <3>4
      DEF LinkInv, OnTheirWay, Coming, Answered, EmitResult
  <2> QED
    BY <2>2, <2>3, <2>4, <2>5 DEF ProbeThread
<1> QED
  BY <1>2, <1>3, <1>4 DEF LinkInv

(* A packet of the center, handled by the agent or lost.                   *)
LEMMA PacketKeepsLink ==
  ASSUME LinkInv, IInv', NEW m \in down, PacketThread(m) \/ LosePacket(m)
  PROVE  LinkInv'
<1>t. TypeOK /\ IInv /\ (open => session \in Sessions) /\ m \in DownMsg
  BY SessionTyped DEF LinkInv, IInv, TypeOK
<1>u. /\ UNCHANGED <<probe, session, open, batch, alive, authed, fate, refused>>
      /\ down' = down \ {m}
  BY DEF PacketThread, OnConnect, OnAuthResult, OnAck, LosePacket, serverVars, agentVars
<1>1. CASE OnConnect(m)
  <2>1. /\ connected' = TRUE /\ UNCHANGED <<cache, authenticated, backfill>>
        /\ up' = IF open THEN Emitted("auth", {}) ELSE up
        /\ m.type = "connect"
    BY <1>1 DEF OnConnect, Authenticate
  <2>2. \A s \in Sessions :
          Packets(s)' = IF open /\ s = session
                        THEN Packets(s) \cup {[type |-> "auth", ids |-> {}]}
                        ELSE Packets(s)
    <3>1. CASE open
      BY <1>t, <2>1, <3>1, PacketsEmitted
    <3>2. CASE ~open
      BY <2>1, <3>2, PacketsSame
    <3> QED
      BY <3>1, <3>2
  <2>3. Answered => Answered'
    BY <1>u, <2>1 DEF Answered
  <2>4. Opened'
    <3>1. \A s \in Sessions : s > session => s # session
      BY <1>t DEF TypeOK
    <3> QED
      BY <1>u, <2>2, <3>1 DEF LinkInv, Opened
  <2>5. FlagsFollow'
    BY <1>u, <2>1, <2>3 DEF LinkInv, FlagsFollow, InService
  <2>6. OnTheirWay'
    <3> SUFFICES ASSUME InService, NEW r \in Results, Unknown(r)
                 PROVE  Coming(r)'
      BY <1>u, <2>1 DEF OnTheirWay, InService, Unknown, Held
    <3>1. Packets(session) \subseteq Packets(session)'
      <4>1. session' = session /\ session \in Sessions
        BY <1>t, <1>u DEF InService
      <4>2. \A s \in Sessions : s = session => Packets(s) \subseteq Packets(s)'
        BY <2>2
      <4> QED
        BY <4>1, <4>2 DEF Packets
    <3>2. Coming(r)
      BY DEF LinkInv, OnTheirWay
    <3> QED
      BY <1>u, <2>1, <2>3, <3>1, <3>2 DEF Coming
  <2> QED
    BY <2>4, <2>5, <2>6 DEF LinkInv
<1>3. ASSUME UNCHANGED up PROVE Opened'
  <2>1. \A s \in Sessions : Packets(s)' = Packets(s)
    BY <1>3, PacketsSame
  <2> QED
    BY <1>u, <2>1 DEF LinkInv, Opened
<1>4. CASE OnAuthResult(m)
  <2>1. /\ authenticated' = TRUE /\ UNCHANGED <<cache, connected, up>>
        /\ backfill' = [backfill EXCEPT ![m.to] = "read"]
    BY <1>4 DEF OnAuthResult
  <2>2. m.to \in Sessions
    BY <1>t DEF DownMsg
  <2>3. Packets(session)' = Packets(session)
    BY <1>u, <2>1 DEF Packets
  <2>4. FlagsFollow'
    BY <1>u, <2>1, <2>3 DEF LinkInv, FlagsFollow, InService, Asked
  <2>5. OnTheirWay'
    <3> SUFFICES ASSUME InService, NEW r \in Results, Unknown(r)
                 PROVE  Coming(r)'
      BY <1>u, <2>1 DEF OnTheirWay, InService, Unknown, Held
    <3>1. Coming(r) /\ session \in Sessions
      BY <1>t DEF LinkInv, OnTheirWay, InService
    <3>2. CASE m.to = session
      <4>1. backfill'[session] = "read"
        BY <1>t, <2>1, <2>2, <3>2 DEF TypeOK
      <4> QED
        BY <1>u, <4>1 DEF Coming
    <3>3. CASE m.to # session
      <4>1. backfill'[session] = backfill[session]
        BY <1>t, <2>1, <3>1, <3>3 DEF TypeOK
      <4>2. Answered => Answered'
        BY <1>u, <3>3 DEF Answered
      <4> QED
        BY <1>u, <2>3, <3>1, <4>1, <4>2 DEF Coming
    <3> QED
      BY <3>2, <3>3
  <2> QED
    BY <1>3, <2>1, <2>4, <2>5 DEF LinkInv
<1>5. CASE OnAck(m) \/ LosePacket(m)
  <2>1. UNCHANGED <<connected, authenticated, backfill, up>>
    BY <1>5 DEF OnAck, LosePacket, agentVars
  <2>2. InService /\ Answered => Answered'
    <3>1. InService => m.type # "auth_result" \/ m.to # session
      BY <1>5 DEF OnAck, LosePacket, InService
    <3> QED
      BY <1>u, <3>1 DEF Answered
  <2>3. \A r \in Results : Unknown(r)' => Unknown(r)
    <3>1. CASE OnAck(m)
      BY <1>u, <3>1 DEF OnAck, Unknown, Held, SetStatus
    <3>2. CASE LosePacket(m)
      BY <1>u, <3>2 DEF LosePacket, agentVars, Unknown, Held
    <3> QED
      BY <1>5, <3>1, <3>2
  <2>4. Packets(session)' = Packets(session)
    BY <1>u, <2>1 DEF Packets
  <2>5. FlagsFollow'
    BY <1>u, <2>1, <2>2, <2>4 DEF LinkInv, FlagsFollow, InService, Asked
  <2>6. OnTheirWay'
    <3> SUFFICES ASSUME InService, NEW r \in Results, Unknown(r)
                 PROVE  Coming(r)'
      BY <1>u, <2>3 DEF OnTheirWay, InService
    <3>1. Coming(r)
      BY DEF LinkInv, OnTheirWay
    <3> QED
      BY <1>u, <2>1, <2>2, <2>4, <3>1 DEF Coming
  <2> QED
    BY <1>3, <2>1, <2>5, <2>6 DEF LinkInv
<1> QED
  BY <1>1, <1>4, <1>5 DEF PacketThread

(* The thread of a backfill, of this session or of an earlier one.         *)
LEMMA BackfillKeepsLink ==
  ASSUME LinkInv, IInv', NEW s \in Sessions, BackfillThread(s)
  PROVE  LinkInv'
<1>t. TypeOK /\ IInv /\ (open => session \in Sessions)
  BY SessionTyped DEF LinkInv, IInv
<1>u. UNCHANGED <<probe, cache, connected, authenticated, session, open, down, alive, authed,
                  fate, refused>>
  BY DEF BackfillThread, BackfillRead, BackfillSend, serverVars
<1>v. /\ Answered' <=> Answered
      /\ \A r \in Results : Unknown(r)' <=> Unknown(r)
  BY <1>u DEF Answered, Unknown, Held
<1>1. CASE BackfillRead(s)
  <2>1. /\ batch' = [batch EXCEPT ![s] = Unacked] /\ up' = up
        /\ backfill' = [backfill EXCEPT ![s] = IF Unacked = {} THEN "done" ELSE "send"]
    BY <1>1 DEF BackfillRead
  <2>2. \A z \in Sessions : Packets(z)' = Packets(z)
    BY <2>1, PacketsSame
  <2>3. Packets(session)' = Packets(session)
    BY <1>u, <2>1 DEF Packets
  <2>4. Opened' /\ FlagsFollow'
    BY <1>u, <1>v, <2>2, <2>3 DEF LinkInv, Opened, FlagsFollow, InService, Asked
  <2>5. OnTheirWay'
    <3> SUFFICES ASSUME InService, NEW r \in Results, Unknown(r)
                 PROVE  Coming(r)'
      BY <1>u, <1>v DEF OnTheirWay, InService
    <3>1. Coming(r) /\ session \in Sessions
      BY <1>t DEF LinkInv, OnTheirWay, InService
    <3>2. CASE s = session
      <4>1. r \in Unacked
        BY DEF Unknown, Held, Unacked
      <4>2. backfill'[session] = "send" /\ r \in batch'[session]
        BY <1>t, <2>1, <3>2, <4>1 DEF TypeOK
      <4> QED
        BY <1>u, <4>2 DEF Coming
    <3>3. CASE s # session
      <4>1. backfill'[session] = backfill[session] /\ batch'[session] = batch[session]
        BY <1>t, <2>1, <3>1, <3>3 DEF TypeOK
      <4> QED
        BY <1>u, <1>v, <2>3, <3>1, <4>1 DEF Coming
    <3> QED
      BY <3>2, <3>3
  <2> QED
    BY <2>4, <2>5 DEF LinkInv
<1>2. ASSUME open, backfill[s] = "send", NEW chunk \in SUBSET batch[s],
             up' = Emitted("batch", chunk),
             batch' = [batch EXCEPT ![s] = @ \ chunk],
             backfill' = [backfill EXCEPT ![s] = IF batch[s] = chunk THEN "done" ELSE "send"]
      PROVE  LinkInv'
  <2> DEFINE p == [type |-> "batch", ids |-> chunk]
  <2>1. \A z \in Sessions :
          Packets(z)' = IF z = session THEN Packets(z) \cup {p} ELSE Packets(z)
    BY <1>2, <1>t, PacketsEmitted
  <2>2. Packets(session)' = Packets(session) \cup {p}
    BY <1>2, <1>t, <1>u, <2>1 DEF Packets
  <2>3. p.type # "auth" /\ p.ids = chunk
    OBVIOUS
  <2> HIDE DEF p
  <2>4. Opened'
    <3>1. \A z \in Sessions : z > session => z # session
      BY <1>t DEF TypeOK
    <3> QED
      BY <1>u, <2>1, <3>1 DEF LinkInv, Opened
  <2>5. FlagsFollow'
    BY <1>u, <1>v, <2>2, <2>3 DEF LinkInv, FlagsFollow, InService, Asked
  <2>6. OnTheirWay'
    <3> SUFFICES ASSUME InService, NEW r \in Results, Unknown(r)
                 PROVE  Coming(r)'
      BY <1>u, <1>v DEF OnTheirWay, InService
    <3>1. Coming(r) /\ session \in Sessions
      BY <1>t DEF LinkInv, OnTheirWay, InService
    <3>2. CASE s = session /\ r \in batch[session]
      <4>1. CASE r \in chunk
        BY <2>2, <2>3, <4>1 DEF Coming
      <4>2. CASE r \notin chunk
        <5>1. backfill'[session] = "send" /\ r \in batch'[session]
          BY <1>2, <1>t, <3>2, <4>2 DEF TypeOK
        <5> QED
          BY <1>u, <5>1 DEF Coming
      <4> QED
        BY <4>1, <4>2
    <3>3. CASE s = session /\ r \notin batch[session]
      BY <1>2, <1>u, <1>v, <2>2, <3>1, <3>3 DEF Coming
    <3>4. CASE s # session
      <4>1. backfill'[session] = backfill[session] /\ batch'[session] = batch[session]
        BY <1>2, <1>t, <3>1, <3>4 DEF TypeOK
      <4> QED
        BY <1>u, <1>v, <2>2, <3>1, <4>1 DEF Coming
    <3> QED
      BY <3>2, <3>3, <3>4
  <2> QED
    BY <2>4, <2>5, <2>6 DEF LinkInv
<1>3. ASSUME ~open, up' = up PROVE LinkInv'
  <2>1. \A z \in Sessions : Packets(z)' = Packets(z)
    BY <1>3, PacketsSame
  <2> QED
    BY <1>3, <1>u, <2>1 DEF LinkInv, Opened, FlagsFollow, OnTheirWay, InService
<1> QED
  BY <1>1, <1>2, <1>3 DEF BackfillThread, BackfillSend

(* A handler of results: what it takes off the session is settled or       *)
(* refused afterwards.                                                     *)
LEMMA HandlerKeepsLink ==
  ASSUME LinkInv, IInv', NEW s \in Sessions, Take(s), down \subseteq down',
         UNCHANGED <<agentVars, alive, authed>>,
         \A r \in Results : fate[r] # "none" => fate'[r] # "none",
         \A r \in Packet(s).ids : r \in Results => fate'[r] # "none" \/ r \in refused',
         \A r \in refused : r \in refused' \/ r \in Packet(s).ids
  PROVE  LinkInv'
<1>t. TypeOK /\ IInv /\ (open => session \in Sessions)
  BY SessionTyped DEF LinkInv, IInv
<1>u. UNCHANGED <<probe, cache, connected, authenticated, session, open, backfill, batch>>
  BY DEF agentVars
<1>1. \A z \in Sessions : /\ Packets(z)' \subseteq Packets(z)
                          /\ \A p \in Packets(z) : p \in Packets(z)' \/ p = Packet(s)
  BY <1>t, PacketsTaken
<1>2. Answered => Answered'
  BY <1>u DEF Answered
<1>3. Opened'
  BY <1>1, <1>u DEF LinkInv, Opened
<1>4. open => /\ Packets(session)' \subseteq Packets(session)
              /\ \A p \in Packets(session) : p \in Packets(session)' \/ p = Packet(s)
  BY <1>1, <1>t, <1>u DEF Packets
<1>5. FlagsFollow'
  BY <1>2, <1>4, <1>u DEF LinkInv, FlagsFollow, InService, Asked
<1>6. OnTheirWay'
  <2> SUFFICES ASSUME InService, NEW r \in Results, Unknown(r)'
               PROVE  Coming(r)'
    BY <1>u DEF OnTheirWay, InService
  <2>1. r \notin Packet(s).ids
    BY DEF Unknown
  <2>2. Unknown(r)
    BY <1>u, <2>1 DEF Unknown, Held
  <2>3. Coming(r)
    BY <2>2 DEF LinkInv, OnTheirWay
  <2> QED
    BY <1>2, <1>4, <1>u, <2>1, <2>3 DEF Coming, InService
<1> QED
  BY <1>3, <1>5, <1>6 DEF LinkInv

LEMMA ServerKeepsLink ==
  ASSUME LinkInv, IInv', NEW s \in Sessions, ServerHandler(s)
  PROVE  LinkInv'
<1>t. TypeOK /\ IInv /\ (open => session \in Sessions)
  BY SessionTyped DEF LinkInv, IInv
<1>1. CASE OnAgentAuth(s)
  <2>1. /\ Take(s) /\ Packet(s).type = "auth" /\ authed' = authed \cup {s}
        /\ down' = Reply(s, "auth_result", {})
        /\ UNCHANGED <<probe, cache, connected, authenticated, session, open, backfill, batch,
                       alive, fate, refused>>
    BY <1>1 DEF OnAgentAuth, agentVars
  <2>2. \A z \in Sessions : Packets(z)' \subseteq Packets(z)
    BY <1>t, <2>1, PacketsTaken
  <2>3. Opened'
    BY <2>1, <2>2 DEF LinkInv, Opened
  <2>4. CASE open /\ s = session
    <3>1. Answered'
      <4> DEFINE m == [type |-> "auth_result", to |-> s, ids |-> {}]
      <4>1. m \in down' /\ m.type = "auth_result" /\ m.to = session
        BY <2>1, <2>4 DEF Reply
      <4> HIDE DEF m
      <4> QED
        BY <2>1, <4>1 DEF Answered
    <3>2. connected
      <4>1. Packet(s) \in Packets(s)
        BY <1>t, <2>1, PacketsTaken
      <4> QED
        BY <2>1, <2>4, <4>1 DEF LinkInv, FlagsFollow, Asked
    <3> QED
      BY <2>1, <2>3, <3>1, <3>2 DEF LinkInv, FlagsFollow, OnTheirWay, InService, Coming
  <2>5. CASE ~(open /\ s = session)
    <3>1. down' = down /\ (InService' <=> InService)
      BY <2>1, <2>5 DEF Reply, InService
    <3>2. open => Packets(session)' = Packets(session)
      <4>1. \A z \in Sessions : z # s => Packets(z)' = Packets(z)
        BY <1>t, <2>1, PacketsTaken
      <4> QED
        BY <1>t, <2>1, <2>5, <4>1 DEF Packets
    <3>3. FlagsFollow'
      BY <2>1, <2>5, <3>1, <3>2 DEF LinkInv, FlagsFollow, InService, Asked, Answered
    <3>4. OnTheirWay'
      <4>1. \A r \in Results : Unknown(r)' <=> Unknown(r)
        BY <2>1 DEF Unknown, Held
      <4>2. ASSUME InService, NEW r \in Results, Coming(r) PROVE Coming(r)'
        BY <2>1, <3>1, <3>2, <4>2 DEF Coming, Answered, InService
      <4> QED
        BY <3>1, <4>1, <4>2 DEF LinkInv, OnTheirWay
    <3> QED
      BY <2>3, <3>3, <3>4 DEF LinkInv
  <2> QED
    BY <2>4, <2>5
<1>2. CASE IgnorePacket(s)
  <2>1. /\ Take(s) /\ s \notin authed /\ down' = down
        /\ UNCHANGED <<probe, cache, connected, authenticated, session, open, backfill, batch,
                       alive, authed, fate, refused>>
    BY <1>2 DEF IgnorePacket, agentVars, serverVars
  <2>2. \A z \in Sessions : Packets(z)' \subseteq Packets(z)
    BY <1>t, <2>1, PacketsTaken
  <2>3. open => Packets(session)' \subseteq Packets(session)
    BY <1>t, <2>1, <2>2 DEF Packets
  <2>4. InService => Packets(session)' = Packets(session)
    <3>1. \A z \in Sessions : z # s => Packets(z)' = Packets(z)
      BY <1>t, <2>1, PacketsTaken
    <3> QED
      BY <1>t, <2>1, <3>1 DEF Packets, InService
  <2>5. Opened' /\ FlagsFollow'
    BY <2>1, <2>2, <2>3 DEF LinkInv, Opened, FlagsFollow, InService, Asked, Answered
  <2>6. OnTheirWay'
    <3>1. \A r \in Results : Unknown(r)' <=> Unknown(r)
      BY <2>1 DEF Unknown, Held
    <3>2. ASSUME InService, NEW r \in Results, Coming(r) PROVE Coming(r)'
      BY <2>1, <2>4, <3>2 DEF Coming, Answered
    <3> QED
      BY <2>1, <3>1, <3>2 DEF LinkInv, OnTheirWay, InService
  <2> QED
    BY <2>5, <2>6 DEF LinkInv
<1>3. CASE OnAgentProbeResult(s) \/ OnAgentProbeBatch(s)
  <2> DEFINE ids == Packet(s).ids
  <2>1. Take(s) /\ UNCHANGED <<agentVars, alive, authed>>
    BY <1>3 DEF OnAgentProbeResult, OnAgentProbeBatch
  <2>2. PICK raised \in SUBSET Fresh(ids), unsure \in SUBSET Fresh(ids), lost \in SUBSET Fresh(ids) :
          /\ unsure \subseteq raised /\ lost \subseteq raised
          /\ Ingest(ids, raised, unsure, lost)
          /\ \/ refused' = refused \ ids /\ lost = raised \ unsure
             \/ refused' = (refused \ ids) \cup raised
          /\ \E acked : down' = Reply(s, "ack", acked)
    <3>1. CASE OnAgentProbeResult(s)
      <4>1. PICK raised \in SUBSET Fresh(ids) : \E unsure \in SUBSET raised :
              /\ Ingest(ids, raised, unsure, raised \ unsure)
              /\ down' = Reply(s, "ack", ids) /\ refused' = refused \ ids
        BY <3>1 DEF OnAgentProbeResult
      <4>2. PICK unsure \in SUBSET raised :
              /\ Ingest(ids, raised, unsure, raised \ unsure)
              /\ down' = Reply(s, "ack", ids) /\ refused' = refused \ ids
        BY <4>1
      <4>3. unsure \in SUBSET Fresh(ids) /\ raised \ unsure \in SUBSET Fresh(ids)
        OBVIOUS
      <4> QED
        BY <4>2, <4>3
    <3>2. CASE OnAgentProbeBatch(s)
      <4>1. PICK raised \in SUBSET Fresh(ids) : \E unsure \in SUBSET raised :
              /\ Ingest(ids, raised, unsure, {})
              /\ down' = Reply(s, "ack", ids \ raised)
              /\ refused' = (refused \ ids) \cup raised
        BY <3>2 DEF OnAgentProbeBatch
      <4>2. PICK unsure \in SUBSET raised :
              /\ Ingest(ids, raised, unsure, {})
              /\ down' = Reply(s, "ack", ids \ raised)
              /\ refused' = (refused \ ids) \cup raised
        BY <4>1
      <4>3. unsure \in SUBSET Fresh(ids) /\ {} \in SUBSET Fresh(ids)
        OBVIOUS
      <4> QED
        BY <4>2, <4>3
    <3> QED
      BY <1>3, <3>1, <3>2
  <2>3. ids \in SUBSET Results
    BY <1>t, <2>1, TakeType DEF UpMsg
  <2>4. \A r \in ids : ~Due(r)
    BY <1>t, <2>1, TakeKeeps DEF agentVars
  <2> HIDE DEF ids
  <2>5. /\ \A r \in Results : fate[r] # "none" => fate'[r] # "none"
        /\ \A r \in (ids \ raised) \cup lost : r \in Results => fate'[r] # "none"
    BY <1>t, <2>1, <2>2, <2>3, <2>4, IngestSettles DEF agentVars
  <2>6. \A r \in unsure : fate'[r] # "none"
    BY <2>2, <2>3 DEF Ingest, Fresh
  <2>7. \A r \in ids : r \in Results => fate'[r] # "none" \/ r \in refused'
    BY <2>2, <2>5, <2>6
  <2>8. \A r \in refused : r \in refused' \/ r \in ids
    BY <2>2
  <2>9. down \subseteq down'
    BY <2>2 DEF Reply
  <2> QED
    BY <2>1, <2>5, <2>7, <2>8, <2>9, HandlerKeepsLink DEF ids
<1> QED
  BY <1>1, <1>2, <1>3 DEF ServerHandler

(* The agent leaves its session or opens another one, or the center ends   *)
(* one: only the flags of an earlier one and the packets left matter.      *)
LEMMA LinkEnds ==
  ASSUME LinkInv, IInv', session' = session, alive' \subseteq alive,
         \A s \in Sessions : Packets(s)' \subseteq Packets(s),
         ~InService',
         open' => open /\ (connected => connected')
  PROVE  LinkInv'
<1>1. open => session \in Sessions
  BY SessionTyped DEF LinkInv, IInv
<1>2. Opened'
  BY DEF LinkInv, Opened
<1>3. open => Packets(session)' \subseteq Packets(session)
  BY <1>1 DEF Packets
<1>4. FlagsFollow'
  <2>1. ASSUME open', Asked' PROVE connected'
    <3>1. open /\ Asked
      BY <1>3, <2>1 DEF Asked
    <3>2. connected
      BY <3>1 DEF LinkInv, FlagsFollow
    <3> QED
      BY <2>1, <3>2
  <2>2. open' => session' \notin authed'
    BY DEF InService
  <2> QED
    BY <2>1, <2>2 DEF FlagsFollow
<1>5. OnTheirWay'
  BY DEF OnTheirWay
<1> QED
  BY <1>2, <1>4, <1>5 DEF LinkInv

LEMMA ConnectKeepsLink ==
  ASSUME LinkInv, IInv', Connect
  PROVE  LinkInv'
<1>1. /\ ~open /\ session < MaxSessions /\ session' = session + 1
      /\ alive' = alive \cup {session + 1}
      /\ UNCHANGED <<up, authed>>
  BY DEF Connect
<1>2. session \in Nat /\ session + 1 \in Sessions /\ authed \subseteq 1..session
  <2>1. session \in Nat /\ authed \subseteq alive /\ alive \subseteq 1..session
    BY DEF LinkInv, IInv, TypeOK, Opened
  <2> QED
    BY <1>1, <2>1, BoundsAssumption
<1>3. \A s \in Sessions : Packets(s)' = Packets(s)
  BY <1>1, PacketsSame
<1>4. Opened'
  <2>1. alive' \subseteq 1..session'
    BY <1>1, <1>2 DEF LinkInv, Opened
  <2>2. \A s \in Sessions : s > session' => Packets(s)' = {}
    BY <1>1, <1>2, <1>3 DEF LinkInv, Opened
  <2> QED
    BY <2>1, <2>2 DEF Opened
<1>5. ~InService'
  BY <1>1, <1>2 DEF InService
<1>6. ~Asked'
  <2> DEFINE n == session + 1
  <2>1. Packets(n) = {} /\ up' = up /\ session' = n
    BY <1>1, <1>2 DEF LinkInv, Opened
  <2> HIDE DEF n
  <2>2. Packets(session)' = {}
    BY <2>1 DEF Packets
  <2> QED
    BY <2>2 DEF Asked
<1>7. FlagsFollow' /\ OnTheirWay'
  BY <1>5, <1>6 DEF FlagsFollow, OnTheirWay, InService
<1> QED
  BY <1>4, <1>7 DEF LinkInv

LEMMA ServerDisconnectKeepsLink ==
  ASSUME LinkInv, IInv', NEW s \in Sessions, OnServerDisconnect(s)
  PROVE  LinkInv'
<1>t. TypeOK /\ (open => session \in Sessions)
  BY SessionTyped DEF LinkInv, IInv
<1>1. /\ alive' = alive \ {s} /\ authed' = authed \ {s} /\ up' = [up EXCEPT ![s] = << >>]
      /\ UNCHANGED <<probe, cache, connected, authenticated, session, open, backfill, batch,
                     down, fate, refused>>
  BY DEF OnServerDisconnect, agentVars
<1>2. /\ \A z \in Sessions : Packets(z)' \subseteq Packets(z)
      /\ \A z \in Sessions : z # s => Packets(z)' = Packets(z)
  <2>1. up'[s] = << >> /\ \A z \in Sessions : z # s => up'[z] = up[z]
    BY <1>1, <1>t DEF TypeOK
  <2>2. Packets(s)' = {}
    BY <2>1, PacketsCleared
  <2>3. \A z \in Sessions : z # s => Packets(z)' = Packets(z)
    BY <2>1 DEF Packets
  <2> QED
    BY <2>2, <2>3
<1>3. CASE session = s \/ ~InService
  <2>1. ~InService'
    BY <1>1, <1>3 DEF InService
  <2> QED
    BY <1>1, <1>2, <2>1, LinkEnds
<1>4. CASE session # s /\ InService
  <2>1. Packets(session)' = Packets(session)
    BY <1>1, <1>2, <1>4, <1>t DEF Packets, InService
  <2>2. InService' /\ (Answered' <=> Answered)
    BY <1>1, <1>4 DEF InService, Answered
  <2>3. Opened'
    BY <1>1, <1>2 DEF LinkInv, Opened
  <2>4. FlagsFollow'
    BY <1>1, <1>4, <2>2 DEF LinkInv, FlagsFollow, InService
  <2>5. OnTheirWay'
    <3>1. \A r \in Results : (Unknown(r)' <=> Unknown(r)) /\ (Coming(r) => Coming(r)')
      BY <1>1, <2>1, <2>2 DEF Unknown, Held, Coming
    <3> QED
      BY <1>4, <3>1 DEF LinkInv, OnTheirWay
  <2> QED
    BY <2>3, <2>4, <2>5 DEF LinkInv
<1> QED
  BY <1>3, <1>4

LEMMA NextLinkInv == LinkInv /\ [Next]_vars => LinkInv'
<1> SUFFICES ASSUME LinkInv, [Next]_vars PROVE LinkInv'
  OBVIOUS
<1>t. TypeOK /\ IInv'
  BY NextIInv DEF LinkInv, IInv
<1>1. ASSUME NEW r \in Results, ProbeThread(r) PROVE LinkInv'
  BY <1>1, <1>t, ProbeKeepsLink
<1>2. ASSUME NEW r \in Results, EvictSeen(r) PROVE LinkInv'
  BY <1>2, <1>t, LinkSame DEF EvictSeen
<1>3. ASSUME NEW m \in down, PacketThread(m) \/ LosePacket(m) PROVE LinkInv'
  BY <1>3, <1>t, PacketKeepsLink
<1>4. ASSUME NEW s \in Sessions, BackfillThread(s) PROVE LinkInv'
  BY <1>4, <1>t, BackfillKeepsLink
<1>5. ASSUME NEW s \in Sessions, ServerHandler(s) PROVE LinkInv'
  BY <1>5, <1>t, ServerKeepsLink
<1>6. ASSUME NEW s \in Sessions, OnServerDisconnect(s) PROVE LinkInv'
  BY <1>6, <1>t, ServerDisconnectKeepsLink
<1>7. ASSUME NEW t \in Tasks, DeleteTask(t) PROVE LinkInv'
  BY <1>7, <1>t, LinkSame DEF DeleteTask
<1>8. CASE CleanupOldAcked
  <2>1. PICK old \in SUBSET {r \in Results : cache[r] = "acked" /\ probe[r] = "done"} :
          cache' = SetStatus(old, "none")
    BY <1>8 DEF CleanupOldAcked
  <2>2. UNCHANGED <<probe, connected, authenticated, session, open, backfill, batch, up, down,
                    alive, authed, fate, refused>>
    BY <1>8 DEF CleanupOldAcked, serverVars
  <2>3. \A r \in Results : Unknown(r)' => Unknown(r)
    BY <2>1, <2>2 DEF Unknown, Held, SetStatus
  <2>4. \A s \in Sessions : Packets(s)' = Packets(s)
    BY <2>2, PacketsSame
  <2>5. Packets(session)' = Packets(session)
    BY <2>2 DEF Packets
  <2>6. Opened' /\ FlagsFollow'
    BY <2>2, <2>4, <2>5 DEF LinkInv, Opened, FlagsFollow, InService, Asked, Answered
  <2>7. OnTheirWay'
    BY <2>2, <2>3, <2>5 DEF LinkInv, OnTheirWay, InService, Coming, Answered
  <2> QED
    BY <1>t, <2>6, <2>7 DEF LinkInv
<1>9. CASE Connect
  BY <1>9, <1>t, ConnectKeepsLink
<1>10. CASE Disconnect \/ Reboot
  <2>1. UNCHANGED <<session, up, alive>> /\ ~open'
    BY <1>10 DEF Disconnect, Reboot, serverVars
  <2>2. \A s \in Sessions : Packets(s)' \subseteq Packets(s)
    BY <2>1, PacketsSame
  <2> QED
    BY <1>t, <2>1, <2>2, LinkEnds DEF InService
<1>11. CASE ServerRestart
  <2>1. /\ UNCHANGED <<session, open, connected>> /\ alive' = {} /\ authed' = {}
        /\ up' = [s \in Sessions |-> << >>]
    BY <1>11 DEF ServerRestart, agentVars
  <2>2. \A s \in Sessions : Packets(s)' \subseteq Packets(s)
    BY <2>1, PacketsCleared
  <2>3. ~InService' /\ alive' \subseteq alive
    BY <2>1 DEF InService
  <2> QED
    BY <1>t, <2>1, <2>2, <2>3, LinkEnds
<1>12. CASE RenameNode
  BY <1>12, <1>t, LinkSame DEF RenameNode
<1>13. CASE UNCHANGED vars
  BY <1>13, <1>t, LinkSame DEF vars, serverVars
<1> QED
  BY <1>1, <1>2, <1>3, <1>4, <1>5, <1>6, <1>7, <1>8, <1>9, <1>10, <1>11, <1>12, <1>13 DEF Next

LEMMA InitLinkInv == Init => LinkInv
<1> SUFFICES ASSUME Init PROVE LinkInv
  OBVIOUS
<1>1. Opened
  BY DEF Init, Opened, Packets
<1>2. FlagsFollow /\ OnTheirWay
  BY DEF Init, FlagsFollow, OnTheirWay, InService
<1> QED
  BY <1>1, <1>2, InitIInv DEF LinkInv

(* Once an authenticated session is quiet, no result waits for a next one, *)
(* other than those whose write in a batch raised (on_auth_result, which   *)
(* sets the flag before _backfill, and send_probe_result).                 *)
THEOREM NothingIsStranded == Spec => []NothingStranded
<1>1. LinkInv => NothingStranded
  <2> SUFFICES ASSUME LinkInv, Quiet
               PROVE  /\ connected /\ authenticated
                      /\ \A r \in Results : Held(r) => fate[r] # "none" \/ r \in refused
    BY DEF NothingStranded
  <2>1. InService /\ ~Answered /\ Packets(session) = {}
    BY DEF Quiet, InService, Answered, Packets
  <2>2. session \in Sessions
    BY SessionTyped DEF LinkInv, IInv, Quiet
  <2>3. \A r \in Results : ~Coming(r)
    BY <2>1, <2>2 DEF Quiet, Coming
  <2> QED
    BY <2>1, <2>3 DEF LinkInv, FlagsFollow, OnTheirWay, InService, Unknown
<1> QED
  BY <1>1, InitLinkInv, NextLinkInv, PTL DEF Spec
-----------------------------------------------------------------------------
(***************************************************************************)
(* Copies.  A result that is in the dedup cache has been written once      *)
(* more, at most, than entries were forgotten and writes raised; one that  *)
(* is not, as often at most: its next write puts it into the cache or      *)
(* raises, and an entry that leaves the cache is counted as forgotten.     *)
(***************************************************************************)
Copies(r) == {x \in points : x[1] = r}
Allowed(r) == (IF r \in seen THEN 1 ELSE 0) + forgets + badWrites
FewCopies == \A r \in Results : Cardinality(Copies(r)) <= Allowed(r)
CopyInv == TypeOK /\ FewCopies

LEMMA PairsFinite ==
  ASSUME NEW S \in SUBSET (Results \X Names), NEW r \in Results
  PROVE  LET C == {x \in S : x[1] = r} IN IsFiniteSet(C) /\ Cardinality(C) \in Nat
<1> DEFINE C == {x \in S : x[1] = r}
<1>1. IsFiniteSet({r})
  BY FS_Singleton
<1>2. 0 \in Int /\ MaxRenames \in Int
  BY BoundsAssumption
<1>3. IsFiniteSet(Names)
  BY <1>2, FS_Interval DEF Names
<1>4. IsFiniteSet({r} \X Names)
  BY <1>1, <1>3, FS_Product
<1>5. C \subseteq {r} \X Names
  OBVIOUS
<1>6. IsFiniteSet(C)
  BY <1>4, <1>5, FS_Subset
<1> HIDE DEF C
<1>7. Cardinality(C) \in Nat
  BY <1>6, FS_CardinalityType
<1> QED
  BY <1>6, <1>7 DEF C

LEMMA CopiesFinite ==
  ASSUME TypeOK, NEW r \in Results
  PROVE  IsFiniteSet(Copies(r)) /\ Cardinality(Copies(r)) \in Nat
<1>1. points \in SUBSET (Results \X Names)
  BY DEF TypeOK
<1> QED
  BY <1>1, PairsFinite DEF Copies

LEMMA AddOne ==
  ASSUME NEW S, NEW x, IsFiniteSet(S), Cardinality(S) \in Nat
  PROVE  /\ IsFiniteSet(S \cup {x})
         /\ Cardinality(S \cup {x}) \in Nat
         /\ Cardinality(S \cup {x}) <= Cardinality(S) + 1
<1>1. /\ IsFiniteSet(S \cup {x})
      /\ Cardinality(S \cup {x}) = IF x \in S THEN Cardinality(S) ELSE Cardinality(S) + 1
  BY FS_AddElement
<1>2. CASE x \in S
  <2>1. Cardinality(S \cup {x}) = Cardinality(S)
    BY <1>1, <1>2
  <2> QED
    BY <1>1, <2>1
<1>3. CASE x \notin S
  <2>1. Cardinality(S \cup {x}) = Cardinality(S) + 1
    BY <1>1, <1>3
  <2> QED
    BY <1>1, <2>1
<1> QED
  BY <1>2, <1>3

(* A write adds one copy at most, to what is written and to nothing else.  *)
LEMMA WriteCopies ==
  ASSUME TypeOK, NEW written \in SUBSET Results, Write(written), NEW r \in Results,
         TypeOK'
  PROVE  /\ Cardinality(Copies(r)') <= Cardinality(Copies(r)) + 1
         /\ r \notin written => Cardinality(Copies(r)') <= Cardinality(Copies(r))
         /\ Cardinality(Copies(r)') \in Nat
<1>1. PICK kept \in SUBSET written :
        points' = {x \in points : x[2] = nodeName =>
                                    \A q \in kept : ~SamePoint(x[1], q)}
                    \cup (kept \X {nodeName})
  BY DEF Write
<1>2. /\ IsFiniteSet(Copies(r)) /\ Cardinality(Copies(r)) \in Nat
      /\ IsFiniteSet(Copies(r)') /\ Cardinality(Copies(r)') \in Nat
  <2>1. points \in SUBSET (Results \X Names) /\ points' \in SUBSET (Results \X Names)
    BY DEF TypeOK
  <2> QED
    BY <2>1, PairsFinite DEF Copies
<1>3. Copies(r)' \subseteq Copies(r) \cup {<<r, nodeName>>}
  BY <1>1 DEF Copies
<1>4. r \notin written => Copies(r)' \subseteq Copies(r)
  BY <1>1 DEF Copies
<1>5. /\ IsFiniteSet(Copies(r) \cup {<<r, nodeName>>})
      /\ Cardinality(Copies(r) \cup {<<r, nodeName>>}) \in Nat
      /\ Cardinality(Copies(r) \cup {<<r, nodeName>>}) <= Cardinality(Copies(r)) + 1
  BY <1>2, AddOne
<1>6. Cardinality(Copies(r)') <= Cardinality(Copies(r) \cup {<<r, nodeName>>})
  BY <1>3, <1>5, FS_Subset
<1>8. r \notin written => Cardinality(Copies(r)') <= Cardinality(Copies(r))
  BY <1>2, <1>4, FS_Subset
<1> QED
  BY <1>2, <1>5, <1>6, <1>8

LEMMA IngestCopies ==
  ASSUME CopyInv, TypeOK', NEW ids \in SUBSET Results, NEW raised \in SUBSET Fresh(ids),
         NEW unsure \in SUBSET raised, NEW lost,
         Ingest(ids, raised, unsure, lost), forgets' = forgets
  PROVE  FewCopies'
<1> SUFFICES ASSUME NEW r \in Results PROVE Cardinality(Copies(r)') <= Allowed(r)'
  BY DEF FewCopies
<1> DEFINE written == (Fresh(ids) \ raised) \cup unsure
<1>1. /\ Write(written) /\ seen' = seen \cup (Fresh(ids) \ raised)
      /\ badWrites' = badWrites + Cardinality(raised)
  BY DEF Ingest
<1>2. Fresh(ids) \subseteq Results /\ Fresh(ids) \cap seen = {}
  BY DEF Fresh
<1>3. /\ Cardinality(Copies(r)') <= Cardinality(Copies(r)) + 1
      /\ r \notin written => Cardinality(Copies(r)') <= Cardinality(Copies(r))
      /\ Cardinality(Copies(r)') \in Nat
  BY <1>1, <1>2, WriteCopies DEF CopyInv
<1>4. /\ Cardinality(Copies(r)) \in Nat /\ Cardinality(Copies(r)) <= Allowed(r)
      /\ forgets \in Nat /\ badWrites \in Nat
  <2>1. TypeOK /\ FewCopies
    BY DEF CopyInv
  <2>2. Cardinality(Copies(r)) \in Nat
    BY <2>1, CopiesFinite
  <2>3. forgets \in Nat /\ badWrites \in Nat
    BY <2>1 DEF TypeOK
  <2> QED
    BY <2>1, <2>2, <2>3 DEF FewCopies
<1>5. Cardinality(Copies(r)') \in Nat
  BY <1>3
<1>6. IsFiniteSet(raised) /\ Cardinality(raised) \in Nat
  BY <1>2, ResultsAssumption, FS_Subset, FS_CardinalityType
<1>7. CASE r \in Fresh(ids) \ raised
  <2>1. r \notin seen /\ r \in seen'
    BY <1>1, <1>2, <1>7
  <2> QED
    BY <1>1, <1>3, <1>4, <1>5, <1>6, <2>1 DEF Allowed
<1>8. CASE r \in unsure
  <2>1. r \in raised /\ r \notin seen /\ r \notin seen'
    BY <1>1, <1>2, <1>8
  <2>2. Cardinality(raised) # 0
    BY <1>6, <2>1, FS_EmptySet
  <2> QED
    BY <1>1, <1>3, <1>4, <1>5, <1>6, <2>1, <2>2 DEF Allowed
<1>9. CASE r \notin written
  <2>1. r \in seen => r \in seen'
    BY <1>1
  <2> QED
    BY <1>1, <1>3, <1>4, <1>5, <1>6, <1>9, <2>1 DEF Allowed
<1> QED
  BY <1>7, <1>8, <1>9

LEMMA NextCopyInv == CopyInv /\ [Next]_vars => CopyInv'
<1> SUFFICES ASSUME CopyInv, [Next]_vars PROVE FewCopies'
  BY NextTypeOK DEF CopyInv
<1>t. TypeOK /\ TypeOK' /\ FewCopies
  BY NextTypeOK DEF CopyInv
<1>n. \A r \in Results : Cardinality(Copies(r)) \in Nat
  BY <1>t, CopiesFinite
<1>f. forgets \in Nat /\ badWrites \in Nat
  BY <1>t DEF TypeOK
<1>1. ASSUME UNCHANGED <<points, seen, forgets, badWrites>> PROVE FewCopies'
  BY <1>1, <1>t DEF FewCopies, Copies, Allowed
<1>2. ASSUME points' = points, badWrites' = badWrites, forgets' = forgets + 1 PROVE FewCopies'
  <2> SUFFICES ASSUME NEW r \in Results PROVE Cardinality(Copies(r)) <= Allowed(r)'
    BY <1>2 DEF FewCopies, Copies
  <2>1. Cardinality(Copies(r)) <= Allowed(r)
    BY <1>t DEF FewCopies
  <2> QED
    BY <1>2, <1>f, <1>n, <2>1 DEF Allowed
<1>3. ASSUME NEW r \in Results, ProbeThread(r) PROVE FewCopies'
  BY <1>1, <1>3
  DEF ProbeThread, StoreResult, CheckLink, EmitResult, MarkSent, serverVars, bounds
<1>4. ASSUME NEW r \in Results, EvictSeen(r) PROVE FewCopies'
  BY <1>2, <1>4 DEF EvictSeen
<1>5. ASSUME NEW m \in down, PacketThread(m) \/ LosePacket(m) PROVE FewCopies'
  BY <1>1, <1>5
  DEF PacketThread, OnConnect, OnAuthResult, OnAck, LosePacket, serverVars, bounds
<1>6. ASSUME NEW s \in Sessions, BackfillThread(s) PROVE FewCopies'
  BY <1>1, <1>6 DEF BackfillThread, BackfillRead, BackfillSend, serverVars, bounds
<1>7. ASSUME NEW s \in Sessions, ServerHandler(s) PROVE FewCopies'
  <2>1. CASE OnAgentAuth(s) \/ IgnorePacket(s)
    BY <1>1, <2>1 DEF OnAgentAuth, IgnorePacket, serverVars, bounds
  <2>2. CASE OnAgentProbeResult(s) \/ OnAgentProbeBatch(s)
    <3> DEFINE ids == Packet(s).ids
    <3>1. Take(s) /\ forgets' = forgets
      BY <2>2 DEF OnAgentProbeResult, OnAgentProbeBatch
    <3>2. ids \in SUBSET Results
      BY <1>t, <3>1, TakeType DEF UpMsg
    <3>3. \E raised \in SUBSET Fresh(ids) : \E unsure \in SUBSET raised :
            Ingest(ids, raised, unsure, raised \ unsure) \/ Ingest(ids, raised, unsure, {})
      BY <2>2 DEF OnAgentProbeResult, OnAgentProbeBatch
    <3> HIDE DEF ids
    <3> QED
      BY <1>t, <3>1, <3>2, <3>3, IngestCopies
  <2> QED
    BY <1>7, <2>1, <2>2 DEF ServerHandler
<1>8. ASSUME NEW s \in Sessions, OnServerDisconnect(s) PROVE FewCopies'
  BY <1>1, <1>8 DEF OnServerDisconnect
<1>9. ASSUME NEW t \in Tasks, DeleteTask(t) PROVE FewCopies'
  BY <1>1, <1>9 DEF DeleteTask, bounds
<1>10. CASE CleanupOldAcked \/ Connect \/ Disconnect \/ Reboot \/ RenameNode
  BY <1>1, <1>10 DEF CleanupOldAcked, Connect, Disconnect, Reboot, RenameNode, serverVars, bounds
<1>11. CASE ServerRestart
  BY <1>2, <1>11 DEF ServerRestart
<1>12. CASE UNCHANGED vars
  BY <1>1, <1>12 DEF vars, serverVars, bounds
<1> QED
  BY <1>3, <1>4, <1>5, <1>6, <1>7, <1>8, <1>9, <1>10, <1>11, <1>12 DEF Next

(* A result is in the store twice only if the dedup cache lost it in       *)
(* between, or a write that raised was stored all the same                 *)
(* (_check_dedup and the tags of write_probe_result).                      *)
THEOREM FewDuplicates == Spec => []DuplicatesOnlyAfterForgetting
<1>1. Init => CopyInv
  <2> SUFFICES ASSUME Init PROVE FewCopies
    BY InitTypeOK DEF CopyInv
  <2>1. \A r \in Results : Copies(r) = {}
    BY DEF Init, Copies
  <2>2. Cardinality({}) = 0
    BY FS_EmptySet
  <2>3. \A r \in Results : Allowed(r) = 0
    BY DEF Init, Allowed
  <2> QED
    BY <2>1, <2>2, <2>3 DEF FewCopies
<1>2. CopyInv => DuplicatesOnlyAfterForgetting
  <2> SUFFICES ASSUME CopyInv, NEW r \in Results
               PROVE  Cardinality(Copies(r)) <= 1 + forgets + badWrites
    BY DEF DuplicatesOnlyAfterForgetting, Copies
  <2>1. Cardinality(Copies(r)) \in Nat /\ forgets \in Nat /\ badWrites \in Nat
    BY CopiesFinite DEF CopyInv, TypeOK
  <2> QED
    BY <2>1 DEF CopyInv, FewCopies, Allowed
<1> QED
  BY <1>1, <1>2, NextCopyInv, PTL DEF Spec
=============================================================================
