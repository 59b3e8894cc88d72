--------------------------- MODULE NodeStatus_proofs ---------------------------
(***************************************************************************)
(* Proofs about the status of a node, for every window, threshold and      *)
(* bound: type correctness, that a connected node is in service, that the  *)
(* columns "enabled" and "status" agree, and that the status follows the   *)
(* heartbeats: a silent node is not online, a steady one is.               *)
(***************************************************************************)
EXTENDS NodeStatus, FiniteSetTheorems, TLAPS

USE DEF Sessions, Ages, Silent, Steady

LEMMA InitTypeOK == Init => TypeOK
<1> SUFFICES ASSUME Init PROVE TypeOK
  OBVIOUS
<1>1. /\ 0 \in 0..Silent /\ 0 \in 0..Steady /\ Interval \in 0..Interval /\ 0 \in 0..MaxBurst
      /\ 0 \in 0..MaxSessions /\ 0 \in 0..MaxRestarts /\ 0 \in 0..MaxCheckFails
  BY BoundsAssumption
<1> QED
  BY <1>1 DEF Init, TypeOK

(* A heartbeat of this tick.                                               *)
LEMMA HeartbeatType ==
  ASSUME NEW n \in 1..MaxBurst
  PROVE  <<0, n>> \in Heartbeats
BY BoundsAssumption DEF Heartbeats

LEMMA NextTypeOK == TypeOK /\ [Next]_vars => TypeOK'
<1> SUFFICES ASSUME TypeOK, [Next]_vars PROVE TypeOK'
  OBVIOUS
<1> USE BoundsAssumption
<1>1. ASSUME NEW s \in Sessions, OnAgentAuth(s) PROVE TypeOK'
  <2>1. CASE Accept(s)
    BY <1>1, <2>1 DEF OnAgentAuth, Accept, TypeOK, agent, bounds
  <2>2. CASE Reject(s)
    <3>1. authed' \subseteq alive' /\ conn' \in authed' \cup {0}
      BY <1>1, <2>2 DEF OnAgentAuth, Reject, TypeOK
    <3> QED
      BY <1>1, <2>2, <3>1 DEF OnAgentAuth, Reject, TypeOK, node, agent, bounds
  <2> QED
    BY <1>1, <2>1, <2>2 DEF OnAgentAuth
<1>2. ASSUME NEW s \in Sessions, OnAgentHeartbeat(s) PROVE TypeOK'
  <2>1. beats' \subseteq Heartbeats
    BY <1>2, HeartbeatType DEF OnAgentHeartbeat, TypeOK
  <2> QED
    BY <1>2, <2>1 DEF OnAgentHeartbeat, TypeOK, node, server, agent, bounds
<1>3. ASSUME NEW s \in Sessions, OnDisconnect(s) PROVE TypeOK'
  <2>1. authed' \subseteq alive' /\ alive' \subseteq Sessions /\ conn' \in authed' \cup {0}
    BY <1>3 DEF OnDisconnect, TypeOK
  <2> QED
    BY <1>3, <2>1 DEF OnDisconnect, TypeOK, node, agent, bounds
<1>4. CASE Connect
  BY <1>4 DEF Connect, TypeOK, node, bounds
<1>5. CASE Disconnect
  BY <1>5 DEF Disconnect, TypeOK, node, server, bounds
<1>6. CASE Tick
  <2>1. beats' \subseteq Heartbeats
    BY <1>6 DEF Tick, Aged
  <2>2. silence' \in 0..Silent /\ steady' \in 0..Steady /\ sinceCheck' \in 0..Interval
    BY <1>6 DEF Tick, TypeOK, Least
  <2> QED
    BY <1>6, <2>1, <2>2 DEF Tick, TypeOK, node, server, agent, bounds
<1>7. CASE HeartbeatCheck
  <2>1. NewStatus \in {"online", "offline"}
    BY DEF NewStatus
  <2>2. status' \in {"registered", "online", "offline", "disabled", "deleted"}
    BY <1>7, <2>1 DEF HeartbeatCheck, TypeOK
  <2>3. broken' \in BOOLEAN
    BY <1>7 DEF HeartbeatCheck, TypeOK
  <2>4. checkFails' \in 0..MaxCheckFails
    BY <1>7 DEF HeartbeatCheck, TypeOK
  <2> QED
    BY <1>7, <2>2, <2>3, <2>4 DEF HeartbeatCheck, TypeOK, server, agent
<1>8. CASE DisableNode
  BY <1>8 DEF DisableNode, TypeOK, node, server, agent, bounds
<1>9. CASE EnableNode
  BY <1>9 DEF EnableNode, TypeOK, server, agent, bounds
<1>10. CASE DeleteNode
  BY <1>10 DEF DeleteNode, TypeOK, server, agent, bounds
<1>11. CASE ServerRestart
  <2>1. beats' \subseteq Heartbeats
    BY <1>11 DEF ServerRestart
  <2>2. /\ restarts' \in 0..MaxRestarts /\ sinceCheck' \in 0..Interval
        /\ silence' \in 0..Silent /\ steady' \in 0..Steady
    BY <1>11 DEF ServerRestart, TypeOK
  <2> QED
    BY <1>11, <2>1, <2>2 DEF ServerRestart, TypeOK, node
<1>12. CASE UNCHANGED vars
  BY <1>12 DEF vars, node, server, agent, bounds, TypeOK
<1> QED
  BY <1>1, <1>2, <1>3, <1>4, <1>5, <1>6, <1>7, <1>8, <1>9, <1>10, <1>11, <1>12 DEF Next

(* Every reachable state of the node and its connections is typed.         *)
THEOREM TypeCorrect == Spec => []TypeOK
BY InitTypeOK, NextTypeOK, PTL DEF Spec

-----------------------------------------------------------------------------
(* The two facts about the columns support each other: a disabled or       *)
(* deleted node has no connection, so that only an authentication, which   *)
(* looks at "enabled", can bring it back.                                  *)
ServiceInv == TypeOK /\ ConnectedIsInService /\ DisabledIsDisabled

LEMMA NextServiceInv == ServiceInv /\ [Next]_vars => ServiceInv'
<1> SUFFICES ASSUME ServiceInv, [Next]_vars
             PROVE  ConnectedIsInService' /\ DisabledIsDisabled'
  BY NextTypeOK DEF ServiceInv
<1>1. TypeOK
  BY DEF ServiceInv
<1> USE DEF ConnectedIsInService, DisabledIsDisabled
<1>2. ASSUME NEW s \in Sessions, OnAgentAuth(s)
      PROVE  ConnectedIsInService' /\ DisabledIsDisabled'
  BY <1>1, <1>2 DEF OnAgentAuth, Accept, Reject, ServiceInv, node, TypeOK
<1>3. ASSUME NEW s \in Sessions, OnAgentHeartbeat(s) \/ OnDisconnect(s)
      PROVE  ConnectedIsInService' /\ DisabledIsDisabled'
  BY <1>3 DEF OnAgentHeartbeat, OnDisconnect, ServiceInv, node, server
<1>4. CASE Connect \/ Disconnect \/ Tick
  BY <1>4 DEF Connect, Disconnect, Tick, ServiceInv, node, server
<1>5. CASE HeartbeatCheck
  <2>1. /\ conn' = conn /\ enabled' = enabled
        /\ \/ status' = status
           \/ Checked /\ status' \in {"online", "offline"}
    BY <1>5 DEF HeartbeatCheck, NewStatus, server
  <2> QED
    BY <1>1, <2>1 DEF Checked, ServiceInv, TypeOK
<1>6. CASE DisableNode
  BY <1>1, <1>6 DEF DisableNode, ServiceInv, node, server, TypeOK
<1>7. CASE EnableNode
  BY <1>1, <1>7 DEF EnableNode, ServiceInv, server, TypeOK
<1>8. CASE DeleteNode \/ ServerRestart
  BY <1>8 DEF DeleteNode, ServerRestart, ServiceInv, node, server
<1>9. CASE UNCHANGED vars
  BY <1>9 DEF vars, node, server, ServiceInv
<1> QED
  BY <1>1, <1>2, <1>3, <1>4, <1>5, <1>6, <1>7, <1>8, <1>9 DEF Next

LEMMA ServiceHolds == Spec => []ServiceInv
<1>1. Init => ServiceInv
  BY InitTypeOK DEF Init, ServiceInv, ConnectedIsInService, DisabledIsDisabled
<1> QED
  BY <1>1, NextServiceInv, PTL DEF Spec

(* A node the center would send tasks to is enabled, exists and is watched *)
(* by the checker.                                                         *)
THEOREM ConnectedInService == Spec => []ConnectedIsInService
<1>1. ServiceInv => ConnectedIsInService
  BY DEF ServiceInv
<1> QED
  BY <1>1, ServiceHolds, PTL

(* The columns "enabled" and "status" of a node always agree.              *)
THEOREM DisabledStays == Spec => []DisabledIsDisabled
<1>1. ServiceInv => DisabledIsDisabled
  BY DEF ServiceInv
<1> QED
  BY <1>1, ServiceHolds, PTL

-----------------------------------------------------------------------------
(* The heartbeats of the window.                                           *)

LEMMA BeatsAreFinite ==
  ASSUME TypeOK
  PROVE  IsFiniteSet(beats) /\ Cardinality(beats) \in Nat
<1>1. IsFiniteSet(Ages) /\ IsFiniteSet(1..MaxBurst)
  BY BoundsAssumption, FS_Interval
<1>2. IsFiniteSet(Heartbeats)
  BY <1>1, FS_Product DEF Heartbeats
<1>3. IsFiniteSet(beats)
  BY <1>2, FS_Subset DEF TypeOK
<1> QED
  BY <1>3, FS_CardinalityType

(* A heartbeat of each of n ages makes n heartbeats.                       *)
LEMMA BeatsPerAge ==
  ASSUME TypeOK, NEW n \in Nat,
         \A a \in 1..n : \E k \in 1..MaxBurst : <<a, k>> \in beats
  PROVE  Cardinality(beats) >= n
<1> DEFINE nth(a) == CHOOSE k \in 1..MaxBurst : <<a, k>> \in beats
           one == [a \in 1..n |-> <<a, nth(a)>>]
<1>1. \A a \in 1..n : one[a] = <<a, nth(a)>> /\ one[a] \in beats
  OBVIOUS
<1>2. one \in [1..n -> beats]
  BY <1>1
<1>3. \A a, b \in 1..n : one[a] = one[b] => a = b
  BY <1>1
<1> HIDE DEF one
<1>4. one \in Injection(1..n, beats)
  BY <1>2, <1>3 DEF Injection, IsInjective
<1>5. Cardinality(1..n) <= Cardinality(beats)
  BY <1>4, BeatsAreFinite, FS_Injection
<1>6. Cardinality(1..n) = n
  BY FS_Interval
<1> QED
  BY <1>5, <1>6, BeatsAreFinite

-----------------------------------------------------------------------------
(* Silence.  No heartbeat is younger than the silence, so a pass of the    *)
(* checker that comes when it is as long as the window counts none; the    *)
(* next pass is never more than an interval away.                          *)

BeatsAreOlder == \A b \in beats : b[1] >= silence
OnlineIsRecent == ~broken /\ status = "online" => silence < Window + sinceCheck

SilenceInv == ServiceInv /\ BeatsAreOlder /\ OnlineIsRecent

LEMMA NumbersType ==
  ASSUME TypeOK
  PROVE  /\ silence \in Nat /\ steady \in Nat /\ sinceCheck \in Nat /\ sinceCheck <= Interval
         /\ Window \in Nat \ {0} /\ Interval \in Nat \ {0} /\ Threshold \in Nat
         /\ Threshold + 1 < Window /\ MaxBurst \in Nat
         /\ \A b \in beats : b[1] \in Ages /\ b[1] \in Nat /\ b[1] < Window
BY BoundsAssumption DEF TypeOK, Heartbeats

LEMMA NextBeatsAreOlder ==
  TypeOK /\ BeatsAreOlder /\ [Next]_vars => BeatsAreOlder'
<1> SUFFICES ASSUME TypeOK, BeatsAreOlder, [Next]_vars PROVE BeatsAreOlder'
  OBVIOUS
<1>0. silence \in Nat /\ \A b \in beats : b[1] \in Nat
  BY NumbersType
<1>1. CASE beats' = beats /\ silence' = silence
  BY <1>1 DEF BeatsAreOlder
<1>2. ASSUME NEW s \in Sessions, OnAgentAuth(s) PROVE BeatsAreOlder'
  BY <1>0, <1>2 DEF OnAgentAuth, Accept, Reject, BeatsAreOlder
<1>3. ASSUME NEW s \in Sessions, OnAgentHeartbeat(s) PROVE BeatsAreOlder'
  <2>1. \A b \in beats' : b[1] \in Nat
    BY <1>0, <1>3 DEF OnAgentHeartbeat
  <2> QED
    BY <1>3, <2>1 DEF OnAgentHeartbeat, BeatsAreOlder
<1>4. CASE Tick
  <2> SUFFICES ASSUME NEW b \in Heartbeats, b[1] > 0, <<b[1] - 1, b[2]>> \in beats
               PROVE  b[1] >= silence'
    BY <1>4 DEF Tick, Aged, BeatsAreOlder
  <2>1. b[1] - 1 >= silence /\ b[1] \in Nat
    BY BoundsAssumption DEF BeatsAreOlder, Heartbeats
  <2>2. silence' <= silence + 1
    BY <1>0, <1>4, BoundsAssumption DEF Tick, Least
  <2>3. silence' \in Nat
    BY <1>0, <1>4, BoundsAssumption DEF Tick, Least
  <2> QED
    BY <1>0, <2>1, <2>2, <2>3
<1>5. CASE ServerRestart
  BY <1>5 DEF ServerRestart, BeatsAreOlder
<1> QED
  BY <1>1, <1>2, <1>3, <1>4, <1>5
     DEF Next, OnDisconnect, Connect, Disconnect, HeartbeatCheck, DisableNode, EnableNode,
         DeleteNode, vars

LEMMA NextOnlineIsRecent == SilenceInv /\ [Next]_vars => OnlineIsRecent'
<1> SUFFICES ASSUME SilenceInv, [Next]_vars PROVE OnlineIsRecent'
  OBVIOUS
<1>0. TypeOK /\ OnlineIsRecent
  BY DEF SilenceInv, ServiceInv
<1>n. /\ silence \in Nat /\ sinceCheck \in Nat /\ Window \in Nat \ {0} /\ Interval \in Nat
      /\ Threshold \in Nat
  BY <1>0, NumbersType
<1>1. CASE /\ broken' = broken /\ silence' = silence /\ sinceCheck' = sinceCheck
           /\ status' = "online" => status = "online"
  BY <1>0, <1>1 DEF OnlineIsRecent
<1>2. ASSUME NEW s \in Sessions, OnAgentAuth(s) \/ OnAgentHeartbeat(s) PROVE OnlineIsRecent'
  <2>1. CASE silence' = 0 /\ sinceCheck' = sinceCheck
    BY <1>n, <2>1 DEF OnlineIsRecent
  <2> QED
    BY <1>1, <1>2, <2>1 DEF OnAgentAuth, OnAgentHeartbeat, Accept, Reject, node
<1>3. CASE Tick
  <2>1. silence' <= silence + 1 /\ silence' \in Nat /\ sinceCheck' = sinceCheck + 1
    BY <1>n, <1>3 DEF Tick, Least
  <2> QED
    BY <1>0, <1>n, <1>3, <2>1 DEF Tick, OnlineIsRecent, node
<1>4. CASE HeartbeatCheck
  <2> SUFFICES ASSUME ~broken', status' = "online" PROVE silence < Window
    BY <1>4, <1>n DEF HeartbeatCheck, OnlineIsRecent
  <2>1. ~broken /\ status' = IF Checked THEN NewStatus ELSE status
    BY <1>4 DEF HeartbeatCheck
  <2>2. Checked
    BY <1>0, <2>1 DEF Checked, SilenceInv, ServiceInv, DisabledIsDisabled, TypeOK
  <2>3. Cardinality(beats) > Threshold
    BY <2>1, <2>2 DEF NewStatus, IsOnline, HeartbeatCount
  <2>4. beats # {}
    BY <1>n, <2>3, FS_EmptySet
  <2>5. PICK b \in beats : b[1] >= silence /\ b[1] \in Nat /\ b[1] < Window
    BY <1>0, <2>4, NumbersType DEF SilenceInv, BeatsAreOlder
  <2> QED
    BY <1>n, <2>5
<1>5. CASE EnableNode
  BY <1>1, <1>5 DEF EnableNode
<1>6. CASE ServerRestart
  BY <1>n, <1>6 DEF ServerRestart, OnlineIsRecent
<1> QED
  BY <1>1, <1>2, <1>3, <1>4, <1>5, <1>6
     DEF Next, OnDisconnect, Connect, Disconnect, DisableNode, DeleteNode, vars, node

(* A node that fell silent is not online for longer than the window and    *)
(* one pass of the checker, whoever reconnects, ends old sessions, enables *)
(* or deletes it; as long as the checker's database session works.         *)
THEOREM SilentGoesOffline == Spec => []SilentIsNotOnline
<1>1. Init => ServiceInv
  BY InitTypeOK DEF Init, ServiceInv, ConnectedIsInService, DisabledIsDisabled
<1>2. Init => SilenceInv
  <2> SUFFICES ASSUME Init PROVE BeatsAreOlder /\ OnlineIsRecent
    BY <1>1 DEF SilenceInv
  <2> QED
    BY DEF Init, BeatsAreOlder, OnlineIsRecent
<1>3. SilenceInv /\ [Next]_vars => SilenceInv'
  BY NextServiceInv, NextBeatsAreOlder, NextOnlineIsRecent DEF SilenceInv, ServiceInv
<1>4. SilenceInv => SilentIsNotOnline
  BY NumbersType DEF SilenceInv, ServiceInv, OnlineIsRecent, SilentIsNotOnline
<1> QED
  BY <1>2, <1>3, <1>4, PTL DEF Spec

-----------------------------------------------------------------------------
(* Steadiness.  Each of the ticks in a row left a heartbeat of its age, so *)
(* a pass of the checker after more ticks than the threshold counts enough *)
(* of them.                                                                *)

SteadyIsHeard ==
  \A a \in 1..(Window - 1) : a <= steady => \E n \in 1..MaxBurst : <<a, n>> \in beats
OfflineIsBrief ==
  ~broken /\ conn # 0 /\ status # "online" => steady < Threshold + 1 + sinceCheck

SteadyInv == ServiceInv /\ SteadyIsHeard /\ OfflineIsBrief

LEMMA NextSteadyIsHeard ==
  TypeOK /\ SteadyIsHeard /\ [Next]_vars => SteadyIsHeard'
<1> SUFFICES ASSUME TypeOK, SteadyIsHeard, [Next]_vars PROVE SteadyIsHeard'
  OBVIOUS
<1>0. steady \in Nat /\ Window \in Nat /\ Threshold \in Nat /\ Interval \in Nat
  BY NumbersType
<1>1. CASE beats \subseteq beats' /\ steady' = steady
  BY <1>1 DEF SteadyIsHeard
<1>2. CASE Tick
  <2> SUFFICES ASSUME NEW a \in 1..(Window - 1), a <= steady'
               PROVE  \E n \in 1..MaxBurst : <<a, n>> \in beats'
    BY DEF SteadyIsHeard
  <2>1. HeardNow /\ a <= steady + 1
    BY <1>0, <1>2 DEF Tick, Least
  <2>2. PICK n \in 1..MaxBurst : <<a - 1, n>> \in beats
    <3>1. CASE a = 1
      BY <2>1, <3>1 DEF HeardNow
    <3>2. CASE a # 1
      <4>1. a - 1 \in 1..(Window - 1) /\ a - 1 <= steady
        BY <1>0, <2>1, <3>2
      <4> QED
        BY <4>1 DEF SteadyIsHeard
    <3> QED
      BY <3>1, <3>2
  <2>3. <<a, n>> \in Heartbeats
    BY <1>0 DEF Heartbeats
  <2>4. <<a, n>>[1] = a /\ <<a, n>>[2] = n /\ a > 0
    BY <1>0
  <2>5. <<a, n>> \in Aged
    BY <2>2, <2>3, <2>4 DEF Aged
  <2> QED
    BY <1>2, <2>5 DEF Tick
<1>3. CASE ServerRestart
  BY <1>0, <1>3 DEF ServerRestart, SteadyIsHeard
<1> QED
  BY <1>1, <1>2, <1>3
     DEF Next, OnAgentAuth, OnAgentHeartbeat, OnDisconnect, Connect, Disconnect,
         HeartbeatCheck, DisableNode, EnableNode, DeleteNode, vars

LEMMA NextOfflineIsBrief == SteadyInv /\ [Next]_vars => OfflineIsBrief'
<1> SUFFICES ASSUME SteadyInv, [Next]_vars PROVE OfflineIsBrief'
  OBVIOUS
<1>0. TypeOK /\ OfflineIsBrief
  BY DEF SteadyInv, ServiceInv
<1>n. /\ steady \in Nat /\ sinceCheck \in Nat /\ Window \in Nat /\ Interval \in Nat
      /\ Threshold \in Nat /\ Threshold + 1 < Window
  BY <1>0, NumbersType
<1>1. CASE /\ broken' = broken /\ steady' = steady /\ sinceCheck' = sinceCheck
           /\ status' = status /\ conn' \in {conn, 0}
  BY <1>0, <1>1 DEF OfflineIsBrief
<1>2. ASSUME NEW s \in Sessions, OnAgentAuth(s) PROVE OfflineIsBrief'
  <2>1. CASE status' = "online"
    BY <2>1 DEF OfflineIsBrief
  <2> QED
    BY <1>1, <1>2, <2>1 DEF OnAgentAuth, Accept, Reject, node
<1>3. ASSUME NEW s \in Sessions, OnAgentHeartbeat(s) \/ OnDisconnect(s) PROVE OfflineIsBrief'
  BY <1>1, <1>3 DEF OnAgentHeartbeat, OnDisconnect, node, server
<1>4. CASE Tick
  <2>1. steady' <= steady + 1 /\ steady' \in Nat /\ sinceCheck' = sinceCheck + 1
    BY <1>n, <1>4 DEF Tick, Least
  <2> QED
    BY <1>0, <1>n, <1>4, <2>1 DEF Tick, OfflineIsBrief, node, server
<1>5. CASE HeartbeatCheck
  <2> SUFFICES ASSUME ~broken', conn # 0, status' # "online", ~(steady < Threshold + 1)
               PROVE  FALSE
    BY <1>5, <1>n DEF HeartbeatCheck, OfflineIsBrief, server
  <2>1. ~broken /\ status' = IF Checked THEN NewStatus ELSE status
    BY <1>5 DEF HeartbeatCheck
  <2>2. Checked
    BY DEF Checked, SteadyInv, ServiceInv, ConnectedIsInService
  <2>3. \A a \in 1..(Threshold + 1) : \E n \in 1..MaxBurst : <<a, n>> \in beats
    BY <1>n DEF SteadyInv, SteadyIsHeard
  <2>4. Cardinality(beats) >= Threshold + 1 /\ Cardinality(beats) \in Nat
    BY <1>0, <1>n, <2>3, BeatsPerAge, BeatsAreFinite
  <2>5. IsOnline
    BY <1>n, <2>4 DEF IsOnline, HeartbeatCount
  <2> QED
    BY <2>1, <2>2, <2>5 DEF NewStatus
<1>6. CASE DisableNode \/ DeleteNode
  BY <1>1, <1>6 DEF DisableNode, DeleteNode, node, server, OfflineIsBrief
<1>7. CASE EnableNode
  <2>1. conn # 0 => status' = status
    BY <1>7 DEF EnableNode, SteadyInv, ServiceInv, ConnectedIsInService
  <2> QED
    BY <1>0, <1>7, <2>1 DEF EnableNode, server, OfflineIsBrief
<1>8. CASE ServerRestart
  BY <1>8 DEF ServerRestart, OfflineIsBrief
<1> QED
  BY <1>1, <1>2, <1>3, <1>4, <1>5, <1>6, <1>7, <1>8
     DEF Next, Connect, Disconnect, vars, node, server

(* A connected node that is heard in every tick is online as soon as the   *)
(* threshold is passed and the checker had a pass, and stays online: as    *)
(* the window is longer than the threshold, it does not flap.              *)
THEOREM SteadyGoesOnline == Spec => []SteadyIsOnline
<1>1. Init => SteadyInv
  <2> SUFFICES ASSUME Init PROVE SteadyInv
    OBVIOUS
  <2>1. ServiceInv
    BY InitTypeOK DEF Init, ServiceInv, ConnectedIsInService, DisabledIsDisabled
  <2>2. SteadyIsHeard
    BY BoundsAssumption DEF Init, SteadyIsHeard
  <2> QED
    BY <2>1, <2>2 DEF Init, SteadyInv, OfflineIsBrief
<1>2. SteadyInv /\ [Next]_vars => SteadyInv'
  BY NextServiceInv, NextSteadyIsHeard, NextOfflineIsBrief DEF SteadyInv, ServiceInv
<1>3. SteadyInv => SteadyIsOnline
  BY NumbersType DEF SteadyInv, ServiceInv, OfflineIsBrief, SteadyIsOnline
<1> QED
  BY <1>1, <1>2, <1>3, PTL DEF Spec
=============================================================================
