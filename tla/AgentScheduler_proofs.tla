------------------------- MODULE AgentScheduler_proofs -------------------------
(***************************************************************************)
(* Proofs about the scheduler of the agent, for any number of tasks,       *)
(* packets and threads: type correctness; that a thread that was stopped   *)
(* reports at most once more; and that packets which do not overlap leave  *)
(* exactly one thread for every task they ask for, and never two.          *)
(***************************************************************************)
EXTENDS AgentScheduler, FiniteSetTheorems, TLAPS

USE TasksAssumption, NoConfigAssumption, BoundsAssumption

-----------------------------------------------------------------------------
(* Packets, and what handlers and probing threads do to their next step.   *)
LEMMA GotoTyped ==
  ASSUME TypeOK, NEW h \in Packets, NEW step \in Steps, Goto(h, step)
  PROVE  pc' \in [Packets -> Steps]
BY DEF TypeOK, Goto

LEMMA PutTyped ==
  ASSUME NEW d \in Dict, NEW t \in Tasks, NEW c \in Settings \cup {NoConfig}
  PROVE  [d EXCEPT ![t] = c] \in Dict
BY DEF Dict

LEMMA ChangeTyped ==
  ASSUME TypeOK, NEW t \in Tasks, NEW c \in Settings \cup {NoConfig}, Change(t, c)
  PROVE  db' \in Dict /\ changes' \in 0..MaxChanges
<1>1. db' \in Dict
  BY PutTyped DEF Change, TypeOK
<1>2. changes' \in 0..MaxChanges
  BY DEF Change, TypeOK
<1> QED
  BY <1>1, <1>2

LEMMA EmptyTyped == Empty \in Dict
BY DEF Empty, Dict

LEMMA ReceiveTyped ==
  ASSUME TypeOK, NEW type \in Kinds, NEW d \in Dict, NEW first \in Steps,
         Receive(type, d, first)
  PROVE  /\ sent' \in 0..MaxPackets /\ sent + 1 \in Packets
         /\ kind' \in [Packets -> Kinds] /\ list' \in [Packets -> Dict]
         /\ pc' \in [Packets -> Steps] /\ overlap' \in BOOLEAN
<1>1. sent \in 0..MaxPackets /\ sent < MaxPackets /\ sent' = sent + 1
  BY DEF Receive, TypeOK
<1>2. sent + 1 \in Packets /\ sent' \in 0..MaxPackets
  BY <1>1 DEF Packets
<1>3. overlap' \in BOOLEAN
  BY DEF Receive, TypeOK
<1> QED
  BY <1>2, <1>3 DEF Receive, TypeOK

LEMMA NextTypeOK == TypeOK /\ [Next]_vars => TypeOK'
<1> SUFFICES ASSUME TypeOK, [Next]_vars PROVE TypeOK'
  OBVIOUS
<1>1. ASSUME NEW t \in Tasks, CreateTask(t) PROVE TypeOK'
  <2>1. PICK c \in Settings :
          /\ Change(t, c) /\ Receive("assign", [Empty EXCEPT ![t] = c], "start")
          /\ told' = [told EXCEPT ![t] = c]
    BY <1>1 DEF CreateTask
  <2>2. [Empty EXCEPT ![t] = c] \in Dict
    BY EmptyTyped, PutTyped
  <2>3. db' \in Dict /\ told' \in Dict /\ changes' \in 0..MaxChanges
    BY <2>1, ChangeTyped, PutTyped DEF TypeOK
  <2>4. /\ sent' \in 0..MaxPackets /\ sent + 1 \in Packets
        /\ kind' \in [Packets -> Kinds] /\ list' \in [Packets -> Dict]
        /\ pc' \in [Packets -> Steps] /\ overlap' \in BOOLEAN
    BY <2>1, <2>2, ReceiveTyped DEF Kinds, Steps
  <2>5. cur' \in [Packets -> Tasks] /\ retired' \in [Tasks -> {"new", "live", "deleted"}]
    BY <1>1, <2>4 DEF CreateTask, TypeOK
  <2>6. UNCHANGED <<tasks, event, todo, probing>>
    BY <2>1 DEF Receive
  <2> QED
    BY <2>3, <2>4, <2>5, <2>6 DEF TypeOK, probing
<1>2. ASSUME NEW t \in Tasks, DeleteTask(t) PROVE TypeOK'
  <2>1. Change(t, NoConfig) /\ Receive("remove", Empty, "stop")
    BY <1>2 DEF DeleteTask
  <2>2. Empty \in Dict
    BY EmptyTyped
  <2>3. db' \in Dict /\ told' \in Dict /\ changes' \in 0..MaxChanges
    BY <1>2, <2>1, ChangeTyped, PutTyped DEF DeleteTask, TypeOK
  <2>4. /\ sent' \in 0..MaxPackets /\ sent + 1 \in Packets
        /\ kind' \in [Packets -> Kinds] /\ list' \in [Packets -> Dict]
        /\ pc' \in [Packets -> Steps] /\ overlap' \in BOOLEAN
    BY <2>1, <2>2, ReceiveTyped DEF Kinds, Steps
  <2>5. cur' \in [Packets -> Tasks] /\ retired' \in [Tasks -> {"new", "live", "deleted"}]
    BY <1>2, <2>4 DEF DeleteTask, TypeOK
  <2>6. UNCHANGED <<tasks, event, todo, probing>>
    BY <2>1 DEF Receive
  <2> QED
    BY <2>3, <2>4, <2>5, <2>6 DEF TypeOK, probing
<1>3. ASSUME NEW t \in Tasks, UpdateOrToggle(t) PROVE TypeOK'
  <2>1. db' \in Dict /\ changes' \in 0..MaxChanges
    BY <1>3, ChangeTyped DEF UpdateOrToggle
  <2>2. UNCHANGED <<retired, tasks, event, packet, pc, todo, cur, probing, told, overlap>>
    BY <1>3 DEF UpdateOrToggle
  <2> QED
    BY <2>1, <2>2 DEF TypeOK, packet, probing
<1>4. CASE SendSync
  <2>1. Receive("sync", db, "snapshot") /\ told' = db /\ UNCHANGED <<center, cur>>
    BY <1>4 DEF SendSync
  <2>2. /\ sent' \in 0..MaxPackets
        /\ kind' \in [Packets -> Kinds] /\ list' \in [Packets -> Dict]
        /\ pc' \in [Packets -> Steps] /\ overlap' \in BOOLEAN
    BY <2>1, ReceiveTyped DEF TypeOK, Kinds, Steps
  <2>3. UNCHANGED <<tasks, event, todo, probing>>
    BY <2>1 DEF Receive
  <2> QED
    BY <2>1, <2>2, <2>3 DEF TypeOK, probing, center
<1>5. ASSUME NEW h \in Packets, PacketThread(h) PROVE TypeOK'
  <2>0. cur[h] \in Tasks /\ list[h] \in Dict
    BY DEF TypeOK
  <2>c. list[h][cur[h]] \in Settings \cup {NoConfig}
    BY <2>0 DEF Dict
  <2>1. CASE Stop(h)
    <3>1. pc' \in [Packets -> Steps]
      BY <2>1, GotoTyped DEF Stop, Steps
    <3>2. stopped' \subseteq Threads
      <4>1. event[cur[h]] \in 0..MaxThreads
        BY <2>0 DEF TypeOK
      <4>2. {event[cur[h]]} \ {0} \subseteq Threads
        BY <4>1 DEF Threads
      <4> QED
        BY <2>1, <4>2 DEF Stop, PopEvent, TypeOK
    <3>3. event' \in [Tasks -> 0..MaxThreads]
      BY <2>1 DEF Stop, PopEvent, TypeOK
    <3>4. UNCHANGED <<center, tasks, packet, todo, cur, started, of, loop, late, told, overlap>>
      BY <2>1 DEF Stop
    <3> QED
      BY <3>1, <3>2, <3>3, <3>4 DEF TypeOK, center, packet
  <2>2. CASE PopTask(h)
    <3>1. pc' \in [Packets -> Steps]
      BY <2>2, GotoTyped DEF PopTask, Steps
    <3>2. tasks' \in Dict
      BY <2>0, <2>2, PutTyped DEF PopTask, TypeOK
    <3>3. UNCHANGED <<center, event, packet, todo, cur, probing, told, overlap>>
      BY <2>2 DEF PopTask
    <3> QED
      BY <3>1, <3>2, <3>3 DEF TypeOK, center, packet, probing
  <2>3. CASE StartTask(h) \/ Store(h)
    <3>1. pc' \in [Packets -> Steps]
      BY <2>3, GotoTyped DEF StartTask, Store, Steps
    <3>2. tasks' \in Dict
      BY <2>0, <2>c, <2>3, PutTyped DEF StartTask, Store, TypeOK
    <3>3. UNCHANGED <<center, event, packet, todo, cur, probing, told, overlap>>
      BY <2>3 DEF StartTask, Store
    <3> QED
      BY <3>1, <3>2, <3>3 DEF TypeOK, center, packet, probing
  <2>4. CASE Launch(h)
    <3>1. started + 1 \in Threads /\ started + 1 \in 0..MaxThreads
      BY <2>4 DEF Launch, Threads, TypeOK
    <3>2. pc' \in [Packets -> Steps]
      BY <2>4, GotoTyped DEF Launch, Steps
    <3>3. event' \in [Tasks -> 0..MaxThreads] /\ of' \in [Threads -> Tasks]
      BY <2>0, <2>4, <3>1 DEF Launch, TypeOK
    <3>4. loop' \in [Threads -> {"none", "check", "read", "probe", "ended"}]
      BY <2>4, <3>1 DEF Launch, TypeOK
    <3>5. /\ UNCHANGED <<center, tasks, packet, todo, cur, stopped, late, told, overlap>>
          /\ started' = started + 1
      BY <2>4 DEF Launch
    <3> QED
      BY <3>1, <3>2, <3>3, <3>4, <3>5 DEF TypeOK, center, packet
  <2>5. CASE Snapshot(h) \/ Drop(h) \/ Look(h) \/ Compare(h)
    <3>1. pc' \in [Packets -> Steps]
      <4>1. CASE Snapshot(h)
        BY <4>1, GotoTyped DEF Snapshot, Steps
      <4>2. CASE Drop(h)
        BY <4>2, GotoTyped DEF Drop, Steps
      <4>3. CASE Look(h)
        BY <4>3, GotoTyped DEF Look, Steps
      <4>4. CASE Compare(h)
        BY <4>4, GotoTyped DEF Compare, Steps
      <4> QED
        BY <2>5, <4>1, <4>2, <4>3, <4>4
    <3>2. todo' \in [Packets -> SUBSET Tasks]
      BY <2>5 DEF Snapshot, Drop, Look, Compare, TypeOK, Keys
    <3>3. cur' \in [Packets -> Tasks]
      BY <2>5 DEF Snapshot, Drop, Look, Compare, TypeOK
    <3>4. UNCHANGED <<center, tasks, event, packet, probing, told, overlap>>
      BY <2>5 DEF Snapshot, Drop, Look, Compare
    <3> QED
      BY <3>1, <3>2, <3>3, <3>4 DEF TypeOK, center, packet, probing
  <2> QED
    BY <1>5, <2>1, <2>2, <2>3, <2>4, <2>5 DEF PacketThread
<1>6. ASSUME NEW th \in Threads, ProbeThread(th) PROVE TypeOK'
  <2>1. loop' \in [Threads -> {"none", "check", "read", "probe", "ended"}]
    BY <1>6 DEF ProbeThread, CheckEvent, ReadConfig, Report, Loop, TypeOK
  <2>2. late' \in [Threads -> 0..MaxLate]
    BY <1>6 DEF ProbeThread, CheckEvent, ReadConfig, Report, Capped, TypeOK
  <2>3. UNCHANGED <<center, tasks, event, packet, pc, todo, cur, started, of, stopped,
                    told, overlap>>
    BY <1>6 DEF ProbeThread, CheckEvent, ReadConfig, Report
  <2> QED
    BY <2>1, <2>2, <2>3 DEF TypeOK, center, packet
<1>7. CASE UNCHANGED vars
  BY <1>7 DEF vars, TypeOK, center, packet, probing
<1> QED
  BY <1>1, <1>2, <1>3, <1>4, <1>5, <1>6, <1>7 DEF Next

LEMMA InitTypeOK == Init => TypeOK
<1> SUFFICES ASSUME Init PROVE TypeOK
  OBVIOUS
<1>1. /\ db \in Dict /\ tasks \in Dict /\ told \in Dict
      /\ list \in [Packets -> Dict]
  BY EmptyTyped DEF Init
<1>2. (CHOOSE t \in Tasks : TRUE) \in Tasks
  OBVIOUS
<1>3. cur \in [Packets -> Tasks] /\ of \in [Threads -> Tasks]
  BY <1>2 DEF Init
<1>4. kind \in [Packets -> Kinds] /\ pc \in [Packets -> Steps]
  BY DEF Init, Kinds, Steps
<1>5. /\ event \in [Tasks -> 0..MaxThreads] /\ todo \in [Packets -> SUBSET Tasks]
      /\ late \in [Threads -> 0..MaxLate]
  BY DEF Init
<1>6. /\ retired \in [Tasks -> {"new", "live", "deleted"}]
      /\ loop \in [Threads -> {"none", "check", "read", "probe", "ended"}]
  BY DEF Init
<1>7. changes \in 0..MaxChanges /\ sent \in 0..MaxPackets /\ started \in 0..MaxThreads
  BY DEF Init
<1>8. stopped \subseteq Threads /\ overlap \in BOOLEAN
  BY Zenon DEF Init
<1> QED
  BY <1>1, <1>3, <1>4, <1>5, <1>6, <1>7, <1>8 DEF TypeOK

(* Every reachable state is well typed.                                    *)
THEOREM TypeCorrect == Spec => []TypeOK
BY InitTypeOK, NextTypeOK, PTL DEF Spec

-----------------------------------------------------------------------------
(* Before its stop a thread has no late result; after it, one that may     *)
(* still report has none, and none has more than one.                      *)
LateInv ==
  /\ TypeOK
  /\ \A th \in Threads :
       /\ th \notin stopped \/ loop[th] \in {"read", "probe"} => late[th] = 0
       /\ late[th] <= 1

LEMMA NextLateInv == LateInv /\ [Next]_vars => LateInv'
<1> SUFFICES ASSUME LateInv, [Next]_vars PROVE LateInv'
  OBVIOUS
<1>t. TypeOK /\ TypeOK'
  BY NextTypeOK DEF LateInv
<1> USE <1>t DEF LateInv
<1>1. ASSUME NEW t \in Tasks, CreateTask(t) \/ DeleteTask(t) \/ UpdateOrToggle(t)
      PROVE  LateInv'
  <2>1. UNCHANGED probing
    BY <1>1 DEF CreateTask, DeleteTask, UpdateOrToggle, Receive
  <2> QED
    BY <2>1 DEF probing
<1>2. CASE SendSync
  BY <1>2 DEF SendSync, Receive, probing
<1>3. ASSUME NEW h \in Packets, PacketThread(h) PROVE LateInv'
  <2>1. CASE Stop(h)
    BY <2>1 DEF Stop, PopEvent
  <2>2. CASE Launch(h)
    BY <2>2 DEF Launch, TypeOK
  <2>3. CASE \/ PopTask(h) \/ StartTask(h) \/ Snapshot(h) \/ Drop(h) \/ Look(h)
             \/ Compare(h) \/ Store(h)
    <3>1. UNCHANGED probing
      BY <2>3 DEF PopTask, StartTask, Snapshot, Drop, Look, Compare, Store
    <3> QED
      BY <3>1 DEF probing
  <2> QED
    BY <1>3, <2>1, <2>2, <2>3 DEF PacketThread
<1>4. ASSUME NEW th \in Threads, ProbeThread(th) PROVE LateInv'
  <2>1. CASE CheckEvent(th)
    BY <2>1 DEF CheckEvent, Loop, TypeOK
  <2>2. CASE ReadConfig(th)
    BY <2>2 DEF ReadConfig, Loop, TypeOK
  <2>3. CASE Report(th)
    BY <2>3 DEF Report, Loop, Capped, TypeOK
  <2> QED
    BY <1>4, <2>1, <2>2, <2>3 DEF ProbeThread
<1>5. CASE UNCHANGED vars
  BY <1>5 DEF vars, probing
<1> QED
  BY <1>1, <1>2, <1>3, <1>4, <1>5 DEF Next

(* A thread whose stop event was set delivers at most the result it was    *)
(* working on, however many packets are handled at once (_task_loop).      *)
THEOREM StoppedIsLateOnce == Spec => []StoppedReportsOnce
<1>1. Init => LateInv
  BY InitTypeOK DEF Init, LateInv
<1>2. LateInv => StoppedReportsOnce
  BY DEF LateInv, StoppedReportsOnce, TypeOK
<1> QED
  BY <1>1, <1>2, NextLateInv, PTL DEF Spec
-----------------------------------------------------------------------------
(* As long as no two packets are under way at once.  An event that is      *)
(* stored is the one of a thread that probes its task, and a thread that   *)
(* was not stopped is the one whose event is stored.                       *)
EventsAreThreads ==
  /\ \A t \in Tasks : event[t] # 0 =>
       event[t] \in Probing(t) /\ tasks[t] # NoConfig
  /\ \A th \in Threads : Running(th) /\ th \notin stopped => event[of[th]] = th
  /\ \A th \in Threads : th > started => loop[th] = "none" /\ th \notin stopped

(* A task that is stored has a thread, but while it is restarted.          *)
TasksHaveThreads ==
  \A t \in Tasks : tasks[t] # NoConfig =>
    \/ event[t] # 0
    \/ \E h \in Packets : pc[h] \in {"pop", "launch"} /\ cur[h] = t

NewIsUnknown ==
  \A t \in Tasks : retired[t] = "new" => db[t] = NoConfig /\ told[t] = NoConfig

OneAtATime ==
  /\ \A h \in Packets : UnderWay(h) => h = sent
  /\ \A h \in Packets : pc[h] # "failed"
  /\ \A h \in Packets : h > sent => todo[h] = {}
  /\ Idle => tasks = told

(* What a step knows of the task it is about, ...                          *)
StepKnows(h) ==
  /\ pc[h] \in {"pop", "start", "launch"} => event[cur[h]] = 0
  /\ pc[h] = "start" => tasks[cur[h]] = NoConfig
  /\ pc[h] \in {"launch", "store"} => tasks[cur[h]] = told[cur[h]]
  /\ pc[h] = "compare" => tasks[cur[h]] # NoConfig
  /\ pc[h] \in {"compare", "start", "launch", "store"} => told[cur[h]] # NoConfig

(* ... what a kind of packet asks for, ...                                 *)
AboutOne(h) == pc[h] \in {"compare", "stop", "pop", "start", "launch", "store"}

KindKnows(h) ==
  \/ /\ kind[h] = "sync" /\ list[h] = told
     /\ AboutOne(h) => cur[h] \notin todo[h]
  \/ /\ kind[h] = "assign" /\ pc[h] \in {"start", "launch"} /\ todo[h] = {}
     /\ list[h][cur[h]] = told[cur[h]]
  \/ /\ kind[h] = "remove" /\ pc[h] \in {"stop", "pop"} /\ todo[h] = {}
     /\ told[cur[h]] = NoConfig

(* ... and how far it is: what is still to go is all that may differ.      *)
Dropping(h) ==
  /\ kind[h] = "sync"
  /\ pc[h] = "drop" \/ (pc[h] \in {"stop", "pop"} /\ told[cur[h]] = NoConfig)

Pending(h) == todo[h] \cup (IF AboutOne(h) THEN {cur[h]} ELSE {})

Progress(h) ==
  \/ pc[h] = "snapshot"
  \/ Dropping(h) /\ Keys(tasks) \ Keys(told) = Pending(h)
  \/ /\ ~Dropping(h) /\ todo[h] \subseteq Keys(told)
     /\ \A t \in Tasks \ Pending(h) : tasks[t] = told[t]

Knows(h) == StepKnows(h) /\ KindKnows(h) /\ Progress(h)

InOrder ==
  /\ EventsAreThreads /\ TasksHaveThreads /\ NewIsUnknown /\ OneAtATime
  /\ \A h \in Packets : UnderWay(h) => Knows(h)

OrderInv == TypeOK /\ (~overlap => InOrder)

-----------------------------------------------------------------------------
(* The rest of the invariant takes care of itself once a step of the one   *)
(* handler is known to leave the events, the tasks and its own knowledge   *)
(* in order.                                                               *)
LEMMA HandlerStep ==
  ASSUME TypeOK, InOrder, NEW h \in Packets, UnderWay(h),
         NEW s \in Steps \ {"none", "failed"}, Goto(h, s),
         UNCHANGED <<center, packet, told>>,
         \A g \in Packets \ {h} : todo'[g] = todo[g],
         EventsAreThreads', TasksHaveThreads',
         s = "done" => tasks' = told,
         s # "done" => Knows(h)'
  PROVE  InOrder'
<1>1. /\ h = sent /\ UNCHANGED <<sent, retired, db, told>>
      /\ \A g \in Packets : g # h => ~UnderWay(g)
  BY DEF InOrder, OneAtATime, packet, center
<1>2. pc'[h] = s /\ \A g \in Packets : g # h => pc'[g] = pc[g]
  BY DEF Goto, TypeOK
<1>3. /\ UnderWay(h)' <=> s # "done"
      /\ \A g \in Packets : g # h => ~UnderWay(g)'
  BY <1>1, <1>2 DEF UnderWay
<1>4. NewIsUnknown'
  BY <1>1 DEF InOrder, NewIsUnknown
<1>5. OneAtATime'
  <2>1. \A g \in Packets : UnderWay(g)' => g = sent'
    BY <1>1, <1>3
  <2>2. \A g \in Packets : pc'[g] # "failed"
    BY <1>2 DEF InOrder, OneAtATime
  <2>3. \A g \in Packets : g > sent' => todo'[g] = {}
    <3>1. h \in Nat /\ sent = h
      BY <1>1 DEF Packets
    <3> QED
      BY <1>1, <3>1 DEF InOrder, OneAtATime, Packets
  <2>4. Idle' => tasks' = told'
    BY <1>1, <1>3 DEF Idle
  <2> QED
    BY <2>1, <2>2, <2>3, <2>4 DEF OneAtATime
<1>6. \A g \in Packets : UnderWay(g)' => Knows(g)'
  BY <1>3
<1> QED
  BY <1>4, <1>5, <1>6 DEF InOrder

(* While the handler is where it is, only its own task may lack a thread.  *)
LEMMA OthersHaveThreads ==
  ASSUME InOrder, NEW h \in Packets, UnderWay(h),
         NEW t \in Tasks, tasks[t] # NoConfig, event[t] = 0
  PROVE  pc[h] \in {"pop", "launch"} /\ cur[h] = t
<1>1. PICK g \in Packets : pc[g] \in {"pop", "launch"} /\ cur[g] = t
  BY DEF InOrder, TasksHaveThreads
<1>2. UnderWay(g)
  BY <1>1 DEF UnderWay
<1>3. g = h
  BY <1>2 DEF InOrder, OneAtATime
<1> QED
  BY <1>1, <1>3

LEMMA StopInOrder ==
  ASSUME TypeOK, InOrder, NEW h \in Packets, Stop(h)
  PROVE  InOrder'
<1> DEFINE t == cur[h]
<1>1. /\ pc[h] = "stop" /\ Goto(h, "pop") /\ UnderWay(h)
      /\ event' = [event EXCEPT ![t] = 0]
      /\ stopped' = stopped \cup ({event[t]} \ {0})
      /\ UNCHANGED <<center, tasks, packet, todo, cur, started, of, loop, told>>
  BY DEF Stop, PopEvent, UnderWay
<1>2. t \in Tasks /\ pc'[h] = "pop" /\ event'[t] = 0
  BY <1>1 DEF Goto, TypeOK
<1>3. EventsAreThreads'
  <2>1. ASSUME NEW u \in Tasks, event'[u] # 0
        PROVE  event'[u] \in Probing(u)' /\ tasks'[u] # NoConfig
    <3>1. u # t /\ event'[u] = event[u]
      BY <1>1, <1>2, <2>1 DEF TypeOK
    <3>2. event[u] \in Probing(u) /\ tasks[u] # NoConfig
      BY <2>1, <3>1 DEF InOrder, EventsAreThreads
    <3>3. event[t] # 0 => event[t] # event[u]
      BY <1>2, <3>1, <3>2 DEF InOrder, EventsAreThreads, Probing
    <3> QED
      BY <1>1, <3>1, <3>2, <3>3 DEF Probing, Running
  <2>2. ASSUME NEW th \in Threads, Running(th)', th \notin stopped'
        PROVE  event'[of'[th]] = th
    <3>1. event[of[th]] = th
      BY <1>1, <2>2 DEF InOrder, EventsAreThreads, Running
    <3>2. th # 0 /\ of[th] \in Tasks
      BY DEF Threads, TypeOK
    <3>3. of[th] # t
      BY <1>1, <2>2, <3>1, <3>2
    <3> QED
      BY <1>1, <3>1, <3>2, <3>3 DEF TypeOK
  <2>3. ASSUME NEW th \in Threads, th > started'
        PROVE  loop'[th] = "none" /\ th \notin stopped'
    <3>1. loop[th] = "none" /\ th \notin stopped
      BY <1>1, <2>3 DEF InOrder, EventsAreThreads
    <3>2. event[t] # 0 => event[t] # th
      BY <1>2, <3>1 DEF InOrder, EventsAreThreads, Probing, Running
    <3> QED
      BY <1>1, <3>1, <3>2
  <2> QED
    BY <2>1, <2>2, <2>3 DEF EventsAreThreads
<1>4. TasksHaveThreads'
  <2> SUFFICES ASSUME NEW u \in Tasks, tasks'[u] # NoConfig, event'[u] = 0
               PROVE  pc'[h] = "pop" /\ cur'[h] = u
    BY DEF TasksHaveThreads
  <2>1. u = t
    BY <1>1, OthersHaveThreads DEF TypeOK
  <2> QED
    BY <1>1, <1>2, <2>1
<1>5. Knows(h)'
  <2>1. Knows(h)
    BY <1>1 DEF InOrder
  <2>2. StepKnows(h)'
    BY <1>1, <1>2 DEF StepKnows
  <2>3. KindKnows(h)'
    BY <1>1, <1>2, <2>1 DEF Knows, KindKnows, AboutOne, packet
  <2>4. (Dropping(h)' <=> Dropping(h)) /\ Pending(h)' = Pending(h)
    BY <1>1, <1>2 DEF Dropping, Pending, AboutOne, packet
  <2>5. Progress(h)'
    BY <1>1, <1>2, <2>1, <2>4 DEF Knows, Progress, Keys
  <2> QED
    BY <2>2, <2>3, <2>5 DEF Knows
<1> QED
  BY <1>1, <1>3, <1>4, <1>5, HandlerStep DEF Steps

(* Steps that leave the events and the probing threads alone.              *)
LEMMA EventsKept ==
  ASSUME TypeOK, InOrder, UNCHANGED <<event, probing>>,
         \A t \in Tasks : event[t] # 0 => tasks'[t] # NoConfig
  PROVE  EventsAreThreads'
BY DEF InOrder, EventsAreThreads, Probing, Running, probing

LEMMA PopTaskInOrder ==
  ASSUME TypeOK, InOrder, NEW h \in Packets, PopTask(h)
  PROVE  InOrder'
<1> DEFINE t == cur[h]
           s == IF kind[h] = "remove" THEN "done"
                ELSE IF list[h][t] = NoConfig THEN "drop" ELSE "start"
<1>1. /\ pc[h] = "pop" /\ Goto(h, s) /\ UnderWay(h)
      /\ tasks' = [tasks EXCEPT ![t] = NoConfig]
      /\ UNCHANGED <<center, event, packet, todo, cur, probing, told>>
  BY DEF PopTask, UnderWay
<1>2. t \in Tasks /\ pc'[h] = s /\ Knows(h)
  BY <1>1 DEF Goto, TypeOK, InOrder
<1>3. event[t] = 0
  BY <1>1, <1>2 DEF Knows, StepKnows
<1>4. tasks'[t] = NoConfig /\ \A u \in Tasks : u # t => tasks'[u] = tasks[u]
  BY <1>1, <1>2 DEF TypeOK, Dict
<1>5. EventsAreThreads'
  BY <1>1, <1>3, <1>4, EventsKept DEF InOrder, EventsAreThreads
<1>6. TasksHaveThreads'
  <2> SUFFICES ASSUME NEW u \in Tasks, tasks'[u] # NoConfig, event'[u] = 0
               PROVE  FALSE
    BY DEF TasksHaveThreads
  <2>1. u # t /\ tasks[u] # NoConfig /\ event[u] = 0
    BY <1>1, <1>4
  <2> QED
    BY <1>1, <2>1, OthersHaveThreads
<1>7. ASSUME kind[h] = "remove" PROVE tasks' = told
  <2>1. todo[h] = {} /\ told[t] = NoConfig /\ ~Dropping(h)
    BY <1>2, <1>7 DEF Knows, KindKnows, Dropping
  <2>2. \A u \in Tasks \ {t} : tasks[u] = told[u]
    BY <1>1, <1>2, <2>1 DEF Knows, Progress, Pending, AboutOne
  <2>3. \A u \in Tasks : tasks'[u] = told[u]
    BY <1>4, <2>1, <2>2
  <2>4. tasks' = [u \in Tasks |-> tasks'[u]] /\ told = [u \in Tasks |-> told[u]]
    BY <1>1 DEF TypeOK, Dict
  <2> QED
    BY <2>3, <2>4
<1>8. ASSUME kind[h] # "remove" PROVE Knows(h)'
  <2>1. kind[h] = "sync" /\ list[h] = told /\ t \notin todo[h]
    BY <1>1, <1>2, <1>8 DEF Knows, KindKnows, AboutOne
  <2>2. StepKnows(h)'
    BY <1>1, <1>2, <1>3, <1>4, <1>8, <2>1 DEF StepKnows
  <2>3. KindKnows(h)'
    BY <1>1, <2>1 DEF KindKnows, packet
  <2>4. CASE told[t] = NoConfig
    <3>1. Dropping(h) /\ Pending(h) = todo[h] \cup {t} /\ pc'[h] = "drop"
      BY <1>1, <1>2, <1>8, <2>1, <2>4 DEF Dropping, Pending, AboutOne
    <3>2. Keys(tasks) \ Keys(told) = todo[h] \cup {t}
      BY <1>1, <1>2, <3>1 DEF Knows, Progress
    <3>3. Keys(tasks') = Keys(tasks) \ {t}
      BY <1>4 DEF Keys
    <3>4. Keys(tasks') \ Keys(told) = todo[h]
      BY <2>1, <3>2, <3>3
    <3>5. Dropping(h)' /\ Pending(h)' = todo[h]
      BY <1>1, <2>1, <3>1 DEF Dropping, Pending, AboutOne, packet
    <3> QED
      BY <1>1, <2>2, <2>3, <3>4, <3>5 DEF Knows, Progress, Keys
  <2>5. CASE told[t] # NoConfig
    <3>1. ~Dropping(h) /\ Pending(h) = todo[h] \cup {t} /\ pc'[h] = "start"
      BY <1>1, <1>2, <1>8, <2>1, <2>5 DEF Dropping, Pending, AboutOne
    <3>2. /\ todo[h] \subseteq Keys(told)
          /\ \A u \in Tasks \ Pending(h) : tasks[u] = told[u]
      BY <1>1, <1>2, <3>1 DEF Knows, Progress
    <3>3. ~Dropping(h)' /\ Pending(h)' = Pending(h)
      BY <1>1, <2>1, <3>1 DEF Dropping, Pending, AboutOne, packet
    <3>4. \A u \in Tasks \ Pending(h) : tasks'[u] = told[u]
      BY <1>4, <3>1, <3>2
    <3> QED
      BY <1>1, <2>2, <2>3, <3>2, <3>3, <3>4 DEF Knows, Progress, Keys
  <2> QED
    BY <2>4, <2>5
<1>9. s \in Steps \ {"none", "failed"} /\ (s = "done" <=> kind[h] = "remove")
  BY DEF Steps
<1> HIDE DEF s, t
<1> QED
  BY <1>1, <1>5, <1>6, <1>7, <1>8, <1>9, HandlerStep

LEMMA StartTaskInOrder ==
  ASSUME TypeOK, InOrder, NEW h \in Packets, StartTask(h)
  PROVE  InOrder'
<1> DEFINE t == cur[h]
<1>1. /\ pc[h] = "start" /\ Goto(h, "launch") /\ UnderWay(h)
      /\ tasks' = [tasks EXCEPT ![t] = list[h][t]]
      /\ UNCHANGED <<center, event, packet, todo, cur, probing, told>>
  BY DEF StartTask, UnderWay
<1>2. t \in Tasks /\ pc'[h] = "launch" /\ Knows(h)
  BY <1>1 DEF Goto, TypeOK, InOrder
<1>3. event[t] = 0 /\ told[t] # NoConfig /\ list[h][t] = told[t]
  BY <1>1, <1>2 DEF Knows, StepKnows, KindKnows
<1>4. tasks'[t] = told[t] /\ \A u \in Tasks : u # t => tasks'[u] = tasks[u]
  BY <1>1, <1>2, <1>3 DEF TypeOK, Dict
<1>5. EventsAreThreads'
  BY <1>1, <1>3, <1>4, EventsKept DEF InOrder, EventsAreThreads
<1>6. TasksHaveThreads'
  <2> SUFFICES ASSUME NEW u \in Tasks, tasks'[u] # NoConfig, event'[u] = 0, u # t
               PROVE  FALSE
    BY <1>1, <1>2 DEF TasksHaveThreads
  <2>1. tasks[u] # NoConfig /\ event[u] = 0
    BY <1>1, <1>4
  <2> QED
    BY <1>1, <2>1, OthersHaveThreads
<1>7. Knows(h)'
  <2>1. StepKnows(h)'
    BY <1>1, <1>2, <1>3, <1>4 DEF StepKnows
  <2>2. KindKnows(h)'
    BY <1>1, <1>2 DEF Knows, KindKnows, AboutOne, packet
  <2>3. ~Dropping(h) /\ ~Dropping(h)' /\ Pending(h)' = Pending(h) /\ t \in Pending(h)
    BY <1>1, <1>2 DEF Dropping, Pending, AboutOne, packet
  <2>4. Progress(h)'
    BY <1>1, <1>2, <1>4, <2>3 DEF Knows, Progress, Keys
  <2> QED
    BY <2>1, <2>2, <2>4 DEF Knows
<1> QED
  BY <1>1, <1>5, <1>6, <1>7, HandlerStep DEF Steps

LEMMA StoreInOrder ==
  ASSUME TypeOK, InOrder, NEW h \in Packets, Store(h)
  PROVE  InOrder'
<1> DEFINE t == cur[h]
<1>1. /\ pc[h] = "store" /\ Goto(h, "look") /\ UnderWay(h)
      /\ tasks' = [tasks EXCEPT ![t] = list[h][t]]
      /\ UNCHANGED <<center, event, packet, todo, cur, probing, told>>
  BY DEF Store, UnderWay
<1>2. t \in Tasks /\ pc'[h] = "look" /\ Knows(h)
  BY <1>1 DEF Goto, TypeOK, InOrder
<1>3. kind[h] = "sync" /\ list[h] = told /\ tasks[t] = told[t]
  BY <1>1, <1>2 DEF Knows, StepKnows, KindKnows
<1>4. tasks' = tasks
  BY <1>1, <1>2, <1>3 DEF TypeOK, Dict
<1>5. EventsAreThreads'
  BY <1>1, <1>4, EventsKept DEF InOrder, EventsAreThreads
<1>6. TasksHaveThreads'
  BY <1>1, <1>4, OthersHaveThreads DEF TasksHaveThreads
<1>7. Knows(h)'
  <2>1. StepKnows(h)'
    BY <1>2 DEF StepKnows
  <2>2. KindKnows(h)'
    BY <1>1, <1>2, <1>3 DEF KindKnows, AboutOne, packet
  <2>3. ~Dropping(h) /\ ~Dropping(h)' /\ Pending(h) = todo[h] \cup {t} /\ Pending(h)' = todo[h]
    BY <1>1, <1>2, <1>3 DEF Dropping, Pending, AboutOne, packet, Knows, StepKnows
  <2>4. Progress(h)'
    BY <1>1, <1>2, <1>3, <1>4, <2>3 DEF Knows, Progress, Keys
  <2> QED
    BY <2>1, <2>2, <2>4 DEF Knows
<1> QED
  BY <1>1, <1>5, <1>6, <1>7, HandlerStep DEF Steps

LEMMA LaunchInOrder ==
  ASSUME TypeOK, InOrder, NEW h \in Packets, Launch(h)
  PROVE  InOrder'
<1> DEFINE t == cur[h]
           th == started + 1
           s == IF kind[h] = "sync" THEN "look" ELSE "done"
<1>1. /\ pc[h] = "launch" /\ Goto(h, s) /\ UnderWay(h)
      /\ th \in Threads /\ started' = th
      /\ event' = [event EXCEPT ![t] = th]
      /\ of' = [of EXCEPT ![th] = t]
      /\ loop' = [loop EXCEPT ![th] = "check"]
      /\ UNCHANGED <<center, tasks, packet, todo, cur, stopped, told>>
  BY DEF Launch, UnderWay, TypeOK, Threads
<1>2. t \in Tasks /\ pc'[h] = s /\ Knows(h)
  BY <1>1 DEF Goto, TypeOK, InOrder
<1>3. /\ event[t] = 0 /\ tasks[t] = told[t] /\ told[t] # NoConfig
      /\ kind[h] \in {"sync", "assign"} /\ ~Dropping(h)
  BY <1>1, <1>2 DEF Knows, StepKnows, KindKnows, Dropping
<1>4. th > started /\ started \in Nat /\ th # 0 /\ loop[th] = "none" /\ th \notin stopped
  BY <1>1 DEF TypeOK, InOrder, EventsAreThreads
<1>5. /\ event'[t] = th /\ of'[th] = t /\ loop'[th] = "check"
      /\ \A u \in Tasks : u # t => event'[u] = event[u]
      /\ \A k \in Threads : k # th => of'[k] = of[k] /\ loop'[k] = loop[k]
  BY <1>1, <1>2 DEF TypeOK
<1> HIDE DEF t, th, s
<1>6. EventsAreThreads'
  <2>1. ASSUME NEW u \in Tasks, event'[u] # 0
        PROVE  event'[u] \in Probing(u)' /\ tasks'[u] # NoConfig
    <3>1. CASE u = t
      BY <1>1, <1>3, <1>4, <1>5, <3>1 DEF Probing, Running
    <3>2. CASE u # t
      <4>1. event'[u] = event[u] /\ event[u] \in Probing(u) /\ tasks[u] # NoConfig
        BY <1>5, <2>1, <3>2 DEF InOrder, EventsAreThreads
      <4>2. event[u] # th
        BY <1>4, <4>1 DEF Probing, Running
      <4> QED
        BY <1>1, <1>5, <4>1, <4>2 DEF Probing, Running
    <3> QED
      BY <3>1, <3>2
  <2>2. ASSUME NEW k \in Threads, Running(k)', k \notin stopped'
        PROVE  event'[of'[k]] = k
    <3>1. CASE k # th
      <4>1. event[of[k]] = k /\ of'[k] = of[k] /\ of[k] \in Tasks
        BY <1>1, <1>5, <2>2, <3>1 DEF InOrder, EventsAreThreads, Running, TypeOK
      <4>2. of[k] # t
        BY <1>3, <4>1 DEF Threads
      <4> QED
        BY <1>5, <4>1, <4>2
    <3> QED
      BY <1>5, <3>1
  <2>3. ASSUME NEW k \in Threads, k > started'
        PROVE  loop'[k] = "none" /\ k \notin stopped'
    <3>1. k > started /\ k # th
      BY <1>1, <1>4, <2>3 DEF Threads, th
    <3> QED
      BY <1>1, <1>5, <3>1 DEF InOrder, EventsAreThreads
  <2> QED
    BY <2>1, <2>2, <2>3 DEF EventsAreThreads
<1>7. TasksHaveThreads'
  <2> SUFFICES ASSUME NEW u \in Tasks, tasks'[u] # NoConfig, event'[u] = 0
               PROVE  FALSE
    BY DEF TasksHaveThreads
  <2>1. u # t
    BY <1>4, <1>5
  <2>2. tasks[u] # NoConfig /\ event[u] = 0
    BY <1>1, <1>5, <2>1
  <2> QED
    BY <1>1, <2>1, <2>2, OthersHaveThreads DEF t
<1>8. Pending(h) = todo[h] \cup {t}
  BY <1>1 DEF Pending, AboutOne, t
<1>9. todo[h] \subseteq Keys(told) /\ \A u \in Tasks \ todo[h] : tasks[u] = told[u]
  <2>1. /\ todo[h] \subseteq Keys(told)
        /\ \A u \in Tasks \ Pending(h) : tasks[u] = told[u]
    BY <1>1, <1>2, <1>3 DEF Knows, Progress
  <2> QED
    BY <1>3, <1>8, <2>1
<1>10. ASSUME s = "done" PROVE tasks' = told
  <2>1. todo[h] = {}
    BY <1>2, <1>3, <1>10 DEF Knows, KindKnows, s
  <2>2. \A u \in Tasks : tasks[u] = told[u]
    BY <1>9, <2>1
  <2> QED
    BY <1>1, <2>2 DEF TypeOK, Dict
<1>11. ASSUME s # "done" PROVE Knows(h)'
  <2>1. kind[h] = "sync" /\ s = "look" /\ list[h] = told
    BY <1>2, <1>11 DEF s, Knows, KindKnows
  <2>2. StepKnows(h)'
    BY <1>2, <2>1 DEF StepKnows
  <2>3. KindKnows(h)'
    BY <1>1, <1>2, <2>1 DEF KindKnows, AboutOne, packet
  <2>4. ~Dropping(h)' /\ Pending(h)' = todo[h]
    BY <1>1, <1>2, <2>1 DEF Dropping, Pending, AboutOne
  <2>5. Progress(h)'
    BY <1>1, <1>9, <2>4 DEF Progress, Keys
  <2> QED
    BY <2>2, <2>3, <2>5 DEF Knows
<1>12. s \in Steps \ {"none", "failed"}
  BY DEF Steps, s
<1> QED
  BY <1>1, <1>6, <1>7, <1>10, <1>11, <1>12, HandlerStep

(* Steps that leave events, probing threads and tasks alone and are not    *)
(* about a task that lacks a thread.                                       *)
LEMMA ThreadsKept ==
  ASSUME TypeOK, InOrder, UNCHANGED <<tasks, event, probing>>,
         NEW h \in Packets, UnderWay(h), pc[h] \notin {"pop", "launch"}
  PROVE  EventsAreThreads' /\ TasksHaveThreads'
<1>1. EventsAreThreads'
  BY EventsKept DEF InOrder, EventsAreThreads
<1>2. TasksHaveThreads'
  BY OthersHaveThreads DEF TasksHaveThreads
<1> QED
  BY <1>1, <1>2

LEMMA SnapshotInOrder ==
  ASSUME TypeOK, InOrder, NEW h \in Packets, Snapshot(h)
  PROVE  InOrder'
<1>1. /\ pc[h] = "snapshot" /\ Goto(h, "drop") /\ UnderWay(h)
      /\ todo' = [todo EXCEPT ![h] = Keys(tasks) \ Keys(list[h])]
      /\ UNCHANGED <<center, tasks, event, packet, cur, probing, told>>
  BY DEF Snapshot, UnderWay
<1>2. pc'[h] = "drop" /\ Knows(h) /\ todo'[h] = Keys(tasks) \ Keys(list[h])
  BY <1>1 DEF Goto, TypeOK, InOrder
<1>3. kind[h] = "sync" /\ list[h] = told
  BY <1>1, <1>2 DEF Knows, KindKnows
<1>4. Knows(h)'
  <2>1. StepKnows(h)' /\ KindKnows(h)'
    BY <1>1, <1>2, <1>3 DEF StepKnows, KindKnows, AboutOne, packet
  <2>2. Dropping(h)' /\ Pending(h)' = todo'[h]
    BY <1>1, <1>2, <1>3 DEF Dropping, Pending, AboutOne, packet
  <2>3. Progress(h)'
    BY <1>1, <1>2, <1>3, <2>2 DEF Progress, Keys
  <2> QED
    BY <2>1, <2>3 DEF Knows
<1>5. EventsAreThreads' /\ TasksHaveThreads'
  BY <1>1, ThreadsKept
<1>6. \A g \in Packets \ {h} : todo'[g] = todo[g]
  BY <1>1 DEF TypeOK
<1> QED
  BY <1>1, <1>4, <1>5, <1>6, HandlerStep DEF Steps

LEMMA DropInOrder ==
  ASSUME TypeOK, InOrder, NEW h \in Packets, Drop(h)
  PROVE  InOrder'
<1>1. /\ pc[h] = "drop" /\ UnderWay(h) /\ Knows(h)
      /\ UNCHANGED <<center, tasks, event, packet, probing, told>>
  BY DEF Drop, UnderWay, InOrder
<1>2. /\ kind[h] = "sync" /\ list[h] = told /\ Dropping(h)
      /\ Keys(tasks) \ Keys(told) = todo[h]
  BY <1>1 DEF Knows, KindKnows, Dropping, Progress, Pending, AboutOne
<1>3. EventsAreThreads' /\ TasksHaveThreads'
  BY <1>1, ThreadsKept
<1>4. CASE /\ todo[h] = {} /\ Goto(h, "look")
           /\ todo' = [todo EXCEPT ![h] = Keys(list[h])]
           /\ UNCHANGED cur
  <2>1. pc'[h] = "look" /\ todo'[h] = Keys(told)
    BY <1>2, <1>4 DEF Goto, TypeOK
  <2>2. StepKnows(h)' /\ KindKnows(h)'
    BY <1>1, <1>2, <2>1 DEF StepKnows, KindKnows, AboutOne, packet
  <2>3. ~Dropping(h)' /\ Pending(h)' = Keys(told)
    BY <1>1, <1>2, <2>1 DEF Dropping, Pending, AboutOne
  <2>4. \A t \in Tasks \ Keys(told) : tasks[t] = NoConfig /\ told[t] = NoConfig
    BY <1>2, <1>4 DEF Keys
  <2>5. Progress(h)'
    BY <1>1, <2>1, <2>3, <2>4 DEF Progress, Keys
  <2>6. \A g \in Packets \ {h} : todo'[g] = todo[g]
    BY <1>4 DEF TypeOK
  <2> QED
    BY <1>1, <1>3, <1>4, <2>2, <2>5, <2>6, HandlerStep DEF Steps, Knows
<1>5. ASSUME NEW t \in todo[h], cur' = [cur EXCEPT ![h] = t],
             todo' = [todo EXCEPT ![h] = @ \ {t}], Goto(h, "stop")
      PROVE  InOrder'
  <2>1. pc'[h] = "stop" /\ cur'[h] = t /\ todo'[h] = todo[h] \ {t}
    BY <1>5 DEF Goto, TypeOK
  <2>2. StepKnows(h)' /\ KindKnows(h)'
    BY <1>1, <1>2, <2>1 DEF StepKnows, KindKnows, AboutOne, packet
  <2>3. told[t] = NoConfig
    BY <1>2 DEF Keys
  <2>4. Dropping(h)' /\ Pending(h)' = todo[h]
    BY <1>1, <1>2, <2>1, <2>3 DEF Dropping, Pending, AboutOne, packet
  <2>5. Progress(h)'
    BY <1>1, <1>2, <2>4 DEF Progress, Keys
  <2>6. \A g \in Packets \ {h} : todo'[g] = todo[g]
    BY <1>5 DEF TypeOK
  <2> QED
    BY <1>1, <1>3, <1>5, <2>2, <2>5, <2>6, HandlerStep DEF Steps, Knows
<1> QED
  BY <1>4, <1>5 DEF Drop

LEMMA LookInOrder ==
  ASSUME TypeOK, InOrder, NEW h \in Packets, Look(h)
  PROVE  InOrder'
<1>1. /\ pc[h] = "look" /\ UnderWay(h) /\ Knows(h)
      /\ UNCHANGED <<center, tasks, event, packet, probing, told>>
  BY DEF Look, UnderWay, InOrder
<1>2. /\ kind[h] = "sync" /\ list[h] = told /\ ~Dropping(h) /\ Pending(h) = todo[h]
  BY <1>1 DEF Knows, KindKnows, Dropping, Pending, AboutOne
<1>3. todo[h] \subseteq Keys(told) /\ \A t \in Tasks \ todo[h] : tasks[t] = told[t]
  BY <1>1, <1>2 DEF Knows, Progress
<1>4. EventsAreThreads' /\ TasksHaveThreads'
  BY <1>1, ThreadsKept
<1>5. CASE todo[h] = {} /\ Goto(h, "done") /\ UNCHANGED <<todo, cur>>
  <2>1. tasks' = told
    BY <1>1, <1>3, <1>5 DEF TypeOK, Dict
  <2> QED
    BY <1>1, <1>4, <1>5, <2>1, HandlerStep DEF Steps
<1>6. ASSUME NEW t \in todo[h], cur' = [cur EXCEPT ![h] = t],
             todo' = [todo EXCEPT ![h] = @ \ {t}],
             Goto(h, IF tasks[t] = NoConfig THEN "start" ELSE "compare")
      PROVE  InOrder'
  <2> DEFINE s == IF tasks[t] = NoConfig THEN "start" ELSE "compare"
  <2>1. pc'[h] = s /\ cur'[h] = t /\ todo'[h] = todo[h] \ {t}
    BY <1>6 DEF Goto, TypeOK
  <2>2. t \in Tasks /\ told[t] # NoConfig
    BY <1>3 DEF Keys
  <2>3. tasks[t] = NoConfig => event[t] = 0
    BY <2>2 DEF InOrder, EventsAreThreads
  <2>4. StepKnows(h)'
    BY <1>1, <2>1, <2>2, <2>3 DEF StepKnows
  <2>5. KindKnows(h)'
    BY <1>1, <1>2, <2>1 DEF KindKnows, packet
  <2>6. ~Dropping(h)' /\ Pending(h)' = todo[h]
    BY <1>1, <1>2, <2>1 DEF Dropping, Pending, AboutOne
  <2>7. Progress(h)'
    BY <1>1, <1>3, <2>1, <2>6 DEF Progress, Keys
  <2>8. \A g \in Packets \ {h} : todo'[g] = todo[g]
    BY <1>6 DEF TypeOK
  <2>9. s \in Steps \ {"none", "failed"} /\ s # "done"
    BY DEF Steps
  <2> HIDE DEF s
  <2> QED
    BY <1>1, <1>4, <1>6, <2>4, <2>5, <2>7, <2>8, <2>9, HandlerStep DEF Knows, s
<1> QED
  BY <1>5, <1>6 DEF Look

(* A task that is compared is still there: no handler fails.               *)
LEMMA CompareInOrder ==
  ASSUME TypeOK, InOrder, NEW h \in Packets, Compare(h)
  PROVE  InOrder'
<1> DEFINE t == cur[h]
           s == IF tasks[t] = list[h][t] THEN "store" ELSE "stop"
<1>1. /\ pc[h] = "compare" /\ UnderWay(h) /\ Knows(h) /\ t \in Tasks
      /\ UNCHANGED <<center, tasks, event, packet, todo, cur, probing, told>>
  BY DEF Compare, UnderWay, InOrder, TypeOK
<1>2. tasks[t] # NoConfig /\ told[t] # NoConfig /\ kind[h] = "sync" /\ list[h] = told
  BY <1>1 DEF Knows, StepKnows, KindKnows
<1>3. Goto(h, s) /\ pc'[h] = s
  BY <1>1, <1>2 DEF Compare, Goto, TypeOK
<1>4. EventsAreThreads' /\ TasksHaveThreads'
  BY <1>1, ThreadsKept
<1>5. Knows(h)'
  <2>1. StepKnows(h)'
    BY <1>1, <1>2, <1>3 DEF StepKnows
  <2>2. KindKnows(h)'
    BY <1>1, <1>2 DEF Knows, KindKnows, AboutOne, packet
  <2>3. ~Dropping(h) /\ ~Dropping(h)' /\ Pending(h)' = Pending(h)
    BY <1>1, <1>2, <1>3 DEF Dropping, Pending, AboutOne
  <2>4. Progress(h)'
    BY <1>1, <2>3 DEF Knows, Progress, Keys
  <2> QED
    BY <2>1, <2>2, <2>4 DEF Knows
<1>6. s \in Steps \ {"none", "failed"} /\ s # "done"
  BY DEF Steps
<1> HIDE DEF s
<1> QED
  BY <1>1, <1>3, <1>4, <1>5, <1>6, HandlerStep

(* A probing thread ends only if its event is set or its task is gone.     *)
LEMMA ProbeInOrder ==
  ASSUME TypeOK, InOrder, NEW th \in Threads, ProbeThread(th)
  PROVE  InOrder'
<1>1. UNCHANGED <<center, tasks, event, packet, pc, todo, cur, started, of, stopped, told>>
  BY DEF ProbeThread, CheckEvent, ReadConfig, Report
<1>2. /\ Running(th) /\ \A k \in Threads : k # th => loop'[k] = loop[k]
      /\ Running(th)' \/ th \in stopped \/ tasks[of[th]] = NoConfig
  BY DEF ProbeThread, CheckEvent, ReadConfig, Report, Loop, Running, TypeOK
<1>3. \A u \in Tasks : event[u] = th => th \in Probing(u) /\ tasks[u] # NoConfig
  BY DEF InOrder, EventsAreThreads, Threads
<1>4. EventsAreThreads'
  <2>1. ASSUME NEW u \in Tasks, event'[u] # 0
        PROVE  event'[u] \in Probing(u)' /\ tasks'[u] # NoConfig
    <3>1. event[u] \in Probing(u) /\ tasks[u] # NoConfig
      BY <1>1, <2>1 DEF InOrder, EventsAreThreads
    <3>2. CASE event[u] = th
      <4>1. Running(th)'
        BY <1>2, <1>3, <3>1, <3>2 DEF Probing
      <4> QED
        BY <1>1, <3>1, <3>2, <4>1 DEF Probing
    <3>3. CASE event[u] # th
      BY <1>1, <1>2, <3>1, <3>3 DEF Probing, Running
    <3> QED
      BY <3>2, <3>3
  <2>2. \A k \in Threads : Running(k)' /\ k \notin stopped' => event'[of'[k]] = k
    BY <1>1, <1>2 DEF InOrder, EventsAreThreads, Running
  <2>3. \A k \in Threads : k > started' => loop'[k] = "none" /\ k \notin stopped'
    BY <1>1, <1>2 DEF InOrder, EventsAreThreads, Running
  <2> QED
    BY <2>1, <2>2, <2>3 DEF EventsAreThreads
<1>5. TasksHaveThreads' /\ NewIsUnknown'
  BY <1>1 DEF InOrder, TasksHaveThreads, NewIsUnknown, center
<1>6. OneAtATime'
  BY <1>1 DEF InOrder, OneAtATime, UnderWay, Idle, packet
<1>7. \A h \in Packets : UnderWay(h)' => Knows(h)'
  BY <1>1 DEF InOrder, UnderWay, Knows, StepKnows, KindKnows, Progress, Dropping, Pending,
              AboutOne, Keys, packet
<1> QED
  BY <1>4, <1>5, <1>6, <1>7 DEF InOrder

(* The center: a packet that arrives on its own.                           *)
LEMMA ReceiveInOrder ==
  ASSUME TypeOK, InOrder, ~overlap', NEW h \in Packets, h = sent + 1,
         NEW type, NEW d, NEW first \in Steps \ {"none", "done", "failed"},
         Receive(type, d, first), NewIsUnknown',
         (\A t \in Tasks : event[t] = 0 <=> tasks[t] = NoConfig) => Knows(h)'
  PROVE  InOrder'
<1>1. Idle
  BY DEF Receive
<1>2. /\ sent \in Nat /\ sent' = h
      /\ pc' = [pc EXCEPT ![h] = first]
      /\ UNCHANGED <<tasks, event, todo, probing>>
  BY DEF Receive, TypeOK
<1>3. /\ pc'[h] = first /\ UnderWay(h)'
      /\ \A g \in Packets : g # h => pc'[g] = pc[g] /\ ~UnderWay(g)'
  BY <1>1, <1>2 DEF TypeOK, Idle, UnderWay
<1>4. EventsAreThreads'
  BY <1>2, EventsKept DEF InOrder, EventsAreThreads
<1>5. \A t \in Tasks : event[t] = 0 <=> tasks[t] = NoConfig
  <2>1. \A g \in Packets : pc[g] \notin {"pop", "launch"}
    BY <1>1 DEF Idle, UnderWay
  <2> QED
    BY <2>1 DEF InOrder, EventsAreThreads, TasksHaveThreads
<1>6. TasksHaveThreads'
  BY <1>2, <1>5 DEF TasksHaveThreads
<1>7. OneAtATime'
  <2>1. \A g \in Packets : UnderWay(g)' => g = sent'
    BY <1>2, <1>3
  <2>2. \A g \in Packets : pc'[g] # "failed"
    BY <1>3 DEF InOrder, OneAtATime
  <2>3. \A g \in Packets : g > sent' => todo'[g] = {}
    BY <1>2 DEF InOrder, OneAtATime, Packets
  <2>4. ~Idle'
    BY <1>3 DEF Idle
  <2> QED
    BY <2>1, <2>2, <2>3, <2>4 DEF OneAtATime
<1>8. \A g \in Packets : UnderWay(g)' => Knows(g)'
  BY <1>3, <1>5
<1> QED
  BY <1>4, <1>6, <1>7, <1>8 DEF InOrder

(* What is known of the tasks and of the packets when one arrives.         *)
LEMMA BeforeReceive ==
  ASSUME TypeOK, InOrder, Idle, NEW h \in Packets, h = sent + 1
  PROVE  tasks = told /\ todo[h] = {}
<1>1. sent \in Nat /\ h > sent
  BY DEF TypeOK
<1> QED
  BY <1>1 DEF InOrder, OneAtATime

LEMMA CreateInOrder ==
  ASSUME TypeOK, InOrder, ~overlap', NEW t \in Tasks, CreateTask(t)
  PROVE  InOrder'
<1>1. PICK c \in Settings :
        /\ Change(t, c) /\ Receive("assign", [Empty EXCEPT ![t] = c], "start")
        /\ told' = [told EXCEPT ![t] = c]
  BY DEF CreateTask
<1>2. /\ retired[t] = "new" /\ retired' = [retired EXCEPT ![t] = "live"]
      /\ cur' = [cur EXCEPT ![sent + 1] = t]
  BY DEF CreateTask
<1>3. Idle /\ UNCHANGED <<tasks, event, todo, probing>>
  BY <1>1 DEF Receive
<1>4. PICK h \in Packets : h = sent + 1
  BY <1>1 DEF Receive, TypeOK, Packets
<1>5. tasks = told /\ todo[h] = {} /\ told[t] = NoConfig
  BY <1>2, <1>3, <1>4, BeforeReceive DEF InOrder, NewIsUnknown
<1>6. /\ pc'[h] = "start" /\ kind'[h] = "assign" /\ cur'[h] = t
      /\ list'[h] = [Empty EXCEPT ![t] = c] /\ list'[h][t] = c
  BY <1>1, <1>2, <1>4 DEF Receive, TypeOK, Empty
<1>7. c # NoConfig /\ told'[t] = c /\ \A u \in Tasks : u # t => told'[u] = told[u]
  BY <1>1 DEF TypeOK, Dict
<1>8. NewIsUnknown'
  BY <1>1, <1>2 DEF InOrder, NewIsUnknown, Change, TypeOK, Dict
<1>9. ASSUME \A u \in Tasks : event[u] = 0 <=> tasks[u] = NoConfig
      PROVE  Knows(h)'
  <2>1. StepKnows(h)'
    BY <1>3, <1>5, <1>6, <1>7, <1>9 DEF StepKnows
  <2>2. KindKnows(h)'
    BY <1>3, <1>5, <1>6, <1>7 DEF KindKnows
  <2>3. ~Dropping(h)' /\ Pending(h)' = {t}
    BY <1>3, <1>5, <1>6 DEF Dropping, Pending, AboutOne
  <2>4. Progress(h)'
    BY <1>3, <1>5, <1>7, <2>3 DEF Progress
  <2> QED
    BY <2>1, <2>2, <2>4 DEF Knows
<1> QED
  BY <1>1, <1>4, <1>8, <1>9, ReceiveInOrder DEF Steps

LEMMA DeleteInOrder ==
  ASSUME TypeOK, InOrder, ~overlap', NEW t \in Tasks, DeleteTask(t)
  PROVE  InOrder'
<1>1. /\ Change(t, NoConfig) /\ Receive("remove", Empty, "stop")
      /\ told' = [told EXCEPT ![t] = NoConfig]
      /\ retired' = [retired EXCEPT ![t] = "deleted"]
      /\ cur' = [cur EXCEPT ![sent + 1] = t]
  BY DEF DeleteTask
<1>2. Idle /\ UNCHANGED <<tasks, event, todo, probing>>
  BY <1>1 DEF Receive
<1>3. PICK h \in Packets : h = sent + 1
  BY <1>1 DEF Receive, TypeOK, Packets
<1>4. tasks = told /\ todo[h] = {}
  BY <1>2, <1>3, BeforeReceive
<1>5. pc'[h] = "stop" /\ kind'[h] = "remove" /\ cur'[h] = t
  BY <1>1, <1>3 DEF Receive, TypeOK
<1>6. told'[t] = NoConfig /\ \A u \in Tasks : u # t => told'[u] = told[u]
  BY <1>1 DEF TypeOK, Dict
<1>7. NewIsUnknown'
  BY <1>1 DEF InOrder, NewIsUnknown, Change, TypeOK, Dict
<1>8. Knows(h)'
  <2>1. StepKnows(h)' /\ KindKnows(h)'
    BY <1>2, <1>4, <1>5, <1>6 DEF StepKnows, KindKnows
  <2>2. ~Dropping(h)' /\ Pending(h)' = {t}
    BY <1>2, <1>4, <1>5 DEF Dropping, Pending, AboutOne
  <2>3. Progress(h)'
    BY <1>2, <1>4, <1>6, <2>2 DEF Progress
  <2> QED
    BY <2>1, <2>3 DEF Knows
<1> QED
  BY <1>1, <1>3, <1>7, <1>8, ReceiveInOrder DEF Steps

LEMMA SyncInOrder ==
  ASSUME TypeOK, InOrder, ~overlap', SendSync
  PROVE  InOrder'
<1>1. Receive("sync", db, "snapshot") /\ told' = db /\ UNCHANGED <<center, cur>>
  BY DEF SendSync
<1>2. UNCHANGED <<tasks, event, todo, probing>>
  BY <1>1 DEF Receive
<1>3. PICK h \in Packets : h = sent + 1
  BY <1>1 DEF Receive, TypeOK, Packets
<1>4. pc'[h] = "snapshot" /\ kind'[h] = "sync" /\ list'[h] = told'
  BY <1>1, <1>3 DEF Receive, TypeOK
<1>5. NewIsUnknown'
  BY <1>1 DEF InOrder, NewIsUnknown, center
<1>6. Knows(h)'
  BY <1>4 DEF Knows, StepKnows, KindKnows, Progress, AboutOne
<1> QED
  BY <1>1, <1>3, <1>5, <1>6, ReceiveInOrder DEF Steps

LEMMA UpdateInOrder ==
  ASSUME TypeOK, InOrder, NEW t \in Tasks, UpdateOrToggle(t)
  PROVE  InOrder'
<1>1. /\ UNCHANGED <<retired, tasks, event, packet, pc, todo, cur, probing, told>>
      /\ retired[t] = "live"
      /\ \E c \in Settings \cup {NoConfig} : db' = [db EXCEPT ![t] = c]
  BY DEF UpdateOrToggle, Change
<1>2. EventsAreThreads' /\ TasksHaveThreads'
  BY <1>1, EventsKept DEF InOrder, EventsAreThreads, TasksHaveThreads
<1>3. NewIsUnknown'
  BY <1>1 DEF InOrder, NewIsUnknown, TypeOK, Dict
<1>4. OneAtATime'
  BY <1>1 DEF InOrder, OneAtATime, UnderWay, Idle, packet
<1>5. \A h \in Packets : UnderWay(h)' => Knows(h)'
  BY <1>1 DEF InOrder, UnderWay, Knows, StepKnows, KindKnows, Progress, Dropping, Pending,
              AboutOne, Keys, packet
<1> QED
  BY <1>2, <1>3, <1>4, <1>5 DEF InOrder

LEMMA NextOrderInv == OrderInv /\ [Next]_vars => OrderInv'
<1> SUFFICES ASSUME OrderInv, [Next]_vars, ~overlap' PROVE InOrder'
  BY NextTypeOK DEF OrderInv
<1>1. TypeOK /\ (~overlap => InOrder)
  BY DEF OrderInv
<1>2. ASSUME NEW t \in Tasks, CreateTask(t) \/ DeleteTask(t) PROVE InOrder'
  <2>1. ~overlap
    BY <1>2 DEF CreateTask, DeleteTask, Receive
  <2> QED
    BY <1>1, <1>2, <2>1, CreateInOrder, DeleteInOrder
<1>3. ASSUME NEW t \in Tasks, UpdateOrToggle(t) PROVE InOrder'
  <2>1. ~overlap
    BY <1>3 DEF UpdateOrToggle
  <2> QED
    BY <1>1, <1>3, <2>1, UpdateInOrder
<1>4. CASE SendSync
  <2>1. ~overlap
    BY <1>4 DEF SendSync, Receive
  <2> QED
    BY <1>1, <1>4, <2>1, SyncInOrder
<1>5. ASSUME NEW h \in Packets, PacketThread(h) PROVE InOrder'
  <2>1. ~overlap
    BY <1>5 DEF PacketThread, Stop, PopTask, StartTask, Launch, Snapshot, Drop, Look, Compare,
                Store
  <2> QED
    BY <1>1, <1>5, <2>1, StopInOrder, PopTaskInOrder, StartTaskInOrder, LaunchInOrder,
       SnapshotInOrder, DropInOrder, LookInOrder, CompareInOrder, StoreInOrder
       DEF PacketThread
<1>6. ASSUME NEW th \in Threads, ProbeThread(th) PROVE InOrder'
  <2>1. ~overlap
    BY <1>6 DEF ProbeThread, CheckEvent, ReadConfig, Report
  <2> QED
    BY <1>1, <1>6, <2>1, ProbeInOrder
<1>7. CASE UNCHANGED vars
  <2>1. InOrder
    BY <1>1, <1>7 DEF vars
  <2>2. EventsAreThreads' /\ TasksHaveThreads' /\ NewIsUnknown' /\ OneAtATime'
    BY <1>7, <2>1 DEF InOrder, EventsAreThreads, TasksHaveThreads, NewIsUnknown, OneAtATime,
       Probing, Running, UnderWay, Idle, vars, center, packet, probing
  <2>3. \A h \in Packets : UnderWay(h)' => Knows(h)'
    BY <1>7, <2>1 DEF InOrder, UnderWay, Knows, StepKnows, KindKnows, Progress, Dropping,
       Pending, AboutOne, Keys, vars, center, packet, probing
  <2> QED
    BY <2>2, <2>3 DEF InOrder
<1> QED
  BY <1>2, <1>3, <1>4, <1>5, <1>6, <1>7 DEF Next

LEMMA InitOrderInv == Init => OrderInv
<1> SUFFICES ASSUME Init PROVE TypeOK /\ InOrder
  BY DEF OrderInv
<1>1. EventsAreThreads
  BY DEF Init, EventsAreThreads, Running
<1>2. TasksHaveThreads /\ NewIsUnknown
  BY DEF Init, TasksHaveThreads, NewIsUnknown, Empty
<1>3. OneAtATime
  BY DEF Init, OneAtATime, UnderWay, Idle
<1>4. \A h \in Packets : ~UnderWay(h)
  BY DEF Init, UnderWay
<1> QED
  BY <1>1, <1>2, <1>3, <1>4, InitTypeOK DEF InOrder

(* In order, a task is probed by the thread of its event and no other.     *)
LEMMA ProbedByEvent ==
  ASSUME TypeOK, InOrder, NEW t \in Tasks
  PROVE  /\ event[t] = 0 => Cardinality(Probing(t)) = 0
         /\ event[t] # 0 => Cardinality(Probing(t)) = 1
<1>1. ASSUME NEW th \in Probing(t) PROVE th = event[t] /\ event[t] # 0
  BY DEF Probing, InOrder, EventsAreThreads, Threads
<1>2. ASSUME event[t] = 0 PROVE Probing(t) = {}
  BY <1>1, <1>2
<1>3. ASSUME event[t] # 0 PROVE Probing(t) = {event[t]}
  BY <1>1, <1>3 DEF InOrder, EventsAreThreads
<1> QED
  BY <1>2, <1>3, FS_EmptySet, FS_Singleton

(* A task that is restarted is not probed twice in between, as long as no  *)
(* two packets are under way at once (start_task and stop_task).           *)
THEOREM NeverProbedTwice == Spec => []AtMostOneThread
<1>1. OrderInv => AtMostOneThread
  <2> SUFFICES ASSUME OrderInv, ~overlap, NEW t \in Tasks
               PROVE  Cardinality(Probing(t)) <= 1
    BY DEF AtMostOneThread
  <2> QED
    BY ProbedByEvent DEF OrderInv
<1> QED
  BY <1>1, InitOrderInv, NextOrderInv, PTL DEF Spec

(* Packets that are handled one at a time leave the scheduler with the     *)
(* tasks they ask for, each probed by one thread (update_tasks).           *)
THEOREM InOrderProbesWhatIsTold == Spec => []InOrderIsExact
<1>1. OrderInv => InOrderIsExact
  <2> SUFFICES ASSUME OrderInv, ~overlap, Idle PROVE
        /\ tasks = told
        /\ \A t \in Tasks :
             Cardinality(Probing(t)) = IF told[t] = NoConfig THEN 0 ELSE 1
    BY DEF InOrderIsExact
  <2>1. TypeOK /\ InOrder /\ tasks = told
    BY DEF OrderInv, InOrder, OneAtATime
  <2>2. \A t \in Tasks : event[t] = 0 <=> tasks[t] = NoConfig
    <3>1. \A h \in Packets : pc[h] \notin {"pop", "launch"}
      BY DEF Idle, UnderWay
    <3> QED
      BY <2>1, <3>1 DEF InOrder, EventsAreThreads, TasksHaveThreads
  <2> QED
    BY <2>1, <2>2, ProbedByEvent
<1> QED
  BY <1>1, InitOrderInv, NextOrderInv, PTL DEF Spec
=============================================================================
