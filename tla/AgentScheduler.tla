---------------------------- MODULE AgentScheduler ----------------------------
(***************************************************************************)
(* The scheduler of the agent (agent/scheduler.py) as the packet handlers  *)
(* of agent/ws_client.py use it: a dictionary of tasks, a dictionary of    *)
(* stop events, and a thread for every start of a task.                    *)
(*                                                                         *)
(* Each packet is handled by a thread of its own and nothing is locked:    *)
(* every access to a dictionary is a step.  A call of event.set right      *)
(* after the pop, and of t.start right after the event is stored, belong   *)
(* to that step, since the probing thread may be late in any case.  The    *)
(* dictionary _threads is only ever popped and is left out, and so is the  *)
(* lock of _next_seq.                                                      *)
(***************************************************************************)
EXTENDS Naturals, FiniteSets

CONSTANTS
  Tasks,       \* tasks of the node
  Settings,    \* target, interval and protocol of a task: what is compared
  NoConfig,    \* stands for "not in the dictionary"
  MaxPackets,  \* bound: packets handled
  MaxThreads,  \* bound: probing threads started
  MaxChanges,  \* bound: changes of the tasks by administrators
  MaxLate      \* bound: results counted after a stop

ASSUME TasksAssumption == Tasks # {}
ASSUME NoConfigAssumption == NoConfig \notin Settings
ASSUME BoundsAssumption ==
  /\ MaxPackets \in Nat /\ MaxThreads \in Nat /\ MaxChanges \in Nat
  /\ MaxLate \in Nat \ {0}

Packets == 1..MaxPackets
Threads == 1..MaxThreads

(* A dictionary from task ids to what matters of a task_config.  Disabled  *)
(* tasks are in no packet, so update_tasks never meets one.                *)
Dict == [Tasks -> Settings \cup {NoConfig}]
Empty == [t \in Tasks |-> NoConfig]
Keys(d) == {t \in Tasks : d[t] # NoConfig}

VARIABLES
  (* the center *)
  db,       \* the enabled tasks of the node
  retired,  \* tasks that were deleted, or not yet created: "new"
  changes,
  (* the scheduler *)
  tasks,    \* scheduler.tasks
  event,    \* _stop_events: the thread an event was made for, or 0
  (* the threads of packets *)
  sent,     \* packets so far
  kind, list,  \* of each packet; list has the one task of an assignment
  pc, todo, cur,  \* next step, tasks still to go through, the one under way
  (* the threads of probes *)
  started,  \* threads so far
  of,       \* the task each one probes
  loop,     \* next step of _task_loop
  stopped,  \* threads whose stop event is set
  (* what happened, for the properties *)
  told,     \* the tasks the packets, taken in order, ask for
  overlap,  \* two packets were under way at once
  late      \* results a thread reported after its stop

center == <<db, retired, changes>>
packet == <<sent, kind, list>>
probing == <<started, of, loop, stopped, late>>
vars == <<center, tasks, event, packet, pc, todo, cur, probing, told, overlap>>

Kinds == {"none", "sync", "assign", "remove"}
Steps == {"none", "snapshot", "drop", "look", "compare", "stop", "pop", "store",
          "start", "launch", "done", "failed"}
UnderWay(h) == pc[h] \notin {"none", "done", "failed"}
Idle == \A h \in Packets : ~UnderWay(h)
Running(th) == loop[th] \in {"check", "read", "probe"}

TypeOK ==
  /\ db \in Dict /\ tasks \in Dict /\ told \in Dict
  /\ retired \in [Tasks -> {"new", "live", "deleted"}]
  /\ changes \in 0..MaxChanges
  /\ event \in [Tasks -> 0..MaxThreads]
  /\ sent \in 0..MaxPackets /\ started \in 0..MaxThreads
  /\ kind \in [Packets -> Kinds] /\ list \in [Packets -> Dict]
  /\ pc \in [Packets -> Steps] /\ todo \in [Packets -> SUBSET Tasks]
  /\ cur \in [Packets -> Tasks]
  /\ of \in [Threads -> Tasks]
  /\ loop \in [Threads -> {"none", "check", "read", "probe", "ended"}]
  /\ stopped \subseteq Threads /\ overlap \in BOOLEAN
  /\ late \in [Threads -> 0..MaxLate]

Init ==
  /\ db = Empty /\ tasks = Empty /\ told = Empty
  /\ retired = [t \in Tasks |-> "new"] /\ changes = 0
  /\ event = [t \in Tasks |-> 0]
  /\ sent = 0 /\ started = 0
  /\ kind = [h \in Packets |-> "none"] /\ list = [h \in Packets |-> Empty]
  /\ pc = [h \in Packets |-> "none"] /\ todo = [h \in Packets |-> {}]
  /\ cur = [h \in Packets |-> CHOOSE t \in Tasks : TRUE]
  /\ of = [th \in Threads |-> CHOOSE t \in Tasks : TRUE]
  /\ loop = [th \in Threads |-> "none"]
  /\ stopped = {} /\ overlap = FALSE /\ late = [th \in Threads |-> 0]

-----------------------------------------------------------------------------
(* The center, as far as it decides which packets there are.  A packet     *)
(* arrives when its thread starts; how long it travelled makes no          *)
(* difference here.                                                        *)

Receive(type, tasksOf, first) ==
  /\ sent < MaxPackets /\ sent' = sent + 1
  /\ kind' = [kind EXCEPT ![sent + 1] = type]
  /\ list' = [list EXCEPT ![sent + 1] = tasksOf]
  /\ pc' = [pc EXCEPT ![sent + 1] = first]
  /\ overlap' = (overlap \/ ~Idle)
  /\ UNCHANGED <<tasks, event, todo, probing>>

Change(t, c) ==
  /\ changes < MaxChanges /\ changes' = changes + 1
  /\ db' = [db EXCEPT ![t] = c]

CreateTask(t) ==
  /\ retired[t] = "new" /\ retired' = [retired EXCEPT ![t] = "live"]
  /\ \E c \in Settings :
       /\ Change(t, c)
       /\ Receive("assign", [Empty EXCEPT ![t] = c], "start")
       /\ told' = [told EXCEPT ![t] = c]
  /\ cur' = [cur EXCEPT ![sent + 1] = t]

DeleteTask(t) ==
  /\ retired[t] = "live" /\ retired' = [retired EXCEPT ![t] = "deleted"]
  /\ Change(t, NoConfig)
  /\ Receive("remove", Empty, "stop")
  /\ told' = [told EXCEPT ![t] = NoConfig]
  /\ cur' = [cur EXCEPT ![sent + 1] = t]

(* Updates and toggles are not sent (see TaskSync).                        *)
UpdateOrToggle(t) ==
  /\ retired[t] = "live"
  /\ \E c \in Settings \cup {NoConfig} : c # db[t] /\ Change(t, c)
  /\ UNCHANGED <<retired, tasks, event, packet, pc, todo, cur, probing, told,
                 overlap>>

(* After an authentication, or as a retry of a sync that is pending.       *)
SendSync ==
  /\ Receive("sync", db, "snapshot")
  /\ told' = db
  /\ UNCHANGED <<center, cur>>

-----------------------------------------------------------------------------
(* start_task and stop_task, as parts of a handler.                        *)

Goto(h, step) == pc' = [pc EXCEPT ![h] = step]

(* stop_task: first the event is popped and set, ...                       *)
PopEvent(t) ==
  /\ event' = [event EXCEPT ![t] = 0]
  /\ stopped' = stopped \cup ({event[t]} \ {0})

Stop(h) ==
  /\ pc[h] = "stop" /\ Goto(h, "pop")
  /\ PopEvent(cur[h])
  /\ UNCHANGED <<center, tasks, packet, todo, cur, started, of, loop, late, told,
                 overlap>>

(* ... then the task is popped.                                            *)
PopTask(h) ==
  /\ pc[h] = "pop"
  /\ tasks' = [tasks EXCEPT ![cur[h]] = NoConfig]
  /\ Goto(h, IF kind[h] = "remove" THEN "done"
             ELSE IF list[h][cur[h]] = NoConfig THEN "drop" ELSE "start")
  /\ UNCHANGED <<center, event, packet, todo, cur, probing, told, overlap>>

(* Mutant of StartTask: the whole list is stored for the task.             *)
StartTaskList(h) ==
  /\ pc[h] = "start" /\ Goto(h, "launch")
  /\ tasks' = [tasks EXCEPT ![cur[h]] = list[h]]
  /\ UNCHANGED <<center, event, packet, todo, cur, probing, told, overlap>>

(* start_task: first the task is stored, ...                               *)
StartTask(h) ==
  /\ pc[h] = "start" /\ Goto(h, "launch")
  /\ tasks' = [tasks EXCEPT ![cur[h]] = list[h][cur[h]]]
  /\ UNCHANGED <<center, event, packet, todo, cur, probing, told, overlap>>

(* ... then the event of a new thread, over one that may be there.         *)
Launch(h) ==
  /\ pc[h] = "launch" /\ Goto(h, IF kind[h] = "sync" THEN "look" ELSE "done")
  /\ started < MaxThreads /\ started' = started + 1
  /\ event' = [event EXCEPT ![cur[h]] = started + 1]
  /\ of' = [of EXCEPT ![started + 1] = cur[h]]
  /\ loop' = [loop EXCEPT ![started + 1] = "check"]
  /\ UNCHANGED <<center, tasks, packet, todo, cur, stopped, late, told, overlap>>

-----------------------------------------------------------------------------
(* Mutant of Snapshot: a full sync only adds tasks.                        *)
SnapshotNothing(h) ==
  /\ pc[h] = "snapshot" /\ Goto(h, "drop")
  /\ todo' = [todo EXCEPT ![h] = {}]
  /\ UNCHANGED <<center, tasks, event, packet, cur, probing, told, overlap>>

(* update_tasks: stop what is not in the list any more, ...                *)
Snapshot(h) ==
  /\ pc[h] = "snapshot" /\ Goto(h, "drop")
  /\ todo' = [todo EXCEPT ![h] = Keys(tasks) \ Keys(list[h])]
  /\ UNCHANGED <<center, tasks, event, packet, cur, probing, told, overlap>>

Drop(h) ==
  /\ pc[h] = "drop"
  /\ \/ /\ todo[h] = {} /\ Goto(h, "look")
        /\ todo' = [todo EXCEPT ![h] = Keys(list[h])]
        /\ UNCHANGED cur
     \/ \E t \in todo[h] :
          /\ cur' = [cur EXCEPT ![h] = t]
          /\ todo' = [todo EXCEPT ![h] = @ \ {t}]
          /\ Goto(h, "stop")
  /\ UNCHANGED <<center, tasks, event, packet, probing, told, overlap>>

(* ... then start what is new and restart what changed.                    *)
Look(h) ==
  /\ pc[h] = "look"
  /\ \/ todo[h] = {} /\ Goto(h, "done") /\ UNCHANGED <<todo, cur>>
     \/ \E t \in todo[h] :
          /\ cur' = [cur EXCEPT ![h] = t]
          /\ todo' = [todo EXCEPT ![h] = @ \ {t}]
          /\ Goto(h, IF tasks[t] = NoConfig THEN "start" ELSE "compare")
  /\ UNCHANGED <<center, tasks, event, packet, probing, told, overlap>>

(* Mutant of Compare: a task that changed is started without a stop.       *)
CompareNoStop(h) ==
  /\ pc[h] = "compare"
  /\ Goto(h, CASE tasks[cur[h]] = NoConfig         -> "failed"
               [] tasks[cur[h]] = list[h][cur[h]]  -> "store"
               [] OTHER                            -> "start")
  /\ UNCHANGED <<center, tasks, event, packet, todo, cur, probing, told, overlap>>

(* The task may be gone by now: a KeyError ends the thread of the packet.  *)
Compare(h) ==
  /\ pc[h] = "compare"
  /\ Goto(h, CASE tasks[cur[h]] = NoConfig         -> "failed"
               [] tasks[cur[h]] = list[h][cur[h]]  -> "store"
               [] OTHER                            -> "stop")
  /\ UNCHANGED <<center, tasks, event, packet, todo, cur, probing, told, overlap>>

Store(h) ==
  /\ pc[h] = "store" /\ Goto(h, "look")
  /\ tasks' = [tasks EXCEPT ![cur[h]] = list[h][cur[h]]]
  /\ UNCHANGED <<center, event, packet, todo, cur, probing, told, overlap>>

-----------------------------------------------------------------------------
(* _task_loop: look at the event, read the configuration, probe, wait.     *)

Loop(th, step) == loop' = [loop EXCEPT ![th] = step]

(* Mutant of CheckEvent: only the dictionary is looked at.                 *)
CheckNothing(th) ==
  /\ loop[th] = "check" /\ Loop(th, "read")
  /\ UNCHANGED <<center, tasks, event, packet, pc, todo, cur, started, of,
                 stopped, late, told, overlap>>

CheckEvent(th) ==
  /\ loop[th] = "check"
  /\ Loop(th, IF th \in stopped THEN "ended" ELSE "read")
  /\ UNCHANGED <<center, tasks, event, packet, pc, todo, cur, started, of,
                 stopped, late, told, overlap>>

(* Mutant of ReadConfig: the configuration of the start is kept.           *)
ReadNothing(th) ==
  /\ loop[th] = "read" /\ Loop(th, "probe")
  /\ UNCHANGED <<center, tasks, event, packet, pc, todo, cur, started, of,
                 stopped, late, told, overlap>>

ReadConfig(th) ==
  /\ loop[th] = "read"
  /\ Loop(th, IF tasks[of[th]] = NoConfig THEN "ended" ELSE "probe")
  /\ UNCHANGED <<center, tasks, event, packet, pc, todo, cur, started, of,
                 stopped, late, told, overlap>>

Capped(n) == IF n < MaxLate THEN n + 1 ELSE n

Report(th) ==
  /\ loop[th] = "probe" /\ Loop(th, "check")
  /\ late' = [late EXCEPT ![th] = IF th \in stopped THEN Capped(@) ELSE @]
  /\ UNCHANGED <<center, tasks, event, packet, pc, todo, cur, started, of,
                 stopped, told, overlap>>

-----------------------------------------------------------------------------
PacketThread(h) ==
  \/ Stop(h) \/ PopTask(h) \/ StartTask(h) \/ Launch(h)
  \/ Snapshot(h) \/ Drop(h) \/ Look(h) \/ Compare(h) \/ Store(h)
ProbeThread(th) == CheckEvent(th) \/ ReadConfig(th) \/ Report(th)

Next ==
  \/ \E t \in Tasks : CreateTask(t) \/ DeleteTask(t) \/ UpdateOrToggle(t)
  \/ SendSync
  \/ \E h \in Packets : PacketThread(h)
  \/ \E th \in Threads : ProbeThread(th)

Spec == Init /\ [][Next]_vars

(* Threads run.                                                            *)
FairSpec ==
  /\ Spec
  /\ \A h \in Packets : WF_vars(PacketThread(h))
  /\ \A th \in Threads : WF_vars(ProbeThread(th))

-----------------------------------------------------------------------------
Probing(t) == {th \in Threads : Running(th) /\ of[th] = t /\ th \notin stopped}

(* What TaskSync takes for granted of a packet that is handled on its own: *)
(* afterwards the dictionary is what the packets ask for, and every task   *)
(* in it, no other, is probed by exactly one thread.                       *)
InOrderIsExact ==
  ~overlap /\ Idle =>
    /\ tasks = told
    /\ \A t \in Tasks : Cardinality(Probing(t)) = IF told[t] = NoConfig THEN 0 ELSE 1

(* A task that is restarted is not probed twice in between.                *)
AtMostOneThread ==
  ~overlap => \A t \in Tasks : Cardinality(Probing(t)) <= 1

(* However packets overlap, a thread that was stopped delivers at most the *)
(* result it was working on.                                               *)
StoppedReportsOnce == \A th \in stopped : late[th] <= 1

(* However packets overlap, a thread whose stop event was overwritten ends *)
(* with its task: what is not in the dictionary is not probed for good.    *)
RemovedEnds ==
  \A th \in Threads :
    Running(th) /\ tasks[of[th]] = NoConfig
      ~> ~Running(th) \/ tasks[of[th]] # NoConfig

(* An agent that has handled the packets and has the tasks of the center   *)
(* probes them (PROJECT.md 7.6, rule 5: a full sync overwrites everything).*)
NoIdleTask ==
  Idle /\ tasks = db => \A t \in Keys(db) : Probing(t) # {}
=============================================================================
