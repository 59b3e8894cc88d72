----------------------------- MODULE AlertEngine -----------------------------
(***************************************************************************)
(* The alert engine of one probe task (server/services/alert_service.py):  *)
(* a sliding window, a two-state machine, a recovery count and a cooldown  *)
(* for each metric, all in memory, and the rows of alert_history they      *)
(* cause, in the database.                                                 *)
(*                                                                         *)
(* process_probe_result never yields under eventlet (see ResultDelivery),  *)
(* so one probe result is one step.  A value is abstracted to how it       *)
(* compares with the threshold in force: above it ("breach"), not above it *)
(* ("ok"), or missing or not a number ("absent").  Time is counted in      *)
(* abstract units since the last alert of a metric and saturates at        *)
(* MaxCooldown, beyond which nothing in the engine tells ages apart.       *)
(***************************************************************************)
EXTENDS Integers, FiniteSets, Sequences

CONSTANTS
  Configs,        \* what an administrator may set the alert fields to
  Channels,       \* enabled webhook channels that have a URL
  MaxCooldown,    \* bound: ages are counted up to here
  MaxSamples,     \* bound: results evaluated
  MaxRestarts,    \* bound: restarts of the server
  MaxUpdates,     \* bound: changes of the settings
  MaxCommitFails  \* bound: commits of the database that raise

Valued == {"latency", "packet_loss"}
Fail   == "continuous_fail"
Keys   == Valued \cup {Fail}

(* rules: the metrics whose threshold is not NULL; failCount: the          *)
(* alert_fail_count.  The API does not relate the numbers to each other.   *)
Config == [rules : SUBSET Keys, failCount : Nat, window : Nat,
           trigger : Nat, recovery : Nat, cooldown : 0..MaxCooldown]

ASSUME ConfigsAssumption == Configs # {} /\ Configs \subseteq Config
ASSUME BoundsAssumption ==
  /\ MaxCooldown \in Nat /\ MaxSamples \in Nat
  /\ MaxRestarts \in Nat /\ MaxUpdates \in Nat /\ MaxCommitFails \in Nat

VARIABLES
  (* in memory *)
  config,     \* the alert fields of the task (these are in the database)
  window,     \* _windows: [Keys -> sequence of "was a breach"]
  state,      \* _alert_state
  okCount,    \* _ok_counts
  age,        \* time since _last_alert_time, up to MaxCooldown
  fails,      \* _fail_counts
  (* in the database *)
  row,        \* event_type of the last row of each metric, or "none"
  rowAge,     \* time since the last row of type alert
  (* what happened, for the properties and the bounds *)
  trail,      \* every sample evaluated since the server started
  sinceAlert, \* samples evaluated since the last alert
  calm,       \* samples evaluated since the last breach
  breached,   \* a breach was evaluated since the last recovery
  intact,     \* no row of the metric was lost, no restart came between
  samples, restarts, updates, commitFails

engine  == <<window, state, okCount, age, fails>>
ghosts  == <<trail, sinceAlert, calm, breached>>
bounds == <<samples, restarts, updates, commitFails>>
vars == <<config, engine, row, rowAge, ghosts, intact, bounds>>

TypeOK ==
  /\ config \in Configs
  /\ window \in [Keys -> Seq(BOOLEAN)]
  /\ \A k \in Keys : \E c \in Configs : Len(window[k]) <= c.window
  /\ state \in [Keys -> {"normal", "alerting"}]
  /\ okCount \in [Keys -> Nat]
  /\ age \in [Keys -> 0..MaxCooldown] /\ rowAge \in [Keys -> 0..MaxCooldown]
  /\ fails \in Nat
  /\ row \in [Keys -> {"none", "alert", "recovery"}]
  /\ trail \in [Keys -> Seq(BOOLEAN)]
  /\ sinceAlert \in [Keys -> Nat] /\ calm \in [Keys -> Nat]
  /\ breached \in [Keys -> BOOLEAN] /\ intact \in [Keys -> BOOLEAN]
  /\ samples \in 0..MaxSamples /\ restarts \in 0..MaxRestarts
  /\ updates \in 0..MaxUpdates /\ commitFails \in 0..MaxCommitFails

Init ==
  /\ config \in Configs
  /\ window = [k \in Keys |-> << >>]
  /\ state = [k \in Keys |-> "normal"]
  /\ okCount = [k \in Keys |-> 0]
  /\ age = [k \in Keys |-> MaxCooldown]
  /\ fails = 0
  /\ row = [k \in Keys |-> "none"]
  /\ rowAge = [k \in Keys |-> MaxCooldown]
  /\ trail = [k \in Keys |-> << >>]
  /\ sinceAlert = [k \in Keys |-> 0]
  /\ calm = [k \in Keys |-> 0]
  /\ breached = [k \in Keys |-> FALSE]
  /\ intact = [k \in Keys |-> TRUE]
  /\ samples = 0 /\ restarts = 0 /\ updates = 0 /\ commitFails = 0

-----------------------------------------------------------------------------
LastN(s, n) == IF Len(s) <= n THEN s ELSE SubSeq(s, Len(s) - n + 1, Len(s))
Breaches(w) == Cardinality({i \in 1..Len(w) : w[i]})

(* A probe result, as the engine sees it.                                  *)
Sample == [Valued -> {"ok", "breach", "absent"}] \X BOOLEAN

FailsAfter(success) ==
  IF Fail \notin config.rules THEN fails ELSE IF success THEN 0 ELSE fails + 1

(* The metrics a sample is evaluated for, and those that are above their   *)
(* threshold; every comparison is "value > threshold".                     *)
Evaluated(sample) ==
  {k \in config.rules : k \in Valued => sample[1][k] # "absent"}
Breach(sample, k) ==
  IF k = Fail THEN FailsAfter(sample[2]) > config.failCount
              ELSE sample[1][k] = "breach"

(* _check_threshold of one metric: the new window, the new count of good   *)
(* samples in a row, and the event it returns.                             *)
WindowUntrimmed(k, b) == Append(window[k], b)   \* mutant of WindowAfter
WindowAfter(k, b) == LastN(Append(window[k], b), config.window)
OkAfterAny(k, b) == okCount[k] + 1   \* mutant of OkAfter: a breach does not reset it
OkAfter(k, b) == IF b THEN 0 ELSE okCount[k] + 1
(* Mutants of Event: no cooldown; a trigger that must be exceeded.         *)
EventNoCooldown(k, b) ==
  CASE state[k] = "normal"
       /\ Breaches(WindowAfter(k, b)) >= config.trigger            -> "alert"
    [] state[k] = "alerting" /\ OkAfter(k, b) >= config.recovery -> "recovery"
    [] OTHER                                                      -> "none"
EventExceeds(k, b) ==
  CASE /\ state[k] = "normal"
       /\ Breaches(WindowAfter(k, b)) > config.trigger
       /\ age[k] >= config.cooldown                               -> "alert"
    [] state[k] = "alerting" /\ OkAfter(k, b) >= config.recovery -> "recovery"
    [] OTHER                                                      -> "none"
Event(k, b) ==
  CASE /\ state[k] = "normal"
       /\ Breaches(WindowAfter(k, b)) >= config.trigger
       /\ age[k] >= config.cooldown                          -> "alert"
    [] state[k] = "alerting" /\ OkAfter(k, b) >= config.recovery -> "recovery"
    [] OTHER                                                 -> "none"

(* evaluate_probe_result applies it to every metric that is configured ... *)
Evaluate(sample) ==
  LET on == Evaluated(sample)
      b == [k \in Keys |-> Breach(sample, k)]
      event == [k \in Keys |-> IF k \in on THEN Event(k, b[k]) ELSE "none"]
  IN
  /\ fails' = FailsAfter(sample[2])
  /\ window' = [k \in Keys |-> IF k \in on THEN WindowAfter(k, b[k]) ELSE window[k]]
  /\ state' = [k \in Keys |-> CASE event[k] = "alert" -> "alerting"
                                [] event[k] = "recovery" -> "normal"
                                [] OTHER -> state[k]]
  /\ okCount' = [k \in Keys |-> IF event[k] # "none" THEN 0
                                ELSE IF k \in on THEN OkAfter(k, b[k])
                                ELSE okCount[k]]
  /\ age' = [k \in Keys |-> IF event[k] = "alert" THEN 0 ELSE age[k]]
  /\ trail' = [k \in Keys |-> IF k \in on THEN Append(trail[k], b[k]) ELSE trail[k]]
  /\ sinceAlert' = [k \in Keys |-> IF event[k] = "alert" THEN 0
                                   ELSE IF k \in on THEN sinceAlert[k] + 1
                                   ELSE sinceAlert[k]]
  /\ calm' = [k \in Keys |-> IF k \notin on THEN calm[k]
                             ELSE IF b[k] THEN 0 ELSE calm[k] + 1]
  /\ breached' = [k \in Keys |-> /\ event[k] # "recovery"
                                 /\ breached[k] \/ (k \in on /\ b[k])]

(* ... and process_probe_result records the events in this order.  A       *)
(* commit that raises ends the loop.  The first commit of a row loses the  *)
(* row; the second, which marks it as notified, is there only when there   *)
(* was a channel to try, as send_webhook never raises, and leaves the row. *)
Rank == [latency |-> 1, packet_loss |-> 2, continuous_fail |-> 3]

Changed(k) == state'[k] # state[k]
EventOf(k) == IF state'[k] = "alerting" THEN "alert" ELSE "recovery"

(* Mutant of RecordEvents: only the first event of a result is recorded.   *)
RecordFirst ==
  LET done == {k \in Keys : Changed(k) /\ \A j \in Keys : Changed(j) => Rank[k] <= Rank[j]} IN
  /\ row' = [k \in Keys |-> IF k \in done THEN EventOf(k) ELSE row[k]]
  /\ rowAge' = [k \in Keys |-> IF k \in done /\ EventOf(k) = "alert"
                               THEN 0 ELSE rowAge[k]]
  /\ UNCHANGED <<commitFails, intact>>

RecordEvents ==
  \E cut \in 1..4, added \in BOOLEAN :
    LET done == {k \in Keys : Changed(k) /\ Rank[k] < cut}
        half == {k \in Keys : added /\ Changed(k) /\ Rank[k] = cut}
    IN
    /\ IF cut = 4
       THEN ~added /\ UNCHANGED commitFails
       ELSE /\ \E k \in Keys : Changed(k) /\ Rank[k] = cut
            /\ added => Channels # {}
            /\ commitFails < MaxCommitFails /\ commitFails' = commitFails + 1
    /\ row' = [k \in Keys |-> IF k \in done \cup half THEN EventOf(k) ELSE row[k]]
    /\ rowAge' = [k \in Keys |-> IF k \in done \cup half /\ EventOf(k) = "alert"
                                 THEN 0 ELSE rowAge[k]]
    /\ intact' = [k \in Keys |-> intact[k] /\ (Changed(k) => k \in done \cup half)]

ProcessProbeResult(sample) ==
  /\ samples < MaxSamples /\ samples' = samples + 1
  /\ Evaluate(sample)
  /\ RecordEvents
  /\ UNCHANGED <<config, restarts, updates>>

(* update_task sets any of the alert fields and leaves the engine alone.   *)
UpdateTask ==
  /\ updates < MaxUpdates /\ updates' = updates + 1
  /\ config' \in Configs \ {config}
  /\ UNCHANGED <<engine, row, rowAge, ghosts, intact, samples, restarts,
                 commitFails>>

Older(a) == [k \in Keys |-> IF a[k] < MaxCooldown THEN a[k] + 1 ELSE a[k]]
Tick ==
  /\ \E k \in Keys : age[k] < MaxCooldown \/ rowAge[k] < MaxCooldown
  /\ age' = Older(age) /\ rowAge' = Older(rowAge)
  /\ UNCHANGED <<config, window, state, okCount, fails, row, ghosts, intact,
                 bounds>>

(* A restart of the server forgets the engine and keeps the rows.          *)
Restart ==
  /\ restarts < MaxRestarts /\ restarts' = restarts + 1
  /\ window' = [k \in Keys |-> << >>] /\ trail' = [k \in Keys |-> << >>]
  /\ state' = [k \in Keys |-> "normal"]
  /\ okCount' = [k \in Keys |-> 0] /\ calm' = [k \in Keys |-> 0]
  /\ sinceAlert' = [k \in Keys |-> 0]
  /\ breached' = [k \in Keys |-> FALSE]
  /\ age' = [k \in Keys |-> MaxCooldown]
  /\ fails' = 0
  /\ intact' = [k \in Keys |-> intact[k] /\ state[k] = "normal"]
  /\ UNCHANGED <<config, row, rowAge, samples, updates, commitFails>>

Next ==
  \/ \E sample \in Sample : ProcessProbeResult(sample)
  \/ UpdateTask \/ Tick \/ Restart

Spec == Init /\ [][Next]_vars

-----------------------------------------------------------------------------
Alerted(k)   == state[k] = "normal" /\ state'[k] = "alerting"
Recovered(k) == state[k] = "alerting" /\ state'[k] = "normal" /\ restarts' = restarts
Sampled(k)   == trail'[k] # trail[k] /\ restarts' = restarts
Least(a, b)  == IF a <= b THEN a ELSE b

(* Whatever happened to the settings in between, an alert is backed by the *)
(* last N samples that were evaluated: at least M of them are breaches.    *)
AlertBacked ==
  [][\A k \in Keys : Alerted(k) =>
       Breaches(LastN(trail'[k], config.window)) >= config.trigger]_vars

(* A recovery is earned: at least K samples were evaluated after the alert *)
(* and the last K are all good.                                            *)
RecoveryEarned ==
  [][\A k \in Keys : Recovered(k) =>
       config.recovery <= Least(sinceAlert'[k], calm'[k])]_vars

(* Until its settings change, the engine does exactly what the rule says   *)
(* of the whole trail of samples, which it does not keep: it neither       *)
(* misses an alert or a recovery, nor makes one up.                        *)
FollowsRule ==
  [][\A k \in Keys : Sampled(k) /\ updates = 0 =>
       /\ Alerted(k) <=>
            /\ state[k] = "normal" /\ age[k] >= config.cooldown
            /\ Breaches(LastN(trail'[k], config.window)) >= config.trigger
       /\ Recovered(k) <=>
            /\ state[k] = "alerting"
            /\ Least(sinceAlert[k] + 1, calm'[k]) >= config.recovery]_vars

(* Old breaches do not raise a second alert: an alert after a recovery     *)
(* rests on a breach after that recovery.  The window is not cleared by a  *)
(* recovery, so this needs Selective settings: a window shorter than its   *)
(* trigger and any recovery together (the defaults are 5, 3 and 3).        *)
AlertsAreFresh == [][\A k \in Keys : Alerted(k) => breached'[k]]_vars
Selective ==
  \A c, e \in Configs : c.trigger > 0 /\ c.window < c.trigger + e.recovery

(* alert_history tells the state of the engine: the last row of a metric   *)
(* is an alert exactly while the metric is alerting, unless a commit of    *)
(* its row raised or the server restarted in the middle of an alert.       *)
HistoryFollowsState ==
  \A k \in Keys : intact[k] => (row[k] = "alert" <=> state[k] = "alerting")

(* Two alerts of a metric are a cooldown apart, as alert_history has them  *)
(* (alert_service.py, line 8, and the rule against duplicates in           *)
(* PROJECT.md 6.3), while the server runs: a restart forgets the cooldown. *)
AlertsSpaced ==
  [][\A k \in Keys : Alerted(k) /\ restarts = 0 => rowAge[k] >= config.cooldown]_vars
=============================================================================
