------------------------------ MODULE History -------------------------------
(***************************************************************************)
(* What is left of the results of one task in the three buckets of         *)
(* InfluxDB, and what a chart finds of it: the retention and the           *)
(* downsampling tasks of scripts/setup-influxdb.py, and query_task_data    *)
(* of server/services/influx_service.py.                                   *)
(*                                                                         *)
(* Time passes in minutes.  The value of a point is abstracted to the set  *)
(* of results it was computed from.  A task of InfluxDB that is due runs   *)
(* some time before the next minute is over, or fails and is not repeated. *)
(***************************************************************************)
EXTENDS Naturals, FiniteSets

CONSTANTS
  Hour,                        \* minutes of an hour (60)
  RawKeep, MinKeep, HourKeep,  \* retention of raw, agg_1m and agg_1h (3, 7, 30 days)
  RawRange, MinRange, HourRange,  \* the longest ranges that read them (1, 7, 30 days)
  MaxTime,     \* bound: minutes
  MaxResults,  \* bound: results
  MaxFails     \* bound: runs of a task that fail

(* A run reads two windows back, a chart no further than a bucket reaches. *)
ASSUME BoundsAssumption ==
  /\ Hour \in Nat \ {0} /\ {MaxTime, MaxResults, MaxFails} \subseteq Nat
  /\ {RawKeep, MinKeep, HourKeep, RawRange, MinRange, HourRange} \subseteq Nat
  /\ RawKeep >= 2 /\ MinKeep >= 2 * Hour
  /\ RawRange <= MinRange
  /\ RawRange <= RawKeep /\ MinRange <= MinKeep /\ HourRange <= HourKeep

Minutes == 0..MaxTime
Hours == 0..MaxTime
(* A probe that fails over TCP, HTTP or DNS has none of the fields latency, *)
(* packet_loss and jitter.                                                 *)
Results == [minute: Minutes, numeric: BOOLEAN]

VARIABLES
  now,
  raw, minutes, hours,   \* buckets raw, agg_1m and agg_1h: the points that are left
  minuteDue, hourDue,    \* downsample_1m, downsample_1h are due
  (* what happened, for the properties and the bounds *)
  stored,                \* when each result that arrived was written
  minuteRuns, hourRuns,  \* times at which the tasks ran without a failure
  fails

vars == <<now, raw, minutes, hours, minuteDue, hourDue, stored, minuteRuns,
          hourRuns, fails>>

TypeOK ==
  /\ now \in Minutes /\ raw \subseteq DOMAIN stored
  /\ minutes \in [Minutes -> SUBSET {r \in DOMAIN stored : r.numeric}]
  /\ hours \in [Hours -> SUBSET {r \in DOMAIN stored : r.numeric}]
  /\ minuteDue \in BOOLEAN /\ hourDue \in BOOLEAN
  /\ DOMAIN stored \subseteq {r \in Results : r.minute <= now}
  /\ \A r \in DOMAIN stored : stored[r] \in r.minute..now
  /\ minuteRuns \subseteq 0..now /\ hourRuns \subseteq {t \in 0..now : t % Hour = 0}
  /\ fails \in 0..MaxFails

Init ==
  /\ now = 0 /\ raw = {} /\ stored = [r \in {} |-> 0]
  /\ minutes = [m \in Minutes |-> {}] /\ hours = [h \in Hours |-> {}]
  /\ minuteDue = FALSE /\ hourDue = FALSE
  /\ minuteRuns = {} /\ hourRuns = {} /\ fails = 0

-----------------------------------------------------------------------------
(* aggregateWindow stamps a window with its end, so the minute that ends   *)
(* with an hour counts for the next one.                                   *)
MinuteStamp(m) == m + 1
HourOf(m) == MinuteStamp(m) \div Hour
HourStamp(h) == (h + 1) * Hour

(* write_probe_result: at once, or late, after a backfill.  A point older  *)
(* than the retention is refused.                                          *)
Write(r) ==
  /\ r \notin DOMAIN stored /\ Cardinality(DOMAIN stored) < MaxResults
  /\ r.minute <= now /\ now <= r.minute + RawKeep
  /\ raw' = raw \cup {r}
  /\ stored' = [q \in DOMAIN stored \cup {r} |-> IF q = r THEN now ELSE stored[q]]
  /\ UNCHANGED <<now, minutes, hours, minuteDue, hourDue, minuteRuns, hourRuns, fails>>

(* The next minute: tasks fall due, points as old as a bucket keeps go.    *)
Tick ==
  /\ now < MaxTime /\ ~minuteDue /\ ~hourDue
  /\ now' = now + 1
  /\ minuteDue' = TRUE /\ hourDue' = (now' % Hour = 0)
  /\ raw' = {r \in raw : now' <= r.minute + RawKeep}
  /\ minutes' = [m \in Minutes |->
                   IF now' <= MinuteStamp(m) + MinKeep THEN minutes[m] ELSE {}]
  /\ hours' = [h \in Hours |->
                 IF now' <= HourStamp(h) + HourKeep THEN hours[h] ELSE {}]
  /\ UNCHANGED <<stored, minuteRuns, hourRuns, fails>>

(* Mutant of MinuteWindow: only what is new since the last run.             *)
MinuteWindowOnce(m) == m + 1 = now
(* range(start: -2m), range(start: -2h).                                   *)
MinuteWindow(m) == now <= m + 2 /\ m < now
HourWindow(m) == now <= MinuteStamp(m) + 2 * Hour /\ MinuteStamp(m) < now

(* A window without points of the filtered fields writes nothing           *)
(* (createEmpty: false); "to" replaces the point of its window.            *)
(* Mutant of Numeric: the filter of the fields is forgotten.                *)
AnyField(m) == {r \in raw : r.minute = m}
Numeric(m) == {r \in raw : r.numeric /\ r.minute = m}
DownsampleMinutes ==
  /\ minuteDue /\ minuteDue' = FALSE
  /\ minutes' = [m \in Minutes |->
                   IF MinuteWindow(m) /\ Numeric(m) # {} THEN Numeric(m) ELSE minutes[m]]
  /\ minuteRuns' = minuteRuns \cup {now}
  /\ UNCHANGED <<now, raw, hours, hourDue, stored, hourRuns, fails>>

OfHour(h) == UNION {minutes[m] : m \in {n \in Minutes : HourWindow(n) /\ HourOf(n) = h}}
DownsampleHours ==
  /\ hourDue /\ hourDue' = FALSE
  /\ hours' = [h \in Hours |-> IF OfHour(h) # {} THEN OfHour(h) ELSE hours[h]]
  /\ hourRuns' = hourRuns \cup {now}
  /\ UNCHANGED <<now, raw, minutes, minuteDue, stored, minuteRuns, fails>>

RunFails ==
  /\ fails < MaxFails /\ fails' = fails + 1
  /\ \/ minuteDue /\ minuteDue' = FALSE /\ UNCHANGED hourDue
     \/ hourDue /\ hourDue' = FALSE /\ UNCHANGED minuteDue
  /\ UNCHANGED <<now, raw, minutes, hours, stored, minuteRuns, hourRuns>>

Next ==
  \/ \E r \in Results : Write(r)
  \/ Tick \/ DownsampleMinutes \/ DownsampleHours \/ RunFails
Spec == Init /\ [][Next]_vars

-----------------------------------------------------------------------------
(* query_task_data: the results that count in what a chart of the last     *)
(* "range" minutes shows.  For an aggregate that has no point at all it    *)
(* falls back to means over raw; one of them is of success, a Boolean,     *)
(* which Flux refuses, so that request fails and shows nothing either.     *)
(* Lengths stand for the ranges in hours and days that the page offers     *)
(* (1h to 30d): one written in minutes ("90m"), which it does not, would   *)
(* be answered from raw whatever its length (_select_bucket).              *)
FromRaw(range) == {r \in raw : now <= r.minute + range}
FromMinutes(range) ==
  UNION {minutes[m] : m \in {n \in Minutes : now <= MinuteStamp(n) + range}}
FromHours(range) ==
  UNION {hours[h] : h \in {k \in Hours : now <= HourStamp(k) + range}}

TaskData(range) ==   \* _select_bucket
  IF range <= RawRange THEN FromRaw(range)
  ELSE IF range <= MinRange THEN FromMinutes(range)
  ELSE FromHours(range)

(* A result was there when its minute was aggregated, for the first or the *)
(* second time; so was its minute when the hour was.                       *)
InMinute(r) ==
  \/ stored[r] <= r.minute /\ r.minute + 1 \in minuteRuns
  \/ stored[r] <= r.minute + 1 /\ r.minute + 2 \in minuteRuns
InHour(r) ==
  LET stamp == HourStamp(HourOf(r.minute)) IN
  InMinute(r) /\ (\/ r.minute + 2 < stamp /\ stamp \in hourRuns
                  \/ stamp + Hour \in hourRuns)

(* A chart shows every result of its range that is in raw; over longer     *)
(* ranges every measurement that came within a minute of its own, once its *)
(* minute and hour were aggregated: each is aggregated twice, so either    *)
(* run may fail, and nothing is lost before the longest range that needs   *)
(* it.                                                                     *)
TimelyIsShown ==
  \A r \in DOMAIN stored :
    /\ \A range \in 0..RawRange : now <= r.minute + range => r \in TaskData(range)
    /\ \A range \in (RawRange + 1)..MinRange :
         r.numeric /\ InMinute(r) /\ now <= MinuteStamp(r.minute) + range
           => r \in TaskData(range)
    /\ \A range \in (MinRange + 1)..HourRange :
         r.numeric /\ InHour(r) /\ now <= HourStamp(HourOf(r.minute)) + range
           => r \in TaskData(range)
=============================================================================
