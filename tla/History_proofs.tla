--------------------------- MODULE History_proofs ---------------------------
(***************************************************************************)
(* Proofs about the buckets of InfluxDB, for every length of an hour and   *)
(* every retention and range the assumptions allow: type correctness, and  *)
(* that a chart shows every result that came in time.  A window is         *)
(* aggregated anew by every run that still reaches it, and replaces what   *)
(* the run before wrote: the invariant says that a result is in a bucket   *)
(* as long as the bucket keeps its window, and the proof that a later run  *)
(* over the window finds it again (SecondRunFinds): the runs of an hour    *)
(* come while every minute of it is still kept.                            *)
(***************************************************************************)
EXTENDS History, TLAPS

USE DEF Minutes, Hours, Results

DueOnTheHour == hourDue => now % Hour = 0

TimeInv == TypeOK /\ DueOnTheHour

LEMMA Bounds ==
  /\ Hour \in Nat \ {0} /\ MaxTime \in Nat /\ MaxResults \in Nat /\ MaxFails \in Nat
  /\ RawKeep \in Nat /\ MinKeep \in Nat /\ HourKeep \in Nat
  /\ RawRange \in Nat /\ MinRange \in Nat /\ HourRange \in Nat
  /\ RawKeep >= 2 /\ MinKeep >= 2 * Hour /\ RawRange <= MinRange
  /\ RawRange <= RawKeep /\ MinRange <= MinKeep /\ HourRange <= HourKeep
BY BoundsAssumption

-----------------------------------------------------------------------------
(* Type correctness.                                                       *)

LEMMA InitTimeInv == Init => TimeInv
<1> SUFFICES ASSUME Init PROVE TimeInv
  OBVIOUS
<1>1. DOMAIN stored = {}
  BY DEF Init
<1>2. 0 \in Minutes /\ 0 \in 0..MaxFails
  BY Bounds
<1> QED
  BY <1>1, <1>2 DEF Init, TimeInv, TypeOK, DueOnTheHour

LEMMA NextTimeInv == TimeInv /\ [Next]_vars => TimeInv'
<1> SUFFICES ASSUME TimeInv, [Next]_vars PROVE TimeInv'
  OBVIOUS
<1>0. TypeOK /\ DueOnTheHour /\ now \in Nat /\ now <= MaxTime
  BY Bounds DEF TimeInv, TypeOK
<1>1. ASSUME NEW r \in Results, Write(r) PROVE TimeInv'
  <2>1. /\ DOMAIN stored' = DOMAIN stored \cup {r} /\ stored'[r] = now
        /\ \A q \in DOMAIN stored : stored'[q] = stored[q]
    BY <1>1 DEF Write
  <2>2. r.minute \in Nat /\ r.minute <= now /\ now' = now
    BY <1>1, Bounds DEF Write
  <2>3. /\ DOMAIN stored' \subseteq {q \in Results : q.minute <= now'}
        /\ \A q \in DOMAIN stored' : stored'[q] \in q.minute..now'
    BY <1>0, <2>1, <2>2 DEF TypeOK
  <2>4. /\ minutes' \in [Minutes -> SUBSET {q \in DOMAIN stored' : q.numeric}]
        /\ hours' \in [Hours -> SUBSET {q \in DOMAIN stored' : q.numeric}]
    BY <1>0, <1>1, <2>1 DEF TypeOK, Write
  <2> QED
    BY <1>0, <1>1, <2>1, <2>2, <2>3, <2>4 DEF TimeInv, TypeOK, DueOnTheHour, Write
<1>2. CASE Tick
  <2>1. now' = now + 1 /\ now' \in Minutes /\ stored' = stored
    BY <1>0, <1>2, Bounds DEF Tick
  <2>2. /\ DOMAIN stored' \subseteq {q \in Results : q.minute <= now'}
        /\ \A q \in DOMAIN stored' : stored'[q] \in q.minute..now'
    <3>1. \A q \in Results : q.minute \in Nat
      BY Bounds
    <3> QED
      BY <1>0, <2>1, <3>1 DEF TypeOK
  <2>3. /\ minutes' \in [Minutes -> SUBSET {q \in DOMAIN stored' : q.numeric}]
        /\ hours' \in [Hours -> SUBSET {q \in DOMAIN stored' : q.numeric}]
    BY <1>0, <1>2, <2>1 DEF TypeOK, Tick
  <2>4. minuteRuns' \subseteq 0..now' /\ hourRuns' \subseteq {t \in 0..now' : t % Hour = 0}
    BY <1>0, <1>2, <2>1 DEF TypeOK, Tick
  <2>5. raw' \subseteq DOMAIN stored' /\ minuteDue' \in BOOLEAN /\ hourDue' \in BOOLEAN
        /\ DueOnTheHour' /\ fails' \in 0..MaxFails
    BY <1>0, <1>2 DEF TypeOK, Tick, DueOnTheHour
  <2> QED
    BY <2>1, <2>2, <2>3, <2>4, <2>5 DEF TimeInv, TypeOK
<1>3. CASE DownsampleMinutes
  <2>1. \A m \in Minutes : Numeric(m) \subseteq {q \in DOMAIN stored : q.numeric}
    BY <1>0 DEF TypeOK, Numeric
  <2>2. minutes' \in [Minutes -> SUBSET {q \in DOMAIN stored : q.numeric}]
    BY <1>0, <1>3, <2>1 DEF TypeOK, DownsampleMinutes
  <2>3. minuteRuns' \subseteq 0..now
    <3>1. minuteRuns \subseteq 0..now
      BY <1>0 DEF TypeOK
    <3>2. minuteRuns' = minuteRuns \cup {now}
      BY <1>3 DEF DownsampleMinutes
    <3>3. now \in 0..now
      BY <1>0
    <3> QED
      BY <3>1, <3>2, <3>3
  <2> QED
    BY <1>0, <1>3, <2>2, <2>3 DEF TimeInv, TypeOK, DownsampleMinutes, DueOnTheHour
<1>4. CASE DownsampleHours
  <2>1. \A h \in Hours : OfHour(h) \subseteq {q \in DOMAIN stored : q.numeric}
    BY <1>0 DEF TypeOK, OfHour
  <2>2. hours' \in [Hours -> SUBSET {q \in DOMAIN stored : q.numeric}]
    BY <1>0, <1>4, <2>1 DEF TypeOK, DownsampleHours
  <2>3. now \in {t \in 0..now : t % Hour = 0}
    BY <1>0, <1>4 DEF DownsampleHours, DueOnTheHour
  <2> QED
    BY <1>0, <1>4, <2>2, <2>3 DEF TimeInv, TypeOK, DownsampleHours, DueOnTheHour
<1>5. CASE RunFails
  <2>f. fails' \in 0..MaxFails
    BY <1>0, <1>5, Bounds DEF TypeOK, RunFails
  <2>1. minuteDue' \in BOOLEAN /\ hourDue' \in BOOLEAN
    BY <1>0, <1>5 DEF TypeOK, RunFails
  <2>2. DueOnTheHour'
    BY <1>0, <1>5 DEF RunFails, DueOnTheHour
  <2> QED
    BY <1>0, <1>5, <2>f, <2>1, <2>2 DEF TimeInv, TypeOK, RunFails
<1>6. CASE UNCHANGED vars
  BY <1>0, <1>6 DEF TimeInv, TypeOK, vars, DueOnTheHour
<1> QED
  BY <1>1, <1>2, <1>3, <1>4, <1>5, <1>6 DEF Next

(* Every reachable state of the buckets and of the downsampling tasks is   *)
(* typed: buckets hold results that were stored, aggregates only those     *)
(* with a number, and the hourly task runs on the hour.                    *)
THEOREM TypeCorrect == Spec => []TypeOK
<1>1. TimeInv => TypeOK
  BY DEF TimeInv
<1> QED
  BY <1>1, InitTimeInv, NextTimeInv, PTL DEF Spec

-----------------------------------------------------------------------------
(* The windows.                                                            *)

LEMMA DivideBounds ==
  ASSUME NEW m \in Nat, NEW n \in Nat \ {0}
  PROVE  m \div n \in Nat /\ (m \div n) * n <= m /\ m < (m \div n + 1) * n
OBVIOUS

LEMMA MultipleOf ==
  ASSUME NEW m \in Nat, NEW n \in Nat \ {0}, m % n = 0
  PROVE  \E k \in Nat : m = k * n
OBVIOUS

LEMMA NextMultiple ==
  ASSUME NEW h \in Nat, NEW k \in Nat, NEW n \in Nat \ {0}, h * n < k * n
  PROVE  h + 1 <= k
OBVIOUS

LEMMA ProductGrows ==
  ASSUME NEW h \in Nat, NEW k \in Nat, NEW n \in Nat, h <= k
  PROVE  h * n <= k * n
OBVIOUS

LEMMA ProductOfNext ==
  ASSUME NEW h \in Nat, NEW n \in Nat
  PROVE  h * n \in Nat /\ (h + 1) * n = h * n + n /\ (h + 2) * n = h * n + 2 * n
         /\ (h + 3) * n = h * n + 3 * n
OBVIOUS

(* The minute of a result counts for the hour in which it ends.            *)
LEMMA HourProducts ==
  ASSUME NEW m \in Nat
  PROVE  /\ HourOf(m) \in Nat /\ HourStamp(HourOf(m)) \in Nat
         /\ m + 1 < HourStamp(HourOf(m)) /\ HourStamp(HourOf(m)) <= m + 1 + Hour
         /\ HourOf(m) * Hour \in Nat /\ HourStamp(HourOf(m)) = HourOf(m) * Hour + Hour
<1>1. m + 1 \in Nat /\ Hour \in Nat \ {0}
  BY Bounds
<1>2. HourOf(m) \in Nat /\ HourOf(m) * Hour <= m + 1 /\ m + 1 < (HourOf(m) + 1) * Hour
  BY <1>1, DivideBounds DEF HourOf, MinuteStamp
<1>3. HourOf(m) * Hour \in Nat /\ HourStamp(HourOf(m)) = HourOf(m) * Hour + Hour
  BY <1>1, <1>2, ProductOfNext DEF HourStamp
<1>4. m + 1 < HourOf(m) * Hour + Hour
  BY <1>2, <1>3 DEF HourStamp
<1> QED
  BY <1>1, <1>2, <1>3, <1>4

LEMMA HourBounds ==
  ASSUME NEW m \in Nat
  PROVE  /\ HourOf(m) \in Nat /\ HourStamp(HourOf(m)) \in Nat
         /\ m + 1 < HourStamp(HourOf(m)) /\ HourStamp(HourOf(m)) <= m + 1 + Hour
BY HourProducts

(* A run on the hour that reaches a minute of an hour comes at the end of  *)
(* that hour or of the next one, and reaches every minute of the hour.     *)
LEMMA RunOfHour ==
  ASSUME NEW t \in Nat, t % Hour = 0, NEW n \in Nat, HourOf(n) * Hour < t,
         t <= n + 1 + 2 * Hour
  PROVE  t = HourStamp(HourOf(n)) \/ t = HourStamp(HourOf(n)) + Hour
<1> DEFINE h == HourOf(n)
<1>1. Hour \in Nat \ {0} /\ h \in Nat
  BY Bounds, HourBounds
<1>2. PICK k \in Nat : t = k * Hour
  BY <1>1, MultipleOf
<1>3. /\ h * Hour \in Nat /\ HourStamp(h) = h * Hour + Hour /\ n + 1 < h * Hour + Hour
      /\ h * Hour < k * Hour /\ k * Hour <= n + 1 + 2 * Hour
  <2>1. n + 1 < HourStamp(h) /\ HourStamp(h) = h * Hour + Hour /\ h * Hour \in Nat
    BY HourProducts
  <2>2. h * Hour < t
    OBVIOUS
  <2> HIDE DEF h
  <2> QED
    BY <1>2, <2>1, <2>2
<1> HIDE DEF h
<1>p. /\ (h + 1) * Hour = h * Hour + Hour /\ (h + 2) * Hour = h * Hour + 2 * Hour
      /\ (h + 3) * Hour = h * Hour + 3 * Hour
  BY <1>1, ProductOfNext
<1>4. k * Hour < (h + 3) * Hour
  BY <1>1, <1>3, <1>p
<1>5. h + 1 <= k /\ k + 1 <= h + 3
  <2>1. h + 1 <= k
    BY <1>1, <1>3, NextMultiple
  <2>2. h + 3 \in Nat
    BY <1>1
  <2>3. k + 1 <= h + 3
    BY <1>1, <1>4, <2>2, NextMultiple
  <2> QED
    BY <2>1, <2>3
<1>6. k = h + 1 \/ k = h + 2
  BY <1>1, <1>5
<1> QED
  <2>1. t = h * Hour + Hour \/ t = h * Hour + 2 * Hour
    BY <1>2, <1>6, <1>p
  <2>2. t = HourStamp(h) \/ t = HourStamp(h) + Hour
    BY <1>1, <1>3, <2>1
  <2> QED
    BY <2>2 DEF h

-----------------------------------------------------------------------------
(* What the buckets keep.                                                  *)

InRaw(r) == now <= r.minute + RawKeep => r \in raw
InMinutes(r) ==
  r.numeric /\ InMinute(r) /\ now <= MinuteStamp(r.minute) + MinKeep
    => r \in minutes[r.minute]
InHours(r) ==
  LET h == HourOf(r.minute) IN
  r.numeric /\ InHour(r) /\ now <= HourStamp(h) + HourKeep
    => h \in Hours /\ r \in hours[h]

KeptInv ==
  /\ TimeInv
  /\ \A r \in DOMAIN stored : InRaw(r) /\ InMinutes(r) /\ InHours(r)

LEMMA StoredType ==
  ASSUME TimeInv, NEW r \in DOMAIN stored
  PROVE  /\ r \in Results /\ r.minute \in Minutes /\ r.minute \in Nat /\ r.minute <= now
         /\ now \in Nat /\ now <= MaxTime /\ stored[r] \in Nat /\ stored[r] <= now
         /\ \A t \in minuteRuns : t \in Nat /\ t <= now
         /\ \A t \in hourRuns : t \in Nat /\ t <= now /\ t % Hour = 0
BY Bounds DEF TimeInv, TypeOK

(* An hour that has ended is one there is a point for.                     *)
LEMMA HourIsKnown ==
  ASSUME TimeInv, NEW h \in Nat, HourStamp(h) <= now
  PROVE  h \in Hours
<1>1. Hour \in Nat \ {0} /\ now \in Nat /\ now <= MaxTime /\ MaxTime \in Nat
  BY Bounds DEF TimeInv, TypeOK
<1>2. h * 1 <= h * Hour
  BY <1>1
<1>3. HourStamp(h) = h * Hour + Hour /\ h * Hour \in Nat
  BY <1>1, ProductOfNext DEF HourStamp
<1>4. h <= now
  BY <1>1, <1>2, <1>3
<1> QED
  BY <1>1, <1>4

(* A run over a result's hour finds the result again.                      *)
LEMMA SecondRunFinds ==
  ASSUME KeptInv, NEW r \in DOMAIN stored, r.numeric, InMinute(r),
         now = HourStamp(HourOf(r.minute)) \/ now = HourStamp(HourOf(r.minute)) + Hour
  PROVE  r \in OfHour(HourOf(r.minute))
<1>0. TimeInv
  BY DEF KeptInv
<1>1. /\ r.minute \in Minutes /\ r.minute \in Nat /\ Hour \in Nat \ {0} /\ now \in Nat
      /\ MinKeep \in Nat /\ MinKeep >= 2 * Hour
  BY <1>0, StoredType, Bounds
<1>2. /\ r.minute + 1 < HourStamp(HourOf(r.minute))
      /\ HourStamp(HourOf(r.minute)) <= r.minute + 1 + Hour
      /\ HourStamp(HourOf(r.minute)) \in Nat
  BY <1>1, HourBounds
<1>3. r.minute + 1 < now /\ now <= r.minute + 1 + 2 * Hour
  BY <1>1, <1>2
<1>4. HourWindow(r.minute)
  BY <1>3 DEF HourWindow, MinuteStamp
<1>5. r \in minutes[r.minute]
  BY <1>1, <1>3 DEF KeptInv, InMinutes, MinuteStamp
<1> QED
  BY <1>1, <1>4, <1>5 DEF OfHour

LEMMA InitKeptInv == Init => KeptInv
<1>1. Init => DOMAIN stored = {}
  BY DEF Init
<1> QED
  BY <1>1, InitTimeInv DEF KeptInv

(* A result is never in a window that was aggregated before it came.       *)
LEMMA WriteKeptInv ==
  ASSUME KeptInv, TimeInv', NEW q \in Results, Write(q)
  PROVE  KeptInv'
<1>0. TimeInv
  BY DEF KeptInv
<1>1. /\ DOMAIN stored' = DOMAIN stored \cup {q} /\ stored'[q] = now
      /\ \A r \in DOMAIN stored : stored'[r] = stored[r]
      /\ raw' = raw \cup {q} /\ now' = now
      /\ minutes' = minutes /\ hours' = hours
      /\ minuteRuns' = minuteRuns /\ hourRuns' = hourRuns
  BY DEF Write
<1>2. ASSUME NEW r \in DOMAIN stored
      PROVE  InRaw(r)' /\ InMinutes(r)' /\ InHours(r)'
  <2>1. (InMinute(r)' <=> InMinute(r)) /\ (InHour(r)' <=> InHour(r))
    BY <1>1, <1>2 DEF InMinute, InHour
  <2> QED
    BY <1>1, <1>2, <2>1 DEF KeptInv, InRaw, InMinutes, InHours
<1>3. ~InMinute(q)'
  <2>1. q.minute \in Nat /\ now \in Nat /\ \A t \in minuteRuns : t <= now
    BY <1>0, Bounds DEF TimeInv, TypeOK
  <2> QED
    BY <1>1, <2>1 DEF InMinute
<1>4. InRaw(q)' /\ InMinutes(q)' /\ InHours(q)'
  BY <1>1, <1>3 DEF InRaw, InMinutes, InHours, InHour
<1> QED
  BY <1>1, <1>2, <1>4 DEF KeptInv

LEMMA TickKeptInv ==
  ASSUME KeptInv, TimeInv', Tick
  PROVE  KeptInv'
<1>0. TimeInv
  BY DEF KeptInv
<1>1. /\ now' = now + 1 /\ stored' = stored
      /\ minuteRuns' = minuteRuns /\ hourRuns' = hourRuns
  BY DEF Tick
<1> SUFFICES ASSUME NEW r \in DOMAIN stored
             PROVE  InRaw(r)' /\ InMinutes(r)' /\ InHours(r)'
  BY <1>1 DEF KeptInv
<1>2. (InMinute(r)' <=> InMinute(r)) /\ (InHour(r)' <=> InHour(r))
  BY <1>1 DEF InMinute, InHour
<1>3. r.minute \in Nat /\ r.minute \in Minutes /\ now \in Nat
  BY <1>0, StoredType
<1>4. InRaw(r)'
  BY <1>1, <1>3, Bounds DEF KeptInv, InRaw, Tick
<1>5. InMinutes(r)'
  <2> SUFFICES ASSUME r.numeric, InMinute(r), now' <= MinuteStamp(r.minute) + MinKeep
               PROVE  r \in minutes'[r.minute]
    BY <1>2 DEF InMinutes
  <2>1. now <= MinuteStamp(r.minute) + MinKeep
    BY <1>1, <1>3, Bounds DEF MinuteStamp
  <2>2. minutes'[r.minute] = minutes[r.minute]
    BY <1>3 DEF Tick
  <2> QED
    BY <2>1, <2>2 DEF KeptInv, InMinutes
<1>6. InHours(r)'
  <2> DEFINE h == HourOf(r.minute)
  <2> SUFFICES ASSUME r.numeric, InHour(r), now' <= HourStamp(h) + HourKeep
               PROVE  h \in Hours /\ r \in hours'[h]
    BY <1>2 DEF InHours
  <2>1. now <= HourStamp(h) + HourKeep
    <3>1. HourStamp(h) \in Nat
      BY <1>3, HourBounds
    <3>2. HourKeep \in Nat
      BY Bounds
    <3> HIDE DEF h
    <3> QED
      BY <1>1, <1>3, <3>1, <3>2
  <2>2. h \in Hours /\ r \in hours[h]
    BY <2>1 DEF KeptInv, InHours
  <2>3. hours'[h] = hours[h]
    BY <2>2 DEF Tick
  <2> QED
    BY <2>2, <2>3
<1> QED
  BY <1>4, <1>5, <1>6

(* The first and the second run over a minute find all that raw has of it; *)
(* a run after them leaves it alone.                                       *)
LEMMA DownsampleMinutesKeptInv ==
  ASSUME KeptInv, TimeInv', DownsampleMinutes
  PROVE  KeptInv'
<1>0. TimeInv
  BY DEF KeptInv
<1>1. /\ now' = now /\ stored' = stored /\ raw' = raw /\ hours' = hours
      /\ minuteRuns' = minuteRuns \cup {now} /\ hourRuns' = hourRuns
  BY DEF DownsampleMinutes
<1> SUFFICES ASSUME NEW r \in DOMAIN stored
             PROVE  InRaw(r)' /\ InMinutes(r)' /\ InHours(r)'
  BY <1>1 DEF KeptInv
<1>2. /\ r.minute \in Nat /\ r.minute \in Minutes /\ now \in Nat
      /\ \A t \in hourRuns : t \in Nat /\ t <= now
  BY <1>0, StoredType
<1>3. InMinute(r)' => InMinute(r) \/ now \in {r.minute + 1, r.minute + 2}
  BY <1>1, <1>2 DEF InMinute
<1>4. InRaw(r)'
  BY <1>1 DEF KeptInv, InRaw
<1>5. InMinutes(r)'
  <2> SUFFICES ASSUME r.numeric, InMinute(r)', now <= MinuteStamp(r.minute) + MinKeep
               PROVE  r \in minutes'[r.minute]
    BY <1>1 DEF InMinutes
  <2>1. CASE MinuteWindow(r.minute)
    <3>1. r \in raw
      BY <1>2, <2>1, Bounds DEF KeptInv, InRaw, MinuteWindow
    <3>2. r \in Numeric(r.minute)
      BY <3>1 DEF Numeric
    <3> QED
      BY <1>2, <2>1, <3>2 DEF DownsampleMinutes
  <2>2. CASE ~MinuteWindow(r.minute)
    <3>1. InMinute(r)
      BY <1>2, <1>3, <2>2 DEF MinuteWindow
    <3>2. r \in minutes[r.minute]
      BY <3>1 DEF KeptInv, InMinutes
    <3> QED
      BY <1>2, <2>2, <3>2 DEF DownsampleMinutes
  <2> QED
    BY <2>1, <2>2
<1>6. InHour(r)' => InHour(r)
  <2> SUFFICES ASSUME InHour(r)', ~InMinute(r) PROVE FALSE
    BY <1>1 DEF InHour
  <2>1. now <= r.minute + 2
    BY <1>2, <1>3 DEF InHour
  <2>2. /\ HourStamp(HourOf(r.minute)) \in Nat /\ Hour \in Nat \ {0}
        /\ r.minute + 1 < HourStamp(HourOf(r.minute))
    BY <1>2, HourBounds, Bounds
  <2> QED
    BY <1>1, <1>2, <2>1, <2>2 DEF InHour
<1>7. InHours(r)'
  BY <1>1, <1>6 DEF KeptInv, InHours
<1> QED
  BY <1>4, <1>5, <1>7

(* A run of the hourly task that replaces the point of an hour finds every *)
(* result of that hour again; other hours it leaves alone.                 *)
LEMMA DownsampleHoursKeptInv ==
  ASSUME KeptInv, TimeInv', DownsampleHours
  PROVE  KeptInv'
<1>0. TimeInv /\ now % Hour = 0
  BY DEF KeptInv, TimeInv, DueOnTheHour, DownsampleHours
<1>1. /\ now' = now /\ stored' = stored /\ raw' = raw /\ minutes' = minutes
      /\ minuteRuns' = minuteRuns /\ hourRuns' = hourRuns \cup {now}
  BY DEF DownsampleHours
<1> SUFFICES ASSUME NEW r \in DOMAIN stored
             PROVE  InRaw(r)' /\ InMinutes(r)' /\ InHours(r)'
  BY <1>1 DEF KeptInv
<1>2. InMinute(r)' <=> InMinute(r)
  BY <1>1 DEF InMinute
<1>3. InRaw(r)' /\ InMinutes(r)'
  BY <1>1, <1>2 DEF KeptInv, InRaw, InMinutes
<1>4. InHours(r)'
  <2>p. PICK h : h = HourOf(r.minute)
    OBVIOUS
  <2> SUFFICES ASSUME r.numeric, InHour(r)', now <= HourStamp(h) + HourKeep
               PROVE  h \in Hours /\ r \in hours'[h]
    BY <1>1, <2>p DEF InHours, HourStamp, HourOf, MinuteStamp
  <2>1. InMinute(r)
    BY <1>2 DEF InHour
  <2>2. h \in Hours
    <3>1. /\ r.minute \in Nat /\ h \in Nat /\ HourStamp(h) \in Nat /\ Hour \in Nat
          /\ now \in Nat /\ \A t \in hourRuns : t \in Nat /\ t <= now
      BY <1>0, <2>p, StoredType, HourBounds, Bounds
    <3>2. HourStamp(h) \in hourRuns \cup {now} \/ HourStamp(h) + Hour \in hourRuns \cup {now}
      BY <1>1, <2>p DEF InHour, HourStamp, HourOf, MinuteStamp
    <3>3. HourStamp(h) <= now
      BY <3>1, <3>2
    <3> QED
      BY <1>0, <3>1, <3>3, HourIsKnown
  <2>3. CASE OfHour(h) # {}
    <3>1. PICK n \in Minutes : HourWindow(n) /\ HourOf(n) = h
      BY <2>3 DEF OfHour
    <3>2. n \in Nat /\ now \in Nat /\ Hour \in Nat \ {0}
      BY <1>0, StoredType, Bounds
    <3>3. h * Hour < now /\ now <= n + 1 + 2 * Hour
      <4>1. h * Hour <= n + 1
        BY <3>1, <3>2, DivideBounds DEF HourOf, MinuteStamp
      <4> QED
        BY <3>1, <3>2, <4>1, <2>2, ProductOfNext DEF HourWindow, MinuteStamp
    <3>4. now = HourStamp(h) \/ now = HourStamp(h) + Hour
      BY <1>0, <3>1, <3>2, <3>3, RunOfHour
    <3>5. r \in OfHour(h)
      BY <2>p, <2>1, <3>4, SecondRunFinds
    <3> QED
      BY <2>2, <2>3, <3>5 DEF DownsampleHours
  <2>4. CASE OfHour(h) = {}
    <3>1. ~(now = HourStamp(h) \/ now = HourStamp(h) + Hour)
      BY <2>p, <2>1, <2>4, SecondRunFinds
    <3>2. InHour(r)
      BY <1>1, <2>p, <2>1, <3>1 DEF InHour, HourStamp, HourOf, MinuteStamp
    <3>3. r \in hours[h]
      BY <2>p, <3>2 DEF KeptInv, InHours
    <3> QED
      BY <2>2, <2>4, <3>3 DEF DownsampleHours
  <2> QED
    BY <2>3, <2>4
<1> QED
  BY <1>3, <1>4

LEMMA NextKeptInv == KeptInv /\ [Next]_vars => KeptInv'
<1> SUFFICES ASSUME KeptInv, [Next]_vars PROVE KeptInv'
  OBVIOUS
<1>0. TimeInv'
  BY NextTimeInv DEF KeptInv
<1>1. CASE RunFails \/ UNCHANGED vars
  BY <1>0, <1>1 DEF RunFails, vars, KeptInv, InRaw, InMinutes, InHours, InMinute, InHour
<1> QED
  BY <1>0, <1>1, WriteKeptInv, TickKeptInv, DownsampleMinutesKeptInv,
     DownsampleHoursKeptInv DEF Next

(* A chart shows every result of its range that is in raw, and over longer *)
(* ranges every measurement that came within a minute of its own and whose *)
(* minute and hour were aggregated at least once: whichever of the two     *)
(* runs fails, whatever else is written or replaced, for every retention   *)
(* at least as long as the ranges that are read.                           *)
THEOREM TimelyShown == Spec => []TimelyIsShown
<1>1. KeptInv => TimelyIsShown
  <2> SUFFICES ASSUME KeptInv, NEW r \in DOMAIN stored
               PROVE  /\ \A range \in 0..RawRange :
                           now <= r.minute + range => r \in TaskData(range)
                      /\ \A range \in (RawRange + 1)..MinRange :
                           r.numeric /\ InMinute(r) /\ now <= MinuteStamp(r.minute) + range
                             => r \in TaskData(range)
                      /\ \A range \in (MinRange + 1)..HourRange :
                           r.numeric /\ InHour(r)
                             /\ now <= HourStamp(HourOf(r.minute)) + range
                             => r \in TaskData(range)
    BY DEF TimelyIsShown
  <2>0. TimeInv /\ InRaw(r) /\ InMinutes(r) /\ InHours(r)
    BY DEF KeptInv
  <2>1. r.minute \in Nat /\ r.minute \in Minutes /\ now \in Nat
    BY <2>0, StoredType
  <2>2. ASSUME NEW range \in 0..RawRange, now <= r.minute + range
        PROVE  r \in TaskData(range)
    BY <2>0, <2>1, <2>2, Bounds DEF TaskData, FromRaw, InRaw
  <2>3. ASSUME NEW range \in (RawRange + 1)..MinRange, r.numeric, InMinute(r),
               now <= MinuteStamp(r.minute) + range
        PROVE  r \in TaskData(range)
    <3>1. r \in minutes[r.minute]
      BY <2>0, <2>1, <2>3, Bounds DEF InMinutes, MinuteStamp
    <3>2. TaskData(range) = FromMinutes(range)
      BY <2>3, Bounds DEF TaskData
    <3> QED
      BY <2>1, <2>3, <3>1, <3>2 DEF FromMinutes
  <2>4. ASSUME NEW range \in (MinRange + 1)..HourRange, r.numeric, InHour(r),
               now <= HourStamp(HourOf(r.minute)) + range
        PROVE  r \in TaskData(range)
    <3>1. now <= HourStamp(HourOf(r.minute)) + HourKeep
      <4> DEFINE stamp == HourStamp(HourOf(r.minute))
      <4>1. stamp \in Nat
        BY <2>1, HourBounds
      <4>2. HourKeep \in Nat /\ range \in Nat /\ range <= HourKeep
        <5>1. MinRange \in Nat /\ HourRange \in Nat /\ HourKeep \in Nat /\ HourRange <= HourKeep
          BY Bounds
        <5> QED
          BY <2>4, <5>1
      <4>3. now <= stamp + range
        BY <2>4
      <4> HIDE DEF stamp
      <4>4. now <= stamp + HourKeep
        BY <2>1, <4>1, <4>2, <4>3
      <4> QED
        BY <4>4 DEF stamp
    <3>2. HourOf(r.minute) \in Hours /\ r \in hours[HourOf(r.minute)]
      BY <2>0, <2>4, <3>1 DEF InHours
    <3>3. TaskData(range) = FromHours(range)
      BY <2>4, Bounds DEF TaskData
    <3> QED
      BY <2>4, <3>2, <3>3 DEF FromHours
  <2> QED
    BY <2>2, <2>3, <2>4
<1> QED
  BY <1>1, InitKeptInv, NextKeptInv, PTL DEF Spec
=============================================================================
