-------------------------- MODULE AlertEngine_proofs --------------------------
(***************************************************************************)
(* Proofs about the alert engine, for every choice of settings and every   *)
(* bound: type correctness, the lemmas about the window, the fail count    *)
(* and the rows; that the engine follows the rule until the settings       *)
(* change, and what of it holds whatever they change to; that history      *)
(* agrees, alerts are spaced, and recoveries and new alerts are earned.    *)
(***************************************************************************)
EXTENDS AlertEngine, FiniteSetTheorems, SequenceTheorems, TLAPS

USE DEF Config

-----------------------------------------------------------------------------
(* The last n samples are samples, at most n of them.                      *)
LEMMA LastNType ==
  ASSUME NEW s \in Seq(BOOLEAN), NEW n \in Nat
  PROVE  /\ LastN(s, n) \in Seq(BOOLEAN)
         /\ Len(LastN(s, n)) <= n
<1>1. CASE Len(s) <= n
  BY <1>1 DEF LastN
<1>2. CASE Len(s) > n
  <2>1. /\ Len(s) - n + 1 \in 1..(Len(s) + 1) /\ Len(s) \in Nat
    BY <1>2
  <2>2. LastN(s, n) = SubSeq(s, Len(s) - n + 1, Len(s))
    BY <1>2 DEF LastN
  <2> QED
    BY <2>1, <2>2
<1> QED
  BY <1>1, <1>2

LEMMA ConfigType == TypeOK => config \in Config
BY ConfigsAssumption DEF TypeOK

LEMMA WindowType ==
  ASSUME TypeOK, NEW k \in Keys, NEW b \in BOOLEAN
  PROVE  /\ WindowAfter(k, b) \in Seq(BOOLEAN)
         /\ Len(WindowAfter(k, b)) <= config.window
<1>1. config.window \in Nat
  BY ConfigType
<1>2. Append(window[k], b) \in Seq(BOOLEAN)
  BY DEF TypeOK
<1> QED
  BY <1>1, <1>2, LastNType DEF WindowAfter

(* A breach is a truth value, and the fail count a number.                 *)
LEMMA SampleType ==
  ASSUME TypeOK, NEW sample \in Sample
  PROVE  /\ FailsAfter(sample[2]) \in Nat
         /\ \A k \in Keys : Breach(sample, k) \in BOOLEAN
         /\ Evaluated(sample) \subseteq Keys
<1>1. FailsAfter(sample[2]) \in Nat
  BY DEF FailsAfter, TypeOK
<1>2. Evaluated(sample) \subseteq Keys
  BY ConfigType DEF Evaluated
<1>3. ASSUME NEW k \in Keys PROVE Breach(sample, k) \in BOOLEAN
  <2>1. CASE k = Fail
    BY <2>1 DEF Breach
  <2>2. CASE k # Fail
    BY <2>2 DEF Breach
  <2> QED
    BY <2>1, <2>2
<1> QED
  BY <1>1, <1>2, <1>3

-----------------------------------------------------------------------------
(* What the evaluation of a sample does to one metric.                     *)
EvalKey(k, on, b) ==
  /\ window'[k] = IF on THEN WindowAfter(k, b) ELSE window[k]
  /\ trail'[k] = IF on THEN Append(trail[k], b) ELSE trail[k]
  /\ state'[k] = IF ~on THEN state[k]
                 ELSE CASE Event(k, b) = "alert" -> "alerting"
                        [] Event(k, b) = "recovery" -> "normal"
                        [] OTHER -> state[k]
  /\ okCount'[k] = IF ~on THEN okCount[k]
                   ELSE IF Event(k, b) # "none" THEN 0 ELSE OkAfter(k, b)
  /\ age'[k] = IF on /\ Event(k, b) = "alert" THEN 0 ELSE age[k]
  /\ sinceAlert'[k] = IF ~on THEN sinceAlert[k]
                      ELSE IF Event(k, b) = "alert" THEN 0 ELSE sinceAlert[k] + 1
  /\ calm'[k] = IF ~on THEN calm[k] ELSE IF b THEN 0 ELSE calm[k] + 1
  /\ breached'[k] = (~(on /\ Event(k, b) = "recovery") /\ (breached[k] \/ (on /\ b)))

LEMMA EvaluateKey ==
  ASSUME NEW sample, Evaluate(sample), NEW k \in Keys
  PROVE  EvalKey(k, k \in Evaluated(sample), Breach(sample, k))
BY DEF Evaluate, EvalKey

LEMMA EventType ==
  ASSUME NEW k \in Keys, NEW b \in BOOLEAN
  PROVE  Event(k, b) \in {"alert", "recovery", "none"}
BY DEF Event

(* The number of breaches is a number.                                     *)
LEMMA BreachesType ==
  ASSUME NEW w \in Seq(BOOLEAN)
  PROVE  Breaches(w) \in Nat
<1>1. IsFiniteSet(1..Len(w))
  BY FS_Interval
<1>2. {i \in 1..Len(w) : w[i]} \subseteq 1..Len(w)
  OBVIOUS
<1>3. IsFiniteSet({i \in 1..Len(w) : w[i]})
  BY <1>1, <1>2, FS_Subset
<1> QED
  BY <1>3, FS_CardinalityType DEF Breaches

-----------------------------------------------------------------------------
LEMMA InitTypeOK == Init => TypeOK
<1> SUFFICES ASSUME Init PROVE TypeOK
  OBVIOUS
<1>1. << >> \in Seq(BOOLEAN) /\ Len(<< >>) = 0
  OBVIOUS
<1>2. \A k \in Keys : \E c \in Configs : Len(window[k]) <= c.window
  BY <1>1, ConfigsAssumption DEF Init
<1>3. window \in [Keys -> Seq(BOOLEAN)] /\ trail \in [Keys -> Seq(BOOLEAN)]
  BY <1>1 DEF Init
<1>4. /\ age \in [Keys -> 0..MaxCooldown] /\ rowAge \in [Keys -> 0..MaxCooldown]
      /\ samples \in 0..MaxSamples /\ restarts \in 0..MaxRestarts
      /\ updates \in 0..MaxUpdates /\ commitFails \in 0..MaxCommitFails
  BY BoundsAssumption DEF Init
<1>5. row \in [Keys -> {"none", "alert", "recovery"}]
  BY DEF Init
<1> QED
  BY <1>2, <1>3, <1>4, <1>5 DEF Init, TypeOK

(* The rows that the events of a sample leave.                             *)
LEMMA RecordType ==
  ASSUME TypeOK, RecordEvents
  PROVE  /\ row' \in [Keys -> {"none", "alert", "recovery"}]
         /\ rowAge' \in [Keys -> 0..MaxCooldown]
         /\ intact' \in [Keys -> BOOLEAN]
         /\ commitFails' \in 0..MaxCommitFails
         /\ \A k \in Keys : ~Changed(k) => row'[k] = row[k] /\ rowAge'[k] = rowAge[k]
         /\ \A k \in Keys : intact'[k] => intact[k]
         /\ \A k \in Keys : intact'[k] /\ Changed(k) => row'[k] = EventOf(k)
         /\ \A k \in Keys : ~(Changed(k) /\ EventOf(k) = "alert") => rowAge'[k] = rowAge[k]
<1>1. PICK cut \in 1..4, added \in BOOLEAN :
        LET done == {k \in Keys : Changed(k) /\ Rank[k] < cut}
            half == {k \in Keys : added /\ Changed(k) /\ Rank[k] = cut}
        IN
        /\ IF cut = 4
           THEN ~added /\ UNCHANGED commitFails
           ELSE /\ \E k \in Keys : Changed(k) /\ Rank[k] = cut
                /\ added => Channels # {}
                /\ commitFails < MaxCommitFails /\ commitFails' = commitFails + 1
        /\ row' = [k \in Keys |-> IF k \in done \cup half THEN EventOf(k) ELSE row[k]]
        /\ rowAge' = [k \in Keys |-> IF k \in done \cup half /\ EventOf(k) = "alert"
                                     THEN 0 ELSE rowAge[k]]
        /\ intact' = [k \in Keys |-> intact[k] /\ (Changed(k) => k \in done \cup half)]
  BY DEF RecordEvents
<1> DEFINE recorded == {k \in Keys : Changed(k) /\ Rank[k] < cut}
                         \cup {k \in Keys : added /\ Changed(k) /\ Rank[k] = cut}
<1>2. row' = [k \in Keys |-> IF k \in recorded THEN EventOf(k) ELSE row[k]]
  BY <1>1
<1>3. rowAge' = [k \in Keys |-> IF k \in recorded /\ EventOf(k) = "alert"
                               THEN 0 ELSE rowAge[k]]
  BY <1>1
<1>4. intact' = [k \in Keys |-> intact[k] /\ (Changed(k) => k \in recorded)]
  BY <1>1
<1>5. commitFails' \in 0..MaxCommitFails
  BY <1>1, BoundsAssumption DEF TypeOK
<1>6. \A k \in Keys : EventOf(k) \in {"alert", "recovery"}
  BY DEF EventOf
<1>7. \A k \in recorded : Changed(k)
  OBVIOUS
<1> HIDE DEF recorded
<1>8. row' \in [Keys -> {"none", "alert", "recovery"}]
  BY <1>2, <1>6 DEF TypeOK
<1>9. rowAge' \in [Keys -> 0..MaxCooldown]
  BY <1>3, BoundsAssumption DEF TypeOK
<1>10. intact' \in [Keys -> BOOLEAN]
  BY <1>4, Zenon DEF TypeOK
<1>11. \A k \in Keys : ~Changed(k) => row'[k] = row[k] /\ rowAge'[k] = rowAge[k]
  BY <1>2, <1>3, <1>7
<1>12. ASSUME NEW k \in Keys PROVE intact'[k] = (intact[k] /\ (Changed(k) => k \in recorded))
  BY <1>4
<1>13. \A k \in Keys : k \in recorded => row'[k] = EventOf(k)
  BY <1>2, <1>6
<1>14. \A k \in Keys : ~(Changed(k) /\ EventOf(k) = "alert") => rowAge'[k] = rowAge[k]
  BY <1>3, <1>7
<1> QED
  BY <1>5, <1>8, <1>9, <1>10, <1>11, <1>12, <1>13, <1>14

LEMMA NextTypeOK == TypeOK /\ [Next]_vars => TypeOK'
<1> SUFFICES ASSUME TypeOK, [Next]_vars PROVE TypeOK'
  OBVIOUS
<1> USE BoundsAssumption
<1>1. ASSUME NEW sample \in Sample, ProcessProbeResult(sample) PROVE TypeOK'
  <2> DEFINE on == Evaluated(sample)
             b == [k \in Keys |-> Breach(sample, k)]
  <2>1. /\ Evaluate(sample) /\ RecordEvents /\ config' = config /\ restarts' = restarts
        /\ updates' = updates /\ samples' \in 0..MaxSamples
    BY <1>1 DEF ProcessProbeResult, TypeOK
  <2>2. /\ row' \in [Keys -> {"none", "alert", "recovery"}] /\ rowAge' \in [Keys -> 0..MaxCooldown]
        /\ intact' \in [Keys -> BOOLEAN] /\ commitFails' \in 0..MaxCommitFails
    BY <2>1, RecordType
  <2>3. fails' \in Nat
    BY <2>1, SampleType DEF Evaluate
  <2>4. ASSUME NEW k \in Keys
        PROVE  /\ window'[k] \in Seq(BOOLEAN) /\ trail'[k] \in Seq(BOOLEAN)
               /\ \E c \in Configs : Len(window'[k]) <= c.window
               /\ state'[k] \in {"normal", "alerting"}
               /\ okCount'[k] \in Nat /\ sinceAlert'[k] \in Nat /\ calm'[k] \in Nat
               /\ age'[k] \in 0..MaxCooldown /\ breached'[k] \in BOOLEAN
    <3>1. EvalKey(k, k \in on, Breach(sample, k)) /\ Breach(sample, k) \in BOOLEAN
      BY <2>1, EvaluateKey, SampleType
    <3>2. CASE k \in on
      <4>1. /\ window'[k] \in Seq(BOOLEAN) /\ trail'[k] \in Seq(BOOLEAN)
            /\ Len(window'[k]) <= config.window
        <5>1. window'[k] = WindowAfter(k, Breach(sample, k)) /\ trail'[k] = Append(trail[k], Breach(sample, k))
          BY <3>1, <3>2 DEF EvalKey
        <5>2. trail[k] \in Seq(BOOLEAN)
          BY DEF TypeOK
        <5> QED
          BY <3>1, <5>1, <5>2, WindowType
      <4>2. state'[k] \in {"normal", "alerting"} /\ age'[k] \in 0..MaxCooldown
        BY <3>1, <3>2 DEF EvalKey, TypeOK
      <4>3. okCount'[k] \in Nat /\ sinceAlert'[k] \in Nat /\ calm'[k] \in Nat
        <5>1. /\ okCount[k] \in Nat /\ sinceAlert[k] \in Nat /\ calm[k] \in Nat
              /\ OkAfter(k, Breach(sample, k)) \in Nat
          BY DEF OkAfter, TypeOK
        <5>2. /\ okCount'[k] \in {0, OkAfter(k, Breach(sample, k))}
              /\ sinceAlert'[k] \in {0, sinceAlert[k] + 1} /\ calm'[k] \in {0, calm[k] + 1}
          BY <3>1, <3>2 DEF EvalKey
        <5> QED
          BY <5>1, <5>2
      <4>4. breached'[k] \in BOOLEAN
        BY <3>1, <3>2 DEF EvalKey
      <4> QED
        BY <4>1, <4>2, <4>3, <4>4 DEF TypeOK
    <3>3. CASE k \notin on
      BY <3>1, <3>3 DEF EvalKey, TypeOK
    <3> QED
      BY <3>2, <3>3
  <2>5. /\ window' \in [Keys -> Seq(BOOLEAN)] /\ trail' \in [Keys -> Seq(BOOLEAN)]
        /\ state' \in [Keys -> {"normal", "alerting"}]
        /\ okCount' \in [Keys -> Nat] /\ sinceAlert' \in [Keys -> Nat]
        /\ calm' \in [Keys -> Nat] /\ age' \in [Keys -> 0..MaxCooldown]
        /\ breached' \in [Keys -> BOOLEAN]
    <3>1. \A f \in {window', trail', state', okCount', sinceAlert', calm', age', breached'} :
            f = [k \in Keys |-> f[k]]
      BY <2>1 DEF Evaluate
    <3> QED
      BY <2>4, <3>1
  <2> QED
    BY <2>1, <2>2, <2>3, <2>4, <2>5 DEF TypeOK
<1>2. CASE UpdateTask
  BY <1>2 DEF UpdateTask, TypeOK, engine, ghosts
<1>3. CASE Tick
  <2>1. /\ age' \in [Keys -> 0..MaxCooldown] /\ rowAge' \in [Keys -> 0..MaxCooldown]
    <3>1. ASSUME NEW a \in [Keys -> 0..MaxCooldown] PROVE Older(a) \in [Keys -> 0..MaxCooldown]
      BY DEF Older
    <3> QED
      BY <1>3, <3>1 DEF Tick, TypeOK
  <2> QED
    BY <1>3, <2>1 DEF Tick, TypeOK, ghosts, bounds
<1>4. CASE Restart
  <2>1. << >> \in Seq(BOOLEAN) /\ Len(<< >>) = 0
    OBVIOUS
  <2>2. /\ window' \in [Keys -> Seq(BOOLEAN)] /\ trail' \in [Keys -> Seq(BOOLEAN)]
        /\ \A k \in Keys : \E c \in Configs : Len(window'[k]) <= c.window
    BY <1>4, <2>1, ConfigsAssumption DEF Restart
  <2>3. /\ age' \in [Keys -> 0..MaxCooldown] /\ restarts' \in 0..MaxRestarts
    BY <1>4 DEF Restart, TypeOK
  <2>4. intact' \in [Keys -> BOOLEAN]
    BY <1>4, Zenon DEF Restart
  <2>5. /\ state' \in [Keys -> {"normal", "alerting"}]
        /\ okCount' \in [Keys -> Nat] /\ sinceAlert' \in [Keys -> Nat]
        /\ calm' \in [Keys -> Nat] /\ breached' \in [Keys -> BOOLEAN] /\ fails' \in Nat
    BY <1>4 DEF Restart
  <2> QED
    BY <1>4, <2>2, <2>3, <2>4, <2>5 DEF Restart, TypeOK
<1>5. CASE UNCHANGED vars
  BY <1>5 DEF vars, engine, ghosts, bounds, TypeOK
<1> QED
  BY <1>1, <1>2, <1>3, <1>4, <1>5 DEF Next

(* Every reachable state of the engine and of alert_history is typed; no   *)
(* window is longer than some setting allows.                              *)
THEOREM TypeCorrect == Spec => []TypeOK
BY InitTypeOK, NextTypeOK, PTL DEF Spec
-----------------------------------------------------------------------------
(***************************************************************************)
(* The rule.  "N, M, K" speaks of the whole trail of samples; the engine   *)
(* keeps a window, a count and an age.  The invariant says how they are    *)
(* tied: the window is the end of the trail, as long as the settings stay  *)
(* (WindowIsTrail); the count, while alerting, is the number of good       *)
(* samples since the alert and since the last breach (CountIsCalm); the    *)
(* age of the cooldown is at most that of the last row (RowsAreOlder).     *)
(***************************************************************************)
WindowIsTrail ==
  updates = 0 => \A k \in Keys : window[k] = LastN(trail[k], config.window)
CountIsCalm ==
  \A k \in Keys : /\ okCount[k] <= calm[k]
                  /\ state[k] = "alerting" => okCount[k] = Least(sinceAlert[k], calm[k])
RowsAreOlder == restarts = 0 => \A k \in Keys : age[k] <= rowAge[k]

RuleInv ==
  TypeOK /\ HistoryFollowsState /\ WindowIsTrail /\ CountIsCalm /\ RowsAreOlder

-----------------------------------------------------------------------------
(* LastN, element by element.                                              *)
LEMMA LastNElements ==
  ASSUME NEW s \in Seq(BOOLEAN), NEW n \in Nat
  PROVE  /\ LastN(s, n) \in Seq(BOOLEAN)
         /\ Len(LastN(s, n)) = Least(Len(s), n)
         /\ \A i \in 1..Least(Len(s), n) :
              LastN(s, n)[i] = s[Len(s) - Least(Len(s), n) + i]
<1>1. CASE Len(s) <= n
  <2>1. Least(Len(s), n) = Len(s) /\ Len(s) \in Nat
    BY <1>1 DEF Least
  <2>2. \A i \in 1..Len(s) : Len(s) - Len(s) + i = i
    BY <2>1
  <2> QED
    BY <1>1, <2>1, <2>2 DEF LastN
<1>2. CASE ~(Len(s) <= n)
  <2> DEFINE m == Len(s) - n + 1
  <2>1. Least(Len(s), n) = n /\ Len(s) \in Nat /\ m \in 1..(Len(s) + 1) /\ m > 1
    BY <1>2 DEF Least
  <2>2. LastN(s, n) = SubSeq(s, m, Len(s))
    BY <1>2 DEF LastN
  <2>3. SubSeq(s, m, Len(s)) \in Seq(BOOLEAN) /\ Len(SubSeq(s, m, Len(s))) = Len(s) - m + 1
    BY <2>1, SubSeqProperties
  <2>4. \A i \in 1..(Len(s) - m + 1) : SubSeq(s, m, Len(s))[i] = s[m + i - 1]
    BY <2>1, SubSeqProperties
  <2>5. Len(s) - m + 1 = n /\ \A i \in 1..n : m + i - 1 = Len(s) - n + i
    BY <2>1
  <2> QED
    BY <2>1, <2>2, <2>3, <2>4, <2>5
<1> QED
  BY <1>1, <1>2

(* The last n of a trail and one more are found from the last n of it.     *)
LEMMA LastNAppend ==
  ASSUME NEW s \in Seq(BOOLEAN), NEW b \in BOOLEAN, NEW n \in Nat
  PROVE  LastN(Append(LastN(s, n), b), n) = LastN(Append(s, b), n)
<1> DEFINE w == LastN(s, n)
           m == Least(Len(s), n)
<1>1. /\ w \in Seq(BOOLEAN) /\ Len(w) = m
      /\ \A i \in 1..m : w[i] = s[Len(s) - m + i]
  BY LastNElements
<1>2. /\ Len(s) \in Nat /\ m \in Nat /\ m <= n /\ m <= Len(s)
      /\ m < n => m = Len(s)
  BY DEF Least
<1> HIDE DEF w, m
<1> DEFINE u == Append(w, b)
           v == Append(s, b)
           p == Least(m + 1, n)
<1>3. /\ u \in Seq(BOOLEAN) /\ Len(u) = m + 1 /\ u[m + 1] = b
      /\ \A i \in 1..m : u[i] = w[i]
      /\ v \in Seq(BOOLEAN) /\ Len(v) = Len(s) + 1 /\ v[Len(s) + 1] = b
      /\ \A i \in 1..Len(s) : v[i] = s[i]
  BY <1>1, <1>2, AppendProperties
<1>4. p = Least(Len(s) + 1, n) /\ p \in Nat /\ p <= m + 1 /\ p <= Len(s) + 1
  BY <1>2 DEF Least
<1> HIDE DEF u, v, p
<1>5. /\ LastN(u, n) \in Seq(BOOLEAN) /\ Len(LastN(u, n)) = p
      /\ \A i \in 1..p : LastN(u, n)[i] = u[m + 1 - p + i]
  <2>1. /\ LastN(u, n) \in Seq(BOOLEAN) /\ Len(LastN(u, n)) = Least(Len(u), n)
        /\ \A i \in 1..Least(Len(u), n) : LastN(u, n)[i] = u[Len(u) - Least(Len(u), n) + i]
    BY <1>3, LastNElements
  <2>2. Len(u) = m + 1 /\ Least(Len(u), n) = p
    BY <1>3 DEF p
  <2> QED
    BY <1>2, <1>4, <2>1, <2>2
<1>6. /\ LastN(v, n) \in Seq(BOOLEAN) /\ Len(LastN(v, n)) = p
      /\ \A i \in 1..p : LastN(v, n)[i] = v[Len(s) + 1 - p + i]
  <2>1. /\ LastN(v, n) \in Seq(BOOLEAN) /\ Len(LastN(v, n)) = Least(Len(v), n)
        /\ \A i \in 1..Least(Len(v), n) : LastN(v, n)[i] = v[Len(v) - Least(Len(v), n) + i]
    BY <1>3, LastNElements
  <2>2. Len(v) = Len(s) + 1 /\ Least(Len(v), n) = p
    BY <1>3, <1>4
  <2> QED
    BY <2>1, <2>2
<1>7. ASSUME NEW i \in 1..p PROVE u[m + 1 - p + i] = v[Len(s) + 1 - p + i]
  <2>1. CASE i = p
    <3>1. m + 1 - p + i = m + 1 /\ Len(s) + 1 - p + i = Len(s) + 1
      BY <1>2, <1>4, <2>1
    <3> QED
      BY <1>3, <3>1
  <2>2. CASE i < p
    <3> DEFINE j == m + 1 - p + i
    <3>1. j \in 1..m /\ Len(s) + 1 - p + i \in 1..Len(s) /\ Len(s) - m + j = Len(s) + 1 - p + i
      BY <1>2, <1>4, <2>2
    <3> QED
      BY <1>1, <1>3, <3>1
  <2> QED
    BY <1>4, <2>1, <2>2
<1>8. LastN(u, n) = LastN(v, n)
  BY <1>4, <1>5, <1>6, <1>7, SeqEqual
<1> QED
  BY <1>8 DEF u, v, w

(* What one sample does to the tie between the count and the trail.        *)
LEMMA CountStep ==
  ASSUME RuleInv, NEW k \in Keys, NEW b \in BOOLEAN, EvalKey(k, TRUE, b)
  PROVE  /\ okCount'[k] <= calm'[k] /\ OkAfter(k, b) <= calm'[k]
         /\ state[k] = "alerting" => OkAfter(k, b) = Least(sinceAlert[k] + 1, calm'[k])
         /\ state'[k] = "alerting" => okCount'[k] = Least(sinceAlert'[k], calm'[k])
<1>1. /\ okCount[k] \in Nat /\ calm[k] \in Nat /\ sinceAlert[k] \in Nat
      /\ okCount[k] <= calm[k] /\ state[k] \in {"normal", "alerting"}
      /\ state[k] = "alerting" => okCount[k] = Least(sinceAlert[k], calm[k])
  BY DEF RuleInv, TypeOK, CountIsCalm
<1>2. calm'[k] = IF b THEN 0 ELSE calm[k] + 1
  BY DEF EvalKey
<1>3. OkAfter(k, b) = IF b THEN 0 ELSE okCount[k] + 1
  BY DEF OkAfter
<1>4. OkAfter(k, b) <= calm'[k]
  BY <1>1, <1>2, <1>3
<1>5. state[k] = "alerting" => OkAfter(k, b) = Least(sinceAlert[k] + 1, calm'[k])
  BY <1>1, <1>2, <1>3 DEF Least
<1>6. okCount'[k] = IF Event(k, b) # "none" THEN 0 ELSE OkAfter(k, b)
  BY DEF EvalKey
<1>7. CASE Event(k, b) = "none"
  <2>1. state'[k] = state[k] /\ sinceAlert'[k] = sinceAlert[k] + 1
    BY <1>7 DEF EvalKey
  <2> QED
    BY <1>4, <1>5, <1>6, <1>7, <2>1
<1>8. CASE Event(k, b) = "alert"
  <2>1. sinceAlert'[k] = 0
    BY <1>8 DEF EvalKey
  <2> QED
    BY <1>1, <1>2, <1>4, <1>5, <1>6, <1>8, <2>1 DEF Least
<1>9. CASE Event(k, b) = "recovery"
  <2>1. state'[k] = "normal"
    BY <1>9 DEF EvalKey
  <2> QED
    BY <1>1, <1>2, <1>4, <1>5, <1>6, <1>9, <2>1
<1> QED
  BY <1>7, <1>8, <1>9, EventType

(* When a sample is evaluated, the new window is the end of the new trail. *)
LEMMA WindowStep ==
  ASSUME RuleInv, updates = 0, NEW k \in Keys, NEW b \in BOOLEAN, EvalKey(k, TRUE, b)
  PROVE  WindowAfter(k, b) = LastN(trail'[k], config.window)
<1>1. config.window \in Nat /\ trail[k] \in Seq(BOOLEAN)
  BY ConfigType DEF RuleInv, TypeOK
<1>2. window[k] = LastN(trail[k], config.window) /\ trail'[k] = Append(trail[k], b)
  BY DEF RuleInv, WindowIsTrail, EvalKey
<1> QED
  BY <1>1, <1>2, LastNAppend DEF WindowAfter

(* The state of a metric changes exactly by the events of its samples.     *)
LEMMA StateStep ==
  ASSUME TypeOK, NEW k \in Keys, NEW b \in BOOLEAN, EvalKey(k, TRUE, b)
  PROVE  /\ state[k] = "normal" /\ state'[k] = "alerting" <=> Event(k, b) = "alert"
         /\ state[k] = "alerting" /\ state'[k] = "normal" <=> Event(k, b) = "recovery"
<1>1. /\ state[k] \in {"normal", "alerting"}
      /\ Event(k, b) = "alert" => state[k] = "normal"
      /\ Event(k, b) = "recovery" => state[k] = "alerting"
  BY DEF TypeOK, Event
<1>2. state'[k] = CASE Event(k, b) = "alert" -> "alerting"
                    [] Event(k, b) = "recovery" -> "normal"
                    [] OTHER -> state[k]
  BY DEF EvalKey
<1> QED
  BY <1>1, <1>2

-----------------------------------------------------------------------------
LEMMA InitRuleInv == Init => RuleInv
<1> SUFFICES ASSUME Init PROVE RuleInv
  OBVIOUS
<1>1. TypeOK
  BY InitTypeOK
<1>2. HistoryFollowsState
  BY DEF Init, HistoryFollowsState
<1>3. WindowIsTrail
  <2>1. config.window \in Nat /\ Len(<< >>) = 0
    BY <1>1, ConfigType
  <2> QED
    BY <2>1 DEF Init, WindowIsTrail, LastN
<1>4. CountIsCalm
  BY DEF Init, CountIsCalm, Least
<1>5. RowsAreOlder
  BY BoundsAssumption DEF Init, RowsAreOlder
<1> QED
  BY <1>1, <1>2, <1>3, <1>4, <1>5 DEF RuleInv

(* A probe result keeps the ties of every metric.                          *)
LEMMA ResultKeepsRules ==
  ASSUME RuleInv, TypeOK', NEW sample \in Sample, ProcessProbeResult(sample)
  PROVE  RuleInv'
<1>1. /\ TypeOK /\ Evaluate(sample) /\ RecordEvents
      /\ config' = config /\ restarts' = restarts /\ updates' = updates
  BY DEF ProcessProbeResult, RuleInv
<1>2. ASSUME NEW k \in Keys
      PROVE  /\ EvalKey(k, k \in Evaluated(sample), Breach(sample, k))
             /\ Breach(sample, k) \in BOOLEAN
  BY <1>1, EvaluateKey, SampleType
<1>3. HistoryFollowsState'
  <2> SUFFICES ASSUME NEW k \in Keys, intact'[k]
               PROVE  row'[k] = "alert" <=> state'[k] = "alerting"
    BY DEF HistoryFollowsState
  <2>1. intact[k] /\ (row[k] = "alert" <=> state[k] = "alerting")
    BY <1>1, RecordType DEF RuleInv, HistoryFollowsState
  <2>2. CASE Changed(k)
    <3>1. row'[k] = EventOf(k)
      BY <1>1, <2>2, RecordType
    <3> QED
      BY <3>1 DEF EventOf
  <2>3. CASE ~Changed(k)
    <3>1. row'[k] = row[k]
      BY <1>1, <2>3, RecordType
    <3> QED
      BY <2>1, <2>3, <3>1 DEF Changed
  <2> QED
    BY <2>2, <2>3
<1>4. WindowIsTrail'
  <2> SUFFICES ASSUME updates = 0, NEW k \in Keys
               PROVE  window'[k] = LastN(trail'[k], config.window)
    BY <1>1 DEF WindowIsTrail
  <2>1. CASE k \in Evaluated(sample)
    <3>1. EvalKey(k, TRUE, Breach(sample, k)) /\ Breach(sample, k) \in BOOLEAN
      BY <1>2, <2>1
    <3>2. WindowAfter(k, Breach(sample, k)) = LastN(trail'[k], config.window)
      BY <3>1, WindowStep
    <3> QED
      BY <3>1, <3>2 DEF EvalKey
  <2>2. CASE k \notin Evaluated(sample)
    <3>1. window'[k] = window[k] /\ trail'[k] = trail[k]
      BY <1>2, <2>2 DEF EvalKey
    <3> QED
      BY <3>1 DEF RuleInv, WindowIsTrail
  <2> QED
    BY <2>1, <2>2
<1>5. CountIsCalm'
  <2> SUFFICES ASSUME NEW k \in Keys
               PROVE  /\ okCount'[k] <= calm'[k]
                      /\ state'[k] = "alerting"
                           => okCount'[k] = Least(sinceAlert'[k], calm'[k])
    BY DEF CountIsCalm
  <2>1. CASE k \in Evaluated(sample)
    <3>1. EvalKey(k, TRUE, Breach(sample, k)) /\ Breach(sample, k) \in BOOLEAN
      BY <1>2, <2>1
    <3> QED
      BY <3>1, CountStep
  <2>2. CASE k \notin Evaluated(sample)
    <3>1. /\ state'[k] = state[k] /\ okCount'[k] = okCount[k]
          /\ sinceAlert'[k] = sinceAlert[k] /\ calm'[k] = calm[k]
      BY <1>2, <2>2 DEF EvalKey
    <3> QED
      BY <3>1 DEF RuleInv, CountIsCalm
  <2> QED
    BY <2>1, <2>2
<1>6. RowsAreOlder'
  <2> SUFFICES ASSUME restarts = 0, NEW k \in Keys PROVE age'[k] <= rowAge'[k]
    BY <1>1 DEF RowsAreOlder
  <2>1. age[k] <= rowAge[k] /\ rowAge[k] \in 0..MaxCooldown
    BY DEF RuleInv, RowsAreOlder, TypeOK
  <2>2. CASE Changed(k) /\ state'[k] = "alerting"
    <3>1. state[k] = "normal"
      BY <2>2 DEF Changed, RuleInv, TypeOK
    <3>2. k \in Evaluated(sample) /\ Event(k, Breach(sample, k)) = "alert"
      <4>1. k \in Evaluated(sample)
        BY <1>2, <2>2, <3>1 DEF EvalKey
      <4>2. EvalKey(k, TRUE, Breach(sample, k))
        BY <1>2, <4>1
      <4> QED
        BY <1>1, <1>2, <2>2, <3>1, <4>1, <4>2, StateStep
    <3>3. age'[k] = 0 /\ rowAge'[k] \in 0..MaxCooldown
      BY <1>2, <3>2 DEF EvalKey, TypeOK
    <3> QED
      BY <3>3, BoundsAssumption
  <2>3. CASE ~(Changed(k) /\ state'[k] = "alerting")
    <3>1. rowAge'[k] = rowAge[k]
      BY <1>1, <2>3, RecordType DEF EventOf
    <3>2. age'[k] \in {0, age[k]}
      BY <1>2 DEF EvalKey
    <3> QED
      BY <2>1, <3>1, <3>2, BoundsAssumption
  <2> QED
    BY <2>2, <2>3
<1> QED
  BY <1>3, <1>4, <1>5, <1>6 DEF RuleInv

LEMMA NextRuleInv == RuleInv /\ [Next]_vars => RuleInv'
<1> SUFFICES ASSUME RuleInv, [Next]_vars PROVE RuleInv'
  OBVIOUS
<1>1. TypeOK /\ TypeOK'
  BY NextTypeOK DEF RuleInv
<1>2. ASSUME NEW sample \in Sample, ProcessProbeResult(sample) PROVE RuleInv'
  BY <1>1, <1>2, ResultKeepsRules
<1>3. CASE UpdateTask
  <2>1. updates' # 0
    BY <1>1, <1>3 DEF UpdateTask, TypeOK
  <2>2. /\ UNCHANGED <<window, state, okCount, age, row, rowAge, intact, restarts>>
        /\ UNCHANGED <<trail, sinceAlert, calm>>
    BY <1>3 DEF UpdateTask, engine, ghosts
  <2> QED
    BY <1>1, <2>1, <2>2
    DEF RuleInv, HistoryFollowsState, WindowIsTrail, CountIsCalm, RowsAreOlder
<1>4. CASE Tick
  <2>1. RowsAreOlder'
    <3> SUFFICES ASSUME restarts = 0, NEW k \in Keys PROVE Older(age)[k] <= Older(rowAge)[k]
      BY <1>4 DEF Tick, RowsAreOlder, bounds
    <3>1. /\ age[k] <= rowAge[k] /\ age[k] \in 0..MaxCooldown /\ rowAge[k] \in 0..MaxCooldown
      BY <1>1 DEF RuleInv, RowsAreOlder, TypeOK
    <3> QED
      BY <3>1, BoundsAssumption DEF Older
  <2>2. UNCHANGED <<config, window, state, okCount, row, intact, trail, sinceAlert, calm, updates>>
    BY <1>4 DEF Tick, ghosts, bounds
  <2> QED
    BY <1>1, <2>1, <2>2 DEF RuleInv, HistoryFollowsState, WindowIsTrail, CountIsCalm
<1>5. CASE Restart
  <2>1. HistoryFollowsState'
    <3> SUFFICES ASSUME NEW k \in Keys, intact'[k]
                 PROVE  row'[k] = "alert" <=> state'[k] = "alerting"
      BY DEF HistoryFollowsState
    <3>1. intact[k] /\ state[k] = "normal" /\ state'[k] = "normal" /\ row' = row
      BY <1>5 DEF Restart
    <3> QED
      BY <3>1 DEF RuleInv, HistoryFollowsState
  <2>2. WindowIsTrail'
    <3>1. config' = config /\ config.window \in Nat /\ Len(<< >>) = 0
      BY <1>1, <1>5, ConfigType DEF Restart
    <3> QED
      BY <1>5, <3>1 DEF Restart, WindowIsTrail, LastN
  <2>3. CountIsCalm' /\ RowsAreOlder'
    BY <1>1, <1>5 DEF Restart, CountIsCalm, RowsAreOlder, TypeOK, Least
  <2> QED
    BY <1>1, <2>1, <2>2, <2>3 DEF RuleInv
<1>6. CASE UNCHANGED vars
  <2>1. /\ UNCHANGED <<config, window, state, okCount, age, row, rowAge, intact>>
        /\ UNCHANGED <<trail, sinceAlert, calm, restarts, updates>>
    BY <1>6 DEF vars, engine, ghosts, bounds
  <2> QED
    BY <1>1, <2>1
    DEF RuleInv, HistoryFollowsState, WindowIsTrail, CountIsCalm, RowsAreOlder
<1> QED
  BY <1>2, <1>3, <1>4, <1>5, <1>6 DEF Next

(* The ties hold in every reachable state.                                 *)
THEOREM RulesHold == Spec => []RuleInv
BY InitRuleInv, NextRuleInv, PTL DEF Spec

(* The last row of alert_history of a metric is an alert exactly while the *)
(* engine has the metric alerting, where no row was lost                   *)
(* (record_alert_event).                                                   *)
THEOREM HistoryCorrect == Spec => []HistoryFollowsState
<1>1. RuleInv => HistoryFollowsState
  BY DEF RuleInv
<1> QED
  BY <1>1, RulesHold, PTL

-----------------------------------------------------------------------------
(* A metric's state and trail only change with a sample evaluated for it,  *)
(* or with a restart.                                                      *)
LEMMA OnlySamples ==
  ASSUME RuleInv, [Next]_vars, NEW k \in Keys, restarts' = restarts,
         trail'[k] # trail[k] \/ state'[k] # state[k]
  PROVE  \E sample \in Sample :
           /\ ProcessProbeResult(sample) /\ Breach(sample, k) \in BOOLEAN
           /\ EvalKey(k, TRUE, Breach(sample, k))
           /\ trail'[k] # trail[k]
<1>1. PICK sample \in Sample : ProcessProbeResult(sample)
  <2>1. ~UpdateTask /\ ~Tick /\ ~UNCHANGED vars
    BY DEF UpdateTask, Tick, vars, engine, ghosts
  <2>2. ~Restart
    BY DEF Restart, RuleInv, TypeOK
  <2> QED
    BY <2>1, <2>2 DEF Next
<1>2. EvalKey(k, k \in Evaluated(sample), Breach(sample, k)) /\ Breach(sample, k) \in BOOLEAN
  BY <1>1, EvaluateKey, SampleType DEF ProcessProbeResult, RuleInv
<1>3. k \in Evaluated(sample)
  BY <1>2 DEF EvalKey
<1>4. EvalKey(k, TRUE, Breach(sample, k))
  BY <1>2, <1>3
<1>5. trail'[k] # trail[k]
  <2>1. trail[k] \in Seq(BOOLEAN) /\ trail'[k] = Append(trail[k], Breach(sample, k))
    BY <1>4 DEF EvalKey, RuleInv, TypeOK
  <2>2. Len(trail'[k]) = Len(trail[k]) + 1 /\ Len(trail[k]) \in Nat
    BY <1>2, <2>1
  <2> QED
    BY <2>2
<1> QED
  BY <1>1, <1>2, <1>4, <1>5

(* When an event comes.                                                    *)
LEMMA EventWhen ==
  ASSUME NEW k \in Keys, NEW b \in BOOLEAN
  PROVE  /\ Event(k, b) = "alert" <=>
              /\ state[k] = "normal" /\ Breaches(WindowAfter(k, b)) >= config.trigger
              /\ age[k] >= config.cooldown
         /\ Event(k, b) = "recovery" <=>
              state[k] = "alerting" /\ OkAfter(k, b) >= config.recovery
<1> HIDE DEF Config
<1> QED
  BY DEF Event

(* Until its settings change, the engine does what the rule says of the    *)
(* whole trail of samples, and only that (_check_threshold).               *)
THEOREM RuleFollowed == Spec => FollowsRule
<1>1. ASSUME RuleInv, [Next]_vars, NEW k \in Keys, Sampled(k), updates = 0
      PROVE  /\ Alerted(k) <=>
                  /\ state[k] = "normal" /\ age[k] >= config.cooldown
                  /\ Breaches(LastN(trail'[k], config.window)) >= config.trigger
             /\ Recovered(k) <=>
                  /\ state[k] = "alerting"
                  /\ Least(sinceAlert[k] + 1, calm'[k]) >= config.recovery
  <2>1. PICK sample \in Sample :
          EvalKey(k, TRUE, Breach(sample, k)) /\ Breach(sample, k) \in BOOLEAN
    BY <1>1, OnlySamples DEF Sampled
  <2>2. WindowAfter(k, Breach(sample, k)) = LastN(trail'[k], config.window)
    BY <1>1, <2>1, WindowStep
  <2>3. state[k] = "alerting"
          => OkAfter(k, Breach(sample, k)) = Least(sinceAlert[k] + 1, calm'[k])
    BY <1>1, <2>1, CountStep
  <2>4. /\ Alerted(k) <=> Event(k, Breach(sample, k)) = "alert"
        /\ Recovered(k) <=> Event(k, Breach(sample, k)) = "recovery"
    BY <1>1, <2>1, StateStep DEF Alerted, Recovered, Sampled, RuleInv
  <2> QED
    BY <2>1, <2>2, <2>3, <2>4, EventWhen
<1>2. RuleInv /\ [Next]_vars =>
        [\A k \in Keys : Sampled(k) /\ updates = 0 =>
           /\ Alerted(k) <=>
                /\ state[k] = "normal" /\ age[k] >= config.cooldown
                /\ Breaches(LastN(trail'[k], config.window)) >= config.trigger
           /\ Recovered(k) <=>
                /\ state[k] = "alerting"
                /\ Least(sinceAlert[k] + 1, calm'[k]) >= config.recovery]_vars
  BY <1>1
<1> QED
  BY <1>2, RulesHold, PTL DEF Spec, FollowsRule

(* A recovery is earned by as many good samples in a row, all after the    *)
(* alert, as the settings ask for, whatever they were before.              *)
THEOREM RecoveryIsEarned == Spec => RecoveryEarned
<1>1. ASSUME RuleInv, [Next]_vars, NEW k \in Keys, Recovered(k)
      PROVE  config.recovery <= Least(sinceAlert'[k], calm'[k])
  <2>1. PICK sample \in Sample :
          EvalKey(k, TRUE, Breach(sample, k)) /\ Breach(sample, k) \in BOOLEAN
    BY <1>1, OnlySamples DEF Recovered
  <2>2. Event(k, Breach(sample, k)) = "recovery"
    BY <1>1, <2>1, StateStep DEF Recovered, RuleInv
  <2>3. OkAfter(k, Breach(sample, k)) = Least(sinceAlert[k] + 1, calm'[k])
    BY <1>1, <2>1, CountStep DEF Recovered
  <2>4. OkAfter(k, Breach(sample, k)) >= config.recovery
    BY <2>1, <2>2, EventWhen
  <2>5. sinceAlert'[k] = sinceAlert[k] + 1
    BY <2>1, <2>2 DEF EvalKey
  <2> QED
    BY <2>3, <2>4, <2>5
<1>2. RuleInv /\ [Next]_vars =>
        [\A k \in Keys : Recovered(k) =>
           config.recovery <= Least(sinceAlert'[k], calm'[k])]_vars
  BY <1>1
<1> QED
  BY <1>2, RulesHold, PTL DEF Spec, RecoveryEarned

(* Alerts of a metric are a cooldown apart, by the rows of alert_history,  *)
(* until the server restarts and forgets the cooldown.                     *)
THEOREM AlertsAreSpaced == Spec => AlertsSpaced
<1>1. ASSUME RuleInv, [Next]_vars, NEW k \in Keys, Alerted(k), restarts = 0
      PROVE  rowAge[k] >= config.cooldown
  <2>1. ~Restart
    BY <1>1 DEF Restart, Alerted
  <2>2. restarts' = restarts
    BY <1>1, <2>1
    DEF Next, ProcessProbeResult, UpdateTask, Tick, vars, bounds
  <2>3. PICK sample \in Sample :
          EvalKey(k, TRUE, Breach(sample, k)) /\ Breach(sample, k) \in BOOLEAN
    BY <1>1, <2>2, OnlySamples DEF Alerted
  <2>4. age[k] >= config.cooldown
    BY <1>1, <2>3, StateStep, EventWhen DEF Alerted, RuleInv
  <2>5. /\ age[k] <= rowAge[k] /\ age[k] \in 0..MaxCooldown /\ rowAge[k] \in 0..MaxCooldown
        /\ config.cooldown \in 0..MaxCooldown
    BY <1>1, ConfigType DEF RuleInv, RowsAreOlder, TypeOK
  <2> QED
    BY <2>4, <2>5, BoundsAssumption
<1>2. RuleInv /\ [Next]_vars =>
        [\A k \in Keys : Alerted(k) /\ restarts = 0 => rowAge[k] >= config.cooldown]_vars
  BY <1>1
<1> QED
  BY <1>2, RulesHold, PTL DEF Spec, AlertsSpaced
-----------------------------------------------------------------------------
(***************************************************************************)
(* The window, whatever happens to the settings: it is always the end of   *)
(* the trail, of whatever length (WindowIsEnd).  So the breaches an alert  *)
(* counts are breaches of the trail.  As to how recent they are: behind    *)
(* every breach in the window there are at least okCount good samples      *)
(* (CountedBehind), and, where none was evaluated since the last recovery, *)
(* at least as many as some settings ask of a recovery (EarnedBehind).     *)
(***************************************************************************)
IsEnd(w, s) ==
  /\ Len(w) <= Len(s)
  /\ \A i \in 1..Len(w) : w[i] = s[Len(s) - Len(w) + i]

(* Behind every breach in w there are n good samples.                      *)
Behind(w, n) == \A i \in 1..Len(w) : w[i] => i + n <= Len(w)

WindowIsEnd == \A k \in Keys : IsEnd(window[k], trail[k])
CountedBehind == \A k \in Keys : Behind(window[k], okCount[k])
EarnedBehind ==
  \A k \in Keys : ~breached[k] => \E c \in Configs : Behind(window[k], c.recovery)

WindowInv == TypeOK /\ WindowIsEnd /\ CountedBehind /\ EarnedBehind

LEMMA EndLastN ==
  ASSUME NEW s \in Seq(BOOLEAN), NEW n \in Nat
  PROVE  IsEnd(LastN(s, n), s)
<1> DEFINE w == LastN(s, n)
           m == Least(Len(s), n)
<1>1. Len(w) = m /\ \A i \in 1..m : w[i] = s[Len(s) - m + i]
  BY LastNElements
<1>2. m <= Len(s)
  BY DEF Least
<1> HIDE DEF w, m
<1>3. IsEnd(w, s)
  BY <1>1, <1>2 DEF IsEnd
<1> QED
  BY <1>3 DEF w

LEMMA EndAppend ==
  ASSUME NEW w \in Seq(BOOLEAN), NEW s \in Seq(BOOLEAN), NEW b \in BOOLEAN, IsEnd(w, s)
  PROVE  IsEnd(Append(w, b), Append(s, b))
<1> DEFINE u == Append(w, b)
           v == Append(s, b)
<1>1. /\ Len(u) = Len(w) + 1 /\ u[Len(w) + 1] = b /\ \A i \in 1..Len(w) : u[i] = w[i]
      /\ Len(v) = Len(s) + 1 /\ v[Len(s) + 1] = b /\ \A i \in 1..Len(s) : v[i] = s[i]
      /\ Len(w) \in Nat /\ Len(s) \in Nat
  BY AppendProperties
<1>2. Len(w) <= Len(s) /\ \A i \in 1..Len(w) : w[i] = s[Len(s) - Len(w) + i]
  BY DEF IsEnd
<1> HIDE DEF u, v
<1>3. ASSUME NEW i \in 1..(Len(w) + 1) PROVE u[i] = v[Len(s) - Len(w) + i]
  <2>1. CASE i = Len(w) + 1
    <3>1. Len(s) - Len(w) + i = Len(s) + 1
      BY <1>1, <2>1
    <3> QED
      BY <1>1, <2>1, <3>1
  <2>2. CASE i # Len(w) + 1
    <3>1. i \in 1..Len(w) /\ Len(s) - Len(w) + i \in 1..Len(s)
      BY <1>1, <1>2, <2>2
    <3> QED
      BY <1>1, <1>2, <3>1
  <2> QED
    BY <2>1, <2>2
<1>4. Len(v) - Len(u) = Len(s) - Len(w) /\ Len(u) <= Len(v)
  BY <1>1, <1>2
<1>5. IsEnd(u, v)
  BY <1>1, <1>3, <1>4 DEF IsEnd
<1> QED
  BY <1>5 DEF u, v

LEMMA EndOfEnd ==
  ASSUME NEW u \in Seq(BOOLEAN), NEW w \in Seq(BOOLEAN), NEW s \in Seq(BOOLEAN),
         IsEnd(u, w), IsEnd(w, s)
  PROVE  IsEnd(u, s)
<1>1. /\ Len(u) \in Nat /\ Len(w) \in Nat /\ Len(s) \in Nat
      /\ Len(u) <= Len(w) /\ Len(w) <= Len(s)
  BY DEF IsEnd
<1>2. ASSUME NEW i \in 1..Len(u) PROVE u[i] = s[Len(s) - Len(u) + i]
  <2> DEFINE j == Len(w) - Len(u) + i
  <2>1. j \in 1..Len(w) /\ Len(s) - Len(w) + j = Len(s) - Len(u) + i
    BY <1>1
  <2>2. u[i] = w[j] /\ w[j] = s[Len(s) - Len(w) + j]
    BY <2>1 DEF IsEnd
  <2> QED
    BY <2>1, <2>2
<1> QED
  BY <1>1, <1>2 DEF IsEnd

(* Of two ends of a trail, the shorter has no more breaches.               *)
LEMMA EndBreaches ==
  ASSUME NEW u \in Seq(BOOLEAN), NEW v \in Seq(BOOLEAN), NEW s \in Seq(BOOLEAN),
         IsEnd(u, s), IsEnd(v, s), Len(u) <= Len(v)
  PROVE  Breaches(u) <= Breaches(v)
<1> DEFINE d == Len(v) - Len(u)
           S == {i \in 1..Len(u) : u[i]}
           T == {i \in 1..Len(v) : v[i]}
           f == [i \in S |-> d + i]
<1>1. /\ Len(u) \in Nat /\ Len(v) \in Nat /\ Len(s) \in Nat /\ d \in Nat
      /\ Len(v) <= Len(s)
  BY DEF IsEnd
<1>2. ASSUME NEW i \in S PROVE d + i \in T
  <2>1. i \in 1..Len(u) /\ u[i] /\ d + i \in 1..Len(v)
    BY <1>1
  <2>2. u[i] = s[Len(s) - Len(u) + i] /\ v[d + i] = s[Len(s) - Len(v) + (d + i)]
    BY <2>1 DEF IsEnd
  <2>3. Len(s) - Len(v) + (d + i) = Len(s) - Len(u) + i
    BY <1>1, <2>1
  <2> QED
    BY <2>1, <2>2, <2>3
<1>3. f \in [S -> T]
  BY <1>2
<1>4. \A i, j \in S : f[i] = f[j] => i = j
  BY <1>1
<1>5. f \in Injection(S, T)
  BY <1>3, <1>4 DEF Injection, IsInjective
<1>6. IsFiniteSet(T)
  <2>1. IsFiniteSet(1..Len(v)) /\ T \subseteq 1..Len(v)
    BY <1>1, FS_Interval
  <2> QED
    BY <2>1, FS_Subset
<1> HIDE DEF f
<1>7. Cardinality(S) <= Cardinality(T)
  BY <1>5, <1>6, FS_Injection
<1> QED
  BY <1>7 DEF Breaches

(* What is behind a breach stays behind it as the window moves on.         *)
LEMMA BehindAppend ==
  ASSUME NEW w \in Seq(BOOLEAN), NEW n \in Nat, Behind(w, n)
  PROVE  Behind(Append(w, FALSE), n + 1)
<1> DEFINE u == Append(w, FALSE)
<1>1. /\ Len(u) = Len(w) + 1 /\ u[Len(w) + 1] = FALSE /\ \A i \in 1..Len(w) : u[i] = w[i]
      /\ Len(w) \in Nat
  BY AppendProperties
<1> HIDE DEF u
<1>2. Behind(u, n + 1)
  BY <1>1 DEF Behind
<1> QED
  BY <1>2 DEF u

LEMMA BehindEnd ==
  ASSUME NEW u \in Seq(BOOLEAN), NEW w \in Seq(BOOLEAN), NEW n \in Nat,
         IsEnd(u, w), Behind(w, n)
  PROVE  Behind(u, n)
<1>1. Len(u) \in Nat /\ Len(w) \in Nat /\ Len(u) <= Len(w)
  BY DEF IsEnd
<1>2. ASSUME NEW i \in 1..Len(u), u[i] PROVE i + n <= Len(u)
  <2> DEFINE j == Len(w) - Len(u) + i
  <2>1. j \in 1..Len(w) /\ w[j]
    BY <1>1, <1>2 DEF IsEnd
  <2>2. j + n <= Len(w)
    BY <2>1 DEF Behind
  <2> QED
    BY <1>1, <2>2
<1> QED
  BY <1>2 DEF Behind

LEMMA BehindLess ==
  ASSUME NEW w \in Seq(BOOLEAN), NEW n \in Nat, NEW m \in Nat, m <= n, Behind(w, n)
  PROVE  Behind(w, m)
BY DEF Behind

LEMMA BehindBreaches ==
  ASSUME NEW w \in Seq(BOOLEAN), NEW n \in Nat, Behind(w, n)
  PROVE  Breaches(w) = 0 \/ Breaches(w) + n <= Len(w)
<1> DEFINE S == {i \in 1..Len(w) : w[i]}
<1>1. Len(w) \in Nat
  OBVIOUS
<1>2. CASE Len(w) < n
  <2>1. S = {}
    BY <1>1, <1>2 DEF Behind
  <2> QED
    BY <2>1, FS_EmptySet DEF Breaches
<1>3. CASE n <= Len(w)
  <2> DEFINE m == Len(w) - n
  <2>0. m \in Nat /\ S \subseteq 1..m
    BY <1>1, <1>3 DEF Behind
  <2>1. m \in Int /\ 1 \in Int /\ (1 > m => m = 0) /\ m - 1 + 1 = m
    BY <2>0
  <2> HIDE DEF m
  <2>2. IsFiniteSet(1..m) /\ Cardinality(1..m) = m
    BY <2>1, FS_Interval
  <2>3. Cardinality(S) <= Len(w) - n
    BY <2>0, <2>2, FS_Subset DEF m
  <2>4. Breaches(w) \in Nat /\ Breaches(w) = Cardinality(S)
    BY BreachesType DEF Breaches
  <2> QED
    BY <1>1, <1>3, <2>3, <2>4
<1> QED
  BY <1>1, <1>2, <1>3

-----------------------------------------------------------------------------
(* One sample of one metric.                                               *)
LEMMA WindowKey ==
  ASSUME WindowInv, NEW k \in Keys, NEW b \in BOOLEAN
  PROVE  /\ WindowAfter(k, b) \in Seq(BOOLEAN)
         /\ IsEnd(WindowAfter(k, b), Append(trail[k], b))
         /\ Behind(WindowAfter(k, b), OkAfter(k, b))
         /\ \A n \in Nat : ~b /\ Behind(window[k], n) => Behind(WindowAfter(k, b), n)
<1> DEFINE u == Append(window[k], b)
<1>1. /\ window[k] \in Seq(BOOLEAN) /\ trail[k] \in Seq(BOOLEAN) /\ okCount[k] \in Nat
      /\ config.window \in Nat /\ u \in Seq(BOOLEAN) /\ Append(trail[k], b) \in Seq(BOOLEAN)
  <2>1. TypeOK
    BY DEF WindowInv
  <2>2. window[k] \in Seq(BOOLEAN) /\ trail[k] \in Seq(BOOLEAN) /\ okCount[k] \in Nat
    BY <2>1 DEF TypeOK
  <2>3. config.window \in Nat
    BY <2>1, ConfigType
  <2> QED
    BY <2>2, <2>3, AppendProperties
<1>2. WindowAfter(k, b) = LastN(u, config.window)
  BY DEF WindowAfter
<1>3. IsEnd(window[k], trail[k]) /\ Behind(window[k], okCount[k])
  BY DEF WindowInv, WindowIsEnd, CountedBehind
<1>4. IsEnd(u, Append(trail[k], b))
  BY <1>1, <1>3, EndAppend
<1> HIDE DEF u
<1>5. WindowAfter(k, b) \in Seq(BOOLEAN) /\ IsEnd(WindowAfter(k, b), u)
  BY <1>1, <1>2, LastNElements, EndLastN
<1>6. IsEnd(WindowAfter(k, b), Append(trail[k], b))
  BY <1>1, <1>4, <1>5, EndOfEnd
<1>7. ASSUME ~b, NEW n \in Nat, Behind(window[k], n) PROVE Behind(u, n + 1)
  BY <1>1, <1>7, BehindAppend DEF u
<1>8. ASSUME ~b, NEW n \in Nat, Behind(window[k], n) PROVE Behind(WindowAfter(k, b), n + 1)
  BY <1>1, <1>5, <1>7, <1>8, BehindEnd
<1>9. Behind(WindowAfter(k, b), OkAfter(k, b))
  <2>1. CASE b
    <3>1. OkAfter(k, b) = 0
      BY <2>1, Zenon DEF OkAfter
    <3>2. Len(WindowAfter(k, b)) \in Nat
      BY <1>5
    <3> QED
      BY <3>1, <3>2 DEF Behind
  <2>2. CASE ~b
    BY <1>1, <1>3, <1>8, <2>2 DEF OkAfter
  <2> QED
    BY <2>1, <2>2
<1>10. ASSUME ~b, NEW n \in Nat, Behind(window[k], n) PROVE Behind(WindowAfter(k, b), n)
  <2>1. Behind(WindowAfter(k, b), n + 1)
    BY <1>8, <1>10
  <2> QED
    BY <1>5, <2>1, BehindLess
<1> QED
  BY <1>5, <1>6, <1>9, <1>10

LEMMA ResultKeepsWindow ==
  ASSUME WindowInv, TypeOK', NEW sample \in Sample, ProcessProbeResult(sample)
  PROVE  WindowInv'
<1>1. TypeOK /\ Evaluate(sample) /\ config' = config
  BY DEF ProcessProbeResult, WindowInv
<1>2. ASSUME NEW k \in Keys
      PROVE  /\ IsEnd(window'[k], trail'[k]) /\ Behind(window'[k], okCount'[k])
             /\ ~breached'[k] => \E c \in Configs : Behind(window'[k], c.recovery)
  <2> DEFINE b == Breach(sample, k)
             on == k \in Evaluated(sample)
  <2>1. EvalKey(k, on, b) /\ b \in BOOLEAN
    BY <1>1, EvaluateKey, SampleType
  <2>2. /\ IsEnd(window[k], trail[k]) /\ Behind(window[k], okCount[k])
        /\ ~breached[k] => \E c \in Configs : Behind(window[k], c.recovery)
    BY DEF WindowInv, WindowIsEnd, CountedBehind, EarnedBehind
  <2> HIDE DEF b, on
  <2>3. CASE ~on
    BY <2>1, <2>2, <2>3 DEF EvalKey
  <2>4. CASE on
    <3>1. /\ window'[k] = WindowAfter(k, b) /\ trail'[k] = Append(trail[k], b)
          /\ okCount'[k] \in {0, OkAfter(k, b)}
          /\ ~breached'[k] => Event(k, b) = "recovery" \/ (~breached[k] /\ ~b)
      BY <2>1, <2>4 DEF EvalKey
    <3>2. /\ window'[k] \in Seq(BOOLEAN) /\ IsEnd(window'[k], trail'[k])
          /\ Behind(window'[k], OkAfter(k, b))
          /\ \A n \in Nat : ~b /\ Behind(window[k], n) => Behind(window'[k], n)
      BY <2>1, <3>1, WindowKey
    <3>3. OkAfter(k, b) \in Nat
      <4>1. OkAfter(k, b) \in {0, okCount[k] + 1}
        BY Zenon DEF OkAfter
      <4>2. okCount[k] \in Nat
        BY DEF WindowInv, TypeOK
      <4> QED
        BY <4>1, <4>2
    <3>4. Behind(window'[k], okCount'[k])
      BY <3>1, <3>2, <3>3, BehindLess
    <3>5. ASSUME Event(k, b) = "recovery"
          PROVE  \E c \in Configs : Behind(window'[k], c.recovery)
      <4>1. config \in Configs /\ config.recovery \in Nat /\ OkAfter(k, b) >= config.recovery
        BY <2>1, <3>5, EventWhen, ConfigType DEF WindowInv, TypeOK
      <4> QED
        BY <3>2, <3>3, <4>1, BehindLess
    <3>6. ASSUME ~breached[k], ~b
          PROVE  \E c \in Configs : Behind(window'[k], c.recovery)
      <4>1. PICK c \in Configs : Behind(window[k], c.recovery)
        BY <2>2, <3>6
      <4>2. c.recovery \in Nat
        BY ConfigsAssumption
      <4> QED
        BY <3>2, <3>6, <4>1, <4>2
    <3> QED
      BY <3>1, <3>2, <3>4, <3>5, <3>6
  <2> QED
    BY <2>3, <2>4
<1> QED
  BY <1>2 DEF WindowInv, WindowIsEnd, CountedBehind, EarnedBehind

(* An empty window has nothing to be behind of.                            *)
LEMMA EmptyWindow ==
  /\ \A s \in Seq(BOOLEAN) : IsEnd(<< >>, s)
  /\ \A n \in Nat : Behind(<< >>, n)
<1>1. Len(<< >>) = 0
  OBVIOUS
<1> QED
  BY <1>1 DEF IsEnd, Behind

LEMMA NextWindowInv == WindowInv /\ [Next]_vars => WindowInv'
<1> SUFFICES ASSUME WindowInv, [Next]_vars PROVE WindowInv'
  OBVIOUS
<1>1. TypeOK /\ TypeOK'
  BY NextTypeOK DEF WindowInv
<1>2. ASSUME NEW sample \in Sample, ProcessProbeResult(sample) PROVE WindowInv'
  BY <1>1, <1>2, ResultKeepsWindow
<1>3. CASE UpdateTask \/ Tick \/ UNCHANGED vars
  <2>1. UNCHANGED <<window, trail, okCount, breached>>
    BY <1>3 DEF UpdateTask, Tick, vars, engine, ghosts
  <2> QED
    BY <1>1, <2>1 DEF WindowInv, WindowIsEnd, CountedBehind, EarnedBehind
<1>4. CASE Restart
  <2>1. \A k \in Keys : /\ window'[k] = << >> /\ trail'[k] = << >> /\ okCount'[k] = 0
                        /\ << >> \in Seq(BOOLEAN)
    BY <1>4 DEF Restart
  <2>2. PICK c \in Configs : c.recovery \in Nat
    BY ConfigsAssumption
  <2> QED
    BY <1>1, <2>1, <2>2, EmptyWindow DEF WindowInv, WindowIsEnd, CountedBehind, EarnedBehind
<1> QED
  BY <1>2, <1>3, <1>4 DEF Next

LEMMA InitWindowInv == Init => WindowInv
<1> SUFFICES ASSUME Init PROVE WindowInv
  OBVIOUS
<1>1. \A k \in Keys : /\ window[k] = << >> /\ trail[k] = << >> /\ okCount[k] = 0
                      /\ << >> \in Seq(BOOLEAN)
  BY DEF Init
<1>2. PICK c \in Configs : c.recovery \in Nat
  BY ConfigsAssumption
<1> QED
  BY <1>1, <1>2, EmptyWindow, InitTypeOK DEF WindowInv, WindowIsEnd, CountedBehind, EarnedBehind

(* The window is the end of the trail in every reachable state.            *)
THEOREM WindowHolds == Spec => []WindowInv
BY InitWindowInv, NextWindowInv, PTL DEF Spec

(* An alert comes with a sample, and its window is the end of the trail.   *)
LEMMA AlertWindow ==
  ASSUME WindowInv, RuleInv, [Next]_vars, NEW k \in Keys, Alerted(k)
  PROVE  \E b \in BOOLEAN :
           /\ EvalKey(k, TRUE, b) /\ Event(k, b) = "alert"
           /\ Breaches(WindowAfter(k, b)) >= config.trigger
           /\ WindowAfter(k, b) \in Seq(BOOLEAN)
           /\ Len(WindowAfter(k, b)) <= config.window
<1>1. restarts' = restarts
  <2>1. ~Restart
    BY DEF Restart, Alerted
  <2> QED
    BY <2>1 DEF Next, ProcessProbeResult, UpdateTask, Tick, vars, bounds
<1>2. PICK sample \in Sample :
        EvalKey(k, TRUE, Breach(sample, k)) /\ Breach(sample, k) \in BOOLEAN
  BY <1>1, OnlySamples DEF Alerted
<1>3. Event(k, Breach(sample, k)) = "alert"
  BY <1>2, StateStep DEF Alerted, RuleInv
<1>4. Breaches(WindowAfter(k, Breach(sample, k))) >= config.trigger
  BY <1>2, <1>3, EventWhen
<1> QED
  BY <1>2, <1>3, <1>4, WindowType DEF WindowInv

(* However the settings changed in between, an alert is backed by the last *)
(* N samples: at least M of them are breaches (_check_threshold).          *)
THEOREM AlertIsBacked == Spec => AlertBacked
<1>1. ASSUME WindowInv, RuleInv, [Next]_vars, NEW k \in Keys, Alerted(k)
      PROVE  Breaches(LastN(trail'[k], config.window)) >= config.trigger
  <2>1. PICK b \in BOOLEAN :
          /\ EvalKey(k, TRUE, b)
          /\ Breaches(WindowAfter(k, b)) >= config.trigger
          /\ WindowAfter(k, b) \in Seq(BOOLEAN)
          /\ Len(WindowAfter(k, b)) <= config.window
    BY <1>1, AlertWindow
  <2> DEFINE w == WindowAfter(k, b)
             s == Append(trail[k], b)
  <2>2. /\ config.window \in Nat /\ config.trigger \in Nat /\ s \in Seq(BOOLEAN)
        /\ trail'[k] = s /\ IsEnd(w, s)
    <3>1. config.window \in Nat /\ config.trigger \in Nat
      BY <1>1, ConfigType DEF WindowInv
    <3>2. s \in Seq(BOOLEAN) /\ trail'[k] = s
      BY <1>1, <2>1 DEF WindowInv, TypeOK, EvalKey
    <3> QED
      BY <1>1, <2>1, <3>1, <3>2, WindowKey
  <2> HIDE DEF w, s
  <2>3. LastN(s, config.window) \in Seq(BOOLEAN) /\ IsEnd(LastN(s, config.window), s)
    BY <2>2, LastNElements, EndLastN
  <2>4. Len(w) <= Len(LastN(s, config.window))
    <3>1. Len(LastN(s, config.window)) = Least(Len(s), config.window)
      BY <2>2, LastNElements
    <3>2. Len(w) <= Len(s)
      BY <2>2 DEF IsEnd
    <3> QED
      BY <2>1, <3>1, <3>2 DEF Least, w
  <2>5. Breaches(w) <= Breaches(LastN(s, config.window))
    BY <2>1, <2>2, <2>3, <2>4, EndBreaches DEF w
  <2>6. Breaches(w) \in Nat /\ Breaches(LastN(s, config.window)) \in Nat
    BY <2>1, <2>3, BreachesType DEF w
  <2> QED
    BY <2>1, <2>2, <2>5, <2>6 DEF w
<1>2. WindowInv /\ RuleInv /\ [Next]_vars =>
        [\A k \in Keys : Alerted(k) =>
           Breaches(LastN(trail'[k], config.window)) >= config.trigger]_vars
  BY <1>1
<1> QED
  BY <1>2, RulesHold, WindowHolds, PTL DEF Spec, AlertBacked

(* With Selective settings an alert after a recovery rests on a breach     *)
(* after that recovery, although the recovery leaves the window as it is.  *)
THEOREM AlertsRestOnNews == Selective => (Spec => AlertsAreFresh)
<1>1. ASSUME Selective, WindowInv, RuleInv, WindowInv', [Next]_vars,
             NEW k \in Keys, Alerted(k), ~breached'[k]
      PROVE  FALSE
  <2>1. PICK b \in BOOLEAN :
          /\ EvalKey(k, TRUE, b)
          /\ Breaches(WindowAfter(k, b)) >= config.trigger
          /\ WindowAfter(k, b) \in Seq(BOOLEAN)
          /\ Len(WindowAfter(k, b)) <= config.window
    BY <1>1, AlertWindow
  <2>2. window'[k] = WindowAfter(k, b)
    BY <2>1 DEF EvalKey
  <2>3. PICK e \in Configs : Behind(WindowAfter(k, b), e.recovery)
    BY <1>1, <2>2 DEF WindowInv, EarnedBehind
  <2>4. /\ config \in Configs /\ config.window \in Nat /\ config.trigger \in Nat
        /\ e.recovery \in Nat
    BY <1>1, ConfigsAssumption, ConfigType DEF WindowInv, TypeOK
  <2>5. config.trigger > 0 /\ config.window < config.trigger + e.recovery
    BY <1>1, <2>4 DEF Selective
  <2> DEFINE w == WindowAfter(k, b)
  <2> HIDE DEF w
  <2>6. Breaches(w) = 0 \/ Breaches(w) + e.recovery <= Len(w)
    BY <2>1, <2>3, <2>4, BehindBreaches DEF w
  <2>7. Breaches(w) \in Nat /\ Len(w) \in Nat
    BY <2>1, BreachesType DEF w
  <2>8. Breaches(w) >= config.trigger /\ Len(w) <= config.window
    BY <2>1 DEF w
  <2> QED
    BY <2>4, <2>5, <2>6, <2>7, <2>8
<1>2. Selective /\ WindowInv /\ RuleInv /\ WindowInv' /\ [Next]_vars =>
        [\A k \in Keys : Alerted(k) => breached'[k]]_vars
  BY <1>1
<1>3. ASSUME Selective PROVE Spec => AlertsAreFresh
  <2>1. WindowInv /\ RuleInv /\ WindowInv' /\ [Next]_vars =>
          [\A k \in Keys : Alerted(k) => breached'[k]]_vars
    BY <1>2, <1>3
  <2> QED
    BY <2>1, RulesHold, WindowHolds, PTL DEF Spec, AlertsAreFresh
<1> QED
  BY <1>3
=============================================================================
