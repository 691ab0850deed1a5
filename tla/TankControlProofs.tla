------------------------- MODULE TankControlProofs -------------------------
(***************************************************************************)
(* Proofs about TankControl for every tank, calibration and set of         *)
(* thresholds, a calibration without a range included.                     *)
(***************************************************************************)
EXTENDS TankControl, SequenceTheorems, TLAPS

-----------------------------------------------------------------------------
(* The arithmetic of the sensor                                            *)

\* The filter stays between the two voltages it mixes.
LEMMA FilterRange ==
    ASSUME NEW v \in 0 .. Cap, NEW average \in 0 .. Cap
    PROVE  Filter(v, average) \in 0 .. Cap
  BY TankAssumption DEF TankAssumption, Filter

\* The level is a percentage, or not a number when the calibration has no range.
LEMMA LevelRange ==
    ASSUME NEW v \in Int
    PROVE  /\ getLevel(v) \in 0 .. 100 \cup {NaN}
           /\ maxV # minV => getLevel(v) \in 0 .. 100
  <1>1. CASE maxV = minV
    BY <1>1 DEF getLevel
  <1>2. CASE maxV # minV
    <2>1. 2 * (maxV - minV) \in Int /\ 2 * (maxV - minV) > 0
      BY <1>2, TankAssumption DEF TankAssumption
    <2>2. 200 * (v - minV) + (maxV - minV) \in Int
      BY TankAssumption DEF TankAssumption
    <2> DEFINE p == (200 * (v - minV) + (maxV - minV)) \div (2 * (maxV - minV))
    <2>3. p \in Int
      BY <2>1, <2>2
    <2> HIDE DEF p
    <2>4. Clamp(p) \in 0 .. 100
      BY <2>3 DEF Clamp
    <2> QED BY <1>2, <2>4 DEF getLevel, p
  <1> QED BY <1>1, <1>2

LEMMA VolumeRange ==
    ASSUME NEW v \in Int
    PROVE  getVolume(v) \in 0 .. tankVolume \cup {NaN}
  <1>1. CASE getLevel(v) = NaN
    BY <1>1 DEF getVolume
  <1>2. CASE getLevel(v) # NaN
    <2>1. getLevel(v) \in 0 .. 100
      BY <1>2, LevelRange
    <2>2. ASSUME NEW l \in 0 .. 100, NEW n \in Nat
          PROVE  (n * l) \div 100 \in 0 .. n
      <3>1. n * l \in 0 .. 100 * n
        BY <2>2
      <3> DEFINE k == n * l
      <3>2. k \in 0 .. 100 * n
        BY <3>1
      <3> HIDE DEF k
      <3>3. k \div 100 \in 0 .. n
        BY <3>2
      <3> QED BY <3>3 DEF k
    <2>3. tankVolume \in Nat
      BY TankAssumption DEF TankAssumption
    <2> QED BY <1>2, <2>1, <2>2, <2>3 DEF getVolume
  <1> QED BY <1>1, <1>2

-----------------------------------------------------------------------------
(* Types                                                                   *)

Task == [lo : 0 .. Cap, hi : 0 .. Cap]

\* What starting, ending and the water do to the tasks under way.
LEMMA TasksStarted ==
    ASSUME NEW s \in Seq(Task), NEW t \in Task
    PROVE  /\ Append(s, t) \in Seq(Task) /\ Len(Append(s, t)) = Len(s) + 1
           /\ \A i \in 1 .. Len(s) : Append(s, t)[i] = s[i]
           /\ Append(s, t)[Len(s) + 1] = t
  OBVIOUS

LEMMA TasksEnded ==
    ASSUME NEW s \in Seq(Task), s # <<>>
    PROVE  /\ Tail(s) \in Seq(Task) /\ Len(Tail(s)) = Len(s) - 1 /\ Len(s) \in Nat \ {0}
           /\ \A i \in 1 .. Len(s) - 1 : Tail(s)[i] = s[i + 1]
           /\ s[1] \in Task
  OBVIOUS

LEMMA TasksWidened ==
    ASSUME NEW s \in Seq(Task), NEW w \in 0 .. Cap,
           NEW r, r = [i \in DOMAIN s |-> Widen(s[i], w)]
    PROVE  /\ r \in Seq(Task) /\ Len(r) = Len(s)
           /\ \A i \in 1 .. Len(s) : r[i].lo = w \/ r[i].lo = s[i].lo
  <1>1. Len(s) \in Nat /\ DOMAIN s = 1 .. Len(s) /\ \A i \in 1 .. Len(s) : s[i] \in Task
    OBVIOUS
  <1>2. ASSUME NEW t \in Task
        PROVE  Widen(t, w) \in Task /\ (Widen(t, w).lo = w \/ Widen(t, w).lo = t.lo)
    BY DEF Widen, Task
  <1>3. r \in [1 .. Len(s) -> Task]
    BY <1>1, <1>2
  <1>4. r \in Seq(Task) /\ Len(r) = Len(s)
    BY <1>1, <1>3
  <1> QED BY <1>1, <1>2, <1>4

LEMMA TypeInit == Init => TypeOK
  <1> SUFFICES ASSUME Init PROVE TypeOK
    OBVIOUS
  <1>1. fillM \in BOOLEAN /\ pumpM \in BOOLEAN
    BY Zenon DEF Init
  <1>2. tasks \in Seq([lo : 0 .. Cap, hi : 0 .. Cap]) /\ Len(tasks) <= 2
    BY DEF Init
  <1>3. since \in [Handlers -> 0 .. Period]
    BY DEF Init
  <1> QED BY <1>1, <1>2, <1>3, TankAssumption DEF TankAssumption, Init, TypeOK

\* A handler that runs keeps the time.
LEMMA SinceReset ==
    ASSUME TypeOK, NEW h \in Handlers, IntervalPassed(h)
    PROVE  /\ since' \in [Handlers -> 0 .. Period] /\ since'[h] = 0
           /\ \A g \in Handlers \ {h} : since'[g] = since[g]
  <1>1. since \in [Handlers -> 0 .. Period] /\ since' = [since EXCEPT ![h] = 0]
    BY DEF TypeOK, IntervalPassed
  <1>2. 0 \in 0 .. Period
    BY TankAssumption DEF TankAssumption, Period
  <1> QED BY <1>1, <1>2, Zenon

\* A tick leaves water in the tank, by at most what the relays let through.
LEMMA WaterMoves ==
    ASSUME TypeOK, Flow
    PROVE  /\ water' \in 0 .. Cap /\ water' <= water + Rate
           /\ ~fillM => water' <= water
  <1>1. water \in 0 .. Cap /\ Cap \in Nat /\ Rate \in Nat
    BY TankAssumption DEF TankAssumption, TypeOK
  <1>2. PICK in \in 0 .. (IF fillM THEN Rate ELSE 0),
             out \in 0 .. (IF pumpM \/ mode = 2 THEN Rate ELSE 0) :
                water' = InTank(water + in - out)
    BY DEF Flow
  <1>3. in \in 0 .. Rate /\ out \in 0 .. Rate /\ (~fillM => in = 0)
    BY <1>1, <1>2
  <1> QED BY <1>1, <1>2, <1>3 DEF InTank

LEMMA TypeNext == TypeOK /\ [Next]_vars => TypeOK'
  <1> SUFFICES ASSUME TypeOK, [Next]_vars PROVE TypeOK'
    OBVIOUS
  <1> USE DEF TypeOK, sensor, scan, auto
  <1>0. /\ latestVoltage \in Int /\ MaxFails \in Nat /\ Cap \in Nat
        /\ Period \in Nat /\ tasks \in Seq(Task)
    BY TankAssumption DEF TankAssumption, Period, Task
  <1>1. CASE StartAdc
    <2>1. since' \in [Handlers -> 0 .. Period]
      BY <1>1, SinceReset DEF StartAdc, Handlers
    <2>2. tasks' \in Seq(Task) /\ Len(tasks') <= 2
      <3>1. [lo |-> water, hi |-> water] \in Task
        BY DEF Task
      <3> QED BY <1>0, <1>1, <3>1, TasksStarted DEF StartAdc
    <2>3. fails' \in 0 .. MaxFails
      BY <1>0, <1>1 DEF StartAdc
    <2> QED BY <1>1, <2>1, <2>2, <2>3 DEF StartAdc, Task
  <1>2. CASE ScanLevel
    BY <1>0, <1>2, LevelRange DEF ScanLevel, Goto, Cache
  <1>3. CASE ScanVolume
    BY <1>0, <1>3, VolumeRange DEF ScanVolume, Goto, Cache
  <1>4. CASE handleDisplay
    BY <1>4 DEF handleDisplay, updateDisplay
  <1>5. CASE Automate
    <2>1. fillM' \in BOOLEAN
      BY <1>5 DEF Automate, handleFill
    <2>2. pumpM' \in BOOLEAN
      BY <1>5 DEF Automate, handlePump
    <2>3. since' \in [Handlers -> 0 .. Period]
      BY <1>5, SinceReset DEF Automate, Handlers
    <2> QED BY <1>5, <2>1, <2>2, <2>3 DEF Automate
  <1>6. CASE Flow
    <2>1. water' \in 0 .. Cap
      BY <1>6, WaterMoves
    <2>2. tasks' \in Seq(Task) /\ Len(tasks') <= 2
      BY <1>0, <1>6, <2>1, TasksWidened DEF Flow
    <2>3. since' \in [Handlers -> 0 .. Period]
      BY <1>0, <1>6 DEF Flow
    <2> QED BY <1>6, <2>1, <2>2, <2>3 DEF Flow, Task
  <1>7. CASE AdcDone
    <2>1. PICK average \in tasks[1].lo .. tasks[1].hi :
             latestVoltage' = Filter(latestVoltage, average)
      BY <1>7 DEF AdcDone
    <2>2. tasks' \in Seq(Task) /\ Len(tasks') <= 2 /\ tasks[1] \in Task
      BY <1>0, <1>7, TasksEnded DEF AdcDone
    <2>3. average \in 0 .. Cap
      BY <1>0, <2>1, <2>2 DEF Task
    <2>4. latestVoltage' \in 0 .. Cap
      BY <2>1, <2>3, FilterRange
    <2> QED BY <1>7, <2>2, <2>4 DEF AdcDone, Task
  <1>8. CASE UNCHANGED vars
    BY <1>8 DEF vars
  <1> QED BY <1>1, <1>2, <1>3, <1>4, <1>5, <1>6, <1>7, <1>8 DEF Next, Loop

\* For every calibration, interval and length of a pass the cached level is a
\* percentage or not a number, the volume at most the tank's, and at most two ADC
\* tasks run at once (getLevel, getVolume, scanSensors).
THEOREM TypeCorrect == Spec => []TypeOK
  BY TypeInit, TypeNext, PTL DEF Spec
-----------------------------------------------------------------------------
(* Monotonicity of the sensor                                              *)

\* Products with the symbolic Rate and the symbolic range of the calibration.
LEMMA MulSucc == \A a \in Int, r \in Nat : (a + 1) * r = a * r + r
  OBVIOUS

LEMMA MulMono ==
    ASSUME NEW a \in Int, NEW b \in Int, NEW r \in Nat, a <= b
    PROVE  a * r <= b * r
  <1>1. (b - a) * r >= 0
    <2>1. b - a \in Nat
      OBVIOUS
    <2>2. \A x, y \in Nat : x * y >= 0
      OBVIOUS
    <2> QED BY <2>1, <2>2
  <1>2. (b - a) * r = b * r - a * r
    OBVIOUS
  <1> QED BY <1>1, <1>2

LEMMA DivBounds ==
    ASSUME NEW a \in Int, NEW d \in Nat \ {0}
    PROVE  /\ a \div d \in Int
           /\ (a \div d) * d <= a /\ a < (a \div d) * d + d
  OBVIOUS

LEMMA DivMono ==
    ASSUME NEW a \in Int, NEW b \in Int, NEW d \in Nat \ {0}, a <= b
    PROVE  a \div d <= b \div d
  <1> DEFINE p == a \div d
             q == b \div d
  <1>1. /\ p \in Int /\ p * d <= a
        /\ q \in Int /\ b < q * d + d
    BY DivBounds
  <1> HIDE DEF p, q
  <1>2. SUFFICES ASSUME p > q PROVE FALSE
    BY <1>1 DEF p, q
  <1>3. (q + 1) * d <= p * d
    BY <1>1, <1>2, MulMono
  <1>4. (q + 1) * d = q * d + d
    BY <1>1, MulSucc
  <1>5. p * d \in Int /\ q * d \in Int
    BY <1>1
  <1> QED BY <1>1, <1>3, <1>4, <1>5

\* A higher voltage and a higher reading give no lower voltage.
LEMMA FilterMono ==
    ASSUME NEW v \in Int, NEW w \in Int, NEW a \in Int, NEW b \in Int, v <= w, a <= b
    PROVE  Filter(v, a) <= Filter(w, b) /\ Filter(v, a) \in Int
  BY DEF Filter

\* A voltage above one that is seen as full is seen as full.
LEMMA FullAbove ==
    ASSUME NEW v \in Int, NEW w \in Int, v <= w, getLevel(v) >= maxL
    PROVE  getLevel(w) >= maxL
  <1>0. /\ maxV \in Nat /\ minV \in Nat /\ minV <= maxV
        /\ maxL \in 0 .. 100 /\ maxL > 0
    BY TankAssumption DEF TankAssumption
  <1>1. CASE maxV = minV
    BY <1>0, <1>1 DEF getLevel, NaN
  <1>2. CASE maxV # minV
    <2> DEFINE D == maxV - minV
               a == 200 * (v - minV) + D
               b == 200 * (w - minV) + D
    <2>1. 2 * D \in Nat \ {0} /\ a \in Int /\ b \in Int /\ a <= b
      BY <1>0, <1>2
    <2>2. getLevel(v) = Clamp(a \div (2 * D)) /\ getLevel(w) = Clamp(b \div (2 * D))
      BY <1>2 DEF getLevel
    <2> HIDE DEF D, a, b
    <2>3. a \div (2 * D) <= b \div (2 * D)
      BY <2>1, DivMono
    <2>4. a \div (2 * D) \in Int /\ b \div (2 * D) \in Int
      BY <2>1, DivBounds
    <2> QED BY <1>0, <2>2, <2>3, <2>4 DEF Clamp
  <1> QED BY <1>1, <1>2

\* Water that is not seen as more than max is at Brim at most, and Brim is less
\* than one percent above max.
LEMMA BrimBounds ==
    ASSUME maxL < 100
    PROVE  /\ Brim \in Int
           /\ 100 * (Brim - minV) <= (maxL + 1) * (maxV - minV)
           /\ \A w \in Int : getLevel(w) <= maxL => w <= Brim
  <1> DEFINE D == maxV - minV
             k == (2 * maxL + 1) * D
             m == (maxL + 1) * D
  <1>0. /\ maxV \in Nat /\ minV \in Nat /\ D \in Nat /\ maxL \in 0 .. 100
    BY TankAssumption DEF TankAssumption
  <1>1. k \in Int /\ m \in Int /\ k = 2 * m - D
    BY <1>0
  <1>2. Brim = minV + k \div 200
    BY DEF Brim
  <1>3. ASSUME NEW w \in Int, getLevel(w) <= maxL
        PROVE  200 * (w - minV) < k \/ (D = 0 /\ w <= minV)
    <2>1. CASE maxV = minV
      BY <1>0, <1>3, <2>1 DEF getLevel
    <2>2. CASE maxV # minV
      <3> DEFINE a == 200 * (w - minV) + D
                 q == a \div (2 * D)
      <3>1. 2 * D \in Nat \ {0} /\ a \in Int
        BY <1>0, <2>2
      <3>2. getLevel(w) = Clamp(q)
        BY <2>2 DEF getLevel
      <3>3. q \in Int /\ a < q * (2 * D) + 2 * D
        <4> HIDE DEF D, a
        <4> QED BY <3>1, DivBounds
      <3> HIDE DEF q
      <3>4. q <= maxL
        BY <1>0, <1>3, <3>2, <3>3 DEF Clamp
      <3>5. q * (2 * D) <= maxL * (2 * D)
        <4> HIDE DEF D
        <4> QED BY <1>0, <3>1, <3>3, <3>4, MulMono
      <3>6. maxL * (2 * D) + 2 * D = 2 * m
        BY <1>0
      <3>7. q * (2 * D) \in Int /\ maxL * (2 * D) \in Int
        BY <1>0, <3>3
      <3>8. a < 2 * m
        <4> HIDE DEF a, m, D
        <4> QED BY <1>0, <1>1, <3>1, <3>3, <3>5, <3>6, <3>7
      <3> HIDE DEF m, k
      <3> QED BY <1>0, <1>1, <3>8
    <2> QED BY <2>1, <2>2
  <1> HIDE DEF k, m
  <1>4. D = 0 => k = 0
    BY <1>0 DEF k
  <1>5. ASSUME NEW w \in Int, getLevel(w) <= maxL PROVE w <= Brim
    <2> HIDE DEF D
    <2> QED BY <1>0, <1>1, <1>2, <1>3, <1>4, <1>5
  <1>6. Brim \in Int /\ 100 * (Brim - minV) <= m
    BY <1>0, <1>1, <1>2
  <1> QED BY <1>5, <1>6 DEF m

-----------------------------------------------------------------------------
(* The tank is not overfilled                                              *)

\* The most that has come in since the last scan, and since the automation acted.
SinceScan == since["scan"] * Rate
SinceAuto == since["auto"] * Rate

\* Readings owed: every scan starts a task that ends late or was not started.
Owed == Len(tasks) + fails

\* A task under way has seen no water lower than the present one by more than what
\* has come in since it was started: a period for every later scan, and the ticks
\* since the last one.
SampleInv ==
    \A i \in 1 .. Len(tasks) : water <= tasks[i].lo + InPeriods(Owed - i) + SinceScan

\* While the filter is below Slowest[n + 1] the water is at most n periods above
\* Brim, and one more for each reading owed.
RiseInv ==
    \A n \in 0 .. Lag - 4 :
        latestVoltage < Slowest[n + 1] => water <= Brim + InPeriods(n + Owed) + SinceScan

\* Where a cached level below max lets the automation fill, and where it does.
FillInv ==
    /\ at # "level" /\ level # NaN /\ level < maxL
          => water <= Brim + InPeriods((Lag - 2) + fails) + SinceScan
    /\ fillM => water <= Brim + InPeriods((Lag - 1) + fails) + SinceAuto

InRange == water <= Brim + InPeriods(Lag + fails)

OverfillInv == SampleInv /\ RiseInv /\ FillInv /\ InRange

\* The constants of this section, with what LagAssumption says of them.
LEMMA LagFacts ==
    /\ Lag \in Nat /\ Lag >= 4 /\ Rate \in Nat /\ minV \in Nat /\ maxV \in Nat
    /\ Period \in Nat /\ Brim \in Int /\ maxL \in Nat /\ maxL < 100
    /\ Slowest[0] = 0 /\ (\A n \in 0 .. Lag - 3 : Slowest[n] \in Int)
    /\ \A n \in 1 .. Lag - 3 :
          Slowest[n] = Filter(Slowest[n - 1], Brim + InPeriods(n - 1) + 1)
    /\ getLevel(Slowest[Lag - 3]) >= maxL
  BY TankAssumption, LagAssumption, BrimBounds DEF TankAssumption, LagCovers, Period

\* Periods and ticks, so that no product is left in the proofs below.
LEMMA PeriodFacts ==
    /\ \A k \in Int : InPeriods(k) \in Int
    /\ \A j, k \in Int : j <= k => InPeriods(j) <= InPeriods(k)
    /\ \A j, k \in Int : InPeriods(j + k) = InPeriods(j) + InPeriods(k)
    /\ InPeriods(0) = 0
  <1> DEFINE R == Period * Rate
  <1>1. R \in Nat
    BY LagFacts
  <1>2. \A k \in Int : InPeriods(k) = k * R
    BY DEF InPeriods
  <1> HIDE DEF R
  <1>3. \A k \in Int : InPeriods(k) \in Int
    BY <1>1, <1>2
  <1>4. \A j, k \in Int : j <= k => InPeriods(j) <= InPeriods(k)
    BY <1>1, <1>2, MulMono
  <1>5. \A j, k \in Int : (j + k) * R = j * R + k * R
    BY <1>1
  <1>6. \A j, k \in Int : InPeriods(j + k) = InPeriods(j) + InPeriods(k)
    BY <1>2, <1>5
  <1> QED BY <1>1, <1>2, <1>3, <1>4, <1>6

\* The types this section uses.
LEMMA LagTypes == Lag \in Nat /\ Lag >= 4 /\ Rate \in Nat /\ Brim \in Int
  BY LagFacts

LEMMA OverfillTypes ==
    ASSUME TypeOK
    PROVE  water \in Nat /\ latestVoltage \in Nat /\ fails \in Nat
  BY TankAssumption DEF TankAssumption, TypeOK

LEMMA TaskTypes ==
    ASSUME TypeOK
    PROVE  /\ tasks \in Seq(Task) /\ Len(tasks) \in Nat /\ Len(tasks) <= 2
           /\ \A i \in 1 .. Len(tasks) : tasks[i] \in Task /\ tasks[i].lo \in Nat
  <1>1. tasks \in Seq(Task) /\ Len(tasks) \in Nat /\ Len(tasks) <= 2
    BY DEF TypeOK, Task
  <1>2. \A i \in 1 .. Len(tasks) : tasks[i] \in Task
    BY <1>1
  <1>3. \A t \in Task : t.lo \in Nat
    BY TankAssumption DEF TankAssumption, Task
  <1> QED BY <1>1, <1>2, <1>3, Zenon

LEMMA OwedTypes ==
    ASSUME TypeOK
    PROVE  Owed \in Nat /\ Owed <= 2 + fails /\ Len(tasks) <= Owed
  <1>1. Len(tasks) \in Nat /\ Len(tasks) <= 2 /\ fails \in Nat
    BY OverfillTypes, TaskTypes
  <1> QED BY <1>1 DEF Owed

\* Ticks are counted up to a period.
LEMMA TickFacts ==
    ASSUME NEW s \in 0 .. Period
    PROVE  /\ s * Rate \in Nat /\ s * Rate <= InPeriods(1)
           /\ (s + 1) * Rate = s * Rate + Rate
  <1>1. s \in Nat /\ Rate \in Nat /\ Period \in Nat
    BY LagFacts
  <1>2. s * Rate \in Nat /\ s * Rate <= Period * Rate
    BY <1>1, MulMono
  <1>3. InPeriods(1) = Period * Rate
    BY <1>1 DEF InPeriods
  <1>4. (s + 1) * Rate = s * Rate + Rate
    BY <1>1, MulSucc
  <1> QED BY <1>2, <1>3, <1>4

LEMMA SinceTypes ==
    ASSUME TypeOK
    PROVE  /\ SinceScan \in Nat /\ SinceScan <= InPeriods(1)
           /\ SinceAuto \in Nat /\ SinceAuto <= InPeriods(1)
  <1>1. since["scan"] \in 0 .. Period /\ since["auto"] \in 0 .. Period
    BY DEF TypeOK, Handlers
  <1> QED BY <1>1, TickFacts DEF SinceScan, SinceAuto

LEMMA SinceTypesNext ==
    ASSUME TypeOK'
    PROVE  SinceAuto' <= InPeriods(1)
  <1>1. since["auto"]' \in 0 .. Period
    BY DEF TypeOK, Handlers
  <1> QED BY <1>1, TickFacts DEF SinceAuto

LEMMA SinceRun ==
    ASSUME TypeOK
    PROVE  /\ IntervalPassed("scan") => SinceScan' = 0 /\ SinceAuto' = SinceAuto
           /\ IntervalPassed("auto") => SinceAuto' = 0 /\ SinceScan' = SinceScan
  <1>1. 0 * Rate = 0
    BY LagFacts
  <1>2. ASSUME IntervalPassed("scan") PROVE since'["scan"] = 0 /\ since'["auto"] = since["auto"]
    BY <1>2, SinceReset DEF Handlers
  <1>3. ASSUME IntervalPassed("auto") PROVE since'["auto"] = 0 /\ since'["scan"] = since["scan"]
    BY <1>3, SinceReset DEF Handlers
  <1> QED BY <1>1, <1>2, <1>3 DEF SinceScan, SinceAuto

LEMMA SinceFlow ==
    ASSUME TypeOK, Flow
    PROVE  SinceScan' = SinceScan + Rate /\ SinceAuto' = SinceAuto + Rate
  <1>1. since["scan"] \in 0 .. Period /\ since["auto"] \in 0 .. Period
    BY DEF TypeOK, Handlers
  <1>2. since'["scan"] = since["scan"] + 1 /\ since'["auto"] = since["auto"] + 1
    BY DEF Flow, Handlers
  <1> QED BY <1>1, <1>2, TickFacts DEF SinceScan, SinceAuto

LEMMA OverfillInit == Init => OverfillInv
  <1> SUFFICES ASSUME Init PROVE OverfillInv
    OBVIOUS
  <1>1. water <= Brim /\ water \in Nat
    BY LagFacts, BrimBounds, TankAssumption DEF Init, TankAssumption
  <1>2. Len(tasks) = 0 /\ fails = 0 /\ Owed = 0 /\ ~fillM
    BY DEF Init, Owed
  <1>3. SinceScan \in Nat
    BY TypeInit, SinceTypes
  <1>4. \A k \in Nat : InPeriods(k) \in Int /\ InPeriods(k) >= 0
    BY PeriodFacts
  <1>5. SampleInv
    BY <1>2 DEF SampleInv
  <1>6. RiseInv
    BY <1>1, <1>2, <1>3, <1>4, LagFacts DEF RiseInv
  <1>7. FillInv /\ InRange
    <2>1. (Lag - 2) + fails \in Nat /\ Lag + fails \in Nat
      BY <1>2, LagTypes
    <2>2. InPeriods((Lag - 2) + fails) \in Nat /\ InPeriods(Lag + fails) \in Nat
      BY <1>4, <2>1
    <2> QED BY <1>1, <1>2, <1>3, <2>2, LagFacts DEF FillInv, InRange
  <1> QED BY <1>5, <1>6, <1>7 DEF OverfillInv

\* A scan: a period at most since the last one, and one more reading owed.
LEMMA OverfillStart ==
    ASSUME TypeOK, OverfillInv, StartAdc PROVE OverfillInv'
  <1>0. /\ UNCHANGED <<water, latestVoltage, level, fillM>> /\ SinceScan' = 0
        /\ SinceAuto' = SinceAuto /\ at' = "level"
    BY SinceRun DEF StartAdc, scan, auto
  <1>1. fails' \in Nat /\ fails <= fails' /\ Owed' = Owed + 1
    <2>1. [lo |-> water, hi |-> water] \in Task
      BY DEF TypeOK, Task
    <2> QED BY <2>1, OverfillTypes, TaskTypes, TasksStarted DEF StartAdc, Owed
  <1>2. ASSUME NEW k \in Int
        PROVE  /\ InPeriods(k) \in Int /\ InPeriods(k + 1) \in Int
               /\ InPeriods(k) + SinceScan <= InPeriods(k + 1)
    <2>1. InPeriods(k) \in Int /\ InPeriods(1) \in Int
      BY PeriodFacts
    <2>2. InPeriods(k + 1) = InPeriods(k) + InPeriods(1)
      BY PeriodFacts
    <2> QED BY <2>1, <2>2, SinceTypes
  <1>3. SampleInv'
    <2>1. ASSUME NEW i \in 1 .. Len(tasks), tasks'[i] = tasks[i]
          PROVE  water' <= tasks'[i].lo + InPeriods(Owed' - i) + SinceScan'
      <3>1. water <= tasks[i].lo + InPeriods(Owed - i) + SinceScan
        BY DEF OverfillInv, SampleInv
      <3>2. Owed - i \in Int /\ Owed' - i = (Owed - i) + 1
        BY <1>1, TaskTypes, OwedTypes
      <3>3. /\ InPeriods(Owed - i) \in Int /\ InPeriods(Owed' - i) \in Int
            /\ InPeriods(Owed - i) + SinceScan <= InPeriods(Owed' - i)
        BY <1>2, <3>2
      <3>4. tasks[i].lo \in Nat
        BY TaskTypes
      <3> QED BY <1>0, <2>1, <3>1, <3>3, <3>4, OverfillTypes, SinceTypes
    <2>2. CASE UNCHANGED tasks
      <3>1. \A i \in 1 .. Len(tasks') : i \in 1 .. Len(tasks) /\ tasks'[i] = tasks[i]
        BY <2>2
      <3> QED BY <2>1, <3>1 DEF SampleInv
    <2>3. CASE tasks' = Append(tasks, [lo |-> water, hi |-> water])
      <3> DEFINE t == [lo |-> water, hi |-> water]
      <3>1. t \in Task /\ t.lo = water
        BY DEF TypeOK, Task
      <3> HIDE DEF t
      <3>2. /\ Len(tasks') = Len(tasks) + 1 /\ tasks'[Len(tasks) + 1] = t
            /\ \A i \in 1 .. Len(tasks) : tasks'[i] = tasks[i]
        BY <2>3, <3>1, TaskTypes, TasksStarted DEF t
      <3>3. ASSUME NEW i, i = Len(tasks) + 1
            PROVE  water' <= tasks'[i].lo + InPeriods(Owed' - i) + SinceScan'
        <4>1. Owed' - i \in Nat
          BY <1>1, <3>3, TaskTypes, OwedTypes
        <4>2. InPeriods(Owed' - i) \in Nat
          BY <4>1, PeriodFacts
        <4>3. tasks'[i].lo = water
          BY <3>1, <3>2, <3>3
        <4> QED BY <1>0, <4>2, <4>3, OverfillTypes
      <3>4. \A i \in 1 .. Len(tasks') : i \in 1 .. Len(tasks) \/ i = Len(tasks) + 1
        BY <3>2, TaskTypes
      <3> QED BY <2>1, <3>2, <3>3, <3>4 DEF SampleInv
    <2> QED BY <2>2, <2>3 DEF StartAdc
  <1>4. RiseInv'
    <2> SUFFICES ASSUME NEW n \in 0 .. Lag - 4, latestVoltage' < Slowest[n + 1]
                 PROVE  water' <= Brim + InPeriods(n + Owed') + SinceScan'
      BY DEF RiseInv
    <2>1. water <= Brim + InPeriods(n + Owed) + SinceScan
      BY <1>0 DEF OverfillInv, RiseInv
    <2>2. n + Owed \in Int /\ n + Owed' = (n + Owed) + 1
      BY <1>1, OwedTypes
    <2>3. /\ InPeriods(n + Owed) \in Int /\ InPeriods(n + Owed') \in Int
          /\ InPeriods(n + Owed) + SinceScan <= InPeriods(n + Owed')
      BY <1>2, <2>2
    <2> QED BY <1>0, <2>1, <2>3, OverfillTypes, SinceTypes, LagTypes
  <1>5. ASSUME NEW k \in Int
        PROVE  /\ InPeriods(k + fails) <= InPeriods(k + fails')
               /\ InPeriods(k + fails) \in Int /\ InPeriods(k + fails') \in Int
    <2>1. fails \in Int /\ fails' \in Int /\ fails <= fails'
      BY <1>1, OverfillTypes
    <2>2. k + fails \in Int /\ k + fails' \in Int /\ k + fails <= k + fails'
      <3>1. \A x, y \in Int : x <= y => k + x \in Int /\ k + y \in Int /\ k + x <= k + y
        OBVIOUS
      <3> QED BY <2>1, <3>1, Zenon
    <2> QED BY <2>2, PeriodFacts
  <1>6. FillInv'
    <2>1. ASSUME fillM'
          PROVE  water' <= Brim + InPeriods((Lag - 1) + fails') + SinceAuto'
      <3>1. water <= Brim + InPeriods((Lag - 1) + fails) + SinceAuto
        BY <1>0, <2>1 DEF OverfillInv, FillInv
      <3>2. /\ InPeriods((Lag - 1) + fails) <= InPeriods((Lag - 1) + fails')
            /\ InPeriods((Lag - 1) + fails) \in Int /\ InPeriods((Lag - 1) + fails') \in Int
        BY <1>5, LagTypes
      <3> QED BY <1>0, <3>1, <3>2, OverfillTypes, SinceTypes, LagTypes
    <2> QED BY <1>0, <2>1 DEF FillInv
  <1>7. InRange'
    <2>1. /\ InPeriods(Lag + fails) <= InPeriods(Lag + fails')
          /\ InPeriods(Lag + fails) \in Int /\ InPeriods(Lag + fails') \in Int
      BY <1>5, LagTypes
    <2> QED BY <1>0, <2>1, OverfillTypes, LagFacts DEF OverfillInv, InRange
  <1> QED BY <1>3, <1>4, <1>6, <1>7 DEF OverfillInv

\* A tick: the water rises by Rate at most, and so do all the bounds.
LEMMA OverfillFlow ==
    ASSUME TypeOK, OverfillInv, Flow PROVE OverfillInv'
  <1>0. /\ UNCHANGED <<latestVoltage, level, fillM, fails, at>>
        /\ SinceScan' = SinceScan + Rate /\ SinceAuto' = SinceAuto + Rate
    BY SinceFlow DEF Flow, scan, auto
  <1>1. /\ water' \in Nat /\ water' \in 0 .. Cap /\ water' <= water + Rate
        /\ ~fillM => water' <= water
    BY WaterMoves, TankAssumption DEF TankAssumption
  <1>2. /\ Len(tasks') = Len(tasks) /\ Owed' = Owed
        /\ \A i \in 1 .. Len(tasks) : tasks'[i].lo = water' \/ tasks'[i].lo = tasks[i].lo
    BY <1>0, <1>1, TaskTypes, TasksWidened DEF Flow, Owed
  <1>3. Rate \in Nat /\ Brim \in Int /\ Lag \in Nat
    BY LagTypes
  <1>4. ASSUME NEW k \in Int PROVE InPeriods(k) \in Int
    BY PeriodFacts
  <1>a. /\ water \in Int /\ water' \in Int /\ Rate \in Int /\ water' <= water + Rate
        /\ SinceScan \in Int /\ SinceScan' = SinceScan + Rate
        /\ SinceAuto \in Int /\ SinceAuto' = SinceAuto + Rate
    BY <1>0, <1>1, <1>3, SinceTypes, OverfillTypes
  <1>5. SampleInv'
    <2> SUFFICES ASSUME NEW i \in 1 .. Len(tasks)
                 PROVE  water' <= tasks'[i].lo + InPeriods(Owed - i) + SinceScan'
      BY <1>2 DEF SampleInv
    <2>1. water <= tasks[i].lo + InPeriods(Owed - i) + SinceScan /\ tasks[i].lo \in Nat
      BY TaskTypes DEF OverfillInv, SampleInv
    <2>2. Owed - i \in Nat
      BY TaskTypes, OwedTypes
    <2>3. InPeriods(Owed - i) \in Nat
      BY <2>2, PeriodFacts
    <2>4. CASE tasks'[i].lo = water'
      BY <1>0, <1>1, <1>3, <2>3, <2>4, SinceTypes
    <2>5. CASE tasks'[i].lo = tasks[i].lo
      <3> DEFINE l == tasks[i].lo
      <3>1. l \in Nat /\ water <= l + InPeriods(Owed - i) + SinceScan /\ tasks'[i].lo = l
        BY <2>1, <2>5
      <3> HIDE DEF l
      <3>2. water' <= l + InPeriods(Owed - i) + SinceScan'
        BY ONLY <1>a, <2>3, <3>1
      <3> QED BY <3>1, <3>2
    <2> QED BY <1>2, <2>4, <2>5
  <1>6. RiseInv'
    <2> SUFFICES ASSUME NEW n \in 0 .. Lag - 4, latestVoltage' < Slowest[n + 1]
                 PROVE  water' <= Brim + InPeriods(n + Owed') + SinceScan'
      BY DEF RiseInv
    <2>1. water <= Brim + InPeriods(n + Owed) + SinceScan
      BY <1>0 DEF OverfillInv, RiseInv
    <2>2. InPeriods(n + Owed) \in Int
      BY <1>4, OwedTypes
    <2>3. water' <= Brim + InPeriods(n + Owed) + SinceScan'
      BY ONLY <1>a, <1>3, <2>1, <2>2
    <2> QED BY <1>2, <2>3
  <1>7. FillInv'
    <2>1. InPeriods((Lag - 2) + fails) \in Int /\ InPeriods((Lag - 1) + fails) \in Int
      BY <1>3, <1>4, OverfillTypes
    <2>2. ASSUME at # "level", level # NaN, level < maxL
          PROVE  water' <= Brim + InPeriods((Lag - 2) + fails) + SinceScan'
      <3>1. water <= Brim + InPeriods((Lag - 2) + fails) + SinceScan
        BY <2>2 DEF OverfillInv, FillInv
      <3> QED BY ONLY <1>a, <1>3, <2>1, <3>1
    <2>3. ASSUME fillM
          PROVE  water' <= Brim + InPeriods((Lag - 1) + fails) + SinceAuto'
      <3>1. water <= Brim + InPeriods((Lag - 1) + fails) + SinceAuto
        BY <2>3 DEF OverfillInv, FillInv
      <3> QED BY ONLY <1>a, <1>3, <2>1, <3>1
    <2> QED BY <1>0, <2>2, <2>3 DEF FillInv
  <1>8. InRange'
    <2>1. InPeriods(Lag + fails) \in Int /\ InPeriods((Lag - 1) + fails) \in Int
      BY <1>3, <1>4, OverfillTypes
    <2>2. CASE ~fillM
      BY <1>0, <1>1, <1>3, <2>1, <2>2, OverfillTypes DEF OverfillInv, InRange
    <2>3. CASE fillM
      <3>1. water <= Brim + InPeriods((Lag - 1) + fails) + SinceAuto
        BY <2>3 DEF OverfillInv, FillInv
      <3>2. SinceAuto' <= InPeriods(1) /\ InPeriods(1) \in Int
        BY TypeNext, SinceTypesNext, PeriodFacts DEF Next, Loop
      <3>3. InPeriods(Lag + fails) = InPeriods((Lag - 1) + fails) + InPeriods(1)
        <4>1. Lag + fails = ((Lag - 1) + fails) + 1 /\ (Lag - 1) + fails \in Int
          BY <1>3, OverfillTypes
        <4> QED BY <4>1, PeriodFacts
      <3> QED BY <1>0, <1>1, <1>3, <2>1, <3>1, <3>2, <3>3, SinceTypes, OverfillTypes DEF InRange
    <2> QED BY <2>2, <2>3
  <1> QED BY <1>5, <1>6, <1>7, <1>8 DEF OverfillInv

\* A reading that ends saw water at most as many periods below the present one as
\* readings are owed.  If the water is more than n periods above Brim, the filter is
\* at Slowest[n] or above, or n is 0; the reading lifts it to Slowest[n + 1].
LEMMA OverfillReading ==
    ASSUME TypeOK, OverfillInv, AdcDone PROVE OverfillInv'
  <1>0. UNCHANGED <<water, level, fillM, fails, at, since>>
    BY DEF AdcDone, scan, auto
  <1>1. /\ SinceScan' = SinceScan /\ SinceAuto' = SinceAuto
    BY <1>0 DEF SinceScan, SinceAuto
  <1>2. /\ Len(tasks) \in Nat \ {0} /\ Len(tasks') = Len(tasks) - 1 /\ Owed' = Owed - 1
        /\ (\A i \in 1 .. Len(tasks) - 1 : tasks'[i] = tasks[i + 1])
        /\ tasks[1] \in Task /\ Owed \in Nat
    BY <1>0, OverfillTypes, TaskTypes, OwedTypes, TasksEnded DEF AdcDone, Owed
  <1>3. PICK average \in tasks[1].lo .. tasks[1].hi :
           latestVoltage' = Filter(latestVoltage, average)
    BY DEF AdcDone
  <1>4. average \in Int /\ tasks[1].lo \in Nat /\ tasks[1].lo <= average
    BY <1>2, <1>3, TankAssumption DEF TankAssumption, Task
  <1>5. FillInv' /\ InRange'
    BY <1>0, <1>1 DEF OverfillInv, FillInv, InRange
  <1>6. SampleInv'
    <2> SUFFICES ASSUME NEW i \in 1 .. Len(tasks')
                 PROVE  water <= tasks'[i].lo + InPeriods(Owed' - i) + SinceScan
      BY <1>0, <1>1 DEF SampleInv
    <2>1. i + 1 \in 1 .. Len(tasks) /\ i \in 1 .. Len(tasks) - 1 /\ Owed' - i = Owed - (i + 1)
      BY <1>2
    <2>2. water <= tasks[i + 1].lo + InPeriods(Owed - (i + 1)) + SinceScan
      BY <2>1 DEF OverfillInv, SampleInv
    <2> QED BY <1>2, <2>1, <2>2
  <1>7. RiseInv'
    <2> SUFFICES ASSUME NEW n \in 0 .. Lag - 4, latestVoltage' < Slowest[n + 1],
                        ~(water <= Brim + InPeriods(n + Owed') + SinceScan)
                 PROVE  FALSE
      BY <1>0, <1>1 DEF RiseInv
    <2> DEFINE w == Brim + InPeriods(n) + 1
    <2>1. w \in Int /\ w <= average
      <3>1. water <= tasks[1].lo + InPeriods(Owed - 1) + SinceScan
        BY <1>2 DEF OverfillInv, SampleInv
      <3>2. n \in Int /\ Owed - 1 \in Int /\ n + Owed' = n + (Owed - 1)
        BY <1>2
      <3>3. /\ InPeriods(n) \in Int /\ InPeriods(Owed - 1) \in Int
            /\ InPeriods(n + Owed') = InPeriods(n) + InPeriods(Owed - 1)
        BY <3>2, PeriodFacts
      <3> QED BY <1>4, <3>1, <3>3, SinceTypes, OverfillTypes, LagTypes
    <2>2. Slowest[n] \in Int /\ Slowest[n] <= latestVoltage
      <3>1. CASE n = 0
        BY <3>1, OverfillTypes, LagFacts
      <3>2. CASE n # 0
        <4>1. n - 1 \in 0 .. Lag - 4 /\ (n - 1) + 1 = n /\ n \in 0 .. Lag - 3
          BY <3>2, LagTypes
        <4>2. (n - 1) + Owed = n + Owed'
          BY <1>2
        <4>3. ~(latestVoltage < Slowest[n])
          BY <4>1, <4>2 DEF OverfillInv, RiseInv
        <4>4. Slowest[n] \in Int
          BY <4>1, LagFacts
        <4> QED BY <4>3, <4>4, OverfillTypes
      <3> QED BY <3>1, <3>2
    <2>3. Slowest[n + 1] = Filter(Slowest[n], w)
      <3>1. n + 1 \in 1 .. Lag - 3 /\ (n + 1) - 1 = n
        BY LagTypes
      <3> QED BY <3>1, LagFacts
    <2> HIDE DEF w
    <2>4. latestVoltage \in Int
      BY OverfillTypes
    <2>5. Filter(Slowest[n], w) <= Filter(latestVoltage, average) /\ Filter(Slowest[n], w) \in Int
      BY ONLY <1>4, <2>1, <2>2, <2>4, FilterMono
    <2>6. Filter(latestVoltage, average) \in Int
      BY ONLY <1>4, <2>4, FilterMono
    <2> QED BY <1>3, <2>3, <2>5, <2>6
  <1> QED BY <1>5, <1>6, <1>7 DEF OverfillInv

\* A level below max comes from a voltage below Slowest[Lag - 3], and two readings are
\* owed at most, besides those that were never started.
LEMMA OverfillLevel ==
    ASSUME TypeOK, OverfillInv, ScanLevel PROVE OverfillInv'
  <1>0. /\ UNCHANGED <<water, latestVoltage, tasks, fails, fillM, since>>
        /\ level' = getLevel(latestVoltage)
    BY DEF ScanLevel, Cache, sensor, auto
  <1>1. SinceScan' = SinceScan /\ SinceAuto' = SinceAuto /\ Owed' = Owed
    BY <1>0 DEF SinceScan, SinceAuto, Owed
  <1>2. SampleInv' /\ RiseInv' /\ InRange'
    BY <1>0, <1>1 DEF OverfillInv, SampleInv, RiseInv, InRange
  <1>3. ASSUME getLevel(latestVoltage) < maxL
        PROVE  water <= Brim + InPeriods((Lag - 2) + fails) + SinceScan
    <2>1. latestVoltage \in Int
      BY OverfillTypes
    <2>2. Slowest[Lag - 3] \in Int /\ getLevel(Slowest[Lag - 3]) >= maxL
      BY LagFacts
    <2>3. latestVoltage < Slowest[Lag - 3]
      <3>1. getLevel(latestVoltage) \in Int
        BY <2>1, LevelRange DEF NaN
      <3>2. ~(getLevel(latestVoltage) >= maxL)
        BY <1>3, <3>1, LagFacts
      <3> QED BY <2>1, <2>2, <3>2, FullAbove
    <2>4. Lag - 4 \in 0 .. Lag - 4 /\ (Lag - 4) + 1 = Lag - 3
      BY LagTypes
    <2>5. water <= Brim + InPeriods((Lag - 4) + Owed) + SinceScan
      BY <2>3, <2>4 DEF OverfillInv, RiseInv
    <2>6. /\ (Lag - 4) + Owed \in Int /\ (Lag - 2) + fails \in Int
          /\ (Lag - 4) + Owed <= (Lag - 2) + fails
      BY OwedTypes, OverfillTypes, LagTypes
    <2>7. /\ InPeriods((Lag - 4) + Owed) <= InPeriods((Lag - 2) + fails)
          /\ InPeriods((Lag - 4) + Owed) \in Int /\ InPeriods((Lag - 2) + fails) \in Int
      BY <2>6, PeriodFacts
    <2> QED BY <2>5, <2>7, OverfillTypes, SinceTypes, LagTypes
  <1>4. FillInv'
    BY <1>0, <1>1, <1>3 DEF OverfillInv, FillInv
  <1> QED BY <1>2, <1>4 DEF OverfillInv

\* The automation fills if the level is below max, however old it is.
LEMMA OverfillAutomate ==
    ASSUME TypeOK, OverfillInv, Automate PROVE OverfillInv'
  <1>0. /\ UNCHANGED <<water, latestVoltage, tasks, fails, level, at>> /\ at = "loop"
        /\ fillM' => level # NaN /\ level < maxL
    BY DEF Automate, IntervalPassed, sensor, scan, handleFill
  <1>1. SinceScan' = SinceScan /\ SinceAuto' = 0 /\ Owed' = Owed
    BY <1>0, SinceRun DEF Automate, Owed
  <1>2. SampleInv' /\ RiseInv' /\ InRange'
    BY <1>0, <1>1 DEF OverfillInv, SampleInv, RiseInv, InRange
  <1>3. ASSUME level # NaN, level < maxL
        PROVE  water <= Brim + InPeriods((Lag - 1) + fails) + 0
    <2>1. water <= Brim + InPeriods((Lag - 2) + fails) + SinceScan
      BY <1>0, <1>3 DEF OverfillInv, FillInv
    <2>2. (Lag - 1) + fails = ((Lag - 2) + fails) + 1 /\ (Lag - 2) + fails \in Int
      BY OverfillTypes, LagTypes
    <2>3. /\ InPeriods((Lag - 1) + fails) = InPeriods((Lag - 2) + fails) + InPeriods(1)
          /\ InPeriods((Lag - 2) + fails) \in Int /\ InPeriods(1) \in Int
      BY <2>2, PeriodFacts
    <2> QED BY <2>1, <2>3, OverfillTypes, SinceTypes, LagTypes
  <1>4. FillInv'
    BY <1>0, <1>1, <1>3 DEF OverfillInv, FillInv
  <1> QED BY <1>2, <1>4 DEF OverfillInv

LEMMA OverfillNext == TypeOK /\ OverfillInv /\ [Next]_vars => OverfillInv'
  <1> SUFFICES ASSUME TypeOK, OverfillInv, [Next]_vars PROVE OverfillInv'
    OBVIOUS
  <1>1. ASSUME ScanVolume \/ handleDisplay \/ UNCHANGED vars PROVE OverfillInv'
    <2>1. /\ UNCHANGED <<water, latestVoltage, tasks, fails, level, fillM, since>>
          /\ at' = "level" => at = "level"
      BY <1>1 DEF ScanVolume, handleDisplay, vars, Cache, Goto, sensor, scan, auto
    <2>2. SinceScan' = SinceScan /\ SinceAuto' = SinceAuto /\ Owed' = Owed
      BY <2>1 DEF SinceScan, SinceAuto, Owed
    <2>3. SampleInv' /\ RiseInv' /\ InRange'
      BY <2>1, <2>2 DEF OverfillInv, SampleInv, RiseInv, InRange
    <2>4. FillInv'
      BY <1>1, <2>1, <2>2 DEF OverfillInv, FillInv, ScanVolume, handleDisplay, vars, Goto
    <2> QED BY <2>3, <2>4 DEF OverfillInv
  <1> QED
    BY <1>1, OverfillStart, OverfillLevel, OverfillAutomate, OverfillFlow, OverfillReading
    DEF Next, Loop

\* For every tank, calibration, flow, interval, length of a pass and water at boot:
\* filling stops less than Lag periods after the water passed max, and one more for
\* every task that did not start, although the filter lags, starts from zero at
\* boot and is read late, and scan and automation keep intervals of their own
\* (readVoltage, handleScan, scanSensors, AutomationHandler::loop, handleFill).
THEOREM TankNotOverfilled == Spec => []NoOverfill
  <1>1. TypeOK /\ OverfillInv => NoOverfill
    <2> SUFFICES ASSUME TypeOK, OverfillInv PROVE NoOverfill
      OBVIOUS
    <2> DEFINE m == (maxL + 1) * (maxV - minV)
               b == InPeriods(Lag + fails)
    <2>1. 100 * (Brim - minV) <= m
      BY LagFacts, BrimBounds
    <2>2. m \in Int /\ b \in Int
      BY LagFacts, OverfillTypes, PeriodFacts
    <2>3. water <= Brim + b
      BY DEF OverfillInv, InRange
    <2> HIDE DEF m, b
    <2>4. 100 * (water - b - minV) <= m
      BY <2>1, <2>2, <2>3, OverfillTypes, LagFacts
    <2> QED BY <2>4 DEF NoOverfill, m, b
  <1> QED BY TypeInit, TypeNext, OverfillInit, OverfillNext, <1>1, PTL DEF Spec

-----------------------------------------------------------------------------
(* The filter follows the water                                            *)

Distance(v, w) == IF v <= w THEN w - v ELSE v - w

\* Rounding stops the filter one unit from its input, and no further away.
LEMMA FilterApproaches ==
    ASSUME NEW v \in Int, NEW w \in Int
    PROVE  Distance(Filter(v, w), w) <= 1 \/ Distance(Filter(v, w), w) < Distance(v, w)
  <1>1. Filter(v, w) \in Int
    BY DEF Filter
  <1>2. CASE v <= w - 2
    <2>1. v < Filter(v, w) /\ Filter(v, w) <= w
      BY <1>2 DEF Filter
    <2> QED BY <1>1, <1>2, <2>1 DEF Distance
  <1>3. CASE v >= w + 2
    <2>1. Filter(v, w) < v /\ Filter(v, w) >= w
      BY <1>3 DEF Filter
    <2> QED BY <1>1, <1>3, <2>1 DEF Distance
  <1>4. CASE v >= w - 1 /\ v <= w + 1
    <2>1. Filter(v, w) = v
      BY <1>4 DEF Filter
    <2> QED BY <1>4, <2>1 DEF Distance
  <1> QED BY <1>2, <1>3, <1>4

\* Every reading, on time or late, brings the filtered voltage nearer to what its task
\* has seen, until it is one unit away at most: the step by which Settles and
\* DisplaySettles come to rest once the water does (readVoltage).
THEOREM ReadingsConverge ==
    Spec => [][AdcDone => \E average \in tasks[1].lo .. tasks[1].hi :
                  \/ Distance(latestVoltage', average) <= 1
                  \/ Distance(latestVoltage', average) < Distance(latestVoltage, average)]_vars
  <1> DEFINE Nearer == \E average \in tasks[1].lo .. tasks[1].hi :
                  \/ Distance(latestVoltage', average) <= 1
                  \/ Distance(latestVoltage', average) < Distance(latestVoltage, average)
  <1>1. TypeOK /\ [Next]_vars => [AdcDone => Nearer]_vars
    <2> SUFFICES ASSUME TypeOK, AdcDone PROVE Nearer
      OBVIOUS
    <2>1. PICK average \in tasks[1].lo .. tasks[1].hi :
             latestVoltage' = Filter(latestVoltage, average)
      BY DEF AdcDone
    <2>2. latestVoltage \in Int /\ average \in Int
      BY <2>1, TankAssumption DEF TankAssumption, TypeOK
    <2> QED BY <2>1, <2>2, FilterApproaches
  <1> QED BY TypeInit, TypeNext, <1>1, PTL DEF Spec
=============================================================================
