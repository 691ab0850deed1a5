---------------------------- MODULE TankControl ----------------------------
(***************************************************************************)
(* The control loop through the tank: water, sensor, filtered voltage,     *)
(* cached level, automation, relays, water; and the display beside it.     *)
(* handleScan(), AutomationHandler::loop() and handleDisplay() each have a *)
(* timestamp of their own: each runs at the first pass of loop() that      *)
(* finds its interval over, so the automation may act on a level that the  *)
(* next scan is about to replace.  (The display, which nothing depends on, *)
(* is refreshed at any time, again and again.)  scanSensors() starts a     *)
(* task that reads the ADC for 640 ms, and computes the cached values at   *)
(* once, from the voltage of an earlier task; a task may fail to start, or *)
(* end late, between any two of these values.  The tank is external.       *)
(*                                                                         *)
(* Voltages are integers (a unit is some 10 mV) and the filter rounds to   *)
(* the nearest one; the cached level is rounded to a whole percent where   *)
(* the code rounds to two decimals.  SCAN_INTERVAL and AUTO_INTERVAL are   *)
(* the same second.  Nobody switches the relays by hand here: RelayControl *)
(* is about that.                                                          *)
(***************************************************************************)
EXTENDS Integers, Sequences

CONSTANTS
    Cap,           \* the voltage of a tank filled to the brim
    maxV, minV,    \* calibration.max, calibration.min
    maxL, minL, fillL,   \* auto.max, auto.min, auto.fill, in percent
    tankVolume,    \* calibration.volume
    Rate,          \* most that flows in or out in one tick, as a voltage
    Interval,      \* SCAN_INTERVAL and the others, in ticks
    Pass,          \* the longest pass of loop(), in ticks
    displayEnabled,  \* setupDisplay() found a display
    Start,         \* bound: the water at boot, as voltages
    MaxFails,      \* bound: how often xTaskCreate() fails
    Lag, Error     \* bounds claimed: periods by which filling stops too late, and
                   \* percent by which the display is wrong in the end

ASSUME TankAssumption ==
    /\ {Cap, maxV, minV, tankVolume, Rate, Interval, Pass, MaxFails, Lag, Error}
          \subseteq Nat
    /\ minV <= maxV /\ Rate > 0 /\ Interval > 0 /\ Start \subseteq 0 .. Cap
    /\ displayEnabled \in BOOLEAN
    /\ {maxL, minL, fillL} \subseteq 0 .. 100 /\ fillL < maxL

VARIABLES
    water,          \* external: the voltage of the true level
    latestVoltage,
    tasks,          \* the ADC tasks under way, oldest first: the lowest and the
                    \* highest water since the task was started
    fails,          \* number of tasks that could not be started
    level, volume,  \* scanWaterLevel, scanWaterVolume
    display,        \* what it shows: nothing, the cached values, or older ones
    mode,           \* 1: fill and pump, 2: fill
    fillM, pumpM,   \* also the state of the two relays
    since,          \* millis() minus scanMillis and autoMillis
    at              \* place in scanSensors(), or "loop"

sensor == <<latestVoltage, tasks, fails>>
scan == <<level, volume>>
auto == <<mode, fillM, pumpM>>
vars == <<water, sensor, scan, display, auto, since, at>>

Goto(from, to) == at = from /\ at' = to
NaN == -1

-----------------------------------------------------------------------------
(* The intervals                                                           *)

Handlers == {"scan", "auto"}

\* From one run of a handler to the next it takes at most a period.
Period == Interval + Pass

\* currentMillis - scanMillis >= SCAN_INTERVAL; scanMillis = currentMillis.
IntervalPassed(h) ==
    /\ at = "loop" /\ since[h] >= Interval
    /\ since' = [since EXCEPT ![h] = 0]

-----------------------------------------------------------------------------
(* DeviceHandler: the sensor                                               *)

ClampBelow(p) == IF p < 0 THEN 0 ELSE p
Clamp(p) == IF p < 0 THEN 0 ELSE IF p > 100 THEN 100 ELSE p

\* roundToTwoDecimals(getLevel()); 0/0 when minV = maxV is not a number.
getLevel(v) ==
    IF maxV = minV
    THEN IF v = minV THEN NaN ELSE IF v > minV THEN 100 ELSE 0
    ELSE Clamp((200 * (v - minV) + (maxV - minV)) \div (2 * (maxV - minV)))

\* readVoltage(): EMA_ALPHA is 0.3.
Filter(v, average) == (7 * v + 3 * average + 5) \div 10

\* handleScan(); scanSensors() starts the task, and nobody looks whether that
\* succeeded.  A task has ended before the second next one is started.
StartAdc ==
    /\ IntervalPassed("scan") /\ at' = "level" /\ Len(tasks) <= 1
    /\ \/ tasks' = Append(tasks, [lo |-> water, hi |-> water]) /\ UNCHANGED fails
       \/ fails < MaxFails /\ fails' = fails + 1 /\ UNCHANGED tasks
    /\ UNCHANGED <<water, latestVoltage, scan, display, auto>>

\* The display still shows the values that are replaced.
Cache(l, v) ==
    /\ level' = l /\ volume' = v
    /\ display' = IF display = "current" /\ <<l, v>> # scan THEN "old" ELSE display

ScanLevel ==
    /\ Goto("level", "volume") /\ Cache(getLevel(latestVoltage), volume)
    /\ UNCHANGED <<water, sensor, auto, since>>

\* getVolume() computes the level anew, from what is latestVoltage by now.
getVolume(v) == IF getLevel(v) = NaN THEN NaN ELSE (tankVolume * getLevel(v)) \div 100
ScanVolume ==
    /\ Goto("volume", "loop") /\ Cache(level, getVolume(latestVoltage))
    /\ UNCHANGED <<water, sensor, auto, since>>

\* adcTaskFunction() ends: the average of its samples lies between the lowest and
\* the highest water of its time.
AdcDone ==
    /\ tasks # <<>> /\ tasks' = Tail(tasks)
    /\ \E average \in tasks[1].lo .. tasks[1].hi :
          latestVoltage' = Filter(latestVoltage, average)
    /\ UNCHANGED <<water, fails, scan, display, auto, since, at>>

\* The level and the volume are followed, of the five values it shows.
updateDisplayOnce == IF display = "blank" THEN "current" ELSE display
updateDisplay == "current"

handleDisplay ==
    /\ at = "loop" /\ displayEnabled /\ display' = updateDisplay
    /\ UNCHANGED <<water, sensor, scan, auto, since, at>>

-----------------------------------------------------------------------------
(* AutomationHandler                                                       *)

handleFillNeverStops == IF fillM = FALSE /\ level <= fillL THEN TRUE ELSE fillM
handleFill ==
    IF level # NaN /\ level < maxL
    THEN IF fillM = FALSE /\ level <= fillL THEN TRUE ELSE fillM
    ELSE FALSE

handlePumpKeepsOn == pumpM \/ (level # NaN /\ level > minL)
handlePump == level # NaN /\ level > minL

Automate ==
    /\ IntervalPassed("auto")
    /\ fillM' = handleFill
    /\ pumpM' = IF mode = 1 THEN handlePump ELSE pumpM
    /\ UNCHANGED <<water, sensor, scan, display, mode, at>>

-----------------------------------------------------------------------------
(* The tank                                                                *)

InTank(w) == IF w < 0 THEN 0 ELSE IF w > Cap THEN Cap ELSE w

Widen(task, w) == [lo |-> IF w < task.lo THEN w ELSE task.lo,
                   hi |-> IF w > task.hi THEN w ELSE task.hi]

\* A tick passes: relay 1 lets at most Rate in, relay 2 or a consumer takes at most
\* Rate out.  No pass is longer than Pass.
Flow ==
    /\ at = "loop" /\ \A h \in Handlers : since[h] < Period
    /\ since' = [h \in Handlers |-> since[h] + 1]
    /\ \E in \in 0 .. (IF fillM THEN Rate ELSE 0),
          out \in 0 .. (IF pumpM \/ mode = 2 THEN Rate ELSE 0) :
             water' = InTank(water + in - out)
    /\ tasks' = [i \in DOMAIN tasks |-> Widen(tasks[i], water')]
    /\ UNCHANGED <<latestVoltage, fails, scan, display, auto, at>>

\* The two timestamps start at 0.
Init ==
    /\ water \in {w \in Start : getLevel(w) <= maxL}
    /\ latestVoltage = 0 /\ tasks = <<>> /\ fails = 0
    /\ level = 0 /\ volume = 0
    /\ display = "blank"
    /\ mode \in {1, 2} /\ fillM = FALSE /\ pumpM = FALSE
    /\ \E age \in 0 .. Period : since = [h \in Handlers |-> age]
    /\ at = "loop"

Loop ==
    \/ StartAdc \/ ScanLevel \/ ScanVolume \/ Automate \/ Flow

Next == Loop \/ handleDisplay \/ AdcDone

\* loop() and the ADC task keep running; every pass of loop() looks at the display.
Fairness == WF_vars(Loop) /\ SF_vars(handleDisplay) /\ WF_vars(AdcDone)

Spec == Init /\ [][Next]_vars /\ Fairness

-----------------------------------------------------------------------------
(* Properties                                                              *)

\* Every variable keeps its type: the level is a percentage or NaN, at most two ADC
\* tasks run at once, and no handler waits longer than a period.
TypeOK ==
    /\ water \in 0 .. Cap /\ latestVoltage \in 0 .. Cap
    /\ tasks \in Seq([lo : 0 .. Cap, hi : 0 .. Cap]) /\ Len(tasks) <= 2
    /\ fails \in 0 .. MaxFails
    /\ since \in [Handlers -> 0 .. Period]
    /\ at \in {"loop", "level", "volume"}
    /\ level \in 0 .. 100 \cup {NaN}
    /\ volume \in 0 .. tankVolume \cup {NaN} /\ display \in {"blank", "current", "old"}
    /\ mode \in {1, 2} /\ fillM \in BOOLEAN /\ pumpM \in BOOLEAN

\* The most that flows in k periods.
InPeriods(k) == k * (Period * Rate)

\* Voltages for the claim of Lag: water is at Brim at most when boot finds it below
\* max, and Slowest[n] is a voltage the filter has reached before the water is n
\* periods above Brim, however late the readings are that it owes.
Brim == minV + ((2 * maxL + 1) * (maxV - minV)) \div 200
Slowest[n \in Nat] ==
    IF n = 0 THEN 0 ELSE Filter(Slowest[n - 1], Brim + InPeriods(n - 1) + 1)

\* After Lag - 3 readings even the slowest voltage is seen as full.  (Two readings
\* may be owed when the level is computed, and one period each passes until the
\* next level and until the automation acts again; n readings are due n - 1
\* periods after the first.)
LagCovers(u) ==
    /\ maxL < 100 /\ Lag >= 4 /\ u[0] = 0 /\ (\A n \in 0 .. Lag - 3 : u[n] \in Int)
    /\ \A n \in 1 .. Lag - 3 : u[n] = Filter(u[n - 1], Brim + InPeriods(n - 1) + 1)
    /\ getLevel(u[Lag - 3]) >= maxL
ASSUME LagAssumption == LagCovers(Slowest)

\* The tank is never filled more than Lag periods beyond the level max, and one
\* more for every task that could not be started, however late the filtered,
\* cached level follows the water, however the intervals of scan and automation
\* lie, and also right after boot, when the filter starts from zero (readVoltage,
\* handleScan, scanSensors, AutomationHandler::loop, handleFill).
NoOverfill ==
    100 * (water - InPeriods(Lag + fails) - minV) <= (maxL + 1) * (maxV - minV)

\* Water that stays above max ends with relay 1 off, and water that stays below
\* min ends with relay 2 off: the filter and the cache catch up (handleFill,
\* handlePump).
Settles ==
    /\ <>[](getLevel(water) > maxL) => <>[](~fillM)
    /\ mode = 1 /\ <>[](getLevel(water) < minL) => <>[](~pumpM)

Near(p, q) == p - q <= Error /\ q - p <= Error

\* When the water stays where it is, a display ends up showing its level and its
\* volume, up to what the filter rounds away, whatever tasks failed to start or
\* stored their voltage between the two (updateDisplay, scanSensors).
DisplaySettles ==
    displayEnabled /\ <>[][FALSE]_water =>
        <>[](/\ display = "current" /\ Near(level, getLevel(water))
             /\ Near((100 * volume) \div tankVolume, getLevel(water)))
=============================================================================
