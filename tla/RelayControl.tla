---------------------------- MODULE RelayControl ----------------------------
(***************************************************************************)
(* The two relay channels of the board and the three writers that share    *)
(* them: the relay timers and the automation, both run by the Arduino loop *)
(* task (DeviceHandler.cpp, AutomationHandler.cpp, main.cpp), and the HTTP *)
(* "relais" call, run by the web server's own task (WebHandler.cpp).       *)
(*                                                                         *)
(* setRelais() is not atomic: it stores three shared words one after the   *)
(* other (timer, reported state, GPIO), so each store is a step and the    *)
(* two tasks interleave between them.  The clock is the 32-bit millis(),   *)
(* and deadlines are computed modulo its width exactly as the code does.   *)
(* Times are in ticks; one tick is a fixed fraction of a second.           *)
(***************************************************************************)
EXTENDS Integers

CONSTANTS
    ULONG,          \* number of values of an unsigned long (2^32 on the ESP32)
    Second,         \* ticks per second: the factor 1000 of setRelaisDuration
    AUTO_INTERVAL,  \* ticks between two runs of the automation
    MaxLag,         \* bound: ticks one pass of loop() may take
    Horizon,        \* bound: the clock stops here; ULONG lets it wrap
    MaxCalls,       \* bound: number of "relais" calls
    ChannelArgs,    \* values of the JSON field "channel"
    Durations,      \* values of the JSON field "duration"
    NoDuration,     \* the call has no integer "duration"
    Modes,          \* values of auto.mode in the configuration
    Levels,         \* water levels in percent; NaN when minV = maxV
    MaxL, MinL, FillL,  \* auto.max, auto.min, auto.fill
    WebPriority     \* TRUE: the web task preempts loop() and is not
                    \* preempted by it (its priority on the single core)

Chan == {1, 2}
Task == {"loop", "web"}
NaN == -1
Inactive == ULONG - 1      \* (unsigned long) -1, the "no timer" value
IntChars == -128 .. 127

ASSUME ConstantsAssumption ==
    /\ ULONG \in Nat /\ ULONG >= 4 /\ ULONG % 2 = 0
    /\ Second \in Nat \ {0} /\ AUTO_INTERVAL \in Nat /\ MaxLag \in Nat
    /\ Horizon \in Nat /\ MaxCalls \in Nat
    /\ ChannelArgs \subseteq Int /\ Durations \subseteq Int
    /\ NoDuration \notin Int
    /\ Modes \subseteq Int /\ Levels \subseteq Nat \cup {NaN}
    /\ MaxL \in Nat /\ MinL \in Nat /\ FillL \in Nat
    /\ WebPriority \in BOOLEAN

VARIABLES
    millis,      \* the clock
    ch,          \* ch1, ch2: switch-off time of each channel
    relay,       \* relay1, relay2: the state the device reports
    pin,         \* the level of the two relay GPIOs
    pc, relais, state,  \* per task: next store of its setRelais() call, and
                        \* the two parameters of that call
    at,          \* where the loop task is
    cur,         \* currentMillis of handleRelais()
    level,       \* scanWaterLevel
    mode, autoMillis, fillM, pumpM,   \* AutomationHandler's globals
    web,         \* "busy" while a "relais" call is being handled
    channel, duration,   \* its JSON fields
    acked,       \* history: kind of the last call answered for a channel
    due,         \* history: the time that call asked the relay to go off
    calls        \* number of calls so far

board == <<ch, relay, pin>>
frame == <<pc, relais, state>>
auto  == <<autoMillis, fillM, pumpM>>
http  == <<web, channel, duration, acked, due, calls>>
vars  == <<millis, board, frame, at, cur, level, mode, auto, http>>

-----------------------------------------------------------------------------
(* DeviceHandler::setRelais, called by task t                              *)

Int8Identity(n) == n
\* The parameter is an int8_t: the caller's int is narrowed.
Int8(n) == ((n + 128) % 256) - 128

\* The call: an unknown channel skips the two assignments.
setRelais(t, r, s) ==
    /\ pc' = [pc EXCEPT ![t] = IF r \in Chan THEN "timer" ELSE "pin"]
    /\ relais' = [relais EXCEPT ![t] = r]
    /\ state' = [state EXCEPT ![t] = s]

\* ch1 = -1
ClearTimer(t) ==
    /\ pc[t] = "timer"
    /\ ch' = [ch EXCEPT ![relais[t]] = Inactive]
    /\ pc' = [pc EXCEPT ![t] = "relay"]
    /\ UNCHANGED <<millis, relay, pin, relais, state, at, cur, level, mode,
                   auto, http>>

StoreRelayOnlyOff(t) ==
    /\ pc[t] = "relay"
    /\ relay' = [relay EXCEPT ![relais[t]] = @ /\ state[t]]
    /\ pc' = [pc EXCEPT ![t] = "pin"]
    /\ UNCHANGED <<millis, ch, pin, relais, state, at, cur, level, mode,
                   auto, http>>

\* relay1 = state
StoreRelay(t) ==
    /\ pc[t] = "relay"
    /\ relay' = [relay EXCEPT ![relais[t]] = state[t]]
    /\ pc' = [pc EXCEPT ![t] = "pin"]
    /\ UNCHANGED <<millis, ch, pin, relais, state, at, cur, level, mode,
                   auto, http>>

\* The pins digitalWrite() may drive.  For an unknown channel "pin" is
\* uninitialised: either relay's pin, or (0) some other one.
PinTargetsFirst(r) == {1}
PinTargets(r) == IF r \in Chan THEN {r} ELSE Chan \cup {0}

\* digitalWrite(pin, state), then return
WritePin(t) ==
    /\ pc[t] = "pin"
    /\ \E p \in PinTargets(relais[t]) :
          pin' = [c \in Chan |-> IF c = p THEN state[t] ELSE pin[c]]
    /\ pc' = [pc EXCEPT ![t] = "idle"]
    /\ relais' = [relais EXCEPT ![t] = 0]
    /\ UNCHANGED <<millis, ch, relay, state, at, cur, level, mode, auto, http>>

MayRun(t) == t = "loop" /\ WebPriority => pc["web"] = "idle"

SetRelaisStep(t) ==
    /\ MayRun(t)
    /\ ClearTimer(t) \/ StoreRelay(t) \/ WritePin(t)

-----------------------------------------------------------------------------
(* The web task: handleAPICall, type "relais"                              *)

\* The call is accepted and enters setRelais().
WebRelais(c, s, d) ==
    /\ web = "idle" /\ calls < MaxCalls
    /\ web' = "busy" /\ channel' = c /\ duration' = d
    /\ calls' = calls + 1
    /\ setRelais("web", Int8(c), s)
    /\ UNCHANGED <<millis, board, at, cur, level, mode, auto, acked, due>>

\* setRelaisDuration(): the channel is not narrowed here, and the sum is an
\* unsigned long.
Deadline(d) == (millis + d * Second) % ULONG
setRelaisDuration(c, d) ==
    IF c \in Chan THEN [ch EXCEPT ![c] = Deadline(d)] ELSE ch

Kind == IF ~state["web"] THEN "off"
        ELSE IF duration = NoDuration THEN "on" ELSE "timed"

Answer ==
    /\ web = "busy" /\ pc["web"] = "idle"
    /\ web' = "idle" /\ channel' = 0 /\ duration' = NoDuration
    /\ acked' = [c \in Chan |-> IF c = Int8(channel) THEN Kind ELSE acked[c]]
    /\ due' = [c \in Chan |->
                 IF c # Int8(channel) THEN due[c]
                 ELSE IF Kind = "timed" THEN millis + duration * Second ELSE 0]
    /\ UNCHANGED <<millis, relay, pin, frame, at, cur, level, mode, auto, calls>>

WebReplyForgetsTimer == Answer /\ ch' = ch

\* The call returns from setRelais(), arms the timer when a duration was
\* given, and is answered with sendOK().
WebReply ==
    /\ Answer
    /\ ch' = IF duration = NoDuration THEN ch
             ELSE setRelaisDuration(channel, duration)

-----------------------------------------------------------------------------
(* The loop task                                                           *)

Idle == pc["loop"] = "idle" /\ MayRun("loop")
Goto(from, to) == at = from /\ Idle /\ at' = to

\* handleRelais() reads the clock once, at the start of a pass.
ReadClock ==
    /\ Goto("relais", "ch1")
    /\ cur' = millis
    /\ UNCHANGED <<millis, board, frame, level, mode, auto, http>>

ExpiredNow(c) == ch[c] # Inactive /\ cur = ch[c]
Expired(c) == ch[c] # Inactive /\ cur >= ch[c]

\* One of the two tests of handleRelais().
CheckTimer(c, from, to) ==
    /\ Goto(from, to)
    /\ IF Expired(c) THEN setRelais("loop", c, FALSE) ELSE UNCHANGED frame
    /\ UNCHANGED <<millis, board, cur, level, mode, auto, http>>

\* handleScan(): the cached level becomes whatever the sensor chain computes.
Scan ==
    /\ Goto("scan", "mqtt")
    /\ level' \in Levels \cup {level}
    /\ UNCHANGED <<millis, board, frame, cur, mode, auto, http>>

ToInt(u) == IF u < ULONG \div 2 THEN u ELSE u - ULONG

getDurationOfFirst(c) ==
    LET stored == ToInt(ch[1])
        left == (stored - millis) % ULONG
    IN  IF stored > 0 /\ left > 0 THEN ToInt(left) ELSE 0

\* getDuration(), an int computed from two unsigned longs.
getDuration(c) ==
    LET stored == ToInt(ch[c])
        left == (stored - millis) % ULONG
    IN  IF stored > 0 /\ left > 0 THEN ToInt(left) ELSE 0

\* MQTTHandler::loop() reads states and durations; it changes none of them.
Publish ==
    /\ Goto("mqtt", "auto")
    /\ UNCHANGED <<millis, board, frame, cur, level, mode, auto, http>>

Below(l, x) == l # NaN /\ l < x
Above(l, x) == l # NaN /\ l > x

AutoDue == mode # 0 /\ (millis - autoMillis) % ULONG >= AUTO_INTERVAL
StartFill == fillM = FALSE /\ level <= FillL
StopFillWhileFilling == ~Below(level, MaxL) /\ fillM
StopFill == ~Below(level, MaxL)

\* AutomationHandler::loop() when it has nothing to do this pass.  mode is
\* only read by setup(), so in the default case of its switch both flags are
\* still FALSE (a conjunct of TypeOK) and that case writes nothing.
AutoSkip ==
    /\ Goto("auto", "relais")
    /\ ~AutoDue \/ mode \notin {1, 2}
    /\ autoMillis' = IF AutoDue THEN millis ELSE autoMillis
    /\ UNCHANGED <<millis, board, frame, cur, level, mode, fillM, pumpM, http>>

\* handleFill(): calls setFill(), or leaves relay 1 alone.
handleFill ==
    /\ AutoDue /\ mode \in {1, 2}
    /\ autoMillis' = millis
    /\ IF StopFill \/ StartFill
       THEN Goto("auto", "fillM") /\ setRelais("loop", 1, ~StopFill)
       ELSE Goto("auto", IF mode = 1 THEN "pump" ELSE "relais") /\ UNCHANGED frame
    /\ UNCHANGED <<millis, board, cur, level, mode, fillM, pumpM, http>>

\* fillM = cond, the end of setFill()
SetFillM ==
    /\ Goto("fillM", IF mode = 1 THEN "pump" ELSE "relais")
    /\ fillM' = state["loop"]
    /\ UNCHANGED <<millis, board, frame, cur, level, mode, autoMillis, pumpM, http>>

PumpUnlessLow == ~Below(level, MinL)
PumpWanted == Above(level, MinL)

\* handlePump()
handlePump ==
    /\ Goto("pump", "pumpM")
    /\ setRelais("loop", 2, PumpWanted)
    /\ UNCHANGED <<millis, board, cur, level, mode, auto, http>>

\* pumpM = cond, the end of setPump()
SetPumpM ==
    /\ Goto("pumpM", "relais")
    /\ pumpM' = state["loop"]
    /\ UNCHANGED <<millis, board, frame, cur, level, mode, autoMillis, fillM, http>>

-----------------------------------------------------------------------------
(* The clock, and the whole device                                         *)

\* One tick; a pass of loop() takes at most MaxLag of them.
Tick ==
    /\ millis < Horizon
    /\ (millis - cur) % ULONG < MaxLag
    /\ millis' = (millis + 1) % ULONG
    /\ UNCHANGED <<board, frame, at, cur, level, mode, auto, http>>

\* The state setup() leaves behind.
Init ==
    /\ millis = 0
    /\ ch = [c \in Chan |-> Inactive]
    /\ relay = [c \in Chan |-> FALSE]
    /\ pin = [c \in Chan |-> FALSE]
    /\ pc = [t \in Task |-> "idle"]
    /\ relais = [t \in Task |-> 0]
    /\ state = [t \in Task |-> FALSE]
    /\ at = "relais" /\ cur = 0
    /\ level = 0
    /\ mode \in Modes
    /\ autoMillis = 0 /\ fillM = FALSE /\ pumpM = FALSE
    /\ web = "idle" /\ channel = 0 /\ duration = NoDuration
    /\ acked = [c \in Chan |-> "none"]
    /\ due = [c \in Chan |-> 0]
    /\ calls = 0

Loop ==
    \/ SetRelaisStep("loop")
    \/ ReadClock
    \/ CheckTimer(1, "ch1", "ch2")
    \/ CheckTimer(2, "ch2", "scan")
    \/ Scan \/ Publish
    \/ AutoSkip \/ handleFill \/ SetFillM \/ handlePump \/ SetPumpM

WebHandling == SetRelaisStep("web") \/ WebReply

Next ==
    \/ Tick
    \/ Loop
    \/ WebHandling
    \/ \E c \in ChannelArgs, s \in BOOLEAN, d \in Durations \cup {NoDuration} :
          WebRelais(c, s, d)

\* Both tasks keep running and the clock keeps ticking; nobody has to call
\* the API.
Fairness == WF_vars(Tick) /\ WF_vars(Loop) /\ WF_vars(WebHandling)

Spec == Init /\ [][Next]_vars /\ Fairness

-----------------------------------------------------------------------------
(* Properties                                                              *)

\* Every variable keeps its type: timers are unsigned longs, the relay
\* parameter is an int8_t, the tasks are at known places.
TypeOK ==
    /\ millis \in 0 .. ULONG - 1 /\ cur \in 0 .. ULONG - 1
    /\ autoMillis \in 0 .. ULONG - 1
    /\ ch \in [Chan -> 0 .. ULONG - 1]
    /\ relay \in [Chan -> BOOLEAN] /\ pin \in [Chan -> BOOLEAN]
    /\ pc \in [Task -> {"idle", "timer", "relay", "pin"}]
    /\ relais \in [Task -> IntChars] /\ state \in [Task -> BOOLEAN]
    /\ \A t \in Task : pc[t] \in {"timer", "relay"} => relais[t] \in Chan
    /\ at \in {"relais", "ch1", "ch2", "scan", "mqtt", "auto", "fillM", "pump", "pumpM"}
    /\ level \in Levels \cup {0} /\ mode \in Modes
    /\ fillM \in BOOLEAN /\ pumpM \in BOOLEAN
    /\ mode \notin {1, 2} => ~fillM /\ ~pumpM
    /\ web \in {"idle", "busy"}
    /\ channel \in ChannelArgs \cup {0}
    /\ duration \in Durations \cup {NoDuration}
    /\ acked \in [Chan -> {"none", "off", "on", "timed"}]
    /\ due \in [Chan -> Int]
    /\ calls \in 0 .. MaxCalls

\* The automation drives relay 1 in modes 1 and 2, and relay 2 in mode 1.
Owned(c) == mode = 1 \/ (mode = 2 /\ c = 1)
Calling(t, c) == pc[t] # "idle" /\ relais[t] = c
WebBusy(c) == web = "busy" /\ Int8(channel) = c

\* A relay that was switched on for a duration is not on later than two loop
\* passes after that duration has elapsed, whatever timers, calls and races
\* happened before (handleRelais, setRelaisDuration, handleAPICall).
BoundedOverrun ==
    \A c \in Chan :
        ~Owned(c) /\ acked[c] = "timed" /\ pin[c] /\ ~WebBusy(c)
            => millis <= due[c] + 2 * MaxLag

\* A relay whose last answered command was "off" (or that never got one) is
\* off: no timer and no late step of the loop task energises it again.
OffStaysOff ==
    \A c \in Chan :
        ~Owned(c) /\ acked[c] \in {"none", "off"} /\ ~WebBusy(c) => ~pin[c]

\* When nobody is inside setRelais() for a channel, a relay reported off by
\* getState() is off.
ReportedOffIsOff ==
    \A c \in Chan :
        ~Owned(c) /\ ~Calling("loop", c) /\ ~Calling("web", c) /\ ~relay[c]
            => ~pin[c]

\* An output goes high only in the last store of a web call that asks for it, or
\* by the automation, at the level of that very moment: relay 1 at or below the
\* fill level and below max, relay 2 above min.  No timer, remembered decision or
\* NaN energises a relay, no full tank energises relay 1, and a call for the other
\* channel in the middle of it does not either (setRelais, handleFill, handlePump).
\* For relay 2 this is what handlePump() does: unlike AUTOMATION.md, which has it
\* enabled between max and min, the code has no upper level for it.
EnergisedForReason ==
    [][\A c \in Chan : ~pin[c] /\ pin'[c] =>
          \/ /\ pc["web"] = "pin" /\ pc'["web"] = "idle" /\ state["web"]
             /\ c \in PinTargets(relais["web"])
          \/ c = 1 /\ mode \in {1, 2} /\ Below(level, MaxL) /\ level <= FillL
          \/ c = 2 /\ mode = 1 /\ Above(level, MinL)]_vars

\* With the automation on, a full tank or an unusable reading (NaN) ends with
\* relay 1 off, and an empty tank or NaN ends with relay 2 off, whatever was
\* switched by hand, also across a wrap of millis().
FailSafe ==
    /\ <>[](mode \in {1, 2} /\ ~Below(level, MaxL)) => <>[](~pin[1])
    /\ <>[](mode = 1 /\ ~Above(level, MinL)) => <>[](~pin[2])

\* The deadlines handleRelais() may miss: the one that wraps to the value for
\* "no timer", and those that a pass of loop() can step over at the wrap of the
\* clock, because "cur >= ch" holds for less than a pass.
MayBeMissed(d) == d = Inactive \/ d \in (ULONG - MaxLag) + 1 .. ULONG - 1

\* A relay that is on with its timer armed goes off sometime, or another call for
\* it comes in, also when the deadline or the clock has wrapped and whatever time
\* the passes of loop() take.  A deadline less than a pass before the wrap of the
\* clock is exempt: it may be missed lap after lap, and the relay then stays on
\* (setRelaisDuration, handleRelais).
TimedGoesOff ==
    \A c \in Chan :
        [](~Owned(c) /\ pin[c] /\ ~MayBeMissed(ch[c]) => <>(~pin[c] \/ WebBusy(c)))

\* While a relay is on for a duration, getDuration() is the time that is left of
\* what the answered call asked for, whatever other calls and timers ran in
\* between, in the first half of the clock's range.
RemainingIsTold ==
    \A c \in Chan :
        ~Owned(c) /\ acked[c] = "timed" /\ pin[c] /\ ~WebBusy(c)
            /\ ~Calling("loop", c) /\ millis < due[c] /\ due[c] < ULONG \div 2
            => getDuration(c) = due[c] - millis

\* The two channels are what a caller of the API is promised, whatever the two
\* tasks, the three stores of setRelais() and the timers do underneath.
Promise == INSTANCE TimedRelay WITH
    Channels <- Chan, Slack <- 2 * MaxLag,
    clock <- millis, on <- pin, command <- acked,
    calling <- IF web = "busy" THEN Int8(channel) ELSE 0,
    manual <- {c \in Chan : ~Owned(c)}
KeepsPromise == Promise!Spec

\* getState(): "true if the relay is active".  What the device reports is what
\* the GPIO drives, once no call is under way.
ReportedStateIsPin ==
    \A c \in Chan :
        ~Calling("loop", c) /\ ~Calling("web", c) => relay[c] = pin[c]

\* AUTOMATION.md: at the fill level relay 1 "will be enabled to fill the Tank".
LowLevelGetsFilled ==
    mode \in {1, 2} /\ <>[](Below(level, MaxL) /\ level <= FillL) => []<>(pin[1])
=============================================================================
