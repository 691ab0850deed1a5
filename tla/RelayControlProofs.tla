------------------------- MODULE RelayControlProofs -------------------------
(***************************************************************************)
(* Proofs about RelayControl for every clock width, lag, number of calls,  *)
(* set of levels and thresholds.                                           *)
(***************************************************************************)
EXTENDS RelayControl, TLAPS

-----------------------------------------------------------------------------
(* Arithmetic of the two integer conversions                               *)

\* A value reduced to the width of an unsigned long is one.
LEMMA ModRange ==
    ASSUME NEW a \in Int, NEW n \in Nat \ {0}
    PROVE  a % n \in 0 .. n - 1
  OBVIOUS

\* Narrowing to int8_t yields an int8_t and does not change a valid channel.
LEMMA Int8Range ==
    /\ \A n \in Int : Int8(n) \in IntChars
    /\ \A c \in Chan : Int8(c) = c
  BY DEF Int8, IntChars, Chan

-----------------------------------------------------------------------------
(* Types                                                                   *)

\* The places of the loop task that only exist in some modes.
Flow ==
    /\ at = "fillM" => mode \in {1, 2}
    /\ at \in {"pump", "pumpM"} => mode = 1

TypeInv == TypeOK /\ Flow

LEMMA TypeInit == Init => TypeInv
  <1> USE ConstantsAssumption
  <1> SUFFICES ASSUME Init PROVE TypeInv
    OBVIOUS
  <1>1. TypeOK
    <2>1. /\ millis \in 0 .. ULONG - 1 /\ cur \in 0 .. ULONG - 1
          /\ autoMillis \in 0 .. ULONG - 1
          /\ ch \in [Chan -> 0 .. ULONG - 1]
          /\ due \in [Chan -> Int]
          /\ calls \in 0 .. MaxCalls
      BY DEF ConstantsAssumption, Init, Inactive
    <2>2. relais \in [Task -> IntChars]
      BY DEF Init, IntChars
    <2>3. /\ relay \in [Chan -> BOOLEAN] /\ pin \in [Chan -> BOOLEAN]
          /\ state \in [Task -> BOOLEAN]
          /\ fillM \in BOOLEAN /\ pumpM \in BOOLEAN
          /\ mode \notin {1, 2} => ~fillM /\ ~pumpM
      BY Zenon DEF Init
    <2>4. \A t \in Task : pc[t] \in {"timer", "relay"} => relais[t] \in Chan
      BY DEF Init
    <2>5. /\ pc \in [Task -> {"idle", "timer", "relay", "pin"}]
          /\ at \in {"relais", "ch1", "ch2", "scan", "mqtt", "auto", "fillM", "pump", "pumpM"}
          /\ level \in Levels \cup {0} /\ mode \in Modes
          /\ web \in {"idle", "busy"}
          /\ channel \in ChannelArgs \cup {0}
          /\ duration \in Durations \cup {NoDuration}
          /\ acked \in [Chan -> {"none", "off", "on", "timed"}]
      BY DEF Init
    <2> QED BY <2>1, <2>2, <2>3, <2>4, <2>5 DEF TypeOK
  <1>2. Flow
    BY DEF Init, Flow
  <1> QED BY <1>1, <1>2 DEF TypeInv

\* A call of setRelais() by either task sets up its frame with the types.
LEMMA CallTypes ==
    ASSUME TypeOK, NEW t \in Task, NEW r \in IntChars, NEW s \in BOOLEAN,
           setRelais(t, r, s)
    PROVE  /\ pc' \in [Task -> {"idle", "timer", "relay", "pin"}]
           /\ relais' \in [Task -> IntChars]
           /\ state' \in [Task -> BOOLEAN]
           /\ \A u \in Task : pc'[u] \in {"timer", "relay"} => relais'[u] \in Chan
  BY DEF setRelais, TypeOK, Task, Chan

LEMMA StoreTypes ==
    ASSUME TypeInv, NEW t \in Task, SetRelaisStep(t)
    PROVE  TypeInv'
  <1> USE ConstantsAssumption DEF ConstantsAssumption, TypeInv, TypeOK, Flow, http, auto, Task
  <1>1. CASE ClearTimer(t)
    BY <1>1 DEF ClearTimer, Inactive
  <1>2. CASE StoreRelay(t)
    BY <1>2 DEF StoreRelay
  <1>3. CASE WritePin(t)
    BY <1>3 DEF WritePin, IntChars
  <1> QED BY <1>1, <1>2, <1>3 DEF SetRelaisStep

\* Every action but the stores of setRelais().  Calls hand setRelais() a
\* channel and a Boolean; the clock and the deadlines are reduced modulo ULONG.
LEMMA TypeNext == TypeInv /\ [Next]_vars => TypeInv'
  <1> SUFFICES ASSUME TypeInv, [Next]_vars PROVE TypeInv'
    OBVIOUS
  <1> USE ConstantsAssumption DEF ConstantsAssumption, TypeInv, TypeOK, Flow
  <1> USE DEF board, frame, auto, http, Goto
  <1>1. CASE Tick
    <2>1. millis' \in 0 .. ULONG - 1
      BY <1>1, ModRange DEF Tick
    <2> QED BY <1>1, <2>1 DEF Tick
  <1>2. CASE SetRelaisStep("loop") \/ SetRelaisStep("web")
    BY <1>2, StoreTypes DEF Task
  <1>3. CASE ReadClock
    BY <1>3 DEF ReadClock
  <1>4. ASSUME NEW c \in Chan, NEW from, NEW to \in {"ch2", "scan"},
               CheckTimer(c, from, to)
        PROVE  TypeInv'
    <2>1. c \in IntChars /\ FALSE \in BOOLEAN /\ "loop" \in Task
      BY DEF Chan, IntChars, Task
    <2>2. CASE Expired(c)
      <3>1. setRelais("loop", c, FALSE)
        BY <1>4, <2>2 DEF CheckTimer
      <3> QED BY <1>4, <2>1, <3>1, CallTypes DEF CheckTimer
    <2>3. CASE ~Expired(c)
      BY <1>4, <2>3 DEF CheckTimer
    <2> QED BY <2>2, <2>3
  <1>5. CASE Scan
    BY <1>5 DEF Scan
  <1>6. CASE Publish
    BY <1>6 DEF Publish
  <1>7. CASE AutoSkip
    BY <1>7 DEF AutoSkip
  <1>8. CASE handleFill
    <2>1. 1 \in IntChars /\ "loop" \in Task /\ (~StopFill) \in BOOLEAN
      BY DEF IntChars, Task
    <2>2. CASE StopFill \/ StartFill
      <3>1. setRelais("loop", 1, ~StopFill) /\ at' = "fillM"
        BY <1>8, <2>2 DEF handleFill
      <3> QED BY <1>8, <2>1, <3>1, CallTypes DEF handleFill
    <2>3. CASE ~(StopFill \/ StartFill)
      BY <1>8, <2>3 DEF handleFill
    <2> QED BY <2>2, <2>3
  <1>9. CASE SetFillM
    BY <1>9 DEF SetFillM, Task
  <1>10. CASE handlePump
    <2>1. 2 \in IntChars /\ "loop" \in Task /\ PumpWanted \in BOOLEAN
      BY DEF IntChars, Task, PumpWanted, Above
    <2>2. setRelais("loop", 2, PumpWanted)
      BY <1>10 DEF handlePump
    <2> QED BY <1>10, <2>1, <2>2, CallTypes DEF handlePump
  <1>11. CASE SetPumpM
    BY <1>11 DEF SetPumpM, Task
  <1>12. CASE WebReply
    <2>1. duration # NoDuration => duration \in Int /\ duration * Second \in Int
      OBVIOUS
    <2>2. duration # NoDuration => Deadline(duration) \in 0 .. ULONG - 1
      BY <2>1, ModRange DEF Deadline
    <2>3. ch' \in [Chan -> 0 .. ULONG - 1]
      BY <1>12, <2>2 DEF WebReply, setRelaisDuration
    <2>4. Kind \in {"none", "off", "on", "timed"}
      BY DEF Kind
    <2>5. Kind = "timed" => duration # NoDuration
      BY DEF Kind
    <2>6. acked' \in [Chan -> {"none", "off", "on", "timed"}]
      BY <1>12, <2>4 DEF WebReply, Answer
    <2>7. due' \in [Chan -> Int]
      BY <1>12, <2>1, <2>5 DEF WebReply, Answer
    <2> QED BY <1>12, <2>3, <2>6, <2>7 DEF WebReply, Answer
  <1>13. ASSUME NEW c \in ChannelArgs, NEW s \in BOOLEAN,
                NEW d \in Durations \cup {NoDuration}, WebRelais(c, s, d)
         PROVE  TypeInv'
    <2>1. Int8(c) \in IntChars /\ "web" \in Task
      BY Int8Range DEF Task
    <2>2. setRelais("web", Int8(c), s)
      BY <1>13 DEF WebRelais
    <2> QED BY <1>13, <2>1, <2>2, CallTypes DEF WebRelais
  <1>14. CASE UNCHANGED vars
    BY <1>14 DEF vars
  <1> QED
    BY <1>1, <1>2, <1>3, <1>4, <1>5, <1>6, <1>7, <1>8, <1>9, <1>10, <1>11,
       <1>12, <1>13, <1>14 DEF Next, Loop, WebHandling, Chan

\* The variables keep their types in every behaviour: in particular the timers
\* stay unsigned longs whatever "duration" a call carries, and the relay
\* parameter stays an int8_t whatever "channel" it carries.
THEOREM TypeCorrect == Spec => []TypeOK
  <1>1. Spec => []TypeInv
    BY TypeInit, TypeNext, PTL DEF Spec
  <1>2. TypeInv => TypeOK
    BY DEF TypeInv
  <1> QED BY <1>1, <1>2, PTL

-----------------------------------------------------------------------------
(* Who is writing which channel                                            *)

\* Every "relais" call names one of the two channels.
ValidChannels == ChannelArgs \subseteq Chan

\* The web task's call writes the channel of its request, the loop task's
\* call writes one of the two, and on a channel the automation does not drive
\* the loop task only ever switches off.
Frames ==
    /\ web = "busy" => channel \in Chan
    /\ pc["web"] # "idle" => web = "busy" /\ relais["web"] = channel
    /\ pc["loop"] # "idle" => relais["loop"] \in Chan
    /\ \A c \in Chan : ~Owned(c) /\ Calling("loop", c) => ~state["loop"]

FrameInv == TypeInv /\ Frames

LEMMA FrameInit == Init => Frames
  BY Zenon DEF Init, Frames, Calling, Task

LEMMA FrameNext ==
    ASSUME ValidChannels, FrameInv, [Next]_vars
    PROVE  Frames'
  <1> USE DEF FrameInv, TypeInv, TypeOK, Flow, Frames, Owned, Calling
  <1> USE DEF board, frame, auto, http, Goto, Idle, Chan, Task
  <1>1. CASE Tick
    BY <1>1 DEF Tick
  <1>2. ASSUME NEW t \in Task, SetRelaisStep(t)
        PROVE  Frames'
    <2>1. CASE ClearTimer(t)
      BY <2>1 DEF ClearTimer
    <2>2. CASE StoreRelay(t)
      BY <2>2 DEF StoreRelay
    <2>3. CASE WritePin(t)
      BY <2>3 DEF WritePin
    <2> QED BY <1>2, <2>1, <2>2, <2>3 DEF SetRelaisStep
  <1>3. CASE ReadClock
    BY <1>3 DEF ReadClock
  <1>4. ASSUME NEW c \in Chan, NEW from, NEW to, CheckTimer(c, from, to)
        PROVE  Frames'
    BY <1>4 DEF CheckTimer, setRelais
  <1>5. CASE Scan
    BY <1>5 DEF Scan
  <1>6. CASE Publish
    BY <1>6 DEF Publish
  <1>7. CASE AutoSkip
    BY <1>7 DEF AutoSkip
  <1>8. CASE handleFill
    BY <1>8 DEF handleFill, setRelais
  <1>9. CASE SetFillM
    BY <1>9 DEF SetFillM
  <1>10. CASE handlePump
    BY <1>10 DEF handlePump, setRelais
  <1>11. CASE SetPumpM
    BY <1>11 DEF SetPumpM
  <1>12. CASE WebReply
    BY <1>12 DEF WebReply, Answer
  <1>13. ASSUME NEW c \in ChannelArgs, NEW s \in BOOLEAN,
                NEW d \in Durations \cup {NoDuration}, WebRelais(c, s, d)
         PROVE  Frames'
    <2>1. c \in Chan /\ Int8(c) = c
      BY Int8Range DEF ValidChannels
    <2> QED BY <1>13, <2>1 DEF WebRelais, setRelais
  <1>14. CASE UNCHANGED vars
    BY <1>14 DEF vars
  <1> QED
    BY <1>1, <1>2, <1>3, <1>4, <1>5, <1>6, <1>7, <1>8, <1>9, <1>10, <1>11,
       <1>12, <1>13, <1>14 DEF Next, Loop, WebHandling

-----------------------------------------------------------------------------
(* A relay that was switched off stays off                                 *)

\* Between the last store of an "off" call and its answer the pin is low.
OffInv ==
    /\ OffStaysOff
    /\ \A c \in Chan :
          ~Owned(c) /\ WebBusy(c) /\ pc["web"] = "idle" /\ ~state["web"] => ~pin[c]

\* Under Frames the web task's request is about one channel, un-narrowed.
LEMMA BusyChannel ==
    ASSUME Frames PROVE \A c \in Chan : WebBusy(c) <=> web = "busy" /\ channel = c
  BY Int8Range DEF Frames, WebBusy

LEMMA OffNext ==
    ASSUME ValidChannels, FrameInv, Frames', OffInv, [Next]_vars
    PROVE  OffInv'
  <1> DEFINE Busy(c) == web = "busy" /\ channel = c
  <1>a. \A c \in Chan : (WebBusy(c) <=> Busy(c)) /\ (WebBusy(c)' <=> Busy(c)')
    <2>1. \A c \in Chan : WebBusy(c) <=> Busy(c)
      BY BusyChannel DEF FrameInv
    <2>2. \A c \in Chan : WebBusy(c)' <=> Busy(c)'
      BY Int8Range DEF Frames, WebBusy
    <2> QED BY <2>1, <2>2
  <1>b. SUFFICES ASSUME NEW c \in Chan, ~Owned(c)',
                      \/ acked'[c] \in {"none", "off"} /\ ~Busy(c)'
                      \/ Busy(c)' /\ pc'["web"] = "idle" /\ ~state'["web"]
               PROVE  ~pin'[c]
    BY <1>a DEF OffInv, OffStaysOff
  <1>c. ~Owned(c) /\ acked[c] \in {"none", "off"} /\ ~Busy(c) => ~pin[c]
    BY <1>a DEF OffInv, OffStaysOff
  <1>d. ~Owned(c) /\ Busy(c) /\ pc["web"] = "idle" /\ ~state["web"] => ~pin[c]
    BY <1>a DEF OffInv
  <1> USE <1>b, <1>c, <1>d DEF FrameInv, TypeInv, TypeOK, Flow, Frames, Owned, Calling
  <1> USE DEF board, frame, auto, http, Goto, Idle, Chan, Task
  <1>1. CASE Tick
    BY <1>1 DEF Tick
  <1>2. ASSUME NEW t \in Task, SetRelaisStep(t)
        PROVE  ~pin'[c]
    <2>1. CASE ClearTimer(t)
      BY <2>1 DEF ClearTimer
    <2>2. CASE StoreRelay(t)
      BY <2>2 DEF StoreRelay
    <2>3. CASE WritePin(t)
      BY <2>3 DEF WritePin, PinTargets
    <2> QED BY <1>2, <2>1, <2>2, <2>3 DEF SetRelaisStep
  <1>3. CASE ReadClock
    BY <1>3 DEF ReadClock
  <1>4. ASSUME NEW d \in Chan, NEW from, NEW to, CheckTimer(d, from, to)
        PROVE  ~pin'[c]
    BY <1>4 DEF CheckTimer, setRelais
  <1>5. CASE Scan
    BY <1>5 DEF Scan
  <1>6. CASE Publish
    BY <1>6 DEF Publish
  <1>7. CASE AutoSkip
    BY <1>7 DEF AutoSkip
  <1>8. CASE handleFill
    BY <1>8 DEF handleFill, setRelais
  <1>9. CASE SetFillM
    BY <1>9 DEF SetFillM
  <1>10. CASE handlePump
    BY <1>10 DEF handlePump, setRelais
  <1>11. CASE SetPumpM
    BY <1>11 DEF SetPumpM
  <1>12. CASE WebReply
    <2>1. web = "busy" => Int8(channel) = channel
      BY Int8Range
    <2> QED BY <1>12, <2>1 DEF WebReply, Answer, Kind
  <1>13. ASSUME NEW a \in ChannelArgs, NEW s \in BOOLEAN,
                NEW d \in Durations \cup {NoDuration}, WebRelais(a, s, d)
         PROVE  ~pin'[c]
    <2>1. a \in Chan /\ Int8(a) = a
      BY Int8Range DEF ValidChannels
    <2> QED BY <1>13, <2>1 DEF WebRelais, setRelais
  <1>14. CASE UNCHANGED vars
    BY <1>14 DEF vars
  <1> QED
    BY <1>1, <1>2, <1>3, <1>4, <1>5, <1>6, <1>7, <1>8, <1>9, <1>10, <1>11,
       <1>12, <1>13, <1>14 DEF Next, Loop, WebHandling

\* A relay whose last answered "relais" command was "off" stays off, however
\* the web task and the timers of the loop task interleave.
THEOREM OffIsSafe == ASSUME ValidChannels PROVE Spec => []OffStaysOff
  <1> DEFINE I == TypeInv /\ Frames /\ OffInv
  <1>1. Init => I
    <2>1. Init => OffInv
      BY DEF Init, OffInv, OffStaysOff, WebBusy
    <2> QED BY <2>1, TypeInit, FrameInit
  <1>2. I /\ [Next]_vars => I'
    <2> SUFFICES ASSUME I, [Next]_vars PROVE I'
      OBVIOUS
    <2>1. TypeInv'
      BY TypeNext
    <2>2. Frames'
      BY FrameNext DEF FrameInv
    <2>3. OffInv'
      BY <2>2, OffNext DEF FrameInv
    <2> QED BY <2>1, <2>2, <2>3
  <1>3. I => OffStaysOff
    BY DEF OffInv
  <1> QED BY <1>1, <1>2, <1>3, PTL DEF Spec

-----------------------------------------------------------------------------
(* A timed relay does not overrun                                          *)

\* The clock stays clear of its wrap, and so does every deadline.
NoWrap ==
    /\ Horizon < ULONG - 1
    /\ \A d \in Durations : d >= 0 /\ Horizon + d * Second < ULONG - 1

\* The loop task is never more than one pass behind the clock.
ClockInv == cur <= millis /\ millis <= cur + MaxLag /\ millis <= Horizon

\* Channel c was switched on for a duration, and no request is changing that.
Running(c) == ~Owned(c) /\ acked[c] = "timed" /\ pin[c] /\ ~(web = "busy" /\ channel = c)

\* The loop task has yet to compare cur with the timer of c in this pass.
Unchecked(c) == at = "ch1" \/ (at = "ch2" /\ c = 2)

\* The timer of a running channel is armed at its deadline, or the loop task
\* is already switching the channel off; and a deadline the loop task has let
\* pass this time has not been reached.
TimerInv(c) ==
    Running(c) =>
        /\ Calling("loop", c) \/ ch[c] = due[c]
        /\ due[c] >= cur - MaxLag
        /\ Unchecked(c) \/ Calling("loop", c) \/ due[c] >= cur

OverrunInv ==
    /\ ClockInv
    /\ \A c \in Chan : due[c] < ULONG - 1 /\ TimerInv(c)

\* Between 0 and ULONG - 1 reducing modulo ULONG changes nothing.
LEMMA ModSmall ==
    ASSUME NEW n \in Nat \ {0}, NEW a \in 0 .. n - 1
    PROVE  a % n = a
  OBVIOUS

\* A non-negative number of seconds is a non-negative number of ticks.
LEMMA MulNonNegative == \A a, b \in Nat : a * b >= 0
  OBVIOUS

LEMMA ClockNext ==
    ASSUME NoWrap, TypeInv, ClockInv, [Next]_vars
    PROVE  ClockInv'
  <1> USE ConstantsAssumption DEF ConstantsAssumption, TypeInv, TypeOK, NoWrap, ClockInv
  <1> USE DEF board, frame, auto, http
  <1>1. CASE Tick
    <2>a. /\ ULONG \in Nat \ {0}
          /\ millis - cur \in 0 .. ULONG - 1
          /\ millis + 1 \in 0 .. ULONG - 1
      BY <1>1 DEF Tick
    <2> HIDE DEF ConstantsAssumption, NoWrap, ClockInv, TypeInv, TypeOK
    <2>1. (millis - cur) % ULONG = millis - cur
      BY ONLY <2>a, ModSmall
    <2>2. (millis + 1) % ULONG = millis + 1
      BY ONLY <2>a, ModSmall
    <2> USE DEF ConstantsAssumption, NoWrap, ClockInv, TypeInv, TypeOK
    <2> QED BY <1>1, <2>1, <2>2 DEF Tick
  <1>2. CASE ReadClock
    BY <1>2 DEF ReadClock
  <1>3. CASE ~Tick /\ ~ReadClock
    <2>1. UNCHANGED <<millis, cur>>
      BY <1>3 DEF Next, Loop, WebHandling, vars, SetRelaisStep, ClearTimer,
                  StoreRelay, WritePin, CheckTimer, Scan, Publish, AutoSkip,
                  handleFill, SetFillM, handlePump, SetPumpM, WebReply, Answer,
                  WebRelais
    <2> QED BY <2>1
  <1> QED BY <1>1, <1>2, <1>3

\* The answer to a timed call arms the timer at exactly the time it promised.
LEMMA ArmTimer ==
    ASSUME NoWrap, FrameInv, ClockInv, WebReply
    PROVE  \A c \in Chan :
             /\ c # channel => UNCHANGED <<ch[c], due[c], acked[c]>>
             /\ c = channel /\ acked'[c] = "timed" =>
                   ch'[c] = due'[c] /\ due'[c] >= millis
             /\ c = channel => due'[c] < ULONG - 1
  <1> USE ConstantsAssumption DEF ConstantsAssumption, FrameInv, TypeInv, TypeOK
  <1> SUFFICES ASSUME NEW c \in Chan
               PROVE  /\ c # channel => UNCHANGED <<ch[c], due[c], acked[c]>>
                      /\ c = channel /\ acked'[c] = "timed" =>
                            ch'[c] = due'[c] /\ due'[c] >= millis
                      /\ c = channel => due'[c] < ULONG - 1
    OBVIOUS
  <1>1. channel \in Chan /\ Int8(channel) = channel
    BY Int8Range DEF WebReply, Answer, Frames
  <1>2. CASE c # channel
    BY <1>1, <1>2 DEF WebReply, Answer, setRelaisDuration
  <1>3. CASE c = channel /\ Kind = "timed"
    <2>1. duration \in Durations /\ duration \in Int /\ duration * Second \in Int
      BY <1>3 DEF Kind
    <2>2. duration >= 0 /\ Horizon + duration * Second < ULONG - 1
      BY <2>1 DEF NoWrap
    <2>3. duration * Second >= 0
      <3>1. duration \in Nat /\ Second \in Nat
        BY <2>1, <2>2
      <3> QED BY ONLY <3>1, MulNonNegative
    <2>4. millis + duration * Second \in 0 .. ULONG - 2
      BY <2>1, <2>2, <2>3 DEF ClockInv
    <2>5. Deadline(duration) = millis + duration * Second
      <3>1. ULONG \in Nat \ {0} /\ millis + duration * Second \in 0 .. ULONG - 1
        BY <2>4
      <3> QED BY ONLY <3>1, ModSmall DEF Deadline
    <2>6. due'[c] = millis + duration * Second
      BY <1>1, <1>3 DEF WebReply, Answer
    <2>7. ch'[c] = Deadline(duration)
      BY <1>1, <1>3, <2>1 DEF WebReply, setRelaisDuration
    <2> QED BY <1>3, <2>1, <2>3, <2>4, <2>5, <2>6, <2>7
  <1>4. CASE c = channel /\ Kind # "timed"
    BY <1>1, <1>4 DEF WebReply, Answer
  <1> QED BY <1>2, <1>3, <1>4

LEMMA OverrunNext ==
    ASSUME ValidChannels, NoWrap, FrameInv, OverrunInv, [Next]_vars
    PROVE  OverrunInv'
  <1>1. ClockInv'
    BY ClockNext DEF FrameInv, OverrunInv
  <1>2. SUFFICES ASSUME NEW c \in Chan
                 PROVE  due'[c] < ULONG - 1 /\ TimerInv(c)'
    BY <1>1 DEF OverrunInv
  <1> USE ConstantsAssumption DEF ConstantsAssumption, FrameInv, TypeInv, TypeOK,
          Flow, Frames, Owned, Calling, OverrunInv, ClockInv, TimerInv, Running,
          Unchecked, Chan, Task
  <1> USE DEF board, frame, auto, http, Goto, Idle
  <1>3. CASE Tick
    BY <1>3 DEF Tick
  <1>4. ASSUME NEW t \in Task, SetRelaisStep(t)
        PROVE  due'[c] < ULONG - 1 /\ TimerInv(c)'
    <2>1. CASE ClearTimer(t)
      BY <2>1 DEF ClearTimer
    <2>2. CASE StoreRelay(t)
      BY <2>2 DEF StoreRelay
    <2>3. CASE WritePin(t)
      BY <2>3 DEF WritePin, PinTargets
    <2> QED BY <1>4, <2>1, <2>2, <2>3 DEF SetRelaisStep
  <1>5. CASE ReadClock
    BY <1>5 DEF ReadClock
  <1>6. CASE CheckTimer(1, "ch1", "ch2")
    BY <1>6 DEF CheckTimer, setRelais, Expired, Inactive
  <1>7. CASE CheckTimer(2, "ch2", "scan")
    BY <1>7 DEF CheckTimer, setRelais, Expired, Inactive
  <1>8. CASE Scan
    BY <1>8 DEF Scan
  <1>9. CASE Publish
    BY <1>9 DEF Publish
  <1>10. CASE AutoSkip
    BY <1>10 DEF AutoSkip
  <1>11. CASE handleFill
    BY <1>11 DEF handleFill, setRelais
  <1>12. CASE SetFillM
    BY <1>12 DEF SetFillM
  <1>13. CASE handlePump
    BY <1>13 DEF handlePump, setRelais
  <1>14. CASE SetPumpM
    BY <1>14 DEF SetPumpM
  <1>15. CASE WebReply
    <2>1. /\ c # channel => UNCHANGED <<ch[c], due[c], acked[c]>>
          /\ c = channel /\ acked'[c] = "timed" =>
                ch'[c] = due'[c] /\ due'[c] >= millis
          /\ c = channel => due'[c] < ULONG - 1
      BY <1>15, ArmTimer
    <2> QED BY <1>15, <2>1 DEF WebReply, Answer
  <1>16. ASSUME NEW a \in ChannelArgs, NEW s \in BOOLEAN,
                NEW d \in Durations \cup {NoDuration}, WebRelais(a, s, d)
         PROVE  due'[c] < ULONG - 1 /\ TimerInv(c)'
    <2>1. a \in Chan /\ Int8(a) = a
      BY Int8Range DEF ValidChannels
    <2> QED BY <1>16, <2>1 DEF WebRelais, setRelais
  <1>17. CASE UNCHANGED vars
    BY <1>17 DEF vars
  <1> QED
    BY <1>3, <1>4, <1>5, <1>6, <1>7, <1>8, <1>9, <1>10, <1>11, <1>12, <1>13,
       <1>14, <1>15, <1>16, <1>17 DEF Next, Loop, WebHandling

\* The inductive invariant of everything that is said about timed relays.
TimedInv == TypeInv /\ Frames /\ OverrunInv

LEMMA TimedInvariant ==
    ASSUME ValidChannels, NoWrap
    PROVE  /\ Init => TimedInv
           /\ TimedInv /\ [Next]_vars => TimedInv'
  <1>1. Init => TimedInv
    <2>1. Init => OverrunInv
      BY ConstantsAssumption
      DEF ConstantsAssumption, Init, OverrunInv, ClockInv, TimerInv, Running
    <2> QED BY <2>1, TypeInit, FrameInit DEF TimedInv
  <1>2. TimedInv /\ [Next]_vars => TimedInv'
    <2> SUFFICES ASSUME TimedInv, [Next]_vars PROVE TimedInv'
      OBVIOUS
    <2>1. TypeInv'
      BY TypeNext DEF TimedInv
    <2>2. Frames'
      BY FrameNext DEF FrameInv, TimedInv
    <2>3. OverrunInv'
      BY OverrunNext DEF FrameInv, TimedInv
    <2> QED BY <2>1, <2>2, <2>3 DEF TimedInv
  <1> QED BY <1>1, <1>2

\* A relay switched on for a duration is off at most two loop passes after the
\* duration has elapsed, for every schedule of the two tasks, as long as the
\* clock and the deadlines stay clear of the wrap of millis().
THEOREM NoOverrun ==
    ASSUME ValidChannels, NoWrap PROVE Spec => []BoundedOverrun
  <1>1. TimedInv => BoundedOverrun
    <2> SUFFICES ASSUME TimedInv, NEW c \in Chan, ~Owned(c), acked[c] = "timed",
                        pin[c], ~WebBusy(c)
                 PROVE  millis <= due[c] + 2 * MaxLag
      BY DEF BoundedOverrun
    <2>1. Running(c)
      BY BusyChannel DEF Running, TimedInv
    <2>2. due[c] >= cur - MaxLag /\ millis <= cur + MaxLag
      BY <2>1 DEF TimedInv, OverrunInv, TimerInv, ClockInv
    <2> QED
      BY <2>2, ConstantsAssumption DEF ConstantsAssumption, TimedInv, TypeInv, TypeOK
  <1> QED BY <1>1, TimedInvariant, PTL DEF Spec

-----------------------------------------------------------------------------
(* The remaining time is reported truly                                    *)

\* In the first half of the clock's range the conversions between int and
\* unsigned long in getDuration() change nothing.
LEMMA DurationIsDifference ==
    ASSUME TypeOK, NEW c \in Chan, millis < ch[c], ch[c] < ULONG \div 2
    PROVE  getDuration(c) = ch[c] - millis
  <1> DEFINE half == ULONG \div 2
             left == ch[c] - millis
  <1>1. /\ millis \in Nat /\ ch[c] \in Nat /\ half \in Nat /\ 2 * half = ULONG
        /\ ULONG \in Nat \ {0}
    BY ConstantsAssumption DEF ConstantsAssumption, TypeOK
  <1>2. ToInt(ch[c]) = ch[c]
    BY DEF ToInt
  <1>3. left \in 0 .. ULONG - 1 /\ left > 0 /\ left < half
    BY <1>1
  <1>4. left % ULONG = left
    BY ONLY <1>1, <1>3, ModSmall
  <1>5. ToInt(left) = left
    BY <1>3 DEF ToInt
  <1>6. ch[c] > 0
    BY <1>1
  <1> QED BY <1>2, <1>3, <1>4, <1>5, <1>6 DEF getDuration

\* While a relay is on for a duration, what getDuration() reports over HTTP and
\* MQTT is what is left of the time its caller was promised, whatever older
\* timers and other calls did to the channel's deadline in between.
THEOREM RemainderIsTrue ==
    ASSUME ValidChannels, NoWrap PROVE Spec => []RemainingIsTold
  <1>1. TimedInv => RemainingIsTold
    <2> SUFFICES ASSUME TimedInv, NEW c \in Chan, ~Owned(c), acked[c] = "timed",
                        pin[c], ~WebBusy(c), ~Calling("loop", c),
                        millis < due[c], due[c] < ULONG \div 2
                 PROVE  getDuration(c) = due[c] - millis
      BY DEF RemainingIsTold
    <2>1. Running(c)
      BY BusyChannel DEF Running, TimedInv
    <2>2. ch[c] = due[c]
      BY <2>1 DEF TimedInv, OverrunInv, TimerInv
    <2> QED BY <2>2, DurationIsDifference DEF TimedInv, TypeInv
  <1> QED BY <1>1, TimedInvariant, PTL DEF Spec

-----------------------------------------------------------------------------
(* A relay reported off is off                                             *)

\* A pin that is high on a channel reported off is about to be written low;
\* and a web call about to raise a pin has already reported it.
ReportInv ==
    /\ \A c \in Chan :
          ~Owned(c) /\ pin[c] /\ ~relay[c] =>
             \/ pc["loop"] = "pin" /\ relais["loop"] = c
             \/ pc["web"] = "pin" /\ relais["web"] = c /\ ~state["web"]
    /\ \A c \in Chan :
          pc["web"] = "pin" /\ relais["web"] = c /\ state["web"] => relay[c]

LEMMA ReportNext ==
    ASSUME ValidChannels, WebPriority, FrameInv, ReportInv, [Next]_vars
    PROVE  ReportInv'
  <1> USE DEF ReportInv, FrameInv, TypeInv, TypeOK, Flow, Frames, Owned, Calling
  <1> USE DEF board, frame, auto, http, Goto, Idle, MayRun, Chan, Task
  <1>1. CASE Tick
    BY <1>1 DEF Tick
  <1>2. ASSUME NEW t \in Task, SetRelaisStep(t)
        PROVE  ReportInv'
    <2>1. CASE ClearTimer(t)
      BY <2>1 DEF ClearTimer
    <2>2. CASE StoreRelay(t)
      BY <1>2, <2>2 DEF SetRelaisStep, StoreRelay
    <2>3. CASE WritePin(t)
      BY <1>2, <2>3 DEF SetRelaisStep, WritePin, PinTargets
    <2> QED BY <1>2, <2>1, <2>2, <2>3 DEF SetRelaisStep
  <1>3. CASE ReadClock
    BY <1>3 DEF ReadClock
  <1>4. ASSUME NEW c \in Chan, NEW from, NEW to, CheckTimer(c, from, to)
        PROVE  ReportInv'
    BY <1>4 DEF CheckTimer, setRelais
  <1>5. CASE Scan
    BY <1>5 DEF Scan
  <1>6. CASE Publish
    BY <1>6 DEF Publish
  <1>7. CASE AutoSkip
    BY <1>7 DEF AutoSkip
  <1>8. CASE handleFill
    BY <1>8 DEF handleFill, setRelais
  <1>9. CASE SetFillM
    BY <1>9 DEF SetFillM
  <1>10. CASE handlePump
    BY <1>10 DEF handlePump, setRelais
  <1>11. CASE SetPumpM
    BY <1>11 DEF SetPumpM
  <1>12. CASE WebReply
    BY <1>12 DEF WebReply, Answer
  <1>13. ASSUME NEW a \in ChannelArgs, NEW s \in BOOLEAN,
                NEW d \in Durations \cup {NoDuration}, WebRelais(a, s, d)
         PROVE  ReportInv'
    <2>1. a \in Chan /\ Int8(a) = a
      BY Int8Range DEF ValidChannels
    <2>2. pc["web"] = "idle"
      BY <1>13 DEF WebRelais
    <2> QED BY <1>13, <2>1, <2>2 DEF WebRelais, setRelais
  <1>14. CASE UNCHANGED vars
    BY <1>14 DEF vars
  <1> QED
    BY <1>1, <1>2, <1>3, <1>4, <1>5, <1>6, <1>7, <1>8, <1>9, <1>10, <1>11,
       <1>12, <1>13, <1>14 DEF Next, Loop, WebHandling

\* When the web task is not preempted by the loop task, a relay that getState()
\* reports off, with no call to it under way, is off.
THEOREM ReportIsSafe ==
    ASSUME ValidChannels, WebPriority PROVE Spec => []ReportedOffIsOff
  <1> DEFINE I == TypeInv /\ Frames /\ ReportInv
  <1>1. Init => I
    <2>1. Init => ReportInv
      BY Zenon DEF Init, ReportInv, Task
    <2> QED BY <2>1, TypeInit, FrameInit
  <1>2. I /\ [Next]_vars => I'
    <2> SUFFICES ASSUME I, [Next]_vars PROVE I'
      OBVIOUS
    <2>1. TypeInv'
      BY TypeNext
    <2>2. Frames'
      BY FrameNext DEF FrameInv
    <2>3. ReportInv'
      BY ReportNext DEF FrameInv
    <2> QED BY <2>1, <2>2, <2>3
  <1>3. I => ReportedOffIsOff
    BY DEF ReportInv, ReportedOffIsOff, Calling
  <1> QED BY <1>1, <1>2, <1>3, PTL DEF Spec

-----------------------------------------------------------------------------
(* What energises a relay                                                  *)

\* The level calls for relay c, in a mode in which the automation drives it.
Called(c) ==
    \/ c = 1 /\ mode \in {1, 2} /\ Below(level, MaxL) /\ level <= FillL
    \/ c = 2 /\ mode = 1 /\ Above(level, MinL)

\* The loop task is inside a call that switches on only while the level, which no
\* other step of that call changes, calls for it.
CallInv == pc["loop"] # "idle" =>
              relais["loop"] \in Chan /\ (state["loop"] => Called(relais["loop"]))

\* A call by the loop task that switches off, or on for a reason.
LEMMA LoopCalls ==
    ASSUME TypeInv, NEW c \in Chan, NEW s \in BOOLEAN, setRelais("loop", c, s),
           s => Called(c), UNCHANGED <<level, mode>>
    PROVE  CallInv'
  <1>1. relais'["loop"] = c /\ state'["loop"] = s
    BY DEF setRelais, TypeInv, TypeOK, Task
  <1> QED BY <1>1 DEF CallInv, Called, Below, Above

\* A step after which the loop task is where it was, or outside any call.
LEMMA CallKept ==
    ASSUME CallInv,
           \/ pc'["loop"] = "idle"
           \/ /\ pc["loop"] # "idle" /\ relais'["loop"] = relais["loop"]
              /\ state'["loop"] = state["loop"] /\ UNCHANGED <<level, mode>>
    PROVE  CallInv'
  BY DEF CallInv, Called, Below, Above

LEMMA CallNext ==
    ASSUME TypeInv, CallInv, [Next]_vars
    PROVE  CallInv'
  <1> USE DEF board, frame, auto, http, Goto, Idle
  <1>1. CASE Tick
    BY <1>1, CallKept DEF Tick
  <1>2. ASSUME NEW t \in Task, SetRelaisStep(t)
        PROVE  CallInv'
    <2> USE DEF TypeInv, TypeOK, Task
    <2>1. CASE ClearTimer(t)
      BY <2>1, CallKept DEF ClearTimer
    <2>2. CASE StoreRelay(t)
      BY <2>2, CallKept DEF StoreRelay
    <2>3. CASE WritePin(t)
      BY <2>3, CallKept DEF WritePin
    <2> QED BY <1>2, <2>1, <2>2, <2>3 DEF SetRelaisStep
  <1>3. CASE ReadClock
    BY <1>3, CallKept DEF ReadClock
  <1>4. ASSUME NEW c \in Chan, NEW from, NEW to, CheckTimer(c, from, to)
        PROVE  CallInv'
    <2>1. CASE Expired(c)
      <3>1. setRelais("loop", c, FALSE) /\ UNCHANGED <<level, mode>>
        BY <1>4, <2>1 DEF CheckTimer
      <3> QED BY <3>1, LoopCalls
    <2>2. CASE ~Expired(c)
      BY <1>4, <2>2, CallKept DEF CheckTimer
    <2> QED BY <2>1, <2>2
  <1>5. CASE Scan
    BY <1>5, CallKept DEF Scan
  <1>6. CASE Publish
    BY <1>6, CallKept DEF Publish
  <1>7. CASE AutoSkip
    BY <1>7, CallKept DEF AutoSkip
  <1>8. CASE handleFill
    <2>1. CASE StopFill \/ StartFill
      <3>1. setRelais("loop", 1, ~StopFill) /\ UNCHANGED <<level, mode>>
        BY <1>8, <2>1 DEF handleFill
      <3>2. ~StopFill => Called(1)
        BY <1>8, <2>1 DEF handleFill, StopFill, StartFill, Called
      <3>3. 1 \in Chan /\ (~StopFill) \in BOOLEAN
        BY DEF Chan
      <3> QED BY <3>1, <3>2, <3>3, LoopCalls
    <2>2. CASE ~(StopFill \/ StartFill)
      BY <1>8, <2>2, CallKept DEF handleFill
    <2> QED BY <2>1, <2>2
  <1>9. CASE SetFillM
    BY <1>9, CallKept DEF SetFillM
  <1>10. CASE handlePump
    <2>1. setRelais("loop", 2, PumpWanted) /\ UNCHANGED <<level, mode>> /\ at = "pump"
      BY <1>10 DEF handlePump
    <2>2. PumpWanted => Called(2)
      BY <2>1 DEF PumpWanted, Called, TypeInv, Flow
    <2>3. 2 \in Chan /\ PumpWanted \in BOOLEAN
      BY DEF Chan, PumpWanted, Above
    <2> QED BY <2>1, <2>2, <2>3, LoopCalls
  <1>11. CASE SetPumpM
    BY <1>11, CallKept DEF SetPumpM
  <1>12. CASE WebReply
    BY <1>12, CallKept DEF WebReply, Answer
  <1>13. ASSUME NEW c \in ChannelArgs, NEW s \in BOOLEAN,
                NEW d \in Durations \cup {NoDuration}, WebRelais(c, s, d)
         PROVE  CallInv'
    BY <1>13, CallKept DEF WebRelais, setRelais, TypeInv, TypeOK, Task
  <1>14. CASE UNCHANGED vars
    BY <1>14, CallKept DEF vars
  <1> QED
    BY <1>1, <1>2, <1>3, <1>4, <1>5, <1>6, <1>7, <1>8, <1>9, <1>10, <1>11,
       <1>12, <1>13, <1>14 DEF Next, Loop, WebHandling, Task, Chan

\* Only digitalWrite() changes an output.
LEMMA OnlyWritePin ==
    ASSUME [Next]_vars
    PROVE  \/ UNCHANGED pin
           \/ \E t \in Task : WritePin(t)
  <1> USE DEF board, frame, auto, http
  <1>1. CASE Tick
    BY <1>1 DEF Tick
  <1>2. ASSUME NEW t \in Task, SetRelaisStep(t)
        PROVE  UNCHANGED pin \/ WritePin(t)
    BY <1>2 DEF SetRelaisStep, ClearTimer, StoreRelay
  <1>3. CASE ReadClock \/ Scan \/ Publish
    BY <1>3 DEF ReadClock, Scan, Publish
  <1>4. ASSUME NEW c \in Chan, NEW from, NEW to, CheckTimer(c, from, to)
        PROVE  UNCHANGED pin
    BY <1>4 DEF CheckTimer
  <1>5. CASE AutoSkip \/ handleFill \/ SetFillM \/ handlePump \/ SetPumpM
    BY <1>5 DEF AutoSkip, handleFill, SetFillM, handlePump, SetPumpM
  <1>6. CASE WebReply
    BY <1>6 DEF WebReply, Answer
  <1>7. ASSUME NEW c \in ChannelArgs, NEW s \in BOOLEAN,
               NEW d \in Durations \cup {NoDuration}, WebRelais(c, s, d)
        PROVE  UNCHANGED pin
    BY <1>7 DEF WebRelais
  <1>8. CASE UNCHANGED vars
    BY <1>8 DEF vars
  <1> QED
    BY <1>1, <1>2, <1>3, <1>4, <1>5, <1>6, <1>7, <1>8
    DEF Next, Loop, WebHandling, Task, Chan

\* Whatever calls arrive, with channels that do not exist too, and however the two
\* tasks and the clock interleave: a relay is energised by a web call that asks
\* for it, or by the automation: relay 1 at or below the fill level, relay 2 above
\* min, also above max (setRelais, handleRelais, handleFill, handlePump).
THEOREM RelaysEnergisedForReason == Spec => EnergisedForReason
  <1> DEFINE Reason ==
        \A c \in Chan : ~pin[c] /\ pin'[c] =>
           \/ /\ pc["web"] = "pin" /\ pc'["web"] = "idle" /\ state["web"]
              /\ c \in PinTargets(relais["web"])
           \/ c = 1 /\ mode \in {1, 2} /\ Below(level, MaxL) /\ level <= FillL
           \/ c = 2 /\ mode = 1 /\ Above(level, MinL)
  <1>1. Init => CallInv
    BY DEF Init, CallInv, Task
  <1>2. TypeInv /\ CallInv /\ [Next]_vars => CallInv'
    BY CallNext
  <1>3. TypeInv /\ CallInv /\ [Next]_vars => [Reason]_vars
    <2> SUFFICES ASSUME TypeInv, CallInv, [Next]_vars, NEW c \in Chan, ~pin[c], pin'[c]
                 PROVE  \/ /\ pc["web"] = "pin" /\ pc'["web"] = "idle" /\ state["web"]
                           /\ c \in PinTargets(relais["web"])
                        \/ Called(c)
      BY DEF Called
    <2>1. PICK t \in Task : WritePin(t)
      BY OnlyWritePin
    <2>2. PICK p \in PinTargets(relais[t]) :
              pin' = [d \in Chan |-> IF d = p THEN state[t] ELSE pin[d]]
      BY <2>1 DEF WritePin
    <2>3. p = c /\ state[t]
      BY <2>2
    <2>4. CASE t = "loop"
      <3>1. pc["loop"] # "idle"
        BY <2>1, <2>4 DEF WritePin
      <3> QED BY <2>2, <2>3, <2>4, <3>1 DEF CallInv, PinTargets
    <2>5. CASE t = "web"
      BY <2>1, <2>2, <2>3, <2>5 DEF WritePin, TypeInv, TypeOK, Task
    <2> QED BY <2>4, <2>5 DEF Task
  <1> QED BY TypeInit, TypeNext, <1>1, <1>2, <1>3, PTL DEF Spec, EnergisedForReason
=============================================================================
