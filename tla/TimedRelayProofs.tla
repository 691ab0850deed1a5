-------------------------- MODULE TimedRelayProofs --------------------------
(***************************************************************************)
(* RelayControl implements TimedRelay: its stores, timers and tasks keep   *)
(* what the "relais" call promises, for every clock width, lag, number of  *)
(* calls and schedule of the two tasks.                                    *)
(***************************************************************************)
EXTENDS RelayControlProofs

\* The conjunction of the inductive invariants the mapping needs.
MappingInv == TypeInv /\ Frames /\ OffInv /\ OverrunInv

\* The abstract state: what a step that stores none of it leaves alone.
Mapped == <<millis, pin, acked, due, web, channel, mode>>

LEMMA MappingInvariant ==
    ASSUME ValidChannels, NoWrap
    PROVE  /\ Init => MappingInv
           /\ MappingInv /\ [Next]_vars => MappingInv'
  <1>1. Init => MappingInv
    <2>1. Init => OffInv
      BY DEF Init, OffInv, OffStaysOff, WebBusy
    <2>2. Init => OverrunInv
      BY ConstantsAssumption
      DEF ConstantsAssumption, Init, OverrunInv, ClockInv, TimerInv, Running
    <2> QED BY <2>1, <2>2, TypeInit, FrameInit DEF MappingInv
  <1>2. MappingInv /\ [Next]_vars => MappingInv'
    <2> SUFFICES ASSUME MappingInv, [Next]_vars PROVE MappingInv'
      OBVIOUS
    <2> USE DEF MappingInv, FrameInv
    <2>1. TypeInv'
      BY TypeNext
    <2>2. Frames'
      BY FrameNext
    <2>3. OffInv'
      BY <2>2, OffNext
    <2>4. OverrunInv'
      BY OverrunNext
    <2> QED BY <2>1, <2>2, <2>3, <2>4
  <1> QED BY <1>1, <1>2

\* A step that touches none of the mapped variables is a stutter.
LEMMA StutterStep ==
    ASSUME UNCHANGED Mapped PROVE UNCHANGED Promise!vars
  BY DEF Mapped, Promise!vars, Owned, Int8

\* digitalWrite() switches the channel its task called setRelais() for.
LEMMA PinStep ==
    ASSUME MappingInv, NEW t \in Task, WritePin(t)
    PROVE  \E c \in Chan, s \in BOOLEAN : Promise!Switch(c, s)
  <1> USE DEF MappingInv
  <1>1. /\ relais[t] \in Chan /\ pc[t] # "idle" /\ state[t] \in BOOLEAN
        /\ t = "web" => web = "busy" /\ relais[t] = channel
        /\ t = "loop" /\ ~Owned(relais[t]) => ~state[t]
    BY DEF Frames, WritePin, Calling, Task, TypeInv, TypeOK
  <1>2. pin' = [pin EXCEPT ![relais[t]] = state[t]]
    BY <1>1 DEF WritePin, PinTargets, TypeInv, TypeOK
  <1>3. t = "web" => (IF web = "busy" THEN Int8(channel) ELSE 0) = relais[t]
    BY <1>1, Int8Range
  <1>4. UNCHANGED <<millis, acked, due, web, channel, mode>>
    BY DEF WritePin, http
  <1>5. Promise!Switch(relais[t], state[t])
    BY <1>1, <1>2, <1>3, <1>4 DEF Promise!Switch, Owned, Int8, Task
  <1> QED BY <1>1, <1>5

\* The answer to a call is about its channel and finds it as promised.
LEMMA AnswerStep ==
    ASSUME NoWrap, MappingInv, WebReply
    PROVE  \E c \in Chan, k \in {"off", "on", "timed"} :
              Promise!Answer(c, k, due'[c])
  <1> USE DEF MappingInv
  <1>1. web = "busy" /\ web' = "idle" /\ channel \in Chan /\ Int8(channel) = channel
    BY Int8Range DEF Frames, WebReply, Answer
  <1>2. /\ acked' = [acked EXCEPT ![channel] = Kind]
        /\ due' = [due EXCEPT ![channel] = due'[channel]]
    BY <1>1 DEF WebReply, Answer, TypeInv, TypeOK
  <1>3. Kind = "off" /\ ~Owned(channel) => ~pin[channel]
    BY <1>1 DEF OffInv, WebBusy, Kind, WebReply, Answer
  <1>4. Kind = "timed" => due'[channel] >= millis
    <2>1. acked'[channel] = Kind
      BY <1>1, <1>2 DEF TypeInv, TypeOK
    <2> QED BY <1>1, <2>1, ArmTimer DEF FrameInv, OverrunInv
  <1>5. UNCHANGED <<millis, pin, mode>>
    BY DEF WebReply, Answer
  <1>6. Kind \in {"off", "on", "timed"}
    BY DEF Kind
  <1>7. Promise!Answer(channel, Kind, due'[channel])
    BY <1>1, <1>2, <1>3, <1>4, <1>5 DEF Promise!Answer, Owned
  <1> QED BY <1>1, <1>6, <1>7

\* The clock is one pass ahead of a deadline's pass, which is one pass late.
LEMMA TwoPasses ==
    ASSUME NEW now \in Int, NEW pass \in Int, NEW end \in Int, NEW lag \in Int,
           end >= pass - lag, now <= pass + lag
    PROVE  now <= end + 2 * lag
  OBVIOUS

\* A tick finds no output that is late already.
LEMMA TickStep ==
    ASSUME NoWrap, MappingInv, MappingInv', Tick
    PROVE  Promise!Tick
  <1> USE ConstantsAssumption DEF ConstantsAssumption, MappingInv
  <1>1. millis' = millis + 1
    <2>1. ULONG \in Nat \ {0} /\ millis + 1 \in 0 .. ULONG - 1
      BY DEF Tick, NoWrap, TypeInv, TypeOK
    <2> QED BY ONLY <2>1, Tick, ModSmall DEF Tick
  <1>2. UNCHANGED <<pin, acked, due, web, channel, mode>>
    BY DEF Tick, board, http
  <1>3. ASSUME NEW c \in Chan
        PROVE  ~Promise!Late(c, millis')
    <2>1. SUFFICES ASSUME ~Owned(c), c # (IF web = "busy" THEN Int8(channel) ELSE 0),
                          pin[c], acked[c] = "timed"
                   PROVE  millis' <= due[c] + 2 * MaxLag
      <3>1. millis' \in Int /\ due[c] + 2 * MaxLag \in Int
        BY DEF TypeInv, TypeOK
      <3> QED BY <3>1 DEF Promise!Late
    <2>2. ~(web = "busy" /\ channel = c)
      BY <2>1, Int8Range
    <2>3. Running(c)'
      BY <1>2, <2>1, <2>2 DEF Running, Owned
    <2>4. due'[c] >= cur' - MaxLag /\ millis' <= cur' + MaxLag
      BY <2>3 DEF OverrunInv, TimerInv, ClockInv
    <2>5. millis' \in Int /\ cur' \in Int /\ due[c] \in Int /\ MaxLag \in Int
      BY DEF TypeInv, TypeOK
    <2>6. due'[c] = due[c]
      BY <1>2
    <2> QED BY <2>4, <2>5, <2>6, TwoPasses
  <1> QED BY <1>1, <1>2, <1>3 DEF Promise!Tick, Owned

\* Every step of the device is a step of TimedRelay, or none.
LEMMA StepImplements ==
    ASSUME ValidChannels, NoWrap, MappingInv, MappingInv', [Next]_vars
    PROVE  [Promise!Next]_(Promise!vars)
  <1> USE DEF board, frame, auto, http, Goto
  <1>1. CASE Tick
    BY <1>1, TickStep DEF Promise!Next
  <1>2. ASSUME NEW t \in Task, SetRelaisStep(t)
        PROVE  [Promise!Next]_(Promise!vars)
    <2>1. CASE ClearTimer(t) \/ StoreRelay(t)
      BY <2>1, StutterStep DEF ClearTimer, StoreRelay, Mapped
    <2>2. CASE WritePin(t)
      BY <2>2, PinStep DEF Promise!Next
    <2> QED BY <1>2, <2>1, <2>2 DEF SetRelaisStep
  <1>3. CASE ReadClock \/ Scan \/ Publish \/ AutoSkip
    BY <1>3, StutterStep DEF ReadClock, Scan, Publish, AutoSkip, Mapped
  <1>4. CASE CheckTimer(1, "ch1", "ch2") \/ CheckTimer(2, "ch2", "scan")
    BY <1>4, StutterStep DEF CheckTimer, Mapped
  <1>5. CASE handleFill \/ SetFillM \/ handlePump \/ SetPumpM
    BY <1>5, StutterStep DEF handleFill, SetFillM, handlePump, SetPumpM, Mapped
  <1>6. CASE WebReply
    BY <1>6, AnswerStep DEF Promise!Next
  <1>7. ASSUME NEW a \in ChannelArgs, NEW s \in BOOLEAN,
               NEW d \in Durations \cup {NoDuration}, WebRelais(a, s, d)
        PROVE  [Promise!Next]_(Promise!vars)
    <2>1. a \in Chan /\ Int8(a) = a
      BY Int8Range DEF ValidChannels
    <2>2. Promise!Call(a)
      BY <1>7, <2>1 DEF WebRelais, Promise!Call, Owned
    <2> QED BY <2>1, <2>2 DEF Promise!Next
  <1>8. CASE UNCHANGED vars
    BY <1>8, StutterStep DEF vars, Mapped
  <1> QED
    BY <1>1, <1>2, <1>3, <1>4, <1>5, <1>6, <1>7, <1>8
    DEF Next, Loop, WebHandling, Task

\* The device keeps what the API promises (KeepsPromise): an output is switched
\* on by a call only, a call answered with "off" leaves it off, and a timed one
\* is off two loop passes after its time, whatever the interleaving of
\* setRelais(), handleRelais() and handleAPICall().
THEOREM ImplementsTimedRelay ==
    ASSUME ValidChannels, NoWrap PROVE Spec => KeepsPromise
  <1>1. Init => Promise!Init
    BY DEF Init, Promise!Init
  <1>2. Init => MappingInv
    BY MappingInvariant
  <1>3. MappingInv /\ [Next]_vars => MappingInv'
    BY MappingInvariant
  <1>4. MappingInv /\ MappingInv' /\ [Next]_vars => [Promise!Next]_(Promise!vars)
    BY StepImplements
  <1> QED BY <1>1, <1>2, <1>3, <1>4, PTL DEF Spec, KeepsPromise, Promise!Spec
=============================================================================
