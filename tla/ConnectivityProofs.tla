------------------------- MODULE ConnectivityProofs -------------------------
(***************************************************************************)
(* Proofs about the composition of the Wi-Fi link and MQTT for every clock *)
(* width, every interval and any number of changes of the surroundings.    *)
(***************************************************************************)
EXTENDS Connectivity, TLAPS

\* The clock stays an unsigned long.
LEMMA ClockRange ==
    ASSUME NEW t \in 0 .. ULONG - 1
    PROVE  (t + 1) % ULONG \in 0 .. ULONG - 1
  <1>1. ULONG \in Nat \ {0}
    BY MqttAssumption DEF MqttAssumption
  <1> QED BY <1>1

\* The broker is in reach over the link and nowhere else.
LinkTypes == up \in BOOLEAN /\ server \in BOOLEAN

\* The last will cannot come after "online": a client that is connected to a
\* session has that session's message in the outbox or delivered.
Inv == TypeOK /\ LinkTypes /\ SubscriberKnows

LEMMA InitInv == AllInit => Inv
  <1> SUFFICES ASSUME AllInit PROVE Inv
    OBVIOUS
  <1>1. /\ millis \in 0 .. ULONG - 1 /\ reconnectMQTT \in 0 .. ULONG - 1
        /\ previousMillisMQTT \in 0 .. ULONG - 1 /\ changes \in 0 .. MaxChanges
    BY MqttAssumption DEF MqttAssumption, AllInit, Init
  <1>2. /\ {running, enabled, host, isEnabled, outbox, reach, session, reported, looped}
               \subseteq BOOLEAN
        /\ LinkTypes
    BY Zenon DEF AllInit, Init, Link!Init, LinkTypes
  <1>3. SubscriberKnows
    BY DEF AllInit, Init, SubscriberKnows
  <1> QED BY <1>1, <1>2, <1>3 DEF AllInit, Init, TypeOK, Inv

\* setup() keeps the types, at boot and when loop() calls it again.
LEMMA SetupTypes ==
    ASSUME TypeOK, setup
    PROVE  /\ isEnabled' \in BOOLEAN /\ reconnectMQTT' \in 0 .. ULONG - 1
           /\ client' \in {"disconnected", "connecting", "connected"}
           /\ client' # "disconnected" => isEnabled'
           /\ client' = "connected" <=> client = "connected"
  BY DEF TypeOK, setup

LEMMA NextInv ==
    ASSUME Inv, [AllNext]_all
    PROVE  Inv'
  <1> USE DEF Inv, TypeOK, LinkTypes, SubscriberKnows
  <1> USE DEF broker, timing, mqttButReach, link, ReachFollows
  <1>1. CASE BootMqtt
    <2>1. CASE up
      <3>1. setup
        BY <1>1, <2>1 DEF BootMqtt, Boot
      <3> QED BY <1>1, <3>1, SetupTypes DEF BootMqtt, Boot
    <2>2. CASE ~up
      BY <1>1, <2>2 DEF BootMqtt, Boot
    <2> QED BY <2>1, <2>2
  <1>2. ASSUME reach' = (up' /\ server'), up' \in BOOLEAN, server' \in BOOLEAN,
               UNCHANGED mqttButReach, changes' \in 0 .. MaxChanges
        PROVE  Inv'
    BY <1>2
  <1>3. CASE LinkStep
    BY <1>3, <1>2 DEF LinkStep, Link!Join, Link!Ready, Link!Up, Link!Down
  <1>4. CASE NetworkChanges
    BY <1>4, <1>2, MqttAssumption
    DEF MqttAssumption, NetworkChanges, Link!NetworkChanges
  <1>5. CASE ServerChanges
    <2>1. server' \in BOOLEAN /\ up' \in BOOLEAN
      BY <1>5, Zenon DEF ServerChanges
    <2>2. changes' \in 0 .. MaxChanges
      BY <1>5, MqttAssumption DEF MqttAssumption, ServerChanges
    <2> QED BY <1>5, <2>1, <2>2, <1>2 DEF ServerChanges
  <1>6. ASSUME MqttStep PROVE Inv'
    <2>1. CASE loop
      <3>1. previousMillisMQTT' \in 0 .. ULONG - 1 /\ reported' \in BOOLEAN
        BY <2>1 DEF loop
      <3>2. CASE isEnabled /\ ReconnectDue
        BY <1>6, <2>1, <3>1, <3>2, SetupTypes DEF MqttStep, loop
      <3>3. CASE ~(isEnabled /\ ReconnectDue)
        BY <1>6, <2>1, <3>1, <3>3 DEF MqttStep, loop
      <3> QED BY <3>2, <3>3
    <2>2. CASE Connect
      BY <1>6, <2>2 DEF MqttStep, Connect, onConnect
    <2>3. CASE Deliver
      BY <1>6, <2>3 DEF MqttStep, Deliver
    <2>4. CASE Lose
      BY <1>6, <2>4 DEF MqttStep, Lose
    <2>5. CASE LastWill
      BY <1>6, <2>5 DEF MqttStep, LastWill
    <2>6. CASE SaveChanges
      BY <1>6, <2>6, MqttAssumption DEF MqttAssumption, MqttStep, SaveChanges
    <2>7. CASE Tick
      BY <1>6, <2>7, ClockRange DEF MqttStep, Tick
    <2> QED BY <1>6, <2>1, <2>2, <2>3, <2>4, <2>5, <2>6, <2>7 DEF MqttStep, Step
  <1>7. CASE UNCHANGED all
    BY <1>7 DEF all, vars
  <1> QED BY <1>1, <1>3, <1>4, <1>5, <1>6, <1>7 DEF AllNext

\* Every variable of the MQTT client keeps its type, and a client is connecting
\* or connected only after setup() has enabled it.
THEOREM TypeCorrect == AllSpec => []TypeOK
  <1>1. Inv /\ [AllNext]_all => Inv'
    BY NextInv
  <1>2. Inv => TypeOK
    BY DEF Inv
  <1> QED BY InitInv, <1>1, <1>2, PTL DEF AllSpec

\* However link, broker and client lose and find each other, a standing
\* subscriber that got the message of the present session knows that the device
\* is online: an earlier session's last will comes before it (onConnect).
THEOREM StatusIsKnown == AllSpec => []SubscriberKnows
  <1>1. Inv /\ [AllNext]_all => Inv'
    BY NextInv
  <1>2. Inv => SubscriberKnows
    BY DEF Inv
  <1> QED BY InitInv, <1>1, <1>2, PTL DEF AllSpec

-----------------------------------------------------------------------------
(* A device that is not set up                                             *)

\* loop() runs and setup() has not enabled MQTT.
Silent == running /\ ~isEnabled

\* Only an enabled client publishes.
LEMMA ReportNext ==
    ASSUME Inv, reported => isEnabled, [AllNext]_all
    PROVE  (reported => isEnabled)'
  <1> USE DEF broker, timing, mqttButReach, link, ReachFollows
  <1>1. CASE BootMqtt
    BY <1>1 DEF BootMqtt, Boot, setup
  <1>2. CASE LinkStep \/ NetworkChanges \/ ServerChanges
    BY <1>2 DEF LinkStep, NetworkChanges, ServerChanges
  <1>3. CASE MqttStep
    <2>1. CASE loop
      BY <2>1 DEF loop, setup
    <2>2. CASE Tick
      BY <2>2, Zenon DEF Tick
    <2>3. CASE Connect \/ Deliver \/ Lose \/ LastWill \/ SaveChanges
      <3>1. UNCHANGED <<reported, isEnabled>>
        BY <2>3 DEF Connect, Deliver, Lose, LastWill, SaveChanges
      <3> QED BY <3>1
    <2> QED BY <1>3, <2>1, <2>2, <2>3 DEF MqttStep, Step
  <1>4. CASE UNCHANGED all
    BY <1>4 DEF all, vars
  <1> QED BY <1>1, <1>2, <1>3, <1>4 DEF AllNext

\* The reconnect in loop() asks for isEnabled before it calls setup().
LEMMA SilentNext ==
    ASSUME Silent, [AllNext]_all PROVE Silent'
  <1> USE DEF Silent, broker, timing, mqttButReach, link, ReachFollows
  <1>1. CASE BootMqtt
    BY <1>1 DEF BootMqtt, Boot
  <1>2. CASE LinkStep \/ NetworkChanges \/ ServerChanges
    <2>1. UNCHANGED <<running, isEnabled>>
      BY <1>2 DEF LinkStep, NetworkChanges, ServerChanges
    <2> QED BY <2>1
  <1>3. CASE MqttStep
    <2>1. CASE loop
      BY <2>1 DEF loop
    <2>2. CASE Connect \/ Deliver \/ Lose \/ LastWill \/ SaveChanges \/ Tick
      <3>1. UNCHANGED <<running, isEnabled>>
        BY <2>2 DEF Connect, Deliver, Lose, LastWill, SaveChanges, Tick
      <3> QED BY <3>1
    <2> QED BY <1>3, <2>1, <2>2 DEF MqttStep, Step
  <1>4. CASE UNCHANGED all
    BY <1>4 DEF all, vars
  <1> QED BY <1>1, <1>2, <1>3, <1>4 DEF AllNext

\* A device that boots without Wi-Fi, or with MQTT disabled, neither connects nor
\* publishes until it is restarted, whatever becomes of network and broker and
\* whatever is saved (the safety half of ReportsIfSetUp: setup() of main.cpp and
\* the test of isEnabled in loop()).
THEOREM SilentUntilRestart ==
    AllSpec => [](Silent => [](client = "disconnected" /\ ~reported))
  <1>1. Inv /\ [AllNext]_all => Inv'
    BY NextInv
  <1>2. AllInit => (reported => isEnabled)
    BY DEF AllInit, Init
  <1>3. Inv /\ (reported => isEnabled) /\ [AllNext]_all => (reported => isEnabled)'
    BY ReportNext
  <1>4. Silent /\ [AllNext]_all => Silent'
    BY SilentNext
  <1>5. Inv /\ (reported => isEnabled) /\ Silent => client = "disconnected" /\ ~reported
    BY DEF Inv, TypeOK, Silent
  <1> QED BY InitInv, <1>1, <1>2, <1>3, <1>4, <1>5, PTL DEF AllSpec
=============================================================================
