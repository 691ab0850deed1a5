------------------------------ MODULE MqttLink ------------------------------
(***************************************************************************)
(* MQTTHandler: connecting to the broker at boot, publishing once per      *)
(* interval, reconnecting from loop(), and the status topic with its last  *)
(* will.  The MQTT client library, the broker and the network are          *)
(* external, modelled from how MQTTHandler uses them: the library's task   *)
(* changes the state of the client between any two passes of loop(), and   *)
(* the broker notices a lost client late.  Whether the broker is in reach  *)
(* is up to the Wi-Fi link: Connectivity composes the two.                 *)
(***************************************************************************)
EXTENDS Integers

CONSTANTS
    ULONG,           \* number of values of an unsigned long
    MQTT_INTERVAL,   \* ticks between two publications
    RECONNECT,       \* ticks after which loop() runs setup() again
    MaxChanges       \* bound: changes of the surroundings and the configuration

ASSUME MqttAssumption ==
    /\ ULONG \in Nat /\ MaxChanges \in Nat
    /\ MQTT_INTERVAL \in 1 .. ULONG - 1 /\ RECONNECT \in 1 .. ULONG - 2

VARIABLES
    millis,
    running,       \* setup() is over, loop() runs
    enabled, host, \* the configuration's mqtt.state; it has a host and a port
    isEnabled, reconnectMQTT, previousMillisMQTT,
    client,        \* external: "disconnected", "connecting", "connected"
    outbox,        \* external: the "online" message is not delivered yet
    reach,         \* external: the broker is in reach over Wi-Fi
    session,       \* external: the broker holds a session of this client
    retained,      \* external: retained message of waterlevel/status
    heard,         \* history: last message on it a standing subscriber got
    reported,      \* history: loop() published since the last tick
    looped,        \* loop() ran since the last tick
    changes

broker == <<session, retained, heard>>
timing == <<reconnectMQTT, previousMillisMQTT>>
vars == <<millis, running, enabled, host, isEnabled, timing, client, outbox, reach,
          broker, reported, looped, changes>>

Since(t) == (millis - t) % ULONG

-----------------------------------------------------------------------------
(* MQTTHandler                                                             *)

setupWithoutFlag ==
    /\ UNCHANGED isEnabled
    /\ reconnectMQTT' = IF enabled THEN millis ELSE reconnectMQTT
    /\ client' = IF enabled /\ host /\ client = "disconnected" THEN "connecting" ELSE client

\* setup(): connect() does nothing unless the client is disconnected.
setup ==
    /\ isEnabled' = (isEnabled \/ enabled)
    /\ reconnectMQTT' = IF enabled THEN millis ELSE reconnectMQTT
    /\ client' = IF enabled /\ host /\ client = "disconnected" THEN "connecting" ELSE client

onConnectSilent == outbox' = FALSE

\* The listener setup() installs publishes "online".
onConnect == outbox' = TRUE

\* main.cpp calls setup() only if Wi-Fi is up at boot, broker or no broker.
Boot(wifi) ==
    /\ ~running /\ running' = TRUE
    /\ IF wifi THEN setup ELSE UNCHANGED <<isEnabled, reconnectMQTT, client>>
    /\ UNCHANGED <<millis, enabled, host, previousMillisMQTT, outbox, reach, broker,
                   reported, looped, changes>>

PublishDue == client = "connected" /\ Since(previousMillisMQTT) >= MQTT_INTERVAL
ReconnectDue == client # "connected" /\ Since(reconnectMQTT) > RECONNECT

\* One pass of loop(): the eleven publications, or setup() again, or nothing.
loop ==
    /\ running /\ looped' = TRUE
    /\ IF isEnabled /\ PublishDue
       THEN previousMillisMQTT' = millis /\ reported' = TRUE
       ELSE UNCHANGED <<previousMillisMQTT, reported>>
    /\ IF isEnabled /\ ReconnectDue
       THEN setup
       ELSE UNCHANGED <<isEnabled, reconnectMQTT, client>>
    /\ UNCHANGED <<millis, running, enabled, host, outbox, reach, broker, changes>>

-----------------------------------------------------------------------------
(* The client library and the broker                                       *)

\* The broker accepts; a session the client left behind ends with its will.
Connect ==
    /\ client = "connecting" /\ reach
    /\ client' = "connected" /\ session' = TRUE /\ onConnect
    /\ retained' = IF session THEN "offline" ELSE retained
    /\ heard' = IF session THEN "offline" ELSE heard
    /\ UNCHANGED <<millis, running, enabled, host, isEnabled, timing, reach, reported,
                   looped, changes>>

\* "online" arrives.  publish() does not ask the broker to retain it.
Deliver ==
    /\ client = "connected" /\ outbox /\ session /\ reach
    /\ outbox' = FALSE /\ heard' = "online"
    /\ UNCHANGED <<millis, running, enabled, host, isEnabled, timing, client, reach,
                   session, retained, reported, looped, changes>>

\* An attempt fails, or the client notices that its connection is gone.
Lose ==
    /\ \/ client = "connecting" /\ ~reach
       \/ client = "connected" /\ (~reach \/ ~session)
    /\ client' = "disconnected" /\ outbox' = FALSE
    /\ UNCHANGED <<millis, running, enabled, host, isEnabled, timing, reach, broker,
                   reported, looped, changes>>

\* The keep-alive runs out: the broker publishes the last will, retained.
LastWill ==
    /\ session /\ (~reach \/ client # "connected")
    /\ session' = FALSE /\ retained' = "offline" /\ heard' = "offline"
    /\ UNCHANGED <<millis, running, enabled, host, isEnabled, timing, client, outbox,
                   reach, reported, looped, changes>>

\* A "save" changes the mqtt part of the configuration.
SaveChanges ==
    /\ running /\ changes < MaxChanges /\ changes' = changes + 1
    /\ enabled' \in BOOLEAN /\ host' \in BOOLEAN
    /\ UNCHANGED <<millis, running, isEnabled, timing, client, outbox, reach,
                   broker, reported, looped>>

\* loop() runs at least once per tick.
Tick ==
    /\ running /\ looped
    /\ millis' = (millis + 1) % ULONG /\ reported' = FALSE /\ looped' = FALSE
    /\ UNCHANGED <<running, enabled, host, isEnabled, timing, client, outbox, reach,
                   broker, changes>>

Init ==
    /\ millis = 0 /\ running = FALSE
    /\ enabled \in BOOLEAN /\ host \in BOOLEAN
    /\ isEnabled = FALSE /\ reconnectMQTT = 0 /\ previousMillisMQTT = 0
    /\ client = "disconnected" /\ outbox = FALSE /\ reach = FALSE
    /\ session = FALSE /\ retained = "none" /\ heard = "none"
    /\ reported = FALSE /\ looped = FALSE /\ changes = 0

\* The steps of loop(), the library and the broker.
Step == loop \/ Connect \/ Deliver \/ Lose \/ LastWill \/ SaveChanges \/ Tick

\* loop() keeps running, and the library and the broker finish what they began.
Fairness ==
    /\ WF_vars(loop) /\ WF_vars(Tick)
    /\ WF_vars(Connect) /\ WF_vars(Deliver) /\ WF_vars(Lose) /\ WF_vars(LastWill)

-----------------------------------------------------------------------------
(* Properties                                                              *)

\* Every variable keeps its type, and a client that is connecting or connected
\* was enabled by setup().
TypeOK ==
    /\ {millis, reconnectMQTT, previousMillisMQTT} \subseteq 0 .. ULONG - 1
    /\ {running, enabled, host, isEnabled, outbox, reach, session, reported, looped} \subseteq BOOLEAN
    /\ client \in {"disconnected", "connecting", "connected"}
    /\ retained \in {"none", "offline", "online"}
    /\ heard \in {"none", "offline", "online"}
    /\ changes \in 0 .. MaxChanges
    /\ client # "disconnected" => isEnabled

\* A standing subscriber of waterlevel/status knows that the device is online
\* once the message onConnect() sends is delivered: no late last will of an
\* earlier connection overrides it.
SubscriberKnows ==
    client = "connected" /\ session /\ ~outbox => heard = "online"

\* setup(): the last will is there "to notify the online/offline state", and
\* onConnect() is to "Reset last Will": a subscriber that comes later is not
\* told by the retained message that a connected device is offline.
LateSubscriberKnows ==
    client = "connected" /\ session /\ ~outbox => retained # "offline"
=============================================================================
