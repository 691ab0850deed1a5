---------------------------- MODULE Connectivity ----------------------------
(***************************************************************************)
(* From the network to a published reading: the Wi-Fi link (as StationLink *)
(* describes it), the order in which main.cpp's setup() starts it and      *)
(* MQTT, and the MQTT client.  The link may come and go at any point,      *)
(* between WiFiHandler::setup() and the test of isConnected() that decides *)
(* about MQTT too.                                                         *)
(***************************************************************************)
EXTENDS MqttLink

VARIABLES
    network, ready, station, up,    \* the Wi-Fi link
    server                          \* external: the broker's host is on the network

link == <<network, ready, station, up>>
all == <<vars, link, server>>

Link == INSTANCE StationLink

mqttButReach == <<millis, running, enabled, host, isEnabled, timing, client, outbox,
                  broker, reported, looped>>

BootAlways == ready /\ Boot(TRUE) /\ UNCHANGED <<link, server>>

\* setup() of main.cpp goes on when WiFiHandler::setup() has returned.
BootMqtt == ready /\ Boot(up) /\ UNCHANGED <<link, server>>

\* The broker is in reach while the link is up and its host is there; nothing
\* else of MQTT changes with them.
ReachFollows == reach' = (up' /\ server') /\ UNCHANGED mqttButReach

LinkStep ==
    /\ Link!Join \/ Link!Ready \/ Link!Up \/ Link!Down
    /\ UNCHANGED <<server, changes>>
    /\ ReachFollows

NetworkChanges ==
    /\ changes < MaxChanges /\ changes' = changes + 1
    /\ Link!NetworkChanges /\ UNCHANGED server
    /\ ReachFollows

ServerChanges ==
    /\ changes < MaxChanges /\ changes' = changes + 1
    /\ server' = ~server /\ UNCHANGED link
    /\ ReachFollows

MqttStep == Step /\ UNCHANGED <<link, server>>

AllInit == Init /\ Link!Init /\ server \in BOOLEAN

AllNext == BootMqtt \/ LinkStep \/ NetworkChanges \/ ServerChanges \/ MqttStep

\* Wi-Fi and MQTT each keep what they owe; network and broker owe nothing.
AllSpec ==
    /\ AllInit /\ [][AllNext]_all
    /\ WF_all(BootMqtt) /\ Fairness /\ Link!Fairness

-----------------------------------------------------------------------------
(* Properties                                                              *)

\* When network, broker and the mqtt settings stay as they should, a device
\* publishes again and again if it found Wi-Fi and an enabled client at boot:
\* checkConnection() repairs the link, the reconnect in loop() the session.
\* If it did not, it stays silent for good, for only setup() looks again.
ReportsIfSetUp ==
    <>[](network /\ server /\ enabled /\ host)
        => ([]<>reported \/ []~isEnabled) /\ (<>isEnabled \/ []~reported)
=============================================================================
