------------------------------ MODULE WiFiLink ------------------------------
(***************************************************************************)
(* WiFiHandler: joining the configured network at boot, keeping the link   *)
(* alive from loop(), and falling back to an own access point.             *)
(*                                                                         *)
(* The radio (the Arduino WiFi library and the network around it) is       *)
(* external: it is modelled from how WiFiHandler uses it.  It reports one  *)
(* Boolean, status() == WL_CONNECTED, and changes it between any two       *)
(* passes of loop().  Times are in ticks of a few seconds; millis() wraps. *)
(***************************************************************************)
EXTENDS Integers

CONSTANTS
    ULONG,                  \* number of values of an unsigned long
    CONNECTION_TIMEOUT_MS,  \* ticks without a link before the AP is started
    RECONNECT,              \* ticks between two reconnect attempts
    WAIT,                   \* ticks setup() waits for the first connection
    MaxOutages              \* bound: how often the network goes away

ASSUME WiFiAssumption ==
    /\ ULONG \in Nat /\ RECONNECT \in Nat /\ WAIT \in Nat /\ MaxOutages \in Nat
    /\ CONNECTION_TIMEOUT_MS \in Nat /\ CONNECTION_TIMEOUT_MS + 1 < ULONG

VARIABLES
    millis,
    phase,       \* "boot", "wait" (inside waitForConnectResult), "run"
    usable,      \* isWiFiClientUsable(): the configuration has credentials
    network,     \* external: the configured network is in reach
    outages,
    mode,        \* external: WiFi.mode(): "OFF", "STA", "AP" or "APSTA"
    connected,   \* external: WiFi.status() == WL_CONNECTED
    trying,      \* external: an association attempt is under way
    apStarted, connectionStartTime, lastReconnectAttempt,
    checked,     \* checkConnection() ran since the last tick
    down         \* history: ticks since the link was lost, while it is lost

radio == <<network, outages, mode, connected, trying>>
timing == <<connectionStartTime, lastReconnectAttempt>>
vars == <<millis, phase, usable, radio, apStarted, timing, checked, down>>

MaxDown == CONNECTION_TIMEOUT_MS + 2   \* bound: down stops counting here

Station == mode \in {"STA", "APSTA"}
Since(t) == (millis - t) % ULONG

-----------------------------------------------------------------------------
(* WiFiHandler                                                             *)

\* startAP(config, combine): with combine FALSE the station is switched off,
\* which drops its link and its attempt.
startAP(combine) ==
    /\ mode' = IF combine THEN "APSTA" ELSE "AP"
    /\ apStarted' = TRUE

StationOff == connected' = FALSE /\ trying' = FALSE

\* setup() up to waitForConnectResult(), or all of it without credentials.
Setup ==
    /\ phase = "boot"
    /\ IF usable
       THEN /\ phase' = "wait" /\ mode' = "STA" /\ trying' = TRUE
            /\ connectionStartTime' = millis /\ apStarted' = FALSE
            /\ UNCHANGED connected
       ELSE /\ phase' = "run" /\ startAP(FALSE) /\ StationOff
            /\ UNCHANGED connectionStartTime
    /\ UNCHANGED <<millis, usable, network, outages, lastReconnectAttempt,
                   checked, down>>

\* waitForConnectResult() returns: connected, given up, or timed out.
WaitDone ==
    /\ phase = "wait" /\ phase' = "run"
    /\ \/ connected /\ UNCHANGED <<mode, apStarted, connected, trying>>
       \/ /\ ~connected
          /\ ~trying \/ Since(connectionStartTime) >= WAIT
          /\ startAP(FALSE) /\ StationOff
    /\ UNCHANGED <<millis, usable, network, outages, timing, checked, down>>

TimedOutSinceTry == ~apStarted /\ Since(lastReconnectAttempt) > CONNECTION_TIMEOUT_MS
\* The time-out counts from connectionStartTime, which only setup() sets.
TimedOut == ~apStarted /\ Since(connectionStartTime) > CONNECTION_TIMEOUT_MS

ReconnectNever == FALSE
ReconnectDue == Since(lastReconnectAttempt) >= RECONNECT

CheckLinkKeepsAP ==
    /\ mode' = "STA"
    /\ UNCHANGED <<connected, trying, apStarted, timing>>

\* checkConnection() with a link: stopAP() and back to the station mode.
CheckLink ==
    /\ apStarted' = FALSE
    /\ mode' = IF apStarted THEN "STA" ELSE mode
    /\ UNCHANGED <<connected, trying, timing>>

StationOnly == FALSE
CombineWithStation == TRUE

\* checkConnection() without one.  reconnect() does nothing when the station
\* is off; otherwise it begins a new attempt.
CheckNoLink ==
    /\ IF ReconnectDue
       THEN lastReconnectAttempt' = millis /\ trying' = (trying \/ Station)
       ELSE UNCHANGED <<lastReconnectAttempt, trying>>
    /\ IF TimedOut THEN startAP(CombineWithStation) ELSE UNCHANGED <<mode, apStarted>>
    /\ UNCHANGED <<connected, connectionStartTime>>

\* One pass of loop().
checkConnection ==
    /\ phase = "run" /\ checked' = TRUE
    /\ IF connected THEN CheckLink ELSE CheckNoLink
    /\ UNCHANGED <<millis, phase, usable, network, outages, down>>

-----------------------------------------------------------------------------
(* The radio and the clock                                                 *)

NetworkChanges ==
    /\ network' = ~network
    /\ network => outages < MaxOutages
    /\ outages' = IF network THEN outages + 1 ELSE outages
    /\ UNCHANGED <<millis, phase, usable, mode, connected, trying, apStarted,
                   timing, checked, down>>

\* An attempt succeeds, or fails; after a failure the library, told to
\* reconnect by itself, may or may not begin another.
Associate ==
    /\ trying /\ Station
    /\ connected' = network
    /\ trying' \in IF network THEN {FALSE} ELSE BOOLEAN
    /\ down' = IF network THEN 0 ELSE down
    /\ UNCHANGED <<millis, phase, usable, network, outages, mode, apStarted,
                   timing, checked>>

Disconnect ==
    /\ connected /\ ~network
    /\ connected' = FALSE /\ trying' = TRUE /\ down' = 0
    /\ UNCHANGED <<millis, phase, usable, network, outages, mode, apStarted,
                   timing, checked>>

\* loop() runs at least once per tick; setup() does not outlast its wait.
Tick ==
    /\ phase = "run" => checked
    /\ phase = "wait" => Since(connectionStartTime) < WAIT
    /\ phase # "boot"
    /\ millis' = (millis + 1) % ULONG
    /\ checked' = FALSE
    /\ down' = IF connected \/ down = MaxDown THEN down ELSE down + 1
    /\ UNCHANGED <<phase, usable, radio, apStarted, timing>>

Init ==
    /\ millis = 0 /\ phase = "boot"
    /\ usable \in BOOLEAN /\ network \in BOOLEAN /\ outages = 0
    /\ mode = "OFF" /\ connected = FALSE /\ trying = FALSE
    /\ apStarted = FALSE /\ connectionStartTime = 0 /\ lastReconnectAttempt = 0
    /\ checked = FALSE /\ down = 0

Next ==
    \/ Setup \/ WaitDone \/ checkConnection
    \/ NetworkChanges \/ Associate \/ Disconnect \/ Tick

\* loop() keeps running, the clock ticks, and the radio finishes what it
\* begins.  The network itself owes nothing.
Fairness ==
    /\ WF_vars(Setup) /\ WF_vars(WaitDone) /\ WF_vars(checkConnection)
    /\ WF_vars(Tick) /\ WF_vars(Associate) /\ WF_vars(Disconnect)

Spec == Init /\ [][Next]_vars /\ Fairness

-----------------------------------------------------------------------------
(* Properties                                                              *)

\* Every variable keeps its type, apStarted says whether the radio's access
\* point is on, and only a station has a link (startAP, stopAP).
TypeOK ==
    /\ millis \in 0 .. ULONG - 1
    /\ connectionStartTime \in 0 .. ULONG - 1
    /\ lastReconnectAttempt \in 0 .. ULONG - 1
    /\ phase \in {"boot", "wait", "run"} /\ mode \in {"OFF", "STA", "AP", "APSTA"}
    /\ usable \in BOOLEAN /\ network \in BOOLEAN /\ connected \in BOOLEAN
    /\ trying \in BOOLEAN /\ apStarted \in BOOLEAN /\ checked \in BOOLEAN
    /\ outages \in 0 .. MaxOutages
    /\ down \in 0 .. MaxDown
    /\ apStarted <=> mode \in {"AP", "APSTA"}
    /\ connected => Station

\* The device is not out of reach for longer than the time-out: once the link
\* has been down for that long and one pass of loop(), checkConnection() has
\* the access point on, also across a wrap of millis().
FallbackInTime ==
    phase = "run" /\ ~connected /\ checked /\ down > CONNECTION_TIMEOUT_MS + 1
        => apStarted

\* The rest of the program sees a link that follows the network: the station
\* setup() ends with is never switched off by checkConnection(), and, network
\* permitting, reconnect() and the library bring its link back for good.
Link == INSTANCE StationLink WITH
    ready <- phase = "run", station <- Station, up <- connected
LinkFollowsNetwork == Link!Spec

\* When the network stays in reach, a device that runs its station ends up
\* linked with its access point off (checkConnection, reconnect, stopAP).
Rejoins ==
    <>[]network => <>[](mode = "AP") \/ <>[](connected /\ mode = "STA")

\* With credentials and the network in reach for good, the device is connected
\* sometime: it "tries to reconnect to the Wi-Fi network".
JoinsNetwork == usable /\ <>[]network => <>connected
=============================================================================
