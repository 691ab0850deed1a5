--------------------------- MODULE WiFiLinkProofs ---------------------------
(***************************************************************************)
(* Proofs about WiFiLink for every clock width, every time-out shorter     *)
(* than the clock's range, and any number of outages.                      *)
(***************************************************************************)
EXTENDS WiFiLink, TLAPS

-----------------------------------------------------------------------------
(* Differences of clock readings                                           *)

\* A reading reduced to the width of an unsigned long is one.
LEMMA ModRange ==
    ASSUME NEW a \in Int, NEW n \in Nat \ {0}
    PROVE  a % n \in 0 .. n - 1
  OBVIOUS

LEMMA ModSmall ==
    ASSUME NEW n \in Nat \ {0}, NEW a \in 0 .. n - 1
    PROVE  a % n = a
  OBVIOUS

\* A negative difference wraps once.
LEMMA ModNegative ==
    ASSUME NEW n \in Nat \ {0}, NEW a \in -n .. -1
    PROVE  a % n = a + n
  OBVIOUS

\* One tick later the time since t is one tick longer, a wrap of the clock
\* between them included, as long as that time itself does not wrap.
LEMMA OneTickLater ==
    ASSUME NEW n \in Nat \ {0}, NEW m \in 0 .. n - 1, NEW t \in 0 .. n - 1,
           ((m - t) % n) + 1 < n
    PROVE  (((m + 1) % n) - t) % n = ((m - t) % n) + 1
  <1>1. CASE m + 1 < n
    <2>1. (m + 1) % n = m + 1
      BY <1>1, ModSmall
    <2>2. CASE m >= t
      <3>1. (m - t) % n = m - t
        BY <2>2, ModSmall
      <3>2. (m + 1 - t) % n = m + 1 - t
        BY <1>1, <2>2, ModSmall
      <3> QED BY <2>1, <3>1, <3>2
    <2>3. CASE m < t
      <3>1. (m - t) % n = m - t + n
        BY <2>3, ModNegative
      <3>2. m + 1 < t
        BY <3>1
      <3>3. (m + 1 - t) % n = m + 1 - t + n
        BY <3>2, ModNegative
      <3> QED BY <2>1, <3>1, <3>3
    <2> QED BY <2>2, <2>3
  <1>2. CASE m + 1 = n
    <2>1. (m + 1) % n = 0
      BY <1>2
    <2>2. (m - t) % n = m - t
      BY <1>2, ModSmall
    <2>3. t > 0
      BY <1>2, <2>2
    <2>4. (0 - t) % n = 0 - t + n
      BY <2>3, ModNegative
    <2> QED BY <1>2, <2>1, <2>2, <2>4
  <1> QED BY <1>1, <1>2

-----------------------------------------------------------------------------
(* Types                                                                   *)

\* Where setup() is decides the mode of the radio, and a station that is linked
\* is not trying.
Modes ==
    /\ phase = "boot" => mode = "OFF" /\ ~connected
    /\ phase = "wait" => mode = "STA"
    /\ phase = "run" => mode # "OFF"
    /\ connected => ~trying

TypeInv == TypeOK /\ Modes

LEMMA TypeInit == Init => TypeInv
  <1> SUFFICES ASSUME Init PROVE TypeInv
    OBVIOUS
  <1>1. /\ millis \in 0 .. ULONG - 1 /\ connectionStartTime \in 0 .. ULONG - 1
        /\ lastReconnectAttempt \in 0 .. ULONG - 1
        /\ outages \in 0 .. MaxOutages /\ down \in 0 .. MaxDown
    BY WiFiAssumption DEF WiFiAssumption, Init, MaxDown
  <1>2. /\ usable \in BOOLEAN /\ network \in BOOLEAN /\ connected \in BOOLEAN
        /\ trying \in BOOLEAN /\ apStarted \in BOOLEAN /\ checked \in BOOLEAN
    BY Zenon DEF Init
  <1> QED BY <1>1, <1>2 DEF Init, TypeInv, TypeOK, Modes, Station

LEMMA TypeNext == TypeInv /\ [Next]_vars => TypeInv'
  <1> SUFFICES ASSUME TypeInv, [Next]_vars PROVE TypeInv'
    OBVIOUS
  <1> USE DEF TypeInv, TypeOK, Modes, Station
  <1>1. CASE Setup
    BY <1>1 DEF Setup, startAP, StationOff
  <1>2. CASE WaitDone
    <2>1. CASE connected
      BY <1>2, <2>1 DEF WaitDone, timing
    <2>2. CASE ~connected
      <3>1. connected' \in BOOLEAN /\ trying' \in BOOLEAN /\ apStarted' \in BOOLEAN
        BY <1>2, <2>2, Zenon DEF WaitDone, startAP, StationOff
      <3>2. mode' = "AP" /\ apStarted' /\ ~connected' /\ phase' = "run"
        BY <1>2, <2>2 DEF WaitDone, startAP, StationOff
      <3> QED BY <1>2, <3>1, <3>2 DEF WaitDone, timing
    <2> QED BY <2>1, <2>2
  <1>3. CASE checkConnection
    <2>1. CASE connected
      BY <1>3, <2>1 DEF checkConnection, CheckLink, timing
    <2>2. CASE ~connected
      <3>1. /\ lastReconnectAttempt' \in 0 .. ULONG - 1 /\ trying' \in BOOLEAN
            /\ UNCHANGED <<connected, connectionStartTime>>
        <4>1. CheckNoLink
          BY <1>3, <2>2 DEF checkConnection
        <4>2. (trying \/ Station) \in BOOLEAN
          BY Zenon
        <4> QED BY <4>1, <4>2 DEF CheckNoLink
      <3>2. /\ mode' \in {"STA", "AP", "APSTA"} /\ apStarted' \in BOOLEAN
            /\ apStarted' <=> mode' \in {"AP", "APSTA"}
        BY <1>3, <2>2 DEF checkConnection, CheckNoLink, startAP
      <3> QED BY <1>3, <2>2, <3>1, <3>2 DEF checkConnection
    <2> QED BY <2>1, <2>2
  <1>4. CASE NetworkChanges
    <2>1. network' \in BOOLEAN
      BY <1>4, Zenon DEF NetworkChanges
    <2>2. outages' \in 0 .. MaxOutages
      BY <1>4, WiFiAssumption DEF NetworkChanges, WiFiAssumption
    <2> QED BY <1>4, <2>1, <2>2 DEF NetworkChanges, timing
  <1>5. CASE Associate
    <2>1. down' \in 0 .. MaxDown
      BY <1>5, WiFiAssumption DEF Associate, MaxDown, WiFiAssumption
    <2>2. connected' \in BOOLEAN /\ trying' \in BOOLEAN
      BY <1>5 DEF Associate
    <2>3. connected' => Station' /\ ~trying'
      BY <1>5 DEF Associate
    <2>4. phase # "boot"
      BY <1>5 DEF Associate
    <2> QED BY <1>5, <2>1, <2>2, <2>3, <2>4 DEF Associate, timing
  <1>6. CASE Disconnect
    <2>1. down' \in 0 .. MaxDown
      BY <1>6, WiFiAssumption DEF Disconnect, MaxDown, WiFiAssumption
    <2>2. connected' \in BOOLEAN /\ trying' \in BOOLEAN /\ ~connected'
      BY <1>6, Zenon DEF Disconnect
    <2> QED BY <1>6, <2>1, <2>2 DEF Disconnect, timing
  <1>7. CASE Tick
    <2>1. millis' \in 0 .. ULONG - 1
      BY <1>7, WiFiAssumption, ModRange DEF Tick, WiFiAssumption
    <2>2. down' \in 0 .. MaxDown
      BY <1>7, WiFiAssumption DEF Tick, MaxDown, WiFiAssumption
    <2> QED BY <1>7, <2>1, <2>2 DEF Tick, radio, timing
  <1>8. CASE UNCHANGED vars
    BY <1>8 DEF vars, radio, timing
  <1> QED BY <1>1, <1>2, <1>3, <1>4, <1>5, <1>6, <1>7, <1>8 DEF Next

\* Every variable keeps its type, apStarted tells whether the access point is
\* on, and only a station has a link (startAP, stopAP).
THEOREM TypeCorrect == Spec => []TypeOK
  <1>1. TypeInv => TypeOK
    BY DEF TypeInv
  <1> QED BY TypeInit, TypeNext, <1>1, PTL DEF Spec

-----------------------------------------------------------------------------
(* The access point comes in time                                          *)

\* While the link is down without an access point, the time checkConnection()
\* looks at has not wrapped past the outage: it is at least as long as the
\* outage less one tick, and was at most the time-out at the last pass.
Outage ==
    phase = "run" /\ ~connected /\ ~apStarted =>
        /\ checked /\ down >= 1 =>
              Since(connectionStartTime) \in down - 1 .. CONNECTION_TIMEOUT_MS
        /\ ~checked /\ down >= 2 =>
              Since(connectionStartTime) \in down - 1 .. CONNECTION_TIMEOUT_MS + 1

LEMMA OutageNext == TypeInv /\ Outage /\ [Next]_vars => Outage'
  <1> SUFFICES ASSUME TypeInv, Outage, [Next]_vars,
                      phase' = "run", ~connected', ~apStarted'
               PROVE  Outage'
    BY DEF Outage
  <1> DEFINE since == Since(connectionStartTime)
  <1>0. /\ ULONG \in Nat \ {0} /\ CONNECTION_TIMEOUT_MS \in Nat
        /\ CONNECTION_TIMEOUT_MS + 1 < ULONG
        /\ millis \in 0 .. ULONG - 1 /\ connectionStartTime \in 0 .. ULONG - 1
        /\ down \in 0 .. CONNECTION_TIMEOUT_MS + 2
        /\ since \in 0 .. ULONG - 1
    <2>1. millis - connectionStartTime \in Int
      BY DEF TypeInv, TypeOK
    <2>2. ULONG \in Nat \ {0}
      BY WiFiAssumption DEF WiFiAssumption
    <2>3. since \in 0 .. ULONG - 1
      BY <2>1, <2>2, ModRange DEF Since
    <2> QED BY <2>3, WiFiAssumption DEF WiFiAssumption, TypeInv, TypeOK, MaxDown
  <1>1. CASE Setup
    BY <1>1 DEF Setup, startAP
  <1>2. CASE WaitDone
    BY <1>2 DEF WaitDone, startAP
  <1>3. CASE checkConnection
    <2>1. ~connected /\ CheckNoLink /\ phase = "run"
      BY <1>3 DEF checkConnection, CheckLink
    <2>2. ~apStarted /\ ~TimedOut
      BY <2>1 DEF CheckNoLink, startAP
    <2>3. since <= CONNECTION_TIMEOUT_MS
      BY <1>0, <2>2 DEF TimedOut
    <2>4. down >= 1 => since \in down - 1 .. CONNECTION_TIMEOUT_MS
      BY <1>0, <2>1, <2>2, <2>3 DEF Outage, TypeInv, TypeOK
    <2>5. since' = since /\ checked' = TRUE /\ down' = down
      BY <1>3, <2>1 DEF checkConnection, CheckNoLink, Since
    <2> QED BY <2>4, <2>5 DEF Outage
  <1>4. CASE NetworkChanges
    BY <1>4 DEF NetworkChanges, Outage, Since, timing
  <1>5. CASE Associate
    <2>1. ~connected /\ ~network
      BY <1>5 DEF Associate, TypeInv, Modes
    <2> QED BY <1>5, <2>1 DEF Associate, Outage, Since, timing
  <1>6. CASE Disconnect
    BY <1>6 DEF Disconnect, Outage
  <1>7. CASE Tick
    <2>1. /\ phase = "run" /\ ~connected /\ ~apStarted /\ checked /\ ~checked'
          /\ UNCHANGED connectionStartTime /\ millis' = (millis + 1) % ULONG
          /\ down' = IF down = MaxDown THEN down ELSE down + 1
      BY <1>7 DEF Tick, radio, timing
    <2>2. CASE down = 0
      BY <1>0, <2>1, <2>2 DEF Outage, MaxDown
    <2>3. CASE down >= 1
      <3>1. since \in down - 1 .. CONNECTION_TIMEOUT_MS
        BY <2>1, <2>3 DEF Outage
      <3>2. since + 1 < ULONG
        BY <1>0, <3>1
      <3>3. since' = since + 1
        BY <1>0, <2>1, <3>2, OneTickLater DEF Since
      <3>4. down' - 1 <= down
        BY <1>0, <2>1
      <3>5. down' \in Int
        BY <1>0, <2>1
      <3>6. since + 1 \in down' - 1 .. CONNECTION_TIMEOUT_MS + 1
        <4>1. ASSUME NEW s \in Int, NEW d \in Int, NEW e \in Int, NEW T \in Int,
                     s \in d - 1 .. T, e - 1 <= d
              PROVE  s + 1 \in e - 1 .. T + 1
          BY <4>1
        <4>2. since \in Int /\ down \in Int /\ CONNECTION_TIMEOUT_MS \in Int
          BY <1>0
        <4> HIDE DEF since
        <4> QED BY <3>1, <3>4, <3>5, <4>1, <4>2
      <3>7. since' \in down' - 1 .. CONNECTION_TIMEOUT_MS + 1
        BY <3>3, <3>6
      <3> QED BY <2>1, <3>7 DEF Outage
    <2> QED BY <1>0, <2>2, <2>3
  <1>8. CASE UNCHANGED vars
    BY <1>8 DEF vars, radio, timing, Outage, Since
  <1> QED BY <1>1, <1>2, <1>3, <1>4, <1>5, <1>6, <1>7, <1>8 DEF Next

\* However often the clock has wrapped since setup() took its time, the access
\* point is on when the link has been down for the time-out and a pass of
\* loop() (checkConnection).
THEOREM AccessPointInTime == Spec => []FallbackInTime
  <1>1. Init => Outage
    BY DEF Init, Outage
  <1>2. TypeInv /\ Outage => FallbackInTime
    <2> SUFFICES ASSUME TypeInv, Outage, phase = "run", ~connected, checked,
                        down > CONNECTION_TIMEOUT_MS + 1, ~apStarted
                 PROVE  FALSE
      BY DEF FallbackInTime
    <2>1. down \in Int /\ CONNECTION_TIMEOUT_MS \in Nat
      BY WiFiAssumption DEF WiFiAssumption, TypeInv, TypeOK
    <2>2. Since(connectionStartTime) \in down - 1 .. CONNECTION_TIMEOUT_MS
      BY <2>1 DEF Outage
    <2> QED BY <2>1, <2>2
  <1> QED BY TypeInit, TypeNext, OutageNext, <1>1, <1>2, PTL DEF Spec

-----------------------------------------------------------------------------
(* The abstract link                                                       *)

\* Every step of WiFiHandler and of the radio is a step of StationLink or none.
LEMMA StepImplements ==
    ASSUME TypeInv, [Next]_vars
    PROVE  [Link!Next]_(Link!vars)
  <1> USE DEF TypeInv, TypeOK, Modes, Station, Link!Next, Link!vars
  <1>1. CASE Setup
    <2>1. CASE usable
      BY <1>1, <2>1 DEF Setup, Link!Join
    <2>2. CASE ~usable
      <3>1. ~connected /\ ~connected' /\ connected' \in BOOLEAN /\ mode' = "AP"
        BY <1>1, <2>2, Zenon DEF Setup, startAP, StationOff
      <3>2. connected' = connected
        BY <3>1
      <3>3. Station' = connected
        BY <3>1, <3>2
      <3> QED BY <1>1, <2>2, <3>2, <3>3 DEF Setup, Link!Ready
    <2> QED BY <2>1, <2>2
  <1>2. CASE WaitDone
    <2>1. CASE connected
      <3>1. Station' = connected /\ connected' = connected
        BY <1>2, <2>1 DEF WaitDone
      <3> QED BY <1>2, <3>1 DEF WaitDone, Link!Ready
    <2>2. CASE ~connected
      <3>1. ~connected' /\ connected' \in BOOLEAN /\ mode' = "AP"
        BY <1>2, <2>2, Zenon DEF WaitDone, startAP, StationOff
      <3>2. connected' = connected
        BY <2>2, <3>1
      <3>3. Station' = connected
        BY <2>2, <3>1
      <3> QED BY <1>2, <3>2, <3>3 DEF WaitDone, Link!Ready
    <2> QED BY <2>1, <2>2
  <1>3. CASE checkConnection
    BY <1>3 DEF checkConnection, CheckLink, CheckNoLink, startAP,
                CombineWithStation, TimedOut
  <1>4. CASE NetworkChanges
    BY <1>4 DEF NetworkChanges, Link!NetworkChanges
  <1>5. CASE Associate
    BY <1>5 DEF Associate, Link!Up
  <1>6. CASE Disconnect
    BY <1>6 DEF Disconnect, Link!Down
  <1>7. CASE Tick
    BY <1>7 DEF Tick, radio
  <1>8. CASE UNCHANGED vars
    BY <1>8 DEF vars, radio
  <1> QED BY <1>1, <1>2, <1>3, <1>4, <1>5, <1>6, <1>7, <1>8 DEF Next

\* WiFiHandler implements the link that the rest of the program relies on (the
\* safety part of LinkFollowsNetwork): setup() ends with a linked station or
\* with none, and checkConnection() never switches one off.
THEOREM ImplementsStationLink == Spec => Link!Safety
  <1>1. Init => Link!Init
    BY DEF Init, Link!Init, Station
  <1>2. TypeInv /\ [Next]_vars => [Link!Next]_(Link!vars)
    BY StepImplements
  <1> QED BY TypeInit, TypeNext, <1>1, <1>2, PTL DEF Spec, Link!Safety

-----------------------------------------------------------------------------
(* The decision of setup()                                                 *)

\* setup() gave up on the station.
GaveUp == phase = "run" /\ mode = "AP"

\* setup() ended with the station on.
Joined == phase = "run" /\ Station

\* checkConnection() combines its access point with the station that is there,
\* and switches no station on where there is none.
LEMMA DecisionNext ==
    ASSUME TypeInv, [Next]_vars
    PROVE  (GaveUp => GaveUp') /\ (Joined => Joined')
  <1> USE DEF GaveUp, Joined, TypeInv, TypeOK, Modes, Station
  <1>1. CASE Setup \/ WaitDone
    BY <1>1 DEF Setup, WaitDone
  <1>2. CASE checkConnection
    BY <1>2 DEF checkConnection, CheckLink, CheckNoLink, TimedOut, startAP,
                CombineWithStation
  <1>3. CASE NetworkChanges \/ Associate \/ Disconnect
    BY <1>3 DEF NetworkChanges, Associate, Disconnect
  <1>4. CASE Tick
    BY <1>4 DEF Tick, radio
  <1>5. CASE UNCHANGED vars
    BY <1>5 DEF vars, radio
  <1> QED BY <1>1, <1>2, <1>3, <1>4, <1>5 DEF Next

\* What setup() decides is final, for every time-out and number of outages: a
\* device that it left as a pure access point has no link until it is restarted,
\* though checkConnection() calls reconnect() again and again, and one that it
\* left with a station keeps it on, its access point on or off (setup, startAP,
\* checkConnection).
THEOREM DecisionIsFinal ==
    Spec => /\ [](GaveUp => [](mode = "AP" /\ ~connected))
            /\ [](Joined => []Station)
  <1>1. TypeInv /\ [Next]_vars => (GaveUp => GaveUp') /\ (Joined => Joined')
    BY DecisionNext
  <1>2. TypeInv /\ GaveUp => mode = "AP" /\ ~connected
    BY DEF TypeInv, TypeOK, GaveUp, Station
  <1>3. Joined => Station
    BY DEF Joined
  <1> QED BY TypeInit, TypeNext, <1>1, <1>2, <1>3, PTL DEF Spec
=============================================================================
