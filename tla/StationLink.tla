---------------------------- MODULE StationLink ----------------------------
(***************************************************************************)
(* What WiFiHandler offers the rest of the program, without radio modes,   *)
(* attempts and times: WiFiHandler::setup() ends with a linked station or  *)
(* with none, and a station it ends with is kept, so that its link comes   *)
(* and goes with the network.  WiFiLink implements it; Connectivity uses   *)
(* it.                                                                     *)
(***************************************************************************)

VARIABLES
    network,    \* the configured network is in reach
    ready,      \* WiFiHandler::setup() is over
    station,    \* the station is on
    up          \* isConnected()

vars == <<network, ready, station, up>>

\* The station is switched on, if there are credentials.
Join ==
    /\ ~ready /\ ~station /\ station' = TRUE
    /\ UNCHANGED <<network, ready, up>>

\* setup() is over; a station without a link is off from now on.
Ready ==
    /\ ~ready /\ ready' = TRUE
    /\ station' = up
    /\ UNCHANGED <<network, up>>

Up ==
    /\ station /\ network /\ ~up /\ up' = TRUE
    /\ UNCHANGED <<network, ready, station>>

Down ==
    /\ up /\ ~network /\ up' = FALSE
    /\ UNCHANGED <<network, ready, station>>

NetworkChanges ==
    /\ network' = ~network
    /\ UNCHANGED <<ready, station, up>>

Init == network \in BOOLEAN /\ ready = FALSE /\ station = FALSE /\ up = FALSE

Next == Join \/ Ready \/ Up \/ Down \/ NetworkChanges

Safety == Init /\ [][Next]_vars

\* setup() ends, and the link follows a network that stays as it is.
Fairness == WF_vars(Ready) /\ WF_vars(Up) /\ WF_vars(Down)

Spec == Safety /\ Fairness
=============================================================================
