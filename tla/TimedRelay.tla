----------------------------- MODULE TimedRelay -----------------------------
(***************************************************************************)
(* What the "relais" call promises its caller, without tasks, stores or    *)
(* timers: an output per channel that only a call switches on, that a call *)
(* answered with "off" leaves off, and that may not be on when the time a  *)
(* call asked for has been over for Slack ticks.  RelayControl implements  *)
(* it.                                                                     *)
(*                                                                         *)
(* An output may go off at any time: the timer of an older call may still  *)
(* do so when a newer one has been answered.  Channels that are not in     *)
(* manual belong to the automation, and nothing is promised of them.       *)
(***************************************************************************)
EXTENDS Integers

CONSTANTS
    Channels,   \* the channels, positive numbers
    Slack       \* how late an output may go off

VARIABLES
    clock,
    on,         \* the outputs
    command,    \* per channel: the last answered call, "none" if there was none
    due,        \* per channel: the time a "timed" command ends
    calling,    \* the channel of the call in progress, or 0
    manual      \* the channels that are switched by calls only

vars == <<clock, on, command, due, calling, manual>>

\* At time t, c would be on for longer than its last command asked for.
Late(c, t) ==
    /\ c \in manual /\ c # calling /\ on[c]
    /\ command[c] = "timed" /\ t > due[c] + Slack

\* No output is still on when it is too late for it.
Tick ==
    /\ clock' = clock + 1
    /\ \A c \in Channels : ~Late(c, clock')
    /\ UNCHANGED <<on, command, due, calling, manual>>

Call(c) ==
    /\ calling = 0 /\ calling' = c
    /\ UNCHANGED <<clock, on, command, due, manual>>

\* Only the call in progress, or the automation, switches an output on.
Switch(c, s) ==
    /\ s => calling = c \/ c \notin manual
    /\ on' = [on EXCEPT ![c] = s]
    /\ UNCHANGED <<clock, command, due, calling, manual>>

\* The answer to "off" finds the output off; the time of a "timed" command is
\* not over yet.
Answer(c, k, t) ==
    /\ calling = c /\ calling' = 0
    /\ k = "off" /\ c \in manual => ~on[c]
    /\ k = "timed" => t >= clock
    /\ command' = [command EXCEPT ![c] = k]
    /\ due' = [due EXCEPT ![c] = t]
    /\ UNCHANGED <<clock, on, manual>>

Init ==
    /\ clock = 0
    /\ on = [c \in Channels |-> FALSE]
    /\ command = [c \in Channels |-> "none"]
    /\ due = [c \in Channels |-> 0]
    /\ calling = 0 /\ manual \subseteq Channels

Next ==
    \/ Tick
    \/ \E c \in Channels :
          \/ Call(c)
          \/ \E s \in BOOLEAN : Switch(c, s)
          \/ \E k \in {"off", "on", "timed"} : Answer(c, k, due'[c])

Spec == Init /\ [][Next]_vars
=============================================================================
