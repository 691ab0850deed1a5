------------------------------- MODULE WebPage -------------------------------
(***************************************************************************)
(* The script of data/index.html: the status poll, the relay switches, and *)
(* the two Save buttons, each of which sends the whole configuration the   *)
(* page has loaded.  Every call is a request of its own; requests and      *)
(* replies overtake each other and get lost, the device may restart, and   *)
(* other pages use it too.  What the device does with a call is the        *)
(* subject of WebApi and RelayControl; here it is one step.                *)
(*                                                                         *)
(* A value typed into a form is the number of the event that saves it; a   *)
(* section of the configuration holds the number of the save it is from.   *)
(***************************************************************************)
EXTENDS Naturals

CONSTANTS
    Channels,       \* the relay channels
    None,           \* no configuration is loaded; a call or reply without content
    MaxEvents       \* bound: reloads, clicks, saves, restarts, switchings, losses

ASSUME EventsAssumption == MaxEvents \in Nat

Sections == {1, 2}      \* the settings that save(1) and save(2) write
Factory == [s \in Sections |-> 0]
AllOff == [c \in Channels |-> FALSE]

VARIABLES
    calls,                      \* the calls under way
    box,                        \* the relays' check boxes
    inFlight, configESP,        \* the script's variables
    relay, config,              \* external: the device's relays and configuration
    version,                    \* history: number of changes of the relays
    applied,                    \* history: version in the last status reply the
                                \* page applied; clicks do not count
    fresh,                      \* history: no other page saved since getInfo()
    overlap,                    \* history: two saves were under way at once
    events                      \* number of events so far

page == <<box, inFlight, configESP, applied>>
device == <<relay, config, version>>
vars == <<calls, page, device, fresh, overlap, events>>

Event == events < MaxEvents /\ events' = events + 1

-----------------------------------------------------------------------------
(* The script                                                              *)

Polls == {m \in calls : m.kind = "status"}

\* A call's number is that of the event that began it; a poll's is 0 if it is
\* the only one.  A page that is reloaded no longer waits for its calls.
Numbers == 0 .. MaxEvents + 1
PollNumber == IF Polls = {} THEN 0 ELSE MaxEvents + 1
Request(n, kind, body) ==
    [n |-> n, kind |-> kind, body |-> body, waiting |-> TRUE, at |-> "sent",
     reply |-> None]
fetch(n, kind, body) == calls' = calls \cup {Request(n, kind, body)}

\* The page is reloaded: DOMContentLoaded, then getInfo().  The device may yet
\* handle what the page sent before.
Load ==
    /\ Event
    /\ LET writes == {m \in calls : m.at = "sent" /\ m.kind \notin {"status", "info"}}
       IN  calls' = {[m EXCEPT !.waiting = FALSE] : m \in writes}
                      \cup {Request(events', "info", None)}
    /\ box' = AllOff /\ inFlight' = FALSE /\ configESP' = None
    /\ fresh' = FALSE
    /\ UNCHANGED <<applied, device, overlap>>

PollAnyway ==
    /\ inFlight' = TRUE /\ fetch(PollNumber, "status", None)
    /\ UNCHANGED <<box, configESP, applied, device, fresh, overlap, events>>

\* The interval timer of startStatusPing().
Poll ==
    /\ ~inFlight /\ inFlight' = TRUE /\ fetch(PollNumber, "status", None)
    /\ UNCHANGED <<box, configESP, applied, device, fresh, overlap, events>>

\* The user flips a check box: its new state is sent.
Toggle(c) ==
    /\ Event
    /\ box' = [box EXCEPT ![c] = ~@]
    /\ fetch(events', "relais", [channel |-> c, state |-> box'[c]])
    /\ UNCHANGED <<inFlight, configESP, applied, device, fresh, overlap>>

SavePending == \E m \in calls : m.kind = "save" /\ m.at = "sent"

saveOwnSection(s) ==
    /\ configESP # None /\ Event
    /\ configESP' = [configESP EXCEPT ![s] = events']
    /\ fetch(events', "save", [Factory EXCEPT ![s] = events'])
    /\ overlap' = (overlap \/ SavePending)
    /\ UNCHANGED <<box, inFlight, applied, device, fresh>>

\* save(s) copies its part of the forms into configESP and sends all of it.
\* It throws, and nothing is sent, while getInfo() has not been answered.
save(s) ==
    /\ configESP # None /\ Event
    /\ configESP' = [configESP EXCEPT ![s] = events']
    /\ fetch(events', "save", configESP')
    /\ overlap' = (overlap \/ SavePending)
    /\ UNCHANGED <<box, inFlight, applied, device, fresh>>

\* arestart(), aupdate(), and restart() after a save.
restart ==
    /\ Event /\ fetch(events', "restart", None)
    /\ UNCHANGED <<page, device, fresh, overlap>>

ShowStatusOnlyOn(m) ==
    IF m.at = "done"
    THEN /\ box' = [c \in Channels |-> box[c] \/ m.reply.relay[c]]
         /\ applied' = m.reply.version
    ELSE UNCHANGED <<box, applied>>

\* A status reply sets the check boxes; an error leaves them.
ShowStatus(m) ==
    IF m.at = "done"
    THEN box' = m.reply.relay /\ applied' = m.reply.version
    ELSE UNCHANGED <<box, applied>>

PollReturnsWithoutFinally(m) ==
    /\ m.kind = "status" /\ inFlight' = (m.at = "failed")
    /\ ShowStatus(m) /\ UNCHANGED configESP

PollReturns(m) ==
    /\ m.kind = "status" /\ inFlight' = FALSE
    /\ ShowStatus(m) /\ UNCHANGED configESP

\* An error sets the check box back, whatever the device did.
ToggleReturns(m) ==
    /\ m.kind = "relais"
    /\ box' = IF m.at = "done" THEN box
              ELSE [box EXCEPT ![m.body.channel] = ~m.body.state]
    /\ UNCHANGED <<inFlight, configESP, applied>>

InfoReturns(m) ==
    /\ m.kind = "info"
    /\ configESP' = IF m.at = "done" THEN m.reply ELSE configESP
    /\ UNCHANGED <<box, inFlight, applied>>

Return(n) ==
    \E m \in calls :
        /\ m.n = n /\ m.at \in {"done", "failed"} /\ calls' = calls \ {m}
        /\ PollReturns(m) \/ ToggleReturns(m) \/ InfoReturns(m)
        /\ UNCHANGED <<device, fresh, overlap, events>>

-----------------------------------------------------------------------------
(* The device and the network                                              *)

\* The calls end with a reply (at = "done") or an error, if the page waits.
\* What comes of a save or a restart is only displayed: those are over.
Ended(ms, at, reply) ==
    LET awaited == {m \in ms : m.waiting /\ m.kind \in {"status", "relais", "info"}}
    IN  {[m EXCEPT !.at = at, !.reply = reply] : m \in awaited}
Finish(m, reply) == calls' = (calls \ {m}) \cup Ended({m}, "done", reply)

SetRelay(r) == relay' = r /\ version' = version + 1

HandleRelais(m) ==
    /\ m.kind = "relais" /\ Finish(m, None)
    /\ SetRelay([relay EXCEPT ![m.body.channel] = m.body.state])
    /\ UNCHANGED <<config, fresh>>

HandleStatus(m) ==
    /\ m.kind = "status" /\ Finish(m, [relay |-> relay, version |-> version])
    /\ UNCHANGED <<device, fresh>>

HandleInfo(m) ==
    /\ m.kind = "info" /\ Finish(m, config) /\ fresh' = TRUE
    /\ UNCHANGED device

\* A save the page sent before it was reloaded is another page's.
HandleSave(m) ==
    /\ m.kind = "save" /\ Finish(m, None)
    /\ config' = m.body /\ fresh' = (fresh /\ m.waiting)
    /\ UNCHANGED <<relay, version>>

\* The restart ends every other call with an error, and the relays are off.
HandleRestart(m) ==
    /\ m.kind = "restart"
    /\ LET others == {q \in calls \ {m} : q.at = "sent"}
       IN  calls' = (calls \ ({m} \cup others)) \cup Ended({m}, "done", None)
                        \cup Ended(others, "failed", None)
    /\ SetRelay(AllOff)
    /\ UNCHANGED <<config, fresh>>

Handle(n) ==
    \E m \in calls :
        /\ m.n = n /\ m.at = "sent"
        /\ \/ HandleRelais(m) \/ HandleStatus(m) \/ HandleInfo(m)
           \/ HandleSave(m) \/ HandleRestart(m)
        /\ UNCHANGED <<page, overlap, events>>

\* A timer, the automation or another page switches a relay.
Switched(c) ==
    /\ Event /\ SetRelay([relay EXCEPT ![c] = ~@])
    /\ UNCHANGED <<calls, page, config, fresh, overlap>>

\* Another page saves its configuration.
OtherSaves ==
    /\ Event /\ config' = [s \in Sections |-> events'] /\ fresh' = FALSE
    /\ UNCHANGED <<calls, page, relay, version, overlap>>

\* A request or a reply is lost.
Lose(n) ==
    \E m \in calls :
        /\ m.n = n /\ m.at \in {"sent", "done"} /\ Event
        /\ calls' = (calls \ {m}) \cup Ended({m}, "failed", None)
        /\ UNCHANGED <<page, device, fresh, overlap>>

\* The page has been opened and has loaded the configuration.
Init ==
    /\ calls = {} /\ box = AllOff /\ inFlight = FALSE /\ configESP = Factory
    /\ relay = AllOff /\ config = Factory
    /\ version = 0 /\ applied = 0 /\ fresh = TRUE /\ overlap = FALSE /\ events = 0

Next ==
    \/ Load \/ Poll \/ restart \/ OtherSaves
    \/ \E c \in Channels : Toggle(c) \/ Switched(c)
    \/ \E s \in Sections : save(s)
    \/ \E n \in Numbers : Handle(n) \/ Return(n) \/ Lose(n)

\* The interval timer fires, the device answers, and every call ends sometime.
Fairness ==
    /\ WF_vars(Poll)
    /\ \A n \in Numbers : WF_vars(Handle(n)) /\ WF_vars(Return(n))

Spec == Init /\ [][Next]_vars /\ Fairness

-----------------------------------------------------------------------------
(* Properties                                                              *)

\* Every variable keeps its type, and the page never waits for a status reply that
\* is not under way, for inFlight would then end its polls.
TypeOK ==
    /\ \A m \in calls :
          /\ m.n \in Numbers /\ m.waiting \in BOOLEAN
          /\ m.kind \in {"status", "relais", "info", "save", "restart"}
          /\ m.at \in {"sent", "done", "failed"} /\ (~m.waiting => m.at = "sent")
    /\ box \in [Channels -> BOOLEAN] /\ relay \in [Channels -> BOOLEAN]
    /\ inFlight \in BOOLEAN /\ (inFlight => Polls # {})
    /\ configESP \in [Sections -> 0 .. MaxEvents] \cup {None}
    /\ config \in [Sections -> 0 .. MaxEvents]
    /\ version \in Nat /\ applied \in Nat /\ applied <= version
    /\ fresh \in BOOLEAN /\ overlap \in BOOLEAN /\ events \in 0 .. MaxEvents

\* Status replies are applied in order: none is older than one that was applied
\* before, however late it arrives, because inFlight keeps the next poll back until
\* the last one has ended.  It says nothing of the boxes a click has changed, which
\* a status reply from before the click, or the failure of another click, may set
\* back until the next poll: that is BoxShowsRelay (startStatusPing).
PollsInOrder == [][applied' >= applied]_vars

\* A save takes no section of the configuration back to an older save, though
\* it sends all of configESP and may follow saves that failed, unless another
\* page saved since this one was loaded or two saves were under way at once.
NoRollback ==
    [][fresh' /\ ~overlap => \A s \in Sections : config'[s] >= config[s]]_vars

\* When nobody clicks any more, the page ends up showing what the relays are,
\* after lost calls, check boxes set back in error and late replies.
BoxShowsRelay == <>[](box = relay)
=============================================================================
