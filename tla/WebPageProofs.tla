---------------------------- MODULE WebPageProofs ----------------------------
(***************************************************************************)
(* Proofs about WebPage for every set of channels and any number of        *)
(* events: status replies are applied in order, what the page saves does   *)
(* not go back in time, and the poll it waits for is always under way.     *)
(***************************************************************************)
EXTENDS WebPage, TLAPS

Fields == {"n", "kind", "body", "waiting", "at", "reply"}

AreCalls == \A m \in calls : DOMAIN m = Fields

Versions == [Sections -> Nat]
AtLeast(c, d) == \A s \in Sections : c[s] >= d[s]
Past(c) == c \in Versions /\ \A s \in Sections : c[s] <= events

-----------------------------------------------------------------------------
(* Calls                                                                   *)

EndedAs(m, at, reply) == [m EXCEPT !.at = at, !.reply = reply]

\* A call that ends keeps everything but its state and its reply.
LEMMA EndedCall ==
    \A ms, at, reply :
        (\A m \in ms : DOMAIN m = Fields) =>
            \A c \in Ended(ms, at, reply) : \E m \in ms :
                /\ m.waiting /\ m.kind \in {"status", "relais", "info"}
                /\ c = EndedAs(m, at, reply)
                /\ DOMAIN c = Fields /\ c.n = m.n
                /\ c.kind = m.kind /\ c.body = m.body /\ c.waiting = m.waiting
                /\ c.at = at /\ c.reply = reply
  BY DEF Ended, EndedAs, Fields

LEMMA NewCall ==
    \A n, kind, body :
        /\ DOMAIN Request(n, kind, body) = Fields
        /\ Request(n, kind, body).n = n
        /\ Request(n, kind, body).kind = kind
        /\ Request(n, kind, body).body = body
        /\ Request(n, kind, body).waiting = TRUE
        /\ Request(n, kind, body).at = "sent"
  BY DEF Request, Fields

\* What is left of a page's calls when it is reloaded.
Left(m) == m.at = "sent" /\ m.kind \notin {"status", "info"}

LEMMA LeftCall ==
    AreCalls =>
        \A c \in {[m EXCEPT !.waiting = FALSE] : m \in {m \in calls : Left(m)}} :
            \E m \in calls :
                /\ Left(m) /\ c = [m EXCEPT !.waiting = FALSE]
                /\ DOMAIN c = Fields /\ c.n = m.n
                /\ c.kind = m.kind /\ c.body = m.body /\ c.waiting = FALSE
                /\ c.at = m.at
  BY DEF AreCalls, Fields

-----------------------------------------------------------------------------
(* Polls                                                                   *)

\* inFlight allows one status call at a time, whose reply is not older than
\* the last one the page applied.
PollInv ==
    /\ AreCalls
    /\ version \in Nat /\ applied \in Nat /\ applied <= version
    /\ \A m, q \in calls : m.kind = "status" /\ q.kind = "status" => m = q
    /\ \A m \in calls : m.kind = "status" =>
          /\ inFlight
          /\ m.at = "done" => m.reply.version \in applied .. version

LEMMA PollInit == Init => PollInv
  BY DEF Init, PollInv, AreCalls

LEMMA PollNext ==
    ASSUME PollInv, [Next]_vars
    PROVE  PollInv' /\ (applied' >= applied)
  <1> USE DEF page, device
  <1>1. CASE Load
    <2>1. ASSUME NEW c \in calls'
          PROVE  DOMAIN c = Fields /\ c.kind # "status"
      <3>1. CASE c = Request(events', "info", None)
        BY <3>1, NewCall
      <3>2. CASE c # Request(events', "info", None)
        <4>1. AreCalls
          BY DEF PollInv
        <4> QED BY <1>1, <2>1, <3>2, <4>1, LeftCall DEF Load, Left
      <3> QED BY <3>1, <3>2
    <2> QED BY <1>1, <2>1 DEF Load, PollInv, AreCalls
  <1>2. CASE Poll
    <2> DEFINE new == Request(PollNumber, "status", None)
    <2>1. DOMAIN new = Fields /\ new.kind = "status" /\ new.at = "sent"
      BY NewCall
    <2>2. calls' = calls \cup {new} /\ \A m \in calls : m.kind # "status"
      BY <1>2 DEF Poll, fetch, PollInv
    <2> HIDE DEF new
    <2> QED BY <1>2, <2>1, <2>2 DEF Poll, PollInv, AreCalls
  <1>3. ASSUME NEW n, NEW kind, NEW body, kind # "status", fetch(n, kind, body),
               UNCHANGED <<version, applied, inFlight>>
        PROVE  PollInv' /\ (applied' >= applied)
    <2> DEFINE new == Request(n, kind, body)
    <2>1. DOMAIN new = Fields /\ new.kind = kind
      BY NewCall
    <2>2. calls' = calls \cup {new}
      BY <1>3 DEF fetch
    <2> HIDE DEF new
    <2> QED BY <1>3, <2>1, <2>2 DEF PollInv, AreCalls
  <1>4. CASE restart
    BY <1>3, <1>4 DEF restart
  <1>5. ASSUME NEW c \in Channels, Toggle(c) PROVE PollInv' /\ (applied' >= applied)
    BY <1>3, <1>5 DEF Toggle
  <1>6. ASSUME NEW s \in Sections, save(s) PROVE PollInv' /\ (applied' >= applied)
    BY <1>3, <1>6 DEF save
  <1>7. CASE OtherSaves
    BY <1>7 DEF OtherSaves, PollInv, AreCalls
  <1>8. ASSUME NEW c \in Channels, Switched(c) PROVE PollInv' /\ (applied' >= applied)
    BY <1>8 DEF Switched, SetRelay, PollInv, AreCalls
  <1>9. ASSUME NEW n \in Numbers, Return(n) PROVE PollInv' /\ (applied' >= applied)
    <2>1. PICK m \in calls :
              /\ m.at \in {"done", "failed"} /\ calls' = calls \ {m}
              /\ PollReturns(m) \/ ToggleReturns(m) \/ InfoReturns(m)
              /\ UNCHANGED <<device, fresh, overlap, events>>
      BY <1>9 DEF Return
    <2>2. CASE PollReturns(m)
      <3>1. \A q \in calls' : q.kind # "status"
        BY <2>1, <2>2 DEF PollReturns, PollInv
      <3>2. applied' \in Nat /\ applied' >= applied /\ applied' <= version
        BY <2>1, <2>2 DEF PollReturns, ShowStatus, PollInv
      <3> QED BY <2>1, <3>1, <3>2 DEF PollInv, AreCalls
    <2>3. CASE ToggleReturns(m) \/ InfoReturns(m)
      BY <2>1, <2>3 DEF ToggleReturns, InfoReturns, PollInv, AreCalls
    <2> QED BY <2>1, <2>2, <2>3
  <1>10. ASSUME NEW m \in calls, NEW reply, Finish(m, reply), version' \in Nat,
                version' >= version, UNCHANGED <<applied, inFlight>>,
                m.kind = "status" => reply.version = version
         PROVE  PollInv' /\ (applied' >= applied)
    <2>1. DOMAIN m = Fields
      BY DEF PollInv, AreCalls
    <2>2. ASSUME NEW c \in calls'
          PROVE  \/ c \in calls /\ c # m
                 \/ /\ DOMAIN c = Fields /\ c.kind = m.kind /\ c.reply = reply
                    /\ c = EndedAs(m, "done", reply)
      <3>1. CASE c \in Ended({m}, "done", reply)
        <4>1. \A q \in {m} : DOMAIN q = Fields
          BY <2>1
        <4> QED BY <3>1, <4>1, EndedCall
      <3> QED BY <1>10, <2>2, <3>1 DEF Finish
    <2> QED BY <1>10, <2>2 DEF PollInv, AreCalls
  <1>11. ASSUME NEW n \in Numbers, Handle(n) PROVE PollInv' /\ (applied' >= applied)
    <2>1. PICK m \in calls :
              /\ \/ HandleRelais(m) \/ HandleStatus(m) \/ HandleInfo(m)
                 \/ HandleSave(m) \/ HandleRestart(m)
              /\ UNCHANGED <<applied, inFlight>>
      BY <1>11 DEF Handle
    <2>2. CASE HandleRelais(m)
      BY <1>10, <2>1, <2>2 DEF HandleRelais, SetRelay, PollInv
    <2>3. CASE HandleStatus(m)
      BY <1>10, <2>1, <2>3 DEF HandleStatus, PollInv
    <2>4. CASE HandleInfo(m)
      BY <1>10, <2>1, <2>4 DEF HandleInfo, PollInv
    <2>5. CASE HandleSave(m)
      BY <1>10, <2>1, <2>5 DEF HandleSave, PollInv
    <2>6. CASE HandleRestart(m)
      <3>1. ASSUME NEW c \in calls'
            PROVE  \/ c \in calls /\ c # m /\ c.at # "sent"
                   \/ DOMAIN c = Fields /\ c.kind # "status"
                   \/ /\ DOMAIN c = Fields /\ c.at = "failed"
                      /\ \E q \in calls : /\ q.at = "sent" /\ q.kind = c.kind
                                          /\ c = EndedAs(q, "failed", None)
        <4>1. \A q \in calls : DOMAIN q = Fields
          BY DEF PollInv, AreCalls
        <4>2. CASE c \in Ended({m}, "done", None)
          <5>1. \A q \in {m} : DOMAIN q = Fields
            BY <4>1
          <5>2. m.kind = "restart"
            BY <2>6 DEF HandleRestart
          <5> QED BY <4>2, <5>1, <5>2, EndedCall
        <4>3. CASE c \in Ended({q \in calls \ {m} : q.at = "sent"}, "failed", None)
          <5> DEFINE others == {q \in calls \ {m} : q.at = "sent"}
          <5>1. \A q \in others : DOMAIN q = Fields /\ q \in calls /\ q.at = "sent"
            BY <4>1
          <5>2. c \in Ended(others, "failed", None)
            BY <4>3
          <5> HIDE DEF others
          <5>3. PICK q \in others :
                   /\ c = EndedAs(q, "failed", None)
                   /\ DOMAIN c = Fields /\ c.kind = q.kind /\ c.at = "failed"
            BY <5>1, <5>2, EndedCall
          <5> QED BY <5>1, <5>3
        <4> QED BY <2>6, <3>1, <4>2, <4>3 DEF HandleRestart
      <3>2. version' \in Nat /\ version' >= version
        BY <2>6 DEF HandleRestart, SetRelay, PollInv
      <3> QED BY <2>1, <3>1, <3>2 DEF PollInv, AreCalls
    <2> QED BY <2>1, <2>2, <2>3, <2>4, <2>5, <2>6
  <1>12. ASSUME NEW n \in Numbers, Lose(n) PROVE PollInv' /\ (applied' >= applied)
    <2>1. PICK m \in calls : /\ calls' = (calls \ {m}) \cup Ended({m}, "failed", None)
                             /\ UNCHANGED <<page, device>>
      BY <1>12 DEF Lose
    <2>2. DOMAIN m = Fields
      BY DEF PollInv, AreCalls
    <2>3. ASSUME NEW c \in calls'
          PROVE  \/ c \in calls /\ c # m
                 \/ /\ DOMAIN c = Fields /\ c.kind = m.kind /\ c.at = "failed"
                    /\ c = EndedAs(m, "failed", None)
      <3>1. CASE c \in Ended({m}, "failed", None)
        <4>1. \A q \in {m} : DOMAIN q = Fields
          BY <2>2
        <4> QED BY <3>1, <4>1, EndedCall
      <3> QED BY <2>1, <2>3, <3>1
    <2> QED BY <2>1, <2>3 DEF PollInv, AreCalls
  <1>13. CASE UNCHANGED vars
    BY <1>13 DEF vars, PollInv, AreCalls
  <1> QED
    BY <1>1, <1>2, <1>4, <1>5, <1>6, <1>7, <1>8, <1>9, <1>11, <1>12, <1>13
    DEF Next

\* However late status replies arrive, or fail, and whatever the page sends in
\* between, it never applies a status reply that is older than one it has applied
\* (startStatusPing).  What a click does to a box is not in it.
THEOREM RepliesAppliedInOrder == Spec => PollsInOrder
  <1>1. PollInv /\ [Next]_vars => PollInv'
    BY PollNext
  <1>2. PollInv /\ [Next]_vars => [applied' >= applied]_vars
    BY PollNext
  <1> QED BY PollInit, <1>1, <1>2, PTL DEF Spec, PollsInOrder

-----------------------------------------------------------------------------
(* Saves                                                                   *)

\* One call of this kind, for all that a reload leaves of the others.
Single(kind) == \A m, q \in calls : m.kind = kind /\ q.kind = kind => m = q

\* While the configuration is being loaded there is none to save.
InfoOK(m) ==
    m.kind = "info" =>
        /\ configESP = None
        /\ m.at = "done" => Past(m.reply) /\ (fresh => AtLeast(m.reply, config))

\* A save under way is not older than what the device has, nor newer than what
\* the page has; the page has been loaded.
NoInfo == \A q \in calls : q.kind # "info"
SaveOK(m) ==
    m.kind = "save" =>
        /\ m.at = "sent" /\ Past(m.body)
        /\ m.waiting => /\ NoInfo /\ AtLeast(configESP, m.body)
                        /\ fresh /\ ~overlap => AtLeast(m.body, config)

\* The page's configuration is not older than the device's, if no other page
\* has saved one.
Loaded ==
    configESP # None => Past(configESP) /\ (fresh => AtLeast(configESP, config))

SaveInv ==
    /\ AreCalls /\ events \in Nat /\ Past(config) /\ Loaded
    /\ overlap \in BOOLEAN /\ fresh \in BOOLEAN
    /\ Single("info") /\ (~overlap => Single("save"))
    /\ \A m \in calls : InfoOK(m) /\ SaveOK(m)

NoneOlder == fresh' /\ ~overlap => AtLeast(config', config)

LEMMA SaveInit == Init => SaveInv
  <1> SUFFICES ASSUME Init PROVE SaveInv
    OBVIOUS
  <1>1. overlap \in BOOLEAN /\ fresh \in BOOLEAN
    BY Zenon DEF Init
  <1>2. Past(Factory) /\ AtLeast(Factory, Factory)
    BY DEF Init, Past, Versions, AtLeast, Factory
  <1> QED BY <1>1, <1>2 DEF Init, SaveInv, AreCalls, Single, Loaded

\* What was saved in the past stays past.
LEMMA PastStays ==
    ASSUME events \in Nat, events' \in Nat, events' >= events
    PROVE  \A c : Past(c) => c \in Versions /\ \A s \in Sections : c[s] <= events'
  BY DEF Past, Versions

\* A step that leaves the configurations alone and adds no save.
LEMMA Quiet ==
    ASSUME SaveInv,
           \A c \in calls' :
              \/ c \in calls
              \/ /\ DOMAIN c = Fields /\ c.kind # "save"
                 /\ c.kind = "info" => c.at # "done" /\ configESP = None /\ ~NoInfo,
           Single("info")', UNCHANGED <<configESP, config, overlap, fresh>>,
           events' \in Nat, events' >= events
    PROVE  SaveInv' /\ NoneOlder
  <1>1. \A c : Past(c) => Past(c)'
    BY PastStays DEF Past, SaveInv
  <1>2. AreCalls' /\ Past(config)' /\ Loaded'
    BY <1>1 DEF SaveInv, AreCalls, Loaded, AtLeast
  <1>3. ~overlap' => Single("save")'
    BY DEF SaveInv, Single
  <1>4. ASSUME NEW c \in calls' PROVE InfoOK(c)' /\ SaveOK(c)'
    <2>0. NoInfo => NoInfo'
      BY DEF NoInfo
    <2>1. CASE c \in calls
      <3>1. InfoOK(c) /\ SaveOK(c)
        BY <2>1 DEF SaveInv
      <3> QED BY <1>1, <2>0, <3>1 DEF InfoOK, SaveOK, AtLeast
    <2>2. CASE c \notin calls
      BY <1>4, <2>2 DEF InfoOK, SaveOK
    <2> QED BY <2>1, <2>2
  <1>5. NoneOlder
    BY DEF SaveInv, NoneOlder, AtLeast, Past, Versions
  <1> QED BY <1>2, <1>3, <1>4, <1>5 DEF SaveInv

\* Requests that are neither saves nor loads of the configuration.
LEMMA OtherRequest ==
    ASSUME SaveInv, NEW n, NEW kind, NEW body, kind \notin {"save", "info"},
           fetch(n, kind, body), UNCHANGED <<configESP, config, overlap, fresh>>,
           events' \in Nat, events' >= events
    PROVE  SaveInv' /\ NoneOlder
  <1> DEFINE new == Request(n, kind, body)
  <1>1. DOMAIN new = Fields /\ new.kind = kind
    BY NewCall
  <1>2. calls' = calls \cup {new}
    BY DEF fetch
  <1> HIDE DEF new
  <1>3. Single("info")'
    BY <1>1, <1>2 DEF SaveInv, Single
  <1> QED BY <1>1, <1>2, <1>3, Quiet

\* A reload leaves the saves under way, as another page's.
LEMMA LoadNext == SaveInv /\ Load => SaveInv' /\ NoneOlder
  <1> SUFFICES ASSUME SaveInv, Load PROVE SaveInv' /\ NoneOlder
    OBVIOUS
  <1> DEFINE new == Request(events', "info", None)
             left == {[m EXCEPT !.waiting = FALSE] : m \in {m \in calls : Left(m)}}
  <1>1. /\ DOMAIN new = Fields /\ new.kind = "info" /\ new.at = "sent"
    BY NewCall
  <1>2. calls' = left \cup {new}
    BY DEF Load, Left
  <1>3. \A c \in left : \E m \in calls :
            /\ Left(m) /\ c = [m EXCEPT !.waiting = FALSE]
            /\ DOMAIN c = Fields /\ c.kind = m.kind /\ c.body = m.body
            /\ c.waiting = FALSE /\ c.at = m.at
    BY LeftCall DEF SaveInv
  <1>4. /\ configESP' = None /\ fresh' = FALSE /\ fresh' \in BOOLEAN
        /\ UNCHANGED <<config, overlap>>
        /\ events' \in Nat /\ events' >= events
    <2>1. fresh' = FALSE /\ fresh' \in BOOLEAN
      BY Zenon DEF Load
    <2> QED BY <2>1 DEF Load, Event, device, SaveInv
  <1>5. \A c : Past(c) => Past(c)'
    BY <1>4, PastStays DEF Past, SaveInv
  <1> HIDE DEF new, left
  <1>6. AreCalls' /\ Past(config)' /\ Loaded' /\ Single("info")'
    BY <1>1, <1>2, <1>3, <1>4, <1>5 DEF SaveInv, AreCalls, Loaded, Single, Left
  <1>7. ASSUME ~overlap', NEW c \in calls', NEW d \in calls',
               c.kind = "save", d.kind = "save"
        PROVE  c = d
    <2>1. c \in left /\ d \in left
      BY <1>1, <1>2, <1>7
    <2>2. Single("save")
      BY <1>4, <1>7 DEF SaveInv
    <2>3. PICK m \in calls : c = [m EXCEPT !.waiting = FALSE] /\ m.kind = "save"
      BY <1>3, <1>7, <2>1
    <2>4. PICK q \in calls : d = [q EXCEPT !.waiting = FALSE] /\ q.kind = "save"
      BY <1>3, <1>7, <2>1
    <2>5. m = q
      BY <2>2, <2>3, <2>4 DEF Single
    <2> QED BY <2>3, <2>4, <2>5
  <1>8. ASSUME NEW c \in calls' PROVE InfoOK(c)' /\ SaveOK(c)'
    <2>1. CASE c = new
      BY <1>1, <1>4, <2>1 DEF InfoOK, SaveOK
    <2>2. CASE c \in left
      <3>1. PICK m \in calls : /\ Left(m) /\ c.kind = m.kind /\ c.body = m.body
                               /\ c.waiting = FALSE /\ c.at = m.at
        BY <1>3, <2>2
      <3>2. SaveOK(m)
        BY DEF SaveInv
      <3> QED BY <1>5, <3>1, <3>2 DEF InfoOK, SaveOK, Left
    <2> QED BY <1>2, <1>8, <2>1, <2>2
  <1>9. NoneOlder
    BY <1>4 DEF NoneOlder
  <1> QED BY <1>4, <1>6, <1>7, <1>8, <1>9 DEF SaveInv, Single

\* A save is newer than anything in the past.
LEMMA SaveStep ==
    ASSUME SaveInv, NEW s \in Sections, save(s)
    PROVE  SaveInv' /\ NoneOlder
  <1> DEFINE new == Request(events', "save", configESP')
  <1>1. /\ DOMAIN new = Fields /\ new.kind = "save" /\ new.at = "sent"
        /\ new.body = configESP' /\ new.waiting = TRUE
    BY NewCall
  <1>2. calls' = calls \cup {new} /\ configESP # None
    BY DEF save, fetch
  <1>3. /\ UNCHANGED <<config, fresh>> /\ events' \in Nat /\ events' = events + 1
        /\ configESP' = [configESP EXCEPT ![s] = events']
    BY DEF save, Event, device, SaveInv
  <1>4. overlap' = (overlap \/ SavePending) /\ overlap' \in BOOLEAN
    BY Zenon DEF save
  <1>5. \A c : Past(c) => Past(c)'
    BY <1>3, PastStays DEF Past, SaveInv
  <1>6. /\ Past(configESP)' /\ AtLeast(configESP', configESP')
        /\ \A c \in Versions : AtLeast(configESP, c) => AtLeast(configESP', c)
        /\ fresh => AtLeast(configESP', config)
    <2>1. Past(configESP) /\ (fresh => AtLeast(configESP, config))
      BY <1>2 DEF SaveInv, Loaded
    <2> QED BY <1>3, <2>1 DEF Past, Versions, AtLeast, SaveInv
  <1> HIDE DEF new
  <1>7. NoInfo /\ NoInfo'
    BY <1>1, <1>2 DEF SaveInv, InfoOK, NoInfo
  <1>8. AreCalls' /\ Past(config)' /\ Loaded' /\ Single("info")'
    BY <1>1, <1>2, <1>3, <1>5, <1>6, <1>7
    DEF SaveInv, AreCalls, Loaded, Single, NoInfo, AtLeast
  <1>9. ASSUME ~overlap', NEW c \in calls' PROVE c.kind = "save" => c = new
    BY <1>2, <1>4, <1>9 DEF SavePending, SaveInv, SaveOK
  <1>10. ASSUME NEW c \in calls' PROVE InfoOK(c)' /\ SaveOK(c)'
    <2>1. InfoOK(c)'
      BY <1>7, <1>10 DEF InfoOK, NoInfo
    <2>2. CASE c = new
      <3>1. /\ c.at = "sent" /\ Past(c.body)' /\ AtLeast(configESP', c.body)
            /\ fresh => AtLeast(c.body, config)
        BY <1>1, <1>6, <2>2 DEF Past
      <3>2. AtLeast(configESP, c.body)' /\ (fresh' => AtLeast(c.body, config)')
        BY <1>3, <3>1 DEF AtLeast
      <3> QED BY <1>7, <2>1, <3>1, <3>2 DEF SaveOK
    <2>3. CASE c # new
      <3>1. SaveOK(c)
        BY <1>2, <1>10, <2>3 DEF SaveInv
      <3>2. c.kind = "save" => overlap'
        BY <1>9, <1>10, <2>3
      <3>3. CASE c.kind = "save"
        <4>1. c.at = "sent" /\ Past(c.body) /\ (c.waiting => AtLeast(configESP, c.body))
          BY <3>1, <3>3 DEF SaveOK
        <4>2. Past(c.body)' /\ c.body \in Versions
          BY <1>5, <4>1 DEF Past
        <4>3. c.waiting => AtLeast(configESP, c.body)'
          BY <1>6, <4>1, <4>2 DEF AtLeast
        <4> QED BY <1>7, <2>1, <3>2, <3>3, <4>1, <4>2, <4>3 DEF SaveOK
      <3> QED BY <2>1, <3>3 DEF SaveOK
    <2> QED BY <2>1, <2>2, <2>3
  <1>11. NoneOlder
    BY <1>3 DEF SaveInv, NoneOlder, AtLeast, Past, Versions
  <1> QED
    BY <1>3, <1>4, <1>8, <1>9, <1>10, <1>11 DEF SaveInv, Single

\* The device answers a load with what it has now.
LEMMA InfoStep ==
    ASSUME SaveInv, NEW m \in calls, HandleInfo(m), UNCHANGED <<configESP, overlap, events>>
    PROVE  SaveInv' /\ NoneOlder
  <1>1. DOMAIN m = Fields /\ \A q \in {m} : DOMAIN q = Fields
    BY DEF SaveInv, AreCalls
  <1>2. /\ configESP = None /\ ~NoInfo /\ m.kind = "info" /\ UNCHANGED config
        /\ calls' = (calls \ {m}) \cup Ended({m}, "done", config)
    BY DEF HandleInfo, Finish, SaveInv, InfoOK, NoInfo, device
  <1>3. fresh' \in BOOLEAN
    BY Zenon DEF HandleInfo
  <1>4. \A c \in Ended({m}, "done", config) :
            /\ c = EndedAs(m, "done", config) /\ DOMAIN c = Fields
            /\ c.kind = "info" /\ c.reply = config
    BY <1>1, <1>2, EndedCall
  <1>5. AreCalls' /\ Past(config)' /\ Loaded' /\ Single("info")'
    BY <1>2, <1>4 DEF SaveInv, AreCalls, Past, Loaded, Single
  <1>6. ~overlap' => Single("save")'
    BY <1>2, <1>4 DEF SaveInv, Single
  <1>7. AtLeast(config, config)
    BY DEF SaveInv, Past, Versions, AtLeast
  <1>8. ASSUME NEW c \in calls' PROVE InfoOK(c)' /\ SaveOK(c)'
    <2>1. CASE c \in Ended({m}, "done", config)
      BY <1>2, <1>4, <1>7, <2>1 DEF SaveInv, InfoOK, SaveOK, Past, AtLeast
    <2>2. CASE c \in calls /\ c # m
      <3>1. c.kind # "info"
        BY <1>2, <2>2 DEF SaveInv, Single
      <3>2. SaveOK(c)
        BY <2>2 DEF SaveInv
      <3> QED BY <1>2, <3>1, <3>2 DEF InfoOK, SaveOK, Past
    <2> QED BY <1>2, <1>8, <2>1, <2>2
  <1>9. NoneOlder
    BY <1>2, <1>7 DEF NoneOlder
  <1> QED BY <1>3, <1>5, <1>6, <1>8, <1>9 DEF SaveInv

\* The page takes over the configuration it was sent.
LEMMA InfoReturnsStep ==
    ASSUME SaveInv, NEW m \in calls, calls' = calls \ {m}, InfoReturns(m),
           UNCHANGED <<config, fresh, overlap, events>>
    PROVE  SaveInv' /\ NoneOlder
  <1>1. m.kind = "info" /\ configESP = None /\ ~NoInfo
    BY DEF InfoReturns, SaveInv, InfoOK, NoInfo
  <1>2. \A c \in calls' : c \in calls /\ c.kind # "info"
    BY <1>1 DEF SaveInv, Single
  <1>3. Loaded'
    <2>1. CASE m.at = "done"
      <3>1. Past(m.reply) /\ (fresh => AtLeast(m.reply, config)) /\ configESP' = m.reply
        BY <1>1, <2>1 DEF SaveInv, InfoOK, InfoReturns
      <3> QED BY <3>1 DEF Loaded, Past, AtLeast
    <2>2. CASE m.at # "done"
      BY <1>1, <2>2 DEF InfoReturns, Loaded
    <2> QED BY <2>1, <2>2
  <1>4. ASSUME NEW c \in calls' PROVE InfoOK(c)' /\ SaveOK(c)'
    <2>1. SaveOK(c) /\ c.kind # "info"
      BY <1>2, <1>4 DEF SaveInv
    <2> QED BY <1>1, <2>1 DEF InfoOK, SaveOK, Past
  <1>5. /\ AreCalls' /\ Past(config)' /\ Single("info")'
        /\ ~overlap' => Single("save")'
    BY <1>2 DEF SaveInv, AreCalls, Past, Single
  <1>6. NoneOlder
    BY DEF SaveInv, NoneOlder, AtLeast, Past, Versions
  <1> QED BY <1>3, <1>4, <1>5, <1>6 DEF SaveInv

\* The device takes a save: this page's is not older than what it replaces.
LEMMA HandleSaveStep ==
    ASSUME SaveInv, NEW m \in calls, HandleSave(m),
           UNCHANGED <<configESP, overlap, events>>
    PROVE  SaveInv' /\ NoneOlder
  <1>1. DOMAIN m = Fields /\ (\A q \in {m} : DOMAIN q = Fields) /\ SaveOK(m)
    BY DEF SaveInv, AreCalls
  <1>2. /\ m.kind = "save" /\ config' = m.body /\ fresh' = (fresh /\ m.waiting)
        /\ calls' = (calls \ {m}) \cup Ended({m}, "done", None)
    BY DEF HandleSave, Finish
  <1>3. Ended({m}, "done", None) = {}
    BY <1>1, <1>2, EndedCall
  <1>4. calls' = calls \ {m} /\ Past(m.body)
    BY <1>1, <1>2, <1>3 DEF SaveOK
  <1>5. fresh' \in BOOLEAN /\ (fresh' => fresh /\ m.waiting)
    BY <1>2, Zenon
  <1>6. AreCalls' /\ Past(config)' /\ Single("info")' /\ (~overlap' => Single("save")')
    BY <1>2, <1>4 DEF SaveInv, AreCalls, Past, Single
  <1>7. Loaded'
    BY <1>1, <1>2, <1>5 DEF SaveInv, Loaded, SaveOK, Past, AtLeast
  <1>8. ASSUME NEW c \in calls' PROVE InfoOK(c)' /\ SaveOK(c)'
    <2>1. c \in calls /\ c # m /\ InfoOK(c) /\ SaveOK(c)
      BY <1>4, <1>8 DEF SaveInv
    <2>2. InfoOK(c)'
      BY <1>1, <1>2, <1>5, <2>1 DEF InfoOK, SaveOK, NoInfo, Past
    <2>3. c.kind = "save" => overlap
      BY <1>2, <2>1 DEF SaveInv, Single
    <2>4. NoInfo => NoInfo'
      BY <1>4 DEF NoInfo
    <2>5. SaveOK(c)'
      BY <1>5, <2>1, <2>3, <2>4 DEF SaveOK, Past, AtLeast
    <2> QED BY <2>2, <2>5
  <1>9. NoneOlder
    BY <1>1, <1>2, <1>5 DEF NoneOlder, SaveOK
  <1> QED BY <1>5, <1>6, <1>7, <1>8, <1>9 DEF SaveInv

LEMMA SaveNext ==
    ASSUME SaveInv, [Next]_vars
    PROVE  SaveInv' /\ NoneOlder
  <1> USE DEF page, device
  <1>0. events \in Nat
    BY DEF SaveInv
  <1>1. CASE Load
    BY <1>1, LoadNext
  <1>2. CASE Poll
    BY <1>0, <1>2, OtherRequest DEF Poll
  <1>3. CASE restart
    BY <1>0, <1>3, OtherRequest DEF restart, Event
  <1>4. ASSUME NEW c \in Channels, Toggle(c) PROVE SaveInv' /\ NoneOlder
    BY <1>0, <1>4, OtherRequest DEF Toggle, Event
  <1>5. ASSUME NEW s \in Sections, save(s) PROVE SaveInv' /\ NoneOlder
    BY <1>5, SaveStep
  <1>6. CASE OtherSaves
    <2>1. /\ events' = events + 1 /\ config' = [s \in Sections |-> events']
          /\ UNCHANGED <<calls, configESP, overlap>> /\ ~fresh'
      BY <1>6 DEF OtherSaves, Event
    <2>2. fresh' \in BOOLEAN
      BY <1>6, Zenon DEF OtherSaves
    <2>3. \A c : Past(c) => Past(c)'
      BY <1>0, <2>1, PastStays DEF Past
    <2>4. Past(config)' /\ events' \in Nat
      BY <1>0, <2>1 DEF Past, Versions
    <2>5. \A m \in calls : InfoOK(m)' /\ SaveOK(m)'
      BY <2>1, <2>3 DEF SaveInv, InfoOK, SaveOK, NoInfo, AtLeast
    <2>6. AreCalls' /\ Loaded' /\ Single("info")' /\ (~overlap' => Single("save")')
      BY <2>1, <2>3 DEF SaveInv, AreCalls, Loaded, Single
    <2> QED BY <2>1, <2>2, <2>4, <2>5, <2>6 DEF SaveInv, NoneOlder
  <1>7. ASSUME NEW c \in Channels, Switched(c) PROVE SaveInv' /\ NoneOlder
    <2>1. Single("info")'
      BY <1>7 DEF Switched, SaveInv, Single
    <2> QED BY <1>0, <1>7, <2>1, Quiet DEF Switched, Event
  <1>8. ASSUME NEW n \in Numbers, Return(n) PROVE SaveInv' /\ NoneOlder
    <2>1. PICK m \in calls :
              /\ calls' = calls \ {m}
              /\ PollReturns(m) \/ ToggleReturns(m) \/ InfoReturns(m)
              /\ UNCHANGED <<config, fresh, overlap, events>>
      BY <1>8 DEF Return
    <2>2. CASE InfoReturns(m)
      BY <2>1, <2>2, InfoReturnsStep
    <2>3. CASE PollReturns(m) \/ ToggleReturns(m)
      <3>1. UNCHANGED configESP
        BY <2>3 DEF PollReturns, ToggleReturns
      <3>2. Single("info")'
        BY <2>1 DEF SaveInv, Single
      <3> QED BY <1>0, <2>1, <3>1, <3>2, Quiet
    <2> QED BY <2>1, <2>2, <2>3
  <1>9. ASSUME NEW ms \in SUBSET calls, NEW at, at # "done",
               \A c \in calls' : c \in calls \ ms \/ c \in Ended(ms, at, None),
               UNCHANGED <<configESP, config, overlap, fresh>>,
               events' \in Nat, events' >= events
        PROVE  SaveInv' /\ NoneOlder
    <2>1. \A m \in ms : DOMAIN m = Fields
      BY DEF SaveInv, AreCalls
    <2>2. \A c \in Ended(ms, at, None) : \E m \in ms :
              /\ c = EndedAs(m, at, None) /\ DOMAIN c = Fields
              /\ c.kind = m.kind /\ c.kind # "save" /\ c.at = at
      BY <2>1, EndedCall
    <2>3. Single("info")'
      BY <1>9, <2>2 DEF SaveInv, Single
    <2>4. ASSUME NEW c \in Ended(ms, at, None), c.kind = "info"
          PROVE  configESP = None /\ ~NoInfo
      <3>1. PICK m \in ms : m.kind = "info"
        BY <2>2, <2>4
      <3> QED BY <3>1 DEF SaveInv, InfoOK, NoInfo
    <2> QED BY <1>9, <2>2, <2>3, <2>4, Quiet
  <1>10. ASSUME NEW n \in Numbers, Lose(n) PROVE SaveInv' /\ NoneOlder
    <2>1. PICK m \in calls : /\ calls' = (calls \ {m}) \cup Ended({m}, "failed", None)
                             /\ Event /\ UNCHANGED <<page, device, fresh, overlap>>
      BY <1>10 DEF Lose
    <2> QED BY <1>0, <1>9, <2>1 DEF Event
  <1>11. ASSUME NEW m \in calls, NEW reply, m.kind \in {"relais", "status"},
                Finish(m, reply),
                UNCHANGED <<configESP, config, overlap, fresh, events>>
         PROVE  SaveInv' /\ NoneOlder
    <2>1. \A q \in {m} : DOMAIN q = Fields
      BY DEF SaveInv, AreCalls
    <2>2. \A c \in Ended({m}, "done", reply) :
              DOMAIN c = Fields /\ c.kind \in {"relais", "status"}
      BY <1>11, <2>1, EndedCall
    <2>3. Single("info")'
      BY <1>11, <2>2 DEF Finish, SaveInv, Single
    <2> QED BY <1>0, <1>11, <2>2, <2>3, Quiet DEF Finish
  <1>12. ASSUME NEW n \in Numbers, Handle(n) PROVE SaveInv' /\ NoneOlder
    <2>1. PICK m \in calls :
              /\ \/ HandleRelais(m) \/ HandleStatus(m) \/ HandleInfo(m)
                 \/ HandleSave(m) \/ HandleRestart(m)
              /\ UNCHANGED <<configESP, overlap, events>>
      BY <1>12 DEF Handle
    <2>2. CASE HandleRelais(m)
      BY <1>11, <2>1, <2>2 DEF HandleRelais
    <2>3. CASE HandleStatus(m)
      BY <1>11, <2>1, <2>3 DEF HandleStatus
    <2>4. CASE HandleInfo(m)
      BY <2>1, <2>4, InfoStep
    <2>5. CASE HandleSave(m)
      BY <2>1, <2>5, HandleSaveStep
    <2>6. CASE HandleRestart(m)
      <3> DEFINE others == {q \in calls \ {m} : q.at = "sent"}
                 ms == others \cup {m}
      <3>1. /\ calls' = (calls \ ({m} \cup others)) \cup Ended({m}, "done", None)
                            \cup Ended(others, "failed", None)
            /\ m.kind = "restart" /\ UNCHANGED <<config, fresh>>
        BY <2>6 DEF HandleRestart
      <3>2. \A q \in {m} : DOMAIN q = Fields
        BY DEF SaveInv, AreCalls
      <3>3. Ended({m}, "done", None) = {}
        BY <3>1, <3>2, EndedCall
      <3>4. Ended(others, "failed", None) \subseteq Ended(ms, "failed", None)
        BY DEF Ended
      <3>5. \A c \in calls' : c \in calls \ ms \/ c \in Ended(ms, "failed", None)
        BY <3>1, <3>3, <3>4
      <3>6. ms \in SUBSET calls
        OBVIOUS
      <3>7. /\ UNCHANGED <<configESP, config, overlap, fresh>>
            /\ events' \in Nat /\ events' >= events
        BY <1>0, <2>1, <3>1
      <3> HIDE DEF ms
      <3> QED BY <1>9, <3>5, <3>6, <3>7
    <2> QED BY <2>1, <2>2, <2>3, <2>4, <2>5, <2>6
  <1>13. CASE UNCHANGED vars
    <2>1. Single("info")'
      BY <1>13 DEF vars, SaveInv, Single
    <2> QED BY <1>0, <1>13, <2>1, Quiet DEF vars
  <1> QED
    BY <1>1, <1>2, <1>3, <1>4, <1>5, <1>6, <1>7, <1>8, <1>10, <1>12, <1>13
    DEF Next

\* Each save of this page takes no section back to an older value, however its
\* calls are lost, repeated by the user or overtaken, as long as no other page
\* has saved since it was loaded and no two saves were under way at once
\* (save).
THEOREM SavesGoForward == Spec => NoRollback
  <1>1. SaveInv /\ [Next]_vars => SaveInv'
    BY SaveNext
  <1>2. SaveInv /\ [Next]_vars =>
            [fresh' /\ ~overlap => \A s \in Sections : config'[s] >= config[s]]_vars
    BY SaveNext DEF NoneOlder, AtLeast
  <1> QED BY SaveInit, <1>1, <1>2, PTL DEF Spec, NoRollback
-----------------------------------------------------------------------------
(* Types                                                                   *)

Configs == [Sections -> 0 .. MaxEvents]
Kinds == {"status", "relais", "info", "save", "restart"}

\* What a call and its reply carry.  A status call or a load that the page no
\* longer waits for is gone.
CallOK(m) ==
    /\ DOMAIN m = Fields
    /\ m.n \in Numbers /\ m.waiting \in BOOLEAN /\ m.kind \in Kinds
    /\ m.at \in {"sent", "done", "failed"} /\ (~m.waiting => m.at = "sent")
    /\ m.kind \in {"status", "info"} => m.waiting
    /\ m.kind = "relais" => m.body.channel \in Channels /\ m.body.state \in BOOLEAN
    /\ m.kind = "save" => m.body \in Configs
    /\ m.at = "done" /\ m.kind = "status" => m.reply.relay \in [Channels -> BOOLEAN]
    /\ m.at = "done" /\ m.kind = "info" => m.reply \in Configs

CallsOK == \A m \in calls : CallOK(m)

FlagsOK == inFlight \in BOOLEAN /\ fresh \in BOOLEAN /\ overlap \in BOOLEAN

RelaysOK == box \in [Channels -> BOOLEAN] /\ relay \in [Channels -> BOOLEAN]

ConfigsOK ==
    /\ configESP \in Configs \cup {None} /\ config \in Configs
    /\ events \in 0 .. MaxEvents

\* The status call that inFlight stands for is under way.
Awaited == inFlight => \E m \in calls : m.kind = "status"

TypeInv == CallsOK /\ FlagsOK /\ RelaysOK /\ ConfigsOK /\ Awaited

\* The number of an event is a number of a call, and of a save.
LEMMA EventNumber ==
    ConfigsOK /\ Event => events' \in 0 .. MaxEvents /\ events' \in Numbers
  BY EventsAssumption DEF ConfigsOK, Event, Numbers

\* A call that ends is one, if its reply is one for its kind.
LEMMA EndedOK ==
    ASSUME NEW ms, \A m \in ms : CallOK(m), NEW at \in {"done", "failed"}, NEW reply,
           at = "done" => \A m \in ms :
              /\ m.kind = "status" => reply.relay \in [Channels -> BOOLEAN]
              /\ m.kind = "info" => reply \in Configs
    PROVE  \A c \in Ended(ms, at, reply) : CallOK(c)
  <1>1. \A m \in ms : DOMAIN m = Fields
    BY DEF CallOK
  <1>2. SUFFICES ASSUME NEW c \in Ended(ms, at, reply) PROVE CallOK(c)
    OBVIOUS
  <1>3. PICK m \in ms :
            /\ m.waiting /\ m.kind \in {"status", "relais", "info"}
            /\ DOMAIN c = Fields /\ c.n = m.n
            /\ c.kind = m.kind /\ c.body = m.body /\ c.waiting = m.waiting
            /\ c.at = at /\ c.reply = reply
    BY <1>1, EndedCall
  <1>4. CallOK(m)
    OBVIOUS
  <1> QED BY <1>3, <1>4 DEF CallOK

\* A status call that ends has a reply under way, for the page waits for it.
LEMMA EndedPoll ==
    ASSUME NEW ms, NEW m \in ms, CallOK(m), m.kind = "status", NEW at, NEW reply
    PROVE  \E c \in Ended(ms, at, reply) : c.kind = "status"
  <1> DEFINE c == EndedAs(m, at, reply)
  <1>1. c \in Ended(ms, at, reply)
    BY DEF Ended, EndedAs, CallOK
  <1>2. c.kind = "status"
    BY DEF EndedAs, CallOK, Fields
  <1> QED BY <1>1, <1>2

LEMMA TypeInit == Init => TypeInv
  <1> SUFFICES ASSUME Init PROVE TypeInv
    OBVIOUS
  <1>1. FlagsOK
    BY Zenon DEF Init, FlagsOK
  <1>2. RelaysOK
    BY DEF Init, RelaysOK, AllOff
  <1>3. ConfigsOK
    BY EventsAssumption DEF Init, ConfigsOK, Configs, Factory
  <1>4. CallsOK /\ Awaited
    BY DEF Init, CallsOK, Awaited
  <1> QED BY <1>1, <1>2, <1>3, <1>4 DEF TypeInv

\* A new request is a call, and leaves the others.
LEMMA RequestOK ==
    ASSUME CallsOK, Awaited, NEW n \in Numbers, NEW kind \in Kinds, NEW body,
           fetch(n, kind, body),
           kind = "relais" => body.channel \in Channels /\ body.state \in BOOLEAN,
           kind = "save" => body \in Configs,
           inFlight' = inFlight \/ kind = "status"
    PROVE  CallsOK' /\ Awaited'
  <1> DEFINE new == Request(n, kind, body)
  <1>1. /\ DOMAIN new = Fields /\ new.n = n /\ new.kind = kind /\ new.body = body
        /\ new.waiting = TRUE /\ new.at = "sent"
    BY NewCall
  <1>2. calls' = calls \cup {new}
    BY DEF fetch
  <1> HIDE DEF new
  <1>3. CallOK(new)
    BY <1>1 DEF CallOK
  <1> QED BY <1>1, <1>2, <1>3 DEF CallsOK, Awaited

\* The reload of the page.
LEMMA LoadType == TypeInv /\ Load => TypeInv'
  <1> SUFFICES ASSUME TypeInv, Load PROVE TypeInv'
    OBVIOUS
  <1> DEFINE new == Request(events', "info", None)
             left == {[m EXCEPT !.waiting = FALSE] : m \in {m \in calls : Left(m)}}
  <1>1. /\ DOMAIN new = Fields /\ new.kind = "info" /\ new.at = "sent"
        /\ new.n = events' /\ new.waiting = TRUE
    BY NewCall
  <1>2. calls' = left \cup {new}
    BY DEF Load, Left
  <1>3. events' \in 0 .. MaxEvents /\ events' \in Numbers
    BY EventNumber DEF Load, TypeInv
  <1>4. AreCalls
    BY DEF TypeInv, CallsOK, CallOK, AreCalls
  <1>5. \A c \in left : \E m \in calls :
            /\ Left(m) /\ DOMAIN c = Fields /\ c.n = m.n /\ c.kind = m.kind
            /\ c.body = m.body /\ c.waiting = FALSE /\ c.at = m.at
    BY <1>4, LeftCall
  <1> HIDE DEF new, left
  <1>6. CallOK(new)
    BY <1>1, <1>3 DEF CallOK, Kinds
  <1>7. ASSUME NEW c \in left PROVE CallOK(c)
    <2>1. PICK m \in calls :
              /\ Left(m) /\ DOMAIN c = Fields /\ c.n = m.n /\ c.kind = m.kind
              /\ c.body = m.body /\ c.waiting = FALSE /\ c.at = m.at
      BY <1>5, <1>7
    <2>2. CallOK(m)
      BY DEF TypeInv, CallsOK
    <2> QED BY <2>1, <2>2 DEF CallOK, Left
  <1>8. CallsOK'
    BY <1>2, <1>6, <1>7 DEF CallsOK
  <1>9. FlagsOK' /\ Awaited'
    <2>1. inFlight' = FALSE /\ fresh' = FALSE /\ overlap' = overlap
      BY DEF Load
    <2> QED BY <2>1, Zenon DEF TypeInv, FlagsOK, Awaited
  <1>10. RelaysOK' /\ ConfigsOK'
    BY <1>3 DEF Load, TypeInv, RelaysOK, ConfigsOK, AllOff, device
  <1> QED BY <1>8, <1>9, <1>10 DEF TypeInv

\* Requests of the loaded page.
LEMMA RequestType ==
    ASSUME TypeInv, \/ Poll \/ restart
                    \/ \E c \in Channels : Toggle(c)
                    \/ \E s \in Sections : save(s)
    PROVE  TypeInv'
  <1>1. CASE Poll
    <2>1. PollNumber \in Numbers
      BY EventsAssumption DEF PollNumber, Numbers
    <2>2. CallsOK' /\ Awaited'
      <3>1. fetch(PollNumber, "status", None) /\ "status" \in Kinds
        BY <1>1 DEF Poll, Kinds
      <3> QED BY <2>1, <3>1, RequestOK DEF TypeInv
    <2>3. FlagsOK'
      BY <1>1, Zenon DEF Poll, TypeInv, FlagsOK
    <2>4. RelaysOK' /\ ConfigsOK'
      BY <1>1 DEF Poll, TypeInv, RelaysOK, ConfigsOK, device
    <2> QED BY <2>2, <2>3, <2>4 DEF TypeInv
  <1>2. CASE restart
    <2>1. events' \in 0 .. MaxEvents /\ events' \in Numbers
      BY <1>2, EventNumber DEF restart, TypeInv
    <2>2. CallsOK' /\ Awaited'
      <3>1. /\ fetch(events', "restart", None) /\ "restart" \in Kinds
            /\ inFlight' = inFlight
        BY <1>2 DEF restart, Kinds, page
      <3> QED BY <2>1, <3>1, RequestOK DEF TypeInv
    <2>3. FlagsOK'
      BY <1>2, Zenon DEF restart, TypeInv, FlagsOK, page
    <2>4. RelaysOK' /\ ConfigsOK'
      BY <1>2, <2>1 DEF restart, TypeInv, RelaysOK, ConfigsOK, device, page
    <2> QED BY <2>2, <2>3, <2>4 DEF TypeInv
  <1>3. ASSUME NEW c \in Channels, Toggle(c) PROVE TypeInv'
    <2>1. events' \in 0 .. MaxEvents /\ events' \in Numbers
      BY <1>3, EventNumber DEF Toggle, TypeInv
    <2>2. box' \in [Channels -> BOOLEAN] /\ box'[c] \in BOOLEAN
      BY <1>3 DEF Toggle, TypeInv, RelaysOK
    <2> DEFINE body == [channel |-> c, state |-> box'[c]]
    <2>3. body.channel \in Channels /\ body.state \in BOOLEAN
      BY <1>3, <2>2
    <2>4. fetch(events', "relais", body) /\ "relais" \in Kinds /\ inFlight' = inFlight
      BY <1>3 DEF Toggle, Kinds
    <2> HIDE DEF body
    <2>5. CallsOK' /\ Awaited'
      BY <2>1, <2>3, <2>4, RequestOK DEF TypeInv
    <2>6. FlagsOK'
      BY <1>3, Zenon DEF Toggle, TypeInv, FlagsOK
    <2>7. RelaysOK' /\ ConfigsOK'
      BY <1>3, <2>1, <2>2 DEF Toggle, TypeInv, RelaysOK, ConfigsOK, device
    <2> QED BY <2>5, <2>6, <2>7 DEF TypeInv
  <1>4. ASSUME NEW s \in Sections, save(s) PROVE TypeInv'
    <2>1. events' \in 0 .. MaxEvents /\ events' \in Numbers
      BY <1>4, EventNumber DEF save, TypeInv
    <2>2. configESP' \in Configs
      BY <1>4, <2>1 DEF save, TypeInv, ConfigsOK, Configs
    <2>3. fetch(events', "save", configESP') /\ "save" \in Kinds /\ inFlight' = inFlight
      BY <1>4 DEF save, Kinds
    <2>4. CallsOK' /\ Awaited'
      BY <2>1, <2>2, <2>3, RequestOK DEF TypeInv
    <2>5. FlagsOK'
      BY <1>4, Zenon DEF save, TypeInv, FlagsOK
    <2>6. RelaysOK' /\ ConfigsOK'
      BY <1>4, <2>1, <2>2 DEF save, TypeInv, RelaysOK, ConfigsOK, device
    <2> QED BY <2>4, <2>5, <2>6 DEF TypeInv
  <1> QED BY <1>1, <1>2, <1>3, <1>4

\* Calls that end, with a reply for their kind, keep a poll that the page awaits.
LEMMA EndType ==
    ASSUME CallsOK, Awaited, UNCHANGED inFlight, NEW ms \in SUBSET calls,
           NEW at \in {"done", "failed"}, NEW reply,
           calls' = (calls \ ms) \cup Ended(ms, at, reply),
           at = "done" => \A m \in ms :
              /\ m.kind = "status" => reply.relay \in [Channels -> BOOLEAN]
              /\ m.kind = "info" => reply \in Configs
    PROVE  CallsOK' /\ Awaited'
  <1>1. \A m \in ms : CallOK(m)
    BY DEF CallsOK
  <1>2. \A c \in Ended(ms, at, reply) : CallOK(c)
    BY <1>1, EndedOK
  <1>3. CallsOK'
    BY <1>2 DEF CallsOK
  <1>4. ASSUME inFlight' PROVE \E c \in calls' : c.kind = "status"
    <2>1. PICK m \in calls : m.kind = "status"
      BY <1>4 DEF Awaited
    <2>2. CASE m \in ms
      BY <1>1, <2>1, <2>2, EndedPoll
    <2> QED BY <2>1, <2>2
  <1> QED BY <1>3, <1>4 DEF Awaited

\* The device answers.
LEMMA HandleType ==
    ASSUME TypeInv, NEW n \in Numbers, Handle(n) PROVE TypeInv'
  <1>1. PICK m \in calls :
            /\ m.at = "sent"
            /\ \/ HandleRelais(m) \/ HandleStatus(m) \/ HandleInfo(m)
               \/ HandleSave(m) \/ HandleRestart(m)
            /\ UNCHANGED <<page, overlap, events>>
    BY DEF Handle
  <1>2. CallOK(m) /\ {m} \in SUBSET calls
    BY DEF TypeInv, CallsOK
  <1>3. ASSUME NEW reply, Finish(m, reply),
               m.kind = "status" => reply.relay \in [Channels -> BOOLEAN],
               m.kind = "info" => reply \in Configs
        PROVE  CallsOK' /\ Awaited'
    <2> DEFINE ms == {m}
    <2>1. ms \in SUBSET calls /\ calls' = (calls \ ms) \cup Ended(ms, "done", reply)
      BY <1>2, <1>3 DEF Finish
    <2>2. UNCHANGED inFlight /\ "done" \in {"done", "failed"}
      BY <1>1 DEF page
    <2>3. \A q \in ms :
              /\ q.kind = "status" => reply.relay \in [Channels -> BOOLEAN]
              /\ q.kind = "info" => reply \in Configs
      BY <1>3
    <2>4. CallsOK /\ Awaited
      BY DEF TypeInv
    <2> HIDE DEF ms
    <2> QED BY ONLY <2>1, <2>2, <2>3, <2>4, EndType
  <1>4. UNCHANGED <<box, configESP, inFlight, overlap, events>>
    BY <1>1 DEF page
  <1>5. CASE HandleRelais(m)
    <2>1. CallsOK' /\ Awaited'
      BY <1>3, <1>5 DEF HandleRelais
    <2>2. relay' \in [Channels -> BOOLEAN]
      BY <1>2, <1>5 DEF HandleRelais, SetRelay, TypeInv, RelaysOK, CallOK
    <2>3. FlagsOK'
      BY <1>4, <1>5, Zenon DEF HandleRelais, TypeInv, FlagsOK
    <2>4. RelaysOK' /\ ConfigsOK'
      BY <1>4, <1>5, <2>2 DEF HandleRelais, TypeInv, RelaysOK, ConfigsOK
    <2> QED BY <2>1, <2>3, <2>4 DEF TypeInv
  <1>6. CASE HandleStatus(m)
    <2>1. CallsOK' /\ Awaited'
      BY <1>3, <1>6 DEF HandleStatus, TypeInv, RelaysOK
    <2>2. FlagsOK'
      BY <1>4, <1>6, Zenon DEF HandleStatus, TypeInv, FlagsOK
    <2>3. RelaysOK' /\ ConfigsOK'
      BY <1>4, <1>6 DEF HandleStatus, TypeInv, RelaysOK, ConfigsOK, device
    <2> QED BY <2>1, <2>2, <2>3 DEF TypeInv
  <1>7. CASE HandleInfo(m)
    <2>1. CallsOK' /\ Awaited'
      BY <1>3, <1>7 DEF HandleInfo, TypeInv, ConfigsOK
    <2>2. FlagsOK'
      BY <1>4, <1>7, Zenon DEF HandleInfo, TypeInv, FlagsOK
    <2>3. RelaysOK' /\ ConfigsOK'
      BY <1>4, <1>7 DEF HandleInfo, TypeInv, RelaysOK, ConfigsOK, device
    <2> QED BY <2>1, <2>2, <2>3 DEF TypeInv
  <1>8. CASE HandleSave(m)
    <2>1. CallsOK' /\ Awaited'
      BY <1>3, <1>8 DEF HandleSave
    <2>2. config' \in Configs
      BY <1>2, <1>8 DEF HandleSave, CallOK
    <2>3. FlagsOK'
      BY <1>4, <1>8, Zenon DEF HandleSave, TypeInv, FlagsOK
    <2>4. RelaysOK' /\ ConfigsOK'
      BY <1>4, <1>8, <2>2 DEF HandleSave, TypeInv, RelaysOK, ConfigsOK
    <2> QED BY <2>1, <2>3, <2>4 DEF TypeInv
  <1>9. CASE HandleRestart(m)
    <2> DEFINE others == {q \in calls \ {m} : q.at = "sent"}
               ms == others \cup {m}
    <2>1. /\ m.kind = "restart"
          /\ calls' = (calls \ ({m} \cup others)) \cup Ended({m}, "done", None)
                          \cup Ended(others, "failed", None)
      BY <1>9 DEF HandleRestart
    <2>2. Ended({m}, "done", None) = {} /\ Ended(ms, "failed", None) = Ended(others, "failed", None)
      BY <2>1 DEF Ended
    <2>3. calls' = (calls \ ms) \cup Ended(ms, "failed", None)
      BY <2>1, <2>2
    <2>4. ms \in SUBSET calls
      OBVIOUS
    <2> HIDE DEF ms
    <2>5. CallsOK' /\ Awaited'
      <3>1. "failed" \in {"done", "failed"} /\ ~("failed" = "done")
        OBVIOUS
      <3> QED BY <1>4, <2>3, <2>4, <3>1, EndType DEF TypeInv
    <2>6. FlagsOK'
      BY <1>4, <1>9, Zenon DEF HandleRestart, TypeInv, FlagsOK
    <2>7. RelaysOK' /\ ConfigsOK'
      BY <1>4, <1>9 DEF HandleRestart, SetRelay, AllOff, TypeInv, RelaysOK, ConfigsOK
    <2> QED BY <2>5, <2>6, <2>7 DEF TypeInv
  <1> QED BY <1>1, <1>5, <1>6, <1>7, <1>8, <1>9

\* A call's end reaches the page; the end of a poll allows the next.
LEMMA ReturnType ==
    ASSUME TypeInv, NEW n \in Numbers, Return(n) PROVE TypeInv'
  <1>1. PICK m \in calls :
            /\ calls' = calls \ {m}
            /\ PollReturns(m) \/ ToggleReturns(m) \/ InfoReturns(m)
            /\ UNCHANGED <<device, fresh, overlap, events>>
    BY DEF Return
  <1>2. CallOK(m) /\ CallsOK'
    BY <1>1 DEF TypeInv, CallsOK
  <1>3. UNCHANGED <<relay, config, fresh, overlap, events>>
    BY <1>1 DEF device
  <1>4. CASE PollReturns(m)
    <2>1. FlagsOK' /\ Awaited'
      <3>1. inFlight' = FALSE
        BY <1>4 DEF PollReturns
      <3> QED BY <1>3, <3>1, Zenon DEF TypeInv, FlagsOK, Awaited
    <2>2. RelaysOK'
      BY <1>2, <1>3, <1>4 DEF PollReturns, ShowStatus, CallOK, TypeInv, RelaysOK
    <2>3. ConfigsOK'
      BY <1>3, <1>4 DEF PollReturns, TypeInv, ConfigsOK
    <2> QED BY <1>2, <2>1, <2>2, <2>3 DEF TypeInv
  <1>5. ASSUME UNCHANGED inFlight, m.kind # "status" PROVE FlagsOK' /\ Awaited'
    <2>1. FlagsOK'
      BY <1>3, <1>5, Zenon DEF TypeInv, FlagsOK
    <2> QED BY <1>1, <1>5, <2>1 DEF TypeInv, Awaited
  <1>6. CASE ToggleReturns(m)
    <2>1. FlagsOK' /\ Awaited'
      BY <1>5, <1>6 DEF ToggleReturns
    <2>2. RelaysOK'
      <3>1. m.body.channel \in Channels /\ m.body.state \in BOOLEAN
        BY <1>2, <1>6 DEF CallOK, ToggleReturns
      <3> QED BY <1>3, <1>6, <3>1 DEF ToggleReturns, TypeInv, RelaysOK
    <2>3. ConfigsOK'
      BY <1>3, <1>6 DEF ToggleReturns, TypeInv, ConfigsOK
    <2> QED BY <1>2, <2>1, <2>2, <2>3 DEF TypeInv
  <1>7. CASE InfoReturns(m)
    <2>1. FlagsOK' /\ Awaited'
      BY <1>5, <1>7 DEF InfoReturns
    <2>2. RelaysOK'
      BY <1>3, <1>7 DEF InfoReturns, TypeInv, RelaysOK
    <2>3. ConfigsOK'
      BY <1>2, <1>3, <1>7 DEF InfoReturns, CallOK, TypeInv, ConfigsOK
    <2> QED BY <1>2, <2>1, <2>2, <2>3 DEF TypeInv
  <1> QED BY <1>1, <1>4, <1>6, <1>7

\* A call or its reply is lost.
LEMMA LoseType ==
    ASSUME TypeInv, NEW n \in Numbers, Lose(n) PROVE TypeInv'
  <1>1. PICK m \in calls : /\ calls' = (calls \ {m}) \cup Ended({m}, "failed", None)
                           /\ Event /\ UNCHANGED <<page, device, fresh, overlap>>
    BY DEF Lose
  <1>2. {m} \in SUBSET calls /\ "failed" \in {"done", "failed"} /\ ~("failed" = "done")
    OBVIOUS
  <1>3. UNCHANGED <<box, inFlight, configESP, relay, config, fresh, overlap>>
    BY <1>1 DEF page, device
  <1>4. CallsOK' /\ Awaited'
    BY <1>1, <1>2, <1>3, EndType DEF TypeInv
  <1>5. events' \in 0 .. MaxEvents
    BY <1>1, EventNumber DEF TypeInv
  <1>6. FlagsOK'
    BY <1>3, Zenon DEF TypeInv, FlagsOK
  <1>7. RelaysOK' /\ ConfigsOK'
    BY <1>3, <1>5 DEF TypeInv, RelaysOK, ConfigsOK
  <1> QED BY <1>4, <1>6, <1>7 DEF TypeInv

LEMMA TypeNext == TypeInv /\ [Next]_vars => TypeInv'
  <1> SUFFICES ASSUME TypeInv, [Next]_vars PROVE TypeInv'
    OBVIOUS
  <1>1. CASE OtherSaves
    <2>1. events' \in 0 .. MaxEvents
      BY <1>1, EventNumber DEF OtherSaves, TypeInv
    <2>2. CallsOK' /\ Awaited'
      BY <1>1 DEF OtherSaves, page, TypeInv, CallsOK, Awaited
    <2>3. FlagsOK'
      BY <1>1, Zenon DEF OtherSaves, page, TypeInv, FlagsOK
    <2>4. RelaysOK' /\ ConfigsOK'
      BY <1>1, <2>1 DEF OtherSaves, page, TypeInv, RelaysOK, ConfigsOK, Configs
    <2> QED BY <2>2, <2>3, <2>4 DEF TypeInv
  <1>2. ASSUME NEW c \in Channels, Switched(c) PROVE TypeInv'
    <2>1. events' \in 0 .. MaxEvents
      BY <1>2, EventNumber DEF Switched, TypeInv
    <2>2. CallsOK' /\ Awaited'
      BY <1>2 DEF Switched, page, TypeInv, CallsOK, Awaited
    <2>3. FlagsOK'
      BY <1>2, Zenon DEF Switched, page, TypeInv, FlagsOK
    <2>4. RelaysOK' /\ ConfigsOK'
      BY <1>2, <2>1 DEF Switched, SetRelay, page, TypeInv, RelaysOK, ConfigsOK
    <2> QED BY <2>2, <2>3, <2>4 DEF TypeInv
  <1>3. CASE UNCHANGED vars
    <2>1. CallsOK' /\ Awaited' /\ RelaysOK' /\ ConfigsOK'
      BY <1>3 DEF vars, page, device, TypeInv, CallsOK, Awaited, RelaysOK, ConfigsOK
    <2>2. FlagsOK'
      BY <1>3, Zenon DEF vars, page, TypeInv, FlagsOK
    <2> QED BY <2>1, <2>2 DEF TypeInv
  <1>4. ASSUME NEW n \in Numbers, Handle(n) \/ Return(n) \/ Lose(n) PROVE TypeInv'
    BY <1>4, HandleType, ReturnType, LoseType
  <1> QED BY <1>1, <1>2, <1>3, <1>4, LoadType, RequestType DEF Next

\* Every variable keeps its type, and a page that has inFlight set always has its
\* status call or the reply under way, whatever is lost, restarted or reloaded:
\* the poll is never blocked for good (startStatusPing).
THEOREM TypeCorrect == Spec => []TypeOK
  <1>1. TypeInv /\ PollInv => TypeOK
    <2> SUFFICES ASSUME TypeInv, PollInv PROVE TypeOK
      OBVIOUS
    <2>1. /\ version \in Nat /\ applied \in Nat /\ applied <= version
      BY DEF PollInv
    <2>2. inFlight => Polls # {}
      BY DEF TypeInv, Awaited, Polls
    <2>3. \A m \in calls :
            /\ m.n \in Numbers /\ m.waiting \in BOOLEAN
            /\ m.kind \in {"status", "relais", "info", "save", "restart"}
            /\ m.at \in {"sent", "done", "failed"} /\ (~m.waiting => m.at = "sent")
      BY DEF TypeInv, CallsOK, CallOK, Kinds
    <2> QED BY <2>1, <2>2, <2>3, Zenon
        DEF TypeOK, TypeInv, FlagsOK, RelaysOK, ConfigsOK, Configs
  <1>2. PollInv /\ [Next]_vars => PollInv'
    BY PollNext
  <1> QED BY PollInit, TypeInit, TypeNext, <1>1, <1>2, PTL DEF Spec
=============================================================================
