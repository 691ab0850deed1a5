------------------------------- MODULE WebApi -------------------------------
(***************************************************************************)
(* The HTTP API (WebHandler) with the login it asks for, its replies, the  *)
(* calls that end in a restart, and the two ways to a new firmware         *)
(* (OTAHandler): the "update" call, and the uploads and pulls that loop()  *)
(* serves and that may restart the device in the middle of a call.         *)
(*                                                                         *)
(* The web task handles one request after the other.  What a call writes   *)
(* is one step here; RelayControl and ConfigStore take these writes apart. *)
(* The update server, the pull library and ArduinoOTA are external.        *)
(***************************************************************************)

EXTENDS Naturals

CONSTANTS
    Logins,    \* user and password pairs, no two with the same password
    Public,    \* admin.state is false: no login is asked for
    NoRequest  \* there has been none since the last boot

Configs == [admin : Logins \cup {Public}, ota : BOOLEAN]
Factory == [admin |-> Public, ota |-> TRUE]
Blank == [admin |-> Public, ota |-> FALSE]    \* what an empty file loads as

\* "other" is any type the API does not know, "none" a body without a type.
Types == {"relais", "status", "info", "save", "restart", "update", "reset",
          "other", "none"}

\* good: the fields the type needs are there.  Without login: Public.
Requests == [type : Types, login : Logins \cup {Public}, good : BOOLEAN,
             config : Configs]

ASSUME LoginAssumption == Public \notin Logins /\ NoRequest \notin Requests

VARIABLES
    config, stored,       \* the configuration in RAM, and in flash
    relay,                \* the last state a call passed to setRelais()
    otaEnabled, otaLogin, \* what ArduinoOTA was set up with
    wan,                  \* external: WiFi.status() == WL_CONNECTED
    request, step,        \* the last request, and where its handling is
    replies, reply,       \* number of replies sent to it, and the last one
    before                \* history: <<config, stored, relay>> at its arrival

device == <<config, stored, relay>>
ota == <<otaEnabled, otaLogin>>
answer == <<replies, reply>>
vars == <<device, ota, wan, request, step, answer, before>>

-----------------------------------------------------------------------------
(* Replies and checks                                                      *)

Send(r) == replies' = replies + 1 /\ reply' = r

Receive(r) ==
    /\ step = "idle" /\ step' = "auth"
    /\ request' = r /\ replies' = 0 /\ reply' = "none"
    /\ before' = device
    /\ UNCHANGED <<device, ota, wan>>

needAuthGoesOn ==
    /\ step = "auth" /\ step' = "check"
    /\ IF config.admin \in {Public, request.login} THEN UNCHANGED answer ELSE Send("login")
    /\ UNCHANGED <<device, ota, wan, request, before>>

needAuthStored ==
    /\ step = "auth"
    /\ IF stored.admin \in {Public, request.login}
       THEN step' = "check" /\ UNCHANGED answer
       ELSE step' = "idle" /\ Send("login")
    /\ UNCHANGED <<device, ota, wan, request, before>>

\* needAuth(): the login of the configuration in RAM, now.
needAuth ==
    /\ step = "auth"
    /\ IF config.admin \in {Public, request.login}
       THEN step' = "check" /\ UNCHANGED answer
       ELSE step' = "idle" /\ Send("login")
    /\ UNCHANGED <<device, ota, wan, request, before>>

checkRequest ==
    /\ step = "check"
    /\ IF request.type = "none"
       THEN step' = "idle" /\ Send("error")
       ELSE step' = "call" /\ UNCHANGED answer
    /\ UNCHANGED <<device, ota, wan, request, before>>

-----------------------------------------------------------------------------
(* handleAPICall()                                                         *)

Dispatch(types, next) ==
    /\ step = "call" /\ request.type \in types /\ step' = next
    /\ UNCHANGED <<ota, wan, request, before>>

RelaisUnchecked ==
    /\ Dispatch({"relais"}, "idle") /\ relay' \in BOOLEAN
    /\ IF request.good THEN Send("ok") ELSE UNCHANGED answer
    /\ UNCHANGED <<config, stored>>

\* A call without its fields is dropped: it has no else branch.
Relais ==
    /\ Dispatch({"relais"}, "idle")
    /\ IF request.good
       THEN relay' \in BOOLEAN /\ Send("ok")
       ELSE UNCHANGED <<relay, answer>>
    /\ UNCHANGED <<config, stored>>

Read ==
    /\ Dispatch({"status", "info"}, "idle") /\ Send("ok")
    /\ UNCHANGED device

\* saveFile() does not tell whether open() and println() succeeded: the file
\* has the new content, is as it was, or is left empty.
saveFile(c) == stored' \in {c, stored, Blank}

SaveSilent ==
    /\ Dispatch({"save"}, "idle")
    /\ IF request.good
       THEN saveFile(request.config) /\ config' = request.config /\ Send("ok")
       ELSE UNCHANGED <<config, stored, answer>>
    /\ UNCHANGED relay

\* The document in RAM is replaced, and OK sent, also when the write failed.
Save ==
    /\ Dispatch({"save"}, "idle")
    /\ IF request.good
       THEN saveFile(request.config) /\ config' = request.config /\ Send("ok")
       ELSE Send("invalid") /\ UNCHANGED <<config, stored>>
    /\ UNCHANGED relay

\* Answered first; the restart follows.
Restart ==
    /\ Dispatch({"restart"}, "restart") /\ Send("ok")
    /\ UNCHANGED device

\* Answered first; reset() and the restart follow.
Reset ==
    /\ Dispatch({"reset"}, "reset") /\ Send("ok")
    /\ UNCHANGED device

\* FileHandler::reset(): the factory file is copied to flash.  A factory file
\* that cannot be read is copied as an empty one.
ResetFile ==
    /\ step = "reset" /\ step' = "restart"
    /\ saveFile(Factory)
    /\ UNCHANGED <<config, relay, ota, wan, request, answer, before>>

\* hasUpdate(): the server may have a newer version, if it can be asked.
hasUpdate == IF wan THEN BOOLEAN ELSE {FALSE}

Update ==
    /\ \/ TRUE \in hasUpdate /\ Dispatch({"update"}, "flash") /\ Send("ok")
       \/ FALSE \in hasUpdate /\ Dispatch({"update"}, "idle") /\ Send("error")
    /\ UNCHANGED device

FlashMustSucceed ==
    /\ step = "flash" /\ wan /\ step' = "restart"
    /\ UNCHANGED <<device, ota, wan, request, answer, before>>

\* OTAHandler::update(): the new firmware is started, or nothing happens.
Flash ==
    /\ step = "flash"
    /\ \/ wan /\ step' = "restart"
       \/ step' = "idle"
    /\ UNCHANGED <<device, ota, wan, request, answer, before>>

NotImplemented ==
    /\ Dispatch({"other"}, "idle") /\ Send("error")
    /\ UNCHANGED device

-----------------------------------------------------------------------------
(* OTAHandler and the boot                                                 *)

\* OTAHandler::setup(): the login whose password, without the user's name,
\* ArduinoOTA asks for until the next boot.
OtaSetup(c) ==
    /\ otaEnabled' = c.ota
    /\ otaLogin' = IF c.ota THEN c.admin ELSE Public

\* OTAHandler::loop() installs a firmware it was sent or has pulled, and
\* restarts the device, whatever the web task is doing.
LoopOta(login) ==
    /\ \/ otaEnabled /\ otaLogin \in {Public, login}
       \/ wan
    /\ step' = "restart"
    /\ UNCHANGED <<device, ota, wan, request, answer, before>>

\* DeviceHandler::setup(): with the reset pin held the file is rewritten, after
\* it was loaded.
CheckPin == saveFile(Factory) \/ UNCHANGED stored

\* The restart, up to the end of setup(), which goes on with what it loaded.
Reboot ==
    /\ step = "restart" /\ step' = "idle"
    /\ config' = stored /\ relay' = FALSE /\ OtaSetup(stored)
    /\ CheckPin
    /\ request' = NoRequest /\ replies' = 0 /\ reply' = "none"
    /\ before' = device'
    /\ UNCHANGED wan

WanChanges ==
    /\ wan' = ~wan
    /\ UNCHANGED <<device, ota, request, step, answer, before>>

Init ==
    /\ config = Factory /\ stored = Factory /\ relay = FALSE
    /\ otaEnabled = Factory.ota /\ otaLogin = Factory.admin
    /\ wan = FALSE
    /\ request = NoRequest /\ step = "idle" /\ replies = 0 /\ reply = "none"
    /\ before = <<Factory, Factory, FALSE>>

handleAPICall ==
    \/ Relais \/ Read \/ Save \/ Restart \/ Reset \/ Update \/ NotImplemented

Handling ==
    needAuth \/ checkRequest \/ handleAPICall \/ ResetFile \/ Flash \/ Reboot

\* Only a save has a configuration, and only relais and save have fields.
WellFormed(r) ==
    /\ r.type # "save" => r.config = Factory
    /\ r.type \notin {"save", "relais"} => r.good

Next ==
    \/ \E r \in {q \in Requests : WellFormed(q)} : Receive(r)
    \/ Handling
    \/ \E l \in Logins \cup {Public} : LoopOta(l)
    \/ WanChanges

\* The web task runs, and a restart is carried out.
Fairness == WF_vars(Handling)

Spec == Init /\ [][Next]_vars /\ Fairness

-----------------------------------------------------------------------------
(* Properties                                                              *)

\* Every variable keeps its type, and at most one reply is sent to a request.
TypeOK ==
    /\ config \in Configs /\ stored \in Configs /\ relay \in BOOLEAN
    /\ otaEnabled \in BOOLEAN /\ otaLogin \in Logins \cup {Public}
    /\ wan \in BOOLEAN
    /\ request \in Requests \cup {NoRequest}
    /\ step \in {"idle", "auth", "check", "call", "reset", "flash", "restart"}
    /\ replies \in {0, 1}
    /\ reply \in {"none", "ok", "invalid", "error", "login"}
    /\ before \in Configs \X Configs \X BOOLEAN

\* A request whose handling is over and was not cut short by a restart has
\* been answered, except a "relais" call without its fields, which
\* handleAPICall() drops.
Answered ==
    step = "idle" /\ request # NoRequest
        => replies = 1 \/ (request.type = "relais" /\ ~request.good)

\* A request that was not answered with OK changed neither a relay nor the
\* configuration, in RAM or in flash.
RefusedChangesNothing ==
    step = "idle" /\ request # NoRequest /\ reply # "ok" => device = before

\* Whatever a request changes, also after its answer as a reset does, and also
\* when RAM and flash differ because a write failed or the reset pin was held,
\* it changes only with the login of the configuration the device runs with
\* (needAuth, saveFile, FileHandler::reset).
OnlyWithLogin ==
    [][step # "restart" /\ device' # device
          => config.admin \in {Public, request.login}]_vars

\* Every request is dealt with, or ends in a restart that is completed.
Served == [](step # "idle" => <>(step = "idle"))
=============================================================================
