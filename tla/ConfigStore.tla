---------------------------- MODULE ConfigStore ----------------------------
(***************************************************************************)
(* The configuration: /config.json and its factory copy in flash, the      *)
(* document in RAM (FileHandler), the boot sequence that loads it          *)
(* (main.cpp, DeviceHandler::setup) and the API calls that change it       *)
(* (WebHandler: "save", "reset", "restart"), with a loss of power possible *)
(* between any two of their steps.                                         *)
(*                                                                         *)
(* LittleFS is external.  A file opened for writing holds, until it is     *)
(* closed, either its old content or nothing, depending on whether the     *)
(* file system has committed the truncation; closing commits the new       *)
(* content.  If open() or the write fails, the file stays as it is or is   *)
(* left empty, and saveFile() does not tell.  A factory copy that cannot   *)
(* be read is copied as an empty file: readFile() returns "", which        *)
(* copyFile() writes like any other content, and the model counts this as  *)
(* a failed write.                                                         *)
(* Nothing is bounded: calls, failed writes and losses of power may happen *)
(* any number of times.                                                    *)
(***************************************************************************)
CONSTANTS
    Configs,     \* configurations a client may save
    Default      \* the content of /config.json.bak

Missing == "missing"
Empty == "empty"      \* also what deserializeJson() makes of an empty file
Nothing == "nothing"

ASSUME ConfigAssumption ==
    /\ {Missing, Empty, Nothing} \cap (Configs \cup {Default}) = {}
    /\ Default \notin Configs

VARIABLES
    file,       \* durable content of /config.json
    fd,         \* content the open file will have when it is closed
    ram,        \* FileHandler::config
    boot,       \* where setup() is: "off", "begin", "copy", "load", "pin",
                \* "reset", "running"
    resetPin,   \* the reset pin is held at this boot
    web,        \* where the API call in progress is
    body,       \* its "config" field
    promised,   \* history: content of the last change that was completed
    failed      \* history: the last write failed, power was lost in it, or it
                \* copied a factory file that could not be read

flash == <<file, fd, failed>>
vars == <<flash, ram, boot, resetPin, web, body, promised>>

Contents == Configs \cup {Default, Empty}

-----------------------------------------------------------------------------
(* FileHandler: saveFile() in two steps                                    *)

\* LittleFS.open(str, "w")
Open(content) ==
    /\ fd' = content
    /\ file' \in {file, Empty}
    /\ promised' = Nothing
    /\ UNCHANGED failed

CloseFileLeaks == file' = fd /\ failed' = FALSE /\ UNCHANGED fd

\* println() and close(), which may have failed; for a copy, also the empty
\* content that readFile() returned for an unreadable /config.json.bak.
CloseFile ==
    /\ fd' = Nothing
    /\ \/ file' = fd /\ failed' = FALSE
       \/ file' \in {file, Empty} /\ failed' = TRUE

-----------------------------------------------------------------------------
(* setup()                                                                 *)

Power(pin) ==
    /\ boot = "off" /\ boot' = "begin" /\ resetPin' = pin
    /\ UNCHANGED <<flash, ram, web, body, promised>>

loadConfigNoCopy ==
    /\ boot = "begin" /\ boot' = "load"
    /\ UNCHANGED <<flash, promised, ram, resetPin, web, body>>

\* loadConfig(): the factory copy replaces a file that does not exist; a file
\* that exists is taken as it is.
loadConfig ==
    /\ boot = "begin"
    /\ IF file = Missing
       THEN boot' = "copy" /\ Open(Default)
       ELSE boot' = "load" /\ UNCHANGED <<flash, promised>>
    /\ UNCHANGED <<ram, resetPin, web, body>>

\* copyFile() is done; nobody looks at what it wrote.
CopyDone ==
    /\ boot = "copy" /\ boot' = "load" /\ CloseFile
    /\ UNCHANGED <<ram, resetPin, web, body, promised>>

\* deserializeJson(config, readFile(...)); a file that cannot be opened reads
\* as empty.
Deserialize ==
    /\ boot = "load" /\ boot' = "pin"
    /\ ram' = IF file = Missing THEN Empty ELSE file
    /\ UNCHANGED <<flash, resetPin, web, body, promised>>

\* DeviceHandler::setup(): reset() writes the file; ram keeps what was loaded.
CheckPin ==
    /\ boot = "pin"
    /\ IF resetPin
       THEN boot' = "reset" /\ Open(Default)
       ELSE boot' = "running" /\ UNCHANGED <<flash, promised>>
    /\ UNCHANGED <<ram, resetPin, web, body>>

PinResetDone ==
    /\ boot = "reset" /\ boot' = "running" /\ CloseFile
    /\ promised' = Default
    /\ UNCHANGED <<ram, resetPin, web, body>>

-----------------------------------------------------------------------------
(* handleAPICall()                                                         *)

Call(op, c) ==
    /\ boot = "running" /\ web = "idle"
    /\ web' = op /\ body' = c
    /\ UNCHANGED <<flash, ram, boot, resetPin, promised>>

WebStep(from, to) == boot = "running" /\ web = from /\ web' = to

SaveFileSkipped ==
    /\ WebStep("save", "set")
    /\ promised' = Nothing
    /\ UNCHANGED <<flash, ram, boot, resetPin, body>>

SaveFile ==
    /\ WebStep("save", "write") /\ Open(body)
    /\ UNCHANGED <<ram, boot, resetPin, body>>

CloseSaved ==
    /\ WebStep("write", "set") /\ CloseFile
    /\ UNCHANGED <<ram, boot, resetPin, body, promised>>

SaveConfigSkipped ==
    /\ WebStep("set", "saved")
    /\ UNCHANGED <<flash, ram, boot, resetPin, body, promised>>

\* saveConfig(): config.set(), in RAM.
saveConfig ==
    /\ WebStep("set", "saved")
    /\ ram' = body
    /\ UNCHANGED <<flash, boot, resetPin, body, promised>>

\* sendOK() for a save
SaveOK ==
    /\ WebStep("saved", "idle") /\ promised' = body /\ body' = Nothing
    /\ UNCHANGED <<flash, ram, boot, resetPin>>

\* "reset" is answered first, then reset() and, after a delay, a restart.
ResetOK ==
    /\ WebStep("reset", "resetting")
    /\ UNCHANGED <<flash, ram, boot, resetPin, body, promised>>

\* reset(): copyFile("/config.json.bak", "/config.json")
Reset ==
    /\ WebStep("resetting", "resetwrite") /\ Open(Default)
    /\ UNCHANGED <<ram, boot, resetPin, body>>

ResetWritten ==
    /\ WebStep("resetwrite", "restart") /\ CloseFile
    /\ promised' = Default
    /\ UNCHANGED <<ram, boot, resetPin, body>>

Off == /\ boot' = "off" /\ fd' = Nothing /\ ram' = Empty /\ web' = "idle"
       /\ body' = Nothing /\ failed' = (failed \/ fd # Nothing)
       /\ UNCHANGED <<file, resetPin>>

\* sendOK() and ESP.restart(), also the end of a reset
Restart ==
    /\ boot = "running" /\ web = "restart"
    /\ Off /\ UNCHANGED promised

\* The power fails.
Cut ==
    /\ boot # "off"
    /\ Off /\ UNCHANGED promised

Init ==
    /\ file = Missing /\ fd = Nothing /\ failed = FALSE
    /\ ram = Empty /\ boot = "off" /\ resetPin = FALSE
    /\ web = "idle" /\ body = Nothing
    /\ promised = Nothing

Next ==
    \/ \E pin \in BOOLEAN : Power(pin)
    \/ loadConfig \/ CopyDone \/ Deserialize \/ CheckPin \/ PinResetDone
    \/ \E c \in Configs : Call("save", c)
    \/ Call("reset", Nothing) \/ Call("restart", Nothing)
    \/ SaveFile \/ CloseSaved \/ saveConfig \/ SaveOK
    \/ ResetOK \/ Reset \/ ResetWritten \/ Restart
    \/ Cut

Spec == Init /\ [][Next]_vars

-----------------------------------------------------------------------------
(* Properties                                                              *)

\* Every variable keeps its type; a file is open exactly while setup() or an
\* API call is between its open() and its close().
TypeOK ==
    /\ file \in Contents \cup {Missing} /\ ram \in Contents
    /\ fd \in Contents \cup {Nothing}
    /\ boot \in {"off", "begin", "copy", "load", "pin", "reset", "running"}
    /\ web \in {"idle", "save", "write", "set", "saved", "reset", "resetting",
                "resetwrite", "restart"}
    /\ body \in Configs \cup {Nothing} /\ resetPin \in BOOLEAN
    /\ promised \in Contents \cup {Nothing}
    /\ failed \in BOOLEAN
    /\ fd # Nothing <=> boot \in {"copy", "reset"} \/ web \in {"write", "resetwrite"}

\* What was promised is kept, unless the last write failed.
Keeps(content) == content = promised \/ failed

\* A change that was completed and answered ("save", a reset) is what flash
\* holds, through restarts and losses of power, until another one begins
\* (saveFile, copyFile, sendOK).
SavedSurvives == promised \in Contents /\ fd = Nothing => Keeps(file)

\* The document the device runs with is the one it promised to keep, except
\* in the boot that was started with the reset pin held, which goes on with
\* what it loaded before the reset (loadConfig, DeviceHandler::setup).
RunsWithPromised ==
    boot = "running" /\ web = "idle" /\ promised \in Contents
        /\ (resetPin => promised # Default) => Keeps(ram)

\* The device runs without a configuration only after a write that failed, was
\* cut short or copied an unreadable factory file, which neither saveFile() nor
\* the next boot notices: the first boot copies the factory file, a save replaces file and document, and no
\* sequence of saves, resets, restarts and losses of power between writes
\* leaves the file empty.  A boot with the reset pin held goes on with what it
\* loaded, which may be empty (loadConfig, saveFile, DeviceHandler::setup).
BootHasConfig ==
    boot = "running" /\ web = "idle" /\ ~resetPin /\ ~failed => ram # Empty
=============================================================================
