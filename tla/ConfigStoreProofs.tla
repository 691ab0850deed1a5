------------------------- MODULE ConfigStoreProofs -------------------------
(***************************************************************************)
(* Proofs about ConfigStore for every set of configurations.               *)
(***************************************************************************)
EXTENDS ConfigStore, TLAPS

\* What is known in the middle of each operation: nothing is promised while a
\* file is open, its content is the operation's, and a save that is not
\* answered yet has its content in flash and, after saveConfig(), in RAM.
Midway ==
    /\ boot # "running" => web = "idle"
    /\ boot = "reset" => resetPin
    /\ boot \in {"copy", "reset"} \/ web = "resetwrite" => fd = Default
    /\ web = "write" => fd = body
    /\ web \in {"save", "write", "set", "saved"} => body \in Configs
    /\ web \in {"set", "saved"} => file = body \/ failed
    /\ web = "saved" => ram = body
    /\ web \in {"write", "set", "saved"} => promised = Nothing
    /\ fd # Nothing => promised = Nothing

\* From where setup() has read the file, the document is the promised one; so
\* it is until a call or the reset pin replaces the file.
InRam ==
    /\ boot = "pin" /\ promised \in Contents => Keeps(ram)
    /\ boot = "running" /\ promised \in Contents
          /\ (resetPin => promised # Default)
          /\ web \in {"idle", "save", "reset", "resetting"} => Keeps(ram)

\* After a write that succeeded the file is not empty, and neither is what
\* setup() has read from it.
Configured ==
    /\ ~failed /\ fd = Nothing => file # Empty
    /\ ~failed /\ boot \in {"load", "pin", "running"} /\ fd = Nothing
          => file # Missing
    /\ ~failed /\ boot = "pin" => ram # Empty
    /\ ~failed /\ boot = "running" /\ ~resetPin
          /\ web \in {"idle", "save", "reset", "resetting"} => ram # Empty

Inv == TypeOK /\ Midway /\ SavedSurvives /\ InRam /\ Configured

LEMMA InitInv == Init => Inv
  <1> SUFFICES ASSUME Init PROVE Inv
    OBVIOUS
  <1> USE ConfigAssumption DEF ConfigAssumption, Init, Contents, Missing,
          Empty, Nothing
  <1>1. resetPin \in BOOLEAN /\ failed \in BOOLEAN
    BY Zenon
  <1>2. TypeOK
    BY <1>1 DEF TypeOK
  <1>3. Midway /\ SavedSurvives /\ InRam /\ Configured
    BY DEF Midway, SavedSurvives, InRam, Configured
  <1> QED BY <1>2, <1>3 DEF Inv

LEMMA NextInv ==
    ASSUME Inv, [Next]_vars
    PROVE  Inv'
  <1> USE ConfigAssumption DEF ConfigAssumption, Inv, TypeOK, Midway,
          SavedSurvives, InRam, Configured, Keeps, Contents, Missing, Empty, Nothing
  <1> USE DEF flash, Open, CloseFile, WebStep, Off
  <1>1. ASSUME NEW pin \in BOOLEAN, Power(pin) PROVE Inv'
    BY <1>1 DEF Power
  <1>2. CASE loadConfig
    BY <1>2 DEF loadConfig
  <1>3. CASE CopyDone
    BY <1>3 DEF CopyDone
  <1>4. CASE Deserialize
    BY <1>4 DEF Deserialize
  <1>5. CASE CheckPin
    BY <1>5 DEF CheckPin
  <1>6. CASE PinResetDone
    BY <1>6 DEF PinResetDone
  <1>7. ASSUME NEW c \in Configs, Call("save", c) PROVE Inv'
    BY <1>7 DEF Call
  <1>8. CASE Call("reset", Nothing)
    BY <1>8 DEF Call
  <1>9. CASE Call("restart", Nothing)
    BY <1>9 DEF Call
  <1>10. CASE SaveFile
    BY <1>10 DEF SaveFile
  <1>11. CASE CloseSaved
    BY <1>11 DEF CloseSaved
  <1>12. CASE saveConfig
    BY <1>12 DEF saveConfig
  <1>13. CASE SaveOK
    BY <1>13 DEF SaveOK
  <1>14. CASE ResetOK
    BY <1>14 DEF ResetOK
  <1>15. CASE Reset
    BY <1>15 DEF Reset
  <1>16. CASE ResetWritten
    BY <1>16 DEF ResetWritten
  <1>17. CASE Restart
    BY <1>17 DEF Restart
  <1>18. CASE Cut
    BY <1>18 DEF Cut
  <1>19. CASE UNCHANGED vars
    BY <1>19 DEF vars
  <1> QED
    BY <1>1, <1>2, <1>3, <1>4, <1>5, <1>6, <1>7, <1>8, <1>9, <1>10, <1>11,
       <1>12, <1>13, <1>14, <1>15, <1>16, <1>17, <1>18, <1>19
    DEF Next

\* A configuration whose save was answered, and a reset that was completed, is
\* what /config.json holds until the next change begins, whatever restarts and
\* losses of power happen, unless the write itself failed.
THEOREM SavedConfigSurvives == Spec => []SavedSurvives
  <1>1. Inv /\ [Next]_vars => Inv'
    BY NextInv
  <1>2. Inv => SavedSurvives
    BY DEF Inv
  <1> QED BY InitInv, <1>1, <1>2, PTL DEF Spec

\* The document in RAM is the promised one whenever no call is under way, except
\* in a boot whose reset pin has just rewritten the file.
THEOREM RunsWithSaved == Spec => []RunsWithPromised
  <1>1. Inv /\ [Next]_vars => Inv'
    BY NextInv
  <1>2. Inv => RunsWithPromised
    BY DEF Inv, InRam, RunsWithPromised
  <1> QED BY InitInv, <1>1, <1>2, PTL DEF Spec

\* Every variable keeps its type, and a file is open exactly in the steps
\* between an open() and its close().
THEOREM TypeCorrect == Spec => []TypeOK
  <1>1. Inv /\ [Next]_vars => Inv'
    BY NextInv
  <1>2. Inv => TypeOK
    BY DEF Inv
  <1> QED BY InitInv, <1>1, <1>2, PTL DEF Spec

\* A device that runs with an empty document has lost power in the middle of a
\* write, had a write fail, could not read its factory file, or was started with
\* the reset pin held.
THEOREM RunsConfigured == Spec => []BootHasConfig
  <1>1. Inv /\ [Next]_vars => Inv'
    BY NextInv
  <1>2. Inv => BootHasConfig
    BY DEF Inv, Configured, BootHasConfig
  <1> QED BY InitInv, <1>1, <1>2, PTL DEF Spec
=============================================================================
