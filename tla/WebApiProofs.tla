---------------------------- MODULE WebApiProofs ----------------------------
(***************************************************************************)
(* Proofs about WebApi for every set of logins.                            *)
(***************************************************************************)
EXTENDS WebApi, TLAPS

\* A request that is still being checked has no reply and no effect.
Pending ==
    step \in {"auth", "check", "call"} =>
        request # NoRequest /\ replies = 0 /\ reply = "none" /\ device = before

\* Work that is done after the reply belongs to a request answered with OK.
Late == step \in {"reset", "flash"} => replies = 1 /\ reply = "ok"

\* A request that has passed needAuth() came with the login the device asks
\* for, and no step before its effects changes that login.
LoggedIn ==
    step \in {"check", "call", "reset", "flash"} =>
        config.admin \in {Public, request.login}

Inv == Pending /\ Late /\ LoggedIn /\ Answered /\ RefusedChangesNothing

LEMMA InitInv == Init => Inv
  BY DEF Init, Inv, Pending, Late, LoggedIn, Answered, RefusedChangesNothing, Factory

LEMMA NextInv ==
    ASSUME Inv, [Next]_vars
    PROVE  Inv'
  <1> USE LoginAssumption DEF LoginAssumption, Inv, Pending, Late, LoggedIn,
          Answered, RefusedChangesNothing
  <1> USE DEF device, ota, answer, Send, Dispatch
  <1>1. ASSUME NEW r \in Requests, Receive(r) PROVE Inv'
    BY <1>1 DEF Receive
  <1>2. CASE needAuth
    BY <1>2 DEF needAuth
  <1>3. CASE checkRequest
    BY <1>3 DEF checkRequest
  <1>4. CASE Relais
    BY <1>4 DEF Relais
  <1>5. CASE Read
    BY <1>5 DEF Read
  <1>6. CASE Save
    BY <1>6 DEF Save, saveFile
  <1>7. CASE Restart
    BY <1>7 DEF Restart
  <1>8. CASE Reset
    BY <1>8 DEF Reset
  <1>9. CASE Update
    <2>1. CASE Dispatch({"update"}, "flash") /\ Send("ok") /\ UNCHANGED device
      BY <2>1
    <2>2. CASE Dispatch({"update"}, "idle") /\ Send("error") /\ UNCHANGED device
      BY <2>2
    <2> QED BY <1>9, <2>1, <2>2, Zenon DEF Update
  <1>10. CASE NotImplemented
    BY <1>10 DEF NotImplemented
  <1>11. CASE ResetFile
    BY <1>11 DEF ResetFile, saveFile
  <1>12. CASE Flash
    BY <1>12 DEF Flash
  <1>13. CASE Reboot
    BY <1>13 DEF Reboot, OtaSetup, CheckPin
  <1>14. ASSUME NEW l \in Logins \cup {Public}, LoopOta(l) PROVE Inv'
    BY <1>14 DEF LoopOta
  <1>15. CASE WanChanges
    BY <1>15 DEF WanChanges
  <1>16. CASE UNCHANGED vars
    BY <1>16 DEF vars
  <1> QED
    BY <1>1, <1>2, <1>3, <1>4, <1>5, <1>6, <1>7, <1>8, <1>9, <1>10, <1>11,
       <1>12, <1>13, <1>14, <1>15, <1>16
    DEF Next, Handling, handleAPICall

-----------------------------------------------------------------------------
(* Types                                                                   *)

\* The factory file and an empty file load as configurations.
LEMMA FactoryConfig == Factory \in Configs /\ Blank \in Configs
  BY DEF Factory, Blank, Configs

LEMMA TypeInit == Init => TypeOK
  <1> SUFFICES ASSUME Init PROVE TypeOK
    OBVIOUS
  <1>1. otaEnabled \in BOOLEAN /\ relay \in BOOLEAN /\ wan \in BOOLEAN
    BY Zenon DEF Init, Factory
  <1>2. otaLogin \in Logins \cup {Public}
    BY DEF Init, Factory
  <1>3. before \in Configs \X Configs \X BOOLEAN
    BY FactoryConfig DEF Init
  <1> QED BY <1>1, <1>2, <1>3, FactoryConfig DEF Init, TypeOK

LEMMA TypeNext ==
    ASSUME TypeOK, Inv, [Next]_vars
    PROVE  TypeOK'
  <1> USE DEF TypeOK, device, ota, answer
  <1>1. ASSUME NEW r \in Requests, Receive(r) PROVE TypeOK'
    BY <1>1 DEF Receive
  <1>2. CASE needAuth
    BY <1>2 DEF needAuth, Send, Inv, Pending
  <1>3. CASE checkRequest
    BY <1>3 DEF checkRequest, Send, Inv, Pending
  <1>4. ASSUME NEW types, NEW next, Dispatch(types, next)
        PROVE  /\ replies = 0 /\ request \in Requests /\ step' = next
               /\ UNCHANGED <<ota, wan, request, before>>
    BY <1>4 DEF Dispatch, Inv, Pending
  <1>5. CASE Relais
    BY <1>4, <1>5 DEF Relais, Send
  <1>6. CASE Read
    BY <1>4, <1>6 DEF Read, Send
  <1>7. CASE Save
    <2>1. request \in Requests
      BY <1>4, <1>7 DEF Save
    <2>2. request.config \in Configs
      BY <2>1 DEF Requests
    <2>3. /\ replies = 0 /\ step' = "idle" /\ UNCHANGED <<ota, wan, request, before>>
      BY <1>4, <1>7 DEF Save
    <2>4. CASE request.good
      BY <1>7, <2>2, <2>3, <2>4, FactoryConfig DEF Save, Send, saveFile
    <2>5. CASE ~request.good
      BY <1>7, <2>3, <2>5 DEF Save, Send
    <2> QED BY <2>4, <2>5
  <1>8. CASE Restart
    BY <1>4, <1>8 DEF Restart, Send
  <1>9. CASE Reset
    BY <1>4, <1>9 DEF Reset, Send
  <1>10. CASE Update
    <2>1. CASE Dispatch({"update"}, "flash") /\ Send("ok") /\ UNCHANGED device
      BY <1>4, <2>1 DEF Send
    <2>2. CASE Dispatch({"update"}, "idle") /\ Send("error") /\ UNCHANGED device
      BY <1>4, <2>2 DEF Send
    <2> QED BY <1>10, <2>1, <2>2, Zenon DEF Update
  <1>11. CASE NotImplemented
    BY <1>4, <1>11 DEF NotImplemented, Send
  <1>12. CASE ResetFile
    BY <1>12, FactoryConfig DEF ResetFile, saveFile
  <1>13. CASE Flash
    BY <1>13 DEF Flash
  <1>14. CASE Reboot
    <2>1. stored.ota \in BOOLEAN /\ stored.admin \in Logins \cup {Public}
      BY DEF Configs
    <2>2. relay' \in BOOLEAN /\ otaEnabled' \in BOOLEAN
      BY <1>14, <2>1, Zenon DEF Reboot, OtaSetup
    <2>3. otaLogin' \in Logins \cup {Public}
      BY <1>14, <2>1 DEF Reboot, OtaSetup
    <2>4. stored' \in Configs /\ config' \in Configs
      BY <1>14, FactoryConfig DEF Reboot, CheckPin, saveFile
    <2>5. before' \in Configs \X Configs \X BOOLEAN
      BY <1>14, <2>2, <2>4 DEF Reboot
    <2> QED BY <1>14, <2>2, <2>3, <2>4, <2>5 DEF Reboot
  <1>15. ASSUME NEW l \in Logins \cup {Public}, LoopOta(l) PROVE TypeOK'
    BY <1>15 DEF LoopOta
  <1>16. CASE WanChanges
    <2>1. wan' \in BOOLEAN
      BY <1>16, Zenon DEF WanChanges
    <2> QED BY <1>16, <2>1 DEF WanChanges
  <1>17. CASE UNCHANGED vars
    BY <1>17 DEF vars
  <1> QED
    BY <1>1, <1>2, <1>3, <1>5, <1>6, <1>7, <1>8, <1>9, <1>10, <1>11, <1>12,
       <1>13, <1>14, <1>15, <1>16, <1>17
    DEF Next, Handling, handleAPICall

\* Every variable keeps its type, and no request is answered twice.
THEOREM TypeCorrect == Spec => []TypeOK
  <1>1. Inv /\ [Next]_vars => Inv'
    BY NextInv
  <1>2. TypeOK /\ Inv /\ [Next]_vars => TypeOK'
    BY TypeNext
  <1> QED BY InitInv, TypeInit, <1>1, <1>2, PTL DEF Spec

-----------------------------------------------------------------------------
(* Requests and replies                                                    *)

\* A request that has been dealt with has been answered exactly once, unless it
\* is a "relais" call without its fields.
THEOREM EveryCallAnswered == Spec => []Answered
  <1>1. Inv /\ [Next]_vars => Inv'
    BY NextInv
  <1>2. Inv => Answered
    BY DEF Inv
  <1> QED BY InitInv, <1>1, <1>2, PTL DEF Spec

\* A refused request leaves relays and configuration as they were.
THEOREM RefusalIsSafe == Spec => []RefusedChangesNothing
  <1>1. Inv /\ [Next]_vars => Inv'
    BY NextInv
  <1>2. Inv => RefusedChangesNothing
    BY DEF Inv
  <1> QED BY InitInv, <1>1, <1>2, PTL DEF Spec

\* No step that leads to a change skips the login, and no step between the
\* check and the change replaces it.
LEMMA ChangesNeedLogin ==
    ASSUME Inv, [Next]_vars, step # "restart", device' # device
    PROVE  config.admin \in {Public, request.login}
  <1> USE DEF Inv, LoggedIn
  <1>1. ASSUME NEW r \in Requests, Receive(r) PROVE FALSE
    BY <1>1 DEF Receive
  <1>2. CASE needAuth \/ checkRequest \/ Flash \/ WanChanges
    BY <1>2 DEF needAuth, checkRequest, Flash, WanChanges
  <1>3. CASE handleAPICall
    BY <1>3 DEF handleAPICall, Relais, Read, Save, Restart, Reset, Update,
                NotImplemented, Dispatch
  <1>4. CASE ResetFile
    BY <1>4 DEF ResetFile
  <1>5. CASE Reboot
    BY <1>5 DEF Reboot
  <1>6. ASSUME NEW l \in Logins \cup {Public}, LoopOta(l) PROVE FALSE
    BY <1>6 DEF LoopOta
  <1>7. CASE UNCHANGED vars
    BY <1>7 DEF vars
  <1> QED BY <1>1, <1>2, <1>3, <1>4, <1>5, <1>6, <1>7 DEF Next, Handling

\* Relays and configuration are changed by no request without the login of the
\* configuration the device runs with, whatever writes failed before.
THEOREM ChangesAskTheLogin == Spec => OnlyWithLogin
  <1>1. Inv /\ [Next]_vars => Inv'
    BY NextInv
  <1>2. Inv /\ [Next]_vars =>
            [step # "restart" /\ device' # device
                => config.admin \in {Public, request.login}]_vars
    BY ChangesNeedLogin
  <1> QED BY InitInv, <1>1, <1>2, PTL DEF Spec, OnlyWithLogin
=============================================================================
