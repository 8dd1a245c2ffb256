-------------------------------- MODULE ComM --------------------------------
(***************************************************************************)
(* The communication manager (ComM.c, ComM_ASIL.c) of one channel: it      *)
(* turns the requests of the users, of diagnostics and of network          *)
(* management into mode requests to the channel's bus state manager, and   *)
(* follows what that manager indicates.  Partial networking is off         *)
(* (COMM_PNC_SUPPORT) and mode limitation is on.                           *)
(*                                                                         *)
(* The C functions are operators on w = [ch, sm, nm]: the channel, and the *)
(* state of the bus state manager and of network management it calls,      *)
(* which this module knows only through the operators that are its         *)
(* parameters.                                                             *)
(***************************************************************************)
EXTENDS Integers

CONSTANTS
  BusType,                                  \* "CAN", "LIN", "ETH"
  MainFunctionPeriod, COMM_T_MIN_FULL_COM_MODE_DURATION, LightTimeout,
  BusSM_RequestComMode(_, _),               \* of sm and a mode: [ok, sm]
  BusSM_GetCurrentComMode(_),               \* of sm: [ok, mode]
  Nm_NetworkRequest(_), Nm_NetworkRelease(_), Nm_PassiveStartUp(_)
                                            \* of nm: [ok, nm], indications in nm.ind

ComM_Init(variant) ==
  [NmVariant |-> variant,
   Mode |-> "NO", SubMode |-> "NO_COM_NO_PENDING_REQUEST",
   UserRequestMask |-> {}, DCM_Requested |-> FALSE, CommunicationAllowed |-> FALSE,
   InhibitionStatus |-> {},                  \* "ECU" is ComM_Internal.NoCommunication
   NmIndicationMask |-> {}, EcuMWkUpIndication |-> FALSE, nwStartIndication |-> FALSE,
   requestPending |-> FALSE, lastRequestedMode |-> "NO",
   userOrPncReqMode |-> "NO", userOrPncReqPending |-> FALSE, internalRequest |-> FALSE,
   FullComMinDurationTimeLeft |-> 0, fullComMinDurationTimerStopped |-> TRUE,
   LightTimeoutTimeLeft |-> 0, nmLightTimeoutTimerStopped |-> TRUE]

LimitToNoCom(ch) == ch.InhibitionStatus \cap {"NO_COMMUNICATION", "ECU"} # {}
InhibitWakeUp(ch) == "WAKE_UP" \in ch.InhibitionStatus

\* Slip: the wake-up goes with the other internal requests
resetInternalStateRequests_Slip(ch) ==
  [ch EXCEPT !.NmIndicationMask = {}, !.internalRequest = FALSE, !.EcuMWkUpIndication = FALSE]

resetInternalStateRequests(ch) == [ch EXCEPT !.NmIndicationMask = {}, !.internalRequest = FALSE]

\* The callbacks of network management, all but for the bit they set
ComM_Nm_Indication(ch, ind) ==
  [ch EXCEPT !.NmIndicationMask = @ \cup {ind}, !.internalRequest = TRUE]

\* Nm.c passes what network management indicates in a call on to ComM
Indicated(w) ==
  IF w.nm.ind = "none" THEN w
  ELSE [w EXCEPT !.nm.ind = "none",
                 !.ch = ComM_Nm_Indication(@, IF w.nm.ind = "NETWORK_START" THEN "RESTART" ELSE w.nm.ind)]

NmCall(w, r) == [ok |-> r.ok, w |-> Indicated([w EXCEPT !.nm = r.nm])]

\* ComM_Internal_PropagateComMode, on the buses other than FlexRay
PropagateComMode(w, mode) ==
  LET r == BusSM_RequestComMode(w.sm, mode)
  IN [ok |-> r.ok, w |-> [w EXCEPT !.sm = r.sm, !.ch.requestPending = @ \/ r.ok]]

(***************************************************************************)
(* ComM_Internal_NotifyNm                                                  *)
(***************************************************************************)
NotifyNm(w, busOffRecovery) ==
  LET ch == w.ch
      requested == ch.SubMode = "FULL_COM_NETWORK_REQUESTED"
      readySleep == ch.SubMode = "FULL_COM_READY_SLEEP"
      Clear(r) == [r EXCEPT !.w.ch.EcuMWkUpIndication = FALSE, !.w.ch.nwStartIndication = FALSE]
      nothing == [ok |-> TRUE, w |-> w]
  IN CASE ch.Mode # "FULL" -> nothing
       [] ch.Mode = "FULL" /\ ch.NmVariant \in {"FULL", "PASSIVE"} ->
            CASE requested /\ (ch.UserRequestMask # {} \/ ch.DCM_Requested) ->
                   Clear(NmCall(w, IF ch.NmVariant = "FULL" THEN Nm_NetworkRequest(w.nm)
                                                            ELSE Nm_PassiveStartUp(w.nm)))
              [] requested /\ ch.UserRequestMask = {} /\ ~ch.DCM_Requested
                 /\ (ch.EcuMWkUpIndication \/ ch.nwStartIndication) ->
                   Clear(NmCall(w, Nm_PassiveStartUp(w.nm)))
              [] requested /\ ch.UserRequestMask = {} /\ ~ch.DCM_Requested
                 /\ ~ch.EcuMWkUpIndication /\ ~ch.nwStartIndication /\ busOffRecovery ->
                   NmCall(w, Nm_PassiveStartUp(w.nm))
              [] readySleep /\ ch.NmVariant = "FULL" -> NmCall(w, Nm_NetworkRelease(w.nm))
              [] OTHER -> nothing
       [] ch.Mode = "FULL" /\ ch.NmVariant \in {"LIGHT", "NONE"} ->
            CASE requested ->
                   [nothing EXCEPT
                      !.w.ch.FullComMinDurationTimeLeft = COMM_T_MIN_FULL_COM_MODE_DURATION,
                      !.w.ch.fullComMinDurationTimerStopped = FALSE]
              [] readySleep ->
                   [nothing EXCEPT !.w.ch.LightTimeoutTimeLeft = LightTimeout,
                                   !.w.ch.nmLightTimeoutTimerStopped = FALSE]
              [] OTHER -> nothing

(***************************************************************************)
(* The mode changes; isRequest tells a user's request from an internal one *)
(***************************************************************************)
Served(ch, isRequest) ==
  IF isRequest THEN [ch EXCEPT !.userOrPncReqPending = FALSE] ELSE resetInternalStateRequests(ch)

\* ComM_Internal_Enter_NoCom, ComM_Internal_Enter_SilentCom
Enter(w, mode, isRequest) ==
  LET r == PropagateComMode(w, mode)
  IN IF r.ok THEN [r.w EXCEPT !.ch = Served([@ EXCEPT !.lastRequestedMode = mode], isRequest)]
             ELSE r.w

\* Slip: a request met while communication is not allowed counts as served
Enter_NetworkRequested_Slip(w, isRequest) ==
  LET w1 == [w EXCEPT !.ch.SubMode =
               CASE @ = "NO_COM_NO_PENDING_REQUEST" -> "NO_COM_REQUEST_PENDING"
                 [] @ = "FULL_COM_READY_SLEEP" -> "FULL_COM_NETWORK_REQUESTED"
                 [] OTHER -> @]
      w2 == IF w.ch.SubMode = "FULL_COM_READY_SLEEP" THEN NotifyNm(w1, FALSE).w ELSE w1
  IN IF w.ch.CommunicationAllowed THEN Enter(w2, "FULL", isRequest)
                                  ELSE [w2 EXCEPT !.ch = Served(@, isRequest)]

Enter_NetworkRequested(w, isRequest) ==
  LET w1 == [w EXCEPT !.ch.SubMode =
               CASE @ = "NO_COM_NO_PENDING_REQUEST" -> "NO_COM_REQUEST_PENDING"
                 [] @ = "FULL_COM_READY_SLEEP" -> "FULL_COM_NETWORK_REQUESTED"
                 [] OTHER -> @]
      w2 == IF w.ch.SubMode = "FULL_COM_READY_SLEEP" THEN NotifyNm(w1, FALSE).w ELSE w1
      w3 == Enter(w2, "FULL", isRequest)
      accepted == PropagateComMode(w2, "FULL").ok
  IN IF ~w.ch.CommunicationAllowed THEN w2
     ELSE [w3 EXCEPT !.ch.nwStartIndication =
             @ \/ (accepted /\ ~isRequest /\ ~w3.ch.EcuMWkUpIndication /\ ~w3.ch.DCM_Requested)]

Enter_ReadySleep(w, isRequest) ==
  LET r == NotifyNm([w EXCEPT !.ch.Mode = "FULL", !.ch.lastRequestedMode = "FULL",
                              !.ch.SubMode = "FULL_COM_READY_SLEEP"], FALSE)
  IN IF r.ok THEN [r.w EXCEPT !.ch = Served(@, isRequest)] ELSE r.w

ChannelRequested(ch) ==
  ch.UserRequestMask # {} \/ ch.userOrPncReqMode = "FULL" \/ ch.DCM_Requested

UpdateFromNoCom(w, isRequest) ==
  LET ch == w.ch
  IN IF "BUS_SLEEP" \in ch.NmIndicationMask THEN [w EXCEPT !.ch = resetInternalStateRequests(@)]
     ELSE IF ch.EcuMWkUpIndication THEN Enter_NetworkRequested(w, isRequest)
     ELSE IF (LimitToNoCom(ch) \/ InhibitWakeUp(ch)) /\ ~ch.DCM_Requested THEN w
     ELSE IF "RESTART" \in ch.NmIndicationMask \/ ChannelRequested(ch)
       THEN Enter_NetworkRequested(w, isRequest)
     ELSE [Enter(w, "NO", isRequest) EXCEPT !.ch.SubMode = "NO_COM_NO_PENDING_REQUEST",
                                            !.ch.requestPending = FALSE]

UpdateFromSilentCom(w, isRequest) ==
  LET ch == w.ch
  IN IF "BUS_SLEEP" \in ch.NmIndicationMask THEN Enter(w, "NO", isRequest)
     ELSE IF (LimitToNoCom(ch) \/ InhibitWakeUp(ch)) /\ ~ch.DCM_Requested THEN w
     ELSE IF "NETWORK_MODE" \in ch.NmIndicationMask THEN Enter_ReadySleep(w, isRequest)
     ELSE IF ChannelRequested(ch) THEN Enter_NetworkRequested(w, isRequest)
     ELSE w

\* Slip: the users are not looked at
ChannelReleased_Slip(ch) == ~ch.DCM_Requested

ChannelReleased(ch) == (LimitToNoCom(ch) /\ ~ch.DCM_Requested) \/ ~ChannelRequested(ch)

UpdateFromFullCom(w, isRequest) ==
  LET ch == w.ch
      requested == ch.SubMode = "FULL_COM_NETWORK_REQUESTED"
      readySleep == ch.SubMode = "FULL_COM_READY_SLEEP"
      mayExit == ch.NmVariant \in {"LIGHT", "NONE"} => ch.FullComMinDurationTimeLeft = 0
  IN IF "BUS_SLEEP" \in ch.NmIndicationMask THEN Enter(w, "NO", isRequest)
     ELSE IF /\ "PREPARE_BUS_SLEEP" \in ch.NmIndicationMask
             /\ readySleep \/ (requested /\ ch.NmVariant = "PASSIVE")
       THEN Enter(w, "SILENT", isRequest)
     ELSE IF ChannelReleased(ch)
       THEN CASE mayExit /\ ~readySleep -> Enter_ReadySleep(w, isRequest)
              [] mayExit /\ readySleep /\ ch.NmVariant = "LIGHT" /\ ch.LightTimeoutTimeLeft = 0 ->
                   Enter(w, "NO", isRequest)
              [] OTHER -> w
     ELSE IF ~requested THEN Enter_NetworkRequested(w, isRequest)
     ELSE [w EXCEPT !.ch.NmIndicationMask = @ \ {"NETWORK_MODE"}, !.ch.internalRequest = FALSE]

UpdateChannelState(w, isRequest) ==
  CASE w.ch.Mode = "NO" -> UpdateFromNoCom(w, isRequest)
    [] w.ch.Mode = "SILENT" -> UpdateFromSilentCom(w, isRequest)
    [] w.ch.Mode = "FULL" -> UpdateFromFullCom(w, isRequest)

(***************************************************************************)
(* ComM_MainFunction                                                       *)
(***************************************************************************)
TickFullComMinTime(ch) ==
  IF ch.Mode # "FULL" \/ ch.fullComMinDurationTimerStopped THEN ch
  ELSE IF MainFunctionPeriod >= ch.FullComMinDurationTimeLeft
    THEN [ch EXCEPT !.FullComMinDurationTimeLeft = 0, !.fullComMinDurationTimerStopped = TRUE,
                    !.internalRequest = TRUE]
    ELSE [ch EXCEPT !.FullComMinDurationTimeLeft = @ - MainFunctionPeriod]

\* Slip: nobody looks at the channel when the time is over
TickLightTime_Slip(ch) ==
  IF ch.Mode # "FULL" \/ ch.SubMode # "FULL_COM_READY_SLEEP" \/ ch.nmLightTimeoutTimerStopped THEN ch
  ELSE IF MainFunctionPeriod >= ch.LightTimeoutTimeLeft
    THEN [ch EXCEPT !.LightTimeoutTimeLeft = 0, !.nmLightTimeoutTimerStopped = TRUE]
    ELSE [ch EXCEPT !.LightTimeoutTimeLeft = @ - MainFunctionPeriod]

TickLightTime(ch) ==
  IF ch.Mode # "FULL" \/ ch.SubMode # "FULL_COM_READY_SLEEP" \/ ch.nmLightTimeoutTimerStopped THEN ch
  ELSE IF MainFunctionPeriod >= ch.LightTimeoutTimeLeft
    THEN [ch EXCEPT !.LightTimeoutTimeLeft = 0, !.nmLightTimeoutTimerStopped = TRUE,
                    !.internalRequest = TRUE]
    ELSE [ch EXCEPT !.LightTimeoutTimeLeft = @ - MainFunctionPeriod]

ComM_MainFunction(w) ==
  LET w1 == [w EXCEPT !.ch = CASE @.NmVariant = "NONE" -> TickFullComMinTime(@)
                               [] @.NmVariant = "LIGHT" -> TickLightTime(TickFullComMinTime(@))
                               [] OTHER -> @]
      w2 == IF w1.ch.internalRequest THEN UpdateChannelState(w1, FALSE) ELSE w1
      w3 == IF w2.ch.internalRequest THEN [w2 EXCEPT !.ch = resetInternalStateRequests(@)] ELSE w2
  IN IF w2.ch.userOrPncReqPending THEN UpdateChannelState(w3, TRUE) ELSE w2

(***************************************************************************)
(* The services and callbacks                                              *)
(***************************************************************************)
\* Slip: only what was asked for is taken in, not a bus-off
ComM_BusSM_ModeIndication_Asked(w, mode) ==
  LET valid == w.ch.requestPending /\ w.ch.lastRequestedMode = mode
      w1 == [w EXCEPT !.ch.Mode = mode, !.ch.requestPending = FALSE,
                      !.ch.SubMode = CASE mode = "NO" -> "NO_COM_NO_PENDING_REQUEST"
                                       [] mode = "SILENT" -> "SILENT_COM"
                                       [] mode = "FULL" -> "FULL_COM_NETWORK_REQUESTED"]
  IN IF ~valid THEN w ELSE IF mode = "FULL" THEN NotifyNm(w1, FALSE).w ELSE w1

ComM_BusSM_ModeIndication(w, mode) ==
  LET ch == w.ch
      busOff == BusType = "CAN" /\ ~ch.requestPending /\ mode = "SILENT"
      recovery == BusType = "CAN" /\ ~ch.requestPending /\ mode = "FULL"
      valid == ch.requestPending /\ ch.lastRequestedMode = mode
      w1 == [w EXCEPT !.ch.Mode = mode, !.ch.requestPending = FALSE,
                      !.ch.SubMode = CASE mode = "NO" -> "NO_COM_NO_PENDING_REQUEST"
                                       [] mode = "SILENT" -> "SILENT_COM"
                                       [] mode = "FULL" -> "FULL_COM_NETWORK_REQUESTED"]
      w2 == IF ~(valid \/ busOff \/ recovery) THEN w
            ELSE IF mode = "FULL" THEN NotifyNm(w1, recovery).w ELSE w1
  IN IF recovery /\ w2.ch.NmIndicationMask \cap {"BUS_SLEEP", "PREPARE_BUS_SLEEP"} # {}
       THEN [w2 EXCEPT !.ch = resetInternalStateRequests(@)] ELSE w2

\* checkForModeInhibitions
ModeLimitation(ch, mode) ==
  /\ ~ch.DCM_Requested /\ mode = "FULL"
  /\ IF LimitToNoCom(ch) THEN ch.SubMode # "FULL_COM_NETWORK_REQUESTED"
                         ELSE InhibitWakeUp(ch) /\ ch.Mode # "FULL"

\* A request is refused while the channel and its bus state manager disagree
InSync(w) ==
  LET r == BusSM_GetCurrentComMode(w.sm) IN r.ok => r.mode = w.ch.Mode

ComM_RequestComMode(w, user, mode) ==
  LET mask == IF mode = "FULL" THEN w.ch.UserRequestMask \cup {user} ELSE w.ch.UserRequestMask \ {user}
      saved == mode = "FULL" \/ mask = {}
  IN IF ~ModeLimitation(w.ch, mode) /\ ~w.ch.requestPending /\ ~InSync(w) THEN w
     ELSE [w EXCEPT !.ch.UserRequestMask = mask,
                    !.ch.userOrPncReqMode = IF saved THEN mode ELSE @,
                    !.ch.userOrPncReqPending = @ \/ saved]

\* ComM_PreventWakeUp, ComM_LimitChannelToNoComMode, ComM_LimitECUToNoComMode
ComM_Inhibit(ch, what, on) ==
  [ch EXCEPT !.InhibitionStatus = IF on THEN @ \cup {what} ELSE @ \ {what},
             !.internalRequest = @ \/ what # "WAKE_UP"]

\* ComM_DCM_ActiveDiagnostic, ComM_DCM_InactiveDiagnostic
ComM_DCM(ch, active) == [ch EXCEPT !.DCM_Requested = active, !.internalRequest = TRUE]

ComM_EcuM_WakeUpIndication(ch) ==
  IF \/ ch.Mode = "NO"
     \/ ch.SubMode = "SILENT_COM" /\ ch.lastRequestedMode = "NO" /\ ch.requestPending
    THEN [ch EXCEPT !.EcuMWkUpIndication = TRUE, !.internalRequest = TRUE] ELSE ch

ComM_CommunicationAllowed(ch, allowed) == [ch EXCEPT !.CommunicationAllowed = allowed]
=============================================================================
