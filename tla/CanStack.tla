------------------------------ MODULE CanStack ------------------------------
(***************************************************************************)
(* One CAN channel of an ECU: the communication manager, the CAN state     *)
(* manager with the CAN interface, and CAN network management, with the    *)
(* application, the drivers and the other nodes of the bus around them.    *)
(*                                                                         *)
(* The main functions run in tasks that do not preempt each other, and the *)
(* callbacks of the drivers under the locks of SchM: each is one step.     *)
(***************************************************************************)
EXTENDS CanSM, CanNm

CONSTANTS
  User,
  Inhibitions,            \* what the application inhibits: "WAKE_UP", "NO_COMMUNICATION", "ECU"
  Configuration,          \* transceivers, NM variants, and what the environment may do
  COMM_T_MIN_FULL_COM_MODE_DURATION, LightTimeout

ASSUME ConfigurationAssumption ==
  \A conf \in Configuration :
    /\ conf[1] \in {"none", "plain", "pn", "CanTrcv"}
    /\ conf[2] \in {"FULL", "PASSIVE", "LIGHT", "NONE"}

VARIABLES ch, sm, nm,
          may,            \* what the environment may do
          frame,          \* an NM message awaits its confirmation
          ran             \* the main function that ran last, once the drivers are sound

vars == <<ch, sm, nm, may, frame, ran>>

INSTANCE ComM WITH BusType <- "CAN",
  BusSM_RequestComMode <- CanSM_RequestComMode, BusSM_GetCurrentComMode <- CanSM_GetCurrentComMode,
  Nm_NetworkRequest <- CanNm_NetworkRequest, Nm_NetworkRelease <- CanNm_NetworkRelease,
  Nm_PassiveStartUp <- CanNm_PassiveStartUp

World == [ch |-> ch, sm |-> sm, nm |-> nm]

\* What the state manager and network management indicated in a call reaches ComM
Settled(w) ==
  Indicated(IF w.sm.indicated = "none" THEN w
            ELSE ComM_BusSM_ModeIndication([w EXCEPT !.sm.indicated = "none"], w.sm.indicated))

\* A call leaves the world w, and an NM message is on its way if CanIf took one
Becomes(w) ==
  \E x \in {Settled(w)} :
    /\ UNCHANGED may
    /\ ch' = x.ch
    /\ sm' = x.sm
    /\ nm' = [x.nm EXCEPT !.sent = FALSE]
    /\ frame' = (CanIf_Transmits(x.sm) /\ (frame \/ x.nm.sent))

Init ==
  /\ \E conf \in Configuration :
       /\ sm = CanSM_Init(conf[1])
       /\ ch = ComM_Init(conf[2]) /\ nm = CanNm_Init(conf[2] = "PASSIVE")
       /\ may = conf[3]
  /\ frame = FALSE /\ ran = "none"

(***************************************************************************)
(* The main functions.  Once the drivers are sound they answer within a    *)
(* period of the main function that waits for them.                        *)
(***************************************************************************)
Ran(f) == ran' = IF sm.faulty THEN "none" ELSE f

ComM_Main == Ran("ComM") /\ Becomes(ComM_MainFunction(World))

CanSM_Main ==
  /\ sm.faulty \/ Answered(sm)
  /\ Ran("CanSM")
  /\ \E s \in CanSM_MainFunction(sm) : Becomes([World EXCEPT !.sm = s])

CanNm_Main ==
  /\ sm.faulty \/ ~frame
  /\ Ran("CanNm")
  /\ Becomes([World EXCEPT !.nm = CanNm_MainFunction(nm)])

(***************************************************************************)
(* The application and the ECU state manager, while they have not made up  *)
(* their minds                                                             *)
(***************************************************************************)
\* A step of the environment; some come to an end when it calms down
Event(w) == UNCHANGED ran /\ Becomes(w)
Free(w) == sm.faulty /\ Event(w)

\* A patient user neither repeats a request nor makes one while ComM is busy or silent
MayRequest(u, mode) ==
  \/ "hasty" \in may
  \/ /\ u \in ch.UserRequestMask <=> mode = "NO"
     /\ ~(ch.requestPending \/ ch.userOrPncReqPending \/ ch.internalRequest)
     /\ ch.Mode # "SILENT" \/ "silent" \in may

RequestComMode(u, mode) == MayRequest(u, mode) /\ Free(ComM_RequestComMode(World, u, mode))

Inhibit(what, on) == "inhibit" \in may /\ Free([World EXCEPT !.ch = ComM_Inhibit(ch, what, on)])

Diagnose(active) == "diagnose" \in may /\ Free([World EXCEPT !.ch = ComM_DCM(ch, active)])

WakeUp == "wake up" \in may /\ Free([World EXCEPT !.ch = ComM_EcuM_WakeUpIndication(ch)])

Allow(allowed) ==
  /\ allowed \/ "forbid" \in may
  /\ Free([World EXCEPT !.ch = ComM_CommunicationAllowed(ch, allowed)])

(***************************************************************************)
(* The drivers and the bus                                                 *)
(***************************************************************************)
DriverAnswers == \E s \in Answers(sm) : Event([World EXCEPT !.sm = s])

DriverFails == \E s \in Failures(sm) : Free([World EXCEPT !.sm = s])

BusOff(c) ==
  /\ "bus-off" \in may /\ sm.mode[c] = "STARTED"
  /\ Free([World EXCEPT !.sm = CanIf_ControllerBusOff(sm, c)])

MessageConfirmed ==
  /\ frame
  /\ nm' = CanNm_TxConfirmation(nm) /\ frame' = FALSE /\ UNCHANGED <<ch, sm, may, ran>>

MessageLost == sm.faulty /\ frame /\ frame' = FALSE /\ UNCHANGED <<ch, sm, nm, may, ran>>

MessageReceived ==
  /\ "receive" \in may
  /\ sm.PduMode # "OFFLINE" /\ \E c \in Controller : sm.mode[c] = "STARTED"
  /\ \E bit \in BOOLEAN : Free([World EXCEPT !.nm = CanNm_RxIndication(nm, bit)])

\* From here on the drivers are sound, the bus is quiet, and requests stay as they are
Calm == "calm" \in may /\ Free([World EXCEPT !.sm.faulty = FALSE])

Next ==
  \/ ComM_Main \/ CanSM_Main \/ CanNm_Main
  \/ \E u \in User, mode \in {"NO", "FULL"} : RequestComMode(u, mode)
  \/ \E what \in Inhibitions, on \in BOOLEAN : Inhibit(what, on)
  \/ \E active \in BOOLEAN : Diagnose(active)
  \/ WakeUp
  \/ \E allowed \in BOOLEAN : Allow(allowed)
  \/ DriverAnswers \/ DriverFails
  \/ \E c \in Controller : BusOff(c)
  \/ MessageConfirmed \/ MessageLost \/ MessageReceived
  \/ Calm

\* Once the drivers are sound, every main function runs again and again
Runs(f) == ~sm.faulty /\ ran' = f

Fairness ==
  /\ WF_ran(Runs("ComM")) /\ WF_ran(Runs("CanSM")) /\ WF_ran(Runs("CanNm"))
  /\ WF_sm(DriverAnswers) /\ WF_frame(MessageConfirmed)

Spec == Init /\ [][Next]_vars /\ Fairness

(***************************************************************************)
(* Properties                                                              *)
(***************************************************************************)
\* A channel ComM holds to be without communication does not transmit: CanSM has left the
\* PDUs of its controllers off, whatever users, wake-ups, bus-offs and failing drivers have
\* brought about, and also while a request is under way (requestPending).
NoComOK == ch.Mode = "NO" => sm.PduMode # "ONLINE"

\* With patient users, when no request is under way ComM's mode of the channel is the one
\* CanSM last indicated: ComM_BusSM_ModeIndication takes in every indication, also those
\* of a bus-off and of the recovery from it.  The exception is a network restarted after
\* repeated failures, of which ComM is told "no communication" unasked and ignores it.
AgreeOK ==
  "hasty" \notin may /\ ~ch.requestPending =>
    \/ ch.Mode = sm.currentMode
    \/ ch.Mode = "SILENT" /\ sm.currentMode = "NO" /\ sm.requestedMode = "FULL"

\* With patient users, network management is released (Nm_NetworkRelease) only when no
\* user requests the channel any more.
KeptAwake ==
  []["hasty" \notin may /\ nm.Requested /\ ~nm'.Requested => ch'.UserRequestMask = {}]_vars

\* A wake-up the ECU state manager indicated is kept until the channel is in full
\* communication and network management has been told (NotifyNm); a refused request or
\* an indication of network management does not lose it.
WakeUpKept ==
  [][ch.EcuMWkUpIndication /\ ~ch'.EcuMWkUpIndication => ch'.Mode = "FULL"]_vars

Wanted == ch.UserRequestMask # {} /\ ch.CommunicationAllowed /\ ch.InhibitionStatus = {}
Communicating ==
  /\ ch.Mode = "FULL" /\ sm.BsmState = "FULLCOM" /\ sm.PduMode = "ONLINE"
  /\ ch.NmVariant = "FULL" => nm.State = "NORMAL_OPERATION"

\* Once the drivers are sound and the requests stay as they are, a channel that a user
\* requests and that may communicate comes to communicate and stays so, with network
\* management holding the network awake.  (A passive node cannot hold it awake.)
UpWhenWanted == (~sm.faulty /\ ch.NmVariant # "PASSIVE" /\ Wanted) ~> []Communicating

NotWanted == ch.NmVariant # "NONE" /\ ch.UserRequestMask = {} /\ ~ch.DCM_Requested
Asleep == ch.Mode = "NO" /\ sm.BsmState = "NOCOM" /\ nm.State = "BUS_SLEEP"

\* Once the drivers are sound and the requests stay as they are, a channel nobody requests
\* goes to sleep, with its controllers and its network management, and stays asleep.  (A
\* channel without any network management is switched off by the ECU, not by ComM.)
DownWhenNotWanted == (~sm.faulty /\ NotWanted) ~> []Asleep
=============================================================================
