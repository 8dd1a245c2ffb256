------------------------------- MODULE CanNm -------------------------------
(***************************************************************************)
(* CAN network management (CanNm.c) of one channel: the nodes of a CAN     *)
(* network tell each other with NM messages that one of them still needs   *)
(* the network, and go to sleep together when none does.                   *)
(*                                                                         *)
(* The C functions are operators on the record n that holds the channel's  *)
(* state.  What a call tells the NM interface (Nm.c, which passes it on to *)
(* ComM) is left in n.ind, the frame it hands to CanIf in n.sent.  Partial *)
(* networking (CANNM_PNC_COUNT) is off and user data come from Com.  The   *)
(* transmission time-out, which only reports an error, is left out.        *)
(***************************************************************************)
EXTENDS Integers

CONSTANTS
  MainFunctionPeriod, TimeoutTime, RepeatMessageTime, WaitBusSleepTime,
  MessageCycleTime, MessageCycleOffsetTime, ImmediateNmTransmissions, ImmediateNmCycleTime

ASSUME NmTimes ==
  {MainFunctionPeriod, TimeoutTime, RepeatMessageTime, WaitBusSleepTime, MessageCycleTime,
   MessageCycleOffsetTime, ImmediateNmTransmissions, ImmediateNmCycleTime} \subseteq Nat

NmState == {"BUS_SLEEP", "PREPARE_BUS_SLEEP", "REPEAT_MESSAGE", "NORMAL_OPERATION", "READY_SLEEP"}
Indication == {"none", "NETWORK_START", "NETWORK_MODE", "PREPARE_BUS_SLEEP", "BUS_SLEEP"}

NetworkMode(n) == n.State \in {"REPEAT_MESSAGE", "NORMAL_OPERATION", "READY_SLEEP"}
Transmitting(n) == n.State \in {"REPEAT_MESSAGE", "NORMAL_OPERATION"}

CanNm_Init(passive) ==
  [passive |-> passive,                          \* CANNM_PASSIVE_MODE_ENABLED
   State |-> "BUS_SLEEP", Requested |-> FALSE, CommunicationEnabled |-> TRUE,
   TimeoutTimeLeft |-> 0, RepeatMessageTimeLeft |-> 0, WaitBusSleepTimeLeft |-> 0,
   MessageCycleTimeLeft |-> 0, immediateModeActive |-> FALSE, immediateNmTransmissionsSent |-> 0,
   spontaneous |-> FALSE,                        \* CANNM_SPONTANEOUS_TRANSMISSION under way
   repeatMessageBit |-> FALSE,                   \* in the messages sent
   ind |-> "none", sent |-> FALSE]

Expired(left) == MainFunctionPeriod >= left

(***************************************************************************)
(* The transitions                                                         *)
(***************************************************************************)
\* CanNm_Internal_BusSleep_to_RepeatMessage, CanNm_Internal_PrepareBusSleep_to_RepeatMessage
StartNetwork(n, isNwReq) ==
  LET immediate == ImmediateNmTransmissions > 0 /\ isNwReq
  IN [n EXCEPT !.State = "REPEAT_MESSAGE", !.ind = "NETWORK_MODE",
               !.TimeoutTimeLeft = TimeoutTime + MainFunctionPeriod,
               !.RepeatMessageTimeLeft = RepeatMessageTime + MainFunctionPeriod,
               !.MessageCycleTimeLeft = IF immediate THEN 0
                                        ELSE MessageCycleOffsetTime + MainFunctionPeriod,
               !.immediateNmTransmissionsSent = IF immediate THEN 0 ELSE @,
               !.immediateModeActive = @ \/ immediate]

\* CanNm_Internal_ReadySleep_to_RepeatMessage, CanNm_Internal_NormalOperation_to_RepeatMessage
RepeatMessage(n) ==
  [n EXCEPT !.State = "REPEAT_MESSAGE",
            !.RepeatMessageTimeLeft = RepeatMessageTime + MainFunctionPeriod,
            !.MessageCycleTimeLeft = MessageCycleOffsetTime + MainFunctionPeriod]

ReadySleep_to_NormalOperation(n) ==
  [n EXCEPT !.State = "NORMAL_OPERATION",
            !.MessageCycleTimeLeft = MessageCycleOffsetTime + MainFunctionPeriod]

ReadySleep_to_PrepareBusSleep(n) ==
  [n EXCEPT !.State = "PREPARE_BUS_SLEEP", !.ind = "PREPARE_BUS_SLEEP",
            !.WaitBusSleepTimeLeft = WaitBusSleepTime]

PrepareBusSleep_to_BusSleep(n) == [n EXCEPT !.State = "BUS_SLEEP", !.ind = "BUS_SLEEP"]

\* Slip: the time-out is a period too short
NetworkMode_to_NetworkMode_Slip(n) == [n EXCEPT !.TimeoutTimeLeft = TimeoutTime]

NetworkMode_to_NetworkMode(n) == [n EXCEPT !.TimeoutTimeLeft = TimeoutTime + MainFunctionPeriod]

(***************************************************************************)
(* The services and callbacks; ok is the status returned                   *)
(***************************************************************************)
CanNm_PassiveStartUp(n) ==
  IF n.State = "BUS_SLEEP" THEN [ok |-> TRUE, nm |-> StartNetwork(n, FALSE)]
                           ELSE [ok |-> FALSE, nm |-> n]

\* Slip: a node about to sleep is not started
CanNm_NetworkRequest_Slip(n) ==
  LET r == [n EXCEPT !.Requested = TRUE]
  IN [ok |-> TRUE,
      nm |-> CASE n.State = "BUS_SLEEP" -> StartNetwork(r, TRUE)
               [] n.State = "READY_SLEEP" -> ReadySleep_to_NormalOperation(r)
               [] OTHER -> r]

CanNm_NetworkRequest(n) ==
  LET r == [n EXCEPT !.Requested = TRUE]
  IN [ok |-> TRUE,
      nm |-> CASE n.State \in {"BUS_SLEEP", "PREPARE_BUS_SLEEP"} -> StartNetwork(r, TRUE)
               [] n.State = "READY_SLEEP" -> ReadySleep_to_NormalOperation(r)
               [] OTHER -> r]

\* Slip: the node goes on in normal operation
CanNm_NetworkRelease_Slip(n) ==
  IF ~n.CommunicationEnabled THEN [ok |-> FALSE, nm |-> n]
  ELSE [ok |-> TRUE, nm |-> [n EXCEPT !.Requested = FALSE]]

CanNm_NetworkRelease(n) ==
  IF ~n.CommunicationEnabled THEN [ok |-> FALSE, nm |-> n]
  ELSE [ok |-> TRUE,
        nm |-> [n EXCEPT !.Requested = FALSE,
                         !.State = IF @ = "NORMAL_OPERATION" THEN "READY_SLEEP" ELSE @]]

\* CanNm_DisableCommunication, CanNm_EnableCommunication; the state where they return E_OK
MayControlCommunication(n, on) ==
  NetworkMode(n) /\ ~n.passive /\ (on => ~n.CommunicationEnabled)

CanNm_ControlCommunication(n, on) ==
  IF ~on THEN [n EXCEPT !.CommunicationEnabled = FALSE]
  ELSE [n EXCEPT !.CommunicationEnabled = TRUE,
                 !.MessageCycleTimeLeft = MessageCycleOffsetTime + MainFunctionPeriod,
                 !.TimeoutTimeLeft = TimeoutTime + MainFunctionPeriod]

CanNm_RepeatMessageRequest(n) ==
  IF n.State \in {"READY_SLEEP", "NORMAL_OPERATION"}
    THEN RepeatMessage([n EXCEPT !.repeatMessageBit = TRUE]) ELSE n

\* A spontaneous message; accepted is CanIf_Transmit's answer
CanNm_Transmit(n, accepted) ==
  IF Transmitting(n) /\ n.CommunicationEnabled /\ ~n.spontaneous
    THEN [n EXCEPT !.spontaneous = accepted, !.sent = accepted] ELSE n

CanNm_TxConfirmation(n) ==
  IF n.spontaneous THEN [n EXCEPT !.spontaneous = FALSE]
  ELSE IF NetworkMode(n) THEN NetworkMode_to_NetworkMode(n) ELSE n

\* Slip: nobody is told of a message that comes during bus sleep
CanNm_RxIndication_Slip(n, repeatMessageBit) ==
  CASE n.State = "BUS_SLEEP" -> n
    [] n.State = "PREPARE_BUS_SLEEP" -> StartNetwork(n, FALSE)
    [] NetworkMode(n) ->
         LET m == NetworkMode_to_NetworkMode(n)
         IN IF repeatMessageBit /\ n.State # "REPEAT_MESSAGE" THEN RepeatMessage(m) ELSE m

CanNm_RxIndication(n, repeatMessageBit) ==
  CASE n.State = "BUS_SLEEP" -> [n EXCEPT !.ind = "NETWORK_START"]
    [] n.State = "PREPARE_BUS_SLEEP" -> StartNetwork(n, FALSE)
    [] NetworkMode(n) ->
         LET m == NetworkMode_to_NetworkMode(n)
         IN IF repeatMessageBit /\ n.State # "REPEAT_MESSAGE" THEN RepeatMessage(m) ELSE m

(***************************************************************************)
(* CanNm_MainFunction                                                      *)
(***************************************************************************)
TickRepeatMessageTime(n) ==
  IF n.State # "REPEAT_MESSAGE" THEN n
  ELSE IF Expired(n.RepeatMessageTimeLeft)
    THEN [n EXCEPT !.RepeatMessageTimeLeft = 0, !.repeatMessageBit = FALSE,
                   !.State = IF n.Requested THEN "NORMAL_OPERATION" ELSE "READY_SLEEP"]
    ELSE [n EXCEPT !.RepeatMessageTimeLeft = @ - MainFunctionPeriod]

\* A spontaneous message no confirmation came for is given up with the time-out
TickTimeoutTime(n) ==
  CASE ~n.CommunicationEnabled -> n
    [] n.CommunicationEnabled /\ ~Expired(n.TimeoutTimeLeft) ->
         [n EXCEPT !.TimeoutTimeLeft = @ - MainFunctionPeriod]
    [] n.CommunicationEnabled /\ Expired(n.TimeoutTimeLeft) /\ Transmitting(n) ->
         [n EXCEPT !.TimeoutTimeLeft = TimeoutTime, !.spontaneous = FALSE]
    [] n.CommunicationEnabled /\ Expired(n.TimeoutTimeLeft) /\ n.State = "READY_SLEEP" ->
         ReadySleep_to_PrepareBusSleep([n EXCEPT !.TimeoutTimeLeft = 0])

\* Slip: one immediate transmission too many
TransmitMessage_Slip(n) ==
  LET count == n.immediateNmTransmissionsSent + 1
      last == n.immediateModeActive /\ count > ImmediateNmTransmissions
  IN IF n.spontaneous THEN n
     ELSE [n EXCEPT !.sent = TRUE,
                    !.immediateNmTransmissionsSent = IF n.immediateModeActive THEN count ELSE @,
                    !.immediateModeActive = @ /\ ~last,
                    !.MessageCycleTimeLeft = IF ~last THEN @
                                             ELSE IF MessageCycleOffsetTime # 0 THEN MessageCycleOffsetTime
                                             ELSE MessageCycleTime]

\* CanNm_Internal_TransmitMessage; it does not look at CanIf_Transmit's answer
TransmitMessage(n) ==
  LET count == n.immediateNmTransmissionsSent + 1
      last == n.immediateModeActive /\ count = ImmediateNmTransmissions
  IN IF n.spontaneous THEN n
     ELSE [n EXCEPT !.sent = TRUE,
                    !.immediateNmTransmissionsSent = IF n.immediateModeActive THEN count ELSE @,
                    !.immediateModeActive = @ /\ ~last,
                    !.MessageCycleTimeLeft = IF ~last THEN @
                                             ELSE IF MessageCycleOffsetTime # 0 THEN MessageCycleOffsetTime
                                             ELSE MessageCycleTime]

TickMessageCycleTime(n) ==
  IF ~Transmitting(n) \/ ~n.CommunicationEnabled \/ n.passive THEN n
  ELSE IF Expired(n.MessageCycleTimeLeft)
    THEN TransmitMessage([n EXCEPT !.MessageCycleTimeLeft =
                            IF n.immediateModeActive THEN ImmediateNmCycleTime ELSE MessageCycleTime])
    ELSE [n EXCEPT !.MessageCycleTimeLeft = @ - MainFunctionPeriod]

TickWaitBusSleepTime(n) ==
  IF Expired(n.WaitBusSleepTimeLeft)
    THEN PrepareBusSleep_to_BusSleep([n EXCEPT !.WaitBusSleepTimeLeft = 0])
    ELSE [n EXCEPT !.WaitBusSleepTimeLeft = @ - MainFunctionPeriod]

CanNm_MainFunction(n) ==
  CASE NetworkMode(n) -> TickMessageCycleTime(TickTimeoutTime(TickRepeatMessageTime(n)))
    [] n.State = "PREPARE_BUS_SLEEP" -> TickWaitBusSleepTime(n)
    [] OTHER -> n
=============================================================================
