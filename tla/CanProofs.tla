----------------------------- MODULE CanProofs -----------------------------
(***************************************************************************)
(* The two managers of a CAN network, each on its own.                     *)
(*                                                                         *)
(* Network management: the nodes of CanNmCluster keep their types and stay *)
(* awake while they request the network, however many they are and         *)
(* whatever their times.                                                   *)
(*                                                                         *)
(* The CAN state manager, for every set of controllers, every transceiver  *)
(* and every setting of the repetitions and times: what CanSM takes the    *)
(* network for agrees with what it is (CanSMNetwork).                      *)
(***************************************************************************)
EXTENDS CanNmCluster, CanSMNetwork, CanSMLemmas

(***************************************************************************)
(* What every call of CanNm.c keeps of a channel: a channel that is        *)
(* requested transmits, which READY_SLEEP does not (its time-out, the only *)
(* way out of network mode, therefore never meets a request), and the      *)
(* immediate transmissions end with the last of their number.              *)
(***************************************************************************)
Counted(n) ==
  /\ n \in NmType
  /\ n.immediateModeActive => n.immediateNmTransmissionsSent < ImmediateNmTransmissions

NmSound(n) == Counted(n) /\ (n.Requested => Transmitting(n))

\* What the timers are loaded with, and what is left of them after a period
LEMMA Loaded ==
  /\ {0, TimeoutTime, TimeoutTime + MainFunctionPeriod} \subseteq TimeoutTimes
  /\ {0, RepeatMessageTime + MainFunctionPeriod} \subseteq RepeatMessageTimes
  /\ {0, WaitBusSleepTime} \subseteq WaitBusSleepTimes
  /\ {0, MessageCycleTime, ImmediateNmCycleTime, MessageCycleOffsetTime,
      MessageCycleOffsetTime + MainFunctionPeriod} \subseteq MessageCycleTimes
  /\ 0 \in ImmediateCounts
BY NmTimes DEF TimeoutTimes, RepeatMessageTimes, WaitBusSleepTimes, MessageCycleTimes,
               ImmediateCounts

\* A timer that has not expired is decremented within its range.
LEMMA Ticked ==
  ASSUME NEW t, ~Expired(t)
  PROVE /\ t \in TimeoutTimes => t - MainFunctionPeriod \in TimeoutTimes
        /\ t \in RepeatMessageTimes => t - MainFunctionPeriod \in RepeatMessageTimes
        /\ t \in WaitBusSleepTimes => t - MainFunctionPeriod \in WaitBusSleepTimes
        /\ t \in MessageCycleTimes => t - MainFunctionPeriod \in MessageCycleTimes
BY NmTimes DEF TimeoutTimes, RepeatMessageTimes, WaitBusSleepTimes, MessageCycleTimes, Expired

USE DEF NmSound, Counted, NmType, NmState, Indication, Transmitting

\* CanNm_Init leaves network management sound.
LEMMA NmInitSound ==
  ASSUME NEW passive \in BOOLEAN PROVE NmSound(CanNm_Init(passive))
BY Loaded DEF CanNm_Init

(***************************************************************************)
(* The transitions                                                         *)
(***************************************************************************)
LEMMA StartNetworkSound ==
  ASSUME NEW n, Counted(n), NEW isNwReq \in BOOLEAN
  PROVE NmSound(StartNetwork(n, isNwReq))
<1>1. CASE ImmediateNmTransmissions > 0 /\ isNwReq
  BY <1>1, Loaded, Zenon DEF StartNetwork
<1>2. CASE ~(ImmediateNmTransmissions > 0 /\ isNwReq)
  BY <1>2, Loaded, Zenon DEF StartNetwork
<1> QED BY <1>1, <1>2

\* Entering Repeat Message State keeps it sound.
LEMMA RepeatMessageSound ==
  ASSUME NEW n, NmSound(n) PROVE NmSound(RepeatMessage(n))
BY Loaded, Zenon DEF RepeatMessage

\* So does staying in Network Mode.
LEMMA NetworkModeSound ==
  ASSUME NEW n, NmSound(n) PROVE NmSound(NetworkMode_to_NetworkMode(n))
BY Loaded DEF NetworkMode_to_NetworkMode

(***************************************************************************)
(* The services and callbacks                                              *)
(***************************************************************************)
LEMMA PassiveStartUpSound ==
  ASSUME NEW n, NmSound(n) PROVE NmSound(CanNm_PassiveStartUp(n).nm)
<1>1. NmSound(StartNetwork(n, FALSE))
  BY StartNetworkSound, Zenon
<1> HIDE DEF NmSound
<1> QED BY <1>1, Zenon DEF CanNm_PassiveStartUp

\* CanNm_NetworkRequest keeps it sound.
LEMMA NetworkRequestSound ==
  ASSUME NEW n, NmSound(n) PROVE NmSound(CanNm_NetworkRequest(n).nm)
<1> DEFINE r == [n EXCEPT !.Requested = TRUE]
<1>1. Counted(r) /\ r.State = n.State
  BY Zenon
<1>2. NmSound(StartNetwork(r, TRUE))
  BY <1>1, StartNetworkSound, Zenon
<1>3. NmSound(ReadySleep_to_NormalOperation(r))
  BY Loaded, Zenon DEF ReadySleep_to_NormalOperation
<1>4. CASE n.State \in {"BUS_SLEEP", "PREPARE_BUS_SLEEP"}
  <2> HIDE DEF NmSound
  <2> QED BY <1>2, <1>4, Zenon DEF CanNm_NetworkRequest
<1>5. CASE n.State = "READY_SLEEP"
  <2> HIDE DEF NmSound
  <2> QED BY <1>3, <1>5 DEF CanNm_NetworkRequest
<1>6. CASE Transmitting(n)
  <2>1. CanNm_NetworkRequest(n).nm = r
    BY <1>6, Zenon DEF CanNm_NetworkRequest
  <2> QED BY <1>6, <1>1, <2>1
<1> QED BY <1>4, <1>5, <1>6

\* CanNm_NetworkRelease keeps it sound.
LEMMA NetworkReleaseSound ==
  ASSUME NEW n, NmSound(n) PROVE NmSound(CanNm_NetworkRelease(n).nm)
<1> DEFINE r == [n EXCEPT !.Requested = FALSE]
           q == [r EXCEPT !.State = "READY_SLEEP"]
<1>1. NmSound(r)
  BY Zenon
<1>2. NmSound(q)
  BY Zenon
<1>3. CanNm_NetworkRelease(n).nm \in {n, r, q}
  BY Zenon DEF CanNm_NetworkRelease
<1> HIDE DEF NmSound, r, q
<1> QED BY <1>1, <1>2, <1>3

\* Disabling and enabling communication keep it sound.
LEMMA ControlCommunicationSound ==
  ASSUME NEW n, NmSound(n), NEW on \in BOOLEAN PROVE NmSound(CanNm_ControlCommunication(n, on))
<1> DEFINE off == [n EXCEPT !.CommunicationEnabled = FALSE]
<1>1. NmSound(off)
  BY Zenon
<1>2. NmSound(CanNm_ControlCommunication(n, TRUE))
  BY Loaded, Zenon DEF CanNm_ControlCommunication
<1>3. CASE on
  <2> HIDE DEF NmSound
  <2> QED BY <1>2, <1>3, Zenon
<1>4. CASE ~on
  <2>1. CanNm_ControlCommunication(n, on) = off
    BY <1>4 DEF CanNm_ControlCommunication
  <2> HIDE DEF NmSound, off
  <2> QED BY <1>1, <2>1
<1> QED BY <1>3, <1>4

\* CanNm_RepeatMessageRequest keeps it sound.
LEMMA RepeatMessageRequestSound ==
  ASSUME NEW n, NmSound(n) PROVE NmSound(CanNm_RepeatMessageRequest(n))
<1> DEFINE m == [n EXCEPT !.repeatMessageBit = TRUE]
<1>1. NmSound(m)
  BY Zenon
<1>2. CanNm_RepeatMessageRequest(n) \in {n, RepeatMessage(m)}
  BY DEF CanNm_RepeatMessageRequest
<1> HIDE DEF NmSound, m
<1>3. NmSound(RepeatMessage(m))
  BY <1>1, RepeatMessageSound
<1> QED BY <1>2, <1>3

\* CanNm_Transmit keeps it sound, whether CanIf takes the message or not.
LEMMA TransmitSound ==
  ASSUME NEW n, NmSound(n), NEW accepted \in BOOLEAN PROVE NmSound(CanNm_Transmit(n, accepted))
<1> DEFINE m(ok) == [n EXCEPT !.spontaneous = ok, !.sent = ok]
<1>1. NmSound(m(TRUE)) /\ NmSound(m(FALSE))
  BY Zenon
<1>2. CanNm_Transmit(n, accepted) \in {n, m(accepted)}
  BY DEF CanNm_Transmit
<1> HIDE DEF NmSound, m
<1>3. accepted = TRUE \/ accepted = FALSE
  OBVIOUS
<1> QED BY <1>1, <1>2, <1>3, Zenon

\* CanNm_TxConfirmation keeps it sound.
LEMMA TxConfirmationSound ==
  ASSUME NEW n, NmSound(n) PROVE NmSound(CanNm_TxConfirmation(n))
<1>1. NmSound([n EXCEPT !.spontaneous = FALSE]) /\ NmSound(NetworkMode_to_NetworkMode(n))
  BY NetworkModeSound, Zenon
<1> HIDE DEF NmSound
<1> QED BY <1>1 DEF CanNm_TxConfirmation

\* CanNm_RxIndication keeps it sound, with and without the repeat message bit.
LEMMA RxIndicationSound ==
  ASSUME NEW n, NmSound(n), NEW bit \in BOOLEAN PROVE NmSound(CanNm_RxIndication(n, bit))
<1> DEFINE m == NetworkMode_to_NetworkMode(n)
<1>1. NmSound(m) /\ NmSound(RepeatMessage(m)) /\ NmSound(StartNetwork(n, FALSE))
  BY NetworkModeSound, RepeatMessageSound, StartNetworkSound, Zenon
<1>2. CASE n.State = "BUS_SLEEP"
  BY <1>2 DEF CanNm_RxIndication, NetworkMode
<1>3. CASE n.State = "PREPARE_BUS_SLEEP"
  <2> HIDE DEF NmSound
  <2> QED BY <1>1, <1>3, Zenon DEF CanNm_RxIndication
<1>4. CASE NetworkMode(n)
  <2>1. CanNm_RxIndication(n, bit) \in {m, RepeatMessage(m)}
    BY <1>4 DEF CanNm_RxIndication, NetworkMode
  <2> HIDE DEF NmSound
  <2> QED BY <1>1, <2>1
<1> QED BY <1>2, <1>3, <1>4 DEF NetworkMode

(***************************************************************************)
(* CanNm_MainFunction                                                      *)
(***************************************************************************)
LEMMA TickRepeatMessageTimeSound ==
  ASSUME NEW n, NmSound(n), NetworkMode(n)
  PROVE NmSound(TickRepeatMessageTime(n)) /\ NetworkMode(TickRepeatMessageTime(n))
<1>1. CASE n.State # "REPEAT_MESSAGE"
  BY <1>1 DEF TickRepeatMessageTime
<1>2. CASE n.State = "REPEAT_MESSAGE" /\ Expired(n.RepeatMessageTimeLeft)
  BY <1>2, Loaded, Zenon DEF TickRepeatMessageTime, NetworkMode
<1>3. CASE n.State = "REPEAT_MESSAGE" /\ ~Expired(n.RepeatMessageTimeLeft)
  BY <1>3, Ticked DEF TickRepeatMessageTime, NetworkMode
<1> QED BY <1>1, <1>2, <1>3

\* The NM timeout timer runs in Network Mode.
LEMMA TickTimeoutTimeSound ==
  ASSUME NEW n, NmSound(n), NetworkMode(n) PROVE NmSound(TickTimeoutTime(n))
<1>1. CASE ~n.CommunicationEnabled
  BY <1>1 DEF TickTimeoutTime
<1>2. CASE n.CommunicationEnabled /\ ~Expired(n.TimeoutTimeLeft)
  BY <1>2, Ticked DEF TickTimeoutTime
<1>3. CASE n.CommunicationEnabled /\ Expired(n.TimeoutTimeLeft) /\ Transmitting(n)
  BY <1>3, Loaded, Zenon DEF TickTimeoutTime
<1>4. CASE n.CommunicationEnabled /\ Expired(n.TimeoutTimeLeft) /\ n.State = "READY_SLEEP"
  BY <1>4, Loaded, Zenon DEF TickTimeoutTime, ReadySleep_to_PrepareBusSleep
<1> QED BY <1>1, <1>2, <1>3, <1>4 DEF NetworkMode

\* A message that the main function sends keeps it sound.
LEMMA TransmitMessageSound ==
  ASSUME NEW n, NmSound(n) PROVE NmSound(TransmitMessage(n))
<1>1. CASE n.spontaneous
  BY <1>1 DEF TransmitMessage
<1>2. CASE ~n.spontaneous /\ ~n.immediateModeActive
  BY <1>2, Zenon DEF TransmitMessage
<1>3. CASE ~n.spontaneous /\ n.immediateModeActive
  <2> DEFINE count == n.immediateNmTransmissionsSent + 1
  <2>1. count \in ImmediateCounts /\ (count # ImmediateNmTransmissions => count < ImmediateNmTransmissions)
    BY <1>3, NmTimes DEF ImmediateCounts
  <2> HIDE DEF count
  <2>2. CASE count = ImmediateNmTransmissions
    BY <1>3, <2>1, <2>2, Loaded, Zenon DEF TransmitMessage, count
  <2>3. CASE count # ImmediateNmTransmissions
    BY <1>3, <2>1, <2>3, Zenon DEF TransmitMessage, count
  <2> QED BY <2>2, <2>3
<1> QED BY <1>1, <1>2, <1>3

\* The message cycle timer keeps it sound.
LEMMA TickMessageCycleTimeSound ==
  ASSUME NEW n, NmSound(n) PROVE NmSound(TickMessageCycleTime(n))
<1> DEFINE m == [n EXCEPT !.MessageCycleTimeLeft =
                    IF n.immediateModeActive THEN ImmediateNmCycleTime ELSE MessageCycleTime]
           d == [n EXCEPT !.MessageCycleTimeLeft = @ - MainFunctionPeriod]
<1>1. NmSound(m)
  BY Loaded
<1>2. NmSound(TransmitMessage(m))
  BY <1>1, TransmitMessageSound
<1>3. ~Expired(n.MessageCycleTimeLeft) => NmSound(d)
  BY Ticked
<1>4. \/ TickMessageCycleTime(n) \in {n, TransmitMessage(m)}
      \/ ~Expired(n.MessageCycleTimeLeft) /\ TickMessageCycleTime(n) = d
  BY DEF TickMessageCycleTime
<1> HIDE DEF NmSound, m, d
<1> QED BY <1>2, <1>3, <1>4

\* The wait bus sleep timer runs in Prepare Bus-Sleep Mode.
LEMMA TickWaitBusSleepTimeSound ==
  ASSUME NEW n, NmSound(n), n.State = "PREPARE_BUS_SLEEP" PROVE NmSound(TickWaitBusSleepTime(n))
BY Loaded, Ticked, Zenon DEF TickWaitBusSleepTime, PrepareBusSleep_to_BusSleep

\* CanNm_MainFunction keeps it sound.
LEMMA NmMainFunctionSound ==
  ASSUME NEW n, NmSound(n) PROVE NmSound(CanNm_MainFunction(n))
<1>1. CASE NetworkMode(n)
  <2>1. CanNm_MainFunction(n) =
          TickMessageCycleTime(TickTimeoutTime(TickRepeatMessageTime(n)))
    BY <1>1 DEF CanNm_MainFunction, NetworkMode
  <2> HIDE DEF NmSound
  <2> QED BY <1>1, <2>1, TickRepeatMessageTimeSound, TickTimeoutTimeSound,
             TickMessageCycleTimeSound
<1>2. CASE n.State = "PREPARE_BUS_SLEEP"
  BY <1>2, TickWaitBusSleepTimeSound DEF CanNm_MainFunction, NetworkMode
<1>3. CASE n.State = "BUS_SLEEP"
  BY <1>3 DEF CanNm_MainFunction, NetworkMode
<1> QED BY <1>1, <1>2, <1>3 DEF NetworkMode

\* What the main function indicated is taken note of.
LEMMA QuietSound ==
  ASSUME NEW n, NmSound(n) PROVE NmSound(Quiet(n))
BY Zenon DEF Quiet

HIDE DEF NmSound, Counted, NmType, NmState, Indication, Transmitting

(***************************************************************************)
(* The cluster                                                             *)
(***************************************************************************)
NmInv == TypeOK /\ \A i \in Node : NmSound(nm[i])

\* A node left in a sound state leaves the cluster typed.
LEMMA BecomesSound ==
  ASSUME NmInv, NEW i \in Node, NEW n, NmSound(n), Becomes(i, n)
  PROVE /\ nm' \in [Node -> NmType] /\ \A j \in Node : NmSound(nm'[j])
        /\ bus' \in [Node -> {"none", "plain", "repeat"}]
<1>1. NmSound(Quiet(n)) /\ Quiet(n) \in NmType
  BY QuietSound DEF NmSound, Counted
<1>2. nm' = [nm EXCEPT ![i] = Quiet(n)]
  BY DEF Becomes
<1>3. bus' \in [Node -> {"none", "plain", "repeat"}]
  BY DEF Becomes, NmInv, TypeOK, Frame
<1> QED BY <1>1, <1>2, <1>3, Zenon DEF NmInv, TypeOK

\* The nodes are sound after CanNm_Init.
LEMMA InitNmInv == Init => NmInv
<1> SUFFICES ASSUME Init PROVE NmInv
  OBVIOUS
<1>1. PICK conf \in Configuration : nm = [i \in Node |-> CanNm_Init(i \in conf[1])]
  BY DEF Init
<1>2. ASSUME NEW i \in Node PROVE NmSound(CanNm_Init(i \in conf[1]))
  <2>1. (i \in conf[1]) \in BOOLEAN
    OBVIOUS
  <2> QED BY <2>1, NmInitSound, Zenon
<1>3. \A i \in Node : NmSound(nm[i]) /\ nm[i] \in NmType
  BY <1>1, <1>2 DEF NmSound, Counted
<1>4. nm \in [Node -> NmType]
  BY <1>1, <1>3
<1>5. lost \in [Node -> 0..MaxLost]
  BY MaxLostAssumption DEF Init
<1> QED BY <1>3, <1>4, <1>5, Zenon DEF NmInv, TypeOK, Init

\* Every step of a node and of the bus keeps every node sound.
LEMMA NextNmInv == NmInv /\ [Next]_vars => NmInv'
<1> SUFFICES ASSUME NmInv, [Next]_vars PROVE NmInv'
  OBVIOUS
<1>t. \A i \in Node : NmSound(nm[i])
  BY DEF NmInv
<1>1. ASSUME NEW i \in Node, MainFunction(i) PROVE NmInv'
  BY <1>1, <1>t, NmMainFunctionSound, BecomesSound DEF MainFunction, Turn, NmInv, TypeOK
<1>2. ASSUME NEW i \in Node, PassiveStartUp(i) PROVE NmInv'
  BY <1>2, <1>t, PassiveStartUpSound, BecomesSound DEF PassiveStartUp, NmInv, TypeOK
<1>3. ASSUME NEW i \in Node, NetworkRequest(i) PROVE NmInv'
  BY <1>3, <1>t, NetworkRequestSound, BecomesSound DEF NetworkRequest, NmInv, TypeOK
<1>4. ASSUME NEW i \in Node, NetworkRelease(i) PROVE NmInv'
  BY <1>4, <1>t, NetworkReleaseSound, BecomesSound DEF NetworkRelease, NmInv, TypeOK
<1>5. ASSUME NEW i \in Node, NEW on \in BOOLEAN, ControlCommunication(i, on) PROVE NmInv'
  BY <1>5, <1>t, ControlCommunicationSound, BecomesSound DEF ControlCommunication, NmInv, TypeOK
<1>6. ASSUME NEW i \in Node, RepeatMessageRequest(i) PROVE NmInv'
  BY <1>6, <1>t, RepeatMessageRequestSound, BecomesSound DEF RepeatMessageRequest, NmInv, TypeOK
<1>7. ASSUME NEW i \in Node, Transmit(i) PROVE NmInv'
  <2>1. NmSound(CanNm_Transmit(nm[i], bus[i] = "none"))
    BY <1>t, TransmitSound, Zenon
  <2> QED BY <1>7, <2>1, BecomesSound DEF Transmit, NmInv, TypeOK
<1>8. ASSUME NEW i \in Node, Deliver(i) PROVE NmInv'
  <2>1. \A j \in Node : NmSound(Received(i, j))
    BY <1>t, TxConfirmationSound, RxIndicationSound, Zenon DEF Received
  <2>2. \A j \in Node : NmSound(nm'[j]) /\ nm'[j] \in NmType
    BY <1>8, <2>1, QuietSound DEF Deliver, NmSound, Counted
  <2>3. nm' \in [Node -> NmType]
    BY <1>8, <2>2 DEF Deliver
  <2>4. bus' \in [Node -> {"none", "plain", "repeat"}]
    BY <1>8 DEF Deliver, NmInv, TypeOK
  <2>5. lost' \in [Node -> 0..MaxLost]
    BY <1>8, MaxLostAssumption DEF Deliver, NmInv, TypeOK
  <2>6. woken' \subseteq Node /\ heard' \subseteq Node
    BY <1>8 DEF Deliver, NmInv, TypeOK
  <2> QED BY <1>8, <2>2, <2>3, <2>4, <2>5, <2>6 DEF Deliver, NmInv, TypeOK
<1>9. ASSUME NEW i \in Node, Lose(i) PROVE NmInv'
  BY <1>9, MaxLostAssumption DEF Lose, NmInv, TypeOK
<1>10. CASE Calm
  BY <1>10 DEF Calm, NmInv, TypeOK
<1>11. CASE UNCHANGED vars
  BY <1>11 DEF vars, NmInv, TypeOK
<1> QED
  BY <1>1, <1>2, <1>3, <1>4, <1>5, <1>6, <1>7, <1>8, <1>9, <1>10, <1>11 DEF Next

\* Whatever the number of nodes, their times and the frames that get lost, every variable
\* keeps its type: no timer of CanNm.c underflows, and the count of immediate transmissions
\* (an equality test in CanNm_Internal_TransmitMessage) never steps over its limit.
THEOREM TypeCorrect == Spec => []TypeOK
<1>1. NmInv => TypeOK
  BY DEF NmInv
<1> QED BY <1>1, InitNmInv, NextNmInv, PTL DEF Spec

\* Whatever the number of nodes, their times and the frames that get lost, a node that
\* requests the network (CanNm_NetworkRequest) stays in network mode until it releases it.
THEOREM RequestedStaysAwake == Spec => []RequestedOK
<1>1. NmInv => RequestedOK
  BY DEF NmInv, RequestedOK, NmSound, Transmitting, NetworkMode
<1> QED BY <1>1, InitNmInv, NextNmInv, PTL DEF Spec

(***************************************************************************)
(* The state manager                                                       *)
(***************************************************************************)
\* The invariant of CanSMLemmas holds of the network (CanSM_Init).
LEMMA InitNetwork == SMInit => SMOK(sm)
BY KindsAssumption, InitSound DEF SMInit, Kind

\* Every step of CanSM, its user, its drivers and the bus keeps it, and the mode
\* indicated to ComM makes one of the steps it may make.
LEMMA NextNetwork ==
  ASSUME SMOK(sm), [SMNext]_smVars
  PROVE  SMOK(sm)' /\ ModeStep(sm.currentMode, sm'.currentMode)
<1>1. ASSUME NEW s, SMOK(s), SMBecomes(s)
      PROVE  SMOK(sm)' /\ sm'.currentMode = s.currentMode
  <2>. DEFINE t == [s EXCEPT !.indicated = "none"]
  <2>1. SMOK(t) /\ t.currentMode = s.currentMode
    BY <1>1, IndicatedSound
  <2>2. sm' = t
    BY <1>1 DEF SMBecomes
  <2>. HIDE DEF t
  <2>. QED BY <2>1, <2>2 DEF SMOK
<1>2. CASE CanSM_Main
  <2>1. PICK s \in CanSM_MainFunction(sm) : SMBecomes(s)
    BY <1>2 DEF CanSM_Main
  <2>. QED BY <1>1, <2>1, MainFunctionSound DEF Indicates
<1>3. ASSUME NEW mode \in Modes, Request(mode)
      PROVE  SMOK(sm)' /\ ModeStep(sm.currentMode, sm'.currentMode)
  <2>1. mode \in ComMode /\ SMBecomes(CanSM_RequestComMode(sm, mode).sm)
    BY <1>3, ModesAssumption DEF Request, ComMode
  <2>. QED BY <1>1, <2>1, RequestComModeSound DEF Tells, ModeStep
<1>4. CASE DriverAnswers
  <2>1. PICK s \in Answers(sm) : SMBecomes(s)
    BY <1>4 DEF DriverAnswers
  <2>. QED BY <1>1, <2>1, AnswersSound DEF Tells, ModeStep
<1>5. CASE DriverFails
  <2>1. PICK s \in Failures(sm) : SMBecomes(s)
    BY <1>5 DEF DriverFails
  <2>. QED BY <1>1, <2>1, AnswersSound DEF Tells, ModeStep
<1>6. ASSUME NEW c \in Controller, BusOff(c)
      PROVE  SMOK(sm)' /\ ModeStep(sm.currentMode, sm'.currentMode)
  <2>1. sm.mode[c] = "STARTED" /\ SMBecomes(CanIf_ControllerBusOff(sm, c))
    BY <1>6 DEF BusOff
  <2>. QED BY <1>1, <2>1, ControllerBusOffSound DEF Tells, ModeStep
<1>7. CASE SMCalm
  <2>1. SMBecomes([sm EXCEPT !.faulty = FALSE])
    BY <1>7 DEF SMCalm
  <2>. QED BY <1>1, <2>1, CalmSound, Zenon DEF Tells, ModeStep
<1>8. CASE UNCHANGED smVars
  BY <1>8 DEF smVars, SMOK, ModeStep
<1>. QED BY <1>2, <1>3, <1>4, <1>5, <1>6, <1>7, <1>8 DEF SMNext

\* The state manager's invariant holds in every reachable state.
LEMMA Network == SMSpec => []SMOK(sm)
<1>1. SMOK(sm) /\ [SMNext]_smVars => SMOK(sm)'
  BY NextNetwork
<1>. QED BY InitNetwork, <1>1, PTL DEF SMSpec

\* What the invariant says of the PDU mode.
LEMMA OnlineFollows == SMOK(sm) => OnlineOK
BY Zenon DEF SMOK, SMRecord, PhaseOK, PreNoComOK, PreFullComOK, FullComOK, Resting, OnlineOK

\* What the invariant says of the controllers and the transceiver in NO_COM.
LEMMA AsleepFollows == SMOK(sm) => AsleepOK
BY DEF SMOK, PhaseOK, AllIn, Truth, AsleepOK

\* What the invariant says of the controllers in FULL_COM.
LEMMA StartedFollows == SMOK(sm) => StartedOK
BY DEF SMOK, PhaseOK, FullComOK, AllIn, Truth, StartedOK

\* The network transmits only in full communication and not during the recovery from a
\* bus-off, however the drivers answer and fail (BSM_S_FULLCOM, CanIf_SetPduMode).
THEOREM TransmitsInFullComOnly == SMSpec => []OnlineOK
BY Network, OnlineFollows, PTL

\* In the state "no communication" every controller is asleep: no indication of one
\* controller or of an earlier request is taken for that of all
\* (CanSM_Internal_ResetControllerIndications, modeReadRequest).
THEOREM NoComSleeps == SMSpec => []AsleepOK
BY Network, AsleepFollows, PTL

\* In full communication, but for a restart after a bus-off, every controller that CanSM
\* has not missed a bus-off of is started (BSM_S_PRE_FULLCOM, BSM_S_FULLCOM).
THEOREM FullComStarted == SMSpec => []StartedOK
BY Network, StartedFollows, PTL

\* The mode indicated to ComM never jumps from full communication to none, or from none
\* to silent communication, also when a refused request restarts the network
\* (CanSM_MainFunction).
THEOREM ModeDoesNotJump == SMSpec => ModeSteps
<1>1. SMOK(sm) /\ [SMNext]_smVars =>
        [sm.currentMode = sm'.currentMode
         \/ <<sm.currentMode, sm'.currentMode>> \in
              {<<"NO", "FULL">>, <<"FULL", "SILENT">>, <<"SILENT", "FULL">>,
               <<"SILENT", "NO">>}]_smVars
  BY NextNetwork DEF ModeStep
<1>. QED BY Network, <1>1, PTL DEF SMSpec, ModeSteps
=============================================================================
