---------------------------- MODULE CanNmCluster ----------------------------
(***************************************************************************)
(* The nodes of a CAN network, each with its network management (CanNm.c), *)
(* on the bus that connects them.                                          *)
(*                                                                         *)
(* Every node calls CanNm_MainFunction once a period, all periods being of *)
(* the same length and of any phase: done holds the nodes that have called *)
(* it in the current round.  A frame reaches all other nodes at once, as   *)
(* CAN has it, before its sender's next main function, unless the bus      *)
(* loses it.                                                               *)
(***************************************************************************)
EXTENDS CanNm

CONSTANTS
  Node,
  Configuration,          \* passive nodes, and what may happen besides requests
  MaxLost                 \* how many frames of a node are lost in a row at most

ASSUME MaxLostAssumption == MaxLost \in Nat

VARIABLES
  nm,
  may,                    \* what may happen: "lose", "repeat", "control", "transmit"
  bus,                    \* the frame of each node that waits for the bus
  woken,                  \* nodes whose ComM was told of a network start
  done, lost,
  heard,                  \* nodes heard since they requested the network
  calm                    \* from now on requests stay as they are

vars == <<nm, may, bus, woken, done, lost, heard, calm>>

Init ==
  /\ \E conf \in Configuration :
       nm = [i \in Node |-> CanNm_Init(i \in conf[1])] /\ may = conf[2]
  /\ bus = [i \in Node |-> "none"]
  /\ woken = {} /\ done = {} /\ heard = {}
  /\ lost = [i \in Node |-> 0]
  /\ calm = FALSE

Quiet(n) == [n EXCEPT !.ind = "none", !.sent = FALSE]

Frame(n) == IF n.repeatMessageBit THEN "repeat" ELSE "plain"

\* Node i is left in state n, with the frame it has sent
Becomes(i, n) ==
  /\ nm' = [nm EXCEPT ![i] = Quiet(n)]
  /\ bus' = [bus EXCEPT ![i] = IF n.sent THEN Frame(n) ELSE @]

\* A round is over when every node has had its turn
Turn(i) ==
  /\ i \notin done \cup woken /\ bus[i] = "none"
  /\ done' = IF done \cup {i} = Node THEN {} ELSE done \cup {i}

MainFunction(i) ==
  /\ Turn(i) /\ Becomes(i, CanNm_MainFunction(nm[i]))
  /\ UNCHANGED <<may, woken, lost, heard, calm>>

(***************************************************************************)
(* What a node's ComM, application and diagnostics ask of it               *)
(***************************************************************************)
\* ComM starts network management up after a network start
PassiveStartUp(i) ==
  /\ i \in woken
  /\ Becomes(i, CanNm_PassiveStartUp(nm[i]).nm)
  /\ woken' = woken \ {i}
  /\ UNCHANGED <<may, done, lost, heard, calm>>

NetworkRequest(i) ==
  /\ ~calm /\ ~nm[i].passive /\ ~nm[i].Requested
  /\ Becomes(i, CanNm_NetworkRequest(nm[i]).nm)
  /\ UNCHANGED <<may, woken, done, lost, heard, calm>>

NetworkRelease(i) ==
  /\ ~calm /\ nm[i].Requested /\ nm[i].CommunicationEnabled
  /\ Becomes(i, CanNm_NetworkRelease(nm[i]).nm)
  /\ heard' = heard \ {i}
  /\ UNCHANGED <<may, woken, done, lost, calm>>

ControlCommunication(i, on) ==
  /\ "control" \in may /\ ~calm /\ MayControlCommunication(nm[i], on)
  /\ Becomes(i, CanNm_ControlCommunication(nm[i], on))
  /\ heard' = heard \ {i}
  /\ UNCHANGED <<may, woken, done, lost, calm>>

RepeatMessageRequest(i) ==
  /\ "repeat" \in may /\ ~calm /\ ~nm[i].passive
  /\ nm[i].State \in {"READY_SLEEP", "NORMAL_OPERATION"}
  /\ Becomes(i, CanNm_RepeatMessageRequest(nm[i]))
  /\ UNCHANGED <<may, woken, done, lost, heard, calm>>

Transmit(i) ==
  /\ "transmit" \in may /\ ~calm /\ ~nm[i].passive
  /\ Becomes(i, CanNm_Transmit(nm[i], bus[i] = "none"))
  /\ UNCHANGED <<may, woken, done, lost, heard, calm>>

Calm ==
  /\ ~calm /\ calm' = TRUE
  /\ \A i \in Node : nm[i].CommunicationEnabled
  /\ UNCHANGED <<nm, may, bus, woken, done, lost, heard>>

(***************************************************************************)
(* The bus                                                                 *)
(***************************************************************************)
Received(i, j) ==
  IF j = i THEN CanNm_TxConfirmation(nm[i]) ELSE CanNm_RxIndication(nm[j], bus[i] = "repeat")

Deliver(i) ==
  /\ bus[i] # "none"
  /\ nm' = [j \in Node |-> Quiet(Received(i, j))]
  /\ woken' = woken \cup {j \in Node : Received(i, j).ind = "NETWORK_START"}
  /\ bus' = [bus EXCEPT ![i] = "none"] /\ lost' = [lost EXCEPT ![i] = 0]
  /\ heard' = IF nm[i].Requested /\ nm[i].CommunicationEnabled THEN heard \cup {i} ELSE heard
  /\ UNCHANGED <<may, done, calm>>

Lose(i) ==
  /\ "lose" \in may /\ bus[i] # "none" /\ lost[i] < MaxLost
  /\ bus' = [bus EXCEPT ![i] = "none"] /\ lost' = [lost EXCEPT ![i] = @ + 1]
  /\ UNCHANGED <<nm, may, woken, done, heard, calm>>

Next ==
  \/ \E i \in Node : \/ MainFunction(i) \/ PassiveStartUp(i)
                     \/ NetworkRequest(i) \/ NetworkRelease(i)
                     \/ \E on \in BOOLEAN : ControlCommunication(i, on)
                     \/ RepeatMessageRequest(i) \/ Transmit(i)
                     \/ Deliver(i) \/ Lose(i)
  \/ Calm

\* Periods go by, frames reach the bus, and ComM answers a network start
RoundGoesOn == \E i \in Node : Turn(i)
BusGoesOn == \E i \in Node : bus[i] # "none" /\ bus' = [bus EXCEPT ![i] = "none"]
ComMGoesOn == \E i \in woken : woken' = woken \ {i}

Fairness == WF_done(RoundGoesOn) /\ WF_bus(BusGoesOn) /\ WF_woken(ComMGoesOn)

Spec == Init /\ [][Next]_vars /\ Fairness

(***************************************************************************)
(* Properties                                                              *)
(***************************************************************************)
\* The values of the timers, and of the count of immediate transmissions
TimeoutTimes == 0..(TimeoutTime + MainFunctionPeriod)
RepeatMessageTimes == 0..(RepeatMessageTime + MainFunctionPeriod)
WaitBusSleepTimes == 0..WaitBusSleepTime
MessageCycleTimes ==
  0..MessageCycleTime \cup 0..ImmediateNmCycleTime \cup 0..(MessageCycleOffsetTime + MainFunctionPeriod)
ImmediateCounts == 0..ImmediateNmTransmissions

NmType ==
  [passive : BOOLEAN, State : NmState, Requested : BOOLEAN, CommunicationEnabled : BOOLEAN,
   TimeoutTimeLeft : TimeoutTimes, RepeatMessageTimeLeft : RepeatMessageTimes,
   WaitBusSleepTimeLeft : WaitBusSleepTimes, MessageCycleTimeLeft : MessageCycleTimes,
   immediateModeActive : BOOLEAN, immediateNmTransmissionsSent : ImmediateCounts,
   spontaneous : BOOLEAN, repeatMessageBit : BOOLEAN, ind : Indication, sent : BOOLEAN]

\* Every variable holds a value of its type: the timers stay within the times they are
\* loaded with, and the count of immediate transmissions within its number.
TypeOK ==
  /\ nm \in [Node -> NmType] /\ bus \in [Node -> {"none", "plain", "repeat"}]
  /\ woken \subseteq Node /\ done \subseteq Node /\ heard \subseteq Node
  /\ lost \in [Node -> 0..MaxLost] /\ calm \in BOOLEAN

\* A node that has requested the network (CanNm_NetworkRequest) and not released it is in
\* network mode: no time-out, message or diagnostic request lets it go to sleep.
RequestedOK == \A i \in Node : nm[i].Requested => NetworkMode(nm[i])

\* No node gives the network up (ReadySleep_to_PrepareBusSleep) while another, which was
\* heard since it requested the network, still requests it: whatever the phases of the
\* main functions, and with MaxLost frames of it lost in a row, its messages renew the
\* time-out of the others in time.
KeptAwake ==
  [][\A j \in Node : nm[j].State = "READY_SLEEP" /\ nm'[j].State = "PREPARE_BUS_SLEEP" =>
       ~\E i \in heard : nm[i].Requested /\ nm'[i].Requested]_vars

\* Once requests stay as they are and one node requests the network, all nodes come to be
\* in network mode and stay so: those asleep are woken by its messages.
AwakeWhenRequested ==
  (calm /\ \E i \in Node : nm[i].Requested) ~> [](\A j \in Node : NetworkMode(nm[j]))

\* Once requests stay as they are and no node requests the network, all nodes go to sleep
\* and stay asleep: the last messages of one do not wake another for ever.
AsleepWhenReleased ==
  (calm /\ \A i \in Node : ~nm[i].Requested) ~> [](\A j \in Node : nm[j].State = "BUS_SLEEP")
=============================================================================
