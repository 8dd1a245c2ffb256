---------------------------- MODULE CanSMNetwork ----------------------------
(***************************************************************************)
(* A CAN network under the CAN state manager alone: its user may ask for   *)
(* any mode at any time, controllers may go bus-off, and the drivers may   *)
(* refuse, be slow, or fail to do what they accepted to do.                *)
(***************************************************************************)
EXTENDS CanSM

CONSTANTS Kinds,       \* of transceiver
          MayBusOff,   \* the kinds with which controllers go bus-off
          Modes        \* that are asked for

\* The transceivers that differ to CanSM, and ComM_ModeType
ASSUME KindsAssumption == Kinds \subseteq {"none", "plain", "pn", "CanTrcv"}
ASSUME ModesAssumption == Modes \subseteq {"NO", "SILENT", "FULL"}

VARIABLES sm,
          ran          \* toggles as CanSM_MainFunction runs, once the drivers are sound

smVars == <<sm, ran>>

SMInit == (\E k \in Kinds : sm = CanSM_Init(k)) /\ ran = FALSE

SMBecomes(s) == sm' = [s EXCEPT !.indicated = "none"]

\* Once the drivers are sound they answer within a period of the main function
CanSM_Main ==
  /\ sm.faulty \/ Answered(sm)
  /\ ran' = (ran # ~sm.faulty)
  /\ \E s \in CanSM_MainFunction(sm) : SMBecomes(s)

Request(mode) ==
  sm.faulty /\ UNCHANGED ran /\ SMBecomes(CanSM_RequestComMode(sm, mode).sm)

DriverAnswers == UNCHANGED ran /\ \E s \in Answers(sm) : SMBecomes(s)

DriverFails == sm.faulty /\ UNCHANGED ran /\ \E s \in Failures(sm) : SMBecomes(s)

BusOff(c) ==
  /\ sm.faulty /\ sm.Trcv \in MayBusOff /\ sm.mode[c] = "STARTED"
  /\ UNCHANGED ran /\ SMBecomes(CanIf_ControllerBusOff(sm, c))

\* From here on the drivers are sound, the bus is well and the request stays as it is
SMCalm == sm.faulty /\ UNCHANGED ran /\ SMBecomes([sm EXCEPT !.faulty = FALSE])

SMNext ==
  \/ CanSM_Main
  \/ \E mode \in Modes : Request(mode)
  \/ DriverAnswers \/ DriverFails
  \/ \E c \in Controller : BusOff(c)
  \/ SMCalm

\* The main function is called again and again, and so the drivers' work gets done
Runs == ~sm.faulty /\ Answered(sm) /\ ran' = ~ran

SMFairness == WF_ran(Runs) /\ WF_sm(DriverAnswers)

SMSpec == SMInit /\ [][SMNext]_smVars /\ SMFairness

(***************************************************************************)
(* Properties                                                              *)
(***************************************************************************)
\* The network transmits only in full communication and not during the recovery from a
\* bus-off: whatever way the network leaves full communication (BSM_S_FULLCOM), its PDUs
\* have been switched off.
OnlineOK ==
  sm.PduMode = "ONLINE" => sm.BsmState = "FULLCOM" /\ sm.sub \in {"BUSOFF_CHECK", "NO_BUSOFF"}

\* In the state "no communication" every controller is asleep: CanSM does not take the
\* indication of one controller, or one of an earlier request, for that of all.
AsleepOK ==
  sm.BsmState = "NOCOM" => \A c \in Controller : sm.mode[c] = "SLEEP"

\* In full communication, unless they are being restarted after a bus-off, all controllers
\* are started; one that went bus-off while CanSM was in another state, which
\* CanSM_ControllerBusOff disregards, may be stopped.
StartedOK ==
  sm.BsmState = "FULLCOM" /\ sm.sub # "RESTART_CC" /\ ~sm.busoffevent =>
    \A c \in Controller : sm.mode[c] = "STARTED" \/ c \in sm.missed

\* The mode CanSM indicates to ComM never jumps: it goes from full communication to none
\* by way of the silent one, and silent communication is not entered from none, also when
\* drivers refuse and the network is restarted.
ModeSteps ==
  [][sm.currentMode = sm'.currentMode
     \/ <<sm.currentMode, sm'.currentMode>> \in
          {<<"NO", "FULL">>, <<"FULL", "SILENT">>, <<"SILENT", "FULL">>, <<"SILENT", "NO">>}]_smVars

\* From here on nothing fails.  CanTrcv.c is left out: it indicates the cleared wake-up flag before
\* CanSM_Internal_ClearWuf notes that it awaits the indication, and no mode at all, so that CanSM
\* never leaves the substate PN_CLEAR_WUF.
Sound == ~sm.faulty /\ sm.Trcv # "CanTrcv"

\* Once the drivers are sound and the bus is well, a network last asked for no
\* communication gets there and stays there, from wherever refusals, time-outs and
\* bus-offs had left it (BSM_S_PRE_NOCOM, CanSM_Internal_Execute).
GoesToSleep == (Sound /\ sm.requestedMode = "NO") ~> [](sm.BsmState = "NOCOM")

\* Likewise a network last asked for full communication gets there, transmits and goes on
\* (BSM_S_PRE_FULLCOM, BSM_S_FULLCOM).
ComesUp ==
  (Sound /\ sm.requestedMode = "FULL") ~> [](sm.BsmState = "FULLCOM" /\ sm.PduMode = "ONLINE")
=============================================================================
