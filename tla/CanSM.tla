------------------------------- MODULE CanSM -------------------------------
(***************************************************************************)
(* The CAN state manager (CanSM.c, CanSM_Internal.c) of one network, with  *)
(* the part of the CAN interface it drives (CanIf.c).                      *)
(*                                                                         *)
(* The C functions are operators on the record s that holds the network's  *)
(* state.  Those that ask a driver for something have several outcomes, as *)
(* the driver may refuse, answer at once or answer later: they yield the   *)
(* set of these outcomes.  The CAN controllers and their driver are not    *)
(* part of the repository and are modelled from the way CanIf uses them: a *)
(* controller makes for the mode last asked of it, and says when it is     *)
(* there.  A transceiver does the same, except for the one whose driver    *)
(* the repository has (CanTrcv.c).                                         *)
(***************************************************************************)
EXTENDS Integers

CONSTANTS
  Controller,                       \* the controllers of the network
  CanSMModeRequestRepetitionMax, CanSMModeRequestRepetitionTime,
  CanSMBorCounterL1ToL2, CanSMBorTimeL1, CanSMBorTimeL2, CanSMBorTimeTxEnsured

ASSUME TimesAssumption ==
  CanSMBorCounterL1ToL2 \in Nat /\ CanSMBorTimeL1 \in Nat /\ CanSMBorTimeL2 \in Nat

\* Trcv is what the network's transceiver is: "none", "plain" or "pn", without or with partial
\* networking (CanTrcvAvailable, CanSMTrcvPNEnabled), or "CanTrcv", with it and driven by CanTrcv.c
CanSMTrcvPNEnabled(s) == s.Trcv \in {"pn", "CanTrcv"}

AtMost(n, max) == IF n > max THEN max ELSE n
AtLeast(n, min) == IF n < min THEN min ELSE n

\* An action a transition asks for: a mode of the controllers or of the transceiver,
\* or something about the transceiver's wake-up flag
CC(mode) == <<"CC_MODE", mode>>
TRCV(mode) == <<"TRCV_MODE", mode>>
WUF(op) == <<"WUF", op>>
NO_MODE == <<"NO_MODE", "NO_MODE">>

TransitionConfig ==
  [CC_STOPPED_CC_SLEEP                      |-> <<CC("STOPPED"), CC("SLEEP")>>,
   CC_SLEEP_TRCV_NORMAL                     |-> <<CC("SLEEP"), TRCV("NORMAL")>>,
   TRCV_NORMAL_TRCV_STANDBY                 |-> <<TRCV("NORMAL"), TRCV("STANDBY")>>,
   TRCV_STANDBY_NONE                        |-> <<TRCV("STANDBY"), NO_MODE>>,
   TRCV_NORMAL_CC_STOPPED                   |-> <<TRCV("NORMAL"), CC("STOPPED")>>,
   PN_CLEAR_WUF_CC_STOPPED                  |-> <<WUF("clear"), CC("STOPPED")>>,
   CC_STOPPED_TRCV_NORMAL                   |-> <<CC("STOPPED"), TRCV("NORMAL")>>,
   TRCV_STANDBY_CC_SLEEP                    |-> <<TRCV("STANDBY"), CC("SLEEP")>>,
   CC_SLEEP_CHECK_WUF_IN_CC_SLEEP           |-> <<CC("SLEEP"), WUF("check")>>,
   CHECK_WUF_IN_CC_SLEEP_NONE               |-> <<WUF("check"), NO_MODE>>,
   CHECK_WUF_IN_NOT_CC_SLEEP_PN_CLEAR_WUF   |-> <<WUF("check"), WUF("clear")>>,
   CC_SLEEP_NONE                            |-> <<CC("SLEEP"), NO_MODE>>,
   CC_STOPPED_CC_STARTED                    |-> <<CC("STOPPED"), CC("STARTED")>>,
   CC_STARTED_NONE                          |-> <<CC("STARTED"), NO_MODE>>]

\* The substates on the way to no communication, each with its transition and the
\* substate that follows; "EXIT" leaves them
PreNoCom(kind) ==
  CASE kind = "none" ->
         [CC_STOPPED |-> <<"CC_STOPPED_CC_SLEEP", "CC_SLEEP">>,
          CC_SLEEP   |-> <<"CC_SLEEP_NONE", "EXIT">>]
    [] kind = "plain" ->
         [CC_STOPPED   |-> <<"CC_STOPPED_CC_SLEEP", "CC_SLEEP">>,
          CC_SLEEP     |-> <<"CC_SLEEP_TRCV_NORMAL", "TRCV_NORMAL">>,
          TRCV_NORMAL  |-> <<"TRCV_NORMAL_TRCV_STANDBY", "TRCV_STANDBY">>,
          TRCV_STANDBY |-> <<"TRCV_STANDBY_NONE", "EXIT">>]
    [] kind \in {"pn", "CanTrcv"} ->
         [PN_CLEAR_WUF          |-> <<"PN_CLEAR_WUF_CC_STOPPED", "CC_STOPPED">>,
          CC_STOPPED            |-> <<"CC_STOPPED_TRCV_NORMAL", "TRCV_NORMAL">>,
          TRCV_NORMAL           |-> <<"TRCV_NORMAL_TRCV_STANDBY", "TRCV_STANDBY">>,
          TRCV_STANDBY          |-> <<"TRCV_STANDBY_CC_SLEEP", "CC_SLEEP">>,
          CC_SLEEP              |-> <<"CC_SLEEP_CHECK_WUF_IN_CC_SLEEP", "CHECK_WUF_IN_CC_SLEEP">>,
          CHECK_WUF_IN_CC_SLEEP |-> <<"CHECK_WUF_IN_CC_SLEEP_NONE", "EXIT">>,
          CHECK_WUF_IN_NOT_CC_SLEEP |->
            <<"CHECK_WUF_IN_NOT_CC_SLEEP_PN_CLEAR_WUF", "PN_CLEAR_WUF">>]

\* The substates on the way to full communication
PreFullCom ==
  [TRCV_NORMAL |-> <<"TRCV_NORMAL_CC_STOPPED", "CC_STOPPED">>,
   CC_STOPPED  |-> <<"CC_STOPPED_CC_STARTED", "CC_STARTED">>,
   CC_STARTED  |-> <<"CC_STARTED_NONE", "EXIT">>]

\* CanSM_Init; CanIf_Init leaves the controllers stopped and the PDUs offline
CanSM_Init(kind) ==
  [Trcv |-> kind, faulty |-> TRUE,
   BsmState |-> "NOT_INITIALIZED", sub |-> "NONE",
   requestedMode |-> "NO", currentMode |-> "NO", initialNoComRun |-> FALSE,
   RepeatCounter |-> 0, requestAccepted |-> FALSE, subStateTimer |-> 0,
   busoffCounter |-> 0, busoffevent |-> FALSE, busoffTime |-> 0,
   ctrl |-> [c \in Controller |->
              [hasPending |-> FALSE, pendingMode |-> "UNINIT", indMode |-> "UNINIT"]],
   trcv |-> [hasPending |-> FALSE, pendingMode |-> "NORMAL", wuf |-> {}],
   PduMode |-> "OFFLINE",
   mode |-> [c \in Controller |-> "STOPPED"],    \* of the controller, in its driver
   target |-> [c \in Controller |-> "UNINIT"],   \* what it makes for, or UNINIT
   trcvTodo |-> {},                              \* what the transceiver has yet to do
   missed |-> {},                                \* went bus-off, and CanSM made nothing of it
   indicated |-> "none"]                         \* to ComM, in this call

(***************************************************************************)
(* Requests to the drivers and their answers                               *)
(***************************************************************************)
CanSM_ControllerModeIndication(s, c, mode) ==
  [s EXCEPT !.ctrl[c].hasPending = @ /\ s.ctrl[c].pendingMode # mode,
            !.ctrl[c].indMode = mode]

CanSM_TransceiverModeIndication(s, mode) ==
  [s EXCEPT !.trcv.hasPending = @ /\ s.trcv.pendingMode # mode]

\* CanSM_ClearTrcvWufFlagIndication, CanSM_CheckTransceiverWakeFlagIndication
TrcvWufIndication(s, op) == [s EXCEPT !.trcv.wuf = @ \ {op}]

TrcvIndication(s, a) ==
  IF a[1] = "TRCV_MODE" THEN CanSM_TransceiverModeIndication(s, a[2])
                        ELSE TrcvWufIndication(s, a[2])

\* The driver takes a controller from started to asleep and back by way of stopped
ValidTransition(from, to) == {from, to} # {"STARTED", "SLEEP"}

Reached(s, c, mode) ==
  CanSM_ControllerModeIndication(
    [s EXCEPT !.mode[c] = mode, !.target[c] = "UNINIT",
              !.missed = IF mode = "STARTED" THEN @ \ {c} ELSE @], c, mode)

\* CanIf_SetControllerMode once CanSM expects the indication: refused, or accepted
\* and carried out later or at once
CanIf_SetControllerMode(s, c, mode) ==
  LET valid == ValidTransition(s.mode[c], mode)
  IN (IF s.faulty \/ ~valid
        THEN {<<FALSE, [s EXCEPT !.ctrl[c].hasPending = FALSE]>>} ELSE {})
     \cup (IF valid THEN {<<TRUE, [s EXCEPT !.target[c] = mode]>>, <<TRUE, Reached(s, c, mode)>>}
                    ELSE {})

\* The loop's body for one controller, which is not asked when it has already indicated
\* the mode
SetControllerMode(s, c, mode) ==
  LET t == [s EXCEPT !.ctrl[c].pendingMode = mode]
  IN IF t.ctrl[c].indMode = mode THEN {<<TRUE, t>>}
     ELSE CanIf_SetControllerMode([t EXCEPT !.ctrl[c].hasPending = TRUE], c, mode)

\* The loop goes on after a refusal and its body touches one controller only, so that the
\* outcomes for the controllers, r, are independent
CanSM_Internal_SetNetworkControllerMode(s, mode) ==
  LET Outcome == UNION {SetControllerMode(s, c, mode) : c \in Controller}
  IN {<<\A c \in Controller : r[c][1],
        [s EXCEPT !.ctrl   = [c \in Controller |-> r[c][2].ctrl[c]],
                  !.mode   = [c \in Controller |-> r[c][2].mode[c]],
                  !.target = [c \in Controller |-> r[c][2].target[c]],
                  !.missed = {c \in Controller : c \in r[c][2].missed}]>>
      : r \in {r \in [Controller -> Outcome] :
                 \A c \in Controller : r[c] \in SetControllerMode(s, c, mode)}}

\* Whether the indication of a transceiver's action is awaited
TrcvExpects(s, a, on) ==
  CASE a[1] = "TRCV_MODE" -> [s EXCEPT !.trcv.hasPending = on, !.trcv.pendingMode = a[2]]
    [] a[1] = "WUF" -> [s EXCEPT !.trcv.wuf = IF on THEN @ \cup {a[2]} ELSE @ \ {a[2]}]

\* CanIf_SetTrcvMode, CanIf_CheckTrcvWakeFlag, CanIf_ClearTrcvWufFlag, accepted.
\* CanTrcv.c does it at once and indicates a cleared flag, and one it finds set,
\* before it returns; it never indicates a mode
CanIf_Trcv(s, a) ==
  IF s.Trcv # "CanTrcv"
    THEN {[s EXCEPT !.trcvTodo = {b \in @ : b[1] # a[1] \/ a[1] = "WUF"} \cup {a}]}
    ELSE {s} \cup (IF a = WUF("check") THEN {TrcvWufIndication(s, "check")} ELSE {})

\* CanSM_Internal_SetNetworkTransceiverMode awaits the indication before it asks,
\* CanSM_Internal_CheckWuf and CanSM_Internal_ClearWuf after they have asked
TrcvRequest(s, a) ==
  (IF s.faulty THEN {<<FALSE, TrcvExpects(s, a, FALSE)>>} ELSE {})
  \cup (IF a[1] = "WUF" THEN {<<TRUE, TrcvExpects(t, a, TRUE)>> : t \in CanIf_Trcv(s, a)}
                        ELSE {<<TRUE, t>> : t \in CanIf_Trcv(TrcvExpects(s, a, TRUE), a)})

modeRequestAction(s, a) ==
  IF a[1] = "CC_MODE" THEN CanSM_Internal_SetNetworkControllerMode(s, a[2])
                      ELSE TrcvRequest(s, a)

\* Slip: one controller's indication passes for that of all
modeReadRequest_Slip(s, a) ==
  CASE a[1] = "CC_MODE" ->
         \E c \in Controller : ~s.ctrl[c].hasPending
                               /\ s.ctrl[c].indMode = s.ctrl[c].pendingMode
    [] a[1] = "TRCV_MODE" -> ~s.trcv.hasPending
    [] a[1] = "WUF" -> a[2] \notin s.trcv.wuf

modeReadRequest(s, a) ==
  CASE a[1] = "CC_MODE" ->
         \A c \in Controller : ~s.ctrl[c].hasPending
                               /\ s.ctrl[c].indMode = s.ctrl[c].pendingMode
    [] a[1] = "TRCV_MODE" -> ~s.trcv.hasPending
    [] a[1] = "WUF" -> a[2] \notin s.trcv.wuf

(***************************************************************************)
(* One step of a transition: asks for the first mode, waits for its        *)
(* indication, asks again when it takes too long, and once it has come     *)
(* asks for the second mode                                                *)
(***************************************************************************)
CanSM_Internal_Execute(s, t) ==
  LET first  == TransitionConfig[t][1]
      second == TransitionConfig[t][2]
      Again(u) == [u EXCEPT !.RepeatCounter = @ + 1]
      GiveUp(u) == [u EXCEPT !.RepeatCounter = 0]
      TooMany(u) == u.RepeatCounter > CanSMModeRequestRepetitionMax
      Accept(u) == [u EXCEPT !.requestAccepted = TRUE]
  IN CASE ~s.requestAccepted ->
            {IF r[1] THEN <<"REQ_ACCEPTED", Accept(r[2])>>
             ELSE IF TooMany(r[2]) THEN <<"REPEAT_MAX", GiveUp(r[2])>>
             ELSE <<"FAIL", r[2]>>
             : r \in modeRequestAction(Again(s), first)}
       [] s.requestAccepted /\ modeReadRequest(s, first) ->
            LET u == [s EXCEPT !.requestAccepted = FALSE, !.RepeatCounter = 0]
            IN IF second = NO_MODE THEN {<<"DONE", u>>}
               ELSE {IF r[1] THEN <<"DONE", Accept(Again(r[2]))>>
                     ELSE IF TooMany(Again(r[2])) THEN <<"REPEAT_MAX", r[2]>>
                     ELSE <<"DONE", Again(r[2])>>
                     : r \in modeRequestAction(u, second)}
       [] s.requestAccepted /\ ~modeReadRequest(s, first)
          /\ s.subStateTimer >= CanSMModeRequestRepetitionTime ->
            LET u == [s EXCEPT !.requestAccepted = FALSE]
            IN IF CanSMTrcvPNEnabled(s) /\ first = CC("SLEEP") THEN {<<"TIMEOUT", u>>}
               ELSE IF TooMany(u) THEN {<<"REPEAT_MAX", GiveUp(u)>>}
               ELSE {IF r[1] THEN <<"REQ_ACCEPTED", Accept(r[2])>>
                     ELSE IF TooMany(r[2]) THEN <<"REPEAT_MAX", GiveUp(r[2])>>
                     ELSE <<"WAIT_INDICATION", r[2]>>
                     : r \in modeRequestAction(Again(u), first)}
       [] OTHER -> {<<"WAIT_INDICATION", s>>}

(***************************************************************************)
(* The states of the network                                               *)
(***************************************************************************)
\* Slip: the indications of earlier requests are kept
ResetControllerIndications_Slip(s) == s

ResetControllerIndications(s) ==
  [s EXCEPT !.ctrl = [c \in Controller |-> [@[c] EXCEPT !.indMode = "UNINIT"]]]

ResetPendingIndications(s) ==
  [s EXCEPT !.ctrl = [c \in Controller |-> [@[c] EXCEPT !.hasPending = FALSE]],
            !.trcv.hasPending = FALSE]

\* CanSM_Internal_EnterState; the three substate variables are one, since each is
\* set when its state is entered
EnterState(s, state) ==
  LET t == [s EXCEPT !.RepeatCounter = 0, !.subStateTimer = 0, !.BsmState = state, !.sub = "NONE"]
  IN CASE state = "PRE_NOCOM" ->
            ResetControllerIndications(
              [t EXCEPT !.sub = IF CanSMTrcvPNEnabled(s) THEN "PN_CLEAR_WUF" ELSE "CC_STOPPED"])
       [] state = "NOCOM" -> [t EXCEPT !.initialNoComRun = TRUE]
       [] state = "PRE_FULLCOM" ->
            ResetControllerIndications(
              [t EXCEPT !.sub = IF s.Trcv # "none" THEN "TRCV_NORMAL" ELSE "CC_STOPPED"])
       [] state = "FULLCOM" -> [t EXCEPT !.sub = "BUSOFF_CHECK"]
       [] state = "SILENTCOM" -> t

\* CanSM_Internal_ComM_BusSM_ModeIndication
IndicateToComM(s, mode) == [s EXCEPT !.currentMode = mode, !.indicated = mode]

\* CanIf_SetPduMode, the same on every controller: switching transmission off leaves
\* reception as it was
SetNetworkPduMode(s, request) ==
  [s EXCEPT !.PduMode = CASE request = "ONLINE" -> "ONLINE"
                          [] request = "OFFLINE" -> "OFFLINE"
                          [] request = "TX_OFFLINE" -> IF @ = "ONLINE" THEN "RX_ONLINE" ELSE @]

\* CanSm_Internal_BSM_S_PRE_NOCOM and CanSm_Internal_BSM_S_PRE_FULLCOM: a step in the
\* current substate; the pairs are the exit taken, if any, and the state left
BSM_S_PRE(s, steps) ==
  LET step == steps[s.sub]
  IN {LET ret == r[1]
          t == [r[2] EXCEPT !.subStateTimer = (IF ret = "WAIT_INDICATION" THEN @ ELSE 0) + 1]
      IN CASE ret = "REPEAT_MAX" -> <<"REP_MAX", ResetPendingIndications(t)>>
           [] ret = "DONE" /\ step[2] = "EXIT" -> <<"EXIT", t>>
           [] ret = "DONE" /\ step[2] # "EXIT" -> <<"NONE", [t EXCEPT !.sub = step[2]]>>
           [] ret = "TIMEOUT" -> <<"NONE", [t EXCEPT !.sub = "CHECK_WUF_IN_NOT_CC_SLEEP"]>>
           [] OTHER -> <<"NONE", t>>
      : r \in CanSM_Internal_Execute(s, step[1])}

BSM_S_PRE_NOCOM(s) == BSM_S_PRE(s, PreNoCom(s.Trcv))
BSM_S_PRE_FULLCOM(s) == BSM_S_PRE(s, PreFullCom)

\* A bus-off met while communicating: the controllers are restarted
BusOffMet(s) ==
  LET t == SetNetworkPduMode(
             IndicateToComM(
               ResetControllerIndications(
                 [s EXCEPT !.busoffTime = 0, !.busoffevent = FALSE,
                           !.busoffCounter = AtMost(@ + 1, CanSMBorCounterL1ToL2)]),
               "SILENT"), "OFFLINE")
  IN {LET u == [r[2] EXCEPT !.subStateTimer = 0]
      IN IF r[1] = "REPEAT_MAX" THEN <<"PRENOCOMM", ResetPendingIndications(u)>>
                                ELSE <<"NONE", [u EXCEPT !.sub = "RESTART_CC"]>>
      : r \in CanSM_Internal_Execute(t, "CC_STARTED_NONE")}

BUSOFF_CHECK(s) ==
  LET t == [s EXCEPT !.subStateTimer = @ + 1]
  IN IF s.busoffevent THEN BusOffMet(t)
     ELSE IF t.subStateTimer >= CanSMBorTimeTxEnsured
       THEN {<<"NONE", [t EXCEPT !.busoffCounter = 0, !.sub = "NO_BUSOFF"]>>}
       ELSE {<<"NONE", t>>}

\* Slips: a request for no communication is not looked at; it skips silent communication
NO_BUSOFF_Slip(s) ==
  IF s.busoffevent THEN BusOffMet(s)
  ELSE {<<IF s.requestedMode = "SILENT" THEN "SILENTCOMM" ELSE "NONE", s>>}

NO_BUSOFF_Skip(s) ==
  IF s.busoffevent THEN BusOffMet(s)
  ELSE {<<CASE s.requestedMode = "SILENT" -> "SILENTCOMM"
            [] s.requestedMode = "NO" -> "PRENOCOMM"
            [] OTHER -> "NONE", s>>}

NO_BUSOFF(s) ==
  IF s.busoffevent THEN BusOffMet(s)
  ELSE {<<IF s.requestedMode \in {"SILENT", "NO"} THEN "SILENTCOMM" ELSE "NONE", s>>}

RESTART_CC(s) ==
  {LET ret == r[1]
       t == [r[2] EXCEPT !.subStateTimer = 0]
   IN CASE ret = "DONE" -> <<"NONE", SetNetworkPduMode([t EXCEPT !.sub = "TX_OFF"], "TX_OFFLINE")>>
        [] ret \in {"FAIL", "REQ_ACCEPTED"} -> <<"NONE", t>>
        [] ret = "REPEAT_MAX" ->
             <<"PRENOCOMM", ResetPendingIndications([t EXCEPT !.busoffevent = FALSE])>>
        [] OTHER -> <<"NONE", r[2]>>
   : r \in CanSM_Internal_Execute([s EXCEPT !.subStateTimer = @ + 1], "CC_STARTED_NONE")}

\* Slip: the recovery is over and transmission stays off
TX_OFF_Slip(s) ==
  LET level2 == s.busoffCounter >= CanSMBorCounterL1ToL2
      over == s.busoffTime >= (IF level2 THEN CanSMBorTimeL2 ELSE CanSMBorTimeL1)
  IN IF over
       THEN {<<"NONE", IndicateToComM([s EXCEPT !.sub = "BUSOFF_CHECK", !.subStateTimer = 0], "FULL")>>}
       ELSE {<<"NONE", [s EXCEPT !.subStateTimer = @ + 1]>>}

TX_OFF(s) ==
  LET level2 == s.busoffCounter >= CanSMBorCounterL1ToL2
      over == s.busoffTime >= (IF level2 THEN CanSMBorTimeL2 ELSE CanSMBorTimeL1)
  IN IF over
       THEN {<<"NONE", IndicateToComM(SetNetworkPduMode(
                 [s EXCEPT !.sub = "BUSOFF_CHECK", !.subStateTimer = 0], "ONLINE"), "FULL")>>}
       ELSE {<<"NONE", [s EXCEPT !.subStateTimer = @ + 1]>>}

\* The bus-off clock stops where both recovery times are over
BSM_S_FULLCOM(s) ==
  {<<r[1], [r[2] EXCEPT !.busoffTime = AtMost(@ + 1, AtLeast(CanSMBorTimeL1, CanSMBorTimeL2))]>>
   : r \in CASE s.sub = "BUSOFF_CHECK" -> BUSOFF_CHECK(s)
             [] s.sub = "NO_BUSOFF" -> NO_BUSOFF(s)
             [] s.sub = "RESTART_CC" -> RESTART_CC(s)
             [] s.sub = "TX_OFF" -> TX_OFF(s)}

\* PRE_NOCOM entered because a mode was asked for too often; its first step does not
\* leave it
Restart_PRE_NOCOM(s) == {r[2] : r \in BSM_S_PRE_NOCOM(EnterState(s, "PRE_NOCOM"))}

EnterFullCom(s) ==
  IndicateToComM(SetNetworkPduMode(EnterState(s, "FULLCOM"), "ONLINE"), "FULL")

\* Slip: transmission is not switched off
EnterSilentCom_Slip(s) ==
  IndicateToComM(SetNetworkPduMode(EnterState(s, "SILENTCOM"), "ONLINE"), "SILENT")

EnterSilentCom(s) ==
  IndicateToComM(SetNetworkPduMode(SetNetworkPduMode(
    EnterState(s, "SILENTCOM"), "ONLINE"), "TX_OFFLINE"), "SILENT")

\* CanSM_MainFunction; the set of the states it may leave
CanSM_MainFunction(s) ==
  LET PreNoComStep(t) ==
        UNION {CASE r[1] = "EXIT" -> {IndicateToComM(EnterState(r[2], "NOCOM"), "NO")}
                 [] r[1] = "REP_MAX" -> Restart_PRE_NOCOM(r[2])
                 [] r[1] = "NONE" -> {r[2]}
               : r \in BSM_S_PRE_NOCOM(t)}
      PreFullComStep(t) ==
        UNION {CASE r[1] = "EXIT" -> {EnterFullCom(r[2])}
                 [] r[1] = "REP_MAX" -> Restart_PRE_NOCOM(r[2])
                 [] r[1] = "NONE" -> {r[2]}
               : r \in BSM_S_PRE_FULLCOM(t)}
      FullComStep(t) ==
        UNION {CASE r[1] = "PRENOCOMM" -> Restart_PRE_NOCOM(r[2])
                 [] r[1] = "SILENTCOMM" -> {EnterSilentCom(r[2])}
                 [] r[1] = "NONE" -> {r[2]}
               : r \in BSM_S_FULLCOM(t)}
  IN CASE s.BsmState = "NOT_INITIALIZED" \/ (s.BsmState = "SILENTCOM" /\ s.requestedMode = "NO") ->
            PreNoComStep(EnterState(s, "PRE_NOCOM"))
       [] s.BsmState = "PRE_NOCOM" -> PreNoComStep(s)
       [] s.BsmState = "SILENTCOM" /\ s.requestedMode = "FULL" -> {EnterFullCom(s)}
       [] s.BsmState = "NOCOM" /\ s.requestedMode = "FULL" ->
            PreFullComStep(EnterState(s, "PRE_FULLCOM"))
       [] s.BsmState = "PRE_FULLCOM" -> PreFullComStep(s)
       [] s.BsmState = "FULLCOM" -> FullComStep(s)
       [] OTHER -> {s}

(***************************************************************************)
(* The services and callbacks                                              *)
(***************************************************************************)
\* The CAN interface stops a controller that goes bus-off and tells CanSM
CanIf_ControllerBusOff(s, c) ==
  LET t == [s EXCEPT !.mode[c] = "STOPPED", !.target[c] = "UNINIT"]
  IN IF s.BsmState = "FULLCOM" THEN [t EXCEPT !.busoffevent = TRUE]
                               ELSE [t EXCEPT !.missed = @ \cup {c}]

\* What the drivers have accepted to do and not done yet, the states in which they have
\* done one thing of it, and those in which they have failed to
Answered(s) == s.trcvTodo = {} /\ \A c \in Controller : s.target[c] = "UNINIT"

Answers(s) ==
  {Reached(s, c, s.target[c]) : c \in {c \in Controller : s.target[c] # "UNINIT"}}
  \cup {TrcvIndication([s EXCEPT !.trcvTodo = @ \ {a}], a) : a \in s.trcvTodo}

Failures(s) ==
  {[s EXCEPT !.target[c] = "UNINIT"] : c \in {c \in Controller : s.target[c] # "UNINIT"}}
  \cup {[s EXCEPT !.trcvTodo = @ \ {a}] : a \in s.trcvTodo}

CanSM_RequestComMode(s, mode) ==
  LET reject ==
        \/ s.BsmState = "NOT_INITIALIZED"
        \/ \E c \in Controller : s.ctrl[c].hasPending
        \/ s.Trcv # "none" /\ s.trcv.hasPending
        \/ mode = "SILENT" /\ (s.currentMode = "NO" \/ s.BsmState = "PRE_NOCOM")
        \/ s.BsmState = "FULLCOM" /\ s.sub \notin {"BUSOFF_CHECK", "NO_BUSOFF"}
        \/ s.busoffevent
  IN [ok |-> ~reject, sm |-> IF reject THEN s ELSE [s EXCEPT !.requestedMode = mode]]

CanSM_GetCurrentComMode(s) ==
  [ok |-> s.initialNoComRun, mode |-> s.currentMode]

\* A frame is handed to the controllers when they are started and may transmit
CanIf_Transmits(s) == s.PduMode = "ONLINE" /\ \A c \in Controller : s.mode[c] = "STARTED"
=============================================================================
