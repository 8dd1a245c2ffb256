---------------------------- MODULE CanSMLemmas ----------------------------
(***************************************************************************)
(* What the functions of the CAN state manager preserve, for every network *)
(* of controllers, every transceiver and every setting of the repetitions  *)
(* and times: one lemma for each function of CanSM.                        *)
(***************************************************************************)
EXTENDS CanSM, TLAPS

Kind == {"none", "plain", "pn", "CanTrcv"}
ControllerMode == {"UNINIT", "STOPPED", "SLEEP", "STARTED"}
Substate ==
  {"NONE", "PN_CLEAR_WUF", "CC_STOPPED", "TRCV_NORMAL", "TRCV_STANDBY", "CC_SLEEP",
   "CHECK_WUF_IN_CC_SLEEP", "CHECK_WUF_IN_NOT_CC_SLEEP", "CC_STARTED",
   "BUSOFF_CHECK", "NO_BUSOFF", "RESTART_CC", "TX_OFF"}
ComMode == {"NO", "SILENT", "FULL"}

ControllerModeBuf ==
  [hasPending : BOOLEAN, pendingMode : ControllerMode, indMode : ControllerMode]

SMRecord ==
  [Trcv : Kind, faulty : BOOLEAN,
   BsmState : {"NOT_INITIALIZED", "PRE_NOCOM", "NOCOM", "PRE_FULLCOM", "FULLCOM", "SILENTCOM"},
   sub : Substate, requestedMode : ComMode, currentMode : ComMode, initialNoComRun : BOOLEAN,
   RepeatCounter : Nat, requestAccepted : BOOLEAN, subStateTimer : Nat,
   busoffCounter : Nat, busoffevent : BOOLEAN, busoffTime : Nat,
   ctrl : [Controller -> ControllerModeBuf],
   trcv : [hasPending : BOOLEAN, pendingMode : {"NORMAL", "STANDBY"},
           wuf : SUBSET {"clear", "check"}],
   PduMode : {"OFFLINE", "RX_ONLINE", "ONLINE"},
   mode : [Controller -> ControllerMode], target : [Controller -> ControllerMode],
   trcvTodo : SUBSET {TRCV("NORMAL"), TRCV("STANDBY"), WUF("clear"), WUF("check")},
   missed : SUBSET Controller, indicated : ComMode \cup {"none"}]

\* What CanSM takes a controller for is what it is, unless it went bus-off since, and a
\* controller that makes for a mode has not indicated it
Truth(s, c) ==
  /\ s.target[c] # "UNINIT" => s.target[c] # s.ctrl[c].indMode
  /\ s.ctrl[c].indMode \in {"STOPPED", "SLEEP"} => s.mode[c] = s.ctrl[c].indMode
  /\ s.ctrl[c].indMode = "STARTED" =>
       s.mode[c] = "STARTED" \/ c \in s.missed \/ s.busoffevent

\* All controllers make for one of the modes T, or for none
Makes(s, T) == \A c \in Controller : s.target[c] \in T \cup {"UNINIT"}

\* All controllers have indicated the mode and make for no other
AllIn(s, mode) ==
  \A c \in Controller : s.ctrl[c].indMode = mode /\ s.target[c] = "UNINIT"

\* The mode a substate waits for, if it is one of the controllers
Awaits(sub) ==
  CASE sub = "CC_STOPPED" -> "STOPPED"
    [] sub = "CC_SLEEP" -> "SLEEP"
    [] sub \in {"CC_STARTED", "RESTART_CC"} -> "STARTED"
    [] OTHER -> "UNINIT"

\* The substates of PRE_NOCOM after the controllers have all been stopped, and after
\* they have all gone to sleep
PastStopped(kind, sub) ==
  IF kind \in {"pn", "CanTrcv"} THEN sub \in {"TRCV_NORMAL", "TRCV_STANDBY", "CC_SLEEP"}
                                ELSE sub = "CC_SLEEP"
PastSleep(kind, sub) ==
  IF kind \in {"pn", "CanTrcv"} THEN sub = "CHECK_WUF_IN_CC_SLEEP"
                                ELSE sub \in {"TRCV_NORMAL", "TRCV_STANDBY"}

\* An accepted request of the controllers is the one the substate awaits
AcceptedOK(s) ==
  s.requestAccepted /\ Awaits(s.sub) # "UNINIT" =>
    \A c \in Controller : s.ctrl[c].pendingMode = Awaits(s.sub)

\* What holds of the controllers, the PDUs and the mode indicated to ComM in each state
PreNoComOK(s) ==
  /\ s.currentMode # "FULL" /\ s.PduMode # "ONLINE"
  /\ s.sub \in DOMAIN PreNoCom(s.Trcv)
  /\ \A c \in Controller : s.ctrl[c].indMode # "UNINIT" => s.target[c] # "STARTED"
  /\ PastStopped(s.Trcv, s.sub) => Makes(s, {"SLEEP"})
  /\ PastSleep(s.Trcv, s.sub) => AllIn(s, "SLEEP")

PreFullComOK(s) ==
  /\ s.currentMode = "NO" /\ s.PduMode # "ONLINE"
  /\ s.sub \in DOMAIN PreFullCom
  /\ Makes(s, {Awaits(s.sub)})

FullComOK(s) ==
  /\ s.sub \in {"BUSOFF_CHECK", "NO_BUSOFF", "RESTART_CC", "TX_OFF"}
  /\ IF s.sub \in {"BUSOFF_CHECK", "NO_BUSOFF"} THEN s.currentMode = "FULL"
     ELSE s.currentMode = "SILENT" /\ s.PduMode # "ONLINE"
  /\ IF s.sub = "RESTART_CC" THEN Makes(s, {"STARTED"})
     ELSE AllIn(s, "STARTED") /\ ~s.requestAccepted

\* A state in which nothing is transmitted and no request is under way
Resting(s, mode) == s.currentMode = mode /\ s.PduMode # "ONLINE" /\ ~s.requestAccepted

PhaseOK(s) ==
  CASE s.BsmState = "NOT_INITIALIZED" -> Resting(s, "NO")
    [] s.BsmState = "PRE_NOCOM" -> PreNoComOK(s)
    [] s.BsmState = "NOCOM" -> Resting(s, "NO") /\ AllIn(s, "SLEEP")
    [] s.BsmState = "PRE_FULLCOM" -> PreFullComOK(s)
    [] s.BsmState = "FULLCOM" -> FullComOK(s)
    [] s.BsmState = "SILENTCOM" -> Resting(s, "SILENT") /\ AllIn(s, "STARTED")

SMOK(s) ==
  /\ s \in SMRecord
  /\ \A c \in Controller : Truth(s, c)
  /\ PhaseOK(s) /\ AcceptedOK(s)
-----------------------------------------------------------------------------
(* Requests to the drivers                                                   *)

Asked == {"STOPPED", "SLEEP", "STARTED"}
Action ==
  {CC("STOPPED"), CC("SLEEP"), CC("STARTED"), TRCV("NORMAL"), TRCV("STANDBY"),
   WUF("clear"), WUF("check")}

\* t is what is left of s when controller c has been asked for the mode
AskedOne(s, t, c, mode) ==
  /\ t.ctrl[c] \in ControllerModeBuf /\ t.mode[c] \in ControllerMode
  /\ t.target[c] \in {"UNINIT", mode, s.target[c]}
  /\ t.ctrl[c].pendingMode = mode
  /\ t.ctrl[c].indMode = s.ctrl[c].indMode
     \/ (t.ctrl[c].indMode = mode /\ t.target[c] = "UNINIT")
  /\ t.busoffevent = s.busoffevent /\ Truth(t, c)

\* The fields that no transition changes, and those that no request to a driver changes
Base(s, t) ==
  /\ t.Trcv = s.Trcv /\ t.faulty = s.faulty /\ t.BsmState = s.BsmState /\ t.sub = s.sub
  /\ t.requestedMode = s.requestedMode /\ t.currentMode = s.currentMode
  /\ t.initialNoComRun = s.initialNoComRun /\ t.subStateTimer = s.subStateTimer
  /\ t.busoffCounter = s.busoffCounter /\ t.busoffevent = s.busoffevent
  /\ t.busoffTime = s.busoffTime /\ t.PduMode = s.PduMode /\ t.indicated = s.indicated
Kept(s, t) ==
  Base(s, t) /\ t.RepeatCounter = s.RepeatCounter /\ t.requestAccepted = s.requestAccepted

\* What a request for action a does to the controllers, and no request
Drivers(s, t, a) ==
  IF a[1] = "CC_MODE" THEN \A c \in Controller : AskedOne(s, t, c, a[2])
  ELSE t.ctrl = s.ctrl /\ t.mode = s.mode /\ t.target = s.target /\ t.missed = s.missed
Idle(s, t) == Drivers(s, t, NO_MODE)

\* t is what is left of s when action a has been requested
AskedFor(s, t, a) ==
  t \in SMRecord /\ Kept(s, t) /\ (\A c \in Controller : Truth(t, c)) /\ Drivers(s, t, a)

\* An update of what CanSM notes about the controllers changes nothing else.
LEMMA CtrlUpdate ==
  ASSUME NEW s \in SMRecord, NEW f \in [Controller -> ControllerModeBuf]
  PROVE  LET t == [s EXCEPT !.ctrl = f] IN
         /\ t \in SMRecord /\ Kept(s, t) /\ t.ctrl = f
         /\ t.mode = s.mode /\ t.target = s.target /\ t.missed = s.missed
         /\ t.trcv = s.trcv /\ t.trcvTodo = s.trcvTodo
<1>. DEFINE t == [s EXCEPT !.ctrl = f]
<1>1. t \in SMRecord
  BY DEF SMRecord
<1>2. /\ Kept(s, t) /\ t.ctrl = f
      /\ t.mode = s.mode /\ t.target = s.target /\ t.missed = s.missed
      /\ t.trcv = s.trcv /\ t.trcvTodo = s.trcvTodo
  BY DEF SMRecord, Kept, Base
<1>. QED BY <1>1, <1>2

\* A controller that says it is in the mode it makes for leaves CanSM with the truth
\* about it (CanSM_ControllerModeIndication).
LEMMA ReachedType ==
  ASSUME NEW s \in SMRecord, NEW c \in Controller, NEW mode \in Asked
  PROVE  LET t == Reached(s, c, mode) IN
         /\ t \in SMRecord /\ Kept(s, t)
         /\ t.ctrl[c].pendingMode = s.ctrl[c].pendingMode /\ t.ctrl[c].indMode = mode
         /\ t.mode[c] = mode /\ t.target[c] = "UNINIT"
         /\ s.missed \ {c} \subseteq t.missed
         /\ \A d \in Controller \ {c} : t.ctrl[d] = s.ctrl[d] /\ t.mode[d] = s.mode[d]
                                        /\ t.target[d] = s.target[d]
<1>. DEFINE u == [s EXCEPT !.mode[c] = mode, !.target[c] = "UNINIT",
                          !.missed = IF mode = "STARTED" THEN @ \ {c} ELSE @]
            b == u.ctrl[c].hasPending /\ u.ctrl[c].pendingMode # mode
            f == [u.ctrl EXCEPT ![c].hasPending = b, ![c].indMode = mode]
            t == [u EXCEPT !.ctrl = f]
<1>1. u \in SMRecord
  BY Zenon DEF SMRecord, Asked, ControllerMode
<1>2. /\ Kept(s, u) /\ u.ctrl = s.ctrl /\ u.mode = [s.mode EXCEPT ![c] = mode]
      /\ u.target = [s.target EXCEPT ![c] = "UNINIT"]
      /\ s.missed \ {c} \subseteq u.missed
  BY DEF SMRecord, Kept, Base
<1>3. s.mode \in [Controller -> ControllerMode] /\ s.target \in [Controller -> ControllerMode]
      /\ s.ctrl \in [Controller -> ControllerModeBuf]
  BY DEF SMRecord
<1>4. Reached(s, c, mode) = t
  <2>1. Reached(s, c, mode) = CanSM_ControllerModeIndication(u, c, mode)
    BY DEF Reached
  <2>. HIDE DEF u
  <2>. QED BY <1>1, <2>1, Zenon DEF CanSM_ControllerModeIndication, SMRecord
<1>. HIDE DEF u
<1>5. /\ f \in [Controller -> ControllerModeBuf]
      /\ f[c].pendingMode = s.ctrl[c].pendingMode /\ f[c].indMode = mode
      /\ \A d \in Controller \ {c} : f[d] = s.ctrl[d]
  <2>1. u.ctrl \in [Controller -> ControllerModeBuf] /\ mode \in ControllerMode
    BY <1>2, <1>3 DEF Asked, ControllerMode
  <2>2. b \in BOOLEAN
    OBVIOUS
  <2>. HIDE DEF b
  <2>. QED BY <1>2, <2>1, <2>2 DEF ControllerModeBuf
<1>. HIDE DEF f
<1>6. /\ t \in SMRecord /\ Kept(u, t) /\ t.ctrl = f
      /\ t.mode = u.mode /\ t.target = u.target /\ t.missed = u.missed
  BY <1>1, <1>5, CtrlUpdate
<1>. HIDE DEF t
<1>. QED BY <1>2, <1>3, <1>4, <1>5, <1>6 DEF Kept, Base

\* Asking one controller (the body of CanSM_Internal_SetNetworkControllerMode): whether
\* it refuses, accepts or is there at once, CanSM keeps the truth about it.
LEMMA SetControllerModeAsks ==
  ASSUME NEW s \in SMRecord, NEW c \in Controller, NEW mode \in Asked, Truth(s, c),
         NEW r \in SetControllerMode(s, c, mode)
  PROVE  r[1] \in BOOLEAN /\ AskedOne(s, r[2], c, mode)
<1>. DEFINE f == [s.ctrl EXCEPT ![c].pendingMode = mode]
            g == [f EXCEPT ![c].hasPending = TRUE]
            p == [s EXCEPT !.ctrl = f]
            h == [p EXCEPT !.ctrl = g]
<1>1. s.ctrl \in [Controller -> ControllerModeBuf] /\ s.mode \in [Controller -> ControllerMode]
      /\ s.target \in [Controller -> ControllerMode]
  BY DEF SMRecord
<1>2. /\ f \in [Controller -> ControllerModeBuf]
      /\ f[c].pendingMode = mode /\ f[c].indMode = s.ctrl[c].indMode
  BY <1>1 DEF ControllerModeBuf, Asked, ControllerMode
<1>3. /\ g \in [Controller -> ControllerModeBuf]
      /\ g[c].pendingMode = mode /\ g[c].indMode = s.ctrl[c].indMode
  BY <1>2, Zenon DEF ControllerModeBuf
<1>4. SetControllerMode(s, c, mode) =
        IF p.ctrl[c].indMode = mode THEN {<<TRUE, p>>} ELSE CanIf_SetControllerMode(h, c, mode)
  BY DEF SetControllerMode, SMRecord
<1>. HIDE DEF f, g
<1>5. /\ p \in SMRecord /\ Kept(s, p) /\ p.ctrl = f
      /\ p.mode = s.mode /\ p.target = s.target /\ p.missed = s.missed
  BY <1>2, CtrlUpdate
<1>. HIDE DEF p
<1>6. /\ h \in SMRecord /\ Kept(p, h) /\ h.ctrl = g
      /\ h.mode = p.mode /\ h.target = p.target /\ h.missed = p.missed
  BY <1>3, <1>5, CtrlUpdate
<1>. HIDE DEF h
<1>7. CASE p.ctrl[c].indMode = mode
  <2>1. r = <<TRUE, p>>
    BY <1>4, <1>7, Zenon
  <2>. QED BY <1>1, <1>2, <1>5, <2>1 DEF AskedOne, Truth, Kept, Base
<1>8. CASE p.ctrl[c].indMode # mode
  <2>0. Truth(h, c) /\ s.ctrl[c].indMode # mode /\ h.busoffevent = s.busoffevent
        /\ h.ctrl[c].indMode = s.ctrl[c].indMode /\ h.ctrl[c].pendingMode = mode
        /\ h.target[c] = s.target[c]
    BY <1>1, <1>2, <1>3, <1>5, <1>6, <1>8 DEF Truth, Kept, Base
  <2>1. \/ r = <<FALSE, [h EXCEPT !.ctrl[c].hasPending = FALSE]>>
        \/ r = <<TRUE, [h EXCEPT !.target[c] = mode]>>
        \/ r = <<TRUE, Reached(h, c, mode)>>
    BY <1>4, <1>8, Zenon DEF CanIf_SetControllerMode
  <2>2. CASE r = <<FALSE, [h EXCEPT !.ctrl[c].hasPending = FALSE]>>
    <3>. DEFINE k == [h.ctrl EXCEPT ![c].hasPending = FALSE]
                w == [h EXCEPT !.ctrl = k]
    <3>1. r = <<FALSE, w>>
      BY <1>6, <2>2 DEF SMRecord
    <3>2. k \in [Controller -> ControllerModeBuf]
          /\ k[c].pendingMode = mode /\ k[c].indMode = h.ctrl[c].indMode
      BY <1>3, <1>6, <2>0, Zenon DEF ControllerModeBuf
    <3>. HIDE DEF k
    <3>3. /\ w \in SMRecord /\ Kept(h, w) /\ w.ctrl = k
          /\ w.mode = h.mode /\ w.target = h.target /\ w.missed = h.missed
      BY <1>6, <3>2, CtrlUpdate
    <3>. HIDE DEF w
    <3>. QED BY <1>1, <1>5, <1>6, <2>0, <3>1, <3>2, <3>3 DEF AskedOne, Truth, Kept, Base
  <2>3. CASE r = <<TRUE, [h EXCEPT !.target[c] = mode]>>
    <3>. DEFINE w == [h EXCEPT !.target[c] = mode]
    <3>1. /\ w.ctrl = h.ctrl /\ w.mode = h.mode /\ w.target = [h.target EXCEPT ![c] = mode]
          /\ w.missed = h.missed /\ w.busoffevent = h.busoffevent
      BY <1>6 DEF SMRecord
    <3>. HIDE DEF w
    <3>2. w.target[c] = mode /\ w.ctrl[c] \in ControllerModeBuf /\ w.mode[c] \in ControllerMode
      BY <1>1, <1>3, <1>5, <1>6, <3>1
    <3>3. Truth(w, c)
      BY <2>0, <3>1, <3>2 DEF Truth
    <3>. QED BY <2>0, <2>3, <3>1, <3>2, <3>3, Zenon DEF AskedOne, w
  <2>4. CASE r = <<TRUE, Reached(h, c, mode)>>
    <3>. DEFINE w == Reached(h, c, mode)
    <3>1. /\ w \in SMRecord /\ Kept(h, w)
          /\ w.ctrl[c].pendingMode = mode /\ w.ctrl[c].indMode = mode
          /\ w.mode[c] = mode /\ w.target[c] = "UNINIT"
      BY <1>6, <2>0, ReachedType
    <3>2. w.ctrl[c] \in ControllerModeBuf /\ w.mode[c] \in ControllerMode
      BY <3>1 DEF SMRecord
    <3>. HIDE DEF w
    <3>. QED BY <2>0, <2>4, <3>1, <3>2 DEF AskedOne, Truth, w, Kept, Base
  <2>. QED BY <2>1, <2>2, <2>3, <2>4, Zenon
<1>. QED BY <1>7, <1>8

\* Asking all controllers for a mode.
LEMMA SetNetworkControllerModeAsks ==
  ASSUME NEW s \in SMRecord, NEW mode \in Asked, \A c \in Controller : Truth(s, c),
         NEW r \in CanSM_Internal_SetNetworkControllerMode(s, mode)
  PROVE  r[1] \in BOOLEAN /\ AskedFor(s, r[2], CC(mode))
<1>1. PICK o : /\ \A c \in Controller : o[c] \in SetControllerMode(s, c, mode)
               /\ r = <<\A c \in Controller : o[c][1],
                        [s EXCEPT !.ctrl   = [c \in Controller |-> o[c][2].ctrl[c]],
                                  !.mode   = [c \in Controller |-> o[c][2].mode[c]],
                                  !.target = [c \in Controller |-> o[c][2].target[c]],
                                  !.missed = {c \in Controller : c \in o[c][2].missed}]>>
  BY Zenon DEF CanSM_Internal_SetNetworkControllerMode
<1>2. \A c \in Controller : AskedOne(s, o[c][2], c, mode)
  BY <1>1, SetControllerModeAsks, Zenon
<1>. DEFINE f == [c \in Controller |-> o[c][2].ctrl[c]]
            m == [c \in Controller |-> o[c][2].mode[c]]
            g == [c \in Controller |-> o[c][2].target[c]]
            l == {c \in Controller : c \in o[c][2].missed}
            t == [s EXCEPT !.ctrl = f, !.mode = m, !.target = g, !.missed = l]
<1>3. r[1] \in BOOLEAN /\ r[2] = t
  BY <1>1
<1>4. /\ f \in [Controller -> ControllerModeBuf] /\ m \in [Controller -> ControllerMode]
      /\ g \in [Controller -> ControllerMode] /\ l \subseteq Controller
  <2>1. \A c \in Controller : s.target[c] \in ControllerMode
    BY Zenon DEF SMRecord
  <2>. QED BY <1>2, <2>1 DEF AskedOne, Asked, ControllerMode
<1>5. \A c \in Controller : /\ f[c] = o[c][2].ctrl[c] /\ m[c] = o[c][2].mode[c]
                            /\ g[c] = o[c][2].target[c] /\ (c \in l <=> c \in o[c][2].missed)
  BY Zenon
<1>. HIDE DEF f, m, g, l
<1>6. t \in SMRecord
  BY <1>4, Zenon DEF SMRecord
<1>7. Kept(s, t) /\ t.ctrl = f /\ t.mode = m /\ t.target = g /\ t.missed = l
  BY DEF SMRecord, Kept, Base
<1>. HIDE DEF t
<1>8. ASSUME NEW c \in Controller
      PROVE  AskedOne(s, t, c, mode) /\ Truth(t, c)
  BY <1>2, <1>5, <1>7 DEF AskedOne, Truth, Kept, Base
<1>. QED BY <1>3, <1>6, <1>7, <1>8 DEF AskedFor, Drivers, CC

\* Asking the transceiver leaves the controllers alone.
LEMMA TrcvRequestAsks ==
  ASSUME NEW s \in SMRecord, NEW a \in Action, a[1] # "CC_MODE",
         \A c \in Controller : Truth(s, c), NEW r \in TrcvRequest(s, a)
  PROVE  r[1] \in BOOLEAN /\ AskedFor(s, r[2], a)
<1>. DEFINE Trcvs == [hasPending : BOOLEAN, pendingMode : {"NORMAL", "STANDBY"},
                      wuf : SUBSET {"clear", "check"}]
            Todo == SUBSET {TRCV("NORMAL"), TRCV("STANDBY"), WUF("clear"), WUF("check")}
            Only(u, t) == /\ t \in SMRecord /\ Kept(u, t) /\ t.ctrl = u.ctrl /\ t.mode = u.mode
                          /\ t.target = u.target /\ t.missed = u.missed
<1>1. a \in {TRCV("NORMAL"), TRCV("STANDBY"), WUF("clear"), WUF("check")}
      /\ a[1] \in {"TRCV_MODE", "WUF"} /\ (a[1] = "TRCV_MODE" => a[2] \in {"NORMAL", "STANDBY"})
      /\ (a[1] = "WUF" => a[2] \in {"clear", "check"})
  BY DEF Action, CC, TRCV, WUF
<1>2. ASSUME NEW u \in SMRecord, NEW k \in Trcvs
      PROVE  Only(u, [u EXCEPT !.trcv = k])
  BY <1>2 DEF SMRecord, Kept, Base
<1>3. ASSUME NEW u \in SMRecord, NEW k \in Todo
      PROVE  Only(u, [u EXCEPT !.trcvTodo = k])
  BY <1>3 DEF SMRecord, Kept, Base
<1>4. ASSUME NEW u \in SMRecord
      PROVE  u.trcv \in Trcvs /\ u.trcvTodo \in Todo
  BY <1>4 DEF SMRecord
<1>5. ASSUME NEW u \in SMRecord, NEW on \in BOOLEAN
      PROVE  Only(u, TrcvExpects(u, a, on))
  <2>1. CASE a[1] = "TRCV_MODE"
    <3>. DEFINE k == [u.trcv EXCEPT !.hasPending = on, !.pendingMode = a[2]]
    <3>1. TrcvExpects(u, a, on) = [u EXCEPT !.trcv = k]
      BY <2>1, <1>5, Zenon DEF TrcvExpects, SMRecord
    <3>2. k \in Trcvs
      BY <1>1, <1>4, <2>1, <1>5, Zenon
    <3>. HIDE DEF k, Only, Trcvs
    <3>. QED BY <1>2, <3>1, <3>2
  <2>2. CASE a[1] = "WUF"
    <3>. DEFINE k == [u.trcv EXCEPT !.wuf = IF on THEN @ \cup {a[2]} ELSE @ \ {a[2]}]
    <3>1. TrcvExpects(u, a, on) = [u EXCEPT !.trcv = k]
      BY <2>2, <1>5 DEF TrcvExpects, SMRecord
    <3>2. k \in Trcvs
      BY <1>1, <1>4, <2>2, <1>5
    <3>. HIDE DEF k, Only, Trcvs
    <3>. QED BY <1>2, <3>1, <3>2
  <2>. QED BY <1>1, <2>1, <2>2
<1>6. ASSUME NEW u \in SMRecord, NEW t \in CanIf_Trcv(u, a)
      PROVE  Only(u, t)
  <2>1. CASE u.Trcv # "CanTrcv"
    <3>. DEFINE k == {b \in u.trcvTodo : b[1] # a[1] \/ a[1] = "WUF"} \cup {a}
    <3>1. t = [u EXCEPT !.trcvTodo = k]
      BY <2>1 DEF CanIf_Trcv
    <3>2. k \in Todo
      BY <1>1, <1>4
    <3>. HIDE DEF k, Only, Todo
    <3>. QED BY <1>3, <3>1, <3>2
  <2>2. CASE u.Trcv = "CanTrcv"
    <3>. DEFINE k == [u.trcv EXCEPT !.wuf = @ \ {"check"}]
    <3>1. t = u \/ t = [u EXCEPT !.trcv = k]
      BY <2>2, <1>6 DEF CanIf_Trcv, TrcvWufIndication, SMRecord
    <3>2. k \in Trcvs
      BY <1>4
    <3>3. Only(u, u)
      BY DEF Kept, Base
    <3>. HIDE DEF k, Only, Trcvs
    <3>. QED BY <1>2, <3>1, <3>2, <3>3
  <2>. QED BY <2>1, <2>2
<1>7. r[1] \in BOOLEAN /\ Only(s, r[2])
  <2>1. CASE r = <<FALSE, TrcvExpects(s, a, FALSE)>>
    <3>. HIDE DEF Only
    <3>. QED BY <1>5, <2>1, Zenon
  <2>2. CASE \E t \in CanIf_Trcv(s, a) : r = <<TRUE, TrcvExpects(t, a, TRUE)>>
    <3>1. PICK t \in CanIf_Trcv(s, a) : r = <<TRUE, TrcvExpects(t, a, TRUE)>>
      BY <2>2, Zenon
    <3>2. Only(s, t)
      BY <1>6
    <3>3. Only(t, TrcvExpects(t, a, TRUE))
      BY <1>5, <3>2, Zenon
    <3>. QED BY <3>1, <3>2, <3>3, Zenon DEF Kept, Base
  <2>3. CASE \E t \in CanIf_Trcv(TrcvExpects(s, a, TRUE), a) : r = <<TRUE, t>>
    <3>1. PICK t \in CanIf_Trcv(TrcvExpects(s, a, TRUE), a) : r = <<TRUE, t>>
      BY <2>3, Zenon
    <3>2. Only(s, TrcvExpects(s, a, TRUE))
      BY <1>5, Zenon
    <3>3. Only(TrcvExpects(s, a, TRUE), t)
      BY <1>6, <3>2, Zenon
    <3>. QED BY <3>1, <3>2, <3>3, Zenon DEF Kept, Base
  <2>. QED BY <2>1, <2>2, <2>3, Zenon DEF TrcvRequest
<1>. HIDE DEF Trcvs, Todo
<1>. QED BY <1>7 DEF AskedFor, Drivers, Truth, Kept, Base

\* A request to the drivers, CanSM_Internal_Execute's modeRequestAction.
LEMMA RequestAsks ==
  ASSUME NEW s \in SMRecord, NEW a \in Action, \A c \in Controller : Truth(s, c),
         NEW r \in modeRequestAction(s, a)
  PROVE  r[1] \in BOOLEAN /\ AskedFor(s, r[2], a)
<1>1. CASE a[1] = "CC_MODE"
  <2>1. a[2] \in Asked /\ a = CC(a[2])
    BY <1>1 DEF Action, CC, TRCV, WUF, Asked
  <2>. QED BY <1>1, <2>1, SetNetworkControllerModeAsks DEF modeRequestAction
<1>2. CASE a[1] # "CC_MODE"
  BY <1>2, TrcvRequestAsks DEF modeRequestAction
<1>. QED BY <1>1, <1>2

-----------------------------------------------------------------------------
(* CanSM_Internal_Execute                                                    *)

\* What a step of a transition with these two actions leaves of s: t, with the result ret
Executed(s, ret, t, first, second) ==
  /\ t \in SMRecord /\ Base(s, t) /\ \A c \in Controller : Truth(t, c)
  /\ ret \in {"REQ_ACCEPTED", "REPEAT_MAX", "FAIL", "DONE", "TIMEOUT", "WAIT_INDICATION"}
  /\ ~s.requestAccepted =>
       ret \in {"REQ_ACCEPTED", "REPEAT_MAX", "FAIL"} /\ Drivers(s, t, first)
  /\ ret \in {"REQ_ACCEPTED", "FAIL", "WAIT_INDICATION"} =>
       \/ Drivers(s, t, first)
       \/ Idle(s, t) /\ t.requestAccepted = s.requestAccepted
  /\ ret = "DONE" =>
       /\ s.requestAccepted /\ modeReadRequest(s, first) /\ Drivers(s, t, second)
       /\ second = NO_MODE => ~t.requestAccepted
  /\ ret = "TIMEOUT" =>
       /\ Idle(s, t) /\ ~t.requestAccepted
       /\ CanSMTrcvPNEnabled(s) /\ first = CC("SLEEP")
  /\ ret = "REPEAT_MAX" => ~t.requestAccepted

\* An update of the counter of repetitions and of the note that a request is accepted.
LEMMA CountUpdate ==
  ASSUME NEW s \in SMRecord, NEW n \in Nat, NEW b \in BOOLEAN,
         NEW t \in {[s EXCEPT !.RepeatCounter = n], [s EXCEPT !.requestAccepted = b],
                    [s EXCEPT !.requestAccepted = b, !.RepeatCounter = n]}
  PROVE  /\ t \in SMRecord /\ Base(s, t) /\ Idle(s, t)
         /\ \/ t.requestAccepted = b
            \/ t.requestAccepted = s.requestAccepted /\ t = [s EXCEPT !.RepeatCounter = n]
         /\ (\A c \in Controller : Truth(s, c)) => \A c \in Controller : Truth(t, c)
<1>1. CASE t = [s EXCEPT !.RepeatCounter = n]
  BY <1>1 DEF SMRecord, Base, Idle, Drivers, NO_MODE, Truth
<1>2. CASE t = [s EXCEPT !.requestAccepted = b]
  BY <1>2 DEF SMRecord, Base, Idle, Drivers, NO_MODE, Truth
<1>3. CASE t = [s EXCEPT !.requestAccepted = b, !.RepeatCounter = n]
  BY <1>3, Zenon DEF SMRecord, Base, Idle, Drivers, NO_MODE, Truth
<1>. QED BY <1>1, <1>2, <1>3

\* Updates of these two before and after a request do not matter to it.
LEMMA DriversIdle ==
  ASSUME NEW s \in SMRecord, NEW t \in SMRecord, NEW u \in SMRecord, NEW v \in SMRecord,
         NEW a, Base(s, t) /\ Idle(s, t), Base(t, u) /\ Drivers(t, u, a),
         Base(u, v) /\ Idle(u, v)
  PROVE  Base(s, v) /\ Drivers(s, v, a)
<1>1. Base(s, v)
  BY DEF Base
<1>2. Drivers(s, v, a)
  BY DEF Base, Idle, Drivers, NO_MODE, AskedOne, Truth
<1>. QED BY <1>1, <1>2

\* Updates that follow one another ask for nothing.
LEMMA IdleTrans ==
  ASSUME NEW s, NEW t, NEW u, Base(s, t) /\ Idle(s, t), Base(t, u) /\ Idle(t, u)
  PROVE  Base(s, u) /\ Idle(s, u)
<1>1. Base(s, u)
  BY Zenon DEF Base
<1>2. NO_MODE[1] # "CC_MODE"
  BY DEF NO_MODE
<1>3. Idle(s, u)
  BY <1>2, Zenon DEF Idle, Drivers
<1>. QED BY <1>1, <1>3, Zenon

\* A request made after updates of the two, followed by more of them.
LEMMA RequestBetween ==
  ASSUME NEW s \in SMRecord, NEW t \in SMRecord, NEW a \in Action,
         \A c \in Controller : Truth(t, c), Base(s, t) /\ Idle(s, t),
         NEW r \in modeRequestAction(t, a), NEW v \in SMRecord,
         Base(r[2], v) /\ Idle(r[2], v),
         (\A c \in Controller : Truth(r[2], c)) => \A c \in Controller : Truth(v, c)
  PROVE  Base(s, v) /\ Drivers(s, v, a) /\ \A c \in Controller : Truth(v, c)
<1>1. AskedFor(t, r[2], a)
  BY RequestAsks
<1>2. /\ r[2] \in SMRecord /\ Base(t, r[2]) /\ Drivers(t, r[2], a)
      /\ \A c \in Controller : Truth(r[2], c)
  BY <1>1 DEF AskedFor, Kept
<1>. QED BY <1>2, DriversIdle

\* A step of a transition (CanSM_Internal_Execute): it is over only when the indication of
\* its first action has come.
LEMMA ExecuteSound ==
  ASSUME NEW s \in SMRecord, \A c \in Controller : Truth(s, c),
         NEW tr, TransitionConfig[tr][1] \in Action,
         TransitionConfig[tr][2] \in Action \cup {NO_MODE},
         NEW r \in CanSM_Internal_Execute(s, tr)
  PROVE  Executed(s, r[1], r[2], TransitionConfig[tr][1], TransitionConfig[tr][2])
<1>. DEFINE first == TransitionConfig[tr][1]
            second == TransitionConfig[tr][2]
            Again(u) == [u EXCEPT !.RepeatCounter = @ + 1]
            GiveUp(u) == [u EXCEPT !.RepeatCounter = 0]
            TooMany(u) == u.RepeatCounter > CanSMModeRequestRepetitionMax
            Accept(u) == [u EXCEPT !.requestAccepted = TRUE]
            Truths(u) == \A c \in Controller : Truth(u, c)
            Same(u, v) == /\ v \in SMRecord /\ Base(u, v) /\ Idle(u, v)
                          /\ Truths(u) => Truths(v)
<1>1. ASSUME NEW u \in SMRecord
      PROVE  /\ Same(u, Again(u)) /\ Again(u).requestAccepted = u.requestAccepted
             /\ Same(u, GiveUp(u)) /\ GiveUp(u).requestAccepted = u.requestAccepted
             /\ Same(u, Accept(u)) /\ Same(u, u)
             /\ Again(u) \in SMRecord
  <2>1. u.RepeatCounter + 1 \in Nat /\ 0 \in Nat
    BY <1>1 DEF SMRecord
  <2>2. Same(u, Again(u)) /\ Same(u, GiveUp(u)) /\ Same(u, Accept(u))
    BY <1>1, <2>1, CountUpdate, Zenon
  <2>3. Again(u).requestAccepted = u.requestAccepted /\ GiveUp(u).requestAccepted = u.requestAccepted
    BY <1>1 DEF SMRecord
  <2>4. Same(u, u)
    BY <1>1 DEF Base, Idle, Drivers, NO_MODE
  <2>. QED BY <2>2, <2>3, <2>4, Zenon
<1>2. s.requestAccepted \in BOOLEAN
  BY DEF SMRecord
<1>3. ASSUME NEW t \in SMRecord, NEW a \in Action, Truths(t), NEW q \in modeRequestAction(t, a)
      PROVE  q[1] \in BOOLEAN /\ q[2] \in SMRecord /\ q[2].requestAccepted = t.requestAccepted
             /\ Truths(q[2])
  BY <1>3, RequestAsks DEF AskedFor, Kept
<1>4. CASE ~s.requestAccepted
  <2>. DEFINE t == Again(s)
  <2>1. PICK q \in modeRequestAction(t, first) :
          r = IF q[1] THEN <<"REQ_ACCEPTED", Accept(q[2])>>
              ELSE IF TooMany(q[2]) THEN <<"REPEAT_MAX", GiveUp(q[2])>>
              ELSE <<"FAIL", q[2]>>
    BY <1>4 DEF CanSM_Internal_Execute
  <2>2. t \in SMRecord /\ Same(s, t) /\ t.requestAccepted = s.requestAccepted
    BY <1>1, Zenon
  <2>. HIDE DEF t
  <2>3. /\ q[1] \in BOOLEAN /\ q[2] \in SMRecord /\ q[2].requestAccepted = s.requestAccepted
        /\ Truths(q[2])
    BY <1>3, <2>2
  <2>4. /\ r[2] \in {Accept(q[2]), GiveUp(q[2]), q[2]}
        /\ r[1] \in {"REQ_ACCEPTED", "REPEAT_MAX", "FAIL"}
        /\ r[1] = "REPEAT_MAX" => r[2] = GiveUp(q[2])
    BY <2>1
  <2>5. Same(q[2], r[2]) /\ (r[1] = "REPEAT_MAX" => ~r[2].requestAccepted)
    <3>. HIDE DEF Accept, GiveUp, Same
    <3>. QED BY <1>1, <1>4, <2>3, <2>4, Zenon
  <2>. HIDE DEF Accept, GiveUp, TooMany, Again
  <2>6. Base(s, r[2]) /\ Drivers(s, r[2], first) /\ Truths(r[2])
    BY <2>2, <2>5, RequestBetween
  <2>. QED BY <1>4, <2>4, <2>5, <2>6 DEF Executed
<1>5. CASE s.requestAccepted /\ modeReadRequest(s, first)
  <2>. DEFINE u == [s EXCEPT !.requestAccepted = FALSE, !.RepeatCounter = 0]
  <2>1. Same(s, u) /\ ~u.requestAccepted
    <3>1. Same(s, u)
      BY CountUpdate, Zenon
    <3>. QED BY <3>1 DEF SMRecord
  <2>2. CASE second = NO_MODE
    <3>1. r = <<"DONE", u>>
      BY <1>5, <2>2 DEF CanSM_Internal_Execute
    <3>. HIDE DEF u
    <3>. QED BY <1>5, <2>1, <2>2, <3>1 DEF Executed, Idle
  <2>3. CASE second # NO_MODE
    <3>1. PICK q \in modeRequestAction(u, second) :
            r = IF q[1] THEN <<"DONE", Accept(Again(q[2]))>>
                ELSE IF TooMany(Again(q[2])) THEN <<"REPEAT_MAX", q[2]>>
                ELSE <<"DONE", Again(q[2])>>
      BY <1>5, <2>3, Zenon DEF CanSM_Internal_Execute
    <3>. HIDE DEF u
    <3>2. second \in Action
      BY <2>3
    <3>3. /\ q[1] \in BOOLEAN /\ q[2] \in SMRecord /\ ~q[2].requestAccepted /\ Truths(q[2])
      BY <1>3, <2>1, <3>2
    <3>4. /\ r[2] \in {Accept(Again(q[2])), Again(q[2]), q[2]}
          /\ r[1] \in {"DONE", "REPEAT_MAX"} /\ (r[1] = "REPEAT_MAX" => r[2] = q[2])
      BY <3>1
    <3>5. Same(q[2], Again(q[2])) /\ Same(Again(q[2]), Accept(Again(q[2]))) /\ Same(q[2], q[2])
      <4>. HIDE DEF Accept, GiveUp, Same, Again
      <4>. QED BY <1>1, <3>3
    <3>. HIDE DEF Accept, GiveUp, TooMany, Again
    <3>6. Same(q[2], Accept(Again(q[2])))
      BY <3>5, IdleTrans, Zenon
    <3>7. Same(q[2], r[2])
      BY <3>4, <3>5, <3>6, Zenon
    <3>8. Base(s, r[2]) /\ Drivers(s, r[2], second) /\ Truths(r[2])
      BY <2>1, <3>2, <3>7, RequestBetween
    <3>. QED BY <1>5, <2>3, <3>3, <3>4, <3>7, <3>8, Zenon DEF Executed
  <2>. QED BY <2>2, <2>3
<1>6. CASE /\ s.requestAccepted /\ ~modeReadRequest(s, first)
           /\ s.subStateTimer >= CanSMModeRequestRepetitionTime
  <2>. DEFINE u == [s EXCEPT !.requestAccepted = FALSE]
              t == Again(u)
  <2>1. Same(s, u) /\ ~u.requestAccepted
    <3>1. Same(s, u)
      BY CountUpdate, 0 \in Nat, Zenon
    <3>. QED BY <3>1, Zenon DEF SMRecord
  <2>2. CASE CanSMTrcvPNEnabled(s) /\ first = CC("SLEEP")
    <3>1. r = <<"TIMEOUT", u>>
      BY <1>6, <2>2 DEF CanSM_Internal_Execute
    <3>. HIDE DEF u
    <3>. QED BY <1>6, <2>1, <2>2, <3>1 DEF Executed
  <2>3. CASE ~(CanSMTrcvPNEnabled(s) /\ first = CC("SLEEP")) /\ TooMany(u)
    <3>1. r = <<"REPEAT_MAX", GiveUp(u)>>
      BY <1>6, <2>3 DEF CanSM_Internal_Execute
    <3>. HIDE DEF u
    <3>2. Same(u, GiveUp(u)) /\ ~GiveUp(u).requestAccepted
      BY <1>1, <2>1, Zenon
    <3>. HIDE DEF GiveUp
    <3>. QED BY <1>6, <2>1, <3>1, <3>2, DriversIdle DEF Executed, Base
  <2>4. CASE ~(CanSMTrcvPNEnabled(s) /\ first = CC("SLEEP")) /\ ~TooMany(u)
    <3>1. PICK q \in modeRequestAction(t, first) :
            r = IF q[1] THEN <<"REQ_ACCEPTED", Accept(q[2])>>
                ELSE IF TooMany(q[2]) THEN <<"REPEAT_MAX", GiveUp(q[2])>>
                ELSE <<"WAIT_INDICATION", q[2]>>
      BY <1>6, <2>4 DEF CanSM_Internal_Execute
    <3>. HIDE DEF u
    <3>2. t \in SMRecord /\ Same(u, t) /\ ~t.requestAccepted
      BY <1>1, <2>1, Zenon
    <3>. HIDE DEF t
    <3>3. /\ q[1] \in BOOLEAN /\ q[2] \in SMRecord /\ ~q[2].requestAccepted /\ Truths(q[2])
      BY <1>3, <2>1, <3>2
    <3>4. /\ r[2] \in {Accept(q[2]), GiveUp(q[2]), q[2]}
          /\ r[1] \in {"REQ_ACCEPTED", "REPEAT_MAX", "WAIT_INDICATION"}
          /\ r[1] = "REPEAT_MAX" => r[2] = GiveUp(q[2])
      BY <3>1
    <3>5. Same(q[2], r[2]) /\ (r[1] = "REPEAT_MAX" => ~r[2].requestAccepted)
      <4>. HIDE DEF Accept, GiveUp, Same
      <4>. QED BY <1>1, <3>3, <3>4, Zenon
    <3>. HIDE DEF Accept, GiveUp, TooMany, Again
    <3>6. Same(s, t)
      BY <2>1, <3>2 DEF Base, Idle, Drivers, NO_MODE
    <3>7. Base(s, r[2]) /\ Drivers(s, r[2], first) /\ Truths(r[2])
      BY <3>2, <3>5, <3>6, RequestBetween
    <3>. QED BY <1>6, <3>4, <3>5, <3>7, Zenon DEF Executed
  <2>. QED BY <2>2, <2>3, <2>4
<1>7. CASE /\ s.requestAccepted /\ ~modeReadRequest(s, first)
           /\ ~(s.subStateTimer >= CanSMModeRequestRepetitionTime)
  <2>1. r = <<"WAIT_INDICATION", s>>
    BY <1>7 DEF CanSM_Internal_Execute
  <2>. QED BY <1>1, <1>7, <2>1, Zenon DEF Executed
<1>. QED BY <1>2, <1>4, <1>5, <1>6, <1>7

-----------------------------------------------------------------------------
(* The states                                                                *)

\* What the rows of the tables of PRE_NOCOM have in common: a substate x asks for what it
\* awaits, its second action is what the next substate y awaits, and the controllers sleep
\* when the last one is left.
Row(k, x, first, second, y) ==
  /\ x \in Substate
  /\ first \in Action /\ second \in Action \cup {NO_MODE}
  /\ Awaits(x) \in {"UNINIT", "STOPPED", "SLEEP"}
  /\ IF Awaits(x) = "UNINIT" THEN first[1] # "CC_MODE" ELSE first = CC(Awaits(x))
  /\ PastStopped(k, x) => Awaits(x) # "STOPPED"
  /\ PastSleep(k, x) => Awaits(x) = "UNINIT"
  /\ IF y = "EXIT"
     THEN /\ second = NO_MODE
          /\ PastSleep(k, x) \/ (PastStopped(k, x) /\ Awaits(x) = "SLEEP")
     ELSE /\ y \in DOMAIN PreNoCom(k) /\ y \in Substate
          /\ Awaits(y) \in {"UNINIT", "STOPPED", "SLEEP"}
          /\ IF Awaits(y) = "UNINIT" THEN second[1] # "CC_MODE" ELSE second = CC(Awaits(y))
          /\ second # NO_MODE
          /\ PastStopped(k, y) =>
               Awaits(y) # "STOPPED" /\ (PastStopped(k, x) \/ Awaits(x) = "STOPPED")
          /\ PastSleep(k, y) =>
               /\ Awaits(y) = "UNINIT"
               /\ PastSleep(k, x) \/ (PastStopped(k, x) /\ Awaits(x) = "SLEEP")

\* The controller mode that each substate waits for.
LEMMA AwaitsCases ==
  /\ Awaits("CC_STOPPED") = "STOPPED" /\ Awaits("CC_SLEEP") = "SLEEP"
  /\ Awaits("CC_STARTED") = "STARTED" /\ Awaits("RESTART_CC") = "STARTED"
  /\ \A x \in {"NONE", "PN_CLEAR_WUF", "TRCV_NORMAL", "TRCV_STANDBY", "CHECK_WUF_IN_CC_SLEEP",
               "CHECK_WUF_IN_NOT_CC_SLEEP", "BUSOFF_CHECK", "NO_BUSOFF", "TX_OFF"} :
       Awaits(x) = "UNINIT"
BY DEF Awaits

\* The rows of the transition table of PRE_NOCOM.
LEMMA PreNoComTable ==
  ASSUME NEW k \in Kind, NEW x \in DOMAIN PreNoCom(k)
  PROVE  LET step == PreNoCom(k)[x]
         IN Row(k, x, TransitionConfig[step[1]][1], TransitionConfig[step[1]][2], step[2])
<1>1. CASE k = "none"
  <2>1. DOMAIN PreNoCom(k) = {"CC_STOPPED", "CC_SLEEP"}
    BY <1>1 DEF PreNoCom
  <2>2. CASE x = "CC_STOPPED"
    <3>1. PreNoCom(k)[x] = <<"CC_STOPPED_CC_SLEEP", "CC_SLEEP">>
      BY <1>1, <2>2 DEF PreNoCom
    <3>2. TransitionConfig["CC_STOPPED_CC_SLEEP"] = <<CC("STOPPED"), CC("SLEEP")>>
      BY DEF TransitionConfig
    <3>. QED BY <1>1, <2>1, <2>2, <3>1, <3>2, AwaitsCases
         DEF Row, Substate, Action, PastStopped, PastSleep, CC, TRCV, WUF, NO_MODE
  <2>3. CASE x = "CC_SLEEP"
    <3>1. PreNoCom(k)[x] = <<"CC_SLEEP_NONE", "EXIT">>
      BY <1>1, <2>3 DEF PreNoCom
    <3>2. TransitionConfig["CC_SLEEP_NONE"] = <<CC("SLEEP"), NO_MODE>>
      BY DEF TransitionConfig
    <3>. QED BY <1>1, <2>1, <2>3, <3>1, <3>2, AwaitsCases
         DEF Row, Substate, Action, PastStopped, PastSleep, CC, TRCV, WUF, NO_MODE
  <2>. QED BY <2>1, <2>2, <2>3
<1>2. CASE k = "plain"
  <2>1. DOMAIN PreNoCom(k) = {"CC_STOPPED", "CC_SLEEP", "TRCV_NORMAL", "TRCV_STANDBY"}
    BY <1>2 DEF PreNoCom
  <2>2. CASE x = "CC_STOPPED"
    <3>1. PreNoCom(k)[x] = <<"CC_STOPPED_CC_SLEEP", "CC_SLEEP">>
      BY <1>2, <2>2 DEF PreNoCom
    <3>2. TransitionConfig["CC_STOPPED_CC_SLEEP"] = <<CC("STOPPED"), CC("SLEEP")>>
      BY DEF TransitionConfig
    <3>. QED BY <1>2, <2>1, <2>2, <3>1, <3>2, AwaitsCases
         DEF Row, Substate, Action, PastStopped, PastSleep, CC, TRCV, WUF, NO_MODE
  <2>3. CASE x = "CC_SLEEP"
    <3>1. PreNoCom(k)[x] = <<"CC_SLEEP_TRCV_NORMAL", "TRCV_NORMAL">>
      BY <1>2, <2>3 DEF PreNoCom
    <3>2. TransitionConfig["CC_SLEEP_TRCV_NORMAL"] = <<CC("SLEEP"), TRCV("NORMAL")>>
      BY DEF TransitionConfig
    <3>. QED BY <1>2, <2>1, <2>3, <3>1, <3>2, AwaitsCases
         DEF Row, Substate, Action, PastStopped, PastSleep, CC, TRCV, WUF, NO_MODE
  <2>4. CASE x = "TRCV_NORMAL"
    <3>1. PreNoCom(k)[x] = <<"TRCV_NORMAL_TRCV_STANDBY", "TRCV_STANDBY">>
      BY <1>2, <2>4 DEF PreNoCom
    <3>2. TransitionConfig["TRCV_NORMAL_TRCV_STANDBY"] = <<TRCV("NORMAL"), TRCV("STANDBY")>>
      BY DEF TransitionConfig
    <3>. QED BY <1>2, <2>1, <2>4, <3>1, <3>2, AwaitsCases
         DEF Row, Substate, Action, PastStopped, PastSleep, CC, TRCV, WUF, NO_MODE
  <2>5. CASE x = "TRCV_STANDBY"
    <3>1. PreNoCom(k)[x] = <<"TRCV_STANDBY_NONE", "EXIT">>
      BY <1>2, <2>5 DEF PreNoCom
    <3>2. TransitionConfig["TRCV_STANDBY_NONE"] = <<TRCV("STANDBY"), NO_MODE>>
      BY DEF TransitionConfig
    <3>. QED BY <1>2, <2>1, <2>5, <3>1, <3>2, AwaitsCases
         DEF Row, Substate, Action, PastStopped, PastSleep, CC, TRCV, WUF, NO_MODE
  <2>. QED BY <2>1, <2>2, <2>3, <2>4, <2>5
<1>3. CASE k \in {"pn", "CanTrcv"}
  <2>1. DOMAIN PreNoCom(k) = {"PN_CLEAR_WUF", "CC_STOPPED", "TRCV_NORMAL", "TRCV_STANDBY",
                              "CC_SLEEP", "CHECK_WUF_IN_CC_SLEEP", "CHECK_WUF_IN_NOT_CC_SLEEP"}
    BY <1>3 DEF PreNoCom
  <2>2. CASE x = "PN_CLEAR_WUF"
    <3>1. PreNoCom(k)[x] = <<"PN_CLEAR_WUF_CC_STOPPED", "CC_STOPPED">>
      BY <1>3, <2>2 DEF PreNoCom
    <3>2. TransitionConfig["PN_CLEAR_WUF_CC_STOPPED"] = <<WUF("clear"), CC("STOPPED")>>
      BY DEF TransitionConfig
    <3>. QED BY <1>3, <2>1, <2>2, <3>1, <3>2, AwaitsCases
         DEF Row, Substate, Action, PastStopped, PastSleep, CC, TRCV, WUF, NO_MODE
  <2>3. CASE x = "CC_STOPPED"
    <3>1. PreNoCom(k)[x] = <<"CC_STOPPED_TRCV_NORMAL", "TRCV_NORMAL">>
      BY <1>3, <2>3 DEF PreNoCom
    <3>2. TransitionConfig["CC_STOPPED_TRCV_NORMAL"] = <<CC("STOPPED"), TRCV("NORMAL")>>
      BY DEF TransitionConfig
    <3>. QED BY <1>3, <2>1, <2>3, <3>1, <3>2, AwaitsCases
         DEF Row, Substate, Action, PastStopped, PastSleep, CC, TRCV, WUF, NO_MODE
  <2>4. CASE x = "TRCV_NORMAL"
    <3>1. PreNoCom(k)[x] = <<"TRCV_NORMAL_TRCV_STANDBY", "TRCV_STANDBY">>
      BY <1>3, <2>4 DEF PreNoCom
    <3>2. TransitionConfig["TRCV_NORMAL_TRCV_STANDBY"] = <<TRCV("NORMAL"), TRCV("STANDBY")>>
      BY DEF TransitionConfig
    <3>. QED BY <1>3, <2>1, <2>4, <3>1, <3>2, AwaitsCases
         DEF Row, Substate, Action, PastStopped, PastSleep, CC, TRCV, WUF, NO_MODE
  <2>5. CASE x = "TRCV_STANDBY"
    <3>1. PreNoCom(k)[x] = <<"TRCV_STANDBY_CC_SLEEP", "CC_SLEEP">>
      BY <1>3, <2>5 DEF PreNoCom
    <3>2. TransitionConfig["TRCV_STANDBY_CC_SLEEP"] = <<TRCV("STANDBY"), CC("SLEEP")>>
      BY DEF TransitionConfig
    <3>. QED BY <1>3, <2>1, <2>5, <3>1, <3>2, AwaitsCases
         DEF Row, Substate, Action, PastStopped, PastSleep, CC, TRCV, WUF, NO_MODE
  <2>6. CASE x = "CC_SLEEP"
    <3>1. PreNoCom(k)[x] = <<"CC_SLEEP_CHECK_WUF_IN_CC_SLEEP", "CHECK_WUF_IN_CC_SLEEP">>
      BY <1>3, <2>6 DEF PreNoCom
    <3>2. TransitionConfig["CC_SLEEP_CHECK_WUF_IN_CC_SLEEP"] = <<CC("SLEEP"), WUF("check")>>
      BY DEF TransitionConfig
    <3>. QED BY <1>3, <2>1, <2>6, <3>1, <3>2, AwaitsCases
         DEF Row, Substate, Action, PastStopped, PastSleep, CC, TRCV, WUF, NO_MODE
  <2>7. CASE x = "CHECK_WUF_IN_CC_SLEEP"
    <3>1. PreNoCom(k)[x] = <<"CHECK_WUF_IN_CC_SLEEP_NONE", "EXIT">>
      BY <1>3, <2>7 DEF PreNoCom
    <3>2. TransitionConfig["CHECK_WUF_IN_CC_SLEEP_NONE"] = <<WUF("check"), NO_MODE>>
      BY DEF TransitionConfig
    <3>. QED BY <1>3, <2>1, <2>7, <3>1, <3>2, AwaitsCases
         DEF Row, Substate, Action, PastStopped, PastSleep, CC, TRCV, WUF, NO_MODE
  <2>8. CASE x = "CHECK_WUF_IN_NOT_CC_SLEEP"
    <3>1. PreNoCom(k)[x] = <<"CHECK_WUF_IN_NOT_CC_SLEEP_PN_CLEAR_WUF", "PN_CLEAR_WUF">>
      BY <1>3, <2>8 DEF PreNoCom
    <3>2. TransitionConfig["CHECK_WUF_IN_NOT_CC_SLEEP_PN_CLEAR_WUF"] = <<WUF("check"), WUF("clear")>>
      BY DEF TransitionConfig
    <3>. QED BY <1>3, <2>1, <2>8, <3>1, <3>2, AwaitsCases
         DEF Row, Substate, Action, PastStopped, PastSleep, CC, TRCV, WUF, NO_MODE
  <2>. QED BY <2>1, <2>2, <2>3, <2>4, <2>5, <2>6, <2>7, <2>8
<1>. QED BY <1>1, <1>2, <1>3 DEF Kind

\* The fields the invariant looks at, the substate apart
View(s, t) ==
  /\ t.Trcv = s.Trcv /\ t.BsmState = s.BsmState /\ t.currentMode = s.currentMode
  /\ t.PduMode = s.PduMode /\ t.busoffevent = s.busoffevent
  /\ t.requestAccepted = s.requestAccepted /\ t.ctrl = s.ctrl /\ t.mode = s.mode
  /\ t.target = s.target /\ t.missed = s.missed /\ t.indicated = s.indicated

\* The substate timer is in no part of the invariant.
LEMMA TimerUpdate ==
  ASSUME NEW s \in SMRecord, NEW n \in Nat, NEW t, t = [s EXCEPT !.subStateTimer = n]
  PROVE  t \in SMRecord /\ View(s, t) /\ t.sub = s.sub
<1>1. t \in SMRecord
  BY DEF SMRecord
<1>. QED BY <1>1 DEF SMRecord, View

\* A substate that is entered touches nothing else.
LEMMA SubUpdate ==
  ASSUME NEW s \in SMRecord, NEW x \in Substate, NEW t, t = [s EXCEPT !.sub = x]
  PROVE  t \in SMRecord /\ View(s, t) /\ t.sub = x
<1>1. t \in SMRecord
  BY DEF SMRecord
<1>. QED BY <1>1 DEF SMRecord, View

\* A state from which PRE_NOCOM may be entered again
Restartable(s) ==
  s \in SMRecord /\ ~s.requestAccepted /\ s.PduMode # "ONLINE" /\ s.currentMode # "FULL"

\* ResetPendingIndications leaves the modes alone and PRE_NOCOM sound.
LEMMA ResetPendingRestartable ==
  ASSUME NEW s \in SMRecord
  PROVE  LET t == ResetPendingIndications(s)
         IN /\ t \in SMRecord /\ t.requestAccepted = s.requestAccepted
            /\ t.PduMode = s.PduMode /\ t.currentMode = s.currentMode
            /\ t.indicated = s.indicated
            /\ SMOK(s) /\ s.BsmState = "PRE_NOCOM" => SMOK(t) /\ t.BsmState = "PRE_NOCOM"
<1>. DEFINE f == [c \in Controller |-> [s.ctrl[c] EXCEPT !.hasPending = FALSE]]
            k == [s.trcv EXCEPT !.hasPending = FALSE]
            t == [s EXCEPT !.ctrl = f, !.trcv = k]
<1>1. ResetPendingIndications(s) = t
  BY DEF ResetPendingIndications, SMRecord
<1>2. /\ f \in [Controller -> ControllerModeBuf]
      /\ \A c \in Controller : f[c].indMode = s.ctrl[c].indMode
                               /\ f[c].pendingMode = s.ctrl[c].pendingMode
  <2>1. s.ctrl \in [Controller -> ControllerModeBuf]
    BY DEF SMRecord
  <2>2. \A c \in Controller :
          LET b == [s.ctrl[c] EXCEPT !.hasPending = FALSE]
          IN b \in ControllerModeBuf /\ b.indMode = s.ctrl[c].indMode
             /\ b.pendingMode = s.ctrl[c].pendingMode
    BY <2>1, Zenon DEF ControllerModeBuf
  <2>. QED BY <2>2, Zenon
<1>3. k \in [hasPending : BOOLEAN, pendingMode : {"NORMAL", "STANDBY"},
             wuf : SUBSET {"clear", "check"}]
  BY Zenon DEF SMRecord
<1>. HIDE DEF f, k
<1>4. t \in SMRecord
  BY <1>2, <1>3, Zenon DEF SMRecord
<1>5. /\ t.requestAccepted = s.requestAccepted
      /\ t.PduMode = s.PduMode /\ t.currentMode = s.currentMode /\ t.indicated = s.indicated
      /\ t.BsmState = s.BsmState /\ t.Trcv = s.Trcv /\ t.sub = s.sub /\ t.ctrl = f
      /\ t.busoffevent = s.busoffevent
      /\ t.mode = s.mode /\ t.target = s.target /\ t.missed = s.missed
  BY DEF SMRecord
<1>. HIDE DEF t
<1>6. ASSUME SMOK(s), s.BsmState = "PRE_NOCOM"
      PROVE  SMOK(t)
  <2>1. \A c \in Controller : Truth(t, c)
    BY <1>2, <1>5, <1>6, ZenonT(30) DEF SMOK, Truth
  <2>2. PreNoComOK(t) /\ AcceptedOK(t)
    BY <1>2, <1>5, <1>6 DEF SMOK, PhaseOK, PreNoComOK, AcceptedOK, Makes, AllIn
  <2>. QED BY <1>4, <1>5, <1>6, <2>1, <2>2 DEF SMOK, PhaseOK
<1>. QED BY <1>1, <1>4, <1>5, <1>6

\* What a step in a substate of PRE_NOCOM leaves the controllers in: the substate stays,
\* its action having been requested once more or not.
LEMMA PreNoComStays ==
  ASSUME NEW s, SMOK(s), s.BsmState = "PRE_NOCOM", NEW first, NEW second, NEW y,
         Row(s.Trcv, s.sub, first, second, y),
         NEW u \in SMRecord, Base(s, u), \A c \in Controller : Truth(u, c),
         \/ Drivers(s, u, first)
         \/ Idle(s, u) /\ u.requestAccepted = s.requestAccepted,
         NEW t \in SMRecord, View(u, t), t.sub = s.sub
  PROVE  SMOK(t)
<1>1. PreNoComOK(s) /\ AcceptedOK(s) /\ s \in SMRecord /\ Awaits(s.sub) # "STARTED"
  BY DEF SMOK, PhaseOK, Row
<1>2. /\ t.BsmState = "PRE_NOCOM" /\ t.Trcv = s.Trcv /\ t.PduMode = s.PduMode
      /\ t.currentMode = s.currentMode
  BY DEF Base, View
<1>3. \A c \in Controller : Truth(t, c)
  BY Zenon DEF Truth, View
<1>4. CASE Idle(s, u) /\ (u.requestAccepted = s.requestAccepted \/ Awaits(s.sub) = "UNINIT")
  <2>1. t.ctrl = s.ctrl /\ t.target = s.target /\ t.requestAccepted = u.requestAccepted
    BY <1>4 DEF Idle, Drivers, NO_MODE, View
  <2>2. PreNoComOK(t)
    BY <1>1, <1>2, <2>1 DEF PreNoComOK, Makes, AllIn
  <2>3. AcceptedOK(t)
    BY <1>1, <1>4, <2>1, Zenon DEF AcceptedOK
  <2>. QED BY <1>2, <1>3, <2>2, <2>3 DEF SMOK, PhaseOK
<1>5. CASE Drivers(s, u, first) /\ Awaits(s.sub) # "UNINIT"
  <2>1. \A c \in Controller : AskedOne(s, u, c, Awaits(s.sub))
    <3>1. first[1] = "CC_MODE" /\ first[2] = Awaits(s.sub)
      BY <1>5 DEF Row, CC
    <3>. QED BY <1>5, <3>1, Zenon DEF Drivers
  <2>2. \A c \in Controller :
          /\ t.target[c] \in {"UNINIT", Awaits(s.sub), s.target[c]}
          /\ t.ctrl[c].pendingMode = Awaits(s.sub)
          /\ t.ctrl[c].indMode = s.ctrl[c].indMode \/ t.target[c] = "UNINIT"
    BY <2>1, Zenon DEF AskedOne, View
  <2>3. PastStopped(s.Trcv, s.sub) => Makes(t, {"SLEEP"})
    <3>1. PastStopped(s.Trcv, s.sub) => Awaits(s.sub) \in {"UNINIT", "SLEEP"}
      BY DEF Row
    <3>. QED BY <1>1, <2>2, <3>1, Zenon DEF PreNoComOK, Makes
  <2>4. ~PastSleep(s.Trcv, s.sub)
    BY <1>5 DEF Row
  <2>5. PreNoComOK(t)
    BY <1>1, <1>2, <2>2, <2>3, <2>4, Zenon DEF PreNoComOK
  <2>6. AcceptedOK(t)
    BY <2>2, Zenon DEF AcceptedOK
  <2>. QED BY <1>2, <1>3, <2>5, <2>6 DEF SMOK, PhaseOK
<1>6. Drivers(s, u, first) /\ Awaits(s.sub) = "UNINIT" => Idle(s, u)
  BY DEF Drivers, Idle, Row, NO_MODE
<1>. QED BY <1>4, <1>5, <1>6

\* The substate is left: its indication has come, and what the next one awaits is asked for.
LEMMA PreNoComMoves ==
  ASSUME NEW s, SMOK(s), s.BsmState = "PRE_NOCOM", NEW first, NEW second, NEW y,
         Row(s.Trcv, s.sub, first, second, y),
         s.requestAccepted /\ modeReadRequest(s, first),
         NEW u \in SMRecord, Base(s, u), \A c \in Controller : Truth(u, c),
         Drivers(s, u, second), NEW t \in SMRecord, View(u, t)
  PROVE  /\ y = "EXIT" => AllIn(t, "SLEEP")
         /\ y # "EXIT" /\ t.sub = y => SMOK(t)
<1>1. /\ PreNoComOK(s) /\ AcceptedOK(s) /\ s \in SMRecord
      /\ \A c \in Controller : Truth(s, c)
  BY DEF SMOK, PhaseOK
<1>2. /\ t.BsmState = "PRE_NOCOM" /\ t.Trcv = s.Trcv /\ t.PduMode = s.PduMode
      /\ t.currentMode = s.currentMode
  BY DEF Base, View
<1>3. \A c \in Controller : Truth(t, c)
  BY ZenonT(30) DEF Truth, View
<1>4. Awaits(s.sub) # "UNINIT" =>
        \A c \in Controller : /\ s.ctrl[c].indMode = Awaits(s.sub)
                              /\ s.target[c] # Awaits(s.sub) /\ s.target[c] # "STARTED"
  <2>1. Awaits(s.sub) # "UNINIT" => first[1] = "CC_MODE"
    BY DEF Row, CC
  <2>2. Awaits(s.sub) # "UNINIT" => \A c \in Controller : s.ctrl[c].indMode = Awaits(s.sub)
    BY <1>1, <2>1, Zenon DEF modeReadRequest, AcceptedOK
  <2>. QED BY <1>1, <2>2, Zenon DEF Truth, PreNoComOK
<1>5. \A c \in Controller : s.target[c] \in ControllerMode
  BY <1>1, Zenon DEF SMRecord
<1>6. PastSleep(s.Trcv, s.sub) \/ (PastStopped(s.Trcv, s.sub) /\ Awaits(s.sub) = "SLEEP")
        => AllIn(s, "SLEEP")
  BY <1>1, <1>4, Zenon DEF PreNoComOK, AllIn, Makes
<1>7. PastStopped(s.Trcv, s.sub) \/ Awaits(s.sub) = "STOPPED" => Makes(s, {"SLEEP"})
  BY <1>1, <1>4, <1>5, Zenon DEF PreNoComOK, Makes, ControllerMode
<1>8. second[1] # "CC_MODE" => t.ctrl = s.ctrl /\ t.target = s.target
  BY DEF Drivers, View
<1>9. CASE y = "EXIT"
  BY <1>6, <1>8, <1>9 DEF Row, AllIn, NO_MODE
<1>10. CASE y # "EXIT" /\ t.sub = y
  <2>1. CASE second[1] # "CC_MODE"
    <3>1. Awaits(y) = "UNINIT"
      BY <1>10, <2>1 DEF Row, CC
    <3>2. PreNoComOK(t)
      <4>1. t.ctrl = s.ctrl /\ t.target = s.target /\ y \in DOMAIN PreNoCom(t.Trcv)
        BY <1>2, <1>8, <1>10, <2>1, Zenon DEF Row
      <4>2. PastStopped(t.Trcv, y) => Makes(s, {"SLEEP"})
        BY <1>2, <1>7, <1>10, <2>1 DEF Row
      <4>3. PastSleep(t.Trcv, y) => AllIn(s, "SLEEP")
        BY <1>2, <1>6, <1>10, <2>1 DEF Row
      <4>. QED BY <1>1, <1>2, <1>10, <4>1, <4>2, <4>3, Zenon DEF PreNoComOK, AllIn, Makes
    <3>. QED BY <1>2, <1>3, <1>10, <3>1, <3>2 DEF SMOK, PhaseOK, AcceptedOK
  <2>2. CASE second[1] = "CC_MODE"
    <3>1. second = CC(Awaits(y)) /\ Awaits(y) \in {"STOPPED", "SLEEP"}
      BY <1>10, <2>2 DEF Row, CC
    <3>2. \A c \in Controller :
            /\ t.target[c] \in {"UNINIT", Awaits(y), s.target[c]}
            /\ t.ctrl[c].pendingMode = Awaits(y)
            /\ t.ctrl[c].indMode = s.ctrl[c].indMode \/ t.target[c] = "UNINIT"
      <4>1. second[2] = Awaits(y)
        BY <3>1 DEF CC
      <4>2. \A c \in Controller : AskedOne(s, u, c, Awaits(y))
        BY <2>2, <4>1, Zenon DEF Drivers
      <4>3. t.ctrl = u.ctrl /\ t.target = u.target
        BY DEF View
      <4>. QED BY <4>2, <4>3, ZenonT(30) DEF AskedOne
    <3>3. PastStopped(s.Trcv, y) => Makes(t, {"SLEEP"})
      BY <1>7, <1>10, <3>1, <3>2, Zenon DEF Row, Makes
    <3>4. ~PastSleep(s.Trcv, y)
      BY <1>10, <3>1 DEF Row
    <3>5. y \in DOMAIN PreNoCom(s.Trcv)
      BY <1>10 DEF Row
    <3>6. PreNoComOK(t)
      BY <1>1, <1>2, <1>10, <3>1, <3>2, <3>3, <3>4, <3>5, Zenon DEF PreNoComOK
    <3>. QED BY <1>2, <1>3, <1>10, <3>2, <3>6 DEF SMOK, PhaseOK, AcceptedOK
  <2>. QED BY <2>1, <2>2
<1>. QED BY <1>9, <1>10

\* CanSm_Internal_BSM_S_PRE_NOCOM: the invariant is kept while the state is not left; it is
\* left for NOCOM with all controllers asleep, and otherwise only to be entered again.
LEMMA PreNoComSound ==
  ASSUME NEW s, SMOK(s), s.BsmState = "PRE_NOCOM", NEW r \in BSM_S_PRE_NOCOM(s)
  PROVE  /\ r[1] \in {"REP_MAX", "EXIT", "NONE"} /\ r[2] \in SMRecord
         /\ r[2].currentMode = s.currentMode /\ r[2].PduMode = s.PduMode
         /\ r[2].indicated = s.indicated
         /\ r[1] = "NONE" => SMOK(r[2]) /\ r[2].BsmState = "PRE_NOCOM"
         /\ r[1] = "EXIT" => ~r[2].requestAccepted /\ AllIn(r[2], "SLEEP")
                             /\ \A c \in Controller : Truth(r[2], c)
         /\ r[1] = "REP_MAX" =>
              /\ Restartable(r[2])
              /\ ~s.requestAccepted => SMOK(r[2]) /\ r[2].BsmState = "PRE_NOCOM"
         /\ r[1] = "EXIT" => PreNoCom(s.Trcv)[s.sub][2] = "EXIT"
<1>. DEFINE step == PreNoCom(s.Trcv)[s.sub]
            first == TransitionConfig[step[1]][1]
            second == TransitionConfig[step[1]][2]
<1>1. /\ s \in SMRecord /\ PreNoComOK(s) /\ \A c \in Controller : Truth(s, c)
      /\ s.Trcv \in Kind
  BY DEF SMOK, PhaseOK, SMRecord
<1>2. Row(s.Trcv, s.sub, first, second, step[2])
  BY <1>1, PreNoComTable, Zenon DEF PreNoComOK
<1>3. PICK q \in CanSM_Internal_Execute(s, step[1]) :
        LET t == [q[2] EXCEPT !.subStateTimer = (IF q[1] = "WAIT_INDICATION" THEN @ ELSE 0) + 1]
        IN r = CASE q[1] = "REPEAT_MAX" -> <<"REP_MAX", ResetPendingIndications(t)>>
                 [] q[1] = "DONE" /\ step[2] = "EXIT" -> <<"EXIT", t>>
                 [] q[1] = "DONE" /\ step[2] # "EXIT" -> <<"NONE", [t EXCEPT !.sub = step[2]]>>
                 [] q[1] = "TIMEOUT" -> <<"NONE", [t EXCEPT !.sub = "CHECK_WUF_IN_NOT_CC_SLEEP"]>>
                 [] OTHER -> <<"NONE", t>>
  BY Zenon DEF BSM_S_PRE_NOCOM, BSM_S_PRE
<1>. DEFINE u == q[2]
            n == (IF q[1] = "WAIT_INDICATION" THEN u.subStateTimer ELSE 0) + 1
            t == [u EXCEPT !.subStateTimer = n]
            w == [t EXCEPT !.sub = step[2]]
            v == [t EXCEPT !.sub = "CHECK_WUF_IN_NOT_CC_SLEEP"]
<1>4. Executed(s, q[1], u, first, second)
  BY <1>1, <1>2, ExecuteSound, Zenon DEF Row
<1>5. u \in SMRecord /\ Base(s, u) /\ n \in Nat /\ \A c \in Controller : Truth(u, c)
  <2>1. u \in SMRecord /\ Base(s, u) /\ \A c \in Controller : Truth(u, c)
    BY <1>4, Zenon DEF Executed
  <2>2. u.subStateTimer \in Nat
    BY <2>1, Zenon DEF SMRecord
  <2>. QED BY <2>1, <2>2, SMTT(30)
<1>. HIDE DEF n, u
<1>6. /\ t \in SMRecord /\ View(u, t) /\ t.sub = s.sub
      /\ v \in SMRecord /\ View(u, v) /\ v.sub = "CHECK_WUF_IN_NOT_CC_SLEEP"
      /\ step[2] # "EXIT" => w \in SMRecord /\ View(u, w) /\ w.sub = step[2]
  <2>1. "CHECK_WUF_IN_NOT_CC_SLEEP" \in Substate /\ (step[2] # "EXIT" => step[2] \in Substate)
    BY <1>2, Zenon DEF Row, Substate
  <2>. HIDE DEF step
  <2>2. t \in SMRecord /\ View(u, t) /\ t.sub = u.sub
    BY <1>5, TimerUpdate
  <2>. HIDE DEF t
  <2>3. v \in SMRecord /\ View(t, v) /\ v.sub = "CHECK_WUF_IN_NOT_CC_SLEEP"
    BY <2>1, <2>2, SubUpdate
  <2>4. step[2] # "EXIT" => w \in SMRecord /\ View(t, w) /\ w.sub = step[2]
    BY <2>1, <2>2, SubUpdate
  <2>. HIDE DEF v, w
  <2>. QED BY <1>5, <2>2, <2>3, <2>4, Zenon DEF Base, View
<1>7. r = CASE q[1] = "REPEAT_MAX" -> <<"REP_MAX", ResetPendingIndications(t)>>
            [] q[1] = "DONE" /\ step[2] = "EXIT" -> <<"EXIT", t>>
            [] q[1] = "DONE" /\ step[2] # "EXIT" -> <<"NONE", w>>
            [] q[1] = "TIMEOUT" -> <<"NONE", v>>
            [] OTHER -> <<"NONE", t>>
  BY <1>3 DEF n, u
<1>. HIDE DEF t, w, v, step
<1>8. \A z \in {t, v} : /\ z.currentMode = s.currentMode /\ z.PduMode = s.PduMode
                        /\ z.indicated = s.indicated /\ z.BsmState = "PRE_NOCOM"
                        /\ z.requestAccepted = u.requestAccepted /\ z.Trcv = s.Trcv
  BY <1>5, <1>6 DEF View, Base
<1>9. CASE q[1] = "REPEAT_MAX"
  <2>1. r = <<"REP_MAX", ResetPendingIndications(t)>>
    BY <1>7, <1>9
  <2>2. ~t.requestAccepted
    BY <1>4, <1>8, <1>9, Zenon DEF Executed
  <2>3. ~s.requestAccepted => SMOK(t) /\ t.BsmState = "PRE_NOCOM"
    <3>1. ~s.requestAccepted => Drivers(s, u, first)
      BY <1>4, Zenon DEF Executed
    <3>. QED BY <1>2, <1>5, <1>6, <1>8, <3>1, PreNoComStays, Zenon
  <2>. QED BY <1>1, <1>6, <1>8, <2>1, <2>2, <2>3, ResetPendingRestartable
           DEF Restartable, PreNoComOK
<1>10. CASE q[1] = "DONE"
  <2>1. s.requestAccepted /\ modeReadRequest(s, first) /\ Drivers(s, u, second)
        /\ (second = NO_MODE => ~u.requestAccepted)
    BY <1>4, <1>10, Zenon DEF Executed
  <2>2. CASE step[2] = "EXIT"
    <3>1. r = <<"EXIT", t>>
      BY <1>7, <1>10, <2>2
    <3>2. AllIn(t, "SLEEP")
      BY <1>2, <1>5, <1>6, <2>1, <2>2, PreNoComMoves, Zenon
    <3>3. ~t.requestAccepted
      BY <1>2, <1>8, <2>1, <2>2, Zenon DEF Row
    <3>4. \A c \in Controller : Truth(t, c)
      BY <1>5, <1>6, ZenonT(30) DEF Truth, View
    <3>. QED BY <1>6, <1>8, <2>2, <3>1, <3>2, <3>3, <3>4 DEF step
  <2>3. CASE step[2] # "EXIT"
    <3>1. r = <<"NONE", w>>
      BY <1>7, <1>10, <2>3
    <3>2. SMOK(w)
      BY <1>2, <1>5, <1>6, <2>1, <2>3, PreNoComMoves, Zenon
    <3>3. /\ w.currentMode = s.currentMode /\ w.PduMode = s.PduMode
          /\ w.indicated = s.indicated /\ w.BsmState = "PRE_NOCOM"
      BY <1>5, <1>6, <2>3 DEF View, Base
    <3>. QED BY <1>6, <2>3, <3>1, <3>2, <3>3, Zenon
  <2>. QED BY <2>2, <2>3, Zenon
<1>11. CASE q[1] = "TIMEOUT"
  <2>1. r = <<"NONE", v>>
    BY <1>7, <1>11
  <2>2. Idle(s, u) /\ ~u.requestAccepted /\ s.Trcv \in {"pn", "CanTrcv"}
    BY <1>4, <1>11 DEF Executed, CanSMTrcvPNEnabled
  <2>3. v.ctrl = s.ctrl /\ v.target = s.target
    BY <1>6, <2>2 DEF View, Idle, Drivers, NO_MODE
  <2>4. v.sub \in DOMAIN PreNoCom(s.Trcv)
    BY <1>6, <2>2 DEF PreNoCom
  <2>5. PreNoComOK(v)
    BY <1>1, <1>6, <1>8, <2>2, <2>3, <2>4, Zenon DEF PreNoComOK, PastStopped, PastSleep
  <2>6. \A c \in Controller : Truth(v, c)
    BY <1>5, <1>6, ZenonT(30) DEF Truth, View
  <2>7. SMOK(v)
    BY <1>6, <1>8, <2>2, <2>5, <2>6, Zenon DEF SMOK, PhaseOK, AcceptedOK
  <2>. QED BY <1>6, <1>8, <2>1, <2>7
<1>12. CASE q[1] \in {"REQ_ACCEPTED", "FAIL", "WAIT_INDICATION"}
  <2>1. r = <<"NONE", t>>
    BY <1>7, <1>12
  <2>2. Drivers(s, u, first) \/ (Idle(s, u) /\ u.requestAccepted = s.requestAccepted)
    BY <1>4, <1>12, Zenon DEF Executed
  <2>3. SMOK(t)
    BY <1>2, <1>5, <1>6, <2>2, PreNoComStays, Zenon
  <2>. QED BY <1>6, <1>8, <2>1, <2>3
<1>. QED BY <1>4, <1>9, <1>10, <1>11, <1>12, Zenon DEF Executed

\* Entering a state (CanSM_Internal_EnterState).  PRE_NOCOM and PRE_FULLCOM forget what
\* the controllers have indicated.
LEMMA EnterPreSound ==
  ASSUME NEW s \in SMRecord, NEW state \in {"PRE_NOCOM", "PRE_FULLCOM"}
  PROVE  LET t == EnterState(s, state)
         IN /\ t \in SMRecord /\ t.BsmState = state /\ t.Trcv = s.Trcv
            /\ t.currentMode = s.currentMode /\ t.PduMode = s.PduMode
            /\ t.requestAccepted = s.requestAccepted /\ t.target = s.target
            /\ t.indicated = s.indicated
            /\ \A c \in Controller : t.ctrl[c].indMode = "UNINIT"
            /\ t.sub = IF state = "PRE_NOCOM"
                       THEN IF CanSMTrcvPNEnabled(s) THEN "PN_CLEAR_WUF" ELSE "CC_STOPPED"
                       ELSE IF s.Trcv # "none" THEN "TRCV_NORMAL" ELSE "CC_STOPPED"
<1>. DEFINE x == IF state = "PRE_NOCOM"
                 THEN IF CanSMTrcvPNEnabled(s) THEN "PN_CLEAR_WUF" ELSE "CC_STOPPED"
                 ELSE IF s.Trcv # "none" THEN "TRCV_NORMAL" ELSE "CC_STOPPED"
            a == [s EXCEPT !.RepeatCounter = 0, !.subStateTimer = 0, !.BsmState = state,
                           !.sub = "NONE"]
            b == [a EXCEPT !.sub = x]
            f == [c \in Controller |-> [b.ctrl[c] EXCEPT !.indMode = "UNINIT"]]
            t == [b EXCEPT !.ctrl = f]
<1>1. x \in Substate
  BY DEF Substate
<1>2. EnterState(s, state) = t
  BY Zenon DEF EnterState, ResetControllerIndications
<1>. HIDE DEF x
<1>3. a \in SMRecord
  BY Zenon DEF SMRecord, Substate
<1>4. /\ a.BsmState = state /\ a.Trcv = s.Trcv /\ a.currentMode = s.currentMode
      /\ a.PduMode = s.PduMode /\ a.requestAccepted = s.requestAccepted
      /\ a.target = s.target /\ a.indicated = s.indicated
  BY DEF SMRecord
<1>. HIDE DEF a
<1>5. b \in SMRecord /\ b.sub = x
  BY <1>1, <1>3 DEF SMRecord
<1>6. /\ b.BsmState = state /\ b.Trcv = s.Trcv /\ b.currentMode = s.currentMode
      /\ b.PduMode = s.PduMode /\ b.requestAccepted = s.requestAccepted
      /\ b.target = s.target /\ b.indicated = s.indicated
  BY <1>3, <1>4 DEF SMRecord
<1>. HIDE DEF b
<1>7. /\ f \in [Controller -> ControllerModeBuf]
      /\ \A c \in Controller : f[c].indMode = "UNINIT"
  <2>1. b.ctrl \in [Controller -> ControllerModeBuf]
    BY <1>5 DEF SMRecord
  <2>2. \A c \in Controller : LET k == [b.ctrl[c] EXCEPT !.indMode = "UNINIT"]
                              IN k \in ControllerModeBuf /\ k.indMode = "UNINIT"
    BY <2>1 DEF ControllerModeBuf, ControllerMode
  <2>. QED BY <2>2, Zenon
<1>. HIDE DEF f
<1>8. t \in SMRecord /\ Kept(b, t) /\ t.ctrl = f /\ t.target = b.target
  BY <1>5, <1>7, CtrlUpdate
<1>. QED BY <1>2, <1>5, <1>6, <1>7, <1>8 DEF Kept, Base, x

\* PRE_NOCOM may be entered, and its first substate is not its last.
LEMMA EnterPreNoComSound ==
  ASSUME NEW s, Restartable(s)
  PROVE  LET t == EnterState(s, "PRE_NOCOM")
         IN /\ SMOK(t) /\ t.BsmState = "PRE_NOCOM" /\ t.currentMode = s.currentMode
            /\ t.indicated = s.indicated /\ PreNoCom(t.Trcv)[t.sub][2] # "EXIT"
            /\ ~t.requestAccepted
<1>. DEFINE t == EnterState(s, "PRE_NOCOM")
<1>1. /\ s \in SMRecord /\ ~s.requestAccepted /\ s.PduMode # "ONLINE" /\ s.currentMode # "FULL"
      /\ s.Trcv \in Kind
  BY DEF Restartable, SMRecord
<1>2. /\ t \in SMRecord /\ t.BsmState = "PRE_NOCOM" /\ t.Trcv = s.Trcv
      /\ t.currentMode = s.currentMode /\ t.PduMode = s.PduMode
      /\ t.requestAccepted = s.requestAccepted /\ t.indicated = s.indicated
      /\ \A c \in Controller : t.ctrl[c].indMode = "UNINIT"
      /\ t.sub = IF CanSMTrcvPNEnabled(s) THEN "PN_CLEAR_WUF" ELSE "CC_STOPPED"
  BY <1>1, EnterPreSound
<1>. HIDE DEF t
<1>3. /\ t.sub \in DOMAIN PreNoCom(t.Trcv) /\ PreNoCom(t.Trcv)[t.sub][2] # "EXIT"
      /\ ~PastStopped(t.Trcv, t.sub) /\ ~PastSleep(t.Trcv, t.sub)
  BY <1>1, <1>2 DEF PreNoCom, CanSMTrcvPNEnabled, PastStopped, PastSleep, Kind
<1>4. PreNoComOK(t) /\ AcceptedOK(t)
  BY <1>1, <1>2, <1>3 DEF PreNoComOK, AcceptedOK
<1>5. \A c \in Controller : Truth(t, c)
  BY <1>2, Zenon DEF Truth
<1>. QED BY <1>1, <1>2, <1>3, <1>4, <1>5, Zenon DEF SMOK, PhaseOK, t

\* CanSM starts over: the network is left in PRE_NOCOM with the invariant.
LEMMA RestartSound ==
  ASSUME NEW s, Restartable(s), NEW t \in Restart_PRE_NOCOM(s)
  PROVE  SMOK(t) /\ t.BsmState = "PRE_NOCOM" /\ t.currentMode = s.currentMode
         /\ t.indicated = s.indicated
<1>. DEFINE e == EnterState(s, "PRE_NOCOM")
<1>1. /\ SMOK(e) /\ e.BsmState = "PRE_NOCOM" /\ e.currentMode = s.currentMode
      /\ e.indicated = s.indicated /\ PreNoCom(e.Trcv)[e.sub][2] # "EXIT"
      /\ ~e.requestAccepted
  BY EnterPreNoComSound
<1>2. PICK r \in BSM_S_PRE_NOCOM(e) : t = r[2]
  BY DEF Restart_PRE_NOCOM
<1>. HIDE DEF e
<1>. QED BY <1>1, <1>2, PreNoComSound

\* The table of PRE_FULLCOM.
LEMMA PreFullComTable ==
  ASSUME NEW x \in DOMAIN PreFullCom
  PROVE  LET step == PreFullCom[x]
             first == TransitionConfig[step[1]][1]
             second == TransitionConfig[step[1]][2]
             y == step[2]
         IN /\ first \in Action /\ first # CC("SLEEP")
            /\ IF Awaits(x) = "UNINIT" THEN first[1] # "CC_MODE" ELSE first = CC(Awaits(x))
            /\ IF y = "EXIT" THEN second = NO_MODE /\ Awaits(x) = "STARTED"
               ELSE /\ y \in DOMAIN PreFullCom /\ y \in Substate /\ second \in Action
                    /\ second = CC(Awaits(y)) /\ Awaits(y) # "UNINIT"
<1>1. DOMAIN PreFullCom = {"TRCV_NORMAL", "CC_STOPPED", "CC_STARTED"}
  BY DEF PreFullCom
<1>2. CASE x = "TRCV_NORMAL"
  <2>1. PreFullCom[x] = <<"TRCV_NORMAL_CC_STOPPED", "CC_STOPPED">>
    BY <1>2 DEF PreFullCom
  <2>2. TransitionConfig["TRCV_NORMAL_CC_STOPPED"] = <<TRCV("NORMAL"), CC("STOPPED")>>
    BY DEF TransitionConfig
  <2>. QED BY <1>1, <1>2, <2>1, <2>2, AwaitsCases DEF Substate, Action, CC, TRCV
<1>3. CASE x = "CC_STOPPED"
  <2>1. PreFullCom[x] = <<"CC_STOPPED_CC_STARTED", "CC_STARTED">>
    BY <1>3 DEF PreFullCom
  <2>2. TransitionConfig["CC_STOPPED_CC_STARTED"] = <<CC("STOPPED"), CC("STARTED")>>
    BY DEF TransitionConfig
  <2>. QED BY <1>1, <1>3, <2>1, <2>2, AwaitsCases DEF Substate, Action, CC
<1>4. CASE x = "CC_STARTED"
  <2>1. PreFullCom[x] = <<"CC_STARTED_NONE", "EXIT">>
    BY <1>4 DEF PreFullCom
  <2>2. TransitionConfig["CC_STARTED_NONE"] = <<CC("STARTED"), NO_MODE>>
    BY Zenon DEF TransitionConfig
  <2>. QED BY <1>4, <2>1, <2>2, AwaitsCases DEF Action, CC
<1>. QED BY <1>1, <1>2, <1>3, <1>4, Zenon

\* The controllers make for what is awaited and for nothing else; when all have
\* indicated it they make for nothing.
LEMMA AllReached ==
  ASSUME NEW s, NEW m, \A c \in Controller : Truth(s, c), Makes(s, {m}),
         m = "UNINIT" \/ \A c \in Controller : s.ctrl[c].indMode = m
  PROVE  \A c \in Controller : s.target[c] = "UNINIT"
BY Zenon DEF Truth, Makes

\* Asking the controllers for the mode they are making already changes nothing.
LEMMA MakesAsked ==
  ASSUME NEW s, NEW t, NEW m, Makes(s, {m}), NEW a, a[1] = "CC_MODE" => a[2] = m,
         Drivers(s, t, a)
  PROVE  Makes(t, {m})
<1>1. CASE a[1] = "CC_MODE"
  BY <1>1, Zenon DEF Drivers, Makes, AskedOne
<1>2. CASE a[1] # "CC_MODE"
  BY <1>2, Zenon DEF Drivers, Makes
<1>. QED BY <1>1, <1>2

\* CanSm_Internal_BSM_S_PRE_FULLCOM: it is left for FULLCOM with all controllers started.
LEMMA PreFullComSound ==
  ASSUME NEW s, SMOK(s), s.BsmState = "PRE_FULLCOM", NEW r \in BSM_S_PRE_FULLCOM(s)
  PROVE  /\ r[1] \in {"REP_MAX", "EXIT", "NONE"} /\ r[2] \in SMRecord
         /\ r[2].currentMode = "NO" /\ r[2].indicated = s.indicated
         /\ r[1] = "NONE" => SMOK(r[2]) /\ r[2].BsmState = "PRE_FULLCOM"
         /\ r[1] = "EXIT" => ~r[2].requestAccepted /\ AllIn(r[2], "STARTED")
                             /\ \A c \in Controller : Truth(r[2], c)
         /\ r[1] = "REP_MAX" => Restartable(r[2])
<1>. DEFINE step == PreFullCom[s.sub]
            first == TransitionConfig[step[1]][1]
            second == TransitionConfig[step[1]][2]
            m == Awaits(s.sub)
<1>1. /\ s \in SMRecord /\ PreFullComOK(s) /\ AcceptedOK(s)
      /\ \A c \in Controller : Truth(s, c)
  BY DEF SMOK, PhaseOK
<1>2. /\ first \in Action /\ first # CC("SLEEP")
      /\ IF m = "UNINIT" THEN first[1] # "CC_MODE" ELSE first = CC(m)
      /\ IF step[2] = "EXIT" THEN second = NO_MODE /\ m = "STARTED"
         ELSE /\ step[2] \in DOMAIN PreFullCom /\ step[2] \in Substate /\ second \in Action
              /\ second = CC(Awaits(step[2])) /\ Awaits(step[2]) # "UNINIT"
  BY <1>1, PreFullComTable, Zenon DEF PreFullComOK
<1>3. PICK q \in CanSM_Internal_Execute(s, step[1]) :
        LET t == [q[2] EXCEPT !.subStateTimer = (IF q[1] = "WAIT_INDICATION" THEN @ ELSE 0) + 1]
        IN r = CASE q[1] = "REPEAT_MAX" -> <<"REP_MAX", ResetPendingIndications(t)>>
                 [] q[1] = "DONE" /\ step[2] = "EXIT" -> <<"EXIT", t>>
                 [] q[1] = "DONE" /\ step[2] # "EXIT" -> <<"NONE", [t EXCEPT !.sub = step[2]]>>
                 [] q[1] = "TIMEOUT" -> <<"NONE", [t EXCEPT !.sub = "CHECK_WUF_IN_NOT_CC_SLEEP"]>>
                 [] OTHER -> <<"NONE", t>>
  BY Zenon DEF BSM_S_PRE_FULLCOM, BSM_S_PRE
<1>. DEFINE u == q[2]
            n == (IF q[1] = "WAIT_INDICATION" THEN u.subStateTimer ELSE 0) + 1
            t == [u EXCEPT !.subStateTimer = n]
            w == [t EXCEPT !.sub = step[2]]
<1>4. Executed(s, q[1], u, first, second)
  <2>1. second \in Action \cup {NO_MODE}
    BY <1>2
  <2>. QED BY <1>1, <1>2, <2>1, ExecuteSound, Zenon
<1>5. u \in SMRecord /\ Base(s, u) /\ n \in Nat /\ \A c \in Controller : Truth(u, c)
  <2>1. u \in SMRecord /\ Base(s, u) /\ \A c \in Controller : Truth(u, c)
    BY <1>4, Zenon DEF Executed
  <2>2. u.subStateTimer \in Nat
    BY <2>1, Zenon DEF SMRecord
  <2>. QED BY <2>1, <2>2
<1>6. r = CASE q[1] = "REPEAT_MAX" -> <<"REP_MAX", ResetPendingIndications(t)>>
            [] q[1] = "DONE" /\ step[2] = "EXIT" -> <<"EXIT", t>>
            [] q[1] = "DONE" /\ step[2] # "EXIT" -> <<"NONE", w>>
            [] OTHER -> <<"NONE", t>>
  <2>1. q[1] # "TIMEOUT"
    BY <1>2, <1>4, Zenon DEF Executed
  <2>. QED BY <1>3, <2>1
<1>. HIDE DEF n, u, step
<1>7. t \in SMRecord /\ View(u, t) /\ t.sub = s.sub
  <2>1. t \in SMRecord /\ View(u, t) /\ t.sub = u.sub
    BY <1>5, TimerUpdate
  <2>. QED BY <1>5, <2>1 DEF Base
<1>. HIDE DEF t
<1>8. /\ t.currentMode = "NO" /\ t.PduMode = s.PduMode /\ t.PduMode # "ONLINE"
      /\ t.indicated = s.indicated
      /\ t.BsmState = "PRE_FULLCOM" /\ t.requestAccepted = u.requestAccepted
      /\ t.ctrl = u.ctrl /\ t.target = u.target
      /\ \A c \in Controller : Truth(t, c)
  BY <1>1, <1>5, <1>7, SMTT(30) DEF View, Base, PreFullComOK, Truth
<1>9. CASE q[1] = "REPEAT_MAX"
  <2>1. r = <<"REP_MAX", ResetPendingIndications(t)>>
    BY <1>6, <1>9
  <2>2. ~t.requestAccepted
    BY <1>4, <1>8, <1>9, Zenon DEF Executed
  <2>. QED BY <1>7, <1>8, <2>1, <2>2, ResetPendingRestartable, Zenon DEF Restartable
<1>10. CASE q[1] = "DONE"
  <2>1. s.requestAccepted /\ modeReadRequest(s, first) /\ Drivers(s, u, second)
        /\ (second = NO_MODE => ~u.requestAccepted)
    BY <1>4, <1>10, Zenon DEF Executed
  <2>2. m = "UNINIT" \/ \A c \in Controller : s.ctrl[c].indMode = m
    <3>1. m # "UNINIT" => first[1] = "CC_MODE"
      BY <1>2 DEF CC
    <3>. QED BY <1>1, <2>1, <3>1, Zenon DEF modeReadRequest, AcceptedOK
  <2>3. \A c \in Controller : s.target[c] = "UNINIT"
    BY <1>1, <2>2, AllReached, Zenon DEF PreFullComOK
  <2>4. CASE step[2] = "EXIT"
    <3>1. r = <<"EXIT", t>> /\ ~t.requestAccepted
      BY <1>2, <1>6, <1>8, <1>10, <2>1, <2>4
    <3>2. t.ctrl = s.ctrl /\ t.target = s.target /\ m = "STARTED"
      BY <1>2, <1>8, <2>1, <2>4, SMTT(30) DEF Drivers, NO_MODE
    <3>3. AllIn(t, "STARTED")
      BY <2>2, <2>3, <3>2, Zenon DEF AllIn
    <3>. QED BY <1>7, <1>8, <3>1, <3>3
  <2>5. CASE step[2] # "EXIT"
    <3>1. r = <<"NONE", w>>
      BY <1>6, <1>10, <2>5
    <3>2. w \in SMRecord /\ View(t, w) /\ w.sub = step[2]
      BY <1>2, <1>7, <2>5, SubUpdate
    <3>. HIDE DEF w
    <3>3. second[1] = "CC_MODE" /\ second[2] = Awaits(w.sub) /\ w.sub \in DOMAIN PreFullCom
      BY <1>2, <2>5, <3>2 DEF CC
    <3>4. \A c \in Controller : AskedOne(s, u, c, Awaits(w.sub))
      BY <2>1, <3>3, Zenon DEF Drivers
    <3>5. w.ctrl = u.ctrl /\ w.target = u.target
      BY <1>8, <3>2 DEF View
    <3>6. Makes(w, {Awaits(w.sub)})
      BY <2>3, <3>4, <3>5, Zenon DEF Makes, AskedOne
    <3>7. AcceptedOK(w)
      BY <3>4, <3>5, Zenon DEF AcceptedOK, AskedOne
    <3>8. PreFullComOK(w) /\ w.BsmState = "PRE_FULLCOM" /\ w.indicated = s.indicated
      BY <1>8, <3>2, <3>3, <3>6 DEF View, PreFullComOK
    <3>9. \A c \in Controller : Truth(w, c)
      BY <1>8, <3>2, ZenonT(30) DEF View, Truth
    <3>10. SMOK(w)
      BY <3>2, <3>7, <3>8, <3>9 DEF SMOK, PhaseOK
    <3>. QED BY <3>1, <3>2, <3>8, <3>10, Zenon DEF PreFullComOK
  <2>. QED BY <2>4, <2>5, Zenon
<1>11. CASE q[1] \in {"REQ_ACCEPTED", "FAIL", "WAIT_INDICATION"}
  <2>1. r = <<"NONE", t>>
    BY <1>6, <1>11
  <2>2. Drivers(s, u, first) \/ (Idle(s, u) /\ u.requestAccepted = s.requestAccepted)
    BY <1>4, <1>11, Zenon DEF Executed
  <2>3. first[1] = "CC_MODE" => first[2] = m /\ m # "UNINIT"
    BY <1>2 DEF CC
  <2>4. Makes(u, {m})
    <3>1. NO_MODE[1] # "CC_MODE"
      BY DEF NO_MODE
    <3>2. Makes(s, {m})
      BY <1>1 DEF PreFullComOK
    <3>. QED BY <2>2, <2>3, <3>1, <3>2, MakesAsked DEF Idle
  <2>5. Makes(t, {m})
    BY <1>8, <2>4, Zenon DEF Makes
  <2>6. PreFullComOK(t)
    BY <1>1, <1>7, <1>8, <2>5 DEF PreFullComOK
  <2>7. AcceptedOK(t)
    <3>1. CASE Drivers(s, u, first) /\ m # "UNINIT"
      <4>1. first[1] = "CC_MODE" /\ first[2] = m
        BY <1>2, <3>1 DEF CC
      <4>2. \A c \in Controller : u.ctrl[c].pendingMode = m
        BY <3>1, <4>1, Zenon DEF Drivers, AskedOne
      <4>. QED BY <1>7, <1>8, <4>2, Zenon DEF AcceptedOK
    <3>2. CASE m = "UNINIT"
      BY <1>7, <3>2 DEF AcceptedOK
    <3>3. CASE Idle(s, u) /\ u.requestAccepted = s.requestAccepted
      <4>1. u.ctrl = s.ctrl
        BY <3>3 DEF Idle, Drivers, NO_MODE
      <4>. QED BY <1>1, <1>7, <1>8, <3>3, <4>1, Zenon DEF AcceptedOK
    <3>. QED BY <2>2, <3>1, <3>2, <3>3
  <2>8. SMOK(t)
    BY <1>7, <1>8, <2>6, <2>7 DEF SMOK, PhaseOK
  <2>. QED BY <1>7, <1>8, <2>1, <2>8
<1>12. q[1] \in {"REQ_ACCEPTED", "REPEAT_MAX", "FAIL", "DONE", "WAIT_INDICATION"}
  BY <1>2, <1>4, Zenon DEF Executed
<1>. QED BY <1>9, <1>10, <1>11, <1>12, Zenon

\* The transition that starts the controllers, in FULLCOM.
LEMMA StartedNone ==
  /\ TransitionConfig["CC_STARTED_NONE"] = <<CC("STARTED"), NO_MODE>>
  /\ CC("STARTED") \in Action /\ CC("STARTED")[1] = "CC_MODE" /\ CC("STARTED")[2] = "STARTED"
  /\ CC("STARTED") # CC("SLEEP")
BY Zenon DEF TransitionConfig, Action, CC

\* t agrees with s on what the invariant speaks of
Seen(s, t) ==
  /\ t.Trcv = s.Trcv /\ t.BsmState = s.BsmState /\ t.currentMode = s.currentMode
  /\ t.PduMode = s.PduMode /\ t.busoffevent = s.busoffevent
  /\ t.requestAccepted = s.requestAccepted /\ t.ctrl = s.ctrl /\ t.mode = s.mode
  /\ t.target = s.target /\ t.missed = s.missed

\* The invariant does not depend on the clocks and counters, on the transceiver or on what
\* has just been indicated to ComM.
LEMMA SeenSound ==
  ASSUME NEW s, SMOK(s), NEW t \in SMRecord, Seen(s, t), t.sub = s.sub
  PROVE  SMOK(t)
<1>1. \A c \in Controller : Truth(t, c)
  BY Zenon DEF SMOK, Truth, Seen
<1>2. AcceptedOK(t)
  BY Zenon DEF SMOK, AcceptedOK, Seen
<1>3. PhaseOK(t)
  <2>1. /\ PreNoComOK(s) => PreNoComOK(t)
        /\ PreFullComOK(s) => PreFullComOK(t)
        /\ FullComOK(s) => FullComOK(t)
        /\ \A m : Resting(s, m) => Resting(t, m)
        /\ \A m : AllIn(s, m) => AllIn(t, m)
    BY Zenon DEF Seen, PreNoComOK, PreFullComOK, FullComOK, Resting, AllIn, Makes
  <2>2. t.BsmState = s.BsmState /\ PhaseOK(s)
        /\ s.BsmState \in {"NOT_INITIALIZED", "PRE_NOCOM", "NOCOM", "PRE_FULLCOM", "FULLCOM",
                           "SILENTCOM"}
    BY DEF Seen, SMOK, SMRecord
  <2>. QED BY <2>1, <2>2, Zenon DEF PhaseOK
<1>. QED BY <1>1, <1>2, <1>3 DEF SMOK

\* The invariant depends on what View compares, and on the substate.
LEMMA ViewSound ==
  ASSUME NEW s, SMOK(s), NEW t \in SMRecord, View(s, t), t.sub = s.sub
  PROVE  SMOK(t)
BY SeenSound DEF View, Seen

\* The bus off timer is in no part of the invariant.
LEMMA BusOffTimeUpdate ==
  ASSUME NEW s \in SMRecord
  PROVE  LET t == [s EXCEPT !.busoffTime =
                     AtMost(@ + 1, AtLeast(CanSMBorTimeL1, CanSMBorTimeL2))]
         IN t \in SMRecord /\ View(s, t) /\ t.sub = s.sub
<1>. DEFINE n == AtMost(s.busoffTime + 1, AtLeast(CanSMBorTimeL1, CanSMBorTimeL2))
            t == [s EXCEPT !.busoffTime = n]
<1>1. s.busoffTime \in Nat
  BY DEF SMRecord
<1>2. n \in Nat
  BY <1>1, TimesAssumption DEF AtMost, AtLeast
<1>. HIDE DEF n
<1>3. t \in SMRecord
  BY <1>2 DEF SMRecord
<1>4. View(s, t) /\ t.sub = s.sub
  BY DEF SMRecord, View
<1>. QED BY <1>3, <1>4 DEF n

\* Indicating a mode to ComM, and switching the PDUs.
LEMMA IndicateType ==
  ASSUME NEW s \in SMRecord, NEW m \in ComMode
  PROVE  LET t == IndicateToComM(s, m)
         IN /\ t \in SMRecord /\ t.currentMode = m /\ t.indicated = m
            /\ t.Trcv = s.Trcv /\ t.BsmState = s.BsmState /\ t.sub = s.sub
            /\ t.PduMode = s.PduMode /\ t.busoffevent = s.busoffevent
            /\ t.requestAccepted = s.requestAccepted /\ t.ctrl = s.ctrl /\ t.mode = s.mode
            /\ t.target = s.target /\ t.missed = s.missed
<1>1. IndicateToComM(s, m) \in SMRecord
  BY Zenon DEF IndicateToComM, SMRecord
<1>. QED BY <1>1 DEF IndicateToComM, SMRecord

\* SetNetworkPduMode changes the PDU mode, and to ONLINE only when asked to.
LEMMA PduModeType ==
  ASSUME NEW s \in SMRecord, NEW q \in {"ONLINE", "OFFLINE", "TX_OFFLINE"}
  PROVE  LET t == SetNetworkPduMode(s, q)
         IN /\ t \in SMRecord /\ (q # "ONLINE" => t.PduMode # "ONLINE")
            /\ t.Trcv = s.Trcv /\ t.BsmState = s.BsmState /\ t.sub = s.sub
            /\ t.currentMode = s.currentMode /\ t.busoffevent = s.busoffevent
            /\ t.requestAccepted = s.requestAccepted /\ t.ctrl = s.ctrl /\ t.mode = s.mode
            /\ t.target = s.target /\ t.missed = s.missed /\ t.indicated = s.indicated
<1>. DEFINE p == CASE q = "ONLINE" -> "ONLINE"
                   [] q = "OFFLINE" -> "OFFLINE"
                   [] q = "TX_OFFLINE" -> IF s.PduMode = "ONLINE" THEN "RX_ONLINE" ELSE s.PduMode
            t == [s EXCEPT !.PduMode = p]
<1>1. SetNetworkPduMode(s, q) = t
  BY DEF SetNetworkPduMode
<1>2. s.PduMode \in {"OFFLINE", "RX_ONLINE", "ONLINE"}
  BY DEF SMRecord
<1>3. p \in {"OFFLINE", "RX_ONLINE", "ONLINE"} /\ (q # "ONLINE" => p # "ONLINE")
  BY <1>2
<1>. HIDE DEF p
<1>4. t \in SMRecord
  BY <1>3 DEF SMRecord
<1>5. /\ t.PduMode = p /\ t.Trcv = s.Trcv /\ t.BsmState = s.BsmState /\ t.sub = s.sub
      /\ t.currentMode = s.currentMode /\ t.busoffevent = s.busoffevent
      /\ t.requestAccepted = s.requestAccepted /\ t.ctrl = s.ctrl /\ t.mode = s.mode
      /\ t.target = s.target /\ t.missed = s.missed /\ t.indicated = s.indicated
  BY DEF SMRecord
<1>. QED BY <1>1, <1>3, <1>4, <1>5

\* ResetControllerIndications forgets what the controllers indicated.
LEMMA ResetIndicationsType ==
  ASSUME NEW s \in SMRecord
  PROVE  LET t == ResetControllerIndications(s)
         IN /\ t \in SMRecord /\ Kept(s, t) /\ t.target = s.target
            /\ \A c \in Controller : t.ctrl[c].indMode = "UNINIT"
<1>. DEFINE f == [c \in Controller |-> [s.ctrl[c] EXCEPT !.indMode = "UNINIT"]]
            t == [s EXCEPT !.ctrl = f]
<1>1. ResetControllerIndications(s) = t
  BY DEF ResetControllerIndications
<1>2. /\ f \in [Controller -> ControllerModeBuf]
      /\ \A c \in Controller : f[c].indMode = "UNINIT"
  <2>1. s.ctrl \in [Controller -> ControllerModeBuf]
    BY DEF SMRecord
  <2>2. \A c \in Controller : LET k == [s.ctrl[c] EXCEPT !.indMode = "UNINIT"]
                              IN k \in ControllerModeBuf /\ k.indMode = "UNINIT"
    BY <2>1 DEF ControllerModeBuf, ControllerMode
  <2>. QED BY <2>2, Zenon
<1>. HIDE DEF f
<1>3. t \in SMRecord /\ Kept(s, t) /\ t.ctrl = f /\ t.target = s.target
  BY <1>2, CtrlUpdate
<1>. QED BY <1>1, <1>2, <1>3

\* A bus-off met in full communication: transmission is switched off before the
\* controllers are restarted.
LEMMA BusOffMetSound ==
  ASSUME NEW s \in SMRecord, s.BsmState = "FULLCOM", ~s.requestAccepted, AllIn(s, "STARTED"),
         NEW r \in BusOffMet(s)
  PROVE  /\ r[1] \in {"PRENOCOMM", "NONE"} /\ r[2] \in SMRecord
         /\ r[2].currentMode = "SILENT" /\ r[2].indicated = "SILENT"
         /\ r[1] = "NONE" => SMOK(r[2]) /\ r[2].BsmState = "FULLCOM"
         /\ r[1] = "PRENOCOMM" => Restartable(r[2])
<1>. DEFINE n == AtMost(s.busoffCounter + 1, CanSMBorCounterL1ToL2)
            a == [s EXCEPT !.busoffTime = 0, !.busoffevent = FALSE, !.busoffCounter = n]
            b == ResetControllerIndications(a)
            d == IndicateToComM(b, "SILENT")
            t == SetNetworkPduMode(d, "OFFLINE")
<1>1. n \in Nat
  <2>1. s.busoffCounter \in Nat
    BY DEF SMRecord
  <2>. QED BY <2>1, TimesAssumption DEF AtMost
<1>2. PICK q \in CanSM_Internal_Execute(t, "CC_STARTED_NONE") :
        LET u == [q[2] EXCEPT !.subStateTimer = 0]
        IN r = IF q[1] = "REPEAT_MAX" THEN <<"PRENOCOMM", ResetPendingIndications(u)>>
               ELSE <<"NONE", [u EXCEPT !.sub = "RESTART_CC"]>>
  BY Zenon DEF BusOffMet
<1>. HIDE DEF n
<1>3. a \in SMRecord
  BY <1>1, Zenon DEF SMRecord
<1>4. a.BsmState = "FULLCOM" /\ ~a.requestAccepted /\ a.target = s.target /\ a.Trcv = s.Trcv
  BY DEF SMRecord
<1>. HIDE DEF a
<1>5. /\ b \in SMRecord /\ b.BsmState = "FULLCOM" /\ ~b.requestAccepted
      /\ b.target = s.target /\ \A c \in Controller : b.ctrl[c].indMode = "UNINIT"
  BY <1>3, <1>4, ResetIndicationsType, Zenon DEF Kept, Base
<1>. HIDE DEF b
<1>6. /\ d \in SMRecord /\ d.BsmState = "FULLCOM" /\ ~d.requestAccepted
      /\ d.target = s.target /\ (\A c \in Controller : d.ctrl[c].indMode = "UNINIT")
      /\ d.currentMode = "SILENT" /\ d.indicated = "SILENT"
  BY <1>5, IndicateType DEF ComMode
<1>. HIDE DEF d
<1>7. /\ t \in SMRecord /\ t.BsmState = "FULLCOM" /\ ~t.requestAccepted
      /\ t.target = s.target /\ (\A c \in Controller : t.ctrl[c].indMode = "UNINIT")
      /\ t.currentMode = "SILENT" /\ t.indicated = "SILENT" /\ t.PduMode # "ONLINE"
  BY <1>6, PduModeType
<1>. HIDE DEF t
<1>8. \A c \in Controller : Truth(t, c)
  BY <1>7, Zenon DEF Truth
<1>. DEFINE e == q[2]
            u == [e EXCEPT !.subStateTimer = 0]
            w == [u EXCEPT !.sub = "RESTART_CC"]
<1>9. Executed(t, q[1], e, CC("STARTED"), NO_MODE)
  BY <1>7, <1>8, ExecuteSound, StartedNone
<1>10. r = IF q[1] = "REPEAT_MAX" THEN <<"PRENOCOMM", ResetPendingIndications(u)>>
           ELSE <<"NONE", w>>
  BY <1>2
<1>. HIDE DEF e
<1>11. /\ e \in SMRecord /\ Base(t, e) /\ Drivers(t, e, CC("STARTED"))
       /\ (\A c \in Controller : Truth(e, c))
       /\ q[1] = "REPEAT_MAX" => ~e.requestAccepted
  BY <1>7, <1>9, Zenon DEF Executed
<1>12. u \in SMRecord /\ View(e, u)
  BY <1>11, TimerUpdate
<1>. HIDE DEF u
<1>13. w \in SMRecord /\ View(u, w) /\ w.sub = "RESTART_CC"
  BY <1>12, SubUpdate DEF Substate
<1>. HIDE DEF w
<1>14. /\ u.currentMode = "SILENT" /\ u.indicated = "SILENT" /\ u.PduMode # "ONLINE"
       /\ u.requestAccepted = e.requestAccepted
  BY <1>7, <1>11, <1>12 DEF View, Base
<1>15. CASE q[1] = "REPEAT_MAX"
  BY <1>10, <1>11, <1>12, <1>14, <1>15, ResetPendingRestartable DEF Restartable
<1>16. CASE q[1] # "REPEAT_MAX"
  <2>1. /\ w.currentMode = "SILENT" /\ w.indicated = "SILENT" /\ w.PduMode # "ONLINE"
        /\ w.BsmState = "FULLCOM" /\ w.ctrl = e.ctrl /\ w.target = e.target
    BY <1>7, <1>11, <1>12, <1>13, SMTT(30) DEF View, Base
  <2>2. \A c \in Controller : Truth(w, c)
    <3>1. View(e, w)
      BY <1>12, <1>13 DEF View
    <3>. QED BY <1>11, <3>1, Zenon DEF View, Truth
  <2>3. \A c \in Controller : AskedOne(t, e, c, "STARTED")
    <3>. DEFINE a1 == CC("STARTED")
    <3>1. a1[1] = "CC_MODE" /\ a1[2] = "STARTED" /\ Drivers(t, e, a1)
      BY <1>11, StartedNone
    <3>. HIDE DEF a1
    <3>. QED BY <3>1, Zenon DEF Drivers
  <2>4. Makes(w, {"STARTED"})
    <3>1. \A c \in Controller : t.target[c] = "UNINIT"
      BY <1>7, Zenon DEF AllIn
    <3>. QED BY <2>1, <2>3, <3>1, ZenonT(30) DEF AskedOne, Makes
  <2>5. AcceptedOK(w)
    <3>1. Awaits(w.sub) = "STARTED"
      BY <1>13, AwaitsCases
    <3>. QED BY <2>1, <2>3, <3>1, Zenon DEF AskedOne, AcceptedOK
  <2>6. SMOK(w)
    BY <1>13, <2>1, <2>2, <2>4, <2>5 DEF SMOK, PhaseOK, FullComOK
  <2>. QED BY <1>10, <1>13, <1>16, <2>1, <2>6
<1>. QED BY <1>15, <1>16

\* The controllers are being restarted: transmission stays off, and the restart is over
\* only when all have indicated that they are started.
LEMMA RestartCCSound ==
  ASSUME NEW s, SMOK(s), s.BsmState = "FULLCOM", s.sub = "RESTART_CC", NEW r \in RESTART_CC(s)
  PROVE  /\ r[1] \in {"PRENOCOMM", "NONE"} /\ r[2] \in SMRecord
         /\ r[2].currentMode = "SILENT" /\ r[2].indicated = s.indicated
         /\ r[1] = "NONE" => SMOK(r[2]) /\ r[2].BsmState = "FULLCOM"
         /\ r[1] = "PRENOCOMM" => Restartable(r[2])
<1>. DEFINE s1 == [s EXCEPT !.subStateTimer = @ + 1]
<1>1. s \in SMRecord /\ s.subStateTimer + 1 \in Nat
  <2>1. s \in SMRecord
    BY DEF SMOK
  <2>2. s.subStateTimer \in Nat
    BY <2>1 DEF SMRecord
  <2>. QED BY <2>1, <2>2
<1>2. s1 \in SMRecord /\ View(s, s1) /\ s1.sub = s.sub
  BY <1>1, TimerUpdate
<1>3. PICK q \in CanSM_Internal_Execute(s1, "CC_STARTED_NONE") :
        LET t == [q[2] EXCEPT !.subStateTimer = 0]
        IN r = CASE q[1] = "DONE" ->
                      <<"NONE", SetNetworkPduMode([t EXCEPT !.sub = "TX_OFF"], "TX_OFFLINE")>>
                 [] q[1] \in {"FAIL", "REQ_ACCEPTED"} -> <<"NONE", t>>
                 [] q[1] = "REPEAT_MAX" ->
                      <<"PRENOCOMM", ResetPendingIndications([t EXCEPT !.busoffevent = FALSE])>>
                 [] OTHER -> <<"NONE", q[2]>>
  BY Zenon DEF RESTART_CC
<1>. HIDE DEF s1
<1>4. SMOK(s1) /\ s1.BsmState = "FULLCOM" /\ s1.sub = "RESTART_CC" /\ s1.indicated = s.indicated
  BY <1>2, ViewSound DEF View
<1>5. /\ FullComOK(s1) /\ AcceptedOK(s1) /\ \A c \in Controller : Truth(s1, c)
  BY <1>4 DEF SMOK, PhaseOK
<1>6. s1.currentMode = "SILENT" /\ s1.PduMode # "ONLINE" /\ Makes(s1, {"STARTED"})
  BY <1>4, <1>5 DEF FullComOK
<1>. DEFINE e == q[2]
            t == [e EXCEPT !.subStateTimer = 0]
            v == [t EXCEPT !.busoffevent = FALSE]
            x == [t EXCEPT !.sub = "TX_OFF"]
            w == SetNetworkPduMode(x, "TX_OFFLINE")
<1>7. Executed(s1, q[1], e, CC("STARTED"), NO_MODE)
  BY <1>2, <1>5, ExecuteSound, StartedNone
<1>8. r = CASE q[1] = "DONE" -> <<"NONE", w>>
            [] q[1] \in {"FAIL", "REQ_ACCEPTED"} -> <<"NONE", t>>
            [] q[1] = "REPEAT_MAX" -> <<"PRENOCOMM", ResetPendingIndications(v)>>
            [] OTHER -> <<"NONE", e>>
  BY <1>3
<1>. HIDE DEF e
<1>9. /\ e \in SMRecord /\ e.currentMode = "SILENT" /\ e.PduMode # "ONLINE"
      /\ e.sub = "RESTART_CC" /\ e.BsmState = "FULLCOM" /\ e.indicated = s.indicated
      /\ \A c \in Controller : Truth(e, c)
  <2>1. e \in SMRecord /\ Base(s1, e) /\ \A c \in Controller : Truth(e, c)
    BY <1>7 DEF Executed
  <2>. QED BY <1>4, <1>6, <2>1 DEF Base
<1>10. t \in SMRecord /\ View(e, t) /\ t.sub = e.sub
  BY <1>9, TimerUpdate
<1>. HIDE DEF t
<1>11. CASE q[1] = "DONE"
  <2>1. /\ s1.requestAccepted /\ modeReadRequest(s1, CC("STARTED"))
        /\ Drivers(s1, e, NO_MODE) /\ ~e.requestAccepted
    BY <1>7, <1>11, Zenon DEF Executed
  <2>2. e.ctrl = s1.ctrl /\ e.target = s1.target
    BY <2>1 DEF Drivers, NO_MODE
  <2>3. \A c \in Controller : s1.ctrl[c].indMode = "STARTED"
    BY <1>4, <1>5, <2>1, AwaitsCases, StartedNone, Zenon DEF modeReadRequest, AcceptedOK
  <2>4. \A c \in Controller : s1.target[c] = "UNINIT"
    BY <1>5, <1>6, <2>3, AllReached, Zenon
  <2>5. x \in SMRecord /\ View(t, x) /\ x.sub = "TX_OFF"
    BY <1>10, SubUpdate DEF Substate
  <2>. HIDE DEF x
  <2>6. View(e, x)
    BY <1>10, <2>5 DEF View
  <2>7. /\ w \in SMRecord /\ w.PduMode # "ONLINE" /\ w.currentMode = "SILENT"
        /\ w.BsmState = "FULLCOM" /\ w.sub = "TX_OFF" /\ w.ctrl = e.ctrl /\ w.target = e.target
        /\ ~w.requestAccepted /\ w.indicated = s.indicated
        /\ w.mode = e.mode /\ w.missed = e.missed /\ w.busoffevent = e.busoffevent
    BY <1>9, <2>1, <2>5, <2>6, PduModeType, SMTT(30) DEF View
  <2>. HIDE DEF w
  <2>8. AllIn(w, "STARTED")
    BY <2>2, <2>3, <2>4, <2>7, Zenon DEF AllIn
  <2>9. \A c \in Controller : Truth(w, c)
    BY <1>9, <2>7, Zenon DEF Truth
  <2>10. SMOK(w)
    BY <2>7, <2>8, <2>9 DEF SMOK, PhaseOK, FullComOK, AcceptedOK
  <2>. QED BY <1>8, <1>11, <2>7, <2>10
<1>12. CASE q[1] = "REPEAT_MAX"
  <2>1. ~t.requestAccepted /\ t.PduMode # "ONLINE" /\ t.currentMode = "SILENT"
        /\ t.indicated = s.indicated
    BY <1>7, <1>9, <1>10, <1>12, Zenon DEF Executed, View
  <2>2. v \in SMRecord
    BY <1>10, Zenon DEF SMRecord
  <2>3. ~v.requestAccepted /\ v.PduMode # "ONLINE" /\ v.currentMode = "SILENT"
        /\ v.indicated = s.indicated
    BY <1>10, <2>1 DEF SMRecord
  <2>. HIDE DEF v
  <2>. QED BY <1>8, <1>12, <2>2, <2>3, ResetPendingRestartable DEF Restartable
<1>13. CASE q[1] \in {"REQ_ACCEPTED", "FAIL", "WAIT_INDICATION"}
  <2>1. \/ Drivers(s1, e, CC("STARTED"))
        \/ Idle(s1, e) /\ e.requestAccepted = s1.requestAccepted
    BY <1>7, <1>13, Zenon DEF Executed
  <2>2. Makes(e, {"STARTED"}) /\ AcceptedOK(e)
    <3>1. CASE Drivers(s1, e, CC("STARTED"))
      <4>. DEFINE a1 == CC("STARTED")
      <4>1. a1[1] = "CC_MODE" /\ a1[2] = "STARTED" /\ Drivers(s1, e, a1)
        BY <3>1, StartedNone
      <4>. HIDE DEF a1
      <4>2. \A c \in Controller : AskedOne(s1, e, c, "STARTED")
        BY <4>1, Zenon DEF Drivers
      <4>3. Makes(e, {"STARTED"})
        BY <1>6, <4>2, Zenon DEF AskedOne, Makes
      <4>4. Awaits(e.sub) = "STARTED"
        BY <1>9, AwaitsCases
      <4>. QED BY <4>2, <4>3, <4>4 DEF AskedOne, AcceptedOK
    <3>2. CASE Idle(s1, e) /\ e.requestAccepted = s1.requestAccepted
      <4>1. e.ctrl = s1.ctrl /\ e.target = s1.target
        BY <3>2 DEF Idle, Drivers, NO_MODE
      <4>2. Makes(e, {"STARTED"})
        BY <1>6, <4>1, Zenon DEF Makes
      <4>. QED BY <1>4, <1>5, <1>9, <3>2, <4>1, <4>2 DEF AcceptedOK
    <3>. QED BY <2>1, <3>1, <3>2
  <2>3. SMOK(e)
    BY <1>9, <2>2 DEF SMOK, PhaseOK, FullComOK
  <2>4. SMOK(t) /\ t.BsmState = "FULLCOM" /\ t.currentMode = "SILENT" /\ t.indicated = s.indicated
    BY <1>9, <1>10, <2>3, ViewSound DEF View
  <2>5. r[1] = "NONE" /\ r[2] \in {t, e}
    BY <1>8, <1>13
  <2>. QED BY <1>9, <1>10, <2>3, <2>4, <2>5, Zenon
<1>14. q[1] \in {"REQ_ACCEPTED", "REPEAT_MAX", "FAIL", "DONE", "WAIT_INDICATION"}
  BY <1>7, StartedNone, Zenon DEF Executed
<1>. QED BY <1>11, <1>12, <1>13, <1>14

\* The mode indicated to ComM goes from full communication to none by way of the silent one
ModeStep(m, n) ==
  m = n \/ <<m, n>> \in {<<"NO", "FULL">>, <<"FULL", "SILENT">>, <<"SILENT", "FULL">>,
                         <<"SILENT", "NO">>}

\* What CanSM tells ComM in a call is the mode it then is in, and it tells every change
Indicates(s, t) ==
  /\ ModeStep(s.currentMode, t.currentMode)
  /\ \/ t.currentMode = s.currentMode /\ t.indicated = s.indicated
     \/ t.indicated = t.currentMode

\* What a step in FULLCOM may leave: the state is not left, left for silent communication
\* with everything as it was, or left to start over with transmission switched off.
FullComLeaves(s, r) ==
  /\ r[1] \in {"PRENOCOMM", "SILENTCOMM", "NONE"} /\ r[2] \in SMRecord
  /\ Indicates(s, r[2])
  /\ r[1] \in {"NONE", "SILENTCOMM"} => SMOK(r[2]) /\ r[2].BsmState = "FULLCOM"
  /\ r[1] = "SILENTCOMM" =>
       s.currentMode = "FULL" /\ r[2].currentMode = "FULL" /\ AllIn(r[2], "STARTED")
       /\ ~r[2].requestAccepted
  /\ r[1] = "PRENOCOMM" => Restartable(r[2]) /\ r[2].currentMode = "SILENT"

\* The bus off substates of FULLCOM stay in it or leave it as they should.
LEMMA BusOffCheckSound ==
  ASSUME NEW s, SMOK(s), s.BsmState = "FULLCOM", s.sub \in {"BUSOFF_CHECK", "NO_BUSOFF"},
         NEW r \in (IF s.sub = "BUSOFF_CHECK" THEN BUSOFF_CHECK(s) ELSE NO_BUSOFF(s))
  PROVE  FullComLeaves(s, r)
<1>1. /\ s \in SMRecord /\ s.currentMode = "FULL" /\ ~s.requestAccepted /\ AllIn(s, "STARTED")
      /\ \A c \in Controller : Truth(s, c)
  BY DEF SMOK, PhaseOK, FullComOK
<1>2. CASE s.sub = "NO_BUSOFF"
  <2>1. r \in NO_BUSOFF(s)
    BY <1>2
  <2>2. CASE s.busoffevent
    <3>1. r \in BusOffMet(s)
      BY <2>1, <2>2 DEF NO_BUSOFF
    <3>. QED BY <1>1, <3>1, BusOffMetSound, Zenon DEF FullComLeaves, Indicates, ModeStep
  <2>3. CASE ~s.busoffevent
    <3>1. r[1] \in {"SILENTCOMM", "NONE"} /\ r[2] = s
      BY <2>1, <2>3 DEF NO_BUSOFF
    <3>. QED BY <1>1, <3>1 DEF FullComLeaves, Indicates, ModeStep
  <2>. QED BY <2>2, <2>3
<1>3. CASE s.sub = "BUSOFF_CHECK"
  <2>. DEFINE t == [s EXCEPT !.subStateTimer = @ + 1]
              v == [t EXCEPT !.busoffCounter = 0, !.sub = "NO_BUSOFF"]
  <2>1. r \in BUSOFF_CHECK(s)
    BY <1>3
  <2>2. \/ s.busoffevent /\ r \in BusOffMet(t)
        \/ r = <<"NONE", v>>
        \/ r = <<"NONE", t>>
    BY <2>1 DEF BUSOFF_CHECK
  <2>3. t \in SMRecord /\ View(s, t) /\ t.sub = s.sub
    <3>. DEFINE n == s.subStateTimer + 1
    <3>1. n \in Nat
      <4>1. s.subStateTimer \in Nat
        BY <1>1 DEF SMRecord
      <4>. QED BY <4>1
    <3>2. t = [s EXCEPT !.subStateTimer = n]
      OBVIOUS
    <3>. HIDE DEF n, t
    <3>. QED BY <1>1, <3>1, <3>2, TimerUpdate
  <2>. HIDE DEF t
  <2>4. /\ SMOK(t) /\ t.currentMode = "FULL" /\ ~t.requestAccepted /\ AllIn(t, "STARTED")
        /\ t.BsmState = "FULLCOM" /\ \A c \in Controller : Truth(t, c)
    BY <1>1, <2>3, ViewSound, Zenon DEF View, AllIn, SMOK
  <2>5. CASE r \in BusOffMet(t)
    BY <1>1, <2>3, <2>4, <2>5, BusOffMetSound, Zenon DEF FullComLeaves, Indicates, ModeStep
  <2>6. CASE r = <<"NONE", v>>
    <3>1. v \in SMRecord
      BY <2>3, Zenon DEF SMRecord, Substate
    <3>2. v.sub = "NO_BUSOFF" /\ View(t, v)
      BY <2>3 DEF SMRecord, View
    <3>. HIDE DEF v
    <3>3. \A c \in Controller : Truth(v, c)
      BY <2>4, <3>2, Zenon DEF View, Truth
    <3>4. SMOK(v) /\ v.currentMode = "FULL" /\ v.BsmState = "FULLCOM"
      BY <2>4, <3>1, <3>2, <3>3 DEF View, SMOK, PhaseOK, FullComOK, AcceptedOK, AllIn
    <3>. QED BY <1>1, <2>3, <2>6, <3>1, <3>2, <3>4 DEF View, FullComLeaves, Indicates, ModeStep
  <2>7. CASE r = <<"NONE", t>>
    BY <1>1, <2>3, <2>4, <2>7 DEF View, FullComLeaves, Indicates, ModeStep
  <2>. QED BY <2>2, <2>5, <2>6, <2>7
<1>. QED BY <1>2, <1>3

\* So does the substate that waits with transmission off.
LEMMA TxOffSound ==
  ASSUME NEW s, SMOK(s), s.BsmState = "FULLCOM", s.sub = "TX_OFF", NEW r \in TX_OFF(s)
  PROVE  FullComLeaves(s, r)
<1>. DEFINE a == [s EXCEPT !.sub = "BUSOFF_CHECK", !.subStateTimer = 0]
            b == SetNetworkPduMode(a, "ONLINE")
            w == IndicateToComM(b, "FULL")
            t == [s EXCEPT !.subStateTimer = @ + 1]
<1>1. /\ s \in SMRecord /\ s.currentMode = "SILENT" /\ ~s.requestAccepted /\ AllIn(s, "STARTED")
      /\ \A c \in Controller : Truth(s, c)
  BY DEF SMOK, PhaseOK, FullComOK
<1>2. r = <<"NONE", w>> \/ r = <<"NONE", t>>
  BY DEF TX_OFF
<1>3. CASE r = <<"NONE", t>>
  <2>. DEFINE n == s.subStateTimer + 1
  <2>1. n \in Nat
    <3>1. s.subStateTimer \in Nat
      BY <1>1 DEF SMRecord
    <3>. QED BY <3>1
  <2>2. t \in SMRecord /\ View(s, t) /\ t.sub = s.sub
    <3>1. t = [s EXCEPT !.subStateTimer = n]
      OBVIOUS
    <3>. HIDE DEF n, t
    <3>. QED BY <1>1, <2>1, <3>1, TimerUpdate
  <2>. HIDE DEF t
  <2>3. SMOK(t) /\ t.currentMode = s.currentMode /\ t.BsmState = "FULLCOM"
    BY <2>2, ViewSound DEF View
  <2>. QED BY <1>3, <2>2, <2>3 DEF View, FullComLeaves, Indicates, ModeStep
<1>4. CASE r = <<"NONE", w>>
  <2>1. a \in SMRecord
    BY <1>1, Zenon DEF SMRecord, Substate
  <2>2. View(s, a) /\ a.sub = "BUSOFF_CHECK"
    BY <1>1 DEF SMRecord, View
  <2>. HIDE DEF a
  <2>3. /\ b \in SMRecord /\ b.BsmState = "FULLCOM" /\ b.sub = "BUSOFF_CHECK"
        /\ ~b.requestAccepted /\ b.ctrl = s.ctrl /\ b.mode = s.mode /\ b.target = s.target
        /\ b.missed = s.missed /\ b.busoffevent = s.busoffevent
    BY <1>1, <2>1, <2>2, PduModeType DEF View
  <2>. HIDE DEF b
  <2>4. /\ w \in SMRecord /\ w.BsmState = "FULLCOM" /\ w.sub = "BUSOFF_CHECK"
        /\ ~w.requestAccepted /\ w.ctrl = s.ctrl /\ w.mode = s.mode /\ w.target = s.target
        /\ w.missed = s.missed /\ w.busoffevent = s.busoffevent /\ w.currentMode = "FULL"
        /\ w.indicated = "FULL"
    BY <2>3, IndicateType DEF ComMode
  <2>. HIDE DEF w
  <2>5. \A c \in Controller : Truth(w, c)
    BY <1>1, <2>4, Zenon DEF Truth
  <2>6. SMOK(w)
    <3>1. AllIn(w, "STARTED")
      BY <1>1, <2>4, Zenon DEF AllIn
    <3>2. PhaseOK(w) /\ AcceptedOK(w)
      BY <2>4, <3>1 DEF PhaseOK, FullComOK, AcceptedOK
    <3>. QED BY <2>4, <2>5, <3>2 DEF SMOK
  <2>. QED BY <1>1, <1>4, <2>4, <2>6 DEF FullComLeaves, Indicates, ModeStep
<1>. QED BY <1>2, <1>3, <1>4

\* CanSm_Internal_BSM_S_FULLCOM.
LEMMA FullComSound ==
  ASSUME NEW s, SMOK(s), s.BsmState = "FULLCOM", NEW r \in BSM_S_FULLCOM(s)
  PROVE  FullComLeaves(s, r)
<1>1. s.sub \in {"BUSOFF_CHECK", "NO_BUSOFF", "RESTART_CC", "TX_OFF"}
      /\ (s.sub = "RESTART_CC" => s.currentMode = "SILENT")
  BY DEF SMOK, PhaseOK, FullComOK
<1>. DEFINE Sub == CASE s.sub = "BUSOFF_CHECK" -> BUSOFF_CHECK(s)
                     [] s.sub = "NO_BUSOFF" -> NO_BUSOFF(s)
                     [] s.sub = "RESTART_CC" -> RESTART_CC(s)
                     [] s.sub = "TX_OFF" -> TX_OFF(s)
<1>2. PICK q \in Sub :
        r = <<q[1], [q[2] EXCEPT !.busoffTime =
                       AtMost(@ + 1, AtLeast(CanSMBorTimeL1, CanSMBorTimeL2))]>>
  BY Zenon DEF BSM_S_FULLCOM
<1>3. FullComLeaves(s, q)
  <2>1. CASE s.sub \in {"BUSOFF_CHECK", "NO_BUSOFF"}
    <3>1. q \in (IF s.sub = "BUSOFF_CHECK" THEN BUSOFF_CHECK(s) ELSE NO_BUSOFF(s))
      BY <1>2, <2>1
    <3>. QED BY <2>1, <3>1, BusOffCheckSound
  <2>2. CASE s.sub = "RESTART_CC"
    <3>1. q \in RESTART_CC(s)
      BY <1>2, <2>2
    <3>. QED BY <1>1, <2>2, <3>1, RestartCCSound DEF FullComLeaves, Indicates, ModeStep
  <2>3. CASE s.sub = "TX_OFF"
    <3>1. q \in TX_OFF(s)
      BY <1>2, <2>3
    <3>. QED BY <2>3, <3>1, TxOffSound
  <2>. QED BY <1>1, <2>1, <2>2, <2>3
<1>. DEFINE u == q[2]
            t == [u EXCEPT !.busoffTime = AtMost(@ + 1, AtLeast(CanSMBorTimeL1, CanSMBorTimeL2))]
<1>4. r = <<q[1], t>>
  BY <1>2
<1>5. u \in SMRecord
  BY <1>3 DEF FullComLeaves
<1>. HIDE DEF u
<1>6. t \in SMRecord /\ View(u, t) /\ t.sub = u.sub
  BY <1>5, BusOffTimeUpdate
<1>. HIDE DEF t
<1>7. SMOK(u) => SMOK(t)
  BY <1>6, ViewSound
<1>8. /\ Restartable(u) => Restartable(t)
      /\ AllIn(u, "STARTED") => AllIn(t, "STARTED")
      /\ t.currentMode = u.currentMode /\ t.BsmState = u.BsmState
      /\ t.requestAccepted = u.requestAccepted /\ t.indicated = u.indicated
  BY <1>6 DEF View, Restartable, AllIn
<1>. QED BY <1>3, <1>4, <1>6, <1>7, <1>8 DEF FullComLeaves, Indicates, u

-----------------------------------------------------------------------------
(* CanSM_MainFunction, the services and the callbacks                        *)

\* Entering NOCOM, FULLCOM or SILENTCOM touches the state and the substate.
LEMMA EnterRestingType ==
  ASSUME NEW s \in SMRecord, NEW state \in {"NOCOM", "FULLCOM", "SILENTCOM"}
  PROVE  LET t == EnterState(s, state)
         IN /\ t \in SMRecord /\ t.BsmState = state /\ t.Trcv = s.Trcv
            /\ t.sub = (IF state = "FULLCOM" THEN "BUSOFF_CHECK" ELSE "NONE")
            /\ t.currentMode = s.currentMode /\ t.PduMode = s.PduMode
            /\ t.requestAccepted = s.requestAccepted /\ t.indicated = s.indicated
            /\ t.ctrl = s.ctrl /\ t.mode = s.mode /\ t.target = s.target
            /\ t.missed = s.missed /\ t.busoffevent = s.busoffevent
<1>. DEFINE a == [s EXCEPT !.RepeatCounter = 0, !.subStateTimer = 0, !.BsmState = state,
                           !.sub = "NONE"]
            t == CASE state = "NOCOM" -> [a EXCEPT !.initialNoComRun = TRUE]
                   [] state = "FULLCOM" -> [a EXCEPT !.sub = "BUSOFF_CHECK"]
                   [] state = "SILENTCOM" -> a
<1>1. EnterState(s, state) = t
  BY DEF EnterState
<1>2. a \in SMRecord
  BY Zenon DEF SMRecord, Substate
<1>3. /\ a.BsmState = state /\ a.Trcv = s.Trcv /\ a.currentMode = s.currentMode
      /\ a.sub = "NONE" /\ a.PduMode = s.PduMode /\ a.requestAccepted = s.requestAccepted
      /\ a.indicated = s.indicated /\ a.ctrl = s.ctrl /\ a.mode = s.mode
      /\ a.target = s.target /\ a.missed = s.missed /\ a.busoffevent = s.busoffevent
  BY DEF SMRecord
<1>. HIDE DEF a
<1>4. t \in SMRecord /\ View(a, t) /\ t.sub = (IF state = "FULLCOM" THEN "BUSOFF_CHECK" ELSE "NONE")
  <2>1. CASE state = "NOCOM"
    <3>1. t = [a EXCEPT !.initialNoComRun = TRUE]
      BY <2>1
    <3>. HIDE DEF t
    <3>2. t \in SMRecord
      BY <1>2, <3>1, Zenon DEF SMRecord
    <3>. QED BY <1>2, <1>3, <2>1, <3>1, <3>2 DEF SMRecord, View
  <2>2. CASE state = "FULLCOM"
    <3>1. t = [a EXCEPT !.sub = "BUSOFF_CHECK"]
      BY <2>2
    <3>. HIDE DEF t
    <3>. QED BY <1>2, <2>2, <3>1, SubUpdate DEF Substate
  <2>3. CASE state = "SILENTCOM"
    BY <1>2, <1>3, <2>3 DEF View
  <2>. QED BY <2>1, <2>2, <2>3
<1>. HIDE DEF t
<1>. QED BY <1>1, <1>3, <1>4 DEF View

\* No communication is entered with the controllers asleep.
LEMMA EnterNoComSound ==
  ASSUME NEW s \in SMRecord, s.PduMode # "ONLINE", ~s.requestAccepted, AllIn(s, "SLEEP"),
         \A c \in Controller : Truth(s, c)
  PROVE  LET t == IndicateToComM(EnterState(s, "NOCOM"), "NO")
         IN SMOK(t) /\ t.currentMode = "NO" /\ t.indicated = "NO"
<1>. DEFINE e == EnterState(s, "NOCOM")
            t == IndicateToComM(e, "NO")
<1>1. /\ e \in SMRecord /\ e.BsmState = "NOCOM" /\ e.sub = "NONE"
      /\ e.PduMode # "ONLINE" /\ ~e.requestAccepted /\ e.ctrl = s.ctrl /\ e.mode = s.mode
      /\ e.target = s.target /\ e.missed = s.missed /\ e.busoffevent = s.busoffevent
  BY EnterRestingType
<1>. HIDE DEF e
<1>2. /\ t \in SMRecord /\ t.BsmState = "NOCOM" /\ t.currentMode = "NO"
      /\ t.indicated = "NO"
      /\ t.PduMode # "ONLINE" /\ ~t.requestAccepted /\ t.ctrl = s.ctrl /\ t.mode = s.mode
      /\ t.target = s.target /\ t.missed = s.missed /\ t.busoffevent = s.busoffevent
  BY <1>1, IndicateType DEF ComMode
<1>. HIDE DEF t
<1>3. \A c \in Controller : Truth(t, c)
  BY <1>2, Zenon DEF Truth
<1>4. AllIn(t, "SLEEP")
  BY <1>2, Zenon DEF AllIn
<1>5. PhaseOK(t) /\ AcceptedOK(t)
  BY <1>2, <1>4 DEF PhaseOK, Resting, AcceptedOK
<1>. QED BY <1>2, <1>3, <1>5 DEF SMOK, t, e

\* Full and silent communication are entered with the controllers started; in the silent
\* one transmission is switched off.
LEMMA EnterComSound ==
  ASSUME NEW s \in SMRecord, ~s.requestAccepted, AllIn(s, "STARTED"),
         \A c \in Controller : Truth(s, c)
  PROVE  /\ SMOK(EnterFullCom(s)) /\ EnterFullCom(s).currentMode = "FULL"
         /\ EnterFullCom(s).indicated = "FULL"
         /\ SMOK(EnterSilentCom(s)) /\ EnterSilentCom(s).currentMode = "SILENT"
         /\ EnterSilentCom(s).indicated = "SILENT"
<1>. DEFINE Same(t) == /\ ~t.requestAccepted /\ t.ctrl = s.ctrl /\ t.mode = s.mode
                       /\ t.target = s.target /\ t.missed = s.missed
                       /\ t.busoffevent = s.busoffevent
<1>1. ASSUME NEW t, Same(t)
      PROVE  AllIn(t, "STARTED") /\ \A c \in Controller : Truth(t, c)
  BY <1>1 DEF AllIn, Truth
<1>2. SMOK(EnterFullCom(s)) /\ EnterFullCom(s).currentMode = "FULL"
         /\ EnterFullCom(s).indicated = "FULL"
  <2>. DEFINE e == EnterState(s, "FULLCOM")
              p == SetNetworkPduMode(e, "ONLINE")
              t == IndicateToComM(p, "FULL")
  <2>1. e \in SMRecord /\ e.BsmState = "FULLCOM" /\ e.sub = "BUSOFF_CHECK" /\ Same(e)
    BY EnterRestingType
  <2>. HIDE DEF e
  <2>2. p \in SMRecord /\ p.BsmState = "FULLCOM" /\ p.sub = "BUSOFF_CHECK" /\ Same(p)
    BY <2>1, PduModeType
  <2>. HIDE DEF p
  <2>3. t \in SMRecord /\ t.BsmState = "FULLCOM" /\ t.sub = "BUSOFF_CHECK" /\ Same(t)
        /\ t.currentMode = "FULL" /\ t.indicated = "FULL"
    BY <2>2, IndicateType DEF ComMode
  <2>. HIDE DEF t
  <2>4. AllIn(t, "STARTED") /\ \A c \in Controller : Truth(t, c)
    BY <1>1, <2>3
  <2>5. PhaseOK(t) /\ AcceptedOK(t)
    BY <2>3, <2>4 DEF PhaseOK, FullComOK, AcceptedOK
  <2>6. SMOK(t)
    BY <2>3, <2>4, <2>5 DEF SMOK
  <2>. QED BY <2>3, <2>6 DEF EnterFullCom, t, p, e
<1>3. SMOK(EnterSilentCom(s)) /\ EnterSilentCom(s).currentMode = "SILENT"
         /\ EnterSilentCom(s).indicated = "SILENT"
  <2>. DEFINE e == EnterState(s, "SILENTCOM")
              o == SetNetworkPduMode(e, "ONLINE")
              p == SetNetworkPduMode(o, "TX_OFFLINE")
              t == IndicateToComM(p, "SILENT")
  <2>1. e \in SMRecord /\ e.BsmState = "SILENTCOM" /\ Same(e)
    BY EnterRestingType
  <2>. HIDE DEF e
  <2>2. o \in SMRecord /\ o.BsmState = "SILENTCOM" /\ Same(o)
    BY <2>1, PduModeType
  <2>. HIDE DEF o
  <2>3. p \in SMRecord /\ p.BsmState = "SILENTCOM" /\ Same(p) /\ p.PduMode # "ONLINE"
    BY <2>2, PduModeType
  <2>. HIDE DEF p
  <2>4. t \in SMRecord /\ t.BsmState = "SILENTCOM" /\ Same(t) /\ t.PduMode # "ONLINE"
        /\ t.currentMode = "SILENT" /\ t.indicated = "SILENT"
    BY <2>3, IndicateType DEF ComMode
  <2>. HIDE DEF t
  <2>5. AllIn(t, "STARTED") /\ \A c \in Controller : Truth(t, c)
    BY <1>1, <2>4
  <2>6. PhaseOK(t) /\ AcceptedOK(t)
    BY <2>4, <2>5 DEF PhaseOK, Resting, AcceptedOK
  <2>7. SMOK(t)
    BY <2>4, <2>5, <2>6 DEF SMOK
  <2>. QED BY <2>4, <2>7, Zenon DEF EnterSilentCom, t, p, o, e
<1>. QED BY <1>2, <1>3

\* A step of PRE_NOCOM and what follows it: the state is not left, left for no
\* communication, or entered again.
LEMMA PreNoComStepSound ==
  ASSUME NEW s, SMOK(s), s.BsmState = "PRE_NOCOM", NEW r \in BSM_S_PRE_NOCOM(s),
         NEW t \in CASE r[1] = "EXIT" -> {IndicateToComM(EnterState(r[2], "NOCOM"), "NO")}
                     [] r[1] = "REP_MAX" -> Restart_PRE_NOCOM(r[2])
                     [] r[1] = "NONE" -> {r[2]}
  PROVE  SMOK(t) /\ Indicates(s, t)
<1>1. s.currentMode \in {"NO", "SILENT"} /\ s.PduMode # "ONLINE"
  BY DEF SMOK, PhaseOK, PreNoComOK, SMRecord, ComMode
<1>2. CASE r[1] = "EXIT"
  <2>1. t = IndicateToComM(EnterState(r[2], "NOCOM"), "NO")
    BY <1>2
  <2>. QED BY <1>1, <1>2, <2>1, PreNoComSound, EnterNoComSound DEF Indicates, ModeStep
<1>3. CASE r[1] = "REP_MAX"
  <2>1. t \in Restart_PRE_NOCOM(r[2])
    BY <1>3
  <2>. QED BY <1>3, <2>1, PreNoComSound, RestartSound DEF Indicates, ModeStep
<1>4. CASE r[1] = "NONE"
  <2>1. t = r[2]
    BY <1>4
  <2>. QED BY <1>4, <2>1, PreNoComSound DEF Indicates, ModeStep
<1>. QED BY <1>2, <1>3, <1>4, PreNoComSound

\* The main function in PRE_FULLCOM keeps the invariant.
LEMMA PreFullComStepSound ==
  ASSUME NEW s, SMOK(s), s.BsmState = "PRE_FULLCOM", NEW r \in BSM_S_PRE_FULLCOM(s),
         NEW t \in CASE r[1] = "EXIT" -> {EnterFullCom(r[2])}
                     [] r[1] = "REP_MAX" -> Restart_PRE_NOCOM(r[2])
                     [] r[1] = "NONE" -> {r[2]}
  PROVE  SMOK(t) /\ Indicates(s, t)
<1>1. s.currentMode = "NO"
  BY DEF SMOK, PhaseOK, PreFullComOK
<1>2. CASE r[1] = "EXIT"
  <2>1. t = EnterFullCom(r[2])
    BY <1>2
  <2>. QED BY <1>1, <1>2, <2>1, PreFullComSound, EnterComSound DEF Indicates, ModeStep
<1>3. CASE r[1] = "REP_MAX"
  <2>1. t \in Restart_PRE_NOCOM(r[2])
    BY <1>3
  <2>. QED BY <1>1, <1>3, <2>1, PreFullComSound, RestartSound DEF Indicates, ModeStep
<1>4. CASE r[1] = "NONE"
  <2>1. t = r[2]
    BY <1>4
  <2>. QED BY <1>1, <1>4, <2>1, PreFullComSound DEF Indicates, ModeStep
<1>. QED BY <1>2, <1>3, <1>4, PreFullComSound

\* The main function in FULLCOM keeps the invariant.
LEMMA FullComStepSound ==
  ASSUME NEW s, SMOK(s), s.BsmState = "FULLCOM", NEW r \in BSM_S_FULLCOM(s),
         NEW t \in CASE r[1] = "PRENOCOMM" -> Restart_PRE_NOCOM(r[2])
                     [] r[1] = "SILENTCOMM" -> {EnterSilentCom(r[2])}
                     [] r[1] = "NONE" -> {r[2]}
  PROVE  SMOK(t) /\ Indicates(s, t)
<1>1. FullComLeaves(s, r)
  BY FullComSound
<1>2. CASE r[1] = "PRENOCOMM"
  <2>1. t \in Restart_PRE_NOCOM(r[2])
    BY <1>2
  <2>. QED BY <1>1, <1>2, <2>1, RestartSound DEF FullComLeaves, Indicates
<1>3. CASE r[1] = "SILENTCOMM"
  <2>1. t = EnterSilentCom(r[2])
    BY <1>3
  <2>2. SMOK(t) /\ t.currentMode = "SILENT" /\ t.indicated = "SILENT"
    BY <1>1, <1>3, <2>1, EnterComSound DEF FullComLeaves, SMOK
  <2>. QED BY <1>1, <1>3, <2>2 DEF FullComLeaves, Indicates, ModeStep
<1>4. CASE r[1] = "NONE"
  <2>1. t = r[2]
    BY <1>4
  <2>. QED BY <1>1, <1>4, <2>1 DEF FullComLeaves
<1>. QED BY <1>1, <1>2, <1>3, <1>4 DEF FullComLeaves

\* Full communication is prepared from no communication.
LEMMA EnterPreFullComSound ==
  ASSUME NEW s, SMOK(s), s.BsmState = "NOCOM"
  PROVE  LET t == EnterState(s, "PRE_FULLCOM")
         IN SMOK(t) /\ t.BsmState = "PRE_FULLCOM" /\ t.currentMode = s.currentMode
            /\ t.indicated = s.indicated
<1>. DEFINE t == EnterState(s, "PRE_FULLCOM")
<1>1. s \in SMRecord /\ Resting(s, "NO") /\ AllIn(s, "SLEEP")
  BY DEF SMOK, PhaseOK
<1>2. /\ t \in SMRecord /\ t.BsmState = "PRE_FULLCOM"
      /\ t.currentMode = s.currentMode /\ t.PduMode = s.PduMode /\ t.indicated = s.indicated
      /\ t.requestAccepted = s.requestAccepted /\ t.target = s.target
      /\ \A c \in Controller : t.ctrl[c].indMode = "UNINIT"
      /\ t.sub \in {"TRCV_NORMAL", "CC_STOPPED"}
  BY <1>1, EnterPreSound
<1>. HIDE DEF t
<1>3. \A c \in Controller : Truth(t, c)
  BY <1>2, Zenon DEF Truth
<1>4. t.sub \in DOMAIN PreFullCom
  BY <1>2 DEF PreFullCom
<1>5. Makes(t, {Awaits(t.sub)})
  BY <1>1, <1>2, Zenon DEF Makes, AllIn
<1>6. PhaseOK(t) /\ AcceptedOK(t)
  BY <1>1, <1>2, <1>4, <1>5 DEF PhaseOK, PreFullComOK, AcceptedOK, Resting
<1>. QED BY <1>2, <1>3, <1>6 DEF SMOK, t

\* CanSM_MainFunction keeps the invariant, and the mode it indicates to ComM does not jump.
LEMMA MainFunctionSound ==
  ASSUME NEW s, SMOK(s), NEW t \in CanSM_MainFunction(s)
  PROVE  SMOK(t) /\ Indicates(s, t)
<1>. DEFINE PreNoComStep(a) ==
              UNION {CASE r[1] = "EXIT" -> {IndicateToComM(EnterState(r[2], "NOCOM"), "NO")}
                       [] r[1] = "REP_MAX" -> Restart_PRE_NOCOM(r[2])
                       [] r[1] = "NONE" -> {r[2]}
                     : r \in BSM_S_PRE_NOCOM(a)}
            PreFullComStep(a) ==
              UNION {CASE r[1] = "EXIT" -> {EnterFullCom(r[2])}
                       [] r[1] = "REP_MAX" -> Restart_PRE_NOCOM(r[2])
                       [] r[1] = "NONE" -> {r[2]}
                     : r \in BSM_S_PRE_FULLCOM(a)}
            FullComStep(a) ==
              UNION {CASE r[1] = "PRENOCOMM" -> Restart_PRE_NOCOM(r[2])
                       [] r[1] = "SILENTCOMM" -> {EnterSilentCom(r[2])}
                       [] r[1] = "NONE" -> {r[2]}
                     : r \in BSM_S_FULLCOM(a)}
<1>1. ASSUME NEW a, SMOK(a), a.BsmState = "PRE_NOCOM", NEW u \in PreNoComStep(a)
      PROVE  SMOK(u) /\ Indicates(a, u)
  <2>1. PICK r \in BSM_S_PRE_NOCOM(a) :
          u \in CASE r[1] = "EXIT" -> {IndicateToComM(EnterState(r[2], "NOCOM"), "NO")}
                  [] r[1] = "REP_MAX" -> Restart_PRE_NOCOM(r[2])
                  [] r[1] = "NONE" -> {r[2]}
    BY <1>1, Zenon
  <2>. QED BY <1>1, <2>1, PreNoComStepSound, Zenon
<1>2. ASSUME NEW a, SMOK(a), a.BsmState = "PRE_FULLCOM", NEW u \in PreFullComStep(a)
      PROVE  SMOK(u) /\ Indicates(a, u)
  <2>1. PICK r \in BSM_S_PRE_FULLCOM(a) :
          u \in CASE r[1] = "EXIT" -> {EnterFullCom(r[2])}
                  [] r[1] = "REP_MAX" -> Restart_PRE_NOCOM(r[2])
                  [] r[1] = "NONE" -> {r[2]}
    BY <1>2, Zenon
  <2>. QED BY <1>2, <2>1, PreFullComStepSound, Zenon
<1>3. ASSUME NEW a, SMOK(a), a.BsmState = "FULLCOM", NEW u \in FullComStep(a)
      PROVE  SMOK(u) /\ Indicates(a, u)
  <2>1. PICK r \in BSM_S_FULLCOM(a) :
          u \in CASE r[1] = "PRENOCOMM" -> Restart_PRE_NOCOM(r[2])
                  [] r[1] = "SILENTCOMM" -> {EnterSilentCom(r[2])}
                  [] r[1] = "NONE" -> {r[2]}
    BY <1>3, Zenon
  <2>. QED BY <1>3, <2>1, FullComStepSound, Zenon
<1>4. CanSM_MainFunction(s) =
        CASE s.BsmState = "NOT_INITIALIZED"
             \/ (s.BsmState = "SILENTCOM" /\ s.requestedMode = "NO") ->
               PreNoComStep(EnterState(s, "PRE_NOCOM"))
          [] s.BsmState = "PRE_NOCOM" -> PreNoComStep(s)
          [] s.BsmState = "SILENTCOM" /\ s.requestedMode = "FULL" -> {EnterFullCom(s)}
          [] s.BsmState = "NOCOM" /\ s.requestedMode = "FULL" ->
               PreFullComStep(EnterState(s, "PRE_FULLCOM"))
          [] s.BsmState = "PRE_FULLCOM" -> PreFullComStep(s)
          [] s.BsmState = "FULLCOM" -> FullComStep(s)
          [] OTHER -> {s}
  BY DEF CanSM_MainFunction
<1>. HIDE DEF PreNoComStep, PreFullComStep, FullComStep
<1>5. CASE s.BsmState = "NOT_INITIALIZED" \/ (s.BsmState = "SILENTCOM" /\ s.requestedMode = "NO")
  <2>1. t \in PreNoComStep(EnterState(s, "PRE_NOCOM"))
    BY <1>4, <1>5
  <2>2. Restartable(s)
    BY <1>5, Zenon DEF SMOK, PhaseOK, Resting, Restartable
  <2>. QED BY <1>1, <2>1, <2>2, EnterPreNoComSound DEF Indicates
<1>6. CASE s.BsmState = "PRE_NOCOM"
  <2>1. t \in PreNoComStep(s)
    BY <1>4, <1>6
  <2>. QED BY <1>1, <1>6, <2>1
<1>7. CASE s.BsmState = "SILENTCOM" /\ s.requestedMode = "FULL"
  <2>1. t = EnterFullCom(s)
    BY <1>4, <1>7
  <2>2. /\ s \in SMRecord /\ s.currentMode = "SILENT" /\ ~s.requestAccepted
        /\ AllIn(s, "STARTED") /\ \A c \in Controller : Truth(s, c)
    BY <1>7 DEF SMOK, PhaseOK, Resting
  <2>. QED BY <2>1, <2>2, EnterComSound DEF Indicates, ModeStep
<1>8. CASE s.BsmState = "NOCOM" /\ s.requestedMode = "FULL"
  <2>1. t \in PreFullComStep(EnterState(s, "PRE_FULLCOM"))
    BY <1>4, <1>8
  <2>2. s.currentMode = "NO"
    BY <1>8 DEF SMOK, PhaseOK, Resting
  <2>. QED BY <1>2, <1>8, <2>1, <2>2, EnterPreFullComSound DEF Indicates
<1>9. CASE s.BsmState = "PRE_FULLCOM"
  <2>1. t \in PreFullComStep(s)
    BY <1>4, <1>9
  <2>2. s.currentMode = "NO"
    BY <1>9 DEF SMOK, PhaseOK, PreFullComOK
  <2>. QED BY <1>2, <1>9, <2>1, <2>2
<1>10. CASE s.BsmState = "FULLCOM"
  <2>1. t \in FullComStep(s)
    BY <1>4, <1>10
  <2>. QED BY <1>3, <1>10, <2>1
<1>11. CASE \/ s.BsmState = "SILENTCOM" /\ s.requestedMode \notin {"NO", "FULL"}
            \/ s.BsmState = "NOCOM" /\ s.requestedMode # "FULL"
  <2>1. t = s
    BY <1>4, <1>11
  <2>. QED BY <2>1 DEF Indicates, ModeStep
<1>12. s.BsmState \in {"NOT_INITIALIZED", "PRE_NOCOM", "NOCOM", "PRE_FULLCOM", "FULLCOM",
                       "SILENTCOM"}
  BY DEF SMOK, SMRecord
<1>. QED BY <1>5, <1>6, <1>7, <1>8, <1>9, <1>10, <1>11, <1>12

\* t differs from s in nothing that ComM is told
Tells(s, t) == t.currentMode = s.currentMode /\ t.indicated = s.indicated

\* A controller that has done what it accepted to do, and one that has failed to.
LEMMA ControllerAnswerSound ==
  ASSUME NEW s, SMOK(s), NEW c \in Controller, s.target[c] # "UNINIT"
  PROVE  LET t == Reached(s, c, s.target[c]) IN SMOK(t) /\ Tells(s, t)
<1>. DEFINE t == Reached(s, c, s.target[c])
<1>1. /\ s \in SMRecord /\ s.target[c] \in Asked /\ PhaseOK(s) /\ AcceptedOK(s)
      /\ \A d \in Controller : Truth(s, d)
  BY DEF SMOK, SMRecord, ControllerMode, Asked
<1>2. /\ t \in SMRecord /\ Kept(s, t)
      /\ t.ctrl[c].pendingMode = s.ctrl[c].pendingMode /\ t.ctrl[c].indMode = s.target[c]
      /\ t.mode[c] = s.target[c] /\ t.target[c] = "UNINIT"
      /\ s.missed \ {c} \subseteq t.missed
      /\ \A d \in Controller \ {c} : t.ctrl[d] = s.ctrl[d] /\ t.mode[d] = s.mode[d]
                                     /\ t.target[d] = s.target[d]
  BY <1>1, ReachedType, Zenon
<1>. HIDE DEF t
<1>3. \A d \in Controller : t.ctrl[d].pendingMode = s.ctrl[d].pendingMode
                            /\ t.target[d] \in {"UNINIT", s.target[d]}
  BY <1>2, Zenon
<1>4. ASSUME NEW d \in Controller
      PROVE  Truth(t, d)
  <2>1. CASE d = c
    BY <1>1, <1>2, <2>1, Zenon DEF Truth
  <2>2. CASE d # c
    <3>1. t.ctrl[d] = s.ctrl[d] /\ t.mode[d] = s.mode[d] /\ t.target[d] = s.target[d]
          /\ (d \in s.missed => d \in t.missed) /\ t.busoffevent = s.busoffevent
      BY <1>2, <2>2 DEF Kept, Base
    <3>. QED BY <1>1, <3>1 DEF Truth
  <2>. QED BY <2>1, <2>2
<1>5. AcceptedOK(t)
  BY <1>1, <1>2, <1>3, ZenonT(30) DEF AcceptedOK, Kept, Base
<1>6. \A m : ~AllIn(s, m)
  BY DEF AllIn
<1>7. \A T : Makes(s, T) => Makes(t, T)
  BY <1>3, Zenon DEF Makes
<1>8. PreNoComOK(s) => PreNoComOK(t)
  <2>1. \A d \in Controller : t.ctrl[d].indMode # "UNINIT" /\ t.target[d] = "STARTED" =>
                                s.ctrl[d].indMode # "UNINIT" /\ s.target[d] = "STARTED"
    BY <1>2
  <2>. QED BY <1>2, <1>6, <1>7, <2>1, Zenon DEF PreNoComOK, Kept, Base
<1>9. PreFullComOK(s) => PreFullComOK(t)
  BY <1>2, <1>7, Zenon DEF PreFullComOK, Kept, Base
<1>10. FullComOK(s) => FullComOK(t)
  BY <1>2, <1>6, <1>7, Zenon DEF FullComOK, Kept, Base
<1>11. \A m : Resting(s, m) => Resting(t, m)
  BY <1>2 DEF Resting, Kept, Base
<1>12. PhaseOK(t)
  <2>1. t.BsmState = s.BsmState
        /\ s.BsmState \in {"NOT_INITIALIZED", "PRE_NOCOM", "NOCOM", "PRE_FULLCOM", "FULLCOM",
                           "SILENTCOM"}
    BY <1>1, <1>2, Zenon DEF Kept, Base, SMRecord
  <2>. QED BY <1>1, <1>6, <1>8, <1>9, <1>10, <1>11, <2>1, Zenon DEF PhaseOK
<1>. QED BY <1>2, <1>4, <1>5, <1>12, Zenon DEF SMOK, Kept, Base, t, Tells

\* A controller that fails to make its mode keeps the invariant.
LEMMA ControllerFailureSound ==
  ASSUME NEW s, SMOK(s), NEW c \in Controller, s.target[c] # "UNINIT"
  PROVE  LET t == [s EXCEPT !.target[c] = "UNINIT"]
         IN SMOK(t) /\ Tells(s, t)
<1>. DEFINE f == [s.target EXCEPT ![c] = "UNINIT"]
            t == [s EXCEPT !.target = f]
<1>1. s \in SMRecord /\ PhaseOK(s) /\ AcceptedOK(s) /\ \A d \in Controller : Truth(s, d)
  BY Zenon DEF SMOK
<1>2. f \in [Controller -> ControllerMode]
      /\ \A d \in Controller : f[d] \in {"UNINIT", s.target[d]}
  BY <1>1 DEF SMRecord, ControllerMode
<1>3. t = [s EXCEPT !.target[c] = "UNINIT"]
  BY <1>1 DEF SMRecord
<1>. HIDE DEF f
<1>4. t \in SMRecord
  BY <1>1, <1>2 DEF SMRecord
<1>5. /\ Kept(s, t) /\ t.ctrl = s.ctrl /\ t.mode = s.mode /\ t.missed = s.missed
      /\ \A d \in Controller : t.target[d] \in {"UNINIT", s.target[d]}
  BY <1>1, <1>2 DEF SMRecord, Kept, Base
<1>. HIDE DEF t
<1>6. \A d \in Controller : Truth(t, d)
  BY <1>1, <1>5, ZenonT(30) DEF Truth, Kept, Base
<1>7. AcceptedOK(t)
  BY <1>1, <1>5, Zenon DEF AcceptedOK, Kept, Base
<1>8. \A m : ~AllIn(s, m)
  BY DEF AllIn
<1>9. \A T : Makes(s, T) => Makes(t, T)
  BY <1>5, Zenon DEF Makes
<1>10. PreNoComOK(s) => PreNoComOK(t)
  BY <1>5, <1>8, <1>9, Zenon DEF PreNoComOK, Kept, Base
<1>11. PreFullComOK(s) => PreFullComOK(t)
  BY <1>5, <1>9, Zenon DEF PreFullComOK, Kept, Base
<1>12. FullComOK(s) => FullComOK(t)
  BY <1>5, <1>8, <1>9, Zenon DEF FullComOK, Kept, Base
<1>13. \A m : Resting(s, m) => Resting(t, m)
  BY <1>5 DEF Resting, Kept, Base
<1>14. PhaseOK(t)
  <2>1. t.BsmState = s.BsmState
        /\ s.BsmState \in {"NOT_INITIALIZED", "PRE_NOCOM", "NOCOM", "PRE_FULLCOM", "FULLCOM",
                           "SILENTCOM"}
    BY <1>1, <1>5, Zenon DEF Kept, Base, SMRecord
  <2>. QED BY <1>1, <1>8, <1>10, <1>11, <1>12, <1>13, <2>1, Zenon DEF PhaseOK
<1>15. SMOK(t) /\ Tells(s, t)
  BY <1>4, <1>5, <1>6, <1>7, <1>14, Zenon DEF SMOK, Kept, Base, Tells
<1>. QED BY <1>3, <1>15

\* The transceiver drops a task, and indicates that it has done one.
LEMMA TrcvFailureSound ==
  ASSUME NEW s, SMOK(s), NEW a \in s.trcvTodo
  PROVE  LET t == [s EXCEPT !.trcvTodo = @ \ {a}]
         IN SMOK(t) /\ Tells(s, t) /\ a \in Action
            /\ a[1] \in {"TRCV_MODE", "WUF"}
<1>. DEFINE t == [s EXCEPT !.trcvTodo = @ \ {a}]
<1>1. s \in SMRecord
  BY DEF SMOK
<1>2. t \in SMRecord /\ Seen(s, t) /\ t.sub = s.sub /\ t.indicated = s.indicated
  <2>1. t \in SMRecord
    BY <1>1 DEF SMRecord
  <2>. QED BY <1>1, <2>1 DEF SMRecord, Seen
<1>3. a \in Action /\ a[1] \in {"TRCV_MODE", "WUF"}
  BY <1>1 DEF SMRecord, Action, TRCV, WUF
<1>. HIDE DEF t
<1>. QED BY <1>2, <1>3, SeenSound, Zenon DEF Seen, t, Tells

\* The indications of the transceiver keep the invariant.
LEMMA TrcvIndicationSound ==
  ASSUME NEW s, SMOK(s), NEW a, a[1] \in {"TRCV_MODE", "WUF"}
  PROVE  LET t == TrcvIndication(s, a) IN SMOK(t) /\ Tells(s, t)
<1>. DEFINE k == IF a[1] = "TRCV_MODE"
                 THEN [s.trcv EXCEPT !.hasPending = @ /\ s.trcv.pendingMode # a[2]]
                 ELSE [s.trcv EXCEPT !.wuf = @ \ {a[2]}]
            t == [s EXCEPT !.trcv = k]
<1>1. s \in SMRecord
      /\ s.trcv \in [hasPending : BOOLEAN, pendingMode : {"NORMAL", "STANDBY"},
                     wuf : SUBSET {"clear", "check"}]
  BY DEF SMOK, SMRecord
<1>2. k \in [hasPending : BOOLEAN, pendingMode : {"NORMAL", "STANDBY"},
             wuf : SUBSET {"clear", "check"}]
  <2>1. CASE a[1] = "TRCV_MODE"
    <3>. DEFINE b == s.trcv.hasPending /\ s.trcv.pendingMode # a[2]
    <3>1. b \in BOOLEAN /\ k = [s.trcv EXCEPT !.hasPending = b]
      BY <1>1, <2>1
    <3>. HIDE DEF b, k
    <3>. QED BY <1>1, <3>1
  <2>2. CASE a[1] # "TRCV_MODE"
    BY <1>1, <2>2
  <2>. QED BY <2>1, <2>2
<1>3. TrcvIndication(s, a) = t
  BY <1>1, Zenon DEF TrcvIndication, CanSM_TransceiverModeIndication, TrcvWufIndication, SMRecord
<1>. HIDE DEF k
<1>4. t \in SMRecord
  BY <1>1, <1>2 DEF SMRecord
<1>5. Seen(s, t) /\ t.sub = s.sub /\ t.indicated = s.indicated
  BY <1>1 DEF SMRecord, Seen
<1>. HIDE DEF t
<1>. QED BY <1>3, <1>4, <1>5, SeenSound DEF Seen, Tells

\* The drivers' answers and failures keep the invariant and the indicated mode.
LEMMA AnswersSound ==
  ASSUME NEW s, SMOK(s), NEW t \in Answers(s) \cup Failures(s)
  PROVE  SMOK(t) /\ Tells(s, t)
<1>1. CASE \E c \in Controller : s.target[c] # "UNINIT" /\ t = Reached(s, c, s.target[c])
  BY <1>1, ControllerAnswerSound
<1>2. CASE \E a \in s.trcvTodo : t = TrcvIndication([s EXCEPT !.trcvTodo = @ \ {a}], a)
  <2>1. PICK a \in s.trcvTodo : t = TrcvIndication([s EXCEPT !.trcvTodo = @ \ {a}], a)
    BY <1>2
  <2>. DEFINE u == [s EXCEPT !.trcvTodo = @ \ {a}]
  <2>2. SMOK(u) /\ Tells(s, u) /\ a[1] \in {"TRCV_MODE", "WUF"}
    BY TrcvFailureSound
  <2>. HIDE DEF u
  <2>3. t = TrcvIndication(u, a)
    BY <2>1 DEF u
  <2>. QED BY <2>2, <2>3, TrcvIndicationSound DEF Tells
<1>3. CASE \E c \in Controller : s.target[c] # "UNINIT" /\ t = [s EXCEPT !.target[c] = "UNINIT"]
  BY <1>3, ControllerFailureSound
<1>4. CASE \E a \in s.trcvTodo : t = [s EXCEPT !.trcvTodo = @ \ {a}]
  BY <1>4, TrcvFailureSound
<1>. QED BY <1>1, <1>2, <1>3, <1>4 DEF Answers, Failures

\* CanSM_RequestComMode keeps the invariant and the indicated mode.
LEMMA RequestComModeSound ==
  ASSUME NEW s, SMOK(s), NEW mode \in ComMode
  PROVE  LET t == CanSM_RequestComMode(s, mode).sm
         IN SMOK(t) /\ Tells(s, t)
<1>. DEFINE t == [s EXCEPT !.requestedMode = mode]
<1>1. s \in SMRecord
  BY DEF SMOK
<1>2. t \in SMRecord
  BY <1>1 DEF SMRecord
<1>3. Seen(s, t) /\ t.sub = s.sub /\ t.indicated = s.indicated
  BY <1>1 DEF SMRecord, Seen
<1>4. CanSM_RequestComMode(s, mode).sm \in {s, t}
  BY DEF CanSM_RequestComMode
<1>. HIDE DEF t
<1>. QED BY <1>2, <1>3, <1>4, SeenSound DEF Seen, Tells

\* A started controller that goes bus-off: CanSM is told, or the controller counts as missed.
LEMMA ControllerBusOffSound ==
  ASSUME NEW s, SMOK(s), NEW c \in Controller, s.mode[c] = "STARTED"
  PROVE  LET t == CanIf_ControllerBusOff(s, c)
         IN SMOK(t) /\ Tells(s, t)
<1>. DEFINE f == [s.mode EXCEPT ![c] = "STOPPED"]
            g == [s.target EXCEPT ![c] = "UNINIT"]
            u == [s EXCEPT !.mode = f, !.target = g]
            t == IF s.BsmState = "FULLCOM" THEN [u EXCEPT !.busoffevent = TRUE]
                                           ELSE [u EXCEPT !.missed = s.missed \cup {c}]
<1>1. s \in SMRecord /\ PhaseOK(s) /\ AcceptedOK(s) /\ \A d \in Controller : Truth(s, d)
  BY DEF SMOK
<1>2. /\ f \in [Controller -> ControllerMode] /\ g \in [Controller -> ControllerMode]
      /\ f[c] = "STOPPED" /\ g[c] = "UNINIT"
      /\ \A d \in Controller \ {c} : f[d] = s.mode[d] /\ g[d] = s.target[d]
  BY <1>1 DEF SMRecord, ControllerMode
<1>3. CanIf_ControllerBusOff(s, c) = t
  BY <1>1 DEF CanIf_ControllerBusOff, SMRecord
<1>. HIDE DEF f, g
<1>4. u \in SMRecord
  BY <1>1, <1>2, Zenon DEF SMRecord
<1>5. /\ Kept(s, u) /\ u.ctrl = s.ctrl /\ u.mode = f /\ u.target = g /\ u.missed = s.missed
  BY <1>1, <1>2 DEF SMRecord, Kept, Base
<1>. HIDE DEF u
<1>6. t \in SMRecord
  BY <1>1, <1>4, ZenonT(30) DEF SMRecord
<1>7. /\ t.indicated = u.indicated /\ t.Trcv = u.Trcv /\ t.BsmState = u.BsmState /\ t.sub = u.sub
      /\ t.currentMode = u.currentMode /\ t.PduMode = u.PduMode
      /\ t.requestAccepted = u.requestAccepted /\ t.ctrl = u.ctrl /\ t.mode = u.mode
      /\ t.target = u.target /\ (u.busoffevent => t.busoffevent)
      /\ s.missed \subseteq t.missed /\ (t.busoffevent \/ c \in t.missed)
  BY <1>1, <1>4, <1>5 DEF SMRecord
<1>. HIDE DEF t
<1>8. /\ t.indicated = s.indicated /\ t.Trcv = s.Trcv /\ t.BsmState = s.BsmState /\ t.sub = s.sub
      /\ t.currentMode = s.currentMode /\ t.PduMode = s.PduMode
      /\ t.requestAccepted = s.requestAccepted /\ t.ctrl = s.ctrl /\ t.mode = f
      /\ t.target = g /\ (s.busoffevent => t.busoffevent)
      /\ s.missed \subseteq t.missed /\ (t.busoffevent \/ c \in t.missed)
  BY <1>5, <1>7, Zenon DEF Kept, Base
<1>9. ASSUME NEW d \in Controller
      PROVE  Truth(t, d)
  <2>1. CASE d = c
    BY <1>1, <1>2, <1>8, <2>1, SMTT(30) DEF Truth
  <2>2. CASE d # c
    BY <1>1, <1>2, <1>8, <2>2, SMTT(30) DEF Truth
  <2>. QED BY <2>1, <2>2, Zenon
<1>10. AcceptedOK(t)
  BY <1>1, <1>8, Zenon DEF AcceptedOK
<1>11. \A d \in Controller : t.target[d] \in {"UNINIT", s.target[d]}
  BY <1>2, <1>8, Zenon
<1>12. /\ \A m : AllIn(s, m) => AllIn(t, m)
       /\ \A T : Makes(s, T) => Makes(t, T)
  BY <1>8, <1>11 DEF AllIn, Makes
<1>13. PreNoComOK(s) => PreNoComOK(t)
  BY <1>8, <1>11, <1>12, Zenon DEF PreNoComOK
<1>14. PreFullComOK(s) => PreFullComOK(t)
  BY <1>8, <1>12, Zenon DEF PreFullComOK
<1>15. FullComOK(s) => FullComOK(t)
  BY <1>8, <1>12, Zenon DEF FullComOK
<1>16. \A m : Resting(s, m) => Resting(t, m)
  BY <1>8 DEF Resting
<1>17. PhaseOK(t)
  <2>1. s.BsmState \in {"NOT_INITIALIZED", "PRE_NOCOM", "NOCOM", "PRE_FULLCOM", "FULLCOM",
                        "SILENTCOM"}
    BY <1>1 DEF SMRecord
  <2>. QED BY <1>1, <1>8, <1>12, <1>13, <1>14, <1>15, <1>16, <2>1, Zenon DEF PhaseOK
<1>. QED BY <1>3, <1>6, <1>8, <1>9, <1>10, <1>17, Zenon DEF SMOK, Tells

\* What has been indicated in a call is gone with the next, and the drivers become sound.
LEMMA IndicatedSound ==
  ASSUME NEW s, SMOK(s)
  PROVE  LET t == [s EXCEPT !.indicated = "none"] IN SMOK(t) /\ t.currentMode = s.currentMode
<1>. DEFINE t == [s EXCEPT !.indicated = "none"]
<1>1. s \in SMRecord
  BY DEF SMOK
<1>2. t \in SMRecord
  BY <1>1 DEF SMRecord
<1>3. Seen(s, t) /\ t.sub = s.sub
  BY <1>1 DEF SMRecord, Seen
<1>. HIDE DEF t
<1>. QED BY <1>2, <1>3, SeenSound, Zenon DEF Seen, t

\* Drivers that have become sound keep the invariant.
LEMMA CalmSound ==
  ASSUME NEW s, SMOK(s)
  PROVE  LET t == [s EXCEPT !.faulty = FALSE] IN SMOK(t) /\ Tells(s, t)
<1>. DEFINE t == [s EXCEPT !.faulty = FALSE]
<1>1. s \in SMRecord
  BY DEF SMOK
<1>2. t \in SMRecord
  BY <1>1, Zenon DEF SMRecord
<1>3. Seen(s, t) /\ t.sub = s.sub /\ t.indicated = s.indicated
  BY <1>1 DEF SMRecord, Seen
<1>. HIDE DEF t
<1>. QED BY <1>2, <1>3, SeenSound, Zenon DEF Seen, t, Tells

\* CanSM_Init establishes the invariant.
LEMMA InitSound ==
  ASSUME NEW kind \in Kind
  PROVE  SMOK(CanSM_Init(kind))
<1>. DEFINE s == CanSM_Init(kind)
<1>1. s \in SMRecord
  <2>1. /\ [c \in Controller |->
              [hasPending |-> FALSE, pendingMode |-> "UNINIT", indMode |-> "UNINIT"]]
           \in [Controller -> ControllerModeBuf]
        /\ [c \in Controller |-> "STOPPED"] \in [Controller -> ControllerMode]
        /\ [c \in Controller |-> "UNINIT"] \in [Controller -> ControllerMode]
    BY DEF ControllerModeBuf, ControllerMode
  <2>2. /\ [hasPending |-> FALSE, pendingMode |-> "NORMAL", wuf |-> {}] \in
             [hasPending : BOOLEAN, pendingMode : {"NORMAL", "STANDBY"},
              wuf : SUBSET {"clear", "check"}]
    OBVIOUS
  <2>. QED BY <2>1, <2>2, Zenon DEF CanSM_Init, SMRecord, ComMode, Substate
<1>2. /\ s.BsmState = "NOT_INITIALIZED" /\ s.currentMode = "NO" /\ s.PduMode = "OFFLINE"
      /\ s.requestAccepted = FALSE
      /\ \A c \in Controller : s.target[c] = "UNINIT" /\ s.ctrl[c].indMode = "UNINIT"
  BY Zenon DEF CanSM_Init
<1>. HIDE DEF s
<1>3. /\ \A c \in Controller : Truth(s, c)
      /\ PhaseOK(s) /\ AcceptedOK(s)
  BY <1>2 DEF Truth, PhaseOK, AcceptedOK, Resting
<1>. QED BY <1>1, <1>3 DEF SMOK, s
=============================================================================
