------------------------------ MODULE OsAlarm ------------------------------
(***************************************************************************)
(* Counters and alarms (os_counter.c, os_counter_i.h, os_alarm.c).         *)
(*                                                                         *)
(* Advancing a counter walks the list of its alarms and carries out the    *)
(* action of those that have expired; only then is the alarm processed.    *)
(* The walk can be suspended: IncrementCounter, called in a task, by the   *)
(* task its ActivateTask or SetEvent makes run, and OsTick, an interrupt   *)
(* that is not locked, by more urgent interrupts at any point.  Suspended  *)
(* walks are resumed last in, first out, as tasks and interrupts are, and  *)
(* wait in stack.                                                          *)
(***************************************************************************)
EXTENDS Integers, Sequences, FiniteSets

CONSTANTS
  Counter, maxallowedvalue, mincycle,
  soft,               \* the counters of type COUNTER_TYPE_SOFT
  Os_Arc_OsTickCounter,
  alarm_list,         \* the configured alarms, in the order of their identifiers
  counter, action,    \* by alarm; the action: its kind, or the counter to increment
  autostart,          \* by alarm: the type of autostart, alarmTime and cycleTime
  schtbl_counter,     \* the counter of the first schedule table, if there is one
  MaxWalks,           \* bound on the suspended walks
  MayIncrement,       \* the counters the application increments
  MaySet,             \* the alarms it sets and cancels
  Increments, Starts, Cycles,   \* what it passes to the services
  Disturb             \* what runs inside a walk may meddle with: its "alarm", its "counter"

Alarm == {alarm_list[i] : i \in DOMAIN alarm_list}

ASSUME CounterAssumption ==
  /\ maxallowedvalue \in [Counter -> Nat] /\ mincycle \in [Counter -> Nat]
  /\ soft \subseteq Counter /\ Os_Arc_OsTickCounter \in Counter
  /\ counter \in [Alarm -> Counter]
  /\ action \in [Alarm -> {"ACTIVATETASK", "SETEVENT", "ALARMCALLBACK"} \cup Counter]

VARIABLES
  val,                              \* OsCounterType.val
  alarm_head,                       \* OsCounterType.alarm_head
  active, expire_val, cycletime,    \* OsAlarmType
  stack                             \* the walks of Os_AlarmCheck, the current one first

alarmVars == <<active, expire_val, cycletime>>
vars == <<val, alarm_head, alarmVars, stack>>

\* Definitions named X_Slip are not part of the model: each is X with a slip that
\* a property must notice.
Os_CounterAdd_NoZero(curr, max, add) ==
  IF add <= max - curr THEN curr + add ELSE (add - (max - curr)) % (max + 1)

Os_CounterAdd(curr, max, add) ==
  IF add <= max - curr THEN curr + add ELSE add - (max - curr) - 1

Os_CounterDiff(curr, old, max) ==
  IF curr >= old THEN curr - old ELSE curr + (max - old) + 1

COUNTER_MAX(a) == maxallowedvalue[counter[a]]

Os_AlarmCheckCycle(cycle, a) == cycle = 0 \/ cycle \in mincycle[counter[a]] .. COUNTER_MAX(a)
-----------------------------------------------------------------------------
(* Os_AlarmCheck                                                             *)

Top == Head(stack)
Walks == {stack[i] : i \in DOMAIN stack}

\* The alarms that have expired and are not yet processed.
Expiring == {Head(w.todo) : w \in {v \in Walks : v.at # "test"}}

\* A walk in a task is left by a dispatch inside ActivateTask or SetEvent; the walk
\* of OsTick by an interrupt; one in another interrupt is locked.
Interruptible ==
  stack # <<>> =>
    \/ Top.kind = "OsTick"
    \/ /\ Top.kind = "task" /\ Top.at = "process"
       /\ action[Head(Top.todo)] \in {"ACTIVATETASK", "SETEVENT"}

AtTaskLevel == \A w \in Walks : w.kind = "task"

Walk(kind, c) == [kind |-> kind, counter |-> c, todo |-> alarm_head[c], at |-> "test"]

Advance(c) == [val EXCEPT ![c] = Os_CounterAdd(@, maxallowedvalue[c], 1)]

\* The current walk goes on.
Becomes(w) == stack' = <<w>> \o Tail(stack)

Os_AlarmCheck_Reached ==
  /\ stack # <<>> /\ Top.at = "test"
  /\ LET a == Head(Top.todo)
         expired == active[a] /\ val[Top.counter] >= expire_val[a]
     IN  \/ /\ Top.todo = <<>>
            /\ stack' = Tail(stack)
         \/ /\ Top.todo # <<>> /\ ~expired
            /\ Becomes([Top EXCEPT !.todo = Tail(@)])
         \/ /\ Top.todo # <<>> /\ expired
            /\ Becomes([Top EXCEPT !.at = IF action[a] \in soft THEN "call" ELSE "process"])
  /\ UNCHANGED <<val, alarm_head, alarmVars>>

\* The loop of Os_AlarmCheck: return, pass an alarm, or carry out its action.
Os_AlarmCheck ==
  /\ stack # <<>> /\ Top.at = "test"
  /\ LET a == Head(Top.todo)
         expired == active[a] /\ val[Top.counter] = expire_val[a]
     IN  \/ /\ Top.todo = <<>>
            /\ stack' = Tail(stack)
         \/ /\ Top.todo # <<>> /\ (~expired \/ action[a] = "ALARMCALLBACK")
            /\ Becomes([Top EXCEPT !.todo = Tail(@)])
         \/ /\ Top.todo # <<>> /\ expired /\ action[a] # "ALARMCALLBACK"
            /\ Becomes([Top EXCEPT !.at = IF action[a] \in soft THEN "call" ELSE "process"])
  /\ UNCHANGED <<val, alarm_head, alarmVars>>

\* The action ALARM_ACTION_INCREMENTCOUNTER
AlarmIncrement ==
  /\ stack # <<>> /\ Top.at = "call"
  /\ LET c == action[Head(Top.todo)] IN
     /\ val' = Advance(c)
     /\ stack' = <<Walk(IF Top.kind = "task" THEN "task" ELSE "locked", c),
                   [Top EXCEPT !.at = "process"]>> \o Tail(stack)
  /\ UNCHANGED <<alarm_head, alarmVars>>

AlarmProcess_KeepValue ==
  /\ stack # <<>> /\ Top.at = "process"
  /\ LET a == Head(Top.todo) IN
     active' = [active EXCEPT ![a] = cycletime[a] # 0]
  /\ Becomes([Top EXCEPT !.at = "test", !.todo = Tail(@)])
  /\ UNCHANGED <<val, alarm_head, expire_val, cycletime>>

\* AlarmProcess, when the action has returned, and the next alarm
AlarmProcess ==
  /\ stack # <<>> /\ Top.at = "process"
  /\ LET a == Head(Top.todo) IN
     IF cycletime[a] = 0
     THEN active' = [active EXCEPT ![a] = FALSE] /\ UNCHANGED expire_val
     ELSE /\ expire_val' = [expire_val EXCEPT ![a] =
                              Os_CounterAdd(val[counter[a]], COUNTER_MAX(a), cycletime[a])]
          /\ UNCHANGED active
  /\ Becomes([Top EXCEPT !.at = "test", !.todo = Tail(@)])
  /\ UNCHANGED <<val, alarm_head, cycletime>>
-----------------------------------------------------------------------------
(* Services                                                                  *)

MayAdvance(c) ==
  /\ Interruptible /\ Len(stack) < MaxWalks
  /\ (\E w \in Walks : w.counter = c) => "counter" \in Disturb

IncrementCounter(c, kind) ==
  /\ MayAdvance(c) /\ c \in soft \cap MayIncrement
  /\ kind = "task" => AtTaskLevel
  /\ val' = Advance(c)
  /\ stack' = <<Walk(kind, c)>> \o stack
  /\ UNCHANGED <<alarm_head, alarmVars>>

OsTick ==
  /\ MayAdvance(Os_Arc_OsTickCounter)
  /\ \A w \in Walks : w.kind # "OsTick"
  /\ val' = Advance(Os_Arc_OsTickCounter)
  /\ stack' = <<Walk("OsTick", Os_Arc_OsTickCounter)>> \o stack
  /\ UNCHANGED <<alarm_head, alarmVars>>

MayTouch(a) == Interruptible /\ a \in MaySet /\ (a \in Expiring => "alarm" \in Disturb)

SetAlarm(a, expire, cycle) ==
  /\ ~active[a]
  /\ active' = [active EXCEPT ![a] = TRUE]
  /\ expire_val' = [expire_val EXCEPT ![a] = expire]
  /\ cycletime' = [cycletime EXCEPT ![a] = cycle]
  /\ UNCHANGED <<val, alarm_head, stack>>

SetRelAlarm(a, inc, cycle) ==
  /\ MayTouch(a)
  /\ inc \in 1 .. COUNTER_MAX(a) /\ Os_AlarmCheckCycle(cycle, a)
  /\ SetAlarm(a, Os_CounterAdd(val[counter[a]], COUNTER_MAX(a), inc), cycle)

SetAbsAlarm(a, start, cycle) ==
  /\ MayTouch(a)
  /\ start <= COUNTER_MAX(a) /\ Os_AlarmCheckCycle(cycle, a)
  /\ SetAlarm(a, start, cycle)

CancelAlarm(a) ==
  /\ MayTouch(a) /\ active[a]
  /\ active' = [active EXCEPT ![a] = FALSE]
  /\ UNCHANGED <<val, alarm_head, expire_val, cycletime, stack>>
-----------------------------------------------------------------------------
(* Os_CounterInit and Os_AlarmAutostart                                      *)

\* The alarms are linked at the head of their counter's list in the order of their
\* identifiers.  The schedule tables come after: SLIST_INIT(&cPtr->alarm_head).
Os_CounterInit(c) ==
  LET q == SelectSeq(alarm_list, LAMBDA a : counter[a] = c) IN
  IF c = schtbl_counter THEN <<>> ELSE [i \in 1 .. Len(q) |-> q[Len(q) + 1 - i]]

Autostarts(a) ==
  LET s == autostart[a] IN
  /\ s.type # "none" /\ Os_AlarmCheckCycle(s.cycleTime, a)
  /\ s.alarmTime \in (IF s.type = "ABSOLUTE" THEN 0 ELSE 1) .. COUNTER_MAX(a)

Init ==
  /\ val = [c \in Counter |-> 0] /\ stack = <<>>
  /\ alarm_head = [c \in Counter |-> Os_CounterInit(c)]
  /\ active = [a \in Alarm |-> Autostarts(a)]
  /\ expire_val = [a \in Alarm |-> IF Autostarts(a) THEN autostart[a].alarmTime ELSE 0]
  /\ cycletime = [a \in Alarm |-> IF Autostarts(a) THEN autostart[a].cycleTime ELSE 0]

Next ==
  \/ \E c \in Counter, kind \in {"task", "locked"} : IncrementCounter(c, kind)
  \/ OsTick \/ Os_AlarmCheck \/ AlarmIncrement \/ AlarmProcess
  \/ \E a \in Alarm, cycle \in Cycles :
       \/ \E inc \in Increments : SetRelAlarm(a, inc, cycle)
       \/ \E start \in Starts : SetAbsAlarm(a, start, cycle)
  \/ \E a \in Alarm : CancelAlarm(a)

Spec == Init /\ [][Next]_vars
-----------------------------------------------------------------------------
(* Properties                                                                *)

\* An alarm goes out of use only when it is cancelled or when its counter is at the
\* value it was last set to expire at: what SetRelAlarm or SetAbsAlarm accepted is
\* not lost (AlarmProcess, os_alarm.c:46).
SettingKept ==
  [][\A a \in Alarm : active[a] /\ ~active'[a] =>
       CancelAlarm(a) \/ val[counter[a]] = expire_val[a]]_vars

\* A walk of the alarm's counter has yet to reach the alarm.
Ahead(a) == \E w \in Walks : \E i \in DOMAIN w.todo : w.todo[i] = a /\ (i > 1 \/ w.at = "test")

\* The ticks until the counter is at expire_val: a full turn when it is there now
\* and has been passed.
TicksLeft(a) ==
  LET n == Os_CounterDiff(expire_val[a], val[counter[a]], COUNTER_MAX(a)) IN
  IF n = 0 /\ ~Ahead(a) THEN COUNTER_MAX(a) + 1 ELSE n

\* An alarm set with SetRelAlarm is Increment ticks away from its expiry, wherever the
\* counter stands and whatever walk is suspended, and one set with SetAbsAlarm expires
\* when its counter reaches Start (os_alarm.c:359 and 375).
SetForTicks ==
  [][\A a \in Alarm :
       /\ \A inc \in Increments, cycle \in Cycles :
            SetRelAlarm(a, inc, cycle) => TicksLeft(a)' = inc
       /\ \A start \in Starts, cycle \in Cycles :
            SetAbsAlarm(a, start, cycle) =>
              (val[counter[a]] + TicksLeft(a)') % (COUNTER_MAX(a) + 1) = start]_vars

\* The alarms keep the promises of the services: every setting is counted down tick
\* by tick and expires when nothing is left, at every value of the counter and across
\* its wrap, no matter which walks are suspended; no counter advances past an alarm
\* that is due and nothing expires twice.
AlarmModel == INSTANCE OsAlarmModel WITH
  max <- maxallowedvalue, now <- val, expiring <- Expiring,
  timer <- [a \in Alarm |->
     IF ~active[a] \/ (a \in Expiring /\ cycletime[a] = 0)
     THEN [on |-> FALSE, left |-> 0, cycle |-> 0]
     ELSE [on |-> TRUE, cycle |-> cycletime[a],
           left |-> IF a \in Expiring THEN cycletime[a] ELSE TicksLeft(a)]]
ImplementsAlarmModel == AlarmModel!Spec
=============================================================================
