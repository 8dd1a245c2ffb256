---------------------------- MODULE OsAlarmModel ----------------------------
(***************************************************************************)
(* What SetRelAlarm, SetAbsAlarm and CancelAlarm promise (os_alarm.c:359   *)
(* and 375): an alarm in use expires after exactly the number of ticks it  *)
(* was set for, or when its counter next reaches the absolute value; a     *)
(* cyclic alarm is logged on again at once with its cycle; an alarm leaves *)
(* use by expiring or by being cancelled and in no other way.              *)
(***************************************************************************)
EXTENDS Integers

CONSTANTS Counter, Alarm, counter, max

VARIABLES
  now,        \* the value of each counter
  timer,      \* of each alarm: in use, the ticks left (0: it expires now), cycle
  expiring    \* the alarms whose action is being carried out

vars == <<now, timer, expiring>>

Unused == [on |-> FALSE, left |-> 0, cycle |-> 0]

Init ==
  /\ now = [c \in Counter |-> 0] /\ expiring = {}
  /\ timer \in [Alarm -> {Unused} \cup [on : {TRUE}, left : Nat, cycle : Nat]]

\* Set for n ticks: Increment, or the distance of the counter to Start (a full turn
\* when it is there already, 0 when the alarm is to expire before the tick is over).
Set(a) ==
  /\ ~timer[a].on
  /\ UNCHANGED <<now, expiring>>
  /\ \E n \in 0 .. max[counter[a]] + 1, cyc \in 0 .. max[counter[a]] :
       timer' = [timer EXCEPT ![a] = [on |-> TRUE, left |-> n, cycle |-> cyc]]

Cancel(a) ==
  /\ UNCHANGED <<now, expiring>>
  /\ timer' = [timer EXCEPT ![a] = Unused]

\* A counter advances only when everything that was due has expired.
Tick(c) ==
  LET running == {a \in Alarm : counter[a] = c /\ timer[a].on} IN
  /\ \A a \in running : timer[a].left > 0
  /\ now' = [now EXCEPT ![c] = (@ + 1) % (max[c] + 1)]
  /\ timer' = [a \in Alarm |-> IF a \in running THEN [timer[a] EXCEPT !.left = @ - 1]
                               ELSE timer[a]]
  /\ UNCHANGED expiring

Expire(a) ==
  /\ timer[a].on /\ timer[a].left = 0
  /\ timer' = [timer EXCEPT ![a] = IF @.cycle = 0 THEN Unused
                                   ELSE [@ EXCEPT !.left = timer[a].cycle]]
  /\ expiring' = expiring \cup {a}
  /\ UNCHANGED now

Done(a) ==
  /\ expiring' = expiring \ {a}
  /\ UNCHANGED <<now, timer>>

Next ==
  \/ \E c \in Counter : Tick(c)
  \/ \E a \in Alarm : Set(a) \/ Cancel(a) \/ Expire(a) \/ Done(a)

Spec == Init /\ [][Next]_vars
=============================================================================
