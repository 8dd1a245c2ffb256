----------------------------- MODULE MCOsAlarm -----------------------------
(* Three counters for TLC: the tick counter, whose alarm t1 advances the     *)
(* counter div, which has the alarm d1; and the counter sw with the alarms   *)
(* s1 and s2, which the application increments.                              *)
EXTENDS OsAlarm

CONSTANTS tick, div, sw, t1, d1, s1, s2, none

Counters == {tick, div, sw}
Alarms == <<t1, s1, d1, s2>>
PerAlarm(t, d, s, u) ==
  [a \in {t1, d1, s1, s2} |-> CASE a = t1 -> t [] a = d1 -> d [] a = s1 -> s [] a = s2 -> u]
CounterOf == PerAlarm(tick, div, sw, sw)
Actions == PerAlarm(div, "ACTIVATETASK", "ACTIVATETASK", "SETEVENT")
Max == [c \in Counters |-> IF c = sw THEN 2 ELSE 1]
MinCycle == [c \in Counters |-> 1]
NoAutostart == [type |-> "none", alarmTime |-> 0, cycleTime |-> 0]
Autostart ==
  PerAlarm([type |-> "RELATIVE", alarmTime |-> 1, cycleTime |-> 1],
           [type |-> "ABSOLUTE", alarmTime |-> 0, cycleTime |-> 1], NoAutostart, NoAutostart)
=============================================================================
