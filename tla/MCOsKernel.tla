----------------------------- MODULE MCOsKernel -----------------------------
(* Small configurations of the kernel for TLC: an idle task and up to three  *)
(* application tasks.                                                        *)
EXTENDS OsKernel, TLC

CONSTANTS idle, lo, mid, hi, r1, r2, rs, none, e1, e2

Tasks == {idle, lo, mid, hi}
PerTask(i, l, m, h) ==
  [t \in Tasks |-> CASE t = idle -> i [] t = lo -> l [] t = mid -> m [] t = hi -> h]
Calls(i, l, m, h, isr) ==
  [c \in Tasks \cup {"ISR"} |->
     IF c = "ISR" THEN isr ELSE PerTask(i, l, m, h)[c]]
Nobody == Calls({}, {}, {}, {}, {})
NoChain == PerTask({}, {}, {}, {})
None == PerTask(none, none, none, none)
NoAccess == PerTask({}, {}, {}, {})
Prios == PerTask(0, 1, 2, 3)
AllFull == PerTask("FULL", "FULL", "FULL", "FULL")
AllBasic == PerTask("BASIC", "BASIC", "BASIC", "BASIC")
One == PerTask(1, 1, 1, 1)

(* Resources, queued activations and nested interrupts.                      *)
ResAccess == PerTask({}, {r1, r2}, {r2}, {r1})
ResLimit == PerTask(1, 2, 1, 2)
ResActivate == Calls({lo}, {mid}, {hi}, {}, {lo, hi})

(* Events: the extended tasks mid and hi; hi never ends.                     *)
EvTypes == PerTask("BASIC", "BASIC", "EXTENDED", "EXTENDED")
EvActivate == Calls({}, {}, {}, {mid}, {mid})
EvSet == Calls({}, {hi}, {}, {mid}, {mid, hi})
EvSymmetry == Permutations(Event)

(* mid is not preemptable, mid and hi wait for events, lo and hi share the  *)
(* internal resource r1, and tasks of one activation chain each other.       *)
NonAccess == PerTask({}, {r1, r2}, {r2}, {r1})
NonInternal == PerTask(none, r1, none, r1)
NonSched == PerTask("FULL", "FULL", "NON", "FULL")
NonTypes == PerTask("BASIC", "BASIC", "EXTENDED", "EXTENDED")
NonActivate == Calls({lo}, {mid, hi}, {lo, hi}, {mid}, {lo, mid, hi})
NonChain == PerTask({}, {lo, mid, hi}, {lo, hi}, {mid})
NonSet == Calls({}, {mid, hi}, {hi}, {mid}, {mid, hi})

(* Chaining with queued activations, to tasks of a higher priority.          *)
ChLimit == PerTask(1, 2, 2, 1)
ChActivate == Calls({lo}, {mid}, {}, {lo}, {lo, mid, hi})
ChChain == PerTask({}, {lo, mid}, {hi}, {lo, hi})

(* lo loops over a critical section; mid is not preemptable; hi waits.        *)
LiveAccess == PerTask({}, {r1}, {}, {r1})
LiveSched == PerTask("FULL", "FULL", "NON", "FULL")
LiveActivate == Calls({}, {}, {}, {mid}, {mid})
LiveTypes == PerTask("BASIC", "BASIC", "BASIC", "EXTENDED")
LiveSet == Calls({}, {}, {}, {}, {hi})
=============================================================================
