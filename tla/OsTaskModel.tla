---------------------------- MODULE OsTaskModel ----------------------------
(***************************************************************************)
(* What the kernel promises an application about its tasks, without ready  *)
(* queue, priorities, resources or interrupts: accepted activations are    *)
(* counted and each one is executed once, from the first statement to the  *)
(* end of the instance; a task that waits does not run; exactly one task   *)
(* runs.  Which one is left open: the scheduling rule is stated on the     *)
(* kernel itself.                                                          *)
(***************************************************************************)
EXTENDS Naturals

CONSTANTS Task, limit, extended

VARIABLES
  pending,   \* accepted activations of each task not yet executed to the end
  waiting,   \* the tasks in the waiting state
  begun,     \* the tasks with an instance that has started and not ended
  running    \* the task that has the processor

vars == <<pending, waiting, begun, running>>

\* Every step may hand the processor to a task that can run.
Reschedule(b) ==
  /\ running' \in {t \in Task \ waiting' : pending'[t] > 0}
  /\ begun' = b \cup {running'}

Init ==
  /\ pending \in [Task -> {0, 1}] /\ waiting = {}
  /\ running \in {t \in Task : pending[t] = 1} /\ begun = {running}

Activate(t) ==
  /\ pending[t] < limit[t]
  /\ pending' = [pending EXCEPT ![t] = @ + 1] /\ waiting' = waiting
  /\ Reschedule(begun)

Wait ==
  /\ running \in extended
  /\ pending' = pending /\ waiting' = waiting \cup {running}
  /\ Reschedule(begun)

Release(t) ==
  /\ t \in waiting
  /\ pending' = pending /\ waiting' = waiting \ {t}
  /\ Reschedule(begun)

Terminate ==
  /\ pending' = [pending EXCEPT ![running] = @ - 1] /\ waiting' = waiting
  /\ Reschedule(begun \ {running})

Chain(t) ==
  /\ t = running \/ pending[t] < limit[t]
  /\ pending' = IF t = running THEN pending
                ELSE [pending EXCEPT ![t] = @ + 1, ![running] = @ - 1]
  /\ waiting' = waiting
  /\ Reschedule(begun \ {running})

Preempt ==
  /\ pending' = pending /\ waiting' = waiting
  /\ Reschedule(begun)

Next ==
  \/ \E t \in Task : Activate(t) \/ Release(t) \/ Chain(t)
  \/ Wait \/ Terminate \/ Preempt

Spec == Init /\ [][Next]_vars
=============================================================================
