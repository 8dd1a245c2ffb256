------------------------------ MODULE OsKernel ------------------------------
(***************************************************************************)
(* The task kernel of the Arctic Core operating system on one core: the    *)
(* ready queue and the dispatcher (os_task.c), events (os_event.c),        *)
(* resources with the immediate priority ceiling (os_resource.c,           *)
(* os_task_i.h), category 2 interrupts (os_isr.c) and the interrupt        *)
(* suspension of Os.h, in the build with extended status codes, without    *)
(* CFG_KERNEL_EXTRA and with the generic context switch of os_task.c:748.  *)
(*                                                                         *)
(* A C function that changes the kernel's data is an operator from a       *)
(* kernel record to the kernel record it leaves; a service is an action    *)
(* that runs such operators between its Irq_Save and its Irq_Restore.      *)
(* Where a service touches shared data outside that section the action is  *)
(* split and the rest of the call waits in pend.  A service that returns   *)
(* an error code changes nothing and is left out.                          *)
(***************************************************************************)
EXTENDS Integers, Sequences, FiniteSets, FiniteSetsExt, Functions, TailQueue

CONSTANTS
  Task, OsIdle,      \* the configured tasks and the idle task among them
  Resource,          \* the configured resources, RES_SCHEDULER included
  Event,             \* the event bits
  RES_SCHEDULER, OS_RES_SCHEDULER_PRIO,
  NO_TASK_OWNER,     \* "no task": no owner, no internal resource
  prio, scheduling, proc_type, activationLimit, autostart,
  resourceAccess,    \* the resources a task may take
  resourceInt,       \* the internal resource of a task, or NO_TASK_OWNER
  MaxNest,           \* bound on the nesting of interrupts
  MaxSuspend,        \* bound on the nesting of SuspendOSInterrupts
  MayActivate,       \* which tasks a task, or an ISR, activates
  MayChain,          \* which tasks a task chains to
  MaySetEvent,       \* the tasks whose events a task, or an ISR, sets
  MaySuspend,        \* the tasks, or ISR, that suspend interrupts
  MayTerminate,      \* the tasks that call TerminateTask
  MayReturn          \* the tasks that may return without TerminateTask

ISR == "ISR"

Internal == {resourceInt[t] : t \in Task} \ {NO_TASK_OWNER}

\* Definitions named X_Slip are not part of the model: each is X with a slip that
\* a property must notice.
ceiling_Lowest(r) ==
  IF r = RES_SCHEDULER THEN OS_RES_SCHEDULER_PRIO
  ELSE Min({prio[t] : t \in {u \in Task : r \in resourceAccess[u]}} \cup {OS_RES_SCHEDULER_PRIO})

\* Os_ResourceInit
ceiling(r) ==
  IF r = RES_SCHEDULER THEN OS_RES_SCHEDULER_PRIO
  ELSE Max({prio[t] : t \in {u \in Task : r \in resourceAccess[u]}} \cup {0})

ASSUME TaskAssumption ==
  /\ IsFiniteSet(Task) /\ OsIdle \in autostart /\ autostart \subseteq Task
  /\ prio \in [Task -> Nat] /\ activationLimit \in [Task -> 1..254]
  /\ scheduling \in [Task -> {"FULL", "NON"}]
  /\ proc_type \in [Task -> {"BASIC", "EXTENDED"}]
  /\ NO_TASK_OWNER \notin Task /\ ISR \notin Task
  /\ (1 .. MaxNest) \cap Task = {}
  /\ MaxNest \in Nat /\ MaxSuspend \in Nat

ASSUME IdleAssumption ==
  /\ \A t \in Task \ {OsIdle} : prio[OsIdle] < prio[t]
  /\ scheduling[OsIdle] = "FULL" /\ proc_type[OsIdle] = "BASIC"
  /\ resourceInt[OsIdle] = NO_TASK_OWNER

\* GEN_ETASK gives every extended task an activation limit of one.
ASSUME ExtendedAssumption ==
  \A t \in Task : proc_type[t] = "EXTENDED" => activationLimit[t] = 1

ASSUME ResourceAssumption ==
  /\ RES_SCHEDULER \in Resource /\ NO_TASK_OWNER \notin Resource
  /\ OS_RES_SCHEDULER_PRIO \in Nat
  /\ \A t \in Task : prio[t] < OS_RES_SCHEDULER_PRIO
  /\ resourceAccess \in [Task -> SUBSET Resource]
  /\ resourceInt \in [Task -> Resource \cup {NO_TASK_OWNER}]
  /\ RES_SCHEDULER \notin Internal
  /\ \A t \in Task : \/ resourceInt[t] = NO_TASK_OWNER
                     \/ scheduling[t] = "FULL" /\ resourceInt[t] \in resourceAccess[t]

ASSUME CallAssumption ==
  /\ MayActivate \in [Task \cup {ISR} -> SUBSET Task]
  /\ MaySetEvent \in [Task \cup {ISR} -> SUBSET Task]
  /\ MayChain \in [Task -> SUBSET Task]
  /\ MaySuspend \subseteq Task \cup {ISR}
  /\ MayTerminate \subseteq Task \ {OsIdle} /\ MayReturn \subseteq Task \ {OsIdle}
  /\ MayChain[OsIdle] = {}

VARIABLES
  \* OsTaskVarType, by task
  state, activePriority, activations, reactivation, ev_set, ev_wait,
  resources,     \* resourceHead: the resources held, in the order taken
  ctx,           \* what the saved context of the task resumes
  \* OsResourceType, by resource
  owner, old_task_prio,
  \* Os_Sys
  ready,         \* ready_head; the running task stays in it
  curr,          \* currTaskPtr
  asserted,      \* an ASSERT has failed: ShutdownOS(E_OS_ASSERT)
  intNestCnt, Os_IntSuspendAllCnt,
  pend           \* what an interruptible service has left to do

sysVars == <<state, activePriority, activations, reactivation, ev_set, ev_wait,
             resources, ctx, owner, old_task_prio, ready, curr, asserted>>
vars == <<sysVars, intNestCnt, Os_IntSuspendAllCnt, pend>>

Sys ==
  [state |-> state, activePriority |-> activePriority,
   activations |-> activations, reactivation |-> reactivation,
   ev_set |-> ev_set, ev_wait |-> ev_wait, resources |-> resources,
   ctx |-> ctx, owner |-> owner, old_task_prio |-> old_task_prio,
   ready |-> ready, curr |-> curr, asserted |-> asserted]

SysBecomes(s) ==
  /\ state' = s.state /\ activePriority' = s.activePriority
  /\ activations' = s.activations /\ reactivation' = s.reactivation
  /\ ev_set' = s.ev_set /\ ev_wait' = s.ev_wait
  /\ resources' = s.resources /\ ctx' = s.ctx
  /\ owner' = s.owner /\ old_task_prio' = s.old_task_prio
  /\ ready' = s.ready /\ curr' = s.curr /\ asserted' = s.asserted

States == {"SUSPENDED", "READY", "RUNNING", "WAIT_EVENT"}

\* A context resumes at the entry of the task, in the middle of it, or inside
\* a TerminateTask or ChainTask that must not return; or it was never saved.
Contexts == {"entry", "middle", "ended", "unsaved"}

Context == Task \cup (1 .. MaxNest)
NoPend == [op |-> "none"]
Pending ==
  {NoPend} \cup [op : {"limit"}, task : Task]
           \cup [op : {"store"}, task : Task, val : 0 .. 255]
           \cup [op : {"SetEvent"}, task : Task, mask : SUBSET Event]
-----------------------------------------------------------------------------
(* Helpers of os_task.c, os_task_i.h and os_resource.c                       *)

Asserting(s, cond) == [s EXCEPT !.asserted = @ \/ ~cond]

Os_TaskRunningToReady(s, t) ==
  Asserting([s EXCEPT !.state[t] = "READY"], s.state[t] = "RUNNING")

Os_TaskMakeReady_NoStateTest(s, t) ==
  [s EXCEPT !.state[t] = "READY", !.ready = Append(@, t)]

Os_TaskMakeReady(s, t) ==
  IF s.state[t] \in {"READY", "RUNNING"} THEN s
  ELSE [s EXCEPT !.state[t] = "READY", !.ready = Append(@, t)]

\* Os_TaskMakeSuspended, Os_TaskMakeWaiting: leave the ready queue
Os_TaskMakeUnready(s, t, st) ==
  Asserting([s EXCEPT !.state[t] = st, !.ready = TAILQ_REMOVE(@, t)],
            s.state[t] \in {"READY", "RUNNING"})

Os_Arc_SetCleanContext(s, t) ==
  IF proc_type[t] = "EXTENDED"
  THEN [s EXCEPT !.ev_set[t] = {}, !.ev_wait[t] = {}, !.ctx[t] = "entry"]
  ELSE [s EXCEPT !.ctx[t] = "entry"]

IsTop_LastWins(s, t) ==
  \E i \in DOMAIN s.ready :
    /\ t = s.ready[i]
    /\ \A j \in DOMAIN s.ready :
         /\ s.activePriority[s.ready[j]] <= s.activePriority[t]
         /\ j > i => s.activePriority[s.ready[j]] < s.activePriority[t]

\* The first task of the ready queue with the highest active priority.
IsTop(s, t) ==
  \E i \in DOMAIN s.ready :
    /\ t = s.ready[i]
    /\ \A j \in DOMAIN s.ready :
         /\ s.activePriority[s.ready[j]] <= s.activePriority[t]
         /\ j < i => s.activePriority[s.ready[j]] < s.activePriority[t]

Os_TaskGetTop(s) == CHOOSE t \in Task : IsTop(s, t)

Os_TaskResourceAdd(s, r, t) ==
  [s EXCEPT !.owner[r] = t,
            !.old_task_prio[r] = s.activePriority[t],
            !.activePriority[t] = ceiling(r),
            !.resources[t] = IF r \in Internal THEN @ ELSE Append(@, r)]

Os_TaskResourceRemove_BasePriority(s, r, t) ==
  [s EXCEPT !.owner[r] = NO_TASK_OWNER,
            !.activePriority[t] = prio[t],
            !.resources[t] = IF r \in Internal THEN @ ELSE TAILQ_REMOVE(@, r)]

Os_TaskResourceRemove(s, r, t) ==
  Asserting([s EXCEPT !.owner[r] = NO_TASK_OWNER,
                      !.activePriority[t] = s.old_task_prio[r],
                      !.resources[t] = IF r \in Internal THEN @
                                       ELSE TAILQ_REMOVE(@, r)],
            /\ s.owner[r] = t
            /\ r \in Internal \/ /\ s.resources[t] # <<>>
                                 /\ TAILQ_LAST(s.resources[t]) = r)

\* The loop removes the resources from the head of the list: every removal but
\* that of a single resource fails the LIFO ASSERT, and the priority that stays
\* is the one saved by the resource taken last.
Os_TaskResourceFreeAll(s, t) ==
  LET held == s.resources[t] IN
  IF held = <<>> THEN s
  ELSE Asserting([s EXCEPT !.owner = [r \in Resource |->
                              IF r \in Range(held) THEN NO_TASK_OWNER ELSE @[r]],
                           !.activePriority[t] = s.old_task_prio[TAILQ_LAST(held)],
                           !.resources[t] = <<>>],
                 Len(held) = 1 /\ s.owner[TAILQ_LAST(held)] = t)

Os_ResourceGetInternal_Forgotten(s, t) == s

Os_ResourceGetInternal(s, t) ==
  IF resourceInt[t] = NO_TASK_OWNER THEN s
  ELSE Os_TaskResourceAdd(s, resourceInt[t], t)

Os_ResourceReleaseInternal(s, t) ==
  IF resourceInt[t] = NO_TASK_OWNER THEN s
  ELSE Os_TaskResourceRemove(s, resourceInt[t], t)

\* Os_TaskSwapContext and Os_TaskSwapContextTo, as seen by the new task.  A
\* context saved inside TerminateTask or ChainTask resumes at its ASSERT(0).
Os_TaskSwapContext(s, t) ==
  LET got == Os_ResourceGetInternal([s EXCEPT !.curr = t], t)
  IN  Asserting([got EXCEPT !.state[t] = "RUNNING"], s.ctx[t] # "ended")

Os_TaskStartFromBeginning(s, t) ==
  [s EXCEPT !.state[t] = "RUNNING", !.curr = t, !.ctx[t] = "entry"]
-----------------------------------------------------------------------------
(* Os_Dispatch                                                               *)

EndInstance_DropsQueued(s, t, op) ==
  Os_TaskMakeUnready([s EXCEPT !.activations[t] = 0], t, "SUSPENDED")

EndInstance_FlagAlways(s, t, op) ==
  LET n == (s.activations[t] + 255) % 256
      s1 == [s EXCEPT !.activations[t] = n, !.reactivation[t] = op = "CHAIN_TASK"]
  IN  IF n = 0 THEN Os_TaskMakeUnready(s1, t, "SUSPENDED")
      ELSE IF op = "CHAIN_TASK" THEN Os_TaskRunningToReady(s1, t) ELSE s1

\* The running task gives up one activation, by ChainTask or TerminateTask.
EndInstance(s, t, op) ==
  LET n == (s.activations[t] + 255) % 256
      s1 == Asserting([s EXCEPT !.activations[t] = n], s.activations[t] > 0)
  IN  IF n = 0 THEN Os_TaskMakeUnready(s1, t, "SUSPENDED")
      ELSE IF op = "CHAIN_TASK"
      THEN [Os_TaskRunningToReady(s1, t) EXCEPT !.reactivation[t] = TRUE]
      ELSE s1

\* "Go the correct state for running task": the switch of Os_Dispatch.
LeaveRunning(s, op, chained) ==
  LET c == s.curr IN
  CASE op \in {"SET_EVENT", "SCHEDULE", "RELEASE_RESOURCE"} ->
         Os_TaskRunningToReady(s, c)
    [] op = "WAIT_EVENT" -> Os_TaskMakeUnready(s, c, "WAIT_EVENT")
    [] op = "ACTIVATE_TASK" -> Os_TaskMakeReady(s, c)
    [] op = "CHAIN_TASK" -> IF c = chained THEN s ELSE EndInstance(s, c, op)
    [] op = "TERMINATE_TASK" -> EndInstance(s, c, op)

SwitchTo_KeepsFlag(s, c, top, op) ==
  LET s1 == Os_ResourceReleaseInternal(s, c)
      saved == IF op \in {"CHAIN_TASK", "TERMINATE_TASK"} THEN "ended" ELSE "middle"
  IN  IF s1.reactivation[top]
      THEN Os_TaskStartFromBeginning([s1 EXCEPT !.ctx[c] = saved], top)
      ELSE Os_TaskSwapContext([s1 EXCEPT !.ctx[c] = saved], top)

\* A task that chained with activations left is started anew, and then the
\* context of the task that leaves is not saved; any other task is resumed.
SwitchTo(s, c, top, op) ==
  LET s1 == Os_ResourceReleaseInternal(s, c)
      saved == IF op \in {"CHAIN_TASK", "TERMINATE_TASK"} THEN "ended" ELSE "middle"
  IN  IF s1.reactivation[top]
      THEN Os_TaskStartFromBeginning(
             [s1 EXCEPT !.reactivation[top] = FALSE,
                        !.ctx[c] = IF saved = "ended" THEN saved ELSE "unsaved"], top)
      ELSE Os_TaskSwapContext([s1 EXCEPT !.ctx[c] = saved], top)

Os_Dispatch(s, op, chained) ==
  LET c == s.curr
      s0 == Asserting(s, /\ intNestCnt = 0
                         /\ s.owner[RES_SCHEDULER] = NO_TASK_OWNER
                         /\ s.state[c] = "RUNNING")
      s1 == LeaveRunning(s0, op, chained)
      top == Os_TaskGetTop(s1)
  IN  IF top = c THEN Os_TaskStartFromBeginning(s1, c)
      ELSE SwitchTo(s1, c, top, op)
-----------------------------------------------------------------------------
(* Services.  A service runs in the interrupt at the current nesting level,  *)
(* or in the current task when no interrupt is active.                       *)

Running == IF intNestCnt = 0 THEN curr ELSE intNestCnt
Caller == IF intNestCnt = 0 THEN curr ELSE ISR
Os_SysIntAnyDisabled == Os_IntSuspendAllCnt # 0

MayCall == ~asserted /\ pend[Running] = NoPend
TaskMayCall == MayCall /\ intNestCnt = 0 /\ ~Os_SysIntAnyDisabled
Os_TaskOccupiesResources == resources[curr] # <<>>

\* E_OS_LIMIT leaves the incremented count behind, with interrupts enabled,
\* until ActivateTaskLimit has taken it back.
ActivateTask(t) ==
  /\ MayCall /\ ~Os_SysIntAnyDisabled
  /\ t \in MayActivate[Caller]
  /\ LET s0 == [Sys EXCEPT !.activations[t] = (@ + 1) % 256]
         s1 == IF state[t] # "SUSPENDED" THEN s0
               ELSE Os_TaskMakeReady(
                      Os_Arc_SetCleanContext(
                        Asserting(s0, s0.activations[t] = 1), t), t)
         limit == state[t] # "SUSPENDED" /\ s0.activations[t] > activationLimit[t]
         preempts == /\ intNestCnt = 0 /\ scheduling[curr] = "FULL"
                     /\ activePriority[t] > activePriority[curr]
     IN  /\ SysBecomes(IF ~limit /\ preempts
                       THEN Os_Dispatch(s1, "ACTIVATE_TASK", curr) ELSE s1)
         /\ pend' = IF limit THEN [pend EXCEPT ![Running] = [op |-> "limit", task |-> t]]
                    ELSE pend
  /\ UNCHANGED <<intNestCnt, Os_IntSuspendAllCnt>>

ActivateTaskLimit_NoDecrement ==
  /\ ~asserted /\ pend[Running].op = "limit"
  /\ pend' = [pend EXCEPT ![Running] = NoPend]
  /\ UNCHANGED <<sysVars, intNestCnt, Os_IntSuspendAllCnt>>

\* The decrement after Irq_Restore: the read and the write of the count.
ActivateTaskLimit ==
  /\ ~asserted
  /\ LET p == pend[Running] IN
     \/ /\ p.op = "limit"
        /\ pend' = [pend EXCEPT ![Running] =
                      [op |-> "store", task |-> p.task, val |-> activations[p.task]]]
        /\ UNCHANGED sysVars
     \/ /\ p.op = "store"
        /\ pend' = [pend EXCEPT ![Running] = NoPend]
        /\ SysBecomes([Sys EXCEPT !.activations[p.task] = (p.val + 255) % 256])
  /\ UNCHANGED <<intNestCnt, Os_IntSuspendAllCnt>>

TerminateTask ==
  /\ TaskMayCall /\ curr \in MayTerminate /\ ~Os_TaskOccupiesResources
  /\ SysBecomes(Os_Dispatch(Sys, "TERMINATE_TASK", curr))
  /\ UNCHANGED <<intNestCnt, Os_IntSuspendAllCnt, pend>>

\* Os_TaskPost: a task has returned without TerminateTask or ChainTask.
Os_TaskPost ==
  /\ MayCall /\ intNestCnt = 0 /\ curr \in MayReturn
  /\ SysBecomes(Os_Dispatch(Os_TaskResourceFreeAll(Sys, curr), "TERMINATE_TASK", curr))
  /\ Os_IntSuspendAllCnt' = 0
  /\ UNCHANGED <<intNestCnt, pend>>

ChainTask_NotCounted(t) ==
  /\ TaskMayCall /\ ~Os_TaskOccupiesResources
  /\ t \in MayChain[curr]
  /\ t = curr \/ activations[t] + 1 <= activationLimit[t]
  /\ SysBecomes(Os_Dispatch(IF state[t] # "SUSPENDED" THEN Sys
                            ELSE Os_TaskMakeReady(Os_Arc_SetCleanContext(Sys, t), t),
                            "CHAIN_TASK", t))
  /\ UNCHANGED <<intNestCnt, Os_IntSuspendAllCnt, pend>>

ChainTask(t) ==
  /\ TaskMayCall /\ ~Os_TaskOccupiesResources
  /\ t \in MayChain[curr]
  /\ t = curr \/ activations[t] + 1 <= activationLimit[t]
  /\ LET s0 == IF state[t] # "SUSPENDED" THEN Sys
               ELSE Os_TaskMakeReady(
                      Os_Arc_SetCleanContext(
                        Asserting(Sys, activations[t] = 0), t), t)
         s1 == [s0 EXCEPT !.activations[t] = @ + 1]
     IN  SysBecomes(Os_Dispatch(IF t = curr THEN Sys ELSE s1, "CHAIN_TASK", t))
  /\ UNCHANGED <<intNestCnt, Os_IntSuspendAllCnt, pend>>

Schedule ==
  /\ TaskMayCall /\ ~Os_TaskOccupiesResources
  /\ scheduling[curr] = "NON"
  /\ activePriority[Os_TaskGetTop(Sys)] > activePriority[curr]
  /\ SysBecomes(Os_Dispatch(Sys, "SCHEDULE", curr))
  /\ UNCHANGED <<intNestCnt, Os_IntSuspendAllCnt, pend>>

WaitEvent_NoTest(mask) ==
  /\ TaskMayCall /\ proc_type[curr] = "EXTENDED" /\ ~Os_TaskOccupiesResources
  /\ SysBecomes(Os_Dispatch([Sys EXCEPT !.ev_wait[curr] = mask], "WAIT_EVENT", curr))
  /\ UNCHANGED <<intNestCnt, Os_IntSuspendAllCnt, pend>>

WaitEvent(mask) ==
  /\ TaskMayCall /\ proc_type[curr] = "EXTENDED" /\ ~Os_TaskOccupiesResources
  /\ ev_set[curr] \cap mask = {}
  /\ SysBecomes(Os_Dispatch([Sys EXCEPT !.ev_wait[curr] = mask], "WAIT_EVENT", curr))
  /\ UNCHANGED <<intNestCnt, Os_IntSuspendAllCnt, pend>>

ClearEvent(mask) ==
  /\ TaskMayCall /\ proc_type[curr] = "EXTENDED"
  /\ SysBecomes([Sys EXCEPT !.ev_set[curr] = @ \ mask])
  /\ UNCHANGED <<intNestCnt, Os_IntSuspendAllCnt, pend>>

\* SetEvent looks at the state of the task before Irq_Save ...
SetEvent(t, mask) ==
  /\ MayCall /\ t \in MaySetEvent[Caller]
  /\ proc_type[t] = "EXTENDED" /\ state[t] # "SUSPENDED"
  /\ pend' = [pend EXCEPT ![Running] = [op |-> "SetEvent", task |-> t, mask |-> mask]]
  /\ UNCHANGED <<sysVars, intNestCnt, Os_IntSuspendAllCnt>>

\* ... and sets the event after it.
SetEventLocked ==
  /\ ~asserted /\ pend[Running].op = "SetEvent"
  /\ LET t == pend[Running].task
         mask == pend[Running].mask
         s0 == [Sys EXCEPT !.ev_set[t] = @ \cup mask]
         preempts == /\ intNestCnt = 0 /\ scheduling[curr] = "FULL"
                     /\ activePriority[t] > activePriority[curr]
                     /\ ~Os_SysIntAnyDisabled
     IN  SysBecomes(
           IF mask \cap ev_wait[t] = {} \/ state[t] \in {"READY", "RUNNING"} THEN s0
           ELSE IF state[t] = "SUSPENDED" THEN Asserting(s0, FALSE)
           ELSE IF preempts THEN Os_Dispatch(Os_TaskMakeReady(s0, t), "SET_EVENT", curr)
           ELSE Os_TaskMakeReady(s0, t))
  /\ pend' = [pend EXCEPT ![Running] = NoPend]
  /\ UNCHANGED <<intNestCnt, Os_IntSuspendAllCnt>>

\* RES_SCHEDULER is taken without a look at its owner: a task does not nest it
\* (os_resource.c:71, "Nested occupation of one and the same resource is also
\* forbidden!").
GetResource(r) ==
  /\ TaskMayCall /\ r \notin Internal
  /\ IF r = RES_SCHEDULER THEN owner[r] # curr
     ELSE /\ r \in resourceAccess[curr] /\ owner[r] = NO_TASK_OWNER
          /\ activePriority[curr] <= ceiling(r)
  /\ SysBecomes(Os_TaskResourceAdd(Sys, r, curr))
  /\ UNCHANGED <<intNestCnt, Os_IntSuspendAllCnt, pend>>

\* A task releases what it took last (os_resource.c:70, "strictly stacked").
MayRelease(r) ==
  /\ TaskMayCall /\ Os_TaskOccupiesResources /\ TAILQ_LAST(resources[curr]) = r
  /\ owner[r] # NO_TASK_OWNER

ReleaseResource_NoDispatch(r) ==
  /\ MayRelease(r)
  /\ SysBecomes(Os_TaskResourceRemove(Sys, r, curr))
  /\ UNCHANGED <<intNestCnt, Os_IntSuspendAllCnt, pend>>

ReleaseResource(r) ==
  /\ MayRelease(r)
  /\ LET s1 == Os_TaskResourceRemove(
                 Asserting(Sys, activePriority[curr] >= ceiling(r)), r, curr)
         preempted == /\ scheduling[curr] = "FULL"
                      /\ s1.activePriority[Os_TaskGetTop(s1)] > s1.activePriority[curr]
     IN  SysBecomes(IF preempted THEN Os_Dispatch(s1, "RELEASE_RESOURCE", curr) ELSE s1)
  /\ UNCHANGED <<intNestCnt, Os_IntSuspendAllCnt, pend>>

SuspendOSInterrupts ==
  /\ MayCall /\ Caller \in MaySuspend /\ Os_IntSuspendAllCnt < MaxSuspend
  /\ Os_IntSuspendAllCnt' = Os_IntSuspendAllCnt + 1
  /\ UNCHANGED <<sysVars, intNestCnt, pend>>

ResumeOSInterrupts_NoTest ==
  /\ MayCall
  /\ Os_IntSuspendAllCnt' = Os_IntSuspendAllCnt - 1
  /\ UNCHANGED <<sysVars, intNestCnt, pend>>

ResumeOSInterrupts ==
  /\ MayCall /\ Os_SysIntAnyDisabled
  /\ Os_IntSuspendAllCnt' = Os_IntSuspendAllCnt - 1
  /\ UNCHANGED <<sysVars, intNestCnt, pend>>
-----------------------------------------------------------------------------
(* Os_Isr, before and after the body of the interrupt, which runs enabled.   *)

IsrEnter ==
  /\ ~asserted /\ ~Os_SysIntAnyDisabled /\ intNestCnt < MaxNest
  /\ SysBecomes(IF intNestCnt = 0 THEN [Sys EXCEPT !.state[curr] = "READY"] ELSE Sys)
  /\ intNestCnt' = intNestCnt + 1
  /\ UNCHANGED <<Os_IntSuspendAllCnt, pend>>

IsrExit_NoReschedule ==
  /\ MayCall /\ intNestCnt > 0
  /\ Os_IntSuspendAllCnt' = 0
  /\ intNestCnt' = intNestCnt - 1
  /\ SysBecomes(IF intNestCnt > 1 THEN Sys ELSE [Sys EXCEPT !.state[curr] = "RUNNING"])
  /\ UNCHANGED pend

IsrExit_NoNonTest ==
  /\ MayCall /\ intNestCnt > 0
  /\ Os_IntSuspendAllCnt' = 0
  /\ intNestCnt' = intNestCnt - 1
  /\ LET top == Os_TaskGetTop(Sys) IN
     SysBecomes(IF intNestCnt > 1 THEN Sys
                ELSE IF top = curr THEN [Sys EXCEPT !.state[curr] = "RUNNING"]
                ELSE Os_TaskSwapContext([Sys EXCEPT !.ctx[curr] = "middle"], top))
  /\ UNCHANGED pend

IsrExit_StaysReady ==
  /\ MayCall /\ intNestCnt > 0
  /\ Os_IntSuspendAllCnt' = 0
  /\ intNestCnt' = intNestCnt - 1
  /\ LET top == Os_TaskGetTop(Sys) IN
     SysBecomes(IF intNestCnt > 1 \/ top = curr \/ scheduling[curr] = "NON" THEN Sys
                ELSE Os_TaskSwapContext([Sys EXCEPT !.ctx[curr] = "middle"], top))
  /\ UNCHANGED pend

IsrExit ==
  /\ MayCall /\ intNestCnt > 0
  /\ Os_IntSuspendAllCnt' = 0
  /\ intNestCnt' = intNestCnt - 1
  /\ LET top == Os_TaskGetTop(Sys) IN
     SysBecomes(IF intNestCnt > 1 THEN Sys
                ELSE IF top = curr \/ scheduling[curr] = "NON"
                THEN [Sys EXCEPT !.state[curr] = "RUNNING"]
                ELSE Os_TaskSwapContext([Sys EXCEPT !.ctx[curr] = "middle"], top))
  /\ UNCHANGED pend
-----------------------------------------------------------------------------
(* InitOS and os_start: the autostart tasks are ready in the order of their  *)
(* identifiers, which the configuration chooses, and the top one runs.       *)

InitialQueues ==
  {q \in [1 .. Cardinality(autostart) -> autostart] :
     \A i, j \in DOMAIN q : q[i] = q[j] => i = j}

InitSys(q) ==
  [state |-> [t \in Task |-> IF t \in autostart THEN "READY" ELSE "SUSPENDED"],
   activePriority |-> prio,
   activations |-> [t \in Task |-> IF t \in autostart THEN 1 ELSE 0],
   reactivation |-> [t \in Task |-> FALSE],
   ev_set |-> [t \in Task |-> {}], ev_wait |-> [t \in Task |-> {}],
   resources |-> [t \in Task |-> <<>>], ctx |-> [t \in Task |-> "entry"],
   owner |-> [r \in Resource |-> NO_TASK_OWNER],
   old_task_prio |-> [r \in Resource |-> 0],
   ready |-> q, curr |-> OsIdle, asserted |-> FALSE]

SysIs(s) ==
  /\ state = s.state /\ activePriority = s.activePriority
  /\ activations = s.activations /\ reactivation = s.reactivation
  /\ ev_set = s.ev_set /\ ev_wait = s.ev_wait
  /\ resources = s.resources /\ ctx = s.ctx
  /\ owner = s.owner /\ old_task_prio = s.old_task_prio
  /\ ready = s.ready /\ curr = s.curr /\ asserted = s.asserted

Init ==
  /\ \E q \in InitialQueues :
       SysIs(Os_TaskSwapContext(InitSys(q), Os_TaskGetTop(InitSys(q))))
  /\ intNestCnt = 0 /\ Os_IntSuspendAllCnt = 0
  /\ pend = [c \in Context |-> NoPend]

Masks == (SUBSET Event) \ {{}}

Next ==
  \/ \E t \in Task : ActivateTask(t) \/ ChainTask(t)
  \/ ActivateTaskLimit \/ TerminateTask \/ Os_TaskPost \/ Schedule
  \/ \E mask \in Masks : WaitEvent(mask) \/ ClearEvent(mask)
  \/ \E t \in Task, mask \in Masks : SetEvent(t, mask)
  \/ SetEventLocked
  \/ \E r \in Resource : GetResource(r) \/ ReleaseResource(r)
  \/ SuspendOSInterrupts \/ ResumeOSInterrupts
  \/ IsrEnter \/ IsrExit

Spec == Init /\ [][Next]_vars

\* Interrupt routines and services return although interrupts keep coming, and
\* the application leaves its critical sections and ends its basic tasks.
\* (Strong fairness, with the condition of each action written out.)
SvcPending(ops) == ~asserted /\ pend[Running].op \in ops

FairSpec ==
  /\ Spec
  /\ []<>(MayCall /\ intNestCnt > 0) => []<><<IsrExit>>_vars
  /\ []<>SvcPending({"limit", "store"}) => []<><<ActivateTaskLimit>>_vars
  /\ []<>SvcPending({"SetEvent"}) => []<><<SetEventLocked>>_vars
  /\ \A r \in Resource : []<>MayRelease(r) => []<><<ReleaseResource(r)>>_vars
  /\ []<>(MayCall /\ Os_SysIntAnyDisabled) => []<><<ResumeOSInterrupts>>_vars
  /\ []<>(TaskMayCall /\ curr \in MayTerminate /\ ~Os_TaskOccupiesResources)
       => []<><<TerminateTask>>_vars
-----------------------------------------------------------------------------
(* Properties                                                                *)

\* The kernel's data have the types of OsTaskVarType, OsResourceType and Os_Sys.
TypeOK ==
  /\ state \in [Task -> States]
  /\ activePriority \in [Task -> 0 .. OS_RES_SCHEDULER_PRIO]
  /\ activations \in [Task -> 0 .. 255]
  /\ reactivation \in [Task -> BOOLEAN]
  /\ ev_set \in [Task -> SUBSET Event] /\ ev_wait \in [Task -> SUBSET Event]
  /\ resources \in [Task -> Seq(Resource)]
  /\ ctx \in [Task -> Contexts]
  /\ owner \in [Resource -> Task \cup {NO_TASK_OWNER}]
  /\ old_task_prio \in [Resource -> 0 .. OS_RES_SCHEDULER_PRIO]
  /\ ready \in Seq(Task) /\ curr \in Task /\ asserted \in BOOLEAN
  /\ intNestCnt \in 0 .. MaxNest
  /\ Os_IntSuspendAllCnt \in 0 .. MaxSuspend
  /\ pend \in [Context -> Pending]

\* The ready queue holds exactly the tasks that are READY or RUNNING, each once,
\* and the current task is one of them: what Os_TaskGetTop asserts of every entry
\* (os_task.c:350), and the reverse.
ReadyQueueOK ==
  /\ \A i, j \in DOMAIN ready : ready[i] = ready[j] => i = j
  /\ \A t \in Task : state[t] \in {"READY", "RUNNING"}
                       <=> \E i \in DOMAIN ready : ready[i] = t
  /\ state[curr] = IF intNestCnt = 0 THEN "RUNNING" ELSE "READY"

\* A task at task level that may be preempted is the first of the ready tasks
\* with the highest active priority: every service and every interrupt exit that
\* readies a task or lowers a priority has dispatched.
HighestPriorityRuns ==
  /\ ~asserted /\ intNestCnt = 0
  /\ ~Os_SysIntAnyDisabled /\ scheduling[curr] = "FULL"
  => IsTop(Sys, curr)

\* The calls of ActivateTask that still have to take back their increment of t.
Overcount(t) ==
  Cardinality({c \in Context : pend[c].op \in {"limit", "store"} /\ pend[c].task = t})

\* The activation count is the number of requests accepted and not yet served:
\* zero exactly for a suspended task and never above the limit, but for the
\* E_OS_LIMIT calls that have still to take their increment back (os_task.c:1020).
ActivationsOK ==
  ~asserted => \A t \in Task :
    /\ state[t] = "SUSPENDED" <=> activations[t] = 0
    /\ activations[t] <= activationLimit[t] + Overcount(t)

\* Immediate priority ceiling: a task runs at the highest of its own priority and
\* the ceilings of what it holds, and returns to its own priority step by step
\* (the old_task_prio chain of os_task_i.h:223-254).
CeilingOK ==
  ~asserted => \A t \in Task :
    activePriority[t] =
      Max({prio[t]} \cup {ceiling(r) : r \in {q \in Resource : owner[q] = t}})

\* A running task never finds a resource it may take occupied by another task:
\* the E_OS_ACCESS test of os_resource.c:136 only meets programming errors.
NeverBlocked ==
  ~asserted /\ intNestCnt = 0 /\ scheduling[curr] = "FULL" =>
    \A r \in resourceAccess[curr] : owner[r] \in {NO_TASK_OWNER, curr}

\* No wakeup is lost: a task waits only while none of the events it waits for is
\* set (WaitEvent and SetEvent, os_event.c:66 and 153).
NoLostWakeup ==
  \A t \in Task : state[t] = "WAIT_EVENT" => ev_set[t] \cap ev_wait[t] = {}

\* A task that is not preemptable gives up the processor only by ending, waiting
\* or calling Schedule, whatever interrupts and activations happen (the NON tests
\* of os_task.c:1036, os_event.c:169, os_resource.c:221 and os_isr.c:532).
NonPreemptable ==
  [][scheduling[curr] = "NON" /\ curr' # curr =>
       ctx'[curr] = "ended" \/ state'[curr] = "WAIT_EVENT" \/ Schedule]_vars

\* Tasks that share an internal resource do not preempt each other: one takes over
\* only when the other has ended or waits (Os_ResourceGetInternal).
GroupExclusive ==
  [][/\ curr' # curr /\ resourceInt[curr'] = resourceInt[curr]
     /\ resourceInt[curr] # NO_TASK_OWNER
     => ctx'[curr] = "ended" \/ state'[curr] = "WAIT_EVENT"]_vars

\* The kernel implements the task model: an accepted activation is executed once,
\* from its beginning to its end, one that is refused with E_OS_LIMIT leaves no
\* trace, and a task that lost the processor continues where it was.
TaskModel == INSTANCE OsTaskModel WITH
  limit <- activationLimit,
  extended <- {t \in Task : proc_type[t] = "EXTENDED"},
  pending <- [t \in Task |-> activations[t] - Overcount(t)],
  waiting <- {t \in Task : state[t] = "WAIT_EVENT"},
  begun <- {curr} \cup {t \in Task : ctx[t] \in {"middle", "unsaved"}},
  running <- curr
ImplementsTaskModel == TaskModel!Spec

\* The most urgent tasks are never kept from the processor for ever: once ready,
\* by an activation or an event, such a task runs.
MostUrgentRuns ==
  \A t \in Task :
    (\A u \in Task : prio[u] <= prio[t]) => (state[t] = "READY" ~> Running = t)

\* None of the kernel's ASSERTs fails.
NoAssertFailure == ~asserted

\* A task that lost the processor in the middle of its body continues there: only
\* the end of its own instance gives it a fresh context (os_task.c:749-767).
ResumesWhereLeft ==
  [][\A t \in Task : t # curr /\ ctx[t] = "middle" => ctx'[t] = "middle"]_vars

\* The processor is only handed to a task whose context was saved or set up.
ResumesSavedContext ==
  [][curr' # curr => ctx[curr'] # "unsaved"]_vars
=============================================================================
