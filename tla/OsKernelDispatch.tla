-------------------------- MODULE OsKernelDispatch --------------------------
(***************************************************************************)
(* What a dispatch leaves alone, what it leaves of the task it takes the   *)
(* processor from and, without internal resources, that it keeps the order *)
(* of the priorities.  The inductive invariant, which holds when os_start  *)
(* is over, and the services on tasks, which preserve it.                  *)
(***************************************************************************)
EXTENDS OsKernelLemmas

-----------------------------------------------------------------------------
(* What the functions of the kernel leave alone                              *)

\* A step that changes neither priorities nor resources and forgets no failed ASSERT.
Keeps(s, n) ==
  /\ DOMAIN n = Fields /\ SameHeld(s, n)
  /\ s.asserted => n.asserted

\* Functions that keep these, one after the other, keep them.
LEMMA KeepsTrans ==
  ASSUME NEW s, NEW m, NEW n, Keeps(s, m), Keeps(m, n)
  PROVE  Keeps(s, n)
BY DEF Keeps, SameHeld

\* ASSERT records its failure and changes nothing else.
LEMMA AssertingKeeps ==
  ASSUME NEW s, DOMAIN s = Fields, NEW cond
  PROVE  /\ Keeps(s, Asserting(s, cond))
         /\ Asserting(s, cond).ready = s.ready /\ Asserting(s, cond).curr = s.curr
         /\ ~cond => Asserting(s, cond).asserted
<1> DEFINE b == (s.asserted \/ ~cond)
           n == [s EXCEPT !.asserted = b]
<1>1. Asserting(s, cond) = n
  BY Zenon DEF Asserting
<1>2. (s.asserted => b) /\ (~cond => b)
  BY Zenon
<1> HIDE DEF b
<1>3. n.asserted = b /\ DOMAIN n = Fields /\ SameHeld(s, n) /\ n.ready = s.ready /\ n.curr = s.curr
  BY DEF Fields, SameHeld
<1> HIDE DEF n
<1> QED BY <1>1, <1>2, <1>3, Zenon DEF Keeps

\* The states of the tasks are no part of it.
LEMMA StateKeeps ==
  ASSUME NEW s, DOMAIN s = Fields, NEW t, NEW x
  PROVE  /\ Keeps(s, [s EXCEPT !.state[t] = x])
         /\ [s EXCEPT !.state[t] = x].ready = s.ready /\ [s EXCEPT !.state[t] = x].curr = s.curr
BY DEF Keeps, SameHeld, Fields

\* Os_TaskRunningToReady changes a state.
LEMMA RunningToReadyKeeps ==
  ASSUME NEW s, DOMAIN s = Fields, NEW t
  PROVE  /\ Keeps(s, Os_TaskRunningToReady(s, t))
         /\ Os_TaskRunningToReady(s, t).ready = s.ready /\ Os_TaskRunningToReady(s, t).curr = s.curr
<1> DEFINE m == [s EXCEPT !.state[t] = "READY"]
<1>1. Keeps(s, m) /\ m.ready = s.ready /\ m.curr = s.curr /\ DOMAIN m = Fields
  BY StateKeeps, Zenon DEF Keeps
<1>2. Os_TaskRunningToReady(s, t) = Asserting(m, s.state[t] = "RUNNING")
  BY Zenon DEF Os_TaskRunningToReady
<1> HIDE DEF m
<1> QED BY <1>1, <1>2, AssertingKeeps, KeepsTrans

\* Os_TaskMakeUnready takes a task out of the ready queue.
LEMMA MakeUnreadyKeeps ==
  ASSUME NEW s, DOMAIN s = Fields, NEW t, NEW st
  PROVE  /\ Keeps(s, Os_TaskMakeUnready(s, t, st)) /\ Os_TaskMakeUnready(s, t, st).curr = s.curr
         /\ Os_TaskMakeUnready(s, t, st).ready = TAILQ_REMOVE(s.ready, t)
<1> DEFINE q == TAILQ_REMOVE(s.ready, t)
           m == [s EXCEPT !.state[t] = st, !.ready = q]
<1>1. Os_TaskMakeUnready(s, t, st) = Asserting(m, s.state[t] \in {"READY", "RUNNING"})
  BY Zenon DEF Os_TaskMakeUnready
<1> HIDE DEF q
<1>2. Keeps(s, m) /\ m.ready = q /\ m.curr = s.curr /\ DOMAIN m = Fields
  BY DEF Keeps, SameHeld, Fields
<1> HIDE DEF m
<1> QED BY <1>1, <1>2, AssertingKeeps, KeepsTrans DEF q

\* Os_TaskMakeReady puts a task that is neither ready nor running at the end of the queue.
LEMMA MakeReadyKeeps ==
  ASSUME NEW s, DOMAIN s = Fields, NEW t
  PROVE  /\ Keeps(s, Os_TaskMakeReady(s, t)) /\ Os_TaskMakeReady(s, t).curr = s.curr
         /\ Os_TaskMakeReady(s, t).ready =
              IF s.state[t] \in {"READY", "RUNNING"} THEN s.ready ELSE Append(s.ready, t)
<1> DEFINE q == Append(s.ready, t)
           m == [s EXCEPT !.state[t] = "READY", !.ready = q]
<1>1. Os_TaskMakeReady(s, t) = IF s.state[t] \in {"READY", "RUNNING"} THEN s ELSE m
  BY DEF Os_TaskMakeReady
<1> HIDE DEF q
<1>2. Keeps(s, m) /\ m.ready = q /\ m.curr = s.curr
  BY DEF Keeps, SameHeld, Fields
<1> HIDE DEF m
<1> QED BY <1>1, <1>2, Zenon DEF q, Keeps, SameHeld

\* The clean context of a task that is activated.
LEMMA CleanContextKeeps ==
  ASSUME NEW s, DOMAIN s = Fields, NEW t
  PROVE  /\ Keeps(s, Os_Arc_SetCleanContext(s, t))
         /\ Os_Arc_SetCleanContext(s, t).curr = s.curr
         /\ Os_Arc_SetCleanContext(s, t).ready = s.ready
         /\ Os_Arc_SetCleanContext(s, t).state = s.state
<1> DEFINE m == [s EXCEPT !.ev_set[t] = {}, !.ev_wait[t] = {}, !.ctx[t] = "entry"]
           n == [s EXCEPT !.ctx[t] = "entry"]
<1>1. Keeps(s, m) /\ m.ready = s.ready /\ m.curr = s.curr /\ m.state = s.state
  BY DEF Keeps, SameHeld, Fields
<1>2. Keeps(s, n) /\ n.ready = s.ready /\ n.curr = s.curr /\ n.state = s.state
  BY DEF Keeps, SameHeld, Fields
<1>3. Os_Arc_SetCleanContext(s, t) = m \/ Os_Arc_SetCleanContext(s, t) = n
  BY DEF Os_Arc_SetCleanContext
<1> HIDE DEF m, n
<1> QED BY <1>1, <1>2, <1>3

\* A count of activations is no part of it either.
LEMMA CountKeeps ==
  ASSUME NEW s, DOMAIN s = Fields, NEW t, NEW x
  PROVE  /\ Keeps(s, [s EXCEPT !.activations[t] = x])
         /\ [s EXCEPT !.activations[t] = x].ready = s.ready
         /\ [s EXCEPT !.activations[t] = x].curr = s.curr
         /\ [s EXCEPT !.activations[t] = x].state = s.state
BY DEF Keeps, SameHeld, Fields

\* A task that ends an instance stays in the queue or leaves it.
LEMMA EndInstanceKeeps ==
  ASSUME NEW s, DOMAIN s = Fields, NEW t, NEW op
  PROVE  /\ Keeps(s, EndInstance(s, t, op)) /\ EndInstance(s, t, op).curr = s.curr
         /\ EndInstance(s, t, op).ready \in {s.ready, TAILQ_REMOVE(s.ready, t)}
<1> DEFINE n == (s.activations[t] + 255) % 256
           m == [s EXCEPT !.activations[t] = n]
           s1 == Asserting(m, s.activations[t] > 0)
<1>1. EndInstance(s, t, op) = IF n = 0 THEN Os_TaskMakeUnready(s1, t, "SUSPENDED")
                              ELSE IF op = "CHAIN_TASK"
                              THEN [Os_TaskRunningToReady(s1, t) EXCEPT !.reactivation[t] = TRUE]
                              ELSE s1
  BY Zenon DEF EndInstance
<1> HIDE DEF n
<1>2. Keeps(s, m) /\ m.ready = s.ready /\ m.curr = s.curr /\ DOMAIN m = Fields
  BY CountKeeps, Zenon DEF Keeps
<1> HIDE DEF m
<1>3. Keeps(s, s1) /\ s1.ready = s.ready /\ s1.curr = s.curr /\ DOMAIN s1 = Fields
  <2>1. Keeps(m, s1) /\ s1.ready = m.ready /\ s1.curr = m.curr
    BY <1>2, AssertingKeeps, Zenon
  <2>2. DOMAIN s1 = Fields
    BY <2>1 DEF Keeps
  <2> HIDE DEF s1
  <2> QED BY <1>2, <2>1, <2>2, KeepsTrans
<1> HIDE DEF s1
<1> DEFINE u == Os_TaskMakeUnready(s1, t, "SUSPENDED")
           r == Os_TaskRunningToReady(s1, t)
           f == [r EXCEPT !.reactivation[t] = TRUE]
<1>4. Keeps(s, u) /\ u.curr = s.curr /\ u.ready = TAILQ_REMOVE(s.ready, t)
  <2>1. Keeps(s1, u) /\ u.curr = s1.curr /\ u.ready = TAILQ_REMOVE(s1.ready, t)
    BY <1>3, MakeUnreadyKeeps, Zenon
  <2> HIDE DEF u
  <2> QED BY <1>3, <2>1, KeepsTrans
<1>5. Keeps(s1, r) /\ r.ready = s.ready /\ r.curr = s.curr /\ DOMAIN r = Fields
  BY <1>3, RunningToReadyKeeps, Zenon DEF Keeps
<1> HIDE DEF r
<1>6. Keeps(r, f) /\ f.ready = r.ready /\ f.curr = r.curr
  BY <1>5 DEF Keeps, SameHeld, Fields
<1> HIDE DEF u, f
<1>7. Keeps(s, f) /\ f.ready = s.ready /\ f.curr = s.curr
  BY <1>3, <1>5, <1>6, KeepsTrans, Zenon
<1>8. EndInstance(s, t, op) \in {u, f, s1}
  BY <1>1 DEF u, f, r
<1> QED BY <1>3, <1>4, <1>7, <1>8

\* The switch of Os_Dispatch: the current task leaves the queue only when it waits or ends.
Leaving == {"WAIT_EVENT", "CHAIN_TASK", "TERMINATE_TASK"}

\* The first half of Os_Dispatch takes at most the current task out of the queue.
LEMMA LeaveRunningKeeps ==
  ASSUME NEW s, NEW op \in Ops, NEW chained, DOMAIN s = Fields, s.state[s.curr] = "RUNNING",
         NEW n, n = LeaveRunning(s, op, chained)
  PROVE  /\ Keeps(s, n) /\ n.curr = s.curr
         /\ \/ n.ready = s.ready
            \/ op \in Leaving /\ n.ready = TAILQ_REMOVE(s.ready, s.curr)
<1> DEFINE c == s.curr
<1>1. CASE op \in {"SET_EVENT", "SCHEDULE", "RELEASE_RESOURCE"}
  <2>1. n = Os_TaskRunningToReady(s, c)
    BY <1>1 DEF LeaveRunning
  <2>2. Keeps(s, n) /\ n.curr = s.curr /\ n.ready = s.ready
    BY <2>1, RunningToReadyKeeps
  <2> QED BY <2>2
<1>2. CASE op = "WAIT_EVENT"
  <2>1. n = Os_TaskMakeUnready(s, c, "WAIT_EVENT")
    BY <1>2 DEF LeaveRunning
  <2>2. Keeps(s, n) /\ n.curr = s.curr /\ n.ready = TAILQ_REMOVE(s.ready, c)
    BY <2>1, MakeUnreadyKeeps
  <2> QED BY <1>2, <2>2 DEF Leaving
<1>3. CASE op = "ACTIVATE_TASK"
  <2>1. n = Os_TaskMakeReady(s, c)
    BY <1>3 DEF LeaveRunning
  <2>2. Keeps(s, n) /\ n.curr = s.curr /\ n.ready = s.ready
    BY <2>1, MakeReadyKeeps
  <2> QED BY <2>2
<1>4. CASE op \in {"CHAIN_TASK", "TERMINATE_TASK"}
  <2>1. n = s \/ n = EndInstance(s, c, op)
    BY <1>4 DEF LeaveRunning
  <2>2. CASE n = s
    BY <2>2 DEF Keeps, SameHeld
  <2>3. CASE n = EndInstance(s, c, op)
    <3>1. Keeps(s, n) /\ n.curr = s.curr /\ n.ready \in {s.ready, TAILQ_REMOVE(s.ready, c)}
      BY <2>3, EndInstanceKeeps
    <3> QED BY <1>4, <3>1 DEF Leaving
  <2> QED BY <2>1, <2>2, <2>3
<1> QED BY <1>1, <1>2, <1>3, <1>4 DEF Ops

\* Without internal resources a switch of context touches neither.
LEMMA NoInternalTask ==
  ASSUME NoInternal, NEW t \in Task
  PROVE  resourceInt[t] = NO_TASK_OWNER
BY DEF NoInternal, Internal

\* Os_TaskStartFromBeginning makes its task current.
LEMMA StartKeeps ==
  ASSUME NEW s, DOMAIN s = Fields, NEW t
  PROVE  /\ Keeps(s, Os_TaskStartFromBeginning(s, t))
         /\ Os_TaskStartFromBeginning(s, t).ready = s.ready
         /\ Os_TaskStartFromBeginning(s, t).curr = t
BY DEF Keeps, SameHeld, Fields, Os_TaskStartFromBeginning

\* So does Os_TaskSwapContext, which takes no internal resource if there is none.
LEMMA SwapContextKeeps ==
  ASSUME NEW s, DOMAIN s = Fields, NEW t \in Task, NoInternal
  PROVE  /\ Keeps(s, Os_TaskSwapContext(s, t))
         /\ Os_TaskSwapContext(s, t).ready = s.ready
         /\ Os_TaskSwapContext(s, t).curr = t
<1> DEFINE m == [s EXCEPT !.curr = t]
           got == Os_ResourceGetInternal(m, t)
           n == [got EXCEPT !.state[t] = "RUNNING"]
<1>1. Keeps(s, m) /\ m.ready = s.ready /\ m.curr = t /\ DOMAIN m = Fields
  BY DEF Keeps, SameHeld, Fields
<1>2. Os_TaskSwapContext(s, t) = Asserting(n, s.ctx[t] # "ended")
  BY Zenon DEF Os_TaskSwapContext
<1> HIDE DEF m
<1>4. got = m
  BY NoInternalTask DEF Os_ResourceGetInternal
<1> HIDE DEF got
<1>3. Keeps(m, n) /\ n.ready = m.ready /\ n.curr = m.curr /\ DOMAIN n = Fields
  BY <1>1, <1>4, StateKeeps DEF Keeps
<1> HIDE DEF n
<1> QED BY <1>1, <1>2, <1>3, AssertingKeeps, KeepsTrans

\* So does the second half of Os_Dispatch.
LEMMA SwitchToKeeps ==
  ASSUME NEW s, DOMAIN s = Fields, NEW c \in Task, NEW top \in Task, NEW op, NoInternal
  PROVE  /\ Keeps(s, SwitchTo(s, c, top, op))
         /\ SwitchTo(s, c, top, op).ready = s.ready
         /\ SwitchTo(s, c, top, op).curr = top
<1> DEFINE saved == IF op \in {"CHAIN_TASK", "TERMINATE_TASK"} THEN "ended" ELSE "middle"
           left == IF saved = "ended" THEN saved ELSE "unsaved"
           s1 == Os_ResourceReleaseInternal(s, c)
           m == [s1 EXCEPT !.ctx[c] = saved]
           n == [s1 EXCEPT !.reactivation[top] = FALSE, !.ctx[c] = left]
<1>2. SwitchTo(s, c, top, op) = IF s1.reactivation[top] THEN Os_TaskStartFromBeginning(n, top)
                                ELSE Os_TaskSwapContext(m, top)
  BY Zenon DEF SwitchTo
<1>1. s1 = s
  BY NoInternalTask DEF Os_ResourceReleaseInternal
<1> HIDE DEF saved, left, s1
<1>3. Keeps(s, m) /\ m.ready = s.ready /\ DOMAIN m = Fields
  BY <1>1 DEF Keeps, SameHeld, Fields
<1>4. Keeps(s, n) /\ n.ready = s.ready /\ DOMAIN n = Fields
  BY <1>1 DEF Keeps, SameHeld, Fields
<1> HIDE DEF m, n
<1> QED BY <1>2, <1>3, <1>4, StartKeeps, SwapContextKeeps, KeepsTrans

\* The top of the queue is what the name says, once there is one.
LEMMA GetTopIsTop ==
  ASSUME NEW s, KernelOK(s)
  PROVE  Os_TaskGetTop(s) \in Task /\ IsTop(s, Os_TaskGetTop(s))
BY GetTopOK

\* Os_Dispatch: the current task stays in the queue or leaves it, and then the top task
\* becomes current; priorities and resources stay as they are.
LEMMA DispatchKeeps ==
  ASSUME NEW s, NEW op, NEW chained, DispatchPre(s, op), NoInternal,
         NEW n, n = Os_Dispatch(s, op, chained)
  PROVE  \E m : /\ KernelOK(m) /\ Keeps(s, m) /\ Keeps(m, n) /\ n.ready = m.ready
               /\ n.curr \in Task /\ IsTop(m, n.curr)
               /\ \/ m.ready = s.ready
                  \/ op \in Leaving /\ m.ready = TAILQ_REMOVE(s.ready, s.curr)
<1> DEFINE c == s.curr
           cond == (intNestCnt = 0 /\ s.owner[RES_SCHEDULER] = NO_TASK_OWNER /\ s.state[c] = "RUNNING")
           s0 == Asserting(s, cond)
           s1 == LeaveRunning(s0, op, chained)
           top == Os_TaskGetTop(s1)
<1>1. KernelOK(s) /\ op \in Ops /\ c \in Task /\ s.state[c] = "RUNNING" /\ DOMAIN s = Fields
  BY Zenon DEF DispatchPre, KernelOK, KernelTyped, Fields
<1>2. /\ KernelOK(s0) /\ s0.state = s.state /\ s0.curr = c /\ s0.ready = s.ready /\ Keeps(s, s0)
      /\ DOMAIN s0 = Fields
  BY <1>1, AssertingOK, AssertingKeeps, Zenon DEF Keeps
<1>3. n = IF top = c THEN Os_TaskStartFromBeginning(s1, c) ELSE SwitchTo(s1, c, top, op)
  BY Zenon DEF Os_Dispatch
<1>4. DispatchPre(s0, op)
  <2>1. s0.ev_set = s.ev_set /\ s0.ev_wait = s.ev_wait
    BY <1>1 DEF Asserting, Fields
  <2> HIDE DEF s0
  <2> QED BY <1>2, <2>1 DEF DispatchPre
<1> HIDE DEF s0
<1>5. KernelOK(s1)
  BY <1>4, LeaveRunningOK
<1>6. /\ Keeps(s0, s1) /\ s1.curr = c
      /\ \/ s1.ready = s.ready
         \/ op \in Leaving /\ s1.ready = TAILQ_REMOVE(s.ready, c)
  <2>1. s0.state[s0.curr] = "RUNNING"
    BY <1>1, <1>2
  <2> HIDE DEF c
  <2> QED BY <1>1, <1>2, <2>1, LeaveRunningKeeps
<1> HIDE DEF s1
<1>7. Keeps(s, s1) /\ DOMAIN s1 = Fields
  BY <1>2, <1>6, KeepsTrans DEF Keeps
<1>9. top \in Task /\ IsTop(s1, top)
  BY <1>5, GetTopIsTop
<1> HIDE DEF top
<1>10. Keeps(s1, n) /\ n.ready = s1.ready /\ n.curr = top
  BY <1>1, <1>3, <1>7, <1>9, StartKeeps, SwitchToKeeps
<1>11. /\ KernelOK(s1) /\ Keeps(s, s1) /\ Keeps(s1, n) /\ n.ready = s1.ready
       /\ n.curr \in Task /\ IsTop(s1, n.curr)
       /\ \/ s1.ready = s.ready
          \/ op \in Leaving /\ s1.ready = TAILQ_REMOVE(s.ready, s.curr)
  BY <1>5, <1>6, <1>7, <1>9, <1>10
<1> QED BY <1>11, Zenon

\* So the order of the priorities holds after a dispatch, if a task that leaves the queue
\* holds nothing.
LEMMA DispatchHold ==
  ASSUME NEW s, NEW op, NEW chained, DispatchPre(s, op), NoInternal, HoldOK(s),
         op \in Leaving => s.resources[s.curr] = <<>>,
         NEW n, n = Os_Dispatch(s, op, chained)
  PROVE  HoldOK(n) /\ CurrOK(n) /\ TopOK(n)
<1>1. KernelOK(s) /\ s.curr \in Task
  BY RecordType DEF DispatchPre
<1>2. PICK m : /\ KernelOK(m) /\ Keeps(s, m) /\ Keeps(m, n) /\ n.ready = m.ready
               /\ n.curr \in Task /\ IsTop(m, n.curr)
               /\ \/ m.ready = s.ready
                  \/ op \in Leaving /\ m.ready = TAILQ_REMOVE(s.ready, s.curr)
  BY DispatchKeeps
<1>3. HoldOK(m)
  BY <1>1, <1>2, HoldSame, HoldLeave DEF Keeps
<1> QED BY <1>2, <1>3, HoldTop DEF Keeps

\* A failed ASSERT is not forgotten.
LEMMA DispatchAsserted ==
  ASSUME NEW s, NEW op, NEW chained, DispatchPre(s, op), NoInternal, s.asserted
  PROVE  Os_Dispatch(s, op, chained).asserted
<1> DEFINE n == Os_Dispatch(s, op, chained)
<1>1. PICK m : Keeps(s, m) /\ Keeps(m, n)
  BY DispatchKeeps, Zenon
<1> QED BY <1>1, Zenon DEF Keeps

\* Os_TaskResourceAdd and Os_TaskResourceRemove on the current task.
LEMMA AddHold ==
  ASSUME NEW s, KernelOK(s), HoldOK(s), CurrOK(s), NoInternal,
         s.state[s.curr] = "RUNNING", NEW r \in Resource, s.owner[r] = NO_TASK_OWNER,
         s.activePriority[s.curr] <= ceiling(r), NEW n, n = Os_TaskResourceAdd(s, r, s.curr)
  PROVE  HoldOK(n) /\ CurrOK(n) /\ (TopOK(s) => TopOK(n))
<1> DEFINE c == s.curr
<1>1. c \in Task /\ DOMAIN s = Fields /\ Linked(s.ready, c)
  BY DEF KernelOK, KernelTyped, QueueOK, Fields
<1>2. r \notin Internal
  BY DEF NoInternal
<1>3. /\ n.ready = s.ready /\ n.curr = c
      /\ n.owner = [s.owner EXCEPT ![r] = c]
      /\ n.old_task_prio = [s.old_task_prio EXCEPT ![r] = s.activePriority[c]]
      /\ n.activePriority = [s.activePriority EXCEPT ![c] = ceiling(r)]
      /\ n.resources = [s.resources EXCEPT ![c] = Append(s.resources[c], r)]
  BY ONLY <1>1, <1>2, n = Os_TaskResourceAdd(s, r, s.curr) DEF Os_TaskResourceAdd, Fields
<1>4. /\ s.activePriority \in [Task -> Nat] /\ s.resources \in [Task -> Seq(Resource)]
      /\ s.owner \in [Resource -> Task \cup {NO_TASK_OWNER}] /\ s.old_task_prio \in [Resource -> Nat]
  BY HeldTypes
<1>5. Taken(s, n, r)
  <2> DEFINE new == Append(s.resources[c], r)
  <2>1. n.resources = [s.resources EXCEPT ![c] = new]
    BY <1>3, Zenon
  <2> HIDE DEF new
  <2>2. /\ n.resources[c] = new /\ n.activePriority[c] = ceiling(r)
        /\ n.owner[r] = c /\ n.old_task_prio[r] = s.activePriority[c]
        /\ \A t \in Task \ {c} : n.activePriority[t] = s.activePriority[t] /\ n.resources[t] = s.resources[t]
        /\ \A x \in Resource \ {r} : n.owner[x] = s.owner[x] /\ n.old_task_prio[x] = s.old_task_prio[x]
    BY ONLY <1>1, <1>3, <1>4, <2>1, r \in Resource
  <2> QED BY <1>3, <2>2, Zenon DEF Taken, new
<1> QED BY <1>1, <1>5, HoldTake

\* ReleaseResource, which asserts that the resource is the last one taken.
LEMMA RemoveHold ==
  ASSUME NEW s, KernelOK(s), HoldOK(s), CurrOK(s), NoInternal,
         s.resources[s.curr] # <<>>, NEW r, r = TAILQ_LAST(s.resources[s.curr]),
         NEW n, n = Os_TaskResourceRemove(s, r, s.curr)
  PROVE  HoldOK(n) /\ CurrOK(n) /\ n.ready = s.ready /\ n.curr = s.curr
<1> DEFINE c == s.curr
           held == s.resources[c]
           new == TAILQ_REMOVE(held, r)
           m == [s EXCEPT !.owner[r] = NO_TASK_OWNER, !.activePriority[c] = s.old_task_prio[r],
                          !.resources[c] = IF r \in Internal THEN @ ELSE TAILQ_REMOVE(@, r)]
           cond == (s.owner[r] = c /\ (r \in Internal \/ (s.resources[c] # <<>> /\ TAILQ_LAST(s.resources[c]) = r)))
<1>1. c \in Task /\ DOMAIN s = Fields /\ held \in Seq(Resource) /\ held # <<>> /\ NoDuplicates(held)
  BY Zenon DEF KernelOK, KernelTyped, Fields, HoldOK, Stacked, Stack
<1>2. r \notin Internal
  BY DEF NoInternal
<1>3. n = Asserting(m, cond)
  BY Zenon DEF Os_TaskResourceRemove
<1>4. r = held[Len(held)]
  BY DEF TAILQ_LAST
<1>5. /\ new \in Seq(Resource) /\ Len(new) = Len(held) - 1
      /\ \A i \in 1 .. Len(held) - 1 : new[i] = held[i]
  <2> HIDE DEF held
  <2> QED BY ONLY <1>1, <1>4, RemoveLast
<1>6. /\ m.ready = s.ready /\ m.curr = c /\ m.old_task_prio = s.old_task_prio
      /\ m.owner = [s.owner EXCEPT ![r] = NO_TASK_OWNER]
      /\ m.activePriority = [s.activePriority EXCEPT ![c] = s.old_task_prio[r]]
      /\ m.resources = [s.resources EXCEPT ![c] = new] /\ DOMAIN m = Fields
  BY ONLY <1>1, <1>2 DEF Fields
<1> HIDE DEF new, m, cond
<1>9. /\ m.activePriority[c] = s.old_task_prio[r] /\ m.resources[c] = new /\ m.owner[r] = NO_TASK_OWNER
      /\ \A t \in Task \ {c} : m.activePriority[t] = s.activePriority[t] /\ m.resources[t] = s.resources[t]
      /\ \A x \in Resource \ {r} : m.owner[x] = s.owner[x]
  <2>1. /\ s.activePriority \in [Task -> Nat] /\ s.resources \in [Task -> Seq(Resource)]
        /\ s.owner \in [Resource -> Task \cup {NO_TASK_OWNER}] /\ r \in Resource
    BY <1>1, <1>4, HeldTypes
  <2> QED BY ONLY <1>1, <1>6, <2>1
<1>7. HoldOK(m) /\ CurrOK(m)
  <2>1. KernelOK(s) /\ HoldOK(s) /\ CurrOK(s) /\ s.resources[s.curr] # <<>>
    OBVIOUS
  <2>2. Released(s, m, r, held, new)
    BY <1>1, <1>4, <1>5, <1>6, <1>9, Zenon DEF Released
  <2> QED BY ONLY <2>1, <2>2, HoldGive
<1>8. Keeps(m, n) /\ n.ready = m.ready /\ n.curr = m.curr
  BY ONLY <1>3, <1>6, AssertingKeeps
<1> QED BY <1>6, <1>7, <1>8, HoldSame, CurrSame DEF Keeps

\* Os_TaskResourceFreeAll on the current task: an ASSERT fails, or the task holds nothing.
LEMMA FreeAllHold ==
  ASSUME NEW s, KernelOK(s), HoldOK(s), CurrOK(s),
         NEW n, n = Os_TaskResourceFreeAll(s, s.curr)
  PROVE  n.asserted \/ (HoldOK(n) /\ n.resources[s.curr] = <<>>)
<1> DEFINE c == s.curr
           held == s.resources[c]
           r == TAILQ_LAST(held)
           ow == [x \in Resource |-> IF x \in Range(held) THEN NO_TASK_OWNER ELSE s.owner[x]]
           m == [s EXCEPT !.owner = ow, !.activePriority[c] = s.old_task_prio[r],
                          !.resources[c] = <<>>]
<1>1. c \in Task /\ DOMAIN s = Fields /\ held \in Seq(Resource)
      /\ s.resources \in [Task -> Seq(Resource)] /\ s.owner \in [Resource -> Task \cup {NO_TASK_OWNER}]
  BY DEF KernelOK, KernelTyped, Fields
<1>2. CASE held = <<>>
  <2>1. n = s
    BY <1>2 DEF Os_TaskResourceFreeAll
  <2> QED BY <1>2, <2>1
<1>3. CASE held # <<>>
  <2>1. n = Asserting(m, Len(held) = 1 /\ s.owner[r] = c)
    BY <1>3 DEF Os_TaskResourceFreeAll
  <2> HIDE DEF ow
  <2>2. /\ m.ready = s.ready /\ m.curr = c /\ m.old_task_prio = s.old_task_prio
        /\ m.owner = ow /\ m.activePriority = [s.activePriority EXCEPT ![c] = s.old_task_prio[r]]
        /\ m.resources = [s.resources EXCEPT ![c] = <<>>] /\ DOMAIN m = Fields
    BY ONLY <1>1 DEF Fields
  <2> HIDE DEF m
  <2>3. Keeps(m, n) /\ n.ready = m.ready /\ n.curr = m.curr /\ (Len(held) # 1 => n.asserted)
    <3> DEFINE cond == (Len(held) = 1 /\ s.owner[r] = c)
    <3>1. n = Asserting(m, cond) /\ (Len(held) # 1 => ~cond)
      BY <2>1, Zenon
    <3> HIDE DEF cond
    <3>2. /\ Keeps(m, n) /\ n.ready = m.ready /\ n.curr = m.curr
          /\ (~cond => n.asserted)
      BY ONLY <2>2, <3>1, AssertingKeeps
    <3> QED BY <3>1, <3>2, Zenon
  <2>4. ASSUME Len(held) = 1 PROVE HoldOK(n) /\ n.resources[c] = <<>>
    <3>1. r = held[Len(held)] /\ r = held[1]
      BY <2>4 DEF TAILQ_LAST
    <3>2. Range(held) = {r}
      BY <1>1, <2>4, <3>1 DEF Range
    <3>3. m.owner[r] = NO_TASK_OWNER /\ \A x \in Resource \ {r} : m.owner[x] = s.owner[x]
      <4>1. r \in Resource
        BY <1>1, <2>4, <3>1
      <4> QED BY ONLY <2>2, <3>2, <4>1 DEF ow
    <3>4. <<>> \in Seq(Resource) /\ Len(<<>>) = Len(held) - 1 /\ \A i \in 1 .. Len(held) - 1 : <<>>[i] = held[i]
      BY <2>4
    <3> HIDE DEF r
    <3>5. HoldOK(m)
      <4>1. KernelOK(s) /\ HoldOK(s) /\ CurrOK(s) /\ s.resources[s.curr] # <<>>
        BY <1>3
      <4> DEFINE e == <<>>
      <4>2. e \in Seq(Resource) /\ Len(e) = Len(held) - 1 /\ \A i \in 1 .. Len(held) - 1 : e[i] = held[i]
        BY <3>4
      <4>3. /\ m.activePriority[c] = s.old_task_prio[r] /\ m.resources[c] = e
            /\ \A t \in Task \ {c} : m.activePriority[t] = s.activePriority[t] /\ m.resources[t] = s.resources[t]
        <5>1. s.activePriority \in [Task -> Nat]
          BY HeldTypes
        <5> QED BY ONLY <1>1, <2>2, <5>1
      <4> HIDE DEF e
      <4>4. Released(s, m, r, held, e)
        BY <1>3, <2>2, <3>1, <3>3, <4>2, <4>3, Zenon DEF Released
      <4> QED BY ONLY <4>1, <4>4, HoldGive
    <3>6. m.resources[c] = <<>>
      BY <1>1, <2>2
    <3> QED BY <2>3, <3>5, <3>6, HoldSame DEF Keeps, SameHeld
  <2> QED BY <2>3, <2>4
<1> QED BY <1>2, <1>3


-----------------------------------------------------------------------------
(* The order of the priorities                                               *)

\* Tasks that suspend interrupts set no events: SetEvent is the one service that readies a
\* task there without a dispatch, and ResumeOSInterrupts does not make up for it.
EventsOutside == \A t \in MaySuspend \ {ISR} : MaySetEvent[t] = {}

\* What holds of a kernel record at a nesting level of interrupts until an ASSERT fails.
Ordered(s, nest) ==
  \/ s.asserted
  \/ /\ HoldOK(s) /\ CurrOK(s)
     /\ EventsOutside /\ nest = 0 /\ scheduling[s.curr] = "FULL" => TopOK(s)

\* A step that leaves priorities, resources, the queue and the current task alone.
LEMMA OrderKeeps ==
  ASSUME NEW s, NEW n, NEW nest, Ordered(s, nest),
         Keeps(s, n), n.ready = s.ready, n.curr = s.curr
  PROVE  Ordered(n, nest)
BY HoldSame, CurrSame DEF Ordered, Keeps

\* A step that puts a task at the end of the queue, above the current one only where it
\* cannot preempt.
LEMMA OrderReady ==
  ASSUME NEW s, NEW n, NEW nest, Ordered(s, nest), KernelOK(s), NEW t \in Task,
         ~Linked(s.ready, t), t # s.curr,
         EventsOutside /\ nest = 0 /\ scheduling[s.curr] = "FULL"
           => s.activePriority[t] <= s.activePriority[s.curr],
         Keeps(s, n), n.ready = Append(s.ready, t), n.curr = s.curr
  PROVE  Ordered(n, nest)
BY HoldReady, CurrReady, TopReady DEF Ordered, Keeps

\* A step that dispatches, after which the current task is the top one.
LEMMA OrderDispatch ==
  ASSUME NEW s, NEW op, NEW chained, NEW nest, DispatchPre(s, op), NoInternal,
         s.asserted \/ (HoldOK(s) /\ (op \in Leaving => s.resources[s.curr] = <<>>)),
         NEW n, n = Os_Dispatch(s, op, chained)
  PROVE  Ordered(n, nest)
<1>1. CASE s.asserted
  BY <1>1, DispatchAsserted, Zenon DEF Ordered
<1>2. CASE HoldOK(s) /\ (op \in Leaving => s.resources[s.curr] = <<>>)
  BY <1>2, DispatchHold DEF Ordered
<1> QED BY <1>1, <1>2

\* No task ahead of the current one, and none behind it, is above the top task.
LEMMA TopOfTop ==
  ASSUME NEW s, KernelOK(s), NEW t \in Task, IsTop(s, t),
         s.activePriority[t] <= s.activePriority[s.curr]
  PROVE  TopOK(s)
<1>1. s.ready \in Seq(Task) /\ s.curr \in Task /\ s.activePriority \in [Task -> Nat]
  BY HeldTypes
<1>2. \A u \in Task : Linked(s.ready, u) => s.activePriority[u] <= s.activePriority[t]
  BY <1>1 DEF IsTop, Linked
<1> QED BY <1>1, <1>2 DEF TopOK

\* The current task finds RES_SCHEDULER free: whoever held it would be above it.
LEMMA SchedulerFree ==
  ASSUME NEW s, KernelOK(s), HoldOK(s), CurrOK(s), s.owner[RES_SCHEDULER] # s.curr
  PROVE  /\ s.owner[RES_SCHEDULER] = NO_TASK_OWNER
         /\ s.activePriority[s.curr] <= ceiling(RES_SCHEDULER)
<1>1. /\ RES_SCHEDULER \in Resource /\ ceiling(RES_SCHEDULER) = OS_RES_SCHEDULER_PRIO
      /\ OS_RES_SCHEDULER_PRIO \in Nat /\ s.curr \in Task
      /\ prio[s.curr] \in Nat /\ prio[s.curr] < OS_RES_SCHEDULER_PRIO
  BY HeldTypes, ResourceAssumption DEF ceiling
<1>2. s.activePriority[s.curr] <= OS_RES_SCHEDULER_PRIO
  BY <1>1 DEF KernelOK, KernelTyped, Fields, Priority
<1>3. ASSUME NEW t \in Task, s.owner[RES_SCHEDULER] = t PROVE FALSE
  <2>1. ceiling(RES_SCHEDULER) <= s.activePriority[t] /\ Linked(s.resources[t], RES_SCHEDULER)
    BY <1>1, <1>3, HolderPriority DEF HoldOK
  <2>2. s.resources[t] # <<>> /\ t # s.curr
    BY <1>3, <2>1 DEF Linked
  <2>3. s.activePriority[t] < prio[s.curr] /\ s.activePriority[t] \in Nat
    BY <2>2, HeldTypes DEF CurrOK
  <2> QED BY <1>1, <2>1, <2>3
<1>4. s.owner[RES_SCHEDULER] \in Task \cup {NO_TASK_OWNER}
  BY <1>1, HeldTypes
<1> QED BY <1>1, <1>2, <1>3, <1>4

\* GetResource of a free resource at or below its ceiling.
LEMMA OrderAdd ==
  ASSUME NEW s, KernelOK(s), Ordered(s, 0), ~s.asserted, NoInternal,
         s.state[s.curr] = "RUNNING", NEW r \in Resource, s.owner[r] = NO_TASK_OWNER,
         s.activePriority[s.curr] <= ceiling(r), NEW n, n = Os_TaskResourceAdd(s, r, s.curr),
         n.curr = s.curr
  PROVE  Ordered(n, 0)
BY AddHold DEF Ordered

-----------------------------------------------------------------------------
(* What a switch leaves of the task it takes the processor from              *)

\* A failed assertion is all that Asserting records.
LEMMA AssertingContext ==
  ASSUME NEW s, DOMAIN s = Fields, NEW cond
  PROVE  /\ Asserting(s, cond).ctx = s.ctx /\ Asserting(s, cond).state = s.state
         /\ DOMAIN Asserting(s, cond) = Fields
<1> DEFINE b == (s.asserted \/ ~cond)
           n == [s EXCEPT !.asserted = b]
<1>1. Asserting(s, cond) = n
  BY Zenon DEF Asserting
<1> HIDE DEF b
<1>2. n.ctx = s.ctx /\ n.state = s.state /\ DOMAIN n = Fields
  BY DEF Fields
<1> QED BY <1>1, <1>2

\* The internal resource of a task is taken and given back without touching a context.
LEMMA InternalContext ==
  ASSUME NEW s, DOMAIN s = Fields, NEW t
  PROVE  /\ Os_ResourceGetInternal(s, t).ctx = s.ctx
         /\ Os_ResourceReleaseInternal(s, t).ctx = s.ctx
<1> DEFINE r == resourceInt[t]
           up == ceiling(r)
           m == [s EXCEPT !.owner[r] = NO_TASK_OWNER, !.activePriority[t] = s.old_task_prio[r],
                          !.resources[t] = IF r \in Internal THEN @ ELSE TAILQ_REMOVE(@, r)]
           a == [s EXCEPT !.owner[r] = t, !.old_task_prio[r] = s.activePriority[t],
                          !.activePriority[t] = up,
                          !.resources[t] = IF r \in Internal THEN @ ELSE Append(@, r)]
<1>1. Os_TaskResourceRemove(s, r, t) =
        Asserting(m, /\ s.owner[r] = t
                     /\ r \in Internal \/ /\ s.resources[t] # <<>>
                                          /\ TAILQ_LAST(s.resources[t]) = r)
  BY Zenon DEF Os_TaskResourceRemove
<1>2. Os_TaskResourceAdd(s, r, t) = a
  BY Zenon DEF Os_TaskResourceAdd
<1> HIDE DEF up
<1>3. a.ctx = s.ctx
  BY DEF Fields
<1>4. m.ctx = s.ctx /\ DOMAIN m = Fields
  BY DEF Fields
<1> HIDE DEF a, m
<1>5. Os_TaskResourceRemove(s, r, t).ctx = s.ctx
  BY <1>1, <1>4, AssertingContext, Zenon
<1> QED BY <1>2, <1>3, <1>5 DEF Os_ResourceGetInternal, Os_ResourceReleaseInternal

\* Os_TaskSwapContext touches the state and the context of the new task only.
LEMMA SwapContextLeaves ==
  ASSUME NEW s, KernelOK(s), NEW t \in Task, NEW c \in Task, c # t
  PROVE  /\ Os_TaskSwapContext(s, t).state[c] = s.state[c]
         /\ Os_TaskSwapContext(s, t).ctx = s.ctx
<1> DEFINE m == [s EXCEPT !.curr = t]
           got == Os_ResourceGetInternal(m, t)
           n == [got EXCEPT !.state[t] = "RUNNING"]
<1>1. KernelOK(m) /\ m.state = s.state /\ m.ctx = s.ctx /\ DOMAIN m = Fields
  BY DEF KernelOK, KernelTyped, Fields
<1>2. Os_TaskSwapContext(s, t) = Asserting(n, s.ctx[t] # "ended")
  BY Zenon DEF Os_TaskSwapContext
<1> HIDE DEF m
<1>3. KernelOK(got) /\ got.state = s.state /\ got.ctx = s.ctx
  BY <1>1, InternalOK, InternalContext, Zenon
<1>4. DOMAIN got = Fields /\ got.state \in [Task -> States]
  BY <1>3, RecordType, Zenon DEF KernelOK, KernelTyped
<1> HIDE DEF got
<1>5. n.state[c] = s.state[c] /\ n.ctx = s.ctx /\ DOMAIN n = Fields
  BY <1>3, <1>4 DEF Fields
<1> HIDE DEF n
<1> QED BY <1>2, <1>5, AssertingContext

\* The second half of Os_Dispatch leaves the state of the task it switches away from as
\* the first half set it, and saves no context for a task that has ended.
LEMMA SwitchToLeaves ==
  ASSUME NEW s, KernelOK(s), NEW c \in Task, NEW top \in Task, NEW op, c # top
  PROVE  /\ SwitchTo(s, c, top, op).state[c] = s.state[c]
         /\ op \in {"CHAIN_TASK", "TERMINATE_TASK"} => SwitchTo(s, c, top, op).ctx[c] = "ended"
<1> DEFINE s1 == Os_ResourceReleaseInternal(s, c)
           saved == IF op \in {"CHAIN_TASK", "TERMINATE_TASK"} THEN "ended" ELSE "middle"
           left == IF saved = "ended" THEN saved ELSE "unsaved"
           m == [s1 EXCEPT !.ctx[c] = saved]
           n == [s1 EXCEPT !.reactivation[top] = FALSE, !.ctx[c] = left]
           start == Os_TaskStartFromBeginning(n, top)
<1>1. KernelOK(s1) /\ s1.state = s.state
  BY InternalOK
<1>2. /\ saved \in Contexts /\ left \in Contexts
      /\ op \in {"CHAIN_TASK", "TERMINATE_TASK"} => saved = "ended" /\ left = "ended"
  BY DEF Contexts
<1>3. SwitchTo(s, c, top, op) = IF s1.reactivation[top] THEN start
                                ELSE Os_TaskSwapContext(m, top)
  BY Zenon DEF SwitchTo
<1> HIDE DEF s1, saved, left
<1>4. KernelOK(m) /\ m.state = s.state /\ m.ctx[c] = saved
  BY <1>1, <1>2, SMTT(30) DEF KernelOK, KernelTyped, Fields
<1>5. /\ KernelOK(n) /\ n.state = s.state /\ n.ctx[c] = left
  BY <1>1, <1>2, SMTT(30) DEF KernelOK, KernelTyped, Fields
<1>6. /\ DOMAIN n = Fields /\ n.state \in [Task -> States] /\ n.ctx \in [Task -> Contexts]
  BY <1>5, RecordType, Zenon DEF KernelOK, KernelTyped
<1> HIDE DEF m, n
<1>7. start.state[c] = s.state[c] /\ start.ctx[c] = left
  BY <1>5, <1>6 DEF Os_TaskStartFromBeginning, Fields
<1>8. /\ Os_TaskSwapContext(m, top).state[c] = s.state[c]
      /\ Os_TaskSwapContext(m, top).ctx[c] = saved
  BY <1>4, SwapContextLeaves
<1> HIDE DEF start
<1>9. CASE s1.reactivation[top]
  <2>1. SwitchTo(s, c, top, op) = start
    BY <1>3, <1>9
  <2> QED BY <2>1, <1>2, <1>7
<1>10. CASE ~s1.reactivation[top]
  <2>1. SwitchTo(s, c, top, op) = Os_TaskSwapContext(m, top)
    BY <1>3, <1>10
  <2> QED BY <2>1, <1>2, <1>8
<1> QED BY <1>9, <1>10

\* Os_Dispatch takes the processor from a task that chains or terminates by ending it,
\* and from a task that waits for an event by making it wait.
LEMMA DispatchLeaves ==
  ASSUME NEW s, NEW op, NEW chained, DispatchPre(s, op),
         Os_Dispatch(s, op, chained).curr # s.curr
  PROVE  /\ op \in {"CHAIN_TASK", "TERMINATE_TASK"} =>
              Os_Dispatch(s, op, chained).ctx[s.curr] = "ended"
         /\ op = "WAIT_EVENT" => Os_Dispatch(s, op, chained).state[s.curr] = "WAIT_EVENT"
<1> DEFINE c == s.curr
           s0 == Asserting(s, /\ intNestCnt = 0
                              /\ s.owner[RES_SCHEDULER] = NO_TASK_OWNER
                              /\ s.state[c] = "RUNNING")
           s1 == LeaveRunning(s0, op, chained)
           top == Os_TaskGetTop(s1)
<1>1. c \in Task /\ DOMAIN s = Fields
  BY RecordType, Zenon DEF DispatchPre, KernelOK, KernelTyped, Fields
<1>2. DispatchPre(s0, op) /\ s0.curr = c /\ DOMAIN s0 = Fields
  <2>1. /\ s0.ev_set = s.ev_set /\ s0.ev_wait = s.ev_wait
    BY DEF Asserting, DispatchPre, KernelOK, KernelTyped, Fields
  <2>2. KernelOK(s0) /\ s0.state = s.state /\ s0.curr = s.curr
    BY AssertingOK, Zenon DEF DispatchPre
  <2>3. DOMAIN s0 = Fields
    BY <1>1, AssertingContext, Zenon
  <2> HIDE DEF s0
  <2> QED BY <2>1, <2>2, <2>3, Zenon DEF DispatchPre
<1>3. Os_Dispatch(s, op, chained) =
        IF top = c THEN Os_TaskStartFromBeginning(s1, c) ELSE SwitchTo(s1, c, top, op)
  BY Zenon DEF Os_Dispatch
<1> HIDE DEF s0
<1>4. KernelOK(s1)
  BY <1>2, LeaveRunningOK
<1>5. op = "WAIT_EVENT" => s1.state[c] = "WAIT_EVENT"
  <2> SUFFICES ASSUME op = "WAIT_EVENT" PROVE s1.state[c] = "WAIT_EVENT"
    OBVIOUS
  <2> DEFINE q == TAILQ_REMOVE(s0.ready, c)
             m == [s0 EXCEPT !.state[c] = "WAIT_EVENT", !.ready = q]
  <2>1. s1 = Asserting(m, s0.state[c] \in {"READY", "RUNNING"})
    BY <1>2 DEF LeaveRunning, Os_TaskMakeUnready
  <2> HIDE DEF q
  <2>2. s0.state \in [Task -> States]
    BY <1>2, RecordType, Zenon DEF DispatchPre, KernelOK
  <2>3. m.state[c] = "WAIT_EVENT" /\ DOMAIN m = Fields
    BY <1>1, <1>2, <2>2 DEF Fields
  <2> HIDE DEF m
  <2> QED BY <2>1, <2>3, AssertingContext
<1> HIDE DEF s1
<1>6. top \in Task
  BY <1>4, GetTopOK
<1>7. DOMAIN s1 = Fields
  BY <1>4, RecordType, Zenon DEF KernelOK, KernelTyped
<1> HIDE DEF top, c
<1>8. top # c
  BY <1>3, <1>7, StartKeeps DEF c
<1>9. Os_Dispatch(s, op, chained) = SwitchTo(s1, c, top, op)
  BY <1>3, <1>8
<1> QED BY <1>1, <1>4, <1>5, <1>6, <1>8, <1>9, SwitchToLeaves DEF c

-----------------------------------------------------------------------------
(* The invariant                                                             *)

\* At task level the current task is RUNNING; an interrupt has made it READY.
Inv ==
  /\ KernelOK(Sys)
  /\ state[curr] = IF intNestCnt = 0 THEN "RUNNING" ELSE "READY"
  /\ intNestCnt \in 0 .. MaxNest
  /\ Os_IntSuspendAllCnt \in 0 .. MaxSuspend
  /\ pend \in [Context -> Pending]

\* At task level interrupts are suspended only by tasks that suspend them, and a SetEvent
\* is in progress only in tasks that set events.
Quiet ==
  /\ intNestCnt = 0 /\ Os_IntSuspendAllCnt # 0 => curr \in MaySuspend
  /\ \A t \in Task : pend[t].op = "SetEvent" => MaySetEvent[t] # {}

\* The order of the priorities, which a service that leaves the record s keeps, and which
\* a step keeps, in applications without internal resources.
OrderInv == Ordered(Sys, intNestCnt)
Orderly(s) == NoInternal /\ Quiet /\ OrderInv => Ordered(s, intNestCnt)
Kept == NoInternal /\ Quiet /\ OrderInv => OrderInv'

\* The fields of the kernel record are the variables.
LEMMA SysFields ==
  /\ Sys.state = state /\ Sys.activePriority = activePriority
  /\ Sys.activations = activations /\ Sys.reactivation = reactivation
  /\ Sys.ev_set = ev_set /\ Sys.ev_wait = ev_wait
  /\ Sys.resources = resources /\ Sys.ctx = ctx
  /\ Sys.owner = owner /\ Sys.old_task_prio = old_task_prio
  /\ Sys.ready = ready /\ Sys.curr = curr /\ Sys.asserted = asserted
BY DEF Sys

\* A service that ends with SysBecomes leaves exactly that record.
LEMMA SysBecomesOK ==
  ASSUME NEW s, KernelOK(s), SysBecomes(s)
  PROVE  /\ KernelOK(Sys)' /\ state' = s.state /\ curr' = s.curr
         /\ Keeps(s, Sys') /\ Sys'.ready = s.ready /\ Sys'.curr = s.curr
<1>1. /\ Sys'.state = s.state /\ Sys'.ready = s.ready
      /\ Sys'.ev_set = s.ev_set /\ Sys'.ev_wait = s.ev_wait
  BY DEF SysBecomes, Sys
<1>2. KernelTyped(s)
  BY DEF KernelOK
<1>3. KernelTyped(Sys')
  BY <1>2, Zenon DEF SysBecomes, Sys, KernelTyped, Fields
<1>4. KernelOK(Sys')
  BY <1>1, <1>3, Unaffected
<1>5. DOMAIN Sys' = Fields
  BY <1>3, Zenon DEF KernelTyped
<1>6. /\ Sys'.activePriority = s.activePriority /\ Sys'.owner = s.owner
      /\ Sys'.old_task_prio = s.old_task_prio /\ Sys'.resources = s.resources
      /\ Sys'.asserted = s.asserted /\ Sys'.ready = s.ready /\ Sys'.curr = s.curr
  BY Zenon DEF SysBecomes, Sys
<1>7. Keeps(s, Sys')
  BY <1>5, <1>6 DEF Keeps, SameHeld
<1>8. state' = s.state /\ curr' = s.curr
  BY DEF SysBecomes
<1> QED BY <1>4, <1>6, <1>7, <1>8

\* A step that leaves the kernel data alone keeps the kernel consistent.
LEMMA SysUnchanged ==
  ASSUME KernelOK(Sys), UNCHANGED sysVars
  PROVE  /\ KernelOK(Sys)' /\ state' = state /\ curr' = curr
         /\ Sys' = Sys
<1>1. Sys' = Sys /\ state' = state /\ curr' = curr
  BY DEF sysVars, Sys
<1> QED BY <1>1

\* The service in progress runs in a context that pend knows.
LEMMA RunningType ==
  ASSUME Inv
  PROVE  /\ Running \in Context /\ pend[Running] \in Pending
         /\ curr \in Task /\ intNestCnt \in Nat
         /\ \A p \in Pending : [pend EXCEPT ![Running] = p] \in [Context -> Pending]
<1>1. curr \in Task
  BY SysFields, Zenon DEF Inv, KernelOK, KernelTyped, Fields
<1>2. intNestCnt \in Nat /\ intNestCnt <= MaxNest
  BY TaskAssumption DEF Inv
<1>3. Running \in Context
  BY <1>1, <1>2, TaskAssumption DEF Running, Context
<1> QED BY <1>1, <1>2, <1>3 DEF Inv

\* InitOS and os_start establish the invariant.
LEMMA InitOK == Init => Inv /\ Quiet /\ (NoInternal => OrderInv)
<1> SUFFICES ASSUME Init PROVE Inv /\ Quiet /\ (NoInternal => OrderInv)
  OBVIOUS
<1>1. PICK q \in InitialQueues :
        SysIs(Os_TaskSwapContext(InitSys(q), Os_TaskGetTop(InitSys(q))))
  BY DEF Init
<1> DEFINE s == InitSys(q)
           top == Os_TaskGetTop(s)
           n == Os_TaskSwapContext(s, top)
<1>2. autostart \subseteq Task /\ OsIdle \in autostart /\ IsFiniteSet(autostart)
  BY TaskAssumption, FiniteSubset
<1>3. /\ q \in [1 .. Cardinality(autostart) -> autostart]
      /\ \A i, j \in DOMAIN q : q[i] = q[j] => i = j
  BY DEF InitialQueues
<1>4. /\ q \in Seq(autostart) /\ NoDuplicates(q)
      /\ \A t \in autostart : Linked(q, t)
  BY <1>2, <1>3, FullQueue, Zenon
<1>5. q \in Seq(Task)
  BY <1>2, <1>4
<1>6. KernelTyped(s)
  <2>1. prio \in [Task -> Priority]
    BY TaskAssumption, ResourceAssumption DEF Priority
  <2>2. 0 \in Priority /\ <<>> \in Seq(Resource) /\ FALSE \in BOOLEAN
    BY ResourceAssumption DEF Priority
  <2>3. OsIdle \in Task
    BY IdleInTask
  <2>4. DOMAIN s = Fields
    BY Zenon DEF InitSys, Fields
  <2>5. /\ s.state \in [Task -> States] /\ s.activePriority \in [Task -> Priority]
        /\ s.activations \in [Task -> 0 .. 255] /\ s.reactivation \in [Task -> BOOLEAN]
    BY <2>1, SMTT(30) DEF InitSys, States
  <2>6. /\ s.ev_set \in [Task -> SUBSET Event] /\ s.ev_wait \in [Task -> SUBSET Event]
        /\ s.resources \in [Task -> Seq(Resource)] /\ s.ctx \in [Task -> Contexts]
    BY <2>2, Zenon DEF InitSys, Contexts
  <2>7. /\ s.owner \in [Resource -> Task \cup {NO_TASK_OWNER}]
        /\ s.old_task_prio \in [Resource -> Priority]
        /\ s.ready \in Seq(Task) /\ s.curr \in Task /\ s.asserted \in BOOLEAN
    BY <1>5, <2>2, <2>3, Zenon DEF InitSys
  <2> HIDE DEF s
  <2> QED BY <2>4, <2>5, <2>6, <2>7, Zenon DEF KernelTyped
<1>7. QueueOK(s.state, s.ready)
  <2>1. \A t \in Task : Linked(q, t) <=> t \in autostart
    BY <1>4 DEF Linked
  <2>2. s.ready = q /\ s.state = [t \in Task |-> IF t \in autostart THEN "READY" ELSE "SUSPENDED"]
    BY DEF InitSys
  <2> HIDE DEF s
  <2> QED BY <1>2, <1>4, <2>1, <2>2 DEF QueueOK
<1>8. WakeupOK(s.state, s.ev_set, s.ev_wait)
  BY Zenon DEF InitSys, WakeupOK
<1>9. KernelOK(s)
  BY <1>6, <1>7, <1>8 DEF KernelOK
<1>15. HoldOK(s)
  <2>1. s.resources = [t \in Task |-> <<>>] /\ s.activePriority = prio
        /\ s.owner = [r \in Resource |-> NO_TASK_OWNER]
    BY Zenon DEF InitSys
  <2> HIDE DEF s
  <2>2. \A t \in Task : Stacked(s, t)
    BY <2>1 DEF Stacked, Stack, NoDuplicates
  <2>3. \A t \in Task, r \in Resource : s.owner[r] # t /\ ~Linked(s.resources[t], r)
    BY <2>1, TaskAssumption DEF Linked
  <2> QED BY <2>1, <2>2, <2>3, Zenon DEF HoldOK
<1> HIDE DEF s
<1>16. ASSUME NoInternal PROVE HoldOK(n) /\ CurrOK(n) /\ TopOK(n) /\ DOMAIN n = Fields
  <2>1. top \in Task /\ IsTop(s, top)
    BY <1>9, GetTopIsTop
  <2>2. Keeps(s, n) /\ n.ready = s.ready /\ n.curr = top
    <3>1. DOMAIN s = Fields
      BY <1>9, Zenon DEF KernelOK, KernelTyped
    <3> HIDE DEF top
    <3> QED BY <1>16, <2>1, <3>1, SwapContextKeeps
  <2> HIDE DEF n, top
  <2> QED BY <1>9, <1>15, <2>1, <2>2, HoldTop DEF Keeps
<1>10. KernelOK(n) /\ n.state[n.curr] = "RUNNING"
  BY <1>9, GetTopOK, SwapContextOK
<1>11. SysIs(n)
  BY <1>1 DEF s
<1> HIDE DEF n
<1>12. KernelOK(Sys)
  <2>1. KernelTyped(n)
    BY <1>10, SMTT(30) DEF KernelOK
  <2>2. KernelTyped(Sys)
    BY <1>11, <2>1, Zenon DEF SysIs, Sys, KernelTyped, Fields
  <2>3. /\ Sys.state = n.state /\ Sys.ready = n.ready
        /\ Sys.ev_set = n.ev_set /\ Sys.ev_wait = n.ev_wait
    BY <1>11, SysFields DEF SysIs
  <2> QED BY <1>10, <2>2, <2>3, Unaffected
<1>13. state[curr] = "RUNNING"
  BY <1>10, <1>11 DEF SysIs
<1>14. pend \in [Context -> Pending]
  BY DEF Init, Pending
<1>17. Inv
  BY <1>10, <1>12, <1>13, <1>14, TaskAssumption, SMTT(30) DEF Init, Inv
<1>18. Quiet
  BY DEF Init, Quiet, Context, NoPend
<1>19. ASSUME NoInternal PROVE OrderInv
  <2>1. Keeps(n, Sys) /\ Sys.ready = n.ready /\ Sys.curr = n.curr
    BY <1>11, SysFields, Zenon DEF SysIs, Sys, Keeps, SameHeld, Fields
  <2>2. Ordered(n, intNestCnt)
    BY <1>16, <1>19 DEF Ordered
  <2> QED BY ONLY <2>1, <2>2, OrderKeeps DEF OrderInv
<1> QED BY <1>17, <1>18, <1>19

-----------------------------------------------------------------------------
(* The services on tasks preserve the invariant                              *)

\* A consistent record with the right state of the current task.
Consistent(s) ==
  KernelOK(s) /\ s.state[s.curr] = IF intNestCnt = 0 THEN "RUNNING" ELSE "READY"

\* The parts of the invariant that the services start from.
LEMMA InvConsistent ==
  ASSUME Inv
  PROVE  /\ Consistent(Sys) /\ curr \in Task /\ KernelTyped(Sys)
         /\ \A t \in Task : state[t] = "SUSPENDED" => t # curr
         /\ DOMAIN Sys = Fields
<1>1. Consistent(Sys)
  BY SysFields DEF Inv, Consistent
<1>2. curr \in Task
  BY RunningType
<1>3. DOMAIN Sys = Fields /\ KernelTyped(Sys)
  BY Zenon DEF Inv, KernelOK, KernelTyped
<1> QED BY <1>1, <1>2, <1>3, SysFields, Zenon DEF Inv

\* What the order of the priorities says until an ASSERT fails.
LEMMA NotAsserted ==
  ASSUME OrderInv, ~asserted
  PROVE  /\ HoldOK(Sys) /\ CurrOK(Sys) /\ Ordered(Sys, 1) /\ Ordered(Sys, intNestCnt)
         /\ EventsOutside /\ intNestCnt = 0 /\ scheduling[curr] = "FULL" => TopOK(Sys)
BY SysFields DEF OrderInv, Ordered

\* The record a step leaves is ordered at the nesting level the step leaves.
LEMMA OrderEnds ==
  ASSUME NEW s, KernelOK(s), SysBecomes(s),
         NoInternal /\ Quiet /\ OrderInv => Ordered(s, intNestCnt')
  PROVE  Kept
<1> SUFFICES ASSUME NoInternal, Quiet, OrderInv PROVE OrderInv'
  BY DEF Kept
<1>1. Keeps(s, Sys') /\ Sys'.ready = s.ready /\ Sys'.curr = s.curr
  BY SysBecomesOK
<1>2. Ordered(s, intNestCnt')
  OBVIOUS
<1>3. Ordered(Sys', intNestCnt')
  BY ONLY <1>1, <1>2, OrderKeeps
<1> QED BY <1>3 DEF OrderInv

\* The end of a service that leaves the interrupt nesting alone.
LEMMA ServiceEnds ==
  ASSUME Inv, NEW s, Consistent(s), Orderly(s), SysBecomes(s),
         intNestCnt' = intNestCnt, Os_IntSuspendAllCnt' \in 0 .. MaxSuspend,
         pend' \in [Context -> Pending]
  PROVE  Inv' /\ Kept
<1>1. KernelOK(Sys)' /\ state' = s.state /\ curr' = s.curr
  BY SysBecomesOK DEF Consistent
<1>3. Kept
  BY OrderEnds DEF Consistent, Orderly
<1>2. state'[curr'] = IF intNestCnt' = 0 THEN "RUNNING" ELSE "READY"
  BY <1>1 DEF Consistent
<1>4. Inv'
  BY <1>1, <1>2 DEF Inv
<1> QED BY <1>3, <1>4

\* A service that changes no kernel data.
LEMMA ServiceIdles ==
  ASSUME Inv, UNCHANGED sysVars,
         intNestCnt' = intNestCnt, Os_IntSuspendAllCnt' \in 0 .. MaxSuspend,
         pend' \in [Context -> Pending]
  PROVE  Inv' /\ Kept
<1>1. KernelOK(Sys)' /\ state' = state /\ curr' = curr /\ Sys' = Sys
  BY SysUnchanged DEF Inv
<1>2. Ordered(Sys, intNestCnt) => Ordered(Sys', intNestCnt')
  BY <1>1
<1>3. Kept
  BY <1>2 DEF OrderInv, Kept
<1> QED BY <1>1, <1>3 DEF Inv

\* A dispatch at task level.
LEMMA DispatchConsistent ==
  ASSUME NEW s, NEW op, NEW chained, DispatchPre(s, op), intNestCnt = 0
  PROVE  Consistent(Os_Dispatch(s, op, chained))
BY DispatchOK DEF Consistent

\* What a task that leaves the processor by a step has done: it has ended, or it waits.
GivesUp == curr' # curr => ctx'[curr] = "ended" \/ state'[curr] = "WAIT_EVENT"

\* The dispatches of TerminateTask, ChainTask, WaitEvent and of the return of a task.
LEMMA DispatchGivesUp ==
  ASSUME NEW s, NEW op, NEW chained, DispatchPre(s, op), s.curr = curr,
         op \in {"CHAIN_TASK", "TERMINATE_TASK", "WAIT_EVENT"},
         SysBecomes(Os_Dispatch(s, op, chained))
  PROVE  GivesUp
<1> DEFINE n == Os_Dispatch(s, op, chained)
<1>1. n.curr # s.curr =>
        /\ op \in {"CHAIN_TASK", "TERMINATE_TASK"} => n.ctx[s.curr] = "ended"
        /\ op = "WAIT_EVENT" => n.state[s.curr] = "WAIT_EVENT"
  BY DispatchLeaves, Zenon
<1>2. curr' = n.curr /\ ctx' = n.ctx /\ state' = n.state
  BY DEF SysBecomes
<1> HIDE DEF n
<1> QED BY <1>1, <1>2, Zenon DEF GivesUp

\* A dispatch of a task that occupies no resources, whatever it has done to the rest.
LEMMA DispatchOrderly ==
  ASSUME NEW s, NEW op, NEW chained, DispatchPre(s, op), ~asserted, ~Os_TaskOccupiesResources,
         SameHeld(Sys, s), s.curr = curr,
         NoInternal /\ Quiet /\ OrderInv => s.asserted \/ HoldOK(s)
  PROVE  Orderly(Os_Dispatch(s, op, chained))
<1> SUFFICES ASSUME NoInternal, Quiet, OrderInv
             PROVE  Ordered(Os_Dispatch(s, op, chained), intNestCnt)
  BY DEF Orderly
<1>1. s.resources[s.curr] = <<>>
  BY SysFields, Zenon DEF Os_TaskOccupiesResources, SameHeld
<1> QED BY <1>1, OrderDispatch, Zenon

\* A dispatch of a task that occupies no resources.
LEMMA NothingHeld ==
  ASSUME NEW op, NEW chained, DispatchPre(Sys, op), ~asserted, ~Os_TaskOccupiesResources
  PROVE  Orderly(Os_Dispatch(Sys, op, chained))
<1>1. SameHeld(Sys, Sys) /\ Sys.curr = curr
  BY SysFields DEF SameHeld
<1>2. OrderInv => HoldOK(Sys)
  BY NotAsserted
<1> QED BY <1>1, <1>2, DispatchOrderly

\* ActivateTask preserves the invariant, in its three outcomes.
LEMMA ActivateTaskOK ==
  ASSUME Inv, NEW t \in Task, ActivateTask(t)
  PROVE  Inv' /\ Kept
<1> DEFINE a == activations[t]
           s0 == [Sys EXCEPT !.activations[t] = (@ + 1) % 256]
           z == Asserting(s0, s0.activations[t] = 1)
           clean == Os_Arc_SetCleanContext(z, t)
           s1 == IF state[t] # "SUSPENDED" THEN s0 ELSE Os_TaskMakeReady(clean, t)
           limit == state[t] # "SUSPENDED" /\ s0.activations[t] > activationLimit[t]
           preempts == /\ intNestCnt = 0 /\ scheduling[curr] = "FULL"
                       /\ activePriority[t] > activePriority[curr]
           n == IF ~limit /\ preempts THEN Os_Dispatch(s1, "ACTIVATE_TASK", curr) ELSE s1
           p == [op |-> "limit", task |-> t]
<1>1. /\ SysBecomes(n)
      /\ pend' = IF limit THEN [pend EXCEPT ![Running] = p] ELSE pend
      /\ intNestCnt' = intNestCnt /\ Os_IntSuspendAllCnt' = Os_IntSuspendAllCnt
  BY Zenon DEF ActivateTask
<1>2. pend' \in [Context -> Pending]
  <2>1. p \in Pending
    BY DEF Pending
  <2> HIDE DEF limit, p
  <2> QED BY <1>1, <2>1, RunningType DEF Inv
<1>3. /\ KernelOK(s0) /\ s0.state = state /\ s0.curr = curr
      /\ Keeps(Sys, s0) /\ s0.ready = Sys.ready
  <2>1. a \in 0 .. 255
    BY InvConsistent, SysFields, Zenon DEF KernelTyped, Fields
  <2> DEFINE b == (a + 1) % 256
  <2>2. b \in 0 .. 255
    <3> HIDE DEF a
    <3> QED BY <2>1, ByteType
  <2>3. s0 = [Sys EXCEPT !.activations[t] = b]
    BY InvConsistent, SysFields, SMTT(30) DEF KernelTyped, Fields
  <2> HIDE DEF b, s0
  <2>4. /\ KernelOK([Sys EXCEPT !.activations[t] = b])
        /\ [Sys EXCEPT !.activations[t] = b].state = Sys.state
        /\ [Sys EXCEPT !.activations[t] = b].curr = Sys.curr
    BY <2>2, CountOK, ZenonT(30) DEF Inv
  <2>5. /\ Keeps(Sys, [Sys EXCEPT !.activations[t] = b])
        /\ [Sys EXCEPT !.activations[t] = b].ready = Sys.ready
    BY InvConsistent, CountKeeps, ZenonT(30)
  <2> QED BY <2>3, <2>4, <2>5, SysFields
<1> HIDE DEF s0
<1>4. /\ KernelOK(clean) /\ clean.state = state /\ clean.curr = curr
      /\ Keeps(Sys, clean) /\ clean.ready = Sys.ready
  <2>1. KernelOK(clean) /\ clean.state = state /\ clean.curr = curr
    BY <1>3, AssertingOK, CleanContextOK, SMTT(30)
  <2>2. Keeps(s0, z) /\ z.ready = s0.ready /\ DOMAIN z = Fields
    BY <1>3, AssertingKeeps, Zenon DEF Keeps
  <2> HIDE DEF z
  <2>3. Keeps(z, clean) /\ clean.ready = z.ready
    BY <2>2, CleanContextKeeps, Zenon
  <2> HIDE DEF clean
  <2> QED BY <1>3, <2>1, <2>2, <2>3, KeepsTrans
<1> HIDE DEF clean
<1>5. /\ KernelOK(s1) /\ s1.curr = curr
      /\ s1.state[curr] = IF intNestCnt = 0 THEN "RUNNING" ELSE "READY"
  <2>1. CASE state[t] # "SUSPENDED"
    BY <1>3, <2>1 DEF Inv
  <2>2. CASE state[t] = "SUSPENDED"
    <3>1. KernelOK(s1) /\ s1.curr = curr
      BY <1>4, <2>2, MakeReadyOK
    <3>2. t # curr /\ curr \in Task
      BY <2>2, InvConsistent
    <3>3. s1.state[curr] = clean.state[curr]
      BY <1>4, <2>2, <3>2, MakeReadyOK, Zenon
    <3> HIDE DEF s1
    <3> QED BY <1>4, <3>1, <3>3 DEF Inv
  <2> QED BY <2>1, <2>2, Zenon
<1>7. state[t] # "SUSPENDED" => Keeps(Sys, s1) /\ s1.ready = Sys.ready
  BY <1>3
<1>8. state[t] = "SUSPENDED" => Keeps(Sys, s1) /\ s1.ready = Append(Sys.ready, t)
  <2> SUFFICES ASSUME state[t] = "SUSPENDED"
               PROVE  Keeps(Sys, s1) /\ s1.ready = Append(Sys.ready, t)
    OBVIOUS
  <2>1. s1 = Os_TaskMakeReady(clean, t) /\ DOMAIN clean = Fields /\ clean.state[t] = "SUSPENDED"
    BY <1>4 DEF Keeps
  <2> HIDE DEF s1
  <2>2. Keeps(clean, s1) /\ s1.ready = Append(clean.ready, t)
    BY <2>1, MakeReadyKeeps, Zenon
  <2> QED BY <1>4, <2>2, KeepsTrans
<1> HIDE DEF s1
<1>9. ASSUME NEW nest, Ordered(Sys, nest),
             \/ state[t] # "SUSPENDED"
             \/ (EventsOutside /\ nest = 0 /\ scheduling[curr] = "FULL"
                  => activePriority[t] <= activePriority[curr])
      PROVE  Ordered(s1, nest)
  <2>1. CASE state[t] # "SUSPENDED"
    BY <1>5, <1>7, <1>9, <2>1, OrderKeeps, SysFields, Zenon
  <2>2. CASE state[t] = "SUSPENDED"
    <3>1. KernelOK(Sys) /\ t # curr
      BY <2>2, InvConsistent DEF Inv
    <3>2. ~Linked(Sys.ready, t)
      BY <2>2, <3>1, SysFields, Zenon DEF KernelOK, QueueOK
    <3> QED BY <1>5, <1>8, <1>9, <2>2, <3>1, <3>2, OrderReady, SysFields, Zenon
  <2> QED BY <2>1, <2>2
<1>6. Consistent(n) /\ Orderly(n)
  <2>1. CASE ~limit /\ preempts
    <3>1. intNestCnt = 0 /\ DispatchPre(s1, "ACTIVATE_TASK")
      BY <1>5, <2>1, Zenon DEF DispatchPre, Ops
    <3>2. ASSUME NoInternal, Quiet, OrderInv PROVE Ordered(n, intNestCnt)
      <4>1. Ordered(Sys, 1)
        BY <3>2, NotAsserted DEF ActivateTask, MayCall
      <4>2. s1.asserted \/ HoldOK(s1)
        BY <1>9, <4>1 DEF Ordered
      <4>3. n = Os_Dispatch(s1, "ACTIVATE_TASK", curr) /\ "ACTIVATE_TASK" \notin Leaving
        BY <2>1 DEF Leaving
      <4> HIDE DEF n
      <4> QED BY <3>1, <3>2, <4>2, <4>3, OrderDispatch
    <3> QED BY <2>1, <3>1, <3>2, DispatchConsistent, Zenon DEF Orderly
  <2>2. CASE ~(~limit /\ preempts)
    <3>1. \/ state[t] # "SUSPENDED"
          \/ (EventsOutside /\ intNestCnt = 0 /\ scheduling[curr] = "FULL"
               => activePriority[t] <= activePriority[curr])
      <4>1. activePriority[t] \in Nat /\ activePriority[curr] \in Nat
        BY InvConsistent, HeldTypes, SysFields, Zenon DEF Consistent
      <4> QED BY <2>2, <4>1
    <3> HIDE DEF limit, preempts
    <3>2. Orderly(s1)
      BY <1>9, <3>1 DEF Orderly, OrderInv
    <3> QED BY <1>5, <2>2, <3>2 DEF Consistent
  <2> QED BY <2>1, <2>2, Zenon
<1> HIDE DEF n, limit
<1> QED BY <1>1, <1>2, <1>6, ServiceEnds, Zenon DEF Inv

\* So does the decrement that ActivateTask makes with interrupts enabled.
LEMMA ActivateTaskLimitOK ==
  ASSUME Inv, ActivateTaskLimit
  PROVE  Inv' /\ Kept
<1> DEFINE p == pend[Running]
<1>1. p \in Pending /\ Running \in Context
  BY RunningType
<1>2. intNestCnt' = intNestCnt /\ Os_IntSuspendAllCnt' \in 0 .. MaxSuspend
  BY DEF ActivateTaskLimit, Inv
<1>3. CASE /\ p.op = "limit"
           /\ pend' = [pend EXCEPT ![Running] =
                         [op |-> "store", task |-> p.task, val |-> activations[p.task]]]
           /\ UNCHANGED sysVars
  <2>1. p.task \in Task
    BY <1>1, <1>3, SMTT(30) DEF Pending, NoPend
  <2>2. activations[p.task] \in 0 .. 255
    BY <2>1, InvConsistent, SysFields, ZenonT(30) DEF KernelTyped, Fields
  <2>3. [op |-> "store", task |-> p.task, val |-> activations[p.task]] \in Pending
    <3> HIDE DEF p
    <3> QED BY <2>1, <2>2, Zenon DEF Pending
  <2>4. pend' \in [Context -> Pending]
    BY <1>3, <2>3, RunningType
  <2> QED BY <1>2, <1>3, <2>4, ServiceIdles
<1>4. CASE /\ p.op = "store"
           /\ pend' = [pend EXCEPT ![Running] = NoPend]
           /\ SysBecomes([Sys EXCEPT !.activations[p.task] = (p.val + 255) % 256])
  <2> DEFINE b == (p.val + 255) % 256
  <2>1. p.task \in Task /\ p.val \in 0 .. 255
    <3>1. p \in Pending /\ p.op = "store"
      BY <1>1, <1>4
    <3> HIDE DEF p
    <3> QED BY <3>1, SMTT(30) DEF Pending, NoPend
  <2>2. b \in 0 .. 255
    <3> HIDE DEF p
    <3> QED BY <2>1, ByteType, Zenon
  <2>3. pend' \in [Context -> Pending]
    BY <1>4, RunningType DEF Pending
  <2> HIDE DEF b
  <2>4. /\ Consistent([Sys EXCEPT !.activations[p.task] = b])
        /\ Orderly([Sys EXCEPT !.activations[p.task] = b])
    <3> DEFINE n == [Sys EXCEPT !.activations[p.task] = b]
    <3>1. KernelOK(Sys) /\ p.task \in Task
      BY <2>1, Zenon DEF Inv
    <3>2. KernelOK(n) /\ n.state = Sys.state /\ n.curr = Sys.curr
      <4> HIDE DEF p
      <4> QED BY <2>2, <3>1, CountOK, ZenonT(30)
    <3>3. Keeps(Sys, n) /\ n.ready = Sys.ready
      <4> HIDE DEF p
      <4> QED BY InvConsistent, CountKeeps, ZenonT(30)
    <3> HIDE DEF n
    <3>4. Orderly(n)
      BY <3>2, <3>3, OrderKeeps DEF Orderly, OrderInv
    <3> QED BY <3>2, <3>4, SysFields DEF Inv, Consistent, n
  <2>5. SysBecomes([Sys EXCEPT !.activations[p.task] = b])
    BY <1>4 DEF b
  <2> QED BY <1>2, <2>3, <2>4, <2>5, ServiceEnds, SMTT(30)
<1> QED BY <1>3, <1>4, Zenon DEF ActivateTaskLimit

\* TerminateTask preserves the invariant.
LEMMA TerminateTaskOK ==
  ASSUME Inv, TerminateTask
  PROVE  Inv' /\ Kept /\ GivesUp
<1>1. intNestCnt = 0 /\ curr # OsIdle
  BY CallAssumption DEF TerminateTask, TaskMayCall
<1>2. DispatchPre(Sys, "TERMINATE_TASK")
  BY <1>1, SysFields DEF Inv, DispatchPre, Ops
<1>3. Consistent(Os_Dispatch(Sys, "TERMINATE_TASK", curr))
  BY <1>1, <1>2, DispatchConsistent
<1>4. Orderly(Os_Dispatch(Sys, "TERMINATE_TASK", curr))
  BY <1>2, NothingHeld DEF TerminateTask, TaskMayCall, MayCall
<1>5. GivesUp
  BY <1>2, DispatchGivesUp, SysFields DEF TerminateTask
<1> QED BY <1>3, <1>4, <1>5, ServiceEnds DEF TerminateTask, Inv

\* So does the return of a task function, which Os_TaskPost ends.
LEMMA TaskPostOK ==
  ASSUME Inv, Os_TaskPost
  PROVE  Inv' /\ Kept /\ GivesUp
<1> DEFINE s == Os_TaskResourceFreeAll(Sys, curr)
<1>1. intNestCnt = 0 /\ curr # OsIdle /\ curr \in Task
  BY CallAssumption, RunningType DEF Os_TaskPost
<1>2. KernelOK(s) /\ s.state = state /\ s.curr = curr
  BY <1>1, FreeAllOK, SysFields DEF Inv
<1>7. ASSUME OrderInv PROVE s.asserted \/ (HoldOK(s) /\ s.resources[s.curr] = <<>>)
  <2>1. HoldOK(Sys) /\ CurrOK(Sys) /\ KernelOK(Sys) /\ Sys.curr = curr
    BY <1>7, NotAsserted, SysFields, Zenon DEF Os_TaskPost, MayCall, Inv
  <2> QED BY <1>2, <2>1, FreeAllHold
<1> HIDE DEF s
<1>3. DispatchPre(s, "TERMINATE_TASK")
  BY <1>1, <1>2 DEF Inv, DispatchPre, Ops
<1>4. Consistent(Os_Dispatch(s, "TERMINATE_TASK", curr))
  BY <1>1, <1>3, DispatchConsistent
<1>5. SysBecomes(Os_Dispatch(s, "TERMINATE_TASK", curr))
  BY DEF Os_TaskPost, s
<1>6. intNestCnt' = intNestCnt /\ Os_IntSuspendAllCnt' \in 0 .. MaxSuspend /\ pend' = pend
  BY TaskAssumption DEF Os_TaskPost
<1>8. Orderly(Os_Dispatch(s, "TERMINATE_TASK", curr))
  BY <1>3, <1>7, OrderDispatch, Zenon DEF Orderly
<1>9. GivesUp
  BY <1>2, <1>3, <1>5, DispatchGivesUp
<1> QED BY <1>4, <1>5, <1>6, <1>8, <1>9, ServiceEnds DEF Inv

\* An activation count below a limit of at most 254 can be incremented in eight bits.
LEMMA OneMore ==
  ASSUME NEW a \in 0 .. 255, NEW limit \in 1 .. 254, a + 1 <= limit
  PROVE a + 1 \in 0 .. 255
OBVIOUS

\* ChainTask preserves the invariant, to another task and to the caller.
LEMMA ChainTaskOK ==
  ASSUME Inv, NEW t \in Task, ChainTask(t)
  PROVE  Inv' /\ Kept /\ GivesUp
<1> DEFINE z == Asserting(Sys, activations[t] = 0)
           clean == Os_Arc_SetCleanContext(z, t)
           s0 == IF state[t] # "SUSPENDED" THEN Sys ELSE Os_TaskMakeReady(clean, t)
           s1 == [s0 EXCEPT !.activations[t] = @ + 1]
           s == IF t = curr THEN Sys ELSE s1
<1>1. SysBecomes(Os_Dispatch(s, "CHAIN_TASK", t))
  BY Zenon DEF ChainTask
<1>2. /\ intNestCnt = 0 /\ curr # OsIdle /\ curr \in Task
      /\ t = curr \/ activations[t] + 1 <= activationLimit[t]
      /\ ~asserted /\ ~Os_TaskOccupiesResources
  BY CallAssumption, RunningType DEF ChainTask, TaskMayCall, MayCall
<1>3. KernelOK(Sys) /\ Sys.state[curr] = "RUNNING" /\ Sys.curr = curr
  BY <1>2, SysFields DEF Inv
<1>4. /\ KernelOK(clean) /\ clean.state = state /\ clean.curr = curr
      /\ clean.activations = activations /\ Keeps(Sys, clean) /\ clean.ready = Sys.ready
  <2>1. KernelOK(z) /\ z.state = state /\ z.curr = curr
    BY <1>3, AssertingOK, SysFields, Zenon
  <2>2. z.activations = Sys.activations
    BY InvConsistent DEF Asserting, KernelTyped, Fields
  <2>4. Keeps(Sys, z) /\ z.ready = Sys.ready /\ DOMAIN z = Fields
    BY InvConsistent, AssertingKeeps, Zenon DEF Keeps
  <2> HIDE DEF z
  <2>3. clean.activations = z.activations
    BY <2>1 DEF Os_Arc_SetCleanContext, KernelOK, KernelTyped, Fields
  <2>5. Keeps(z, clean) /\ clean.ready = z.ready
    BY <2>4, CleanContextKeeps, Zenon
  <2>6. KernelOK(clean) /\ clean.state = z.state /\ clean.curr = z.curr
    BY <2>1, CleanContextOK
  <2> HIDE DEF clean
  <2> QED BY <2>1, <2>2, <2>3, <2>4, <2>5, <2>6, KeepsTrans, SysFields
<1> HIDE DEF clean
<1>5. CASE t # curr
  <2>1. /\ KernelOK(s0) /\ s0.curr = curr /\ s0.state[curr] = "RUNNING"
        /\ s0.activations = activations /\ Keeps(Sys, s0)
        /\ \/ s0.ready = Sys.ready
           \/ state[t] = "SUSPENDED" /\ s0.ready = Append(Sys.ready, t)
    <3>1. CASE state[t] # "SUSPENDED"
      <4>1. Keeps(Sys, Sys)
        BY InvConsistent DEF Keeps, SameHeld
      <4> QED BY <1>3, <3>1, <4>1, SysFields, Zenon
    <3>2. CASE state[t] = "SUSPENDED"
      <4>1. KernelOK(s0) /\ s0.curr = curr /\ s0.state[curr] = clean.state[curr]
        BY <1>2, <1>4, <1>5, <3>2, MakeReadyOK, Zenon
      <4>2. s0.activations = clean.activations
        BY <1>4, <3>2 DEF Os_TaskMakeReady, KernelOK, KernelTyped, Fields
      <4>3. s0 = Os_TaskMakeReady(clean, t) /\ DOMAIN clean = Fields /\ clean.state[t] = "SUSPENDED"
        BY <1>4, <3>2 DEF Keeps
      <4> HIDE DEF s0
      <4>4. Keeps(clean, s0) /\ s0.ready = Append(clean.ready, t)
        BY <4>3, MakeReadyKeeps, Zenon
      <4> QED BY <1>3, <1>4, <3>2, <4>1, <4>2, <4>4, KeepsTrans, SysFields, Zenon
    <3> QED BY <3>1, <3>2, Zenon
  <2> HIDE DEF s0
  <2>2. activations[t] + 1 \in 0 .. 255
    <3>1. activations[t] \in 0 .. 255 /\ activationLimit[t] \in 1 .. 254
      <4>1. activations \in [Task -> 0 .. 255]
        BY InvConsistent, SysFields, Zenon DEF KernelTyped, Fields
      <4> QED BY <1>2, <4>1, TaskAssumption, SMTT(30)
    <3>2. activations[t] + 1 <= activationLimit[t]
      BY <1>2, <1>5
    <3> QED BY <3>1, <3>2, OneMore, Zenon
  <2>3. s1 = [s0 EXCEPT !.activations[t] = activations[t] + 1]
    BY <2>1 DEF KernelOK, KernelTyped, Fields
  <2> HIDE DEF s1
  <2>4. /\ KernelOK(s1) /\ s1.state = s0.state /\ s1.curr = s0.curr
        /\ Keeps(s0, s1) /\ s1.ready = s0.ready
    <3> DEFINE b == activations[t] + 1
               e == [s0 EXCEPT !.activations[t] = b]
    <3>6. b \in 0 .. 255 /\ s1 = e
      BY <2>2, <2>3
    <3> HIDE DEF b
    <3>1. KernelOK(s0) /\ t \in Task
      BY <1>2, <2>1
    <3>2. KernelOK(e) /\ e.state = s0.state /\ e.curr = s0.curr
      BY <3>1, <3>6, CountOK, ZenonT(30)
    <3>5. DOMAIN s0 = Fields
      BY <2>1 DEF Keeps
    <3>4. Keeps(s0, e) /\ e.ready = s0.ready
      BY <3>5, CountKeeps, ZenonT(60)
    <3> HIDE DEF e
    <3> QED BY <3>2, <3>4, <3>6
  <2>5. s = s1
    BY <1>5
  <2>6. DispatchPre(s, "CHAIN_TASK")
    BY <1>2, <2>1, <2>4, <2>5, Zenon DEF DispatchPre, Ops
  <2>7. ASSUME OrderInv PROVE HoldOK(s1)
    <3>1. HoldOK(Sys)
      BY <1>2, <2>7, NotAsserted
    <3>2. CASE s0.ready = Sys.ready
      BY <2>1, <2>4, <3>1, <3>2, HoldSame, Zenon DEF Keeps
    <3>3. CASE state[t] = "SUSPENDED" /\ s0.ready = Append(Sys.ready, t)
      <4>1. ~Linked(Sys.ready, t)
        BY <1>3, <3>3, SysFields, Zenon DEF KernelOK, QueueOK
      <4>2. HoldOK(s0)
        BY <1>3, <2>1, <3>1, <3>3, <4>1, HoldReady, Zenon DEF Keeps
      <4> QED BY <2>4, <4>2, HoldSame DEF Keeps
    <3> QED BY <2>1, <3>2, <3>3, Zenon
  <2>8. SameHeld(Sys, s) /\ s.curr = curr /\ (OrderInv => HoldOK(s))
    BY <2>1, <2>4, <2>5, <2>7, KeepsTrans, SMTT(30) DEF Keeps
  <2> HIDE DEF s
  <2>9. Orderly(Os_Dispatch(s, "CHAIN_TASK", t))
    BY <1>2, <2>6, <2>8, DispatchOrderly, Zenon
  <2>10. GivesUp
    BY <1>1, <2>6, <2>8, DispatchGivesUp
  <2> QED BY <1>1, <1>2, <2>6, <2>9, <2>10, DispatchConsistent, ServiceEnds DEF ChainTask, Inv
<1>6. CASE t = curr
  <2>1. s = Sys
    BY <1>6
  <2>2. DispatchPre(s, "CHAIN_TASK")
    BY <1>2, <1>3, <2>1, Zenon DEF DispatchPre, Ops
  <2>3. Orderly(Os_Dispatch(s, "CHAIN_TASK", t))
    BY <1>2, <2>1, <2>2, NothingHeld, Zenon
  <2>4. s.curr = curr
    BY <1>3, <2>1, Zenon
  <2> HIDE DEF s
  <2>5. GivesUp
    BY <1>1, <2>2, <2>4, DispatchGivesUp
  <2> QED BY <1>1, <1>2, <2>2, <2>3, <2>5, DispatchConsistent, ServiceEnds DEF ChainTask, Inv
<1> QED BY <1>5, <1>6
=============================================================================
