--------------------------- MODULE OsKernelProofs ---------------------------
(***************************************************************************)
(* Proofs about the kernel for every set of tasks, resources and events    *)
(* and every application: the types of its data, the consistency of the    *)
(* ready queue with the task states, that no wakeup is lost, that a task   *)
(* that is not preemptable keeps the processor and, for applications       *)
(* without internal resources, the priority ceiling protocol.              *)
(***************************************************************************)
EXTENDS OsKernelDispatch

-----------------------------------------------------------------------------
(* The services on events and resources, and the interrupts                  *)

\* The event masks of a task.
LEMMA EventsSetOK ==
  ASSUME NEW y, KernelTyped(y), NEW t \in Task, NEW v \in SUBSET Event
  PROVE  /\ KernelTyped([y EXCEPT !.ev_set[t] = v])
         /\ [y EXCEPT !.ev_set[t] = v].state = y.state /\ [y EXCEPT !.ev_set[t] = v].curr = y.curr
         /\ [y EXCEPT !.ev_set[t] = v].ready = y.ready /\ [y EXCEPT !.ev_set[t] = v].ev_wait = y.ev_wait
         /\ [y EXCEPT !.ev_set[t] = v].ev_set = [y.ev_set EXCEPT ![t] = v]
         /\ Keeps(y, [y EXCEPT !.ev_set[t] = v])
<1>1. KernelTyped([y EXCEPT !.ev_set[t] = v])
  BY DEF KernelTyped, Fields
<1>2. /\ [y EXCEPT !.ev_set[t] = v].state = y.state /\ [y EXCEPT !.ev_set[t] = v].curr = y.curr
      /\ [y EXCEPT !.ev_set[t] = v].ready = y.ready /\ [y EXCEPT !.ev_set[t] = v].ev_wait = y.ev_wait
      /\ [y EXCEPT !.ev_set[t] = v].ev_set = [y.ev_set EXCEPT ![t] = v]
  BY DEF KernelTyped, Fields
<1>3. Keeps(y, [y EXCEPT !.ev_set[t] = v])
  BY DEF KernelTyped, Fields, Keeps, SameHeld
<1> QED BY <1>1, <1>2, <1>3

\* So does writing the mask a task waits for.
LEMMA EventsWaitOK ==
  ASSUME NEW y, KernelTyped(y), NEW t \in Task, NEW v \in SUBSET Event
  PROVE  /\ KernelTyped([y EXCEPT !.ev_wait[t] = v])
         /\ [y EXCEPT !.ev_wait[t] = v].state = y.state /\ [y EXCEPT !.ev_wait[t] = v].curr = y.curr
         /\ [y EXCEPT !.ev_wait[t] = v].ready = y.ready /\ [y EXCEPT !.ev_wait[t] = v].ev_set = y.ev_set
         /\ [y EXCEPT !.ev_wait[t] = v].ev_wait = [y.ev_wait EXCEPT ![t] = v]
         /\ Keeps(y, [y EXCEPT !.ev_wait[t] = v])
<1>1. KernelTyped([y EXCEPT !.ev_wait[t] = v])
  BY DEF KernelTyped, Fields
<1>2. /\ [y EXCEPT !.ev_wait[t] = v].state = y.state /\ [y EXCEPT !.ev_wait[t] = v].curr = y.curr
      /\ [y EXCEPT !.ev_wait[t] = v].ready = y.ready /\ [y EXCEPT !.ev_wait[t] = v].ev_set = y.ev_set
      /\ [y EXCEPT !.ev_wait[t] = v].ev_wait = [y.ev_wait EXCEPT ![t] = v]
  BY DEF KernelTyped, Fields
<1>3. Keeps(y, [y EXCEPT !.ev_wait[t] = v])
  BY DEF KernelTyped, Fields, Keeps, SameHeld
<1> QED BY <1>1, <1>2, <1>3

\* Schedule preserves the invariant.
LEMMA ScheduleOK ==
  ASSUME Inv, Schedule
  PROVE  Inv' /\ Kept
<1>1. intNestCnt = 0 /\ DispatchPre(Sys, "SCHEDULE")
  BY SysFields DEF Schedule, TaskMayCall, Inv, DispatchPre, Ops
<1>2. Consistent(Os_Dispatch(Sys, "SCHEDULE", curr))
  BY <1>1, DispatchConsistent
<1>3. Orderly(Os_Dispatch(Sys, "SCHEDULE", curr))
  BY <1>1, NothingHeld DEF Schedule, TaskMayCall, MayCall
<1> QED BY <1>2, <1>3, ServiceEnds DEF Schedule, Inv

\* A task enters WAIT_EVENT only when none of the events is set.
LEMMA WaitEventOK ==
  ASSUME Inv, NEW mask \in SUBSET Event, WaitEvent(mask)
  PROVE  Inv' /\ Kept /\ GivesUp
<1> DEFINE y == Sys
           s == [y EXCEPT !.ev_wait[curr] = mask]
<1>1. /\ intNestCnt = 0 /\ curr \in Task /\ curr # OsIdle /\ state[curr] = "RUNNING"
      /\ ev_set[curr] \cap mask = {}
  BY IdleAssumption, RunningType DEF WaitEvent, TaskMayCall, Inv
<1>2. KernelOK(y) /\ y.state = state /\ y.curr = curr /\ y.ev_set = ev_set
  BY SysFields DEF Inv
<1>3. SysBecomes(Os_Dispatch(s, "WAIT_EVENT", curr))
  BY DEF WaitEvent
<1>8. ~asserted /\ ~Os_TaskOccupiesResources /\ y = Sys
  BY DEF WaitEvent, TaskMayCall, MayCall
<1> HIDE DEF y
<1>4. /\ KernelTyped(s) /\ s.state = state /\ s.curr = curr
      /\ s.ready = y.ready /\ s.ev_set = ev_set /\ s.ev_wait = [y.ev_wait EXCEPT ![curr] = mask]
      /\ y.ev_wait \in [Task -> SUBSET Event] /\ Keeps(y, s)
  <2>1. KernelTyped(y) /\ y.ev_wait \in [Task -> SUBSET Event]
    BY <1>2 DEF KernelOK, KernelTyped, Fields
  <2> QED BY <1>1, <1>2, <2>1, EventsWaitOK, SMTT(30)
<1> HIDE DEF s
<1>5. WakeupOK(s.state, s.ev_set, s.ev_wait)
  <2> SUFFICES ASSUME NEW t \in Task, s.state[t] = "WAIT_EVENT"
               PROVE  s.ev_set[t] \cap s.ev_wait[t] = {}
    BY DEF WakeupOK
  <2>1. t # curr /\ s.ev_wait[t] = y.ev_wait[t] /\ s.ev_set[t] = y.ev_set[t]
    BY <1>1, <1>2, <1>4
  <2> QED BY <1>2, <1>4, <2>1 DEF WakeupOK, KernelOK
<1>6. KernelOK(s)
  BY <1>2, <1>4, <1>5 DEF KernelOK
<1>7. DispatchPre(s, "WAIT_EVENT")
  BY <1>1, <1>4, <1>6 DEF DispatchPre, Ops
<1>9. OrderInv => HoldOK(s)
  BY <1>4, <1>8, NotAsserted, HoldSame DEF Keeps
<1>10. Orderly(Os_Dispatch(s, "WAIT_EVENT", curr))
  BY <1>4, <1>7, <1>8, <1>9, DispatchOrderly DEF Keeps
<1>11. GivesUp
  BY <1>3, <1>4, <1>7, DispatchGivesUp
<1> QED BY <1>1, <1>3, <1>7, <1>10, <1>11, DispatchConsistent, ServiceEnds DEF WaitEvent, Inv

\* ClearEvent clears events of a task that does not wait.
LEMMA ClearEventOK ==
  ASSUME Inv, NEW mask \in SUBSET Event, ClearEvent(mask)
  PROVE  Inv' /\ Kept
<1> DEFINE y == Sys
           s == [y EXCEPT !.ev_set[curr] = @ \ mask]
<1>1. curr \in Task
  BY RunningType
<1>2. KernelOK(y) /\ y.state = state /\ y.curr = curr /\ y = Sys
  BY SysFields DEF Inv
<1>3. SysBecomes(s)
  BY DEF ClearEvent
<1> HIDE DEF y
<1>4. /\ KernelTyped(s) /\ s.state = y.state /\ s.curr = y.curr
      /\ s.ready = y.ready /\ s.ev_wait = y.ev_wait
      /\ s.ev_set = [y.ev_set EXCEPT ![curr] = y.ev_set[curr] \ mask]
      /\ y.ev_set \in [Task -> SUBSET Event] /\ Keeps(y, s)
  <2> DEFINE v == y.ev_set[curr] \ mask
  <2>1. KernelTyped(y) /\ y.ev_set \in [Task -> SUBSET Event]
    BY <1>2 DEF KernelOK, KernelTyped, Fields
  <2>2. v \in SUBSET Event /\ s = [y EXCEPT !.ev_set[curr] = v]
    BY <1>1, <2>1
  <2> HIDE DEF s, v
  <2>3. s.ev_set = [y.ev_set EXCEPT ![curr] = v]
    BY <1>1, <2>1, <2>2, EventsSetOK
  <2>4. /\ KernelTyped(s) /\ s.state = y.state /\ s.curr = y.curr
        /\ s.ready = y.ready /\ s.ev_wait = y.ev_wait /\ Keeps(y, s)
    BY <1>1, <2>1, <2>2, EventsSetOK, SMTT(30)
  <2> QED BY <2>1, <2>3, <2>4, SMTT(30) DEF v
<1> HIDE DEF s
<1>5. WakeupOK(s.state, s.ev_set, s.ev_wait)
  <2> SUFFICES ASSUME NEW t \in Task, s.state[t] = "WAIT_EVENT"
               PROVE  s.ev_set[t] \cap s.ev_wait[t] = {}
    BY DEF WakeupOK
  <2>1. s.ev_wait[t] = y.ev_wait[t] /\ s.ev_set[t] \subseteq y.ev_set[t]
    BY <1>1, <1>4
  <2>2. y.ev_set[t] \cap y.ev_wait[t] = {}
    BY <1>2, <1>4 DEF WakeupOK, KernelOK
  <2> QED BY <2>1, <2>2
<1>6. Consistent(s)
  BY <1>2, <1>4, <1>5 DEF KernelOK, Consistent, Inv
<1>7. Orderly(s)
  BY <1>2, <1>4, OrderKeeps DEF Orderly, OrderInv
<1> QED BY <1>3, <1>6, <1>7, ServiceEnds DEF ClearEvent, Inv

\* The first part of SetEvent changes no kernel data.
LEMMA SetEventOK ==
  ASSUME Inv, NEW t \in Task, NEW mask \in SUBSET Event, SetEvent(t, mask)
  PROVE  Inv' /\ Kept
<1>1. [op |-> "SetEvent", task |-> t, mask |-> mask] \in Pending
  BY DEF Pending
<1>2. pend' \in [Context -> Pending]
  BY <1>1, RunningType DEF SetEvent
<1> QED BY <1>2, ServiceIdles DEF SetEvent, Inv

\* An event a task waits for makes it ready: no wakeup is lost.
LEMMA SetEventLockedOK ==
  ASSUME Inv, SetEventLocked
  PROVE  Inv' /\ Kept
<1> DEFINE t == pend[Running].task
           mask == pend[Running].mask
           y == Sys
           s0 == [y EXCEPT !.ev_set[t] = @ \cup mask]
           preempts == /\ intNestCnt = 0 /\ scheduling[curr] = "FULL"
                       /\ activePriority[t] > activePriority[curr]
                       /\ ~Os_SysIntAnyDisabled
           m == Os_TaskMakeReady(s0, t)
           stays == mask \cap ev_wait[t] = {} \/ state[t] \in {"READY", "RUNNING"}
           n == IF stays THEN s0
                ELSE IF state[t] = "SUSPENDED" THEN Asserting(s0, FALSE)
                ELSE IF preempts THEN Os_Dispatch(m, "SET_EVENT", curr)
                ELSE m
<1>1. SysBecomes(n)
  BY ZenonT(30) DEF SetEventLocked
<1>2. t \in Task /\ mask \in SUBSET Event /\ curr \in Task
  <2> DEFINE p == pend[Running]
  <2>1. p \in Pending /\ curr \in Task
    BY RunningType
  <2>2. p.op = "SetEvent"
    BY DEF SetEventLocked
  <2> HIDE DEF p
  <2>3. p.task \in Task /\ p.mask \in SUBSET Event
    BY <2>1, <2>2 DEF Pending, NoPend
  <2> QED BY <2>1, <2>3 DEF p
<1>3. /\ KernelOK(y) /\ y.state = state /\ y.curr = curr /\ y.ev_wait = ev_wait
      /\ state[curr] = IF intNestCnt = 0 THEN "RUNNING" ELSE "READY"
  BY SysFields, SMTT(30) DEF Inv
<1>4. pend' \in [Context -> Pending]
  BY RunningType, Zenon DEF SetEventLocked, Pending
<1>10. ~asserted /\ y = Sys /\ pend[Running].op = "SetEvent"
  BY DEF SetEventLocked
<1> HIDE DEF t, mask, y
<1>5. /\ KernelTyped(s0) /\ s0.state = state /\ s0.curr = curr
      /\ s0.ready = y.ready /\ s0.ev_wait = ev_wait
      /\ s0.ev_set = [y.ev_set EXCEPT ![t] = y.ev_set[t] \cup mask]
      /\ y.ev_set \in [Task -> SUBSET Event] /\ Keeps(y, s0)
      /\ state \in [Task -> States] /\ state[t] \in States
  <2> DEFINE v == y.ev_set[t] \cup mask
  <2>1. /\ KernelTyped(y) /\ y.ev_set \in [Task -> SUBSET Event]
        /\ state \in [Task -> States]
    BY <1>3 DEF KernelOK, KernelTyped, Fields
  <2>2. v \in SUBSET Event /\ s0 = [y EXCEPT !.ev_set[t] = v]
    BY <1>2, <2>1
  <2> HIDE DEF s0, v
  <2>3. s0.ev_set = [y.ev_set EXCEPT ![t] = v]
    BY <1>2, <2>1, <2>2, EventsSetOK
  <2>4. /\ KernelTyped(s0) /\ s0.state = y.state /\ s0.curr = y.curr
        /\ s0.ready = y.ready /\ s0.ev_wait = y.ev_wait /\ Keeps(y, s0)
    BY <1>2, <2>1, <2>2, EventsSetOK
  <2> QED BY <1>2, <1>3, <2>1, <2>3, <2>4, SMTT(30) DEF v
<1> HIDE DEF s0
<1>6. ASSUME NEW u \in Task, state[u] = "WAIT_EVENT", u # t \/ stays
      PROVE  s0.ev_set[u] \cap s0.ev_wait[u] = {}
  <2>1. y.ev_set[u] \cap ev_wait[u] = {}
    BY <1>3, <1>6 DEF KernelOK, WakeupOK
  <2>2. CASE u # t
    BY <1>2, <1>5, <2>1, <2>2
  <2>3. CASE u = t
    <3>1. mask \cap ev_wait[t] = {} /\ s0.ev_set[t] = y.ev_set[t] \cup mask
      BY <1>2, <1>5, <1>6, <2>3
    <3> QED BY <1>5, <2>1, <2>3, <3>1
  <2> QED BY <2>2, <2>3
<1>7. CASE stays
  <2>1. WakeupOK(s0.state, s0.ev_set, s0.ev_wait)
    BY <1>5, <1>6, <1>7 DEF WakeupOK
  <2>2. Consistent(s0) /\ n = s0
    BY <1>3, <1>5, <1>7, <2>1, Zenon DEF KernelOK, Consistent
  <2>3. Orderly(s0)
    BY <1>3, <1>5, <1>10, OrderKeeps DEF Orderly, OrderInv
  <2> HIDE DEF n
  <2> QED BY <1>1, <1>4, <2>2, <2>3, ServiceEnds DEF SetEventLocked, Inv
<1>8. CASE ~stays /\ state[t] = "SUSPENDED"
  <2>1. WakeupOK(s0.state, s0.ev_set, s0.ev_wait)
    BY <1>5, <1>6, <1>8 DEF WakeupOK
  <2>2. KernelOK(s0)
    BY <1>3, <1>5, <2>1 DEF KernelOK
  <2>3. n = Asserting(s0, FALSE)
    BY <1>8
  <2> HIDE DEF n
  <2>4. KernelOK(n) /\ n.state = s0.state /\ n.curr = s0.curr
    BY <2>2, <2>3, AssertingOK, Zenon
  <2>5. Consistent(n)
    BY <1>3, <1>5, <2>4 DEF Consistent
  <2>6. n.asserted
    BY <1>5, <2>3, AssertingKeeps, Zenon DEF Keeps
  <2>7. Orderly(n)
    BY <2>6 DEF Orderly, Ordered
  <2> QED BY <1>1, <1>4, <2>5, <2>7, ServiceEnds DEF SetEventLocked, Inv
<1>9. CASE ~stays /\ state[t] # "SUSPENDED"
  <2>1. state[t] = "WAIT_EVENT" /\ t # curr
    BY <1>3, <1>5, <1>9 DEF States
  <2> DEFINE st == [state EXCEPT ![t] = "READY"]
             q == Append(s0.ready, t)
             e == [s0 EXCEPT !.state[t] = "READY", !.ready = Append(@, t)]
  <2>2. m = e
    BY <1>5, <2>1 DEF Os_TaskMakeReady
  <2>3. /\ y.ready \in Seq(Task) /\ NoDuplicates(y.ready) /\ ~Linked(y.ready, t)
        /\ QueueOK(state, y.ready)
    BY <1>2, <1>3, <2>1, Zenon DEF KernelOK, KernelTyped, Fields, QueueOK
  <2>4. /\ q \in Seq(Task) /\ NoDuplicates(q)
        /\ \A u \in Task : Linked(q, u) <=> Linked(y.ready, u) \/ u = t
    BY <1>2, <1>5, <2>3, EnqueueLemma
  <2>11. Keeps(s0, m) /\ m.ready = q /\ m.curr = curr
    BY <1>5, <2>1, MakeReadyKeeps, Zenon DEF Keeps
  <2>5. /\ KernelTyped(e) /\ e.state = st /\ e.ready = q /\ e.curr = curr
        /\ e.ev_set = s0.ev_set /\ e.ev_wait = s0.ev_wait
    BY <1>2, <1>5, <2>4, ZenonT(30) DEF KernelTyped, Fields, States
  <2> HIDE DEF q, e
  <2>6. QueueOK(st, q)
    BY <1>2, <1>5, <2>3, <2>4, IdleInTask DEF QueueOK
  <2>7. WakeupOK(st, s0.ev_set, s0.ev_wait)
    BY <1>2, <1>5, <1>6 DEF WakeupOK
  <2>8. KernelOK(m) /\ m.curr = curr /\ m.state[curr] = state[curr]
    BY <1>2, <1>5, <2>1, <2>2, <2>5, <2>6, <2>7 DEF KernelOK
  <2> HIDE DEF m
  <2>12. ASSUME NEW nest, Ordered(Sys, nest),
                EventsOutside /\ nest = 0 /\ scheduling[curr] = "FULL"
                  => activePriority[t] <= activePriority[curr]
         PROVE  Ordered(m, nest)
    <3>1. Keeps(Sys, m) /\ m.ready = Append(Sys.ready, t) /\ KernelOK(Sys) /\ ~Linked(Sys.ready, t)
      BY <1>3, <1>5, <1>10, <2>3, <2>11, KeepsTrans DEF q
    <3> QED BY <1>2, <2>1, <2>11, <2>12, <3>1, OrderReady, SysFields
  <2>9. CASE preempts
    <3>1. intNestCnt = 0 /\ DispatchPre(m, "SET_EVENT") /\ n = Os_Dispatch(m, "SET_EVENT", curr)
      BY <1>3, <1>9, <2>8, <2>9 DEF DispatchPre, Ops
    <3> HIDE DEF n
    <3>2. ASSUME NoInternal, OrderInv PROVE Ordered(n, intNestCnt)
      <4>1. Ordered(Sys, 1)
        BY <1>10, <3>2, NotAsserted
      <4>2. m.asserted \/ HoldOK(m)
        BY <2>12, <4>1 DEF Ordered
      <4>3. "SET_EVENT" \notin Leaving
        BY DEF Leaving
      <4> QED BY <3>1, <3>2, <4>2, <4>3, OrderDispatch
    <3>3. Consistent(n) /\ Orderly(n)
      BY <3>1, <3>2, DispatchConsistent DEF Orderly
    <3> QED BY <1>1, <1>4, <3>3, ServiceEnds, SMTT(30) DEF SetEventLocked, Inv
  <2>10. CASE ~preempts
    <3>1. Consistent(m) /\ n = m
      BY <1>3, <1>9, <2>8, <2>10 DEF Consistent
    <3>2. activePriority[t] \in Nat /\ activePriority[curr] \in Nat
      BY <1>2, <1>3, <1>10, HeldTypes, SysFields
    <3>3. ASSUME Quiet, EventsOutside, intNestCnt = 0, scheduling[curr] = "FULL"
          PROVE  activePriority[t] <= activePriority[curr]
      <4>1. Os_SysIntAnyDisabled => curr \in MaySuspend \ {ISR}
        BY <1>2, <3>3, TaskAssumption DEF Quiet, Os_SysIntAnyDisabled
      <4>2. MaySetEvent[curr] # {}
        BY <1>2, <1>10, <3>3 DEF Quiet, Running
      <4> QED BY <2>10, <3>2, <3>3, <4>1, <4>2 DEF EventsOutside
    <3>4. Orderly(m)
      BY <2>12, <3>3 DEF Orderly, OrderInv
    <3> HIDE DEF n
    <3> QED BY <1>1, <1>4, <3>1, <3>4, ServiceEnds DEF SetEventLocked, Inv
  <2> QED BY <2>9, <2>10
<1> QED BY <1>7, <1>8, <1>9

\* GetResource preserves the invariant.
LEMMA GetResourceOK ==
  ASSUME Inv, NEW r \in Resource, GetResource(r)
  PROVE  Inv' /\ Kept
<1> DEFINE s == Os_TaskResourceAdd(Sys, r, curr)
<1>1. KernelOK(s) /\ s.state = state /\ s.curr = curr
  BY ResourceAddOK, RunningType, SysFields DEF Inv
<1>2. SysBecomes(s)
  BY SMTT(30) DEF GetResource
<1>5. ASSUME NoInternal, OrderInv PROVE Ordered(s, intNestCnt)
  <2>1. /\ ~asserted /\ intNestCnt = 0
        /\ IF r = RES_SCHEDULER THEN owner[r] # curr
           ELSE owner[r] = NO_TASK_OWNER /\ activePriority[curr] <= ceiling(r)
    BY Zenon DEF GetResource, TaskMayCall, MayCall
  <2>2. /\ HoldOK(Sys) /\ CurrOK(Sys) /\ Ordered(Sys, 0) /\ KernelOK(Sys)
        /\ Sys.state[Sys.curr] = "RUNNING" /\ ~Sys.asserted
    BY <1>5, <2>1, NotAsserted, SysFields DEF Inv
  <2>3. owner[r] = NO_TASK_OWNER /\ activePriority[curr] <= ceiling(r)
    BY <2>1, <2>2, SchedulerFree, SysFields
  <2>4. s = Os_TaskResourceAdd(Sys, r, Sys.curr) /\ s.curr = Sys.curr
    BY <1>1, SysFields
  <2> HIDE DEF s
  <2>5. Ordered(s, 0)
    BY <1>5, <2>2, <2>3, <2>4, OrderAdd, SysFields
  <2> QED BY <2>1, <2>5
<1> HIDE DEF s
<1>3. state[curr] = IF intNestCnt = 0 THEN "RUNNING" ELSE "READY"
  BY DEF Inv
<1>4. Consistent(s)
  BY <1>1, <1>3 DEF Consistent
<1>6. Orderly(s)
  BY <1>5 DEF Orderly
<1> QED BY <1>2, <1>4, <1>6, ServiceEnds DEF GetResource, Inv

\* ReleaseResource preserves the invariant, dispatching or not.
LEMMA ReleaseResourceOK ==
  ASSUME Inv, NEW r \in Resource, ReleaseResource(r)
  PROVE  Inv' /\ Kept
<1> DEFINE s0 == Asserting(Sys, activePriority[curr] >= ceiling(r))
           s1 == Os_TaskResourceRemove(s0, r, curr)
           preempted == /\ scheduling[curr] = "FULL"
                        /\ s1.activePriority[Os_TaskGetTop(s1)] > s1.activePriority[curr]
           n == IF preempted THEN Os_Dispatch(s1, "RELEASE_RESOURCE", curr) ELSE s1
<1>1. SysBecomes(n)
  BY ZenonT(30) DEF ReleaseResource
<1>2. intNestCnt = 0 /\ curr \in Task /\ state[curr] = "RUNNING"
  BY RunningType DEF ReleaseResource, MayRelease, TaskMayCall, Inv
<1>7. ~asserted /\ resources[curr] # <<>> /\ r = TAILQ_LAST(resources[curr])
  BY DEF ReleaseResource, MayRelease, TaskMayCall, MayCall, Os_TaskOccupiesResources
<1>3. /\ KernelOK(s0) /\ s0.state = state /\ s0.curr = curr
      /\ Keeps(Sys, s0) /\ s0.ready = Sys.ready
  <2>1. KernelOK(s0) /\ s0.state = state /\ s0.curr = curr
    BY AssertingOK, SysFields DEF Inv
  <2>2. Keeps(Sys, s0) /\ s0.ready = Sys.ready
    BY InvConsistent, AssertingKeeps, Zenon
  <2> QED BY <2>1, <2>2
<1> HIDE DEF s0
<1>4. KernelOK(s1) /\ s1.state = state /\ s1.curr = curr
  BY <1>2, <1>3, ResourceRemoveOK
<1>8. ASSUME NoInternal, OrderInv PROVE HoldOK(s1) /\ CurrOK(s1)
  <2>1. HoldOK(s0) /\ CurrOK(s0)
    BY <1>3, <1>7, <1>8, NotAsserted, HoldSame, CurrSame, SysFields DEF Keeps
  <2>2. s0.resources[s0.curr] # <<>> /\ r = TAILQ_LAST(s0.resources[s0.curr])
    BY <1>3, <1>7, SysFields DEF Keeps, SameHeld
  <2>3. s1 = Os_TaskResourceRemove(s0, r, s0.curr)
    BY <1>3
  <2> HIDE DEF s1
  <2> QED BY <1>3, <1>8, <2>1, <2>2, <2>3, RemoveHold
<1> HIDE DEF s1
<1>9. Orderly(n)
  <2> SUFFICES ASSUME NoInternal, OrderInv PROVE Ordered(n, intNestCnt)
    BY DEF Orderly
  <2>1. CASE preempted
    <3>1. n = Os_Dispatch(s1, "RELEASE_RESOURCE", curr) /\ DispatchPre(s1, "RELEASE_RESOURCE")
      BY <1>2, <1>4, <2>1 DEF DispatchPre, Ops
    <3>2. "RELEASE_RESOURCE" \notin Leaving
      BY DEF Leaving
    <3> HIDE DEF n
    <3> QED BY <1>8, <3>1, <3>2, OrderDispatch
  <2>2. CASE ~preempted
    <3>1. n = s1
      BY <2>2
    <3>2. scheduling[curr] = "FULL" => TopOK(s1)
      <4> DEFINE top == Os_TaskGetTop(s1)
      <4>1. top \in Task /\ IsTop(s1, top)
        BY <1>4, GetTopIsTop
      <4>2. scheduling[curr] = "FULL" => ~(s1.activePriority[top] > s1.activePriority[curr])
        BY <2>2
      <4> HIDE DEF top
      <4>3. s1.activePriority[top] \in Nat /\ s1.activePriority[curr] \in Nat
        BY <1>2, <1>4, <4>1, HeldTypes
      <4> QED BY <1>4, <4>1, <4>2, <4>3, TopOfTop
    <3> HIDE DEF n, preempted
    <3> QED BY <1>4, <1>8, <3>1, <3>2 DEF Ordered
  <2> QED BY <2>1, <2>2
<1>5. DispatchPre(s1, "RELEASE_RESOURCE") /\ Consistent(s1)
  BY <1>2, <1>4 DEF DispatchPre, Ops, Consistent
<1> HIDE DEF preempted
<1>6. Consistent(n)
  BY <1>2, <1>5, DispatchConsistent
<1> HIDE DEF n
<1> QED BY <1>1, <1>6, <1>9, ServiceEnds, Zenon DEF ReleaseResource, Inv

\* Suspending and resuming interrupts changes no kernel data.
LEMMA SuspendResumeOK ==
  ASSUME Inv, SuspendOSInterrupts \/ ResumeOSInterrupts
  PROVE  Inv' /\ Kept
<1>1. Os_IntSuspendAllCnt \in 0 .. MaxSuspend /\ MaxSuspend \in Nat
  BY TaskAssumption DEF Inv
<1>2. Os_IntSuspendAllCnt' \in 0 .. MaxSuspend
  BY <1>1 DEF SuspendOSInterrupts, ResumeOSInterrupts, Os_SysIntAnyDisabled
<1> QED BY <1>2, ServiceIdles DEF SuspendOSInterrupts, ResumeOSInterrupts, Inv

\* An interrupt makes the task it interrupts READY; a nested one leaves it so.
LEMMA IsrEnterOK ==
  ASSUME Inv, IsrEnter
  PROVE  Inv' /\ Kept
<1> DEFINE y == Sys
           s == IF intNestCnt = 0 THEN [y EXCEPT !.state[curr] = "READY"] ELSE y
<1>1. intNestCnt \in 0 .. MaxNest /\ MaxNest \in Nat /\ curr \in Task
  BY TaskAssumption, RunningType DEF Inv
<1>2. intNestCnt' \in 0 .. MaxNest /\ intNestCnt' # 0
  BY <1>1 DEF IsrEnter
<1>3. /\ KernelOK(y) /\ y.state = state /\ y.curr = curr
      /\ state[curr] = IF intNestCnt = 0 THEN "RUNNING" ELSE "READY"
      /\ y = Sys /\ DOMAIN y = Fields
  BY SysFields, InvConsistent DEF Inv
<1>4. SysBecomes(s) /\ ~asserted
  BY DEF IsrEnter
<1> HIDE DEF y
<1>5. KernelOK(s) /\ s.state[s.curr] = "READY"
  <2>1. CASE intNestCnt = 0
    <3>1. KernelOK([y EXCEPT !.state[curr] = "READY"])
      BY <1>1, <1>3, <2>1, ReadyStateOK, Zenon
    <3>2. /\ [y EXCEPT !.state[curr] = "READY"].curr = curr
          /\ [y EXCEPT !.state[curr] = "READY"].state[curr] = "READY"
      BY <1>1, <1>3 DEF KernelOK, KernelTyped, Fields
    <3> QED BY <2>1, <3>1, <3>2
  <2>2. CASE intNestCnt # 0
    BY <1>3, <2>2
  <2> QED BY <2>1, <2>2
<1>7. Keeps(y, s) /\ s.ready = y.ready /\ s.curr = y.curr
  <2>1. CASE intNestCnt = 0
    BY <1>3, <2>1, StateKeeps
  <2>2. CASE intNestCnt # 0
    BY <1>3, <2>2 DEF Keeps, SameHeld
  <2> QED BY <2>1, <2>2
<1> HIDE DEF s
<1>6. KernelOK(Sys)' /\ state' = s.state /\ curr' = s.curr
  BY <1>4, <1>5, SysBecomesOK
<1>8. OrderInv => Ordered(s, intNestCnt')
  <2>1. OrderInv => Ordered(s, 1)
    BY <1>3, <1>4, <1>7, NotAsserted, OrderKeeps
  <2> QED BY <1>2, <2>1 DEF Ordered
<1>9. Kept
  BY <1>4, <1>5, <1>8, OrderEnds
<1> QED BY <1>2, <1>5, <1>6, <1>9 DEF IsrEnter, Inv

\* The last interrupt to end runs the interrupted task or the top one.
LEMMA IsrExitOK ==
  ASSUME Inv, IsrExit
  PROVE  Inv' /\ Kept
<1> DEFINE y == Sys
           top == Os_TaskGetTop(y)
           m == [y EXCEPT !.ctx[curr] = "middle"]
           s == IF intNestCnt > 1 THEN y
                ELSE IF top = curr \/ scheduling[curr] = "NON"
                THEN [y EXCEPT !.state[curr] = "RUNNING"]
                ELSE Os_TaskSwapContext(m, top)
<1>1. /\ intNestCnt \in 1 .. MaxNest /\ MaxNest \in Nat /\ MaxSuspend \in Nat
      /\ curr \in Task /\ state[curr] = "READY" /\ intNestCnt' = intNestCnt - 1
  BY TaskAssumption, RunningType DEF Inv, IsrExit
<1>2. KernelOK(y) /\ y.state = state /\ y.curr = curr /\ y = Sys /\ DOMAIN y = Fields
  BY SysFields, InvConsistent DEF Inv
<1>3. SysBecomes(s)
  BY Zenon DEF IsrExit
<1>9. ~asserted
  BY DEF IsrExit, MayCall
<1> HIDE DEF y
<1>4. top \in Task /\ state[top] \in {"READY", "RUNNING"} /\ IsTop(y, top)
  BY <1>2, GetTopOK
<1> HIDE DEF top
<1>5. KernelOK(s) /\ s.state[s.curr] = IF intNestCnt > 1 THEN "READY" ELSE "RUNNING"
  <2>1. CASE intNestCnt > 1
    BY <1>1, <1>2, <2>1
  <2>2. CASE ~(intNestCnt > 1) /\ (top = curr \/ scheduling[curr] = "NON")
    <3>1. KernelOK([y EXCEPT !.state[curr] = "RUNNING"])
      BY <1>1, <1>2, ReadyStateOK, Zenon
    <3>2. /\ [y EXCEPT !.state[curr] = "RUNNING"].curr = curr
          /\ [y EXCEPT !.state[curr] = "RUNNING"].state[curr] = "RUNNING"
      BY <1>1, <1>2 DEF KernelOK, KernelTyped, Fields
    <3> QED BY <2>2, <3>1, <3>2
  <2>3. CASE ~(intNestCnt > 1) /\ ~(top = curr \/ scheduling[curr] = "NON")
    <3>1. KernelOK(m) /\ m.state = state
      <4>1. KernelTyped(y)
        BY <1>2 DEF KernelOK
      <4>2. KernelTyped(m)
        BY <1>1, <4>1, ZenonT(30) DEF KernelTyped, Fields, Contexts
      <4>3. /\ m.state = y.state /\ m.ready = y.ready
            /\ m.ev_set = y.ev_set /\ m.ev_wait = y.ev_wait
        BY <4>1 DEF KernelTyped, Fields
      <4> QED BY <1>2, <4>2, <4>3 DEF KernelOK
    <3> HIDE DEF m
    <3>2. /\ KernelOK(Os_TaskSwapContext(m, top)) /\ Os_TaskSwapContext(m, top).curr = top
          /\ Os_TaskSwapContext(m, top).state[top] = "RUNNING"
      BY <1>4, <3>1, SwapContextOK
    <3>3. s = Os_TaskSwapContext(m, top)
      BY <2>3
    <3> QED BY <2>3, <3>2, <3>3
  <2> QED BY <2>1, <2>2, <2>3
<1>10. ASSUME NoInternal, OrderInv PROVE Ordered(s, intNestCnt - 1)
  <2>1. HoldOK(y) /\ CurrOK(y)
    BY <1>2, <1>9, <1>10, NotAsserted
  <2>2. CASE intNestCnt > 1
    <3>1. s = y /\ intNestCnt - 1 # 0
      BY <1>1, <2>2
    <3> HIDE DEF s
    <3> QED BY <2>1, <3>1 DEF Ordered
  <2>3. CASE ~(intNestCnt > 1) /\ (top = curr \/ scheduling[curr] = "NON")
    <3>1. s = [y EXCEPT !.state[curr] = "RUNNING"]
      BY <2>3
    <3> HIDE DEF s
    <3>2. Keeps(y, s) /\ s.ready = y.ready /\ s.curr = y.curr
      BY <1>2, <3>1, StateKeeps
    <3>3. top = curr => TopOK(y)
      <4>1. y.activePriority[curr] <= y.activePriority[curr]
        BY <1>1, <1>2, HeldTypes
      <4> QED BY <1>2, <1>4, <4>1, TopOfTop
    <3>4. HoldOK(s) /\ CurrOK(s) /\ (top = curr => TopOK(s))
      BY <2>1, <3>2, <3>3, HoldSame, CurrSame DEF Keeps
    <3> QED BY <1>2, <2>3, <3>2, <3>4 DEF Ordered
  <2>4. CASE ~(intNestCnt > 1) /\ ~(top = curr \/ scheduling[curr] = "NON")
    <3>1. s = Os_TaskSwapContext(m, top)
      BY <2>4
    <3>2. Keeps(y, m) /\ m.ready = y.ready
      BY <1>2 DEF Keeps, SameHeld, Fields
    <3> HIDE DEF m, s
    <3>3. Keeps(m, s) /\ s.ready = m.ready /\ s.curr = top
      BY <1>4, <1>10, <3>1, <3>2, SwapContextKeeps DEF Keeps
    <3>4. SameHeld(y, s) /\ s.ready = y.ready
      BY <3>2, <3>3, KeepsTrans DEF Keeps
    <3> QED BY <1>2, <1>4, <2>1, <3>3, <3>4, HoldTop DEF Ordered
  <2> QED BY <2>2, <2>3, <2>4
<1> HIDE DEF s
<1>11. Kept
  <2>1. OrderInv /\ NoInternal => Ordered(s, intNestCnt')
    BY <1>1, <1>10
  <2> QED BY <1>3, <1>5, <2>1, OrderEnds
<1>6. KernelOK(Sys)' /\ state' = s.state /\ curr' = s.curr
  BY <1>3, <1>5, SysBecomesOK
<1>7. state'[curr'] = IF intNestCnt' = 0 THEN "RUNNING" ELSE "READY"
  BY <1>1, <1>5, <1>6
<1>8. intNestCnt' \in 0 .. MaxNest /\ Os_IntSuspendAllCnt' \in 0 .. MaxSuspend
  BY <1>1 DEF IsrExit
<1> QED BY <1>6, <1>7, <1>8, <1>11 DEF IsrExit, Inv

\* The invariant is inductive.
LEMMA NextOK == Inv /\ [Next]_vars => Inv' /\ Kept
<1> SUFFICES ASSUME Inv, [Next]_vars PROVE Inv' /\ Kept
  OBVIOUS
<1>1. ASSUME NEW t \in Task, ActivateTask(t) \/ ChainTask(t) PROVE Inv' /\ Kept
  BY <1>1, ActivateTaskOK, ChainTaskOK
<1>2. CASE ActivateTaskLimit \/ TerminateTask \/ Os_TaskPost \/ Schedule
  BY <1>2, ActivateTaskLimitOK, TerminateTaskOK, TaskPostOK, ScheduleOK
<1>3. ASSUME NEW mask \in Masks, WaitEvent(mask) \/ ClearEvent(mask) PROVE Inv' /\ Kept
  BY <1>3, WaitEventOK, ClearEventOK DEF Masks
<1>4. ASSUME NEW t \in Task, NEW mask \in Masks, SetEvent(t, mask) PROVE Inv' /\ Kept
  BY <1>4, SetEventOK DEF Masks
<1>5. CASE SetEventLocked
  BY <1>5, SetEventLockedOK
<1>6. ASSUME NEW r \in Resource, GetResource(r) \/ ReleaseResource(r) PROVE Inv' /\ Kept
  BY <1>6, GetResourceOK, ReleaseResourceOK
<1>7. CASE SuspendOSInterrupts \/ ResumeOSInterrupts
  BY <1>7, SuspendResumeOK
<1>8. CASE IsrEnter \/ IsrExit
  BY <1>8, IsrEnterOK, IsrExitOK
<1>9. CASE UNCHANGED vars
  <2>1. /\ UNCHANGED sysVars /\ intNestCnt' = intNestCnt
        /\ Os_IntSuspendAllCnt' = Os_IntSuspendAllCnt /\ pend' = pend
    BY <1>9 DEF vars
  <2> QED BY <2>1, ServiceIdles DEF Inv
<1> QED BY <1>1, <1>2, <1>3, <1>4, <1>5, <1>6, <1>7, <1>8, <1>9 DEF Next

\* SetEventLocked and the decrement of ActivateTask, which run with interrupts suspended,
\* then leave the current task alone.
LEMMA StaysCurrent ==
  ASSUME Inv, Os_SysIntAnyDisabled \/ scheduling[curr] = "NON",
         SetEventLocked \/ ActivateTaskLimit
  PROVE  curr' = curr
<1>1. DOMAIN Sys = Fields /\ Sys.curr = curr
  BY InvConsistent, SysFields
<1>2. CASE ActivateTaskLimit
  <2> DEFINE p == pend[Running]
             n == [Sys EXCEPT !.activations[p.task] = (p.val + 255) % 256]
  <2>1. n.curr = curr
    BY <1>1 DEF Fields
  <2>2. CASE UNCHANGED sysVars
    BY <2>2 DEF sysVars
  <2>3. CASE SysBecomes(n)
    <3> HIDE DEF n
    <3> QED BY <2>1, <2>3 DEF SysBecomes
  <2> QED BY <1>2, <2>2, <2>3, Zenon DEF ActivateTaskLimit
<1>3. CASE SetEventLocked
  <2> DEFINE t == pend[Running].task
             mask == pend[Running].mask
             s0 == [Sys EXCEPT !.ev_set[t] = @ \cup mask]
             stays == mask \cap ev_wait[t] = {} \/ state[t] \in {"READY", "RUNNING"}
             m == Os_TaskMakeReady(s0, t)
             f == Asserting(s0, FALSE)
             n == IF stays THEN s0 ELSE IF state[t] = "SUSPENDED" THEN f ELSE m
  <2>1. SysBecomes(n)
    BY <1>3, ZenonT(30) DEF SetEventLocked
  <2>2. s0.curr = curr /\ DOMAIN s0 = Fields
    BY <1>1 DEF Fields
  <2> HIDE DEF s0
  <2>3. m.curr = curr /\ f.curr = curr
    BY <2>2, MakeReadyKeeps, AssertingKeeps, Zenon
  <2> HIDE DEF m, f, stays
  <2>4. n.curr = curr
    BY <2>2, <2>3
  <2> HIDE DEF n
  <2> QED BY <2>1, <2>4 DEF SysBecomes
<1> QED BY <1>2, <1>3

\* A non-preemptable task stays current when it activates a task, or an interrupt does.
LEMMA StaysActivating ==
  ASSUME Inv, scheduling[curr] = "NON", NEW t \in Task, ActivateTask(t)
  PROVE  curr' = curr
<1> DEFINE s0 == [Sys EXCEPT !.activations[t] = (@ + 1) % 256]
           z == Asserting(s0, s0.activations[t] = 1)
           clean == Os_Arc_SetCleanContext(z, t)
           m == Os_TaskMakeReady(clean, t)
           n == IF state[t] # "SUSPENDED" THEN s0 ELSE m
<1>1. DOMAIN Sys = Fields /\ Sys.curr = curr
  BY InvConsistent, SysFields
<1>2. SysBecomes(n)
  <2>1. scheduling[curr] # "FULL"
    OBVIOUS
  <2> QED BY <2>1, ZenonT(30) DEF ActivateTask
<1>3. s0.curr = curr /\ DOMAIN s0 = Fields
  BY <1>1 DEF Fields
<1> HIDE DEF s0
<1>4. z.curr = curr /\ DOMAIN z = Fields
  BY <1>3, AssertingKeeps, Zenon DEF Keeps
<1> HIDE DEF z
<1>5. clean.curr = curr /\ DOMAIN clean = Fields
  BY <1>4, CleanContextKeeps, Zenon DEF Keeps
<1> HIDE DEF clean
<1>6. m.curr = curr
  BY <1>5, MakeReadyKeeps, Zenon
<1> HIDE DEF m
<1>7. n.curr = curr
  BY <1>3, <1>6
<1> HIDE DEF n
<1> QED BY <1>2, <1>7 DEF SysBecomes

\* A non-preemptable task stays current when it takes or releases a resource, although
\* the release may leave it below a task that is ready.
LEMMA StaysHolding ==
  ASSUME Inv, scheduling[curr] = "NON", NEW r \in Resource, GetResource(r) \/ ReleaseResource(r)
  PROVE  curr' = curr
<1>1. KernelOK(Sys) /\ Sys.curr = curr /\ curr \in Task
  BY RunningType, SysFields DEF Inv
<1>2. CASE GetResource(r)
  <2> DEFINE n == Os_TaskResourceAdd(Sys, r, curr)
  <2>1. SysBecomes(n)
    BY <1>2, Zenon DEF GetResource
  <2>2. n.curr = curr
    BY <1>1, ResourceAddOK
  <2> HIDE DEF n
  <2> QED BY <2>1, <2>2 DEF SysBecomes
<1>3. CASE ReleaseResource(r)
  <2> DEFINE z == Asserting(Sys, activePriority[curr] >= ceiling(r))
             n == Os_TaskResourceRemove(z, r, curr)
  <2>1. SysBecomes(n)
    <3>1. scheduling[curr] # "FULL"
      OBVIOUS
    <3> QED BY <1>3, <3>1, ZenonT(30) DEF ReleaseResource
  <2>2. KernelOK(z) /\ z.curr = curr
    BY <1>1, AssertingOK
  <2> HIDE DEF z
  <2>3. n.curr = curr
    BY <1>1, <2>2, ResourceRemoveOK
  <2> HIDE DEF n
  <2> QED BY <2>1, <2>3 DEF SysBecomes
<1> QED BY <1>2, <1>3

\* A non-preemptable task is current again when the interrupts that preempt it are over.
LEMMA StaysInterrupted ==
  ASSUME Inv, scheduling[curr] = "NON", IsrEnter \/ IsrExit
  PROVE  curr' = curr
<1> DEFINE e == [Sys EXCEPT !.state[curr] = "READY"]
           x == [Sys EXCEPT !.state[curr] = "RUNNING"]
<1>1. SysBecomes(e) \/ SysBecomes(x) \/ SysBecomes(Sys)
  BY Zenon DEF IsrEnter, IsrExit
<1>2. DOMAIN Sys = Fields /\ Sys.curr = curr
  BY InvConsistent, SysFields
<1>3. e.curr = curr /\ x.curr = curr
  BY <1>2 DEF Fields
<1> HIDE DEF e, x
<1> QED BY <1>1, <1>2, <1>3 DEF SysBecomes

\* Who suspends interrupts and who sets events.
LEMMA QuietOK == Inv /\ Quiet /\ [Next]_vars => Quiet'
<1> SUFFICES ASSUME Inv, Quiet, [Next]_vars PROVE Quiet'
  OBVIOUS
<1>1. intNestCnt' = 0 /\ Os_IntSuspendAllCnt' # 0 => curr' \in MaySuspend
  <2> SUFFICES ASSUME intNestCnt' = 0, Os_IntSuspendAllCnt' # 0 PROVE curr' \in MaySuspend
    OBVIOUS
  <2>1. CASE IsrEnter
    BY <2>1, RunningType DEF IsrEnter
  <2>2. CASE SuspendOSInterrupts
    BY <2>2 DEF SuspendOSInterrupts, Caller, sysVars
  <2>3. CASE ResumeOSInterrupts
    BY <2>3 DEF ResumeOSInterrupts, Os_SysIntAnyDisabled, Quiet, sysVars
  <2>4. CASE SetEventLocked \/ ActivateTaskLimit
    <3>1. intNestCnt' = intNestCnt /\ Os_IntSuspendAllCnt' = Os_IntSuspendAllCnt
      BY <2>4, Zenon DEF SetEventLocked, ActivateTaskLimit
    <3>2. curr' = curr
      BY <2>4, <3>1, StaysCurrent DEF Os_SysIntAnyDisabled
    <3> QED BY <3>1, <3>2 DEF Quiet
  <2>5. ASSUME NEW t \in Task, NEW mask \in Masks, SetEvent(t, mask) PROVE curr' \in MaySuspend
    BY <2>5 DEF SetEvent, sysVars, Quiet
  <2>6. CASE Os_TaskPost \/ IsrExit
    BY <2>6 DEF Os_TaskPost, IsrExit
  <2>7. ASSUME NEW t \in Task, ActivateTask(t) \/ ChainTask(t) PROVE FALSE
    BY <2>7 DEF ActivateTask, ChainTask, TaskMayCall, Os_SysIntAnyDisabled
  <2>8. CASE TerminateTask \/ Schedule
    BY <2>8 DEF TerminateTask, Schedule, TaskMayCall, Os_SysIntAnyDisabled
  <2>9. ASSUME NEW mask \in Masks, WaitEvent(mask) \/ ClearEvent(mask) PROVE FALSE
    BY <2>9 DEF WaitEvent, ClearEvent, TaskMayCall, Os_SysIntAnyDisabled
  <2>10. ASSUME NEW r \in Resource, GetResource(r) \/ ReleaseResource(r) PROVE FALSE
    BY <2>10, Zenon DEF GetResource, ReleaseResource, MayRelease, TaskMayCall, Os_SysIntAnyDisabled
  <2>11. CASE UNCHANGED vars
    BY <2>11 DEF vars, sysVars, Quiet
  <2> QED BY <2>1, <2>2, <2>3, <2>4, <2>5, <2>6, <2>7, <2>8, <2>9, <2>10, <2>11 DEF Next
<1>2. ASSUME NEW u \in Task, pend'[u].op = "SetEvent" PROVE MaySetEvent[u] # {}
  <2>1. \/ pend' = pend
        \/ \E p : p.op # "SetEvent" /\ pend' = [pend EXCEPT ![Running] = p]
        \/ \E t, mask : /\ t \in MaySetEvent[Caller]
                        /\ pend' = [pend EXCEPT ![Running] =
                                      [op |-> "SetEvent", task |-> t, mask |-> mask]]
    BY Zenon DEF Next, vars, ActivateTask, ChainTask, ActivateTaskLimit, TerminateTask, Os_TaskPost,
           Schedule, WaitEvent, ClearEvent, SetEvent, SetEventLocked, GetResource,
           ReleaseResource, SuspendOSInterrupts, ResumeOSInterrupts, IsrEnter, IsrExit, NoPend
  <2>2. pend \in [Context -> Pending] /\ Running \in Context /\ u \in Context
    BY RunningType DEF Inv, Context
  <2>3. CASE u # Running \/ pend' = pend
    <3>1. pend'[u] = pend[u]
      BY <2>1, <2>2, <2>3
    <3> QED BY <1>2, <3>1 DEF Quiet
  <2>4. CASE u = Running /\ pend' # pend
    <3>1. u = Caller
      <4>1. intNestCnt \in 0 .. MaxNest /\ (1 .. MaxNest) \cap Task = {} /\ MaxNest \in Nat
        BY TaskAssumption DEF Inv
      <4>2. intNestCnt = 0
        BY <2>4, <4>1 DEF Running
      <4> QED BY <2>4, <4>2 DEF Running, Caller
    <3> QED BY <1>2, <2>1, <2>2, <2>4, <3>1
  <2> QED BY <2>3, <2>4
<1> QED BY <1>1, <1>2 DEF Quiet

\* The invariant holds in every reachable state of every configuration.
THEOREM Invariance == Spec => []Inv
<1>1. Init => Inv
  BY InitOK
<1>2. Inv /\ [Next]_vars => Inv'
  BY NextOK
<1> QED BY <1>1, <1>2, PTL DEF Spec

\* Without internal resources the order of the priorities holds in every reachable state.
THEOREM OrderInvariance == NoInternal => (Spec => [](Inv /\ Quiet /\ OrderInv))
<1> SUFFICES ASSUME NoInternal PROVE Spec => [](Inv /\ Quiet /\ OrderInv)
  OBVIOUS
<1> DEFINE I == Inv /\ Quiet /\ OrderInv
<1>1. Init => I
  BY InitOK
<1>2. I /\ [Next]_vars => I'
  <2> SUFFICES ASSUME I, [Next]_vars PROVE I'
    OBVIOUS
  <2>1. Inv' /\ Kept
    BY NextOK
  <2>2. Quiet'
    BY QuietOK
  <2> QED BY <2>1, <2>2 DEF Kept
<1> HIDE DEF I
<1>3. Spec => []I
  BY <1>1, <1>2, PTL DEF Spec
<1> QED BY <1>3 DEF I

\* The kernel's data have the types of OsTaskVarType, OsResourceType and Os_Sys, for
\* every configuration: in particular no activation count, priority or owner ever
\* leaves its range and currTaskPtr always names a configured task.
THEOREM TypeCorrect == Spec => []TypeOK
<1>1. Inv => TypeOK
  BY SysFields, Zenon DEF Inv, KernelOK, KernelTyped, Fields, Priority, TypeOK
<1> QED BY <1>1, Invariance, PTL

\* The ready queue and the task states agree, for every configuration and every
\* interleaving of services and interrupts: what Os_TaskGetTop relies on.
THEOREM ReadyQueueCorrect == Spec => []ReadyQueueOK
<1>1. Inv => ReadyQueueOK
  <2> SUFFICES ASSUME Inv PROVE ReadyQueueOK
    OBVIOUS
  <2>1. ready \in Seq(Task) /\ QueueOK(state, ready)
    BY SysFields, Zenon DEF Inv, KernelOK, KernelTyped, Fields
  <2>2. DOMAIN ready = 1 .. Len(ready)
    BY <2>1
  <2> QED BY <2>1, <2>2 DEF Inv, QueueOK, NoDuplicates, Linked, ReadyQueueOK
<1> QED BY <1>1, Invariance, PTL

\* No wakeup is lost, for every configuration: a task is in WAIT_EVENT only while
\* none of the events it waits for is set, although SetEvent looks at the task
\* before it locks and interrupts set events between any two services.
THEOREM WakeupCorrect == Spec => []NoLostWakeup
<1>1. Inv => NoLostWakeup
  BY SysFields DEF Inv, KernelOK, WakeupOK, NoLostWakeup
<1> QED BY <1>1, Invariance, PTL

\* The immediate priority ceiling protocol, for every configuration without internal
\* resources: until an ASSERT fails every task runs at the highest of its own priority and
\* the ceilings of what it holds, however often it nests and is preempted in between.
THEOREM CeilingCorrect == NoInternal => (Spec => []CeilingOK)
<1>1. Inv /\ OrderInv => CeilingOK
  <2> SUFFICES ASSUME Inv, OrderInv, ~asserted, NEW t \in Task
               PROVE  activePriority[t] =
                        Max({prio[t]} \cup {ceiling(r) : r \in {q \in Resource : owner[q] = t}})
    BY Zenon DEF CeilingOK
  <2> DEFINE held == resources[t]
             R == {q \in Resource : owner[q] = t}
             S == {prio[t]} \cup {ceiling(r) : r \in R}
             x == activePriority[t]
  <2>1. HoldOK(Sys) /\ KernelOK(Sys)
    BY NotAsserted, Zenon DEF Inv
  <2>2. /\ prio[t] <= x /\ (held = <<>> => x = prio[t])
        /\ \A r \in Resource : owner[r] = t => ceiling(r) <= x
    BY <2>1, HolderPriority, SysFields
  <2>3. /\ prio[t] \in Nat /\ x \in Nat /\ held \in Seq(Resource)
        /\ \A r \in Resource : ceiling(r) \in Nat
    BY <2>1, HeldTypes, SysFields, Zenon
  <2>4. held # <<>> => \E r \in R : x = ceiling(r)
    <3> SUFFICES ASSUME held # <<>> PROVE \E r \in R : x = ceiling(r)
      OBVIOUS
    <3> DEFINE r == held[Len(held)]
    <3>1. r \in Resource /\ Linked(held, r)
      BY <2>3 DEF Linked
    <3>2. x = ceiling(r)
      BY <2>1, SysFields, Zenon DEF HoldOK, Stacked, Stack
    <3>3. owner[r] = t
      BY <2>1, <3>1, SysFields, Zenon DEF HoldOK
    <3> QED BY <3>1, <3>2, <3>3
  <2>5. S \in SUBSET Nat /\ x \in S /\ \A y \in S : y <= x
    <3> HIDE DEF x, held
    <3> QED BY <2>2, <2>3, <2>4, Zenon
  <2> HIDE DEF S, x
  <2>6. Max(S) = x
    BY <2>5, MaxIs
  <2> QED BY <2>6 DEF S, x
<1> QED BY <1>1, OrderInvariance, PTL

\* No task is ever blocked on a resource, for every configuration without internal
\* resources: a running task finds what it may take free or its own, so that the
\* E_OS_ACCESS test of GetResource meets programming errors only.
THEOREM NeverBlockedCorrect == NoInternal => (Spec => []NeverBlocked)
<1>1. Inv /\ OrderInv => NeverBlocked
  <2> SUFFICES ASSUME Inv, OrderInv, ~asserted, NEW r \in resourceAccess[curr],
                      owner[r] \notin {NO_TASK_OWNER, curr}
               PROVE  FALSE
    BY DEF NeverBlocked
  <2>1. HoldOK(Sys) /\ CurrOK(Sys) /\ KernelOK(Sys) /\ curr \in Task /\ r \in Resource
    BY NotAsserted, RunningType, ResourceAssumption, Zenon DEF Inv
  <2>2. owner[r] \in Task \ {curr} /\ activePriority \in [Task -> Nat] /\ prio \in [Task -> Nat]
        /\ ceiling(r) \in Nat
    <3>1. /\ Sys.owner \in [Resource -> Task \cup {NO_TASK_OWNER}]
          /\ Sys.activePriority \in [Task -> Nat] /\ prio \in [Task -> Nat]
          /\ \A q \in Resource : ceiling(q) \in Nat
      BY <2>1, HeldTypes
    <3>2. ceiling(r) \in Nat
      BY <2>1, <3>1
    <3> QED BY <2>1, <3>1, <3>2, SysFields, Zenon
  <2>3. PICK t \in Task \ {curr} : owner[r] = t
    BY <2>2
  <2>4. ceiling(r) <= activePriority[t] /\ Linked(resources[t], r)
    BY <2>1, <2>3, HolderPriority, SysFields, Zenon DEF HoldOK
  <2>5. resources[t] # <<>>
    BY <2>4 DEF Linked
  <2>6. activePriority[t] < prio[curr]
    BY <2>1, <2>5, SysFields, Zenon DEF CurrOK
  <2>7. prio[curr] <= ceiling(r)
    BY <2>1, CeilingBound, Zenon
  <2> QED BY <2>1, <2>2, <2>4, <2>6, <2>7
<1> QED BY <1>1, OrderInvariance, PTL

\* The dispatcher is right, for every configuration without internal resources in which
\* no task sets events with interrupts suspended: whenever a preemptable task runs at
\* task level it is the first of the ready tasks with the highest active priority.
THEOREM HighestPriorityCorrect ==
  NoInternal /\ EventsOutside => (Spec => []HighestPriorityRuns)
<1> SUFFICES ASSUME NoInternal, EventsOutside PROVE Spec => []HighestPriorityRuns
  OBVIOUS
<1>1. Inv /\ OrderInv => HighestPriorityRuns
  <2> SUFFICES ASSUME Inv, OrderInv, ~asserted, intNestCnt = 0, scheduling[curr] = "FULL"
               PROVE  IsTop(Sys, curr)
    BY DEF HighestPriorityRuns
  <2>1. /\ CurrOK(Sys) /\ TopOK(Sys) /\ KernelOK(Sys) /\ state[curr] = "RUNNING"
        /\ Sys.ready \in Seq(Task) /\ curr \in Task /\ Sys.curr = curr /\ Sys.state = state
    BY NotAsserted, RunningType, HeldTypes, SysFields, Zenon DEF Inv
  <2>2. PICK i \in 1 .. Len(Sys.ready) : Sys.ready[i] = curr
    BY <2>1, Zenon DEF KernelOK, QueueOK, Linked
  <2>3. \A j \in 1 .. Len(Sys.ready) :
          /\ Sys.activePriority[Sys.ready[j]] <= Sys.activePriority[curr]
          /\ j < i => Sys.activePriority[Sys.ready[j]] < Sys.activePriority[curr]
    BY <2>1, <2>2, SMTT(30) DEF CurrOK, TopOK, Ahead, Linked
  <2>4. DOMAIN Sys.ready = 1 .. Len(Sys.ready)
    BY <2>1
  <2> QED BY <2>2, <2>3, <2>4 DEF IsTop
<1> QED BY <1>1, OrderInvariance, PTL

\* A non-preemptable task keeps the processor, for every configuration and every
\* interleaving of services and interrupts: it loses it only by ending, by waiting for an
\* event or by calling Schedule.
THEOREM NonPreemptableCorrect == Spec => NonPreemptable
<1>1. Inv /\ [Next]_vars =>
        [scheduling[curr] = "NON" /\ curr' # curr =>
           ctx'[curr] = "ended" \/ state'[curr] = "WAIT_EVENT" \/ Schedule]_vars
  <2> SUFFICES ASSUME Inv, Next, scheduling[curr] = "NON", ~Schedule PROVE GivesUp
    BY DEF GivesUp
  <2>1. ASSUME NEW t \in Task, ActivateTask(t) \/ ChainTask(t) PROVE GivesUp
    BY <2>1, StaysActivating, ChainTaskOK DEF GivesUp
  <2>2. CASE ActivateTaskLimit \/ SetEventLocked
    BY <2>2, StaysCurrent DEF GivesUp
  <2>3. CASE TerminateTask \/ Os_TaskPost
    BY <2>3, TerminateTaskOK, TaskPostOK
  <2>4. ASSUME NEW mask \in Masks, WaitEvent(mask) \/ ClearEvent(mask) PROVE GivesUp
    <3>1. mask \in SUBSET Event
      BY DEF Masks
    <3>2. CASE WaitEvent(mask)
      BY <3>1, <3>2, WaitEventOK
    <3>3. CASE ClearEvent(mask)
      <4> DEFINE n == [Sys EXCEPT !.ev_set[curr] = @ \ mask]
      <4>1. SysBecomes(n)
        BY <3>3, Zenon DEF ClearEvent
      <4>2. n.curr = curr
        BY InvConsistent, SysFields DEF Fields
      <4> HIDE DEF n
      <4> QED BY <4>1, <4>2 DEF SysBecomes, GivesUp
    <3> QED BY <2>4, <3>2, <3>3
  <2>5. ASSUME NEW t \in Task, NEW mask \in Masks, SetEvent(t, mask) PROVE GivesUp
    BY <2>5 DEF SetEvent, sysVars, GivesUp
  <2>6. ASSUME NEW r \in Resource, GetResource(r) \/ ReleaseResource(r) PROVE GivesUp
    BY <2>6, StaysHolding DEF GivesUp
  <2>7. CASE SuspendOSInterrupts \/ ResumeOSInterrupts
    BY <2>7, Zenon DEF SuspendOSInterrupts, ResumeOSInterrupts, sysVars, GivesUp
  <2>8. CASE IsrEnter \/ IsrExit
    BY <2>8, StaysInterrupted DEF GivesUp
  <2> QED BY <2>1, <2>2, <2>3, <2>4, <2>5, <2>6, <2>7, <2>8, Zenon DEF Next
<1> QED BY <1>1, Invariance, PTL DEF Spec, NonPreemptable
=============================================================================
