--------------------------- MODULE OsKernelLemmas ---------------------------
(***************************************************************************)
(* The data of the kernel: what the list operations behind the ready queue *)
(* do to a queue without duplicates, for queues of any length; what makes  *)
(* a kernel record consistent (its types, the ready queue in step with the *)
(* task states, no waiting task with a set event it waits for); for        *)
(* applications without internal resources, how the ceiling protocol and   *)
(* the order of the ready queue keep the current task above everything     *)
(* that could block it; and the functions of the kernel, from              *)
(* Os_TaskMakeReady to Os_Dispatch, which keep the record consistent.      *)
(***************************************************************************)
EXTENDS OsKernel, TLAPS, WellFoundedInduction, FiniteSetTheorems

NoDuplicates(q) == \A i, j \in 1 .. Len(q) : q[i] = q[j] => i = j
-----------------------------------------------------------------------------
(* Naturals                                                                  *)

\* A non-empty set of naturals has a least element.
LEMMA LeastNatural ==
  ASSUME NEW S \in SUBSET Nat, S # {}
  PROVE  \E x \in S : \A y \in S : x <= y
<1>1. PICK x \in S : \A y \in S : ~ (<<y, x>> \in OpToRel(<, Nat))
  BY WFMin, NatLessThanWellFounded, Zenon
<1>2. \A y \in S : ~ (y < x)
  BY <1>1, Zenon DEF OpToRel
<1> QED BY <1>2

\* A bounded non-empty set of naturals has a greatest element.
LEMMA GreatestNatural ==
  ASSUME NEW S \in SUBSET Nat, S # {}, NEW b \in Nat, \A x \in S : x <= b
  PROVE  \E x \in S : \A y \in S : y <= x
<1> DEFINE D == {d \in Nat : b - d \in S}
<1>1. PICK z \in S : TRUE
  BY Zenon
<1>2. b - z \in D
  OBVIOUS
<1>3. PICK d \in D : \A e \in D : d <= e
  BY <1>2, LeastNatural, Zenon
<1>4. \A y \in S : b - y \in D
  OBVIOUS
<1>5. \A y \in S : y <= b - d
  <2> SUFFICES ASSUME NEW y \in S PROVE y <= b - d
    OBVIOUS
  <2>1. d <= b - y
    BY <1>3, <1>4, Zenon
  <2>2. d \in Nat /\ y \in Nat
    OBVIOUS
  <2> HIDE DEF D
  <2> QED BY <2>1, <2>2
<1> QED BY <1>5

\* The count is an unsigned byte: incremented and decremented modulo 256.
LEMMA ByteType ==
  ASSUME NEW a \in 0 .. 255
  PROVE  (a + 255) % 256 \in 0 .. 255 /\ (a + 1) % 256 \in 0 .. 255
OBVIOUS

-----------------------------------------------------------------------------
(* Queues                                                                    *)

\* Os_ReadyQEnqueue puts a task that is not in the queue at its end.
LEMMA EnqueueLemma ==
  ASSUME NEW S, NEW q \in Seq(S), NEW t \in S, NoDuplicates(q), ~Linked(q, t)
  PROVE  /\ Append(q, t) \in Seq(S)
         /\ NoDuplicates(Append(q, t))
         /\ \A u \in S : Linked(Append(q, t), u) <=> Linked(q, u) \/ u = t
BY DEF NoDuplicates, Linked

\* TAILQ_REMOVE closes the gap that the element leaves.
LEMMA RemoveLemma ==
  ASSUME NEW S, NEW q \in Seq(S), NEW t, Linked(q, t)
  PROVE  \E k \in 1 .. Len(q) :
           /\ q[k] = t
           /\ TAILQ_REMOVE(q, t) \in Seq(S)
           /\ Len(TAILQ_REMOVE(q, t)) = Len(q) - 1
           /\ \A j \in 1 .. Len(q) - 1 :
                TAILQ_REMOVE(q, t)[j] = IF j < k THEN q[j] ELSE q[j + 1]
<1> DEFINE k == CHOOSE i \in 1 .. Len(q) : q[i] = t
           p == [j \in 1 .. Len(q) - 1 |-> IF j < k THEN q[j] ELSE q[j + 1]]
<1>1. k \in 1 .. Len(q) /\ q[k] = t
  BY DEF Linked
<1>2. TAILQ_REMOVE(q, t) = p
  BY DEF TAILQ_REMOVE
<1> HIDE DEF k
<1>3. p \in Seq(S) /\ Len(p) = Len(q) - 1
  BY <1>1
<1> QED BY <1>1, <1>2, <1>3

\* TAILQ_REMOVE leaves a list of the same elements' type.
LEMMA RemoveType ==
  ASSUME NEW S, NEW q \in Seq(S), NEW t
  PROVE  TAILQ_REMOVE(q, t) \in Seq(S)
<1>1. CASE Linked(q, t)
  BY <1>1, RemoveLemma
<1>2. CASE ~Linked(q, t)
  BY <1>2 DEF TAILQ_REMOVE
<1> QED BY <1>1, <1>2

\* Os_ReadyQRemove takes out that task and no other.
LEMMA DequeueLemma ==
  ASSUME NEW S, NEW q \in Seq(S), NEW t \in S, NoDuplicates(q)
  PROVE  /\ TAILQ_REMOVE(q, t) \in Seq(S)
         /\ NoDuplicates(TAILQ_REMOVE(q, t))
         /\ \A u \in S : Linked(TAILQ_REMOVE(q, t), u) <=> Linked(q, u) /\ u # t
<1>1. CASE Linked(q, t)
  <2> DEFINE p == TAILQ_REMOVE(q, t)
  <2>1. PICK i \in 1 .. Len(q) :
          /\ q[i] = t /\ p \in Seq(S) /\ Len(p) = Len(q) - 1
          /\ \A j \in 1 .. Len(q) - 1 : p[j] = IF j < i THEN q[j] ELSE q[j + 1]
    BY <1>1, RemoveLemma
  <2> HIDE DEF p
  <2>3. NoDuplicates(p)
    BY <2>1 DEF NoDuplicates
  <2>4. ASSUME NEW u \in S, Linked(p, u) PROVE Linked(q, u) /\ u # t
    BY <2>1, <2>4 DEF NoDuplicates, Linked
  <2>5. ASSUME NEW u \in S, Linked(q, u), u # t PROVE Linked(p, u)
    <3>1. PICK k \in 1 .. Len(q) : q[k] = u
      BY <2>5 DEF Linked
    <3>2. CASE k < i
      BY <3>1, <3>2, <2>1 DEF Linked
    <3>3. CASE k > i
      <4>1. k - 1 \in 1 .. Len(p) /\ p[k - 1] = u
        BY <3>1, <3>3, <2>1
      <4> QED BY <4>1 DEF Linked
    <3> QED BY <3>1, <3>2, <3>3, <2>1, <2>5
  <2> QED BY <2>1, <2>3, <2>4, <2>5 DEF p
<1>2. CASE ~Linked(q, t)
  <2>1. TAILQ_REMOVE(q, t) = q
    BY <1>2 DEF TAILQ_REMOVE
  <2> QED BY <2>1, <1>2
<1> QED BY <1>1, <1>2

\* A part of a finite set is finite.
LEMMA FiniteSubset ==
  ASSUME NEW S, IsFiniteSet(S), NEW T \in SUBSET S
  PROVE  IsFiniteSet(T)
BY FS_Subset

\* A queue made by an injection of as many places as there are members has them all.
LEMMA FullQueue ==
  ASSUME NEW S, IsFiniteSet(S), NEW q \in [1 .. Cardinality(S) -> S],
         \A i, j \in DOMAIN q : q[i] = q[j] => i = j
  PROVE  /\ q \in Seq(S) /\ NoDuplicates(q)
         /\ \A t \in S : Linked(q, t)
<1> DEFINE N == Cardinality(S)
<1>1. N \in Nat
  BY FS_CardinalityType
<1>2. IsFiniteSet(1 .. N) /\ Cardinality(1 .. N) = N
  <2> HIDE DEF N
  <2> QED BY <1>1, FS_Interval
<1>3. q \in Injection(1 .. N, S)
  BY DEF Injection, IsInjective
<1>4. q \in Surjection(1 .. N, S)
  BY <1>2, <1>3, FS_Injection
<1>5. \A t \in S : \E i \in 1 .. N : q[i] = t
  BY <1>4 DEF Surjection
<1>6. q \in [1 .. N -> S] /\ \A i, j \in 1 .. N : q[i] = q[j] => i = j
  OBVIOUS
<1> HIDE DEF N
<1>7. q \in Seq(S) /\ Len(q) = N
  BY <1>1, <1>6
<1> QED BY <1>5, <1>6, <1>7 DEF NoDuplicates, Linked
-----------------------------------------------------------------------------
(* The kernel record                                                         *)

Priority == 0 .. OS_RES_SCHEDULER_PRIO

\* The type of a kernel record.
Fields == {"state", "activePriority", "activations", "reactivation", "ev_set", "ev_wait",
           "resources", "ctx", "owner", "old_task_prio", "ready", "curr", "asserted"}
KernelTyped(s) ==
  /\ DOMAIN s = Fields
  /\ s.state \in [Task -> States] /\ s.activePriority \in [Task -> Priority]
  /\ s.activations \in [Task -> 0 .. 255] /\ s.reactivation \in [Task -> BOOLEAN]
  /\ s.ev_set \in [Task -> SUBSET Event] /\ s.ev_wait \in [Task -> SUBSET Event]
  /\ s.resources \in [Task -> Seq(Resource)] /\ s.ctx \in [Task -> Contexts]
  /\ s.owner \in [Resource -> Task \cup {NO_TASK_OWNER}]
  /\ s.old_task_prio \in [Resource -> Priority]
  /\ s.ready \in Seq(Task) /\ s.curr \in Task /\ s.asserted \in BOOLEAN

\* The ready queue holds the READY and RUNNING tasks once each, the idle task always.
QueueOK(st, q) ==
  /\ NoDuplicates(q)
  /\ \A t \in Task : st[t] \in {"READY", "RUNNING"} <=> Linked(q, t)
  /\ st[OsIdle] \in {"READY", "RUNNING"}

WakeupOK(st, set, wait) ==
  \A t \in Task : st[t] = "WAIT_EVENT" => set[t] \cap wait[t] = {}

\* What every function of the kernel preserves.
KernelOK(s) ==
  /\ KernelTyped(s)
  /\ QueueOK(s.state, s.ready)
  /\ WakeupOK(s.state, s.ev_set, s.ev_wait)

-----------------------------------------------------------------------------
\* Os_ResourceInit gives every resource a ceiling in the range of priorities.
LEMMA CeilingType ==
  ASSUME NEW r \in Resource
  PROVE  ceiling(r) \in Priority
<1> DEFINE S == {prio[t] : t \in {u \in Task : r \in resourceAccess[u]}} \cup {0}
<1>1. S \in SUBSET Nat /\ S # {} /\ \A x \in S : x <= OS_RES_SCHEDULER_PRIO
  BY TaskAssumption, ResourceAssumption
<1>2. \E x \in S : \A y \in S : x >= y
  BY <1>1, ResourceAssumption, GreatestNatural, Zenon
<1>3. Max(S) \in S
  BY <1>2 DEF Max
<1>4. Max(S) \in Priority
  BY <1>1, <1>3, ResourceAssumption DEF Priority
<1>5. OS_RES_SCHEDULER_PRIO \in Priority
  BY ResourceAssumption DEF Priority
<1> QED BY <1>4, <1>5 DEF ceiling

\* The ceiling of a resource is at or above every task that may take it.
LEMMA CeilingBound ==
  ASSUME NEW t \in Task, NEW r \in resourceAccess[t]
  PROVE  prio[t] <= ceiling(r)
<1> DEFINE S == {prio[u] : u \in {v \in Task : r \in resourceAccess[v]}} \cup {0}
<1>1. S \in SUBSET Nat /\ S # {} /\ \A x \in S : x <= OS_RES_SCHEDULER_PRIO
  BY TaskAssumption, ResourceAssumption
<1>2. \E x \in S : \A y \in S : x >= y
  BY <1>1, ResourceAssumption, GreatestNatural, Zenon
<1>3. Max(S) \in S /\ \A y \in S : Max(S) >= y
  BY <1>2 DEF Max
<1>4. prio[t] \in S /\ prio[t] \in Nat /\ prio[t] < OS_RES_SCHEDULER_PRIO
  BY TaskAssumption, ResourceAssumption
<1>5. ceiling(r) = IF r = RES_SCHEDULER THEN OS_RES_SCHEDULER_PRIO ELSE Max(S)
  BY DEF ceiling
<1> HIDE DEF S
<1> QED BY <1>1, <1>3, <1>4, <1>5, ResourceAssumption

\* The maximum of a set of naturals is the element above the others.
LEMMA MaxIs ==
  ASSUME NEW S \in SUBSET Nat, NEW x \in S, \A y \in S : y <= x
  PROVE  Max(S) = x
<1>1. Max(S) \in S /\ \A y \in S : Max(S) >= y
  BY Zenon DEF Max
<1>2. Max(S) >= x /\ Max(S) <= x /\ Max(S) \in Nat /\ x \in Nat
  BY <1>1, Zenon
<1> QED BY <1>2


\* The idle task is one of the tasks.
LEMMA IdleInTask == OsIdle \in Task
BY TaskAssumption

\* What the type of a kernel record says of the fields used most.
LEMMA RecordType ==
  ASSUME NEW s, KernelOK(s)
  PROVE  /\ KernelTyped(s)
         /\ s.state \in [Task -> States] /\ s.ready \in Seq(Task) /\ s.curr \in Task
         /\ s.ev_set \in [Task -> SUBSET Event] /\ s.ev_wait \in [Task -> SUBSET Event]
BY DEF KernelOK, KernelTyped, Fields

\* A change of anything but the states, the queue and the events preserves KernelOK.
LEMMA Unaffected ==
  ASSUME NEW s, KernelOK(s), NEW n, KernelTyped(n),
         n.state = s.state, n.ready = s.ready, n.ev_set = s.ev_set, n.ev_wait = s.ev_wait
  PROVE  KernelOK(n)
BY DEF KernelOK

\* A failed ASSERT changes nothing else.
LEMMA AssertingOK ==
  ASSUME NEW s, KernelOK(s), NEW c
  PROVE  /\ KernelOK(Asserting(s, c))
         /\ Asserting(s, c).state = s.state
         /\ Asserting(s, c).curr = s.curr
         /\ Asserting(s, c).ready = s.ready
<1> DEFINE b == (s.asserted \/ ~c)
<1>1. b \in BOOLEAN
  BY Zenon
<1> HIDE DEF b
<1> DEFINE n == [s EXCEPT !.asserted = b]
<1>2. KernelTyped(s)
  BY RecordType
<1>3. KernelTyped(n)
  BY <1>1, <1>2 DEF KernelTyped, Fields
<1>4. /\ n.state = s.state /\ n.curr = s.curr /\ n.ready = s.ready
      /\ n.ev_set = s.ev_set /\ n.ev_wait = s.ev_wait
  BY <1>2 DEF KernelTyped, Fields
<1>5. Asserting(s, c) = n
  BY Zenon DEF Asserting, b
<1> HIDE DEF n
<1> QED BY <1>3, <1>4, <1>5, Unaffected

-----------------------------------------------------------------------------
(* Priorities, for applications without internal resources                   *)

NoInternal == Internal = {}

Ahead(q, u, t) == \E i, j \in 1 .. Len(q) : i < j /\ q[i] = u /\ q[j] = t

\* What a task holds is a stack: each resource saved the priority the task had before, and
\* the ceilings never fall towards the resource taken last, which gives the task its priority.
Stack(held, p, old, own) ==
  /\ NoDuplicates(held)
  /\ p = IF held = <<>> THEN own ELSE ceiling(held[Len(held)])
  /\ \A i \in 1 .. Len(held) :
       /\ own <= ceiling(held[i])
       /\ old[held[i]] = IF i = 1 THEN own ELSE ceiling(held[i - 1])
  /\ \A i, j \in 1 .. Len(held) : i <= j => ceiling(held[i]) <= ceiling(held[j])

Stacked(s, t) == Stack(s.resources[t], s.activePriority[t], s.old_task_prio, prio[t])

\* A task that holds resources stays in the ready queue, behind tasks that are below its own
\* priority only; and of two such tasks one has preempted the other above its ceilings.
HolderOK(s, t) ==
  /\ Linked(s.ready, t)
  /\ \A u \in Task : Ahead(s.ready, u, t) => s.activePriority[u] < prio[t]
  /\ \A u \in Task \ {t} : s.resources[u] # <<>> =>
       s.activePriority[t] < prio[u] \/ s.activePriority[u] < prio[t]

HoldOK(s) ==
  /\ \A t \in Task : Stacked(s, t)
  /\ \A t \in Task, r \in Resource : s.owner[r] = t <=> Linked(s.resources[t], r)
  /\ \A t \in Task : s.resources[t] # <<>> => HolderOK(s, t)

\* The current task is above all tasks ahead of it in the queue, and its own priority is
\* above that of every other task with resources.
CurrOK(s) ==
  /\ \A u \in Task : Ahead(s.ready, u, s.curr) => s.activePriority[u] < s.activePriority[s.curr]
  /\ \A t \in Task \ {s.curr} : s.resources[t] # <<>> => s.activePriority[t] < prio[s.curr]

TopOK(s) == \A u \in Task : Linked(s.ready, u) => s.activePriority[u] <= s.activePriority[s.curr]

SameHeld(s, n) ==
  /\ n.activePriority = s.activePriority /\ n.owner = s.owner
  /\ n.old_task_prio = s.old_task_prio /\ n.resources = s.resources

\* Nothing but the priorities, the resources and the order of the queue matters.
LEMMA HoldSame ==
  ASSUME NEW s, HoldOK(s), NEW n, SameHeld(s, n), n.ready = s.ready
  PROVE  HoldOK(n)
BY DEF HoldOK, Stacked, HolderOK, SameHeld

\* Nothing but these and the current task matters to CurrOK and TopOK.
LEMMA CurrSame ==
  ASSUME NEW s, NEW n, SameHeld(s, n), n.ready = s.ready, n.curr = s.curr
  PROVE  (CurrOK(s) => CurrOK(n)) /\ (TopOK(s) => TopOK(n))
BY DEF CurrOK, TopOK, SameHeld

\* What the types say of the fields used here.
LEMMA HeldTypes ==
  ASSUME NEW s, KernelOK(s)
  PROVE  /\ s.ready \in Seq(Task) /\ NoDuplicates(s.ready) /\ s.curr \in Task
         /\ s.activePriority \in [Task -> Nat] /\ s.old_task_prio \in [Resource -> Nat]
         /\ s.resources \in [Task -> Seq(Resource)]
         /\ s.owner \in [Resource -> Task \cup {NO_TASK_OWNER}]
         /\ prio \in [Task -> Nat] /\ \A r \in Resource : ceiling(r) \in Nat
<1>1. \A x \in Priority : x \in Nat
  BY ResourceAssumption DEF Priority
<1>2. \A r \in Resource : ceiling(r) \in Nat
  BY <1>1, CeilingType
<1> QED BY <1>1, <1>2, TaskAssumption DEF KernelOK, KernelTyped, QueueOK, Fields

\* A task with resources has at least its own priority.
LEMMA HolderPriority ==
  ASSUME NEW s, KernelOK(s), HoldOK(s), NEW t \in Task
  PROVE  /\ prio[t] <= s.activePriority[t]
         /\ s.resources[t] = <<>> => s.activePriority[t] = prio[t]
         /\ \A r \in Resource : s.owner[r] = t => ceiling(r) <= s.activePriority[t]
<1> DEFINE held == s.resources[t]
<1>1. held \in Seq(Resource) /\ prio[t] \in Nat /\ \A r \in Resource : ceiling(r) \in Nat
  BY HeldTypes
<1>2. Stacked(s, t) /\ \A r \in Resource : s.owner[r] = t => Linked(held, r)
  BY DEF HoldOK
<1>3. CASE held = <<>>
  BY <1>1, <1>2, <1>3 DEF Stacked, Stack, Linked
<1>4. CASE held # <<>>
  <2>1. Len(held) \in 1 .. Len(held)
    BY <1>1, <1>4
  <2>2. s.activePriority[t] = ceiling(held[Len(held)]) /\ prio[t] <= ceiling(held[Len(held)])
    BY <1>2, <1>4, <2>1 DEF Stacked, Stack
  <2>3. ASSUME NEW r \in Resource, s.owner[r] = t PROVE ceiling(r) <= ceiling(held[Len(held)])
    <3>1. PICK i \in 1 .. Len(held) : held[i] = r
      BY <1>2, <2>3 DEF Linked
    <3>2. i <= Len(held)
      BY <1>1, <3>1
    <3> QED BY <1>2, <2>1, <3>1, <3>2 DEF Stacked, Stack
  <2> QED BY <1>4, <2>2, <2>3
<1> QED BY <1>3, <1>4

\* The order of a queue that grows at its end, or that an element leaves.
LEMMA AheadAppend ==
  ASSUME NEW S, NEW q \in Seq(S), NEW x \in S, NEW u, NEW t, t # x, Ahead(Append(q, x), u, t)
  PROVE  Ahead(q, u, t)
<1> DEFINE p == Append(q, x)
<1>1. Len(p) = Len(q) + 1 /\ p[Len(q) + 1] = x /\ \A i \in 1 .. Len(q) : p[i] = q[i]
  OBVIOUS
<1>2. PICK i \in 1 .. Len(p), j \in 1 .. Len(p) : i < j /\ p[i] = u /\ p[j] = t
  BY DEF Ahead
<1> HIDE DEF p
<1>3. Len(q) \in Nat
  OBVIOUS
<1>4. j \in 1 .. Len(q) /\ i \in 1 .. Len(q)
  BY <1>1, <1>2, <1>3
<1> QED BY <1>1, <1>2, <1>4 DEF Ahead

\* What is ahead of a task after TAILQ_REMOVE was ahead of it before.
LEMMA AheadRemove ==
  ASSUME NEW S, NEW q \in Seq(S), NEW x, NEW u, NEW t, Ahead(TAILQ_REMOVE(q, x), u, t)
  PROVE  Ahead(q, u, t)
<1>1. CASE Linked(q, x)
  <2> DEFINE p == TAILQ_REMOVE(q, x)
  <2>1. PICK k \in 1 .. Len(q) :
          /\ Len(p) = Len(q) - 1
          /\ \A j \in 1 .. Len(q) - 1 : p[j] = IF j < k THEN q[j] ELSE q[j + 1]
    BY <1>1, RemoveLemma
  <2>2. PICK i \in 1 .. Len(p), j \in 1 .. Len(p) : i < j /\ p[i] = u /\ p[j] = t
    BY DEF Ahead
  <2> HIDE DEF p
  <2> DEFINE a == IF i < k THEN i ELSE i + 1
             b == IF j < k THEN j ELSE j + 1
  <2>3. Len(q) \in Nat
    OBVIOUS
  <2>4. a \in 1 .. Len(q) /\ b \in 1 .. Len(q) /\ a < b
    BY <2>1, <2>2, <2>3
  <2>5. q[a] = u /\ q[b] = t
    BY <2>1, <2>2, Zenon
  <2> HIDE DEF a, b
  <2> QED BY <2>4, <2>5 DEF Ahead
<1>2. CASE ~Linked(q, x)
  BY <1>2 DEF TAILQ_REMOVE
<1> QED BY <1>1, <1>2

\* The stack of a task depends on the priorities and the resources only.
LEMMA StackedSame ==
  ASSUME NEW s, NEW n, SameHeld(s, n), NEW t, Stacked(s, t)
  PROVE  Stacked(n, t)
BY Zenon DEF Stacked, SameHeld

\* A task that becomes ready goes behind all others.
LEMMA HoldReady ==
  ASSUME NEW s, KernelOK(s), HoldOK(s), NEW t \in Task, ~Linked(s.ready, t),
         NEW n, SameHeld(s, n), n.ready = Append(s.ready, t)
  PROVE  HoldOK(n)
<1>1. /\ s.ready \in Seq(Task) /\ NoDuplicates(s.ready)
      /\ \A u \in Task : Linked(n.ready, u) <=> Linked(s.ready, u) \/ u = t
  BY HeldTypes, EnqueueLemma
<1>2. \A u \in Task : Stacked(n, u)
  BY StackedSame DEF HoldOK
<1>3. ASSUME NEW u \in Task, n.resources[u] # <<>> PROVE HolderOK(n, u)
  <2>1. HolderOK(s, u)
    BY <1>3 DEF HoldOK, SameHeld
  <2>2. Linked(s.ready, u) /\ u # t
    BY <2>1 DEF HolderOK
  <2>3. \A v \in Task : Ahead(n.ready, v, u) => Ahead(s.ready, v, u)
    BY <1>1, <2>2, AheadAppend
  <2> QED BY <1>1, <2>1, <2>2, <2>3 DEF HolderOK, SameHeld
<1> QED BY <1>2, <1>3 DEF HoldOK, SameHeld

\* A task that becomes ready behind the others disturbs nothing the current task is above.
LEMMA CurrReady ==
  ASSUME NEW s, KernelOK(s), CurrOK(s), NEW t \in Task, t # s.curr,
         NEW n, SameHeld(s, n), n.ready = Append(s.ready, t), n.curr = s.curr
  PROVE  CurrOK(n)
<1>1. s.ready \in Seq(Task)
  BY HeldTypes
<1>2. \A v \in Task : Ahead(n.ready, v, s.curr) => Ahead(s.ready, v, s.curr)
  BY <1>1, AheadAppend
<1> QED BY <1>2 DEF CurrOK, SameHeld

\* It leaves the current task on top when its priority is no higher.
LEMMA TopReady ==
  ASSUME NEW s, KernelOK(s), TopOK(s), NEW t \in Task, ~Linked(s.ready, t),
         s.activePriority[t] <= s.activePriority[s.curr],
         NEW n, SameHeld(s, n), n.ready = Append(s.ready, t), n.curr = s.curr
  PROVE  TopOK(n)
<1>1. \A u \in Task : Linked(n.ready, u) <=> Linked(s.ready, u) \/ u = t
  BY HeldTypes, EnqueueLemma
<1> QED BY <1>1 DEF TopOK, SameHeld

\* A task leaves the queue only when it holds nothing.
LEMMA HoldLeave ==
  ASSUME NEW s, KernelOK(s), HoldOK(s), NEW t \in Task, s.resources[t] = <<>>,
         NEW n, SameHeld(s, n), n.ready = TAILQ_REMOVE(s.ready, t)
  PROVE  HoldOK(n)
<1>1. /\ s.ready \in Seq(Task) /\ NoDuplicates(s.ready)
      /\ \A u \in Task : Linked(n.ready, u) <=> Linked(s.ready, u) /\ u # t
  <2>1. s.ready \in Seq(Task) /\ NoDuplicates(s.ready)
    BY HeldTypes
  <2>2. \A u \in Task : Linked(TAILQ_REMOVE(s.ready, t), u) <=> Linked(s.ready, u) /\ u # t
    BY <2>1, DequeueLemma, Zenon
  <2> QED BY <2>1, <2>2, Zenon
<1>2. \A u \in Task : Stacked(n, u)
  BY StackedSame DEF HoldOK
<1>3. ASSUME NEW u \in Task, n.resources[u] # <<>> PROVE HolderOK(n, u)
  <2>1. HolderOK(s, u) /\ u # t
    BY <1>3 DEF HoldOK, SameHeld
  <2>2. \A v \in Task : Ahead(n.ready, v, u) => Ahead(s.ready, v, u)
    BY <1>1, AheadRemove
  <2> QED BY <1>1, <2>1, <2>2 DEF HolderOK, SameHeld
<1> QED BY <1>2, <1>3 DEF HoldOK, SameHeld

\* Two different tasks of a queue: one is ahead of the other.
LEMMA OneAhead ==
  ASSUME NEW q, NEW u, NEW t, u # t, Linked(q, u), Linked(q, t), Len(q) \in Nat
  PROVE  Ahead(q, u, t) \/ Ahead(q, t, u)
BY DEF Linked, Ahead

\* The task at the top may be made current.
LEMMA HoldTop ==
  ASSUME NEW s, KernelOK(s), HoldOK(s), NEW t \in Task, IsTop(s, t),
         NEW n, SameHeld(s, n), n.ready = s.ready, n.curr = t
  PROVE  HoldOK(n) /\ CurrOK(n) /\ TopOK(n)
<1> DEFINE q == s.ready
           ap == s.activePriority
<1>1. /\ q \in Seq(Task) /\ NoDuplicates(q) /\ Len(q) \in Nat /\ DOMAIN q = 1 .. Len(q)
      /\ ap \in [Task -> Nat] /\ prio \in [Task -> Nat]
  BY HeldTypes
<1>2. PICK k \in 1 .. Len(q) : /\ q[k] = t
                               /\ \A j \in 1 .. Len(q) : /\ ap[q[j]] <= ap[t]
                                                         /\ j < k => ap[q[j]] < ap[t]
  BY <1>1, Zenon DEF IsTop
<1>3. \A u \in Task : Ahead(q, u, t) => ap[u] < ap[t]
  <2> SUFFICES ASSUME NEW u \in Task, Ahead(q, u, t) PROVE ap[u] < ap[t]
    OBVIOUS
  <2>1. PICK i \in 1 .. Len(q), j \in 1 .. Len(q) : i < j /\ q[i] = u /\ q[j] = t
    BY DEF Ahead
  <2>2. j = k
    BY <1>1, <1>2, <2>1 DEF NoDuplicates
  <2> QED BY <1>2, <2>1, <2>2
<1>4. \A u \in Task : Linked(q, u) => ap[u] <= ap[t]
  BY <1>2 DEF Linked
<1>5. ASSUME NEW u \in Task \ {t}, s.resources[u] # <<>> PROVE ap[u] < prio[t]
  <2>1. HolderOK(s, u) /\ prio[u] <= ap[u] /\ (s.resources[t] = <<>> => ap[t] = prio[t])
    BY <1>5, HolderPriority DEF HoldOK
  <2>2. ap[u] <= ap[t] /\ ap[u] \in Nat /\ ap[t] \in Nat /\ prio[u] \in Nat /\ prio[t] \in Nat
    BY <1>1, <1>4, <2>1 DEF HolderOK
  <2>3. ~ Ahead(q, t, u)
    BY <2>1, <2>2 DEF HolderOK
  <2>4. Linked(q, t) /\ Linked(q, u)
    BY <1>2, <2>1 DEF Linked, HolderOK
  <2>5. ap[u] < ap[t]
    BY <1>1, <1>3, <2>3, <2>4, OneAhead
  <2>6. CASE s.resources[t] = <<>>
    BY <2>1, <2>5, <2>6
  <2>7. CASE s.resources[t] # <<>>
    <3>1. ap[u] < prio[t] \/ ap[t] < prio[u]
      BY <2>1, <2>7 DEF HolderOK
    <3> QED BY <2>1, <2>2, <3>1
  <2> QED BY <2>6, <2>7
<1> HIDE DEF q, ap
<1> QED BY <1>3, <1>4, <1>5, HoldSame DEF CurrOK, TopOK, SameHeld, q, ap

\* The stack of a task that takes a resource, and that of another task.
LEMMA LinkedAppend ==
  ASSUME NEW S, NEW q \in Seq(S), NEW r \in S, NEW x
  PROVE  /\ Append(q, r) \in Seq(S) /\ Len(Append(q, r)) = Len(q) + 1
         /\ Append(q, r)[Len(q) + 1] = r /\ \A i \in 1 .. Len(q) : Append(q, r)[i] = q[i]
         /\ Linked(Append(q, r), x) <=> Linked(q, x) \/ x = r
<1>1. /\ Append(q, r) \in Seq(S) /\ Len(Append(q, r)) = Len(q) + 1 /\ Len(q) \in Nat
      /\ Append(q, r)[Len(q) + 1] = r /\ \A i \in 1 .. Len(q) : Append(q, r)[i] = q[i]
  OBVIOUS
<1>2. 1 .. Len(q) + 1 = 1 .. Len(q) \cup {Len(q) + 1}
  BY <1>1
<1> DEFINE p == Append(q, r)
<1> HIDE DEF p
<1> QED BY <1>1, <1>2 DEF Linked, p

\* GetResource pushes a resource whose ceiling is no lower than the priority of the task.
LEMMA StackPush ==
  ASSUME NEW held \in Seq(Resource), NEW p \in Nat, NEW own \in Nat, NEW old, NEW new,
         Stack(held, p, old, own), NEW r \in Resource, ~Linked(held, r), p <= ceiling(r), own <= p,
         new[r] = p, \A x \in Resource \ {r} : new[x] = old[x], \A x \in Resource : ceiling(x) \in Nat
  PROVE  Stack(Append(held, r), ceiling(r), new, own)
<1> DEFINE h == Append(held, r)
           k == Len(held)
<1>1. /\ k \in Nat /\ Len(h) = k + 1 /\ h[k + 1] = r
      /\ \A i \in 1 .. k : h[i] = held[i] /\ held[i] \in Resource /\ held[i] # r
  BY LinkedAppend DEF Linked
<1>2. 1 .. Len(h) = 1 .. k \cup {k + 1}
  BY <1>1
<1>3. /\ NoDuplicates(held)
      /\ p = IF k = 0 THEN own ELSE ceiling(held[k])
      /\ \A i \in 1 .. k : /\ own <= ceiling(held[i])
                           /\ old[held[i]] = IF i = 1 THEN own ELSE ceiling(held[i - 1])
      /\ \A i, j \in 1 .. k : i <= j => ceiling(held[i]) <= ceiling(held[j])
  BY DEF Stack
<1> HIDE DEF h
<1>4. NoDuplicates(h)
  <2>1. \A i, j \in 1 .. k : held[i] = held[j] => i = j
    BY <1>3 DEF NoDuplicates
  <2> HIDE DEF k
  <2>2. ASSUME NEW i \in 1 .. Len(h), NEW j \in 1 .. Len(h), h[i] = h[j] PROVE i = j
    BY <1>1, <1>2, <2>1, <2>2
  <2> QED BY <2>2 DEF NoDuplicates
<1>5. h # <<>> /\ ceiling(h[Len(h)]) = ceiling(r)
  BY <1>1
<1>6. ASSUME NEW i \in 1 .. k PROVE i # 1 => h[i - 1] = held[i - 1]
  <2> HIDE DEF k
  <2>1. i # 1 => i - 1 \in 1 .. k
    BY <1>1
  <2> QED BY <1>1, <2>1
<1>7. ASSUME NEW i \in 1 .. Len(h)
      PROVE  /\ own <= ceiling(h[i])
             /\ new[h[i]] = IF i = 1 THEN own ELSE ceiling(h[i - 1])
  <2> HIDE DEF k
  <2>1. CASE i \in 1 .. k
    <3>1. h[i] = held[i] /\ new[held[i]] = old[held[i]] /\ (i # 1 => h[i - 1] = held[i - 1])
      BY <1>1, <1>6, <2>1
    <3> QED BY <1>3, <2>1, <3>1
  <2>2. CASE i = k + 1
    <3>1. k # 0 => h[k] = held[k]
      BY <1>1
    <3> QED BY <1>1, <1>3, <2>2, <3>1
  <2> QED BY <1>2, <2>1, <2>2
<1>8. ASSUME NEW i \in 1 .. Len(h), NEW j \in 1 .. Len(h), i <= j
      PROVE  ceiling(h[i]) <= ceiling(h[j])
  <2> HIDE DEF k
  <2>1. CASE j \in 1 .. k
    <3>1. i \in 1 .. k
      BY <1>1, <1>8, <2>1
    <3> QED BY <1>1, <1>3, <1>8, <2>1, <3>1
  <2>2. CASE j = k + 1 /\ i \in 1 .. k
    <3>1. k \in 1 .. k /\ i <= k /\ k # 0
      BY <1>1, <2>2
    <3>2. ceiling(held[i]) <= p /\ held[i] \in Resource
      BY <1>1, <1>3, <2>2, <3>1
    <3>3. ceiling(held[i]) <= ceiling(r)
      BY <3>2
    <3> QED BY <1>1, <2>2, <3>3
  <2>3. CASE j = k + 1 /\ i = k + 1
    BY <1>1, <2>3
  <2> QED BY <1>2, <2>1, <2>2, <2>3
<1> QED BY <1>4, <1>5, <1>7, <1>8 DEF Stack, h

\* The saved priority of a resource that is not in the stack does not matter to it.
LEMMA StackKept ==
  ASSUME NEW held \in Seq(Resource), NEW p, NEW own, NEW old, NEW new,
         Stack(held, p, old, own), NEW r, ~Linked(held, r),
         \A x \in Resource \ {r} : new[x] = old[x]
  PROVE  Stack(held, p, new, own)
<1>1. \A i \in 1 .. Len(held) : held[i] \in Resource \ {r}
  BY DEF Linked
<1>2. \A i \in 1 .. Len(held) : new[held[i]] = old[held[i]]
  BY <1>1
<1> QED BY <1>2, Zenon DEF Stack

\* The current task has taken r.
Taken(s, n, r) ==
  /\ n.ready = s.ready /\ n.curr = s.curr
  /\ n.activePriority[s.curr] = ceiling(r) /\ n.resources[s.curr] = Append(s.resources[s.curr], r)
  /\ n.owner[r] = s.curr /\ n.old_task_prio[r] = s.activePriority[s.curr]
  /\ \A t \in Task \ {s.curr} : /\ n.activePriority[t] = s.activePriority[t]
                               /\ n.resources[t] = s.resources[t]
  /\ \A x \in Resource \ {r} : n.owner[x] = s.owner[x] /\ n.old_task_prio[x] = s.old_task_prio[x]

\* GetResource: the current task puts a resource on its stack.
LEMMA HoldTake ==
  ASSUME NEW s, KernelOK(s), HoldOK(s), CurrOK(s), Linked(s.ready, s.curr),
         NEW r \in Resource, s.owner[r] = NO_TASK_OWNER, s.activePriority[s.curr] <= ceiling(r),
         NEW n, Taken(s, n, r)
  PROVE  HoldOK(n) /\ CurrOK(n) /\ (TopOK(s) => TopOK(n))
<1> DEFINE c == s.curr
           held == s.resources[c]
           new == Append(held, r)
<1>1. /\ c \in Task /\ s.ready \in Seq(Task) /\ held \in Seq(Resource)
      /\ s.activePriority \in [Task -> Nat] /\ s.old_task_prio \in [Resource -> Nat]
      /\ s.resources \in [Task -> Seq(Resource)] /\ prio \in [Task -> Nat]
      /\ s.owner \in [Resource -> Task \cup {NO_TASK_OWNER}] /\ ceiling(r) \in Nat
      /\ \A x \in Resource : ceiling(x) \in Nat
  BY HeldTypes
<1>2. /\ \A t \in Task : ~Linked(s.resources[t], r)
      /\ NO_TASK_OWNER \notin Task
  BY TaskAssumption DEF HoldOK
<1>3. /\ n.activePriority[c] = ceiling(r) /\ n.resources[c] = new
      /\ n.owner[r] = c /\ n.old_task_prio[r] = s.activePriority[c]
      /\ \A t \in Task \ {c} : n.activePriority[t] = s.activePriority[t] /\ n.resources[t] = s.resources[t]
      /\ \A x \in Resource \ {r} : n.owner[x] = s.owner[x] /\ n.old_task_prio[x] = s.old_task_prio[x]
      /\ n.ready = s.ready /\ n.curr = c
  BY Zenon DEF Taken
<1> HIDE DEF new
<1>4. prio[c] <= s.activePriority[c] /\ s.activePriority[c] <= ceiling(r) /\ Stacked(s, c)
  BY <1>1, HolderPriority, Zenon DEF HoldOK
<1>6. Stacked(n, c)
  <2>1. Stack(new, ceiling(r), n.old_task_prio, prio[c])
    <3>1. Stack(held, s.activePriority[c], s.old_task_prio, prio[c])
      BY <1>4 DEF Stacked
    <3>2. s.activePriority[c] \in Nat /\ prio[c] \in Nat /\ ~Linked(held, r)
      BY <1>1, <1>2
    <3>3. n.old_task_prio[r] = s.activePriority[c] /\ \A x \in Resource \ {r} : n.old_task_prio[x] = s.old_task_prio[x]
      BY <1>3, Zenon
    <3> HIDE DEF held, c
    <3>4. s.activePriority[c] <= ceiling(r) /\ prio[c] <= s.activePriority[c]
      BY <1>4, Zenon
    <3> QED BY <1>1, <3>1, <3>2, <3>3, <3>4, StackPush, Zenon DEF new
  <2> QED BY <1>3, <2>1, Zenon DEF Stacked
<1>7. ASSUME NEW t \in Task \ {c} PROVE Stacked(n, t)
  <2>1. Stack(s.resources[t], s.activePriority[t], s.old_task_prio, prio[t]) /\ ~Linked(s.resources[t], r)
    BY <1>2, Zenon DEF HoldOK, Stacked
  <2>2. Stack(s.resources[t], s.activePriority[t], n.old_task_prio, prio[t])
    <3>1. s.resources[t] \in Seq(Resource) /\ \A x \in Resource \ {r} : n.old_task_prio[x] = s.old_task_prio[x]
      BY <1>1, <1>3, Zenon
    <3> QED BY ONLY <2>1, <3>1, StackKept
  <2> QED BY <1>3, <2>2, Zenon DEF Stacked
<1>8. \A t \in Task, x \in Resource : n.owner[x] = t <=> Linked(n.resources[t], x)
  <2> SUFFICES ASSUME NEW t \in Task, NEW x \in Resource
               PROVE  n.owner[x] = t <=> Linked(n.resources[t], x)
    OBVIOUS
  <2>1. s.owner[x] = t <=> Linked(s.resources[t], x)
    BY DEF HoldOK
  <2>2. Linked(new, x) <=> Linked(held, x) \/ x = r
    BY <1>1, LinkedAppend, SMTT(30) DEF new
  <2>3. ~Linked(s.resources[t], r)
    BY <1>2
  <2> HIDE DEF new
  <2> QED BY <1>3, <2>1, <2>2, <2>3, Zenon
<1>9. ASSUME NEW t \in Task, n.resources[t] # <<>> PROVE HolderOK(n, t)
  <2>1. CASE t # c
    <3>1. HolderOK(s, t) /\ s.activePriority[t] < prio[c] /\ prio[t] <= s.activePriority[t]
      BY <1>3, <1>9, <2>1, HolderPriority, Zenon DEF HoldOK, CurrOK
    <3>2. ~Ahead(s.ready, c, t)
      BY <1>1, <1>4, <3>1, SMTT(30) DEF HolderOK
    <3>3. \A u \in Task : Ahead(n.ready, u, t) => n.activePriority[u] < prio[t]
      BY <1>3, <3>1, <3>2, Zenon DEF HolderOK
    <3>4. \A u \in Task \ {t} : n.resources[u] # <<>> =>
            n.activePriority[t] < prio[u] \/ n.activePriority[u] < prio[t]
      BY <1>3, <2>1, <3>1, Zenon DEF HolderOK
    <3> QED BY <1>3, <3>1, <3>3, <3>4, Zenon DEF HolderOK
  <2>2. CASE t = c
    <3>1. \A u \in Task : Ahead(s.ready, u, c) => s.activePriority[u] < prio[c]
      <4>1. CASE held = <<>>
        <5>1. s.activePriority[c] = prio[c]
          BY <1>4, <4>1 DEF Stacked, Stack
        <5> QED BY <5>1 DEF CurrOK
      <4>2. CASE held # <<>>
        BY <1>1, <4>2, Zenon DEF HoldOK, HolderOK
      <4> QED BY <4>1, <4>2, Zenon
    <3>2. ~Ahead(s.ready, c, c)
      BY <1>1, <1>4, <3>1, SMTT(30)
    <3>3. \A u \in Task : Ahead(n.ready, u, c) => n.activePriority[u] < prio[c]
      BY <1>3, <3>1, <3>2, Zenon
    <3>4. \A u \in Task \ {c} : n.resources[u] # <<>> => n.activePriority[u] < prio[c]
      BY <1>3, Zenon DEF CurrOK
    <3> QED BY <1>3, <2>2, <3>3, <3>4, Zenon DEF HolderOK
  <2> QED BY <2>1, <2>2
<1>10. HoldOK(n)
  <2> HIDE DEF c
  <2> QED BY <1>6, <1>7, <1>8, <1>9 DEF HoldOK
<1>11. CurrOK(n)
  <2>1. ASSUME NEW u \in Task, Ahead(n.ready, u, c) PROVE n.activePriority[u] < n.activePriority[c]
    <3>1. s.activePriority[u] < s.activePriority[c]
      BY <1>3, <2>1, Zenon DEF CurrOK
    <3>2. u # c
      BY <1>1, <3>1
    <3>3. /\ n.activePriority[u] = s.activePriority[u] /\ n.activePriority[c] = ceiling(r)
          /\ s.activePriority[u] \in Nat /\ s.activePriority[c] \in Nat /\ ceiling(r) \in Nat
      BY <1>1, <1>3, <3>2, Zenon
    <3> QED BY ONLY <1>4, <3>1, <3>3
  <2>2. \A t \in Task \ {c} : n.resources[t] # <<>> => n.activePriority[t] < prio[c]
    BY <1>3, Zenon DEF CurrOK
  <2> QED BY <1>3, <2>1, <2>2, Zenon DEF CurrOK
<1>12. ASSUME TopOK(s) PROVE TopOK(n)
  <2>1. ASSUME NEW u \in Task, Linked(s.ready, u) PROVE n.activePriority[u] <= n.activePriority[c]
    <3>1. s.activePriority[u] <= s.activePriority[c]
      BY <1>12, <2>1 DEF TopOK
    <3>2. s.activePriority[u] \in Nat /\ s.activePriority[c] \in Nat /\ ceiling(r) \in Nat
      BY <1>1
    <3>3. CASE u = c
      BY <1>3, <3>2, <3>3
    <3>4. CASE u # c
      <4>1. n.activePriority[u] = s.activePriority[u] /\ n.activePriority[c] = ceiling(r)
        BY <1>3, <3>4
      <4> QED BY ONLY <1>4, <3>1, <3>2, <4>1
    <3> QED BY <3>3, <3>4
  <2> QED BY <1>3, <2>1 DEF TopOK
<1> QED BY <1>10, <1>11, <1>12

\* The stack of a task that releases the resource it took last.
LEMMA StackPop ==
  ASSUME NEW held \in Seq(Resource), held # <<>>, NEW p, NEW own \in Nat, NEW old,
         Stack(held, p, old, own), NEW new \in Seq(Resource), Len(new) = Len(held) - 1,
         \A i \in 1 .. Len(held) - 1 : new[i] = held[i]
  PROVE  /\ Stack(new, old[held[Len(held)]], old, own)
         /\ \A x \in Resource : Linked(held, x) <=> Linked(new, x) \/ x = held[Len(held)]
         /\ ~Linked(new, held[Len(held)])
<1> DEFINE k == Len(held)
<1>1. k \in Nat /\ k >= 1
  OBVIOUS
<1>2. 1 .. k = 1 .. k - 1 \cup {k}
  BY <1>1
<1>3. /\ \A i, j \in 1 .. k : held[i] = held[j] => i = j
      /\ \A i \in 1 .. k : /\ own <= ceiling(held[i])
                           /\ old[held[i]] = IF i = 1 THEN own ELSE ceiling(held[i - 1])
      /\ \A i, j \in 1 .. k : i <= j => ceiling(held[i]) <= ceiling(held[j])
  BY DEF Stack, NoDuplicates
<1>4. Len(new) = k - 1 /\ \A i \in 1 .. k - 1 : new[i] = held[i] /\ i \in 1 .. k /\ i # k
  BY <1>1
<1>5. new = <<>> <=> k = 1
  BY <1>1
<1>6. \A i \in 1 .. k - 1 : i # 1 => i - 1 \in 1 .. k - 1
  BY <1>1
<1>7. k \in 1 .. k /\ (k # 1 => k - 1 \in 1 .. k - 1)
  BY <1>1
<1> HIDE DEF k
<1>8. NoDuplicates(new)
  BY <1>3, <1>4 DEF NoDuplicates
<1>9. old[held[k]] = IF new = <<>> THEN own ELSE ceiling(new[Len(new)])
  BY <1>3, <1>4, <1>5, <1>7
<1>10. ASSUME NEW i \in 1 .. Len(new)
       PROVE  /\ own <= ceiling(new[i])
              /\ old[new[i]] = IF i = 1 THEN own ELSE ceiling(new[i - 1])
  <2>1. new[i] = held[i] /\ i \in 1 .. k /\ (i # 1 => new[i - 1] = held[i - 1])
    BY <1>4, <1>6
  <2> QED BY <1>3, <2>1
<1>11. \A i, j \in 1 .. Len(new) : i <= j => ceiling(new[i]) <= ceiling(new[j])
  BY <1>3, <1>4
<1>12. Stack(new, old[held[k]], old, own)
  BY <1>8, <1>9, <1>10, <1>11 DEF Stack
<1>13. \A x \in Resource : Linked(held, x) <=> Linked(new, x) \/ x = held[k]
  BY <1>2, <1>4, <1>7, Zenon DEF Linked, k
<1>14. ~Linked(new, held[k])
  BY <1>3, <1>4, <1>7 DEF Linked
<1> QED BY <1>12, <1>13, <1>14 DEF k

\* TAILQ_REMOVE of the last of a list without duplicates.
LEMMA RemoveLast ==
  ASSUME NEW S, NEW q \in Seq(S), q # <<>>, NoDuplicates(q)
  PROVE  /\ TAILQ_REMOVE(q, q[Len(q)]) \in Seq(S) /\ Len(TAILQ_REMOVE(q, q[Len(q)])) = Len(q) - 1
         /\ \A i \in 1 .. Len(q) - 1 : TAILQ_REMOVE(q, q[Len(q)])[i] = q[i]
<1> DEFINE x == q[Len(q)]
           p == TAILQ_REMOVE(q, x)
<1>1. Len(q) \in 1 .. Len(q) /\ Len(q) \in Nat
  OBVIOUS
<1>2. Linked(q, x)
  BY <1>1 DEF Linked
<1>3. PICK k \in 1 .. Len(q) :
        /\ q[k] = x /\ p \in Seq(S) /\ Len(p) = Len(q) - 1
        /\ \A j \in 1 .. Len(q) - 1 : p[j] = IF j < k THEN q[j] ELSE q[j + 1]
  <2> HIDE DEF x
  <2> QED BY <1>2, RemoveLemma
<1>4. k = Len(q)
  BY <1>1, <1>3 DEF NoDuplicates
<1> HIDE DEF p, x
<1>5. \A j \in 1 .. Len(q) - 1 : j < Len(q)
  BY <1>1
<1> QED BY <1>3, <1>4, <1>5 DEF p, x

\* The priority a task falls back to when it releases the resource it took last.
LEMMA PopPriority ==
  ASSUME NEW held \in Seq(Resource), held # <<>>, NEW p, NEW own \in Nat, NEW old,
         Stack(held, p, old, own), \A x \in Resource : ceiling(x) \in Nat
  PROVE  own <= old[held[Len(held)]] /\ old[held[Len(held)]] <= p
<1> DEFINE k == Len(held)
<1>1. k \in Nat /\ k \in 1 .. k /\ held[k] \in Resource
  OBVIOUS
<1> HIDE DEF k
<1>2. /\ p = ceiling(held[k]) /\ own <= ceiling(held[k])
      /\ old[held[k]] = IF k = 1 THEN own ELSE ceiling(held[k - 1])
  BY <1>1, Zenon DEF Stack, k
<1>3. CASE k = 1
  BY <1>1, <1>2, <1>3 DEF k
<1>4. CASE k # 1
  <2>1. k - 1 \in 1 .. k /\ k - 1 <= k
    BY <1>1, <1>4
  <2>2. own <= ceiling(held[k - 1]) /\ ceiling(held[k - 1]) <= ceiling(held[k])
    BY <1>1, <2>1 DEF Stack, k
  <2> QED BY <1>2, <1>4, <2>2 DEF k
<1> QED BY <1>3, <1>4

\* The current task has given up r, falls back to priority p and keeps new.
Freed(s, n, r, p, new) ==
  /\ n.ready = s.ready /\ n.curr = s.curr /\ n.old_task_prio = s.old_task_prio
  /\ n.activePriority[s.curr] = p /\ n.resources[s.curr] = new /\ n.owner[r] = NO_TASK_OWNER
  /\ \A t \in Task \ {s.curr} : /\ n.activePriority[t] = s.activePriority[t]
                               /\ n.resources[t] = s.resources[t]
  /\ \A x \in Resource \ {r} : n.owner[x] = s.owner[x]

\* Freeing the resource on top of its stack lowers the current task to what it saved.
LEMMA HoldFree ==
  ASSUME NEW s, KernelOK(s), HoldOK(s), CurrOK(s), NEW r \in Resource,
         NEW new, NEW p \in Nat, prio[s.curr] <= p, p <= s.activePriority[s.curr],
         Stack(new, p, s.old_task_prio, prio[s.curr]), s.resources[s.curr] # <<>>,
         \A x \in Resource : Linked(s.resources[s.curr], x) <=> Linked(new, x) \/ x = r,
         ~Linked(new, r), NEW n, Freed(s, n, r, p, new)
  PROVE  HoldOK(n) /\ CurrOK(n)
<1> DEFINE c == s.curr
<1>1. /\ c \in Task
      /\ s.activePriority \in [Task -> Nat] /\ s.resources \in [Task -> Seq(Resource)]
      /\ prio \in [Task -> Nat]
      /\ s.owner \in [Resource -> Task \cup {NO_TASK_OWNER}] /\ NO_TASK_OWNER \notin Task
  BY HeldTypes, TaskAssumption, Zenon
<1>2. /\ n.ready = s.ready /\ n.curr = c /\ n.old_task_prio = s.old_task_prio
      /\ n.activePriority[c] = p /\ n.resources[c] = new /\ n.owner[r] = NO_TASK_OWNER
      /\ \A t \in Task \ {c} : n.activePriority[t] = s.activePriority[t] /\ n.resources[t] = s.resources[t]
      /\ \A x \in Resource \ {r} : n.owner[x] = s.owner[x]
  BY Zenon DEF Freed
<1>5. ASSUME NEW t \in Task PROVE Stacked(n, t)
  <2>1. CASE t = c
    BY <1>2, <2>1, Zenon DEF Stacked
  <2>2. CASE t # c
    <3>1. n.activePriority[t] = s.activePriority[t] /\ n.resources[t] = s.resources[t] /\ Stacked(s, t)
      BY <1>2, <2>2, Zenon DEF HoldOK
    <3> QED BY <1>2, <3>1, Zenon DEF Stacked
  <2> QED BY <2>1, <2>2, Zenon
<1>7. ASSUME NEW t \in Task, NEW x \in Resource
      PROVE  n.owner[x] = t <=> Linked(n.resources[t], x)
  <2>1. s.owner[x] = t <=> Linked(s.resources[t], x)
    BY Zenon DEF HoldOK
  <2>2. s.owner[r] = c /\ (s.owner[r] = t <=> Linked(s.resources[t], r))
    BY <1>1, Zenon DEF HoldOK
  <2>3. CASE t = c
    BY <1>1, <1>2, <2>1, <2>3, Zenon
  <2>4. CASE t # c
    BY <1>1, <1>2, <2>1, <2>2, <2>4, Zenon
  <2> QED BY <2>3, <2>4, Zenon
<1>8. HolderOK(s, c)
  BY <1>1, Zenon DEF HoldOK
<1>9. ASSUME NEW t \in Task
      PROVE  /\ n.activePriority[t] <= s.activePriority[t]
             /\ n.activePriority[t] \in Nat /\ s.activePriority[t] \in Nat /\ prio[t] \in Nat
  <2>1. n.activePriority[t] = s.activePriority[t] \/ (t = c /\ n.activePriority[t] = p)
    BY <1>2, Zenon
  <2> QED BY ONLY <1>1, <2>1, p \in Nat, p <= s.activePriority[c]
<1>11. ASSUME NEW t \in Task, n.resources[t] # <<>> PROVE s.resources[t] # <<>>
  BY <1>2, <1>11, Zenon
<1>12. ASSUME NEW t \in Task, n.resources[t] # <<>> PROVE HolderOK(n, t)
  <2>1. HolderOK(s, t)
    BY <1>11, <1>12, Zenon DEF HoldOK
  <2>2. ASSUME NEW u \in Task, Ahead(s.ready, u, t) PROVE n.activePriority[u] < prio[t]
    <3>1. s.activePriority[u] < prio[t]
      BY <2>1, <2>2, Zenon DEF HolderOK
    <3> QED BY ONLY <1>9, <3>1
  <2>3. ASSUME NEW u \in Task \ {t}, n.resources[u] # <<>>
        PROVE  n.activePriority[t] < prio[u] \/ n.activePriority[u] < prio[t]
    <3>1. s.activePriority[t] < prio[u] \/ s.activePriority[u] < prio[t]
      BY <1>11, <2>1, <2>3, Zenon DEF HolderOK
    <3> QED BY ONLY <1>9, <3>1
  <2> QED BY <1>2, <2>1, <2>2, <2>3, Zenon DEF HolderOK
<1>13. CurrOK(n)
  <2>1. ASSUME NEW u \in Task, Ahead(s.ready, u, c) PROVE n.activePriority[u] < n.activePriority[c]
    <3>1. s.activePriority[u] < prio[c]
      BY <1>8, <2>1, Zenon DEF HolderOK
    <3> QED BY ONLY <1>1, <1>9, <3>1, <1>2, prio[c] <= p, p \in Nat
  <2>2. \A t \in Task \ {c} : n.resources[t] # <<>> => n.activePriority[t] < prio[c]
    BY <1>2, Zenon DEF CurrOK
  <2> QED BY <1>2, <2>1, <2>2, Zenon DEF CurrOK
<1> QED BY <1>5, <1>7, <1>12, <1>13, Zenon DEF HoldOK

\* The current task has released r, the last of held, and keeps new.
Released(s, n, r, held, new) ==
  /\ held = s.resources[s.curr] /\ held # <<>> /\ r = held[Len(held)]
  /\ new \in Seq(Resource) /\ Len(new) = Len(held) - 1
  /\ \A i \in 1 .. Len(held) - 1 : new[i] = held[i]
  /\ n.ready = s.ready /\ n.curr = s.curr /\ n.old_task_prio = s.old_task_prio
  /\ n.activePriority[s.curr] = s.old_task_prio[r] /\ n.resources[s.curr] = new
  /\ n.owner[r] = NO_TASK_OWNER
  /\ \A t \in Task \ {s.curr} : /\ n.activePriority[t] = s.activePriority[t]
                               /\ n.resources[t] = s.resources[t]
  /\ \A x \in Resource \ {r} : n.owner[x] = s.owner[x]

\* ReleaseResource: the current task takes the last resource off its stack.
LEMMA HoldGive ==
  ASSUME NEW s, KernelOK(s), HoldOK(s), CurrOK(s),
         NEW n, NEW r, NEW held, NEW new, Released(s, n, r, held, new)
  PROVE  HoldOK(n) /\ CurrOK(n)
<1> DEFINE c == s.curr
           old == s.old_task_prio
           p == old[r]
<1>1. /\ c \in Task /\ prio[c] \in Nat /\ \A x \in Resource : ceiling(x) \in Nat
      /\ held \in Seq(Resource) /\ old \in [Resource -> Nat]
  BY HeldTypes, SMTT(30) DEF Released
<1>2. r \in Resource /\ r = held[Len(held)] /\ held # <<>>
  BY <1>1, SMTT(30) DEF Released
<1>3. Stack(held, s.activePriority[c], old, prio[c])
  BY <1>1, Zenon DEF HoldOK, Stacked, Released
<1>4. /\ new \in Seq(Resource) /\ Len(new) = Len(held) - 1
      /\ \A i \in 1 .. Len(held) - 1 : new[i] = held[i]
  BY Zenon DEF Released
<1>5. /\ Stack(new, p, old, prio[c])
      /\ \A x \in Resource : Linked(held, x) <=> Linked(new, x) \/ x = r
      /\ ~Linked(new, r)
  <2> HIDE DEF old, c
  <2> QED BY ONLY <1>1, <1>2, <1>3, <1>4, StackPop, Zenon
<1>6. prio[c] <= p /\ p <= s.activePriority[c] /\ p \in Nat
  <2> HIDE DEF old, c
  <2> QED BY ONLY <1>1, <1>2, <1>3, PopPriority
<1>7. Freed(s, n, r, p, new) /\ held = s.resources[c]
  BY Zenon DEF Freed, Released
<1> HIDE DEF p
<1> QED BY <1>2, <1>5, <1>6, <1>7, HoldFree, Zenon

-----------------------------------------------------------------------------
(* The functions of the kernel preserve KernelOK                             *)

\* The state of a task that stays in, or out of, the ready queue.
LEMMA ReadyStateOK ==
  ASSUME NEW s, KernelOK(s), NEW t \in Task, s.state[t] \in {"READY", "RUNNING"},
         NEW x \in {"READY", "RUNNING"}
  PROVE  /\ KernelOK([s EXCEPT !.state[t] = x])
         /\ [s EXCEPT !.state[t] = x].state[t] = x
         /\ [s EXCEPT !.state[t] = x].curr = s.curr
<1> DEFINE st == [s.state EXCEPT ![t] = x]
           n == [s EXCEPT !.state[t] = x]
<1>1. KernelTyped(s) /\ s.state \in [Task -> States]
  BY RecordType
<1>2. KernelTyped(n)
  BY <1>1 DEF KernelTyped, Fields, States
<1>3. /\ n.state = st /\ n.ready = s.ready /\ n.curr = s.curr
      /\ n.ev_set = s.ev_set /\ n.ev_wait = s.ev_wait
  BY <1>1 DEF KernelTyped, Fields
<1>4. QueueOK(st, s.ready)
  BY <1>1, IdleInTask DEF QueueOK, KernelOK
<1>5. WakeupOK(st, s.ev_set, s.ev_wait)
  BY <1>1 DEF WakeupOK, KernelOK
<1>6. st[t] = x
  BY <1>1
<1> HIDE DEF n, st
<1> QED BY <1>2, <1>3, <1>4, <1>5, <1>6, Zenon DEF KernelOK, n

\* Os_TaskRunningToReady keeps a consistent kernel consistent.
LEMMA RunningToReadyOK ==
  ASSUME NEW s, KernelOK(s), NEW t \in Task, s.state[t] \in {"READY", "RUNNING"}
  PROVE  KernelOK(Os_TaskRunningToReady(s, t))
BY ReadyStateOK, AssertingOK, Zenon DEF Os_TaskRunningToReady

\* Os_TaskMakeReady appends a task that is not queued and leaves the others alone.
LEMMA MakeReadyOK ==
  ASSUME NEW s, KernelOK(s), NEW t \in Task
  PROVE  /\ KernelOK(Os_TaskMakeReady(s, t))
         /\ Os_TaskMakeReady(s, t).state[t] \in {"READY", "RUNNING"}
         /\ Os_TaskMakeReady(s, t).curr = s.curr
         /\ \A u \in Task \ {t} : Os_TaskMakeReady(s, t).state[u] = s.state[u]
<1>1. CASE s.state[t] \in {"READY", "RUNNING"}
  BY <1>1 DEF Os_TaskMakeReady
<1>2. CASE s.state[t] \notin {"READY", "RUNNING"}
  <2> DEFINE st == [s.state EXCEPT ![t] = "READY"]
             q == Append(s.ready, t)
             n == [s EXCEPT !.state[t] = "READY", !.ready = Append(@, t)]
  <2>1. /\ KernelTyped(s) /\ s.state \in [Task -> States] /\ s.ready \in Seq(Task)
        /\ NoDuplicates(s.ready) /\ ~Linked(s.ready, t)
    BY <1>2, RecordType DEF KernelOK, QueueOK
  <2>2. /\ q \in Seq(Task) /\ NoDuplicates(q)
        /\ \A u \in Task : Linked(q, u) <=> Linked(s.ready, u) \/ u = t
    BY <2>1, EnqueueLemma
  <2>3. KernelTyped(n)
    BY <2>1, <2>2 DEF KernelTyped, Fields, States
  <2>4. /\ n.state = st /\ n.ready = q /\ n.curr = s.curr
        /\ n.ev_set = s.ev_set /\ n.ev_wait = s.ev_wait
    BY <2>1 DEF KernelTyped, Fields
  <2>5. QueueOK(st, q)
    <3> HIDE DEF q
    <3> QED BY <2>1, <2>2, IdleInTask DEF QueueOK, KernelOK
  <2>6. WakeupOK(st, s.ev_set, s.ev_wait)
    BY <2>1 DEF WakeupOK, KernelOK
  <2>7. Os_TaskMakeReady(s, t) = n
    BY <1>2 DEF Os_TaskMakeReady
  <2> HIDE DEF n, q
  <2> QED BY <2>1, <2>3, <2>4, <2>5, <2>6, <2>7 DEF KernelOK
<1> QED BY <1>1, <1>2

\* Os_TaskMakeSuspended and Os_TaskMakeWaiting take a task out of the queue.
LEMMA MakeUnreadyOK ==
  ASSUME NEW s, KernelOK(s), NEW t \in Task, t # OsIdle,
         NEW st \in {"SUSPENDED", "WAIT_EVENT"},
         st = "WAIT_EVENT" => s.ev_set[t] \cap s.ev_wait[t] = {}
  PROVE  KernelOK(Os_TaskMakeUnready(s, t, st))
<1> DEFINE q == TAILQ_REMOVE(s.ready, t)
           ns == [s.state EXCEPT ![t] = st]
           n == [s EXCEPT !.state[t] = st, !.ready = TAILQ_REMOVE(@, t)]
<1>1. /\ KernelTyped(s) /\ s.state \in [Task -> States]
      /\ s.ready \in Seq(Task) /\ NoDuplicates(s.ready)
  BY RecordType DEF KernelOK, QueueOK
<1>2. /\ q \in Seq(Task) /\ NoDuplicates(q)
      /\ \A u \in Task : Linked(q, u) <=> Linked(s.ready, u) /\ u # t
  BY <1>1, DequeueLemma
<1>3. KernelTyped(n)
  BY <1>1, <1>2 DEF KernelTyped, Fields, States
<1>7. /\ n.state = ns /\ n.ready = q
      /\ n.ev_set = s.ev_set /\ n.ev_wait = s.ev_wait
  BY <1>1 DEF KernelTyped, Fields
<1> HIDE DEF q, n
<1>4. QueueOK(ns, q)
  BY <1>1, <1>2, IdleInTask DEF QueueOK, KernelOK
<1>5. WakeupOK(ns, s.ev_set, s.ev_wait)
  BY <1>1 DEF WakeupOK, KernelOK
<1>6. KernelOK(n)
  BY <1>3, <1>4, <1>5, <1>7 DEF KernelOK
<1> QED BY <1>6, AssertingOK DEF Os_TaskMakeUnready, n

\* Os_Arc_SetCleanContext may clear the events of a task that does not wait.
LEMMA CleanContextOK ==
  ASSUME NEW s, KernelOK(s), NEW t \in Task
  PROVE  /\ KernelOK(Os_Arc_SetCleanContext(s, t))
         /\ Os_Arc_SetCleanContext(s, t).state = s.state
         /\ Os_Arc_SetCleanContext(s, t).curr = s.curr
<1>1. CASE proc_type[t] = "EXTENDED"
  <2> DEFINE n == [s EXCEPT !.ev_set[t] = {}, !.ev_wait[t] = {}, !.ctx[t] = "entry"]
  <2>1. /\ KernelTyped(s)
        /\ s.ev_set \in [Task -> SUBSET Event] /\ s.ev_wait \in [Task -> SUBSET Event]
    BY RecordType
  <2>2. KernelTyped(n)
    BY <2>1 DEF KernelTyped, Fields, Contexts
  <2>5. /\ n.state = s.state /\ n.ready = s.ready /\ n.curr = s.curr
        /\ n.ev_set = [s.ev_set EXCEPT ![t] = {}]
        /\ n.ev_wait = [s.ev_wait EXCEPT ![t] = {}]
    BY <2>1 DEF KernelTyped, Fields
  <2>3. WakeupOK(s.state, [s.ev_set EXCEPT ![t] = {}], [s.ev_wait EXCEPT ![t] = {}])
    BY <2>1 DEF KernelOK, WakeupOK
  <2>4. Os_Arc_SetCleanContext(s, t) = n
    BY <1>1 DEF Os_Arc_SetCleanContext
  <2> HIDE DEF n
  <2> QED BY <2>2, <2>3, <2>4, <2>5 DEF KernelOK
<1>2. CASE proc_type[t] # "EXTENDED"
  <2> DEFINE n == [s EXCEPT !.ctx[t] = "entry"]
  <2>1. KernelOK(n) /\ n.state = s.state /\ n.curr = s.curr
    BY DEF KernelOK, KernelTyped, Fields, Contexts
  <2>2. Os_Arc_SetCleanContext(s, t) = n
    BY <1>2 DEF Os_Arc_SetCleanContext
  <2> HIDE DEF n
  <2> QED BY <2>1, <2>2
<1> QED BY <1>1, <1>2

\* Os_TaskResourceAdd raises the priority to a ceiling, which is a priority.
LEMMA ResourceAddOK ==
  ASSUME NEW s, KernelOK(s), NEW t \in Task, NEW r \in Resource
  PROVE  /\ KernelOK(Os_TaskResourceAdd(s, r, t))
         /\ Os_TaskResourceAdd(s, r, t).state = s.state
         /\ Os_TaskResourceAdd(s, r, t).curr = s.curr
<1> DEFINE held == IF r \in Internal THEN s.resources[t] ELSE Append(s.resources[t], r)
<1>1. s.resources[t] \in Seq(Resource) /\ s.activePriority[t] \in Priority
  BY DEF KernelOK, KernelTyped, Fields
<1>2. held \in Seq(Resource) /\ ceiling(r) \in Priority
  BY <1>1, CeilingType
<1> HIDE DEF held
<1> DEFINE n == [s EXCEPT !.owner[r] = t, !.old_task_prio[r] = s.activePriority[t],
                          !.activePriority[t] = ceiling(r), !.resources[t] = held]
<1>3. KernelOK(n) /\ n.state = s.state /\ n.curr = s.curr
  BY <1>1, <1>2 DEF KernelOK, KernelTyped, Fields
<1>4. Os_TaskResourceAdd(s, r, t) = n
  BY RecordType DEF Os_TaskResourceAdd, held, KernelTyped, Fields
<1> QED BY <1>3, <1>4

\* Os_TaskResourceRemove restores a saved priority.
LEMMA ResourceRemoveOK ==
  ASSUME NEW s, KernelOK(s), NEW t \in Task, NEW r \in Resource
  PROVE  /\ KernelOK(Os_TaskResourceRemove(s, r, t))
         /\ Os_TaskResourceRemove(s, r, t).state = s.state
         /\ Os_TaskResourceRemove(s, r, t).curr = s.curr
<1> DEFINE held == IF r \in Internal THEN s.resources[t] ELSE TAILQ_REMOVE(s.resources[t], r)
           n == [s EXCEPT !.owner[r] = NO_TASK_OWNER, !.activePriority[t] = s.old_task_prio[r],
                          !.resources[t] = held]
           m == [s EXCEPT !.owner[r] = NO_TASK_OWNER, !.activePriority[t] = s.old_task_prio[r],
                          !.resources[t] = IF r \in Internal THEN @ ELSE TAILQ_REMOVE(@, r)]
<1>1. s.resources[t] \in Seq(Resource) /\ s.old_task_prio[r] \in Priority
  BY DEF KernelOK, KernelTyped, Fields
<1>2. held \in Seq(Resource)
  BY <1>1, RemoveType
<1>3. m = n
  BY RecordType DEF KernelTyped, Fields
<1> HIDE DEF held
<1>4. KernelOK(n) /\ n.state = s.state /\ n.curr = s.curr
  BY <1>1, <1>2 DEF KernelOK, KernelTyped, Fields
<1> HIDE DEF n
<1>5. KernelOK(m) /\ m.state = s.state /\ m.curr = s.curr
  BY <1>3, <1>4
<1> HIDE DEF m
<1> QED BY <1>5, AssertingOK, Zenon DEF Os_TaskResourceRemove, m

\* Os_TaskResourceFreeAll leaves the queue and the task states alone.
LEMMA FreeAllOK ==
  ASSUME NEW s, KernelOK(s), NEW t \in Task
  PROVE  /\ KernelOK(Os_TaskResourceFreeAll(s, t))
         /\ Os_TaskResourceFreeAll(s, t).state = s.state
         /\ Os_TaskResourceFreeAll(s, t).curr = s.curr
<1> DEFINE held == s.resources[t]
<1>1. CASE held = <<>>
  BY <1>1 DEF Os_TaskResourceFreeAll
<1>2. CASE held # <<>>
  <2> DEFINE ow == [r \in Resource |-> IF r \in Range(held) THEN NO_TASK_OWNER ELSE s.owner[r]]
             back == s.old_task_prio[TAILQ_LAST(held)]
             n == [s EXCEPT !.owner = ow, !.activePriority[t] = back,
                            !.resources[t] = <<>>]
  <2>1. held \in Seq(Resource) /\ s.owner \in [Resource -> Task \cup {NO_TASK_OWNER}]
    BY DEF KernelOK, KernelTyped, Fields
  <2>2. TAILQ_LAST(held) \in Resource
    BY <2>1, <1>2 DEF TAILQ_LAST
  <2>3. back \in Priority /\ <<>> \in Seq(Resource)
    BY <2>2 DEF KernelOK, KernelTyped, Fields
  <2>4. ow \in [Resource -> Task \cup {NO_TASK_OWNER}]
    BY <2>1
  <2>5. Os_TaskResourceFreeAll(s, t) = Asserting(n, Len(held) = 1 /\ s.owner[TAILQ_LAST(held)] = t)
    BY <1>2 DEF Os_TaskResourceFreeAll
  <2> HIDE DEF held, ow, back
  <2>6. KernelOK(n) /\ n.state = s.state /\ n.curr = s.curr
    <3>1. KernelTyped(s)
      BY DEF KernelOK
    <3>2. KernelTyped(n)
      BY <2>3, <2>4, <3>1, ZenonT(30) DEF KernelTyped, Fields
    <3>3. /\ n.state = s.state /\ n.ready = s.ready /\ n.curr = s.curr
          /\ n.ev_set = s.ev_set /\ n.ev_wait = s.ev_wait
      BY <3>1 DEF KernelTyped, Fields
    <3> HIDE DEF n
    <3> QED BY <3>2, <3>3, Unaffected
  <2> HIDE DEF n
  <2> QED BY <2>5, <2>6, AssertingOK
<1> QED BY <1>1, <1>2

\* So do taking and releasing an internal resource.
LEMMA InternalOK ==
  ASSUME NEW s, KernelOK(s), NEW t \in Task
  PROVE  /\ KernelOK(Os_ResourceGetInternal(s, t))
         /\ Os_ResourceGetInternal(s, t).state = s.state
         /\ Os_ResourceGetInternal(s, t).curr = s.curr
         /\ KernelOK(Os_ResourceReleaseInternal(s, t))
         /\ Os_ResourceReleaseInternal(s, t).state = s.state
         /\ Os_ResourceReleaseInternal(s, t).curr = s.curr
<1>1. resourceInt[t] # NO_TASK_OWNER => resourceInt[t] \in Resource
  BY ResourceAssumption
<1> QED BY <1>1, ResourceAddOK, ResourceRemoveOK
     DEF Os_ResourceGetInternal, Os_ResourceReleaseInternal

\* The running task and the context it has are set; the task is in the queue.
LEMMA StartOK ==
  ASSUME NEW s, KernelOK(s), NEW t \in Task, s.state[t] \in {"READY", "RUNNING"}
  PROVE  /\ KernelOK(Os_TaskStartFromBeginning(s, t))
         /\ Os_TaskStartFromBeginning(s, t).curr = t
         /\ Os_TaskStartFromBeginning(s, t).state[t] = "RUNNING"
<1> DEFINE m == [s EXCEPT !.state[t] = "RUNNING"]
           n == [m EXCEPT !.curr = t, !.ctx[t] = "entry"]
<1>1. KernelOK(m) /\ m.state[t] = "RUNNING"
  BY ReadyStateOK, Zenon
<1>2. Os_TaskStartFromBeginning(s, t) = n
  BY RecordType DEF Os_TaskStartFromBeginning, KernelTyped, Fields
<1> HIDE DEF m
<1>3. KernelOK(n) /\ n.state = m.state /\ n.curr = t
  BY <1>1 DEF KernelOK, KernelTyped, Fields, Contexts
<1> HIDE DEF n
<1> QED BY <1>1, <1>2, <1>3

\* Os_TaskSwapContext makes the new task RUNNING and current.
LEMMA SwapContextOK ==
  ASSUME NEW s, KernelOK(s), NEW t \in Task, s.state[t] \in {"READY", "RUNNING"}
  PROVE  /\ KernelOK(Os_TaskSwapContext(s, t))
         /\ Os_TaskSwapContext(s, t).curr = t
         /\ Os_TaskSwapContext(s, t).state[t] = "RUNNING"
<1> DEFINE m == [s EXCEPT !.curr = t]
           got == Os_ResourceGetInternal(m, t)
           n == [got EXCEPT !.state[t] = "RUNNING"]
<1>1. KernelOK(m) /\ m.state = s.state /\ m.curr = t
  BY DEF KernelOK, KernelTyped, Fields
<1> HIDE DEF m
<1>2. KernelOK(got) /\ got.state = s.state /\ got.curr = t
  BY <1>1, InternalOK
<1> HIDE DEF got
<1>3. KernelOK(n) /\ n.curr = t /\ n.state[t] = "RUNNING"
  <2>1. KernelOK(got) /\ got.state[t] \in {"READY", "RUNNING"}
    BY <1>2
  <2>2. "RUNNING" \in {"READY", "RUNNING"}
    OBVIOUS
  <2>3. KernelOK(n) /\ n.state[t] = "RUNNING" /\ n.curr = got.curr
    BY <2>1, <2>2, ReadyStateOK, Zenon
  <2> HIDE DEF n
  <2> QED BY <1>2, <2>3
<1>4. Os_TaskSwapContext(s, t) = Asserting(n, s.ctx[t] # "ended")
  BY DEF Os_TaskSwapContext, m, got
<1> HIDE DEF n
<1> QED BY <1>3, <1>4, AssertingOK

\* The top of the ready queue exists and is a task of the queue.
LEMMA GetTopOK ==
  ASSUME NEW s, KernelOK(s)
  PROVE  /\ Os_TaskGetTop(s) \in Task
         /\ s.state[Os_TaskGetTop(s)] \in {"READY", "RUNNING"}
         /\ IsTop(s, Os_TaskGetTop(s))
<1> DEFINE q == s.ready
           P == {s.activePriority[q[i]] : i \in 1 .. Len(q)}
<1>1. /\ q \in Seq(Task) /\ s.activePriority \in [Task -> Priority]
      /\ OS_RES_SCHEDULER_PRIO \in Nat /\ DOMAIN q = 1 .. Len(q)
  BY ResourceAssumption DEF KernelOK, KernelTyped, Fields
<1>2. Linked(q, OsIdle)
  BY IdleInTask DEF KernelOK, QueueOK
<1>3. P \in SUBSET Nat /\ P # {} /\ \A x \in P : x <= OS_RES_SCHEDULER_PRIO
  BY <1>1, <1>2 DEF Linked, Priority
<1>4. PICK h \in P : \A x \in P : x <= h
  <2> HIDE DEF P
  <2> QED BY <1>1, <1>3, GreatestNatural, Zenon
<1> DEFINE I == {i \in 1 .. Len(q) : s.activePriority[q[i]] = h}
<1>5. I \in SUBSET Nat /\ I # {}
  BY <1>4
<1>6. PICK i \in I : \A j \in I : i <= j
  <2> HIDE DEF I
  <2> QED BY <1>5, LeastNatural, Zenon
<1>7. i \in 1 .. Len(q) /\ s.activePriority[q[i]] = h /\ q[i] \in Task
  BY <1>1, <1>6
<1>8. ASSUME NEW j \in 1 .. Len(q)
      PROVE  /\ s.activePriority[q[j]] <= h
             /\ j < i => s.activePriority[q[j]] < h
  <2>1. s.activePriority[q[j]] <= h
    BY <1>4
  <2>2. s.activePriority[q[j]] \in Nat /\ h \in Nat
    BY <1>3
  <2>3. ASSUME j < i PROVE s.activePriority[q[j]] # h
    BY <1>6, <1>7, <2>3
  <2> HIDE DEF P, I, q
  <2> QED BY <2>1, <2>2, <2>3
<1>9. IsTop(s, q[i])
  <2> HIDE DEF P, I
  <2> QED BY <1>1, <1>7, <1>8 DEF IsTop
<1>10. Os_TaskGetTop(s) \in Task /\ IsTop(s, Os_TaskGetTop(s))
  BY <1>7, <1>9 DEF Os_TaskGetTop
<1>11. Linked(q, Os_TaskGetTop(s))
  BY <1>1, <1>10 DEF IsTop, Linked
<1> QED BY <1>10, <1>11 DEF KernelOK, QueueOK

-----------------------------------------------------------------------------
(* Os_Dispatch                                                               *)

\* The activation count is no part of what keeps the kernel consistent.
LEMMA CountOK ==
  ASSUME NEW s, KernelOK(s), NEW t \in Task, NEW b \in 0 .. 255
  PROVE  /\ KernelOK([s EXCEPT !.activations[t] = b])
         /\ [s EXCEPT !.activations[t] = b].state = s.state
         /\ [s EXCEPT !.activations[t] = b].curr = s.curr
<1> DEFINE n == [s EXCEPT !.activations[t] = b]
<1>1. KernelOK(n) /\ n.state = s.state /\ n.curr = s.curr
  <2>1. KernelTyped(s)
    BY DEF KernelOK
  <2>2. KernelTyped(n)
    BY <2>1, ZenonT(30) DEF KernelTyped, Fields
  <2>3. /\ n.state = s.state /\ n.ready = s.ready /\ n.curr = s.curr
        /\ n.ev_set = s.ev_set /\ n.ev_wait = s.ev_wait
    BY <2>1 DEF KernelTyped, Fields
  <2> HIDE DEF n
  <2> QED BY <2>2, <2>3, Unaffected
<1> QED BY <1>1

\* A task that ends an instance leaves the queue or stays in it, READY or RUNNING.
LEMMA EndInstanceOK ==
  ASSUME NEW s, KernelOK(s), NEW t \in Task, t # OsIdle, NEW op,
         s.state[t] \in {"READY", "RUNNING"}
  PROVE  KernelOK(EndInstance(s, t, op))
<1> DEFINE a == s.activations[t]
           n == (a + 255) % 256
           m == [s EXCEPT !.activations[t] = n]
           s1 == Asserting(m, a > 0)
<1>1. n \in 0 .. 255
  <2>1. a \in 0 .. 255
    BY DEF KernelOK, KernelTyped, Fields
  <2> HIDE DEF a
  <2> QED BY <2>1, ByteType
<1> HIDE DEF n, a
<1>2. KernelOK(m) /\ m.state = s.state
  BY <1>1, CountOK, ZenonT(30)
<1> HIDE DEF m
<1>3. KernelOK(s1) /\ s1.state = s.state
  BY <1>2, AssertingOK
<1>4. EndInstance(s, t, op) = IF n = 0 THEN Os_TaskMakeUnready(s1, t, "SUSPENDED")
                              ELSE IF op = "CHAIN_TASK"
                              THEN [Os_TaskRunningToReady(s1, t) EXCEPT !.reactivation[t] = TRUE]
                              ELSE s1
  BY DEF EndInstance, n, m, a
<1> HIDE DEF s1
<1>5. KernelOK(Os_TaskMakeUnready(s1, t, "SUSPENDED"))
  BY <1>3, MakeUnreadyOK
<1> DEFINE r == Os_TaskRunningToReady(s1, t)
<1>6. KernelOK(r)
  BY <1>3, RunningToReadyOK
<1> HIDE DEF r
<1> DEFINE f == [r EXCEPT !.reactivation[t] = TRUE]
<1>7. KernelOK(f)
  <2>1. KernelTyped(r)
    BY <1>6 DEF KernelOK
  <2>2. KernelTyped(f)
    BY <2>1 DEF KernelTyped, Fields
  <2>3. /\ f.state = r.state /\ f.ready = r.ready /\ f.curr = r.curr
        /\ f.ev_set = r.ev_set /\ f.ev_wait = r.ev_wait
    BY <2>1 DEF KernelTyped, Fields
  <2> HIDE DEF f
  <2> QED BY <1>6, <2>2, <2>3, Unaffected
<1> QED BY <1>3, <1>4, <1>5, <1>7 DEF r

Ops == {"SET_EVENT", "SCHEDULE", "RELEASE_RESOURCE", "WAIT_EVENT", "ACTIVATE_TASK",
        "CHAIN_TASK", "TERMINATE_TASK"}

\* What the services guarantee when they call Os_Dispatch.
DispatchPre(s, op) ==
  /\ KernelOK(s) /\ op \in Ops
  /\ s.state[s.curr] = "RUNNING"
  /\ op \in {"WAIT_EVENT", "CHAIN_TASK", "TERMINATE_TASK"} => s.curr # OsIdle
  /\ op = "WAIT_EVENT" => s.ev_set[s.curr] \cap s.ev_wait[s.curr] = {}

\* The switch of Os_Dispatch keeps the kernel consistent for every operation.
LEMMA LeaveRunningOK ==
  ASSUME NEW s, NEW op, NEW chained, DispatchPre(s, op)
  PROVE  KernelOK(LeaveRunning(s, op, chained))
<1> DEFINE c == s.curr
<1>1. KernelOK(s) /\ op \in Ops /\ c \in Task /\ s.state[c] = "RUNNING"
  BY DEF DispatchPre, KernelOK, KernelTyped, Fields
<1>2. CASE op \in {"SET_EVENT", "SCHEDULE", "RELEASE_RESOURCE"}
  BY <1>1, <1>2, RunningToReadyOK DEF LeaveRunning
<1>3. CASE op = "WAIT_EVENT"
  <2>1. KernelOK(Os_TaskMakeUnready(s, c, "WAIT_EVENT"))
    BY <1>1, <1>3, MakeUnreadyOK DEF DispatchPre
  <2> QED BY <1>3, <2>1 DEF LeaveRunning
<1>4. CASE op = "ACTIVATE_TASK"
  <2>1. KernelOK(Os_TaskMakeReady(s, c))
    BY <1>1, MakeReadyOK
  <2> QED BY <1>4, <2>1 DEF LeaveRunning
<1>5. CASE op = "CHAIN_TASK"
  <2>1. KernelOK(EndInstance(s, c, op))
    BY <1>1, <1>5, EndInstanceOK DEF DispatchPre
  <2> QED BY <1>1, <1>5, <2>1 DEF LeaveRunning
<1>6. CASE op = "TERMINATE_TASK"
  <2>1. KernelOK(EndInstance(s, c, op))
    BY <1>1, <1>6, EndInstanceOK DEF DispatchPre
  <2> QED BY <1>6, <2>1 DEF LeaveRunning
<1> QED BY <1>1, <1>2, <1>3, <1>4, <1>5, <1>6 DEF Ops

\* The second half of Os_Dispatch makes the chosen task RUNNING and current.
LEMMA SwitchToOK ==
  ASSUME NEW s, KernelOK(s), NEW c \in Task, NEW top \in Task, NEW op,
         s.state[top] \in {"READY", "RUNNING"}
  PROVE  /\ KernelOK(SwitchTo(s, c, top, op))
         /\ SwitchTo(s, c, top, op).curr = top
         /\ SwitchTo(s, c, top, op).state[top] = "RUNNING"
<1> DEFINE s1 == Os_ResourceReleaseInternal(s, c)
           saved == IF op \in {"CHAIN_TASK", "TERMINATE_TASK"} THEN "ended" ELSE "middle"
           left == IF saved = "ended" THEN saved ELSE "unsaved"
           m == [s1 EXCEPT !.ctx[c] = saved]
           n == [s1 EXCEPT !.reactivation[top] = FALSE, !.ctx[c] = left]
<1>1. KernelOK(s1) /\ s1.state = s.state
  BY InternalOK
<1>2. saved \in Contexts /\ left \in Contexts
  BY DEF Contexts
<1>3. SwitchTo(s, c, top, op) = IF s1.reactivation[top] THEN Os_TaskStartFromBeginning(n, top)
                                ELSE Os_TaskSwapContext(m, top)
  BY Zenon DEF SwitchTo
<1> HIDE DEF s1, saved, left
<1>4. KernelOK(m) /\ m.state = s.state
  BY <1>1, <1>2, SMTT(30) DEF KernelOK, KernelTyped, Fields
<1>5. KernelOK(n) /\ n.state = s.state
  BY <1>1, <1>2, SMTT(30) DEF KernelOK, KernelTyped, Fields
<1> HIDE DEF m, n
<1> QED BY <1>3, <1>4, <1>5, StartOK, SwapContextOK

\* Os_Dispatch leaves the kernel consistent, with the current task RUNNING.
LEMMA DispatchOK ==
  ASSUME NEW s, NEW op, NEW chained, DispatchPre(s, op)
  PROVE  /\ KernelOK(Os_Dispatch(s, op, chained))
         /\ Os_Dispatch(s, op, chained).state[Os_Dispatch(s, op, chained).curr] = "RUNNING"
<1> DEFINE c == s.curr
           s0 == Asserting(s, /\ intNestCnt = 0
                              /\ s.owner[RES_SCHEDULER] = NO_TASK_OWNER
                              /\ s.state[c] = "RUNNING")
           s1 == LeaveRunning(s0, op, chained)
           top == Os_TaskGetTop(s1)
<1>1. c \in Task
  BY DEF DispatchPre, KernelOK, KernelTyped, Fields
<1>2. DispatchPre(s0, op)
  <2>1. /\ s0.ev_set = s.ev_set /\ s0.ev_wait = s.ev_wait
    BY DEF Asserting, DispatchPre, KernelOK, KernelTyped, Fields
  <2>2. KernelOK(s0) /\ s0.state = s.state /\ s0.curr = s.curr
    BY AssertingOK, Zenon DEF DispatchPre
  <2> HIDE DEF s0
  <2> QED BY <2>1, <2>2 DEF DispatchPre
<1>3. Os_Dispatch(s, op, chained) =
        IF top = c THEN Os_TaskStartFromBeginning(s1, c) ELSE SwitchTo(s1, c, top, op)
  BY Zenon DEF Os_Dispatch
<1> HIDE DEF s0
<1>4. KernelOK(s1)
  BY <1>2, LeaveRunningOK
<1> HIDE DEF s1
<1>5. top \in Task /\ s1.state[top] \in {"READY", "RUNNING"}
  BY <1>4, GetTopOK
<1> HIDE DEF top, c
<1> QED BY <1>1, <1>3, <1>4, <1>5, StartOK, SwitchToOK
=============================================================================
