------------------------------ MODULE FeeFlash ------------------------------
(***************************************************************************)
(* The flash EEPROM emulation (module Fee) with its user, the flash it     *)
(* drives, flash jobs that fail and losses of power.  The flash outlives a *)
(* loss of power; everything else starts again with Fee_Init.              *)
(***************************************************************************)
EXTENDS Fee

CONSTANTS
  Value,                   \* what the user writes in a block
  SectorSize,              \* pages of a sector of the flash; a bank is erased sector by sector
  Formatted,               \* the contents the flash may have when it is first used
  MaxJobs,                 \* bound on the jobs of the user
  MaxLoss,                 \* bound on the losses of power
  MaxFaults,               \* bound on the flash jobs that fail
  MayFail                  \* the states of Fee.c whose flash job may fail

VARIABLES
  flash,                   \* what each page holds
  store,                   \* history: what the flash holds for each block
  fee,                     \* the state of Fee.c
  thrown,                  \* history: the blocks Fee.c has given up for lack of room
  jobs, losses, faults     \* the jobs, losses of power and failures so far

vars == <<flash, store, fee, thrown, jobs, losses, faults>>

Address == 0..(2 * BankLength - 1)

\* The address and the length in an administration block are numbers
ASSUME FlashConfig ==
  /\ SectorSize \in Nat \ {0} /\ BankLength % SectorSize = 0
  /\ \A v \in Value : \E w \in Value : v # w
  /\ \A f \in Formatted : \A i \in Address : f[i].kind = "admin" => f[i].a \in Int /\ f[i].b \in Nat
  /\ {MaxJobs, MaxLoss, MaxFaults} \subseteq Nat

(***************************************************************************)
(* What the flash holds, said without reference to how Fee.c reads it: a   *)
(* block is what the last complete administration block for it says, in    *)
(* the newer bank or else in the older.                                    *)
(***************************************************************************)
Header(f, bank) == f[End(bank) - 1]
Valid(f) == {k \in Bank : Header(f, k).kind = "bank"}
Newer(f) == CHOOSE i \in Valid(f) :
              \A j \in Valid(f) \ {i} : Header(f, i).a = NEXT_BANK_COUNTERVAL(Header(f, j).a)

Slots(f, bank, b) == {a \in Start(bank)..FirstAdmin(bank) : f[a].kind = "admin" /\ f[a + 1] = AdminId(b)}
Contents(f, bank, b) ==
  LET a == f[Min(Slots(f, bank, b))].a
      held == {v \in Value : \A i \in 1..BlockSize[b] : f[a + i - 1] = Data(b, v, i)}
  IN CASE a = INVALIDATED_BLOCK -> "invalid"
       [] a # INVALIDATED_BLOCK /\ held = {} -> "garbage"
       [] OTHER -> CHOOSE v \in held : TRUE

Stored(f) ==
  [b \in Block |->
     LET banks == {k \in Valid(f) : Slots(f, k, b) # {}}
     IN IF banks = {} THEN "none"
        ELSE Contents(f, IF Newer(f) \in banks THEN Newer(f) ELSE CHOOSE k \in banks : TRUE, b)]

Init == /\ flash \in Formatted /\ store = Stored(flash) /\ fee = Fee_Init /\ thrown = {}
        /\ jobs = 0 /\ losses = 0 /\ faults = 0

(***************************************************************************)
(* The user and the main function                                          *)
(***************************************************************************)
Asks(f) == /\ Accepts(fee) /\ jobs < MaxJobs
           /\ jobs' = jobs + 1 /\ fee' = f /\ UNCHANGED <<flash, store, thrown, losses, faults>>

\* A write changes the block, so that the old data and the new can be told apart
UserRead(b) == Asks(Fee_Read(fee, b))
UserWrite(b) == Asks(Fee_Write(fee, b, CHOOSE v \in Value : v # store[b]))
UserInvalidate(b) == Asks(Fee_InvalidateBlock(fee, b))

Up(f) == f.status # "BUSY_INTERNAL" /\ f.State # "CORRUPTED"

\* From f to g the main function gives up a block, or ends the write of one
GivenUp(f, g) == {b \in Block : Up(f) /\ f.table[b] # BLOCK_CORRUPT /\ g.table[b] = BLOCK_CORRUPT}
Written(f, g) == IF "WRITE" \in f.pending \ g.pending THEN {f.job.block} ELSE {}

\* A state that waits for the flash job only looks at it once it has ended
Runs == fee.fls.res # "PENDING" /\ fee' = Fee_MainFunction(fee)
MainFunction == /\ Runs
                /\ thrown' = (thrown \cup GivenUp(fee, fee')) \ Written(fee, fee')
                /\ UNCHANGED <<flash, store, jobs, losses, faults>>

(***************************************************************************)
(* The flash and its driver.  A page can be written once after an erase;   *)
(* to write it again, or to be cut short, leaves a page that reads as      *)
(* inconsistent.                                                           *)
(***************************************************************************)
In(i, first, n) == first <= i /\ i < first + n
Programmed(job) == [i \in Address |-> IF ~In(i, job.addr, job.n) THEN flash[i]
                                      ELSE IF flash[i] = Erased THEN job.pages[i - job.addr + 1] ELSE Torn]
Wiped(job) == [i \in Address |-> IF In(i, job.addr, job.n) THEN Erased ELSE flash[i]]

Complete(job) == CASE job.op = "write" -> Programmed(job)
                   [] job.op = "erase" -> Wiped(job)
                   [] OTHER -> flash

\* What a job that is cut short may leave: nothing done or something half done
CutShort(job) ==
  {flash} \cup
  CASE job.op = "write" -> {[i \in Address |-> IF In(i, job.addr, job.n) THEN Torn ELSE flash[i]]}
    [] job.op = "erase" -> {[i \in Address |-> IF In(i, job.addr, k) THEN Erased
                                               ELSE IF In(i, job.addr + k, SectorSize) THEN Torn
                                               ELSE flash[i]] :
                             k \in {j \in 0..(job.n - 1) : j % SectorSize = 0}}
    [] OTHER -> {}

ReadBack(job) == [i \in 1..job.n |-> flash[job.addr + i - 1]]
FlsResult(job) == IF job.op = "read" /\ \E i \in 1..job.n : ReadBack(job)[i] = Torn
                    THEN "INCONSISTENT" ELSE "OK"
Ended(job, res) == [fee EXCEPT !.fls = [NoFlsJob EXCEPT !.res = res],
                               !.buffer = IF job.op = "read" THEN ReadBack(job) ELSE <<>>]

Ends == fee.fls.res = "PENDING" /\ fee' = Ended(fee.fls, FlsResult(fee.fls))
FlsDone == /\ Ends
           /\ flash' = Complete(fee.fls) /\ store' = Stored(flash')
           /\ UNCHANGED <<thrown, jobs, losses, faults>>

FlsFails == /\ fee.fls.res = "PENDING" /\ fee.State \in MayFail /\ faults < MaxFaults
            /\ faults' = faults + 1
            /\ flash' \in CutShort(fee.fls) /\ store' = Stored(flash')
            /\ fee' = Ended(fee.fls, "FAILED")
            /\ UNCHANGED <<thrown, jobs, losses>>

PowerLoss == /\ losses < MaxLoss /\ losses' = losses + 1
             /\ flash' \in IF fee.fls.res = "PENDING" THEN CutShort(fee.fls) \cup {Complete(fee.fls)} ELSE {flash}
             /\ store' = Stored(flash')
             /\ fee' = Fee_Init
             /\ UNCHANGED <<thrown, jobs, faults>>

Next == \/ \E b \in Block : UserRead(b) \/ UserWrite(b) \/ UserInvalidate(b)
        \/ MainFunction \/ FlsDone \/ FlsFails \/ PowerLoss

\* Fee_MainFunction is called in a periodic task, and the flash driver ends every job
Spec == Init /\ [][Next]_vars /\ WF_fee(Runs) /\ WF_fee(Ends)

(***************************************************************************)
(* Fee implements the store                                                *)
(***************************************************************************)
RequestedValue == IF fee.job.invalidate THEN "invalid" ELSE fee.job.value
JobUnderWay == CASE fee.status # "BUSY" -> [op |-> "none", block |-> 0, value |-> "none"]
                 [] fee.status = "BUSY" /\ "READ" \in fee.pending ->
                      [op |-> "read", block |-> fee.job.block, value |-> "none"]
                 [] OTHER -> [op |-> "write", block |-> fee.job.block, value |-> RequestedValue]

Store == INSTANCE FeeStore WITH
           status <- fee.status,
           job <- JobUnderWay,
           answer <- IF fee.status = "IDLE" THEN [res |-> fee.result, value |-> RequestedValue]
                     ELSE [res |-> "PENDING", value |-> "none"]

\* Fee is a store of blocks that loses nothing it has reported written: a write takes effect in one
\* step (the id page), a read answers what the block holds, a loss of power or a failed flash job
\* leaves the old contents or the new, and garbage collection and erasing change nothing.
ImplementsStore == Store!Spec

(***************************************************************************)
(* Properties                                                              *)
(***************************************************************************)
\* Every flash job stays within one bank, and the data of a block go between the addresses for the
\* next block (AdminFls.Write): they never run into the administration that grows towards them.
FlsInBank ==
  LET job == fee.fls
  IN job.res = "PENDING" =>
       /\ job.n > 0
       /\ \E k \in Bank : job.addr..(job.addr + job.n - 1) \subseteq Start(k)..(End(k) - 1)
       /\ fee.State \in {"WRITE_DATA_WAIT", "GARBAGE_COLLECT_WRITE_DATA_WAIT"} =>
            fee.NewBlockDataAddress <= job.addr /\ job.addr + job.n <= fee.NewBlockAdminAddress

\* Every flash job stays within one bank and every write goes to pages erased since they were last
\* written, whatever writes failed or were cut short before: the addresses for the next block
\* (AdminFls.Write) are past everything in the bank, and never run into each other.
FlsJobOK ==
  /\ FlsInBank
  /\ fee.fls.res = "PENDING" /\ fee.fls.op = "write" =>
       \A i \in fee.fls.addr..(fee.fls.addr + fee.fls.n - 1) : flash[i] = Erased

\* After start-up the block table of Fee.c says what the flash says of every block, except the one
\* being written and those given up for lack of room: the scan of the banks, the writes and the
\* garbage collection agree on which copy of a block is the last, also when the counter has wrapped.
TableOK ==
  Up(fee) => \A b \in Block \ thrown :
          \/ "WRITE" \in fee.pending /\ b = fee.job.block
          \/ LET a == fee.table[b]
             IN store[b] = CASE a = BLOCK_CORRUPT -> "none"
                              [] a = INVALIDATED_BLOCK -> "invalid"
                              [] OTHER -> flash[a].b

\* The start-up ends, and every read and write ends, although flash jobs fail and the bank has to be
\* emptied by garbage collection and erased first.
JobsEnd == fee.status # "IDLE" /\ ~fee.job.invalidate ~> fee.status = "IDLE"

\* An invalidation ends as well: when there is no room the block is given up and "next call to idle
\* will continue with garbage collect of the other blocks" (IdleWrite).
InvalidationsEnd == fee.status # "IDLE" /\ fee.job.invalidate ~> fee.status = "IDLE"
=============================================================================
