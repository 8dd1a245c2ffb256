-------------------------------- MODULE Fee --------------------------------
(***************************************************************************)
(* Flash EEPROM emulation (Fee.c): blocks of data kept in two banks of     *)
(* flash.  A block is written to a new place, first the data page of its   *)
(* administration, then the data, then the id page that makes it valid;    *)
(* when both banks hold data the blocks of the older one are copied to the *)
(* newer (garbage collection) and the older one is erased.                 *)
(*                                                                         *)
(* The C functions are operators on the record s that holds AdminFls,      *)
(* CurrentJob, RWBuffer and the status variables; a job handed to the      *)
(* flash driver is left in s.fls.  Addresses and lengths are in pages, and *)
(* the pages are records that say what is written on them.                 *)
(*                                                                         *)
(* Fee is the only client of the driver, which is idle when Fee asks it,   *)
(* and the driver refuses (E_NOT_OK) only a job outside the flash: the     *)
(* states that wait for an idle driver and the branches for a refused job  *)
(* are left out, and FlsJobOK shows that no job gives a reason to refuse.  *)
(***************************************************************************)
EXTENDS Integers, Sequences, FiniteSetsExt, Functions

CONSTANTS
  BlockSize,               \* sequence: the pages of each configured block
  BankLength,              \* pages of a bank
  BeyondSize,              \* the block size read beyond the end of Fee_Config.BlockConfig
  MAX_NOF_FAILED_WRITE_ATTEMPTS,
  MAX_NOF_FAILED_GC_ATTEMPTS,
  MAX_NOF_FAILED_STARTUP_ATTEMPTS

Block == 1..Len(BlockSize)
SizeOf(b) == IF b \in Block THEN BlockSize[b] ELSE BeyondSize

BANK_CTRL_SIZE == 1
BLOCK_CTRL_DATA_PAGE_SIZE == 1
ADMIN_SIZE == 2
RWBUFFER_SIZE == 2
INVALIDATED_BLOCK == -3    \* 0xfffffffd and 0xffffffff: no addresses of a bank
BLOCK_CORRUPT == -1
BANK_COUNTER_INVALID == 0

\* A bank has room for its header and one block, whichever
ASSUME FeeConfig ==
  /\ BlockSize \in Seq(Nat \ {0}) /\ BlockSize # <<>>
  /\ BankLength \in Nat /\ BeyondSize \in Nat
  /\ \A b \in Block : BlockSize[b] + ADMIN_SIZE + BANK_CTRL_SIZE <= BankLength
  /\ {MAX_NOF_FAILED_WRITE_ATTEMPTS, MAX_NOF_FAILED_GC_ATTEMPTS, MAX_NOF_FAILED_STARTUP_ATTEMPTS} \subseteq Nat

Bank == {0, 1}
Start(bank) == bank * BankLength
End(bank) == (bank + 1) * BankLength
FirstAdmin(bank) == End(bank) - (ADMIN_SIZE + BANK_CTRL_SIZE)
NEXT_BANK_IDX(bank) == 1 - bank
NEXT_BANK_COUNTERVAL(c) == IF c = 254 THEN 1 ELSE c + 1
IS_ADDRESS_WITHIN_BANK(addr, bank) == Start(bank) <= addr /\ addr < End(bank)
TotalFeeSize == FoldFunction(+, 0, [b \in Block |-> BlockSize[b] + ADMIN_SIZE])
\* Slip: the counters are compared without the cast, as if they never wrapped
Signed8_Slip(x) == x

Signed8(x) == ((x + 128) % 256) - 128

(***************************************************************************)
(* What a page holds                                                       *)
(***************************************************************************)
Page(kind, a, b, c) == [kind |-> kind, a |-> a, b |-> b, c |-> c]
Erased == Page("erased", 0, 0, 0)
Torn == Page("torn", 0, 0, 0)                          \* half written or half erased
BankHeader(counter) == Page("bank", counter, 0, 0)
AdminData(addr, len) == Page("admin", addr, len, 0)
AdminId(b) == Page("id", b, 0, 0)
Data(b, v, i) == Page("data", b, v, i)                 \* page i of the value v of block b

(***************************************************************************)
(* Helpers                                                                 *)
(***************************************************************************)
FlsJob(op, addr, n, pages) == [op |-> op, addr |-> addr, n |-> n, pages |-> pages, res |-> "PENDING"]
Read(s, addr, n, next) == [s EXCEPT !.State = next, !.fls = FlsJob("read", addr, n, <<>>)]
Write(s, addr, pages, next) == [s EXCEPT !.State = next, !.fls = FlsJob("write", addr, Len(pages), pages)]

NoStartup == [bank |-> 0, min |-> 0, stat |-> [i \in Bank |-> 0], admin |-> 0, data |-> 0]

Remaining(s) == s.NewBlockAdminAddress - s.NewBlockDataAddress

AbortStartup(s) ==
  LET f == [s EXCEPT !.FailCounter = @ + 1]
  IN IF f.FailCounter >= MAX_NOF_FAILED_STARTUP_ATTEMPTS
       THEN [f EXCEPT !.State = "CORRUPTED", !.status = "IDLE"]
       ELSE [f EXCEPT !.State = "STARTUP_REQUESTED"]

\* CurrentJob.Startup is not read again
FinishStartup(s) == [s EXCEPT !.FailCounter = 0, !.State = "IDLE", !.status = "IDLE", !.startup = NoStartup]

FinishJob(s, jobResult) ==
  [s EXCEPT !.FailCounter = 0, !.State = "IDLE", !.status = "IDLE", !.result = jobResult]

\* Slip: the next attempt goes to the same place
AbortWriteJob_Slip(s) ==
  LET f == [s EXCEPT !.FailCounter = @ + 1]
  IN IF f.FailCounter > MAX_NOF_FAILED_WRITE_ATTEMPTS THEN FinishJob(f, "FAILED")
     ELSE [f EXCEPT !.State = "IDLE"]

AbortWriteJob(s) ==
  LET f == [s EXCEPT !.NewBlockDataAddress = IF s.job.invalidate THEN @ ELSE @ + SizeOf(s.job.block),
                     !.NewBlockAdminAddress = @ - ADMIN_SIZE,
                     !.FailCounter = @ + 1]
  IN IF f.FailCounter > MAX_NOF_FAILED_WRITE_ATTEMPTS THEN FinishJob(f, "FAILED")
     ELSE [f EXCEPT !.State = "IDLE"]

AbortGCJob(s) ==
  LET f == [s EXCEPT !.NewBlockDataAddress = @ + SizeOf(s.gcBlock),
                     !.NewBlockAdminAddress = @ - ADMIN_SIZE,
                     !.FailCounter = @ + 1]
  IN IF f.FailCounter > MAX_NOF_FAILED_GC_ATTEMPTS
       THEN [(IF s.status # "IDLE" THEN FinishJob(f, "FAILED") ELSE f) EXCEPT
               !.State = "CORRUPTED", !.status = "IDLE"]
       ELSE [f EXCEPT !.State = "IDLE"]

(***************************************************************************)
(* Start-up                                                                *)
(***************************************************************************)
StartupReadBankHeader(s) ==
  Read(s, End(s.startup.bank) - BANK_CTRL_SIZE, BANK_CTRL_SIZE, "STARTUP_READ_BANK_HEADER_WAIT")

StartupRequested(s) ==
  StartupReadBankHeader([s EXCEPT !.startup.bank = 0, !.table = [b \in Block |-> BLOCK_CORRUPT],
                                  !.pending = {}])

StartupReadBlockAdmin(s) ==
  Read(s, s.startup.admin, ADMIN_SIZE, "STARTUP_READ_BLOCK_ADMIN_WAIT")

\* The scan goes to the first administration block of a bank
ScanBank(s, bank) ==
  [s EXCEPT !.startup.bank = bank, !.startup.admin = FirstAdmin(bank), !.startup.data = Start(bank),
            !.State = "STARTUP_READ_BLOCK_ADMIN"]

AllHeadersRead(s) ==
  LET stat == s.startup.stat
      valid == {i \in Bank : stat[i] # BANK_COUNTER_INVALID}
      min == IF valid = Bank THEN (IF Signed8(stat[1] - stat[0]) < 0 THEN 1 ELSE 0)
             ELSE IF valid = {} THEN 0 ELSE CHOOSE i \in valid : TRUE
      r == IF valid # Bank THEN [s EXCEPT !.pending = @ \cup {"ERASE"}]
           ELSE [s EXCEPT !.eraseBank = min, !.nextBankCounter = NEXT_BANK_COUNTERVAL(stat[1 - min])]
  IN IF valid = {}
       THEN [FinishStartup([r EXCEPT !.nextBankCounter = 1, !.eraseBank = 0, !.gcBank = 0, !.writeBank = 0,
                                     !.NewBlockAdminAddress = FirstAdmin(0),
                                     !.NewBlockDataAddress = Start(0)])
               EXCEPT !.State = "ERASE_BANK"]
       ELSE ScanBank([r EXCEPT !.startup.min = min, !.gcBank = min], min)

StartupReadBankHeaderWait(s) ==
  LET page == s.buffer[1]
      ok == s.fls.res = "OK" /\ page.kind = "bank" /\ page.a \notin {BANK_COUNTER_INVALID, 255}
      r == [s EXCEPT !.startup.stat[s.startup.bank] = IF ok THEN page.a ELSE BANK_COUNTER_INVALID,
                     !.startup.bank = @ + 1]
  IN IF s.fls.res = "FAILED" THEN AbortStartup(s)
     ELSE IF r.startup.bank \in Bank
       THEN StartupReadBankHeader(r)
       ELSE AllHeadersRead(r)

WriteHere(s) ==
  [s EXCEPT !.writeBank = s.startup.bank, !.NewBlockAdminAddress = s.startup.admin,
            !.NewBlockDataAddress = s.startup.data]

\* The next bank starts a new scan in the same call; the room left is an unsigned difference
HandleHeadAdminBlock(s) ==
  LET bank == s.startup.bank
      next == NEXT_BANK_IDX(bank)
      w == WriteHere(s)
      more == bank # s.startup.min
      g == IF more THEN [w EXCEPT !.pending = @ \cup {"GC"}, !.gcBlock = 1] ELSE w
      full == Remaining(g) \in 0..(TotalFeeSize - 1)
      e == IF bank = s.startup.min THEN w ELSE s
  IN IF s.startup.admin # FirstAdmin(bank)
       THEN CASE next = s.startup.min ->
                   FinishStartup([g EXCEPT !.pending = IF full THEN @ \cup {"FORCED_GC"} ELSE @])
              [] next # s.startup.min /\ s.startup.stat[next] = BANK_COUNTER_INVALID ->
                   FinishStartup([g EXCEPT !.nextBankCounter = NEXT_BANK_COUNTERVAL(s.startup.stat[bank]),
                                           !.eraseBank = next])
              [] OTHER -> StartupReadBlockAdmin(ScanBank(g, next))
       ELSE FinishStartup(
              IF "ERASE" \in e.pending
                THEN [e EXCEPT !.nextBankCounter = NEXT_BANK_COUNTERVAL(s.startup.stat[bank]),
                               !.eraseBank = next]
                ELSE e)

StartupReadBlockAdminWait(s) ==
  LET data == s.buffer[1]
      id == s.buffer[2]
      inBank == /\ s.startup.data <= data.a /\ data.a < s.startup.admin
                /\ data.a + data.b <= s.startup.admin
      dataOk == data.kind = "admin" /\ (data.a = INVALIDATED_BLOCK \/ inBank)
      idOk == s.fls.res = "OK" /\ id.kind = "id" /\ SizeOf(id.a) = data.b
      t == IF dataOk /\ idOk THEN [s EXCEPT !.table[id.a] = data.a] ELSE s
      r == [t EXCEPT !.startup.data = IF dataOk /\ data.a # INVALIDATED_BLOCK THEN data.a + data.b ELSE @,
                     !.startup.admin = @ - ADMIN_SIZE]
      blank == s.fls.res = "OK" /\ data = Erased /\ id = Erased
  IN IF s.fls.res = "FAILED" THEN AbortStartup(s)
     ELSE IF blank THEN HandleHeadAdminBlock(s)
     ELSE IF r.startup.admin >= r.startup.data
       THEN StartupReadBlockAdmin(r)
       ELSE HandleHeadAdminBlock(r)

(***************************************************************************)
(* Jobs of the user.  Fee_Read, Fee_Write and Fee_InvalidateBlock leave    *)
(* the block, the data and the invalidate flag in s.job; the first and the *)
(* other two share the memory of a union.                                  *)
(***************************************************************************)
Done(s, job) == [s EXCEPT !.pending = @ \ {job}]

Reading(s) ==
  LET addr == s.table[s.job.block]
  IN CASE addr = INVALIDATED_BLOCK -> FinishJob(Done(s, "READ"), "BLOCK_INVALID")
       [] addr = BLOCK_CORRUPT -> FinishJob(Done(s, "READ"), "BLOCK_INCONSISTENT")
       [] OTHER -> Read(s, addr, SizeOf(s.job.block), "READ_WAIT")

ReadWait(s) ==
  IF s.fls.res = "OK" THEN FinishJob(Done([s EXCEPT !.job.value = s.buffer[1].b], "READ"), "OK")
  ELSE FinishJob(Done(s, "READ"), "BLOCK_INCONSISTENT")

WriteAdminData(s, addr, b, next) == Write(s, s.NewBlockAdminAddress, <<AdminData(addr, SizeOf(b))>>, next)
WriteAdminId(s, b, next) ==
  Write(s, s.NewBlockAdminAddress + BLOCK_CTRL_DATA_PAGE_SIZE, <<AdminId(b)>>, next)

WriteStartJob(s) ==
  WriteAdminData(s, IF s.job.invalidate THEN INVALIDATED_BLOCK ELSE s.NewBlockDataAddress, s.job.block,
                 "WRITE_ADMIN_DATA_WAIT")

WriteData(s) ==
  LET b == s.job.block
  IN Write(s, s.NewBlockDataAddress, [i \in 1..SizeOf(b) |-> Data(b, s.job.value, i)], "WRITE_DATA_WAIT")

WriteDataWait(s) ==
  IF s.fls.res = "OK" THEN WriteAdminId(s, s.job.block, "WRITE_ADMIN_ID_WAIT") ELSE AbortWriteJob(s)

WriteAdminDataWait(s) ==
  CASE s.fls.res = "OK" /\ s.job.invalidate -> WriteDataWait(s)
    [] s.fls.res = "OK" /\ ~s.job.invalidate -> WriteData(s)
    [] OTHER -> Read(s, s.NewBlockAdminAddress, ADMIN_SIZE, "WRITE_CHECK_ADMIN_DATA_WAIT")

BlankCheck(s) == s.fls.res = "OK" /\ \A i \in 1..Len(s.buffer) : s.buffer[i] = Erased

WriteCheckAdminDataWait(s) ==
  IF BlankCheck(s) THEN [s EXCEPT !.State = "IDLE"] ELSE AbortWriteJob(s)

WriteAdminIdWait(s) ==
  LET b == s.job.block
      addr == IF s.job.invalidate THEN INVALIDATED_BLOCK ELSE s.NewBlockDataAddress
      r == IF s.fls.res = "OK" THEN FinishJob(Done([s EXCEPT !.table[b] = addr], "WRITE"), "OK")
           ELSE [s EXCEPT !.State = "IDLE", !.FailCounter = @ + 1]
  IN [r EXCEPT !.NewBlockDataAddress = IF s.job.invalidate THEN @ ELSE @ + SizeOf(b),
               !.NewBlockAdminAddress = @ - ADMIN_SIZE]

(***************************************************************************)
(* Erasing a bank                                                          *)
(***************************************************************************)
EraseBank(s) ==
  [s EXCEPT !.State = "ERASE_BANK_WAIT", !.fls = FlsJob("erase", Start(s.eraseBank), BankLength, <<>>)]

EraseBankWait(s) ==
  IF s.fls.res = "OK"
    THEN Write(s, End(s.eraseBank) - BANK_CTRL_SIZE, <<BankHeader(s.nextBankCounter)>>,
               "WRITE_BANK_HEADER_WAIT")
    ELSE [s EXCEPT !.State = "IDLE", !.FailCounter = @ + 1]

WriteBankHeaderWait(s) ==
  LET next == NEXT_BANK_IDX(s.eraseBank)
      f == [s EXCEPT !.FailCounter = @ + 1]
  IN CASE s.fls.res = "OK" ->
            [s EXCEPT !.nextBankCounter = NEXT_BANK_COUNTERVAL(@), !.eraseBank = next, !.State = "IDLE",
                      !.pending = IF s.gcBank = next THEN @ \ {"ERASE"} ELSE @]
       [] s.fls.res # "OK" /\ f.FailCounter > MAX_NOF_FAILED_GC_ATTEMPTS ->
            IF s.status # "IDLE" THEN FinishJob(f, "FAILED") ELSE [f EXCEPT !.State = "CORRUPTED"]
       [] OTHER -> [f EXCEPT !.State = "ERASE_BANK"]

(***************************************************************************)
(* Garbage collection                                                      *)
(***************************************************************************)
GarbageCollectStartJob(s) ==
  WriteAdminData(s, IF s.table[s.gcBlock] = INVALIDATED_BLOCK THEN INVALIDATED_BLOCK ELSE s.NewBlockDataAddress,
                 s.gcBlock, "GARBAGE_COLLECT_WRITE_ADMIN_DATA_WAIT")

\* The pages of the block that go through RWBuffer next
GarbageCollectSize(s) == Min({SizeOf(s.gcBlock) - s.gcOffset, RWBUFFER_SIZE})

GarbageCollectRead(s) ==
  Read(s, s.table[s.gcBlock] + s.gcOffset, GarbageCollectSize(s), "GARBAGE_COLLECT_READ_WAIT")

GarbageCollectWriteAdminDataWait(s) ==
  CASE s.fls.res = "OK" /\ s.table[s.gcBlock] = INVALIDATED_BLOCK ->
         WriteAdminId(s, s.gcBlock, "GARBAGE_COLLECT_WRITE_ADMIN_ID_WAIT")
    [] s.fls.res = "OK" /\ s.table[s.gcBlock] # INVALIDATED_BLOCK ->
         GarbageCollectRead([s EXCEPT !.gcOffset = 0])
    [] OTHER -> Read(s, s.NewBlockAdminAddress, ADMIN_SIZE, "GARBAGE_COLLECT_WRITE_CHECK_ADMIN_DATA_WAIT")

GarbageCollectWriteData(s) ==
  [Write(s, s.NewBlockDataAddress + s.gcOffset, s.buffer, "GARBAGE_COLLECT_WRITE_DATA_WAIT")
     EXCEPT !.gcOffset = @ + GarbageCollectSize(s)]

GarbageCollectReadWait(s) ==
  IF s.fls.res = "OK" THEN GarbageCollectWriteData(s)
  ELSE AbortGCJob([s EXCEPT !.table[s.gcBlock] = BLOCK_CORRUPT, !.gcBlock = @ + 1])

\* Slip: the last pages of the block are taken for written while they are read
GarbageCollectWriteDataWait_Slip(s) ==
  CASE s.fls.res = "OK" /\ s.gcOffset + RWBUFFER_SIZE >= SizeOf(s.gcBlock) ->
         WriteAdminId(s, s.gcBlock, "GARBAGE_COLLECT_WRITE_ADMIN_ID_WAIT")
    [] s.fls.res = "OK" /\ s.gcOffset + RWBUFFER_SIZE < SizeOf(s.gcBlock) -> GarbageCollectRead(s)
    [] OTHER -> AbortGCJob(s)

GarbageCollectWriteDataWait(s) ==
  CASE s.fls.res = "OK" /\ s.gcOffset >= SizeOf(s.gcBlock) ->
         WriteAdminId(s, s.gcBlock, "GARBAGE_COLLECT_WRITE_ADMIN_ID_WAIT")
    [] s.fls.res = "OK" /\ s.gcOffset < SizeOf(s.gcBlock) -> GarbageCollectRead(s)
    [] OTHER -> AbortGCJob(s)

GarbageCollectWriteAdminIdWait(s) ==
  LET moved == [s EXCEPT !.table[s.gcBlock] = s.NewBlockDataAddress,
                         !.NewBlockDataAddress = @ + SizeOf(s.gcBlock)]
  IN IF s.fls.res # "OK" THEN AbortGCJob(s)
     ELSE [(IF s.table[s.gcBlock] # INVALIDATED_BLOCK THEN moved ELSE s)
             EXCEPT !.NewBlockAdminAddress = @ - ADMIN_SIZE, !.gcBlock = @ + 1, !.State = "IDLE"]

GarbageCollectWriteCheckAdminDataWait(s) ==
  IF BlankCheck(s) THEN [s EXCEPT !.State = "IDLE", !.FailCounter = @ + 1] ELSE AbortGCJob(s)

(***************************************************************************)
(* The state Idle picks the next job: a read, a write, an erase, the       *)
(* forced garbage collection that runs when the banks are nearly full, the *)
(* garbage collection that waits for blocks to be rewritten.               *)
(***************************************************************************)
InGcBank(s, b) == IS_ADDRESS_WITHIN_BANK(s.table[b], s.gcBank)

\* Slip: the room is judged again while the garbage collection is forced
IdleWrite_Slip(s) ==
  LET nextBank == NEXT_BANK_IDX(s.writeBank)
      bytesToWrite == IF s.job.invalidate THEN 0 ELSE SizeOf(s.job.block)
  IN IF nextBank = s.gcBank /\ Remaining(s) < TotalFeeSize + bytesToWrite + ADMIN_SIZE
       THEN [s EXCEPT !.pending = @ \cup {"FORCED_GC"}]
       ELSE WriteStartJob(s)

IdleWrite(s) ==
  LET nextBank == NEXT_BANK_IDX(s.writeBank)
      bytesToWrite == IF s.job.invalidate THEN 0 ELSE SizeOf(s.job.block)
  IN CASE /\ "FORCED_GC" \notin s.pending /\ nextBank = s.gcBank
          /\ Remaining(s) < TotalFeeSize + bytesToWrite + ADMIN_SIZE ->
            [s EXCEPT !.pending = @ \cup {"FORCED_GC"}]
       [] OTHER ->
            CASE Remaining(s) >= bytesToWrite -> WriteStartJob(s)
              [] Remaining(s) < bytesToWrite /\ nextBank = s.gcBank ->
                   [s EXCEPT !.table[s.job.block] = BLOCK_CORRUPT]
              [] Remaining(s) < bytesToWrite /\ nextBank # s.gcBank /\ nextBank = s.eraseBank ->
                   [s EXCEPT !.State = "ERASE_BANK"]
              [] OTHER -> WriteStartJob([s EXCEPT !.writeBank = nextBank,
                                                  !.NewBlockAdminAddress = FirstAdmin(nextBank),
                                                  !.NewBlockDataAddress = Start(nextBank),
                                                  !.pending = @ \cup {"GC"}])

\* The garbage collection moves on to the first of its blocks, or past the last
Search(s, found) == [s EXCEPT !.gcBlock = Min((@..Len(BlockSize) \cap found) \cup {Len(BlockSize) + 1})]

GarbageCollectDone(s, flags) ==
  LET next == NEXT_BANK_IDX(s.gcBank)
  IN [s EXCEPT !.gcBank = next, !.gcBlock = 1,
               !.pending = (@ \ (IF next = s.writeBank THEN flags \cup {"GC"} ELSE flags)) \cup {"ERASE"}]

IdleForcedGarbageCollect(s) ==
  LET r == Search(s, {b \in Block : s.table[b] = INVALIDATED_BLOCK \/ InGcBank(s, b)})
      b == r.gcBlock
      bytesToWrite == IF s.table[b] = INVALIDATED_BLOCK THEN 0 ELSE SizeOf(b)
  IN CASE b \notin Block -> GarbageCollectDone(r, {"FORCED_GC"})
       [] b \in Block /\ bytesToWrite > Remaining(s) ->
            [r EXCEPT !.table[b] = BLOCK_CORRUPT, !.gcBlock = @ + 1]
       [] OTHER -> GarbageCollectStartJob(r)

IdleGarbageCollect(s) ==
  LET r == Search(s, {b \in Block : (s.table[b] = INVALIDATED_BLOCK /\ Remaining(s) >= 0) \/ InGcBank(s, b)})
      b == r.gcBlock
  IN CASE b \notin Block -> GarbageCollectDone(r, {})
       [] b \in Block /\ s.table[b] = INVALIDATED_BLOCK -> GarbageCollectStartJob(r)
       [] OTHER -> r

Idle(s) ==
  CASE "READ" \in s.pending -> Reading(s)
    [] /\ "READ" \notin s.pending /\ "WRITE" \in s.pending
       /\ "FORCED_GC" \notin s.pending \/ s.job.invalidate \/ InGcBank(s, s.job.block) -> IdleWrite(s)
    [] OTHER ->
       CASE "ERASE" \in s.pending -> [s EXCEPT !.State = "ERASE_BANK"]
         [] "ERASE" \notin s.pending /\ "FORCED_GC" \in s.pending -> IdleForcedGarbageCollect(s)
         [] s.pending \cap {"ERASE", "FORCED_GC", "GC"} = {"GC"} -> IdleGarbageCollect(s)
         [] OTHER -> s

(***************************************************************************)
(* The services                                                            *)
(***************************************************************************)
NoFlsJob == [op |-> "none", addr |-> 0, n |-> 0, pages |-> <<>>, res |-> "OK"]
NoJob == [block |-> 1, invalidate |-> FALSE, value |-> "none"]

Fee_Init ==
  [State |-> "STARTUP_REQUESTED", pending |-> {}, FailCounter |-> 0, table |-> [b \in Block |-> 0],
   NewBlockAdminAddress |-> 0, NewBlockDataAddress |-> 0, writeBank |-> 0,
   gcOffset |-> 0, gcBlock |-> 1, gcBank |-> 0, eraseBank |-> 0, nextBankCounter |-> 0,
   job |-> NoJob, startup |-> NoStartup, status |-> "BUSY_INTERNAL", result |-> "OK",
   buffer |-> <<>>, fls |-> NoFlsJob]

Accepts(s) == s.State # "CORRUPTED" /\ s.status = "IDLE"

\* The invalidate flag shares its byte with the high byte of the length to read, which is 0
Fee_Read(s, b) ==
  [s EXCEPT !.status = "BUSY", !.result = "PENDING", !.pending = @ \cup {"READ"},
            !.job = [block |-> b, invalidate |-> FALSE, value |-> "none"]]

Fee_Write(s, b, v) ==
  [s EXCEPT !.status = "BUSY", !.result = "PENDING", !.pending = @ \cup {"WRITE"},
            !.job = [block |-> b, invalidate |-> FALSE, value |-> v]]

Fee_InvalidateBlock(s, b) ==
  [s EXCEPT !.status = "BUSY", !.result = "PENDING", !.pending = @ \cup {"WRITE"},
            !.job.block = b, !.job.invalidate = TRUE]

Fee_MainFunction(s) ==
  CASE s.State = "IDLE" -> Idle(s)
    [] s.State = "STARTUP_REQUESTED" -> StartupRequested(s)
    [] s.State = "STARTUP_READ_BANK_HEADER_WAIT" -> StartupReadBankHeaderWait(s)
    [] s.State = "STARTUP_READ_BLOCK_ADMIN" -> StartupReadBlockAdmin(s)
    [] s.State = "STARTUP_READ_BLOCK_ADMIN_WAIT" -> StartupReadBlockAdminWait(s)
    [] s.State = "READ_WAIT" -> ReadWait(s)
    [] s.State = "WRITE_ADMIN_DATA_WAIT" -> WriteAdminDataWait(s)
    [] s.State = "WRITE_DATA_WAIT" -> WriteDataWait(s)
    [] s.State = "WRITE_ADMIN_ID_WAIT" -> WriteAdminIdWait(s)
    [] s.State = "WRITE_CHECK_ADMIN_DATA_WAIT" -> WriteCheckAdminDataWait(s)
    [] s.State = "ERASE_BANK" -> EraseBank(s)
    [] s.State = "ERASE_BANK_WAIT" -> EraseBankWait(s)
    [] s.State = "WRITE_BANK_HEADER_WAIT" -> WriteBankHeaderWait(s)
    [] s.State = "GARBAGE_COLLECT_WRITE_ADMIN_DATA_WAIT" -> GarbageCollectWriteAdminDataWait(s)
    [] s.State = "GARBAGE_COLLECT_READ_WAIT" -> GarbageCollectReadWait(s)
    [] s.State = "GARBAGE_COLLECT_WRITE_DATA_WAIT" -> GarbageCollectWriteDataWait(s)
    [] s.State = "GARBAGE_COLLECT_WRITE_ADMIN_ID_WAIT" -> GarbageCollectWriteAdminIdWait(s)
    [] s.State = "GARBAGE_COLLECT_WRITE_CHECK_ADMIN_DATA_WAIT" -> GarbageCollectWriteCheckAdminDataWait(s)
    [] s.State = "CORRUPTED" -> s
=============================================================================
