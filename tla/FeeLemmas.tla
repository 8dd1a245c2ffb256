----------------------------- MODULE FeeLemmas -----------------------------
(***************************************************************************)
(* What keeps a flash job within its bank, as an invariant of the flash    *)
(* EEPROM emulation, and the functions of Fee.c that keep it: writing,     *)
(* reading, erasing, garbage collection and the idle state.                *)
(***************************************************************************)
EXTENDS FeeFlash, TLAPS, WellFoundedInduction

(***************************************************************************)
(* The inductive invariant                                                 *)
(***************************************************************************)
Fields == {"State", "pending", "FailCounter", "table", "NewBlockAdminAddress", "NewBlockDataAddress", "writeBank",
           "gcOffset", "gcBlock", "gcBank", "eraseBank", "nextBankCounter", "job", "startup", "status", "result",
           "buffer", "fls"}

WriteStates == {"WRITE_ADMIN_DATA_WAIT", "WRITE_DATA_WAIT", "WRITE_ADMIN_ID_WAIT", "WRITE_CHECK_ADMIN_DATA_WAIT"}
CopyStates == {"GARBAGE_COLLECT_READ_WAIT", "GARBAGE_COLLECT_WRITE_DATA_WAIT"}
GCStates == CopyStates \cup {"GARBAGE_COLLECT_WRITE_ADMIN_DATA_WAIT", "GARBAGE_COLLECT_WRITE_ADMIN_ID_WAIT",
                             "GARBAGE_COLLECT_WRITE_CHECK_ADMIN_DATA_WAIT"}
ScanStates == {"STARTUP_READ_BLOCK_ADMIN", "STARTUP_READ_BLOCK_ADMIN_WAIT"}
OtherStates == {"IDLE", "STARTUP_REQUESTED", "STARTUP_READ_BANK_HEADER_WAIT", "READ_WAIT", "ERASE_BANK",
                "ERASE_BANK_WAIT", "WRITE_BANK_HEADER_WAIT", "CORRUPTED"}
States == WriteStates \cup GCStates \cup ScanStates \cup OtherStates

\* n pages from addr lie in one bank
InOneBank(addr, n) == \E k \in Bank : Start(k) <= addr /\ addr + n <= End(k)

PageOK(p) == p.kind = "admin" => p.a \in Int /\ p.b \in Nat
PagesOK(pages) == \A i \in DOMAIN pages : PageOK(pages[i])

Shape(s) ==
  /\ Fields \subseteq DOMAIN s
  /\ {"bank", "min", "stat", "admin", "data"} \subseteq DOMAIN s.startup
  /\ {"block", "invalidate", "value"} \subseteq DOMAIN s.job
  /\ s.State \in States
  /\ s.job.block \in Block /\ s.job.invalidate \in BOOLEAN
  /\ s.gcBlock \in Nat \ {0} /\ s.gcBank \in Bank /\ s.eraseBank \in Bank

\* Where a block is, or that it is not there
PlaceOK(b, a) == a \in Int /\ (a \in {INVALIDATED_BLOCK, BLOCK_CORRUPT} \/ InOneBank(a, BlockSize[b]))
TableIn(s) == s.table \in [Block -> Int] /\ \A b \in Block : PlaceOK(b, s.table[b])

\* The addresses for the next block are in the bank that is written
NewBlockIn(s) ==
  /\ s.writeBank \in Bank /\ s.NewBlockDataAddress \in Int /\ s.NewBlockAdminAddress \in Int
  /\ Start(s.writeBank) <= s.NewBlockDataAddress /\ s.NewBlockAdminAddress <= FirstAdmin(s.writeBank)

Room(s, n) == s.NewBlockDataAddress + n <= s.NewBlockAdminAddress

\* The scan of a bank has not passed its end
ScanIn(s) ==
  /\ s.State = "STARTUP_READ_BANK_HEADER_WAIT" => s.startup.bank \in Bank
  /\ s.State \in ScanStates =>
       /\ s.startup.bank \in Bank /\ s.startup.admin \in Int /\ s.startup.data \in Int
       /\ Start(s.startup.bank) <= s.startup.data /\ s.startup.data <= s.startup.admin
       /\ s.startup.admin <= FirstAdmin(s.startup.bank)

\* There is room for the block being written
WriteIn(s) ==
  s.State \in WriteStates =>
    /\ "WRITE" \in s.pending
    /\ Room(s, IF s.job.invalidate THEN 0 ELSE BlockSize[s.job.block])

\* There is room for the block being copied, and so much of it has been copied
CopyIn(s) ==
  s.State \in GCStates =>
    /\ s.gcBlock \in Block /\ s.table[s.gcBlock] # BLOCK_CORRUPT
    /\ Room(s, IF s.table[s.gcBlock] = INVALIDATED_BLOCK THEN 0 ELSE BlockSize[s.gcBlock])
    /\ s.State \in CopyStates =>
         s.table[s.gcBlock] # INVALIDATED_BLOCK /\ s.gcOffset \in 0..BlockSize[s.gcBlock]
    /\ s.State = "GARBAGE_COLLECT_READ_WAIT" => s.gcOffset < BlockSize[s.gcBlock]

\* What a state that reads is going to find in RWBuffer
ReadsIn(s) ==
  LET n == IF s.fls.res = "PENDING" THEN s.fls.n ELSE Len(s.buffer)
  IN /\ s.State \in {"STARTUP_READ_BLOCK_ADMIN_WAIT", "GARBAGE_COLLECT_READ_WAIT"} =>
          /\ s.fls.res = "PENDING" => s.fls.op = "read"
          /\ s.fls.res # "PENDING" => s.buffer \in Seq(Range(s.buffer)) /\ PagesOK(s.buffer)
     /\ s.State = "STARTUP_READ_BLOCK_ADMIN_WAIT" => n = ADMIN_SIZE
     /\ s.State = "GARBAGE_COLLECT_READ_WAIT" => n = GarbageCollectSize(s)

FlsIn(s) ==
  s.fls.res = "PENDING" =>
    /\ s.fls.addr \in Int /\ s.fls.n \in Nat \ {0} /\ InOneBank(s.fls.addr, s.fls.n)
    /\ s.fls.op = "write" => DOMAIN s.fls.pages = 1..s.fls.n /\ PagesOK(s.fls.pages)
    /\ s.State \in {"WRITE_DATA_WAIT", "GARBAGE_COLLECT_WRITE_DATA_WAIT"} =>
         s.NewBlockDataAddress <= s.fls.addr /\ s.fls.addr + s.fls.n <= s.NewBlockAdminAddress

Core(s) == Shape(s) /\ TableIn(s) /\ NewBlockIn(s)
FeeOK(s) == Core(s) /\ ScanIn(s) /\ WriteIn(s) /\ CopyIn(s) /\ ReadsIn(s) /\ FlsIn(s)
FlashOK(f) == \A i \in Address : PageOK(f[i])

\* No write has been given up: it would stay pending (AbortWriteJob) while the user may ask for more
NoneGivenUp == fee.status = "IDLE" => "WRITE" \notin fee.pending

(***************************************************************************)
(* The banks                                                               *)
(***************************************************************************)
\* The two banks follow each other, and each ends in its first administration block and its header.
LEMMA BankFacts ==
  /\ BankLength \in Nat /\ BankLength > 3
  /\ \A k \in Bank : /\ Start(k) \in Nat /\ End(k) \in Nat /\ End(k) = Start(k) + BankLength
                     /\ FirstAdmin(k) = End(k) - 3 /\ NEXT_BANK_IDX(k) \in Bank
                     /\ End(k) <= 2 * BankLength
<1>1. BlockSize[1] \in Nat \ {0} /\ 1 \in Block
  BY FeeConfig DEF Block
<1>2. BankLength \in Nat /\ BankLength > 3
  BY <1>1, FeeConfig DEF ADMIN_SIZE, BANK_CTRL_SIZE
<1>3. Start(0) = 0 /\ End(0) = BankLength /\ Start(1) = BankLength /\ End(1) = 2 * BankLength
  BY <1>2 DEF Start, End
<1>. QED BY <1>2, <1>3 DEF Bank, FirstAdmin, ADMIN_SIZE, BANK_CTRL_SIZE, NEXT_BANK_IDX

\* A configured block and its administration fit into a bank.
LEMMA BlockFacts ==
  ASSUME NEW b \in Block
  PROVE  BlockSize[b] \in Nat \ {0} /\ SizeOf(b) = BlockSize[b] /\ BlockSize[b] + 3 <= BankLength
BY FeeConfig DEF Block, SizeOf, ADMIN_SIZE, BANK_CTRL_SIZE

\* The size of what an administration page names is a natural number.
LEMMA SizeFacts ==
  ASSUME NEW b
  PROVE  SizeOf(b) \in Nat
BY FeeConfig, BlockFacts DEF SizeOf

\* Pages between the first page of a bank and the end of its first administration block are in it.
LEMMA BetweenInBank ==
  ASSUME NEW k \in Bank, NEW a \in Int, NEW n \in Nat, Start(k) <= a, a + n <= FirstAdmin(k) + 2
  PROVE  InOneBank(a, n)
BY BankFacts DEF InOneBank

\* The addresses of a job that lies in one bank are addresses of the flash.
LEMMA InBankAddress ==
  ASSUME NEW a \in Int, NEW n \in Nat, InOneBank(a, n), NEW i \in 1..n
  PROVE  a + i - 1 \in Address
BY BankFacts DEF InOneBank, Address

(***************************************************************************)
(* The functions that several states share                                 *)
(***************************************************************************)
\* A state that neither scans, writes nor copies, and awaits nothing of the driver.
Calm == {"IDLE", "STARTUP_REQUESTED", "ERASE_BANK", "CORRUPTED"}

\* In a state that waits for no flash job only the core matters.
LEMMA CalmOK ==
  ASSUME NEW t, Core(t), t.State \in Calm, t.fls.res # "PENDING"
  PROVE  FeeOK(t)
BY DEF FeeOK, ScanIn, WriteIn, CopyIn, ReadsIn, FlsIn, Calm, WriteStates, GCStates, CopyStates, ScanStates

\* A record with the same table and the same addresses for the next block.
Alike(s, t, changed) == DOMAIN t = DOMAIN s /\ \A f \in Fields \ changed : t[f] = s[f]

\* The core concerns neither the state nor the counters nor the flash job.
LEMMA AlikeCore ==
  ASSUME NEW s, Core(s), NEW t, Alike(s, t, {"State", "pending", "FailCounter", "gcOffset", "status", "result",
                                             "nextBankCounter", "buffer", "fls"}),
         t.State \in States
  PROVE  Core(t)
BY DEF Alike, Core, Shape, TableIn, NewBlockIn, Fields

\* Starting a read of the flash keeps the core.
LEMMA ReadCore ==
  ASSUME NEW s, Core(s), NEW addr, NEW n, NEW next \in States, NEW t, t = Read(s, addr, n, next)
  PROVE  /\ Core(t) /\ Alike(s, t, {"State", "fls"})
         /\ t.State = next /\ t.fls = FlsJob("read", addr, n, <<>>)
<1>1. Alike(s, t, {"State", "fls"}) /\ t.State = next /\ t.fls = FlsJob("read", addr, n, <<>>)
  BY Zenon DEF Read, Alike, Fields, Core, Shape
<1>2. Core(t)
  BY <1>1, AlikeCore DEF Alike
<1>. QED BY <1>1, <1>2

\* Starting a write to the flash keeps the core.
LEMMA WriteCore ==
  ASSUME NEW s, Core(s), NEW addr, NEW pages, NEW next \in States, NEW t, t = Write(s, addr, pages, next)
  PROVE  /\ Core(t) /\ Alike(s, t, {"State", "fls"})
         /\ t.State = next /\ t.fls = FlsJob("write", addr, Len(pages), pages)
<1>1. Alike(s, t, {"State", "fls"}) /\ t.State = next /\ t.fls = FlsJob("write", addr, Len(pages), pages)
  BY Zenon DEF Write, Alike, Fields, Core, Shape
<1>2. Core(t)
  BY <1>1, AlikeCore DEF Alike
<1>. QED BY <1>1, <1>2

\* What a flash job is made of.
LEMMA FlsJobFields ==
  ASSUME NEW op, NEW addr, NEW n, NEW pages
  PROVE  LET j == FlsJob(op, addr, n, pages) IN
         j.op = op /\ j.addr = addr /\ j.n = n /\ j.pages = pages /\ j.res = "PENDING"
BY DEF FlsJob

\* FinishJob reports to the user and goes to idle.
LEMMA FinishJobCore ==
  ASSUME NEW s, Core(s), s.fls.res # "PENDING", NEW res, NEW t, t = FinishJob(s, res)
  PROVE  FeeOK(t) /\ Core(t) /\ t.fls.res # "PENDING"
<1>1. Alike(s, t, {"State", "FailCounter", "status", "result"}) /\ t.State = "IDLE"
  BY Zenon DEF FinishJob, Alike, Fields, Core, Shape
<1>2. t.State \in States /\ t.State \in Calm
  BY <1>1 DEF States, OtherStates, Calm
<1>3. t.fls = s.fls
  BY <1>1 DEF Alike, Fields
<1>4. Core(t)
  BY <1>1, <1>2, AlikeCore DEF Alike
<1>. QED BY <1>2, <1>3, <1>4, CalmOK

\* The addresses for the next block are moved past a block, written or failed.
LEMMA MovedIn ==
  ASSUME NEW s, Core(s), NEW n \in Nat, NEW t,
         Alike(s, t, {"NewBlockDataAddress", "NewBlockAdminAddress", "FailCounter", "gcBlock"}),
         t.NewBlockDataAddress = s.NewBlockDataAddress + n,
         t.NewBlockAdminAddress = s.NewBlockAdminAddress - ADMIN_SIZE,
         t.gcBlock \in {s.gcBlock, s.gcBlock + 1}
  PROVE  Core(t)
<1>1. /\ t.State = s.State /\ t.startup = s.startup /\ t.job = s.job /\ t.gcBank = s.gcBank
      /\ t.eraseBank = s.eraseBank /\ t.table = s.table /\ t.writeBank = s.writeBank
      /\ DOMAIN t = DOMAIN s
  BY DEF Alike, Fields
<1>2. Shape(t) /\ TableIn(t)
  BY <1>1 DEF Core, Shape, TableIn
<1>3. NewBlockIn(t)
  BY <1>1, BankFacts DEF Core, NewBlockIn, ADMIN_SIZE
<1>. QED BY <1>2, <1>3 DEF Core

\* AbortWriteJob and AbortGCJob move them past the block that failed.
LEMMA MovedCore ==
  ASSUME NEW s, Core(s), NEW n \in Nat, NEW fc, NEW t,
         t = [s EXCEPT !.NewBlockDataAddress = @ + n, !.NewBlockAdminAddress = @ - ADMIN_SIZE, !.FailCounter = fc]
  PROVE  Core(t) /\ Alike(s, t, {"NewBlockDataAddress", "NewBlockAdminAddress", "FailCounter"})
<1>1. /\ Alike(s, t, {"NewBlockDataAddress", "NewBlockAdminAddress", "FailCounter"})
      /\ t.NewBlockDataAddress = s.NewBlockDataAddress + n
      /\ t.NewBlockAdminAddress = s.NewBlockAdminAddress - ADMIN_SIZE
  BY Zenon DEF Alike, Fields, Core, Shape
<1>2. Core(t)
  BY <1>1, MovedIn, Zenon DEF Alike, Fields
<1>. QED BY <1>1, <1>2

\* An entry of the table.
LEMMA TableCore ==
  ASSUME NEW s, Core(s), NEW b \in Block, NEW a, PlaceOK(b, a), NEW t, t = [s EXCEPT !.table[b] = a]
  PROVE  Core(t) /\ Alike(s, t, {"table"}) /\ t.table = [s.table EXCEPT ![b] = a]
<1>1. Alike(s, t, {"table"}) /\ t.table = [s.table EXCEPT ![b] = a]
  BY DEF Alike, Fields, Core, Shape
<1>2. TableIn(t)
  <2>1. a \in Int
    BY DEF PlaceOK
  <2>. QED BY <1>1, <2>1 DEF Core, TableIn
<1>3. Shape(t) /\ NewBlockIn(t)
  BY <1>1 DEF Alike, Fields, Core, Shape, NewBlockIn
<1>. QED BY <1>1, <1>2, <1>3 DEF Core

\* AbortWriteJob keeps the invariant.
LEMMA AbortWriteJobOK ==
  ASSUME NEW s, Core(s), s.fls.res # "PENDING"
  PROVE  FeeOK(AbortWriteJob(s))
<1>. DEFINE n == IF s.job.invalidate THEN 0 ELSE SizeOf(s.job.block)
            f == [s EXCEPT !.NewBlockDataAddress = @ + n, !.NewBlockAdminAddress = @ - ADMIN_SIZE,
                           !.FailCounter = @ + 1]
            i == [f EXCEPT !.State = "IDLE"]
<1>1. n \in Nat
  BY SizeFacts
<1>2. s.NewBlockDataAddress + n = IF s.job.invalidate THEN s.NewBlockDataAddress
                                  ELSE s.NewBlockDataAddress + SizeOf(s.job.block)
  BY SizeFacts DEF Core, NewBlockIn, Shape
<1>3. AbortWriteJob(s) = IF f.FailCounter > MAX_NOF_FAILED_WRITE_ATTEMPTS THEN FinishJob(f, "FAILED") ELSE i
  BY <1>2, Zenon DEF AbortWriteJob
<1>. HIDE DEF n
<1>4. Core(f) /\ f.fls = s.fls
  <2>1. Core(f) /\ Alike(s, f, {"NewBlockDataAddress", "NewBlockAdminAddress", "FailCounter"})
    BY <1>1, MovedCore, Zenon
  <2>. QED BY <2>1 DEF Alike, Fields
<1>. HIDE DEF f
<1>5. FeeOK(FinishJob(f, "FAILED"))
  BY <1>4, FinishJobCore
<1>6. FeeOK(i)
  <2>1. Alike(f, i, {"State"}) /\ i.State = "IDLE"
    BY <1>4 DEF Alike, Fields, Core, Shape
  <2>2. Core(i)
    BY <1>4, <2>1, AlikeCore, Zenon DEF Alike, States, OtherStates
  <2>. QED BY <1>4, <2>1, <2>2, CalmOK, Zenon DEF Alike, Fields, Calm
<1>. QED BY <1>3, <1>5, <1>6

\* AbortGCJob keeps the invariant.
LEMMA AbortGCJobOK ==
  ASSUME NEW s, Core(s), s.fls.res # "PENDING"
  PROVE  FeeOK(AbortGCJob(s))
<1>. DEFINE n == SizeOf(s.gcBlock)
            f == [s EXCEPT !.NewBlockDataAddress = @ + n, !.NewBlockAdminAddress = @ - ADMIN_SIZE,
                           !.FailCounter = @ + 1]
            g == IF s.status # "IDLE" THEN FinishJob(f, "FAILED") ELSE f
            c == [g EXCEPT !.State = "CORRUPTED", !.status = "IDLE"]
            i == [f EXCEPT !.State = "IDLE"]
<1>1. n \in Nat
  BY SizeFacts
<1>2. AbortGCJob(s) = IF f.FailCounter > MAX_NOF_FAILED_GC_ATTEMPTS THEN c ELSE i
  BY SMTT(30) DEF AbortGCJob
<1>. HIDE DEF n
<1>3. Core(f) /\ f.fls = s.fls
  <2>1. Core(f) /\ Alike(s, f, {"NewBlockDataAddress", "NewBlockAdminAddress", "FailCounter"})
    BY <1>1, MovedCore, Zenon
  <2>. QED BY <2>1 DEF Alike, Fields
<1>. HIDE DEF f
<1>4. Core(g) /\ g.fls.res # "PENDING"
  BY <1>3, FinishJobCore
<1>. HIDE DEF g
<1>5. FeeOK(c)
  <2>1. Alike(g, c, {"State", "status"}) /\ c.State = "CORRUPTED"
    BY <1>4, Zenon DEF Alike, Fields, Core, Shape
  <2>2. Core(c)
    BY <1>4, <2>1, AlikeCore, Zenon DEF Alike, States, OtherStates
  <2>. QED BY <1>4, <2>1, <2>2, CalmOK, Zenon DEF Alike, Fields, Calm
<1>6. FeeOK(i)
  <2>1. Alike(f, i, {"State"}) /\ i.State = "IDLE"
    BY <1>3 DEF Alike, Fields, Core, Shape
  <2>2. Core(i)
    BY <1>3, <2>1, AlikeCore, Zenon DEF Alike, States, OtherStates
  <2>. QED BY <1>3, <2>1, <2>2, CalmOK, Zenon DEF Alike, Fields, Calm
<1>. QED BY <1>2, <1>5, <1>6

\* AbortStartup keeps the invariant.
LEMMA AbortStartupOK ==
  ASSUME NEW s, Core(s), s.fls.res # "PENDING"
  PROVE  FeeOK(AbortStartup(s))
<1>. DEFINE t == AbortStartup(s)
<1>1. Alike(s, t, {"State", "FailCounter", "status"}) /\ t.State \in Calm
  BY Zenon DEF AbortStartup, Alike, Fields, Core, Shape, Calm
<1>. HIDE DEF t
<1>2. Core(t)
  BY <1>1, AlikeCore DEF Alike, Calm, States, OtherStates
<1>. QED BY <1>1, <1>2, CalmOK DEF Alike, Fields, t

\* A job is no longer pending.
LEMMA DoneCore ==
  ASSUME NEW s, Core(s), NEW job, NEW t, t = Done(s, job)
  PROVE  Core(t) /\ Alike(s, t, {"pending"})
<1>1. Alike(s, t, {"pending"})
  BY DEF Done, Alike, Fields, Core, Shape
<1>. QED BY <1>1, AlikeCore DEF Alike, Fields, Core, Shape

\* A job of the driver: what its start must establish.
LEMMA ReadOK ==
  ASSUME NEW s, Core(s), NEW addr \in Int, NEW n \in Nat \ {0}, InOneBank(addr, n),
         NEW next \in States \ {"WRITE_DATA_WAIT", "GARBAGE_COLLECT_WRITE_DATA_WAIT"},
         NEW t, t = Read(s, addr, n, next), ScanIn(t), WriteIn(t), CopyIn(t),
         next = "STARTUP_READ_BLOCK_ADMIN_WAIT" => n = ADMIN_SIZE,
         next = "GARBAGE_COLLECT_READ_WAIT" => n = GarbageCollectSize(t)
  PROVE  FeeOK(t)
<1>1. Core(t) /\ t.State = next /\ t.fls = FlsJob("read", addr, n, <<>>)
  BY ReadCore
<1>2. t.fls.op = "read" /\ t.fls.addr = addr /\ t.fls.n = n /\ t.fls.res = "PENDING"
  BY <1>1, FlsJobFields
<1>3. ReadsIn(t)
  BY <1>1, <1>2 DEF ReadsIn
<1>4. FlsIn(t)
  BY <1>1, <1>2 DEF FlsIn
<1>. QED BY <1>1, <1>3, <1>4 DEF FeeOK

\* A write within one bank keeps the invariant, whatever state waits for it.
LEMMA WriteOK ==
  ASSUME NEW s, Core(s), NEW addr \in Int, NEW n \in Nat \ {0}, InOneBank(addr, n),
         NEW pages, DOMAIN pages = 1..n, Len(pages) = n, PagesOK(pages),
         NEW next \in States \ {"STARTUP_READ_BLOCK_ADMIN_WAIT", "GARBAGE_COLLECT_READ_WAIT"},
         NEW t, t = Write(s, addr, pages, next), ScanIn(t), WriteIn(t), CopyIn(t),
         next \in {"WRITE_DATA_WAIT", "GARBAGE_COLLECT_WRITE_DATA_WAIT"} =>
           s.NewBlockDataAddress <= addr /\ addr + n <= s.NewBlockAdminAddress
  PROVE  FeeOK(t)
<1>1. /\ Core(t) /\ Alike(s, t, {"State", "fls"})
      /\ t.State = next /\ t.fls = FlsJob("write", addr, n, pages)
  BY WriteCore
<1>2. t.fls.addr = addr /\ t.fls.n = n /\ t.fls.pages = pages /\ t.fls.res = "PENDING"
  BY <1>1, FlsJobFields
<1>3. ReadsIn(t)
  BY <1>1 DEF ReadsIn
<1>4. t.NewBlockDataAddress = s.NewBlockDataAddress /\ t.NewBlockAdminAddress = s.NewBlockAdminAddress
  BY <1>1 DEF Alike, Fields
<1>5. FlsIn(t)
  BY <1>1, <1>2, <1>4 DEF FlsIn
<1>. QED BY <1>1, <1>3, <1>5 DEF FeeOK

\* One page, as the administration and the header are written.
LEMMA OnePage ==
  ASSUME NEW p, PageOK(p)
  PROVE  DOMAIN <<p>> = 1..1 /\ Len(<<p>>) = 1 /\ PagesOK(<<p>>)
<1>1. DOMAIN <<p>> = 1..1 /\ Len(<<p>>) = 1 /\ <<p>>[1] = p
  OBVIOUS
<1>. QED BY <1>1 DEF PagesOK

\* So does the write of a single page.
LEMMA WritePageOK ==
  ASSUME NEW s, Core(s), NEW addr \in Int, InOneBank(addr, 1), NEW p, PageOK(p),
         NEW next \in States \ {"STARTUP_READ_BLOCK_ADMIN_WAIT", "GARBAGE_COLLECT_READ_WAIT",
                                "WRITE_DATA_WAIT", "GARBAGE_COLLECT_WRITE_DATA_WAIT"},
         NEW t, t = Write(s, addr, <<p>>, next), ScanIn(t), WriteIn(t), CopyIn(t)
  PROVE  FeeOK(t)
<1>. DEFINE pages == <<p>>
<1>1. DOMAIN pages = 1..1 /\ Len(pages) = 1 /\ PagesOK(pages)
  BY OnePage
<1>2. t = Write(s, addr, pages, next) /\ 1 \in Nat \ {0}
  OBVIOUS
<1>3. next \in States \ {"STARTUP_READ_BLOCK_ADMIN_WAIT", "GARBAGE_COLLECT_READ_WAIT"}
      /\ next \notin {"WRITE_DATA_WAIT", "GARBAGE_COLLECT_WRITE_DATA_WAIT"}
  OBVIOUS
<1>. HIDE DEF pages
<1>. QED BY <1>1, <1>2, <1>3, WriteOK, Zenon

\* Every page the driver writes is of one of the known kinds.
LEMMA PageKinds ==
  /\ \A addr \in Int, n \in Nat : PageOK(AdminData(addr, n))
  /\ \A b : PageOK(AdminId(b))
  /\ \A c : PageOK(BankHeader(c))
  /\ \A b, v, i : PageOK(Data(b, v, i))
  /\ PageOK(Erased) /\ PageOK(Torn)
BY DEF PageOK, AdminData, AdminId, BankHeader, Data, Erased, Torn, Page

\* The administration of the block being written or copied.
LEMMA AdminInBank ==
  ASSUME NEW s, Core(s), Room(s, 0)
  PROVE  /\ InOneBank(s.NewBlockAdminAddress, ADMIN_SIZE)
         /\ InOneBank(s.NewBlockAdminAddress, 1)
         /\ InOneBank(s.NewBlockAdminAddress + BLOCK_CTRL_DATA_PAGE_SIZE, 1)
         /\ s.NewBlockAdminAddress \in Int
<1>. DEFINE k == s.writeBank
            a == s.NewBlockAdminAddress
            d == s.NewBlockDataAddress
<1>1. k \in Bank /\ a \in Int /\ d \in Int /\ Start(k) <= d /\ d <= a /\ a <= FirstAdmin(k)
  BY DEF Core, NewBlockIn, Room
<1>. HIDE DEF k, a, d
<1>2. Start(k) \in Int
  BY <1>1, BankFacts
<1>3. Start(k) <= a /\ FirstAdmin(k) \in Int
  BY <1>1, <1>2, BankFacts
<1>4. InOneBank(a, 2) /\ InOneBank(a, 1) /\ InOneBank(a + 1, 1)
  BY <1>1, <1>2, <1>3, BetweenInBank
<1>. QED BY <1>1, <1>4 DEF ADMIN_SIZE, BLOCK_CTRL_DATA_PAGE_SIZE, k, a, d

\* A place for n pages of data.
LEMMA DataInBank ==
  ASSUME NEW s, Core(s), NEW m \in Nat, Room(s, m), NEW o \in Nat, NEW n \in Nat, o + n <= m
  PROVE  /\ InOneBank(s.NewBlockDataAddress + o, n)
         /\ s.NewBlockDataAddress + o \in Int
         /\ s.NewBlockDataAddress <= s.NewBlockDataAddress + o
         /\ s.NewBlockDataAddress + o + n <= s.NewBlockAdminAddress
         /\ Room(s, 0)
<1>. DEFINE k == s.writeBank
            a == s.NewBlockAdminAddress
            d == s.NewBlockDataAddress
<1>1. k \in Bank /\ a \in Int /\ d \in Int /\ Start(k) <= d /\ d + m <= a /\ a <= FirstAdmin(k)
  BY DEF Core, NewBlockIn, Room
<1>. HIDE DEF k, a, d
<1>2. Start(k) \in Int /\ FirstAdmin(k) \in Int
  BY <1>1, BankFacts
<1>3. Start(k) <= d + o /\ d + o + n <= a /\ d + o + n <= FirstAdmin(k) + 2
  BY <1>1, <1>2
<1>4. InOneBank(d + o, n)
  BY <1>1, <1>3, BetweenInBank
<1>5. d + o \in Int /\ d <= d + o /\ d + 0 <= a
  BY <1>1
<1>. QED BY <1>3, <1>4, <1>5 DEF Room, k, a, d

(***************************************************************************)
(* Writing a block                                                         *)
(***************************************************************************)
WriteRoom(s) == Room(s, IF s.job.invalidate THEN 0 ELSE BlockSize[s.job.block])

\* A bank with room for a block has room for its administration.
LEMMA WriteRoomFacts ==
  ASSUME NEW s, Core(s), WriteRoom(s)
  PROVE  Room(s, 0) /\ (~s.job.invalidate => Room(s, BlockSize[s.job.block]))
<1>1. BlockSize[s.job.block] \in Nat
  BY BlockFacts DEF Core, Shape
<1>. QED BY <1>1 DEF WriteRoom, Room, Core, NewBlockIn, Shape

\* The job in the flash driver is one of the write.
LEMMA InWriteState ==
  ASSUME NEW s, Core(s), WriteRoom(s), "WRITE" \in s.pending, NEW t, Alike(s, t, {"State", "fls"}),
         t.State \in WriteStates
  PROVE  ScanIn(t) /\ WriteIn(t) /\ CopyIn(t)
<1>1. /\ t.pending = s.pending /\ t.job = s.job /\ t.NewBlockDataAddress = s.NewBlockDataAddress
      /\ t.NewBlockAdminAddress = s.NewBlockAdminAddress
  BY DEF Alike, Fields
<1>2. t.State \notin GCStates /\ t.State \notin ScanStates /\ t.State # "STARTUP_READ_BANK_HEADER_WAIT"
  BY DEF WriteStates, GCStates, CopyStates, ScanStates
<1>. QED BY <1>1, <1>2 DEF ScanIn, WriteIn, CopyIn, WriteRoom, Room

\* WriteStartJob keeps the invariant.
LEMMA WriteStartJobOK ==
  ASSUME NEW s, Core(s), WriteRoom(s), "WRITE" \in s.pending
  PROVE  FeeOK(WriteStartJob(s))
<1>. DEFINE addr == IF s.job.invalidate THEN INVALIDATED_BLOCK ELSE s.NewBlockDataAddress
            p == AdminData(addr, SizeOf(s.job.block))
            t == Write(s, s.NewBlockAdminAddress, <<p>>, "WRITE_ADMIN_DATA_WAIT")
<1>1. WriteStartJob(s) = t
  BY DEF WriteStartJob, WriteAdminData
<1>2. addr \in Int
  BY DEF Core, NewBlockIn, INVALIDATED_BLOCK
<1>3. PageOK(p)
  BY <1>2, SizeFacts, PageKinds
<1>. HIDE DEF p
<1>4. "WRITE_ADMIN_DATA_WAIT" \in States /\ "WRITE_ADMIN_DATA_WAIT" \in WriteStates
  BY DEF States, WriteStates
<1>5. Alike(s, t, {"State", "fls"}) /\ t.State = "WRITE_ADMIN_DATA_WAIT"
  BY <1>4, WriteCore
<1>6. ScanIn(t) /\ WriteIn(t) /\ CopyIn(t)
  BY <1>4, <1>5, InWriteState
<1>7. InOneBank(s.NewBlockAdminAddress, 1) /\ s.NewBlockAdminAddress \in Int
  BY WriteRoomFacts, AdminInBank
<1>8. FeeOK(t)
  BY <1>3, <1>4, <1>6, <1>7, WritePageOK
<1>. QED BY <1>1, <1>8

\* The id page makes the block valid.
LEMMA WriteJobIdOK ==
  ASSUME NEW s, Core(s), WriteRoom(s), "WRITE" \in s.pending
  PROVE  FeeOK(WriteAdminId(s, s.job.block, "WRITE_ADMIN_ID_WAIT"))
<1>. DEFINE p == AdminId(s.job.block)
            a == s.NewBlockAdminAddress + BLOCK_CTRL_DATA_PAGE_SIZE
            t == Write(s, a, <<p>>, "WRITE_ADMIN_ID_WAIT")
<1>1. WriteAdminId(s, s.job.block, "WRITE_ADMIN_ID_WAIT") = t
  BY DEF WriteAdminId
<1>2. PageOK(p)
  BY PageKinds
<1>3. InOneBank(a, 1) /\ a \in Int
  BY WriteRoomFacts, AdminInBank DEF BLOCK_CTRL_DATA_PAGE_SIZE
<1>. HIDE DEF p, a
<1>4. "WRITE_ADMIN_ID_WAIT" \in States /\ "WRITE_ADMIN_ID_WAIT" \in WriteStates
  BY DEF States, WriteStates
<1>5. Alike(s, t, {"State", "fls"}) /\ t.State = "WRITE_ADMIN_ID_WAIT"
  BY <1>4, WriteCore
<1>6. ScanIn(t) /\ WriteIn(t) /\ CopyIn(t)
  BY <1>4, <1>5, InWriteState
<1>7. FeeOK(t)
  BY <1>2, <1>3, <1>4, <1>6, WritePageOK
<1>. QED BY <1>1, <1>7

\* WriteDataWait keeps the invariant.
LEMMA WriteDataWaitOK ==
  ASSUME NEW s, Core(s), WriteRoom(s), "WRITE" \in s.pending, s.fls.res # "PENDING"
  PROVE  FeeOK(WriteDataWait(s))
BY WriteJobIdOK, AbortWriteJobOK DEF WriteDataWait

\* WriteData keeps the invariant.
LEMMA WriteDataOK ==
  ASSUME NEW s, Core(s), WriteRoom(s), "WRITE" \in s.pending, ~s.job.invalidate
  PROVE  FeeOK(WriteData(s))
<1>. DEFINE b == s.job.block
            n == SizeOf(b)
            pages == [i \in 1..n |-> Data(b, s.job.value, i)]
            t == Write(s, s.NewBlockDataAddress, pages, "WRITE_DATA_WAIT")
<1>1. WriteData(s) = t
  BY DEF WriteData
<1>2. n \in Nat \ {0} /\ n = BlockSize[b]
  BY BlockFacts DEF Core, Shape
<1>3. DOMAIN pages = 1..n /\ Len(pages) = n
  BY <1>2
<1>4. PagesOK(pages)
  BY <1>3, PageKinds DEF PagesOK
<1>5. Room(s, n)
  BY <1>2, WriteRoomFacts
<1>. HIDE DEF n, pages
<1>6. InOneBank(s.NewBlockDataAddress + 0, n) /\ s.NewBlockDataAddress + 0 + n <= s.NewBlockAdminAddress
  BY <1>2, <1>5, DataInBank
<1>7. s.NewBlockDataAddress \in Int /\ s.NewBlockDataAddress + 0 = s.NewBlockDataAddress
  BY DEF Core, NewBlockIn
<1>8. "WRITE_DATA_WAIT" \in States /\ "WRITE_DATA_WAIT" \in WriteStates
  BY DEF States, WriteStates
<1>9. Alike(s, t, {"State", "fls"}) /\ t.State = "WRITE_DATA_WAIT"
  BY <1>8, WriteCore
<1>10. ScanIn(t) /\ WriteIn(t) /\ CopyIn(t)
  BY <1>8, <1>9, InWriteState
<1>11. FeeOK(t)
  BY <1>2, <1>3, <1>4, <1>6, <1>7, <1>8, <1>10, WriteOK
<1>. QED BY <1>1, <1>11

\* WriteAdminDataWait keeps the invariant.
LEMMA WriteAdminDataWaitOK ==
  ASSUME NEW s, Core(s), WriteRoom(s), "WRITE" \in s.pending, s.fls.res # "PENDING"
  PROVE  FeeOK(WriteAdminDataWait(s))
<1>. DEFINE t == Read(s, s.NewBlockAdminAddress, ADMIN_SIZE, "WRITE_CHECK_ADMIN_DATA_WAIT")
<1>1. WriteAdminDataWait(s) = IF s.fls.res = "OK" THEN IF s.job.invalidate THEN WriteDataWait(s) ELSE WriteData(s)
                              ELSE t
  BY DEF WriteAdminDataWait, Core, Shape
<1>2. "WRITE_CHECK_ADMIN_DATA_WAIT" \in States /\ "WRITE_CHECK_ADMIN_DATA_WAIT" \in WriteStates
  BY DEF States, WriteStates
<1>3. Alike(s, t, {"State", "fls"}) /\ t.State = "WRITE_CHECK_ADMIN_DATA_WAIT"
  BY <1>2, ReadCore
<1>4. ScanIn(t) /\ WriteIn(t) /\ CopyIn(t)
  BY <1>2, <1>3, InWriteState
<1>5. InOneBank(s.NewBlockAdminAddress, ADMIN_SIZE) /\ s.NewBlockAdminAddress \in Int
  BY WriteRoomFacts, AdminInBank
<1>6. ADMIN_SIZE \in Nat \ {0}
  BY DEF ADMIN_SIZE
<1>7. FeeOK(t)
  BY <1>2, <1>4, <1>5, <1>6, ReadOK
<1>. QED BY <1>1, <1>7, WriteDataWaitOK, WriteDataOK

\* A state goes back to idle, where the job is looked at again.
LEMMA ToIdleOK ==
  ASSUME NEW s, Core(s), s.fls.res # "PENDING", NEW t, Alike(s, t, {"State", "FailCounter"}), t.State \in Calm
  PROVE  FeeOK(t)
<1>1. t.fls = s.fls /\ t.State \in States
  BY DEF Alike, Fields, Calm, States, OtherStates
<1>2. Core(t)
  BY <1>1, AlikeCore DEF Alike
<1>. QED BY <1>1, <1>2, CalmOK

\* WriteCheckAdminDataWait keeps the invariant.
LEMMA WriteCheckAdminDataWaitOK ==
  ASSUME NEW s, Core(s), s.fls.res # "PENDING"
  PROVE  FeeOK(WriteCheckAdminDataWait(s))
<1>. DEFINE t == [s EXCEPT !.State = "IDLE"]
<1>1. Alike(s, t, {"State", "FailCounter"}) /\ t.State \in Calm
  BY DEF Alike, Fields, Core, Shape, Calm
<1>2. FeeOK(t)
  BY <1>1, ToIdleOK, ZenonT(40)
<1>. QED BY <1>2, AbortWriteJobOK DEF WriteCheckAdminDataWait

\* WriteAdminIdWait keeps the invariant.
LEMMA WriteAdminIdWaitOK ==
  ASSUME NEW s, Core(s), WriteRoom(s), s.fls.res # "PENDING"
  PROVE  FeeOK(WriteAdminIdWait(s))
<1>. DEFINE b == s.job.block
            addr == IF s.job.invalidate THEN INVALIDATED_BLOCK ELSE s.NewBlockDataAddress
            n == IF s.job.invalidate THEN 0 ELSE SizeOf(b)
            u == [s EXCEPT !.table[b] = addr]
            v == Done(u, "WRITE")
            f == FinishJob(v, "OK")
            i == [s EXCEPT !.State = "IDLE", !.FailCounter = @ + 1]
            r == IF s.fls.res = "OK" THEN f ELSE i
            t == [r EXCEPT !.NewBlockDataAddress = @ + n, !.NewBlockAdminAddress = @ - ADMIN_SIZE]
<1>1. b \in Block /\ n \in Nat
  BY SizeFacts DEF Core, Shape
<1>2. PlaceOK(b, addr)
  <2>1. CASE s.job.invalidate
    BY <2>1 DEF PlaceOK, INVALIDATED_BLOCK
  <2>2. CASE ~s.job.invalidate
    <3>1. BlockSize[b] \in Nat /\ Room(s, BlockSize[b])
      BY <2>2, <1>1, BlockFacts, WriteRoomFacts
    <3>2. InOneBank(s.NewBlockDataAddress + 0, BlockSize[b])
      BY <3>1, DataInBank
    <3>3. s.NewBlockDataAddress + 0 = s.NewBlockDataAddress /\ s.NewBlockDataAddress \in Int
      BY DEF Core, NewBlockIn
    <3>. QED BY <2>2, <3>2, <3>3 DEF PlaceOK
  <2>. QED BY <2>1, <2>2
<1>. HIDE DEF addr
<1>3. Core(u) /\ u.fls = s.fls
  <2>1. Core(u) /\ Alike(s, u, {"table"})
    BY <1>1, <1>2, TableCore, Zenon
  <2>. QED BY <2>1 DEF Alike, Fields
<1>. HIDE DEF u
<1>4. Core(v) /\ v.fls = s.fls
  BY <1>3, DoneCore, SMTT(30) DEF Alike, Fields
<1>. HIDE DEF v
<1>5. Core(f) /\ f.fls.res # "PENDING" /\ f.State = "IDLE"
  BY <1>4, FinishJobCore, Zenon DEF FinishJob, Core, Shape, Fields
<1>. HIDE DEF f
<1>6. Core(i) /\ i.fls.res # "PENDING" /\ i.State = "IDLE"
  <2>1. Alike(s, i, {"State", "FailCounter"}) /\ i.State = "IDLE"
    BY Zenon DEF Alike, Fields, Core, Shape
  <2>2. Core(i)
    BY <2>1, AlikeCore, Zenon DEF Alike, States, OtherStates
  <2>. QED BY <2>1, <2>2 DEF Alike, Fields
<1>. HIDE DEF i
<1>7. Core(r) /\ r.fls.res # "PENDING" /\ r.State = "IDLE"
  BY <1>5, <1>6
<1>8. r.NewBlockDataAddress + n = IF s.job.invalidate THEN r.NewBlockDataAddress
                                  ELSE r.NewBlockDataAddress + SizeOf(b)
  BY <1>7, SizeFacts DEF Core, NewBlockIn
<1>9. WriteAdminIdWait(s) = t
  <2>1. WriteAdminIdWait(s) =
          [r EXCEPT !.NewBlockDataAddress = IF s.job.invalidate THEN @ ELSE @ + SizeOf(b),
                    !.NewBlockAdminAddress = @ - ADMIN_SIZE]
    BY Zenon DEF WriteAdminIdWait, r, f, i, v, u, addr
  <2>. HIDE DEF r, n
  <2>. QED BY <1>8, <2>1, Zenon
<1>. HIDE DEF r, n
<1>10. /\ Alike(r, t, {"NewBlockDataAddress", "NewBlockAdminAddress"})
       /\ t.NewBlockDataAddress = r.NewBlockDataAddress + n
       /\ t.NewBlockAdminAddress = r.NewBlockAdminAddress - ADMIN_SIZE
  BY <1>7, Zenon DEF Alike, Fields, Core, Shape
<1>11. Core(t) /\ t.fls = r.fls /\ t.State = "IDLE"
  <2>1. t.gcBlock = r.gcBlock /\ t.fls = r.fls /\ t.State = r.State
    BY <1>10 DEF Alike, Fields
  <2>. QED BY <1>1, <1>7, <1>10, <2>1, MovedIn, ZenonT(40) DEF Alike
<1>12. FeeOK(t)
  BY <1>7, <1>11, CalmOK, Zenon DEF Calm
<1>. QED BY <1>9, <1>12

(***************************************************************************)
(* Reading a block                                                         *)
(***************************************************************************)
LEMMA ReadingOK ==
  ASSUME NEW s, Core(s), s.fls.res # "PENDING"
  PROVE  FeeOK(Reading(s))
<1>. DEFINE b == s.job.block
            addr == s.table[b]
            d == Done(s, "READ")
            t == Read(s, addr, SizeOf(b), "READ_WAIT")
<1>1. Reading(s) = CASE addr = INVALIDATED_BLOCK -> FinishJob(d, "BLOCK_INVALID")
                     [] addr = BLOCK_CORRUPT -> FinishJob(d, "BLOCK_INCONSISTENT")
                     [] OTHER -> t
  BY DEF Reading
<1>2. b \in Block /\ PlaceOK(b, addr)
  BY DEF Core, Shape, TableIn
<1>3. SizeOf(b) \in Nat \ {0} /\ SizeOf(b) = BlockSize[b]
  BY <1>2, BlockFacts
<1>4. Core(d) /\ d.fls = s.fls
  BY DoneCore DEF Alike, Fields
<1>. HIDE DEF d
<1>5. FeeOK(FinishJob(d, "BLOCK_INVALID")) /\ FeeOK(FinishJob(d, "BLOCK_INCONSISTENT"))
  BY <1>4, FinishJobCore
<1>6. ASSUME addr # INVALIDATED_BLOCK, addr # BLOCK_CORRUPT PROVE FeeOK(t)
  <2>1. addr \in Int /\ InOneBank(addr, SizeOf(b))
    BY <1>2, <1>3, <1>6 DEF PlaceOK
  <2>2. "READ_WAIT" \in States
    BY SMTT(30) DEF States, OtherStates
  <2>3. t.State = "READ_WAIT"
    BY <2>2, ReadCore, SMTT(30)
  <2>4. ScanIn(t) /\ WriteIn(t) /\ CopyIn(t)
    BY <2>3, ZenonT(40) DEF ScanIn, WriteIn, CopyIn, ScanStates, WriteStates, GCStates, CopyStates
  <2>. HIDE DEF addr, b
  <2>. QED BY <1>3, <2>1, <2>2, <2>4, ReadOK
<1>. HIDE DEF addr, t
<1>. QED BY <1>1, <1>5, <1>6

\* ReadWait keeps the invariant.
LEMMA ReadWaitOK ==
  ASSUME NEW s, Core(s), s.fls.res # "PENDING"
  PROVE  FeeOK(ReadWait(s))
<1>. DEFINE u == [s EXCEPT !.job.value = s.buffer[1].b]
            v == Done(u, "READ")
            d == Done(s, "READ")
<1>1. Core(u) /\ u.fls = s.fls
  <2>1. Alike(s, u, {"job"}) /\ u.job = [s.job EXCEPT !.value = s.buffer[1].b]
    BY DEF Alike, Fields, Core, Shape
  <2>2. /\ {"block", "invalidate", "value"} \subseteq DOMAIN u.job
        /\ u.job.block = s.job.block /\ u.job.invalidate = s.job.invalidate
    BY <2>1 DEF Core, Shape
  <2>. HIDE DEF u
  <2>. QED BY <2>1, <2>2 DEF Alike, Fields, Core, Shape, TableIn, NewBlockIn
<1>. HIDE DEF u
<1>2. Core(v) /\ v.fls = s.fls
  BY <1>1, DoneCore DEF Alike, Fields
<1>3. Core(d) /\ d.fls = s.fls
  BY DoneCore DEF Alike, Fields
<1>. HIDE DEF v, d
<1>4. FeeOK(FinishJob(v, "OK")) /\ FeeOK(FinishJob(d, "BLOCK_INCONSISTENT"))
  BY <1>2, <1>3, FinishJobCore
<1>5. ReadWait(s) = IF s.fls.res = "OK" THEN FinishJob(v, "OK") ELSE FinishJob(d, "BLOCK_INCONSISTENT")
  BY DEF ReadWait, d, v, u
<1>. QED BY <1>4, <1>5

(***************************************************************************)
(* Erasing a bank                                                          *)
(***************************************************************************)
LEMMA ErasingStates ==
  ASSUME NEW t, t.State \in OtherStates \ {"STARTUP_READ_BANK_HEADER_WAIT"}
  PROVE  ScanIn(t) /\ WriteIn(t) /\ CopyIn(t) /\ ReadsIn(t)
BY DEF ScanIn, WriteIn, CopyIn, ReadsIn, OtherStates, ScanStates, WriteStates, GCStates, CopyStates

\* EraseBank erases a bank from its start to its end.
LEMMA EraseBankOK ==
  ASSUME NEW s, Core(s)
  PROVE  FeeOK(EraseBank(s))
<1>. DEFINE a == Start(s.eraseBank)
            j == FlsJob("erase", a, BankLength, <<>>)
            t == [s EXCEPT !.State = "ERASE_BANK_WAIT", !.fls = j]
<1>1. EraseBank(s) = t
  BY DEF EraseBank
<1>2. a \in Int /\ BankLength \in Nat \ {0} /\ InOneBank(a, BankLength)
  BY BankFacts DEF Core, Shape, InOneBank
<1>3. j.op = "erase" /\ j.addr = a /\ j.n = BankLength
  BY FlsJobFields
<1>. HIDE DEF a, j
<1>4. Alike(s, t, {"State", "fls"}) /\ t.State = "ERASE_BANK_WAIT" /\ t.fls = j
  BY Zenon DEF Alike, Fields, Core, Shape
<1>. HIDE DEF t
<1>5. Core(t)
  BY <1>4, AlikeCore DEF Alike, States, OtherStates
<1>6. FlsIn(t)
  BY <1>2, <1>3, <1>4 DEF FlsIn
<1>7. FeeOK(t)
  BY <1>4, <1>5, <1>6, ErasingStates DEF FeeOK, OtherStates
<1>. QED BY <1>1, <1>7

\* EraseBankWait keeps the invariant.
LEMMA EraseBankWaitOK ==
  ASSUME NEW s, Core(s), s.fls.res # "PENDING"
  PROVE  FeeOK(EraseBankWait(s))
<1>. DEFINE a == End(s.eraseBank) - BANK_CTRL_SIZE
            p == BankHeader(s.nextBankCounter)
            t == Write(s, a, <<p>>, "WRITE_BANK_HEADER_WAIT")
            i == [s EXCEPT !.State = "IDLE", !.FailCounter = @ + 1]
<1>1. EraseBankWait(s) = IF s.fls.res = "OK" THEN t ELSE i
  BY DEF EraseBankWait
<1>2. a \in Int /\ InOneBank(a, 1)
  BY BankFacts DEF Core, Shape, InOneBank, BANK_CTRL_SIZE
<1>3. PageOK(p)
  BY PageKinds
<1>. HIDE DEF a, p
<1>4. "WRITE_BANK_HEADER_WAIT" \in States /\ "WRITE_BANK_HEADER_WAIT" \in OtherStates
  BY DEF States, OtherStates
<1>5. t.State = "WRITE_BANK_HEADER_WAIT"
  BY <1>4, WriteCore
<1>6. ScanIn(t) /\ WriteIn(t) /\ CopyIn(t)
  BY <1>4, <1>5, ErasingStates
<1>7. FeeOK(t)
  BY <1>2, <1>3, <1>4, <1>6, WritePageOK
<1>8. Alike(s, i, {"State", "FailCounter"}) /\ i.State \in Calm
  BY Zenon DEF Alike, Fields, Core, Shape, Calm
<1>9. FeeOK(i)
  BY <1>8, ToIdleOK, Zenon
<1>. QED BY <1>1, <1>7, <1>9

\* An update of what garbage collection and erasing work on.
LEMMA BanksCore ==
  ASSUME NEW s, Core(s), NEW t, Alike(s, t, {"State", "pending", "FailCounter", "nextBankCounter", "eraseBank",
                                             "gcBank", "gcBlock"}),
         t.State \in States, t.eraseBank \in Bank, t.gcBank \in Bank, t.gcBlock \in Nat \ {0}
  PROVE  Core(t)
BY DEF Alike, Core, Shape, TableIn, NewBlockIn, Fields

\* WriteBankHeaderWait keeps the invariant.
LEMMA WriteBankHeaderWaitOK ==
  ASSUME NEW s, Core(s), s.fls.res # "PENDING"
  PROVE  FeeOK(WriteBankHeaderWait(s))
<1>. DEFINE next == NEXT_BANK_IDX(s.eraseBank)
            f == [s EXCEPT !.FailCounter = @ + 1]
            pending == IF s.gcBank = next THEN s.pending \ {"ERASE"} ELSE s.pending
            counter == NEXT_BANK_COUNTERVAL(s.nextBankCounter)
            w == [s EXCEPT !.nextBankCounter = counter, !.eraseBank = next, !.State = "IDLE", !.pending = pending]
            c == [f EXCEPT !.State = "CORRUPTED"]
            e == [f EXCEPT !.State = "ERASE_BANK"]
<1>1. WriteBankHeaderWait(s) =
        IF s.fls.res = "OK" THEN w
        ELSE IF f.FailCounter > MAX_NOF_FAILED_GC_ATTEMPTS
          THEN IF s.status # "IDLE" THEN FinishJob(f, "FAILED") ELSE c
          ELSE e
  BY DEF WriteBankHeaderWait
<1>2. next \in Bank
  BY BankFacts DEF Core, Shape
<1>. HIDE DEF next, pending, counter
<1>3. FeeOK(w)
  <2>1. /\ Alike(s, w, {"State", "pending", "nextBankCounter", "eraseBank"}) /\ w.State = "IDLE"
        /\ w.eraseBank = next
    BY ZenonT(40) DEF Alike, Fields, Core, Shape
  <2>. HIDE DEF w
  <2>2. w.fls = s.fls /\ w.gcBank = s.gcBank /\ w.gcBlock = s.gcBlock
    BY <2>1 DEF Alike, Fields
  <2>3. Core(w)
    BY <1>2, <2>1, <2>2, BanksCore DEF Alike, Core, Shape, States, OtherStates
  <2>. QED BY <2>1, <2>2, <2>3, CalmOK DEF Calm
<1>4. Alike(s, f, {"FailCounter"})
  BY DEF Alike, Fields, Core, Shape
<1>5. Core(f) /\ f.fls = s.fls
  BY <1>4, AlikeCore DEF Alike, Fields, Core, Shape
<1>. HIDE DEF f
<1>6. FeeOK(FinishJob(f, "FAILED"))
  BY <1>5, FinishJobCore
<1>7. FeeOK(c) /\ FeeOK(e)
  <2>1. /\ Alike(f, c, {"State", "FailCounter"}) /\ c.State \in Calm
        /\ Alike(f, e, {"State", "FailCounter"}) /\ e.State \in Calm
    BY <1>5 DEF Alike, Fields, Core, Shape, Calm
  <2>. HIDE DEF c, e
  <2>. QED BY <1>5, <2>1, ToIdleOK
<1>. HIDE DEF w, c, e
<1>. QED BY <1>1, <1>3, <1>6, <1>7

(***************************************************************************)
(* Garbage collection                                                      *)
(***************************************************************************)
CopyRoom(s) ==
  /\ s.gcBlock \in Block /\ s.table[s.gcBlock] # BLOCK_CORRUPT
  /\ Room(s, IF s.table[s.gcBlock] = INVALIDATED_BLOCK THEN 0 ELSE BlockSize[s.gcBlock])

\* A bank with room for the block to copy has room for its administration.
LEMMA CopyRoomFacts ==
  ASSUME NEW s, Core(s), CopyRoom(s)
  PROVE  Room(s, 0) /\ (s.table[s.gcBlock] # INVALIDATED_BLOCK => Room(s, BlockSize[s.gcBlock]))
<1>1. BlockSize[s.gcBlock] \in Nat
  BY BlockFacts DEF CopyRoom
<1>. QED BY <1>1 DEF CopyRoom, Room, Core, NewBlockIn

\* What a step from one copying state to the next has to show.
LEMMA InCopyState ==
  ASSUME NEW s, Core(s), CopyRoom(s), NEW t, Alike(s, t, {"State", "fls", "gcOffset"}), t.State \in GCStates,
         t.State \in CopyStates =>
           s.table[s.gcBlock] # INVALIDATED_BLOCK /\ t.gcOffset \in 0..BlockSize[s.gcBlock],
         t.State = "GARBAGE_COLLECT_READ_WAIT" => t.gcOffset < BlockSize[s.gcBlock]
  PROVE  ScanIn(t) /\ WriteIn(t) /\ CopyIn(t)
<1>1. /\ t.table = s.table /\ t.gcBlock = s.gcBlock /\ t.NewBlockDataAddress = s.NewBlockDataAddress
      /\ t.NewBlockAdminAddress = s.NewBlockAdminAddress
  BY DEF Alike, Fields
<1>2. t.State \notin WriteStates /\ t.State \notin ScanStates /\ t.State # "STARTUP_READ_BANK_HEADER_WAIT"
  BY DEF WriteStates, GCStates, CopyStates, ScanStates
<1>3. Room(t, IF t.table[t.gcBlock] = INVALIDATED_BLOCK THEN 0 ELSE BlockSize[t.gcBlock])
  BY <1>1 DEF CopyRoom, Room
<1>. QED BY <1>1, <1>2, <1>3 DEF ScanIn, WriteIn, CopyIn, CopyRoom

\* GarbageCollectStartJob keeps the invariant.
LEMMA GarbageCollectStartJobOK ==
  ASSUME NEW s, Core(s), CopyRoom(s)
  PROVE  FeeOK(GarbageCollectStartJob(s))
<1>. DEFINE addr == IF s.table[s.gcBlock] = INVALIDATED_BLOCK THEN INVALIDATED_BLOCK ELSE s.NewBlockDataAddress
            p == AdminData(addr, SizeOf(s.gcBlock))
            t == Write(s, s.NewBlockAdminAddress, <<p>>, "GARBAGE_COLLECT_WRITE_ADMIN_DATA_WAIT")
<1>1. GarbageCollectStartJob(s) = t
  BY DEF GarbageCollectStartJob, WriteAdminData
<1>2. addr \in Int
  BY DEF Core, NewBlockIn, INVALIDATED_BLOCK
<1>3. PageOK(p)
  BY <1>2, SizeFacts, PageKinds
<1>. HIDE DEF p
<1>4. /\ "GARBAGE_COLLECT_WRITE_ADMIN_DATA_WAIT" \in States
      /\ "GARBAGE_COLLECT_WRITE_ADMIN_DATA_WAIT" \in GCStates
      /\ "GARBAGE_COLLECT_WRITE_ADMIN_DATA_WAIT" \notin CopyStates
  BY DEF States, GCStates, CopyStates
<1>5. Alike(s, t, {"State", "fls"}) /\ t.State = "GARBAGE_COLLECT_WRITE_ADMIN_DATA_WAIT"
  BY <1>4, WriteCore
<1>6. ScanIn(t) /\ WriteIn(t) /\ CopyIn(t)
  BY <1>4, <1>5, InCopyState DEF Alike
<1>7. InOneBank(s.NewBlockAdminAddress, 1) /\ s.NewBlockAdminAddress \in Int
  BY CopyRoomFacts, AdminInBank
<1>8. FeeOK(t)
  BY <1>3, <1>4, <1>6, <1>7, WritePageOK
<1>. QED BY <1>1, <1>8

\* The name of the block is the last page a copy writes.
LEMMA CopyIdOK ==
  ASSUME NEW s, Core(s), CopyRoom(s)
  PROVE  FeeOK(WriteAdminId(s, s.gcBlock, "GARBAGE_COLLECT_WRITE_ADMIN_ID_WAIT"))
<1>. DEFINE p == AdminId(s.gcBlock)
            a == s.NewBlockAdminAddress + BLOCK_CTRL_DATA_PAGE_SIZE
            t == Write(s, a, <<p>>, "GARBAGE_COLLECT_WRITE_ADMIN_ID_WAIT")
<1>1. WriteAdminId(s, s.gcBlock, "GARBAGE_COLLECT_WRITE_ADMIN_ID_WAIT") = t
  BY DEF WriteAdminId
<1>2. PageOK(p)
  BY PageKinds
<1>3. InOneBank(a, 1) /\ a \in Int
  BY CopyRoomFacts, AdminInBank DEF BLOCK_CTRL_DATA_PAGE_SIZE
<1>. HIDE DEF p, a
<1>4. /\ "GARBAGE_COLLECT_WRITE_ADMIN_ID_WAIT" \in States
      /\ "GARBAGE_COLLECT_WRITE_ADMIN_ID_WAIT" \in GCStates
      /\ "GARBAGE_COLLECT_WRITE_ADMIN_ID_WAIT" \notin CopyStates
  BY DEF States, GCStates, CopyStates
<1>5. Alike(s, t, {"State", "fls"}) /\ t.State = "GARBAGE_COLLECT_WRITE_ADMIN_ID_WAIT"
  BY <1>4, WriteCore
<1>6. ScanIn(t) /\ WriteIn(t) /\ CopyIn(t)
  BY <1>4, <1>5, InCopyState DEF Alike
<1>7. FeeOK(t)
  BY <1>2, <1>3, <1>4, <1>6, WritePageOK
<1>. QED BY <1>1, <1>7

\* RWBuffer takes what is left of the block, or as much as it has room for.
LEMMA CopySize ==
  ASSUME NEW s, s.gcBlock \in Block, s.gcOffset \in Nat, s.gcOffset < BlockSize[s.gcBlock]
  PROVE  /\ GarbageCollectSize(s) \in Nat \ {0}
         /\ s.gcOffset + GarbageCollectSize(s) <= BlockSize[s.gcBlock]
<1>. DEFINE x == BlockSize[s.gcBlock] - s.gcOffset
            S == {x, 2}
            m == IF x <= 2 THEN x ELSE 2
<1>1. x \in Nat \ {0} /\ GarbageCollectSize(s) = Min(S)
  <2>1. x \in Nat \ {0} /\ SizeOf(s.gcBlock) = BlockSize[s.gcBlock]
    BY BlockFacts
  <2>2. GarbageCollectSize(s) = Min(S)
    BY <2>1, Zenon DEF GarbageCollectSize, RWBUFFER_SIZE
  <2>. QED BY <2>1, <2>2
<1>. HIDE DEF x
<1>2. m \in S /\ \A y \in S : m <= y
  BY <1>1
<1>3. Min(S) \in S /\ \A y \in S : Min(S) <= y
  BY <1>2, Zenon DEF Min
<1>4. Min(S) \in Nat \ {0} /\ Min(S) <= x
  BY <1>1, <1>3, SMTT(30)
<1>. QED BY <1>1, <1>4, BlockFacts DEF x

\* GarbageCollectRead reads within the block.
LEMMA GarbageCollectReadOK ==
  ASSUME NEW s, Core(s), CopyRoom(s), s.table[s.gcBlock] # INVALIDATED_BLOCK,
         s.gcOffset \in Nat, s.gcOffset < BlockSize[s.gcBlock]
  PROVE  FeeOK(GarbageCollectRead(s))
<1>. DEFINE n == GarbageCollectSize(s)
            a == s.table[s.gcBlock] + s.gcOffset
            t == Read(s, a, n, "GARBAGE_COLLECT_READ_WAIT")
<1>1. GarbageCollectRead(s) = t
  BY DEF GarbageCollectRead
<1>2. n \in Nat \ {0} /\ s.gcOffset + n <= BlockSize[s.gcBlock] /\ BlockSize[s.gcBlock] \in Nat
  BY CopySize, BlockFacts, SMTT(30) DEF CopyRoom
<1>3. a \in Int /\ InOneBank(a, n)
  <2>1. s.table[s.gcBlock] \in Int /\ InOneBank(s.table[s.gcBlock], BlockSize[s.gcBlock])
    BY DEF Core, TableIn, PlaceOK, CopyRoom
  <2>. HIDE DEF n
  <2>. QED BY <1>2, <2>1, BankFacts DEF InOneBank
<1>4. \A u : u.gcBlock = s.gcBlock /\ u.gcOffset = s.gcOffset => GarbageCollectSize(u) = n
  BY DEF GarbageCollectSize
<1>. HIDE DEF n, a
<1>5. "GARBAGE_COLLECT_READ_WAIT" \in States /\ "GARBAGE_COLLECT_READ_WAIT" \in GCStates
  BY DEF States, GCStates, CopyStates
<1>6. Alike(s, t, {"State", "fls"}) /\ t.State = "GARBAGE_COLLECT_READ_WAIT"
  BY <1>5, ReadCore
<1>7. t.gcOffset = s.gcOffset /\ t.gcBlock = s.gcBlock
  BY <1>6 DEF Alike, Fields
<1>8. ScanIn(t) /\ WriteIn(t) /\ CopyIn(t)
  <2>1. Alike(s, t, {"State", "fls", "gcOffset"}) /\ t.gcOffset \in 0..BlockSize[s.gcBlock]
    BY <1>2, <1>6, <1>7 DEF Alike
  <2>. QED BY <1>5, <1>6, <1>7, <2>1, InCopyState
<1>9. n = GarbageCollectSize(t)
  BY <1>4, <1>7, Zenon
<1>10. FeeOK(t)
  BY <1>2, <1>3, <1>5, <1>8, <1>9, ReadOK
<1>. QED BY <1>1, <1>10

\* GarbageCollectWriteAdminDataWait keeps the invariant.
LEMMA GarbageCollectWriteAdminDataWaitOK ==
  ASSUME NEW s, Core(s), CopyRoom(s), s.fls.res # "PENDING"
  PROVE  FeeOK(GarbageCollectWriteAdminDataWait(s))
<1>. DEFINE next == "GARBAGE_COLLECT_WRITE_CHECK_ADMIN_DATA_WAIT"
            t == Read(s, s.NewBlockAdminAddress, ADMIN_SIZE, next)
            z == [s EXCEPT !.gcOffset = 0]
<1>1. GarbageCollectWriteAdminDataWait(s) =
        IF s.fls.res = "OK"
          THEN IF s.table[s.gcBlock] = INVALIDATED_BLOCK
                 THEN WriteAdminId(s, s.gcBlock, "GARBAGE_COLLECT_WRITE_ADMIN_ID_WAIT")
                 ELSE GarbageCollectRead(z)
          ELSE t
  BY DEF GarbageCollectWriteAdminDataWait
<1>2. ASSUME s.table[s.gcBlock] # INVALIDATED_BLOCK PROVE FeeOK(GarbageCollectRead(z))
  <2>1. Alike(s, z, {"gcOffset"}) /\ z.gcOffset = 0
    BY DEF Alike, Fields, Core, Shape
  <2>. HIDE DEF z
  <2>2. /\ z.table = s.table /\ z.gcBlock = s.gcBlock /\ z.NewBlockDataAddress = s.NewBlockDataAddress
        /\ z.NewBlockAdminAddress = s.NewBlockAdminAddress /\ z.State = s.State
    BY <2>1 DEF Alike, Fields
  <2>3. Core(z)
    BY <2>1, <2>2, AlikeCore DEF Alike, Core, Shape
  <2>4. CopyRoom(z) /\ z.table[z.gcBlock] # INVALIDATED_BLOCK
    BY <1>2, <2>2 DEF CopyRoom, Room
  <2>5. BlockSize[z.gcBlock] \in Nat \ {0}
    BY <2>4, BlockFacts DEF CopyRoom
  <2>. QED BY <2>1, <2>3, <2>4, <2>5, GarbageCollectReadOK
<1>3. FeeOK(t)
  <2>1. next \in States /\ next \in GCStates /\ next \notin CopyStates
    BY DEF States, GCStates, CopyStates
  <2>2. Alike(s, t, {"State", "fls"}) /\ t.State = next
    BY <2>1, ReadCore
  <2>3. ScanIn(t) /\ WriteIn(t) /\ CopyIn(t)
    BY <2>1, <2>2, InCopyState DEF Alike
  <2>4. InOneBank(s.NewBlockAdminAddress, ADMIN_SIZE) /\ s.NewBlockAdminAddress \in Int
    BY CopyRoomFacts, AdminInBank
  <2>5. ADMIN_SIZE \in Nat \ {0}
    BY DEF ADMIN_SIZE
  <2>. QED BY <2>1, <2>3, <2>4, <2>5, ReadOK
<1>. HIDE DEF t, z
<1>. QED BY <1>1, <1>2, <1>3, CopyIdOK

\* The part of the block in RWBuffer is written behind the parts before it.
LEMMA GarbageCollectWriteDataOK ==
  ASSUME NEW s, FeeOK(s), s.State = "GARBAGE_COLLECT_READ_WAIT", s.fls.res # "PENDING"
  PROVE  FeeOK(GarbageCollectWriteData(s))
<1>. DEFINE n == GarbageCollectSize(s)
            a == s.NewBlockDataAddress + s.gcOffset
            m == BlockSize[s.gcBlock]
            pages == s.buffer
            u == Write(s, a, pages, "GARBAGE_COLLECT_WRITE_DATA_WAIT")
            t == [u EXCEPT !.gcOffset = @ + n]
<1>1. GarbageCollectWriteData(s) = t
  BY DEF GarbageCollectWriteData
<1>2. Core(s) /\ CopyRoom(s) /\ s.table[s.gcBlock] # INVALIDATED_BLOCK /\ s.gcOffset \in Nat /\ s.gcOffset < m
  <2>1. s.State \in GCStates /\ s.State \in CopyStates
    BY DEF GCStates, CopyStates
  <2>2. s.gcOffset \in Nat
    BY <2>1 DEF FeeOK, CopyIn
  <2>. QED BY <2>1, <2>2 DEF FeeOK, CopyIn, CopyRoom
<1>3. n \in Nat \ {0} /\ s.gcOffset + n <= m /\ m \in Nat
  BY <1>2, CopySize, BlockFacts DEF CopyRoom
<1>4. pages \in Seq(Range(pages)) /\ PagesOK(pages) /\ Len(pages) = n
  BY DEF FeeOK, ReadsIn
<1>. HIDE DEF n, pages
<1>5. DOMAIN pages = 1..n
  BY <1>4
<1>6. /\ InOneBank(a, n) /\ a \in Int
      /\ s.NewBlockDataAddress <= a /\ a + n <= s.NewBlockAdminAddress
  BY <1>2, <1>3, CopyRoomFacts, DataInBank
<1>. HIDE DEF a
<1>7. "GARBAGE_COLLECT_WRITE_DATA_WAIT" \in States /\ "GARBAGE_COLLECT_WRITE_DATA_WAIT" \in GCStates
  BY DEF States, GCStates, CopyStates
<1>8. Alike(s, u, {"State", "fls"}) /\ u.State = "GARBAGE_COLLECT_WRITE_DATA_WAIT"
  BY <1>2, <1>7, WriteCore, SMTT(30)
<1>9. u.gcOffset = s.gcOffset /\ u.gcBlock = s.gcBlock /\ u.table = s.table
  BY <1>8 DEF Alike, Fields
<1>10. ScanIn(u) /\ WriteIn(u) /\ CopyIn(u)
  <2>1. Alike(s, u, {"State", "fls", "gcOffset"}) /\ u.gcOffset \in 0..m
    BY <1>2, <1>3, <1>8, <1>9 DEF Alike
  <2>. QED BY <1>2, <1>7, <1>8, <1>9, <2>1, InCopyState
<1>11. FeeOK(u)
  BY <1>2, <1>3, <1>4, <1>5, <1>6, <1>7, <1>10, WriteOK, Zenon
<1>. HIDE DEF u
<1>12. Alike(u, t, {"gcOffset"}) /\ t.gcOffset = s.gcOffset + n
  BY <1>9, <1>11 DEF Alike, Fields, FeeOK, Core, Shape
<1>. HIDE DEF t
<1>13. /\ t.State = u.State /\ t.fls = u.fls /\ t.table = u.table /\ t.gcBlock = u.gcBlock
       /\ t.NewBlockDataAddress = u.NewBlockDataAddress /\ t.NewBlockAdminAddress = u.NewBlockAdminAddress
  BY <1>12 DEF Alike, Fields
<1>14. Core(t)
  BY <1>11, <1>12, <1>13, AlikeCore, Zenon DEF Alike, FeeOK, Core, Shape
<1>15. CopyIn(t)
  <2>1. t.gcOffset \in 0..m /\ u.State # "GARBAGE_COLLECT_READ_WAIT"
    BY <1>2, <1>3, <1>8, <1>12
  <2>2. CopyIn(u) /\ u.State \in GCStates
    BY <1>7, <1>8, <1>10
  <2>3. Room(t, IF t.table[t.gcBlock] = INVALIDATED_BLOCK THEN 0 ELSE BlockSize[t.gcBlock])
    BY <1>13, <2>2 DEF CopyIn, Room
  <2>. QED BY <1>2, <1>9, <1>13, <2>1, <2>2, <2>3 DEF CopyIn
<1>16. ScanIn(t) /\ WriteIn(t) /\ ReadsIn(t)
  BY <1>8, <1>13 DEF ScanIn, WriteIn, ReadsIn, ScanStates, WriteStates
<1>17. FlsIn(t)
  BY <1>11, <1>13 DEF FeeOK, FlsIn
<1>. QED BY <1>1, <1>14, <1>15, <1>16, <1>17 DEF FeeOK

\* GarbageCollectReadWait keeps the invariant.
LEMMA GarbageCollectReadWaitOK ==
  ASSUME NEW s, FeeOK(s), s.State = "GARBAGE_COLLECT_READ_WAIT", s.fls.res # "PENDING"
  PROVE  FeeOK(GarbageCollectReadWait(s))
<1>. DEFINE u == [s EXCEPT !.table[s.gcBlock] = BLOCK_CORRUPT]
            v == [u EXCEPT !.gcBlock = @ + 1]
<1>1. s.gcBlock \in Block /\ Core(s)
  BY DEF FeeOK, CopyIn, GCStates, CopyStates
<1>2. GarbageCollectReadWait(s) = IF s.fls.res = "OK" THEN GarbageCollectWriteData(s) ELSE AbortGCJob(v)
  <2>1. [s EXCEPT !.table[s.gcBlock] = BLOCK_CORRUPT, !.gcBlock = @ + 1] = v
    BY <1>1 DEF Core, Shape, Fields
  <2>. QED BY <2>1 DEF GarbageCollectReadWait
<1>3. Core(u) /\ u.fls = s.fls
  <2>1. PlaceOK(s.gcBlock, BLOCK_CORRUPT)
    BY DEF PlaceOK, BLOCK_CORRUPT
  <2>2. Core(u) /\ Alike(s, u, {"table"})
    BY <1>1, <2>1, TableCore, ZenonT(40)
  <2>. QED BY <2>2 DEF Alike, Fields
<1>. HIDE DEF u
<1>4. Core(v) /\ v.fls = s.fls
  <2>1. Alike(u, v, {"gcBlock"}) /\ v.gcBlock = u.gcBlock + 1
    BY <1>3 DEF Alike, Fields, Core, Shape
  <2>. HIDE DEF v
  <2>2. v.fls = u.fls /\ v.State = u.State /\ v.gcBank = u.gcBank /\ v.eraseBank = u.eraseBank
    BY <2>1 DEF Alike, Fields
  <2>3. v.gcBlock \in Nat \ {0}
    BY <1>3, <2>1 DEF Core, Shape
  <2>. QED BY <1>3, <2>1, <2>2, <2>3, BanksCore DEF Alike, Core, Shape
<1>. HIDE DEF v
<1>. QED BY <1>2, <1>4, GarbageCollectWriteDataOK, AbortGCJobOK

\* GarbageCollectWriteDataWait keeps the invariant.
LEMMA GarbageCollectWriteDataWaitOK ==
  ASSUME NEW s, FeeOK(s), s.State = "GARBAGE_COLLECT_WRITE_DATA_WAIT", s.fls.res # "PENDING"
  PROVE  FeeOK(GarbageCollectWriteDataWait(s))
<1>1. /\ Core(s) /\ CopyRoom(s) /\ s.table[s.gcBlock] # INVALIDATED_BLOCK
      /\ s.gcOffset \in 0..BlockSize[s.gcBlock]
  <2>1. s.State \in GCStates /\ s.State \in CopyStates
    BY DEF GCStates, CopyStates
  <2>. QED BY <2>1 DEF FeeOK, CopyIn, CopyRoom
<1>2. BlockSize[s.gcBlock] \in Nat /\ SizeOf(s.gcBlock) = BlockSize[s.gcBlock]
  BY <1>1, BlockFacts DEF CopyRoom
<1>3. s.gcOffset \in Nat
  BY <1>1, <1>2
<1>4. GarbageCollectWriteDataWait(s) =
        IF s.fls.res = "OK"
          THEN IF s.gcOffset < BlockSize[s.gcBlock]
                 THEN GarbageCollectRead(s)
                 ELSE WriteAdminId(s, s.gcBlock, "GARBAGE_COLLECT_WRITE_ADMIN_ID_WAIT")
          ELSE AbortGCJob(s)
  BY <1>2, <1>3 DEF GarbageCollectWriteDataWait
<1>. QED BY <1>1, <1>3, <1>4, GarbageCollectReadOK, CopyIdOK, AbortGCJobOK, SMTT(30)

\* GarbageCollectWriteAdminIdWait keeps the invariant.
LEMMA GarbageCollectWriteAdminIdWaitOK ==
  ASSUME NEW s, Core(s), CopyRoom(s), s.fls.res # "PENDING"
  PROVE  FeeOK(GarbageCollectWriteAdminIdWait(s))
<1>. DEFINE b == s.gcBlock
            stays == s.table[b] = INVALIDATED_BLOCK
            addr == IF stays THEN INVALIDATED_BLOCK ELSE s.NewBlockDataAddress
            n == IF stays THEN 0 ELSE SizeOf(b)
            moved == [s EXCEPT !.table[b] = s.NewBlockDataAddress, !.NewBlockDataAddress = @ + SizeOf(b)]
            r == IF ~stays THEN moved ELSE s
            t == [r EXCEPT !.NewBlockAdminAddress = @ - ADMIN_SIZE, !.gcBlock = @ + 1, !.State = "IDLE"]
            u == [s EXCEPT !.table[b] = addr]
            v == [u EXCEPT !.NewBlockDataAddress = @ + n, !.NewBlockAdminAddress = @ - ADMIN_SIZE, !.gcBlock = @ + 1]
<1>1. GarbageCollectWriteAdminIdWait(s) = IF s.fls.res # "OK" THEN AbortGCJob(s) ELSE t
  BY DEF GarbageCollectWriteAdminIdWait
<1>2. b \in Block /\ n \in Nat
  BY SizeFacts DEF CopyRoom
<1>3. PlaceOK(b, addr)
  <2>1. CASE stays
    BY <2>1 DEF PlaceOK, INVALIDATED_BLOCK
  <2>2. CASE ~stays
    <3>1. BlockSize[b] \in Nat /\ Room(s, BlockSize[b])
      BY <1>2, <2>2, BlockFacts, CopyRoomFacts
    <3>2. InOneBank(s.NewBlockDataAddress + 0, BlockSize[b])
      BY <3>1, DataInBank
    <3>3. s.NewBlockDataAddress + 0 = s.NewBlockDataAddress /\ s.NewBlockDataAddress \in Int
      BY DEF Core, NewBlockIn
    <3>. QED BY <2>2, <3>2, <3>3 DEF PlaceOK
  <2>. QED BY <2>1, <2>2
<1>4. Core(u) /\ Alike(s, u, {"table"}) /\ u.table = [s.table EXCEPT ![b] = addr]
  <2>. HIDE DEF addr, stays
  <2>1. Core(u) /\ Alike(s, u, {"table"})
    BY <1>2, <1>3, TableCore, Zenon
  <2>2. u.table = [s.table EXCEPT ![b] = addr]
    BY DEF Core, Shape, Fields
  <2>. QED BY <2>1, <2>2
<1>. HIDE DEF u
<1>5. /\ Alike(u, v, {"NewBlockDataAddress", "NewBlockAdminAddress", "gcBlock"})
      /\ v.NewBlockDataAddress = u.NewBlockDataAddress + n
      /\ v.NewBlockAdminAddress = u.NewBlockAdminAddress - ADMIN_SIZE /\ v.gcBlock = u.gcBlock + 1
  <2>. HIDE DEF n
  <2>. QED BY <1>4, ZenonT(40) DEF Alike, Fields, Core, Shape
<1>. HIDE DEF v
<1>6. Core(v)
  BY <1>2, <1>4, <1>5, MovedIn DEF Alike
<1>7. Alike(v, t, {"State"}) /\ t.State = "IDLE"
  <2>1. CASE stays
    <3>1. /\ Alike(s, t, {"State", "NewBlockAdminAddress", "gcBlock"}) /\ t.State = "IDLE"
          /\ t.NewBlockAdminAddress = s.NewBlockAdminAddress - ADMIN_SIZE /\ t.gcBlock = s.gcBlock + 1
      BY <2>1, ZenonT(40) DEF Alike, Fields, Core, Shape
    <3>2. u.table = s.table
      BY <1>2, <1>4, <2>1 DEF Core, TableIn
    <3>3. v.NewBlockDataAddress = s.NewBlockDataAddress
      BY <1>4, <1>5, <2>1 DEF Alike, Fields, Core, NewBlockIn
    <3>. HIDE DEF t, n
    <3>. QED BY <1>4, <1>5, <3>1, <3>2, <3>3 DEF Alike, Fields
  <2>2. CASE ~stays
    <3>1. /\ Alike(s, t, {"State", "table", "NewBlockDataAddress", "NewBlockAdminAddress", "gcBlock"})
          /\ t.State = "IDLE" /\ t.table = [s.table EXCEPT ![b] = s.NewBlockDataAddress]
          /\ t.NewBlockDataAddress = s.NewBlockDataAddress + SizeOf(b)
          /\ t.NewBlockAdminAddress = s.NewBlockAdminAddress - ADMIN_SIZE /\ t.gcBlock = s.gcBlock + 1
      BY <2>2, ZenonT(40) DEF Alike, Fields, Core, Shape
    <3>2. n = SizeOf(b) /\ addr = s.NewBlockDataAddress
      BY <2>2
    <3>. HIDE DEF t, n, addr
    <3>. QED BY <1>4, <1>5, <3>1, <3>2 DEF Alike, Fields
  <2>. QED BY <2>1, <2>2
<1>. HIDE DEF t
<1>8. t.fls = s.fls /\ DOMAIN t = DOMAIN v
  BY <1>4, <1>5, <1>7 DEF Alike, Fields
<1>9. Core(t)
  BY <1>6, <1>7, AlikeCore DEF Alike, States, OtherStates
<1>10. FeeOK(t)
  BY <1>7, <1>8, <1>9, CalmOK DEF Calm
<1>. QED BY <1>1, <1>10, AbortGCJobOK

\* GarbageCollectWriteCheckAdminDataWait keeps the invariant.
LEMMA GarbageCollectWriteCheckAdminDataWaitOK ==
  ASSUME NEW s, Core(s), s.fls.res # "PENDING"
  PROVE  FeeOK(GarbageCollectWriteCheckAdminDataWait(s))
<1>. DEFINE t == [s EXCEPT !.State = "IDLE", !.FailCounter = @ + 1]
<1>1. Alike(s, t, {"State", "FailCounter"}) /\ t.State \in Calm
  BY Zenon DEF Alike, Fields, Core, Shape, Calm
<1>2. FeeOK(t)
  BY <1>1, ToIdleOK, Zenon
<1>. QED BY <1>2, AbortGCJobOK DEF GarbageCollectWriteCheckAdminDataWait

(***************************************************************************)
(* Idle                                                                    *)
(***************************************************************************)
\* The flags of the pending jobs.
LEMMA PendingOK ==
  ASSUME NEW s, Core(s), s.State = "IDLE", s.fls.res # "PENDING", NEW p
  PROVE  FeeOK([s EXCEPT !.pending = p])
<1>. DEFINE t == [s EXCEPT !.pending = p]
<1>1. Alike(s, t, {"pending"})
  BY DEF Alike, Fields, Core, Shape
<1>. HIDE DEF t
<1>2. t.State = "IDLE" /\ t.fls = s.fls /\ "IDLE" \in States
  BY <1>1 DEF Alike, Fields, States, OtherStates
<1>3. Core(t)
  BY <1>1, <1>2, AlikeCore DEF Alike
<1>4. FeeOK(t)
  BY <1>2, <1>3, CalmOK DEF Calm
<1>. QED BY <1>4 DEF t

\* The idle state starts a write, erases the next bank first or forces a garbage collection.
LEMMA IdleWriteOK ==
  ASSUME NEW s, Core(s), s.State = "IDLE", s.fls.res # "PENDING", "WRITE" \in s.pending
  PROVE  FeeOK(IdleWrite(s))
<1>. DEFINE b == s.job.block
            next == NEXT_BANK_IDX(s.writeBank)
            size == IF s.job.invalidate THEN 0 ELSE SizeOf(b)
            full == "FORCED_GC" \notin s.pending /\ next = s.gcBank /\ Remaining(s) < TotalFeeSize + size + ADMIN_SIZE
            p == s.pending \cup {"FORCED_GC"}
            forced == [s EXCEPT !.pending = p]
            given == [s EXCEPT !.table[b] = BLOCK_CORRUPT]
            erase == [s EXCEPT !.State = "ERASE_BANK"]
            switch == [s EXCEPT !.writeBank = next, !.NewBlockAdminAddress = FirstAdmin(next),
                                !.NewBlockDataAddress = Start(next), !.pending = @ \cup {"GC"}]
<1>1. /\ b \in Block /\ BlockSize[b] \in Nat /\ SizeOf(b) = BlockSize[b] /\ BlockSize[b] + 3 <= BankLength
      /\ size \in Nat /\ Remaining(s) \in Int
  BY BlockFacts DEF Core, Shape, NewBlockIn, Remaining
<1>2. IdleWrite(s) = IF full THEN forced ELSE IF Remaining(s) >= size THEN WriteStartJob(s)
                     ELSE IF next = s.gcBank THEN given ELSE IF next = s.eraseBank THEN erase
                     ELSE WriteStartJob(switch)
  BY <1>1 DEF IdleWrite
<1>. HIDE DEF full
<1>3. FeeOK(forced)
  <2>. HIDE DEF p
  <2>. QED BY PendingOK
<1>4. ASSUME Remaining(s) >= size PROVE FeeOK(WriteStartJob(s))
  <2>1. WriteRoom(s)
    BY <1>1, <1>4 DEF WriteRoom, Room, Remaining, Core, NewBlockIn
  <2>. QED BY <2>1, WriteStartJobOK
<1>5. FeeOK(given)
  <2>1. PlaceOK(b, BLOCK_CORRUPT)
    BY DEF PlaceOK, BLOCK_CORRUPT
  <2>2. Core(given) /\ Alike(s, given, {"table"})
    BY <1>1, <2>1, TableCore, Zenon
  <2>. HIDE DEF given
  <2>3. given.State = "IDLE" /\ given.fls = s.fls
    BY <2>2 DEF Alike, Fields
  <2>. QED BY <2>2, <2>3, CalmOK DEF Calm
<1>6. FeeOK(erase)
  <2>1. Alike(s, erase, {"State", "FailCounter"}) /\ erase.State \in Calm
    BY DEF Alike, Fields, Core, Shape, Calm
  <2>. QED BY <2>1, ToIdleOK, Zenon
<1>7. FeeOK(WriteStartJob(switch))
  <2>1. next \in Bank
    BY BankFacts DEF Core, NewBlockIn
  <2>. HIDE DEF next
  <2>2. /\ Alike(s, switch, {"writeBank", "NewBlockAdminAddress", "NewBlockDataAddress", "pending"})
        /\ switch.writeBank = next /\ switch.NewBlockAdminAddress = FirstAdmin(next)
        /\ switch.NewBlockDataAddress = Start(next) /\ "WRITE" \in switch.pending
    BY Zenon DEF Alike, Fields, Core, Shape
  <2>. HIDE DEF switch
  <2>3. /\ switch.job = s.job /\ switch.State = s.State /\ switch.startup = s.startup /\ switch.table = s.table
        /\ switch.gcBlock = s.gcBlock /\ switch.gcBank = s.gcBank /\ switch.eraseBank = s.eraseBank
        /\ DOMAIN switch = DOMAIN s
    BY <2>2 DEF Alike, Fields
  <2>4. NewBlockIn(switch)
    BY <2>1, <2>2, BankFacts DEF NewBlockIn
  <2>5. Core(switch)
    BY <2>3, <2>4 DEF Core, Shape, TableIn
  <2>6. WriteRoom(switch)
    BY <1>1, <2>1, <2>2, <2>3, BankFacts DEF WriteRoom, Room
  <2>. QED BY <2>2, <2>5, <2>6, WriteStartJobOK
<1>. HIDE DEF forced, given, erase, switch
<1>. QED BY <1>2, <1>3, <1>4, <1>5, <1>6, <1>7

\* The least element of a set of naturals.
LEMMA MinOfNaturals ==
  ASSUME NEW S \in SUBSET Nat, S # {}
  PROVE  Min(S) \in S
<1>1. PICK x \in S : \A y \in S : ~ (<<y, x>> \in OpToRel(<, Nat))
  BY WFMin, NatLessThanWellFounded, Zenon
<1>2. \A y \in S : ~ (y < x)
  BY <1>1, Zenon DEF OpToRel
<1>3. \A y \in S : x <= y
  BY <1>2
<1>. QED BY <1>3, Zenon DEF Min

\* The search for the next block to copy.
LEMMA SearchCore ==
  ASSUME NEW s, Core(s), NEW found, found \subseteq Block, NEW t, t = Search(s, found)
  PROVE  /\ Core(t) /\ Alike(s, t, {"gcBlock"})
         /\ t.gcBlock \in found \cup {Len(BlockSize) + 1}
<1>. DEFINE S == (s.gcBlock..Len(BlockSize) \cap found) \cup {Len(BlockSize) + 1}
            m == Min(S)
<1>1. Len(BlockSize) \in Nat /\ Block = 1..Len(BlockSize)
  BY FeeConfig DEF Block
<1>2. S \in SUBSET Nat /\ S # {} /\ S \subseteq found \cup {Len(BlockSize) + 1}
  BY <1>1
<1>3. t = [s EXCEPT !.gcBlock = m]
  BY DEF Search
<1>. HIDE DEF S
<1>4. m \in found \cup {Len(BlockSize) + 1}
  BY <1>2, MinOfNaturals, ZenonT(40)
<1>. HIDE DEF m
<1>5. m \in Nat \ {0}
  BY <1>1, <1>4
<1>6. Alike(s, t, {"gcBlock"}) /\ t.gcBlock = m
  BY <1>3 DEF Alike, Fields, Core, Shape
<1>7. t.State = s.State /\ t.gcBank = s.gcBank /\ t.eraseBank = s.eraseBank
  BY <1>6 DEF Alike, Fields
<1>8. Core(t)
  BY <1>5, <1>6, <1>7, BanksCore, SMTT(30) DEF Alike, Core, Shape
<1>. QED BY <1>4, <1>6, <1>8

\* The end of a garbage collection keeps the invariant.
LEMMA GarbageCollectDoneOK ==
  ASSUME NEW s, Core(s), s.State = "IDLE", s.fls.res # "PENDING", NEW flags
  PROVE  FeeOK(GarbageCollectDone(s, flags))
<1>. DEFINE next == NEXT_BANK_IDX(s.gcBank)
            p == (s.pending \ (IF next = s.writeBank THEN flags \cup {"GC"} ELSE flags)) \cup {"ERASE"}
            t == [s EXCEPT !.gcBank = next, !.gcBlock = 1, !.pending = p]
<1>1. GarbageCollectDone(s, flags) = t
  BY DEF GarbageCollectDone
<1>2. next \in Bank
  BY BankFacts DEF Core, Shape
<1>. HIDE DEF next, p
<1>3. Alike(s, t, {"gcBank", "gcBlock", "pending"}) /\ t.gcBank = next /\ t.gcBlock = 1
  BY ZenonT(40) DEF Alike, Fields, Core, Shape
<1>. HIDE DEF t
<1>4. t.State = s.State /\ t.eraseBank = s.eraseBank /\ t.fls = s.fls
  BY <1>3 DEF Alike, Fields
<1>5. Core(t)
  BY <1>2, <1>3, <1>4, BanksCore, SMTT(30) DEF Alike, Core, Shape
<1>6. FeeOK(t)
  BY <1>4, <1>5, CalmOK DEF Calm
<1>. QED BY <1>1, <1>6

\* A block found in the bank that is collected is not given up.
LEMMA InGcBankFacts ==
  ASSUME NEW s, Core(s), NEW b \in Block, InGcBank(s, b)
  PROVE  s.table[b] # BLOCK_CORRUPT /\ s.table[b] # INVALIDATED_BLOCK
BY BankFacts DEF InGcBank, IS_ADDRESS_WITHIN_BANK, Core, Shape, BLOCK_CORRUPT, INVALIDATED_BLOCK

\* A forced garbage collection keeps the invariant.
LEMMA IdleForcedGarbageCollectOK ==
  ASSUME NEW s, Core(s), s.State = "IDLE", s.fls.res # "PENDING"
  PROVE  FeeOK(IdleForcedGarbageCollect(s))
<1>. DEFINE found == {b \in Block : s.table[b] = INVALIDATED_BLOCK \/ InGcBank(s, b)}
            r == Search(s, found)
            c == r.gcBlock
            size == IF s.table[c] = INVALIDATED_BLOCK THEN 0 ELSE SizeOf(c)
            u == [r EXCEPT !.table[c] = BLOCK_CORRUPT]
            v == [r EXCEPT !.table[c] = BLOCK_CORRUPT, !.gcBlock = @ + 1]
<1>1. /\ Core(r) /\ Alike(s, r, {"gcBlock"}) /\ c \in found \cup {Len(BlockSize) + 1}
  BY SearchCore, Zenon
<1>2. IdleForcedGarbageCollect(s) = IF c \notin Block THEN GarbageCollectDone(r, {"FORCED_GC"})
                                    ELSE IF size > Remaining(s) THEN v ELSE GarbageCollectStartJob(r)
  BY DEF IdleForcedGarbageCollect
<1>. HIDE DEF r
<1>3. /\ r.State = "IDLE" /\ r.fls = s.fls /\ r.table = s.table /\ r.NewBlockDataAddress = s.NewBlockDataAddress
      /\ r.NewBlockAdminAddress = s.NewBlockAdminAddress
  BY <1>1 DEF Alike, Fields
<1>4. FeeOK(GarbageCollectDone(r, {"FORCED_GC"}))
  BY <1>1, <1>3, GarbageCollectDoneOK
<1>5. ASSUME c \in Block PROVE FeeOK(v)
  <2>1. PlaceOK(c, BLOCK_CORRUPT)
    BY DEF PlaceOK, BLOCK_CORRUPT
  <2>2. Core(u) /\ Alike(r, u, {"table"})
    BY <1>1, <1>5, <2>1, TableCore, ZenonT(40)
  <2>3. Alike(u, v, {"gcBlock"}) /\ v.gcBlock = u.gcBlock + 1
    BY <1>1, Zenon DEF Alike, Fields, Core, Shape
  <2>. HIDE DEF u, v
  <2>4. /\ v.fls = r.fls /\ v.State = r.State /\ v.gcBank = u.gcBank /\ v.eraseBank = u.eraseBank
        /\ u.State = r.State
    BY <2>2, <2>3 DEF Alike, Fields
  <2>5. v.gcBlock \in Nat \ {0}
    BY <2>2, <2>3, SMTT(30) DEF Core, Shape
  <2>6. Core(v)
    BY <2>2, <2>3, <2>4, <2>5, BanksCore, SMTT(30) DEF Alike, Core, Shape
  <2>. QED BY <1>3, <2>4, <2>6, CalmOK DEF Calm
<1>6. ASSUME c \in Block, ~(size > Remaining(s)) PROVE FeeOK(GarbageCollectStartJob(r))
  <2>1. Len(BlockSize) + 1 \notin Block
    BY FeeConfig DEF Block
  <2>2. s.table[c] # BLOCK_CORRUPT
    BY <1>1, <1>6, <2>1, InGcBankFacts DEF BLOCK_CORRUPT, INVALIDATED_BLOCK
  <2>3. CopyRoom(r)
    BY <1>3, <1>6, <2>2, BlockFacts DEF CopyRoom, Room, Remaining, Core, NewBlockIn
  <2>. QED BY <1>1, <2>3, GarbageCollectStartJobOK
<1>. HIDE DEF c, size, v
<1>. QED BY <1>2, <1>4, <1>5, <1>6

\* A garbage collection keeps the invariant.
LEMMA IdleGarbageCollectOK ==
  ASSUME NEW s, Core(s), s.State = "IDLE", s.fls.res # "PENDING"
  PROVE  FeeOK(IdleGarbageCollect(s))
<1>. DEFINE found == {b \in Block : (s.table[b] = INVALIDATED_BLOCK /\ Remaining(s) >= 0) \/ InGcBank(s, b)}
            r == Search(s, found)
            c == r.gcBlock
<1>1. /\ Core(r) /\ Alike(s, r, {"gcBlock"}) /\ c \in found \cup {Len(BlockSize) + 1}
  BY SearchCore, ZenonT(40)
<1>2. IdleGarbageCollect(s) = IF c \notin Block THEN GarbageCollectDone(r, {})
                              ELSE IF s.table[c] = INVALIDATED_BLOCK THEN GarbageCollectStartJob(r) ELSE r
  BY DEF IdleGarbageCollect
<1>. HIDE DEF r
<1>3. /\ r.State = "IDLE" /\ r.fls = s.fls /\ r.table = s.table /\ r.NewBlockDataAddress = s.NewBlockDataAddress
      /\ r.NewBlockAdminAddress = s.NewBlockAdminAddress
  BY <1>1 DEF Alike, Fields
<1>4. FeeOK(GarbageCollectDone(r, {})) /\ FeeOK(r)
  BY <1>1, <1>3, GarbageCollectDoneOK, CalmOK DEF Calm
<1>5. ASSUME c \in Block, s.table[c] = INVALIDATED_BLOCK PROVE FeeOK(GarbageCollectStartJob(r))
  <2>1. Len(BlockSize) + 1 \notin Block
    BY FeeConfig DEF Block
  <2>2. Remaining(s) >= 0
    BY <1>1, <1>5, <2>1, InGcBankFacts
  <2>3. CopyRoom(r)
    BY <1>3, <1>5, <2>2 DEF CopyRoom, Room, Remaining, Core, NewBlockIn, BLOCK_CORRUPT, INVALIDATED_BLOCK
  <2>. QED BY <1>1, <2>3, GarbageCollectStartJobOK
<1>. HIDE DEF c
<1>. QED BY <1>2, <1>4, <1>5

\* The idle state keeps the invariant, whichever job it starts.
LEMMA IdleOK ==
  ASSUME NEW s, FeeOK(s), s.State = "IDLE", s.fls.res # "PENDING"
  PROVE  FeeOK(Idle(s))
<1>. DEFINE e == [s EXCEPT !.State = "ERASE_BANK"]
<1>1. Core(s)
  BY DEF FeeOK
<1>2. FeeOK(e)
  <2>1. Alike(s, e, {"State", "FailCounter"}) /\ e.State \in Calm
    BY <1>1 DEF Alike, Fields, Core, Shape, Calm
  <2>. QED BY <1>1, <2>1, ToIdleOK, Zenon
<1>3. /\ FeeOK(Reading(s)) /\ FeeOK(IdleForcedGarbageCollect(s)) /\ FeeOK(IdleGarbageCollect(s))
      /\ "WRITE" \in s.pending => FeeOK(IdleWrite(s))
  BY <1>1, ReadingOK, IdleWriteOK, IdleForcedGarbageCollectOK, IdleGarbageCollectOK
<1>. HIDE DEF e
<1>. QED BY <1>2, <1>3 DEF Idle, e
=============================================================================
