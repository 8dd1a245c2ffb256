----------------------------- MODULE FeeProofs -----------------------------
(***************************************************************************)
(* Proofs about the flash EEPROM emulation: no flash job leaves its bank,  *)
(* and the data of a block never run into the administration, whatever the *)
(* flash held when it was first used, whichever flash jobs fail and        *)
(* whenever power is lost.                                                 *)
(***************************************************************************)
EXTENDS FeeLemmas

(***************************************************************************)
(* Start-up                                                                *)
(***************************************************************************)
StartupFields == {"bank", "min", "stat", "admin", "data"}

\* An update of what start-up works on, the table and the addresses for the next block left alone.
LEMMA StartupCore ==
  ASSUME NEW s, Core(s), NEW t, Alike(s, t, {"State", "pending", "FailCounter", "nextBankCounter", "eraseBank",
                                             "gcBank", "gcBlock", "startup", "status", "result"}),
         t.State \in States, t.eraseBank \in Bank, t.gcBank \in Bank, t.gcBlock \in Nat \ {0},
         StartupFields \subseteq DOMAIN t.startup
  PROVE  Core(t)
BY DEF Alike, Core, Shape, TableIn, NewBlockIn, Fields, StartupFields

\* The end of the startup keeps the invariant.
LEMMA FinishStartupOK ==
  ASSUME NEW s, Core(s), s.fls.res # "PENDING", NEW t, t = FinishStartup(s)
  PROVE  FeeOK(t) /\ Core(t) /\ t.fls = s.fls
<1>1. /\ Alike(s, t, {"FailCounter", "State", "status", "startup"}) /\ t.State = "IDLE" /\ t.startup = NoStartup
  BY Zenon DEF FinishStartup, Alike, Fields, Core, Shape
<1>2. t.fls = s.fls /\ t.eraseBank = s.eraseBank /\ t.gcBank = s.gcBank /\ t.gcBlock = s.gcBlock
  BY <1>1 DEF Alike, Fields
<1>3. StartupFields \subseteq DOMAIN t.startup
  BY <1>1, SMTT(30) DEF NoStartup, StartupFields
<1>4. t.State \in States /\ t.State \in Calm
  BY <1>1 DEF States, OtherStates, Calm
<1>5. Core(t)
  BY <1>1, <1>2, <1>3, <1>4, StartupCore DEF Alike, Core, Shape
<1>. QED BY <1>2, <1>4, <1>5, CalmOK

\* StartupReadBankHeader keeps the invariant.
LEMMA StartupReadBankHeaderOK ==
  ASSUME NEW s, Core(s), s.startup.bank \in Bank
  PROVE  FeeOK(StartupReadBankHeader(s))
<1>. DEFINE a == End(s.startup.bank) - BANK_CTRL_SIZE
            next == "STARTUP_READ_BANK_HEADER_WAIT"
            t == Read(s, a, 1, next)
<1>1. StartupReadBankHeader(s) = t
  BY SMTT(30) DEF StartupReadBankHeader, BANK_CTRL_SIZE
<1>2. a \in Int /\ InOneBank(a, 1)
  BY BankFacts DEF InOneBank, BANK_CTRL_SIZE
<1>. HIDE DEF a
<1>3. next \in States
  BY DEF States, OtherStates
<1>4. Alike(s, t, {"State", "fls"}) /\ t.State = next
  BY <1>3, ReadCore, SMTT(30)
<1>5. t.startup = s.startup
  BY <1>4, SMTT(30) DEF Alike, Fields
<1>6. ScanIn(t) /\ WriteIn(t) /\ CopyIn(t)
  BY <1>4, <1>5, ZenonT(40) DEF ScanIn, WriteIn, CopyIn, ScanStates, WriteStates, GCStates, CopyStates
<1>7. 1 \in Nat \ {0}
  OBVIOUS
<1>8. FeeOK(t)
  BY <1>2, <1>3, <1>6, <1>7, ReadOK
<1>. QED BY <1>1, <1>8

\* StartupRequested keeps the invariant.
LEMMA StartupRequestedOK ==
  ASSUME NEW s, Core(s)
  PROVE  FeeOK(StartupRequested(s))
<1>. DEFINE table == [b \in Block |-> BLOCK_CORRUPT]
            t == [s EXCEPT !.startup.bank = 0, !.table = table, !.pending = {}]
<1>1. StartupRequested(s) = StartupReadBankHeader(t)
  BY DEF StartupRequested
<1>2. table \in [Block -> Int] /\ \A b \in Block : PlaceOK(b, table[b])
  BY DEF PlaceOK, BLOCK_CORRUPT
<1>. HIDE DEF table
<1>3. /\ Alike(s, t, {"startup", "table", "pending"}) /\ t.table = table
      /\ t.startup = [s.startup EXCEPT !.bank = 0]
  BY ZenonT(40) DEF Alike, Fields, Core, Shape
<1>. HIDE DEF t
<1>4. StartupFields \subseteq DOMAIN t.startup /\ t.startup.bank = 0
  BY <1>3 DEF Core, Shape, StartupFields
<1>5. Core(t)
  BY <1>2, <1>3, <1>4 DEF Alike, Fields, Core, Shape, TableIn, NewBlockIn, StartupFields
<1>6. t.startup.bank \in Bank
  BY <1>4 DEF Bank
<1>. QED BY <1>1, <1>5, <1>6, StartupReadBankHeaderOK

\* How far the scan of a bank has come.
ScanHere(s) ==
  /\ s.startup.bank \in Bank /\ s.startup.admin \in Int /\ s.startup.data \in Int
  /\ Start(s.startup.bank) <= s.startup.data /\ s.startup.admin <= FirstAdmin(s.startup.bank)

\* StartupReadBlockAdmin reads within the bank it scans.
LEMMA StartupReadBlockAdminOK ==
  ASSUME NEW s, Core(s), ScanHere(s), s.startup.data <= s.startup.admin
  PROVE  FeeOK(StartupReadBlockAdmin(s))
<1>. DEFINE next == "STARTUP_READ_BLOCK_ADMIN_WAIT"
            t == Read(s, s.startup.admin, ADMIN_SIZE, next)
<1>1. StartupReadBlockAdmin(s) = t
  BY DEF StartupReadBlockAdmin
<1>2. s.startup.admin \in Int /\ InOneBank(s.startup.admin, ADMIN_SIZE)
  <2>. DEFINE k == s.startup.bank
              a == s.startup.admin
              d == s.startup.data
  <2>1. k \in Bank /\ a \in Int /\ d \in Int /\ Start(k) <= d /\ d <= a /\ a <= FirstAdmin(k)
    BY SMTT(30) DEF ScanHere
  <2>. HIDE DEF k, a, d
  <2>2. Start(k) \in Int /\ FirstAdmin(k) \in Int
    BY <2>1, BankFacts
  <2>3. Start(k) <= a /\ a + 2 <= FirstAdmin(k) + 2
    BY <2>1, <2>2
  <2>4. InOneBank(a, 2)
    BY <2>1, <2>3, BetweenInBank
  <2>. QED BY <2>1, <2>4 DEF a, ADMIN_SIZE
<1>3. next \in States /\ next \in ScanStates
  BY DEF States, ScanStates
<1>4. Alike(s, t, {"State", "fls"}) /\ t.State = next
  BY <1>3, ReadCore, SMTT(30)
<1>5. t.startup = s.startup
  BY <1>4, SMTT(30) DEF Alike, Fields
<1>6. ScanIn(t) /\ WriteIn(t) /\ CopyIn(t)
  BY <1>4, <1>5, ZenonT(40) DEF ScanIn, WriteIn, CopyIn, ScanStates, WriteStates, GCStates, CopyStates, ScanHere
<1>7. ADMIN_SIZE \in Nat \ {0}
  BY SMTT(30) DEF ADMIN_SIZE
<1>8. FeeOK(t)
  BY <1>2, <1>3, <1>6, <1>7, ReadOK, ZenonT(40)
<1>. QED BY <1>1, <1>8

\* The scan goes to a bank: all of it is ahead.
LEMMA ScanBankOK ==
  ASSUME NEW s, Core(s), NEW bank \in Bank, s.fls.res # "PENDING", NEW t, t = ScanBank(s, bank)
  PROVE  FeeOK(t) /\ Core(t) /\ ScanHere(t) /\ t.startup.data <= t.startup.admin
<1>. DEFINE u == [s.startup EXCEPT !.bank = bank, !.admin = FirstAdmin(bank), !.data = Start(bank)]
<1>1. Alike(s, t, {"startup", "State"}) /\ t.startup = u /\ t.State = "STARTUP_READ_BLOCK_ADMIN"
  BY ZenonT(40) DEF ScanBank, Alike, Fields, Core, Shape
<1>2. /\ StartupFields \subseteq DOMAIN u /\ u.bank = bank /\ u.admin = FirstAdmin(bank) /\ u.data = Start(bank)
  BY SMTT(30) DEF Core, Shape, StartupFields
<1>. HIDE DEF u
<1>3. t.fls = s.fls /\ t.eraseBank = s.eraseBank /\ t.gcBank = s.gcBank /\ t.gcBlock = s.gcBlock
  BY <1>1 DEF Alike, Fields
<1>4. Core(t)
  BY <1>1, <1>2, <1>3, StartupCore DEF Alike, Core, Shape, States, ScanStates
<1>5. ScanHere(t) /\ t.startup.data <= t.startup.admin
  BY <1>1, <1>2, BankFacts, SMTT(30) DEF ScanHere
<1>6. ScanIn(t) /\ WriteIn(t) /\ CopyIn(t) /\ ReadsIn(t) /\ FlsIn(t)
  BY <1>1, <1>3, <1>5, ZenonT(40)
     DEF ScanIn, WriteIn, CopyIn, ReadsIn, FlsIn, ScanStates, WriteStates, GCStates, CopyStates,
                          ScanHere
<1>. QED BY <1>4, <1>5, <1>6 DEF FeeOK

\* The choice of the banks to scan keeps the invariant.
LEMMA AllHeadersReadOK ==
  ASSUME NEW s, Core(s), s.fls.res # "PENDING"
  PROVE  FeeOK(AllHeadersRead(s))
<1>. DEFINE stat == s.startup.stat
            valid == {i \in Bank : stat[i] # BANK_COUNTER_INVALID}
            min == IF valid = Bank THEN (IF Signed8(stat[1] - stat[0]) < 0 THEN 1 ELSE 0)
                   ELSE IF valid = {} THEN 0 ELSE CHOOSE i \in valid : TRUE
            p == s.pending \cup {"ERASE"}
            r1 == [s EXCEPT !.pending = p]
            counter == NEXT_BANK_COUNTERVAL(stat[1 - min])
            r2 == [s EXCEPT !.eraseBank = min, !.nextBankCounter = counter]
            r == IF valid # Bank THEN r1 ELSE r2
            new == [r EXCEPT !.nextBankCounter = 1, !.eraseBank = 0, !.gcBank = 0, !.writeBank = 0,
                             !.NewBlockAdminAddress = FirstAdmin(0), !.NewBlockDataAddress = Start(0)]
            f == FinishStartup(new)
            e == [f EXCEPT !.State = "ERASE_BANK"]
            g == [r EXCEPT !.startup.min = min, !.gcBank = min]
<1>1. AllHeadersRead(s) = IF valid = {} THEN e ELSE ScanBank(g, min)
  BY Zenon DEF AllHeadersRead
<1>2. min \in Bank
  <2>1. valid \subseteq Bank /\ 0 \in Bank /\ 1 \in Bank
    BY DEF Bank
  <2>. HIDE DEF valid
  <2>. QED BY <2>1
<1>. HIDE DEF valid, min, p, counter
<1>3. Core(r) /\ r.fls = s.fls
  <2>1. Alike(s, r1, {"pending"})
    BY DEF Alike, Fields, Core, Shape
  <2>2. Core(r1) /\ r1.fls = s.fls
    BY <2>1, AlikeCore, SMTT(30) DEF Alike, Fields, Core, Shape
  <2>3. Alike(s, r2, {"eraseBank", "nextBankCounter"}) /\ r2.eraseBank = min
    BY Zenon DEF Alike, Fields, Core, Shape
  <2>. HIDE DEF r1, r2
  <2>4. r2.fls = s.fls /\ r2.State = s.State /\ r2.gcBank = s.gcBank /\ r2.gcBlock = s.gcBlock
    BY <2>3 DEF Alike, Fields
  <2>5. Core(r2)
    BY <1>2, <2>3, <2>4, BanksCore DEF Alike, Core, Shape
  <2>. QED BY <2>2, <2>4, <2>5
<1>. HIDE DEF r
<1>4. FeeOK(e)
  <2>1. /\ Alike(r, new, {"nextBankCounter", "eraseBank", "gcBank", "writeBank", "NewBlockAdminAddress",
                          "NewBlockDataAddress"})
        /\ new.eraseBank = 0 /\ new.gcBank = 0 /\ new.writeBank = 0
        /\ new.NewBlockAdminAddress = FirstAdmin(0) /\ new.NewBlockDataAddress = Start(0)
    BY <1>3, Zenon DEF Alike, Fields, Core, Shape
  <2>. HIDE DEF new
  <2>2. /\ new.State = r.State /\ new.startup = r.startup /\ new.job = r.job /\ new.gcBlock = r.gcBlock
        /\ new.table = r.table /\ new.fls = r.fls /\ DOMAIN new = DOMAIN r
    BY <2>1 DEF Alike, Fields
  <2>3. 0 \in Bank
    BY DEF Bank
  <2>4. Shape(new) /\ TableIn(new)
    BY <1>3, <2>1, <2>2, <2>3 DEF Core, Shape, TableIn
  <2>5. NewBlockIn(new)
    BY <2>1, <2>3, BankFacts DEF NewBlockIn
  <2>6. Core(f) /\ f.fls.res # "PENDING"
    BY <1>3, <2>2, <2>4, <2>5, FinishStartupOK, SMTT(30) DEF Core
  <2>. HIDE DEF f
  <2>7. Alike(f, e, {"State", "FailCounter"}) /\ e.State \in Calm
    BY <2>6 DEF Alike, Fields, Core, Shape, Calm
  <2>. QED BY <2>6, <2>7, ToIdleOK, Zenon
<1>5. FeeOK(ScanBank(g, min))
  <2>1. Alike(r, g, {"startup", "gcBank"}) /\ g.gcBank = min /\ g.startup = [r.startup EXCEPT !.min = min]
    BY <1>3, Zenon DEF Alike, Fields, Core, Shape
  <2>. HIDE DEF g
  <2>2. StartupFields \subseteq DOMAIN g.startup
    BY <1>3, <2>1 DEF Core, Shape, StartupFields
  <2>3. g.fls = r.fls /\ g.eraseBank = r.eraseBank /\ g.gcBlock = r.gcBlock /\ g.State = r.State
    BY <2>1 DEF Alike, Fields
  <2>4. Core(g)
    BY <1>2, <1>3, <2>1, <2>2, <2>3, StartupCore DEF Alike, Core, Shape
  <2>. QED BY <1>2, <1>3, <2>3, <2>4, ScanBankOK
<1>. HIDE DEF e, g
<1>. QED BY <1>1, <1>4, <1>5

\* StartupReadBankHeaderWait keeps the invariant.
LEMMA StartupReadBankHeaderWaitOK ==
  ASSUME NEW s, Core(s), s.fls.res # "PENDING"
  PROVE  FeeOK(StartupReadBankHeaderWait(s))
<1>. DEFINE page == s.buffer[1]
            ok == s.fls.res = "OK" /\ page.kind = "bank" /\ page.a \notin {BANK_COUNTER_INVALID, 255}
            c == IF ok THEN page.a ELSE BANK_COUNTER_INVALID
            r == [s EXCEPT !.startup.stat[s.startup.bank] = c, !.startup.bank = @ + 1]
<1>1. StartupReadBankHeaderWait(s) = IF s.fls.res = "FAILED" THEN AbortStartup(s)
                                     ELSE IF r.startup.bank \in Bank THEN StartupReadBankHeader(r)
                                     ELSE AllHeadersRead(r)
  BY Zenon DEF StartupReadBankHeaderWait
<1>. HIDE DEF c
<1>2. Alike(s, r, {"startup"}) /\ StartupFields \subseteq DOMAIN r.startup
  BY ZenonT(40) DEF Alike, Fields, Core, Shape, StartupFields
<1>. HIDE DEF r
<1>3. r.fls = s.fls /\ r.eraseBank = s.eraseBank /\ r.gcBank = s.gcBank /\ r.gcBlock = s.gcBlock /\ r.State = s.State
  BY <1>2 DEF Alike, Fields
<1>4. Core(r)
  BY <1>2, <1>3, StartupCore DEF Alike, Core, Shape
<1>. QED BY <1>1, <1>3, <1>4, AbortStartupOK, StartupReadBankHeaderOK, AllHeadersReadOK

\* The first free administration block of the bank that is written.
LEMMA WriteHereCore ==
  ASSUME NEW s, Core(s), ScanHere(s), NEW t, t = WriteHere(s)
  PROVE  Core(t) /\ Alike(s, t, {"writeBank", "NewBlockAdminAddress", "NewBlockDataAddress"})
<1>1. /\ Alike(s, t, {"writeBank", "NewBlockAdminAddress", "NewBlockDataAddress"})
      /\ t.writeBank = s.startup.bank /\ t.NewBlockAdminAddress = s.startup.admin
      /\ t.NewBlockDataAddress = s.startup.data
  BY Zenon DEF WriteHere, Alike, Fields, Core, Shape
<1>2. NewBlockIn(t)
  BY <1>1 DEF NewBlockIn, ScanHere
<1>3. Shape(t) /\ TableIn(t)
  BY <1>1 DEF Alike, Fields, Core, Shape, TableIn
<1>. QED BY <1>1, <1>2, <1>3, SMTT(30) DEF Core

\* What is set once the scan has come to an end.
LEMMA HeadCore ==
  ASSUME NEW s, Core(s), s.fls.res # "PENDING", NEW next \in Bank, NEW counter, NEW p
  PROVE  /\ FeeOK(FinishStartup([s EXCEPT !.nextBankCounter = counter, !.eraseBank = next]))
         /\ FeeOK(FinishStartup([s EXCEPT !.pending = p]))
         /\ FeeOK(FinishStartup(s))
<1>. DEFINE t == [s EXCEPT !.nextBankCounter = counter, !.eraseBank = next]
            u == [s EXCEPT !.pending = p]
<1>1. Alike(s, t, {"nextBankCounter", "eraseBank"}) /\ t.eraseBank = next
  BY ZenonT(40) DEF Alike, Fields, Core, Shape
<1>2. Alike(s, u, {"pending"})
  BY SMTT(30) DEF Alike, Fields, Core, Shape
<1>. HIDE DEF t, u
<1>3. t.fls = s.fls /\ t.State = s.State /\ t.gcBank = s.gcBank /\ t.gcBlock = s.gcBlock
  BY <1>1 DEF Alike, Fields
<1>4. Core(t)
  BY <1>1, <1>3, BanksCore DEF Alike, Core, Shape
<1>5. Core(u) /\ u.fls = s.fls
  BY <1>2, AlikeCore DEF Alike, Fields, Core, Shape
<1>6. FeeOK(FinishStartup(t)) /\ FeeOK(FinishStartup(u)) /\ FeeOK(FinishStartup(s))
  BY <1>3, <1>4, <1>5, FinishStartupOK
<1>. QED BY <1>6 DEF t, u

\* The step to the next administration page keeps the invariant.
LEMMA HandleHeadAdminBlockOK ==
  ASSUME NEW s, Core(s), ScanHere(s), s.fls.res # "PENDING"
  PROVE  FeeOK(HandleHeadAdminBlock(s))
<1>. DEFINE bank == s.startup.bank
            next == NEXT_BANK_IDX(bank)
            w == WriteHere(s)
            more == bank # s.startup.min
            g1 == [w EXCEPT !.pending = @ \cup {"GC"}, !.gcBlock = 1]
            g == IF more THEN g1 ELSE w
            full == Remaining(g) \in 0..(TotalFeeSize - 1)
            e == IF bank = s.startup.min THEN w ELSE s
            p == IF full THEN g.pending \cup {"FORCED_GC"} ELSE g.pending
            counter == NEXT_BANK_COUNTERVAL(s.startup.stat[bank])
            h == HandleHeadAdminBlock(s)
<1>1. \/ h = FinishStartup([g EXCEPT !.pending = p])
      \/ h = FinishStartup([g EXCEPT !.nextBankCounter = counter, !.eraseBank = next])
      \/ h = StartupReadBlockAdmin(ScanBank(g, next))
      \/ h = FinishStartup([e EXCEPT !.nextBankCounter = counter, !.eraseBank = next])
      \/ h = FinishStartup(e)
  <2>1. h = IF s.startup.admin # FirstAdmin(bank)
              THEN IF next = s.startup.min THEN FinishStartup([g EXCEPT !.pending = p])
                   ELSE IF s.startup.stat[next] = BANK_COUNTER_INVALID
                     THEN FinishStartup([g EXCEPT !.nextBankCounter = counter, !.eraseBank = next])
                     ELSE StartupReadBlockAdmin(ScanBank(g, next))
              ELSE FinishStartup(IF "ERASE" \in e.pending
                                   THEN [e EXCEPT !.nextBankCounter = counter, !.eraseBank = next] ELSE e)
    BY DEF HandleHeadAdminBlock
  <2>. HIDE DEF h, g, p, counter, next, e, bank
  <2>. QED BY <2>1, Zenon
<1>2. next \in Bank
  BY BankFacts DEF ScanHere
<1>. HIDE DEF h, p, counter, next
<1>3. Core(w) /\ w.fls = s.fls
  BY WriteHereCore DEF Alike, Fields
<1>4. Core(g) /\ g.fls = s.fls
  <2>. HIDE DEF w
  <2>1. Alike(w, g1, {"pending", "gcBlock"}) /\ g1.gcBlock = 1
    BY <1>3, Zenon DEF Alike, Fields, Core, Shape
  <2>. HIDE DEF g1
  <2>2. g1.fls = w.fls /\ g1.State = w.State /\ g1.gcBank = w.gcBank /\ g1.eraseBank = w.eraseBank
    BY <2>1 DEF Alike, Fields
  <2>3. g1.State \in States /\ g1.eraseBank \in Bank /\ g1.gcBank \in Bank /\ g1.gcBlock \in Nat \ {0}
    BY <1>3, <2>1, <2>2 DEF Core, Shape
  <2>4. Alike(w, g1, {"State", "pending", "FailCounter", "nextBankCounter", "eraseBank", "gcBank", "gcBlock"})
    BY <2>1, Zenon DEF Alike
  <2>5. Core(g1)
    BY <1>3, <2>3, <2>4, BanksCore
  <2>. QED BY <1>3, <2>2, <2>5
<1>5. Core(e) /\ e.fls = s.fls
  BY <1>3
<1>. HIDE DEF g, e
<1>6. FeeOK(StartupReadBlockAdmin(ScanBank(g, next)))
  BY <1>2, <1>4, ScanBankOK, StartupReadBlockAdminOK
<1>7. /\ FeeOK(FinishStartup([g EXCEPT !.pending = p]))
      /\ FeeOK(FinishStartup([g EXCEPT !.nextBankCounter = counter, !.eraseBank = next]))
      /\ FeeOK(FinishStartup([e EXCEPT !.nextBankCounter = counter, !.eraseBank = next]))
      /\ FeeOK(FinishStartup(e))
  BY <1>2, <1>4, <1>5, HeadCore, ZenonT(40)
<1>8. FeeOK(h)
  BY <1>1, <1>6, <1>7, Zenon
<1>. QED BY <1>8, SMTT(30) DEF h

\* StartupReadBlockAdminWait keeps the invariant.
LEMMA StartupReadBlockAdminWaitOK ==
  ASSUME NEW s, FeeOK(s), s.State = "STARTUP_READ_BLOCK_ADMIN_WAIT", s.fls.res # "PENDING"
  PROVE  FeeOK(StartupReadBlockAdminWait(s))
<1>. DEFINE data == s.buffer[1]
            id == s.buffer[2]
            inBank == /\ s.startup.data <= data.a /\ data.a < s.startup.admin
                      /\ data.a + data.b <= s.startup.admin
            dataOk == data.kind = "admin" /\ (data.a = INVALIDATED_BLOCK \/ inBank)
            idOk == s.fls.res = "OK" /\ id.kind = "id" /\ SizeOf(id.a) = data.b
            u == [s EXCEPT !.table[id.a] = data.a]
            t == IF dataOk /\ idOk THEN u ELSE s
            r == [t EXCEPT !.startup.data = IF dataOk /\ data.a # INVALIDATED_BLOCK THEN data.a + data.b ELSE @,
                           !.startup.admin = @ - ADMIN_SIZE]
            blank == s.fls.res = "OK" /\ data = Erased /\ id = Erased
<1>1. StartupReadBlockAdminWait(s) = IF s.fls.res = "FAILED" THEN AbortStartup(s)
                                     ELSE IF blank THEN HandleHeadAdminBlock(s)
                                     ELSE IF r.startup.admin >= r.startup.data THEN StartupReadBlockAdmin(r)
                                     ELSE HandleHeadAdminBlock(r)
  BY Zenon DEF StartupReadBlockAdminWait
<1>2. Core(s) /\ ScanHere(s) /\ s.startup.data <= s.startup.admin
  BY SMTT(30) DEF FeeOK, ScanIn, ScanStates, ScanHere
<1>3. data.kind = "admin" => data.a \in Int /\ data.b \in Nat
  <2>1. s.buffer \in Seq(Range(s.buffer)) /\ PagesOK(s.buffer) /\ Len(s.buffer) = 2
    BY DEF FeeOK, ReadsIn, ADMIN_SIZE
  <2>2. 1 \in DOMAIN s.buffer
    BY <2>1
  <2>. QED BY <2>1, <2>2 DEF PagesOK, PageOK
<1>. HIDE DEF data, id
<1>4. ASSUME dataOk, idOk PROVE Core(u) /\ u.fls = s.fls /\ u.startup = s.startup
  <2>1. CASE id.a \in Block
    <3>. DEFINE b == id.a
                a == data.a
    <3>1. BlockSize[b] = data.b /\ a \in Int /\ data.b \in Nat
      BY <1>3, <1>4, <2>1, BlockFacts
    <3>2. PlaceOK(b, a)
      <4>1. CASE a = INVALIDATED_BLOCK
        BY <4>1 DEF PlaceOK, INVALIDATED_BLOCK
      <4>2. CASE a # INVALIDATED_BLOCK
        <5>1. inBank
          BY <1>4, <4>2
        <5>2. InOneBank(a, data.b)
          BY <1>2, <3>1, <5>1, BankFacts DEF ScanHere, InOneBank
        <5>. QED BY <3>1, <5>2 DEF PlaceOK
      <4>. QED BY <4>1, <4>2
    <3>3. Core(u) /\ Alike(s, u, {"table"})
      <4>. HIDE DEF a, b
      <4>1. b \in Block /\ u = [s EXCEPT !.table[b] = a]
        BY <2>1 DEF a, b
      <4>. HIDE DEF u
      <4>. QED BY <1>2, <3>2, <4>1, TableCore, ZenonT(40)
    <3>. QED BY <3>3 DEF Alike, Fields
  <2>2. CASE id.a \notin Block
    <3>1. /\ Alike(s, u, {"table"}) /\ u.table = [s.table EXCEPT ![id.a] = data.a]
      BY <1>2 DEF Alike, Fields, Core, Shape
    <3>2. u.table = s.table
      BY <1>2, <2>2, <3>1 DEF Core, TableIn
    <3>. HIDE DEF u
    <3>3. u.fls = s.fls /\ u.startup = s.startup /\ u.State = s.State
      BY <3>1, SMTT(30) DEF Alike, Fields
    <3>4. Core(u)
      BY <1>2, <3>1, <3>2, <3>3, Zenon DEF Alike, Fields, Core, Shape, TableIn, NewBlockIn
    <3>. QED BY <3>3, <3>4
  <2>. QED BY <2>1, <2>2
<1>5. Core(t) /\ t.fls = s.fls /\ t.startup = s.startup
  <2>. HIDE DEF u, dataOk, idOk
  <2>. QED BY <1>2, <1>4
<1>. HIDE DEF t
<1>6. Core(r) /\ r.fls = s.fls /\ ScanHere(r)
  <2>. DEFINE d == IF dataOk /\ data.a # INVALIDATED_BLOCK THEN data.a + data.b ELSE s.startup.data
  <2>1. /\ Alike(t, r, {"startup"})
        /\ r.startup = [s.startup EXCEPT !.data = d, !.admin = @ - ADMIN_SIZE]
    <3>1. r = [t EXCEPT !.startup.data = d, !.startup.admin = @ - ADMIN_SIZE]
      BY <1>5, SMTT(30)
    <3>. HIDE DEF d, r
    <3>. QED BY <1>5, <3>1, Zenon DEF Alike, Fields, Core, Shape
  <2>2. d \in Int /\ Start(s.startup.bank) <= d
    BY <1>2, <1>3, BankFacts DEF ScanHere
  <2>. HIDE DEF d, r
  <2>3. /\ StartupFields \subseteq DOMAIN r.startup /\ r.startup.bank = s.startup.bank /\ r.startup.data = d
        /\ r.startup.admin = s.startup.admin - ADMIN_SIZE
    BY <1>2, <2>1 DEF Core, Shape, StartupFields
  <2>4. /\ r.fls = t.fls /\ r.State = t.State /\ r.eraseBank = t.eraseBank /\ r.gcBank = t.gcBank
        /\ r.gcBlock = t.gcBlock
    BY <2>1 DEF Alike, Fields
  <2>5. Core(r)
    <3>1. t.State \in States /\ t.eraseBank \in Bank /\ t.gcBank \in Bank /\ t.gcBlock \in Nat \ {0}
      BY <1>5, SMTT(30) DEF Core, Shape
    <3>2. Alike(t, r, {"State", "pending", "FailCounter", "nextBankCounter", "eraseBank", "gcBank", "gcBlock",
                       "startup", "status", "result"})
      BY <2>1 DEF Alike
    <3>. QED BY <1>5, <2>3, <2>4, <3>1, <3>2, StartupCore
  <2>6. ScanHere(r)
    BY <1>2, <2>2, <2>3, BankFacts DEF ScanHere, ADMIN_SIZE
  <2>. QED BY <1>5, <2>4, <2>5, <2>6
<1>. HIDE DEF r, blank
<1>7. FeeOK(AbortStartup(s)) /\ FeeOK(HandleHeadAdminBlock(s)) /\ FeeOK(HandleHeadAdminBlock(r))
  BY <1>2, <1>6, AbortStartupOK, HandleHeadAdminBlockOK, SMTT(30)
<1>8. r.startup.admin >= r.startup.data => FeeOK(StartupReadBlockAdmin(r))
  BY <1>6, StartupReadBlockAdminOK DEF ScanHere
<1>. QED BY <1>1, <1>7, <1>8, SMTT(30)

(***************************************************************************)
(* The main function and the services                                      *)
(***************************************************************************)
LEMMA Fee_MainFunctionOK ==
  ASSUME NEW s, FeeOK(s), s.fls.res # "PENDING"
  PROVE  FeeOK(Fee_MainFunction(s))
<1>1. Core(s) /\ s.State \in States
  BY DEF FeeOK, Core, Shape
<1>2. CASE s.State \in WriteStates
  <2>1. WriteRoom(s) /\ "WRITE" \in s.pending
    BY <1>2 DEF FeeOK, WriteIn, WriteRoom
  <2>. QED BY <1>1, <1>2, <2>1, WriteAdminDataWaitOK, WriteDataWaitOK, WriteAdminIdWaitOK, WriteCheckAdminDataWaitOK
           DEF Fee_MainFunction, WriteStates
<1>3. CASE s.State \in GCStates
  <2>1. CopyRoom(s)
    BY <1>3, SMTT(30) DEF FeeOK, CopyIn, CopyRoom
  <2>. QED BY <1>1, <1>3, <2>1, GarbageCollectWriteAdminDataWaitOK, GarbageCollectReadWaitOK,
              GarbageCollectWriteDataWaitOK, GarbageCollectWriteAdminIdWaitOK,
              GarbageCollectWriteCheckAdminDataWaitOK
           DEF Fee_MainFunction, GCStates, CopyStates
<1>4. CASE s.State = "STARTUP_READ_BLOCK_ADMIN"
  <2>1. ScanHere(s) /\ s.startup.data <= s.startup.admin
    BY <1>4 DEF FeeOK, ScanIn, ScanStates, ScanHere
  <2>. QED BY <1>1, <1>4, <2>1, StartupReadBlockAdminOK, SMTT(30) DEF Fee_MainFunction
<1>5. CASE s.State = "STARTUP_READ_BLOCK_ADMIN_WAIT"
  BY <1>5, StartupReadBlockAdminWaitOK DEF Fee_MainFunction
<1>6. CASE s.State \in OtherStates
  BY <1>1, <1>6, IdleOK, StartupRequestedOK, StartupReadBankHeaderWaitOK, ReadWaitOK, EraseBankOK, EraseBankWaitOK,
     WriteBankHeaderWaitOK DEF Fee_MainFunction, OtherStates
<1>. QED BY <1>1, <1>2, <1>3, <1>4, <1>5, <1>6 DEF States, ScanStates

\* Fee_Init leaves the driver consistent.
LEMMA Fee_InitOK == FeeOK(Fee_Init)
<1>. DEFINE table == [b \in Block |-> 0]
<1>1. /\ Fields \subseteq DOMAIN Fee_Init /\ Fee_Init.State = "STARTUP_REQUESTED" /\ Fee_Init.table = table
      /\ Fee_Init.startup = NoStartup /\ Fee_Init.job = NoJob /\ Fee_Init.gcBlock = 1 /\ Fee_Init.gcBank = 0
      /\ Fee_Init.eraseBank = 0 /\ Fee_Init.writeBank = 0 /\ Fee_Init.NewBlockDataAddress = 0
      /\ Fee_Init.NewBlockAdminAddress = 0 /\ Fee_Init.fls = NoFlsJob
  BY ZenonT(40) DEF Fee_Init, Fields
<1>2. /\ {"bank", "min", "stat", "admin", "data"} \subseteq DOMAIN NoStartup
      /\ {"block", "invalidate", "value"} \subseteq DOMAIN NoJob
      /\ NoJob.block = 1 /\ NoJob.invalidate \in BOOLEAN /\ NoFlsJob.res = "OK"
  BY DEF NoStartup, NoJob, NoFlsJob
<1>3. 1 \in Block /\ 0 \in Bank
  BY FeeConfig DEF Block, Bank
<1>4. Start(0) = 0 /\ FirstAdmin(0) \in Nat /\ End(0) = BankLength
  <2>1. BankLength \in Nat
    BY BankFacts
  <2>2. Start(0) = 0
    BY <2>1 DEF Start
  <2>. QED BY <1>3, <2>2, BankFacts
<1>5. table \in [Block -> Int] /\ \A b \in Block : PlaceOK(b, table[b])
  <2>1. ASSUME NEW b \in Block PROVE InOneBank(0, BlockSize[b])
    BY <1>3, <1>4, BlockFacts, BankFacts, SMTT(30) DEF InOneBank
  <2>. QED BY <2>1 DEF PlaceOK
<1>. HIDE DEF table
<1>6. Shape(Fee_Init)
  BY <1>1, <1>2, <1>3, SMTT(30) DEF Shape, States, OtherStates
<1>7. TableIn(Fee_Init) /\ NewBlockIn(Fee_Init)
  BY <1>1, <1>3, <1>4, <1>5 DEF TableIn, NewBlockIn
<1>. QED BY <1>1, <1>2, <1>6, <1>7, CalmOK, SMTT(30) DEF Core, Calm

\* The user asks for a job only when no write is pending.
LEMMA RequestOK ==
  ASSUME NEW s, FeeOK(s), "WRITE" \notin s.pending, NEW t,
         Alike(s, t, {"status", "result", "pending", "job"}),
         {"block", "invalidate", "value"} \subseteq DOMAIN t.job, t.job.block \in Block, t.job.invalidate \in BOOLEAN
  PROVE  FeeOK(t)
<1>1. /\ t.State = s.State /\ t.startup = s.startup /\ t.table = s.table /\ t.gcBlock = s.gcBlock
      /\ t.gcBank = s.gcBank /\ t.eraseBank = s.eraseBank /\ t.gcOffset = s.gcOffset /\ t.writeBank = s.writeBank
      /\ t.NewBlockDataAddress = s.NewBlockDataAddress /\ t.NewBlockAdminAddress = s.NewBlockAdminAddress
      /\ t.fls = s.fls /\ t.buffer = s.buffer /\ DOMAIN t = DOMAIN s
  BY DEF Alike, Fields
<1>2. s.State \notin WriteStates
  BY SMTT(30) DEF FeeOK, WriteIn
<1>3. Core(t)
  BY <1>1, ZenonT(40) DEF FeeOK, Core, Shape, TableIn, NewBlockIn
<1>4. ScanIn(t) /\ WriteIn(t) /\ FlsIn(t)
  BY <1>1, <1>2, ZenonT(40) DEF FeeOK, ScanIn, WriteIn, FlsIn
<1>5. CopyIn(t)
  BY <1>1, ZenonT(40) DEF FeeOK, CopyIn, Room
<1>6. ReadsIn(t)
  BY <1>1, ZenonT(40) DEF FeeOK, ReadsIn, GarbageCollectSize
<1>. QED BY <1>3, <1>4, <1>5, <1>6, SMTT(30) DEF FeeOK

\* The services keep the invariant.
LEMMA ServicesOK ==
  ASSUME NEW s, FeeOK(s), "WRITE" \notin s.pending, NEW b \in Block, NEW v
  PROVE  FeeOK(Fee_Read(s, b)) /\ FeeOK(Fee_Write(s, b, v)) /\ FeeOK(Fee_InvalidateBlock(s, b))
<1>1. FeeOK(Fee_Read(s, b))
  <2>. DEFINE t == Fee_Read(s, b)
  <2>1. Alike(s, t, {"status", "result", "pending", "job"})
        /\ t.job = [block |-> b, invalidate |-> FALSE, value |-> "none"]
    BY Zenon DEF Fee_Read, Alike, Fields, FeeOK, Core, Shape
  <2>. HIDE DEF t
  <2>2. /\ {"block", "invalidate", "value"} \subseteq DOMAIN t.job
        /\ t.job.block \in Block /\ t.job.invalidate \in BOOLEAN
    BY <2>1
  <2>3. FeeOK(t)
    BY <2>1, <2>2, RequestOK, Zenon
  <2>. QED BY <2>3 DEF t
<1>2. FeeOK(Fee_Write(s, b, v))
  <2>. DEFINE t == Fee_Write(s, b, v)
  <2>1. Alike(s, t, {"status", "result", "pending", "job"})
        /\ t.job = [block |-> b, invalidate |-> FALSE, value |-> v]
    BY Zenon DEF Fee_Write, Alike, Fields, FeeOK, Core, Shape
  <2>. HIDE DEF t
  <2>2. /\ {"block", "invalidate", "value"} \subseteq DOMAIN t.job
        /\ t.job.block \in Block /\ t.job.invalidate \in BOOLEAN
    BY <2>1
  <2>3. FeeOK(t)
    BY <2>1, <2>2, RequestOK, ZenonT(40)
  <2>. QED BY <2>3 DEF t
<1>3. FeeOK(Fee_InvalidateBlock(s, b))
  <2>. DEFINE t == Fee_InvalidateBlock(s, b)
  <2>1. Alike(s, t, {"status", "result", "pending", "job"})
        /\ t.job = [s.job EXCEPT !.block = b, !.invalidate = TRUE]
    BY ZenonT(40) DEF Fee_InvalidateBlock, Alike, Fields, FeeOK, Core, Shape
  <2>. HIDE DEF t
  <2>2. /\ {"block", "invalidate", "value"} \subseteq DOMAIN t.job
        /\ t.job.block \in Block /\ t.job.invalidate \in BOOLEAN
    BY <2>1 DEF FeeOK, Core, Shape
  <2>3. FeeOK(t)
    BY <2>1, <2>2, RequestOK, ZenonT(40)
  <2>. QED BY <2>3 DEF t
<1>. QED BY <1>1, <1>2, <1>3, ZenonT(40)

(***************************************************************************)
(* The flash driver                                                        *)
(***************************************************************************)
\* What a flash job leaves in the flash, completed or cut short.
LEMMA FlashKept ==
  ASSUME FeeOK(fee), FlashOK(flash), fee.fls.res = "PENDING"
  PROVE  FlashOK(Complete(fee.fls)) /\ \A f \in CutShort(fee.fls) : FlashOK(f)
<1>. DEFINE job == fee.fls
<1>1. job.addr \in Int /\ job.n \in Nat \ {0}
  BY DEF FeeOK, FlsIn
<1>2. ASSUME job.op = "write" PROVE DOMAIN job.pages = 1..job.n /\ PagesOK(job.pages)
  BY <1>2 DEF FeeOK, FlsIn
<1>3. ASSUME job.op = "write" PROVE FlashOK(Programmed(job))
  <2>. DEFINE f == Programmed(job)
  <2>1. SUFFICES ASSUME NEW i \in Address PROVE PageOK(f[i])
    BY DEF FlashOK
  <2>2. i \in Int
    BY BankFacts DEF Address
  <2>3. CASE ~In(i, job.addr, job.n)
    BY <2>3 DEF Programmed, FlashOK
  <2>4. CASE In(i, job.addr, job.n)
    <3>1. i - job.addr + 1 \in DOMAIN job.pages
      BY <1>1, <1>2, <1>3, <2>2, <2>4 DEF In
    <3>2. PageOK(job.pages[i - job.addr + 1])
      BY <1>2, <1>3, <3>1 DEF PagesOK
    <3>3. f[i] = IF flash[i] = Erased THEN job.pages[i - job.addr + 1] ELSE Torn
      BY <2>4 DEF Programmed
    <3>. HIDE DEF f
    <3>. QED BY <3>2, <3>3, PageKinds
  <2>. QED BY <2>3, <2>4
<1>4. FlashOK(Wiped(job))
  BY PageKinds DEF FlashOK, Wiped
<1>5. FlashOK(Complete(job))
  BY <1>3, <1>4 DEF Complete
<1>6. ASSUME NEW f \in CutShort(job) PROVE FlashOK(f)
  <2>. DEFINE torn == [i \in Address |-> IF In(i, job.addr, job.n) THEN Torn ELSE flash[i]]
              part(k) == [i \in Address |-> IF In(i, job.addr, k) THEN Erased
                                            ELSE IF In(i, job.addr + k, SectorSize) THEN Torn ELSE flash[i]]
  <2>1. FlashOK(torn)
    BY PageKinds, SMTT(30) DEF FlashOK
  <2>2. ASSUME NEW k PROVE FlashOK(part(k))
    BY PageKinds DEF FlashOK
  <2>3. f = flash \/ f = torn \/ \E k : f = part(k)
    BY <1>6, Zenon DEF CutShort
  <2>. HIDE DEF torn, part
  <2>. QED BY <2>1, <2>2, <2>3, SMTT(30)
<1>. QED BY <1>5, <1>6

\* The driver has ended a job: RWBuffer holds what was read.
LEMMA EndedOK ==
  ASSUME FeeOK(fee), FlashOK(flash), fee.fls.res = "PENDING", NEW res, res # "PENDING"
  PROVE  FeeOK(Ended(fee.fls, res))
<1>. DEFINE job == fee.fls
            read == ReadBack(job)
            buffer == IF job.op = "read" THEN read ELSE <<>>
            fls == [NoFlsJob EXCEPT !.res = res]
            t == [fee EXCEPT !.fls = fls, !.buffer = buffer]
<1>1. Ended(job, res) = t
  BY DEF Ended
<1>2. fls.res = res
  BY DEF NoFlsJob
<1>3. job.addr \in Int /\ job.n \in Nat \ {0} /\ InOneBank(job.addr, job.n)
  BY DEF FeeOK, FlsIn
<1>4. DOMAIN read = 1..job.n /\ Len(read) = job.n /\ read \in Seq(Range(read)) /\ PagesOK(read)
  <2>1. DOMAIN read = 1..job.n
    BY DEF ReadBack
  <2>2. \A i \in 1..job.n : read[i] \in Range(read)
    BY <2>1 DEF Range
  <2>3. read \in [1..job.n -> Range(read)]
    BY <2>2 DEF ReadBack
  <2>4. ASSUME NEW i \in 1..job.n PROVE PageOK(read[i])
    <3>1. job.addr + i - 1 \in Address
      BY <1>3, InBankAddress
    <3>2. read[i] = flash[job.addr + i - 1]
      BY DEF ReadBack
    <3>. QED BY <3>1, <3>2 DEF FlashOK
  <2>. HIDE DEF read
  <2>5. read \in Seq(Range(read)) /\ Len(read) = job.n
    BY <1>3, <2>3
  <2>. QED BY <2>1, <2>4, <2>5 DEF PagesOK
<1>. HIDE DEF read, fls
<1>5. Core(fee)
  BY SMTT(30) DEF FeeOK
<1>6. Alike(fee, t, {"fls", "buffer"}) /\ t.fls = fls /\ t.buffer = buffer
  <2>. HIDE DEF buffer
  <2>. QED BY <1>5, ZenonT(40) DEF Alike, Fields, Core, Shape
<1>. HIDE DEF t
<1>7. /\ t.State = fee.State /\ t.startup = fee.startup /\ t.table = fee.table /\ t.gcBlock = fee.gcBlock
      /\ t.gcBank = fee.gcBank /\ t.eraseBank = fee.eraseBank /\ t.gcOffset = fee.gcOffset
      /\ t.NewBlockDataAddress = fee.NewBlockDataAddress /\ t.NewBlockAdminAddress = fee.NewBlockAdminAddress
      /\ t.pending = fee.pending /\ t.job = fee.job /\ DOMAIN t = DOMAIN fee
  BY <1>6, SMTT(30) DEF Alike, Fields
<1>8. Core(t)
  <2>1. Alike(fee, t, {"State", "pending", "FailCounter", "gcOffset", "status", "result", "nextBankCounter",
                       "buffer", "fls"})
    BY <1>6, Zenon DEF Alike
  <2>2. t.State \in States
    BY <1>5, <1>7 DEF Core, Shape
  <2>. QED BY <1>5, <2>1, <2>2, AlikeCore
<1>9. ScanIn(t) /\ WriteIn(t) /\ FlsIn(t)
  BY <1>2, <1>6, <1>7, ZenonT(40) DEF FeeOK, ScanIn, WriteIn, FlsIn, Room
<1>10. CopyIn(t)
  BY <1>7, ZenonT(40) DEF FeeOK, CopyIn, Room
<1>11. ReadsIn(t)
  <2>1. GarbageCollectSize(t) = GarbageCollectSize(fee)
    BY <1>7, SMTT(30) DEF GarbageCollectSize
  <2>2. ASSUME t.State \in {"STARTUP_READ_BLOCK_ADMIN_WAIT", "GARBAGE_COLLECT_READ_WAIT"}
        PROVE  t.buffer = read
    BY <1>6, <1>7, <2>2, SMTT(30) DEF FeeOK, ReadsIn
  <2>3. /\ fee.State = "STARTUP_READ_BLOCK_ADMIN_WAIT" => job.n = ADMIN_SIZE
        /\ fee.State = "GARBAGE_COLLECT_READ_WAIT" => job.n = GarbageCollectSize(fee)
    BY SMTT(30) DEF FeeOK, ReadsIn
  <2>4. t.fls.res # "PENDING"
    BY <1>2, <1>6
  <2>. QED BY <1>4, <1>7, <2>1, <2>2, <2>3, <2>4 DEF ReadsIn
<1>12. FeeOK(t)
  BY <1>8, <1>9, <1>10, <1>11 DEF FeeOK
<1>. QED BY <1>1, <1>12

(***************************************************************************)
(* The theorem                                                             *)
(***************************************************************************)
FeeInv == FeeOK(fee) /\ FlashOK(flash)

\* The invariant holds after Fee_Init.
LEMMA InitFee == Init => FeeInv
<1>. SUFFICES ASSUME Init PROVE FeeInv
  OBVIOUS
<1>1. FlashOK(flash)
  BY FlashConfig DEF Init, FlashOK, PageOK
<1>. QED BY <1>1, Fee_InitOK DEF Init, FeeInv

\* Every step keeps the invariant while no write job is given up.
LEMMA NextFee ==
  ASSUME FeeInv, NoneGivenUp, [Next]_vars
  PROVE  FeeInv'
<1>1. FeeOK(fee) /\ FlashOK(flash)
  BY SMTT(30) DEF FeeInv
<1>2. CASE UNCHANGED vars
  BY <1>1, <1>2 DEF vars, FeeInv
<1>3. ASSUME NEW b \in Block, UserRead(b) \/ UserWrite(b) \/ UserInvalidate(b) PROVE FeeInv'
  <2>1. Accepts(fee) /\ flash' = flash
    BY <1>3 DEF UserRead, UserWrite, UserInvalidate, Asks
  <2>2. "WRITE" \notin fee.pending
    BY <2>1 DEF Accepts, NoneGivenUp
  <2>3. FeeOK(fee')
    <3>1. CASE UserRead(b)
      BY <1>1, <2>2, <3>1, ServicesOK DEF UserRead, Asks
    <3>2. CASE UserWrite(b)
      BY <1>1, <2>2, <3>2, ServicesOK DEF UserWrite, Asks
    <3>3. CASE UserInvalidate(b)
      BY <1>1, <2>2, <3>3, ServicesOK DEF UserInvalidate, Asks
    <3>. QED BY <1>3, <3>1, <3>2, <3>3
  <2>. QED BY <1>1, <2>1, <2>3 DEF FeeInv
<1>4. CASE MainFunction
  <2>1. fee' = Fee_MainFunction(fee) /\ fee.fls.res # "PENDING" /\ flash' = flash
    BY <1>4 DEF MainFunction, Runs
  <2>2. FeeOK(fee')
    BY <1>1, <2>1, Fee_MainFunctionOK
  <2>. QED BY <1>1, <2>1, <2>2 DEF FeeInv
<1>5. CASE FlsDone
  <2>1. fee.fls.res = "PENDING" /\ fee' = Ended(fee.fls, FlsResult(fee.fls)) /\ flash' = Complete(fee.fls)
    BY <1>5 DEF FlsDone, Ends
  <2>2. FlsResult(fee.fls) # "PENDING"
    BY DEF FlsResult
  <2>3. FeeOK(fee')
    BY <1>1, <2>1, <2>2, EndedOK
  <2>4. FlashOK(flash')
    BY <1>1, <2>1, FlashKept
  <2>. QED BY <2>3, <2>4 DEF FeeInv
<1>6. CASE FlsFails
  <2>1. fee.fls.res = "PENDING" /\ fee' = Ended(fee.fls, "FAILED") /\ flash' \in CutShort(fee.fls)
    BY <1>6 DEF FlsFails
  <2>2. FeeOK(fee')
    BY <1>1, <2>1, EndedOK
  <2>3. FlashOK(flash')
    BY <1>1, <2>1, FlashKept
  <2>. QED BY <2>2, <2>3 DEF FeeInv
<1>7. CASE PowerLoss
  <2>1. /\ fee' = Fee_Init
        /\ flash' \in IF fee.fls.res = "PENDING" THEN CutShort(fee.fls) \cup {Complete(fee.fls)} ELSE {flash}
    BY <1>7 DEF PowerLoss
  <2>2. FlashOK(flash')
    BY <1>1, <2>1, FlashKept
  <2>. QED BY <2>1, <2>2, Fee_InitOK DEF FeeInv
<1>. QED BY <1>2, <1>3, <1>4, <1>5, <1>6, <1>7 DEF Next

\* What the invariant says of the flash job.
LEMMA InBankFollows == FeeInv => FlsInBank
<1>. SUFFICES ASSUME FeeInv, fee.fls.res = "PENDING"
              PROVE  /\ fee.fls.n > 0
                     /\ \E k \in Bank : fee.fls.addr..(fee.fls.addr + fee.fls.n - 1) \subseteq Start(k)..(End(k) - 1)
                     /\ fee.State \in {"WRITE_DATA_WAIT", "GARBAGE_COLLECT_WRITE_DATA_WAIT"} =>
                          /\ fee.NewBlockDataAddress <= fee.fls.addr
                          /\ fee.fls.addr + fee.fls.n <= fee.NewBlockAdminAddress
  BY DEF FlsInBank
<1>1. FlsIn(fee)
  BY DEF FeeInv, FeeOK
<1>2. fee.fls.addr \in Int /\ fee.fls.n \in Nat \ {0}
  BY <1>1 DEF FlsIn
<1>3. PICK k \in Bank : Start(k) <= fee.fls.addr /\ fee.fls.addr + fee.fls.n <= End(k)
  BY <1>1 DEF FlsIn, InOneBank
<1>4. fee.fls.addr..(fee.fls.addr + fee.fls.n - 1) \subseteq Start(k)..(End(k) - 1)
  BY <1>2, <1>3, BankFacts
<1>. QED BY <1>1, <1>2, <1>4 DEF FlsIn

\* As long as no write has been given up after MAX_NOF_FAILED_WRITE_ATTEMPTS, every job Fee.c hands to
\* the flash driver lies in one bank, and the data of a block between NewBlockDataAddress and
\* NewBlockAdminAddress: for every configuration of blocks that fit in a bank, every contents of the
\* flash at first use, whichever flash jobs fail and whenever power is lost.  The driver never has a
\* reason to refuse a job, and data and administration never meet.
THEOREM JobsStayInBank == Init /\ [][Next]_vars /\ []NoneGivenUp => []FlsInBank
<1>1. FeeInv /\ NoneGivenUp /\ [Next]_vars => FeeInv'
  BY NextFee
<1>. QED BY <1>1, InitFee, InBankFollows, PTL
=============================================================================
