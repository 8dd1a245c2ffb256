------------------------------- MODULE MCFee -------------------------------
(***************************************************************************)
(* Instances of the flash EEPROM emulation for TLC.                        *)
(***************************************************************************)
EXTENDS FeeFlash

CONSTANTS v1, v2

Sizes == <<1, 3>>

\* A new flash, and one in use: formatted as the bank counter wraps around, both blocks written in
\* the older bank, the larger one twice, and the smaller one written again in the newer bank
Blank == [i \in Address |-> Erased]
Placed(f, bank, slot, addr, b, v) ==
  LET admin == FirstAdmin(bank) - ADMIN_SIZE * slot
  IN [i \in Address |-> CASE i = admin -> AdminData(addr, Sizes[b])
                         [] i = admin + 1 -> AdminId(b)
                         [] i \in addr..(addr + Sizes[b] - 1) -> Data(b, v, i - addr + 1)
                         [] OTHER -> f[i]]
Banks == [Blank EXCEPT ![End(0) - 1] = BankHeader(254), ![End(1) - 1] = BankHeader(1)]
Older == Placed(Placed(Placed(Banks, 0, 0, 0, 1, v1), 0, 1, 1, 2, v2), 0, 2, 4, 2, v1)
Used == Placed(Older, 1, 0, Start(1), 1, v2)
Factory == {Blank, Used}

Filled == {Used}

\* A flash job that fails does not write its page completely.  A failed erase is left out (a write
\* that is pending then goes to a bank without header), and so are the failed reads of a block's
\* data: the block is answered, or given up, as inconsistent.
Faulty ==
  {"STARTUP_READ_BANK_HEADER_WAIT", "STARTUP_READ_BLOCK_ADMIN_WAIT", "WRITE_ADMIN_DATA_WAIT",
   "WRITE_DATA_WAIT", "WRITE_ADMIN_ID_WAIT", "WRITE_BANK_HEADER_WAIT",
   "GARBAGE_COLLECT_WRITE_ADMIN_DATA_WAIT", "GARBAGE_COLLECT_WRITE_DATA_WAIT",
   "GARBAGE_COLLECT_WRITE_ADMIN_ID_WAIT"}
=============================================================================
