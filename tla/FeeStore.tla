------------------------------ MODULE FeeStore ------------------------------
(***************************************************************************)
(* What the flash EEPROM emulation promises its user: a store of blocks.   *)
(* A block holds a value, "invalid" or "none".  One job is accepted at a   *)
(* time; a write or an invalidation takes effect at one instant before it  *)
(* is reported done, a read reports the block as it is, and a loss of      *)
(* power undoes nothing: the job under way took effect or it did not.      *)
(* Nothing is promised of a block given up for lack of room, until it is   *)
(* written again.                                                          *)
(***************************************************************************)
CONSTANTS Block, Value

VARIABLES
  store,                   \* what each block holds
  status,                  \* Fee_GetStatus: "BUSY_INTERNAL" during start-up, "IDLE", "BUSY"
  job,                     \* the job under way, or NoJob
  answer,                  \* the result of the last job, and what it wrote or read
  thrown                   \* the blocks given up

vars == <<store, status, job, answer, thrown>>

NoJob == [op |-> "none", block |-> 0, value |-> "none"]
NoAnswer == [res |-> "PENDING", value |-> "none"]
Held == Value \cup {"none", "invalid"}
Job == [op : {"read"}, block : Block, value : {"none"}]
       \cup [op : {"write"}, block : Block, value : Value \cup {"invalid"}]

Init == store \in [Block -> Held] /\ status = "BUSY_INTERNAL" /\ job = NoJob /\ answer = NoAnswer /\ thrown = {}

Effect == \/ store' = store
          \/ job.op = "write" /\ store' = [store EXCEPT ![job.block] = job.value]

Started == /\ status = "BUSY_INTERNAL" /\ status' = "IDLE"
           /\ answer' = [res |-> "OK", value |-> "none"] /\ UNCHANGED <<store, job, thrown>>

Request == /\ status = "IDLE" /\ status' = "BUSY" /\ job' \in Job /\ answer' = NoAnswer
           /\ UNCHANGED <<store, thrown>>

Commit == status = "BUSY" /\ Effect /\ UNCHANGED <<status, job, answer, thrown>>

Throw == /\ status # "BUSY_INTERNAL" /\ UNCHANGED <<store, status, job, answer>>
         /\ \E b \in Block : thrown' = thrown \cup {b}

Lost == \A b \in Block \ thrown : store'[b] = store[b]
Lose == Lost /\ UNCHANGED <<status, job, answer, thrown>>

ReadAnswer(v) == CASE v = "none" -> [res |-> "BLOCK_INCONSISTENT", value |-> "none"]
                   [] v = "invalid" -> [res |-> "BLOCK_INVALID", value |-> "none"]
                   [] OTHER -> [res |-> "OK", value |-> v]

Finish == /\ status = "BUSY" /\ status' = "IDLE" /\ job' = NoJob /\ UNCHANGED store
          /\ \/ /\ job.op = "read" /\ UNCHANGED thrown
                /\ job.block \notin thrown => answer' = ReadAnswer(store[job.block])
             \/ /\ job.op = "write" /\ store[job.block] = job.value /\ thrown' = thrown \ {job.block}
                /\ answer' = [res |-> "OK", value |-> job.value]

PowerLoss == /\ Effect \/ Lost
             /\ status' = "BUSY_INTERNAL" /\ job' = NoJob /\ answer' = NoAnswer
             /\ UNCHANGED thrown

Next == Started \/ Request \/ Commit \/ Throw \/ Lose \/ Finish \/ PowerLoss

Spec == Init /\ [][Next]_vars
=============================================================================
