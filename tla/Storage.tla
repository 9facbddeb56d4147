------------------------------ MODULE Storage ------------------------------
(***************************************************************************)
(* Blocks on the SD card: the driver (driver/SDCardDriver.cc), the storage *)
(* device with its partitions (dev/StorageDevice.cc) and the partition     *)
(* (dev/DiskPartition.cc) through which FAT32 reads and writes.            *)
(*                                                                         *)
(* The card and its host controller are hardware.  A command of the set-up *)
(* is carried out, or it is lost, or carried out after wait_sd() has given *)
(* up.  A round of a transfer succeeds, or fails with an error bit set, or *)
(* wait_fifo() gives up and no bit is set.                                 *)
(***************************************************************************)
EXTENDS Integers, Sequences

CONSTANTS
  NrBlocks,        \* blocks of the card; block 0 holds the MBR
  BlockValues,     \* contents of a block
  Table            \* the MBR's entries [start, nr]; start 0: no partition

VARIABLES
  card,            \* [mode, app, high_capacity, block_length, blocks]
  driver,          \* [pc, is_high_capacity, resp0]
  op,              \* the transfer that is under way
  want,            \* want[b]: what block b should hold
  answered         \* the last read: [expected, got]

storage_vars == <<card, driver, op, want, answered>>

BLOCK_SIZE == 512
BlockIds == 0..(NrBlocks - 1)
MBR == "mbr"
Garbage == "garbage"
Unknown == "unknown"               \* what a block should hold after a write that timed out
NoOp == [kind |-> "none", arg |-> 0, block |-> 0, val |-> MBR]
NoRead == [expected |-> MBR, got |-> MBR]
FirstValue == CHOOSE v \in BlockValues : TRUE

\* StorageDevice(): the partitions, from the second entry of the table on.
Entries == SelectSeq(Tail(Table), LAMBDA e : e.start # 0)

partitions ==
  [p \in DOMAIN Entries |-> [start |-> Entries[p].start, end |-> Entries[p].nr + Entries[p].start - 1]]

StorageInit ==
  /\ \E hc \in BOOLEAN, len \in {BLOCK_SIZE, 2 * BLOCK_SIZE} :
       /\ hc => len = BLOCK_SIZE
       /\ card = [mode |-> "idle", app |-> FALSE, high_capacity |-> hc, block_length |-> len,
                  blocks |-> [b \in BlockIds |-> IF b = 0 THEN MBR ELSE FirstValue]]
  /\ driver = [pc |-> "GO_IDLE_STATE", is_high_capacity |-> FALSE, resp0 |-> "none"]
  /\ op = NoOp
  /\ want = card.blocks
  /\ answered = NoRead

-----------------------------------------------------------------------------
(* The card's answer to a command: its new mode and its response.          *)

SetupCommands == {"GO_IDLE_STATE", "SEND_IF_COND", "APP_CMD", "SD_APP_OP_COND", "ALL_SEND_CID",
                  "SEND_RELATIVE_ADDR", "SELECT_CARD", "SET_BLOCKLEN"}

Ready == IF card.high_capacity THEN "ready_hc" ELSE "ready_sc"

Commands(cmd) ==
  CASE cmd = "GO_IDLE_STATE" -> {<<[card EXCEPT !.mode = "idle"], "none">>}
    [] cmd = "SEND_IF_COND" -> {<<card, "pattern">>}
    [] cmd = "APP_CMD" -> {<<[card EXCEPT !.app = TRUE], "status">>}
    [] cmd = "SD_APP_OP_COND" /\ card.app /\ card.mode = "idle" ->
         {<<[card EXCEPT !.app = FALSE, !.mode = "ready"], Ready>>,
          <<[card EXCEPT !.app = FALSE], "busy">>}
    [] cmd = "ALL_SEND_CID" /\ card.mode = "ready" -> {<<[card EXCEPT !.mode = "ident"], "cid">>}
    [] cmd = "SEND_RELATIVE_ADDR" /\ card.mode = "ident" ->
         {<<[card EXCEPT !.mode = "stby"], "rca">>}
    [] cmd = "SELECT_CARD" /\ card.mode = "stby" /\ driver.resp0 = "rca" ->
         {<<[card EXCEPT !.mode = "tran"], "status">>}
    [] cmd = "SET_BLOCKLEN" /\ card.mode = "tran" ->
         {<<[card EXCEPT !.block_length = BLOCK_SIZE], "status">>}
    [] OTHER -> {<<card, driver.resp0>>}

GoTo(pc, resp0) == [driver EXCEPT !.pc = pc, !.resp0 = resp0]

\* SEND_IF_COND: setup fails without the pattern, which the constructor ignores.
after_if_cond(ret, resp0) == GoTo(IF resp0 = "pattern" THEN "APP_CMD" ELSE "read_mbr", resp0)

after_app_cmd(ret, resp0) == GoTo(IF ret = -1 THEN "APP_CMD" ELSE "SD_APP_OP_COND", resp0)

after_op_cond(ret, resp0) ==
  IF resp0 \in {"ready_sc", "ready_hc"}
  THEN [GoTo("ALL_SEND_CID", resp0) EXCEPT !.is_high_capacity = (resp0 = "ready_hc")]
  ELSE GoTo("APP_CMD", resp0)

\* sdcard_setup() ignores the results of the other commands.
after(cmd, ret, resp0) ==
  CASE cmd = "GO_IDLE_STATE" -> GoTo("SEND_IF_COND", resp0)
    [] cmd = "SEND_IF_COND" -> after_if_cond(ret, resp0)
    [] cmd = "APP_CMD" -> after_app_cmd(ret, resp0)
    [] cmd = "SD_APP_OP_COND" -> after_op_cond(ret, resp0)
    [] cmd = "ALL_SEND_CID" -> GoTo("SEND_RELATIVE_ADDR", resp0)
    [] cmd = "SEND_RELATIVE_ADDR" -> GoTo("SELECT_CARD", resp0)
    [] cmd = "SELECT_CARD" -> GoTo("SET_BLOCKLEN", resp0)
    [] cmd = "SET_BLOCKLEN" -> GoTo("read_mbr", resp0)

\* sd_cmd(): -1 when wait_sd() gives up on the command.  RESP0 then has its last
\* value; whether the card has seen the command is open.
sd_cmd(cmd) ==
  /\ \/ \E r \in Commands(cmd) :
          card' = r[1] /\ driver' \in {after(cmd, 0, r[2]), after(cmd, -1, driver.resp0)}
     \/ card' = card /\ driver' = after(cmd, -1, driver.resp0)
  /\ UNCHANGED <<op, want, answered>>

sdcard_setup == driver.pc \in SetupCommands /\ sd_cmd(driver.pc)

-----------------------------------------------------------------------------
(* Transfers.                                                              *)

\* What read_block() and write_block() send: standard cards count bytes.
\* Those have at most 2^22 blocks, so that the shift fits an int.
address_in_blocks(block_index) == block_index

address(block_index) ==
  IF driver.is_high_capacity THEN block_index ELSE block_index * BLOCK_SIZE

\* Where the card finds it.
Located(arg) == IF card.high_capacity THEN arg ELSE arg \div BLOCK_SIZE

\* Whether the table gives a partition that block.
Inside(p, index) == index < Entries[p].nr

Free == driver.pc = "usable" /\ op = NoOp

\* StorageDevice() reads the MBR before it has partitions.
StorageDevice ==
  /\ driver.pc = "read_mbr"
  /\ driver' = [driver EXCEPT !.pc = "mbr"]
  /\ op' = [kind |-> "read", arg |-> address(0), block |-> 0, val |-> Garbage]
  /\ UNCHANGED <<card, want, answered>>

\* DiskPartition::read_block(): out of bounds, the buffer stays as it was.
read_block(p, index) ==
  /\ Free
  /\ IF partitions[p].start + index > partitions[p].end
     THEN answered' = [expected |-> IF Inside(p, index) THEN want[Entries[p].start + index] ELSE Garbage,
                       got |-> Garbage]
          /\ UNCHANGED op
     ELSE op' = [kind |-> "read", arg |-> address(partitions[p].start + index),
                 block |-> Entries[p].start + index, val |-> Garbage]
          /\ answered' = NoRead
  /\ UNCHANGED <<card, driver, want>>

write_block(p, index, v) ==
  /\ Free
  /\ want' = IF Inside(p, index) THEN [want EXCEPT ![Entries[p].start + index] = v] ELSE want
  /\ op' = IF partitions[p].start + index > partitions[p].end THEN op
           ELSE [kind |-> "write", arg |-> address(partitions[p].start + index),
                 block |-> Entries[p].start + index, val |-> v]
  /\ answered' = NoRead
  /\ UNCHANGED <<card, driver>>

\* The card is selected, has the block, and counts 512 bytes as the controller does;
\* any other card refuses the command.
Transfers == card.mode = "tran" /\ card.block_length = BLOCK_SIZE /\ Located(op.arg) \in BlockIds

Stored(v) == [card EXCEPT !.blocks[Located(op.arg)] = v]

\* How a round of write_block() that does not succeed can leave the card.
Torn == IF Transfers THEN {Stored(v) : v \in {card.blocks[Located(op.arg)], op.val, Garbage}}
        ELSE {card}

\* The error mask is set: the transfer is stopped and the loop goes round again.
again == UNCHANGED op

\* The last alternative is a time-out that sets no error bit: the loop ends as after
\* a success, and what the block holds is open.
write_round ==
  /\ op.kind = "write"
  /\ \/ Transfers /\ card' = Stored(op.val) /\ op' = NoOp /\ UNCHANGED want
     \/ card' \in Torn /\ again /\ UNCHANGED want
     \/ card' \in Torn /\ op' = NoOp /\ want' = [want EXCEPT ![op.block] = Unknown]
  /\ UNCHANGED <<driver, answered>>

\* The partitions are those of the table, if the MBR was read.
read_round ==
  /\ op.kind = "read"
  /\ \/ /\ Transfers
        /\ answered' = [expected |-> want[op.block], got |-> card.blocks[Located(op.arg)]]
        /\ driver' = [driver EXCEPT !.pc = "usable"]
        /\ op' = NoOp
     \/ again /\ UNCHANGED <<answered, driver>>
     \/ /\ answered' = [expected |-> Unknown, got |-> Garbage]
        /\ driver' = [driver EXCEPT !.pc = IF @ = "mbr" THEN "no_table" ELSE @]
        /\ op' = NoOp
  /\ UNCHANGED <<card, want>>

\* Nothing is said of partitions that were made up from an MBR that was not read.
no_table == driver.pc = "no_table" /\ UNCHANGED storage_vars

StorageNext ==
  \/ sdcard_setup
  \/ StorageDevice
  \/ \E p \in DOMAIN partitions, index \in 0..(NrBlocks - 1) :
       read_block(p, index) \/ \E v \in BlockValues : write_block(p, index, v)
  \/ write_round
  \/ read_round
  \/ no_table

StorageSpec == StorageInit /\ [][StorageNext]_storage_vars

-----------------------------------------------------------------------------
\* The partitions' entries are numbers.
StorageConstants ==
  /\ NrBlocks \in Nat \ {0}
  /\ \A p \in DOMAIN Entries : Entries[p].start \in Nat /\ Entries[p].nr \in Nat

-----------------------------------------------------------------------------
(* Properties.                                                             *)

\* A card that would transfer has told the driver the unit in which it counts:
\* however sdcard_setup() went on without an answer, it has not selected a card
\* whose SD_APP_OP_COND it missed.
UnitsAgree == card.mode = "tran" => driver.is_high_capacity = card.high_capacity

\* Between transfers every block holds what was last written to it through its
\* partition: no retry, bound or address makes a write hit another block, and
\* the MBR stays.  Only a block whose own write timed out without an error bit,
\* which write_block() does not notice, may hold something else.
BlocksKept ==
  \A b \in BlockIds : card.blocks[b] = want[b] \/ want[b] = Unknown
                       \/ (op.kind = "write" /\ op.block = b)

\* A read returns what was last written to the block, unless wait_fifo() gave up
\* in that read, or in that write, without an error bit.
ReadsLastWrite == answered.expected \in {answered.got, Unknown}

\* The card is a store of blocks, whatever commands of the set-up were lost or late
\* and however often a transfer failed: a card that was not set up properly
\* refuses the transfer, and a time-out that goes unnoticed harms its own block.
BlocksAreStored == UnitsAgree /\ BlocksKept /\ ReadsLastWrite
=============================================================================
