-------------------------- MODULE Components_proofs --------------------------
(***************************************************************************)
(* Three parts of the kernel that have no state in common: the tasklets,   *)
(* the SD card and UniquePtr.                                              *)
(***************************************************************************)
EXTENDS Tasklets, Storage, UniquePtr, FiniteSetTheorems, SequenceTheorems, TLAPS

-----------------------------------------------------------------------------
(* Tasklets run once and in order, for every capacity of the ring buffer.  *)

\* The buffer's array, ends and size.
Queues ==
  [data : [0..(Capacity - 1) -> Nat], head : 0..(Capacity - 1),
   tail : 0..(Capacity - 1), size : 0..Capacity]

\* The queue, the number of tasklets and the log.
TaskletTypeOK == queue \in Queues /\ added \in Nat /\ handled \in Seq(Nat)

\* What finish_all() and add_tasklet() keep.
TaskletInv == TaskletTypeOK /\ RingIsArray /\ RunOnceInOrder

\* The remainder in push() and full() wraps only at the capacity.
LEMMA Remainder ==
  ASSUME NEW c \in Nat \ {0}, NEW x \in 0..c
  PROVE  x % c = IF x = c THEN 0 ELSE x
  OBVIOUS

\* finish_all() leaves an empty queue.
LEMMA Cleared ==
  ASSUME TaskletInv
  PROVE  LET q == clear(reset_handled(queue))
         IN q \in Queues /\ q.head = 0 /\ q.tail = 0 /\ q.size = 0
<1>1. Capacity \in Nat \ {0, 1} /\ queue.data \in [0..(Capacity - 1) -> Nat] /\ queue.size \in Nat
  BY CapacityAssumption DEF TaskletInv, TaskletTypeOK, Queues
<1>2. [i \in 0..(Capacity - 1) |-> IF i < queue.size THEN 0 ELSE queue.data[i]]
        \in [0..(Capacity - 1) -> Nat]
  BY <1>1
<1> QED
  BY <1>1, <1>2 DEF clear, reset_handled, Queues

\* finish_all() runs the tasklets in the buffer, which continue the log.
LEMMA Handled ==
  ASSUME TaskletInv
  PROVE  /\ handled \o handle(queue) \in Seq(Nat)
         /\ Len(handled \o handle(queue)) = added
         /\ \A i \in 1..added : (handled \o handle(queue))[i] = i
<1> DEFINE run == handle(queue)
<1>1. run \in Seq(Nat) /\ Len(run) = queue.size
  <2>1. queue.size \in Nat /\ \A i \in 1..queue.size : queue.data[i - 1] \in Nat
    BY CapacityAssumption DEF TaskletInv, TaskletTypeOK, RingIsArray, Queues
  <2> QED
    BY <2>1 DEF handle
<1>2. \A i \in 1..queue.size : run[i] = Len(handled) + i
  BY CapacityAssumption DEF TaskletInv, TaskletTypeOK, Queues, RingIsArray, RunOnceInOrder, handle
<1>3. handled \in Seq(Nat) /\ Len(handled) + queue.size = added /\ queue.size \in Nat
  BY CapacityAssumption DEF TaskletInv, TaskletTypeOK, Queues, RunOnceInOrder
<1>4. \A i \in 1..Len(handled) : handled[i] = i
  BY DEF TaskletInv, RunOnceInOrder
<1> HIDE DEF run
<1>5. handled \o run \in Seq(Nat) /\ Len(handled \o run) = Len(handled) + Len(run)
      /\ \A i \in 1..(Len(handled) + Len(run)) :
           (handled \o run)[i] = IF i <= Len(handled) THEN handled[i] ELSE run[i - Len(handled)]
  BY <1>1, <1>3, ConcatProperties, Zenon
<1>6. Len(handled) \in Nat /\ Len(handled) + Len(run) = added
  BY <1>1, <1>3
<1>7. ASSUME NEW i \in 1..added PROVE (handled \o run)[i] = i
  <2>1. (handled \o run)[i] = IF i <= Len(handled) THEN handled[i] ELSE run[i - Len(handled)]
    BY <1>5, <1>6
  <2>2. i \in Int /\ queue.size \in Nat /\ i - Len(handled) <= queue.size
    BY <1>1, <1>3, <1>6
  <2> QED
    BY <1>2, <1>4, <1>6, <2>1, <2>2
<1> QED
  BY <1>5, <1>6, <1>7 DEF run

\* finish_all() keeps the invariant.
LEMMA FinishStep ==
  ASSUME TaskletInv, finish_all
  PROVE  TaskletInv'
<1>1. queue' \in Queues /\ queue'.head = 0 /\ queue'.tail = 0 /\ queue'.size = 0
  BY Cleared DEF finish_all
<1>2. handled' \in Seq(Nat) /\ Len(handled') = added /\ added' = added /\ added \in Nat
      /\ \A i \in 1..added : handled'[i] = i
  BY Handled DEF finish_all, TaskletInv, TaskletTypeOK
<1>3. TaskletTypeOK'
  BY <1>1, <1>2 DEF TaskletTypeOK, Queues
<1>4. RingIsArray'
  BY <1>1, CapacityAssumption DEF RingIsArray
<1>5. RunOnceInOrder'
  BY <1>1, <1>2 DEF RunOnceInOrder
<1> QED
  BY <1>3, <1>4, <1>5 DEF TaskletInv

\* A push to a buffer that is not full appends to the array.
LEMMA Pushed ==
  ASSUME NEW q \in Queues, NEW v \in Nat,
         q.head = 0, q.tail = q.size, q.size + 1 < Capacity
  PROVE  /\ push(q, v) \in Queues
         /\ push(q, v).head = 0
         /\ push(q, v).tail = q.size + 1
         /\ push(q, v).size = q.size + 1
         /\ \A i \in 0..(Capacity - 1) :
              push(q, v).data[i] = IF i = q.size THEN v ELSE q.data[i]
<1>1. Capacity \in Nat \ {0, 1} /\ q.size \in Nat /\ q.tail + 1 \in 0..Capacity
      /\ q.data \in [0..(Capacity - 1) -> Nat]
  BY CapacityAssumption DEF Queues
<1>2. (q.tail + 1) % Capacity = q.size + 1
  BY <1>1, Remainder
<1>3. ~full(q)
  BY <1>1, <1>2 DEF full
<1> DEFINE data == [i \in 0..(Capacity - 1) |-> IF i = q.size THEN v ELSE q.data[i]]
<1>4. data \in [0..(Capacity - 1) -> Nat]
  BY <1>1
<1>5. push(q, v) = [data |-> data, head |-> 0, tail |-> q.size + 1, size |-> q.size + 1]
  <2>1. data = [i \in 0..(Capacity - 1) |-> IF i = q.tail THEN v ELSE q.data[i]]
    OBVIOUS
  <2>2. (IF full(q) THEN (q.head + 1) % Capacity ELSE q.head) = 0
    BY <1>3
  <2>3. (IF q.size < Capacity THEN q.size + 1 ELSE q.size) = q.size + 1
    BY <1>1
  <2> HIDE DEF data
  <2> QED
    BY <1>2, <2>1, <2>2, <2>3, Zenon DEF push
<1>6. \A i \in 0..(Capacity - 1) : data[i] = IF i = q.size THEN v ELSE q.data[i]
  OBVIOUS
<1> HIDE DEF data
<1>7. push(q, v) \in Queues
  BY <1>1, <1>4, <1>5 DEF Queues
<1>8. push(q, v).data = data /\ push(q, v).head = 0
      /\ push(q, v).tail = q.size + 1 /\ push(q, v).size = q.size + 1
  BY <1>5
<1> QED
  BY <1>6, <1>7, <1>8

\* add_tasklet() keeps the invariant, whether it first empties the buffer or not.
LEMMA AddStep ==
  ASSUME TaskletInv, add_tasklet
  PROVE  TaskletInv'
<1>1. Capacity \in Nat \ {0, 1} /\ added \in Nat /\ added' = added + 1 /\ added + 1 \in Nat
  BY CapacityAssumption DEF TaskletInv, TaskletTypeOK, add_tasklet
<1>2. CASE full(queue)
  <2> DEFINE q == clear(reset_handled(queue))
  <2>1. q \in Queues /\ q.head = 0 /\ q.tail = 0 /\ q.size = 0
    BY Cleared
  <2>2. handled' \in Seq(Nat) /\ Len(handled') = added /\ \A i \in 1..added : handled'[i] = i
    BY <1>2, Handled, Zenon DEF add_tasklet
  <2>3. queue' = push(q, added + 1)
    BY <1>2 DEF add_tasklet
  <2> HIDE DEF q
  <2>4. q.tail = q.size /\ q.size + 1 < Capacity /\ q.size + 1 = 1
    BY <1>1, <2>1
  <2>5. queue' \in Queues /\ queue'.head = 0 /\ queue'.tail = 1 /\ queue'.size = 1
        /\ queue'.data[0] = added + 1
    BY <1>1, <2>1, <2>3, <2>4, Pushed
  <2>6. TaskletTypeOK'
    BY <1>1, <2>2, <2>5 DEF TaskletTypeOK, Queues
  <2>7. RingIsArray'
    BY <1>1, <2>5 DEF RingIsArray
  <2>8. RunOnceInOrder'
    BY <1>1, <2>2, <2>5 DEF RunOnceInOrder
  <2> QED
    BY <2>6, <2>7, <2>8 DEF TaskletInv
<1>3. CASE ~full(queue)
  <2>1. queue \in Queues /\ queue.head = 0 /\ queue.tail = queue.size /\ queue.size < Capacity
        /\ queue.size \in Nat
    BY <1>1 DEF TaskletInv, TaskletTypeOK, RingIsArray, Queues
  <2>2. queue.size + 1 < Capacity
    BY <1>1, <1>3, <2>1, Remainder DEF full
  <2>3. queue' = push(queue, added + 1) /\ handled' = handled
    BY <1>3 DEF add_tasklet
  <2>4. /\ queue' \in Queues /\ queue'.head = 0
        /\ queue'.tail = queue.size + 1 /\ queue'.size = queue.size + 1
        /\ \A i \in 0..(Capacity - 1) :
             queue'.data[i] = IF i = queue.size THEN added + 1 ELSE queue.data[i]
    BY <1>1, <2>1, <2>2, <2>3, Pushed
  <2>5. TaskletTypeOK'
    BY <1>1, <2>3, <2>4, Zenon DEF TaskletInv, TaskletTypeOK, Queues
  <2>6. RingIsArray'
    BY <2>2, <2>4 DEF RingIsArray
  <2>7. RunOnceInOrder'
    <3>1. handled \in Seq(Nat) /\ Len(handled) \in Nat
      BY DEF TaskletInv, TaskletTypeOK
    <3>2. RunOnceInOrder
      BY DEF TaskletInv
    <3>3. \A i \in 1..Len(handled) : handled'[i] = i
      BY <2>3, <3>2 DEF RunOnceInOrder
    <3>4. Len(handled') + queue'.size = added'
      <4>1. Len(handled) + queue.size = added
        BY <3>2 DEF RunOnceInOrder
      <4>2. Len(handled') = Len(handled)
        BY <2>3
      <4> QED
        BY <1>1, <2>1, <2>4, <3>1, <4>1, <4>2
    <3>5. ASSUME NEW i \in 0..queue.size PROVE queue'.data[i] = Len(handled) + i + 1
      <4>1. i \in 0..(Capacity - 1)
        BY <1>1, <2>1
      <4>2. CASE i = queue.size
        BY <1>1, <2>1, <2>4, <3>1, <3>2, <4>1, <4>2 DEF RunOnceInOrder
      <4>3. CASE i # queue.size
        BY <1>1, <2>1, <2>4, <3>1, <3>2, <4>1, <4>3 DEF RunOnceInOrder
      <4> QED
        BY <4>2, <4>3
    <3> QED
      BY <2>1, <2>3, <2>4, <3>3, <3>4, <3>5 DEF RunOnceInOrder
  <2> QED
    BY <2>5, <2>6, <2>7 DEF TaskletInv
<1> QED
  BY <1>2, <1>3

\* add_tasklet() and finish_all() run every tasklet once and in order, for every
\* capacity and any number of tasklets.
THEOREM TaskletsInOrder == TaskletSpec => [](RunOnceInOrder /\ RingIsArray)
<1>1. TaskletInit => TaskletInv
  BY CapacityAssumption DEF TaskletInit, TaskletInv, TaskletTypeOK, Queues, RingIsArray,
     RunOnceInOrder
<1>2. TaskletInv /\ [TaskletNext]_tasklet_vars => TaskletInv'
  <2> SUFFICES ASSUME TaskletInv, [TaskletNext]_tasklet_vars PROVE TaskletInv'
    OBVIOUS
  <2>1. CASE UNCHANGED tasklet_vars
    BY <2>1 DEF tasklet_vars, TaskletInv, TaskletTypeOK, RingIsArray, RunOnceInOrder
  <2> QED
    BY <2>1, FinishStep, AddStep DEF TaskletNext
<1>3. TaskletInv => RunOnceInOrder /\ RingIsArray
  BY DEF TaskletInv
<1> QED
  BY <1>1, <1>2, <1>3, PTL DEF TaskletSpec

-----------------------------------------------------------------------------
(* The SD card keeps what is written to it.                                *)

\* What a block or a word read from the FIFO can hold.
Contents == BlockValues \cup {MBR, Garbage, FirstValue}

\* What RESP0 can hold.
Responses == {"none", "pattern", "status", "busy", "ready_sc", "ready_hc", "cid", "rca"}

\* The states of the SD card.
Cards ==
  [mode : {"idle", "ready", "ident", "stby", "tran"}, app : BOOLEAN, high_capacity : BOOLEAN,
   block_length : {BLOCK_SIZE, 2 * BLOCK_SIZE}, blocks : [BlockIds -> Contents]]

\* The states of the driver.
Drivers ==
  [pc : SetupCommands \cup {"read_mbr", "mbr", "no_table", "usable"}, is_high_capacity : BOOLEAN,
   resp0 : Responses]

\* The card, the driver, the transfer under way and the blocks as they should be.
StorageTypeOK ==
  /\ card \in Cards /\ driver \in Drivers
  /\ op \in [kind : {"none", "read", "write"}, arg : Nat, block : Nat, val : Contents]
  /\ want \in [BlockIds -> Contents \cup {Unknown}]

\* sdcard_setup() leaves its loop with the answer of the card to SD_APP_OP_COND only, and a
\* card gets past "ready" only after that.
SetupAt(pc, c, d) ==
  /\ pc \in {"GO_IDLE_STATE", "SEND_IF_COND"} => c.mode = "idle" /\ d.resp0 = "none"
  /\ pc \in {"APP_CMD", "SD_APP_OP_COND"} =>
       c.mode \in {"idle", "ready"} /\ d.resp0 \in {"pattern", "status", "busy"}
  /\ pc \in {"ALL_SEND_CID", "SEND_RELATIVE_ADDR", "SELECT_CARD", "SET_BLOCKLEN"} =>
       d.is_high_capacity = c.high_capacity
  /\ c.mode \in {"ident", "stby", "tran"} => d.is_high_capacity = c.high_capacity

\* What every step of the driver keeps: the card has told its unit before it can be selected, and
\* a transfer addresses the block that its caller meant.
StorageInv ==
  /\ StorageTypeOK
  /\ SetupAt(driver.pc, card, driver)
  /\ driver.pc \in {"mbr", "usable"} \/ op = NoOp
  /\ op # NoOp /\ card.mode = "tran" => Located(op.arg) = op.block
  /\ op.kind = "write" /\ op.block \in BlockIds => want[op.block] = op.val
  /\ BlocksKept /\ ReadsLastWrite

\* The card finds the block that the driver meant: both take the argument for a block or both for
\* a byte.
LEMMA Located_ ==
  ASSUME NEW b \in Nat, driver.is_high_capacity = card.high_capacity
  PROVE  Located(address(b)) = b
<1>1. (b * 512) \div 512 = b
  OBVIOUS
<1> QED BY <1>1 DEF Located, address, BLOCK_SIZE

\* What a command of sdcard_setup() can do to the card, and what the card can answer.
Effect(cmd, c, resp) ==
  /\ c \in Cards /\ c.blocks = card.blocks /\ c.high_capacity = card.high_capacity
  /\ resp \in Responses
  /\ cmd = "GO_IDLE_STATE" => c.mode \in {"idle", card.mode} /\ resp \in {"none", driver.resp0}
  /\ cmd = "SEND_IF_COND" => c.mode = card.mode /\ resp \in {"pattern", driver.resp0}
  /\ cmd = "APP_CMD" => c.mode = card.mode /\ resp \in {"status", driver.resp0}
  /\ cmd = "SD_APP_OP_COND" => /\ c.mode \in {card.mode, "ready"}
                               /\ resp \in {Ready, "busy", driver.resp0}

\* A command that is lost changes nothing, and RESP0 stays.
LEMMA Lost ==
  ASSUME StorageTypeOK, NEW cmd
  PROVE  Effect(cmd, card, driver.resp0)
BY DEF Effect, StorageTypeOK, Drivers

\* The answers of the card have the effects above.
LEMMA CommandsAre ==
  ASSUME StorageTypeOK, NEW cmd \in SetupCommands, NEW r \in Commands(cmd)
  PROVE  Effect(cmd, r[1], r[2]) /\ Effect(cmd, r[1], driver.resp0)
<1>1. card \in Cards /\ driver.resp0 \in Responses /\ Ready \in Responses
  BY DEF StorageTypeOK, Drivers, Ready, Responses
<1>2. CASE r = <<card, driver.resp0>>
  BY <1>2, Lost
<1>3. CASE cmd = "GO_IDLE_STATE"
  <2>1. r[1] = [card EXCEPT !.mode = "idle"] /\ r[2] = "none"
    BY <1>3 DEF Commands
  <2> QED BY <1>1, <1>3, <2>1 DEF Effect, Cards, Responses
<1>4. CASE cmd = "SEND_IF_COND"
  <2>1. r[1] = card /\ r[2] = "pattern"
    BY <1>4 DEF Commands
  <2> QED BY <1>1, <1>4, <2>1 DEF Effect, Responses
<1>5. CASE cmd = "APP_CMD"
  <2>1. r[1] = [card EXCEPT !.app = TRUE] /\ r[2] = "status"
    BY <1>5 DEF Commands
  <2> QED BY <1>1, <1>5, <2>1 DEF Effect, Cards, Responses
<1>6. CASE cmd = "SD_APP_OP_COND" /\ r # <<card, driver.resp0>>
  <2>1. \/ r[1] = [card EXCEPT !.app = FALSE, !.mode = "ready"] /\ r[2] = Ready
        \/ r[1] = [card EXCEPT !.app = FALSE] /\ r[2] = "busy"
    <3> DEFINE c == [card EXCEPT !.app = FALSE, !.mode = "ready"]
               d == [card EXCEPT !.app = FALSE]
    <3>1. CASE card.app /\ card.mode = "idle"
      <4>1. Commands("SD_APP_OP_COND") = {<<c, Ready>>, <<d, "busy">>}
        BY <3>1 DEF Commands
      <4> HIDE DEF c, d
      <4>2. (r[1] = c /\ r[2] = Ready) \/ (r[1] = d /\ r[2] = "busy")
        BY <1>6, <4>1
      <4> QED BY <4>2 DEF c, d
    <3>2. CASE ~(card.app /\ card.mode = "idle")
      <4>1. Commands("SD_APP_OP_COND") = {<<card, driver.resp0>>}
        BY <3>2 DEF Commands
      <4> QED BY <1>6, <4>1
    <3> QED BY <3>1, <3>2
  <2> QED BY <1>1, <1>6, <2>1 DEF Effect, Cards, Responses
<1>7. CASE cmd = "ALL_SEND_CID" /\ r # <<card, driver.resp0>>
  <2>1. r[1] = [card EXCEPT !.mode = "ident"] /\ r[2] = "cid"
    BY <1>7 DEF Commands
  <2> QED BY <1>1, <1>7, <2>1 DEF Effect, Cards, Responses
<1>8. CASE cmd = "SEND_RELATIVE_ADDR" /\ r # <<card, driver.resp0>>
  <2>1. r[1] = [card EXCEPT !.mode = "stby"] /\ r[2] = "rca"
    BY <1>8 DEF Commands
  <2> QED BY <1>1, <1>8, <2>1 DEF Effect, Cards, Responses
<1>9. CASE cmd = "SELECT_CARD" /\ r # <<card, driver.resp0>>
  <2>1. r[1] = [card EXCEPT !.mode = "tran"] /\ r[2] = "status"
    BY <1>9 DEF Commands
  <2> QED BY <1>1, <1>9, <2>1 DEF Effect, Cards, Responses
<1>10. CASE cmd = "SET_BLOCKLEN" /\ r # <<card, driver.resp0>>
  <2>1. r[1] = [card EXCEPT !.block_length = BLOCK_SIZE] /\ r[2] = "status"
    BY <1>10 DEF Commands
  <2> QED BY <1>1, <1>10, <2>1 DEF Effect, Cards, Responses
<1> QED
  BY <1>2, <1>3, <1>4, <1>5, <1>6, <1>7, <1>8, <1>9, <1>10 DEF SetupCommands

\* Where sdcard_setup() goes on after each command.
LEMMA AfterIs ==
  ASSUME NEW ret, NEW resp0
  PROVE  /\ after("GO_IDLE_STATE", ret, resp0) = GoTo("SEND_IF_COND", resp0)
         /\ after("SEND_IF_COND", ret, resp0) = after_if_cond(ret, resp0)
         /\ after("APP_CMD", ret, resp0) = after_app_cmd(ret, resp0)
         /\ after("SD_APP_OP_COND", ret, resp0) = after_op_cond(ret, resp0)
         /\ after("ALL_SEND_CID", ret, resp0) = GoTo("SEND_RELATIVE_ADDR", resp0)
         /\ after("SEND_RELATIVE_ADDR", ret, resp0) = GoTo("SELECT_CARD", resp0)
         /\ after("SELECT_CARD", ret, resp0) = GoTo("SET_BLOCKLEN", resp0)
         /\ after("SET_BLOCKLEN", ret, resp0) = GoTo("read_mbr", resp0)
BY DEF after

\* The fields of the driver after a command.
LEMMA GoToIs ==
  ASSUME driver \in Drivers, NEW pc \in SetupCommands \cup {"read_mbr"}, NEW resp \in Responses
  PROVE  LET d == GoTo(pc, resp)
         IN d \in Drivers /\ d.pc = pc /\ d.resp0 = resp
            /\ d.is_high_capacity = driver.is_high_capacity
BY DEF GoTo, Drivers

\* The loop around SD_APP_OP_COND ends with the capacity of the card.
LEMMA AfterOpCond ==
  ASSUME StorageTypeOK, NEW ret, NEW resp, resp \in {Ready, "pattern", "status", "busy"}
  PROVE  LET d == after_op_cond(ret, resp)
         IN d \in Drivers /\ (\/ /\ d.pc = "ALL_SEND_CID"
                                 /\ d.is_high_capacity = card.high_capacity
                              \/ /\ d.pc = "APP_CMD" /\ d.resp0 \in {"pattern", "status", "busy"}
                                 /\ d.is_high_capacity = driver.is_high_capacity)
<1>1. driver \in Drivers /\ card.high_capacity \in BOOLEAN
  BY DEF StorageTypeOK, Cards
<1>2. CASE resp = Ready
  <2>1. /\ resp \in {"ready_sc", "ready_hc"} /\ (resp = "ready_hc") = card.high_capacity
        /\ resp \in Responses /\ "ALL_SEND_CID" \in SetupCommands
    BY <1>1, <1>2 DEF Ready, Responses, SetupCommands
  <2>2. after_op_cond(ret, resp) =
          [GoTo("ALL_SEND_CID", resp) EXCEPT !.is_high_capacity = card.high_capacity]
    BY <2>1 DEF after_op_cond
  <2> QED BY <1>1, <2>1, <2>2, GoToIs DEF Drivers
<1>3. CASE resp \in {"pattern", "status", "busy"}
  <2>1. after_op_cond(ret, resp) = GoTo("APP_CMD", resp)
    BY <1>3 DEF after_op_cond
  <2>2. resp \in Responses /\ "APP_CMD" \in SetupCommands
    BY <1>3 DEF Responses, SetupCommands
  <2> QED BY <1>1, <1>3, <2>1, <2>2, GoToIs
<1> QED BY <1>2, <1>3

\* A command of sdcard_setup() keeps the invariant, whether it is answered, late or lost.
LEMMA SetupStep ==
  ASSUME StorageConstants, StorageInv, sdcard_setup
  PROVE  StorageInv'
<1> DEFINE cmd == driver.pc
<1>1. /\ StorageTypeOK /\ driver \in Drivers /\ SetupAt(cmd, card, driver)
      /\ cmd \in SetupCommands /\ sd_cmd(cmd)
  BY DEF StorageInv, StorageTypeOK, sdcard_setup
<1>2. op = NoOp /\ UNCHANGED <<op, want, answered>>
  BY <1>1 DEF StorageInv, sd_cmd, SetupCommands
<1>3. PICK ret, resp : Effect(cmd, card', resp) /\ driver' = after(cmd, ret, resp)
  <2>1. CASE \E r \in Commands(cmd) :
               card' = r[1] /\ driver' \in {after(cmd, 0, r[2]), after(cmd, -1, driver.resp0)}
    BY <1>1, <2>1, CommandsAre, Zenon
  <2>2. CASE card' = card /\ driver' = after(cmd, -1, driver.resp0)
    BY <1>1, <2>2, Lost, Zenon
  <2> QED BY <1>1, <2>1, <2>2, Zenon DEF sd_cmd
<1>4. /\ card' \in Cards /\ card'.blocks = card.blocks /\ resp \in Responses
      /\ card'.high_capacity = card.high_capacity
  BY <1>3 DEF Effect
<1>5. driver' \in Drivers /\ SetupAt(cmd, card, driver)' /\ driver'.pc \notin {"mbr", "usable"}
  <2>1. CASE cmd = "GO_IDLE_STATE"
    <3>1. driver' = GoTo("SEND_IF_COND", resp) /\ card'.mode = "idle" /\ resp = "none"
      BY <1>1, <1>3, <2>1, AfterIs DEF Effect, SetupAt
    <3>2. driver' \in Drivers /\ driver'.pc = "SEND_IF_COND" /\ driver'.resp0 = "none"
      BY <1>1, <1>4, <3>1, GoToIs DEF SetupCommands
    <3> QED BY <3>1, <3>2 DEF SetupAt
  <2>2. CASE cmd = "SEND_IF_COND"
    <3>1. driver' = after_if_cond(ret, resp) /\ card'.mode = "idle"
      BY <1>1, <1>3, <2>2, AfterIs DEF Effect, SetupAt
    <3>2. /\ driver' \in Drivers /\ driver'.resp0 = resp
          /\ driver'.pc = IF resp = "pattern" THEN "APP_CMD" ELSE "read_mbr"
      BY <1>1, <1>4, <3>1, GoToIs DEF SetupCommands, after_if_cond
    <3> QED BY <3>1, <3>2 DEF SetupAt
  <2>3. CASE cmd = "APP_CMD"
    <3>1. /\ driver' = after_app_cmd(ret, resp) /\ card'.mode \in {"idle", "ready"}
          /\ resp \in {"pattern", "status", "busy"}
      BY <1>1, <1>3, <2>3, AfterIs DEF Effect, SetupAt
    <3>2. /\ driver' \in Drivers /\ driver'.resp0 = resp
          /\ driver'.pc \in {"APP_CMD", "SD_APP_OP_COND"}
      BY <1>1, <1>4, <3>1, GoToIs DEF SetupCommands, after_app_cmd
    <3> QED BY <3>1, <3>2 DEF SetupAt
  <2>4. CASE cmd = "SD_APP_OP_COND"
    <3>1. /\ driver' = after_op_cond(ret, resp) /\ card'.mode \in {"idle", "ready"}
          /\ resp \in {Ready, "pattern", "status", "busy"}
      BY <1>1, <1>3, <2>4, AfterIs DEF Effect, SetupAt
    <3>2. driver' \in Drivers
          /\ \/ driver'.pc = "ALL_SEND_CID" /\ driver'.is_high_capacity = card.high_capacity
             \/ driver'.pc = "APP_CMD" /\ driver'.resp0 \in {"pattern", "status", "busy"}
      BY <1>1, <3>1, AfterOpCond
    <3> QED BY <1>4, <3>1, <3>2 DEF SetupAt
  <2>5. CASE cmd \in {"ALL_SEND_CID", "SEND_RELATIVE_ADDR", "SELECT_CARD", "SET_BLOCKLEN"}
    <3>1. PICK pc \in {"SEND_RELATIVE_ADDR", "SELECT_CARD", "SET_BLOCKLEN", "read_mbr"} :
            driver' = GoTo(pc, resp)
      BY <1>3, <2>5, AfterIs
    <3>2. driver' \in Drivers /\ driver'.pc = pc
          /\ driver'.is_high_capacity = driver.is_high_capacity
      BY <1>1, <1>4, <3>1, GoToIs DEF SetupCommands
    <3>3. driver'.is_high_capacity = card'.high_capacity
      BY <1>1, <1>4, <2>5, <3>2 DEF SetupAt
    <3> QED BY <3>1, <3>2, <3>3 DEF SetupAt
  <2> QED BY <1>1, <2>1, <2>2, <2>3, <2>4, <2>5 DEF SetupCommands
<1>6. StorageTypeOK'
  BY <1>1, <1>2, <1>4, <1>5 DEF StorageTypeOK
<1>7. BlocksKept' /\ ReadsLastWrite'
  BY <1>2, <1>4 DEF BlocksKept, ReadsLastWrite, StorageInv
<1>8. op' = NoOp /\ op'.kind # "write"
  BY <1>2 DEF NoOp
<1> QED BY <1>5, <1>6, <1>7, <1>8 DEF StorageInv

\* The transfers.
Ops == [kind : {"none", "read", "write"}, arg : Nat, block : Nat, val : Contents]

\* The fields of a transfer.
LEMMA OpFacts ==
  /\ NoOp \in Ops /\ NoOp.kind = "none"
  /\ \A a, b \in Nat, v \in Contents :
       LET r == [kind |-> "read", arg |-> a, block |-> b, val |-> v]
           w == [kind |-> "write", arg |-> a, block |-> b, val |-> v]
       IN /\ r \in Ops /\ r.kind = "read" /\ r.arg = a /\ r.block = b
          /\ w \in Ops /\ w.kind = "write" /\ w.arg = a /\ w.block = b /\ w.val = v
BY DEF NoOp, Ops, Contents

\* The argument of a command is a number.
LEMMA AddressType ==
  ASSUME StorageTypeOK, NEW b \in Nat
  PROVE  address(b) \in Nat
BY DEF address, BLOCK_SIZE

\* The card after a round of write_block(): only the block of the transfer can have changed.
LEMMA StoredIs ==
  ASSUME StorageTypeOK, NEW b \in BlockIds, NEW v \in Contents
  PROVE  LET c == [card EXCEPT !.blocks[b] = v]
         IN /\ c \in Cards /\ c.mode = card.mode /\ c.high_capacity = card.high_capacity
            /\ \A i \in BlockIds : c.blocks[i] = IF i = b THEN v ELSE card.blocks[i]
BY DEF StorageTypeOK, Cards

\* A round of write_block(), which may fail half way through the block or end unnoticed.
LEMMA WriteRound ==
  ASSUME StorageConstants, StorageInv, write_round
  PROVE  StorageInv'
<1> DEFINE b == op.block
           Ends == op' = NoOp
<1>1. /\ card \in Cards /\ driver \in Drivers /\ op \in Ops
      /\ want \in [BlockIds -> Contents \cup {Unknown}]
      /\ StorageTypeOK /\ SetupAt(driver.pc, card, driver) /\ BlocksKept /\ ReadsLastWrite
  BY DEF StorageInv, StorageTypeOK, Ops
<1>2. op.kind = "write" /\ UNCHANGED <<driver, answered>>
  BY DEF write_round
<1>3. op # NoOp /\ driver.pc \in {"mbr", "usable"} /\ op.val \in Contents
  BY <1>1, <1>2, OpFacts DEF StorageInv, Ops
<1>4. /\ card' \in Cards /\ card'.mode = card.mode /\ card'.high_capacity = card.high_capacity
      /\ \A i \in BlockIds : i # b => card'.blocks[i] = card.blocks[i]
      /\ \/ Ends /\ want' = want /\ (b \in BlockIds => card'.blocks[b] = op.val)
         \/ op' = op /\ want' = want
         \/ Ends /\ want' = [want EXCEPT ![b] = Unknown]
  <2>1. CASE Transfers
    <3>1. Located(op.arg) = b /\ b \in BlockIds
      BY <1>3, <2>1 DEF StorageInv, Transfers
    <3>2. card.blocks[b] \in Contents /\ Garbage \in Contents
      BY <1>1, <3>1 DEF Cards, Contents
    <3>3. PICK v \in Contents :
            /\ card' = [card EXCEPT !.blocks[b] = v]
            /\ \/ Ends /\ want' = want /\ v = op.val
               \/ op' = op /\ want' = want
               \/ Ends /\ want' = [want EXCEPT ![b] = Unknown]
      <4>1. CASE card' = Stored(op.val) /\ Ends /\ want' = want
        BY <1>3, <3>1, <4>1 DEF Stored
      <4>2. CASE /\ card' \in Torn
                 /\ \/ op' = op /\ want' = want
                    \/ Ends /\ want' = [want EXCEPT ![b] = Unknown]
        <5>1. PICK v \in {card.blocks[b], op.val, Garbage} : card' = Stored(v)
          BY <2>1, <3>1, <4>2 DEF Torn
        <5> QED BY <1>3, <3>1, <3>2, <4>2, <5>1 DEF Stored
      <4> QED BY <4>1, <4>2 DEF write_round, again
    <3> HIDE DEF b, Ends
    <3>4. /\ card' \in Cards /\ card'.mode = card.mode /\ card'.high_capacity = card.high_capacity
          /\ \A i \in BlockIds : card'.blocks[i] = IF i = b THEN v ELSE card.blocks[i]
      BY <1>1, <3>1, <3>3, StoredIs
    <3> QED BY <3>1, <3>3, <3>4
  <2>2. CASE ~Transfers
    <3>1. /\ card' = card
          /\ \/ op' = op /\ want' = want
             \/ Ends /\ want' = [want EXCEPT ![b] = Unknown]
      BY <2>2 DEF write_round, Torn, again
    <3> QED BY <1>1, <3>1
  <2> QED BY <2>1, <2>2
<1>5. /\ want' \in [BlockIds -> Contents \cup {Unknown}]
      /\ \A i \in BlockIds : want'[i] = want[i] \/ (i = b /\ want'[i] = Unknown)
  BY <1>1, <1>4
<1>6. op' \in Ops /\ (Ends => op'.kind = "none")
  BY <1>1, <1>4, OpFacts
<1>7. StorageTypeOK'
  BY <1>1, <1>2, <1>4, <1>5, <1>6 DEF StorageTypeOK, Ops
<1>8. SetupAt(driver.pc, card, driver)'
  BY <1>1, <1>2, <1>4 DEF SetupAt
<1>9. BlocksKept'
  <2> SUFFICES ASSUME NEW i \in BlockIds
               PROVE  card'.blocks[i] = want'[i] \/ want'[i] = Unknown
                      \/ (op'.kind = "write" /\ op'.block = i)
    BY DEF BlocksKept
  <2>1. CASE i # b
    BY <1>1, <1>4, <1>5, <2>1 DEF BlocksKept
  <2>2. CASE i = b
    <3>1. want[b] = op.val
      BY <1>2, <2>2 DEF StorageInv
    <3> QED BY <1>1, <1>2, <1>4, <2>2, <3>1
  <2> QED BY <2>1, <2>2
<1>10. Located(op.arg)' = Located(op'.arg)
  BY <1>4 DEF Located
<1>11. op' = NoOp \/ (op' = op /\ want' = want)
  BY <1>4
<1>12. ReadsLastWrite'
  BY <1>1, <1>2 DEF ReadsLastWrite
<1>13. op' # NoOp /\ card'.mode = "tran" => Located(op.arg)' = op'.block
  BY <1>3, <1>4, <1>10, <1>11 DEF StorageInv
<1>14. op'.kind = "write" /\ op'.block \in BlockIds => want'[op'.block] = op'.val
  BY <1>6, <1>11 DEF StorageInv
<1> QED BY <1>2, <1>3, <1>7, <1>8, <1>9, <1>12, <1>13, <1>14 DEF StorageInv

\* A round of read_block().
LEMMA ReadRound ==
  ASSUME StorageConstants, StorageInv, read_round
  PROVE  StorageInv'
<1>1. /\ op.kind = "read" /\ UNCHANGED <<card, want>> /\ driver \in Drivers
      /\ StorageTypeOK /\ SetupAt(driver.pc, card, driver) /\ BlocksKept /\ ReadsLastWrite
  BY DEF read_round, StorageInv, StorageTypeOK
<1>2. op # NoOp /\ driver.pc \in {"mbr", "usable"}
  BY <1>1, OpFacts DEF StorageInv
<1>3. (op' = NoOp \/ (op' = op /\ driver' = driver)) /\ ReadsLastWrite'
  <2>1. CASE Transfers /\ op' = NoOp
             /\ answered' = [expected |-> want[op.block], got |-> card.blocks[Located(op.arg)]]
    <3>1. Located(op.arg) = op.block /\ op.block \in BlockIds
      BY <1>2, <2>1 DEF StorageInv, Transfers
    <3>2. want[op.block] \in {card.blocks[op.block], Unknown}
      BY <1>1, <3>1 DEF BlocksKept
    <3> QED BY <2>1, <3>1, <3>2 DEF ReadsLastWrite
  <2>2. CASE op' = op /\ answered' = answered /\ driver' = driver
    BY <1>1, <2>2 DEF ReadsLastWrite
  <2>3. CASE op' = NoOp /\ answered' = [expected |-> Unknown, got |-> Garbage]
    BY <2>3 DEF ReadsLastWrite
  <2> QED BY <2>1, <2>2, <2>3 DEF read_round, again
<1>4. /\ driver' \in Drivers /\ driver'.pc \in {"mbr", "usable", "no_table"}
      /\ driver'.is_high_capacity = driver.is_high_capacity
  <2>1. PICK pc \in {"mbr", "usable", "no_table"} : driver' = [driver EXCEPT !.pc = pc]
    <3>1. driver = [driver EXCEPT !.pc = driver.pc]
      BY <1>1 DEF Drivers
    <3> QED BY <1>2, <3>1 DEF read_round
  <2> QED BY <1>1, <2>1 DEF Drivers
<1>5. op' \in Ops /\ (op' = NoOp => op'.kind = "none")
  BY <1>1, <1>3, OpFacts DEF StorageTypeOK, Ops
<1>6. StorageTypeOK'
  BY <1>1, <1>4, <1>5 DEF StorageTypeOK, Ops
<1>7. SetupAt(driver.pc, card, driver)'
  BY <1>1, <1>4 DEF SetupAt
<1>8. BlocksKept' /\ op'.kind # "write"
  BY <1>1, <1>3, <1>5 DEF BlocksKept
<1>9. Located(op.arg)' = Located(op'.arg)
  BY <1>1 DEF Located
<1>10. op' # NoOp /\ card'.mode = "tran" => Located(op.arg)' = op'.block
  BY <1>1, <1>2, <1>3, <1>9 DEF StorageInv
<1>11. driver'.pc \in {"mbr", "usable"} \/ op' = NoOp
  BY <1>2, <1>3
<1> QED BY <1>3, <1>6, <1>7, <1>8, <1>10, <1>11 DEF StorageInv

\* A transfer that begins.
LEMMA NewOp ==
  ASSUME StorageConstants, StorageInv, op = NoOp, NEW pc \in {"mbr", "usable"}, NEW b \in Nat,
         NEW v \in Contents, NEW k \in {"read", "write"}, card' = card,
         driver' = [driver EXCEPT !.pc = pc], driver.pc \in {"read_mbr", "usable"},
         op' = [kind |-> k, arg |-> address(b), block |-> b, val |-> v],
         want' = want \/ (k = "write" /\ want' = [want EXCEPT ![b] = v]),
         k = "write" /\ b \in BlockIds => want'[b] = v,
         ReadsLastWrite'
  PROVE  StorageInv'
<1>1. /\ card \in Cards /\ driver \in Drivers /\ want \in [BlockIds -> Contents \cup {Unknown}]
      /\ SetupAt(driver.pc, card, driver) /\ BlocksKept /\ StorageTypeOK
  BY DEF StorageInv, StorageTypeOK
<1>2. address(b) \in Nat
  BY <1>1, AddressType
<1>3. op' \in Ops /\ op'.kind = k /\ op'.arg = address(b) /\ op'.block = b /\ op'.val = v
  BY <1>2 DEF Ops
<1>4. want' \in [BlockIds -> Contents \cup {Unknown}]
      /\ \A c \in BlockIds : c # b \/ k = "read" => want'[c] = want[c]
  BY <1>1
<1>5. driver' \in Drivers /\ driver'.pc = pc
      /\ driver'.is_high_capacity = driver.is_high_capacity
  BY <1>1 DEF Drivers
<1>6. StorageTypeOK'
  BY <1>1, <1>3, <1>4, <1>5 DEF StorageTypeOK, Ops
<1>7. SetupAt(driver.pc, card, driver)'
  BY <1>1, <1>5 DEF SetupAt
<1>8. BlocksKept'
  BY <1>1, <1>3, <1>4, OpFacts DEF BlocksKept
<1>9. card.mode = "tran" => Located(op.arg)' = b
  <2>1. SUFFICES ASSUME card.mode = "tran" PROVE Located(op.arg)' = b
    OBVIOUS
  <2>2. driver.is_high_capacity = card.high_capacity
    BY <1>1, <2>1 DEF SetupAt
  <2>3. Located(address(b)) = b
    BY <2>2, Located_
  <2> QED BY <1>3, <2>3 DEF Located
<1> QED BY <1>3, <1>5, <1>6, <1>7, <1>8, <1>9 DEF StorageInv

\* StorageDevice::StorageDevice() reads the partition table.
LEMMA DeviceStep ==
  ASSUME StorageConstants, StorageInv, StorageDevice
  PROVE  StorageInv'
<1>1. op = NoOp /\ ReadsLastWrite
  BY DEF StorageInv, StorageDevice
<1>2. /\ driver.pc = "read_mbr" /\ driver' = [driver EXCEPT !.pc = "mbr"]
      /\ op' = [kind |-> "read", arg |-> address(0), block |-> 0, val |-> Garbage]
      /\ UNCHANGED <<card, want, answered>>
  BY DEF StorageDevice
<1>3. Garbage \in Contents /\ ReadsLastWrite'
  BY <1>1, <1>2 DEF Contents, ReadsLastWrite
<1> QED BY <1>1, <1>2, <1>3, NewOp, Zenon

\* read_block() and write_block() of a partition refuse what is behind its end.
LEMMA Partition ==
  ASSUME StorageConstants, NEW p \in DOMAIN partitions, NEW i \in Nat
  PROVE  /\ Entries[p].start + i \in Nat /\ partitions[p].start = Entries[p].start
         /\ Inside(p, i) <=> ~(partitions[p].start + i > partitions[p].end)
<1>1. p \in DOMAIN Entries
  BY DEF partitions
<1>2. Entries[p].start \in Nat /\ Entries[p].nr \in Nat
  BY <1>1 DEF StorageConstants
<1>3. partitions[p] = [start |-> Entries[p].start, end |-> Entries[p].nr + Entries[p].start - 1]
  BY <1>1 DEF partitions
<1> QED BY <1>2, <1>3 DEF Inside

\* DiskPartition::read_block().
LEMMA ReadBlock ==
  ASSUME StorageConstants, StorageInv, NEW p \in DOMAIN partitions, NEW i \in Nat, read_block(p, i)
  PROVE  StorageInv'
<1> DEFINE b == Entries[p].start + i
<1>1. driver.pc = "usable" /\ op = NoOp /\ UNCHANGED <<card, driver, want>>
  BY DEF read_block, Free
<1>2. /\ b \in Nat /\ partitions[p].start + i = b
      /\ Inside(p, i) <=> ~(partitions[p].start + i > partitions[p].end)
  BY Partition
<1>3. Garbage \in Contents /\ driver \in Drivers
  BY DEF Contents, StorageInv, StorageTypeOK
<1>4. CASE Inside(p, i)
  <2>1. op' = [kind |-> "read", arg |-> address(b), block |-> b, val |-> Garbage]
        /\ answered' = NoRead
    BY <1>2, <1>4 DEF read_block
  <2>2. ReadsLastWrite'
    BY <2>1 DEF ReadsLastWrite, NoRead
  <2>3. driver' = [driver EXCEPT !.pc = "usable"]
    BY <1>1, <1>3 DEF Drivers
  <2> HIDE DEF b
  <2> QED BY <1>1, <1>2, <1>3, <2>1, <2>2, <2>3, NewOp, Zenon
<1>5. CASE ~Inside(p, i)
  <2>1. op' = op /\ answered' = [expected |-> Garbage, got |-> Garbage]
    BY <1>2, <1>5 DEF read_block
  <2> QED BY <1>1, <2>1 DEF StorageInv, StorageTypeOK, BlocksKept, ReadsLastWrite, Located
<1> QED BY <1>4, <1>5

\* DiskPartition::write_block().
LEMMA WriteBlock ==
  ASSUME StorageConstants, StorageInv, NEW p \in DOMAIN partitions, NEW i \in Nat,
         NEW v \in BlockValues,
         write_block(p, i, v)
  PROVE  StorageInv'
<1> DEFINE b == Entries[p].start + i
<1>1. driver.pc = "usable" /\ op = NoOp /\ UNCHANGED <<card, driver>> /\ answered' = NoRead
  BY DEF write_block, Free
<1>2. /\ b \in Nat /\ partitions[p].start + i = b
      /\ Inside(p, i) <=> ~(partitions[p].start + i > partitions[p].end)
  BY Partition
<1>3. v \in Contents /\ driver \in Drivers /\ want \in [BlockIds -> Contents \cup {Unknown}]
  BY DEF Contents, StorageInv, StorageTypeOK
<1>4. ReadsLastWrite'
  BY <1>1 DEF ReadsLastWrite, NoRead
<1>5. CASE Inside(p, i)
  <2>1. /\ op' = [kind |-> "write", arg |-> address(b), block |-> b, val |-> v]
        /\ want' = [want EXCEPT ![b] = v]
    BY <1>2, <1>5 DEF write_block
  <2>2. driver' = [driver EXCEPT !.pc = "usable"]
    BY <1>1, <1>3 DEF Drivers
  <2> HIDE DEF b
  <2>3. b \in BlockIds => want'[b] = v
    BY <1>3, <2>1
  <2> QED BY <1>1, <1>2, <1>3, <1>4, <2>1, <2>2, <2>3, NewOp, Zenon
<1>6. CASE ~Inside(p, i)
  <2>1. op' = op /\ want' = want
    BY <1>2, <1>6 DEF write_block
  <2> QED BY <1>1, <1>4, <2>1 DEF StorageInv, StorageTypeOK, BlocksKept, Located
<1> QED BY <1>5, <1>6

\* driver/SDCardDriver.cc, dev/StorageDevice.cc, dev/DiskPartition.cc: for every number of blocks
\* and every partition table, whatever commands of the set-up are lost or late and whatever rounds
\* of read_block() and write_block() fail or time out, a block that is read is the one that was
\* last written there, unless that read or that write itself ended with an unnoticed time-out.
THEOREM CardIsStore ==
  ASSUME StorageConstants
  PROVE  StorageSpec => []BlocksAreStored
<1>1. StorageInit => StorageInv
  <2> SUFFICES ASSUME StorageInit PROVE StorageInv
    OBVIOUS
  <2>1. PICK hc \in BOOLEAN, len \in {BLOCK_SIZE, 2 * BLOCK_SIZE} :
          card = [mode |-> "idle", app |-> FALSE, high_capacity |-> hc, block_length |-> len,
                  blocks |-> [b \in BlockIds |-> IF b = 0 THEN MBR ELSE FirstValue]]
    BY Zenon DEF StorageInit
  <2>2. card \in Cards /\ card.mode = "idle"
    BY <2>1 DEF Cards, Contents
  <2>3. /\ driver = [pc |-> "GO_IDLE_STATE", is_high_capacity |-> FALSE, resp0 |-> "none"]
        /\ op = NoOp /\ want = card.blocks /\ answered = NoRead
    BY DEF StorageInit
  <2>4. driver \in Drivers /\ driver.pc = "GO_IDLE_STATE" /\ driver.resp0 = "none"
    BY <2>3 DEF Drivers, SetupCommands, Responses
  <2>5. StorageTypeOK
    BY <2>2, <2>3, <2>4, OpFacts DEF StorageTypeOK, Cards, Ops
  <2>6. SetupAt(driver.pc, card, driver)
    BY <2>2, <2>4 DEF SetupAt
  <2>7. BlocksKept /\ ReadsLastWrite
    BY <2>3 DEF BlocksKept, ReadsLastWrite, NoRead
  <2> QED BY <2>3, <2>4, <2>5, <2>6, <2>7, OpFacts DEF StorageInv
<1>2. StorageInv /\ [StorageNext]_storage_vars => StorageInv'
  <2> SUFFICES ASSUME StorageInv, [StorageNext]_storage_vars PROVE StorageInv'
    OBVIOUS
  <2>1. \A i \in 0..(NrBlocks - 1) : i \in Nat
    BY DEF StorageConstants
  <2>2. ASSUME NEW p \in DOMAIN partitions, NEW i \in 0..(NrBlocks - 1),
               read_block(p, i) \/ \E v \in BlockValues : write_block(p, i, v)
        PROVE  StorageInv'
    BY <2>1, <2>2, ReadBlock, WriteBlock
  <2>3. CASE no_table \/ UNCHANGED storage_vars
    BY <2>3 DEF no_table, storage_vars, StorageInv, StorageTypeOK, BlocksKept, ReadsLastWrite,
       Located
  <2> QED BY <2>2, <2>3, SetupStep, DeviceStep, WriteRound, ReadRound DEF StorageNext
<1>3. StorageInv => BlocksAreStored
  BY DEF StorageInv, BlocksAreStored, UnitsAgree, SetupAt
<1> QED BY <1>1, <1>2, <1>3, PTL DEF StorageSpec

-----------------------------------------------------------------------------
(* Every object has one UniquePtr.                                         *)

\* The objects, none of them deleted twice.
Objects == [alive : SUBSET (1..MaxOwned), deleted_twice : {FALSE}]

\* The states of what an operation works on.
UniqueStates == [up : [UniqueVars -> Nat], owned : Objects]

\* Every live object is owned by one pointer of s or is in H, the pointers that
\* no UniquePtr holds for now.
Owned(s, H) ==
  /\ MaxOwned \in Nat /\ s \in UniqueStates
  /\ H \subseteq s.owned.alive
  /\ \A u \in UniqueVars : s.up[u] # Null => s.up[u] \in s.owned.alive \ H
  /\ \A u, v \in UniqueVars : s.up[u] = s.up[v] /\ s.up[u] # Null => u = v
  /\ \A p \in s.owned.alive \ H : \E u \in UniqueVars : s.up[u] = p

\* A pointer that no UniquePtr holds, unless it is null.
Loose(p) == {p} \ {Null}

\* The parts of a state in which every object has its owner.
LEMMA OwnedTypes ==
  ASSUME NEW s, NEW H, Owned(s, H)
  PROVE  /\ s.up \in [UniqueVars -> Nat] /\ s.owned \in Objects
        /\ s.owned.alive \subseteq 1..MaxOwned
         /\ ~s.owned.deleted_twice /\ Null \notin s.owned.alive /\ Null \notin H /\ Null \in Nat
         /\ s.owned.alive \subseteq Nat
<1>1. s.up \in [UniqueVars -> Nat] /\ s.owned \in Objects /\ MaxOwned \in Nat
      /\ H \subseteq s.owned.alive
  BY DEF Owned, UniqueStates
<1>2. s.owned.alive \subseteq 1..MaxOwned /\ ~s.owned.deleted_twice
  BY <1>1, Zenon DEF Objects
<1> QED BY <1>1, <1>2 DEF Null

\* release() makes the pointer loose.
LEMMA ReleasedOwned ==
  ASSUME NEW s, NEW H, Owned(s, H), NEW u \in UniqueVars
  PROVE  Owned(Released(s, u), H \cup Loose(s.up[u]))
<1> DEFINE r == Released(s, u)
<1>1. /\ r.up = [s.up EXCEPT ![u] = Null] /\ r.owned = s.owned
      /\ r \in UniqueStates
      /\ s.up \in [UniqueVars -> Nat]
  BY OwnedTypes DEF Released, Owned, UniqueStates
<1> HIDE DEF r
<1>2. \A v \in UniqueVars : r.up[v] = IF v = u THEN Null ELSE s.up[v]
  BY <1>1
<1> DEFINE q == s.up[u]
           G == H \cup Loose(q)
<1>3. \A p : p \in G <=> p \in H \/ (p = q /\ p # Null)
  BY DEF Loose
<1> HIDE DEF G
<1>4. q # Null => q \in s.owned.alive \ H
  BY DEF Owned
<1>5. G \subseteq r.owned.alive
  BY <1>1, <1>3, <1>4 DEF Owned
<1>6. \A v \in UniqueVars : r.up[v] # Null => r.up[v] \in r.owned.alive \ G
  BY <1>1, <1>2, <1>3 DEF Owned
<1>7. \A v, w \in UniqueVars : r.up[v] = r.up[w] /\ r.up[v] # Null => v = w
  BY <1>2 DEF Owned
<1>8. ASSUME NEW p \in r.owned.alive \ G PROVE \E v \in UniqueVars : r.up[v] = p
  <2>1. p \in s.owned.alive \ H
    BY <1>1, <1>3
  <2>2. PICK v \in UniqueVars : s.up[v] = p
    BY <2>1 DEF Owned
  <2>3. v # u
    BY <1>3, <1>8, <2>1, <2>2, OwnedTypes
  <2> QED BY <1>2, <2>2, <2>3
<1>9. Owned(r, G)
  BY <1>1, <1>5, <1>6, <1>7, <1>8, Zenon DEF Owned
<1> QED BY <1>9 DEF r, G

\* reset() takes a loose pointer and deletes the object that it held.
LEMMA ResetOwned ==
  ASSUME NEW s, NEW H, Owned(s, H), NEW u \in UniqueVars, NEW p, p \in H \/ p = Null
  PROVE  Owned(reset(s, u, p), H \ {p})
<1> DEFINE r == reset(s, u, p)
           q == s.up[u]
<1>1. /\ s.up \in [UniqueVars -> Nat] /\ s.owned.alive \subseteq 1..MaxOwned
          /\ ~s.owned.deleted_twice
      /\ s.owned \in Objects /\ p \in Nat /\ Null \notin s.owned.alive
  <2>1. H \subseteq s.owned.alive
    BY DEF Owned
  <2> QED BY <2>1, OwnedTypes
<1>2. CASE q = p
  <2>1. r = s /\ p = Null /\ H \ {p} = H
    BY <1>1, <1>2 DEF reset, Owned
  <2> QED BY <2>1
<1>3. CASE q # p
  <2>1. r = [up |-> [s.up EXCEPT ![u] = p], owned |-> Deleted(s.owned, q)]
    BY <1>3 DEF reset
  <2>2. /\ Deleted(s.owned, q) \in Objects
        /\ Deleted(s.owned, q).alive = s.owned.alive \ {q}
    <3>1. CASE q = Null
      BY <1>1, <3>1, Zenon DEF Deleted, Objects
    <3>2. CASE q # Null
      <4>1. q \in s.owned.alive
        BY <3>2 DEF Owned
      <4> QED BY <1>1, <3>2, <4>1, Zenon DEF Deleted, Objects
    <3> QED BY <3>1, <3>2, Zenon
  <2>3. /\ r \in UniqueStates
        /\ r.owned.alive = s.owned.alive \ {q}
        /\ \A v \in UniqueVars : r.up[v] = IF v = u THEN p ELSE s.up[v]
    <3>1. r.up = [s.up EXCEPT ![u] = p] /\ r.owned = Deleted(s.owned, q)
      BY <2>1
    <3>2. [s.up EXCEPT ![u] = p] \in [UniqueVars -> Nat]
      BY <1>1
    <3>3. r \in UniqueStates
      <4>1. \A x \in [UniqueVars -> Nat], y \in Objects :
              [up |-> x, owned |-> y] \in UniqueStates
        BY DEF UniqueStates
      <4> QED BY <2>1, <2>2, <3>2, <4>1, Zenon
    <3> QED BY <1>1, <2>2, <3>1, <3>3, Zenon
  <2> HIDE DEF r
  <2>4. H \ {p} \subseteq r.owned.alive
    BY <1>1, <2>3 DEF Owned
  <2>5. ASSUME NEW v \in UniqueVars, r.up[v] # Null PROVE r.up[v] \in r.owned.alive \ (H \ {p})
    <3>1. CASE v = u
      BY <1>1, <1>3, <2>3, <2>5, <3>1 DEF Owned
    <3>2. CASE v # u
      BY <1>1, <2>3, <2>5, <3>2, Zenon DEF Owned
    <3> QED BY <3>1, <3>2
  <2>6. \A v, w \in UniqueVars : r.up[v] = r.up[w] /\ r.up[v] # Null => v = w
    BY <2>3 DEF Owned
  <2>7. \A x \in r.owned.alive \ (H \ {p}) : \E v \in UniqueVars : r.up[v] = x
    BY <1>1, <2>3 DEF Owned
  <2> QED BY <2>3, <2>4, <2>5, <2>6, <2>7, Zenon DEF Owned, r
<1> QED BY <1>2, <1>3

\* The move assignment leaves nothing loose, from a pointer to itself as well.
LEMMA MoveOwned ==
  ASSUME NEW s, NEW H, Owned(s, H), NEW u \in UniqueVars, NEW r \in UniqueVars
  PROVE  Owned(move_assign(s, u, r), H)
<1> DEFINE p == s.up[r]
           G == H \cup Loose(p)
<1>1. Owned(Released(s, r), G)
  BY ReleasedOwned
<1>2. p \in G \/ p = Null
  BY DEF Loose
<1>3. G \ {p} = H
  <2>1. p # Null => p \notin H
    BY DEF Owned
  <2>2. Null \notin H
    BY OwnedTypes
  <2> QED BY <2>1, <2>2 DEF Loose
<1> HIDE DEF G, p
<1>4. Owned(reset(Released(s, r), u, p), G \ {p})
  BY <1>1, <1>2, ResetOwned
<1> QED BY <1>3, <1>4 DEF move_assign, p

\* Between the operations only the pointer that the caller took from release() is loose.
UniqueInv == raw \in Nat /\ Owned(Now, Loose(raw))

\* Every operation of UniquePtr.h keeps the invariant.
LEMMA UniqueStep ==
  ASSUME UniqueInv, [UniqueNext]_unique_vars
  PROVE  UniqueInv'
<1>0. /\ Now.up = up /\ Now.owned = owned /\ Owned(Now, Loose(raw)) /\ raw \in Nat
      /\ up \in [UniqueVars -> Nat] /\ Null \notin owned.alive /\ Null \notin Loose(raw)
          /\ MaxOwned \in Nat
  <2>1. Now.up = up /\ Now.owned = owned /\ Owned(Now, Loose(raw)) /\ raw \in Nat
    BY DEF Now, UniqueInv
  <2> QED BY <2>1, OwnedTypes, Zenon DEF Owned
<1>1. ASSUME NEW s, Set(s), raw' \in Nat, Owned(s, Loose(raw'))
      PROVE  UniqueInv'
  <2>1. Now' = s
    BY <1>1, Zenon DEF Owned, UniqueStates, Set, Now
  <2>2. Owned(Now', Loose(raw'))
    BY <1>1, <2>1
  <2> QED BY <1>1, <2>2, Zenon DEF UniqueInv, Owned, Loose
<1>2. ASSUME NEW u \in UniqueVars, make_unique(u) PROVE UniqueInv'
  <2>1. PICK p \in (1..MaxOwned) \ owned.alive :
          Set(reset([Now EXCEPT !.owned.alive = @ \cup {p}], u, p)) /\ raw' = raw
    BY <1>2, Zenon DEF make_unique
  <2> DEFINE s == [Now EXCEPT !.owned.alive = @ \cup {p}]
             H == Loose(raw) \cup {p}
  <2>2. Owned(s, H)
    <3>1. /\ s.up = up /\ s.owned.alive = owned.alive \cup {p}
          /\ s \in UniqueStates
      <4>1. owned \in Objects /\ owned.alive \subseteq 1..MaxOwned
        BY <1>0, OwnedTypes
      <4>2. s = [up |-> up, owned |-> [owned EXCEPT !.alive = owned.alive \cup {p}]]
        BY <4>1 DEF Now, Objects
      <4>3. /\ [owned EXCEPT !.alive = owned.alive \cup {p}] \in Objects
            /\ [owned EXCEPT !.alive = owned.alive \cup {p}].alive = owned.alive \cup {p}
        BY <4>1, Zenon DEF Objects
      <4> QED BY <1>0, <4>2, <4>3, Zenon DEF UniqueStates
    <3> HIDE DEF s
    <3>2. p \notin owned.alive /\ Loose(raw) \subseteq owned.alive
      BY <1>0 DEF Owned
    <3>3. \A v \in UniqueVars : up[v] # Null => up[v] \in owned.alive \ Loose(raw)
      BY <1>0 DEF Owned
    <3>4. \A q \in s.owned.alive \ H : \E v \in UniqueVars : s.up[v] = q
      BY <1>0, <3>1 DEF Owned
    <3> QED BY <1>0, <3>1, <3>2, <3>3, <3>4 DEF Owned
  <2>3. H \ {p} = Loose(raw) /\ p \in H
    BY <1>0, <2>1 DEF Owned
  <2> HIDE DEF s, H
  <2>4. Owned(reset(s, u, p), Loose(raw))
    <3>1. Owned(reset(s, u, p), H \ {p})
      BY <2>2, <2>3, ResetOwned
    <3> QED BY <2>3, <3>1
  <2> QED BY <1>0, <1>1, <2>1, <2>4 DEF s
<1>3. ASSUME NEW u \in UniqueVars, release(u) PROVE UniqueInv'
  <2>1. raw = Null /\ raw' = up[u] /\ Set(Released(Now, u))
    BY <1>3 DEF release
  <2>2. Loose(raw) \cup Loose(Now.up[u]) = Loose(raw')
    BY <1>0, <2>1, Zenon DEF Loose
  <2>3. Owned(Released(Now, u), Loose(raw'))
    <3>1. Owned(Released(Now, u), Loose(raw) \cup Loose(Now.up[u]))
      BY <1>0, ReleasedOwned
    <3> QED BY <2>2, <3>1, Zenon
  <2> QED BY <1>0, <1>1, <2>1, <2>3
<1>4. ASSUME NEW u \in UniqueVars, destroy(u) PROVE UniqueInv'
  <2>1. Owned(reset(Now, u, Null), Loose(raw) \ {Null})
    BY <1>0, ResetOwned
  <2>2. Loose(raw) \ {Null} = Loose(raw)
    BY <1>0
  <2> QED BY <1>0, <1>1, <1>4, <2>1, <2>2 DEF destroy
<1>5. ASSUME NEW u \in UniqueVars, NEW p \in 0..MaxOwned, reset_to(u, p) PROVE UniqueInv'
  <2>1. p \in {raw, up[u]} /\ Set(reset(Now, u, p)) /\ raw' = IF p = raw THEN Null ELSE raw
    BY <1>5 DEF reset_to
  <2>2. CASE p = raw
    <3>1. Owned(reset(Now, u, p), Loose(raw) \ {p})
      BY <1>0, <2>2, ResetOwned DEF Loose
    <3>2. raw' = Null /\ Null \in Nat /\ Loose(raw) \ {p} = Loose(raw')
      BY <2>1, <2>2 DEF Loose, Null
    <3> QED BY <1>1, <2>1, <3>1, <3>2
  <2>3. CASE p # raw
    <3>1. reset(Now, u, p) = Now
      BY <1>0, <2>1, <2>3 DEF reset
    <3> QED BY <1>0, <1>1, <2>1, <2>3, <3>1, Zenon
  <2> QED BY <2>2, <2>3
<1>6. ASSUME NEW u \in UniqueVars, NEW r \in UniqueVars, move(u, r) PROVE UniqueInv'
  BY <1>0, <1>1, <1>6, MoveOwned, Zenon DEF move
<1>7. ASSUME NEW u \in UniqueVars, NEW r \in UniqueVars, swap(u, r) PROVE UniqueInv'
  <2> DEFINE p == up[u]
             H == Loose(raw) \cup Loose(p)
             s == move_assign(Released(Now, u), u, r)
  <2>1. Owned(Released(Now, u), H)
    <3>1. Owned(Released(Now, u), Loose(raw) \cup Loose(Now.up[u]))
      BY <1>0, ReleasedOwned
    <3> QED BY <1>0, <3>1
  <2>2. (p \in H \/ p = Null) /\ H \ {p} = Loose(raw)
    <3>1. p # Null => p \notin Loose(raw)
      BY <1>0 DEF Owned
    <3> QED BY <1>0, <3>1 DEF Loose
  <2>3. Set(reset(s, r, p)) /\ raw' = raw
    BY <1>7 DEF swap
  <2> HIDE DEF H, p
  <2>4. Owned(s, H)
    BY <2>1, MoveOwned
  <2> HIDE DEF s
  <2>5. Owned(reset(s, r, p), Loose(raw))
    <3>1. Owned(reset(s, r, p), H \ {p})
      BY <2>2, <2>4, ResetOwned
    <3> QED BY <2>2, <3>1
  <2> QED BY <1>0, <1>1, <2>3, <2>5, Zenon
<1>8. ASSUME NEW u \in UniqueVars, NEW r \in UniqueVars, convert(u, r) PROVE UniqueInv'
  <2>1. Owned(move_assign(Now, r, u), Loose(raw))
    BY <1>0, MoveOwned
  <2>2. Owned(reset(Now, r, Null), Loose(raw) \ {Null}) /\ Loose(raw) \ {Null} = Loose(raw)
    BY <1>0, ResetOwned
  <2> QED BY <1>0, <1>1, <1>8, <2>1, <2>2, Zenon DEF convert
<1>9. CASE UNCHANGED unique_vars
  BY <1>9, Zenon DEF unique_vars, UniqueInv, Owned, Now, Loose
<1> QED BY <1>2, <1>3, <1>4, <1>5, <1>6, <1>7, <1>8, <1>9 DEF UniqueNext

\* include/lib/UniquePtr.h: for every number of pointers and objects, an object lives exactly as long
\* as one pointer owns it, whatever is moved, swapped, released and reset in whatever order.
THEOREM UniquePtrOwns ==
  ASSUME MaxOwned \in Nat
  PROVE  UniqueInit /\ [][UniqueNext]_unique_vars => []SoleOwner
<1>1. UniqueInit => UniqueInv
  <2> SUFFICES ASSUME UniqueInit PROVE UniqueInv
    OBVIOUS
  <2>1. /\ Now.up = [u \in UniqueVars |-> Null]
            /\ Now.owned = [alive |-> {}, deleted_twice |-> FALSE]
        /\ Now \in UniqueStates /\ raw = Null
    BY DEF UniqueInit, Now, UniqueStates, Objects, Null
  <2> QED BY <2>1 DEF UniqueInv, Owned, Loose, Null
<1>2. UniqueInv /\ [UniqueNext]_unique_vars => UniqueInv'
  BY UniqueStep
<1>3. UniqueInv => SoleOwner
  <2> SUFFICES ASSUME UniqueInv, NEW p \in 1..MaxOwned
               PROVE  /\ ~owned.deleted_twice
                      /\ Cardinality({u \in UniqueVars : up[u] = p}) + (IF raw = p THEN 1 ELSE 0)
                           = IF p \in owned.alive THEN 1 ELSE 0
    <3>1. Now.owned = owned /\ Owned(Now, Loose(raw)) => ~owned.deleted_twice
      BY OwnedTypes
    <3> QED BY <3>1, Zenon DEF SoleOwner, UniqueInv, Now
  <2> DEFINE U == {u \in UniqueVars : up[u] = p}
  <2>1. /\ Now.up = up /\ Now.owned = owned /\ Owned(Now, Loose(raw)) /\ p # Null
    BY DEF UniqueInv, Now, Null
  <2>2. \A u, v \in U : u = v
    BY <2>1 DEF Owned
  <2>3. U # {} <=> p \in owned.alive \ Loose(raw)
    BY <2>1 DEF Owned
  <2>4. Cardinality(U) = IF U = {} THEN 0 ELSE 1
    <3>1. CASE U = {}
      BY <3>1, FS_EmptySet
    <3>2. CASE U # {}
      <4>1. PICK u : U = {u}
        BY <2>2, <3>2
      <4> QED BY <3>2, <4>1, FS_Singleton
    <3> QED BY <3>1, <3>2
  <2>5. raw = p => p \in owned.alive /\ p \in Loose(raw)
    BY <2>1 DEF Owned, Loose
  <2>6. p \in Loose(raw) => raw = p
    BY DEF Loose
  <2>7. ~owned.deleted_twice
    BY <2>1, OwnedTypes
  <2> HIDE DEF U
  <2>8. Cardinality(U) + (IF raw = p THEN 1 ELSE 0) = IF p \in owned.alive THEN 1 ELSE 0
    BY <2>3, <2>4, <2>5, <2>6
  <2> QED BY <2>7, <2>8 DEF U
<1> QED BY <1>1, <1>2, <1>3, PTL
=============================================================================
