------------------------------ MODULE I2cMaster ------------------------------
(***************************************************************************)
(* A transaction on the I2C bus: the driver wisbone::I2c<Master>, and the  *)
(* hard core that it commands, as the driver knows it.                     *)
(*                                                                         *)
(* The core holds two frames, the one on the bus and the one behind it: a  *)
(* byte is handed over while its predecessor is being sent, and the        *)
(* acknowledgement that is then read is that of the predecessor.           *)
(***************************************************************************)
EXTENDS HalCall, Sequences

CONSTANTS
  Transactions, \* the sequences of operations that programs ask for
  Nacks         \* the acknowledgements that slaves give: subset of BOOLEAN

VARIABLES
  operations, last_op, left, err,               \* locals of transaction
  shift, queued, reading, stop,                 \* the core: frames, command
  trrdy, srw, rarc, busy,                       \* ... and its status
  nacks, held  \* history: refused frames; a slave holds the data line

i2c_locals == <<operations, last_op, left, err>>
i2c_frames == <<shift, queued, reading, stop, nacks, held>>
i2c_status == <<trrdy, srw, rarc, busy>>
i2c_vars   == <<i2c_locals, i2c_frames, i2c_status>>
ivars      == <<call_vars, i2c_vars>>

\* The operation under way, and what follows it.
op     == Head(operations)
IsLast == Len(operations) = 1
ReadFollows == Len(operations) > 1 /\ operations[2].kind = "Read"

\* A write between two reads transfers something: else the second read finds the
\* core's flag of the first one, and what the core does then is not known.
NoEmptyWriteBetween(ops) ==
  \A i \in 1 .. Len(ops) - 2 :
    ops[i].kind = "Read" /\ ops[i + 1].kind = "Write" => ops[i + 1].len > 0

ASSUME I2cAssumption ==
  /\ Nacks \subseteq BOOLEAN
  /\ \A t \in Transactions :
       t \in Seq([kind : {"Read", "Write"}, len : Nat]) /\ NoEmptyWriteBetween(t)

Addresses == {"address_write", "address_read"}
Frames    == Addresses \cup {"data", "read"}

-----------------------------------------------------------------------------
(***************************************************************************)
(* The core's commands.                                                    *)
(***************************************************************************)
\* A byte in tx_data and command 0x94 or 0x14.
Transmit(frame) ==
  /\ IF shift = "none"
     THEN shift' = frame /\ trrdy' = TRUE /\ UNCHANGED queued
     ELSE queued' = frame /\ trrdy' = FALSE /\ UNCHANGED shift
  /\ busy' = TRUE /\ reading' = "no" /\ UNCHANGED <<stop, srw, rarc, nacks, held>>

\* Command 0x24: frames are received one after the other from now on.
Receive ==
  /\ reading' = "more" /\ shift' = "read" /\ trrdy' = FALSE
  /\ UNCHANGED <<queued, stop, srw, rarc, busy, nacks, held>>

\* The frame under way is the last one and is refused.
ReceiveLast(then_stop) ==
  /\ reading' = "last" /\ stop' = then_stop
  /\ UNCHANGED <<shift, queued, i2c_status, nacks, held>>

\* Command 0x44.
Stop ==
  /\ stop' = TRUE /\ reading' = "no"
  /\ UNCHANGED <<shift, queued, i2c_status, nacks, held>>

\* Command 0x04 ends the one before; a condition that was asked for is made.
NoCommand ==
  /\ reading' = "no" /\ UNCHANGED <<shift, queued, stop, i2c_status, nacks, held>>

\* The control register: whatever the core was doing, its status is cleared.
Enable ==
  /\ srw' = FALSE /\ rarc' = FALSE /\ trrdy' = FALSE
  /\ UNCHANGED <<i2c_frames, busy>>

\* A frame ends.  The driver's delays are within a frame: none ends between
\* the end of one of its waits and the beginning of the next one.
Waiting ==
  \/ Resting \/ call \in {"reset", "set_prescale"}
  \/ (At("transaction", 2) \/ At("fail", 2)) /\ busy
  \/ At("start_read", 2) /\ ~srw
  \/ call \in {"start_write", "first_block", "write_block", "finish_read_block"}
     /\ step = 2 /\ ~trrdy
  \/ call = "read_block" /\ ~trrdy /\ (left > 1 \/ ReadFollows)

FrameSent(nack) ==
  /\ shift \in Addresses \cup {"data"}
  /\ rarc' = nack
  /\ srw' = IF shift = "data" THEN srw ELSE shift = "address_read"
  /\ shift' = queued /\ queued' = "none" /\ trrdy' = TRUE
  /\ nacks' = IF nack /\ (shift = "address_read" \/ queued = "data")
              THEN nacks \cup {shift} ELSE nacks
  /\ held' = (shift = "address_read" /\ ~nack)
  /\ UNCHANGED <<reading, stop, busy>>

FrameReceived ==
  /\ shift = "read"
  /\ trrdy' = TRUE
  /\ shift' = IF reading = "more" THEN "read" ELSE queued
  /\ queued' = IF reading = "more" THEN queued ELSE "none"
  /\ held' = (held /\ reading # "last")
  /\ UNCHANGED <<reading, stop, srw, rarc, busy, nacks>>

\* A slave that still sends does not let the line go for the condition.
StopSent ==
  /\ shift = "none" /\ stop /\ ~held
  /\ stop' = FALSE /\ busy' = FALSE
  /\ UNCHANGED <<shift, queued, reading, trrdy, srw, rarc, nacks, held>>

I2cCore ==
  /\ Waiting /\ UNCHANGED <<call_vars, i2c_locals>>
  /\ (\E nack \in Nacks : FrameSent(nack)) \/ FrameReceived \/ StopSent

Quiet == UNCHANGED <<i2c_frames, i2c_status>>

-----------------------------------------------------------------------------
(***************************************************************************)
(* The driver.                                                             *)
(***************************************************************************)
\* embedded_hal's transaction: the core is enabled and the bus awaited.
StartTransaction ==
  /\ At("transaction", 1) /\ Enable /\ Continue /\ UNCHANGED i2c_locals

AwaitIdle ==
  /\ At("transaction", 2) /\ ~busy
  /\ Continue /\ UNCHANGED i2c_locals /\ Quiet

NextOperation ==
  /\ operations' = Tail(operations) /\ Goto("transaction", 3)
  /\ UNCHANGED <<last_op, left, err>>

\* 'op_loop: a phase begins with the address.
OpLoop ==
  /\ At("transaction", 3) /\ operations # <<>> /\ Quiet
  /\ left' = op.len /\ last_op' = op.kind
  /\ IF last_op = op.kind
     THEN Begin(IF op.kind = "Read" THEN "read_block" ELSE "write_block")
     ELSE Begin(IF op.kind = "Read" THEN "start_read" ELSE "start_write")
  /\ UNCHANGED <<operations, err>>

Fail(kind) == err' = kind /\ Begin("fail") /\ UNCHANGED <<operations, last_op, left>>

StartWrite ==
  /\ UNCHANGED i2c_locals
  /\ \/ At("start_write", 1) /\ Transmit("address_write") /\ Continue
     \/ At("start_write", 2) /\ trrdy /\ Begin("first_block") /\ Quiet

Blocks == {"first_block", "write_block"}

\* The acknowledgement seen is that of the frame before: of the address, if
\* this is the first byte.  Mutant: it is not looked at.
MutIgnoreNack ==
  /\ call \in Blocks
  /\ \/ step = 1 /\ left > 0 /\ Transmit("data") /\ Continue /\ UNCHANGED i2c_locals
     \/ /\ step = 2 /\ trrdy /\ Quiet /\ left' = left - 1
        /\ Begin("write_block") /\ UNCHANGED <<operations, last_op, err>>
WriteBlock ==
  /\ call \in Blocks
  /\ \/ step = 1 /\ left > 0 /\ Transmit("data") /\ Continue /\ UNCHANGED i2c_locals
     \/ step = 2 /\ trrdy /\ rarc /\ Quiet
        /\ Fail(IF call = "first_block" THEN "Address" ELSE "Data")
     \/ /\ step = 2 /\ trrdy /\ ~rarc /\ Quiet /\ left' = left - 1
        /\ Begin("write_block") /\ UNCHANGED <<operations, last_op, err>>

EndWrite ==
  /\ call \in Blocks /\ step = 1 /\ left = 0 /\ NextOperation
  /\ IF IsLast THEN Stop ELSE Quiet

\* The command to read is given before the acknowledgement is looked at.
StartRead ==
  \/ At("start_read", 1) /\ Transmit("address_read") /\ Continue /\ UNCHANGED i2c_locals
  \/ At("start_read", 2) /\ srw /\ Receive /\ Continue /\ UNCHANGED i2c_locals
  \/ /\ At("start_read", 3) /\ Quiet
     /\ IF rarc THEN Fail("Address") ELSE Begin("read_block") /\ UNCHANGED i2c_locals

TakeByte == trrdy /\ trrdy' = FALSE /\ UNCHANGED <<i2c_frames, srw, rarc, busy>>

\* All bytes of the buffer but the last one, and the last one too if another
\* read goes on.
ReadBlock ==
  /\ call = "read_block"
  /\ \/ /\ left > 1 /\ TakeByte
        /\ left' = left - 1 /\ Wait /\ UNCHANGED <<operations, last_op, err>>
     \/ /\ left <= 1 /\ ReadFollows /\ TakeByte /\ NextOperation
     \/ /\ left <= 1 /\ ~ReadFollows
        /\ Begin("finish_read_block") /\ UNCHANGED i2c_locals /\ Quiet

\* Mutant: the last byte is acknowledged like the others.
MutAckLast ==
  \/ At("finish_read_block", 1) /\ stop' = IsLast /\ reading' = "no"
     /\ UNCHANGED <<shift, queued, i2c_status, nacks, held>>
     /\ Continue /\ UNCHANGED i2c_locals
  \/ At("finish_read_block", 2) /\ TakeByte /\ NextOperation
FinishReadBlock ==
  \/ At("finish_read_block", 1) /\ ReceiveLast(IsLast) /\ Continue /\ UNCHANGED i2c_locals
  \/ /\ At("finish_read_block", 2) /\ TakeByte
     /\ IF IsLast THEN Continue /\ UNCHANGED i2c_locals ELSE NextOperation
  \/ At("finish_read_block", 3) /\ NoCommand /\ NextOperation

Abort ==
  \/ At("fail", 1) /\ Stop /\ Continue /\ UNCHANGED i2c_locals
  \/ At("fail", 2) /\ ~busy /\ Return /\ Quiet /\ UNCHANGED i2c_locals

\* The core is disabled while the last frame and the stop are still on their
\* way; it is taken to complete them.
EndTransaction ==
  At("transaction", 3) /\ operations = <<>> /\ Return /\ Quiet /\ UNCHANGED i2c_locals

\* reset disables the core and enables it, set_prescale resets it too.
Reinitialise ==
  /\ UNCHANGED i2c_locals
  /\ \/ At("reset", 1) /\ Enable /\ Continue
     \/ At("reset", 2) /\ Enable /\ Return
     \/ At("set_prescale", 1) /\ Enable /\ Return

CallI2c ==
  /\ program = "i2c" /\ Resting
  /\ operations' \in Transactions
  /\ last_op' = "Null" /\ left' = 0 /\ err' = "Ok" /\ nacks' = {}
  /\ Begin("transaction")
  /\ UNCHANGED <<shift, queued, reading, stop, held, i2c_status>>

ConfigureI2c ==
  /\ program = "i2c" /\ Resting
  /\ Begin("reset") \/ Begin("set_prescale")
  /\ Quiet /\ UNCHANGED i2c_locals

I2cRest ==
  /\ operations = <<>> /\ last_op = "Null" /\ left = 0 /\ err = "Ok"
  /\ shift = "none" /\ queued = "none" /\ reading = "no" /\ stop = FALSE
  /\ trrdy = FALSE /\ srw = FALSE /\ rarc = FALSE /\ busy = FALSE
  /\ nacks = {} /\ held = FALSE

I2cInit == program = "i2c" /\ call = "none" /\ step = 0 /\ I2cRest

I2cDriver ==
  \/ StartTransaction \/ AwaitIdle \/ OpLoop \/ StartWrite \/ WriteBlock \/ EndWrite
  \/ StartRead \/ ReadBlock \/ FinishReadBlock \/ Abort \/ EndTransaction
  \/ Reinitialise

\* A loop reads the status once more.
I2cPoll == Waiting /\ ~Resting /\ UNCHANGED ivars

I2cNext == I2cDriver \/ I2cPoll \/ I2cCore \/ CallI2c \/ ConfigureI2c

I2cSpec == I2cInit /\ [][I2cNext]_ivars

\* The hart goes on, and so does the clock of the bus.
I2cFairness == WF_ivars(I2cDriver) /\ WF_ivars(I2cCore)

-----------------------------------------------------------------------------
\* What a transaction reports is what the slaves answered, although each
\* acknowledgement is read a frame late: a refused frame that another frame
\* followed is an error, and an error is reported only for one.  The last
\* frame of a write phase is exempt, whose acknowledgement nobody reads.
AckRespected ==
  program = "i2c" /\ Resting =>
    /\ err = "Ok" => nacks = {}
    /\ err = "Address" => nacks \in {{"address_read"}, {"address_write"}}
    /\ err = "Data" => nacks # {}

\* Every transaction comes to an end and lets the bus go, after an error, after
\* a read, and after a write that returns before its last byte is sent.
BusReleased == []<>(program # "i2c" \/ Resting) /\ []<>(program # "i2c" \/ ~busy)
=============================================================================
