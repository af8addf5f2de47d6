------------------------------ MODULE SpiMaster ------------------------------
(***************************************************************************)
(* Transfers on the SPI bus: the driver wisbone::Spi, in its two ways of   *)
(* use, the whole transfers of embedded_hal and the frame by frame ones of *)
(* try_start_rw_block and its companions, and the hard core under it.      *)
(*                                                                         *)
(* The answer to the k-th frame of a call is k, so that a byte too old or  *)
(* too new is told from the right one; 0 is what is left from before.      *)
(***************************************************************************)
EXTENDS HalCall, Integers, Sequences

CONSTANTS
  Bytes,       \* what a frame carries
  Buffers,     \* what programs write: sequences of bytes
  ReadLengths, \* how much they read
  Modes,       \* polarity, phase and order of bits
  dummy_byte

VARIABLES
  control2, shift_byte, tip, rrdy, rx_data, \* the core
  in_progress,                              \* of the driver
  whole, to_write, read_len, was_read, \* the call: of embedded_hal, its buffers
  sent                          \* history: frames on the bus during the call

spi_core  == <<control2, shift_byte, tip, rrdy, rx_data, sent>>
spi_frame == <<whole, to_write, read_len>>
spi_vars  == <<spi_core, in_progress, spi_frame, was_read>>
svars     == <<call_vars, spi_vars>>

No == "none"

ASSUME SpiAssumption ==
  /\ Buffers \subseteq Seq(Bytes) /\ dummy_byte \in Bytes /\ No \notin Bytes
  /\ ReadLengths \subseteq Nat /\ Modes # {}

-----------------------------------------------------------------------------
(***************************************************************************)
(* The core.  Writing a control register resets it and keeps the others.   *)
(***************************************************************************)
SpiReset ==
  /\ shift_byte' = No /\ tip' = FALSE /\ rrdy' = FALSE /\ rx_data' = 0
  /\ UNCHANGED sent

Control2(c) == control2' = c /\ SpiReset

trdy == shift_byte = No

TxData(byte) ==
  /\ shift_byte' = byte /\ tip' = TRUE
  /\ UNCHANGED <<control2, rrdy, rx_data, sent>>

RxData ==
  /\ rrdy' = FALSE /\ rx_data' = 0 /\ UNCHANGED <<control2, shift_byte, tip, sent>>

\* A frame is sent to the selected slave, and answered.
FrameShifted ==
  /\ shift_byte # No /\ control2.mcsh
  /\ shift_byte' = No /\ sent' = Append(sent, shift_byte)
  /\ rrdy' = TRUE /\ rx_data' = Len(sent')
  /\ UNCHANGED <<control2, tip>>

\* The time after the last edge of the clock.
Trailed ==
  /\ tip /\ shift_byte = No
  /\ tip' = FALSE /\ UNCHANGED <<control2, shift_byte, rrdy, rx_data, sent>>

\* As a slave it takes what another master sends.
SlaveReceives ==
  /\ ~control2.mstr /\ ~rrdy
  /\ rrdy' = TRUE /\ UNCHANGED <<control2, shift_byte, tip, rx_data, sent>>

SpiCore ==
  /\ FrameShifted \/ Trailed \/ SlaveReceives
  /\ UNCHANGED <<call_vars, in_progress, spi_frame, was_read>>

-----------------------------------------------------------------------------
(***************************************************************************)
(* The driver.                                                             *)
(***************************************************************************)
Select(on) == Control2([control2 EXCEPT !.mcsh = on])

StartRwBlock ==
  /\ UNCHANGED <<spi_frame, was_read>>
  /\ \/ At("start_rw_block", 1) /\ Select(TRUE) /\ Continue /\ UNCHANGED in_progress
     \/ At("start_rw_block", 2) /\ trdy /\ in_progress' = TRUE
        /\ Begin("rw_byte_block") /\ UNCHANGED spi_core

\* How many frames have been exchanged, and what there is to exchange.
Done       == Len(was_read)
WriteByte  == IF Done < Len(to_write) THEN to_write[Done + 1] ELSE dummy_byte
FrameCount == IF Len(to_write) > read_len THEN Len(to_write) ELSE read_len

AfterFrame ==
  IF Done + 1 < FrameCount THEN Begin("rw_byte_block")
  ELSE IF whole THEN Begin("finish_rw_block") ELSE Return

\* Mutant: the answer is taken without waiting for it.
MutNoWait ==
  /\ call = "rw_byte_block" /\ UNCHANGED <<spi_frame, in_progress>>
  /\ \/ step = 1 /\ TxData(WriteByte) /\ Continue /\ UNCHANGED was_read
     \/ step = 2 /\ trdy /\ RxData /\ was_read' = Append(was_read, rx_data) /\ AfterFrame
     \/ step = 2 /\ ~trdy /\ UNCHANGED spi_core /\ was_read' = Append(was_read, 0) /\ AfterFrame
RwByteBlock ==
  /\ call = "rw_byte_block" /\ UNCHANGED <<spi_frame, in_progress>>
  /\ \/ step = 1 /\ TxData(WriteByte) /\ Continue /\ UNCHANGED was_read
     \/ step = 2 /\ rrdy /\ RxData /\ was_read' = Append(was_read, rx_data) /\ AfterFrame

FinishRwBlock ==
  /\ UNCHANGED <<spi_frame, was_read>>
  /\ \/ At("finish_rw_block", 1) /\ Select(FALSE) /\ Continue /\ UNCHANGED in_progress
     \/ At("finish_rw_block", 2) /\ ~tip /\ in_progress' = FALSE /\ Return
        /\ UNCHANGED spi_core

Flush ==
  /\ At("flush", 1) /\ ~tip /\ Return /\ UNCHANGED spi_vars

\* A configuration call is a single write.
Configuration ==
  /\ At("set_mode", 1) /\ \E m \in Modes : Control2([control2 EXCEPT !.mode = m])
  /\ UNCHANGED in_progress

OtherRegister ==
  /\ call \in {"set_control0", "set_prescale", "set_cs"} /\ step = 1
  /\ SpiReset /\ UNCHANGED <<control2, in_progress>>

ChangeRole ==
  /\ call \in {"into_master", "into_slave"} /\ step = 1
  /\ Control2([control2 EXCEPT !.mstr = call = "into_master", !.mcsh = FALSE])
  /\ in_progress' = FALSE

Configure ==
  (Configuration \/ OtherRegister \/ ChangeRole) /\ Return /\ UNCHANGED <<spi_frame, was_read>>

Call(c, of_hal, w, r) ==
  /\ Begin(c) /\ whole' = of_hal /\ to_write' = w /\ read_len' = r /\ was_read' = <<>>
  /\ sent' = <<>>
  /\ UNCHANGED <<control2, shift_byte, tip, rrdy, rx_data, in_progress>>

\* The type of the driver says whether it is master or slave.  read, write,
\* transfer and transfer_in_place differ in their buffers; without any frame
\* to exchange nothing is done.  A sequence out of order is refused.
CallSpi ==
  /\ program = "spi" /\ Resting
  /\ \/ /\ control2.mstr
        /\ \/ \E w \in Buffers \cup {<<>>}, r \in ReadLengths :
                (w # <<>> \/ r > 0) /\ Call("start_rw_block", TRUE, w, r)
           \/ \E w \in Buffers :
                Len(w) = 1 /\ Call(IF in_progress THEN "rw_byte_block" ELSE "start_rw_block",
                                   FALSE, w, 1)
           \/ in_progress /\ Call("finish_rw_block", FALSE, <<>>, 0)
           \/ Call("into_slave", FALSE, <<>>, 0) \/ Call("flush", FALSE, <<>>, 0)
     \/ ~control2.mstr /\ Call("into_master", FALSE, <<>>, 0)
     \/ \E c \in {"set_mode", "set_control0", "set_prescale", "set_cs"} :
          Call(c, FALSE, <<>>, 0)

SpiRest ==
  /\ control2 = [mstr |-> TRUE, mcsh |-> FALSE, mode |-> CHOOSE m \in Modes : TRUE]
  /\ shift_byte = No /\ tip = FALSE /\ rrdy = FALSE /\ rx_data = 0
  /\ in_progress = FALSE /\ whole = FALSE /\ to_write = <<>> /\ read_len = 0
  /\ was_read = <<>> /\ sent = <<>>

SpiInit == program = "spi" /\ call = "none" /\ step = 0 /\ SpiRest

SpiDriver == StartRwBlock \/ RwByteBlock \/ FinishRwBlock \/ Flush \/ Configure
SpiPoll   == ~Resting /\ program = "spi" /\ UNCHANGED svars
SpiNext   == SpiDriver \/ SpiPoll \/ SpiCore \/ CallSpi

SpiSpec == SpiInit /\ [][SpiNext]_svars

-----------------------------------------------------------------------------
\* When a call returns, the slave has been sent exactly the bytes to write,
\* filled up with the dummy byte, and each byte read is the answer to the
\* frame of its place, also after the core has been a slave in between; and
\* the slave is selected afterwards just if the driver thinks so, which after
\* a whole transfer it does not.
TransferExact ==
  program = "spi" /\ Resting =>
    /\ sent = [k \in 1 .. FrameCount |-> IF k <= Len(to_write) THEN to_write[k] ELSE dummy_byte]
    /\ was_read = [k \in 1 .. FrameCount |-> k]
    /\ in_progress = control2.mcsh
    /\ whole => ~in_progress
=============================================================================
