---------------------------- MODULE SerialProofs ----------------------------
(***************************************************************************)
(* Proofs about the drivers of the serial lines, SpiMaster, Uart and       *)
(* I2cMaster, for buffers and transactions of any length, whatever the     *)
(* device does between two accesses of the driver.                         *)
(***************************************************************************)
EXTENDS I2cMaster, SpiMaster, Uart, SequenceTheorems, TLAPS

-----------------------------------------------------------------------------
(***************************************************************************)
(* SPI.                                                                    *)
(***************************************************************************)
\* The k-th byte of a call, on the way to the slave.
Frame(k) == IF k <= Len(to_write) THEN to_write[k] ELSE dummy_byte

SpiConfigs == {"set_mode", "set_control0", "set_prescale", "set_cs", "into_master", "into_slave"}
SpiBlocks  == {"start_rw_block", "rw_byte_block", "finish_rw_block"}

SpiTypeOK ==
  /\ control2 \in [mstr : BOOLEAN, mcsh : BOOLEAN, mode : Modes]
  /\ shift_byte \in Bytes \cup {No} /\ tip \in BOOLEAN /\ rrdy \in BOOLEAN /\ rx_data \in Nat
  /\ in_progress \in BOOLEAN /\ whole \in BOOLEAN
  /\ to_write \in Seq(Bytes) /\ read_len \in Nat
  /\ was_read \in Seq(Nat) /\ sent \in Seq(Bytes)

\* Where a call can be.
SpiCalls ==
  \/ Resting
  \/ call \in SpiBlocks /\ step \in {1, 2}
  \/ call \in SpiConfigs \cup {"flush"} /\ step = 1

\* The frames on the bus are those of the call, and the bytes read their answers.
SpiFrames ==
  /\ \A k \in 1 .. Len(sent) : sent[k] = Frame(k)
  /\ \A k \in 1 .. Len(was_read) : was_read[k] = k

\* How far the call has come.  Only while a frame is exchanged there is one in
\* the shift register, or, when it has gone, its answer to read.
SpiProgress ==
  /\ call = "start_rw_block" => Done = 0 /\ Len(sent) = 0 /\ FrameCount > 0
  /\ call = "rw_byte_block" => Done < FrameCount
  /\ call \notin {"start_rw_block", "rw_byte_block"} => Done = FrameCount
  /\ ~(At("rw_byte_block", 2) /\ shift_byte = No) => Len(sent) = Done
  /\ IF At("rw_byte_block", 2)
     THEN IF shift_byte = No THEN rrdy /\ rx_data = Done + 1 /\ Len(sent) = Done + 1
          ELSE ~rrdy /\ shift_byte = Frame(Done + 1)
     ELSE shift_byte = No /\ (control2.mstr => ~rrdy)
  /\ call \in SpiBlocks => control2.mstr

\* The slave is selected just if the driver thinks so, but for the two calls
\* that select it and let it go, which write the register first.
SpiSelected ==
  /\ ~(At("start_rw_block", 2) \/ At("finish_rw_block", 2)) => in_progress = control2.mcsh
  /\ At("start_rw_block", 2) => control2.mcsh
  /\ At("finish_rw_block", 2) => ~control2.mcsh
  /\ call = "rw_byte_block" => in_progress
  /\ whole => IF Resting THEN ~in_progress ELSE call \in SpiBlocks
  /\ call = "start_rw_block" /\ ~whole => FrameCount = 1

SpiInv ==
  /\ program = "spi"
  /\ SpiTypeOK /\ SpiCalls /\ SpiFrames /\ SpiProgress /\ SpiSelected

LEMMA SpiTypes ==
  ASSUME SpiTypeOK
  PROVE  /\ Done \in Nat /\ FrameCount \in Nat /\ Len(sent) \in Nat /\ Len(to_write) \in Nat
         /\ \A k \in Nat \ {0} : Frame(k) \in Bytes /\ Frame(k) # No
         /\ Done < FrameCount => WriteByte = Frame(Done + 1)
<1>1. Done \in Nat /\ FrameCount \in Nat /\ Len(sent) \in Nat /\ Len(to_write) \in Nat
  BY LenProperties DEF SpiTypeOK, Done, FrameCount
<1>2. \A k \in Nat \ {0} : Frame(k) \in Bytes /\ Frame(k) # No
  BY <1>1, ElementOfSeq, SpiAssumption DEF SpiTypeOK, Frame
<1>3. Done < FrameCount => WriteByte = Frame(Done + 1)
  BY <1>1 DEF WriteByte, Frame
<1> QED  BY <1>1, <1>2, <1>3

\* Steps of the driver that leave the buffers and the history alone.
LEMMA SameCall ==
  ASSUME SpiInv, UNCHANGED <<to_write, read_len, sent, was_read>>
  PROVE  SpiFrames' /\ Done' = Done /\ FrameCount' = FrameCount /\ \A k : Frame(k)' = Frame(k)
BY DEF SpiInv, SpiFrames, Frame, Done, FrameCount

LEMMA StartStep == ASSUME SpiInv, StartRwBlock PROVE SpiInv'
<1>1. /\ SpiTypeOK /\ SpiCalls /\ SpiProgress /\ SpiSelected /\ program' = "spi"
      /\ UNCHANGED <<whole, to_write, read_len, was_read, sent>>
  BY DEF SpiInv, StartRwBlock, Select, Control2, SpiReset, Continue, Begin, Goto, spi_frame, spi_core
<1>2. SpiFrames' /\ Done' = Done /\ FrameCount' = FrameCount
  BY <1>1, SameCall
<1>3. CASE At("start_rw_block", 1)
  <2>1. /\ call' = "start_rw_block" /\ step' = 2 /\ in_progress' = in_progress
        /\ control2' = [control2 EXCEPT !.mcsh = TRUE]
        /\ shift_byte' = No /\ tip' = FALSE /\ rrdy' = FALSE /\ rx_data' = 0
    BY <1>3 DEF StartRwBlock, Select, Control2, SpiReset, Continue, Goto, At
  <2>2. SpiTypeOK'
    BY <1>1, <2>1 DEF SpiTypeOK
  <2>3. SpiProgress'
    BY <1>1, <1>2, <1>3, <2>1 DEF SpiProgress, SpiTypeOK, At, SpiBlocks
  <2>4. SpiSelected'
    BY <1>1, <1>2, <1>3, <2>1 DEF SpiSelected, SpiTypeOK, At, SpiBlocks, Resting
  <2> QED  BY <1>1, <1>2, <2>1, <2>2, <2>3, <2>4 DEF SpiInv, SpiCalls, SpiBlocks
<1>4. CASE At("start_rw_block", 2)
  <2>1. /\ call' = "rw_byte_block" /\ step' = 1 /\ in_progress' = TRUE
        /\ UNCHANGED <<control2, shift_byte, tip, rrdy, rx_data>>
    BY <1>4 DEF StartRwBlock, Begin, Goto, spi_core, At
  <2>2. SpiTypeOK'
    BY <1>1, <2>1 DEF SpiTypeOK
  <2>3. SpiProgress'
    BY <1>1, <1>2, <1>4, <2>1 DEF SpiProgress, SpiTypeOK, At, SpiBlocks
  <2>4. SpiSelected'
    BY <1>1, <1>2, <1>4, <2>1 DEF SpiSelected, SpiTypeOK, At, SpiBlocks, Resting
  <2> QED  BY <1>1, <1>2, <2>1, <2>2, <2>3, <2>4 DEF SpiInv, SpiCalls, SpiBlocks
<1> QED  BY <1>3, <1>4 DEF StartRwBlock

LEMMA RwStep == ASSUME SpiInv, RwByteBlock PROVE SpiInv'
<1>1. /\ SpiTypeOK /\ SpiCalls /\ SpiFrames /\ SpiProgress /\ SpiSelected
      /\ program' = "spi" /\ call = "rw_byte_block"
      /\ UNCHANGED <<whole, to_write, read_len, in_progress, control2, sent>>
  BY DEF SpiInv, RwByteBlock, AfterFrame, TxData, RxData, Continue, Begin, Return, Goto, spi_frame
<1>2. \A k : Frame(k)' = Frame(k)
  BY <1>1 DEF Frame
<1>3. FrameCount' = FrameCount /\ Done \in Nat /\ FrameCount \in Nat /\ Done < FrameCount
  BY <1>1, SpiTypes DEF FrameCount, SpiProgress
<1>4. CASE step = 1
  <2>1. /\ call' = "rw_byte_block" /\ step' = 2 /\ was_read' = was_read
        /\ shift_byte' = Frame(Done + 1) /\ tip' = TRUE /\ UNCHANGED <<rrdy, rx_data>>
    BY <1>1, <1>3, <1>4, SpiTypes DEF RwByteBlock, TxData, Continue, Goto
  <2>2. SpiFrames' /\ Done' = Done
    BY <1>1, <1>3, <2>1, SameCall DEF SpiInv
  <2>3. Frame(Done + 1) \in Bytes /\ Frame(Done + 1) # No
    BY <1>1, <1>3, SpiTypes
  <2>4. SpiTypeOK'
    BY <1>1, <2>1, <2>3 DEF SpiTypeOK
  <2>5. SpiProgress'
    BY <1>1, <1>2, <1>3, <1>4, <2>1, <2>2, <2>3 DEF SpiProgress, SpiTypeOK, At, SpiBlocks
  <2>6. SpiSelected'
    BY <1>1, <1>3, <1>4, <2>1 DEF SpiSelected, SpiTypeOK, At, SpiBlocks, Resting
  <2> QED  BY <1>1, <2>1, <2>2, <2>4, <2>5, <2>6 DEF SpiInv, SpiCalls, SpiBlocks
<1>5. CASE step = 2 /\ rrdy
  <2>1. /\ rrdy' = FALSE /\ rx_data' = 0 /\ was_read' = Append(was_read, rx_data) /\ AfterFrame
        /\ UNCHANGED <<shift_byte, tip>>
    BY <1>1, <1>5 DEF RwByteBlock, RxData
  <2>2. shift_byte = No /\ rx_data = Done + 1 /\ Len(sent) = Done + 1
    BY <1>1, <1>5 DEF SpiProgress, At
  <2>3. /\ was_read' \in Seq(Nat) /\ Done' = Done + 1
        /\ \A k \in 1 .. Done : was_read'[k] = was_read[k]
        /\ was_read'[Done + 1] = Done + 1
    BY <1>1, <1>3, <2>1, <2>2, AppendProperties DEF SpiTypeOK, Done
  <2>4. SpiTypeOK'
    BY <1>1, <2>1, <2>3 DEF SpiTypeOK
  <2>5. SpiFrames'
    <3>1. \A k \in 1 .. Len(was_read') : was_read'[k] = k
      BY <1>1, <1>3, <2>3 DEF SpiFrames, Done
    <3> QED  BY <1>1, <1>2, <3>1 DEF SpiFrames
  <2>6. CASE Done + 1 < FrameCount
    <3>1. call' = "rw_byte_block" /\ step' = 1
      BY <2>1, <2>6 DEF AfterFrame, Begin, Goto
    <3>2. SpiProgress'
      BY <1>1, <1>3, <2>1, <2>2, <2>3, <2>6, <3>1 DEF SpiProgress, At, SpiBlocks
    <3>3. SpiSelected'
      BY <1>1, <1>3, <1>5, <2>1, <3>1 DEF SpiSelected, At, SpiBlocks, Resting
    <3> QED  BY <1>1, <2>4, <2>5, <3>1, <3>2, <3>3 DEF SpiInv, SpiCalls, SpiBlocks
  <2>7. CASE ~(Done + 1 < FrameCount) /\ whole
    <3>1. call' = "finish_rw_block" /\ step' = 1
      BY <2>1, <2>7 DEF AfterFrame, Begin, Goto
    <3>2. SpiProgress'
      BY <1>1, <1>3, <2>1, <2>2, <2>3, <2>7, <3>1 DEF SpiProgress, At, SpiBlocks
    <3>3. SpiSelected'
      <4>1. in_progress = control2.mcsh
        BY <1>1 DEF SpiSelected, At
      <4> QED  BY <1>1, <3>1, <4>1 DEF SpiSelected, At, SpiBlocks, Resting
    <3> QED  BY <1>1, <2>4, <2>5, <3>1, <3>2, <3>3 DEF SpiInv, SpiCalls, SpiBlocks
  <2>8. CASE ~(Done + 1 < FrameCount) /\ ~whole
    <3>1. call' = "none" /\ step' = 0
      BY <2>1, <2>8 DEF AfterFrame, Return, Goto
    <3>2. SpiProgress'
      BY <1>1, <1>3, <2>1, <2>2, <2>3, <2>8, <3>1 DEF SpiProgress, At, SpiBlocks
    <3>3. SpiSelected'
      BY <1>1, <1>3, <1>5, <2>1, <2>8, <3>1 DEF SpiSelected, At, SpiBlocks, Resting
    <3> QED  BY <1>1, <2>4, <2>5, <3>1, <3>2, <3>3 DEF SpiInv, SpiCalls, Resting
  <2> QED  BY <2>6, <2>7, <2>8
<1> QED  BY <1>4, <1>5 DEF RwByteBlock

LEMMA FinishStep == ASSUME SpiInv, FinishRwBlock PROVE SpiInv'
<1>1. /\ SpiTypeOK /\ SpiCalls /\ SpiProgress /\ SpiSelected /\ program' = "spi"
      /\ UNCHANGED <<whole, to_write, read_len, was_read, sent>>
  BY DEF SpiInv, FinishRwBlock, Select, Control2, SpiReset, Continue, Return, Goto, spi_frame, spi_core
<1>2. SpiFrames' /\ Done' = Done /\ FrameCount' = FrameCount
  BY <1>1, SameCall
<1>3. CASE At("finish_rw_block", 1)
  <2>1. /\ call' = "finish_rw_block" /\ step' = 2 /\ in_progress' = in_progress
        /\ control2' = [control2 EXCEPT !.mcsh = FALSE]
        /\ shift_byte' = No /\ tip' = FALSE /\ rrdy' = FALSE /\ rx_data' = 0
    BY <1>3 DEF FinishRwBlock, Select, Control2, SpiReset, Continue, Goto, At
  <2>2. SpiTypeOK'
    BY <1>1, <2>1 DEF SpiTypeOK
  <2>3. SpiProgress'
    BY <1>1, <1>2, <1>3, <2>1 DEF SpiProgress, SpiTypeOK, At, SpiBlocks
  <2>4. SpiSelected'
    BY <1>1, <1>2, <1>3, <2>1 DEF SpiSelected, SpiTypeOK, At, SpiBlocks, Resting
  <2> QED  BY <1>1, <1>2, <2>1, <2>2, <2>3, <2>4 DEF SpiInv, SpiCalls, SpiBlocks
<1>4. CASE At("finish_rw_block", 2)
  <2>1. /\ call' = "none" /\ step' = 0 /\ in_progress' = FALSE
        /\ UNCHANGED <<control2, shift_byte, tip, rrdy, rx_data>>
    BY <1>4 DEF FinishRwBlock, Return, Goto, spi_core, At
  <2>2. SpiTypeOK'
    BY <1>1, <2>1 DEF SpiTypeOK
  <2>3. SpiProgress'
    BY <1>1, <1>2, <1>4, <2>1 DEF SpiProgress, SpiTypeOK, At, SpiBlocks
  <2>4. SpiSelected'
    BY <1>1, <1>2, <1>4, <2>1 DEF SpiSelected, SpiTypeOK, At, SpiBlocks, Resting
  <2> QED  BY <1>1, <1>2, <2>1, <2>2, <2>3, <2>4 DEF SpiInv, SpiCalls, Resting
<1> QED  BY <1>3, <1>4 DEF FinishRwBlock

\* A call that exchanges no frame is a single access.
LEMMA SingleStep == ASSUME SpiInv, Flush \/ Configure PROVE SpiInv'
<1>1. /\ SpiTypeOK /\ SpiCalls /\ SpiProgress /\ SpiSelected /\ program' = "spi"
      /\ call' = "none" /\ step' = 0
      /\ UNCHANGED <<whole, to_write, read_len, was_read, sent>>
  BY DEF SpiInv, Flush, Configure, Configuration, OtherRegister, ChangeRole, Control2, SpiReset,
         Return, Goto, spi_frame, spi_core, spi_vars
<1>2. SpiFrames' /\ Done' = Done /\ FrameCount' = FrameCount
  BY <1>1, SameCall
<1>3. call \in SpiConfigs \cup {"flush"}
  BY DEF Flush, Configure, Configuration, OtherRegister, ChangeRole, At, SpiConfigs
<1>4. /\ ~whole /\ Done = FrameCount /\ Len(sent) = Done /\ in_progress = control2.mcsh
      /\ shift_byte = No /\ (control2.mstr => ~rrdy)
  BY <1>1, <1>3 DEF SpiConfigs, SpiBlocks, SpiSelected, SpiProgress, At, Resting
<1>5. /\ control2' \in [mstr : BOOLEAN, mcsh : BOOLEAN, mode : Modes]
      /\ in_progress' = control2'.mcsh /\ in_progress' \in BOOLEAN
  BY <1>1, <1>4 DEF SpiTypeOK, Flush, Configure, Configuration, OtherRegister, ChangeRole, Control2,
                    spi_core, spi_vars
<1>6. /\ shift_byte' = No /\ tip' \in BOOLEAN /\ rrdy' \in BOOLEAN /\ rx_data' \in Nat
      /\ control2'.mstr => ~rrdy'
  <2>1. CASE Flush
    BY <1>1, <1>4, <2>1 DEF SpiTypeOK, Flush, spi_core, spi_vars
  <2>2. CASE Configure
    <3>1. SpiReset
      BY <2>2 DEF Configure, Configuration, OtherRegister, ChangeRole, Control2
    <3> QED  BY <3>1 DEF SpiReset
  <2> QED  BY <2>1, <2>2
<1>7. SpiTypeOK'
  BY <1>1, <1>5, <1>6 DEF SpiTypeOK
<1>8. SpiProgress' /\ SpiSelected' /\ SpiCalls'
  BY <1>1, <1>2, <1>4, <1>5, <1>6 DEF SpiProgress, SpiSelected, SpiCalls, SpiBlocks, At, Resting
<1> QED  BY <1>1, <1>2, <1>7, <1>8 DEF SpiInv

\* The core shifts a frame only in the middle of rw_byte_block.
LEMMA CoreStep == ASSUME SpiInv, SpiCore PROVE SpiInv'
<1>1. /\ SpiTypeOK /\ SpiCalls /\ SpiFrames /\ SpiProgress /\ SpiSelected
      /\ UNCHANGED <<program, call, step, in_progress, whole, to_write, read_len, was_read, control2>>
  BY DEF SpiInv, SpiCore, call_vars, spi_frame, FrameShifted, Trailed, SlaveReceives
<1>2. /\ Done' = Done /\ FrameCount' = FrameCount /\ \A k : Frame(k)' = Frame(k)
  BY <1>1 DEF Done, FrameCount, Frame
<1>3. SpiCalls' /\ SpiSelected' /\ program' = "spi"
  BY <1>1, <1>2 DEF SpiCalls, SpiSelected, At, Resting, SpiInv
<1>4. CASE FrameShifted
  <2>1. /\ At("rw_byte_block", 2) /\ ~rrdy /\ shift_byte = Frame(Done + 1) /\ Len(sent) = Done
        /\ shift_byte # No
    BY <1>1, <1>4 DEF FrameShifted, SpiProgress
  <2>2. /\ shift_byte' = No /\ sent' = Append(sent, shift_byte) /\ rrdy' = TRUE
        /\ rx_data' = Len(sent') /\ tip' = tip
    BY <1>4 DEF FrameShifted
  <2>3. /\ sent' \in Seq(Bytes) /\ Len(sent') = Done + 1 /\ Done \in Nat
        /\ \A k \in 1 .. Done : sent'[k] = sent[k]
        /\ sent'[Done + 1] = shift_byte
    BY <1>1, <2>1, <2>2, AppendProperties, SpiTypes DEF SpiTypeOK
  <2>4. SpiTypeOK'
    BY <1>1, <2>2, <2>3 DEF SpiTypeOK
  <2>5. SpiFrames'
    <3>1. \A k \in 1 .. Len(sent') : sent'[k] = Frame(k)'
      BY <1>1, <1>2, <2>1, <2>3 DEF SpiFrames
    <3> QED  BY <1>1, <3>1 DEF SpiFrames
  <2>6. SpiProgress'
    BY <1>1, <1>2, <2>1, <2>2, <2>3 DEF SpiProgress, At, SpiBlocks
  <2> QED  BY <1>3, <2>4, <2>5, <2>6 DEF SpiInv
<1>5. CASE Trailed \/ SlaveReceives
  <2>1. /\ tip' \in BOOLEAN /\ rrdy' \in BOOLEAN /\ (control2.mstr => rrdy' = rrdy)
        /\ UNCHANGED <<shift_byte, rx_data, sent>>
    BY <1>1, <1>5 DEF Trailed, SlaveReceives, SpiTypeOK
  <2>2. SpiTypeOK' /\ SpiFrames'
    BY <1>1, <1>2, <2>1 DEF SpiTypeOK, SpiFrames
  <2>3. SpiProgress'
    BY <1>1, <1>2, <2>1 DEF SpiProgress, At, SpiBlocks
  <2> QED  BY <1>3, <2>2, <2>3 DEF SpiInv
<1> QED  BY <1>4, <1>5 DEF SpiCore

LEMMA CallStep == ASSUME SpiInv, CallSpi PROVE SpiInv'
<1>1. SpiTypeOK /\ SpiProgress /\ SpiSelected /\ Resting
  BY DEF SpiInv, CallSpi
<1> DEFINE Given(c, of_hal, w, r) ==
      /\ Call(c, of_hal, w, r)
      /\ c \in SpiBlocks => control2.mstr
      /\ \/ c = "start_rw_block" /\ (Len(w) > 0 \/ r > 0) /\ (~of_hal => Len(w) = 1 /\ r = 1)
         \/ c = "rw_byte_block" /\ Len(w) = 1 /\ r = 1 /\ ~of_hal /\ in_progress
         \/ c = "finish_rw_block" /\ w = <<>> /\ r = 0 /\ ~of_hal /\ in_progress
         \/ c \in SpiConfigs \cup {"flush"} /\ w = <<>> /\ r = 0 /\ ~of_hal
<1>2. \E c \in SpiBlocks \cup SpiConfigs \cup {"flush"}, of_hal \in BOOLEAN, w \in Seq(Bytes), r \in Nat : Given(c, of_hal, w, r)
  <2>1. /\ <<>> \in Seq(Bytes) /\ \A w \in Seq(Bytes) : w # <<>> => Len(w) > 0
        /\ {"start_rw_block", "rw_byte_block", "finish_rw_block"} \subseteq SpiBlocks
    BY EmptySeq DEF SpiBlocks
  <2>2. Buffers \subseteq Seq(Bytes) /\ ReadLengths \subseteq Nat
    BY SpiAssumption
  <2>3. ASSUME NEW w \in Buffers \cup {<<>>}, NEW r \in ReadLengths, control2.mstr,
               w # <<>> \/ r > 0, Call("start_rw_block", TRUE, w, r)
        PROVE  w \in Seq(Bytes) /\ r \in Nat /\ Given("start_rw_block", TRUE, w, r)
    BY <2>1, <2>2, <2>3 DEF SpiBlocks
  <2>4. ASSUME NEW w \in Buffers, control2.mstr, Len(w) = 1,
               Call(IF in_progress THEN "rw_byte_block" ELSE "start_rw_block", FALSE, w, 1)
        PROVE  /\ w \in Seq(Bytes)
               /\ \/ Given("rw_byte_block", FALSE, w, 1)
                  \/ Given("start_rw_block", FALSE, w, 1)
    <3>1. CASE in_progress
      BY <2>2, <2>4, <3>1 DEF SpiBlocks
    <3>2. CASE ~in_progress
      <4>1. Call("start_rw_block", FALSE, w, 1)
        BY <2>4, <3>2
      <4>2. Len(w) > 0 /\ Len(w) = 1 /\ control2.mstr
        BY <2>4
      <4>3. w \in Seq(Bytes)
        BY <2>2
      <4> QED  BY <4>1, <4>2, <4>3
    <3> QED  BY <3>1, <3>2
  <2>5. ASSUME control2.mstr, in_progress, Call("finish_rw_block", FALSE, <<>>, 0)
        PROVE  Given("finish_rw_block", FALSE, <<>>, 0)
    BY <2>5 DEF SpiBlocks
  <2>6. ASSUME NEW c \in SpiConfigs \cup {"flush"}, Call(c, FALSE, <<>>, 0)
        PROVE  Given(c, FALSE, <<>>, 0)
    BY <2>6 DEF SpiBlocks, SpiConfigs
  <2> HIDE DEF Given
  <2>7. CASE \E w \in Buffers \cup {<<>>}, r \in ReadLengths :
               control2.mstr /\ (w # <<>> \/ r > 0) /\ Call("start_rw_block", TRUE, w, r)
    BY <2>1, <2>3, <2>7
  <2>8. CASE \E w \in Buffers : control2.mstr /\ Len(w) = 1
               /\ Call(IF in_progress THEN "rw_byte_block" ELSE "start_rw_block", FALSE, w, 1)
    BY <2>1, <2>4, <2>8
  <2>9. CASE control2.mstr /\ in_progress /\ Call("finish_rw_block", FALSE, <<>>, 0)
    BY <2>1, <2>5, <2>9
  <2>10. CASE \E c \in SpiConfigs \cup {"flush"} : Call(c, FALSE, <<>>, 0)
    BY <2>1, <2>6, <2>10
  <2> QED  BY <2>7, <2>8, <2>9, <2>10 DEF CallSpi, SpiConfigs
<1>3. PICK c \in SpiBlocks \cup SpiConfigs \cup {"flush"}, of_hal \in BOOLEAN, w \in Seq(Bytes), r \in Nat :
           Given(c, of_hal, w, r)
  BY <1>2
<1>4. /\ call' = c /\ step' = 1 /\ program' = "spi"
      /\ whole' = of_hal /\ to_write' = w /\ read_len' = r /\ was_read' = <<>> /\ sent' = <<>>
      /\ UNCHANGED <<control2, shift_byte, tip, rrdy, rx_data, in_progress>>
  BY <1>3 DEF Call, Begin, Goto, SpiInv
<1>5. SpiTypeOK'
  BY <1>1, <1>3, <1>4, EmptySeq DEF SpiTypeOK
<1>6. SpiFrames'
  BY <1>4, EmptySeq DEF SpiFrames
<1>7. /\ Done' = 0 /\ Len(sent') = 0
      /\ FrameCount' = IF Len(w) > r THEN Len(w) ELSE r
  BY <1>4, EmptySeq DEF Done, FrameCount
<1>8. /\ shift_byte' = No /\ (control2'.mstr => ~rrdy') /\ in_progress' = control2'.mcsh
  BY <1>1, <1>4 DEF SpiProgress, SpiSelected, At, Resting
<1>9. Len(w) \in Nat /\ (w = <<>> => Len(w) = 0)
  BY <1>3, EmptySeq, LenProperties
<1>10. SpiProgress'
  BY <1>3, <1>4, <1>7, <1>8, <1>9 DEF SpiProgress, At, SpiBlocks, SpiConfigs
<1>11. SpiSelected'
  BY <1>3, <1>4, <1>7, <1>8, <1>9 DEF SpiSelected, At, Resting, SpiBlocks, SpiConfigs
<1>12. SpiCalls'
  BY <1>3, <1>4 DEF SpiCalls, SpiBlocks, SpiConfigs
<1> QED  BY <1>4, <1>5, <1>6, <1>10, <1>11, <1>12 DEF SpiInv

LEMMA SpiStill == ASSUME SpiInv, UNCHANGED svars PROVE SpiInv'
<1>1. /\ UNCHANGED <<program, call, step, control2, shift_byte, tip, rrdy, rx_data, sent>>
      /\ UNCHANGED <<in_progress, whole, to_write, read_len, was_read>>
  BY DEF svars, call_vars, spi_vars, spi_core, spi_frame
<1>2. SpiFrames' /\ Done' = Done /\ FrameCount' = FrameCount /\ \A k : Frame(k)' = Frame(k)
  BY <1>1, SameCall
<1>3. SpiTypeOK' /\ SpiCalls' /\ SpiSelected'
  BY <1>1, <1>2 DEF SpiInv, SpiTypeOK, SpiCalls, SpiSelected, At, Resting
<1>4. SpiProgress'
  BY <1>1, <1>2 DEF SpiInv, SpiProgress, At
<1> QED  BY <1>1, <1>2, <1>3, <1>4 DEF SpiInv

LEMMA SpiStart == ASSUME SpiInit PROVE SpiInv
<1>1. /\ program = "spi" /\ call = "none" /\ SpiRest
  BY DEF SpiInit
<1>2. Done = 0 /\ Len(sent) = 0 /\ FrameCount = 0
  BY <1>1, EmptySeq DEF SpiRest, Done, FrameCount
<1>3. SpiTypeOK
  <2>1. (CHOOSE m \in Modes : TRUE) \in Modes
    BY SpiAssumption
  <2>2. control2 \in [mstr : BOOLEAN, mcsh : BOOLEAN, mode : Modes]
    BY <1>1, <2>1 DEF SpiRest
  <2> QED  BY <1>1, <2>2, EmptySeq DEF SpiRest, SpiTypeOK
<1>4. SpiFrames
  BY <1>1, <1>2 DEF SpiFrames, SpiRest
<1>5. SpiCalls /\ SpiProgress /\ SpiSelected
  BY <1>1, <1>2 DEF SpiRest, SpiCalls, SpiProgress, SpiSelected, At, Resting, SpiBlocks
<1> QED  BY <1>1, <1>3, <1>4, <1>5 DEF SpiInv

LEMMA SpiInvariant == SpiSpec => []SpiInv
<1>1. SpiInit => SpiInv
  BY SpiStart
<1>2. SpiInv /\ [SpiNext]_svars => SpiInv'
  <2> SUFFICES ASSUME SpiInv, [SpiNext]_svars PROVE SpiInv'
    OBVIOUS
  <2>1. CASE SpiDriver
    BY <2>1, StartStep, RwStep, FinishStep, SingleStep DEF SpiDriver
  <2>2. CASE SpiPoll
    BY <2>2, SpiStill DEF SpiPoll
  <2>3. CASE UNCHANGED svars
    BY <2>3, SpiStill
  <2> QED  BY <2>1, <2>2, <2>3, CoreStep, CallStep DEF SpiNext
<1> QED  BY <1>1, <1>2, PTL DEF SpiSpec

\* A transfer of any length sends exactly the bytes to write, filled up with the
\* dummy byte, reads the answer to each frame in its place, and leaves the slave
\* selected just if the driver thinks so.
THEOREM SpiTransfersExact == SpiSpec => []TransferExact
<1>1. SpiInv => TransferExact
  <2> SUFFICES ASSUME SpiInv, Resting
               PROVE  /\ sent = [k \in 1 .. FrameCount |-> Frame(k)]
                      /\ was_read = [k \in 1 .. FrameCount |-> k]
                      /\ in_progress = control2.mcsh
                      /\ whole => ~in_progress
    BY DEF TransferExact, Frame
  <2>1. /\ SpiTypeOK /\ SpiFrames /\ Len(sent) = FrameCount /\ Len(was_read) = FrameCount
    BY DEF SpiInv, SpiProgress, Resting, At, Done
  <2>2. sent \in [1 .. Len(sent) -> Bytes] /\ was_read \in [1 .. Len(was_read) -> Nat]
    BY <2>1, LenProperties DEF SpiTypeOK
  <2>3. sent = [k \in 1 .. FrameCount |-> Frame(k)]
    BY <2>1, <2>2 DEF SpiFrames
  <2>4. was_read = [k \in 1 .. FrameCount |-> k]
    BY <2>1, <2>2 DEF SpiFrames
  <2>5. in_progress = control2.mcsh /\ (whole => ~in_progress)
    BY DEF SpiInv, SpiSelected, Resting, At
  <2> QED  BY <2>3, <2>4, <2>5
<1> QED  BY <1>1, SpiInvariant, PTL
-----------------------------------------------------------------------------
(***************************************************************************)
(* The UART.                                                               *)
(***************************************************************************)
UartTypeOK ==
  /\ rx_fifo \in Seq(Nat) /\ Len(rx_fifo) <= DEPTH /\ tx_fifo \in Seq(Nat) /\ Len(tx_fifo) <= DEPTH
  /\ rx_irq \in BOOLEAN /\ tx_fifo_ren \in BOOLEAN /\ tx_buffer \in Seq(Nat)
  /\ arrived \in Nat /\ taken \in Seq(Nat) /\ got \in Seq(Nat) /\ line \in Seq(Nat)

\* A read of the data register finds a byte, a write of it finds room.
UartAccess ==
  /\ call \in {"rx_block", "discard_rx_fifo", "read"} /\ step = 2 => rx_end
  /\ call \in {"tx_bytes_block", "write"} /\ step = 2 => tx_ready

\* What is still to be sent follows what has been sent.
UartTodo ==
  /\ todo \in Seq(Nat)
  /\ call \in {"tx_bytes_block", "write"} /\ step \in {1, 2} => todo # <<>>
  /\ call \in {"tx_bytes_block", "write"} =>
       \A i \in 1 .. Len(todo) : todo[i] = Len(InTransmitter) + i

\* The byte that has been copied and is still to be popped is the head.
UartPop == tx_fifo_ren => tx_fifo # <<>> /\ tx_buffer = <<Head(tx_fifo)>>

UartIrq == drained \in BOOLEAN /\ (drained => Resting /\ (rx_end => rx_irq))

\* The program receives the frames that found room, and the transmitter holds
\* the bytes that it has sent, each once and in order, as the FIFOs show them.
Numbered(sequence, behind) ==
  /\ behind \subseteq 1 .. Len(sequence)
  /\ \A i \in 1 .. Len(sequence) : sequence[i] = IF i \in behind THEN Stale ELSE i

UartFlow ==
  /\ rx_behind \subseteq 1 .. Len(taken) /\ got \o rx_fifo = AsShown(taken, rx_behind)
  /\ Numbered(InTransmitter, tx_behind)

UartInv ==
  /\ program = "uart"
  /\ UartTypeOK /\ UartAccess /\ UartTodo /\ UartPop /\ UartIrq /\ UartFlow

LEMMA Regroup ==
  \A s, t, u \in Seq(Nat) : (s \o t) \o u = s \o (t \o u)
<1> QED  BY ConcatAssociative

LEMMA HeadAndTail == ASSUME NEW s \in Seq(Nat), s # <<>> PROVE <<Head(s)>> \o Tail(s) = s
<1>1. Head(s) \in Nat /\ Tail(s) \in Seq(Nat) /\ Len(Tail(s)) = Len(s) - 1 /\ Len(s) \in Nat \ {0}
  BY HeadTailProperties, EmptySeq
<1>2. <<Head(s)>> \in Seq(Nat) /\ Len(<<Head(s)>>) = 1 /\ <<Head(s)>>[1] = s[1]
  BY <1>1
<1>3. \A i \in 1 .. Len(Tail(s)) : Tail(s)[i] = s[i + 1]
  BY HeadTailProperties
<1>4. /\ <<Head(s)>> \o Tail(s) \in Seq(Nat) /\ Len(<<Head(s)>> \o Tail(s)) = Len(s)
      /\ \A i \in 1 .. Len(s) : (<<Head(s)>> \o Tail(s))[i] = IF i <= 1 THEN <<Head(s)>>[i] ELSE Tail(s)[i - 1]
  BY <1>1, <1>2, ConcatProperties
<1>5. \A i \in 1 .. Len(s) : (<<Head(s)>> \o Tail(s))[i] = s[i]
  BY <1>1, <1>2, <1>3, <1>4
<1> QED  BY <1>4, <1>5, SeqEqual

LEMMA TailOfConcat ==
  ASSUME NEW s \in Seq(Nat), s # <<>>, NEW b \in Nat
  PROVE  Tail(s \o <<b>>) = Tail(s) \o <<b>> /\ Head(s \o <<b>>) = Head(s)
<1>1. s \o <<b>> = Append(s, b) /\ Tail(s) \in Seq(Nat)
  BY AppendIsConcat, HeadTailProperties
<1>2. Tail(s) \o <<b>> = Append(Tail(s), b)
  BY <1>1, AppendIsConcat
<1> QED  BY <1>1, <1>2, HeadTailAppend

\* What a FIFO shows of an element written.
LEMMA ShownType ==
  ASSUME NEW fifo, NEW ren, NEW in \in Seq(Nat), Len(in) <= 1
  PROVE  /\ Shown(fifo, in, ren) \in Seq(Nat) /\ Len(Shown(fifo, in, ren)) = Len(in)
         /\ Len(in) \in Nat /\ (Len(in) = 0 <=> in = <<>>)
         /\ Shown(fifo, in, ren) = <<>> <=> in = <<>>
         /\ in = <<>> \/ \E b \in Nat : Shown(fifo, in, ren) = <<b>>
<1>1. Len(in) \in Nat /\ (Len(in) = 0 <=> in = <<>>)
  BY EmptySeq, LenProperties
<1>2. CASE Meets(fifo, in, ren)
  <2>1. in # <<>> /\ Shown(fifo, in, ren) = <<0>>
    BY <1>2 DEF Meets, Shown, Stale
  <2>2. <<0>> \in Seq(Nat) /\ Len(<<0>>) = 1 /\ <<0>> # <<>> /\ 0 \in Nat
    OBVIOUS
  <2>3. Len(in) = 1
    BY <1>1, <2>1
  <2> QED  BY <1>1, <2>1, <2>2, <2>3
<1>3. CASE ~Meets(fifo, in, ren)
  <2>1. Shown(fifo, in, ren) = in
    BY <1>3 DEF Shown
  <2>2. in = <<>> \/ \E b \in Nat : in = <<b>>
    <3>1. CASE in = <<>>
      BY <3>1
    <3>2. CASE in # <<>>
      <4>1. /\ Head(in) \in Nat /\ <<Head(in)>> \o Tail(in) = in /\ Tail(in) \in Seq(Nat)
            /\ Len(Tail(in)) = Len(in) - 1
        BY <3>2, HeadAndTail, HeadTailProperties
      <4>2. Len(Tail(in)) = 0
        BY <1>1, <3>2, <4>1
      <4>3. Tail(in) = <<>>
        BY <4>1, <4>2, EmptySeq
      <4>4. <<Head(in)>> \o <<>> = <<Head(in)>>
        BY <4>1, ConcatEmptySeq
      <4> QED  BY <4>1, <4>3, <4>4
    <3> QED  BY <3>1, <3>2
  <2> QED  BY <1>1, <2>1, <2>2
<1> QED  BY <1>2, <1>3

\* An edge of a FIFO.
LEMMA FifoEdge ==
  ASSUME NEW fifo \in Seq(Nat), Len(fifo) <= DEPTH, NEW ren \in BOOLEAN, NEW in \in Seq(Nat),
         Len(in) <= 1
  PROVE  /\ FIFO_SC(fifo, in, ren) \in Seq(Nat) /\ Len(FIFO_SC(fifo, in, ren)) <= DEPTH
         /\ FIFO_SC(fifo, in, ren) = (IF ren /\ fifo # <<>> THEN Tail(fifo) ELSE fifo)
                                       \o (IF Len(fifo) < DEPTH THEN Shown(fifo, in, ren) ELSE <<>>)
         /\ Len(FIFO_SC(fifo, in, ren)) =
              Len(fifo) - (IF ren /\ fifo # <<>> THEN 1 ELSE 0)
                + (IF Len(fifo) < DEPTH THEN Len(in) ELSE 0)
<1> DEFINE rest == IF ren /\ fifo # <<>> THEN Tail(fifo) ELSE fifo
<1>1. /\ rest \in Seq(Nat) /\ Len(rest) = Len(fifo) - (IF ren /\ fifo # <<>> THEN 1 ELSE 0)
      /\ Len(rest) \in Nat /\ Len(fifo) \in Nat /\ Len(in) \in Nat /\ DEPTH \in Nat
  BY HeadTailProperties, LenProperties, UartAssumption
<1>2. PICK shown \in Seq(Nat) : shown = Shown(fifo, in, ren) /\ Len(shown) = Len(in)
  BY ShownType
<1>3. rest \o shown \in Seq(Nat) /\ Len(rest \o shown) = Len(rest) + Len(in)
  BY <1>1, <1>2, ConcatProperties
<1>4. FIFO_SC(fifo, in, ren) = IF Len(fifo) = DEPTH THEN rest ELSE rest \o shown
  BY <1>2 DEF FIFO_SC
<1>5. rest \o <<>> = rest
  BY <1>1, ConcatEmptySeq
<1> HIDE DEF rest
<1>6. /\ FIFO_SC(fifo, in, ren) = rest \o (IF Len(fifo) < DEPTH THEN shown ELSE <<>>)
      /\ FIFO_SC(fifo, in, ren) \in Seq(Nat)
      /\ Len(FIFO_SC(fifo, in, ren)) = Len(rest) + (IF Len(fifo) < DEPTH THEN Len(in) ELSE 0)
  <2>1. CASE Len(fifo) = DEPTH
    <3>1. FIFO_SC(fifo, in, ren) = rest /\ ~(Len(fifo) < DEPTH)
      BY <1>1, <1>4, <2>1
    <3> QED  BY <1>1, <1>5, <3>1
  <2>2. CASE Len(fifo) < DEPTH
    <3>1. FIFO_SC(fifo, in, ren) = rest \o shown
      BY <1>1, <1>4, <2>2
    <3> QED  BY <1>1, <1>3, <2>2, <3>1
  <2>3. Len(fifo) = DEPTH \/ Len(fifo) < DEPTH
    <3>1. PICK n \in Nat, d \in Nat : n = Len(fifo) /\ d = DEPTH
      BY <1>1
    <3>2. n <= d
      BY <3>1, Zenon
    <3>3. n = d \/ n < d
      BY <3>2
    <3> QED  BY <3>1, <3>3, Zenon
  <2> QED  BY <2>1, <2>2, <2>3, Zenon
<1>8. Len(FIFO_SC(fifo, in, ren)) <= DEPTH
  <2>1. PICK n, d, r, i \in Nat : n = Len(fifo) /\ d = DEPTH /\ r = Len(rest) /\ i = Len(in)
    BY <1>1, Zenon
  <2>2. r = n - (IF ren /\ fifo # <<>> THEN 1 ELSE 0) /\ n <= d /\ i <= 1
    BY <1>1, <2>1
  <2>3. r + (IF n < d THEN i ELSE 0) <= d
    BY <2>2
  <2>4. Len(FIFO_SC(fifo, in, ren)) = r + (IF n < d THEN i ELSE 0)
    BY <1>6, <2>1
  <2> QED  BY <2>1, <2>3, <2>4
<1> QED  BY <1>1, <1>2, <1>6, <1>8 DEF rest

\* One more element, met by the read of the one before it or not.
OneMore(s, behind, b, v, behind2) ==
  /\ behind \subseteq 1 .. Len(s)
  /\ \/ v = Stale /\ behind2 = behind \cup {Len(s) + 1}
     \/ v = b /\ behind2 = behind

ShownMore(s, behind, b, v, behind2) ==
  /\ AsShown(s, behind) \in Seq(Nat)
  /\ AsShown(s \o <<b>>, behind2) = AsShown(s, behind) \o <<v>>
  /\ behind2 \subseteq 1 .. Len(s \o <<b>>)

LEMMA OneMoreShown ==
  ASSUME NEW s \in Seq(Nat), NEW behind, NEW b \in Nat, NEW v, NEW behind2,
         OneMore(s, behind, b, v, behind2)
  PROVE  ShownMore(s, behind, b, v, behind2)
<1> USE DEF OneMore
<1>1. /\ s \o <<b>> \in Seq(Nat) /\ Len(s \o <<b>>) = Len(s) + 1 /\ Len(s) \in Nat
      /\ \A i \in 1 .. Len(s) : (s \o <<b>>)[i] = s[i]
      /\ (s \o <<b>>)[Len(s) + 1] = b
  BY AppendIsConcat, AppendProperties, LenProperties
<1>2. \A i \in 1 .. Len(s) : s[i] \in Nat
  BY ElementOfSeq
<1>3. /\ AsShown(s, behind) \in Seq(Nat) /\ Len(AsShown(s, behind)) = Len(s)
      /\ \A i \in 1 .. Len(s) : AsShown(s, behind)[i] = IF i \in behind THEN Stale ELSE s[i]
  BY <1>1, <1>2 DEF AsShown, Stale
<1>4. /\ AsShown(s \o <<b>>, behind2) \in Seq(Nat) /\ Len(AsShown(s \o <<b>>, behind2)) = Len(s) + 1
      /\ \A i \in 1 .. Len(s) + 1 :
           AsShown(s \o <<b>>, behind2)[i] = IF i \in behind2 THEN Stale ELSE (s \o <<b>>)[i]
  <2>1. PICK t \in Seq(Nat) : t = s \o <<b>>
    BY <1>1
  <2>2. Len(t) = Len(s) + 1 /\ \A i \in 1 .. Len(t) : t[i] \in Nat
    BY <1>1, <2>1, ElementOfSeq
  <2>3. /\ AsShown(t, behind2) \in Seq(Nat) /\ Len(AsShown(t, behind2)) = Len(t)
        /\ \A i \in 1 .. Len(t) : AsShown(t, behind2)[i] = IF i \in behind2 THEN Stale ELSE t[i]
    BY <1>1, <2>2 DEF AsShown, Stale
  <2> QED  BY <2>1, <2>2, <2>3
<1>5. PICK a \in Seq(Nat) : a = AsShown(s, behind)
  BY <1>3
<1>6. v \in Nat
  BY DEF Stale
<1>7. /\ a \o <<v>> \in Seq(Nat) /\ Len(a \o <<v>>) = Len(s) + 1
      /\ \A i \in 1 .. Len(s) : (a \o <<v>>)[i] = a[i]
      /\ (a \o <<v>>)[Len(s) + 1] = v
  BY <1>3, <1>5, <1>6, AppendIsConcat, AppendProperties
<1>8. \A i \in 1 .. Len(s) + 1 : AsShown(s \o <<b>>, behind2)[i] = (a \o <<v>>)[i]
  <2> SUFFICES ASSUME NEW i \in 1 .. Len(s) + 1
               PROVE  AsShown(s \o <<b>>, behind2)[i] = (a \o <<v>>)[i]
    OBVIOUS
  <2>1. CASE i = Len(s) + 1
    <3>1. IF i \in behind2 THEN v = Stale ELSE v = b
      BY <1>1, <2>1
    <3> QED  BY <1>1, <1>4, <1>7, <2>1, <3>1
  <2>2. CASE i \in 1 .. Len(s)
    <3>1. i \in behind2 <=> i \in behind
      BY <1>1, <2>2
    <3>2. /\ AsShown(s \o <<b>>, behind2)[i] = IF i \in behind2 THEN Stale ELSE (s \o <<b>>)[i]
          /\ (s \o <<b>>)[i] = s[i] /\ (a \o <<v>>)[i] = a[i]
      BY <1>1, <1>4, <1>7, <2>2
    <3>3. a[i] = IF i \in behind THEN Stale ELSE s[i]
      BY <1>3, <1>5, <2>2
    <3> QED  BY <3>1, <3>2, <3>3
  <2>3. PICK n \in Nat : n = Len(s)
    BY <1>1
  <2>4. i = n + 1 \/ i \in 1 .. n
    BY <2>3
  <2> QED  BY <2>1, <2>2, <2>3, <2>4
<1>9. AsShown(s \o <<b>>, behind2) = a \o <<v>>
  BY <1>1, <1>4, <1>7, <1>8, SeqEqual
<1>10. behind2 \subseteq 1 .. Len(s \o <<b>>)
  <2>1. PICK n \in Nat : n = Len(s) /\ Len(s \o <<b>>) = n + 1
    BY <1>1
  <2>2. behind \subseteq 1 .. n /\ behind2 \subseteq behind \cup {n + 1}
    BY <2>1
  <2>4. 1 .. n \subseteq 1 .. n + 1 /\ n + 1 \in 1 .. n + 1
    OBVIOUS
  <2>3. behind2 \subseteq 1 .. n + 1
    BY <2>2, <2>4, Zenon
  <2> QED  BY <2>1, <2>3
<1> QED  BY <1>3, <1>5, <1>9, <1>10 DEF ShownMore

LEMMA InTransmitterType == UartInv => InTransmitter \in Seq(Nat)
<1> SUFFICES ASSUME UartInv PROVE InTransmitter \in Seq(Nat)
  OBVIOUS
<1>1. UartTypeOK /\ UartPop
  BY DEF UartInv
<1>2. line \o tx_buffer \in Seq(Nat)
  BY <1>1, ConcatProperties DEF UartTypeOK
<1>3. (IF tx_fifo_ren THEN Tail(tx_fifo) ELSE tx_fifo) \in Seq(Nat)
  BY <1>1, HeadTailProperties DEF UartTypeOK, UartPop
<1>4. (line \o tx_buffer) \o (IF tx_fifo_ren THEN Tail(tx_fifo) ELSE tx_fifo) \in Seq(Nat)
  BY <1>2, <1>3, ConcatProperties
<1> QED  BY <1>4 DEF InTransmitter

-----------------------------------------------------------------------------
\* The receiver at an edge.
LEMMA ReceiverEdge ==
  ASSUME UartInv, NEW ren \in BOOLEAN, NEW frame \in Incoming,
         Receiver(frame, ren), Came(frame, ren),
         IF ren THEN rx_end /\ got' = Append(got, Head(rx_fifo)) ELSE got' = got
  PROVE  /\ rx_fifo' \in Seq(Nat) /\ Len(rx_fifo') <= DEPTH
         /\ rx_irq' \in BOOLEAN /\ arrived' \in Nat /\ taken' \in Seq(Nat) /\ got' \in Seq(Nat)
         /\ rx_behind' \subseteq 1 .. Len(taken') /\ got' \o rx_fifo' = AsShown(taken', rx_behind')
         /\ ~ren => /\ rx_end => rx_end'
                    /\ ~rx_end /\ rx_end' => rx_irq'
         /\ frame # <<>> => rx_irq'
<1>1. /\ UartTypeOK /\ program = "uart"
      /\ rx_behind \subseteq 1 .. Len(taken) /\ got \o rx_fifo = AsShown(taken, rx_behind)
  BY DEF UartInv, UartFlow
<1>2. frame \in Seq(Nat) /\ Len(frame) <= 1 /\ Len(frame) \in Nat
  <2>1. CASE frame = <<>>
    BY <2>1, EmptySeq
  <2>2. CASE frame = <<arrived + 1>>
    BY <1>1, <2>2 DEF UartTypeOK
  <2> QED  BY <2>1, <2>2 DEF Incoming
<1> DEFINE add  == IF Len(rx_fifo) < DEPTH THEN Shown(rx_fifo, frame, ren) ELSE <<>>
           rest == IF ren /\ rx_fifo # <<>> THEN Tail(rx_fifo) ELSE rx_fifo
<1>3. rx_fifo' = FIFO_SC(rx_fifo, frame, ren)
  BY DEF Receiver
<1>4. /\ rx_fifo' \in Seq(Nat) /\ Len(rx_fifo') <= DEPTH /\ rx_fifo' = rest \o add
      /\ Len(rx_fifo') = Len(rx_fifo) - (IF ren /\ rx_fifo # <<>> THEN 1 ELSE 0)
                           + (IF Len(rx_fifo) < DEPTH THEN Len(frame) ELSE 0)
  <2>1. PICK fifo \in Seq(Nat), in \in Seq(Nat) : fifo = rx_fifo /\ in = frame
    BY <1>1, <1>2 DEF UartTypeOK
  <2>2. Len(fifo) <= DEPTH /\ Len(in) <= 1
    BY <1>1, <1>2, <2>1 DEF UartTypeOK
  <2>3. /\ FIFO_SC(fifo, in, ren) \in Seq(Nat) /\ Len(FIFO_SC(fifo, in, ren)) <= DEPTH
        /\ FIFO_SC(fifo, in, ren) = (IF ren /\ fifo # <<>> THEN Tail(fifo) ELSE fifo)
                                      \o (IF Len(fifo) < DEPTH THEN Shown(fifo, in, ren) ELSE <<>>)
        /\ Len(FIFO_SC(fifo, in, ren)) =
             Len(fifo) - (IF ren /\ fifo # <<>> THEN 1 ELSE 0)
               + (IF Len(fifo) < DEPTH THEN Len(in) ELSE 0)
    BY <2>2, FifoEdge
  <2> QED  BY <1>3, <2>1, <2>3
<1>5. add \in Seq(Nat) /\ rest \in Seq(Nat)
  BY <1>1, <1>2, ShownType, EmptySeq, HeadTailProperties DEF UartTypeOK
<1>12. /\ taken' \in Seq(Nat) /\ rx_behind' \subseteq 1 .. Len(taken')
       /\ AsShown(taken, rx_behind) \in Seq(Nat)
       /\ AsShown(taken', rx_behind') = AsShown(taken, rx_behind) \o add
  <2>1. taken \in Seq(Nat) /\ Len(taken) \in Nat /\ \A i \in 1 .. Len(taken) : taken[i] \in Nat
    BY <1>1, LenProperties, ElementOfSeq DEF UartTypeOK
  <2>2. AsShown(taken, rx_behind) \in Seq(Nat)
    BY <2>1 DEF AsShown, Stale
  <2>3. CASE frame = <<>> \/ ~(Len(rx_fifo) < DEPTH)
    <3>1. ~Meets(rx_fifo, frame, ren)
      <4>1. CASE frame = <<>>
        BY <4>1, Zenon DEF Meets
      <4>2. CASE ~(Len(rx_fifo) < DEPTH)
        <5>1. PICK n \in Nat : n = Len(rx_fifo)
          BY <1>1, LenProperties DEF UartTypeOK
        <5>2. ~(n < DEPTH)
          BY <4>2, <5>1, Zenon
        <5>3. n # 1
          BY <5>2, UartAssumption
        <5> QED  BY <5>1, <5>3, Zenon DEF Meets
      <4> QED  BY <2>3, <4>1, <4>2
    <3>2. taken' = taken /\ rx_behind' = rx_behind
      BY <2>1, <2>3, <3>1, ConcatEmptySeq DEF Came
    <3>3. add = <<>>
      BY <1>2, <2>3, ShownType
    <3>4. AsShown(taken, rx_behind) \o <<>> = AsShown(taken, rx_behind)
      BY <2>2, ConcatEmptySeq
    <3>5. AsShown(taken', rx_behind') = AsShown(taken, rx_behind)
      BY <3>2
    <3> HIDE DEF add
    <3> QED  BY <1>1, <2>1, <2>2, <3>2, <3>3, <3>4, <3>5
  <2>4. CASE frame # <<>> /\ Len(rx_fifo) < DEPTH
    <3>1. PICK f \in Nat : frame = <<f>>
      BY <1>1, <2>4 DEF Incoming, UartTypeOK
    <3>2. PICK met \in BOOLEAN : met = Meets(rx_fifo, frame, ren)
      BY DEF Meets
    <3>3. /\ taken' = taken \o <<f>>
          /\ rx_behind' = IF met THEN rx_behind \cup {Len(taken) + 1} ELSE rx_behind
      BY <2>4, <3>1, <3>2 DEF Came
    <3>4. PICK v : v = IF met THEN Stale ELSE f
      OBVIOUS
    <3>5. add = <<v>>
      BY <2>4, <3>1, <3>2, <3>4 DEF Shown
    <3>12. PICK behind2 : behind2 = rx_behind'
      OBVIOUS
    <3>6. PICK t \in Seq(Nat), behind \in SUBSET (1 .. Len(taken)) :
            t = taken /\ behind = rx_behind
      BY <1>1, <2>1
    <3>7. OneMore(t, behind, f, v, behind2)
      BY <3>3, <3>4, <3>6, <3>12 DEF OneMore
    <3>8. /\ AsShown(t \o <<f>>, behind2) = AsShown(t, behind) \o <<v>>
          /\ behind2 \subseteq 1 .. Len(t \o <<f>>)
      <4>1. ShownMore(t, behind, f, v, behind2)
        BY <3>7, OneMoreShown
      <4> QED  BY <4>1 DEF ShownMore
    <3>9. t \o <<f>> \in Seq(Nat)
      BY AppendIsConcat, AppendProperties
    <3>10. taken' = t \o <<f>>
      BY <3>3, <3>6
    <3>11. AsShown(taken', rx_behind') = AsShown(t \o <<f>>, behind2)
      BY <3>10, <3>12
    <3> HIDE DEF add
    <3> QED  BY <2>2, <3>5, <3>6, <3>8, <3>9, <3>10, <3>11, <3>12
  <2> QED  BY <2>3, <2>4
<1> HIDE DEF add, rest
<1>6. got' \in Seq(Nat) /\ got' \o rest = AsShown(taken, rx_behind)
  <2>1. CASE ren
    <3>1. /\ rest = Tail(rx_fifo) /\ Head(rx_fifo) \in Nat /\ rx_fifo # <<>> /\ rx_fifo \in Seq(Nat)
          /\ got \in Seq(Nat) /\ got' = Append(got, Head(rx_fifo))
      BY <1>1, <2>1, HeadTailProperties DEF rest, rx_end, UartTypeOK
    <3>2. got' = got \o <<Head(rx_fifo)>> /\ got' \in Seq(Nat) /\ <<Head(rx_fifo)>> \in Seq(Nat)
      BY <3>1, AppendIsConcat, AppendProperties
    <3>3. Tail(rx_fifo) \in Seq(Nat)
      BY <1>5, <3>1
    <3>4. (got \o <<Head(rx_fifo)>>) \o Tail(rx_fifo) = got \o (<<Head(rx_fifo)>> \o Tail(rx_fifo))
      BY <3>1, <3>2, <3>3, Regroup, Zenon
    <3>5. <<Head(rx_fifo)>> \o Tail(rx_fifo) = rx_fifo
      BY <3>1, HeadAndTail
    <3> QED  BY <1>1, <3>1, <3>2, <3>4, <3>5
  <2>2. CASE ~ren
    BY <1>1, <2>2 DEF rest, UartTypeOK
  <2> QED  BY <2>1, <2>2
<1>7. got' \o rx_fifo' = AsShown(taken', rx_behind')
  <2>1. PICK g, r, a \in Seq(Nat) : g = got' /\ r = rest /\ a = add
    BY <1>5, <1>6, Zenon
  <2>2. (g \o r) \o a = g \o (r \o a)
    BY Regroup
  <2>3. g \o rx_fifo' = (g \o r) \o a
    BY <1>4, <2>1, <2>2
  <2>4. g \o r = AsShown(taken, rx_behind)
    BY <1>6, <2>1
  <2>5. AsShown(taken', rx_behind') = (g \o r) \o a
    BY <1>12, <2>1, <2>4
  <2> QED  BY <2>1, <2>3, <2>5
<1>8. taken' \in Seq(Nat) /\ arrived' \in Nat /\ rx_irq' \in BOOLEAN
  <2>1. taken' \in Seq(Nat)
    BY <1>12
  <2>2. arrived' \in Nat
    BY <1>1, <1>2 DEF UartTypeOK, Came
  <2>3. rx_irq' \in BOOLEAN
    BY DEF Receiver
  <2> QED  BY <2>1, <2>2, <2>3
<1>9. ~ren /\ rx_end => rx_end'
  <2> SUFFICES ASSUME ~ren, rx_end PROVE rx_end'
    OBVIOUS
  <2>1. rx_fifo \in Seq(Nat) /\ Len(rx_fifo) \in Nat /\ Len(rx_fifo) > 0
    BY <1>1, EmptySeq, LenProperties DEF rx_end, UartTypeOK
  <2>2. Len(rx_fifo') > 0
    BY <1>2, <1>4, <2>1
  <2>3. rx_fifo' # <<>>
    BY <2>2, EmptySeq
  <2> QED  BY <2>3 DEF rx_end
<1>10. ~ren /\ ~rx_end /\ rx_end' => rx_irq'
  <2> SUFFICES ASSUME ~ren, ~rx_end, rx_end', frame = <<>> PROVE FALSE
    BY DEF Receiver
  <2>1. rest = <<>> /\ add = <<>>
    BY <1>2, ShownType DEF rest, add, rx_end
  <2>2. rx_fifo' = <<>>
    BY <1>4, <2>1, ConcatEmptySeq, EmptySeq
  <2> QED  BY <2>2 DEF rx_end
<1>11. frame # <<>> => rx_irq'
  BY DEF Receiver
<1> QED  BY <1>4, <1>6, <1>7, <1>8, <1>9, <1>10, <1>11, <1>12

\* The transmitter at an edge, in any program.
Queued == IF tx_fifo_ren THEN Tail(tx_fifo) ELSE tx_fifo

LEMMA TransmitterQueue ==
  ASSUME tx_fifo \in Seq(Nat), Len(tx_fifo) <= DEPTH, tx_fifo_ren \in BOOLEAN, UartPop,
         NEW byte \in Seq(Nat), NEW pop \in BOOLEAN, Transmitter(byte, pop),
         byte = <<>> \/ (tx_ready /\ \E b \in Nat : byte = <<b>>)
  PROVE  /\ tx_fifo' \in Seq(Nat) /\ Len(tx_fifo') <= DEPTH /\ tx_fifo_ren' \in BOOLEAN
         /\ tx_buffer' = tx_buffer
         /\ Queued \in Seq(Nat) /\ Queued' = Queued \o Shown(tx_fifo, byte, pop) /\ UartPop'
         /\ Shown(tx_fifo, byte, pop) \in Seq(Nat)
         /\ program = "boot" => Shown(tx_fifo, byte, pop) = byte
         /\ byte = <<>> /\ tx_ready => tx_ready'
<1>1. Len(byte) \in Nat /\ Len(byte) <= 1
  <2>1. CASE byte = <<>>
    BY <2>1, EmptySeq
  <2>2. CASE \E b \in Nat : byte = <<b>>
    BY <2>2
  <2> QED  BY <2>1, <2>2
<1>2. tx_fifo' = FIFO_SC(tx_fifo, byte, pop) /\ (program = "boot" => Shown(tx_fifo, byte, pop) = byte)
  BY DEF Transmitter, Shown
<1>11. PICK shown \in Seq(Nat) :
         /\ shown = Shown(tx_fifo, byte, pop) /\ (shown = <<>> <=> byte = <<>>)
         /\ byte = <<>> \/ \E b \in Nat : shown = <<b>>
  BY <1>1, ShownType
<1>3. pop => tx_fifo_ren /\ tx_fifo # <<>>
  BY DEF Transmitter, UartPop
<1>4. /\ tx_fifo' \in Seq(Nat) /\ Len(tx_fifo') <= DEPTH
      /\ tx_fifo' = (IF pop /\ tx_fifo # <<>> THEN Tail(tx_fifo) ELSE tx_fifo)
                      \o (IF Len(tx_fifo) < DEPTH THEN shown ELSE <<>>)
      /\ Len(tx_fifo') = Len(tx_fifo) - (IF pop /\ tx_fifo # <<>> THEN 1 ELSE 0)
                           + (IF Len(tx_fifo) < DEPTH THEN Len(byte) ELSE 0)
  BY <1>1, <1>2, <1>11, FifoEdge
<1>5. tx_fifo' = (IF pop THEN Tail(tx_fifo) ELSE tx_fifo) \o shown
  BY <1>3, <1>4, <1>11 DEF tx_ready
<1>6. tx_fifo_ren' = (tx_fifo_ren /\ ~pop) /\ tx_buffer' = tx_buffer
  BY DEF Transmitter
<1>7. Queued \in Seq(Nat)
  BY HeadTailProperties DEF UartPop, Queued
<1>8. Queued' = Queued \o shown /\ UartPop'
  <2>1. CASE ~tx_fifo_ren
    BY <1>3, <1>5, <1>6, <2>1 DEF UartPop, Queued
  <2>2. CASE tx_fifo_ren /\ pop
    BY <1>5, <1>6, <2>2 DEF UartPop, Queued
  <2>3. CASE tx_fifo_ren /\ ~pop /\ byte = <<>>
    <3>1. tx_fifo' = tx_fifo /\ Queued \o shown = Queued
      BY <1>5, <1>7, <1>11, <2>3, ConcatEmptySeq
    <3> QED  BY <1>6, <2>3, <3>1 DEF UartPop, Queued
  <2>4. CASE tx_fifo_ren /\ ~pop /\ byte # <<>>
    <3>1. PICK b \in Nat : shown = <<b>>
      BY <1>11, <2>4
    <3>2. tx_fifo # <<>> /\ tx_buffer = <<Head(tx_fifo)>>
      BY <2>4 DEF UartPop
    <3>3. /\ tx_fifo' = tx_fifo \o <<b>>
          /\ Tail(tx_fifo') = Tail(tx_fifo) \o <<b>> /\ Head(tx_fifo') = Head(tx_fifo)
      BY <1>5, <2>4, <3>1, <3>2, TailOfConcat
    <3>4. tx_fifo' # <<>>
      BY <3>2, <3>3, AppendIsConcat, AppendProperties
    <3> QED  BY <1>6, <2>4, <3>1, <3>2, <3>3, <3>4 DEF UartPop, Queued
  <2> QED  BY <2>1, <2>2, <2>3, <2>4
<1>9. byte = <<>> /\ tx_ready => tx_ready'
  BY <1>1, <1>4, LenProperties, UartAssumption DEF tx_ready
<1>10. tx_fifo_ren' \in BOOLEAN
  BY <1>6
<1> QED  BY <1>2, <1>4, <1>6, <1>7, <1>8, <1>9, <1>10, <1>11

LEMMA TransmitterEdge ==
  ASSUME UartInv, NEW byte \in Seq(Nat), NEW pop \in BOOLEAN, Transmitter(byte, pop),
         byte = <<>> \/ (tx_ready /\ \E b \in Nat : byte = <<b>>), line' = line
  PROVE  /\ tx_fifo' \in Seq(Nat) /\ Len(tx_fifo') <= DEPTH /\ tx_fifo_ren' \in BOOLEAN
         /\ tx_buffer' = tx_buffer
         /\ InTransmitter' = InTransmitter \o Shown(tx_fifo, byte, pop) /\ UartPop'
         /\ byte = <<>> /\ tx_ready => tx_ready'
<1>1. UartTypeOK /\ UartPop
  BY DEF UartInv
<1>2. /\ tx_fifo' \in Seq(Nat) /\ Len(tx_fifo') <= DEPTH /\ tx_fifo_ren' \in BOOLEAN
      /\ tx_buffer' = tx_buffer
      /\ Queued \in Seq(Nat) /\ Queued' = Queued \o Shown(tx_fifo, byte, pop) /\ UartPop'
      /\ Shown(tx_fifo, byte, pop) \in Seq(Nat)
      /\ byte = <<>> /\ tx_ready => tx_ready'
  BY <1>1, TransmitterQueue DEF UartTypeOK
<1>3. line \o tx_buffer \in Seq(Nat)
  BY <1>1, ConcatProperties DEF UartTypeOK
<1>4. InTransmitter' = InTransmitter \o Shown(tx_fifo, byte, pop)
  <2>1. InTransmitter = (line \o tx_buffer) \o Queued /\ InTransmitter' = (line' \o tx_buffer') \o Queued'
    BY DEF InTransmitter, Queued
  <2>2. PICK l, r, b \in Seq(Nat) : l = line \o tx_buffer /\ r = Queued /\ b = Shown(tx_fifo, byte, pop)
    BY <1>2, <1>3, Zenon
  <2>3. (l \o r) \o b = l \o (r \o b)
    BY Regroup
  <2>4. line' \o tx_buffer' = l
    BY <1>2, <2>2
  <2>5. InTransmitter' = l \o Queued'
    BY <2>1, <2>4
  <2> QED  BY <1>2, <2>1, <2>2, <2>3, <2>5
<1> QED  BY <1>2, <1>4

\* The next byte is sent.
LEMMA NextByte ==
  ASSUME UartInv, NEW v, NEW met \in BOOLEAN, v = (IF met THEN Stale ELSE Len(InTransmitter) + 1),
         InTransmitter' = InTransmitter \o <<v>>,
         tx_behind' = IF met THEN tx_behind \cup {Len(InTransmitter) + 1} ELSE tx_behind
  PROVE  /\ Len(InTransmitter') = Len(InTransmitter) + 1
         /\ Numbered(InTransmitter', tx_behind')
<1>1. InTransmitter \in Seq(Nat) /\ Numbered(InTransmitter, tx_behind)
  BY InTransmitterType DEF UartInv, UartFlow
<1>12. tx_behind \subseteq 1 .. Len(InTransmitter)
  BY <1>1 DEF Numbered
<1>2. PICK s \in Seq(Nat), behind \in SUBSET (1 .. Len(InTransmitter)) :
         s = InTransmitter /\ behind = tx_behind
  BY <1>1, <1>12
<1>13. PICK t : t = InTransmitter'
  OBVIOUS
<1>14. PICK behind2 : behind2 = tx_behind'
  OBVIOUS
<1>3. t = InTransmitter' /\ behind2 = tx_behind'
  BY <1>13, <1>14
<1>4. Len(s) \in Nat /\ v \in Nat
  BY <1>2, LenProperties DEF Stale
<1>5. t = Append(s, v) /\ behind2 = IF met THEN behind \cup {Len(s) + 1} ELSE behind
  BY <1>2, <1>3, <1>4, AppendIsConcat
<1>6. /\ Len(t) = Len(s) + 1
      /\ \A i \in 1 .. Len(s) + 1 : t[i] = IF i = Len(s) + 1 THEN v ELSE s[i]
  BY <1>4, <1>5, AppendProperties
<1>7. behind \subseteq 1 .. Len(s) /\ \A i \in 1 .. Len(s) : s[i] = IF i \in behind THEN Stale ELSE i
  BY <1>1, <1>2 DEF Numbered
<1>8. behind2 \subseteq 1 .. Len(t)
  <2>1. PICK n \in Nat : n = Len(s) /\ Len(t) = n + 1
    BY <1>4, <1>6
  <2>2. behind \subseteq 1 .. n /\ behind2 = IF met THEN behind \cup {n + 1} ELSE behind
    BY <1>5, <1>7, <2>1
  <2>3. behind2 \subseteq 1 .. n + 1
    BY <2>2
  <2> QED  BY <2>1, <2>3
<1>9. ASSUME NEW i \in 1 .. Len(t) PROVE t[i] = IF i \in behind2 THEN Stale ELSE i
  <2>1. CASE i = Len(s) + 1
    <3>1. i \in behind2 <=> met
      BY <1>4, <1>5, <1>7, <2>1
    <3> QED  BY <1>2, <1>6, <2>1, <3>1
  <2>2. CASE i \in 1 .. Len(s)
    <3>1. i \in behind2 <=> i \in behind
      BY <1>4, <1>5, <2>2
    <3> QED  BY <1>4, <1>6, <1>7, <2>2, <3>1
  <2> QED  BY <1>4, <1>6, <2>1, <2>2
<1>10. Numbered(t, behind2)
  BY <1>8, <1>9 DEF Numbered
<1> QED  BY <1>2, <1>3, <1>6, <1>10

\* An access of the driver.
LEMMA AccessEdge ==
  ASSUME UartInv, NEW byte \in Seq(Nat), NEW ren \in BOOLEAN, UartEdge(byte, ren),
         byte = <<>> \/ (tx_ready /\ byte = <<Len(InTransmitter) + 1>>), line' = line,
         IF ren THEN rx_end /\ got' = Append(got, Head(rx_fifo)) ELSE got' = got
  PROVE  /\ UartTypeOK' /\ UartPop' /\ UartFlow'
         /\ Len(InTransmitter') = Len(InTransmitter) + (IF byte = <<>> THEN 0 ELSE 1)
         /\ byte = <<>> /\ tx_ready => tx_ready'
         /\ ~ren /\ rx_end => rx_end'
         /\ ~ren /\ ~rx_end /\ rx_end' => rx_irq'
<1>1. PICK frame \in Incoming : Receiver(frame, ren) /\ Came(frame, ren)
  BY DEF UartEdge
<1>2. PICK pop \in BOOLEAN : Transmitter(byte, pop) /\ Sent(byte, pop)
  BY DEF UartEdge
<1>3. InTransmitter \in Seq(Nat) /\ Len(InTransmitter) \in Nat
  BY InTransmitterType, LenProperties
<1>4. byte = <<>> \/ (tx_ready /\ \E b \in Nat : byte = <<b>>)
  BY <1>3
<1>5. /\ rx_fifo' \in Seq(Nat) /\ Len(rx_fifo') <= DEPTH
      /\ rx_irq' \in BOOLEAN /\ arrived' \in Nat /\ taken' \in Seq(Nat) /\ got' \in Seq(Nat)
      /\ rx_behind' \subseteq 1 .. Len(taken') /\ got' \o rx_fifo' = AsShown(taken', rx_behind')
      /\ ~ren /\ rx_end => rx_end'
      /\ ~ren /\ ~rx_end /\ rx_end' => rx_irq'
  BY <1>1, ReceiverEdge
<1>6. /\ tx_fifo' \in Seq(Nat) /\ Len(tx_fifo') <= DEPTH /\ tx_fifo_ren' \in BOOLEAN
      /\ tx_buffer' = tx_buffer /\ UartPop'
      /\ InTransmitter' = InTransmitter \o Shown(tx_fifo, byte, pop)
      /\ byte = <<>> /\ tx_ready => tx_ready'
  BY <1>2, <1>4, TransmitterEdge
<1>7. UartTypeOK'
  BY <1>5, <1>6 DEF UartInv, UartTypeOK
<1>8. /\ Len(InTransmitter') = Len(InTransmitter) + (IF byte = <<>> THEN 0 ELSE 1)
      /\ Numbered(InTransmitter', tx_behind')
  <2>1. CASE byte = <<>>
    <3>1. ~Meets(tx_fifo, byte, pop) /\ Shown(tx_fifo, byte, pop) = <<>>
      BY <2>1 DEF Meets, Shown
    <3>2. InTransmitter' = InTransmitter /\ tx_behind' = tx_behind
      BY <1>2, <1>3, <1>6, <3>1, ConcatEmptySeq DEF Sent
    <3> QED  BY <1>3, <2>1, <3>2 DEF UartInv, UartFlow
  <2>2. CASE byte = <<Len(InTransmitter) + 1>>
    <3>1. byte # <<>>
      BY <2>2
    <3>2. PICK met \in BOOLEAN : met = Meets(tx_fifo, byte, pop)
      BY DEF Meets
    <3>3. PICK v : v = IF met THEN Stale ELSE Len(InTransmitter) + 1
      OBVIOUS
    <3>4. Shown(tx_fifo, byte, pop) = <<v>>
      BY <2>2, <3>2, <3>3 DEF Shown
    <3>5. tx_behind' = IF met THEN tx_behind \cup {Len(InTransmitter) + 1} ELSE tx_behind
      BY <1>2, <3>2 DEF Sent
    <3>6. InTransmitter' = InTransmitter \o <<v>>
      BY <1>6, <3>4
    <3> QED  BY <1>3, <3>1, <3>3, <3>5, <3>6, NextByte
  <2> QED  BY <1>4, <2>1, <2>2
<1>9. UartFlow'
  BY <1>5, <1>8 DEF UartFlow
<1> QED  BY <1>5, <1>6, <1>7, <1>8, <1>9

LEMMA StatusEdge ==
  ASSUME UartInv, Status
  PROVE  /\ UartTypeOK' /\ UartPop' /\ UartFlow'
         /\ Len(InTransmitter') = Len(InTransmitter)
         /\ tx_ready => tx_ready'
         /\ rx_end => rx_end'
         /\ ~rx_end /\ rx_end' => rx_irq'
         /\ todo' = todo
<1>1. UartEdge(<<>>, FALSE) /\ got' = got /\ line' = line /\ todo' = todo
  BY DEF Status, uart_locals
<1>2. <<>> \in Seq(Nat) /\ Len(InTransmitter) \in Nat
  BY EmptySeq, InTransmitterType, LenProperties
<1>3. /\ UartTypeOK' /\ UartPop' /\ UartFlow'
      /\ Len(InTransmitter') = Len(InTransmitter) + (IF <<>> = <<>> THEN 0 ELSE 1)
      /\ tx_ready => tx_ready'
      /\ rx_end => rx_end'
      /\ ~rx_end /\ rx_end' => rx_irq'
  BY <1>1, <1>2, AccessEdge
<1>4. Len(InTransmitter') = Len(InTransmitter)
  BY <1>2, <1>3
<1> QED  BY <1>1, <1>3, <1>4

LEMMA rxEdge ==
  ASSUME UartInv, rx, rx_end
  PROVE  /\ UartTypeOK' /\ UartPop' /\ UartFlow'
         /\ todo' = todo /\ drained' = drained
<1>1. UartEdge(<<>>, TRUE) /\ line' = line /\ todo' = todo /\ drained' = drained
  BY DEF rx
<1>2. got' = Append(got, Head(rx_fifo))
  BY DEF rx, UartInv
<1>3. <<>> \in Seq(Nat)
  BY EmptySeq
<1> QED  BY <1>1, <1>2, <1>3, AccessEdge

LEMMA txEdge ==
  ASSUME UartInv, todo # <<>>, tx(Head(todo)), tx_ready, todo' = Tail(todo),
         call \in {"tx_bytes_block", "write"}
  PROVE  /\ UartTypeOK' /\ UartPop' /\ UartFlow' /\ drained' = drained
         /\ todo' \in Seq(Nat) /\ Len(todo') = Len(todo) - 1 /\ Len(todo) \in Nat
         /\ \A i \in 1 .. Len(todo') : todo'[i] = Len(InTransmitter') + i
<1>1. UartEdge(<<Head(todo)>>, FALSE) /\ line' = line /\ got' = got /\ drained' = drained
  BY DEF tx
<1>2. /\ todo \in Seq(Nat) /\ Len(todo) \in Nat /\ Len(InTransmitter) \in Nat
      /\ \A i \in 1 .. Len(todo) : todo[i] = Len(InTransmitter) + i
  BY InTransmitterType, LenProperties DEF UartInv, UartTodo
<1>3. /\ todo' \in Seq(Nat) /\ Len(todo') = Len(todo) - 1 /\ Head(todo) = todo[1]
      /\ Len(todo) > 0 /\ \A i \in 1 .. Len(todo') : todo'[i] = todo[i + 1]
  BY <1>2, HeadTailProperties, EmptySeq
<1>4. Head(todo) = Len(InTransmitter) + 1 /\ <<Head(todo)>> \in Seq(Nat) /\ <<Head(todo)>> # <<>>
  BY <1>2, <1>3
<1>5. /\ UartTypeOK' /\ UartPop' /\ UartFlow'
      /\ Len(InTransmitter') = Len(InTransmitter) + 1
  BY <1>1, <1>4, AccessEdge
<1> QED  BY <1>1, <1>2, <1>3, <1>5

-----------------------------------------------------------------------------
\* The calls that receive.
LEMMA ReceiveStep ==
  ASSUME UartInv, rx_block \/ discard_rx_fifo \/ read
  PROVE  UartInv'
<1> USE DEF At, Begin, Continue, Return, Goto, Resting
<1>1. /\ program = "uart" /\ todo \in Seq(Nat) /\ drained = FALSE
      /\ call \in {"rx_block", "discard_rx_fifo", "read"}
  BY DEF UartInv, UartTodo, UartIrq, rx_block, discard_rx_fifo, read
<1>2. /\ program' = program
      /\ \/ call' = "none" /\ step' = 0
         \/ call' = call /\ step' \in {1, 2, 3}
  BY <1>1 DEF rx_block, discard_rx_fifo, read
<1>3. drained' = drained => drained' \in BOOLEAN /\ ~drained'
  BY <1>1, Zenon
<1> DEFINE Looks == /\ Status /\ (step' = 2 /\ call' = call => rx_end)
                    /\ drained' \in BOOLEAN /\ (drained' => ~rx_end /\ call' = "none")
           Reads == rx /\ step = 2 /\ (step' # 2 \/ call' # call)
<1>4. CASE Looks
  <2>1. drained' \in BOOLEAN /\ (drained' => ~rx_end /\ call' = "none")
    BY <1>4
  <2>2. step' = 2 /\ call' = call => rx_end
    BY <1>4
  <2>3. /\ UartTypeOK' /\ UartPop' /\ UartFlow' /\ todo' = todo
        /\ (rx_end => rx_end') /\ (~rx_end /\ rx_end' => rx_irq')
    BY <1>4, StatusEdge
  <2>4. UartIrq'
    BY <1>1, <2>1, <2>3 DEF UartIrq, rx_end
  <2>5. UartAccess' /\ UartTodo'
    BY <1>1, <1>2, <2>2, <2>3 DEF UartAccess, UartTodo
  <2> QED  BY <1>1, <1>2, <2>3, <2>4, <2>5 DEF UartInv
<1>5. CASE Reads
  <2>1. step' # 2 \/ call' # call
    BY <1>5
  <2>2. rx_end
    BY <1>1, <1>5 DEF UartInv, UartAccess
  <2>3. UartTypeOK' /\ UartPop' /\ UartFlow' /\ todo' = todo /\ drained' = drained
    BY <1>5, <2>2, rxEdge
  <2>4. UartIrq' /\ UartAccess' /\ UartTodo'
    BY <1>1, <1>2, <2>1, <2>3 DEF UartIrq, UartAccess, UartTodo
  <2> QED  BY <1>1, <1>2, <2>3, <2>4 DEF UartInv
<1>6. Looks \/ Reads
  <2>1. CASE rx_block
    BY <1>1, <2>1 DEF rx_block
  <2>2. CASE discard_rx_fifo
    <3>1. CASE At("discard_rx_fifo", 1) /\ ~rx_end
      <4>1. Status /\ drained' = TRUE /\ call' = "none"
        BY <2>2, <3>1 DEF discard_rx_fifo
      <4> QED  BY <3>1, <4>1
    <3>2. CASE At("discard_rx_fifo", 1) /\ rx_end
      <4>1. Status /\ drained' = drained /\ step' = 2
        BY <1>1, <2>2, <3>2 DEF discard_rx_fifo
      <4> QED  BY <1>3, <3>2, <4>1
    <3>3. CASE ~At("discard_rx_fifo", 1)
      BY <2>2, <3>3 DEF discard_rx_fifo
    <3> QED  BY <3>1, <3>2, <3>3
  <2>3. CASE read
    <3>1. CASE At("read", 3)
      <4>1. drained' = ~rx_end /\ Status /\ (rx_end \/ call' = "none")
        BY <2>3, <3>1 DEF read
      <4>2. step' = 2 /\ call' = call => rx_end
        BY <2>3, <3>1 DEF read
      <4>3. drained' \in BOOLEAN
        BY <4>1 DEF rx_end
      <4>4. drained' => ~rx_end
        BY <4>1 DEF rx_end
      <4> QED  BY <4>1, <4>2, <4>3, <4>4
    <3>2. CASE At("read", 1)
      <4>1. Status /\ drained' = drained /\ rx_end
        BY <1>1, <2>3, <3>2 DEF read
      <4> QED  BY <1>3, <4>1
    <3>3. CASE ~At("read", 1) /\ ~At("read", 3)
      BY <2>3, <3>3 DEF read
    <3> QED  BY <3>1, <3>2, <3>3
  <2> QED  BY <2>1, <2>2, <2>3
<1> QED  BY <1>4, <1>5, <1>6

\* The calls that send.
LEMMA SendStep ==
  ASSUME UartInv, tx_bytes_block \/ write \/ flush
  PROVE  UartInv'
<1> USE DEF At, Begin, Continue, Return, Goto, Resting
<1>1. /\ program = "uart" /\ todo \in Seq(Nat) /\ drained = FALSE
      /\ call \in {"tx_bytes_block", "write", "flush_uart"}
  BY DEF UartInv, UartTodo, UartIrq, tx_bytes_block, write, flush
<1>2. /\ program' = program
      /\ \/ call' = "none" /\ step' = 0
         \/ call' = call /\ step' \in {1, 2, 3} /\ call # "flush_uart"
  BY <1>1 DEF tx_bytes_block, write, flush
<1> DEFINE Looks == /\ Status /\ drained' = drained
                    /\ step' = 2 /\ call' = call => tx_ready /\ (step = 1 \/ todo # <<>>)
                    /\ step' # 1 \/ call' # call
           Sends == /\ tx(Head(todo)) /\ todo' = Tail(todo)
                    /\ call \in {"tx_bytes_block", "write"} /\ step = 2
                    /\ step' # 2 \/ call' # call
                    /\ call' = call /\ step' = 1 => Len(todo) > 1
<1>3. CASE Looks
  <2>1. step' = 2 /\ call' = call => tx_ready /\ todo # <<>>
    BY <1>1, <1>2, <1>3 DEF UartInv, UartTodo
  <2>2. step' # 1 \/ call' # call
    BY <1>3
  <2>3. /\ UartTypeOK' /\ UartPop' /\ UartFlow' /\ todo' = todo
        /\ Len(InTransmitter') = Len(InTransmitter) /\ (tx_ready => tx_ready')
    BY <1>3, StatusEdge
  <2>4. UartIrq'
    BY <1>1, <1>3 DEF UartIrq
  <2>5. UartAccess'
    BY <1>1, <1>2, <2>1, <2>3 DEF UartAccess
  <2>6. UartTodo'
    BY <1>1, <1>2, <2>1, <2>2, <2>3 DEF UartTodo, UartInv
  <2> QED  BY <1>1, <1>2, <2>3, <2>4, <2>5, <2>6 DEF UartInv
<1>4. CASE Sends
  <2>1. /\ call \in {"tx_bytes_block", "write"} /\ step = 2
        /\ step' # 2 \/ call' # call
        /\ call' = call /\ step' = 1 => Len(todo) > 1
    BY <1>4
  <2>2. todo # <<>> /\ tx_ready
    BY <2>1 DEF UartInv, UartTodo, UartAccess
  <2>3. /\ UartTypeOK' /\ UartPop' /\ UartFlow' /\ drained' = drained
        /\ todo' \in Seq(Nat) /\ Len(todo') = Len(todo) - 1 /\ Len(todo) \in Nat
        /\ \A i \in 1 .. Len(todo') : todo'[i] = Len(InTransmitter') + i
    BY <1>4, <2>1, <2>2, txEdge
  <2>4. UartIrq' /\ UartAccess'
    BY <1>1, <1>2, <2>1, <2>3 DEF UartIrq, UartAccess
  <2>5. call' = call /\ step' = 1 => todo' # <<>>
    BY <2>1, <2>3, EmptySeq
  <2>6. UartTodo'
    BY <1>2, <2>1, <2>3, <2>5 DEF UartTodo
  <2> QED  BY <1>1, <1>2, <2>3, <2>4, <2>6 DEF UartInv
<1>5. Looks \/ Sends
  <2>1. CASE tx_bytes_block
    BY <1>1, <2>1 DEF tx_bytes_block
  <2>2. CASE write
    BY <1>1, <2>2 DEF write
  <2>3. CASE flush
    BY <2>3 DEF flush
  <2> QED  BY <2>1, <2>2, <2>3
<1> QED  BY <1>3, <1>4, <1>5

\* Frames end and bytes are taken while nobody looks.
Received == rx_behind \subseteq 1 .. Len(taken) /\ got \o rx_fifo = AsShown(taken, rx_behind)

LEMMA DeviceStep ==
  ASSUME UartInv, UartDevice
  PROVE  UartInv'
<1>1. /\ UNCHANGED <<program, call, step, rx_byte, room, todo>>
      /\ UartTypeOK /\ UartPop /\ Received /\ program = "uart"
  BY DEF UartDevice, call_vars, uart_locals, UartInv, UartFlow, Received
<1>2. InTransmitter \in Seq(Nat)
  BY InTransmitterType
<1> DEFINE Same == /\ UartTypeOK' /\ UartPop' /\ Received'
                   /\ InTransmitter' = InTransmitter /\ tx_behind' = tx_behind /\ (tx_ready => tx_ready')
                   /\ drained' = drained /\ (rx_end => rx_end')
                   /\ ~rx_end /\ rx_end' => rx_irq'
                   /\ rx_irq => rx_irq'
<1>3. ASSUME FrameEnds PROVE Same
  <2>1. PICK frame \in Incoming \ {<<>>} : Receiver(frame, FALSE) /\ Came(frame, FALSE)
    BY <1>3 DEF FrameEnds
  <2>2. UNCHANGED <<tx_fifo, tx_buffer, tx_fifo_ren, tx_behind, got, line, drained>>
    BY <1>3 DEF FrameEnds
  <2>3. /\ rx_fifo' \in Seq(Nat) /\ Len(rx_fifo') <= DEPTH
        /\ rx_irq' \in BOOLEAN /\ arrived' \in Nat /\ taken' \in Seq(Nat)
        /\ Received'
        /\ rx_end => rx_end'
        /\ rx_irq'
    BY <2>1, <2>2, ReceiverEdge DEF Received
  <2>4. InTransmitter' = InTransmitter /\ (tx_ready => tx_ready') /\ UartPop'
    BY <1>1, <2>2 DEF InTransmitter, tx_ready, UartPop
  <2>5. UartTypeOK'
    BY <1>1, <2>2, <2>3 DEF UartTypeOK
  <2>6. Same
    BY <2>2, <2>3, <2>4, <2>5, Zenon
  <2> QED  BY <2>6
<1>4. ASSUME CopyFifo PROVE Same
  <2>1. /\ tx_buffer = <<>> /\ tx_fifo # <<>> /\ ~tx_fifo_ren
        /\ tx_buffer' = <<Head(tx_fifo)>> /\ tx_fifo_ren' = TRUE
        /\ UNCHANGED <<rx_fifo, rx_irq, tx_fifo, arrived, taken, got, line, drained, rx_behind, tx_behind>>
    BY <1>4 DEF CopyFifo, tx_empty, uart_history, uart_stale
  <2>2. line \in Seq(Nat) /\ tx_fifo \in Seq(Nat) /\ Tail(tx_fifo) \in Seq(Nat) /\ Head(tx_fifo) \in Nat
    BY <1>1, <2>1, HeadTailProperties DEF UartTypeOK
  <2>3. (line \o <<Head(tx_fifo)>>) \o Tail(tx_fifo) = line \o tx_fifo
    <3>1. <<Head(tx_fifo)>> \in Seq(Nat) /\ <<Head(tx_fifo)>> \o Tail(tx_fifo) = tx_fifo
      BY <2>1, <2>2, HeadAndTail
    <3> QED  BY <2>2, <3>1, Regroup
  <2>4. line \o <<>> = line
    BY <2>2, ConcatEmptySeq
  <2>5. InTransmitter' = InTransmitter
    BY <2>1, <2>3, <2>4 DEF InTransmitter
  <2>6. UartTypeOK' /\ UartPop'
    BY <1>1, <2>1, <2>2 DEF UartTypeOK, UartPop
  <2>7. (tx_ready => tx_ready') /\ (rx_end' <=> rx_end) /\ (rx_irq => rx_irq') /\ Received'
    BY <1>1, <2>1 DEF tx_ready, rx_end, Received
  <2>8. Same
    BY <2>1, <2>5, <2>6, <2>7, Zenon
  <2> QED  BY <2>8
<1>5. ASSUME PopFifo PROVE Same
  <2>1. /\ Transmitter(<<>>, TRUE)
        /\ UNCHANGED <<rx_fifo, rx_irq, arrived, taken, got, line, drained, rx_behind, tx_behind>>
    BY <1>5 DEF PopFifo, uart_history, uart_stale
  <2>2. <<>> \in Seq(Nat) /\ TRUE \in BOOLEAN
    BY EmptySeq
  <2>3. /\ tx_fifo' \in Seq(Nat) /\ Len(tx_fifo') <= DEPTH /\ tx_fifo_ren' \in BOOLEAN
        /\ tx_buffer' = tx_buffer
        /\ InTransmitter' = InTransmitter \o Shown(tx_fifo, <<>>, TRUE) /\ UartPop'
        /\ tx_ready => tx_ready'
    BY <2>1, <2>2, TransmitterEdge
  <2>4. InTransmitter' = InTransmitter
    BY <1>2, <2>3, ConcatEmptySeq DEF Shown, Meets
  <2>5. UartTypeOK'
    BY <1>1, <2>1, <2>3 DEF UartTypeOK
  <2>6. (rx_end' <=> rx_end) /\ (rx_irq => rx_irq') /\ Received'
    BY <1>1, <2>1 DEF rx_end, Received
  <2>7. Same
    BY <2>1, <2>3, <2>4, <2>5, <2>6, Zenon
  <2> QED  BY <2>7
<1>6. ASSUME ByteSent PROVE Same
  <2>1. /\ ~tx_fifo_ren /\ tx_buffer' = <<>> /\ line' = line \o tx_buffer
        /\ UNCHANGED <<rx_fifo, rx_irq, tx_fifo, tx_fifo_ren, arrived, taken, got, drained,
                    rx_behind, tx_behind>>
    BY <1>1, <1>6 DEF ByteSent, uart_stale
  <2>2. line \o tx_buffer \in Seq(Nat) /\ <<>> \in Seq(Nat)
    BY <1>1, ConcatProperties, EmptySeq DEF UartTypeOK
  <2>3. (line \o tx_buffer) \o <<>> = line \o tx_buffer
    BY <2>2, ConcatEmptySeq
  <2>4. InTransmitter' = InTransmitter
    BY <2>1, <2>3 DEF InTransmitter
  <2>5. UartTypeOK' /\ UartPop'
    BY <1>1, <2>1, <2>2 DEF UartTypeOK, UartPop
  <2>6. (tx_ready => tx_ready') /\ (rx_end' <=> rx_end) /\ (rx_irq => rx_irq') /\ Received'
    BY <1>1, <2>1 DEF tx_ready, rx_end, Received
  <2>7. Same
    BY <2>1, <2>4, <2>5, <2>6, Zenon
  <2> QED  BY <2>7
<1>7. Same
  <2>1. FrameEnds \/ CopyFifo \/ PopFifo \/ ByteSent
    BY DEF UartDevice, TransmitterSteps
  <2> HIDE DEF Same
  <2> QED  BY <1>3, <1>4, <1>5, <1>6, <2>1
<1>8. UartFlow'
  BY <1>7 DEF UartInv, UartFlow, Received
<1>9. UartTodo' /\ UartAccess'
  BY <1>1, <1>7 DEF UartInv, UartTodo, UartAccess
<1>10. UartIrq'
  BY <1>1, <1>7 DEF UartInv, UartIrq, Resting
<1> QED  BY <1>1, <1>7, <1>8, <1>9, <1>10 DEF UartInv

\* The next call, of a buffer that follows what has been sent.
LEMMA UartCallStep ==
  ASSUME UartInv, CallUart
  PROVE  UartInv'
<1>1. /\ UNCHANGED <<rx_fifo, rx_irq, tx_fifo, tx_buffer, tx_fifo_ren, arrived, taken, got, line,
                     rx_behind, tx_behind>>
      /\ drained' = FALSE /\ program' = program /\ step' = 1
      /\ \/ call' \notin {"tx_bytes_block", "write"} /\ todo' = todo
         \/ \E n \in 1 .. MaxBuffer : todo' = NextBytes(n)
  BY DEF CallUart, uart_device, uart_stale, Begin, Goto
<1>2. InTransmitter' = InTransmitter /\ Len(InTransmitter) \in Nat
  BY <1>1, InTransmitterType, LenProperties DEF InTransmitter, UartInv
<1>3. UartTypeOK' /\ UartPop' /\ UartIrq' /\ UartAccess'
  <2>1. UartTypeOK'
    BY <1>1 DEF UartInv, UartTypeOK
  <2>2. UartPop'
    BY <1>1 DEF UartInv, UartPop
  <2>3. UartIrq'
    BY <1>1 DEF UartIrq
  <2>4. UartAccess'
    BY <1>1 DEF UartAccess
  <2> QED  BY <2>1, <2>2, <2>3, <2>4
<1>4. UartFlow'
  BY <1>1, <1>2 DEF UartInv, UartFlow
<1>5. UartTodo'
  <2>1. CASE call' \notin {"tx_bytes_block", "write"} /\ todo' = todo
    BY <2>1 DEF UartInv, UartTodo
  <2>2. ASSUME NEW n \in 1 .. MaxBuffer, todo' = NextBytes(n) PROVE UartTodo'
    <3>1. n \in Nat /\ n > 0
      BY UartAssumption
    <3>2. todo' \in [1 .. n -> Nat] /\ \A i \in 1 .. n : todo'[i] = Len(InTransmitter) + i
      BY <1>2, <2>2, <3>1 DEF NextBytes
    <3>3. todo' \in Seq(Nat) /\ Len(todo') = n
      BY <3>1, <3>2, SeqDef, LenProperties
    <3>4. todo' # <<>>
      BY <3>1, <3>3, EmptySeq
    <3> QED  BY <1>2, <3>2, <3>3, <3>4 DEF UartTodo
  <2> QED  BY <1>1, <2>1, <2>2
<1> QED  BY <1>1, <1>3, <1>4, <1>5 DEF UartInv

LEMMA UartStill ==
  ASSUME UartInv, UNCHANGED uvars
  PROVE  UartInv'
<1>1. UNCHANGED <<program, call, step, rx_fifo, rx_irq, tx_fifo, tx_buffer, tx_fifo_ren, todo,
                  arrived, taken, got, line, drained, rx_behind, tx_behind>>
  BY DEF uvars, call_vars, uart_vars, uart_device, uart_locals, uart_history, uart_stale
<1> QED  BY <1>1 DEF UartInv, UartTypeOK, UartAccess, UartTodo, UartPop, UartIrq, UartFlow,
                     InTransmitter, rx_end, tx_ready, Resting

LEMMA UartStart == UartInit => UartInv
<1> SUFFICES ASSUME UartInit PROVE UartInv
  OBVIOUS
<1> USE DEF UartInit, UartRest
<1>1. <<>> \in Seq(Nat) /\ Len(<<>>) = 0 /\ <<>> \o <<>> = <<>>
  BY EmptySeq, ConcatEmptySeq
<1>2. InTransmitter = <<>>
  BY <1>1 DEF InTransmitter
<1>3. UartTypeOK
  <2>1. rx_irq \in BOOLEAN /\ tx_fifo_ren \in BOOLEAN
    BY Zenon
  <2>2. 0 <= DEPTH
    BY UartAssumption
  <2> QED  BY <1>1, <2>1, <2>2 DEF UartTypeOK
<1>4. UartAccess /\ UartTodo /\ UartPop
  BY <1>1 DEF UartAccess, UartTodo, UartPop
<1>5. UartIrq
  BY DEF UartIrq
<1>6. UartFlow
  <2>1. AsShown(taken, rx_behind) = <<>>
    BY <1>1 DEF AsShown
  <2>2. Numbered(InTransmitter, tx_behind)
    BY <1>1, <1>2 DEF Numbered
  <2> QED  BY <1>1, <2>1, <2>2 DEF UartFlow
<1> QED  BY <1>3, <1>4, <1>5, <1>6 DEF UartInv

LEMMA UartInvariant == UartSpec => []UartInv
<1>1. UartInit => UartInv
  BY UartStart
<1>2. UartInv /\ [UartNext]_uvars => UartInv'
  <2> SUFFICES ASSUME UartInv, [UartNext]_uvars PROVE UartInv'
    OBVIOUS
  <2>1. CASE UartDriver
    BY <2>1, ReceiveStep, SendStep DEF UartDriver
  <2>2. CASE UartPoll \/ UNCHANGED uvars
    BY <2>2, UartStill DEF UartPoll
  <2> QED  BY <2>1, <2>2, DeviceStep, UartCallStep DEF UartNext
<1> QED  BY <1>1, <1>2, PTL DEF UartSpec

\* Whatever the mixture of calls, of buffers of any length, and whenever frames
\* end and bytes are taken: no byte is lost that found room in the FIFO, none
\* comes twice, and a byte behind an emptied FIFO has raised the interrupt.  The
\* bytes have their own values but for those written at the edge at which the
\* last element before them is read.
THEOREM UartBytesOnce == UartSpec => []BytesOnce
<1>1. UartInv => BytesOnce
  <2> SUFFICES ASSUME UartInv
               PROVE  /\ got \o rx_fifo = AsShown(taken, rx_behind)
                      /\ InTransmitter = AsShown([i \in 1 .. Len(InTransmitter) |-> i], tx_behind)
                      /\ drained /\ Resting /\ rx_end => rx_irq
    BY DEF BytesOnce
  <2>4. PICK behind : behind = tx_behind
    OBVIOUS
  <2>5. PICK s \in Seq(Nat) : s = InTransmitter
    BY InTransmitterType
  <2>1. s = InTransmitter /\ behind = tx_behind
    BY <2>4, <2>5
  <2>2. Numbered(s, behind) /\ s \in [1 .. Len(s) -> Nat] /\ Len(s) \in Nat
    BY <2>1, LenProperties DEF UartInv, UartFlow
  <2>3. s = AsShown([i \in 1 .. Len(s) |-> i], behind)
    <3>1. [i \in 1 .. Len(s) |-> i] \in Seq(Nat) /\ Len([i \in 1 .. Len(s) |-> i]) = Len(s)
      BY <2>2
    <3> QED  BY <2>2, <3>1 DEF Numbered, AsShown
  <2> QED  BY <2>1, <2>3 DEF UartInv, UartFlow, UartIrq
<1> QED  BY <1>1, UartInvariant, PTL
-----------------------------------------------------------------------------
(***************************************************************************)
(* I2C.                                                                    *)
(***************************************************************************)
Ops    == [kind : {"Read", "Write"}, len : Nat]
Writes == {"start_write"} \cup Blocks
Reads  == {"start_read", "read_block", "finish_read_block"}

I2cTypeOK ==
  /\ shift \in {"none"} \cup Frames /\ queued \in {"none", "data"} \cup Addresses
  /\ trrdy \in BOOLEAN /\ srw \in BOOLEAN /\ rarc \in BOOLEAN /\ busy \in BOOLEAN
  /\ left \in Nat /\ operations \in Seq(Ops)

\* What is on the bus between two operations: nothing, a frame of a write phase,
\* whose address has cleared srw when it was sent, or a frame of a read phase.
Empty   == shift = "none" /\ queued = "none"
InWrite == shift \in {"address_write", "data"} /\ queued = "none" /\ (shift = "data" => ~srw)
InRead  == shift = "read" /\ queued = "none" /\ reading = "more"
\* No frame under way whose refusal would be counted.
Settled == queued = "none" /\ shift # "address_read"

\* The acknowledgement of the address of a read is the one to be seen.
AddressSeen == nacks = IF rarc THEN {"address_read"} ELSE {}

Reported ==
  /\ err = "Ok" => nacks = {}
  /\ err = "Address" => nacks \in {{"address_read"}, {"address_write"}}
  /\ err = "Data" => nacks # {}

\* The operation under way, and the ones still to come.
I2cOperations ==
  /\ NoEmptyWriteBetween(operations)
  /\ call \in Writes => operations # <<>> /\ op.kind = "Write" /\ last_op = "Write"
  /\ call \in Reads => operations # <<>> /\ op.kind = "Read" /\ last_op = "Read"
  /\ call \in Writes /\ srw => left > 0 \/ IsLast
  /\ At("transaction", 3) /\ last_op = "Read" /\ operations # <<>> /\ op.kind = "Write" =>
       op.len > 0 \/ IsLast

\* Where the transaction is, what is on the bus.
I2cIdle ==
  /\ shift # "none" => busy
  /\ Resting \/ call \in {"reset", "set_prescale", "fail"} => Settled /\ Reported
  /\ At("fail", 1) => shift # "none"
  /\ At("transaction", 1) \/ At("transaction", 2) =>
       Settled /\ err = "Ok" /\ nacks = {} /\ last_op = "Null"
  /\ At("transaction", 2) => ~srw

I2cLoop ==
  At("transaction", 3) =>
    /\ Settled /\ err = "Ok" /\ nacks = {}
    /\ operations # <<>> =>
         /\ last_op \in {"Null", "Write", "Read"}
         /\ last_op = "Null"  => Empty /\ ~srw
         /\ last_op = "Write" => InWrite /\ ~srw
         /\ last_op = "Read"  => IF op.kind = "Read" THEN InRead /\ ~trrdy ELSE Empty

I2cWriting ==
  call \in Writes =>
    /\ err = "Ok" /\ step \in {1, 2}
    /\ At("start_write", 1) => Empty /\ nacks = {}
    /\ At("start_write", 2) => InWrite /\ shift = "address_write" /\ trrdy /\ nacks = {}
    /\ call \in Blocks /\ step = 1 =>
         InWrite /\ nacks = {} /\ (call = "first_block" => shift = "address_write")
    /\ call \in Blocks /\ step = 2 => left > 0
    /\ call \in Blocks /\ step = 2 /\ ~trrdy =>
         /\ shift \in {"address_write", "data"} /\ queued = "data" /\ nacks = {}
         /\ shift = "data" => ~srw /\ call # "first_block"
    /\ call \in Blocks /\ step = 2 /\ trrdy =>
         /\ shift = "data" /\ queued = "none" /\ ~srw /\ (rarc <=> nacks # {})
         /\ call = "first_block" => nacks \subseteq {"address_write"}

I2cReading ==
  call \in Reads =>
    /\ err = "Ok" /\ step \in {1, 2, 3}
    /\ At("start_read", 1) =>
         shift \in {"none", "address_write", "data"} /\ queued = "none" /\ ~srw /\ nacks = {}
    /\ At("start_read", 2) /\ ~srw =>
         /\ nacks = {}
         /\ \/ shift \in {"address_write", "data"} /\ queued = "address_read"
            \/ shift = "address_read" /\ queued = "none"
    /\ At("start_read", 2) /\ srw => Empty /\ busy /\ AddressSeen
    /\ At("start_read", 3) => InRead /\ ~trrdy /\ AddressSeen
    /\ call = "read_block" => InRead /\ nacks = {} /\ (left <= 1 /\ ~ReadFollows => ~trrdy)
    /\ call = "finish_read_block" => ~ReadFollows
    /\ At("finish_read_block", 1) => InRead /\ nacks = {} /\ ~trrdy
    /\ At("finish_read_block", 2) =>
         nacks = {} /\ IF trrdy THEN Empty ELSE shift = "read" /\ queued = "none" /\ reading = "last"
    /\ At("finish_read_block", 3) => nacks = {} /\ Empty /\ IsLast

I2cCalls ==
  call \in {"none", "reset", "set_prescale", "transaction", "fail"} \cup Writes \cup Reads

I2cInv ==
  /\ program = "i2c" /\ I2cCalls /\ I2cTypeOK
  /\ I2cOperations /\ I2cIdle /\ I2cLoop /\ I2cWriting /\ I2cReading

\* Behind the operation that has been done.
LEMMA OperationsLeft ==
  ASSUME NEW ops \in Seq(Ops), ops # <<>>, NoEmptyWriteBetween(ops)
  PROVE  /\ Tail(ops) \in Seq(Ops) /\ NoEmptyWriteBetween(Tail(ops)) /\ Head(ops) \in Ops
         /\ Len(ops) \in Nat /\ (Len(ops) = 1 <=> Tail(ops) = <<>>)
         /\ Len(ops) > 1 => Head(Tail(ops)) = ops[2]
         /\ Tail(ops) # <<>> /\ Head(ops).kind = "Read" /\ Head(Tail(ops)).kind = "Write" =>
              Head(Tail(ops)).len > 0 \/ Len(Tail(ops)) = 1
<1>1. /\ Tail(ops) \in Seq(Ops) /\ Head(ops) = ops[1] /\ Head(ops) \in Ops
      /\ Len(ops) \in Nat /\ Len(ops) > 0 /\ Len(Tail(ops)) = Len(ops) - 1
      /\ \A i \in 1 .. Len(Tail(ops)) : Tail(ops)[i] = ops[i + 1]
  BY HeadTailProperties, EmptySeq, LenProperties
<1>2. Len(ops) = 1 <=> Tail(ops) = <<>>
  BY <1>1, EmptySeq
<1>3. Tail(ops) # <<>> => Head(Tail(ops)) = Tail(ops)[1] /\ Len(ops) > 1
  BY <1>1, <1>2, HeadTailProperties
<1>4. Len(ops) > 1 => Head(Tail(ops)) = ops[2]
  BY <1>1, <1>2, <1>3
<1>5. NoEmptyWriteBetween(Tail(ops))
  <2> SUFFICES ASSUME NEW i \in 1 .. Len(Tail(ops)) - 2,
                      Tail(ops)[i].kind = "Read", Tail(ops)[i + 1].kind = "Write"
               PROVE  Tail(ops)[i + 1].len > 0
    BY DEF NoEmptyWriteBetween
  <2>1. i + 1 \in 1 .. Len(ops) - 2 /\ Tail(ops)[i] = ops[i + 1] /\ Tail(ops)[i + 1] = ops[(i + 1) + 1]
    BY <1>1
  <2> QED  BY <2>1 DEF NoEmptyWriteBetween
<1>6. ASSUME Tail(ops) # <<>>, Head(ops).kind = "Read", Head(Tail(ops)).kind = "Write"
      PROVE  Head(Tail(ops)).len > 0 \/ Len(Tail(ops)) = 1
  <2>1. CASE Len(ops) > 2
    <3>1. 1 \in 1 .. Len(ops) - 2 /\ ops[1].kind = "Read" /\ ops[1 + 1].kind = "Write"
      BY <1>1, <1>4, <1>6, <2>1
    <3>2. ops[1 + 1].len > 0
      BY <3>1 DEF NoEmptyWriteBetween
    <3> QED  BY <1>4, <2>1, <3>2
  <2>2. CASE Len(ops) <= 2
    BY <1>1, <1>3, <1>6, <2>2
  <2>3. Len(ops) > 2 \/ Len(ops) <= 2
    BY <1>1
  <2> QED  BY <2>1, <2>2, <2>3
<1> QED  BY <1>1, <1>2, <1>4, <1>5, <1>6

LEMMA OpType ==
  I2cInv /\ operations # <<>> =>
    op \in Ops /\ op.len \in Nat /\ op.kind \in {"Read", "Write"} /\ Len(operations) \in Nat
<1> SUFFICES ASSUME I2cInv, operations # <<>>
             PROVE  op \in Ops /\ Len(operations) \in Nat
  BY DEF Ops
<1> QED  BY HeadTailProperties, LenProperties DEF I2cInv, I2cTypeOK, op

\* A transaction begins.
LEMMA BeginStep ==
  ASSUME I2cInv, StartTransaction \/ AwaitIdle
  PROVE  I2cInv'
<1> USE DEF At, Continue, Goto, Resting, Writes, Reads, Blocks
<1>1. CASE StartTransaction
  <2>1. /\ At("transaction", 1) /\ call' = call /\ step' = 2 /\ program' = program
        /\ srw' = FALSE /\ rarc' = FALSE /\ trrdy' = FALSE
        /\ UNCHANGED <<operations, last_op, left, err, shift, queued, nacks, busy>>
    BY <1>1 DEF StartTransaction, Enable, i2c_frames, i2c_locals
  <2>2. I2cTypeOK'
    BY <2>1 DEF I2cInv, I2cTypeOK
  <2>3. I2cOperations'
    BY <2>1 DEF I2cInv, I2cOperations
  <2>4. I2cIdle'
    BY <2>1 DEF I2cInv, I2cIdle, Settled
  <2>5. I2cLoop' /\ I2cWriting' /\ I2cReading' /\ I2cCalls'
    BY <2>1 DEF I2cLoop, I2cWriting, I2cReading, I2cCalls
  <2> QED  BY <2>1, <2>2, <2>3, <2>4, <2>5 DEF I2cInv
<1>2. CASE AwaitIdle
  <2>1. /\ At("transaction", 2) /\ call' = call /\ step' = 3 /\ program' = program /\ ~busy
        /\ UNCHANGED <<operations, last_op, left, err, shift, queued, reading, nacks,
                        trrdy, srw, rarc, busy>>
    BY <1>2 DEF AwaitIdle, Quiet, i2c_frames, i2c_locals, i2c_status
  <2>2. I2cTypeOK'
    BY <2>1 DEF I2cInv, I2cTypeOK
  <2>3. I2cOperations' /\ I2cIdle'
    BY <2>1 DEF I2cInv, I2cOperations, I2cIdle
  <2>4. I2cLoop'
    BY <2>1 DEF I2cInv, I2cIdle, I2cLoop, Settled, Empty
  <2>5. I2cWriting' /\ I2cReading' /\ I2cCalls'
    BY <2>1 DEF I2cWriting, I2cReading, I2cCalls
  <2> QED  BY <2>1, <2>2, <2>3, <2>4, <2>5 DEF I2cInv
<1> QED  BY <1>1, <1>2

\* The next operation begins, with the address unless the phase goes on.
LEMMA OpStep ==
  ASSUME I2cInv, OpLoop
  PROVE  I2cInv'
<1> USE DEF At, Continue, Goto, Begin, Return, Resting, Writes, Reads, Blocks
<1>1. /\ At("transaction", 3) /\ operations # <<>> /\ program' = program
      /\ left' = op.len /\ last_op' = op.kind /\ step' = 1
      /\ call' = IF last_op = op.kind
                 THEN IF op.kind = "Read" THEN "read_block" ELSE "write_block"
                 ELSE IF op.kind = "Read" THEN "start_read" ELSE "start_write"
      /\ UNCHANGED <<operations, err, shift, queued, reading, nacks, trrdy, srw, rarc, busy>>
  BY DEF OpLoop, Quiet, i2c_frames, i2c_status
<1>2. op' = op /\ op.len \in Nat /\ op.kind \in {"Read", "Write"}
  BY <1>1, OpType DEF op
<1>3. I2cTypeOK'
  BY <1>1, <1>2 DEF I2cInv, I2cTypeOK
<1>4. call' \in Writes /\ srw => op.len > 0 \/ IsLast
  BY <1>1, <1>2 DEF I2cInv, I2cOperations, I2cLoop
<1>5. I2cOperations'
  BY <1>1, <1>2, <1>4 DEF I2cInv, I2cOperations, IsLast
<1>6. I2cIdle' /\ I2cLoop' /\ I2cCalls'
  BY <1>1, <1>2 DEF I2cInv, I2cIdle, I2cLoop, I2cCalls
<1>7. I2cWriting'
  BY <1>1, <1>2 DEF I2cInv, I2cLoop, I2cWriting, Empty, InWrite
<1>8. I2cReading'
  BY <1>1, <1>2 DEF I2cInv, I2cLoop, I2cReading, Empty, InWrite, InRead
<1> QED  BY <1>1, <1>3, <1>5, <1>6, <1>7, <1>8 DEF I2cInv

\* A write phase.
LEMMA StartWriteStep ==
  ASSUME I2cInv, StartWrite
  PROVE  I2cInv'
<1> USE DEF At, Continue, Goto, Begin, Return, Resting, Writes, Reads, Blocks
<1>1. CASE At("start_write", 1) /\ Transmit("address_write") /\ Continue
  <2>1. shift = "none" /\ queued = "none" /\ err = "Ok" /\ nacks = {}
    BY <1>1 DEF I2cInv, I2cWriting, Empty
  <2>2. /\ shift' = "address_write" /\ trrdy' = TRUE /\ queued' = queued /\ busy' = TRUE
        /\ call' = call /\ step' = 2 /\ program' = program
        /\ UNCHANGED <<operations, last_op, left, err, nacks, srw, rarc>>
    BY <1>1, <2>1 DEF StartWrite, i2c_locals, Transmit
  <2>3. I2cTypeOK'
    BY <2>2 DEF I2cInv, I2cTypeOK, Frames, Addresses
  <2>4. I2cOperations'
    BY <1>1, <2>2 DEF I2cInv, I2cOperations, IsLast, op
  <2>5. I2cIdle' /\ I2cLoop' /\ I2cReading' /\ I2cCalls'
    BY <1>1, <2>2 DEF I2cIdle, I2cLoop, I2cReading, I2cCalls
  <2>6. I2cWriting'
    BY <1>1, <2>1, <2>2 DEF I2cWriting, InWrite
  <2> QED  BY <2>2, <2>3, <2>4, <2>5, <2>6 DEF I2cInv
<1>2. CASE At("start_write", 2) /\ Begin("first_block") /\ Quiet
  <2>1. /\ call' = "first_block" /\ step' = 1 /\ program' = program
        /\ UNCHANGED <<operations, last_op, left, err, shift, queued, reading, nacks,
                        trrdy, srw, rarc, busy>>
    BY <1>2 DEF StartWrite, Quiet, i2c_frames, i2c_locals, i2c_status
  <2>2. I2cTypeOK'
    BY <2>1 DEF I2cInv, I2cTypeOK
  <2>3. I2cOperations'
    BY <1>2, <2>1 DEF I2cInv, I2cOperations, IsLast, op
  <2>4. I2cIdle' /\ I2cLoop' /\ I2cReading' /\ I2cCalls'
    BY <2>1 DEF I2cInv, I2cIdle, I2cLoop, I2cReading, I2cCalls
  <2>5. I2cWriting'
    BY <1>2, <2>1 DEF I2cInv, I2cWriting, InWrite
  <2> QED  BY <2>1, <2>2, <2>3, <2>4, <2>5 DEF I2cInv
<1> QED  BY <1>1, <1>2 DEF StartWrite

LEMMA WriteBlockStep ==
  ASSUME I2cInv, WriteBlock
  PROVE  I2cInv'
<1> USE DEF At, Continue, Goto, Begin, Return, Resting, Writes, Reads, Blocks
<1>0. call \in Blocks
  BY DEF WriteBlock
<1>1. CASE step = 1 /\ left > 0 /\ Transmit("data") /\ Continue /\ UNCHANGED i2c_locals
  <2>1. shift \in {"address_write", "data"} /\ queued = "none" /\ err = "Ok" /\ nacks = {}
    BY <1>0, <1>1 DEF I2cInv, I2cWriting, InWrite
  <2>2. /\ shift' = shift /\ trrdy' = FALSE /\ queued' = "data" /\ busy' = TRUE
        /\ call' = call /\ step' = 2 /\ program' = program
        /\ UNCHANGED <<operations, last_op, left, err, nacks, srw, rarc>>
    BY <1>1, <2>1 DEF i2c_locals, Transmit
  <2>3. I2cTypeOK'
    BY <2>2 DEF I2cInv, I2cTypeOK
  <2>4. I2cOperations'
    BY <1>0, <2>2 DEF I2cInv, I2cOperations, IsLast, op
  <2>5. I2cIdle' /\ I2cLoop' /\ I2cReading' /\ I2cCalls'
    BY <1>0, <2>2 DEF I2cIdle, I2cLoop, I2cReading, I2cCalls
  <2>6. I2cWriting'
    BY <1>0, <1>1, <2>1, <2>2 DEF I2cInv, I2cWriting, InWrite
  <2> QED  BY <2>2, <2>3, <2>4, <2>5, <2>6 DEF I2cInv
<1>2. CASE /\ step = 2 /\ trrdy /\ rarc /\ Quiet
           /\ Fail(IF call = "first_block" THEN "Address" ELSE "Data")
  <2>1. /\ call' = "fail" /\ step' = 1 /\ program' = program
        /\ err' = IF call = "first_block" THEN "Address" ELSE "Data"
        /\ UNCHANGED <<operations, last_op, left, shift, queued, reading, nacks,
                        trrdy, srw, rarc, busy>>
    BY <1>2 DEF Fail, Quiet, i2c_frames, i2c_locals, i2c_status
  <2>2. /\ shift = "data" /\ queued = "none" /\ nacks # {}
        /\ call = "first_block" => nacks = {"address_write"}
    BY <1>0, <1>2 DEF I2cInv, I2cWriting
  <2>3. I2cTypeOK'
    BY <2>1 DEF I2cInv, I2cTypeOK
  <2>4. I2cOperations'
    BY <2>1 DEF I2cInv, I2cOperations
  <2>5. I2cIdle'
    BY <2>1, <2>2 DEF I2cInv, I2cIdle, Settled, Reported
  <2>6. I2cLoop' /\ I2cReading' /\ I2cWriting' /\ I2cCalls'
    BY <2>1 DEF I2cLoop, I2cReading, I2cWriting, I2cCalls
  <2> QED  BY <2>1, <2>3, <2>4, <2>5, <2>6 DEF I2cInv
<1>3. CASE /\ step = 2 /\ trrdy /\ ~rarc /\ Quiet /\ left' = left - 1
           /\ Begin("write_block") /\ UNCHANGED <<operations, last_op, err>>
  <2>1. /\ call' = "write_block" /\ step' = 1 /\ program' = program /\ left' = left - 1
        /\ UNCHANGED <<operations, last_op, err, shift, queued, reading, nacks,
                        trrdy, srw, rarc, busy>>
    BY <1>3 DEF Quiet, i2c_frames, i2c_locals, i2c_status
  <2>2. shift = "data" /\ queued = "none" /\ nacks = {} /\ ~srw /\ left > 0 /\ err = "Ok"
    BY <1>0, <1>3 DEF I2cInv, I2cWriting
  <2>3. I2cTypeOK'
    BY <2>1, <2>2 DEF I2cInv, I2cTypeOK
  <2>4. I2cOperations'
    BY <1>0, <2>1, <2>2 DEF I2cInv, I2cOperations, op
  <2>5. I2cIdle' /\ I2cLoop' /\ I2cReading' /\ I2cCalls'
    BY <2>1 DEF I2cInv, I2cIdle, I2cLoop, I2cReading, I2cCalls
  <2>6. I2cWriting'
    BY <2>1, <2>2 DEF I2cWriting, InWrite
  <2> QED  BY <2>1, <2>3, <2>4, <2>5, <2>6 DEF I2cInv
<1> QED  BY <1>1, <1>2, <1>3 DEF WriteBlock

LEMMA EndWriteStep ==
  ASSUME I2cInv, EndWrite
  PROVE  I2cInv'
<1> USE DEF At, Continue, Goto, Begin, Return, Resting, Writes, Reads, Blocks
<1>1. /\ call \in Blocks /\ step = 1 /\ left = 0 /\ operations' = Tail(operations)
      /\ call' = "transaction" /\ step' = 3 /\ program' = program
      /\ UNCHANGED <<last_op, left, err, shift, queued, nacks, trrdy, srw, rarc, busy>>
  BY DEF EndWrite, NextOperation, Stop, Quiet, i2c_frames, i2c_status
<1>2. /\ InWrite /\ nacks = {} /\ err = "Ok" /\ operations # <<>> /\ last_op = "Write"
      /\ srw => IsLast
  BY <1>1 DEF I2cInv, I2cWriting, I2cOperations
<1>3. /\ operations' \in Seq(Ops) /\ NoEmptyWriteBetween(operations')
      /\ IsLast => operations' = <<>>
  BY <1>1, <1>2, OperationsLeft DEF I2cInv, I2cTypeOK, I2cOperations, IsLast
<1>4. I2cTypeOK'
  BY <1>1, <1>3 DEF I2cInv, I2cTypeOK
<1>5. I2cOperations'
  BY <1>1, <1>2, <1>3 DEF I2cOperations
<1>6. I2cIdle' /\ I2cWriting' /\ I2cReading' /\ I2cCalls'
  BY <1>1 DEF I2cInv, I2cIdle, I2cWriting, I2cReading, I2cCalls
<1>7. I2cLoop'
  BY <1>1, <1>2, <1>3 DEF I2cLoop, InWrite, Settled
<1> QED  BY <1>1, <1>4, <1>5, <1>6, <1>7 DEF I2cInv

\* A read phase.
LEMMA StartReadStep ==
  ASSUME I2cInv, StartRead
  PROVE  I2cInv'
<1> USE DEF At, Continue, Goto, Begin, Return, Resting, Writes, Reads, Blocks
<1>1. CASE At("start_read", 1) /\ Transmit("address_read") /\ Continue /\ UNCHANGED i2c_locals
  <2>1. /\ shift \in {"none", "address_write", "data"} /\ queued = "none" /\ ~srw
        /\ nacks = {} /\ err = "Ok"
    BY <1>1 DEF I2cInv, I2cReading
  <2>2. /\ IF shift = "none" THEN shift' = "address_read" /\ queued' = "none"
           ELSE shift' = shift /\ queued' = "address_read"
        /\ trrdy' \in BOOLEAN /\ busy' = TRUE
        /\ call' = call /\ step' = 2 /\ program' = program
        /\ UNCHANGED <<operations, last_op, left, err, nacks, srw, rarc>>
    <3>1. CASE shift = "none"
      <4>1. trrdy' = TRUE /\ shift' = "address_read" /\ queued' = queued
        BY <1>1, <3>1 DEF Transmit
      <4> QED  BY <1>1, <2>1, <3>1, <4>1 DEF i2c_locals, Transmit
    <3>2. CASE shift # "none"
      <4>1. trrdy' = FALSE /\ shift' = shift /\ queued' = "address_read"
        BY <1>1, <3>2 DEF Transmit
      <4>2. trrdy' \in BOOLEAN
        BY <4>1, Zenon
      <4>3. /\ busy' = TRUE /\ call' = call /\ step' = 2 /\ program' = program
            /\ UNCHANGED <<operations, last_op, left, err, nacks, srw, rarc>>
        BY <1>1 DEF i2c_locals, Transmit
      <4> QED  BY <3>2, <4>1, <4>2, <4>3
    <3> QED  BY <3>1, <3>2
  <2>3. I2cTypeOK'
    BY <2>1, <2>2 DEF I2cInv, I2cTypeOK, Frames, Addresses
  <2>4. I2cOperations'
    BY <1>1, <2>2 DEF I2cInv, I2cOperations, IsLast, op
  <2>5. I2cIdle' /\ I2cLoop' /\ I2cWriting' /\ I2cCalls'
    BY <1>1, <2>1, <2>2 DEF I2cInv, I2cIdle, I2cLoop, I2cWriting, I2cCalls
  <2>6. I2cReading'
    BY <1>1, <2>1, <2>2 DEF I2cInv, I2cReading, AddressSeen, Empty, InRead, IsLast, ReadFollows
  <2> QED  BY <2>2, <2>3, <2>4, <2>5, <2>6 DEF I2cInv
<1>2. CASE At("start_read", 2) /\ srw /\ Receive /\ Continue /\ UNCHANGED i2c_locals
  <2>1. Empty /\ busy /\ AddressSeen /\ err = "Ok"
    BY <1>2 DEF I2cInv, I2cReading
  <2>2. /\ shift' = "read" /\ reading' = "more" /\ trrdy' = FALSE
        /\ call' = call /\ step' = 3 /\ program' = program
        /\ UNCHANGED <<operations, last_op, left, err, queued, nacks, srw, rarc, busy>>
    BY <1>2 DEF i2c_locals, Receive
  <2>3. I2cTypeOK'
    BY <2>2 DEF I2cInv, I2cTypeOK, Frames
  <2>4. I2cOperations'
    BY <1>2, <2>2 DEF I2cInv, I2cOperations, IsLast, op
  <2>5. I2cIdle' /\ I2cLoop' /\ I2cWriting' /\ I2cCalls'
    BY <1>2, <2>1, <2>2 DEF I2cInv, I2cIdle, I2cLoop, I2cWriting, I2cCalls
  <2>6. I2cReading'
    BY <1>2, <2>1, <2>2 DEF I2cInv, I2cReading, AddressSeen, Empty, InRead, IsLast, ReadFollows
  <2> QED  BY <2>2, <2>3, <2>4, <2>5, <2>6 DEF I2cInv
<1>3. CASE At("start_read", 3) /\ rarc /\ Fail("Address") /\ Quiet
  <2>1. InRead /\ nacks = {"address_read"}
    BY <1>3 DEF I2cInv, I2cReading, AddressSeen
  <2>2. /\ call' = "fail" /\ step' = 1 /\ program' = program /\ err' = "Address"
        /\ UNCHANGED <<operations, last_op, left, shift, queued, reading, nacks,
                        trrdy, srw, rarc, busy>>
    BY <1>3 DEF Fail, Quiet, i2c_frames, i2c_status
  <2>3. I2cTypeOK'
    BY <2>2 DEF I2cInv, I2cTypeOK
  <2>4. I2cOperations'
    BY <2>2 DEF I2cInv, I2cOperations
  <2>5. I2cIdle'
    BY <2>1, <2>2 DEF I2cInv, I2cIdle, InRead, Settled, Reported
  <2>6. I2cLoop' /\ I2cWriting' /\ I2cReading' /\ I2cCalls'
    BY <2>2 DEF I2cLoop, I2cWriting, I2cReading, I2cCalls
  <2> QED  BY <2>2, <2>3, <2>4, <2>5, <2>6 DEF I2cInv
<1>4. CASE At("start_read", 3) /\ ~rarc /\ Begin("read_block") /\ UNCHANGED i2c_locals /\ Quiet
  <2>1. InRead /\ nacks = {} /\ ~trrdy /\ err = "Ok"
    BY <1>4 DEF I2cInv, I2cReading, AddressSeen
  <2>2. /\ call' = "read_block" /\ step' = 1 /\ program' = program
        /\ UNCHANGED <<operations, last_op, left, err, shift, queued, reading, nacks,
                        trrdy, srw, rarc, busy>>
    BY <1>4 DEF Quiet, i2c_frames, i2c_locals, i2c_status
  <2>3. I2cTypeOK'
    BY <2>2 DEF I2cInv, I2cTypeOK
  <2>4. I2cOperations'
    BY <1>4, <2>2 DEF I2cInv, I2cOperations, IsLast, op
  <2>5. I2cIdle' /\ I2cLoop' /\ I2cWriting' /\ I2cCalls'
    BY <1>4, <2>1, <2>2 DEF I2cInv, I2cIdle, I2cLoop, I2cWriting, I2cCalls
  <2>6. I2cReading'
    BY <1>4, <2>1, <2>2 DEF I2cInv, I2cReading, AddressSeen, Empty, InRead, IsLast, ReadFollows
  <2> QED  BY <2>2, <2>3, <2>4, <2>5, <2>6 DEF I2cInv
<1> QED  BY <1>1, <1>2, <1>3, <1>4 DEF StartRead

\* The last byte of an operation is taken.
LEMMA ReadDone ==
  ASSUME I2cInv, operations # <<>>, NextOperation, op.kind = "Read", last_op = "Read",
         err = "Ok", nacks = {}, queued' = "none", shift' # "address_read",
         UNCHANGED <<nacks, srw, rarc, busy, program>>, shift' # "none" => busy,
         trrdy' \in BOOLEAN, shift' \in {"none"} \cup Frames,
         IF ReadFollows THEN InRead' /\ ~trrdy' ELSE Empty'
  PROVE  I2cInv'
<1> USE DEF At, Continue, Goto, Begin, Return, Resting, Writes, Reads, Blocks
<1>1. /\ operations' = Tail(operations) /\ call' = "transaction" /\ step' = 3
      /\ UNCHANGED <<last_op, left, err>>
  BY DEF NextOperation
<1>2. /\ operations' \in Seq(Ops) /\ NoEmptyWriteBetween(operations') /\ Len(operations) \in Nat
      /\ (Len(operations) = 1 => operations' = <<>>) /\ (operations' = <<>> => Len(operations) = 1)
      /\ Len(operations) > 1 => Head(operations') = operations[2]
      /\ operations' # <<>> /\ Head(operations').kind = "Write" =>
           Head(operations').len > 0 \/ Len(operations') = 1
  BY <1>1, OperationsLeft DEF I2cInv, I2cTypeOK, I2cOperations, op
<1>3. operations' # <<>> => Len(operations) > 1
  <2>1. Len(operations) # 0
    BY EmptySeq DEF I2cInv, I2cTypeOK
  <2>2. PICK n \in Nat : n = Len(operations)
    BY <1>2, Zenon
  <2>3. n # 0 /\ (operations' # <<>> => n # 1)
    BY <1>2, <2>1, <2>2
  <2>4. operations' # <<>> => n > 1
    BY <2>3
  <2> QED  BY <2>2, <2>4
<1>4. operations' # <<>> => (Head(operations').kind = "Read" <=> ReadFollows)
  BY <1>2, <1>3 DEF ReadFollows
<1>5. I2cTypeOK'
  BY <1>1, <1>2 DEF I2cInv, I2cTypeOK, Addresses
<1>6. I2cOperations'
  BY <1>1, <1>2 DEF I2cOperations, op, IsLast
<1>7. I2cIdle' /\ I2cWriting' /\ I2cReading' /\ I2cCalls'
  BY <1>1 DEF I2cIdle, I2cWriting, I2cReading, I2cCalls
<1>8. I2cLoop'
  BY <1>1, <1>4 DEF I2cLoop, Settled, op
<1> QED  BY <1>1, <1>5, <1>6, <1>7, <1>8 DEF I2cInv

LEMMA ReadBlockStep ==
  ASSUME I2cInv, ReadBlock
  PROVE  I2cInv'
<1> USE DEF At, Continue, Goto, Begin, Return, Resting, Writes, Reads, Blocks
<1>0. /\ call = "read_block" /\ InRead /\ nacks = {} /\ err = "Ok" /\ left \in Nat
      /\ left <= 1 /\ ~ReadFollows => ~trrdy
      /\ operations # <<>> /\ op.kind = "Read" /\ last_op = "Read" /\ busy
  BY DEF ReadBlock, I2cInv, I2cReading, I2cTypeOK, I2cOperations, I2cIdle, InRead
<1>1. CASE left > 1 /\ TakeByte /\ left' = left - 1 /\ Wait /\ UNCHANGED <<operations, last_op, err>>
  <2>1. nacks = {}
    BY <1>0
  <2>2. /\ call' = call /\ step' = step /\ program' = program /\ left' \in Nat /\ trrdy' = FALSE
        /\ UNCHANGED <<operations, last_op, err, shift, queued, reading, nacks, srw, rarc, busy>>
    BY <1>0, <1>1 DEF Wait, call_vars, TakeByte, i2c_frames
  <2>3. I2cTypeOK'
    BY <2>2 DEF I2cInv, I2cTypeOK
  <2>4. I2cOperations'
    BY <1>0, <2>2 DEF I2cInv, I2cOperations, op
  <2>5. I2cIdle' /\ I2cLoop' /\ I2cWriting' /\ I2cCalls'
    BY <1>0, <2>1, <2>2 DEF I2cInv, I2cIdle, I2cLoop, I2cWriting, I2cCalls
  <2>6. I2cReading'
    <3>1. InRead' /\ nacks' = {} /\ ~trrdy' /\ err' = "Ok"
      BY <1>0, <2>1, <2>2 DEF InRead
    <3>2. step' \in {1, 2, 3}
      BY <1>0, <2>2 DEF I2cInv, I2cReading
    <3> QED  BY <1>0, <2>2, <3>1, <3>2 DEF I2cReading
  <2> QED  BY <2>2, <2>3, <2>4, <2>5, <2>6 DEF I2cInv
<1>2. CASE left <= 1 /\ ReadFollows /\ TakeByte /\ NextOperation
  <2>1. /\ trrdy' = FALSE /\ program' = program
        /\ UNCHANGED <<shift, queued, reading, nacks, srw, rarc, busy>>
    BY <1>2 DEF TakeByte, i2c_frames, NextOperation
  <2>2. InRead' /\ ~trrdy' /\ trrdy' \in BOOLEAN /\ queued' = "none" /\ shift' = "read"
    BY <1>0, <2>1 DEF InRead
  <2> QED  BY <1>0, <1>2, <2>1, <2>2, ReadDone DEF Frames
<1>3. CASE /\ left <= 1 /\ ~ReadFollows
           /\ Begin("finish_read_block") /\ UNCHANGED i2c_locals /\ Quiet
  <2>1. ~trrdy
    BY <1>0, <1>3
  <2>2. /\ call' = "finish_read_block" /\ step' = 1 /\ program' = program
        /\ UNCHANGED <<operations, last_op, left, err, shift, queued, reading, nacks,
                        trrdy, srw, rarc, busy>>
    BY <1>3 DEF Quiet, i2c_frames, i2c_locals, i2c_status
  <2>3. I2cTypeOK'
    BY <2>2 DEF I2cInv, I2cTypeOK
  <2>4. I2cOperations'
    BY <1>0, <2>2 DEF I2cInv, I2cOperations, op
  <2>5. I2cIdle' /\ I2cLoop' /\ I2cWriting' /\ I2cCalls'
    BY <1>0, <2>1, <2>2 DEF I2cInv, I2cIdle, I2cLoop, I2cWriting, I2cCalls
  <2>6. I2cReading'
    BY <1>0, <1>3, <2>1, <2>2 DEF I2cReading, InRead, ReadFollows, op
  <2> QED  BY <2>2, <2>3, <2>4, <2>5, <2>6 DEF I2cInv
<1> QED  BY <1>1, <1>2, <1>3 DEF ReadBlock

LEMMA FinishReadStep ==
  ASSUME I2cInv, FinishReadBlock
  PROVE  I2cInv'
<1> USE DEF At, Continue, Goto, Begin, Return, Resting, Writes, Reads, Blocks
<1>0. /\ call = "finish_read_block" /\ nacks = {} /\ err = "Ok"
      /\ operations # <<>> /\ op.kind = "Read" /\ last_op = "Read" /\ Len(operations) \in Nat
      /\ shift # "none" => busy
  BY LenProperties DEF FinishReadBlock, I2cInv, I2cReading, I2cTypeOK, I2cOperations, I2cIdle
<1>1. CASE step = 1 /\ ReceiveLast(IsLast) /\ Continue /\ UNCHANGED i2c_locals
  <2>1. InRead /\ ~trrdy
    BY <1>0, <1>1 DEF I2cInv, I2cReading
  <2>2. /\ call' = call /\ step' = 2 /\ program' = program /\ reading' = "last"
        /\ UNCHANGED <<operations, last_op, left, err, shift, queued, nacks, trrdy, srw, rarc, busy>>
    BY <1>1 DEF ReceiveLast, i2c_locals, i2c_status
  <2>3. I2cTypeOK'
    BY <2>2 DEF I2cInv, I2cTypeOK
  <2>4. I2cOperations'
    BY <1>0, <2>2 DEF I2cInv, I2cOperations, op
  <2>5. I2cIdle' /\ I2cLoop' /\ I2cWriting' /\ I2cCalls'
    BY <1>0, <2>1, <2>2 DEF I2cInv, I2cIdle, I2cLoop, I2cWriting, I2cCalls
  <2>6. I2cReading'
    BY <1>0, <2>1, <2>2 DEF I2cInv, I2cReading, AddressSeen, Empty, InRead, IsLast, ReadFollows
  <2> QED  BY <2>2, <2>3, <2>4, <2>5, <2>6 DEF I2cInv
<1>2. CASE step = 2 /\ TakeByte /\ IsLast /\ Continue /\ UNCHANGED i2c_locals
  <2>1. Empty
    BY <1>0, <1>2 DEF I2cInv, I2cReading, TakeByte
  <2>2. /\ call' = call /\ step' = 3 /\ program' = program /\ trrdy' = FALSE
        /\ UNCHANGED <<operations, last_op, left, err, shift, queued, reading, nacks, srw, rarc, busy>>
    BY <1>2 DEF TakeByte, i2c_locals, i2c_frames
  <2>3. I2cTypeOK'
    BY <2>2 DEF I2cInv, I2cTypeOK
  <2>4. I2cOperations'
    BY <1>0, <2>2 DEF I2cInv, I2cOperations, op
  <2>5. I2cIdle' /\ I2cLoop' /\ I2cWriting' /\ I2cCalls'
    BY <1>0, <2>1, <2>2 DEF I2cInv, I2cIdle, I2cLoop, I2cWriting, I2cCalls
  <2>6. I2cReading'
    BY <1>0, <1>2, <2>1, <2>2 DEF I2cInv, I2cReading, AddressSeen, Empty, InRead, IsLast, ReadFollows
  <2> QED  BY <2>2, <2>3, <2>4, <2>5, <2>6 DEF I2cInv
<1>3. CASE \/ step = 2 /\ TakeByte /\ ~IsLast /\ NextOperation
           \/ step = 3 /\ NoCommand /\ NextOperation
  <2>1. /\ trrdy' \in BOOLEAN /\ program' = program
        /\ UNCHANGED <<shift, queued, nacks, srw, rarc, busy>>
    BY <1>3 DEF TakeByte, NoCommand, i2c_frames, i2c_status, NextOperation, I2cInv, I2cTypeOK
  <2>2. Empty /\ (step = 3 => IsLast)
    BY <1>0, <1>3 DEF I2cInv, I2cReading, TakeByte
  <2>3. ~ReadFollows
    BY <1>0 DEF I2cInv, I2cReading
  <2>4. Empty' /\ queued' = "none" /\ shift' = "none"
    BY <2>1, <2>2 DEF Empty
  <2> QED  BY <1>0, <1>3, <2>1, <2>3, <2>4, ReadDone
<1> QED  BY <1>1, <1>2, <1>3 DEF FinishReadBlock

\* The end of a transaction, and the calls that are none.
LEMMA EndStep ==
  ASSUME I2cInv, Abort \/ EndTransaction \/ Reinitialise
  PROVE  I2cInv'
<1> USE DEF At, Continue, Goto, Begin, Return, Resting, Writes, Reads, Blocks
<1>1. /\ \/ call = "fail" \/ call \in {"reset", "set_prescale"}
         \/ At("transaction", 3) /\ operations = <<>>
      /\ \/ call' = "none"
         \/ call' = call /\ step' = 2 /\ call \in {"fail", "reset"}
      /\ program' = program
      /\ UNCHANGED <<operations, last_op, left, err, shift, queued, nacks, busy>>
  BY DEF Abort, EndTransaction, Reinitialise, Stop, Quiet, Enable, i2c_frames, i2c_locals, i2c_status
<1>2. trrdy' \in BOOLEAN /\ srw' \in BOOLEAN /\ rarc' \in BOOLEAN
  <2>1. CASE UNCHANGED i2c_status
    BY <2>1 DEF i2c_status, I2cInv, I2cTypeOK
  <2>2. CASE Enable
    <3>1. trrdy' = FALSE /\ srw' = FALSE /\ rarc' = FALSE
      BY <2>2 DEF Enable
    <3> QED  BY <3>1, Zenon
  <2> QED  BY <2>1, <2>2 DEF Abort, EndTransaction, Reinitialise, Stop, Quiet
<1>3. Settled /\ Reported
  BY <1>1 DEF I2cInv, I2cIdle, I2cLoop, Reported
<1>4. I2cTypeOK'
  BY <1>1, <1>2 DEF I2cInv, I2cTypeOK
<1>5. I2cOperations' /\ I2cLoop' /\ I2cWriting' /\ I2cReading' /\ I2cCalls'
  BY <1>1 DEF I2cInv, I2cOperations, I2cLoop, I2cWriting, I2cReading, I2cCalls
<1>6. I2cIdle'
  BY <1>1, <1>3 DEF I2cInv, I2cIdle, Settled, Reported
<1> QED  BY <1>1, <1>4, <1>5, <1>6 DEF I2cInv

LEMMA I2cCallStep ==
  ASSUME I2cInv, CallI2c \/ ConfigureI2c
  PROVE  I2cInv'
<1> USE DEF At, Continue, Goto, Begin, Return, Resting, Writes, Reads, Blocks
<1>1. CASE CallI2c
  <2>1. /\ Resting /\ operations' \in Transactions /\ last_op' = "Null" /\ left' = 0
        /\ err' = "Ok" /\ nacks' = {} /\ call' = "transaction" /\ step' = 1 /\ program' = program
        /\ UNCHANGED <<shift, queued, trrdy, srw, rarc, busy>>
    BY <1>1 DEF CallI2c, i2c_status
  <2>2. operations' \in Seq(Ops) /\ NoEmptyWriteBetween(operations')
    BY <2>1, I2cAssumption DEF Ops
  <2>3. I2cTypeOK'
    BY <2>1, <2>2 DEF I2cInv, I2cTypeOK
  <2>4. I2cOperations' /\ I2cLoop' /\ I2cWriting' /\ I2cReading' /\ I2cCalls'
    BY <2>1, <2>2 DEF I2cOperations, I2cLoop, I2cWriting, I2cReading, I2cCalls
  <2>5. I2cIdle'
    BY <2>1 DEF I2cInv, I2cIdle, Settled
  <2> QED  BY <2>1, <2>3, <2>4, <2>5 DEF I2cInv
<1>2. CASE ConfigureI2c
  <2>1. /\ Resting /\ call' \in {"reset", "set_prescale"} /\ program' = program
        /\ UNCHANGED <<operations, last_op, left, err, shift, queued, nacks, trrdy, srw, rarc, busy>>
    BY <1>2 DEF ConfigureI2c, Quiet, i2c_frames, i2c_locals, i2c_status
  <2>2. I2cTypeOK'
    BY <2>1 DEF I2cInv, I2cTypeOK
  <2>3. I2cOperations' /\ I2cLoop' /\ I2cWriting' /\ I2cReading' /\ I2cCalls'
    BY <2>1 DEF I2cInv, I2cOperations, I2cLoop, I2cWriting, I2cReading, I2cCalls
  <2>4. I2cIdle'
    BY <2>1 DEF I2cInv, I2cIdle, Settled, Reported
  <2> QED  BY <2>1, <2>2, <2>3, <2>4 DEF I2cInv
<1> QED  BY <1>1, <1>2

\* A frame ends while the driver waits, or while nobody does.
LEMMA FrameSentStep ==
  ASSUME I2cInv, Waiting, UNCHANGED <<call_vars, i2c_locals>>, NEW nack \in Nacks, FrameSent(nack)
  PROVE  I2cInv'
<1> USE DEF At, Continue, Goto, Begin, Return, Resting, Writes, Reads, Blocks
<1>1. /\ UNCHANGED <<program, call, step, operations, last_op, left, err, reading, busy>>
      /\ shift \in {"address_write", "address_read", "data"}
      /\ rarc' = nack /\ trrdy' = TRUE /\ shift' = queued /\ queued' = "none"
      /\ srw' = IF shift = "data" THEN srw ELSE shift = "address_read"
      /\ nacks' = IF nack /\ (shift = "address_read" \/ queued = "data")
                  THEN nacks \cup {shift} ELSE nacks
  BY DEF call_vars, i2c_locals, FrameSent, Addresses
<1>2. nack \in BOOLEAN
  BY I2cAssumption
<1>3. srw' \in BOOLEAN
  <2>1. CASE shift = "data"
    BY <1>1, <2>1 DEF I2cInv, I2cTypeOK
  <2>2. CASE shift # "data"
    BY <1>1, <2>2, Zenon
  <2> QED  BY <2>1, <2>2
<1>4. trrdy' \in BOOLEAN /\ trrdy'
  BY <1>1, Zenon
<1>5. I2cTypeOK'
  BY <1>1, <1>2, <1>3, <1>4 DEF I2cInv, I2cTypeOK, Frames, Addresses
<1>6. call \notin Reads \cup Writes => Settled /\ nacks' = nacks /\ shift' = "none" /\ (srw' => srw)
  BY <1>1 DEF I2cInv, I2cCalls, Waiting, I2cIdle, Settled
<1>7. I2cLoop' /\ I2cCalls'
  BY <1>1 DEF I2cInv, I2cCalls, I2cLoop, Waiting
<1>8. I2cIdle'
  BY <1>1, <1>6 DEF I2cInv, I2cIdle, Waiting, Settled, Reported
<1>9. call \in Blocks /\ step = 2 =>
        /\ shift \in {"address_write", "data"} /\ queued = "data" /\ nacks = {} /\ ~trrdy
        /\ shift = "data" => ~srw /\ call # "first_block"
        /\ left > 0
  BY <1>1 DEF I2cInv, I2cWriting, Waiting
<1>10. I2cWriting'
  <2>1. CASE call \notin Writes
    BY <1>1, <2>1 DEF I2cWriting
  <2>2. CASE call \in Writes
    <3>1. call \in Blocks /\ step = 2 /\ err = "Ok"
      BY <2>2 DEF I2cInv, I2cWriting, Waiting
    <3>2. ~srw'
      BY <1>1, <1>9, <3>1
    <3>3. CASE nack
      <4>1. rarc' /\ nacks' = {shift}
        BY <1>1, <1>9, <3>1, <3>3
      <4> QED  BY <1>1, <1>4, <1>9, <3>1, <3>2, <4>1 DEF I2cWriting
    <3>4. CASE ~nack
      <4>1. ~rarc' /\ nacks' = {}
        BY <1>1, <1>9, <3>1, <3>4
      <4> QED  BY <1>1, <1>4, <1>9, <3>1, <3>2, <4>1 DEF I2cWriting
    <3> QED  BY <3>3, <3>4
  <2> QED  BY <2>1, <2>2
<1>11. I2cReading'
  BY <1>1, <1>2, <1>4 DEF I2cInv, I2cIdle, I2cReading, Waiting, Empty, InRead, AddressSeen
<1>12. I2cOperations'
  BY <1>1, <1>9 DEF I2cInv, I2cOperations, I2cWriting, Waiting, op, IsLast
<1> QED  BY <1>1, <1>5, <1>7, <1>8, <1>10, <1>11, <1>12 DEF I2cInv

LEMMA CoreFrameStep ==
  ASSUME I2cInv, Waiting, UNCHANGED <<call_vars, i2c_locals>>, FrameReceived \/ StopSent
  PROVE  I2cInv'
<1> USE DEF At, Continue, Goto, Begin, Return, Resting, Writes, Reads, Blocks
<1>1. UNCHANGED <<program, call, step, operations, last_op, left, err, reading, nacks, srw, rarc>>
  BY DEF call_vars, i2c_locals, FrameReceived, StopSent
<1>2. CASE FrameReceived
  <2>1. /\ shift = "read" /\ trrdy' = TRUE /\ busy' = busy
        /\ IF reading = "more" THEN shift' = "read" /\ queued' = queued
           ELSE shift' = queued /\ queued' = "none"
    BY <1>2 DEF FrameReceived
  <2>2. trrdy' \in BOOLEAN /\ trrdy'
    BY <2>1, Zenon
  <2>3. I2cTypeOK'
    BY <1>1, <2>1, <2>2 DEF I2cInv, I2cTypeOK, Frames, Addresses
  <2>4. I2cOperations'
    BY <1>1 DEF I2cInv, I2cOperations, op, IsLast
  <2>5. I2cIdle'
    BY <1>1, <2>1 DEF I2cInv, I2cIdle, Waiting, Settled, Reported
  <2>6. I2cLoop' /\ I2cCalls' /\ I2cWriting'
    BY <1>1, <2>1 DEF I2cInv, I2cCalls, I2cLoop, I2cWriting, InWrite, Waiting
  <2>7. I2cReading'
    <3>1. CASE call \notin Reads
      BY <1>1, <3>1 DEF I2cReading
    <3>2. CASE call = "read_block"
      <4>1. InRead /\ nacks = {} /\ err = "Ok" /\ step \in {1, 2, 3} /\ (left > 1 \/ ReadFollows)
        BY <3>2 DEF I2cInv, I2cReading, Waiting
      <4>2. InRead' /\ ReadFollows' = ReadFollows /\ left \in Nat
        BY <1>1, <2>1, <4>1 DEF InRead, ReadFollows, I2cInv, I2cTypeOK
      <4> QED  BY <1>1, <3>2, <4>1, <4>2 DEF I2cReading
    <3>3. CASE call = "finish_read_block"
      <4>1. At("finish_read_block", 2) /\ nacks = {} /\ err = "Ok" /\ ~ReadFollows
            /\ queued = "none" /\ reading = "last"
        BY <3>3 DEF I2cInv, I2cReading, Waiting
      <4>2. Empty' /\ ~ReadFollows'
        BY <1>1, <2>1, <4>1 DEF Empty, ReadFollows
      <4> QED  BY <1>1, <2>2, <4>1, <4>2 DEF I2cReading
    <3>4. CASE call = "start_read"
      <4>1. At("start_read", 2) /\ ~srw
        BY <3>4 DEF Waiting
      <4> QED  BY <2>1, <4>1 DEF I2cInv, I2cReading
    <3> QED  BY <3>1, <3>2, <3>3, <3>4
  <2> QED  BY <1>1, <2>3, <2>4, <2>5, <2>6, <2>7 DEF I2cInv
<1>3. CASE StopSent
  <2>1. shift = "none" /\ busy' = FALSE /\ UNCHANGED <<shift, queued, trrdy>>
    BY <1>3 DEF StopSent
  <2>2. busy' \in BOOLEAN
    BY <2>1, Zenon
  <2>3. I2cTypeOK'
    BY <1>1, <2>1, <2>2 DEF I2cInv, I2cTypeOK
  <2>4. I2cOperations' /\ I2cIdle'
    BY <1>1, <2>1 DEF I2cInv, I2cOperations, I2cIdle, op, IsLast, Settled, Reported
  <2>5. I2cLoop' /\ I2cCalls' /\ I2cWriting'
    BY <1>1, <2>1 DEF I2cInv, I2cCalls, I2cLoop, I2cWriting, InWrite, Empty, Waiting
  <2>6. I2cReading'
    BY <1>1, <2>1 DEF I2cInv, I2cReading, Waiting, Empty, InRead, ReadFollows, AddressSeen, op, IsLast
  <2> QED  BY <1>1, <2>3, <2>4, <2>5, <2>6 DEF I2cInv
<1> QED  BY <1>2, <1>3

LEMMA I2cStill ==
  ASSUME I2cInv, UNCHANGED ivars
  PROVE  I2cInv'
<1>1. UNCHANGED <<program, call, step, operations, last_op, left, err, shift, queued, reading,
                  trrdy, srw, rarc, busy, nacks>>
  BY DEF ivars, call_vars, i2c_vars, i2c_locals, i2c_frames, i2c_status
<1> QED  BY <1>1 DEF I2cInv, I2cCalls, I2cTypeOK, I2cOperations, I2cIdle, I2cLoop, I2cWriting,
                     I2cReading, Empty, InWrite, InRead, Settled, Reported, AddressSeen,
                     op, IsLast, ReadFollows, At, Resting

LEMMA I2cStart == I2cInit => I2cInv
<1> SUFFICES ASSUME I2cInit PROVE I2cInv
  OBVIOUS
<1> USE DEF I2cInit, I2cRest, At, Resting, Writes, Reads, Blocks
<1>1. trrdy \in BOOLEAN /\ srw \in BOOLEAN /\ rarc \in BOOLEAN /\ busy \in BOOLEAN
  BY Zenon
<1>2. <<>> \in Seq(Ops) /\ Len(<<>>) = 0
  BY EmptySeq
<1>3. I2cTypeOK
  BY <1>1, <1>2 DEF I2cTypeOK
<1>4. I2cOperations
  BY <1>2 DEF I2cOperations, NoEmptyWriteBetween
<1>5. I2cCalls /\ I2cIdle /\ I2cLoop /\ I2cWriting /\ I2cReading
  BY DEF I2cCalls, I2cIdle, I2cLoop, I2cWriting, I2cReading, Settled, Reported
<1> QED  BY <1>3, <1>4, <1>5 DEF I2cInv

LEMMA I2cInvariant == I2cSpec => []I2cInv
<1>1. I2cInit => I2cInv
  BY I2cStart
<1>2. I2cInv /\ [I2cNext]_ivars => I2cInv'
  <2> SUFFICES ASSUME I2cInv, [I2cNext]_ivars PROVE I2cInv'
    OBVIOUS
  <2>1. CASE I2cDriver
    BY <2>1, BeginStep, OpStep, StartWriteStep, WriteBlockStep, EndWriteStep, StartReadStep,
       ReadBlockStep, FinishReadStep, EndStep DEF I2cDriver
  <2>2. CASE I2cCore
    BY <2>2, FrameSentStep, CoreFrameStep DEF I2cCore
  <2>3. CASE I2cPoll \/ UNCHANGED ivars
    BY <2>3, I2cStill DEF I2cPoll
  <2> QED  BY <2>1, <2>2, <2>3, I2cCallStep DEF I2cNext
<1> QED  BY <1>1, <1>2, PTL DEF I2cSpec

\* What a transaction reports is what the slaves answered, for transactions of
\* any length: although each acknowledgement is read a frame late, a refused
\* frame that another one followed is an error, and only such a frame is one.
THEOREM AnswersReported == I2cSpec => []AckRespected
<1>1. I2cInv => AckRespected
  BY DEF I2cInv, I2cIdle, AckRespected, Reported
<1> QED  BY <1>1, I2cInvariant, PTL
=============================================================================
