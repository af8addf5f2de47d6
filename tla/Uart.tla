-------------------------------- MODULE Uart --------------------------------
(***************************************************************************)
(* The UART: the two FIFOs and the transmitter of UART_BUS, and the driver *)
(* hb32::Uart with the traits of embedded_io.                              *)
(*                                                                         *)
(* A step of the driver is one access to the data or the status register;  *)
(* a frame may end, or the transmitter take its next byte, at its very     *)
(* edge.  Frames are numbered in the order in which they come, and so are  *)
(* the bytes that the program sends (with big_endian, from the end of the  *)
(* buffer).                                                                *)
(***************************************************************************)
EXTENDS HalCall, Sequences

CONSTANTS
  DEPTH,        \* of the FIFOs: 4
  MaxFrames, MaxWritten,  \* bounds of the frames and of the bytes sent
  MaxBuffer     \* bound of the buffers of a call

VARIABLES
  rx_fifo, rx_irq, tx_fifo,  \* UART_BUS
  tx_buffer, tx_fifo_ren,    \* its transmitter: byte on the line; pop is due
  rx_byte, room, todo,       \* of a call: result, room and rest of its buffer
  arrived, taken, got, line, \* history of the frames and of the bytes
  rx_behind, tx_behind,      \* history: which of those taken, of those sent have
                             \* met the read of the last element before them
  drained                    \* history: the last call has seen the FIFO empty

uart_device  == <<rx_fifo, rx_irq, tx_fifo, tx_buffer, tx_fifo_ren>>
uart_locals  == <<rx_byte, room, todo>>
uart_stale   == <<rx_behind, tx_behind>>
uart_history == <<arrived, taken, got, line, uart_stale, drained>>
uart_vars    == <<uart_device, uart_locals, uart_history>>
uvars        == <<call_vars, uart_vars>>

Stale == 0

ASSUME UartAssumption == DEPTH \in Nat /\ DEPTH >= 2 /\ MaxBuffer \in Nat

-----------------------------------------------------------------------------
(***************************************************************************)
(* The device.                                                             *)
(***************************************************************************)
\* An edge of a FIFO: in is the sequence of at most one element written.  A
\* write that meets the read of the last element shows an old one instead.
Meets(fifo, in, ren) == in # <<>> /\ ren /\ Len(fifo) = 1
Shown(fifo, in, ren) == IF Meets(fifo, in, ren) THEN <<Stale>> ELSE in

FIFO_SC(fifo, in, ren) ==
  LET rest == IF ren /\ fifo # <<>> THEN Tail(fifo) ELSE fifo
  IN  IF Len(fifo) = DEPTH THEN rest ELSE rest \o Shown(fifo, in, ren)

rx_end   == rx_fifo # <<>>
tx_ready == Len(tx_fifo) < DEPTH
tx_empty == tx_fifo = <<>>

\* A read clears the interrupt, unless a frame ends.
Receiver(frame, ren) ==
  /\ rx_fifo' = FIFO_SC(rx_fifo, frame, ren)
  /\ rx_irq' = (frame # <<>> \/ (rx_irq /\ ~ren))

\* The byte that has been copied to tx_buffer is popped later.  What the
\* bootstrap program sends is a prompt of several bytes, which the host knows
\* even with an old byte among them.
Transmitter(byte, pop) ==
  /\ pop => tx_fifo_ren
  /\ program = "boot" => ~Meets(tx_fifo, byte, pop)
  /\ tx_fifo' = FIFO_SC(tx_fifo, byte, pop)
  /\ tx_fifo_ren' = (tx_fifo_ren /\ ~pop)
  /\ UNCHANGED tx_buffer

\* What may come in at an edge, in the program of the UART.  Another program has
\* its own frames, and of the history the last byte on the line.
Incoming ==
  {<<>>} \cup IF program = "uart" /\ arrived < MaxFrames THEN {<<arrived + 1>>} ELSE {}

Came(frame, ren) ==
  /\ arrived' = arrived + Len(frame)
  /\ taken' = IF Len(rx_fifo) < DEPTH THEN taken \o frame ELSE taken
  /\ rx_behind' = IF Meets(rx_fifo, frame, ren)
                  THEN rx_behind \cup {Len(taken) + 1} ELSE rx_behind

\* The bytes sent and to be sent, in their order.
InTransmitter == line \o tx_buffer \o IF tx_fifo_ren THEN Tail(tx_fifo) ELSE tx_fifo

Sent(byte, pop) ==
  tx_behind' = IF Meets(tx_fifo, byte, pop)
               THEN tx_behind \cup {Len(InTransmitter) + 1} ELSE tx_behind

\* An edge at which the hart makes an access: with a byte to send, a read of
\* the data register, or only of the status.
UartEdge(byte, ren) ==
  /\ \E frame \in Incoming : Receiver(frame, ren) /\ Came(frame, ren)
  /\ \E pop \in BOOLEAN : Transmitter(byte, pop) /\ Sent(byte, pop)

FrameEnds ==
  /\ \E frame \in Incoming \ {<<>>} : Receiver(frame, FALSE) /\ Came(frame, FALSE)
  /\ UNCHANGED <<tx_fifo, tx_buffer, tx_fifo_ren, tx_behind, got, line, drained>>

CopyFifo ==
  /\ tx_buffer = <<>> /\ ~tx_empty /\ ~tx_fifo_ren
  /\ tx_buffer' = <<Head(tx_fifo)>> /\ tx_fifo_ren' = TRUE
  /\ UNCHANGED <<rx_fifo, rx_irq, tx_fifo, uart_history>>

PopFifo ==
  /\ tx_fifo_ren /\ Transmitter(<<>>, TRUE)
  /\ UNCHANGED <<rx_fifo, rx_irq, uart_history>>

ByteSent ==
  /\ tx_buffer # <<>> /\ ~tx_fifo_ren
  /\ tx_buffer' = <<>>
  /\ line' = IF program = "uart" THEN line \o tx_buffer ELSE tx_buffer
  /\ UNCHANGED <<rx_fifo, rx_irq, tx_fifo, tx_fifo_ren>>
  /\ UNCHANGED <<arrived, taken, got, uart_stale, drained>>

TransmitterSteps == CopyFifo \/ PopFifo \/ ByteSent

-----------------------------------------------------------------------------
(***************************************************************************)
(* The driver.                                                             *)
(***************************************************************************)
Status == UartEdge(<<>>, FALSE) /\ UNCHANGED <<uart_locals, got, line>>

\* rx(): without a byte in the FIFO, one that it has shown before.
rx ==
  /\ UartEdge(<<>>, TRUE)
  /\ rx_byte' = IF rx_end THEN Head(rx_fifo) ELSE Stale
  /\ got' = IF program = "uart" THEN Append(got, rx_byte') ELSE got
  /\ UNCHANGED <<todo, line, drained>>

tx(byte) ==
  UartEdge(<<byte>>, FALSE) /\ UNCHANGED <<rx_byte, room, got, line, drained>>

rx_block ==
  \/ At("rx_block", 1) /\ rx_end /\ Status /\ Continue /\ UNCHANGED drained
  \/ At("rx_block", 2) /\ rx /\ UNCHANGED room /\ Return

discard_rx_fifo ==
  \/ At("discard_rx_fifo", 1) /\ rx_end /\ Status /\ Continue /\ UNCHANGED drained
  \/ At("discard_rx_fifo", 1) /\ ~rx_end /\ Status /\ drained' = TRUE /\ Return
  \/ At("discard_rx_fifo", 2) /\ rx /\ UNCHANGED room /\ Begin("discard_rx_fifo")

\* Read::read: as much as there is, at least a byte.  Mutant: as much as there
\* is room, without looking.
MutFillBuffer ==
  \/ At("read", 1) /\ rx_end /\ Status /\ Continue /\ UNCHANGED drained
  \/ /\ At("read", 2) /\ rx /\ room' = room - 1
     /\ IF room > 1 THEN Wait ELSE Return
read ==
  \/ At("read", 1) /\ rx_end /\ Status /\ Continue /\ UNCHANGED drained
  \/ At("read", 2) /\ rx /\ room' = room - 1 /\ Continue
  \/ /\ At("read", 3) /\ Status /\ drained' = ~rx_end
     /\ IF rx_end /\ room > 0 THEN Goto("read", 2) ELSE Return

\* tx_block, and tx_bytes_block for a buffer of any length.
tx_bytes_block ==
  \/ At("tx_bytes_block", 1) /\ tx_ready /\ Status /\ Continue /\ UNCHANGED drained
  \/ /\ At("tx_bytes_block", 2) /\ tx(Head(todo)) /\ todo' = Tail(todo)
     /\ IF Len(todo) > 1 THEN Begin(call) ELSE Return

\* Write::write: as much as fits, at least a byte.
write ==
  \/ At("write", 1) /\ tx_ready /\ Status /\ Continue /\ UNCHANGED drained
  \/ At("write", 2) /\ tx(Head(todo)) /\ todo' = Tail(todo) /\ Continue
  \/ /\ At("write", 3) /\ Status /\ UNCHANGED drained
     /\ IF tx_ready /\ todo # <<>> THEN Goto("write", 2) ELSE Return

flush == At("flush_uart", 1) /\ tx_empty /\ Status /\ Return /\ UNCHANGED drained

UartDriver == rx_block \/ discard_rx_fifo \/ read \/ tx_bytes_block \/ write \/ flush

-----------------------------------------------------------------------------
NextBytes(n) == [i \in 1 .. n |-> Len(InTransmitter) + i]

\* A buffer of n bytes.  What write has not sent is given to the next call.
CallUart ==
  /\ program = "uart" /\ Resting /\ drained' = FALSE
  /\ UNCHANGED <<uart_device, rx_byte, arrived, taken, got, line, uart_stale>>
  /\ \/ \E c \in {"rx_block", "discard_rx_fifo", "flush_uart"} :
          Begin(c) /\ UNCHANGED <<room, todo>>
     \/ \E n \in 1 .. MaxBuffer : Begin("read") /\ room' = n /\ UNCHANGED todo
     \/ \E n \in 1 .. MaxBuffer, c \in {"tx_bytes_block", "write"} :
          /\ Len(InTransmitter) + n <= MaxWritten
          /\ Begin(c) /\ todo' = NextBytes(n) /\ UNCHANGED room

UartRest ==
  /\ rx_fifo = <<>> /\ rx_irq = FALSE /\ tx_fifo = <<>>
  /\ tx_buffer = <<>> /\ tx_fifo_ren = FALSE
  /\ rx_byte = Stale /\ room = 0 /\ todo = <<>>
  /\ arrived = 0 /\ taken = <<>> /\ got = <<>> /\ line = <<>> /\ drained = FALSE
  /\ rx_behind = {} /\ tx_behind = {}

UartInit == program = "uart" /\ call = "none" /\ step = 0 /\ UartRest

\* Somebody sends frames; the transmitter works; a loop polls.
UartDevice ==
  /\ program = "uart"
  /\ FrameEnds \/ TransmitterSteps
  /\ UNCHANGED <<call_vars, uart_locals>>
UartPoll == program = "uart" /\ ~Resting /\ UNCHANGED uvars

UartNext == (program = "uart" /\ UartDriver) \/ UartDevice \/ UartPoll \/ CallUart

UartSpec == UartInit /\ [][UartNext]_uvars

-----------------------------------------------------------------------------
\* A sequence as the FIFO shows it.
AsShown(sequence, behind) ==
  [i \in 1 .. Len(sequence) |-> IF i \in behind THEN Stale ELSE sequence[i]]

\* Whatever the mixture of blocking calls and those of embedded_io, and
\* whenever frames end and bytes are taken: the program receives the frames
\* that found room in the FIFO, each once and in order; the line carries the
\* bytes it has sent, each once and in order; and after a call that left the
\* FIFO empty, a byte that has come since has raised the interrupt.  A frame
\* that ends at the very edge at which the program reads the last byte before
\* it, and a byte sent at the edge at which the last one before it is popped,
\* still come once and in their place, but with the value of an old byte; no
\* other byte is changed.
BytesOnce ==
  program = "uart" =>
    /\ got \o rx_fifo = AsShown(taken, rx_behind)
    /\ InTransmitter = AsShown([i \in 1 .. Len(InTransmitter) |-> i], tx_behind)
    /\ drained /\ Resting /\ rx_end => rx_irq
=============================================================================
