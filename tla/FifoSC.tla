------------------------------- MODULE FifoSC -------------------------------
(***************************************************************************)
(* FIFO_SC, the synchronous FIFO of the UART: a ring of Depth elements, two *)
(* pointers, a counter and a registered output.  One step is one clock     *)
(* edge; wen, ren and data are what the pins carry at that edge.           *)
(***************************************************************************)
EXTENDS Naturals, Sequences

CONSTANTS
  Items,       \* what an element may be
  Depth,       \* TRUE_DEPTH: at least 4; the pointers wrap at it
  ShowAhead    \* SHOW_AHEAD

ASSUME FifoAssumption ==
  /\ Items # {}
  /\ Depth \in Nat /\ Depth >= 4
  /\ ShowAhead \in BOOLEAN

VARIABLES
  write_ptr, read_ptr, count, fifo, q,
  behind  \* history: a write has met the read of the last element, and the
          \* element written has not been read since

vars == <<write_ptr, read_ptr, count, fifo, q, behind>>

Index   == 0 .. Depth - 1
Wrap(p) == IF p >= Depth THEN p - Depth ELSE p

full  == count = Depth
empty == count = 0
next_read_ptr == Wrap(read_ptr + 1)

\* Mutant: no overflow protection.
MutNoOverflowGuard(wen) == wen
write_valid(wen) == wen /\ ~full
read_valid(ren)  == ren /\ ~empty

Write(wen, data) ==
  /\ write_ptr' = IF write_valid(wen) THEN Wrap(write_ptr + 1) ELSE write_ptr
  /\ fifo' = IF write_valid(wen) THEN [fifo EXCEPT ![write_ptr] = data] ELSE fifo

Read(ren) == read_ptr' = IF read_valid(ren) THEN next_read_ptr ELSE read_ptr

\* The output register.  In show-ahead mode an element that is written into
\* the empty FIFO is shown at once, a read shows the next one of the ring.
\* Mutant: the write into an empty FIFO is not shown.
MutNoFallThrough(wen, ren, data) ==
  q' = IF ShowAhead
       THEN IF read_valid(ren) THEN fifo[next_read_ptr] ELSE q
       ELSE IF read_valid(ren) THEN fifo[read_ptr] ELSE q
Output(wen, ren, data) ==
  q' = IF ShowAhead
       THEN IF empty THEN IF wen THEN data ELSE q
            ELSE IF read_valid(ren) THEN fifo[next_read_ptr] ELSE q
       ELSE IF read_valid(ren) THEN fifo[read_ptr] ELSE q

Count(wen, ren) ==
  count' = IF write_valid(wen) /\ ~read_valid(ren) THEN count + 1
           ELSE IF ~write_valid(wen) /\ read_valid(ren) THEN count - 1
           ELSE count

LastReadAndWrite(wen, ren) == wen /\ ren /\ count = 1

Clock(wen, ren, data) ==
  /\ Write(wen, data) /\ Read(ren) /\ Output(wen, ren, data) /\ Count(wen, ren)
  /\ behind' = (LastReadAndWrite(wen, ren) \/ (behind /\ ~read_valid(ren)))

\* The memory and the output register have no reset.
Reset ==
  /\ write_ptr' = 0 /\ read_ptr' = 0 /\ count' = 0 /\ behind' = FALSE
  /\ UNCHANGED <<fifo, q>>

Init ==
  /\ write_ptr = 0 /\ read_ptr = 0 /\ count = 0 /\ behind = FALSE
  /\ fifo \in [Index -> Items] /\ q \in Items

\* What drives the pins.
Cycle == \E wen, ren \in BOOLEAN, data \in Items : Clock(wen, ren, data)

Next == Cycle \/ Reset
Spec == Init /\ [][Next]_vars

-----------------------------------------------------------------------------
TypeOK ==
  /\ write_ptr \in Index /\ read_ptr \in Index /\ count \in 0 .. Depth
  /\ fifo \in [Index -> Items] /\ q \in Items
  /\ behind \in BOOLEAN

\* The counter and the two pointers agree on how much the ring holds: they
\* are three registers that are updated by separate conditions.
RingInv == write_ptr = Wrap(read_ptr + count)

\* In show-ahead mode a reader that sees the FIFO not empty takes q as the
\* oldest element.  The exception is one element: one that is written in the
\* very cycle in which the last element is read is in the ring, but while it is
\* the oldest one, q shows what its cell has held before (the output register
\* loads fifo[next_read_ptr] in the cycle in which that cell is written).
HeadShown == ShowAhead /\ ~empty /\ ~behind => q = fifo[read_ptr]

FifoInv == TypeOK /\ RingInv /\ HeadShown

\* The elements in the ring, oldest first, and the queue they implement.
Contents == [i \in 1 .. count |-> fifo[Wrap(read_ptr + i - 1)]]

Q == INSTANCE ShowAheadQueue WITH queue <- Contents, shown <- q, late <- behind

\* Whatever is written and read at whatever time, the write that meets the read
\* of the last element included, the FIFO behaves as a queue: order, number,
\* capacity, the protected overflow and underflow.  Its show-ahead output is the
\* head of the queue, but for the one element that such a write brings.
ImplementsQueue == Q!Spec
=============================================================================
