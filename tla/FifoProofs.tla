----------------------------- MODULE FifoProofs -----------------------------
(***************************************************************************)
(* Proofs about FifoSC, for every depth, element type and mode: whatever   *)
(* meets in a cycle, it implements the queue of ShowAheadQueue.            *)
(***************************************************************************)
EXTENDS FifoSC, SequenceTheorems, TLAPS

RingOK == TypeOK /\ RingInv

LEMMA WrapFacts ==
  /\ \A p \in Index : Wrap(p + 1 - 1) = p
  /\ \A p \in Index, n \in 0 .. Depth : \A i \in 1 .. n :
        Wrap(p + i - 1) \in Index
  BY FifoAssumption DEF Wrap, Index

LEMMA InitRing == ASSUME Init PROVE RingOK
  <1>1. behind \in BOOLEAN
    BY DEF Init
  <1>2. QED
    BY <1>1, FifoAssumption DEF Init, RingOK, TypeOK, RingInv, Index, Wrap

\* The counter follows the pointers in each of the four kinds of cycle.
LEMMA CycleRing ==
  ASSUME RingOK, NEW wen \in BOOLEAN, NEW ren \in BOOLEAN, NEW data \in Items,
         Clock(wen, ren, data)
  PROVE  RingOK'
  <1>1. Depth \in Nat /\ Depth >= 4
    BY FifoAssumption
  <1>2. count' \in 0 .. Depth /\ write_ptr' \in Index /\ read_ptr' \in Index
    BY <1>1 DEF RingOK, TypeOK, Clock, Write, Read, Count, write_valid,
                read_valid, full, empty, Index, Wrap, next_read_ptr
  <1>3. fifo' \in [Index -> Items]
    BY DEF RingOK, TypeOK, Clock, Write
  <1>4. next_read_ptr \in Index
    BY <1>1 DEF RingOK, TypeOK, next_read_ptr, Wrap, Index
  <1>5. q' \in Items
    BY <1>4 DEF RingOK, TypeOK, Clock, Output
  <1>6. RingInv'
    BY <1>1 DEF RingOK, TypeOK, RingInv, Clock, Write, Read, Count, write_valid,
                read_valid, full, empty, Index, Wrap, next_read_ptr
  <1>7. behind' \in BOOLEAN
    BY DEF Clock
  <1>8. QED
    BY <1>2, <1>3, <1>5, <1>6, <1>7 DEF RingOK, TypeOK

LEMMA ResetRing == ASSUME RingOK, Reset PROVE RingOK'
  <1>1. behind' \in BOOLEAN
    BY DEF Reset
  <1>2. QED
    BY <1>1, FifoAssumption DEF Reset, RingOK, TypeOK, RingInv, Index, Wrap

LEMMA NextRing == ASSUME RingOK, [Next]_vars PROVE RingOK'
  <1>1. CASE Cycle
    BY <1>1, CycleRing DEF Cycle
  <1>2. CASE Reset
    BY <1>2, ResetRing
  <1>3. CASE UNCHANGED vars
    BY <1>3 DEF vars, RingOK, TypeOK, RingInv
  <1>4. QED
    BY <1>1, <1>2, <1>3 DEF Next

\* The pointers, the counter and the output keep to their ranges.
THEOREM FifoTyped == Spec => []TypeOK
  <1>1. RingOK => TypeOK
    BY DEF RingOK
  <1>2. QED
    BY InitRing, NextRing, <1>1, PTL DEF Spec

\* The counter is the distance of the pointers.
THEOREM FifoRing == Spec => []RingInv
  <1>1. RingOK => RingInv
    BY DEF RingOK
  <1>2. QED
    BY InitRing, NextRing, <1>1, PTL DEF Spec

-----------------------------------------------------------------------------
(***************************************************************************)
(* The head is shown.                                                      *)
(***************************************************************************)
LEMMA CycleHead ==
  ASSUME FifoInv, NEW wen \in BOOLEAN, NEW ren \in BOOLEAN,
         NEW data \in Items, Clock(wen, ren, data)
  PROVE  HeadShown'
  <1>1. Depth \in Nat /\ Depth >= 4
    BY FifoAssumption
  <1>2. CASE empty
    <2>1. ~read_valid(ren) /\ read_ptr' = read_ptr /\ write_ptr = read_ptr
      BY <1>1, <1>2 DEF read_valid, Clock, Read, FifoInv, TypeOK, RingInv, Wrap,
                        empty, Index
    <2>2. CASE wen
      BY <1>1, <1>2, <2>1, <2>2 DEF FifoInv, TypeOK, HeadShown, Clock, Output,
                                    Write, write_valid, full, empty
    <2>3. CASE ~wen
      BY <1>2, <2>1, <2>3 DEF FifoInv, TypeOK, HeadShown, Clock, Count,
                              write_valid, empty
    <2>4. QED
      BY <2>2, <2>3
  <1>3. CASE ~empty /\ read_valid(ren)
    <2>1. SUFFICES ASSUME ShowAhead, ~empty', ~behind' PROVE q' = fifo'[read_ptr']
      BY DEF HeadShown
    <2>2. count # 1
      BY <1>1, <1>3, <2>1 DEF LastReadAndWrite, FifoInv, TypeOK,
           Clock, Count, write_valid, read_valid, full, empty
    <2>3. q' = fifo[next_read_ptr] /\ read_ptr' = next_read_ptr
      BY <1>3, <2>1 DEF Clock, Output, Read
    <2>4. ~full => write_ptr # next_read_ptr
      BY <1>1, <1>3, <2>2 DEF FifoInv, TypeOK, RingInv, Wrap, full, empty,
                              next_read_ptr, Index
    <2>5. fifo'[next_read_ptr] = fifo[next_read_ptr]
      BY <2>4 DEF FifoInv, TypeOK, Clock, Write, write_valid
    <2>6. QED
      BY <2>3, <2>5
  <1>4. CASE ~empty /\ ~read_valid(ren)
    <2>1. read_ptr' = read_ptr /\ (ShowAhead => q' = q) /\ (behind => behind')
      BY <1>4 DEF Clock, Read, Output
    <2>2. ~full => write_ptr # read_ptr
      BY <1>1, <1>4 DEF FifoInv, TypeOK, RingInv, Wrap, full, empty, Index
    <2>3. fifo'[read_ptr] = fifo[read_ptr]
      BY <2>2 DEF FifoInv, TypeOK, Clock, Write, write_valid
    <2>4. QED
      BY <1>4, <2>1, <2>3 DEF FifoInv, HeadShown
  <1>5. QED
    BY <1>2, <1>3, <1>4

LEMMA InitHead == ASSUME Init PROVE FifoInv
  BY InitRing DEF Init, RingOK, FifoInv, HeadShown, empty

LEMMA NextHead == ASSUME FifoInv, [Next]_vars PROVE FifoInv'
  <1>1. RingOK'
    BY NextRing DEF FifoInv, RingOK
  <1>2. CASE Cycle
    BY <1>1, <1>2, CycleHead DEF Cycle, FifoInv, RingOK
  <1>3. CASE Reset
    BY <1>1, <1>3 DEF Reset, FifoInv, RingOK, HeadShown, empty
  <1>4. CASE UNCHANGED vars
    BY <1>4 DEF vars, FifoInv, TypeOK, RingInv, HeadShown, empty
  <1>5. QED
    BY <1>2, <1>3, <1>4 DEF Next

\* A reader that sees the FIFO not empty finds the oldest element at q, but for
\* an element that was written while the last one before it was read.
THEOREM FifoHead == Spec => []HeadShown
  <1>1. FifoInv => HeadShown
    BY DEF FifoInv
  <1>2. FifoInv /\ [Next]_vars => FifoInv'
    BY NextHead
  <1>3. QED
    BY InitHead, <1>1, <1>2, PTL DEF Spec

-----------------------------------------------------------------------------
(***************************************************************************)
(* The refinement.                                                         *)
(***************************************************************************)
LEMMA ContentsSeq ==
  ASSUME TypeOK
  PROVE  /\ Contents \in Seq(Items) /\ Len(Contents) = count
         /\ \A i \in 1 .. count : Contents[i] = fifo[Wrap(read_ptr + i - 1)]
         /\ Contents = <<>> <=> empty
  <1>1. \A i \in 1 .. count : Wrap(read_ptr + i - 1) \in Index
    BY FifoAssumption DEF TypeOK, Wrap, Index
  <1>2. count \in Nat
    BY FifoAssumption DEF TypeOK
  <1>3. Contents \in Seq(Items) /\ Len(Contents) = count
    BY <1>1, <1>2 DEF Contents, TypeOK
  <1>4. QED
    BY <1>2, <1>3 DEF Contents, empty

\* What a cycle without a reset leaves in the ring.
LEMMA CycleContents ==
  ASSUME RingOK, NEW wen \in BOOLEAN, NEW ren \in BOOLEAN, NEW data \in Items,
         Clock(wen, ren, data)
  PROVE  Contents' = IF Q!Pushed(wen) THEN Append(Q!Rest(ren), data)
                     ELSE Q!Rest(ren)
  <1> DEFINE rest == Q!Rest(ren)
  <1> DEFINE next == IF Q!Pushed(wen) THEN Append(rest, data) ELSE rest
  <1>1. Depth \in Nat /\ Depth >= 4 /\ TypeOK /\ TypeOK'
    BY FifoAssumption, CycleRing DEF RingOK
  <1>2. /\ Q!Pushed(wen) <=> write_valid(wen)
        /\ Q!Popped(ren) <=> read_valid(ren)
    BY <1>1, ContentsSeq DEF Q!Pushed, Q!Popped, write_valid, read_valid, full,
                             TypeOK
  <1>3. /\ rest \in Seq(Items)
        /\ Len(rest) = IF read_valid(ren) THEN count - 1 ELSE count
        /\ \A i \in 1 .. Len(rest) : rest[i] = fifo[Wrap(read_ptr' + i - 1)]
    <2>1. CASE read_valid(ren)
      <3>1. rest = Tail(Contents) /\ Contents # <<>>
        BY <1>2, <2>1 DEF Q!Rest, Q!Popped
      <3>2. /\ rest \in Seq(Items) /\ Len(rest) = count - 1
            /\ \A i \in 1 .. count - 1 : rest[i] = Contents[i + 1]
        BY <1>1, <3>1, ContentsSeq, HeadTailProperties
      <3>3. \A i \in 1 .. count - 1 :
               Wrap(read_ptr + (i + 1) - 1) = Wrap(read_ptr' + i - 1)
        BY <1>1, <2>1 DEF Clock, Read, next_read_ptr, Wrap, TypeOK, Index
      <3>4. \A i \in 1 .. count - 1 :
               Contents[i + 1] = fifo[Wrap(read_ptr + (i + 1) - 1)]
        BY <1>1, ContentsSeq DEF TypeOK
      <3>5. QED
        BY <2>1, <3>2, <3>3, <3>4
    <2>2. CASE ~read_valid(ren)
      <3>1. rest = Contents /\ read_ptr' = read_ptr
        BY <1>2, <2>2 DEF Q!Rest, Clock, Read
      <3>2. QED
        BY <1>1, <2>2, <3>1, ContentsSeq
    <2>3. QED
      BY <2>1, <2>2
  <1>4. /\ Contents' \in Seq(Items) /\ Len(Contents') = count'
        /\ \A i \in 1 .. count' :
              Contents'[i] = fifo'[Wrap(read_ptr' + i - 1)]
    <2>1. /\ read_ptr' \in 0 .. Depth - 1 /\ count' \in 0 .. Depth
          /\ fifo' \in [Index -> Items]
      BY <1>1 DEF TypeOK, Index
    <2>2. \A i \in 1 .. count' : Wrap(read_ptr' + i - 1) \in Index
      BY <2>1, WrapFacts DEF Index
    <2>3. Contents' = [i \in 1 .. count' |-> fifo'[Wrap(read_ptr' + i - 1)]]
      BY DEF Contents
    <2>4. QED
      BY <1>1, <2>1, <2>2, <2>3
  <1>5. \A i \in 1 .. Len(rest) :
           fifo'[Wrap(read_ptr' + i - 1)] = fifo[Wrap(read_ptr' + i - 1)]
    <2>1. CASE write_valid(wen)
      <3>1. \A i \in 1 .. Len(rest) : Wrap(read_ptr' + i - 1) # write_ptr
        BY <1>1, <1>3, <2>1 DEF Clock, Read, RingOK, RingInv, TypeOK, Wrap,
             Index, write_valid, read_valid, full, empty, next_read_ptr
      <3>2. QED
        BY <1>1, <2>1, <3>1 DEF Clock, Write, TypeOK
    <2>2. QED
      BY <2>1 DEF Clock, Write
  <1>6. CASE write_valid(wen)
    <2>1. next = Append(rest, data) /\ count' = Len(rest) + 1
      BY <1>1, <1>2, <1>3, <1>6 DEF Clock, Count, TypeOK
    <2>2. fifo'[Wrap(read_ptr' + (Len(rest) + 1) - 1)] = data
      <3>1. Wrap(read_ptr' + (Len(rest) + 1) - 1) = write_ptr
        BY <1>1, <1>3, <1>6 DEF Clock, Read, RingOK, RingInv, TypeOK, Wrap,
             Index, write_valid, read_valid, full, empty, next_read_ptr
      <3>2. QED
        BY <1>1, <1>6, <3>1 DEF Clock, Write, TypeOK
    <2>3. /\ next \in Seq(Items) /\ Len(next) = count'
          /\ \A i \in 1 .. Len(rest) : next[i] = rest[i]
          /\ next[Len(rest) + 1] = data
      BY <1>3, <2>1, AppendProperties
    <2>4. ASSUME NEW i \in 1 .. count' PROVE Contents'[i] = next[i]
      <3>1. CASE i \in 1 .. Len(rest)
        BY <1>3, <1>4, <1>5, <2>3, <3>1
      <3>2. CASE i = Len(rest) + 1
        BY <1>4, <2>2, <2>3, <3>2
      <3>3. Len(rest) \in Nat
        BY <1>3
      <3>4. QED
        BY <2>1, <3>1, <3>2, <3>3
    <2>5. QED
      BY <1>4, <2>3, <2>4, SeqEqual
  <1>7. CASE ~write_valid(wen)
    <2>1. next = rest /\ count' = Len(rest)
      BY <1>1, <1>2, <1>3, <1>7 DEF Clock, Count, TypeOK
    <2>2. \A i \in 1 .. count' : Contents'[i] = next[i]
      BY <1>3, <1>4, <1>5, <2>1
    <2>3. QED
      BY <1>3, <1>4, <2>1, <2>2, SeqEqual
  <1>8. QED
    BY <1>6, <1>7

LEMMA CycleQueue ==
  ASSUME FifoInv, FifoInv', NEW wen \in BOOLEAN,
         NEW ren \in BOOLEAN, NEW data \in Items, Clock(wen, ren, data)
  PROVE  Q!Cycle(wen, ren, data)
  <1>1. Contents' = IF Q!Pushed(wen) THEN Append(Q!Rest(ren), data)
                    ELSE Q!Rest(ren)
    BY CycleContents DEF FifoInv, RingOK
  <1>2. behind' = ((wen /\ ren /\ Len(Contents) = 1) \/ (behind /\ ~Q!Popped(ren)))
    <2>1. Len(Contents) = count /\ (Q!Popped(ren) <=> read_valid(ren))
      BY ContentsSeq DEF FifoInv, Q!Popped, read_valid
    <2>2. QED
      BY <2>1 DEF Clock, LastReadAndWrite
  <1>3. CASE ShowAhead
    <2>1. Contents' # <<>> => ~empty' /\ Head(Contents') = fifo'[read_ptr']
      <3>1. Contents' # <<>> => count' >= 1 /\ count' \in Nat
        BY FifoAssumption DEF FifoInv, TypeOK, Contents
      <3>2. Wrap(read_ptr' + 1 - 1) = read_ptr'
        BY WrapFacts DEF FifoInv, TypeOK
      <3>3. QED
        BY <3>1, <3>2 DEF Contents, empty
    <2>2. QED
      BY <1>1, <1>2, <1>3, <2>1 DEF Q!Cycle, FifoInv, HeadShown
  <1>4. CASE ~ShowAhead
    <2>1. Q!Popped(ren) <=> read_valid(ren)
      BY ContentsSeq DEF FifoInv, Q!Popped, read_valid
    <2>2. read_valid(ren) => Head(Contents) = fifo[read_ptr]
      <3>1. read_valid(ren) => count >= 1 /\ count \in Nat
        BY FifoAssumption DEF FifoInv, TypeOK, read_valid, empty
      <3>2. Wrap(read_ptr + 1 - 1) = read_ptr
        BY FifoAssumption DEF FifoInv, TypeOK, Wrap, Index
      <3>3. QED
        BY <3>1, <3>2 DEF Contents
    <2>3. q' = IF read_valid(ren) THEN fifo[read_ptr] ELSE q
      BY <1>4 DEF Clock, Output
    <2>4. QED
      BY <1>1, <1>2, <1>4, <2>1, <2>2, <2>3 DEF Q!Cycle
  <1>5. QED
    BY <1>3, <1>4

\* FifoSC implements the queue, for every depth and every use: nothing is lost,
\* repeated, reordered or invented, and the output is the head, but for an
\* element that was written while the last one before it was read.
THEOREM FifoQueue == Spec => ImplementsQueue
  <1>1. Init => Q!Init
    BY FifoAssumption DEF Init, Q!Init, Contents
  <1>2. FifoInv /\ FifoInv' /\ [Next]_vars => [Q!Next]_<<Contents, q, behind>>
    <2>1. SUFFICES ASSUME FifoInv, FifoInv', [Next]_vars
                   PROVE  [Q!Next]_<<Contents, q, behind>>
      OBVIOUS
    <2>2. CASE Cycle
      <3>1. PICK wen \in BOOLEAN, ren \in BOOLEAN, data \in Items :
                 Clock(wen, ren, data)
        BY <2>2 DEF Cycle
      <3>2. Q!Cycle(wen, ren, data)
        BY <2>1, <3>1, CycleQueue
      <3>3. QED
        BY <3>2 DEF Q!Next
    <2>3. CASE Reset
      <3>1. Contents' = <<>>
        BY <2>3 DEF Reset, Contents
      <3>2. QED
        BY <2>3, <3>1 DEF Reset, Q!Reset, Q!Next
    <2>4. CASE UNCHANGED vars
      <3>1. UNCHANGED <<Contents, q, behind>>
        BY <2>4 DEF vars, Contents
      <3>2. QED
        BY <3>1
    <2>5. QED
      BY <2>1, <2>2, <2>3, <2>4 DEF Next
  <1>3. FifoInv /\ [Next]_vars => FifoInv'
    BY NextHead
  <1>4. QED
    BY InitHead, <1>1, <1>2, <1>3, PTL DEF Spec, ImplementsQueue, Q!Spec
=============================================================================
