--------------------------- MODULE ShowAheadQueue ---------------------------
(***************************************************************************)
(* What a synchronous FIFO promises: a bounded queue that is pushed and    *)
(* popped in the same clock cycle if both are asked for.  A push into a    *)
(* full queue and a pop of an empty one are ignored.  In show-ahead mode   *)
(* the oldest element is shown as long as there is one, otherwise a pop    *)
(* delivers the element it removes.  What it does not promise is to show   *)
(* an element that is pushed while the last one before it is popped.       *)
(***************************************************************************)
EXTENDS Naturals, Sequences

CONSTANTS Items, Depth, ShowAhead

VARIABLES
  queue, shown,
  late  \* the oldest element may not be the one that is shown

Pushed(wen) == wen /\ Len(queue) < Depth
Popped(ren) == ren /\ queue # <<>>
Rest(ren)   == IF Popped(ren) THEN Tail(queue) ELSE queue

Cycle(wen, ren, data) ==
  /\ queue' = IF Pushed(wen) THEN Append(Rest(ren), data) ELSE Rest(ren)
  /\ late' = ((wen /\ ren /\ Len(queue) = 1) \/ (late /\ ~Popped(ren)))
  /\ IF ShowAhead
     THEN queue' # <<>> /\ ~late' => shown' = Head(queue')
     ELSE shown' = IF Popped(ren) THEN Head(queue) ELSE shown

Reset == queue' = <<>> /\ shown' = shown /\ late' = FALSE

Init == queue = <<>> /\ shown \in Items /\ late = FALSE
Next ==
  \/ \E wen, ren \in BOOLEAN, data \in Items : Cycle(wen, ren, data)
  \/ Reset
Spec == Init /\ [][Next]_<<queue, shown, late>>
=============================================================================
