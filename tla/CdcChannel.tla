----------------------------- MODULE CdcChannel -----------------------------
(***************************************************************************)
(* CDC_MCP_Formulation: a word crosses from the sending to the receiving   *)
(* clock domain.  The word waits in a register while a toggle passes two   *)
(* synchronizers; the receiver's toggle comes back the same way.  The two  *)
(* clocks are unrelated: a step is an edge of one of them, and a register  *)
(* that is sampled at an edge of the other domain gives the old or the new *)
(* value according to which edge came first.                               *)
(***************************************************************************)
EXTENDS Naturals

CONSTANT Data

VARIABLES
  \* sending domain
  ack_shift,         \* u_OncePulse_ack.shift, <<first, .., last>>
  send_ready, data_en_send_tff, data_in_dff,
  \* receiving domain
  en_shift,          \* u_OncePulse_en.shift
  receive_ready, ack_receive_tff, data_out

send_vars    == <<ack_shift, send_ready, data_en_send_tff, data_in_dff>>
receive_vars == <<en_shift, receive_ready, ack_receive_tff, data_out>>
cdc_vars == <<send_vars, receive_vars>>

\* OncePulseRst, DELAY = 2, both edges: three registers in a row.
Shifted(shift, ctrl) == <<ctrl, shift[1], shift[2]>>
pulse(shift) == shift[2] # shift[3]

ack     == pulse(ack_shift)
data_en == pulse(en_shift)

\* StopAndWaitFSM.
\* Mutant: the pause is ignored.
MutNeverWaits(ready, pause, resume) == ready \/ resume
StopAndWait(ready, pause, resume) == IF ready THEN ~pause ELSE resume

SendClock(send, data_in) ==
  /\ ack_shift' = Shifted(ack_shift, ack_receive_tff)
  /\ send_ready' = StopAndWait(send_ready, send, ack)
  /\ data_en_send_tff' = IF send /\ send_ready THEN ~data_en_send_tff
                         ELSE data_en_send_tff
  /\ data_in_dff' = IF send /\ send_ready THEN data_in ELSE data_in_dff

\* Mutant: taking a word does not toggle the answer back.
MutNoAnswer(receive) ==
  /\ en_shift' = Shifted(en_shift, data_en_send_tff)
  /\ receive_ready' = StopAndWait(receive_ready, receive, data_en)
  /\ ack_receive_tff' = ack_receive_tff
  /\ data_out' = IF data_en /\ ~receive_ready THEN data_in_dff ELSE data_out
ReceiveClock(receive) ==
  /\ en_shift' = Shifted(en_shift, data_en_send_tff)
  /\ receive_ready' = StopAndWait(receive_ready, receive, data_en)
  /\ ack_receive_tff' = IF receive /\ receive_ready THEN ~ack_receive_tff
                        ELSE ack_receive_tff
  /\ data_out' = IF data_en /\ ~receive_ready THEN data_in_dff ELSE data_out

Zeros == [i \in 1 .. 3 |-> FALSE]

\* rst_send and rst_receive are one wire and asynchronous; the words have no
\* reset.
CdcReset ==
  /\ ack_shift' = Zeros /\ send_ready' = TRUE /\ data_en_send_tff' = FALSE
  /\ en_shift' = Zeros /\ receive_ready' = FALSE /\ ack_receive_tff' = FALSE
  /\ UNCHANGED <<data_in_dff, data_out>>

CdcInit ==
  /\ ack_shift = Zeros /\ send_ready = TRUE /\ data_en_send_tff = FALSE
  /\ en_shift = Zeros /\ receive_ready = FALSE /\ ack_receive_tff = FALSE
  /\ data_in_dff \in Data /\ data_out \in Data

\* The two sides use the channel as they like.
SendEdge ==
  /\ \E send \in BOOLEAN, d \in Data : SendClock(send, d)
  /\ UNCHANGED receive_vars
ReceiveEdge ==
  /\ \E receive \in BOOLEAN : ReceiveClock(receive)
  /\ UNCHANGED send_vars

CdcNext == SendEdge \/ ReceiveEdge \/ CdcReset
CdcSpec == CdcInit /\ [][CdcNext]_cdc_vars

-----------------------------------------------------------------------------
CdcTypeOK ==
  /\ ack_shift \in [1 .. 3 -> BOOLEAN] /\ en_shift \in [1 .. 3 -> BOOLEAN]
  /\ send_ready \in BOOLEAN /\ receive_ready \in BOOLEAN
  /\ data_en_send_tff \in BOOLEAN /\ ack_receive_tff \in BOOLEAN
  /\ data_in_dff \in Data /\ data_out \in Data

\* Where the message is, read off the two toggles.
Phase ==
  IF send_ready THEN "idle"
  ELSE IF receive_ready THEN "delivered"
  ELSE IF data_en_send_tff # ack_receive_tff THEN "carried"
  ELSE "taken"

\* A synchronizer that follows its input tff: old values at the end of the row,
\* and on the way (before the pulse has fired) or all of them arrived.
OnTheWay(shift, tff) == shift[3] # tff /\ (shift[2] = tff => shift[1] = tff)
Arrived(shift, tff)  == \A i \in 1 .. 3 : shift[i] = tff

\* The handshake: in each phase one synchronizer at most is moving, so the
\* word is at rest from the time it is latched until it has been taken.
Handshake ==
  /\ Phase = "idle" => /\ data_en_send_tff = ack_receive_tff /\ ~receive_ready
                       /\ Arrived(en_shift, data_en_send_tff)
                       /\ Arrived(ack_shift, ack_receive_tff)
  /\ Phase = "carried" => /\ OnTheWay(en_shift, data_en_send_tff)
                          /\ Arrived(ack_shift, ack_receive_tff)
  /\ Phase = "delivered" => /\ data_en_send_tff # ack_receive_tff
                            /\ data_out = data_in_dff
                            /\ Arrived(en_shift, data_en_send_tff)
                            /\ Arrived(ack_shift, ack_receive_tff)
  /\ Phase = "taken" => /\ Arrived(en_shift, data_en_send_tff)
                        /\ OnTheWay(ack_shift, ack_receive_tff)

C == INSTANCE Channel WITH phase <- Phase, msg <- data_in_dff, out <- data_out

\* Each word crosses once and unchanged, whatever the clocks do.
ImplementsChannel == C!Spec
=============================================================================
