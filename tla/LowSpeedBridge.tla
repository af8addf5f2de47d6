--------------------------- MODULE LowSpeedBridge ---------------------------
(***************************************************************************)
(* XT_LB, the bridge from the high-speed bus to the low-speed one.  A word  *)
(* with the requests of both channels crosses to the clock of the low-speed *)
(* bus, a state machine there performs the read and then the write, and the *)
(* acknowledgement that comes back answers the high-speed bus.              *)
(* An access is known by its tag, which stands for its address and data.    *)
(***************************************************************************)
EXTENDS CdcChannel

CONSTANTS Tags, None

Request == Tags \cup {None}
truncated_xt_hb == [r : Request, w : Request]

ASSUME BridgeAssumption == None \notin Tags /\ Data = truncated_xt_hb

VARIABLES
  \* clock of the high-speed bus
  send_ready_delay, finish, hb_rdata,
  \* clock of the low-speed bus
  lb_state, receive, read_before_write, addr, rdata_buffer

bridge_hb_vars == <<send_ready_delay, finish, hb_rdata>>
bridge_lb_vars == <<lb_state, receive, read_before_write, addr, rdata_buffer>>

\* An edge of hb.clk; r and w are what the two channels carry.
HbClock(r, w) ==
  /\ SendClock((r # None \/ w # None) /\ send_ready_delay, [r |-> r, w |-> w])
  /\ send_ready_delay' = send_ready
  /\ hb_rdata' = IF ack THEN rdata_buffer ELSE hb_rdata
  /\ finish' = (~finish /\ ack)

ren == data_out.r # None
wen == data_out.w # None

\* The state machine.  `receive' is up in the last state of a word.
LbIdle ==
  /\ lb_state = "IDLE"
  /\ IF receive_ready /\ ren
     THEN /\ lb_state' = "READ" /\ receive' = ~wen
          /\ addr' = data_out.r /\ read_before_write' = wen
     ELSE IF receive_ready /\ wen
     THEN /\ lb_state' = "WRITE" /\ receive' = TRUE
          /\ addr' = data_out.w /\ UNCHANGED read_before_write
     ELSE UNCHANGED <<lb_state, receive, addr, read_before_write>>
  /\ UNCHANGED rdata_buffer

LbWrite ==
  /\ lb_state = "WRITE"
  /\ lb_state' = "IDLE" /\ receive' = FALSE
  /\ UNCHANGED <<addr, read_before_write, rdata_buffer>>

LbRead ==
  /\ lb_state = "READ"
  /\ rdata_buffer' = addr
  /\ IF read_before_write
     THEN lb_state' = "WRITE" /\ receive' = TRUE /\ addr' = data_out.w
     ELSE lb_state' = "IDLE" /\ receive' = FALSE /\ UNCHANGED addr
  /\ UNCHANGED read_before_write

\* What the devices of the low-speed bus see done at an edge of lb_clk.
LbPerformed == IF lb_state = "IDLE" THEN {} ELSE {addr}

LbClock == ReceiveClock(receive) /\ (LbIdle \/ LbWrite \/ LbRead)

\* An edge of hb.clk in reset.  The crossing and the state machine are reset
\* asynchronously; finish and send_ready_delay have no reset and follow.
BridgeReset ==
  /\ CdcReset
  /\ lb_state' = "IDLE" /\ receive' = FALSE
  /\ send_ready_delay' = TRUE /\ finish' = FALSE
  /\ UNCHANGED <<hb_rdata, read_before_write, addr, rdata_buffer>>

BridgeInit ==
  /\ CdcInit /\ data_in_dff = [r |-> None, w |-> None] /\ data_out = data_in_dff
  /\ lb_state = "IDLE" /\ receive = FALSE /\ read_before_write = FALSE
  /\ send_ready_delay = TRUE /\ finish = FALSE
  /\ hb_rdata = None /\ addr = None /\ rdata_buffer = None

BridgeTypeOK ==
  /\ CdcTypeOK
  /\ lb_state \in {"IDLE", "READ", "WRITE"}
  /\ receive \in BOOLEAN /\ read_before_write \in BOOLEAN
  /\ send_ready_delay \in BOOLEAN /\ finish \in BOOLEAN
  /\ hb_rdata \in Request /\ addr \in Request /\ rdata_buffer \in Request
=============================================================================
