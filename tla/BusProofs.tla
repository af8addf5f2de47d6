------------------------------ MODULE BusProofs ------------------------------
(***************************************************************************)
(* Proofs about SystemBus for any number of masters, every mix of devices  *)
(* and every interleaving of the two clocks and of resets: each access is  *)
(* performed once and answered with its own data, and each word crosses to *)
(* the low-speed clock once.                                               *)
(***************************************************************************)
EXTENDS SystemBus, FiniteSetTheorems, TLAPS

-----------------------------------------------------------------------------
(***************************************************************************)
(* The crossing alone: CdcChannel implements Channel, for every set of     *)
(* words and every interleaving of the two clocks.                         *)
(***************************************************************************)
CdcInv == CdcTypeOK /\ Handshake

LEMMA ZerosFacts ==
  Zeros \in [1 .. 3 -> BOOLEAN] /\ \A i \in 1 .. 3 : Zeros[i] = FALSE
  BY DEF Zeros

LEMMA InitCdc == ASSUME CdcInit PROVE CdcInv /\ C!Init
  <1>1. CdcTypeOK
    BY ZerosFacts DEF CdcInit, CdcTypeOK
  <1>2. Handshake
    <2>1. Phase = "idle"
      BY DEF CdcInit, Phase
    <2>2. /\ Arrived(en_shift, data_en_send_tff)
          /\ Arrived(ack_shift, ack_receive_tff)
      BY ZerosFacts DEF CdcInit, Arrived
    <2>3. data_en_send_tff = ack_receive_tff /\ ~receive_ready
      BY DEF CdcInit
    <2>4. QED
      BY <2>1, <2>2, <2>3 DEF Handshake
  <1>3. C!Init
    BY DEF CdcInit, C!Init, Phase
  <1>4. QED
    BY <1>1, <1>2, <1>3 DEF CdcInv

LEMMA TypeStep == ASSUME CdcTypeOK, [CdcNext]_cdc_vars PROVE CdcTypeOK'
  <1>1. CASE SendEdge
    <2>1. PICK send \in BOOLEAN, d \in Data : SendClock(send, d)
      BY <1>1 DEF SendEdge
    <2>2. ack_shift' \in [1 .. 3 -> BOOLEAN]
      BY <2>1 DEF SendClock, Shifted, CdcTypeOK
    <2>3. send_ready' \in BOOLEAN
      BY <2>1 DEF SendClock, StopAndWait, CdcTypeOK, ack, pulse
    <2>4. data_en_send_tff' \in BOOLEAN /\ data_in_dff' \in Data
      BY <2>1 DEF SendClock, CdcTypeOK
    <2>5. QED
      BY <1>1, <2>2, <2>3, <2>4 DEF SendEdge, receive_vars, CdcTypeOK
  <1>2. CASE ReceiveEdge
    <2>1. PICK receiving \in BOOLEAN : ReceiveClock(receiving)
      BY <1>2 DEF ReceiveEdge
    <2>2. en_shift' \in [1 .. 3 -> BOOLEAN]
      BY <2>1 DEF ReceiveClock, Shifted, CdcTypeOK
    <2>3. receive_ready' \in BOOLEAN
      BY <2>1 DEF ReceiveClock, StopAndWait, CdcTypeOK, data_en, pulse
    <2>4. ack_receive_tff' \in BOOLEAN /\ data_out' \in Data
      BY <2>1 DEF ReceiveClock, CdcTypeOK
    <2>5. QED
      BY <1>2, <2>2, <2>3, <2>4 DEF ReceiveEdge, send_vars, CdcTypeOK
  <1>3. CASE CdcReset
    BY <1>3, ZerosFacts DEF CdcReset, CdcTypeOK
  <1>4. CASE UNCHANGED cdc_vars
    BY <1>4 DEF cdc_vars, send_vars, receive_vars, CdcTypeOK
  <1>5. QED
    BY <1>1, <1>2, <1>3, <1>4 DEF CdcNext

-----------------------------------------------------------------------------
(***************************************************************************)
(* One lemma per side and phase: what an edge does to the handshake and    *)
(* which step of the channel it is.                                        *)
(***************************************************************************)
LEMMA SendStep ==
  ASSUME CdcInv, CdcTypeOK', NEW send \in BOOLEAN, NEW d \in Data,
         SendClock(send, d), UNCHANGED receive_vars
  PROVE  Handshake' /\ [C!Next]_<<Phase, data_in_dff, data_out>>
  <1>1. ack_shift' = <<ack_receive_tff, ack_shift[1], ack_shift[2]>>
    BY DEF SendClock, Shifted
  <1>2. /\ ack_shift'[1] = ack_receive_tff /\ ack_shift'[2] = ack_shift[1]
        /\ ack_shift'[3] = ack_shift[2]
    BY <1>1
  <1>3. UNCHANGED <<en_shift, receive_ready, ack_receive_tff, data_out>>
    BY DEF receive_vars
  <1>4. CASE send_ready /\ send
    <2>1. Phase = "idle" /\ Phase' = "carried"
      <3>1. Phase = "idle" /\ ~receive_ready /\ data_en_send_tff = ack_receive_tff
        BY <1>4 DEF CdcInv, Handshake, Phase
      <3>2. ~send_ready' /\ data_en_send_tff' = ~data_en_send_tff
        BY <1>4 DEF SendClock, StopAndWait
      <3>3. QED
        BY <1>3, <3>1, <3>2 DEF Phase, CdcInv, CdcTypeOK
    <2>2. data_in_dff' = d /\ data_en_send_tff' = ~data_en_send_tff
      BY <1>4 DEF SendClock
    <2>3. Handshake'
      BY <1>2, <1>3, <2>1, <2>2 DEF CdcInv, CdcTypeOK, Handshake, Arrived, OnTheWay
    <2>4. C!Send(d)
      BY <1>3, <2>1, <2>2 DEF C!Send
    <2>5. QED
      BY <2>3, <2>4 DEF C!Next
  <1>5. CASE send_ready /\ ~send
    <2>1. UNCHANGED <<send_ready, data_en_send_tff, data_in_dff>>
      BY <1>5 DEF SendClock, StopAndWait, CdcInv, CdcTypeOK
    <2>2. Phase = "idle" /\ Phase' = "idle"
      BY <1>3, <1>5, <2>1 DEF Phase
    <2>3. Handshake'
      BY <1>2, <1>3, <2>1, <2>2 DEF CdcInv, CdcTypeOK, Handshake, Arrived
    <2>4. QED
      BY <1>3, <2>1, <2>2, <2>3
  <1>6. CASE ~send_ready
    <2>1. UNCHANGED <<data_en_send_tff, data_in_dff>> /\ send_ready' = ack
      BY <1>6 DEF SendClock, StopAndWait
    <2>2. CASE Phase = "carried"
      <3>1. ~ack
        BY <2>2 DEF CdcInv, Handshake, Arrived, ack, pulse
      <3>2. Phase' = "carried"
        BY <1>3, <1>6, <2>1, <2>2, <3>1 DEF Phase
      <3>3. Handshake'
        BY <1>2, <1>3, <2>1, <2>2, <3>2
           DEF CdcInv, CdcTypeOK, Handshake, Arrived, OnTheWay
      <3>4. QED
        BY <1>3, <2>1, <2>2, <3>2, <3>3
    <2>3. CASE Phase = "delivered"
      <3>1. ~ack
        BY <2>3 DEF CdcInv, Handshake, Arrived, ack, pulse
      <3>2. Phase' = "delivered"
        BY <1>3, <1>6, <2>1, <2>3, <3>1 DEF Phase
      <3>3. Handshake'
        BY <1>2, <1>3, <2>1, <2>3, <3>2 DEF CdcInv, CdcTypeOK, Handshake, Arrived
      <3>4. QED
        BY <1>3, <2>1, <2>3, <3>2, <3>3
    <2>4. CASE Phase = "taken"
      <3>1. /\ Arrived(en_shift, data_en_send_tff)
            /\ OnTheWay(ack_shift, ack_receive_tff)
            /\ ~receive_ready /\ data_en_send_tff = ack_receive_tff
        BY <1>6, <2>4 DEF CdcInv, Handshake, Phase
      <3>2. CASE ack
        <4>1. send_ready' = TRUE
          BY <2>1, <3>2 DEF CdcInv, CdcTypeOK, ack, pulse
        <4>2. Phase' = "idle"
          BY <4>1 DEF Phase
        <4>3. ack_shift[2] = ack_receive_tff /\ ack_shift[1] = ack_receive_tff
          BY <3>1, <3>2 DEF OnTheWay, ack, pulse, CdcInv, CdcTypeOK
        <4>4. Handshake'
          BY <1>2, <1>3, <2>1, <3>1, <4>2, <4>3
             DEF CdcInv, CdcTypeOK, Handshake, Arrived
        <4>5. C!Confirm
          BY <1>3, <2>1, <2>4, <4>2 DEF C!Confirm
        <4>6. QED
          BY <4>4, <4>5 DEF C!Next
      <3>3. CASE ~ack
        <4>1. Phase' = "taken"
          BY <1>3, <2>1, <3>1, <3>3 DEF Phase
        <4>2. ack_shift[2] # ack_receive_tff
          BY <3>1, <3>3 DEF OnTheWay, ack, pulse, CdcInv, CdcTypeOK
        <4>3. Handshake'
          BY <1>2, <1>3, <2>1, <3>1, <4>1, <4>2
             DEF CdcInv, CdcTypeOK, Handshake, Arrived, OnTheWay
        <4>4. QED
          BY <1>3, <2>1, <2>4, <4>1, <4>3
      <3>4. QED
        BY <3>2, <3>3
    <2>5. QED
      BY <1>6, <2>2, <2>3, <2>4 DEF Phase
  <1>7. QED
    BY <1>4, <1>5, <1>6

LEMMA ReceiveStep ==
  ASSUME CdcInv, CdcTypeOK', NEW receiving \in BOOLEAN,
         ReceiveClock(receiving), UNCHANGED send_vars
  PROVE  Handshake' /\ [C!Next]_<<Phase, data_in_dff, data_out>>
  <1>1. en_shift' = <<data_en_send_tff, en_shift[1], en_shift[2]>>
    BY DEF ReceiveClock, Shifted
  <1>2. /\ en_shift'[1] = data_en_send_tff /\ en_shift'[2] = en_shift[1]
        /\ en_shift'[3] = en_shift[2]
    BY <1>1
  <1>3. UNCHANGED <<ack_shift, send_ready, data_en_send_tff, data_in_dff>>
    BY DEF send_vars
  <1>4. CASE Phase = "idle" \/ Phase = "taken"
    <2>1. ~data_en /\ ~receive_ready
      BY <1>4 DEF CdcInv, Handshake, Arrived, data_en, pulse, Phase
    <2>2. UNCHANGED <<ack_receive_tff, data_out>>
      BY <2>1 DEF ReceiveClock
    <2>3. ~receive_ready'
      BY <2>1 DEF ReceiveClock, StopAndWait
    <2>4. Phase' = Phase
      BY <1>3, <2>1, <2>2, <2>3 DEF Phase
    <2>5. Handshake'
      BY <1>2, <1>3, <1>4, <2>2, <2>3, <2>4
         DEF CdcInv, CdcTypeOK, Handshake, Arrived, OnTheWay
    <2>6. QED
      BY <1>3, <2>2, <2>4, <2>5
  <1>5. CASE Phase = "carried"
    <2>1. /\ OnTheWay(en_shift, data_en_send_tff) /\ ~receive_ready
          /\ data_en_send_tff # ack_receive_tff /\ ~send_ready
      BY <1>5 DEF CdcInv, Handshake, Phase
    <2>2. ack_receive_tff' = ack_receive_tff /\ receive_ready' = data_en
      BY <2>1 DEF ReceiveClock, StopAndWait
    <2>3. CASE data_en
      <3>1. Phase' = "delivered" /\ data_out' = data_in_dff
        BY <1>3, <2>1, <2>2, <2>3 DEF Phase, ReceiveClock
      <3>2. en_shift[2] = data_en_send_tff /\ en_shift[1] = data_en_send_tff
        BY <2>1, <2>3 DEF OnTheWay, data_en, pulse, CdcInv, CdcTypeOK
      <3>3. Handshake'
        BY <1>2, <1>3, <1>5, <2>1, <2>2, <3>1, <3>2
           DEF CdcInv, CdcTypeOK, Handshake, Arrived
      <3>4. C!Deliver
        BY <1>3, <1>5, <3>1 DEF C!Deliver
      <3>5. QED
        BY <3>3, <3>4 DEF C!Next
    <2>4. CASE ~data_en
      <3>1. Phase' = "carried" /\ data_out' = data_out
        BY <1>3, <2>1, <2>2, <2>4 DEF Phase, ReceiveClock
      <3>2. en_shift[2] # data_en_send_tff
        BY <2>1, <2>4 DEF OnTheWay, data_en, pulse, CdcInv, CdcTypeOK
      <3>3. Handshake'
        BY <1>2, <1>3, <1>5, <2>1, <2>2, <3>1, <3>2
           DEF CdcInv, CdcTypeOK, Handshake, Arrived, OnTheWay
      <3>4. QED
        BY <1>3, <1>5, <3>1, <3>3
    <2>5. QED
      BY <2>3, <2>4
  <1>6. CASE Phase = "delivered"
    <2>1. receive_ready /\ ~send_ready /\ data_en_send_tff # ack_receive_tff
      BY <1>6 DEF CdcInv, Handshake, Phase
    <2>2. data_out' = data_out
      BY <2>1 DEF ReceiveClock
    <2>3. CASE receiving
      <3>1. ack_receive_tff' = ~ack_receive_tff /\ ~receive_ready'
        BY <2>1, <2>3 DEF ReceiveClock, StopAndWait
      <3>2. Phase' = "taken"
        BY <1>3, <2>1, <3>1 DEF Phase, CdcInv, CdcTypeOK
      <3>3. Handshake'
        BY <1>2, <1>3, <1>6, <2>1, <3>1, <3>2
           DEF CdcInv, CdcTypeOK, Handshake, Arrived, OnTheWay
      <3>4. C!Take
        BY <1>3, <1>6, <2>2, <3>2 DEF C!Take
      <3>5. QED
        BY <3>3, <3>4 DEF C!Next
    <2>4. CASE ~receiving
      <3>1. UNCHANGED <<ack_receive_tff, receive_ready>>
        BY <2>1, <2>4 DEF ReceiveClock, StopAndWait, CdcInv, CdcTypeOK
      <3>2. Phase' = "delivered"
        BY <1>3, <1>6, <3>1 DEF Phase
      <3>3. Handshake'
        BY <1>2, <1>3, <1>6, <2>2, <3>1, <3>2
           DEF CdcInv, CdcTypeOK, Handshake, Arrived
      <3>4. QED
        BY <1>3, <1>6, <2>2, <3>2, <3>3
    <2>5. QED
      BY <2>3, <2>4
  <1>7. QED
    BY <1>4, <1>5, <1>6 DEF Phase

LEMMA ResetStep ==
  ASSUME CdcReset PROVE Handshake' /\ C!Reset
  <1>1. Phase' = "idle"
    BY DEF CdcReset, Phase
  <1>2. Handshake'
    <2>1. /\ Arrived(en_shift, data_en_send_tff)'
          /\ Arrived(ack_shift, ack_receive_tff)'
      BY ZerosFacts DEF CdcReset, Arrived
    <2>2. (data_en_send_tff = ack_receive_tff)' /\ ~receive_ready'
      BY DEF CdcReset
    <2>3. QED
      BY <1>1, <2>1, <2>2 DEF Handshake
  <1>3. QED
    BY <1>1, <1>2 DEF CdcReset, C!Reset

LEMMA NextCdc ==
  ASSUME CdcInv, [CdcNext]_cdc_vars
  PROVE  CdcInv' /\ [C!Next]_<<Phase, data_in_dff, data_out>>
  <1>1. CdcTypeOK'
    BY TypeStep DEF CdcInv
  <1>2. CASE SendEdge
    BY <1>1, <1>2, SendStep DEF SendEdge, CdcInv
  <1>3. CASE ReceiveEdge
    BY <1>1, <1>3, ReceiveStep DEF ReceiveEdge, CdcInv
  <1>4. CASE CdcReset
    BY <1>1, <1>4, ResetStep DEF CdcInv, C!Next
  <1>5. CASE UNCHANGED cdc_vars
    BY <1>1, <1>5 DEF cdc_vars, send_vars, receive_vars, CdcInv, Handshake, Phase,
                      Arrived, OnTheWay
  <1>6. QED
    BY <1>2, <1>3, <1>4, <1>5 DEF CdcNext

\* At any time at most one toggle is on its way, and the word it announces is
\* at rest.
THEOREM CdcHandshake == CdcSpec => []Handshake
  <1>1. CdcInv => Handshake
    BY DEF CdcInv
  <1>2. QED
    BY InitCdc, NextCdc, <1>1, PTL DEF CdcSpec

\* Each word crosses exactly once, unchanged and in order.
THEOREM CdcImplementsChannel == CdcSpec => ImplementsChannel
  BY InitCdc, NextCdc, PTL DEF CdcSpec, ImplementsChannel, C!Spec

-----------------------------------------------------------------------------
(***************************************************************************)
(* The bus.                                                                *)
(***************************************************************************)
\* The controller has selected the device of m for it.
Selected(m) ==
  /\ req[m] # None
  /\ m = IF req[m].op = "read" THEN read_grant ELSE write_grant

\* The access of m has been performed and is still to be answered.
Done(m) ==
  /\ Selected(m)
  /\ \/ req[m].dev = "ram" /\ req[m].op = "read" /\ ram_read_finish
     \/ req[m].dev = "hb32" /\ req[m].op = "read" /\ hb32_read_finish
     \/ req[m].dev = "wb" /\ IF req[m].op = "read" THEN wb_read_finish ELSE wb_write_finish
     \/ req[m].dev = "lb" /\ (finish \/ Phase = "taken")

Counted == \A m \in Masters :
  /\ owed[m] = IF req[m] # None /\ ~Done(m) THEN 1 ELSE 0
  /\ undelivered[m] = IF Done(m) THEN 1 ELSE 0

\* What a device has read is for the master that is selected.
RamInv  == ram_read_finish => slave_rsel("ram") /\ ram_q = rtag("ram")
Hb32Inv == hb32_read_finish => slave_rsel("hb32") /\ hb32_q = rtag("hb32")

\* A cycle of the Wishbone bus is for the access that is selected, and the
\* adapter pauses where it answers.  (A cycle that a reset cuts short may still
\* be acknowledged, when nobody is selected.)
WbInv ==
  /\ wb_cyc => /\ ~wb_read_finish /\ ~wb_write_finish
               /\ IF wb_we THEN slave_wsel("wb") /\ wb_adr = wtag("wb")
                           ELSE slave_rsel("wb") /\ wb_adr = rtag("wb")
  /\ wb_read_finish \/ wb_write_finish => wb_delay
  /\ wb_read_finish /\ slave_rsel("wb") => wb_q = rtag("wb")

\* One channel only uses the low-speed bus.
OneLbChannel == \A m, n \in Masters :
  req[m] # None /\ req[n] # None /\ req[m].dev = "lb" /\ req[n].dev = "lb"
    => req[m].op = req[n].op

LbWord     == [r |-> rtag("lb"), w |-> wtag("lb")]
LbSelected == slave_rsel("lb") \/ slave_wsel("lb")

\* From the time it is latched to the time it is answered the word is that of
\* the access that is selected.
LbSending ==
  /\ Phase # "idle" \/ finish => LbSelected /\ data_in_dff = LbWord
  /\ finish => Phase = "idle" /\ ~send_ready_delay /\ (slave_rsel("lb") => hb_rdata = rtag("lb"))
  /\ Phase = "taken" /\ slave_rsel("lb") => rdata_buffer = rtag("lb")

\* The state machine works on a word just while it is delivered, and in one state.
LbReceiving ==
  /\ ~read_before_write
  /\ lb_state # "IDLE" => Phase = "delivered"
  /\ receive = (lb_state # "IDLE")
  /\ lb_state = "READ" => addr = data_out.r /\ data_out.r # None
  /\ lb_state = "WRITE" => addr = data_out.w /\ data_out.w # None

MastersOK ==
  /\ mix \in Mixes
  /\ req \in [Masters -> Accesses \cup {None}]
  /\ seq \in [Masters -> {0, 1}]
FlagsOK ==
  /\ ram_read_finish \in BOOLEAN /\ hb32_read_finish \in BOOLEAN
  /\ wb_read_finish \in BOOLEAN /\ wb_write_finish \in BOOLEAN
  /\ wb_delay \in BOOLEAN /\ wb_cyc \in BOOLEAN /\ wb_we \in BOOLEAN
  /\ finish \in BOOLEAN /\ lb_state \in {"IDLE", "READ", "WRITE"} /\ receive \in BOOLEAN
  /\ send_ready_delay \in BOOLEAN

\* What the crossing needs, which does not depend on who uses the bus when.
CrossInv == MastersOK /\ FlagsOK /\ CdcInv

BusInv ==
  /\ CrossInv /\ OneLbChannel
  /\ RamInv /\ Hb32Inv /\ WbInv /\ LbSending /\ LbReceiving
  /\ Counted

-----------------------------------------------------------------------------
(***************************************************************************)
(* Tags and selection.                                                     *)
(***************************************************************************)
\* The tag of a master names the master, and is not the absence of a request.
LEMMA TagFacts ==
  ASSUME MastersOK, NEW m \in Masters
  PROVE  Tag(m) \in Tags /\ Tag(m) # None /\ Tag(m)[1] = m
<1>1. seq[m] \in {0, 1}
  BY DEF MastersOK
<1>2. Tag(m) \in Tags /\ Tag(m)[1] = m
  BY <1>1, BusAssumption DEF Tag
<1> QED  BY <1>2, BridgeAssumption

\* The device of a read is selected just for the master that holds the grant.
LEMMA ReadSelected ==
  ASSUME MastersOK, NEW d
  PROVE  /\ slave_rsel(d) =>
              /\ read_grant \in Masters /\ Selected(read_grant)
              /\ req[read_grant] # None /\ req[read_grant].op = "read" /\ req[read_grant].dev = d
              /\ rtag(d) = Tag(read_grant)
         /\ ~slave_rsel(d) => rtag(d) = None
         /\ rtag(d) # None <=> slave_rsel(d)
         /\ rtag(d) \in Request
<1>1. slave_rsel(d) => /\ read_grant \in Masters /\ req[read_grant] # None
                       /\ req[read_grant].op = "read" /\ req[read_grant].dev = d
  BY DEF slave_rsel, hb_ren, read_req, Pending
<1>2. slave_rsel(d) => Selected(read_grant) /\ rtag(d) = Tag(read_grant)
  BY <1>1 DEF Selected, rtag
<1>3. slave_rsel(d) => rtag(d) # None /\ rtag(d) \in Tags
  BY <1>1, <1>2, TagFacts
<1>4. ~slave_rsel(d) => rtag(d) = None
  BY DEF rtag
<1> QED  BY <1>1, <1>2, <1>3, <1>4 DEF Request

LEMMA WriteSelected ==
  ASSUME MastersOK, NEW d
  PROVE  /\ slave_wsel(d) =>
              /\ write_grant \in Masters /\ Selected(write_grant)
              /\ req[write_grant] # None /\ req[write_grant].op = "write" /\ req[write_grant].dev = d
              /\ wtag(d) = Tag(write_grant)
         /\ ~slave_wsel(d) => wtag(d) = None
         /\ wtag(d) # None <=> slave_wsel(d)
         /\ wtag(d) \in Request
<1>1. slave_wsel(d) => /\ write_grant \in Masters /\ req[write_grant] # None
                       /\ req[write_grant].op = "write" /\ req[write_grant].dev = d
  BY DEF slave_wsel, hb_wen, write_req, Pending
<1>2. slave_wsel(d) => Selected(write_grant) /\ wtag(d) = Tag(write_grant)
  BY <1>1 DEF Selected, wtag
<1>3. slave_wsel(d) => wtag(d) # None /\ wtag(d) \in Tags
  BY <1>1, <1>2, TagFacts
<1>4. ~slave_wsel(d) => wtag(d) = None
  BY DEF wtag
<1> QED  BY <1>1, <1>2, <1>3, <1>4 DEF Request

\* A request is a read or a write of one of the devices.
LEMMA Requests ==
  ASSUME MastersOK, NEW m \in Masters, req[m] # None
  PROVE  /\ req[m].op \in {"read", "write"} /\ req[m].dev \in {"ram", "hb32", "wb", "lb"}
         /\ req[m].op = "read" <=> m \in read_req
         /\ req[m].op = "write" <=> m \in write_req
  BY DEF MastersOK, Accesses, Devices, read_req, write_req, Pending

\* And conversely.
LEMMA SelectedDevice ==
  ASSUME MastersOK, NEW m \in Masters, Selected(m)
  PROVE  /\ req[m].op = "read" => /\ m = read_grant
                                  /\ \A d \in Devices : slave_rsel(d) <=> d = req[m].dev
         /\ req[m].op = "write" => /\ m = write_grant
                                   /\ \A d \in Devices : slave_wsel(d) <=> d = req[m].dev
  BY Requests DEF Selected, slave_rsel, slave_wsel, hb_ren, hb_wen

\* Nobody uses one channel of the low-speed bus while the other one is used.
LEMMA OneLbTag == MastersOK /\ OneLbChannel => ~(slave_rsel("lb") /\ slave_wsel("lb"))
  BY ReadSelected, WriteSelected DEF OneLbChannel

-----------------------------------------------------------------------------
(***************************************************************************)
(* Who is answered, and what is performed, at an edge of the bus clock.    *)
(***************************************************************************)
Finished(m) ==
  \/ req[m].dev = "ram" /\ IF req[m].op = "read" THEN ram_read_finish ELSE ~slave_rsel("ram")
  \/ req[m].dev = "hb32" /\ (req[m].op = "read" => hb32_read_finish)
  \/ req[m].dev = "wb" /\ IF req[m].op = "read" THEN wb_read_finish ELSE wb_write_finish
  \/ req[m].dev = "lb" /\ finish

Performs(m, wb_ack) ==
  /\ Selected(m)
  /\ \/ req[m].dev = "ram" /\ IF req[m].op = "read" THEN ~ram_read_finish ELSE ~slave_rsel("ram")
     \/ req[m].dev = "hb32" /\ (req[m].op = "read" => ~hb32_read_finish)
     \/ req[m].dev = "wb" /\ wb_cyc /\ wb_ack /\ IF req[m].op = "read" THEN ~wb_we ELSE wb_we

LEMMA AnsweredIs ==
  ASSUME MastersOK, NEW m \in Masters
  PROVE  m \in Answered <=> Selected(m) /\ Finished(m)
<1>1. CASE req[m] = None
  BY <1>1 DEF Answered, Selected
<1>2. CASE req[m] # None /\ req[m].op = "read"
  <2>1. m \in read_req /\ m \notin write_req
    BY <1>2, Requests
  <2>2. m \in Answered <=> m = read_grant /\ read_finished
    BY <1>2, <2>1 DEF Answered, stall_req
  <2>3. Selected(m) <=> m = read_grant
    BY <1>2 DEF Selected
  <2>4. ASSUME m = read_grant PROVE read_finished <=> Finished(m)
    <3>1. \A d \in Devices : slave_rsel(d) <=> d = req[m].dev
      BY <1>2, <2>3, <2>4, SelectedDevice
    <3>2. req[m].dev \in {"ram", "hb32", "wb", "lb"}
      BY <1>2, Requests
    <3>3. CASE req[m].dev = "ram"
      BY <1>2, <3>1, <3>3 DEF read_finished, Finished, Devices
    <3>4. CASE req[m].dev = "hb32"
      BY <1>2, <3>1, <3>4 DEF read_finished, Finished, Devices
    <3>5. CASE req[m].dev = "wb"
      BY <1>2, <3>1, <3>5 DEF read_finished, Finished, Devices
    <3>6. CASE req[m].dev = "lb"
      BY <1>2, <3>1, <3>6 DEF read_finished, Finished, Devices
    <3> QED  BY <3>2, <3>3, <3>4, <3>5, <3>6
  <2> QED  BY <2>2, <2>3, <2>4
<1>3. CASE req[m] # None /\ req[m].op = "write"
  <2>1. m \in write_req /\ m \notin read_req
    BY <1>3, Requests
  <2>2. m \in Answered <=> m = write_grant /\ write_finished
    BY <1>3, <2>1 DEF Answered, stall_req
  <2>3. Selected(m) <=> m = write_grant
    BY <1>3 DEF Selected
  <2>4. ASSUME m = write_grant PROVE write_finished <=> Finished(m)
    <3>1. \A d \in Devices : slave_wsel(d) <=> d = req[m].dev
      BY <1>3, <2>3, <2>4, SelectedDevice
    <3>2. req[m].dev \in {"ram", "hb32", "wb", "lb"}
      BY <1>3, Requests
    <3>3. CASE req[m].dev = "ram"
      BY <1>3, <3>1, <3>3 DEF write_finished, Finished, Devices, ram_wen
    <3>4. CASE req[m].dev = "hb32"
      BY <1>3, <3>1, <3>4 DEF write_finished, Finished, Devices
    <3>5. CASE req[m].dev = "wb"
      BY <1>3, <3>1, <3>5 DEF write_finished, Finished, Devices
    <3>6. CASE req[m].dev = "lb"
      BY <1>3, <3>1, <3>6 DEF write_finished, Finished, Devices
    <3> QED  BY <3>2, <3>3, <3>4, <3>5, <3>6
  <2> QED  BY <2>2, <2>3, <2>4
<1> QED  BY <1>1, <1>2, <1>3, Requests

\* An access is performed or waits for its answer, not both; one that is
\* answered has been performed or is being performed.
LEMMA PerformsOnce ==
  ASSUME BusInv, NEW m \in Masters, NEW wb_ack \in BOOLEAN
  PROVE  /\ ~(Done(m) /\ Performs(m, wb_ack))
         /\ m \in Answered => Done(m) \/ Performs(m, wb_ack)
<1>1. MastersOK /\ WbInv
  BY DEF BusInv, CrossInv
<1>2. Selected(m) => req[m].op \in {"read", "write"} /\ req[m].dev \in {"ram", "hb32", "wb", "lb"}
  BY <1>1, Requests DEF Selected
<1>3. ~(Done(m) /\ Performs(m, wb_ack))
  BY <1>1, <1>2 DEF Done, Performs, WbInv
<1>4. Selected(m) /\ Finished(m) => Done(m) \/ Performs(m, wb_ack)
  BY <1>2 DEF Done, Performs, Finished
<1> QED  BY <1>1, <1>3, <1>4, AnsweredIs

\* What the devices perform at an edge, one access of a master at most.
LEMMA PerformedBy ==
  ASSUME BusInv, NEW m \in Masters, NEW wb_ack \in BOOLEAN
  PROVE  {t \in Performed(wb_ack) : t[1] = m} = IF Performs(m, wb_ack) THEN {Tag(m)} ELSE {}
<1>1. MastersOK /\ WbInv /\ FlagsOK
  BY DEF BusInv, CrossInv
<1>2. ASSUME NEW t \in Performed(wb_ack), t[1] = m
      PROVE  t = Tag(m) /\ Performs(m, wb_ack)
  <2>1. t # None
    BY <1>2 DEF Performed
  <2>2. CASE t = rtag("ram") /\ ~ram_read_finish
    BY <1>1, <1>2, <2>1, <2>2, ReadSelected, TagFacts DEF Performs
  <2>3. CASE t = wtag("ram") /\ ram_wen
    BY <1>1, <1>2, <2>1, <2>3, WriteSelected, TagFacts DEF Performs, ram_wen
  <2>4. CASE t = rtag("hb32") /\ rsel32
    BY <1>1, <1>2, <2>1, <2>4, ReadSelected, TagFacts DEF Performs, rsel32
  <2>5. CASE t = wtag("hb32")
    BY <1>1, <1>2, <2>1, <2>5, WriteSelected, TagFacts DEF Performs
  <2>6. CASE t = wb_adr /\ wb_cyc /\ wb_ack
    BY <1>1, <1>2, <2>1, <2>6, ReadSelected, WriteSelected, TagFacts DEF Performs, WbInv
  <2> QED  BY <1>2, <2>1, <2>2, <2>3, <2>4, <2>5, <2>6 DEF Performed
<1>3. ASSUME Performs(m, wb_ack)
      PROVE  Tag(m) \in Performed(wb_ack) /\ Tag(m)[1] = m
  <2>1. Selected(m) /\ Tag(m) # None /\ Tag(m)[1] = m
    BY <1>1, <1>3, TagFacts DEF Performs
  <2>2. req[m].op \in {"read", "write"} /\ req[m].dev \in {"ram", "hb32", "wb", "lb"}
    BY <1>1, <2>1, Requests DEF Selected
  <2>3. CASE req[m].op = "read"
    <3>1. m = read_grant /\ slave_rsel(req[m].dev)
      BY <1>1, <2>1, <2>2, <2>3, SelectedDevice DEF Devices
    <3>2. rtag(req[m].dev) = Tag(m)
      BY <1>1, <3>1, ReadSelected
    <3> QED  BY <1>1, <1>3, <2>1, <2>2, <2>3, <3>1, <3>2 DEF Performs, Performed, rsel32, WbInv
  <2>4. CASE req[m].op = "write"
    <3>1. m = write_grant /\ slave_wsel(req[m].dev)
      BY <1>1, <2>1, <2>2, <2>4, SelectedDevice DEF Devices
    <3>2. wtag(req[m].dev) = Tag(m)
      BY <1>1, <3>1, WriteSelected
    <3> QED  BY <1>1, <1>3, <2>1, <2>2, <2>4, <3>1, <3>2 DEF Performs, Performed, ram_wen, WbInv
  <2> QED  BY <2>1, <2>2, <2>3, <2>4
<1> QED  BY <1>2, <1>3

LEMMA MinePerformed ==
  ASSUME BusInv, NEW m \in Masters, NEW wb_ack \in BOOLEAN
  PROVE  Mine(m, Performed(wb_ack)) = IF Performs(m, wb_ack) THEN 1 ELSE 0
  BY PerformedBy, FS_Singleton, FS_EmptySet DEF Mine
-----------------------------------------------------------------------------
(***************************************************************************)
(* The crossing at an edge of either clock.                                *)
(***************************************************************************)
\* The sender latches a word where the channel is idle and becomes idle again
\* with the acknowledgement, which only a word that has been taken has.
LEMMA SendPhase ==
  ASSUME CdcInv, NEW send \in BOOLEAN, NEW d, SendClock(send, d), UNCHANGED receive_vars
  PROVE  /\ Phase = "idle" <=> send_ready
         /\ ack => Phase = "taken"
         /\ Phase' = IF Phase = "idle" /\ send THEN "carried"
                     ELSE IF ack THEN "idle" ELSE Phase
         /\ data_in_dff' = IF Phase = "idle" /\ send THEN d ELSE data_in_dff
<1>1. /\ send_ready \in BOOLEAN /\ receive_ready \in BOOLEAN
      /\ data_en_send_tff \in BOOLEAN /\ ack_receive_tff \in BOOLEAN
  BY DEF CdcInv, CdcTypeOK
<1>2. receive_ready' = receive_ready /\ ack_receive_tff' = ack_receive_tff
  BY DEF receive_vars
<1>3. Phase = "idle" <=> send_ready
  BY DEF Phase
<1>4. ack => Phase = "taken"
  BY <1>1 DEF CdcInv, Handshake, Arrived, ack, pulse, Phase
<1>5. data_in_dff' = IF Phase = "idle" /\ send THEN d ELSE data_in_dff
  BY <1>3 DEF SendClock
<1>6. CASE Phase = "idle" /\ send
  <2>1. ~send_ready' /\ data_en_send_tff' = ~data_en_send_tff
    BY <1>3, <1>6 DEF SendClock, StopAndWait
  <2>2. ~receive_ready /\ data_en_send_tff = ack_receive_tff
    BY <1>6 DEF CdcInv, Handshake
  <2>3. Phase' = "carried"
    BY <1>1, <1>2, <2>1, <2>2 DEF Phase
  <2> QED  BY <1>3, <1>4, <1>5, <1>6, <2>3
<1>7. CASE Phase = "idle" /\ ~send
  <2>1. send_ready' = TRUE
    BY <1>3, <1>7 DEF SendClock, StopAndWait
  <2> QED  BY <1>3, <1>4, <1>5, <1>7, <2>1 DEF Phase
<1>8. CASE Phase # "idle"
  <2>1. send_ready' = ack /\ data_en_send_tff' = data_en_send_tff
    BY <1>3, <1>8 DEF SendClock, StopAndWait
  <2>2. CASE ack
    BY <1>3, <1>4, <1>5, <1>8, <2>1, <2>2 DEF Phase
  <2>3. CASE ~ack
    BY <1>2, <1>3, <1>4, <1>5, <1>8, <2>1, <2>3 DEF Phase
  <2> QED  BY <2>2, <2>3
<1> QED  BY <1>6, <1>7, <1>8

\* The receiver gets the word that waits, and gives it back when it wants to.
LEMMA ReceivePhase ==
  ASSUME CdcInv, NEW receive_now \in BOOLEAN, ReceiveClock(receive_now), UNCHANGED send_vars
  PROVE  /\ receive_ready <=> Phase = "delivered"
         /\ Phase = "delivered" => data_out = data_in_dff
         /\ Phase \in {"idle", "taken"} => Phase' = Phase
         /\ Phase = "carried" => Phase' \in {"carried", "delivered"}
         /\ Phase = "delivered" => Phase' = IF receive_now THEN "taken" ELSE "delivered"
         /\ Phase = "delivered" => data_out' = data_out
<1>1. /\ send_ready \in BOOLEAN /\ receive_ready \in BOOLEAN
      /\ data_en_send_tff \in BOOLEAN /\ ack_receive_tff \in BOOLEAN
  BY DEF CdcInv, CdcTypeOK
<1>2. send_ready' = send_ready /\ data_en_send_tff' = data_en_send_tff
  BY DEF send_vars
<1>3. receive_ready <=> Phase = "delivered"
  BY DEF Phase, CdcInv, Handshake
<1>4. Phase = "delivered" => data_out = data_in_dff /\ data_out' = data_out
  BY <1>3 DEF CdcInv, Handshake, ReceiveClock
<1>5. CASE Phase \in {"idle", "taken"}
  <2>1. ~data_en /\ ~receive_ready
    BY <1>1, <1>3, <1>5 DEF CdcInv, Handshake, Arrived, data_en, pulse
  <2>2. ~receive_ready' /\ ack_receive_tff' = ack_receive_tff
    BY <2>1 DEF ReceiveClock, StopAndWait
  <2>3. Phase' = Phase
    BY <1>2, <2>1, <2>2 DEF Phase
  <2> QED  BY <1>3, <1>5, <2>3
<1>6. CASE Phase = "carried"
  <2>1. ~receive_ready /\ ~send_ready /\ data_en_send_tff # ack_receive_tff
    BY <1>3, <1>6 DEF Phase
  <2>2. ack_receive_tff' = ack_receive_tff
    BY <2>1 DEF ReceiveClock
  <2>3. Phase' \in {"carried", "delivered"}
    BY <1>2, <2>1, <2>2 DEF Phase
  <2> QED  BY <1>3, <1>6, <2>3
<1>7. CASE Phase = "delivered"
  <2>1. receive_ready /\ ~send_ready /\ data_en_send_tff # ack_receive_tff
    BY <1>3, <1>7 DEF Phase, CdcInv, Handshake
  <2>2. receive_now => ~receive_ready' /\ ack_receive_tff' = ~ack_receive_tff
    BY <2>1 DEF ReceiveClock, StopAndWait
  <2>3. ~receive_now => receive_ready' = TRUE /\ ack_receive_tff' = ack_receive_tff
    BY <2>1 DEF ReceiveClock, StopAndWait
  <2>4. Phase' = IF receive_now THEN "taken" ELSE "delivered"
    BY <1>1, <1>2, <2>1, <2>2, <2>3 DEF Phase
  <2> QED  BY <1>3, <1>4, <1>7, <2>4
<1> QED  BY <1>3, <1>5, <1>6, <1>7 DEF Phase

-----------------------------------------------------------------------------
(***************************************************************************)
(* The masters at an edge of the bus clock.                                *)
(***************************************************************************)
Edge(wb_ack, new) ==
  wb_ack \in BOOLEAN /\ new \in [MayAsk -> Choices] /\ HbStep(wb_ack, new)

\* A request that is not answered stays, with its tag and its grant.
LEMMA Kept ==
  ASSUME BusInv, NEW wb_ack, NEW new, Edge(wb_ack, new),
         NEW m \in Masters, req[m] # None, m \notin Answered
  PROVE  /\ req'[m] = req[m] /\ seq'[m] = seq[m] /\ Tag(m)' = Tag(m)
         /\ Selected(m) => Selected(m)'
<1>1. m \notin MayAsk
  BY DEF MayAsk
<1>2. req'[m] = req[m] /\ seq'[m] = seq[m]
  BY <1>1 DEF Edge, HbStep, MasterStep
<1>3. Tag(m)' = Tag(m)
  BY <1>2 DEF Tag
<1>4. ASSUME Selected(m) PROVE Selected(m)'
  <2>1. req[m].op \in {"read", "write"}
    BY Requests DEF BusInv, CrossInv
  <2>2. CASE req[m].op = "read"
    <3>1. read_grant = m /\ m \in read_req
      BY <1>4, <2>2 DEF Selected, read_req, Pending
    <3>2. read_grant' = m
      BY <3>1 DEF Edge, HbStep, Arbitrate
    <3> QED  BY <1>2, <2>2, <3>2 DEF Selected
  <2>3. CASE req[m].op = "write"
    <3>1. write_grant = m /\ m \in write_req
      BY <1>4, <2>3 DEF Selected, write_req, Pending
    <3>2. write_grant' = m
      BY <3>1 DEF Edge, HbStep, Arbitrate
    <3> QED  BY <1>2, <2>3, <3>2 DEF Selected
  <2> QED  BY <2>1, <2>2, <2>3
<1> QED  BY <1>2, <1>3, <1>4

\* Any other master has no request or a new one, with the other parity.
LEMMA Fresh ==
  ASSUME BusInv, NEW wb_ack, NEW new, Edge(wb_ack, new),
         NEW m \in Masters, req[m] = None \/ m \in Answered
  PROVE  Asked(m) = IF req'[m] = None THEN 0 ELSE 1
<1>1. seq[m] \in {0, 1}
  BY DEF BusInv, CrossInv, MastersOK
<1>2. CASE m \in MayAsk
  <2>1. req'[m] = new[m] /\ seq'[m] = IF new[m] # None THEN 1 - seq[m] ELSE seq[m]
    BY <1>2 DEF Edge, HbStep, MasterStep
  <2> QED  BY <1>1, <2>1 DEF Asked
<1>3. CASE m \notin MayAsk
  <2>1. m \in Answered
    BY <1>3 DEF MayAsk
  <2>2. req'[m] = None /\ seq'[m] = seq[m]
    BY <1>3, <2>1 DEF Edge, HbStep, MasterStep
  <2> QED  BY <2>2 DEF Asked
<1> QED  BY <1>2, <1>3

LEMMA MastersStep ==
  ASSUME CrossInv, NEW wb_ack, NEW new, Edge(wb_ack, new) PROVE MastersOK'
<1>1. \A m \in MayAsk : new[m] \in Accesses \cup {None}
  <2>1. mix \subseteq Devices
    BY BusAssumption DEF CrossInv, MastersOK
  <2>2. Choices \subseteq Accesses \cup {None}
    BY <2>1 DEF Choices, Accesses
  <2> QED  BY <2>2 DEF Edge
<1>2. mix' = mix
  BY DEF Edge, HbStep, MasterStep
<1>3. req' \in [Masters -> Accesses \cup {None}]
  BY <1>1 DEF Edge, HbStep, MasterStep, CrossInv, MastersOK
<1>4. seq' \in [Masters -> {0, 1}]
  <2>1. \A m \in Masters : 1 - seq[m] \in {0, 1} /\ seq[m] \in {0, 1}
    BY DEF CrossInv, MastersOK
  <2> QED  BY <2>1 DEF Edge, HbStep, MasterStep
<1> QED  BY <1>2, <1>3, <1>4 DEF MastersOK, CrossInv

\* The channels and devices that are selected for an access not answered stay so.
LEMMA ReadKept ==
  ASSUME BusInv, NEW wb_ack, NEW new, Edge(wb_ack, new), NEW d \in Devices,
         slave_rsel(d), ~Finished(read_grant)
  PROVE  slave_rsel(d)' /\ rtag(d)' = rtag(d) /\ read_grant' = read_grant
<1>1. MastersOK /\ MastersOK'
  BY MastersStep DEF BusInv, CrossInv
<1>2. PICK n \in Masters : n = read_grant
  BY <1>1, ReadSelected
<1>3. /\ Selected(n) /\ req[n] # None
      /\ req[n].op = "read" /\ req[n].dev = d /\ rtag(d) = Tag(n)
  BY <1>2, <1>1, ReadSelected
<1>4. n \notin Answered
  BY <1>2, <1>1, <1>3, AnsweredIs
<1>5. req'[n] = req[n] /\ Tag(n)' = Tag(n) /\ Selected(n)'
  BY <1>3, <1>4, Kept
<1>6. read_grant' = n
  BY <1>3, <1>5 DEF Selected
<1>7. slave_rsel(d)'
  BY <1>3, <1>5, <1>6 DEF slave_rsel, hb_ren, read_req, Pending
<1>8. rtag(d)' = Tag(n)'
  BY <1>5, <1>6, <1>7 DEF rtag, Tag
<1> QED  BY <1>2, <1>3, <1>5, <1>6, <1>7, <1>8

LEMMA WriteKept ==
  ASSUME BusInv, NEW wb_ack, NEW new, Edge(wb_ack, new), NEW d \in Devices,
         slave_wsel(d), ~Finished(write_grant)
  PROVE  slave_wsel(d)' /\ wtag(d)' = wtag(d) /\ write_grant' = write_grant
<1>1. MastersOK /\ MastersOK'
  BY MastersStep DEF BusInv, CrossInv
<1>2. PICK n \in Masters : n = write_grant
  BY <1>1, WriteSelected
<1>3. /\ Selected(n) /\ req[n] # None
      /\ req[n].op = "write" /\ req[n].dev = d /\ wtag(d) = Tag(n)
  BY <1>2, <1>1, WriteSelected
<1>4. n \notin Answered
  BY <1>2, <1>1, <1>3, AnsweredIs
<1>5. req'[n] = req[n] /\ Tag(n)' = Tag(n) /\ Selected(n)'
  BY <1>3, <1>4, Kept
<1>6. write_grant' = n
  BY <1>3, <1>5 DEF Selected
<1>7. slave_wsel(d)'
  BY <1>3, <1>5, <1>6 DEF slave_wsel, hb_wen, write_req, Pending
<1>8. wtag(d)' = Tag(n)'
  BY <1>5, <1>6, <1>7 DEF wtag, Tag
<1> QED  BY <1>2, <1>3, <1>5, <1>6, <1>7, <1>8
-----------------------------------------------------------------------------
(***************************************************************************)
(* The crossing between the buses at an edge of the bus clock.             *)
(***************************************************************************)
\* The send signal, and what it means for the crossing.
LEMMA BridgeEdge ==
  ASSUME CrossInv, NEW wb_ack, NEW new, Edge(wb_ack, new)
  PROVE  /\ SendEdge
         /\ ack => Phase = "taken"
         /\ Phase' = IF Phase = "idle" /\ LbSelected /\ send_ready_delay THEN "carried"
                     ELSE IF ack THEN "idle" ELSE Phase
         /\ data_in_dff' = IF Phase = "idle" /\ LbSelected /\ send_ready_delay
                           THEN LbWord ELSE data_in_dff
         /\ send_ready_delay' = (Phase = "idle")
         /\ hb_rdata' = IF ack THEN rdata_buffer ELSE hb_rdata
         /\ finish' = (~finish /\ ack)
         /\ UNCHANGED <<receive_vars, bridge_lb_vars>>
<1>1. MastersOK /\ CdcInv /\ FlagsOK
  BY DEF CrossInv
<1>2. HbClock(rtag("lb"), wtag("lb")) /\ UNCHANGED <<receive_vars, bridge_lb_vars>>
  BY DEF Edge, HbStep
<1> DEFINE send == (rtag("lb") # None \/ wtag("lb") # None) /\ send_ready_delay
<1>3. send \in BOOLEAN /\ send = (LbSelected /\ send_ready_delay)
  BY <1>1, ReadSelected, WriteSelected DEF LbSelected, FlagsOK
<1>4. SendClock(send, LbWord)
  BY <1>2 DEF HbClock, LbWord
<1>5. LbWord \in Data
  BY <1>1, ReadSelected, WriteSelected, BridgeAssumption DEF LbWord, truncated_xt_hb
<1>6. SendEdge
  BY <1>2, <1>3, <1>4, <1>5 DEF SendEdge
<1> HIDE DEF send
<1>7. /\ Phase = "idle" <=> send_ready
      /\ ack => Phase = "taken"
      /\ Phase' = IF Phase = "idle" /\ send THEN "carried"
                  ELSE IF ack THEN "idle" ELSE Phase
      /\ data_in_dff' = IF Phase = "idle" /\ send THEN LbWord ELSE data_in_dff
  BY <1>1, <1>2, <1>3, <1>4, SendPhase
<1>8. send_ready_delay' = (Phase = "idle")
  BY <1>1, <1>2, <1>7 DEF HbClock, CdcInv, CdcTypeOK
<1>9. hb_rdata' = (IF ack THEN rdata_buffer ELSE hb_rdata) /\ finish' = (~finish /\ ack)
  BY <1>2 DEF HbClock
<1> QED  BY <1>2, <1>3, <1>6, <1>7, <1>8, <1>9

LEMMA OneLbStep ==
  ASSUME BusInv, ~LbOverlap, NEW wb_ack, NEW new, Edge(wb_ack, new) PROVE OneLbChannel'
  BY DEF Edge, HbStep, MasterStep, OneLbChannel

\* The word of the low-speed bus stays until its access is answered.
LEMMA WordKept ==
  ASSUME BusInv, ~LbOverlap, NEW wb_ack, NEW new, Edge(wb_ack, new), LbSelected, ~finish
  PROVE  LbSelected' /\ LbWord' = LbWord /\ (slave_rsel("lb")' <=> slave_rsel("lb"))
<1>1. /\ MastersOK /\ MastersOK' /\ OneLbChannel /\ OneLbChannel'
  BY MastersStep, OneLbStep DEF BusInv, CrossInv
<1>2. ~(slave_rsel("lb") /\ slave_wsel("lb")) /\ ~(slave_rsel("lb") /\ slave_wsel("lb"))'
  <2>1. (MastersOK /\ OneLbChannel => ~(slave_rsel("lb") /\ slave_wsel("lb")))'
    BY OneLbTag, PTL
  <2> QED  BY <1>1, <2>1, OneLbTag
<1>3. CASE slave_rsel("lb")
  <2>1. ~Finished(read_grant)
    BY <1>1, <1>3, ReadSelected DEF Finished
  <2>2. slave_rsel("lb")' /\ rtag("lb")' = rtag("lb")
    BY <1>3, <2>1, ReadKept DEF Devices
  <2>3. ~slave_wsel("lb")' /\ ~slave_wsel("lb")
    BY <1>2, <1>3, <2>2
  <2>4. wtag("lb")' = None /\ wtag("lb") = None
    BY <2>3 DEF wtag
  <2> QED  BY <1>3, <2>2, <2>4 DEF LbSelected, LbWord
<1>4. CASE slave_wsel("lb")
  <2>1. ~Finished(write_grant)
    BY <1>1, <1>4, WriteSelected DEF Finished
  <2>2. slave_wsel("lb")' /\ wtag("lb")' = wtag("lb")
    BY <1>4, <2>1, WriteKept DEF Devices
  <2>3. ~slave_rsel("lb")' /\ ~slave_rsel("lb")
    BY <1>2, <1>4, <2>2
  <2>4. rtag("lb")' = None /\ rtag("lb") = None
    BY <2>3 DEF rtag
  <2> QED  BY <2>2, <2>3, <2>4 DEF LbSelected, LbWord
<1> QED  BY <1>3, <1>4 DEF LbSelected

LEMMA SendingStep ==
  ASSUME BusInv, ~LbOverlap, NEW wb_ack, NEW new, Edge(wb_ack, new) PROVE LbSending'
<1>1. /\ ack => Phase = "taken"
      /\ Phase' = IF Phase = "idle" /\ LbSelected /\ send_ready_delay THEN "carried"
                  ELSE IF ack THEN "idle" ELSE Phase
      /\ data_in_dff' = IF Phase = "idle" /\ LbSelected /\ send_ready_delay
                        THEN LbWord ELSE data_in_dff
      /\ send_ready_delay' = (Phase = "idle")
      /\ hb_rdata' = IF ack THEN rdata_buffer ELSE hb_rdata
      /\ finish' = (~finish /\ ack)
      /\ rdata_buffer' = rdata_buffer
  BY BridgeEdge DEF BusInv, bridge_lb_vars
<1>2. CASE Phase = "idle" /\ ~(LbSelected /\ send_ready_delay)
  <2>1. Phase' = "idle" /\ ~finish'
    BY <1>1, <1>2
  <2> QED  BY <2>1 DEF LbSending
<1>3. CASE Phase = "idle" /\ LbSelected /\ send_ready_delay
  <2>1. ~finish
    BY <1>3 DEF BusInv, LbSending
  <2>2. Phase' = "carried" /\ ~finish' /\ data_in_dff' = LbWord
    BY <1>1, <1>3
  <2>3. LbSelected' /\ LbWord' = LbWord
    BY <1>3, <2>1, WordKept
  <2> QED  BY <2>2, <2>3 DEF LbSending
<1>4. CASE Phase # "idle"
  <2>1. ~finish /\ LbSelected /\ data_in_dff = LbWord
    BY <1>4 DEF BusInv, LbSending
  <2>2. data_in_dff' = LbWord /\ send_ready_delay' = FALSE /\ finish' = ack
    BY <1>1, <1>4, <2>1 DEF ack, pulse
  <2>3. LbSelected' /\ LbWord' = LbWord /\ (slave_rsel("lb")' <=> slave_rsel("lb"))
    BY <2>1, WordKept
  <2>4. slave_rsel("lb")' => rtag("lb")' = rtag("lb")
    BY <2>3 DEF LbWord
  <2>5. CASE ack
    <3>1. Phase = "taken" /\ Phase' = "idle" /\ finish' /\ hb_rdata' = rdata_buffer
      BY <1>1, <1>4, <2>2, <2>5
    <3>2. slave_rsel("lb")' => hb_rdata' = rtag("lb")'
      BY <2>3, <2>4, <3>1 DEF BusInv, LbSending
    <3> QED  BY <2>2, <2>3, <3>1, <3>2 DEF LbSending
  <2>6. CASE ~ack
    <3>1. Phase' = Phase /\ ~finish'
      BY <1>1, <1>4, <2>2, <2>6
    <3>2. Phase' = "taken" /\ slave_rsel("lb")' => rdata_buffer' = rtag("lb")'
      BY <1>1, <2>3, <2>4, <3>1 DEF BusInv, LbSending
    <3> QED  BY <2>2, <2>3, <3>1, <3>2 DEF LbSending
  <2> QED  BY <2>5, <2>6
<1> QED  BY <1>2, <1>3, <1>4

LEMMA ReceivingKept ==
  ASSUME BusInv, NEW wb_ack, NEW new, Edge(wb_ack, new) PROVE LbReceiving'
<1>1. UNCHANGED <<lb_state, receive, read_before_write, addr, data_out>>
  BY BridgeEdge DEF BusInv, bridge_lb_vars, receive_vars
<1>2. Phase = "delivered" => Phase' = "delivered"
  BY BridgeEdge DEF BusInv
<1> QED  BY <1>1, <1>2 DEF BusInv, LbReceiving

-----------------------------------------------------------------------------
(***************************************************************************)
(* The other devices at an edge of the bus clock.                          *)
(***************************************************************************)
LEMMA RamStep ==
  ASSUME BusInv, NEW wb_ack, NEW new, Edge(wb_ack, new), ram_read_finish'
  PROVE  /\ slave_rsel("ram") /\ ~ram_read_finish /\ read_grant' = read_grant
         /\ slave_rsel("ram")' /\ ram_q' = rtag("ram")'
<1>1. slave_rsel("ram") /\ ~ram_read_finish /\ ram_q' = rtag("ram")
  BY DEF Edge, HbStep, RAM, ram_wen
<1>2. ~Finished(read_grant)
  BY <1>1, ReadSelected DEF Finished, BusInv, CrossInv
<1> QED  BY <1>1, <1>2, ReadKept DEF Devices

LEMMA Hb32Step ==
  ASSUME BusInv, NEW wb_ack, NEW new, Edge(wb_ack, new), hb32_read_finish'
  PROVE  /\ slave_rsel("hb32") /\ ~hb32_read_finish /\ read_grant' = read_grant
         /\ slave_rsel("hb32")' /\ hb32_q' = rtag("hb32")'
<1>1. slave_rsel("hb32") /\ ~hb32_read_finish /\ hb32_q' = rtag("hb32")
  BY DEF Edge, HbStep, HB32, rsel32
<1>2. ~Finished(read_grant)
  BY <1>1, ReadSelected DEF Finished, BusInv, CrossInv
<1> QED  BY <1>1, <1>2, ReadKept DEF Devices

\* A cycle ends with the acknowledgement, and the flag of its channel.
LEMMA WbEnds ==
  ASSUME BusInv, NEW wb_ack, NEW new, Edge(wb_ack, new)
  PROVE  /\ wb_read_finish' <=> wb_cyc /\ wb_ack /\ ~wb_we
         /\ wb_write_finish' <=> wb_cyc /\ wb_ack /\ wb_we
         /\ wb_delay' <=> wb_cyc /\ wb_ack
         /\ wb_read_finish' => wb_q' = wb_adr
         /\ wb_cyc /\ ~wb_we => /\ slave_rsel("wb") /\ slave_rsel("wb")'
                                /\ rtag("wb")' = rtag("wb") /\ read_grant' = read_grant
         /\ wb_cyc /\ wb_we => /\ slave_wsel("wb") /\ slave_wsel("wb")'
                               /\ wtag("wb")' = wtag("wb") /\ write_grant' = write_grant
<1>1. MastersOK /\ WbInv /\ FlagsOK
  BY DEF BusInv, CrossInv
<1>2. Wishbone(wb_ack) /\ wb_ack \in BOOLEAN
  BY DEF Edge, HbStep
<1>3. /\ wb_read_finish' <=> wb_cyc /\ wb_ack /\ ~wb_we
      /\ wb_write_finish' <=> wb_cyc /\ wb_ack /\ wb_we
      /\ wb_delay' <=> wb_cyc /\ wb_ack
      /\ wb_read_finish' => wb_q' = wb_adr
  BY <1>1, <1>2 DEF Wishbone, WbInv
<1>4. wb_cyc /\ ~wb_we => slave_rsel("wb") /\ ~Finished(read_grant)
  BY <1>1, ReadSelected DEF WbInv, Finished
<1>5. wb_cyc /\ wb_we => slave_wsel("wb") /\ ~Finished(write_grant)
  BY <1>1, WriteSelected DEF WbInv, Finished
<1> QED  BY <1>3, <1>4, <1>5, ReadKept, WriteKept DEF Devices

LEMMA WbStep ==
  ASSUME BusInv, NEW wb_ack, NEW new, Edge(wb_ack, new) PROVE WbInv'
<1>1. MastersOK /\ WbInv /\ FlagsOK
  BY DEF BusInv, CrossInv
<1>2. Wishbone(wb_ack) /\ wb_ack \in BOOLEAN
  BY DEF Edge, HbStep
<1>3. wb_read_finish' \/ wb_write_finish' => wb_delay'
  BY WbEnds
<1>4. wb_read_finish' /\ slave_rsel("wb")' => wb_q' = rtag("wb")'
  BY <1>1, WbEnds DEF WbInv
<1>5. CASE wb_cyc /\ wb_cyc'
  <2>1. ~wb_ack /\ UNCHANGED <<wb_we, wb_adr>>
    BY <1>2, <1>5 DEF Wishbone
  <2>2. ~wb_read_finish' /\ ~wb_write_finish'
    BY <2>1, WbEnds
  <2>3. IF wb_we' THEN slave_wsel("wb")' /\ wb_adr' = wtag("wb")'
                  ELSE slave_rsel("wb")' /\ wb_adr' = rtag("wb")'
    BY <1>1, <1>5, <2>1, WbEnds DEF WbInv
  <2> QED  BY <1>3, <1>4, <2>2, <2>3 DEF WbInv
<1>6. CASE ~wb_cyc /\ wb_cyc'
  <2>1. ~wb_read_finish' /\ ~wb_write_finish'
    BY <1>6, WbEnds
  <2>2. perform /\ ~wb_read_finish /\ ~wb_write_finish
    BY <1>1, <1>2, <1>6 DEF Wishbone, perform, WbInv
  <2>3. wb_we' = ~slave_rsel("wb") /\ wb_adr' = IF slave_rsel("wb") THEN rtag("wb") ELSE wtag("wb")
    BY <1>2, <1>6, <2>2 DEF Wishbone
  <2>4. CASE slave_rsel("wb")
    <3>1. ~Finished(read_grant)
      BY <1>1, <2>2, <2>4, ReadSelected DEF Finished
    <3>2. slave_rsel("wb")' /\ rtag("wb")' = rtag("wb")
      BY <2>4, <3>1, ReadKept DEF Devices
    <3> QED  BY <1>3, <1>4, <2>1, <2>3, <2>4, <3>2 DEF WbInv
  <2>5. CASE ~slave_rsel("wb")
    <3>1. slave_wsel("wb")
      BY <2>2, <2>5 DEF perform
    <3>2. ~Finished(write_grant)
      BY <1>1, <2>2, <3>1, WriteSelected DEF Finished
    <3>3. slave_wsel("wb")' /\ wtag("wb")' = wtag("wb")
      BY <3>1, <3>2, WriteKept DEF Devices
    <3> QED  BY <1>3, <1>4, <2>1, <2>3, <2>5, <3>3 DEF WbInv
  <2> QED  BY <2>4, <2>5
<1>7. CASE ~wb_cyc'
  BY <1>3, <1>4, <1>7 DEF WbInv
<1> QED  BY <1>5, <1>6, <1>7

LEMMA FlagsStep ==
  ASSUME CrossInv, NEW wb_ack, NEW new, Edge(wb_ack, new) PROVE FlagsOK'
<1>1. FlagsOK /\ wb_ack \in BOOLEAN
  BY DEF CrossInv, Edge
<1>2. ram_read_finish' \in BOOLEAN /\ hb32_read_finish' \in BOOLEAN
  BY DEF Edge, HbStep, RAM, HB32
<1>3. wb_read_finish' \in BOOLEAN /\ wb_write_finish' \in BOOLEAN /\ wb_delay' \in BOOLEAN
  BY DEF Edge, HbStep, Wishbone
<1>4. wb_cyc' \in BOOLEAN /\ wb_we' \in BOOLEAN
  BY <1>1 DEF Edge, HbStep, Wishbone, FlagsOK, perform
<1>5. finish' \in BOOLEAN /\ send_ready_delay' \in BOOLEAN
  BY BridgeEdge
<1>6. lb_state' = lb_state /\ receive' = receive
  BY DEF Edge, HbStep, bridge_lb_vars
<1> QED  BY <1>1, <1>2, <1>3, <1>4, <1>5, <1>6 DEF FlagsOK
-----------------------------------------------------------------------------
(***************************************************************************)
(* What has been performed, at an edge of the bus clock.                   *)
(***************************************************************************)
\* An access that is performed and not answered at once waits for its answer.
LEMMA DoneAfter ==
  ASSUME BusInv, NEW wb_ack, NEW new, Edge(wb_ack, new), NEW m \in Masters,
         m \notin Answered, Done(m) \/ Performs(m, wb_ack)
  PROVE  Done(m)'
<1>1. MastersOK /\ FlagsOK /\ WbInv /\ LbSending
  BY DEF BusInv, CrossInv
<1>2. Selected(m) /\ req[m] # None /\ ~Finished(m)
  BY <1>1, AnsweredIs DEF Done, Performs, Selected
<1>3. Selected(m)' /\ req'[m] = req[m]
  BY <1>2, Kept
<1>4. req[m].op \in {"read", "write"} /\ req[m].dev \in {"ram", "hb32", "wb", "lb"}
  BY <1>1, <1>2, Requests
<1>5. CASE req[m].dev = "ram"
  <2>1. req[m].op = "read" /\ ~ram_read_finish
    BY <1>2, <1>4, <1>5 DEF Finished, Done, Performs
  <2>2. slave_rsel("ram")
    BY <1>1, <1>2, <1>5, <2>1, SelectedDevice DEF Devices
  <2>3. ram_read_finish'
    BY <2>1, <2>2 DEF Edge, HbStep, RAM
  <2> QED  BY <1>3, <1>5, <2>1, <2>3 DEF Done
<1>6. CASE req[m].dev = "hb32"
  <2>1. req[m].op = "read" /\ ~hb32_read_finish
    BY <1>2, <1>4, <1>6 DEF Finished, Done, Performs
  <2>2. slave_rsel("hb32")
    BY <1>1, <1>2, <1>6, <2>1, SelectedDevice DEF Devices
  <2>3. hb32_read_finish'
    BY <2>1, <2>2 DEF Edge, HbStep, HB32
  <2> QED  BY <1>3, <1>6, <2>1, <2>3 DEF Done
<1>7. CASE req[m].dev = "wb"
  <2>1. wb_cyc /\ wb_ack /\ IF req[m].op = "read" THEN ~wb_we ELSE wb_we
    BY <1>2, <1>7 DEF Finished, Done, Performs
  <2>2. IF req[m].op = "read" THEN wb_read_finish' ELSE wb_write_finish'
    BY <2>1, WbEnds
  <2> QED  BY <1>3, <1>7, <2>2 DEF Done
<1>8. CASE req[m].dev = "lb"
  <2>1. ~finish /\ Phase = "taken"
    BY <1>2, <1>8 DEF Finished, Done, Performs
  <2>2. finish' \/ Phase' = "taken"
    BY <2>1, BridgeEdge DEF BusInv, ack, pulse
  <2> QED  BY <1>3, <1>8, <2>2 DEF Done
<1> QED  BY <1>4, <1>5, <1>6, <1>7, <1>8

\* And nothing else does.
LEMMA DoneBefore ==
  ASSUME BusInv, ~LbOverlap, NEW wb_ack, NEW new, Edge(wb_ack, new), NEW m \in Masters,
         Done(m)'
  PROVE  req[m] # None /\ m \notin Answered /\ (Done(m) \/ Performs(m, wb_ack))
<1>1. MastersOK /\ FlagsOK /\ WbInv /\ LbSending /\ MastersOK' /\ OneLbChannel'
  BY MastersStep, OneLbStep DEF BusInv, CrossInv
<1>2. /\ req'[m] # None
      /\ m = IF req'[m].op = "read" THEN read_grant' ELSE write_grant'
  BY DEF Done, Selected
<1>3. req'[m].op \in {"read", "write"}
  BY <1>1, <1>2 DEF MastersOK, Accesses
\* It is enough that the device was selected for m and has not answered.
<1>4. SUFFICES Selected(m) /\ ~Finished(m) /\ (Done(m) \/ Performs(m, wb_ack))
  BY <1>1, AnsweredIs DEF Selected
<1>5. CASE req'[m].dev = "ram" /\ req'[m].op = "read" /\ ram_read_finish'
  <2>1. slave_rsel("ram") /\ ~ram_read_finish /\ read_grant = m
    BY <1>2, <1>5, RamStep
  <2>2. Selected(m) /\ req[m].dev = "ram" /\ req[m].op = "read"
    BY <1>1, <2>1, ReadSelected
  <2> QED  BY <2>1, <2>2 DEF Finished, Performs
<1>6. CASE req'[m].dev = "hb32" /\ req'[m].op = "read" /\ hb32_read_finish'
  <2>1. slave_rsel("hb32") /\ ~hb32_read_finish /\ read_grant = m
    BY <1>2, <1>6, Hb32Step
  <2>2. Selected(m) /\ req[m].dev = "hb32" /\ req[m].op = "read"
    BY <1>1, <2>1, ReadSelected
  <2> QED  BY <2>1, <2>2 DEF Finished, Performs
<1>7. CASE req'[m].dev = "wb" /\ req'[m].op = "read" /\ wb_read_finish'
  <2>1. wb_cyc /\ wb_ack /\ ~wb_we /\ slave_rsel("wb") /\ read_grant = m
    BY <1>2, <1>7, WbEnds
  <2>2. Selected(m) /\ req[m].dev = "wb" /\ req[m].op = "read"
    BY <1>1, <2>1, ReadSelected
  <2> QED  BY <1>1, <2>1, <2>2 DEF Finished, Performs, WbInv
<1>8. CASE req'[m].dev = "wb" /\ req'[m].op = "write" /\ wb_write_finish'
  <2>1. wb_cyc /\ wb_ack /\ wb_we /\ slave_wsel("wb") /\ write_grant = m
    BY <1>2, <1>8, WbEnds
  <2>2. Selected(m) /\ req[m].dev = "wb" /\ req[m].op = "write"
    BY <1>1, <2>1, WriteSelected
  <2> QED  BY <1>1, <2>1, <2>2 DEF Finished, Performs, WbInv
<1>9. CASE req'[m].dev = "lb" /\ (finish' \/ Phase' = "taken")
  <2>1. Phase = "taken" /\ ~finish
    BY <1>1, <1>9, BridgeEdge DEF BusInv, LbSending
  <2>2. LbSelected
    BY <1>1, <2>1 DEF LbSending
  <2>3. CASE slave_rsel("lb")
    <3>1. ~Finished(read_grant)
      BY <1>1, <2>1, <2>3, ReadSelected DEF Finished
    <3>2. slave_rsel("lb")' /\ read_grant' = read_grant
      BY <2>3, <3>1, ReadKept DEF Devices
    <3>3. /\ read_grant' \in Masters /\ req'[read_grant'] # None
          /\ req'[read_grant'].op = "read" /\ req'[read_grant'].dev = "lb"
      BY <3>2 DEF slave_rsel, hb_ren, read_req, Pending
    <3>4. req'[m].op = "read"
      BY <1>1, <1>2, <1>9, <3>3 DEF OneLbChannel
    <3>5. m = read_grant
      BY <1>2, <3>2, <3>4
    <3>6. Selected(m) /\ req[m].dev = "lb"
      BY <1>1, <2>3, <3>5, ReadSelected
    <3> QED  BY <2>1, <3>6 DEF Finished, Done
  <2>4. CASE slave_wsel("lb")
    <3>1. ~Finished(write_grant)
      BY <1>1, <2>1, <2>4, WriteSelected DEF Finished
    <3>2. slave_wsel("lb")' /\ write_grant' = write_grant
      BY <2>4, <3>1, WriteKept DEF Devices
    <3>3. /\ write_grant' \in Masters /\ req'[write_grant'] # None
          /\ req'[write_grant'].op = "write" /\ req'[write_grant'].dev = "lb"
      BY <3>2 DEF slave_wsel, hb_wen, write_req, Pending
    <3>4. req'[m].op = "write"
      BY <1>1, <1>2, <1>9, <3>3 DEF OneLbChannel
    <3>5. m = write_grant
      BY <1>2, <3>2, <3>4
    <3>6. Selected(m) /\ req[m].dev = "lb"
      BY <1>1, <2>4, <3>5, WriteSelected
    <3> QED  BY <2>1, <3>6 DEF Finished, Done
  <2> QED  BY <2>2, <2>3, <2>4 DEF LbSelected
<1> QED  BY <1>3, <1>5, <1>6, <1>7, <1>8, <1>9 DEF Done

\* So the history agrees with the devices again after the edge.
LEMMA CountedStep ==
  ASSUME BusInv, ~LbOverlap, NEW wb_ack, NEW new, Edge(wb_ack, new) PROVE Counted'
<1>1. MastersOK /\ Counted /\ wb_ack \in BOOLEAN
  BY DEF BusInv, CrossInv, Edge
<1>2. ASSUME NEW m \in Masters
      PROVE  /\ owed'[m] = IF req'[m] # None /\ ~Done(m)' THEN 1 ELSE 0
             /\ undelivered'[m] = IF Done(m)' THEN 1 ELSE 0
  <2>1. Mine(m, Performed(wb_ack)) = IF Performs(m, wb_ack) THEN 1 ELSE 0
    BY <1>1, MinePerformed
  <2>2. /\ owed'[m] = owed[m] + Asked(m) - IF Performs(m, wb_ack) THEN 1 ELSE 0
        /\ undelivered'[m] = undelivered[m] + (IF Performs(m, wb_ack) THEN 1 ELSE 0)
                               - IF m \in Answered THEN 1 ELSE 0
    BY <2>1 DEF Edge, HbStep, Count
  <2>3. /\ owed[m] = IF req[m] # None /\ ~Done(m) THEN 1 ELSE 0
        /\ undelivered[m] = IF Done(m) THEN 1 ELSE 0
    BY <1>1 DEF Counted
  <2>4. Performs(m, wb_ack) \/ Done(m) => req[m] # None
    BY DEF Performs, Done, Selected
  <2>5. /\ ~(Done(m) /\ Performs(m, wb_ack))
        /\ m \in Answered => Done(m) \/ Performs(m, wb_ack)
    BY <1>1, PerformsOnce
  <2>6. CASE req[m] # None /\ m \notin Answered
    <3>1. req'[m] = req[m] /\ Asked(m) = 0
      BY <2>6, Kept DEF Asked
    <3>2. Done(m)' <=> Done(m) \/ Performs(m, wb_ack)
      BY <2>6, DoneAfter, DoneBefore
    <3> QED  BY <2>2, <2>3, <2>5, <2>6, <3>1, <3>2
  <2>7. CASE m \in Answered
    <3>1. Asked(m) = IF req'[m] = None THEN 0 ELSE 1
      BY <2>7, Fresh
    <3>2. ~Done(m)'
      BY <2>7, DoneBefore
    <3> QED  BY <2>2, <2>3, <2>4, <2>5, <2>7, <3>1, <3>2
  <2>8. CASE req[m] = None
    <3>1. Asked(m) = IF req'[m] = None THEN 0 ELSE 1
      BY <2>8, Fresh
    <3>2. ~Done(m)'
      BY <2>8, DoneBefore
    <3>3. m \notin Answered
      BY <2>8 DEF Answered
    <3> QED  BY <2>2, <2>3, <2>4, <2>8, <3>1, <3>2, <3>3
  <2> QED  BY <2>6, <2>7, <2>8
<1> QED  BY <1>2 DEF Counted

LEMMA BusEdge ==
  ASSUME BusInv, ~LbOverlap, HbEdge PROVE BusInv' /\ SendEdge
<1>1. PICK wb_ack \in BOOLEAN, new \in [MayAsk -> Choices] : Edge(wb_ack, new)
  BY DEF HbEdge, Edge
<1>2. SendEdge
  BY <1>1, BridgeEdge DEF BusInv
<1>3. CdcInv'
  BY <1>2, NextCdc DEF BusInv, CrossInv, CdcNext
<1>4. RamInv' /\ Hb32Inv'
  BY <1>1, RamStep, Hb32Step DEF RamInv, Hb32Inv
<1> QED  BY <1>1, <1>2, <1>3, <1>4, MastersStep, FlagsStep, OneLbStep, WbStep,
            SendingStep, ReceivingKept, CountedStep DEF BusInv, CrossInv
-----------------------------------------------------------------------------
(***************************************************************************)
(* An edge of the low-speed clock, a reset and the start.                  *)
(***************************************************************************)
\* One access at a time is selected on the low-speed bus, and the word is its tag.
LEMMA LbHolder ==
  ASSUME BusInv, LbSelected
  PROVE  \E h \in Masters :
           /\ Selected(h) /\ req[h].dev = "lb"
           /\ LbWord = IF slave_rsel("lb") THEN [r |-> Tag(h), w |-> None]
                                           ELSE [r |-> None, w |-> Tag(h)]
           /\ \A m \in Masters : Selected(m) /\ req[m].dev = "lb" => m = h
<1>1. MastersOK /\ OneLbChannel /\ ~(slave_rsel("lb") /\ slave_wsel("lb"))
  BY OneLbTag DEF BusInv, CrossInv
<1>2. CASE slave_rsel("lb")
  <2>1. /\ read_grant \in Masters /\ Selected(read_grant) /\ req[read_grant] # None
        /\ req[read_grant].op = "read" /\ req[read_grant].dev = "lb"
        /\ rtag("lb") = Tag(read_grant) /\ wtag("lb") = None
    BY <1>1, <1>2, ReadSelected, WriteSelected
  <2>2. \A m \in Masters : Selected(m) /\ req[m].dev = "lb" => m = read_grant
    BY <1>1, <2>1 DEF OneLbChannel, Selected
  <2> QED  BY <1>2, <2>1, <2>2 DEF LbWord
<1>3. CASE slave_wsel("lb")
  <2>1. /\ write_grant \in Masters /\ Selected(write_grant) /\ req[write_grant] # None
        /\ req[write_grant].op = "write" /\ req[write_grant].dev = "lb"
        /\ wtag("lb") = Tag(write_grant) /\ rtag("lb") = None /\ ~slave_rsel("lb")
    BY <1>1, <1>3, ReadSelected, WriteSelected
  <2>2. \A m \in Masters : Selected(m) /\ req[m].dev = "lb" => m = write_grant
    BY <1>1, <2>1 DEF OneLbChannel, Selected
  <2> QED  BY <2>1, <2>2 DEF LbWord
<1> QED  BY <1>2, <1>3 DEF LbSelected

\* The masters, the grants and the other devices see nothing of the edge.
LEMMA LbFrame ==
  ASSUME BusInv, LbEdge
  PROVE  /\ ReceiveEdge
         /\ MastersOK' /\ OneLbChannel' /\ RamInv' /\ Hb32Inv' /\ WbInv'
         /\ slave_rsel("lb")' = slave_rsel("lb") /\ slave_wsel("lb")' = slave_wsel("lb")
         /\ rtag("lb")' = rtag("lb") /\ LbSelected' = LbSelected /\ LbWord' = LbWord
         /\ data_in_dff' = data_in_dff
         /\ UNCHANGED bridge_hb_vars
         /\ \A m \in Masters : req'[m] = req[m] /\ Selected(m)' = Selected(m) /\ Asked(m) = 0
<1>1. UNCHANGED <<send_vars, bridge_hb_vars, device_vars, master_vars>>
  BY DEF LbEdge
<1>2. ReceiveEdge
  BY <1>1 DEF LbEdge, LbClock, ReceiveEdge, BusInv, CrossInv, FlagsOK
<1>3. MastersOK' /\ OneLbChannel'
  BY <1>1 DEF master_vars, BusInv, CrossInv, MastersOK, OneLbChannel
<1>4. \A d : /\ slave_rsel(d)' = slave_rsel(d) /\ slave_wsel(d)' = slave_wsel(d)
             /\ rtag(d)' = rtag(d) /\ wtag(d)' = wtag(d)
  BY <1>1 DEF master_vars, slave_rsel, slave_wsel, hb_ren, hb_wen, read_req, write_req,
              Pending, rtag, wtag, Tag
<1>5. RamInv' /\ Hb32Inv' /\ WbInv'
  BY <1>1, <1>4 DEF device_vars, BusInv, RamInv, Hb32Inv, WbInv
<1>6. LbSelected' = LbSelected /\ LbWord' = LbWord
  BY <1>4 DEF LbSelected, LbWord
<1>7. \A m \in Masters : req'[m] = req[m] /\ Selected(m)' = Selected(m) /\ Asked(m) = 0
  BY <1>1 DEF master_vars, Selected, Asked
<1> QED  BY <1>1, <1>2, <1>3, <1>4, <1>5, <1>6, <1>7 DEF send_vars

\* An edge at which the state machine has nothing to perform.
LEMMA LbIdleStep ==
  ASSUME BusInv, LbEdge, lb_state = "IDLE" PROVE BusInv'
<1>1. /\ MastersOK /\ FlagsOK /\ CdcInv /\ OneLbChannel /\ LbSending /\ LbReceiving /\ Counted
      /\ receive = FALSE
  BY DEF BusInv, CrossInv, LbReceiving
<1>2. /\ receive_ready <=> Phase = "delivered"
      /\ Phase = "delivered" => data_out = data_in_dff
      /\ Phase = "idle" => Phase' = "idle"
      /\ Phase = "taken" => Phase' = "taken"
      /\ Phase = "carried" => Phase' \in {"carried", "delivered"}
      /\ Phase = "delivered" => Phase' = "delivered" /\ data_out' = data_out
  BY <1>1, ReceivePhase DEF LbEdge, LbClock
<1>3. LbIdle
  BY DEF LbEdge, LbClock, LbWrite, LbRead
<1>4. Phase \in {"idle", "carried", "delivered", "taken"}
  BY DEF Phase
<1>5. CdcInv'
  BY <1>1, LbFrame, NextCdc DEF CdcNext
<1>6. LbSending'
  <2>1. Phase' # "idle" \/ finish' => LbSelected' /\ data_in_dff' = LbWord'
    BY <1>1, <1>2, LbFrame DEF LbSending, bridge_hb_vars
  <2>2. finish' => /\ Phase' = "idle" /\ ~send_ready_delay'
                   /\ (slave_rsel("lb")' => hb_rdata' = rtag("lb")')
    BY <1>1, <1>2, LbFrame DEF LbSending, bridge_hb_vars
  <2>3. Phase' = "taken" /\ slave_rsel("lb")' => rdata_buffer' = rtag("lb")'
    BY <1>1, <1>2, <1>3, <1>4, LbFrame DEF LbSending, LbIdle
  <2> QED  BY <2>1, <2>2, <2>3 DEF LbSending
<1>7. LbReceiving' /\ lb_state' \in {"IDLE", "READ", "WRITE"} /\ receive' \in BOOLEAN
  <2>1. CASE receive_ready /\ ren
    <3>1. /\ lb_state' = "READ" /\ receive' = ~wen /\ addr' = data_out.r
          /\ read_before_write' = wen
      BY <1>3, <2>1 DEF LbIdle
    <3>2. Phase' = "delivered" /\ data_out' = data_out /\ data_out = LbWord
      BY <1>1, <1>2, <2>1 DEF LbSending
    <3>3. ~wen
      BY <1>1, <2>1, <3>2, ReadSelected, WriteSelected, OneLbTag DEF ren, wen, LbWord
    <3> QED  BY <2>1, <3>1, <3>2, <3>3 DEF LbReceiving, ren
  <2>2. CASE receive_ready /\ ~ren /\ wen
    <3>1. /\ lb_state' = "WRITE" /\ receive' = TRUE /\ addr' = data_out.w
          /\ read_before_write' = read_before_write
      BY <1>3, <2>2 DEF LbIdle
    <3>2. Phase' = "delivered" /\ data_out' = data_out
      BY <1>2, <2>2
    <3> QED  BY <1>1, <2>2, <3>1, <3>2 DEF LbReceiving, wen
  <2>3. CASE ~(receive_ready /\ ren) /\ ~(receive_ready /\ wen)
    <3>1. UNCHANGED <<lb_state, receive, addr, read_before_write>>
      BY <1>3, <2>3 DEF LbIdle
    <3> QED  BY <1>1, <3>1 DEF LbReceiving, FlagsOK
  <2> QED  BY <2>1, <2>2, <2>3
<1>8. FlagsOK'
  BY <1>1, <1>7 DEF LbEdge, device_vars, bridge_hb_vars, FlagsOK
<1>9. Counted'
  <2>1. ASSUME NEW m \in Masters
        PROVE  /\ Done(m)' <=> Done(m)
               /\ owed'[m] = owed[m] /\ undelivered'[m] = undelivered[m]
    <3>1. Done(m)' <=> Done(m)
      BY <1>2, <1>4, LbFrame DEF Done, LbEdge, device_vars, bridge_hb_vars
    <3>2. Mine(m, LbPerformed) = 0
      BY FS_EmptySet DEF Mine, LbPerformed
    <3>3. /\ owed[m] \in {0, 1} /\ undelivered[m] \in {0, 1} /\ Asked(m) = 0
      BY <1>1, LbFrame DEF Counted
    <3> QED  BY <3>1, <3>2, <3>3 DEF LbEdge, Count
  <2> QED  BY <1>1, <2>1, LbFrame DEF Counted
<1> QED  BY <1>5, <1>6, <1>7, <1>8, <1>9, LbFrame DEF BusInv, CrossInv

\* An edge at which the access of the word is performed: the word is taken.
LEMMA LbAccessStep ==
  ASSUME BusInv, LbEdge, lb_state # "IDLE" PROVE BusInv'
<1>1. /\ MastersOK /\ FlagsOK /\ CdcInv /\ OneLbChannel /\ LbSending /\ LbReceiving /\ Counted
      /\ receive = TRUE /\ Phase = "delivered" /\ ~finish
      /\ lb_state \in {"READ", "WRITE"}
  BY DEF BusInv, CrossInv, LbReceiving, LbSending, FlagsOK
<1>2. data_out = data_in_dff /\ Phase' = "taken"
  BY <1>1, ReceivePhase DEF LbEdge, LbClock
<1>3. lb_state' = "IDLE" /\ receive' = FALSE /\ read_before_write' = read_before_write
  BY <1>1 DEF LbEdge, LbClock, LbIdle, LbRead, LbWrite, LbReceiving
<1>4. CdcInv'
  BY <1>1, LbFrame, NextCdc DEF CdcNext
<1>5. LbSelected /\ data_out = LbWord
  BY <1>1, <1>2 DEF LbSending
<1>6. PICK h \in Masters :
        /\ Selected(h) /\ req[h].dev = "lb"
        /\ LbWord = IF slave_rsel("lb") THEN [r |-> Tag(h), w |-> None]
                                        ELSE [r |-> None, w |-> Tag(h)]
        /\ \A m \in Masters : Selected(m) /\ req[m].dev = "lb" => m = h
  BY <1>5, LbHolder
<1>7. addr = Tag(h) /\ addr[1] = h
  <2>1. addr = Tag(h)
    BY <1>1, <1>5, <1>6 DEF LbReceiving
  <2> QED  BY <1>1, <2>1, TagFacts
<1>8. LbSending'
  <2>1. slave_rsel("lb") => rdata_buffer' = rtag("lb")
    <3>1. slave_rsel("lb") => lb_state = "READ" /\ rtag("lb") = addr
      BY <1>1, <1>5, <1>6, <1>7 DEF LbReceiving, LbWord
    <3> QED  BY <3>1 DEF LbEdge, LbClock, LbIdle, LbRead, LbWrite
  <2> QED  BY <1>1, <1>2, <1>5, <2>1, LbFrame DEF LbSending, bridge_hb_vars
<1>9. LbReceiving' /\ FlagsOK'
  <2>1. LbReceiving'
    BY <1>1, <1>3 DEF LbReceiving
  <2> QED  BY <1>1, <1>3, <2>1 DEF LbEdge, device_vars, bridge_hb_vars, FlagsOK
<1>10. Counted'
  <2>1. ASSUME NEW m \in Masters
        PROVE  /\ owed'[m] = IF req'[m] # None /\ ~Done(m)' THEN 1 ELSE 0
               /\ undelivered'[m] = IF Done(m)' THEN 1 ELSE 0
    <3>1. /\ owed[m] = IF req[m] # None /\ ~Done(m) THEN 1 ELSE 0
          /\ undelivered[m] = IF Done(m) THEN 1 ELSE 0
      BY <1>1 DEF Counted
    <3>2. /\ owed'[m] = owed[m] + 0 - Mine(m, {addr})
          /\ undelivered'[m] = undelivered[m] + Mine(m, {addr}) - 0
      BY <1>1, LbFrame DEF LbEdge, Count, LbPerformed
    <3>3. CASE m = h
      <4>1. {t \in {addr} : t[1] = m} = {addr}
        BY <1>7, <3>3
      <4>2. Mine(m, {addr}) = 1
        BY <4>1, FS_Singleton DEF Mine
      <4>3. ~Done(m) /\ Done(m)' /\ req[m] # None /\ req'[m] = req[m]
        BY <1>1, <1>2, <1>6, <3>3, LbFrame DEF Done, Selected
      <4> QED  BY <3>1, <3>2, <4>2, <4>3
    <3>4. CASE m # h
      <4>1. {t \in {addr} : t[1] = m} = {}
        BY <1>7, <3>4
      <4>2. Mine(m, {addr}) = 0
        BY <4>1, FS_EmptySet DEF Mine
      <4>3. (Done(m)' <=> Done(m)) /\ req'[m] = req[m]
        BY <1>6, <3>4, LbFrame DEF Done, LbEdge, device_vars
      <4> QED  BY <3>1, <3>2, <4>2, <4>3
    <3> QED  BY <3>3, <3>4
  <2> QED  BY <2>1 DEF Counted
<1> QED  BY <1>4, <1>8, <1>9, <1>10, LbFrame DEF BusInv, CrossInv

\* A reset keeps the types.
LEMMA ResetFrame ==
  ASSUME CrossInv, Reset PROVE MastersOK' /\ FlagsOK'
<1>1. 0 \in Masters /\ MastersOK /\ FlagsOK
  BY BusAssumption DEF Masters, CrossInv
<1>2. MastersOK'
  BY <1>1 DEF Reset, MastersOK
<1>3. wb_read_finish' \in BOOLEAN /\ wb_write_finish' \in BOOLEAN /\ wb_delay' \in BOOLEAN
  BY DEF Reset
<1>4. wb_cyc' \in BOOLEAN /\ wb_we' \in BOOLEAN
  BY <1>1 DEF Reset, FlagsOK
<1>5. ram_read_finish' \in BOOLEAN /\ hb32_read_finish' \in BOOLEAN
  BY DEF Reset
<1>6. /\ lb_state' \in {"IDLE", "READ", "WRITE"} /\ receive' \in BOOLEAN
      /\ send_ready_delay' \in BOOLEAN /\ finish' \in BOOLEAN
  BY DEF Reset, BridgeReset
<1> QED  BY <1>2, <1>3, <1>4, <1>5, <1>6 DEF FlagsOK

\* After a reset no device is selected; the debug module's request stays and is
\* owed again.
LEMMA BusReset ==
  ASSUME BusInv, Reset PROVE BusInv'
<1>1. 0 \in Masters /\ MastersOK /\ OneLbChannel /\ CdcInv /\ FlagsOK
  BY BusAssumption DEF Masters, BusInv, CrossInv
<1>2. /\ req' \in [Masters -> Accesses \cup {None}] /\ req'[0] = None
      /\ \A m \in Masters : req'[m] # None => req'[m] = req[m]
      /\ read_grant' = 0 /\ write_grant' = 0
  BY <1>1 DEF Reset, MastersOK
<1>3. MastersOK' /\ FlagsOK' /\ OneLbChannel'
  BY <1>1, <1>2, ResetFrame DEF Reset, OneLbChannel, BusInv
<1>4. CdcInv'
  BY <1>1, NextCdc DEF Reset, BridgeReset, CdcNext
<1>5. Phase' = "idle" /\ ~finish' /\ lb_state' = "IDLE" /\ receive' = FALSE
      /\ read_before_write' = read_before_write
  BY DEF Reset, BridgeReset, CdcReset, Phase
<1>6. \A d : ~slave_rsel(d)' /\ ~slave_wsel(d)'
  BY <1>2 DEF slave_rsel, slave_wsel, hb_ren, hb_wen, read_req, write_req, Pending
<1>7. \A m \in Masters : ~Done(m)'
  BY <1>2 DEF Done, Selected
<1>8. RamInv' /\ Hb32Inv' /\ LbSending' /\ LbReceiving'
  BY <1>5 DEF Reset, RamInv, Hb32Inv, LbSending, LbReceiving, BusInv
<1>9. PICK wb_ack \in BOOLEAN :
        /\ wb_read_finish'  = (~wb_read_finish  /\ wb_cyc /\ wb_ack /\ ~wb_we)
        /\ wb_write_finish' = (~wb_write_finish /\ wb_cyc /\ wb_ack /\ wb_we)
        /\ wb_delay' = (wb_cyc /\ wb_ack)
  BY DEF Reset
<1>10. WbInv'
  BY <1>6, <1>9 DEF Reset, WbInv
<1>11. Counted'
  BY <1>7 DEF Reset, Counted
<1> QED  BY <1>3, <1>4, <1>8, <1>10, <1>11 DEF BusInv, CrossInv

LEMMA BusInit == ASSUME Init PROVE BusInv /\ CdcInit
<1>1. CdcInit /\ CdcInv
  BY InitCdc DEF Init, BridgeInit
<1>2. MastersOK /\ FlagsOK /\ OneLbChannel
  BY DEF Init, BridgeInit, MastersOK, FlagsOK, OneLbChannel
<1>3. Phase = "idle" /\ ~finish
  BY DEF Init, BridgeInit, CdcInit, Phase
<1>4. RamInv /\ Hb32Inv /\ WbInv /\ LbSending /\ LbReceiving
  BY <1>3 DEF Init, BridgeInit, RamInv, Hb32Inv, WbInv, LbSending, LbReceiving
<1>5. Counted
  BY DEF Init, Counted, Done, Selected
<1> QED  BY <1>1, <1>2, <1>4, <1>5 DEF BusInv, CrossInv

LEMMA BusStutter ==
  ASSUME BusInv, UNCHANGED vars PROVE BusInv'
<1>1. /\ UNCHANGED cdc_vars /\ UNCHANGED <<send_ready_delay, finish, hb_rdata>>
      /\ UNCHANGED <<lb_state, receive, read_before_write, addr, rdata_buffer>>
      /\ UNCHANGED device_vars /\ UNCHANGED master_vars /\ UNCHANGED history
  BY DEF vars, bridge_hb_vars, bridge_lb_vars
<1>2. CdcInv' /\ Phase' = Phase /\ data_in_dff' = data_in_dff /\ data_out' = data_out
  BY <1>1, NextCdc DEF cdc_vars, send_vars, receive_vars, Phase, BusInv, CrossInv
<1>3. \A d : /\ slave_rsel(d)' = slave_rsel(d) /\ slave_wsel(d)' = slave_wsel(d)
             /\ rtag(d)' = rtag(d) /\ wtag(d)' = wtag(d)
  BY <1>1 DEF master_vars, slave_rsel, slave_wsel, hb_ren, hb_wen, read_req, write_req,
              Pending, rtag, wtag, Tag
<1>4. MastersOK' /\ OneLbChannel'
  BY <1>1 DEF master_vars, BusInv, CrossInv, MastersOK, OneLbChannel
<1>5. FlagsOK'
  BY <1>1 DEF device_vars, BusInv, CrossInv, FlagsOK
<1>6. RamInv' /\ Hb32Inv' /\ WbInv'
  BY <1>1, <1>3 DEF device_vars, BusInv, RamInv, Hb32Inv, WbInv
<1>7. LbSending' /\ LbReceiving'
  BY <1>1, <1>2, <1>3 DEF BusInv, LbSending, LbSelected, LbWord, LbReceiving
<1>8. \A m \in Masters : Done(m)' <=> Done(m)
  BY <1>1, <1>2 DEF master_vars, device_vars, Done, Selected
<1>9. Counted'
  BY <1>1, <1>8 DEF master_vars, history, BusInv, Counted
<1> QED  BY <1>2, <1>4, <1>5, <1>6, <1>7, <1>9 DEF BusInv, CrossInv

LEMMA BusStep ==
  ASSUME BusInv, ~LbOverlap, [Next]_vars PROVE BusInv'
<1>1. CASE HbEdge
  BY <1>1, BusEdge
<1>2. CASE LbEdge
  BY <1>2, LbIdleStep, LbAccessStep
<1>3. CASE Reset
  BY <1>3, BusReset
<1>4. CASE UNCHANGED vars
  BY <1>4, BusStutter
<1> QED  BY <1>1, <1>2, <1>3, <1>4 DEF Next

\* The crossing keeps its part with any use of the bus.
LEMMA CrossStep ==
  ASSUME CrossInv, [Next]_vars PROVE CrossInv' /\ [CdcNext]_cdc_vars
<1>1. MastersOK /\ FlagsOK /\ CdcInv
  BY DEF CrossInv
<1>2. CASE HbEdge
  <2>1. PICK wb_ack \in BOOLEAN, new \in [MayAsk -> Choices] : Edge(wb_ack, new)
    BY <1>2 DEF HbEdge, Edge
  <2>2. SendEdge /\ MastersOK' /\ FlagsOK'
    BY <2>1, BridgeEdge, MastersStep, FlagsStep
  <2> QED  BY <1>1, <2>2, NextCdc DEF CrossInv, CdcNext
<1>3. CASE LbEdge
  <2>1. ReceiveEdge
    BY <1>1, <1>3 DEF LbEdge, LbClock, ReceiveEdge, FlagsOK
  <2>2. MastersOK'
    BY <1>1, <1>3 DEF LbEdge, master_vars, MastersOK
  <2>3. lb_state' \in {"IDLE", "READ", "WRITE"} /\ receive' \in BOOLEAN
    BY <1>1, <1>3 DEF LbEdge, LbClock, LbIdle, LbRead, LbWrite, wen, FlagsOK
  <2>4. FlagsOK'
    BY <1>1, <1>3, <2>3 DEF LbEdge, device_vars, bridge_hb_vars, FlagsOK
  <2> QED  BY <1>1, <2>1, <2>2, <2>4, NextCdc DEF CrossInv, CdcNext
<1>4. CASE Reset
  BY <1>1, <1>4, ResetFrame, NextCdc DEF CrossInv, CdcNext, Reset, BridgeReset
<1>5. CASE UNCHANGED vars
  BY <1>1, <1>5, NextCdc DEF vars, bridge_hb_vars, bridge_lb_vars, device_vars, master_vars,
     CrossInv, MastersOK, FlagsOK
<1> QED  BY <1>2, <1>3, <1>4, <1>5 DEF Next

-----------------------------------------------------------------------------
\* Each access has its side effect exactly once, between the request and the
\* answer: for any number of masters, on whatever device and with resets, as
\* long as the two channels do not use the low-speed bus at the same time.
THEOREM AccessesExactlyOnce == ~LbOverlap => (Spec => []ExactlyOnce)
<1> SUFFICES ASSUME ~LbOverlap PROVE Spec => []ExactlyOnce
  OBVIOUS
<1>1. Init => BusInv
  BY BusInit
<1>2. BusInv /\ [Next]_vars => BusInv'
  BY BusStep
<1>3. BusInv => ExactlyOnce
  <2>1. \A m \in Masters : Done(m) => req[m] # None
    BY DEF Done, Selected
  <2> QED  BY <2>1 DEF BusInv, Counted, ExactlyOnce
<1> QED  BY <1>1, <1>2, <1>3, PTL DEF Spec

\* A master that is answered finds the data of its own access on the bus.
THEOREM AnswersAreOwn == ~LbOverlap => (Spec => []OwnAnswer)
<1> SUFFICES ASSUME ~LbOverlap PROVE Spec => []OwnAnswer
  OBVIOUS
<1>1. Init => BusInv
  BY BusInit
<1>2. BusInv /\ [Next]_vars => BusInv'
  BY BusStep
<1>3. BusInv => OwnAnswer
  <2> SUFFICES ASSUME BusInv, NEW m \in read_req, ~stall_req(m)
               PROVE  rdata(req[m].dev) = Tag(m)
    BY DEF OwnAnswer
  <2>1. MastersOK /\ m \in Masters /\ req[m] # None /\ req[m].op = "read"
    BY DEF BusInv, CrossInv, read_req, Pending
  <2>2. Selected(m) /\ Finished(m)
    BY <2>1, AnsweredIs DEF Answered
  <2>3. m = read_grant /\ slave_rsel(req[m].dev) /\ rtag(req[m].dev) = Tag(m)
    BY <2>1, <2>2, Requests, SelectedDevice, ReadSelected DEF Devices
  <2>4. req[m].dev \in {"ram", "hb32", "wb", "lb"}
    BY <2>1, Requests
  <2>5. CASE req[m].dev = "ram"
    BY <2>1, <2>2, <2>3, <2>5 DEF rdata, Finished, BusInv, RamInv
  <2>6. CASE req[m].dev = "hb32"
    BY <2>1, <2>2, <2>3, <2>6 DEF rdata, Finished, BusInv, Hb32Inv
  <2>7. CASE req[m].dev = "wb"
    BY <2>1, <2>2, <2>3, <2>7 DEF rdata, Finished, BusInv, WbInv
  <2>8. CASE req[m].dev = "lb"
    BY <2>1, <2>2, <2>3, <2>8 DEF rdata, Finished, BusInv, LbSending
  <2> QED  BY <2>4, <2>5, <2>6, <2>7, <2>8
<1> QED  BY <1>1, <1>2, <1>3, PTL DEF Spec

\* The handshake of the crossing holds whatever the masters ask, and when.
THEOREM BridgeHandshake == Spec => []Handshake
<1>1. Init => CrossInv
  BY BusInit DEF BusInv
<1>2. CrossInv /\ [Next]_vars => CrossInv'
  BY CrossStep
<1>3. CrossInv => Handshake
  BY DEF CrossInv, CdcInv
<1> QED  BY <1>1, <1>2, <1>3, PTL DEF Spec

\* Each word crosses to the low-speed clock once and unchanged.
THEOREM BridgeImplementsChannel == Spec => ImplementsChannel
<1>1. Init => CrossInv /\ C!Init
  BY BusInit, InitCdc DEF BusInv
<1>2. CrossInv /\ [Next]_vars => CrossInv' /\ [C!Next]_<<Phase, data_in_dff, data_out>>
  BY CrossStep, NextCdc DEF CrossInv
<1> QED  BY <1>1, <1>2, PTL DEF Spec, ImplementsChannel, C!Spec
=============================================================================
