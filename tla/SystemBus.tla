----------------------------- MODULE SystemBus ------------------------------
(***************************************************************************)
(* XT_HB with its devices: the RAM, the adapter of the 32-bit peripherals,  *)
(* the Wishbone bridge and the low-speed bridge.  Master 0 is the hart,     *)
(* master 1 the debug module.  One step is an edge of the bus clock or of   *)
(* the low-speed clock.                                                     *)
(*                                                                         *)
(* An access is a channel and a device; its tag stands for address and      *)
(* data.  A device that performs an access yields its tag, a data register  *)
(* holds the tag of the access it was read for.  owed and undelivered count *)
(* what each master has asked for and what has been performed for it; they  *)
(* are history variables.                                                  *)
(***************************************************************************)
EXTENDS LowSpeedBridge, FiniteSets

CONSTANTS
  MasterCount,
  Mixes,       \* sets of devices; the masters access those of one set
  LbOverlap    \* whether one master may read the low-speed bus while another
               \* one writes it

Devices  == {"ram", "hb32", "wb", "lb"}
Masters  == 0 .. MasterCount - 1
Accesses == [op : {"read", "write"}, dev : Devices]

ASSUME BusAssumption ==
  /\ MasterCount \in Nat \ {0}
  /\ Mixes \subseteq SUBSET Devices
  /\ Tags = Masters \X {0, 1}
  /\ None \notin Accesses
  /\ LbOverlap \in BOOLEAN

VARIABLES
  mix,                        \* the devices in use, chosen once
  req, seq,                   \* what each master asks, and its parity
  read_grant, write_grant,    \* RoundRobinArbiter.grant_idx of each channel
  ram_read_finish, ram_q,     \* HarvardSystemRAM_BUS
  hb32_read_finish, hb32_q,   \* XT_HB32_Adapter and its devices
  wb_read_finish, wb_write_finish, wb_delay,   \* WISHBONE_Adapter
  wb_cyc, wb_we, wb_adr, wb_q,                 \* WISHBONE_MASTER
  owed, undelivered           \* history

device_vars == <<ram_read_finish, ram_q, hb32_read_finish, hb32_q,
                 wb_read_finish, wb_write_finish, wb_delay,
                 wb_cyc, wb_we, wb_adr, wb_q>>
master_vars == <<mix, req, seq, read_grant, write_grant>>
history     == <<owed, undelivered>>
vars == <<cdc_vars, bridge_hb_vars, bridge_lb_vars,
          device_vars, master_vars, history>>

Tag(m) == <<m, seq[m]>>
Pending(op) == {m \in Masters : req[m] # None /\ req[m].op = op}
read_req  == Pending("read")
write_req == Pending("write")

-----------------------------------------------------------------------------
(***************************************************************************)
(* The controller: arbitration, selection, answers.                        *)
(***************************************************************************)
\* The first requester after the one that holds the grant.
NextGrant(idx, reqs) ==
  LET After(step) == (idx + step) % MasterCount
      first == CHOOSE s \in 1 .. MasterCount :
                 /\ After(s) \in reqs
                 /\ \A t \in 1 .. s - 1 : After(t) \notin reqs
  IN  After(first)
\* Mutant: the grant is kept.
MutSticky(idx, reqs) == idx
Arbitrate(idx, reqs) ==
  IF reqs # {} /\ idx \notin reqs THEN NextGrant(idx, reqs) ELSE idx

hb_ren == read_grant \in read_req
hb_wen == write_grant \in write_req
slave_rsel(d) == hb_ren /\ req[read_grant].dev = d
slave_wsel(d) == hb_wen /\ req[write_grant].dev = d
rtag(d) == IF slave_rsel(d) THEN Tag(read_grant) ELSE None
wtag(d) == IF slave_wsel(d) THEN Tag(write_grant) ELSE None

\* Mutant: the port of the RAM is not shared.
MutRamBoth == slave_wsel("ram")
ram_wen == slave_wsel("ram") /\ ~slave_rsel("ram")

read_finished == \A d \in Devices : slave_rsel(d) =>
  CASE d = "ram"  -> ram_read_finish
    [] d = "hb32" -> hb32_read_finish
    [] d = "wb"   -> wb_read_finish
    [] d = "lb"   -> finish
write_finished == \A d \in Devices : slave_wsel(d) =>
  CASE d = "ram"  -> ram_wen
    [] d = "hb32" -> TRUE
    [] d = "wb"   -> wb_write_finish
    [] d = "lb"   -> finish

stall_req(m) == \/ m \in read_req  /\ ~(m = read_grant /\ read_finished)
                \/ m \in write_req /\ ~(m = write_grant /\ write_finished)

rdata(d) == CASE d = "ram" -> ram_q [] d = "hb32" -> hb32_q
              [] d = "wb" -> wb_q [] d = "lb" -> hb_rdata

-----------------------------------------------------------------------------
(***************************************************************************)
(* The devices at an edge of the bus clock.                                *)
(***************************************************************************)
RAM ==
  /\ ram_read_finish' = (~ram_read_finish /\ slave_rsel("ram"))
  /\ ram_q' = IF ram_wen THEN None ELSE rtag("ram")

\* Mutant: a peripheral is selected in both cycles of a read.
Mut32Twice == slave_rsel("hb32")
rsel32 == slave_rsel("hb32") /\ ~hb32_read_finish
HB32 ==
  /\ hb32_read_finish' = (~hb32_read_finish /\ slave_rsel("hb32"))
  /\ hb32_q' = IF rsel32 THEN rtag("hb32") ELSE hb32_q

perform == ~wb_delay /\ (slave_rsel("wb") \/ slave_wsel("wb"))
\* wb_ack is the slave's; in a cycle the bridge holds cyc, stb and we.
Wishbone(wb_ack) ==
  /\ wb_read_finish'  = (~wb_read_finish  /\ wb_cyc /\ wb_ack /\ ~wb_we)
  /\ wb_write_finish' = (~wb_write_finish /\ wb_cyc /\ wb_ack /\ wb_we)
  /\ wb_delay' = (wb_cyc /\ wb_ack)
  /\ wb_cyc' = IF wb_cyc THEN ~wb_ack ELSE perform
  /\ wb_q' = IF wb_cyc /\ wb_ack /\ ~wb_we THEN wb_adr ELSE wb_q
  /\ IF ~wb_cyc /\ perform
     THEN /\ wb_we' = ~slave_rsel("wb")
          /\ wb_adr' = IF slave_rsel("wb") THEN rtag("wb") ELSE wtag("wb")
     ELSE UNCHANGED <<wb_we, wb_adr>>

\* The accesses that the devices perform at this edge.
Performed(wb_ack) ==
  ( (IF ram_read_finish THEN {} ELSE {rtag("ram")})
    \cup (IF ram_wen THEN {wtag("ram")} ELSE {})
    \cup (IF rsel32 THEN {rtag("hb32")} ELSE {})
    \cup {wtag("hb32")}
    \cup (IF wb_cyc /\ wb_ack THEN {wb_adr} ELSE {}) ) \ {None}

-----------------------------------------------------------------------------
(***************************************************************************)
(* The masters.  A request is held until it is answered.  The hart may ask *)
(* again at once, with the next load or store; the debug module does not,  *)
(* its next command comes over JTAG.                                       *)
(***************************************************************************)
Answered == {m \in Masters : req[m] # None /\ ~stall_req(m)}
MayAsk   == {m \in Masters : req[m] = None \/ (m = 0 /\ m \in Answered)}

MasterStep(new) ==
  /\ UNCHANGED mix
  /\ req' = [m \in Masters |->
               IF m \in MayAsk THEN new[m]
               ELSE IF m \in Answered THEN None ELSE req[m]]
  /\ seq' = [m \in Masters |->
               IF m \in MayAsk /\ new[m] # None THEN 1 - seq[m] ELSE seq[m]]
  /\ ~LbOverlap => \A m, n \in Masters :
       req'[m] # None /\ req'[n] # None /\ req'[m].dev = "lb" /\ req'[n].dev = "lb"
         => req'[m].op = req'[n].op

Mine(m, tags) == Cardinality({t \in tags : t[1] = m})
Asked(m) == IF seq'[m] # seq[m] THEN 1 ELSE 0
Count(performed, answered) ==
  /\ owed' = [m \in Masters |-> owed[m] + Asked(m) - Mine(m, performed)]
  /\ undelivered' = [m \in Masters |->
       undelivered[m] + Mine(m, performed) - IF m \in answered THEN 1 ELSE 0]

-----------------------------------------------------------------------------
HbStep(wb_ack, new) ==
  /\ MasterStep(new)
  /\ read_grant'  = Arbitrate(read_grant, read_req)
  /\ write_grant' = Arbitrate(write_grant, write_req)
  /\ RAM /\ HB32 /\ Wishbone(wb_ack) /\ HbClock(rtag("lb"), wtag("lb"))
  /\ UNCHANGED <<receive_vars, bridge_lb_vars>>
  /\ Count(Performed(wb_ack), Answered)

Choices == [op : {"read", "write"}, dev : mix] \cup {None}
HbEdge == \E wb_ack \in BOOLEAN, new \in [MayAsk -> Choices] : HbStep(wb_ack, new)

LbEdge ==
  /\ LbClock
  /\ UNCHANGED <<send_vars, bridge_hb_vars, device_vars, master_vars>>
  /\ Count(LbPerformed, {})

\* An edge of the bus clock in reset.  The hart withdraws its access; that of
\* the debug module, which is not reset, stays and is asked again.  With the
\* grants at the hart no device is selected.
Reset ==
  /\ BridgeReset
  /\ req' = [req EXCEPT ![0] = None] /\ UNCHANGED <<seq, mix>>
  /\ read_grant' = 0 /\ write_grant' = 0
  /\ ram_read_finish' = FALSE /\ ram_q' = None
  /\ hb32_read_finish' = FALSE /\ UNCHANGED hb32_q
  /\ \E wb_ack \in BOOLEAN :
       /\ wb_read_finish'  = (~wb_read_finish  /\ wb_cyc /\ wb_ack /\ ~wb_we)
       /\ wb_write_finish' = (~wb_write_finish /\ wb_cyc /\ wb_ack /\ wb_we)
       /\ wb_delay' = (wb_cyc /\ wb_ack)
       /\ wb_q' = IF wb_cyc /\ wb_ack /\ ~wb_we THEN wb_adr ELSE wb_q
  /\ wb_cyc' = FALSE /\ UNCHANGED <<wb_we, wb_adr>>
  /\ owed' = [m \in Masters |-> IF req'[m] = None THEN 0 ELSE 1]
  /\ undelivered' = [m \in Masters |-> 0]

Init ==
  /\ BridgeInit /\ mix \in Mixes
  /\ req = [m \in Masters |-> None] /\ seq = [m \in Masters |-> 0]
  /\ read_grant = 0 /\ write_grant = 0
  /\ ram_read_finish = FALSE /\ ram_q = None
  /\ hb32_read_finish = FALSE /\ hb32_q = None
  /\ wb_read_finish = FALSE /\ wb_write_finish = FALSE /\ wb_delay = FALSE
  /\ wb_cyc = FALSE /\ wb_we = FALSE /\ wb_adr = None /\ wb_q = None
  /\ owed = [m \in Masters |-> 0] /\ undelivered = [m \in Masters |-> 0]

Next == HbEdge \/ LbEdge \/ Reset

Spec == Init /\ [][Next]_vars

-----------------------------------------------------------------------------
(***************************************************************************)
(* Properties.                                                             *)
(***************************************************************************)
TypeOK ==
  /\ BridgeTypeOK
  /\ mix \in Mixes
  /\ req \in [Masters -> Accesses \cup {None}] /\ seq \in [Masters -> {0, 1}]
  /\ read_grant \in Masters /\ write_grant \in Masters
  /\ ram_read_finish \in BOOLEAN /\ ram_q \in Request
  /\ hb32_read_finish \in BOOLEAN /\ hb32_q \in Request
  /\ wb_read_finish \in BOOLEAN /\ wb_write_finish \in BOOLEAN
  /\ wb_delay \in BOOLEAN /\ wb_cyc \in BOOLEAN /\ wb_we \in BOOLEAN
  /\ wb_adr \in Request /\ wb_q \in Request

\* Each access has its side effect exactly once, between the request and the
\* answer, on whatever device and whatever the other master does.
ExactlyOnce == \A m \in Masters :
  /\ owed[m] \in {0, 1} /\ undelivered[m] \in {0, 1}
  /\ owed[m] + undelivered[m] = IF req[m] = None THEN 0 ELSE 1

\* A master that is answered finds the data of its own access on the bus.
OwnAnswer == \A m \in read_req :
  ~stall_req(m) => rdata(req[m].dev) = Tag(m)

\* Every access is answered, unless the system is reset over and over.
Served == \A m \in Masters, parity \in {0, 1} :
  []<>~(req[m] # None /\ seq[m] = parity) \/ []<><<Reset>>_vars

\* Both clocks run and the Wishbone slave acknowledges, with no master obliged
\* to ask.  The hart does not access the bus in every cycle for ever: a loop
\* has a jump, which leaves EX empty behind it.
Quiet(wb_ack) == HbStep(wb_ack, [m \in MayAsk |-> None])
Fairness ==
  /\ WF_vars(\E wb_ack \in BOOLEAN : Quiet(wb_ack)) /\ WF_vars(LbEdge)
  /\ WF_vars(wb_cyc /\ Quiet(TRUE))
  /\ SF_vars(0 \in Answered /\ \E wb_ack \in BOOLEAN : Quiet(wb_ack))
FairSpec == Spec /\ Fairness
=============================================================================
