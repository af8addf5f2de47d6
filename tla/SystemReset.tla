----------------------------- MODULE SystemReset -----------------------------
(***************************************************************************)
(* The reset controller with what surrounds it: the PLL, the Wishbone       *)
(* adapter of the system bus, the flash interface behind both, the sources  *)
(* of reset requests, and the boot controller, whose switch between boot    *)
(* ROM and RAM takes effect through a reset.  One step is an edge of the    *)
(* system clock or of the controller's own, or the PLL's lock coming or     *)
(* going.                                                                   *)
(***************************************************************************)
EXTENDS ResetController

CONSTANTS
  LockTime,      \* edges of independent_clk in which a reset PLL locks
  LossInReset    \* whether the lock may be lost while the system is in reset

ASSUME SystemAssumption == LockTime \in 1 .. CNT /\ LossInReset \in BOOLEAN

VARIABLES
  pll_lock, pll_time,             \* the PLL; Lost until it is reset
  ext_req,                        \* rst_sw_sync or ndmreset
  boot_req, update_map, into_ram_mode, into_rom_mode, mapped_to_ram,
  efb_cyc, wb_delay,              \* WISHBONE_Adapter and its master
  closed                          \* history: see Performed

boot_vars == <<boot_req, update_map, into_ram_mode, into_rom_mode, mapped_to_ram>>
bus_vars  == <<efb_cyc, wb_delay, closed>>
vars == <<watch_vars, reset_vars, pll_lock, pll_time, ext_req, boot_vars, bus_vars>>

reset_req == ext_req \/ boot_req

-----------------------------------------------------------------------------
(***************************************************************************)
(* The PLL.  It does not lock again by itself: it has to be reset.          *)
(***************************************************************************)
Lost == LockTime + 1

IndependentEdge ==
  /\ pll_lock \/ pll_rst(pll_lock) \/ pll_time # LockTime
  /\ PllWatch(pll_lock)
  /\ pll_time' = IF pll_rst(pll_lock) THEN 0
                 ELSE IF pll_lock \/ pll_time = Lost THEN pll_time
                 ELSE pll_time + 1
  /\ UNCHANGED <<reset_vars, pll_lock, ext_req, boot_vars, bus_vars>>

Lock ==
  /\ ~pll_lock /\ ~pll_rst(pll_lock) /\ pll_time \in 1 .. LockTime
  /\ pll_lock' = TRUE /\ pll_time' = 0
  /\ UNCHANGED <<watch_vars, reset_vars, ext_req, boot_vars, bus_vars>>

LoseLock ==
  /\ pll_lock /\ (reset => LossInReset)
  /\ pll_lock' = FALSE /\ pll_time' = Lost
  /\ LockLost
  /\ UNCHANGED <<watch_vars, ext_req, boot_vars, bus_vars>>

-----------------------------------------------------------------------------
(***************************************************************************)
(* The boot controller.  mode is what software writes to it at this edge.   *)
(***************************************************************************)
\* Mutant: the mode is switched at once.
MutSwitchAtOnce(mode) ==
  /\ boot_req' = (~reset /\ ~reset' /\ (boot_req \/ mode # "none"))
  /\ update_map' = (reset \/ reset')
  /\ mapped_to_ram' = IF mode = "none" THEN mapped_to_ram ELSE mode = "ram"
  /\ into_ram_mode' = FALSE /\ into_rom_mode' = FALSE
\* Mutant: the request is a pulse.
MutPulse(mode) ==
  /\ boot_req' = (~reset /\ ~reset' /\ mode # "none")
  /\ update_map' = (reset \/ reset')
  /\ IF update_map /\ (into_ram_mode \/ into_rom_mode)
     THEN /\ into_ram_mode' = FALSE /\ into_rom_mode' = FALSE
          /\ mapped_to_ram' = ~into_rom_mode
     ELSE /\ into_ram_mode' = (into_ram_mode \/ mode = "ram")
          /\ into_rom_mode' = (into_rom_mode \/ mode = "rom")
          /\ UNCHANGED mapped_to_ram
\* Mutant: the request outlives the reset.
MutSelfHold(mode) ==
  /\ boot_req' = (boot_req \/ mode # "none")
  /\ update_map' = (reset \/ reset')
  /\ UNCHANGED <<mapped_to_ram, into_ram_mode, into_rom_mode>>
Bootstrap(mode) ==
  /\ boot_req' = (~reset /\ ~reset' /\ (boot_req \/ mode # "none"))
  /\ update_map' = (reset \/ reset')
  /\ IF update_map /\ (into_ram_mode \/ into_rom_mode)
     THEN /\ into_ram_mode' = FALSE /\ into_rom_mode' = FALSE
          /\ mapped_to_ram' = ~into_rom_mode
     ELSE /\ into_ram_mode' = (into_ram_mode \/ mode = "ram")
          /\ into_rom_mode' = (into_rom_mode \/ mode = "rom")
          /\ UNCHANGED mapped_to_ram

-----------------------------------------------------------------------------
(***************************************************************************)
(* The Wishbone bus: cyc as the slave sees it, and the adapter.  closed     *)
(* counts the commands, from the first after the one that resets the        *)
(* interface, that the slave has performed one after the other.             *)
(***************************************************************************)
wb_idle == ~efb_cyc
wb_cyc  == IF wb_override THEN reset_cyc ELSE efb_cyc

Adapter(wb_ack, access) ==
  /\ efb_cyc' = (~reset /\ IF efb_cyc THEN ~(wb_ack /\ ~wb_override)
                           ELSE access /\ ~wb_delay)
  /\ wb_delay' = (efb_cyc /\ wb_ack /\ ~wb_override)

Performed(wb_ack) ==
  closed' = IF ~wb_ack THEN closed
            ELSE IF ~wb_override THEN 0
            ELSE IF reset_cmd = closed + 1 THEN closed + 1
            ELSE IF reset_cmd = 1 THEN 1 ELSE 0

\* Software writes a mode and accesses the bus only out of reset, and not in the
\* first cycle after it: no instruction has come that far, and the debug
\* module's request is granted at the end of that cycle.
ClkStep(ext, mode, access, wb_ack) ==
  /\ wb_ack => wb_cyc
  /\ (mode # "none" \/ access) => ~reset /\ ~update_map
  /\ ext_req' = ext
  /\ ResetClock(pll_lock, reset_req, wb_idle, wb_ack /\ wb_override)
  /\ Adapter(wb_ack, access) /\ Performed(wb_ack)
  /\ Bootstrap(mode)
  /\ UNCHANGED <<watch_vars, pll_lock, pll_time>>

ClkEdge == \E ext, access, wb_ack \in BOOLEAN, mode \in {"none", "ram", "rom"} :
             ClkStep(ext, mode, access, wb_ack)

Init ==
  /\ ResetInit /\ pll_lock = FALSE /\ pll_time = 0
  /\ ext_req \in BOOLEAN
  /\ boot_req = FALSE /\ update_map = FALSE
  /\ into_ram_mode = FALSE /\ into_rom_mode = FALSE /\ mapped_to_ram = FALSE
  /\ efb_cyc = FALSE /\ wb_delay = FALSE /\ closed = 0

Next == IndependentEdge \/ Lock \/ LoseLock \/ ClkEdge

Spec == Init /\ [][Next]_vars

\* Every clock runs - the system's while the PLL is in lock -, the slave
\* acknowledges and a PLL that is reset locks.
Quiet(wb_ack) == ClkStep(ext_req, "none", FALSE, wb_ack)
Fairness ==
  /\ WF_vars(IndependentEdge) /\ WF_vars(Lock)
  /\ WF_vars(pll_lock /\ \E wb_ack \in BOOLEAN : Quiet(wb_ack))
  /\ WF_vars(pll_lock /\ wb_cyc /\ Quiet(TRUE))
FairSpec == Spec /\ Fairness

-----------------------------------------------------------------------------
(***************************************************************************)
(* Properties.                                                             *)
(***************************************************************************)
TypeOK ==
  /\ ResetTypeOK
  /\ pll_lock \in BOOLEAN /\ pll_time \in 0 .. Lost /\ ext_req \in BOOLEAN
  /\ boot_req \in BOOLEAN /\ update_map \in BOOLEAN
  /\ into_ram_mode \in BOOLEAN /\ into_rom_mode \in BOOLEAN
  /\ mapped_to_ram \in BOOLEAN
  /\ efb_cyc \in BOOLEAN /\ wb_delay \in BOOLEAN /\ closed \in 0 .. LastPtr

\* The system is reset only when the flash interface has been closed: the last
\* writes on the Wishbone bus are the whole string, even if the lock was lost
\* in the middle of an earlier attempt.  Only the command that resets the
\* interface, the first one, is not promised then.
FlashClosed == [][~reset /\ reset' => closed = LastPtr]_vars

\* An access that the slave has seen is finished before the bus is taken over,
\* unless the lock is lost, and no access is under way when it is given back.
BusHandover == [][
  /\ efb_cyc /\ ~wb_override /\ pll_lock' => wb_delay' \/ (efb_cyc' /\ ~wb_override')
  /\ wb_override /\ ~wb_override' => ~efb_cyc' /\ ~reset_cyc' ]_vars

\* The instruction memory is switched under a hart in reset only.
MapSwitchedInReset == [][mapped_to_ram' # mapped_to_ram => reset]_vars

\* A switch that was asked for is not forgotten, though the reset of its own
\* register comes first: its reset is still to come, or the mapping follows.
ModeRemembered == into_ram_mode \/ into_rom_mode =>
                    boot_req \/ (reset /\ update_map)

\* A request leads to a reset, or the lock is lost.
ResetServed == reset_req ~> (reset \/ ~pll_lock)

\* If the PLL keeps its lock at last, every loss has been followed by a reset.
LossServed == <>[]pll_lock => (~pll_lock ~> reset)

\* The system does not stay in reset, unless the switch or the debugger hold it.
Released == []<>(~reset \/ ext_req)

\* The PLL is reset until it locks.
PllRecovers == []<>pll_lock
=============================================================================
