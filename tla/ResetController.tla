--------------------------- MODULE ResetController ---------------------------
(***************************************************************************)
(* ResetController and ResetWishboneOverride: a request for a reset, or a   *)
(* PLL that loses its lock, first takes the Wishbone bus over, closes the   *)
(* flash interface with a string of commands, and only then resets the      *)
(* system.  On a clock of its own the controller watches the PLL.           *)
(***************************************************************************)
EXTENDS Naturals

CONSTANTS
  CNT,      \* last value of lock_counter
  LastPtr   \* last index of COMMAND_STRING

ASSUME ResetAssumption == CNT \in Nat \ {0} /\ LastPtr \in Nat \ {0}

VARIABLES
  \* independent_clk
  pll_lock_sync, pll_reseting, lock_counter,
  \* clk, cleared by the loss of the lock
  reset_state, wb_override, reset_pending,
  \* clk
  ptr, reset,
  reset_cyc, reset_cmd   \* WISHBONE_MASTER: cyc and stb, and the command on the bus

watch_vars == <<pll_lock_sync, pll_reseting, lock_counter>>
state_vars == <<reset_state, wb_override, reset_pending>>
reset_vars == <<state_vars, ptr, reset, reset_cyc, reset_cmd>>

pll_rst(pll_lock) == ~pll_lock /\ ~pll_reseting

\* An edge of independent_clk.
\* Mutant: the time that the PLL gets is one cycle shorter.
MutShortPeriod == lock_counter + 1 = CNT
Expired == lock_counter = CNT
PllWatch(pll_lock) ==
  /\ pll_lock_sync' = <<pll_lock, pll_lock_sync[1]>>
  /\ IF pll_reseting
     THEN IF Expired THEN pll_reseting' = FALSE /\ UNCHANGED lock_counter
          ELSE lock_counter' = lock_counter + 1 /\ UNCHANGED pll_reseting
     ELSE IF ~pll_lock_sync[2] THEN pll_reseting' = TRUE /\ lock_counter' = 0
     ELSE UNCHANGED <<pll_reseting, lock_counter>>

\* The lock is lost: an asynchronous reset of the state machine, but not of
\* the reset that it drives nor of the Wishbone master.
\* Mutant: the loss leaves no reset pending.
MutForgetLoss ==
  /\ reset_state' = "PENDING" /\ wb_override' = FALSE
  /\ UNCHANGED <<reset_pending, ptr, reset, reset_cyc, reset_cmd>>
LockLost ==
  /\ reset_state' = "PENDING" /\ wb_override' = TRUE /\ reset_pending' = TRUE
  /\ UNCHANGED <<ptr, reset, reset_cyc, reset_cmd>>

\* An edge of clk in lock, by state.
\* Mutant: the bus is taken over whether or not it is idle.
MutGrabBus(reset_req, wb_idle) ==
  /\ reset_state = "PENDING"
  /\ reset_pending' = (reset_pending \/ reset_req)
  /\ IF reset_pending
     THEN reset_state' = "COMMAND" /\ ptr' = 0 /\ wb_override' = TRUE
     ELSE UNCHANGED <<reset_state, ptr, wb_override>>
  /\ UNCHANGED reset
\* Mutant: a request is not remembered while the bus is busy.
MutMissRequest(reset_req, wb_idle) ==
  /\ reset_state = "PENDING"
  /\ reset_pending' = (reset_req \/ wb_override)
  /\ IF reset_pending /\ (wb_idle \/ wb_override)
     THEN reset_state' = "COMMAND" /\ ptr' = 0 /\ wb_override' = TRUE
     ELSE UNCHANGED <<reset_state, ptr, wb_override>>
  /\ UNCHANGED reset
Pending(reset_req, wb_idle) ==
  /\ reset_state = "PENDING"
  /\ reset_pending' = (reset_pending \/ reset_req)
  /\ IF reset_pending /\ (wb_idle \/ wb_override)
     THEN reset_state' = "COMMAND" /\ ptr' = 0 /\ wb_override' = TRUE
     ELSE UNCHANGED <<reset_state, ptr, wb_override>>
  /\ UNCHANGED reset

\* Mutant: the last command is not waited for.
MutLastUnanswered(ack) ==
  /\ reset_state = "COMMAND"
  /\ IF ptr = LastPtr THEN reset_state' = "ASSERT_RESET" /\ UNCHANGED ptr
     ELSE IF ack THEN ptr' = ptr + 1 /\ UNCHANGED reset_state
     ELSE UNCHANGED <<reset_state, ptr>>
  /\ UNCHANGED <<wb_override, reset_pending, reset>>
Command(ack) ==
  /\ reset_state = "COMMAND"
  /\ IF ~ack THEN UNCHANGED <<reset_state, ptr>>
     ELSE IF ptr = LastPtr THEN reset_state' = "ASSERT_RESET" /\ UNCHANGED ptr
     ELSE ptr' = ptr + 1 /\ UNCHANGED reset_state
  /\ UNCHANGED <<wb_override, reset_pending, reset>>

AssertReset ==
  /\ reset_state = "ASSERT_RESET"
  /\ reset' = TRUE /\ reset_state' = "RELEASE"
  /\ UNCHANGED <<ptr, wb_override, reset_pending>>

Release(reset_req) ==
  /\ reset_state = "RELEASE"
  /\ IF reset_req THEN UNCHANGED <<state_vars, reset>>
     ELSE /\ reset' = FALSE /\ reset_pending' = FALSE /\ wb_override' = FALSE
          /\ reset_state' = "PENDING"
  /\ UNCHANGED ptr

\* WISHBONE_MASTER; the system's reset is also the one of the Wishbone bus.
perform == reset_state = "COMMAND"
Master(wb_ack) ==
  /\ reset_cyc' = (~reset /\ IF reset_cyc THEN ~wb_ack ELSE perform)
  /\ reset_cmd' = IF ~reset_cyc /\ perform THEN ptr ELSE reset_cmd

\* wb_ack is the acknowledgement of the slave as the override passes it on.
ResetClock(pll_lock, reset_req, wb_idle, wb_ack) ==
  /\ Master(wb_ack)
  /\ IF pll_lock
     THEN \/ Pending(reset_req, wb_idle)
          \/ Command(wb_ack /\ reset_cyc)
          \/ AssertReset
          \/ Release(reset_req)
     ELSE UNCHANGED <<state_vars, ptr, reset>>

\* Power-up; the lock is not there yet.
ResetInit ==
  /\ pll_lock_sync = <<FALSE, FALSE>> /\ pll_reseting = FALSE /\ lock_counter = 0
  /\ reset_state = "PENDING" /\ wb_override = TRUE /\ reset_pending = TRUE
  /\ ptr = 0 /\ reset = FALSE /\ reset_cyc = FALSE /\ reset_cmd = 0

ResetTypeOK ==
  /\ pll_lock_sync \in BOOLEAN \X BOOLEAN /\ pll_reseting \in BOOLEAN
  /\ lock_counter \in 0 .. CNT
  /\ reset_state \in {"PENDING", "COMMAND", "ASSERT_RESET", "RELEASE"}
  /\ wb_override \in BOOLEAN /\ reset_pending \in BOOLEAN /\ reset \in BOOLEAN
  /\ ptr \in 0 .. LastPtr /\ reset_cyc \in BOOLEAN /\ reset_cmd \in 0 .. LastPtr
=============================================================================
