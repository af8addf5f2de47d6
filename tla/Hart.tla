-------------------------------- MODULE Hart --------------------------------
(***************************************************************************)
(* What the hart promises to software and to a debugger: one instruction   *)
(* at a time, precise traps and a precise debug mode.  npc is the address  *)
(* of the first instruction that has not been executed.  A trap saves npc  *)
(* in mepc and a halt saves it in dpc, whatever the pipeline is doing; a   *)
(* resume continues at dpc.  In debug mode npc is the address where the    *)
(* hart will resume.                                                       *)
(***************************************************************************)
EXTENDS Naturals

CONSTANTS
  N,        \* number of instruction words
  Targets,  \* destinations that the program's jumps may compute
  Causes,   \* causes of a trap
  Vector    \* the handler entry of each cause

Addr == 0 .. N - 1
Succ(a) == (a + 1) % N

VARIABLES npc, in_debug, ie, pie, mepc, mcause, dpc

vars == <<npc, in_debug, ie, pie, mepc, mcause, dpc>>

Running == ~in_debug

Init ==
  /\ npc = 0 /\ in_debug = FALSE
  /\ ie = FALSE /\ pie = FALSE /\ mcause = "none"
  /\ mepc \in Addr /\ dpc \in Addr

\* An instruction with the next one in sequence: arithmetic, memory, WFI.
Execute ==
  /\ Running
  /\ npc' = Succ(npc)
  /\ UNCHANGED <<in_debug, ie, pie, mepc, mcause, dpc>>

\* A jump or a taken branch, to an address that the program computes.
Jump ==
  /\ Running
  /\ npc' \in Targets
  /\ UNCHANGED <<in_debug, ie, pie, mepc, mcause, dpc>>

\* A csr instruction writes one of mstatus and mepc.
WriteCsr ==
  /\ Running
  /\ npc' = Succ(npc)
  /\ \/ ie' \in BOOLEAN /\ pie' \in BOOLEAN /\ UNCHANGED mepc
     \/ mepc' \in Addr /\ UNCHANGED <<ie, pie>>
  /\ UNCHANGED <<in_debug, mcause, dpc>>

\* mret goes back to mepc and restores the interrupt enable.
Return ==
  /\ Running
  /\ npc' = mepc /\ ie' = pie /\ pie' = TRUE
  /\ UNCHANGED <<in_debug, mepc, mcause, dpc>>

\* A trap: the interrupted or raising instruction has not been executed.
Trap(c) ==
  /\ Running
  /\ mepc' = npc /\ npc' = Vector[c] /\ mcause' = c
  /\ pie' = ie /\ ie' = FALSE
  /\ UNCHANGED <<in_debug, dpc>>

EnterDebug ==
  /\ Running
  /\ in_debug' = TRUE /\ dpc' = npc
  /\ UNCHANGED <<npc, ie, pie, mepc, mcause>>

\* The debugger writes mstatus, mepc or dpc of the halted hart.
DebuggerWrite ==
  /\ in_debug
  /\ \/ ie' \in BOOLEAN /\ pie' \in BOOLEAN /\ UNCHANGED <<npc, mepc, dpc>>
     \/ mepc' \in Addr /\ UNCHANGED <<npc, ie, pie, dpc>>
     \/ dpc' \in Addr /\ npc' = dpc' /\ UNCHANGED <<ie, pie, mepc>>
  /\ UNCHANGED <<in_debug, mcause>>

Resume ==
  /\ in_debug
  /\ in_debug' = FALSE /\ npc' = dpc
  /\ UNCHANGED <<ie, pie, mepc, mcause, dpc>>

Reset ==
  /\ npc' = 0 /\ in_debug' = FALSE
  /\ ie' = FALSE /\ pie' = FALSE /\ mcause' = "none"
  /\ UNCHANGED <<mepc, dpc>>

Next ==
  \/ Execute \/ Jump \/ WriteCsr \/ Return
  \/ \E c \in Causes : Trap(c)
  \/ EnterDebug \/ DebuggerWrite \/ Resume \/ Reset

Spec == Init /\ [][Next]_vars
=============================================================================
