------------------------------- MODULE HalCall -------------------------------
(***************************************************************************)
(* What the modules of the drivers share: one hart executes one firmware,  *)
(* which calls one driver at a time.  call is the driver function that the *)
(* hart is in and step how far it has come, counted in accesses to the     *)
(* device; between two of them the device goes on.                         *)
(***************************************************************************)
EXTENDS Naturals

VARIABLES program, call, step

call_vars == <<program, call, step>>

At(c, n) == call = c /\ step = n
Resting  == call = "none"

Goto(c, n) == call' = c /\ step' = n /\ UNCHANGED program
Begin(c)   == Goto(c, 1)
Continue   == Goto(call, step + 1)
Return     == Goto("none", 0)
Wait       == UNCHANGED call_vars
=============================================================================
