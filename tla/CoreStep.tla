------------------------------ MODULE CoreStep ------------------------------
(***************************************************************************)
(* Core with a history variable: the number of architectural events, an    *)
(* instruction that takes effect or a trap that is entered, since the      *)
(* debugger last resumed the hart (2 stands for two or more).              *)
(***************************************************************************)
EXTENDS CoreProps

VARIABLE stepped

StepInit == Init /\ stepped = 0

StepNext ==
  /\ Next
  /\ stepped' = IF resume THEN 0
                ELSE IF (Retires \/ trap_occurred) /\ stepped < 2
                     THEN stepped + 1 ELSE stepped

StepSpec == StepInit /\ [][StepNext]_<<vars, stepped>>

\* A single step executes one instruction, or enters the handler of the trap
\* that this instruction raises, before the hart halts again: never none,
\* however the pipeline refills, and never two.
StepIsOne ==
  [][~debug_mode /\ debug_mode' /\ dcsr_cause' = "step" => stepped = 1]_vars
=============================================================================
