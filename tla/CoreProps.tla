------------------------------ MODULE CoreProps ------------------------------
(***************************************************************************)
(* The properties of Core, and the mapping under which it implements Hart. *)
(***************************************************************************)
EXTENDS Core

CsrTypeOK ==
  /\ mstatus_mie \in BOOLEAN /\ mstatus_mpie \in BOOLEAN
  /\ mie \in SUBSET Ints /\ mepc \in Addr /\ mcause \in Causes \cup {"none"}
  /\ dcsr_step \in BOOLEAN /\ dcsr_ebreakm \in BOOLEAN
  /\ dcsr_cause \in DebugCauses /\ dpc \in Addr

TypeOK ==
  /\ pc \in Addr /\ id_addr \in Addr /\ ex_addr \in Addr
  /\ clear \in BOOLEAN
  /\ ex_op \in (Insts \ Raising) \cup {"nop"}
  /\ exception_id_ex \in (Insts \cap Raising) \cup {"none"}
  /\ nop_cnt \in {0, 2, 3} /\ jump_pending \in BOOLEAN
  /\ last_jump_addr \in Addr
  /\ ready_for_int \in BOOLEAN
  /\ CsrTypeOK
  /\ recover_from_reset \in BOOLEAN /\ delay_halt \in BOOLEAN
  /\ debug_mode \in BOOLEAN /\ step_trap \in BOOLEAN
  /\ dm_state \in {"unavail", "running", "halted"}
  /\ mip \in SUBSET Ints /\ busy \in BOOLEAN
  /\ haltreq \in BOOLEAN /\ resumereq \in BOOLEAN /\ dmi_gap \in 0 .. DmiGap

-----------------------------------------------------------------------------
(***************************************************************************)
(* Invariants                                                              *)
(***************************************************************************)

\* An instruction in EX has taken effect only if it completes: when a trap is
\* taken or the hart halts, EX holds a bubble, so nothing is executed halfway
\* or twice (ExceptionCtrl's occurred and DebugCtrl's halt find the pipeline
\* flushed by the request one cycle before).
EntryFindsBubble == (trap_occurred \/ halt) => ex_op = "nop"

\* No instruction is executed in debug mode.
NoExecutionInDebug == halted => ex_op = "nop"

\* The state that the debug module reports to the debugger is the hart's.
ReportedState ==
  /\ (dm_state = "halted") <=> debug_mode
  /\ (dm_state = "unavail") <=> recover_from_reset

-----------------------------------------------------------------------------
(***************************************************************************)
(* Refinement.  The next instruction of the program is the oldest one in   *)
(* the pipeline; in the cycle after an interrupt or halt request, when the *)
(* pipeline has been flushed and the PC not yet redirected, it is where    *)
(* the normal flow continues.                                              *)
(***************************************************************************)
NextPc ==
  IF debug_mode THEN dpc
  ELSE IF delay_halt THEN new_dpc
  ELSE IF ready_for_int THEN resume_addr
  ELSE IF ex_op # "nop" \/ raise THEN ex_addr
  ELSE IF ~clear THEN id_addr
  ELSE pc

H == INSTANCE Hart WITH npc <- NextPc, in_debug <- debug_mode,
                        ie <- mstatus_mie, pie <- mstatus_mpie

\* What software and the debugger see of the hart is an execution of Hart.
PreciseHart == H!Spec

\* The instruction in EX takes effect in this cycle.
Retires == ex_op # "nop" /\ (stall_n \/ halted)

\* What NoExecutionInDebug excludes: a halted hart with an instruction in EX.
Slipped == halted /\ ex_op # "nop"

\* The event that a cycle is for, and no other.
RightStep ==
  \/ Reset /\ H!Reset
  \/ /\ Retires /\ ~halted
     /\ \/ ex_op \in {"alu", "mem", "wfi"} /\ H!Execute
        \/ ex_op = "jump" /\ H!Jump
        \/ ex_op = "csr" /\ H!WriteCsr
        \/ ex_op = "mret" /\ H!Return
  \/ ~Retires /\ trap_occurred /\ H!Trap(cause)
  \/ ~Retires /\ halt /\ H!EnterDebug
  \/ ~Retires /\ resume /\ H!Resume
  \/ ~Retires /\ DebuggerAccess /\ H!DebuggerWrite
  \/ ~Retires /\ ~trap_occurred /\ ~halt /\ ~resume /\ UNCHANGED H!vars

\* In each cycle the hart does exactly what the cycle is for: the instruction
\* that retires, the trap, halt or resume that the pipeline takes, or a write
\* by the debugger; in any other cycle nothing changes.  Flushes and stalls
\* thus neither skip nor repeat an instruction, mepc and dpc are precise.  What
\* a halted hart executes is the business of NoExecutionInDebug.
OneStepPerCycle == [][RightStep \/ Slipped]_vars

\* A bus access that has started is carried to its answer: the load or store
\* stays in EX until the bus stops stalling the core.
AccessCompletes ==
  [][busy => Reset \/ UNCHANGED <<ex_op, ex_addr>>]_vars

-----------------------------------------------------------------------------
(***************************************************************************)
(* Inductive invariants.                                                   *)
(***************************************************************************)

\* What a request leaves behind: in the cycle after it EX is empty and the
\* exception pipeline too, so no older instruction competes with the entry.
RequestFlushed ==
  /\ ready_for_int => ex_op = "nop" /\ ~raise
  /\ delay_halt => ex_op = "nop" /\ ~raise /\ clear
  /\ raise => ex_op = "nop"
  /\ recover_from_reset => ex_op = "nop" /\ ~raise /\ clear
  /\ busy => ex_op = "mem"

\* Without a debugger nothing of the debug logic ever moves.
DebugIdle ==
  /\ ~debug_mode /\ ~delay_halt /\ ~step_trap /\ ~dcsr_step /\ ~dcsr_ebreakm
  /\ ~haltreq /\ ~resumereq

\* How the addresses in the pipeline relate: consecutive stages hold
\* consecutive addresses unless a jump is being refilled; during a refill
\* last_jump_addr is where the flow went - unless a trap did the jump, and
\* then interrupts are off.
FlowInv ==
  /\ clear <=> (nop_cnt = 3 \/ recover_from_reset)
  /\ ~clear => pc = Succ(id_addr)
  /\ ex_op # "nop" \/ raise => /\ nop_cnt = 0 /\ ~clear
                              /\ id_addr = Succ(ex_addr)
  /\ nop_cnt = 3 => jump_pending \/ ready_for_int
  /\ nop_cnt = 2 => jump_pending
  /\ jump_pending => nop_cnt \in {2, 3}
  /\ ready_for_int => nop_cnt = 3
  /\ recover_from_reset => ~mstatus_mie /\ nop_cnt = 0 /\ ~ready_for_int
  /\ jump_pending /\ mstatus_mie /\ ~ready_for_int =>
       last_jump_addr = IF clear THEN pc ELSE id_addr

-----------------------------------------------------------------------------
(***************************************************************************)
(* Liveness.                                                               *)
(***************************************************************************)

\* An interrupt that stays pending and enabled is taken, whatever the
\* program does: it is never lost between the request and the trap.
InterruptTaken ==
  []<>~(any_int_come /\ mstatus_mie /\ ~debug_mode /\ ~dcsr_step)

\* A halt request that stays raised halts the hart, also out of WFI and
\* across bus accesses.
HaltTaken == []<>(~haltreq \/ debug_mode)

\* A hart resumed to execute one step comes back to debug mode.
StepReturns == []<>(~dcsr_step \/ debug_mode)
=============================================================================
