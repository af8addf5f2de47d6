-------------------------------- MODULE Core --------------------------------
(***************************************************************************)
(* The RISC-V hart of the SoC: three-stage pipeline (IF, ID, EX), trap     *)
(* entry and return, WFI, and run control by an external debugger.         *)
(*                                                                         *)
(* One step is one clock cycle.  Every always_ff block of the RTL is one   *)
(* operator that fixes the next value of the registers that block owns, a  *)
(* cycle is the conjunction of the blocks (Clock), and the combinational   *)
(* wires are state functions with the names they have in the source.       *)
(* Input pins that other modules drive (mip, haltreq, resumereq and the    *)
(* bus stall) are variables, so a wire is a function of the current state. *)
(*                                                                         *)
(* Data is abstracted to what control depends on: addresses are words      *)
(* modulo N, and an instruction is a class.  What sits in memory is left   *)
(* open, so ID decodes any class of Insts in each cycle it is not squashed *)
(* - every program, including one that rewrites itself.                    *)
(***************************************************************************)
EXTENDS Naturals

CONSTANTS
  N,          \* number of instruction words; addresses wrap modulo N
  Insts,      \* instruction classes that the program may contain
  Targets,    \* destinations a jump or a taken branch may compute
  Ints,       \* interrupt lines that may be raised
  Vector,     \* mtvec: the handler entry of each cause
  PowerUp,    \* contents that registers without a reset may power up with
  DebugUse,   \* what the debugger uses: "haltreq", "reset", "step", "ebreak"
  DmiGap,     \* least number of cycles from a resume request to the next
              \* write of dmcontrol: a DMI access is shifted in over JTAG
  CanReset    \* whether the SoC may be reset while it runs

Addr == 0 .. N - 1
Succ(a) == (a + 1) % N

AllInsts == {"alu", "mem", "jump", "wfi", "mret", "csr", "ecall", "ebreak"}
Raising  == {"ecall", "ebreak"}      \* "ecall" also stands for illegal ones
AllInts  == {"ext", "soft", "timer"}
Causes   == AllInts \cup Raising \cup {"int0"}
DebugCauses == {"none", "haltreq", "ebreak", "step", "x"}

ASSUME CoreAssumption ==
  /\ N \in Nat \ {0}
  /\ Insts \subseteq AllInsts /\ Insts # {}
  /\ Targets \subseteq Addr /\ Targets # {}
  /\ Ints \subseteq AllInts
  /\ Vector \in [Causes -> Addr]
  /\ PowerUp \subseteq Addr /\ PowerUp # {}
  /\ DebugUse \subseteq {"haltreq", "reset", "step", "ebreak"}
  /\ DmiGap \in Nat
  /\ CanReset \in BOOLEAN

VARIABLES
  \* PC_Reg, IF_ID, ID_EX, ExceptionPipeLine
  pc,               \* address being fetched
  clear,            \* IF_ID squashes the instruction that ID would decode
  id_addr,          \* if_id_inst.addr
  ex_op, ex_addr,   \* what EX executes ("nop" for a bubble), and its address
  exception_id_ex,  \* the exception that reaches the commit point, or "none"
  \* CoreCtrl
  nop_cnt, jump_pending, last_jump_addr,
  \* ExceptionCtrl
  ready_for_int,
  \* CSR
  mstatus_mie, mstatus_mpie, mie, mepc, mcause,
  dcsr_step, dcsr_ebreakm, dcsr_cause, dpc,
  \* DebugCtrl
  recover_from_reset, delay_halt, debug_mode, step_trap, dm_state,
  \* input pins
  mip, busy, haltreq, resumereq, dmi_gap

pipe  == <<pc, clear, id_addr, ex_op, ex_addr, exception_id_ex>>
ctrl  == <<nop_cnt, jump_pending, last_jump_addr, ready_for_int>>
csrs  == <<mstatus_mie, mstatus_mpie, mie, mepc, mcause,
           dcsr_step, dcsr_ebreakm, dcsr_cause, dpc>>
dbg   == <<recover_from_reset, delay_halt, debug_mode, step_trap, dm_state>>
pins  == <<mip, busy, haltreq, resumereq, dmi_gap>>
vars  == <<pipe, ctrl, csrs, dbg, pins>>

-----------------------------------------------------------------------------
(***************************************************************************)
(* Combinational wires.                                                    *)
(***************************************************************************)
raise        == exception_id_ex # "none"
halted       == debug_mode
wfi          == ex_op = "wfi"
trap_returned == ex_op = "mret"
jump_en_ex   == ex_op \in {"jump", "mret"}
any_int_come == mip \cap mie # {}
flushing_pipeline == nop_cnt \in {2, 3}       \* nop_cnt[1]

\* Core stall: the bus, a WFI that waits, or a halted hart.
\* Mutant: a debugger that steps does not wake a WFI.
MutBypassHaltreqOnly == haltreq
bypass_wfi   == haltreq \/ dcsr_step
\* Mutants: WFI is woken by the debugger only; by interrupts only.
MutWfiDeaf   == wfi /\ ~bypass_wfi
MutWfiNoBypass == wfi /\ ~any_int_come
waiting_int  == wfi /\ ~any_int_come /\ ~bypass_wfi
stall_n      == ~(busy \/ waiting_int \/ halted)

\* Where the normal program flow continues.
\* Mutant: the jump in flight is forgotten.
MutResumeEx  == ex_addr
resume_addr  == IF jump_pending THEN last_jump_addr ELSE ex_addr

\* Requests to enter debug mode.  haltreq and step wait for the instruction
\* in EX, ebreak and a halt out of reset take effect at once.
\* Mutant: the step does not wait for the pipeline to refill.
MutStepEarly == dcsr_step
step_debug   == dcsr_step /\ ~flushing_pipeline
ebreak_debug == exception_id_ex = "ebreak" /\ dcsr_ebreakm
reset_halt   == recover_from_reset /\ haltreq
halt         == (delay_halt \/ ebreak_debug \/ reset_halt) /\ ~debug_mode
valid_delay_halt == (haltreq \/ step_debug) /\ ~halt /\ stall_n
resume       == resumereq /\ ~haltreq /\ halted
\* Mutant: a step onto a trap saves the trapped instruction.
MutDpcNoStepTrap == IF reset_halt THEN pc ELSE resume_addr
new_dpc      == IF reset_halt \/ step_trap THEN pc ELSE resume_addr
new_cause    == IF reset_halt THEN "haltreq"
                ELSE IF ebreak_debug THEN "ebreak"
                ELSE IF haltreq THEN "haltreq"
                ELSE IF dcsr_step THEN "step"
                ELSE "x"

\* Traps.  An interrupt is requested in one cycle and taken in the next one.
\* Mutant: the request does not wait for the bus.
MutIntUnstalled ==
  any_int_come /\ mstatus_mie /\ ~raise /\ ~debug_mode /\ ~dcsr_step
valid_int_req ==
  any_int_come /\ mstatus_mie /\ ~raise /\ stall_n /\ ~debug_mode /\ ~dcsr_step
trap_occurred == (ready_for_int \/ raise) /\ ~halt /\ ~debug_mode
cause ==
  IF ~ready_for_int THEN exception_id_ex
  ELSE IF "ext"   \in mip \cap mie THEN "ext"
  ELSE IF "soft"  \in mip \cap mie THEN "soft"
  ELSE IF "timer" \in mip \cap mie THEN "timer"
  ELSE "int0"              \* no source is left: interrupt bit set, code 0

jump  == jump_en_ex \/ trap_occurred \/ resume
\* Mutant: a halt request does not flush the pipeline.
MutFlushNoHalt == jump \/ valid_int_req
flush == jump \/ valid_int_req \/ valid_delay_halt

\* The address that EX computes in this cycle, and where the PC is sent.
JumpAddrEx == IF ex_op = "jump" THEN Targets ELSE {mepc}
jump_addr(target) ==
  IF resume THEN dpc ELSE IF trap_occurred THEN Vector[cause] ELSE target

\* What ID decodes in this cycle.
Decoded == IF clear THEN {"nop"} ELSE Insts

-----------------------------------------------------------------------------
(***************************************************************************)
(* The clocked blocks.                                                     *)
(***************************************************************************)
PC_Reg(target) ==
  \/ jump /\ pc' = jump_addr(target)
  \/ ~jump /\ stall_n /\ pc' = Succ(pc)
  \/ ~jump /\ ~stall_n /\ UNCHANGED pc

\* The squash flag follows flush in every cycle, the address only advances.
\* Mutant: a jump out of EX does not squash the instruction behind it.
MutNoSquash ==
  /\ clear' = (trap_occurred \/ resume \/ valid_int_req \/ valid_delay_halt)
  /\ id_addr' = IF stall_n THEN pc ELSE id_addr
IF_ID ==
  /\ clear' = flush
  /\ id_addr' = IF stall_n THEN pc ELSE id_addr

\* An instruction that raises in ID is replaced by a bubble on its way to EX.
\* Mutant: an instruction that raises goes on into EX.
MutRaisingExecutes(inst) ==
  /\ \/ flush /\ ex_op' = "nop"
     \/ ~flush /\ stall_n /\ ex_op' = inst
     \/ ~flush /\ ~stall_n /\ UNCHANGED ex_op
  /\ ex_addr' = IF stall_n THEN id_addr ELSE ex_addr
ID_EX(inst) ==
  /\ \/ (flush \/ (inst \in Raising /\ stall_n)) /\ ex_op' = "nop"
     \/ ~flush /\ inst \notin Raising /\ stall_n /\ ex_op' = inst
     \/ ~flush /\ ~stall_n /\ UNCHANGED ex_op
  /\ ex_addr' = IF stall_n THEN id_addr ELSE ex_addr

ExceptionPipeLine(inst) ==
  \/ flush /\ exception_id_ex' = "none"
  \/ /\ ~flush /\ stall_n
     /\ exception_id_ex' = IF inst \in Raising THEN inst ELSE "none"
  \/ ~flush /\ ~stall_n /\ UNCHANGED exception_id_ex

\* nop_cnt counts down the two refill cycles after a flush (binary 11, 10,
\* 00); jump_pending says that the flow continues at last_jump_addr meanwhile.
\* Mutants: a request forgets the jump in flight; the refill is counted one
\* cycle short.
MutForgetJump ==
  \/ flush /\ nop_cnt' = 3 /\ jump_pending' = jump
  \/ /\ ~flush /\ flushing_pipeline
     /\ nop_cnt' = IF nop_cnt = 3 THEN 2 ELSE 0
     /\ jump_pending' = (nop_cnt = 3)
  \/ ~flush /\ ~flushing_pipeline /\ UNCHANGED <<nop_cnt, jump_pending>>
MutShortRefill ==
  \/ flush /\ nop_cnt' = 3 /\ jump_pending' = (jump \/ jump_pending)
  \/ /\ ~flush /\ flushing_pipeline
     /\ nop_cnt' = 0 /\ jump_pending' = (nop_cnt = 3)
  \/ ~flush /\ ~flushing_pipeline /\ UNCHANGED <<nop_cnt, jump_pending>>
NopCounter ==
  \/ flush /\ nop_cnt' = 3 /\ jump_pending' = (jump \/ jump_pending)
  \/ /\ ~flush /\ flushing_pipeline
     /\ nop_cnt' = IF nop_cnt = 3 THEN 2 ELSE 0
     /\ jump_pending' = (nop_cnt = 3)
  \/ ~flush /\ ~flushing_pipeline /\ UNCHANGED <<nop_cnt, jump_pending>>
LastJump(target) ==
  last_jump_addr' = IF stall_n /\ jump_en_ex THEN target ELSE last_jump_addr
CoreCtrl(target) == NopCounter /\ LastJump(target)

ExceptionCtrl == ready_for_int' =
  IF ready_for_int THEN FALSE
  ELSE IF stall_n THEN valid_int_req ELSE ready_for_int

\* A write to a machine-mode CSR (address bits 9:8 = 00), by a csr
\* instruction in EX or by the debugger: mstatus, mie, mepc, or one that
\* does not matter to control flow.
WriteMachineCsr ==
  /\ \/ \E m, p \in BOOLEAN : /\ mstatus_mie' = m /\ mstatus_mpie' = p
                              /\ UNCHANGED <<mie, mepc>>
     \/ \E lines \in SUBSET Ints : /\ mie' = lines
                                   /\ UNCHANGED <<mstatus_mie, mstatus_mpie, mepc>>
     \/ \E a \in Addr : /\ mepc' = a
                        /\ UNCHANGED <<mstatus_mie, mstatus_mpie, mie>>
     \/ UNCHANGED <<mstatus_mie, mstatus_mpie, mie, mepc>>
  /\ UNCHANGED <<mcause, dcsr_step, dcsr_ebreakm, dcsr_cause, dpc>>

\* The debugger writes dcsr or dpc; software never can, ID raises on both.
WriteDebugCsr ==
  /\ \/ /\ dcsr_step' \in (IF "step" \in DebugUse THEN BOOLEAN ELSE {FALSE})
        /\ dcsr_ebreakm' \in (IF "ebreak" \in DebugUse THEN BOOLEAN ELSE {FALSE})
        /\ UNCHANGED dpc
     \/ /\ dpc' \in Addr
        /\ UNCHANGED <<dcsr_step, dcsr_ebreakm>>
  /\ UNCHANGED <<mstatus_mie, mstatus_mpie, mie, mepc, mcause, dcsr_cause>>

\* debug_override_csr: the register access command, which the debug module
\* never overlaps with a resume request.
DebuggerAccess == halted /\ ~resumereq

\* Entry to debug mode saves the resume address, entry to a trap saves it and
\* turns interrupts off, mret turns them back as they were.
SaveOnHalt ==
  /\ halt
  /\ dcsr_cause' = new_cause /\ dpc' = new_dpc
  /\ UNCHANGED <<mstatus_mie, mstatus_mpie, mie, mepc, mcause,
                 dcsr_step, dcsr_ebreakm>>
SaveOnTrap ==
  /\ trap_occurred
  /\ mstatus_mpie' = mstatus_mie /\ mstatus_mie' = FALSE
  /\ mcause' = cause /\ mepc' = resume_addr
  /\ UNCHANGED <<mie, dcsr_step, dcsr_ebreakm, dcsr_cause, dpc>>
RestoreOnReturn ==
  /\ trap_returned
  /\ mstatus_mie' = mstatus_mpie /\ mstatus_mpie' = TRUE
  /\ UNCHANGED <<mie, mepc, mcause, dcsr_step, dcsr_ebreakm, dcsr_cause, dpc>>

\* A CSR write wins over everything, debug mode over a halt, a halt over a
\* trap, a trap over a return.
CSR ==
  \/ ex_op = "csr" /\ (stall_n \/ halted) /\ WriteMachineCsr
  \/ DebuggerAccess /\ (WriteMachineCsr \/ WriteDebugCsr)
  \/ ex_op # "csr" /\ halted /\ UNCHANGED csrs
  \/ ex_op # "csr" /\ ~halted /\ SaveOnHalt
  \/ ex_op # "csr" /\ ~halted /\ ~halt /\ SaveOnTrap
  \/ ex_op # "csr" /\ ~halted /\ ~halt /\ ~trap_occurred /\ RestoreOnReturn
  \/ /\ ex_op # "csr" /\ ~halted /\ ~halt /\ ~trap_occurred /\ ~trap_returned
     /\ UNCHANGED csrs

\* Mutant: the end of reset overwrites the state that a halt reports.
MutRunningAfterReset ==
  /\ delay_halt' = (~delay_halt /\ valid_delay_halt)
  /\ recover_from_reset' = FALSE
  /\ step_trap' = (raise /\ step_debug)
  /\ debug_mode' = (halt \/ (debug_mode /\ ~resume))
  /\ dm_state' = IF recover_from_reset \/ resume THEN "running"
                 ELSE IF halt THEN "halted" ELSE dm_state
DebugCtrl ==
  /\ delay_halt' = (~delay_halt /\ valid_delay_halt)
  /\ recover_from_reset' = FALSE
  /\ step_trap' = (raise /\ step_debug)
  /\ \/ halt /\ debug_mode' = TRUE /\ dm_state' = "halted"
     \/ resume /\ debug_mode' = FALSE /\ dm_state' = "running"
     \/ /\ ~halt /\ ~resume
        /\ UNCHANGED debug_mode
        /\ dm_state' = IF recover_from_reset THEN "running" ELSE dm_state

-----------------------------------------------------------------------------
(***************************************************************************)
(* What drives the pins.                                                   *)
(***************************************************************************)
\* The bus stalls the core only for the load or store that is in EX.
Bus == busy' \in IF ex_op' = "mem" THEN BOOLEAN ELSE {FALSE}

\* Interrupt sources are levels that rise and fall at any time.
IntSources == mip' \in SUBSET Ints

\* A write of dmcontrol sets haltreq or pulses resumereq for one cycle; the
\* request is dropped while haltreq is set.
DmControl ==
  \/ /\ resumereq' = FALSE /\ UNCHANGED haltreq
     /\ dmi_gap' = IF dmi_gap = 0 THEN 0 ELSE dmi_gap - 1
  \/ /\ DebugUse # {} /\ dmi_gap = 0 /\ ~resumereq
     /\ haltreq' \in (IF "haltreq" \in DebugUse THEN BOOLEAN ELSE {FALSE})
     /\ resumereq' \in (IF haltreq THEN {FALSE} ELSE BOOLEAN)
     /\ dmi_gap' = IF resumereq' THEN DmiGap ELSE 0

-----------------------------------------------------------------------------
Clock(inst, target) ==
  /\ PC_Reg(target) /\ IF_ID /\ ID_EX(inst) /\ ExceptionPipeLine(inst)
  /\ CoreCtrl(target) /\ ExceptionCtrl /\ CSR /\ DebugCtrl
  /\ Bus /\ IntSources /\ DmControl

Tick == \E inst \in Decoded, target \in JumpAddrEx : Clock(inst, target)

Init ==
  /\ pc = 0 /\ clear = TRUE /\ ex_op = "nop" /\ exception_id_ex = "none"
  /\ nop_cnt = 0 /\ jump_pending = FALSE /\ ready_for_int = FALSE
  /\ mstatus_mie = FALSE /\ mstatus_mpie = FALSE /\ mcause = "none"
  /\ dcsr_step = FALSE /\ dcsr_ebreakm = FALSE /\ dcsr_cause = "none"
  /\ recover_from_reset = TRUE /\ delay_halt = FALSE /\ debug_mode = FALSE
  /\ step_trap = FALSE /\ dm_state = "unavail"
  /\ id_addr \in PowerUp /\ ex_addr \in PowerUp /\ last_jump_addr \in PowerUp
  /\ mepc \in PowerUp /\ dpc \in PowerUp /\ mie \in SUBSET Ints
  /\ mip \in SUBSET Ints /\ busy = FALSE /\ resumereq = FALSE /\ dmi_gap = 0
  /\ haltreq \in (IF "reset" \in DebugUse THEN BOOLEAN ELSE {FALSE})

\* rst is raised and released.  Registers without a reset keep their value;
\* the debug module is not reset and may ask for a halt out of reset.
Reset ==
  /\ CanReset
  /\ pc' = 0 /\ clear' = TRUE /\ ex_op' = "nop" /\ exception_id_ex' = "none"
  /\ nop_cnt' = 0 /\ jump_pending' = FALSE /\ ready_for_int' = FALSE
  /\ mstatus_mie' = FALSE /\ mstatus_mpie' = FALSE /\ mcause' = "none"
  /\ dcsr_step' = FALSE /\ dcsr_ebreakm' = FALSE /\ dcsr_cause' = "none"
  /\ recover_from_reset' = TRUE /\ delay_halt' = FALSE /\ debug_mode' = FALSE
  /\ step_trap' = FALSE /\ dm_state' = "unavail"
  /\ mip' \in SUBSET Ints /\ busy' = FALSE /\ resumereq' = FALSE /\ dmi_gap' = 0
  /\ haltreq' \in (IF "reset" \in DebugUse THEN BOOLEAN ELSE {haltreq})
  /\ UNCHANGED <<id_addr, ex_addr, last_jump_addr, mie, mepc, dpc>>

Next == Tick \/ Reset

Spec == Init /\ [][Next]_vars

\* The clock runs and every bus access is answered at last, with nobody
\* obliged to change an interrupt line or to write dmcontrol.
Quiet == UNCHANGED <<mip, haltreq>> /\ ~resumereq'
Fairness == WF_vars(Tick /\ Quiet) /\ WF_vars(busy /\ Tick /\ Quiet /\ ~busy')
FairSpec == Spec /\ Fairness
=============================================================================
