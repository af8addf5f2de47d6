----------------------------- MODULE CoreProofs -----------------------------
(***************************************************************************)
(* Proofs about Core, for every program, address space, set of interrupt   *)
(* lines and use of the debugger that CoreAssumption admits; and, without  *)
(* a debugger, that Core implements Hart: what software sees is one        *)
(* instruction at a time, and traps save exactly the next instruction.     *)
(***************************************************************************)
EXTENDS CoreStep, TLAPS

LEMMA SuccInAddr == \A a \in Addr : Succ(a) \in Addr
  BY CoreAssumption DEF Addr, Succ

LEMMA GapRange == 0 \in 0 .. DmiGap /\ DmiGap \in 0 .. DmiGap
  BY CoreAssumption

-----------------------------------------------------------------------------
(***************************************************************************)
(* Type correctness.                                                       *)
(***************************************************************************)
LEMMA InitType == Init => TypeOK
  <1> SUFFICES ASSUME Init PROVE TypeOK
    OBVIOUS
  <1>1. 0 \in Addr
    BY CoreAssumption DEF Addr
  <1>2. QED
    BY <1>1, GapRange, CoreAssumption DEF Init, TypeOK, CsrTypeOK, DebugCauses

LEMMA ResetType == TypeOK /\ Reset => TypeOK'
  <1>1. 0 \in Addr
    BY CoreAssumption DEF Addr
  <1>2. QED
    BY <1>1, GapRange, CoreAssumption DEF Reset, TypeOK, CsrTypeOK, DebugCauses

\* The address sent to the PC and the cause of a trap are well typed.
LEMMA CauseType ==
  ASSUME TypeOK, trap_occurred
  PROVE  cause \in Causes
  BY DEF TypeOK, trap_occurred, raise, cause, Causes, Raising, AllInts

LEMMA JumpType ==
  ASSUME TypeOK, NEW target \in JumpAddrEx, jump
  PROVE  target \in Addr /\ jump_addr(target) \in Addr
  <1>1. target \in Addr
    BY CoreAssumption DEF TypeOK, CsrTypeOK, JumpAddrEx
  <1>2. trap_occurred => Vector[cause] \in Addr
    BY CauseType, CoreAssumption
  <1>3. QED
    BY <1>1, <1>2 DEF jump_addr, TypeOK, CsrTypeOK

LEMMA TickType == TypeOK /\ Tick => TypeOK'
  <1> SUFFICES ASSUME TypeOK, NEW inst \in Decoded, NEW target \in JumpAddrEx,
                      Clock(inst, target)
               PROVE  TypeOK'
    BY DEF Tick
  <1> USE DEF Clock
  <1>1. target \in Addr
    BY CoreAssumption DEF TypeOK, CsrTypeOK, JumpAddrEx
  <1>2. inst \in Insts \cup {"nop"}
    BY DEF Decoded
  <1>3. pc' \in Addr
    BY JumpType, SuccInAddr DEF PC_Reg, TypeOK
  <1>4. clear' \in BOOLEAN /\ id_addr' \in Addr
    BY DEF IF_ID, TypeOK, flush, jump, jump_en_ex, trap_occurred, resume,
           valid_int_req, valid_delay_halt
  <1>5. ex_op' \in (Insts \ Raising) \cup {"nop"} /\ ex_addr' \in Addr
    BY <1>2 DEF ID_EX, TypeOK
  <1>6. exception_id_ex' \in (Insts \cap Raising) \cup {"none"}
    BY <1>2 DEF ExceptionPipeLine, TypeOK, Raising
  <1>7. /\ nop_cnt' \in {0, 2, 3} /\ jump_pending' \in BOOLEAN
        /\ last_jump_addr' \in Addr
    BY <1>1 DEF CoreCtrl, NopCounter, LastJump, TypeOK, jump, jump_en_ex,
                trap_occurred, resume
  <1>8. ready_for_int' \in BOOLEAN
    BY DEF ExceptionCtrl, TypeOK, valid_int_req
  <1>9. CsrTypeOK'
    <2>1. resume_addr \in Addr /\ new_dpc \in Addr /\ new_cause \in DebugCauses
      BY DEF TypeOK, CsrTypeOK, resume_addr, new_dpc, new_cause, DebugCauses
    <2>2. CASE WriteMachineCsr \/ WriteDebugCsr
      BY <2>2 DEF TypeOK, CsrTypeOK, WriteMachineCsr, WriteDebugCsr
    <2>3. CASE UNCHANGED csrs
      BY <2>3 DEF TypeOK, CsrTypeOK, csrs
    <2>4. CASE SaveOnHalt
      BY <2>1, <2>4 DEF SaveOnHalt, TypeOK, CsrTypeOK
    <2>5. CASE SaveOnTrap
      BY <2>1, <2>5, CauseType DEF SaveOnTrap, TypeOK, CsrTypeOK
    <2>6. CASE RestoreOnReturn
      BY <2>6 DEF RestoreOnReturn, TypeOK, CsrTypeOK
    <2>7. QED
      BY <2>2, <2>3, <2>4, <2>5, <2>6 DEF CSR
  <1>10. /\ recover_from_reset' \in BOOLEAN /\ delay_halt' \in BOOLEAN
         /\ debug_mode' \in BOOLEAN /\ step_trap' \in BOOLEAN
         /\ dm_state' \in {"unavail", "running", "halted"}
    BY DEF DebugCtrl, TypeOK, valid_delay_halt, raise, step_debug
  <1>11. /\ mip' \in SUBSET Ints /\ busy' \in BOOLEAN
    BY DEF Bus, IntSources
  <1>12. haltreq' \in BOOLEAN /\ resumereq' \in BOOLEAN
    BY DEF DmControl, TypeOK
  <1>13. dmi_gap' \in 0 .. DmiGap
    <2>1. dmi_gap \in 0 .. DmiGap /\ DmiGap \in Nat
      BY CoreAssumption DEF TypeOK
    <2>2. CASE dmi_gap' = IF dmi_gap = 0 THEN 0 ELSE dmi_gap - 1
      BY <2>1, <2>2
    <2>3. CASE dmi_gap' = IF resumereq' THEN DmiGap ELSE 0
      BY <2>1, <2>3
    <2>4. QED
      BY <2>2, <2>3 DEF DmControl
  <1>14. QED
    BY <1>3, <1>4, <1>5, <1>6, <1>7, <1>8, <1>9, <1>10, <1>11, <1>12,
       <1>13
       DEF TypeOK

\* Every register keeps to the values that the RTL gives it.
THEOREM TypeCorrect == Spec => []TypeOK
  <1>1. Init => TypeOK
    BY InitType
  <1>2. TypeOK /\ [Next]_vars => TypeOK'
    <2>1. TypeOK /\ UNCHANGED vars => TypeOK'
      BY DEF TypeOK, CsrTypeOK, vars, pipe, ctrl, csrs, dbg, pins
    <2>2. QED
      BY <2>1, TickType, ResetType DEF Next
  <1>3. QED
    BY <1>1, <1>2, PTL DEF Spec
-----------------------------------------------------------------------------
(***************************************************************************)
(* Entry to a trap or to debug mode.  RequestFlushed strengthens           *)
(* EntryFindsBubble: it says, for each register that makes an entry happen *)
(* in the next cycle, that EX has been emptied when it was set.            *)
(***************************************************************************)

\* Whatever flushes the pipeline leaves a bubble in EX, no exception behind
\* it, and squashes what ID decodes next.
LEMMA FlushEmpties ==
  ASSUME NEW inst, IF_ID, ID_EX(inst), ExceptionPipeLine(inst), flush
  PROVE  clear' /\ ex_op' = "nop" /\ ~raise'
  BY DEF IF_ID, ID_EX, ExceptionPipeLine, raise

LEMMA TickFlushed == TypeOK /\ RequestFlushed /\ Tick => RequestFlushed'
  <1> SUFFICES ASSUME TypeOK, RequestFlushed,
                      NEW inst \in Decoded, NEW target \in JumpAddrEx,
                      Clock(inst, target)
               PROVE  RequestFlushed'
    BY DEF Tick
  <1>1. ready_for_int' => ex_op' = "nop" /\ ~raise'
    <2>1. ready_for_int' => flush
      BY DEF Clock, ExceptionCtrl, TypeOK, flush
    <2>2. QED
      BY <2>1, FlushEmpties DEF Clock
  <1>2. delay_halt' => ex_op' = "nop" /\ ~raise' /\ clear'
    <2>1. delay_halt' => flush
      BY DEF Clock, DebugCtrl, flush
    <2>2. QED
      BY <2>1, FlushEmpties DEF Clock
  <1>3. raise' => ex_op' = "nop"
    <2>1. CASE flush
      BY <2>1, FlushEmpties DEF Clock
    <2>2. CASE ~flush /\ stall_n
      BY <2>2 DEF Clock, ID_EX, ExceptionPipeLine, raise
    <2>3. CASE ~flush /\ ~stall_n
      BY <2>3 DEF Clock, ID_EX, ExceptionPipeLine, raise, RequestFlushed
    <2>4. QED
      BY <2>1, <2>2, <2>3
  <1>4. ~recover_from_reset'
    BY DEF Clock, DebugCtrl
  <1>5. busy' => ex_op' = "mem"
    BY DEF Clock, Bus
  <1>6. QED
    BY <1>1, <1>2, <1>3, <1>4, <1>5 DEF RequestFlushed

LEMMA Flushed == Spec => [](TypeOK /\ RequestFlushed)
  <1>1. Init => RequestFlushed
    BY DEF Init, RequestFlushed, raise
  <1>2. TypeOK /\ RequestFlushed /\ [Next]_vars => RequestFlushed'
    <2>1. Reset => RequestFlushed'
      BY DEF Reset, RequestFlushed, raise
    <2>2. RequestFlushed /\ UNCHANGED vars => RequestFlushed'
      BY DEF RequestFlushed, raise, vars, pipe, ctrl, dbg, pins
    <2>3. QED
      BY <2>1, <2>2, TickFlushed DEF Next
  <1>3. QED
    BY <1>1, <1>2, TypeCorrect, PTL DEF Spec

\* No instruction is executed halfway: whatever the program and the debugger
\* do, a trap or a halt finds a bubble in EX (ExceptionCtrl, DebugCtrl).
THEOREM EntryBubble == Spec => []EntryFindsBubble
  <1>1. RequestFlushed => EntryFindsBubble
    BY DEF RequestFlushed, EntryFindsBubble, trap_occurred, halt, ebreak_debug,
           reset_halt, raise
  <1>2. QED
    BY <1>1, Flushed, PTL

-----------------------------------------------------------------------------
(***************************************************************************)
(* Debug mode.                                                             *)
(***************************************************************************)

\* The debug module is told the truth about the hart (DebugCtrl's dm_state).
THEOREM Reported == Spec => []ReportedState
  <1>1. Init => ReportedState
    BY DEF Init, ReportedState
  <1>2. ReportedState /\ [Next]_vars => ReportedState'
    <2> SUFFICES ASSUME ReportedState, [Next]_vars PROVE ReportedState'
      OBVIOUS
    <2>1. CASE Tick
      BY <2>1 DEF Tick, Clock, DebugCtrl, ReportedState, halt, resume, halted
    <2>2. CASE Reset
      BY <2>2 DEF Reset, ReportedState
    <2>3. CASE UNCHANGED vars
      BY <2>3 DEF ReportedState, vars, dbg
    <2>4. QED
      BY <2>1, <2>2, <2>3 DEF Next
  <1>3. QED
    BY <1>1, <1>2, PTL DEF Spec

\* A debugger that leaves dcsr.ebreakm alone never turns it on.
EbreakOff == ~dcsr_ebreakm

LEMMA TickEbreakOff ==
  ASSUME "ebreak" \notin DebugUse
  PROVE  EbreakOff /\ Tick => EbreakOff'
  <1> SUFFICES ASSUME EbreakOff, CSR PROVE EbreakOff'
    BY DEF Tick, Clock
  <1>1. QED
    BY DEF CSR, EbreakOff, WriteMachineCsr, WriteDebugCsr, SaveOnHalt,
           SaveOnTrap, RestoreOnReturn, csrs

LEMMA TickDebugEmpty ==
  EbreakOff /\ RequestFlushed /\ NoExecutionInDebug /\ Tick
     => NoExecutionInDebug'
  <1> SUFFICES ASSUME EbreakOff, RequestFlushed, NoExecutionInDebug,
                      NEW inst \in Decoded, NEW target \in JumpAddrEx,
                      Clock(inst, target), debug_mode'
               PROVE  ex_op' = "nop"
    BY DEF Tick, NoExecutionInDebug, halted
  <1>1. debug_mode \/ halt
    BY DEF Clock, DebugCtrl
  <1>2. CASE debug_mode
    BY <1>2 DEF Clock, ID_EX, NoExecutionInDebug, stall_n, halted
  <1>3. CASE ~debug_mode /\ halt
    <2>1. ex_op = "nop" /\ clear
      BY <1>3 DEF halt, ebreak_debug, reset_halt, EbreakOff, RequestFlushed
    <2>2. inst = "nop"
      BY <2>1 DEF Decoded
    <2>3. QED
      BY <2>1, <2>2 DEF Clock, ID_EX
  <1>4. QED
    BY <1>1, <1>2, <1>3

\* A halted hart executes nothing, unless ebreak enters debug mode.
THEOREM NothingExecutesHalted ==
  ASSUME "ebreak" \notin DebugUse
  PROVE  Spec => []NoExecutionInDebug
  <1>1. Init => EbreakOff /\ NoExecutionInDebug
    BY DEF Init, EbreakOff, NoExecutionInDebug
  <1>2. /\ RequestFlushed
        /\ EbreakOff /\ NoExecutionInDebug
        /\ [Next]_vars
        => (EbreakOff /\ NoExecutionInDebug)'
    <2>1. Reset => (EbreakOff /\ NoExecutionInDebug)'
      BY DEF Reset, EbreakOff, NoExecutionInDebug
    <2>2. /\ EbreakOff /\ NoExecutionInDebug
          /\ UNCHANGED vars
          => (EbreakOff /\ NoExecutionInDebug)'
      BY DEF EbreakOff, NoExecutionInDebug, halted, vars, pipe, dbg, csrs
    <2>3. QED
      BY <2>1, <2>2, TickEbreakOff, TickDebugEmpty DEF Next
  <1>3. QED
    BY <1>1, <1>2, Flushed, PTL DEF Spec

\* A bus access that the core has started is never taken back, by no trap,
\* halt, resume or interrupt request (CoreCtrl's flush against its stall_n).
THEOREM AccessIsCompleted ==
  ASSUME "ebreak" \notin DebugUse
  PROVE  Spec => AccessCompletes
  <1>1. /\ RequestFlushed /\ NoExecutionInDebug
        /\ [Next]_vars
        => [busy => Reset \/ UNCHANGED <<ex_op, ex_addr>>]_vars
    <2> SUFFICES ASSUME RequestFlushed, NoExecutionInDebug, busy,
                        NEW inst \in Decoded, NEW target \in JumpAddrEx,
                        Clock(inst, target)
                 PROVE  UNCHANGED <<ex_op, ex_addr>>
      BY DEF Next, Tick
    <2>1. ex_op = "mem" /\ ~stall_n
      BY DEF RequestFlushed, stall_n
    <2>2. ~jump
      BY <2>1 DEF RequestFlushed, NoExecutionInDebug, jump, jump_en_ex,
                  trap_occurred, resume
    <2>3. ~flush
      BY <2>1, <2>2 DEF flush, valid_int_req, valid_delay_halt
    <2>4. QED
      BY <2>1, <2>3 DEF Clock, ID_EX
  <1>2. QED
    BY <1>1, Flushed, NothingExecutesHalted, PTL DEF Spec, AccessCompletes

-----------------------------------------------------------------------------
(***************************************************************************)
(* The debug logic rests.                                                  *)
(***************************************************************************)

\* No request reaches debug mode from a debug logic at rest.
LEMMA IdleWires ==
  ASSUME DebugIdle
  PROVE  ~halt /\ ~resume /\ ~halted /\ ~valid_delay_halt /\ ~step_debug
  BY DEF DebugIdle, halt, ebreak_debug, reset_halt, resume, halted,
         valid_delay_halt, step_debug

LEMMA TickIdle ==
  ASSUME DebugUse = {}
  PROVE  DebugIdle /\ Tick => DebugIdle'
  <1> SUFFICES ASSUME DebugIdle, CSR, DebugCtrl, DmControl PROVE DebugIdle'
    BY DEF Tick, Clock
  <1>0. ~halt /\ ~resume /\ ~halted /\ ~valid_delay_halt /\ ~step_debug
    BY IdleWires
  <1>1. ~debug_mode'
    BY <1>0 DEF DebugIdle, DebugCtrl
  <1>2. ~delay_halt'
    BY <1>0 DEF DebugIdle, DebugCtrl
  <1>3. ~step_trap'
    BY <1>0 DEF DebugIdle, DebugCtrl
  <1>4. UNCHANGED <<dcsr_step, dcsr_ebreakm>>
    BY <1>0 DEF CSR, DebuggerAccess, WriteMachineCsr, SaveOnHalt,
                SaveOnTrap, RestoreOnReturn, csrs
  <1>5. ~haltreq'
    BY DEF DebugIdle, DmControl
  <1>6. ~resumereq'
    BY DEF DebugIdle, DmControl
  <1>7. QED
    BY <1>1, <1>2, <1>3, <1>4, <1>5, <1>6 DEF DebugIdle

-----------------------------------------------------------------------------
(***************************************************************************)
(* The flow of addresses through the pipeline.                             *)
(***************************************************************************)

\* An empty EX does not stall the core, and neither does a jump.
LEMMA OnlyWorkStalls ==
  ASSUME DebugIdle, RequestFlushed, ex_op \notin {"mem", "wfi"}
  PROVE  stall_n
  BY IdleWires DEF RequestFlushed, stall_n, waiting_int, wfi

\* A trap turns interrupts off.
LEMMA TrapDisables ==
  ASSUME DebugIdle, RequestFlushed, CSR, trap_occurred
  PROVE  SaveOnTrap
  <1>1. ex_op = "nop"
    BY DEF RequestFlushed, trap_occurred
  <1>2. QED
    BY <1>1, IdleWires DEF CSR, DebuggerAccess, SaveOnHalt, trap_returned

\* Neither a bubble nor a plain instruction touches the CSRs.
LEMMA CsrsKept ==
  ASSUME DebugIdle, CSR, ~trap_occurred, ex_op \notin {"csr", "mret"}
  PROVE  UNCHANGED csrs
  BY IdleWires DEF CSR, DebuggerAccess, trap_returned, SaveOnHalt, SaveOnTrap,
                   RestoreOnReturn

LEMMA TickFlow ==
  TypeOK /\ RequestFlushed /\ DebugIdle /\ FlowInv /\ Tick => FlowInv'
  <1> SUFFICES ASSUME TypeOK, RequestFlushed, DebugIdle, FlowInv,
                      NEW inst \in Decoded, NEW target \in JumpAddrEx,
                      Clock(inst, target)
               PROVE  FlowInv'
    BY DEF Tick
  <1> USE DEF Clock
  <1>1. ~recover_from_reset'
    BY DEF DebugCtrl
  <1>2. CASE flush
    <2>1. clear' /\ nop_cnt' = 3 /\ ex_op' = "nop" /\ ~raise'
      BY <1>2, FlushEmpties DEF CoreCtrl, NopCounter, IF_ID
    <2>2. jump_pending' <=> jump \/ jump_pending
      BY <1>2 DEF CoreCtrl, NopCounter, TypeOK
    <2>3. ~jump => ready_for_int'
      BY <1>2, IdleWires DEF flush, jump, trap_occurred, ExceptionCtrl,
                             valid_int_req, DebugIdle
    <2>4. jump /\ mstatus_mie' => last_jump_addr' = pc'
      <3>1. trap_occurred => ~mstatus_mie'
        BY TrapDisables DEF SaveOnTrap
      <3>2. jump /\ ~trap_occurred => stall_n /\ jump_en_ex
        BY OnlyWorkStalls, IdleWires DEF jump, jump_en_ex
      <3>3. jump /\ ~trap_occurred => last_jump_addr' = pc'
        BY <3>2, IdleWires DEF CoreCtrl, LastJump, PC_Reg, jump_addr
      <3>4. QED
        BY <3>1, <3>3
    <2>5. QED
      BY <1>1, <2>1, <2>2, <2>3, <2>4 DEF FlowInv
  <1>3. CASE ~flush
    <2>1. /\ ~jump /\ ~valid_int_req /\ ~trap_occurred /\ ~jump_en_ex
          /\ ~ready_for_int /\ ~raise
      BY <1>3, IdleWires DEF flush, jump, trap_occurred, DebugIdle
    <2>2. ~ready_for_int' /\ ~clear' /\ last_jump_addr' = last_jump_addr
      BY <1>3, <2>1 DEF ExceptionCtrl, IF_ID, CoreCtrl, LastJump
    <2>3. CASE nop_cnt = 3
      <3>1. ex_op = "nop" /\ clear /\ stall_n /\ jump_pending
        BY <2>1, <2>3, OnlyWorkStalls DEF FlowInv
      <3>2. ex_op' = "nop" /\ ~raise'
        BY <1>3, <2>1, <3>1
           DEF Decoded, ID_EX, ExceptionPipeLine, raise, Raising
      <3>3. nop_cnt' = 2 /\ jump_pending'
        BY <1>3, <2>3 DEF CoreCtrl, NopCounter, flushing_pipeline
      <3>4. pc' = Succ(pc) /\ id_addr' = pc
        BY <2>1, <3>1 DEF PC_Reg, IF_ID
      <3>5. mstatus_mie' = mstatus_mie
        BY <2>1, <3>1, CsrsKept DEF csrs
      <3>6. QED
        BY <1>1, <2>1, <2>2, <2>3, <3>1, <3>2, <3>3, <3>4, <3>5 DEF FlowInv
    <2>4. CASE nop_cnt # 3
      <3>1. nop_cnt' = 0 /\ ~jump_pending'
        BY <1>3, <2>4 DEF CoreCtrl, NopCounter, flushing_pipeline, FlowInv,
                          TypeOK
      <3>2. CASE stall_n
        <4>1. pc' = Succ(pc) /\ id_addr' = pc /\ ex_addr' = id_addr
          BY <2>1, <3>2 DEF PC_Reg, IF_ID, ID_EX
        <4>2. ex_op' # "nop" \/ raise' => ~clear
          BY <1>3, <3>2 DEF Decoded, ID_EX, ExceptionPipeLine, raise, Raising
        <4>3. QED
          BY <1>1, <2>2, <3>1, <4>1, <4>2 DEF FlowInv
      <3>3. CASE ~stall_n
        <4>1. ex_op # "nop"
          BY <3>3, OnlyWorkStalls
        <4>2. UNCHANGED <<pc, id_addr, ex_addr, ex_op>>
          BY <1>3, <2>1, <3>3 DEF PC_Reg, IF_ID, ID_EX
        <4>3. QED
          BY <1>1, <2>2, <3>1, <4>1, <4>2 DEF FlowInv
      <3>4. QED
        BY <3>2, <3>3
    <2>5. QED
      BY <2>3, <2>4
  <1>4. QED
    BY <1>2, <1>3

\* The inductive invariant of the hart without a debugger.
IInv == TypeOK /\ RequestFlushed /\ DebugIdle /\ FlowInv

LEMMA NoDebugger ==
  ASSUME DebugUse = {}
  PROVE  Spec => []IInv
  <1>1. Init => DebugIdle /\ FlowInv
    BY DEF Init, DebugIdle, FlowInv, raise
  <1>2. /\ TypeOK /\ RequestFlushed
        /\ DebugIdle /\ FlowInv
        /\ [Next]_vars
        => (DebugIdle /\ FlowInv)'
    <2>1. DebugIdle /\ Reset => (DebugIdle /\ FlowInv)'
      BY DEF Reset, DebugIdle, FlowInv, raise
    <2>2. DebugIdle /\ FlowInv /\ UNCHANGED vars => (DebugIdle /\ FlowInv)'
      BY DEF DebugIdle, FlowInv, raise, vars, pipe, ctrl, csrs, dbg, pins
    <2>3. QED
      BY <2>1, <2>2, TickIdle, TickFlow DEF Next
  <1>3. QED
    BY <1>1, <1>2, Flushed, PTL DEF Spec, IInv

\* Addresses in the pipeline are those of the program (CoreCtrl, PC_Reg).
THEOREM Flow ==
  ASSUME DebugUse = {}
  PROVE  Spec => []FlowInv
  BY NoDebugger, PTL DEF IInv

-----------------------------------------------------------------------------
(***************************************************************************)
(* Refinement.                                                             *)
(***************************************************************************)

\* The address of the next instruction, when nothing halts.
NextFlow ==
  IF ready_for_int THEN resume_addr
  ELSE IF ex_op # "nop" \/ raise THEN ex_addr
  ELSE IF ~clear THEN id_addr
  ELSE pc

LEMMA NextPcFlow ==
  /\ DebugIdle => NextPc = NextFlow
  /\ DebugIdle' => NextPc' = NextFlow'
  BY DEF DebugIdle, NextPc, NextFlow

\* When a trap is taken, the address that it saves is the next instruction's.
LEMMA TrapSavesNext ==
  ASSUME IInv, trap_occurred
  PROVE  resume_addr = NextFlow
  BY DEF IInv, RequestFlushed, FlowInv, trap_occurred, NextFlow, resume_addr

LEMMA TrapStep ==
  ASSUME IInv, IInv', NEW inst, NEW target, Clock(inst, target), trap_occurred
  PROVE  H!Trap(cause)
  <1>1. SaveOnTrap
    BY TrapDisables DEF Clock, IInv
  <1>2. NextPc = resume_addr
    BY TrapSavesNext, NextPcFlow DEF IInv
  <1>3. NextPc' = Vector[cause]
    <2>1. pc' = Vector[cause]
      BY IdleWires DEF IInv, Clock, PC_Reg, jump, jump_addr
    <2>2. clear' /\ ex_op' = "nop" /\ ~raise'
      BY FlushEmpties DEF Clock, flush, jump
    <2>3. ~ready_for_int'
      <3>1. CASE ready_for_int
        BY <3>1 DEF Clock, ExceptionCtrl
      <3>2. CASE ~ready_for_int
        <4>1. ~valid_int_req
          BY <3>2 DEF trap_occurred, valid_int_req
        <4>2. QED
          BY <3>2, <4>1 DEF Clock, ExceptionCtrl
      <3>3. QED
        BY <3>1, <3>2
    <2>4. NextFlow' = pc'
      BY <2>2, <2>3 DEF NextFlow
    <2>5. NextPc' = NextFlow'
      BY NextPcFlow DEF IInv
    <2>6. QED
      BY <2>1, <2>4, <2>5
  <1>4. UNCHANGED debug_mode /\ ~debug_mode
    BY DEF IInv, TypeOK, DebugIdle
  <1>5. QED
    BY <1>1, <1>2, <1>3, <1>4 DEF SaveOnTrap, H!Trap, H!Running

\* A jump or a return continues at its destination, even when an interrupt is
\* requested in the same cycle: last_jump_addr then holds the destination.
LEMMA JumpFlow ==
  ASSUME IInv, NEW inst, NEW target, Clock(inst, target),
         ~trap_occurred, jump_en_ex
  PROVE  NextFlow' = target
  <1>1. stall_n /\ jump /\ flush
    BY OnlyWorkStalls DEF IInv, jump_en_ex, jump, flush
  <1>2. pc' = target /\ last_jump_addr' = target
    BY <1>1, IdleWires DEF Clock, CoreCtrl, LastJump, PC_Reg, jump_addr, IInv
  <1>3. jump_pending'
    BY <1>1 DEF Clock, CoreCtrl, NopCounter
  <1>4. clear' /\ ex_op' = "nop" /\ ~raise'
    BY <1>1, FlushEmpties DEF Clock
  <1>5. QED
    BY <1>2, <1>3, <1>4 DEF NextFlow, resume_addr

LEMMA JumpStep ==
  ASSUME IInv, IInv', NEW inst, NEW target \in JumpAddrEx, Clock(inst, target),
         ~trap_occurred, jump_en_ex
  PROVE  \/ ex_op = "jump" /\ H!Jump
         \/ ex_op = "mret" /\ H!Return
  <1>1. NextPc' = target
    BY JumpFlow, NextPcFlow DEF IInv
  <1>2. UNCHANGED debug_mode /\ ~debug_mode
    BY DEF IInv, TypeOK, DebugIdle
  <1>3. CASE ex_op = "jump"
    <2>1. UNCHANGED csrs
      BY <1>3, CsrsKept DEF Clock, IInv
    <2>2. target \in Targets
      BY <1>3 DEF JumpAddrEx
    <2>3. QED
      BY <1>1, <1>2, <1>3, <2>1, <2>2 DEF csrs, H!Jump, H!Running
  <1>4. CASE ex_op = "mret"
    <2>1. target = mepc
      BY <1>4 DEF JumpAddrEx
    <2>2. RestoreOnReturn
      BY <1>4, IdleWires DEF IInv, Clock, CSR, DebuggerAccess, SaveOnHalt,
                             SaveOnTrap, trap_returned
    <2>3. QED
      BY <1>1, <1>2, <1>4, <2>1, <2>2 DEF RestoreOnReturn, H!Return, H!Running
  <1>5. QED
    BY <1>3, <1>4 DEF jump_en_ex

\* In every other cycle the flow advances by the instruction that retires.
LEMMA PlainFlow ==
  ASSUME IInv, NEW inst \in Decoded, NEW target, Clock(inst, target),
         ~trap_occurred, ~jump_en_ex
  PROVE  NextFlow' = IF ex_op # "nop" /\ stall_n THEN Succ(NextFlow)
                                                 ELSE NextFlow
  <1> USE DEF Clock
  <1>1. ~ready_for_int /\ ~raise /\ ~jump /\ ~valid_delay_halt
    BY IdleWires DEF IInv, DebugIdle, trap_occurred, jump
  <1>2. CASE valid_int_req
    <2>1. flush /\ stall_n /\ mstatus_mie
      BY <1>2 DEF flush, valid_int_req
    <2>2. ready_for_int'
      BY <1>1, <1>2, <2>1 DEF ExceptionCtrl
    <2>3. /\ jump_pending' <=> jump_pending
          /\ last_jump_addr' = last_jump_addr
          /\ ex_addr' = id_addr
      BY <1>1, <2>1 DEF CoreCtrl, NopCounter, LastJump, ID_EX, IInv, TypeOK
    <2>4. NextFlow' = IF jump_pending THEN last_jump_addr ELSE id_addr
      BY <2>2, <2>3 DEF NextFlow, resume_addr
    <2>5. CASE ex_op # "nop"
      BY <1>1, <2>1, <2>4, <2>5 DEF IInv, FlowInv, NextFlow
    <2>6. CASE ex_op = "nop" /\ jump_pending
      BY <1>1, <2>1, <2>4, <2>6 DEF IInv, FlowInv, NextFlow
    <2>7. CASE ex_op = "nop" /\ ~jump_pending
      BY <1>1, <2>1, <2>4, <2>7 DEF IInv, FlowInv, NextFlow
    <2>8. QED
      BY <2>5, <2>6, <2>7
  <1>3. CASE ~valid_int_req
    <2>1. ~flush
      BY <1>1, <1>3 DEF flush
    <2>2. ~ready_for_int' /\ ~clear'
      BY <1>1, <1>3, <2>1 DEF ExceptionCtrl, IF_ID
    <2>3. CASE stall_n
      <3>1. ex_addr' = id_addr /\ id_addr' = pc
        BY <2>3 DEF ID_EX, IF_ID
      <3>2. ex_op' # "nop" \/ raise' <=> ~clear
        BY <2>1, <2>3, CoreAssumption
           DEF Decoded, ID_EX, ExceptionPipeLine, raise, Raising, AllInsts
      <3>3. NextFlow' = IF clear THEN pc ELSE id_addr
        BY <2>2, <3>1, <3>2 DEF NextFlow
      <3>4. QED
        BY <1>1, <2>3, <3>3 DEF IInv, FlowInv, NextFlow
    <2>4. CASE ~stall_n
      <3>1. ex_op # "nop"
        BY <2>4, OnlyWorkStalls DEF IInv
      <3>2. UNCHANGED <<ex_addr, ex_op>>
        BY <2>1, <2>4 DEF ID_EX
      <3>3. QED
        BY <1>1, <2>2, <2>4, <3>1, <3>2 DEF NextFlow
    <2>5. QED
      BY <2>3, <2>4
  <1>4. QED
    BY <1>2, <1>3

LEMMA PlainStep ==
  ASSUME IInv, IInv', NEW inst \in Decoded, NEW target, Clock(inst, target),
         ~trap_occurred, ~jump_en_ex
  PROVE  \/ Retires /\ ex_op \in {"alu", "mem", "wfi"} /\ H!Execute
         \/ Retires /\ ex_op = "csr" /\ H!WriteCsr
         \/ ~Retires /\ UNCHANGED H!vars
  <1>1. UNCHANGED debug_mode /\ ~debug_mode
    BY DEF IInv, TypeOK, DebugIdle
  <1>2. NextPc' = IF Retires THEN H!Succ(NextPc) ELSE NextPc
    BY PlainFlow, NextPcFlow, IdleWires DEF IInv, Retires, H!Succ, Succ
  <1>3. CASE ex_op = "csr"
    <2>1. Retires
      BY <1>3, OnlyWorkStalls DEF IInv, Retires
    <2>2. WriteMachineCsr
      BY <1>3, IdleWires DEF IInv, Clock, CSR, DebuggerAccess
    <2>3. mepc \in Addr
      BY DEF IInv, TypeOK, CsrTypeOK
    <2>4. H!WriteCsr
      BY <1>1, <1>2, <2>1, <2>2, <2>3
         DEF WriteMachineCsr, H!WriteCsr, H!Running, H!Addr, Addr
    <2>5. QED
      BY <1>3, <2>1, <2>4
  <1>4. CASE ex_op # "csr"
    <2>1. UNCHANGED csrs
      BY <1>4, CsrsKept DEF Clock, IInv, jump_en_ex
    <2>2. CASE Retires
      <3>1. ex_op \in {"alu", "mem", "wfi"}
        BY <1>4, <2>2, CoreAssumption
           DEF Retires, IInv, TypeOK, AllInsts, Raising, jump_en_ex
      <3>2. H!Execute
        BY <1>1, <1>2, <2>1, <2>2 DEF csrs, H!Execute, H!Running
      <3>3. QED
        BY <2>2, <3>1, <3>2
    <2>3. CASE ~Retires
      BY <1>1, <1>2, <2>1, <2>3 DEF csrs, H!vars
    <2>4. QED
      BY <2>2, <2>3
  <1>5. QED
    BY <1>3, <1>4

LEMMA ResetStep == DebugIdle /\ DebugIdle' /\ Reset => H!Reset
  <1> SUFFICES ASSUME DebugIdle, DebugIdle', Reset PROVE H!Reset
    OBVIOUS
  <1>1. NextPc' = 0
    BY NextPcFlow DEF Reset, NextFlow, raise
  <1>2. QED
    BY <1>1 DEF Reset, H!Reset

\* What a cycle does to the hart that software sees.
CycleStep ==
  \/ Reset /\ H!Reset
  \/ ~Retires /\ trap_occurred /\ H!Trap(cause)
  \/ /\ ~trap_occurred
     /\ \/ Retires /\ ex_op = "jump" /\ H!Jump
        \/ Retires /\ ex_op = "mret" /\ H!Return
        \/ Retires /\ ex_op \in {"alu", "mem", "wfi"} /\ H!Execute
        \/ Retires /\ ex_op = "csr" /\ H!WriteCsr
        \/ ~Retires /\ UNCHANGED H!vars

LEMMA Cycle == IInv /\ IInv' /\ Next => CycleStep
  <1> SUFFICES ASSUME IInv, IInv', Next PROVE CycleStep
    OBVIOUS
  <1>1. CASE Reset
    BY <1>1, ResetStep DEF IInv, CycleStep
  <1>2. CASE Tick
    <2>1. PICK inst \in Decoded, target \in JumpAddrEx : Clock(inst, target)
      BY <1>2 DEF Tick
    <2>2. CASE trap_occurred
      <3>1. ~Retires
        BY <2>2 DEF IInv, RequestFlushed, trap_occurred, Retires
      <3>2. QED
        BY <2>1, <2>2, <3>1, TrapStep DEF CycleStep
    <2>3. CASE ~trap_occurred /\ jump_en_ex
      <3>1. Retires
        BY <2>3, OnlyWorkStalls DEF IInv, jump_en_ex, Retires
      <3>2. QED
        BY <2>1, <2>3, <3>1, JumpStep DEF CycleStep
    <2>4. CASE ~trap_occurred /\ ~jump_en_ex
      BY <2>1, <2>4, PlainStep DEF CycleStep
    <2>5. QED
      BY <2>2, <2>3, <2>4
  <1>3. QED
    BY <1>1, <1>2 DEF Next

\* Each cycle of a hart without a debugger does exactly what it is for.
THEOREM EveryCycle ==
  ASSUME DebugUse = {}
  PROVE  Spec => OneStepPerCycle
  <1>1. IInv /\ CycleStep => RightStep
    BY IdleWires DEF IInv, CycleStep, RightStep
  <1>2. IInv /\ IInv' /\ [Next]_vars => [RightStep \/ Slipped]_vars
    BY <1>1, Cycle
  <1>3. QED
    BY <1>2, NoDebugger, PTL DEF Spec, OneStepPerCycle

\* Core implements Hart: precise traps, one instruction at a time.
THEOREM Precise ==
  ASSUME DebugUse = {}
  PROVE  Spec => PreciseHart
  <1>1. Init => H!Init
    <2> SUFFICES ASSUME Init PROVE H!Init
      OBVIOUS
    <2>1. NextPc = 0
      BY DEF Init, NextPc, raise
    <2>2. QED
      BY <2>1, CoreAssumption DEF Init, H!Init, H!Addr, Addr
  <1>2. IInv /\ IInv' /\ [Next]_vars => [H!Next]_(H!vars)
    <2> SUFFICES ASSUME IInv, IInv', [Next]_vars PROVE [H!Next]_(H!vars)
      OBVIOUS
    <2>1. CASE Next
      <3>1. CycleStep
        BY <2>1, Cycle
      <3>2. trap_occurred => cause \in Causes
        BY CauseType DEF IInv
      <3>3. QED
        BY <3>1, <3>2 DEF CycleStep, H!Next
    <2>2. CASE UNCHANGED vars
      <3>1. UNCHANGED NextPc
        BY <2>2, NextPcFlow DEF IInv, NextFlow, resume_addr, raise, vars, pipe,
                                ctrl
      <3>2. QED
        BY <2>2, <3>1 DEF vars, csrs, dbg, H!vars
    <2>3. QED
      BY <2>1, <2>2
  <1>3. QED
    BY <1>1, <1>2, NoDebugger, PTL DEF Spec, PreciseHart, H!Spec

-----------------------------------------------------------------------------
(***************************************************************************)
(* The hart with a debugger.  Apart excludes what is known to be wrong: an *)
(* interrupt in the refill after a resume, a halt request that comes with  *)
(* a trap or before the refill after a resume is over.                     *)
(***************************************************************************)
Apart ==
  /\ Ints = {}
  /\ "haltreq" \in DebugUse => Insts \cap Raising = {} /\ DmiGap >= 2

\* No halt request comes before the refill is over.
Calm == ~haltreq /\ ("haltreq" \in DebugUse /\ nop_cnt = 3 => dmi_gap # 0)

\* FlowInv of a hart that runs.  A trap and a resume leave last_jump_addr
\* alone, so during their refill nobody may ask where the flow continues.
HaltFlow ==
  /\ clear <=> (nop_cnt = 3 \/ recover_from_reset)
  /\ ~clear => pc = Succ(id_addr)
  /\ ex_op # "nop" \/ raise => nop_cnt = 0 /\ ~clear /\ id_addr = Succ(ex_addr)
  /\ nop_cnt = 3 => jump_pending \/ delay_halt
  /\ nop_cnt = 2 => jump_pending
  /\ jump_pending => nop_cnt \in {2, 3}
  /\ jump_pending /\ ~delay_halt =>
       last_jump_addr = (IF clear THEN pc ELSE id_addr) \/ Calm

HaltInv ==
  /\ ~ready_for_int
  /\ delay_halt => ~debug_mode
  /\ "haltreq" \notin DebugUse /\ haltreq => recover_from_reset \/ debug_mode
  /\ recover_from_reset => ~debug_mode /\ ~dcsr_step /\ ~delay_halt /\ nop_cnt = 0
  /\ resumereq => dmi_gap = DmiGap
  /\ step_trap /\ ~debug_mode => ~raise
  /\ ~debug_mode => HaltFlow

RunInv == TypeOK /\ RequestFlushed /\ HaltInv

\* Nothing but a bus access or a waiting WFI stalls a hart that runs.
LEMMA RunningMoves ==
  ASSUME RequestFlushed, ~debug_mode, ex_op \notin {"mem", "wfi"}
  PROVE  stall_n
  BY DEF RequestFlushed, stall_n, waiting_int, wfi, halted

\* Without halt requests the debugger raises haltreq only to halt the hart out
\* of reset.
LEMMA HaltreqRests ==
  ASSUME "haltreq" \notin DebugUse, haltreq => recover_from_reset \/ debug_mode,
         NEW inst, NEW target, Clock(inst, target)
  PROVE  haltreq' => debug_mode'
  <1> SUFFICES ASSUME haltreq' PROVE debug_mode'
    OBVIOUS
  <1>1. haltreq
    BY DEF Clock, DmControl
  <1>2. CASE debug_mode
    BY <1>1, <1>2 DEF Clock, DebugCtrl, halt, resume
  <1>3. CASE recover_from_reset /\ ~debug_mode
    BY <1>1, <1>3 DEF Clock, DebugCtrl, halt, reset_halt, resume, halted
  <1>4. QED
    BY <1>1, <1>2, <1>3

\* No interrupt, and no trap where a halt may be requested.
LEMMA ApartWires ==
  ASSUME Apart, RunInv
  PROVE  /\ ~valid_int_req
         /\ trap_occurred <=> raise /\ ~halt /\ ~debug_mode
         /\ raise => "haltreq" \notin DebugUse
         /\ raise /\ haltreq => debug_mode
  <1>1. mip \cap mie = {}
    BY DEF Apart, RunInv, TypeOK
  <1>2. raise => "haltreq" \notin DebugUse
    BY DEF Apart, RunInv, TypeOK, raise
  <1>3. QED
    BY <1>1, <1>2 DEF RunInv, HaltInv, RequestFlushed, valid_int_req, any_int_come,
                      trap_occurred

\* A cycle in which the hart runs, and goes on to run or has a halt requested.
LEMMA RunningCycle ==
  ASSUME NEW inst, NEW target, Clock(inst, target), ~debug_mode
  PROVE  /\ halt => debug_mode'
         /\ ~halt => ~debug_mode' /\ ~delay_halt
         /\ ~resume /\ ~halted
  BY DEF Clock, DebugCtrl, resume, halted, halt

LEMMA TickHaltFlow ==
  ASSUME Apart, RunInv, NEW inst \in Decoded, NEW target \in JumpAddrEx,
         Clock(inst, target), ~debug_mode'
  PROVE  HaltFlow'
  <1> USE DEF Clock
  <1>1. ~recover_from_reset'
    BY DEF DebugCtrl
  <1>2. "haltreq" \notin DebugUse => ~haltreq'
    BY HaltreqRests DEF RunInv, HaltInv
  <1>3. CASE debug_mode
    <2>1. resume /\ jump /\ flush
      BY <1>3 DEF DebugCtrl, halt, flush, jump
    <2>2. clear' /\ ex_op' = "nop" /\ ~raise' /\ nop_cnt' = 3 /\ jump_pending'
      BY <2>1, FlushEmpties DEF CoreCtrl, NopCounter
    <2>3. "haltreq" \in DebugUse => ~haltreq' /\ dmi_gap' # 0
      <3>1. resumereq /\ ~haltreq /\ dmi_gap = DmiGap
        BY <2>1 DEF resume, RunInv, HaltInv
      <3>2. haltreq' = haltreq /\ dmi_gap' = IF dmi_gap = 0 THEN 0 ELSE dmi_gap - 1
        BY <3>1 DEF DmControl
      <3>3. QED
        BY <3>1, <3>2, CoreAssumption DEF Apart
    <2>4. Calm'
      BY <1>2, <2>3 DEF Calm
    <2>5. QED
      BY <1>1, <2>2, <2>4 DEF HaltFlow
  <1>4. CASE ~debug_mode /\ flush
    <2>1. ~halt /\ ~delay_halt /\ ~resume
      BY <1>4, RunningCycle
    <2>2. clear' /\ ex_op' = "nop" /\ ~raise' /\ nop_cnt' = 3
      BY <1>4, FlushEmpties DEF CoreCtrl, NopCounter
    <2>3. jump => jump_pending'
      BY <1>4 DEF CoreCtrl, NopCounter
    <2>4. ~jump => delay_halt'
      BY <1>4, <2>1, ApartWires DEF flush, DebugCtrl
    <2>5. ASSUME ~delay_halt' PROVE last_jump_addr' = pc' \/ Calm'
      <3>1. CASE trap_occurred
        <4>1. "haltreq" \notin DebugUse
          BY <3>1, ApartWires
        <4>2. QED
          BY <1>2, <4>1 DEF Calm
      <3>2. CASE ~trap_occurred
        <4>1. jump_en_ex /\ jump
          BY <2>1, <2>4, <2>5, <3>2 DEF jump
        <4>2. stall_n
          BY <1>4, <4>1, RunningMoves DEF RunInv, jump_en_ex
        <4>3. QED
          BY <2>1, <3>2, <4>1, <4>2 DEF CoreCtrl, LastJump, PC_Reg, jump_addr
      <3>3. QED
        BY <3>1, <3>2
    <2>6. QED
      BY <1>1, <2>2, <2>3, <2>4, <2>5 DEF HaltFlow
  <1>5. CASE ~debug_mode /\ ~flush
    <2>1. /\ ~jump /\ ~trap_occurred /\ ~jump_en_ex /\ ~raise /\ ~valid_delay_halt
          /\ ~delay_halt /\ HaltFlow
      BY <1>5, RunningCycle, ApartWires DEF flush, jump, RunInv, HaltInv
    <2>2. ~clear' /\ last_jump_addr' = last_jump_addr
      BY <1>5, <2>1 DEF IF_ID, CoreCtrl, LastJump
    <2>3. CASE nop_cnt = 3
      <3>1. ex_op = "nop" /\ clear /\ jump_pending /\ stall_n
        BY <1>5, <2>1, <2>3, RunningMoves DEF HaltFlow, RunInv
      <3>2. ex_op' = "nop" /\ ~raise'
        BY <1>5, <2>1, <3>1 DEF Decoded, ID_EX, ExceptionPipeLine, raise, Raising
      <3>3. nop_cnt' = 2 /\ jump_pending'
        BY <1>5, <2>3 DEF CoreCtrl, NopCounter, flushing_pipeline
      <3>4. pc' = Succ(pc) /\ id_addr' = pc
        BY <2>1, <3>1 DEF PC_Reg, IF_ID
      <3>5. Calm => ~haltreq'
        BY <1>2, <2>3 DEF Calm, DmControl
      <3>6. Calm => Calm'
        BY <3>3, <3>5 DEF Calm
      <3>7. QED
        BY <1>1, <2>1, <2>2, <3>1, <3>2, <3>3, <3>4, <3>6 DEF HaltFlow
    <2>4. CASE nop_cnt # 3
      <3>1. nop_cnt' = 0 /\ ~jump_pending'
        BY <1>5, <2>1, <2>4 DEF CoreCtrl, NopCounter, flushing_pipeline, HaltFlow,
                                RunInv, TypeOK
      <3>2. CASE stall_n
        <4>1. pc' = Succ(pc) /\ id_addr' = pc /\ ex_addr' = id_addr
          BY <2>1, <3>2 DEF PC_Reg, IF_ID, ID_EX
        <4>2. ex_op' # "nop" \/ raise' => ~clear
          BY <1>5, <3>2 DEF Decoded, ID_EX, ExceptionPipeLine, raise, Raising
        <4>3. QED
          BY <1>1, <2>1, <2>2, <3>1, <4>1, <4>2 DEF HaltFlow
      <3>3. CASE ~stall_n
        <4>1. ex_op # "nop"
          BY <1>5, <3>3, RunningMoves DEF RunInv
        <4>2. UNCHANGED <<pc, id_addr, ex_addr, ex_op>>
          BY <1>5, <2>1, <3>3 DEF PC_Reg, IF_ID, ID_EX
        <4>3. QED
          BY <1>1, <2>1, <2>2, <3>1, <4>1, <4>2 DEF HaltFlow
      <3>4. QED
        BY <3>2, <3>3
    <2>5. QED
      BY <2>3, <2>4
  <1>6. QED
    BY <1>3, <1>4, <1>5

LEMMA TickHalt ==
  ASSUME Apart, RunInv, Tick
  PROVE  HaltInv'
  <1>0. PICK inst \in Decoded, target \in JumpAddrEx : Clock(inst, target)
    BY DEF Tick
  <1> USE DEF Clock
  <1>1. ~ready_for_int'
    BY <1>0, ApartWires DEF ExceptionCtrl, RunInv, HaltInv
  <1>2. delay_halt' => ~debug_mode'
    BY <1>0 DEF DebugCtrl, valid_delay_halt, stall_n, halted
  <1>3. "haltreq" \notin DebugUse => (haltreq' => debug_mode')
    BY <1>0, HaltreqRests DEF RunInv, HaltInv
  <1>4. ~recover_from_reset'
    BY <1>0 DEF DebugCtrl
  <1>5. resumereq' => dmi_gap' = DmiGap
    BY <1>0 DEF DmControl
  <1>6. ASSUME step_trap', ~debug_mode' PROVE ~raise'
    <2>1. raise
      BY <1>0, <1>6 DEF DebugCtrl
    <2>2. flush
      <3>1. CASE debug_mode
        BY <1>0, <1>6, <3>1 DEF DebugCtrl, halt, flush, jump
      <3>2. CASE ~debug_mode
        BY <1>0, <1>6, <2>1, <3>2, RunningCycle, ApartWires DEF flush, jump
      <3>3. QED
        BY <3>1, <3>2
    <2>3. QED
      BY <1>0, <2>2, FlushEmpties
  <1>7. ~debug_mode' => HaltFlow'
    BY <1>0, TickHaltFlow
  <1>8. QED
    BY <1>1, <1>2, <1>3, <1>4, <1>5, <1>6, <1>7 DEF HaltInv

LEMMA Debugged ==
  ASSUME Apart
  PROVE  Spec => []RunInv
  <1>1. Init => HaltInv
    BY DEF Init, HaltInv, HaltFlow, raise
  <1>2. TypeOK /\ RequestFlushed /\ HaltInv /\ [Next]_vars => HaltInv'
    <2> SUFFICES ASSUME TypeOK, RequestFlushed, HaltInv, [Next]_vars PROVE HaltInv'
      OBVIOUS
    <2>1. CASE Tick
      BY <2>1, TickHalt DEF RunInv
    <2>2. CASE Reset
      BY <2>2 DEF Reset, HaltInv, HaltFlow, raise
    <2>3. CASE UNCHANGED vars
      BY <2>3 DEF HaltInv, HaltFlow, Calm, raise, vars, pipe, ctrl, csrs, dbg, pins
    <2>4. QED
      BY <2>1, <2>2, <2>3 DEF Next
  <1>3. QED
    BY <1>1, <1>2, Flushed, PTL DEF Spec, RunInv

\* In a hart that runs, a cycle that takes no entry and executes neither csr
\* nor mret keeps the CSRs.
LEMMA RunningCsrs ==
  ASSUME CSR, ~debug_mode, ~halt, ~trap_occurred, ex_op \notin {"csr", "mret"}
  PROVE  UNCHANGED csrs
  BY DEF CSR, DebuggerAccess, halted, trap_returned, SaveOnHalt, SaveOnTrap,
         RestoreOnReturn

\* After a flush the flow continues where the PC has been sent, or where the
\* pending jump or EX says.
LEMMA FlushedNext ==
  ASSUME Apart, RunInv', NEW inst, NEW target, Clock(inst, target), flush, ~debug_mode'
  PROVE  NextPc' = IF delay_halt' /\ ~step_trap'
                   THEN IF jump_pending' THEN last_jump_addr' ELSE ex_addr'
                   ELSE pc'
  <1>1. clear' /\ ex_op' = "nop" /\ ~raise' /\ ~ready_for_int'
    BY FlushEmpties DEF Clock, RunInv, HaltInv
  <1>2. ~reset_halt'
    BY DEF Clock, DebugCtrl, reset_halt
  <1>3. QED
    BY <1>1, <1>2 DEF NextPc, new_dpc, resume_addr

LEMMA ResumeStep ==
  ASSUME Apart, RunInv, RunInv', NEW inst, NEW target, Clock(inst, target),
         debug_mode, ex_op = "nop", resume
  PROVE  H!Resume
  <1>1. ~debug_mode' /\ ~delay_halt' /\ jump /\ flush
    BY DEF Clock, DebugCtrl, halt, valid_delay_halt, stall_n, halted, flush, jump
  <1>2. UNCHANGED csrs
    BY DEF Clock, CSR, DebuggerAccess, halted, resume
  <1>3. NextPc = dpc /\ NextPc' = pc'
    BY <1>1, FlushedNext DEF NextPc
  <1>4. pc' = dpc
    BY <1>1 DEF Clock, PC_Reg, jump_addr
  <1>5. QED
    BY <1>1, <1>2, <1>3, <1>4 DEF csrs, H!Resume

LEMMA HaltedStep ==
  ASSUME RunInv, NEW inst, NEW target, Clock(inst, target),
         debug_mode, ex_op = "nop", ~resume
  PROVE  \/ DebuggerAccess /\ H!DebuggerWrite
         \/ UNCHANGED H!vars
  <1>1. debug_mode' /\ debug_mode' = debug_mode
    BY DEF Clock, DebugCtrl, halt, RunInv, TypeOK
  <1>2. NextPc = dpc /\ NextPc' = dpc'
    BY <1>1 DEF NextPc
  <1>3. CASE UNCHANGED csrs
    BY <1>1, <1>2, <1>3 DEF csrs, H!vars
  <1>4. CASE DebuggerAccess /\ WriteMachineCsr
    <2>1. dpc' = dpc /\ mcause' = mcause
      BY <1>4 DEF WriteMachineCsr
    <2>2. \/ mstatus_mie' \in BOOLEAN /\ mstatus_mpie' \in BOOLEAN /\ mepc' = mepc
          \/ mepc' \in Addr /\ mstatus_mie' = mstatus_mie /\ mstatus_mpie' = mstatus_mpie
      BY <1>4 DEF WriteMachineCsr, RunInv, TypeOK, CsrTypeOK
    <2>3. QED
      BY <1>1, <1>2, <1>4, <2>1, <2>2 DEF H!DebuggerWrite, H!Addr, Addr
  <1>5. CASE DebuggerAccess /\ WriteDebugCsr
    <2>1. /\ mstatus_mie' = mstatus_mie /\ mstatus_mpie' = mstatus_mpie
          /\ mepc' = mepc /\ mcause' = mcause
      BY <1>5 DEF WriteDebugCsr
    <2>2. dpc' \in Addr /\ mstatus_mie' \in BOOLEAN /\ mstatus_mpie' \in BOOLEAN
      BY <1>5, <2>1 DEF WriteDebugCsr, RunInv, TypeOK, CsrTypeOK
    <2>3. QED
      BY <1>1, <1>2, <1>5, <2>1, <2>2 DEF H!DebuggerWrite, H!Addr, Addr
  <1>6. QED
    BY <1>3, <1>4, <1>5 DEF Clock, CSR, halted

LEMMA HaltStep ==
  ASSUME Apart, RunInv, NEW inst, NEW target, Clock(inst, target), ~debug_mode, halt
  PROVE  ~Retires /\ H!EnterDebug
  <1>1. ex_op = "nop"
    BY DEF RunInv, RequestFlushed, halt, ebreak_debug, reset_halt, raise
  <1>2. SaveOnHalt
    BY <1>1 DEF Clock, CSR, DebuggerAccess, halted
  <1>3. debug_mode' = TRUE
    BY RunningCycle DEF Clock, DebugCtrl, resume, halted
  <1>4. NextPc' = new_dpc
    BY <1>2, <1>3 DEF NextPc, SaveOnHalt
  <1>5. NextPc = new_dpc
    <2>1. CASE delay_halt
      BY <2>1 DEF NextPc
    <2>2. CASE ~delay_halt /\ ebreak_debug
      <3>1. raise /\ ~recover_from_reset /\ ~step_trap /\ ~jump_pending
        BY <2>2 DEF ebreak_debug, raise, RunInv, RequestFlushed, HaltInv, HaltFlow
      <3>2. QED
        BY <2>2, <3>1 DEF NextPc, new_dpc, reset_halt, resume_addr, RunInv, HaltInv
    <2>3. CASE ~delay_halt /\ ~ebreak_debug
      <3>1. reset_halt
        BY <2>3 DEF halt
      <3>2. QED
        BY <1>1, <2>3, <3>1 DEF NextPc, new_dpc, reset_halt, RunInv, RequestFlushed, HaltInv
    <2>4. QED
      BY <2>1, <2>2, <2>3
  <1>6. QED
    BY <1>1, <1>2, <1>3, <1>4, <1>5 DEF Retires, SaveOnHalt, H!EnterDebug, H!Running

LEMMA ExceptionStep ==
  ASSUME Apart, RunInv, RunInv', NEW inst, NEW target, Clock(inst, target),
         ~debug_mode, ~halt, trap_occurred
  PROVE  ~Retires /\ H!Trap(cause)
  <1>1. raise /\ ex_op = "nop" /\ ~recover_from_reset /\ nop_cnt = 0 /\ ~jump_pending
    BY ApartWires DEF RunInv, RequestFlushed, HaltInv, HaltFlow
  <1>2. SaveOnTrap
    BY <1>1 DEF Clock, CSR, DebuggerAccess, halted, SaveOnHalt, trap_returned
  <1>3. debug_mode' = debug_mode /\ ~debug_mode' /\ jump /\ flush /\ ~resume
    BY RunningCycle DEF jump, flush, RunInv, TypeOK
  <1>4. NextPc = resume_addr
    BY <1>1, RunningCycle DEF NextPc, resume_addr, RunInv, HaltInv
  <1>5. delay_halt' => step_trap'
    <2>1. ~haltreq
      BY <1>1, ApartWires
    <2>2. QED
      BY <1>1, <2>1 DEF Clock, DebugCtrl, valid_delay_halt
  <1>6. NextPc' = Vector[cause]
    BY <1>3, <1>5, FlushedNext DEF Clock, PC_Reg, jump_addr
  <1>7. QED
    BY <1>1, <1>2, <1>3, <1>4, <1>6 DEF Retires, SaveOnTrap, H!Trap, H!Running

LEMMA RunningJump ==
  ASSUME Apart, RunInv, RunInv', NEW inst, NEW target \in JumpAddrEx, Clock(inst, target),
         ~debug_mode, ~halt, ~trap_occurred, jump_en_ex
  PROVE  /\ Retires
         /\ \/ ex_op = "jump" /\ H!Jump
            \/ ex_op = "mret" /\ H!Return
  <1>1. stall_n /\ jump /\ flush /\ Retires
    BY RunningMoves DEF RunInv, jump_en_ex, jump, flush, Retires
  <1>2. debug_mode' = debug_mode /\ ~debug_mode' /\ ~resume
    BY RunningCycle DEF RunInv, TypeOK
  <1>3. pc' = target /\ last_jump_addr' = target /\ jump_pending'
    BY <1>1, <1>2 DEF Clock, CoreCtrl, NopCounter, LastJump, PC_Reg, jump_addr
  <1>4. NextPc' = target
    BY <1>1, <1>2, <1>3, FlushedNext
  <1>5. CASE ex_op = "jump"
    <2>1. UNCHANGED csrs
      BY <1>5, RunningCsrs DEF Clock
    <2>2. target \in Targets
      BY <1>5 DEF JumpAddrEx
    <2>3. QED
      BY <1>1, <1>2, <1>4, <1>5, <2>1, <2>2 DEF csrs, H!Jump, H!Running
  <1>6. CASE ex_op = "mret"
    <2>1. target = mepc
      BY <1>6 DEF JumpAddrEx
    <2>2. RestoreOnReturn
      BY <1>6 DEF Clock, CSR, DebuggerAccess, halted, SaveOnHalt, SaveOnTrap,
                  trap_returned
    <2>3. QED
      BY <1>1, <1>2, <1>4, <1>6, <2>1, <2>2 DEF RestoreOnReturn, H!Return, H!Running
  <1>7. QED
    BY <1>1, <1>5, <1>6 DEF jump_en_ex

\* In every other cycle the flow advances by the instruction that retires,
\* also when a halt is requested.
LEMMA RunningFlow ==
  ASSUME Apart, RunInv, RunInv', NEW inst \in Decoded, NEW target, Clock(inst, target),
         ~debug_mode, ~halt, ~trap_occurred, ~jump_en_ex
  PROVE  NextPc' = IF Retires THEN Succ(NextPc) ELSE NextPc
  <1> USE DEF Clock
  <1>1. /\ ~raise /\ ~jump /\ ~debug_mode' /\ ~delay_halt /\ ~ready_for_int
        /\ ~ready_for_int' /\ ~valid_int_req /\ HaltFlow
    BY RunningCycle, ApartWires DEF jump, RunInv, HaltInv
  <1>2. NextPc = IF ex_op # "nop" THEN ex_addr ELSE IF ~clear THEN id_addr ELSE pc
    BY <1>1 DEF NextPc
  <1>3. CASE valid_delay_halt
    <2>1. flush /\ stall_n /\ delay_halt' /\ ~step_trap'
      BY <1>1, <1>3 DEF flush, valid_delay_halt, DebugCtrl
    <2>2. /\ jump_pending' <=> jump_pending
          /\ last_jump_addr' = last_jump_addr /\ ex_addr' = id_addr
      BY <1>1, <2>1 DEF CoreCtrl, NopCounter, LastJump, ID_EX, RunInv, TypeOK
    <2>3. NextPc' = IF jump_pending THEN last_jump_addr ELSE id_addr
      BY <1>1, <2>1, <2>2, FlushedNext
    <2>4. CASE ex_op # "nop"
      BY <1>1, <1>2, <2>1, <2>3, <2>4 DEF HaltFlow, Retires
    <2>5. CASE ex_op = "nop" /\ jump_pending
      <3>1. haltreq
        BY <1>1, <1>3, <2>5 DEF valid_delay_halt, step_debug, flushing_pipeline, HaltFlow
      <3>2. last_jump_addr = IF clear THEN pc ELSE id_addr
        BY <1>1, <2>5, <3>1 DEF HaltFlow, Calm
      <3>3. QED
        BY <1>2, <2>3, <2>5, <3>2 DEF Retires
    <2>6. CASE ex_op = "nop" /\ ~jump_pending
      <3>1. ~recover_from_reset
        BY <1>3 DEF valid_delay_halt, step_debug, halt, reset_halt, RunInv, HaltInv
      <3>2. ~clear
        BY <1>1, <2>6, <3>1 DEF HaltFlow
      <3>3. QED
        BY <1>2, <2>3, <2>6, <3>2 DEF Retires
    <2>7. QED
      BY <2>4, <2>5, <2>6
  <1>4. CASE ~valid_delay_halt
    <2>1. ~flush
      BY <1>1, <1>4 DEF flush
    <2>2. ~delay_halt' /\ ~clear'
      BY <1>4, <2>1 DEF DebugCtrl, IF_ID
    <2>3. NextPc' = IF ex_op' # "nop" \/ raise' THEN ex_addr' ELSE id_addr'
      BY <1>1, <2>2 DEF NextPc
    <2>4. CASE stall_n
      <3>1. ex_addr' = id_addr /\ id_addr' = pc
        BY <2>4 DEF ID_EX, IF_ID
      <3>2. ex_op' # "nop" \/ raise' <=> ~clear
        BY <2>1, <2>4, CoreAssumption
           DEF Decoded, ID_EX, ExceptionPipeLine, raise, Raising, AllInsts
      <3>3. NextPc' = IF clear THEN pc ELSE id_addr
        BY <2>3, <3>1, <3>2
      <3>4. QED
        BY <1>1, <1>2, <2>4, <3>3 DEF HaltFlow, Retires
    <2>5. CASE ~stall_n
      <3>1. ex_op # "nop" /\ ~Retires
        BY <2>5, RunningMoves DEF RunInv, Retires, halted
      <3>2. UNCHANGED <<ex_addr, ex_op>>
        BY <2>1, <2>5 DEF ID_EX
      <3>3. QED
        BY <1>2, <2>3, <3>1, <3>2
    <2>6. QED
      BY <2>4, <2>5
  <1>5. QED
    BY <1>3, <1>4

LEMMA RunningStep ==
  ASSUME Apart, RunInv, RunInv', NEW inst \in Decoded, NEW target, Clock(inst, target),
         ~debug_mode, ~halt, ~trap_occurred, ~jump_en_ex
  PROVE  \/ Retires /\ ex_op \in {"alu", "mem", "wfi"} /\ H!Execute
         \/ Retires /\ ex_op = "csr" /\ H!WriteCsr
         \/ ~Retires /\ UNCHANGED H!vars
  <1>1. debug_mode' = debug_mode /\ ~debug_mode'
    BY RunningCycle DEF RunInv, TypeOK
  <1>2. NextPc' = IF Retires THEN H!Succ(NextPc) ELSE NextPc
    BY RunningFlow DEF H!Succ, Succ
  <1>3. CASE ex_op = "csr"
    <2>1. Retires
      BY <1>3, RunningMoves DEF RunInv, Retires
    <2>2. WriteMachineCsr
      BY <1>3 DEF Clock, CSR, DebuggerAccess, halted
    <2>3. mepc \in Addr
      BY DEF RunInv, TypeOK, CsrTypeOK
    <2>4. H!WriteCsr
      BY <1>1, <1>2, <2>1, <2>2, <2>3
         DEF WriteMachineCsr, H!WriteCsr, H!Running, H!Addr, Addr
    <2>5. QED
      BY <1>3, <2>1, <2>4
  <1>4. CASE ex_op # "csr"
    <2>1. UNCHANGED csrs
      BY <1>4, RunningCsrs DEF Clock, jump_en_ex
    <2>2. CASE Retires
      <3>1. ex_op \in {"alu", "mem", "wfi"}
        BY <1>4, <2>2, CoreAssumption
           DEF Retires, RunInv, TypeOK, AllInsts, Raising, jump_en_ex
      <3>2. H!Execute
        BY <1>1, <1>2, <2>1, <2>2 DEF csrs, H!Execute, H!Running
      <3>3. QED
        BY <2>2, <3>1, <3>2
    <2>3. CASE ~Retires
      BY <1>1, <1>2, <2>1, <2>3 DEF csrs, H!vars
    <2>4. QED
      BY <2>2, <2>3
  <1>5. QED
    BY <1>3, <1>4

\* What a cycle of a hart with a debugger does.
HaltCycle ==
  \/ Reset /\ H!Reset
  \/ ~Retires /\ trap_occurred /\ H!Trap(cause)
  \/ ~Retires /\ halt /\ H!EnterDebug
  \/ ~Retires /\ resume /\ H!Resume
  \/ ~Retires /\ DebuggerAccess /\ H!DebuggerWrite
  \/ /\ ~trap_occurred /\ ~halt /\ ~resume
     /\ \/ ~halted /\ Retires /\ ex_op = "jump" /\ H!Jump
        \/ ~halted /\ Retires /\ ex_op = "mret" /\ H!Return
        \/ ~halted /\ Retires /\ ex_op \in {"alu", "mem", "wfi"} /\ H!Execute
        \/ ~halted /\ Retires /\ ex_op = "csr" /\ H!WriteCsr
        \/ ~Retires /\ UNCHANGED H!vars

LEMMA DebuggedCycle ==
  ASSUME Apart, RunInv, RunInv', Next, ~Slipped
  PROVE  HaltCycle
  <1>1. CASE Reset
    <2>1. NextPc' = 0 /\ debug_mode' = FALSE
      BY <1>1 DEF Reset, NextPc, raise
    <2>2. H!Reset
      BY <1>1, <2>1 DEF Reset, H!Reset
    <2>3. QED
      BY <1>1, <2>2 DEF HaltCycle
  <1>2. CASE Tick
    <2>1. PICK inst \in Decoded, target \in JumpAddrEx : Clock(inst, target)
      BY <1>2 DEF Tick
    <2>2. CASE debug_mode
      <3>1. ex_op = "nop" /\ ~Retires
        BY <2>2 DEF Slipped, halted, Retires
      <3>2. ~trap_occurred /\ ~halt
        BY <2>2 DEF trap_occurred, halt
      <3>3. CASE resume
        BY <2>1, <2>2, <3>1, <3>3, ResumeStep DEF HaltCycle
      <3>4. CASE ~resume
        BY <2>1, <2>2, <3>1, <3>2, <3>4, HaltedStep DEF HaltCycle
      <3>5. QED
        BY <3>3, <3>4
    <2>3. CASE ~debug_mode /\ halt
      BY <2>1, <2>3, HaltStep DEF HaltCycle
    <2>4. CASE ~debug_mode /\ ~halt
      <3>1. ~resume /\ ~halted
        BY <2>1, <2>4, RunningCycle
      <3>2. CASE trap_occurred
        BY <2>1, <2>4, <3>2, ExceptionStep DEF HaltCycle
      <3>3. CASE ~trap_occurred /\ jump_en_ex
        BY <2>1, <2>4, <3>1, <3>3, RunningJump DEF HaltCycle
      <3>4. CASE ~trap_occurred /\ ~jump_en_ex
        BY <2>1, <2>4, <3>1, <3>4, RunningStep DEF HaltCycle
      <3>5. QED
        BY <3>2, <3>3, <3>4
    <2>5. QED
      BY <2>2, <2>3, <2>4
  <1>3. QED
    BY <1>1, <1>2 DEF Next

\* With a debugger that halts, resumes and steps the hart, each cycle does what
\* it is for, and dpc and mepc hold the next instruction (DebugCtrl's step_trap,
\* CoreCtrl's jump_pending); only what an ebreak lets slip into EX does more.
THEOREM EveryCycleDebugged ==
  ASSUME Apart
  PROVE  Spec => OneStepPerCycle
  <1>1. HaltCycle => RightStep
    BY DEF HaltCycle, RightStep
  <1>2. RunInv /\ RunInv' /\ [Next]_vars => [RightStep \/ Slipped]_vars
    BY <1>1, DebuggedCycle
  <1>3. QED
    BY <1>2, Debugged, PTL DEF Spec, OneStepPerCycle

\* With a debugger that leaves dcsr.ebreakm alone, Core implements Hart: halts,
\* steps and resumes are precise.
THEOREM PreciseDebugged ==
  ASSUME Apart, "ebreak" \notin DebugUse
  PROVE  Spec => PreciseHart
  <1>1. Init => H!Init
    <2> SUFFICES ASSUME Init PROVE H!Init
      OBVIOUS
    <2>1. NextPc = 0
      BY DEF Init, NextPc, raise
    <2>2. QED
      BY <2>1, CoreAssumption DEF Init, H!Init, H!Addr, Addr
  <1>2. RunInv /\ RunInv' /\ NoExecutionInDebug /\ [Next]_vars => [H!Next]_(H!vars)
    <2> SUFFICES ASSUME RunInv, RunInv', NoExecutionInDebug, [Next]_vars
                 PROVE  [H!Next]_(H!vars)
      OBVIOUS
    <2>1. CASE Next
      <3>1. HaltCycle
        BY <2>1, DebuggedCycle DEF NoExecutionInDebug, Slipped
      <3>2. trap_occurred => cause \in Causes
        BY CauseType DEF RunInv
      <3>3. QED
        BY <3>1, <3>2 DEF HaltCycle, H!Next
    <2>2. CASE UNCHANGED vars
      <3>1. UNCHANGED NextPc
        BY <2>2 DEF NextPc, new_dpc, reset_halt, resume_addr, raise, vars, pipe,
                    ctrl, csrs, dbg, pins
      <3>2. QED
        BY <2>2, <3>1 DEF vars, csrs, dbg, H!vars
    <2>3. QED
      BY <2>1, <2>2
  <1>3. QED
    BY <1>1, <1>2, Debugged, NothingExecutesHalted, PTL DEF Spec, PreciseHart, H!Spec

-----------------------------------------------------------------------------
(***************************************************************************)
(* A single step.  A debugger that never asks for a halt of a running hart *)
(* leaves the step as the only request: from the resume on, the two cycles *)
(* of the refill bring one instruction to EX or one exception to the       *)
(* commit point, and the request comes in the cycle in which that one      *)
(* takes effect.                                                           *)
(***************************************************************************)
StepInv ==
  /\ stepped \in 0 .. 2
  /\ delay_halt => ~debug_mode
  /\ haltreq => recover_from_reset \/ debug_mode
  /\ recover_from_reset => ~debug_mode /\ ~dcsr_step
  /\ ready_for_int => ~dcsr_step
  /\ dcsr_step /\ ~debug_mode =>
       IF delay_halt THEN stepped = 1
       ELSE /\ stepped = 0
            /\ nop_cnt = 3 => clear /\ ex_op = "nop" /\ ~raise
            /\ nop_cnt = 2 => ~clear /\ ex_op = "nop" /\ ~raise
            /\ nop_cnt = 0 => ex_op # "nop" \/ raise

\* Software does not change dcsr, and a halt neither.
LEMMA RunningKeepsDcsr ==
  ASSUME CSR, ~debug_mode
  PROVE  dcsr_step' = dcsr_step
  BY DEF CSR, DebuggerAccess, halted, WriteMachineCsr, SaveOnHalt, SaveOnTrap,
         RestoreOnReturn, csrs

LEMMA TickStep ==
  ASSUME "haltreq" \notin DebugUse, TypeOK, RequestFlushed, StepInv, Tick, StepNext
  PROVE  StepInv'
  <1>0. PICK inst \in Decoded, target \in JumpAddrEx : Clock(inst, target)
    BY DEF Tick
  <1> USE DEF Clock
  <1>1. stepped' \in 0 .. 2
    BY DEF StepInv, StepNext
  <1>2. delay_halt' => ~debug_mode'
    BY <1>0 DEF DebugCtrl, valid_delay_halt, stall_n, halted, TypeOK
  <1>3. haltreq' => debug_mode'
    BY <1>0, HaltreqRests DEF StepInv
  <1>4. ~recover_from_reset'
    BY <1>0 DEF DebugCtrl
  <1>5. ready_for_int' => ~dcsr_step'
    <2>1. CASE debug_mode
      BY <1>0, <2>1 DEF ExceptionCtrl, stall_n, halted
    <2>2. CASE ~debug_mode
      BY <1>0, <2>2, RunningKeepsDcsr DEF ExceptionCtrl, valid_int_req, StepInv
    <2>3. QED
      BY <2>1, <2>2
  <1>6. ASSUME dcsr_step', ~debug_mode'
        PROVE  IF delay_halt' THEN stepped' = 1
               ELSE /\ stepped' = 0
                    /\ nop_cnt' = 3 => clear' /\ ex_op' = "nop" /\ ~raise'
                    /\ nop_cnt' = 2 => ~clear' /\ ex_op' = "nop" /\ ~raise'
                    /\ nop_cnt' = 0 => ex_op' # "nop" \/ raise'
    <2>1. CASE debug_mode
      <3>1. resume /\ flush
        BY <1>0, <1>6, <2>1 DEF DebugCtrl, halt, flush, jump
      <3>2. clear' /\ ex_op' = "nop" /\ ~raise' /\ nop_cnt' = 3
        BY <1>0, <3>1, FlushEmpties DEF CoreCtrl, NopCounter
      <3>3. ~delay_halt' /\ stepped' = 0
        BY <1>0, <2>1, <3>1 DEF DebugCtrl, valid_delay_halt, stall_n, halted, StepNext
      <3>4. QED
        BY <3>2, <3>3
    <2>2. CASE ~debug_mode
      <3>1. /\ dcsr_step /\ ~halt /\ ~resume /\ ~delay_halt /\ ~ready_for_int
            /\ ~recover_from_reset /\ ~haltreq
        BY <1>0, <1>6, <2>2, RunningKeepsDcsr
           DEF DebugCtrl, halt, resume, halted, StepInv
      <3>2. /\ stepped = 0
            /\ nop_cnt = 3 => clear /\ ex_op = "nop" /\ ~raise
            /\ nop_cnt = 2 => ~clear /\ ex_op = "nop" /\ ~raise
            /\ nop_cnt = 0 => ex_op # "nop" \/ raise
        BY <2>2, <3>1 DEF StepInv
      <3>3. ~valid_int_req /\ (trap_occurred <=> raise)
        BY <2>2, <3>1 DEF valid_int_req, trap_occurred
      <3>4. stepped' = IF Retires \/ raise THEN 1 ELSE 0
        BY <3>1, <3>2, <3>3 DEF StepNext
      <3>5. CASE nop_cnt \in {2, 3}
        <4>1. ex_op = "nop" /\ ~raise /\ stall_n
          BY <2>2, <3>2, <3>5, RunningMoves
        <4>2. ~flush /\ ~valid_delay_halt /\ ~delay_halt'
          BY <1>0, <3>1, <3>3, <3>5, <4>1
             DEF flush, jump, jump_en_ex, valid_delay_halt, step_debug,
                 flushing_pipeline, DebugCtrl
        <4>3. stepped' = 0
          BY <3>4, <4>1 DEF Retires
        <4>4. ~clear' /\ nop_cnt' = IF nop_cnt = 3 THEN 2 ELSE 0
          BY <1>0, <3>5, <4>2 DEF IF_ID, CoreCtrl, NopCounter, flushing_pipeline
        <4>5. CASE nop_cnt = 3
          <5>1. inst = "nop"
            BY <1>0, <3>2, <4>5 DEF Decoded
          <5>2. ex_op' = "nop" /\ ~raise'
            BY <1>0, <4>1, <4>2, <5>1 DEF ID_EX, ExceptionPipeLine, raise, Raising
          <5>3. QED
            BY <4>2, <4>3, <4>4, <4>5, <5>2
        <4>6. CASE nop_cnt = 2
          <5>1. inst \in AllInsts
            BY <1>0, <3>2, <4>6, CoreAssumption DEF Decoded
          <5>2. ex_op' # "nop" \/ raise'
            BY <1>0, <4>1, <4>2, <5>1
               DEF ID_EX, ExceptionPipeLine, raise, Raising, AllInsts
          <5>3. QED
            BY <4>2, <4>3, <4>4, <4>6, <5>2
        <4>7. QED
          BY <3>5, <4>5, <4>6
      <3>6. CASE nop_cnt = 0
        <4>1. step_debug /\ (ex_op # "nop" \/ raise)
          BY <3>1, <3>2, <3>6 DEF step_debug, flushing_pipeline
        <4>2. CASE stall_n
          <5>1. delay_halt'
            BY <1>0, <3>1, <4>1, <4>2 DEF DebugCtrl, valid_delay_halt
          <5>2. stepped' = 1
            BY <3>4, <4>1, <4>2 DEF Retires
          <5>3. QED
            BY <5>1, <5>2
        <4>3. CASE ~stall_n
          <5>1. ex_op # "nop" /\ ~raise
            BY <2>2, <4>3, RunningMoves DEF RequestFlushed
          <5>2. ex_op \in {"mem", "wfi"}
            BY <2>2, <4>3 DEF RequestFlushed, stall_n, waiting_int, wfi, halted
          <5>3. ~flush
            BY <3>3, <4>3, <5>1, <5>2, <3>1
               DEF flush, jump, jump_en_ex, valid_delay_halt
          <5>4. nop_cnt' = 0
            BY <1>0, <3>6, <5>3 DEF CoreCtrl, NopCounter, flushing_pipeline
          <5>5. ex_op' = ex_op
            BY <1>0, <4>3, <5>3 DEF ID_EX
          <5>6. ~delay_halt'
            BY <1>0, <4>3 DEF DebugCtrl, valid_delay_halt
          <5>7. stepped' = 0
            BY <2>2, <3>4, <4>3, <5>1 DEF Retires, halted
          <5>8. QED
            BY <5>1, <5>4, <5>5, <5>6, <5>7
        <4>4. QED
          BY <4>2, <4>3
      <3>7. QED
        BY <3>5, <3>6 DEF TypeOK
    <2>3. QED
      BY <2>1, <2>2
  <1>7. QED
    BY <1>1, <1>2, <1>3, <1>4, <1>5, <1>6 DEF StepInv

LEMMA OneEvent ==
  ASSUME RequestFlushed, StepInv, Next, ~debug_mode, debug_mode',
         dcsr_cause' = "step"
  PROVE  stepped = 1
  <1>1. PICK inst, target : Clock(inst, target)
    BY DEF Next, Tick, Reset
  <1>2. halt
    BY <1>1 DEF Clock, DebugCtrl
  <1>3. ex_op = "nop"
    BY <1>2 DEF halt, ebreak_debug, reset_halt, raise, RequestFlushed
  <1>4. new_cause = "step"
    BY <1>1, <1>2, <1>3 DEF Clock, CSR, DebuggerAccess, halted, SaveOnHalt
  <1>5. dcsr_step /\ delay_halt
    BY <1>2, <1>4 DEF new_cause, halt
  <1>6. QED
    BY <1>5 DEF StepInv

\* Every single step executes one instruction, or enters the handler of the
\* trap that it raises, for every program, interrupt and handler: the pipeline
\* refills after the resume (CoreCtrl's nop_cnt) and step_debug waits for it.
THEOREM SingleStep ==
  ASSUME "haltreq" \notin DebugUse
  PROVE  StepSpec => StepIsOne
  <1>1. StepInit => StepInv
    BY DEF StepInit, Init, StepInv
  <1>2. TypeOK /\ RequestFlushed /\ StepInv /\ [StepNext]_<<vars, stepped>> => StepInv'
    <2> SUFFICES ASSUME TypeOK, RequestFlushed, StepInv, [StepNext]_<<vars, stepped>>
                 PROVE  StepInv'
      OBVIOUS
    <2>1. CASE Tick /\ StepNext
      BY <2>1, TickStep
    <2>2. CASE Reset /\ StepNext
      BY <2>2 DEF Reset, StepNext, StepInv
    <2>3. CASE UNCHANGED <<vars, stepped>>
      BY <2>3 DEF StepInv, raise, vars, pipe, ctrl, csrs, dbg, pins
    <2>4. QED
      BY <2>1, <2>2, <2>3 DEF StepNext, Next
  <1>3. StepSpec => Spec
    <2>1. StepInit => Init
      BY DEF StepInit
    <2>2. [StepNext]_<<vars, stepped>> => [Next]_vars
      BY DEF StepNext
    <2>3. QED
      BY <2>1, <2>2, PTL DEF StepSpec, Spec
  <1>4. RequestFlushed /\ StepInv /\ [Next]_vars
          => [~debug_mode /\ debug_mode' /\ dcsr_cause' = "step" => stepped = 1]_vars
    BY OneEvent
  <1>5. [StepNext]_<<vars, stepped>> => [Next]_vars
    BY DEF StepNext
  <1>6. QED
    BY <1>1, <1>2, <1>3, <1>4, <1>5, Flushed, PTL DEF StepSpec, StepIsOne
=============================================================================
