----------------------------- MODULE ResetProofs -----------------------------
(***************************************************************************)
(* The safety of SystemReset for every length of the command string and     *)
(* every lock time, with the lock lost at any time, in reset too.           *)
(***************************************************************************)
EXTENDS SystemReset, TLAPS

-----------------------------------------------------------------------------
(***************************************************************************)
(* The inductive invariant.                                                *)
(***************************************************************************)
\* Out of lock the controller is in PENDING; elsewhere, and in reset, it has the
\* bus.  A reset has ended the access of its master.
OwnsBus ==
  /\ ~pll_lock => reset_state = "PENDING"
  /\ reset_state # "PENDING" => wb_override
  /\ reset_state = "RELEASE" => reset
  /\ reset => wb_override

Ended == reset \/ reset_state \in {"ASSERT_RESET", "RELEASE"} => ~reset_cyc

\* From the second command on, the command on the bus is the one of ptr and all
\* those before it have been performed.  At the first one this fails: if the
\* lock was lost during an access, its command is still there.
StringSent ==
  /\ reset_state = "COMMAND" /\ ptr > 0 /\ reset_cyc => reset_cmd = ptr
  /\ reset_state = "COMMAND" /\ ptr > 1 => closed = ptr - 1
  /\ reset_state = "ASSERT_RESET" => closed = LastPtr

\* The boot controller in and just after reset.
BootInReset ==
  /\ reset => update_map /\ ~boot_req
  /\ update_map /\ ~reset => ~boot_req /\ ~into_ram_mode /\ ~into_rom_mode

IInv == TypeOK /\ OwnsBus /\ Ended /\ StringSent /\ BootInReset /\ ModeRemembered

-----------------------------------------------------------------------------
LEMMA InitIInv == Init => IInv
<1> SUFFICES ASSUME Init PROVE IInv
  OBVIOUS
<1>1. TypeOK
  <2>1. ResetTypeOK
    <3>1. pll_lock_sync \in BOOLEAN \X BOOLEAN
      BY DEF Init, ResetInit
    <3>2. 0 \in 0 .. LastPtr /\ 0 \in 0 .. CNT
      BY ResetAssumption
    <3> QED
      BY <3>1, <3>2, Zenon DEF Init, ResetInit, ResetTypeOK
  <2>2. 0 \in 0 .. Lost /\ 0 \in 0 .. LastPtr
    BY ResetAssumption, SystemAssumption DEF Lost
  <2> QED
    BY <2>1, <2>2 DEF Init, ResetInit, TypeOK
<1>2. OwnsBus /\ Ended
  BY DEF Init, ResetInit, OwnsBus, Ended
<1>3. StringSent /\ BootInReset /\ ModeRemembered
  BY DEF Init, ResetInit, StringSent, BootInReset, ModeRemembered
<1> QED
  BY <1>1, <1>2, <1>3 DEF IInv

\* The watch on the PLL changes nothing that the invariant is about.
LEMMA WatchIInv == ASSUME IInv, IndependentEdge \/ Lock PROVE IInv'
<1>1. UNCHANGED <<reset_vars, ext_req, boot_vars, bus_vars>>
  BY DEF IndependentEdge, Lock
<1>2. pll_lock_sync' \in BOOLEAN \X BOOLEAN /\ pll_reseting' \in BOOLEAN
      /\ lock_counter' \in 0 .. CNT /\ pll_lock' \in BOOLEAN
      /\ pll_time' \in 0 .. Lost
  <2>1. CASE IndependentEdge
    <3>1. PllWatch(pll_lock) /\ UNCHANGED pll_lock
      BY <2>1 DEF IndependentEdge
    <3>2. pll_lock_sync' \in BOOLEAN \X BOOLEAN
      BY <3>1 DEF IInv, TypeOK, ResetTypeOK, PllWatch
    <3>3. pll_reseting' \in BOOLEAN
      BY <3>1 DEF IInv, TypeOK, ResetTypeOK, PllWatch
    <3>4. lock_counter' \in 0 .. CNT
      BY <3>1, ResetAssumption DEF IInv, TypeOK, ResetTypeOK, PllWatch, Expired
    <3>5. pll_time' \in 0 .. Lost
      <4>1. 0 \in 0 .. Lost /\ pll_time \in 0 .. Lost
            /\ (pll_time # Lost => pll_time + 1 \in 0 .. Lost)
        BY ResetAssumption, SystemAssumption DEF IInv, TypeOK, Lost
      <4> QED
        BY <2>1, <4>1 DEF IndependentEdge
    <3> QED
      BY <3>1, <3>2, <3>3, <3>4, <3>5 DEF IInv, TypeOK
  <2>2. CASE Lock
    BY <2>2, SystemAssumption
    DEF IInv, TypeOK, ResetTypeOK, Lock, watch_vars, Lost
  <2> QED
    BY <2>1, <2>2
<1>3. TypeOK'
  BY <1>1, <1>2 DEF IInv, TypeOK, ResetTypeOK, reset_vars, state_vars, boot_vars,
    bus_vars, Lost
<1>4. OwnsBus'
  BY <1>1 DEF IInv, OwnsBus, IndependentEdge, Lock, reset_vars, state_vars
<1>6. Ended'
  BY <1>1 DEF IInv, Ended, reset_vars, state_vars
<1>5. (StringSent /\ BootInReset /\ ModeRemembered)'
  BY <1>1 DEF IInv, StringSent, BootInReset, ModeRemembered,
    reset_vars, state_vars, boot_vars, bus_vars
<1> QED
  BY <1>3, <1>4, <1>5, <1>6 DEF IInv

LEMMA LossIInv == ASSUME IInv, LoseLock PROVE IInv'
<1>1. TypeOK'
  <2>1. ResetTypeOK'
    BY DEF IInv, TypeOK, ResetTypeOK, LoseLock, LockLost, watch_vars
  <2>2. Lost \in 0 .. Lost
    BY ResetAssumption, SystemAssumption DEF Lost
  <2>3. pll_time' \in 0 .. Lost
    BY <2>2 DEF LoseLock, Lost
  <2>4. pll_lock' \in BOOLEAN
    BY DEF LoseLock
  <2> QED
    BY <2>1, <2>3, <2>4 DEF IInv, TypeOK, LoseLock, boot_vars, bus_vars, Lost
<1>2. OwnsBus' /\ Ended'
  BY DEF IInv, OwnsBus, Ended, LoseLock, LockLost
<1>4. StringSent'
  BY DEF StringSent, LoseLock, LockLost
<1>3. (BootInReset /\ ModeRemembered)'
  BY DEF IInv, BootInReset, ModeRemembered, LoseLock, LockLost, boot_vars
<1> QED
  BY <1>1, <1>2, <1>3, <1>4 DEF IInv

-----------------------------------------------------------------------------
(***************************************************************************)
(* An edge of clk, one lemma per group of registers.                       *)
(***************************************************************************)
LEMMA MasterStep ==
  ASSUME IInv, NEW wb_ack \in BOOLEAN, Master(wb_ack)
  PROVE  /\ reset_cyc' \in BOOLEAN /\ reset_cmd' \in 0 .. LastPtr
         /\ reset => ~reset_cyc'
         /\ reset_cyc' => \/ reset_cyc /\ ~wb_ack /\ reset_cmd' = reset_cmd
                          \/ ~reset_cyc /\ perform /\ reset_cmd' = ptr
  BY DEF IInv, TypeOK, ResetTypeOK, Master, perform

LEMMA StateTypes ==
  ASSUME IInv, NEW req \in BOOLEAN, NEW idle \in BOOLEAN, NEW wb_ack \in BOOLEAN,
         Master(wb_ack), ResetClock(pll_lock, req, idle, wb_ack)
  PROVE  /\ reset_state' \in {"PENDING", "COMMAND", "ASSERT_RESET", "RELEASE"}
         /\ wb_override' \in BOOLEAN /\ reset_pending' \in BOOLEAN
         /\ reset' \in BOOLEAN /\ ptr' \in 0 .. LastPtr
<1>1. CASE Pending(req, idle)
  <2>1. reset_pending' \in BOOLEAN
    BY <1>1 DEF IInv, TypeOK, ResetTypeOK, Pending
  <2>2. ptr' \in 0 .. LastPtr
    BY <1>1, ResetAssumption DEF IInv, TypeOK, ResetTypeOK, Pending
  <2>3. /\ reset_state' \in {"PENDING", "COMMAND", "ASSERT_RESET", "RELEASE"}
        /\ wb_override' \in BOOLEAN /\ reset' \in BOOLEAN
    BY <1>1 DEF IInv, TypeOK, ResetTypeOK, Pending
  <2> QED
    BY <2>1, <2>2, <2>3
<1>2. CASE Command(wb_ack /\ reset_cyc)
  BY <1>2, ResetAssumption DEF IInv, TypeOK, ResetTypeOK, Command
<1>3. CASE AssertReset
  BY <1>3 DEF IInv, TypeOK, ResetTypeOK, AssertReset
<1>4. CASE Release(req)
  BY <1>4 DEF IInv, TypeOK, ResetTypeOK, Release, state_vars
<1>5. CASE UNCHANGED <<state_vars, ptr, reset>>
  BY <1>5 DEF IInv, TypeOK, ResetTypeOK, state_vars
<1> QED
  BY <1>1, <1>2, <1>3, <1>4, <1>5 DEF ResetClock

LEMMA ClkTypes ==
  ASSUME IInv, NEW ext \in BOOLEAN, NEW access \in BOOLEAN, NEW wb_ack \in BOOLEAN,
         NEW mode \in {"none", "ram", "rom"}, ClkStep(ext, mode, access, wb_ack)
  PROVE  TypeOK'
<1>1. /\ reset_req \in BOOLEAN /\ wb_idle \in BOOLEAN
      /\ (wb_ack /\ wb_override) \in BOOLEAN
  BY DEF IInv, TypeOK, ResetTypeOK, reset_req, wb_idle
<1>2. Master(wb_ack /\ wb_override)
  BY DEF ClkStep, ResetClock
<1>3. ResetClock(pll_lock, reset_req, wb_idle, wb_ack /\ wb_override)
  BY DEF ClkStep
<1>4. reset_cyc' \in BOOLEAN /\ reset_cmd' \in 0 .. LastPtr
  BY <1>1, <1>2, MasterStep
<1>5. /\ reset_state' \in {"PENDING", "COMMAND", "ASSERT_RESET", "RELEASE"}
      /\ wb_override' \in BOOLEAN /\ reset_pending' \in BOOLEAN
      /\ reset' \in BOOLEAN /\ ptr' \in 0 .. LastPtr
  BY <1>1, <1>2, <1>3, StateTypes
<1>6. ResetTypeOK' /\ pll_lock' \in BOOLEAN /\ pll_time' \in 0 .. Lost
  BY <1>4, <1>5 DEF IInv, TypeOK, ResetTypeOK, ClkStep, watch_vars, Lost
<1>7. /\ boot_req' \in BOOLEAN /\ update_map' \in BOOLEAN
      /\ into_ram_mode' \in BOOLEAN /\ into_rom_mode' \in BOOLEAN
      /\ mapped_to_ram' \in BOOLEAN
  BY DEF IInv, TypeOK, ClkStep, Bootstrap
<1>8. efb_cyc' \in BOOLEAN /\ wb_delay' \in BOOLEAN /\ ext_req' \in BOOLEAN
  BY DEF ClkStep, Adapter
<1>9. closed' \in 0 .. LastPtr
  BY ResetAssumption DEF IInv, TypeOK, ResetTypeOK, ClkStep, Performed
<1> QED
  BY <1>6, <1>7, <1>8, <1>9 DEF TypeOK, Lost

LEMMA ClkOwns ==
  ASSUME IInv, NEW ext \in BOOLEAN, NEW access \in BOOLEAN, NEW wb_ack \in BOOLEAN,
         NEW mode \in {"none", "ram", "rom"}, ClkStep(ext, mode, access, wb_ack)
  PROVE  OwnsBus' /\ Ended'
<1> DEFINE ack == wb_ack /\ wb_override
<1>1. Master(ack) /\ UNCHANGED pll_lock
  BY DEF ClkStep, ResetClock
<1>2. CASE ~pll_lock
  <2>1. OwnsBus'
    BY <1>1, <1>2 DEF IInv, OwnsBus, ClkStep, ResetClock, state_vars
  <2>2. Ended'
    BY <1>1, <1>2 DEF IInv, OwnsBus, Ended, ClkStep, ResetClock, state_vars, Master, perform
  <2> QED
    BY <2>1, <2>2
<1>3. CASE pll_lock /\ Pending(reset_req, wb_idle)
  <2>1. OwnsBus'
    BY <1>1, <1>3 DEF IInv, OwnsBus, Pending
  <2>2. Ended'
    BY <1>1, <1>3 DEF IInv, OwnsBus, Ended, Pending, Master, perform
  <2> QED
    BY <2>1, <2>2
<1>4. CASE Command(ack /\ reset_cyc)
  <2>1. OwnsBus'
    BY <1>1, <1>4 DEF IInv, OwnsBus, Command
  <2>2. Ended'
    BY <1>1, <1>4 DEF IInv, OwnsBus, Ended, Command, Master, perform
  <2> QED
    BY <2>1, <2>2
<1>5. CASE AssertReset
  <2>1. OwnsBus'
    BY <1>1, <1>5 DEF IInv, OwnsBus, AssertReset
  <2>2. Ended'
    BY <1>1, <1>5 DEF IInv, OwnsBus, Ended, AssertReset, Master, perform
  <2> QED
    BY <2>1, <2>2
<1>6. CASE Release(reset_req)
  <2>1. OwnsBus'
    BY <1>1, <1>6 DEF IInv, OwnsBus, Release, state_vars
  <2>2. Ended'
    BY <1>1, <1>6 DEF IInv, OwnsBus, Ended, Release, state_vars, Master, perform
  <2> QED
    BY <2>1, <2>2
<1> QED
  BY <1>2, <1>3, <1>4, <1>5, <1>6 DEF ClkStep, ResetClock

\* The string: each answer moves ptr and the count of the slave on together.
LEMMA ClkString ==
  ASSUME IInv, NEW ext \in BOOLEAN, NEW access \in BOOLEAN, NEW wb_ack \in BOOLEAN,
         NEW mode \in {"none", "ram", "rom"}, ClkStep(ext, mode, access, wb_ack)
  PROVE  StringSent'
<1> DEFINE ack == wb_ack /\ wb_override
<1>1. Master(ack) /\ Performed(wb_ack) /\ (ack => reset_cyc)
  BY DEF ClkStep, ResetClock, wb_cyc
<1>2. ptr \in Nat /\ closed \in Nat /\ reset_cmd \in Nat /\ LastPtr \in Nat \ {0}
      /\ ptr <= LastPtr
  BY ResetAssumption DEF IInv, TypeOK, ResetTypeOK
<1>3. CASE ~pll_lock
  BY <1>3 DEF IInv, OwnsBus, StringSent, ClkStep, ResetClock, state_vars
<1>4. CASE Pending(reset_req, wb_idle)
  BY <1>2, <1>4 DEF Pending, StringSent
<1>5. CASE Command(ack /\ reset_cyc)
  <2>1. reset_state = "COMMAND" /\ wb_override /\ (ack <=> wb_ack)
    BY <1>5 DEF IInv, OwnsBus, Command
  <2>2. CASE ~ack
    <3>1. UNCHANGED <<reset_state, ptr, closed>>
      BY <1>1, <1>5, <2>1, <2>2 DEF Command, Performed
    <3>2. reset_cyc' => reset_cmd' = IF reset_cyc THEN reset_cmd ELSE ptr
      BY <1>1, <2>1 DEF Master, perform
    <3> QED
      BY <1>2, <2>1, <3>1, <3>2 DEF IInv, StringSent
  <2>3. CASE ack
    <3>1. reset_cyc /\ ~reset_cyc' /\ closed' = IF reset_cmd = closed + 1
                                               THEN closed + 1
                                               ELSE IF reset_cmd = 1 THEN 1 ELSE 0
      BY <1>1, <2>1, <2>3 DEF Master, Performed
    <3>2. ptr > 0 => closed' = ptr
      BY <1>2, <2>1, <3>1 DEF IInv, StringSent
    <3>3. CASE ptr = LastPtr
      <4>1. reset_state' = "ASSERT_RESET"
        BY <1>5, <2>3, <3>1, <3>3 DEF Command
      <4> QED
        BY <1>2, <3>2, <3>3, <4>1 DEF StringSent
    <3>4. CASE ptr # LastPtr
      <4>1. reset_state' = "COMMAND" /\ ptr' = ptr + 1
        BY <1>5, <2>1, <2>3, <3>1, <3>4 DEF Command
      <4> QED
        BY <1>2, <3>1, <3>2, <4>1 DEF StringSent
    <3> QED
      BY <3>3, <3>4
  <2> QED
    BY <2>2, <2>3
<1>6. CASE AssertReset
  BY <1>6 DEF AssertReset, StringSent
<1>7. CASE Release(reset_req)
  BY <1>7 DEF Release, StringSent, state_vars
<1> QED
  BY <1>3, <1>4, <1>5, <1>6, <1>7 DEF ClkStep, ResetClock

LEMMA ResetKinds ==
  ASSUME IInv, NEW req, NEW idle, NEW wb_ack, ResetClock(pll_lock, req, idle, wb_ack)
  PROVE  \/ reset' = reset
         \/ reset_state = "ASSERT_RESET" /\ reset'
         \/ reset_state = "RELEASE" /\ reset /\ ~reset' /\ ~wb_override'
  BY DEF IInv, OwnsBus, ResetClock, Pending, Command, AssertReset, Release, state_vars

LEMMA ClkBoot ==
  ASSUME IInv, NEW ext \in BOOLEAN, NEW access \in BOOLEAN, NEW wb_ack \in BOOLEAN,
         NEW mode \in {"none", "ram", "rom"}, ClkStep(ext, mode, access, wb_ack)
  PROVE  BootInReset' /\ ModeRemembered'
<1>1. Bootstrap(mode) /\ (mode # "none" => ~reset /\ ~update_map)
  BY DEF ClkStep
<1>2. BootInReset'
  BY <1>1 DEF IInv, TypeOK, ResetTypeOK, BootInReset, ModeRemembered, Bootstrap
<1>3. ModeRemembered'
  BY <1>1 DEF IInv, TypeOK, ResetTypeOK, BootInReset, ModeRemembered, Bootstrap
<1> QED
  BY <1>2, <1>3

-----------------------------------------------------------------------------
(***************************************************************************)
(* The theorems.                                                           *)
(***************************************************************************)
LEMMA StepIInv == IInv /\ [Next]_vars => IInv'
<1> SUFFICES ASSUME IInv, [Next]_vars PROVE IInv'
  OBVIOUS
<1>1. CASE IndependentEdge \/ Lock
  BY <1>1, WatchIInv
<1>2. CASE LoseLock
  BY <1>2, LossIInv
<1>3. CASE ClkEdge
  <2>1. PICK ext, access, wb_ack \in BOOLEAN, mode \in {"none", "ram", "rom"} :
          ClkStep(ext, mode, access, wb_ack)
    BY <1>3 DEF ClkEdge
  <2> QED
    BY <2>1, ClkTypes, ClkOwns, ClkString, ClkBoot DEF IInv
<1>4. CASE UNCHANGED vars
  BY <1>4 DEF vars, watch_vars, reset_vars, state_vars, boot_vars, bus_vars, IInv,
    TypeOK, ResetTypeOK, OwnsBus, Ended, StringSent, BootInReset, ModeRemembered, Lost
<1> QED
  BY <1>1, <1>2, <1>3, <1>4 DEF Next

LEMMA Invariance == Spec => []IInv
  BY InitIInv, StepIInv, PTL DEF Spec

\* Every register keeps to its values.
THEOREM ResetTypes == Spec => []TypeOK
<1>1. IInv => TypeOK
  BY DEF IInv
<1> QED
  BY <1>1, Invariance, PTL

\* A switch of the boot mode is never forgotten.
THEOREM ModeKept == Spec => []ModeRemembered
<1>1. IInv => ModeRemembered
  BY DEF IInv
<1> QED
  BY <1>1, Invariance, PTL

\* The system is never reset before the flash interface has been closed: all
\* commands of the string but the first, the interface's own reset, have been
\* performed one after the other.
THEOREM FlashIsClosed == Spec => FlashClosed
<1>1. IInv /\ [Next]_vars => [~reset /\ reset' => closed = LastPtr]_vars
  <2> SUFFICES ASSUME IInv, Next, ~reset, reset' PROVE closed = LastPtr
    OBVIOUS
  <2>1. CASE IndependentEdge \/ Lock \/ LoseLock
    BY <2>1 DEF IndependentEdge, Lock, LoseLock, LockLost, reset_vars
  <2>2. CASE ClkEdge
    <3>1. PICK ext, access, wb_ack \in BOOLEAN, mode \in {"none", "ram", "rom"} :
            ClkStep(ext, mode, access, wb_ack)
      BY <2>2 DEF ClkEdge
    <3>2. reset_state = "ASSERT_RESET"
      BY <3>1, ResetKinds DEF ClkStep
    <3> QED
      BY <3>2 DEF IInv, StringSent
  <2> QED
    BY <2>1, <2>2 DEF Next
<1> QED
  BY <1>1, Invariance, PTL DEF Spec, FlashClosed

\* No access is cut by the override, none is left over when it ends.
THEOREM Handover == Spec => BusHandover
<1> DEFINE Kept == /\ efb_cyc /\ ~wb_override /\ pll_lock' =>
                        wb_delay' \/ (efb_cyc' /\ ~wb_override')
                   /\ wb_override /\ ~wb_override' => ~efb_cyc' /\ ~reset_cyc'
<1>1. IInv /\ [Next]_vars => [Kept]_vars
  <2> SUFFICES ASSUME IInv, Next PROVE Kept
    OBVIOUS
  <2>1. CASE IndependentEdge \/ Lock \/ LoseLock
    BY <2>1 DEF IndependentEdge, Lock, LoseLock, LockLost, reset_vars, state_vars, bus_vars
  <2>2. CASE ClkEdge
    <3>1. PICK ext, access, wb_ack \in BOOLEAN, mode \in {"none", "ram", "rom"} :
            ClkStep(ext, mode, access, wb_ack)
      BY <2>2 DEF ClkEdge
    <3>2. wb_override' = wb_override
          \/ (wb_override' /\ ~efb_cyc) \/ (wb_override /\ reset /\ ~wb_override')
      BY <3>1 DEF IInv, TypeOK, ResetTypeOK, OwnsBus, ClkStep, ResetClock, Pending,
        Command, AssertReset, Release, state_vars, wb_idle
    <3>3. efb_cyc /\ ~wb_override => wb_delay' \/ (efb_cyc' /\ ~wb_override')
      BY <3>1, <3>2 DEF IInv, TypeOK, OwnsBus, ClkStep, Adapter
    <3>4. wb_override /\ ~wb_override' => ~efb_cyc' /\ ~reset_cyc'
      BY <3>1, <3>2 DEF ClkStep, ResetClock, Adapter, Master
    <3> QED
      BY <3>3, <3>4
  <2> QED
    BY <2>1, <2>2 DEF Next
<1> QED
  BY <1>1, Invariance, PTL DEF Spec, BusHandover

\* The instruction memory is switched in reset only.
THEOREM MapInReset == Spec => MapSwitchedInReset
<1>1. IInv /\ [Next]_vars => [mapped_to_ram' # mapped_to_ram => reset]_vars
  <2> SUFFICES ASSUME IInv, Next, mapped_to_ram' # mapped_to_ram PROVE reset
    OBVIOUS
  <2>1. CASE IndependentEdge \/ Lock \/ LoseLock
    BY <2>1 DEF IndependentEdge, Lock, LoseLock, boot_vars
  <2>2. CASE ClkEdge
    BY <2>2 DEF ClkEdge, ClkStep, Bootstrap, IInv, BootInReset
  <2> QED
    BY <2>1, <2>2 DEF Next
<1> QED
  BY <1>1, Invariance, PTL DEF Spec, MapSwitchedInReset
=============================================================================
