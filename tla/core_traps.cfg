SPECIFICATION Spec
CONSTANTS
  N = 4
  Insts = {"alu", "mem", "jump", "wfi", "mret", "csr", "ecall"}
  Targets = {1}
  Ints = {"timer"}
  Vector <- MCVector
  PowerUp = {2}
  DebugUse = {}
  DmiGap = 4
  CanReset = TRUE
INVARIANTS EntryFindsBubble FlowInv
PROPERTIES PreciseHart OneStepPerCycle AccessCompletes
