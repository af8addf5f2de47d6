SPECIFICATION Spec
CONSTANTS
  N = 4
  Insts = {"alu", "mem", "ebreak"}
  Targets = {1}
  Ints = {}
  Vector <- MCVector
  PowerUp = {2}
  DebugUse = {"reset", "ebreak"}
  DmiGap = 4
  CanReset = FALSE
INVARIANTS NoExecutionInDebug
