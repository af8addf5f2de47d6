SPECIFICATION Spec
CONSTANTS
  N = 4
  Insts = {"alu", "mem", "jump", "wfi", "csr"}
  Targets = {1}
  Ints = {}
  Vector <- MCVector
  PowerUp = {2}
  DebugUse = {"haltreq", "reset"}
  DmiGap = 4
  CanReset = FALSE
INVARIANTS NoExecutionInDebug ReportedState
PROPERTIES OneStepPerCycle
