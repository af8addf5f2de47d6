SPECIFICATION FairSpec
CONSTANTS
  N = 1
  Insts = {"mem", "jump", "wfi", "mret", "csr", "ebreak"}
  Targets = {0}
  Ints = {"ext"}
  Vector <- MCVector
  PowerUp = {0}
  DebugUse = {"haltreq", "reset", "step", "ebreak"}
  DmiGap = 1
  CanReset = FALSE
PROPERTIES InterruptTaken HaltTaken StepReturns
