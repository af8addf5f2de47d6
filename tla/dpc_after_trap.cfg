SPECIFICATION Spec
CONSTANTS
  N = 4
  Insts = {"alu", "ecall"}
  Targets = {1}
  Ints = {}
  Vector <- MCVector
  PowerUp = {2}
  DebugUse = {"haltreq"}
  DmiGap = 4
  CanReset = FALSE
PROPERTIES OneStepPerCycle
