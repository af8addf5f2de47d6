SPECIFICATION StepSpec
CONSTANTS
  N = 3
  Insts = {"mem", "jump", "wfi", "ebreak"}
  Targets = {1}
  Ints = {}
  Vector <- MCVector
  PowerUp = {2}
  DebugUse = {"step", "reset", "ebreak"}
  DmiGap = 4
  CanReset = TRUE
PROPERTIES OneStepPerCycle StepIsOne
