SPECIFICATION Spec
CONSTANTS
  MasterCount = 2
  Mixes = {{"lb"}}
  LbOverlap = TRUE
  None = None
  Tags <- MCTags
  Data <- MCData
INVARIANTS ExactlyOnce
