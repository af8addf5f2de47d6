SPECIFICATION FairSpec
CONSTANTS
  MasterCount = 2
  Mixes = {{"ram", "hb32"}, {"wb"}, {"lb"}}
  LbOverlap = FALSE
  None = None
  Tags <- MCTags
  Data <- MCData
INVARIANTS ExactlyOnce OwnAnswer Handshake
PROPERTIES ImplementsChannel Served
