SPECIFICATION Spec
CONSTANTS
  Items = {a, b, c}
  Depth = 4
  ShowAhead = TRUE
INVARIANTS HeadShown
PROPERTIES ImplementsQueue
