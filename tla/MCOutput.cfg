SPECIFICATION Spec
CONSTANTS
  Obj <- Objects
  Null = Null
  Heaps <- AllHeaps
  Roots <- Printed
  OUTPUT_MAX_DEPTH = 4
  OUTPUT_MAX_LENGTH = 2
  MaxPrints = 2
  MaxOutput = 200
INVARIANTS PrintsWhatItIs DepthAccountsForNils
PROPERTIES PrintingEnds
CHECK_DEADLOCK FALSE
