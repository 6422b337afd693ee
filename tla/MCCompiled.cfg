SPECIFICATION CompiledSpec
CONSTANTS
  Env <- Addresses_
  Table <- Addresses_
  Symbol <- Names
  Code <- OneBlock
  Main = "main"
  Length <- LengthOne
  Instructions <- AllInstructions
  Null = Null
  MaxEnv = 36
  MaxTable = 20
  MaxDepth = 24
  Width = 4
  Fuel = 300
  Slack = 4
  MainFile <- Main_
  BaseLib <- BaseLib_
  MAX_INCLUDE_DEPTH = 3
  Inputs <- AllInputs
INVARIANTS MeaningKept TailCallsFlat
PROPERTIES ReadsText Stops
