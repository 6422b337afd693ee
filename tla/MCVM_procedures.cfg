SPECIFICATION Spec
CONSTANTS
  Env = {1, 2, 3, 4, 5, 6, 7}
  Table = {11, 12, 13}
  Symbol = {x}
  Code = {main}
  Main = main
  Length <- Short
  Instructions <- Procedures
  Null = Null
  MaxEnv = 3
  MaxTable = 2
  MaxDepth = 3
VIEW View
INVARIANTS RunningPrivate FrameCoherent ChainsEnd
PROPERTIES CapturedFrozen
