SPECIFICATION Spec
CONSTANTS
  Env = {1, 2, 3, 4, 5, 6, 7}
  Table = {11, 12, 13}
  Symbol = {x}
  Code = {main, other}
  Main = main
  Length <- Longer
  Instructions <- Exceptions
  Null = Null
  MaxEnv = 3
  MaxTable = 2
  MaxDepth = 4
VIEW View
INVARIANTS HandlerSeesException RunningPrivate TypeOK
PROPERTIES CapturedFrozen
