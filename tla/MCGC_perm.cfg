SPECIFICATION FairSpec
CONSTANTS
  Obj = {o1, o2}
  Slot = {s1}
  Root = {r1}
  Type = {tArray, tCell}
  ArrayType = tArray
  CellType = {tCell}
  PermArg = {TRUE, FALSE}
  Batch = 1
  MaxProtect = 1
  MaxRegs = 2
  Untyped = Untyped
  Null = Null
INVARIANTS AllocationsExact RefillOnce
PROPERTIES HeapSpec CollectionEnds
