SPECIFICATION Spec
CONSTANTS
  Obj = {o1, o2, o3}
  Slot = {s1, s2}
  Root = {r1}
  Type = {tArray}
  ArrayType = tArray
  CellType = {}
  PermArg = {FALSE}
  Batch = 1
  MaxProtect = 0
  MaxRegs = 1
  Untyped = Untyped
  Null = Null
SYMMETRY Symmetry
INVARIANTS IInv AccessibleAlive NoAbort NoDangling Tricolour
PROPERTIES SweepExact
