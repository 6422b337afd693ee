SPECIFICATION Spec
CONSTANTS
  BYTES = 4
  WORD = 2
  CHAR = 1
  Label = {l, k}
  File = {f, g}
  Line = {1, 2}
  Fixnums <- SomeFixnums
  Null = Null
  MaxCode <- WithDebug
  MaxPlaces = 2
SYMMETRY Symmetry
INVARIANTS LocationOfFault
