SPECIFICATION Spec
CONSTANTS
  Buf = {b1, b2}
  Byte = {p, q}
  BLOCK_SIZE = 2
  MaxWrite = 3
  MaxUsed = 5
  Zero = Zero
INVARIANTS ReadsBack TailHasRoom
PROPERTIES OnlyAppends CallsReturn
