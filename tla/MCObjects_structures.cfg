SPECIFICATION Spec
CONSTANTS
  Ref = {r1, r2, r3}
  Block = {b1, b2, b3}
  BYTES = 2
  Numbers <- SomeNumbers
  Texts <- OneText
  Bucket <- FirstByte
  Instructions <- Structures
  Null = Null
  MaxLength = 1
  MaxStack = 3
  MaxLive = 2
SYMMETRY Symmetry
PROPERTIES NullsContained
