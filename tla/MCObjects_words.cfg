SPECIFICATION Spec
CONSTANTS
  Ref = {r1, r2, r3, r4}
  Block = {b1, b2, b3, b4}
  BYTES = 2
  Numbers <- SomeNumbers
  Texts <- SomeTexts
  Bucket <- FirstByte
  Instructions <- Words
  Null = Null
  MaxLength = 1
  MaxStack = 4
  MaxLive = 3
INVARIANTS SymbolsInterned StringsTerminated
PROPERTIES TextsKept
