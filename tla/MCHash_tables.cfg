SPECIFICATION Spec
CONSTANTS
  Tab = {t1, t2}
  Arr = {a1, a2, a3, a4}
  Key = {1, 2}
  Value = {x, y}
  calc_hash <- Hashes
  HASH_SIZE = 2
  MaxSize = 7
  Null = Null
VIEW View
SYMMETRY Symmetry
INVARIANTS ChainsSound LoadBounded IterationComplete
PROPERTIES TablesAreMaps
