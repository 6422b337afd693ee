------------------------------- MODULE MCHash -------------------------------
(* Instances of the hash tables for TLC. *)
EXTENDS Hash, TLC

\* Hashes that collide at size 2 and not at the sizes after it.
Hashes == [k \in Key |-> k * 6 - 4]
\* Handles and values are only compared.
Symmetry == Permutations(Tab) \cup Permutations(Value)
\* The last call is history: nothing depends on it.
View == <<tab, store, it, seen>>
=============================================================================
