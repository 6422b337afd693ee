-------------------------------- MODULE MCGC --------------------------------
(* Instances of the collector for TLC. *)
EXTENDS GC, TLC

\* No operation tells two addresses, two variables or two offsets apart.
Symmetry == Permutations(Obj) \cup Permutations(Root) \cup Permutations(Slot)
=============================================================================
