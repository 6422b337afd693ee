------------------------------- MODULE MCAsm -------------------------------
(* Instances of the assembler for TLC. *)
EXTENDS Asm, TLC

SomeFixnums == {-1, 5}

\* Without a debug pointer there has to be room for the operands of a .file.
BothCallers == [d \in BOOLEAN |-> IF d THEN 6 ELSE 10]
WithDebug   == [d \in {TRUE} |-> 4]

\* Labels and files are only compared.
Symmetry == Permutations(Label) \cup Permutations(File)
=============================================================================
