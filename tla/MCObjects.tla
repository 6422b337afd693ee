----------------------------- MODULE MCObjects -----------------------------
(* Instances of the data of the virtual machine for TLC. *)
EXTENDS Objects, TLC

\* Addresses differ in nothing: which free one is taken makes no difference.
Symmetry == Permutations(Ref) \cup Permutations(Block)

SomeTexts   == {<<>>, <<1>>}
OneText     == {<<1>>}
SomeNumbers == {0, 1}

\* Texts that start alike share a chain of the symbol table.
FirstByte(text) == IF text = <<>> THEN 0 ELSE text[1]

\* Strings, symbols and byte vectors, each with bytes of its own.
Words == {"lit", "string", "symbol", "make_symbol", "u8_str", "vector_u8", "idx_set", "dup", "swap", "slurp"}

\* Pairs, vectors and records, and descriptors of files.
Structures == {"lit", "cons", "car", "cdr", "set_car", "set_cdr", "vector", "record", "vec_len",
               "idx_set", "idx_ref", "dup", "drop", "not", "string", "str_u8", "eq", "is",
               "open", "close", "fd_write", "fd_read", "depth"}
============================================================================
