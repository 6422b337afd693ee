--------------------------- MODULE Representation ---------------------------
(***************************************************************************)
(* What op_output should print: the external representation of an object,  *)
(* and what utf8_read_char makes of the bytes that stand for characters.   *)
(***************************************************************************)
EXTENDS Output

\* The texts with something between them.
Between(texts, separator) ==
  FlattenSeq([i \in DOMAIN texts |-> IF i = 1 THEN texts[i] ELSE separator \o texts[i]])

\* The first pairs of a list, no more than there may be, and what follows.
RECURSIVE Spine(_, _)
Spine(o, n) ==
  IF n = 0 \/ Type(o) # "PAIR" THEN <<>> ELSE <<o>> \o Spine(heap[o].cdr, n - 1)

\* The external representation of an object that is nested in d others, as
\* characters and fixed texts.
RECURSIVE Shown(_, _)
Shown(o, d) ==
  LET inner(p) == Shown(p, d + 1)
      spine    == Spine(o, OUTPUT_MAX_LENGTH)
      end      == heap[Last(spine)].cdr
      cars     == Between([i \in DOMAIN spine |-> inner(heap[spine[i]].car)], Text(" "))
      elements == Between([i \in DOMAIN heap[o].vector |-> inner(heap[o].vector[i])], Text(" "))
  IN  IF d >= OUTPUT_MAX_DEPTH - 1 THEN Text(" ...")
      ELSE CASE Type(o) = "CHAR"   -> <<[character |-> heap[o].character]>>
             [] Type(o) = "EMPTY"  -> Text("()")
             [] Type(o) = "VECTOR" -> Text("#(") \o elements \o Text(")")
             [] Type(o) = "RECORD" -> Text("<RECORD ") \o elements \o Text(">")
             [] Type(o) = "PAIR"   ->
                  Text("(") \o cars
                  \o (IF Type(end) = "EMPTY" THEN <<>> ELSE Text(" . ") \o inner(end))
                  \o Text(")")

\* What utf8_read_char makes of printed bytes.
RECURSIVE ReadBack(_)
ReadBack(printed) ==
  IF printed = <<>> THEN <<>>
  ELSE IF "text" \in DOMAIN Head(printed) THEN <<Head(printed)>> \o ReadBack(Tail(printed))
  ELSE LET n     == utf8_head_count_bytes(Head(printed).byte)
           front == SubSeq(printed, 1, n)
           read  == utf8_read_char([i \in DOMAIN front |-> front[i].byte])
       IN  <<[character |-> read.character]>> \o ReadBack(SubSeq(printed, n + 1, Len(printed)))

-----------------------------------------------------------------------------
Over == calls = <<>> /\ prints.count > 0

\* An instruction that meets no null pointer prints the object as it is, to the
\* depth and length that the limits leave, whatever parts it shares and wherever
\* it refers to itself; and utf8_read_char reads from it the characters printed.
\* (vm_output.c: "characters are stored in UTF-32 internally while strings and io
\* should be in UTF-8".)
PrintsWhatItIs ==
  Over /\ nils = prints.nils => ReadBack(fout) = Shown(prints.obj, prints.depth)
=============================================================================
