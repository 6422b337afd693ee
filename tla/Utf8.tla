-------------------------------- MODULE Utf8 --------------------------------
(***************************************************************************)
(* vm_utf8.c: characters, which are code points below 2^31, and the bytes  *)
(* that stand for them.                                                    *)
(***************************************************************************)
EXTENDS Integers, Sequences, FiniteSets, SequencesExt

\* The leading ones of a byte, no more than six; one for a byte that has none.
utf8_head_count_bytes(byte) ==
  IF byte < 128 THEN 1 ELSE Cardinality({i \in 1..6 : byte >= 256 - 2^(8 - i)})

\* Code points with n tail bytes are below this.
Bound(n) == CASE n = 0 -> 2^7 [] n = 1 -> 2^11 [] n = 2 -> 2^16 [] n = 3 -> 2^21 [] n = 4 -> 2^26

\* A head byte, which says how many there are, and tail bytes of six bits.
utf8_encode_char(character) ==
  LET fits  == {n \in 0..4 : character < Bound(n)}
      tails == IF fits = {} THEN 5 ELSE CHOOSE n \in fits : \A m \in fits : n <= m
      head  == IF tails = 0 THEN character ELSE 256 - 2^(7 - tails) + (character \div 64^tails)
  IN  <<head>> \o [i \in 1..tails |-> 128 + ((character \div 64^(tails - i)) % 64)]

\* The character at the start of a sequence of bytes, and the bytes after it.  The
\* first is a head byte (a tail byte would be extended by its sign); a byte that is
\* missing is read as 255, the last byte of EOF.
utf8_read_char(bytes) ==
  LET count == utf8_head_count_bytes(Head(bytes))
      byte(i) == IF i <= Len(bytes) THEN bytes[i] ELSE 255
      head == IF count = 1 THEN Head(bytes) ELSE Head(bytes) % 2^(7 - count)
  IN  [character |-> FoldLeft(LAMBDA c, i : c * 64 + (byte(i + 1) % 64),
                              head, [i \in 1..(count - 1) |-> i]),
       rest |-> SubSeq(bytes, count + 1, Len(bytes))]
=============================================================================
