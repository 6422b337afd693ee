-------------------------------- MODULE Asm --------------------------------
(***************************************************************************)
(* The assembler, asm_string in libinsomniac_asm, and what the virtual     *)
(* machine reads from what it wrote: jump targets (parse_int), the sizes   *)
(* of instructions, and the source location of a fault                     *)
(* (find_source_location).                                                 *)
(*                                                                         *)
(* A program is any sequence of tokens.  Code is a sequence of numbers     *)
(* from address 0 on: opcodes, and the bytes of operands below BYTES.  An  *)
(* address field has WORD bytes, little endian and in two's complement.    *)
(***************************************************************************)
EXTENDS Integers, Sequences

CONSTANTS
  BYTES, WORD, CHAR, \* 256 byte values, 8 bytes in an integer, 4 in a character
  Label, File, Line,
  Fixnums,           \* integers a program mentions
  Null,
  MaxCode,           \* bound on the code, for callers without and with a debug pointer
  MaxPlaces          \* bound on the places of a program

\* What a one is worth in the byte after j others, and the values of a word.
Weight[j \in 0..WORD] == IF j = 0 THEN 1 ELSE BYTES * Weight[j - 1]
Modulus == Weight[WORD]

ASSUME AsmAssumption ==
  /\ BYTES \in Nat \ {0, 1} /\ WORD \in Nat \ {0} /\ CHAR \in Nat
  /\ Fixnums \subseteq Int /\ Line \subseteq Int
  /\ MaxPlaces \in Nat
  /\ DOMAIN MaxCode \subseteq BOOLEAN /\ \A d \in DOMAIN MaxCode : MaxCode[d] \in 0..(Modulus - 1)
  /\ Null \notin Nat \cup File \cup Line

VARIABLES
  has_debug, \* whether the caller passed a debug pointer
  out,    \* the output buffer, then code_ref
  labels, \* the label table
  jumps,  \* jump_list, head first
  debug,  \* the list of debug records
  pc,     \* "tokens", "rewrite", "done" or "abort"
  starts, \* history: the address of each instruction and the place named for it
  sites,  \* history: every jump
  named   \* history: the place that the last .file named

vars == <<has_debug, out, labels, jumps, debug, pc, starts, sites, named>>

OP == BYTES          \* an instruction without operand
OP_LIT_FIXNUM == BYTES + 1
OP_LIT_CHAR   == BYTES + 2
OP_LIT_STRING == BYTES + 3 \* symbol literals too
OP_JMP        == BYTES + 4 \* all instructions with a target

Place == File \X Line \* a line stands for a line and a column

(***************************************************************************)
(* Integers in code: INT_64 and parse_int.                                 *)
(***************************************************************************)

INT_64(i) == [j \in 1..WORD |-> ((i % Modulus) \div Weight[j - 1]) % BYTES]

\* A word read from its last byte to its first.
Shifted(word) ==
  LET num[i \in 0..WORD] == IF i = 0 THEN 0 ELSE num[i - 1] * BYTES + word[WORD + 1 - i]
  IN  num[WORD]

\* The integer in the code from address a on.
parse_int(code, a) ==
  LET num == Shifted([j \in 1..WORD |-> code[a + j]])
  IN  IF 2 * num >= Modulus THEN num - Modulus ELSE num

\* Where the instruction at address a ends: how far the machine moves ip.
Decoded(code, a) ==
  LET op == code[a + 1] IN
  a + 1 + CASE op = OP -> 0
            [] op = OP_LIT_CHAR -> CHAR
            [] op \in {OP_LIT_FIXNUM, OP_JMP} -> WORD
            [] op = OP_LIT_STRING -> WORD + parse_int(code, a + 1)

\* Where a jump whose address field is at a takes the machine.
JumpsTo(code, a) == (a + WORD + parse_int(code, a)) % Modulus

-----------------------------------------------------------------------------
Init ==
  /\ has_debug \in DOMAIN MaxCode
  /\ out = <<>> /\ labels = [l \in Label |-> Null]
  /\ jumps = <<>> /\ debug = <<>> /\ pc = "tokens"
  /\ starts = <<>> /\ sites = {} /\ named = Null

Emit(code) ==
  /\ pc = "tokens" /\ Len(out) + Len(code) <= MaxCode[has_debug]
  /\ out' = out \o code
  /\ starts' = Append(starts, [addr |-> Len(out), place |-> named])

asm_op ==
  /\ Emit(<<OP>>)
  /\ UNCHANGED <<has_debug, labels, jumps, debug, pc, sites, named>>

asm_lit_fixnum(i) ==
  /\ Emit(<<OP_LIT_FIXNUM>> \o INT_64(i))
  /\ UNCHANGED <<has_debug, labels, jumps, debug, pc, sites, named>>

asm_lit_char ==
  /\ Emit(<<OP_LIT_CHAR>> \o [j \in 1..CHAR |-> 0])
  /\ UNCHANGED <<has_debug, labels, jumps, debug, pc, sites, named>>

\* Mutant: the length counts the terminator.
asm_lit_string_terminated(n) ==
  /\ Emit(<<OP_LIT_STRING>> \o INT_64(n + 1) \o [j \in 1..n |-> 0])
  /\ UNCHANGED <<has_debug, labels, jumps, debug, pc, sites, named>>

asm_lit_string(n) ==
  /\ Emit(<<OP_LIT_STRING>> \o INT_64(n) \o [j \in 1..n |-> 0])
  /\ UNCHANGED <<has_debug, labels, jumps, debug, pc, sites, named>>

\* The opcode, then an empty field for the target.
asm_jump(l) ==
  LET jump == [addr |-> Len(out) + 1, label |-> l] IN
  /\ Emit(<<OP_JMP>> \o INT_64(0))
  /\ jumps' = <<jump>> \o jumps
  /\ sites' = sites \cup {jump}
  /\ UNCHANGED <<has_debug, labels, debug, pc, named>>

\* A second definition of a label replaces the first.
asm_label(l) ==
  /\ pc = "tokens"
  /\ labels' = [labels EXCEPT ![l] = Len(out)]
  /\ UNCHANGED <<has_debug, out, jumps, debug, pc, starts, sites, named>>

\* The place of the tail of the list.
TailPlace == IF debug = <<>> THEN <<Null, Null>> ELSE debug[Len(debug)].place

\* Mutant: a place that has a record, not only the last one, gets no other.
push_debug_once(place) ==
  IF \E i \in DOMAIN debug : debug[i].place = place THEN debug
  ELSE Append(debug, [place |-> place, start_addr |-> Len(out)])

push_debug(place) ==
  IF TailPlace = place THEN debug
  ELSE Append(debug, [place |-> place, start_addr |-> Len(out)])

\* .file with the three operands that name a place.
add_debug_file(place) ==
  /\ pc = "tokens" /\ has_debug
  /\ Len(debug) < MaxPlaces
  /\ debug' = push_debug(place)
  /\ named' = place
  /\ UNCHANGED <<has_debug, out, labels, jumps, pc, starts, sites>>

\* Without a debug pointer only the token .file is passed over: the string of n
\* bytes and the two numbers after it are assembled as the literals they are.
file_operands(n, line, column) ==
  LET name == <<OP_LIT_STRING>> \o INT_64(n) \o [j \in 1..n |-> 0]
      num(i) == <<OP_LIT_FIXNUM>> \o INT_64(i)
      at(k) == [addr |-> Len(out) + k, place |-> named]
  IN
  /\ pc = "tokens" /\ ~ has_debug
  /\ Len(out) + Len(name) + 2 * (WORD + 1) <= MaxCode[has_debug]
  /\ out' = out \o name \o num(line) \o num(column)
  /\ starts' = starts \o <<at(0), at(Len(name)), at(Len(name) + WORD + 1)>>
  /\ UNCHANGED <<has_debug, labels, jumps, debug, pc, sites, named>>

EndOfFile ==
  /\ pc = "tokens"
  /\ pc' = "rewrite"
  /\ UNCHANGED <<has_debug, out, labels, jumps, debug, starts, sites, named>>

\* Mutant: the target is relative to the field, not to what follows it.
RelativeToField(j) == labels[j.label] - j.addr

\* The offset from the end of the address field.
Target(j) == labels[j.label] - j.addr - WORD

\* One turn of the loop: the head of the list is resolved, or assert(0).
rewrite_jumps ==
  /\ pc = "rewrite" /\ jumps # <<>>
  /\ LET j     == Head(jumps)
         field == INT_64(Target(j))
     IN  IF labels[j.label] = Null THEN pc' = "abort" /\ UNCHANGED <<out, jumps>>
         ELSE /\ out' = [a \in DOMAIN out |->
                           IF a - j.addr \in 1..WORD THEN field[a - j.addr] ELSE out[a]]
              /\ jumps' = Tail(jumps)
              /\ UNCHANGED pc
  /\ UNCHANGED <<has_debug, labels, debug, starts, sites, named>>

Return ==
  /\ pc = "rewrite" /\ jumps = <<>>
  /\ pc' = "done"
  /\ UNCHANGED <<has_debug, out, labels, jumps, debug, starts, sites, named>>

Terminated == pc \in {"done", "abort"} /\ UNCHANGED vars

Next ==
  \/ asm_op \/ asm_lit_char
  \/ \E i \in Fixnums : asm_lit_fixnum(i)
  \/ \E n \in 0..2 : asm_lit_string(n)
  \/ \E l \in Label : asm_jump(l)
  \/ \E l \in Label : asm_label(l)
  \/ \E place \in Place : add_debug_file(place)
  \/ \E n \in 0..2, line, column \in Line : file_operands(n, line, column)
  \/ EndOfFile \/ rewrite_jumps \/ Return \/ Terminated

Spec == Init /\ [][Next]_vars

(***************************************************************************)
(* find_source_location, for a machine that stands at ip.                  *)
(***************************************************************************)

AtOrAfter(ip) == {i \in DOMAIN debug : debug[i].start_addr >= ip}

\* The place of the first record that starts at or after ip; Null stands for the
\* messages that name no place.
find_source_location(ip) ==
  IF debug = <<>> THEN Null
  ELSE IF ip < debug[1].start_addr \/ AtOrAfter(ip) = {} THEN Null
  ELSE debug[CHOOSE i \in AtOrAfter(ip) : \A k \in AtOrAfter(ip) : i <= k].place

-----------------------------------------------------------------------------
(***************************************************************************)
(* Properties.                                                             *)
(***************************************************************************)

\* Every jump of assembled code takes the machine to its label, forward and
\* backward, and the label stands before an instruction or at the end.
JumpsLand ==
  pc = "done" =>
    \A j \in sites :
      /\ labels[j.label] # Null
      /\ JumpsTo(out, j.addr) = labels[j.label]
      /\ labels[j.label] \in {starts[i].addr : i \in DOMAIN starts} \cup {Len(out)}

\* The machine finds each instruction where the one before it ends, while the
\* jumps are rewritten too: what the assembler emits is what the machine skips.
InstructionsParse ==
  \A i \in DOMAIN starts :
    Decoded(out, starts[i].addr) = IF i = Len(starts) THEN Len(out) ELSE starts[i + 1].addr

\* The debug records lose nothing: the last record that starts at or before an
\* instruction is the one of the place that was named for it.
PlacesRecorded ==
  \A i \in DOMAIN starts :
    LET before == {k \in DOMAIN debug : debug[k].start_addr <= starts[i].addr}
        last   == CHOOSE k \in before : \A l \in before : l <= k
    IN  (starts[i].place # Null \/ before # {}) =>
          before # {} /\ debug[last].place = starts[i].place

\* vm_exception.c: "Find where the exception occured."  A fault in an
\* instruction, which leaves ip after it, is reported at its place.
LocationOfFault ==
  pc = "done" =>
    \A i \in DOMAIN starts :
      starts[i].place # Null =>
        find_source_location(Decoded(out, starts[i].addr)) = starts[i].place
=============================================================================
