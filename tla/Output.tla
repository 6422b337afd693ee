------------------------------- MODULE Output -------------------------------
(***************************************************************************)
(* vm_output.c: how op_output prints an object.  The functions call each   *)
(* other without a look at what they have visited; "depth" is a static     *)
(* variable of output_object that they all share, from one instruction to  *)
(* the next.  The frames of these calls are the state.                     *)
(*                                                                         *)
(* What is printed is a sequence of bytes, with the fixed texts ("(", " ") *)
(* in one piece each.  Numbers, strings and the like print like a          *)
(* character, and are left out.                                            *)
(***************************************************************************)
EXTENDS Utf8, TLC

CONSTANTS
  Obj, Null,
  Heaps,              \* what the objects are: [Obj -> object]
  Roots,              \* the objects that are printed
  OUTPUT_MAX_DEPTH, OUTPUT_MAX_LENGTH,
  MaxPrints,          \* bound on the instructions
  MaxOutput           \* bound on what one of them prints

Reference == Obj \cup {Null}

\* Objects: what the code tells apart.
Object ==
  [type : {"CHAR"}, character : Nat] \cup [type : {"EMPTY"}]
  \cup [type : {"PAIR"}, car : Reference, cdr : Reference]
  \cup [type : {"VECTOR", "RECORD"}, vector : Seq(Reference)]

ASSUME OutputAssumption ==
  /\ OUTPUT_MAX_DEPTH \in Nat \ {0} /\ OUTPUT_MAX_LENGTH \in Nat \ {0}
  /\ MaxPrints \in Nat /\ MaxOutput \in Nat
  /\ Null \notin Obj /\ Roots \subseteq Reference
  /\ Heaps \subseteq [Obj -> Object]

VARIABLES
  heap,
  depth,   \* the static variable of output_object
  calls,   \* frames, the innermost last
  fout,    \* what the instruction has printed
  prints,  \* history: instructions so far, and what the last one printed
  nils     \* history: null pointers printed

vars == <<heap, depth, calls, fout, prints, nils>>

Character(c)   == [type |-> "CHAR", character |-> c]
EmptyList      == [type |-> "EMPTY"]
Link(a, d)     == [type |-> "PAIR", car |-> a, cdr |-> d]
Vector(os)     == [type |-> "VECTOR", vector |-> os]
Record(os)     == [type |-> "RECORD", vector |-> os]

Type(o) == IF o = Null THEN "null" ELSE heap[o].type

Text(s)  == <<[text |-> s]>>
Bytes(s) == [i \in DOMAIN s |-> [byte |-> s[i]]]

\* "%s" prints the bytes before the first 0.
output_char(c) == IF c = 0 THEN <<>> ELSE Bytes(utf8_encode_char(c))

\* Frames: a call about to start, a list and a vector that are being printed.
ObjectFrame(o)  == [f |-> "object", obj |-> o]
PairFrame(p, n) == [f |-> "pair", pair |-> p, length |-> n]
CloseFrame      == [f |-> "close"]
VectorFrame(o)  == [f |-> "vector", obj |-> o, index |-> 1]

Init ==
  /\ heap \in Heaps
  /\ depth = 0 /\ calls = <<>> /\ fout = <<>> /\ nils = 0
  /\ prints = [count |-> 0, obj |-> Null, depth |-> 0, nils |-> 0]

InCall(name) == calls # <<>> /\ Last(calls).f = name

Printing(text, frames) ==
  fout' = fout \o text /\ Len(fout') <= MaxOutput /\ calls' = frames

\* The instruction: depth and nils as it starts are kept for the properties.
op_output(o) ==
  /\ calls = <<>> /\ prints.count < MaxPrints
  /\ calls' = <<ObjectFrame(o)>> /\ fout' = <<>>
  /\ prints' = [count |-> prints.count + 1, obj |-> o, depth |-> depth, nils |-> nils]
  /\ UNCHANGED <<heap, depth, nils>>

\* The call returns after it has printed a text: depth went up and down.
Prints(text) == Printing(text, Front(calls)) /\ UNCHANGED <<depth, nils>>

\* The call goes on with a list or a vector.
Begins(text, frame) ==
  Printing(text, Append(Front(calls), frame)) /\ depth' = depth + 1 /\ UNCHANGED nils

\* A null pointer returns without counting depth down.
PrintsNil ==
  Printing(Text("<nil>"), Front(calls)) /\ depth' = depth + 1 /\ nils' = nils + 1

PrintsObject(o) ==
  \/ Type(o) = "null"   /\ PrintsNil
  \/ Type(o) = "CHAR"   /\ Prints(output_char(heap[o].character))
  \/ Type(o) = "EMPTY"  /\ Prints(Text("()"))
  \/ Type(o) = "PAIR"   /\ Begins(Text("("), PairFrame(o, 0))
  \/ Type(o) = "VECTOR" /\ Begins(Text("#("), VectorFrame(o))
  \/ Type(o) = "RECORD" /\ Begins(Text("<RECORD "), VectorFrame(o))

\* Mutant: depth is not counted down at the cut-off either.
output_object_leak ==
  /\ InCall("object")
  /\ UNCHANGED <<heap, prints>>
  /\ \/ /\ depth + 1 >= OUTPUT_MAX_DEPTH
        /\ Printing(Text(" ..."), Front(calls)) /\ depth' = depth + 1 /\ UNCHANGED nils
     \/ depth + 1 < OUTPUT_MAX_DEPTH /\ PrintsObject(Last(calls).obj)

\* Mutant: nothing is cut off.
output_object_deep ==
  InCall("object") /\ PrintsObject(Last(calls).obj) /\ UNCHANGED <<heap, prints>>

output_object ==
  /\ InCall("object")
  /\ UNCHANGED <<heap, prints>>
  /\ \/ depth + 1 >= OUTPUT_MAX_DEPTH /\ Prints(Text(" ..."))
     \/ depth + 1 < OUTPUT_MAX_DEPTH /\ PrintsObject(Last(calls).obj)

\* The call that the frame is waiting for.
Calling(text, o, frame) ==
  /\ Printing(text, Front(calls) \o <<frame, ObjectFrame(o)>>)
  /\ UNCHANGED <<heap, depth, prints, nils>>

\* The end of a list or a vector, and of the output_object around it.
Returns(text) ==
  Printing(text, Front(calls)) /\ depth' = depth - 1 /\ UNCHANGED <<heap, prints, nils>>

\* Mutant: one pair more.
MorePairs_more(frame) ==
  frame.length = 0 \/ (Type(frame.pair) = "PAIR" /\ frame.length <= OUTPUT_MAX_LENGTH)

\* The loop: it has pairs to go on with, and has not printed too many.
MorePairs(frame) ==
  frame.length = 0 \/ (Type(frame.pair) = "PAIR" /\ frame.length < OUTPUT_MAX_LENGTH)

\* What the loop leaves is printed after a dot, a pair too.
output_pair ==
  /\ InCall("pair")
  /\ LET frame == Last(calls)
         p     == frame.pair
     IN
     \/ /\ MorePairs(frame)
        /\ Calling(IF frame.length > 0 THEN Text(" ") ELSE <<>>, heap[p].car,
                   PairFrame(heap[p].cdr, frame.length + 1))
     \/ /\ ~ MorePairs(frame) /\ Type(p) # "EMPTY"
        /\ Calling(Text(" . "), p, CloseFrame)
     \/ ~ MorePairs(frame) /\ Type(p) = "EMPTY" /\ Returns(Text(")"))

output_pair_end == InCall("close") /\ Returns(Text(")"))

\* output_vector and output_record, which differ in what is around the elements.
output_vector ==
  /\ InCall("vector")
  /\ LET frame == Last(calls)
         os    == heap[frame.obj].vector
     IN
     \/ /\ frame.index <= Len(os)
        /\ Calling(IF frame.index > 1 THEN Text(" ") ELSE <<>>, os[frame.index],
                   [frame EXCEPT !.index = @ + 1])
     \/ /\ frame.index > Len(os)
        /\ Returns(Text(IF Type(frame.obj) = "VECTOR" THEN ")" ELSE ">"))

Step == output_object \/ output_pair \/ output_pair_end \/ output_vector

Next == (\E o \in Roots : op_output(o)) \/ Step

Spec == Init /\ [][Next]_vars /\ WF_vars(Step)

-----------------------------------------------------------------------------
(***************************************************************************)
(* The state.                                                              *)
(***************************************************************************)

\* A frame: a list starts at a pair, a vector or a record is printed from its
\* first element to its last.
ObjectCall == [f : {"object"}, obj : Reference]
PairCall   == [f : {"pair"}, pair : Reference, length : 0..OUTPUT_MAX_LENGTH]
CloseCall  == [f : {"close"}]
VectorCall == [f : {"vector"}, obj : Obj, index : Nat \ {0}]

Fits(frame) ==
  /\ frame \in PairCall /\ frame.length = 0 => Type(frame.pair) = "PAIR"
  /\ frame \in VectorCall =>
       /\ Type(frame.obj) \in {"VECTOR", "RECORD"}
       /\ frame.index <= Len(heap[frame.obj].vector) + 1

\* Every function reads the objects it was called for: output_pair only takes a
\* pair apart, output_vector only a vector, and only an element that is there.
TypeOK ==
  /\ heap \in [Obj -> Object]
  /\ depth \in Nat /\ nils \in Nat
  /\ calls \in Seq(ObjectCall \cup PairCall \cup CloseCall \cup VectorCall)
  /\ \A i \in DOMAIN calls : Fits(calls[i])
  /\ prints.count \in 0..MaxPrints

\* The calls that have counted depth up: all but one that is about to start,
\* which is the innermost.
Open == Len(calls) - (IF InCall("object") THEN 1 ELSE 0)

DepthInv ==
  /\ \A i \in DOMAIN calls : calls[i].f = "object" => i = Len(calls)
  /\ depth = nils + Open
  /\ depth < OUTPUT_MAX_DEPTH

-----------------------------------------------------------------------------
(***************************************************************************)
(* Properties.                                                             *)
(***************************************************************************)

\* The static variable is back where it was after an instruction, but for the
\* null pointers that were printed; each of them takes one from the depth to
\* which the program can print from then on.
DepthAccountsForNils == calls = <<>> => depth = nils

\* However deep the objects are, and however many null pointers were printed
\* before, the functions call each other no deeper than this.
NestingBounded == Len(calls) <= OUTPUT_MAX_DEPTH - nils

\* Printing is finite, for objects that refer to themselves too.
PrintingEnds == (calls # <<>>) ~> (calls = <<>>)
=============================================================================
