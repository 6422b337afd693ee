------------------------------ MODULE Objects ------------------------------
(***************************************************************************)
(* The data of the virtual machine: strings, symbols and the symbol table, *)
(* byte vectors, vectors, records and pairs, and the instructions that     *)
(* make, share, compare and alter them.                                    *)
(*                                                                         *)
(* A string and the byte vector str->u8 makes of it share one block of     *)
(* bytes, so blocks are objects of their own.  Numbers, booleans and the   *)
(* empty list are values: no instruction can tell two copies apart.  What  *)
(* a throw leads to is module VM's; here it ends the program.  "corrupt"   *)
(* is an access outside a block, "fatal" a crash or an assert(0).          *)
(***************************************************************************)
EXTENDS Integers, Sequences, FiniteSets

CONSTANTS
  Ref, Block,    \* addresses of objects and of blocks of bytes
  BYTES,         \* number of byte values
  Numbers,       \* integers a program mentions
  Texts,         \* string literals: sequences of bytes other than 0
  Bucket(_),     \* the chain of the symbol table a text hashes to
  Instructions,  \* the instructions that programs use
  Null,
  MaxLength, MaxStack, MaxLive \* bounds on vectors, on the stack and on live objects

\* [stack, obj, bytes, symbol_table, status] of the machine.
VARIABLE vm

Number(n) == [type |-> "fixnum", n |-> n]
Bool(b)   == [type |-> "bool", n |-> IF b THEN 1 ELSE 0]
Empty     == [type |-> "empty", n |-> 0]

(***************************************************************************)
(* Objects.                                                                *)
(***************************************************************************)

\* Values without a place in memory.
Atom == [type : {"fixnum", "bool", "empty"}, n : Int]

Byte == 0..(BYTES - 1)

\* What a variable or a slot of an object holds.
Slot == Atom \cup Ref \cup {Null}

\* What there is at the address of an object.
Object == [type : {"pair"}, car : Slot, cdr : Slot]
            \cup [type : {"vector", "record"}, items : Seq(Slot)]
            \cup [type : {"string", "symbol", "bytes"}, block : Block, length : Nat]

ASSUME ObjectsAssumption ==
  /\ BYTES \in Nat \ {0, 1} /\ Numbers \subseteq Int
  /\ Texts \subseteq Seq(1..(BYTES - 1))
  /\ MaxLength \in Nat /\ MaxStack \in Nat /\ MaxLive \in Nat
  /\ IsFiniteSet(Ref) /\ Cardinality(Ref) > MaxLive     \* an instruction makes one object
  /\ IsFiniteSet(Block) /\ Cardinality(Block) > MaxLive
  /\ Null \notin Ref \cup Block \cup Atom \cup Object \cup Seq(Byte)
  /\ Ref \cap Atom = {}

\* The object a value refers to; a null pointer is never looked at.
At(m, v) == IF v \in Ref THEN m.obj[v] ELSE IF v = Null THEN Empty ELSE v

Slots(o) == CASE o.type = "pair" -> {o.car, o.cdr}
              [] o.type \in {"vector", "record"} -> {o.items[i] : i \in DOMAIN o.items}
              [] OTHER -> {}

HasBytes(o) == o.type \in {"string", "symbol", "bytes"}

\* The C string at the start of a block.
CString(bytes) ==
  LET zeros == {i \in DOMAIN bytes : bytes[i] = 0}
  IN  IF zeros = {} THEN bytes
      ELSE SubSeq(bytes, 1, (CHOOSE i \in zeros : \A j \in zeros : i <= j) - 1)

Text(m, o) == CString(m.bytes[o.block])

Present(m) == {r \in Ref : m.obj[r] # Null}

Roots(m) == Ref \cap ({m.stack[i] : i \in DOMAIN m.stack} \cup {e.obj : e \in m.symbol_table})

\* What can be reached: the least set with the roots and with whatever its
\* members refer to.
LiveRefs(m) ==
  LET roots  == Roots(m)
      sets   == {roots \cup S : S \in SUBSET (Present(m) \ roots)}
      closed == {S \in sets : \A r \in S : Ref \cap Slots(m.obj[r]) \subseteq S}
  IN  {r \in Present(m) : \A S \in closed : r \in S}

\* The collector, at the end of an instruction.
Collect(m) ==
  LET R == LiveRefs(m)
      B == {m.obj[r].block : r \in {q \in R : HasBytes(m.obj[q])}} \cup {e.key : e \in m.symbol_table}
  IN  [m EXCEPT !.obj   = [r \in Ref |-> IF r \in R THEN @[r] ELSE Null],
                !.bytes = [b \in Block |-> IF b \in B THEN @[b] ELSE Null]]

(***************************************************************************)
(* The stack.                                                              *)
(***************************************************************************)

\* The program stops, if it has not stopped already.
Stop(m, why) == IF m.status = "running" THEN [m EXCEPT !.status = why] ELSE m

Throw(m) == Stop(m, "thrown")

vm_push(m, v) == [m EXCEPT !.stack = <<v>> \o @]

\* Mutant: a null pointer is returned.
vm_pop_null(m) == IF m.stack = <<>> THEN Stop(m, "fatal") ELSE [m EXCEPT !.stack = Tail(@)]

\* A stack under run and a null pointer are fatal.
vm_pop(m) ==
  IF m.stack = <<>> THEN Stop(m, "fatal")
  ELSE IF Head(m.stack) = Null THEN Stop(m, "fatal")
  ELSE [m EXCEPT !.stack = Tail(@)]

\* What vm_pop returns.
Top(m) == IF m.stack = <<>> THEN Null ELSE Head(m.stack)

(***************************************************************************)
(* vm_alloc.c                                                              *)
(***************************************************************************)

NewRef(m)   == CHOOSE r \in Ref : m.obj[r] = Null
NewBlock(m) == CHOOSE b \in Block : m.bytes[b] = Null

\* A new object, pushed.
Make(m, o) == LET r == NewRef(m) IN vm_push([m EXCEPT !.obj[r] = o], r)

\* A new object of the given type with a block of its own, pushed.
MakeWithBytes(m, type, length, contents) ==
  LET b == NewBlock(m)
  IN  Make([m EXCEPT !.bytes[b] = contents], [type |-> type, block |-> b, length |-> length])

\* strncpy into zeroed memory: what follows the first 0 is lost.
Copied(bytes, length) ==
  LET text == CString(SubSeq(bytes, 1, length))
  IN  [i \in 1..length |-> IF i <= Len(text) THEN text[i] ELSE 0]

\* Mutant: there is no room for the terminator.
vm_make_string_tight(m, bytes, length) ==
  MakeWithBytes(m, "string", length, Copied(bytes, length))

vm_make_string(m, bytes, length) ==
  MakeWithBytes(m, "string", length, Append(Copied(bytes, length), 0))

vm_make_byte_vector(m, length) == MakeWithBytes(m, "bytes", length, [i \in 1..length |-> 0])

vm_make_vector(m, length) ==
  Make(m, [type |-> "vector", items |-> [i \in 1..length |-> Null]])

\* One more slot than asked for: the first is for the type.
vm_make_record(m, length) ==
  Make(m, [type |-> "record", items |-> [i \in 1..(length + 1) |-> Null]])

\* The object on top becomes a symbol itself, or is replaced by the symbol that
\* the table has for its text.
Interned(m, entries(_, _, _)) ==
  LET r     == Head(m.stack)
      text  == Text(m, m.obj[r])
      known == {e \in m.symbol_table : e.chain = Bucket(text) /\ CString(m.bytes[e.key]) = text}
  IN  IF known # {} THEN [m EXCEPT !.stack[1] = (CHOOSE e \in known : TRUE).obj]
      ELSE [m EXCEPT !.obj[r].type = "symbol",
                     !.symbol_table = @ \cup entries(r, m.obj[r].block, Bucket(text))]

\* Mutant: a new symbol is not entered.
make_symbol_forgets(m) == Interned(m, LAMBDA r, block, chain : {})

\* The key is the symbol's own block of bytes, filed under the text it has now.
make_symbol(m) ==
  Interned(m, LAMBDA r, block, chain : {[obj |-> r, key |-> block, chain |-> chain]})

-----------------------------------------------------------------------------
Init ==
  vm = [stack |-> <<>>, obj |-> [r \in Ref |-> Null], bytes |-> [b \in Block |-> Null],
        symbol_table |-> {}, status |-> "running"]

Executing(name) == name \in Instructions /\ vm.status = "running"

M0 == vm

\* An instruction leaves machine m.  (Bound by \E, c is computed once.)
Becomes(m) ==
  \E c \in {IF m.status = "running" THEN Collect(m) ELSE [vm EXCEPT !.status = m.status]} :
  /\ Len(c.stack) <= MaxStack
  /\ Cardinality({r \in Ref : c.obj[r] # Null}) <= MaxLive
  /\ vm' = c

M1 == vm_pop(M0)
M2 == vm_pop(M1)
M3 == vm_pop(M2)

\* The operands, first popped first.
A == At(M0, Top(M0))
B == At(M1, Top(M1))
C == At(M2, Top(M2))

IsNumber(o) == o.type = "fixnum"

(***************************************************************************)
(* vm_literals.c, vm_stack.c                                               *)
(***************************************************************************)

op_lit(v) == Executing("lit") /\ Becomes(vm_push(M0, v))

op_lit_string(s) == Executing("string") /\ Becomes(vm_make_string(M0, s, Len(s)))

op_lit_symbol(s) == Executing("symbol") /\ Becomes(make_symbol(vm_make_string(M0, s, Len(s))))

op_make_symbol ==
  /\ Executing("make_symbol")
  /\ Becomes(IF A.type = "string" THEN make_symbol(vm_push(M1, Top(M0))) ELSE Throw(M1))

op_dup_ref == Executing("dup") /\ Becomes(vm_push(vm_push(M1, Top(M0)), Top(M0)))

op_swap == Executing("swap") /\ Becomes(vm_push(vm_push(M2, Top(M0)), Top(M1)))

op_drop == Executing("drop") /\ Becomes(M1)

op_depth == Executing("depth") /\ Becomes(vm_push(M0, Number(Len(vm.stack))))

(***************************************************************************)
(* vm_list.c                                                               *)
(***************************************************************************)

op_cons ==
  Executing("cons") /\ Becomes(Make(M2, [type |-> "pair", car |-> Top(M0), cdr |-> Top(M1)]))

op_car == Executing("car") /\ Becomes(IF A.type = "pair" THEN vm_push(M1, A.car) ELSE Throw(M1))

op_cdr == Executing("cdr") /\ Becomes(IF A.type = "pair" THEN vm_push(M1, A.cdr) ELSE Throw(M1))

\* The new value is on top, the pair below it is left.
op_set_car ==
  /\ Executing("set_car")
  /\ Becomes(IF B.type = "pair" THEN vm_push([M2 EXCEPT !.obj[Top(M1)].car = Top(M0)], Top(M1))
             ELSE Throw(M2))

op_set_cdr ==
  /\ Executing("set_cdr")
  /\ Becomes(IF B.type = "pair" THEN vm_push([M2 EXCEPT !.obj[Top(M1)].cdr = Top(M0)], Top(M1))
             ELSE Throw(M2))

(***************************************************************************)
(* vm_vector.c                                                             *)
(***************************************************************************)

\* A length is popped and an object made of it.  A negative one is a huge size,
\* which calloc does not have.
MakeSized(make(_, _)) ==
  Becomes(IF ~ IsNumber(A) THEN Throw(M1) ELSE IF A.n < 0 THEN Stop(M1, "fatal") ELSE make(M1, A.n))

Sizes == IF IsNumber(A) THEN A.n <= MaxLength ELSE TRUE

op_make_byte_vector == Executing("vector_u8") /\ Sizes /\ MakeSized(vm_make_byte_vector)
op_make_vector      == Executing("vector") /\ Sizes /\ MakeSized(vm_make_vector)
op_make_record      == Executing("record") /\ Sizes /\ MakeSized(vm_make_record)

Length(o) == IF o.type = "bytes" THEN o.length ELSE Len(o.items)

op_vector_length ==
  /\ Executing("vec_len")
  /\ Becomes(IF A.type \in {"vector", "bytes"} THEN vm_push(M1, Number(Length(A))) ELSE Throw(M1))

\* The memory that the elements are in; a string has its terminator there.
Memory(o) == IF o.type = "bytes" THEN vm.bytes[o.block] ELSE o.items

\* The test for an index lets the length itself and negative numbers pass.
Indexed(m, index, done) ==
  IF ~ IsNumber(index) THEN Throw(m)
  ELSE IF A.type \notin {"vector", "record", "bytes"} THEN Throw(m)
  ELSE IF Length(A) < index.n THEN Throw(m)
  ELSE done

Within(m, i, done) == IF i + 1 \in DOMAIN Memory(A) THEN done ELSE Stop(m, "corrupt")

\* Vector, value and index; nothing is pushed.
op_index_set ==
  /\ Executing("idx_set")
  /\ Becomes(Indexed(M3, C,
       IF A.type # "bytes" THEN Within(M3, C.n, [M3 EXCEPT !.obj[Top(M0)].items[C.n + 1] = Top(M1)])
       ELSE IF ~ IsNumber(B) THEN Throw(M3)
       ELSE Within(M3, C.n, [M3 EXCEPT !.bytes[A.block][C.n + 1] = B.n % BYTES])))

\* Vector and index.
op_index_ref ==
  /\ Executing("idx_ref")
  /\ Becomes(Indexed(M2, B,
       Within(M2, B.n, vm_push(M2, IF A.type = "bytes" THEN Number(Memory(A)[B.n + 1])
                                   ELSE Memory(A)[B.n + 1]))))

\* The vector shares the bytes of the string.
op_string_byte_vector ==
  /\ Executing("str_u8")
  /\ Becomes(IF A.type = "string" THEN Make(M1, [A EXCEPT !.type = "bytes"]) ELSE Throw(M1))

\* Mutant: the string shares the bytes of the vector.
op_byte_vector_string_shared ==
  /\ Executing("u8_str")
  /\ Becomes(IF A.type = "bytes" THEN Make(M1, [A EXCEPT !.type = "string"]) ELSE Throw(M1))

op_byte_vector_string ==
  /\ Executing("u8_str")
  /\ Becomes(IF A.type = "bytes" THEN vm_make_string(M1, Memory(A), A.length) ELSE Throw(M1))

(***************************************************************************)
(* vm_logic.c, vm_ops.c                                                    *)
(***************************************************************************)

\* The first word of an object's value; addresses equal no number.
Word(o) == CASE o.type \in {"fixnum", "bool", "empty"} -> o.n
             [] o.type = "pair" -> Null
             [] OTHER -> IF HasBytes(o) THEN o.length ELSE Len(o.items)

\* What an eq of x (on top) and y may answer; "fatal" is a null pointer read.
\* The types are not compared: the other value is read as one of x's type.
Answers(x, y) ==
  LET o == At(M0, x)
      p == At(M0, y)
  IN  CASE o.type \in {"fixnum", "bool"} -> {IF o.n = Word(p) THEN "true" ELSE "false"}
        [] o.type = "string" /\ HasBytes(p) -> {IF Text(M0, o) = Text(M0, p) THEN "true" ELSE "false"}
        [] o.type = "string" /\ p.type \in {"fixnum", "bool", "empty"} -> {"fatal"}
        [] o.type = "string" /\ p.type \in {"pair", "vector", "record"} -> {"true", "false"}
        [] OTHER -> {IF x = y THEN "true" ELSE "false"}

op_eq ==
  /\ Executing("eq")
  /\ IF M2.status # "running" THEN Becomes(M2)
     ELSE \E answer \in Answers(Top(M0), Top(M1)) :
            Becomes(IF answer = "fatal" THEN Stop(M2, "fatal")
                    ELSE vm_push(M2, Bool(answer = "true")))

op_not == Executing("not") /\ Becomes(vm_push(M1, Bool(Top(M0) = Bool(FALSE))))

\* TYPE_OP: fixnum?, string?, pair? and so on.
op_is(type) == Executing("is") /\ Becomes(vm_push(M1, Bool(A.type = type)))

(***************************************************************************)
(* vm_io.c.  What the operating system answers is left open: an error, or  *)
(* any descriptor and contents.                                            *)
(***************************************************************************)

Contents == Texts \cup {<<0>>}

\* reg1 is given to the new string before the path of the old one is used: if
\* nothing else refers to that, the collector may have freed it by then.  A file
\* that cannot be opened ends the process (buffer_load_string), as does one that
\* cannot be read (module Buffer, ReadFails): both are "fatal".
op_slurp ==
  /\ Executing("slurp")
  /\ IF A.type # "string" THEN Becomes(Throw(M1))
     ELSE \/ \E s \in Contents : Becomes(MakeWithBytes(M1, "string", Len(s), Append(s, 0)))
          \/ Becomes(Stop(M1, "fatal"))
          \/ Top(M0) \notin LiveRefs(M1) /\ Becomes(Stop(M1, "corrupt"))

\* A flag for writing, and a path.
op_open ==
  /\ Executing("open")
  /\ \/ Becomes(Throw(M2))
     \/ /\ A.type = "bool" /\ B.type = "string"
        /\ \E fd \in Numbers \cap Nat : Becomes(vm_push(M2, Number(fd)))

\* Nothing is pushed.
op_close ==
  Executing("close") /\ (Becomes(Throw(M1)) \/ (IsNumber(A) /\ Becomes(M1)))

\* A descriptor, a number of bytes and a vector, whose length is not looked at.
\* Less written than that is an error.
op_fd_write ==
  /\ Executing("fd_write")
  /\ \/ Becomes(Throw(M3))
     \/ /\ IsNumber(A) /\ IsNumber(B) /\ C.type = "bytes"
        /\ Becomes(IF B.n \in 0..Len(vm.bytes[C.block]) THEN vm_push(M3, Number(B.n))
                   ELSE Stop(M3, "corrupt"))

\* A descriptor and a number of bytes: the vector has room for them all, and the
\* length of what was read.
op_fd_read ==
  /\ Executing("fd_read")
  /\ IF ~ (IsNumber(A) /\ IsNumber(B)) THEN Becomes(Throw(M2))
     ELSE IF B.n < 0 THEN Becomes(Stop(M2, "fatal"))
     ELSE \/ Becomes(Throw(M2))
          \/ \E s \in Contents :
               /\ Len(s) <= B.n /\ B.n <= MaxLength
               /\ Becomes(MakeWithBytes(M2, "bytes", Len(s),
                            [i \in 1..B.n |-> IF i <= Len(s) THEN s[i] ELSE 0]))

-----------------------------------------------------------------------------
\* The loop of vm_eval ends.
Exit == vm.status = "running" /\ vm' = [vm EXCEPT !.status = "done"]

Terminated == vm.status # "running" /\ UNCHANGED vm

Next ==
  \/ \E v \in {Number(n) : n \in Numbers} \cup {Bool(TRUE), Bool(FALSE), Empty} : op_lit(v)
  \/ \E s \in Texts : op_lit_string(s)
  \/ \E s \in Texts : op_lit_symbol(s)
  \/ op_make_symbol \/ op_dup_ref \/ op_swap \/ op_drop \/ op_depth
  \/ op_cons \/ op_car \/ op_cdr \/ op_set_car \/ op_set_cdr
  \/ op_make_byte_vector \/ op_make_vector \/ op_make_record \/ op_vector_length
  \/ op_index_set \/ op_index_ref \/ op_string_byte_vector \/ op_byte_vector_string
  \/ op_eq \/ op_not
  \/ op_slurp \/ op_open \/ op_close \/ op_fd_write \/ op_fd_read
  \/ \E type \in {"fixnum", "string", "pair", "record"} : op_is(type)
  \/ Exit
  \/ Terminated

Spec == Init /\ [][Next]_vm

-----------------------------------------------------------------------------
(***************************************************************************)
(* Properties.                                                             *)
(***************************************************************************)

Objs == {r \in Ref : vm.obj[r] # Null}

\* Two symbols with the same text are the same object, however they came about:
\* eq compares symbols by their address.  (make_symbol: "Either make the given
\* object into a symbol or replace it with the symbol version.")  This property
\* and the next two are about programs that do not both make byte vectors with
\* str->u8, which share the bytes of the string, and store by index.
SymbolsInterned ==
  \A r, s \in Objs :
    (vm.obj[r].type = "symbol" /\ vm.obj[s].type = "symbol"
       /\ Text(vm, vm.obj[r]) = Text(vm, vm.obj[s])) => r = s

\* The bytes of a string or symbol end with a 0, however they came about and
\* whatever was done to byte vectors with bytes of their own: strcmp, open and the
\* assembler read up to it.  (Where str->u8 shares the bytes, a store to the index
\* that equals the length would overwrite it.)
StringsTerminated ==
  \A r \in Objs :
    vm.obj[r].type \in {"string", "symbol"} =>
      LET bytes == vm.bytes[vm.obj[r].block] IN Len(bytes) > vm.obj[r].length /\ bytes[Len(bytes)] = 0

\* A string or symbol never changes its text, whatever is stored into byte vectors
\* it was made from with u8->str, which copies.
TextsKept ==
  [][\A r \in Objs :
       (vm.obj[r].type \in {"string", "symbol"} /\ vm'.obj[r] # Null) =>
         Text(vm', vm'.obj[r]) = Text(vm, vm.obj[r])]_vm

\* A slot that was never set reads as a null pointer.  vm_pop stops it from
\* going any further: no pair ever holds one, and none comes back into a vector.
NullsContained ==
  [][\A r \in Objs :
       vm'.obj[r] # Null =>
         /\ vm'.obj[r].type = "pair" => Null \notin Slots(vm'.obj[r])
         /\ vm.obj[r].type \in {"vector", "record"} =>
              \A i \in DOMAIN vm.obj[r].items :
                vm.obj[r].items[i] # Null => vm'.obj[r].items[i] # Null]_vm
============================================================================
