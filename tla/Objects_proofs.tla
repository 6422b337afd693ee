--------------------------- MODULE Objects_proofs ---------------------------
(***************************************************************************)
(* Proofs about the data of the virtual machine, for any sequence of       *)
(* instructions and any number of objects: nothing refers to an object     *)
(* that was collected, null pointers stay where they are, and, as long as  *)
(* nothing is stored through a byte vector that shares its bytes with a    *)
(* string, strings keep their texts and symbols are unique.                *)
(***************************************************************************)
EXTENDS Objects, FiniteSetTheorems, WellFoundedInduction, TLAPS

(***************************************************************************)
(* The invariant, of a machine in the middle of an instruction too.        *)
(***************************************************************************)

Entry == [obj : Ref, key : Block, chain : {Bucket(text) : text \in Seq(Byte)}]

\* How a program ends.
Over == {"thrown", "fatal", "corrupt", "done"}

Machine == [stack : Seq(Slot), obj : [Ref -> Object \cup {Null}],
            bytes : [Block -> Seq(Byte) \cup {Null}], symbol_table : SUBSET Entry,
            status : {"running"} \cup Over]

\* A value whose object, if it refers to one, is there.
There(m, v) == v \in Atom \cup Present(m)

\* The bytes of an object.
BytesOf(m, r) == m.bytes[m.obj[r].block]

IsText(o) == o.type \in {"string", "symbol"}

IsItems(o) == o.type \in {"vector", "record"}

\* The bytes of r are there, all of them.
Backed(m, r) ==
  HasBytes(m.obj[r]) => BytesOf(m, r) # Null /\ m.obj[r].length <= Len(BytesOf(m, r))

\* The key of an entry is the block of its symbol.
Filed(m, e) ==
  m.obj[e.obj] # Null /\ m.obj[e.obj].type = "symbol" /\ m.obj[e.obj].block = e.key

\* Nothing refers to what is not there; a pair holds no null pointer.
Linked(m) ==
  /\ \A i \in DOMAIN m.stack : m.stack[i] = Null \/ There(m, m.stack[i])
  /\ \A r \in Present(m) : \A v \in Slots(m.obj[r]) :
       There(m, v) \/ (v = Null /\ m.obj[r].type # "pair")
  /\ \A r \in Present(m) : Backed(m, r)
  /\ \A e \in m.symbol_table : Filed(m, e)

\* Programs that do not store through byte vectors that share a string's bytes.
StoresApart == ~ ({"str_u8", "idx_set"} \subseteq Instructions)

\* Only str->u8 makes two objects of one block.
Unshared(m) ==
  "str_u8" \notin Instructions =>
    \A r, s \in Present(m) :
      HasBytes(m.obj[r]) /\ HasBytes(m.obj[s]) /\ m.obj[r].block = m.obj[s].block => r = s

\* Every symbol is in the table, in the chain of the text that it has.
Entered(m) ==
  \A r \in Present(m) :
    m.obj[r].type = "symbol" =>
      \E e \in m.symbol_table : e.obj = r /\ e.chain = Bucket(Text(m, m.obj[r]))

Interning(m) ==
  \A r, s \in Present(m) :
    (m.obj[r].type = "symbol" /\ m.obj[s].type = "symbol"
       /\ Text(m, m.obj[r]) = Text(m, m.obj[s])) => r = s

TextsEnd(m) ==
  \A r \in Present(m) :
    IsText(m.obj[r]) => Len(BytesOf(m, r)) > m.obj[r].length /\ BytesOf(m, r)[Len(BytesOf(m, r))] = 0

Words(m) == StoresApart => Unshared(m) /\ Entered(m) /\ Interning(m) /\ TextsEnd(m)

(***************************************************************************)
(* What an instruction may do to the objects that were there before it.    *)
(***************************************************************************)

Stays(m) == Present(vm) \subseteq Present(m)

\* A slot of a vector is never emptied.
ItemsKept(m) ==
  \A r \in Present(vm) :
    IsItems(vm.obj[r]) =>
      /\ IsItems(m.obj[r]) /\ DOMAIN m.obj[r].items = DOMAIN vm.obj[r].items
      /\ \A i \in DOMAIN vm.obj[r].items : vm.obj[r].items[i] # Null => m.obj[r].items[i] # Null

\* The bytes of a string or symbol are left alone.
WordsKept(m) ==
  StoresApart =>
    \A r \in Present(vm) :
      IsText(vm.obj[r]) =>
        /\ IsText(m.obj[r]) /\ m.obj[r].block = vm.obj[r].block
        /\ BytesOf(m, r) = BytesOf(vm, r)

Good(m) == m \in Machine /\ Linked(m) /\ Words(m) /\ Stays(m) /\ ItemsKept(m) /\ WordsKept(m)

\* A machine that has stopped, whatever else became of it.
Dead(m) == "status" \in DOMAIN m /\ m.status \in Over

Fit(m) == Dead(m) \/ Good(m)

\* After an instruction: every block is some object's, and there are few objects.
Counted ==
  /\ Cardinality(Present(vm)) <= MaxLive
  /\ \A b \in Block : vm.bytes[b] # Null =>
       \E r \in Present(vm) : HasBytes(vm.obj[r]) /\ vm.obj[r].block = b

ObjInv == vm \in Machine /\ Linked(vm) /\ Words(vm) /\ Counted

-----------------------------------------------------------------------------
(***************************************************************************)
(* Values, objects and bytes.                                              *)
(***************************************************************************)

\* What kinds of things there are, and that they differ.
LEMMA Kinds ==
  /\ Null \notin Ref /\ Null \notin Block /\ Null \notin Atom /\ Null \notin Object
  /\ Null \notin Seq(Byte) /\ Ref \cap Atom = {}
  /\ Byte \subseteq Nat /\ 0 \in Byte /\ BYTES \in Nat \ {0}
BY ObjectsAssumption DEF Byte

LEMMA Endings == "running" \notin Over /\ {"thrown", "fatal", "corrupt", "done"} \subseteq Over
BY DEF Over

LEMMA BytesAreInts == \A x \in Byte : x \in Int
BY DEF Byte

LEMMA AtomsAre ==
  /\ \A n \in Int : Number(n) \in Atom
  /\ \A b \in BOOLEAN : Bool(b) \in Atom
  /\ Empty \in Atom
BY DEF Atom, Number, Bool, Empty

\* The object of an operand.
LEMMA ObjectOf ==
  ASSUME NEW m \in Machine, NEW v, There(m, v)
  PROVE  /\ v \in Slot /\ v # Null
         /\ v \in Atom => v \notin Ref /\ At(m, v) = v /\ At(m, v).type \in {"fixnum", "bool", "empty"}
         /\ v \notin Atom => v \in Present(m) /\ At(m, v) = m.obj[v] /\ m.obj[v] \in Object
BY Kinds DEF There, Slot, At, Present, Machine, Atom

\* The parts of objects, by type.
LEMMA Parts ==
  ASSUME NEW o \in Object
  PROVE  /\ o.type = "pair" => o.car \in Slot /\ o.cdr \in Slot /\ Slots(o) = {o.car, o.cdr}
         /\ IsItems(o) => o.items \in Seq(Slot) /\ Slots(o) = {o.items[i] : i \in DOMAIN o.items}
         /\ HasBytes(o) => o.block \in Block /\ o.length \in Nat /\ Slots(o) = {}
         /\ o.type \in {"pair", "vector", "record", "string", "symbol", "bytes"}
BY DEF Object, IsItems, HasBytes, Slots

\* Numbers have a least one.
LEMMA Least ==
  ASSUME NEW T \in SUBSET Nat, T # {}
  PROVE  \E n \in T : \A l \in T : n <= l
<1> DEFINE R == OpToRel(<, Nat)
<1>1. IsWellFoundedOn(R, Nat)
  BY NatLessThanWellFounded
<1>2. \A m, n \in Nat : m < n => <<m, n>> \in R
  BY DEF OpToRel
<1> HIDE DEF R
<1>3. PICK n \in T : \A l \in T : ~ (<<l, n>> \in R)
  BY <1>1, WFMin
<1>4. \A l \in T : ~ (l < n)
  BY <1>2, <1>3
<1> QED
  BY <1>4

\* A C string is bytes, no more than there are.
LEMMA CStrings ==
  ASSUME NEW bytes \in Seq(Byte)
  PROVE  CString(bytes) \in Seq(Byte)
<1> DEFINE zeros == {i \in DOMAIN bytes : bytes[i] = 0}
           first == CHOOSE i \in zeros : \A j \in zeros : i <= j
<1>1. CASE zeros = {}
  BY <1>1 DEF CString
<1>2. CASE zeros # {}
  <2>1. zeros \in SUBSET Nat
    OBVIOUS
  <2> HIDE DEF zeros
  <2>2. \E i \in zeros : \A j \in zeros : i <= j
    BY <1>2, <2>1, Least
  <2>3. first \in zeros
    BY <2>2
  <2> HIDE DEF first
  <2>4. first \in 1..Len(bytes)
    BY <2>3 DEF zeros
  <2>5. SubSeq(bytes, 1, first - 1) \in Seq(Byte)
    BY <2>4
  <2>6. CString(bytes) = SubSeq(bytes, 1, first - 1)
    BY <1>2 DEF CString, zeros, first
  <2> QED
    BY <2>5, <2>6
<1> QED
  BY <1>1, <1>2

\* strncpy fills what it is given room for.
LEMMA Copies ==
  ASSUME NEW bytes \in Seq(Byte), NEW length \in 0..Len(bytes)
  PROVE  Copied(bytes, length) \in Seq(Byte) /\ Len(Copied(bytes, length)) = length
<1> DEFINE text == CString(SubSeq(bytes, 1, length))
<1>1. SubSeq(bytes, 1, length) \in Seq(Byte)
  OBVIOUS
<1>2. text \in Seq(Byte)
  BY <1>1, CStrings
<1> HIDE DEF text
<1>3. [i \in 1..length |-> IF i <= Len(text) THEN text[i] ELSE 0] \in [1..length -> Byte]
  BY <1>2, Kinds
<1> QED
  BY <1>3 DEF Copied, text

LEMMA ContentsAreBytes ==
  /\ Texts \subseteq Seq(Byte) /\ Contents \subseteq Seq(Byte)
<1>1. \A s \in Seq(1..(BYTES - 1)) : s \in Seq(Byte)
  BY Kinds DEF Byte
<1>2. <<0>> \in Seq(Byte)
  BY Kinds
<1> QED
  BY <1>1, <1>2, ObjectsAssumption DEF Contents

-----------------------------------------------------------------------------
(***************************************************************************)
(* A machine that has stopped stays as it was.                             *)
(***************************************************************************)

LEMMA StopIsDead ==
  ASSUME NEW m \in Machine, NEW why \in Over
  PROVE  Dead(Stop(m, why))
BY DEF Dead, Stop, Machine

LEMMA ThrowIsDead ==
  ASSUME NEW m \in Machine
  PROVE  Dead(Throw(m))
BY StopIsDead DEF Throw, Over

LEMMA DeadStays ==
  ASSUME NEW m, Dead(m)
  PROVE  /\ \A v : Dead(vm_push(m, v))
         /\ \A why : Dead(Stop(m, why))
         /\ Dead(Throw(m)) /\ Dead(vm_pop(m))
         /\ \A x : Dead([m EXCEPT !.obj = x])
         /\ \A x : Dead([m EXCEPT !.bytes = x])
         /\ \A x : Dead([m EXCEPT !.stack = x])
         /\ \A x, y : Dead([m EXCEPT !.obj = x, !.symbol_table = y])
<1>1. /\ \A x : Dead([m EXCEPT !.obj = x])
      /\ \A x : Dead([m EXCEPT !.bytes = x])
      /\ \A x : Dead([m EXCEPT !.stack = x])
      /\ \A x, y : Dead([m EXCEPT !.obj = x, !.symbol_table = y])
  BY DEF Dead
<1>2. \A why : Stop(m, why) = m
  BY Endings DEF Dead, Stop
<1> QED
  BY <1>1, <1>2 DEF vm_push, vm_pop, Throw

\* Making an object of a stopped machine.
LEMMA DeadMakes ==
  ASSUME NEW m, Dead(m)
  PROVE  /\ \A o : Dead(Make(m, o))
         /\ \A type, length, contents : Dead(MakeWithBytes(m, type, length, contents))
         /\ \A s, n : Dead(vm_make_string(m, s, n))
         /\ \A n : Dead(vm_make_byte_vector(m, n)) /\ Dead(vm_make_vector(m, n))
                   /\ Dead(vm_make_record(m, n))
<1>1. ASSUME NEW k, Dead(k) PROVE \A o : Dead(Make(k, o))
  BY <1>1, DeadStays DEF Make
<1>2. ASSUME NEW type, NEW length, NEW contents
      PROVE  Dead(MakeWithBytes(m, type, length, contents))
  <2>1. Dead([m EXCEPT !.bytes[NewBlock(m)] = contents])
    BY DeadStays
  <2> QED
    BY <1>1, <2>1 DEF MakeWithBytes
<1> QED
  BY <1>1, <1>2 DEF vm_make_string, vm_make_byte_vector, vm_make_vector, vm_make_record

(***************************************************************************)
(* The stack.                                                              *)
(***************************************************************************)

Same(m, c) == c.obj = m.obj /\ c.bytes = m.bytes /\ c.symbol_table = m.symbol_table

\* What is pushed comes before what was there.
LEMMA Pushes ==
  ASSUME NEW s \in Seq(Slot), NEW v \in Slot
  PROVE  /\ <<v>> \o s \in Seq(Slot) /\ DOMAIN (<<v>> \o s) = 1..(Len(s) + 1)
         /\ \A i \in DOMAIN (<<v>> \o s) :
              (<<v>> \o s)[i] = v \/ (i - 1 \in DOMAIN s /\ (<<v>> \o s)[i] = s[i - 1])
         /\ (<<v>> \o s)[1] = v
         /\ Tail(<<v>> \o s) = s
OBVIOUS

\* With the stack only holding what is there, nothing else changes.
LEMMA Restacked ==
  ASSUME NEW m, Good(m), NEW c \in Machine, Same(m, c),
         \A i \in DOMAIN c.stack : c.stack[i] = Null \/ There(m, c.stack[i])
  PROVE  Good(c)
<1>1. Present(c) = Present(m) /\ \A v : There(c, v) = There(m, v)
  BY DEF Same, Present, There
<1>2. \A r : BytesOf(c, r) = BytesOf(m, r) /\ Backed(c, r) = Backed(m, r)
             /\ Text(c, c.obj[r]) = Text(m, m.obj[r])
  BY DEF Same, BytesOf, Backed, Text
<1>3. Linked(c)
  BY <1>1, <1>2 DEF Same, Good, Linked, Filed
<1>4. Words(c)
  BY <1>1, <1>2 DEF Same, Good, Words, Unshared, Entered, Interning, TextsEnd
<1>5. Stays(c) /\ ItemsKept(c) /\ WordsKept(c)
  BY <1>1, <1>2 DEF Same, Good, Stays, ItemsKept, WordsKept
<1> QED
  BY <1>3, <1>4, <1>5 DEF Good

LEMMA PushGood ==
  ASSUME NEW m, Good(m), NEW v, v = Null \/ There(m, v)
  PROVE  Good(vm_push(m, v)) /\ Same(m, vm_push(m, v))
<1> DEFINE c == vm_push(m, v)
<1>1. v \in Slot /\ m \in Machine
  BY ObjectOf DEF Good, Slot
<1>2. c.stack = <<v>> \o m.stack /\ Same(m, c) /\ c.status = m.status
  BY <1>1 DEF Machine, vm_push, Same
<1>3. m.stack \in Seq(Slot)
  BY <1>1 DEF Machine
<1>4. c \in Machine
  BY <1>1, <1>3, Pushes DEF Machine, vm_push
<1>5. \A i \in DOMAIN m.stack : m.stack[i] = Null \/ There(m, m.stack[i])
  BY DEF Good, Linked
<1>6. \A i \in DOMAIN c.stack : c.stack[i] = Null \/ There(m, c.stack[i])
  BY <1>1, <1>2, <1>3, <1>5, Pushes
<1> QED
  BY <1>2, <1>4, <1>6, Restacked

\* What is popped is there.
LEMMA PopGood ==
  ASSUME NEW m, Good(m), NEW c, c = vm_pop(m), c.status = "running"
  PROVE  Good(c) /\ Same(m, c) /\ There(m, Top(m)) /\ c.stack = Tail(m.stack)
<1>1. m \in Machine /\ m.stack \in Seq(Slot)
  BY DEF Good, Machine
<1>2. m.stack # <<>> /\ Head(m.stack) # Null
  <2>1. Stop(m, "fatal").status # "running"
    BY <1>1 DEF Stop, Machine
  <2> QED
    BY <2>1 DEF vm_pop
<1>3. c = [m EXCEPT !.stack = Tail(@)]
  BY <1>2 DEF vm_pop
<1>4. Tail(m.stack) \in Seq(Slot) /\ DOMAIN Tail(m.stack) = 1..(Len(m.stack) - 1)
      /\ \A i \in DOMAIN Tail(m.stack) : i + 1 \in DOMAIN m.stack /\ Tail(m.stack)[i] = m.stack[i + 1]
  BY <1>1, <1>2
<1>5. c \in Machine /\ Same(m, c) /\ c.stack = Tail(m.stack)
  BY <1>1, <1>3, <1>4 DEF Machine, Same
<1>6. \A i \in DOMAIN m.stack : m.stack[i] = Null \/ There(m, m.stack[i])
  BY DEF Good, Linked
<1>7. 1 \in DOMAIN m.stack /\ Head(m.stack) = m.stack[1] /\ Top(m) = m.stack[1]
  BY <1>1, <1>2 DEF Top
<1>8. Good(c)
  BY <1>4, <1>5, <1>6, Restacked
<1> QED
  BY <1>2, <1>5, <1>6, <1>7, <1>8

\* A machine stays one, and a stopped one stopped.
LEMMA PopOf ==
  ASSUME NEW m \in Machine
  PROVE  /\ vm_pop(m) \in Machine
         /\ vm_pop(m).status = "running" => m.status = "running"
<1>1. m.stack \in Seq(Slot)
  BY DEF Machine
<1>2. CASE m.stack = <<>> \/ Head(m.stack) = Null
  <2>1. vm_pop(m) = Stop(m, "fatal")
    BY <1>2 DEF vm_pop
  <2>2. [m EXCEPT !.status = "fatal"] \in Machine
    BY Endings DEF Machine
  <2>3. Stop(m, "fatal") \in Machine
    BY <2>2 DEF Stop
  <2>4. Dead(Stop(m, "fatal"))
    BY StopIsDead, Endings
  <2> QED
    BY <2>1, <2>3, <2>4, Endings DEF Dead
<1>3. CASE m.stack # <<>> /\ Head(m.stack) # Null
  <2>1. Tail(m.stack) \in Seq(Slot)
    BY <1>1, <1>3
  <2> QED
    BY <1>3, <2>1 DEF vm_pop, Machine
<1> QED
  BY <1>2, <1>3

(***************************************************************************)
(* The operands of an instruction.                                         *)
(***************************************************************************)

\* The machine as the last instruction left it.
LEMMA StartsGood ==
  ASSUME ObjInv
  PROVE  Good(M0) /\ M0 = vm /\ vm \in Machine
<1>1. Stays(vm) /\ ItemsKept(vm) /\ WordsKept(vm)
  BY DEF Stays, ItemsKept, WordsKept
<1> QED
  BY <1>1 DEF ObjInv, Good, M0

\* Once an operand was missing, the machine has stopped.
LEMMA Stopped ==
  ASSUME ObjInv
  PROVE  /\ M1 \in Machine /\ M2 \in Machine /\ M3 \in Machine
         /\ Dead(M1) \/ M1.status = "running"
         /\ Dead(M2) \/ (M2.status = "running" /\ M1.status = "running")
         /\ Dead(M3) \/ (M3.status = "running" /\ M2.status = "running" /\ M1.status = "running")
<1>1. /\ M1 \in Machine /\ M2 \in Machine /\ M3 \in Machine
      /\ M2.status = "running" => M1.status = "running"
      /\ M3.status = "running" => M2.status = "running"
  BY StartsGood, PopOf DEF M1, M2, M3
<1>2. \A m \in Machine : Dead(m) \/ m.status = "running"
  BY DEF Machine, Dead
<1>3. \A m : Dead(m) => m.status # "running"
  BY Endings DEF Dead
<1> QED
  BY <1>1, <1>2, <1>3

\* Before it has altered anything.
Early(m) == Good(m) /\ Same(vm, m)

LEMMA Operand1 ==
  ASSUME ObjInv, M1.status = "running"
  PROVE  Early(M1) /\ There(vm, Top(M0)) /\ A = At(vm, Top(M0))
BY StartsGood, PopGood DEF M0, M1, Early, A

LEMMA Operand2 ==
  ASSUME ObjInv, M2.status = "running"
  PROVE  Early(M2) /\ There(vm, Top(M1)) /\ B = At(vm, Top(M1))
<1>1. Early(M1)
  BY Stopped, Operand1, Endings DEF Dead
<1>2. Good(M2) /\ Same(M1, M2) /\ There(M1, Top(M1))
  BY <1>1, PopGood DEF M2, Early
<1> QED
  BY <1>1, <1>2 DEF Early, Same, There, Present, B, At

LEMMA Operand3 ==
  ASSUME ObjInv, M3.status = "running"
  PROVE  Early(M3) /\ There(vm, Top(M2)) /\ C = At(vm, Top(M2))
<1>1. Early(M2)
  BY Stopped, Operand2, Endings DEF Dead
<1>2. Good(M3) /\ Same(M2, M3) /\ There(M2, Top(M2))
  BY <1>1, PopGood DEF M3, Early
<1> QED
  BY <1>1, <1>2 DEF Early, Same, There, Present, C, At

\* What a slot of an object that is there refers to is there.
LEMMA PartsThere ==
  ASSUME NEW m, Good(m), NEW r \in Present(m)
  PROVE  /\ m.obj[r] \in Object
         /\ m.obj[r].type = "pair" => There(m, m.obj[r].car) /\ There(m, m.obj[r].cdr)
         /\ IsItems(m.obj[r]) =>
              \A i \in DOMAIN m.obj[r].items : m.obj[r].items[i] = Null \/ There(m, m.obj[r].items[i])
         /\ HasBytes(m.obj[r]) =>
              BytesOf(m, r) \in Seq(Byte) /\ m.obj[r].length \in 0..Len(BytesOf(m, r))
<1>1. m.obj[r] \in Object /\ m.bytes \in [Block -> Seq(Byte) \cup {Null}]
  BY DEF Good, Machine, Present
<1>2. \A v \in Slots(m.obj[r]) : There(m, v) \/ (v = Null /\ m.obj[r].type # "pair")
  BY DEF Good, Linked
<1>3. Backed(m, r)
  BY DEF Good, Linked
<1>4. m.obj[r].type = "pair" => There(m, m.obj[r].car) /\ There(m, m.obj[r].cdr)
  BY <1>1, <1>2, Parts
<1>5. IsItems(m.obj[r]) =>
        \A i \in DOMAIN m.obj[r].items : m.obj[r].items[i] = Null \/ There(m, m.obj[r].items[i])
  BY <1>1, <1>2, Parts
<1>6. HasBytes(m.obj[r]) =>
        BytesOf(m, r) \in Seq(Byte) /\ m.obj[r].length \in 0..Len(BytesOf(m, r))
  BY <1>1, <1>3, Parts DEF Backed, BytesOf
<1> QED
  BY <1>1, <1>4, <1>5, <1>6

(***************************************************************************)
(* Making objects.                                                         *)
(***************************************************************************)

\* There is an address for one more object, and one for its bytes.
LEMMA Room ==
  ASSUME ObjInv
  PROVE  /\ NewRef(vm) \in Ref /\ vm.obj[NewRef(vm)] = Null
         /\ NewBlock(vm) \in Block /\ vm.bytes[NewBlock(vm)] = Null
<1>0. /\ IsFiniteSet(Ref) /\ Cardinality(Ref) > MaxLive /\ MaxLive \in Nat
      /\ IsFiniteSet(Block) /\ Cardinality(Block) > MaxLive
  BY ObjectsAssumption
<1>1. Present(vm) \in SUBSET Ref
  BY DEF Present
<1>2. IsFiniteSet(Present(vm)) /\ Cardinality(Present(vm)) \in Nat /\ Cardinality(Present(vm)) <= MaxLive
  BY <1>0, <1>1, FS_Subset, FS_CardinalityType DEF ObjInv, Counted
<1>3. PICK free \in Ref : vm.obj[free] = Null
  <2>1. CASE Present(vm) = Ref
    BY <1>0, <1>2, <2>1, FS_CardinalityType
  <2>2. CASE Present(vm) # Ref
    BY <2>2 DEF Present
  <2> QED
    BY <2>1, <2>2
<1>4. PICK b \in Block : vm.bytes[b] = Null
  <2> SUFFICES ASSUME \A b \in Block : vm.bytes[b] # Null
               PROVE  FALSE
    OBVIOUS
  <2> DEFINE Owners == {r \in Present(vm) : HasBytes(vm.obj[r])}
             owned  == [r \in Owners |-> vm.obj[r].block]
  <2>1. IsFiniteSet(Owners) /\ Cardinality(Owners) \in Nat
        /\ Cardinality(Owners) <= Cardinality(Present(vm))
    BY <1>2, FS_Subset, FS_CardinalityType
  <2>2. \A r \in Owners : vm.obj[r].block \in Block
    BY StartsGood, PartsThere, Parts DEF M0
  <2>3. \A b \in Block : \E r \in Owners : vm.obj[r].block = b
    BY DEF ObjInv, Counted
  <2>4. owned \in Surjection(Owners, Block)
    BY <2>2, <2>3 DEF Surjection
  <2> HIDE DEF Owners, owned
  <2>5. Cardinality(Block) <= Cardinality(Owners)
    BY <2>1, <2>4, FS_Surjection
  <2>6. Cardinality(Block) \in Nat
    BY <1>0, FS_CardinalityType
  <2> QED
    BY <1>0, <1>2, <2>1, <2>5, <2>6
<1> QED
  BY <1>3, <1>4 DEF NewRef, NewBlock

-----------------------------------------------------------------------------
(***************************************************************************)
(* An object is made, or altered.                                          *)
(***************************************************************************)

\* o may be put in the place of p: a vector keeps what is in it, and a string
\* or symbol its bytes.
Replaces(o, p) ==
  p # Null =>
    /\ IsItems(p) => /\ IsItems(o) /\ DOMAIN o.items = DOMAIN p.items
                     /\ \A i \in DOMAIN p.items : p.items[i] # Null => o.items[i] # Null
    /\ IsText(p) => IsText(o) /\ o.block = p.block

\* What o refers to is there.
Refers(m, o) ==
  /\ \A v \in Slots(o) : There(m, v) \/ (v = Null /\ o.type # "pair")
  /\ HasBytes(o) => m.bytes[o.block] # Null /\ o.length <= Len(m.bytes[o.block])

\* o is put at the address r.
Puts(m, c, r, o) ==
  /\ c \in Machine /\ c.stack = m.stack /\ c.bytes = m.bytes
  /\ c.obj = [m.obj EXCEPT ![r] = o]

LEMMA PutsObject ==
  ASSUME NEW m \in Machine, NEW c, NEW r \in Ref, NEW o \in Object, Puts(m, c, r, o)
  PROVE  /\ c.obj[r] = o /\ o # Null /\ \A s \in Ref : s # r => c.obj[s] = m.obj[s]
         /\ Present(c) = Present(m) \cup {r}
         /\ \A v : There(m, v) => There(c, v)
         /\ There(c, r)
<1>1. c.obj[r] = o /\ o # Null /\ \A s \in Ref : s # r => c.obj[s] = m.obj[s]
  BY Kinds DEF Puts, Machine
<1>2. Present(c) = Present(m) \cup {r}
  BY <1>1 DEF Present
<1> QED
  BY <1>1, <1>2 DEF There

\* What does not depend on the table of symbols.
LEMMA Placed ==
  ASSUME NEW m, Good(m), NEW c, NEW r \in Ref, NEW o \in Object, Puts(m, c, r, o),
         Refers(m, o), Replaces(o, m.obj[r])
  PROVE  /\ \A i \in DOMAIN c.stack : c.stack[i] = Null \/ There(c, c.stack[i])
         /\ \A s \in Present(c) : \A v \in Slots(c.obj[s]) :
              There(c, v) \/ (v = Null /\ c.obj[s].type # "pair")
         /\ \A s \in Present(c) : Backed(c, s)
         /\ Stays(c) /\ ItemsKept(c) /\ WordsKept(c)
<1>0. m \in Machine /\ c.bytes = m.bytes /\ c.stack = m.stack
  BY DEF Good, Puts
<1>1. /\ c.obj[r] = o /\ o # Null /\ \A s \in Ref : s # r => c.obj[s] = m.obj[s]
      /\ Present(c) = Present(m) \cup {r} /\ Present(c) \subseteq Ref
      /\ \A v : There(m, v) => There(c, v)
  <2>1. Present(c) \subseteq Ref
    BY DEF Present
  <2> QED
    BY <1>0, <2>1, PutsObject
<1>2. \A i \in DOMAIN c.stack : c.stack[i] = Null \/ There(c, c.stack[i])
  BY <1>0, <1>1 DEF Good, Linked
<1>3. ASSUME NEW s \in Present(c)
      PROVE  /\ \A v \in Slots(c.obj[s]) : There(c, v) \/ (v = Null /\ c.obj[s].type # "pair")
             /\ Backed(c, s)
  <2>1. CASE s = r
    BY <1>0, <1>1, <2>1 DEF Refers, Backed, BytesOf
  <2>2. CASE s # r
    <3>1. s \in Present(m) /\ c.obj[s] = m.obj[s]
      BY <1>1, <2>2
    <3>2. /\ \A v \in Slots(m.obj[s]) : There(m, v) \/ (v = Null /\ m.obj[s].type # "pair")
          /\ Backed(m, s)
      BY <3>1 DEF Good, Linked
    <3> QED
      BY <1>0, <1>1, <3>1, <3>2 DEF Backed, BytesOf
  <2> QED
    BY <2>1, <2>2
<1>4. Stays(c)
  BY <1>1 DEF Good, Stays
<1>5. ItemsKept(c)
  <2> SUFFICES ASSUME NEW s \in Present(vm), IsItems(vm.obj[s])
               PROVE  /\ IsItems(c.obj[s])
                      /\ DOMAIN c.obj[s].items = DOMAIN vm.obj[s].items
                      /\ \A i \in DOMAIN vm.obj[s].items :
                           vm.obj[s].items[i] # Null => c.obj[s].items[i] # Null
    BY DEF ItemsKept
  <2>1. /\ s \in Present(m) /\ IsItems(m.obj[s])
        /\ DOMAIN m.obj[s].items = DOMAIN vm.obj[s].items
        /\ \A i \in DOMAIN vm.obj[s].items : vm.obj[s].items[i] # Null => m.obj[s].items[i] # Null
    BY DEF Good, Stays, ItemsKept
  <2>2. CASE s = r
    <3>1. m.obj[r] # Null
      BY <2>1, <2>2 DEF Present
    <3> QED
      BY <1>1, <2>1, <2>2, <3>1 DEF Replaces
  <2>3. CASE s # r
    BY <1>1, <2>1, <2>3
  <2> QED
    BY <2>2, <2>3
<1>6. WordsKept(c)
  <2> SUFFICES ASSUME StoresApart, NEW s \in Present(vm), IsText(vm.obj[s])
               PROVE  /\ IsText(c.obj[s]) /\ c.obj[s].block = vm.obj[s].block
                      /\ BytesOf(c, s) = BytesOf(vm, s)
    BY DEF WordsKept
  <2>1. /\ s \in Present(m) /\ IsText(m.obj[s]) /\ m.obj[s].block = vm.obj[s].block
        /\ BytesOf(m, s) = BytesOf(vm, s)
    BY DEF Good, Stays, WordsKept
  <2>2. IsText(c.obj[s]) /\ c.obj[s].block = m.obj[s].block
    BY <1>1, <2>1 DEF Replaces, Present
  <2> QED
    BY <1>0, <2>1, <2>2 DEF BytesOf
<1> QED
  BY <1>2, <1>3, <1>4, <1>5, <1>6

\* When neither is a symbol, the table has nothing to do with it.
LEMMA PutGood ==
  ASSUME NEW m, Good(m), NEW c, NEW r \in Ref, NEW o \in Object, Puts(m, c, r, o),
         c.symbol_table = m.symbol_table, Refers(m, o), Replaces(o, m.obj[r]),
         o.type # "symbol", m.obj[r] # Null => m.obj[r].type # "symbol",
         StoresApart /\ IsText(o) =>
           Len(m.bytes[o.block]) > o.length /\ m.bytes[o.block][Len(m.bytes[o.block])] = 0,
         StoresApart /\ "str_u8" \notin Instructions /\ HasBytes(o) =>
           \A s \in Present(m) : s # r /\ HasBytes(m.obj[s]) => m.obj[s].block # o.block
  PROVE  Good(c) /\ There(c, r)
<1>0. m \in Machine /\ c \in Machine /\ c.bytes = m.bytes
  BY DEF Good, Puts
<1>1. /\ c.obj[r] = o /\ \A s \in Ref : s # r => c.obj[s] = m.obj[s]
      /\ Present(c) = Present(m) \cup {r} /\ There(c, r)
  BY <1>0, PutsObject
<1>2. \A s \in Present(c) : s # r => s \in Present(m) /\ c.obj[s] = m.obj[s]
                                     /\ BytesOf(c, s) = BytesOf(m, s)
                                     /\ Text(c, c.obj[s]) = Text(m, m.obj[s])
  BY <1>0, <1>1 DEF Present, BytesOf, Text
<1>3. \A e \in c.symbol_table : Filed(c, e)
  <2> TAKE e \in c.symbol_table
  <2>1. Filed(m, e)
    BY DEF Good, Linked
  <2>2. e.obj \in Ref
    BY <1>0 DEF Machine, Entry
  <2> QED
    BY <1>1, <2>1, <2>2 DEF Filed
<1>4. Linked(c)
  BY <1>3, Placed DEF Linked
<1>5. ASSUME StoresApart PROVE Unshared(c) /\ Entered(c) /\ Interning(c) /\ TextsEnd(c)
  <2>1. Unshared(m) /\ Entered(m) /\ Interning(m) /\ TextsEnd(m)
    BY <1>5 DEF Good, Words
  <2>2. Unshared(c)
    BY <1>1, <1>2, <1>5, <2>1 DEF Unshared
  <2>3. Entered(c)
    BY <1>1, <1>2, <2>1 DEF Entered
  <2>4. Interning(c)
    BY <1>1, <1>2, <2>1 DEF Interning
  <2>5. TextsEnd(c)
    <3> SUFFICES ASSUME NEW s \in Present(c), IsText(c.obj[s])
                 PROVE  Len(BytesOf(c, s)) > c.obj[s].length /\ BytesOf(c, s)[Len(BytesOf(c, s))] = 0
      BY DEF TextsEnd
    <3>1. CASE s = r
      BY <1>0, <1>1, <1>5, <3>1 DEF BytesOf
    <3>2. CASE s # r
      BY <1>2, <2>1, <3>2 DEF TextsEnd
    <3> QED
      BY <3>1, <3>2
  <2> QED
    BY <2>2, <2>3, <2>4, <2>5
<1> QED
  BY <1>0, <1>1, <1>4, <1>5, Placed DEF Good, Words

\* An object that is no text and shares no bytes unless str->u8 may, pushed.
LEMMA MakeGood ==
  ASSUME ObjInv, NEW m, Early(m), NEW o \in Object, ~ IsText(o), Refers(m, o),
         HasBytes(o) => "str_u8" \in Instructions
  PROVE  Good(Make(m, o))
<1> DEFINE r == NewRef(m)
           c == [m EXCEPT !.obj[r] = o]
<1>1. m \in Machine /\ r \in Ref /\ m.obj[r] = Null
  BY Room DEF Early, Good, Same, NewRef
<1>2. c \in Machine /\ Puts(m, c, r, o) /\ c.symbol_table = m.symbol_table
  BY <1>1 DEF Machine, Puts
<1>3. Good(m) /\ o.type # "symbol" /\ Replaces(o, m.obj[r])
  BY <1>1 DEF Early, IsText, Replaces
<1> HIDE DEF r, c
<1>4. Good(c) /\ There(c, r)
  BY <1>1, <1>2, <1>3, PutGood
<1>5. Good(vm_push(c, r))
  BY <1>4, PushGood
<1> QED
  BY <1>5 DEF Make, r, c

\* What is known of words is about their texts, the objects and the table.
LEMMA WordsCarry ==
  ASSUME NEW m, Words(m), NEW c, c.obj = m.obj, c.symbol_table = m.symbol_table,
         StoresApart =>
           \A s \in Present(m) : IsText(m.obj[s]) =>
             BytesOf(c, s) = BytesOf(m, s) /\ Text(c, m.obj[s]) = Text(m, m.obj[s])
  PROVE  Words(c)
<1> SUFFICES ASSUME StoresApart
             PROVE  Unshared(c) /\ Entered(c) /\ Interning(c) /\ TextsEnd(c)
  BY DEF Words
<1>1. Unshared(m) /\ Entered(m) /\ Interning(m) /\ TextsEnd(m)
  BY DEF Words
<1>2. Present(c) = Present(m)
  BY DEF Present
<1>3. \A s \in Present(m) : IsText(m.obj[s]) =>
        BytesOf(c, s) = BytesOf(m, s) /\ Text(c, m.obj[s]) = Text(m, m.obj[s])
  OBVIOUS
<1>4. \A s : m.obj[s].type = "symbol" => IsText(m.obj[s])
  BY DEF IsText
<1>5. Unshared(c)
  BY <1>1, <1>2 DEF Unshared
<1>6. Entered(c)
  BY <1>1, <1>2, <1>3, <1>4 DEF Entered
<1>7. Interning(c)
  <2> SUFFICES ASSUME NEW r \in Present(c), NEW s \in Present(c),
                      c.obj[r].type = "symbol", c.obj[s].type = "symbol",
                      Text(c, c.obj[r]) = Text(c, c.obj[s])
               PROVE  r = s
    BY DEF Interning
  <2>1. Text(m, m.obj[r]) = Text(m, m.obj[s])
    BY <1>2, <1>3, <1>4
  <2> QED
    BY <1>1, <1>2, <2>1 DEF Interning
<1>8. TextsEnd(c)
  <2> SUFFICES ASSUME NEW s \in Present(c), IsText(c.obj[s])
               PROVE  /\ Len(BytesOf(c, s)) > c.obj[s].length
                      /\ BytesOf(c, s)[Len(BytesOf(c, s))] = 0
    BY DEF TextsEnd
  <2>1. BytesOf(c, s) = BytesOf(m, s)
    BY <1>2, <1>3
  <2> QED
    BY <1>1, <1>2, <2>1 DEF TextsEnd
<1> QED
  BY <1>5, <1>6, <1>7, <1>8

\* A block is filled that nothing refers to.
LEMMA FillGood ==
  ASSUME NEW m, Good(m), NEW b \in Block, m.bytes[b] = Null, NEW contents \in Seq(Byte),
         NEW c \in Machine, c.obj = m.obj, c.stack = m.stack, c.symbol_table = m.symbol_table,
         c.bytes = [m.bytes EXCEPT ![b] = contents]
  PROVE  /\ Good(c)
         /\ \A s \in Present(m) : HasBytes(m.obj[s]) => m.obj[s].block # b
<1>1. /\ m \in Machine /\ c \in Machine /\ c.obj = m.obj /\ c.stack = m.stack
      /\ c.symbol_table = m.symbol_table /\ c.bytes = [m.bytes EXCEPT ![b] = contents]
      /\ c.bytes[b] = contents
  BY DEF Good, Machine
<1>2. Present(c) = Present(m) /\ \A v : There(c, v) = There(m, v)
  BY <1>1 DEF Present, There
<1>3. ASSUME NEW s \in Present(m), HasBytes(m.obj[s])
      PROVE  m.obj[s].block # b /\ m.obj[s].block \in Block
             /\ BytesOf(c, s) = BytesOf(m, s) /\ Text(c, m.obj[s]) = Text(m, m.obj[s])
  <2>1. m.obj[s] \in Object /\ BytesOf(m, s) # Null
    BY <1>1, <1>3 DEF Good, Linked, Backed, Machine, Present
  <2>2. m.obj[s].block \in Block /\ m.obj[s].block # b
    BY <1>3, <2>1, Parts DEF BytesOf
  <2> QED
    BY <1>1, <2>2 DEF BytesOf, Text, Machine
<1>4. Linked(c)
  BY <1>1, <1>2, <1>3 DEF Good, Linked, Backed, Filed
<1>5. \A s \in Present(m) : IsText(m.obj[s]) \/ m.obj[s].type = "symbol" => HasBytes(m.obj[s])
  BY DEF IsText, HasBytes
<1>6. Words(c)
  <2>1. Words(m)
    BY DEF Good
  <2> QED
    BY <1>1, <1>3, <1>5, <2>1, WordsCarry
<1>7. Stays(c) /\ ItemsKept(c)
  BY <1>1, <1>2 DEF Good, Stays, ItemsKept
<1>8. WordsKept(c)
  <2> SUFFICES ASSUME StoresApart, NEW s \in Present(vm), IsText(vm.obj[s])
               PROVE  /\ IsText(c.obj[s]) /\ c.obj[s].block = vm.obj[s].block
                      /\ BytesOf(c, s) = BytesOf(vm, s)
    BY DEF WordsKept
  <2>1. s \in Present(m) /\ IsText(m.obj[s]) /\ m.obj[s].block = vm.obj[s].block
        /\ BytesOf(m, s) = BytesOf(vm, s)
    BY DEF Good, Stays, WordsKept
  <2> QED
    BY <1>1, <1>3, <1>5, <2>1
<1> QED
  BY <1>1, <1>3, <1>4, <1>6, <1>7, <1>8 DEF Good

\* What makes a new string or byte vector.
NewText(type, length, contents) ==
  /\ type \in {"string", "bytes"} /\ contents \in Seq(Byte) /\ length \in 0..Len(contents)
  /\ type = "string" => Len(contents) > length /\ contents[Len(contents)] = 0

\* An object with bytes of its own, pushed, with its address on top.
LEMMA MakeWithBytesGood ==
  ASSUME ObjInv, NEW m, Early(m), NEW type, NEW length, NEW contents,
         NewText(type, length, contents), NEW c, c = MakeWithBytes(m, type, length, contents)
  PROVE  /\ Good(c) /\ Head(c.stack) \in Present(c) /\ c.obj[Head(c.stack)].type = type
         /\ c.stack # <<>>
<1> DEFINE b == NewBlock(m)
           r == NewRef(m)
           o == [type |-> type, block |-> b, length |-> length]
           d == [m EXCEPT !.bytes[b] = contents]
           e == [d EXCEPT !.obj[r] = o]
<1>1. /\ m \in Machine /\ r \in Ref /\ m.obj[r] = Null /\ b \in Block /\ m.bytes[b] = Null
      /\ Good(m)
  BY Room DEF Early, Good, Same, NewRef, NewBlock
<1>2. /\ o \in Object /\ HasBytes(o) /\ Slots(o) = {} /\ o.type # "symbol" /\ o.block = b
      /\ o.length = length /\ o.type = type
      /\ IsText(o) => type = "string"
      /\ contents \in Seq(Byte) /\ length \in Nat /\ length <= Len(contents)
  BY <1>1 DEF NewText, Object, HasBytes, Slots, IsText
<1>3. /\ Good(d) /\ d.obj = m.obj /\ d.bytes[b] = contents /\ NewRef(d) = r
      /\ \A s \in Present(m) : HasBytes(m.obj[s]) => m.obj[s].block # b
  <2>1. contents \in Seq(Byte)
    BY <1>2
  <2> HIDE DEF b
  <2>2. b \in Block /\ m.bytes[b] = Null /\ Good(m)
    BY <1>1
  <2>3. /\ d \in Machine /\ d.obj = m.obj /\ d.stack = m.stack
        /\ d.symbol_table = m.symbol_table /\ d.bytes = [m.bytes EXCEPT ![b] = contents]
    BY <1>1, <2>1 DEF Machine
  <2> HIDE DEF d
  <2>4. Good(d) /\ \A s \in Present(m) : HasBytes(m.obj[s]) => m.obj[s].block # b
    BY <2>1, <2>2, <2>3, FillGood
  <2>5. d.bytes[b] = contents
    BY <1>1, <2>2, <2>3 DEF Machine
  <2> QED
    BY <2>3, <2>4, <2>5 DEF NewRef
<1>4. d \in Machine /\ d.obj[r] = Null
  BY <1>1, <1>3 DEF Good
<1> HIDE DEF o, d
<1>5. e \in Machine /\ Puts(d, e, r, o) /\ e.symbol_table = d.symbol_table
  BY <1>1, <1>2, <1>4 DEF Machine, Puts
<1>6. Refers(d, o) /\ Replaces(o, d.obj[r])
  <2>1. contents # Null
    BY <1>2, Kinds
  <2>2. d.bytes[o.block] = contents
    BY <1>2, <1>3
  <2>3. o.length <= Len(contents) /\ Slots(o) = {}
    BY <1>2
  <2>4. Refers(d, o)
    BY <2>1, <2>2, <2>3 DEF Refers
  <2> QED
    BY <1>4, <2>4 DEF Replaces
<1>7. Present(d) = Present(m)
  BY <1>3 DEF Present
<1> HIDE DEF b, r, e
<1>8. Good(e) /\ There(e, r)
  <2>1. IsText(o) => Len(d.bytes[o.block]) > o.length /\ d.bytes[o.block][Len(d.bytes[o.block])] = 0
    <3>1. d.bytes[o.block] = contents /\ o.length = length
      BY <1>2, <1>3
    <3>2. IsText(o) => Len(contents) > length /\ contents[Len(contents)] = 0
      BY <1>2 DEF NewText
    <3> QED
      BY <3>1, <3>2
  <2>2. \A s \in Present(d) : HasBytes(d.obj[s]) => d.obj[s].block # o.block
    BY <1>2, <1>3, <1>7
  <2>3. Good(d) /\ r \in Ref /\ o \in Object /\ o.type # "symbol" /\ d.obj[r] = Null
    BY <1>1, <1>2, <1>3, <1>4
  <2> QED
    BY <1>5, <1>6, <2>1, <2>2, <2>3, PutGood
<1>9. e.obj[r] = o /\ r \in Present(e)
  BY <1>1, <1>2, <1>4, <1>5, PutsObject
<1>10. Good(vm_push(e, r)) /\ Same(e, vm_push(e, r))
  BY <1>8, PushGood
<1>11. vm_push(e, r).stack = <<r>> \o e.stack /\ e.stack \in Seq(Slot) /\ r \in Slot
  BY <1>1, <1>8 DEF vm_push, Machine, Good, Slot
<1>12. vm_push(e, r).stack # <<>> /\ Head(vm_push(e, r).stack) = r
  BY <1>11
<1>13. c = vm_push(e, r)
  BY <1>3 DEF MakeWithBytes, Make, o, d, e, b
<1>14. Present(c) = Present(e) /\ c.obj = e.obj
  BY <1>10, <1>13 DEF Same, Present
<1>15. Head(c.stack) = r /\ c.stack # <<>> /\ Good(c)
  BY <1>10, <1>12, <1>13
<1> QED
  <2>1. c.obj[Head(c.stack)] = o /\ Head(c.stack) \in Present(c)
    BY <1>9, <1>14, <1>15
  <2>2. o.type = type
    BY <1>2
  <2> QED
    BY <1>15, <2>1, <2>2

\* A pair is given another car or cdr.
LEMMA SetPairGood ==
  ASSUME NEW m, Good(m), NEW r \in Present(m), m.obj[r].type = "pair", NEW v, There(m, v)
  PROVE  /\ Good([m EXCEPT !.obj[r].car = v]) /\ There([m EXCEPT !.obj[r].car = v], r)
         /\ Good([m EXCEPT !.obj[r].cdr = v]) /\ There([m EXCEPT !.obj[r].cdr = v], r)
<1> DEFINE p == m.obj[r]
           a == [p EXCEPT !.car = v]
           d == [p EXCEPT !.cdr = v]
<1>1. m \in Machine /\ r \in Ref /\ p \in Object /\ p # Null
  BY DEF Good, Machine, Present
<1>2. v \in Slot /\ v # Null
  BY <1>1, ObjectOf
<1>3. p \in [type : {"pair"}, car : Slot, cdr : Slot]
  BY <1>1 DEF Object
<1> HIDE DEF p
<1>4. /\ a \in Object /\ a.type = "pair" /\ a.car = v /\ a.cdr = p.cdr
      /\ d \in Object /\ d.type = "pair" /\ d.car = p.car /\ d.cdr = v
  BY <1>2, <1>3 DEF Object
<1>5. There(m, p.car) /\ There(m, p.cdr)
  BY PartsThere DEF p
<1>6. ASSUME NEW o \in Object, o.type = "pair", There(m, o.car), There(m, o.cdr)
      PROVE  Good([m EXCEPT !.obj[r] = o]) /\ There([m EXCEPT !.obj[r] = o], r)
  <2> DEFINE c == [m EXCEPT !.obj[r] = o]
  <2>1. c \in Machine /\ Puts(m, c, r, o) /\ c.symbol_table = m.symbol_table
    BY <1>1 DEF Machine, Puts
  <2> HIDE DEF c
  <2>2. ~ HasBytes(o) /\ ~ IsText(o) /\ ~ IsItems(p) /\ ~ IsText(p) /\ p.type # "symbol"
    BY <1>3, <1>6 DEF HasBytes, IsText, IsItems
  <2>3. Slots(o) = {o.car, o.cdr}
    BY <1>6 DEF Slots
  <2>4. Refers(m, o) /\ Replaces(o, p)
    BY <1>6, <2>2, <2>3 DEF Refers, Replaces
  <2>5. Good(c) /\ There(c, r)
    BY <1>1, <1>6, <2>1, <2>2, <2>4, PutGood DEF p
  <2> QED
    BY <2>5 DEF c
<1>7. /\ Good([m EXCEPT !.obj[r] = a]) /\ There([m EXCEPT !.obj[r] = a], r)
      /\ Good([m EXCEPT !.obj[r] = d]) /\ There([m EXCEPT !.obj[r] = d], r)
  BY <1>4, <1>5, <1>6
<1>8. /\ [m EXCEPT !.obj[r].car = v] = [m EXCEPT !.obj[r] = a]
      /\ [m EXCEPT !.obj[r].cdr = v] = [m EXCEPT !.obj[r] = d]
  BY <1>1 DEF p, Machine
<1> QED
  BY <1>7, <1>8

\* A slot of a vector or record is given a value.
LEMMA SetItemGood ==
  ASSUME NEW m, Good(m), NEW r \in Present(m), IsItems(m.obj[r]),
         NEW i \in DOMAIN m.obj[r].items, NEW v, There(m, v)
  PROVE  Good([m EXCEPT !.obj[r].items[i] = v])
<1> DEFINE p == m.obj[r]
           o == [p EXCEPT !.items = [p.items EXCEPT ![i] = v]]
           c == [m EXCEPT !.obj[r] = o]
<1>1. m \in Machine /\ r \in Ref /\ p \in Object /\ p # Null
  BY DEF Good, Machine, Present
<1>2. v \in Slot /\ v # Null
  BY <1>1, ObjectOf
<1>3. p \in [type : {"vector", "record"}, items : Seq(Slot)]
  BY <1>1 DEF Object, IsItems
<1>4. \A k \in DOMAIN p.items : p.items[k] = Null \/ There(m, p.items[k])
  BY PartsThere
<1>5. i \in DOMAIN p.items /\ IsItems(p)
  OBVIOUS
<1> HIDE DEF p
<1>6. [p.items EXCEPT ![i] = v] \in Seq(Slot)
  BY <1>2, <1>3, <1>5
<1>7. /\ o \in Object /\ o.type = p.type /\ o.items = [p.items EXCEPT ![i] = v]
      /\ DOMAIN o.items = DOMAIN p.items /\ o.items[i] = v
      /\ \A k \in DOMAIN p.items : k # i => o.items[k] = p.items[k]
  BY <1>3, <1>5, <1>6 DEF Object
<1> HIDE DEF o
<1>8. IsItems(o) /\ ~ HasBytes(o) /\ ~ IsText(o) /\ ~ IsText(p) /\ p.type # "symbol" /\ o.type # "symbol"
      /\ o.type # "pair" /\ Slots(o) = {o.items[k] : k \in DOMAIN o.items}
  BY <1>3, <1>7 DEF HasBytes, IsText, IsItems, Slots
<1>9. Refers(m, o)
  BY <1>4, <1>7, <1>8 DEF Refers
<1>10. Replaces(o, p)
  BY <1>2, <1>7, <1>8 DEF Replaces
<1>11. c \in Machine /\ Puts(m, c, r, o) /\ c.symbol_table = m.symbol_table
  BY <1>1, <1>7 DEF Machine, Puts
<1> HIDE DEF c
<1>12. Good(c)
  BY <1>1, <1>7, <1>8, <1>9, <1>10, <1>11, PutGood DEF p
<1> QED
  BY <1>1, <1>12 DEF c, o, p, Machine

\* A byte of a byte vector is given a value.  Where programs store like that and
\* the texts matter, no string has these bytes.
LEMMA SetByteGood ==
  ASSUME NEW m, Good(m), "idx_set" \in Instructions, NEW r \in Present(m), m.obj[r].type = "bytes",
         NEW i \in DOMAIN BytesOf(m, r), NEW x \in Byte,
         NEW c, c = [m EXCEPT !.bytes[m.obj[r].block][i] = x]
  PROVE  Good(c)
<1> DEFINE b == m.obj[r].block
           old == BytesOf(m, r)
           new == [old EXCEPT ![i] = x]
<1>1. m \in Machine /\ b \in Block /\ old \in Seq(Byte) /\ HasBytes(m.obj[r])
  BY PartsThere, Parts DEF Good, HasBytes
<1>2. new \in Seq(Byte) /\ Len(new) = Len(old) /\ new # Null
  <2>1. old \in Seq(Byte) /\ i \in DOMAIN old
    BY <1>1
  <2> HIDE DEF old
  <2>2. new \in Seq(Byte) /\ Len(new) = Len(old)
    BY <2>1
  <2> QED
    BY <2>2, Kinds
<1>3. c.bytes = [m.bytes EXCEPT ![b] = new]
  BY <1>1 DEF Machine, BytesOf
<1>4. /\ c \in Machine /\ c.obj = m.obj /\ c.stack = m.stack /\ c.symbol_table = m.symbol_table
      /\ c.bytes[b] = new /\ \A k \in Block : k # b => c.bytes[k] = m.bytes[k]
  <2>1. c = [m EXCEPT !.bytes = [m.bytes EXCEPT ![b] = new]]
    BY <1>1 DEF Machine, BytesOf
  <2> HIDE DEF new, b
  <2>2. m.bytes \in [Block -> Seq(Byte) \cup {Null}]
    BY <1>1 DEF Machine
  <2>3. /\ [m.bytes EXCEPT ![b] = new] \in [Block -> Seq(Byte) \cup {Null}]
        /\ [m.bytes EXCEPT ![b] = new][b] = new
        /\ \A k \in Block : k # b => [m.bytes EXCEPT ![b] = new][k] = m.bytes[k]
    BY <1>1, <1>2, <2>2
  <2>4. /\ c \in Machine /\ c.obj = m.obj /\ c.stack = m.stack /\ c.symbol_table = m.symbol_table
        /\ c.bytes = [m.bytes EXCEPT ![b] = new]
    BY <1>1, <2>1, <2>3 DEF Machine
  <2> QED
    BY <2>3, <2>4
<1> HIDE DEF new
<1>5. Present(c) = Present(m) /\ \A v : There(c, v) = There(m, v)
  BY <1>4 DEF Present, There
<1>6. ASSUME NEW s \in Present(m), HasBytes(m.obj[s])
      PROVE  /\ BytesOf(m, s) # Null => BytesOf(c, s) # Null
             /\ Len(BytesOf(c, s)) = Len(BytesOf(m, s))
             /\ m.obj[s].block # b => /\ BytesOf(c, s) = BytesOf(m, s)
                                      /\ Text(c, m.obj[s]) = Text(m, m.obj[s])
  <2>1. m.obj[s].block \in Block
    BY <1>6, PartsThere, Parts
  <2>2. CASE m.obj[s].block = b
    BY <1>2, <1>4, <2>2 DEF BytesOf, old
  <2>3. CASE m.obj[s].block # b
    BY <1>4, <2>1, <2>3 DEF BytesOf, Text
  <2> QED
    BY <2>2, <2>3
<1>7. \A s \in Present(m) : Backed(m, s) => Backed(c, s)
  BY <1>4, <1>6 DEF Backed
<1>8. Linked(c)
  <2>1. Linked(m)
    BY DEF Good
  <2>2. \A j \in DOMAIN c.stack : c.stack[j] = Null \/ There(c, c.stack[j])
    BY <1>4, <1>5, <2>1 DEF Linked
  <2>3. \A s \in Present(c) : \A v \in Slots(c.obj[s]) :
          There(c, v) \/ (v = Null /\ c.obj[s].type # "pair")
    BY <1>4, <1>5, <2>1 DEF Linked
  <2>4. \A s \in Present(c) : Backed(c, s)
    BY <1>5, <1>7, <2>1 DEF Linked
  <2>5. \A e \in c.symbol_table : Filed(c, e)
    BY <1>4, <2>1 DEF Linked, Filed
  <2> QED
    BY <2>2, <2>3, <2>4, <2>5 DEF Linked
<1>9. ASSUME StoresApart, NEW s \in Present(m), IsText(m.obj[s])
      PROVE  BytesOf(c, s) = BytesOf(m, s) /\ Text(c, m.obj[s]) = Text(m, m.obj[s])
  <2>1. HasBytes(m.obj[s]) /\ s # r
    BY <1>9 DEF IsText, HasBytes
  <2>2. Unshared(m) /\ "str_u8" \notin Instructions
    BY <1>9 DEF Good, Words, StoresApart
  <2>3. m.obj[s].block # b
    BY <1>1, <2>1, <2>2 DEF Unshared
  <2> QED
    BY <1>6, <2>1, <2>3
<1>10. Words(c)
  <2>1. Words(m)
    BY DEF Good
  <2> QED
    BY <1>4, <1>9, <2>1, WordsCarry
<1>11. Stays(c) /\ ItemsKept(c)
  BY <1>4, <1>5 DEF Good, Stays, ItemsKept
<1>12. WordsKept(c)
  <2> SUFFICES ASSUME StoresApart, NEW s \in Present(vm), IsText(vm.obj[s])
               PROVE  /\ IsText(c.obj[s]) /\ c.obj[s].block = vm.obj[s].block
                      /\ BytesOf(c, s) = BytesOf(vm, s)
    BY DEF WordsKept
  <2>1. /\ s \in Present(m) /\ IsText(m.obj[s]) /\ m.obj[s].block = vm.obj[s].block
        /\ BytesOf(m, s) = BytesOf(vm, s)
    BY DEF Good, Stays, WordsKept
  <2> QED
    BY <1>4, <1>9, <2>1
<1> QED
  BY <1>4, <1>8, <1>10, <1>11, <1>12 DEF Good

\* The string on top becomes a symbol, or gives way to the symbol of its text.
LEMMA InternedGood ==
  ASSUME NEW m, Good(m), m.stack # <<>>, NEW r, r = Head(m.stack), r \in Present(m),
         m.obj[r].type = "string"
  PROVE  Good(make_symbol(m))
<1> DEFINE p     == m.obj[r]
           text  == Text(m, p)
           known == {e \in m.symbol_table : e.chain = Bucket(text) /\ CString(m.bytes[e.key]) = text}
           new   == [obj |-> r, key |-> p.block, chain |-> Bucket(text)]
           o     == [p EXCEPT !.type = "symbol"]
           c     == [m EXCEPT !.obj[r] = o, !.symbol_table = @ \cup {new}]
<1>1. /\ m \in Machine /\ r \in Ref /\ p \in Object /\ HasBytes(p) /\ p.type = "string"
      /\ p.block \in Block /\ m.bytes[p.block] \in Seq(Byte) /\ text \in Seq(Byte)
  <2>1. HasBytes(p) /\ m \in Machine /\ r \in Ref
    BY DEF HasBytes, Good, Present
  <2>2. p \in Object /\ p.block \in Block /\ m.bytes[p.block] \in Seq(Byte)
    BY <2>1, PartsThere, Parts DEF BytesOf
  <2> QED
    BY <2>1, <2>2, CStrings DEF Text
<1>2. make_symbol(m) = IF known # {} THEN [m EXCEPT !.stack[1] = (CHOOSE e \in known : TRUE).obj] ELSE c
  BY <1>1 DEF make_symbol, Interned, Machine
<1>3. CASE known # {}
  <2> DEFINE e == CHOOSE e \in known : TRUE
             k == [m EXCEPT !.stack[1] = e.obj]
  <2>1. e \in known
    BY <1>3
  <2> HIDE DEF e
  <2>2. e \in Entry /\ Filed(m, e)
    BY <1>1, <2>1 DEF Machine, Good, Linked
  <2>3. There(m, e.obj) /\ e.obj \in Slot
    BY <2>2 DEF Entry, Filed, There, Present, Slot
  <2>4. m.stack \in Seq(Slot) /\ 1 \in DOMAIN m.stack
    BY <1>1 DEF Machine
  <2>5. [m.stack EXCEPT ![1] = e.obj] \in Seq(Slot)
        /\ DOMAIN [m.stack EXCEPT ![1] = e.obj] = DOMAIN m.stack
    BY <2>3, <2>4
  <2>6. k \in Machine /\ Same(m, k) /\ k.stack = [m.stack EXCEPT ![1] = e.obj]
    BY <1>1, <2>5 DEF Machine, Same
  <2>7. \A i \in DOMAIN m.stack : m.stack[i] = Null \/ There(m, m.stack[i])
    BY DEF Good, Linked
  <2> HIDE DEF k
  <2>8. \A i \in DOMAIN k.stack : k.stack[i] = Null \/ There(m, k.stack[i])
    BY <2>3, <2>4, <2>5, <2>6, <2>7
  <2>9. Good(k)
    BY <2>6, <2>8, Restacked
  <2> QED
    BY <1>2, <1>3, <2>9 DEF k, e
<1>4. CASE known = {}
  <2>1. /\ o \in Object /\ o.type = "symbol" /\ o.block = p.block /\ o.length = p.length
        /\ HasBytes(o) /\ IsText(o) /\ IsText(p) /\ ~ IsItems(p) /\ Slots(o) = {}
    <3>1. p \in [type : {"string", "symbol", "bytes"}, block : Block, length : Nat]
      BY <1>1 DEF Object
    <3> HIDE DEF p
    <3> QED
      BY <1>1, <3>1 DEF Object, HasBytes, IsText, IsItems, Slots
  <2>2. new \in Entry /\ new.obj = r /\ new.key = p.block /\ new.chain = Bucket(text)
    BY <1>1 DEF Entry
  <2> HIDE DEF o, new
  <2>3. /\ c \in Machine /\ Puts(m, c, r, o) /\ c.bytes = m.bytes
        /\ c.symbol_table = m.symbol_table \cup {new}
    BY <1>1, <2>1, <2>2 DEF Machine, Puts
  <2> HIDE DEF c
  <2>4. Refers(m, o) /\ Replaces(o, p)
    <3>1. Backed(m, r)
      BY DEF Good, Linked
    <3> QED
      BY <1>1, <2>1, <3>1 DEF Refers, Replaces, Backed, BytesOf
  <2>5. /\ c.obj[r] = o /\ \A s \in Ref : s # r => c.obj[s] = m.obj[s]
    <3>1. m \in Machine /\ r \in Ref /\ o \in Object /\ Puts(m, c, r, o)
      BY <1>1, <2>1, <2>3
    <3> QED
      BY <3>1, PutsObject
  <2>6. Present(c) = Present(m)
    <3>1. Present(c) = Present(m) \cup {r}
      BY <1>1, <2>1, <2>3, PutsObject
    <3> QED
      BY <3>1
  <2>7. \A s \in Present(c) : /\ BytesOf(c, s) = BytesOf(m, s) /\ c.obj[s].block = m.obj[s].block
                              /\ c.obj[s].length = m.obj[s].length
                              /\ Text(c, c.obj[s]) = Text(m, m.obj[s])
                              /\ HasBytes(c.obj[s]) = HasBytes(m.obj[s])
                              /\ IsText(c.obj[s]) = IsText(m.obj[s])
    <3> TAKE s \in Present(c)
    <3>1. CASE s = r
      BY <1>1, <2>1, <2>3, <2>5, <3>1 DEF BytesOf, Text
    <3>2. CASE s # r
      BY <2>3, <2>5, <3>2 DEF BytesOf, Text, Present
    <3> QED
      BY <3>1, <3>2
  <2>8. \A e \in c.symbol_table : Filed(c, e)
    <3> TAKE e \in c.symbol_table
    <3>1. CASE e = new
      BY <1>1, <2>1, <2>2, <2>5, <3>1, Kinds DEF Filed
    <3>2. CASE e \in m.symbol_table
      <4>1. Filed(m, e) /\ e.obj \in Ref
        BY <1>1, <3>2 DEF Good, Linked, Machine, Entry
      <4>2. e.obj # r
        BY <1>1, <4>1 DEF Filed
      <4> QED
        BY <2>5, <4>1, <4>2 DEF Filed
    <3> QED
      BY <2>3, <3>1, <3>2
  <2>9. Linked(c) /\ Stays(c) /\ ItemsKept(c) /\ WordsKept(c)
    BY <1>1, <2>1, <2>3, <2>4, <2>8, Placed DEF Linked
  <2>10. ASSUME StoresApart PROVE Unshared(c) /\ Entered(c) /\ Interning(c) /\ TextsEnd(c)
    <3>1. Unshared(m) /\ Entered(m) /\ Interning(m) /\ TextsEnd(m)
      BY <2>10 DEF Good, Words
    <3>2. Unshared(c) /\ TextsEnd(c)
      BY <2>6, <2>7, <3>1 DEF Unshared, TextsEnd
    <3>3. ASSUME NEW s \in Present(c), s # r, c.obj[s].type = "symbol"
          PROVE  Text(c, c.obj[s]) # text
      <4>1. s \in Present(m) /\ m.obj[s].type = "symbol"
        BY <2>5, <2>6, <3>3 DEF Present
      <4>2. PICK e \in m.symbol_table : e.obj = s /\ e.chain = Bucket(Text(m, m.obj[s]))
        BY <3>1, <4>1 DEF Entered
      <4>3. CString(m.bytes[e.key]) = Text(m, m.obj[s])
        BY <4>2 DEF Good, Linked, Filed, Text
      <4>4. Text(m, m.obj[s]) # text
        BY <1>4, <4>2, <4>3
      <4> QED
        BY <2>7, <3>3, <4>4
    <3>4. Text(c, c.obj[r]) = text /\ r \in Present(c)
      BY <2>6, <2>7
    <3>5. Interning(c)
      BY <3>1, <3>3, <3>4, <2>5, <2>6, <2>7 DEF Interning, Present
    <3>6. Entered(c)
      <4> SUFFICES ASSUME NEW s \in Present(c), c.obj[s].type = "symbol"
                   PROVE  \E e \in c.symbol_table : e.obj = s /\ e.chain = Bucket(Text(c, c.obj[s]))
        BY DEF Entered
      <4>1. CASE s = r
        BY <2>2, <2>3, <3>4, <4>1
      <4>2. CASE s # r
        BY <2>3, <2>5, <2>6, <2>7, <3>1, <4>2 DEF Entered, Present
      <4> QED
        BY <4>1, <4>2
    <3> QED
      BY <3>2, <3>5, <3>6
  <2>11. Good(c)
    BY <2>3, <2>9, <2>10 DEF Good, Words
  <2> QED
    BY <1>2, <1>4, <2>11
<1> QED
  BY <1>3, <1>4

-----------------------------------------------------------------------------
(***************************************************************************)
(* The instructions leave a machine that is fit.                           *)
(***************************************************************************)

\* What an instruction leaves.
Steps == \E m : Fit(m) /\ Becomes(m)

LEMMA StopsFit ==
  ASSUME NEW m \in Machine
  PROVE  Fit(Throw(m)) /\ Fit(Stop(m, "fatal")) /\ Fit(Stop(m, "corrupt"))
BY StopIsDead, ThrowIsDead, Endings DEF Fit

LEMMA EarlyThere ==
  ASSUME NEW m, Early(m)
  PROVE  Present(m) = Present(vm) /\ (\A v : There(m, v) = There(vm, v)) /\ m.obj = vm.obj
         /\ Good(m) /\ m \in Machine /\ m.bytes = vm.bytes
BY DEF Early, Same, Present, There, Good

\* An operand is a number or the like itself, or refers to an object.
LEMMA Looked ==
  ASSUME ObjInv, NEW v, There(vm, v), NEW o, o = At(vm, v)
  PROVE  /\ o.type \in {"fixnum", "bool", "empty"} => o \in Atom /\ o = v /\ o.n \in Int
         /\ o.type \notin {"fixnum", "bool", "empty"} =>
              v \in Present(vm) /\ o = vm.obj[v] /\ o \in Object
<1>1. vm \in Machine
  BY DEF ObjInv
<1>2. CASE v \in Atom
  BY <1>1, <1>2, ObjectOf DEF Atom
<1>3. CASE v \notin Atom
  <2>1. v \in Present(vm) /\ o = vm.obj[v] /\ o \in Object
    BY <1>1, <1>3, ObjectOf
  <2> QED
    BY <2>1, Parts
<1> QED
  BY <1>2, <1>3

LEMMA NewString ==
  ASSUME NEW s \in Seq(Byte), NEW n \in 0..Len(s)
  PROVE  NewText("string", n, Append(Copied(s, n), 0))
<1> DEFINE t == Copied(s, n)
<1>1. t \in Seq(Byte) /\ Len(t) = n /\ n \in Nat /\ 0 \in Byte
  BY Copies, Kinds
<1> HIDE DEF t
<1>2. Append(t, 0) \in Seq(Byte) /\ Len(Append(t, 0)) = n + 1 /\ Append(t, 0)[n + 1] = 0
  BY <1>1
<1> QED
  BY <1>1, <1>2 DEF NewText, t

LEMMA DeadInterned ==
  ASSUME NEW m, Dead(m)
  PROVE  Dead(make_symbol(m))
<1>1. \A x : Dead([m EXCEPT !.stack[1] = x])
  BY DEF Dead
<1>2. \A r, t : Dead([m EXCEPT !.obj[r].type = "symbol", !.symbol_table = t])
  BY DEF Dead
<1> QED
  BY <1>1, <1>2 DEF make_symbol, Interned

LEMMA LiteralSteps ==
  ASSUME ObjInv,
         \/ \E v \in {Number(n) : n \in Numbers} \cup {Bool(TRUE), Bool(FALSE), Empty} : op_lit(v)
         \/ \E s \in Texts : op_lit_string(s)
         \/ \E s \in Texts : op_lit_symbol(s)
         \/ op_depth
  PROVE  Steps
<1>0. Good(M0) /\ M0 = vm /\ Early(M0) /\ vm \in Machine
  BY StartsGood DEF Early, Same
<1>1. ASSUME NEW v \in Atom PROVE Fit(vm_push(M0, v))
  BY <1>0, <1>1, PushGood DEF Fit, There
<1>2. CASE \E v \in {Number(n) : n \in Numbers} \cup {Bool(TRUE), Bool(FALSE), Empty} : op_lit(v)
  <2>1. PICK v \in {Number(n) : n \in Numbers} \cup {Bool(TRUE), Bool(FALSE), Empty} : op_lit(v)
    BY <1>2
  <2>2. v \in Atom
    BY AtomsAre, ObjectsAssumption
  <2> QED
    BY <1>1, <2>1, <2>2 DEF op_lit, Steps
<1>3. ASSUME NEW s \in Texts
      PROVE  LET c == vm_make_string(M0, s, Len(s))
             IN  Good(c) /\ Head(c.stack) \in Present(c) /\ c.obj[Head(c.stack)].type = "string"
                 /\ c.stack # <<>>
  <2>1. NewText("string", Len(s), Append(Copied(s, Len(s)), 0))
    <3>1. s \in Seq(Byte) /\ Len(s) \in 0..Len(s)
      BY ContentsAreBytes
    <3> QED
      BY <3>1, NewString
  <2> QED
    BY <1>0, <2>1, MakeWithBytesGood DEF vm_make_string
<1>4. ASSUME NEW s \in Texts, op_lit_string(s) PROVE Steps
  BY <1>3, <1>4 DEF op_lit_string, Steps, Fit
<1>5. ASSUME NEW s \in Texts, op_lit_symbol(s) PROVE Steps
  <2>1. Good(make_symbol(vm_make_string(M0, s, Len(s))))
    BY <1>3, InternedGood
  <2> QED
    BY <1>5, <2>1 DEF op_lit_symbol, Steps, Fit
<1>6. CASE op_depth
  <2>1. vm.stack \in Seq(Slot)
    BY <1>0 DEF Machine
  <2>2. Number(Len(vm.stack)) \in Atom
    BY <2>1, AtomsAre
  <2> QED
    BY <1>1, <1>6, <2>2 DEF op_depth, Steps
<1> QED
  BY <1>2, <1>4, <1>5, <1>6

LEMMA StackSteps ==
  ASSUME ObjInv, op_make_symbol \/ op_dup_ref \/ op_swap \/ op_drop \/ op_not
                 \/ \E type \in {"fixnum", "string", "pair", "record"} : op_is(type)
  PROVE  Steps
<1>1. Fit(Throw(M1))
  BY Stopped, StopsFit
<1>2. ASSUME M1.status = "running"
      PROVE  /\ Good(M1) /\ There(M1, Top(M0)) /\ A = At(vm, Top(M0)) /\ There(vm, Top(M0))
             /\ M1.obj = vm.obj
  BY <1>2, Operand1, EarlyThere
<1>3. CASE op_make_symbol
  <2>1. ASSUME A.type = "string" PROVE Fit(make_symbol(vm_push(M1, Top(M0))))
    <3>1. CASE Dead(M1)
      <4>1. Dead(vm_push(M1, Top(M0)))
        BY <3>1, DeadStays
      <4> QED
        BY <4>1, DeadInterned DEF Fit
    <3>2. CASE M1.status = "running"
      <4> DEFINE r == Top(M0)
                 c == vm_push(M1, r)
      <4>1. r \in Present(vm) /\ vm.obj[r].type = "string"
        BY <1>2, <2>1, <3>2, Looked
      <4>2. Good(c) /\ Same(M1, c)
        BY <1>2, <3>2, PushGood
      <4>3. M1.stack \in Seq(Slot) /\ r \in Slot /\ c.stack = <<r>> \o M1.stack
        BY <1>2, <3>2, <4>1 DEF Good, Machine, Slot, Present, vm_push
      <4> HIDE DEF r
      <4>4. c.stack # <<>> /\ Head(c.stack) = r
        BY <4>3
      <4>5. r \in Present(c) /\ c.obj[r].type = "string"
        BY <1>2, <3>2, <4>1, <4>2 DEF Same, Present
      <4> HIDE DEF c
      <4>6. Good(make_symbol(c))
        BY <4>2, <4>4, <4>5, InternedGood
      <4> QED
        BY <4>6 DEF Fit, c, r
    <3> QED
      BY <3>1, <3>2, Stopped
  <2> QED
    BY <1>1, <1>3, <2>1 DEF op_make_symbol, Steps
<1>4. ASSUME NEW v, M1.status = "running" => There(M1, v) PROVE Fit(vm_push(M1, v))
  <2>1. CASE Dead(M1)
    BY <2>1, DeadStays DEF Fit
  <2>2. CASE M1.status = "running"
    BY <1>2, <1>4, <2>2, PushGood DEF Fit
  <2> QED
    BY <2>1, <2>2, Stopped
<1>5. CASE op_dup_ref
  <2>1. Fit(vm_push(vm_push(M1, Top(M0)), Top(M0)))
    <3>1. CASE Dead(M1)
      BY <3>1, DeadStays DEF Fit
    <3>2. CASE M1.status = "running"
      <4>1. Good(vm_push(M1, Top(M0))) /\ There(vm_push(M1, Top(M0)), Top(M0))
        BY <1>2, <3>2, PushGood DEF Same, There, Present
      <4> QED
        BY <4>1, PushGood DEF Fit
    <3> QED
      BY <3>1, <3>2, Stopped
  <2> QED
    BY <1>5, <2>1 DEF op_dup_ref, Steps
<1>6. CASE op_swap
  <2>1. Fit(vm_push(vm_push(M2, Top(M0)), Top(M1)))
    <3>1. CASE Dead(M2)
      BY <3>1, DeadStays DEF Fit
    <3>2. CASE M2.status = "running" /\ M1.status = "running"
      <4>1. Good(M2) /\ There(M2, Top(M0)) /\ There(M2, Top(M1))
        BY <3>2, Operand1, Operand2, EarlyThere
      <4>2. Good(vm_push(M2, Top(M0))) /\ There(vm_push(M2, Top(M0)), Top(M1))
        BY <4>1, PushGood DEF Same, There, Present
      <4> QED
        BY <4>2, PushGood DEF Fit
    <3> QED
      BY <3>1, <3>2, Stopped
  <2> QED
    BY <1>6, <2>1 DEF op_swap, Steps
<1>7. CASE op_drop
  <2>1. Fit(M1)
    BY <1>2, Stopped DEF Fit
  <2> QED
    BY <1>7, <2>1 DEF op_drop, Steps
<1>8. CASE op_not
  <2>1. \A b \in BOOLEAN : Fit(vm_push(M1, Bool(b)))
    BY <1>4, AtomsAre DEF There
  <2> QED
    BY <1>8, <2>1 DEF op_not, Steps
<1>9. ASSUME NEW type, op_is(type) PROVE Steps
  <2>1. \A b \in BOOLEAN : Fit(vm_push(M1, Bool(b)))
    BY <1>4, AtomsAre DEF There
  <2> QED
    BY <1>9, <2>1 DEF op_is, Steps
<1> QED
  BY <1>3, <1>5, <1>6, <1>7, <1>8, <1>9

\* Alterations of a machine that has stopped.
LEMMA DeadAltered ==
  ASSUME NEW m, Dead(m)
  PROVE  /\ \A r, x : Dead([m EXCEPT !.obj[r].car = x]) /\ Dead([m EXCEPT !.obj[r].cdr = x])
         /\ \A r, i, x : Dead([m EXCEPT !.obj[r].items[i] = x])
         /\ \A b, i, x : Dead([m EXCEPT !.bytes[b][i] = x])
BY DEF Dead

LEMMA PairSteps ==
  ASSUME ObjInv, op_cons \/ op_car \/ op_cdr \/ op_set_car \/ op_set_cdr
  PROVE  Steps
<1>1. Fit(Throw(M1)) /\ Fit(Throw(M2))
  BY Stopped, StopsFit
<1>2. ASSUME M2.status = "running"
      PROVE  /\ Early(M2) /\ Good(M2) /\ There(M2, Top(M0)) /\ There(M2, Top(M1))
             /\ There(vm, Top(M1)) /\ B = At(vm, Top(M1)) /\ M2.obj = vm.obj
             /\ Present(M2) = Present(vm)
  <2>1. M1.status = "running"
    BY <1>2, Stopped, Endings DEF Dead
  <2> QED
    BY <1>2, <2>1, Operand1, Operand2, EarlyThere
<1>3. CASE op_cons
  <2> DEFINE o == [type |-> "pair", car |-> Top(M0), cdr |-> Top(M1)]
  <2>1. Fit(Make(M2, o))
    <3>1. CASE Dead(M2)
      BY <3>1, DeadMakes DEF Fit
    <3>2. CASE M2.status = "running"
      <4>1. Top(M0) \in Slot /\ Top(M1) \in Slot /\ Top(M0) # Null /\ Top(M1) # Null
        BY <1>2, <3>2, ObjectOf DEF Good
      <4>2. o \in Object /\ ~ HasBytes(o) /\ ~ IsText(o) /\ Slots(o) = {Top(M0), Top(M1)}
        BY <4>1 DEF Object, HasBytes, IsText, Slots
      <4> HIDE DEF o
      <4>3. Refers(M2, o)
        BY <1>2, <3>2, <4>2 DEF Refers
      <4> QED
        BY <1>2, <3>2, <4>2, <4>3, MakeGood DEF Fit
    <3> QED
      BY <3>1, <3>2, Stopped
  <2> QED
    BY <1>3, <2>1 DEF op_cons, Steps
<1>4. ASSUME A.type = "pair" PROVE Fit(vm_push(M1, A.car)) /\ Fit(vm_push(M1, A.cdr))
  <2>1. CASE Dead(M1)
    BY <2>1, DeadStays DEF Fit
  <2>2. CASE M1.status = "running"
    <3>1. Early(M1) /\ Good(M1) /\ M1.obj = vm.obj /\ Present(M1) = Present(vm)
      BY <2>2, Operand1, EarlyThere
    <3>2. Top(M0) \in Present(vm) /\ A = vm.obj[Top(M0)]
      BY <1>4, <2>2, Operand1, Looked
    <3>3. There(M1, A.car) /\ There(M1, A.cdr)
      BY <1>4, <3>1, <3>2, PartsThere
    <3> QED
      BY <3>1, <3>3, PushGood DEF Fit
  <2> QED
    BY <2>1, <2>2, Stopped
<1>5. CASE op_car
  BY <1>1, <1>4, <1>5 DEF op_car, Steps
<1>6. CASE op_cdr
  BY <1>1, <1>4, <1>6 DEF op_cdr, Steps
<1>7. ASSUME B.type = "pair"
      PROVE  /\ Fit(vm_push([M2 EXCEPT !.obj[Top(M1)].car = Top(M0)], Top(M1)))
             /\ Fit(vm_push([M2 EXCEPT !.obj[Top(M1)].cdr = Top(M0)], Top(M1)))
  <2>1. CASE Dead(M2)
    BY <2>1, DeadAltered, DeadStays DEF Fit
  <2>2. CASE M2.status = "running"
    <3> DEFINE r == Top(M1)
               v == Top(M0)
               a == [M2 EXCEPT !.obj[r].car = v]
               d == [M2 EXCEPT !.obj[r].cdr = v]
    <3>1. r \in Present(M2) /\ M2.obj[r].type = "pair" /\ Good(M2) /\ There(M2, v)
      BY <1>2, <1>7, <2>2, Looked
    <3> HIDE DEF r, v
    <3>2. Good(a) /\ There(a, r) /\ Good(d) /\ There(d, r)
      BY <3>1, SetPairGood
    <3> HIDE DEF a, d
    <3>3. Good(vm_push(a, r)) /\ Good(vm_push(d, r))
      BY <3>2, PushGood
    <3> QED
      BY <3>3 DEF Fit, a, d, r, v
  <2> QED
    BY <2>1, <2>2, Stopped
<1>8. CASE op_set_car
  BY <1>1, <1>7, <1>8 DEF op_set_car, Steps
<1>9. CASE op_set_cdr
  BY <1>1, <1>7, <1>9 DEF op_set_cdr, Steps
<1> QED
  BY <1>3, <1>5, <1>6, <1>8, <1>9

\* Objects that are made with a length.
LEMMA SizedSteps ==
  ASSUME ObjInv, op_make_byte_vector \/ op_make_vector \/ op_make_record \/ op_vector_length
  PROVE  Steps
<1>1. Fit(Throw(M1)) /\ Fit(Stop(M1, "fatal"))
  BY Stopped, StopsFit
<1>2. ASSUME NEW n \in Nat
      PROVE  Fit(vm_make_vector(M1, n)) /\ Fit(vm_make_record(M1, n)) /\ Fit(vm_make_byte_vector(M1, n))
  <2>1. CASE Dead(M1)
    BY <2>1, DeadMakes DEF Fit
  <2>2. CASE M1.status = "running"
    <3>1. Early(M1)
      BY <2>2, Operand1
    <3>2. ASSUME NEW k \in Nat, NEW type \in {"vector", "record"}
          PROVE  Good(Make(M1, [type |-> type, items |-> [i \in 1..k |-> Null]]))
      <4> DEFINE items == [i \in 1..k |-> Null]
                 o == [type |-> type, items |-> items]
      <4>1. items \in Seq(Slot) /\ \A i \in DOMAIN items : items[i] = Null
        BY DEF Slot
      <4> HIDE DEF items
      <4>2. o \in Object /\ o.type # "pair" /\ ~ HasBytes(o) /\ ~ IsText(o)
            /\ Slots(o) = {items[i] : i \in DOMAIN items}
        BY <4>1 DEF Object, HasBytes, IsText, Slots
      <4> HIDE DEF o
      <4>3. Refers(M1, o)
        BY <4>1, <4>2 DEF Refers
      <4>4. Good(Make(M1, o))
        BY <3>1, <4>2, <4>3, MakeGood
      <4> QED
        BY <4>4 DEF o, items
    <3>3. Good(vm_make_vector(M1, n)) /\ Good(vm_make_record(M1, n))
      <4>1. n + 1 \in Nat
        OBVIOUS
      <4>2. /\ Good(Make(M1, [type |-> "vector", items |-> [i \in 1..n |-> Null]]))
            /\ Good(Make(M1, [type |-> "record", items |-> [i \in 1..(n + 1) |-> Null]]))
        BY <3>2, <4>1
      <4> QED
        BY <4>2 DEF vm_make_vector, vm_make_record
    <3>4. Good(vm_make_byte_vector(M1, n))
      <4> DEFINE zeros == [i \in 1..n |-> 0]
      <4>1. zeros \in Seq(Byte) /\ Len(zeros) = n
        BY Kinds
      <4> HIDE DEF zeros
      <4>2. NewText("bytes", n, zeros)
        BY <4>1 DEF NewText
      <4>3. Good(MakeWithBytes(M1, "bytes", n, zeros))
        BY <3>1, <4>2, MakeWithBytesGood
      <4> QED
        BY <4>3 DEF vm_make_byte_vector, zeros
    <3> QED
      BY <3>3, <3>4 DEF Fit
  <2> QED
    BY <2>1, <2>2, Stopped
<1>3. IsNumber(A) /\ ~ (A.n < 0) => A.n \in Nat \/ Dead(M1)
  <2> SUFFICES ASSUME IsNumber(A), ~ (A.n < 0), M1.status = "running"
               PROVE  A.n \in Nat
    BY Stopped
  <2>1. A.n \in Int
    BY Operand1, Looked DEF IsNumber
  <2> QED
    BY <2>1
<1>4. IsNumber(A) /\ ~ (A.n < 0) =>
        Fit(vm_make_vector(M1, A.n)) /\ Fit(vm_make_record(M1, A.n)) /\ Fit(vm_make_byte_vector(M1, A.n))
  BY <1>2, <1>3, DeadMakes DEF Fit
<1>5. CASE op_make_byte_vector
  BY <1>1, <1>4, <1>5 DEF op_make_byte_vector, MakeSized, Steps
<1>6. CASE op_make_vector
  BY <1>1, <1>4, <1>6 DEF op_make_vector, MakeSized, Steps
<1>7. CASE op_make_record
  BY <1>1, <1>4, <1>7 DEF op_make_record, MakeSized, Steps
<1>8. CASE op_vector_length
  <2>1. ASSUME A.type \in {"vector", "bytes"} PROVE Fit(vm_push(M1, Number(Length(A))))
    <3>1. CASE Dead(M1)
      BY <3>1, DeadStays DEF Fit
    <3>2. CASE M1.status = "running"
      <4>1. A \in Object
        BY <2>1, <3>2, Operand1, Looked
      <4>2. Length(A) \in Int
        BY <2>1, <4>1, Parts DEF Length, HasBytes, IsItems
      <4>3. Good(M1) /\ There(M1, Number(Length(A)))
        BY <3>2, <4>2, Operand1, AtomsAre DEF Early, There
      <4> QED
        BY <4>3, PushGood DEF Fit
    <3> QED
      BY <3>1, <3>2, Stopped
  <2> QED
    BY <1>1, <1>8, <2>1 DEF op_vector_length, Steps
<1> QED
  BY <1>5, <1>6, <1>7, <1>8

\* What an index leads to.
LEMMA IndexedFit ==
  ASSUME NEW m \in Machine, NEW index, NEW done, Fit(Throw(m)),
         IsNumber(index) /\ A.type \in {"vector", "record", "bytes"} => Fit(done)
  PROVE  Fit(Indexed(m, index, done))
BY DEF Indexed

LEMMA IndexSetSteps ==
  ASSUME ObjInv, op_index_set
  PROVE  Steps
<1>1. Fit(Throw(M3)) /\ Fit(Stop(M3, "corrupt")) /\ M3 \in Machine
  BY Stopped, StopsFit
<1> DEFINE put   == Within(M3, C.n, [M3 EXCEPT !.obj[Top(M0)].items[C.n + 1] = Top(M1)])
           store == Within(M3, C.n, [M3 EXCEPT !.bytes[A.block][C.n + 1] = B.n % BYTES])
<1>2. CASE Dead(M3)
  <2>1. Fit(put) /\ Fit(store)
    BY <1>1, <1>2, DeadAltered DEF Fit, Within
  <2> HIDE DEF put, store
  <2>2. Fit(Indexed(M3, C, IF A.type # "bytes" THEN put ELSE IF ~ IsNumber(B) THEN Throw(M3) ELSE store))
    BY <1>1, <2>1, IndexedFit
  <2> QED
    BY <2>2 DEF op_index_set, Steps, put, store
<1>3. CASE M3.status = "running" /\ M2.status = "running" /\ M1.status = "running"
  <2>1. /\ Early(M3) /\ Good(M3) /\ M3.obj = vm.obj /\ Present(M3) = Present(vm) /\ M3.bytes = vm.bytes
        /\ There(vm, Top(M0)) /\ There(M3, Top(M1)) /\ There(vm, Top(M1))
        /\ A = At(vm, Top(M0)) /\ B = At(vm, Top(M1))
    BY <1>3, Operand1, Operand2, Operand3, EarlyThere
  <2>2. ASSUME A.type \in {"vector", "record"} PROVE Fit(put)
    <3>1. Top(M0) \in Present(M3) /\ A = M3.obj[Top(M0)] /\ IsItems(M3.obj[Top(M0)])
      BY <2>1, <2>2, Looked DEF IsItems
    <3>2. Memory(A) = A.items
      BY <2>2 DEF Memory
    <3>3. C.n + 1 \in DOMAIN Memory(A) =>
            Good([M3 EXCEPT !.obj[Top(M0)].items[C.n + 1] = Top(M1)])
      BY <2>1, <3>1, <3>2, SetItemGood
    <3> QED
      BY <1>1, <3>3 DEF Within, Fit
  <2>3. ASSUME A.type = "bytes", IsNumber(B) PROVE Fit(store)
    <3>1. Top(M0) \in Present(M3) /\ A = M3.obj[Top(M0)]
      BY <2>1, <2>3, Looked
    <3>2. Memory(A) = BytesOf(M3, Top(M0))
      BY <2>1, <2>3, <3>1 DEF Memory, BytesOf
    <3>3. B.n \in Int
      BY <2>1, <2>3, Looked DEF IsNumber
    <3>4. B.n % BYTES \in Byte
      BY <3>3, Kinds DEF Byte
    <3>5. "idx_set" \in Instructions
      BY DEF op_index_set, Executing
    <3>6. C.n + 1 \in DOMAIN Memory(A) => Good([M3 EXCEPT !.bytes[A.block][C.n + 1] = B.n % BYTES])
      BY <2>1, <2>3, <3>1, <3>2, <3>4, <3>5, SetByteGood
    <3> QED
      BY <1>1, <3>6 DEF Within, Fit
  <2> HIDE DEF put, store
  <2>4. Fit(Indexed(M3, C, IF A.type # "bytes" THEN put ELSE IF ~ IsNumber(B) THEN Throw(M3) ELSE store))
    BY <1>1, <2>2, <2>3, IndexedFit
  <2> QED
    BY <2>4 DEF op_index_set, Steps, put, store
<1> QED
  BY <1>2, <1>3, Stopped

LEMMA IndexRefSteps ==
  ASSUME ObjInv, op_index_ref
  PROVE  Steps
<1>1. Fit(Throw(M2)) /\ Fit(Stop(M2, "corrupt")) /\ M2 \in Machine
  BY Stopped, StopsFit
<1> DEFINE v   == IF A.type = "bytes" THEN Number(Memory(A)[B.n + 1]) ELSE Memory(A)[B.n + 1]
           got == Within(M2, B.n, vm_push(M2, v))
<1>2. ASSUME A.type \in {"vector", "record", "bytes"} PROVE Fit(got)
  <2>1. CASE Dead(M2)
    BY <1>1, <2>1, DeadStays DEF Fit, Within
  <2>2. CASE M2.status = "running" /\ M1.status = "running"
    <3> SUFFICES ASSUME B.n + 1 \in DOMAIN Memory(A)
                 PROVE  Fit(vm_push(M2, v))
      BY <1>1 DEF Within
    <3>1. /\ Good(M2) /\ M2.obj = vm.obj /\ Present(M2) = Present(vm) /\ M2.bytes = vm.bytes
          /\ There(vm, Top(M0)) /\ A = At(vm, Top(M0))
      BY <2>2, Operand1, Operand2, EarlyThere
    <3>2. Top(M0) \in Present(M2) /\ A = M2.obj[Top(M0)]
      BY <1>2, <3>1, Looked
    <3>3. CASE A.type = "bytes"
      <4>1. Memory(A) = BytesOf(M2, Top(M0)) /\ HasBytes(A)
        BY <3>1, <3>2, <3>3 DEF Memory, BytesOf, HasBytes
      <4>2. Memory(A) \in Seq(Byte)
        BY <3>1, <3>2, <4>1, PartsThere
      <4>3. Memory(A)[B.n + 1] \in Int
        <5> DEFINE s == Memory(A)
                   i == B.n + 1
        <5>1. s \in Seq(Byte) /\ i \in DOMAIN s
          BY <4>2
        <5> HIDE DEF s, i
        <5>2. s[i] \in Byte
          BY <5>1
        <5>3. s[i] \in Int
          BY <5>2, BytesAreInts
        <5> QED
          BY <5>3 DEF s, i
      <4>4. There(M2, v)
        BY <3>3, <4>3, AtomsAre DEF There
      <4> QED
        BY <3>1, <4>4, PushGood DEF Fit
    <3>4. CASE A.type # "bytes"
      <4>1. Memory(A) = A.items /\ IsItems(A)
        BY <1>2, <3>4 DEF Memory, IsItems
      <4>2. v = Null \/ There(M2, v)
        BY <3>1, <3>2, <3>4, <4>1, PartsThere
      <4> QED
        BY <3>1, <4>2, PushGood DEF Fit
    <3> QED
      BY <3>3, <3>4
  <2> QED
    BY <2>1, <2>2, Stopped
<1> HIDE DEF got
<1>3. Fit(Indexed(M2, B, got))
  BY <1>1, <1>2, IndexedFit
<1> QED
  BY <1>3 DEF op_index_ref, Steps, got, v

LEMMA ConversionSteps ==
  ASSUME ObjInv, op_string_byte_vector \/ op_byte_vector_string
  PROVE  Steps
<1>1. Fit(Throw(M1))
  BY Stopped, StopsFit
<1>2. ASSUME M1.status = "running", HasBytes(A)
      PROVE  /\ Early(M1) /\ Good(M1) /\ M1.obj = vm.obj /\ M1.bytes = vm.bytes
             /\ Top(M0) \in Present(M1) /\ A = M1.obj[Top(M0)] /\ A \in Object
  <2>1. Early(M1) /\ Good(M1) /\ M1.obj = vm.obj /\ M1.bytes = vm.bytes /\ Present(M1) = Present(vm)
    BY <1>2, Operand1, EarlyThere
  <2>2. Top(M0) \in Present(vm) /\ A = vm.obj[Top(M0)] /\ A \in Object
    BY <1>2, Operand1, Looked DEF HasBytes
  <2> QED
    BY <2>1, <2>2
<1>3. CASE op_string_byte_vector
  <2> DEFINE o == [A EXCEPT !.type = "bytes"]
  <2>1. ASSUME A.type = "string" PROVE Fit(Make(M1, o))
    <3>1. CASE Dead(M1)
      BY <3>1, DeadMakes DEF Fit
    <3>2. CASE M1.status = "running"
      <4>0. HasBytes(A)
        BY <2>1 DEF HasBytes
      <4>1. A \in [type : {"string", "symbol", "bytes"}, block : Block, length : Nat]
        BY <1>2, <2>1, <3>2, <4>0 DEF Object
      <4>2. /\ o \in Object /\ o.type = "bytes" /\ o.block = A.block /\ o.length = A.length
            /\ HasBytes(o) /\ ~ IsText(o) /\ Slots(o) = {}
        BY <4>1 DEF Object, HasBytes, IsText, Slots
      <4> HIDE DEF o
      <4>3. Backed(M1, Top(M0))
        BY <1>2, <3>2, <4>0 DEF Good, Linked
      <4>4. Refers(M1, o)
        BY <1>2, <3>2, <4>0, <4>2, <4>3 DEF Refers, Backed, BytesOf
      <4>5. "str_u8" \in Instructions
        BY <1>3 DEF op_string_byte_vector, Executing
      <4>6. Good(Make(M1, o))
        BY <1>2, <3>2, <4>0, <4>2, <4>4, <4>5, MakeGood
      <4> QED
        BY <4>6 DEF Fit
    <3> QED
      BY <3>1, <3>2, Stopped
  <2> HIDE DEF o
  <2> QED
    BY <1>1, <1>3, <2>1 DEF op_string_byte_vector, Steps, o
<1>4. CASE op_byte_vector_string
  <2>1. ASSUME A.type = "bytes" PROVE Fit(vm_make_string(M1, Memory(A), A.length))
    <3>1. CASE Dead(M1)
      BY <3>1, DeadMakes DEF Fit
    <3>2. CASE M1.status = "running"
      <4>0. HasBytes(A)
        BY <2>1 DEF HasBytes
      <4>1. Memory(A) = BytesOf(M1, Top(M0))
        BY <1>2, <2>1, <3>2, <4>0 DEF Memory, BytesOf
      <4>2. Memory(A) \in Seq(Byte) /\ A.length \in 0..Len(Memory(A))
        BY <1>2, <3>2, <4>0, <4>1, PartsThere
      <4>3. NewText("string", A.length, Append(Copied(Memory(A), A.length), 0))
        BY <4>2, NewString
      <4>4. Good(vm_make_string(M1, Memory(A), A.length))
        BY <1>2, <3>2, <4>0, <4>3, MakeWithBytesGood DEF vm_make_string
      <4> QED
        BY <4>4 DEF Fit
    <3> QED
      BY <3>1, <3>2, Stopped
  <2> QED
    BY <1>1, <1>4, <2>1 DEF op_byte_vector_string, Steps
<1> QED
  BY <1>3, <1>4

LEMMA EqSteps ==
  ASSUME ObjInv, op_eq
  PROVE  Steps
<1>1. CASE M2.status # "running"
  <2>1. Fit(M2)
    BY <1>1, Stopped DEF Fit
  <2> QED
    BY <1>1, <2>1 DEF op_eq, Steps
<1>2. CASE M2.status = "running"
  <2>1. Fit(Stop(M2, "fatal"))
    BY Stopped, StopsFit
  <2>2. \A b \in BOOLEAN : Fit(vm_push(M2, Bool(b)))
    BY <1>2, Operand2, PushGood, AtomsAre DEF Early, Fit, There
  <2>3. PICK answer : Becomes(IF answer = "fatal" THEN Stop(M2, "fatal") ELSE vm_push(M2, Bool(answer = "true")))
    BY <1>2 DEF op_eq
  <2>4. (answer = "true") \in BOOLEAN
    OBVIOUS
  <2> QED
    BY <2>1, <2>2, <2>3, <2>4 DEF Steps
<1> QED
  BY <1>1, <1>2

\* Files: what the operating system answers makes no difference.
LEMMA FileSteps ==
  ASSUME ObjInv, op_slurp \/ op_open \/ op_close \/ op_fd_write \/ op_fd_read
  PROVE  Steps
<1>1. /\ Fit(Throw(M1)) /\ Fit(Throw(M2)) /\ Fit(Throw(M3)) /\ Fit(Stop(M1, "fatal"))
      /\ Fit(Stop(M1, "corrupt")) /\ Fit(Stop(M2, "fatal")) /\ Fit(Stop(M3, "corrupt"))
  BY Stopped, StopsFit
<1>2. /\ Dead(M1) \/ Early(M1)
      /\ Dead(M2) \/ Early(M2)
      /\ Dead(M3) \/ Early(M3)
  BY Stopped, Operand1, Operand2, Operand3
<1>3. ASSUME NEW m, Dead(m) \/ Early(m), NEW n \in Int PROVE Fit(vm_push(m, Number(n)))
  <2>1. CASE Dead(m)
    BY <2>1, DeadStays DEF Fit
  <2>2. CASE Early(m)
    BY <2>2, PushGood, AtomsAre DEF Early, Fit, There
  <2> QED
    BY <1>3, <2>1, <2>2
<1>4. ASSUME NEW m, Dead(m) \/ Early(m), NEW type, NEW length, NEW contents,
             NewText(type, length, contents)
      PROVE  Fit(MakeWithBytes(m, type, length, contents))
  <2>1. CASE Dead(m)
    BY <2>1, DeadMakes DEF Fit
  <2>2. CASE Early(m)
    BY <1>4, <2>2, MakeWithBytesGood DEF Fit
  <2> QED
    BY <1>4, <2>1, <2>2
<1>5. ASSUME op_slurp PROVE Steps
  <2>1. ASSUME NEW s \in Contents PROVE Fit(MakeWithBytes(M1, "string", Len(s), Append(s, 0)))
    <3>1. s \in Seq(Byte) /\ 0 \in Byte
      BY ContentsAreBytes, Kinds
    <3>2. Append(s, 0) \in Seq(Byte) /\ Len(Append(s, 0)) = Len(s) + 1 /\ Append(s, 0)[Len(s) + 1] = 0
          /\ Len(s) \in Nat
      BY <3>1
    <3>3. NewText("string", Len(s), Append(s, 0))
      BY <3>2 DEF NewText
    <3> QED
      BY <1>2, <1>4, <3>3
  <2> QED
    BY <1>1, <1>5, <2>1 DEF op_slurp, Steps
<1>6. ASSUME op_open PROVE Steps
  BY <1>1, <1>2, <1>3, <1>6 DEF op_open, Steps
<1>7. ASSUME op_close PROVE Steps
  BY <1>1, <1>2, <1>7 DEF op_close, Steps, Fit, Early
<1>8. ASSUME op_fd_write PROVE Steps
  <2>1. Becomes(Throw(M3)) \/ \E m : Becomes(m) /\ (m = Stop(M3, "corrupt")
                                 \/ (B.n \in 0..Len(vm.bytes[C.block]) /\ m = vm_push(M3, Number(B.n))))
    BY <1>8 DEF op_fd_write
  <2>2. \A n \in Int : Fit(vm_push(M3, Number(n)))
    BY <1>2, <1>3
  <2>3. \A x, y : x \in 0..y => x \in Int
    OBVIOUS
  <2> QED
    BY <1>1, <2>1, <2>2, <2>3 DEF Steps
<1>9. ASSUME op_fd_read PROVE Steps
  <2>1. ASSUME NEW s \in Contents, NEW n \in Int, Len(s) <= n
        PROVE  Fit(MakeWithBytes(M2, "bytes", Len(s), [i \in 1..n |-> IF i <= Len(s) THEN s[i] ELSE 0]))
    <3> DEFINE all == [i \in 1..n |-> IF i <= Len(s) THEN s[i] ELSE 0]
    <3>1. s \in Seq(Byte) /\ 0 \in Byte /\ Len(s) \in Nat /\ n \in Nat
      BY <2>1, ContentsAreBytes, Kinds
    <3>2. all \in Seq(Byte) /\ Len(all) = n
      BY <3>1
    <3> HIDE DEF all
    <3>3. NewText("bytes", Len(s), all)
      BY <2>1, <3>1, <3>2 DEF NewText
    <3>4. Fit(MakeWithBytes(M2, "bytes", Len(s), all))
      BY <1>2, <1>4, <3>3
    <3> QED
      BY <3>4 DEF all
  <2>2. CASE \E m \in {Throw(M2), Stop(M2, "fatal")} : Becomes(m)
    BY <1>1, <2>2 DEF Steps
  <2>3. CASE \E s \in Contents : /\ IsNumber(B) /\ Len(s) <= B.n
                                 /\ Becomes(MakeWithBytes(M2, "bytes", Len(s),
                                      [i \in 1..B.n |-> IF i <= Len(s) THEN s[i] ELSE 0]))
    <3>1. CASE Dead(M2)
      BY <2>3, <3>1, DeadMakes DEF Steps, Fit
    <3>2. CASE M2.status = "running"
      <4>1. B.n \in Int
        BY <2>3, <3>2, Operand2, Looked DEF IsNumber
      <4> QED
        BY <2>1, <2>3, <4>1 DEF Steps
    <3> QED
      BY <3>1, <3>2, Stopped
  <2> QED
    BY <1>9, <2>2, <2>3 DEF op_fd_read
<1> QED
  BY <1>5, <1>6, <1>7, <1>8, <1>9

-----------------------------------------------------------------------------
(***************************************************************************)
(* The end of an instruction, and what holds of every program.             *)
(***************************************************************************)

\* What can be reached has the roots and is closed, and all of it is there.
LEMMA Reached ==
  ASSUME NEW m, Good(m)
  PROVE  /\ LiveRefs(m) \subseteq Present(m) /\ Roots(m) \subseteq LiveRefs(m)
         /\ \A r \in LiveRefs(m) : Ref \cap Slots(m.obj[r]) \subseteq LiveRefs(m)
<1> DEFINE sets   == {Roots(m) \cup S : S \in SUBSET (Present(m) \ Roots(m))}
           closed == {S \in sets : \A r \in S : Ref \cap Slots(m.obj[r]) \subseteq S}
<1>1. LiveRefs(m) = {r \in Present(m) : \A S \in closed : r \in S}
  BY DEF LiveRefs
<1>2. \A S \in closed : Roots(m) \subseteq S /\ \A r \in S : Ref \cap Slots(m.obj[r]) \subseteq S
  OBVIOUS
<1> HIDE DEF closed
<1>3. \A v \in Ref : There(m, v) => v \in Present(m)
  BY Kinds DEF There
<1>4. Roots(m) \subseteq Present(m)
  <2> SUFFICES ASSUME NEW v \in Roots(m) PROVE v \in Present(m)
    OBVIOUS
  <2>1. v \in Ref /\ (v \in {m.stack[i] : i \in DOMAIN m.stack} \/ v \in {e.obj : e \in m.symbol_table})
    BY DEF Roots
  <2>2. CASE v \in {m.stack[i] : i \in DOMAIN m.stack}
    BY <1>3, <2>1, <2>2, Kinds DEF Good, Linked
  <2>3. CASE v \in {e.obj : e \in m.symbol_table}
    BY <2>1, <2>3 DEF Good, Linked, Filed, Present
  <2> QED
    BY <2>1, <2>2, <2>3
<1>5. \A r \in Present(m) : Ref \cap Slots(m.obj[r]) \subseteq Present(m)
  BY <1>3, Kinds DEF Good, Linked
<1> QED
  BY <1>1, <1>2, <1>4, <1>5

\* What the collector leaves of a machine.
LEMMA Collects ==
  ASSUME NEW m, Good(m), NEW c, c = Collect(m)
  PROVE  /\ c.stack = m.stack /\ c.symbol_table = m.symbol_table /\ c.status = m.status
         /\ c \in Machine /\ Present(c) = LiveRefs(m)
         /\ \A r \in Ref : c.obj[r] = IF r \in LiveRefs(m) THEN m.obj[r] ELSE Null
         /\ \A r \in LiveRefs(m) : HasBytes(m.obj[r]) => BytesOf(c, r) = BytesOf(m, r)
         /\ \A b \in Block : c.bytes[b] # Null =>
              \E r \in Present(c) : HasBytes(c.obj[r]) /\ c.obj[r].block = b
<1> DEFINE R == LiveRefs(m)
           K == {m.obj[r].block : r \in {q \in R : HasBytes(m.obj[q])}} \cup {e.key : e \in m.symbol_table}
           objs   == [r \in Ref |-> IF r \in R THEN m.obj[r] ELSE Null]
           blocks == [b \in Block |-> IF b \in K THEN m.bytes[b] ELSE Null]
<1>1. m \in Machine /\ R \subseteq Present(m) /\ Roots(m) \subseteq R /\ Present(m) \subseteq Ref
  BY Reached DEF Good, Present
<1>2. c = [m EXCEPT !.obj = objs, !.bytes = blocks]
  BY <1>1 DEF Collect, Machine
<1> HIDE DEF R
<1>3. objs \in [Ref -> Object \cup {Null}] /\ blocks \in [Block -> Seq(Byte) \cup {Null}]
  BY <1>1 DEF Machine
<1>4. /\ \A r \in Ref : objs[r] = IF r \in R THEN m.obj[r] ELSE Null
      /\ \A b \in Block : blocks[b] = IF b \in K THEN m.bytes[b] ELSE Null
  OBVIOUS
<1> HIDE DEF K, objs, blocks
<1>5. /\ c \in Machine /\ c.obj = objs /\ c.bytes = blocks /\ c.stack = m.stack
      /\ c.symbol_table = m.symbol_table /\ c.status = m.status
  BY <1>1, <1>2, <1>3 DEF Machine
<1>6. Present(c) = R
  BY <1>1, <1>4, <1>5 DEF Present
<1>7. ASSUME NEW r \in R, HasBytes(m.obj[r]) PROVE BytesOf(c, r) = BytesOf(m, r)
  <2>1. m.obj[r].block \in Block /\ r \in Ref
    BY <1>1, <1>7, PartsThere, Parts
  <2>2. m.obj[r].block \in K
    BY <1>7 DEF K
  <2> QED
    BY <1>4, <1>5, <2>1, <2>2 DEF BytesOf
<1>8. ASSUME NEW b \in Block, c.bytes[b] # Null
      PROVE  \E r \in Present(c) : HasBytes(c.obj[r]) /\ c.obj[r].block = b
  <2>1. b \in K
    BY <1>4, <1>5, <1>8
  <2>2. CASE \E r \in R : HasBytes(m.obj[r]) /\ m.obj[r].block = b
    BY <1>1, <1>4, <1>5, <1>6, <2>2
  <2>3. CASE \E e \in m.symbol_table : e.key = b
    <3>1. PICK e \in m.symbol_table : e.key = b
      BY <2>3
    <3>2. Filed(m, e) /\ e.obj \in Ref
      BY <1>1 DEF Good, Linked, Machine, Entry
    <3>3. e.obj \in R
      BY <1>1, <3>2 DEF Roots
    <3>4. HasBytes(m.obj[e.obj])
      BY <3>2 DEF Filed, HasBytes
    <3> QED
      BY <1>4, <1>5, <1>6, <3>1, <3>2, <3>3, <3>4 DEF Filed
  <2> QED
    BY <2>1, <2>2, <2>3 DEF K
<1> QED
  BY <1>4, <1>5, <1>6, <1>7, <1>8 DEF R

\* What is left of a good machine is good.
LEMMA CollectedGood ==
  ASSUME NEW m, Good(m), NEW c, c = Collect(m)
  PROVE  /\ c \in Machine /\ Linked(c) /\ Words(c)
         /\ \A b \in Block : c.bytes[b] # Null =>
              \E r \in Present(c) : HasBytes(c.obj[r]) /\ c.obj[r].block = b
         /\ \A r \in Present(c) : r \in Present(m) /\ c.obj[r] = m.obj[r]
         /\ \A r \in Present(c) : HasBytes(m.obj[r]) => BytesOf(c, r) = BytesOf(m, r)
<1> DEFINE R == LiveRefs(m)
<1>1. /\ R \subseteq Present(m) /\ Roots(m) \subseteq R /\ Present(m) \subseteq Ref
      /\ \A r \in R : Ref \cap Slots(m.obj[r]) \subseteq R
      /\ m \in Machine
  BY Reached DEF Good, Present
<1>2. /\ c.stack = m.stack /\ c.symbol_table = m.symbol_table
      /\ c \in Machine /\ Present(c) = R
      /\ \A r \in R : c.obj[r] = m.obj[r]
      /\ \A r \in R : HasBytes(m.obj[r]) => BytesOf(c, r) = BytesOf(m, r)
  BY <1>1, Collects
<1>3. \A b \in Block : c.bytes[b] # Null =>
        \E r \in Present(c) : HasBytes(c.obj[r]) /\ c.obj[r].block = b
  BY Collects
<1> HIDE DEF R
<1>4. \A r \in R : HasBytes(m.obj[r]) => Text(c, c.obj[r]) = Text(m, m.obj[r])
  BY <1>2 DEF Text, BytesOf
<1>5. \A v : There(m, v) /\ (v \in Ref => v \in R) => There(c, v)
  BY <1>1, <1>2 DEF There
<1>6. Linked(c)
  <2>1. ASSUME NEW i \in DOMAIN c.stack PROVE c.stack[i] = Null \/ There(c, c.stack[i])
    <3>1. m.stack[i] = Null \/ There(m, m.stack[i])
      BY <1>2 DEF Good, Linked
    <3>2. m.stack[i] \in Ref => m.stack[i] \in R
      BY <1>1, <1>2 DEF Roots
    <3> QED
      BY <1>2, <1>5, <3>1, <3>2
  <2>2. ASSUME NEW r \in Present(c), NEW v \in Slots(c.obj[r])
        PROVE  There(c, v) \/ (v = Null /\ c.obj[r].type # "pair")
    <3>1. r \in R /\ c.obj[r] = m.obj[r] /\ r \in Present(m)
      BY <1>1, <1>2
    <3>2. There(m, v) \/ (v = Null /\ m.obj[r].type # "pair")
      BY <3>1 DEF Good, Linked
    <3>3. v \in Ref => v \in R
      BY <1>1, <3>1
    <3> QED
      BY <1>5, <3>1, <3>2, <3>3
  <2>3. ASSUME NEW r \in Present(c) PROVE Backed(c, r)
    <3>1. r \in R /\ c.obj[r] = m.obj[r] /\ r \in Present(m)
      BY <1>1, <1>2
    <3>2. Backed(m, r)
      BY <3>1 DEF Good, Linked
    <3> QED
      BY <1>2, <3>1, <3>2 DEF Backed
  <2>4. ASSUME NEW e \in c.symbol_table PROVE Filed(c, e)
    <3>1. Filed(m, e) /\ e.obj \in Ref
      BY <1>1, <1>2 DEF Good, Linked, Machine, Entry
    <3>2. e.obj \in R
      BY <1>1, <1>2, <3>1 DEF Roots
    <3> QED
      BY <1>2, <3>1, <3>2 DEF Filed
  <2> QED
    BY <2>1, <2>2, <2>3, <2>4 DEF Linked
<1>7. ASSUME StoresApart PROVE Unshared(c) /\ Entered(c) /\ Interning(c) /\ TextsEnd(c)
  <2>1. Unshared(m) /\ Entered(m) /\ Interning(m) /\ TextsEnd(m)
    BY <1>7 DEF Good, Words
  <2>2. \A o : IsText(o) \/ o.type = "symbol" => HasBytes(o)
    BY DEF IsText, HasBytes
  <2>3. Unshared(c) /\ Entered(c)
    BY <1>1, <1>2, <1>4, <2>1, <2>2 DEF Unshared, Entered
  <2>4. Interning(c) /\ TextsEnd(c)
    BY <1>1, <1>2, <1>4, <2>1, <2>2 DEF Interning, TextsEnd
  <2> QED
    BY <2>3, <2>4
<1> QED
  BY <1>1, <1>2, <1>3, <1>6, <1>7 DEF Words

\* What an instruction did to the objects that are still there, seen after it.
Outcome ==
  \A r \in Present(vm) :
    vm'.obj[r] # Null =>
      /\ IsItems(vm.obj[r]) =>
           \A i \in DOMAIN vm.obj[r].items : vm.obj[r].items[i] # Null => vm'.obj[r].items[i] # Null
      /\ StoresApart /\ IsText(vm.obj[r]) => Text(vm', vm'.obj[r]) = Text(vm, vm.obj[r])

\* A program that stops leaves everything as it is.
LEMMA StatusOnly ==
  ASSUME ObjInv, NEW why \in Over, vm' = [vm EXCEPT !.status = why]
  PROVE  ObjInv' /\ Outcome
<1>1. /\ vm \in Machine /\ vm' \in Machine /\ vm'.obj = vm.obj /\ vm'.bytes = vm.bytes
      /\ vm'.stack = vm.stack /\ vm'.symbol_table = vm.symbol_table
  BY DEF ObjInv, Machine
<1>2. Same(M0, vm') /\ Good(M0)
  BY <1>1, StartsGood DEF Same, M0
<1>3. Linked(vm') /\ Words(vm')
  <2>1. \A i \in DOMAIN vm'.stack : vm'.stack[i] = Null \/ There(M0, vm'.stack[i])
    BY <1>1 DEF ObjInv, Linked, M0
  <2> QED
    BY <1>1, <1>2, <2>1, Restacked DEF Good
<1>4. Present(vm') = Present(vm)
  BY <1>1 DEF Present
<1>5. Counted'
  BY <1>1, <1>4 DEF ObjInv, Counted
<1>6. Outcome
  BY <1>1 DEF Outcome, Text
<1> QED
  BY <1>1, <1>3, <1>5, <1>6 DEF ObjInv

\* An instruction that leaves a fit machine keeps the invariant.
LEMMA StepsKeep ==
  ASSUME ObjInv, Steps
  PROVE  ObjInv' /\ Outcome
<1>1. PICK m : Fit(m) /\ Becomes(m)
  BY DEF Steps
<1>2. CASE m.status # "running"
  <2>1. vm' = [vm EXCEPT !.status = m.status]
    BY <1>1, <1>2 DEF Becomes
  <2>2. m.status \in Over
    BY <1>1, <1>2, Endings DEF Fit, Good, Dead, Machine
  <2> QED
    BY <2>1, <2>2, StatusOnly
<1>3. CASE m.status = "running"
  <2>1. Good(m)
    BY <1>1, <1>3, Endings DEF Fit, Dead
  <2>2. vm' = Collect(m) /\ Cardinality(Present(vm')) <= MaxLive
    BY <1>1, <1>3 DEF Becomes, Present
  <2>3. /\ vm' \in Machine /\ Linked(vm') /\ Words(vm')
        /\ \A b \in Block : vm'.bytes[b] # Null =>
             \E r \in Present(vm') : HasBytes(vm'.obj[r]) /\ vm'.obj[r].block = b
        /\ \A r \in Present(vm') : r \in Present(m) /\ vm'.obj[r] = m.obj[r]
        /\ \A r \in Present(vm') : HasBytes(m.obj[r]) => BytesOf(vm', r) = BytesOf(m, r)
    BY <2>1, <2>2, CollectedGood
  <2>4. ObjInv'
    BY <2>2, <2>3 DEF ObjInv, Counted
  <2>5. ASSUME NEW r \in Present(vm), vm'.obj[r] # Null
        PROVE  /\ IsItems(vm.obj[r]) =>
                    \A i \in DOMAIN vm.obj[r].items :
                      vm.obj[r].items[i] # Null => vm'.obj[r].items[i] # Null
               /\ StoresApart /\ IsText(vm.obj[r]) => Text(vm', vm'.obj[r]) = Text(vm, vm.obj[r])
    <3>1. r \in Present(vm') /\ vm'.obj[r] = m.obj[r]
      BY <2>3, <2>5 DEF Present
    <3>2. IsItems(vm.obj[r]) =>
            \A i \in DOMAIN vm.obj[r].items : vm.obj[r].items[i] # Null => m.obj[r].items[i] # Null
      BY <2>1 DEF Good, ItemsKept
    <3>3. ASSUME StoresApart, IsText(vm.obj[r]) PROVE Text(vm', vm'.obj[r]) = Text(vm, vm.obj[r])
      <4>1. IsText(m.obj[r]) /\ BytesOf(m, r) = BytesOf(vm, r)
        BY <2>1, <3>3 DEF Good, WordsKept
      <4>2. BytesOf(vm', r) = BytesOf(m, r)
        BY <2>3, <3>1, <4>1 DEF IsText, HasBytes
      <4> QED
        BY <4>1, <4>2 DEF Text, BytesOf
    <3> QED
      BY <3>1, <3>2, <3>3
  <2> QED
    BY <2>4, <2>5 DEF Outcome
<1> QED
  BY <1>2, <1>3

-----------------------------------------------------------------------------
(***************************************************************************)
(* The theorems.                                                           *)
(***************************************************************************)

LEMMA InitObjInv == Init => ObjInv
<1> SUFFICES ASSUME Init PROVE ObjInv
  OBVIOUS
<1>1. /\ vm.stack = <<>> /\ vm.symbol_table = {} /\ vm.status = "running"
      /\ vm.obj = [r \in Ref |-> Null] /\ vm.bytes = [b \in Block |-> Null]
  BY DEF Init
<1>2. vm \in Machine
  <2>1. <<>> \in Seq(Slot) /\ {} \in SUBSET Entry
    OBVIOUS
  <2>2. /\ [r \in Ref |-> Null] \in [Ref -> Object \cup {Null}]
        /\ [b \in Block |-> Null] \in [Block -> Seq(Byte) \cup {Null}]
    OBVIOUS
  <2> QED
    BY <2>1, <2>2 DEF Init, Machine
<1>3. Present(vm) = {} /\ \A b \in Block : vm.bytes[b] = Null
  BY <1>1 DEF Present
<1>4. Linked(vm)
  BY <1>1, <1>3 DEF Linked
<1>5. Words(vm)
  BY <1>3 DEF Words, Unshared, Entered, Interning, TextsEnd
<1>6. Counted
  BY <1>3, FS_EmptySet, ObjectsAssumption DEF Counted
<1> QED
  BY <1>2, <1>4, <1>5, <1>6 DEF ObjInv

LEMMA NextObjInv ==
  ASSUME ObjInv, [Next]_vm
  PROVE  ObjInv' /\ Outcome
<1>1. CASE Steps
  BY <1>1, StepsKeep
<1>2. CASE UNCHANGED vm
  <2>1. ObjInv'
    BY <1>2 DEF ObjInv, Counted
  <2>2. Outcome
    BY <1>2 DEF Outcome
  <2> QED
    BY <2>1, <2>2
<1>3. CASE Exit
  BY <1>3, StatusOnly, Endings DEF Exit
<1>4. CASE Next
  <2>1. CASE \/ \E v \in {Number(n) : n \in Numbers} \cup {Bool(TRUE), Bool(FALSE), Empty} : op_lit(v)
             \/ \E s \in Texts : op_lit_string(s)
             \/ \E s \in Texts : op_lit_symbol(s)
             \/ op_depth
    BY <1>1, <2>1, LiteralSteps
  <2>2. CASE op_make_symbol \/ op_dup_ref \/ op_swap \/ op_drop \/ op_not
             \/ \E type \in {"fixnum", "string", "pair", "record"} : op_is(type)
    BY <1>1, <2>2, StackSteps
  <2>3. CASE op_cons \/ op_car \/ op_cdr \/ op_set_car \/ op_set_cdr
    BY <1>1, <2>3, PairSteps
  <2>4. CASE op_make_byte_vector \/ op_make_vector \/ op_make_record \/ op_vector_length
    BY <1>1, <2>4, SizedSteps
  <2>5. CASE op_index_set \/ op_index_ref
    BY <1>1, <2>5, IndexSetSteps, IndexRefSteps
  <2>6. CASE op_string_byte_vector \/ op_byte_vector_string
    BY <1>1, <2>6, ConversionSteps
  <2>7. CASE op_eq
    BY <1>1, <2>7, EqSteps
  <2>8. CASE op_slurp \/ op_open \/ op_close \/ op_fd_write \/ op_fd_read
    BY <1>1, <2>8, FileSteps
  <2>9. CASE Terminated
    BY <1>2, <2>9 DEF Terminated
  <2> QED
    BY <1>3, <1>4, <2>1, <2>2, <2>3, <2>4, <2>5, <2>6, <2>7, <2>8, <2>9 DEF Next
<1> QED
  BY <1>2, <1>4

\* Whatever instructions a program is made of: the stack, the symbol table and
\* every object refer to objects and blocks that are still there, a collection
\* after every instruction (vm_eval) notwithstanding.
THEOREM Invariance == Spec => []ObjInv
<1>1. Init => ObjInv
  BY InitObjInv
<1>2. ObjInv /\ [Next]_vm => ObjInv'
  BY NextObjInv
<1> QED
  BY <1>1, <1>2, PTL DEF Spec

\* No instruction puts a null pointer into a pair, or into a slot of a vector or
\* a record that has been set: vm_pop ends the program first.
THEOREM NullsStay == Spec => NullsContained
<1> DEFINE Contained ==
             \A r \in Objs :
               vm'.obj[r] # Null =>
                 /\ vm'.obj[r].type = "pair" => Null \notin Slots(vm'.obj[r])
                 /\ vm.obj[r].type \in {"vector", "record"} =>
                      \A i \in DOMAIN vm.obj[r].items :
                        vm.obj[r].items[i] # Null => vm'.obj[r].items[i] # Null
<1>1. ASSUME ObjInv', Outcome PROVE Contained
  <2>1. Linked(vm')
    BY <1>1 DEF ObjInv
  <2>2. \A v : There(vm', v) => v # Null
    BY Kinds DEF There, Present
  <2>3. ASSUME NEW r \in Objs, vm'.obj[r] # Null, vm'.obj[r].type = "pair"
        PROVE  Null \notin Slots(vm'.obj[r])
    <3>1. r \in Present(vm')
      BY <2>3 DEF Objs, Present
    <3> QED
      BY <2>1, <2>2, <2>3, <3>1 DEF Linked
  <2>4. ASSUME NEW r \in Objs, vm'.obj[r] # Null, vm.obj[r].type \in {"vector", "record"}
        PROVE  \A i \in DOMAIN vm.obj[r].items :
                 vm.obj[r].items[i] # Null => vm'.obj[r].items[i] # Null
    BY <1>1, <2>4 DEF Outcome, Objs, Present, IsItems
  <2> QED
    BY <2>3, <2>4
<1>2. ObjInv /\ [Next]_vm => Contained
  BY <1>1, NextObjInv
<1> HIDE DEF Contained
<1>3. Contained => [Contained]_vm
  OBVIOUS
<1>4. Spec => [][Contained]_vm
  BY <1>2, <1>3, Invariance, PTL DEF Spec
<1> QED
  BY <1>4 DEF NullsContained, Contained

\* Symbols with the same text are one object, in every program that does not
\* store through a byte vector that shares the bytes of a string (str->u8 in
\* vm_vector.c): make_symbol keys the table with the symbol's own bytes.
THEOREM SymbolsUnique ==
  ASSUME StoresApart
  PROVE  Spec => []SymbolsInterned
<1>1. ObjInv => SymbolsInterned
  BY DEF ObjInv, Words, Interning, SymbolsInterned, Objs, Present
<1> QED
  BY <1>1, Invariance, PTL

\* In such a program the bytes of a string or a symbol end with a 0.
THEOREM StringsEnd ==
  ASSUME StoresApart
  PROVE  Spec => []StringsTerminated
<1>1. ObjInv => StringsTerminated
  BY DEF ObjInv, Words, TextsEnd, BytesOf, IsText, StringsTerminated, Objs, Present
<1> QED
  BY <1>1, Invariance, PTL

\* And a string or a symbol keeps its text as long as it lives, whatever becomes
\* of it: a string may be made a symbol.
THEOREM TextsStay ==
  ASSUME StoresApart
  PROVE  Spec => TextsKept
<1> DEFINE Kept ==
             \A r \in Objs :
               (vm.obj[r].type \in {"string", "symbol"} /\ vm'.obj[r] # Null) =>
                 Text(vm', vm'.obj[r]) = Text(vm, vm.obj[r])
<1>1. Outcome => Kept
  BY DEF Outcome, Objs, Present, IsText
<1>2. ObjInv /\ [Next]_vm => Kept
  BY <1>1, NextObjInv
<1> HIDE DEF Kept
<1>3. Kept => [Kept]_vm
  OBVIOUS
<1>4. Spec => [][Kept]_vm
  BY <1>2, <1>3, Invariance, PTL DEF Spec
<1> QED
  BY <1>4 DEF TextsKept, Kept
=============================================================================
