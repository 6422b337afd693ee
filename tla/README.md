# Insomniac in TLA+

Insomniac is a Scheme system in C: a bootstrap compiler turns Scheme into
assembly text, an assembler turns that into byte code, and a virtual machine
runs it on a mark/sweep garbage collector. This directory holds the models of
its parts, from the source files of a program to its result, the TLC
configurations that check them on small instances, and proofs about the
collector, the hash tables, the buffers, the printing, the assembler and the
control and the data of the machine that TLAPS checks for every instance.

Paths below are relative to the repository; `lib*` stands for
`src/libinsomniac_*`.

## 1. Inventory

| Part | State | Operations | Used by |
|---|---|---|---|
| Collector (`libgc`) | active, dead and perm lists; the root list; the type table; current mark; protect count; allocation count | `gc_alloc*`, `gc_register_*`, `gc_(un)protect`, `gc_sweep`, `gc_de_perm`, `gc_destroy` | everything below |
| Hash tables (`libhash`) | bucket array, size, entries, copy-on-write flag; iterators | `hash_create/cow/set/get/erase/next` | bindings, symbols, imports, labels |
| Buffers (`libbuffer`) | list of blocks, bytes in use | `buffer_write/append/load/read/reset` | assembler, compiler |
| VM, control (`libvm`) | operand stack and depth, current environment; environments with code, ip, bindings, parent and handler | calls, returns, scopes, closures, exceptions, libraries | |
| VM, data (`libvm`) | strings, symbols and their table, byte vectors, vectors, records, pairs | construction, indexing, conversion, comparison | |
| Assembler (`libasm`) | output buffer, labels, jump list, debug records | one per token, then `rewrite_jumps` | compiler, `main.c`, `op_asm` |
| Reader (`libbootstrap`: `lexer.l`, `scheme.y`, `bootstrap_core.c`) | stack of lexer buffers, include stack, the parser's stack | `compile_file`, `yyparse`, `setup_include`, the end of a file | compiler |
| Compiler (`libbootstrap`: `scheme.y`, `bootstrap_emit.c`, streams) | streams of nodes, label counter | grammar actions, `emit_*`, `compiler_code_gen` | `compiler.c` |
| Printing (`vm_output.c`, `vm_utf8.c`) | a static depth counter | `output_object` and what it calls | `out`, error messages |
| Drivers and runtime (`compiler.c`, `main.c`, `libruntime`) | the phases of a compilation | read, generate code, assemble, attach, run | |
| I/O library, Scheme library | none of their own, or held in VM objects | | programs |

The parts interact by plain calls in one thread. There is no concurrency, no
message and no persistent state; what makes the system hard is:

* **Collection in the middle of anything.** Any allocation may sweep, and
  between two allocations callers hold pointers the collector does not know of.
  The interleaving that matters is the mutator's steps with collections.
* **Sharing that must not be seen.** Environments are cloned by copying the
  struct, so clones share bindings; return closures hold the running environment
  itself; duplicated hash tables share an array; `str->u8` shares bytes.
* **Exceptions.** A throw abandons an instruction midway, leaves the stack as it
  is and goes on in a clone of an outer environment.
* **Two stacks for one thing.** An include is begun by the parser and ended by
  the lexer; the buffers and the paths have to move together.
* **Code that is right only as a whole.** What a form compiles to depends on
  whether anything follows it; arguments, return addresses and temporary values
  share one stack, which `call/cc` takes apart and puts together again.
* **Boundaries.** Blocks of a buffer, sizes of a table, address fields and
  operand sizes, signed numbers in unsigned bytes, the lengths of encodings.

What each part owes its callers, in one sentence each: the collector reclaims
exactly what is unreachable and nothing else, and always comes back; a table is
a map of its own; a buffer is the sequence of what was written; a captured
environment can be resumed any number of times and always finds itself as it
was; a handler finds its exception; a jump lands on its label and the machine
reads operands where the assembler put them; symbols are unique and strings keep
their text; the parser sees the text of all files as one, and every form knows
its file; compiled code computes what the program means, in no more space than
that takes; printing shows the object, and ends.

## 2. Modules

| Module | Models |
|---|---|
| `Heap` | what `include/gc.h` promises, and the mutator all callers of the collector amount to |
| `GC` (extends `Heap`) | `libgc`: the collector under that mutator |
| `GC_proofs` | theorems about `GC`: what is reclaimed, and what is counted |
| `Map` | what `include/hash.h` promises |
| `Hash` | `libhash`, which implements `Map` |
| `Hash_proofs` | theorems about `Hash` |
| `Buffer` | `libbuffer`, one step per `memcpy` |
| `Buffer_proofs` | theorems about `Buffer` |
| `Data` | the values of the machine, shared by the modules below |
| `VM` | the control instructions, environments and exceptions of `libvm` |
| `VM_machine`, `VM_proofs` | what each helper of `VM` does to a machine, and theorems about `VM` |
| `Objects` | the data instructions of `libvm`, and its descriptor instructions |
| `Objects_proofs` | theorems about `Objects` |
| `Asm` | `asm_string`, and the machine's reading of its output |
| `Asm_proofs` | theorems about `Asm` |
| `Numbers` | the arithmetic of `vm_math.h` |
| `Machine` (extends `VM`) | `vm_eval` on given code, with the instructions compiled programs need beside those of `VM` |
| `Text` | tokens, and how the parser groups them |
| `Reading` | what reading a program with its includes amounts to |
| `Reader` | the lexer's and the compiler's stacks, which implement `Reading` |
| `Compiler` | the grammar's actions, `emit_*`, `preamble.asm` and `postamble.asm` |
| `Scheme` | what a program means: an evaluator that knows nothing of the machine |
| `Compiled` | `compiler.c` and the runtime: reader, compiler and machine one after the other, with `Scheme` beside them |
| `Utf8`, `Output` | `vm_utf8.c`, `vm_output.c` |
| `Representation` (extends `Output`) | what should be printed, by recursion over the object |
| `Output_proofs` | theorems about `Output` |
| `MC*` | constants, symmetries and inputs for TLC |

How they build on each other: `Compiled` extends `Machine` (and so `VM` and
`Data`), `Reader`, `Compiler` and `Scheme`; `GC` extends `Heap`, and instances it
for the refinement, as `Hash` does `Map` and `Reader` does `Reading`; `Output`
extends `Utf8`. The recursive definitions of what is printed are in a module of
their own, `Representation`, because a module with proofs may not reach one.

Operators and variables keep the names of the C functions and fields. An
operator whose comment starts with *Mutant* is a deliberately wrong variant of
the one that follows it; each property is known to fail for one of them.

**GC and Heap.** An object is an address with a type, a mark and slots. The
linked lists are sets, as nothing depends on their order, and the recursion of
`mark_graph` is a set of pending visits (`todo`) taken in any order, of which
the code's depth-first order is one. `pc` says whether the thread is with the
mutator or inside a call: `mark`, `swept`, `alloc`. The nested sweeps of
`sweep -> pre_alloc -> gc_unprotect -> sweep` are the steps `pre_alloc`,
`Resweep` and `SweepReturn`, with `resweep` counting the calls still open. The
mutator follows the rules that all callers in the repository follow: it uses a
pointer in an unregistered variable (`held`) until an unprotected collection
starts, pairs its protects, and declares the pointers of a type before objects
of that type exist. `Heap` is the same mutator with a collector that may do
anything to what cannot be reached; `GC` refines it by the identity mapping.

**Hash.** Bucket arrays are objects of their own, because a duplicate shares
one. A chain is a sequence of bindings, and a node of the array is a bucket with
a place in its chain. Rehashing puts the nodes at the heads of their new chains
in the order `hash_resize` meets them, so a new chain has its nodes the last
first. The mapping to `Map` is what `hash_get`
answers for each key of each table; `call` is history, by which a step of `Hash`
can only be the step of `Map` that the header promises for that call. Callers
leave a table alone while a duplicate of it still shares its array, as those in
the repository do (see Findings).

**Buffer.** A call is a record of what is left of its loops: `buffer_append` and
`buffer_load` drive the loop of `buffer_write`, and short reads are a choice of
any length. A file that cannot be opened changes nothing. A `read` may fail at any
turn of the loop (`ReadFails`): its -1 becomes the length of a write, which runs
over the memory behind the array until the process dies. What it destroys has no
model, so the call stays in the outcome `Overrun`, and no other call follows.

**VM.** The program is arbitrary: at each step any instruction of the constant
`Instructions` may come next, with any operand. An instruction and its operand
occupy one address and a jump target is an address, because `Asm` shows that
offsets resolve to addresses. An operator named after a C function takes the
machine and returns the machine the function leaves. What the machine no longer
reaches is gone at the end of an instruction, which is what `Heap` promises.
`thrown` is a history variable. External functions called by
`op_call_ext` are modelled by their effect on the stack.

**Objects.** Strings and byte vectors refer to blocks of bytes, which they may
share. A block knows its size; an access outside it ends the run as `corrupt`,
an assertion or a null pointer as `fatal`, a throw as `thrown` (what comes after
a throw is in `VM`). What the operating system answers to `open`, `close`, `read`
and `write` is a choice of everything it may answer. What can be reached is the
least set with the roots that is closed under references; what is outside of it
is gone at the end of an instruction.

**Asm.** A program is any sequence of tokens. `starts`, `sites` and `named` are
history: where each instruction begins, where each jump is, and which place the
last `.file` named. A caller passes a debug pointer (the compiler) or none
(`main.c`, `op_asm`): `has_debug`. `INT_64` and `parse_int` are modelled by what
they compute, the digits of a number and their sum from the last byte to the
first; `Weight` is the value of each byte. Line numbers are integers, and `Null`
is neither a file nor a line.

**Reader, Reading and Text.** A file is a sequence of tokens, a path a sequence
of names, and `(include "path")` one token. `Text` has of the grammar the
nesting: frames for the lists and quotes that are open, and what a parenthesis
too many or too few does. `Reader` has the two stacks, one action for a token,
one for an include and one for the end of a file. `Reading` has one text, the
expansion of all includes, and takes its tokens in order. `Reader` refines it
with the text still to be read as the rest of each buffer, from the top down.

**Compiler.** The rules of `scheme.y` are operators from forms to streams; the
emit functions are operators from nodes to assembly with the label counter
threaded through them (`out`). A stream is a sequence of nodes; the null pointer
that an empty body leaves in place of one, and what fails on it, is a value of
its own. `Assembled` resolves labels, the later of two with one name counting,
as `Asm` shows.

**Scheme** is the reference and models no code: forms, environments and a
continuation. It fixes what the language leaves open the way the repository does
(operands from the last to the first, then the operator; one scope for a `let*`;
no tail position inside `and` and `or`). Its arithmetic is stated independently
of `Numbers`. `room` is the longest that the continuation was.

**Compiled** chooses an input (files and options), has it read and compiled, has
`Scheme` work out what it means, and runs the code. `Size` leaves out
the last byte, as `compiler.c` does, so that a last instruction of a single byte
is never reached; `LastByteLost` names the runs in which that byte was the
program's own.

**Output.** The frames of the recursive functions are the state, with the static
`depth` that they share from one instruction to the next. What is printed is a
sequence of bytes, the fixed texts in one piece each; the reference `Shown` of
`Representation` is a definition by recursion over the object, and the bytes are
compared through `utf8_read_char`.

## 3. Runs

| Run | Checks | Bounds and why they are enough |
|---|---|---|
| `gc_graph` | `IInv`, `AccessibleAlive`, `NoAbort`, `NoDangling`, `Tricolour`, `SweepExact` | 3 objects with 2 slots: shared objects, cycles, chains and garbage that points into the live graph; batches of one cell make `pre_alloc` frequent |
| `gc_perm` | `AllocationsExact`, `RefillOnce`, `HeapSpec`, `CollectionEnds` | 2 objects but the whole interface: permanent ones, a declared type, protection, a root registered twice, destruction; a cycle of ordinary objects, a circle of permanent ones and every nesting of refills; without symmetry, which liveness checking does not allow |
| `hash_tables` | `TablesAreMaps`, `ChainsSound`, `LoadBounded`, `IterationComplete` | 2 tables from size 2 to 7, keys that collide at size 2 only, duplicates in both directions |
| `buffer` | `ReadsBack`, `TailHasRoom`, `OnlyAppends`, `CallsReturn` | blocks of 2 bytes, writes and files of 0 to 3: below, at and across the boundary; 2 buffers and self-append; short and failing reads at every turn |
| `vm_procedures` | `RunningPrivate`, `FrameCoherent`, `ChainsEnd`, `CapturedFrozen` | 2 instructions reached in any order, 3 live environments, 2 frames, stack of 3: what a tail call needs |
| `vm_exceptions` | `HandlerSeesException`, `RunningPrivate`, `TypeOK`, `CapturedFrozen` | 3 instructions and 1 assembled one, 3 live environments, stack of 4: a handler, a faulting callee and the resumption point, with a library's handle, function and argument |
| `asm_code` | `JumpsLand`, `InstructionsParse`, `PlacesRecorded` | address fields of 2 bytes with 4 values, up to 6 bytes of code with a debug pointer and 10 without, 2 labels, 2 files and 2 lines, 3 records: a place, another, and the first again |
| `objects_words` | `SymbolsInterned`, `StringsTerminated`, `TextsKept` | 3 live objects with blocks of up to 2 bytes, so that a symbol, a string of the same text and a vector coexist; strings read from files; stores by index but no `str->u8` (see Findings) |
| `objects_structures` | `NullsContained` | 2 live objects, vectors of 0 or 1 element, records of 1 or 2; descriptors 0 and 1 |
| `compiled` | `MeaningKept`, `TailCallsFlat`, `ReadsText`, `Stops` | 1652 inputs, see below; numbers of 4 bits, so that every operator overflows; `Fuel` 300 steps of meaning, more than any program that ends needs; an include stack of 3 |
| `output` | `PrintsWhatItIs`, `DepthAccountsForNils`, `PrintingEnds` | every graph of 2 compound objects (pairs, vectors, records) with shared, circular and missing parts; 2 instructions, so that the second meets the depth the first left; lists of at most 2 and depth below 4, so that both limits cut; characters on both sides of each length of encoding |
| `asm_location` | `LocationOfFault`, which fails | see Findings |

All runs but the last pass. Bounds in guards are the constants named `Max*` (and
`MaxCode` per kind of caller); addresses are finite sets, and in `GC` running out
of them is the action `OutOfMemory`. In `compiled` the bounds on environments,
tables and depth are above what any input needs.

**The inputs of `compiled`** (`MCCompiled`): every form with simple parts in
every place a form can stand; seven chosen forms in a place in a place; all
shapes of formals with 0 to 3 arguments; all operators at the ends of the range
of numbers; recursion in and out of tail position, and loops that do not end;
escapes, repeated returns and nested uses of `prim-call/cc`, `emergency-exit` and
a record definition, with the preamble and the postamble; and files with
includes at the end and before it, in a body, among arguments, in another
directory, with half a form, missing, empty and of themselves, with and without
the base library, with parentheses that do not match. Programs assembled without
the postamble (`--no-pre`) end in an instruction of one byte, of more, or in one
that a jump passes over. What a parenthesis too many or too few does is stated
once, in `Text`, so the runs show what follows from it and not that it is so.

**Fairness.** `CollectionEnds` assumes weak fairness of the collector's own
steps, `CallsReturn` that of the steps of a buffer call and `PrintingEnds` that of the printing functions: the process has one thread, and
inside a call nothing else can run. Nothing is assumed of the mutator, nor that
a program goes on to print. `Stops` assumes that the compiler and the machine go
on until they are done; this is weak fairness of the next-state relation, written
in a form that TLC can evaluate without `ENABLED`. `CollectionEnds` holds only
while no permanent objects form a circle; with one, `mark_graph` does not come
back. (No caller in the repository allocates permanent objects.) `CallsReturn`
says that a call returns or is a load whose `read` failed; slurping a directory is
enough for that.

**Symmetry and views.** `gc_graph`, `hash_tables`, the runs of `Asm` and
`objects_structures` are reduced by the symmetry of addresses or names. The view
of `hash_tables` leaves out `call`, which is only ever looked at in the step that
sets it. `VM` allocates the lowest free address, and its runs identify states
that differ in addresses only: `MCVM!View` numbers environments in the order a
walk from the current one and the stack meets them. Every property of `VM` is
indifferent to such a renaming.

**Deadlock** is checked in every run but `output`; the end of a program, and
what is left of a process after `Overrun` (`Lost`), are explicit stuttering steps. `output` stops after the last instruction, and
`PrintingEnds` says that it stops nowhere else.

**Refinements.** `GC` implements `Heap` (`HeapSpec`), `Hash` implements `Map`
(`TablesAreMaps`), both also proved; `Reader` implements `Reading` (`ReadsText`).

## 4. Proofs

All theorems are about every value of the constants that satisfies the named
assumption of the component (`HeapAssumption` and `GCAssumption`,
`HashAssumption`, `BufferAssumption`, `OutputAssumption`, `VMAssumption`,
`ObjectsAssumption`, `AsmAssumption`). These say what the constants are (finite address spaces, a block size above 0, a
hash function from keys to numbers), that `Null` is no value, and that addresses
suffice: one operation of `Hash` needs two arrays beside those of the tables, one
instruction of `VM` makes up to four environments and one table, one of `Objects`
an object and a block. Bounds
(`Max*`) are any numbers.

**Collector** (`GC_proofs`). Any set of objects, slots, types and roots, any
batch size, any bound on protection and registration.

* `TypeCorrect`, `Invariance`: `TypeOK` and `IInv` always hold
* `Safety`: `AccessibleAlive`; `AssertionHolds`: `NoAbort`
* `Closedness`: `NoDangling`; `MarkingSound`: `Tricolour`
* `Exactness`: `SweepExact`; `Refinement`: `HeapSpec`

Safety alone is not inductive: that a reachable object is on a list says nothing
of what its pointers lead to after the next store, nor of a marking that is half
done. `IInv` adds

* `MarksMatchLists`: a mark tells the list, and between collections all active
  objects carry the current mark, so that one flip unmarks them all;
* `RootsAlive`, `PendingAlive` and `NoDangling`: roots, borrowed pointers,
  pending visits and every traced pointer of a listed object, garbage included,
  lead to listed objects. Garbage matters: a cell is recycled while other
  garbage may point to it, which is sound only because both die in one sweep;
* `Tricolour`: what is walked points only to what is pending, marked or
  permanent, and nothing unreachable is ever pending;
* `PhaseInv`: a collection runs unprotected and with nothing borrowed.

When `todo` is empty, `Tricolour` makes marked-or-permanent closed, so it
contains everything reachable; its other half makes it no larger (`MarkingDone`,
from which `Exactness` and the sweep's case of `NoDangling` follow). Reachability
is the least closed set with the roots, so no induction is needed. `Refinement`
goes action by action: marking, sweeping and refilling are `Reclaim` or invisible,
and an allocated block is inaccessible because dead and unused blocks are not on
a list that `AccessibleAlive` speaks of.

The counts go on from there. `Refills` (`RefillOnce`) needs to know why the
sweep inside `pre_alloc` leaves a dead cell: the batch it made is on the active
list and no root leads to it (`RefillInv`). `Accounting` (`AllocationsExact`)
needs that an unregistered type has no pointer definition and that nodes of roots
are bounded (`CountInv`).

**Hash tables** (`Hash_proofs`). Any hash function, any size of a new table, any
number of tables.

* `SoundChains`: `ChainsSound`; `LoadKept`: `LoadBounded`
* `AllReturned`: `IterationComplete`
* `Refinement`: `TablesAreMaps`

The lemmas know an array by the set of its bindings: in a sound array a lookup in
one chain finds what the set says (`LookupFinds`), rehashing keeps the set
(`RehashBinds`), `hash_find` adds or takes out one key (`InsertBinds`,
`UnlinkBinds`). That a rehashed chain holds each node once is a bijection: a node
stands at the place that the number of nodes after it tells (`LastFirstOrders`).
The inductive invariant `IInv` is `StoreInv` and `IterInv`. `StoreInv` adds to
soundness what the properties leave open: the count of entries is never *below*
the number of nodes (it may be above, as `hash_erase` does not count down), the
size of a table is that of its array, and of the tables that share an array all
but one are flagged; without the last, a write to an unflagged table would be
seen by another. `IterInv` says that what was returned and what the iterator has
left (`Left`: the later buckets and the end of the chain it stands in) make up
the array, in number and as bindings.

**Buffers** (`Buffer_proofs`). Any block size, any texts, self-append included.

* `ReadBack`: `ReadsBack`; `RoomInTail`: `TailHasRoom`; `AppendOnly`: `OnlyAppends`

`BufferInv` relates the loop variables to what has been passed: the write in
progress has the next bytes of the source and stands at the end of the bytes in
use (`WriteInv`), and what an append has still to read stands where it stood when
it was called (`SourceKept`), although the source may be the buffer it writes to.
Loads may fail at any turn. That all other calls come back (`CallsReturn`) is not
among the theorems.

**Printing** (`Output_proofs`). Any graph of objects, any limits.

* `TypeCorrect`; `DepthRestored`: `DepthAccountsForNils`
* `Nesting`: the calls nest no deeper than the limit on the depth

In the middle of an instruction the static depth is the number of open calls and
of the null pointers printed so far (`DepthInv`).

**Machine** (`VM_machine`, `VM_proofs`). Any sequence of instructions from any
set of them, any number of environments, any depth of the stack.

* `TypeCorrect`: `TypeOK`; `RunningAlone`: `RunningPrivate`
* `FramesCoherent`: `FrameCoherent`; `SearchesEnd`: `ChainsEnd`
* `Reentrant`: `CapturedFrozen`
* `HandlersSee`: `HandlerSeesException`, for programs without `make_symbol`

`VM_machine` says of each helper what it does to a machine in the middle of an
instruction (`Mid`: still sound, with the environments of before untouched but for
the running one, and enough addresses for what the instruction has still to
make); `VM_proofs` puts them together, one lemma per instruction. `VMInv` says
that everything referred to is there (`Linked`), that nothing on the stack, in a
table or among the parents refers to the environment that runs (`Private`: the
reason why `op_call` may capture `vm->env` itself), that environments with the
same bindings have the same parent (`Coherent`), and that the parents end
(`Grounded`: any set of environments has one whose parent is outside of it, which
needs no induction to preserve; that a walk along the parents ends follows from
it). The hypothesis of `HandlersSee` is what the code requires: `op_make_symbol`
pushes a symbol over the exception it has thrown (see Findings).

**Data of the machine** (`Objects_proofs`). Any sequence of instructions from any
set of them, any texts, any assignment of texts to the chains of the symbol table,
any number of objects, a collection after every instruction.

* `Invariance`: `ObjInv`, below; `NullsStay`: `NullsContained`
* `SymbolsUnique`: `SymbolsInterned`; `StringsEnd`: `StringsTerminated`;
  `TextsStay`: `TextsKept`; these under the hypothesis `StoresApart`

`StoresApart` says that the program does not use both `str->u8` and stores by
index. The code requires it: without it the three properties fail (see Findings);
`objects_words` uses stores without `str->u8`, and `str->u8` without stores is
proved too.

None of the properties is inductive. That symbols are unique says nothing of the
table, which may have lost an entry or have one under a text its symbol no longer
has; `Entered` says that every symbol is in the table, in the chain of the text it
has *now*. As the key of an entry is the symbol's own block (`Filed`), a store
into that block would undo this, so without `str->u8` no two objects have a block
in common (`Unshared`), and a byte vector's block is no text's. That a new block is
really new needs every object's bytes to be there, and an entry's object to have
survived every collection (`Linked`, which also has that a pair holds no null
pointer). That an instruction finds a free address needs that blocks do not
outlive their objects (`Counted`: there are at most as many blocks as objects).

Each lemma about a helper takes a machine in the middle of an instruction that is
`Good` (sound, and nothing that was there before has been lost or renamed) to
another. A machine that has stopped in the middle only passes its status on
(`Dead`), so nothing more is said of it. `CollectedGood` is the collection: what is
reachable is closed (`Collects`), hence what is left refers to what is left. One
lemma per group of instructions and `StepsKeep` put these together; the action
properties follow from `Outcome`, which compares the objects that survive with
what they were.

**Assembler** (`Asm_proofs`). Any number of byte values, any width of a word, any
tokens (strings of up to 2 bytes, as in the model), with and without a debug
pointer. Code stays shorter than the modulus, as no memory holds 2^64 bytes.

* `InstructionsFollow`: `InstructionsParse`; `JumpsReachLabels`: `JumpsLand`
* `RecordsSuffice`: `PlacesRecorded`

What `INT_64` wrote, `parse_int` reads (`ReadsBackInteger`): after k of its bytes
the sum is the number without the digits still to come, by induction over k.
Induction takes the form of `Upward` (a set that has 0 and with every number the
next has them all), and that the recursive functions `Weight` and `Shifted` exist
is proved the same way (`HornerExists`). A jump lands because the difference of
two addresses, read as a number with a sign, is right up to the modulus, and all
code is shorter than that.

`InstructionsParse` is not inductive: filling in a jump must not touch an opcode
or the length of a string. `Chain` says that each instruction begins where the
one before ends and covers its opcode and its operand, so that bytes of two
instructions are apart (`Apart`); a field is filled in behind the opcode of a
jump (`SiteIn`), hence disturbs nothing else (`Filled`). `JumpInv` says that every
jump is still on the list or has landed, and `PlaceInv` that the last `.file` is
the place of the last record, so that a record `push_debug` leaves out would have
repeated it.

**Only model-checked.** `CollectionEnds`, `CallsReturn`, `PrintingEnds` and
`Stops`, as liveness is beyond this prover. `PrintsWhatItIs`, `ReadsText`,
`MeaningKept` and `TailCallsFlat`: `Representation`, `Text`, `Reading`,
`Compiler` and `Scheme` are recursive over objects, files or forms, which the
prover cannot follow. The hypotheses of `HandlersSee` and of the theorems about
strings and symbols are what the code needs, so without them there is nothing to
prove.

## 5. Findings

Checked by a run that fails as expected:

* `asm_location`. `find_source_location` (`libvm/vm_exception.c:19`) takes the
  first record at or after `ip`, and `ip` is already behind the instruction.

Modelled as they are, and seen while modelling. In the libraries:

* `hash_cow` flags only the duplicate (`libhash/hash_core.c:51`). A write to the
  source while the array is shared shows in the duplicate; `TablesAreMaps` holds
  for callers that do not.
* `hash_erase` does not count down, so `hash_size` is an upper bound.
* `buffer_load` takes the -1 of a failing `read` for a length
  (`libbuffer/buffer_load.c:24`) and does not come back: `ReadFails`, which
  `CallsReturn` excepts.

In the virtual machine:

* `op_slurp` overwrites `reg1`, the only root of the path it has popped, before a
  possible sweep, and opens the path afterwards (`libvm/.../vm_io.c:15`): the
  outcome `corrupt` of `Objects`. It is not excluded from `objects_words`, whose
  properties speak of the machine while it runs.
* `op_fd_write` writes as many bytes as it is told, whatever the vector has.
* `op_asm` clones the environment with handler and handler address and replaces
  only the code (`libvm/.../vm_library.c:193`). A throw in the assembled code
  continues at that address of the wrong code.
* `op_make_symbol` goes on after its throw and covers the exception with a
  symbol. `make_symbol` is therefore not among the instructions of
  `vm_exceptions`, where `HandlerSeesException` would fail, but of
  `vm_procedures`, where there is no handler and its throw is fatal; that it
  makes symbols of strings is in `Objects`.
* A store through a byte vector made by `str->u8` renames symbols. `str_u8` is
  therefore not among the instructions of `objects_words`: with it
  `SymbolsInterned` and `TextsKept` fail, and, as the index test lets the length
  itself pass, `StringsTerminated` too.
* `u8->str` copies with `strncpy`, up to the first 0, and keeps the length.
* `op_eq` does not compare types: `0` and `#f` are `eq`.
* `op_call_ext` accepts the function number one past the last; it throws twice
  for bad operands. `op_import` of a library without exports crashes.
* `output_object` does not count its depth down for a null pointer
  (`libvm/vm_output.c:117`); `DepthAccountsForNils` says what remains true.

In the assembler and the compiler:

* Without a debug pointer the operands of `.file` are assembled as literals.
* The include stack is pushed without a test of its size: the status `overrun`
  of `Reader`, which a file that includes itself reaches.
* After a surplus `)` code is generated for the forms before it; at the end of a
  file inside a form, for an empty program.
* `begin` joins its forms to the stream it stands in, and inside a call, `and`
  and `or` each of them counts as an operand. The inputs of `compiled` have no
  such `begin` with several forms.
* `let*` is one scope for all its bindings, and `(quote x)` gives the list `(x)`;
  inside a quoted datum a quote is lost. The first is so in `Scheme` too, the
  others are not among the inputs.
* Strings in `asm` forms reach the assembly without their quotes, as whatever
  they spell. In the model they spell instructions, and `Scheme` takes them so
  too; any other text (the name of a label, a number, nothing) is not modelled.
* `compiler.c:263` writes a code size one less than the code has, so that a last
  instruction of one byte (one without operands, `()`, `#t`, `#f`) is not run:
  harmless after `postamble.asm`, whose last `ret` is lost. Without it
  (`--no-pre`) `MeaningKept` excepts the runs that come to such an instruction
  (`LastByteLost`); it fails for them.

Seen, and not modelled:

* `compiler.c:320` copies the assembly into a block without room for the 0 that
  the scanner looks for.
* `op_is_library` is defined, and missing from `setup_instructions`.
* `mark_graph` needs a frame of the C stack for each object on a path; the model
  takes its visits in any order and has no such limit.

Some of these are named as hazards and caught by no property, because the runs
leave out what sets them off: `make_symbol` where there are handlers, `str->u8`
together with stores by index, `begin` inside a call. The properties fail with
them, for the reasons given above.

## 6. Not modelled

* The assembler's lexer and how the compiler's lexer makes tokens of characters
  (generated scanners without state); syntax errors within a form: the inputs of
  `compiled` are grammatical but for their parentheses.
* The formatting of assembly text, comments and `.file` directives of the
  compiler, character literals, `compile_string`.
* Options, temporary files and the linker in `compiler.c`; the debug tables it
  writes; `main.c`, which evaluates assembly that `Asm` and `VM` cover.
* The I/O library: system calls behind `op_call_ext`, whose calls are in `VM`.
* The library in Scheme (`dynamic-wind`, parameters, records, strings): input of
  the compiler, and too long for a bounded run. The preamble it rests on is in.
* `buffer_open`, `vm_reset`, `op_gc_stats`, the `gc-stats` routine of the
  preamble, printed forms of atoms other than characters.
* The depth of the C stack, in `mark_graph` and in the compiler.

## 7. Plan

1. The rooting of VM instructions: which temporaries `reg1..reg3` and the stack
   keep alive across the allocations of one instruction, as a mutator of `Heap`;
   `op_slurp` is the one known to fail.
2. `dynamic-wind` from `lib/` as a program over `Machine`.
