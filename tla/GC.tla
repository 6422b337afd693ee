--------------------------------- MODULE GC ---------------------------------
(***************************************************************************)
(* The mark/sweep collector of libinsomniac_gc, serving the mutator of     *)
(* module Heap.                                                            *)
(*                                                                         *)
(* A member of Obj is the address of one block behind a meta_obj header.   *)
(* The linked lists of gc_ms_type are sets: no operation depends on the    *)
(* order of a list, only on which list an object is on.  The recursion of  *)
(* mark_graph is a set of pending visits taken in any order, of which the  *)
(* depth first order of the code is one.                                   *)
(***************************************************************************)
EXTENDS Heap

CONSTANTS
  CellType,   \* the types whose size is cell_size
  PermArg,    \* values of the argument perm that callers pass
  Batch       \* cells one pre_alloc makes (1000 in the code)

\* The arguments of an allocation.
Request == [perm : BOOLEAN, type : Type \cup {Untyped}, cell : BOOLEAN]

ASSUME GCAssumption ==
  /\ CellType \subseteq Type \ {ArrayType}
  /\ PermArg \subseteq BOOLEAN
  /\ Batch \in Nat \ {0}
  /\ Null \notin Request

VARIABLES
  active, dead,       \* active_list, dead_list
  mark,               \* meta_obj.mark, or "FREE" for memory the GC does not own
  cell,               \* whether meta_obj.size = cell_size
  current_mark,
  allocations,
  pc,                 \* where the single thread is
  todo,               \* pointers mark_graph still has to visit
  req,                \* the allocation in progress, or Null
  resweep             \* pre_alloc calls that still owe their closing gc_sweep

lists   == <<active, dead, mark, cell>>
control == <<pc, todo, req, resweep>>
vars    == <<heapVars, lists, control, current_mark, allocations>>

Colour == {"RED", "BLACK"}

Unused == {o \in Obj : mark[o] = "FREE"}

-----------------------------------------------------------------------------
\* gc_create, and the mutator before its first call.  The type table and the
\* pointer definition of the array type are allocated.
Init ==
  /\ HeapInit
  /\ active = {} /\ dead = {}
  /\ mark = [o \in Obj |-> "FREE"]
  /\ cell = [o \in Obj |-> FALSE]
  /\ current_mark = "RED"
  /\ allocations = 2
  /\ pc = "client" /\ todo = {} /\ req = Null /\ resweep = 0

(***************************************************************************)
(* Type definitions and roots.                                             *)
(***************************************************************************)

\* The table is copied into one that is a type longer: one allocation, one free.
gc_register_type(t) ==
  /\ pc = "client"
  /\ DeclareType(t)
  /\ UNCHANGED <<lists, control, current_mark, allocations>>

gc_register_pointer(t, s) ==
  /\ pc = "client"
  /\ \A o \in active \cup perm : type_def[o] # t
  /\ DeclarePointer(t, s)
  /\ allocations' = allocations + 1
  /\ UNCHANGED <<lists, control, current_mark>>

gc_register_root(r) ==
  /\ pc = "client"
  /\ Register(r)
  /\ allocations' = allocations + 1
  /\ UNCHANGED <<lists, control, current_mark>>

\* Mutant: the node of the list is not freed.
gc_unregister_root_leaky(r) ==
  pc = "client" /\ Unregister(r) /\ UNCHANGED <<lists, control, current_mark, allocations>>

gc_unregister_root(r) ==
  /\ pc = "client"
  /\ Unregister(r)
  /\ allocations' = allocations - 1
  /\ UNCHANGED <<lists, control, current_mark>>

(***************************************************************************)
(* Collection.                                                             *)
(***************************************************************************)

\* Mutants: the mark is not flipped; the enumeration is counted through.
same_mark  == current_mark
count_mark == IF current_mark = "RED" THEN "BLACK" ELSE "PERM"

set_next_mark == IF current_mark = "RED" THEN "BLACK" ELSE "RED"

\* sweep() past its test of protect_count, up to the first visit.  From here on
\* the mutator may no longer trust pointers the collector does not know of.
StartSweep ==
  /\ current_mark' = set_next_mark
  /\ todo' = RootSet
  /\ held' = {}
  /\ pc' = "mark"

\* One call of mark_graph on a pointer that is not null, for an object that
\* points to kids.  A perm object keeps its mark and is walked again each time
\* it is met; "again" tells whether a marked object is, too.
Visit(o, kids, again) ==
  /\ pc = "mark"
  /\ o \in todo
  /\ \/ /\ mark[o] = current_mark /\ ~ again
        /\ todo' = todo \ {o}
        /\ UNCHANGED <<mark, pc>>
     \/ /\ mark[o] \in Colour \cup {"PERM"} /\ (mark[o] # current_mark \/ again)
        /\ mark' = [mark EXCEPT ![o] = IF @ = "PERM" THEN @ ELSE current_mark]
        /\ todo' = (todo \ {o}) \cup kids
        /\ UNCHANGED pc
     \/ /\ mark[o] \in {"DEAD", "FREE"}
        /\ pc' = "abort"
        /\ UNCHANGED <<mark, todo>>
  /\ UNCHANGED <<heapVars, active, dead, cell, current_mark, allocations, req, resweep>>

\* Mutants: pointers are not followed; marked objects are walked again.
mark_graph_shallow(o) == Visit(o, {}, FALSE)
mark_graph_again(o)   == Visit(o, Children(o), TRUE)

mark_graph(o) == Visit(o, Children(o), FALSE)

\* Mutant: every block is freed.
NeverRecycled(o) == FALSE

\* The test of sweep_list for blocks that can serve the next cell.
Recycled(o) == cell[o]

\* The marking is over: unmarked cells go to the dead list with their contents,
\* everything else that is unmarked is freed.
sweep_list ==
  LET lost  == {o \in active : mark[o] # current_mark}
      freed == {o \in lost : ~ Recycled(o)}
  IN
  /\ pc = "mark" /\ todo = {}
  /\ active' = active \ lost
  /\ dead' = dead \cup (lost \ freed)
  /\ mark' = [o \in Obj |-> IF o \in freed THEN "FREE"
                            ELSE IF o \in lost THEN "DEAD" ELSE mark[o]]
  /\ field' = [o \in Obj |-> IF o \in freed THEN Zeroed ELSE field[o]]
  /\ type_def' = [o \in Obj |-> IF o \in freed THEN Untyped ELSE type_def[o]]
  /\ allocations' = allocations - Cardinality(freed)
  /\ pc' = "swept"
  /\ UNCHANGED <<perm, tables, roots, var, protect_count, held, cell, current_mark,
                 todo, req, resweep>>

\* The dead list is still empty: Batch untyped cells are allocated under
\* gc_protect; the gc_unprotect that follows finds the dead list empty and
\* sweeps them onto it, and pre_alloc then owes one more gc_sweep.
pre_alloc ==
  /\ pc = "swept" /\ dead = {}
  /\ \E new \in {S \in SUBSET Unused : Cardinality(S) = Batch} :
       /\ active' = active \cup new
       /\ mark' = [o \in Obj |-> IF o \in new THEN current_mark ELSE mark[o]]
       /\ cell' = [o \in Obj |-> cell[o] \/ o \in new]
       /\ type_def' = [o \in Obj |-> IF o \in new THEN Untyped ELSE type_def[o]]
       /\ field' = [o \in Obj |-> IF o \in new THEN Zeroed ELSE field[o]]
  /\ allocations' = allocations + Batch
  /\ resweep' = resweep + 1
  /\ StartSweep
  /\ UNCHANGED <<perm, tables, roots, var, protect_count, dead, req>>

\* The gc_sweep that closes pre_alloc.
Resweep ==
  /\ pc = "swept" /\ dead # {} /\ resweep > 0
  /\ resweep' = resweep - 1
  /\ StartSweep
  /\ UNCHANGED <<objects, tables, roots, var, protect_count, lists, allocations, req>>

\* sweep() returns to gc_unprotect or gc_sweep, or into internal_alloc.
SweepReturn ==
  /\ pc = "swept" /\ dead # {} /\ resweep = 0
  /\ pc' = IF req = Null THEN "client" ELSE "alloc"
  /\ UNCHANGED <<heapVars, lists, current_mark, allocations, todo, req, resweep>>

gc_sweep ==
  /\ pc = "client"
  /\ protect_count = 0
  /\ StartSweep
  /\ UNCHANGED <<objects, tables, roots, var, protect_count, lists, allocations, req, resweep>>

(***************************************************************************)
(* Protection.                                                             *)
(***************************************************************************)

gc_protect ==
  /\ pc = "client"
  /\ Protect
  /\ UNCHANGED <<lists, control, current_mark, allocations>>

gc_unprotect ==
  /\ pc = "client"
  /\ protect_count > 0
  /\ protect_count' = protect_count - 1
  /\ \/ protect_count = 1 /\ dead = {} /\ StartSweep
     \/ (protect_count > 1 \/ dead # {}) /\ UNCHANGED <<current_mark, todo, held, pc>>
  /\ UNCHANGED <<objects, tables, roots, var, lists, allocations, req, resweep>>

(***************************************************************************)
(* Allocation.                                                             *)
(***************************************************************************)

\* internal_alloc up to the choice of the block, which may sweep first.
Begin(r, sweeping) ==
  /\ pc = "client"
  /\ req' = r
  /\ \/ sweeping /\ StartSweep
     \/ ~ sweeping /\ pc' = "alloc" /\ UNCHANGED <<current_mark, todo, held>>
  /\ UNCHANGED <<objects, tables, roots, var, protect_count, lists, allocations, resweep>>

\* Mutant: sweep() does not look at protect_count.
internal_alloc_unguarded(r) == Begin(r, r.cell /\ dead = {})

\* A cell sized request sweeps when no dead cell is left and nothing protects
\* the heap.
internal_alloc(r) == Begin(r, r.cell /\ dead = {} /\ protect_count = 0)

gc_alloc(p, c)               == internal_alloc([perm |-> p, type |-> Untyped, cell |-> c])
gc_alloc_type(p, t)          == internal_alloc([perm |-> p, type |-> t, cell |-> t \in CellType])
gc_alloc_pointer_array(p, c) == internal_alloc([perm |-> p, type |-> ArrayType, cell |-> c])

\* The rest of internal_alloc and of its callers: the block is zeroed, put on
\* its list, given its type and handed to the mutator.
AttachAs(o, contents) ==
  /\ mark' = [mark EXCEPT ![o] = IF req.perm THEN "PERM" ELSE current_mark]
  /\ active' = IF req.perm THEN active ELSE active \cup {o}
  /\ perm' = IF req.perm THEN perm \cup {o} ELSE perm
  /\ cell' = [cell EXCEPT ![o] = req.cell]
  /\ field' = [field EXCEPT ![o] = contents]
  /\ type_def' = [type_def EXCEPT ![o] = req.type]
  /\ held' = held \cup {o}
  /\ req' = Null
  /\ pc' = "client"
  /\ UNCHANGED <<tables, roots, var, protect_count, current_mark, todo, resweep>>

\* Mutant: a reused cell is not zeroed.
Attach_dirty(o) == AttachAs(o, field[o])

Attach(o) == AttachAs(o, Zeroed)

Reuse == req.cell /\ dead # {}

TakeDead(o) ==
  /\ pc = "alloc" /\ Reuse
  /\ o \in dead
  /\ dead' = dead \ {o}
  /\ Attach(o)
  /\ UNCHANGED allocations

Malloc(o) ==
  /\ pc = "alloc" /\ ~ Reuse
  /\ o \in Unused
  /\ allocations' = allocations + 1
  /\ Attach(o)
  /\ UNCHANGED dead

\* calloc returns NULL and the process dies on its first use of the block.
OutOfMemory ==
  /\ \/ pc = "alloc" /\ ~ Reuse /\ Unused = {}
     \/ pc = "swept" /\ dead = {} /\ Cardinality(Unused) < Batch
  /\ pc' = "oom"
  /\ UNCHANGED <<heapVars, lists, current_mark, allocations, todo, req, resweep>>

\* A permanent object becomes an ordinary one, as though just created; on any
\* other object the call returns at once.
gc_de_perm(o) ==
  /\ pc = "client"
  /\ mark[o] = "PERM"
  /\ DePerm(o)
  /\ mark' = [mark EXCEPT ![o] = current_mark]
  /\ active' = active \cup {o}
  /\ UNCHANGED <<dead, cell, control, current_mark, allocations>>

(***************************************************************************)
(* The blocks gc_malloc has counted: the type table and its pointer        *)
(* definitions, the nodes of the root list, and the objects.               *)
(***************************************************************************)

PtrDefs   == {p \in Type \X Slot : p[1] # ArrayType /\ p[2] \in traced[p[1]]}
RootNodes == {p \in Root \X (1..MaxRegs) : p[2] <= roots[p[1]]}
TableSize == 2 + Cardinality(PtrDefs)

\* Every list and type table is freed; the nodes of the root list are not.
gc_destroy ==
  /\ pc = "client"
  /\ active' = {} /\ dead' = {}
  /\ mark' = [o \in Obj |-> "FREE"]
  /\ allocations' = allocations - Cardinality(active \cup dead \cup perm) - TableSize
  /\ pc' = "destroyed"
  /\ Destroy
  /\ cell' = [o \in Obj |-> FALSE]
  /\ UNCHANGED <<current_mark, todo, req, resweep>>

-----------------------------------------------------------------------------
Declare ==
  \/ \E t \in Type : gc_register_type(t)
  \/ \E t \in Type, s \in Slot : gc_register_pointer(t, s)

Allocate ==
  \/ \E p \in PermArg, c \in BOOLEAN : gc_alloc(p, c)
  \/ \E p \in PermArg, t \in types \ {ArrayType} : gc_alloc_type(p, t)
  \/ \E p \in PermArg, c \in BOOLEAN : gc_alloc_pointer_array(p, c)

\* The steps a call takes once the mutator has made it.
Collector ==
  \/ \E o \in Obj : mark_graph(o)
  \/ sweep_list
  \/ pre_alloc
  \/ Resweep
  \/ SweepReturn
  \/ \E o \in Obj : TakeDead(o)
  \/ \E o \in Obj : Malloc(o)
  \/ OutOfMemory

\* The mutator's own loads and stores, between two calls.
Mutate ==
  /\ pc = "client"
  /\ \/ \E r \in Root : LoadVar(r)
     \/ \E r \in Root, v \in Pointer : StoreVar(r, v)
     \/ \E o \in Obj, s \in Slot : LoadField(o, s)
     \/ \E o \in Obj, s \in Slot, v \in Pointer : StoreField(o, s, v)
  /\ UNCHANGED <<lists, control, current_mark, allocations>>

Terminated == pc \in {"destroyed", "oom"} /\ UNCHANGED vars

Next ==
  \/ Declare
  \/ Allocate
  \/ Collector
  \/ Mutate
  \/ \E r \in Root : gc_register_root(r)
  \/ \E r \in Root : gc_unregister_root(r)
  \/ gc_protect
  \/ gc_unprotect
  \/ gc_sweep
  \/ \E o \in Obj : gc_de_perm(o)
  \/ gc_destroy
  \/ Terminated

Spec == Init /\ [][Next]_vars

\* The process has one thread: inside the collector it runs until it returns.
FairSpec == Spec /\ WF_vars(Collector)

-----------------------------------------------------------------------------
Alive  == active \cup perm
Marked == {o \in active : mark[o] = current_mark}

\* Permanent objects that point to each other in a circle.
PermCycle == \E S \in SUBSET perm \ {{}} : \A o \in S : Children(o) \cap S # {}

(***************************************************************************)
(* Properties.                                                             *)
(***************************************************************************)

TypeOK ==
  /\ type_def \in [Obj -> Type \cup {Untyped}]
  /\ field \in [Obj -> [Slot -> Pointer]]
  /\ perm \in SUBSET Obj /\ active \in SUBSET Obj /\ dead \in SUBSET Obj
  /\ roots \in [Root -> Nat]
  /\ var \in [Root -> Pointer]
  /\ types \in SUBSET Type
  /\ traced \in [Type -> SUBSET Slot]
  /\ protect_count \in Nat
  /\ held \in SUBSET Obj
  /\ mark \in [Obj -> Colour \cup {"PERM", "DEAD", "FREE"}]
  /\ cell \in [Obj -> BOOLEAN]
  /\ current_mark \in Colour
  /\ allocations \in Int
  /\ pc \in {"client", "mark", "swept", "alloc", "abort", "oom", "destroyed"}
  /\ todo \in SUBSET Obj
  /\ req \in Request \cup {Null} /\ (pc = "alloc" => req # Null)
  /\ resweep \in Nat

\* A mark tells which list an object is on (sweep_list and gc_de_perm rely on
\* it), and between collections all active objects have the current mark: the
\* flip in set_next_mark then turns them all unmarked at once.
MarksMatchLists ==
  /\ \A o \in Obj : /\ o \in active <=> mark[o] \in Colour
                    /\ o \in dead <=> mark[o] = "DEAD"
                    /\ o \in perm <=> mark[o] = "PERM"
  /\ pc \in {"client", "swept", "alloc"} => \A o \in active : mark[o] = current_mark

\* No object a root leads to, and none the mutator may still use through a
\* plain variable, has been moved to the dead list or freed: in particular
\* nothing is reclaimed while the heap is protected.
AccessibleAlive == pc # "destroyed" => Accessible \subseteq Alive

\* mark_graph never meets an object of the dead list: the assertion "Active
\* object in dead list!" does not fire.
NoAbort == pc # "abort"

\* Every traced pointer in an object of the active or perm list, garbage
\* included, is null or leads to an object of these lists.
NoDangling == pc # "destroyed" => Closed(Alive)

\* A collection is exact: when sweep_list is done the active and perm lists
\* hold precisely the objects the roots lead to.
SweepExact == [][sweep_list => active' \cup perm' = Reach]_vars

\* The heart of the marking: every root is pending, marked or permanent, and so
\* is every pointer in an object that has been walked; and nothing is pending
\* or marked but what the roots lead to.
Tricolour ==
  pc = "mark" =>
    /\ RootSet \subseteq todo \cup Marked \cup perm
    /\ \A o \in Marked \cup (perm \ todo) : Children(o) \subseteq todo \cup Marked \cup perm
    /\ todo \cup Marked \subseteq Reach

\* pre_alloc never runs inside itself, and once the sweep that an allocation
\* started returns there is a dead cell to reuse: the heap grows by batches.
RefillOnce ==
  /\ resweep <= 1
  /\ (pc = "alloc" /\ req.cell /\ protect_count = 0) => dead # {}

\* gc_stats tells the truth: the counter is the number of blocks in use; after
\* gc_destroy only nodes of roots that were never unregistered are left.
AllocationsExact ==
  allocations = Cardinality(RootNodes) + Cardinality(active \cup dead \cup perm)
                + IF pc = "destroyed" THEN 0 ELSE TableSize

\* What makes the above inductive: a collection runs unprotected and without
\* borrowed pointers, and what the mutator and the roots name is alive.
PhaseInv == pc \in {"mark", "swept"} => protect_count = 0 /\ held = {}

RootsAlive == pc # "destroyed" => RootSet \cup held \subseteq Alive

PendingAlive == pc = "mark" => todo \subseteq Alive

IInv ==
  /\ TypeOK /\ MarksMatchLists /\ PhaseInv /\ RootsAlive /\ PendingAlive
  /\ NoDangling /\ NoAbort /\ Tricolour

\* What makes RefillOnce inductive: while pre_alloc owes a sweep to a dead list
\* that is still empty, a cell it made is on the active list, and no root leads
\* to it.
RefillInv ==
  /\ RefillOnce
  /\ resweep = 1 => pc \in {"mark", "swept"}
  /\ resweep = 1 /\ dead = {} => pc = "mark" /\ \E o \in active : cell[o] /\ o \notin Reach

\* What makes AllocationsExact inductive: a type that is not registered has no
\* pointer definition, and a variable is not registered more often than the
\* count of the nodes goes.
CountInv ==
  /\ AllocationsExact
  /\ \A t \in Type \ types : traced[t] = {}
  /\ \A r \in Root : roots[r] <= MaxRegs

\* Every collection ends, and the call that started it returns to the mutator
\* (or the process runs out of memory), as long as no permanent objects lead to
\* each other in a circle: mark_graph would walk that without end.
CollectionEnds == (pc = "mark" /\ ~ PermCycle) ~> (pc \in {"client", "oom"})
=============================================================================
