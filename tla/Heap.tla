-------------------------------- MODULE Heap --------------------------------
(***************************************************************************)
(* What the interface of the collector (include/gc.h) promises the program *)
(* that calls it, with no lists, marks or sweeps: memory the program can   *)
(* get at changes only by the program's own stores, an allocation returns  *)
(* a zeroed object that aliases nothing the program can get at, and while  *)
(* the heap is protected that extends to pointers the program keeps in     *)
(* plain C variables.                                                      *)
(*                                                                         *)
(* The mutator is the code that calls the collector (the VM, the hash      *)
(* tables, the buffers, the compiler) reduced to the rules all of it       *)
(* follows: pointers held in unregistered variables are its to use until   *)
(* an unprotected collection starts; protects are paired; a type's         *)
(* pointers are declared before objects of the type exist.                 *)
(***************************************************************************)
EXTENDS Naturals, Integers, FiniteSets

CONSTANTS
  Obj,        \* addresses the C allocator can hand out
  Slot,       \* pointer offsets inside an object
  Root,       \* C variables whose address may be registered as a root
  Type,       \* type definitions (gc_type_def)
  ArrayType,  \* the definition gc_create registers for pointer arrays
  MaxProtect, \* bound on the nesting of gc_protect
  MaxRegs,    \* bound on how often one variable is registered
  Untyped,    \* type_def -1
  Null        \* the null pointer

ASSUME HeapAssumption ==
  /\ IsFiniteSet(Obj) /\ IsFiniteSet(Type) /\ IsFiniteSet(Slot) /\ IsFiniteSet(Root)
  /\ Null \notin Obj
  /\ ArrayType \in Type
  /\ Untyped \notin Type
  /\ MaxProtect \in Nat
  /\ MaxRegs \in Nat

VARIABLES
  type_def,           \* meta_obj.type_def of each object
  field,              \* the pointers stored in each object
  perm,               \* perm_list: objects allocated as permanent
  roots,              \* how often each C variable is on root_list
  var,                \* the value of each C variable
  types, traced,      \* type_defs: the registered types, and their root_lists
  protect_count,
  held                \* objects the mutator holds in unregistered variables

objects  == <<type_def, field, perm>>
tables   == <<types, traced>>
heapVars == <<objects, tables, roots, var, protect_count, held>>

Pointer == Obj \cup {Null}
Zeroed  == [s \in Slot |-> Null]

(***************************************************************************)
(* The object graph.                                                       *)
(***************************************************************************)

\* The slots the collector follows in o: none in an untyped blob.
Traced(o) == IF type_def[o] = Untyped THEN {} ELSE traced[type_def[o]]

Children(o) == {field[o][s] : s \in Traced(o)} \ {Null}

\* What mark_list(perm_list) and mark_root(root_list) start from.
RootSet == perm \cup ({var[r] : r \in {q \in Root : roots[q] > 0}} \ {Null})

\* The objects the roots lead to: the least set with the roots that is closed
\* under the traced pointers.
Closed(S) == \A o \in S : Children(o) \subseteq S

Reach == {o \in Obj : \A S \in SUBSET Obj : (RootSet \subseteq S /\ Closed(S)) => o \in S}

Accessible == Reach \cup held

-----------------------------------------------------------------------------
HeapInit ==
  /\ type_def = [o \in Obj |-> Untyped]
  /\ field = [o \in Obj |-> Zeroed]
  /\ perm = {}
  /\ roots = [r \in Root |-> 0]
  /\ var = [r \in Root |-> Null]
  /\ types = {ArrayType}
  /\ traced = [t \in Type |-> IF t = ArrayType THEN Slot ELSE {}]
  /\ protect_count = 0
  /\ held = {}

(***************************************************************************)
(* The mutator.                                                            *)
(***************************************************************************)

DeclareType(t) ==
  /\ t \notin types
  /\ types' = types \cup {t}
  /\ traced' = [traced EXCEPT ![t] = {}]
  /\ UNCHANGED <<objects, roots, var, protect_count, held>>

DeclarePointer(t, s) ==
  /\ t \in types \ {ArrayType}
  /\ s \notin traced[t]
  /\ \A o \in Accessible : type_def[o] # t
  /\ traced' = [traced EXCEPT ![t] = @ \cup {s}]
  /\ UNCHANGED <<objects, types, roots, var, protect_count, held>>

Register(r) ==
  /\ roots[r] < MaxRegs
  /\ roots[r] > 0 \/ var[r] \in held \cup {Null}
  /\ roots' = [roots EXCEPT ![r] = @ + 1]
  /\ UNCHANGED <<objects, tables, var, protect_count, held>>

Unregister(r) ==
  /\ roots[r] > 0
  /\ roots' = [roots EXCEPT ![r] = @ - 1]
  /\ UNCHANGED <<objects, tables, var, protect_count, held>>

LoadVar(r) ==
  /\ roots[r] > 0 /\ var[r] # Null
  /\ held' = held \cup {var[r]}
  /\ UNCHANGED <<objects, tables, roots, var, protect_count>>

LoadField(o, s) ==
  /\ o \in held /\ s \in Traced(o) /\ field[o][s] # Null
  /\ held' = held \cup {field[o][s]}
  /\ UNCHANGED <<objects, tables, roots, var, protect_count>>

StoreVar(r, v) ==
  /\ v \in held \cup {Null}
  /\ var' = [var EXCEPT ![r] = v]
  /\ UNCHANGED <<objects, tables, roots, protect_count, held>>

StoreField(o, s, v) ==
  /\ o \in held /\ s \in Traced(o) /\ v \in held \cup {Null}
  /\ field' = [field EXCEPT ![o][s] = v]
  /\ UNCHANGED <<type_def, perm, tables, roots, var, protect_count, held>>

DePerm(o) ==
  /\ o \in held \cap perm
  /\ perm' = perm \ {o}
  /\ UNCHANGED <<type_def, field, tables, roots, var, protect_count, held>>

Protect ==
  /\ protect_count < MaxProtect
  /\ protect_count' = protect_count + 1
  /\ UNCHANGED <<objects, tables, roots, var, held>>

(***************************************************************************)
(* What the collector may do.                                              *)
(***************************************************************************)

\* The last unprotect may collect, and so end the mutator's claim on held.
Unprotect ==
  /\ protect_count > 0
  /\ protect_count' = protect_count - 1
  /\ held' = held \/ (protect_count = 1 /\ held' = {})
  /\ UNCHANGED <<objects, tables, roots, var>>

\* An allocation: o is new to the mutator, and zeroed.
New(o, t, p) ==
  /\ o \notin Accessible
  /\ type_def' = [type_def EXCEPT ![o] = t]
  /\ field' = [field EXCEPT ![o] = Zeroed]
  /\ perm' = IF p THEN perm \cup {o} ELSE perm
  /\ held' = held \cup {o}
  /\ UNCHANGED <<tables, roots, var, protect_count>>

\* A collection: what no root leads to may turn into anything.
Reclaim ==
  /\ protect_count = 0
  /\ held' = {}
  /\ \A o \in Reach : type_def'[o] = type_def[o] /\ field'[o] = field[o]
  /\ UNCHANGED <<perm, tables, roots, var, protect_count>>

\* gc_destroy: nothing may be used any more.
Destroy ==
  /\ held' = {} /\ perm' = {}
  /\ type_def' = [o \in Obj |-> Untyped]
  /\ field' = [o \in Obj |-> Zeroed]
  /\ UNCHANGED <<tables, roots, var, protect_count>>

HeapNext ==
  \/ \E t \in Type : DeclareType(t) \/ \E s \in Slot : DeclarePointer(t, s)
  \/ \E r \in Root : Register(r) \/ Unregister(r) \/ LoadVar(r) \/ \E v \in Pointer : StoreVar(r, v)
  \/ \E o \in Obj : DePerm(o) \/ \E s \in Slot : LoadField(o, s) \/ \E v \in Pointer : StoreField(o, s, v)
  \/ Protect \/ Unprotect \/ Reclaim \/ Destroy
  \/ \E o \in Obj, t \in Type \cup {Untyped}, p \in BOOLEAN : New(o, t, p)

HeapSpec == HeapInit /\ [][HeapNext]_heapVars
=============================================================================
