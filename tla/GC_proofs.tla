----------------------------- MODULE GC_proofs -----------------------------
(***************************************************************************)
(* Proofs about the collector for every heap, every set of roots and every *)
(* table of types: what is reclaimed, and then what its batches owe and    *)
(* what its counter counts.                                                *)
(***************************************************************************)
EXTENDS GC, FiniteSetTheorems, TLAPS

(***************************************************************************)
(* Facts about the object graph.                                           *)
(***************************************************************************)

\* The counts of blocks that a sweep or gc_destroy frees are numbers.
LEMMA SubsetCount ==
  ASSUME NEW S \in SUBSET Obj
  PROVE  IsFiniteSet(S) /\ Cardinality(S) \in Nat
BY HeapAssumption, FS_Subset, FS_CardinalityType

\* So is the count of blocks in the type table, which gc_destroy frees.
LEMMA TableCount == TableSize \in Nat
<1>1. IsFiniteSet(Type \X Slot)
  BY HeapAssumption, FS_Product
<1>2. PtrDefs \in SUBSET (Type \X Slot)
  BY DEF PtrDefs
<1> HIDE DEF PtrDefs
<1>3. Cardinality(PtrDefs) \in Nat
  BY <1>1, <1>2, FS_Subset, FS_CardinalityType
<1> QED BY <1>3 DEF TableSize

\* What the roots lead to is a set of objects, has the roots, is closed under
\* the traced pointers and is the least such set.
LEMMA ReachFacts ==
  TypeOK => /\ RootSet \in SUBSET Obj
            /\ \A o \in Obj : Children(o) \in SUBSET Obj
            /\ RootSet \subseteq Reach
            /\ Closed(Reach)
            /\ \A S \in SUBSET Obj : RootSet \subseteq S /\ Closed(S) => Reach \subseteq S
<1> SUFFICES ASSUME TypeOK
             PROVE  /\ RootSet \in SUBSET Obj
                    /\ \A o \in Obj : Children(o) \in SUBSET Obj
                    /\ RootSet \subseteq Reach
                    /\ Closed(Reach)
                    /\ \A S \in SUBSET Obj : RootSet \subseteq S /\ Closed(S) => Reach \subseteq S
  OBVIOUS
<1>1. RootSet \in SUBSET Obj
  BY DEF RootSet, TypeOK, Pointer
<1>2. \A o \in Obj : Children(o) \in SUBSET Obj
  BY DEF Children, Traced, TypeOK, Pointer
<1> HIDE DEF RootSet, Children
<1>3. RootSet \subseteq Reach
  BY <1>1 DEF Reach
<1>4. Closed(Reach)
  BY <1>2 DEF Reach, Closed
<1>5. \A S \in SUBSET Obj : RootSet \subseteq S /\ Closed(S) => Reach \subseteq S
  BY DEF Reach
<1> QED BY <1>1, <1>2, <1>3, <1>4, <1>5

-----------------------------------------------------------------------------
(***************************************************************************)
(* Type correctness.                                                       *)
(***************************************************************************)

\* gc_create leaves the collector well formed.
LEMMA InitTypeOK == Init => TypeOK
BY HeapAssumption DEF Init, HeapInit, TypeOK, Pointer, Zeroed, Colour

\* Facts every proof below uses about the four ways a collection starts.
LEMMA StartSweepType ==
  TypeOK /\ StartSweep => /\ current_mark' \in Colour /\ current_mark' # current_mark
                          /\ todo' \in SUBSET Obj
                          /\ held' = {} /\ pc' = "mark"
BY ReachFacts DEF StartSweep, set_next_mark, TypeOK, Colour

\* Every call and every step of the collector keeps it well formed.
LEMMA NextTypeOK == TypeOK /\ [Next]_vars => TypeOK'
<1> SUFFICES ASSUME TypeOK, [Next]_vars
             PROVE  TypeOK'
  OBVIOUS
<1> USE HeapAssumption, GCAssumption
<1>1. CASE Declare
  BY <1>1 DEF Declare, gc_register_type, gc_register_pointer, DeclareType, DeclarePointer,
     TypeOK, lists, control, objects
<1>2. ASSUME NEW r \in Request, internal_alloc(r)
      PROVE  TypeOK'
  BY <1>2, StartSweepType DEF internal_alloc, Begin, TypeOK, lists, objects, tables
<1>3. CASE Allocate
  <2>1. \A p \in BOOLEAN, c \in BOOLEAN, t \in Type \cup {Untyped} :
           [perm |-> p, type |-> t, cell |-> c] \in Request
    BY DEF Request
  <2>2. \E r \in Request : internal_alloc(r)
    <3>1. CASE \E p \in PermArg, c \in BOOLEAN : gc_alloc(p, c)
      BY <2>1, <3>1 DEF gc_alloc
    <3>2. CASE \E p \in PermArg, t \in types \ {ArrayType} : gc_alloc_type(p, t)
      <4>1. PICK p \in PermArg, t \in types \ {ArrayType} : gc_alloc_type(p, t)
        BY <3>2
      <4>2. p \in BOOLEAN /\ t \in Type /\ (t \in CellType) \in BOOLEAN
        BY DEF TypeOK
      <4>3. [perm |-> p, type |-> t, cell |-> t \in CellType] \in Request
        BY <4>2 DEF Request
      <4> QED BY <4>1, <4>3 DEF gc_alloc_type
    <3>3. CASE \E p \in PermArg, c \in BOOLEAN : gc_alloc_pointer_array(p, c)
      BY <2>1, <3>3 DEF gc_alloc_pointer_array
    <3> QED BY <1>3, <3>1, <3>2, <3>3 DEF Allocate
  <2> QED BY <1>2, <2>2
<1>4. ASSUME NEW o \in Obj, mark_graph(o)
      PROVE  TypeOK'
  <2>1. Children(o) \in SUBSET Obj
    BY ReachFacts
  <2> QED BY <1>4, <2>1 DEF mark_graph, Visit, TypeOK, heapVars, objects, tables, Colour
<1>5. CASE sweep_list
  <2> DEFINE lost  == {o \in active : mark[o] # current_mark}
             freed == {o \in lost : ~ Recycled(o)}
  <2>1. Cardinality(freed) \in Nat
    <3>1. freed \in SUBSET Obj
      BY DEF TypeOK
    <3> QED BY <3>1, SubsetCount
  <2> HIDE DEF freed
  <2> QED BY <1>5, <2>1 DEF freed, sweep_list, TypeOK, tables, Zeroed, Pointer
<1>6. CASE pre_alloc
  BY <1>6, StartSweepType DEF pre_alloc, TypeOK, tables, Unused, Zeroed, Pointer
<1>7. CASE Resweep
  BY <1>7, StartSweepType DEF Resweep, TypeOK, lists, tables, objects
<1>8. CASE SweepReturn
  BY <1>8 DEF SweepReturn, TypeOK, lists, tables, objects, heapVars
<1>9. ASSUME NEW o \in Obj, TakeDead(o) \/ Malloc(o)
      PROVE  TypeOK'
  <2>1. /\ req.perm \in BOOLEAN /\ req.cell \in BOOLEAN
        /\ req.type \in Type \cup {Untyped}
    BY <1>9 DEF TakeDead, Malloc, TypeOK, Request
  <2>2. Attach(o) /\ dead' \in SUBSET Obj /\ allocations' \in Int
    BY <1>9 DEF TakeDead, Malloc, TypeOK
  <2>3. Zeroed \in [Slot -> Pointer]
    BY DEF Zeroed, Pointer
  <2>4. /\ mark' \in [Obj -> Colour \cup {"PERM", "DEAD", "FREE"}]
        /\ active' \in SUBSET Obj /\ perm' \in SUBSET Obj /\ held' \in SUBSET Obj
    BY <2>2 DEF Attach, AttachAs, TypeOK
  <2>5. /\ cell' \in [Obj -> BOOLEAN] /\ type_def' \in [Obj -> Type \cup {Untyped}]
        /\ field' \in [Obj -> [Slot -> Pointer]]
    BY <2>1, <2>2, <2>3 DEF Attach, AttachAs, TypeOK
  <2> QED BY <2>2, <2>4, <2>5 DEF Attach, AttachAs, TypeOK, tables
<1>10. CASE OutOfMemory
  BY <1>10 DEF OutOfMemory, TypeOK, lists, tables, objects, heapVars
<1>11. CASE Mutate
  <2>1. CASE \E r \in Root : LoadVar(r)
    BY <1>11, <2>1 DEF Mutate, LoadVar, TypeOK, lists, control, objects, tables, Pointer
  <2>2. CASE \E r \in Root, v \in Pointer : StoreVar(r, v)
    BY <1>11, <2>2 DEF Mutate, StoreVar, TypeOK, lists, control, objects, tables
  <2>3. ASSUME NEW o \in Obj, NEW s \in Slot, LoadField(o, s)
        PROVE  TypeOK'
    <3>1. field[o][s] \in Obj
      BY <2>3 DEF LoadField, TypeOK, Pointer
    <3> QED BY <1>11, <2>3, <3>1 DEF Mutate, LoadField, TypeOK, lists, control, objects, tables
  <2>4. ASSUME NEW o \in Obj, NEW s \in Slot, NEW v \in Pointer, StoreField(o, s, v)
        PROVE  TypeOK'
    BY <1>11, <2>4 DEF Mutate, StoreField, TypeOK, lists, control, tables
  <2> QED BY <1>11, <2>1, <2>2, <2>3, <2>4 DEF Mutate
<1>12. ASSUME NEW r \in Root, gc_register_root(r) \/ gc_unregister_root(r)
       PROVE  TypeOK'
  BY <1>12 DEF gc_register_root, gc_unregister_root, Register, Unregister, TypeOK, lists,
     control, objects, tables
<1>13. CASE gc_protect
  BY <1>13 DEF gc_protect, Protect, TypeOK, lists, control, objects, tables
<1>14. CASE gc_unprotect
  BY <1>14, StartSweepType DEF gc_unprotect, TypeOK, lists, objects, tables
<1>15. CASE gc_sweep
  BY <1>15, StartSweepType DEF gc_sweep, TypeOK, lists, objects, tables
<1>16. ASSUME NEW o \in Obj, gc_de_perm(o)
       PROVE  TypeOK'
  BY <1>16 DEF gc_de_perm, DePerm, TypeOK, control, tables, Colour
<1>17. CASE gc_destroy
  <2>1. Cardinality(active \cup dead \cup perm) \in Nat
    <3>1. active \cup dead \cup perm \in SUBSET Obj
      BY DEF TypeOK
    <3> QED BY <3>1, SubsetCount
  <2> QED BY <1>17, <2>1, TableCount DEF gc_destroy, Destroy, TypeOK, tables, Zeroed, Pointer
<1>18. CASE UNCHANGED vars
  BY <1>18 DEF vars, heapVars, objects, tables, lists, control, TypeOK
<1> QED BY <1>1, <1>3, <1>4, <1>5, <1>6, <1>7, <1>8, <1>9, <1>10, <1>11, <1>12, <1>13, <1>14,
           <1>15, <1>16, <1>17, <1>18 DEF Next, Collector, Terminated

\* The collector's state is always well formed: every operation of gc.h keeps
\* each of its lists, marks, tables and counters in its type.
THEOREM TypeCorrect == Spec => []TypeOK
BY InitTypeOK, NextTypeOK, PTL DEF Spec

-----------------------------------------------------------------------------
(***************************************************************************)
(* The inductive invariant.                                                *)
(***************************************************************************)

\* The invariant holds when gc_create returns: all lists are empty.
LEMMA InitIInv == Init => IInv
<1> SUFFICES ASSUME Init
             PROVE  IInv
  OBVIOUS
<1>1. TypeOK
  BY InitTypeOK
<1>2. RootSet = {} /\ Alive = {}
  BY DEF Init, HeapInit, RootSet, Alive
<1> QED
  BY <1>1, <1>2 DEF Init, HeapInit, IInv, MarksMatchLists, PhaseInv, RootsAlive, PendingAlive,
     NoDangling, Closed, NoAbort, Tricolour, Colour

\* A collection that starts on an unchanged heap establishes the marking
\* invariant: the flip of the mark has unmarked every active object.
LEMMA StartSweepIInv ==
  ASSUME IInv, TypeOK', pc \in {"client", "swept"}, StartSweep, protect_count' = 0,
         UNCHANGED <<active, dead, perm, mark, type_def, field, traced, roots, var>>
  PROVE  IInv'
<1>1. pc' = "mark" /\ held' = {} /\ todo' = RootSet /\ current_mark' # current_mark
  BY StartSweepType DEF StartSweep, IInv
<1>2. RootSet' = RootSet /\ Alive' = Alive /\ Reach' = Reach
  BY DEF RootSet, Alive, Reach, Closed, Children, Traced
<1>3. \A o : Children(o)' = Children(o)
  BY DEF Children, Traced
<1>4. Marked' = {}
  BY <1>1 DEF Marked, IInv, MarksMatchLists
<1>5. MarksMatchLists'
  BY <1>1 DEF IInv, MarksMatchLists, Colour
<1>6. RootsAlive' /\ PendingAlive' /\ NoDangling'
  BY <1>1, <1>2, <1>3 DEF IInv, RootsAlive, PendingAlive, NoDangling, Closed
<1>7. Tricolour'
  BY <1>1, <1>2, <1>4, ReachFacts DEF Tricolour, IInv, RootSet
<1> QED BY <1>1, <1>5, <1>6, <1>7 DEF IInv, PhaseInv, NoAbort

\* Every call of gc.h, every step of a collection and every load and store of
\* the mutator keeps the invariant.
LEMMA NextIInv == IInv /\ [Next]_vars => IInv'
<1> SUFFICES ASSUME IInv, [Next]_vars
             PROVE  IInv'
  OBVIOUS
<1> USE HeapAssumption, GCAssumption
<1>0. TypeOK /\ TypeOK'
  BY NextTypeOK DEF IInv
<1>1. ASSUME NEW t \in Type, gc_register_type(t)
      PROVE  IInv'
  <2>1. /\ pc = "client" /\ pc' = "client"
        /\ UNCHANGED <<lists, objects, roots, var, held, current_mark>>
    BY <1>1 DEF gc_register_type, DeclareType, control
  <2>2. \A o \in Obj : Children(o)' \subseteq Children(o)
    BY <1>0, <1>1, <2>1 DEF gc_register_type, DeclareType, Children, Traced, objects, TypeOK
  <2>3. RootSet' = RootSet /\ Alive' = Alive
    BY <2>1 DEF RootSet, Alive, lists, objects
  <2>4. RootsAlive' /\ NoDangling'
    BY <1>0, <2>1, <2>2, <2>3 DEF IInv, RootsAlive, NoDangling, Closed, Alive, TypeOK
  <2> QED BY <1>0, <2>1, <2>4 DEF IInv, MarksMatchLists, PhaseInv, PendingAlive, NoAbort,
             Tricolour, lists, objects
<1>2. ASSUME NEW t \in Type, NEW s \in Slot, gc_register_pointer(t, s)
      PROVE  IInv'
  <2>1. /\ pc = "client" /\ pc' = "client"
        /\ UNCHANGED <<lists, objects, roots, var, held, current_mark>>
    BY <1>2 DEF gc_register_pointer, DeclarePointer, control
  <2>2. \A o \in Alive : Children(o)' = Children(o)
    BY <1>0, <1>2, <2>1 DEF gc_register_pointer, DeclarePointer, Children, Traced, objects, TypeOK, Alive
  <2>3. RootSet' = RootSet /\ Alive' = Alive
    BY <2>1 DEF RootSet, Alive, lists, objects
  <2>4. RootsAlive' /\ NoDangling'
    BY <2>1, <2>2, <2>3 DEF IInv, RootsAlive, NoDangling, Closed
  <2> QED BY <1>0, <2>1, <2>4 DEF IInv, MarksMatchLists, PhaseInv, PendingAlive, NoAbort,
             Tricolour, lists, objects
<1>3. ASSUME NEW r, internal_alloc(r)
      PROVE  IInv'
  <2>1. pc = "client" /\ UNCHANGED <<active, dead, perm, mark, type_def, field, traced, roots, var, protect_count>>
    BY <1>3 DEF internal_alloc, Begin, objects, tables, lists
  <2>2. CASE r.cell /\ dead = {} /\ protect_count = 0
    BY <1>0, <1>3, <2>1, <2>2, StartSweepIInv DEF internal_alloc, Begin
  <2>3. CASE ~ (r.cell /\ dead = {} /\ protect_count = 0)
    <3>1. pc' = "alloc" /\ UNCHANGED <<current_mark, todo, held>>
      BY <1>3, <2>3 DEF internal_alloc, Begin
    <3>2. RootSet' = RootSet /\ Alive' = Alive /\ \A o : Children(o)' = Children(o)
      BY <2>1 DEF RootSet, Alive, Children, Traced
    <3> QED BY <1>0, <2>1, <3>1, <3>2 DEF IInv, MarksMatchLists, PhaseInv, PendingAlive, NoAbort,
               RootsAlive, NoDangling, Closed, Tricolour
  <2> QED BY <2>2, <2>3
<1>4. ASSUME NEW o \in Obj, mark_graph(o)
      PROVE  IInv'
  <2>1. /\ pc = "mark" /\ o \in todo
        /\ UNCHANGED <<active, dead, perm, type_def, field, traced, roots, var, held,
                       protect_count, current_mark>>
    BY <1>4 DEF mark_graph, Visit, heapVars, objects, tables
  <2>2. o \in Alive /\ mark[o] \notin {"DEAD", "FREE"}
    BY <1>0, <2>1 DEF IInv, PendingAlive, Alive, MarksMatchLists, Colour
  <2>3. RootSet' = RootSet /\ Alive' = Alive /\ Reach' = Reach
    BY <2>1 DEF RootSet, Alive, Reach, Closed, Children, Traced
  <2>4. \A q : Children(q)' = Children(q)
    BY <2>1 DEF Children, Traced
  <2>5. o \in Reach /\ Children(o) \subseteq Reach
    BY <1>0, <2>1, ReachFacts DEF IInv, Tricolour, Closed
  <2>6. Children(o) \subseteq Alive
    BY <2>1, <2>2 DEF IInv, NoDangling, Closed
  <2> HIDE DEF Children, Reach, RootSet
  <2>7. CASE mark[o] = current_mark
    <3>1. todo' = todo \ {o} /\ UNCHANGED <<mark, pc>>
      BY <1>4, <2>2, <2>7 DEF mark_graph, Visit
    <3>2. Marked' = Marked /\ o \in Marked
      BY <1>0, <2>1, <2>7, <3>1 DEF Marked, IInv, MarksMatchLists, TypeOK
    <3>3. Tricolour'
      BY <1>0, <2>1, <2>3, <2>4, <2>5, <3>1, <3>2 DEF IInv, Tricolour, Marked, MarksMatchLists, Colour, TypeOK
    <3> QED BY <1>0, <2>1, <2>3, <2>4, <3>1, <3>3 DEF IInv, MarksMatchLists, PhaseInv, PendingAlive, NoAbort,
               RootsAlive, NoDangling, Closed
  <2>8. CASE mark[o] \in Colour /\ mark[o] # current_mark
    <3>1. /\ todo' = (todo \ {o}) \cup Children(o) /\ pc' = pc
          /\ mark' = [mark EXCEPT ![o] = current_mark]
      BY <1>0, <1>4, <2>2, <2>8 DEF mark_graph, Visit, TypeOK, Colour
    <3>2. Marked' = Marked \cup {o} /\ o \notin perm
      BY <1>0, <2>1, <2>8, <3>1 DEF Marked, IInv, MarksMatchLists, TypeOK, Colour
    <3>3. Tricolour'
      BY <1>0, <2>1, <2>3, <2>4, <2>5, <3>1, <3>2 DEF IInv, Tricolour
    <3>4. MarksMatchLists'
      BY <1>0, <2>1, <2>8, <3>1 DEF IInv, MarksMatchLists, TypeOK, Colour
    <3> QED BY <1>0, <2>1, <2>3, <2>4, <2>6, <3>1, <3>3, <3>4 DEF IInv, PhaseInv, PendingAlive, NoAbort,
               RootsAlive, NoDangling, Closed
  <2>9. CASE mark[o] = "PERM"
    <3>1. todo' = (todo \ {o}) \cup Children(o) /\ pc' = pc /\ mark' = mark
      BY <1>0, <1>4, <2>2, <2>9 DEF mark_graph, Visit, TypeOK, Colour
    <3>2. Marked' = Marked
      BY <2>1, <3>1 DEF Marked
    <3>3. o \in perm
      BY <2>9 DEF IInv, MarksMatchLists
    <3>4. Tricolour'
      BY <1>0, <2>1, <2>3, <2>4, <2>5, <3>1, <3>2, <3>3 DEF IInv, Tricolour
    <3> QED BY <1>0, <2>1, <2>3, <2>4, <2>6, <3>1, <3>4 DEF IInv, MarksMatchLists, PhaseInv, PendingAlive, NoAbort,
               RootsAlive, NoDangling, Closed
  <2> QED BY <1>0, <2>2, <2>7, <2>8, <2>9 DEF TypeOK, Colour
<1>5. CASE sweep_list
  <2> DEFINE lost == {o \in active : mark[o] # current_mark}
  <2>1. /\ pc = "mark" /\ todo = {} /\ pc' = "swept"
        /\ active' = Marked
        /\ UNCHANGED <<perm, traced, roots, var, held, protect_count, current_mark>>
    BY <1>0, <1>5 DEF sweep_list, Marked, tables
  <2>2. \A o \in Marked \cup perm : /\ Children(o)' = Children(o)
                                    /\ Children(o) \subseteq Marked \cup perm
    <3>1. \A o \in Marked \cup perm : o \in Obj /\ type_def'[o] = type_def[o] /\ field'[o] = field[o]
      BY <1>0, <1>5 DEF sweep_list, Marked, IInv, MarksMatchLists, Colour, TypeOK
    <3>2. \A o \in Marked \cup perm : Children(o)' = Children(o)
      BY <2>1, <3>1 DEF Children, Traced
    <3> QED BY <2>1, <3>2 DEF IInv, Tricolour
  <2>3. RootSet' = RootSet /\ RootSet \subseteq Marked \cup perm
    BY <2>1 DEF RootSet, IInv, Tricolour
  <2>4. Alive' = Marked \cup perm
    BY <2>1 DEF Alive
  <2>5. RootsAlive' /\ NoDangling'
    BY <2>1, <2>2, <2>3, <2>4 DEF IInv, RootsAlive, NoDangling, Closed, PhaseInv
  <2>6. MarksMatchLists'
    BY <1>0, <1>5 DEF sweep_list, IInv, MarksMatchLists, TypeOK, Colour
  <2> QED BY <1>0, <2>1, <2>5, <2>6 DEF IInv, PhaseInv, PendingAlive, NoAbort, Tricolour
<1>6. CASE pre_alloc
  <2>1. PICK new \in SUBSET Unused :
          /\ active' = active \cup new
          /\ mark' = [o \in Obj |-> IF o \in new THEN current_mark ELSE mark[o]]
          /\ type_def' = [o \in Obj |-> IF o \in new THEN Untyped ELSE type_def[o]]
          /\ field' = [o \in Obj |-> IF o \in new THEN Zeroed ELSE field[o]]
    BY <1>6 DEF pre_alloc
  <2>2. /\ pc = "swept" /\ StartSweep
        /\ UNCHANGED <<dead, perm, traced, roots, var, protect_count>>
    BY <1>6 DEF pre_alloc, tables
  <2>3. /\ pc' = "mark" /\ held' = {} /\ todo' = RootSet
        /\ current_mark' # current_mark /\ current_mark' \in Colour
    BY <1>0, <2>2, StartSweepType DEF StartSweep
  <2>4. \A o \in new : o \in Obj /\ o \notin Alive /\ o \notin dead /\ mark[o] = "FREE"
    BY <1>0, <2>1 DEF Unused, Alive, IInv, MarksMatchLists, Colour
  <2>5. \A o \in new : Children(o)' = {}
    BY <2>1, <2>4 DEF Children, Traced
  <2>6. \A o \in Alive : Children(o)' = Children(o)
    <3>1. \A o \in Alive : type_def'[o] = type_def[o] /\ field'[o] = field[o]
      BY <1>0, <2>1, <2>4 DEF Alive, TypeOK
    <3> QED BY <2>2, <3>1 DEF Children, Traced
  <2>7. Alive' = Alive \cup new /\ RootSet' = RootSet
    BY <2>1, <2>2 DEF Alive, RootSet
  <2>8. Marked' = {}
    BY <1>0, <2>1, <2>2, <2>3 DEF Marked, IInv, MarksMatchLists, TypeOK
  <2>9. MarksMatchLists'
    <3>1. \A o \in Obj : /\ o \in active' <=> mark'[o] \in Colour
                         /\ o \in dead' <=> mark'[o] = "DEAD"
                         /\ o \in perm' <=> mark'[o] = "PERM"
      BY <1>0, <2>1, <2>2, <2>4 DEF IInv, MarksMatchLists, TypeOK, Colour, Alive
    <3> QED BY <2>3, <3>1 DEF MarksMatchLists
  <2>10. RootsAlive' /\ PendingAlive' /\ NoDangling'
    BY <2>2, <2>3, <2>5, <2>6, <2>7 DEF IInv, RootsAlive, PendingAlive, NoDangling, Closed
  <2>11. RootSet' \subseteq Reach'
    <3>1. (TypeOK => RootSet \subseteq Reach)'
      BY ReachFacts, PTL
    <3> QED BY <1>0, <3>1
  <2>12. perm' \subseteq RootSet' /\ perm' \ todo' = {}
    BY <2>2, <2>3, <2>7 DEF RootSet
  <2>13. Tricolour'
    BY <2>3, <2>7, <2>8, <2>11, <2>12 DEF Tricolour
  <2>14. PhaseInv'
    BY <2>2, <2>3 DEF IInv, PhaseInv
  <2> QED BY <1>0, <2>3, <2>9, <2>10, <2>13, <2>14 DEF IInv, NoAbort
<1>7. CASE Resweep
  BY <1>0, <1>7, StartSweepIInv DEF Resweep, objects, tables, lists, IInv, PhaseInv
<1>8. CASE SweepReturn
  <2>1. /\ pc' \in {"client", "alloc"} /\ pc = "swept"
        /\ UNCHANGED <<heapVars, lists, current_mark>>
    BY <1>8 DEF SweepReturn
  <2>2. RootSet' = RootSet /\ Alive' = Alive /\ \A o : Children(o)' = Children(o)
    BY <2>1 DEF RootSet, Alive, Children, Traced, heapVars, objects, tables, lists
  <2> QED BY <1>0, <2>1, <2>2 DEF IInv, MarksMatchLists, PhaseInv, PendingAlive, NoAbort,
             RootsAlive, NoDangling, Closed, Tricolour, heapVars, objects, tables, lists
<1>9. ASSUME NEW o \in Obj, TakeDead(o) \/ Malloc(o)
      PROVE  IInv'
  <2>1. /\ pc = "alloc" /\ pc' = "client" /\ Attach(o)
        /\ o \notin Alive
        /\ dead' = dead \ {o}
    BY <1>0, <1>9 DEF TakeDead, Malloc, Attach, AttachAs, Unused, Alive, IInv, MarksMatchLists, Colour
  <2>2. /\ held' = held \cup {o} /\ Alive' = Alive \cup {o}
        /\ UNCHANGED <<traced, roots, var, current_mark>>
    BY <2>1 DEF Attach, AttachAs, Alive, tables
  <2>3. /\ Children(o)' = {}
        /\ \A q \in Alive : Children(q)' = Children(q)
    <3>1. field'[o] = Zeroed /\ \A q \in Alive : type_def'[q] = type_def[q] /\ field'[q] = field[q]
      BY <1>0, <2>1 DEF Attach, AttachAs, TypeOK, Alive
    <3>2. type_def'[o] \in Type => traced[type_def'[o]] \subseteq Slot
      BY <1>0 DEF TypeOK
    <3>3. type_def'[o] \in Type \cup {Untyped}
      BY <1>0 DEF TypeOK
    <3> QED BY <2>2, <3>1, <3>2, <3>3 DEF Children, Traced, Zeroed
  <2>4. RootSet' \subseteq RootSet \cup {o}
    BY <2>1, <2>2 DEF RootSet, Attach, AttachAs
  <2>5. RootsAlive' /\ NoDangling'
    BY <2>1, <2>2, <2>3, <2>4 DEF IInv, RootsAlive, NoDangling, Closed
  <2>6. MarksMatchLists'
    BY <1>0, <2>1 DEF IInv, MarksMatchLists, Attach, AttachAs, TypeOK, Colour, Alive
  <2> QED BY <1>0, <2>1, <2>5, <2>6 DEF IInv, PhaseInv, PendingAlive, NoAbort, Tricolour
<1>10. CASE OutOfMemory
  <2>1. pc \in {"alloc", "swept"} /\ pc' = "oom" /\ UNCHANGED <<heapVars, lists, current_mark>>
    BY <1>10 DEF OutOfMemory
  <2>2. RootSet' = RootSet /\ Alive' = Alive /\ \A o : Children(o)' = Children(o)
    BY <2>1 DEF RootSet, Alive, Children, Traced, heapVars, objects, tables, lists
  <2> QED BY <1>0, <2>1, <2>2 DEF IInv, MarksMatchLists, PhaseInv, PendingAlive, NoAbort,
             RootsAlive, NoDangling, Closed, Tricolour, heapVars, objects, tables, lists
<1>11. CASE Mutate
  <2>1. pc = "client" /\ pc' = "client" /\ UNCHANGED <<lists, current_mark>>
    BY <1>11 DEF Mutate, control
  <2>2. SUFFICES RootsAlive' /\ NoDangling' /\ MarksMatchLists'
    BY <1>0, <2>1 DEF IInv, PhaseInv, PendingAlive, NoAbort, Tricolour
  <2>3. perm' = perm
    BY <1>11 DEF Mutate, LoadVar, StoreVar, LoadField, StoreField, objects
  <2>4. MarksMatchLists' /\ Alive' = Alive
    BY <2>1, <2>3 DEF IInv, MarksMatchLists, lists, Alive
  <2>5. RootSet \subseteq Alive /\ held \subseteq Alive /\ \A o \in Alive : Children(o) \subseteq Alive
    BY <2>1 DEF IInv, RootsAlive, NoDangling, Closed
  <2>6. ASSUME NEW r \in Root, LoadVar(r)
        PROVE  RootsAlive' /\ NoDangling'
    <3>1. UNCHANGED <<objects, traced, roots, var>> /\ held' = held \cup {var[r]}
      BY <2>6 DEF LoadVar, tables
    <3>2. RootSet' = RootSet /\ \A o : Children(o)' = Children(o)
      BY <3>1 DEF RootSet, Children, Traced, objects
    <3>3. var[r] \in RootSet
      BY <2>6 DEF LoadVar, RootSet
    <3> QED BY <2>4, <2>5, <3>1, <3>2, <3>3 DEF RootsAlive, NoDangling, Closed
  <2>7. ASSUME NEW r \in Root, NEW v \in Pointer, StoreVar(r, v)
        PROVE  RootsAlive' /\ NoDangling'
    <3>1. /\ UNCHANGED <<objects, traced, roots, held>> /\ v \in held \cup {Null}
          /\ var' = [var EXCEPT ![r] = v]
      BY <2>7 DEF StoreVar, tables
    <3>2. RootSet' \subseteq RootSet \cup held
      BY <1>0, <3>1 DEF RootSet, objects, TypeOK
    <3>3. \A o : Children(o)' = Children(o)
      BY <3>1 DEF Children, Traced, objects
    <3> QED BY <2>4, <2>5, <3>1, <3>2, <3>3 DEF RootsAlive, NoDangling, Closed
  <2>8. ASSUME NEW o \in Obj, NEW s \in Slot, LoadField(o, s)
        PROVE  RootsAlive' /\ NoDangling'
    <3>1. UNCHANGED <<objects, traced, roots, var>> /\ held' = held \cup {field[o][s]}
      BY <2>8 DEF LoadField, tables
    <3>2. RootSet' = RootSet /\ \A q : Children(q)' = Children(q)
      BY <3>1 DEF RootSet, Children, Traced, objects
    <3>3. o \in Alive /\ field[o][s] \in Children(o)
      BY <2>5, <2>8 DEF LoadField, Children
    <3> QED BY <2>4, <2>5, <3>1, <3>2, <3>3 DEF RootsAlive, NoDangling, Closed
  <2>9. ASSUME NEW o \in Obj, NEW s \in Slot, NEW v \in Pointer, StoreField(o, s, v)
        PROVE  RootsAlive' /\ NoDangling'
    <3>1. /\ UNCHANGED <<type_def, perm, traced, roots, var, held>> /\ v \in held \cup {Null}
          /\ field' = [field EXCEPT ![o][s] = v]
      BY <2>9 DEF StoreField, tables
    <3>2. RootSet' = RootSet
      BY <3>1 DEF RootSet
    <3>3. \A q \in Alive : Children(q)' \subseteq Children(q) \cup held
      <4> SUFFICES ASSUME NEW q \in Alive, NEW z \in Traced(q), field'[q][z] # Null
                   PROVE  field'[q][z] \in Children(q) \cup held
        BY <3>1 DEF Children, Traced
      <4>1. q \in Obj /\ z \in Slot
        BY <1>0 DEF TypeOK, Alive, Traced
      <4>2. field'[q][z] = IF q = o /\ z = s THEN v ELSE field[q][z]
        BY <1>0, <3>1, <4>1 DEF TypeOK
      <4> QED BY <3>1, <4>2 DEF Children
    <3> QED BY <2>4, <2>5, <3>1, <3>2, <3>3 DEF RootsAlive, NoDangling, Closed
  <2> QED BY <1>11, <2>4, <2>6, <2>7, <2>8, <2>9 DEF Mutate
<1>12. ASSUME NEW r \in Root, gc_register_root(r) \/ gc_unregister_root(r)
       PROVE  IInv'
  <2>1. /\ pc = "client" /\ pc' = "client"
        /\ UNCHANGED <<lists, objects, traced, var, held, current_mark>>
    BY <1>12 DEF gc_register_root, gc_unregister_root, Register, Unregister, control, tables
  <2>2. RootSet' \subseteq RootSet \cup held
    BY <1>0, <1>12, <2>1 DEF gc_register_root, gc_unregister_root, Register, Unregister, RootSet, objects, TypeOK
  <2>3. Alive' = Alive /\ \A o : Children(o)' = Children(o)
    BY <2>1 DEF Alive, Children, Traced, lists, objects
  <2>4. RootsAlive' /\ NoDangling'
    BY <2>1, <2>2, <2>3 DEF IInv, RootsAlive, NoDangling, Closed
  <2> QED BY <1>0, <2>1, <2>4 DEF IInv, MarksMatchLists, PhaseInv, PendingAlive, NoAbort,
             Tricolour, lists, objects
<1>13. CASE gc_protect
  <2>1. /\ pc = "client" /\ pc' = "client"
        /\ UNCHANGED <<lists, objects, traced, roots, var, held, current_mark>>
    BY <1>13 DEF gc_protect, Protect, control, tables
  <2>2. RootSet' = RootSet /\ Alive' = Alive /\ \A o : Children(o)' = Children(o)
    BY <2>1 DEF RootSet, Alive, Children, Traced, lists, objects
  <2> QED BY <1>0, <2>1, <2>2 DEF IInv, MarksMatchLists, PhaseInv, PendingAlive, NoAbort,
             RootsAlive, NoDangling, Closed, Tricolour, lists, objects
<1>14. CASE gc_unprotect
  <2>1. /\ pc = "client"
        /\ UNCHANGED <<active, dead, perm, mark, type_def, field, traced, roots, var>>
    BY <1>14 DEF gc_unprotect, objects, tables, lists
  <2>2. CASE protect_count = 1 /\ dead = {} /\ StartSweep
    BY <1>0, <1>14, <2>1, <2>2, StartSweepIInv DEF gc_unprotect
  <2>3. CASE UNCHANGED <<current_mark, todo, held, pc>>
    <3>1. RootSet' = RootSet /\ Alive' = Alive /\ \A o : Children(o)' = Children(o)
      BY <2>1 DEF RootSet, Alive, Children, Traced
    <3> QED BY <1>0, <2>1, <2>3, <3>1 DEF IInv, MarksMatchLists, PhaseInv, PendingAlive, NoAbort,
               RootsAlive, NoDangling, Closed, Tricolour
  <2> QED BY <1>14, <2>2, <2>3 DEF gc_unprotect
<1>15. CASE gc_sweep
  BY <1>0, <1>15, StartSweepIInv DEF gc_sweep, objects, tables, lists
<1>16. ASSUME NEW o \in Obj, gc_de_perm(o)
       PROVE  IInv'
  <2>1. /\ pc = "client" /\ pc' = "client" /\ o \in perm
        /\ perm' = perm \ {o} /\ active' = active \cup {o}
        /\ mark' = [mark EXCEPT ![o] = current_mark]
        /\ UNCHANGED <<dead, type_def, field, traced, roots, var, held, current_mark>>
    BY <1>16 DEF gc_de_perm, DePerm, control, tables
  <2>2. Alive' = Alive /\ RootSet' \subseteq RootSet /\ \A q : Children(q)' = Children(q)
    BY <2>1 DEF Alive, RootSet, Children, Traced
  <2>3. RootsAlive' /\ NoDangling'
    BY <2>1, <2>2 DEF IInv, RootsAlive, NoDangling, Closed
  <2>4. MarksMatchLists'
    BY <1>0, <2>1 DEF IInv, MarksMatchLists, TypeOK, Colour
  <2> QED BY <1>0, <2>1, <2>3, <2>4 DEF IInv, PhaseInv, PendingAlive, NoAbort, Tricolour
<1>17. CASE gc_destroy
  BY <1>0, <1>17 DEF gc_destroy, Destroy, IInv, MarksMatchLists, PhaseInv, PendingAlive, NoAbort,
     RootsAlive, NoDangling, Tricolour, Colour
<1>18. CASE UNCHANGED vars
  <2>1. UNCHANGED <<heapVars, lists, control, current_mark>>
    BY <1>18 DEF vars
  <2>2. /\ RootSet' = RootSet /\ Alive' = Alive /\ Marked' = Marked /\ Reach' = Reach
        /\ \A o : Children(o)' = Children(o)
    BY <2>1 DEF RootSet, Alive, Marked, Reach, Closed, Children, Traced, heapVars, objects, tables, lists
  <2> QED BY <1>0, <2>1, <2>2 DEF IInv, MarksMatchLists, PhaseInv, PendingAlive, NoAbort,
             RootsAlive, NoDangling, Closed, Tricolour, heapVars, objects, tables, lists, control
<1>19. CASE Declare
  BY <1>1, <1>2, <1>19 DEF Declare
<1>20. CASE Allocate
  BY <1>3, <1>20 DEF Allocate, gc_alloc, gc_alloc_type, gc_alloc_pointer_array
<1>21. CASE Collector
  BY <1>4, <1>5, <1>6, <1>7, <1>8, <1>9, <1>10, <1>21 DEF Collector
<1> QED BY <1>11, <1>12, <1>13, <1>14, <1>15, <1>16, <1>17, <1>18, <1>19, <1>20, <1>21
        DEF Next, Terminated

\* Marks, lists, roots and pending visits agree at every step: the state that
\* mark_graph and sweep_list rely on.
THEOREM Invariance == Spec => []IInv
BY InitIInv, NextIInv, PTL DEF Spec

(***************************************************************************)
(* What follows from it.                                                   *)
(***************************************************************************)

\* What the mutator can get at is on the active or the perm list, as these are
\* closed under the traced pointers and hold the roots.
LEMMA IInvAccessible == IInv => AccessibleAlive
<1> SUFFICES ASSUME IInv, pc # "destroyed"
             PROVE  Accessible \subseteq Alive
  BY DEF AccessibleAlive
<1>1. Alive \in SUBSET Obj /\ Closed(Alive) /\ RootSet \cup held \subseteq Alive
  BY DEF IInv, TypeOK, Alive, NoDangling, RootsAlive
<1>2. Reach \subseteq Alive
  BY <1>1, ReachFacts DEF IInv
<1> QED BY <1>1, <1>2 DEF Accessible

\* The collector is safe: whatever the program allocates, links, registers,
\* protects or sweeps, no object it can still get at is reclaimed.
THEOREM Safety == Spec => []AccessibleAlive
BY Invariance, IInvAccessible, PTL

\* The assertion of mark_graph against active objects on the dead list holds.
THEOREM AssertionHolds == Spec => []NoAbort
<1>1. IInv => NoAbort
  BY DEF IInv
<1> QED BY <1>1, Invariance, PTL

\* The lists are closed under the traced pointers at every step of a collection:
\* not even garbage that is not yet freed points into freed memory.
THEOREM Closedness == Spec => []NoDangling
<1>1. IInv => NoDangling
  BY DEF IInv
<1> QED BY <1>1, Invariance, PTL

\* Whatever order mark_graph takes its visits in, nothing the roots lead to is
\* passed over and nothing else is marked.
THEOREM MarkingSound == Spec => []Tricolour
<1>1. IInv => Tricolour
  BY DEF IInv
<1> QED BY <1>1, Invariance, PTL

\* When the marking is over, what is marked or permanent is what the roots
\* lead to.
LEMMA MarkingDone ==
  ASSUME IInv, pc = "mark", todo = {}
  PROVE  Marked \cup perm = Reach
<1>1. RootSet \subseteq Marked \cup perm /\ Closed(Marked \cup perm) /\ Marked \subseteq Reach
  BY DEF IInv, Tricolour, Closed
<1>2. Marked \cup perm \in SUBSET Obj
  BY DEF IInv, TypeOK, Marked
<1>3. Reach \subseteq Marked \cup perm
  BY <1>1, <1>2, ReachFacts DEF IInv
<1>4. perm \subseteq Reach
  BY ReachFacts DEF IInv, RootSet
<1> QED BY <1>1, <1>3, <1>4

\* The collector is exact: a sweep leaves on its lists neither more nor less
\* than what the roots lead to.
THEOREM Exactness == Spec => SweepExact
<1>1. IInv /\ [Next]_vars => [sweep_list => active' \cup perm' = Reach]_vars
  <2> SUFFICES ASSUME IInv, sweep_list
               PROVE  active' \cup perm' = Reach
    OBVIOUS
  <2>1. active' = Marked /\ perm' = perm /\ pc = "mark" /\ todo = {}
    BY DEF sweep_list, Marked, IInv, TypeOK
  <2> QED BY <2>1, MarkingDone
<1> QED BY <1>1, Invariance, PTL DEF Spec, SweepExact

-----------------------------------------------------------------------------
(***************************************************************************)
(* The collector implements the interface of module Heap.                  *)
(***************************************************************************)

\* A step that only starts a collection is a Reclaim of nothing.
LEMMA StartReclaims ==
  ASSUME StartSweep, protect_count = 0,
         UNCHANGED <<objects, tables, roots, var, protect_count>>
  PROVE  Reclaim
BY DEF StartSweep, Reclaim, objects

\* Every step of the collector is a step of Heap or is not visible in it.
LEMMA StepRefines == IInv /\ [Next]_vars => [HeapNext]_heapVars
<1> SUFFICES ASSUME IInv, [Next]_vars
             PROVE  HeapNext \/ UNCHANGED heapVars
  OBVIOUS
<1>0. TypeOK /\ AccessibleAlive
  BY IInvAccessible DEF IInv
<1>1. CASE Declare
  BY <1>1 DEF Declare, gc_register_type, gc_register_pointer, HeapNext
<1>2. ASSUME NEW r, internal_alloc(r)
      PROVE  HeapNext \/ UNCHANGED heapVars
  <2>1. UNCHANGED <<objects, tables, roots, var, protect_count>>
    BY <1>2 DEF internal_alloc, Begin
  <2>2. CASE r.cell /\ dead = {} /\ protect_count = 0
    BY <1>2, <2>1, <2>2, StartReclaims DEF internal_alloc, Begin, HeapNext
  <2>3. CASE ~ (r.cell /\ dead = {} /\ protect_count = 0)
    BY <1>2, <2>1, <2>3 DEF internal_alloc, Begin, heapVars
  <2> QED BY <2>2, <2>3
<1>3. CASE Allocate
  BY <1>2, <1>3 DEF Allocate, gc_alloc, gc_alloc_type, gc_alloc_pointer_array
<1>4. ASSUME NEW o \in Obj, mark_graph(o)
      PROVE  UNCHANGED heapVars
  BY <1>4 DEF mark_graph, Visit
<1>5. CASE sweep_list
  <2>1. /\ pc = "mark" /\ todo = {}
        /\ UNCHANGED <<perm, tables, roots, var, protect_count, held>>
    BY <1>5 DEF sweep_list
  <2>2. protect_count = 0 /\ held = {}
    BY <2>1 DEF IInv, PhaseInv
  <2>3. \A o \in Marked \cup perm : type_def'[o] = type_def[o] /\ field'[o] = field[o]
    BY <1>0, <1>5 DEF sweep_list, Marked, IInv, MarksMatchLists, Colour, TypeOK
  <2>4. Reclaim
    BY <2>1, <2>2, <2>3, MarkingDone DEF Reclaim
  <2> QED BY <2>4 DEF HeapNext
<1>6. CASE pre_alloc
  <2>1. /\ protect_count = 0 /\ held' = {}
        /\ UNCHANGED <<perm, tables, roots, var, protect_count>>
    BY <1>6 DEF pre_alloc, StartSweep, IInv, PhaseInv
  <2>2. PICK new \in SUBSET Unused :
          /\ type_def' = [o \in Obj |-> IF o \in new THEN Untyped ELSE type_def[o]]
          /\ field' = [o \in Obj |-> IF o \in new THEN Zeroed ELSE field[o]]
    BY <1>6 DEF pre_alloc
  <2>3. \A o \in Reach : o \in Obj /\ o \notin new
    BY <1>0, <1>6 DEF pre_alloc, AccessibleAlive, Accessible, Alive, Reach, Unused, IInv, MarksMatchLists, Colour
  <2>4. Reclaim
    BY <2>1, <2>2, <2>3 DEF Reclaim
  <2> QED BY <2>4 DEF HeapNext
<1>7. CASE Resweep
  BY <1>7, StartReclaims DEF Resweep, IInv, PhaseInv, HeapNext
<1>8. CASE SweepReturn \/ OutOfMemory
  BY <1>8 DEF SweepReturn, OutOfMemory
<1>9. ASSUME NEW o \in Obj, TakeDead(o) \/ Malloc(o)
      PROVE  HeapNext
  <2>1. /\ pc = "alloc" /\ Attach(o) /\ o \notin Alive
    BY <1>0, <1>9 DEF TakeDead, Malloc, Unused, Alive, IInv, MarksMatchLists, Colour
  <2>2. o \notin Accessible
    BY <1>0, <2>1 DEF AccessibleAlive
  <2>3. req.type \in Type \cup {Untyped} /\ req.perm \in BOOLEAN
    BY <1>0, <2>1 DEF TypeOK, Request
  <2>4. New(o, req.type, req.perm)
    BY <2>1, <2>2 DEF New, Attach, AttachAs
  <2> QED BY <2>3, <2>4 DEF HeapNext
<1>10. CASE Mutate
  BY <1>10 DEF Mutate, HeapNext
<1>11. ASSUME NEW r \in Root, gc_register_root(r) \/ gc_unregister_root(r)
       PROVE  HeapNext
  BY <1>11 DEF gc_register_root, gc_unregister_root, HeapNext
<1>12. CASE gc_protect
  BY <1>12 DEF gc_protect, HeapNext
<1>13. CASE gc_unprotect
  <2>1. Unprotect
    BY <1>13 DEF gc_unprotect, Unprotect, StartSweep
  <2> QED BY <2>1 DEF HeapNext
<1>14. CASE gc_sweep
  BY <1>14, StartReclaims DEF gc_sweep, HeapNext
<1>15. ASSUME NEW o \in Obj, gc_de_perm(o)
       PROVE  HeapNext
  BY <1>15 DEF gc_de_perm, HeapNext
<1>16. CASE gc_destroy
  BY <1>16 DEF gc_destroy, HeapNext
<1>17. CASE UNCHANGED vars
  BY <1>17 DEF vars
<1>18. CASE Collector
  BY <1>4, <1>5, <1>6, <1>7, <1>8, <1>9, <1>18 DEF Collector
<1> QED BY <1>1, <1>3, <1>10, <1>11, <1>12, <1>13, <1>14, <1>15, <1>16, <1>17, <1>18 DEF Next, Terminated

\* Behind its lists, marks and batches the collector keeps the promise of
\* gc.h: memory the program can get at changes by the program's stores only.
THEOREM Refinement == Spec => HeapSpec
<1>1. Init => HeapInit
  BY DEF Init
<1> QED BY <1>1, StepRefines, Invariance, PTL DEF Spec, HeapSpec

-----------------------------------------------------------------------------
(***************************************************************************)
(* Batches.                                                                *)
(***************************************************************************)

\* A batch is not empty.
LEMMA BatchNotEmpty ==
  ASSUME NEW S \in SUBSET Obj, Cardinality(S) = Batch
  PROVE  S # {}
BY FS_EmptySet, GCAssumption

\* pre_alloc is not running when gc_create returns.
LEMMA InitRefill == Init => RefillInv
BY DEF Init, RefillInv, RefillOnce

\* Outside of a collection nothing is owed, and an operation that leaves the
\* batches alone leaves nothing to prove.
LEMMA RefillUnchanged ==
  ASSUME IInv, RefillInv, resweep' = resweep,
         \/ pc = "client" /\ pc' \in {"client", "mark", "destroyed"}
         \/ pc' = pc /\ UNCHANGED <<req, protect_count, dead, active, cell, perm, roots, var,
                                    type_def, field, traced>>
  PROVE  RefillInv'
<1>1. CASE pc = "client" /\ pc' \in {"client", "mark", "destroyed"}
  BY <1>1 DEF RefillInv, RefillOnce, IInv, TypeOK
<1>2. CASE pc' = pc /\ UNCHANGED <<req, protect_count, dead, active, cell, perm, roots, var,
                                   type_def, field, traced>>
  <2>1. Reach' = Reach
    BY <1>2 DEF Reach, RootSet, Closed, Children, Traced
  <2> QED BY <1>2, <2>1 DEF RefillInv, RefillOnce
<1> QED BY <1>1, <1>2

\* Every step keeps it: the cells pre_alloc makes reach the dead list with the
\* sweep that follows, and the dead list does not shrink before the call that
\* needs it takes its cell.
LEMMA NextRefill == IInv /\ RefillInv /\ [Next]_vars => RefillInv'
<1> SUFFICES ASSUME IInv, RefillInv, [Next]_vars
             PROVE  RefillInv'
  OBVIOUS
<1> USE HeapAssumption, GCAssumption
<1>0. TypeOK /\ IInv'
  BY NextIInv DEF IInv
<1>1. CASE Declare
  BY <1>1, RefillUnchanged DEF Declare, gc_register_type, gc_register_pointer, control
<1>2. CASE Allocate
  <2>1. PICK r : internal_alloc(r)
    BY <1>2 DEF Allocate, gc_alloc, gc_alloc_type, gc_alloc_pointer_array
  <2>2. CASE r.cell /\ dead = {} /\ protect_count = 0
    BY <2>1, <2>2, RefillUnchanged DEF internal_alloc, Begin, StartSweep
  <2>3. CASE ~ (r.cell /\ dead = {} /\ protect_count = 0)
    BY <1>0, <2>1, <2>3 DEF internal_alloc, Begin, RefillInv, RefillOnce, objects, lists, TypeOK
  <2> QED BY <2>2, <2>3
<1>3. ASSUME NEW o \in Obj, mark_graph(o)
      PROVE  RefillInv'
  <2>1. pc' = pc
    BY <1>0, <1>3 DEF mark_graph, Visit, IInv, NoAbort
  <2> QED BY <1>3, <2>1, RefillUnchanged DEF mark_graph, Visit, heapVars, objects, tables
<1>4. CASE sweep_list
  <2> DEFINE lost  == {o \in active : mark[o] # current_mark}
             freed == {o \in lost : ~ Recycled(o)}
  <2>1. /\ pc = "mark" /\ pc' = "swept" /\ resweep' = resweep
        /\ dead' = dead \cup (lost \ freed)
    BY <1>4 DEF sweep_list
  <2>2. resweep = 1 => dead' # {}
    <3> SUFFICES ASSUME NEW o \in active, cell[o], o \notin Reach
                 PROVE  o \in dead'
      BY <2>1 DEF RefillInv
    <3>1. o \notin Marked
      BY <2>1 DEF IInv, Tricolour
    <3> QED BY <2>1, <3>1 DEF Marked, Recycled
  <2> QED BY <2>1, <2>2 DEF RefillInv, RefillOnce
<1>5. CASE pre_alloc
  <2>1. PICK new \in SUBSET Unused :
          /\ Cardinality(new) = Batch
          /\ active' = active \cup new
          /\ cell' = [o \in Obj |-> cell[o] \/ o \in new]
    BY <1>5 DEF pre_alloc
  <2>2. resweep = 0 /\ resweep' = 1 /\ pc = "swept" /\ pc' = "mark"
    BY <1>0, <1>5 DEF pre_alloc, StartSweep, RefillInv, RefillOnce, TypeOK
  <2>3. PICK o \in new : TRUE
    BY <2>1, BatchNotEmpty DEF Unused
  <2>4. o \in Obj /\ o \notin Alive /\ cell'[o]
    BY <2>1, <2>3 DEF Unused, Alive, IInv, MarksMatchLists, Colour
  <2>5. RootSet' = RootSet /\ Alive \in SUBSET Obj /\ RootSet \subseteq Alive
    BY <1>0, <1>5, <2>2 DEF pre_alloc, RootSet, RootsAlive, IInv, Alive, TypeOK
  <2>6. \A q \in Alive : Children(q)' = Children(q)
    <3>1. \A q \in Alive : type_def'[q] = type_def[q] /\ field'[q] = field[q]
      BY <1>0, <1>5 DEF pre_alloc, Alive, Unused, IInv, MarksMatchLists, Colour, TypeOK
    <3> QED BY <1>5, <3>1 DEF pre_alloc, Children, Traced, tables
  <2>7. \A q \in Alive : Children(q)' \subseteq Alive
    BY <2>2, <2>6 DEF IInv, NoDangling, Closed
  <2>8. o \notin Reach'
    BY <2>4, <2>5, <2>7 DEF Reach, Closed
  <2> QED BY <2>1, <2>2, <2>3, <2>4, <2>8 DEF RefillInv, RefillOnce
<1>6. CASE Resweep
  <2>1. resweep = 1 /\ resweep' = 0 /\ pc' = "mark"
    BY <1>0, <1>6 DEF Resweep, StartSweep, RefillInv, RefillOnce, TypeOK
  <2> QED BY <2>1 DEF RefillInv, RefillOnce
<1>7. CASE SweepReturn \/ OutOfMemory
  BY <1>7 DEF SweepReturn, OutOfMemory, RefillInv, RefillOnce, lists, heapVars
<1>8. ASSUME NEW o \in Obj, TakeDead(o) \/ Malloc(o)
      PROVE  RefillInv'
  BY <1>8 DEF TakeDead, Malloc, Attach, AttachAs, RefillInv, RefillOnce
<1>9. CASE Mutate
  BY <1>9, RefillUnchanged DEF Mutate, control
<1>10. ASSUME NEW r \in Root, gc_register_root(r) \/ gc_unregister_root(r)
       PROVE  RefillInv'
  BY <1>10, RefillUnchanged DEF gc_register_root, gc_unregister_root, control
<1>11. CASE gc_protect
  BY <1>11, RefillUnchanged DEF gc_protect, control
<1>12. CASE gc_unprotect
  BY <1>12, RefillUnchanged DEF gc_unprotect, StartSweep
<1>13. CASE gc_sweep
  BY <1>13, RefillUnchanged DEF gc_sweep, StartSweep
<1>14. ASSUME NEW o \in Obj, gc_de_perm(o)
       PROVE  RefillInv'
  BY <1>14, RefillUnchanged DEF gc_de_perm, control
<1>15. CASE gc_destroy
  BY <1>15, RefillUnchanged DEF gc_destroy
<1>16. CASE UNCHANGED vars
  BY <1>16, RefillUnchanged DEF vars, heapVars, objects, tables, lists, control
<1>17. CASE Collector
  BY <1>3, <1>4, <1>5, <1>6, <1>7, <1>8, <1>17 DEF Collector
<1> QED BY <1>1, <1>2, <1>9, <1>10, <1>11, <1>12, <1>13, <1>14, <1>15, <1>16, <1>17
        DEF Next, Terminated

\* The heap grows by batches: pre_alloc, which allocates through the function
\* that called it, is never inside itself, and the call that had to sweep finds
\* a dead cell.
THEOREM Refills == Spec => []RefillOnce
<1>1. RefillInv => RefillOnce
  BY DEF RefillInv
<1> QED BY <1>1, Invariance, InitRefill, NextRefill, PTL DEF Spec

-----------------------------------------------------------------------------
(***************************************************************************)
(* The counter of allocations.                                             *)
(***************************************************************************)

\* What is counted is finite.
LEMMA CountedFinite ==
  /\ IsFiniteSet(PtrDefs) /\ Cardinality(PtrDefs) \in Nat
  /\ IsFiniteSet(RootNodes) /\ Cardinality(RootNodes) \in Nat
<1>1. IsFiniteSet(Type \X Slot) /\ IsFiniteSet(Root \X (1..MaxRegs))
  <2>1. IsFiniteSet(1..MaxRegs)
    BY HeapAssumption, FS_Interval
  <2> QED BY <2>1, HeapAssumption, FS_Product
<1>2. PtrDefs \in SUBSET (Type \X Slot) /\ RootNodes \in SUBSET (Root \X (1..MaxRegs))
  BY DEF PtrDefs, RootNodes
<1> HIDE DEF PtrDefs, RootNodes
<1> QED BY <1>1, <1>2, FS_Subset, FS_CardinalityType

\* gc_create has counted its type table and the definition of pointer arrays.
LEMMA InitCount == Init => CountInv
<1> SUFFICES ASSUME Init
             PROVE  CountInv
  OBVIOUS
<1>1. PtrDefs = {} /\ RootNodes = {} /\ active \cup dead \cup perm = {}
  BY HeapAssumption DEF Init, HeapInit, PtrDefs, RootNodes
<1>2. Cardinality(PtrDefs) = 0 /\ Cardinality(RootNodes) = 0
      /\ Cardinality(active \cup dead \cup perm) = 0
  BY <1>1, FS_EmptySet
<1>3. AllocationsExact
  BY <1>2 DEF Init, AllocationsExact, TableSize
<1>4. \A t \in Type \ types : traced[t] = {}
  BY DEF Init, HeapInit
<1>5. \A r \in Root : roots[r] <= MaxRegs
  BY HeapAssumption DEF Init, HeapInit
<1> QED BY <1>3, <1>4, <1>5 DEF CountInv

\* The blocks counted change by what a step allocates and frees.
LEMMA CountSteps ==
  ASSUME TypeOK, CountInv,
         pc # "destroyed", pc' # "destroyed",
         UNCHANGED <<types, traced, roots>>,
         NEW d \in Int, allocations' = allocations + d,
         Cardinality((active \cup dead \cup perm)') = Cardinality(active \cup dead \cup perm) + d
  PROVE  CountInv'
<1>1. PtrDefs' = PtrDefs /\ RootNodes' = RootNodes
  BY DEF PtrDefs, RootNodes
<1>2. Cardinality(active \cup dead \cup perm) \in Nat
  BY SubsetCount DEF TypeOK
<1>3. TableSize' = TableSize /\ TableSize \in Int
  BY <1>1, TableCount DEF TableSize
<1> HIDE DEF PtrDefs, RootNodes, TableSize
<1> QED BY <1>1, <1>2, <1>3, CountedFinite DEF CountInv, AllocationsExact

\* Every step keeps the count: gc_malloc and gc_free are called once for each
\* block that comes and goes, and moves between the lists are neither.
LEMMA NextCount == IInv /\ CountInv /\ [Next]_vars => CountInv'
<1> SUFFICES ASSUME IInv, CountInv, [Next]_vars
             PROVE  CountInv'
  OBVIOUS
<1> USE HeapAssumption, GCAssumption
<1> DEFINE Owned == active \cup dead \cup perm
<1>0. TypeOK /\ Owned \in SUBSET Obj /\ IsFiniteSet(Owned) /\ Cardinality(Owned) \in Nat
  BY SubsetCount DEF IInv, TypeOK
<1>a. ASSUME pc # "destroyed", pc' # "destroyed", UNCHANGED <<types, traced, roots, allocations>>,
             Owned' = Owned
      PROVE  CountInv'
  <2>0. PICK d \in Int : d = 0
    OBVIOUS
  <2>1. allocations' = allocations + d
    BY <1>0, <1>a, <2>0 DEF TypeOK
  <2>2. Cardinality(Owned') = Cardinality(Owned) + d
    <3> HIDE DEF Owned
    <3> QED BY <1>0, <1>a, <2>0
  <2>3. pc # "destroyed" /\ pc' # "destroyed" /\ UNCHANGED <<types, traced, roots>>
    BY <1>a
  <2> QED BY <1>0, <2>1, <2>2, <2>3, CountSteps
<1>1. ASSUME NEW t \in Type, gc_register_type(t)
      PROVE  CountInv'
  <2>1. /\ pc = "client" /\ pc' = "client" /\ t \notin types
        /\ UNCHANGED <<active, dead, perm, roots, allocations>>
        /\ types' = types \cup {t} /\ traced' = [traced EXCEPT ![t] = {}]
    BY <1>1 DEF gc_register_type, DeclareType, lists, control, objects
  <2>2. traced' = traced
    BY <1>0, <2>1 DEF CountInv, TypeOK
  <2>3. PtrDefs' = PtrDefs /\ RootNodes' = RootNodes
    BY <2>1, <2>2 DEF PtrDefs, RootNodes
  <2>4. AllocationsExact'
    BY <2>1, <2>3 DEF CountInv, AllocationsExact, TableSize
  <2> QED BY <2>1, <2>2, <2>4 DEF CountInv
<1>2. ASSUME NEW t \in Type, NEW s \in Slot, gc_register_pointer(t, s)
      PROVE  CountInv'
  <2>1. /\ pc = "client" /\ pc' = "client" /\ t \in types /\ t # ArrayType /\ s \notin traced[t]
        /\ UNCHANGED <<active, dead, perm, roots, types>>
        /\ traced' = [traced EXCEPT ![t] = @ \cup {s}] /\ allocations' = allocations + 1
    BY <1>2 DEF gc_register_pointer, DeclarePointer, lists, control, objects
  <2>2. PtrDefs' = PtrDefs \cup {<<t, s>>} /\ <<t, s>> \notin PtrDefs
    BY <1>0, <2>1 DEF PtrDefs, TypeOK
  <2>3. RootNodes' = RootNodes
    BY <2>1 DEF RootNodes
  <2> HIDE DEF PtrDefs, RootNodes
  <2>4. Cardinality(PtrDefs') = Cardinality(PtrDefs) + 1
    BY <2>2, CountedFinite, FS_AddElement
  <2>5. AllocationsExact'
    BY <1>0, <2>1, <2>3, <2>4, CountedFinite DEF CountInv, AllocationsExact, TableSize
  <2> QED BY <1>0, <2>1, <2>5 DEF CountInv, TypeOK
<1>3. ASSUME NEW r \in Root, gc_register_root(r)
      PROVE  CountInv'
  <2>1. /\ pc = "client" /\ pc' = "client" /\ roots[r] < MaxRegs
        /\ UNCHANGED <<active, dead, perm, types, traced>>
        /\ roots' = [roots EXCEPT ![r] = @ + 1] /\ allocations' = allocations + 1
    BY <1>3 DEF gc_register_root, Register, lists, control, objects, tables
  <2>2. RootNodes' = RootNodes \cup {<<r, roots[r] + 1>>} /\ <<r, roots[r] + 1>> \notin RootNodes
    BY <1>0, <2>1 DEF RootNodes, TypeOK
  <2>3. PtrDefs' = PtrDefs
    BY <2>1 DEF PtrDefs
  <2> HIDE DEF PtrDefs, RootNodes
  <2>4. Cardinality(RootNodes') = Cardinality(RootNodes) + 1
    BY <2>2, CountedFinite, FS_AddElement
  <2>5. AllocationsExact'
    BY <1>0, <2>1, <2>3, <2>4, CountedFinite DEF CountInv, AllocationsExact, TableSize
  <2> QED BY <1>0, <2>1, <2>5 DEF CountInv, TypeOK
<1>4. ASSUME NEW r \in Root, gc_unregister_root(r)
      PROVE  CountInv'
  <2>1. /\ pc = "client" /\ pc' = "client" /\ roots[r] > 0
        /\ UNCHANGED <<active, dead, perm, types, traced>>
        /\ roots' = [roots EXCEPT ![r] = @ - 1] /\ allocations' = allocations - 1
    BY <1>4 DEF gc_unregister_root, Unregister, lists, control, objects, tables
  <2>2. RootNodes' = RootNodes \ {<<r, roots[r]>>} /\ <<r, roots[r]>> \in RootNodes
    <3>1. roots[r] \in 1..MaxRegs /\ \A q \in Root : roots'[q] = IF q = r THEN roots[q] - 1 ELSE roots[q]
      BY <1>0, <2>1 DEF TypeOK, CountInv
    <3>2. \A n \in 1..MaxRegs : n <= roots[r] - 1 <=> n <= roots[r] /\ n # roots[r]
      BY <3>1
    <3> QED BY <3>1, <3>2 DEF RootNodes
  <2>3. PtrDefs' = PtrDefs
    BY <2>1 DEF PtrDefs
  <2> HIDE DEF PtrDefs, RootNodes
  <2>4. Cardinality(RootNodes') = Cardinality(RootNodes) - 1
    BY <2>2, CountedFinite, FS_RemoveElement
  <2>5. AllocationsExact'
    BY <1>0, <2>1, <2>3, <2>4, CountedFinite DEF CountInv, AllocationsExact, TableSize
  <2> QED BY <1>0, <2>1, <2>5 DEF CountInv, TypeOK
<1>5. CASE Allocate
  <2>1. PICK r : internal_alloc(r)
    BY <1>5 DEF Allocate, gc_alloc, gc_alloc_type, gc_alloc_pointer_array
  <2> QED BY <1>a, <2>1 DEF internal_alloc, Begin, StartSweep, objects, tables, lists
<1>6. ASSUME NEW o \in Obj, mark_graph(o)
      PROVE  CountInv'
  BY <1>6, <1>a DEF mark_graph, Visit, heapVars, objects, tables
<1>7. CASE sweep_list
  <2> DEFINE lost  == {o \in active : mark[o] # current_mark}
             freed == {o \in lost : ~ Recycled(o)}
  <2>1. /\ pc = "mark" /\ pc' = "swept" /\ allocations' = allocations - Cardinality(freed)
        /\ UNCHANGED <<types, traced, roots>>
    BY <1>7 DEF sweep_list, tables
  <2>2. freed \in SUBSET Owned /\ Owned' = Owned \ freed
    BY <1>7 DEF sweep_list, IInv, MarksMatchLists, TypeOK, Colour
  <2> HIDE DEF freed
  <2>3. Cardinality(freed) \in Nat /\ Owned \cap freed = freed
    BY <1>0, <2>2, FS_Subset, FS_CardinalityType
  <2>4. Cardinality(Owned') = Cardinality(Owned) - Cardinality(freed)
    BY <1>0, <2>2, <2>3, FS_Difference
  <2>5. - Cardinality(freed) \in Int
    BY <2>3
  <2>6. /\ allocations' = allocations + (- Cardinality(freed))
        /\ Cardinality(Owned') = Cardinality(Owned) + (- Cardinality(freed))
    BY <1>0, <2>1, <2>3, <2>4 DEF TypeOK
  <2> QED BY <1>0, <2>1, <2>5, <2>6, CountSteps
<1>8. CASE pre_alloc
  <2>1. PICK new \in SUBSET Unused : Cardinality(new) = Batch /\ active' = active \cup new
    BY <1>8 DEF pre_alloc
  <2>2. /\ pc = "swept" /\ pc' = "mark" /\ allocations' = allocations + Batch
        /\ UNCHANGED <<types, traced, roots, dead, perm>>
    BY <1>8 DEF pre_alloc, StartSweep, tables
  <2>3. new \in SUBSET Obj /\ Owned \cap new = {} /\ Owned' = Owned \cup new
    BY <2>1, <2>2 DEF Unused, IInv, MarksMatchLists, Colour
  <2>4. Cardinality(Owned') = Cardinality(Owned) + Batch
    <3>1. IsFiniteSet(new) /\ Cardinality(Owned \cap new) = 0
      BY <2>3, SubsetCount, FS_EmptySet
    <3>2. Cardinality(Owned \cup new) = Cardinality(Owned) + Cardinality(new) - Cardinality(Owned \cap new)
      BY <1>0, <3>1, FS_Union
    <3> HIDE DEF Owned
    <3> QED BY <1>0, <2>1, <2>3, <3>1, <3>2
  <2> QED BY <1>0, <2>2, <2>4, CountSteps
<1>9. ASSUME NEW o \in Obj, TakeDead(o)
      PROVE  CountInv'
  BY <1>9, <1>a DEF TakeDead, Attach, AttachAs, tables
<1>10. ASSUME NEW o \in Obj, Malloc(o)
       PROVE  CountInv'
  <2>1. /\ pc = "alloc" /\ pc' = "client" /\ allocations' = allocations + 1
        /\ UNCHANGED <<types, traced, roots>>
    BY <1>10 DEF Malloc, Attach, AttachAs, tables
  <2>2. Owned' = Owned \cup {o} /\ o \notin Owned
    BY <1>10 DEF Malloc, Attach, AttachAs, Unused, IInv, MarksMatchLists, Colour
  <2>3. Cardinality(Owned') = Cardinality(Owned) + 1
    BY <1>0, <2>2, FS_AddElement
  <2> QED BY <1>0, <2>1, <2>3, CountSteps
<1>11. CASE Resweep \/ SweepReturn \/ OutOfMemory \/ gc_sweep
  BY <1>11, <1>a DEF Resweep, SweepReturn, OutOfMemory, gc_sweep, StartSweep, heapVars, objects,
     tables, lists
<1>12. CASE Mutate
  BY <1>12, <1>a DEF Mutate, LoadVar, StoreVar, LoadField, StoreField, objects, tables, lists, control
<1>13. CASE gc_protect \/ gc_unprotect
  BY <1>13, <1>a DEF gc_protect, Protect, gc_unprotect, StartSweep, objects, tables, lists, control
<1>14. ASSUME NEW o \in Obj, gc_de_perm(o)
       PROVE  CountInv'
  BY <1>14, <1>a DEF gc_de_perm, DePerm, tables, control
<1>15. CASE gc_destroy
  <2>1. /\ Owned' = {} /\ pc = "client" /\ pc' = "destroyed"
        /\ allocations' = allocations - Cardinality(Owned) - TableSize
        /\ UNCHANGED <<types, traced, roots>>
    BY <1>15 DEF gc_destroy, Destroy, tables
  <2>2. RootNodes' = RootNodes /\ Cardinality(Owned') = 0
    BY <2>1, FS_EmptySet DEF RootNodes
  <2> HIDE DEF RootNodes
  <2>3. AllocationsExact'
    BY <1>0, <2>1, <2>2, CountedFinite, TableCount DEF CountInv, AllocationsExact
  <2> QED BY <2>1, <2>3 DEF CountInv
<1>16. CASE UNCHANGED vars
  <2>1. RootNodes' = RootNodes /\ PtrDefs' = PtrDefs
    BY <1>16 DEF RootNodes, PtrDefs, vars, heapVars, tables
  <2> HIDE DEF RootNodes, PtrDefs
  <2> QED BY <1>16, <2>1 DEF vars, heapVars, objects, tables, lists, control, CountInv,
             AllocationsExact, TableSize
<1>17. CASE Declare
  BY <1>1, <1>2, <1>17 DEF Declare
<1>18. CASE Collector
  BY <1>6, <1>7, <1>8, <1>9, <1>10, <1>11, <1>18 DEF Collector
<1> QED BY <1>3, <1>4, <1>5, <1>11, <1>12, <1>13, <1>14, <1>15, <1>16, <1>17, <1>18
        DEF Next, Terminated

\* gc_stats tells the truth: the counter is the number of blocks the collector
\* owns, and what gc_destroy leaves behind are the nodes of roots the program
\* never unregistered.
THEOREM Accounting == Spec => []AllocationsExact
<1>1. CountInv => AllocationsExact
  BY DEF CountInv
<1> QED BY <1>1, Invariance, InitCount, NextCount, PTL DEF Spec
=============================================================================
