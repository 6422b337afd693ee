----------------------------- MODULE VM_machine -----------------------------
(***************************************************************************)
(* What the functions of the machine preserve, in the middle of an         *)
(* instruction too: the environments that are referred to are there,       *)
(* those of one frame agree, nothing else refers to the one that runs, and *)
(* the others stay as they were.                                           *)
(***************************************************************************)
EXTENDS VM, FiniteSetTheorems, WellFoundedInduction, Integers, TLAPS

(***************************************************************************)
(* Values.                                                                 *)
(***************************************************************************)

LEMMA HoldsOfKinds ==
  /\ \A v \in Literals \cup {Library, Pair(Number(0), Empty)} : Holds(v) = {}
  /\ \A e : Holds(Closure(e)) = {e}
  /\ \A e : Holds(Pair(Closure(e), Empty)) = {e}
  /\ \A e : Holds(Exception(e)) = {e}
<1>1. \A v : v.kind \notin {"closure", "pair"} => Holds(v) = {}
  BY DEF Holds
<1>2. \A e : Closure(e).kind = "closure" /\ Closure(e).env = e
  BY DEF Closure
<1>3. \A e : Holds(Closure(e)) = {e}
  BY <1>2 DEF Holds
<1>4. \A a, d : Pair(a, d).kind = "pair" /\ Pair(a, d).holds = Holds(a) \cup Holds(d)
  BY DEF Pair
<1>5. \A a, d : Holds(Pair(a, d)) = Holds(a) \cup Holds(d)
  BY <1>4 DEF Holds
<1>6. Holds(Empty) = {} /\ Holds(String) = {} /\ Holds(Number(0)) = {} /\ Holds(Library) = {}
  BY <1>1 DEF Empty, String, Number, Library
<1>7. Holds(False) = {} /\ \A k : Holds(Sym(k)) = {}
  BY <1>1 DEF False, Sym
<1> QED
  BY <1>3, <1>5, <1>6, <1>7 DEF Literals, Exception

\* The parts of a pair are values, and lead to no other environments.
LEMMA PartsOfPairs ==
  ASSUME NEW v \in Value, IsPair(v)
  PROVE  /\ v.car \in Value /\ Holds(v.car) \subseteq Holds(v)
         /\ v.cdr \in Value /\ Holds(v.cdr) \subseteq Holds(v)
<1>1. \A a, d : Pair(a, d).car = a /\ Pair(a, d).cdr = d
  BY DEF Pair
<1>2. /\ Number(0) \in Value /\ Empty \in Value /\ String \in Value
      /\ Holds(Number(0)) = {} /\ Holds(Empty) = {} /\ Holds(String) = {}
  BY HoldsOfKinds DEF Value, Literals
<1>3. CASE v = Pair(Number(0), Empty)
  BY <1>1, <1>2, <1>3
<1>4. ASSUME NEW e \in Env, v = Pair(Closure(e), Empty)
      PROVE  /\ v.car \in Value /\ Holds(v.car) \subseteq Holds(v)
             /\ v.cdr \in Value /\ Holds(v.cdr) \subseteq Holds(v)
  BY <1>1, <1>2, <1>4, HoldsOfKinds DEF Value
<1>5. ASSUME NEW e \in Env, v = Exception(e)
      PROVE  /\ v.car \in Value /\ Holds(v.car) \subseteq Holds(v)
             /\ v.cdr \in Value /\ Holds(v.cdr) \subseteq Holds(v)
  <2>1. v.car = String /\ v.cdr = Pair(Closure(e), Empty)
    BY <1>1, <1>5 DEF Exception
  <2> QED
    BY <1>2, <1>5, <2>1, HoldsOfKinds DEF Value
<1>6. \A e : ~ IsPair(Closure(e))
  BY DEF IsPair, Closure
<1>7. ~ IsPair(Library) /\ \A w \in Literals : ~ IsPair(w)
  BY DEF IsPair, Library, Literals, Number, False, String, Empty, Sym
<1> QED
  BY <1>3, <1>4, <1>5, <1>6, <1>7 DEF Value

\* The environment of a closure is the one it holds.
LEMMA ClosuresHold ==
  ASSUME NEW v \in Value, IsClosure(v)
  PROVE  v.env \in Holds(v)
  BY DEF IsClosure, Holds

LEMMA ValuesHoldEnvs ==
  ASSUME NEW v \in Value
  PROVE  Holds(v) \subseteq Env
  BY HoldsOfKinds DEF Value

-----------------------------------------------------------------------------
(***************************************************************************)
(* What the machine reaches: the recursion of LiveEnvs ends, at a set that *)
(* refers to nothing outside itself.                                       *)
(***************************************************************************)

\* Numbers have a least one.
LEMMA Least ==
  ASSUME NEW T \in SUBSET Nat, T # {}
  PROVE  \E n \in T : \A l \in T : n <= l
<1> DEFINE R == OpToRel(<, Nat)
<1>1. IsWellFoundedOn(R, Nat)
  BY NatLessThanWellFounded
<1>2. \A m, n \in Nat : m < n => <<m, n>> \in R
  BY DEF OpToRel
<1> HIDE DEF R
<1>3. PICK n \in T : \A l \in T : ~ (<<l, n>> \in R)
  BY <1>1, WFMin
<1>4. \A l \in T : ~ (l < n)
  BY <1>2, <1>3
<1> QED
  BY <1>4

\* F adds to the sets within L, and more to the larger ones.
Ascends(L, F) ==
  /\ F \in [SUBSET L -> SUBSET L]
  /\ \A E \in SUBSET L : E \subseteq F[E]
  /\ \A D, E \in SUBSET L : D \subseteq E => F[D] \subseteq F[E]

\* R goes on with F until there is nothing to add.
GoesOn(L, F, R) == R = [E \in SUBSET L |-> IF F[E] = E THEN E ELSE R[F[E]]]

\* Within a finite set that ends.
LEMMA Ascent ==
  ASSUME NEW L, IsFiniteSet(L), NEW F, Ascends(L, F), NEW R, GoesOn(L, F, R)
  PROVE  \A E \in SUBSET L : E \subseteq R[E] /\ R[E] \in SUBSET L /\ F[R[E]] = R[E]
<1> DEFINE Good(E) == E \subseteq R[E] /\ R[E] \in SUBSET L /\ F[R[E]] = R[E]
           Bad     == {E \in SUBSET L : ~ Good(E)}
           Missing(E) == Cardinality(L) - Cardinality(E)
<1> SUFFICES ASSUME Bad # {} PROVE FALSE
  OBVIOUS
<1>a. /\ F \in [SUBSET L -> SUBSET L] /\ \A E \in SUBSET L : E \subseteq F[E]
      /\ \A E \in SUBSET L : R[E] = IF F[E] = E THEN E ELSE R[F[E]]
  BY DEF Ascends, GoesOn
<1>1. \A E \in SUBSET L : IsFiniteSet(E) /\ Missing(E) \in Nat
  BY FS_Subset, FS_CardinalityType
<1>2. PICK E \in Bad : \A D \in Bad : Missing(E) <= Missing(D)
  <2> DEFINE T == {Missing(E) : E \in Bad}
  <2>1. T \in SUBSET Nat /\ T # {}
    BY <1>1
  <2> HIDE DEF Bad, Missing
  <2>2. \E n \in T : \A l \in T : n <= l
    BY <2>1, Least
  <2> QED
    BY <2>2
<1>3. E \in SUBSET L /\ F[E] \in SUBSET L /\ E \subseteq F[E] /\ ~ Good(E)
  BY <1>a
<1>4. F[E] # E
  BY <1>a
<1>5. Cardinality(E) < Cardinality(F[E])
  <2>1. IsFiniteSet(F[E]) /\ E \subseteq F[E] /\ IsFiniteSet(E)
    BY <1>1, <1>3
  <2> QED
    BY <1>4, <2>1, FS_Subset, FS_CardinalityType
<1>6. Missing(F[E]) < Missing(E)
  BY <1>1, <1>3, <1>5, FS_CardinalityType
<1>7. Good(F[E])
  <2>1. F[E] \notin Bad
    <3> HIDE DEF Bad
    <3> QED
      BY <1>1, <1>2, <1>3, <1>6
  <2> QED
    BY <1>3, <2>1
<1>8. R[E] = R[F[E]]
  BY <1>a, <1>3, <1>4
<1> QED
  BY <1>3, <1>7, <1>8

\* The recursion that takes it there is a function.
LEMMA AscentDefined ==
  ASSUME NEW L, NEW F, Ascends(L, F)
  PROVE  \E R : GoesOn(L, F, R)
<1> DEFINE Closed(E) == {C \in SUBSET L : E \subseteq C /\ F[C] \subseteq C}
           R == [E \in SUBSET L |-> {x \in L : \A C \in Closed(E) : x \in C}]
<1> USE DEF Ascends
<1>1. ASSUME NEW E \in SUBSET L PROVE R[E] = IF F[E] = E THEN E ELSE R[F[E]]
  <2>1. CASE F[E] = E
    <3>1. E \in Closed(E)
      BY <2>1
    <3> QED
      BY <2>1, <3>1
  <2>2. CASE F[E] # E
    <3>1. \A C \in SUBSET L : C \in Closed(E) <=> C \in Closed(F[E])
      OBVIOUS
    <3>2. Closed(E) = Closed(F[E]) /\ F[E] \in SUBSET L
      BY <3>1
    <3> HIDE DEF Closed
    <3> QED
      BY <2>2, <3>2
  <2> QED
    BY <2>1, <2>2
<1>2. R = [E \in SUBSET L |-> R[E]]
  OBVIOUS
<1> HIDE DEF R
<1>3. GoesOn(L, F, R)
  BY <1>1, <1>2 DEF GoesOn
<1> QED
  BY <1>3

-----------------------------------------------------------------------------
(***************************************************************************)
(* The invariant, of a machine in the middle of an instruction too.        *)
(***************************************************************************)

\* What is on the stack and in the tables.
StackIn(m, E) == \A i \in DOMAIN m.stack : Holds(m.stack[i]) \subseteq E
TableIn(m, t, E) == \A k \in Symbol : m.tables[t][k] # Null => Holds(m.tables[t][k]) \subseteq E
TablesIn(m, E) == \A t \in Table : m.tables[t] # Null => TableIn(m, t, E)

\* Nothing refers to an environment that is not there.
Linked(m) ==
  /\ \A e \in Live(m) :
       m.envs[e].parent \in Live(m) \cup {Null} /\ m.tables[m.envs[e].bindings] # Null
  /\ StackIn(m, Live(m)) /\ TablesIn(m, Live(m))

Coherent(m) ==
  \A e, f \in Live(m) :
    m.envs[e].bindings = m.envs[f].bindings => m.envs[e].parent = m.envs[f].parent

\* The parents lead outward: among any environments there is one whose parent is
\* none of them.
Grounded(m) == \A E \in SUBSET Live(m) : E # {} => \E e \in E : m.envs[e].parent \notin E

Sound(m) ==
  /\ m \in State
  /\ m.env \in Live(m)
  /\ m.depth = Len(m.stack)
  /\ Linked(m) /\ Coherent(m) /\ Grounded(m)

\* Nothing refers to the environment that runs.
Private(m) ==
  /\ StackIn(m, Env \ {m.env}) /\ TablesIn(m, Env \ {m.env})
  /\ \A e \in Live(m) : m.envs[e].parent # m.env

\* Environments go, and one that is no parent comes or is written again.
LEMMA StaysGrounded ==
  ASSUME NEW m, NEW n, NEW x, Grounded(m), Live(n) \subseteq Live(m) \cup {x},
         \A e \in Live(n) \ {x} : n.envs[e] = m.envs[e],
         \A e \in Live(m) : m.envs[e].parent # x, n.envs[x].parent # x
  PROVE  Grounded(n)
<1> SUFFICES ASSUME NEW E \in SUBSET Live(n), E # {}
             PROVE  \E e \in E : n.envs[e].parent \notin E
  BY DEF Grounded
<1>1. CASE E = {x}
  BY <1>1
<1>2. CASE E # {x}
  <2> DEFINE D == E \ {x}
  <2>1. D # {} /\ D \in SUBSET Live(m)
    BY <1>2
  <2>2. PICK e \in D : m.envs[e].parent \notin D
    BY <2>1 DEF Grounded
  <2> QED
    BY <2>1, <2>2
<1> QED
  BY <1>1, <1>2

LEMMA StateFields ==
  ASSUME NEW m \in State
  PROVE  /\ m.env \in Env /\ m.stack \in Seq(Value) /\ m.depth \in Nat
         /\ m.status \in {"running", "done", "aborted"}
         /\ m.thrown \in Env \cup {Null}
         /\ m.envs \in [Env -> Environment \cup {Null}]
         /\ m.tables \in [Table -> Bindings \cup {Null}]
         /\ \A e \in Live(m) : m.envs[e] \in Environment
         /\ \A t \in Table : m.tables[t] # Null => m.tables[t] \in Bindings
  BY DEF State, Live

\* The environments that values and tables lead to.
LEMMA CapturedIn ==
  ASSUME NEW m, NEW T \in SUBSET Table, NEW E, StackIn(m, E), \A t \in T : TableIn(m, t, E)
  PROVE  Captured(m, T) \subseteq E
  BY DEF Captured, Values, StackIn, TableIn

LEMMA InCaptured ==
  ASSUME NEW m, NEW T \in SUBSET Table
  PROVE  StackIn(m, Captured(m, T)) /\ \A t \in T : TableIn(m, t, Captured(m, T))
  BY DEF Captured, Values, StackIn, TableIn

LEMMA CapturedGrows ==
  ASSUME NEW m, NEW S \in SUBSET Table, NEW T \in SUBSET Table, S \subseteq T
  PROVE  Captured(m, S) \subseteq Captured(m, T)
<1>1. \A t \in S : TableIn(m, t, Captured(m, T))
  BY InCaptured
<1> QED
  BY <1>1, InCaptured, CapturedIn

\* What is reached from there is there, and so is all it refers to.
LEMMA Reached ==
  ASSUME NEW m, Sound(m)
  PROVE  /\ LiveEnvs(m) \in SUBSET Live(m) /\ m.env \in LiveEnvs(m)
         /\ Referred(m, LiveEnvs(m)) \subseteq LiveEnvs(m)
<1> DEFINE L == Live(m)
           F == [E \in SUBSET L |-> Referred(m, E)]
<1>1. Null \notin Env /\ IsFiniteSet(Env)
  BY VMAssumption
<1>2. L \subseteq Env /\ IsFiniteSet(L) /\ Null \notin L /\ m.env \in L
  BY <1>1, FS_Subset DEF Live, Sound
<1>3. \A E \in SUBSET L : TablesOf(m, E) \in SUBSET Table
  BY <1>2, StateFields DEF Sound, TablesOf, Environment
<1>4. \A E \in SUBSET L : Captured(m, TablesOf(m, E)) \subseteq L
  <2> SUFFICES ASSUME NEW E \in SUBSET L PROVE Captured(m, TablesOf(m, E)) \subseteq L
    OBVIOUS
  <2>1. TablesOf(m, E) \in SUBSET Table
    BY <1>3
  <2>2. \A t \in TablesOf(m, E) : m.tables[t] # Null
    BY DEF Sound, Linked, TablesOf
  <2>3. StackIn(m, L) /\ \A t \in TablesOf(m, E) : TableIn(m, t, L)
    BY <2>1, <2>2 DEF Sound, Linked, TablesIn
  <2> HIDE DEF L
  <2> QED
    BY <2>1, <2>3, CapturedIn
<1>5. \A E \in SUBSET L : Referred(m, E) \in SUBSET L /\ E \subseteq Referred(m, E)
  BY <1>2, <1>4 DEF Referred, Sound, Linked
<1>6. \A D, E \in SUBSET L : D \subseteq E => Referred(m, D) \subseteq Referred(m, E)
  <2> SUFFICES ASSUME NEW D \in SUBSET L, NEW E \in SUBSET L, D \subseteq E
               PROVE  Referred(m, D) \subseteq Referred(m, E)
    OBVIOUS
  <2>1. TablesOf(m, D) \subseteq TablesOf(m, E)
    BY DEF TablesOf
  <2>2. Captured(m, TablesOf(m, D)) \subseteq Captured(m, TablesOf(m, E))
    BY <1>3, <2>1, CapturedGrows
  <2> QED
    BY <2>2 DEF Referred
<1> HIDE DEF L
<1>7. Ascends(L, F)
  BY <1>5, <1>6 DEF Ascends
<1>8. \E R : R = [E \in SUBSET L |-> IF Referred(m, E) = E THEN E ELSE R[Referred(m, E)]]
  <2> HIDE DEF F
  <2>1. PICK R : GoesOn(L, F, R)
    BY <1>7, AscentDefined
  <2> USE DEF F
  <2>2. R = [E \in SUBSET L |-> IF Referred(m, E) = E THEN E ELSE R[Referred(m, E)]]
    BY <2>1 DEF GoesOn
  <2> QED
    BY <2>2
<1> DEFINE R == CHOOSE R : R = [E \in SUBSET L |->
                                  IF Referred(m, E) = E THEN E ELSE R[Referred(m, E)]]
<1>9. R = [E \in SUBSET L |-> IF Referred(m, E) = E THEN E ELSE R[Referred(m, E)]]
  BY <1>8
<1>10. LiveEnvs(m) = R[{m.env}]
  BY DEF LiveEnvs, L
<1> HIDE DEF R
<1>11. GoesOn(L, F, R)
  BY <1>9 DEF GoesOn
<1>12. {m.env} \in SUBSET L
  BY <1>2
<1> HIDE DEF F
<1>13. {m.env} \subseteq R[{m.env}] /\ R[{m.env}] \in SUBSET L /\ F[R[{m.env}]] = R[{m.env}]
  <2>1. \A E \in SUBSET L : E \subseteq R[E] /\ R[E] \in SUBSET L /\ F[R[E]] = R[E]
    BY <1>2, <1>7, <1>11, Ascent
  <2> QED
    BY <1>12, <2>1
<1> QED
  BY <1>10, <1>13 DEF F, L

-----------------------------------------------------------------------------
(***************************************************************************)
(* The end of an instruction: what is not reached is gone.                 *)
(***************************************************************************)

LEMMA CollectFields ==
  ASSUME NEW m, Sound(m)
  PROVE  /\ Collect(m) \in State
         /\ Collect(m).env = m.env /\ Collect(m).stack = m.stack /\ Collect(m).depth = m.depth
         /\ Collect(m).status = m.status /\ Collect(m).thrown = m.thrown
         /\ Live(Collect(m)) = LiveEnvs(m)
         /\ \A e \in LiveEnvs(m) : Collect(m).envs[e] = m.envs[e]
         /\ \A t \in Table : IF t \in TablesOf(m, LiveEnvs(m))
                             THEN Collect(m).tables[t] = m.tables[t]
                             ELSE Collect(m).tables[t] = Null
<1> DEFINE E == LiveEnvs(m)
           T == TablesOf(m, E)
           es == [e \in Env |-> IF e \in E THEN m.envs[e] ELSE Null]
           ts == [t \in Table |-> IF t \in T THEN m.tables[t] ELSE Null]
<1>1. m \in State
  BY DEF Sound
<1>2. es \in [Env -> Environment \cup {Null}] /\ ts \in [Table -> Bindings \cup {Null}]
  BY <1>1, StateFields
<1>3. Collect(m) = [m EXCEPT !.envs = es, !.tables = ts]
  BY DEF Collect
<1>4. E \in SUBSET Live(m)
  BY Reached
<1> HIDE DEF E, T
<1>5. \A e \in Env : (e \in E => es[e] = m.envs[e] /\ es[e] # Null) /\ (e \notin E => es[e] = Null)
  BY <1>4 DEF Live
<1>6. \A t \in Table : IF t \in T THEN ts[t] = m.tables[t] ELSE ts[t] = Null
  OBVIOUS
<1> HIDE DEF es, ts
<1>7. /\ Collect(m) \in State /\ Collect(m).envs = es /\ Collect(m).tables = ts
      /\ Collect(m).env = m.env /\ Collect(m).stack = m.stack /\ Collect(m).depth = m.depth
      /\ Collect(m).status = m.status /\ Collect(m).thrown = m.thrown
  BY <1>1, <1>2, <1>3 DEF State
<1>8. Live(Collect(m)) = E
  BY <1>4, <1>5, <1>7 DEF Live
<1>9. \A e \in E : Collect(m).envs[e] = m.envs[e]
  BY <1>4, <1>5, <1>7 DEF Live
<1> QED
  BY <1>6, <1>7, <1>8, <1>9 DEF E, T

LEMMA Collected ==
  ASSUME NEW m, Sound(m)
  PROVE  Sound(Collect(m)) /\ (Private(m) => Private(Collect(m)))
<1> DEFINE c == Collect(m)
           E == LiveEnvs(m)
           T == TablesOf(m, E)
<1>1. /\ c \in State /\ c.env = m.env /\ c.stack = m.stack /\ c.depth = m.depth
      /\ Live(c) = E /\ \A e \in E : c.envs[e] = m.envs[e]
      /\ \A t \in Table : IF t \in T THEN c.tables[t] = m.tables[t] ELSE c.tables[t] = Null
  BY CollectFields
<1>2. E \in SUBSET Live(m) /\ m.env \in E /\ Referred(m, E) \subseteq E
  BY Reached
<1>3. m \in State /\ T \in SUBSET Table
  BY <1>2, StateFields DEF Sound, TablesOf, Environment
<1>4. Null \notin Env
  BY VMAssumption
<1> HIDE DEF c, E
<1>5. Captured(m, T) \subseteq Env /\ Captured(m, T) \subseteq E \cup {Null}
  <2>1. StackIn(m, Live(m)) /\ \A t \in T : TableIn(m, t, Live(m))
    BY <1>2, <1>3 DEF Sound, Linked, TablesIn, TablesOf
  <2> HIDE DEF T
  <2>2. Captured(m, T) \subseteq Live(m)
    BY <1>3, <2>1, CapturedIn
  <2> USE DEF T
  <2> QED
    BY <1>2, <2>2 DEF Live, Referred
<1>6. Captured(m, T) \subseteq E
  BY <1>4, <1>5
<1>7. StackIn(m, E) /\ \A t \in T : TableIn(m, t, E)
  <2>1. StackIn(m, Captured(m, T)) /\ \A t \in T : TableIn(m, t, Captured(m, T))
    BY <1>3, InCaptured
  <2> HIDE DEF T
  <2> QED
    BY <1>6, <2>1 DEF StackIn, TableIn
<1>8. \A e \in E : m.envs[e].parent \in E \cup {Null} /\ m.envs[e].bindings \in T
  BY <1>2 DEF Referred, TablesOf
<1>9. \A t \in T : t \in Table /\ c.tables[t] = m.tables[t] /\ m.tables[t] # Null
  BY <1>1, <1>2, <1>3 DEF TablesOf, Sound, Linked
<1> HIDE DEF T
<1>10. Linked(c)
  <2>1. StackIn(c, Live(c))
    BY <1>1, <1>7 DEF StackIn
  <2>2. TablesIn(c, Live(c))
    BY <1>1, <1>3, <1>7, <1>9 DEF TablesIn, TableIn
  <2> QED
    BY <1>1, <1>8, <1>9, <2>1, <2>2 DEF Linked
<1>11. Coherent(c)
  BY <1>1, <1>2 DEF Coherent, Sound
<1>12. Sound(c)
  <2>1. Grounded(c)
    BY <1>1, <1>2 DEF Sound, Grounded
  <2> QED
    BY <1>1, <1>2, <1>10, <1>11, <2>1 DEF Sound
<1>13. ASSUME Private(m) PROVE Private(c)
  <2>1. StackIn(c, Env \ {c.env})
    BY <1>1, <1>13 DEF Private, StackIn
  <2>2. TablesIn(c, Env \ {c.env})
    BY <1>1, <1>3, <1>9, <1>13 DEF Private, TablesIn, TableIn
  <2>3. \A e \in Live(c) : c.envs[e].parent # c.env
    BY <1>1, <1>2, <1>13 DEF Private
  <2> QED
    BY <2>1, <2>2, <2>3 DEF Private
<1> QED
  BY <1>12, <1>13 DEF c

-----------------------------------------------------------------------------
(***************************************************************************)
(* What the functions of the machine leave, field by field.                *)
(***************************************************************************)

\* n has another stack than m, and the like.
SameEnvs(m, n)   == n.env = m.env /\ n.envs = m.envs
SameStack(m, n)  == n.stack = m.stack /\ n.depth = m.depth
SameTables(m, n) == n.tables = m.tables

LEMMA PushFields ==
  ASSUME NEW m \in State, NEW v \in Value
  PROVE  /\ vm_push(m, v) \in State
         /\ SameEnvs(m, vm_push(m, v)) /\ SameTables(m, vm_push(m, v))
         /\ vm_push(m, v).stack = <<v>> \o m.stack /\ vm_push(m, v).depth = m.depth + 1
         /\ vm_push(m, v).status = m.status /\ vm_push(m, v).thrown = m.thrown
<1> DEFINE s == <<v>> \o m.stack
           d == m.depth + 1
<1>1. s \in Seq(Value) /\ d \in Nat
  BY StateFields
<1>2. vm_push(m, v) = [m EXCEPT !.stack = s, !.depth = d]
  BY DEF vm_push
<1> HIDE DEF s, d
<1>3. vm_push(m, v) \in State /\ vm_push(m, v).stack = s /\ vm_push(m, v).depth = d
  BY <1>1, <1>2 DEF State
<1>4. /\ vm_push(m, v).env = m.env /\ vm_push(m, v).envs = m.envs
      /\ vm_push(m, v).tables = m.tables
      /\ vm_push(m, v).status = m.status /\ vm_push(m, v).thrown = m.thrown
  BY <1>2 DEF State
<1> QED
  BY <1>3, <1>4 DEF s, d, SameEnvs, SameTables

LEMMA AbortFields ==
  ASSUME NEW m \in State
  PROVE  /\ Abort(m) \in State
         /\ SameEnvs(m, Abort(m)) /\ SameTables(m, Abort(m)) /\ SameStack(m, Abort(m))
         /\ Abort(m).status = "aborted" /\ Abort(m).thrown = m.thrown
  BY DEF Abort, State, SameEnvs, SameTables, SameStack

LEMMA PopFields ==
  ASSUME NEW m \in State, m.depth = Len(m.stack)
  PROVE  /\ vm_pop(m) \in State
         /\ SameEnvs(m, vm_pop(m)) /\ SameTables(m, vm_pop(m)) /\ vm_pop(m).thrown = m.thrown
         /\ IF m.stack = <<>> THEN vm_pop(m).stack = m.stack /\ vm_pop(m).status = "aborted"
                                   /\ vm_pop(m).depth = m.depth
            ELSE /\ vm_pop(m).stack = Tail(m.stack) /\ vm_pop(m).status = m.status
                 /\ vm_pop(m).depth = m.depth - 1
<1>1. CASE m.stack = <<>>
  BY <1>1, AbortFields DEF vm_pop, SameStack
<1>2. CASE m.stack # <<>>
  <2> DEFINE s == Tail(m.stack)
             d == m.depth - 1
  <2>1. s \in Seq(Value) /\ d \in Nat
    BY <1>2, StateFields
  <2>2. vm_pop(m) = [m EXCEPT !.stack = s, !.depth = d]
    BY <1>2 DEF vm_pop
  <2> HIDE DEF s, d
  <2>3. /\ vm_pop(m) \in State /\ vm_pop(m).stack = s /\ vm_pop(m).depth = d
    BY <2>1, <2>2 DEF State
  <2>4. /\ vm_pop(m).env = m.env /\ vm_pop(m).envs = m.envs /\ vm_pop(m).tables = m.tables
        /\ vm_pop(m).status = m.status /\ vm_pop(m).thrown = m.thrown
    BY <2>2 DEF State
  <2> QED
    BY <1>2, <2>3, <2>4 DEF s, d, SameEnvs, SameTables
<1> QED
  BY <1>1, <1>2

\* The value on top is one, and of those the machine has.
LEMMA TopValue ==
  ASSUME NEW m, Sound(m)
  PROVE  /\ Top(m) \in Value /\ Holds(Top(m)) \subseteq Live(m)
         /\ Private(m) => m.env \notin Holds(Top(m))
<1>1. m.stack \in Seq(Value)
  BY StateFields DEF Sound
<1>2. CASE m.stack = <<>>
  <2>1. Top(m) = Number(0)
    BY <1>2 DEF Top
  <2> QED
    BY <2>1, HoldsOfKinds DEF Value, Literals
<1>3. CASE m.stack # <<>>
  <2>1. 1 \in DOMAIN m.stack /\ Top(m) = m.stack[1] /\ m.stack[1] \in Value
    BY <1>1, <1>3 DEF Top
  <2> QED
    BY <2>1 DEF Sound, Linked, StackIn, Private
<1> QED
  BY <1>2, <1>3

(***************************************************************************)
(* An instruction that has not ended: m is sound, it has left alone what   *)
(* was there as the instruction started, but for the environment that ran, *)
(* and it can make k more environments.                                    *)
(***************************************************************************)

Kept(m) ==
  /\ \A e \in Live(vm) : e \in Live(m) /\ (e # vm.env => m.envs[e] = vm.envs[e])
  /\ m.env = vm.env \/ m.env \notin Live(vm)

Spare(m) == {e \in Env : m.envs[e] = Null}

Mid(m, k) == Sound(m) /\ Kept(m) /\ Cardinality(Spare(m)) >= k

\* The stack and the status say nothing about environments.
LEMMA StackChanged ==
  ASSUME NEW m, NEW k, Mid(m, k), NEW n \in State, SameEnvs(m, n), SameTables(m, n),
         n.depth = Len(n.stack), StackIn(n, Live(m))
  PROVE  /\ Mid(n, k) /\ Live(n) = Live(m)
         /\ Private(m) /\ StackIn(n, Env \ {m.env}) => Private(n)
<1>1. Live(n) = Live(m) /\ Spare(n) = Spare(m)
  BY DEF Live, Spare, SameEnvs
<1>2. Linked(n) /\ Coherent(n) /\ Grounded(n)
  BY <1>1 DEF Mid, Sound, Linked, Coherent, Grounded, TablesIn, TableIn, SameEnvs, SameTables
<1>3. Kept(n)
  BY <1>1 DEF Mid, Kept, SameEnvs
<1>4. Private(m) /\ StackIn(n, Env \ {m.env}) => Private(n)
  BY <1>1 DEF Private, TablesIn, TableIn, SameEnvs, SameTables
<1> QED
  BY <1>1, <1>2, <1>3, <1>4 DEF Mid, Sound, SameEnvs

LEMMA Pushed ==
  ASSUME NEW m, NEW k, Mid(m, k), NEW v \in Value, Holds(v) \subseteq Live(m)
  PROVE  /\ Mid(vm_push(m, v), k) /\ Live(vm_push(m, v)) = Live(m)
         /\ Private(m) /\ m.env \notin Holds(v) => Private(vm_push(m, v))
<1> DEFINE n == vm_push(m, v)
<1>1. m \in State /\ m.stack \in Seq(Value) /\ StackIn(m, Live(m)) /\ m.depth = Len(m.stack)
  BY StateFields DEF Mid, Sound, Linked
<1>2. n \in State /\ SameEnvs(m, n) /\ SameTables(m, n)
  BY <1>1, PushFields
<1>3. n.stack = <<v>> \o m.stack /\ n.depth = m.depth + 1
  BY <1>1, PushFields
<1> HIDE DEF n
<1>4. n.depth = Len(n.stack)
  BY <1>1, <1>3
<1>5. \A i \in DOMAIN n.stack : n.stack[i] = v \/ \E j \in DOMAIN m.stack : n.stack[i] = m.stack[j]
  BY <1>1, <1>3
<1>6. StackIn(n, Live(m))
  BY <1>1, <1>5 DEF StackIn
<1>7. Private(m) /\ m.env \notin Holds(v) => StackIn(n, Env \ {m.env})
  BY <1>5, ValuesHoldEnvs DEF Private, StackIn
<1> QED
  BY <1>2, <1>4, <1>6, <1>7, StackChanged DEF n

LEMMA Popped ==
  ASSUME NEW m, NEW k, Mid(m, k)
  PROVE  /\ Mid(vm_pop(m), k) /\ Live(vm_pop(m)) = Live(m)
         /\ Private(m) => Private(vm_pop(m))
<1> DEFINE n == vm_pop(m)
<1>1. m \in State /\ m.stack \in Seq(Value) /\ StackIn(m, Live(m)) /\ m.depth = Len(m.stack)
  BY StateFields DEF Mid, Sound, Linked
<1>2. n \in State /\ SameEnvs(m, n) /\ SameTables(m, n)
  BY <1>1, PopFields
<1>3. IF m.stack = <<>> THEN n.stack = m.stack /\ n.depth = m.depth
      ELSE n.stack = Tail(m.stack) /\ n.depth = m.depth - 1
  BY <1>1, PopFields
<1> HIDE DEF n
<1>4. /\ n.depth = Len(n.stack)
      /\ \A i \in DOMAIN n.stack : \E j \in DOMAIN m.stack : n.stack[i] = m.stack[j]
  <2>1. CASE m.stack = <<>>
    BY <1>1, <1>3, <2>1
  <2>2. CASE m.stack # <<>>
    <3>1. n.stack = Tail(m.stack) /\ n.depth = m.depth - 1
      BY <1>3, <2>2
    <3>2. Len(n.stack) = Len(m.stack) - 1 /\ DOMAIN n.stack = 1..(Len(m.stack) - 1)
      BY <1>1, <2>2, <3>1
    <3>3. \A i \in DOMAIN n.stack : i + 1 \in DOMAIN m.stack /\ n.stack[i] = m.stack[i + 1]
      BY <1>1, <2>2, <3>1
    <3> QED
      BY <1>1, <3>1, <3>2, <3>3
  <2> QED
    BY <2>1, <2>2
<1>5. \A i \in DOMAIN n.stack : \E j \in DOMAIN m.stack : n.stack[i] = m.stack[j]
  BY <1>4
<1>6. StackIn(n, Live(m))
  BY <1>1, <1>5 DEF StackIn
<1>7. Private(m) => StackIn(n, Env \ {m.env})
  BY <1>5 DEF Private, StackIn
<1> QED
  BY <1>2, <1>4, <1>6, <1>7, StackChanged DEF n

\* n is m but for the environment x, which is in the frame of f.
Written(m, n, x, f) ==
  /\ n \in State /\ x \in Env /\ f \in Live(m)
  /\ SameStack(m, n) /\ SameTables(m, n)
  /\ n.envs[x] \in Environment
  /\ n.envs[x].bindings = m.envs[f].bindings /\ n.envs[x].parent = m.envs[f].parent
  /\ \A e \in Env \ {x} : n.envs[e] = m.envs[e]

\* If no environment has it as its parent, what is sound stays so.
LEMMA WrittenSound ==
  ASSUME NEW m, NEW n, NEW x, NEW f, Sound(m), Written(m, n, x, f), n.env \in {m.env, x},
         \A e \in Live(m) : m.envs[e].parent # x
  PROVE  Sound(n) /\ Live(n) = Live(m) \cup {x}
<1>1. Null \notin Environment
  BY VMAssumption
<1>2. Live(n) = Live(m) \cup {x}
  BY <1>1 DEF Live, Written
<1>3. Linked(n)
  <2>1. \A e \in Live(n) :
          n.envs[e].parent \in Live(n) \cup {Null} /\ n.tables[n.envs[e].bindings] # Null
    BY <1>2 DEF Written, SameTables, Sound, Linked, Live
  <2>2. StackIn(n, Live(n))
    BY <1>2 DEF Written, SameStack, Sound, Linked, StackIn
  <2>3. TablesIn(n, Live(n))
    BY <1>2 DEF Written, SameTables, Sound, Linked, TablesIn, TableIn
  <2> QED
    BY <2>1, <2>2, <2>3 DEF Linked
<1>4. Coherent(n)
  BY <1>2 DEF Coherent, Written, Sound, Live
<1>5. Grounded(n)
  <2>1. n.envs[x].parent # x /\ \A e \in Live(n) \ {x} : n.envs[e] = m.envs[e]
    BY DEF Written, Live
  <2> QED
    BY <1>2, <2>1, StaysGrounded DEF Sound
<1> QED
  BY <1>2, <1>3, <1>4, <1>5 DEF Sound, Written, SameStack

\* What runs is written again.
LEMMA Renewed ==
  ASSUME NEW m, NEW k, Mid(m, k), Private(m), NEW n, NEW f,
         Written(m, n, m.env, f), n.env = m.env
  PROVE  Mid(n, k) /\ Private(n) /\ Live(n) = Live(m)
<1>1. Sound(n) /\ Live(n) = Live(m)
  <2>1. \A e \in Live(m) : m.envs[e].parent # m.env
    BY DEF Private
  <2>2. Sound(m) /\ m.env \in Live(m)
    BY DEF Mid, Sound
  <2> DEFINE x == m.env
  <2>3. n.env \in {m.env, x} /\ Written(m, n, x, f) /\ \A e \in Live(m) : m.envs[e].parent # x
    BY <2>1
  <2> HIDE DEF x
  <2>4. Sound(n) /\ Live(n) = Live(m) \cup {x}
    BY <2>2, <2>3, WrittenSound
  <2> QED
    BY <2>2, <2>4 DEF x
<1>2. Kept(n)
  BY <1>1 DEF Mid, Kept, Written, Live
<1>3. Spare(n) = Spare(m)
  BY <1>1 DEF Spare, Live
<1>4. \A e \in Live(n) : n.envs[e].parent # n.env
  BY <1>1 DEF Private, Written, Live
<1>5. Private(n)
  BY <1>4 DEF Private, StackIn, TablesIn, TableIn, Written, SameStack, SameTables
<1> QED
  BY <1>1, <1>2, <1>3, <1>5 DEF Mid

\* A new environment: nothing refers to it.
LEMMA Added ==
  ASSUME NEW m, NEW k \in Nat, Mid(m, k + 1), NEW n, NEW x, NEW f,
         Written(m, n, x, f), x \notin Live(m), n.env \in {m.env, x}
  PROVE  /\ Mid(n, k) /\ Live(n) = Live(m) \cup {x}
         /\ n.env = x \/ Private(m) => Private(n)
<1>1. Sound(n) /\ Live(n) = Live(m) \cup {x} /\ x \in Env
  <2>1. \A e \in Live(m) : m.envs[e].parent # x
    BY VMAssumption DEF Mid, Sound, Linked, Written
  <2>2. Sound(m)
    BY DEF Mid
  <2> QED
    BY <2>1, <2>2, WrittenSound DEF Written
<1>2. Kept(n)
  BY <1>1 DEF Mid, Kept, Written, Live
<1>3. Cardinality(Spare(n)) >= k
  <2>1. Spare(n) = Spare(m) \ {x} /\ x \in Spare(m)
    BY <1>1 DEF Spare, Live
  <2>2. IsFiniteSet(Spare(m))
    BY VMAssumption, FS_Subset DEF Spare
  <2>3. Cardinality(Spare(n)) = Cardinality(Spare(m)) - 1 /\ Cardinality(Spare(m)) \in Nat
    BY <2>1, <2>2, FS_RemoveElement, FS_CardinalityType
  <2> QED
    BY <2>3 DEF Mid
<1>4. ASSUME n.env = x PROVE Private(n)
  <2>1. StackIn(n, Env \ {x})
    BY <1>1 DEF Written, SameStack, StackIn, Mid, Sound, Linked, Live
  <2>2. TablesIn(n, Env \ {x})
    BY <1>1 DEF Written, SameTables, TablesIn, TableIn, Mid, Sound, Linked, Live
  <2>3. \A e \in Live(n) : n.envs[e].parent # x
    BY <1>1, VMAssumption DEF Written, Mid, Sound, Linked, Live
  <2> QED
    BY <1>4, <2>1, <2>2, <2>3 DEF Private
<1>5. ASSUME n.env = m.env, Private(m) PROVE Private(n)
  <2>1. \A e \in Live(n) : n.envs[e].parent # n.env
    BY <1>1, <1>5 DEF Private, Written, Live
  <2> QED
    BY <1>5, <2>1 DEF Private, StackIn, TablesIn, TableIn, Written, SameStack, SameTables
<1> QED
  BY <1>1, <1>2, <1>3, <1>4, <1>5 DEF Mid

\* There is an address for it.
LEMMA NewEnvFree ==
  ASSUME NEW m, NEW k \in Nat, Mid(m, k + 1)
  PROVE  NewEnv(m) \in Env /\ m.envs[NewEnv(m)] = Null /\ NewEnv(m) \notin Live(m)
<1>1. Cardinality(Spare(m)) # 0
  <2>1. Cardinality(Spare(m)) >= k + 1
    BY DEF Mid
  <2> QED
    BY <2>1
<1>2. Spare(m) # {}
  BY <1>1, FS_EmptySet
<1>3. \E e \in Env : m.envs[e] = Null
  BY <1>2 DEF Spare
<1> QED
  BY <1>3 DEF NewEnv, Live

(***************************************************************************)
(* Environments that are made and written.                                 *)
(***************************************************************************)

\* n has other environments than m, or another one runs.
LEMMA EnvsFields ==
  ASSUME NEW m \in State, NEW es \in [Env -> Environment \cup {Null}]
  PROVE  LET n == [m EXCEPT !.envs = es] IN
         /\ n \in State /\ n.envs = es /\ n.env = m.env
         /\ SameStack(m, n) /\ SameTables(m, n) /\ n.status = m.status /\ n.thrown = m.thrown
  BY DEF State, SameStack, SameTables

LEMMA EnvFields ==
  ASSUME NEW m \in State, NEW e \in Env
  PROVE  LET n == [m EXCEPT !.env = e] IN
         /\ n \in State /\ n.envs = m.envs /\ n.env = e
         /\ SameStack(m, n) /\ SameTables(m, n) /\ n.status = m.status /\ n.thrown = m.thrown
  BY DEF State, SameStack, SameTables

LEMMA CloneFields ==
  ASSUME NEW m \in State, NEW x \in Env, NEW f \in Live(m)
  PROVE  /\ Written(m, clone_env(m, x, f), x, f) /\ clone_env(m, x, f).env = m.env
         /\ clone_env(m, x, f).envs = [m.envs EXCEPT ![x] = m.envs[f]]
         /\ clone_env(m, x, f).envs[x] = m.envs[f]
         /\ clone_env(m, x, f).status = m.status /\ clone_env(m, x, f).thrown = m.thrown
<1> DEFINE es == [m.envs EXCEPT ![x] = m.envs[f]]
<1>1. m.envs \in [Env -> Environment \cup {Null}] /\ m.envs[f] \in Environment
  BY StateFields
<1>2. es \in [Env -> Environment \cup {Null}] /\ es[x] = m.envs[f]
      /\ \A e \in Env \ {x} : es[e] = m.envs[e]
  BY <1>1
<1>3. clone_env(m, x, f) = [m EXCEPT !.envs = es]
  BY DEF clone_env
<1> HIDE DEF es
<1>4. LET n == [m EXCEPT !.envs = es] IN
      /\ n \in State /\ n.envs = es /\ n.env = m.env
      /\ SameStack(m, n) /\ SameTables(m, n) /\ n.status = m.status /\ n.thrown = m.thrown
  BY <1>2, EnvsFields
<1>5. /\ clone_env(m, x, f) \in State /\ clone_env(m, x, f).envs = es
      /\ clone_env(m, x, f).env = m.env
      /\ SameStack(m, clone_env(m, x, f)) /\ SameTables(m, clone_env(m, x, f))
      /\ clone_env(m, x, f).status = m.status /\ clone_env(m, x, f).thrown = m.thrown
  BY <1>3, <1>4
<1> QED
  BY <1>1, <1>2, <1>5 DEF Written, es

\* vm->env is replaced by a clone.
LEMMA Entered ==
  ASSUME NEW m, NEW k \in Nat, Mid(m, k + 1), NEW e \in Live(m)
  PROVE  /\ Mid(Enter(m, e), k) /\ Private(Enter(m, e))
         /\ Live(m) \subseteq Live(Enter(m, e))
         /\ Enter(m, e).env \notin Live(m)
         /\ Enter(m, e).envs[Enter(m, e).env] = m.envs[e]
         /\ \A f \in Live(m) : Enter(m, e).envs[f] = m.envs[f]
         /\ SameStack(m, Enter(m, e)) /\ SameTables(m, Enter(m, e))
         /\ Enter(m, e).status = m.status /\ Enter(m, e).thrown = m.thrown
<1> DEFINE x == NewEnv(m)
           c == clone_env(m, x, e)
           n == [c EXCEPT !.env = x]
<1>1. x \in Env /\ x \notin Live(m) /\ m \in State
  BY NewEnvFree DEF Mid, Sound
<1>2. Enter(m, e) = n
  BY DEF Enter
<1> HIDE DEF x
<1>3. /\ Written(m, c, x, e) /\ c.env = m.env /\ c.envs[x] = m.envs[e]
      /\ c.status = m.status /\ c.thrown = m.thrown
  BY ZenonT(30), <1>1, CloneFields
<1> HIDE DEF c
<1>4. c \in State
  BY <1>3 DEF Written
<1>5. /\ n \in State /\ n.envs = c.envs /\ n.env = x
      /\ SameStack(c, n) /\ SameTables(c, n) /\ n.status = c.status /\ n.thrown = c.thrown
  BY <1>1, <1>4, EnvFields
<1> HIDE DEF n
<1>6. Written(m, n, x, e)
  BY <1>3, <1>5 DEF Written, SameStack, SameTables
<1>7. Mid(n, k) /\ Live(n) = Live(m) \cup {x} /\ Private(n)
  BY <1>1, <1>5, <1>6, Added
<1> QED
  BY <1>1, <1>2, <1>3, <1>5, <1>6, <1>7 DEF Written, Live

\* What runs goes on elsewhere, or with a handler.
Resumed(m, n) ==
  /\ n.env = m.env /\ Written(m, n, m.env, m.env)
  /\ n.status = m.status /\ n.thrown = m.thrown

LEMMA ResumedSound ==
  ASSUME NEW m, NEW k, Mid(m, k), Private(m), NEW n, Resumed(m, n)
  PROVE  Mid(n, k) /\ Private(n) /\ Live(n) = Live(m)
<1>1. m.env \in Live(m)
  BY DEF Mid, Sound
<1> QED
  BY <1>1, Renewed DEF Resumed

LEMMA EnvironmentWritten ==
  ASSUME NEW m, Sound(m), NEW r \in Environment,
         r.bindings = Current(m).bindings, r.parent = Current(m).parent
  PROVE  Resumed(m, [m EXCEPT !.envs = [m.envs EXCEPT ![m.env] = r]])
<1> DEFINE es == [m.envs EXCEPT ![m.env] = r]
           n  == [m EXCEPT !.envs = es]
<1>1. m \in State /\ m.env \in Live(m) /\ m.env \in Env
  BY StateFields DEF Sound
<1>2. es \in [Env -> Environment \cup {Null}] /\ es[m.env] = r
      /\ \A e \in Env \ {m.env} : es[e] = m.envs[e]
  BY <1>1, StateFields
<1> HIDE DEF es
<1>3. /\ n \in State /\ n.envs = es /\ n.env = m.env
      /\ SameStack(m, n) /\ SameTables(m, n) /\ n.status = m.status /\ n.thrown = m.thrown
  BY <1>1, <1>2, EnvsFields
<1> HIDE DEF n
<1>4. Resumed(m, n)
  BY <1>1, <1>2, <1>3 DEF Resumed, Written, Current
<1> QED
  BY <1>4 DEF n, es

LEMMA Gone ==
  ASSUME NEW m, Sound(m), NEW a \in Nat
  PROVE  Resumed(m, Goto(m, a))
<1> DEFINE r == [Current(m) EXCEPT !.ip = a]
<1>1. Current(m) \in Environment
  BY StateFields DEF Sound, Current
<1>2. /\ r \in Environment /\ r.bindings = Current(m).bindings /\ r.parent = Current(m).parent
  BY <1>1 DEF Environment
<1>3. Goto(m, a) = [m EXCEPT !.envs = [m.envs EXCEPT ![m.env] = r]]
  BY DEF Goto, Current
<1> HIDE DEF r
<1> QED
  BY <1>2, <1>3, EnvironmentWritten

\* A child: it has a table of its own, which is empty.
Free(m) == {t \in Table : m.tables[t] = Null}

LEMMA PushEnvFields ==
  ASSUME NEW m \in State, m.env \in Live(m), NewEnv(m) \in Env, Free(m) # {}
  PROVE  LET n == push_env(m)
             x == NewEnv(m)
             t == NewTable(m)
         IN  /\ n \in State /\ n.env = x /\ SameStack(m, n)
             /\ n.status = m.status /\ n.thrown = m.thrown
             /\ n.envs[x] \in Environment /\ n.envs[x].bindings = t
             /\ n.envs[x].parent = m.env
             /\ \A e \in Env \ {x} : n.envs[e] = m.envs[e]
             /\ t \in Table /\ m.tables[t] = Null /\ n.tables[t] \in Bindings
             /\ \A k \in Symbol : n.tables[t][k] = Null
             /\ \A u \in Table \ {t} : n.tables[u] = m.tables[u]
<1> DEFINE n  == push_env(m)
           x  == NewEnv(m)
           t  == NewTable(m)
           p  == m.envs[m.env]
           r  == [code |-> p.code, length |-> p.length, ip |-> p.ip, bindings |-> t,
                  handler |-> FALSE, handler_addr |-> 0, parent |-> m.env]
           b  == [k \in Symbol |-> Null]
           es == [m.envs EXCEPT ![x] = r]
           ts == [m.tables EXCEPT ![t] = b]
<1>1. t \in Table /\ m.tables[t] = Null
  BY DEF NewTable, Free
<1>2. m.env \in Env /\ m.env # Null /\ p \in Environment
  BY StateFields, VMAssumption
<1>3. n = [m EXCEPT !.tables = ts, !.envs = es, !.env = x]
  BY <1>2 DEF push_env
<1> HIDE DEF t, x
<1>4. b \in Bindings /\ \A k \in Symbol : b[k] = Null
  BY DEF Bindings
<1> HIDE DEF b
<1>5. /\ ts \in [Table -> Bindings \cup {Null}] /\ ts[t] = b
      /\ \A u \in Table \ {t} : ts[u] = m.tables[u]
  BY <1>1, <1>4, StateFields
<1> HIDE DEF ts
<1>6. r \in Environment /\ r.bindings = t /\ r.parent = m.env
  BY <1>1, <1>2 DEF Environment
<1> HIDE DEF r
<1>7. /\ es \in [Env -> Environment \cup {Null}] /\ es[x] = r
      /\ \A e \in Env \ {x} : es[e] = m.envs[e]
  BY <1>6, StateFields DEF x
<1> HIDE DEF es
<1>8. /\ n \in State /\ n.env = x /\ n.envs = es /\ n.tables = ts
      /\ n.stack = m.stack /\ n.depth = m.depth /\ n.status = m.status /\ n.thrown = m.thrown
  BY <1>3, <1>5, <1>7 DEF State, x
<1> HIDE DEF n
<1>9. /\ n \in State /\ n.env = x /\ SameStack(m, n)
      /\ n.status = m.status /\ n.thrown = m.thrown
      /\ n.envs[x] \in Environment /\ n.envs[x].bindings = t /\ n.envs[x].parent = m.env
      /\ \A e \in Env \ {x} : n.envs[e] = m.envs[e]
  BY <1>6, <1>7, <1>8 DEF SameStack
<1>10. /\ t \in Table /\ m.tables[t] = Null /\ n.tables[t] \in Bindings
       /\ \A k \in Symbol : n.tables[t][k] = Null
       /\ \A u \in Table \ {t} : n.tables[u] = m.tables[u]
  BY <1>1, <1>4, <1>5, <1>8
<1> QED
  BY <1>9, <1>10 DEF n, x, t

LEMMA Nested ==
  ASSUME NEW m, NEW k \in Nat, Mid(m, k + 1), Free(m) # {}
  PROVE  /\ Mid(push_env(m), k) /\ Private(push_env(m))
         /\ Live(m) \subseteq Live(push_env(m)) /\ SameStack(m, push_env(m))
         /\ push_env(m).status = m.status /\ push_env(m).thrown = m.thrown
<1> DEFINE n == push_env(m)
           x == NewEnv(m)
           t == NewTable(m)
<1>1. x \in Env /\ x \notin Live(m) /\ m \in State /\ m.env \in Live(m)
  BY NewEnvFree DEF Mid, Sound
<1>2. /\ n \in State /\ n.env = x /\ SameStack(m, n)
      /\ n.status = m.status /\ n.thrown = m.thrown
      /\ n.envs[x] \in Environment /\ n.envs[x].bindings = t /\ n.envs[x].parent = m.env
      /\ \A e \in Env \ {x} : n.envs[e] = m.envs[e]
      /\ t \in Table /\ m.tables[t] = Null /\ n.tables[t] \in Bindings
      /\ \A s \in Symbol : n.tables[t][s] = Null
      /\ \A u \in Table \ {t} : n.tables[u] = m.tables[u]
  BY <1>1, PushEnvFields
<1> HIDE DEF n, x, t
<1>3. Null \notin Env /\ Null \notin Environment /\ Null \notin Bindings
  BY VMAssumption
<1>4. Live(n) = Live(m) \cup {x}
  BY <1>1, <1>2, <1>3 DEF Live
<1>5. Sound(m) /\ Linked(m)
  BY DEF Mid, Sound
<1>6. \A e \in Live(m) : m.envs[e].bindings # t
  BY <1>2, <1>5 DEF Linked
<1>7. Linked(n)
  <2>1. \A e \in Live(m) : n.envs[e] = m.envs[e]
    BY <1>1, <1>2 DEF Live
  <2>2. \A e \in Live(m) : m.envs[e].bindings \in Table
    BY <1>1, StateFields DEF Environment
  <2>3. \A e \in Live(n) :
          n.envs[e].parent \in Live(n) \cup {Null} /\ n.tables[n.envs[e].bindings] # Null
    BY <1>1, <1>2, <1>3, <1>4, <1>5, <1>6, <2>1, <2>2 DEF Linked
  <2>4. StackIn(n, Live(n))
    BY <1>2, <1>4, <1>5 DEF Linked, StackIn, SameStack
  <2>5. TablesIn(n, Live(n))
    BY <1>2, <1>4, <1>5 DEF Linked, TablesIn, TableIn
  <2> QED
    BY <2>3, <2>4, <2>5 DEF Linked
<1>8. Coherent(n)
  BY <1>1, <1>2, <1>4, <1>5, <1>6 DEF Coherent, Sound, Live
<1>9. Sound(n)
  <2>1. Grounded(n)
    <3>1. /\ n.envs[x].parent # x /\ \A e \in Live(n) \ {x} : n.envs[e] = m.envs[e]
          /\ \A e \in Live(m) : m.envs[e].parent # x
      BY <1>1, <1>2, <1>3, <1>5 DEF Live, Linked, Sound
    <3> QED
      BY <1>4, <1>5, <3>1, StaysGrounded DEF Sound
  <2> QED
    BY <1>2, <1>4, <1>5, <1>7, <1>8, <2>1 DEF Sound, SameStack
<1>10. Private(n)
  <2>1. StackIn(n, Env \ {n.env})
    BY <1>1, <1>2, <1>5 DEF Linked, StackIn, SameStack, Live
  <2>2. TablesIn(n, Env \ {n.env})
    BY <1>1, <1>2, <1>5 DEF Linked, TablesIn, TableIn, Live
  <2>3. \A e \in Live(n) : n.envs[e].parent # n.env
    BY <1>1, <1>2, <1>3, <1>4, <1>5 DEF Linked, Live
  <2> QED
    BY <2>1, <2>2, <2>3 DEF Private
<1>11. Kept(n)
  BY <1>1, <1>2, <1>4 DEF Mid, Kept, Live
<1>12. Cardinality(Spare(n)) >= k
  <2>1. Spare(n) = Spare(m) \ {x} /\ x \in Spare(m)
    BY <1>1, <1>4 DEF Spare, Live
  <2>2. IsFiniteSet(Spare(m))
    BY VMAssumption, FS_Subset DEF Spare
  <2>3. Cardinality(Spare(n)) = Cardinality(Spare(m)) - 1 /\ Cardinality(Spare(m)) \in Nat
    BY <2>1, <2>2, FS_RemoveElement, FS_CardinalityType
  <2> QED
    BY <2>3 DEF Mid
<1> QED
  BY <1>2, <1>4, <1>9, <1>10, <1>11, <1>12 DEF Mid, n

(***************************************************************************)
(* The search outward.                                                     *)
(***************************************************************************)

\* A function of the first n numbers that starts at a and goes on with G.
Iterates(f, n, S, a, G) ==
  f \in [0..n -> S] /\ f[0] = a /\ \A i \in 1..n : f[i] = G[f[i - 1]]

LEMMA Iterated ==
  ASSUME NEW S, NEW a \in S, NEW G \in [S -> S], NEW N \in Nat
  PROVE  \E f : Iterates(f, N, S, a, G)
<1> DEFINE Without == {n \in Nat : ~ \E f : Iterates(f, n, S, a, G)}
<1>1. ASSUME Without # {} PROVE FALSE
  <2>1. PICK n \in Without : \A l \in Without : n <= l
    <3> HIDE DEF Without
    <3>1. Without \in SUBSET Nat
      BY DEF Without
    <3> QED
      BY <1>1, <3>1, Least
  <2>2. CASE n = 0
    <3>1. Iterates([i \in 0..0 |-> a], 0, S, a, G)
      BY DEF Iterates
    <3> QED
      BY <2>2, <3>1
  <2>3. CASE n # 0
    <3>1. n - 1 \in Nat /\ n - 1 \notin Without
      BY <2>1, <2>3
    <3>2. PICK f : Iterates(f, n - 1, S, a, G)
      BY <3>1
    <3> DEFINE g == [i \in 0..n |-> IF i = n THEN G[f[n - 1]] ELSE f[i]]
    <3>3. f[n - 1] \in S /\ \A i \in 0..(n - 1) : g[i] = f[i]
      BY <2>3, <3>1, <3>2 DEF Iterates
    <3>4. g[n] = G[f[n - 1]] /\ g[n] \in S
      BY <3>3
    <3>5. g \in [0..n -> S]
      BY <3>1, <3>2, <3>4 DEF Iterates
    <3> HIDE DEF g
    <3>6. \A i \in 1..n : g[i] = G[g[i - 1]]
      BY SMTT(30), <3>1, <3>2, <3>3, <3>4 DEF Iterates
    <3>7. g[0] = a
      BY <3>1, <3>2, <3>3 DEF Iterates
    <3> QED
      BY <3>5, <3>6, <3>7 DEF Iterates
  <2> QED
    BY <2>2, <2>3
<1> QED
  BY <1>1

\* The environments outward are there, as far as there are any.
LEMMA ChainLive ==
  ASSUME NEW m, Sound(m)
  PROVE  /\ DOMAIN Chain(m) = 0..Cardinality(Env)
         /\ Iterates(Chain(m), Cardinality(Env), Live(m) \cup {Null}, m.env,
                     [e \in Live(m) \cup {Null} |->
                        IF e = Null THEN Null ELSE m.envs[e].parent])
<1> DEFINE N == Cardinality(Env)
           S == Live(m) \cup {Null}
           G == [e \in S |-> IF e = Null THEN Null ELSE m.envs[e].parent]
           Link(x) == IF x = Null THEN Null ELSE m.envs[x].parent
<1>1. N \in Nat /\ Null \notin Live(m)
  BY VMAssumption, FS_CardinalityType DEF Live
<1>2. G \in [S -> S] /\ m.env \in S
  BY <1>1 DEF Sound, Linked
<1> HIDE DEF N
<1>3. PICK f : Iterates(f, N, S, m.env, G)
  <2> HIDE DEF S, G
  <2> QED
    BY <1>1, <1>2, Iterated
<1> DEFINE At(f_) == [n \in 0..N |-> IF n = 0 THEN m.env ELSE
                          IF f_[n - 1] = Null THEN Null ELSE m.envs[f_[n - 1]].parent]
<1>4. f = At(f)
  <2>1. f \in [0..N -> S] /\ f[0] = m.env /\ \A i \in 1..N : f[i] = G[f[i - 1]]
    BY <1>3 DEF Iterates
  <2>2. ASSUME NEW n \in 0..N PROVE f[n] = At(f)[n]
    <3>1. CASE n = 0
      BY <2>1, <3>1
    <3>2. CASE n # 0
      <4>1. n \in 1..N /\ n - 1 \in 0..N
        BY <1>1, <3>2
      <4>2. f[n] = G[f[n - 1]] /\ f[n - 1] \in S
        BY <2>1, <4>1
      <4> QED
        BY <3>2, <4>2
    <3> QED
      BY <3>1, <3>2
  <2> QED
    BY <2>1, <2>2
<1>5. PICK at : at = Chain(m) /\ at = At(at)
  <2> DEFINE at == CHOOSE at : at = At(at)
  <2>1. at = At(at)
    BY <1>4
  <2>2. Chain(m) = at
    BY DEF Chain, N
  <2> QED
    BY <2>1, <2>2
<1>6. DOMAIN at = 0..N /\ at[0] = m.env
  BY <1>1, <1>5
<1>7. \A n \in 0..N : at[n] \in S
  <2> DEFINE Outside == {n \in 0..N : at[n] \notin S}
  <2> SUFFICES ASSUME Outside # {} PROVE FALSE
    OBVIOUS
  <2>1. PICK n \in Outside : \A l \in Outside : n <= l
    <3>1. Outside \in SUBSET Nat
      BY <1>1
    <3> HIDE DEF Outside
    <3> QED
      BY <3>1, Least
  <2>2. n # 0
    BY <1>2, <1>6
  <2>3. n - 1 \in 0..N /\ n - 1 \notin Outside
    BY <1>1, <2>1, <2>2
  <2>4. at[n - 1] \in S
    BY <2>3
  <2>5. at[n] = IF at[n - 1] = Null THEN Null ELSE m.envs[at[n - 1]].parent
    BY <1>5, <2>2
  <2>6. at[n] \in S
    BY <2>4, <2>5 DEF Sound, Linked
  <2> QED
    BY <2>6
<1>8. \A i \in 1..N : at[i] = G[at[i - 1]]
  <2> SUFFICES ASSUME NEW i \in 1..N PROVE at[i] = G[at[i - 1]]
    OBVIOUS
  <2>1. i \in 0..N /\ i # 0 /\ i - 1 \in 0..N
    BY <1>1
  <2>2. at[i] = IF at[i - 1] = Null THEN Null ELSE m.envs[at[i - 1]].parent
    BY <1>5, <2>1
  <2> QED
    BY <1>7, <2>1, <2>2
<1>9. at \in [0..N -> S]
  BY <1>5, <1>7
<1> QED
  BY <1>5, <1>6, <1>8, <1>9 DEF Iterates, N

\* The chain ends: if it had more members than there are environments, one would
\* come twice, and what lies between would have all its parents among itself.
LEMMA ChainEnds ==
  ASSUME NEW m, Sound(m)
  PROVE  Chain(m)[Cardinality(Env)] = Null
<1> DEFINE N  == Cardinality(Env)
           at == Chain(m)
           S  == Live(m) \cup {Null}
           G  == [e \in S |-> IF e = Null THEN Null ELSE m.envs[e].parent]
<1>1. N \in Nat /\ IsFiniteSet(Env) /\ Live(m) \subseteq Env
  BY VMAssumption, FS_CardinalityType DEF Live
<1>2. at \in [0..N -> S] /\ \A i \in 1..N : at[i] = G[at[i - 1]]
  BY ChainLive DEF Iterates
<1>3. \A i \in 1..N : at[i - 1] \in S
                     /\ at[i] = IF at[i - 1] = Null THEN Null ELSE m.envs[at[i - 1]].parent
  <2> SUFFICES ASSUME NEW i \in 1..N
               PROVE  /\ at[i - 1] \in S
                      /\ at[i] = IF at[i - 1] = Null THEN Null ELSE m.envs[at[i - 1]].parent
    OBVIOUS
  <2>1. i - 1 \in 0..N
    BY <1>1
  <2>2. at[i - 1] \in S /\ at[i] = G[at[i - 1]]
    BY <1>2, <2>1
  <2> QED
    BY <2>2
<1> HIDE DEF N, at, G
<1> SUFFICES ASSUME at[N] # Null PROVE FALSE
  BY DEF N, at
<1>4. ASSUME NEW i \in 0..N, at[i] = Null PROVE FALSE
  <2> DEFINE Later == {n \in i..N : at[n] # Null}
  <2>1. PICK n \in Later : \A l \in Later : n <= l
    <3>1. N \in Later /\ Later \in SUBSET Nat
      BY <1>1, <1>4
    <3> HIDE DEF Later
    <3> QED
      BY <3>1, Least
  <2>2. n # i /\ n \in 1..N /\ n - 1 \in i..N /\ n - 1 \notin Later
    BY <1>1, <1>4, <2>1
  <2>3. at[n - 1] = Null
    BY <2>2
  <2> QED
    BY <1>3, <2>1, <2>2, <2>3
<1>5. at \in [0..N -> Env]
  BY <1>1, <1>2, <1>4
<1>6. PICK i \in 0..N, j \in 0..N : i < j /\ at[i] = at[j]
  <2>1. IsFiniteSet(0..N) /\ Cardinality(0..N) = N + 1
    BY <1>1, FS_Interval
  <2>2. Cardinality(Env) < Cardinality(0..N)
    BY <1>1, <2>1 DEF N
  <2>3. PICK i \in 0..N, j \in 0..N : i # j /\ at[i] = at[j]
    BY <1>1, <1>5, <2>1, <2>2, FS_PigeonHole
  <2> QED
    BY <1>1, <2>3
<1> DEFINE E == {at[n] : n \in i..(j - 1)}
<1>7. E # {} /\ E \in SUBSET Live(m)
  <2>1. i \in i..(j - 1) /\ \A n \in i..(j - 1) : n \in 0..N
    BY <1>1, <1>6
  <2>2. \A n \in 0..N : at[n] \in Live(m)
    BY <1>2, <1>4
  <2> QED
    BY <2>1, <2>2
<1>8. ASSUME NEW e \in E PROVE m.envs[e].parent \in E
  <2>1. PICK n \in i..(j - 1) : e = at[n]
    OBVIOUS
  <2>2. n \in 0..N /\ n + 1 \in 1..N /\ (n + 1) - 1 = n
    BY <1>1, <1>6, <2>1
  <2>3. at[n + 1] = m.envs[e].parent
    BY <1>3, <1>4, <2>1, <2>2
  <2>4. CASE n + 1 = j
    <3>1. i \in i..(j - 1)
      BY <1>1, <1>6
    <3> QED
      BY <1>6, <2>3, <2>4, <3>1
  <2>5. CASE n + 1 # j
    <3>1. n + 1 \in i..(j - 1)
      BY <1>1, <1>6, <2>1, <2>5
    <3> QED
      BY <2>3, <3>1
  <2> QED
    BY <2>4, <2>5
<1> HIDE DEF E
<1> QED
  BY <1>7, <1>8 DEF Sound, Grounded

\* What is found outward is there, and as it was looked for.
LEMMA HandlerFound ==
  ASSUME NEW m, Sound(m), NEW h, h = FirstOutward(m, LAMBDA e : m.envs[e].handler), h # Null
  PROVE  h \in Live(m)
<1> DEFINE at    == Chain(m)
           found == {n \in DOMAIN at : at[n] # Null /\ m.envs[at[n]].handler}
<1>1. DOMAIN at = 0..Cardinality(Env) /\ \A n \in DOMAIN at : at[n] \in Live(m) \cup {Null}
  BY ChainLive DEF Iterates
<1>2. h = IF found = {} THEN Null ELSE at[CHOOSE n \in found : \A l \in found : n <= l]
  BY DEF FirstOutward
<1> HIDE DEF at
<1>3. found # {} /\ found \in SUBSET Nat
  BY <1>1, <1>2, VMAssumption, FS_CardinalityType
<1>4. \A n \in found : at[n] \in Live(m)
  BY <1>1
<1> HIDE DEF found
<1>5. \E n \in found : \A l \in found : n <= l
  BY <1>3, Least
<1> QED
  BY <1>2, <1>3, <1>4, <1>5

LEMMA ScopeFound ==
  ASSUME NEW k, Sound(M0), Scope(k) # Null
  PROVE  /\ Scope(k) \in Live(M0)
         /\ M0.tables[M0.envs[Scope(k)].bindings][k] # Null
<1> DEFINE at    == Chain(M0)
           found == {n \in DOMAIN at :
                       at[n] # Null /\ M0.tables[M0.envs[at[n]].bindings][k] # Null}
           h     == Scope(k)
<1>1. DOMAIN at = 0..Cardinality(Env) /\ \A n \in DOMAIN at : at[n] \in Live(M0) \cup {Null}
  BY ChainLive DEF Iterates
<1>2. h = IF found = {} THEN Null ELSE at[CHOOSE n \in found : \A l \in found : n <= l]
  BY DEF FirstOutward, Scope
<1> HIDE DEF at
<1>3. found # {} /\ found \in SUBSET Nat
  <2>1. Cardinality(Env) \in Nat
    BY VMAssumption, FS_CardinalityType
  <2>2. found \subseteq DOMAIN at
    OBVIOUS
  <2>3. found # {}
    <3> HIDE DEF found
    <3> QED
      BY <1>2
  <2> HIDE DEF found
  <2> QED
    BY <1>1, <2>1, <2>2, <2>3
<1>4. \A n \in found : at[n] \in Live(M0) /\ M0.tables[M0.envs[at[n]].bindings][k] # Null
  BY <1>1
<1> HIDE DEF found
<1>5. \E n \in found : \A l \in found : n <= l
  BY <1>3, Least
<1> QED
  BY <1>2, <1>3, <1>4, <1>5

(***************************************************************************)
(* A throw.                                                                *)
(***************************************************************************)

LEMMA ThrownSound ==
  ASSUME NEW m, NEW k \in Nat, Mid(m, k + 1), Private(m)
  PROVE  /\ Mid(Thrown(m), k) /\ Private(Thrown(m))
         /\ Thrown(m).stack # <<>> /\ Head(Thrown(m).stack) = Exception(Thrown(m).thrown)
         /\ Thrown(m).thrown \in Env /\ Thrown(m).status = m.status
<1> DEFINE x == NewEnv(m)
           c == clone_env(m, x, m.env)
           v == Exception(x)
           p == vm_push(c, v)
           t == [p EXCEPT !.thrown = x]
<1>1. x \in Env /\ x \notin Live(m) /\ m \in State /\ m.env \in Live(m)
  BY NewEnvFree DEF Mid, Sound
<1>2. Thrown(m) = t
  BY DEF Thrown
<1> HIDE DEF x
<1>3. v \in Value /\ Holds(v) = {x}
  BY <1>1, HoldsOfKinds DEF Value
<1>4. Written(m, c, x, m.env) /\ c.env = m.env /\ c.status = m.status
  BY <1>1, CloneFields
<1> HIDE DEF c, v
<1>5. Mid(c, k) /\ Live(c) = Live(m) \cup {x} /\ Private(c)
  BY <1>1, <1>4, Added
<1>6. Mid(p, k) /\ Private(p)
  BY <1>1, <1>3, <1>4, <1>5, Pushed
<1>7. c \in State /\ c.stack \in Seq(Value)
  BY <1>5, StateFields DEF Mid, Sound
<1>8. p \in State /\ p.stack = <<v>> \o c.stack /\ p.status = c.status
  BY <1>3, <1>7, PushFields
<1> HIDE DEF p
<1>9. /\ t \in State /\ t.env = p.env /\ t.envs = p.envs /\ t.tables = p.tables
      /\ t.stack = p.stack /\ t.depth = p.depth /\ t.status = p.status /\ t.thrown = x
  BY <1>1, <1>8 DEF State
<1> HIDE DEF t
<1>10. Mid(t, k) /\ Private(t)
  <2>1. SameEnvs(p, t) /\ SameTables(p, t)
    BY <1>9 DEF SameEnvs, SameTables
  <2>2. t.depth = Len(t.stack) /\ StackIn(t, Live(p)) /\ StackIn(t, Env \ {p.env})
    BY <1>6, <1>9 DEF Mid, Sound, Linked, Private, StackIn
  <2> QED
    BY <1>6, <1>9, <2>1, <2>2, StackChanged
<1>11. t.stack # <<>> /\ Head(t.stack) = v
  BY <1>7, <1>8, <1>9
<1> QED
  BY <1>1, <1>2, <1>4, <1>8, <1>9, <1>10, <1>11 DEF v

\* The instruction that threw has ended, or the handler has the exception on top.
HandlerHas(m) ==
  m.thrown \in Env /\ m.stack # <<>> /\ Head(m.stack) = Exception(m.thrown)

LEMMA Handled ==
  ASSUME NEW m, NEW k \in Nat, Mid(m, k + 2), Private(m)
  PROVE  LET c == handle_exception(m) IN
         /\ Mid(c, k) /\ Private(c)
         /\ c.status = "aborted" \/ c.status = m.status
         /\ HandlerHas(c)
<1> DEFINE t == Thrown(m)
           h == FirstOutward(t, LAMBDA e : t.envs[e].handler)
           c == Enter(t, h)
           r == [Current(c) EXCEPT !.handler = FALSE, !.ip = t.envs[h].handler_addr]
           n == [c EXCEPT !.envs = [c.envs EXCEPT ![c.env] = r]]
<1>1. Mid(t, k + 1) /\ Private(t) /\ HandlerHas(t) /\ t.status = m.status
  BY ThrownSound, SMTT(30) DEF HandlerHas
<1>2. t \in State /\ t.depth = Len(t.stack) /\ StackIn(t, Live(t)) /\ Sound(t)
  BY <1>1 DEF Mid, Sound, Linked
<1>3. handle_exception(m) = IF h = Null THEN Abort(t) ELSE n
  BY DEF handle_exception, Current
<1> HIDE DEF t
<1>4. h # Null => h \in Live(t)
  BY <1>2, HandlerFound
<1> HIDE DEF h
<1>5. Mid(t, k)
  <2>1. Cardinality(Spare(t)) \in Nat
    BY VMAssumption, FS_Subset, FS_CardinalityType DEF Spare
  <2> QED
    BY <1>1, <2>1 DEF Mid
<1>6. CASE h = Null
  <2>1. /\ Abort(t) \in State /\ Abort(t).status = "aborted" /\ Abort(t).thrown = t.thrown
        /\ SameEnvs(t, Abort(t)) /\ SameTables(t, Abort(t)) /\ SameStack(t, Abort(t))
    BY <1>2, AbortFields
  <2>2. Mid(Abort(t), k) /\ Private(Abort(t))
    <3>1. StackIn(Abort(t), Live(t)) /\ StackIn(Abort(t), Env \ {t.env})
      BY <1>1, <1>2, <2>1 DEF SameStack, StackIn, Private
    <3> QED
      BY <1>1, <1>2, <1>5, <2>1, <3>1, StackChanged DEF SameStack
  <2> QED
    BY <1>1, <1>3, <1>6, <2>1, <2>2 DEF HandlerHas, SameStack
<1>7. CASE h # Null
  <2>1. /\ Mid(c, k) /\ Private(c) /\ c.status = t.status /\ c.thrown = t.thrown
        /\ SameStack(t, c)
    BY <1>1, <1>4, <1>7, Entered
  <2>2. t.envs[h].handler_addr \in Nat
    BY <1>2, <1>4, <1>7, StateFields DEF Environment
  <2> HIDE DEF c
  <2>3. Sound(c) /\ Current(c) \in Environment
    BY <2>1, StateFields DEF Mid, Sound, Current
  <2>4. r \in Environment /\ r.bindings = Current(c).bindings /\ r.parent = Current(c).parent
    BY <2>2, <2>3 DEF Environment
  <2> HIDE DEF r
  <2>5. Resumed(c, n)
    BY <2>3, <2>4, EnvironmentWritten
  <2> HIDE DEF n
  <2>6. Mid(n, k) /\ Private(n)
    BY <2>1, <2>5, ResumedSound
  <2>7. SameStack(c, n) /\ n.status = c.status /\ n.thrown = c.thrown
    BY <2>5 DEF Resumed, Written
  <2> QED
    BY <1>1, <1>3, <1>7, <2>1, <2>6, <2>7 DEF HandlerHas, SameStack
<1> QED
  BY <1>6, <1>7

-----------------------------------------------------------------------------
(***************************************************************************)
(* An instruction that goes on: it has thrown nothing and made no table.   *)
(***************************************************************************)

Going(m, k) == Mid(m, k) /\ Private(m) /\ Free(m) # {} /\ m.thrown = Null

\* The handler of a throw starts with the exception, but that op_make_symbol puts
\* a symbol on top of it.
Seen(m) == m.thrown = Null \/ HandlerHas(m) \/ "make_symbol" \in Instructions

\* The program has ended, or goes on.
Ended(m) == m.status = "aborted" \/ (Mid(m, 0) /\ Private(m) /\ Seen(m))

LEMMA MidLess ==
  ASSUME NEW m, NEW k \in Nat, NEW j \in Nat, j <= k, Mid(m, k)
  PROVE  Mid(m, j)
<1>1. Cardinality(Spare(m)) \in Nat
  BY VMAssumption, FS_Subset, FS_CardinalityType DEF Spare
<1> QED
  BY <1>1 DEF Mid

LEMMA EndsHere ==
  ASSUME NEW m, NEW k \in Nat, Going(m, k)
  PROVE  Ended(m)
  BY MidLess DEF Going, Ended, Seen

LEMMA EndsThrown ==
  ASSUME NEW m, NEW k \in Nat, Going(m, k + 2)
  PROVE  Ended(handle_exception(m))
<1> DEFINE c == handle_exception(m)
<1>1. Mid(m, k + 2) /\ Private(m)
  BY DEF Going
<1>2. Mid(c, k) /\ Private(c) /\ HandlerHas(c)
  BY <1>1, Handled
<1> HIDE DEF c
<1>3. Mid(c, 0)
  BY <1>2, MidLess
<1> QED
  BY <1>2, <1>3 DEF Ended, Seen, c

LEMMA EndsNested ==
  ASSUME NEW m, NEW k \in Nat, Mid(m, k + 1), Free(m) # {}, m.thrown = Null
  PROVE  Ended(push_env(m)) /\ \A a \in Nat : Ended(Goto(push_env(m), a))
<1> DEFINE n == push_env(m)
<1>1. Mid(n, k) /\ Private(n) /\ n.thrown = Null
  BY Nested
<1> HIDE DEF n
<1>2. Mid(n, 0)
  BY <1>1, MidLess
<1>3. ASSUME NEW a \in Nat PROVE Ended(Goto(n, a))
  <2>1. Resumed(n, Goto(n, a))
    BY <1>1, Gone DEF Mid
  <2>2. Mid(Goto(n, a), 0) /\ Private(Goto(n, a))
    BY <1>1, <1>2, <2>1, ResumedSound
  <2> QED
    BY <1>1, <2>1, <2>2 DEF Ended, Seen, Resumed
<1> QED
  BY <1>1, <1>2, <1>3 DEF Ended, Seen, n

LEMMA GoesOnPushed ==
  ASSUME NEW m, NEW k \in Nat, Going(m, k), NEW v \in Value,
         Holds(v) \subseteq Live(m), m.env \notin Holds(v)
  PROVE  /\ Going(vm_push(m, v), k)
         /\ SameEnvs(m, vm_push(m, v)) /\ SameTables(m, vm_push(m, v))
<1>1. m \in State /\ Mid(m, k) /\ Private(m)
  BY DEF Going, Mid, Sound
<1>2. /\ SameEnvs(m, vm_push(m, v)) /\ SameTables(m, vm_push(m, v))
      /\ vm_push(m, v).thrown = m.thrown
  BY <1>1, PushFields
<1>3. Mid(vm_push(m, v), k) /\ Private(vm_push(m, v))
  BY <1>1, Pushed
<1> QED
  BY <1>2, <1>3 DEF Going, Free, SameTables

LEMMA GoesOnPopped ==
  ASSUME NEW m, NEW k \in Nat, Going(m, k)
  PROVE  /\ Going(vm_pop(m), k)
         /\ SameEnvs(m, vm_pop(m)) /\ SameTables(m, vm_pop(m))
<1>1. m \in State /\ Mid(m, k) /\ Private(m) /\ m.depth = Len(m.stack)
  BY DEF Going, Mid, Sound
<1>2. SameEnvs(m, vm_pop(m)) /\ SameTables(m, vm_pop(m)) /\ vm_pop(m).thrown = m.thrown
  BY <1>1, PopFields
<1>3. Mid(vm_pop(m), k) /\ Private(vm_pop(m))
  BY <1>1, Popped
<1> QED
  BY <1>2, <1>3 DEF Going, Free, SameTables

LEMMA GoesOnResumed ==
  ASSUME NEW m, NEW k \in Nat, Going(m, k), NEW n, Resumed(m, n)
  PROVE  Going(n, k) /\ SameTables(m, n) /\ Live(n) = Live(m) /\ n.env = m.env
<1>1. Mid(n, k) /\ Private(n) /\ Live(n) = Live(m)
  BY ResumedSound DEF Going
<1> QED
  BY <1>1 DEF Going, Free, Resumed, Written, SameTables

LEMMA GoesOnEntered ==
  ASSUME NEW m, NEW k \in Nat, Mid(m, k + 1), Free(m) # {}, m.thrown = Null, NEW e \in Live(m)
  PROVE  Going(Enter(m, e), k)
<1>1. /\ Mid(Enter(m, e), k) /\ Private(Enter(m, e))
      /\ SameTables(m, Enter(m, e)) /\ Enter(m, e).thrown = m.thrown
  BY Entered
<1> QED
  BY <1>1 DEF Going, Free, SameTables

\* An instruction makes a new environment x in the frame of f, and a closure of it.
LEMMA GoesOnClosed ==
  ASSUME NEW m, NEW k \in Nat, Going(m, k + 1), NEW n, NEW x, NEW f, Written(m, n, x, f),
         x \notin Live(m), n.env = m.env, n.thrown = m.thrown
  PROVE  Ended(vm_push(n, Closure(x)))
<1>1. Mid(m, k + 1) /\ Private(m) /\ m.env \in Live(m)
  BY DEF Going, Mid, Sound
<1>2. Mid(n, k) /\ Live(n) = Live(m) \cup {x} /\ Private(n)
  BY <1>1, Added
<1>3. Going(n, k)
  BY <1>2 DEF Going, Free, Written, SameTables
<1>4. Closure(x) \in Value /\ Holds(Closure(x)) = {x}
  BY HoldsOfKinds DEF Written, Value
<1>5. Going(vm_push(n, Closure(x)), k)
  BY <1>1, <1>2, <1>3, <1>4, GoesOnPushed
<1> QED
  BY <1>5, EndsHere

-----------------------------------------------------------------------------
(***************************************************************************)
(* From one instruction to the next.                                       *)
(***************************************************************************)

VMInv ==
  /\ Sound(vm) /\ Private(vm)
  /\ Cardinality(Live(vm)) <= MaxEnv
  /\ Cardinality({t \in Table : vm.tables[t] # Null}) <= MaxTable

\* CapturedFrozen, of a step.
FrozenStep ==
  \A e \in HeldByClosures(vm) \cap HeldByClosures(vm') : vm'.envs[e] = vm.envs[e]

\* What a closure on the stack or in a table holds is there, and does not run.
LEMMA HeldLive ==
  ASSUME NEW m, Sound(m)
  PROVE  /\ HeldByClosures(m) \subseteq Live(m)
         /\ Private(m) => m.env \notin HeldByClosures(m)
<1> DEFINE T == {t \in Table : m.tables[t] # Null}
<1>1. T \in SUBSET Table /\ HeldByClosures(m) = Captured(m, T)
  BY DEF HeldByClosures
<1>2. StackIn(m, Live(m)) /\ \A t \in T : TableIn(m, t, Live(m))
  BY DEF Sound, Linked, TablesIn
<1>3. Private(m) => StackIn(m, Env \ {m.env}) /\ \A t \in T : TableIn(m, t, Env \ {m.env})
  BY DEF Private, TablesIn
<1> HIDE DEF T
<1>4. Captured(m, T) \subseteq Live(m)
  BY <1>1, <1>2, CapturedIn
<1>5. ASSUME Private(m) PROVE Captured(m, T) \subseteq Env \ {m.env}
  BY <1>1, <1>3, <1>5, CapturedIn
<1> QED
  BY <1>1, <1>4, <1>5

LEMMA Became ==
  ASSUME VMInv, NEW m, Ended(m), Becomes(m)
  PROVE  VMInv' /\ FrozenStep /\ (vm'.status = "running" => Seen(vm'))
<1> DEFINE c == IF m.status = "aborted" THEN Abort(vm) ELSE Collect(m)
<1>1. /\ vm' = c /\ Cardinality(Live(c)) <= MaxEnv
      /\ Cardinality({t \in Table : c.tables[t] # Null}) <= MaxTable
  BY DEF Becomes
<1>2. Sound(vm) /\ Private(vm) /\ vm \in State
  BY DEF VMInv, Sound
<1>3. CASE m.status = "aborted"
  <2>1. c = Abort(vm)
    BY <1>3
  <2> DEFINE n == Abort(vm)
  <2>2. /\ n \in State /\ n.status = "aborted"
        /\ SameEnvs(vm, n) /\ SameTables(vm, n) /\ SameStack(vm, n)
    BY <1>2, AbortFields
  <2>3. n.env = vm.env /\ n.envs = vm.envs /\ n.tables = vm.tables
        /\ n.stack = vm.stack /\ n.depth = vm.depth
    BY <2>2 DEF SameEnvs, SameTables, SameStack
  <2> HIDE DEF n
  <2>4. Live(n) = Live(vm)
    BY <2>3 DEF Live
  <2>5. Sound(n)
    BY <1>2, <2>2, <2>3, <2>4 DEF Sound, Linked, Coherent, Grounded, StackIn, TablesIn, TableIn
  <2>6. Private(n)
    BY <1>2, <2>3, <2>4 DEF Private, StackIn, TablesIn, TableIn
  <2>7. vm' = n
    BY <1>1, <2>1 DEF n
  <2>8. FrozenStep
    BY <2>3, <2>7 DEF FrozenStep
  <2>9. VMInv'
    <3>1. /\ Cardinality(Live(n)) <= MaxEnv
          /\ Cardinality({t \in Table : n.tables[t] # Null}) <= MaxTable
      BY <1>1, <2>1 DEF n
    <3> QED
      BY <2>5, <2>6, <2>7, <3>1 DEF VMInv
  <2> QED
    BY <2>2, <2>7, <2>8, <2>9
<1>4. CASE m.status # "aborted"
  <2> DEFINE n == Collect(m)
  <2>1. Mid(m, 0) /\ Private(m) /\ Seen(m) /\ Sound(m)
    BY <1>4 DEF Ended, Mid
  <2>2. vm' = n /\ Sound(n) /\ Private(n)
    BY <1>1, <1>4, <2>1, Collected
  <2>3. /\ n.env = m.env /\ n.stack = m.stack /\ n.thrown = m.thrown
        /\ Live(n) = LiveEnvs(m) /\ \A e \in LiveEnvs(m) : n.envs[e] = m.envs[e]
    BY <2>1, CollectFields
  <2>4. /\ Cardinality(Live(n)) <= MaxEnv
        /\ Cardinality({t \in Table : n.tables[t] # Null}) <= MaxTable
    BY <1>1, <1>4
  <2> HIDE DEF n
  <2>5. VMInv'
    BY <2>2, <2>4 DEF VMInv
  <2>6. Seen(n)
    BY <2>1, <2>3 DEF Seen, HandlerHas
  <2>7. FrozenStep
    <3> SUFFICES ASSUME NEW e \in HeldByClosures(vm), e \in HeldByClosures(n)
                 PROVE  n.envs[e] = vm.envs[e]
      BY <2>2 DEF FrozenStep
    <3>1. e \in Live(vm) /\ e # vm.env
      BY <1>2, HeldLive
    <3>2. e \in Live(n)
      BY <2>2, HeldLive
    <3>3. n.envs[e] = m.envs[e]
      BY <2>3, <3>2
    <3>4. m.envs[e] = vm.envs[e]
      BY <2>1, <3>1 DEF Mid, Kept
    <3> QED
      BY <3>3, <3>4
  <2> QED
    BY <2>2, <2>5, <2>6, <2>7
<1> QED
  BY <1>3, <1>4

(***************************************************************************)
(* The machine as an instruction starts, and when it has popped values.    *)
(***************************************************************************)

\* A value that may be pushed as long as vm->env runs.
Pushable(v) == v \in Value /\ Holds(v) \subseteq Live(vm) /\ vm.env \notin Holds(v)

\* m is at the start, but for what is on its stack.
Starting(m) ==
  /\ Going(m, 4) /\ m.env = vm.env /\ Live(m) = Live(vm) /\ m.tables = vm.tables
  /\ m.envs = M0.envs

LEMMA TopPushable ==
  ASSUME NEW m, Starting(m)
  PROVE  Pushable(Top(m))
  BY TopValue DEF Starting, Going, Mid, Pushable

LEMMA StartsPushed ==
  ASSUME NEW m, Starting(m), NEW v, Pushable(v)
  PROVE  Starting(vm_push(m, v))
<1>1. /\ Going(vm_push(m, v), 4)
      /\ SameEnvs(m, vm_push(m, v)) /\ SameTables(m, vm_push(m, v))
  BY GoesOnPushed DEF Starting, Pushable
<1> QED
  BY <1>1 DEF Starting, SameEnvs, SameTables, Live

LEMMA MidStarts ==
  ASSUME VMInv
  PROVE  Mid(vm, 4) /\ Free(vm) # {}
<1>1. Kept(vm)
  BY DEF Kept
<1>2. Cardinality(Spare(vm)) >= 4
  <2>1. Spare(vm) = Env \ Live(vm) /\ Live(vm) \subseteq Env
    BY DEF Spare, Live
  <2>2. IsFiniteSet(Env) /\ IsFiniteSet(Live(vm))
    BY <2>1, VMAssumption, FS_Subset
  <2>3. Cardinality(Spare(vm)) = Cardinality(Env) - Cardinality(Live(vm))
    <3>1. Env \cap Live(vm) = Live(vm)
      BY <2>1
    <3> QED
      BY <2>1, <2>2, <3>1, FS_Difference
  <2>4. Cardinality(Env) \in Nat /\ Cardinality(Live(vm)) \in Nat
    BY <2>2, FS_CardinalityType
  <2> QED
    BY <2>3, <2>4, VMAssumption DEF VMInv
<1>3. Free(vm) # {}
  <2> DEFINE T == {t \in Table : vm.tables[t] # Null}
  <2> SUFFICES ASSUME Free(vm) = {} PROVE FALSE
    OBVIOUS
  <2>1. T = Table
    BY DEF Free
  <2>2. Cardinality(T) <= MaxTable
    BY DEF VMInv
  <2>3. Cardinality(Table) \in Nat
    BY VMAssumption, FS_CardinalityType
  <2> HIDE DEF T
  <2> QED
    BY <2>1, <2>2, <2>3, VMAssumption
<1> QED
  BY <1>1, <1>2, <1>3 DEF Mid, VMInv

LEMMA Begins ==
  ASSUME VMInv
  PROVE  Starting(M0) /\ Starting(M1) /\ Starting(M2) /\ Starting(M3)
<1> DEFINE r == [Current(vm) EXCEPT !.ip = @ + 1]
           n == [vm EXCEPT !.envs = [vm.envs EXCEPT ![vm.env] = r]]
<1>1. Mid(vm, 4) /\ Free(vm) # {} /\ Private(vm) /\ Sound(vm)
  BY MidStarts DEF VMInv
<1>2. Current(vm) \in Environment
  BY <1>1, StateFields DEF Sound, Current
<1>3. r \in Environment /\ r.bindings = Current(vm).bindings /\ r.parent = Current(vm).parent
  BY <1>2 DEF Environment
<1>4. M0 = [n EXCEPT !.thrown = Null]
  BY DEF M0, Fetch, Current
<1> HIDE DEF r
<1>5. Resumed(vm, n)
  BY <1>1, <1>3, EnvironmentWritten
<1> HIDE DEF n
<1>6. Mid(n, 4) /\ Private(n) /\ Live(n) = Live(vm)
  BY <1>1, <1>5, ResumedSound
<1>7. n \in State /\ n.env = vm.env /\ n.tables = vm.tables
  BY <1>5 DEF Resumed, Written, SameTables
<1>8. /\ M0 \in State /\ M0.env = n.env /\ M0.envs = n.envs /\ M0.tables = n.tables
      /\ M0.stack = n.stack /\ M0.depth = n.depth /\ M0.thrown = Null
  BY <1>4, <1>7 DEF State
<1>9. Mid(M0, 4) /\ Live(M0) = Live(n) /\ Private(M0)
  <2>1. SameEnvs(n, M0) /\ SameTables(n, M0)
    BY <1>8 DEF SameEnvs, SameTables
  <2>2. M0.depth = Len(M0.stack) /\ StackIn(M0, Live(n)) /\ StackIn(M0, Env \ {n.env})
    BY <1>6, <1>8 DEF Mid, Sound, Linked, Private, StackIn
  <2> QED
    BY <1>6, <1>8, <2>1, <2>2, StackChanged
<1>10. Going(M0, 4)
  BY <1>1, <1>7, <1>8, <1>9 DEF Going, Free
<1>11. Starting(M0)
  BY <1>6, <1>7, <1>8, <1>9, <1>10 DEF Starting
<1>12. ASSUME NEW m, Starting(m) PROVE Starting(vm_pop(m))
  <2>1. Going(vm_pop(m), 4) /\ SameEnvs(m, vm_pop(m)) /\ SameTables(m, vm_pop(m))
    BY <1>12, GoesOnPopped DEF Starting
  <2>2. vm_pop(m).env = vm.env /\ Live(vm_pop(m)) = Live(vm)
    BY <1>12, <2>1 DEF Starting, SameEnvs, Live
  <2> QED
    BY <1>12, <2>1, <2>2 DEF Starting, SameEnvs, SameTables
<1> QED
  BY <1>11, <1>12 DEF M1, M2, M3
=============================================================================
