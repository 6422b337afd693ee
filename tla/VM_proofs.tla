----------------------------- MODULE VM_proofs -----------------------------
(***************************************************************************)
(* Every instruction of module VM preserves the invariant, and what that   *)
(* shows of its programs: whatever they throw, call and return to.         *)
(***************************************************************************)
EXTENDS VM_machine

\* What an instruction leaves.
Steps == \E m : Ended(m) /\ Becomes(m)

\* How an instruction that goes on ends.
LEMMA StartingEnds ==
  ASSUME NEW m, Starting(m)
  PROVE  Ended(m) /\ Ended(handle_exception(m))
<1>1. Going(m, 4) /\ Going(m, 2 + 2)
  BY DEF Starting
<1> QED
  BY <1>1, EndsHere, EndsThrown

LEMMA PlainPushable ==
  ASSUME NEW v \in Literals \cup {Library, Pair(Number(0), Empty)}
  PROVE  Pushable(v)
  BY HoldsOfKinds DEF Pushable, Value

LEMMA PartsPushable ==
  ASSUME NEW v, Pushable(v), IsPair(v)
  PROVE  Pushable(v.car) /\ Pushable(v.cdr)
  BY PartsOfPairs DEF Pushable

LEMMA ClosureLive ==
  ASSUME NEW v, Pushable(v), IsClosure(v)
  PROVE  v.env \in Live(vm) /\ v.env # vm.env
  BY ClosuresHold DEF Pushable

LEMMA SymbolNamed ==
  ASSUME NEW v \in Value, IsSymbol(v)
  PROVE  v.name \in Symbol
<1>1. \A e : ~ IsSymbol(Closure(e))
  BY DEF IsSymbol, Closure
<1>2. \A a, d : ~ IsSymbol(Pair(a, d))
  BY DEF IsSymbol, Pair
<1>3. \A k : Sym(k).name = k
  BY DEF Sym
<1>4. ~ IsSymbol(Number(0)) /\ ~ IsSymbol(False) /\ ~ IsSymbol(String) /\ ~ IsSymbol(Empty)
  BY DEF IsSymbol, Number, False, String, Empty
<1>5. ~ IsSymbol(Library)
  BY DEF IsSymbol, Library
<1> QED
  BY <1>1, <1>2, <1>3, <1>4, <1>5 DEF Value, Literals, Exception

-----------------------------------------------------------------------------
(***************************************************************************)
(* The instructions that handle values.                                    *)
(***************************************************************************)

LEMMA StackSteps ==
  ASSUME VMInv,
         \/ \E v \in Literals : op_lit(v)
         \/ op_swap \/ op_rot \/ op_dup_ref \/ op_drop
  PROVE  Steps
<1> DEFINE v0 == Top(M0)
           v1 == Top(M1)
           v2 == Top(M2)
<1>1. Starting(M0) /\ Starting(M1) /\ Starting(M2) /\ Starting(M3)
  BY Begins
<1>2. Pushable(v0) /\ Pushable(v1) /\ Pushable(v2)
  BY <1>1, TopPushable
<1>3. ASSUME NEW v \in Literals, op_lit(v) PROVE Steps
  <2>1. Starting(vm_push(M0, v))
    BY <1>1, PlainPushable, StartsPushed
  <2> QED
    BY <1>3, <2>1, StartingEnds DEF op_lit, Steps
<1> HIDE DEF v0, v1, v2
<1>4. CASE op_swap
  <2>1. Starting(vm_push(M2, v0))
    BY <1>1, <1>2, StartsPushed
  <2>2. Starting(vm_push(vm_push(M2, v0), v1))
    BY <1>2, <2>1, StartsPushed
  <2> QED
    BY <1>4, <2>2, StartingEnds DEF op_swap, Steps, v0, v1
<1>5. CASE op_rot
  <2>1. Starting(vm_push(M3, v0))
    BY <1>1, <1>2, StartsPushed
  <2>2. Starting(vm_push(vm_push(M3, v0), v2))
    BY <1>2, <2>1, StartsPushed
  <2>3. Starting(vm_push(vm_push(vm_push(M3, v0), v2), v1))
    BY <1>2, <2>2, StartsPushed
  <2> QED
    BY <1>5, <2>3, StartingEnds DEF op_rot, Steps, v0, v1, v2
<1>6. CASE op_dup_ref
  <2>1. Starting(vm_push(M1, v0))
    BY <1>1, <1>2, StartsPushed
  <2>2. Starting(vm_push(vm_push(M1, v0), v0))
    BY <1>2, <2>1, StartsPushed
  <2> QED
    BY <1>6, <2>2, StartingEnds DEF op_dup_ref, Steps, v0
<1>7. CASE op_drop
  BY <1>1, <1>7, StartingEnds DEF op_drop, Steps
<1> QED
  BY <1>3, <1>4, <1>5, <1>6, <1>7

LEMMA PairSteps ==
  ASSUME VMInv, op_car \/ op_cdr
  PROVE  Steps
<1> DEFINE v0 == Top(M0)
<1>1. Starting(M0) /\ Starting(M1) /\ Pushable(v0)
  BY Begins, TopPushable
<1>2. Ended(handle_exception(M1))
  BY <1>1, StartingEnds
<1> HIDE DEF v0
<1>3. ASSUME IsPair(v0) PROVE Ended(vm_push(M1, v0.car)) /\ Ended(vm_push(M1, v0.cdr))
  BY <1>1, <1>3, PartsPushable, StartsPushed, StartingEnds
<1>4. \/ Becomes(IF IsPair(v0) THEN vm_push(M1, v0.car) ELSE handle_exception(M1))
      \/ Becomes(IF IsPair(v0) THEN vm_push(M1, v0.cdr) ELSE handle_exception(M1))
  BY DEF op_car, op_cdr, v0
<1> QED
  BY <1>2, <1>3, <1>4 DEF Steps

\* After the throw the symbol hides the exception.
LEMMA MakeSymbolSteps ==
  ASSUME VMInv, NEW k \in Symbol, op_make_symbol(k)
  PROVE  Steps
<1> DEFINE h == handle_exception(M1)
<1>1. Starting(M1) /\ Sym(k) \in Literals /\ Pushable(Sym(k))
  BY Begins, PlainPushable DEF Literals
<1>2. Ended(vm_push(M1, Sym(k)))
  BY <1>1, StartsPushed, StartingEnds
<1>3. Ended(vm_push(h, Sym(k)))
  <2>1. Mid(M1, 2 + 2) /\ Private(M1)
    BY <1>1 DEF Starting, Going
  <2>2. Mid(h, 2) /\ Private(h)
    BY <2>1, Handled
  <2> HIDE DEF h
  <2>3. Holds(Sym(k)) = {} /\ Sym(k) \in Value
    BY HoldsOfKinds DEF Value, Literals
  <2>4. Mid(vm_push(h, Sym(k)), 2) /\ Private(vm_push(h, Sym(k)))
    BY <2>2, <2>3, Pushed
  <2>5. Mid(vm_push(h, Sym(k)), 0)
    BY <2>4, MidLess
  <2>6. "make_symbol" \in Instructions
    BY DEF op_make_symbol, Executing
  <2> QED
    BY <2>4, <2>5, <2>6 DEF Ended, Seen
<1>4. Ended(Abort(M1))
  BY <1>1, AbortFields DEF Starting, Going, Mid, Sound, Ended
<1>5. Becomes(IF ~ HasText(Top(M0)) THEN Abort(M1)
              ELSE vm_push(IF Top(M0) # String THEN h ELSE M1, Sym(k)))
  BY DEF op_make_symbol
<1> HIDE DEF h
<1>6. CASE ~ HasText(Top(M0))
  BY <1>4, <1>5, <1>6 DEF Steps
<1>7. CASE HasText(Top(M0)) /\ Top(M0) # String
  BY <1>3, <1>5, <1>7 DEF Steps
<1>8. CASE HasText(Top(M0)) /\ Top(M0) = String
  BY <1>2, <1>5, <1>8 DEF Steps
<1> QED
  BY <1>6, <1>7, <1>8

-----------------------------------------------------------------------------
(***************************************************************************)
(* Jumps, calls and returns.                                               *)
(***************************************************************************)

LEMMA AddressesAreNumbers ==
  ASSUME VMInv
  PROVE  Addresses \subseteq Nat
<1>1. Current(vm).length \in Nat
  BY StateFields DEF VMInv, Sound, Current, Environment
<1> QED
  BY <1>1 DEF Addresses

LEMMA GotoEnds ==
  ASSUME NEW m, Starting(m), NEW a \in Nat
  PROVE  Ended(Goto(m, a))
<1>1. Going(m, 4) /\ Sound(m)
  BY DEF Starting, Going, Mid
<1>2. Resumed(m, Goto(m, a))
  BY <1>1, Gone
<1> QED
  BY <1>1, <1>2, GoesOnResumed, EndsHere

LEMMA JumpSteps ==
  ASSUME VMInv, NEW a \in Addresses, op_jmp(a) \/ op_jnf(a)
  PROVE  Steps
<1>1. Starting(M0) /\ Starting(M1) /\ a \in Nat
  BY Begins, AddressesAreNumbers
<1>2. Ended(Goto(M0, a)) /\ Ended(Goto(M1, a)) /\ Ended(M1)
  BY <1>1, GotoEnds, StartingEnds
<1> QED
  BY <1>2 DEF op_jmp, op_jnf, Steps

\* A push of the closure of the environment that runs: only what follows makes
\* another run.
LEMMA ReturnPushed ==
  ASSUME NEW m, Starting(m)
  PROVE  LET n == vm_push(m, Closure(m.env)) IN
         Mid(n, 4) /\ Free(n) # {} /\ n.thrown = Null /\ Live(n) = Live(vm)
<1> DEFINE v == Closure(m.env)
           n == vm_push(m, v)
<1>1. Mid(m, 4) /\ m \in State /\ m.env \in Live(m) /\ Free(m) # {} /\ m.thrown = Null
  BY DEF Starting, Going, Mid, Sound
<1>2. v \in Value /\ Holds(v) \subseteq Live(m)
  BY <1>1, HoldsOfKinds DEF Value, Live
<1> HIDE DEF v
<1>3. SameTables(m, n) /\ n.thrown = m.thrown
  BY <1>1, <1>2, PushFields
<1>4. Mid(n, 4) /\ Live(n) = Live(m)
  BY <1>1, <1>2, Pushed
<1> HIDE DEF n
<1>5. Free(n) # {}
  BY <1>1, <1>3 DEF Free, SameTables
<1> QED
  BY <1>1, <1>3, <1>4, <1>5 DEF Starting, n, v

LEMMA CallSteps ==
  ASSUME VMInv, NEW a \in Addresses, op_call(a)
  PROVE  Steps
<1> DEFINE n == vm_push(M0, Closure(M0.env))
<1>1. Starting(M0) /\ a \in Nat
  BY Begins, AddressesAreNumbers
<1>2. Mid(n, 3 + 1) /\ Free(n) # {} /\ n.thrown = Null
  BY <1>1, ReturnPushed
<1> HIDE DEF n
<1>3. Ended(Goto(push_env(n), a))
  BY <1>1, <1>2, EndsNested
<1> QED
  BY <1>3 DEF op_call, Steps, n

\* The closure v is entered; there is room for a table and two environments more.
LEMMA ClosureEntered ==
  ASSUME NEW m, NEW v, Pushable(v), IsClosure(v), Mid(m, 4), Free(m) # {}, m.thrown = Null,
         Live(m) = Live(vm)
  PROVE  Ended(Enter(m, v.env)) /\ Ended(push_env(Enter(m, v.env)))
<1> DEFINE c == Enter(m, v.env)
<1>1. v.env \in Live(m) /\ Mid(m, 3 + 1)
  BY ClosureLive
<1>2. Going(c, 3)
  BY <1>1, GoesOnEntered
<1> HIDE DEF c
<1>3. Mid(c, 2 + 1) /\ Free(c) # {} /\ c.thrown = Null
  BY <1>2 DEF Going
<1> QED
  BY <1>2, <1>3, EndsHere, EndsNested DEF c

LEMMA ReturnSteps ==
  ASSUME VMInv, op_ret \/ op_call_in \/ op_tail_call_in
  PROVE  Steps
<1> DEFINE v0 == Top(M0)
           v1 == Top(M1)
           v2 == Top(M2)
<1>1. Starting(M0) /\ Starting(M1) /\ Starting(M2) /\ Starting(M3)
  BY Begins
<1>2. Pushable(v0) /\ Pushable(v1) /\ Pushable(v2) /\ Ended(handle_exception(M1))
  BY <1>1, TopPushable, StartingEnds
<1> HIDE DEF v0, v1, v2
<1>3. CASE op_ret
  <2>1. Mid(M1, 4) /\ Free(M1) # {} /\ M1.thrown = Null /\ Live(M1) = Live(vm)
    BY <1>1 DEF Starting, Going
  <2>2. IsClosure(v0) => Ended(Enter(M1, v0.env))
    BY <1>2, <2>1, ClosureEntered
  <2>3. Becomes(IF IsClosure(v0) THEN Enter(M1, v0.env) ELSE handle_exception(M1))
    BY <1>3 DEF op_ret, WithClosure, v0
  <2> QED
    BY <1>2, <2>2, <2>3 DEF Steps
<1>4. CASE op_call_in
  <2> DEFINE n == vm_push(M1, Closure(M1.env))
  <2>1. Mid(n, 4) /\ Free(n) # {} /\ n.thrown = Null /\ Live(n) = Live(vm)
    BY <1>1, ReturnPushed
  <2>2. Becomes(IF IsClosure(v0) THEN push_env(Enter(n, v0.env)) ELSE handle_exception(M1))
    BY <1>4 DEF op_call_in, WithClosure, v0
  <2> HIDE DEF n
  <2>3. IsClosure(v0) => Ended(push_env(Enter(n, v0.env)))
    BY <1>2, <2>1, ClosureEntered
  <2> QED
    BY <1>2, <2>2, <2>3 DEF Steps
<1>5. CASE op_tail_call_in
  <2> DEFINE n == vm_push(vm_push(M3, v1), v2)
  <2>1. Starting(vm_push(M3, v1))
    BY <1>1, <1>2, StartsPushed
  <2>2. Starting(n)
    BY <1>2, <2>1, StartsPushed
  <2>3. Becomes(IF IsClosure(v0) THEN push_env(Enter(n, v0.env)) ELSE handle_exception(M1))
    BY <1>5 DEF op_tail_call_in, WithClosure, v0, v1, v2
  <2> HIDE DEF n
  <2>4. Mid(n, 4) /\ Free(n) # {} /\ n.thrown = Null /\ Live(n) = Live(vm)
    BY <2>2 DEF Starting, Going
  <2>5. IsClosure(v0) => Ended(push_env(Enter(n, v0.env)))
    BY <1>2, <2>4, ClosureEntered
  <2> QED
    BY <1>2, <2>3, <2>5 DEF Steps
<1> QED
  BY <1>3, <1>4, <1>5

\* The closure's code goes on in the frame that ran before.
LEMMA JinSteps ==
  ASSUME VMInv, op_jin
  PROVE  Steps
<1> DEFINE v == Top(M0)
           c == Enter(M1, v.env)
           r == [Current(c) EXCEPT !.bindings = Current(M0).bindings,
                                   !.parent = Current(M0).parent]
           n == [c EXCEPT !.envs = [c.envs EXCEPT ![c.env] = r]]
<1>1. Starting(M0) /\ Starting(M1) /\ Pushable(v) /\ Ended(handle_exception(M1))
  BY Begins, TopPushable, StartingEnds
<1>2. /\ Becomes(IF IsClosure(v) THEN n ELSE handle_exception(M1))
  <2>1. n = [c EXCEPT !.envs[c.env].bindings = Current(M0).bindings,
                      !.envs[c.env].parent = Current(M0).parent]
    BY DEF Current
  <2> QED
    BY <2>1 DEF op_jin, WithClosure
<1> HIDE DEF v
<1>3. ASSUME IsClosure(v) PROVE Ended(n)
  <2>1. Mid(M1, 3 + 1) /\ Free(M1) # {} /\ M1.thrown = Null /\ v.env \in Live(M1)
    BY <1>1, <1>3, ClosureLive DEF Starting, Going
  <2>2. Going(c, 3)
    BY <2>1, GoesOnEntered
  <2>3. /\ Live(M1) \subseteq Live(c) /\ \A f \in Live(M1) : c.envs[f] = M1.envs[f]
    BY <2>1, Entered
  <2> HIDE DEF c
  <2>4. vm.env \in Live(c) /\ c.envs[vm.env] = Current(M0)
    BY <1>1, <2>3 DEF Starting, Going, Mid, Sound, Current
  <2>5. c \in State /\ c.env \in Env /\ Current(c) \in Environment /\ Current(M0) \in Environment
    BY <2>2, <2>4, StateFields DEF Going, Mid, Sound, Current
  <2>6. /\ r \in Environment
        /\ r.bindings = c.envs[vm.env].bindings /\ r.parent = c.envs[vm.env].parent
    BY <2>4, <2>5 DEF Environment
  <2> HIDE DEF r
  <2>7. Written(c, n, c.env, vm.env) /\ n.env = c.env /\ n.thrown = c.thrown
    <3> DEFINE es == [c.envs EXCEPT ![c.env] = r]
    <3>1. es \in [Env -> Environment \cup {Null}] /\ es[c.env] = r
          /\ \A e \in Env \ {c.env} : es[e] = c.envs[e]
      BY <2>5, <2>6, StateFields
    <3> HIDE DEF es
    <3>2. LET q == [c EXCEPT !.envs = es] IN
          /\ q \in State /\ q.envs = es /\ q.env = c.env
          /\ SameStack(c, q) /\ SameTables(c, q) /\ q.status = c.status /\ q.thrown = c.thrown
      BY <2>5, <3>1, EnvsFields
    <3>3. n = [c EXCEPT !.envs = es]
      BY DEF es
    <3> HIDE DEF n
    <3> QED
      BY <2>4, <2>5, <2>6, <3>1, <3>2, <3>3 DEF Written
  <2> HIDE DEF n
  <2>8. Mid(n, 3) /\ Private(n)
    BY <2>2, <2>7, Renewed DEF Going
  <2>9. Mid(n, 0) /\ n.thrown = Null
    BY <2>2, <2>7, <2>8, MidLess DEF Going
  <2> QED
    BY <2>8, <2>9 DEF Ended, Seen
<1> HIDE DEF n
<1> QED
  BY <1>1, <1>2, <1>3 DEF Steps

-----------------------------------------------------------------------------
(***************************************************************************)
(* The instructions that make a closure.                                   *)
(***************************************************************************)

\* A clone in another frame, or with another place to go on, and its closure.
LEMMA ClosureMade ==
  ASSUME NEW m, Starting(m), NEW f \in Live(m), NEW g \in Live(m), NEW r \in Environment,
         r.bindings = m.envs[g].bindings, r.parent = m.envs[g].parent
  PROVE  LET x == NewEnv(m)
             c == clone_env(m, x, f)
         IN  Ended(vm_push([c EXCEPT !.envs = [c.envs EXCEPT ![x] = r]], Closure(x)))
<1> DEFINE x  == NewEnv(m)
           c  == clone_env(m, x, f)
           es == [c.envs EXCEPT ![x] = r]
           n  == [c EXCEPT !.envs = es]
<1>1. Going(m, 3 + 1) /\ Mid(m, 3 + 1) /\ m \in State
  BY DEF Starting, Going, Mid, Sound
<1>2. x \in Env /\ x \notin Live(m)
  BY <1>1, NewEnvFree
<1> HIDE DEF x
<1>3. Written(m, c, x, f) /\ c.env = m.env /\ c.thrown = m.thrown
  BY <1>1, <1>2, CloneFields
<1> HIDE DEF c
<1>4. c \in State
  BY <1>3 DEF Written
<1>5. es \in [Env -> Environment \cup {Null}] /\ es[x] = r
      /\ \A e \in Env \ {x} : es[e] = c.envs[e]
  BY <1>2, <1>4, StateFields
<1> HIDE DEF es
<1>6. /\ n \in State /\ n.envs = es /\ n.env = c.env
      /\ SameStack(c, n) /\ SameTables(c, n) /\ n.status = c.status /\ n.thrown = c.thrown
  BY <1>4, <1>5, EnvsFields
<1> HIDE DEF n
<1>7. Written(m, n, x, g)
  BY <1>2, <1>3, <1>5, <1>6 DEF Written, SameStack, SameTables
<1>8. n.env = m.env /\ n.thrown = m.thrown
  BY <1>3, <1>6
<1>9. Ended(vm_push(n, Closure(x)))
  BY <1>1, <1>2, <1>7, <1>8, GoesOnClosed
<1> QED
  BY <1>9 DEF n, es, c, x

\* The environment that runs is one to clone.
LEMMA RunningLive ==
  ASSUME NEW m, Starting(m)
  PROVE  m.env \in Live(m) /\ m.envs[m.env] \in Environment /\ m.envs[m.env] = M0.envs[M0.env]
         /\ m.env = M0.env
<1>1. M0.env = vm.env
  BY DEF M0, Fetch
<1>2. m \in State /\ m.env \in Live(m)
  BY DEF Starting, Going, Mid, Sound
<1> QED
  BY <1>1, <1>2, StateFields DEF Starting

LEMMA ProcSteps ==
  ASSUME VMInv, NEW a \in Addresses, op_proc(a)
  PROVE  Steps
<1> DEFINE x == NewEnv(M0)
           c == clone_env(M0, x, M0.env)
           r == [M0.envs[M0.env] EXCEPT !.ip = a]
           n == [c EXCEPT !.envs = [c.envs EXCEPT ![x] = r]]
<1>1. Starting(M0) /\ a \in Nat
  BY Begins, AddressesAreNumbers
<1>2. M0.env \in Live(M0) /\ M0.envs[M0.env] \in Environment
  BY <1>1, RunningLive
<1>3. /\ r \in Environment
      /\ r.bindings = M0.envs[M0.env].bindings /\ r.parent = M0.envs[M0.env].parent
  BY <1>1, <1>2 DEF Environment
<1>4. Ended(vm_push(n, Closure(x)))
  <2> HIDE DEF r
  <2> QED
    BY <1>1, <1>2, <1>3, ClosureMade
<1>5. n = [c EXCEPT !.envs[x].ip = a]
  <2>1. c.envs[x] = M0.envs[M0.env]
    <3>1. x \in Env /\ M0 \in State
      BY <1>1, NewEnvFree DEF Starting, Going, Mid, Sound
    <3> QED
      BY ZenonT(30), <1>2, <3>1, CloneFields
  <2> HIDE DEF c
  <2> QED
    BY <2>1
<1> QED
  BY <1>4, <1>5 DEF op_proc, Steps

LEMMA AsmSteps ==
  ASSUME VMInv, NEW b \in Code, op_asm(b)
  PROVE  Steps
<1> DEFINE x == NewEnv(M0)
           c == clone_env(M1, x, M0.env)
           r == [M1.envs[M1.env] EXCEPT !.code = b, !.ip = 0, !.length = Length[b]]
           n == [c EXCEPT !.envs = [c.envs EXCEPT ![x] = r]]
<1>1. Starting(M0) /\ Starting(M1) /\ Ended(handle_exception(M1))
  BY Begins, StartingEnds
<1>2. /\ M1.env \in Live(M1) /\ M1.envs[M1.env] \in Environment /\ M1.env = M0.env
  BY <1>1, RunningLive
<1>3. x = NewEnv(M1)
  BY <1>1 DEF NewEnv, Starting
<1>4. /\ r \in Environment
      /\ r.bindings = M1.envs[M1.env].bindings /\ r.parent = M1.envs[M1.env].parent
  BY <1>2, VMAssumption DEF Environment
<1>5. Ended(vm_push(n, Closure(x)))
  <2> HIDE DEF r
  <2> QED
    BY <1>1, <1>2, <1>3, <1>4, ClosureMade
<1>6. n = [c EXCEPT !.envs[x].code = b, !.envs[x].ip = 0, !.envs[x].length = Length[b]]
  <2>1. c.envs[x] = M1.envs[M1.env] /\ c \in State /\ x \in Env
    <3>1. x \in Env /\ M1 \in State
      BY <1>1, <1>3, NewEnvFree DEF Starting, Going, Mid, Sound
    <3>2. Written(M1, c, x, M0.env) /\ c.envs[x] = M1.envs[M0.env]
      BY ZenonT(30), <1>2, <3>1, CloneFields
    <3> QED
      BY <1>2, <3>1, <3>2 DEF Written
  <2> HIDE DEF c
  <2>2. c.envs \in [Env -> Environment \cup {Null}] /\ M1.envs[M1.env] \in Environment
    BY <1>2, <2>1, StateFields
  <2> QED
    BY <2>1, <2>2 DEF State
<1>7. Becomes(IF Top(M0) # String THEN handle_exception(M1) ELSE vm_push(n, Closure(x)))
  BY <1>6 DEF op_asm
<1> QED
  BY <1>1, <1>5, <1>7 DEF Steps

LEMMA AdoptSteps ==
  ASSUME VMInv, op_adopt
  PROVE  Steps
<1> DEFINE v0 == Top(M0)
           v1 == Top(M1)
           x  == NewEnv(M2)
           c  == clone_env(M2, x, v1.env)
           r  == [M2.envs[v1.env] EXCEPT !.parent = M2.envs[v0.env].parent,
                                         !.bindings = M2.envs[v0.env].bindings]
           n  == [c EXCEPT !.envs = [c.envs EXCEPT ![x] = r]]
<1>1. /\ Starting(M0) /\ Starting(M1) /\ Starting(M2) /\ Ended(handle_exception(M2))
      /\ Pushable(v0) /\ Pushable(v1)
  BY Begins, StartingEnds, TopPushable
<1> HIDE DEF v0, v1
<1>2. ASSUME IsClosure(v0), IsClosure(v1)
      PROVE  Ended(Adopt(v1.env, v0.env))
  <2>1. v0.env \in Live(M2) /\ v1.env \in Live(M2)
    BY <1>1, <1>2, ClosureLive DEF Starting
  <2>2. M2.envs[v0.env] \in Environment /\ M2.envs[v1.env] \in Environment /\ M2 \in State
    BY <1>1, <2>1, StateFields DEF Starting, Going, Mid, Sound
  <2>3. /\ r \in Environment
        /\ r.bindings = M2.envs[v0.env].bindings /\ r.parent = M2.envs[v0.env].parent
    BY <2>2 DEF Environment
  <2>4. Ended(vm_push(n, Closure(x)))
    <3> HIDE DEF r
    <3> QED
      BY <1>1, <2>1, <2>3, ClosureMade
  <2>5. n = [c EXCEPT !.envs[x].parent = M2.envs[v0.env].parent,
                      !.envs[x].bindings = M2.envs[v0.env].bindings]
    <3>1. Going(M2, 3 + 1)
      BY <1>1 DEF Starting
    <3>2. x \in Env
      BY <3>1, NewEnvFree DEF Going
    <3>3. c.envs[x] = M2.envs[v1.env] /\ c \in State
      <4> DEFINE f == v1.env
                 m == M2
      <4>0. m \in State /\ x \in Env /\ f \in Live(m)
        BY <2>1, <2>2, <3>2
      <4> HIDE DEF f, m, x, n, r
      <4>1. Written(m, clone_env(m, x, f), x, f) /\ clone_env(m, x, f).envs[x] = m.envs[f]
        BY <4>0, CloneFields
      <4> QED
        BY <4>1 DEF Written, f, m
    <3> HIDE DEF c
    <3>4. c.envs \in [Env -> Environment \cup {Null}]
      BY <3>3, StateFields
    <3> QED
      BY <2>2, <3>2, <3>3, <3>4 DEF State
  <2> QED
    BY <2>4, <2>5 DEF Adopt
<1>3. Becomes(IF IsClosure(v0) /\ IsClosure(v1) THEN Adopt(v1.env, v0.env)
              ELSE handle_exception(M2))
  BY DEF op_adopt, v0, v1
<1> QED
  BY <1>1, <1>2, <1>3 DEF Steps

LEMMA HandlerSteps ==
  ASSUME VMInv, op_restore \/ \E a \in Addresses : op_continue(a)
  PROVE  Steps
<1>1. Starting(M0) /\ Going(M0, 4) /\ Sound(M0)
  BY Begins DEF Starting, Going, Mid
<1>2. Current(M0) \in Environment
  BY <1>1, RunningLive DEF Current
<1>3. ASSUME NEW n, Resumed(M0, n) PROVE Ended(n)
  BY <1>1, <1>3, GoesOnResumed, EndsHere
<1>4. CASE op_restore
  <2> DEFINE r == [Current(M0) EXCEPT !.handler = TRUE]
             n == [M0 EXCEPT !.envs = [M0.envs EXCEPT ![M0.env] = r]]
  <2>1. r \in Environment /\ r.bindings = Current(M0).bindings /\ r.parent = Current(M0).parent
    BY <1>2 DEF Environment
  <2>2. n = [M0 EXCEPT !.envs[M0.env].handler = TRUE]
    BY DEF Current
  <2> HIDE DEF r
  <2>3. Resumed(M0, n)
    BY <1>1, <2>1, EnvironmentWritten
  <2> QED
    BY <1>3, <1>4, <2>2, <2>3 DEF op_restore, Steps
<1>5. ASSUME NEW a \in Addresses, op_continue(a) PROVE Steps
  <2> DEFINE r == [Current(M0) EXCEPT !.handler = TRUE, !.handler_addr = a]
             n == [M0 EXCEPT !.envs = [M0.envs EXCEPT ![M0.env] = r]]
  <2>1. r \in Environment /\ r.bindings = Current(M0).bindings /\ r.parent = Current(M0).parent
    BY <1>2, AddressesAreNumbers DEF Environment
  <2>2. n = [M0 EXCEPT !.envs[M0.env].handler = TRUE, !.envs[M0.env].handler_addr = a]
    <3>1. M0 \in State /\ M0.env \in Env
      BY <1>1, StateFields DEF Sound
    <3>2. M0.envs \in [Env -> Environment \cup {Null}]
      BY <3>1, StateFields
    <3> QED
      BY <1>2, <3>1, <3>2 DEF Current, State
  <2> HIDE DEF r
  <2>3. Resumed(M0, n)
    BY <1>1, <2>1, EnvironmentWritten
  <2> QED
    BY <1>3, <1>5, <2>2, <2>3 DEF op_continue, Steps
<1> QED
  BY <1>4, <1>5

-----------------------------------------------------------------------------
(***************************************************************************)
(* Bindings, libraries, and functions of libraries.                        *)
(***************************************************************************)

\* A symbol is bound in a table that is there.
LEMMA Bound ==
  ASSUME NEW m, Starting(m), NEW t \in Table, m.tables[t] # Null,
         NEW k \in Symbol, NEW v, Pushable(v)
  PROVE  Ended([m EXCEPT !.tables[t][k] = v])
<1> DEFINE b  == [m.tables[t] EXCEPT ![k] = v]
           ts == [m.tables EXCEPT ![t] = b]
           n  == [m EXCEPT !.tables = ts]
<1>1. Mid(m, 4) /\ Sound(m) /\ Private(m) /\ m \in State /\ m.thrown = Null
  BY DEF Starting, Going, Mid, Sound
<1>2. m.tables \in [Table -> Bindings \cup {Null}] /\ m.tables[t] \in Bindings
  BY <1>1, StateFields
<1>3. v \in Value /\ Holds(v) \subseteq Live(m) /\ Holds(v) \subseteq Env \ {m.env}
  BY ValuesHoldEnvs DEF Pushable, Starting
<1>4. b \in Bindings /\ b[k] = v /\ \A j \in Symbol \ {k} : b[j] = m.tables[t][j]
  BY <1>2, <1>3 DEF Bindings
<1> HIDE DEF b
<1>5. /\ ts \in [Table -> Bindings \cup {Null}] /\ ts[t] = b
      /\ \A u \in Table \ {t} : ts[u] = m.tables[u]
  BY <1>2, <1>4
<1> HIDE DEF ts
<1>6. /\ n \in State /\ n.tables = ts /\ SameEnvs(m, n) /\ SameStack(m, n)
      /\ n.thrown = m.thrown
  BY <1>1, <1>5 DEF State, SameEnvs, SameStack
<1> HIDE DEF n
<1>7. Live(n) = Live(m) /\ Spare(n) = Spare(m)
  BY <1>6 DEF Live, Spare, SameEnvs
<1>8. ASSUME NEW E, Holds(v) \subseteq E, TablesIn(m, E) PROVE TablesIn(n, E)
  <2> SUFFICES ASSUME NEW u \in Table, n.tables[u] # Null, NEW j \in Symbol,
                      n.tables[u][j] # Null
               PROVE  Holds(n.tables[u][j]) \subseteq E
    BY DEF TablesIn, TableIn
  <2>1. CASE u = t /\ j = k
    BY <1>4, <1>5, <1>6, <1>8, <2>1
  <2>2. CASE u = t /\ j # k
    BY <1>4, <1>5, <1>6, <1>8, <2>2 DEF TablesIn, TableIn
  <2>3. CASE u # t
    BY <1>5, <1>6, <1>8, <2>3 DEF TablesIn, TableIn
  <2> QED
    BY <2>1, <2>2, <2>3
<1>9. Sound(n)
  <2>1. \A u \in Table : m.tables[u] # Null => n.tables[u] # Null
    BY <1>4, <1>5, <1>6, VMAssumption
  <2>2. \A e \in Live(m) : m.envs[e].bindings \in Table
    BY <1>1, StateFields DEF Environment
  <2>3. \A e \in Live(n) :
          n.envs[e].parent \in Live(n) \cup {Null} /\ n.tables[n.envs[e].bindings] # Null
    BY <1>1, <1>6, <1>7, <2>1, <2>2 DEF Sound, Linked, SameEnvs
  <2>4. StackIn(n, Live(n)) /\ TablesIn(n, Live(n))
    BY <1>1, <1>3, <1>6, <1>7, <1>8 DEF Sound, Linked, StackIn, SameStack
  <2>5. Coherent(n) /\ Grounded(n)
    BY <1>1, <1>6, <1>7 DEF Sound, Coherent, Grounded, SameEnvs
  <2> QED
    BY <1>1, <1>6, <1>7, <2>3, <2>4, <2>5 DEF Sound, Linked, SameEnvs, SameStack
<1>10. Private(n)
  BY <1>1, <1>3, <1>6, <1>7, <1>8 DEF Private, StackIn, SameEnvs, SameStack
<1>11. Mid(n, 4)
  BY <1>1, <1>6, <1>7, <1>9 DEF Mid, Kept, SameEnvs
<1>12. Ended(n)
  BY <1>1, <1>6, <1>10, <1>11, MidLess DEF Ended, Seen
<1>13. n = [m EXCEPT !.tables[t][k] = v]
  BY DEF n, ts, b
<1> QED
  BY <1>12, <1>13

LEMMA BindSteps ==
  ASSUME VMInv, op_bind
  PROVE  Steps
<1> DEFINE v0 == Top(M0)
           v1 == Top(M1)
           t  == Current(M2).bindings
<1>1. /\ Starting(M0) /\ Starting(M1) /\ Starting(M2) /\ Ended(handle_exception(M2))
      /\ Pushable(v0) /\ Pushable(v1)
  BY Begins, StartingEnds, TopPushable
<1> HIDE DEF v0, v1
<1>2. t \in Table /\ M2.tables[t] # Null
  <2>1. M2.env \in Live(M2) /\ M2.envs[M2.env] \in Environment
    BY <1>1, RunningLive
  <2> QED
    BY <1>1, <2>1 DEF Starting, Going, Mid, Sound, Linked, Current, Environment
<1> HIDE DEF t
<1>3. ASSUME IsSymbol(v0) PROVE Ended([M2 EXCEPT !.tables[t][v0.name] = v1])
  BY <1>1, <1>2, <1>3, SymbolNamed, Bound DEF Pushable
<1>4. Becomes(IF IsSymbol(v0) THEN [M2 EXCEPT !.tables[t][v0.name] = v1]
              ELSE handle_exception(M2))
  BY DEF op_bind, v0, v1, t
<1> QED
  BY <1>1, <1>3, <1>4 DEF Steps

\* The table where a symbol is found, and what is found there.
LEMMA FoundThere ==
  ASSUME Starting(M0), NEW k \in Symbol, Scope(k) # Null
  PROVE  LET t == M0.envs[Scope(k)].bindings
         IN  t \in Table /\ M0.tables[t] # Null /\ Pushable(M0.tables[t][k])
<1> DEFINE e == Scope(k)
           t == M0.envs[e].bindings
<1>1. Sound(M0) /\ Private(M0) /\ M0 \in State /\ M0.env = vm.env /\ Live(M0) = Live(vm)
  BY DEF Starting, Going, Mid, Sound
<1>2. e \in Live(M0) /\ M0.tables[t][k] # Null
  BY <1>1, ScopeFound
<1> HIDE DEF e
<1>3. t \in Table /\ M0.tables[t] # Null /\ M0.tables[t] \in Bindings
  BY <1>1, <1>2, StateFields DEF Sound, Linked, Environment
<1> HIDE DEF t
<1>4. M0.tables[t][k] \in Value
  BY <1>2, <1>3 DEF Bindings
<1>5. Holds(M0.tables[t][k]) \subseteq Live(M0)
      /\ Holds(M0.tables[t][k]) \subseteq Env \ {M0.env}
  BY <1>1, <1>2, <1>3 DEF Sound, Linked, Private, TablesIn, TableIn
<1>6. Pushable(M0.tables[t][k])
  BY <1>1, <1>4, <1>5 DEF Pushable
<1> QED
  BY <1>3, <1>6 DEF t, e

LEMMA ReadSteps ==
  ASSUME VMInv, op_read
  PROVE  Steps
<1> DEFINE v0 == Top(M0)
           k  == v0.name
           t  == M0.envs[Scope(k)].bindings
           n  == vm_push(M1, M0.tables[t][k])
<1>1. /\ Starting(M0) /\ Starting(M1) /\ Ended(handle_exception(M1)) /\ Pushable(v0)
  BY Begins, StartingEnds, TopPushable
<1> HIDE DEF v0
<1>2. ASSUME IsSymbol(v0), Scope(k) # Null PROVE Ended(n)
  <2>1. k \in Symbol
    BY <1>1, <1>2, SymbolNamed DEF Pushable
  <2> HIDE DEF k
  <2>2. Pushable(M0.tables[t][k])
    BY <1>1, <1>2, <2>1, FoundThere
  <2> HIDE DEF t
  <2>3. Starting(n)
    BY <1>1, <2>2, StartsPushed
  <2> QED
    BY <2>3, StartingEnds
<1>3. Becomes(IF ~ IsSymbol(v0) THEN handle_exception(M1)
              ELSE IF Scope(k) = Null THEN handle_exception(M1) ELSE n)
  BY DEF op_read, WithScope, v0
<1> QED
  BY <1>1, <1>2, <1>3 DEF Steps

LEMMA SetSteps ==
  ASSUME VMInv, op_set
  PROVE  Steps
<1> DEFINE v0 == Top(M0)
           v1 == Top(M1)
           k  == v0.name
           t  == M0.envs[Scope(k)].bindings
           n  == [M2 EXCEPT !.tables[t][k] = v1]
<1>1. /\ Starting(M0) /\ Starting(M1) /\ Starting(M2) /\ Ended(handle_exception(M2))
      /\ Pushable(v0) /\ Pushable(v1)
  BY Begins, StartingEnds, TopPushable
<1> HIDE DEF v0, v1
<1>2. ASSUME IsSymbol(v0), Scope(k) # Null PROVE Ended(n)
  <2>1. k \in Symbol
    BY <1>1, <1>2, SymbolNamed DEF Pushable
  <2> HIDE DEF k
  <2>2. t \in Table /\ M0.tables[t] # Null
    BY <1>1, <1>2, <2>1, FoundThere
  <2>3. M2.tables[t] # Null
    BY <1>1, <2>2 DEF Starting
  <2> HIDE DEF t
  <2> QED
    BY <1>1, <2>1, <2>2, <2>3, Bound
<1>3. Becomes(IF ~ IsSymbol(v0) THEN handle_exception(M2)
              ELSE IF Scope(k) = Null THEN handle_exception(M2) ELSE n)
  BY DEF op_set, WithScope, v0, v1
<1> QED
  BY <1>1, <1>2, <1>3 DEF Steps

LEMMA ImportSteps ==
  ASSUME VMInv, NEW o, op_import(o)
  PROVE  Steps
<1> DEFINE v == Pair(Number(0), Empty)
           l == vm_push(M1, Library)
           n == vm_push(l, v)
<1>1. Starting(M1) /\ Ended(handle_exception(M1))
  BY Begins, StartingEnds
<1>2. Ended(n)
  <2>1. Pushable(v) /\ Pushable(Library)
    BY PlainPushable
  <2> HIDE DEF v
  <2>2. Starting(l)
    BY <1>1, <2>1, StartsPushed
  <2> HIDE DEF l
  <2>3. Starting(n)
    BY <2>1, <2>2, StartsPushed
  <2> QED
    BY <2>3, StartingEnds
<1>3. Ended(Abort(M1))
  BY <1>1, AbortFields DEF Starting, Going, Mid, Sound, Ended
<1>4. Becomes(IF Top(M0) # String \/ o = "missing" THEN handle_exception(M1)
              ELSE IF o = "no exports" THEN Abort(M1) ELSE n)
  BY DEF op_import
<1> QED
  BY <1>1, <1>2, <1>3, <1>4 DEF Steps

\* What a function of a library may do.
Outcomes == {"bad number", "one past last", "even", "uneven"}

\* A function of a library may throw, and once more for the stack it leaves.
LEMMA CallExtSteps ==
  ASSUME VMInv, NEW o \in Outcomes, op_call_ext(o)
  PROVE  Steps
<1> DEFINE c == Called(o)
           h == handle_exception(M2)
           Fine(m) == Mid(m, 2) /\ Private(m) /\ Seen(m)
<1>1. Starting(M2) /\ Starting(M3)
  BY Begins
<1>2. ASSUME NEW m, Starting(m) PROVE Fine(m)
  <2>1. Mid(m, 4) /\ Private(m) /\ m.thrown = Null
    BY <1>2 DEF Starting, Going
  <2>2. Mid(m, 2)
    BY <2>1, MidLess
  <2> QED
    BY <2>1, <2>2 DEF Seen
<1>3. Fine(h)
  <2>1. Going(M2, 2 + 2)
    BY <1>1 DEF Starting
  <2> QED
    BY <2>1, Handled DEF Going, Seen
<1>4. Fine(vm_push(M3, Number(0))) /\ Fine(vm_push(M2, Number(0)))
  <2>1. Pushable(Number(0))
    BY PlainPushable DEF Literals
  <2> HIDE DEF Fine
  <2> QED
    BY <1>1, <1>2, <2>1, StartsPushed
<1>5. Abort(M2).status = "aborted"
  BY <1>1, AbortFields DEF Starting, Going, Mid, Sound
<1>6. c.status = "aborted" \/ Fine(c)
  <2> DEFINE threw == ~ IsNumber(Top(M0)) \/ Top(M1) # Library
  <2>1. c = CASE threw -> h
              [] o = "bad number" -> h
              [] o = "one past last" -> Abort(M2)
              [] o = "even" -> vm_push(M3, Number(0))
              [] o = "uneven" -> vm_push(M2, Number(0))
    BY DEF Called
  <2> HIDE DEF c, h, Fine, threw
  <2> DEFINE N == Number(0)
  <2>2. Fine(vm_push(M3, N)) /\ Fine(vm_push(M2, N))
    BY <1>4
  <2>3. c \in {h, Abort(M2), vm_push(M3, N), vm_push(M2, N)}
    <3>1. CASE ~ threw /\ o \in {"one past last", "even", "uneven"}
      BY <2>1, <3>1 DEF Outcomes
    <3>2. CASE threw \/ o = "bad number"
      BY <2>1, <3>2
    <3> QED
      BY <3>1, <3>2 DEF Outcomes
  <2> HIDE DEF N
  <2> QED
    BY <1>3, <1>5, <2>2, <2>3
<1> HIDE DEF c
<1>7. Ended(c)
  <2>1. ASSUME Mid(c, 2) PROVE Mid(c, 0)
    BY <2>1, MidLess
  <2> QED
    BY <1>6, <2>1 DEF Ended
<1>8. ASSUME c.status = "running" PROVE Ended(handle_exception(c))
  <2>1. Mid(c, 2) /\ Private(c)
    BY <1>6, <1>8
  <2>2. Mid(c, 0 + 2)
    BY <2>1
  <2>3. /\ Mid(handle_exception(c), 0) /\ Private(handle_exception(c))
        /\ HandlerHas(handle_exception(c))
    BY <2>1, <2>2, Handled
  <2> QED
    BY <2>3 DEF Ended, Seen
<1>9. Becomes(IF c.status = "running" /\ c.depth # M2.depth THEN handle_exception(c) ELSE c)
  BY DEF op_call_ext, c
<1> QED
  BY <1>7, <1>8, <1>9 DEF Steps

-----------------------------------------------------------------------------
(***************************************************************************)
(* The invariant.                                                          *)
(***************************************************************************)

\* What holds as each instruction starts.
IInv == VMInv /\ (vm.status = "running" => Seen(vm))

LEMMA InitInv ==
  ASSUME Init
  PROVE  IInv
<1> DEFINE none == [e \in Env |-> Null]
           bare == [t \in Table |-> Null]
           i == [env |-> Null, stack |-> <<>>, depth |-> 0, status |-> "running",
                 thrown |-> Null, envs |-> none, tables |-> bare]
           x == NewEnv(i)
           t == NewTable(i)
           r0 == [code |-> Main, length |-> 0, ip |-> 0, bindings |-> t,
                  handler |-> FALSE, handler_addr |-> 0, parent |-> Null]
           r1 == [r0 EXCEPT !.code = Main]
           r == [r1 EXCEPT !.length = Length[Main]]
           b == [k \in Symbol |-> Null]
           es == [none EXCEPT ![x] = r]
           ts == [bare EXCEPT ![t] = b]
           w == [env |-> x, stack |-> <<>>, depth |-> 0, status |-> "running",
                 thrown |-> Null, envs |-> es, tables |-> ts]
<1>1. x \in Env /\ t \in Table
  <2>1. Env # {} /\ Table # {}
    BY VMAssumption, FS_EmptySet
  <2>2. x = CHOOSE e \in Env : TRUE
    BY DEF NewEnv
  <2> QED
    BY <2>1 DEF NewEnv, NewTable
<1>2. vm = w
  <2>1. vm_create = push_env(i)
    BY DEF vm_create
  <2> DEFINE P == [code |-> IF i.env = Null THEN Main ELSE i.envs[i.env].code,
                   length |-> IF i.env = Null THEN 0 ELSE i.envs[i.env].length,
                   ip |-> IF i.env = Null THEN 0 ELSE i.envs[i.env].ip,
                   bindings |-> t, handler |-> FALSE, handler_addr |-> 0, parent |-> i.env]
             e0 == [none EXCEPT ![x] = r0]
             m0 == [env |-> x, stack |-> <<>>, depth |-> 0, status |-> "running",
                    thrown |-> Null, envs |-> e0, tables |-> ts]
  <2>2. push_env(i) = [i EXCEPT !.tables[t] = b, !.envs[x] = P, !.env = x]
    BY DEF push_env
  <2>3. P = r0
    OBVIOUS
  <2> HIDE DEF P, r0, r1, r, b, none, bare
  <2>4. push_env(i) = [i EXCEPT !.tables[t] = b, !.envs[x] = r0, !.env = x]
    BY <2>2, <2>3
  <2>5. push_env(i) = m0
    <3> HIDE DEF x, t
    <3> QED
      BY <2>4
  <2> HIDE DEF x, t, ts
  <2>6. vm = [[m0 EXCEPT !.envs[m0.env].code = Main] EXCEPT !.envs[m0.env].length = Length[Main]]
    BY <2>1, <2>5 DEF Init, Start
  <2> DEFINE e1 == [e0 EXCEPT ![x].code = Main]
             e2 == [e1 EXCEPT ![x].length = Length[Main]]
  <2>7. vm = [m0 EXCEPT !.envs = e2]
    BY <2>6
  <2>8. none \in [Env -> {Null}] /\ e0[x] = r0
    BY <1>1 DEF none
  <2>9. e1 = [e0 EXCEPT ![x] = r1] /\ e1[x] = r1
    BY <1>1, <2>8 DEF r1
  <2>10. e2 = [e1 EXCEPT ![x] = r]
    BY <1>1, <2>9 DEF r
  <2>11. e2 = es
    <3>1. e1 = [none EXCEPT ![x] = r1]
      BY <1>1, <2>8, <2>9
    <3> HIDE DEF e1, e0
    <3> QED
      BY <1>1, <2>8, <2>10, <3>1
  <2> HIDE DEF e0, e1, e2, es
  <2> QED
    BY <2>7, <2>11
<1> HIDE DEF x, t
<1>3. r \in Environment /\ r.parent = Null /\ r.bindings = t /\ b \in Bindings
  <2> DEFINE l == Length[Main]
  <2>1. l \in Nat /\ Main \in Code
    BY VMAssumption
  <2> HIDE DEF l
  <2>2. r0 \in Environment /\ r0.parent = Null /\ r0.bindings = t
    BY <1>1, <2>1 DEF Environment
  <2> HIDE DEF r0
  <2>3. r1 \in Environment /\ r1.parent = Null /\ r1.bindings = t
    BY <2>1, <2>2 DEF Environment
  <2> HIDE DEF r1
  <2>4. r \in Environment /\ r.parent = Null /\ r.bindings = t
    BY <2>1, <2>3 DEF Environment, l
  <2> QED
    BY <2>4 DEF Bindings
<1> HIDE DEF r0, r1, r, b
<1>4. /\ es \in [Env -> Environment \cup {Null}] /\ es[x] = r
      /\ \A e \in Env \ {x} : es[e] = Null
  BY <1>1, <1>3
<1>5. /\ ts \in [Table -> Bindings \cup {Null}] /\ ts[t] = b
      /\ \A u \in Table \ {t} : ts[u] = Null
  BY <1>1, <1>3
<1> HIDE DEF es, ts
<1>6. w \in State
  BY <1>1, <1>4, <1>5 DEF State
<1>7. Live(w) = {x} /\ {u \in Table : w.tables[u] # Null} = {t}
  BY <1>1, <1>3, <1>4, <1>5, VMAssumption DEF Live
<1>8. Sound(w) /\ Private(w)
  <2>1. ts[t] # Null /\ \A k \in Symbol : ts[t][k] = Null
    BY <1>3, <1>5, VMAssumption DEF b
  <2>2. \A E : StackIn(w, E) /\ TablesIn(w, E)
    BY <1>5, <2>1 DEF StackIn, TablesIn, TableIn
  <2>3. Linked(w) /\ Coherent(w)
    BY <1>3, <1>4, <1>7, <2>1, <2>2 DEF Linked, Coherent
  <2>4. w.env # Null /\ \A e \in Live(w) : w.envs[e].parent # w.env
    BY <1>1, <1>3, <1>4, <1>7, VMAssumption
  <2>5. Grounded(w)
    BY <1>1, <1>3, <1>4, <1>7, VMAssumption DEF Grounded
  <2> QED
    BY <1>6, <1>7, <2>2, <2>3, <2>4, <2>5 DEF Sound, Private
<1>9. Cardinality({x}) <= MaxEnv /\ Cardinality({t}) <= MaxTable
  <2>1. Cardinality({x}) = 1 /\ Cardinality({t}) = 1
    BY FS_Singleton
  <2> QED
    BY <2>1, VMAssumption
<1> HIDE DEF w
<1>10. VMInv
  BY <1>2, <1>7, <1>8, <1>9 DEF VMInv
<1>11. Seen(vm)
  BY <1>2 DEF w, Seen
<1> QED
  BY <1>10, <1>11 DEF IInv

LEMMA Ending ==
  ASSUME VMInv, Exit
  PROVE  IInv' /\ FrozenStep
<1> DEFINE n == [vm EXCEPT !.status = "done"]
<1>1. vm \in State /\ Sound(vm) /\ Private(vm)
  BY DEF VMInv, Sound
<1>2. /\ n \in State /\ SameEnvs(vm, n) /\ SameStack(vm, n) /\ SameTables(vm, n)
      /\ n.status = "done"
  BY <1>1 DEF State, SameEnvs, SameStack, SameTables
<1>3. vm' = n
  BY DEF Exit
<1> HIDE DEF n
<1>4. Live(n) = Live(vm)
  BY <1>2 DEF Live, SameEnvs
<1>5. Sound(n) /\ Private(n)
  BY SMTT(30), <1>1, <1>2, <1>4 DEF Sound, Linked, Coherent, Grounded, Private, StackIn, TablesIn,
                           TableIn, SameEnvs, SameStack, SameTables
<1>6. Cardinality(Live(n)) <= MaxEnv
      /\ Cardinality({t \in Table : n.tables[t] # Null}) <= MaxTable
  BY <1>2, <1>4 DEF VMInv, SameTables
<1>7. VMInv'
  BY <1>3, <1>5, <1>6 DEF VMInv
<1>8. FrozenStep
  BY <1>2, <1>3 DEF FrozenStep, SameEnvs
<1> QED
  BY <1>2, <1>3, <1>7, <1>8 DEF IInv

\* One step for each instruction, and the end of the loop.
LEMMA NextInv ==
  ASSUME IInv, [Next]_vm
  PROVE  IInv' /\ FrozenStep
<1>1. VMInv
  BY DEF IInv
<1>2. ASSUME Steps PROVE IInv' /\ FrozenStep
  <2>1. PICK m : Ended(m) /\ Becomes(m)
    BY <1>2 DEF Steps
  <2> QED
    BY <1>1, <2>1, Became DEF IInv
<1>3. ASSUME NEW v \in Literals, op_lit(v) PROVE Steps
  BY <1>1, <1>3, StackSteps
<1>4. ASSUME NEW k \in Symbol, op_make_symbol(k) PROVE Steps
  BY <1>1, <1>4, MakeSymbolSteps
<1>5. CASE op_swap \/ op_rot \/ op_dup_ref \/ op_drop
  BY <1>1, <1>2, <1>5, StackSteps
<1>6. CASE op_car \/ op_cdr
  BY <1>1, <1>2, <1>6, PairSteps
<1>7. ASSUME NEW a \in Addresses, op_jmp(a) \/ op_jnf(a) PROVE Steps
  BY <1>1, <1>7, JumpSteps
<1>8. ASSUME NEW a \in Addresses, op_call(a) PROVE Steps
  BY <1>1, <1>8, CallSteps
<1>9. ASSUME NEW a \in Addresses, op_proc(a) PROVE Steps
  BY <1>1, <1>9, ProcSteps
<1>10. ASSUME NEW a \in Addresses, op_continue(a) PROVE Steps
  BY <1>1, <1>10, HandlerSteps
<1>11. CASE op_adopt
  BY <1>1, <1>2, <1>11, AdoptSteps
<1>12. CASE op_jin
  BY <1>1, <1>2, <1>12, JinSteps
<1>13. CASE op_ret \/ op_call_in \/ op_tail_call_in
  BY <1>1, <1>2, <1>13, ReturnSteps
<1>14. CASE op_restore
  BY <1>1, <1>2, <1>14, HandlerSteps
<1>15. CASE op_bind
  BY <1>1, <1>2, <1>15, BindSteps
<1>16. CASE op_read
  BY <1>1, <1>2, <1>16, ReadSteps
<1>17. CASE op_set
  BY <1>1, <1>2, <1>17, SetSteps
<1>18. ASSUME NEW c \in Code \ {Main}, op_asm(c) PROVE Steps
  BY <1>1, <1>18, AsmSteps
<1>19. ASSUME NEW o, op_import(o) PROVE Steps
  BY <1>1, <1>19, ImportSteps
<1>20. ASSUME NEW o \in Outcomes, op_call_ext(o) PROVE Steps
  BY <1>1, <1>20, CallExtSteps
<1>21. CASE Exit
  BY <1>1, <1>21, Ending
<1>22. CASE vm' = vm
  <2>1. VMInv' = VMInv /\ IInv'
    BY SMTT(30), <1>22 DEF IInv, VMInv, Sound, Private, Linked, Coherent, Grounded, StackIn, TablesIn, TableIn,
                 Live, Seen, HandlerHas
  <2> QED
    BY <1>22, <2>1 DEF FrozenStep
<1> QED
  BY <1>2, <1>3, <1>4, <1>5, <1>6, <1>7, <1>8, <1>9, <1>10, <1>11, <1>12, <1>13, <1>14,
     <1>15, <1>16, <1>17, <1>18, <1>19, <1>20, <1>21, <1>22
  DEF Next, Terminated, Outcomes

\* Whatever instructions follow each other, what is referred to is there, nothing
\* refers to the environment that runs, and environments that share bindings share
\* a parent: every operator of vm_env.c, vm_exception.c and the instructions.
THEOREM Invariance == Spec => []IInv
<1>1. Init => IInv
  BY InitInv
<1>2. IInv /\ [Next]_vm => IInv'
  BY NextInv
<1> QED
  BY <1>1, <1>2, PTL DEF Spec

\* The machine is always well formed, vm->depth is the number of values on the
\* stack, and every environment that something reaches is there with its table.
THEOREM TypeCorrect == Spec => []TypeOK
<1>1. IInv => TypeOK
  BY DEF IInv, VMInv, Sound, Linked, TypeOK
<1> QED
  BY <1>1, Invariance, PTL

\* op_call and op_call_in capture vm->env itself, and the instructions that move
\* ip still only move that of an environment nothing else refers to.
THEOREM RunningAlone == Spec => []RunningPrivate
<1>1. IInv => RunningPrivate
  BY HeldLive DEF IInv, VMInv, Private, RunningPrivate
<1> QED
  BY <1>1, Invariance, PTL

\* After op_jin and op_adopt, which put together an environment from two, all
\* clones of a frame still have the same outer scopes.
THEOREM FramesCoherent == Spec => []FrameCoherent
<1>1. IInv => FrameCoherent
  BY DEF IInv, VMInv, Sound, Coherent, FrameCoherent
<1> QED
  BY <1>1, Invariance, PTL

\* From every environment the parents lead to an end, so that the searches for a
\* handler and for a symbol's table, in vm_exception.c and vm_locations.c, end.
THEOREM SearchesEnd == Spec => []ChainsEnd
<1>1. ASSUME VMInv, NEW e \in Live(vm)
      PROVE  Chain([vm EXCEPT !.env = e])[Cardinality(Env)] = Null
  <2> DEFINE m == [vm EXCEPT !.env = e]
  <2>1. vm \in State /\ Sound(vm) /\ e \in Env
    BY <1>1 DEF VMInv, Sound, Live
  <2>2. m \in State /\ m.envs = vm.envs /\ m.env = e /\ SameStack(vm, m) /\ SameTables(vm, m)
    BY <2>1, EnvFields
  <2> HIDE DEF m
  <2>3. Live(m) = Live(vm)
    BY <2>2 DEF Live
  <2>4. Sound(m)
    BY <1>1, <2>1, <2>2, <2>3 DEF Sound, Linked, Coherent, Grounded, StackIn, TablesIn,
                                  TableIn, SameStack, SameTables
  <2>5. Chain(m)[Cardinality(Env)] = Null
    BY <2>4, ChainEnds
  <2> QED
    BY <2>5 DEF m
<1>2. IInv => ChainsEnd
  BY <1>1 DEF IInv, ChainsEnd
<1> QED
  BY <1>2, Invariance, PTL

\* No instruction changes an environment that a closure holds, before and after
\* it: what it captured can be resumed again and again.
THEOREM Reentrant == Spec => CapturedFrozen
<1>1. IInv /\ [Next]_vm => FrozenStep
  BY NextInv
<1>2. FrozenStep => [\A e \in HeldByClosures(vm) \cap HeldByClosures(vm') :
                       vm'.envs[e] = vm.envs[e]]_vm
  BY DEF FrozenStep
<1> QED
  BY <1>1, <1>2, Invariance, PTL DEF Spec, CapturedFrozen

\* A program without op_make_symbol finds the exception on top of the stack as
\* its handler starts (op_make_symbol pushes its symbol after the throw).
THEOREM HandlersSee ==
  ASSUME "make_symbol" \notin Instructions
  PROVE  Spec => []HandlerSeesException
<1>1. IInv => HandlerSeesException
  BY DEF IInv, Seen, HandlerHas, HandlerSeesException
<1> QED
  BY <1>1, Invariance, PTL
=============================================================================
