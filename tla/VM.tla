--------------------------------- MODULE VM ---------------------------------
(***************************************************************************)
(* The control machinery of the virtual machine in libinsomniac_vm: the    *)
(* operand stack, environments and their clones, closures, calls, tail     *)
(* calls and returns, scopes, and exceptions.                              *)
(*                                                                         *)
(* The state is the struct vm_internal with the environments and binding   *)
(* tables it reaches; an operator named after a C function takes the       *)
(* machine and returns the machine the function leaves.  The program is    *)
(* any program: at each step any instruction of Instructions may be next.  *)
(* An instruction and its operand occupy one address, and a jump offset is *)
(* replaced by the address it leads to: the assembler resolves a label to  *)
(* an address of the same code.                                            *)
(*                                                                         *)
(* Environments and tables the machine no longer reaches are gone at the   *)
(* end of an instruction: that is what module Heap promises.               *)
(***************************************************************************)
EXTENDS Data, Naturals, Sequences, FiniteSets

CONSTANTS
  Env, Table,     \* addresses of environments and binding tables
  Symbol,         \* symbols a program uses
  Code,           \* blocks of byte code: Main and those op_asm makes
  Main,
  Length,         \* the number of instructions of each
  Instructions,   \* the instructions that programs use
  Null,
  MaxEnv, MaxTable, MaxDepth \* bounds on what is live and on the stack

\* [env, stack, depth, status] of the machine, [envs, tables] of its heap, and
\* the history [thrown]: the resumption point in the last exception the last
\* instruction threw, or Null.
VARIABLE vm

Literals == {Number(0), False, String, Empty} \cup {Sym(k) : k \in Symbol}

\* An exception is the list of its message, a closure that resumes after the
\* instruction, and the given objects, which are left out.
Exception(e) == Pair(String, Pair(Closure(e), Empty))

\* What an environment and a binding table are: env_type, and a hash of values.
\* The values are those of the instructions of this module.
Environment ==
  [code : Code, length : Nat, ip : Nat, bindings : Table,
   handler : BOOLEAN, handler_addr : Nat, parent : Env \cup {Null}]

Value ==
  Literals \cup {Library, Pair(Number(0), Empty)}
  \cup {Closure(e) : e \in Env} \cup {Pair(Closure(e), Empty) : e \in Env}
  \cup {Exception(e) : e \in Env}

Bindings == [Symbol -> Value \cup {Null}]

ASSUME VMAssumption ==
  /\ Main \in Code
  /\ Length \in [Code -> Nat \ {0}]
  /\ MaxEnv \in Nat \ {0} /\ MaxTable \in Nat \ {0} /\ MaxDepth \in Nat
  /\ IsFiniteSet(Env) /\ Cardinality(Env) >= MaxEnv + 4 \* one instruction makes at most four
  /\ IsFiniteSet(Table) /\ Cardinality(Table) >= MaxTable + 1
  /\ Null \notin Env \cup Table \cup Environment \cup Bindings

(***************************************************************************)
(* What the machine reaches.                                               *)
(***************************************************************************)

\* The environments that exist.
Live(m) == {e \in Env : m.envs[e] # Null}

Values(m, T) ==
  {m.stack[i] : i \in DOMAIN m.stack} \cup
  UNION {{m.tables[t][k] : k \in {s \in Symbol : m.tables[t][s] # Null}} : t \in T}

Captured(m, T) == UNION {Holds(v) : v \in Values(m, T)}

TablesOf(m, E) == {m.envs[e].bindings : e \in E}

\* These environments, and what they and the stack refer to.
Referred(m, E) == (E \cup {m.envs[e].parent : e \in E} \cup Captured(m, TablesOf(m, E))) \ {Null}

LiveEnvs(m) ==
  LET Reach[E \in SUBSET Live(m)] == IF Referred(m, E) = E THEN E ELSE Reach[Referred(m, E)]
  IN  Reach[{m.env}]

Collect(m) ==
  LET E == LiveEnvs(m)
      T == TablesOf(m, E)
  IN  [m EXCEPT !.envs   = [e \in Env |-> IF e \in E THEN @[e] ELSE Null],
                !.tables = [t \in Table |-> IF t \in T THEN @[t] ELSE Null]]

NewEnv(m)   == CHOOSE e \in Env : m.envs[e] = Null
NewTable(m) == CHOOSE t \in Table : m.tables[t] = Null

(***************************************************************************)
(* vm_core.c, vm_env.c, vm_exception.c                                     *)
(***************************************************************************)

Current(m) == m.envs[m.env]

Abort(m) == [m EXCEPT !.status = "aborted"]

vm_push(m, v) == [m EXCEPT !.stack = <<v>> \o @, !.depth = @ + 1]

\* Mutant: the depth is not counted down.
vm_pop_depth(m) == IF m.stack = <<>> THEN Abort(m) ELSE [m EXCEPT !.stack = Tail(@)]

\* A stack under run is fatal.
vm_pop(m) ==
  IF m.stack = <<>> THEN Abort(m) ELSE [m EXCEPT !.stack = Tail(@), !.depth = @ - 1]

\* What vm_pop returns.
Top(m) == IF m.stack = <<>> THEN Number(0) ELSE Head(m.stack)

\* clone_env, cow or not: its only caller that asks for a duplicate of the
\* bindings replaces it.
clone_env(m, target, e) == [m EXCEPT !.envs[target] = m.envs[e]]

\* vm->env becomes a clone of environment e.
Enter(m, e) == LET n == NewEnv(m) IN [clone_env(m, n, e) EXCEPT !.env = n]

\* Mutant: vm->env is replaced before it is made the parent.
push_env_swapped(m) ==
  LET n == NewEnv(m)
      t == NewTable(m)
      p == m.env
  IN  [m EXCEPT
         !.tables[t] = [k \in Symbol |-> Null],
         !.envs[n] = [code |-> IF p = Null THEN Main ELSE m.envs[p].code,
                      length |-> IF p = Null THEN 0 ELSE m.envs[p].length,
                      ip |-> IF p = Null THEN 0 ELSE m.envs[p].ip,
                      bindings |-> t, handler |-> FALSE, handler_addr |-> 0,
                      parent |-> IF p = Null THEN Null ELSE n],
         !.env = n]

\* A child of the current environment that goes on where it stands.
push_env(m) ==
  LET n == NewEnv(m)
      t == NewTable(m)
      p == m.env
  IN  [m EXCEPT
         !.tables[t] = [k \in Symbol |-> Null],
         !.envs[n] = [code |-> IF p = Null THEN Main ELSE m.envs[p].code,
                      length |-> IF p = Null THEN 0 ELSE m.envs[p].length,
                      ip |-> IF p = Null THEN 0 ELSE m.envs[p].ip,
                      bindings |-> t, handler |-> FALSE, handler_addr |-> 0, parent |-> p],
         !.env = n]

\* The environments from vm->env outward.
Chain(m) ==
  LET at[n \in 0..Cardinality(Env)] ==
        IF n = 0 THEN m.env ELSE IF at[n - 1] = Null THEN Null ELSE m.envs[at[n - 1]].parent
  IN  at

\* The first environment outward for which P holds, or Null.
FirstOutward(m, P(_)) ==
  LET at    == Chain(m)
      found == {n \in DOMAIN at : at[n] # Null /\ P(at[n])}
  IN  IF found = {} THEN Null ELSE at[CHOOSE n \in found : \A l \in found : n <= l]

\* Mutant: the exception is not pushed.
Thrown_silent(m) ==
  LET n == NewEnv(m) IN [clone_env(m, n, m.env) EXCEPT !.thrown = n]

Thrown(m) ==
  LET n == NewEnv(m)
  IN  [vm_push(clone_env(m, n, m.env), Exception(n)) EXCEPT !.thrown = n]

\* Mutant: the environment found goes on itself, not a clone of it.
handle_exception_in_place(m) ==
  LET t == Thrown(m)
      h == FirstOutward(t, LAMBDA e : t.envs[e].handler)
  IN  IF h = Null THEN Abort(t)
      ELSE [t EXCEPT !.env = h, !.envs[h].handler = FALSE, !.envs[h].ip = t.envs[h].handler_addr]

\* throw.  Nothing is taken off the stack; the handler runs in a clone of the
\* environment that has it, where it is off.  (throw_fatal is Abort.)
handle_exception(m) ==
  LET t == Thrown(m)
      h == FirstOutward(t, LAMBDA e : t.envs[e].handler)
      c == Enter(t, h)
  IN  IF h = Null THEN Abort(t)
      ELSE [c EXCEPT !.envs[c.env].handler = FALSE, !.envs[c.env].ip = t.envs[h].handler_addr]

(***************************************************************************)
(* vm_eval                                                                 *)
(***************************************************************************)

vm_create ==
  push_env([env |-> Null, stack |-> <<>>, depth |-> 0, status |-> "running", thrown |-> Null,
            envs |-> [e \in Env |-> Null], tables |-> [t \in Table |-> Null]])

\* A new machine at the entry into vm_eval, with code c of the given length.
Start(c, length) ==
  LET m == vm_create IN [m EXCEPT !.envs[m.env].code = c, !.envs[m.env].length = length]

Init == vm = Start(Main, Length[Main])

\* The increment of ip and parse_int.
Fetch(m) == [m EXCEPT !.envs[m.env].ip = @ + 1, !.thrown = Null]

Running == vm.status = "running" /\ Current(vm).ip < Current(vm).length

Executing(name) == name \in Instructions /\ Running

\* An instruction leaves machine m.  assert(0) ends the program.  (Bound by \E,
\* c is computed once.)
Becomes(m) ==
  \E c \in {IF m.status = "aborted" THEN Abort(vm) ELSE Collect(m)} :
  /\ Len(c.stack) <= MaxDepth
  /\ Cardinality(Live(c)) <= MaxEnv
  /\ Cardinality({t \in Table : c.tables[t] # Null}) <= MaxTable
  /\ vm' = c

Addresses == 0..Current(vm).length

Goto(m, a) == [m EXCEPT !.envs[m.env].ip = a]

\* The machine as an instruction starts, and when it has popped one, two or
\* three values.
M0 == Fetch(vm)
M1 == vm_pop(M0)
M2 == vm_pop(M1)
M3 == vm_pop(M2)

-----------------------------------------------------------------------------
(***************************************************************************)
(* vm_literals.c, vm_stack.c, vm_list.c                                    *)
(***************************************************************************)

op_lit(v) == Executing(v.kind) /\ Becomes(vm_push(M0, v))

\* The values with a pointer where a string has its bytes; in the others there
\* is a null pointer.
HasText(v) == v.kind \in {"string", "symbol", "library"} \/ IsPair(v)

\* After the throw the object is made a symbol all the same and pushed.  What it
\* becomes is any symbol.
op_make_symbol(k) ==
  /\ Executing("make_symbol")
  /\ Becomes(IF ~ HasText(Top(M0)) THEN Abort(M1)
             ELSE vm_push(IF Top(M0) # String THEN handle_exception(M1) ELSE M1, Sym(k)))

op_swap == Executing("swap") /\ Becomes(vm_push(vm_push(M2, Top(M0)), Top(M1)))

op_rot == Executing("rot") /\ Becomes(vm_push(vm_push(vm_push(M3, Top(M0)), Top(M2)), Top(M1)))

op_dup_ref == Executing("dup") /\ Becomes(vm_push(vm_push(M1, Top(M0)), Top(M0)))

op_drop == Executing("drop") /\ Becomes(M1)

op_car ==
  /\ Executing("car")
  /\ Becomes(IF IsPair(Top(M0)) THEN vm_push(M1, Top(M0).car) ELSE handle_exception(M1))

op_cdr ==
  /\ Executing("cdr")
  /\ Becomes(IF IsPair(Top(M0)) THEN vm_push(M1, Top(M0).cdr) ELSE handle_exception(M1))

(***************************************************************************)
(* vm_jump.c                                                               *)
(***************************************************************************)

op_jmp(a) == Executing("jmp") /\ Becomes(Goto(M0, a))

op_jnf(a) == Executing("jnf") /\ Becomes(IF Top(M0) = False THEN M1 ELSE Goto(M1, a))

\* The return closure holds the current environment itself.
op_call(a) == Executing("call") /\ Becomes(Goto(push_env(vm_push(M0, Closure(M0.env))), a))

op_proc(a) ==
  /\ Executing("proc")
  /\ LET n == NewEnv(M0)
     IN  Becomes(vm_push([clone_env(M0, n, M0.env) EXCEPT !.envs[n].ip = a], Closure(n)))

\* A clone of the child with the frame of another environment.
Adopt(child, frame) ==
  LET n == NewEnv(M2)
  IN  vm_push([clone_env(M2, n, child) EXCEPT !.envs[n].parent = M2.envs[frame].parent,
                                             !.envs[n].bindings = M2.envs[frame].bindings],
              Closure(n))

\* Mutant: the clone keeps the child's own parent.
op_adopt_parent ==
  /\ Executing("adopt")
  /\ LET n == NewEnv(M2) IN
     Becomes(IF ~ IsClosure(Top(M0)) \/ ~ IsClosure(Top(M1)) THEN handle_exception(M2)
             ELSE vm_push([clone_env(M2, n, Top(M1).env) EXCEPT
                             !.envs[n].bindings = M2.envs[Top(M0).env].bindings], Closure(n)))

\* The code of the closure below the top, in the frame of the one on top.
op_adopt ==
  /\ Executing("adopt")
  /\ Becomes(IF IsClosure(Top(M0)) /\ IsClosure(Top(M1)) THEN Adopt(Top(M1).env, Top(M0).env)
             ELSE handle_exception(M2))

\* The instructions that pop a closure to go to.
WithClosure(there) == Becomes(IF IsClosure(Top(M0)) THEN there ELSE handle_exception(M1))

\* The closure's code and handler in the current frame.
op_jin ==
  /\ Executing("jin")
  /\ LET c == Enter(M1, Top(M0).env)
     IN  WithClosure([c EXCEPT !.envs[c.env].bindings = Current(M0).bindings,
                               !.envs[c.env].parent = Current(M0).parent])

\* Mutant: the captured environment itself goes on.
op_ret_in_place == Executing("ret") /\ WithClosure([M1 EXCEPT !.env = Top(M0).env])

op_ret == Executing("ret") /\ WithClosure(Enter(M1, Top(M0).env))

op_call_in ==
  /\ Executing("call_in")
  /\ WithClosure(push_env(Enter(vm_push(M1, Closure(M1.env)), Top(M0).env)))

\* The two values below the closure are swapped: return address and arguments.
op_tail_call_in ==
  /\ Executing("tail_call_in")
  /\ WithClosure(push_env(Enter(vm_push(vm_push(M3, Top(M1)), Top(M2)), Top(M0).env)))

op_continue(a) ==
  /\ Executing("continue")
  /\ Becomes([M0 EXCEPT !.envs[M0.env].handler = TRUE, !.envs[M0.env].handler_addr = a])

op_restore == Executing("restore") /\ Becomes([M0 EXCEPT !.envs[M0.env].handler = TRUE])

(***************************************************************************)
(* vm_locations.c                                                          *)
(***************************************************************************)

\* The environment whose bindings have symbol k, or Null.
Scope(k) == FirstOutward(M0, LAMBDA e : M0.tables[M0.envs[e].bindings][k] # Null)

\* The throw for a key that is no symbol, or for one that is not defined.
WithScope(key, undone, found(_)) ==
  Becomes(IF ~ IsSymbol(key) THEN handle_exception(undone)
          ELSE IF Scope(key.name) = Null THEN handle_exception(undone)
          ELSE found(M0.envs[Scope(key.name)].bindings))

op_bind ==
  /\ Executing("bind")
  /\ Becomes(IF IsSymbol(Top(M0))
             THEN [M2 EXCEPT !.tables[Current(M2).bindings][Top(M0).name] = Top(M1)]
             ELSE handle_exception(M2))

op_read ==
  /\ Executing("read")
  /\ WithScope(Top(M0), M1, LAMBDA t : vm_push(M1, M0.tables[t][Top(M0).name]))

op_set ==
  /\ Executing("set")
  /\ WithScope(Top(M0), M2, LAMBDA t : [M2 EXCEPT !.tables[t][Top(M0).name] = Top(M1)])

(***************************************************************************)
(* vm_library.c                                                            *)
(***************************************************************************)

\* The closure runs the assembled code c in a clone of the current environment.
\* Handler and handler address come along: a throw in c goes to that address in c.
op_asm(c) ==
  /\ Executing("asm")
  /\ LET n == NewEnv(M0) IN
     Becomes(IF Top(M0) # String THEN handle_exception(M1)
             ELSE vm_push([clone_env(M1, n, M0.env) EXCEPT !.envs[n].code = c, !.envs[n].ip = 0,
                                                             !.envs[n].length = Length[c]],
                          Closure(n)))

\* A library leaves its handle and the list of what it exports.  One that does
\* not load throws; one without an export list throws, and then the list of its
\* exports is read through a null pointer.
op_import(outcome) ==
  /\ Executing("import")
  /\ Becomes(IF Top(M0) # String \/ outcome = "missing" THEN handle_exception(M1)
             ELSE IF outcome = "no exports" THEN Abort(M1)
             ELSE vm_push(vm_push(M1, Library), Pair(Number(0), Empty)))

\* What the function does to the stack, if there is one: it replaces its
\* argument by a value, or it does not.  The number one past the last passes the
\* test and calls a null pointer.
Called(outcome) ==
  CASE ~ IsNumber(Top(M0)) \/ Top(M1) # Library -> handle_exception(M2)
    [] outcome = "bad number"    -> handle_exception(M2)
    [] outcome = "one past last" -> Abort(M2)
    [] outcome = "even"          -> vm_push(M3, Number(0))
    [] outcome = "uneven"        -> vm_push(M2, Number(0))

\* A throw for the operands leaves the stack uneven, so that a second follows.
op_call_ext(outcome) ==
  /\ Executing("call_ext")
  /\ LET c == Called(outcome)
     IN  Becomes(IF c.status = "running" /\ c.depth # M2.depth THEN handle_exception(c) ELSE c)

-----------------------------------------------------------------------------
\* The loop of vm_eval ends when ip has passed the code.
Exit ==
  /\ vm.status = "running" /\ ~ Running
  /\ vm' = [vm EXCEPT !.status = "done"]

Terminated == vm.status # "running" /\ UNCHANGED vm

Next ==
  \/ \E v \in Literals : op_lit(v)
  \/ \E k \in Symbol : op_make_symbol(k)
  \/ op_swap \/ op_rot \/ op_dup_ref \/ op_drop \/ op_car \/ op_cdr
  \/ \E a \in Addresses : op_jmp(a)
  \/ \E a \in Addresses : op_jnf(a)
  \/ \E a \in Addresses : op_call(a)
  \/ \E a \in Addresses : op_proc(a)
  \/ \E a \in Addresses : op_continue(a)
  \/ op_adopt \/ op_jin \/ op_ret \/ op_call_in \/ op_tail_call_in \/ op_restore
  \/ op_bind \/ op_read \/ op_set
  \/ \E c \in Code \ {Main} : op_asm(c)
  \/ \E o \in {"loaded", "missing", "no exports"} : op_import(o)
  \/ \E o \in {"bad number", "one past last", "even", "uneven"} : op_call_ext(o)
  \/ Exit
  \/ Terminated

Spec == Init /\ [][Next]_vm

-----------------------------------------------------------------------------
(***************************************************************************)
(* Properties.                                                             *)
(***************************************************************************)

\* What the machine is made of, whatever instruction it is in.
State ==
  [env : Env, stack : Seq(Value), depth : Nat, status : {"running", "done", "aborted"},
   thrown : Env \cup {Null},
   envs : [Env -> Environment \cup {Null}], tables : [Table -> Bindings \cup {Null}]]

\* Every environment refers to live ones, and vm->depth is the number of values
\* on the stack (op_depth and the test in op_call_ext read it).
TypeOK ==
  /\ vm \in State
  /\ vm.env \in Live(vm)
  /\ vm.depth = Len(vm.stack)
  /\ \A e \in Live(vm) :
       /\ vm.envs[e].parent \in Live(vm) \cup {Null}
       /\ vm.tables[vm.envs[e].bindings] # Null

HeldByClosures(m) == Captured(m, {t \in Table : m.tables[t] # Null})

\* Nothing else refers to the environment that runs: op_call and op_call_in
\* capture vm->env itself, so the instructions that move ip may only ever move
\* that of an environment no closure and no child can see.
RunningPrivate ==
  /\ vm.env \notin HeldByClosures(vm)
  /\ \A e \in Live(vm) : vm.envs[e].parent # vm.env

\* A captured environment never changes while it is held: a return address, a
\* procedure or the resumption point of an exception can be used any number of
\* times, which is what call/cc is built on.
CapturedFrozen ==
  [][\A e \in HeldByClosures(vm) \cap HeldByClosures(vm') : vm'.envs[e] = vm.envs[e]]_vm

\* All clones of a frame see the same outer scopes: environments that share
\* their bindings have the same parent, after op_jin and op_adopt too.
FrameCoherent ==
  \A e, f \in Live(vm) :
    vm.envs[e].bindings = vm.envs[f].bindings => vm.envs[e].parent = vm.envs[f].parent

\* The chain of parents ends, so that the search for a symbol or for a handler
\* does.
ChainsEnd == \A e \in Live(vm) : Chain([vm EXCEPT !.env = e])[Cardinality(Env)] = Null

\* vm_exception.c: "Put the exception itself on the stack."  A handler starts
\* with the exception that was thrown on top.
HandlerSeesException ==
  (vm.status = "running" /\ vm.thrown # Null) =>
    vm.stack # <<>> /\ Head(vm.stack) = Exception(vm.thrown)
=============================================================================
