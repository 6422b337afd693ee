-------------------------------- MODULE MCVM --------------------------------
(***************************************************************************)
(* Instances of the virtual machine for TLC: what the programs use, and a  *)
(* view of the machine in which addresses are numbers in the order a walk  *)
(* from vm->env and the stack meets them.  Nothing the machine does        *)
(* depends on an address, so two states with one view behave alike.        *)
(***************************************************************************)
EXTENDS VM, SequencesExt

Short  == [c \in Code |-> 2]
Longer == [c \in Code |-> IF c = Main THEN 3 ELSE 1]

\* Calls, returns and scopes.
Procedures == {"symbol", "proc", "jmp", "call", "ret", "jin", "adopt", "call_in", "tail_call_in",
               "bind", "set", "read", "dup", "swap", "rot", "drop", "make_symbol",
               "jnf", "false"}

\* Exceptions and what resumes after them; libraries and assembled code.
Exceptions == {"car", "cdr", "call", "ret", "continue", "restore",
               "string", "import", "call_ext", "asm"}

\* The environments that a value's closures hold, in order.
RECURSIVE HeldIn(_)
HeldIn(v) == CASE IsClosure(v) -> <<v.env>>
               [] IsPair(v) -> HeldIn(v.car) \o HeldIn(v.cdr)
               [] OTHER -> <<>>

HeldInOrder(values) == FlattenSeq([i \in DOMAIN values |-> HeldIn(values[i])])

Variables == SetToSeq(Symbol)

RefersInOrder(e) ==
  LET t == vm.tables[vm.envs[e].bindings]
      s == SelectSeq(Variables, LAMBDA k : t[k] # Null)
  IN  <<vm.envs[e].parent>> \o HeldInOrder([i \in DOMAIN s |-> t[s[i]]])

\* The live environments in the order of the walk; w is what it has met and what
\* it has still to visit.
Walk ==
  LET from[w \in Seq(Env) \X Seq(Env \cup {Null})] ==
        IF w[2] = <<>> THEN w[1]
        ELSE IF Head(w[2]) = Null \/ Contains(w[1], Head(w[2])) THEN from[<<w[1], Tail(w[2])>>]
        ELSE from[<<Append(w[1], Head(w[2])), Tail(w[2]) \o RefersInOrder(Head(w[2]))>>]
  IN  from[<< <<>>, <<vm.env>> \o HeldInOrder(vm.stack) >>]

\* A value with numbers for the environments it leads to.
RECURSIVE Shape(_, _)
Shape(v, w) == CASE IsClosure(v) -> <<v.kind, SelectInSeq(w, LAMBDA f : f = v.env)>>
                 [] IsPair(v) -> <<v.kind, Shape(v.car, w), Shape(v.cdr, w)>>
                 [] OTHER -> v

ViewAlong(w) ==
  LET number(e) == SelectInSeq(w, LAMBDA f : f = e)
      frame(e)  == SelectInSeq(w, LAMBDA f : vm.envs[f].bindings = vm.envs[e].bindings)
      held(v)   == IF v = Null THEN Null ELSE Shape(v, w)
      table(t)  == [k \in Symbol |-> held(t[k])]
  IN  << vm.status, vm.depth, number(vm.thrown), [i \in DOMAIN vm.stack |-> held(vm.stack[i])],
         [i \in DOMAIN w |->
            LET r == vm.envs[w[i]]
            IN  <<r.code, r.ip, r.handler, r.handler_addr, number(r.parent), frame(w[i]),
                  table(vm.tables[r.bindings])>>] >>

View == CHOOSE v \in {ViewAlong(w) : w \in {Walk}} : TRUE
=============================================================================
