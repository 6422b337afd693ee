------------------------------- MODULE Scheme -------------------------------
(***************************************************************************)
(* What a program means: an evaluator for the forms of module Text that    *)
(* knows nothing of instructions, labels or the operand stack.  It has the *)
(* form to evaluate or the value to return, the environments, and the      *)
(* continuation: what is still to be done, the next thing last.            *)
(*                                                                         *)
(* The language leaves the order of evaluation open; here operands are     *)
(* evaluated from the last to the first and the operator after them.  A    *)
(* call in tail position leaves nothing in the continuation, and "room" is *)
(* the most that was ever in it.  An operand of and and or is never in     *)
(* tail position ("Tail calls cannot be allowed here", bootstrap_emit.c).  *)
(* A let* is one scope.                                                    *)
(***************************************************************************)
EXTENDS Data, Text, Numbers, TLC

CONSTANT Fuel  \* evaluation that takes more steps counts as not ending

Procedure(formals, body, env) ==
  [kind |-> "procedure", formals |-> formals, body |-> body, env |-> env]
Primitive(name) == [kind |-> "primitive", name |-> name]
Continuation(kont) == [kind |-> "continuation", kont |-> kont]

Callable(v) == v.kind \in {"procedure", "primitive", "continuation"}

Word(form) == IF form.t = "atom" /\ form.token.t = "word" THEN form.token.name ELSE ""

\* The forms of a list, without what an include leaves.
Forms(items) == SelectSeq(items, LAMBDA f : f.t # "nothing")

From(items, n) == SubSeq(items, n, Len(items))

(***************************************************************************)
(* Numbers are those of Width bits; what does not fit is taken modulo      *)
(* 2^Width.                                                                *)
(***************************************************************************)

Representative(n) ==
  CHOOSE m \in -(2^(Width - 1))..(2^(Width - 1) - 1) : (m - n) % 2^Width = 0

Magnitude(n) == IF n < 0 THEN -n ELSE n

\* The quotient with the sign that makes the remainder the smallest.
Divided(a, b) ==
  CHOOSE q \in -(2^Width)..2^Width :
    LET r == a - q * b IN Magnitude(r) < Magnitude(b) /\ (r = 0 \/ (r < 0) = (a < 0))

Undefined(op, a, b) ==
  op \in {"/", "%"} /\ (b = 0 \/ Representative(Divided(a, b)) # Divided(a, b))

Computed(op, a, b) ==
  CASE op = "+" -> Number(Representative(a + b))
    [] op = "-" -> Number(Representative(a - b))
    [] op = "*" -> Number(Representative(a * b))
    [] op = "/" -> Number(Divided(a, b))
    [] op = "%" -> Number(a - Divided(a, b) * b)
    [] op = "=" -> Boolean(a = b)
    [] op = "<" -> Boolean(b - a > 0)
    [] op = ">" -> Boolean(a - b > 0)

(***************************************************************************)
(* Constants and lists.                                                    *)
(***************************************************************************)

Constant(token) ==
  CASE token.t = "number"  -> Number(token.n)
    [] token.t = "boolean" -> Boolean(token.b)
    [] token.t = "string"  -> String
    [] token.t = "word"    -> Sym(token.name)

RECURSIVE Datum(_)
Datum(form) ==
  LET dot == Len(form.items) - 1
      dotted == dot > 1 /\ Word(form.items[dot]) = "."
      end == IF dotted THEN Datum(Last(form.items)) ELSE Empty
      elements == IF dotted THEN SubSeq(form.items, 1, dot - 1) ELSE form.items
  IN  IF form.t = "atom" THEN Constant(form.token)
      ELSE FoldRight(LAMBDA f, d : Pair(Datum(f), d), elements, end)

\* The elements of a list.
RECURSIVE Elements(_)
Elements(v) == IF IsPair(v) THEN <<v.car>> \o Elements(v.cdr) ELSE <<>>

AsList(values) == FoldRight(Pair, values, Empty)

(***************************************************************************)
(* The evaluator's state.                                                  *)
(***************************************************************************)

\* The first environment, with the procedures of preamble.asm or without.
Meaning(forms, primitives) ==
  [outcome |-> "running", steps |-> 0, room |-> 0, printed |-> <<>>, status |-> 0,
   returns |-> FALSE, value |-> Empty, forms |-> Forms(forms), env |-> 1, kont |-> <<>>,
   envs |-> <<[parent |-> 0,
               vars |-> [k \in IF primitives
                               THEN {"car", "cdr", "prim-call/cc", "emergency-exit",
                                     "bootstrap-environment"} ELSE {}
                           |-> Primitive(k)]]>>]

NoMeaning == [outcome |-> "none", room |-> 0]

\* s goes on to evaluate a body, or returns a value.
Evaluate(s, forms, env) == [s EXCEPT !.returns = FALSE, !.forms = forms, !.env = env]
Return(s, v) == [s EXCEPT !.returns = TRUE, !.value = v]
Wrong(s) == [s EXCEPT !.outcome = "error"]

Later(s, frame) == [s EXCEPT !.kont = Append(@, frame)]

\* s evaluates one form and then does what the frame says.
First(s, form, frame) == Evaluate(Later(s, frame), <<form>>, s.env)

Define(s, env, k, v) == [s EXCEPT !.envs[env].vars = (k :> v) @@ @]

\* A new environment within env, with its number.
Inside(s, env, vars) == [s EXCEPT !.envs = Append(@, [parent |-> env, vars |-> vars])]
Newest(s) == Len(s.envs)

RECURSIVE Where(_, _, _)
Where(s, env, k) ==
  IF env = 0 THEN 0 ELSE IF k \in DOMAIN s.envs[env].vars THEN env
  ELSE Where(s, s.envs[env].parent, k)

(***************************************************************************)
(* Application.                                                            *)
(***************************************************************************)

\* The names of a list of formals, and the name for the rest.
Fixed(formals) ==
  IF formals.t = "atom" THEN <<>>
  ELSE SelectSeq(FoldLeft(LAMBDA ks, f : IF "." \in ToSet(ks) THEN ks ELSE Append(ks, Word(f)),
                          <<>>, formals.items), LAMBDA k : k # ".")
RestName(formals) ==
  CASE formals.t = "atom" -> {Word(formals)}
    [] \E f \in ToSet(formals.items) : Word(f) = "." -> {Word(Last(formals.items))}
    [] OTHER -> {}

\* Arguments too many are ignored.
Apply(s, f, arguments) ==
  LET fixed == Fixed(f.formals)
      vars  == [k \in ToSet(fixed) |-> arguments[CHOOSE i \in DOMAIN fixed : fixed[i] = k]]
               @@ [k \in RestName(f.formals) |-> AsList(From(arguments, Len(fixed) + 1))]
      inner == Inside(s, f.env, vars)
  IN  IF Len(arguments) < Len(fixed) THEN Wrong(s)
      ELSE Evaluate(inner, Forms(f.body), Newest(inner))

\* bootstrap-environment is not for calls: it takes a closure, not a list.
ApplyPrimitive(s, name, v) ==
  CASE name = "car" /\ IsPair(v) -> Return(s, v.car)
    [] name = "cdr" /\ IsPair(v) -> Return(s, v.cdr)
    [] name = "emergency-exit" /\ IsNumber(v) -> [s EXCEPT !.outcome = "exit", !.status = v.n]
    [] OTHER -> Wrong(s)

RECURSIVE Applied(_, _, _)
Applied(s, f, arguments) ==
  CASE f.kind = "procedure" -> Apply(s, f, arguments)
    [] f.kind # "procedure" /\ ~ Callable(f) -> Wrong(s)
    [] f.kind # "procedure" /\ Callable(f) /\ arguments = <<>> -> Wrong(s)
    [] f.kind = "continuation" /\ arguments # <<>> ->
         Return([s EXCEPT !.kont = f.kont], Head(arguments))
    [] f.kind = "primitive" /\ arguments # <<>> ->
         IF f.name = "prim-call/cc"
         THEN Applied(s, Head(arguments), <<Continuation(s.kont)>>)
         ELSE ApplyPrimitive(s, f.name, Head(arguments))

(***************************************************************************)
(* Evaluation of a form.                                                   *)
(***************************************************************************)

Variable(s, k) ==
  LET e == Where(s, s.env, k) IN IF e = 0 THEN Wrong(s) ELSE Return(s, s.envs[e].vars[k])

\* (define (f . formals) . body) and (define k form).
Definition(s, items) ==
  IF items[2].t = "list"
  THEN Return(Define(s, s.env, Word(Head(items[2].items)),
                     Procedure([items[2] EXCEPT !.items = Tail(@)], From(items, 3), s.env)),
              Empty)
  ELSE First(s, items[3], [do |-> "define", name |-> Word(items[2]), env |-> s.env])

\* A binding of let* is a definition in the scope that its body has.
LetStar(s, items) ==
  LET inner == Inside(s, s.env, <<>>)
      define(b) == List(<<Atom([t |-> "word", name |-> "define"], b.file)>> \o b.items, b.file)
      bindings  == [i \in DOMAIN items[2].items |-> define(items[2].items[i])]
  IN  Evaluate(inner, bindings \o Forms(From(items, 3)), Newest(inner))

CallFrame(todo, arguments, env) ==
  [do |-> "call", todo |-> todo, arguments |-> arguments, env |-> env]

Clause(s, clauses) ==
  IF clauses = <<>> THEN Return(s, Empty)
  ELSE First(s, Head(Head(clauses).items),
             [do |-> "cond", body |-> Tail(Head(clauses).items), more |-> Tail(clauses),
              env |-> s.env])

Operand(s, op, forms) ==
  IF forms = <<>> THEN Return(s, Boolean(op = "and"))
  ELSE First(s, Head(forms), [do |-> op, more |-> Tail(forms), env |-> s.env])

\* The instructions of asm that programs here use, on a stack of its own.
Instruction(name, stack) ==
  LET top  == Last(stack)
      rest == Front(stack)
  IN  CASE name = "out"   -> [stack |-> rest, printed |-> <<top>>]
        [] name = "not"   -> [stack |-> Append(rest, Boolean(top = False)), printed |-> <<>>]
        [] name = "null?" -> [stack |-> Append(rest, Boolean(top = Empty)), printed |-> <<>>]
        [] name = "cons"  ->
             [stack |-> Append(Front(rest), Pair(top, Last(rest))), printed |-> <<>>]

\* The instruction that a word or a string in an asm form stands for.
Spelled(form) ==
  IF form.t = "atom" /\ form.token.t = "string" THEN form.token.text ELSE Word(form)

RECURSIVE Raw(_, _, _)
Raw(s, items, stack) ==
  IF items = <<>> THEN Return(s, Last(stack))
  ELSE LET i    == Head(items)
           more == Tail(items)
           done == Instruction(Spelled(i), stack)
       IN  CASE Spelled(i) # "" -> Raw([s EXCEPT !.printed = @ \o done.printed], more, done.stack)
             [] i.t = "atom" /\ Spelled(i) = "" -> Raw(s, more, Append(stack, Constant(i.token)))
             [] i.t = "list" /\ i.items = <<>> -> Raw(s, more, Append(stack, Empty))
             [] i.t = "list" /\ i.items # <<>> ->
                  First(s, Head(i.items),
                        [do |-> "asm", more |-> more, stack |-> stack, env |-> s.env])

Compound(s, form) ==
  LET items == Forms(form.items)
      op    == Word(Head(items))
  IN  CASE op \in {"+", "-", "*", "/", "%", "=", "<", ">"} ->
             First(s, items[2], [do |-> "second", op |-> op, form |-> items[3], env |-> s.env])
        [] op = "begin"  -> Evaluate(s, Tail(items), s.env)
        [] op = "define" -> Definition(s, items)
        [] op = "set!"   ->
             First(s, items[3], [do |-> "set!", name |-> Word(items[2]), env |-> s.env])
        [] op = "if"     ->
             First(s, items[2], [do |-> "if", then |-> items[3], else |-> From(items, 4),
                                 env |-> s.env])
        [] op = "lambda" -> Return(s, Procedure(items[2], From(items, 3), s.env))
        [] op = "cond"   -> Clause(s, Tail(items))
        [] op = "let*"   -> LetStar(s, items)
        [] op \in {"and", "or"} -> Operand(s, op, Tail(items))
        [] op = "asm"    -> Raw(s, Tail(items), <<>>)
        [] op = "define-record-type" ->
             Later(Variable(s, "record-type-factory"),
                   [do |-> "record", def |-> Datum([form EXCEPT !.items = Tail(items)]),
                    env |-> s.env])
        [] OTHER ->
             First(s, Last(items), CallFrame(Front(items), <<>>, s.env))

Form(s, form) ==
  CASE form.t = "list"   -> Compound(s, form)
    [] form.t = "quoted" -> Return(s, Datum(form.datum))
    [] Word(form) # ""   -> Variable(s, Word(form))
    [] OTHER             -> Return(s, Constant(form.token))

(***************************************************************************)
(* What a value that is returned is for: frame f.                          *)
(***************************************************************************)

Continue(s, f, v) ==
  CASE f.do = "body"   -> Evaluate(s, f.forms, f.env)
    [] f.do = "define" -> Return(Define(s, f.env, f.name, v), Empty)
    [] f.do = "set!"   ->
         LET e == Where(s, f.env, f.name)
         IN  IF e = 0 THEN Wrong(s) ELSE Return(Define(s, e, f.name, v), Empty)
    [] f.do = "if"     ->
         IF v # False THEN Evaluate(s, <<f.then>>, f.env) ELSE Evaluate(s, f.else, f.env)
    [] f.do = "cond"   ->
         IF v # False THEN Evaluate(s, Forms(f.body), f.env)
         ELSE Clause([s EXCEPT !.env = f.env], f.more)
    [] f.do \in {"and", "or"} ->
         IF f.more = <<>> \/ (f.do = "and") = (v = False) THEN Return(s, v)
         ELSE Operand([s EXCEPT !.env = f.env], f.do, f.more)
    [] f.do = "second" ->
         First([s EXCEPT !.env = f.env], f.form, [do |-> "math", op |-> f.op, a |-> v])
    [] f.do = "math"   ->
         IF ~ IsNumber(f.a) \/ ~ IsNumber(v) THEN Wrong(s)
         ELSE IF Undefined(f.op, f.a.n, v.n) THEN Wrong(s)
         ELSE Return(s, Computed(f.op, f.a.n, v.n))
    [] f.do = "call"   ->
         IF f.todo = <<>> THEN Applied(s, v, f.arguments)
         ELSE First([s EXCEPT !.env = f.env], Last(f.todo),
                    CallFrame(Front(f.todo), <<v>> \o f.arguments, f.env))
    [] f.do = "record" ->
         Applied(Later(s, [do |-> "bind", env |-> f.env]), v, Elements(f.def))
    [] f.do = "bind"   ->
         Return(FoldLeft(LAMBDA t, p : Define(t, f.env, p.car.name, p.cdr), s, Elements(v)), Empty)
    [] f.do = "asm"    -> Raw([s EXCEPT !.env = f.env], f.more, Append(f.stack, v))

Step(s) ==
  LET forms == s.forms IN
  CASE s.returns /\ s.kont = <<>> -> [s EXCEPT !.outcome = "value"]
    [] s.returns /\ s.kont # <<>> ->
         Continue([s EXCEPT !.kont = Front(@)], Last(s.kont), s.value)
    [] ~ s.returns /\ forms = <<>> -> Return(s, Empty)
    [] ~ s.returns /\ Len(forms) = 1 -> Form(s, Head(forms))
    [] ~ s.returns /\ Len(forms) > 1 ->
         First(s, Head(forms), [do |-> "body", forms |-> Tail(forms), env |-> s.env])

\* One step of evaluation.
Meant(s) ==
  LET t == Step(s)
      n == [t EXCEPT !.steps = @ + 1, !.room = IF Len(t.kont) > @ THEN Len(t.kont) ELSE @]
  IN  IF s.steps = Fuel THEN [s EXCEPT !.outcome = "loops"] ELSE n

\* A value as far as it can be seen: all procedures look alike.
RECURSIVE Seen(_)
Seen(v) ==
  CASE IsPair(v) -> [kind |-> "pair", car |-> Seen(v.car), cdr |-> Seen(v.cdr)]
    [] IsClosure(v) \/ Callable(v) -> [kind |-> "callable"]
    [] OTHER -> v
=============================================================================
