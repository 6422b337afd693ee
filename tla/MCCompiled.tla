----------------------------- MODULE MCCompiled -----------------------------
(***************************************************************************)
(* Programs for module Compiled.  A program is written with W (a word), N  *)
(* (a number), F (#f), Q (a quote), I (an include) and L (parentheses).    *)
(***************************************************************************)
EXTENDS Compiled

W(k) == <<[t |-> "word", name |-> k]>>
N(n) == <<[t |-> "number", n |-> n]>>
F    == <<[t |-> "boolean", b |-> FALSE]>>
Text_(spelled) == <<[t |-> "string", text |-> spelled]>>
S    == Text_("drop")
I(path)  == <<[t |-> "include", path |-> path]>>
Open     == <<[t |-> "open"]>>
Close    == <<[t |-> "close"]>>
L(items) == Open \o FlattenSeq(items) \o Close
Q(d) == <<[t |-> "quote"]>> \o d

Two(op, a, b) == L(<<W(op), a, b>>)
Def(k, v) == Two("define", W(k), v)
Lambda(formals, body) == L(<<W("lambda"), L(formals), body>>)
Fun(head, body) == L(<<W("define"), L(head), body>>)
If(a, b, c) == L(<<W("if"), a, b, c>>)
Let(k, v, body) == L(<<W("let*"), L(<<L(<<W(k), v>>)>>), body>>)
x == W("x")
f == W("f")
n == W("n")

\* (define (p x) (asm (x) out (x))): prints its argument, and returns it.
DefP == Fun(<<W("p"), x>>, L(<<W("asm"), L(<<x>>), W("out"), L(<<x>>)>>))
P(a) == L(<<W("p"), a>>)

\* The same with the instruction written as a string.
DefSpelled == Fun(<<W("p"), x>>, L(<<W("asm"), L(<<x>>), Text_("out"), L(<<x>>)>>))

\* Every form with simple parts, and calls that print in their parts.
Simple == {N(3), x, F}
Small ==
  {Two(op, a, b) : op \in {"and", "or", "begin", "set!"}, a \in {x}, b \in Simple}
  \cup {Two(op, a, b) : op \in {"and", "or"}, a \in {F}, b \in Simple}
  \cup {If(a, b, N(4)) : a \in Simple, b \in {x}}
  \cup {L(<<W("if"), a, x>>) : a \in Simple}
  \cup {L(<<W("cond"), L(<<a, b>>), L(<<x, N(5)>>)>>) : a \in Simple, b \in {P(x)}}
  \cup {L(<<W("cond"), L(<<F, x>>)>>), L(<<W("cond"), L(<<x>>)>>), L(<<W("cond")>>)}
  \cup {L(<<W(op)>>) : op \in {"and", "or", "begin"}}
  \cup {Let("x", a, b) : a \in {N(3), P(x)}, b \in {x, P(x)}}
  \cup {L(<<Lambda(<<x>>, P(x)), a>>) : a \in Simple}
  \cup {Def("x", F), Lambda(<<x>>, x), W("y"), S}
  \cup {Q(L(<<>>)), Q(x), Q(L(<<x, N(1)>>)), Q(L(<<x, L(<<F>>), W("."), S>>))}

\* Where a form can stand.
Placed(e) ==
  {e, Two("+", e, N(1)), Two("+", P(N(1)), e), If(e, N(1), N(2)), Let("y", e, W("y")),
   L(<<Lambda(<<W("y")>>, e), N(1)>>), Let("y", N(1), e), L(<<W("begin"), e, x>>),
   L(<<W("cond"), L(<<e, e>>)>>), P(e), Two("or", F, P(e))}

Placements == {DefP \o Def("x", N(2)) \o p : p \in UNION {Placed(e) : e \in Small}}

\* A form in a place in a place.
Chosen == {Two("and", x, P(N(3))), If(F, N(3), P(x)), Let("x", P(N(3)), P(x)), Two("set!", x, F),
           L(<<L(<<W("lambda"), x, P(P(x))>>), x>>), Def("y", x), L(<<W("cond"), L(<<x>>)>>)}

Nested ==
  LET between(e) == {If(e, N(1), N(2)), If(F, N(1), e), Let("y", e, P(W("y"))), Let("x", N(1), e),
                     L(<<Lambda(<<>>, e)>>), L(<<Lambda(<<x>>, e), x>>), Two("or", F, e),
                     Two("and", e, x), L(<<W("cond"), L(<<F, x>>), L(<<N(0), e>>)>>), P(e)}
  IN  {DefP \o Def("x", N(2)) \o p :
         p \in UNION {Placed(q) : q \in UNION {between(e) : e \in Chosen}}}

\* Formals and arguments.
Calls ==
  LET formals == {L(<<f>>), L(<<f, x>>), L(<<f, n, x>>), L(<<f, n, W("."), x>>), L(<<f, W("."), x>>)}
      args    == {<<>>, <<N(1)>>, <<N(1), N(2)>>, <<N(1), N(2), N(3)>>}
  IN  {Def("x", F) \o L(<<W("define"), h, x>>) \o L(<<f>> \o a) : h \in formals, a \in args}
      \cup {L(<<L(<<W("lambda"), x, x>>)>> \o a) : a \in args}
      \cup {DefP \o L(<<L(<<W("lambda"), x, x>>), P(N(1)), P(N(2))>>), L(<<N(1), N(2)>>)}

Arithmetic ==
  {Two(op, N(a), N(b)) : op \in MathOps, a \in {-8, -3, 0, 2, 7}, b \in {-8, -3, -1, 0, 2, 7}}
  \cup {Two("+", F, N(1)), Two("<", N(1), F)}

\* Recursion that ends, in and out of tail position, and loops that do not.
Down == L(<<f, Two("-", n, N(1))>>)
Zero == Two("=", n, N(0))
Loops ==
  LET bodies == {If(Zero, N(5), Down), If(Zero, N(5), Two("+", N(1), Down)),
                 L(<<W("cond"), L(<<Zero, N(5)>>), L(<<n, Down>>)>>),
                 If(Zero, N(5), Let("x", n, Down)), Two("or", Zero, Down),
                 If(Zero, N(5), L(<<W("begin"), Down, Down>>)),
                 If(Zero, N(5), L(<<Lambda(<<>>, Down)>>))}
      forever == {L(<<f, n>>), Let("x", n, L(<<f, x>>)), L(<<W("cond"), L(<<n, L(<<f, n>>)>>)>>)}
  IN  {Fun(<<f, n>>, b) \o L(<<f, N(3)>>) : b \in bodies}
      \cup {Fun(<<f, n>>, b) \o L(<<f, N(1)>>) : b \in forever}

\* A procedure that keeps a count.
Counter ==
  Fun(<<f, n>>, Lambda(<<>>, L(<<W("begin"), Two("set!", n, Two("+", n, N(1))), n>>)))
  \o Def("x", L(<<f, N(0)>>)) \o Def("y", L(<<f, N(3)>>))
  \o Two("-", L(<<x>>), Two("*", L(<<W("y")>>), L(<<x>>)))

\* Programs for the code of preamble.asm.
CC(body) == L(<<W("prim-call/cc"), Lambda(<<W("k")>>, body)>>)
Ret(v) == L(<<W("k"), v>>)
Escapes ==
  {Two("+", N(1), CC(Ret(N(2)))), Two("+", N(1), CC(Two("+", N(3), Ret(N(2))))),
   Two("+", N(1), CC(N(2))), CC(CC(Ret(N(2)))), CC(L(<<W("begin"), Ret(F), N(2)>>)),
   Two("+", N(3), Two("+", N(2), L(<<W("emergency-exit"), N(4)>>))),
   L(<<W("emergency-exit"), F>>), L(<<W("emergency-exit")>>),
   L(<<W("bootstrap-environment"), Lambda(<<>>, N(1))>>), CC(L(<<>> \o <<W("k")>>)),
   L(<<W("car"), Q(L(<<x, N(1)>>))>>), L(<<W("cdr"), Q(L(<<x, N(1)>>))>>), L(<<W("car"), N(1)>>),
   Two("+", L(<<W("car"), Q(L(<<N(2)>>))>>), N(1)), Counter}
  \cup {Def("x", F) \o DefP
        \o Def("n", Two("+", N(1), CC(L(<<W("begin"), Two("set!", x, W("k")), N(0)>>))))
        \o P(n) \o If(Two("<", n, N(3)), L(<<x, n>>), N(7))}
  \cup {L(<<W("define"), L(<<W("record-type-factory"), n, W("."), x>>),
            Q(L(<<L(<<W("p"), W("."), N(5)>>), L(<<W("y"), W("."), F>>)>>))>>)
        \o L(<<W("define-record-type"), W("k"), L(<<f, n>>)>>) \o If(W("y"), N(1), W("p"))}

-----------------------------------------------------------------------------
\* One file, or several.
Main_ == <<"src", "main">>
BaseLib_ == <<"lib", "baselib">>
One(tokens) == Main_ :> tokens

Bare == [pre_post_amble |-> FALSE, include_baselib |-> FALSE, assemble |-> FALSE]
Full == [pre_post_amble |-> TRUE, include_baselib |-> TRUE, assemble |-> TRUE]
Alone   == [Bare EXCEPT !.assemble = TRUE]
WithLib == [Bare EXCEPT !.include_baselib = TRUE]

a == <<"src", "a">>
sub == <<"src", "sub", "a">>
\* Includes: at the end of a file and before it, in a body, among arguments, in
\* another directory, of a file with half a form, missing, of itself.
Sources ==
  {Main_ :> (I(<<"a">>) \o P(x)) @@ a :> (DefP \o Def("x", N(2))),
   Main_ :> (Def("x", N(1)) \o I(<<"sub", "a">>)) @@ sub :> (I(<<"b">>) \o x) @@
     <<"src", "b">> :> Two("set!", x, N(2)) @@ <<"src", "sub", "b">> :> Two("set!", x, N(3)),
   Main_ :> (I(<<"sub", "a">>) \o I(<<"b">>) \o x) @@ sub :> Def("x", N(1)) @@
     <<"src", "b">> :> Two("set!", x, N(2)) @@ <<"src", "sub", "b">> :> Two("set!", x, N(3)),
   Main_ :> L(<<Lambda(<<x>>, I(<<"a">>) \o x), N(1)>>) @@ a :> Two("set!", x, N(2)),
   Main_ :> L(<<L(<<W("lambda"), x, x>>), N(1), I(<<"a">>), N(4)>>) @@ a :> (N(2) \o N(3)),
   Main_ :> (I(<<"a">>) \o N(1) \o Close) @@ a :> (Open \o W("+") \o N(2)),
   Main_ :> (I(<<"a">>) \o N(1)), a :> N(1),
   Main_ :> (N(1) \o I(<<"main">>)),
   Main_ :> I(<<"a">>) @@ a :> <<>>,
   Main_ :> L(<<Lambda(<<>>, L(<<W("begin")>>) \o I(<<"a">>))>>) @@ a :> <<>>,
   Main_ :> L(<<Lambda(<<>>, I(<<"a">>) \o N(1))>>) @@ a :> L(<<W("begin")>>),
   One(<<>>), One(N(1) \o Close \o N(2)), One(N(1) \o Open \o N(2)), One(Q(Close)),
   One(L(<<W("begin"), N(1)>>) \o Close \o N(2))}

\* Programs whose last instruction is a byte long, longer, or passed over by a jump.
LastBytes ==
  {N(3), F, S, Q(x), L(<<W("begin")>>), Two("+", N(1), N(2)), W("y"),
   Def("x", N(2)) \o x, Def("x", N(2)), DefP \o P(N(1)), Lambda(<<x>>, x)}
  \cup {If(c, b, e) : c \in {N(0), F}, b \in {N(1), F}, e \in {N(2), F, L(<<W("and")>>)}}

BaseLibrary == BaseLib_ :> (DefP \o I(<<"c">>)) @@ <<"lib", "c">> :> Def("x", N(2))

AllInputs ==
  {[files |-> One(t), options |-> Bare] : t \in Placements \cup Nested \cup Calls \cup Arithmetic \cup Loops}
  \cup {[files |-> One(t), options |-> Full] : t \in Escapes}
  \cup {[files |-> One(t), options |-> Alone] : t \in LastBytes}
  \cup {[files |-> One(DefSpelled \o P(P(N(1)))), options |-> o] : o \in {Bare, Full}}
  \cup {[files |-> s, options |-> o] : s \in Sources, o \in {Bare, WithLib}}
  \cup {[files |-> One(t) @@ BaseLibrary, options |-> o] : t \in {P(x), Down}, o \in {Full, WithLib}}

Names == {"x", "y", "f", "n", "k", "p", "car", "cdr", "set!", "depth", "prim-call/cc",
          "emergency-exit", "null-environment", "bootstrap-environment", "stack-save",
          "ret-val", "return", "proc", "record-type-factory"}

AllInstructions ==
  MathOps \cup {"fixnum", "true", "false", "empty", "char", "string", "symbol", "jmp", "jnf",
                "call", "proc", "swap", "rot", "dup", "drop", "depth", "cons", "car", "cdr",
                "not", "null?", "bind", "read", "set", "jin", "ret", "call_in", "tail_call_in",
                "out", "set-exit"}

Addresses_ == 1..40
OneBlock == {"main"}
LengthOne == [c \in OneBlock |-> 1]
=============================================================================
