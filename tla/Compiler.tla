------------------------------ MODULE Compiler ------------------------------
(***************************************************************************)
(* The bootstrap compiler between the parser and the assembler: the        *)
(* actions of scheme.y that build streams of nodes from forms, the emit    *)
(* functions of bootstrap_emit.c that turn a stream into assembly, and the *)
(* code that preamble.asm and postamble.asm put around it.                 *)
(*                                                                         *)
(* A stream is a sequence of nodes, and the node of a form has named parts *)
(* instead of streams in a union.  Assembly is a sequence of instructions  *)
(* and labels.  Comments, indentation and .file directives are left out.   *)
(***************************************************************************)
EXTENDS Data, Text

(***************************************************************************)
(* Streams.                                                                *)
(***************************************************************************)

\* The null pointer that an empty body leaves where a stream is expected: the
\* rule that only has a CLOSE_PAREN has no action, and no token has a value.
NoStream == <<[type |-> "null"]>>

\* stream_concat of a null pointer does not return, nor does stream_append to
\* one, nor do the emit functions that read the head of one.  A program with such
\* a node has no code.
Failure == <<[type |-> "failure"]>>

\* Of an empty source nothing is appended, to a null pointer neither.
stream_concat(stream, source) ==
  IF source = NoStream \/ Failure \in {stream, source} THEN Failure
  ELSE IF source = <<>> THEN stream
  ELSE IF stream = NoStream THEN Failure
  ELSE stream \o source

Literal(v) == [type |-> "LITERAL", v |-> v]
Symbolic(name) == [type |-> "SYMBOL", name |-> name]

\* The keywords of lexer.l and its MATH_OPS.
MathOps == {"+", "-", "*", "/", "%", "=", "<", ">"}
Keywords == MathOps \cup {"begin", "quote", "define", "lambda", "set!", "if", "cond",
                          "define-record-type", "let*", "and", "or", "asm"}

Name(form) == IF form.t = "atom" /\ form.token.t = "word" THEN form.token.name ELSE ""

\* A name that is no keyword.
IsVariable(form) == Name(form) \notin Keywords \cup {"", "."}

\* A number, a boolean or a string.
self_evaluating(token) ==
  CASE token.t = "number"  -> Number(token.n)
    [] token.t = "boolean" -> Boolean(token.b)
    [] token.t = "string"  -> String

\* The forms between the keyword and the closing parenthesis.
Operands(form) == Tail(form.items)

-----------------------------------------------------------------------------
(***************************************************************************)
(* scheme.y: data.                                                         *)
(***************************************************************************)

RECURSIVE datum(_)

\* list_end: the end of the list, then its elements from the last to the first.
list_end(items) ==
  LET n       == Len(items)
      dotted  == n > 2 /\ Name(items[n - 1]) = "."
      front   == IF dotted THEN SubSeq(items, 1, n - 2) ELSE items
      reverse == Reverse([i \in DOMAIN front |-> datum(front[i])])
  IN  (IF dotted THEN datum(items[n]) ELSE <<Literal(Empty)>>) \o FlattenSeq(reverse)

quoted(stream) == <<[type |-> "QUOTED", stream |-> stream]>>

datum(form) ==
  CASE form.t = "list"      -> quoted(list_end(form.items))
    [] form.t = "quoted"    -> quoted(datum(form.datum))
    [] Name(form) # ""      -> <<Symbolic(Name(form))>>
    [] OTHER                -> <<Literal(self_evaluating(form.token))>>

(***************************************************************************)
(* scheme.y: expressions.                                                  *)
(***************************************************************************)

RECURSIVE expression(_)

\* The bodies of begin, lambda, let*, cond, and, or.
begin_end(forms) ==
  IF forms = <<>> THEN NoStream
  ELSE FoldRight(LAMBDA f, rest : stream_concat(expression(f), rest),
                 Front(forms), expression(Last(forms)))

\* The names, and at the end of a list that has no dot, (); one name for all
\* arguments.
lambda_formals(form) ==
  IF form.t # "list" THEN <<Symbolic(Name(form))>>
  ELSE LET names == SelectSeq(form.items, IsVariable)
           nodes == [i \in DOMAIN names |-> Symbolic(Name(names[i]))]
           rest  == \E f \in ToSet(form.items) : Name(f) = "."
       IN  IF rest \/ names = <<>> THEN nodes ELSE Append(nodes, Literal(Empty))

lambda(formals, body) ==
  <<[type |-> "LAMBDA", formals |-> lambda_formals(formals), body |-> begin_end(body)]>>

bind(name, value) == <<[type |-> "BIND", value |-> value, name |-> <<Symbolic(name)>>]>>

define(form) ==
  LET target == form.items[2]
      rest   == SubSeq(form.items, 3, Len(form.items))
  IN  IF target.t = "list"
      THEN bind(Name(Head(target.items)),
                lambda([target EXCEPT !.items = Tail(@)], rest))
      ELSE bind(Name(target), expression(Head(rest)))

set(form) ==
  LET target == form.items[2]
  IN  <<[type |-> "STORE", value |-> expression(form.items[3]),
         name |-> IF IsVariable(target) THEN <<Symbolic(Name(target))>> ELSE expression(target)]>>

\* The missing branch is ().
if(form) ==
  <<[type |-> "IF", test |-> expression(form.items[2]), then |-> expression(form.items[3]),
     else |-> IF Len(form.items) = 4 THEN expression(form.items[4]) ELSE <<Literal(Empty)>>]>>

cond(form) ==
  LET clauses == Operands(form)
  IN  <<[type |-> "COND", clauses |-> [i \in DOMAIN clauses |->
           [test |-> expression(Head(clauses[i].items)), body |-> begin_end(Operands(clauses[i]))]]]>>

let_star(form) ==
  LET bindings == form.items[2].items
  IN  <<[type |-> "LET_STAR", body |-> begin_end(SubSeq(form.items, 3, Len(form.items))),
         bindings |-> FlattenSeq([i \in DOMAIN bindings |->
           bind(Name(bindings[i].items[1]), expression(bindings[i].items[2]))])]>>

\* A string gets to the assembly as its bare text, that is, as the instruction it
\* spells.
asm(form) ==
  LET raw_asm(f) ==
        CASE f.t = "atom" /\ f.token.t = "string" -> <<[type |-> "OP", name |-> f.token.text]>>
          [] f.t = "list" /\ f.items = <<>> -> <<Literal(Empty)>>
          [] f.t = "list" -> <<[type |-> "ASM_STREAM", stream |-> expression(Head(f.items))]>>
          [] Name(f) # "" -> <<[type |-> "OP", name |-> Name(f)]>>
          [] OTHER        -> expression(f)
  IN  <<[type |-> "ASM", stream |->
           FlattenSeq([i \in DOMAIN Operands(form) |-> raw_asm(Operands(form)[i])])]>>

\* Mutant: the arguments stay in their order.
user_call_ordered(form) ==
  <<[type |-> "CALL", procedure |-> expression(Head(form.items)),
     arguments |-> FoldLeft(LAMBDA s, f : stream_concat(s, expression(f)), <<>>, Operands(form))]>>

\* The arguments from the last to the first.
user_call(form) ==
  <<[type |-> "CALL", procedure |-> expression(Head(form.items)),
     arguments |->
       IF Operands(form) = <<>> THEN <<>>
       ELSE FoldRight(LAMBDA f, rest : stream_concat(rest, expression(f)),
                      Front(Operands(form)), expression(Last(Operands(form))))]>>

procedure_call(form) ==
  LET head == Name(Head(form.items))
  IN  CASE head \in MathOps ->
             <<[type |-> "MATH", op |-> head,
                first |-> expression(form.items[2]), second |-> expression(form.items[3])]>>
        [] head = "begin"  -> begin_end(Operands(form))
        [] head = "define" -> define(form)
        [] head = "define-record-type" ->
             <<[type |-> "RECORD_TYPE", stream |-> list_end(Operands(form))]>>
        [] head = "if"     -> if(form)
        [] head = "lambda" ->
             lambda(form.items[2], SubSeq(form.items, 3, Len(form.items)))
        [] head = "set!"   -> set(form)
        [] head = "asm"    -> asm(form)
        [] head = "cond"   -> cond(form)
        [] head = "let*"   -> let_star(form)
        [] head = "and"    -> <<[type |-> "AND", stream |-> begin_end(Operands(form))]>>
        [] head = "or"     -> <<[type |-> "OR", stream |-> begin_end(Operands(form))]>>
        [] head = "quote"  -> quoted(list_end(Operands(form)))
        [] OTHER           -> user_call(form)

expression(form) ==
  CASE form.t = "nothing"  -> <<>>
    [] form.t = "list"     -> procedure_call(form)
    [] form.t = "quoted"   -> quoted(datum(form.datum))
    [] IsVariable(form)    -> <<[type |-> "LOAD", name |-> Name(form)]>>
    [] OTHER               -> <<Literal(self_evaluating(form.token))>>

-----------------------------------------------------------------------------
(***************************************************************************)
(* bootstrap_emit.c.  An emit function takes the output, with the number   *)
(* of the next label, and returns it with what it adds.                    *)
(***************************************************************************)

Nowhere == [buf |-> <<>>, label_index |-> 0]

Label(name, n) == <<name, n>>

Emitted(out, instructions) == [out EXCEPT !.buf = @ \o instructions]

emit_op(out, name) == Emitted(out, <<Op(name)>>)

\* (), #t and #f, which the code emits as text like any instruction.
emit_value(out, v) == Emitted(out, <<Lit(v)>>)

emit_label(out, label) == Emitted(out, <<[op |-> "label", to |-> label]>>)

emit_jump_label(out, op, label) == Emitted(out, <<Jump(op, label)>>)

\* n labels have been made.
gen_label(out, n) == [out EXCEPT !.label_index = @ + n]

\* The i-th label made for a node whose emission started with "out".
Made(out, i) == Label("_label_", out.label_index + i)

RECURSIVE emit_stream(_, _, _)
RECURSIVE emit_node(_, _, _)
RECURSIVE emit_quoted(_, _)

\* Whether emit_node reports a value on the stack.
Pushes(node) == node.type \notin {"BIND", "STORE"}

\* The value of a form that is not the last is dropped.
Discarded(out, node) == IF Pushes(node) THEN emit_op(out, "drop") ELSE out

\* An expression that leaves no value still takes a slot.
Slot(out, node) == IF Pushes(node) THEN out ELSE emit_value(out, Empty)

\* A stream is a begin block; a null stream and an empty one leave ().
emit_stream(out, tree, tail) ==
  IF tree \in {<<>>, NoStream} THEN emit_value(out, Empty)
  ELSE LET last  == Last(tree)
           front == FoldLeft(LAMBDA o, n : Discarded(emit_node(o, n, FALSE), n), out, Front(tree))
       IN  Slot(emit_node(front, last, tail), last)

\* The elements of a quoted list come last first, after what ends it.
emit_quoted(out, tree) ==
  FoldLeftDomain(
    LAMBDA o, i :
      LET n     == tree[i]
          value == CASE n.type = "QUOTED"  -> emit_quoted(o, n.stream)
                     [] n.type = "SYMBOL"  -> emit_value(o, Sym(n.name))
                     [] n.type = "LITERAL" -> emit_value(o, n.v)
      IN  IF i = 1 THEN value ELSE emit_op(value, "cons"),
    out, tree)

\* One clause: the label to go on at is made between its test and its body.
emit_clause(out, clause, done, tail) ==
  LET test == emit_op(emit_stream(out, clause.test, FALSE), "not")
      next == Made(test, 0)
      body == emit_stream(emit_jump_label(gen_label(test, 1), "jnf", next), clause.body, tail)
  IN  emit_label(emit_jump_label(body, "jmp", done), next)

emit_cond(out, node, tail) ==
  LET done    == Made(out, 0)
      clauses == FoldLeft(LAMBDA o, c : emit_clause(o, c, done, tail),
                          gen_label(out, 1), node.clauses)
  IN  IF node.clauses = <<>> THEN emit_op(out, "failure")
      ELSE emit_label(emit_value(clauses, Empty), done)

emit_if(out, node, tail) ==
  LET true == Made(out, 0)
      done == Made(out, 1)
      test == emit_jump_label(emit_stream(gen_label(out, 2), node.test, FALSE), "jnf", true)
      else == emit_jump_label(emit_stream(test, node.else, tail), "jmp", done)
  IN  emit_label(emit_stream(emit_label(else, true), node.then, tail), done)

\* Between two operands: keep the value and go to the end, or drop it.
emit_decision(out, and, done) ==
  LET dup  == emit_op(out, "dup")
      next == Made(dup, 0)
      go   == IF and
              THEN emit_label(emit_jump_label(emit_jump_label(gen_label(dup, 1), "jnf", next),
                                              "jmp", done), next)
              ELSE emit_jump_label(dup, "jnf", done)
  IN  emit_op(go, "drop")

\* and, or.  A null stream is possible here, and no operand is in tail position.
emit_bool(out, node) ==
  LET and      == node.type = "AND"
      done     == Made(out, 0)
      operands == IF node.stream = NoStream THEN <<>> ELSE node.stream
      value    == FoldLeftDomain(
                    LAMBDA o, i :
                      LET n == operands[i]
                          v == Slot(emit_node(o, n, FALSE), n)
                      IN  IF i < Len(operands) THEN emit_decision(v, and, done) ELSE v,
                    gen_label(out, 1), operands)
  IN  emit_label(IF operands = <<>> THEN emit_value(value, Boolean(and)) ELSE value, done)

\* The formals take the elements of the list of arguments; the last one takes
\* what is left of it, unless () is after it.
BindFormals(formals) ==
  LET names == SelectSeq(formals, LAMBDA n : n.type = "SYMBOL")
      rest  == formals # <<>> /\ names = formals
      one(i) ==
        (IF rest /\ i = Len(names) THEN <<>> ELSE <<Op("dup"), Op("car")>>)
        \o <<Lit(Sym(names[i].name)), Op("bind")>>
        \o (IF i < Len(names) THEN <<Op("cdr")>> ELSE <<>>)
  IN  FlattenSeq([i \in DOMAIN names |-> one(i)]) \o (IF rest THEN <<>> ELSE <<Op("drop")>>)

\* Arguments below the return address when it is called, value and return.
emit_lambda(out, node) ==
  LET proc  == Made(out, 0)
      skip  == Made(out, 1)
      entry == emit_op(emit_label(emit_jump_label(gen_label(out, 2), "jmp", skip), proc), "swap")
      body  == emit_stream(Emitted(entry, BindFormals(node.formals)), node.body, TRUE)
      ret   == Emitted(body, <<Op("swap"), Op("ret")>>)
  IN  emit_jump_label(emit_label(ret, skip), "proc", proc)

\* The body is called like a procedure, in tail position with the caller's
\* return address and an empty list of arguments.
emit_let_star(out, node, tail) ==
  LET body == Made(out, 0)
      next == Made(out, 1)
      call == IF tail THEN <<Lit(Empty), Jump("proc", body), Op("tail_call_in")>>
              ELSE <<Jump("call", body), Jump("jmp", next)>>
      drop == IF tail THEN <<Op("swap"), Op("drop")>> ELSE <<>>
      top  == Emitted(emit_label(Emitted(gen_label(out, 2), call), body), drop)
      inner == emit_stream(emit_op(emit_stream(top, node.bindings, FALSE), "drop"), node.body, tail)
  IN  emit_label(Emitted(inner, <<Op("swap"), Op("ret")>>), next)

\* Mutant: no call is a tail call.
emit_call_plain(out, node, tail) ==
  LET arguments == FoldLeft(LAMBDA o, n : emit_op(Slot(emit_node(o, n, FALSE), n), "cons"),
                            emit_value(out, Empty), node.arguments)
  IN  IF node.arguments = NoStream THEN emit_op(out, "failure")
      ELSE emit_op(emit_stream(arguments, node.procedure, FALSE), "call_in")

\* The list of the arguments is built from its end, then the procedure.
emit_call(out, node, tail) ==
  LET arguments == FoldLeft(LAMBDA o, n : emit_op(Slot(emit_node(o, n, FALSE), n), "cons"),
                            emit_value(out, Empty), node.arguments)
  IN  IF node.arguments = NoStream THEN emit_op(out, "failure")
      ELSE emit_op(emit_stream(arguments, node.procedure, FALSE),
                   IF tail THEN "tail_call_in" ELSE "call_in")

Ops(names) == [i \in DOMAIN names |-> Op(names[i])]

\* The definition goes to record-type-factory as its arguments; what it returns
\* is a list of names and values to bind.
emit_record_type(out, node) ==
  LET made == Emitted(emit_quoted(out, node.stream),
                      <<Lit(Sym("record-type-factory")), Op("@"), Op("call_in")>>)
      loop == Made(made, 0)
      done == Made(made, 1)
      test == Emitted(emit_label(gen_label(made, 2), loop), Ops(<<"dup", "null?">>))
      bind_one == Emitted(emit_jump_label(test, "jnf", done),
                          Ops(<<"dup", "car", "dup", "cdr", "swap", "car", "bind", "cdr">>))
  IN  emit_label(emit_jump_label(bind_one, "jmp", loop), done)

emit_asm(out, node) ==
  FoldLeft(LAMBDA o, n :
             CASE n.type = "ASM_STREAM" -> emit_stream(o, n.stream, FALSE)
               [] n.type = "OP"         -> emit_op(o, n.name)
               [] n.type = "LITERAL"    -> emit_value(o, n.v),
           out, node.stream)

emit_double(out, first, second, op) ==
  emit_op(emit_stream(emit_stream(out, first, FALSE), second, FALSE), op)

\* A call is a tail call only if no node follows it, which emit_stream has seen to.
emit_node(out, node, tail) ==
  CASE node.type = "LITERAL"     -> emit_value(out, node.v)
    [] node.type = "SYMBOL"      -> emit_value(out, Sym(node.name))
    [] node.type = "QUOTED"      -> emit_quoted(out, node.stream)
    [] node.type = "RECORD_TYPE" -> emit_record_type(out, node)
    [] node.type = "ASM"         -> emit_asm(out, node)
    [] node.type = "LOAD"        -> Emitted(out, <<Lit(Sym(node.name)), Op("@")>>)
    [] node.type = "COND"        -> emit_cond(out, node, tail)
    [] node.type = "IF"          -> emit_if(out, node, tail)
    [] node.type \in {"AND", "OR"} -> emit_bool(out, node)
    [] node.type = "MATH"        -> emit_double(out, node.first, node.second, node.op)
    [] node.type = "LAMBDA"      -> emit_lambda(out, node)
    [] node.type = "CALL"        -> emit_call(out, node, tail)
    [] node.type = "BIND"        -> emit_double(out, node.value, node.name, "bind")
    [] node.type = "STORE"       -> emit_double(out, node.value, node.name, "!")
    [] node.type = "LET_STAR"    -> emit_let_star(out, node, tail)
    [] node.type = "failure"     -> emit_op(out, "failure")

-----------------------------------------------------------------------------
(***************************************************************************)
(* preamble.asm, postamble.asm.  The routine for gc-stats and its binding  *)
(* are left out.                                                           *)
(***************************************************************************)

At(name)     == <<[op |-> "label", to |-> Label(name, 0)]>>
To(op, name) == <<Jump(op, Label(name, 0))>>
With(k, op)  == <<Lit(Sym(k)), Op(op)>>
Proc(label, k) == To("proc", label) \o With(k, "bind")

\* Routines are entered with the arguments below the return address.
Primitives ==
  At("env") \o Ops(<<"swap", "jin">>)
  \o At("scheme-depth") \o Ops(<<"swap", "drop", "depth", "swap", "ret">>)
  \o At("scheme-car") \o Ops(<<"swap", "car", "car", "swap", "ret">>)
  \o At("scheme-cdr") \o Ops(<<"swap", "car", "cdr", "swap", "ret">>)
  \o At("scheme-set!")
  \o Ops(<<"swap", "dup", "car", "car", "swap", "cdr", "car", "!">>)
  \o <<Lit(Empty)>> \o Ops(<<"swap", "ret">>)

\* Return from call/cc: the stack is emptied, and filled with what was saved.
CallCCReturn ==
  At("scheme-call-cc-return")
  \o <<Op("depth"), Lit(Number(0)), Op("=")>> \o To("jnf", "scheme-call-cc-empty-done")
  \o Ops(<<"drop">>) \o To("jmp", "scheme-call-cc-return")
  \o At("scheme-call-cc-empty-done") \o With("stack-save", "@")
  \o At("scheme-call-cc-restore")
  \o Ops(<<"dup", "null?">>) \o To("jnf", "scheme-call-cc-restore-done")
  \o Ops(<<"dup", "car", "swap", "cdr">>) \o To("jmp", "scheme-call-cc-restore")
  \o At("scheme-call-cc-restore-done")
  \o Ops(<<"drop">>) \o With("ret-val", "@") \o With("return", "@") \o Ops(<<"ret">>)
  \o At("scheme-call-cc-exit")
  \o Ops(<<"drop", "car">>) \o With("ret-val", "bind") \o To("jmp", "scheme-call-cc-return")

\* The whole stack is moved into a list before the procedure is called.
CallCC ==
  At("scheme-call-cc")
  \o Ops(<<"swap", "car">>) \o With("proc", "bind") \o With("return", "bind")
  \o <<Lit(Empty)>> \o With("stack-save", "bind")
  \o At("scheme-call-cc-save")
  \o <<Op("depth"), Lit(Number(0)), Op("=")>> \o To("jnf", "scheme-call-cc-stack-save-exit")
  \o With("stack-save", "@") \o Ops(<<"swap", "cons">>) \o With("stack-save", "!")
  \o To("jmp", "scheme-call-cc-save")
  \o At("scheme-call-cc-stack-save-exit")
  \o <<Lit(Empty)>> \o To("proc", "scheme-call-cc-exit") \o Ops(<<"cons">>)
  \o With("proc", "@") \o Ops(<<"call_in">>) \o With("ret-val", "bind")
  \o To("jmp", "scheme-call-cc-return")

Preamble ==
  To("proc", "env") \o To("call", "user-entry")
  \o Primitives \o CallCCReturn \o CallCC
  \o At("scheme-emergency-exit")
  \o Ops(<<"drop", "car", "set-exit">>) \o To("jmp", "panic")
  \o At("user-entry")
  \o Ops(<<"drop">>) \o With("null-environment", "bind") \o Proc("env", "bootstrap-environment")
  \o Proc("scheme-depth", "depth") \o Proc("scheme-emergency-exit", "emergency-exit")
  \o Proc("scheme-car", "car") \o Proc("scheme-cdr", "cdr") \o Proc("scheme-set!", "set!")
  \o Proc("scheme-call-cc", "prim-call/cc")

Newline == <<Lit(Char), Op("out")>>
Message == <<Lit(String), Op("out")>>

\* What is on the stack above the return address is printed, and put back.
StackDump ==
  At("stack_dump")
  \o Message \o Newline \o <<Lit(Empty)>> \o With("stack-save", "bind")
  \o At("stack_dump_loop")
  \o <<Op("depth"), Lit(Number(1)), Op("-"), Lit(Number(0)), Op("=")>>
  \o To("jnf", "stack_dump_exit")
  \o Ops(<<"swap", "dup">>) \o With("stack-save", "@") \o Ops(<<"swap", "cons">>)
  \o With("stack-save", "!") \o Ops(<<"out">>) \o Newline \o To("jmp", "stack_dump_loop")
  \o At("stack_dump_exit")
  \o Newline \o Message \o Newline \o With("stack-save", "@")
  \o At("stack_dump_restore")
  \o Ops(<<"dup", "null?">>) \o To("jnf", "stack_dump_done")
  \o Ops(<<"dup", "car", "rot", "cdr">>) \o To("jmp", "stack_dump_restore")
  \o At("stack_dump_done") \o Ops(<<"drop", "ret">>)

Postamble ==
  Newline \o Newline \o Message \o Newline \o Message \o Ops(<<"out">>) \o Newline
  \o To("call", "stack_dump") \o To("jmp", "exit")
  \o At("panic")
  \o <<Lit(Char)>> \o Ops(<<"dup", "out", "out">>) \o Message
  \o <<Lit(Char)>> \o Ops(<<"dup", "out", "out">>)
  \o To("call", "stack_dump") \o To("jmp", "exit")
  \o StackDump \o At("exit")

-----------------------------------------------------------------------------
compiler_code_gen(forms, bootstrap) ==
  LET stream  == IF forms = <<>> THEN <<>> ELSE stream_concat(<<>>, begin_end(forms))
      program == emit_stream(Nowhere, stream, FALSE).buf
  IN  IF bootstrap THEN Preamble \o program \o Postamble ELSE program

\* Generating code for it does not return.
Fails(assembly) == \E i \in DOMAIN assembly : assembly[i].op = "failure"

\* The assembler: labels take no room, and of two with a name the later counts
\* (module Asm).
Assembled(assembly) ==
  LET IsLabel(i) == assembly[i].op = "label"
      address(i) == Cardinality({j \in 1..(i - 1) : ~ IsLabel(j)})
      place(l)   == CHOOSE i \in DOMAIN assembly :
                      /\ IsLabel(i) /\ assembly[i].to = l
                      /\ \A j \in DOMAIN assembly : IsLabel(j) /\ assembly[j].to = l => j <= i
      resolved   == [i \in DOMAIN assembly |->
                      IF ~ IsLabel(i) /\ "to" \in DOMAIN assembly[i]
                      THEN [assembly[i] EXCEPT !.to = address(place(@))] ELSE assembly[i]]
  IN  SelectSeq(resolved, LAMBDA x : x.op # "label")
=============================================================================
