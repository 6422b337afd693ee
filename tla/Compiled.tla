------------------------------ MODULE Compiled ------------------------------
(***************************************************************************)
(* A program from its source to its result: compiler.c has it read (module *)
(* Reader), compiled (Compiler) and assembled, and the runtime runs the    *)
(* code (Machine).  Beside it is what the program means (Scheme).          *)
(***************************************************************************)
EXTENDS Machine, Reader, Compiler, Scheme

CONSTANTS
  Inputs,  \* source files and the options of the compiler
  Slack    \* slots of the stack that a sequence of instructions takes for itself

VARIABLES
  options,  \* [pre_post_amble, include_baselib, assemble]
  phase,    \* "reading", "meaning", "running", "failed"
  meaning

vars == <<vm, code, printed, exit_status, files, lexer, include_stack, parser,
          options, phase, meaning>>

machineVars == <<vm, code, printed, exit_status>>

Idle == [status |-> "idle", stack |-> <<>>]

CompiledInit ==
  /\ \E i \in Inputs : files = i.files /\ options = i.options
  /\ ReaderInit
  /\ vm = Idle /\ code = <<>> /\ printed = <<>> /\ exit_status = 0
  /\ phase = "reading" /\ meaning = NoMeaning

Reads ==
  /\ phase = "reading"
  /\ compile_file(options.include_baselib) \/ Read
  /\ UNCHANGED <<machineVars, options, phase, meaning>>

\* An instruction without operands, and (), #t and #f.
OneByte(i) == DOMAIN i = {"op"} \/ i \in {Lit(Empty), Lit(True), Lit(False)}

\* The size that the runtime gets.  buildAttachment writes one byte less than
\* there is: when the last instruction is a single byte, it is never reached.
Size(instructions) ==
  IF options.assemble /\ OneByte(Last(instructions))
  THEN Len(instructions) - 1 ELSE Len(instructions)

\* Whatever came of parsing, code is generated for the stream there is.
CodeGen ==
  /\ phase = "reading" /\ parser.status \in {"parsed", "error"}
  /\ LET assembly == compiler_code_gen(parser.stream, options.pre_post_amble) IN
     IF Fails(assembly) THEN phase' = "failed" /\ UNCHANGED <<code, meaning, vm>>
     ELSE /\ code' = Assembled(assembly)
          /\ phase' = "meaning"
          /\ meaning' = Meaning(parser.stream, options.pre_post_amble)
          /\ vm' = Start(Main, Size(code'))
  /\ UNCHANGED <<readerVars, options, printed, exit_status>>

\* An assertion or an overrun ends the compiler.
Gives_up ==
  /\ phase = "reading" /\ parser.status \in {"aborted", "overrun"}
  /\ phase' = "failed"
  /\ UNCHANGED <<machineVars, readerVars, options, meaning>>

\* Before the program is run, what it means is worked out.
Mean ==
  /\ phase = "meaning"
  /\ meaning' = Meant(meaning)
  /\ phase' = IF meaning'.outcome = "running" THEN "meaning" ELSE "running"
  /\ UNCHANGED <<machineVars, readerVars, options>>

Runs ==
  /\ phase = "running"
  /\ Execute \/ (Exit /\ UNCHANGED <<printed, exit_status>>)
  /\ UNCHANGED <<code, readerVars, options, phase, meaning>>

Over == phase = "failed" \/ (phase = "running" /\ vm.status # "running")

CompiledNext ==
  \/ Reads \/ CodeGen \/ Gives_up \/ Mean \/ Runs
  \/ Over /\ UNCHANGED vars

\* The compiler and the machine go on until it is over.  A step is possible in
\* all other states, so that this is WF_vars(CompiledNext), in a form that does
\* not ask for ENABLED.
Fairness == <>[]Over \/ []<><<TRUE>>_vars

CompiledSpec == CompiledInit /\ [][CompiledNext]_vars /\ Fairness

-----------------------------------------------------------------------------
(***************************************************************************)
(* Properties.                                                             *)
(***************************************************************************)

\* What postamble.asm prints around the value it found on the stack.
Epilogue(v) ==
  <<Char, Char, String, Char, String, v, Char, String, Char, Char, String, Char>>

SeenAll(values) == [i \in DOMAIN values |-> Seen(values[i])]

\* The run has come to the last instruction of a program that is assembled without
\* postamble.asm, and Size does not count that instruction.
LastByteLost ==
  /\ options.assemble /\ ~ options.pre_post_amble /\ OneByte(Last(code))
  /\ vm.status = "done" /\ Current(vm).ip = Len(code) - 1

\* A compiled program computes what it means: the value, what it prints, the
\* exit status, and whether it fails.  After the end of the program nothing but
\* its value is on the stack.  The exception is a program whose own last byte is
\* lost (compiler.c); behind a program, postamble.asm makes up for that.
MeaningKept ==
  (phase = "running" /\ vm.status # "running" /\ ~ LastByteLost) =>
    CASE meaning.outcome = "error" -> vm.status = "aborted"
      [] meaning.outcome = "exit"  ->
           /\ vm.status = "done" /\ exit_status = meaning.status
           /\ IsPrefix(SeenAll(meaning.printed), SeenAll(printed))
      [] meaning.outcome = "value" ->
           /\ vm.status = "done" /\ exit_status = 0
           /\ LET result == IF options.pre_post_amble
                            THEN SeenAll(meaning.printed \o Epilogue(meaning.value))
                            ELSE SeenAll(meaning.printed)
              IN  SeenAll(printed) = result
           /\ ~ options.pre_post_amble => SeenAll(vm.stack) = <<Seen(meaning.value)>>
      [] OTHER -> FALSE

\* The stack is as deep as what is still to be done: a return address and an
\* operand for each thing the program has yet to come back to, and a few for the
\* instruction sequence that runs.  A tail call takes none, so a loop written as
\* one runs in constant space ("Rely on a vm level hack to make tail calls work",
\* bootstrap_emit.c).
TailCallsFlat == phase = "running" => Len(vm.stack) <= 2 * meaning.room + Slack

\* Every program is read to its end, and one that has a value stops.
Stops == <>(Over \/ meaning.outcome = "loops")
=============================================================================
