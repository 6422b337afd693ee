------------------------------- MODULE Reader -------------------------------
(***************************************************************************)
(* How libinsomniac_bootstrap reads a program: the lexer's stack of        *)
(* buffers, the compiler's include stack beside it, and the parser that    *)
(* takes tokens from the buffer on top.                                    *)
(*                                                                         *)
(* An include is set up by the action of its grammar rule, so in the       *)
(* middle of whatever form is open; the end of a file is a rule of the     *)
(* lexer, which goes on with the buffer below without telling the parser.  *)
(* Module Reading says what the two stacks are there for.                  *)
(***************************************************************************)
EXTENDS Text

CONSTANTS
  MainFile, BaseLib,   \* paths: the file to compile and baselib.scm
  MAX_INCLUDE_DEPTH    \* size of the include stack

ASSUME ReaderAssumption == MAX_INCLUDE_DEPTH \in Nat \ {0, 1}

VARIABLES
  files,         \* the files there are: their tokens by path
  lexer,         \* the buffer stack: files and what is left of them, the current one last
  include_stack, \* the include stack: the paths, the current one last
  parser

readerVars == <<files, lexer, include_stack, parser>>

Buffer(f) == [file |-> f, rest |-> files[f]]

ReaderInit == lexer = <<>> /\ include_stack = <<>> /\ parser = NoParser

\* parse_push_state and push_include_path for file f, after those in "before".
Pushed(f, buffers, paths) ==
  lexer' = Append(buffers, Buffer(f)) /\ include_stack' = Append(paths, f)

\* The base library is opened on top of the main file, so that it is read first.
\* A main file that is missing is an assertion; a base library that is missing
\* is reported, and left out.
compile_file(include_baselib) ==
  /\ parser = NoParser
  /\ UNCHANGED files
  /\ IF MainFile \notin DOMAIN files
     THEN parser' = Stopped(parser, "aborted", <<>>) /\ UNCHANGED <<lexer, include_stack>>
     ELSE /\ parser' = NewParser
          /\ IF include_baselib /\ BaseLib \in DOMAIN files
             THEN Pushed(BaseLib, <<Buffer(MainFile)>>, <<MainFile>>)
             ELSE Pushed(MainFile, <<>>, <<>>)

Parsing == parser.status = "reading"

Rest == Last(lexer).rest

\* The buffer stack after a token was taken from the buffer on top.
Consumed == [lexer EXCEPT ![Len(lexer)].rest = Tail(@)]

\* The path of an include is relative to the file on top of the include stack.
Resolved(path) == Front(Last(include_stack)) \o path

\* A parser that has stopped leaves the buffers to yylex_destroy.
yyparse ==
  /\ Parsing /\ Rest # <<>> /\ Head(Rest).t # "include"
  /\ parser' = Shifted(parser, Head(Rest), Last(include_stack))
  /\ lexer' = IF parser'.status = "reading" THEN Consumed ELSE <<>>
  /\ UNCHANGED <<files, include_stack>>

\* A file that cannot be opened is reported, and reading goes on.  The paths are
\* pushed without a look at the size of the stack.
setup_include ==
  /\ Parsing /\ Rest # <<>> /\ Head(Rest).t = "include"
  /\ UNCHANGED files
  /\ LET f == Resolved(Head(Rest).path) IN
     IF f \notin DOMAIN files
     THEN /\ parser' = Shifted(parser, Head(Rest), Last(include_stack))
          /\ lexer' = Consumed /\ UNCHANGED include_stack
     ELSE IF Len(include_stack) = MAX_INCLUDE_DEPTH
     THEN parser' = Stopped(parser, "overrun", <<>>) /\ lexer' = <<>> /\ UNCHANGED include_stack
     ELSE /\ parser' = Shifted(parser, Head(Rest), Last(include_stack))
          /\ Pushed(f, Consumed, include_stack)

\* Mutant: the include stack is not popped.
EndOfFile_stale ==
  /\ Parsing /\ Rest = <<>>
  /\ lexer' = Front(lexer)
  /\ parser' = IF lexer' = <<>> THEN Ended(parser) ELSE parser
  /\ UNCHANGED <<files, include_stack>>

\* The <<EOF>> rule: both stacks are popped; END_OF_FILE only when no buffer is
\* left.
EndOfFile ==
  /\ Parsing /\ Rest = <<>>
  /\ lexer' = Front(lexer) /\ include_stack' = Front(include_stack)
  /\ parser' = IF lexer' = <<>> THEN Ended(parser) ELSE parser
  /\ UNCHANGED files

Read == yyparse \/ setup_include \/ EndOfFile

-----------------------------------------------------------------------------
(***************************************************************************)
(* Properties.                                                             *)
(***************************************************************************)

\* The text still to be read: what is left of each buffer, from the top down.
Expansion == INSTANCE Reading WITH text <- <<>>

Remaining ==
  FlattenSeq(Reverse([i \in DOMAIN lexer |->
    Expansion!Expanded(files, lexer[i].file, lexer[i].rest, i)]))

WholeText == INSTANCE Reading WITH text <- Remaining

\* The compiler reads the text of the program: every form is built from the
\* tokens of the expanded text, in their order and nested as they are, and is
\* tagged with the file that it ends in, wherever includes begin and files end.
\* (lexer.l: "Push the current lexer state on the stack and replace it with the
\* included file.")
ReadsText == WholeText!Spec
=============================================================================
