-------------------------------- MODULE Text --------------------------------
(***************************************************************************)
(* The tokens of a Scheme source and how the parser groups them.           *)
(*                                                                         *)
(* A parenthesis, a quote and an include are tokens of their own; every    *)
(* other token is an atom.  (include "path") is one token, and a path is a *)
(* sequence of names.  Of the grammar this module has the nesting; what a  *)
(* form means to it is in module Compiler.  Each form carries the file     *)
(* that was current when its last token was reduced, as stream_alloc_node  *)
(* tags the nodes.                                                         *)
(***************************************************************************)
EXTENDS Naturals, Sequences, SequencesExt

Atom(token, file)  == [t |-> "atom", token |-> token, file |-> file]
List(items, file)  == [t |-> "list", items |-> items, file |-> file]
Quoted(datum)      == [t |-> "quoted", datum |-> datum, file |-> datum.file]
Nothing(file)      == [t |-> "nothing", file |-> file]  \* the empty stream of an include

\* The parser's stack: what is collected for the top level, and for each list or
\* quote that is open.
Frame(quote) == [quote |-> quote, items |-> <<>>]

NoParser == [status |-> "idle", frames |-> <<>>, stream |-> <<>>]
NewParser == [status |-> "reading", frames |-> <<Frame(FALSE)>>, stream |-> <<>>]

Stopped(p, status, stream) == [status |-> status, frames |-> <<>>, stream |-> stream]

\* A form is complete, and with it every quote that waits for it.
RECURSIVE Reduced(_, _)
Reduced(frames, form) ==
  IF Last(frames).quote THEN Reduced(Front(frames), Quoted(form))
  ELSE [frames EXCEPT ![Len(frames)].items = Append(@, form)]

\* A parenthesis too many at the top level: by then the forms before it have been
\* reduced to a begin_body, and the action in the middle of top_level has put
\* them into the compiler's stream.
Surplus(p) == Stopped(p, "error", IF Last(p.frames).quote THEN <<>> ELSE Last(p.frames).items)

Closed(p, file) ==
  IF Len(p.frames) = 1 \/ Last(p.frames).quote THEN Surplus(p)
  ELSE [p EXCEPT !.frames = Reduced(Front(@), List(Last(@).items, file))]

\* The parser takes a token.
Shifted(p, token, file) ==
  CASE token.t = "open"    -> [p EXCEPT !.frames = Append(@, Frame(FALSE))]
    [] token.t = "quote"   -> [p EXCEPT !.frames = Append(@, Frame(TRUE))]
    [] token.t = "close"   -> Closed(p, file)
    [] token.t = "include" -> [p EXCEPT !.frames = Reduced(@, Nothing(file))]
    [] OTHER               -> [p EXCEPT !.frames = Reduced(@, Atom(token, file))]

\* END_OF_FILE.  A form that is still open is a syntax error and takes all forms
\* before it along: they never reach the compiler's stream.
Ended(p) ==
  IF Len(p.frames) = 1 /\ p.frames[1].items # <<>> THEN Stopped(p, "parsed", p.frames[1].items)
  ELSE Stopped(p, "error", <<>>)
=============================================================================
