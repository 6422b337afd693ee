------------------------------ MODULE Reading ------------------------------
(***************************************************************************)
(* What reading a program amounts to: its text is the main file, after the *)
(* base library if that is asked for, with every include followed by the   *)
(* text of the file that it names, relative to the file that it stands in; *)
(* each token belongs to the file that it stands in; the parser takes the  *)
(* tokens of the text one after the other.                                 *)
(***************************************************************************)
EXTENDS Text

CONSTANTS MainFile, BaseLib, MAX_INCLUDE_DEPTH

VARIABLES files, text, parser

\* One include more than the include stack has room for.
Overrun == [t |-> "overrun"]

\* The text of the given tokens of file f, at a depth of nested includes.
RECURSIVE Expanded(_, _, _, _)
Expanded(sources, f, tokens, depth) ==
  FlattenSeq([i \in DOMAIN tokens |->
    LET here == <<[token |-> tokens[i], file |-> f]>>
        g    == Front(f) \o tokens[i].path
    IN  CASE tokens[i].t # "include" \/ g \notin DOMAIN sources -> here
          [] depth = MAX_INCLUDE_DEPTH -> <<[token |-> Overrun, file |-> f]>>
          [] OTHER -> here \o Expanded(sources, g, sources[g], depth + 1)])

Whole(sources, include_baselib) ==
  (IF include_baselib /\ BaseLib \in DOMAIN sources
   THEN Expanded(sources, BaseLib, sources[BaseLib], 2) ELSE <<>>)
  \o Expanded(sources, MainFile, sources[MainFile], 1)

Init == parser = NoParser /\ text = <<>>

Open(include_baselib) ==
  /\ parser = NoParser
  /\ IF MainFile \in DOMAIN files
     THEN parser' = NewParser /\ text' = Whole(files, include_baselib)
     ELSE parser' = Stopped(parser, "aborted", <<>>) /\ UNCHANGED text

\* What is left when the parser stops is not read.
Take ==
  /\ parser.status = "reading" /\ text # <<>>
  /\ LET head == Head(text) IN
     parser' = IF head.token = Overrun THEN Stopped(parser, "overrun", <<>>)
               ELSE Shifted(parser, head.token, head.file)
  /\ text' = IF parser'.status = "reading" THEN Tail(text) ELSE <<>>

Finish ==
  /\ parser.status = "reading" /\ text = <<>>
  /\ parser' = Ended(parser)
  /\ UNCHANGED text

Next == UNCHANGED files /\ (Open(TRUE) \/ Open(FALSE) \/ Take \/ Finish)

Spec == Init /\ [][Next]_<<files, text, parser>>
=============================================================================
