-------------------------------- MODULE Data --------------------------------
(***************************************************************************)
(* The values of cell.h that compiled programs and the control             *)
(* instructions handle.  Pairs are immutable; a closure is the environment *)
(* it holds; one string and one character stand for all.                   *)
(***************************************************************************)
Number(n)  == [kind |-> "fixnum", n |-> n]
True       == [kind |-> "true"]
False      == [kind |-> "false"]
Empty      == [kind |-> "empty"]
Char       == [kind |-> "char"]
String     == [kind |-> "string"]
Library    == [kind |-> "library"]
Sym(k)     == [kind |-> "symbol", name |-> k]
Closure(e) == [kind |-> "closure", env |-> e]

IsNumber(v)  == v.kind = "fixnum"
IsSymbol(v)  == v.kind = "symbol"
IsClosure(v) == v.kind = "closure"
IsPair(v)    == v.kind = "pair"

\* The environments that a value's closures hold.
Holds(v) ==
  CASE v.kind = "closure" -> {v.env}
    [] v.kind = "pair" -> v.holds
    [] OTHER -> {}

\* A pair, with the environments that it leads to.
Pair(a, d) == [kind |-> "pair", car |-> a, cdr |-> d, holds |-> Holds(a) \cup Holds(d)]

Boolean(b) == IF b THEN True ELSE False

(***************************************************************************)
(* Instructions: an op code, with a literal or an address to go to.        *)
(***************************************************************************)

Op(name)       == [op |-> name]
Lit(v)         == [op |-> "lit", v |-> v]
Jump(name, to) == [op |-> name, to |-> to]
=============================================================================
