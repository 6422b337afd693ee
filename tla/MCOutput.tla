------------------------------ MODULE MCOutput ------------------------------
(***************************************************************************)
(* Objects to print: all that two compound objects can be which refer to   *)
(* each other, to themselves, to a character, to () and to nothing; and    *)
(* pairs of characters at the bounds of their encodings.                   *)
(***************************************************************************)
EXTENDS Representation

Objects == {"a", "b", "c", "d", "e"}
Leaves(c, d) == "c" :> Character(c) @@ "d" :> Character(d) @@ "e" :> EmptyList

Targets == {"a", "b", "c", "e", Null}
Pairs   == {Link(x, y) : x \in Targets, y \in Targets}
One     == {<<>>} \cup {<<x>> : x \in Targets}

Graphs ==
  {"a" :> m @@ "b" :> n @@ Leaves(65, 65) :
     m \in Pairs \cup {Vector(os) : os \in One} \cup {Record(<<x, y>>) : x, y \in Targets},
     n \in Pairs \cup {Vector(os) : os \in One} \cup {Record(<<x>>) : x \in Targets}}

Bounds == {1, 127, 128, 2047, 2048, 65535, 65536, 2097151, 2097152, 67108863, 67108864, 2147483647}

AllHeaps ==
  Graphs \cup {"a" :> Link("c", "b") @@ "b" :> Link("d", "e") @@ Leaves(x, y) : x, y \in Bounds}

Printed == {"a"}
=============================================================================
