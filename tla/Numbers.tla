------------------------------ MODULE Numbers ------------------------------
(***************************************************************************)
(* The arithmetic of vm_math.h on vm_int, a signed number of Width bits.   *)
(***************************************************************************)
EXTENDS Integers

CONSTANT Width  \* 64 in the code

ASSUME NumbersAssumption == Width \in Nat \ {0}

\* A result in two's complement.
Wrap(n) == ((n + 2^(Width - 1)) % 2^Width) - 2^(Width - 1)

\* Division of C truncates.
Quotient(a, b) ==
  LET abs(n) == IF n < 0 THEN -n ELSE n
      q      == abs(a) \div abs(b)
  IN  IF (a < 0) = (b < 0) THEN q ELSE -q

\* The division traps: by zero, and where the quotient does not fit.
Traps(op, a, b) == op \in {"/", "%"} /\ (b = 0 \/ (b = -1 /\ a = -(2^(Width - 1))))

Calculated(op, a, b) ==
  CASE op = "+" -> Wrap(a + b)
    [] op = "-" -> Wrap(a - b)
    [] op = "*" -> Wrap(a * b)
    [] op = "/" -> Quotient(a, b)
    [] op = "%" -> a - b * Quotient(a, b)

Compared(op, a, b) ==
  CASE op = "=" -> a = b
    [] op = "<" -> a < b
    [] op = ">" -> a > b
=============================================================================
