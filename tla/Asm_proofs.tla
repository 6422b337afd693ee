----------------------------- MODULE Asm_proofs -----------------------------
(***************************************************************************)
(* What is proved of the assembler: for any number of byte values and any  *)
(* width of a word, and for every sequence of tokens.                      *)
(***************************************************************************)
EXTENDS Asm, NaturalsInduction, WellFoundedInduction, TLAPS

(***************************************************************************)
(* Integers in code: what parse_int reads is what INT_64 wrote.            *)
(***************************************************************************)

\* Induction up to N.
LEMMA Upward ==
  ASSUME NEW N \in Nat, NEW T, 0 \in T, \A n \in 1..N : n - 1 \in T => n \in T
  PROVE  \A n \in 0..N : n \in T
<1> DEFINE R == OpToRel(<, Nat)
           Rest == {n \in 0..N : n \notin T}
<1>1. IsWellFoundedOn(R, Nat)
  BY NatLessThanWellFounded
<1>2. \A m, n \in Nat : m < n => <<m, n>> \in R
  BY DEF OpToRel
<1>3. Rest \in SUBSET Nat /\ \A n : n \in Rest <=> (n \in 0..N /\ n \notin T)
  OBVIOUS
<1> HIDE DEF R, Rest
<1>4. ASSUME Rest # {} PROVE FALSE
  <2>1. PICK n \in Rest : \A l \in Rest : ~ (<<l, n>> \in R)
    BY <1>1, <1>3, <1>4, WFMin
  <2>2. n \in 1..N
    BY <1>3, <2>1
  <2>3. n \in Nat /\ n - 1 \in Nat /\ n - 1 < n
    BY <2>2
  <2>4. n - 1 \notin Rest
    BY <1>2, <2>1, <2>3
  <2> QED
    BY <1>3, <2>1, <2>2, <2>4
<1> QED
  BY <1>3, <1>4

\* f is the sequence of sums that Horner's rule makes of the digits d, from start on.
IsHorner(f, n, start, d) ==
  f = [i \in 0..n |-> IF i = 0 THEN start ELSE f[i - 1] * BYTES + d[i]]

LEMMA HornerExists ==
  ASSUME NEW N \in Nat, NEW start \in Nat, NEW d \in [1..N -> Nat]
  PROVE  \E f : IsHorner(f, N, start, d) /\ f \in [0..N -> Nat]
<1> DEFINE T == {n \in 0..N : \E f : IsHorner(f, n, start, d) /\ f \in [0..n -> Nat]}
<1>1. 0 \in T
  <2> DEFINE f == [i \in 0..0 |-> start]
  <2>1. f \in [0..0 -> Nat] /\ IsHorner(f, 0, start, d)
    BY DEF IsHorner
  <2> QED
    BY <2>1
<1>2. ASSUME NEW n \in 1..N, n - 1 \in T PROVE n \in T
  <2>1. PICK f : IsHorner(f, n - 1, start, d) /\ f \in [0..(n - 1) -> Nat]
    BY <1>2
  <2> DEFINE g == [i \in 0..n |-> IF i = n THEN f[n - 1] * BYTES + d[n] ELSE f[i]]
  <2>2. f[n - 1] * BYTES + d[n] \in Nat
    BY <2>1, AsmAssumption, SMTT(30)
  <2>3. g \in [0..n -> Nat]
    BY <2>1, <2>2
  <2>4. ASSUME NEW i \in 0..n
        PROVE  g[i] = IF i = 0 THEN start ELSE g[i - 1] * BYTES + d[i]
    <3>1. CASE i = n
      <4>1. g[n - 1] = f[n - 1]
        OBVIOUS
      <4> QED
        BY <3>1, <4>1
    <3>2. CASE i # n
      <4>1. i \in 0..(n - 1) /\ (i # 0 => i - 1 \in 0..(n - 1))
        BY <3>2
      <4>2. f[i] = IF i = 0 THEN start ELSE f[i - 1] * BYTES + d[i]
        BY <2>1, <4>1 DEF IsHorner
      <4> QED
        BY <3>2, <4>1, <4>2
    <3> QED
      BY <3>1, <3>2
  <2>5. IsHorner(g, n, start, d)
    BY <2>4 DEF IsHorner
  <2>6. n \in 0..N
    OBVIOUS
  <2> QED
    BY <2>3, <2>5, <2>6
<1> HIDE DEF T
<1>3. N \in T
  <2>1. \A n \in 0..N : n \in T
    BY <1>1, <1>2, Upward
  <2>2. N \in 0..N
    OBVIOUS
  <2> QED
    BY <2>1, <2>2
<1> QED
  BY <1>3 DEF T

\* Every byte is worth BYTES times the one before.
LEMMA Weights ==
  /\ Weight \in [0..WORD -> Nat \ {0}] /\ Weight[0] = 1
  /\ \A j \in 1..WORD : Weight[j] = BYTES * Weight[j - 1]
<1> DEFINE d == [j \in 1..WORD |-> 0]
           T == {j \in 0..WORD : Weight[j] \in Nat \ {0}}
<1>1. d \in [1..WORD -> Nat] /\ WORD \in Nat /\ BYTES \in Nat \ {0}
  BY AsmAssumption
<1>2. PICK f : IsHorner(f, WORD, 1, d) /\ f \in [0..WORD -> Nat]
  BY <1>1, HornerExists
<1>3. \A j \in 1..WORD : f[j - 1] * BYTES + d[j] = BYTES * f[j - 1]
  BY <1>1, <1>2
<1>4. f = [j \in 0..WORD |-> IF j = 0 THEN 1 ELSE BYTES * f[j - 1]]
  <2>1. \A j \in 0..WORD : j # 0 => j \in 1..WORD
    BY <1>1
  <2>2. \A j \in 0..WORD : f[j] = IF j = 0 THEN 1 ELSE f[j - 1] * BYTES + d[j]
    BY <1>2 DEF IsHorner
  <2>3. \A j \in 0..WORD : f[j] = IF j = 0 THEN 1 ELSE BYTES * f[j - 1]
    BY <1>3, <2>1, <2>2
  <2> QED
    BY <1>2, <2>3
<1>5. Weight = [j \in 0..WORD |-> IF j = 0 THEN 1 ELSE BYTES * Weight[j - 1]]
  BY <1>4 DEF Weight
<1>6. DOMAIN Weight = 0..WORD /\ Weight[0] = 1 /\ 0 \in T
  BY <1>1, <1>5
<1>7. \A j \in 1..WORD : Weight[j] = BYTES * Weight[j - 1]
  <2> TAKE j \in 1..WORD
  <2>1. j \in 0..WORD /\ j # 0
    BY <1>1
  <2> QED
    BY <1>5, <2>1
<1>8. ASSUME NEW j \in 1..WORD, j - 1 \in T PROVE j \in T
  BY <1>1, <1>7, <1>8
<1> HIDE DEF T
<1>9. \A j \in 0..WORD : j \in T
  BY <1>1, <1>6, <1>8, Upward
<1>10. \A j \in 0..WORD : Weight[j] \in Nat \ {0}
  BY <1>9 DEF T
<1> QED
  BY <1>5, <1>6, <1>7, <1>10

LEMMA ModulusNat == Modulus \in Nat \ {0}
BY Weights, AsmAssumption DEF Modulus

-----------------------------------------------------------------------------
\* A quotient and a remainder are known by what they are.
LEMMA Division ==
  ASSUME NEW b \in Nat \ {0}, NEW q \in Int, NEW r \in 0..(b - 1)
  PROVE  (b * q + r) \div b = q /\ (b * q + r) % b = r
<1> DEFINE a == b * q + r
<1>1. a \in Int
  OBVIOUS
<1> HIDE DEF a
<1>2. PICK p \in Int, s \in 0..(b - 1) : a = b * p + s /\ a \div b = p /\ a % b = s
  BY <1>1
<1>3. b * (p - q) = r - s
  BY <1>2 DEF a
<1>4. p = q
  <2>1. CASE p > q
    BY <2>1, <1>3, b * (p - q) >= b
  <2>2. CASE p < q
    BY <2>2, <1>3, b * (p - q) <= - b
  <2> QED
    BY <2>1, <2>2
<1> QED
  BY <1>2, <1>3, <1>4 DEF a

\* What is below the divisor is its own remainder.
LEMMA Smaller ==
  ASSUME NEW b \in Nat \ {0}, NEW a \in 0..(b - 1)
  PROVE  a \div b = 0 /\ a % b = a
<1>1. /\ 0 \in Int /\ a = b * 0 + a
  OBVIOUS
<1> QED
  BY <1>1, Division

LEMMA Divided ==
  ASSUME NEW a \in Int, NEW b \in Nat \ {0}
  PROVE  /\ a \div b \in Int /\ a % b \in 0..(b - 1)
         /\ a = b * (a \div b) + (a % b)
OBVIOUS

\* To divide by w and then by b is to divide by b * w.
LEMMA DividedTwice ==
  ASSUME NEW m \in Int, NEW w \in Nat \ {0}, NEW b \in Nat \ {0}
  PROVE  m \div w = b * (m \div (b * w)) + ((m \div w) % b)
<1> DEFINE q == m \div w
           r == m % w
           p == q \div b
           d == q % b
<1>1. q \in Int /\ r \in 0..(w - 1) /\ m = w * q + r
  BY Divided
<1>2. p \in Int /\ d \in 0..(b - 1) /\ q = b * p + d
  BY <1>1, Divided
<1> HIDE DEF q, r, p, d
<1>3. m = (b * w) * p + (w * d + r)
  BY <1>1, <1>2
<1>4. w * d + r \in 0..(b * w - 1)
  <2>1. w * d >= 0 /\ w * d <= w * (b - 1)
    BY <1>2
  <2>2. w * (b - 1) = b * w - w
    OBVIOUS
  <2> QED
    BY <1>1, <1>2, <2>1, <2>2
<1>5. b * w \in Nat \ {0}
  OBVIOUS
<1>6. m \div (b * w) = p
  BY <1>2, <1>3, <1>4, <1>5, Division
<1> QED
  BY <1>2, <1>6 DEF q, d

\* Shifted is Horner's rule.
LEMMA ShiftedIs ==
  ASSUME NEW word \in [1..WORD -> Nat]
  PROVE  \E f \in [0..WORD -> Nat] :
           /\ Shifted(word) = f[WORD] /\ f[0] = 0
           /\ \A k \in 1..WORD : f[k] = f[k - 1] * BYTES + word[WORD + 1 - k]
<1> DEFINE d == [k \in 1..WORD |-> word[WORD + 1 - k]]
<1>1. WORD \in Nat /\ \A k \in 1..WORD : WORD + 1 - k \in 1..WORD
  BY AsmAssumption
<1>2. d \in [1..WORD -> Nat]
  BY <1>1
<1>3. \A k \in 0..WORD : k # 0 => k \in 1..WORD
  BY <1>1
<1>4. ASSUME NEW f, IsHorner(f, WORD, 0, d)
      PROVE  f = [k \in 0..WORD |-> IF k = 0 THEN 0 ELSE f[k - 1] * BYTES + word[WORD + 1 - k]]
  <2>1. f = [k \in 0..WORD |-> f[k]]
    BY <1>4 DEF IsHorner
  <2>2. \A k \in 0..WORD : f[k] = IF k = 0 THEN 0 ELSE f[k - 1] * BYTES + word[WORD + 1 - k]
    BY <1>3, <1>4 DEF IsHorner
  <2> QED
    BY <2>1, <2>2
<1>5. PICK f : IsHorner(f, WORD, 0, d) /\ f \in [0..WORD -> Nat]
  BY <1>1, <1>2, HornerExists
<1> HIDE DEF d
<1> DEFINE num == CHOOSE g : g = [k \in 0..WORD |-> IF k = 0 THEN 0 ELSE g[k - 1] * BYTES + word[WORD + 1 - k]]
<1>6. num = [k \in 0..WORD |-> IF k = 0 THEN 0 ELSE num[k - 1] * BYTES + word[WORD + 1 - k]]
  BY <1>4, <1>5
<1>7. Shifted(word) = num[WORD]
  BY DEF Shifted
<1> HIDE DEF num
<1>8. DOMAIN num = 0..WORD /\ num[0] = 0
  BY <1>1, <1>6
<1>9. \A k \in 1..WORD : num[k] = num[k - 1] * BYTES + word[WORD + 1 - k]
  <2> TAKE k \in 1..WORD
  <2>1. k \in 0..WORD /\ k # 0
    BY <1>1
  <2> QED
    BY <1>6, <2>1
<1> DEFINE T == {k \in 0..WORD : num[k] \in Nat}
<1>10. 0 \in T
  BY <1>1, <1>8
<1>11. ASSUME NEW k \in 1..WORD, k - 1 \in T PROVE k \in T
  <2>1. word[WORD + 1 - k] \in Nat /\ num[k - 1] \in Nat /\ BYTES \in Nat /\ k \in 0..WORD
    BY <1>1, <1>11, AsmAssumption
  <2>2. num[k - 1] * BYTES + word[WORD + 1 - k] \in Nat
    <3> DEFINE x == num[k - 1]
               y == word[WORD + 1 - k]
    <3>1. x \in Nat /\ y \in Nat /\ BYTES \in Nat
      BY <2>1
    <3> HIDE DEF x, y
    <3>2. x * BYTES + y \in Nat
      BY <3>1
    <3> QED
      BY <3>2 DEF x, y
  <2>3. num[k] \in Nat
    BY <1>9, <2>2
  <2> QED
    BY <2>1, <2>3
<1> HIDE DEF T
<1>12. \A k \in 0..WORD : k \in T
  BY <1>1, <1>10, <1>11, Upward
<1>13. num \in [0..WORD -> Nat]
  BY <1>6, <1>12 DEF T
<1> QED
  BY <1>7, <1>8, <1>9, <1>13

\* What is read back is what was written, whatever its sign, up to the modulus.
LEMMA ReadsBackInteger ==
  ASSUME NEW i \in Int
  PROVE  /\ INT_64(i) \in [1..WORD -> 0..(BYTES - 1)]
         /\ Shifted(INT_64(i)) = i % Modulus
<1> DEFINE m == i % Modulus
           word == INT_64(i)
<1>1. /\ WORD \in Nat \ {0} /\ BYTES \in Nat \ {0} /\ 0..(BYTES - 1) \subseteq Nat
      /\ Modulus \in Nat \ {0} /\ Modulus = Weight[WORD] /\ m \in 0..(Modulus - 1) /\ m \in Nat
  <2>1. Modulus \in Nat \ {0} /\ Modulus = Weight[WORD]
    BY ModulusNat DEF Modulus
  <2> QED
    BY <2>1, AsmAssumption
<1> HIDE DEF m
<1>2. \A j \in 1..WORD : /\ Weight[j] \in Nat \ {0} /\ Weight[j - 1] \in Nat \ {0}
                         /\ Weight[j] = BYTES * Weight[j - 1] /\ j - 1 \in 0..WORD
  <2> TAKE j \in 1..WORD
  <2>1. j \in 0..WORD /\ j - 1 \in 0..WORD
    BY <1>1
  <2>2. Weight[j] \in Nat \ {0} /\ Weight[j - 1] \in Nat \ {0}
    BY <2>1, Weights
  <2> QED
    BY <2>1, <2>2, Weights
<1>3. \A j \in 1..WORD : /\ word[j] = (m \div Weight[j - 1]) % BYTES
                         /\ word[j] \in 0..(BYTES - 1)
  <2> TAKE j \in 1..WORD
  <2>1. m \div Weight[j - 1] \in Int
    <3> DEFINE w == Weight[j - 1]
    <3>1. w \in Nat \ {0} /\ m \in Int
      BY <1>1, <1>2
    <3> HIDE DEF w
    <3>2. m \div w \in Int
      BY <3>1, Divided
    <3> QED
      BY <3>2 DEF w
  <2>2. (m \div Weight[j - 1]) % BYTES \in 0..(BYTES - 1)
    BY <1>1, <2>1, Divided
  <2> QED
    BY <2>2 DEF INT_64, m
<1>4. word \in [1..WORD -> 0..(BYTES - 1)]
  BY <1>3 DEF INT_64
<1> HIDE DEF word
<1>5. word \in [1..WORD -> Nat]
  BY <1>1, <1>4
<1>6. PICK f \in [0..WORD -> Nat] :
         /\ Shifted(word) = f[WORD] /\ f[0] = 0
         /\ \A k \in 1..WORD : f[k] = f[k - 1] * BYTES + word[WORD + 1 - k]
  BY <1>5, ShiftedIs
<1> DEFINE T == {k \in 0..WORD : f[k] = m \div Weight[WORD - k]}
<1>7. 0 \in T
  <2>1. m \div Modulus = 0
    BY <1>1, Smaller
  <2>2. WORD - 0 = WORD /\ 0 \in 0..WORD
    BY <1>1
  <2> QED
    BY <1>1, <1>6, <2>1, <2>2
<1>8. ASSUME NEW k \in 1..WORD, k - 1 \in T PROVE k \in T
  <2> DEFINE j == WORD + 1 - k
  <2>1. j \in 1..WORD /\ WORD - (k - 1) = j /\ WORD - k = j - 1 /\ k \in 0..WORD
    BY <1>1
  <2> HIDE DEF j
  <2> DEFINE w == Weight[j - 1]
  <2>2. f[k] = f[k - 1] * BYTES + word[j]
    BY <1>6 DEF j
  <2>3. f[k - 1] = m \div (BYTES * w) /\ w \in Nat \ {0} /\ word[j] = (m \div w) % BYTES
    BY <1>2, <1>3, <1>8, <2>1
  <2> HIDE DEF w
  <2>4. m \div w = BYTES * (m \div (BYTES * w)) + ((m \div w) % BYTES)
    <3>1. m \in Int
      BY <1>1
    <3> QED
      BY <1>1, <2>3, <3>1, DividedTwice
  <2>5. f[k - 1] \in Nat /\ word[j] \in Nat
    <3>1. k - 1 \in 0..WORD
      BY <1>1
    <3> QED
      BY <1>5, <1>6, <2>1, <3>1
  <2>6. f[k] = m \div w
    BY <1>1, <2>2, <2>3, <2>4, <2>5
  <2> QED
    BY <2>1, <2>6 DEF w
<1> HIDE DEF T
<1>9. WORD \in T
  <2>1. \A k \in 0..WORD : k \in T
    BY <1>1, <1>7, <1>8, Upward
  <2> QED
    BY <1>1, <2>1
<1>10. f[WORD] = m \div 1
  BY <1>1, <1>9, Weights DEF T
<1>11. m \div 1 = m
  BY <1>1
<1> QED
  BY <1>4, <1>6, <1>10, <1>11 DEF word, m

-----------------------------------------------------------------------------
\* What parse_int makes of a field that INT_64 writes.
LEMMA Parsed ==
  ASSUME NEW code, NEW a, NEW i \in Int, \A j \in 1..WORD : code[a + j] = INT_64(i)[j]
  PROVE  parse_int(code, a) =
           IF 2 * (i % Modulus) >= Modulus THEN (i % Modulus) - Modulus ELSE i % Modulus
<1>1. INT_64(i) \in [1..WORD -> 0..(BYTES - 1)] /\ Shifted(INT_64(i)) = i % Modulus
  BY ReadsBackInteger
<1>2. [j \in 1..WORD |-> code[a + j]] = INT_64(i)
  BY <1>1
<1> QED
  BY <1>1, <1>2, Zenon DEF parse_int

\* A length that is small enough is read as it is.
LEMMA ParsedLength ==
  ASSUME NEW code, NEW a, NEW n \in Nat, 2 * n < Modulus,
         \A j \in 1..WORD : code[a + j] = INT_64(n)[j]
  PROVE  parse_int(code, a) = n
<1>1. Modulus \in Nat \ {0} /\ n \in 0..(Modulus - 1) /\ n \in Int
  BY ModulusNat
<1>2. n % Modulus = n
  BY <1>1, Smaller
<1>3. parse_int(code, a) =
        IF 2 * (n % Modulus) >= Modulus THEN (n % Modulus) - Modulus ELSE n % Modulus
  BY <1>1, Parsed
<1> QED
  BY <1>1, <1>2, <1>3

\* A field that holds the way from its end to a target leads there.
LEMMA ParsedOffset ==
  ASSUME NEW code, NEW a \in Nat, NEW target \in 0..(Modulus - 1),
         \A j \in 1..WORD : code[a + j] = INT_64(target - a - WORD)[j]
  PROVE  JumpsTo(code, a) = target
<1> DEFINE t == target - a - WORD
           M == Modulus
           m == t % M
           q == t \div M
           num == parse_int(code, a)
<1>1. M \in Nat \ {0} /\ WORD \in Nat /\ t \in Int
  BY ModulusNat, AsmAssumption
<1>2. num = IF 2 * m >= M THEN m - M ELSE m
  BY <1>1, Parsed
<1>3. q \in Int /\ m \in 0..(M - 1) /\ t = M * q + m
  <2> HIDE DEF t, M
  <2> QED
    BY <1>1, Divided
<1>4. target = a + WORD + t
  BY <1>1
<1> HIDE DEF t, m, q, num
<1>5. \E p \in Int : a + WORD + num = M * p + target
  <2>1. CASE num = m
    <3>1. a + WORD + num = M * (- q) + target
      BY <1>1, <1>3, <1>4, <2>1
    <3> QED
      BY <1>3, <3>1
  <2>2. CASE num = m - M
    <3>1. a + WORD + num = M * (- q - 1) + target
      BY <1>1, <1>3, <1>4, <2>2
    <3> QED
      BY <1>3, <3>1
  <2> QED
    BY <1>2, <2>1, <2>2
<1>6. (a + WORD + num) % M = target
  <2>1. PICK p \in Int : a + WORD + num = M * p + target
    BY <1>5
  <2> HIDE DEF M
  <2>2. target \in 0..(M - 1)
    BY DEF M
  <2>3. (M * p + target) % M = target
    BY <1>1, <2>2, Division
  <2> QED
    BY <2>1, <2>3
<1> QED
  BY <1>6 DEF JumpsTo, num

-----------------------------------------------------------------------------
(***************************************************************************)
(* Instructions.                                                           *)
(***************************************************************************)

Opcode == {OP, OP_LIT_FIXNUM, OP_LIT_CHAR, OP_LIT_STRING, OP_JMP}

\* An instruction stands at address a of the code and ends at e.
Instruction(code, a, e) ==
  /\ a \in Nat /\ e \in Nat /\ a < e /\ e <= Len(code)
  /\ code[a + 1] \in Opcode
  /\ code[a + 1] \in {OP_LIT_STRING, OP_JMP} => a + 1 + WORD <= e
  /\ Decoded(code, a) = e

\* The opcodes differ.
LEMMA Opcodes ==
  /\ BYTES \in Nat /\ WORD \in Nat \ {0} /\ CHAR \in Nat
  /\ Opcode \subseteq Nat
  /\ OP # OP_LIT_FIXNUM /\ OP # OP_LIT_CHAR /\ OP # OP_LIT_STRING /\ OP # OP_JMP
  /\ OP_LIT_FIXNUM # OP_LIT_CHAR /\ OP_LIT_FIXNUM # OP_LIT_STRING /\ OP_LIT_FIXNUM # OP_JMP
  /\ OP_LIT_CHAR # OP_LIT_STRING /\ OP_LIT_CHAR # OP_JMP /\ OP_LIT_STRING # OP_JMP
BY AsmAssumption DEF Opcode, OP, OP_LIT_FIXNUM, OP_LIT_CHAR, OP_LIT_STRING, OP_JMP

\* Decoded, one instruction at a time.
LEMMA DecodedAs ==
  ASSUME NEW code, NEW a \in Nat
  PROVE  /\ code[a + 1] = OP => Decoded(code, a) = a + 1
         /\ code[a + 1] = OP_LIT_CHAR => Decoded(code, a) = a + 1 + CHAR
         /\ code[a + 1] \in {OP_LIT_FIXNUM, OP_JMP} => Decoded(code, a) = a + 1 + WORD
         /\ code[a + 1] = OP_LIT_STRING =>
              Decoded(code, a) = a + 1 + (WORD + parse_int(code, a + 1))
BY Opcodes DEF Decoded

\* An instruction is the same wherever its bytes stand.
LEMMA Moved ==
  ASSUME NEW code \in Seq(Nat), NEW a, NEW e, Instruction(code, a, e),
         NEW other \in Seq(Nat), NEW b \in Nat, b + (e - a) <= Len(other),
         code[a + 1] = other[b + 1],
         code[a + 1] = OP_LIT_STRING =>
           \A j \in 1..WORD : code[(a + 1) + j] = other[(b + 1) + j]
  PROVE  Instruction(other, b, b + (e - a))
<1>1. /\ a \in Nat /\ e \in Nat /\ a < e /\ code[a + 1] \in Opcode /\ Decoded(code, a) = e
      /\ code[a + 1] \in {OP_LIT_STRING, OP_JMP} => a + 1 + WORD <= e
  BY DEF Instruction
<1>2. Decoded(other, b) = b + (e - a)
  <2> DEFINE D == Decoded(code, a)
             E == Decoded(other, b)
             op == code[a + 1]
             n == parse_int(code, a + 1)
  <2>1. /\ op = OP => D = a + 1
        /\ op = OP_LIT_CHAR => D = a + 1 + CHAR
        /\ op \in {OP_LIT_FIXNUM, OP_JMP} => D = a + 1 + WORD
        /\ op = OP_LIT_STRING => D = a + 1 + (WORD + n)
    BY <1>1, DecodedAs
  <2>2. op = OP_LIT_STRING => n = parse_int(other, b + 1)
    <3>1. SUFFICES ASSUME op = OP_LIT_STRING PROVE n = parse_int(other, b + 1)
      OBVIOUS
    <3>2. \A j \in 1..WORD : code[(a + 1) + j] = other[(b + 1) + j]
      BY <3>1
    <3> HIDE DEF op
    <3>3. [j \in 1..WORD |-> code[(a + 1) + j]] = [j \in 1..WORD |-> other[(b + 1) + j]]
      BY <3>2
    <3> QED
      BY <3>3, Zenon DEF parse_int
  <2>3. /\ op = OP => E = b + 1
        /\ op = OP_LIT_CHAR => E = b + 1 + CHAR
        /\ op \in {OP_LIT_FIXNUM, OP_JMP} => E = b + 1 + WORD
        /\ op = OP_LIT_STRING => E = b + 1 + (WORD + n)
    <3>1. /\ other[b + 1] = OP => E = b + 1
          /\ other[b + 1] = OP_LIT_CHAR => E = b + 1 + CHAR
          /\ other[b + 1] \in {OP_LIT_FIXNUM, OP_JMP} => E = b + 1 + WORD
          /\ other[b + 1] = OP_LIT_STRING => E = b + 1 + (WORD + parse_int(other, b + 1))
      BY DecodedAs
    <3> HIDE DEF E, n
    <3> QED
      BY <2>2, <3>1
  <2>4. op = OP_LIT_STRING => n \in Int
    <3>1. SUFFICES ASSUME op = OP_LIT_STRING PROVE n \in Int
      OBVIOUS
    <3> DEFINE word == [j \in 1..WORD |-> code[(a + 1) + j]]
    <3>2. a + 1 + WORD <= Len(code) /\ WORD \in Nat /\ WORD \in 0..WORD
      BY <1>1, <3>1, Opcodes DEF Instruction
    <3>3. \A j \in 1..WORD : (a + 1) + j \in 1..Len(code)
      BY <1>1, <3>2
    <3>4. word \in [1..WORD -> Nat]
      BY SMTT(30), <3>3
    <3>5. n = IF 2 * Shifted(word) >= Modulus THEN Shifted(word) - Modulus ELSE Shifted(word)
      BY DEF parse_int
    <3> HIDE DEF word, n
    <3>6. PICK f \in [0..WORD -> Nat] : Shifted(word) = f[WORD]
      BY <3>4, ShiftedIs
    <3> QED
      BY <3>2, <3>5, <3>6, ModulusNat
  <2>5. op \in Opcode /\ D = e
    BY <1>1
  <2> HIDE DEF D, E, op, n
  <2>6. E = b + (e - a)
    <3>1. CASE op = OP
      BY <1>1, <2>1, <2>3, <2>5, <3>1
    <3>2. CASE op = OP_LIT_CHAR
      BY <1>1, <2>1, <2>3, <2>5, <3>2, Opcodes
    <3>3. CASE op \in {OP_LIT_FIXNUM, OP_JMP}
      <4>1. D = a + 1 + WORD /\ E = b + 1 + WORD
        BY <2>1, <2>3, <3>3
      <4> QED
        BY <1>1, <2>5, <4>1, Opcodes
    <3>4. CASE op = OP_LIT_STRING
      <4>1. D = a + 1 + (WORD + n) /\ E = b + 1 + (WORD + n) /\ n \in Int
        BY <2>1, <2>3, <2>4, <3>4
      <4>2. a \in Nat /\ e \in Nat /\ WORD \in Nat /\ D = e
        BY <1>1, <2>5, Opcodes
      <4> QED
        BY <4>1, <4>2
    <3> QED
      BY <2>5, <3>1, <3>2, <3>3, <3>4 DEF Opcode
  <2> QED
    BY <2>6 DEF E
<1> QED
  BY <1>1, <1>2, Opcodes DEF Instruction

\* Sequences that follow each other.
LEMMA Joined ==
  ASSUME NEW s \in Seq(Nat), NEW t \in Seq(Nat)
  PROVE  /\ s \o t \in Seq(Nat) /\ Len(s \o t) = Len(s) + Len(t) /\ Len(s) \in Nat /\ Len(t) \in Nat
         /\ \A i \in 1..Len(s) : (s \o t)[i] = s[i]
         /\ \A i \in 1..Len(t) : (s \o t)[Len(s) + i] = t[i]
OBVIOUS

\* Operands are sequences of bytes of their size.
LEMMA Fields ==
  /\ \A i \in Int : INT_64(i) \in Seq(Nat) /\ Len(INT_64(i)) = WORD
  /\ \A n \in Nat : [j \in 1..n |-> 0] \in Seq(Nat) /\ Len([j \in 1..n |-> 0]) = n
<1>1. WORD \in Nat /\ 0..(BYTES - 1) \subseteq Nat
  BY AsmAssumption
<1>2. ASSUME NEW i \in Int PROVE INT_64(i) \in Seq(Nat) /\ Len(INT_64(i)) = WORD
  <2>1. INT_64(i) \in [1..WORD -> Nat]
    BY <1>1, ReadsBackInteger
  <2> QED
    BY <1>1, <2>1
<1>3. ASSUME NEW n \in Nat
      PROVE  [j \in 1..n |-> 0] \in Seq(Nat) /\ Len([j \in 1..n |-> 0]) = n
  <2>1. [j \in 1..n |-> 0] \in [1..n -> Nat]
    OBVIOUS
  <2> QED
    BY <2>1
<1> QED
  BY <1>2, <1>3

\* An opcode with its operands.
LEMMA WithOperands ==
  ASSUME NEW op \in Opcode, NEW operands \in Seq(Nat)
  PROVE  LET piece == <<op>> \o operands
         IN  /\ piece \in Seq(Nat) /\ Len(piece) = 1 + Len(operands) /\ Len(operands) \in Nat
             /\ piece[1] = op
             /\ \A j \in 1..Len(operands) : piece[1 + j] = operands[j]
<1>1. op \in Nat
  BY Opcodes
<1>2. <<op>> \in Seq(Nat) /\ Len(<<op>>) = 1 /\ <<op>>[1] = op
  BY <1>1
<1> QED
  BY <1>2, Joined

\* What the assembler emits for each kind of token is one instruction.
LEMMA EmittedPlain == <<OP>> \in Seq(Nat) /\ Len(<<OP>>) = 1 /\ Instruction(<<OP>>, 0, 1)
<1>1. <<OP>> \in Seq(Nat) /\ Len(<<OP>>) = 1 /\ <<OP>>[0 + 1] = OP /\ OP \in Opcode
  BY Opcodes DEF Opcode
<1>2. Decoded(<<OP>>, 0) = 0 + 1
  BY <1>1, DecodedAs
<1> QED
  BY <1>1, <1>2, Opcodes DEF Instruction

LEMMA EmittedWord ==
  ASSUME NEW op \in {OP_LIT_FIXNUM, OP_JMP}, NEW i \in Int
  PROVE  LET piece == <<op>> \o INT_64(i)
         IN  /\ piece \in Seq(Nat) /\ Len(piece) = WORD + 1 /\ piece[1] = op
             /\ Instruction(piece, 0, WORD + 1)
<1> DEFINE piece == <<op>> \o INT_64(i)
<1>1. op \in Opcode
  BY DEF Opcode
<1>2. piece \in Seq(Nat) /\ Len(piece) = WORD + 1 /\ piece[1] = op
  <2>1. INT_64(i) \in Seq(Nat) /\ Len(INT_64(i)) = WORD
    BY Fields
  <2> QED
    BY <1>1, <2>1, WithOperands, Opcodes
<1> HIDE DEF piece
<1>3. 0 \in Nat /\ 0 + 1 = 1
  OBVIOUS
<1>4. Decoded(piece, 0) = 0 + 1 + WORD
  BY <1>2, <1>3, DecodedAs
<1>5. Instruction(piece, 0, WORD + 1)
  BY <1>1, <1>2, <1>3, <1>4, Opcodes DEF Instruction
<1> QED
  BY <1>2, <1>5 DEF piece

LEMMA EmittedCharacter ==
  LET piece == <<OP_LIT_CHAR>> \o [j \in 1..CHAR |-> 0]
  IN  piece \in Seq(Nat) /\ Len(piece) = CHAR + 1 /\ Instruction(piece, 0, CHAR + 1)
<1> DEFINE piece == <<OP_LIT_CHAR>> \o [j \in 1..CHAR |-> 0]
<1>1. OP_LIT_CHAR \in Opcode
  BY DEF Opcode
<1>2. piece \in Seq(Nat) /\ Len(piece) = CHAR + 1 /\ piece[1] = OP_LIT_CHAR
  <2> DEFINE zeros == [j \in 1..CHAR |-> 0]
  <2>1. zeros \in Seq(Nat) /\ Len(zeros) = CHAR
    BY Fields, Opcodes
  <2> HIDE DEF zeros
  <2> QED
    BY <1>1, <2>1, WithOperands, Opcodes DEF zeros
<1> HIDE DEF piece
<1>3. 0 \in Nat /\ 0 + 1 = 1
  OBVIOUS
<1>4. Decoded(piece, 0) = 0 + 1 + CHAR
  BY <1>2, <1>3, DecodedAs
<1>5. Instruction(piece, 0, CHAR + 1)
  BY <1>1, <1>2, <1>3, <1>4, Opcodes DEF Instruction
<1> QED
  BY <1>2, <1>5 DEF piece

LEMMA EmittedString ==
  ASSUME NEW n \in Nat, 2 * n < Modulus
  PROVE  LET piece == <<OP_LIT_STRING>> \o INT_64(n) \o [j \in 1..n |-> 0]
         IN  /\ piece \in Seq(Nat) /\ Len(piece) = WORD + n + 1
             /\ Instruction(piece, 0, WORD + n + 1)
<1> DEFINE head == <<OP_LIT_STRING>> \o INT_64(n)
           zeros == [j \in 1..n |-> 0]
           piece == head \o zeros
<1>1. OP_LIT_STRING \in Opcode
  BY DEF Opcode
<1>2. INT_64(n) \in Seq(Nat) /\ Len(INT_64(n)) = WORD /\ zeros \in Seq(Nat) /\ Len(zeros) = n
  BY Fields
<1> HIDE DEF zeros
<1>3. /\ head \in Seq(Nat) /\ Len(head) = 1 + WORD /\ head[1] = OP_LIT_STRING
      /\ \A j \in 1..WORD : head[1 + j] = INT_64(n)[j]
  BY <1>1, <1>2, WithOperands
<1> HIDE DEF head
<1>4. /\ piece \in Seq(Nat) /\ Len(piece) = WORD + n + 1
      /\ \A i \in 1..(1 + WORD) : piece[i] = head[i]
  <2>1. /\ piece \in Seq(Nat) /\ Len(piece) = Len(head) + Len(zeros)
        /\ \A i \in 1..Len(head) : piece[i] = head[i]
    <3>1. head \in Seq(Nat) /\ zeros \in Seq(Nat)
      BY <1>2, <1>3
    <3> QED
      BY <3>1, Joined
  <2> HIDE DEF piece
  <2> QED
    BY <1>2, <1>3, <2>1, Opcodes
<1> HIDE DEF piece
<1>5. piece[1] = OP_LIT_STRING /\ \A j \in 1..WORD : piece[1 + j] = INT_64(n)[j]
  <2>1. WORD \in Nat /\ 1 \in 1..(1 + WORD) /\ \A j \in 1..WORD : 1 + j \in 1..(1 + WORD)
    BY Opcodes
  <2>2. piece[1] = head[1] /\ \A j \in 1..WORD : piece[1 + j] = head[1 + j]
    BY <1>4, <2>1
  <2> QED
    BY <1>3, <2>2
<1>6. parse_int(piece, 0 + 1) = n
  BY <1>5, ParsedLength
<1>7. 0 \in Nat /\ 0 + 1 = 1
  OBVIOUS
<1>8. Decoded(piece, 0) = 0 + 1 + (WORD + n)
  BY <1>5, <1>6, <1>7, DecodedAs
<1>9. Instruction(piece, 0, WORD + n + 1)
  BY <1>1, <1>4, <1>5, <1>7, <1>8, Opcodes DEF Instruction
<1> QED
  BY <1>4, <1>9 DEF piece, head, zeros

-----------------------------------------------------------------------------
(***************************************************************************)
(* Code: one instruction after the other.                                  *)
(***************************************************************************)

Start == [addr : Nat, place : Place \cup {Null}]

\* Where the instruction st[i] ends.
EndOf(code, st, i) == IF i = Len(st) THEN Len(code) ELSE st[i + 1].addr

Chain(code, st) ==
  /\ code \in Seq(Nat) /\ st \in Seq(Start)
  /\ \A i, k \in 1..Len(st) : i < k => st[i].addr < st[k].addr
  /\ \A i \in 1..Len(st) : Instruction(code, st[i].addr, EndOf(code, st, i))

LEMMA InChain ==
  ASSUME NEW code, NEW st, Chain(code, st)
  PROVE  /\ code \in Seq(Nat) /\ st \in Seq(Start) /\ Len(st) \in Nat /\ Len(code) \in Nat
         /\ \A i \in 1..Len(st) : st[i] \in Start /\ st[i].addr \in Nat
         /\ \A i, k \in 1..Len(st) : i < k => st[i].addr < st[k].addr
         /\ \A i \in 1..Len(st) : Instruction(code, st[i].addr, EndOf(code, st, i))
<1>1. code \in Seq(Nat) /\ st \in Seq(Start)
  BY DEF Chain
<1>2. Len(st) \in Nat /\ Len(code) \in Nat /\ \A i \in 1..Len(st) : st[i] \in Start
  BY <1>1
<1>3. \A i \in 1..Len(st) : st[i].addr \in Nat
  BY <1>2 DEF Start
<1> QED
  BY <1>1, <1>2, <1>3 DEF Chain

\* One more instruction at the end.
LEMMA ChainGrows ==
  ASSUME NEW code, NEW st, Chain(code, st),
         NEW piece \in Seq(Nat), NEW size \in Nat, Len(piece) = size, Instruction(piece, 0, size),
         NEW p \in Place \cup {Null}
  PROVE  Chain(code \o piece, Append(st, [addr |-> Len(code), place |-> p]))
<1> DEFINE more == code \o piece
           start == [addr |-> Len(code), place |-> p]
           longer == Append(st, start)
           n == Len(st)
<1>1. /\ code \in Seq(Nat) /\ st \in Seq(Start) /\ n \in Nat /\ Len(code) \in Nat
      /\ \A i \in 1..n : st[i] \in Start /\ st[i].addr \in Nat
      /\ \A i, k \in 1..n : i < k => st[i].addr < st[k].addr
      /\ \A i \in 1..n : Instruction(code, st[i].addr, EndOf(code, st, i))
  BY InChain
<1>2. /\ more \in Seq(Nat) /\ Len(more) = Len(code) + size
      /\ \A i \in 1..Len(code) : more[i] = code[i]
      /\ \A i \in 1..size : more[Len(code) + i] = piece[i]
  <2>1. code \in Seq(Nat) /\ piece \in Seq(Nat)
    BY <1>1
  <2>2. /\ code \o piece \in Seq(Nat) /\ Len(code \o piece) = Len(code) + Len(piece)
        /\ \A i \in 1..Len(code) : (code \o piece)[i] = code[i]
        /\ \A i \in 1..Len(piece) : (code \o piece)[Len(code) + i] = piece[i]
    BY <2>1, SMTT(30)
  <2> QED
    BY <2>2
<1>3. start \in Start /\ start.addr = Len(code)
  BY <1>1 DEF Start
<1> HIDE DEF more, start
<1>4. /\ longer \in Seq(Start) /\ Len(longer) = n + 1 /\ longer[n + 1] = start
      /\ \A i \in 1..n : longer[i] = st[i]
  BY <1>1, <1>3
<1> HIDE DEF longer, n
<1>5. \A i \in 1..n : /\ st[i].addr < Len(code) /\ EndOf(code, st, i) <= Len(code)
                      /\ EndOf(code, st, i) \in Nat
  BY <1>1 DEF Instruction
<1>6. ASSUME NEW i \in 1..(n + 1), NEW k \in 1..(n + 1), i < k
      PROVE  longer[i].addr < longer[k].addr
  <2>1. i \in 1..n
    BY <1>1, <1>6
  <2>2. CASE k = n + 1
    BY <1>3, <1>4, <1>5, <2>1, <2>2
  <2>3. CASE k # n + 1
    <3>1. k \in 1..n
      BY <1>1, <2>3
    <3> QED
      BY <1>1, <1>4, <1>6, <2>1, <3>1
  <2> QED
    BY <2>2, <2>3
<1>7. ASSUME NEW i \in 1..n
      PROVE  Instruction(more, longer[i].addr, EndOf(more, longer, i))
  <2> DEFINE a == st[i].addr
             e == EndOf(code, st, i)
  <2>1. EndOf(more, longer, i) = e
    <3>1. i # n + 1 /\ EndOf(more, longer, i) = longer[i + 1].addr
      BY <1>1, <1>4 DEF EndOf
    <3>2. CASE i = n
      BY <1>3, <1>4, <3>1, <3>2 DEF EndOf, n
    <3>3. CASE i # n
      <4>1. i + 1 \in 1..n
        BY <1>1, <3>3
      <4> QED
        BY <1>4, <3>1, <3>3, <4>1 DEF EndOf, n
    <3> QED
      BY <3>2, <3>3
  <2>2. Instruction(code, a, e) /\ a \in Nat /\ e \in Nat /\ e <= Len(code) /\ a < e
    BY <1>1, <1>5 DEF Instruction
  <2>3. longer[i].addr = a
    BY <1>4
  <2> HIDE DEF a, e
  <2>4. /\ code[a + 1] = more[a + 1]
        /\ code[a + 1] = OP_LIT_STRING =>
             \A j \in 1..WORD : code[(a + 1) + j] = more[(a + 1) + j]
    <3>1. a + 1 \in 1..Len(code)
      BY <1>1, <2>2
    <3>2. code[a + 1] = OP_LIT_STRING => \A j \in 1..WORD : (a + 1) + j \in 1..Len(code)
      <4>1. code[a + 1] = OP_LIT_STRING => a + 1 + WORD <= e
        BY <2>2 DEF Instruction
      <4> QED
        BY <1>1, <2>2, <4>1, Opcodes
    <3> QED
      BY <1>2, <3>1, <3>2
  <2>5. a + (e - a) = e /\ e <= Len(more)
    BY <1>1, <1>2, <2>2
  <2>6. Instruction(more, a, a + (e - a))
    BY <1>1, <1>2, <2>2, <2>4, <2>5, Moved
  <2> QED
    BY <2>1, <2>3, <2>5, <2>6
<1>8. Instruction(more, longer[n + 1].addr, EndOf(more, longer, n + 1))
  <2> DEFINE a == Len(code)
  <2>1. EndOf(more, longer, n + 1) = a + size /\ longer[n + 1].addr = a
    BY <1>2, <1>3, <1>4 DEF EndOf
  <2>2. /\ piece[0 + 1] = more[a + 1]
        /\ piece[0 + 1] = OP_LIT_STRING =>
             \A j \in 1..WORD : piece[(0 + 1) + j] = more[(a + 1) + j]
    <3>1. 1 \in 1..size
      BY DEF Instruction
    <3>2. piece[0 + 1] = OP_LIT_STRING =>
            \A j \in 1..WORD : 1 + j \in 1..size /\ (a + 1) + j = a + (1 + j)
      <4>1. piece[0 + 1] = OP_LIT_STRING => 0 + 1 + WORD <= size
        BY DEF Instruction
      <4> QED
        BY <1>1, <4>1, Opcodes
    <3> HIDE DEF a
    <3>3. \A i \in 1..size : more[a + i] = piece[i]
      BY <1>2 DEF a
    <3> QED
      BY <3>1, <3>2, <3>3
  <2>3. a \in Nat /\ 0 \in Nat /\ a + (size - 0) = a + size /\ a + size <= Len(more)
    BY <1>1, <1>2
  <2> HIDE DEF a
  <2>4. Instruction(more, a, a + (size - 0))
    BY <1>2, <2>2, <2>3, Moved
  <2> QED
    BY <2>1, <2>3, <2>4
<1>9. \A i \in 1..(n + 1) : Instruction(more, longer[i].addr, EndOf(more, longer, i))
  <2> TAKE i \in 1..(n + 1)
  <2>1. i = n + 1 \/ i \in 1..n
    BY <1>1
  <2> QED
    BY <1>7, <1>8, <2>1
<1>10. Chain(more, longer)
  BY <1>2, <1>4, <1>6, <1>9 DEF Chain
<1> QED
  BY <1>10 DEF more, longer, start

\* The bytes of two instructions are apart.
LEMMA Apart ==
  ASSUME NEW code, NEW st, Chain(code, st),
         NEW i \in 1..Len(st), NEW k \in 1..Len(st), i < k
  PROVE  EndOf(code, st, i) <= st[k].addr
<1>1. i # Len(st) /\ EndOf(code, st, i) = st[i + 1].addr /\ i + 1 \in 1..Len(st)
  BY DEF EndOf, Chain
<1>2. \A m \in 1..Len(st) : st[m].addr \in Nat
  BY InChain
<1>3. \A m, n \in 1..Len(st) : m < n => st[m].addr < st[n].addr
  BY DEF Chain
<1>4. CASE i + 1 = k
  BY <1>1, <1>2, <1>4
<1>5. CASE i + 1 # k
  <2>1. i + 1 < k
    BY <1>5
  <2> QED
    BY <1>1, <1>2, <1>3, <2>1
<1> QED
  BY <1>4, <1>5

\* The code and the instructions in it go on, with instructions of place p.
Extends(code, st, more, longer, p) ==
  /\ Len(code) <= Len(more) /\ \A x \in 1..Len(code) : more[x] = code[x]
  /\ Len(st) < Len(longer) /\ \A i \in 1..Len(st) : longer[i] = st[i]
  /\ longer[Len(st) + 1].addr = Len(code)
  /\ \A i \in 1..Len(longer) :
       i > Len(st) => longer[i].addr >= Len(code) /\ longer[i].place = p

LEMMA ExtendsOnce ==
  ASSUME NEW code, NEW st, Chain(code, st), NEW piece \in Seq(Nat), NEW p
  PROVE  Extends(code, st, code \o piece, Append(st, [addr |-> Len(code), place |-> p]), p)
<1> DEFINE start == [addr |-> Len(code), place |-> p]
           longer == Append(st, start)
           more == code \o piece
<1>1. code \in Seq(Nat) /\ st \in Seq(Start) /\ Len(st) \in Nat /\ Len(code) \in Nat
  BY InChain
<1>2. start.addr = Len(code) /\ start.place = p
  OBVIOUS
<1>3. Len(code) <= Len(more) /\ \A x \in 1..Len(code) : more[x] = code[x]
  BY <1>1
<1> HIDE DEF start, more
<1>4. /\ Len(longer) = Len(st) + 1 /\ longer[Len(st) + 1] = start
      /\ \A i \in 1..Len(st) : longer[i] = st[i]
  BY <1>1
<1> HIDE DEF longer
<1>5. \A i \in 1..Len(longer) : i > Len(st) => i = Len(st) + 1
  BY <1>1, <1>4
<1>6. Extends(code, st, more, longer, p)
  BY <1>1, <1>2, <1>3, <1>4, <1>5 DEF Extends
<1> QED
  BY <1>6 DEF longer, start, more

\* One instruction more, of place p.
LEMMA OneMore ==
  ASSUME NEW code, NEW st, Chain(code, st), NEW piece \in Seq(Nat),
         Instruction(piece, 0, Len(piece)), NEW p \in Place \cup {Null}
  PROVE  LET longer == Append(st, [addr |-> Len(code), place |-> p])
         IN  Chain(code \o piece, longer) /\ Extends(code, st, code \o piece, longer, p)
<1>1. Len(piece) \in Nat
  OBVIOUS
<1>2. Chain(code \o piece, Append(st, [addr |-> Len(code), place |-> p]))
  BY <1>1, ChainGrows
<1> QED
  BY <1>2, ExtendsOnce

LEMMA ExtendsTwice ==
  ASSUME NEW code, NEW st, NEW code2, NEW st2, NEW code3, NEW st3, NEW p,
         Len(code) \in Nat, Len(code2) \in Nat, Len(code3) \in Nat,
         Len(st) \in Nat, Len(st2) \in Nat, Len(st3) \in Nat,
         \A i \in 1..Len(st3) : st3[i].addr \in Nat,
         Extends(code, st, code2, st2, p), Extends(code2, st2, code3, st3, p)
  PROVE  Extends(code, st, code3, st3, p)
<1>1. Len(code) <= Len(code3) /\ \A x \in 1..Len(code) : code3[x] = code[x]
  <2>1. \A x \in 1..Len(code) : x \in 1..Len(code2)
    BY DEF Extends
  <2> QED
    BY <2>1 DEF Extends
<1>2. Len(st) < Len(st3) /\ \A i \in 1..Len(st2) : st3[i] = st2[i]
  BY DEF Extends
<1>3. \A i \in 1..Len(st) : i \in 1..Len(st2) /\ st3[i] = st[i]
  BY <1>2 DEF Extends
<1>4. st3[Len(st) + 1].addr = Len(code)
  <2>1. Len(st) + 1 \in 1..Len(st2)
    BY DEF Extends
  <2> QED
    BY <1>2, <2>1 DEF Extends
<1>5. ASSUME NEW i \in 1..Len(st3), i > Len(st)
      PROVE  st3[i].addr >= Len(code) /\ st3[i].place = p
  <2>1. CASE i > Len(st2)
    BY <1>5, <2>1, SMTT(30) DEF Extends
  <2>2. CASE ~ (i > Len(st2))
    <3>1. i \in 1..Len(st2)
      BY <2>2
    <3> QED
      BY <1>2, <1>5, <3>1 DEF Extends
  <2> QED
    BY <2>1, <2>2
<1> QED
  BY <1>1, <1>2, <1>3, <1>4, <1>5 DEF Extends

-----------------------------------------------------------------------------
(***************************************************************************)
(* The invariant.                                                          *)
(***************************************************************************)

\* The code is made of the instructions that were emitted.
CodeInv ==
  /\ has_debug \in DOMAIN MaxCode
  /\ Chain(out, starts) /\ Len(out) <= MaxCode[has_debug]
  /\ named \in Place \cup {Null}

Jump == [addr : Nat, label : Label]

\* A jump's field follows the opcode of a jump.
SiteIn(j, code, st) == \E i \in 1..Len(st) : j.addr = st[i].addr + 1 /\ code[j.addr] = OP_JMP

Stands(a, code, st) == a = Len(code) \/ \E i \in 1..Len(st) : a = st[i].addr

Listed(j) == \E n \in 1..Len(jumps) : jumps[n] = j

Landed(j) == labels[j.label] # Null /\ JumpsTo(out, j.addr) = labels[j.label]

\* Every jump is still on the list or leads to its label.
JumpInv ==
  /\ labels \in [Label -> Nat \cup {Null}]
  /\ \A l \in Label : labels[l] # Null => Stands(labels[l], out, starts)
  /\ jumps \in Seq(Jump) /\ sites \subseteq Jump
  /\ \A n \in 1..Len(jumps) : jumps[n] \in sites
  /\ \A j \in sites : SiteIn(j, out, starts)
  /\ \A j, k \in sites : j.addr = k.addr => j = k
  /\ \A j \in sites : Listed(j) \/ (pc # "tokens" /\ Landed(j))

\* The last record that starts at or before the instruction is of its place.
Recorded(s, records) ==
  \/ s.place = Null /\ \A k \in 1..Len(records) : records[k].start_addr > s.addr
  \/ \E last \in 1..Len(records) :
       /\ records[last].start_addr <= s.addr /\ records[last].place = s.place
       /\ \A k \in 1..Len(records) : k > last => records[k].start_addr > s.addr

Record == [place : Place, start_addr : Nat]

PlaceInv ==
  /\ debug \in Seq(Record)
  /\ \A k \in 1..Len(debug) : debug[k].start_addr <= Len(out)
  /\ IF debug = <<>> THEN named = Null ELSE named = debug[Len(debug)].place
  /\ \A i \in 1..Len(starts) : Recorded(starts[i], debug)

IInv == CodeInv /\ JumpInv /\ PlaceInv

\* What all instructions that emit something have in common.
Emission ==
  /\ pc = "tokens" /\ pc' = pc /\ has_debug' = has_debug /\ labels' = labels
  /\ debug' = debug /\ named' = named
  /\ Chain(out', starts') /\ Len(out') <= MaxCode[has_debug]
  /\ Extends(out, starts, out', starts', named)

\* A token that emits one instruction.
LEMMA EmitStep ==
  ASSUME CodeInv, NEW piece \in Seq(Nat), Instruction(piece, 0, Len(piece)), Emit(piece),
         UNCHANGED <<has_debug, labels, debug, pc, named>>
  PROVE  Emission /\ out' = out \o piece /\ starts' = Append(starts, [addr |-> Len(out), place |-> named])
<1>1. /\ Chain(out, starts) /\ named \in Place \cup {Null}
      /\ out' = out \o piece /\ pc = "tokens" /\ Len(out) + Len(piece) <= MaxCode[has_debug]
      /\ starts' = Append(starts, [addr |-> Len(out), place |-> named])
  BY DEF CodeInv, Emit
<1>2. Len(piece) \in Nat
  OBVIOUS
<1>3. Chain(out', starts')
  BY <1>1, <1>2, ChainGrows
<1>4. Extends(out, starts, out', starts', named)
  BY <1>1, ExtendsOnce
<1>5. Len(out') = Len(out) + Len(piece)
  <2>1. out \in Seq(Nat)
    BY <1>1, InChain
  <2> QED
    BY <1>1, <2>1
<1> QED
  BY <1>1, <1>3, <1>4, <1>5 DEF Emission

\* Addresses fit into a field.
LEMMA SizeOfCode == CodeInv => Len(out) \in 0..(Modulus - 1) /\ MaxCode[has_debug] \in 0..(Modulus - 1)
<1> SUFFICES ASSUME CodeInv PROVE Len(out) \in 0..(Modulus - 1) /\ MaxCode[has_debug] \in 0..(Modulus - 1)
  OBVIOUS
<1>1. MaxCode[has_debug] \in 0..(Modulus - 1)
  BY AsmAssumption DEF CodeInv
<1>2. Len(out) \in Nat /\ Len(out) <= MaxCode[has_debug]
  BY InChain DEF CodeInv
<1> QED
  BY <1>1, <1>2, ModulusNat

LEMMA EmissionCode == CodeInv /\ Emission => CodeInv'
BY DEF CodeInv, Emission

\* Sites and targets stay what they are when code is added.
LEMMA EmissionKeeps ==
  ASSUME CodeInv, Emission
  PROVE  /\ \A j : SiteIn(j, out, starts) => SiteIn(j, out', starts')
         /\ \A a : Stands(a, out, starts) => Stands(a, out', starts')
         /\ \A j : SiteIn(j, out, starts) => j.addr <= Len(out)
<1>1. /\ Len(starts) \in Nat /\ Len(starts') \in Nat /\ Len(out) \in Nat
      /\ \A i \in 1..Len(starts) :
           starts[i].addr \in Nat /\ starts[i].addr + 1 \in 1..Len(out)
  <2>1. Chain(out, starts) /\ Chain(out', starts')
    BY DEF CodeInv, Emission
  <2>2. /\ Len(starts) \in Nat /\ Len(starts') \in Nat /\ Len(out) \in Nat
        /\ \A i \in 1..Len(starts) : Instruction(out, starts[i].addr, EndOf(out, starts, i))
    BY <2>1, InChain
  <2> QED
    BY <2>2 DEF Instruction
<1>2. /\ \A x \in 1..Len(out) : out'[x] = out[x]
      /\ Len(starts) < Len(starts') /\ \A i \in 1..Len(starts) : starts'[i] = starts[i]
      /\ starts'[Len(starts) + 1].addr = Len(out)
  BY DEF Emission, Extends
<1>3. \A i \in 1..Len(starts) : i \in 1..Len(starts')
  BY <1>1, <1>2
<1>4. Len(starts) + 1 \in 1..Len(starts')
  BY <1>1, <1>2
<1>5. ASSUME NEW j, SiteIn(j, out, starts)
      PROVE  SiteIn(j, out', starts') /\ j.addr <= Len(out)
  <2>1. PICK i \in 1..Len(starts) : j.addr = starts[i].addr + 1 /\ out[j.addr] = OP_JMP
    BY <1>5 DEF SiteIn
  <2>2. j.addr \in 1..Len(out)
    BY <1>1, <2>1
  <2>3. j.addr = starts'[i].addr + 1 /\ out'[j.addr] = OP_JMP
    BY <1>2, <2>1, <2>2
  <2> QED
    BY <1>1, <1>3, <2>2, <2>3 DEF SiteIn
<1>6. ASSUME NEW a, Stands(a, out, starts) PROVE Stands(a, out', starts')
  <2>1. CASE a = Len(out)
    BY <1>2, <1>4, <2>1 DEF Stands
  <2>2. CASE \E i \in 1..Len(starts) : a = starts[i].addr
    BY <1>2, <1>3, <2>2 DEF Stands
  <2> QED
    BY <1>6, <2>1, <2>2 DEF Stands
<1> QED
  BY <1>5, <1>6

LEMMA EmissionJumps ==
  ASSUME CodeInv, JumpInv, Emission, UNCHANGED <<jumps, sites>>
  PROVE  JumpInv'
<1>1. pc = "tokens" /\ pc' = pc /\ labels' = labels /\ jumps' = jumps /\ sites' = sites
  BY DEF Emission
<1>2. \A l \in Label : labels[l] # Null => Stands(labels[l], out', starts')
  BY EmissionKeeps DEF JumpInv
<1>3. \A j \in sites : SiteIn(j, out', starts')
  BY EmissionKeeps DEF JumpInv
<1>4. \A j \in sites : Listed(j)'
  BY <1>1 DEF JumpInv, Listed
<1> QED
  BY <1>1, <1>2, <1>3, <1>4 DEF JumpInv

LEMMA EmissionPlaces ==
  ASSUME CodeInv, PlaceInv, Emission
  PROVE  PlaceInv'
<1>1. debug' = debug /\ named' = named
  BY DEF Emission
<1>2. /\ Chain(out, starts) /\ Chain(out', starts')
      /\ Len(out) \in Nat /\ Len(out') \in Nat /\ Len(starts) \in Nat
      /\ \A i \in 1..Len(starts') : starts'[i].addr \in Nat
  <2>1. Chain(out, starts) /\ Chain(out', starts')
    BY DEF CodeInv, Emission
  <2> QED
    BY <2>1, InChain
<1>3. /\ Len(out) <= Len(out') /\ \A i \in 1..Len(starts) : starts'[i] = starts[i]
      /\ \A i \in 1..Len(starts') :
           i > Len(starts) => starts'[i].addr >= Len(out) /\ starts'[i].place = named
  BY DEF Emission, Extends
<1>4. /\ debug \in Seq(Record) /\ Len(debug) \in Nat
      /\ \A k \in 1..Len(debug) : debug[k].start_addr \in Nat /\ debug[k].start_addr <= Len(out)
  <2>1. debug \in Seq(Record) /\ \A k \in 1..Len(debug) : debug[k].start_addr <= Len(out)
    BY DEF PlaceInv
  <2>2. Len(debug) \in Nat /\ \A k \in 1..Len(debug) : debug[k] \in Record
    BY <2>1
  <2> QED
    BY <2>1, <2>2 DEF Record
<1>5. \A k \in 1..Len(debug) : debug[k].start_addr <= Len(out')
  BY <1>2, <1>3, <1>4
<1>6. ASSUME NEW i \in 1..Len(starts') PROVE Recorded(starts'[i], debug)
  <2>1. CASE i \in 1..Len(starts)
    BY <1>3, <2>1 DEF PlaceInv
  <2>2. CASE i \notin 1..Len(starts)
    <3>1. i > Len(starts)
      BY <1>2, <2>2
    <3> DEFINE s == starts'[i]
    <3>2. s.addr >= Len(out) /\ s.place = named /\ s.addr \in Nat
      BY <1>2, <1>3, <3>1
    <3> HIDE DEF s
    <3>3. CASE debug = <<>>
      BY <3>2, <3>3 DEF Recorded, PlaceInv, s
    <3>4. CASE debug # <<>>
      <4>1. Len(debug) \in 1..Len(debug) /\ \A k \in 1..Len(debug) : ~ (k > Len(debug))
        BY <1>4, <3>4
      <4>2. debug[Len(debug)].place = s.place
        BY <3>2, <3>4 DEF PlaceInv
      <4>3. debug[Len(debug)].start_addr <= s.addr
        BY <1>2, <1>4, <3>2, <4>1
      <4>4. Recorded(s, debug)
        BY <4>1, <4>2, <4>3 DEF Recorded
      <4> QED
        BY <4>4 DEF s
    <3> QED
      BY <3>3, <3>4
  <2> QED
    BY <2>1, <2>2
<1> QED
  BY <1>1, <1>4, <1>5, <1>6 DEF PlaceInv

\* What keeps the code keeps what is known of it.
LEMMA CodeKept ==
  ASSUME CodeInv, UNCHANGED <<has_debug, out, starts>>, named' \in Place \cup {Null}
  PROVE  CodeInv'
BY DEF CodeInv

LEMMA PlacesKept ==
  ASSUME PlaceInv, UNCHANGED <<out, starts, debug, named>>
  PROVE  PlaceInv'
BY DEF PlaceInv

(***************************************************************************)
(* The steps.                                                              *)
(***************************************************************************)

LEMMA LabelStep ==
  ASSUME CodeInv, JumpInv, NEW l \in Label, asm_label(l)
  PROVE  JumpInv'
<1>1. /\ pc = "tokens" /\ pc' = pc /\ labels' = [labels EXCEPT ![l] = Len(out)]
      /\ UNCHANGED <<out, jumps, starts, sites>>
  BY DEF asm_label
<1>2. Len(out) \in Nat
  BY InChain DEF CodeInv
<1>3. labels' \in [Label -> Nat \cup {Null}]
  BY <1>1, <1>2 DEF JumpInv
<1>4. \A k \in Label : labels'[k] = IF k = l THEN Len(out) ELSE labels[k]
  BY <1>1 DEF JumpInv
<1>5. \A k \in Label : labels'[k] # Null => Stands(labels'[k], out, starts)
  BY <1>4 DEF JumpInv, Stands
<1>6. \A j \in sites : Listed(j)'
  BY <1>1 DEF JumpInv, Listed
<1> QED
  BY <1>1, <1>3, <1>5, <1>6 DEF JumpInv

\* A sequence with a new head.
LEMMA Pushed ==
  ASSUME NEW S, NEW x \in S, NEW s \in Seq(S)
  PROVE  LET t == <<x>> \o s
         IN  /\ t \in Seq(S) /\ Len(t) = Len(s) + 1 /\ Len(s) \in Nat /\ t[1] = x
             /\ \A n \in 1..Len(s) : t[n + 1] = s[n]
             /\ \A n \in 1..Len(t) : n = 1 \/ (n - 1 \in 1..Len(s) /\ t[n] = s[n - 1])
OBVIOUS

LEMMA JumpStep ==
  ASSUME CodeInv, JumpInv, NEW l \in Label, asm_jump(l)
  PROVE  Emission /\ JumpInv'
<1> DEFINE piece == <<OP_JMP>> \o INT_64(0)
           jump == [addr |-> Len(out) + 1, label |-> l]
<1>1. /\ pc = "tokens" /\ pc' = pc /\ labels' = labels
      /\ Emit(piece) /\ jumps' = <<jump>> \o jumps /\ sites' = sites \cup {jump}
      /\ UNCHANGED <<has_debug, labels, debug, pc, named>>
  BY DEF asm_jump, Emit
<1>2. /\ piece \in Seq(Nat) /\ Len(piece) = WORD + 1 /\ piece[1] = OP_JMP
      /\ Instruction(piece, 0, WORD + 1)
  <2>1. OP_JMP \in {OP_LIT_FIXNUM, OP_JMP} /\ 0 \in Int
    OBVIOUS
  <2> QED
    BY <2>1, EmittedWord
<1> HIDE DEF piece
<1>3. /\ Emission /\ out' = out \o piece
      /\ starts' = Append(starts, [addr |-> Len(out), place |-> named])
  BY <1>1, <1>2, EmitStep
<1>4. /\ Len(out) \in Nat /\ Len(starts) \in Nat /\ out \in Seq(Nat) /\ starts \in Seq(Start)
  BY InChain DEF CodeInv
<1>5. jump \in Jump /\ jump.addr = Len(out) + 1 /\ jump.label = l
  BY <1>4 DEF Jump
<1> HIDE DEF jump
<1>6. SiteIn(jump, out', starts')
  <2>1. out'[Len(out) + 1] = OP_JMP
    BY <1>2, <1>3, <1>4, Opcodes
  <2>2. Len(starts') = Len(starts) + 1 /\ starts'[Len(starts) + 1].addr = Len(out)
    BY <1>3, <1>4
  <2>3. Len(starts) + 1 \in 1..Len(starts')
    BY <1>4, <2>2
  <2>4. jump.addr = starts'[Len(starts) + 1].addr + 1 /\ out'[jump.addr] = OP_JMP
    BY <1>5, <2>1, <2>2
  <2> QED
    BY <2>3, <2>4 DEF SiteIn
<1>7. \A j \in sites : SiteIn(j, out', starts') /\ j.addr <= Len(out) /\ j.addr \in Nat
  BY <1>3, EmissionKeeps DEF JumpInv, Jump
<1>8. \A k \in Label : labels[k] # Null => Stands(labels[k], out', starts')
  BY <1>3, EmissionKeeps DEF JumpInv
<1>9. /\ jumps' \in Seq(Jump) /\ Len(jumps') = Len(jumps) + 1 /\ Len(jumps) \in Nat
      /\ jumps'[1] = jump /\ \A n \in 1..Len(jumps) : jumps'[n + 1] = jumps[n]
      /\ \A n \in 1..Len(jumps') : n = 1 \/ (n - 1 \in 1..Len(jumps) /\ jumps'[n] = jumps[n - 1])
  BY <1>1, <1>5, Pushed DEF JumpInv
<1>10. \A n \in 1..Len(jumps') : jumps'[n] \in sites'
  BY <1>1, <1>9 DEF JumpInv
<1>11. \A j, k \in sites' : j.addr = k.addr => j = k
  BY <1>1, <1>4, <1>5, <1>7 DEF JumpInv
<1>12. ASSUME NEW j \in sites' PROVE Listed(j)'
  <2>1. CASE j = jump
    BY <1>9, <2>1 DEF Listed
  <2>2. CASE j # jump
    <3>1. PICK n \in 1..Len(jumps) : jumps[n] = j
      BY <1>1, <2>2 DEF JumpInv, Listed
    <3>2. n + 1 \in 1..Len(jumps') /\ jumps'[n + 1] = j
      BY <1>9, <3>1
    <3> QED
      BY <3>2 DEF Listed
  <2> QED
    BY <2>1, <2>2
<1>13. sites' \subseteq Jump /\ labels' \in [Label -> Nat \cup {Null}]
  BY <1>1, <1>5 DEF JumpInv
<1>14. \A j \in sites' : SiteIn(j, out', starts')
  BY <1>1, <1>6, <1>7
<1> QED
  BY <1>1, <1>3, <1>8, <1>9, <1>10, <1>11, <1>12, <1>13, <1>14 DEF JumpInv

\* A string that fits into the code has a length that fits into a field.
LEMMA LengthFits ==
  ASSUME CodeInv, NEW n \in 0..2, WORD + n + 1 <= MaxCode[has_debug]
  PROVE  n \in Nat /\ 2 * n < Modulus
<1>1. WORD \in Nat \ {0} /\ Modulus \in Nat /\ MaxCode[has_debug] \in 0..(Modulus - 1)
  BY SizeOfCode, Opcodes, ModulusNat
<1>2. n + 3 <= Modulus
  BY <1>1
<1> QED
  BY <1>1, <1>2

LEMMA StringLength ==
  ASSUME NEW n \in Nat
  PROVE  Len(<<OP_LIT_STRING>> \o INT_64(n) \o [j \in 1..n |-> 0]) = WORD + n + 1
<1> DEFINE head == <<OP_LIT_STRING>> \o INT_64(n)
           zeros == [j \in 1..n |-> 0]
<1>1. INT_64(n) \in Seq(Nat) /\ Len(INT_64(n)) = WORD /\ zeros \in Seq(Nat) /\ Len(zeros) = n
  BY Fields
<1> HIDE DEF zeros
<1>2. OP_LIT_STRING \in Opcode
  BY DEF Opcode
<1>3. head \in Seq(Nat) /\ Len(head) = 1 + WORD
  BY <1>1, <1>2, WithOperands
<1> HIDE DEF head
<1>4. Len(head \o zeros) = Len(head) + Len(zeros)
  BY <1>1, <1>3, Joined
<1>5. Len(head \o zeros) = WORD + n + 1
  BY <1>1, <1>3, <1>4, Opcodes
<1> QED
  BY <1>5 DEF head, zeros

LEMMA StringStep ==
  ASSUME CodeInv, NEW n \in 0..2, asm_lit_string(n)
  PROVE  Emission /\ UNCHANGED <<jumps, sites>>
<1> DEFINE piece == <<OP_LIT_STRING>> \o INT_64(n) \o [j \in 1..n |-> 0]
<1>1. n \in Nat
  OBVIOUS
<1>2. Emit(piece) /\ UNCHANGED <<has_debug, labels, jumps, debug, pc, sites, named>>
  BY DEF asm_lit_string
<1>3. Len(piece) = WORD + n + 1
  BY <1>1, StringLength
<1>4. WORD + n + 1 <= MaxCode[has_debug]
  <2>1. Len(out) \in Nat /\ Len(out) + Len(piece) <= MaxCode[has_debug]
    BY <1>2, SizeOfCode DEF Emit
  <2> HIDE DEF piece
  <2> QED
    BY <1>3, <2>1, SizeOfCode, Opcodes
<1>5. 2 * n < Modulus
  BY <1>4, LengthFits
<1>6. piece \in Seq(Nat) /\ Instruction(piece, 0, WORD + n + 1)
  BY <1>1, <1>5, EmittedString
<1> HIDE DEF piece
<1> QED
  BY <1>2, <1>3, <1>6, EmitStep

LEMMA ThreeMore ==
  ASSUME NEW S, NEW s \in Seq(S), NEW x \in S, NEW y \in S, NEW z \in S
  PROVE  s \o <<x, y, z>> = Append(Append(Append(s, x), y), z)
<1> DEFINE t == s \o <<x, y, z>>
           a == Append(s, x)
           b == Append(a, y)
           c == Append(b, z)
<1>1. /\ t \in Seq(S) /\ Len(t) = Len(s) + 3 /\ Len(s) \in Nat
      /\ \A i \in 1..Len(s) : t[i] = s[i]
      /\ t[Len(s) + 1] = x /\ t[Len(s) + 2] = y /\ t[Len(s) + 3] = z
  OBVIOUS
<1>2. a \in Seq(S) /\ Len(a) = Len(s) + 1 /\ a[Len(s) + 1] = x /\ \A i \in 1..Len(s) : a[i] = s[i]
  OBVIOUS
<1> HIDE DEF a
<1>3. /\ b \in Seq(S) /\ Len(b) = Len(s) + 2 /\ b[Len(s) + 1] = x /\ b[Len(s) + 2] = y
      /\ \A i \in 1..Len(s) : b[i] = s[i]
  BY <1>1, <1>2
<1> HIDE DEF b
<1>4. /\ c \in Seq(S) /\ Len(c) = Len(s) + 3 /\ c[Len(s) + 1] = x /\ c[Len(s) + 2] = y
      /\ c[Len(s) + 3] = z /\ \A i \in 1..Len(s) : c[i] = s[i]
  BY <1>1, <1>3
<1> HIDE DEF c, t
<1>5. \A i \in 1..(Len(s) + 3) :
        i \in 1..Len(s) \/ i = Len(s) + 1 \/ i = Len(s) + 2 \/ i = Len(s) + 3
  BY <1>1
<1>6. \A i \in 1..(Len(s) + 3) : t[i] = c[i]
  BY <1>1, <1>4, <1>5
<1>7. t = c
  BY <1>1, <1>4, <1>6
<1> QED
  BY <1>7 DEF t, c, b, a

\* The three operands of a .file are three instructions.
LEMMA FileStep ==
  ASSUME CodeInv, NEW n \in 0..2, NEW line \in Int, NEW column \in Int,
         file_operands(n, line, column)
  PROVE  Emission /\ UNCHANGED <<jumps, sites>>
<1> DEFINE name == <<OP_LIT_STRING>> \o INT_64(n) \o [j \in 1..n |-> 0]
           first == <<OP_LIT_FIXNUM>> \o INT_64(line)
           second == <<OP_LIT_FIXNUM>> \o INT_64(column)
           at(a) == [addr |-> a, place |-> named]
           out1 == out \o name
           out2 == out1 \o first
           out3 == out2 \o second
           st1 == Append(starts, at(Len(out)))
           st2 == Append(st1, at(Len(out1)))
           st3 == Append(st2, at(Len(out2)))
<1>1. /\ UNCHANGED <<has_debug, labels, jumps, debug, pc, sites, named>> /\ pc = "tokens"
      /\ Len(out) + Len(name) + 2 * (WORD + 1) <= MaxCode[has_debug]
      /\ out' = out \o name \o first \o second
      /\ starts' = starts \o <<at(Len(out) + 0), at(Len(out) + Len(name)),
                               at(Len(out) + (Len(name) + WORD + 1))>>
  BY DEF file_operands
<1>2. /\ Chain(out, starts) /\ named \in Place \cup {Null}
      /\ out \in Seq(Nat) /\ starts \in Seq(Start) /\ Len(out) \in Nat
      /\ MaxCode[has_debug] \in Nat /\ WORD \in Nat \ {0}
  BY InChain, SizeOfCode, Opcodes DEF CodeInv
<1>3. name \in Seq(Nat) /\ Len(name) = WORD + n + 1 /\ Instruction(name, 0, Len(name))
  <2>1. n \in Nat /\ Len(name) = WORD + n + 1
    BY StringLength
  <2>2. 2 * n < Modulus
    <3>1. WORD + n + 1 <= MaxCode[has_debug]
      <4> HIDE DEF name, first, second
      <4>1. Len(out) + Len(name) + 2 * (WORD + 1) <= MaxCode[has_debug]
        BY <1>1
      <4>2. Len(out) \in Nat /\ WORD \in Nat /\ MaxCode[has_debug] \in Nat
        BY <1>2
      <4> QED
        BY <2>1, <4>1, <4>2
    <3> QED
      BY <3>1, LengthFits
  <2> QED
    BY <2>1, <2>2, EmittedString
<1>4. /\ first \in Seq(Nat) /\ Len(first) = WORD + 1 /\ Instruction(first, 0, Len(first))
      /\ second \in Seq(Nat) /\ Len(second) = WORD + 1 /\ Instruction(second, 0, Len(second))
  <2>1. OP_LIT_FIXNUM \in {OP_LIT_FIXNUM, OP_JMP}
    OBVIOUS
  <2> QED
    BY <2>1, EmittedWord
<1> HIDE DEF name, first, second
<1>5. /\ Len(out1) = Len(out) + Len(name) /\ out1 \in Seq(Nat) /\ Len(out1) \in Nat
      /\ Len(out2) = Len(out1) + (WORD + 1) /\ out2 \in Seq(Nat) /\ Len(out2) \in Nat
      /\ Len(out3) = Len(out2) + (WORD + 1)
  <2>1. Len(out1) = Len(out) + Len(name) /\ out1 \in Seq(Nat) /\ Len(out1) \in Nat
    BY <1>2, <1>3, Joined
  <2> HIDE DEF out1
  <2>2. Len(out2) = Len(out1) + Len(first) /\ out2 \in Seq(Nat) /\ Len(out2) \in Nat
    BY <1>4, <2>1, Joined
  <2> HIDE DEF out2
  <2>3. Len(out3) = Len(out2) + Len(second)
    BY <1>4, <2>2, Joined
  <2> QED
    BY <1>4, <2>1, <2>2, <2>3
<1>6. out' = out3
  BY <1>1
<1>7. starts' = st3
  <2> DEFINE x == at(Len(out))
             y == at(Len(out) + Len(name))
             z == at(Len(out) + Len(name) + (WORD + 1))
  <2>1. starts' = starts \o <<x, y, z>>
    <3>1. /\ Len(out) + 0 = Len(out)
          /\ Len(out) + (Len(name) + WORD + 1) = Len(out) + Len(name) + (WORD + 1)
      BY <1>2, <1>3
    <3> QED
      BY <1>1, <3>1
  <2>2. x \in Start /\ y \in Start /\ z \in Start
    BY <1>2, <1>3 DEF Start
  <2>3. at(Len(out1)) = y /\ at(Len(out2)) = z
    BY <1>2, <1>3, <1>5
  <2> HIDE DEF x, y, z
  <2>4. starts \o <<x, y, z>> = Append(Append(Append(starts, x), y), z)
    <3>1. starts \in Seq(Start)
      BY <1>2
    <3> QED
      BY <2>2, <3>1, ThreeMore
  <2> QED
    BY <2>1, <2>3, <2>4 DEF x
<1> HIDE DEF out1, out2, out3, st1, st2, st3
<1>8. Chain(out1, st1) /\ Extends(out, starts, out1, st1, named)
  <2>1. name \in Seq(Nat) /\ Len(name) \in Nat
    BY <1>3
  <2> QED
    BY <1>2, <1>3, <2>1, OneMore DEF out1, st1
<1>9. Chain(out2, st2) /\ Extends(out1, st1, out2, st2, named)
  <2>1. first \in Seq(Nat) /\ Instruction(first, 0, Len(first)) /\ named \in Place \cup {Null}
    BY <1>2, <1>4
  <2> QED
    BY <1>8, <2>1, OneMore DEF out2, st2
<1>10. Chain(out3, st3) /\ Extends(out2, st2, out3, st3, named)
  <2>1. second \in Seq(Nat) /\ Instruction(second, 0, Len(second)) /\ named \in Place \cup {Null}
    BY <1>2, <1>4
  <2> QED
    BY <1>9, <2>1, OneMore DEF out3, st3
<1>11. /\ Len(out3) \in Nat /\ Len(starts) \in Nat /\ Len(st1) \in Nat /\ Len(st2) \in Nat
       /\ Len(st3) \in Nat /\ \A i \in 1..Len(st2) : st2[i].addr \in Nat
       /\ \A i \in 1..Len(st3) : st3[i].addr \in Nat
  BY <1>2, <1>8, <1>9, <1>10, InChain
<1>12. Extends(out, starts, out3, st3, named)
  <2>1. Extends(out, starts, out2, st2, named)
    BY <1>2, <1>5, <1>8, <1>9, <1>11, ExtendsTwice
  <2> QED
    BY <1>2, <1>5, <1>10, <1>11, <2>1, ExtendsTwice
<1>13. Len(out3) <= MaxCode[has_debug]
  BY <1>1, <1>2, <1>3, <1>5
<1> QED
  BY <1>1, <1>6, <1>7, <1>10, <1>12, <1>13 DEF Emission

LEMMA JumpsKept ==
  ASSUME JumpInv, UNCHANGED <<out, labels, jumps, starts, sites>>, pc' = pc \/ pc' # "tokens"
  PROVE  JumpInv'
<1>1. \A j : (Listed(j) => Listed(j)') /\ (Landed(j) => Landed(j)')
  BY DEF Listed, Landed
<1> QED
  BY <1>1 DEF JumpInv

\* No place is that of an empty list.
LEMMA SomePlace == Place \subseteq File \X Line /\ <<Null, Null>> \notin Place
BY AsmAssumption DEF Place

\* A .file with a debug pointer.
LEMMA RecordStep ==
  ASSUME CodeInv, PlaceInv, NEW place \in Place, add_debug_file(place)
  PROVE  PlaceInv'
<1>1. debug' = push_debug(place) /\ named' = place /\ UNCHANGED <<out, starts>>
  BY DEF add_debug_file
<1>2. /\ debug \in Seq(Record) /\ Len(debug) \in Nat
      /\ \A k \in 1..Len(debug) : debug[k].start_addr \in Nat /\ debug[k].start_addr <= Len(out)
  <2>1. debug \in Seq(Record) /\ \A k \in 1..Len(debug) : debug[k].start_addr <= Len(out)
    BY DEF PlaceInv
  <2>2. Len(debug) \in Nat /\ \A k \in 1..Len(debug) : debug[k] \in Record
    BY <2>1
  <2> QED
    BY <2>1, <2>2 DEF Record
<1>3. CASE TailPlace = place
  <2>1. debug # <<>> /\ debug[Len(debug)].place = place /\ debug' = debug
    BY <1>1, <1>3, SomePlace DEF TailPlace, push_debug
  <2>2. named = place
    BY <2>1 DEF PlaceInv
  <2> QED
    BY <1>1, <2>1, <2>2, PlacesKept
<1>4. CASE TailPlace # place
  <2> DEFINE n == Len(debug)
             r == [place |-> place, start_addr |-> Len(out)]
  <2>1. Len(out) \in Nat /\ \A i \in 1..Len(starts) : starts[i].addr < Len(out) /\ starts[i].addr \in Nat
    <3>1. /\ Len(out) \in Nat
          /\ \A i \in 1..Len(starts) : Instruction(out, starts[i].addr, EndOf(out, starts, i))
      BY InChain DEF CodeInv
    <3> QED
      BY <3>1 DEF Instruction
  <2>2. debug' = Append(debug, r)
    BY <1>1, <1>4 DEF push_debug
  <2>3. r \in Record /\ r.place = place /\ r.start_addr = Len(out)
    BY <2>1 DEF Record
  <2> HIDE DEF r
  <2>4. /\ debug' \in Seq(Record) /\ Len(debug') = n + 1 /\ debug'[n + 1] = r
        /\ \A k \in 1..n : debug'[k] = debug[k]
        /\ \A k \in 1..(n + 1) : k = n + 1 \/ k \in 1..n
        /\ \A k \in 1..n : k \in 1..(n + 1)
    BY <1>2, <2>2, <2>3
  <2>5. debug' # <<>>
    BY <1>2, <2>4
  <2> HIDE DEF n
  <2>6. \A k \in 1..(n + 1) : debug'[k].start_addr <= Len(out)
    BY <1>2, <2>1, <2>3, <2>4 DEF n
  <2>7. ASSUME NEW i \in 1..Len(starts) PROVE Recorded(starts[i], debug')
    <3> DEFINE s == starts[i]
    <3>1. Recorded(s, debug) /\ s.addr < Len(out) /\ s.addr \in Nat
      BY <2>1 DEF PlaceInv
    <3> HIDE DEF s
    <3>2. debug'[n + 1].start_addr > s.addr
      BY <2>1, <2>3, <2>4, <3>1
    <3>3. CASE s.place = Null /\ \A k \in 1..n : debug[k].start_addr > s.addr
      <4>1. \A k \in 1..(n + 1) : debug'[k].start_addr > s.addr
        BY <2>4, <3>2, <3>3
      <4> QED
        BY <2>4, <3>3, <4>1 DEF Recorded, s
    <3>4. CASE \E last \in 1..n :
                 /\ debug[last].start_addr <= s.addr /\ debug[last].place = s.place
                 /\ \A k \in 1..n : k > last => debug[k].start_addr > s.addr
      <4>1. PICK last \in 1..n :
              /\ debug[last].start_addr <= s.addr /\ debug[last].place = s.place
              /\ \A k \in 1..n : k > last => debug[k].start_addr > s.addr
        BY <3>4
      <4>2. \A k \in 1..(n + 1) : k > last => debug'[k].start_addr > s.addr
        BY <2>4, <3>2, <4>1
      <4>3. last \in 1..(n + 1) /\ debug'[last] = debug[last]
        BY <2>4
      <4> QED
        BY <2>4, <4>1, <4>2, <4>3 DEF Recorded, s
    <3> QED
      BY <3>1, <3>3, <3>4 DEF Recorded, n
  <2> QED
    BY <1>1, <2>3, <2>4, <2>5, <2>6, <2>7 DEF PlaceInv
<1> QED
  BY <1>3, <1>4

\* An operand of w bytes lies behind its opcode, within its instruction.
LEMMA WithinOperand ==
  ASSUME NEW a \in Nat, NEW e \in Nat, NEW w \in Nat, NEW x \in 1..w, a + 1 + w <= e
  PROVE  (a + 1) + x \in (a + 1)..e
OBVIOUS

\* The bytes of a field of w bytes are bytes of the code, each at its offset.
LEMMA WithinField ==
  ASSUME NEW field \in Nat, NEW w \in Nat, NEW last \in Nat, NEW x \in 1..w, field + w <= last
  PROVE  field + x \in 1..last /\ (field + x) - field = x
OBVIOUS

\* A byte in front of a field of w bytes, or behind it, is not of the field.
LEMMA OutsideField ==
  ASSUME NEW x \in Int, NEW field \in Int, NEW w \in Nat, x <= field \/ field + w < x
  PROVE  x - field \notin 1..w
OBVIOUS

\* The code other is code with the field at a filled in.
Fills(other, code, a, field) ==
  other = [x \in DOMAIN code |-> IF x - a \in 1..WORD THEN field[x - a] ELSE code[x]]

\* Filled in at jump j, the code is as good as it was.
FillKeeps(code, j, field) ==
  /\ Chain(code, starts) /\ Len(code) = Len(out)
  /\ \A x \in 1..WORD : code[j.addr + x] = field[x]
  /\ \A k \in sites :
       /\ SiteIn(k, code, starts)
       /\ k.addr # j.addr => \A x \in 1..WORD : code[k.addr + x] = out[k.addr + x]

\* A field that is filled in disturbs no opcode, no length and no other field.
LEMMA Filled ==
  ASSUME CodeInv, JumpInv, NEW j \in sites, NEW field \in [1..WORD -> Nat], NEW code,
         Fills(code, out, j.addr, field)
  PROVE  FillKeeps(code, j, field)
<1> DEFINE n == Len(starts)
           A(i) == starts[i].addr
           E(i) == EndOf(out, starts, i)
<1>1. /\ Chain(out, starts) /\ out \in Seq(Nat) /\ starts \in Seq(Start)
      /\ n \in Nat /\ Len(out) \in Nat /\ DOMAIN out = 1..Len(out)
      /\ WORD \in Nat \ {0}
      /\ \A i, k \in 1..n : i < k => A(i) < A(k)
      /\ \A i \in 1..n : Instruction(out, A(i), E(i))
  <2>1. Chain(out, starts)
    BY DEF CodeInv
  <2> QED
    BY <2>1, InChain, Opcodes
<1>2. \A i \in 1..n : /\ A(i) \in Nat /\ E(i) \in Nat /\ A(i) < E(i) /\ E(i) <= Len(out)
                      /\ out[A(i) + 1] \in {OP_LIT_STRING, OP_JMP} => A(i) + 1 + WORD <= E(i)
  BY <1>1 DEF Instruction
<1>3. \A i, k \in 1..n : i < k => E(i) <= A(k)
  BY <1>1, Apart
<1> HIDE DEF n, A, E
<1>4. PICK i \in 1..n : j.addr = A(i) + 1 /\ out[j.addr] = OP_JMP
  BY DEF JumpInv, SiteIn, n, A
<1>5. /\ WORD \in Nat \ {0} /\ Len(out) \in Nat /\ j.addr \in Nat /\ A(i) \in Nat /\ E(i) \in Nat
      /\ j.addr + WORD <= E(i) /\ E(i) <= Len(out)
  <2>1. /\ A(i) \in Nat /\ E(i) \in Nat /\ E(i) <= Len(out)
        /\ out[A(i) + 1] \in {OP_LIT_STRING, OP_JMP} => A(i) + 1 + WORD <= E(i)
    BY <1>2
  <2>2. A(i) + 1 + WORD <= E(i)
    BY <1>4, <2>1
  <2>3. WORD \in Nat \ {0} /\ Len(out) \in Nat
    BY <1>1
  <2> QED
    BY <1>4, <2>1, <2>2, <2>3
<1>6. code \in Seq(Nat) /\ Len(code) = Len(out)
  <2>1. \A a \in 1..Len(out) : out[a] \in Nat
    BY <1>1
  <2>2. code \in [1..Len(out) -> Nat]
    BY <1>1, <2>1 DEF Fills
  <2>3. Len(out) \in Nat
    BY <1>1
  <2> QED
    BY <2>2, <2>3
<1>7. \A a \in 1..Len(out) : /\ a - j.addr \in 1..WORD => code[a] = field[a - j.addr]
                             /\ a - j.addr \notin 1..WORD => code[a] = out[a]
  BY <1>1 DEF Fills
<1>8. \A x \in 1..WORD : code[j.addr + x] = field[x]
  <2> TAKE x \in 1..WORD
  <2>1. /\ j.addr \in Nat /\ WORD \in Nat /\ Len(out) \in Nat
        /\ j.addr + WORD <= Len(out)
    BY <1>5
  <2>2. j.addr + x \in 1..Len(out) /\ (j.addr + x) - j.addr = x
    BY <2>1, WithinField
  <2> QED
    BY <1>7, <2>2
<1>9. ASSUME NEW k \in 1..n, k # i, NEW x \in (A(k) + 1)..E(k) PROVE code[x] = out[x]
  <2>1. A(k) \in Nat /\ E(k) \in Nat /\ E(k) <= Len(out)
    BY <1>2
  <2>2. x \in 1..Len(out)
    BY <1>5, <2>1
  <2>3. CASE k < i
    <3>1. E(k) <= A(i)
      BY <1>3, <2>3
    <3>2. x \in Int /\ x <= E(k)
      BY <2>1
    <3>3. x <= j.addr
      BY <1>4, <1>5, <2>1, <3>1, <3>2, SMTT(30)
    <3>4. x - j.addr \notin 1..WORD
      BY <1>5, <3>2, <3>3, OutsideField
    <3> QED
      BY <1>7, <2>2, <3>4
  <2>4. CASE i < k
    <3>1. E(i) <= A(k)
      BY <1>3, <2>4
    <3>2. x \in Int /\ A(k) < x
      BY <2>1
    <3>3. j.addr + WORD < x
      BY <1>5, <2>1, <3>1, <3>2, SMTT(30)
    <3>4. x - j.addr \notin 1..WORD
      BY <1>5, <3>2, <3>3, OutsideField, SMTT(30)
    <3> QED
      BY <1>7, <2>2, <3>4
  <2>5. n \in Nat
    BY <1>1
  <2> QED
    BY <1>9, <2>3, <2>4, <2>5
<1>10. code[j.addr] = OP_JMP
  <2>1. j.addr \in 1..Len(out) /\ j.addr - j.addr \notin 1..WORD
    BY <1>4, <1>5
  <2> QED
    BY <1>4, <1>7, <2>1
<1>11. ASSUME NEW k \in 1..n
       PROVE  /\ code[A(k) + 1] = out[A(k) + 1]
              /\ out[A(k) + 1] = OP_LIT_STRING =>
                   \A x \in 1..WORD : out[(A(k) + 1) + x] = code[(A(k) + 1) + x]
  <2>1. CASE k = i
    BY <1>4, <1>10, <2>1, Opcodes
  <2>2. CASE k # i
    <3>1. A(k) + 1 \in (A(k) + 1)..E(k)
      BY <1>2
    <3>2. out[A(k) + 1] = OP_LIT_STRING =>
            \A x \in 1..WORD : (A(k) + 1) + x \in (A(k) + 1)..E(k)
      <4>1. /\ A(k) \in Nat /\ E(k) \in Nat
            /\ out[A(k) + 1] = OP_LIT_STRING => A(k) + 1 + WORD <= E(k)
        BY <1>2
      <4>2. WORD \in Nat
        BY <1>5
      <4> QED
        BY <4>1, <4>2, WithinOperand
    <3> QED
      BY <1>9, <2>2, <3>1, <3>2
  <2> QED
    BY <2>1, <2>2
<1>12. ASSUME NEW k \in 1..n PROVE Instruction(code, A(k), EndOf(code, starts, k))
  <2> DEFINE a == A(k)
             e == E(k)
  <2>1. EndOf(code, starts, k) = e
    BY <1>6 DEF EndOf, E
  <2>2. Instruction(out, a, e) /\ a \in Nat /\ e \in Nat /\ a + (e - a) = e /\ e <= Len(code)
    BY <1>1, <1>2, <1>6
  <2>3. /\ out[a + 1] = code[a + 1]
        /\ out[a + 1] = OP_LIT_STRING => \A x \in 1..WORD : out[(a + 1) + x] = code[(a + 1) + x]
    BY <1>11
  <2> HIDE DEF a, e
  <2>4. Instruction(code, a, a + (e - a))
    BY <1>1, <1>6, <2>2, <2>3, Moved
  <2> QED
    BY <2>1, <2>2, <2>4 DEF a
<1>13. Chain(code, starts)
  BY <1>1, <1>6, <1>12 DEF Chain, n, A
<1>14. ASSUME NEW k \in sites
       PROVE  /\ SiteIn(k, code, starts)
              /\ k.addr # j.addr => \A x \in 1..WORD : code[k.addr + x] = out[k.addr + x]
  <2>1. PICK m \in 1..n : k.addr = A(m) + 1 /\ out[k.addr] = OP_JMP
    BY DEF JumpInv, SiteIn, n, A
  <2>2. SiteIn(k, code, starts)
    BY <1>11, <2>1 DEF SiteIn, n, A
  <2>3. ASSUME k.addr # j.addr, NEW x \in 1..WORD PROVE code[k.addr + x] = out[k.addr + x]
    <3>1. m # i
      BY <1>4, <2>1, <2>3
    <3>2. k.addr + x \in (A(m) + 1)..E(m)
      <4>1. /\ A(m) \in Nat /\ E(m) \in Nat
            /\ out[A(m) + 1] \in {OP_LIT_STRING, OP_JMP} => A(m) + 1 + WORD <= E(m)
        BY <1>2
      <4>2. A(m) + 1 + WORD <= E(m)
        BY <2>1, <4>1
      <4>3. WORD \in Nat
        BY <1>5
      <4> QED
        BY <2>1, <4>1, <4>2, <4>3, WithinOperand
    <3> QED
      BY <1>9, <3>1, <3>2
  <2> QED
    BY <2>2, <2>3
<1> QED
  BY <1>6, <1>8, <1>13, <1>14 DEF FillKeeps

LEMMA JumpsSame ==
  ASSUME NEW code, NEW other, NEW a, \A x \in 1..WORD : code[a + x] = other[a + x]
  PROVE  JumpsTo(code, a) = JumpsTo(other, a)
<1>1. [x \in 1..WORD |-> code[a + x]] = [x \in 1..WORD |-> other[a + x]]
  OBVIOUS
<1> QED
  BY <1>1, Zenon DEF JumpsTo, parse_int

\* One turn of the loop in rewrite_jumps.
LEMMA RewriteStep ==
  ASSUME IInv, rewrite_jumps
  PROVE  CodeInv' /\ JumpInv'
<1> DEFINE j == Head(jumps)
           field == INT_64(Target(j))
<1>1. /\ pc = "rewrite" /\ jumps # <<>>
      /\ UNCHANGED <<has_debug, labels, debug, starts, sites, named>>
      /\ CodeInv /\ JumpInv
  BY DEF IInv, rewrite_jumps
<1>2. CASE labels[j.label] = Null
  <2>1. pc' = "abort" /\ UNCHANGED <<out, jumps>>
    BY <1>2 DEF rewrite_jumps
  <2> QED
    BY <1>1, <2>1, CodeKept, JumpsKept DEF CodeInv
<1>3. CASE labels[j.label] # Null
  <2>1. Fills(out', out, j.addr, field) /\ jumps' = Tail(jumps) /\ pc' = pc
    BY <1>3 DEF rewrite_jumps, Fills
  <2>2. /\ jumps \in Seq(Jump) /\ Len(jumps) \in Nat /\ 1 \in 1..Len(jumps) /\ jumps[1] = j
        /\ jumps' \in Seq(Jump) /\ Len(jumps') = Len(jumps) - 1
        /\ \A n \in 1..Len(jumps') : n + 1 \in 1..Len(jumps) /\ jumps'[n] = jumps[n + 1]
        /\ \A n \in 1..Len(jumps) : n = 1 \/ (n - 1 \in 1..Len(jumps') /\ jumps'[n - 1] = jumps[n])
    <3>1. jumps \in Seq(Jump)
      BY <1>1 DEF JumpInv
    <3> QED
      BY <1>1, <2>1, <3>1
  <2>3. j \in sites /\ j \in Jump
    BY <1>1, <2>2 DEF JumpInv
  <2> DEFINE t == labels[j.label]
  <2>4. j.addr \in Nat /\ j.label \in Label /\ t \in 0..(Modulus - 1)
    <3>1. j.addr \in Nat /\ j.label \in Label
      BY <2>3 DEF Jump
    <3>2. t \in Nat /\ Stands(t, out, starts)
      BY <1>1, <1>3, <3>1 DEF JumpInv
    <3>3. \A i \in 1..Len(starts) : starts[i].addr <= Len(out)
      <4>1. /\ Len(out) \in Nat
            /\ \A i \in 1..Len(starts) : Instruction(out, starts[i].addr, EndOf(out, starts, i))
        BY <1>1, InChain DEF CodeInv
      <4> QED
        BY <4>1 DEF Instruction
    <3>4. Len(out) \in 0..(Modulus - 1)
      BY <1>1, SizeOfCode
    <3> HIDE DEF t
    <3>5. t <= Len(out)
      BY <3>2, <3>3, <3>4 DEF Stands
    <3> QED
      BY <3>1, <3>2, <3>4, <3>5, ModulusNat
  <2>5. field = INT_64(t - j.addr - WORD) /\ field \in [1..WORD -> Nat]
    <3>1. t - j.addr - WORD \in Int /\ 0..(BYTES - 1) \subseteq Nat
      BY <2>4, Opcodes
    <3>2. field = INT_64(t - j.addr - WORD)
      BY DEF Target
    <3> HIDE DEF field, t
    <3> QED
      BY <3>1, <3>2, ReadsBackInteger
  <2> HIDE DEF j, field
  <2>6. /\ Chain(out', starts) /\ Len(out') = Len(out)
        /\ \A x \in 1..WORD : out'[j.addr + x] = field[x]
        /\ \A k \in sites :
             /\ SiteIn(k, out', starts)
             /\ k.addr # j.addr => \A x \in 1..WORD : out'[k.addr + x] = out[k.addr + x]
    <3>1. \A code : Fills(code, out, j.addr, field) => FillKeeps(code, j, field)
      BY <1>1, <2>3, <2>5, Filled
    <3>2. FillKeeps(out', j, field)
      BY <2>1, <3>1
    <3> QED
      BY <3>2 DEF FillKeeps
  <2>7. CodeInv'
    BY <1>1, <2>6 DEF CodeInv
  <2>8. JumpsTo(out', j.addr) = t
    <3> HIDE DEF t
    <3> QED
      BY <2>4, <2>5, <2>6, ParsedOffset
  <2>9. \A n \in 1..Len(jumps') : jumps'[n] \in sites
    BY <1>1, <2>2 DEF JumpInv
  <2>10. ASSUME NEW k \in sites PROVE Listed(k)' \/ Landed(k)'
    <3>1. CASE k = j
      BY <1>1, <1>3, <2>8, <3>1 DEF Landed, j
    <3>2. CASE k # j
      <4>1. k.addr # j.addr
        BY <1>1, <2>3, <3>2 DEF JumpInv
      <4>2. CASE Listed(k)
        <5>1. PICK n \in 1..Len(jumps) : jumps[n] = k
          BY <4>2 DEF Listed
        <5>2. n - 1 \in 1..Len(jumps') /\ jumps'[n - 1] = k
          BY <2>2, <3>2, <5>1
        <5> QED
          BY <5>2 DEF Listed
      <4>3. CASE Landed(k)
        <5>1. \A x \in 1..WORD : out'[k.addr + x] = out[k.addr + x]
          BY <2>6, <4>1
        <5>2. JumpsTo(out', k.addr) = JumpsTo(out, k.addr)
          BY <5>1, JumpsSame
        <5> QED
          BY <1>1, <4>3, <5>2 DEF Landed
      <4> QED
        BY <1>1, <4>2, <4>3 DEF JumpInv
    <3> QED
      BY <3>1, <3>2
  <2>11. \A l \in Label : labels[l] # Null => Stands(labels[l], out', starts)
    BY <1>1, <2>6 DEF JumpInv, Stands
  <2>12. JumpInv'
    BY <1>1, <2>1, <2>2, <2>6, <2>9, <2>10, <2>11 DEF JumpInv
  <2> QED
    BY <2>7, <2>12
<1> QED
  BY <1>2, <1>3

\* Jumps are no business of the records.
LEMMA RewritePlaces ==
  ASSUME IInv, rewrite_jumps
  PROVE  PlaceInv'
<1>1. PlaceInv /\ UNCHANGED <<debug, starts, named>> /\ CodeInv /\ CodeInv'
  BY RewriteStep DEF IInv, rewrite_jumps
<1>2. Len(out') = Len(out)
  <2>1. out' = out \/ \E f : out' = [a \in DOMAIN out |-> f[a]]
    <3> DEFINE f == [a \in DOMAIN out |->
                       IF a - Head(jumps).addr \in 1..WORD
                       THEN INT_64(Target(Head(jumps)))[a - Head(jumps).addr] ELSE out[a]]
    <3>1. out' = out \/ out' = f
      BY DEF rewrite_jumps
    <3>2. f = [a \in DOMAIN out |-> f[a]]
      OBVIOUS
    <3> HIDE DEF f
    <3> QED
      BY <3>1, <3>2
  <2>2. out \in Seq(Nat) /\ out' \in Seq(Nat)
    BY <1>1, InChain DEF CodeInv
  <2>3. DOMAIN out' = DOMAIN out
    BY <2>1
  <2>4. /\ DOMAIN out = 1..Len(out) /\ DOMAIN out' = 1..Len(out')
        /\ Len(out) \in Nat /\ Len(out') \in Nat
    BY <2>2
  <2> QED
    BY <2>3, <2>4
<1> QED
  BY <1>1, <1>2 DEF PlaceInv

LEMMA Begins == Init => IInv
<1> SUFFICES ASSUME Init PROVE IInv
  OBVIOUS
<1>1. /\ out = <<>> /\ starts = <<>> /\ jumps = <<>> /\ debug = <<>> /\ sites = {} /\ named = Null
      /\ has_debug \in DOMAIN MaxCode /\ labels = [l \in Label |-> Null]
  BY DEF Init
<1>2. CodeInv
  <2>1. Len(<<>>) = 0 /\ <<>> \in Seq(Nat) /\ <<>> \in Seq(Start) /\ MaxCode[has_debug] \in Nat
    BY <1>1, AsmAssumption, ModulusNat
  <2>2. Chain(<<>>, <<>>)
    BY <2>1 DEF Chain
  <2> QED
    BY <1>1, <2>1, <2>2 DEF CodeInv
<1>3. JumpInv
  BY <1>1 DEF JumpInv
<1>4. PlaceInv
  BY <1>1 DEF PlaceInv
<1> QED
  BY <1>2, <1>3, <1>4 DEF IInv

LEMMA Steps == IInv /\ [Next]_vars => IInv'
<1> SUFFICES ASSUME IInv, [Next]_vars PROVE IInv'
  OBVIOUS
<1>1. CodeInv /\ JumpInv /\ PlaceInv
  BY DEF IInv
<1>2. ASSUME Emission, UNCHANGED <<jumps, sites>> PROVE IInv'
  BY <1>1, <1>2, EmissionCode, EmissionJumps, EmissionPlaces DEF IInv
<1>3. CASE asm_op
  <2>1. Emit(<<OP>>) /\ UNCHANGED <<has_debug, labels, jumps, debug, pc, sites, named>>
    BY <1>3 DEF asm_op
  <2>2. Emission
    BY <1>1, <2>1, EmittedPlain, EmitStep
  <2> QED
    BY <1>2, <2>1, <2>2
<1>4. CASE asm_lit_char
  <2> DEFINE piece == <<OP_LIT_CHAR>> \o [j \in 1..CHAR |-> 0]
  <2>1. Emit(piece) /\ UNCHANGED <<has_debug, labels, jumps, debug, pc, sites, named>>
    BY <1>4 DEF asm_lit_char
  <2>2. piece \in Seq(Nat) /\ Len(piece) = CHAR + 1 /\ Instruction(piece, 0, CHAR + 1)
    BY EmittedCharacter
  <2> HIDE DEF piece
  <2>3. Emission
    BY <1>1, <2>1, <2>2, EmitStep
  <2> QED
    BY <1>2, <2>1, <2>3
<1>5. CASE \E i \in Fixnums : asm_lit_fixnum(i)
  <2>1. PICK i \in Fixnums : asm_lit_fixnum(i)
    BY <1>5
  <2> DEFINE piece == <<OP_LIT_FIXNUM>> \o INT_64(i)
  <2>2. Emit(piece) /\ UNCHANGED <<has_debug, labels, jumps, debug, pc, sites, named>>
    BY <2>1 DEF asm_lit_fixnum
  <2>3. piece \in Seq(Nat) /\ Len(piece) = WORD + 1 /\ Instruction(piece, 0, WORD + 1)
    <3>1. OP_LIT_FIXNUM \in {OP_LIT_FIXNUM, OP_JMP} /\ i \in Int
      BY AsmAssumption
    <3> QED
      BY <3>1, EmittedWord
  <2> HIDE DEF piece
  <2>4. Emission
    BY <1>1, <2>2, <2>3, EmitStep
  <2> QED
    BY <1>2, <2>2, <2>4
<1>6. CASE \E n \in 0..2 : asm_lit_string(n)
  BY <1>1, <1>2, <1>6, StringStep
<1>7. CASE \E l \in Label : asm_jump(l)
  BY <1>1, <1>7, JumpStep, EmissionCode, EmissionPlaces DEF IInv
<1>8. CASE \E l \in Label : asm_label(l)
  <2>1. PICK l \in Label : asm_label(l)
    BY <1>8
  <2>2. UNCHANGED <<has_debug, out, starts, debug, named>>
    BY <2>1 DEF asm_label
  <2>3. JumpInv'
    BY <1>1, <2>1, LabelStep
  <2>4. CodeInv' /\ PlaceInv'
    BY <1>1, <2>2, CodeKept, PlacesKept DEF CodeInv
  <2> QED
    BY <2>3, <2>4 DEF IInv
<1>9. CASE \E place \in Place : add_debug_file(place)
  <2>1. PICK place \in Place : add_debug_file(place)
    BY <1>9
  <2>2. /\ UNCHANGED <<has_debug, out, labels, jumps, pc, starts, sites>>
        /\ named' \in Place \cup {Null}
    BY <2>1 DEF add_debug_file
  <2>3. PlaceInv'
    BY <1>1, <2>1, RecordStep
  <2>4. CodeInv' /\ JumpInv'
    BY <1>1, <2>2, CodeKept, JumpsKept
  <2> QED
    BY <2>3, <2>4 DEF IInv
<1>10. CASE \E n \in 0..2, line, column \in Line : file_operands(n, line, column)
  <2>1. Line \subseteq Int
    BY AsmAssumption
  <2> QED
    BY <1>1, <1>2, <1>10, <2>1, FileStep
<1>11. ASSUME /\ UNCHANGED <<has_debug, out, labels, jumps, debug, starts, sites, named>>
              /\ pc' = pc \/ pc' # "tokens"
       PROVE  IInv'
  BY <1>1, <1>11, CodeKept, JumpsKept, PlacesKept DEF IInv, CodeInv
<1>12. CASE EndOfFile
  BY <1>11, <1>12 DEF EndOfFile
<1>13. CASE rewrite_jumps
  BY <1>13, RewriteStep, RewritePlaces DEF IInv
<1>14. CASE Return
  BY <1>11, <1>14 DEF Return
<1>15. CASE Terminated \/ UNCHANGED vars
  BY <1>11, <1>15 DEF Terminated, vars
<1> QED
  BY <1>3, <1>4, <1>5, <1>6, <1>7, <1>8, <1>9, <1>10, <1>12, <1>13, <1>14, <1>15 DEF Next

\* The code is a row of instructions, every jump is on the list or leads to its
\* label, and every instruction has its record, in every reachable state.
THEOREM Invariance == Spec => []IInv
<1> QED
  BY Begins, Steps, PTL DEF Spec

-----------------------------------------------------------------------------
\* The machine finds each instruction where the one before it ends: asm_string
\* emits what vm_eval and the instructions skip, for every width of a word.
THEOREM InstructionsFollow == Spec => []InstructionsParse
<1>1. IInv => InstructionsParse
  <2> SUFFICES ASSUME IInv PROVE InstructionsParse
    OBVIOUS
  <2>1. /\ starts \in Seq(Start)
        /\ \A i \in 1..Len(starts) : Instruction(out, starts[i].addr, EndOf(out, starts, i))
    BY InChain DEF IInv, CodeInv
  <2>2. DOMAIN starts = 1..Len(starts)
    BY <2>1
  <2>3. \A i \in 1..Len(starts) : Decoded(out, starts[i].addr) = EndOf(out, starts, i)
    BY <2>1 DEF Instruction
  <2> QED
    BY <2>2, <2>3 DEF InstructionsParse, EndOf
<1> QED
  BY <1>1, Invariance, PTL

\* Every jump that rewrite_jumps has resolved takes the machine to its label.
THEOREM JumpsReachLabels == Spec => []JumpsLand
<1>1. IInv /\ (pc = "done" => jumps = <<>>) => JumpsLand
  <2> SUFFICES ASSUME IInv, pc = "done" => jumps = <<>>, pc = "done",
                      NEW j \in sites
               PROVE  /\ labels[j.label] # Null
                      /\ JumpsTo(out, j.addr) = labels[j.label]
                      /\ labels[j.label] \in {starts[i].addr : i \in DOMAIN starts} \cup {Len(out)}
    BY DEF JumpsLand
  <2>1. JumpInv /\ starts \in Seq(Start) /\ Len(starts) \in Nat
    BY InChain DEF IInv, CodeInv
  <2>2. Landed(j)
    <3>1. ~ Listed(j)
      BY DEF Listed
    <3> QED
      BY <2>1, <3>1 DEF JumpInv
  <2>3. j.label \in Label
    BY <2>1 DEF JumpInv, Jump
  <2>4. Stands(labels[j.label], out, starts)
    BY <2>1, <2>2, <2>3 DEF JumpInv, Landed
  <2>5. DOMAIN starts = 1..Len(starts)
    BY <2>1
  <2> QED
    BY <2>2, <2>4, <2>5 DEF Landed, Stands
<1>2. Init => (pc = "done" => jumps = <<>>)
  BY DEF Init
<1>3. (pc = "done" => jumps = <<>>) /\ [Next]_vars => (pc = "done" => jumps = <<>>)'
  <2> SUFFICES ASSUME pc = "done" => jumps = <<>>, [Next]_vars, pc' = "done"
               PROVE  jumps' = <<>>
    OBVIOUS
  <2>1. (pc = "done" /\ jumps' = jumps) \/ Return
    BY DEF Next, vars, Emit, asm_op, asm_lit_char, asm_lit_fixnum, asm_lit_string, asm_jump,
           asm_label, add_debug_file, file_operands, EndOfFile, rewrite_jumps, Terminated
  <2> QED
    BY <2>1 DEF Return
<1> QED
  BY <1>1, <1>2, <1>3, Invariance, PTL DEF Spec

\* push_debug leaves out a record only where the one before names the same place.
THEOREM RecordsSuffice == Spec => []PlacesRecorded
<1>1. IInv => PlacesRecorded
  <2> SUFFICES ASSUME IInv, NEW i \in DOMAIN starts
               PROVE  LET before == {k \in DOMAIN debug : debug[k].start_addr <= starts[i].addr}
                          last   == CHOOSE k \in before : \A l \in before : l <= k
                      IN  (starts[i].place # Null \/ before # {}) =>
                            before # {} /\ debug[last].place = starts[i].place
    BY DEF PlacesRecorded
  <2> DEFINE s == starts[i]
             before == {k \in DOMAIN debug : debug[k].start_addr <= s.addr}
             last == CHOOSE k \in before : \A l \in before : l <= k
  <2>1. /\ Len(debug) \in Nat /\ DOMAIN debug = 1..Len(debug)
        /\ \A k \in 1..Len(debug) : debug[k].start_addr \in Nat
    <3>1. debug \in Seq(Record)
      BY DEF IInv, PlaceInv
    <3>2. /\ Len(debug) \in Nat /\ DOMAIN debug = 1..Len(debug)
          /\ \A k \in 1..Len(debug) : debug[k] \in Record
      BY <3>1
    <3> QED
      BY <3>2 DEF Record
  <2>2. Recorded(s, debug) /\ s.addr \in Nat
    <3>1. /\ starts \in Seq(Start)
          /\ \A k \in 1..Len(starts) : starts[k].addr \in Nat
      BY InChain DEF IInv, CodeInv
    <3>2. i \in 1..Len(starts)
      BY <3>1
    <3> QED
      BY <3>1, <3>2 DEF IInv, PlaceInv
  <2> HIDE DEF s
  <2>3. CASE s.place = Null /\ \A k \in 1..Len(debug) : debug[k].start_addr > s.addr
    <3>1. before = {}
      BY <2>1, <2>2, <2>3
    <3> QED
      BY <2>3, <3>1 DEF s
  <2>4. CASE \E m \in 1..Len(debug) :
               /\ debug[m].start_addr <= s.addr /\ debug[m].place = s.place
               /\ \A k \in 1..Len(debug) : k > m => debug[k].start_addr > s.addr
    <3>1. PICK m \in 1..Len(debug) :
            /\ debug[m].start_addr <= s.addr /\ debug[m].place = s.place
            /\ \A k \in 1..Len(debug) : k > m => debug[k].start_addr > s.addr
      BY <2>4
    <3>2. m \in before /\ \A l \in before : l <= m
      BY <2>1, <2>2, <3>1
    <3>3. before \subseteq Nat
      BY <2>1
    <3> HIDE DEF before
    <3>4. last \in before /\ \A l \in before : l <= last
      BY <3>2
    <3>5. last = m
      <4> HIDE DEF last
      <4> QED
        BY <3>2, <3>3, <3>4
    <3> HIDE DEF last
    <3>6. before # {} /\ debug[last].place = s.place
      BY <3>1, <3>2, <3>5
    <3> QED
      BY <3>6 DEF last, before, s
  <2> QED
    BY <2>2, <2>3, <2>4 DEF Recorded
<1> QED
  BY <1>1, Invariance, PTL
=============================================================================
