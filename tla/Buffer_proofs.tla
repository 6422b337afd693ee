--------------------------- MODULE Buffer_proofs ----------------------------
(***************************************************************************)
(* Proofs about the elastic buffers for every block size and every         *)
(* sequence of calls.                                                      *)
(***************************************************************************)
EXTENDS Buffer, Integers, TLAPS

(***************************************************************************)
(* Division: the place of a byte in a list of blocks.                      *)
(***************************************************************************)

\* More blocks hold more bytes.
LEMMA MulMono ==
  ASSUME NEW a \in Nat, NEW b \in Nat, NEW d \in Nat, a <= b
  PROVE  a * d \in Nat /\ b * d \in Nat /\ a * d <= b * d
OBVIOUS

\* The quotient and the remainder of the code's / and %.
LEMMA DivMod ==
  ASSUME NEW n \in Nat, NEW d \in Nat \ {0}
  PROVE  /\ n \div d \in Nat /\ n % d \in 0..(d - 1)
         /\ n = d * (n \div d) + (n % d)
OBVIOUS

\* They are the only numbers of the kind.
LEMMA DivUnique ==
  ASSUME NEW d \in Nat \ {0}, NEW q \in Nat, NEW r \in 0..(d - 1), NEW n \in Nat, n = d * q + r
  PROVE  n \div d = q /\ n % d = r
<1>1. n = d * (n \div d) + (n % d) /\ n \div d \in Nat /\ n % d \in 0..(d - 1)
  BY DivMod
<1>2. ASSUME NEW a \in Nat, NEW b \in Nat, NEW x \in 0..(d - 1), NEW y \in 0..(d - 1),
             d * a + x = d * b + y, a < b
      PROVE  FALSE
  <2>1. b - a >= 1 /\ b - a \in Nat
    BY <1>2
  <2>2. d * (b - a) >= d
    BY <2>1
  <2> QED BY <1>2, <2>2
<1>3. q = n \div d
  BY <1>1, <1>2
<1> QED BY <1>1, <1>3

\* Byte i of a list stands in one of its blocks.
LEMMA Place ==
  ASSUME NEW l \in Nat, NEW i \in 1..(l * BLOCK_SIZE)
  PROVE  /\ ((i - 1) \div BLOCK_SIZE) + 1 \in 1..l
         /\ ((i - 1) % BLOCK_SIZE) + 1 \in 1..BLOCK_SIZE
         /\ i = BLOCK_SIZE * ((i - 1) \div BLOCK_SIZE) + ((i - 1) % BLOCK_SIZE) + 1
<1> DEFINE q == (i - 1) \div BLOCK_SIZE
           r == (i - 1) % BLOCK_SIZE
<1>1. i - 1 \in Nat /\ BLOCK_SIZE \in Nat \ {0} /\ l * BLOCK_SIZE \in Nat
  BY BufferAssumption
<1>2. q \in Nat /\ r \in 0..(BLOCK_SIZE - 1) /\ i - 1 = BLOCK_SIZE * q + r
  BY <1>1, DivMod
<1> HIDE DEF q, r
<1>3. q < l
  <2> SUFFICES ASSUME q >= l
               PROVE  FALSE
    BY <1>2
  <2>1. BLOCK_SIZE * q >= BLOCK_SIZE * l
    BY <1>1, <1>2
  <2> QED BY <1>1, <1>2, <2>1
<1>4. q + 1 \in 1..l /\ r + 1 \in 1..BLOCK_SIZE /\ i = BLOCK_SIZE * q + r + 1
  BY <1>1, <1>2, <1>3
<1> QED BY <1>4 DEF q, r

\* A list of blocks is as long as all of them, and its bytes are bytes.
LEMMA BytesType ==
  ASSUME NEW list \in Seq(Block)
  PROVE  /\ Bytes(list) \in Seq(Byte \cup {Zero})
         /\ Len(Bytes(list)) = Len(list) * BLOCK_SIZE
<1>1. Len(list) * BLOCK_SIZE \in Nat
  BY BufferAssumption
<1>2. \A i \in 1..(Len(list) * BLOCK_SIZE) :
        list[((i - 1) \div BLOCK_SIZE) + 1][((i - 1) % BLOCK_SIZE) + 1] \in Byte \cup {Zero}
  <2> TAKE i \in 1..(Len(list) * BLOCK_SIZE)
  <2>1. Len(list) \in Nat
    OBVIOUS
  <2>2. /\ ((i - 1) \div BLOCK_SIZE) + 1 \in 1..Len(list)
        /\ ((i - 1) % BLOCK_SIZE) + 1 \in 1..BLOCK_SIZE
    BY <2>1, Place
  <2>3. list[((i - 1) \div BLOCK_SIZE) + 1] \in Block
    BY <2>2
  <2> QED BY <2>2, <2>3 DEF Block
<1> QED BY <1>1, <1>2 DEF Bytes

\* What TailHasRoom means: the bytes in use end in the tail block.
LEMMA TailEnd ==
  ASSUME NEW u \in Nat, NEW l \in Nat, l = u \div BLOCK_SIZE + 1
  PROVE  /\ u = BLOCK_SIZE * (l - 1) + (u % BLOCK_SIZE)
         /\ u % BLOCK_SIZE \in 0..(BLOCK_SIZE - 1)
         /\ u < l * BLOCK_SIZE
<1> DEFINE q == u \div BLOCK_SIZE
           r == u % BLOCK_SIZE
<1>1. BLOCK_SIZE \in Nat \ {0} /\ l = q + 1
  BY BufferAssumption
<1>2. q \in Nat /\ r \in 0..(BLOCK_SIZE - 1) /\ u = BLOCK_SIZE * q + r
  BY <1>1, DivMod
<1> HIDE DEF q, r
<1>3. l - 1 = q /\ l * BLOCK_SIZE = BLOCK_SIZE * q + BLOCK_SIZE
  BY <1>1, <1>2
<1>4. u = BLOCK_SIZE * (l - 1) + r /\ r \in 0..(BLOCK_SIZE - 1) /\ u < l * BLOCK_SIZE
  BY <1>1, <1>2, <1>3
<1> QED BY <1>4 DEF r

\* A memcpy of the bytes now to the end of the u bytes in use of a list, with a
\* fresh block after it or without.
CopyOf(list, u, now, tail, new) ==
  /\ tail \in {<<Patched(Last(list), u % BLOCK_SIZE, now)>>,
               <<Patched(Last(list), u % BLOCK_SIZE, now), Fresh>>}
  /\ new = Front(list) \o tail

\* A memcpy to the tail block changes the bytes it is meant for and no other:
\* byte u + 1 of the list is the first that is not in use.
LEMMA Copied ==
  ASSUME NEW list \in Seq(Block), NEW u \in Nat, Len(list) = u \div BLOCK_SIZE + 1,
         NEW now \in Seq(Byte), (u % BLOCK_SIZE) + Len(now) <= BLOCK_SIZE,
         NEW tail, NEW new, CopyOf(list, u, now, tail, new)
  PROVE  /\ new \in Seq(Block)
         /\ Len(new) = Len(list) - 1 + Len(tail)
         /\ \A i \in 1..(Len(list) * BLOCK_SIZE) :
              Bytes(new)[i] = IF i \in (u + 1)..(u + Len(now)) THEN now[i - u] ELSE Bytes(list)[i]
<1> DEFINE L == Len(list)
           at == u % BLOCK_SIZE
           last == Patched(Last(list), at, now)
<1>1. L \in Nat \ {0} /\ at \in 0..(BLOCK_SIZE - 1) /\ u = BLOCK_SIZE * (L - 1) + at
  <2>1. u \div BLOCK_SIZE \in Nat /\ Len(list) \in Nat
    BY DivMod, BufferAssumption
  <2>2. /\ u = BLOCK_SIZE * (Len(list) - 1) + (u % BLOCK_SIZE)
        /\ u % BLOCK_SIZE \in 0..(BLOCK_SIZE - 1)
    BY <2>1, TailEnd
  <2> QED BY <2>1, <2>2
<1>2. BLOCK_SIZE \in Nat \ {0}
  BY BufferAssumption
<1> HIDE DEF at, L
<1>3. last \in Block /\ Fresh \in Block
  <2>1. Last(list) \in Block
    BY <1>1 DEF Last, L
  <2>2. \A i \in 1..BLOCK_SIZE : i - at \in 1..Len(now) => now[i - at] \in Byte
    BY <1>1
  <2> QED BY <2>1, <2>2 DEF Patched, Block, Fresh
<1>4. /\ Front(list) \in Seq(Block) /\ Len(Front(list)) = L - 1
      /\ \A k \in 1..(L - 1) : Front(list)[k] = list[k]
  BY <1>1 DEF Front, L
<1> HIDE DEF last
<1>a. tail \in {<<last>>, <<last, Fresh>>} /\ new = Front(list) \o tail
  BY DEF CopyOf, last, at
<1>5. /\ new \in Seq(Block) /\ Len(new) = L - 1 + Len(tail) /\ Len(new) >= L
      /\ \A k \in 1..(L - 1) : new[k] = list[k]
      /\ new[L] = last
  <2>1. CASE tail = <<last, Fresh>>
    BY <1>1, <1>3, <1>4, <1>a, <2>1, SMTT(30)
  <2>2. CASE tail = <<last>>
    BY <1>1, <1>3, <1>4, <1>a, <2>2, SMTT(30)
  <2> QED BY <1>a, <2>1, <2>2
<1>6. ASSUME NEW i \in 1..(L * BLOCK_SIZE)
      PROVE  Bytes(new)[i] = IF i \in (u + 1)..(u + Len(now)) THEN now[i - u] ELSE Bytes(list)[i]
  <2> DEFINE q == (i - 1) \div BLOCK_SIZE
             r == (i - 1) % BLOCK_SIZE
  <2>1. /\ q + 1 \in 1..L /\ r + 1 \in 1..BLOCK_SIZE /\ i = BLOCK_SIZE * q + r + 1
        /\ q \in Nat /\ r \in Nat
    <3>1. L \in Nat /\ i - 1 \in Nat
      BY <1>1, <1>2
    <3>2. q \in Nat /\ r \in 0..(BLOCK_SIZE - 1)
      BY <1>2, <3>1, DivMod
    <3> QED BY <3>1, <3>2, Place
  <2>2. i \in 1..(Len(new) * BLOCK_SIZE)
    <3>1. Len(new) \in Nat /\ Len(new) >= L
      BY <1>1, <1>5
    <3>2. L \in Nat /\ BLOCK_SIZE \in Nat
      BY <1>1, <1>2
    <3>3. /\ L * BLOCK_SIZE \in Nat /\ Len(new) * BLOCK_SIZE \in Nat
          /\ L * BLOCK_SIZE <= Len(new) * BLOCK_SIZE
      BY <3>1, <3>2, MulMono
    <3> QED BY <3>3
  <2>3. Bytes(list)[i] = list[q + 1][r + 1] /\ Bytes(new)[i] = new[q + 1][r + 1]
    BY <2>2 DEF Bytes, L
  <2> HIDE DEF q, r
  <2>4. q \in Nat /\ r \in Nat
    BY <2>1
  <2> HIDE DEF Bytes
  <2>5. CASE q + 1 < L
    <3>1. /\ BLOCK_SIZE * (q + 1) <= BLOCK_SIZE * (L - 1)
          /\ BLOCK_SIZE * (q + 1) = BLOCK_SIZE * q + BLOCK_SIZE
          /\ BLOCK_SIZE * q \in Nat /\ BLOCK_SIZE * (L - 1) \in Nat
      BY <1>1, <1>2, <2>4, <2>5
    <3>2. i <= u
      <4> DEFINE x == BLOCK_SIZE * q + BLOCK_SIZE
                 y == BLOCK_SIZE * (L - 1)
      <4>1. x \in Nat /\ y \in Nat /\ x <= y
        BY <1>2, <3>1
      <4>2. i \in Int /\ i <= x
        BY <1>2, <2>1, <2>4, <3>1
      <4>3. u >= y
        BY <1>1, <1>2, <3>1
      <4> HIDE DEF x, y
      <4> QED BY <4>1, <4>2, <4>3
    <3>3. new[q + 1] = list[q + 1]
      BY <1>1, <1>5, <2>4, <2>5
    <3>4. i \notin (u + 1)..(u + Len(now))
      BY <3>2
    <3> QED BY <2>3, <3>3, <3>4
  <2>6. CASE q + 1 = L
    <3>1. i - u = (r + 1) - at
      <4>1. L - 1 = q
        BY <1>1, <2>4, <2>6
      <4>2. BLOCK_SIZE * q \in Nat
        BY <1>2, <2>4
      <4>3. u = BLOCK_SIZE * q + at /\ at \in Nat
        BY <1>1, <1>2, <4>1
      <4>4. i = BLOCK_SIZE * q + r + 1 /\ r \in Nat
        BY <2>1, <2>4
      <4> DEFINE z == BLOCK_SIZE * q
      <4>5. z \in Nat /\ at \in Nat /\ r \in Nat /\ u = z + at /\ i = z + r + 1
        BY <4>2, <4>3, <4>4
      <4> HIDE DEF z
      <4> QED BY <4>5
    <3>2. new[q + 1] = last /\ list[q + 1] = Last(list)
      BY <1>5, <2>6 DEF Last, L
    <3>3. last[r + 1] = IF (r + 1) - at \in 1..Len(now) THEN now[(r + 1) - at] ELSE Last(list)[r + 1]
      BY <2>1 DEF Patched, last
    <3>4. i \in (u + 1)..(u + Len(now)) <=> i - u \in 1..Len(now)
      <4>1. i \in Int /\ Len(now) \in Nat
        BY <1>1, <1>2
      <4> QED BY <4>1
    <3> QED BY <2>3, <3>1, <3>2, <3>3, <3>4
  <2> QED BY <1>1, <2>1, <2>4, <2>5, <2>6
<1> QED BY <1>5, <1>6 DEF L

\* The tail block is full when the number of bytes in use is a multiple of
\* BLOCK_SIZE: the test of buffer_write.
LEMMA Growth ==
  ASSUME NEW u \in Nat, NEW n \in Nat \ {0}, (u % BLOCK_SIZE) + n <= BLOCK_SIZE
  PROVE  IF (u + n) % BLOCK_SIZE = 0
         THEN (u % BLOCK_SIZE) + n = BLOCK_SIZE /\ (u + n) \div BLOCK_SIZE = (u \div BLOCK_SIZE) + 1
         ELSE (u % BLOCK_SIZE) + n < BLOCK_SIZE /\ (u + n) \div BLOCK_SIZE = u \div BLOCK_SIZE
<1> DEFINE q == u \div BLOCK_SIZE
           r == u % BLOCK_SIZE
<1>1. BLOCK_SIZE \in Nat \ {0}
  BY BufferAssumption
<1>2. q \in Nat /\ r \in 0..(BLOCK_SIZE - 1) /\ u = BLOCK_SIZE * q + r
  BY <1>1, DivMod
<1> HIDE DEF q, r
<1>3. CASE r + n = BLOCK_SIZE
  <2>1. PICK z \in 0..(BLOCK_SIZE - 1) : z = 0
    BY <1>1
  <2> DEFINE m == q + 1
             k == u + n
  <2>2. k = BLOCK_SIZE * m + z /\ k \in Nat /\ m \in Nat /\ z \in 0..(BLOCK_SIZE - 1)
    BY <1>1, <1>2, <1>3, <2>1
  <2> HIDE DEF m, k
  <2>3. k \div BLOCK_SIZE = m /\ k % BLOCK_SIZE = z
    BY <1>1, <2>2, DivUnique
  <2> QED BY <1>3, <2>1, <2>3 DEF q, r, m, k
<1>4. CASE r + n < BLOCK_SIZE
  <2>1. u + n = BLOCK_SIZE * q + (r + n) /\ u + n \in Nat /\ r + n \in 0..(BLOCK_SIZE - 1)
    BY <1>1, <1>2, <1>4
  <2>2. (u + n) \div BLOCK_SIZE = q /\ (u + n) % BLOCK_SIZE = r + n
    BY <1>1, <1>2, <2>1, DivUnique
  <2>3. r + n # 0
    BY <1>1, <1>2
  <2> QED BY <1>4, <2>2, <2>3 DEF q, r
<1>5. r + n <= BLOCK_SIZE
  BY DEF r
<1> QED BY <1>1, <1>2, <1>3, <1>4, <1>5

\* The loop of buffer_write takes its bytes from the front.
LEMMA SplitBytes ==
  ASSUME NEW s \in Seq(Byte), NEW k \in 1..Len(s)
  PROVE  /\ SubSeq(s, 1, k) \in Seq(Byte) /\ Len(SubSeq(s, 1, k)) = k
         /\ \A i \in 1..k : SubSeq(s, 1, k)[i] = s[i]
         /\ SubSeq(s, k + 1, Len(s)) \in Seq(Byte) /\ Len(SubSeq(s, k + 1, Len(s))) = Len(s) - k
         /\ \A i \in 1..(Len(s) - k) : SubSeq(s, k + 1, Len(s))[i] = s[k + i]
OBVIOUS

-----------------------------------------------------------------------------
(***************************************************************************)
(* The inductive invariant.                                                *)
(***************************************************************************)

\* The bytes in use lie in the blocks.
LEMMA InUse ==
  ASSUME TypeOK, TailHasRoom, NEW b \in Buf
  PROVE  /\ Memory(b) \in Seq(Byte \cup {Zero}) /\ Len(Memory(b)) = Len(blocks[b]) * BLOCK_SIZE
         /\ Len(Memory(b)) \in Nat /\ used[b] \in Nat /\ used[b] < Len(Memory(b))
<1>1. blocks[b] \in Seq(Block) /\ used[b] \in Nat /\ Len(blocks[b]) = used[b] \div BLOCK_SIZE + 1
  BY DEF TypeOK, TailHasRoom
<1>2. Memory(b) \in Seq(Byte \cup {Zero}) /\ Len(Memory(b)) = Len(blocks[b]) * BLOCK_SIZE
  BY <1>1, BytesType DEF Memory
<1>3. used[b] < Len(blocks[b]) * BLOCK_SIZE
  BY <1>1, TailEnd
<1> QED BY <1>1, <1>2, <1>3

\* buffer_create leaves a buffer of one block with no byte in use.
LEMMA InitInv == Init => BufferInv
<1> SUFFICES ASSUME Init
             PROVE  BufferInv
  OBVIOUS
<1>1. Fresh \in Block
  BY DEF Fresh, Block
<1>2. TypeOK
  BY <1>1 DEF Init, TypeOK
<1>3. 0 \div BLOCK_SIZE = 0
  <2>1. BLOCK_SIZE \in Nat \ {0} /\ 0 = BLOCK_SIZE * 0 + 0 /\ 0 \in 0..(BLOCK_SIZE - 1)
    BY BufferAssumption
  <2> QED BY <2>1, DivUnique
<1>4. TailHasRoom
  BY <1>3 DEF Init, TailHasRoom
<1>5. Written
  BY DEF Init, Written, Passed
<1> QED BY <1>2, <1>4, <1>5 DEF Init, BufferInv, WriteInv, SourceKept

\* A step that changes nothing keeps it.
LEMMA Stutter == BufferInv /\ UNCHANGED vars => BufferInv'
BY DEF vars, BufferInv, TypeOK, TailHasRoom, Written, WriteInv, SourceKept, Memory, Passed,
   Current, Write

\* A write that starts, made by a call or by the loop of the call in progress,
\* goes on where the bytes in use end.
LEMMA WriteStarts ==
  ASSUME BufferInv, UNCHANGED <<blocks, used, text>>,
         NEW c, call' = <<c>>,
         c = [write |-> c.write, kind |-> c.kind, src |-> c.src, left |-> c.left, source |-> c.source],
         c.write = Writing(c.write.to, c.write.left),
         c.write.to \in Buf, c.write.left \in Seq(Byte), c.kind \in Kind,
         c.src \in Buf, c.left \in Nat, c.source \in Seq(Byte),
         NEW p \in Nat, p = Len(c.source) - c.left - Len(c.write.left),
         \/ call = <<>> /\ p = 0
         \/ call # <<>> /\ c.write.to = Write.to /\ c.source = Current.source /\ p = Passed(Write.to),
         \A i \in 1..Len(c.write.left) : c.write.left[i] = c.source[p + i],
         c.kind = "append" => /\ Len(c.source) <= used[c.src]
                              /\ \A i \in 1..Len(c.source) : Memory(c.src)[i] = c.source[i]
  PROVE  BufferInv'
<1> USE DEF BufferInv
<1>1. call' # <<>> /\ Current' = c /\ Write' = c.write
  BY DEF Current, Write
<1> DEFINE b == c.write.to
           w == c.write
<1>2. used[b] % BLOCK_SIZE \in 0..(BLOCK_SIZE - 1) /\ BLOCK_SIZE \in Nat \ {0}
  BY DivMod, BufferAssumption DEF TypeOK
<1>3. /\ w.to = b /\ w.at = used[b] % BLOCK_SIZE
      /\ w.chunk = Min2(Len(w.left), BLOCK_SIZE - w.at)
      /\ w = [to |-> w.to, left |-> w.left, at |-> w.at, chunk |-> w.chunk]
  BY DEF Writing
<1>4. w.at \in Nat /\ w.chunk \in Nat /\ w.at + w.chunk <= BLOCK_SIZE
  BY <1>2, <1>3 DEF Min2
<1>5. w \in WriteRecord
  BY <1>3, <1>4 DEF WriteRecord
<1>6. c \in CallRecord
  BY <1>5 DEF CallRecord
<1>7. TypeOK'
  BY <1>1, <1>6 DEF TypeOK
<1>8. TailHasRoom'
  BY <1>1, <1>4 DEF TailHasRoom
<1>9. \A d \in Buf : Memory(d)' = Memory(d)
  BY DEF Memory, Bytes
<1>10. \A d \in Buf : Passed(d)' = IF d = b THEN p ELSE 0
  BY <1>1 DEF Passed
<1>11. Written'
  <2>1. \A d \in Buf : Passed(d)' = Passed(d)
    BY <1>10 DEF Passed
  <2>2. \A d \in Buf : used[d] = Len(text[d]) + Passed(d)
    BY DEF Written
  <2>3. ASSUME NEW d \in Buf, NEW i \in 1..used[d]
        PROVE  Memory(d)[i] = IF i <= Len(text[d]) THEN text[d][i] ELSE c.source[i - Len(text[d])]
    <3>1. CASE d = b /\ call # <<>>
      BY <2>3, <3>1, SMTT(30) DEF Written
    <3>2. CASE d # b \/ call = <<>>
      <4>1. used[d] = Len(text[d])
        BY <1>10, <2>1, <2>2, <3>2 DEF TypeOK
      <4> QED BY SMTT(30), <2>3, <4>1 DEF Written, TypeOK
    <3> QED BY <3>1, <3>2
  <2> QED BY <1>1, <1>9, <2>1, <2>2, <2>3 DEF Written
<1>12. WriteInv'
  BY <1>1, <1>3, <1>10 DEF WriteInv
<1>13. SourceKept'
  BY <1>1, <1>9 DEF SourceKept
<1> QED BY <1>7, <1>8, <1>11, <1>12, <1>13

\* One turn of the loop of buffer_write: the bytes of the write go to the end of
\* the bytes in use, and nothing that was in use changes.
LEMMA ChunkCopied ==
  ASSUME BufferInv, CopyChunk
  PROVE  /\ BufferInv'
         /\ \A b \in Buf : /\ used'[b] >= used[b]
                           /\ \A i \in 1..used[b] : Bytes(blocks'[b])[i] = Memory(b)[i]
<1> USE DEF BufferInv
<1>0. PICK w, b : w = Write /\ b = Write.to
  OBVIOUS
<1> DEFINE now   == SubSeq(w.left, 1, w.chunk)
           rest  == SubSeq(w.left, w.chunk + 1, Len(w.left))
           grown == (used[b] + w.chunk) % BLOCK_SIZE = 0
           last  == Patched(Last(blocks[b]), w.at, now)
           new   == Front(blocks[b]) \o IF grown THEN <<last, Fresh>> ELSE <<last>>
           offset == IF grown THEN 0 ELSE w.at
           size  == Min2(Len(rest), BLOCK_SIZE)
           next  == [w EXCEPT !.left = rest, !.at = offset, !.chunk = size]
<1>1. /\ call # <<>> /\ w.left # <<>>
      /\ used' = [used EXCEPT ![b] = @ + w.chunk]
      /\ blocks' = [blocks EXCEPT ![b] = new]
      /\ call' = <<[Current EXCEPT !.write = next]>>
      /\ text' = text
  BY <1>0 DEF CopyChunk, CopyWith
<1>2. /\ call = <<Current>> /\ Current \in CallRecord /\ w \in WriteRecord
      /\ b \in Buf /\ w.to = b /\ w.left \in Seq(Byte)
      /\ used[b] \in Nat /\ blocks[b] \in Seq(Block)
      /\ Len(blocks[b]) = used[b] \div BLOCK_SIZE + 1
      /\ BLOCK_SIZE \in Nat \ {0}
  BY <1>0, <1>1, BufferAssumption DEF TypeOK, CallRecord, WriteRecord, Write, TailHasRoom
<1>3. /\ w.at = used[b] % BLOCK_SIZE /\ w.at \in 0..(BLOCK_SIZE - 1)
      /\ w.chunk = Min2(Len(w.left), BLOCK_SIZE - w.at)
      /\ w.chunk \in 1..Len(w.left) /\ w.at + w.chunk <= BLOCK_SIZE
  <2>1. Len(w.left) \in Nat \ {0}
    BY <1>1, <1>2
  <2>2. /\ w.at = used[b] % BLOCK_SIZE /\ w.at \in 0..(BLOCK_SIZE - 1)
        /\ w.chunk = Min2(Len(w.left), BLOCK_SIZE - w.at)
    BY ZenonT(30), <1>0, <1>1, <1>2, DivMod DEF WriteInv
  <2> QED BY <1>2, <2>1, <2>2, SMTT(30) DEF Min2
<1>4. /\ now \in Seq(Byte) /\ Len(now) = w.chunk
      /\ \A i \in 1..w.chunk : now[i] = w.left[i]
      /\ rest \in Seq(Byte) /\ Len(rest) = Len(w.left) - w.chunk
      /\ \A i \in 1..Len(rest) : rest[i] = w.left[w.chunk + i]
  BY ZenonT(30), <1>2, <1>3, SplitBytes
<1> HIDE DEF now, rest
<1>5. /\ new \in Seq(Block)
      /\ Len(new) = IF grown THEN Len(blocks[b]) + 1 ELSE Len(blocks[b])
      /\ \A i \in 1..(Len(blocks[b]) * BLOCK_SIZE) :
           Bytes(new)[i] = IF i \in (used[b] + 1)..(used[b] + Len(now))
                           THEN now[i - used[b]] ELSE Bytes(blocks[b])[i]
  <2> DEFINE list == blocks[b]
             u == used[b]
             tail == IF grown THEN <<last, Fresh>> ELSE <<last>>
  <2>1. list \in Seq(Block) /\ u \in Nat /\ Len(list) = u \div BLOCK_SIZE + 1
    BY <1>2
  <2>2. (u % BLOCK_SIZE) + Len(now) <= BLOCK_SIZE /\ last = Patched(Last(list), u % BLOCK_SIZE, now)
    BY <1>3, <1>4
  <2>3. tail \in {<<last>>, <<last, Fresh>>} /\ new = Front(list) \o tail
        /\ Len(tail) = IF grown THEN 2 ELSE 1
    OBVIOUS
  <2>a. CopyOf(list, u, now, tail, new)
    BY <2>2, <2>3 DEF CopyOf
  <2> HIDE DEF grown, last, list, u, tail, new
  <2>4. /\ new \in Seq(Block)
        /\ Len(new) = Len(list) - 1 + Len(tail)
        /\ \A i \in 1..(Len(list) * BLOCK_SIZE) :
             Bytes(new)[i] = IF i \in (u + 1)..(u + Len(now)) THEN now[i - u] ELSE Bytes(list)[i]
    BY SMTT(30), <1>4, <2>1, <2>2, <2>a, Copied
  <2>5. Len(new) = IF grown THEN Len(list) + 1 ELSE Len(list)
    <3>1. Len(list) \in Nat
      BY <2>1
    <3>2. CASE grown
      BY <2>3, <2>4, <3>1, <3>2
    <3>3. CASE ~ grown
      BY <2>3, <2>4, <3>1, <3>3
    <3> QED BY <3>2, <3>3
  <2> QED BY <2>4, <2>5 DEF u, list
<1>6. IF grown
      THEN w.at + w.chunk = BLOCK_SIZE /\ (used[b] + w.chunk) \div BLOCK_SIZE = (used[b] \div BLOCK_SIZE) + 1
      ELSE w.at + w.chunk < BLOCK_SIZE /\ (used[b] + w.chunk) \div BLOCK_SIZE = used[b] \div BLOCK_SIZE
  <2>1. used[b] \in Nat /\ w.chunk \in Nat \ {0} /\ (used[b] % BLOCK_SIZE) + w.chunk <= BLOCK_SIZE
    BY <1>2, <1>3, SMTT(30)
  <2> DEFINE u == used[b]
             n == w.chunk
  <2> HIDE DEF u, n
  <2>2. IF (u + n) % BLOCK_SIZE = 0
        THEN (u % BLOCK_SIZE) + n = BLOCK_SIZE /\ (u + n) \div BLOCK_SIZE = (u \div BLOCK_SIZE) + 1
        ELSE (u % BLOCK_SIZE) + n < BLOCK_SIZE /\ (u + n) \div BLOCK_SIZE = u \div BLOCK_SIZE
    BY <2>1, Growth DEF u, n
  <2> QED BY <1>3, <2>2 DEF u, n
<1>7. rest # <<>> => grown
  BY <1>2, <1>3, <1>4, <1>6 DEF Min2
<1> HIDE DEF new
<1>8. /\ Current'.write = next /\ Write' = next /\ call' = <<Current'>>
      /\ Current'.kind = Current.kind /\ Current'.src = Current.src
      /\ Current'.left = Current.left /\ Current'.source = Current.source
      /\ Current' = [Current EXCEPT !.write = next]
  BY <1>1, <1>2 DEF Current, Write, CallRecord
<1>9. /\ next \in WriteRecord /\ next.to = b /\ next.left = rest
      /\ next.at = (IF grown THEN 0 ELSE w.at) /\ next.chunk = Min2(Len(rest), BLOCK_SIZE)
  <2>1. size \in Nat /\ offset \in Nat
    BY <1>2, <1>3, <1>4 DEF Min2
  <2> HIDE DEF size, offset
  <2>2. next \in WriteRecord /\ next.to = b /\ next.left = rest /\ next.at = offset /\ next.chunk = size
    BY <1>2, <1>4, <2>1 DEF WriteRecord
  <2> QED BY <2>2 DEF size, offset
<1> HIDE DEF next
<1>10. TypeOK'
  <2>1. Current' \in CallRecord
    BY <1>2, <1>8, <1>9 DEF CallRecord
  <2>2. used' \in [Buf -> Nat]
    BY SMTT(30), <1>1, <1>2, <1>3 DEF TypeOK
  <2>3. DOMAIN blocks' = Buf /\ \A d \in Buf : blocks'[d] \in Seq(Block)
    BY <1>1, <1>2, <1>5 DEF TypeOK
  <2> QED BY <1>1, <1>8, <2>1, <2>2, <2>3 DEF TypeOK
<1>11. TailHasRoom'
  <2>1. next.at + next.chunk <= BLOCK_SIZE
    BY <1>2, <1>3, <1>4, <1>7, <1>9 DEF Min2
  <2>2. \A d \in Buf : Len(blocks'[d]) = used'[d] \div BLOCK_SIZE + 1
    <3> SUFFICES ASSUME NEW d \in Buf
                 PROVE  Len(blocks'[d]) = used'[d] \div BLOCK_SIZE + 1
      OBVIOUS
    <3>1. CASE d = b
      <4>1. Len(blocks'[b]) = Len(new) /\ used'[b] = used[b] + w.chunk
        BY <1>1, <1>2 DEF TypeOK
      <4> QED BY <1>2, <1>5, <1>6, <3>1, <4>1
    <3>2. CASE d # b
      BY <1>1, <3>2 DEF TypeOK, TailHasRoom
    <3> QED BY <3>1, <3>2
  <2> QED BY <1>8, <2>1, <2>2 DEF TailHasRoom
<1>12. /\ used'[b] = used[b] + w.chunk
       /\ \A d \in Buf : d # b => used'[d] = used[d] /\ Bytes(blocks'[d]) = Memory(d)
       /\ \A i \in 1..used[b] : Bytes(blocks'[b])[i] = Memory(b)[i]
       /\ \A i \in (used[b] + 1)..(used[b] + w.chunk) : Bytes(blocks'[b])[i] = w.left[i - used[b]]
  <2>0. blocks'[b] = new /\ used'[b] = used[b] + w.chunk
    BY <1>1, <1>2 DEF TypeOK
  <2>1. used'[b] = used[b] + w.chunk /\ Bytes(blocks'[b]) = Bytes(new)
    BY <2>0
  <2>2. \A d \in Buf : d # b => used'[d] = used[d] /\ Bytes(blocks'[d]) = Memory(d)
    BY <1>1 DEF TypeOK, Memory
  <2>3. \A i \in 1..(used[b] + w.chunk) : i \in 1..(Len(blocks[b]) * BLOCK_SIZE)
    <3> DEFINE l == Len(blocks[b])
               u == used[b]
               x == BLOCK_SIZE * (l - 1)
               y == l * BLOCK_SIZE
    <3>1. l \in Nat /\ u \in Nat /\ l = u \div BLOCK_SIZE + 1 /\ u % BLOCK_SIZE = w.at
      BY SMTT(30), <1>2, <1>3
    <3> HIDE DEF l, u
    <3>2. u = x + (u % BLOCK_SIZE)
      BY <3>1, TailEnd
    <3>3. y = x + BLOCK_SIZE /\ x \in Int /\ y \in Int
      BY <1>2, <3>1
    <3> HIDE DEF x, y
    <3>4. u + w.chunk <= y
      <4>1. u = x + w.at /\ w.at \in Nat /\ w.chunk \in Nat /\ w.at + w.chunk <= BLOCK_SIZE
        BY <1>2, <1>3, <3>1, <3>2
      <4> QED BY <1>2, <3>3, <4>1
    <3> QED BY SMTT(30), <1>2, <1>3, <3>1, <3>3, <3>4 DEF l, u, y
  <2>4. ASSUME NEW i \in 1..(used[b] + w.chunk)
        PROVE  Bytes(blocks'[b])[i] = IF i > used[b] THEN w.left[i - used[b]] ELSE Memory(b)[i]
    <3> DEFINE u == used[b]
               n == w.chunk
    <3>1. u \in Nat /\ n \in Nat /\ Len(now) = n /\ i \in 1..(u + n)
      BY <1>2, <1>3, <1>4
    <3> HIDE DEF u, n
    <3>2. i \in (u + 1)..(u + Len(now)) <=> i > u
      BY <3>1
    <3>3. i > u => i - u \in 1..n
      BY <3>1
    <3> QED BY <1>4, <1>5, <2>1, <2>3, <3>2, <3>3 DEF Memory, u, n
  <2>5. /\ \A i \in 1..used[b] : i \in 1..(used[b] + w.chunk) /\ ~ (i > used[b])
        /\ \A i \in (used[b] + 1)..(used[b] + w.chunk) : i \in 1..(used[b] + w.chunk) /\ i > used[b]
    <3> DEFINE u == used[b]
               n == w.chunk
    <3>1. u \in Nat /\ n \in Nat
      BY <1>2, <1>3
    <3> HIDE DEF u, n
    <3>2. /\ \A i \in 1..u : i \in 1..(u + n) /\ ~ (i > u)
          /\ \A i \in (u + 1)..(u + n) : i \in 1..(u + n) /\ i > u
      BY <3>1
    <3> QED BY <3>2 DEF u, n
  <2> QED BY <2>1, <2>2, <2>4, <2>5
<1>13. /\ Passed(b)' = Passed(b) + w.chunk /\ Passed(b) \in Nat /\ w.chunk \in Nat
       /\ \A d \in Buf : d # b => Passed(d)' = 0 /\ Passed(d) = 0
  <2>1. Len(w.left) \in Nat /\ Current.left \in Nat /\ Len(Current.source) \in Nat
    BY <1>2 DEF CallRecord
  <2>2. /\ call' # <<>> /\ Write'.to = b /\ Write'.left = rest
        /\ Current'.source = Current.source /\ Current'.left = Current.left
    BY <1>8, <1>9
  <2>3. \A d : Passed(d)' = IF d = b THEN Len(Current.source) - Current.left - Len(rest) ELSE 0
    BY <2>2 DEF Passed
  <2>4. \A d : Passed(d) = IF d = b THEN Len(Current.source) - Current.left - Len(w.left) ELSE 0
    BY <1>0, <1>1 DEF Passed
  <2>5. Passed(b) \in Nat
    BY <1>0, <1>1 DEF WriteInv
  <2> QED BY SMTT(30), <1>3, <1>4, <2>1, <2>3, <2>4, <2>5
<1>14. \A d \in Buf : /\ used'[d] >= used[d]
                      /\ \A i \in 1..used[d] : Bytes(blocks'[d])[i] = Memory(d)[i]
  <2> SUFFICES ASSUME NEW d \in Buf
               PROVE  /\ used'[d] >= used[d]
                      /\ \A i \in 1..used[d] : Bytes(blocks'[d])[i] = Memory(d)[i]
    OBVIOUS
  <2>1. w.chunk \in Nat /\ used[d] \in Nat
    BY <1>3 DEF TypeOK
  <2>2. CASE d = b
    BY <1>12, <2>1, <2>2
  <2>3. CASE d # b
    BY <1>12, <2>1, <2>3
  <2> QED BY <2>2, <2>3
<1>15. Written'
  <2>1. \A d \in Buf : used'[d] = Len(text'[d]) + Passed(d)'
    <3> SUFFICES ASSUME NEW d \in Buf
                 PROVE  used'[d] = Len(text'[d]) + Passed(d)'
      OBVIOUS
    <3>1. Len(text[d]) \in Nat /\ text'[d] = text[d] /\ used[d] = Len(text[d]) + Passed(d)
      BY <1>1 DEF Written, TypeOK
    <3>2. CASE d = b
      BY <1>12, <1>13, <3>1, <3>2
    <3>3. CASE d # b
      BY <1>12, <1>13, <3>1, <3>3
    <3> QED BY <3>2, <3>3
  <2>2. ASSUME NEW d \in Buf, NEW i \in 1..used'[d]
        PROVE  Bytes(blocks'[d])[i] = IF i <= Len(text'[d]) THEN text'[d][i]
                                      ELSE Current'.source[i - Len(text'[d])]
    <3>1. CASE d # b
      BY <1>1, <1>8, <1>12, <2>2, <3>1 DEF Written
    <3>2. CASE d = b /\ i <= used[b]
      BY <1>1, <1>2, <1>8, <1>12, <3>2 DEF Written
    <3>3. CASE d = b /\ i > used[b]
      <4>1. i \in (used[b] + 1)..(used[b] + w.chunk) /\ i - used[b] \in 1..Len(w.left)
        <5>1. w.chunk \in Nat /\ Len(w.left) \in Nat /\ w.chunk <= Len(w.left) /\ used[b] \in Nat
          BY <1>2, <1>3, SMTT(30)
        <5>2. i \in 1..(used[b] + w.chunk) /\ i > used[b]
          BY <1>12, <2>2, <3>3
        <5> QED BY <5>1, <5>2, SMTT(30)
      <4>2. Bytes(blocks'[b])[i] = Current.source[Passed(b) + (i - used[b])]
        BY <1>0, <1>1, <1>12, <4>1 DEF WriteInv
      <4>3. Len(text[b]) \in Nat /\ used[b] = Len(text[b]) + Passed(b)
        BY <1>2 DEF Written, TypeOK
      <4>4. Passed(b) + (i - used[b]) = i - Len(text[b]) /\ ~ (i <= Len(text[b]))
        <5>1. Passed(b) \in Nat /\ i \in Int /\ i > used[b]
          BY <1>2, <1>3, <1>13, <4>1, SMTT(30)
        <5> QED BY <4>3, <5>1
      <4> QED BY <1>1, <1>8, <3>3, <4>2, <4>4
    <3> QED BY <1>2, <1>3, <1>12, <2>2, <3>1, <3>2, <3>3
  <2> QED BY <2>1, <2>2 DEF Written, Memory
<1>16. WriteInv'
  <2>1. Write'.to = b /\ Write'.left = rest /\ Passed(b)' = Passed(b) + w.chunk
    BY <1>8, <1>9, <1>13
  <2>2. \A i \in 1..Len(rest) : rest[i] = Current.source[(Passed(b) + w.chunk) + i]
    <3> TAKE i \in 1..Len(rest)
    <3>1. Len(w.left) \in Nat
      BY <1>2
    <3>2. w.chunk + i \in 1..Len(w.left)
      BY <1>3, <1>4, <3>1
    <3>3. w.left[w.chunk + i] = Current.source[Passed(b) + (w.chunk + i)]
      BY <1>0, <1>1, <3>2 DEF WriteInv
    <3>4. Passed(b) + (w.chunk + i) = (Passed(b) + w.chunk) + i
      BY <1>13
    <3> QED BY <1>4, <3>3, <3>4
  <2>3. rest # <<>> => /\ next.at = used'[b] % BLOCK_SIZE
                       /\ next.chunk = Min2(Len(rest), BLOCK_SIZE - next.at)
    BY <1>2, <1>7, <1>9, <1>12
  <2> QED BY <1>8, <1>9, <1>13, <2>1, <2>2, <2>3 DEF WriteInv
<1>17. SourceKept'
  <2> SUFFICES ASSUME Current.kind = "append"
               PROVE  /\ Len(Current.source) <= used'[Current.src]
                      /\ \A i \in 1..Len(Current.source) :
                           Bytes(blocks'[Current.src])[i] = Current.source[i]
    BY <1>8 DEF SourceKept, Memory
  <2>1. /\ Current.src \in Buf /\ Len(Current.source) \in Nat
        /\ Len(Current.source) <= used[Current.src]
        /\ \A i \in 1..Len(Current.source) : Memory(Current.src)[i] = Current.source[i]
    BY <1>1, <1>2 DEF SourceKept, CallRecord
  <2>2. used'[Current.src] >= used[Current.src] /\ used'[Current.src] \in Nat
    BY <1>10, <1>14, <2>1 DEF TypeOK
  <2>3. \A i \in 1..Len(Current.source) : i \in 1..used[Current.src]
    BY <1>2, <2>1 DEF TypeOK
  <2> QED BY <1>14, <2>1, <2>2, <2>3 DEF TypeOK
<1> QED BY <1>10, <1>11, <1>14, <1>15, <1>16, <1>17

\* What a caller passes is a string of bytes.
LEMMA TextsType ==
  ASSUME NEW n \in Nat
  PROVE  Texts(n) \subseteq Seq(Byte)
BY DEF Texts

\* The bytes of a call come after those of the calls before it.
LEMMA Joined ==
  ASSUME NEW S, NEW s \in Seq(S), NEW t \in Seq(S)
  PROVE  /\ Len(s \o t) = Len(s) + Len(t)
         /\ \A i \in 1..(Len(s) + Len(t)) : (s \o t)[i] = IF i <= Len(s) THEN s[i] ELSE t[i - Len(s)]
OBVIOUS

\* Any part of a string of bytes.
LEMMA PartOf ==
  ASSUME NEW S, NEW s \in Seq(S), NEW j \in Nat, NEW n \in Nat, j + n <= Len(s)
  PROVE  /\ Len(SubSeq(s, j + 1, j + n)) = n
         /\ \A i \in 1..n : SubSeq(s, j + 1, j + n)[i] = s[j + i] /\ j + i \in 1..Len(s)
         /\ \A T : (\A i \in 1..n : s[j + i] \in T) => SubSeq(s, j + 1, j + n) \in Seq(T)
OBVIOUS

\* In particular its first bytes.
LEMMA PartFromHead ==
  ASSUME NEW S, NEW s \in Seq(S), NEW n \in Nat, n <= Len(s), NEW T, \A i \in 1..n : s[i] \in T
  PROVE  /\ SubSeq(s, 1, n) \in Seq(T) /\ Len(SubSeq(s, 1, n)) = n
         /\ \A i \in 1..n : SubSeq(s, 1, n)[i] = s[i]
OBVIOUS

\* Between calls the bytes in use are those that were written.
LEMMA InUseText ==
  ASSUME BufferInv, call = <<>>, NEW b \in Buf
  PROVE  /\ used[b] = Len(text[b])
         /\ \A i \in 1..used[b] : Memory(b)[i] = text[b][i] /\ text[b][i] \in Byte
<1>1. Len(text[b]) \in Nat /\ text[b] \in Seq(Byte) /\ used[b] = Len(text[b]) + 0
  BY DEF BufferInv, TypeOK, Written, Passed
<1>2. used[b] = Len(text[b])
  BY <1>1
<1> QED BY <1>1, <1>2 DEF BufferInv, Written

\* Every call, and every turn of its loops, keeps the invariant.
LEMMA NextInv == BufferInv /\ [Next]_vars => BufferInv'
<1> SUFFICES ASSUME BufferInv, [Next]_vars
             PROVE  BufferInv'
  OBVIOUS
<1>1. ASSUME NEW b \in Buf, buffer_reset(b)
      PROVE  BufferInv'
  <2>1. /\ call = <<>> /\ call' = <<>>
        /\ blocks' = [blocks EXCEPT ![b] = <<Last(@)>>]
        /\ used' = [used EXCEPT ![b] = 0] /\ text' = [text EXCEPT ![b] = <<>>]
    BY <1>1 DEF buffer_reset
  <2>2. Last(blocks[b]) \in Block
    <3>1. blocks[b] \in Seq(Block) /\ used[b] \in Nat /\ Len(blocks[b]) = used[b] \div BLOCK_SIZE + 1
      BY DEF BufferInv, TypeOK, TailHasRoom
    <3>a. used[b] \div BLOCK_SIZE \in Nat
      BY <3>1, DivMod, BufferAssumption
    <3>2. Len(blocks[b]) \in 1..Len(blocks[b])
      BY <3>1, <3>a
    <3> QED BY <3>1, <3>2 DEF Last
  <2>3. TypeOK'
    BY <2>1, <2>2 DEF BufferInv, TypeOK
  <2>4. 0 \div BLOCK_SIZE = 0
    <3>1. BLOCK_SIZE \in Nat \ {0} /\ 0 = BLOCK_SIZE * 0 + 0 /\ 0 \in 0..(BLOCK_SIZE - 1)
      BY BufferAssumption
    <3> QED BY <3>1, DivUnique
  <2>5. TailHasRoom'
    BY <2>1, <2>4 DEF BufferInv, TypeOK, TailHasRoom
  <2>6. \A d \in Buf : d # b => /\ used'[d] = used[d] /\ text'[d] = text[d]
                                /\ Bytes(blocks'[d]) = Memory(d)
    BY <2>1 DEF BufferInv, TypeOK, Memory
  <2>7. used'[b] = 0 /\ text'[b] = <<>>
    BY <2>1 DEF BufferInv, TypeOK
  <2>8. Written'
    <3>1. \A d : Passed(d)' = 0 /\ Passed(d) = 0
      BY <2>1 DEF Passed
    <3>2. \A d \in Buf : used'[d] = Len(text'[d]) + 0
      BY <2>6, <2>7, <3>1 DEF BufferInv, Written
    <3>3. ASSUME NEW d \in Buf, NEW i \in 1..used'[d]
          PROVE  d # b /\ i \in 1..used[d] /\ i <= Len(text'[d]) /\ i <= Len(text[d])
      <4>1. Len(text[d]) \in Nat /\ used[d] = Len(text[d])
        BY <2>1, InUseText DEF BufferInv, TypeOK
      <4> QED BY <2>6, <2>7, <3>3, <4>1
    <3>4. \A d \in Buf : \A i \in 1..used'[d] : Bytes(blocks'[d])[i] = text'[d][i]
      BY <2>1, <2>6, <3>3, InUseText
    <3> QED BY <3>1, <3>2, <3>3, <3>4 DEF Written, Memory
  <2> QED BY <2>1, <2>3, <2>5, <2>8 DEF BufferInv, WriteInv, SourceKept
<1>2. ASSUME NEW b \in Buf, NEW bytes \in Texts(MaxWrite), buffer_write(b, bytes)
      PROVE  BufferInv'
  <2>1. bytes \in Seq(Byte)
    BY <1>2, TextsType, BufferAssumption
  <2>2. call = <<>> /\ UNCHANGED <<blocks, used, text>>
        /\ call' = Call(Writing(b, bytes), "write", b, 0, bytes)
    BY <1>2 DEF buffer_write, Room
  <2> DEFINE c == [write |-> Writing(b, bytes), kind |-> "write", src |-> b, left |-> 0, source |-> bytes]
  <2>3. /\ call' = <<c>> /\ c.write = Writing(b, bytes) /\ c.kind = "write" /\ c.src = b
        /\ c.left = 0 /\ c.source = bytes /\ c.write.to = b /\ c.write.left = bytes
        /\ c = [write |-> c.write, kind |-> c.kind, src |-> c.src, left |-> c.left, source |-> c.source]
    BY <2>2 DEF Call, Writing
  <2> HIDE DEF c
  <2>4. 0 = Len(c.source) - c.left - Len(c.write.left)
    BY <2>1, <2>3
  <2>5. \A i \in 1..Len(bytes) : bytes[i] = bytes[0 + i]
    OBVIOUS
  <2>6. c.kind \in Kind
    BY <2>3 DEF Kind
  <2> QED BY <2>1, <2>2, <2>3, <2>4, <2>5, <2>6, WriteStarts
<1>3. ASSUME NEW b \in Buf, NEW file \in Texts(MaxWrite), buffer_load(b, file)
      PROVE  BufferInv'
  <2>1. file \in Seq(Byte) /\ Len(file) \in Nat
    BY <1>3, TextsType, BufferAssumption
  <2>2. call = <<>> /\ UNCHANGED <<blocks, used, text>>
    BY <1>3 DEF buffer_load, Room
  <2>3. CASE UNCHANGED call
    BY <2>2, <2>3, Stutter DEF vars
  <2>4. CASE call' = Call(Writing(b, <<>>), "load", b, Len(file), file)
    <3> DEFINE c == [write |-> Writing(b, <<>>), kind |-> "load", src |-> b,
                     left |-> Len(file), source |-> file]
    <3>1. /\ call' = <<c>> /\ c.write = Writing(b, <<>>) /\ c.kind = "load" /\ c.src = b
          /\ c.left = Len(file) /\ c.source = file /\ c.write.to = b /\ c.write.left = <<>>
          /\ c = [write |-> c.write, kind |-> c.kind, src |-> c.src, left |-> c.left, source |-> c.source]
      BY <2>4 DEF Call, Writing
    <3> HIDE DEF c
    <3>2. 0 = Len(c.source) - c.left - Len(c.write.left) /\ c.left \in Nat
      BY <2>1, <3>1
    <3>3. c.kind \in Kind /\ c.kind # "append"
      BY <3>1 DEF Kind
    <3>4. <<>> \in Seq(Byte)
      OBVIOUS
    <3>5. c.write = Writing(c.write.to, c.write.left) /\ c.write.to \in Buf
          /\ c.write.left \in Seq(Byte) /\ c.src \in Buf /\ c.source \in Seq(Byte)
      BY <2>1, <3>1, <3>4
    <3>6. \A i \in 1..Len(c.write.left) : c.write.left[i] = c.source[0 + i]
      BY <3>1
    <3>7. 0 \in Nat
      OBVIOUS
    <3> QED BY <2>2, <3>1, <3>2, <3>3, <3>5, <3>6, <3>7, WriteStarts
  <2> QED BY <1>3, <2>3, <2>4 DEF buffer_load
<1>4. ASSUME NEW b \in Buf, NEW s \in Buf, buffer_append(b, s)
      PROVE  BufferInv'
  <2> DEFINE n == Min2(used[s], BLOCK_SIZE)
             source == SubSeq(Memory(s), 1, used[s])
             bytes == SubSeq(Memory(s), 1, n)
             c == [write |-> Writing(b, bytes), kind |-> "append", src |-> s,
                   left |-> used[s] - n, source |-> source]
  <2>1. call = <<>> /\ UNCHANGED <<blocks, used, text>> /\ call' = <<c>>
    BY <1>4 DEF buffer_append, Room, Call
  <2>2. /\ used[s] \in Nat /\ n \in Nat /\ n <= used[s]
        /\ Memory(s) \in Seq(Byte \cup {Zero}) /\ used[s] <= Len(Memory(s))
        /\ \A i \in 1..used[s] : Memory(s)[i] \in Byte
    <3>1. /\ Memory(s) \in Seq(Byte \cup {Zero}) /\ Len(Memory(s)) \in Nat
          /\ used[s] \in Nat /\ used[s] < Len(Memory(s))
      BY InUse DEF BufferInv
    <3>2. \A i \in 1..used[s] : Memory(s)[i] \in Byte
      BY <2>1, InUseText
    <3>3. n \in Nat /\ n <= used[s]
      BY <3>1, BufferAssumption DEF Min2
    <3> HIDE DEF n
    <3> QED BY <3>1, <3>2, <3>3
  <2>3. source \in Seq(Byte) /\ Len(source) = used[s] /\ \A i \in 1..used[s] : source[i] = Memory(s)[i]
    BY <2>2, PartFromHead
  <2>4. bytes \in Seq(Byte) /\ Len(bytes) = n /\ \A i \in 1..n : bytes[i] = Memory(s)[i]
    BY <2>2, PartFromHead
  <2> HIDE DEF n, source, bytes
  <2>5. /\ c.write = Writing(b, bytes) /\ c.kind = "append" /\ c.src = s
        /\ c.left = used[s] - n /\ c.source = source /\ c.write.to = b /\ c.write.left = bytes
        /\ c = [write |-> c.write, kind |-> c.kind, src |-> c.src, left |-> c.left, source |-> c.source]
    BY DEF Writing
  <2> HIDE DEF c
  <2>6. 0 = Len(c.source) - c.left - Len(c.write.left) /\ c.left \in Nat
    BY <2>2, <2>3, <2>4, <2>5
  <2>7. \A i \in 1..Len(bytes) : bytes[i] = source[0 + i]
    BY <2>2, <2>3, <2>4
  <2>8. /\ c.write = Writing(c.write.to, c.write.left) /\ c.write.to \in Buf
        /\ c.write.left \in Seq(Byte) /\ c.src \in Buf /\ c.source \in Seq(Byte)
        /\ \A i \in 1..Len(c.write.left) : c.write.left[i] = c.source[0 + i]
    BY <2>3, <2>4, <2>5, <2>7
  <2>10. c.kind \in Kind
    BY <2>5 DEF Kind
  <2>9. /\ Len(c.source) <= used[c.src]
        /\ \A i \in 1..Len(c.source) : Memory(c.src)[i] = c.source[i]
    BY <2>2, <2>3, <2>5
  <2> QED BY <2>1, <2>5, <2>6, <2>8, <2>9, <2>10, WriteStarts
<1>5. ASSUME CopyChunk
      PROVE  BufferInv'
  BY <1>5, ChunkCopied
<1>6. ASSUME NextBlock
      PROVE  BufferInv'
  <2> DEFINE o     == Current
             n     == Min2(o.left, BLOCK_SIZE)
             done  == Len(o.source) - o.left
             bytes == SubSeq(Memory(o.src), done + 1, done + n)
             c     == [write |-> Writing(Write.to, bytes), kind |-> o.kind, src |-> o.src,
                       left |-> o.left - n, source |-> o.source]
  <2>1. /\ call # <<>> /\ Write.left = <<>> /\ o.kind = "append" /\ o.left > 0
        /\ call' = <<c>> /\ UNCHANGED <<blocks, used, text>>
    BY <1>6 DEF NextBlock, Call
  <2>2. /\ o \in CallRecord /\ o.write \in WriteRecord /\ o.write = Write
        /\ Passed(Write.to) = done /\ done \in Nat
        /\ Len(o.source) <= used[o.src]
        /\ \A i \in 1..Len(o.source) : Memory(o.src)[i] = o.source[i]
    <3>1. o \in CallRecord /\ o.write = Write
      BY <2>1 DEF BufferInv, TypeOK, Write
    <3>2. Passed(Write.to) = Len(o.source) - o.left - Len(Write.left) /\ Passed(Write.to) \in Nat
      BY <2>1 DEF BufferInv, WriteInv, Passed
    <3>3. Len(Write.left) = 0 /\ Len(o.source) \in Nat /\ o.left \in Nat
      BY <2>1, <3>1 DEF CallRecord
    <3>4. Passed(Write.to) = done /\ done \in Nat
      BY <3>2, <3>3
    <3> QED BY <2>1, <3>1, <3>4 DEF BufferInv, SourceKept, CallRecord
  <2>3. n \in Nat /\ n <= o.left /\ done + n <= Len(o.source)
    BY <2>2, BufferAssumption DEF CallRecord, Min2
  <2>4. /\ bytes \in Seq(Byte) /\ Len(bytes) = n
        /\ \A i \in 1..n : bytes[i] = o.source[done + i]
    <3>1. /\ o.src \in Buf /\ Memory(o.src) \in Seq(Byte \cup {Zero})
          /\ used[o.src] \in Nat /\ used[o.src] < Len(Memory(o.src)) /\ Len(Memory(o.src)) \in Nat
      BY <2>2, InUse DEF BufferInv, CallRecord
    <3>2. Len(o.source) \in Nat /\ o.source \in Seq(Byte)
      BY <2>2 DEF CallRecord
    <3>3. done + n <= Len(Memory(o.src))
      BY <2>2, <2>3, <3>1, <3>2
    <3>4. \A i \in 1..n : done + i \in 1..Len(o.source)
      BY <2>2, <2>3, <3>2
    <3>5. /\ Len(bytes) = n
          /\ \A i \in 1..n : bytes[i] = Memory(o.src)[done + i]
          /\ (\A i \in 1..n : Memory(o.src)[done + i] \in Byte) => bytes \in Seq(Byte)
      <4> DEFINE m == Memory(o.src)
                 j == done
                 k == n
      <4>1. m \in Seq(Byte \cup {Zero}) /\ j \in Nat /\ k \in Nat /\ j + k <= Len(m)
        BY <2>2, <2>3, <3>1, <3>3
      <4>2. bytes = SubSeq(m, j + 1, j + k)
        OBVIOUS
      <4> HIDE DEF m, j, k, bytes
      <4>3. /\ Len(SubSeq(m, j + 1, j + k)) = k
            /\ \A i \in 1..k : SubSeq(m, j + 1, j + k)[i] = m[j + i]
            /\ \A T : (\A i \in 1..k : m[j + i] \in T) => SubSeq(m, j + 1, j + k) \in Seq(T)
        BY <4>1, PartOf
      <4> QED BY <4>2, <4>3 DEF m, j, k
    <3>6. \A i \in 1..n : Memory(o.src)[done + i] = o.source[done + i] /\ o.source[done + i] \in Byte
      <4> HIDE DEF n, done
      <4> QED BY <2>2, <3>2, <3>4
    <3> HIDE DEF n, done, bytes
    <3> QED BY <3>5, <3>6
  <2> HIDE DEF n, done, bytes
  <2>5. /\ c.write = Writing(Write.to, bytes) /\ c.kind = o.kind /\ c.src = o.src
        /\ c.left = o.left - n /\ c.source = o.source /\ c.write.to = Write.to /\ c.write.left = bytes
        /\ c = [write |-> c.write, kind |-> c.kind, src |-> c.src, left |-> c.left, source |-> c.source]
    BY DEF Writing
  <2> HIDE DEF c
  <2>6. /\ Write.to \in Buf /\ o.kind \in Kind /\ o.src \in Buf
        /\ o.left \in Nat /\ o.source \in Seq(Byte)
    BY <2>2 DEF CallRecord, WriteRecord
  <2>7. c.left \in Nat /\ done = Len(c.source) - c.left - Len(c.write.left)
    BY <2>2, <2>3, <2>4, <2>5, <2>6 DEF done
  <2>8. /\ c.write = Writing(c.write.to, c.write.left) /\ c.write.to \in Buf
        /\ c.write.left \in Seq(Byte) /\ c.kind \in Kind
        /\ c.src \in Buf /\ c.source \in Seq(Byte)
        /\ \A i \in 1..Len(c.write.left) : c.write.left[i] = c.source[done + i]
    BY <2>2, <2>4, <2>5, <2>6
  <2>9. /\ Len(c.source) <= used[c.src]
        /\ \A i \in 1..Len(c.source) : Memory(c.src)[i] = c.source[i]
    BY <2>2, <2>5
  <2> QED BY <2>1, <2>2, <2>5, <2>7, <2>8, <2>9, WriteStarts
<1>7. ASSUME NextRead
      PROVE  BufferInv'
  <2> DEFINE o    == Current
             done == Len(o.source) - o.left
             rest == Pending(o)
  <2>1. /\ call # <<>> /\ Write.left = <<>> /\ o.left > 0 /\ o.kind = "load"
        /\ UNCHANGED <<blocks, used, text>>
    BY <1>7 DEF NextRead
  <2>2. PICK n \in 1..Min2(o.left, BLOCK_SIZE) :
          call' = <<[write |-> Writing(Write.to, SubSeq(rest, 1, n)), kind |-> o.kind,
                     src |-> o.src, left |-> o.left - n, source |-> o.source]>>
    BY <1>7 DEF NextRead, Call
  <2>3. /\ o \in CallRecord /\ o.write \in WriteRecord /\ o.write = Write
        /\ Passed(Write.to) = done /\ done \in Nat
    <3>1. o \in CallRecord /\ o.write = Write
      BY <2>1 DEF BufferInv, TypeOK, Write
    <3>2. Passed(Write.to) = Len(o.source) - o.left - Len(Write.left) /\ Passed(Write.to) \in Nat
      BY <2>1 DEF BufferInv, WriteInv, Passed
    <3>3. Len(Write.left) = 0 /\ Len(o.source) \in Nat /\ o.left \in Nat
      BY <2>1, <3>1 DEF CallRecord
    <3> QED BY <2>1, <3>1, <3>2, <3>3 DEF CallRecord
  <2>4. o.left \in Nat /\ Len(o.source) \in Nat /\ o.source \in Seq(Byte) /\ n \in 1..o.left
    BY <2>3, BufferAssumption DEF CallRecord, Min2
  <2> DEFINE bytes == SubSeq(rest, 1, n)
             c     == [write |-> Writing(Write.to, bytes), kind |-> o.kind, src |-> o.src,
                       left |-> o.left - n, source |-> o.source]
  <2>5. bytes \in Seq(Byte) /\ Len(bytes) = n /\ \A i \in 1..n : bytes[i] = o.source[done + i]
    <3>1. done < Len(o.source) /\ Len(o.source) - done = o.left
      BY <2>1, <2>3, <2>4
    <3>2. rest = SubSeq(o.source, done + 1, Len(o.source))
      BY DEF Pending
    <3> HIDE DEF done
    <3>3. /\ rest \in Seq(Byte) /\ Len(rest) = o.left
          /\ \A i \in 1..o.left : rest[i] = o.source[done + i]
      BY <2>3, <2>4, <3>1, <3>2
    <3> HIDE DEF rest
    <3>4. n \in Nat /\ n <= Len(rest) /\ \A i \in 1..n : i \in 1..o.left /\ rest[i] \in Byte
      BY <2>4, <3>3
    <3> QED BY <3>3, <3>4, PartFromHead
  <2> HIDE DEF done, bytes, rest
  <2>6. /\ c.write = Writing(Write.to, bytes) /\ c.kind = o.kind /\ c.src = o.src
        /\ c.left = o.left - n /\ c.source = o.source /\ c.write.to = Write.to /\ c.write.left = bytes
        /\ c = [write |-> c.write, kind |-> c.kind, src |-> c.src, left |-> c.left, source |-> c.source]
    BY DEF Writing
  <2>7. call' = <<c>>
    BY <2>2 DEF bytes, rest
  <2> HIDE DEF c
  <2>8. c.left \in Nat /\ done = Len(c.source) - c.left - Len(c.write.left)
    BY <2>3, <2>4, <2>5, <2>6 DEF done
  <2>9. /\ c.write = Writing(c.write.to, c.write.left) /\ c.write.to \in Buf
        /\ c.write.left \in Seq(Byte) /\ c.kind \in Kind /\ c.kind # "append"
        /\ c.src \in Buf /\ c.source \in Seq(Byte)
        /\ \A i \in 1..Len(c.write.left) : c.write.left[i] = c.source[done + i]
    BY <2>1, <2>3, <2>5, <2>6 DEF CallRecord, WriteRecord
  <2> QED BY <2>1, <2>3, <2>6, <2>7, <2>8, <2>9, WriteStarts
<1>8. ASSUME Return
      PROVE  BufferInv'
  <2> DEFINE o == Current
  <2>1. /\ call # <<>> /\ Write.left = <<>> /\ o.left = 0 /\ call' = <<>>
        /\ text' = [text EXCEPT ![Write.to] = @ \o o.source]
        /\ UNCHANGED <<blocks, used>>
    BY <1>8 DEF Return
  <2>2. Write.to \in Buf /\ o.source \in Seq(Byte)
    BY <2>1 DEF BufferInv, TypeOK, Write, CallRecord, WriteRecord
  <2>3. TypeOK'
    BY <2>1, <2>2 DEF BufferInv, TypeOK
  <2>4. TailHasRoom'
    BY <2>1 DEF BufferInv, TailHasRoom
  <2>5. Passed(Write.to) = Len(o.source) /\ Len(o.source) \in Nat
    <3>1. Passed(Write.to) = Len(o.source) - o.left - Len(Write.left)
      BY <2>1 DEF Passed
    <3>2. Len(Write.left) = 0 /\ Len(o.source) \in Nat
      BY <2>1, <2>2
    <3> QED BY <2>1, <3>1, <3>2
  <2>6. ASSUME NEW d \in Buf
        PROVE  /\ used[d] = Len(text'[d])
               /\ \A i \in 1..used[d] : Memory(d)[i] = text'[d][i] /\ i <= Len(text'[d])
    <3>1. /\ text[d] \in Seq(Byte) /\ Len(text[d]) \in Nat /\ used[d] = Len(text[d]) + Passed(d)
          /\ \A i \in 1..used[d] :
               Memory(d)[i] = IF i <= Len(text[d]) THEN text[d][i] ELSE o.source[i - Len(text[d])]
      BY DEF BufferInv, TypeOK, Written
    <3>2. CASE d = Write.to
      <4>1. text'[d] = text[d] \o o.source
        BY <2>1, <2>2, <3>2 DEF BufferInv, TypeOK
      <4>2. /\ Len(text'[d]) = Len(text[d]) + Len(o.source)
            /\ \A i \in 1..(Len(text[d]) + Len(o.source)) :
                 text'[d][i] = IF i <= Len(text[d]) THEN text[d][i] ELSE o.source[i - Len(text[d])]
        <5> DEFINE s == text[d]
                   t == o.source
        <5>1. s \in Seq(Byte) /\ t \in Seq(Byte) /\ text'[d] = s \o t
          BY <2>2, <3>1, <4>1
        <5> HIDE DEF s, t
        <5>2. /\ Len(text'[d]) = Len(s) + Len(t)
              /\ \A i \in 1..(Len(s) + Len(t)) :
                   text'[d][i] = IF i <= Len(s) THEN s[i] ELSE t[i - Len(s)]
          BY <5>1, Joined
        <5> QED BY <5>2 DEF s, t
      <4>3. used[d] = Len(text[d]) + Len(o.source)
        BY <2>5, <3>1, <3>2
      <4>4. \A i \in 1..used[d] : i \in 1..(Len(text[d]) + Len(o.source))
                                  /\ i <= Len(text[d]) + Len(o.source)
        <5> DEFINE p == Len(text[d])
                   q == Len(o.source)
        <5>1. p \in Nat /\ q \in Nat /\ used[d] = p + q
          BY <2>5, <3>1, <4>3
        <5> HIDE DEF p, q
        <5>2. \A i \in 1..used[d] : i \in 1..(p + q) /\ i <= p + q
          BY <5>1
        <5> QED BY <5>2 DEF p, q
      <4> HIDE DEF o
      <4> QED BY <3>1, <4>2, <4>3, <4>4
    <3>3. CASE d # Write.to
      <4>1. text'[d] = text[d] /\ Passed(d) = 0
        BY <2>1, <3>3 DEF BufferInv, TypeOK, Passed
      <4> QED BY <3>1, <4>1
    <3> QED BY <3>2, <3>3
  <2>7. \A d \in Buf : Memory(d)' = Memory(d) /\ Passed(d)' = 0
    BY <2>1 DEF Memory, Passed
  <2>8. Written'
    <3>1. \A d \in Buf : used[d] = Len(text'[d]) + 0
      BY <2>6 DEF BufferInv, TypeOK
    <3>2. \A d \in Buf : \A i \in 1..used[d] :
            Memory(d)[i] = IF i <= Len(text'[d]) THEN text'[d][i] ELSE Current'.source[i - Len(text'[d])]
      BY <2>6
    <3>3. used' = used
      BY <2>1
    <3>4. \A d \in Buf : used[d]' = Len(text'[d]) + Passed(d)'
      BY <2>7, <3>1, <3>3
    <3>5. \A d \in Buf : \A i \in 1..used[d]' :
            Memory(d)'[i] = IF i <= Len(text'[d]) THEN text'[d][i] ELSE Current'.source[i - Len(text'[d])]
      BY <2>7, <3>2, <3>3
    <3> QED BY Zenon, <3>4, <3>5 DEF Written
  <2> QED BY <2>1, <2>3, <2>4, <2>8 DEF BufferInv, WriteInv, SourceKept
<1>9. ASSUME ReadFails
      PROVE  BufferInv'
  <2> DEFINE o == Current
             c == [o EXCEPT !.kind = "overrun"]
  <2>1. /\ call # <<>> /\ Write.left = <<>> /\ call' = <<c>> /\ UNCHANGED <<blocks, used, text>>
    BY <1>9 DEF ReadFails
  <2>2. o \in CallRecord
    BY <2>1 DEF BufferInv, TypeOK
  <2>3. /\ c \in CallRecord /\ c.write = o.write /\ c.left = o.left /\ c.source = o.source
        /\ c.kind = "overrun"
    BY <2>2 DEF CallRecord, Kind
  <2> HIDE DEF c
  <2>4. call' # <<>> /\ Current' = c /\ Write' = Write
    BY <2>1, <2>3 DEF Current, Write
  <2>5. TypeOK'
    BY <2>1, <2>3, <2>4 DEF BufferInv, TypeOK
  <2>6. TailHasRoom'
    BY <2>1, <2>4 DEF BufferInv, TailHasRoom
  <2>7. \A d \in Buf : Memory(d)' = Memory(d) /\ Passed(d)' = Passed(d)
    BY <2>1, <2>3, <2>4 DEF Memory, Passed
  <2>8. Written'
    BY <2>1, <2>3, <2>4, <2>7 DEF BufferInv, Written
  <2>9. WriteInv'
    BY <2>1, <2>3, <2>4 DEF BufferInv, WriteInv, Passed
  <2>10. SourceKept'
    BY <2>3, <2>4 DEF SourceKept
  <2> QED BY <2>5, <2>6, <2>8, <2>9, <2>10 DEF BufferInv
<1>10. CASE UNCHANGED vars
  BY <1>10, Stutter
<1> QED BY <1>1, <1>2, <1>3, <1>4, <1>5, <1>6, <1>7, <1>8, <1>9, <1>10 DEF Next, Running, Lost

\* The invariant holds at every step: the list of blocks, the bytes in use and
\* what a call has still to write agree.
THEOREM Invariance == Spec => []BufferInv
BY InitInv, NextInv, PTL DEF Spec

(***************************************************************************)
(* What follows from it.                                                   *)
(***************************************************************************)

\* A buffer reads back what was written to it, for every size of a block.
THEOREM ReadBack == Spec => []ReadsBack
<1>1. BufferInv => ReadsBack
  <2> SUFFICES ASSUME BufferInv, call = <<>>, NEW b \in Buf
               PROVE  buffer_size(b) = Len(text[b]) /\ buffer_read(b, buffer_size(b)) = text[b]
    BY DEF ReadsBack
  <2>1. used[b] = Len(text[b]) /\ \A i \in 1..used[b] : Memory(b)[i] = text[b][i] /\ text[b][i] \in Byte
    BY InUseText
  <2>2. /\ Memory(b) \in Seq(Byte \cup {Zero}) /\ Len(Memory(b)) \in Nat
        /\ used[b] \in Nat /\ used[b] < Len(Memory(b)) /\ text[b] \in Seq(Byte)
    BY InUse DEF BufferInv, TypeOK
  <2>3. Min2(used[b], Len(Memory(b))) = used[b]
    BY <2>2 DEF Min2
  <2>4. SubSeq(Memory(b), 1, used[b]) = text[b]
    <3>1. /\ SubSeq(Memory(b), 1, used[b]) \in Seq(Byte) /\ Len(SubSeq(Memory(b), 1, used[b])) = used[b]
          /\ \A i \in 1..used[b] : SubSeq(Memory(b), 1, used[b])[i] = Memory(b)[i]
      BY <2>1, <2>2, PartFromHead
    <3> HIDE DEF Memory
    <3> QED BY <2>1, <2>2, <3>1
  <2> QED BY <2>1, <2>3, <2>4 DEF buffer_size, buffer_read
<1> QED BY <1>1, Invariance, PTL

\* No memcpy of buffer_write runs past the end of its block, and the block a
\* write starts in always exists.
THEOREM RoomInTail == Spec => []TailHasRoom
<1>1. BufferInv => TailHasRoom
  BY DEF BufferInv
<1> QED BY <1>1, Invariance, PTL

\* A step of any call leaves the bytes in use as they are.
THEOREM AppendOnly == Spec => OnlyAppends
<1>1. BufferInv /\ [Next]_vars =>
        [\A b \in Buf : used'[b] # 0 =>
           SubSeq(Bytes(blocks'[b]), 1, used[b]) = SubSeq(Memory(b), 1, used[b])]_vars
  <2> SUFFICES ASSUME BufferInv, Next, NEW b \in Buf, used'[b] # 0
               PROVE  SubSeq(Bytes(blocks'[b]), 1, used[b]) = SubSeq(Memory(b), 1, used[b])
    OBVIOUS
  <2>1. CASE UNCHANGED blocks
    BY <2>1 DEF Memory
  <2>2. ASSUME NEW d \in Buf, buffer_reset(d)
        PROVE  blocks'[b] = blocks[b]
    BY <2>2 DEF buffer_reset, BufferInv, TypeOK
  <2>3. CASE CopyChunk
    <3>1. BufferInv' /\ used'[b] >= used[b] /\ \A i \in 1..used[b] : Bytes(blocks'[b])[i] = Memory(b)[i]
      BY <2>3, ChunkCopied
    <3>2. /\ Memory(b) \in Seq(Byte \cup {Zero}) /\ Len(Memory(b)) \in Nat
          /\ used[b] \in Nat /\ used[b] < Len(Memory(b))
      BY InUse DEF BufferInv
    <3>3. /\ Bytes(blocks'[b]) \in Seq(Byte \cup {Zero})
          /\ Len(Bytes(blocks'[b])) = Len(blocks'[b]) * BLOCK_SIZE
      BY <3>1, BytesType DEF BufferInv, TypeOK
    <3>4. used'[b] \in Nat /\ used'[b] < Len(blocks'[b]) * BLOCK_SIZE
      <4>1. /\ Len(blocks'[b]) = used'[b] \div BLOCK_SIZE + 1 /\ used'[b] \in Nat
            /\ blocks'[b] \in Seq(Block)
        BY <3>1 DEF BufferInv, TypeOK, TailHasRoom
      <4> QED BY <4>1, TailEnd
    <3> DEFINE m == Memory(b)
               k == Bytes(blocks'[b])
               u == used[b]
    <3>5. m \in Seq(Byte \cup {Zero}) /\ k \in Seq(Byte \cup {Zero}) /\ u \in Nat
          /\ u <= Len(m) /\ u <= Len(k) /\ \A i \in 1..u : k[i] = m[i]
      BY <3>1, <3>2, <3>3, <3>4
    <3> HIDE DEF m, k, u
    <3>6. SubSeq(k, 1, u) = SubSeq(m, 1, u)
      BY <3>5
    <3> QED BY <3>6 DEF m, k, u
  <2>4. CASE NextBlock \/ NextRead \/ ReadFails \/ Return \/ Lost
    BY <2>4, <2>1 DEF NextBlock, NextRead, ReadFails, Return, Lost, vars
  <2>5. ASSUME NEW d \in Buf, NEW e \in Buf, buffer_append(d, e)
        PROVE  UNCHANGED blocks
    BY <2>5 DEF buffer_append
  <2> QED BY <2>1, <2>2, <2>3, <2>4, <2>5 DEF Next, Running, buffer_write, buffer_load, Memory
<1> QED BY <1>1, Invariance, PTL DEF Spec, OnlyAppends
=============================================================================
