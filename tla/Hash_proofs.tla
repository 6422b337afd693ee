---------------------------- MODULE Hash_proofs ----------------------------
(***************************************************************************)
(* What is proved of the hash tables: whatever is set, erased, duplicated  *)
(* and dropped, for any hash function and any size of a new table.         *)
(*                                                                         *)
(* An array is known by the set of its bindings: as long as it is sound, a *)
(* lookup finds in one chain what the set says, and every operator on      *)
(* arrays is known by what it does to the set.                             *)
(***************************************************************************)
EXTENDS Hash, FiniteSetTheorems, NaturalsInduction, WellFoundedInduction, Integers, TLAPS

ArrayOf(size) == [0..(size - 1) -> Seq(Binding)]

LEMMA IndexInRange ==
  ASSUME NEW k \in Key, NEW size \in Nat \ {0}
  PROVE  Index(k, size) \in 0..(size - 1)
<1> DEFINE h == calc_hash[k]
<1>1. h \in Nat
  BY HashAssumption
<1> HIDE DEF h
<1>2. h % size \in 0..(size - 1)
  BY <1>1
<1> QED
  BY <1>2 DEF Index, h

LEMMA Sizes ==
  ASSUME NEW size \in Nat \ {0}, NEW b \in ArrayOf(size)
  PROVE  DOMAIN b = 0..(size - 1) /\ Cardinality(DOMAIN b) = size
<1>1. DOMAIN b = 0..(size - 1)
  BY DEF ArrayOf
<1>2. Cardinality(0..(size - 1)) = size
  BY FS_Interval
<1> QED
  BY <1>1, <1>2

\* The values of a function on a finite set.
LEMMA Image ==
  ASSUME NEW S, IsFiniteSet(S), NEW f, f = [x \in S |-> f[x]]
  PROVE  LET T == {f[x] : x \in S}
         IN  /\ IsFiniteSet(T) /\ Cardinality(T) <= Cardinality(S)
             /\ (\A x, y \in S : f[x] = f[y] => x = y) => Cardinality(T) = Cardinality(S)
<1> DEFINE T == {f[x] : x \in S}
<1>1. f \in [S -> T] /\ f \in Surjection(S, T)
  BY DEF Surjection
<1>2. ASSUME \A x, y \in S : f[x] = f[y] => x = y PROVE f \in Injection(S, T)
  BY <1>1, <1>2 DEF Injection, IsInjective
<1> HIDE DEF T
<1>3. /\ IsFiniteSet(T) /\ Cardinality(T) <= Cardinality(S)
      /\ Cardinality(T) = Cardinality(S) <=> f \in Injection(S, T)
  BY <1>1, FS_Surjection
<1> QED
  BY <1>2, <1>3 DEF T

LEMMA NodesOf ==
  ASSUME NEW size \in Nat \ {0}, NEW b \in ArrayOf(size)
  PROVE  /\ \A x \in Nodes(b) : /\ x \in Nat \X Nat /\ x = <<x[1], x[2]>>
                                /\ x[1] \in 0..(size - 1) /\ x[2] \in 1..Len(b[x[1]])
                                /\ At(b, x) = b[x[1]][x[2]] /\ At(b, x) \in Binding
         /\ \A i \in 0..(size - 1), p \in Nat :
              <<i, p>> \in Nodes(b) <=> p \in 1..Len(b[i])
         /\ IsFiniteSet(Nodes(b))
<1>1. DOMAIN b = 0..(size - 1) /\ \A i \in 0..(size - 1) : b[i] \in Seq(Binding)
  BY DEF ArrayOf
<1>2. \A i \in 0..(size - 1) : Len(b[i]) \in Nat /\ DOMAIN b[i] = 1..Len(b[i])
                               /\ \A p \in 1..Len(b[i]) : b[i][p] \in Binding
  BY <1>1
<1>3. ASSUME NEW x \in Nodes(b)
      PROVE  /\ x \in Nat \X Nat /\ x = <<x[1], x[2]>>
             /\ x[1] \in 0..(size - 1) /\ x[2] \in 1..Len(b[x[1]])
             /\ At(b, x) = b[x[1]][x[2]] /\ At(b, x) \in Binding
  <2>1. PICK i \in 0..(size - 1) : x \in {i} \X DOMAIN b[i]
    BY <1>1 DEF Nodes
  <2>2. PICK p \in 1..Len(b[i]) : x = <<i, p>>
    BY <1>2, <2>1
  <2> QED
    BY <1>2, <2>2 DEF At
<1>4. ASSUME NEW i \in 0..(size - 1), NEW p \in Nat
      PROVE  <<i, p>> \in Nodes(b) <=> p \in 1..Len(b[i])
  BY <1>1, <1>2 DEF Nodes
<1>5. IsFiniteSet(Nodes(b))
  <2> DEFINE f == [i \in 0..(size - 1) |-> {i} \X DOMAIN b[i]]
  <2>1. IsFiniteSet(0..(size - 1))
    BY FS_Interval
  <2>2. IsFiniteSet({f[i] : i \in 0..(size - 1)})
    <3>1. f = [i \in 0..(size - 1) |-> f[i]]
      OBVIOUS
    <3> HIDE DEF f
    <3> QED
      BY <2>1, <3>1, Image
  <2>3. ASSUME NEW i \in 0..(size - 1) PROVE IsFiniteSet(f[i])
    <3>1. IsFiniteSet(1..Len(b[i]))
      <4> DEFINE n == Len(b[i])
      <4>1. n \in Int /\ 1 \in Int
        BY <1>2
      <4> HIDE DEF n
      <4> QED
        BY <4>1, FS_Interval DEF n
    <3>2. IsFiniteSet({i} \X (1..Len(b[i])))
      BY <3>1, FS_Singleton, FS_Product
    <3> QED
      BY <1>2, <3>2
  <2>4. IsFiniteSet(UNION {f[i] : i \in 0..(size - 1)})
    <3> HIDE DEF f
    <3> QED
      BY <2>2, <2>3, FS_UNION
  <2>5. Nodes(b) = UNION {f[i] : i \in 0..(size - 1)}
    BY <1>1 DEF Nodes
  <2> QED
    BY <2>4, <2>5
<1> QED
  BY <1>3, <1>4, <1>5

-----------------------------------------------------------------------------
(***************************************************************************)
(* Arrays as sets of bindings.                                             *)
(***************************************************************************)

\* The nodes in their order: each stands at the place that the number of the
\* nodes after it tells.
LEMMA LastFirstOrders ==
  ASSUME NEW S \in SUBSET (Nat \X Nat), IsFiniteSet(S)
  PROVE  /\ LastFirst(S) \in [1..Cardinality(S) -> S] /\ Cardinality(S) \in Nat
         /\ \A n, m \in 1..Cardinality(S) : LastFirst(S)[n] = LastFirst(S)[m] => n = m
         /\ \A x \in S : \E n \in 1..Cardinality(S) : LastFirst(S)[n] = x
<1> DEFINE N == Cardinality(S)
           rank == [x \in S |-> Cardinality(After(x, S))]
           L == LastFirst(S)
<1>1. N \in Nat
  BY FS_CardinalityType
<1>2. \A x \in S : After(x, S) \in SUBSET (S \ {x})
  BY DEF After
<1>3. ASSUME NEW x \in S PROVE rank[x] \in 0..(N - 1)
  <2>1. IsFiniteSet(S \ {x}) /\ Cardinality(S \ {x}) = N - 1
    BY <1>3, FS_RemoveElement
  <2>2. Cardinality(After(x, S)) \in Nat /\ Cardinality(After(x, S)) <= N - 1
    BY <1>2, <2>1, FS_Subset, FS_CardinalityType
  <2> QED
    BY <1>1, <2>2
<1>4. ASSUME NEW x \in S, NEW y \in S, y \in After(x, S) PROVE rank[y] < rank[x]
  <2>1. After(y, S) \in SUBSET (After(x, S) \ {y})
    BY <1>4 DEF After
  <2>2. IsFiniteSet(After(x, S))
    BY <1>2, FS_Subset
  <2>3. IsFiniteSet(After(x, S) \ {y}) /\ Cardinality(After(x, S) \ {y}) = rank[x] - 1
    BY <1>4, <2>2, FS_RemoveElement
  <2>4. rank[y] <= rank[x] - 1
    BY <2>1, <2>3, FS_Subset
  <2> HIDE DEF rank
  <2> QED
    BY <1>3, <2>4
<1>5. ASSUME NEW x \in S, NEW y \in S, x # y PROVE rank[x] # rank[y]
  <2>1. y \in After(x, S) \/ x \in After(y, S)
    BY <1>5 DEF After
  <2> HIDE DEF rank
  <2> QED
    BY <1>3, <1>4, <2>1
<1>6. \A i \in 0..(N - 1) : \E x \in S : rank[x] = i
  <2> DEFINE T == 0..(N - 1)
  <2>1. IsFiniteSet(T) /\ Cardinality(T) = N
    <3> DEFINE m == N - 1
    <3>1. 0 \in Int /\ m \in Int /\ m - 0 + 1 = N /\ (0 > m => N = 0)
      BY <1>1
    <3>2. IsFiniteSet(0..m) /\ Cardinality(0..m) = IF 0 > m THEN 0 ELSE m - 0 + 1
      <4> HIDE DEF m
      <4> QED
        BY <3>1, FS_Interval
    <3> QED
      BY <3>1, <3>2
  <2>2. rank \in [S -> T]
    BY <1>3
  <2>3. rank \in Injection(S, T)
    <3> HIDE DEF rank, T
    <3> QED
      BY <1>5, <2>2 DEF Injection, IsInjective
  <2> HIDE DEF rank, T
  <2>4. rank \in Surjection(S, T)
    BY <2>1, <2>3, FS_Injection
  <2> QED
    BY <2>4 DEF Surjection, T
<1>7. ASSUME NEW n \in 1..N PROVE L[n] \in S /\ rank[L[n]] = n - 1
  <2>1. L[n] = CHOOSE x \in S : Cardinality(After(x, S)) = n - 1
    BY DEF LastFirst
  <2>2. n - 1 \in 0..(N - 1)
    BY <1>1
  <2>3. \E x \in S : Cardinality(After(x, S)) = n - 1
    BY <1>6, <2>2
  <2> QED
    BY <2>1, <2>3
<1>8. L \in [1..N -> S]
  BY <1>7 DEF LastFirst
<1> HIDE DEF L, rank
<1>9. \A n, m \in 1..N : L[n] = L[m] => n = m
  BY <1>1, <1>7
<1>10. ASSUME NEW x \in S PROVE \E n \in 1..N : L[n] = x
  <2> DEFINE n == rank[x] + 1
  <2>1. n \in 1..N /\ n - 1 = rank[x]
    BY <1>1, <1>3
  <2> HIDE DEF n
  <2>2. L[n] \in S /\ rank[L[n]] = rank[x]
    BY <1>7, <2>1
  <2> QED
    BY <1>5, <2>1, <2>2
<1> QED
  BY <1>1, <1>8, <1>9, <1>10 DEF L

\* In a sound array there are as many nodes as bindings.
LEMMA Counted ==
  ASSUME NEW size \in Nat \ {0}, NEW b \in ArrayOf(size), Sound(b)
  PROVE  /\ Bindings(b) \in SUBSET Binding
         /\ IsFiniteSet(Bindings(b)) /\ Cardinality(Nodes(b)) = Cardinality(Bindings(b))
         /\ Cardinality(Nodes(b)) \in Nat
         /\ \A e, f \in Bindings(b) : e.key = f.key => e = f
<1> DEFINE f == [x \in Nodes(b) |-> At(b, x)]
<1>1. IsFiniteSet(Nodes(b))
  BY NodesOf
<1>2. f = [x \in Nodes(b) |-> f[x]]
  OBVIOUS
<1>3. \A x, y \in Nodes(b) : f[x] = f[y] => x = y
  BY DEF Sound
<1>4. Bindings(b) = {f[x] : x \in Nodes(b)}
  BY DEF Bindings
<1> HIDE DEF f
<1>5. IsFiniteSet(Bindings(b)) /\ Cardinality(Nodes(b)) = Cardinality(Bindings(b))
  BY <1>1, <1>2, <1>3, <1>4, Image
<1>6. Cardinality(Nodes(b)) \in Nat
  BY <1>1, FS_CardinalityType
<1>7. Bindings(b) \in SUBSET Binding
  BY NodesOf DEF Bindings
<1>8. \A g, h \in Bindings(b) : g.key = h.key => g = h
  BY DEF Bindings, Sound
<1> QED
  BY <1>5, <1>6, <1>7, <1>8

\* A key is at one position of its chain, or at none.
LEMMA PositionFinds ==
  ASSUME NEW size \in Nat \ {0}, NEW b \in ArrayOf(size), Sound(b), NEW k \in Key
  PROVE  LET i == Index(k, size)
             c == b[i]
             p == Position(k, c)
         IN  /\ i \in 0..(size - 1) /\ c \in Seq(Binding)
             /\ \/ p = 0 /\ \A n \in 1..Len(c) : c[n].key # k
                \/ p \in 1..Len(c) /\ \A n \in 1..Len(c) : c[n].key = k <=> n = p
<1> DEFINE i == Index(k, size)
           c == b[i]
           I == {n \in 1..Len(c) : c[n].key = k}
           p == Position(k, c)
<1>1. i \in 0..(size - 1)
  BY IndexInRange
<1>2. c \in Seq(Binding)
  BY <1>1 DEF ArrayOf
<1>3. p = IF I # {} THEN CHOOSE x \in I : \A y \in I : x <= y ELSE 0
  BY DEF Position, SelectInSeq, Min
<1> HIDE DEF i, p
<1>4. \A n \in 1..Len(c) : <<i, n>> \in Nodes(b) /\ At(b, <<i, n>>) = c[n]
  BY <1>1, NodesOf DEF At
<1>5. ASSUME NEW n \in I PROVE p = n /\ I = {n}
  <2>1. ASSUME NEW m \in I PROVE m = n
    <3> DEFINE x == <<i, m>>
               y == <<i, n>>
    <3>1. x \in Nodes(b) /\ y \in Nodes(b) /\ At(b, x).key = At(b, y).key
      BY <1>4, <1>5, <2>1
    <3>2. x = y
      <4> HIDE DEF x, y
      <4> QED
        BY <3>1 DEF Sound
    <3> QED
      BY <3>2
  <2>2. I = {n}
    BY <1>5, <2>1
  <2>3. n <= n
    BY <1>2
  <2> QED
    BY <1>3, <2>2, <2>3
<1>6. CASE I = {}
  BY <1>1, <1>2, <1>3, <1>6 DEF i, p
<1>7. CASE I # {}
  <2>1. PICK n \in I : TRUE
    BY <1>7
  <2>2. p = n /\ I = {n}
    BY <1>5, <2>1
  <2>3. p \in 1..Len(c) /\ \A m \in 1..Len(c) : c[m].key = k <=> m = p
    BY <2>1, <2>2
  <2> QED
    BY <1>1, <1>2, <2>3 DEF i, p
<1> QED
  BY <1>6, <1>7

\* A lookup in a sound array finds what is bound, and nothing else.
LEMMA LookupFinds ==
  ASSUME NEW size \in Nat \ {0}, NEW b \in ArrayOf(size), Sound(b), NEW k \in Key
  PROVE  /\ \A e \in Bindings(b) : e.key = k => Lookup(b, k) = e.value
         /\ (\A e \in Bindings(b) : e.key # k) => Lookup(b, k) = Null
<1> DEFINE i == Index(k, size)
           c == b[i]
           p == Position(k, c)
<1>1. /\ i \in 0..(size - 1) /\ c \in Seq(Binding)
      /\ \/ p = 0 /\ \A n \in 1..Len(c) : c[n].key # k
         \/ p \in 1..Len(c) /\ \A n \in 1..Len(c) : c[n].key = k <=> n = p
  BY PositionFinds
<1>2. Cardinality(DOMAIN b) = size
  BY Sizes
<1>3. Lookup(b, k) = IF p = 0 THEN Null ELSE c[p].value
  BY <1>2 DEF Lookup
<1> HIDE DEF i, p
<1>4. \A n \in 1..Len(c) : <<i, n>> \in Nodes(b) /\ At(b, <<i, n>>) = c[n]
  BY <1>1, NodesOf DEF At
<1>5. ASSUME NEW e \in Bindings(b), e.key = k PROVE Lookup(b, k) = e.value
  <2>1. PICK x \in Nodes(b) : e = At(b, x)
    BY DEF Bindings
  <2>2. x[2] \in 1..Len(b[x[1]]) /\ e = b[x[1]][x[2]] /\ x[1] = i
    BY <1>2, <1>5, <2>1, NodesOf DEF Sound, i
  <2>3. p # 0 /\ c[p] = e
    BY <1>1, <1>5, <2>2
  <2> QED
    BY <1>3, <2>3
<1>6. ASSUME \A e \in Bindings(b) : e.key # k PROVE Lookup(b, k) = Null
  <2>1. \A n \in 1..Len(c) : c[n].key # k
    BY <1>4, <1>6 DEF Bindings
  <2> QED
    BY <1>1, <1>3, <2>1
<1> QED
  BY <1>5, <1>6

\* A chain is replaced by one whose keys belong there and differ.
LEMMA ChainReplaced ==
  ASSUME NEW size \in Nat \ {0}, NEW b \in ArrayOf(size), Sound(b),
         NEW i \in 0..(size - 1), NEW d \in Seq(Binding),
         \A n \in 1..Len(d) : Index(d[n].key, size) = i,
         \A n, m \in 1..Len(d) : d[n].key = d[m].key => n = m
  PROVE  LET r == [b EXCEPT ![i] = d]
         IN  /\ r \in ArrayOf(size) /\ Sound(r)
             /\ \A f : f \in Bindings(r) <=> \/ f \in Bindings(b) /\ Index(f.key, size) # i
                                            \/ \E n \in 1..Len(d) : f = d[n]
<1> DEFINE r == [b EXCEPT ![i] = d]
<1>1. r \in ArrayOf(size) /\ r[i] = d /\ \A j \in 0..(size - 1) \ {i} : r[j] = b[j]
  BY DEF ArrayOf
<1>2. Cardinality(DOMAIN r) = size /\ Cardinality(DOMAIN b) = size
  BY <1>1, Sizes
<1> HIDE DEF r
<1>3. ASSUME NEW x \in Nodes(r), x[1] # i
      PROVE  x \in Nodes(b) /\ At(r, x) = At(b, x)
  <2>1. x = <<x[1], x[2]>> /\ x[1] \in 0..(size - 1) /\ x[2] \in 1..Len(r[x[1]]) /\ x[2] \in Nat
    BY <1>1, NodesOf
  <2>2. r[x[1]] = b[x[1]]
    BY <1>1, <1>3, <2>1
  <2> QED
    BY <2>1, <2>2, NodesOf DEF At
<1>4. ASSUME NEW x \in Nodes(r), x[1] = i
      PROVE  x[2] \in 1..Len(d) /\ At(r, x) = d[x[2]]
  BY <1>1, <1>4, NodesOf
<1>5. ASSUME NEW x \in Nodes(r) PROVE Index(At(r, x).key, size) = x[1]
  BY <1>2, <1>3, <1>4 DEF Sound
<1>6. ASSUME NEW x \in Nodes(r), NEW y \in Nodes(r), At(r, x).key = At(r, y).key
      PROVE  x = y
  <2>1. x[1] = y[1]
    BY <1>5, <1>6
  <2>2. CASE x[1] = i
    <3>1. x[2] = y[2]
      BY <1>4, <1>6, <2>1, <2>2
    <3>2. x = <<x[1], x[2]>> /\ y = <<y[1], y[2]>>
      BY <1>1, NodesOf
    <3> QED
      BY <2>1, <3>1, <3>2
  <2>3. CASE x[1] # i
    BY <1>3, <1>6, <2>1, <2>3 DEF Sound
  <2> QED
    BY <2>2, <2>3
<1>7. Sound(r)
  BY <1>2, <1>5, <1>6 DEF Sound
<1>8. \A e \in Bindings(r) : \/ e \in Bindings(b) /\ Index(e.key, size) # i
                             \/ e \in {d[n] : n \in 1..Len(d)}
  BY <1>3, <1>4, <1>5 DEF Bindings
<1>9. ASSUME NEW e \in Bindings(b), Index(e.key, size) # i PROVE e \in Bindings(r)
  <2>1. PICK x \in Nodes(b) : e = At(b, x)
    BY DEF Bindings
  <2>2. x = <<x[1], x[2]>> /\ x[1] \in 0..(size - 1) \ {i} /\ x[2] \in 1..Len(b[x[1]])
        /\ x[2] \in Nat
    BY <1>2, <1>9, <2>1, NodesOf DEF Sound
  <2>3. x \in Nodes(r) /\ At(r, x) = e
    BY <1>1, <2>1, <2>2, NodesOf DEF At
  <2> QED
    BY <2>3 DEF Bindings
<1>10. ASSUME NEW n \in 1..Len(d) PROVE d[n] \in Bindings(r)
  <2>1. <<i, n>> \in Nodes(r) /\ At(r, <<i, n>>) = d[n]
    BY <1>1, NodesOf DEF At
  <2> QED
    BY <2>1 DEF Bindings
<1>11. \A f : f \in Bindings(r) <=> \/ f \in Bindings(b) /\ Index(f.key, size) # i
                                  \/ \E n \in 1..Len(d) : f = d[n]
  BY <1>8, <1>9, <1>10
<1> QED
  BY <1>1, <1>7, <1>11 DEF r

\* Rehashing keeps the bindings.
LEMMA RehashBinds ==
  ASSUME NEW size \in Nat \ {0}, NEW b \in ArrayOf(size), Sound(b), NEW new \in Nat \ {0}
  PROVE  LET r == Rehash(b, new)
         IN  r \in ArrayOf(new) /\ Sound(r) /\ Bindings(r) = Bindings(b)
<1> DEFINE S == [i \in 0..(new - 1) |-> {x \in Nodes(b) : Index(At(b, x).key, new) = i}]
           chain == [i \in 0..(new - 1) |-> LastFirst(S[i])]
           N == [i \in 0..(new - 1) |-> Cardinality(S[i])]
           r == Rehash(b, new)
<1>1. ASSUME NEW i \in 0..(new - 1)
      PROVE  /\ chain[i] \in [1..N[i] -> S[i]] /\ N[i] \in Nat
             /\ \A n, m \in 1..N[i] : chain[i][n] = chain[i][m] => n = m
             /\ \A x \in S[i] : \E n \in 1..N[i] : chain[i][n] = x
  <2> DEFINE T == S[i]
  <2>1. T \in SUBSET Nodes(b)
    OBVIOUS
  <2>2. T \in SUBSET (Nat \X Nat) /\ IsFiniteSet(T)
    <3> HIDE DEF T
    <3> QED
      BY <2>1, NodesOf, FS_Subset
  <2>3. chain[i] = LastFirst(T) /\ N[i] = Cardinality(T)
    OBVIOUS
  <2> HIDE DEF T, chain, N
  <2>4. /\ LastFirst(T) \in [1..Cardinality(T) -> T] /\ Cardinality(T) \in Nat
        /\ \A n, m \in 1..Cardinality(T) : LastFirst(T)[n] = LastFirst(T)[m] => n = m
        /\ \A x \in T : \E n \in 1..Cardinality(T) : LastFirst(T)[n] = x
    BY <2>2, LastFirstOrders
  <2> QED
    BY SMTT(30), <2>3, <2>4 DEF T
<1>2. \A i \in 0..(new - 1) :
        S[i] \in SUBSET Nodes(b) /\ \A x \in S[i] : Index(At(b, x).key, new) = i
  OBVIOUS
<1>3. \A x \in Nodes(b) : Index(At(b, x).key, new) \in 0..(new - 1)
                          /\ x \in S[Index(At(b, x).key, new)]
  BY NodesOf, IndexInRange DEF Binding
<1>4. /\ r = [i \in 0..(new - 1) |-> r[i]]
      /\ \A i \in 0..(new - 1) : r[i] = [n \in DOMAIN chain[i] |-> At(b, chain[i][n])]
  BY DEF Rehash
<1> HIDE DEF S, chain, N, r
<1>5. ASSUME NEW i \in 0..(new - 1)
      PROVE  r[i] \in Seq(Binding) /\ Len(r[i]) = N[i]
             /\ \A n \in 1..N[i] : chain[i][n] \in Nodes(b) /\ r[i][n] = At(b, chain[i][n])
  <2>1. DOMAIN chain[i] = 1..N[i] /\ N[i] \in Nat
    BY <1>1
  <2>2. \A n \in 1..N[i] : chain[i][n] \in Nodes(b)
    BY <1>1, <1>2
  <2>3. \A n \in 1..N[i] : At(b, chain[i][n]) \in Binding
    BY <2>2, NodesOf
  <2>4. r[i] = [n \in 1..N[i] |-> At(b, chain[i][n])]
    BY <1>4, <2>1
  <2>5. r[i] \in [1..N[i] -> Binding]
    BY <2>3, <2>4
  <2>6. r[i] \in Seq(Binding) /\ Len(r[i]) = N[i]
    BY <2>1, <2>5
  <2> QED
    BY <2>2, <2>4, <2>6
<1>6. r \in ArrayOf(new)
  BY <1>4, <1>5 DEF ArrayOf
<1>7. ASSUME NEW x \in Nodes(r)
      PROVE  /\ x = <<x[1], x[2]>> /\ x[1] \in 0..(new - 1) /\ x[2] \in 1..N[x[1]]
             /\ chain[x[1]][x[2]] \in S[x[1]]
             /\ At(r, x) = At(b, chain[x[1]][x[2]]) /\ Index(At(r, x).key, new) = x[1]
  <2>1. x = <<x[1], x[2]>> /\ x[1] \in 0..(new - 1) /\ x[2] \in 1..Len(r[x[1]])
        /\ At(r, x) = r[x[1]][x[2]]
    BY <1>6, NodesOf
  <2> DEFINE i == x[1]
             n == x[2]
  <2>2. i \in 0..(new - 1) /\ n \in 1..Len(r[i]) /\ At(r, x) = r[i][n]
    BY <2>1
  <2> HIDE DEF i, n
  <2>3. n \in 1..N[i] /\ At(r, x) = At(b, chain[i][n]) /\ chain[i][n] \in S[i]
    BY SMTT(30), <1>1, <1>5, <2>2
  <2> QED
    BY <1>2, <2>1, <2>2, <2>3 DEF i, n
<1>8. ASSUME NEW x \in Nodes(r), NEW y \in Nodes(r), At(r, x).key = At(r, y).key
      PROVE  x = y
  <2>1. x[1] = y[1]
    BY <1>7, <1>8
  <2> DEFINE i == x[1]
             n == x[2]
             m == y[2]
  <2>2. /\ i \in 0..(new - 1) /\ n \in 1..N[i] /\ m \in 1..N[i]
        /\ chain[i][n] \in S[i] /\ chain[i][m] \in S[i]
        /\ At(b, chain[i][n]).key = At(b, chain[i][m]).key
    BY <1>7, <1>8, <2>1
  <2>3. x = <<x[1], n>> /\ y = <<y[1], m>>
    BY <1>7
  <2> HIDE DEF i, n, m
  <2>4. chain[i][n] = chain[i][m]
    BY <1>2, <2>2 DEF Sound
  <2>5. n = m
    BY <1>1, <2>2, <2>4
  <2> QED
    BY <2>1, <2>3, <2>5
<1>9. Sound(r)
  <2>1. Cardinality(DOMAIN r) = new
    BY <1>6, Sizes
  <2> QED
    BY <1>7, <1>8, <2>1 DEF Sound
<1>10. \A e \in Bindings(r) : e \in Bindings(b)
  BY <1>2, <1>7 DEF Bindings
<1>11. ASSUME NEW e \in Bindings(b) PROVE e \in Bindings(r)
  <2>1. PICK x \in Nodes(b) : e = At(b, x)
    BY DEF Bindings
  <2> DEFINE i == Index(At(b, x).key, new)
  <2>2. i \in 0..(new - 1) /\ x \in S[i]
    BY <1>3
  <2> HIDE DEF i
  <2>3. PICK n \in 1..N[i] : chain[i][n] = x
    BY <1>1, <2>2
  <2>4. n \in Nat /\ n \in 1..Len(r[i]) /\ r[i][n] = e
    BY <1>5, <2>1, <2>2, <2>3, SMTT(30)
  <2>5. <<i, n>> \in Nodes(r)
    BY <1>6, <2>2, <2>4, NodesOf
  <2>6. At(r, <<i, n>>) = e
    BY <2>4 DEF At
  <2> QED
    BY <2>5, <2>6 DEF Bindings
<1>12. Bindings(r) = Bindings(b)
  BY <1>10, <1>11
<1> QED
  BY <1>6, <1>9, <1>12 DEF r

\* The bindings in the chain of a key are those of the keys of its index.
LEMMA ChainBinds ==
  ASSUME NEW size \in Nat \ {0}, NEW b \in ArrayOf(size), Sound(b), NEW i \in 0..(size - 1)
  PROVE  /\ b[i] \in Seq(Binding)
         /\ \A n \in 1..Len(b[i]) : b[i][n] \in Bindings(b) /\ Index(b[i][n].key, size) = i
         /\ \A n, m \in 1..Len(b[i]) : b[i][n].key = b[i][m].key => n = m
         /\ \A e \in Bindings(b) : Index(e.key, size) = i => \E n \in 1..Len(b[i]) : e = b[i][n]
<1>1. b[i] \in Seq(Binding) /\ Cardinality(DOMAIN b) = size
  BY Sizes DEF ArrayOf
<1>2. ASSUME NEW n \in 1..Len(b[i])
      PROVE  <<i, n>> \in Nodes(b) /\ At(b, <<i, n>>) = b[i][n]
  <2>1. n \in Nat
    BY <1>1
  <2> QED
    BY <2>1, NodesOf DEF At
<1>3. ASSUME NEW n \in 1..Len(b[i])
      PROVE  b[i][n] \in Bindings(b) /\ Index(b[i][n].key, size) = i
  <2> DEFINE x == <<i, n>>
  <2>1. x \in Nodes(b) /\ At(b, x) = b[i][n] /\ x[1] = i
    BY <1>2
  <2> HIDE DEF x
  <2> QED
    BY <1>1, <2>1 DEF Bindings, Sound
<1>4. ASSUME NEW n \in 1..Len(b[i]), NEW m \in 1..Len(b[i]), b[i][n].key = b[i][m].key
      PROVE  n = m
  <2> DEFINE x == <<i, n>>
             y == <<i, m>>
  <2>1. x \in Nodes(b) /\ y \in Nodes(b) /\ At(b, x) = b[i][n] /\ At(b, y) = b[i][m]
    BY <1>2
  <2>2. x = y
    <3> HIDE DEF x, y
    <3> QED
      BY <1>4, <2>1 DEF Sound
  <2> QED
    BY <2>2
<1>5. ASSUME NEW e \in Bindings(b), Index(e.key, size) = i
      PROVE  \E n \in 1..Len(b[i]) : e = b[i][n]
  <2>1. PICK x \in Nodes(b) : e = At(b, x)
    BY DEF Bindings
  <2>2. x[2] \in 1..Len(b[x[1]]) /\ e = b[x[1]][x[2]] /\ x[1] = i
    BY <1>1, <1>5, <2>1, NodesOf DEF Sound
  <2> QED
    BY <2>2
<1> QED
  BY <1>1, <1>3, <1>4, <1>5

\* What hash_find does for a write: the key is bound to the value and every
\* other binding stays; there is a node more exactly when the key was unbound.
LEMMA InsertBinds ==
  ASSUME NEW size \in Nat \ {0}, NEW b \in ArrayOf(size), Sound(b), NEW k \in Key, NEW v \in Value
  PROVE  LET i == Index(k, size)
             r == Insert(b, i, k, v)
             p == Position(k, b[i])
         IN  /\ r \in ArrayOf(size) /\ Sound(r)
             /\ Bindings(r) = {e \in Bindings(b) : e.key # k} \cup {[key |-> k, value |-> v]}
             /\ p = 0 => \A e \in Bindings(b) : e.key # k
             /\ p # 0 => \E e \in Bindings(b) : e.key = k
<1> DEFINE i == Index(k, size)
           c == b[i]
           p == Position(k, c)
           e == [key |-> k, value |-> v]
           d == IF p = 0 THEN <<e>> \o c ELSE ReplaceAt(c, p, e)
           r == Insert(b, i, k, v)
<1>1. /\ i \in 0..(size - 1) /\ c \in Seq(Binding)
      /\ \/ p = 0 /\ \A n \in 1..Len(c) : c[n].key # k
         \/ p \in 1..Len(c) /\ \A n \in 1..Len(c) : c[n].key = k <=> n = p
  BY PositionFinds
<1>2. e \in Binding /\ e.key = k
  BY DEF Binding
<1>3. r = [b EXCEPT ![i] = d]
  BY DEF Insert
<1>4. Index(k, size) = i
  OBVIOUS
<1> HIDE DEF e, p, d, i, r
<1>5. /\ \A n \in 1..Len(c) : c[n] \in Bindings(b) /\ Index(c[n].key, size) = i
      /\ \A n, m \in 1..Len(c) : c[n].key = c[m].key => n = m
      /\ \A f \in Bindings(b) : Index(f.key, size) = i => \E n \in 1..Len(c) : f = c[n]
  BY <1>1, ChainBinds
<1> HIDE DEF c
<1>6. /\ d \in Seq(Binding)
      /\ \A n \in 1..Len(d) : d[n] = e \/ \E m \in 1..Len(c) : d[n] = c[m] /\ c[m].key # k
      /\ \A n, m \in 1..Len(d) : d[n].key = d[m].key => n = m
      /\ \E n \in 1..Len(d) : d[n] = e
      /\ \A m \in 1..Len(c) : c[m].key # k => \E n \in 1..Len(d) : d[n] = c[m]
  <2>1. CASE p = 0
    <3>1. d = <<e>> \o c
      BY <2>1 DEF d
    <3>2. d \in Seq(Binding) /\ Len(d) = Len(c) + 1 /\ Len(c) \in Nat /\ d[1] = e
          /\ \A n \in 1..Len(c) : d[n + 1] = c[n]
      BY <1>1, <1>2, <3>1
    <3>3. \A n \in 1..Len(d) : n = 1 \/ (n - 1 \in 1..Len(c) /\ d[n] = c[n - 1])
      <4> TAKE n \in 1..Len(d)
      <4>1. n # 1 => n - 1 \in 1..Len(c) /\ (n - 1) + 1 = n
        BY <3>2
      <4> QED
        BY <3>2, <4>1
    <3>4. \A n \in 1..Len(c) : c[n].key # k
      BY <1>1, <2>1
    <3>5. ASSUME NEW n \in 1..Len(d), NEW m \in 1..Len(d), d[n].key = d[m].key PROVE n = m
      <4>1. CASE n = 1
        BY <1>2, <3>2, <3>3, <3>4, <3>5, <4>1
      <4>2. CASE m = 1
        BY <1>2, <3>2, <3>3, <3>4, <3>5, <4>2
      <4>3. CASE n # 1 /\ m # 1
        <5>1. /\ n - 1 \in 1..Len(c) /\ m - 1 \in 1..Len(c)
              /\ c[n - 1].key = c[m - 1].key
          BY <3>3, <3>5, <4>3
        <5>2. n - 1 = m - 1
          BY <1>5, <5>1
        <5> QED
          BY <3>2, <5>2
      <4> QED
        BY <4>1, <4>2, <4>3
    <3>6. \E n \in 1..Len(d) : d[n] = e
      BY <3>2
    <3>7. ASSUME NEW m \in 1..Len(c) PROVE \E n \in 1..Len(d) : d[n] = c[m]
      <4>1. m + 1 \in 1..Len(d) /\ d[m + 1] = c[m]
        BY <3>2
      <4> QED
        BY <4>1
    <3>8. \A n \in 1..Len(d) : d[n] = e \/ \E m \in 1..Len(c) : d[n] = c[m] /\ c[m].key # k
      BY <3>2, <3>3, <3>4
    <3>9. d \in Seq(Binding)
      BY <3>2
    <3> QED
      BY <3>5, <3>6, <3>7, <3>8, <3>9
  <2>2. CASE p # 0
    <3>1. d = [c EXCEPT ![p] = e] /\ p \in 1..Len(c)
          /\ \A n \in 1..Len(c) : c[n].key = k <=> n = p
      BY <1>1, <2>2 DEF d, ReplaceAt
    <3>2. d \in Seq(Binding) /\ Len(d) = Len(c) /\ d[p] = e
          /\ \A n \in 1..Len(c) \ {p} : d[n] = c[n]
      BY <1>1, <1>2, <3>1
    <3> QED
      BY <1>2, <1>5, <3>1, <3>2
  <2> QED
    BY <2>1, <2>2
<1>7. \A n \in 1..Len(d) : Index(d[n].key, size) = i
  BY <1>2, <1>4, <1>5, <1>6
<1>8. r \in ArrayOf(size) /\ Sound(r)
      /\ \A f : f \in Bindings(r) <=> (f \in Bindings(b) /\ Index(f.key, size) # i)
                                   \/ \E n \in 1..Len(d) : f = d[n]
  <2>1. i \in 0..(size - 1)
    BY <1>1
  <2>2. d \in Seq(Binding)
    BY <1>6
  <2>3. \A n, m \in 1..Len(d) : d[n].key = d[m].key => n = m
    BY <1>6
  <2> DEFINE q == [b EXCEPT ![i] = d]
  <2>4. q \in ArrayOf(size) /\ Sound(q)
       /\ \A f : f \in Bindings(q) <=> (f \in Bindings(b) /\ Index(f.key, size) # i)
                                   \/ \E n \in 1..Len(d) : f = d[n]
    BY <1>7, <2>1, <2>2, <2>3, ChainReplaced
  <2> QED
    BY <1>3, <2>4
<1>9. ASSUME NEW f \in Bindings(r) PROVE f = e \/ (f \in Bindings(b) /\ f.key # k)
  <2>1. CASE f \in Bindings(b) /\ Index(f.key, size) # i
    BY <1>4, <2>1
  <2>2. CASE \E n \in 1..Len(d) : f = d[n]
    <3>1. PICK n \in 1..Len(d) : f = d[n]
      BY <2>2
    <3> QED
      BY <1>5, <1>6, <3>1
  <2> QED
    BY <1>8, <2>1, <2>2
<1>10. e \in Bindings(r)
  BY <1>6, <1>8
<1>11. ASSUME NEW f \in Bindings(b), f.key # k PROVE f \in Bindings(r)
  <2>1. CASE Index(f.key, size) # i
    BY <1>8, <2>1
  <2>2. CASE Index(f.key, size) = i
    <3>1. PICK m \in 1..Len(c) : f = c[m]
      BY <1>5, <2>2
    <3>2. \E n \in 1..Len(d) : f = d[n]
      BY <1>6, <1>11, <3>1
    <3> QED
      BY <1>8, <3>2
  <2> QED
    BY <2>1, <2>2
<1>12. Bindings(r) = {f \in Bindings(b) : f.key # k} \cup {e}
  BY <1>9, <1>10, <1>11
<1>13. /\ p = 0 => \A f \in Bindings(b) : f.key # k
       /\ p # 0 => \E f \in Bindings(b) : f.key = k
  BY <1>1, <1>4, <1>5
<1> QED
  BY <1>8, <1>12, <1>13 DEF r, e, p, c, i

\* What hash_find does for an erasure: the key is unbound and every other
\* binding stays.
LEMMA UnlinkBinds ==
  ASSUME NEW size \in Nat \ {0}, NEW b \in ArrayOf(size), Sound(b), NEW k \in Key
  PROVE  LET r == Unlink(b, Index(k, size), k)
         IN  /\ r \in ArrayOf(size) /\ Sound(r)
             /\ Bindings(r) = {e \in Bindings(b) : e.key # k}
<1> DEFINE i == Index(k, size)
           c == b[i]
           p == Position(k, c)
           d == RemoveAt(c, p)
           r == Unlink(b, i, k)
<1>1. /\ i \in 0..(size - 1) /\ c \in Seq(Binding)
      /\ \/ p = 0 /\ \A n \in 1..Len(c) : c[n].key # k
         \/ p \in 1..Len(c) /\ \A n \in 1..Len(c) : c[n].key = k <=> n = p
  BY PositionFinds
<1>2. r = IF p = 0 THEN b ELSE [b EXCEPT ![i] = d]
  BY DEF Unlink
<1>3. Index(k, size) = i
  OBVIOUS
<1> HIDE DEF p, d, i, r
<1>4. /\ \A n \in 1..Len(c) : c[n] \in Bindings(b) /\ Index(c[n].key, size) = i
      /\ \A n, m \in 1..Len(c) : c[n].key = c[m].key => n = m
      /\ \A f \in Bindings(b) : Index(f.key, size) = i => \E n \in 1..Len(c) : f = c[n]
  BY <1>1, ChainBinds
<1> HIDE DEF c
<1>5. CASE p = 0
  <2>1. r = b
    BY <1>2, <1>5
  <2>2. \A f \in Bindings(b) : f.key # k
    BY <1>1, <1>3, <1>4, <1>5
  <2>3. Bindings(r) = {f \in Bindings(b) : f.key # k}
    BY <2>1, <2>2
  <2> QED
    BY <2>1, <2>3 DEF r, i
<1>6. CASE p # 0
  <2>1. p \in 1..Len(c) /\ \A n \in 1..Len(c) : c[n].key = k <=> n = p
    BY <1>1, <1>6
  <2>2. /\ d \in Seq(Binding) /\ Len(d) = Len(c) - 1 /\ Len(c) \in Nat
        /\ \A n \in 1..Len(d) : d[n] = IF n < p THEN c[n] ELSE c[n + 1]
    <3>1. d = SubSeq(c, 1, p - 1) \o SubSeq(c, p + 1, Len(c))
      BY DEF d, RemoveAt
    <3> DEFINE s == SubSeq(c, 1, p - 1)
               t == SubSeq(c, p + 1, Len(c))
               l == Len(c)
    <3>2. l \in Nat /\ p \in 1..l
      BY <1>1, <2>1
    <3>3. s \in Seq(Binding) /\ Len(s) = p - 1 /\ \A n \in 1..(p - 1) : s[n] = c[n]
      BY <1>1, <2>1
    <3>4. t \in Seq(Binding) /\ Len(t) = l - p /\ \A n \in 1..(l - p) : t[n] = c[p + n]
      <4>1. t = SubSeq(c, p + 1, l) /\ c \in Seq(Binding) /\ p + 1 \in 1..(l + 1)
        BY <1>1, <3>2
      <4> HIDE DEF t
      <4> QED
        BY <3>2, <4>1
    <3> HIDE DEF s, t, l
    <3>5. d = s \o t
      BY <3>1 DEF s, t, l
    <3>6. d \in Seq(Binding) /\ Len(d) = l - 1
      <4>0. s \in Seq(Binding) /\ t \in Seq(Binding)
        BY <3>3, <3>4
      <4>1. d \in Seq(Binding) /\ Len(d) = Len(s) + Len(t)
        BY <3>5, <4>0
      <4>2. Len(s) + Len(t) = l - 1
        BY <3>2, <3>3, <3>4
      <4> QED
        BY <4>1, <4>2
    <3>7. ASSUME NEW n \in 1..(l - 1) PROVE d[n] = IF n < p THEN c[n] ELSE c[n + 1]
      <4>1. CASE n < p
        <5>1. n \in 1..Len(s) /\ n \in 1..(p - 1)
          BY <3>2, <3>3, <4>1
        <5>2. d[n] = s[n]
          BY <3>3, <3>4, <3>5, <5>1
        <5> QED
          BY <3>3, <4>1, <5>1, <5>2
      <4>2. CASE ~ (n < p)
        <5>1. n \in (Len(s) + 1)..(Len(s) + Len(t)) /\ n - Len(s) \in 1..(l - p)
              /\ p + (n - Len(s)) = n + 1
          BY <3>2, <3>3, <3>4, <4>2
        <5>2. d[n] = t[n - Len(s)]
          BY <3>3, <3>4, <3>5, <5>1
        <5> QED
          BY <3>4, <4>2, <5>1, <5>2
      <4> QED
        BY <4>1, <4>2
    <3> QED
      BY <3>2, <3>6, <3>7 DEF l
  <2>3. \A n \in 1..Len(d) : \E m \in 1..Len(c) \ {p} : d[n] = c[m] /\ m = IF n < p THEN n ELSE n + 1
    <3> TAKE n \in 1..Len(d)
    <3>1. CASE n < p
      <4>1. n \in 1..Len(c) \ {p}
        BY <2>1, <2>2, <3>1
      <4> QED
        BY <2>2, <3>1, <4>1
    <3>2. CASE ~ (n < p)
      <4>1. n + 1 \in 1..Len(c) \ {p}
        BY <2>1, <2>2, <3>2
      <4> QED
        BY <2>2, <3>2, <4>1
    <3> QED
      BY <3>1, <3>2
  <2>4. ASSUME NEW m \in 1..Len(c), m # p PROVE \E n \in 1..Len(d) : d[n] = c[m]
    <3>1. CASE m < p
      <4>1. m \in 1..Len(d)
        BY <2>1, <2>2, <3>1
      <4> QED
        BY <2>2, <3>1, <4>1
    <3>2. CASE ~ (m < p)
      <4>1. m - 1 \in 1..Len(d) /\ ~ (m - 1 < p) /\ (m - 1) + 1 = m
        BY <2>1, <2>2, <2>4, <3>2
      <4> QED
        BY <2>2, <4>1
    <3> QED
      BY <3>1, <3>2
  <2>5. ASSUME NEW n \in 1..Len(d), NEW m \in 1..Len(d), d[n].key = d[m].key PROVE n = m
    <3>1. PICK x \in 1..Len(c) \ {p} : d[n] = c[x] /\ x = IF n < p THEN n ELSE n + 1
      BY <2>3
    <3>2. PICK y \in 1..Len(c) \ {p} : d[m] = c[y] /\ y = IF m < p THEN m ELSE m + 1
      BY <2>3
    <3>3. x = y
      BY <1>4, <2>5, <3>1, <3>2
    <3> QED
      BY <2>1, <2>2, <3>1, <3>2, <3>3
  <2>6. \A n \in 1..Len(d) : Index(d[n].key, size) = i /\ d[n] \in Bindings(b) /\ d[n].key # k
    <3> TAKE n \in 1..Len(d)
    <3>1. PICK x \in 1..Len(c) \ {p} : d[n] = c[x]
      BY <2>3
    <3> QED
      BY <1>4, <2>1, <3>1
  <2>7. r = [b EXCEPT ![i] = d]
    BY <1>2, <1>6
  <2>8. r \in ArrayOf(size) /\ Sound(r)
        /\ \A f : f \in Bindings(r) <=> (f \in Bindings(b) /\ Index(f.key, size) # i)
                                   \/ \E n \in 1..Len(d) : f = d[n]
    <3>1. i \in 0..(size - 1)
      BY <1>1
    <3>2. d \in Seq(Binding)
      BY <2>2
    <3>3. \A n \in 1..Len(d) : Index(d[n].key, size) = i
      BY <2>6
    <3> DEFINE q == [b EXCEPT ![i] = d]
    <3>4. q \in ArrayOf(size) /\ Sound(q)
         /\ \A f : f \in Bindings(q) <=> (f \in Bindings(b) /\ Index(f.key, size) # i)
                                   \/ \E n \in 1..Len(d) : f = d[n]
      BY <2>5, <3>1, <3>2, <3>3, ChainReplaced
    <3> QED
      BY <2>7, <3>4
  <2>9. \A f \in Bindings(r) : f \in Bindings(b) /\ f.key # k
    BY <1>3, <2>6, <2>8
  <2>10. \A f \in Bindings(b) : f.key # k => f \in Bindings(r)
    BY <1>4, <2>1, <2>4, <2>8
  <2>11. Bindings(r) = {f \in Bindings(b) : f.key # k}
    BY <2>9, <2>10
  <2> QED
    BY <2>8, <2>11 DEF r, i
<1> QED
  BY <1>5, <1>6

LEMMA EmptyBinds ==
  ASSUME NEW size \in Nat \ {0}
  PROVE  /\ Empty(size) \in ArrayOf(size) /\ Sound(Empty(size))
         /\ Bindings(Empty(size)) = {} /\ Cardinality(Nodes(Empty(size))) = 0
<1> DEFINE b == Empty(size)
<1>1. b \in ArrayOf(size) /\ \A i \in 0..(size - 1) : Len(b[i]) = 0
  BY DEF Empty, ArrayOf
<1> HIDE DEF b
<1>2. Nodes(b) = {}
  BY <1>1, NodesOf
<1>3. Sound(b) /\ Bindings(b) = {} /\ Cardinality(Nodes(b)) = 0
  BY <1>2, FS_EmptySet DEF Sound, Bindings
<1> QED
  BY <1>1, <1>3 DEF b

\* The counts that go with those changes.
LEMMA WriteCounts ==
  ASSUME NEW size \in Nat \ {0}, NEW b \in ArrayOf(size), Sound(b), NEW k \in Key,
         NEW other \in Nat \ {0}, NEW r \in ArrayOf(other), Sound(r)
  PROVE  /\ Bindings(r) = Bindings(b) => Cardinality(Nodes(r)) = Cardinality(Nodes(b))
         /\ Bindings(r) = {e \in Bindings(b) : e.key # k}
              => Cardinality(Nodes(r)) <= Cardinality(Nodes(b))
         /\ \A f : Bindings(r) = {e \in Bindings(b) : e.key # k} \cup {f} =>
              /\ Cardinality(Nodes(r)) <= Cardinality(Nodes(b)) + 1
              /\ (\E e \in Bindings(b) : e.key = k) => Cardinality(Nodes(r)) <= Cardinality(Nodes(b))
<1> DEFINE B == Bindings(b)
           R == Bindings(r)
           D == {e \in B : e.key # k}
           n == Cardinality(Nodes(b))
           m == Cardinality(Nodes(r))
<1>1. IsFiniteSet(B) /\ n = Cardinality(B) /\ n \in Nat /\ m = Cardinality(R)
  BY Counted
<1> HIDE DEF B, R, n, m
<1>2. D \in SUBSET B /\ IsFiniteSet(D) /\ Cardinality(D) \in Nat /\ Cardinality(D) <= n
  <2>1. D \in SUBSET B
    OBVIOUS
  <2> HIDE DEF D
  <2> QED
    BY <1>1, <2>1, FS_Subset, FS_CardinalityType
<1>3. ASSUME NEW e \in B, e.key = k PROVE Cardinality(D) <= n - 1
  <2>1. D \in SUBSET (B \ {e})
    BY <1>3
  <2>2. IsFiniteSet(B \ {e}) /\ Cardinality(B \ {e}) = n - 1
    BY <1>1, <1>3, FS_RemoveElement
  <2> HIDE DEF D
  <2> QED
    BY <2>1, <2>2, FS_Subset
<1>4. ASSUME NEW f, R = D \cup {f}
      PROVE  m <= n + 1 /\ ((\E e \in B : e.key = k) => m <= n)
  <2> HIDE DEF D
  <2>1. m <= Cardinality(D) + 1
    <3>1. Cardinality(D \cup {f}) \in {Cardinality(D), Cardinality(D) + 1}
      BY <1>2, FS_AddElement
    <3>2. m = Cardinality(D \cup {f})
      BY <1>1, <1>4
    <3> QED
      BY <1>2, <3>1, <3>2
  <2> QED
    BY <1>1, <1>2, <1>3, <2>1
<1> QED
  BY <1>1, <1>2, <1>4 DEF B, R, n, m, D

-----------------------------------------------------------------------------
(***************************************************************************)
(* Tables and their arrays.                                                *)
(***************************************************************************)

Array(t) == store[tab[t].arr]

\* A count of entries is never below the number of nodes, and within the load.
Fits(e, b) ==
  /\ e \in Table /\ b \in ArrayOf(e.size) /\ Sound(b)
  /\ Cardinality(Nodes(b)) <= e.entries /\ e.entries * 10 <= e.size * 9

\* Of the tables that share an array all but one are flagged.
StoreInv ==
  /\ tab \in [Tab -> Table \cup {Null}]
  /\ DOMAIN store = Referenced(tab)
  /\ \A t \in Tables : Fits(tab[t], Array(t))
  /\ \A t, u \in Tables : t # u /\ tab[t].arr = tab[u].arr => tab[t].cow \/ tab[u].cow

LEMMA NullApart ==
  /\ \A e \in Table : e # Null
  /\ \A i \in Iterator : i # Null
  /\ \A v \in Value : v # Null
  /\ \A m \in [Key -> Value \cup {Null}] : m # Null
BY HashAssumption

\* There is an array that no table refers to, even while a table is given a
\* copy.
LEMMA FreshFree ==
  ASSUME StoreInv, NEW x
  PROVE  /\ Fresh(Referenced(tab)) \in Arr \ Referenced(tab)
         /\ Fresh(Referenced(tab) \cup {x}) \in Arr \ (Referenced(tab) \cup {x})
<1> DEFINE f == [t \in Tables |-> tab[t].arr]
           U == Referenced(tab)
<1>1. IsFiniteSet(Tables) /\ Cardinality(Tables) <= Cardinality(Tab) /\ Cardinality(Tab) \in Nat
  <2>1. Tables \in SUBSET Tab
    BY DEF Tables
  <2> QED
    BY <2>1, HashAssumption, FS_Subset, FS_CardinalityType
<1>2. U = {f[t] : t \in Tables}
  BY DEF Referenced, Tables
<1>3. f = [t \in Tables |-> f[t]]
  OBVIOUS
<1> HIDE DEF f, U
<1>4. IsFiniteSet(U) /\ Cardinality(U) <= Cardinality(Tab) /\ Cardinality(U) \in Nat
  <2>1. IsFiniteSet(U) /\ Cardinality(U) <= Cardinality(Tables)
    BY <1>1, <1>2, <1>3, Image
  <2>2. Cardinality(U) \in Nat /\ Cardinality(Tables) \in Nat
    BY <1>1, <2>1, FS_CardinalityType
  <2> QED
    BY <1>1, <2>1, <2>2
<1>5. IsFiniteSet(U \cup {x}) /\ Cardinality(U \cup {x}) <= Cardinality(Tab) + 1
      /\ Cardinality(U \cup {x}) \in Nat
  <2>1. IsFiniteSet(U \cup {x}) /\ Cardinality(U \cup {x}) \in {Cardinality(U), Cardinality(U) + 1}
    BY <1>4, FS_AddElement
  <2> QED
    BY <1>1, <1>4, <2>1
<1>6. ASSUME NEW W, IsFiniteSet(W), Cardinality(W) \in Nat, Cardinality(W) <= Cardinality(Tab) + 1
      PROVE  Fresh(W) \in Arr \ W
  <2>1. \E a \in Arr : a \notin W
    <3> SUFFICES ASSUME Arr \in SUBSET W PROVE FALSE
      OBVIOUS
    <3>1. Cardinality(Arr) <= Cardinality(W) /\ Cardinality(Arr) \in Nat
      BY <1>6, HashAssumption, FS_Subset, FS_CardinalityType
    <3> QED
      BY <1>1, <1>6, <3>1, HashAssumption
  <2> QED
    BY <2>1 DEF Fresh
<1>7. Fresh(U) \in Arr \ U
  <2>1. Cardinality(U) <= Cardinality(Tab) + 1
    BY <1>1, <1>4
  <2> QED
    BY <1>4, <1>6, <2>1
<1>8. Fresh(U \cup {x}) \in Arr \ (U \cup {x})
  BY <1>5, <1>6
<1> QED
  BY <1>7, <1>8 DEF U

\* A table is given an array of its own with new contents.
LEMMA Written ==
  ASSUME StoreInv, NEW t \in Tab, NEW e, NEW b, Fits(e, b), e.cow = FALSE,
         \A u \in Tables \ {t} : tab[u].arr # e.arr,
         tab' = [tab EXCEPT ![t] = e],
         DOMAIN store' = Referenced(tab'), store'[e.arr] = b,
         \A x \in Referenced(tab') \ {e.arr} : store'[x] = store[x]
  PROVE  /\ StoreInv' /\ Tables' = Tables \cup {t}
         /\ tab'[t] = e /\ Array(t)' = b
         /\ \A u \in Tables \ {t} : tab'[u] = tab[u] /\ Array(u)' = Array(u)
<1>1. tab' \in [Tab -> Table \cup {Null}] /\ tab'[t] = e /\ e # Null
      /\ \A u \in Tab \ {t} : tab'[u] = tab[u]
  BY NullApart DEF StoreInv, Fits
<1>2. Tables' = Tables \cup {t}
  BY <1>1 DEF Tables
<1>3. Array(t)' = b
  BY <1>1 DEF Array
<1>4. ASSUME NEW u \in Tables \ {t} PROVE tab'[u] = tab[u] /\ Array(u)' = Array(u)
  <2>1. tab'[u] = tab[u] /\ tab'[u] # Null /\ u \in Tab
    BY <1>1, <1>4 DEF Tables
  <2>2. tab'[u].arr \in Referenced(tab')
    BY <2>1 DEF Referenced
  <2> QED
    BY <1>4, <2>1, <2>2 DEF Array
<1>5. \A u \in Tables' : Fits(tab'[u], Array(u)')
  BY <1>1, <1>2, <1>3, <1>4 DEF StoreInv
<1>6. ASSUME NEW u \in Tables', NEW v \in Tables', u # v, tab'[u].arr = tab'[v].arr
      PROVE  tab'[u].cow \/ tab'[v].cow
  <2>1. u # t /\ v # t
    BY <1>1, <1>2, <1>4, <1>6
  <2> QED
    BY <1>2, <1>4, <1>6, <2>1 DEF StoreInv
<1>7. StoreInv'
  BY <1>1, <1>5, <1>6 DEF StoreInv, Fits
<1> QED
  BY <1>1, <1>2, <1>3, <1>4, <1>7

\* The other tables are left as they are.
Others(t) == \A u \in Tables \ {t} : tab'[u] = tab[u] /\ Array(u)' = Array(u)

LEMMA CreateKeeps ==
  ASSUME StoreInv, NEW t \in Tab, hash_create(t)
  PROVE  StoreInv' /\ Tables' = Tables \cup {t} /\ Others(t)
         /\ Array(t)' \in ArrayOf(HASH_SIZE) /\ Sound(Array(t)') /\ Bindings(Array(t)') = {}
<1> DEFINE a == Fresh(Referenced(tab))
           e == [arr |-> a, size |-> HASH_SIZE, entries |-> 0, cow |-> FALSE]
           b == Empty(HASH_SIZE)
<1>1. /\ tab' = [tab EXCEPT ![t] = e]
      /\ store' = [x \in Referenced(tab') |-> IF x = a THEN b ELSE store[x]]
  BY DEF hash_create
<1>2. a \in Arr \ Referenced(tab)
  BY FreshFree
<1>3. e \in Table /\ e.arr = a /\ e.size = HASH_SIZE /\ e.entries = 0 /\ e.cow = FALSE
  BY <1>2, HashAssumption DEF Table
<1>4. HASH_SIZE \in Nat \ {0}
  BY HashAssumption
<1>5. b \in ArrayOf(HASH_SIZE) /\ Sound(b) /\ Bindings(b) = {} /\ Cardinality(Nodes(b)) = 0
  BY <1>4, EmptyBinds
<1> HIDE DEF a, b, e
<1>6. Fits(e, b)
  BY <1>3, <1>4, <1>5 DEF Fits
<1>7. \A u \in Tables \ {t} : tab[u].arr # e.arr
  BY <1>2, <1>3 DEF Referenced, Tables
<1>8. tab'[t] = e /\ e # Null
  BY <1>1, <1>3, NullApart DEF StoreInv
<1>9. /\ DOMAIN store' = Referenced(tab') /\ store'[e.arr] = b
      /\ \A x \in Referenced(tab') \ {e.arr} : store'[x] = store[x]
  <2>1. e.arr \in Referenced(tab')
    BY <1>8 DEF Referenced
  <2> QED
    BY <1>1, <1>3, <2>1
<1>10. /\ StoreInv' /\ Tables' = Tables \cup {t} /\ tab'[t] = e /\ Array(t)' = b
       /\ \A u \in Tables \ {t} : tab'[u] = tab[u] /\ Array(u)' = Array(u)
  BY <1>1, <1>3, <1>6, <1>7, <1>9, Written
<1> QED
  BY <1>5, <1>10 DEF Others

LEMMA CowKeeps ==
  ASSUME StoreInv, NEW s \in Tab, NEW t \in Tab, hash_cow(s, t)
  PROVE  StoreInv' /\ s \in Tables /\ Tables' = Tables \cup {t} /\ Others(t)
         /\ Array(t)' = Array(s)
<1> DEFINE e == [tab[s] EXCEPT !.cow = TRUE]
<1>1. s \in Tables /\ tab[t] = Null /\ tab' = [tab EXCEPT ![t] = e] /\ store' = store
  BY DEF hash_cow
<1>2. Fits(tab[s], Array(s)) /\ tab[s] \in Table
  BY <1>1 DEF StoreInv, Fits
<1>3. /\ e \in Table /\ e.arr = tab[s].arr /\ e.size = tab[s].size
      /\ e.entries = tab[s].entries /\ e.cow = TRUE
  BY <1>2 DEF Table
<1> HIDE DEF e
<1>4. e # Null /\ t \notin Tables /\ s # t
  BY <1>1, <1>3, NullApart DEF Tables
<1>5. tab' \in [Tab -> Table \cup {Null}] /\ tab'[t] = e /\ \A u \in Tab \ {t} : tab'[u] = tab[u]
  BY <1>1, <1>3 DEF StoreInv
<1>6. Tables' = Tables \cup {t}
  BY <1>4, <1>5 DEF Tables
<1>7. Array(t)' = Array(s) /\ \A u \in Tables : tab'[u] = tab[u] /\ Array(u)' = Array(u)
  BY <1>1, <1>3, <1>4, <1>5 DEF Array, Tables
<1>8. DOMAIN store' = Referenced(tab')
  <2>1. Referenced(tab') = Referenced(tab)
    <3>1. Referenced(tab) = {tab[u].arr : u \in Tables}
      BY DEF Referenced, Tables
    <3>2. Referenced(tab') = {tab'[u].arr : u \in Tables'}
      BY DEF Referenced, Tables
    <3>3. \A u \in Tables' : \E v \in Tables : tab'[u].arr = tab[v].arr
      BY <1>1, <1>3, <1>5, <1>6, <1>7
    <3>4. \A u \in Tables : u \in Tables' /\ tab'[u].arr = tab[u].arr
      BY <1>6, <1>7
    <3> QED
      BY <3>1, <3>2, <3>3, <3>4
  <2> QED
    BY <1>1, <2>1 DEF StoreInv
<1>9. Fits(e, Array(s))
  BY <1>2, <1>3 DEF Fits
<1>10. \A u \in Tables' : Fits(tab'[u], Array(u)')
  BY <1>5, <1>6, <1>7, <1>9 DEF StoreInv
<1>11. \A u, v \in Tables' : u # v /\ tab'[u].arr = tab'[v].arr => tab'[u].cow \/ tab'[v].cow
  BY <1>3, <1>5, <1>6, <1>7 DEF StoreInv
<1>12. StoreInv'
  BY <1>5, <1>8, <1>10, <1>11 DEF StoreInv
<1> QED
  BY <1>1, <1>6, <1>7, <1>12 DEF Others

LEMMA ReleaseKeeps ==
  ASSUME StoreInv, NEW t \in Tab, Release(t)
  PROVE  StoreInv' /\ t \in Tables /\ Tables' = Tables \ {t} /\ Others(t)
<1>1. t \in Tables /\ tab' = [tab EXCEPT ![t] = Null] /\ store' = [a \in Referenced(tab') |-> store[a]]
  BY DEF Release, Keep
<1>2. tab' \in [Tab -> Table \cup {Null}] /\ tab'[t] = Null /\ \A u \in Tab \ {t} : tab'[u] = tab[u]
  BY <1>1 DEF StoreInv
<1>3. Tables' = Tables \ {t}
  BY <1>2 DEF Tables
<1>4. ASSUME NEW u \in Tables \ {t} PROVE tab'[u] = tab[u] /\ Array(u)' = Array(u)
  <2>1. tab'[u] = tab[u] /\ tab[u] # Null /\ u \in Tab
    BY <1>2, <1>4 DEF Tables
  <2>2. tab'[u].arr \in Referenced(tab')
    BY <2>1 DEF Referenced
  <2> QED
    BY <1>1, <2>1, <2>2 DEF Array
<1>5. StoreInv'
  BY <1>1, <1>2, <1>3, <1>4 DEF StoreInv
<1> QED
  BY <1>1, <1>3, <1>4, <1>5 DEF Others

\* What hash_find leaves to the write: an array of the table's own, with the
\* bindings it had.
LEMMA WritableOwn ==
  ASSUME StoreInv, NEW t \in Tab, CanWrite(t)
  PROVE  LET w == Writable(t)
         IN  /\ t \in Tables /\ tab[t] \in Table /\ Array(t) \in ArrayOf(tab[t].size)
             /\ Sound(Array(t))
             /\ w.arr \in Arr /\ \A u \in Tables \ {t} : tab[u].arr # w.arr
             /\ w.buckets \in ArrayOf(tab[t].size) /\ Sound(w.buckets)
             /\ Bindings(w.buckets) = Bindings(Array(t))
             /\ Cardinality(Nodes(w.buckets)) \in Nat
             /\ w.entries \in Nat /\ Cardinality(Nodes(w.buckets)) <= w.entries
             /\ w.entries * 10 <= tab[t].size * 9
<1> DEFINE w == Writable(t)
           size == tab[t].size
           b == Array(t)
<1>1. t \in Tables /\ (tab[t].cow \/ ~ Shared(t))
  BY DEF CanWrite
<1>2. /\ tab[t] \in Table /\ b \in ArrayOf(size) /\ Sound(b)
      /\ Cardinality(Nodes(b)) <= tab[t].entries /\ tab[t].entries * 10 <= size * 9
  BY <1>1 DEF StoreInv, Fits
<1>3. size \in Nat \ {0} /\ tab[t].entries \in Nat /\ tab[t].arr \in Arr /\ tab[t].cow \in BOOLEAN
  BY <1>2 DEF Table
<1> HIDE DEF size, b
<1>4. Cardinality(Nodes(b)) \in Nat
  BY <1>2, <1>3, Counted
<1>5. CASE tab[t].cow
  <2> DEFINE r == Rehash(b, size)
  <2>1. w = [arr |-> Fresh(Referenced(tab)), buckets |-> r, entries |-> Cardinality(Nodes(r))]
    BY <1>5 DEF Writable, Array, b, size
  <2>2. r \in ArrayOf(size) /\ Sound(r) /\ Bindings(r) = Bindings(b)
    BY <1>2, <1>3, RehashBinds
  <2> HIDE DEF r
  <2>3. Cardinality(Nodes(r)) = Cardinality(Nodes(b))
    BY <1>2, <1>3, <2>2, Counted
  <2>4. w.arr = Fresh(Referenced(tab)) /\ w.buckets = r /\ w.entries = Cardinality(Nodes(r))
    BY <2>1
  <2>5. w.arr \in Arr /\ \A u \in Tables \ {t} : tab[u].arr # w.arr
    <3>1. w.arr \in Arr \ Referenced(tab)
      BY <2>4, FreshFree
    <3> HIDE DEF w
    <3> QED
      BY <3>1 DEF Referenced, Tables
  <2> HIDE DEF w
  <2>6. w.entries * 10 <= size * 9
    BY <1>2, <1>3, <1>4, <2>3, <2>4
  <2> QED
    BY <1>1, <1>2, <1>4, <2>2, <2>3, <2>4, <2>5, <2>6 DEF w, b, size
<1>6. CASE ~ tab[t].cow
  <2>1. w.arr = tab[t].arr /\ w.buckets = b /\ w.entries = tab[t].entries
    BY <1>6 DEF Writable, Array, b
  <2>2. \A u \in Tables \ {t} : tab[u].arr # tab[t].arr
    BY <1>1, <1>6 DEF StoreInv, Shared
  <2> HIDE DEF w
  <2> QED
    BY <1>1, <1>2, <1>3, <1>4, <2>1, <2>2 DEF w, b, size
<1> QED
  BY <1>5, <1>6

LEMMA SetKeeps ==
  ASSUME StoreInv, NEW t \in Tab, NEW k \in Key, NEW v \in Value, hash_set(t, k, v)
  PROVE  StoreInv' /\ t \in Tables /\ Tables' = Tables /\ Others(t)
         /\ Bindings(Array(t)') = {e \in Bindings(Array(t)) : e.key # k} \cup {[key |-> k, value |-> v]}
<1> DEFINE w     == Writable(t)
           size  == tab[t].size
           i     == Index(k, size)
           b     == Insert(w.buckets, i, k, v)
           p     == Position(k, w.buckets[i])
           n     == IF p = 0 THEN w.entries + 1 ELSE w.entries
           grows == Overloaded(n, size)
           a     == IF grows THEN Fresh(Referenced(tab) \cup {w.arr}) ELSE w.arr
           new   == IF grows THEN Rehash(b, NewSize(n)) ELSE b
           e     == [arr     |-> a,
                     size    |-> IF grows THEN NewSize(n) ELSE size,
                     entries |-> IF grows THEN Cardinality(Nodes(new)) ELSE n,
                     cow     |-> FALSE]
           B     == {f \in Bindings(Array(t)) : f.key # k} \cup {[key |-> k, value |-> v]}
<1>1. /\ CanWrite(t)
      /\ tab' = [tab EXCEPT ![t] = e]
      /\ store' = [x \in Referenced(tab') |->
                     CASE x = a -> new [] x = w.arr -> b [] OTHER -> store[x]]
  BY DEF hash_set, SetWith
<1>2. /\ t \in Tables /\ tab[t] \in Table /\ Array(t) \in ArrayOf(size)
      /\ w.arr \in Arr /\ \A u \in Tables \ {t} : tab[u].arr # w.arr
      /\ w.buckets \in ArrayOf(size) /\ Sound(w.buckets)
      /\ Bindings(w.buckets) = Bindings(Array(t))
      /\ Cardinality(Nodes(w.buckets)) \in Nat
      /\ w.entries \in Nat /\ Cardinality(Nodes(w.buckets)) <= w.entries
      /\ w.entries * 10 <= size * 9
  BY <1>1, WritableOwn
<1>3. size \in Nat \ {0}
  BY <1>2 DEF Table
<1> HIDE DEF w, size
<1>4. /\ b \in ArrayOf(size) /\ Sound(b)
      /\ Bindings(b) = {f \in Bindings(w.buckets) : f.key # k} \cup {[key |-> k, value |-> v]}
      /\ p # 0 => \E f \in Bindings(w.buckets) : f.key = k
  BY <1>2, <1>3, InsertBinds
<1>5. Cardinality(Nodes(b)) \in Nat
  BY <1>3, <1>4, Counted
<1> HIDE DEF b, p
<1>6. n \in Nat /\ Cardinality(Nodes(b)) <= n
  <2>1. /\ Cardinality(Nodes(b)) <= Cardinality(Nodes(w.buckets)) + 1
        /\ p # 0 => Cardinality(Nodes(b)) <= Cardinality(Nodes(w.buckets))
    BY <1>2, <1>3, <1>4, WriteCounts
  <2> QED
    BY <1>2, <1>5, <2>1
<1> HIDE DEF n
<1>7. NewSize(n) \in Nat \ {0} /\ (n * 10) <= NewSize(n) * 9
  BY <1>6 DEF NewSize
<1>8. CASE grows
  <2>1. new = Rehash(b, NewSize(n)) /\ a = Fresh(Referenced(tab) \cup {w.arr})
    BY <1>8
  <2>2. new \in ArrayOf(NewSize(n)) /\ Sound(new) /\ Bindings(new) = Bindings(b)
    BY <1>3, <1>4, <1>7, <2>1, RehashBinds
  <2>3. Cardinality(Nodes(new)) = Cardinality(Nodes(b))
    BY <1>3, <1>4, <1>7, <2>2, Counted
  <2>4. a \in Arr \ (Referenced(tab) \cup {w.arr})
    BY <2>1, FreshFree
  <2>5. /\ e.arr = a /\ e.size = NewSize(n) /\ e.entries = Cardinality(Nodes(new))
        /\ e.cow = FALSE /\ e \in Table
    BY <1>5, <1>7, <1>8, <2>3, <2>4 DEF Table
  <2> HIDE DEF grows, a, new, e
  <2>6. Fits(e, new)
    BY <1>5, <1>6, <1>7, <2>2, <2>3, <2>5 DEF Fits
  <2>7. \A u \in Tables \ {t} : tab[u].arr # e.arr
    BY <2>4, <2>5 DEF Referenced, Tables
  <2>8. w.arr \notin Referenced(tab')
    <3>1. ASSUME NEW u \in Tab, tab'[u] # Null PROVE tab'[u].arr # w.arr
      <4>1. CASE u = t
        BY <1>1, <2>4, <2>5, <4>1 DEF StoreInv
      <4>2. CASE u # t
        BY <1>1, <1>2, <3>1, <4>2 DEF StoreInv, Tables
      <4> QED
        BY <4>1, <4>2
    <3> QED
      BY <3>1 DEF Referenced
  <2>9. a \in Referenced(tab')
    <3>1. tab'[t] = e /\ e # Null
      BY <1>1, <2>5, NullApart DEF StoreInv
    <3> QED
      BY <2>5, <3>1 DEF Referenced
  <2>10. /\ DOMAIN store' = Referenced(tab') /\ store'[e.arr] = new
         /\ \A x \in Referenced(tab') \ {e.arr} : store'[x] = store[x]
    BY <1>1, <2>5, <2>8, <2>9
  <2>11. /\ StoreInv' /\ Tables' = Tables \cup {t} /\ tab'[t] = e /\ Array(t)' = new
         /\ \A u \in Tables \ {t} : tab'[u] = tab[u] /\ Array(u)' = Array(u)
    BY <1>1, <2>5, <2>6, <2>7, <2>10, Written
  <2> QED
    BY <1>2, <1>4, <2>2, <2>11 DEF Others
<1>9. CASE ~ grows
  <2>1. new = b /\ a = w.arr /\ n * 10 <= size * 9
    BY <1>3, <1>6, <1>9 DEF Overloaded
  <2>2. /\ e.arr = a /\ e.size = size /\ e.entries = n /\ e.cow = FALSE /\ e \in Table
    BY <1>2, <1>3, <1>6, <1>9, <2>1 DEF Table
  <2> HIDE DEF grows, a, new, e
  <2>3. Fits(e, new)
    BY <1>4, <1>5, <1>6, <2>1, <2>2 DEF Fits
  <2>4. \A u \in Tables \ {t} : tab[u].arr # e.arr
    BY <1>2, <2>1, <2>2
  <2>5. a \in Referenced(tab')
    <3>1. tab'[t] = e /\ e # Null
      BY <1>1, <2>2, NullApart DEF StoreInv
    <3> QED
      BY <2>2, <3>1 DEF Referenced
  <2>6. /\ DOMAIN store' = Referenced(tab') /\ store'[e.arr] = new
        /\ \A x \in Referenced(tab') \ {e.arr} : store'[x] = store[x]
    BY <1>1, <2>1, <2>2, <2>5
  <2>7. /\ StoreInv' /\ Tables' = Tables \cup {t} /\ tab'[t] = e /\ Array(t)' = new
        /\ \A u \in Tables \ {t} : tab'[u] = tab[u] /\ Array(u)' = Array(u)
    BY <1>1, <2>2, <2>3, <2>4, <2>6, Written
  <2> QED
    BY <1>2, <1>4, <2>1, <2>7 DEF Others
<1> QED
  BY <1>8, <1>9

LEMMA EraseKeeps ==
  ASSUME StoreInv, NEW t \in Tab, NEW k \in Key, hash_erase(t, k)
  PROVE  StoreInv' /\ t \in Tables /\ Tables' = Tables /\ Others(t)
         /\ Bindings(Array(t)') = {e \in Bindings(Array(t)) : e.key # k}
<1> DEFINE w    == Writable(t)
           size == tab[t].size
           b    == Unlink(w.buckets, Index(k, size), k)
           e    == [tab[t] EXCEPT !.arr = w.arr, !.entries = w.entries, !.cow = FALSE]
<1>1. /\ CanWrite(t)
      /\ tab' = [tab EXCEPT ![t].arr = w.arr, ![t].entries = w.entries, ![t].cow = FALSE]
      /\ store' = [x \in Referenced(tab') |-> IF x = w.arr THEN b ELSE store[x]]
  BY DEF hash_erase
<1>2. /\ t \in Tables /\ tab[t] \in Table /\ Array(t) \in ArrayOf(size)
      /\ w.arr \in Arr /\ \A u \in Tables \ {t} : tab[u].arr # w.arr
      /\ w.buckets \in ArrayOf(size) /\ Sound(w.buckets)
      /\ Bindings(w.buckets) = Bindings(Array(t))
      /\ Cardinality(Nodes(w.buckets)) \in Nat
      /\ w.entries \in Nat /\ Cardinality(Nodes(w.buckets)) <= w.entries
      /\ w.entries * 10 <= size * 9
  BY <1>1, WritableOwn
<1>3. size \in Nat \ {0}
  BY <1>2 DEF Table
<1> HIDE DEF w, size
<1>4. /\ b \in ArrayOf(size) /\ Sound(b)
      /\ Bindings(b) = {f \in Bindings(w.buckets) : f.key # k}
  BY <1>2, <1>3, UnlinkBinds
<1> HIDE DEF b
<1>5. Cardinality(Nodes(b)) <= w.entries /\ Cardinality(Nodes(b)) \in Nat
  <2>1. Cardinality(Nodes(b)) <= Cardinality(Nodes(w.buckets))
    BY <1>2, <1>3, <1>4, WriteCounts
  <2>2. Cardinality(Nodes(b)) \in Nat
    BY <1>3, <1>4, Counted
  <2> QED
    BY <1>2, <2>1, <2>2
<1>6. tab' = [tab EXCEPT ![t] = e]
  BY <1>1, <1>2 DEF StoreInv, Table
<1>7. /\ e \in Table /\ e.arr = w.arr /\ e.entries = w.entries /\ e.cow = FALSE
      /\ e.size = size
  BY <1>2 DEF Table, size
<1> HIDE DEF e
<1>8. Fits(e, b)
  BY <1>2, <1>4, <1>5, <1>7 DEF Fits
<1>9. \A u \in Tables \ {t} : tab[u].arr # e.arr
  BY <1>2, <1>7
<1>10. /\ DOMAIN store' = Referenced(tab') /\ store'[e.arr] = b
       /\ \A x \in Referenced(tab') \ {e.arr} : store'[x] = store[x]
  <2>1. tab'[t] = e /\ e # Null
    BY <1>6, <1>7, NullApart DEF StoreInv
  <2>2. e.arr \in Referenced(tab')
    BY <2>1 DEF Referenced
  <2> QED
    BY <1>1, <1>7, <2>2
<1>11. /\ StoreInv' /\ Tables' = Tables \cup {t} /\ tab'[t] = e /\ Array(t)' = b
       /\ \A u \in Tables \ {t} : tab'[u] = tab[u] /\ Array(u)' = Array(u)
  BY <1>6, <1>7, <1>8, <1>9, <1>10, Written
<1> QED
  BY <1>2, <1>4, <1>11 DEF Others

-----------------------------------------------------------------------------
(***************************************************************************)
(* Enumerations.                                                           *)
(***************************************************************************)

\* Numbers have a least one.
LEMMA Least ==
  ASSUME NEW T \in SUBSET Nat, T # {}
  PROVE  \E n \in T : \A l \in T : n <= l
<1> DEFINE R == OpToRel(<, Nat)
<1>1. IsWellFoundedOn(R, Nat)
  BY NatLessThanWellFounded
<1>2. \A m, n \in Nat : m < n => <<m, n>> \in R
  BY DEF OpToRel
<1> HIDE DEF R
<1>3. PICK n \in T : \A l \in T : ~ (<<l, n>> \in R)
  BY <1>1, WFMin
<1>4. \A l \in T : ~ (l < n)
  BY <1>2, <1>3
<1> QED
  BY <1>4

LEMMA NextChainFinds ==
  ASSUME NEW size \in Nat \ {0}, NEW b \in ArrayOf(size), NEW i \in 0..size
  PROVE  LET j == NextChain(i, b)
         IN  /\ j \in i..size /\ (j = size \/ b[j] # <<>>)
             /\ \A l \in i..(j - 1) : b[l] = <<>>
<1> DEFINE T == {j \in i..size : j = size \/ b[j] # <<>>}
<1>1. T \in SUBSET Nat /\ size \in T
  OBVIOUS
<1> HIDE DEF T
<1>2. PICK j \in T : \A l \in T : j <= l
  BY <1>1, Least
<1>3. \A l \in i..(j - 1) : b[l] = <<>>
  <2> TAKE l \in i..(j - 1)
  <2>1. j \in i..size /\ l \in i..size /\ l # size /\ ~ (j <= l)
    BY <1>2 DEF T
  <2> QED
    BY <1>2, <2>1 DEF T
<1>4. j \in i..size /\ (j = size \/ b[j] # <<>>)
  BY <1>2 DEF T
<1>5. Cardinality(DOMAIN b) = size
  BY Sizes
<1>6. \E l \in i..size : (l = size \/ b[l] # <<>>) /\ \A m \in i..(l - 1) : b[m] = <<>>
  BY <1>3, <1>4
<1> QED
  BY <1>5, <1>6 DEF NextChain

\* The nodes of array b that an iterator at bucket idx, with rest of the chain
\* before, has not returned.
Left(idx, rest, b) ==
  {x \in Nodes(b) : x[1] >= idx \/ (x[1] + 1 = idx /\ x[2] > Len(b[x[1]]) - Len(rest))}

\* The rest is the end of the chain the iterator stands in.
InChain(idx, rest, b, size) ==
  /\ idx \in 0..size /\ rest \in Seq(Binding)
  /\ rest # <<>> =>
       LET c == b[idx - 1]
       IN  /\ idx \in 1..size /\ Len(rest) <= Len(c)
           /\ \A n \in 1..Len(rest) : rest[n] = c[Len(c) - Len(rest) + n]

LEMMA Begins ==
  ASSUME NEW size \in Nat \ {0}, NEW b \in ArrayOf(size)
  PROVE  Left(0, <<>>, b) = Nodes(b) /\ InChain(0, <<>>, b, size)
BY NodesOf DEF Left, InChain

LEMMA WalksChain ==
  ASSUME NEW size \in Nat \ {0}, NEW b \in ArrayOf(size), NEW idx, NEW rest,
         InChain(idx, rest, b, size), rest # <<>>
  PROVE  /\ InChain(idx, Tail(rest), b, size)
         /\ \E x \in Left(idx, rest, b) :
              Head(rest) = At(b, x) /\ Left(idx, Tail(rest), b) = Left(idx, rest, b) \ {x}
<1> DEFINE i == idx - 1
           c == b[i]
           t == Tail(rest)
           l == Len(c)
           m == Len(rest)
           x == <<i, l - m + 1>>
<1>1. /\ idx \in 1..size /\ rest \in Seq(Binding) /\ m \in Nat \ {0} /\ m <= l
      /\ \A n \in 1..m : rest[n] = c[l - m + n]
  BY DEF InChain
<1>2. i \in 0..(size - 1) /\ i + 1 = idx
  BY <1>1
<1>3. c \in Seq(Binding)
  BY <1>2 DEF ArrayOf
<1>4. l \in Nat
  BY <1>3
<1>5. t \in Seq(Binding) /\ Len(t) = m - 1 /\ \A n \in 1..(m - 1) : t[n] = rest[n + 1]
  BY <1>1
<1>6. Head(rest) = rest[1]
  BY <1>1
<1> HIDE DEF t, l, m, i
<1>7. l - m + 1 \in 1..l /\ l - (m - 1) = l - m + 1
  BY <1>1, <1>4
<1>8. x \in Nodes(b) /\ x[1] = i /\ x[2] = l - m + 1
  <2>1. l - m + 1 \in Nat
    BY <1>7
  <2> QED
    BY <1>2, <1>7, <2>1, NodesOf DEF l
<1>9. At(b, x) = Head(rest)
  BY <1>1, <1>6, <1>7 DEF At
<1>10. ASSUME NEW y \in Nodes(b)
       PROVE  y \in Left(idx, t, b) <=> y \in Left(idx, rest, b) /\ y # x
  <2>1. y = <<y[1], y[2]>> /\ y[1] \in 0..(size - 1) /\ y[2] \in 1..Len(b[y[1]])
    BY NodesOf
  <2>2. CASE y[1] = i
    <3>1. y[2] \in 1..l /\ y[1] + 1 = idx /\ ~ (y[1] >= idx)
      BY <1>1, <1>2, <2>1, <2>2 DEF l
    <3>2. y \in Left(idx, t, b) <=> y[2] > l - (m - 1)
      BY <1>5, <2>2, <3>1 DEF Left, l
    <3>3. y \in Left(idx, rest, b) <=> y[2] > l - m
      BY <2>2, <3>1 DEF Left, l, m
    <3>4. y = x <=> y[2] = l - m + 1
      BY <2>1, <2>2
    <3> QED
      BY <1>1, <1>4, <3>1, <3>2, <3>3, <3>4
  <2>3. CASE y[1] # i
    <3>1. y # x /\ y[1] + 1 # idx
      BY <1>2, <1>8, <2>1, <2>3
    <3> QED
      BY <3>1 DEF Left
  <2> QED
    BY <2>2, <2>3
<1>11. x \in Left(idx, rest, b)
  <2>1. l - m + 1 > l - m
    BY <1>1, <1>4
  <2> QED
    BY <1>2, <1>8, <2>1 DEF Left, l, m
<1>12. Left(idx, t, b) = Left(idx, rest, b) \ {x}
  <2>1. Left(idx, t, b) \in SUBSET Nodes(b) /\ Left(idx, rest, b) \in SUBSET Nodes(b)
    BY DEF Left
  <2> QED
    BY <1>10, <2>1
<1>13. InChain(idx, t, b, size)
  <2>1. ASSUME NEW n \in 1..Len(t) PROVE t[n] = c[l - Len(t) + n]
    <3>1. n + 1 \in 1..m /\ l - m + (n + 1) = l - (m - 1) + n
      BY <1>1, <1>4, <1>5
    <3> QED
      BY <1>1, <1>5, <3>1
  <2>2. Len(t) <= l /\ idx \in 0..size
    BY <1>1, <1>4, <1>5
  <2> QED
    BY <1>1, <1>5, <2>1, <2>2 DEF InChain, l, i
<1> QED
  BY <1>9, <1>11, <1>12, <1>13 DEF t

LEMMA EntersChain ==
  ASSUME NEW size \in Nat \ {0}, NEW b \in ArrayOf(size), NEW idx \in 0..size
  PROVE  LET j == NextChain(idx, b)
         IN  /\ Bucket(b, j) = <<>> => Left(idx, <<>>, b) = {}
             /\ Bucket(b, j) # <<>> =>
                  /\ InChain(j + 1, Tail(Bucket(b, j)), b, size)
                  /\ \E x \in Left(idx, <<>>, b) :
                       /\ Head(Bucket(b, j)) = At(b, x)
                       /\ Left(j + 1, Tail(Bucket(b, j)), b) = Left(idx, <<>>, b) \ {x}
<1> DEFINE j == NextChain(idx, b)
           c == Bucket(b, j)
           x == <<j, 1>>
<1>1. /\ j \in idx..size /\ (j = size \/ b[j] # <<>>)
      /\ \A l \in idx..(j - 1) : b[l] = <<>>
  BY NextChainFinds
<1>2. DOMAIN b = 0..(size - 1) /\ idx \in Nat
  BY Sizes
<1>3. c = IF j = size THEN <<>> ELSE b[j]
  BY <1>1, <1>2 DEF Bucket
<1> HIDE DEF j, c
<1>4. ASSUME NEW y \in Left(idx, <<>>, b)
      PROVE  y \in Nodes(b) /\ y = <<y[1], y[2]>> /\ y[1] \in j..(size - 1)
             /\ y[2] \in 1..Len(b[y[1]])
  <2>1. y \in Nodes(b) /\ y = <<y[1], y[2]>> /\ y[1] \in 0..(size - 1) /\ y[2] \in 1..Len(b[y[1]])
    BY NodesOf DEF Left
  <2>2. b[y[1]] \in Seq(Binding) /\ b[y[1]] # <<>>
    BY <2>1 DEF ArrayOf
  <2>3. y[1] >= idx
    <3>1. y[1] >= idx \/ y[2] > Len(b[y[1]]) - Len(<<>>)
      BY DEF Left
    <3>2. Len(<<>>) = 0 /\ Len(b[y[1]]) \in Nat
      BY <2>2
    <3> QED
      BY <2>1, <3>1, <3>2
  <2>4. y[1] \notin idx..(j - 1)
    BY <1>1, <2>2
  <2> QED
    BY <1>1, <1>2, <2>1, <2>3, <2>4
<1>5. CASE j = size
  <2>1. c = <<>>
    BY <1>3, <1>5
  <2>2. Left(idx, <<>>, b) = {}
    BY <1>4, <1>5
  <2> QED
    BY <2>1, <2>2 DEF j, c
<1>6. CASE j # size
  <2>1. j \in 0..(size - 1) /\ c = b[j] /\ c # <<>> /\ j >= idx /\ j + 1 \in 1..size
    BY <1>1, <1>2, <1>3, <1>6
  <2>2. c \in Seq(Binding)
    BY <2>1 DEF ArrayOf
  <2> DEFINE t == Tail(c)
             l == Len(c)
  <2>3. l \in Nat \ {0} /\ t \in Seq(Binding) /\ Len(t) = l - 1 /\ Head(c) = c[1]
        /\ \A n \in 1..(l - 1) : t[n] = c[n + 1]
    BY <2>1, <2>2
  <2> HIDE DEF t, l
  <2>4. x \in Nodes(b) /\ At(b, x) = Head(c) /\ x[1] = j /\ x[2] = 1
    <3>1. 1 \in 1..Len(b[j]) /\ 1 \in Nat
      BY <2>1, <2>3 DEF l
    <3> QED
      BY <2>1, <2>3, <3>1, NodesOf DEF At
  <2>5. x \in Left(idx, <<>>, b)
    BY <2>1, <2>4 DEF Left
  <2>6. ASSUME NEW y \in Nodes(b)
        PROVE  y \in Left(j + 1, t, b) <=> y \in Left(idx, <<>>, b) /\ y # x
    <3>1. y = <<y[1], y[2]>> /\ y[1] \in 0..(size - 1) /\ y[2] \in 1..Len(b[y[1]])
      BY NodesOf
    <3>2. CASE y[1] = j
      <4>1. y[2] \in 1..l
        BY <2>1, <3>1, <3>2 DEF l
      <4>2. y \in Left(idx, <<>>, b)
        BY <2>1, <3>2 DEF Left
      <4>3. y \in Left(j + 1, t, b) <=> y[2] > l - (l - 1)
        <5>1. y[1] + 1 = j + 1 /\ ~ (y[1] >= j + 1)
          BY <2>1, <3>2
        <5>2. y \in Left(j + 1, t, b) <=> y[2] > Len(b[y[1]]) - Len(t)
          BY <5>1 DEF Left
        <5> QED
          BY <2>1, <2>3, <3>2, <5>2 DEF l
      <4>4. y = x <=> y[2] = 1
        BY <3>1, <3>2
      <4> QED
        BY <2>3, <4>1, <4>2, <4>3, <4>4
    <3>3. CASE y[1] > j
      <4>1. y \in Left(j + 1, t, b) /\ y \in Left(idx, <<>>, b) /\ y # x
        BY <1>2, <2>1, <2>4, <3>1, <3>3 DEF Left
      <4> QED
        BY <4>1
    <3>4. CASE y[1] < j
      <4>1. y \notin Left(j + 1, t, b)
        BY <2>1, <3>1, <3>4 DEF Left
      <4>2. y \notin Left(idx, <<>>, b)
        BY <1>4, <2>1, <3>1, <3>4
      <4> QED
        BY <4>1, <4>2
    <3> QED
      BY <2>1, <3>1, <3>2, <3>3, <3>4
  <2>7. Left(j + 1, t, b) = Left(idx, <<>>, b) \ {x}
    <3>1. Left(j + 1, t, b) \in SUBSET Nodes(b) /\ Left(idx, <<>>, b) \in SUBSET Nodes(b)
      BY DEF Left
    <3> QED
      BY <2>6, <3>1
  <2>8. InChain(j + 1, t, b, size)
    <3>1. ASSUME NEW n \in 1..Len(t) PROVE t[n] = c[l - Len(t) + n]
      <4>1. l - Len(t) + n = n + 1 /\ n \in 1..(l - 1)
        BY <2>3
      <4> QED
        BY <2>3, <4>1
    <3>2. Len(t) <= l /\ j + 1 \in 0..size /\ (j + 1) - 1 = j
      BY <2>1, <2>3
    <3> QED
      BY <2>1, <2>3, <3>1, <3>2 DEF InChain, l
  <2> QED
    BY <2>1, <2>4, <2>5, <2>7, <2>8 DEF t, c, j
<1> QED
  BY <1>5, <1>6

\* An enumeration has returned what it has not left to do.
IterInv ==
  it # Null =>
    LET b == Array(it.tab)
        L == Left(it.idx, it.rest, b)
    IN  /\ it \in Iterator /\ it.tab \in Tables
        /\ InChain(it.idx, it.rest, b, tab[it.tab].size)
        /\ seen \in Seq(Binding)
        /\ Len(seen) + Cardinality(L) = Cardinality(Nodes(b))
        /\ ToSet(seen) \cup {At(b, x) : x \in L} = Bindings(b)
        /\ it.done => L = {}

IInv == StoreInv /\ IterInv

\* A node less to go is a binding more returned.
LEMMA Returns ==
  ASSUME NEW size \in Nat \ {0}, NEW b \in ArrayOf(size), NEW L \in SUBSET Nodes(b),
         NEW s \in Seq(Binding), NEW x \in L, NEW e, e = At(b, x),
         Len(s) + Cardinality(L) = Cardinality(Nodes(b)),
         ToSet(s) \cup {At(b, y) : y \in L} = Bindings(b)
  PROVE  LET t == Append(s, e)
             M == L \ {x}
         IN  /\ t \in Seq(Binding)
             /\ Len(t) + Cardinality(M) = Cardinality(Nodes(b))
             /\ ToSet(t) \cup {At(b, y) : y \in M} = Bindings(b)
<1> DEFINE t == Append(s, e)
           M == L \ {x}
<1>1. IsFiniteSet(Nodes(b)) /\ IsFiniteSet(L) /\ e \in Binding
  BY NodesOf, FS_Subset
<1>2. Cardinality(M) = Cardinality(L) - 1 /\ Cardinality(L) \in Nat
  BY <1>1, FS_RemoveElement, FS_CardinalityType
<1>3. /\ t \in Seq(Binding) /\ Len(s) \in Nat /\ Len(t) = Len(s) + 1 /\ t[Len(s) + 1] = e
      /\ \A n \in 1..Len(s) : t[n] = s[n]
  BY <1>1
<1>4. DOMAIN t = 1..(Len(s) + 1) /\ DOMAIN s = 1..Len(s)
  BY <1>3
<1> HIDE DEF t
<1>5. Len(t) + Cardinality(M) = Cardinality(Nodes(b))
  <2> DEFINE c == Cardinality(Nodes(b))
             l == Cardinality(L)
             m == Cardinality(M)
  <2>1. l \in Nat /\ m = l - 1 /\ Len(s) + l = c
    BY <1>2
  <2> HIDE DEF c, l, m
  <2>2. Len(t) + m = c
    BY <1>3, <2>1
  <2> QED
    BY <2>2 DEF c, l, m
<1>6. ToSet(t) = ToSet(s) \cup {e}
  <2>1. \A n \in 1..(Len(s) + 1) : n \in 1..Len(s) \/ n = Len(s) + 1
    BY <1>3
  <2>2. \A n \in 1..Len(s) : n \in 1..(Len(s) + 1)
    BY <1>3
  <2>3. Len(s) + 1 \in 1..(Len(s) + 1)
    BY <1>3
  <2> QED
    BY <1>3, <1>4, <2>1, <2>2, <2>3 DEF ToSet
<1>7. ToSet(t) \cup {At(b, y) : y \in M} = Bindings(b)
  BY <1>6
<1> QED
  BY <1>3, <1>5, <1>7 DEF t

LEMMA NextReturns ==
  ASSUME IInv, hash_next
  PROVE  IterInv'
<1> DEFINE b    == Array(it.tab)
           size == tab[it.tab].size
           L    == Left(it.idx, it.rest, b)
           j     == NextChain(it.idx, b)
           chain == IF it.rest # <<>> THEN it.rest ELSE Bucket(b, j)
           idx   == IF it.rest # <<>> THEN it.idx ELSE j + 1
<1>1. /\ it # Null /\ ~ it.done /\ tab' = tab /\ store' = store
      /\ chain = <<>> => it' = [it EXCEPT !.done = TRUE] /\ seen' = seen
      /\ chain # <<>> => it' = [it EXCEPT !.rest = Tail(chain), !.idx = idx]
                         /\ seen' = Append(seen, Head(chain))
  BY DEF hash_next, Advance, Array
<1>2. /\ it \in Iterator /\ it.tab \in Tables /\ InChain(it.idx, it.rest, b, size)
      /\ seen \in Seq(Binding) /\ Len(seen) + Cardinality(L) = Cardinality(Nodes(b))
      /\ ToSet(seen) \cup {At(b, x) : x \in L} = Bindings(b)
  BY <1>1 DEF IInv, IterInv
<1>3. size \in Nat \ {0} /\ b \in ArrayOf(size)
  BY <1>2 DEF IInv, StoreInv, Fits, Table
<1>5. Tables' = Tables
  BY <1>1 DEF Tables
<1> HIDE DEF size, b, L, chain, idx
<1>6. CASE chain = <<>>
  <2>1. it.rest = <<>> /\ Bucket(b, j) = <<>>
    BY <1>6 DEF chain
  <2>2. it.idx \in 0..size
    BY <1>2 DEF InChain
  <2>3. L = {}
    BY <1>3, <2>1, <2>2, EntersChain DEF L
  <2>4. /\ it' \in Iterator /\ it'.tab = it.tab /\ it'.idx = it.idx /\ it'.rest = it.rest
        /\ seen' = seen
    BY <1>1, <1>2, <1>6 DEF Iterator
  <2>5. Array(it.tab)' = b /\ tab'[it'.tab].size = size /\ it'.tab \in Tables'
    BY <1>1, <1>2, <1>5, <2>4 DEF b, size, Array
  <2> QED
    BY <1>2, <2>3, <2>4, <2>5 DEF IterInv, L
<1>7. CASE chain # <<>>
  <2>1. PICK x \in L : /\ Head(chain) = At(b, x)
                       /\ Left(idx, Tail(chain), b) = L \ {x}
                       /\ InChain(idx, Tail(chain), b, size)
    <3>1. CASE it.rest # <<>>
      BY <1>2, <1>3, <3>1, WalksChain DEF chain, idx, L
    <3>2. CASE it.rest = <<>>
      <4>1. it.idx \in 0..size /\ chain = Bucket(b, j) /\ idx = j + 1
        BY <1>2, <3>2 DEF InChain, chain, idx
      <4> QED
        BY <1>3, <1>7, <3>2, <4>1, EntersChain DEF L
    <3> QED
      BY <3>1, <3>2
  <2>2. L \in SUBSET Nodes(b)
    BY DEF L, Left
  <2> DEFINE e == Head(chain)
  <2>3. /\ Append(seen, e) \in Seq(Binding)
        /\ Len(Append(seen, e)) + Cardinality(L \ {x}) = Cardinality(Nodes(b))
        /\ ToSet(Append(seen, e)) \cup {At(b, y) : y \in L \ {x}} = Bindings(b)
    <3>1. e = At(b, x)
      BY <2>1
    <3> HIDE DEF e
    <3> QED
      BY SMTT(30), <1>2, <1>3, <2>2, <3>1, Returns
  <2>4. idx \in Nat /\ Tail(chain) \in Seq(Binding)
    BY <1>3, <2>1 DEF InChain
  <2>5. /\ it' \in Iterator /\ it'.tab = it.tab /\ it'.idx = idx /\ it'.rest = Tail(chain)
        /\ ~ it'.done /\ seen' = Append(seen, e)
    BY <1>1, <1>2, <1>7, <2>4 DEF Iterator
  <2>6. Array(it.tab)' = b /\ tab'[it'.tab].size = size /\ it'.tab \in Tables'
    BY <1>1, <1>2, <1>5, <2>5 DEF b, size, Array
  <2> QED
    BY <1>2, <2>1, <2>3, <2>5, <2>6 DEF IterInv
<1> QED
  BY <1>6, <1>7

LEMMA BeginKeeps ==
  ASSUME IInv, NEW t \in Tab, BeginIteration(t)
  PROVE  IterInv'
<1> DEFINE b    == Array(t)
           size == tab[t].size
<1>1. /\ t \in Tables /\ it' = [tab |-> t, idx |-> 0, rest |-> <<>>, done |-> FALSE]
      /\ seen' = <<>> /\ tab' = tab /\ store' = store
  BY DEF BeginIteration
<1>2. size \in Nat \ {0} /\ b \in ArrayOf(size)
  BY <1>1 DEF IInv, StoreInv, Fits, Table
<1>3. /\ it' \in Iterator /\ it'.tab = t /\ it'.idx = 0 /\ it'.rest = <<>> /\ it'.done = FALSE
  BY <1>1 DEF Iterator
<1>4. Array(it.tab)' = b /\ tab'[it'.tab].size = size /\ it'.tab \in Tables'
  BY <1>1, <1>3 DEF b, size, Array, Tables
<1> HIDE DEF b, size
<1>5. Left(0, <<>>, b) = Nodes(b) /\ InChain(0, <<>>, b, size)
  BY <1>2, Begins
<1>6. seen' \in Seq(Binding) /\ Len(seen') = 0 /\ ToSet(seen') = {}
  BY <1>1 DEF ToSet
<1>7. Cardinality(Nodes(b)) \in Nat
  BY <1>2, NodesOf, FS_CardinalityType
<1>8. Len(seen') + Cardinality(Nodes(b)) = Cardinality(Nodes(b))
  BY <1>6, <1>7
<1>9. ToSet(seen') \cup {At(b, x) : x \in Nodes(b)} = Bindings(b)
  BY <1>6 DEF Bindings
<1> QED
  BY <1>3, <1>4, <1>5, <1>6, <1>8, <1>9 DEF IterInv

\* Whatever is called, tables keep their own arrays, sound and within the load,
\* and an enumeration its count.
THEOREM Invariance == Spec => []IInv
<1>1. Init => IInv
  <2> SUFFICES ASSUME Init PROVE IInv
    OBVIOUS
  <2>1. tab \in [Tab -> Table \cup {Null}] /\ Tables = {} /\ Referenced(tab) = {}
    BY DEF Init, Tables, Referenced
  <2>2. DOMAIN store = {}
    BY DEF Init
  <2> QED
    BY <2>1, <2>2 DEF Init, IInv, StoreInv, IterInv
<1>2. IInv /\ [Next]_vars => IInv'
  <2> SUFFICES ASSUME IInv, [Next]_vars PROVE IInv'
    OBVIOUS
  <2>0. StoreInv
    BY DEF IInv
  <2>1. ASSUME NEW t \in Tab, hash_create(t) PROVE IInv'
    BY <2>0, <2>1, CreateKeeps DEF IInv, IterInv, hash_create
  <2>2. ASSUME NEW t \in Tab, Release(t) PROVE IInv'
    BY <2>0, <2>2, ReleaseKeeps DEF IInv, IterInv, Release
  <2>3. ASSUME NEW t \in Tab, BeginIteration(t) PROVE IInv'
    <3>1. StoreInv'
      BY <2>0, <2>3 DEF BeginIteration, StoreInv, Tables, Array
    <3> QED
      BY <2>3, <3>1, BeginKeeps DEF IInv
  <2>4. ASSUME NEW s \in Tab, NEW t \in Tab, hash_cow(s, t) PROVE IInv'
    BY <2>0, <2>4, CowKeeps DEF IInv, IterInv, hash_cow
  <2>5. ASSUME NEW t \in Tab, NEW k \in Key, NEW v \in Value, hash_set(t, k, v) PROVE IInv'
    BY ZenonT(30), <2>0, <2>5, SetKeeps DEF IInv, IterInv, hash_set, SetWith, CanWrite
  <2>6. ASSUME NEW t \in Tab, NEW k \in Key, hash_erase(t, k) PROVE IInv'
    BY <2>0, <2>6, EraseKeeps DEF IInv, IterInv, hash_erase, CanWrite
  <2>7. ASSUME hash_next PROVE IInv'
    <3>1. StoreInv'
      BY <2>0, <2>7 DEF hash_next, StoreInv, Tables, Array
    <3> QED
      BY <2>7, <3>1, NextReturns DEF IInv
  <2>8. ASSUME EndIteration PROVE IInv'
    BY <2>0, <2>8 DEF EndIteration, IInv, IterInv, StoreInv, Tables, Array
  <2>9. ASSUME UNCHANGED vars PROVE IInv'
    BY <2>9 DEF vars, IInv, IterInv, StoreInv, Tables, Array
  <2> QED
    BY <2>1, <2>2, <2>3, <2>4, <2>5, <2>6, <2>7, <2>8, <2>9 DEF Next
<1> QED
  BY <1>1, <1>2, PTL DEF Spec

\* Growing, copying and erasing leave every binding in the chain its hash
\* selects (hash_resize, hash_find), and no key bound twice.
THEOREM SoundChains == Spec => []ChainsSound
<1>1. IInv => ChainsSound
  <2> SUFFICES ASSUME IInv, NEW a \in DOMAIN store PROVE Sound(store[a])
    BY DEF ChainsSound
  <2>1. PICK t \in Tables : a = tab[t].arr
    BY DEF IInv, StoreInv, Referenced, Tables
  <2> QED
    BY <2>1 DEF IInv, StoreInv, Fits, Array
<1> QED
  BY <1>1, Invariance, PTL

\* No write leaves a table above its load (hash_set), and the size a table
\* believes in is that of its array.
THEOREM LoadKept == Spec => []LoadBounded
<1>1. IInv => LoadBounded
  <2> SUFFICES ASSUME IInv, NEW t \in Tables
               PROVE  /\ Cardinality(Nodes(store[tab[t].arr])) * 10 <= tab[t].size * 9
                      /\ DOMAIN store[tab[t].arr] = 0..(tab[t].size - 1)
    BY DEF LoadBounded
  <2> DEFINE b    == Array(t)
             size == tab[t].size
             c    == Cardinality(Nodes(b))
             n    == tab[t].entries
  <2>1. tab[t] \in Table /\ b \in ArrayOf(size) /\ Sound(b) /\ c <= n /\ n * 10 <= size * 9
    BY DEF IInv, StoreInv, Fits
  <2>2. size \in Nat \ {0} /\ n \in Nat
    BY <2>1 DEF Table
  <2> HIDE DEF b, size, n
  <2>3. c \in Nat /\ DOMAIN b = 0..(size - 1)
    BY <2>1, <2>2, Counted, Sizes
  <2> HIDE DEF c
  <2>4. c * 10 <= size * 9
    BY <2>1, <2>2, <2>3
  <2> QED
    BY <2>3, <2>4 DEF b, size, c, Array
<1> QED
  BY <1>1, Invariance, PTL

\* hash_next returns 0 only when it has returned every binding, each once.
THEOREM AllReturned == Spec => []IterationComplete
<1>1. IInv => IterationComplete
  <2> SUFFICES ASSUME IInv, it # Null, it.done
               PROVE  LET b == store[tab[it.tab].arr]
                      IN  Len(seen) = Cardinality(Nodes(b)) /\ ToSet(seen) = Bindings(b)
    BY DEF IterationComplete
  <2> DEFINE b == Array(it.tab)
             L == Left(it.idx, it.rest, b)
  <2>1. /\ L = {} /\ seen \in Seq(Binding)
        /\ Len(seen) + Cardinality(L) = Cardinality(Nodes(b))
        /\ ToSet(seen) \cup {At(b, x) : x \in L} = Bindings(b)
    BY DEF IInv, IterInv
  <2> HIDE DEF b, L
  <2>2. Cardinality(L) = 0
    BY <2>1, FS_EmptySet
  <2>3. Len(seen) = Cardinality(Nodes(b))
    BY <2>1, <2>2
  <2>4. ToSet(seen) = Bindings(b)
    BY <2>1
  <2> QED
    BY <2>3, <2>4 DEF b, Array
<1> QED
  BY <1>1, Invariance, PTL

-----------------------------------------------------------------------------
(***************************************************************************)
(* The maps of hash.h.                                                     *)
(***************************************************************************)

\* Arrays that bind a key alike answer alike.
LEMMA LookupsAgree ==
  ASSUME NEW size \in Nat \ {0}, NEW b \in ArrayOf(size), Sound(b),
         NEW other \in Nat \ {0}, NEW r \in ArrayOf(other), Sound(r),
         NEW k \in Key, \A e : e.key = k => (e \in Bindings(b) <=> e \in Bindings(r))
  PROVE  Lookup(r, k) = Lookup(b, k)
<1>1. CASE \E e \in Bindings(b) : e.key = k
  <2>1. PICK e \in Bindings(b) : e.key = k
    BY <1>1
  <2>2. Lookup(b, k) = e.value
    BY <2>1, LookupFinds
  <2>3. e \in Bindings(r)
    BY <2>1
  <2>4. Lookup(r, k) = e.value
    BY <2>1, <2>3, LookupFinds
  <2> QED
    BY <2>2, <2>4
<1>2. CASE \A e \in Bindings(b) : e.key # k
  <2>1. \A e \in Bindings(r) : e.key # k
    BY <1>2
  <2>2. Lookup(b, k) = Null
    BY <1>2, LookupFinds
  <2>3. Lookup(r, k) = Null
    BY <2>1, LookupFinds
  <2> QED
    BY <2>2, <2>3
<1> QED
  BY <1>1, <1>2

\* The map of an array.
MapOf(b) == [k \in Key |-> Lookup(b, k)]

LEMMA MapsFollow ==
  ASSUME NEW size \in Nat \ {0}, NEW b \in ArrayOf(size), Sound(b),
         NEW other \in Nat \ {0}, NEW r \in ArrayOf(other), Sound(r), NEW k \in Key
  PROVE  /\ MapOf(b) \in [Key -> Value \cup {Null}]
         /\ \A n \in Binding :
              n.key = k /\ Bindings(r) = {e \in Bindings(b) : e.key # k} \cup {n}
                => MapOf(r) = [MapOf(b) EXCEPT ![k] = n.value]
         /\ Bindings(r) = {e \in Bindings(b) : e.key # k}
              => MapOf(r) = [MapOf(b) EXCEPT ![k] = Null]
<1>1. ASSUME NEW j \in Key PROVE Lookup(b, j) \in Value \cup {Null}
  <2>1. \A e \in Bindings(b) : e.value \in Value
    BY Counted DEF Binding
  <2>2. CASE \E e \in Bindings(b) : e.key = j
    BY <2>1, <2>2, LookupFinds
  <2>3. CASE \A e \in Bindings(b) : e.key # j
    BY <2>3, LookupFinds
  <2> QED
    BY <2>2, <2>3
<1>2. ASSUME NEW n \in Binding, n.key = k,
             Bindings(r) = {e \in Bindings(b) : e.key # k} \cup {n}
      PROVE  MapOf(r) = [MapOf(b) EXCEPT ![k] = n.value]
  <2>1. n.key = k /\ n \in Bindings(r)
    BY <1>2
  <2>2. Lookup(r, k) = n.value
    BY <2>1, LookupFinds
  <2>3. ASSUME NEW j \in Key, j # k PROVE Lookup(r, j) = Lookup(b, j)
    <3>1. Bindings(r) = {e \in Bindings(b) : e.key # k} \cup {n}
      BY <1>2
    <3>2. ASSUME NEW e, e.key = j PROVE e \in Bindings(b) <=> e \in Bindings(r)
      BY <2>1, <2>3, <3>1, <3>2
    <3> QED
      BY <3>2, LookupsAgree
  <2> QED
    BY <2>2, <2>3 DEF MapOf
<1>3. ASSUME Bindings(r) = {e \in Bindings(b) : e.key # k}
      PROVE  MapOf(r) = [MapOf(b) EXCEPT ![k] = Null]
  <2>1. Lookup(r, k) = Null
    BY <1>3, LookupFinds
  <2>2. ASSUME NEW j \in Key, j # k PROVE Lookup(r, j) = Lookup(b, j)
    <3>1. ASSUME NEW e, e.key = j PROVE e \in Bindings(b) <=> e \in Bindings(r)
      BY <1>3, <2>2, <3>1
    <3> QED
      BY <3>1, LookupsAgree
  <2> QED
    BY <2>1, <2>2 DEF MapOf
<1> QED
  BY <1>1, <1>2, <1>3 DEF MapOf

LEMMA ContentsAre ==
  ASSUME StoreInv
  PROVE  /\ Contents = [t \in Tab |-> Contents[t]]
         /\ \A t \in Tables : Contents[t] = MapOf(Array(t)) /\ Contents[t] # Null
         /\ \A t \in Tab \ Tables : Contents[t] = Null
<1>1. ASSUME NEW t \in Tables PROVE Contents[t] = MapOf(Array(t)) /\ Contents[t] # Null
  <2>1. Contents[t] = MapOf(Array(t))
    BY DEF Contents, MapOf, Array, Tables
  <2> DEFINE b == Array(t)
             size == tab[t].size
  <2>2. b \in ArrayOf(size) /\ Sound(b) /\ size \in Nat \ {0}
    BY DEF StoreInv, Fits, Table
  <2> HIDE DEF b, size
  <2>3. ASSUME NEW k \in Key PROVE MapOf(b) \in [Key -> Value \cup {Null}]
    BY <2>2, MapsFollow
  <2>4. MapOf(b) \in [Key -> Value \cup {Null}]
    <3>1. CASE Key = {}
      BY <3>1 DEF MapOf
    <3>2. CASE Key # {}
      BY <2>3, <3>2
    <3> QED
      BY <3>1, <3>2
  <2> QED
    BY <2>1, <2>4, NullApart DEF b
<1>2. \A t \in Tab \ Tables : Contents[t] = Null
  BY DEF Contents, Tables
<1>3. Contents = [t \in Tab |-> Contents[t]]
  BY DEF Contents
<1> QED
  BY <1>1, <1>2, <1>3

\* A call changes the map of its own table only.
LEMMA OneChanges ==
  ASSUME StoreInv, StoreInv', NEW t \in Tab, Others(t), Tables' \ {t} = Tables \ {t}, NEW m,
         Contents'[t] = m
  PROVE  Contents' = [Contents EXCEPT ![t] = m]
<1>1. /\ Contents = [u \in Tab |-> Contents[u]]
      /\ \A u \in Tables : Contents[u] = MapOf(Array(u))
      /\ \A u \in Tab \ Tables : Contents[u] = Null
  BY ContentsAre
<1>2. /\ Contents' = [u \in Tab |-> Contents'[u]]
      /\ \A u \in Tab \ Tables' : Contents'[u] = Null
  BY DEF Contents, Tables
<1>3. ASSUME NEW u \in Tables' PROVE Contents'[u] = MapOf(Array(u)')
  BY DEF Contents, MapOf, Array, Tables
<1>4. ASSUME NEW u \in Tab \ {t} PROVE Contents'[u] = Contents[u]
  BY <1>1, <1>2, <1>3, <1>4 DEF Others
<1> QED
  BY <1>1, <1>2, <1>4

\* Each call is the call of that name on the maps; an enumeration changes none.
LEMMA StepsAreMaps ==
  ASSUME StoreInv, StoreInv', [Next]_vars
  PROVE  [Maps!Next]_<<Contents, call>>
<1>0. /\ \A t \in Tables : Contents[t] = MapOf(Array(t)) /\ Contents[t] # Null
      /\ \A t \in Tab \ Tables : Contents[t] = Null
  BY ContentsAre
<1>a. ASSUME NEW t \in Tables'
      PROVE  Contents'[t] = MapOf(Array(t)')
  BY DEF Contents, MapOf, Array, Tables
<1>b. ASSUME NEW t \in Tables
      PROVE  Array(t) \in ArrayOf(tab[t].size) /\ Sound(Array(t)) /\ tab[t].size \in Nat \ {0}
  BY DEF StoreInv, Fits, Table
<1>c. ASSUME NEW t \in Tables'
      PROVE  /\ Array(t)' \in ArrayOf(tab'[t].size) /\ Sound(Array(t)')
             /\ tab'[t].size \in Nat \ {0}
  BY DEF StoreInv, Fits, Table
<1>1. ASSUME NEW t \in Tab, hash_create(t) PROVE Maps!Next
  <2>1. t \notin Tables /\ call' = <<"create", t>>
    BY <1>1 DEF hash_create, Tables
  <2>2. Tables' = Tables \cup {t} /\ Others(t) /\ Bindings(Array(t)') = {}
    BY <1>1, CreateKeeps
  <2>3. Contents'[t] = Maps!Unbound
    <3>1. t \in Tables'
      BY <2>2
    <3> DEFINE r == Array(t)'
               size == tab'[t].size
    <3>2. r \in ArrayOf(size) /\ Sound(r) /\ size \in Nat \ {0} /\ Bindings(r) = {}
      BY <1>c, <2>2, <3>1
    <3> HIDE DEF r, size
    <3>3. \A k \in Key : Lookup(r, k) = Null
      BY <3>2, LookupFinds
    <3>4. MapOf(r) = [k \in Key |-> Null]
      BY <3>3 DEF MapOf
    <3> QED
      BY <1>a, <3>1, <3>4 DEF r, Maps!Unbound
  <2>4. Contents' = [Contents EXCEPT ![t] = Maps!Unbound]
    BY <2>2, <2>3, OneChanges
  <2>5. Maps!Create(t)
    BY <1>0, <2>1, <2>4 DEF Maps!Create, Maps!Becomes
  <2> QED
    BY <2>5 DEF Maps!Next
<1>2. ASSUME NEW s \in Tab, NEW t \in Tab, hash_cow(s, t) PROVE Maps!Next
  <2>1. s \in Tables /\ t \notin Tables /\ call' = <<"cow", s, t>>
    BY <1>2 DEF hash_cow, Tables
  <2>2. Tables' = Tables \cup {t} /\ Others(t) /\ Array(t)' = Array(s)
    BY <1>2, CowKeeps
  <2>3. Contents'[t] = Contents[s]
    BY <1>0, <1>a, <2>1, <2>2
  <2>4. Contents' = [Contents EXCEPT ![t] = Contents[s]]
    BY <2>2, <2>3, OneChanges
  <2>5. Maps!Duplicate(s, t)
    BY <1>0, <2>1, <2>4 DEF Maps!Duplicate, Maps!Becomes
  <2> QED
    BY <2>5 DEF Maps!Next
<1>3. ASSUME NEW t \in Tab, Release(t) PROVE Maps!Next
  <2>1. t \in Tables /\ call' = <<"drop", t>>
    BY <1>3 DEF Release, Tables
  <2>2. Tables' = Tables \ {t} /\ Others(t)
    BY <1>3, ReleaseKeeps
  <2>3. Contents'[t] = Null
    BY <2>2 DEF Contents, Tables
  <2>4. Contents' = [Contents EXCEPT ![t] = Null]
    BY <2>2, <2>3, OneChanges
  <2>5. Maps!Drop(t)
    BY <1>0, <2>1, <2>4 DEF Maps!Drop, Maps!Becomes
  <2> QED
    BY <2>5 DEF Maps!Next
<1>4. ASSUME NEW t \in Tab, NEW k \in Key, NEW v \in Value, hash_set(t, k, v) PROVE Maps!Next
  <2>1. call' = <<"set", t, k, v>>
    BY <1>4 DEF hash_set, SetWith
  <2>2. /\ t \in Tables /\ Tables' = Tables /\ Others(t)
        /\ Bindings(Array(t)') = {e \in Bindings(Array(t)) : e.key # k}
                                 \cup {[key |-> k, value |-> v]}
    BY <1>4, SetKeeps
  <2>3. Contents'[t] = [Contents[t] EXCEPT ![k] = v]
    <3> DEFINE b == Array(t)
               size == tab[t].size
               r == Array(t)'
               other == tab'[t].size
    <3>1. /\ b \in ArrayOf(size) /\ Sound(b) /\ size \in Nat \ {0}
          /\ r \in ArrayOf(other) /\ Sound(r) /\ other \in Nat \ {0}
          /\ Bindings(r) = {e \in Bindings(b) : e.key # k} \cup {[key |-> k, value |-> v]}
      BY <1>b, <1>c, <2>2
    <3> DEFINE n == [key |-> k, value |-> v]
    <3>2. n \in Binding /\ n.key = k /\ n.value = v
      BY DEF Binding
    <3> HIDE DEF b, size, r, other
    <3>3. Bindings(r) = {e \in Bindings(b) : e.key # k} \cup {n}
      BY <3>1
    <3> HIDE DEF n
    <3>4. MapOf(r) = [MapOf(b) EXCEPT ![k] = v]
      BY <3>1, <3>2, <3>3, MapsFollow
    <3> QED
      BY <1>0, <1>a, <2>2, <3>4 DEF b, r
  <2>4. Contents' = [Contents EXCEPT ![t] = [Contents[t] EXCEPT ![k] = v]]
    BY <2>2, <2>3, OneChanges
  <2>5. Maps!Bind(t, k, v)
    BY <1>0, <2>1, <2>2, <2>4 DEF Maps!Bind, Maps!Becomes
  <2> QED
    BY <2>5 DEF Maps!Next
<1>5. ASSUME NEW t \in Tab, NEW k \in Key, hash_erase(t, k) PROVE Maps!Next
  <2>1. call' = <<"erase", t, k>>
    BY <1>5 DEF hash_erase
  <2>2. /\ t \in Tables /\ Tables' = Tables /\ Others(t)
        /\ Bindings(Array(t)') = {e \in Bindings(Array(t)) : e.key # k}
    BY <1>5, EraseKeeps
  <2>3. Contents'[t] = [Contents[t] EXCEPT ![k] = Null]
    <3> DEFINE b == Array(t)
               size == tab[t].size
               r == Array(t)'
               other == tab'[t].size
    <3>1. /\ b \in ArrayOf(size) /\ Sound(b) /\ size \in Nat \ {0}
          /\ r \in ArrayOf(other) /\ Sound(r) /\ other \in Nat \ {0}
          /\ Bindings(r) = {e \in Bindings(b) : e.key # k}
      BY <1>b, <1>c, <2>2
    <3> HIDE DEF b, size, r, other
    <3>2. MapOf(r) = [MapOf(b) EXCEPT ![k] = Null]
      BY <3>1, MapsFollow
    <3> QED
      BY <1>0, <1>a, <2>2, <3>2 DEF b, r
  <2>4. Contents' = [Contents EXCEPT ![t] = [Contents[t] EXCEPT ![k] = Null]]
    BY <2>2, <2>3, OneChanges
  <2>5. Maps!Erase(t, k)
    BY <1>0, <2>1, <2>2, <2>4 DEF Maps!Erase, Maps!Becomes
  <2> QED
    BY <2>5 DEF Maps!Next
<1>6. ASSUME UNCHANGED <<tab, store, call>> PROVE UNCHANGED <<Contents, call>>
  BY <1>6 DEF Contents
<1>7. ASSUME NEW t \in Tab, BeginIteration(t) PROVE UNCHANGED <<tab, store, call>>
  BY <1>7 DEF BeginIteration
<1>8. ASSUME hash_next \/ EndIteration \/ UNCHANGED vars PROVE UNCHANGED <<tab, store, call>>
  BY <1>8 DEF hash_next, EndIteration, vars
<1> QED
  BY <1>1, <1>2, <1>3, <1>4, <1>5, <1>6, <1>7, <1>8 DEF Next

\* The tables are the maps that hash.h promises: every call does to its own
\* table what its name says and nothing to another, whatever arrays were shared,
\* copied or replaced on the way.
THEOREM Refinement == Spec => TablesAreMaps
<1>1. Init => Maps!Init
  BY DEF Init, Maps!Init, Contents
<1>2. IInv /\ IInv' /\ [Next]_vars => [Maps!Next]_<<Contents, call>>
  BY StepsAreMaps DEF IInv
<1> QED
  BY <1>1, <1>2, Invariance, PTL DEF Spec, TablesAreMaps, Maps!Spec
=============================================================================
