-------------------------------- MODULE Hash --------------------------------
(***************************************************************************)
(* The chained hash tables of libinsomniac_hash: growth by rehashing, the  *)
(* copy on write duplicate, erasure and the iterator.                      *)
(*                                                                         *)
(* A bucket array is an object of its own, because a duplicate shares it   *)
(* with its source.  A chain of key_value nodes is the sequence of its     *)
(* bindings: nodes belong to one array only, as hash_resize copies them.   *)
(* The loads 0.9 and 0.6 are the fractions 9/10 and 6/10.                  *)
(*                                                                         *)
(* Module Map is what hash.h promises; the mapping to it is what hash_get  *)
(* answers for each key.                                                   *)
(***************************************************************************)
EXTENDS Naturals, FiniteSets, Sequences, SequencesExt

CONSTANTS
  Tab,          \* the callers' handles
  Key, Value,
  Null,
  Arr,          \* addresses of bucket arrays
  calc_hash,    \* the hash function of the tables
  HASH_SIZE,    \* size of a new table
  MaxSize       \* bound on the size a table grows to

\* key_value, hash_internal and hash_iterator.
Binding  == [key : Key, value : Value]
Table    == [arr : Arr, size : Nat \ {0}, entries : Nat, cow : BOOLEAN]
Iterator == [tab : Tab, idx : Nat, rest : Seq(Binding), done : BOOLEAN]

ASSUME HashAssumption ==
  /\ calc_hash \in [Key -> Nat]
  /\ HASH_SIZE \in Nat \ {0}
  /\ MaxSize \in Nat
  /\ IsFiniteSet(Tab) /\ IsFiniteSet(Arr) /\ Cardinality(Arr) >= Cardinality(Tab) + 2
  /\ Null \notin Value \cup [Key -> Value \cup {Null}] \cup Table \cup Iterator

VARIABLES
  tab,   \* the hash_internal struct of each table, Null before hash_create
  store, \* the bucket arrays that tables refer to
  it,    \* the iterator of a running enumeration, or Null
  seen,  \* what hash_next has returned to it
  call   \* history: the last call and its arguments, as module Map sees it

vars == <<tab, store, it, seen, call>>

Tables == {t \in Tab : tab[t] # Null}

(***************************************************************************)
(* Bucket arrays.                                                          *)
(***************************************************************************)

\* The key_value nodes of an array: a bucket and a place in its chain.
Nodes(b) == UNION {{i} \X DOMAIN b[i] : i \in DOMAIN b}

\* The binding in a node.
At(b, x) == b[x[1]][x[2]]

Bindings(b) == {At(b, x) : x \in Nodes(b)}

\* The nodes of S that hash_resize meets after node x.
After(x, S) == {y \in S : y[1] > x[1] \/ (y[1] = x[1] /\ y[2] > x[2])}

\* The nodes of S, the last that hash_resize meets first.
LastFirst(S) == [n \in 1..Cardinality(S) |-> CHOOSE x \in S : Cardinality(After(x, S)) = n - 1]

Empty(size) == [i \in 0..(size - 1) |-> <<>>]

Index(k, size) == calc_hash[k] % size

\* Mutant: the bindings go to the chains of their old index.
Rehash_old_index(b, size) ==
  [i \in 0..(size - 1) |-> IF i \in DOMAIN b THEN Reverse(b[i]) ELSE <<>>]

\* hash_resize: every binding of the old array is put at the head of its chain
\* in the new one.
Rehash(b, size) ==
  [i \in 0..(size - 1) |->
     LET chain == LastFirst({x \in Nodes(b) : Index(At(b, x).key, size) = i})
     IN  [n \in DOMAIN chain |-> At(b, chain[n])]]

\* The position of a key in a chain, 0 when it is not there.
Position(k, chain) == SelectInSeq(chain, LAMBDA e : e.key = k)

Lookup(b, k) ==
  LET chain == b[Index(k, Cardinality(DOMAIN b))]
      i     == Position(k, chain)
  IN  IF i = 0 THEN Null ELSE chain[i].value

\* hash_find(CREATE) and the store into the node it returns.
Insert(b, i, k, v) ==
  LET p == Position(k, b[i])
      e == [key |-> k, value |-> v]
  IN  [b EXCEPT ![i] = IF p = 0 THEN <<e>> \o @ ELSE ReplaceAt(@, p, e)]

\* hash_find(DELETE).
Unlink(b, i, k) ==
  LET p == Position(k, b[i]) IN IF p = 0 THEN b ELSE [b EXCEPT ![i] = RemoveAt(@, p)]

Overloaded(entries, size) == entries * 10 > size * 9

NewSize(entries) == (entries * 10) \div 6 + 1

(***************************************************************************)
(* Tables.                                                                 *)
(***************************************************************************)

Referenced(T) == {T[t].arr : t \in {u \in Tab : T[u] # Null}}

Fresh(used) == CHOOSE a \in Arr : a \notin used

\* Arrays no table refers to are garbage.
Keep(T, s) == [a \in Referenced(T) |-> s[a]]

Shared(t) == \E u \in Tables \ {t} : tab[u].arr = tab[t].arr /\ tab[u].cow

\* Mutant: the first write to a duplicate goes to the shared array.
Writable_shared(t) ==
  [arr |-> tab[t].arr, buckets |-> store[tab[t].arr], entries |-> tab[t].entries]

\* The part of hash_find before the search: the array the operation writes to
\* and what is in it.  A write to a duplicate first copies the array; hash_find
\* then runs on the copy, at the index computed from the same size.
Writable(t) ==
  IF tab[t].cow
  THEN LET b == Rehash(store[tab[t].arr], tab[t].size)
       IN  [arr |-> Fresh(Referenced(tab)), buckets |-> b, entries |-> Cardinality(Nodes(b))]
  ELSE [arr |-> tab[t].arr, buckets |-> store[tab[t].arr], entries |-> tab[t].entries]

\* Callers leave a table alone while a duplicate shares its array: only the
\* duplicate is flagged, and a write to the source would show in both.
CanWrite(t) == it = Null /\ t \in Tables /\ (tab[t].cow \/ ~ Shared(t))

-----------------------------------------------------------------------------
Init == tab = [t \in Tab |-> Null] /\ store = <<>> /\ it = Null /\ seen = <<>> /\ call = <<>>

hash_create(t) ==
  /\ it = Null /\ tab[t] = Null
  /\ LET a == Fresh(Referenced(tab)) IN
       /\ tab' = [tab EXCEPT ![t] = [arr |-> a, size |-> HASH_SIZE, entries |-> 0, cow |-> FALSE]]
       /\ store' = [x \in Referenced(tab') |-> IF x = a THEN Empty(HASH_SIZE) ELSE store[x]]
  /\ call' = <<"create", t>>
  /\ UNCHANGED <<it, seen>>

\* The struct is copied, the array is not; only the copy is flagged.
hash_cow(s, t) ==
  /\ it = Null /\ s \in Tables /\ tab[t] = Null
  /\ tab' = [tab EXCEPT ![t] = [tab[s] EXCEPT !.cow = TRUE]]
  /\ call' = <<"cow", s, t>>
  /\ UNCHANGED <<store, it, seen>>

\* The caller lets go of a table.
Release(t) ==
  /\ it = Null /\ t \in Tables
  /\ tab' = [tab EXCEPT ![t] = Null]
  /\ store' = Keep(tab', store)
  /\ call' = <<"drop", t>>
  /\ UNCHANGED <<it, seen>>

\* Growth leaves the array it started from as it is, bindings and all; "check"
\* is the test of the load.
SetWith(t, k, v, check(_, _)) ==
  /\ CanWrite(t)
  /\ LET w     == Writable(t)
         size  == tab[t].size
         i     == Index(k, size)
         b     == Insert(w.buckets, i, k, v)
         n     == IF Position(k, w.buckets[i]) = 0 THEN w.entries + 1 ELSE w.entries
         grows == check(n, size)
         a     == IF grows THEN Fresh(Referenced(tab) \cup {w.arr}) ELSE w.arr
         new   == IF grows THEN Rehash(b, NewSize(n)) ELSE b
     IN
     /\ grows => NewSize(n) <= MaxSize
     /\ tab' = [tab EXCEPT ![t] =
                  [arr     |-> a,
                   size    |-> IF grows THEN NewSize(n) ELSE size,
                   entries |-> IF grows THEN Cardinality(Nodes(new)) ELSE n,
                   cow     |-> FALSE]]
     /\ store' = [x \in Referenced(tab') |->
                    CASE x = a -> new [] x = w.arr -> b [] OTHER -> store[x]]
  /\ call' = <<"set", t, k, v>>
  /\ UNCHANGED <<it, seen>>

\* Mutant: the table never grows.
hash_set_fixed(t, k, v) == SetWith(t, k, v, LAMBDA n, size : FALSE)

hash_set(t, k, v) == SetWith(t, k, v, Overloaded)

\* The count of entries is left as it is.
hash_erase(t, k) ==
  /\ CanWrite(t)
  /\ LET w == Writable(t)
         b == Unlink(w.buckets, Index(k, tab[t].size), k)
     IN
     /\ tab' = [tab EXCEPT ![t].arr = w.arr, ![t].entries = w.entries, ![t].cow = FALSE]
     /\ store' = [x \in Referenced(tab') |-> IF x = w.arr THEN b ELSE store[x]]
  /\ call' = <<"erase", t, k>>
  /\ UNCHANGED <<it, seen>>

(***************************************************************************)
(* The iterator: idx is the next bucket, rest the chain it stands in.      *)
(***************************************************************************)

\* One past the last bucket lies the zeroed slack of the allocation.
Bucket(b, i) == IF i \in DOMAIN b THEN b[i] ELSE <<>>

\* The first bucket from i on that is not empty, or the end.
NextChain(i, b) ==
  CHOOSE j \in i..Cardinality(DOMAIN b) :
    /\ j = Cardinality(DOMAIN b) \/ b[j] # <<>>
    /\ \A l \in i..(j - 1) : b[l] = <<>>

\* Mutant: the index is stepped before the bucket is read.
Advance_skipping(i, b) == NextChain(IF i \in DOMAIN b THEN i + 1 ELSE i, b)

\* The do loop of hash_next.
Advance(i, b) == NextChain(i, b)

BeginIteration(t) ==
  /\ it = Null /\ t \in Tables
  /\ it' = [tab |-> t, idx |-> 0, rest |-> <<>>, done |-> FALSE]
  /\ seen' = <<>>
  /\ UNCHANGED <<tab, store, call>>

hash_next ==
  /\ it # Null /\ ~ it.done
  /\ LET b     == store[tab[it.tab].arr]
         j     == Advance(it.idx, b)
         chain == IF it.rest # <<>> THEN it.rest ELSE Bucket(b, j)
     IN
     IF chain = <<>>
     THEN it' = [it EXCEPT !.done = TRUE] /\ seen' = seen
     ELSE /\ it' = [it EXCEPT !.rest = Tail(chain), !.idx = IF it.rest # <<>> THEN @ ELSE j + 1]
          /\ seen' = Append(seen, Head(chain))
  /\ UNCHANGED <<tab, store, call>>

EndIteration ==
  /\ it # Null /\ it.done
  /\ it' = Null /\ seen' = <<>>
  /\ UNCHANGED <<tab, store, call>>

Next ==
  \/ \E t \in Tab : hash_create(t)
  \/ \E t \in Tab : Release(t)
  \/ \E t \in Tab : BeginIteration(t)
  \/ \E s, t \in Tab : hash_cow(s, t)
  \/ \E t \in Tab, k \in Key, v \in Value : hash_set(t, k, v)
  \/ \E t \in Tab, k \in Key : hash_erase(t, k)
  \/ hash_next
  \/ EndIteration

Spec == Init /\ [][Next]_vars

-----------------------------------------------------------------------------
(***************************************************************************)
(* Properties.                                                             *)
(***************************************************************************)

\* What hash_get answers for every key of every table.
Contents == [t \in Tab |-> IF tab[t] = Null THEN Null
                          ELSE [k \in Key |-> Lookup(store[tab[t].arr], k)]]

Maps == INSTANCE Map WITH maps <- Contents

\* The tables implement the maps of hash.h, through growth, erasure, copying and
\* rehashing: every call does to its own table what its name says and nothing to
\* another, whatever arrays were shared, copied or replaced on the way, and an
\* enumeration changes none.  (hash.h: "duplicate an existing hash table in cow
\* mode".)
TablesAreMaps == Maps!Spec

\* Each binding is in the chain its hash selects for the array's size, and no
\* key is bound twice: a lookup that walks one chain cannot miss.
Sound(b) ==
  \A x \in Nodes(b) :
    /\ Index(At(b, x).key, Cardinality(DOMAIN b)) = x[1]
    /\ \A y \in Nodes(b) : At(b, x).key = At(b, y).key => x = y

ChainsSound == \A a \in DOMAIN store : Sound(store[a])

\* The load of a table is never left above MAX_LOAD, and the size a table
\* believes in is the size of its array, shared or not.
LoadBounded ==
  \A t \in Tables : /\ Cardinality(Nodes(store[tab[t].arr])) * 10 <= tab[t].size * 9
                    /\ DOMAIN store[tab[t].arr] = 0..(tab[t].size - 1)

\* An enumeration returns each binding exactly once before hash_next returns 0.
IterationComplete ==
  (it # Null /\ it.done) =>
    LET b == store[tab[it.tab].arr]
    IN  Len(seen) = Cardinality(Nodes(b)) /\ ToSet(seen) = Bindings(b)
=============================================================================
