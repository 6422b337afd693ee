--------------------------------- MODULE Map ---------------------------------
(***************************************************************************)
(* What include/hash.h promises: each table is a finite map of its own;    *)
(* hash_cow duplicates one.                                                *)
(***************************************************************************)
CONSTANTS Tab, Key, Value, Null

VARIABLES
  maps, \* the bindings of each table, Null before the table exists
  call  \* the last call with its arguments

Unbound == [k \in Key |-> Null]

Init == maps = [t \in Tab |-> Null] /\ call = <<>>

Becomes(t, m) == maps' = [maps EXCEPT ![t] = m]

Create(t) == call' = <<"create", t>> /\ maps[t] = Null /\ Becomes(t, Unbound)

Duplicate(s, t) ==
  call' = <<"cow", s, t>> /\ maps[s] # Null /\ maps[t] = Null /\ Becomes(t, maps[s])

\* The caller lets go of a table.
Drop(t) == call' = <<"drop", t>> /\ maps[t] # Null /\ Becomes(t, Null)

Bind(t, k, v) ==
  call' = <<"set", t, k, v>> /\ maps[t] # Null /\ Becomes(t, [maps[t] EXCEPT ![k] = v])

Erase(t, k) ==
  call' = <<"erase", t, k>> /\ maps[t] # Null /\ Becomes(t, [maps[t] EXCEPT ![k] = Null])

Next ==
  \/ \E t \in Tab : Create(t) \/ Drop(t)
  \/ \E s, t \in Tab : Duplicate(s, t)
  \/ \E t \in Tab, k \in Key, v \in Value : Bind(t, k, v)
  \/ \E t \in Tab, k \in Key : Erase(t, k)

Spec == Init /\ [][Next]_<<maps, call>>
==============================================================================
