---------------------------- MODULE ObjectMembers ----------------------------
(***************************************************************************)
(* The members of an Object ConfigValue (config_value.cpp): object_, the   *)
(* members in insertion order, and object_index_, the position of every    *)
(* key.  set() writes both; memory can run out at either.                  *)
(***************************************************************************)
EXTENDS Integers, Sequences, SequencesExt, Functions

Member(k, v) == [key |-> k, child |-> v]

\* ConfigValue::object()
EmptyObject == [object |-> <<>>, index |-> <<>>]

\* Where std::bad_alloc can come from in set(): the new index entry, or the
\* member itself.  "none" is a call that has the memory it needs.
Failures == {"none", "index", "member"}

HasKey(o, k) == k \in DOMAIN o.index

IndexWith(o, k) == [j \in DOMAIN o.index \cup {k} |->
                      IF j = k THEN Len(o.object) + 1 ELSE o.index[j]]

\* Mutant: the handler rethrows without erasing the index entry.
Rollback_Kept(o, k) == [o EXCEPT !.index = IndexWith(o, k)]

\* What the handler leaves: the entry it had inserted is erased again.
Rollback(o, k) == [o EXCEPT !.index = Restrict(IndexWith(o, k), DOMAIN o.index)]

\* An existing key keeps its position and needs no new entry.
SetMember(o, k, v, failure) ==
  IF HasKey(o, k) THEN [o EXCEPT !.object[o.index[k]].child = v]
  ELSE CASE failure = "index"  -> o
         [] failure = "member" -> Rollback(o, k)
         [] OTHER -> [object |-> Append(o.object, Member(k, v)), index |-> IndexWith(o, k)]
==============================================================================
