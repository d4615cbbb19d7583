--------------------------- MODULE AlgorithmsProofs ---------------------------
(***************************************************************************)
(* Loops of Algorithms with their invariants, for every set of keys and    *)
(* leaves and every pair of trees: the members of a value and their index, *)
(* and the walk of the repair.                                             *)
(***************************************************************************)
EXTENDS Algorithms, SequenceTheorems, TLAPS

\* Every call is of one operation.
LEMMA OperationOf ==
  /\ CallParse => call.op = "parse"
  /\ CallXml => call.op = "xml"
  /\ CallAs => call.op = "as"
  /\ CallOf => call.op = "of"
  /\ CallRepair => call.op = "repair"
  /\ CallCreate => call.op = "create"
  /\ CallBuild => call.op = "build"
<1>1. CallParse => call.op = "parse"
  BY DEF CallParse
<1>2. CallXml => call.op = "xml"
  BY DEF CallXml
<1>3. CallAs => call.op = "as"
  BY DEF CallAs
<1>4. ASSUME CallOf PROVE call.op = "of"
  <2>1. PICK T, set, v : call = [op |-> "of", source |-> T, value |-> v, set |-> set]
    BY <1>4, Zenon DEF CallOf
  <2> QED
    BY <2>1
<1>5. CallRepair => call.op = "repair"
  BY DEF CallRepair
<1>6. CallCreate => call.op = "create"
  BY DEF CallCreate
<1>7. CallBuild => call.op = "build"
  BY DEF CallBuild
<1> QED
  BY <1>1, <1>2, <1>3, <1>4, <1>5, <1>6, <1>7

-------------------------------------------------------------------------------
(***************************************************************************)
(* ConfigValue::set.                                                       *)
(***************************************************************************)
Members == Seq([key : Keys, child : Leaves])

Indices == UNION {[S -> Nat] : S \in SUBSET Keys}

\* The index knows exactly the keys of the members, each at its position.
InStep(o) ==
  /\ o \in [object : Members, index : Indices]
  /\ DOMAIN o.index = {o.object[i].key : i \in DOMAIN o.object}
  /\ \A i \in DOMAIN o.object : o.index[o.object[i].key] = i

IndexInv == call.op = "build" => InStep(out)

\* An existing key: its member gets the value, and nothing moves.
LEMMA ReplaceInStep ==
  ASSUME NEW o, InStep(o), NEW k \in Keys, HasKey(o, k), NEW v \in Leaves
  PROVE  InStep([o EXCEPT !.object[o.index[k]].child = v])
<1> DEFINE i == o.index[k]
           new == [o.object[i] EXCEPT !.child = v]
           object == [o.object EXCEPT ![i] = new]
<1>1. o.object \in Members /\ o.index \in Indices
  BY DEF InStep
<1>2. i \in DOMAIN o.object /\ o.object[i].key = k
  BY DEF InStep, HasKey
<1>3. i \in 1..Len(o.object) /\ o.object[i] \in [key : Keys, child : Leaves]
  BY <1>1, <1>2, LenProperties, ElementOfSeq DEF Members
<1>4. new \in [key : Keys, child : Leaves] /\ new.key = k
  BY <1>2, <1>3
<1>5. /\ object \in Members /\ DOMAIN object = DOMAIN o.object
      /\ \A j \in DOMAIN o.object : object[j].key = o.object[j].key
  BY <1>1, <1>2, <1>3, <1>4 DEF Members
<1>6. [o EXCEPT !.object[o.index[k]].child = v] = [o EXCEPT !.object = object]
  BY DEF InStep
<1>7. InStep([o EXCEPT !.object = object])
  <2> HIDE DEF object
  <2> QED
    BY <1>5 DEF InStep
<1> QED
  BY <1>6, <1>7

\* A new key: the entry and the member are added together.
LEMMA AppendInStep ==
  ASSUME NEW o, InStep(o), NEW k \in Keys, ~HasKey(o, k), NEW v \in Leaves
  PROVE  InStep([object |-> Append(o.object, Member(k, v)), index |-> IndexWith(o, k)])
<1> DEFINE n == Len(o.object)
           object == Append(o.object, Member(k, v))
           index == IndexWith(o, k)
<1>1. o.object \in Members /\ o.index \in Indices /\ DOMAIN o.object = 1..n /\ n \in Nat
  BY DEF InStep, Members
<1>2. Member(k, v) \in [key : Keys, child : Leaves] /\ Member(k, v).key = k
  BY DEF Member
<1>3. /\ object \in Members /\ DOMAIN object = 1..n+1
      /\ object[n + 1] = Member(k, v)
      /\ \A i \in 1..n : object[i] = o.object[i]
  BY <1>1, <1>2, AppendProperties, LenProperties DEF Members
<1>4. PICK S \in SUBSET Keys : o.index \in [S -> Nat]
  BY <1>1 DEF Indices
<1>5. /\ index \in [S \cup {k} -> Nat] /\ index[k] = n + 1
      /\ \A j \in S : j # k /\ index[j] = o.index[j]
  BY <1>1, <1>4 DEF IndexWith, HasKey
<1>6. index \in Indices /\ DOMAIN index = S \cup {k}
  BY <1>4, <1>5 DEF Indices
<1>7. \A i \in 1..n : o.object[i].key \in S /\ o.index[o.object[i].key] = i
  BY <1>1, <1>4 DEF InStep
<1>8. S = {o.object[i].key : i \in 1..n}
  BY <1>1, <1>4 DEF InStep
<1> HIDE DEF object, index
<1>9. DOMAIN index = {object[i].key : i \in DOMAIN object}
  <2>1. \A i \in DOMAIN object : object[i].key = IF i = n + 1 THEN k ELSE o.object[i].key
    BY <1>1, <1>2, <1>3
  <2>2. \A i \in DOMAIN object : object[i].key \in S \cup {k}
    BY <1>1, <1>3, <1>7, <2>1
  <2>3. \A j \in S \cup {k} : \E i \in DOMAIN object : object[i].key = j
    <3>1. object[n + 1].key = k /\ n + 1 \in DOMAIN object
      BY <1>1, <1>2, <1>3
    <3>2. ASSUME NEW j \in S PROVE \E i \in DOMAIN object : object[i].key = j
      <4>1. PICK i \in 1..n : o.object[i].key = j
        BY <1>8
      <4>2. i \in DOMAIN object /\ object[i].key = j
        BY <1>1, <1>3, <4>1
      <4> QED
        BY <4>2
    <3> QED
      BY <3>1, <3>2
  <2> QED
    BY <1>6, <2>2, <2>3
<1>10. \A i \in DOMAIN object : index[object[i].key] = i
  BY <1>1, <1>2, <1>3, <1>5, <1>7
<1>11. [object |-> object, index |-> index] \in [object : Members, index : Indices]
  BY <1>3, <1>6
<1> QED
  BY <1>9, <1>10, <1>11 DEF InStep, object, index

\* Memory for the member runs out: the index is as it was.
LEMMA RollbackInStep ==
  ASSUME NEW o, InStep(o), NEW k \in Keys, ~HasKey(o, k)
  PROVE  Rollback(o, k) = o
<1>1. PICK S \in SUBSET Keys : o.index \in [S -> Nat]
  BY DEF InStep, Indices
<1>2. Restrict(IndexWith(o, k), DOMAIN o.index) = o.index
  BY <1>1 DEF Restrict, IndexWith, HasKey
<1> QED
  BY <1>2 DEF Rollback, InStep

LEMMA SetInStep ==
  ASSUME NEW o, InStep(o), NEW k \in Keys, NEW v \in Leaves, NEW f \in Failures
  PROVE  InStep(SetMember(o, k, v, f))
<1>1. CASE HasKey(o, k)
  BY <1>1, ReplaceInStep DEF SetMember
<1>2. CASE ~HasKey(o, k)
  BY <1>2, AppendInStep, RollbackInStep DEF SetMember, Failures
<1> QED
  BY <1>1, <1>2

\* For all keys, values and sequences of calls, whichever of them run out of
\* memory and where: members and index stay in step.
THEOREM IndexStaysExact == Spec => []IndexIsExact
<1>1. Init => IndexInv
  <2>1. InStep(EmptyObject)
    <3>1. <<>> \in Members /\ <<>> \in Indices /\ DOMAIN <<>> = {}
      <4>1. <<>> \in [{} -> Nat]
        OBVIOUS
      <4> QED
        BY <4>1 DEF Members, Indices
    <3> QED
      BY <3>1 DEF InStep, EmptyObject
  <2> QED
    BY <2>1, OperationOf DEF Init, IndexInv, CallBuild
<1>2. IndexInv /\ [Next]_vars => IndexInv'
  <2> SUFFICES ASSUME IndexInv, [Next]_vars PROVE IndexInv'
    OBVIOUS
  <2>1. ASSUME NEW k \in Keys, NEW v \in Leaves, NEW f \in Failures, SetKey(k, v, f)
        PROVE  IndexInv'
    BY <2>1, SetInStep DEF SetKey, IndexInv
  <2> QED
    BY <2>1 DEF Next, ParsePath, CheckXml, As, MakeScalar, Repair, Create, Done, vars, IndexInv
<1>3. IndexInv => IndexIsExact
  BY DEF IndexInv, InStep, IndexIsExact
<1> QED
  BY <1>1, <1>2, <1>3, PTL DEF Spec

-------------------------------------------------------------------------------
(***************************************************************************)
(* The walk of fillMissing.                                                *)
(***************************************************************************)
\* Ancestors, element by element.
LEMMA AbovePointwise ==
  ASSUME NEW q \in Seq(Keys), NEW p \in Seq(Keys)
  PROVE  Above(q, p) <=> Len(q) < Len(p) /\ \A i \in 1..Len(q) : q[i] = p[i]
<1>1. Len(q) \in Nat /\ Len(p) \in Nat
  OBVIOUS
<1>2. CASE Len(q) < Len(p)
  <2>1. /\ SubSeq(p, 1, Len(q)) \in Seq(Keys) /\ Len(SubSeq(p, 1, Len(q))) = Len(q)
        /\ \A i \in 1..Len(q) : SubSeq(p, 1, Len(q))[i] = p[i]
    BY <1>1, <1>2
  <2> QED
    BY <1>2, <2>1, SeqEqual DEF Above
<1>3. CASE ~(Len(q) < Len(p))
  BY <1>3 DEF Above
<1> QED
  BY <1>2, <1>3

\* The ancestors of a node are on one line.
LEMMA AncestorsOnLine ==
  ASSUME NEW r \in Seq(Keys), NEW q \in Seq(Keys), NEW p \in Seq(Keys),
         Above(r, p), Above(q, p)
  PROVE  Above(r, q) \/ r = q \/ Above(q, r)
<1>1. /\ Len(r) \in Nat /\ Len(q) \in Nat /\ Len(p) \in Nat
      /\ Len(r) < Len(p) /\ Len(q) < Len(p)
      /\ \A i \in 1..Len(r) : r[i] = p[i]
      /\ \A i \in 1..Len(q) : q[i] = p[i]
  BY AbovePointwise
<1>2. CASE Len(r) < Len(q)
  BY <1>1, <1>2, AbovePointwise
<1>3. CASE Len(q) < Len(r)
  BY <1>1, <1>3, AbovePointwise
<1>4. CASE Len(r) = Len(q)
  BY <1>1, <1>4, SeqEqual
<1> QED
  BY <1>1, <1>2, <1>3, <1>4

\* The path from the root or a node down to p goes through one of its children.
LEMMA ChildToward ==
  ASSUME NEW t \in Seq(Keys), NEW p \in Seq(Keys), Above(t, p)
  PROVE  \E k \in Keys : /\ Append(t, k) = p \/ Above(Append(t, k), p)
                         /\ Append(t, k) = SubSeq(p, 1, Len(t) + 1)
                         /\ Len(t) + 1 \in 1..Len(p)
<1> DEFINE n == Len(t) + 1
           c == Append(t, p[n])
<1>1. /\ Len(t) \in Nat /\ Len(p) \in Nat /\ n \in 1..Len(p)
      /\ \A i \in 1..Len(t) : t[i] = p[i]
  BY AbovePointwise
<1>2. p[n] \in Keys
  BY <1>1, ElementOfSeq
<1>3. c \in Seq(Keys) /\ Len(c) = n /\ \A i \in 1..n : c[i] = p[i]
  BY <1>1, <1>2, AppendProperties
<1>4. c = SubSeq(p, 1, n)
  <2>1. /\ SubSeq(p, 1, n) \in Seq(Keys) /\ Len(SubSeq(p, 1, n)) = n
        /\ \A i \in 1..n : SubSeq(p, 1, n)[i] = p[i]
    BY <1>1
  <2> QED
    BY <1>3, <2>1, SeqEqual
<1>5. c = p \/ Above(c, p)
  <2> HIDE DEF c
  <2>1. CASE n = Len(p)
    BY <1>3, <2>1, SeqEqual
  <2>2. CASE n < Len(p)
    BY <1>3, <2>2, AbovePointwise
  <2> QED
    BY <1>1, <2>1, <2>2
<1> QED
  BY <1>1, <1>2, <1>4, <1>5

\* Above a child are its parent and what is above that.
LEMMA AboveChild ==
  ASSUME NEW t \in Seq(Keys), NEW q \in Seq(Keys), NEW k \in Keys, Above(q, Append(t, k))
  PROVE  q = t \/ Above(q, t)
<1>1. /\ Append(t, k) \in Seq(Keys) /\ Len(Append(t, k)) = Len(t) + 1
      /\ \A i \in 1..Len(t) : Append(t, k)[i] = t[i]
      /\ Len(t) \in Nat /\ Len(q) \in Nat
  BY AppendProperties
<1>2. Len(q) <= Len(t) /\ \A i \in 1..Len(q) : q[i] = t[i]
  <2> DEFINE c == Append(t, k)
  <2>1. Len(q) < Len(c) /\ \A i \in 1..Len(q) : q[i] = c[i]
    <3> HIDE DEF c
    <3> QED
      BY <1>1, AbovePointwise DEF c
  <2> QED
    BY <1>1, <2>1
<1>3. CASE Len(q) = Len(t)
  BY <1>1, <1>2, <1>3, SeqEqual
<1>4. CASE Len(q) < Len(t)
  BY <1>1, <1>2, <1>4, AbovePointwise
<1> QED
  BY <1>1, <1>2, <1>3, <1>4

\* What a tree is.
LEMMA TreeFacts ==
  ASSUME NEW t \in Trees
  PROVE  /\ DOMAIN t \subseteq Paths /\ t = [p \in DOMAIN t |-> t[p]]
         /\ Paths \subseteq Seq(Keys)
         /\ \A p \in DOMAIN t, q \in Paths : Above(q, p) => q \in DOMAIN t /\ t[q] = Obj
<1>1. PICK S \in SUBSET Paths : t \in [S -> Leaves \cup {Obj}]
  BY DEF Trees
<1> QED
  BY <1>1, TreeAssumption DEF Trees, Rooted

-------------------------------------------------------------------------------
\* A node below p or p itself.
Within(p, q) == q = p \/ Above(p, q)

\* The walk has filled part of what is missing.  Everything above a key still
\* to be visited is an object of the model, and whatever is still missing is
\* at or below such a key.
WalkInv(m, d, w) ==
  /\ w = [model |-> w.model, added |-> w.added, todo |-> w.todo]
  /\ w.added \in BOOLEAN
  /\ w.model = [p \in DOMAIN w.model |-> IF p \in DOMAIN m THEN m[p] ELSE d[p]]
  /\ DOMAIN m \subseteq DOMAIN w.model
  /\ DOMAIN w.model \subseteq DOMAIN m \cup Missing(m, d)
  /\ w.added <=> DOMAIN w.model # DOMAIN m
  /\ w.todo \subseteq DOMAIN d
  /\ \A p \in w.todo, q \in Paths : Above(q, p) => q \in DOMAIN w.model /\ w.model[q] = Obj
  /\ \A p \in Missing(m, d) \ DOMAIN w.model : \E q \in w.todo : Within(q, p)

\* The first keys of the walk.
LEMMA WalkStarts ==
  ASSUME NEW m \in Trees, NEW d \in Trees
  PROVE  WalkInv(m, d, StartWalk(m, d))
<1> DEFINE w == StartWalk(m, d)
<1>1. w = [model |-> m, added |-> FALSE, todo |-> ChildPaths(d, <<>>)]
  BY DEF StartWalk
<1>2. /\ w = [model |-> w.model, added |-> w.added, todo |-> w.todo]
      /\ w.added = FALSE /\ w.model = m /\ w.todo = ChildPaths(d, <<>>)
  BY <1>1
<1>3. m = [p \in DOMAIN m |-> IF p \in DOMAIN m THEN m[p] ELSE d[p]]
  BY TreeFacts
<1>4. <<>> \in Seq(Keys) /\ Len(<<>>) = 0
  OBVIOUS
<1>5. ASSUME NEW p \in ChildPaths(d, <<>>), NEW q \in Paths, Above(q, p) PROVE FALSE
  <2>1. PICK k \in Keys : p = Append(<<>>, k)
    BY DEF ChildPaths
  <2>2. q \in Seq(Keys) /\ q # <<>>
    BY TreeAssumption
  <2>3. Above(q, <<>>)
    BY <1>4, <1>5, <2>1, <2>2, AboveChild
  <2>4. Len(q) \in Nat
    BY <2>2
  <2> QED
    BY <1>4, <2>3, <2>4 DEF Above
<1>6. ASSUME NEW p \in Missing(m, d) PROVE \E q \in ChildPaths(d, <<>>) : Within(q, p)
  <2>1. p \in DOMAIN d /\ p \in Paths /\ p \in Seq(Keys) /\ p # <<>>
    BY TreeFacts, TreeAssumption DEF Missing
  <2>2. Above(<<>>, p)
    <3>1. Len(p) \in Nat /\ Len(p) # 0
      BY <2>1, EmptySeq
    <3>2. SubSeq(p, 1, 0) \in Seq(Keys) /\ Len(SubSeq(p, 1, 0)) = 0
      BY <2>1
    <3> QED
      BY <1>4, <3>1, <3>2, EmptySeq DEF Above
  <2>3. PICK k \in Keys : /\ Append(<<>>, k) = p \/ Above(Append(<<>>, k), p)
                          /\ Append(<<>>, k) = SubSeq(p, 1, Len(<<>>) + 1)
                          /\ Len(<<>>) + 1 \in 1..Len(p)
    BY <1>4, <2>1, <2>2, ChildToward
  <2>4. Append(<<>>, k) \in Paths
    BY <2>1, <2>3, TreeAssumption
  <2>5. Append(<<>>, k) \in DOMAIN d
    BY <2>1, <2>3, <2>4, TreeFacts
  <2> QED
    BY <2>3, <2>5 DEF ChildPaths, Within
<1>7. ChildPaths(d, <<>>) \subseteq DOMAIN d
  BY DEF ChildPaths
<1> HIDE DEF w
<1> QED
  BY <1>2, <1>3, <1>5, <1>6, <1>7 DEF WalkInv, w

\* A key that is not there: it and all that is below it are filled in.
LEMMA CopyKeeps ==
  ASSUME NEW m \in Trees, NEW d \in Trees, NEW w, WalkInv(m, d, w),
         NEW p \in w.todo, p \notin DOMAIN w.model
  PROVE  WalkInv(m, d, VisitKey(w, d, p))
<1> DEFINE new == {q \in DOMAIN d : Within(p, q)}
           model == CopySubtree(w.model, d, p)
           v == [model |-> model, added |-> TRUE, todo |-> w.todo \ {p}]
<1>1. p \in DOMAIN d /\ p \in Paths /\ p \notin DOMAIN m /\ p \in new
  BY TreeFacts DEF WalkInv, Within
<1>2. DOMAIN model = DOMAIN w.model \cup new
  BY DEF CopySubtree, Within
<1>3. model = [q \in DOMAIN w.model \cup new |-> IF q \in DOMAIN m THEN m[q] ELSE d[q]]
  <2>1. \A q \in DOMAIN w.model : w.model[q] = IF q \in DOMAIN m THEN m[q] ELSE d[q]
    BY DEF WalkInv
  <2>2. \A q \in DOMAIN m : q \in DOMAIN w.model
    BY DEF WalkInv
  <2>3. model = [q \in DOMAIN w.model \cup new |-> IF q \in DOMAIN w.model THEN w.model[q] ELSE d[q]]
    BY DEF CopySubtree, Within
  <2> QED
    BY <2>1, <2>2, <2>3
<1>4. new \subseteq Missing(m, d)
  <2> SUFFICES ASSUME NEW q \in new
               PROVE  q \notin DOMAIN m /\ \A r \in DOMAIN m : Above(r, q) => m[r] = Obj
    BY DEF Missing
  <2>1. q \in Seq(Keys) /\ p \in Seq(Keys) /\ DOMAIN m \subseteq Seq(Keys)
    BY <1>1, TreeFacts
  <2>2. \A r \in DOMAIN m : r # p /\ ~Above(p, r)
    BY <1>1, TreeFacts
  <2>3. q \notin DOMAIN m
    BY <2>2 DEF Within
  <2>4. ASSUME NEW r \in DOMAIN m, Above(r, q) PROVE m[r] = Obj
    <3>1. Above(r, p)
      <4>1. CASE q = p
        BY <2>4, <4>1
      <4>2. CASE Above(p, q)
        BY <2>1, <2>2, <2>4, <4>2, AncestorsOnLine
      <4> QED
        BY <4>1, <4>2 DEF Within
    <3>2. r \in Paths
      BY TreeFacts
    <3> QED
      BY <3>1, <3>2 DEF WalkInv
  <2> QED
    BY <2>3, <2>4
<1>5. DOMAIN w.model \cup new # DOMAIN m
  BY <1>1
<1>6. \A q \in DOMAIN w.model : model[q] = w.model[q]
  BY DEF CopySubtree
<1> HIDE DEF model
<1>7. \A q \in Missing(m, d) \ DOMAIN model : \E r \in w.todo \ {p} : Within(r, q)
  <2> SUFFICES ASSUME NEW q \in Missing(m, d) \ DOMAIN model
               PROVE  \E r \in w.todo \ {p} : Within(r, q)
    OBVIOUS
  <2>1. q \in DOMAIN d /\ q \notin new /\ q \notin DOMAIN w.model
    BY <1>2 DEF Missing
  <2>2. PICK r \in w.todo : Within(r, q)
    BY <2>1 DEF WalkInv
  <2> QED
    BY <2>1, <2>2
<1>8. /\ v.model = model /\ v.added = TRUE /\ v.todo = w.todo \ {p}
      /\ v = [model |-> v.model, added |-> v.added, todo |-> v.todo]
  OBVIOUS
<1>9. v = VisitKey(w, d, p)
  BY DEF VisitKey, model
<1> HIDE DEF v, new
<1>10. WalkInv(m, d, v)
  <2>1. /\ v.model = [q \in DOMAIN v.model |-> IF q \in DOMAIN m THEN m[q] ELSE d[q]]
        /\ DOMAIN v.model # DOMAIN m
    BY <1>2, <1>3, <1>5, <1>8
  <2>2. DOMAIN m \subseteq DOMAIN v.model /\ DOMAIN v.model \subseteq DOMAIN m \cup Missing(m, d)
    BY <1>2, <1>4, <1>8 DEF WalkInv
  <2>3. \A r \in v.todo, q \in Paths : Above(q, r) => q \in DOMAIN v.model /\ v.model[q] = Obj
    BY <1>2, <1>6, <1>8 DEF WalkInv
  <2>4. v.todo \subseteq DOMAIN d
    BY <1>8 DEF WalkInv
  <2> QED
    BY <1>7, <1>8, <2>1, <2>2, <2>3, <2>4 DEF WalkInv
<1> QED
  BY <1>9, <1>10

\* A key that is there: the walk descends into it, or nothing below it is missing.
LEMMA DescendKeeps ==
  ASSUME NEW m \in Trees, NEW d \in Trees, NEW w, WalkInv(m, d, w),
         NEW p \in w.todo, p \in DOMAIN w.model
  PROVE  WalkInv(m, d, VisitKey(w, d, p))
<1> DEFINE below == IF Descends(w.model, d, p) THEN ChildPaths(d, p) ELSE {}
           todo == (w.todo \ {p}) \cup below
           v == [w EXCEPT !.todo = todo]
<1>1. p \in DOMAIN d /\ p \in Paths /\ p \in Seq(Keys) /\ Paths \subseteq Seq(Keys)
  BY TreeFacts DEF WalkInv
<1>2. VisitKey(w, d, p) = v
  <2>1. (w.todo \ {p}) \cup {} = w.todo \ {p}
    OBVIOUS
  <2> QED
    BY <2>1 DEF VisitKey
<1>3. /\ v.model = w.model /\ v.added = w.added /\ v.todo = todo
      /\ v = [model |-> v.model, added |-> v.added, todo |-> v.todo]
  BY DEF WalkInv
<1>4. below \subseteq DOMAIN d
  BY DEF ChildPaths
<1>5. ASSUME NEW r \in todo, NEW q \in Paths, Above(q, r)
      PROVE  q \in DOMAIN w.model /\ w.model[q] = Obj
  <2>1. CASE r \in w.todo
    BY <1>5, <2>1 DEF WalkInv
  <2>2. CASE r \in below
    <3>1. PICK k \in Keys : r = Append(p, k)
      BY <2>2 DEF ChildPaths
    <3>2. q = p \/ Above(q, p)
      BY <1>1, <1>5, <3>1, AboveChild
    <3>3. w.model[p] = Obj
      BY <2>2 DEF Descends
    <3> QED
      BY <3>2, <3>3 DEF WalkInv
  <2> QED
    BY <2>1, <2>2
<1>6. ASSUME NEW q \in Missing(m, d) \ DOMAIN w.model
      PROVE  \E r \in todo : Within(r, q)
  <2>1. PICK r \in w.todo : Within(r, q)
    BY DEF WalkInv
  <2>2. CASE r # p
    BY <2>1, <2>2
  <2>3. CASE r = p
    <3>1. q \in DOMAIN d /\ q \in Paths /\ q \in Seq(Keys) /\ Above(p, q)
      BY <2>1, <2>3, TreeFacts DEF Missing, Within
    <3>2. d[p] = Obj
      BY <1>1, <3>1, TreeFacts
    <3>3. w.model[p] = Obj
      <4>1. p \in DOMAIN m => m[p] = Obj
        BY <3>1 DEF Missing
      <4> QED
        BY <3>2, <4>1 DEF WalkInv
    <3>4. below = ChildPaths(d, p)
      BY <3>2, <3>3 DEF Descends
    <3>5. PICK k \in Keys : /\ Append(p, k) = q \/ Above(Append(p, k), q)
                            /\ Append(p, k) = SubSeq(q, 1, Len(p) + 1)
                            /\ Len(p) + 1 \in 1..Len(q)
      BY <1>1, <3>1, ChildToward
    <3>6. Append(p, k) \in Paths
      BY <3>1, <3>5, TreeAssumption
    <3>7. Append(p, k) \in DOMAIN d
      BY <3>1, <3>5, <3>6, TreeFacts
    <3> QED
      BY <3>4, <3>5, <3>7 DEF ChildPaths, Within
  <2> QED
    BY <2>2, <2>3
<1>7. todo \subseteq DOMAIN d
  BY <1>4 DEF WalkInv
<1> HIDE DEF todo, v
<1>8. WalkInv(m, d, v)
  BY <1>3, <1>5, <1>6, <1>7 DEF WalkInv
<1> QED
  BY <1>2, <1>8

\* Where the walk ends it has filled everything in.
LEMMA WalkEnds ==
  ASSUME NEW m \in Trees, NEW d \in Trees, NEW w, WalkInv(m, d, w), w.todo = {}
  PROVE  /\ w.model = Fill(m, d)
         /\ w.added <=> Missing(m, d) # {}
         /\ Missing(w.model, d) = {}
<1>1. DOMAIN w.model = DOMAIN m \cup Missing(m, d)
  BY DEF WalkInv
<1>2. w.model = Fill(m, d)
  BY <1>1 DEF WalkInv, Fill
<1>3. w.added <=> Missing(m, d) # {}
  BY <1>1 DEF WalkInv, Missing
<1>4. \A q \in DOMAIN m : w.model[q] = m[q]
  BY <1>1 DEF WalkInv
<1>5. Missing(w.model, d) = {}
  BY <1>1, <1>4 DEF Missing
<1> QED
  BY <1>2, <1>3, <1>5

RepairInv ==
  call.op = "repair" =>
    /\ call.model \in Trees /\ call.defaults \in Trees
    /\ WalkInv(call.model, call.defaults, out)

\* The walk of fillMissing computes the closed form for all pairs of trees, and
\* so repairing what was repaired adds nothing.
THEOREM RepairComputesFill == Spec => []RepairIsFill
<1>1. Init => RepairInv
  <2>1. ASSUME CallRepair PROVE RepairInv
    <3>1. PICK m \in Trees, d \in Trees :
            call = [op |-> "repair", model |-> m, defaults |-> d] /\ out = StartWalk(m, d)
      BY <2>1 DEF CallRepair
    <3> QED
      BY <3>1, WalkStarts DEF RepairInv
  <2> QED
    BY <2>1, OperationOf DEF Init, RepairInv
<1>2. RepairInv /\ [Next]_vars => RepairInv'
  <2> SUFFICES ASSUME RepairInv, [Next]_vars PROVE RepairInv'
    OBVIOUS
  <2>1. ASSUME Repair PROVE RepairInv'
    <3>1. PICK p \in out.todo : out' = VisitKey(out, call.defaults, p)
      BY <2>1 DEF Repair
    <3>2. call' = call /\ call.op = "repair"
      BY <2>1 DEF Repair
    <3>3. WalkInv(call.model, call.defaults, out')
      BY <3>1, <3>2, CopyKeeps, DescendKeeps DEF RepairInv
    <3> QED
      BY <3>2, <3>3 DEF RepairInv
  <2> QED
    BY <2>1 DEF Next, ParsePath, CheckXml, As, MakeScalar, Create, SetKey, Done, vars, RepairInv
<1>3. RepairInv => RepairIsFill
  BY WalkEnds DEF RepairInv, RepairIsFill, Returned
<1> QED
  BY <1>1, <1>2, <1>3, PTL DEF Spec
===============================================================================
