--------------------------- MODULE ConfigModelProofs ---------------------------
(***************************************************************************)
(* ConfigModel, for every set of values and paths, any number of calls and *)
(* any request for memory that fails: the arena is a tree and a free list  *)
(* at every step, a handle that matches names its node, and assignContents *)
(* keeps the handles to its target and no other.                           *)
(*                                                                         *)
(* Reachability from the roots is a least set, which a step changes in     *)
(* ways that are awkward to follow.  The invariant looks at it from below: *)
(* a set of live nodes is closed upwards when it contains the parent of    *)
(* each of its members that is not a root, and a node is under R when      *)
(* every such set around it meets R.                                       *)
(***************************************************************************)
EXTENDS ConfigModel, FiniteSetTheorems, SequenceTheorems, TLAPS

Below(a, i) == Kids(a.nodes[i])
Parent(a, i) == a.nodes[i].parent

UpClosed(a, O, P) ==
  /\ P \subseteq Live(a)
  /\ \A i \in P \ O : Parent(a, i) \in P

Under(a, O, i, R) == \A P : UpClosed(a, O, P) /\ i \in P => P \cap R # {}

\* The live nodes are trees with the roots O.
Trees(a, O) ==
  /\ O \subseteq Live(a)
  /\ \A i \in Live(a) : \A c \in Below(a, i) : c \in Live(a) \ O /\ Parent(a, c) = i
  /\ \A i \in Live(a) \ O : Parent(a, i) \in Live(a) /\ i \in Below(a, Parent(a, i))
  /\ \A i \in Live(a) : Under(a, O, i, O)

\* No node is linked twice from the same place.
Distinct(kids) == \A k, l \in DOMAIN kids : kids[k].id = kids[l].id => k = l

LEMMA TreesAreForest ==
  ASSUME NEW a, NEW O, Trees(a, O), \A i \in Live(a) : Distinct(a.nodes[i].kids)
  PROVE  IsForest(a, O)
<1>1. Live(a) \subseteq DOMAIN a.nodes
  BY DEF Live
<1>2. Live(a) \subseteq Reach(a, O)
  <2> SUFFICES ASSUME NEW i \in Live(a), NEW S \in SUBSET DOMAIN a.nodes, O \subseteq S,
                      \A j \in S : Below(a, j) \subseteq S, i \notin S
               PROVE  FALSE
    BY <1>1 DEF Reach, Below
  <2> DEFINE P == Live(a) \ S
  <2>1. UpClosed(a, O, P)
    BY DEF UpClosed, Trees
  <2>2. i \in P /\ P \cap O = {}
    OBVIOUS
  <2> QED
    BY <2>1, <2>2 DEF Under, Trees
<1>3. Reach(a, O) \subseteq Live(a)
  <2>1. Live(a) \in SUBSET DOMAIN a.nodes /\ O \subseteq Live(a)
    BY <1>1 DEF Trees
  <2>2. \A j \in Live(a) : Kids(a.nodes[j]) \subseteq Live(a)
    BY DEF Trees, Below
  <2> QED
    BY <2>1, <2>2 DEF Reach
<1>4. ASSUME NEW i \in Live(a), NEW k \in DOMAIN a.nodes[i].kids
      PROVE  /\ a.nodes[i].kids[k].id \in Live(a) \ O
             /\ a.nodes[a.nodes[i].kids[k].id].parent = i
             /\ \A l \in DOMAIN a.nodes[i].kids :
                  a.nodes[i].kids[l].id = a.nodes[i].kids[k].id => l = k
  <2>1. a.nodes[i].kids[k].id \in Below(a, i)
    BY DEF Below, Kids
  <2>2. Distinct(a.nodes[i].kids)
    OBVIOUS
  <2> QED
    BY <2>1, <2>2 DEF Trees, Parent, Distinct
<1> QED
  BY <1>2, <1>3, <1>4 DEF IsForest, Trees

-------------------------------------------------------------------------------
(* What each change of the arena does to the trees.                        *)

\* A fresh node is a root of its own.
LEMMA TreesGrow ==
  ASSUME NEW a, NEW b, NEW O, NEW id, Trees(a, O),
         id \notin Live(a), Live(b) = Live(a) \cup {id}, Below(b, id) = {},
         \A i \in Live(a) : Below(b, i) = Below(a, i),
         \A i \in Live(a) \ O : Parent(b, i) = Parent(a, i)
  PROVE  /\ Trees(b, O \cup {id})
         /\ \A i \in Live(a) : \A R : Under(a, O, i, R) => Under(b, O \cup {id}, i, R)
<1> DEFINE Q == O \cup {id}
<1>1. ASSUME NEW i \in Live(a), NEW R, Under(a, O, i, R)
      PROVE  Under(b, Q, i, R)
  <2> SUFFICES ASSUME NEW P, UpClosed(b, Q, P), i \in P
               PROVE  P \cap R # {}
    BY DEF Under
  <2>1. UpClosed(a, O, P \ {id})
    BY DEF UpClosed, Trees
  <2> QED
    BY <1>1, <2>1 DEF Under
<1>2. \A i \in Live(b) : Under(b, Q, i, Q)
  <2>1. Under(b, Q, id, Q)
    BY DEF Under
  <2>2. ASSUME NEW i \in Live(a) PROVE Under(b, Q, i, Q)
    <3>1. Under(b, Q, i, O)
      BY <1>1 DEF Trees
    <3> QED
      BY <3>1 DEF Under
  <2> QED
    BY <2>1, <2>2
<1>3. Trees(b, Q)
  BY <1>2 DEF Trees
<1> QED
  BY <1>1, <1>3

\* A root is linked under a node that does not hang on it.
LEMMA TreesLink ==
  ASSUME NEW a, NEW b, NEW O, NEW p \in Live(a), NEW c \in O, Trees(a, O),
         p # c, Under(a, O, p, O \ {c}),
         Live(b) = Live(a), Below(b, p) = Below(a, p) \cup {c},
         \A i \in Live(a) \ {p} : Below(b, i) = Below(a, i),
         Parent(b, c) = p,
         \A i \in Live(a) \ O : Parent(b, i) = Parent(a, i)
  PROVE  /\ Trees(b, O \ {c})
         /\ \A i, R : Under(a, O, i, R) => Under(b, O \ {c}, i, R)
<1> DEFINE Q == O \ {c}
<1>1. \A P : UpClosed(b, Q, P) => UpClosed(a, O, P)
  BY DEF UpClosed
<1>2. \A i, R : Under(a, O, i, R) => Under(b, Q, i, R)
  BY <1>1 DEF Under
<1>3. \A i \in Live(b) : Under(b, Q, i, Q)
  <2> SUFFICES ASSUME NEW i \in Live(a), NEW P, UpClosed(b, Q, P), i \in P
               PROVE  P \cap Q # {}
    BY DEF Under
  <2>1. UpClosed(a, O, P)
    BY <1>1
  <2>2. P \cap O # {}
    BY <2>1 DEF Trees, Under
  <2>3. CASE c \in P
    <3>1. p \in P
      BY <2>3 DEF UpClosed
    <3> QED
      BY <2>1, <3>1 DEF Under
  <2> QED
    BY <2>2, <2>3
<1>4. Trees(b, Q)
  <2>1. Q \subseteq Live(b) /\ c \in Live(a)
    BY DEF Trees
  <2>2. ASSUME NEW i \in Live(b), NEW k \in Below(b, i)
        PROVE  k \in Live(b) \ Q /\ Parent(b, k) = i
    BY <2>1, <2>2 DEF Trees
  <2>3. ASSUME NEW i \in Live(b) \ Q
        PROVE  Parent(b, i) \in Live(b) /\ i \in Below(b, Parent(b, i))
    <3>1. CASE i = c
      BY <3>1
    <3>2. CASE i # c
      <4>1. Parent(b, i) = Parent(a, i) /\ Parent(a, i) \in Live(a) /\ i \in Below(a, Parent(a, i))
        BY <3>2 DEF Trees
      <4> QED
        BY <4>1
    <3> QED
      BY <3>1, <3>2
  <2> QED
    BY <1>3, <2>1, <2>2, <2>3 DEF Trees
<1> QED
  BY <1>2, <1>4

Cuts(old, new, C) == C \subseteq old /\ new = old \ C

\* Where the nodes are when C, kids of h, become roots.
CutUnder(a, b, O, h, C) ==
  /\ C \cap O = {}
  /\ \A i, R : Under(a, O, i, R) => Under(b, O \cup C, i, R \cup C)
  /\ \A R : Under(a, O, h, R) => Under(b, O \cup C, h, R)
  /\ \A i, R : h \in O \ R /\ Under(a, O, i, R) => Under(b, O \cup C, i, R)

\* Some of a node's kids are cut off: each becomes a root.
LEMMA TreesCut ==
  ASSUME NEW a, NEW b, NEW O, NEW h \in Live(a), NEW C, Trees(a, O),
         Live(b) = Live(a), Cuts(Below(a, h), Below(b, h), C),
         \A i \in Live(a) \ {h} : Below(b, i) = Below(a, i),
         \A i \in Live(a) : Parent(b, i) = Parent(a, i)
  PROVE  Trees(b, O \cup C) /\ CutUnder(a, b, O, h, C)
<1> DEFINE Q == O \cup C
<1> USE DEF Cuts
<1>0. C \subseteq Live(a) \ O /\ \A c \in C : Parent(a, c) = h
  BY DEF Trees
<1>1. ASSUME NEW P, UpClosed(b, Q, P), P \cap C = {}
      PROVE  UpClosed(a, O, P)
  BY <1>1 DEF UpClosed
<1>2. ASSUME NEW P, UpClosed(b, Q, P), h \in P
      PROVE  UpClosed(a, O, P)
  BY <1>0, <1>2 DEF UpClosed
<1>3. ASSUME NEW P, UpClosed(b, Q, P), h \in O
      PROVE  UpClosed(a, O, P \cup {h})
  BY <1>0, <1>3 DEF UpClosed
<1>4. ASSUME NEW i, NEW R, Under(a, O, i, R)
      PROVE  Under(b, Q, i, R \cup C)
  BY <1>1, <1>4 DEF Under
<1>5. ASSUME NEW R, Under(a, O, h, R)
      PROVE  Under(b, Q, h, R)
  BY <1>2, <1>5 DEF Under
<1>6. ASSUME NEW i, NEW R, h \in O \ R, Under(a, O, i, R)
      PROVE  Under(b, Q, i, R)
  <2> SUFFICES ASSUME NEW P, UpClosed(b, Q, P), i \in P
               PROVE  P \cap R # {}
    BY DEF Under
  <2>1. (P \cup {h}) \cap R # {}
    BY <1>3, <1>6 DEF Under
  <2> QED
    BY <1>6, <2>1
<1>7. Trees(b, Q)
  <2>1. Q \subseteq Live(b)
    BY <1>0 DEF Trees
  <2>2. ASSUME NEW i \in Live(b), NEW k \in Below(b, i)
        PROVE  k \in Live(b) \ Q /\ Parent(b, k) = i
    <3>1. k \in Below(a, i) /\ (i = h => k \notin C)
      BY <2>2
    <3>2. k \in Live(a) \ O /\ Parent(a, k) = i
      BY <3>1 DEF Trees
    <3> QED
      BY <1>0, <3>1, <3>2
  <2>3. ASSUME NEW i \in Live(b) \ Q
        PROVE  Parent(b, i) \in Live(b) /\ i \in Below(b, Parent(b, i))
    <3>1. Parent(b, i) = Parent(a, i) /\ Parent(a, i) \in Live(a) /\ i \in Below(a, Parent(a, i))
      BY DEF Trees
    <3> QED
      BY <3>1
  <2>4. \A i \in Live(b) : Under(b, Q, i, Q)
    BY <1>4 DEF Trees
  <2> QED
    BY <2>1, <2>2, <2>3, <2>4 DEF Trees
<1> QED
  BY <1>0, <1>4, <1>5, <1>6, <1>7 DEF CutUnder

\* A root without kids dies.
LEMMA TreesRelease ==
  ASSUME NEW a, NEW b, NEW O, NEW h \in O, Trees(a, O), Below(a, h) = {},
         Live(b) = Live(a) \ {h},
         \A i \in Live(b) : Below(b, i) = Below(a, i) /\ Parent(b, i) = Parent(a, i)
  PROVE  /\ Trees(b, O \ {h})
         /\ \A i, R : Under(a, O, i, R) => Under(b, O \ {h}, i, R \ {h})
<1> DEFINE Q == O \ {h}
<1>1. \A P : UpClosed(b, Q, P) => UpClosed(a, O, P) /\ h \notin P
  BY DEF UpClosed
<1>2. ASSUME NEW i, NEW R, Under(a, O, i, R)
      PROVE  Under(b, Q, i, R \ {h})
  BY <1>1, <1>2 DEF Under
<1>3. Trees(b, Q)
  <2>1. \A i \in Live(b) : Under(b, Q, i, Q)
    BY <1>2 DEF Trees
  <2>2. ASSUME NEW i \in Live(b) \ Q
        PROVE  Parent(b, i) \in Live(b) /\ i \in Below(b, Parent(b, i))
    <3>1. Parent(b, i) = Parent(a, i) /\ Parent(a, i) \in Live(a) /\ i \in Below(a, Parent(a, i))
      BY DEF Trees
    <3> QED
      BY <3>1
  <2>3. ASSUME NEW i \in Live(b), NEW k \in Below(b, i)
        PROVE  k \in Live(b) \ Q /\ Parent(b, k) = i
    BY <2>3 DEF Trees
  <2> QED
    BY <2>1, <2>2, <2>3 DEF Trees
<1> QED
  BY <1>2, <1>3

\* The kids of the root c move to a node that has none and does not hang on c,
\* and c dies.
LEMMA TreesSplice ==
  ASSUME NEW a, NEW b, NEW O, NEW p \in Live(a), NEW c \in O, Trees(a, O),
         p # c, Under(a, O, p, O \ {c}), Below(a, p) = {},
         Live(b) = Live(a) \ {c}, Below(b, p) = Below(a, c),
         \A i \in Live(b) \ {p} : Below(b, i) = Below(a, i),
         \A i \in Below(a, c) : Parent(b, i) = p,
         \A i \in Live(b) \ Below(a, c) : Parent(b, i) = Parent(a, i)
  PROVE  Trees(b, O \ {c})
<1> DEFINE Q == O \ {c}
<1>0. c \in Live(a) /\ Below(a, c) \subseteq Live(b) \ O
  BY DEF Trees, Under
<1>1. \A i \in Live(b) : Under(b, Q, i, Q)
  <2> SUFFICES ASSUME NEW i \in Live(b), NEW P, UpClosed(b, Q, P), i \in P
               PROVE  P \cap Q # {}
    BY DEF Under
  <2>1. CASE p \in P
    <3>1. UpClosed(a, O, P \cup {c})
      BY <1>0 DEF UpClosed, Trees
    <3> QED
      BY <2>1, <3>1 DEF Under
  <2>2. CASE p \notin P
    <3>1. UpClosed(a, O, P) /\ c \notin P
      BY <2>2 DEF UpClosed
    <3> QED
      BY <3>1 DEF Trees, Under
  <2> QED
    BY <2>1, <2>2
<1>2. ASSUME NEW i \in Live(b), NEW k \in Below(b, i)
      PROVE  k \in Live(b) \ Q /\ Parent(b, k) = i
  <2>1. CASE i = p
    BY <1>0, <1>2, <2>1
  <2>2. CASE i # p
    <3>1. k \in Below(a, i) /\ i # c
      BY <1>2, <2>2
    <3>2. k \in Live(a) \ O /\ Parent(a, k) = i
      BY <3>1 DEF Trees
    <3>3. k \notin Below(a, c)
      BY <1>0, <3>1, <3>2 DEF Trees
    <3> QED
      BY <3>2, <3>3
  <2> QED
    BY <2>1, <2>2
<1>3. ASSUME NEW i \in Live(b) \ Q
      PROVE  Parent(b, i) \in Live(b) /\ i \in Below(b, Parent(b, i))
  <2>1. CASE i \in Below(a, c)
    BY <2>1
  <2>2. CASE i \notin Below(a, c)
    <3>1. Parent(b, i) = Parent(a, i) /\ Parent(a, i) \in Live(a) /\ i \in Below(a, Parent(a, i))
      BY <2>2 DEF Trees
    <3> QED
      BY <2>2, <3>1
  <2> QED
    BY <2>1, <2>2
<1>4. Q \subseteq Live(b)
  BY DEF Trees
<1> QED
  BY <1>1, <1>2, <1>3, <1>4 DEF Trees

-------------------------------------------------------------------------------
(* The free list.                                                          *)

\* FreeListIsDead in terms of a sequence of length n.
FreeList(a, n, s) ==
  /\ n \in Nat /\ n = Cardinality(Dead(a))
  /\ s \in [1 .. n -> Dead(a)]
  /\ \A i, j \in 1 .. n : s[i] = s[j] => i = j
  /\ a.free = IF n = 0 THEN None ELSE s[1]
  /\ \A i \in 1 .. n : Parent(a, s[i]) = IF i = n THEN None ELSE s[i + 1]

LEMMA DeadIsFinite ==
  ASSUME NEW a \in Arenas
  PROVE  /\ DOMAIN a.nodes = 1 .. Len(a.nodes) /\ Len(a.nodes) \in Nat
         /\ Dead(a) \subseteq 1 .. Len(a.nodes) /\ Live(a) \subseteq 1 .. Len(a.nodes)
         /\ IsFiniteSet(Dead(a)) /\ Cardinality(Dead(a)) \in Nat
<1>1. a.nodes \in Seq(Nodes)
  BY DEF Arenas
<1>2. DOMAIN a.nodes = 1 .. Len(a.nodes) /\ Len(a.nodes) \in Nat
  BY <1>1, LenProperties
<1>3. Dead(a) \subseteq 1 .. Len(a.nodes) /\ Live(a) \subseteq 1 .. Len(a.nodes)
  BY <1>2 DEF Dead, Live
<1>4. IsFiniteSet(1 .. Len(a.nodes))
  BY <1>2, FS_Interval
<1>5. IsFiniteSet(Dead(a))
  BY <1>3, <1>4, FS_Subset
<1> QED
  BY <1>2, <1>3, <1>5, FS_CardinalityType

LEMMA FreeListForm ==
  ASSUME NEW a \in Arenas
  PROVE  FreeListIsDead(a) <=> \E n, s : FreeList(a, n, s)
<1>1. Cardinality(Dead(a)) \in Nat
  BY DeadIsFinite
<1>2. ASSUME FreeListIsDead(a) PROVE \E n, s : FreeList(a, n, s)
  <2> DEFINE n == Cardinality(Dead(a))
  <2>1. PICK s \in [1 .. n -> Dead(a)] :
          /\ \A i, j \in DOMAIN s : s[i] = s[j] => i = j
          /\ Threads(a, s)
    BY <1>2 DEF FreeListIsDead
  <2> HIDE DEF n
  <2>2. DOMAIN s = 1 .. n /\ n \in Nat /\ n = Cardinality(Dead(a))
    BY <1>1 DEF n
  <2>3. s \in Seq(Dead(a)) /\ Len(s) = n
    BY <2>2, SeqDef
  <2>4. n = 0 <=> s = <<>>
    BY <2>3, EmptySeq
  <2>5. FreeList(a, n, s)
    BY <2>1, <2>2, <2>3, <2>4 DEF FreeList, Threads, Parent
  <2> QED
    BY <2>5
<1>3. ASSUME NEW n, NEW s, FreeList(a, n, s) PROVE FreeListIsDead(a)
  <2>1. DOMAIN s = 1 .. n /\ n \in Nat /\ n = Cardinality(Dead(a)) /\ s \in [1 .. n -> Dead(a)]
    BY <1>3 DEF FreeList
  <2>3. s \in Seq(Dead(a)) /\ Len(s) = n
    BY <2>1, SeqDef
  <2>4. n = 0 <=> s = <<>>
    BY <2>3, EmptySeq
  <2>5. Threads(a, s)
    BY <1>3, <2>1, <2>3, <2>4 DEF FreeList, Threads, Parent
  <2> QED
    BY <1>3, <2>1, <2>5 DEF FreeListIsDead, FreeList
<1> QED
  BY <1>2, <1>3

LEMMA FreeListKeep ==
  ASSUME NEW a \in Arenas, NEW b \in Arenas, FreeListIsDead(a),
         Dead(b) = Dead(a), b.free = a.free, \A i \in Dead(a) : Parent(b, i) = Parent(a, i)
  PROVE  FreeListIsDead(b)
<1>1. PICK n, s : FreeList(a, n, s)
  BY FreeListForm
<1>2. FreeList(b, n, s)
  BY <1>1 DEF FreeList
<1> QED
  BY <1>2, FreeListForm

\* The free list is empty exactly when no slot is dead, and else begins with one.
LEMMA FreeListHead ==
  ASSUME NEW a \in Arenas, FreeListIsDead(a)
  PROVE  /\ a.free = None => Dead(a) = {}
         /\ a.free # None => a.free \in Dead(a)
<1>1. PICK n, s : FreeList(a, n, s)
  BY FreeListForm
<1>2. n \in Nat /\ n = Cardinality(Dead(a)) /\ s \in [1 .. n -> Dead(a)]
      /\ a.free = IF n = 0 THEN None ELSE s[1]
  BY <1>1 DEF FreeList
<1>3. CASE n = 0
  BY <1>2, <1>3, DeadIsFinite, FS_EmptySet
<1>4. CASE n # 0
  <2>1. s[1] \in Dead(a) /\ a.free = s[1]
    BY <1>2, <1>4
  <2>2. s[1] # None
    BY <2>1, DeadIsFinite DEF None
  <2> QED
    BY <2>1, <2>2
<1> QED
  BY <1>3, <1>4

\* allocate takes the first slot.
LEMMA FreeListTake ==
  ASSUME NEW a \in Arenas, NEW b \in Arenas, FreeListIsDead(a), a.free # None,
         Dead(b) = Dead(a) \ {a.free}, b.free = Parent(a, a.free),
         \A i \in Dead(b) : Parent(b, i) = Parent(a, i)
  PROVE  FreeListIsDead(b)
<1>1. PICK n, s : FreeList(a, n, s)
  BY FreeListForm
<1>2. /\ n \in Nat /\ n = Cardinality(Dead(a)) /\ s \in [1 .. n -> Dead(a)]
      /\ a.free = IF n = 0 THEN None ELSE s[1]
      /\ \A i, j \in 1 .. n : s[i] = s[j] => i = j
      /\ \A i \in 1 .. n : Parent(a, s[i]) = IF i = n THEN None ELSE s[i + 1]
  BY <1>1 DEF FreeList
<1>3. n \in Nat \ {0} /\ a.free = s[1] /\ s[1] \in Dead(a)
  BY <1>2
<1> DEFINE t == [i \in 1 .. n - 1 |-> s[i + 1]]
<1>4. n - 1 \in Nat /\ n - 1 = Cardinality(Dead(b))
  <2>1. IsFiniteSet(Dead(a)) /\ a.free \in Dead(a)
    BY <1>3, DeadIsFinite
  <2>2. Cardinality(Dead(a) \ {a.free}) = Cardinality(Dead(a)) - 1
    BY ONLY <2>1, FS_RemoveElement
  <2>3. Cardinality(Dead(b)) = n - 1
    BY <1>2, <2>2
  <2> QED
    BY <1>3, <2>3
<1>5. t \in [1 .. n - 1 -> Dead(b)]
  BY <1>2, <1>3
<1>6. \A i, j \in 1 .. n - 1 : t[i] = t[j] => i = j
  BY <1>2, <1>3
<1>7. b.free = IF n - 1 = 0 THEN None ELSE t[1]
  BY <1>2, <1>3
<1>8. ASSUME NEW i \in 1 .. n - 1
      PROVE  Parent(b, t[i]) = IF i = n - 1 THEN None ELSE t[i + 1]
  <2>1. t[i] = s[i + 1] /\ t[i] \in Dead(b) /\ i + 1 \in 1 .. n
    BY <1>3, <1>5
  <2>2. Parent(b, t[i]) = IF i + 1 = n THEN None ELSE s[i + 2]
    BY <1>2, <2>1
  <2>3. i # n - 1 => t[i + 1] = s[i + 2]
    BY <1>3
  <2> QED
    BY <1>3, <2>2, <2>3
<1>9. FreeList(b, n - 1, t)
  <2> HIDE DEF t
  <2> QED
    BY <1>4, <1>5, <1>6, <1>7, <1>8 DEF FreeList
<1> QED
  BY <1>9, FreeListForm

\* release puts a slot in front.
LEMMA FreeListPut ==
  ASSUME NEW a \in Arenas, NEW b \in Arenas, FreeListIsDead(a), NEW id, id \notin Dead(a),
         Dead(b) = Dead(a) \cup {id}, b.free = id, Parent(b, id) = a.free,
         \A i \in Dead(a) : Parent(b, i) = Parent(a, i)
  PROVE  FreeListIsDead(b)
<1>1. PICK n, s : FreeList(a, n, s)
  BY FreeListForm
<1>2. /\ n \in Nat /\ n = Cardinality(Dead(a)) /\ s \in [1 .. n -> Dead(a)]
      /\ a.free = IF n = 0 THEN None ELSE s[1]
      /\ \A i, j \in 1 .. n : s[i] = s[j] => i = j
      /\ \A i \in 1 .. n : Parent(a, s[i]) = IF i = n THEN None ELSE s[i + 1]
  BY <1>1 DEF FreeList
<1> DEFINE t == [i \in 1 .. n + 1 |-> IF i = 1 THEN id ELSE s[i - 1]]
<1>4. n + 1 \in Nat /\ n + 1 = Cardinality(Dead(b))
  <2>1. IsFiniteSet(Dead(a)) /\ id \notin Dead(a)
    BY DeadIsFinite
  <2>2. Cardinality(Dead(a) \cup {id}) = Cardinality(Dead(a)) + 1
    BY ONLY <2>1, FS_AddElement
  <2>3. Cardinality(Dead(b)) = n + 1
    BY <1>2, <2>2
  <2> QED
    BY <1>2, <2>3
<1>5. t \in [1 .. n + 1 -> Dead(b)]
  BY <1>2
<1>6. \A i, j \in 1 .. n + 1 : t[i] = t[j] => i = j
  <2> SUFFICES ASSUME NEW i \in 1 .. n + 1, NEW j \in 1 .. n + 1, t[i] = t[j] PROVE i = j
    OBVIOUS
  <2>1. \A k \in 2 .. n + 1 : t[k] = s[k - 1] /\ t[k] # id
    BY <1>2
  <2>2. t[1] = id
    BY <1>2
  <2> QED
    BY <1>2, <2>1, <2>2
<1>7. b.free = IF n + 1 = 0 THEN None ELSE t[1]
  BY <1>2
<1>8. ASSUME NEW i \in 1 .. n + 1
      PROVE  Parent(b, t[i]) = IF i = n + 1 THEN None ELSE t[i + 1]
  <2>1. CASE i = 1
    <3>1. t[1] = id
      BY <1>2
    <3>2. n # 0 => t[1 + 1] = s[1]
      BY <1>2
    <3> QED
      BY <1>2, <2>1, <3>1, <3>2
  <2>2. CASE i # 1
    <3>1. t[i] = s[i - 1] /\ t[i] \in Dead(a) /\ i - 1 \in 1 .. n
      BY <1>2, <2>2
    <3>2. Parent(b, t[i]) = IF i - 1 = n THEN None ELSE s[i]
      BY <1>2, <3>1
    <3>3. i # n + 1 => t[i + 1] = s[i]
      BY <1>2
    <3> QED
      BY <1>2, <3>2, <3>3
  <2> QED
    BY <2>1, <2>2
<1>9. FreeList(b, n + 1, t)
  <2> HIDE DEF t
  <2> QED
    BY <1>4, <1>5, <1>6, <1>7, <1>8 DEF FreeList
<1> QED
  BY <1>9, FreeListForm

-------------------------------------------------------------------------------
(* A sound arena, and what the operations on it keep.                      *)

Sound(a, O) ==
  /\ a \in Arenas
  /\ Trees(a, O)
  /\ \A i \in Live(a) : Distinct(a.nodes[i].kids)
  /\ FreeListIsDead(a)
  /\ \A i \in Dead(a) : a.nodes[i].kids = <<>>
  /\ \A i \in Live(a) : a.nodes[i].kids # <<>> => a.nodes[i].type \in Containers

\* No slot is released.
SameLives(a, b) ==
  /\ DOMAIN a.nodes \subseteq DOMAIN b.nodes
  /\ \A i \in DOMAIN a.nodes : b.nodes[i].gen = a.nodes[i].gen /\ b.nodes[i].life = a.nodes[i].life

LEMMA SoundIsForest ==
  ASSUME NEW a, NEW O, Sound(a, O)
  PROVE  IsForest(a, O) /\ FreeListIsDead(a)
BY TreesAreForest DEF Sound

LEMMA NoKids ==
  ASSUME NEW a, NEW i, a.nodes[i].kids = <<>>
  PROVE  Below(a, i) = {} /\ Distinct(a.nodes[i].kids)
<1>1. DOMAIN a.nodes[i].kids = {}
  OBVIOUS
<1> QED
  BY <1>1 DEF Below, Kids, Distinct

LEMMA ArenaFacts ==
  ASSUME NEW a \in Arenas
  PROVE  /\ a.nodes \in Seq(Nodes) /\ a.free \in Nat
         /\ a = [nodes |-> a.nodes, free |-> a.free]
         /\ Len(a.nodes) \in Nat /\ DOMAIN a.nodes = 1 .. Len(a.nodes)
         /\ \A i \in DOMAIN a.nodes : a.nodes[i] \in Nodes
         /\ Live(a) \subseteq DOMAIN a.nodes /\ Dead(a) = DOMAIN a.nodes \ Live(a)
         /\ \A i \in DOMAIN a.nodes : i \in Nat /\ i # None
<1>1. a.nodes \in Seq(Nodes) /\ a.free \in Nat
      /\ a = [nodes |-> a.nodes, free |-> a.free]
  BY DEF Arenas
<1>2. Len(a.nodes) \in Nat /\ DOMAIN a.nodes = 1 .. Len(a.nodes)
  BY <1>1, LenProperties
<1>3. \A i \in DOMAIN a.nodes : a.nodes[i] \in Nodes
  BY <1>1, <1>2, ElementOfSeq
<1> QED
  BY <1>1, <1>2, <1>3 DEF Live, Dead, None

WithNode(a, i, n) == [a EXCEPT !.nodes = [a.nodes EXCEPT ![i] = n]]
WithKids(a, i, kids) == [a EXCEPT !.nodes[i].kids = kids]

\* One node is replaced by another.
LEMMA SetNode ==
  ASSUME NEW a \in Arenas, NEW i \in DOMAIN a.nodes, NEW n \in Nodes, NEW b,
         b = WithNode(a, i, n)
  PROVE  /\ b \in Arenas /\ b.free = a.free
         /\ DOMAIN b.nodes = DOMAIN a.nodes
         /\ b.nodes[i] = n
         /\ \A j \in DOMAIN a.nodes \ {i} : b.nodes[j] = a.nodes[j]
<1>1. a.nodes \in Seq(Nodes) /\ a.free \in Nat /\ i \in 1 .. Len(a.nodes)
      /\ DOMAIN a.nodes = 1 .. Len(a.nodes)
  BY ArenaFacts
<1> DEFINE s == [a.nodes EXCEPT ![i] = n]
<1>2. s \in Seq(Nodes)
  BY <1>1, ExceptSeq
<1>3. b.nodes = s /\ b.free = a.free /\ b = [nodes |-> s, free |-> a.free]
  BY ArenaFacts DEF Arenas, WithNode
<1>4. b \in Arenas
  BY <1>1, <1>2, <1>3 DEF Arenas
<1>5. DOMAIN s = DOMAIN a.nodes /\ s[i] = n /\ \A j \in DOMAIN a.nodes \ {i} : s[j] = a.nodes[j]
  BY <1>1
<1> QED
  BY <1>3, <1>4, <1>5

LEMMA TreesSame ==
  ASSUME NEW a, NEW b, NEW O, Trees(a, O), Live(b) = Live(a),
         \A i \in Live(a) : Below(b, i) = Below(a, i),
         \A i \in Live(a) \ O : Parent(b, i) = Parent(a, i)
  PROVE  /\ Trees(b, O)
         /\ \A i, R : Under(a, O, i, R) => Under(b, O, i, R)
<1>1. \A P : UpClosed(b, O, P) => UpClosed(a, O, P)
  BY DEF UpClosed
<1>2. \A i, R : Under(a, O, i, R) => Under(b, O, i, R)
  BY <1>1 DEF Under
<1>3. Trees(b, O)
  BY <1>2 DEF Trees
<1> QED
  BY <1>2, <1>3

\* A root's parent field, or a node's scalar, is set.
LEMMA SoundFields ==
  ASSUME NEW a, NEW O, Sound(a, O), NEW i \in O, NEW n \in Nodes, NEW b,
         n.kids = a.nodes[i].kids, n.alive = a.nodes[i].alive, n.type = a.nodes[i].type,
         n.gen = a.nodes[i].gen, n.life = a.nodes[i].life,
         b = WithNode(a, i, n)
  PROVE  /\ Sound(b, O) /\ Live(b) = Live(a) /\ SameLives(a, b)
         /\ \A j \in DOMAIN a.nodes : b.nodes[j].type = a.nodes[j].type
                                      /\ b.nodes[j].kids = a.nodes[j].kids
         /\ \A j, R : Under(a, O, j, R) => Under(b, O, j, R)
<1>1. a \in Arenas /\ i \in Live(a) /\ i \in DOMAIN a.nodes
  BY ArenaFacts DEF Sound, Trees
<1>2. /\ b \in Arenas /\ b.free = a.free
      /\ DOMAIN b.nodes = DOMAIN a.nodes
      /\ b.nodes[i] = n
      /\ \A j \in DOMAIN a.nodes \ {i} : b.nodes[j] = a.nodes[j]
  BY <1>1, SetNode
<1>3. \A j \in DOMAIN a.nodes : /\ b.nodes[j].type = a.nodes[j].type
                                /\ b.nodes[j].kids = a.nodes[j].kids
                                /\ b.nodes[j].alive = a.nodes[j].alive
                                /\ b.nodes[j].gen = a.nodes[j].gen
                                /\ b.nodes[j].life = a.nodes[j].life
                                /\ j # i => Parent(b, j) = Parent(a, j)
  BY <1>2 DEF Parent
<1>4. Live(b) = Live(a) /\ Dead(b) = Dead(a) /\ SameLives(a, b)
  BY <1>2, <1>3 DEF Live, Dead, SameLives
<1>5. \A j \in Live(a) : Below(b, j) = Below(a, j)
  BY <1>1, <1>3, ArenaFacts DEF Below, Kids
<1>6. Live(a) \subseteq DOMAIN a.nodes /\ Dead(a) \subseteq DOMAIN a.nodes \ Live(a)
  BY <1>1, ArenaFacts
<1>7. Trees(b, O) /\ \A j, R : Under(a, O, j, R) => Under(b, O, j, R)
  <2>1. \A j \in Live(a) \ O : Parent(b, j) = Parent(a, j)
    BY <1>3, <1>6
  <2> QED
    BY <1>4, <1>5, <2>1, TreesSame DEF Sound
<1>8. FreeListIsDead(b)
  <2>1. \A j \in Dead(a) : Parent(b, j) = Parent(a, j)
    BY <1>1, <1>3, <1>6
  <2> QED
    BY <1>1, <1>2, <1>4, <2>1, FreeListKeep DEF Sound
<1>9. Sound(b, O)
  <2>1. \A j \in Live(b) : Distinct(b.nodes[j].kids)
    BY <1>3, <1>4, <1>6 DEF Sound
  <2>2. \A j \in Dead(b) : b.nodes[j].kids = <<>>
    BY <1>3, <1>4, <1>6 DEF Sound
  <2>3. \A j \in Live(b) : b.nodes[j].kids # <<>> => b.nodes[j].type \in Containers
    BY <1>3, <1>4, <1>6 DEF Sound
  <2> QED
    BY <1>2, <1>7, <1>8, <2>1, <2>2, <2>3 DEF Sound
<1> QED
  BY <1>3, <1>4, <1>7, <1>9

LEMMA AllocateFacts ==
  ASSUME NEW a \in Arenas, FreeListIsDead(a), NEW type \in NodeTypes,
         \A i \in Dead(a) : a.nodes[i].kids = <<>>,
         NEW b, b = Allocate(a, type), NEW id, id = Slot(a)
  PROVE  /\ b \in Arenas /\ id \in Nat /\ id # None /\ id \notin Live(a)
         /\ DOMAIN b.nodes = DOMAIN a.nodes \cup {id}
         /\ b.free = IF a.free # None THEN Parent(a, a.free) ELSE None
         /\ a.free = None => id \notin DOMAIN a.nodes
         /\ a.free # None => id = a.free
         /\ b.nodes[id].type = type /\ b.nodes[id].kids = <<>> /\ b.nodes[id].alive
         /\ b.nodes[id].parent = None
         /\ \A j \in DOMAIN a.nodes \ {id} : b.nodes[j] = a.nodes[j]
         /\ id \in DOMAIN a.nodes => /\ b.nodes[id].gen = a.nodes[id].gen
                                     /\ b.nodes[id].life = a.nodes[id].life
<1>0. /\ a.nodes \in Seq(Nodes) /\ a.free \in Nat /\ Len(a.nodes) \in Nat
      /\ DOMAIN a.nodes = 1 .. Len(a.nodes)
      /\ \A i \in DOMAIN a.nodes : a.nodes[i] \in Nodes
      /\ Live(a) \subseteq DOMAIN a.nodes /\ Dead(a) = DOMAIN a.nodes \ Live(a)
  BY ArenaFacts
<1>1. NoScalar \in Scalars /\ 0 \in 0 .. GenModulus - 1 /\ None = 0
  BY ModelAssumption, GenAssumption DEF None
<1>2. CASE a.free # None
  <2>1. id = a.free /\ id \in Dead(a) /\ id \in DOMAIN a.nodes /\ id \notin Live(a) /\ id \in Nat
    BY <1>0, <1>2, FreeListHead DEF Slot
  <2> DEFINE old == a.nodes[id]
             n == [old EXCEPT !.type = type, !.scalar = NoScalar, !.parent = None, !.alive = TRUE]
             s == [a.nodes EXCEPT ![id] = n]
  <2>2. old \in Nodes /\ old.kids = <<>>
    BY <1>0, <2>1
  <2>3. n \in Nodes /\ n.type = type /\ n.kids = old.kids /\ n.alive /\ n.parent = None
        /\ n.gen = old.gen /\ n.life = old.life
    BY <1>1, <2>2 DEF Nodes, None
  <2>4. b = [free |-> old.parent, nodes |-> s]
    BY <1>2, <2>1 DEF Allocate
  <2> HIDE DEF n
  <2>5. s \in Seq(Nodes)
    BY <1>0, <2>1, <2>3, ExceptSeq
  <2>6. DOMAIN s = DOMAIN a.nodes /\ s[id] = n /\ \A j \in DOMAIN a.nodes \ {id} : s[j] = a.nodes[j]
    BY <1>0, <2>1
  <2>7. old.parent \in Nat
    BY <2>2 DEF Nodes
  <2> HIDE DEF s
  <2>8. b \in Arenas /\ b.nodes = s /\ b.free = old.parent
    BY <2>4, <2>5, <2>7 DEF Arenas
  <2> QED
    BY <1>2, <2>1, <2>2, <2>3, <2>6, <2>8 DEF Parent
<1>3. CASE a.free = None
  <2>1. id = Len(a.nodes) + 1 /\ id \in Nat /\ id # None /\ id \notin DOMAIN a.nodes
    BY <1>0, <1>1, <1>3 DEF Slot
  <2> DEFINE n == [type |-> type, scalar |-> NoScalar, kids |-> <<>>,
                   parent |-> None, gen |-> 0, alive |-> TRUE, life |-> 0]
             s == Append(a.nodes, n)
  <2>2. n \in Nodes /\ n.type = type /\ n.kids = <<>> /\ n.alive /\ n.parent = None
    BY <1>1 DEF Nodes
  <2>3. b = [free |-> None, nodes |-> s]
    BY <1>3 DEF Allocate
  <2> HIDE DEF n
  <2>4. /\ s \in Seq(Nodes) /\ Len(s) = Len(a.nodes) + 1
        /\ \A i \in 1 .. Len(a.nodes) : s[i] = a.nodes[i]
        /\ s[Len(a.nodes) + 1] = n
    BY <1>0, <2>2, AppendProperties
  <2>5. DOMAIN s = 1 .. Len(a.nodes) + 1
    BY <2>4, LenProperties
  <2> HIDE DEF s
  <2>6. b \in Arenas /\ b.nodes = s /\ b.free = None
    BY <1>1, <2>3, <2>4 DEF Arenas
  <2>7. DOMAIN b.nodes = DOMAIN a.nodes \cup {id}
    BY <1>0, <2>1, <2>5, <2>6
  <2>8. \A j \in DOMAIN a.nodes \ {id} : b.nodes[j] = a.nodes[j]
    BY <1>0, <2>4, <2>6
  <2> QED
    BY <1>0, <1>3, <2>1, <2>2, <2>4, <2>6, <2>7, <2>8
<1> QED
  BY <1>2, <1>3

LEMMA SoundAllocate ==
  ASSUME NEW a, NEW O, Sound(a, O), NEW type \in NodeTypes,
         NEW b, b = Allocate(a, type), NEW id, id = Slot(a)
  PROVE  /\ Sound(b, O \cup {id})
         /\ id \in Nat /\ id # None /\ id \notin Live(a) /\ Live(b) = Live(a) \cup {id}
         /\ SameLives(a, b)
         /\ b.nodes[id].type = type
         /\ \A i \in Live(a) : b.nodes[i] = a.nodes[i]
         /\ \A i \in Live(a) : \A R : Under(a, O, i, R) => Under(b, O \cup {id}, i, R)
<1>0. a \in Arenas /\ FreeListIsDead(a) /\ \A i \in Dead(a) : a.nodes[i].kids = <<>>
  BY DEF Sound
<1>1. /\ b \in Arenas /\ id \in Nat /\ id # None /\ id \notin Live(a)
      /\ DOMAIN b.nodes = DOMAIN a.nodes \cup {id}
      /\ b.free = IF a.free # None THEN Parent(a, a.free) ELSE None
      /\ a.free = None => id \notin DOMAIN a.nodes
      /\ a.free # None => id = a.free
      /\ b.nodes[id].type = type /\ b.nodes[id].kids = <<>> /\ b.nodes[id].alive
      /\ \A j \in DOMAIN a.nodes \ {id} : b.nodes[j] = a.nodes[j]
      /\ id \in DOMAIN a.nodes => /\ b.nodes[id].gen = a.nodes[id].gen
                                  /\ b.nodes[id].life = a.nodes[id].life
  BY <1>0, AllocateFacts
<1>2. Live(a) \subseteq DOMAIN a.nodes /\ Dead(a) = DOMAIN a.nodes \ Live(a)
  BY <1>0, ArenaFacts
<1>3. \A i \in Live(a) : i # id /\ b.nodes[i] = a.nodes[i]
  BY <1>1, <1>2
<1>4. Live(b) = Live(a) \cup {id}
  BY <1>1 DEF Live
<1>5. Dead(b) = Dead(a) \ {id}
  BY <1>1, <1>2, <1>4 DEF Dead
<1>6. \A i \in Dead(b) : b.nodes[i] = a.nodes[i]
  BY <1>1, <1>2, <1>5
<1>7. SameLives(a, b)
  BY <1>1 DEF SameLives
<1>8. /\ Trees(b, O \cup {id})
      /\ \A i \in Live(a) : \A R : Under(a, O, i, R) => Under(b, O \cup {id}, i, R)
  <2>1. Below(b, id) = {}
    BY <1>1, NoKids
  <2>2. \A i \in Live(a) : Below(b, i) = Below(a, i) /\ Parent(b, i) = Parent(a, i)
    BY <1>3 DEF Below, Parent
  <2> QED
    BY <1>1, <1>4, <2>1, <2>2, TreesGrow DEF Sound
<1>9. FreeListIsDead(b)
  <2>1. \A i \in Dead(b) : Parent(b, i) = Parent(a, i)
    BY <1>6 DEF Parent
  <2>2. CASE a.free = None
    <3>1. Dead(b) = Dead(a) /\ b.free = a.free
      BY <1>1, <1>2, <1>5, <2>2
    <3> QED
      BY <1>0, <1>1, <2>1, <3>1, FreeListKeep
  <2>3. CASE a.free # None
    <3>1. Dead(b) = Dead(a) \ {a.free} /\ b.free = Parent(a, a.free)
      BY <1>1, <1>5, <2>3
    <3> QED
      BY <1>0, <1>1, <2>1, <2>3, <3>1, FreeListTake
  <2> QED
    BY <2>2, <2>3
<1>10. Sound(b, O \cup {id})
  <2>1. \A i \in Live(b) : Distinct(b.nodes[i].kids)
    BY <1>1, <1>3, <1>4, NoKids DEF Sound
  <2>2. \A i \in Dead(b) : b.nodes[i].kids = <<>>
    BY <1>0, <1>5, <1>6
  <2>3. \A i \in Live(b) : b.nodes[i].kids # <<>> => b.nodes[i].type \in Containers
    BY <1>1, <1>3, <1>4 DEF Sound
  <2> QED
    BY <1>1, <1>8, <1>9, <2>1, <2>2, <2>3 DEF Sound
<1> QED
  BY <1>1, <1>3, <1>4, <1>7, <1>8, <1>10

-------------------------------------------------------------------------------
(* The lists of kids.                                                      *)

Links == [key : Keys, id : Nat]

Ids(kids) == {kids[k].id : k \in DOMAIN kids}

LEMMA BelowIsIds ==
  ASSUME NEW a, NEW i
  PROVE  Below(a, i) = Ids(a.nodes[i].kids)
BY DEF Below, Kids, Ids

LEMMA NodeKids ==
  ASSUME NEW a \in Arenas, NEW i \in DOMAIN a.nodes
  PROVE  a.nodes[i].kids \in Seq(Links)
BY ArenaFacts DEF Nodes, Links

LEMMA AppendKid ==
  ASSUME NEW kids \in Seq(Links), NEW new \in Links
  PROVE  /\ Append(kids, new) \in Seq(Links)
         /\ Ids(Append(kids, new)) = Ids(kids) \cup {new.id}
         /\ Distinct(kids) /\ new.id \notin Ids(kids) => Distinct(Append(kids, new))
<1> DEFINE s == Append(kids, new)
           n == Len(kids)
<1>1. n \in Nat /\ DOMAIN kids = 1 .. n
  BY LenProperties
<1>2. /\ s \in Seq(Links) /\ Len(s) = n + 1
      /\ \A i \in 1 .. n : s[i] = kids[i]
      /\ s[n + 1] = new
  BY AppendProperties
<1>3. DOMAIN s = 1 .. n + 1
  BY <1>2, LenProperties
<1> HIDE DEF s, n
<1>4. Ids(s) \subseteq Ids(kids) \cup {new.id}
  <2> SUFFICES ASSUME NEW k \in 1 .. n + 1 PROVE s[k].id \in Ids(kids) \cup {new.id}
    BY <1>3 DEF Ids
  <2> QED
    BY <1>1, <1>2 DEF Ids
<1>5. Ids(kids) \subseteq Ids(s)
  <2> SUFFICES ASSUME NEW k \in 1 .. n PROVE kids[k].id \in Ids(s)
    BY <1>1 DEF Ids
  <2>1. k \in DOMAIN s /\ s[k] = kids[k]
    BY <1>1, <1>2, <1>3
  <2> QED
    BY <2>1 DEF Ids
<1>6. new.id \in Ids(s)
  <2>1. n + 1 \in DOMAIN s /\ s[n + 1] = new
    BY <1>1, <1>2, <1>3
  <2> QED
    BY <2>1 DEF Ids
<1>7. ASSUME Distinct(kids), new.id \notin Ids(kids) PROVE Distinct(s)
  <2> SUFFICES ASSUME NEW k \in 1 .. n + 1, NEW l \in 1 .. n + 1, s[k].id = s[l].id, k # l
               PROVE  FALSE
    BY <1>3 DEF Distinct
  <2>1. \A m \in 1 .. n : s[m].id = kids[m].id /\ kids[m].id # new.id
    BY <1>1, <1>2, <1>7 DEF Ids
  <2>2. \A m, o \in 1 .. n : kids[m].id = kids[o].id => m = o
    BY <1>1, <1>7 DEF Distinct
  <2>3. s[n + 1].id = new.id
    BY <1>2
  <2>4. k \in 1 .. n \/ k = n + 1
    BY <1>1
  <2>5. l \in 1 .. n \/ l = n + 1
    BY <1>1
  <2> QED
    BY <2>1, <2>2, <2>3, <2>4, <2>5
<1> QED
  BY <1>2, <1>4, <1>5, <1>6, <1>7 DEF s

LEMMA RemoveKid ==
  ASSUME NEW kids \in Seq(Links), NEW place \in DOMAIN kids, Distinct(kids)
  PROVE  /\ Ext!RemoveAt(kids, place) \in Seq(Links)
         /\ Ids(Ext!RemoveAt(kids, place)) = Ids(kids) \ {kids[place].id}
         /\ Distinct(Ext!RemoveAt(kids, place))
<1> DEFINE s == Ext!RemoveAt(kids, place)
           n == Len(kids)
           front == SubSeq(kids, 1, place - 1)
           back == SubSeq(kids, place + 1, n)
<1>1. n \in Nat /\ DOMAIN kids = 1 .. n /\ place \in 1 .. n
  BY LenProperties
<1>2. \A i \in 1 .. n : kids[i] \in Links
  BY <1>1, ElementOfSeq
<1>3. /\ front \in Seq(Links) /\ Len(front) = place - 1
      /\ \A i \in 1 .. place - 1 : front[i] = kids[i]
  <2>1. \A i \in 1 .. place - 1 : kids[i] \in Links
    BY <1>1, <1>2
  <2>2. /\ front \in Seq(Links)
        /\ Len(front) = IF 1 <= place - 1 THEN place - 1 - 1 + 1 ELSE 0
        /\ \A i \in 1 .. place - 1 - 1 + 1 : front[i] = kids[1 + i - 1]
    BY <1>1, <2>1, SubSeqProperties
  <2> HIDE DEF front
  <2> QED
    BY <1>1, <2>2
<1>4. /\ back \in Seq(Links) /\ Len(back) = n - place
      /\ \A i \in 1 .. n - place : back[i] = kids[place + i]
  <2>1. \A i \in place + 1 .. n : kids[i] \in Links
    BY <1>1, <1>2
  <2>2. /\ back \in Seq(Links)
        /\ Len(back) = IF place + 1 <= n THEN n - (place + 1) + 1 ELSE 0
        /\ \A i \in 1 .. n - (place + 1) + 1 : back[i] = kids[(place + 1) + i - 1]
    BY <1>1, <2>1, SubSeqProperties
  <2> HIDE DEF back, n
  <2>3. Len(back) = n - place
    BY <1>1, <2>2
  <2>4. ASSUME NEW i \in 1 .. n - place PROVE back[i] = kids[place + i]
    <3>1. i \in 1 .. n - (place + 1) + 1 /\ (place + 1) + i - 1 = place + i
      BY <1>1
    <3> QED
      BY <2>2, <3>1
  <2> QED
    BY <2>2, <2>3, <2>4
<1>5. s = front \o back
  BY DEF Ext!RemoveAt
<1> HIDE DEF s, front, back, n
<1>6. /\ s \in Seq(Links) /\ Len(s) = n - 1
      /\ \A i \in 1 .. n - 1 : s[i] = IF i < place THEN kids[i] ELSE kids[i + 1]
  <2>1. /\ front \o back \in Seq(Links) /\ Len(front \o back) = Len(front) + Len(back)
        /\ \A i \in 1 .. Len(front) + Len(back) : (front \o back)[i] =
               IF i <= Len(front) THEN front[i] ELSE back[i - Len(front)]
    BY <1>3, <1>4, ConcatProperties
  <2>2. Len(s) = n - 1
    BY <1>1, <1>3, <1>4, <1>5, <2>1
  <2>3. ASSUME NEW i \in 1 .. n - 1 PROVE s[i] = IF i < place THEN kids[i] ELSE kids[i + 1]
    <3>1. s[i] = IF i <= place - 1 THEN front[i] ELSE back[i - (place - 1)]
      BY <1>1, <1>3, <1>4, <1>5, <2>1
    <3>2. CASE i < place
      BY <1>1, <1>3, <3>1, <3>2
    <3>3. CASE ~(i < place)
      <4>1. i - (place - 1) \in 1 .. n - place
        BY <1>1, <3>3
      <4> QED
        BY <1>1, <1>4, <3>1, <3>3, <4>1
    <3> QED
      BY <3>2, <3>3
  <2> QED
    BY <1>5, <2>1, <2>2, <2>3
<1>7. DOMAIN s = 1 .. n - 1
  BY <1>6, LenProperties
<1>8. \A k, l \in 1 .. n : kids[k].id = kids[l].id => k = l
  BY <1>1 DEF Distinct
<1>9. Ids(s) = Ids(kids) \ {kids[place].id}
  <2>1. ASSUME NEW i \in 1 .. n - 1 PROVE s[i].id \in Ids(kids) \ {kids[place].id}
    <3>1. PICK k \in 1 .. n : k # place /\ s[i] = kids[k]
      BY <1>1, <1>6
    <3> QED
      BY <1>1, <1>8, <3>1 DEF Ids
  <2>2. ASSUME NEW k \in 1 .. n, k # place PROVE kids[k].id \in Ids(s)
    <3>1. PICK i \in 1 .. n - 1 : s[i] = kids[k]
      <4>1. CASE k < place
        <5>1. k \in 1 .. n - 1 /\ s[k] = kids[k]
          BY <1>1, <1>6, <4>1
        <5> QED
          BY <5>1
      <4>2. CASE k > place
        <5>1. k - 1 \in 1 .. n - 1 /\ s[k - 1] = kids[k]
          BY <1>1, <1>6, <4>2
        <5> QED
          BY <5>1
      <4> QED
        BY <1>1, <2>2, <4>1, <4>2
    <3> QED
      BY <1>7, <3>1 DEF Ids
  <2> QED
    BY <1>1, <1>7, <2>1, <2>2 DEF Ids
<1>10. Distinct(s)
  <2> SUFFICES ASSUME NEW i \in 1 .. n - 1, NEW j \in 1 .. n - 1, s[i].id = s[j].id
               PROVE  i = j
    BY <1>7 DEF Distinct
  <2> DEFINE From(k) == IF k < place THEN k ELSE k + 1
  <2>1. \A k \in 1 .. n - 1 : From(k) \in 1 .. n /\ s[k] = kids[From(k)]
    BY <1>1, <1>6
  <2>2. \A k, l \in 1 .. n - 1 : From(k) = From(l) => k = l
    BY <1>1
  <2> HIDE DEF From
  <2>3. From(i) = From(j)
    BY <1>8, <2>1
  <2> QED
    BY <2>2, <2>3
<1> QED
  BY <1>6, <1>9, <1>10 DEF s

LEMMA NewKids ==
  ASSUME NEW a \in Arenas, NEW h \in DOMAIN a.nodes, NEW ks \in Seq(Links), NEW b,
         b = WithKids(a, h, ks)
  PROVE  /\ b \in Arenas /\ b.free = a.free /\ DOMAIN b.nodes = DOMAIN a.nodes
         /\ b.nodes[h].kids = ks
         /\ \A j \in DOMAIN a.nodes \ {h} : b.nodes[j] = a.nodes[j]
         /\ \A j \in DOMAIN a.nodes : b.nodes[j].type = a.nodes[j].type /\ Parent(b, j) = Parent(a, j)
         /\ Live(b) = Live(a) /\ Dead(b) = Dead(a) /\ SameLives(a, b)
<1> DEFINE n == [a.nodes[h] EXCEPT !.kids = ks]
<1>1. n \in Nodes /\ n.kids = ks /\ n.type = a.nodes[h].type /\ n.parent = a.nodes[h].parent
      /\ n.alive = a.nodes[h].alive /\ n.gen = a.nodes[h].gen /\ n.life = a.nodes[h].life
  <2>1. a.nodes[h] \in Nodes
    BY ArenaFacts
  <2> QED
    BY <2>1 DEF Nodes, Links
<1>2. b = WithNode(a, h, n)
  BY DEF WithKids, WithNode
<1> HIDE DEF n
<1>3. /\ b \in Arenas /\ b.free = a.free
      /\ DOMAIN b.nodes = DOMAIN a.nodes
      /\ b.nodes[h] = n
      /\ \A j \in DOMAIN a.nodes \ {h} : b.nodes[j] = a.nodes[j]
  BY <1>1, <1>2, SetNode
<1>4. \A j \in DOMAIN a.nodes : /\ b.nodes[j].type = a.nodes[j].type
                                /\ b.nodes[j].alive = a.nodes[j].alive
                                /\ b.nodes[j].gen = a.nodes[j].gen
                                /\ b.nodes[j].life = a.nodes[j].life
                                /\ b.nodes[j].parent = a.nodes[j].parent
  BY <1>1, <1>3
<1>5. Live(b) = Live(a) /\ Dead(b) = Dead(a) /\ SameLives(a, b)
  BY <1>3, <1>4 DEF Live, Dead, SameLives
<1> QED
  BY <1>1, <1>3, <1>4, <1>5 DEF Parent

\* Kids of a live node are cut off, and become roots.
LEMMA SoundCut ==
  ASSUME NEW a, NEW O, Sound(a, O), NEW h \in Live(a), NEW ks \in Seq(Links), Distinct(ks),
         NEW C, Cuts(Below(a, h), Ids(ks), C),
         a.nodes[h].kids = <<>> => ks = <<>>,
         NEW b, b = WithKids(a, h, ks)
  PROVE  /\ Sound(b, O \cup C) /\ Live(b) = Live(a) /\ SameLives(a, b)
         /\ b.nodes[h].kids = ks
         /\ \A j \in Live(a) \ {h} : b.nodes[j] = a.nodes[j]
         /\ \A j \in Live(a) : b.nodes[j].type = a.nodes[j].type
         /\ CutUnder(a, b, O, h, C)
<1>0. a \in Arenas /\ Live(a) \subseteq DOMAIN a.nodes /\ Dead(a) = DOMAIN a.nodes \ Live(a)
  BY ArenaFacts DEF Sound
<1>1. /\ b \in Arenas /\ b.free = a.free /\ DOMAIN b.nodes = DOMAIN a.nodes
      /\ b.nodes[h].kids = ks
      /\ \A j \in DOMAIN a.nodes \ {h} : b.nodes[j] = a.nodes[j]
      /\ \A j \in DOMAIN a.nodes : b.nodes[j].type = a.nodes[j].type /\ Parent(b, j) = Parent(a, j)
      /\ Live(b) = Live(a) /\ Dead(b) = Dead(a) /\ SameLives(a, b)
  BY <1>0, NewKids
<1>2. Trees(b, O \cup C) /\ CutUnder(a, b, O, h, C)
  <2>1. Cuts(Below(a, h), Below(b, h), C)
    BY <1>1, BelowIsIds
  <2>2. \A i \in Live(a) \ {h} : Below(b, i) = Below(a, i)
    BY <1>0, <1>1 DEF Below
  <2>3. \A i \in Live(a) : Parent(b, i) = Parent(a, i)
    BY <1>0, <1>1
  <2>4. Trees(a, O) /\ Live(b) = Live(a)
    BY <1>1 DEF Sound
  <2> QED
    BY <2>1, <2>2, <2>3, <2>4, TreesCut
<1>3. FreeListIsDead(b)
  BY <1>0, <1>1, FreeListKeep DEF Sound
<1>4. \A j \in Live(b) : Distinct(b.nodes[j].kids)
  BY <1>0, <1>1 DEF Sound
<1>5. \A j \in Dead(b) : b.nodes[j].kids = <<>>
  BY <1>0, <1>1 DEF Sound
<1>6. \A j \in Live(b) : b.nodes[j].kids # <<>> => b.nodes[j].type \in Containers
  BY <1>0, <1>1 DEF Sound
<1>7. Sound(b, O \cup C)
  BY <1>1, <1>2, <1>3, <1>4, <1>5, <1>6 DEF Sound
<1> QED
  BY <1>0, <1>1, <1>2, <1>7

\* b is a with all the kids of h cut off.
Detached(a, b, O, h) ==
  /\ Sound(b, O \cup Below(a, h)) /\ Live(b) = Live(a) /\ SameLives(a, b)
  /\ b.nodes[h].kids = <<>>
  /\ \A j \in Live(a) \ {h} : b.nodes[j] = a.nodes[j]
  /\ \A j \in Live(a) : b.nodes[j].type = a.nodes[j].type
  /\ CutUnder(a, b, O, h, Below(a, h))

LEMMA SoundDetach ==
  ASSUME NEW a, NEW O, Sound(a, O), NEW h \in Live(a),
         NEW b, b = WithKids(a, h, <<>>)
  PROVE  Detached(a, b, O, h)
<1>1. <<>> \in Seq(Links)
  BY EmptySeq
<1>2. Distinct(<<>>) /\ Ids(<<>>) = {}
  BY DEF Distinct, Ids
<1> DEFINE ks == <<>>
           C == Below(a, h)
<1>3. Cuts(C, Ids(ks), C)
  BY <1>2 DEF Cuts
<1>4. ks \in Seq(Links) /\ Distinct(ks) /\ b = WithKids(a, h, ks)
      /\ (a.nodes[h].kids = <<>> => ks = <<>>)
  BY <1>1, <1>2
<1>5. ks = <<>>
  OBVIOUS
<1> HIDE DEF ks, C
<1>6. /\ Sound(b, O \cup C) /\ Live(b) = Live(a) /\ SameLives(a, b)
      /\ b.nodes[h].kids = ks
      /\ \A j \in Live(a) \ {h} : b.nodes[j] = a.nodes[j]
      /\ \A j \in Live(a) : b.nodes[j].type = a.nodes[j].type
      /\ CutUnder(a, b, O, h, C)
  BY <1>3, <1>4, SoundCut DEF C
<1> QED
  BY <1>5, <1>6 DEF C, Detached

LEMMA SoundUnlink ==
  ASSUME NEW a, NEW O, Sound(a, O), NEW p \in Live(a), NEW place \in DOMAIN a.nodes[p].kids,
         NEW t, t = a.nodes[p].kids[place].id,
         NEW b, b = WithKids(a, p, Ext!RemoveAt(a.nodes[p].kids, place))
  PROVE  Sound(b, O \cup {t}) /\ SameLives(a, b) /\ t \notin O /\ Live(b) = Live(a)
<1> DEFINE kids == a.nodes[p].kids
           ks == Ext!RemoveAt(kids, place)
<1>1. kids \in Seq(Links) /\ Distinct(kids)
  <2>1. a \in Arenas /\ p \in DOMAIN a.nodes
    BY ArenaFacts DEF Sound
  <2> QED
    BY <2>1, NodeKids DEF Sound
<1>2. /\ ks \in Seq(Links)
      /\ Ids(ks) = Ids(kids) \ {t}
      /\ Distinct(ks)
  BY <1>1, RemoveKid
<1>3. Cuts(Below(a, p), Ids(ks), {t})
  BY <1>2, BelowIsIds DEF Ids, Cuts
<1>4. /\ Sound(a, O) /\ p \in Live(a) /\ (a.nodes[p].kids = <<>> => ks = <<>>)
      /\ ks \in Seq(Links) /\ Distinct(ks)
  BY <1>2
<1> HIDE DEF ks
<1>5. b = WithKids(a, p, ks)
  BY DEF ks
<1> DEFINE C == {t}
<1>6. Cuts(Below(a, p), Ids(ks), C)
  BY <1>3
<1> HIDE DEF C
<1>7. Sound(b, O \cup C) /\ Live(b) = Live(a) /\ SameLives(a, b) /\ CutUnder(a, b, O, p, C)
  BY <1>4, <1>5, <1>6, SoundCut
<1> QED
  BY <1>7 DEF CutUnder, C

\* b is a with the root c linked somewhere.
LinkUnder(a, b, O, c) ==
  /\ Sound(b, O \ {c}) /\ Live(b) = Live(a) /\ SameLives(a, b)
  /\ \A j \in Live(a) : b.nodes[j].type = a.nodes[j].type
  /\ \A i, R : Under(a, O, i, R) => Under(b, O \ {c}, i, R)

\* A root is linked under a container that does not hang on it.
LEMMA SoundLink ==
  ASSUME NEW a, NEW O, Sound(a, O), NEW p \in Live(a), NEW c \in O, p # c, NEW key \in Keys,
         Under(a, O, p, O \ {c}), a.nodes[p].type \in Containers,
         NEW b, b = Link(a, p, key, c)
  PROVE  LinkUnder(a, b, O, c)
<1>0. a \in Arenas /\ Live(a) \subseteq DOMAIN a.nodes /\ c \in Live(a) /\ p \in Nat /\ c \in Nat
  BY ArenaFacts DEF Sound, Trees
<1> DEFINE n == [a.nodes[c] EXCEPT !.parent = p]
           m == WithNode(a, c, n)
           new == [key |-> key, id |-> c]
           ks == Append(a.nodes[p].kids, new)
<1>1. n \in Nodes /\ n.parent = p /\ n.kids = a.nodes[c].kids /\ n.alive = a.nodes[c].alive
      /\ n.type = a.nodes[c].type /\ n.gen = a.nodes[c].gen /\ n.life = a.nodes[c].life
  <2>1. a.nodes[c] \in Nodes
    BY <1>0, ArenaFacts
  <2> QED
    BY <1>0, <2>1 DEF Nodes
<1>2. b = WithKids(m, p, Append(m.nodes[p].kids, new))
  BY <1>0, ArenaFacts DEF Link, WithKids, WithNode
<1> HIDE DEF n
<1>3. /\ m \in Arenas /\ DOMAIN m.nodes = DOMAIN a.nodes /\ m.nodes[c] = n
      /\ \A j \in DOMAIN a.nodes \ {c} : m.nodes[j] = a.nodes[j]
  BY <1>0, <1>1, SetNode
<1>4. /\ Sound(m, O) /\ Live(m) = Live(a) /\ SameLives(a, m)
      /\ \A j \in DOMAIN a.nodes : m.nodes[j].type = a.nodes[j].type
                                   /\ m.nodes[j].kids = a.nodes[j].kids
      /\ \A j, R : Under(a, O, j, R) => Under(m, O, j, R)
  BY <1>1, SoundFields
<1> HIDE DEF m
<1>5. new \in Links /\ new.id = c
  BY <1>0 DEF Links
<1> HIDE DEF new
<1>6. a.nodes[p].kids \in Seq(Links) /\ p \in DOMAIN a.nodes
  BY <1>0, NodeKids
<1>7. /\ ks \in Seq(Links)
      /\ Ids(ks) = Ids(a.nodes[p].kids) \cup {c}
      /\ Distinct(a.nodes[p].kids) /\ c \notin Ids(a.nodes[p].kids) => Distinct(ks)
  BY <1>5, <1>6, AppendKid
<1>8. b = WithKids(m, p, ks)
  BY <1>2, <1>4, <1>6
<1> HIDE DEF ks
<1>9. Distinct(ks)
  <2>1. c \notin Below(a, p)
    BY DEF Sound, Trees
  <2> QED
    BY <1>7, <2>1, BelowIsIds DEF Sound
<1>10. /\ b \in Arenas /\ b.free = m.free /\ DOMAIN b.nodes = DOMAIN m.nodes
       /\ b.nodes[p].kids = ks
       /\ \A j \in DOMAIN m.nodes \ {p} : b.nodes[j] = m.nodes[j]
       /\ \A j \in DOMAIN m.nodes : b.nodes[j].type = m.nodes[j].type /\ Parent(b, j) = Parent(m, j)
       /\ Live(b) = Live(m) /\ Dead(b) = Dead(m) /\ SameLives(m, b)
  BY <1>3, <1>6, <1>7, <1>8, NewKids
<1>11. /\ Trees(b, O \ {c})
       /\ \A i, R : Under(m, O, i, R) => Under(b, O \ {c}, i, R)
  <2>1. Below(b, p) = Below(m, p) \cup {c}
    BY <1>4, <1>6, <1>7, <1>10, BelowIsIds
  <2>2. \A i \in Live(m) \ {p} : Below(b, i) = Below(m, i)
    BY <1>0, <1>3, <1>4, <1>10 DEF Below
  <2>3. Parent(b, c) = p
    BY <1>0, <1>1, <1>3, <1>10 DEF Parent
  <2>4. \A i \in Live(m) : Parent(b, i) = Parent(m, i)
    BY <1>0, <1>3, <1>4, <1>10
  <2>5. Trees(m, O) /\ p \in Live(m) /\ Under(m, O, p, O \ {c}) /\ Live(b) = Live(m)
    BY <1>4, <1>10 DEF Sound
  <2> QED
    BY <2>1, <2>2, <2>3, <2>4, <2>5, TreesLink
<1>12. Sound(b, O \ {c})
  <2>1. FreeListIsDead(b)
    <3>1. Dead(m) \subseteq DOMAIN m.nodes /\ FreeListIsDead(m)
      BY <1>3, <1>4, ArenaFacts DEF Sound
    <3>2. \A j \in Dead(m) : Parent(b, j) = Parent(m, j)
      BY <1>10, <3>1
    <3> QED
      BY <1>3, <1>10, <3>1, <3>2, FreeListKeep
  <2>2. \A j \in Live(b) : Distinct(b.nodes[j].kids)
    BY <1>0, <1>3, <1>4, <1>9, <1>10 DEF Sound
  <2>3. \A j \in Dead(b) : b.nodes[j].kids = <<>>
    <3>1. Dead(m) \subseteq DOMAIN m.nodes \ Live(m)
      BY <1>3, ArenaFacts
    <3> QED
      BY <1>4, <1>10, <3>1 DEF Sound
  <2>4. \A j \in Live(b) : b.nodes[j].kids # <<>> => b.nodes[j].type \in Containers
    <3> SUFFICES ASSUME NEW j \in Live(m), b.nodes[j].kids # <<>>
                 PROVE  b.nodes[j].type \in Containers
      BY <1>10
    <3>1. j \in DOMAIN m.nodes /\ b.nodes[j].type = m.nodes[j].type /\ m.nodes[j].type = a.nodes[j].type
      BY <1>0, <1>3, <1>4, <1>10
    <3>2. CASE j = p
      BY <3>1, <3>2
    <3>3. CASE j # p
      <4>1. m.nodes[j].kids # <<>>
        BY <1>10, <3>1, <3>3
      <4> QED
        BY <1>4, <3>1, <4>1 DEF Sound
    <3> QED
      BY <3>2, <3>3
  <2> QED
    BY <1>10, <1>11, <2>1, <2>2, <2>3, <2>4 DEF Sound
<1>13. SameLives(a, b)
  BY <1>3, <1>4, <1>10 DEF SameLives
<1> QED
  BY <1>0, <1>3, <1>4, <1>10, <1>11, <1>12, <1>13 DEF LinkUnder

-------------------------------------------------------------------------------
(* Release.                                                                *)

\* Slot id goes through one more life; no other does.
NextLife(a, b, id) ==
  /\ DOMAIN b.nodes = DOMAIN a.nodes /\ id \in DOMAIN a.nodes
  /\ b.nodes[id].gen = (a.nodes[id].gen + 1) % GenModulus
  /\ b.nodes[id].life = a.nodes[id].life + 1
  /\ \A i \in DOMAIN a.nodes \ {id} :
       b.nodes[i].gen = a.nodes[i].gen /\ b.nodes[i].life = a.nodes[i].life

LEMMA ReleaseFacts ==
  ASSUME NEW a \in Arenas, NEW id \in DOMAIN a.nodes, NEW b, b = Release(a, id)
  PROVE  /\ b \in Arenas /\ b.free = id /\ DOMAIN b.nodes = DOMAIN a.nodes
         /\ ~ b.nodes[id].alive /\ b.nodes[id].kids = <<>> /\ b.nodes[id].parent = a.free
         /\ \A j \in DOMAIN a.nodes \ {id} : b.nodes[j] = a.nodes[j]
         /\ NextLife(a, b, id)
<1> DEFINE old == a.nodes[id]
           n == [old EXCEPT !.alive = FALSE, !.gen = (@ + 1) % GenModulus,
                            !.life = @ + 1, !.scalar = NoScalar,
                            !.kids = <<>>, !.parent = a.free]
           s == [a.nodes EXCEPT ![id] = n]
<1>0. /\ a.nodes \in Seq(Nodes) /\ a.free \in Nat /\ Len(a.nodes) \in Nat
      /\ DOMAIN a.nodes = 1 .. Len(a.nodes) /\ old \in Nodes
  BY ArenaFacts
<1>1. old.gen \in 0 .. GenModulus - 1 /\ old.life \in Nat
  BY <1>0 DEF Nodes
<1>2. (old.gen + 1) % GenModulus \in 0 .. GenModulus - 1 /\ old.life + 1 \in Nat
  BY <1>1, GenAssumption
<1>3. NoScalar \in Scalars /\ <<>> \in Seq([key : Keys, id : Nat])
  BY ModelAssumption, EmptySeq
<1>4. n \in Nodes
  <2> DEFINE g == (old.gen + 1) % GenModulus
             l == old.life + 1
  <2>1. g \in 0 .. GenModulus - 1 /\ l \in Nat
    BY <1>2
  <2> HIDE DEF g, l
  <2> QED
    BY <1>0, <1>3, <2>1 DEF Nodes, g, l
<1>5. ~ n.alive /\ n.gen = (old.gen + 1) % GenModulus /\ n.life = old.life + 1
      /\ n.kids = <<>> /\ n.parent = a.free
  BY <1>0 DEF Nodes
<1>6. b = [free |-> id, nodes |-> s]
  BY DEF Release
<1> HIDE DEF n
<1>7. s \in Seq(Nodes)
  BY <1>0, <1>4, ExceptSeq
<1>8. DOMAIN s = DOMAIN a.nodes /\ s[id] = n /\ \A j \in DOMAIN a.nodes \ {id} : s[j] = a.nodes[j]
  BY <1>0
<1> HIDE DEF s
<1>9. b \in Arenas /\ b.nodes = s /\ b.free = id
  BY <1>0, <1>6, <1>7 DEF Arenas
<1> QED
  BY <1>5, <1>8, <1>9 DEF NextLife

\* b is a with the root h released.
Released(a, b, O, h) ==
  /\ Sound(b, O \ {h}) /\ Live(b) = Live(a) \ {h} /\ NextLife(a, b, h)
  /\ \A j \in Live(b) : b.nodes[j] = a.nodes[j]
  /\ \A i, R : Under(a, O, i, R) => Under(b, O \ {h}, i, R \ {h})

\* A root without kids is released.
LEMMA SoundRelease ==
  ASSUME NEW a, NEW O, Sound(a, O), NEW h \in O, a.nodes[h].kids = <<>>,
         NEW b, b = Release(a, h)
  PROVE  Released(a, b, O, h)
<1>0. a \in Arenas /\ Live(a) \subseteq DOMAIN a.nodes /\ Dead(a) = DOMAIN a.nodes \ Live(a)
      /\ h \in Live(a) /\ h \in DOMAIN a.nodes
  BY ArenaFacts DEF Sound, Trees
<1>1. /\ b \in Arenas /\ b.free = h /\ DOMAIN b.nodes = DOMAIN a.nodes
      /\ ~ b.nodes[h].alive /\ b.nodes[h].kids = <<>> /\ b.nodes[h].parent = a.free
      /\ \A j \in DOMAIN a.nodes \ {h} : b.nodes[j] = a.nodes[j]
      /\ NextLife(a, b, h)
  BY <1>0, ReleaseFacts
<1>2. Live(b) = Live(a) \ {h} /\ \A j \in Live(b) : b.nodes[j] = a.nodes[j]
  BY <1>1 DEF Live
<1>3. Dead(b) = Dead(a) \cup {h} /\ h \notin Dead(a) /\ \A j \in Dead(a) : b.nodes[j] = a.nodes[j]
  BY <1>0, <1>1, <1>2 DEF Dead
<1>4. /\ Trees(b, O \ {h})
      /\ \A i, R : Under(a, O, i, R) => Under(b, O \ {h}, i, R \ {h})
  <2>1. Below(a, h) = {}
    BY NoKids
  <2>2. \A i \in Live(b) : Below(b, i) = Below(a, i) /\ Parent(b, i) = Parent(a, i)
    BY <1>2 DEF Below, Parent
  <2> QED
    BY <1>2, <2>1, <2>2, TreesRelease DEF Sound
<1>5. FreeListIsDead(b)
  <2>1. \A j \in Dead(a) : Parent(b, j) = Parent(a, j)
    BY <1>3 DEF Parent
  <2>2. Parent(b, h) = a.free
    BY <1>1 DEF Parent
  <2> QED
    BY <1>0, <1>1, <1>3, <2>1, <2>2, FreeListPut DEF Sound
<1>6. Sound(b, O \ {h})
  <2>1. \A j \in Live(b) : Distinct(b.nodes[j].kids)
    BY <1>2 DEF Sound
  <2>2. \A j \in Dead(b) : b.nodes[j].kids = <<>>
    BY <1>1, <1>3 DEF Sound
  <2>3. \A j \in Live(b) : b.nodes[j].kids # <<>> => b.nodes[j].type \in Containers
    BY <1>2 DEF Sound
  <2> QED
    BY <1>1, <1>4, <1>5, <2>1, <2>2, <2>3 DEF Sound
<1> QED
  BY <1>1, <1>2, <1>4, <1>6 DEF Released

Moved(a, p, c) ==
  [a EXCEPT !.nodes = [i \in DOMAIN a.nodes |->
     CASE i = p -> [a.nodes[i] EXCEPT !.scalar = a.nodes[c].scalar, !.kids = a.nodes[c].kids]
       [] i \in Kids(a.nodes[c]) -> [a.nodes[i] EXCEPT !.parent = p]
       [] OTHER -> a.nodes[i]]]

LEMMA MovedFacts ==
  ASSUME NEW a \in Arenas, NEW p \in DOMAIN a.nodes, NEW c \in DOMAIN a.nodes,
         p \notin Below(a, c), NEW b, b = Moved(a, p, c)
  PROVE  /\ b \in Arenas /\ b.free = a.free /\ DOMAIN b.nodes = DOMAIN a.nodes
         /\ b.nodes[p].kids = a.nodes[c].kids /\ b.nodes[p].parent = a.nodes[p].parent
         /\ \A i \in DOMAIN a.nodes : /\ b.nodes[i].alive = a.nodes[i].alive
                                      /\ b.nodes[i].gen = a.nodes[i].gen
                                      /\ b.nodes[i].life = a.nodes[i].life
                                      /\ b.nodes[i].type = a.nodes[i].type
                                      /\ i # p => b.nodes[i].kids = a.nodes[i].kids
         /\ \A i \in DOMAIN a.nodes \ {p} :
              b.nodes[i].parent = IF i \in Below(a, c) THEN p ELSE a.nodes[i].parent
<1>0. /\ a.nodes \in Seq(Nodes) /\ a.free \in Nat /\ Len(a.nodes) \in Nat
      /\ DOMAIN a.nodes = 1 .. Len(a.nodes) /\ p \in Nat
      /\ \A i \in DOMAIN a.nodes : a.nodes[i] \in Nodes
  BY ArenaFacts
<1> DEFINE N(i) ==
     CASE i = p -> [a.nodes[i] EXCEPT !.scalar = a.nodes[c].scalar, !.kids = a.nodes[c].kids]
       [] i \in Kids(a.nodes[c]) -> [a.nodes[i] EXCEPT !.parent = p]
       [] OTHER -> a.nodes[i]
     s == [i \in DOMAIN a.nodes |-> N(i)]
<1>1. ASSUME NEW i \in DOMAIN a.nodes
      PROVE  /\ N(i) \in Nodes
             /\ N(i).alive = a.nodes[i].alive
             /\ N(i).gen = a.nodes[i].gen
             /\ N(i).life = a.nodes[i].life
             /\ N(i).type = a.nodes[i].type
             /\ N(i).kids = IF i = p THEN a.nodes[c].kids ELSE a.nodes[i].kids
             /\ N(i).parent = IF i # p /\ i \in Below(a, c) THEN p ELSE a.nodes[i].parent
  <2>1. a.nodes[i] \in Nodes /\ a.nodes[c] \in Nodes
    BY <1>0
  <2>2. CASE i = p
    <3>1. N(i) = [a.nodes[i] EXCEPT !.scalar = a.nodes[c].scalar, !.kids = a.nodes[c].kids]
      BY <2>2 DEF Below
    <3> HIDE DEF N
    <3> QED
      BY <2>1, <2>2, <3>1 DEF Nodes
  <2>3. CASE i # p /\ i \in Kids(a.nodes[c])
    <3>1. N(i) = [a.nodes[i] EXCEPT !.parent = p]
      BY <2>3
    <3> HIDE DEF N
    <3> QED
      BY <1>0, <2>1, <2>3, <3>1 DEF Nodes, Below
  <2>4. CASE i # p /\ i \notin Kids(a.nodes[c])
    <3>1. N(i) = a.nodes[i]
      BY <2>4
    <3> HIDE DEF N
    <3> QED
      BY <2>1, <2>4, <3>1 DEF Below
  <2> QED
    BY <2>2, <2>3, <2>4
<1>2. b = [a EXCEPT !.nodes = s]
  BY DEF Moved
<1> HIDE DEF N
<1>3. s \in Seq(Nodes)
  <2>1. s \in [1 .. Len(a.nodes) -> Nodes]
    BY <1>0, <1>1
  <2> QED
    BY <1>0, <2>1, SeqDef
<1>4. DOMAIN s = DOMAIN a.nodes /\ \A i \in DOMAIN a.nodes : s[i] = N(i)
  OBVIOUS
<1> HIDE DEF s
<1>5. b = [nodes |-> s, free |-> a.free]
  BY <1>2, ArenaFacts
<1>6. b \in Arenas /\ b.nodes = s /\ b.free = a.free
  BY <1>0, <1>3, <1>5 DEF Arenas
<1> QED
  BY <1>1, <1>4, <1>6

\* assignContents takes over the kids of the root c.
LEMMA SoundSplice ==
  ASSUME NEW a, NEW O, Sound(a, O), NEW p \in Live(a), NEW c \in O, p # c,
         Under(a, O, p, O \ {c}), a.nodes[p].kids = <<>>, a.nodes[p].type = a.nodes[c].type,
         NEW b, b = Release(Moved(a, p, c), c)
  PROVE  /\ Sound(b, O \ {c}) /\ Live(b) = Live(a) \ {c} /\ NextLife(a, b, c)
<1>0. a \in Arenas /\ Live(a) \subseteq DOMAIN a.nodes /\ Dead(a) = DOMAIN a.nodes \ Live(a)
      /\ c \in Live(a) /\ c \in DOMAIN a.nodes /\ p \in DOMAIN a.nodes
  BY ArenaFacts DEF Sound, Trees
<1>1. Below(a, c) \subseteq Live(a) \ O /\ p \notin Below(a, c)
  <2>1. Below(a, c) \subseteq Live(a) \ O /\ \A i \in Below(a, c) : Parent(a, i) = c
    BY <1>0 DEF Sound, Trees
  <2>2. ASSUME p \in Below(a, c) PROVE FALSE
    <3> DEFINE P == {p, c}
    <3>1. UpClosed(a, O, P)
      BY <1>0, <2>1, <2>2 DEF UpClosed
    <3>2. P \cap (O \ {c}) # {}
      BY <3>1 DEF Under
    <3> QED
      BY <2>1, <2>2, <3>2
  <2> QED
    BY <2>1, <2>2
<1> DEFINE m == Moved(a, p, c)
<1>2. /\ m \in Arenas /\ m.free = a.free /\ DOMAIN m.nodes = DOMAIN a.nodes
      /\ m.nodes[p].kids = a.nodes[c].kids /\ m.nodes[p].parent = a.nodes[p].parent
      /\ \A i \in DOMAIN a.nodes : /\ m.nodes[i].alive = a.nodes[i].alive
                                   /\ m.nodes[i].gen = a.nodes[i].gen
                                   /\ m.nodes[i].life = a.nodes[i].life
                                   /\ m.nodes[i].type = a.nodes[i].type
                                   /\ i # p => m.nodes[i].kids = a.nodes[i].kids
      /\ \A i \in DOMAIN a.nodes \ {p} :
           m.nodes[i].parent = IF i \in Below(a, c) THEN p ELSE a.nodes[i].parent
  BY <1>0, <1>1, MovedFacts
<1> HIDE DEF m
<1>3. /\ b \in Arenas /\ b.free = c /\ DOMAIN b.nodes = DOMAIN m.nodes
      /\ ~ b.nodes[c].alive /\ b.nodes[c].kids = <<>> /\ b.nodes[c].parent = m.free
      /\ \A j \in DOMAIN m.nodes \ {c} : b.nodes[j] = m.nodes[j]
      /\ NextLife(m, b, c)
  BY <1>0, <1>2, ReleaseFacts DEF m
<1>4. NextLife(a, b, c)
  BY <1>0, <1>2, <1>3 DEF NextLife
<1>5. Live(b) = Live(a) \ {c}
  BY <1>2, <1>3 DEF Live
<1>6. Dead(b) = Dead(a) \cup {c} /\ c \notin Dead(a)
  BY <1>0, <1>2, <1>3, <1>5 DEF Dead
<1>7. \A i \in Live(b) \ {p} : b.nodes[i].kids = a.nodes[i].kids
  BY <1>0, <1>2, <1>3, <1>5
<1>8. b.nodes[p].kids = a.nodes[c].kids /\ p \in Live(b)
  BY <1>0, <1>2, <1>3, <1>5
<1>9. Trees(b, O \ {c})
  <2>1. Below(b, p) = Below(a, c)
    BY <1>8, BelowIsIds
  <2>2. Below(a, p) = {}
    BY NoKids
  <2>3. \A i \in Live(b) \ {p} : Below(b, i) = Below(a, i)
    BY <1>7, BelowIsIds
  <2>4. \A i \in Live(b) : b.nodes[i] = m.nodes[i] /\ i \in DOMAIN a.nodes
    BY <1>0, <1>2, <1>3, <1>5
  <2>5. \A i \in Below(a, c) : Parent(b, i) = p
    BY <1>0, <1>2, <1>5, <1>1, <2>4 DEF Parent
  <2>6. \A i \in Live(b) \ Below(a, c) : Parent(b, i) = Parent(a, i)
    BY <1>2, <2>4 DEF Parent
  <2> QED
    BY <1>5, <2>1, <2>2, <2>3, <2>5, <2>6, TreesSplice DEF Sound
<1>10. FreeListIsDead(b)
  <2>1. \A j \in Dead(a) : Parent(b, j) = Parent(a, j)
    BY <1>0, <1>2, <1>3, <1>1 DEF Parent
  <2>2. Parent(b, c) = a.free
    BY <1>2, <1>3 DEF Parent
  <2> QED
    BY <1>0, <1>3, <1>6, <2>1, <2>2, FreeListPut DEF Sound
<1>11. Sound(b, O \ {c})
  <2>1. \A j \in Live(b) : Distinct(b.nodes[j].kids)
    BY <1>0, <1>5, <1>7, <1>8 DEF Sound
  <2>2. \A j \in Dead(b) : b.nodes[j].kids = <<>>
    BY <1>0, <1>2, <1>3, <1>6 DEF Sound
  <2>3. \A j \in Live(b) : b.nodes[j].type = a.nodes[j].type
    BY <1>0, <1>2, <1>3, <1>5
  <2>4. \A j \in Live(b) : b.nodes[j].kids # <<>> => b.nodes[j].type \in Containers
    BY <1>0, <1>5, <1>7, <1>8, <2>3 DEF Sound
  <2> QED
    BY <1>3, <1>9, <1>10, <2>1, <2>2, <2>4 DEF Sound
<1> QED
  BY <1>4, <1>5, <1>11

-------------------------------------------------------------------------------
(* Handles.                                                                *)

\* h was taken in this arena, some releases of its slot ago; as long as these
\* are fewer than GenModulus, the generation tells how many.
HandleOk(a, h) ==
  /\ h \in [id : Nat, gen : 0 .. GenModulus - 1, life : Nat]
  /\ h.id \in DOMAIN a.nodes /\ h.life <= a.nodes[h.id].life
  /\ a.nodes[h.id].life - h.life < GenModulus =>
       \/ a.nodes[h.id].gen = h.gen + (a.nodes[h.id].life - h.life)
       \/ a.nodes[h.id].gen = h.gen + (a.nodes[h.id].life - h.life) - GenModulus

LEMMA HandleSame ==
  ASSUME NEW a, NEW b, NEW h, HandleOk(a, h), SameLives(a, b)
  PROVE  HandleOk(b, h)
BY DEF HandleOk, SameLives

LEMMA HandleNext ==
  ASSUME NEW a \in Arenas, NEW b, NEW id, NEW h, HandleOk(a, h), NextLife(a, b, id)
  PROVE  HandleOk(b, h)
<1> DEFINE node == a.nodes[h.id]
           new == b.nodes[h.id]
<1>1. CASE h.id # id
  BY <1>1 DEF HandleOk, NextLife
<1>2. CASE h.id = id
  <2>1. node \in Nodes /\ h.id \in DOMAIN a.nodes /\ h \in [id : Nat, gen : 0 .. GenModulus - 1, life : Nat]
    BY ArenaFacts DEF HandleOk
  <2>2. node.gen \in 0 .. GenModulus - 1 /\ node.life \in Nat /\ h.life \in Nat
        /\ h.gen \in 0 .. GenModulus - 1 /\ h.life <= node.life
    BY <2>1 DEF Nodes, HandleOk
  <2>3. new.gen = (node.gen + 1) % GenModulus /\ new.life = node.life + 1 /\ DOMAIN b.nodes = DOMAIN a.nodes
    BY <1>2 DEF NextLife
  <2>4. node.life - h.life < GenModulus =>
          \/ node.gen = h.gen + (node.life - h.life)
          \/ node.gen = h.gen + (node.life - h.life) - GenModulus
    BY DEF HandleOk
  <2> HIDE DEF node, new
  <2>5. (node.gen + 1) % GenModulus = IF node.gen + 1 = GenModulus THEN 0 ELSE node.gen + 1
    <3>1. CASE node.gen + 1 = GenModulus
      BY <2>2, <3>1, GenAssumption
    <3>2. CASE node.gen + 1 < GenModulus
      BY <2>2, <3>2, GenAssumption
    <3> QED
      BY <2>2, <3>1, <3>2, GenAssumption
  <2>6. new.gen = IF node.gen + 1 = GenModulus THEN 0 ELSE node.gen + 1
    BY <2>3, <2>5
  <2>7. /\ h.life <= new.life
        /\ new.life - h.life < GenModulus =>
             \/ new.gen = h.gen + (new.life - h.life)
             \/ new.gen = h.gen + (new.life - h.life) - GenModulus
    BY <2>2, <2>3, <2>4, <2>6, GenAssumption
  <2> QED
    BY <2>1, <2>3, <2>7 DEF HandleOk, new
<1> QED
  BY <1>1, <1>2

LEMMA HandleStale ==
  ASSUME NEW a \in Arenas, NEW h, HandleOk(a, h), Matches(a, h.id, h.gen),
         a.nodes[h.id].life - h.life < GenModulus
  PROVE  a.nodes[h.id].life - h.life = 0
<1> DEFINE node == a.nodes[h.id]
<1>1. node \in Nodes /\ h \in [id : Nat, gen : 0 .. GenModulus - 1, life : Nat]
  BY ArenaFacts DEF HandleOk
<1>2. node.gen = h.gen /\ node.life \in Nat /\ h.life \in Nat /\ h.gen \in 0 .. GenModulus - 1
  BY <1>1 DEF Matches, Nodes
<1>3. \/ node.gen = h.gen + (node.life - h.life)
      \/ node.gen = h.gen + (node.life - h.life) - GenModulus
  BY DEF HandleOk
<1> HIDE DEF node
<1>4. node.life - h.life < GenModulus
  BY DEF node
<1>5. node.life - h.life = 0
  BY <1>2, <1>3, <1>4, GenAssumption
<1> QED
  BY <1>5 DEF node

-------------------------------------------------------------------------------
(* The inductive invariant.                                                *)

Pcs == {"idle", "plan", "remove", "nodeAt", "build", "chain", "clear", "free"}

Owners == {Root} \cup Owned
Pending == {todo[k] : k \in DOMAIN todo}

Frames == [value : ConfigValues, id : Nat, next : Nat]

TypesOk ==
  /\ pc \in Pcs
  /\ at \in Nat /\ index \in Nat /\ level \in Nat /\ chain \in Nat
  /\ frames \in Seq(Frames) /\ todo \in Seq(Nat)
  /\ pc # "idle" => call.path \in Seq(AllSegments)
  /\ pc \in {"plan", "build"} => call.value \in ConfigValues

\* Which locals a phase uses.
PhaseOk ==
  /\ pc \in {"idle", "plan", "remove", "nodeAt"} =>
       frames = <<>> /\ chain = None /\ todo = <<>> /\ aside = NoArena
  /\ pc = "build" => chain = None /\ todo = <<>> /\ (aside # NoArena => AtEnd)
  /\ pc = "chain" => frames = <<>> /\ todo = <<>> /\ chain # None /\ aside = NoArena
  /\ pc = "clear" => frames = <<>> /\ chain # None
  /\ pc = "free" => frames = <<>> /\ chain = None

\* Everything that is not the model's has one owner.
OwnersOk ==
  /\ Sound(arena, Owners)
  /\ aside # NoArena => Sound(aside, {Root})
  /\ Root \notin Owned
  /\ \A k, l \in DOMAIN frames : frames[k].id = frames[l].id => k = l
  /\ \A k, l \in DOMAIN todo : todo[k] = todo[l] => k = l
  /\ chain \notin Pending

\* The node that the call works on is in the model, and fits what is to be done.
AtOk ==
  /\ pc \notin {"idle", "free"} => at \in Live(arena) /\ Under(arena, Owners, at, {Root})
  /\ pc = "plan" => index \in 1 .. Len(call.path)
  /\ pc \in {"remove", "nodeAt"} => index \in 1 .. Len(call.path) + 1
  /\ pc = "build" => index >= 1
  /\ pc = "chain" => index \in 1 .. Len(call.path) /\ level \in index .. Len(call.path)

FitsOk ==
  /\ pc = "remove" =>
       /\ call.path # <<>>
       /\ index > 1 =>
            /\ at # Root
            /\ call.path[index - 1].kind = "index" =>
                 LET kids == arena.nodes[arena.nodes[at].parent].kids
                 IN  /\ call.path[index - 1].index + 1 \in DOMAIN kids
                     /\ kids[call.path[index - 1].index + 1].id = at
  /\ pc = "build" =>
       arena.nodes[at].type = IF AtEnd THEN call.value.type ELSE Container(Seg)
  /\ pc = "chain" => arena.nodes[at].type = Container(Seg)
  /\ pc = "clear" => arena.nodes[at].type = arena.nodes[chain].type /\ arena.nodes[at].kids = <<>>

\* The activations of buildFromValue are inside the loops of those further out.
FramesOk ==
  /\ \A k \in DOMAIN frames :
       /\ arena.nodes[frames[k].id].type = frames[k].value.type
       /\ frames[k].next \in 1 .. Len(frames[k].value.kids) + 1
       /\ k > 1 => frames[k].next <= Len(frames[k].value.kids)
  /\ frames # <<>> => frames[Len(frames)].value = call.value

HandlesOk == handle # NoHandle => HandleOk(Model, handle)

\* While the old contents are freed: what is left of them hangs on todo.
ReplacedOk ==
  pc = "clear" =>
    /\ replaced.node = at
    /\ \A i \in replaced.below \cap Live(arena) : Under(arena, Owners, i, Pending)
    /\ replaced.valid => /\ aside = NoArena /\ handle # NoHandle
                         /\ handle.id = at => Valid(handle)

IInv ==
  TypesOk /\ PhaseOk /\ OwnersOk /\ AtOk /\ FitsOk /\ FramesOk /\ HandlesOk /\ ReplacedOk

LEMMA NoneOwned ==
  ASSUME frames = <<>>, chain = None, todo = <<>>
  PROVE  Owned = {} /\ Owners = {Root} /\ Pending = {}
BY DEF Owned, Owners, Pending

\* No call is open: the model is sound by itself.
LEMMA ReturnKeeps ==
  ASSUME Return, aside' = NoArena, Sound(arena', {Root}),
         handle' # NoHandle => HandleOk(arena', handle')
  PROVE  IInv'
<1>1. /\ pc' = "idle" /\ call' = NoCall /\ at' = None /\ index' = 0 /\ level' = 0
      /\ frames' = <<>> /\ chain' = None /\ todo' = <<>>
  BY DEF Return
<1>2. Owned' = {} /\ Owners' = {Root} /\ Pending' = {}
  BY <1>1 DEF Owned, Owners, Pending
<1>3. TypesOk'
  <2>1. <<>> \in Seq(Frames) /\ <<>> \in Seq(Nat)
    BY EmptySeq
  <2> QED
    BY <1>1, <2>1 DEF TypesOk, Pcs, None
<1>4. PhaseOk'
  BY <1>1 DEF PhaseOk
<1>5. OwnersOk'
  BY <1>1, <1>2 DEF OwnersOk
<1>6. AtOk' /\ FitsOk' /\ ReplacedOk'
  BY <1>1 DEF AtOk, FitsOk, ReplacedOk
<1>7. FramesOk'
  BY <1>1 DEF FramesOk
<1>8. HandlesOk'
  BY DEF HandlesOk, Model
<1> QED
  BY <1>3, <1>4, <1>5, <1>6, <1>7, <1>8 DEF IInv

\* Between calls nothing is owned, and handles are to the arena.
LEMMA IdleFacts ==
  ASSUME IInv, pc \in {"idle", "plan", "remove", "nodeAt"}
  PROVE  /\ frames = <<>> /\ chain = None /\ todo = <<>> /\ aside = NoArena
         /\ Owned = {} /\ Owners = {Root} /\ Sound(arena, {Root})
         /\ handle # NoHandle => HandleOk(arena, handle)
         /\ arena \in Arenas
<1>1. frames = <<>> /\ chain = None /\ todo = <<>> /\ aside = NoArena
  BY DEF IInv, PhaseOk
<1>2. Owned = {} /\ Owners = {Root}
  BY <1>1, NoneOwned
<1> QED
  BY <1>1, <1>2 DEF IInv, OwnersOk, HandlesOk, Model, Sound

LEMMA RejectKeeps ==
  ASSUME IInv, pc \in {"idle", "plan", "remove", "nodeAt"}, NEW code, Reject(code)
  PROVE  IInv'
<1>1. Return /\ arena' = arena /\ aside' = aside /\ handle' = handle
  BY DEF Reject
<1> QED
  BY <1>1, IdleFacts, ReturnKeeps

LEMMA HandlesKeep ==
  ASSUME HandlesOk, SameLives(arena, arena'), aside' = aside, handle' = handle
  PROVE  HandlesOk'
<1> SUFFICES ASSUME handle # NoHandle PROVE HandleOk(Model', handle)
  BY DEF HandlesOk
<1>1. CASE aside = NoArena
  BY <1>1, HandleSame DEF HandlesOk, Model
<1>2. CASE aside # NoArena
  BY <1>2 DEF HandlesOk, Model
<1> QED
  BY <1>1, <1>2

\* Whatever is owned is left to be freed.
LEMMA FreeKeeps ==
  ASSUME IInv, pc # "idle", NEW slots \in Seq(Nat),
         pc' = "free", todo' = slots, frames' = <<>>, chain' = None,
         UNCHANGED <<aside, call, at, index, level, handle>>,
         \A k, l \in DOMAIN slots : slots[k] = slots[l] => k = l,
         \A k \in DOMAIN slots : slots[k] # Root /\ slots[k] # None,
         Sound(arena', {Root} \cup {slots[k] : k \in DOMAIN slots}),
         SameLives(arena, arena')
  PROVE  IInv'
<1>1. /\ aside' = aside /\ call' = call /\ at' = at /\ index' = index /\ level' = level
      /\ handle' = handle
  OBVIOUS
<1>2. Pending' = {slots[k] : k \in DOMAIN slots} /\ Owned' = Pending' /\ Owners' = {Root} \cup Pending'
  BY DEF Owned, Owners, Pending
<1>3. TypesOk'
  <2>1. <<>> \in Seq(Frames)
    BY EmptySeq
  <2> QED
    BY <1>1, <2>1 DEF TypesOk, Pcs, None, IInv
<1>4. PhaseOk'
  BY DEF PhaseOk
<1>5. OwnersOk'
  <2>1. Root \notin Owned' /\ chain' \notin Pending'
    BY <1>2
  <2>2. Sound(arena', Owners')
    BY <1>2
  <2>3. (aside # NoArena => Sound(aside, {Root}))'
    BY <1>1 DEF IInv, OwnersOk
  <2> QED
    BY <2>1, <2>2, <2>3 DEF OwnersOk
<1>6. AtOk' /\ FitsOk' /\ ReplacedOk'
  BY DEF AtOk, FitsOk, ReplacedOk
<1>7. FramesOk'
  BY DEF FramesOk
<1>8. HandlesOk'
  BY <1>1, HandlesKeep DEF IInv
<1> QED
  BY <1>3, <1>4, <1>5, <1>6, <1>7, <1>8 DEF IInv

LEMMA EmptyModelSound ==
  /\ Sound(EmptyModel, {Root}) /\ Root \in Live(EmptyModel)
  /\ EmptyModel.nodes[Root].type = "Object"
<1> DEFINE a == [nodes |-> <<>>, free |-> None]
<1>1. a \in Arenas /\ a.nodes = <<>> /\ a.free = None
  BY EmptySeq DEF Arenas, None
<1>2. DOMAIN a.nodes = {}
  BY <1>1
<1> HIDE DEF a
<1>3. Live(a) = {} /\ Dead(a) = {}
  BY <1>2 DEF Live, Dead
<1>4. Trees(a, {})
  BY <1>3 DEF Trees
<1>5. FreeListIsDead(a)
  <2>1. FreeList(a, 0, <<>>)
    BY <1>1, <1>3, FS_EmptySet DEF FreeList
  <2> QED
    BY <1>1, <2>1, FreeListForm
<1>6. Sound(a, {})
  BY <1>1, <1>3, <1>4, <1>5 DEF Sound
<1>7. Slot(a) = Root
  BY <1>1 DEF Slot, Root
<1>8. EmptyModel = Allocate(a, "Object") /\ "Object" \in NodeTypes
  BY DEF EmptyModel, NodeTypes, a
<1> DEFINE O == {}
           type == "Object"
<1>9. Sound(a, O) /\ type \in NodeTypes /\ EmptyModel = Allocate(a, type) /\ Root = Slot(a)
  BY <1>6, <1>7, <1>8
<1> HIDE DEF O, type
<1>10. /\ Sound(EmptyModel, O \cup {Root})
       /\ Live(EmptyModel) = Live(a) \cup {Root}
       /\ EmptyModel.nodes[Root].type = type
  BY <1>9, SoundAllocate
<1> QED
  BY <1>10 DEF O, type

LEMMA InitOk ==
  ASSUME Init PROVE IInv
<1>1. /\ pc = "idle" /\ at = None /\ index = 0 /\ level = 0
      /\ frames = <<>> /\ chain = None /\ todo = <<>>
      /\ arena = EmptyModel /\ aside = NoArena /\ handle = NoHandle
  BY DEF Init
<1>2. Owned = {} /\ Owners = {Root} /\ Pending = {}
  BY <1>1, NoneOwned
<1>3. TypesOk
  <2>1. <<>> \in Seq(Frames) /\ <<>> \in Seq(Nat)
    BY EmptySeq
  <2> QED
    BY <1>1, <2>1 DEF TypesOk, Pcs, None
<1>4. PhaseOk
  BY <1>1 DEF PhaseOk
<1>5. OwnersOk
  BY <1>1, <1>2, EmptyModelSound DEF OwnersOk
<1>6. AtOk /\ FitsOk /\ ReplacedOk
  BY <1>1 DEF AtOk, FitsOk, ReplacedOk
<1>7. FramesOk /\ HandlesOk
  BY <1>1 DEF FramesOk, HandlesOk
<1> QED
  BY <1>3, <1>4, <1>5, <1>6, <1>7 DEF IInv

-------------------------------------------------------------------------------
(* Steps that find a node.                                                 *)

LEMMA FindChildPlace ==
  ASSUME NEW node, node.kids \in Seq(Links), NEW seg \in AllSegments, FindChild(node, seg) # 0
  PROVE  /\ FindChild(node, seg) \in DOMAIN node.kids
         /\ seg.kind = "index" => FindChild(node, seg) = seg.index + 1
<1>1. DOMAIN node.kids = 1 .. Len(node.kids) /\ Len(node.kids) \in Nat
  BY LenProperties
<1>2. CASE seg.kind = "key"
  BY <1>2 DEF FindChild
<1>3. CASE seg.kind # "key"
  <2>1. seg.index \in Nat
    BY <1>3 DEF AllSegments
  <2>2. seg.index < Len(node.kids) /\ FindChild(node, seg) = seg.index + 1
    BY <1>3 DEF FindChild
  <2> QED
    BY <1>1, <2>1, <2>2
<1> QED
  BY <1>2, <1>3

LEMMA RootIsUnder ==
  ASSUME NEW a, NEW O, Sound(a, O), Root \in O
  PROVE  Root \in Live(a) /\ Under(a, O, Root, {Root})
BY DEF Sound, Trees, Under

LEMMA KidIsUnder ==
  ASSUME NEW a, NEW O, Sound(a, O), NEW i \in Live(a), NEW k \in DOMAIN a.nodes[i].kids,
         NEW R, Under(a, O, i, R)
  PROVE  /\ a.nodes[i].kids[k].id \in Live(a) \ O
         /\ a.nodes[a.nodes[i].kids[k].id].parent = i
         /\ Under(a, O, a.nodes[i].kids[k].id, R)
<1> DEFINE kid == a.nodes[i].kids[k].id
<1>1. kid \in Below(a, i)
  BY DEF Below, Kids
<1> HIDE DEF kid
<1>2. kid \in Live(a) \ O /\ Parent(a, kid) = i
  BY <1>1 DEF Sound, Trees
<1>3. Under(a, O, kid, R)
  BY <1>2 DEF Under, UpClosed
<1> QED
  BY <1>2, <1>3 DEF kid, Parent

LEMMA SegFacts ==
  ASSUME NEW p \in Seq(AllSegments), NEW i \in 1 .. Len(p)
  PROVE  p[i] \in AllSegments
BY ElementOfSeq

LEMMA DescendFacts ==
  ASSUME IInv, pc \in {"plan", "remove", "nodeAt"}, ~AtEnd, Child # 0
  PROVE  /\ Child \in DOMAIN arena.nodes[at].kids
         /\ Seg.kind = "index" => Child = Seg.index + 1
         /\ arena.nodes[at].kids[Child].id \in Live(arena) \ {Root}
         /\ arena.nodes[at].kids[Child].id \in Nat
         /\ arena.nodes[arena.nodes[at].kids[Child].id].parent = at
         /\ Under(arena, {Root}, arena.nodes[at].kids[Child].id, {Root})
         /\ index \in 1 .. Len(call.path) /\ Len(call.path) \in Nat
<1>1. Sound(arena, {Root}) /\ Owners = {Root} /\ arena \in Arenas
  BY IdleFacts
<1>2. at \in Live(arena) /\ Under(arena, {Root}, at, {Root})
  BY <1>1 DEF IInv, AtOk
<1>3. call.path \in Seq(AllSegments) /\ Len(call.path) \in Nat
  BY LenProperties DEF IInv, TypesOk
<1>4. index \in 1 .. Len(call.path)
  BY <1>3 DEF IInv, AtOk, AtEnd
<1>5. Seg \in AllSegments
  BY <1>3, <1>4, SegFacts DEF Seg
<1>6. at \in DOMAIN arena.nodes /\ arena.nodes[at].kids \in Seq(Links)
  BY <1>1, <1>2, ArenaFacts, NodeKids
<1>7. Child \in DOMAIN arena.nodes[at].kids /\ (Seg.kind = "index" => Child = Seg.index + 1)
  BY <1>5, <1>6, FindChildPlace DEF Child
<1>8. /\ arena.nodes[at].kids[Child].id \in Live(arena) \ {Root}
      /\ arena.nodes[arena.nodes[at].kids[Child].id].parent = at
      /\ Under(arena, {Root}, arena.nodes[at].kids[Child].id, {Root})
  BY <1>1, <1>2, <1>7, KidIsUnder
<1>9. arena.nodes[at].kids[Child].id \in Nat
  BY <1>1, <1>8, ArenaFacts
<1> QED
  BY <1>3, <1>4, <1>7, <1>8, <1>9

\* The parts of the invariant that look at the arena and what is owned only.
LEMMA SameOwners ==
  ASSUME OwnersOk, HandlesOk, arena' = arena, aside' = aside, handle' = handle,
         frames' = frames, chain' = chain, todo' = todo
  PROVE  OwnersOk' /\ HandlesOk' /\ Owned' = Owned /\ Owners' = Owners /\ Pending' = Pending
<1>1. Owned' = Owned /\ Owners' = Owners /\ Pending' = Pending
  BY DEF Owned, Owners, Pending
<1> QED
  BY <1>1 DEF OwnersOk, HandlesOk, Model

LEMMA BeginKeeps ==
  ASSUME IInv, pc = "idle", NEW where \in {"plan", "remove", "nodeAt"},
         NEW p \in Seq(AllSegments), NEW v, Begin(where, p, v),
         where \in {"plan", "remove"} => p # <<>>, where = "plan" => v \in ConfigValues,
         arena' = arena, aside' = aside
  PROVE  IInv'
<1>1. /\ pc' = where /\ call'.path = p /\ call'.value = v /\ at' = Root /\ index' = 1
      /\ frames' = frames /\ chain' = chain /\ todo' = todo /\ level' = level /\ handle' = handle
  BY DEF Begin
<1>2. /\ frames = <<>> /\ chain = None /\ todo = <<>> /\ aside = NoArena
      /\ Owners = {Root} /\ Sound(arena, {Root})
  BY IdleFacts
<1>3. OwnersOk' /\ HandlesOk' /\ Owners' = {Root}
  BY <1>1, <1>2, SameOwners DEF IInv
<1>4. TypesOk'
  BY <1>1 DEF IInv, TypesOk, Pcs, Root
<1>5. PhaseOk'
  BY <1>1, <1>2 DEF PhaseOk
<1>6. AtOk'
  <2>1. at' \in Live(arena') /\ Under(arena', Owners', at', {Root})
    BY <1>1, <1>2, <1>3, RootIsUnder
  <2>2. Len(p) \in Nat /\ (p # <<>> => Len(p) \in Nat \ {0})
    BY LenProperties, EmptySeq
  <2>3. pc' = "plan" => index' \in 1 .. Len(call'.path)
    BY <1>1, <2>2
  <2>4. index' \in 1 .. Len(call'.path) + 1
    BY <1>1, <2>2
  <2> QED
    BY <1>1, <2>1, <2>3, <2>4 DEF AtOk
<1>7. FitsOk' /\ ReplacedOk'
  BY <1>1 DEF FitsOk, ReplacedOk
<1>8. FramesOk'
  BY <1>1, <1>2 DEF FramesOk
<1> QED
  BY <1>3, <1>4, <1>5, <1>6, <1>7, <1>8 DEF IInv

LEMMA SetKeeps ==
  ASSUME IInv, NEW p \in Paths \cup {Malformed}, NEW x \in Values, Set(p, x)
  PROVE  IInv'
<1>1. ASSUME NEW code, Reject(code) PROVE IInv'
  BY <1>1, RejectKeeps DEF Set
<1>2. ASSUME p # Malformed, Begin("plan", p, x), UNCHANGED <<arena, aside>> PROVE IInv'
  <2>1. p \in Seq(AllSegments) /\ p # <<>> /\ x \in ConfigValues
    BY <1>2, ModelAssumption
  <2>2. pc = "idle" /\ arena' = arena /\ aside' = aside
    BY <1>2 DEF Set
  <2> QED
    BY <1>2, <2>1, <2>2, BeginKeeps
<1> QED
  BY <1>1, <1>2 DEF Set

LEMMA RemoveKeeps ==
  ASSUME IInv, NEW p \in Paths \cup {Malformed}, Remove(p)
  PROVE  IInv'
<1>1. ASSUME NEW code, Reject(code) PROVE IInv'
  BY <1>1, RejectKeeps DEF Remove
<1>2. ASSUME p # Malformed, Begin("remove", p, NoCall), UNCHANGED <<arena, aside>> PROVE IInv'
  <2>1. p \in Seq(AllSegments) /\ p # <<>>
    BY <1>2, ModelAssumption
  <2>2. pc = "idle" /\ arena' = arena /\ aside' = aside
    BY <1>2 DEF Remove
  <2> QED
    BY <1>2, <2>1, <2>2, BeginKeeps
<1> QED
  BY <1>1, <1>2 DEF Remove

LEMMA NodeAtKeeps ==
  ASSUME IInv, NEW p \in HandlePaths, NodeAt(p)
  PROVE  IInv'
<1>1. p \in Seq(AllSegments)
  BY ModelAssumption
<1>2. pc = "idle" /\ Begin("nodeAt", p, NoCall) /\ arena' = arena /\ aside' = aside
  BY DEF NodeAt
<1> QED
  BY <1>1, <1>2, BeginKeeps

LEMMA FromValueKeeps ==
  ASSUME IInv, NEW x \in Values, FromValue(x)
  PROVE  IInv'
<1>1. ASSUME NEW code, Reject(code) PROVE IInv'
  BY <1>1, RejectKeeps DEF FromValue
<1>2. ASSUME x.type = "Object", aside' = arena, arena' = EmptyModel, Begin("build", <<>>, x)
      PROVE  IInv'
  <2>1. /\ pc' = "build" /\ call'.path = <<>> /\ call'.value = x /\ at' = Root /\ index' = 1
        /\ frames' = frames /\ chain' = chain /\ todo' = todo /\ level' = level /\ handle' = handle
    BY <1>2 DEF Begin
  <2>2. /\ frames = <<>> /\ chain = None /\ todo = <<>>
        /\ Sound(arena, {Root}) /\ arena \in Arenas
        /\ handle # NoHandle => HandleOk(arena, handle)
    BY IdleFacts DEF FromValue
  <2>3. aside' # NoArena
    BY <1>2, <2>2, ModelAssumption
  <2>4. Owned' = {} /\ Owners' = {Root} /\ Pending' = {}
    BY <2>1, <2>2 DEF Owned, Owners, Pending
  <2>5. TypesOk'
    <3>1. <<>> \in Seq(AllSegments) /\ x \in ConfigValues
      BY EmptySeq, ModelAssumption
    <3> QED
      BY <2>1, <3>1 DEF IInv, TypesOk, Pcs, Root
  <2>6. AtEnd'
    BY <2>1 DEF AtEnd
  <2>7. PhaseOk'
    BY <2>1, <2>2, <2>6 DEF PhaseOk
  <2>8. OwnersOk'
    BY <1>2, <2>1, <2>2, <2>4, EmptyModelSound DEF OwnersOk
  <2>9. AtOk'
    <3>1. at' \in Live(arena') /\ Under(arena', Owners', at', {Root})
      BY <1>2, <2>1, <2>4, EmptyModelSound, RootIsUnder
    <3> QED
      BY <2>1, <3>1 DEF AtOk
  <2>10. FitsOk'
    <3>1. arena'.nodes[at'].type = call'.value.type
      BY <1>2, <2>1, EmptyModelSound
    <3> QED
      BY <2>1, <2>6, <3>1 DEF FitsOk
  <2>11. FramesOk' /\ ReplacedOk'
    BY <2>1, <2>2 DEF FramesOk, ReplacedOk
  <2>12. HandlesOk'
    BY <1>2, <2>1, <2>2, <2>3 DEF HandlesOk, Model
  <2> QED
    BY <2>5, <2>7, <2>8, <2>9, <2>10, <2>11, <2>12 DEF IInv
<1> QED
  BY <1>1, <1>2 DEF FromValue

LEMMA HandleTaken ==
  ASSUME arena \in Arenas, NEW id \in DOMAIN arena.nodes
  PROVE  HandleOk(arena, HandleTo(id))
<1> DEFINE node == arena.nodes[id]
<1>1. node \in Nodes /\ id \in Nat
  BY ArenaFacts
<1>2. node.gen \in 0 .. GenModulus - 1 /\ node.life \in Nat
  BY <1>1 DEF Nodes
<1>3. HandleTo(id) = [id |-> id, gen |-> node.gen, life |-> node.life]
  BY DEF HandleTo
<1> HIDE DEF node
<1>4. node.gen = node.gen + (node.life - node.life) /\ node.life <= node.life
  BY <1>2, GenAssumption
<1> QED
  BY <1>1, <1>2, <1>3, <1>4 DEF HandleOk, node

LEMMA TakeHandleKeeps ==
  ASSUME IInv, TakeHandle
  PROVE  IInv'
<1>1. /\ pc = "nodeAt" /\ handle' = HandleTo(at) /\ Return /\ arena' = arena /\ aside' = aside
  BY DEF TakeHandle
<1>2. Sound(arena, {Root}) /\ aside = NoArena /\ arena \in Arenas
  BY <1>1, IdleFacts
<1>3. at \in DOMAIN arena.nodes
  BY <1>1, <1>2, ArenaFacts DEF IInv, AtOk
<1> QED
  BY <1>1, <1>2, <1>3, HandleTaken, ReturnKeeps

LEMMA SegmentFacts ==
  ASSUME NEW seg \in Segments
  PROVE  seg \in AllSegments
<1>1. PICK p \in Paths : \E i \in DOMAIN p : seg = p[i]
  BY DEF Segments
<1>2. p \in Seq(AllSegments)
  BY ModelAssumption
<1>3. PICK i \in DOMAIN p : seg = p[i]
  BY <1>1
<1>4. i \in 1 .. Len(p)
  BY <1>2, <1>3, LenProperties
<1> QED
  BY <1>2, <1>3, <1>4, SegFacts

LEMMA ChildOfKeeps ==
  ASSUME IInv, NEW seg \in Segments, ChildOf(seg)
  PROVE  IInv'
<1> DEFINE node == arena.nodes[handle.id]
           place == FindChild(node, seg)
           kid == node.kids[place].id
<1>1. /\ pc = "idle" /\ handle # NoHandle /\ Valid(handle) /\ place # 0
      /\ handle' = HandleTo(kid)
  BY DEF ChildOf
<1>2. /\ arena' = arena /\ aside' = aside /\ pc' = pc /\ call' = call /\ at' = at
      /\ index' = index /\ frames' = frames /\ chain' = chain /\ level' = level
      /\ todo' = todo /\ replaced' = replaced
  BY DEF ChildOf, locals
<1>3. aside = NoArena /\ Sound(arena, {Root}) /\ arena \in Arenas
  BY <1>1, IdleFacts
<1>4. handle.id \in Live(arena) /\ handle.id \in DOMAIN arena.nodes
  BY <1>1, <1>3 DEF Valid, Matches, Model, Live
<1>5. node.kids \in Seq(Links)
  BY <1>3, <1>4, NodeKids
<1>6. place \in DOMAIN node.kids
  BY <1>1, <1>5, SegmentFacts, FindChildPlace
<1>7. kid \in DOMAIN arena.nodes
  <2>1. kid \in Below(arena, handle.id)
    BY <1>6 DEF Below, Kids
  <2> QED
    BY <1>3, <1>4, <2>1, ArenaFacts DEF Sound, Trees
<1>8. HandleOk(arena, handle')
  BY <1>1, <1>3, <1>7, HandleTaken
<1>9. HandlesOk'
  BY <1>2, <1>3, <1>8 DEF HandlesOk, Model
<1>10. Owned' = Owned /\ Owners' = Owners /\ Pending' = Pending
  BY <1>2 DEF Owned, Owners, Pending
<1>11. OwnersOk' /\ TypesOk'
  BY <1>2, <1>10 DEF IInv, OwnersOk, TypesOk
<1>12. PhaseOk'
  BY <1>1, <1>2 DEF IInv, PhaseOk
<1>13. AtOk' /\ FitsOk' /\ ReplacedOk'
  BY <1>1, <1>2 DEF AtOk, FitsOk, ReplacedOk
<1>14. FramesOk'
  BY <1>2 DEF IInv, FramesOk
<1> QED
  BY <1>9, <1>11, <1>12, <1>13, <1>14 DEF IInv

LEMMA ResolveStepKeeps ==
  ASSUME IInv, ResolveStep
  PROVE  IInv'
<1>0. pc \in {"remove", "nodeAt"} /\ ~AtEnd
  BY DEF ResolveStep
<1>1. ASSUME NEW code, Reject(code) PROVE IInv'
  BY <1>0, <1>1, RejectKeeps
<1>2. ASSUME Child # 0, Descend,
             UNCHANGED <<arena, aside, pc, call, frames, chain, level, todo, replaced, result, handle>>
      PROVE  IInv'
  <2> DEFINE kid == arena.nodes[at].kids[Child].id
  <2>1. /\ at' = kid /\ index' = index + 1 /\ arena' = arena /\ aside' = aside /\ pc' = pc
        /\ call' = call /\ frames' = frames /\ chain' = chain /\ level' = level /\ todo' = todo
        /\ handle' = handle
    BY <1>2 DEF Descend
  <2>2. /\ Child \in DOMAIN arena.nodes[at].kids
        /\ Seg.kind = "index" => Child = Seg.index + 1
        /\ kid \in Live(arena) \ {Root}
        /\ kid \in Nat
        /\ arena.nodes[kid].parent = at
        /\ Under(arena, {Root}, kid, {Root})
        /\ index \in 1 .. Len(call.path) /\ Len(call.path) \in Nat
    BY <1>0, <1>2, DescendFacts
  <2>3. frames = <<>> /\ Owners = {Root}
    BY <1>0, IdleFacts
  <2>4. OwnersOk' /\ HandlesOk' /\ Owners' = {Root}
    BY <2>1, <2>3, SameOwners DEF IInv
  <2>5. TypesOk'
    BY <2>1, <2>2 DEF IInv, TypesOk
  <2>6. PhaseOk'
    BY <1>0, <2>1 DEF IInv, PhaseOk
  <2>7. AtOk'
    BY <1>0, <2>1, <2>2, <2>4 DEF AtOk
  <2>8. FitsOk'
    <3> SUFFICES ASSUME pc = "remove"
                 PROVE  /\ call'.path # <<>>
                        /\ index' > 1 =>
                             /\ at' # Root
                             /\ call'.path[index' - 1].kind = "index" =>
                                  LET kids == arena'.nodes[arena'.nodes[at'].parent].kids
                                  IN  /\ call'.path[index' - 1].index + 1 \in DOMAIN kids
                                      /\ kids[call'.path[index' - 1].index + 1].id = at'
      BY <1>0, <2>1 DEF FitsOk
    <3>1. call'.path # <<>>
      BY <2>1 DEF IInv, FitsOk
    <3>2. call'.path[index' - 1] = Seg
      BY <2>1, <2>2 DEF Seg
    <3>3. at' # Root /\ arena'.nodes[at'].parent = at
      BY <2>1, <2>2
    <3> HIDE DEF kid
    <3>4. ASSUME Seg.kind = "index"
          PROVE  /\ Seg.index + 1 \in DOMAIN arena'.nodes[at].kids
                 /\ arena'.nodes[at].kids[Seg.index + 1].id = at'
      BY <2>1, <2>2, <3>4 DEF kid
    <3> QED
      BY <3>1, <3>2, <3>3, <3>4
  <2>9. FramesOk' /\ ReplacedOk'
    BY <1>0, <2>1, <2>3 DEF FramesOk, ReplacedOk
  <2> QED
    BY <2>4, <2>5, <2>6, <2>7, <2>8, <2>9 DEF IInv
<1> QED
  BY <1>1, <1>2 DEF ResolveStep

LEMMA PlanStepKeeps ==
  ASSUME IInv, PlanStep
  PROVE  IInv'
<1>0. pc = "plan"
  BY DEF PlanStep
<1>1. ASSUME NEW code, Reject(code) PROVE IInv'
  BY <1>0, <1>1, RejectKeeps
<1>2. /\ frames = <<>> /\ chain = None /\ todo = <<>> /\ aside = NoArena /\ Owners = {Root}
      /\ index \in 1 .. Len(call.path) /\ Len(call.path) \in Nat /\ ~AtEnd
      /\ at \in Live(arena) /\ Under(arena, Owners, at, {Root})
  <2>1. index \in 1 .. Len(call.path) /\ Len(call.path) \in Nat
    BY <1>0, LenProperties DEF IInv, AtOk, TypesOk
  <2> QED
    BY <1>0, <2>1, IdleFacts DEF IInv, AtOk, AtEnd
\* What a step to where has to establish.
<1>3. ASSUME NEW where \in {"plan", "build"}, pc' = where, at' \in Nat, index' \in Nat,
             UNCHANGED <<arena, aside, call, frames, chain, level, todo, replaced, result, handle>>,
             at' \in Live(arena), Under(arena, {Root}, at', {Root}),
             index' >= 1, where = "plan" => index' <= Len(call.path),
             where = "build" =>
               arena.nodes[at'].type = IF index' > Len(call.path) THEN call.value.type
                                       ELSE Container(call.path[index'])
      PROVE  IInv'
  <2>1. OwnersOk' /\ HandlesOk' /\ Owners' = {Root}
    BY <1>2, <1>3, SameOwners DEF IInv
  <2>2. TypesOk'
    BY <1>0, <1>3 DEF IInv, TypesOk, Pcs
  <2>3. PhaseOk'
    BY <1>2, <1>3 DEF PhaseOk
  <2>4. AtOk'
    BY <1>2, <1>3, <2>1 DEF AtOk
  <2>5. FitsOk'
    BY <1>3 DEF FitsOk, AtEnd, Seg
  <2>6. FramesOk' /\ ReplacedOk'
    BY <1>2, <1>3 DEF FramesOk, ReplacedOk
  <2> QED
    BY <2>1, <2>2, <2>3, <2>4, <2>5, <2>6 DEF IInv
\* The creation point is found.
<1>4. ASSUME arena.nodes[at].type = Container(Seg), pc' = "build", UNCHANGED <<at, index>>,
             UNCHANGED <<arena, aside, call, frames, chain, level, todo, replaced, result, handle>>
      PROVE  IInv'
  <2>1. at' \in Nat /\ index' \in Nat /\ index' >= 1
    BY <1>2, <1>4 DEF IInv, TypesOk
  <2>2. at' \in Live(arena) /\ Under(arena, {Root}, at', {Root})
    BY <1>2, <1>4
  <2>3. ~(index' > Len(call.path)) /\ arena.nodes[at'].type = Container(call.path[index'])
    BY <1>2, <1>4 DEF Seg
  <2> QED
    BY <1>3, <1>4, <2>1, <2>2, <2>3
<1>5. ASSUME Child # 0, Descend,
             UNCHANGED <<arena, aside, call, frames, chain, level, todo, replaced, result, handle>>,
             \/ pc' = "plan" /\ index < Len(call.path)
             \/ /\ pc' = "build" /\ index = Len(call.path)
                /\ arena.nodes[arena.nodes[at].kids[Child].id].type = call.value.type
      PROVE  IInv'
  <2> DEFINE kid == arena.nodes[at].kids[Child].id
  <2>1. /\ kid \in Live(arena) /\ kid \in Nat
        /\ Under(arena, {Root}, kid, {Root})
    BY <1>0, <1>2, <1>5, DescendFacts
  <2>2. at' = kid /\ index' = index + 1
    BY <1>5 DEF Descend
  <2>3. pc' = "build" => index' > Len(call.path) /\ arena.nodes[at'].type = call.value.type
    BY <1>2, <1>5, <2>2
  <2> HIDE DEF kid
  <2>4. at' \in Nat /\ index' \in Nat /\ index' >= 1 /\ (pc' = "plan" => index' <= Len(call.path))
        /\ at' \in Live(arena) /\ Under(arena, {Root}, at', {Root})
    BY <1>2, <1>5, <2>1, <2>2
  <2> QED
    BY <1>3, <1>5, <2>3, <2>4
<1> QED
  BY <1>1, <1>4, <1>5 DEF PlanStep

LEMMA UnlinkKeeps ==
  ASSUME IInv, Unlink
  PROVE  IInv'
<1> DEFINE parent == arena.nodes[at].parent
           kids == arena.nodes[parent].kids
           last == call.path[Len(call.path)]
           place == IF last.kind = "key" THEN CHOOSE k \in DOMAIN kids : kids[k].id = at
                    ELSE last.index + 1
<1>1. /\ pc = "remove" /\ AtEnd
      /\ arena' = [arena EXCEPT !.nodes[parent].kids = Ext!RemoveAt(@, place)]
      /\ pc' = "free" /\ todo' = <<at>>
      /\ UNCHANGED <<aside, call, at, index, frames, chain, level, handle, replaced>>
  BY DEF Unlink
<1>2. frames = <<>> /\ chain = None /\ Sound(arena, {Root}) /\ arena \in Arenas
  BY <1>1, IdleFacts
<1>3. call.path \in Seq(AllSegments) /\ Len(call.path) \in Nat \ {0}
  BY <1>1, EmptySeq DEF IInv, TypesOk, FitsOk
<1>4. index = Len(call.path) + 1 /\ index > 1 /\ call.path[index - 1] = last
  BY <1>1, <1>3 DEF IInv, AtOk, AtEnd
<1>5. at \in Live(arena) /\ at # Root /\ at \in Nat /\ at # None
  <2>1. at \in Live(arena) /\ at # Root
    BY <1>1, <1>4 DEF IInv, AtOk, FitsOk
  <2> QED
    BY <1>2, <2>1, ArenaFacts
<1>6. parent \in Live(arena) /\ at \in Below(arena, parent)
  BY <1>2, <1>5 DEF Sound, Trees, Parent
<1>7. place \in DOMAIN kids /\ kids[place].id = at
  <2>1. CASE last.kind = "key"
    <3>1. \E k \in DOMAIN kids : kids[k].id = at
      BY <1>6 DEF Below, Kids
    <3> QED
      BY <2>1, <3>1
  <2>2. CASE last.kind # "key"
    <3>1. last \in AllSegments
      BY <1>3, SegFacts
    <3>2. last.kind = "index"
      BY <2>2, <3>1 DEF AllSegments
    <3>3. last.index + 1 \in DOMAIN kids /\ kids[last.index + 1].id = at
      BY <1>1, <1>4, <3>2 DEF IInv, FitsOk
    <3> QED
      BY <2>2, <3>3
  <2> QED
    BY <2>1, <2>2
<1> HIDE DEF place
<1>8. arena' = WithKids(arena, parent, Ext!RemoveAt(arena.nodes[parent].kids, place))
  BY <1>1 DEF WithKids
<1> HIDE DEF parent
<1> DEFINE O == {Root}
<1>9. Sound(arena', {Root} \cup {at}) /\ SameLives(arena, arena')
  <2>1. Sound(arena, O) /\ parent \in Live(arena) /\ at = arena.nodes[parent].kids[place].id
        /\ place \in DOMAIN arena.nodes[parent].kids
    BY <1>2, <1>6, <1>7
  <2> HIDE DEF O, kids
  <2>2. Sound(arena', O \cup {at}) /\ SameLives(arena, arena')
    BY <1>8, <2>1, SoundUnlink
  <2> QED
    BY <2>2 DEF O
<1> DEFINE slots == <<at>>
<1>10. /\ slots \in Seq(Nat) /\ {slots[k] : k \in DOMAIN slots} = {at}
       /\ \A k, l \in DOMAIN slots : slots[k] = slots[l] => k = l
       /\ \A k \in DOMAIN slots : slots[k] # Root /\ slots[k] # None
  BY <1>5
<1>11. todo' = slots /\ frames' = <<>> /\ chain' = None /\ Sound(arena', {Root} \cup {slots[k] : k \in DOMAIN slots})
  BY <1>1, <1>2, <1>9, <1>10
<1> HIDE DEF slots
<1> QED
  BY <1>1, <1>9, <1>10, <1>11, FreeKeeps

-------------------------------------------------------------------------------
(* Steps that build.                                                       *)

Elements(s) == {s[k] : k \in DOMAIN s}

Injective(s) == \A k, l \in DOMAIN s : s[k] = s[l] => k = l

LEMMA ConsFacts ==
  ASSUME NEW S, NEW s \in Seq(S), NEW x \in S
  PROVE  /\ <<x>> \o s \in Seq(S)
         /\ Len(<<x>> \o s) = Len(s) + 1 /\ DOMAIN (<<x>> \o s) = 1 .. Len(s) + 1
         /\ (<<x>> \o s)[1] = x
         /\ \A k \in 1 .. Len(s) : (<<x>> \o s)[k + 1] = s[k]
         /\ \A k \in 2 .. Len(s) + 1 : (<<x>> \o s)[k] = s[k - 1]
         /\ Elements(<<x>> \o s) = {x} \cup Elements(s)
         /\ x \notin Elements(s) /\ Injective(s) => Injective(<<x>> \o s)
<1> DEFINE t == <<x>> \o s
           n == Len(s)
<1>1. <<x>> \in Seq(S) /\ Len(<<x>>) = 1 /\ <<x>>[1] = x
  OBVIOUS
<1>2. /\ t \in Seq(S) /\ Len(t) = Len(<<x>>) + n
      /\ \A i \in 1 .. Len(<<x>>) + n : t[i] = IF i <= Len(<<x>>) THEN <<x>>[i] ELSE s[i - Len(<<x>>)]
  BY <1>1, ConcatProperties
<1>3. n \in Nat /\ DOMAIN s = 1 .. n
  BY LenProperties
<1> HIDE DEF t, n
<1>4. Len(t) = n + 1 /\ t[1] = x /\ \A k \in 2 .. n + 1 : t[k] = s[k - 1]
  BY <1>1, <1>2, <1>3
<1>5. DOMAIN t = 1 .. n + 1
  BY <1>2, <1>4, LenProperties
<1>6. \A k \in 1 .. n : t[k + 1] = s[k]
  BY <1>3, <1>4
<1>7. Elements(t) = {x} \cup Elements(s)
  <2>1. ASSUME NEW k \in 1 .. n + 1 PROVE t[k] \in {x} \cup Elements(s)
    BY <1>3, <1>4 DEF Elements
  <2>2. ASSUME NEW k \in 1 .. n PROVE s[k] \in Elements(t)
    <3>1. k + 1 \in DOMAIN t /\ t[k + 1] = s[k]
      BY <1>3, <1>5, <1>6
    <3> QED
      BY <3>1 DEF Elements
  <2>3. x \in Elements(t)
    <3>1. 1 \in DOMAIN t
      BY <1>3, <1>5
    <3> QED
      BY <1>4, <3>1 DEF Elements
  <2> QED
    BY <1>3, <1>5, <2>1, <2>2, <2>3 DEF Elements
<1>8. ASSUME x \notin Elements(s), Injective(s) PROVE Injective(t)
  <2>1. \A k \in 2 .. n + 1 : t[k] # x
    BY <1>3, <1>4, <1>8 DEF Elements
  <2>2. \A k, l \in 1 .. n : s[k] = s[l] => k = l
    BY <1>3, <1>8 DEF Injective
  <2>3. \A k, l \in 2 .. n + 1 : t[k] = t[l] => k = l
    BY <1>3, <1>4, <2>2
  <2> QED
    BY <1>3, <1>4, <1>5, <2>1, <2>3 DEF Injective
<1> QED
  BY <1>2, <1>4, <1>5, <1>6, <1>7, <1>8 DEF t, n

LEMMA GuardsFacts ==
  ASSUME IInv, pc \in {"build", "chain"}
  PROVE  /\ Guards \in Seq(Nat) /\ Injective(Guards) /\ Elements(Guards) = Owned
         /\ \A k \in Elements(Guards) : k \in Live(arena) /\ k # Root /\ k # None
<1>0. Sound(arena, Owners) /\ arena \in Arenas /\ todo = <<>>
  BY DEF IInv, OwnersOk, Sound, PhaseOk
<1>1. \A k \in Owned : k \in Live(arena) /\ k # Root /\ k # None
  BY <1>0, ArenaFacts DEF IInv, OwnersOk, Owners, Sound, Trees
<1>2. CASE pc = "build"
  <2> DEFINE s == [k \in DOMAIN frames |-> frames[k].id]
  <2>1. chain = None /\ frames \in Seq(Frames)
    BY <1>2 DEF IInv, PhaseOk, TypesOk
  <2>2. DOMAIN frames = 1 .. Len(frames) /\ Len(frames) \in Nat
    BY <2>1, LenProperties
  <2>3. \A k \in DOMAIN frames : frames[k].id \in Nat
    <3>1. \A k \in DOMAIN frames : frames[k] \in Frames
      BY <2>1, <2>2, ElementOfSeq
    <3> QED
      BY <3>1 DEF Frames
  <2>4. s \in Seq(Nat)
    <3>1. s \in [1 .. Len(frames) -> Nat]
      BY <2>2, <2>3
    <3> QED
      BY <2>2, <3>1, SeqDef
  <2>5. Guards = s
    <3>1. Guards = s \o <<>>
      BY <2>1 DEF Guards
    <3> HIDE DEF s
    <3> QED
      BY <2>4, <3>1, ConcatEmptySeq
  <2>6. Injective(s)
    BY DEF Injective, IInv, OwnersOk
  <2>7. Elements(s) = Owned
    BY <1>0, <2>1 DEF Elements, Owned
  <2> QED
    BY <1>1, <2>4, <2>5, <2>6, <2>7
<1>3. CASE pc = "chain"
  <2>1. frames = <<>> /\ chain # None /\ chain \in Nat
    BY <1>3 DEF IInv, PhaseOk, TypesOk
  <2>2. Guards = <<chain>>
    BY <2>1 DEF Guards
  <2>3. Owned = {chain}
    BY <1>0, <2>1 DEF Owned
  <2> QED
    BY <1>1, <2>1, <2>2, <2>3 DEF Injective, Elements
<1> QED
  BY <1>2, <1>3

LEMMA ThrowKeeps ==
  ASSUME IInv, pc \in {"build", "chain"}, NEW slots, Throw(slots), slots \in Seq(Nat),
         Injective(slots), Root \notin Elements(slots), None \notin Elements(slots),
         Sound(arena', {Root} \cup Elements(slots)), SameLives(arena, arena')
  PROVE  IInv'
BY FreeKeeps DEF Throw, Injective, Elements

\* std::bad_alloc with nothing new allocated.
LEMMA ThrowGuards ==
  ASSUME IInv, pc \in {"build", "chain"}, Throw(Guards), Sound(arena', Owners),
         SameLives(arena, arena')
  PROVE  IInv'
<1>1. /\ Guards \in Seq(Nat) /\ Injective(Guards) /\ Elements(Guards) = Owned
      /\ Root \notin Elements(Guards) /\ None \notin Elements(Guards)
  BY GuardsFacts
<1>2. Sound(arena', {Root} \cup Elements(Guards))
  BY <1>1 DEF Owners
<1> QED
  BY <1>1, <1>2, ThrowKeeps

\* std::bad_alloc when the node id has been allocated.
LEMMA ThrowMore ==
  ASSUME IInv, pc \in {"build", "chain"}, NEW id \in Nat, Throw(<<id>> \o Guards),
         id # None, id \notin Live(arena), Sound(arena', Owners \cup {id}), SameLives(arena, arena')
  PROVE  IInv'
<1>1. /\ Guards \in Seq(Nat) /\ Injective(Guards) /\ Elements(Guards) = Owned
      /\ \A k \in Elements(Guards) : k \in Live(arena) /\ k # Root /\ k # None
  BY GuardsFacts
<1>2. id # Root
  BY DEF IInv, OwnersOk, Owners, Sound, Trees
<1> DEFINE slots == <<id>> \o Guards
<1>3. slots \in Seq(Nat) /\ Elements(slots) = {id} \cup Owned /\ Injective(slots)
  BY <1>1, ConsFacts
<1> HIDE DEF slots
<1>4. Root \notin Elements(slots) /\ None \notin Elements(slots)
  BY <1>1, <1>2, <1>3
<1>5. Owners \cup {id} = {Root} \cup Elements(slots)
  BY <1>3 DEF Owners
<1>6. Throw(slots) /\ Sound(arena', {Root} \cup Elements(slots))
  BY <1>5 DEF slots
<1> QED
  BY <1>3, <1>4, <1>6, ThrowKeeps

WithParent(a, i, p) == [a EXCEPT !.nodes[i].parent = p]
WithScalar(a, i, s) == [a EXCEPT !.nodes[i].scalar = s]

\* b is a, with a new root id.
Grown(a, b, O, id) ==
  /\ Sound(b, O \cup {id})
  /\ id \in Nat /\ id # None /\ id \notin Live(a) /\ Live(b) = Live(a) \cup {id}
  /\ SameLives(a, b)
  /\ \A i \in Live(a) : b.nodes[i].type = a.nodes[i].type /\ b.nodes[i].kids = a.nodes[i].kids
  /\ \A i \in Live(a) : \A R : Under(a, O, i, R) => Under(b, O \cup {id}, i, R)

LEMMA GrownAllocate ==
  ASSUME NEW a, NEW O, Sound(a, O), NEW type \in NodeTypes, NEW b, b = Allocate(a, type),
         NEW id, id = Slot(a)
  PROVE  Grown(a, b, O, id) /\ b.nodes[id].type = type
BY SoundAllocate DEF Grown

LEMMA GrownFields ==
  ASSUME NEW a, NEW b, NEW O, NEW id, Grown(a, b, O, id), NEW i, i = id \/ i \in O, NEW n \in Nodes,
         n.kids = b.nodes[i].kids, n.alive = b.nodes[i].alive, n.type = b.nodes[i].type,
         n.gen = b.nodes[i].gen, n.life = b.nodes[i].life,
         NEW c, c = WithNode(b, i, n)
  PROVE  Grown(a, c, O, id) /\ c.nodes[id].type = b.nodes[id].type
<1> DEFINE Q == O \cup {id}
<1>1. Sound(b, Q) /\ i \in Q
  BY DEF Grown
<1> HIDE DEF Q
<1>2. /\ Sound(c, Q) /\ Live(c) = Live(b) /\ SameLives(b, c)
      /\ \A j \in DOMAIN b.nodes : c.nodes[j].type = b.nodes[j].type
                                   /\ c.nodes[j].kids = b.nodes[j].kids
      /\ \A j, R : Under(b, Q, j, R) => Under(c, Q, j, R)
  BY <1>1, SoundFields
<1>3. Live(b) = Live(a) \cup {id} /\ Live(b) \subseteq DOMAIN b.nodes
  BY <1>1, ArenaFacts DEF Grown, Sound
<1>4. SameLives(a, c)
  BY <1>2 DEF Grown, SameLives
<1>5. \A j \in Live(a) : \A R : Under(a, O, j, R) => Under(c, Q, j, R)
  BY <1>2 DEF Grown, Q
<1> QED
  BY <1>2, <1>3, <1>4, <1>5 DEF Grown, Q

LEMMA GrownParent ==
  ASSUME NEW a, NEW b, NEW O, NEW id, Grown(a, b, O, id), NEW i, i = id \/ i \in O, NEW p \in Nat,
         NEW c, c = WithParent(b, i, p)
  PROVE  Grown(a, c, O, id) /\ c.nodes[id].type = b.nodes[id].type
<1> DEFINE n == [b.nodes[i] EXCEPT !.parent = p]
<1>1. b \in Arenas /\ i \in DOMAIN b.nodes
  BY ArenaFacts DEF Grown, Sound, Trees
<1>2. b.nodes[i] \in Nodes
  BY <1>1, ArenaFacts
<1>3. /\ n \in Nodes /\ n.kids = b.nodes[i].kids /\ n.alive = b.nodes[i].alive
      /\ n.type = b.nodes[i].type /\ n.gen = b.nodes[i].gen /\ n.life = b.nodes[i].life
  BY <1>2 DEF Nodes
<1>4. c = WithNode(b, i, n)
  BY DEF WithParent, WithNode
<1> HIDE DEF n
<1> QED
  BY <1>3, <1>4, GrownFields

LEMMA GrownScalar ==
  ASSUME NEW a, NEW b, NEW O, NEW id, Grown(a, b, O, id), NEW s \in Scalars,
         NEW c, c = WithScalar(b, id, s)
  PROVE  Grown(a, c, O, id) /\ c.nodes[id].type = b.nodes[id].type
<1> DEFINE n == [b.nodes[id] EXCEPT !.scalar = s]
<1>1. b \in Arenas /\ id \in DOMAIN b.nodes
  BY ArenaFacts DEF Grown, Sound, Trees
<1>2. b.nodes[id] \in Nodes
  BY <1>1, ArenaFacts
<1>3. /\ n \in Nodes /\ n.kids = b.nodes[id].kids /\ n.alive = b.nodes[id].alive
      /\ n.type = b.nodes[id].type /\ n.gen = b.nodes[id].gen /\ n.life = b.nodes[id].life
  BY <1>2 DEF Nodes
<1>4. c = WithNode(b, id, n)
  BY DEF WithScalar, WithNode
<1> HIDE DEF n
<1> QED
  BY <1>3, <1>4, GrownFields

LEMMA ValueFacts ==
  ASSUME NEW v \in ConfigValues
  PROVE  /\ v.type \in NodeTypes /\ v.scalar \in Scalars
         /\ v.kids \in Seq([key : Keys, value : ConfigValues])
         /\ v.kids # <<>> => v.type \in Containers
         /\ Len(v.kids) \in Nat
         /\ \A k \in 1 .. Len(v.kids) : v.kids[k].key \in Keys /\ v.kids[k].value \in ConfigValues
<1>1. /\ v \in [type : NodeTypes, scalar : Scalars, kids : Seq([key : Keys, value : ConfigValues])]
      /\ v.kids # <<>> => v.type \in Containers
  BY ModelAssumption
<1>2. v.type \in NodeTypes /\ v.scalar \in Scalars /\ v.kids \in Seq([key : Keys, value : ConfigValues])
  BY <1>1
<1>3. Len(v.kids) \in Nat
  BY <1>2, LenProperties
<1>4. ASSUME NEW k \in 1 .. Len(v.kids) PROVE v.kids[k].key \in Keys /\ v.kids[k].value \in ConfigValues
  <2>1. v.kids[k] \in [key : Keys, value : ConfigValues]
    BY <1>2, ElementOfSeq
  <2> QED
    BY <2>1
<1> QED
  BY <1>1, <1>2, <1>3, <1>4

LEMMA FrameFacts ==
  ASSUME IInv, pc = "build"
  PROVE  /\ Sound(arena, Owners) /\ arena \in Arenas
         /\ chain = None /\ todo = <<>> /\ frames \in Seq(Frames) /\ Len(frames) \in Nat
         /\ DOMAIN frames = 1 .. Len(frames)
         /\ \A k \in DOMAIN frames :
              /\ frames[k] \in Frames
              /\ frames[k].id \in Owned /\ frames[k].id \in Live(arena)
              /\ frames[k].id \in Nat /\ frames[k].value \in ConfigValues
         /\ Owned = {frames[k].id : k \in DOMAIN frames}
<1>1. Sound(arena, Owners) /\ arena \in Arenas /\ chain = None /\ todo = <<>> /\ frames \in Seq(Frames)
  BY DEF IInv, OwnersOk, Sound, PhaseOk, TypesOk
<1>2. Len(frames) \in Nat /\ DOMAIN frames = 1 .. Len(frames)
  BY <1>1, LenProperties
<1>3. Owned = {frames[k].id : k \in DOMAIN frames}
  BY <1>1 DEF Owned
<1>4. \A k \in DOMAIN frames : frames[k] \in Frames
  BY <1>1, <1>2, ElementOfSeq
<1>5. Owned \subseteq Live(arena)
  BY <1>1 DEF Owners, Sound, Trees
<1>6. \A k \in DOMAIN frames : frames[k].id \in Nat /\ frames[k].value \in ConfigValues
  BY <1>4 DEF Frames
<1> QED
  BY <1>1, <1>2, <1>3, <1>4, <1>5, <1>6

\* A new activation, with a node of its own.
LEMMA PushKeeps ==
  ASSUME IInv, pc = "build", NEW v \in ConfigValues, NEW id,
         Grown(arena, arena', Owners, id), arena'.nodes[id].type = v.type,
         frames' = <<[value |-> v, id |-> id, next |-> 1]>> \o frames,
         UNCHANGED <<aside, pc, call, at, index, chain, level, todo, replaced, result, handle>>,
         frames = <<>> => v = call.value,
         frames # <<>> => frames[1].next <= Len(frames[1].value.kids)
  PROVE  IInv'
<1>0. /\ aside' = aside /\ pc' = pc /\ call' = call /\ at' = at /\ index' = index /\ chain' = chain
      /\ level' = level /\ todo' = todo /\ handle' = handle
  OBVIOUS
<1>1. /\ Sound(arena, Owners) /\ arena \in Arenas
      /\ chain = None /\ todo = <<>> /\ frames \in Seq(Frames) /\ Len(frames) \in Nat
      /\ DOMAIN frames = 1 .. Len(frames)
      /\ \A k \in DOMAIN frames :
           /\ frames[k] \in Frames
           /\ frames[k].id \in Owned /\ frames[k].id \in Live(arena)
           /\ frames[k].id \in Nat /\ frames[k].value \in ConfigValues
      /\ Owned = {frames[k].id : k \in DOMAIN frames}
  BY FrameFacts
<1>2. /\ Sound(arena', Owners \cup {id}) /\ SameLives(arena, arena')
      /\ id \in Nat /\ id # None /\ id \notin Live(arena) /\ Live(arena') = Live(arena) \cup {id}
      /\ \A i \in Live(arena) : arena'.nodes[i].type = arena.nodes[i].type
      /\ \A i \in Live(arena) : \A R : Under(arena, Owners, i, R) => Under(arena', Owners \cup {id}, i, R)
  BY DEF Grown
<1> DEFINE f == [value |-> v, id |-> id, next |-> 1]
           n == Len(frames)
<1>3. f \in Frames /\ f.id = id /\ f.value = v /\ f.next = 1
  BY <1>2 DEF Frames
<1>4. frames' = <<f>> \o frames
  OBVIOUS
<1> HIDE DEF f
<1>5. /\ frames' \in Seq(Frames) /\ Len(frames') = n + 1 /\ DOMAIN frames' = 1 .. n + 1
      /\ frames'[1] = f
      /\ \A k \in 1 .. n : frames'[k + 1] = frames[k]
      /\ \A k \in 2 .. n + 1 : frames'[k] = frames[k - 1]
  BY <1>1, <1>3, <1>4, ConsFacts
<1> HIDE DEF n
<1>6. n \in Nat /\ DOMAIN frames = 1 .. n /\ Len(frames) = n
  BY <1>1 DEF n
<1>7. Owned' = Owned \cup {id}
  <2>1. Owned' = {frames'[k].id : k \in DOMAIN frames'}
    BY <1>0, <1>1 DEF Owned
  <2>2. ASSUME NEW k \in DOMAIN frames' PROVE frames'[k].id \in Owned \cup {id}
    <3>1. CASE k = 1
      BY <1>3, <1>5, <3>1
    <3>2. CASE k # 1
      <4>1. k - 1 \in 1 .. n /\ frames'[k] = frames[k - 1]
        BY <1>5, <1>6, <3>2
      <4> QED
        BY <1>1, <1>6, <4>1
    <3> QED
      BY <3>1, <3>2
  <2>3. ASSUME NEW k \in 1 .. n PROVE frames[k].id \in Owned'
    <3>1. k + 1 \in DOMAIN frames' /\ frames'[k + 1] = frames[k]
      BY <1>5, <1>6
    <3> QED
      BY <2>1, <3>1
  <2>4. id \in Owned'
    <3>1. 1 \in DOMAIN frames' /\ frames'[1].id = id
      BY <1>3, <1>5, <1>6
    <3> QED
      BY <2>1, <3>1
  <2>5. Owned' \subseteq Owned \cup {id}
    BY <2>1, <2>2
  <2>6. Owned \subseteq Owned'
    BY <1>1, <1>6, <2>3
  <2> QED
    BY <2>4, <2>5, <2>6
<1>8. Owners' = Owners \cup {id}
  BY <1>7 DEF Owners
<1>9. id # Root /\ Root \in Live(arena)
  BY <1>1, <1>2 DEF Owners, Sound, Trees
<1>10. TypesOk'
  BY <1>0, <1>5 DEF IInv, TypesOk
<1>11. PhaseOk'
  BY <1>0 DEF IInv, PhaseOk, AtEnd
<1>12. OwnersOk'
  <2>1. Sound(arena', Owners')
    BY <1>2, <1>8
  <2>2. (aside # NoArena => Sound(aside, {Root}))'
    BY <1>0 DEF IInv, OwnersOk
  <2>3. Root \notin Owned'
    BY <1>7, <1>9 DEF IInv, OwnersOk
  <2>4. \A k, l \in DOMAIN frames' : frames'[k].id = frames'[l].id => k = l
    <3>1. ASSUME NEW k \in 2 .. n + 1
          PROVE  frames'[k].id # id /\ frames'[k].id = frames[k - 1].id /\ k - 1 \in 1 .. n
      <4>1. frames'[k] = frames[k - 1] /\ k - 1 \in 1 .. n /\ k - 1 \in DOMAIN frames
        BY <1>5, <1>6
      <4>2. frames[k - 1].id \in Live(arena)
        BY <1>1, <4>1
      <4> QED
        BY <1>2, <4>1, <4>2
    <3>2. \A k, l \in 1 .. n : frames[k].id = frames[l].id => k = l
      BY <1>6 DEF IInv, OwnersOk
    <3>3. \A k, l \in 2 .. n + 1 : frames'[k].id = frames'[l].id => k = l
      BY <1>6, <3>1, <3>2
    <3>4. frames'[1].id = id
      BY <1>3, <1>5
    <3> QED
      BY <1>5, <1>6, <3>1, <3>3, <3>4
  <2>5. (\A k, l \in DOMAIN todo : todo[k] = todo[l] => k = l)' /\ chain' \notin Pending'
    BY <1>0, <1>1 DEF Pending
  <2> QED
    BY <2>1, <2>2, <2>3, <2>4, <2>5 DEF OwnersOk
<1>13. at \in Live(arena) /\ Under(arena, Owners, at, {Root})
  BY DEF IInv, AtOk
<1>14. AtOk'
  <2>1. at' \in Live(arena') /\ Under(arena', Owners', at', {Root})
    BY <1>0, <1>2, <1>8, <1>13
  <2> QED
    BY <1>0, <2>1 DEF IInv, AtOk
<1>15. FitsOk'
  <2>1. arena'.nodes[at'].type = arena.nodes[at].type
    BY <1>0, <1>2, <1>13
  <2> QED
    BY <1>0, <2>1 DEF IInv, FitsOk, AtEnd, Seg
<1>16. FramesOk'
  <2>1. ASSUME NEW k \in DOMAIN frames'
        PROVE  /\ arena'.nodes[frames'[k].id].type = frames'[k].value.type
               /\ frames'[k].next \in 1 .. Len(frames'[k].value.kids) + 1
               /\ k > 1 => frames'[k].next <= Len(frames'[k].value.kids)
    <3>1. CASE k = 1
      <4>1. Len(v.kids) \in Nat
        BY ValueFacts
      <4> QED
        BY <1>3, <1>5, <3>1, <4>1
    <3>2. CASE k # 1
      <4>1. k - 1 \in 1 .. n /\ frames'[k] = frames[k - 1] /\ k - 1 \in DOMAIN frames
        BY <1>5, <1>6, <3>2
      <4>2. /\ arena.nodes[frames[k - 1].id].type = frames[k - 1].value.type
            /\ frames[k - 1].next \in 1 .. Len(frames[k - 1].value.kids) + 1
            /\ k - 1 > 1 => frames[k - 1].next <= Len(frames[k - 1].value.kids)
        BY <4>1 DEF IInv, FramesOk
      <4>3. arena'.nodes[frames[k - 1].id].type = arena.nodes[frames[k - 1].id].type
        BY <1>1, <1>2, <4>1
      <4>4. k - 1 = 1 => frames[k - 1].next <= Len(frames[k - 1].value.kids)
        <5>1. frames # <<>>
          BY <1>6, <4>1
        <5> QED
          BY <5>1
      <4>5. frames[k - 1].next <= Len(frames[k - 1].value.kids)
        BY <1>6, <4>1, <4>2, <4>4
      <4> QED
        BY <4>1, <4>2, <4>3, <4>5
    <3> QED
      BY <3>1, <3>2
  <2>2. frames'[Len(frames')].value = call'.value
    <3>1. CASE n = 0
      <4>1. frames = <<>>
        BY <1>1, <1>6, <3>1, EmptySeq
      <4> QED
        BY <1>0, <1>3, <1>5, <3>1, <4>1
    <3>2. CASE n # 0
      <4>1. frames # <<>> /\ frames'[n + 1] = frames[n]
        BY <1>5, <1>6, <3>2
      <4>2. frames[n].value = call.value
        BY <1>6, <4>1 DEF IInv, FramesOk
      <4> QED
        BY <1>0, <1>5, <4>1, <4>2
    <3> QED
      BY <3>1, <3>2
  <2> QED
    BY <2>1, <2>2 DEF FramesOk
<1>17. HandlesOk'
  BY <1>0, <1>2, HandlesKeep DEF IInv
<1>18. ReplacedOk'
  BY <1>0 DEF ReplacedOk
<1> QED
  BY <1>10, <1>11, <1>12, <1>14, <1>15, <1>16, <1>17, <1>18 DEF IInv

LEMMA EnterKeeps ==
  ASSUME IInv, pc = "build", NEW v \in ConfigValues, NEW parent \in Nat, Enter(v, parent),
         frames = <<>> => v = call.value,
         frames # <<>> => frames[1].next <= Len(frames[1].value.kids)
  PROVE  IInv'
<1> DEFINE id == Slot(arena)
           fresh == Allocate(arena, v.type)
           new == WithParent(fresh, id, parent)
<1>1. Sound(arena, Owners) /\ v.type \in NodeTypes /\ v.scalar \in Scalars
  BY ValueFacts DEF IInv, OwnersOk
<1>2. Grown(arena, fresh, Owners, id) /\ fresh.nodes[id].type = v.type
  BY <1>1, GrownAllocate
<1> HIDE DEF fresh, id
<1>3. Grown(arena, new, Owners, id) /\ new.nodes[id].type = v.type
  <2>1. new = WithParent(fresh, id, parent) /\ parent \in Nat
    OBVIOUS
  <2> HIDE DEF new
  <2>2. Grown(arena, new, Owners, id) /\ new.nodes[id].type = fresh.nodes[id].type
    BY <1>2, <2>1, GrownParent
  <2> QED
    BY <1>2, <2>2
<1>4. CASE arena.free = None /\ Throw(Guards) /\ UNCHANGED arena
  <2>1. arena' = arena /\ SameLives(arena, arena')
    BY <1>4 DEF SameLives
  <2> QED
    BY <1>1, <1>4, <2>1, ThrowGuards
<1>5. CASE arena' = new /\ Throw(<<id>> \o Guards)
  <2>1. /\ id \in Nat /\ id # None /\ id \notin Live(arena)
        /\ Sound(arena', Owners \cup {id}) /\ SameLives(arena, arena')
    BY <1>3, <1>5 DEF Grown
  <2> QED
    BY <1>5, <2>1, ThrowMore
<1>6. CASE /\ arena' = WithScalar(new, id, v.scalar)
           /\ frames' = <<[value |-> v, id |-> id, next |-> 1]>> \o frames
           /\ UNCHANGED <<aside, pc, call, at, index, chain, level, todo, replaced, result, handle>>
  <2> DEFINE s == v.scalar
  <2>1. arena' = WithScalar(new, id, s) /\ s \in Scalars /\ Grown(arena, new, Owners, id)
    BY <1>1, <1>3, <1>6
  <2> HIDE DEF new, s
  <2>2. Grown(arena, arena', Owners, id) /\ arena'.nodes[id].type = new.nodes[id].type
    BY <2>1, GrownScalar
  <2>3. arena'.nodes[id].type = v.type
    BY <1>3, <2>2
  <2> QED
    BY <1>6, <2>2, <2>3, PushKeeps
<1> QED
  BY <1>4, <1>5, <1>6 DEF Enter, id, fresh, WithParent, WithScalar

LEMMA BuildFromValueKeeps ==
  ASSUME IInv, BuildFromValue
  PROVE  IInv'
<1>1. pc = "build" /\ frames = <<>> /\ Enter(call.value, None)
  BY DEF BuildFromValue
<1>2. call.value \in ConfigValues /\ None \in Nat
  BY <1>1 DEF IInv, TypesOk, None
<1> QED
  BY <1>1, <1>2, EnterKeeps

LEMMA BuildChildKeeps ==
  ASSUME IInv, BuildChild
  PROVE  IInv'
<1> DEFINE f == frames[1]
<1>1. pc = "build" /\ frames # <<>> /\ ~Finished(f) /\ Enter(f.value.kids[f.next].value, f.id)
  BY DEF BuildChild
<1>2. frames \in Seq(Frames) /\ Len(frames) \in Nat /\ DOMAIN frames = 1 .. Len(frames)
  BY <1>1, FrameFacts
<1>3. 1 \in DOMAIN frames
  BY <1>1, <1>2, EmptySeq
<1>4. f.value \in ConfigValues /\ f.id \in Nat /\ f.next \in 1 .. Len(f.value.kids) + 1
  BY <1>1, <1>3, FrameFacts DEF IInv, FramesOk
<1> HIDE DEF f
<1>5. Len(f.value.kids) \in Nat
  BY <1>4, ValueFacts
<1>6. f.next \in 1 .. Len(f.value.kids)
  BY <1>1, <1>4, <1>5 DEF Finished
<1>7. f.value.kids[f.next].value \in ConfigValues
  BY <1>4, <1>6, ValueFacts
<1> QED
  BY <1>1, <1>4, <1>6, <1>7, EnterKeeps DEF f

LEMMA PopFacts ==
  ASSUME NEW S, NEW s \in Seq(S), Len(s) > 1, NEW x \in S, NEW t,
         t = <<x>> \o SubSeq(s, 3, Len(s))
  PROVE  /\ t \in Seq(S) /\ Len(t) = Len(s) - 1 /\ DOMAIN t = 1 .. Len(s) - 1
         /\ t[1] = x /\ \A k \in 2 .. Len(s) - 1 : t[k] = s[k + 1]
<1> DEFINE n == Len(s)
           r == SubSeq(s, 3, n)
<1>1. n \in Nat /\ n > 1
  BY LenProperties
<1>2. \A i \in 3 .. n : s[i] \in S
  BY <1>1, ElementOfSeq
<1>3. /\ r \in Seq(S)
      /\ Len(r) = IF 3 <= n THEN n - 3 + 1 ELSE 0
      /\ \A i \in 1 .. n - 3 + 1 : r[i] = s[3 + i - 1]
  BY <1>1, <1>2, SubSeqProperties
<1> HIDE DEF r, n
<1>4. Len(r) = n - 2
  BY <1>1, <1>3
<1>5. t = <<x>> \o r
  BY DEF r, n
<1>6. /\ t \in Seq(S)
      /\ Len(t) = Len(r) + 1 /\ DOMAIN t = 1 .. Len(r) + 1
      /\ t[1] = x
      /\ \A k \in 2 .. Len(r) + 1 : t[k] = r[k - 1]
  BY <1>3, <1>5, ConsFacts
<1>7. Len(t) = n - 1 /\ DOMAIN t = 1 .. n - 1
  BY <1>1, <1>4, <1>6
<1>8. ASSUME NEW k \in 2 .. n - 1 PROVE t[k] = s[k + 1]
  <2>1. k \in 2 .. Len(r) + 1 /\ k - 1 \in 1 .. n - 3 + 1 /\ 3 + (k - 1) - 1 = k + 1
    BY <1>1, <1>4
  <2> QED
    BY <1>3, <1>6, <2>1
<1> QED
  BY <1>6, <1>7, <1>8 DEF n

LEMMA LinkChildKeeps ==
  ASSUME IInv, LinkChild
  PROVE  IInv'
<1> DEFINE f == frames[2]
           g == frames[1]
           n == Len(frames)
           key == f.value.kids[f.next].key
<1>0. pc = "build" /\ n > 1 /\ Finished(g)
  BY DEF LinkChild
<1>1. /\ Sound(arena, Owners) /\ arena \in Arenas
      /\ chain = None /\ todo = <<>> /\ frames \in Seq(Frames) /\ n \in Nat
      /\ DOMAIN frames = 1 .. n
      /\ \A k \in DOMAIN frames :
           /\ frames[k] \in Frames
           /\ frames[k].id \in Owned /\ frames[k].id \in Live(arena)
           /\ frames[k].id \in Nat /\ frames[k].value \in ConfigValues
      /\ Owned = {frames[k].id : k \in DOMAIN frames}
  BY <1>0, FrameFacts
<1>2. CASE Throw(Guards) /\ UNCHANGED arena
  <2>1. arena' = arena /\ SameLives(arena, arena')
    BY <1>2 DEF SameLives
  <2> QED
    BY <1>0, <1>1, <1>2, <2>1, ThrowGuards
<1>3. CASE /\ arena' = Link(arena, f.id, key, g.id)
           /\ frames' = <<[f EXCEPT !.next = @ + 1]>> \o SubSeq(frames, 3, Len(frames))
           /\ UNCHANGED <<aside, pc, call, at, index, chain, level, todo, replaced, result, handle>>
  <2>0. /\ aside' = aside /\ pc' = pc /\ call' = call /\ at' = at /\ index' = index /\ chain' = chain
        /\ level' = level /\ todo' = todo /\ handle' = handle
    BY <1>3
  <2>1. 1 \in DOMAIN frames /\ 2 \in DOMAIN frames
    BY <1>0, <1>1
  <2>2. \A k, l \in DOMAIN frames : frames[k].id = frames[l].id => k = l
    BY DEF IInv, OwnersOk
  <2>3. /\ f \in Frames /\ f.id \in Owned /\ f.id \in Live(arena) /\ f.value \in ConfigValues
        /\ g.id \in Owned /\ g.id \in Live(arena) /\ f.id # g.id
    BY <1>1, <2>1, <2>2
  <2>4. /\ arena.nodes[f.id].type = f.value.type
        /\ f.next \in 1 .. Len(f.value.kids) + 1 /\ f.next <= Len(f.value.kids)
    BY <2>1 DEF IInv, FramesOk
  <2> DEFINE h == [f EXCEPT !.next = @ + 1]
  <2>5. h \in Frames /\ h.id = f.id /\ h.value = f.value /\ h.next = f.next + 1
    BY <2>3 DEF Frames
  <2> HIDE DEF h
  <2>6. /\ frames' \in Seq(Frames) /\ Len(frames') = n - 1 /\ DOMAIN frames' = 1 .. n - 1
        /\ frames'[1] = h /\ \A k \in 2 .. n - 1 : frames'[k] = frames[k + 1]
    <3>1. frames' = <<h>> \o SubSeq(frames, 3, Len(frames))
      BY <1>3 DEF h
    <3> QED
      BY <1>0, <1>1, <2>5, <3>1, PopFacts
  <2> HIDE DEF f, g, n, key
  <2>7. f = frames[2] /\ g = frames[1] /\ n = Len(frames)
    BY DEF f, g, n
  <2>8. \A k \in 1 .. n - 1 : frames'[k].id = frames[k + 1].id /\ frames'[k].value = frames[k + 1].value
                              /\ k + 1 \in DOMAIN frames
    <3> SUFFICES ASSUME NEW k \in 1 .. n - 1
                 PROVE  frames'[k].id = frames[k + 1].id /\ frames'[k].value = frames[k + 1].value
                        /\ k + 1 \in DOMAIN frames
      OBVIOUS
    <3>1. CASE k = 1
      BY <1>0, <1>1, <2>1, <2>5, <2>6, <2>7, <3>1
    <3>2. CASE k # 1
      BY <1>0, <1>1, <2>6, <3>2
    <3> QED
      BY <3>1, <3>2
  <2>9. key \in Keys /\ f.value.type \in Containers
    <3>1. Len(f.value.kids) \in Nat
      BY <2>3, ValueFacts
    <3>2. f.next \in 1 .. Len(f.value.kids)
      BY <2>4, <3>1
    <3>3. f.value.kids # <<>>
      BY <3>1, <3>2
    <3> QED
      BY <2>3, <3>2, <3>3, ValueFacts DEF key
  <2>10. /\ Sound(arena', Owners \ {g.id}) /\ Live(arena') = Live(arena) /\ SameLives(arena, arena')
         /\ \A j \in Live(arena) : arena'.nodes[j].type = arena.nodes[j].type
         /\ \A i, R : Under(arena, Owners, i, R) => Under(arena', Owners \ {g.id}, i, R)
    <3> DEFINE p == f.id
               c == g.id
    <3>1. c \in Owners /\ p \in Owners \ {c}
      BY <2>3 DEF Owners
    <3>2. arena' = Link(arena, p, key, c)
      BY <1>3 DEF f, g, key
    <3>3. Sound(arena, Owners) /\ p \in Live(arena) /\ p # c /\ arena.nodes[p].type \in Containers
      BY <1>1, <2>3, <2>4, <2>9
    <3> HIDE DEF p, c
    <3>4. Under(arena, Owners, p, Owners \ {c})
      BY <3>1 DEF Under
    <3>5. LinkUnder(arena, arena', Owners, c)
      BY <2>9, <3>1, <3>2, <3>3, <3>4, SoundLink
    <3> QED
      BY <3>5 DEF LinkUnder, c
  <2>11. Owned' = Owned \ {g.id}
    <3>1. Owned' = {frames'[k].id : k \in DOMAIN frames'}
      BY <1>1, <2>0 DEF Owned
    <3>2. ASSUME NEW k \in DOMAIN frames' PROVE frames'[k].id \in Owned \ {g.id}
      <4>1. k \in 1 .. n - 1 /\ k + 1 \in DOMAIN frames /\ frames'[k].id = frames[k + 1].id /\ k + 1 # 1
        BY <1>1, <2>6, <2>8
      <4>2. frames[k + 1].id \in Owned /\ frames[k + 1].id # frames[1].id
        BY <1>1, <2>1, <2>2, <4>1
      <4> QED
        BY <2>7, <4>1, <4>2
    <3>3. ASSUME NEW k \in DOMAIN frames, k # 1 PROVE frames[k].id \in Owned'
      <4>1. k - 1 \in 1 .. n - 1 /\ (k - 1) + 1 = k
        BY <1>1, <3>3
      <4>2. k - 1 \in DOMAIN frames' /\ frames'[k - 1].id = frames[k].id
        BY <2>6, <2>8, <4>1
      <4> QED
        BY <3>1, <4>2
    <3>4. Owned' \subseteq Owned \ {g.id}
      BY <3>1, <3>2
    <3>5. Owned \ {g.id} \subseteq Owned'
      BY <1>1, <2>7, <3>3
    <3> QED
      BY <3>4, <3>5
  <2>12. Owners' = Owners \ {g.id}
    BY <2>3, <2>11 DEF Owners, IInv, OwnersOk
  <2>13. TypesOk'
    BY <2>0, <2>6 DEF IInv, TypesOk
  <2>14. PhaseOk'
    BY <1>0, <2>0 DEF IInv, PhaseOk, AtEnd
  <2>15. OwnersOk'
    <3>1. Sound(arena', Owners')
      BY <2>10, <2>12
    <3>2. (aside # NoArena => Sound(aside, {Root}))'
      BY <2>0 DEF IInv, OwnersOk
    <3>3. Root \notin Owned'
      BY <2>11 DEF IInv, OwnersOk
    <3>4. ASSUME NEW k \in DOMAIN frames', NEW l \in DOMAIN frames', frames'[k].id = frames'[l].id
          PROVE  k = l
      <4>1. frames[k + 1].id = frames[l + 1].id /\ k + 1 \in DOMAIN frames /\ l + 1 \in DOMAIN frames
            /\ k \in 1 .. n - 1 /\ l \in 1 .. n - 1
        BY <2>6, <2>8, <3>4
      <4>2. k + 1 = l + 1
        BY <2>2, <4>1
      <4> QED
        BY <1>1, <4>1, <4>2
    <3>5. (\A k, l \in DOMAIN todo : todo[k] = todo[l] => k = l)' /\ chain' \notin Pending'
      BY <1>1, <2>0 DEF Pending
    <3> QED
      BY <3>1, <3>2, <3>3, <3>4, <3>5 DEF OwnersOk
  <2>16. at \in Live(arena) /\ Under(arena, Owners, at, {Root})
    BY <1>0 DEF IInv, AtOk
  <2>17. AtOk'
    <3>1. at' \in Live(arena') /\ Under(arena', Owners', at', {Root})
      BY <2>0, <2>10, <2>12, <2>16
    <3> QED
      BY <1>0, <2>0, <3>1 DEF IInv, AtOk
  <2>18. FitsOk'
    <3>1. arena'.nodes[at'].type = arena.nodes[at].type
      BY <2>0, <2>10, <2>16
    <3> QED
      BY <1>0, <2>0, <3>1 DEF IInv, FitsOk, AtEnd, Seg
  <2>19. FramesOk'
    <3>1. ASSUME NEW k \in DOMAIN frames'
          PROVE  /\ arena'.nodes[frames'[k].id].type = frames'[k].value.type
                 /\ frames'[k].next \in 1 .. Len(frames'[k].value.kids) + 1
                 /\ k > 1 => frames'[k].next <= Len(frames'[k].value.kids)
      <4>1. k \in 1 .. n - 1 /\ k + 1 \in DOMAIN frames /\ frames'[k].id = frames[k + 1].id
            /\ frames'[k].value = frames[k + 1].value /\ k + 1 > 1
        BY <1>1, <2>6, <2>8
      <4>2. /\ arena.nodes[frames[k + 1].id].type = frames[k + 1].value.type
            /\ frames[k + 1].next \in 1 .. Len(frames[k + 1].value.kids) + 1
            /\ frames[k + 1].next <= Len(frames[k + 1].value.kids)
        BY <4>1 DEF IInv, FramesOk
      <4>3. arena'.nodes[frames'[k].id].type = frames'[k].value.type
        BY <1>1, <2>10, <4>1, <4>2
      <4>4. CASE k = 1
        <5>1. frames'[k].next = f.next + 1 /\ frames'[k].value = f.value
          BY <2>5, <2>6, <4>4
        <5>2. Len(f.value.kids) \in Nat
          BY <2>3, ValueFacts
        <5>3. f.next + 1 \in 1 .. Len(f.value.kids) + 1
          BY <2>4, <5>2
        <5> QED
          BY <4>3, <4>4, <5>1, <5>3
      <4>5. CASE k # 1
        <5>1. frames'[k] = frames[k + 1]
          BY <2>6, <4>1, <4>5
        <5> QED
          BY <4>2, <4>3, <5>1
      <4> QED
        BY <4>4, <4>5
    <3>2. frames'[Len(frames')].value = call'.value
      <4>1. n - 1 \in 1 .. n - 1 /\ (n - 1) + 1 = n
        BY <1>0, <1>1 DEF n
      <4>2. frames'[n - 1].value = frames[n].value
        BY <2>8, <4>1
      <4>3. frames # <<>>
        BY <2>1
      <4>4. frames[n].value = call.value
        BY <2>7, <4>3 DEF IInv, FramesOk
      <4> QED
        BY <2>0, <2>6, <4>2, <4>4
    <3> QED
      BY <3>1, <3>2 DEF FramesOk
  <2>20. HandlesOk'
    BY <2>0, <2>10, HandlesKeep DEF IInv
  <2>21. ReplacedOk'
    BY <1>0, <2>0 DEF ReplacedOk
  <2> QED
    BY <2>13, <2>14, <2>15, <2>17, <2>18, <2>19, <2>20, <2>21 DEF IInv
<1> QED
  BY <1>2, <1>3 DEF LinkChild

-------------------------------------------------------------------------------
(* Steps of applyWrite that create.                                        *)

\* What hangs on the model's root hangs on no other.
LEMMA ModelIsApart ==
  ASSUME NEW a, NEW O, Sound(a, O), Root \in O, NEW c \in O, c # Root, NEW p, Under(a, O, p, {Root})
  PROVE  p # c /\ Under(a, O, p, O \ {c})
<1>1. Under(a, O, p, O \ {c})
  BY DEF Under
<1>2. UpClosed(a, O, {c})
  BY DEF UpClosed, Sound, Trees
<1>3. ~Under(a, O, c, {Root})
  BY <1>2 DEF Under
<1> QED
  BY <1>1, <1>3

LEMMA BuiltFacts ==
  ASSUME IInv, Built
  PROVE  /\ pc = "build" /\ Sound(arena, Owners) /\ chain = None /\ todo = <<>>
         /\ Owned = {frames[1].id} /\ frames[1].id \in Live(arena) /\ frames[1].id \in Nat
         /\ frames[1].id # None /\ frames[1].id # Root
         /\ arena.nodes[frames[1].id].type = call.value.type
         /\ call.path \in Seq(AllSegments) /\ Len(call.path) \in Nat
         /\ index \in Nat /\ index >= 1
         /\ at \in Live(arena) /\ Under(arena, Owners, at, {Root})
<1>1. pc = "build" /\ Len(frames) = 1
  BY DEF Built
<1>2. /\ Sound(arena, Owners) /\ arena \in Arenas
      /\ chain = None /\ todo = <<>> /\ frames \in Seq(Frames)
      /\ DOMAIN frames = 1 .. 1
      /\ \A k \in DOMAIN frames :
           /\ frames[k].id \in Owned /\ frames[k].id \in Live(arena)
           /\ frames[k].id \in Nat /\ frames[k].value \in ConfigValues
      /\ Owned = {frames[k].id : k \in DOMAIN frames}
  BY <1>1, FrameFacts
<1>3. 1 \in DOMAIN frames /\ frames # <<>>
  <2>1. 1 \in DOMAIN frames
    BY <1>2
  <2>2. frames # <<>>
    BY <2>1
  <2> QED
    BY <2>1, <2>2
<1>4. Owned = {frames[1].id}
  BY <1>2
<1>5. frames[1].id # None /\ frames[1].id # Root
  BY <1>2, <1>3, ArenaFacts DEF IInv, OwnersOk
<1>6. arena.nodes[frames[1].id].type = call.value.type
  BY <1>1, <1>3 DEF IInv, FramesOk
<1>7. call.path \in Seq(AllSegments) /\ Len(call.path) \in Nat
  BY <1>1, LenProperties DEF IInv, TypesOk
<1>8. index \in Nat /\ index >= 1 /\ at \in Live(arena) /\ Under(arena, Owners, at, {Root})
  BY <1>1 DEF IInv, TypesOk, AtOk
<1> QED
  BY <1>1, <1>2, <1>3, <1>4, <1>5, <1>6, <1>7, <1>8

LEMMA BeginChainKeeps ==
  ASSUME IInv, BeginChain
  PROVE  IInv'
<1> DEFINE c == frames[1].id
<1>1. /\ Built /\ ~AtEnd
      /\ pc' = "chain" /\ frames' = <<>> /\ chain' = c /\ level' = Len(call.path)
      /\ arena' = arena /\ aside' = aside /\ call' = call /\ at' = at /\ index' = index
      /\ todo' = todo /\ handle' = handle
  BY DEF BeginChain
<1>2. /\ pc = "build" /\ Sound(arena, Owners) /\ chain = None /\ todo = <<>>
      /\ Owned = {c} /\ c \in Live(arena) /\ c \in Nat /\ c # None /\ c # Root
      /\ call.path \in Seq(AllSegments) /\ Len(call.path) \in Nat
      /\ index \in Nat /\ index >= 1
      /\ at \in Live(arena) /\ Under(arena, Owners, at, {Root})
  BY <1>1, BuiltFacts
<1>3. aside = NoArena
  BY <1>1, <1>2 DEF IInv, PhaseOk
<1> HIDE DEF c
<1>4. Owned' = Owned /\ Owners' = Owners /\ Pending' = {}
  <2>1. Owned' = {c} /\ Pending' = {}
    BY <1>1, <1>2 DEF Owned, Pending
  <2> QED
    BY <1>2, <2>1 DEF Owners
<1>5. TypesOk'
  BY <1>1, <1>2, EmptySeq DEF IInv, TypesOk, Pcs
<1>6. PhaseOk'
  BY <1>1, <1>2, <1>3 DEF PhaseOk
<1>7. OwnersOk'
  BY <1>1, <1>2, <1>3, <1>4 DEF IInv, OwnersOk
<1>8. AtOk'
  BY <1>1, <1>2, <1>4 DEF AtOk, AtEnd
<1>9. FitsOk'
  BY <1>1, <1>2 DEF IInv, FitsOk, Seg
<1>10. FramesOk' /\ ReplacedOk'
  BY <1>1 DEF FramesOk, ReplacedOk
<1>11. HandlesOk'
  BY <1>1 DEF IInv, HandlesOk, Model
<1> QED
  BY <1>5, <1>6, <1>7, <1>8, <1>9, <1>10, <1>11 DEF IInv

LEMMA ChainFacts ==
  ASSUME IInv, pc = "chain"
  PROVE  /\ Sound(arena, Owners) /\ arena \in Arenas /\ frames = <<>> /\ todo = <<>> /\ aside = NoArena
         /\ Owned = {chain} /\ chain \in Live(arena) /\ chain \in Nat /\ chain # None /\ chain # Root
         /\ chain \in Owners /\ Root \in Owners /\ Owners \ {chain} = {Root}
         /\ call.path \in Seq(AllSegments) /\ Len(call.path) \in Nat
         /\ index \in 1 .. Len(call.path) /\ level \in index .. Len(call.path)
         /\ at \in Live(arena) /\ Under(arena, Owners, at, {Root})
         /\ arena.nodes[at].type = Container(Seg)
<1>1. frames = <<>> /\ todo = <<>> /\ aside = NoArena /\ chain # None /\ chain \in Nat
  BY DEF IInv, PhaseOk, TypesOk
<1>2. Owned = {chain}
  BY <1>1 DEF Owned
<1>3. Sound(arena, Owners) /\ arena \in Arenas /\ chain # Root
  BY <1>2 DEF IInv, OwnersOk, Sound
<1>4. chain \in Owners /\ Root \in Owners /\ Owners \ {chain} = {Root}
  BY <1>2, <1>3 DEF Owners
<1>5. chain \in Live(arena)
  BY <1>3, <1>4 DEF Sound, Trees
<1>6. call.path \in Seq(AllSegments) /\ Len(call.path) \in Nat
  BY LenProperties DEF IInv, TypesOk
<1>7. /\ index \in 1 .. Len(call.path) /\ level \in index .. Len(call.path)
      /\ at \in Live(arena) /\ Under(arena, Owners, at, {Root})
      /\ arena.nodes[at].type = Container(Seg)
  BY DEF IInv, AtOk, FitsOk
<1> QED
  BY <1>1, <1>2, <1>3, <1>4, <1>5, <1>6, <1>7

LEMMA ContainerFacts ==
  ASSUME NEW seg \in AllSegments
  PROVE  Container(seg) \in Containers /\ Container(seg) \in NodeTypes /\ SegKey(seg) \in Keys
<1>1. Container(seg) \in Containers /\ Container(seg) \in NodeTypes
  BY DEF Container, Containers, NodeTypes
<1>2. SegKey(seg) \in Keys
  <2>1. CASE seg.kind = "key"
    <3>1. seg.key \in Keys
      BY <2>1 DEF AllSegments
    <3> QED
      BY <2>1, <3>1 DEF SegKey
  <2>2. CASE seg.kind # "key"
    BY <2>2, ModelAssumption DEF SegKey
  <2> QED
    BY <2>1, <2>2
<1> QED
  BY <1>1, <1>2

LEMMA ChainStepKeeps ==
  ASSUME IInv, ChainStep
  PROVE  IInv'
<1> DEFINE id == Slot(arena)
           seg == call.path[level]
           type == Container(seg)
           key == SegKey(seg)
           new == Allocate(arena, type)
<1>0. pc = "chain" /\ level > index
  BY DEF ChainStep
<1>1. /\ Sound(arena, Owners) /\ arena \in Arenas /\ frames = <<>> /\ todo = <<>> /\ aside = NoArena
      /\ Owned = {chain} /\ chain \in Live(arena) /\ chain \in Nat /\ chain # None /\ chain # Root
      /\ chain \in Owners /\ Root \in Owners /\ Owners \ {chain} = {Root}
      /\ call.path \in Seq(AllSegments) /\ Len(call.path) \in Nat
      /\ index \in 1 .. Len(call.path) /\ level \in index .. Len(call.path)
      /\ at \in Live(arena) /\ Under(arena, Owners, at, {Root})
      /\ arena.nodes[at].type = Container(Seg)
  BY <1>0, ChainFacts
<1>2. type \in Containers /\ type \in NodeTypes /\ key \in Keys
  <2>1. level \in 1 .. Len(call.path)
    BY <1>1
  <2>2. seg \in AllSegments
    BY <1>1, <2>1, SegFacts
  <2> QED
    BY <2>2, ContainerFacts
<1> HIDE DEF type, key
<1>3. Grown(arena, new, Owners, id) /\ new.nodes[id].type = type
  BY <1>1, <1>2, GrownAllocate
<1> HIDE DEF new, id
<1>4. CASE arena.free = None /\ Throw(Guards) /\ UNCHANGED arena
  <2>1. arena' = arena /\ SameLives(arena, arena')
    BY <1>4 DEF SameLives
  <2> QED
    BY <1>0, <1>1, <1>4, <2>1, ThrowGuards
<1>5. CASE arena' = WithParent(new, chain, id) /\ Throw(<<id>> \o Guards)
  <2>1. Grown(arena, arena', Owners, id)
    <3>1. id \in Nat
      BY <1>3 DEF Grown
    <3> QED
      BY <1>1, <1>3, <1>5, <3>1, GrownParent
  <2>2. /\ id \in Nat /\ id # None /\ id \notin Live(arena)
        /\ Sound(arena', Owners \cup {id}) /\ SameLives(arena, arena')
    BY <2>1 DEF Grown
  <2> QED
    BY <1>0, <1>5, <2>2, ThrowMore
<1>6. CASE /\ arena' = Link(new, id, key, chain)
           /\ chain' = id /\ level' = level - 1
           /\ UNCHANGED <<aside, pc, call, at, index, frames, todo, replaced, result, handle>>
  <2>0. /\ aside' = aside /\ pc' = pc /\ call' = call /\ at' = at /\ index' = index
        /\ frames' = frames /\ todo' = todo /\ handle' = handle /\ chain' = id
    BY <1>6
  <2> DEFINE Q == Owners \cup {id}
  <2>1. /\ Sound(new, Q) /\ id \in Nat /\ id # None /\ id \notin Live(arena)
        /\ Live(new) = Live(arena) \cup {id} /\ SameLives(arena, new)
        /\ \A i \in Live(arena) : new.nodes[i].type = arena.nodes[i].type
        /\ \A i \in Live(arena) : \A R : Under(arena, Owners, i, R) => Under(new, Q, i, R)
    BY <1>3 DEF Grown
  <2>2. chain \in Q /\ id # chain /\ id \in Q \ {chain} /\ id # Root /\ Q \ {chain} = {Root} \cup {id}
    <3>1. Root \in Live(arena)
      BY <1>1 DEF Sound, Trees
    <3>2. id # Root /\ id # chain
      BY <1>1, <2>1, <3>1
    <3>3. Q \ {chain} = (Owners \ {chain}) \cup {id}
      BY <3>2
    <3> QED
      BY <1>1, <3>2, <3>3
  <2> HIDE DEF Q
  <2>3. Under(new, Q, id, Q \ {chain})
    BY <2>2 DEF Under
  <2>4. LinkUnder(new, arena', Q, chain)
    <3>1. id \in Live(new) /\ new.nodes[id].type \in Containers
      BY <1>2, <1>3, <2>1
    <3> QED
      BY <1>2, <1>6, <2>1, <2>2, <2>3, <3>1, SoundLink
  <2>5. Owned' = {id} /\ Owners' = Q \ {chain} /\ Pending' = {}
    <3>1. Owned' = {id} /\ Pending' = {}
      BY <1>1, <2>0, <2>1 DEF Owned, Pending
    <3> QED
      BY <2>2, <3>1 DEF Owners
  <2>6. /\ Sound(arena', Owners') /\ Live(arena') = Live(arena) \cup {id}
        /\ SameLives(arena, arena')
        /\ arena'.nodes[at].type = arena.nodes[at].type
        /\ Under(arena', Owners', at, {Root})
    <3>1. SameLives(arena, arena')
      BY <2>1, <2>4 DEF LinkUnder, SameLives
    <3>2. Under(arena', Owners', at, {Root})
      BY <1>1, <2>1, <2>4, <2>5 DEF LinkUnder
    <3> QED
      BY <1>1, <2>1, <2>4, <2>5, <3>1, <3>2 DEF LinkUnder
  <2>7. TypesOk'
    <3>1. level' \in Nat
      BY <1>0, <1>1, <1>6
    <3> QED
      BY <1>0, <2>0, <2>1, <3>1 DEF IInv, TypesOk
  <2>8. PhaseOk'
    BY <1>0, <1>1, <2>0, <2>1 DEF PhaseOk
  <2>9. OwnersOk'
    BY <1>1, <2>0, <2>2, <2>5, <2>6 DEF OwnersOk
  <2>10. AtOk'
    <3>1. level' \in index .. Len(call.path)
      BY <1>0, <1>1, <1>6
    <3> QED
      BY <1>0, <1>1, <2>0, <2>6, <3>1 DEF AtOk
  <2>11. FitsOk'
    BY <1>0, <1>1, <2>0, <2>6 DEF FitsOk, Seg
  <2>12. FramesOk' /\ ReplacedOk'
    BY <1>0, <1>1, <2>0 DEF FramesOk, ReplacedOk
  <2>13. HandlesOk'
    BY <2>0, <2>6, HandlesKeep DEF IInv
  <2> QED
    BY <2>7, <2>8, <2>9, <2>10, <2>11, <2>12, <2>13 DEF IInv
<1> QED
  BY <1>4, <1>5, <1>6 DEF ChainStep, id, new, type, key, WithParent

LEMMA JoinKeeps ==
  ASSUME IInv, Join
  PROVE  IInv'
<1> DEFINE key == SegKey(Seg)
<1>0. pc = "chain"
  BY DEF Join
<1>1. /\ Sound(arena, Owners) /\ arena \in Arenas /\ aside = NoArena
      /\ chain \in Live(arena) /\ chain \in Nat /\ chain # Root
      /\ chain \in Owners /\ Root \in Owners /\ Owners \ {chain} = {Root}
      /\ call.path \in Seq(AllSegments)
      /\ index \in 1 .. Len(call.path)
      /\ at \in Live(arena) /\ Under(arena, Owners, at, {Root})
      /\ arena.nodes[at].type = Container(Seg)
  BY <1>0, ChainFacts
<1>2. CASE arena' = WithParent(arena, chain, at) /\ Throw(Guards)
  <2> DEFINE n == [arena.nodes[chain] EXCEPT !.parent = at]
  <2>1. chain \in DOMAIN arena.nodes /\ at \in Nat
    BY <1>1, ArenaFacts
  <2>2. arena.nodes[chain] \in Nodes
    BY <1>1, <2>1, ArenaFacts
  <2>3. /\ n \in Nodes /\ n.kids = arena.nodes[chain].kids /\ n.alive = arena.nodes[chain].alive
        /\ n.type = arena.nodes[chain].type /\ n.gen = arena.nodes[chain].gen
        /\ n.life = arena.nodes[chain].life
    BY <2>1, <2>2 DEF Nodes
  <2>4. arena' = WithNode(arena, chain, n)
    BY <1>2 DEF WithParent, WithNode
  <2> HIDE DEF n
  <2>5. Sound(arena', Owners) /\ SameLives(arena, arena')
    BY <1>1, <2>3, <2>4, SoundFields
  <2> QED
    BY <1>0, <1>2, <2>5, ThrowGuards
<1>3. CASE arena' = Link(arena, at, key, chain) /\ Return /\ UNCHANGED <<aside, handle>>
  <2>1. at # chain /\ Under(arena, Owners, at, Owners \ {chain})
    BY <1>1, ModelIsApart
  <2>2. key \in Keys /\ Container(Seg) \in Containers
    <3>1. Seg \in AllSegments
      BY <1>1, SegFacts DEF Seg
    <3> QED
      BY <3>1, ContainerFacts
  <2>3. arena' = Link(arena, at, key, chain) /\ arena.nodes[at].type \in Containers
    BY <1>1, <1>3, <2>2
  <2> HIDE DEF key
  <2>4. LinkUnder(arena, arena', Owners, chain)
    BY <1>1, <2>1, <2>2, <2>3, SoundLink
  <2>5. Sound(arena', {Root}) /\ SameLives(arena, arena')
    BY <1>1, <2>4 DEF LinkUnder
  <2>6. handle' # NoHandle => HandleOk(arena', handle')
    BY <1>1, <1>3, <2>5, HandleSame DEF IInv, HandlesOk, Model
  <2> QED
    BY <1>1, <1>3, <2>5, <2>6, ReturnKeeps
<1> QED
  BY <1>2, <1>3 DEF Join, WithParent

-------------------------------------------------------------------------------
(* Steps of assignContents and freeSubtree.                                *)

LEMMA KidIdsFacts ==
  ASSUME NEW a \in Arenas, NEW i \in DOMAIN a.nodes, NEW s, s = KidIds(a.nodes[i])
  PROVE  /\ s \in Seq(Nat) /\ Elements(s) = Below(a, i)
         /\ Distinct(a.nodes[i].kids) => Injective(s)
<1> DEFINE kids == a.nodes[i].kids
           n == Len(kids)
<1>1. kids \in Seq(Links)
  BY NodeKids
<1>2. n \in Nat /\ DOMAIN kids = 1 .. n
  BY <1>1, LenProperties
<1>3. \A k \in 1 .. n : kids[k].id \in Nat
  <2>1. \A k \in 1 .. n : kids[k] \in Links
    BY <1>1, ElementOfSeq
  <2> QED
    BY <2>1 DEF Links
<1>4. s = [k \in 1 .. n |-> kids[k].id]
  BY <1>2 DEF KidIds
<1> HIDE DEF n
<1>5. s \in [1 .. n -> Nat]
  BY <1>3, <1>4
<1>6. s \in Seq(Nat)
  BY <1>2, <1>5, SeqDef
<1>7. DOMAIN s = DOMAIN kids /\ \A k \in DOMAIN s : s[k] = kids[k].id
  BY <1>2, <1>4
<1>8. Elements(s) = Below(a, i)
  BY <1>7 DEF Elements, Below, Kids
<1> QED
  BY <1>6, <1>7, <1>8 DEF Injective, Distinct

LEMMA ConcatFacts ==
  ASSUME NEW S, NEW s \in Seq(S), NEW t \in Seq(S)
  PROVE  /\ s \o t \in Seq(S)
         /\ Elements(s \o t) = Elements(s) \cup Elements(t)
         /\ Injective(s) /\ Injective(t) /\ Elements(s) \cap Elements(t) = {} => Injective(s \o t)
<1> DEFINE u == s \o t
           m == Len(s)
           n == Len(t)
<1>1. /\ u \in Seq(S) /\ Len(u) = m + n
      /\ \A i \in 1 .. m + n : u[i] = IF i <= m THEN s[i] ELSE t[i - m]
  BY ConcatProperties
<1>2. m \in Nat /\ n \in Nat /\ DOMAIN s = 1 .. m /\ DOMAIN t = 1 .. n /\ DOMAIN u = 1 .. m + n
  BY <1>1, LenProperties
<1> HIDE DEF u, m, n
<1>3. \A i \in 1 .. m : u[i] = s[i] /\ i \in 1 .. m + n
  BY <1>1, <1>2
<1>4. \A i \in 1 .. n : u[m + i] = t[i] /\ m + i \in 1 .. m + n
  BY <1>1, <1>2
<1>5. \A i \in 1 .. m + n : i \in 1 .. m \/ (i - m \in 1 .. n /\ u[i] = t[i - m])
  BY <1>1, <1>2
<1>6. Elements(u) = Elements(s) \cup Elements(t)
  <2>1. Elements(u) \subseteq Elements(s) \cup Elements(t)
    BY <1>2, <1>3, <1>5 DEF Elements
  <2>2. Elements(s) \subseteq Elements(u)
    BY <1>2, <1>3 DEF Elements
  <2>3. Elements(t) \subseteq Elements(u)
    <3> SUFFICES ASSUME NEW i \in 1 .. n PROVE t[i] \in Elements(u)
      BY <1>2 DEF Elements
    <3> QED
      BY <1>2, <1>4 DEF Elements
  <2> QED
    BY <2>1, <2>2, <2>3
<1>7. ASSUME Injective(s), Injective(t), Elements(s) \cap Elements(t) = {}
      PROVE  Injective(u)
  <2> SUFFICES ASSUME NEW k \in 1 .. m + n, NEW l \in 1 .. m + n, u[k] = u[l] PROVE k = l
    BY <1>2 DEF Injective
  <2>1. \A i \in 1 .. m : \A j \in 1 .. n : s[i] # t[j]
    BY <1>2, <1>7 DEF Elements
  <2>2. CASE k \in 1 .. m /\ l \in 1 .. m
    BY <1>2, <1>3, <1>7, <2>2 DEF Injective
  <2>3. CASE k \notin 1 .. m /\ l \notin 1 .. m
    <3>1. k - m \in 1 .. n /\ l - m \in 1 .. n /\ t[k - m] = t[l - m]
      BY <1>5, <2>3
    <3>2. k - m = l - m
      BY <1>2, <1>7, <3>1 DEF Injective
    <3> QED
      BY <1>2, <3>2
  <2>4. CASE k \in 1 .. m /\ l \notin 1 .. m
    BY <1>3, <1>5, <2>1, <2>4
  <2>5. CASE k \notin 1 .. m /\ l \in 1 .. m
    BY <1>3, <1>5, <2>1, <2>5
  <2> QED
    BY <2>2, <2>3, <2>4, <2>5
<1> QED
  BY <1>1, <1>6, <1>7 DEF u

LEMMA TailFacts ==
  ASSUME NEW S, NEW s \in Seq(S), s # <<>>
  PROVE  /\ Tail(s) \in Seq(S) /\ Head(s) \in Elements(s)
         /\ Injective(s) => Elements(Tail(s)) = Elements(s) \ {Head(s)} /\ Injective(Tail(s))
<1> DEFINE t == Tail(s)
           n == Len(s)
<1>1. /\ Head(s) = s[1] /\ t \in Seq(S) /\ Len(t) = n - 1
      /\ \A i \in 1 .. Len(t) : t[i] = s[i + 1]
  BY HeadTailProperties
<1>2. n \in Nat \ {0} /\ DOMAIN s = 1 .. n /\ DOMAIN t = 1 .. n - 1
  BY <1>1, LenProperties, EmptySeq
<1>3. \A i \in 1 .. n - 1 : t[i] = s[i + 1] /\ i + 1 \in 1 .. n /\ i + 1 # 1
  BY <1>1, <1>2
<1> HIDE DEF t, n
<1>4. 1 \in 1 .. n /\ Head(s) \in Elements(s)
  <2>1. 1 \in 1 .. n
    BY <1>2
  <2> QED
    BY <1>1, <1>2, <2>1 DEF Elements
<1>5. ASSUME Injective(s)
      PROVE  Elements(t) = Elements(s) \ {Head(s)} /\ Injective(t)
  <2>1. \A k, l \in 1 .. n : s[k] = s[l] => k = l
    BY <1>2, <1>5 DEF Injective
  <2>2. Elements(t) \subseteq Elements(s) \ {Head(s)}
    <3> SUFFICES ASSUME NEW i \in 1 .. n - 1 PROVE t[i] \in Elements(s) \ {Head(s)}
      BY <1>2 DEF Elements
    <3>1. s[i + 1] # s[1]
      BY <1>3, <1>4, <2>1
    <3> QED
      BY <1>1, <1>2, <1>3, <3>1 DEF Elements
  <2>3. Elements(s) \ {Head(s)} \subseteq Elements(t)
    <3> SUFFICES ASSUME NEW i \in 1 .. n, i # 1 PROVE s[i] \in Elements(t)
      BY <1>1, <1>2 DEF Elements
    <3>1. i - 1 \in 1 .. n - 1 /\ (i - 1) + 1 = i
      BY <1>2
    <3> QED
      BY <1>2, <1>3, <3>1 DEF Elements
  <2>4. ASSUME NEW k \in 1 .. n - 1, NEW l \in 1 .. n - 1, t[k] = t[l] PROVE k = l
    <3>1. k + 1 = l + 1
      BY <1>3, <2>1, <2>4
    <3> QED
      BY <1>2, <3>1
  <2> QED
    BY <1>2, <2>2, <2>3, <2>4 DEF Injective
<1> QED
  BY <1>1, <1>4, <1>5 DEF t

\* What was reachable from the kids of h hangs on them when they are roots.
LEMMA DetachedUnder ==
  ASSUME NEW a, NEW b, NEW Q, NEW h, NEW C, Trees(b, Q), Live(b) = Live(a),
         C = Below(a, h), C \subseteq Live(a),
         \A j \in Live(a) \ {h} : Below(b, j) = Below(a, j)
  PROVE  \A i \in Reach(a, C) : Under(b, Q, i, C)
<1> DEFINE S == {i \in Live(a) : Under(b, Q, i, C)}
<1>1. S \in SUBSET DOMAIN a.nodes
  BY DEF Live
<1>2. C \subseteq S
  BY DEF Under
<1>3. ASSUME NEW j \in S PROVE Kids(a.nodes[j]) \subseteq S
  <2>1. CASE j = h
    BY <1>2, <2>1 DEF Below
  <2>2. CASE j # h
    <3> SUFFICES ASSUME NEW k \in Below(a, j) PROVE k \in S
      BY DEF Below
    <3>1. k \in Live(b) \ Q /\ Parent(b, k) = j
      BY <2>2 DEF Trees
    <3>2. Under(b, Q, k, C)
      BY <3>1 DEF Under, UpClosed
    <3> QED
      BY <3>1, <3>2
  <2> QED
    BY <2>1, <2>2
<1> QED
  BY <1>1, <1>2, <1>3 DEF Reach

LEMMA AssignKeeps ==
  ASSUME IInv, Assign
  PROVE  IInv'
<1> DEFINE c == frames[1].id
           C == Below(arena, at)
<1>1. /\ Built /\ AtEnd
      /\ pc' = "clear" /\ frames' = <<>> /\ chain' = c
      /\ arena' = WithKids(arena, at, <<>>)
      /\ todo' = KidIds(arena.nodes[at])
      /\ replaced' = [node |-> at, below |-> Reach(arena, C),
                      valid |-> aside = NoArena /\ handle # NoHandle /\ Valid(handle)]
      /\ aside' = aside /\ call' = call /\ at' = at /\ index' = index /\ level' = level
      /\ handle' = handle
  BY DEF Assign, WithKids, Below
<1>2. /\ pc = "build" /\ Sound(arena, Owners) /\ chain = None /\ todo = <<>>
      /\ Owned = {c} /\ c \in Live(arena) /\ c \in Nat /\ c # None /\ c # Root
      /\ arena.nodes[c].type = call.value.type
      /\ at \in Live(arena) /\ Under(arena, Owners, at, {Root})
  BY <1>1, BuiltFacts
<1> HIDE DEF c
<1>3. /\ Sound(arena', Owners \cup C) /\ Live(arena') = Live(arena) /\ SameLives(arena, arena')
      /\ arena'.nodes[at].kids = <<>>
      /\ \A j \in Live(arena) \ {at} : arena'.nodes[j] = arena.nodes[j]
      /\ \A j \in Live(arena) : arena'.nodes[j].type = arena.nodes[j].type
      /\ CutUnder(arena, arena', Owners, at, C)
  <2>1. Detached(arena, arena', Owners, at)
    BY <1>1, <1>2, SoundDetach
  <2> QED
    BY <2>1 DEF Detached
<1>4. arena \in Arenas /\ at \in DOMAIN arena.nodes /\ Distinct(arena.nodes[at].kids)
  BY <1>2, ArenaFacts DEF Sound
<1>5. todo' \in Seq(Nat) /\ Elements(todo') = C /\ Injective(todo')
  BY <1>1, <1>4, KidIdsFacts
<1>6. C \subseteq Live(arena) /\ C \cap Owners = {}
  BY <1>2, <1>3 DEF Sound, Trees, CutUnder
<1>7. Pending' = C /\ Owned' = {c} \cup C /\ Owners' = Owners \cup C
  <2>1. Pending' = C
    BY <1>5 DEF Pending, Elements
  <2>2. Owned' = {c} \cup Pending'
    BY <1>1, <1>2 DEF Owned, Pending
  <2> QED
    BY <1>2, <2>1, <2>2 DEF Owners
<1>8. c \in Owners /\ Root \in Owners
  BY <1>2 DEF Owners
<1>9. TypesOk'
  BY <1>1, <1>2, <1>5, EmptySeq DEF IInv, TypesOk, Pcs
<1>10. PhaseOk'
  BY <1>1, <1>2 DEF PhaseOk
<1>11. OwnersOk'
  <2>1. Sound(arena', Owners') /\ Root \notin Owned' /\ chain' \notin Pending'
    BY <1>1, <1>2, <1>3, <1>6, <1>7, <1>8
  <2>2. (aside # NoArena => Sound(aside, {Root}))'
    BY <1>1 DEF IInv, OwnersOk
  <2>3. \A k, l \in DOMAIN frames' : frames'[k].id = frames'[l].id => k = l
    BY <1>1
  <2> QED
    BY <1>5, <2>1, <2>2, <2>3 DEF OwnersOk, Injective
<1>12. Under(arena', Owners', at, {Root})
  BY <1>2, <1>3, <1>7 DEF CutUnder
<1>13. AtOk'
  BY <1>1, <1>2, <1>3, <1>12 DEF AtOk
<1>14. FitsOk'
  <2>1. arena.nodes[at].type = call.value.type
    BY <1>1, <1>2 DEF IInv, FitsOk
  <2>2. arena'.nodes[at].type = arena'.nodes[c].type
    BY <1>2, <1>3, <2>1
  <2> QED
    BY <1>1, <1>3, <2>2 DEF FitsOk
<1>15. FramesOk'
  BY <1>1 DEF FramesOk
<1>16. HandlesOk'
  BY <1>1, <1>3, HandlesKeep DEF IInv
<1>17. ReplacedOk'
  <2>1. \A i \in Reach(arena, C) : Under(arena', Owners', i, Pending')
    <3>1. Trees(arena', Owners \cup C)
      BY <1>3 DEF Sound
    <3>2. \A j \in Live(arena) \ {at} : Below(arena', j) = Below(arena, j)
      BY <1>3 DEF Below
    <3>3. \A i \in Reach(arena, C) : Under(arena', Owners \cup C, i, C)
      BY <1>3, <1>6, <3>1, <3>2, DetachedUnder
    <3> QED
      BY <1>7, <3>3
  <2>2. ASSUME aside = NoArena, handle # NoHandle, Valid(handle), handle.id = at
        PROVE  Valid(handle)'
    <3>1. at \in Live(arena') /\ arena'.nodes[at].gen = arena.nodes[at].gen
      BY <1>2, <1>3, <1>4 DEF SameLives
    <3>2. arena.nodes[at].gen = handle.gen
      BY <2>2 DEF Valid, Matches, Model
    <3> QED
      BY <1>1, <2>2, <3>1, <3>2 DEF Valid, Matches, Model, Live
  <2>3. replaced'.node = at /\ replaced'.below = Reach(arena, C)
        /\ replaced'.valid = (aside = NoArena /\ handle # NoHandle /\ Valid(handle))
    BY <1>1
  <2> QED
    BY <1>1, <2>1, <2>2, <2>3 DEF ReplacedOk
<1> QED
  BY <1>9, <1>10, <1>11, <1>13, <1>14, <1>15, <1>16, <1>17 DEF IInv

\* What a step of freeSubtree has to establish.
LEMMA FreeingKeeps ==
  ASSUME IInv, pc \in {"clear", "free"},
         UNCHANGED <<aside, pc, call, at, index, frames, chain, level, replaced, result, handle>>,
         todo' \in Seq(Nat), Injective(todo'), Root \notin Owned', chain \notin Pending',
         Sound(arena', Owners'), HandlesOk',
         pc = "clear" =>
           /\ at \in Live(arena') /\ Under(arena', Owners', at, {Root})
           /\ arena'.nodes[at].type = arena.nodes[at].type
           /\ arena'.nodes[at].kids = arena.nodes[at].kids
           /\ arena'.nodes[at].gen = arena.nodes[at].gen
           /\ arena'.nodes[chain].type = arena.nodes[chain].type
           /\ \A i \in replaced.below \cap Live(arena') : Under(arena', Owners', i, Pending')
  PROVE  IInv'
<1>0. /\ aside' = aside /\ pc' = pc /\ call' = call /\ at' = at /\ index' = index
      /\ frames' = frames /\ chain' = chain /\ level' = level /\ replaced' = replaced
      /\ handle' = handle
  OBVIOUS
<1>1. frames = <<>>
  BY DEF IInv, PhaseOk
<1>2. TypesOk'
  BY <1>0 DEF IInv, TypesOk
<1>3. PhaseOk'
  BY <1>0 DEF IInv, PhaseOk
<1>4. OwnersOk'
  <2>1. (aside # NoArena => Sound(aside, {Root}))'
    BY <1>0 DEF IInv, OwnersOk
  <2>2. \A k, l \in DOMAIN frames' : frames'[k].id = frames'[l].id => k = l
    BY <1>0, <1>1
  <2> QED
    BY <1>0, <2>1, <2>2 DEF OwnersOk, Injective
<1>5. AtOk'
  BY <1>0 DEF AtOk
<1>6. FitsOk'
  BY <1>0 DEF IInv, FitsOk
<1>7. FramesOk'
  BY <1>0, <1>1 DEF FramesOk
<1>8. ReplacedOk'
  <2> SUFFICES ASSUME pc = "clear" PROVE ReplacedOk'
    BY <1>0 DEF ReplacedOk
  <2>1. ASSUME aside = NoArena, Valid(handle), handle.id = at PROVE Valid(handle)'
    BY <1>0, <2>1 DEF Valid, Matches, Model, Live
  <2> QED
    BY <1>0, <2>1 DEF IInv, ReplacedOk
<1> QED
  BY <1>2, <1>3, <1>4, <1>5, <1>6, <1>7, <1>8 DEF IInv

LEMMA FreeStepKeeps ==
  ASSUME IInv, FreeStep
  PROVE  IInv'
<1> DEFINE h == Head(todo)
           C == Below(arena, h)
<1>1. /\ pc \in {"clear", "free"} /\ todo # <<>>
      /\ UNCHANGED <<aside, pc, call, at, index, frames, chain, level, replaced, result, handle>>
      /\ \/ /\ arena' = WithKids(arena, h, <<>>)
            /\ todo' = KidIds(arena.nodes[h]) \o todo
         \/ /\ arena.nodes[h].kids = <<>> /\ arena' = Release(arena, h) /\ todo' = Tail(todo)
  BY DEF FreeStep, WithKids
<1>2. aside' = aside /\ frames' = frames /\ chain' = chain /\ handle' = handle
  BY <1>1
<1>3. /\ Sound(arena, Owners) /\ arena \in Arenas /\ todo \in Seq(Nat) /\ Injective(todo)
      /\ frames = <<>> /\ Root \notin Owned /\ chain \notin Pending
  BY <1>1 DEF IInv, OwnersOk, Sound, TypesOk, PhaseOk, Injective
<1>4. /\ Tail(todo) \in Seq(Nat) /\ h \in Pending /\ Pending = Elements(todo)
      /\ Elements(Tail(todo)) = Pending \ {h} /\ Injective(Tail(todo))
  BY <1>1, <1>3, TailFacts DEF Pending, Elements
<1>5. Owned = ({chain} \ {None}) \cup Pending /\ Owned' = ({chain} \ {None}) \cup Pending'
  BY <1>2, <1>3 DEF Owned, Pending
<1>6. h \in Owned /\ h \in Owners /\ h # Root /\ h # chain /\ Root \in Owners /\ Owned \subseteq Owners
  BY <1>3, <1>4, <1>5 DEF Owners
<1> HIDE DEF h
<1>7. h \in Live(arena) /\ h \in DOMAIN arena.nodes /\ h # None /\ Owners \subseteq Live(arena)
  BY <1>3, <1>6, ArenaFacts DEF Sound, Trees
<1>8. /\ pc = "clear" => /\ at \in Live(arena) /\ Under(arena, Owners, at, {Root}) /\ at # h
                         /\ chain \in Live(arena)
                         /\ \A i \in replaced.below \cap Live(arena) : Under(arena, Owners, i, Pending)
  <2> SUFFICES ASSUME pc = "clear"
               PROVE  /\ at \in Live(arena) /\ Under(arena, Owners, at, {Root}) /\ at # h
                      /\ chain \in Live(arena)
                      /\ \A i \in replaced.below \cap Live(arena) : Under(arena, Owners, i, Pending)
    OBVIOUS
  <2>1. at \in Live(arena) /\ Under(arena, Owners, at, {Root})
    BY DEF IInv, AtOk
  <2>2. at # h
    BY <1>3, <1>6, <2>1, ModelIsApart
  <2>3. chain \in Owned
    BY <1>5 DEF IInv, PhaseOk
  <2>4. \A i \in replaced.below \cap Live(arena) : Under(arena, Owners, i, Pending)
    BY DEF IInv, ReplacedOk
  <2> QED
    BY <1>6, <1>7, <2>1, <2>2, <2>3, <2>4
<1>9. CASE arena' = WithKids(arena, h, <<>>) /\ todo' = KidIds(arena.nodes[h]) \o todo
  <2>1. Detached(arena, arena', Owners, h)
    BY <1>3, <1>7, <1>9, SoundDetach
  <2>2. /\ Sound(arena', Owners \cup C) /\ Live(arena') = Live(arena) /\ SameLives(arena, arena')
        /\ \A j \in Live(arena) \ {h} : arena'.nodes[j] = arena.nodes[j]
        /\ \A j \in Live(arena) : arena'.nodes[j].type = arena.nodes[j].type
        /\ CutUnder(arena, arena', Owners, h, C)
    BY <2>1 DEF Detached
  <2>3. C \subseteq Live(arena) /\ C \cap Owners = {}
    BY <1>3, <1>7, <2>2 DEF Sound, Trees, CutUnder
  <2> DEFINE s == KidIds(arena.nodes[h])
  <2>4. s \in Seq(Nat) /\ Elements(s) = C /\ Injective(s)
    <3>1. Distinct(arena.nodes[h].kids)
      BY <1>3, <1>7 DEF Sound
    <3> QED
      BY <1>3, <1>7, <3>1, KidIdsFacts
  <2> HIDE DEF s, C
  <2>5. Elements(s) \cap Elements(todo) = {}
    BY <1>4, <1>5, <1>6, <2>3, <2>4
  <2>6. todo' \in Seq(Nat) /\ Elements(todo') = C \cup Pending /\ Injective(todo')
    <3>1. todo' = s \o todo
      BY <1>9 DEF s
    <3> QED
      BY <1>3, <1>4, <2>4, <2>5, <3>1, ConcatFacts
  <2>7. Pending' = C \cup Pending
    BY <2>6 DEF Pending, Elements
  <2>8. Owned' = Owned \cup C /\ Owners' = Owners \cup C
    BY <1>5, <2>7 DEF Owners
  <2>9. Root \notin Owned' /\ chain \notin Pending'
    <3>1. chain \notin C
      <4>1. CASE chain = None
        BY <1>3, <2>3, <4>1, ArenaFacts
      <4>2. CASE chain # None
        BY <1>5, <1>6, <2>3, <4>2
      <4> QED
        BY <4>1, <4>2
    <3> QED
      BY <1>3, <1>6, <2>3, <2>7, <2>8, <3>1
  <2>10. HandlesOk'
    BY <1>2, <2>2, HandlesKeep DEF IInv
  <2>11. ASSUME pc = "clear"
         PROVE  /\ at \in Live(arena') /\ Under(arena', Owners', at, {Root})
                /\ arena'.nodes[at].type = arena.nodes[at].type
                /\ arena'.nodes[at].kids = arena.nodes[at].kids
                /\ arena'.nodes[at].gen = arena.nodes[at].gen
                /\ arena'.nodes[chain].type = arena.nodes[chain].type
                /\ \A i \in replaced.below \cap Live(arena') : Under(arena', Owners', i, Pending')
    <3>1. Under(arena', Owners', at, {Root})
      BY <1>6, <1>8, <2>2, <2>8, <2>11 DEF CutUnder
    <3>2. \A i \in replaced.below \cap Live(arena') : Under(arena', Owners \cup C, i, Pending \cup C)
      BY <1>8, <2>2, <2>11 DEF CutUnder
    <3>3. \A i \in replaced.below \cap Live(arena') : Under(arena', Owners', i, Pending')
      <4>1. Pending' = Pending \cup C
        BY <2>7
      <4> QED
        BY <2>8, <3>2, <4>1
    <3> QED
      BY <1>8, <2>2, <2>11, <3>1, <3>3
  <2>12. Sound(arena', Owners')
    BY <2>2, <2>8
  <2> QED
    BY <1>1, <2>6, <2>9, <2>10, <2>11, <2>12, FreeingKeeps
<1>10. CASE arena.nodes[h].kids = <<>> /\ arena' = Release(arena, h) /\ todo' = Tail(todo)
  <2>1. /\ Sound(arena', Owners \ {h}) /\ Live(arena') = Live(arena) \ {h}
        /\ NextLife(arena, arena', h)
        /\ \A j \in Live(arena') : arena'.nodes[j] = arena.nodes[j]
        /\ \A i, R : Under(arena, Owners, i, R) => Under(arena', Owners \ {h}, i, R \ {h})
    <3>1. Released(arena, arena', Owners, h)
      BY <1>3, <1>6, <1>10, SoundRelease
    <3> QED
      BY <3>1 DEF Released
  <2>2. todo' \in Seq(Nat) /\ Injective(todo') /\ Elements(todo') = Pending \ {h}
    BY <1>4, <1>10
  <2>3. Pending' = Pending \ {h}
    BY <2>2 DEF Pending, Elements
  <2>4. Owned' = Owned \ {h}
    BY <1>5, <1>6, <2>3
  <2>5. Owners' = Owners \ {h}
    BY <1>6, <2>4 DEF Owners
  <2>6. Root \notin Owned' /\ chain \notin Pending'
    BY <1>3, <2>3, <2>4
  <2>7. HandlesOk'
    <3>1. CASE aside = NoArena
      BY <1>2, <1>3, <2>1, <3>1, HandleNext DEF IInv, HandlesOk, Model
    <3>2. CASE aside # NoArena
      BY <1>2, <3>2 DEF IInv, HandlesOk, Model
    <3> QED
      BY <3>1, <3>2
  <2>8. ASSUME pc = "clear"
        PROVE  /\ at \in Live(arena') /\ Under(arena', Owners', at, {Root})
               /\ arena'.nodes[at].type = arena.nodes[at].type
               /\ arena'.nodes[at].kids = arena.nodes[at].kids
               /\ arena'.nodes[at].gen = arena.nodes[at].gen
               /\ arena'.nodes[chain].type = arena.nodes[chain].type
               /\ \A i \in replaced.below \cap Live(arena') : Under(arena', Owners', i, Pending')
    <3>1. {Root} \ {h} = {Root}
      BY <1>6
    <3>2. Under(arena', Owners \ {h}, at, {Root} \ {h})
      BY <1>8, <2>1, <2>8
    <3>3. Under(arena', Owners', at, {Root})
      BY <2>5, <3>1, <3>2
    <3>4. \A i \in replaced.below \cap Live(arena') : Under(arena', Owners', i, Pending')
      BY <1>8, <2>1, <2>3, <2>5, <2>8
    <3>5. at \in Live(arena') /\ chain \in Live(arena')
      BY <1>6, <1>8, <2>1, <2>8
    <3> QED
      BY <2>1, <3>3, <3>4, <3>5
  <2>9. Sound(arena', Owners')
    BY <2>1, <2>5
  <2> QED
    BY <1>1, <2>2, <2>6, <2>7, <2>8, <2>9, FreeingKeeps
<1> QED
  BY <1>1, <1>9, <1>10

\* The contents go to the target.
LEMMA ClearedFacts ==
  ASSUME IInv, pc = "clear", todo = <<>>
  PROVE  /\ Sound(arena, Owners) /\ arena \in Arenas /\ Owners = {Root} \cup {chain}
         /\ chain \in Owners /\ Owners \ {chain} = {Root}
         /\ at \in Live(arena) /\ at # chain /\ Under(arena, Owners, at, Owners \ {chain})
         /\ arena.nodes[at].kids = <<>> /\ arena.nodes[at].type = arena.nodes[chain].type
         /\ Pending = {}
<1>1. frames = <<>> /\ chain # None
  BY DEF IInv, PhaseOk
<1>2. Owned = {chain} /\ Pending = {}
  BY <1>1 DEF Owned, Pending
<1>3. Sound(arena, Owners) /\ arena \in Arenas /\ chain # Root
  BY <1>2 DEF IInv, OwnersOk, Sound
<1>4. Owners = {Root} \cup {chain} /\ chain \in Owners /\ Root \in Owners /\ Owners \ {chain} = {Root}
  BY <1>2, <1>3 DEF Owners
<1>5. at \in Live(arena) /\ Under(arena, Owners, at, {Root})
  BY DEF IInv, AtOk
<1>6. at # chain /\ Under(arena, Owners, at, Owners \ {chain})
  BY <1>3, <1>4, <1>5, ModelIsApart
<1>7. arena.nodes[at].kids = <<>> /\ arena.nodes[at].type = arena.nodes[chain].type
  BY DEF IInv, FitsOk
<1> QED
  BY <1>2, <1>3, <1>4, <1>5, <1>6, <1>7

LEMMA SpliceFacts ==
  ASSUME IInv, Splice
  PROVE  /\ pc = "clear" /\ todo = <<>> /\ Return
         /\ arena' = Release(Moved(arena, at, chain), chain)
         /\ Sound(arena', {Root}) /\ Live(arena') = Live(arena) \ {chain}
         /\ NextLife(arena, arena', chain)
<1>1. /\ pc = "clear" /\ todo = <<>> /\ Return
      /\ arena' = Release(Moved(arena, at, chain), chain)
  BY DEF Splice, Moved
<1>2. /\ Sound(arena, Owners) /\ chain \in Owners /\ Owners \ {chain} = {Root}
      /\ at \in Live(arena) /\ at # chain /\ Under(arena, Owners, at, Owners \ {chain})
      /\ arena.nodes[at].kids = <<>> /\ arena.nodes[at].type = arena.nodes[chain].type
  BY <1>1, ClearedFacts
<1>3. Sound(arena', Owners \ {chain}) /\ Live(arena') = Live(arena) \ {chain}
      /\ NextLife(arena, arena', chain)
  BY <1>1, <1>2, SoundSplice
<1> QED
  BY <1>1, <1>2, <1>3

LEMMA SpliceKeeps ==
  ASSUME IInv, Splice
  PROVE  IInv'
<1>1. /\ pc = "clear" /\ todo = <<>> /\ Return
      /\ Sound(arena', {Root}) /\ NextLife(arena, arena', chain)
  BY SpliceFacts
<1>2. arena \in Arenas
  BY <1>1, ClearedFacts
<1>3. CASE aside = NoArena /\ UNCHANGED <<aside, handle>>
  BY <1>1, <1>2, <1>3, HandleNext, ReturnKeeps DEF IInv, HandlesOk, Model
<1>4. CASE aside' = NoArena /\ handle' = NoHandle
  BY <1>1, <1>4, ReturnKeeps
<1> QED
  BY <1>3, <1>4 DEF Splice

LEMMA FreeDoneKeeps ==
  ASSUME IInv, FreeDone
  PROVE  IInv'
<1>1. /\ pc = "free" /\ todo = <<>> /\ Return
      /\ arena' = Model /\ aside' = NoArena /\ handle' = handle
  BY DEF FreeDone
<1>2. frames = <<>> /\ chain = None
  BY <1>1 DEF IInv, PhaseOk
<1>3. Owners = {Root}
  BY <1>1, <1>2, NoneOwned
<1>4. Sound(Model, {Root})
  BY <1>3 DEF IInv, OwnersOk, Model
<1>5. handle' # NoHandle => HandleOk(arena', handle')
  BY <1>1 DEF IInv, HandlesOk
<1> QED
  BY <1>1, <1>4, <1>5, ReturnKeeps

-------------------------------------------------------------------------------
(* The theorems.                                                           *)

LEMMA StutterKeeps ==
  ASSUME IInv, UNCHANGED vars
  PROVE  IInv'
<1>1. /\ arena' = arena /\ aside' = aside /\ pc' = pc /\ call' = call /\ at' = at /\ index' = index
      /\ frames' = frames /\ chain' = chain /\ level' = level /\ todo' = todo
      /\ replaced' = replaced /\ handle' = handle
  BY DEF vars, locals
<1>2. OwnersOk' /\ HandlesOk' /\ Owned' = Owned /\ Owners' = Owners /\ Pending' = Pending
  BY <1>1, SameOwners DEF IInv
<1>3. TypesOk' /\ FramesOk'
  BY <1>1 DEF IInv, TypesOk, FramesOk
<1>4. PhaseOk'
  BY <1>1 DEF IInv, PhaseOk, AtEnd
<1>5. AtOk'
  BY <1>1, <1>2 DEF IInv, AtOk
<1>6. FitsOk'
  BY <1>1 DEF IInv, FitsOk, AtEnd, Seg
<1>7. ReplacedOk'
  BY <1>1, <1>2 DEF IInv, ReplacedOk, Valid, Model
<1> QED
  BY <1>2, <1>3, <1>4, <1>5, <1>6, <1>7 DEF IInv

LEMMA NextKeeps ==
  ASSUME IInv, [Next]_vars
  PROVE  IInv'
<1>1. ASSUME NEW x \in Values, FromValue(x) PROVE IInv'
  BY <1>1, FromValueKeeps
<1>2. ASSUME NEW p \in Paths \cup {Malformed}, NEW x \in Values, Set(p, x) PROVE IInv'
  BY <1>2, SetKeeps
<1>3. ASSUME NEW p \in Paths \cup {Malformed}, Remove(p) PROVE IInv'
  BY <1>3, RemoveKeeps
<1>4. ASSUME NEW p \in HandlePaths, NodeAt(p) PROVE IInv'
  BY <1>4, NodeAtKeeps
<1>5. ASSUME NEW seg \in Segments, ChildOf(seg) PROVE IInv'
  BY <1>5, ChildOfKeeps
<1>6. CASE PlanStep \/ ResolveStep \/ Unlink \/ TakeHandle
  BY <1>6, PlanStepKeeps, ResolveStepKeeps, UnlinkKeeps, TakeHandleKeeps
<1>7. CASE BuildFromValue \/ BuildChild \/ LinkChild
  BY <1>7, BuildFromValueKeeps, BuildChildKeeps, LinkChildKeeps
<1>8. CASE BeginChain \/ ChainStep \/ Join
  BY <1>8, BeginChainKeeps, ChainStepKeeps, JoinKeeps
<1>9. CASE Assign \/ FreeStep \/ Splice \/ FreeDone
  BY <1>9, AssignKeeps, FreeStepKeeps, SpliceKeeps, FreeDoneKeeps
<1>10. CASE UNCHANGED vars
  BY <1>10, StutterKeeps
<1> QED
  BY <1>1, <1>2, <1>3, <1>4, <1>5, <1>6, <1>7, <1>8, <1>9, <1>10 DEF Next

LEMMA Inductive == Spec => []IInv
<1>1. Init => IInv
  BY InitOk
<1>2. IInv /\ [Next]_vars => IInv'
  BY NextKeeps
<1> QED
  BY <1>1, <1>2, PTL DEF Spec

\* At every step of set, remove, nodeAt and fromValue, with std::bad_alloc at any
\* request for memory (buildFromValue, applyWrite and the SubtreeGuards of
\* config_model.cpp), the live nodes are the model's tree and the trees that a
\* guard or freeSubtree still owns, and the dead ones are on the free list, once
\* each: nothing leaks, nothing is freed twice, no dead node is linked.
THEOREM ArenaStaysTree == Spec => []ArenaIsTree
<1>1. IInv => ArenaIsTree
  <2> SUFFICES ASSUME IInv PROVE ArenaIsTree
    OBVIOUS
  <2>1. Sound(arena, Owners)
    BY DEF IInv, OwnersOk
  <2>2. IsForest(arena, {Root} \cup Owned) /\ FreeListIsDead(arena)
    BY <2>1, SoundIsForest DEF Owners
  <2>3. ASSUME aside # NoArena PROVE IsForest(aside, {Root}) /\ FreeListIsDead(aside)
    <3>1. Sound(aside, {Root})
      BY <2>3 DEF IInv, OwnersOk
    <3> QED
      BY <3>1, SoundIsForest
  <2>4. pc = "clear" => arena.nodes[at].type = arena.nodes[chain].type
    BY DEF IInv, FitsOk
  <2>5. \A i \in Live(arena) : arena.nodes[i].kids # <<>> => arena.nodes[i].type \in Containers
    BY <2>1 DEF Sound
  <2> QED
    BY <2>2, <2>3, <2>4, <2>5 DEF ArenaIsTree
<1> QED
  BY <1>1, Inductive, PTL

\* A ConfigNode whose generation matches (NodeArena::matches) names the node it
\* was taken for, however its slot has been freed and reused, as long as there
\* were fewer releases of it than the generation counter can tell apart.
THEOREM StaleStaysDetected == Spec => []StaleIsDetected
<1>1. IInv => StaleIsDetected
  <2> SUFFICES ASSUME IInv, handle # NoHandle, Valid(handle),
                      Model.nodes[handle.id].life - handle.life < GenModulus
               PROVE  Model.nodes[handle.id].life - handle.life = 0
    BY DEF StaleIsDetected
  <2>1. Model \in Arenas
    BY DEF IInv, OwnersOk, Sound, Model
  <2>2. HandleOk(Model, handle) /\ Matches(Model, handle.id, handle.gen)
    BY DEF IInv, HandlesOk, Valid
  <2> HIDE DEF Model
  <2> QED
    BY <2>1, <2>2, HandleStale
<1> QED
  BY <1>1, Inductive, PTL

\* A set that replaces a node's contents (assignContents of config_model.cpp)
\* leaves the handles to the node valid and makes those to everything that was
\* below it stale.
THEOREM ReplaceKeeps == Spec => ReplaceKeepsTarget
<1> DEFINE A == (pc = "clear" /\ pc' = "idle" /\ replaced.valid) =>
                  /\ handle.id = replaced.node => Valid(handle)'
                  /\ handle.id \in replaced.below => ~Valid(handle)'
<1>1. IInv /\ [Next]_vars => [A]_vars
  <2> SUFFICES ASSUME IInv, Next, pc = "clear", pc' = "idle", replaced.valid
               PROVE  /\ handle.id = replaced.node => Valid(handle)'
                      /\ handle.id \in replaced.below => ~Valid(handle)'
    OBVIOUS
  <2>1. Splice
    BY DEF Next, FromValue, Set, Remove, NodeAt, ChildOf, PlanStep, ResolveStep, Unlink, TakeHandle,
           BuildFromValue, BuildChild, LinkChild, BeginChain, ChainStep, Join, Assign, Built,
           FreeStep, FreeDone
  <2>2. /\ todo = <<>> /\ arena' = Release(Moved(arena, at, chain), chain)
        /\ Live(arena') = Live(arena) \ {chain} /\ NextLife(arena, arena', chain)
    BY <2>1, SpliceFacts
  <2>3. /\ Sound(arena, Owners) /\ arena \in Arenas /\ at \in Live(arena) /\ at # chain
        /\ Pending = {} /\ chain \in Owners
    BY <2>2, ClearedFacts
  <2>4. /\ replaced.node = at /\ aside = NoArena /\ (handle.id = at => Valid(handle))
        /\ \A i \in replaced.below \cap Live(arena) : Under(arena, Owners, i, Pending)
    BY DEF IInv, ReplacedOk
  <2>5. handle' = handle /\ aside' = NoArena
    BY <2>1, <2>4 DEF Splice
  <2>6. ASSUME handle.id = replaced.node PROVE Valid(handle)'
    <3>1. at \in Live(arena') /\ at \in DOMAIN arena.nodes
      BY <2>2, <2>3, ArenaFacts
    <3>2. arena'.nodes[at].gen = arena.nodes[at].gen
      BY <2>2, <2>3, <3>1 DEF NextLife
    <3>3. arena.nodes[at].gen = handle.gen
      BY <2>4, <2>6 DEF Valid, Matches, Model
    <3> QED
      BY <2>4, <2>5, <2>6, <3>1, <3>2, <3>3 DEF Valid, Matches, Model, Live
  <2>7. ASSUME handle.id \in replaced.below PROVE ~Valid(handle)'
    <3>1. handle.id \notin Live(arena)
      <4> SUFFICES ASSUME handle.id \in Live(arena) PROVE FALSE
        OBVIOUS
      <4>1. Under(arena, Owners, handle.id, {})
        BY <2>3, <2>4, <2>7
      <4>2. UpClosed(arena, Owners, Live(arena))
        BY <2>3 DEF UpClosed, Sound, Trees
      <4> QED
        BY <4>1, <4>2 DEF Under
    <3>2. handle.id \notin Live(arena')
      BY <2>2, <3>1
    <3> QED
      BY <2>5, <3>2 DEF Valid, Matches, Model, Live
  <2> QED
    BY <2>6, <2>7
<1>2. [][A]_vars <=> ReplaceKeepsTarget
  BY DEF ReplaceKeepsTarget
<1> HIDE DEF A
<1> QED
  BY <1>1, <1>2, Inductive, PTL DEF Spec
===============================================================================
