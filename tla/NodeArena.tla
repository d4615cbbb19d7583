------------------------------- MODULE NodeArena -------------------------------
(***************************************************************************)
(* NodeArena of node_arena.hpp, as operators on an arena a:                *)
(*                                                                         *)
(*   a.nodes  the slots, numbered from 1; a node's kids are its members    *)
(*            or elements, in order (an element's key is NoKey)            *)
(*   a.free   freeHead_, the list of dead slots threaded through parent    *)
(*                                                                         *)
(* A node's life is history: how often its slot has been released.  Its    *)
(* generation is the same count in the width of the counter.               *)
(***************************************************************************)
EXTENDS Integers, Sequences, FiniteSets

CONSTANTS GenModulus,  \* 2^32: generation is a uint32_t
          NoScalar

ASSUME GenAssumption == GenModulus \in Nat \ {0}

None == 0  \* kNodeIdNone

\* The slot that allocate takes: a dead one, or a new one at the end.
Slot(a) == IF a.free # None THEN a.free ELSE Len(a.nodes) + 1

\* A dead slot is reused as it is; without one the arena grows.
Allocate(a, type) ==
  IF a.free # None
  THEN [free |-> a.nodes[a.free].parent,
        nodes |-> [a.nodes EXCEPT ![a.free] =
                     [@ EXCEPT !.type = type, !.scalar = NoScalar,
                               !.parent = None, !.alive = TRUE]]]
  ELSE [free |-> None,
        nodes |-> Append(a.nodes, [type |-> type, scalar |-> NoScalar, kids |-> <<>>,
                                   parent |-> None, gen |-> 0, alive |-> TRUE, life |-> 0])]

\* Mutant: the generation is not bumped.
Release_NoBump(a, id) ==
  LET dead == [a.nodes[id] EXCEPT !.alive = FALSE, !.life = @ + 1, !.scalar = NoScalar,
                                  !.kids = <<>>, !.parent = a.free]
  IN  [free |-> id, nodes |-> [a.nodes EXCEPT ![id] = dead]]

Release(a, id) ==
  LET dead == [a.nodes[id] EXCEPT !.alive = FALSE, !.gen = (@ + 1) % GenModulus,
                                  !.life = @ + 1, !.scalar = NoScalar, !.kids = <<>>,
                                  !.parent = a.free]
  IN  [free |-> id, nodes |-> [a.nodes EXCEPT ![id] = dead]]

Matches(a, id, gen) ==
  id \in DOMAIN a.nodes /\ a.nodes[id].alive /\ a.nodes[id].gen = gen

-------------------------------------------------------------------------------
(* What a sound arena is.                                                  *)

Live(a) == {i \in DOMAIN a.nodes : a.nodes[i].alive}

KidIds(node) == [k \in DOMAIN node.kids |-> node.kids[k].id]

Kids(node) == {node.kids[k].id : k \in DOMAIN node.kids}

\* The nodes at and below those of R: the least set with R and the kids of its members.
Reach(a, R) ==
  {i \in DOMAIN a.nodes :
     \A S \in SUBSET DOMAIN a.nodes :
        (R \subseteq S /\ \A j \in S : Kids(a.nodes[j]) \subseteq S) => i \in S}

\* The live nodes are trees with the roots R: they are the ones that can be
\* reached from R, no root is linked from anywhere, every other node once, from
\* the node its parent field names.
IsForest(a, R) ==
  /\ R \subseteq Live(a)
  /\ Live(a) = Reach(a, R)
  /\ \A i \in Live(a) : \A k \in DOMAIN a.nodes[i].kids :
       LET kid == a.nodes[i].kids[k].id
       IN  /\ kid \in Live(a) \ R
           /\ a.nodes[kid].parent = i
           /\ \A l \in DOMAIN a.nodes[i].kids : a.nodes[i].kids[l].id = kid => l = k

Dead(a) == DOMAIN a.nodes \ Live(a)

\* The list in the order s.
Threads(a, s) ==
  /\ a.free = IF s = <<>> THEN None ELSE s[1]
  /\ \A i \in DOMAIN s :
       a.nodes[s[i]].parent = IF i = Len(s) THEN None ELSE s[i + 1]

\* The free list has every dead slot exactly once.
FreeListIsDead(a) ==
  \E s \in [1 .. Cardinality(Dead(a)) -> Dead(a)] :
     /\ \A i, j \in DOMAIN s : s[i] = s[j] => i = j
     /\ Threads(a, s)
===============================================================================
