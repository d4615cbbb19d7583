------------------------------ MODULE ConfigModel ------------------------------
(***************************************************************************)
(* ConfigModel of config_model.cpp on the arena of NodeArena: how a path   *)
(* write is planned and applied, how subtrees are built, replaced and      *)
(* freed node by node, and what a std::bad_alloc in the middle leaves      *)
(* behind.  One ConfigNode handle, held across other operations, shows     *)
(* what stale handles see.                                                 *)
(*                                                                         *)
(* A call runs alone (a model is not shared between threads), one step per *)
(* node visited, allocated, linked or released; its local variables are    *)
(* variables here, and a request for memory either succeeds or throws.     *)
(***************************************************************************)
EXTENDS NodeArena
Ext == INSTANCE SequencesExt

CONSTANTS Paths,        \* parsed paths: sequences of key and index segments
          HandlePaths,  \* the paths a handle is taken at
          Malformed,    \* a path text that ConfigPath::parse refuses
          ConfigValues, \* values, with all the values inside them
          Values,       \* values written
          Keys, NoKey,  \* keys; an element's is NoKey
          Scalars,
          BadKeys,      \* keys that are not path-addressable
          MaxDepth,     \* kMaxTreeDepth
          MaxReleases,  \* bound: no call begins after this many releases
          MaxNodes,     \* bound: slots for which there is memory
          NoHandle, NoArena, NoCall

NodeTypes == {"Null", "Bool", "Int", "Double", "String", "Array", "Object"}
Containers == {"Array", "Object"}

AllSegments == [kind : {"key"}, key : Keys] \cup [kind : {"index"}, index : Nat]

Nodes == [type : NodeTypes, scalar : Scalars, kids : Seq([key : Keys, id : Nat]),
          parent : Nat, gen : 0 .. GenModulus - 1, alive : BOOLEAN, life : Nat]
Arenas == [nodes : Seq(Nodes), free : Nat]

ASSUME ModelAssumption ==
  /\ Values \subseteq ConfigValues
  /\ \A v \in ConfigValues :
       /\ v \in [type : NodeTypes, scalar : Scalars,
                 kids : Seq([key : Keys, value : ConfigValues])]
       /\ v.kids # <<>> => v.type \in Containers
  /\ Paths \subseteq Seq(AllSegments) \ {<<>>} /\ HandlePaths \subseteq Seq(AllSegments)
  /\ NoScalar \in Scalars /\ NoKey \in Keys
  /\ MaxNodes \in Nat /\ MaxReleases \in Nat
  /\ NoArena \notin Arenas

VARIABLES arena,    \* *arena_
          aside,    \* the model's arena while fromValue makes another in its place
          pc,       \* where the call is
          call,     \* its path and value
          at,       \* planWrite's and resolve's current, then WritePlan::node
          index,    \* their loop's position, then WritePlan::createFrom
          frames,   \* activations of buildFromValue, each with its guard, innermost first
          chain,    \* the detached subtree that applyWrite's guard owns
          level,    \* applyWrite's j
          todo,     \* slots that freeSubtree is still to free
          result,   \* what the last call returned, "none" while it is open
          handle,   \* a ConfigNode: slot, generation and, as history, life
          replaced  \* history: what assignContents replaces

locals == <<call, at, index, frames, chain, level, todo, replaced>>
vars == <<arena, aside, pc, locals, result, handle>>

Root == 1  \* rootId_: the slot the constructor allocates first

EmptyModel == Allocate([nodes |-> <<>>, free |-> None], "Object")

\* The arena that the application and its handles see.
Model == IF aside = NoArena THEN arena ELSE aside

-------------------------------------------------------------------------------
(* How a call begins and ends.                                             *)

\* Bound: releases so far.
Releases == Ext!FoldLeft(LAMBDA n, node : n + node.life, 0, arena.nodes)

Begin(where, p, v) ==
  /\ Releases < MaxReleases
  /\ pc' = where
  /\ call' = [path |-> p, value |-> v]
  /\ at' = Root /\ index' = 1
  /\ result' = "none"
  /\ UNCHANGED <<handle, frames, chain, level, todo, replaced>>

NothingReplaced == [node |-> None, below |-> {}, valid |-> FALSE]

\* The locals go out of scope.
Return ==
  /\ pc' = "idle"
  /\ call' = NoCall /\ at' = None /\ index' = 0 /\ level' = 0
  /\ frames' = <<>> /\ chain' = None /\ todo' = <<>>
  /\ replaced' = NothingReplaced

\* An error that is found before anything is changed.
Reject(code) == Return /\ result' = code /\ UNCHANGED <<arena, aside, handle>>

\* Mutant: only the innermost guard frees what it owns.
Guards_Inner == IF frames # <<>> THEN <<frames[1].id>> ELSE <<>>

\* What the SubtreeGuards that are alive own, in the order of their destructors.
Guards == [k \in DOMAIN frames |-> frames[k].id] \o IF chain = None THEN <<>> ELSE <<chain>>

\* std::bad_alloc unwinds the call: the guards free what they own.
Throw(slots) ==
  /\ pc' = "free" /\ todo' = slots
  /\ frames' = <<>> /\ chain' = None
  /\ result' = "bad_alloc"
  /\ UNCHANGED <<aside, call, at, index, level, handle, replaced>>

-------------------------------------------------------------------------------
(* Paths.                                                                  *)

Container(seg) == IF seg.kind = "key" THEN "Object" ELSE "Array"

SegKey(seg) == IF seg.kind = "key" THEN seg.key ELSE NoKey

\* findMember, or the element at an index: its place among the kids, 0 for none.
FindChild(node, seg) ==
  IF seg.kind = "key"
  THEN IF \E k \in DOMAIN node.kids : node.kids[k].key = seg.key
       THEN CHOOSE k \in DOMAIN node.kids : node.kids[k].key = seg.key ELSE 0
  ELSE IF seg.index < Len(node.kids) THEN seg.index + 1 ELSE 0

Seg == call.path[index]
Child == FindChild(arena.nodes[at], Seg)
AtEnd == index > Len(call.path)
Descend == at' = arena.nodes[at].kids[Child].id /\ index' = index + 1

\* The loop of resolve.
ResolveStep ==
  /\ pc \in {"remove", "nodeAt"} /\ ~AtEnd
  /\ \/ arena.nodes[at].type # Container(Seg) /\ Reject("InvalidType")
     \/ arena.nodes[at].type = Container(Seg) /\ Child = 0 /\ Reject("NodeNotFound")
     \/ /\ arena.nodes[at].type = Container(Seg) /\ Child # 0
        /\ Descend
        /\ UNCHANGED <<arena, aside, pc, call, frames, chain, level, todo, replaced, result, handle>>

\* New containers are empty: an index into one can only be 0.
CheckCreatable(p, from) ==
  \A j \in from + 1 .. Len(p) : p[j].kind = "index" => p[j].index = 0

\* The loop of planWrite: where a write goes.  It ends beyond the path when
\* the target exists.
PlanStep ==
  LET node == arena.nodes[at]
      fits == node.type = Container(Seg)
      hole == Seg.kind = "index" /\ Seg.index > Len(node.kids)
      kid == arena.nodes[node.kids[Child].id]
      Goto(where) == /\ pc' = where
                     /\ UNCHANGED <<arena, aside, call, frames, chain, level, todo, replaced,
                                    result, handle>>
  IN  /\ pc = "plan"
      /\ \/ ~fits /\ Reject("InvalidType")
         \/ /\ fits /\ Child = 0 /\ (hole \/ ~CheckCreatable(call.path, index))
            /\ Reject("NodeNotFound")
         \/ /\ fits /\ Child = 0 /\ ~hole /\ CheckCreatable(call.path, index)
            /\ Goto("build") /\ UNCHANGED <<at, index>>
         \/ fits /\ Child # 0 /\ index < Len(call.path) /\ Descend /\ Goto("plan")
         \/ /\ fits /\ Child # 0 /\ index = Len(call.path)
            /\ \/ kid.type # call.value.type /\ Reject("InvalidType")
               \/ kid.type = call.value.type /\ Descend /\ Goto("build")

-------------------------------------------------------------------------------
(* buildFromValue.                                                         *)

HasMemory == arena.free # None \/ Len(arena.nodes) < MaxNodes

\* A child linked under its parent.
Link(a, parent, key, child) ==
  [a EXCEPT !.nodes[child].parent = parent,
            !.nodes[parent].kids = Append(@, [key |-> key, id |-> child])]

\* buildFromValue(v, parent) up to its loop.  allocate throws only when the
\* arena has to grow; reserve, or the copy of the scalar, may throw as well.
Enter(v, parent) ==
  LET id == Slot(arena)
      new == [Allocate(arena, v.type) EXCEPT !.nodes[id].parent = parent]
  IN  \/ arena.free = None /\ Throw(Guards) /\ UNCHANGED arena
      \/ HasMemory /\ arena' = new /\ Throw(<<id>> \o Guards)
      \/ /\ HasMemory /\ arena' = [new EXCEPT !.nodes[id].scalar = v.scalar]
         /\ frames' = <<[value |-> v, id |-> id, next |-> 1]>> \o frames
         /\ UNCHANGED <<aside, pc, call, at, index, chain, level, todo, replaced, result, handle>>

BuildFromValue == pc = "build" /\ frames = <<>> /\ Enter(call.value, None)

Finished(f) == f.next > Len(f.value.kids)

BuildChild ==
  /\ pc = "build" /\ frames # <<>> /\ ~Finished(frames[1])
  /\ Enter(frames[1].value.kids[frames[1].next].value, frames[1].id)

\* emplace_back of a finished child; there is room, but a key may not be copied.
LinkChild ==
  /\ pc = "build" /\ Len(frames) > 1 /\ Finished(frames[1])
  /\ LET f == frames[2]
     IN  \/ f.value.type = "Object" /\ Throw(Guards) /\ UNCHANGED arena
         \/ /\ arena' = Link(arena, f.id, f.value.kids[f.next].key, frames[1].id)
            /\ frames' = <<[f EXCEPT !.next = @ + 1]>> \o SubSeq(frames, 3, Len(frames))
            /\ UNCHANGED <<aside, pc, call, at, index, chain, level, todo, replaced, result, handle>>

Built == pc = "build" /\ Len(frames) = 1 /\ Finished(frames[1])

-------------------------------------------------------------------------------
(* applyWrite: creation.                                                   *)

BeginChain ==
  /\ Built /\ ~AtEnd
  /\ pc' = "chain" /\ frames' = <<>> /\ chain' = frames[1].id /\ level' = Len(call.path)
  /\ UNCHANGED <<arena, aside, call, at, index, todo, replaced, result, handle>>

\* The container of a segment below the creation point, around the chain.
ChainStep ==
  LET id == Slot(arena)
      new == Allocate(arena, Container(call.path[level]))
  IN  /\ pc = "chain" /\ level > index
      /\ \/ arena.free = None /\ Throw(Guards) /\ UNCHANGED arena
         \/ /\ HasMemory /\ arena' = [new EXCEPT !.nodes[chain].parent = id]
            /\ Throw(<<id>> \o Guards)
         \/ /\ HasMemory /\ arena' = Link(new, id, SegKey(call.path[level]), chain)
            /\ chain' = id /\ level' = level - 1
            /\ UNCHANGED <<aside, pc, call, at, index, frames, todo, replaced, result, handle>>

\* The chain joins the tree, last.
Join ==
  /\ pc = "chain" /\ level = index
  /\ \/ arena' = [arena EXCEPT !.nodes[chain].parent = at] /\ Throw(Guards)
     \/ /\ arena' = Link(arena, at, SegKey(Seg), chain)
        /\ Return /\ result' = "ok" /\ UNCHANGED <<aside, handle>>

-------------------------------------------------------------------------------
(* assignContents, freeChildren and freeSubtree.                           *)

Valid(h) == Matches(Model, h.id, h.gen)

\* Mutant: the old children are dropped, not freed.
Assign_Drop ==
  /\ Built /\ AtEnd
  /\ pc' = "clear" /\ frames' = <<>> /\ chain' = frames[1].id
  /\ arena' = [arena EXCEPT !.nodes[at].kids = <<>>]
  /\ todo' = <<>>
  /\ replaced' = [node |-> at, below |-> Reach(arena, Kids(arena.nodes[at])),
                  valid |-> aside = NoArena /\ handle # NoHandle /\ Valid(handle)]
  /\ result' = IF aside = NoArena THEN "ok" ELSE result
  /\ UNCHANGED <<aside, call, at, index, level, handle>>

\* The replacement is built; from here on nothing can fail.  The target's old
\* children go first.
Assign ==
  /\ Built /\ AtEnd
  /\ pc' = "clear" /\ frames' = <<>> /\ chain' = frames[1].id
  /\ arena' = [arena EXCEPT !.nodes[at].kids = <<>>]
  /\ todo' = KidIds(arena.nodes[at])
  /\ replaced' = [node |-> at, below |-> Reach(arena, Kids(arena.nodes[at])),
                  valid |-> aside = NoArena /\ handle # NoHandle /\ Valid(handle)]
  /\ result' = IF aside = NoArena THEN "ok" ELSE result
  /\ UNCHANGED <<aside, call, at, index, level, handle>>

\* freeSubtree of the next slot: its children first, then itself.
FreeStep ==
  /\ pc \in {"clear", "free"} /\ todo # <<>>
  /\ LET id == Head(todo)
         node == arena.nodes[id]
     IN  \/ /\ node.kids # <<>>
            /\ arena' = [arena EXCEPT !.nodes[id].kids = <<>>]
            /\ todo' = KidIds(node) \o todo
         \/ /\ node.kids = <<>>
            /\ arena' = Release(arena, id)
            /\ todo' = Tail(todo)
  /\ UNCHANGED <<aside, pc, call, at, index, frames, chain, level, replaced, result, handle>>

\* The contents move to the target, the node they were built in goes, and the
\* model that fromValue made takes the place of the old one.
Splice ==
  /\ pc = "clear" /\ todo = <<>>
  /\ LET new == arena.nodes[chain]
         moved == [i \in DOMAIN arena.nodes |->
                     CASE i = at -> [arena.nodes[i] EXCEPT !.scalar = new.scalar, !.kids = new.kids]
                       [] i \in Kids(new) -> [arena.nodes[i] EXCEPT !.parent = at]
                       [] OTHER -> arena.nodes[i]]
     IN  arena' = Release([arena EXCEPT !.nodes = moved], chain)
  /\ Return
  /\ \/ aside = NoArena /\ UNCHANGED <<aside, result, handle>>
     \/ aside # NoArena /\ aside' = NoArena /\ result' = "ok" /\ handle' = NoHandle

\* Mutant: the model keeps what fromValue had of the new one.
FreeDone_Adopt ==
  /\ pc = "free" /\ todo = <<>>
  /\ arena' = arena /\ aside' = NoArena
  /\ Return /\ UNCHANGED <<result, handle>>

\* Everything is freed and the call is over; what fromValue had of a new model
\* is destroyed.
FreeDone ==
  /\ pc = "free" /\ todo = <<>>
  /\ arena' = Model /\ aside' = NoArena
  /\ Return /\ UNCHANGED <<result, handle>>

-------------------------------------------------------------------------------
(* The operations.                                                         *)

\* validateTree.
ValidateTree[v \in ConfigValues, depth \in Nat] ==
  /\ depth <= MaxDepth
  /\ \A k \in DOMAIN v.kids : /\ v.kids[k].key \notin BadKeys
                              /\ ValidateTree[v.kids[k].value, depth + 1]

\* *fromValue(x) replaces the model, and with it whatever handles pointed to.
FromValue(x) ==
  /\ pc = "idle"
  /\ \/ x.type # "Object" /\ Reject("InvalidType")
     \/ x.type = "Object" /\ ~ValidateTree[x, 0] /\ Reject("InvalidPath")
     \/ /\ x.type = "Object" /\ ValidateTree[x, 0]
        /\ \/ Reject("bad_alloc")  \* the constructor's
           \/ /\ aside' = arena /\ arena' = EmptyModel
              /\ Begin("build", <<>>, x)

Set(p, x) ==
  /\ pc = "idle"
  /\ \/ p = Malformed /\ Reject("InvalidPath")
     \/ p # Malformed /\ ~ValidateTree[x, Len(p)] /\ Reject("InvalidPath")
     \/ /\ p # Malformed /\ ValidateTree[x, Len(p)]
        /\ Begin("plan", p, x) /\ UNCHANGED <<arena, aside>>

Remove(p) ==
  /\ pc = "idle"
  /\ \/ p = Malformed /\ Reject("InvalidPath")
     \/ p # Malformed /\ Begin("remove", p, NoCall) /\ UNCHANGED <<arena, aside>>

\* The node is unlinked (an object's member is found by its slot, an element by
\* its index), then freed.
Unlink ==
  LET parent == arena.nodes[at].parent
      kids == arena.nodes[parent].kids
      last == call.path[Len(call.path)]
      place == IF last.kind = "key" THEN CHOOSE k \in DOMAIN kids : kids[k].id = at
               ELSE last.index + 1
  IN  /\ pc = "remove" /\ AtEnd
      /\ arena' = [arena EXCEPT !.nodes[parent].kids = Ext!RemoveAt(@, place)]
      /\ pc' = "free" /\ todo' = <<at>>
      /\ result' = "ok"
      /\ UNCHANGED <<aside, call, at, index, frames, chain, level, handle, replaced>>

HandleTo(id) == [id |-> id, gen |-> arena.nodes[id].gen, life |-> arena.nodes[id].life]

\* root() and nodeAt(): a handle to what a path names.
NodeAt(p) == pc = "idle" /\ Begin("nodeAt", p, NoCall) /\ UNCHANGED <<arena, aside>>

TakeHandle ==
  /\ pc = "nodeAt" /\ AtEnd
  /\ handle' = HandleTo(at) /\ result' = "ok"
  /\ Return /\ UNCHANGED <<arena, aside>>

\* child(key) and at(index) of the handle held, where they succeed.
ChildOf(seg) ==
  LET node == arena.nodes[handle.id]
  IN  /\ pc = "idle" /\ handle # NoHandle /\ Valid(handle)
      /\ node.type = Container(seg) /\ FindChild(node, seg) # 0
      /\ handle' = HandleTo(node.kids[FindChild(node, seg)].id)
      /\ UNCHANGED <<arena, aside, pc, locals, result>>

Segments == UNION {{p[i] : i \in DOMAIN p} : p \in Paths}

Init ==
  /\ arena = EmptyModel /\ aside = NoArena
  /\ pc = "idle" /\ call = NoCall /\ at = None /\ index = 0 /\ level = 0
  /\ frames = <<>> /\ chain = None /\ todo = <<>> /\ replaced = NothingReplaced
  /\ result = "ok" /\ handle = NoHandle

Next ==
  \/ \E x \in Values : FromValue(x)
  \/ \E p \in Paths \cup {Malformed}, x \in Values : Set(p, x)
  \/ \E p \in Paths \cup {Malformed} : Remove(p)
  \/ \E p \in HandlePaths : NodeAt(p)
  \/ \E seg \in Segments : ChildOf(seg)
  \/ PlanStep \/ ResolveStep \/ Unlink \/ TakeHandle
  \/ BuildFromValue \/ BuildChild \/ LinkChild
  \/ BeginChain \/ ChainStep \/ Join
  \/ Assign \/ FreeStep \/ Splice \/ FreeDone

Spec == Init /\ [][Next]_vars

-------------------------------------------------------------------------------
(* Properties.                                                             *)

\* What is not the model's: guards and freeSubtree own it.
Owned == {frames[k].id : k \in DOMAIN frames} \cup ({chain} \ {None})
           \cup {todo[k] : k \in DOMAIN todo}

\* At every step of every call, failed and thrown-through ones too, the arena is
\* trees and one free list.  The trees are the model's and those that a guard, or
\* a freeSubtree in progress, still owns: no node leaks, none is freed twice, no
\* dead one is used.  A node whose contents are replaced has the type of the
\* replacement (the assertions of node_arena.hpp and of assignContents).
ArenaIsTree ==
  /\ IsForest(arena, {Root} \cup Owned) /\ FreeListIsDead(arena)
  /\ aside # NoArena => IsForest(aside, {Root}) /\ FreeListIsDead(aside)
  /\ pc = "clear" => arena.nodes[at].type = arena.nodes[chain].type
  /\ \A i \in Live(arena) : arena.nodes[i].kids # <<>> => arena.nodes[i].type \in Containers

\* A handle that still matches names the node it was taken for, never the next
\* node in the same slot, as long as the slot has been released less than 2^32
\* times since.
StaleIsDetected ==
  handle # NoHandle /\ Valid(handle) =>
    LET since == Model.nodes[handle.id].life - handle.life
    IN  since < GenModulus => since = 0

\* However often slots are freed and reused, a handle that matches names the
\* node it was taken for (node_arena.hpp:34).
StaleIsAlwaysDetected ==
  handle # NoHandle /\ Valid(handle) => Model.nodes[handle.id].life = handle.life

\* Replacing a node's contents keeps the handle to the node itself and makes
\* those to everything that was below it stale.
ReplaceKeepsTarget ==
  [][ (pc = "clear" /\ pc' = "idle" /\ replaced.valid) =>
        /\ handle.id = replaced.node => Valid(handle)'
        /\ handle.id \in replaced.below => ~Valid(handle)' ]_vars
===============================================================================
