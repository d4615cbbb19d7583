------------------------------- MODULE ValueTree -------------------------------
(***************************************************************************)
(* What ConfigModel promises: an owned tree of values, written and erased  *)
(* through paths, each write all or nothing.  No nodes, no slots, no       *)
(* handles: a value is a type, a scalar and an ordered list of children.   *)
(* A call is open from its beginning to its one answer, which is about its *)
(* own path and value.                                                     *)
(***************************************************************************)
EXTENDS Integers, Sequences
LOCAL Ext == INSTANCE SequencesExt

CONSTANTS Paths, HandlePaths, Values, MaxDepth, BadKeys, NoKey, NoScalar, Malformed, NoCall

VARIABLES value, result, request

vars == <<value, result, request>>

EmptyObject == [type |-> "Object", scalar |-> NoScalar, kids |-> <<>>]

Ok(v) == [code |-> "ok", value |-> v]
Error(e) == [code |-> e, value |-> EmptyObject]

\* A key segment wants an object around it, an index segment an array.
Container(seg) == IF seg.kind = "key" THEN "Object" ELSE "Array"

\* Position of the child a segment names; 0 when there is none.
Find(v, seg) ==
  IF seg.kind = "key"
  THEN Ext!SelectInSeq(v.kids, LAMBDA kid : kid.key = seg.key)
  ELSE IF seg.index < Len(v.kids) THEN seg.index + 1 ELSE 0

Kid(seg, v) == [key |-> IF seg.kind = "key" THEN seg.key ELSE NoKey, value |-> v]

\* The value x inside the containers that the segments of p ask for.
RECURSIVE Wrap(_, _)
Wrap(p, x) ==
  IF p = <<>> THEN x
  ELSE [type |-> Container(Head(p)), scalar |-> NoScalar,
        kids |-> <<Kid(Head(p), Wrap(Tail(p), x))>>]

\* Keys that paths can address, and at most MaxDepth levels from depth on.
RECURSIVE Fits(_, _)
Fits(v, depth) ==
  /\ depth <= MaxDepth
  /\ \A i \in DOMAIN v.kids : /\ v.kids[i].key \notin BadKeys
                              /\ Fits(v.kids[i].value, depth + 1)

\* v with x at p.  New structure only below what is there; no type changes.
RECURSIVE Upsert(_, _, _)
Upsert(v, p, x) ==
  IF p = <<>> THEN IF v.type = x.type THEN Ok(x) ELSE Error("InvalidType")
  ELSE IF v.type # Container(Head(p)) THEN Error("InvalidType")
  ELSE LET seg == Head(p)
           i == Find(v, seg)
           below == Upsert(v.kids[i].value, Tail(p), x)
           hole == \/ seg.kind = "index" /\ seg.index > Len(v.kids)
                   \/ \E j \in 2 .. Len(p) : p[j].kind = "index" /\ p[j].index # 0
       IN  CASE i # 0 /\ below.code = "ok" -> Ok([v EXCEPT !.kids[i].value = below.value])
             [] i # 0 /\ below.code # "ok" -> below
             [] i = 0 /\ hole -> Error("NodeNotFound")
             [] i = 0 /\ ~hole -> Ok([v EXCEPT !.kids = Append(@, Kid(seg, Wrap(Tail(p), x)))])

\* v without what is at p.
RECURSIVE Erase(_, _)
Erase(v, p) ==
  IF v.type # Container(Head(p)) THEN Error("InvalidType")
  ELSE LET i == Find(v, Head(p))
           below == Erase(v.kids[i].value, Tail(p))
       IN  CASE i = 0 -> Error("NodeNotFound")
             [] i # 0 /\ Len(p) = 1 -> Ok([v EXCEPT !.kids = Ext!RemoveAt(@, i)])
             [] i # 0 /\ Len(p) > 1 /\ below.code = "ok" ->
                  Ok([v EXCEPT !.kids[i].value = below.value])
             [] i # 0 /\ Len(p) > 1 /\ below.code # "ok" -> below

\* Whether there is something at p.
RECURSIVE Lookup(_, _)
Lookup(v, p) ==
  IF p = <<>> THEN "ok"
  ELSE IF v.type # Container(Head(p)) THEN "InvalidType"
  ELSE IF Find(v, Head(p)) = 0 THEN "NodeNotFound"
  ELSE Lookup(v.kids[Find(v, Head(p))].value, Tail(p))

Take(outcome) == /\ result' = outcome.code
                 /\ value' = IF outcome.code = "ok" THEN outcome.value ELSE value

OutOfMemory == result' = "bad_alloc" /\ UNCHANGED value

FromValue(x) ==
  \/ Take(IF x.type # "Object" THEN Error("InvalidType")
          ELSE IF ~Fits(x, 0) THEN Error("InvalidPath") ELSE Ok(x))
  \/ OutOfMemory

Set(p, x) ==
  \/ Take(IF p = Malformed THEN Error("InvalidPath")
          ELSE IF ~Fits(x, Len(p)) THEN Error("InvalidPath") ELSE Upsert(value, p, x))
  \/ OutOfMemory

Remove(p) == Take(IF p = Malformed THEN Error("InvalidPath") ELSE Erase(value, p))

NodeAt(p) == result' = Lookup(value, p) /\ UNCHANGED value

Request(op, p, x) == [op |-> op, path |-> p, value |-> x]

Requests ==
  {Request("fromValue", <<>>, x) : x \in Values}
    \cup {Request("set", p, x) : p \in Paths \cup {Malformed}, x \in Values}
    \cup {Request("remove", p, NoCall) : p \in Paths \cup {Malformed}}
    \cup {Request("nodeAt", p, NoCall) : p \in HandlePaths}

\* What the call r may answer, and do to the value.
Perform(r) ==
  \/ r.op = "fromValue" /\ FromValue(r.value)
  \/ r.op = "set" /\ Set(r.path, r.value)
  \/ r.op = "remove" /\ Remove(r.path)
  \/ r.op = "nodeAt" /\ NodeAt(r.path)

Init == value = EmptyObject /\ result = "ok" /\ request = NoCall

Begin ==
  /\ request = NoCall
  /\ request' \in Requests
  /\ result' = "none" /\ UNCHANGED value

Answer ==
  /\ request # NoCall
  /\ Perform(request)
  /\ request' = NoCall

\* Some calls fail before they have begun to do anything.
Refuse ==
  /\ request = NoCall
  /\ \E r \in Requests : Perform(r)
  /\ result' # "ok"
  /\ UNCHANGED request

Next == Begin \/ Answer \/ Refuse

Spec == Init /\ [][Next]_vars
===============================================================================
