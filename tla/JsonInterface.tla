----------------------------- MODULE JsonInterface -----------------------------
(***************************************************************************)
(* JsonInterface of json_interface.cpp: load, with its SAX handler         *)
(* ValueBuilder one callback at a time, and save.                          *)
(*                                                                         *)
(* A JSON document is [kind, val, kids]; kids are its members, in order,   *)
(* an array's with key NoKey.  Its scalars are "plain" (null, a boolean or *)
(* a string), "negative" and "unsigned" integers, "overflow" (an integral  *)
(* literal beyond 64 bits) and "float".  The parser, nlohmann's sax_parse, *)
(* turns a document into the sequence of its events.  A value is           *)
(* [type, scalar, kids], as in ConfigModel.                                *)
(***************************************************************************)
EXTENDS Integers, Sequences
LOCAL Ext == INSTANCE SequencesExt

CONSTANTS Docs,        \* documents to load
          Cuts,        \* documents whose text is cut off or malformed somewhere
          Configs,     \* configurations the application makes itself
          MaxDepth,    \* kMaxTreeDepth
          MaxNodes,    \* limits_.maxNodes
          MaxVersion,  \* kMaxVersion
          MaxInt,      \* kMaxInt
          VersionKey,  \* "__version"
          BadKeys,     \* keys that are not path-addressable
          NonFinite,   \* a double without a JSON literal
          BadText,     \* a string that is not UTF-8
          NoKey, NoScalar, NoDoc, NoConfig, NoVersion

ASSUME LimitsAssumption == /\ MaxDepth \in Nat /\ MaxNodes \in Nat
                           /\ MaxVersion \in Nat /\ MaxInt \in Nat
                           /\ MaxVersion < MaxInt

VARIABLES pc,       \* where load is, or what the application has done
          input,    \* the events still to come
          builder,  \* the ValueBuilder
          result,   \* what the last load or save returned
          config,   \* the application's configuration, if it has one
          doc,      \* history: the document being loaded, NoDoc if malformed
          unreadable,  \* its text is longer than maxInputBytes, or the stream fails
          saved     \* history: the configuration whose text is being loaded

vars == <<pc, input, builder, result, config, doc, unreadable, saved>>

Object == [type |-> "Object", scalar |-> NoScalar, kids |-> <<>>]
Array == [type |-> "Array", scalar |-> NoScalar, kids |-> <<>>]

\* A ValueBuilder before the first event.
NewBuilder == [stack |-> <<>>, nodes |-> 0, root |-> Object, version |-> NoVersion,
               sawVersionKey |-> FALSE, nextIsCarrier |-> FALSE, error |-> "none"]

\* The events of a document.
RECURSIVE Events(_)
Events(d) ==
  LET Member(k) == (IF d.kind = "object" THEN <<[ev |-> "key", val |-> k.key]>> ELSE <<>>)
                   \o Events(k.value)
      inner == Ext!FlattenSeq([i \in DOMAIN d.kids |-> Member(d.kids[i])])
  IN  IF d.kind \in {"object", "array"}
      THEN <<[ev |-> d.kind, val |-> d.val]>> \o inner \o <<[ev |-> "end", val |-> d.val]>>
      ELSE <<[ev |-> d.kind, val |-> d.val]>>

-------------------------------------------------------------------------------
(* ValueBuilder.  b.error # "none" is a callback that returned false.       *)

SetError(b, code) == [b EXCEPT !.error = code]

RejectNonObjectRoot(b) == SetError(b, "ParseError")

\* Mutant: containers may open one level below the deepest node.
CheckContainerDepth_OffByOne(b) ==
  IF Len(b.stack) > MaxDepth + 1 THEN SetError(b, "ParseError") ELSE b

CheckContainerDepth(b) == IF Len(b.stack) > MaxDepth THEN SetError(b, "ParseError") ELSE b

ConsumeNode(b) == IF b.nodes = MaxNodes THEN SetError(b, "ParseError")
                                        ELSE [b EXCEPT !.nodes = @ + 1]

\* ConfigValue::set replaces the member it finds, push and set else append.
SetMember(kids, key, v) ==
  LET i == Ext!SelectInSeq(kids, LAMBDA kid : kid.key = key)
  IN  IF key # NoKey /\ i # 0 THEN [kids EXCEPT ![i].value = v]
      ELSE Append(kids, [key |-> key, value |-> v])

Attach(b, v) ==
  LET n == ConsumeNode(b)
      top == Len(b.stack)
  IN  IF top > MaxDepth THEN SetError(b, "ParseError")
      ELSE IF n.error # "none" THEN n
      ELSE [n EXCEPT !.stack[top].container.kids =
                        SetMember(@, b.stack[top].pendingKey, v),
                     !.stack[top].pendingKey = NoKey]

\* The next value event after the top-level version key is the carrier's;
\* none but an unsigned integer will do.
OnScalar(b, v) ==
  IF b.stack = <<>> THEN RejectNonObjectRoot(b)
  ELSE IF b.nextIsCarrier THEN SetError(b, "InvalidVersion")
  ELSE Attach(b, v)

Plain(b, val) == OnScalar(b, [type |-> "String", scalar |-> val, kids |-> <<>>])

NumberInteger(b, val) == OnScalar(b, [type |-> "Int", scalar |-> val, kids |-> <<>>])

\* Mutant: the carrier's flag stays set after its value.
NumberUnsigned_FlagKept(b, val) ==
  IF b.stack = <<>> THEN RejectNonObjectRoot(b)
  ELSE IF b.nextIsCarrier
       THEN IF val > MaxVersion THEN SetError(b, "InvalidVersion")
            ELSE [b EXCEPT !.version = val]
  ELSE IF val > MaxInt THEN SetError(b, "ParseError")
  ELSE Attach(b, [type |-> "Int", scalar |-> val, kids |-> <<>>])

NumberUnsigned(b, val) ==
  IF b.stack = <<>> THEN RejectNonObjectRoot(b)
  ELSE IF b.nextIsCarrier
       THEN IF val > MaxVersion THEN SetError(b, "InvalidVersion")
            ELSE [b EXCEPT !.nextIsCarrier = FALSE, !.version = val]
  ELSE IF val > MaxInt THEN SetError(b, "ParseError")
  ELSE Attach(b, [type |-> "Int", scalar |-> val, kids |-> <<>>])

NumberFloat(b, val) == OnScalar(b, [type |-> "Double", scalar |-> val, kids |-> <<>>])

\* An integral literal too long for 64 bits arrives at number_float.
NumberOverflow(b, val) ==
  IF b.nextIsCarrier THEN SetError(b, "InvalidVersion") ELSE SetError(b, "ParseError")

\* start_object has no check for the root: the root is to be an object.
StartObject(b, val) ==
  LET c == CheckContainerDepth(b)
  IN  IF b.nextIsCarrier THEN SetError(b, "InvalidVersion")
      ELSE IF c.error # "none" THEN c
      ELSE [c EXCEPT !.stack = Append(@, [container |-> Object, pendingKey |-> NoKey])]

StartArray(b, val) ==
  LET c == CheckContainerDepth(b)
  IN  IF b.stack = <<>> THEN RejectNonObjectRoot(b)
      ELSE IF b.nextIsCarrier THEN SetError(b, "InvalidVersion")
      ELSE IF c.error # "none" THEN c
      ELSE [c EXCEPT !.stack = Append(@, [container |-> Array, pendingKey |-> NoKey])]

Key(b, val) ==
  LET top == b.stack[Len(b.stack)]
  IN  IF val \in BadKeys THEN SetError(b, "ParseError")
      ELSE IF Len(b.stack) = 1 /\ val = VersionKey
           THEN IF b.sawVersionKey THEN SetError(b, "ParseError")
                ELSE [b EXCEPT !.sawVersionKey = TRUE, !.nextIsCarrier = TRUE]
      ELSE IF \E i \in DOMAIN top.container.kids : top.container.kids[i].key = val
           THEN SetError(b, "ParseError")
      ELSE [b EXCEPT !.stack[Len(b.stack)].pendingKey = val]

\* popFrame, at end_object and end_array.
PopFrame(b, val) ==
  LET done == b.stack[Len(b.stack)].container
      rest == [b EXCEPT !.stack = Ext!Front(@)]
      counted == ConsumeNode(rest)
  IN  IF rest.stack # <<>> THEN Attach(rest, done)
      ELSE IF counted.error # "none" THEN counted
      ELSE [counted EXCEPT !.root = done]

ParseError(b, val) == SetError(b, "ParseError")

-------------------------------------------------------------------------------
(* load.                                                                   *)

\* load is called on the text of a document; it may stop making sense after
\* any number of its events.
Begin(d, events, l) ==
  /\ pc' = "read"
  /\ input' = events /\ unreadable' = l
  /\ doc' = d
  /\ config' = NoConfig
  /\ UNCHANGED <<builder, result>>

LoadDoc(d) ==
  /\ pc = "idle"
  /\ \E l \in BOOLEAN : Begin(d, Events(d), l)
  /\ saved' = NoConfig

LoadCut(d) ==
  /\ pc = "idle"
  /\ \E n \in 0 .. Len(Events(d)) :
       Begin(NoDoc, Append(SubSeq(Events(d), 1, n), [ev |-> "error", val |-> NoScalar]), FALSE)
  /\ saved' = NoConfig

\* load returns without a configuration.
Fail(code) ==
  /\ pc' = "loaded"
  /\ result' = code
  /\ input' = <<>> /\ builder' = NewBuilder
  /\ UNCHANGED <<config, doc, unreadable, saved>>

\* readBounded.
ReadBounded ==
  /\ pc = "read" /\ ~unreadable
  /\ pc' = "parse"
  /\ builder' = NewBuilder
  /\ UNCHANGED <<input, result, config, doc, unreadable, saved>>

ReadFails == pc = "read" /\ unreadable /\ Fail("ParseError")

\* The value the next event carries.
EventValue == Head(input).val

\* The parser calls back for the next event, which makes the builder b, and
\* stops if that returns false.
On(ev, b) ==
  /\ pc = "parse" /\ input # <<>> /\ Head(input).ev = ev
  /\ \/ b.error # "none" /\ Fail(b.error)
     \/ /\ b.error = "none"
        /\ builder' = b
        /\ input' = Tail(input)
        /\ UNCHANGED <<pc, result, config, doc, unreadable, saved>>

\* The whole document is parsed.
Parsed ==
  /\ pc = "parse" /\ input = <<>>
  /\ \/ builder.version = NoVersion /\ Fail("InvalidVersion")
     \/ /\ builder.version # NoVersion
        /\ pc' = "model"
        /\ UNCHANGED <<input, builder, result, config, doc, unreadable, saved>>

\* validateTree, as fromValue calls it.
RECURSIVE ValidateTree(_, _)
ValidateTree(v, depth) ==
  /\ depth <= MaxDepth
  /\ \A i \in DOMAIN v.kids : /\ v.kids[i].key \notin BadKeys
                              /\ ValidateTree(v.kids[i].value, depth + 1)

\* ConfigModel::fromValue of the root, and load returns.
FromValue ==
  /\ pc = "model"
  /\ \/ ~ValidateTree(builder.root, 0) /\ Fail("ParseError")
     \/ /\ ValidateTree(builder.root, 0)
        /\ pc' = "loaded" /\ result' = "ok"
        /\ config' = [version |-> builder.version, model |-> builder.root]
        /\ builder' = NewBuilder
        /\ UNCHANGED <<input, doc, unreadable, saved>>

\* std::bad_alloc propagates out of load.
BadAlloc == pc \in {"read", "parse", "model"} /\ Fail("bad_alloc")

-------------------------------------------------------------------------------
(* save.                                                                   *)

\* The application has a configuration of its own making.
Make(c) ==
  /\ pc = "idle"
  /\ pc' = "made"
  /\ config' = c
  /\ UNCHANGED <<input, builder, result, doc, unreadable, saved>>

\* What toJson, or the dump of its result, refuses.
RECURSIVE Representable(_)
Representable(v) == /\ v.scalar \notin {NonFinite, BadText}
                    /\ \A i \in DOMAIN v.kids : Representable(v.kids[i].value)

RECURSIVE ToJson(_)
ToJson(v) ==
  [kind |-> CASE v.type = "Object" -> "object"
              [] v.type = "Array" -> "array"
              [] v.type = "Double" -> "float"
              [] v.type = "Int" -> IF v.scalar < 0 THEN "negative" ELSE "unsigned"
              [] OTHER -> "plain",
   val |-> v.scalar,
   kids |-> [i \in DOMAIN v.kids |-> [key |-> v.kids[i].key, value |-> ToJson(v.kids[i].value)]]]

\* The carrier comes first; members keep their order.
Document(c) ==
  LET body == ToJson(c.model)
      carrier == [key |-> VersionKey,
                  value |-> [kind |-> "unsigned", val |-> c.version, kids |-> <<>>]]
  IN  [body EXCEPT !.kids = <<carrier>> \o @]

Reserved(c) == \E i \in DOMAIN c.model.kids : c.model.kids[i].key = VersionKey

\* Mutant: a top-level member named like the carrier is written too.
Save_NoGuard ==
  /\ pc \in {"loaded", "made"} /\ config # NoConfig
  /\ pc' = "saved"
  /\ \/ /\ result' \in {"SerializationError", "bad_alloc"}
        /\ UNCHANGED <<doc, saved>>
     \/ /\ Representable(config.model)
        /\ result' = "ok"
        /\ doc' = Document(config) /\ saved' = config
  /\ UNCHANGED <<input, builder, config, unreadable>>

\* save fails on a model it cannot represent, and when the stream or memory
\* does; a failed save may leave any part of the text.
Save ==
  /\ pc \in {"loaded", "made"} /\ config # NoConfig
  /\ pc' = "saved"
  /\ \/ /\ result' \in {"SerializationError", "bad_alloc"}
        /\ UNCHANGED <<doc, saved>>
     \/ /\ ~Reserved(config) /\ Representable(config.model)
        /\ result' = "ok"
        /\ doc' = Document(config) /\ saved' = config
  /\ UNCHANGED <<input, builder, config, unreadable>>

\* The text that was saved is loaded again.
LoadSaved ==
  /\ pc = "saved" /\ result = "ok"
  /\ \E l \in BOOLEAN : Begin(doc, Events(doc), l)
  /\ UNCHANGED saved

-------------------------------------------------------------------------------
Init ==
  /\ pc = "idle" /\ input = <<>> /\ builder = NewBuilder
  /\ result = "ok" /\ config = NoConfig
  /\ doc = NoDoc /\ unreadable = FALSE /\ saved = NoConfig

\* The application drops what it has; a JsonInterface keeps nothing from one
\* call to the next.
Drop ==
  /\ pc \in {"loaded", "saved"}
  /\ pc' = "idle" /\ result' = "ok" /\ config' = NoConfig
  /\ doc' = NoDoc /\ unreadable' = FALSE /\ saved' = NoConfig
  /\ UNCHANGED <<input, builder>>

Next ==
  \/ \E d \in Docs : LoadDoc(d)
  \/ \E d \in Cuts : LoadCut(d)
  \/ ReadBounded \/ ReadFails
  \/ On("plain", Plain(builder, EventValue))
  \/ On("negative", NumberInteger(builder, EventValue))
  \/ On("unsigned", NumberUnsigned(builder, EventValue))
  \/ On("float", NumberFloat(builder, EventValue))
  \/ On("overflow", NumberOverflow(builder, EventValue))
  \/ On("object", StartObject(builder, EventValue))
  \/ On("array", StartArray(builder, EventValue))
  \/ On("key", Key(builder, EventValue))
  \/ On("end", PopFrame(builder, EventValue))
  \/ On("error", ParseError(builder, EventValue))
  \/ Parsed \/ FromValue \/ BadAlloc
  \/ \E c \in Configs : Make(c)
  \/ Save \/ LoadSaved \/ Drop

Spec == Init /\ [][Next]_vars

-------------------------------------------------------------------------------
(* Properties, and what they compare with: the document as a whole.        *)

\* The number of nodes of a document or a value.
RECURSIVE Count(_)
Count(d) == Ext!FoldLeft(LAMBDA n, kid : n + Count(kid.value), 1, d.kids)

Carriers(d) == SelectSeq(d.kids, LAMBDA kid : kid.key = VersionKey)
Body(d) == [d EXCEPT !.kids = SelectSeq(@, LAMBDA kid : kid.key # VersionKey)]

\* At this depth the document has a value.
RECURSIVE Meaningful(_, _)
Meaningful(d, depth) ==
  /\ depth <= MaxDepth
  /\ d.kind # "overflow"
  /\ d.kind = "unsigned" => d.val <= MaxInt
  /\ \A i \in DOMAIN d.kids : /\ d.kids[i].key \notin BadKeys
                              /\ Meaningful(d.kids[i].value, depth + 1)
  /\ d.kind = "object" =>
       \A i, j \in DOMAIN d.kids : d.kids[i].key = d.kids[j].key => i = j

RECURSIVE ValueOf(_)
ValueOf(d) ==
  [type |-> CASE d.kind = "object" -> "Object"
              [] d.kind = "array" -> "Array"
              [] d.kind = "float" -> "Double"
              [] d.kind \in {"negative", "unsigned"} -> "Int"
              [] d.kind = "plain" -> "String",
   scalar |-> d.val,
   kids |-> [i \in DOMAIN d.kids |-> [key |-> d.kids[i].key, value |-> ValueOf(d.kids[i].value)]]]

GoodCarrier(d) ==
  /\ Len(Carriers(d)) = 1
  /\ Carriers(d)[1].value.kind = "unsigned"
  /\ Carriers(d)[1].value.val <= MaxVersion

Acceptable(d) ==
  /\ d.kind = "object"
  /\ GoodCarrier(d)
  /\ Meaningful(Body(d), 0)
  /\ Count(Body(d)) <= MaxNodes

\* load accepts a document exactly when, as a whole, it is one: an object with
\* one well-formed carrier anywhere among its members, no key twice in an
\* object, no number out of range, within the depth and the node limit, the
\* carrier not counted.  It then has the document's value without the carrier
\* and its version, and blames the version only when the carrier is at fault.
LoadIsExact ==
  pc = "loaded" /\ result # "bad_alloc" =>
    /\ result = "ok" <=> (doc # NoDoc /\ ~unreadable /\ Acceptable(doc))
    /\ result = "ok" => config = [version |-> Carriers(doc)[1].value.val,
                                  model |-> ValueOf(Body(doc))]
    /\ (result = "InvalidVersion" /\ doc # NoDoc) => ~GoodCarrier(doc)

\* While a document is parsed, whatever it goes on to contain, no more nodes
\* are held than the node limit and the open containers, of which there is at
\* most one per depth; every node that is attached has been counted.
BuilderIsBounded ==
  LET held == Ext!FoldLeft(LAMBDA n, frame : n + Count(frame.container), 0, builder.stack)
  IN  pc = "parse" =>
        /\ Len(builder.stack) <= MaxDepth + 1
        /\ held <= MaxNodes + Len(builder.stack)
        /\ builder.stack # <<>> => builder.nodes = held - Len(builder.stack)

\* fromValue never refuses what the builder built: the two depth checks and
\* the two key checks agree (the branch the code calls unreachable).
FromValueAccepts == pc = "model" => ValidateTree(builder.root, 0)

\* The three places that enforce the depth and node limits agree: the builder
\* stays within them at every event, and fromValue finds nothing beyond them.
LimitsAgree == BuilderIsBounded /\ FromValueAccepts

\* What save writes for a configuration within the node limit, load reads back
\* as the same configuration, if the text is not too long: order, keys, the
\* place of the carrier, and members that look like it deeper down.
RoundTrip ==
  (pc = "loaded" /\ saved # NoConfig /\ ~unreadable /\ result # "bad_alloc"
     /\ Count(saved.model) <= MaxNodes) => result = "ok" /\ config = saved
===============================================================================
