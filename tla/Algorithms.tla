------------------------------ MODULE Algorithms ------------------------------
(***************************************************************************)
(* The library's pure algorithms and its one value builder, called on      *)
(* every input of the instance and held against what their comments        *)
(* promise.  A behaviour is one call: a loop takes a step per round, what  *)
(* has no loop is one step.                                                *)
(***************************************************************************)
EXTENDS ConfigPath, ScalarConversion, XmlNames, ObjectMembers, FillMissing,
        CheckpointOptions

CONSTANTS PathBytes, MaxPath,   \* the bytes of path texts, and how many
          XmlBytes, MaxXml,     \* the bytes of names and texts, and how many
          NarrowBits,           \* the width of the narrow integer types
          FileSystems,          \* what exists when cpCreate is called
          CanonicalPaths, DirectoryPaths,  \* the paths it is called with
          NoResult

ASSUME WidthAssumption == NarrowBits \in 1..IntBits

ASSUME BytesAssumption == XmlBytes \subseteq 0..255 /\ MaxPath \in Nat /\ MaxXml \in Nat

VARIABLES call,   \* the operation and its arguments
          out     \* what it works on, and in the end what it returns

vars == <<call, out>>

IntegerTypes == {IntegerType(b, s) : b \in {NarrowBits, IntBits}, s \in BOOLEAN}

TargetTypes == IntegerTypes \cup {FloatType(F) : F \in DOMAIN Formats}
               \cup {BoolType, StringType}

\* The integers of a type.
IntegersOf(T) == {Unit * n : n \in Bounds(T.bits, T.signed)[1]..Bounds(T.bits, T.signed)[2]}

Ints == IntegersOf(IntegerType(IntBits, TRUE))

\* What a stored scalar can be, by its type, and what of() can be called with.
Stored == [Int |-> Ints, Double |-> Values("double"), Bool |-> BOOLEAN,
           String |-> {"text"}, Null |-> {"null"}]

Arguments(T) == CASE T.kind = "integer" -> IntegersOf(T)
                  [] T.kind = "float"   -> Values(T.format)
                  [] T.kind = "bool"    -> BOOLEAN
                  [] T.kind = "string"  -> {"text", "null"}

Texts(bytes, max) == UNION {[1..n -> bytes] : n \in 0..max}

\* The calls.
CallParse == \E t \in Texts(PathBytes, MaxPath) :
               call = [op |-> "parse", text |-> t] /\ out = StartParse(t)

CallXml == \E t \in Texts(XmlBytes, MaxXml), kind \in {"name", "text"} :
             call = [op |-> "xml", kind |-> kind, text |-> t] /\ out = StartScan(kind, t)

CallAs == /\ \E T \in TargetTypes, type \in DOMAIN Stored :
               \E v \in Stored[type] :
                 call = [op |-> "as", target |-> T, scalar |-> Scalar(type, v)]
          /\ out = NoResult

CallOf == /\ \E T \in TargetTypes \ {FloatType("long double")}, set \in BOOLEAN :
               \E v \in Arguments(T) :
                 call = [op |-> "of", source |-> T, value |-> v, set |-> set]
          /\ out = NoResult

CallRepair == \E m, d \in Trees :
                call = [op |-> "repair", model |-> m, defaults |-> d] /\ out = StartWalk(m, d)

CallCreate == /\ \E fs \in FileSystems, c \in CanonicalPaths, d \in DirectoryPaths :
                   call = [op |-> "create", fs |-> fs, canonical |-> c, directory |-> d]
              /\ out = NoResult

CallBuild == call = [op |-> "build"] /\ out = EmptyObject

Init == CallParse \/ CallXml \/ CallAs \/ CallOf \/ CallRepair \/ CallCreate \/ CallBuild

ParsePath == /\ call.op = "parse" /\ ~ParseEnded(out)
             /\ out' = ParseStep(call.text, out)
             /\ UNCHANGED call

CheckXml == /\ call.op = "xml" /\ out.answer = "open"
            /\ out' = ScanStep(call.kind, call.text, out)
            /\ UNCHANGED call

As == /\ call.op = "as"
      /\ out' = ConvertScalar(call.target, call.scalar)
      /\ UNCHANGED call

MakeScalar == /\ call.op = "of"
              /\ out' = IF call.set THEN SetScalar(call.source, call.value)
                                    ELSE Of(call.source, call.value)
              /\ UNCHANGED call

Repair == /\ call.op = "repair"
          /\ \E p \in out.todo : out' = VisitKey(out, call.defaults, p)
          /\ UNCHANGED call

Create == /\ call.op = "create"
          /\ out' = ValidateOptions(call.fs, call.canonical, call.directory)
          /\ UNCHANGED call

SetKey(k, v, failure) == /\ call.op = "build"
                         /\ out' = SetMember(out, k, v, failure)
                         /\ UNCHANGED call

\* The call has returned.
Returned == CASE call.op = "parse"  -> ParseEnded(out)
              [] call.op = "xml"    -> out.answer # "open"
              [] call.op = "repair" -> out.todo = {}
              [] call.op = "build"  -> FALSE
              [] OTHER              -> out # NoResult

Done == Returned /\ UNCHANGED vars

Next == \/ ParsePath \/ CheckXml \/ As \/ MakeScalar \/ Repair \/ Create \/ Done
        \/ \E k \in Keys, v \in Leaves, f \in Failures : SetKey(k, v, f)

Spec == Init /\ [][Next]_vars
-------------------------------------------------------------------------------
\* ConfigPath::parse accepts exactly what the grammar of config_path.hpp
\* produces, reads the segments it means, and refuses an index beyond
\* std::size_t instead of wrapping it.
ParseIsGrammar == call.op = "parse" /\ Returned => out = Grammar(call.text)

\* as<T>() answers exactly when the stored value is a value of T, with that
\* value, and no cast with undefined behaviour is reached, also at the limits of
\* Int where the conversion to floating point rounds across them.
AsIsExact ==
  call.op = "as" /\ Returned =>
    IF SameValue(call.target, call.scalar) = {} THEN out = InvalidType
    ELSE \E v \in SameValue(call.target, call.scalar) : out = Ok(v)

\* What ConfigValue::of accepts, as<T>() of the same type reads back; it
\* refuses just the unsigned integers that no Int can hold and null C strings,
\* with an exception from of() and InvalidType from ConfigModel::set.
OfReadsBack ==
  call.op = "of" /\ Returned =>
    IF \/ call.source.kind = "integer" /\ call.value \notin Ints
       \/ call.source.kind = "string" /\ call.value = "null"
    THEN out.code = IF call.set THEN "InvalidType" ELSE "throws"
    ELSE out.code = "Ok" /\ ConvertScalar(call.source, out.value) = Ok(call.value)

\* A scalar goes into a value and out of it unchanged or not at all.
ScalarsAreExact == AsIsExact /\ OfReadsBack

\* decodeUtf8 accepts exactly the byte sequences of the Unicode standard's
\* table (no overlong form, no surrogate, nothing above U+10FFFF, nothing
\* truncated), and what it returns encodes to the bytes it consumed.
DecodeIsStrict ==
  call.op = "xml" /\ out.pos <= Len(call.text) =>
    LET c == DecodeUtf8(call.text, out.pos)
    IN  /\ c.ok <=> \E n \in out.pos..Len(call.text) :
                      WellFormedBytes(SubSeq(call.text, out.pos, n))
        /\ c.ok => Encode(c.value) = SubSeq(call.text, out.pos, c.next - 1)

\* The pieces of a text that is cut behind the positions of a set: what is
\* between the start or a cut and the next cut.
Pieces(cuts) ==
  {p \in (cuts \cup {0}) \X cuts : p[1] < p[2] /\ \A c \in cuts : c <= p[1] \/ p[2] <= c}

Piece(text, p) == SubSeq(text, p[1] + 1, p[2])

\* isValidElementName and isXmlRepresentable judge the whole text: it falls
\* into well-formed sequences, the first one of which may start a Name and all
\* of which belong to it, respectively are characters XML keeps.
NameAndTextAreExact ==
  call.op = "xml" /\ Returned =>
    (out.answer = "yes" <=>
       \E cuts \in SUBSET DOMAIN call.text :
         /\ call.text = <<>> \/ Len(call.text) \in cuts
         /\ call.kind = "name" => cuts # {}
         /\ \A p \in Pieces(cuts) :
              /\ WellFormedBytes(Piece(call.text, p))
              /\ LET c == DecodeUtf8(Piece(call.text, p), 1).value
                 IN  CASE call.kind = "text"            -> IsXmlChar(c)
                       [] call.kind = "name" /\ p[1] = 0 -> IsNameStartChar(c)
                       [] OTHER                          -> IsNameChar(c))

\* The decoder and both checks that rest on it.
XmlTextIsExact == DecodeIsStrict /\ NameAndTextAreExact

\* What the walk of fillMissing leaves is the closed form: each missing default
\* once, with everything below it, nothing else touched at any depth, and the
\* answer that drives the commit says whether anything was added.  Repairing
\* the result again adds nothing.
RepairIsFill ==
  call.op = "repair" /\ Returned =>
    /\ out.model = Fill(call.model, call.defaults)
    /\ out.added <=> Missing(call.model, call.defaults) # {}
    /\ Missing(out.model, call.defaults) = {}

\* The canonical file of a call would be kept in the checkpoint directory.
KeptInside == Inside(call.fs, call.canonical, call.directory)

\* cpCreate refuses options only when the canonical file is in the checkpoint
\* directory or a path is empty, and always does when the directory exists and
\* the canonical path is absolute or begins with a name that exists, through
\* whatever links and dots the two paths lead.
CreateIsExact ==
  call.op = "create" /\ Returned =>
    /\ out = StorageError => KeptInside \/ IsEmpty(call.canonical) \/ IsEmpty(call.directory)
    /\ /\ KeptInside
       /\ Existing(call.fs, call.directory) = Len(call.directory.names)
       /\ call.canonical.abs \/ Existing(call.fs, call.canonical) > 0
       => out = StorageError

\* docs/DetailedDesign.md of cpCreate: it "rejects a canonical file inside the
\* checkpoint directory".
CanonicalIsOutside == call.op = "create" /\ Returned /\ out # StorageError => ~KeptInside

\* ConfigValue::set keeps object_index_ and object_ in step: whatever was set
\* and replaced, and wherever memory ran out, the index knows exactly the keys
\* that have a member, at its position, and no key has two.
IndexIsExact ==
  call.op = "build" =>
    /\ DOMAIN out.index = {out.object[i].key : i \in DOMAIN out.object}
    /\ \A i \in DOMAIN out.object : out.index[out.object[i].key] = i
===============================================================================
