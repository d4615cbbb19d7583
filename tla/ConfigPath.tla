------------------------------ MODULE ConfigPath ------------------------------
(***************************************************************************)
(* ConfigPath::parse of config_path.cpp: one pass over the bytes of a path *)
(* text, a key and then its indices, again after every dot.  A round of    *)
(* one of its loops is a step.  A byte is a string of length one; the      *)
(* messages of the failures are left out.                                  *)
(***************************************************************************)
EXTENDS Integers, Sequences, SequencesExt

CONSTANT MaxIndex   \* the largest std::size_t

DigitValue == [c \in {"0", "1", "2", "3", "4", "5", "6", "7", "8", "9"} |->
                 CHOOSE n \in 0..9 : ToString(n) = c]

IsDigit(c) == c \in DOMAIN DigitValue

IsReserved(c) == c \in {".", "[", "]"}

KeySegment(bytes) == [kind |-> "Key", key |-> bytes]

IndexSegment(n) == [kind |-> "Index", index |-> n]

\* What parse works on: where it is in the text, the segments so far, and what
\* comes next, a key, the indices behind it, or the end with a code.
State(next, pos, segs) == [next |-> next, pos |-> pos, segments |-> segs]

InvalidPath == State("InvalidPath", 0, <<>>)

Parsed(segs) == State("Ok", 0, segs)

\* The end of the run of key bytes, or of digits, that starts at pos.
KeyEnd(text, pos) ==
  Min({p \in pos..Len(text) : IsReserved(text[p])} \cup {Len(text) + 1})

DigitsEnd(text, pos) ==
  Min({p \in pos..Len(text) : ~IsDigit(text[p])} \cup {Len(text) + 1})

Decimal(digits) == FoldLeft(LAMBDA n, c : 10 * n + DigitValue[c], 0, digits)

\* Mutant: an index that does not fit is taken modulo the width.
FromChars_Wraps(digits) == [ok |-> TRUE, value |-> Decimal(digits) % (MaxIndex + 1)]

\* std::from_chars on digits only: it fails exactly when the value is too large.
FromChars(digits) == [ok |-> Decimal(digits) <= MaxIndex, value |-> Decimal(digits)]

\* key := char+
ParseKey(text, s) ==
  LET end == KeyEnd(text, s.pos)
  IN  IF end = s.pos THEN InvalidPath
      ELSE State("index", end, Append(s.segments, KeySegment(SubSeq(text, s.pos, end - 1))))

\* One round of ( "[" digit+ "]" )*, at an opening bracket.
ParseIndex(text, s) ==
  LET last   == DigitsEnd(text, s.pos + 1)
      number == FromChars(SubSeq(text, s.pos + 1, last - 1))
  IN  IF last = s.pos + 1 \/ last > Len(text) \/ text[last] # "]" \/ ~number.ok
      THEN InvalidPath
      ELSE State("index", last + 1, Append(s.segments, IndexSegment(number.value)))

\* Behind the indices: the end, a dot and another key, or something else.
ParseNext(text, s) ==
  IF s.pos > Len(text) THEN Parsed(s.segments)
  ELSE IF text[s.pos] = "." THEN State("key", s.pos + 1, s.segments)
  ELSE InvalidPath

StartParse(text) == IF text = <<>> THEN InvalidPath ELSE State("key", 1, <<>>)

ParseStep(text, s) ==
  IF s.next = "key" THEN ParseKey(text, s)
  ELSE IF s.pos <= Len(text) /\ text[s.pos] = "[" THEN ParseIndex(text, s)
  ELSE ParseNext(text, s)

ParseEnded(s) == s.next \in {"Ok", "InvalidPath"}
-------------------------------------------------------------------------------
(***************************************************************************)
(* The grammar of config_path.hpp, read off the text as a whole.           *)
(***************************************************************************)
\* The text between positions i and j is a bracketed decimal number.
Bracketed(text, i, j) ==
  text[i] = "[" /\ text[j] = "]" /\ i + 1 < j /\ \A k \in i+1..j-1 : IsDigit(text[k])

KeyByte(text, i) == i \in DOMAIN text /\ ~IsReserved(text[i])

InBrackets(text, i) == \E h, j \in DOMAIN text : h < i /\ i < j /\ Bracketed(text, h, j)

\* A dot stands between two segments; an opening bracket follows a key or an
\* index and is closed after digits; behind an index comes nothing but a dot,
\* another index or the end.
WellFormed(text) ==
  /\ KeyByte(text, 1)
  /\ \A i \in DOMAIN text :
       /\ text[i] = "." => KeyByte(text, i + 1) /\ text[i-1] # "."
       /\ text[i] = "[" => /\ text[i-1] # "."
                           /\ \E j \in DOMAIN text : Bracketed(text, i, j)
       /\ text[i] = "]" => /\ \E h \in DOMAIN text : Bracketed(text, h, i)
                           /\ ~KeyByte(text, i + 1)

\* Where the segments of a well-formed text start, where the run of key bytes
\* or digits of one ends, and what it says.
Starts(text) ==
  {i \in DOMAIN text :
     \/ text[i] = "["
     \/ KeyByte(text, i) /\ ~InBrackets(text, i) /\ ~KeyByte(text, i - 1)}

EndOf(text, i) ==
  CHOOSE j \in i..Len(text) : /\ j = Len(text) \/ IsReserved(text[j + 1])
                              /\ \A k \in i+1..j : ~IsReserved(text[k])

Segment(text, i) ==
  IF text[i] = "[" THEN IndexSegment(Decimal(SubSeq(text, i + 1, EndOf(text, i))))
                   ELSE KeySegment(SubSeq(text, i, EndOf(text, i)))

\* How many segments there are up to a start: the place of its own.
SegmentPlace(text, i) == Cardinality({h \in Starts(text) : h <= i})

Reading(text) ==
  [n \in 1..Cardinality(Starts(text)) |->
     Segment(text, CHOOSE i \in Starts(text) : SegmentPlace(text, i) = n)]

Grammar(text) ==
  IF /\ WellFormed(text)
     /\ \A n \in DOMAIN Reading(text) :
          Reading(text)[n].kind = "Index" => Reading(text)[n].index <= MaxIndex
  THEN Parsed(Reading(text)) ELSE InvalidPath
===============================================================================
