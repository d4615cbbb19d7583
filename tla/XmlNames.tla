------------------------------- MODULE XmlNames -------------------------------
(***************************************************************************)
(* The byte-level checks of xml_interface.cpp: the strict UTF-8 decoder,   *)
(* the Name production without the colon, and the Char production that     *)
(* strings must satisfy.  XmlInterface uses them as predicates on names    *)
(* and texts; here they run on bytes.                                      *)
(***************************************************************************)
EXTENDS Integers, Sequences

\* The length a lead byte announces and the bits of it that belong to the
\* code point; 0 for a continuation byte and for the bytes from 0xF8 on.
LeadLength(b) == CASE b < 128             -> 1
                   [] b \in 192..223      -> 2
                   [] b \in 224..239      -> 3
                   [] b \in 240..247      -> 4
                   [] OTHER               -> 0

LeadBits(b) == b % <<128, 32, 16, 8>>[LeadLength(b)]

IsContinuation(b) == b \in 128..191

\* Mutant: any value is accepted for a sequence of any length.
MinForLength_None(length) == 0

\* kMinForLength: what is below has a shorter encoding.
MinForLength(length) == <<0, 128, 2048, 65536>>[length]

Malformed == [ok |-> FALSE]

\* The bits of the lead byte, and six more from every byte behind it.
CodePoint(text, i, length) ==
  LET Bits(k) == text[i + k] % 64
      lead    == LeadBits(text[i])
  IN  CASE length = 1 -> lead
        [] length = 2 -> 64 * lead + Bits(1)
        [] length = 3 -> 4096 * lead + 64 * Bits(1) + Bits(2)
        [] OTHER      -> 262144 * lead + 4096 * Bits(1) + 64 * Bits(2) + Bits(3)

\* decodeUtf8 at position i: the code point and the position behind it.
DecodeUtf8(text, i) ==
  LET length == LeadLength(text[i])
      value  == CodePoint(text, i, length)
  IN  IF length = 0 THEN Malformed
      ELSE IF i + length - 1 > Len(text) THEN Malformed
      ELSE IF \E k \in i+1..i+length-1 : ~IsContinuation(text[k]) THEN Malformed
      ELSE IF \/ value < MinForLength(length)
              \/ value \in 55296..57343
              \/ value > 1114111 THEN Malformed
      ELSE [ok |-> TRUE, value |-> value, next |-> i + length]

\* The ranges of NameStartChar above ASCII.
NameStartRanges ==
  {192..214, 216..246, 248..767, 880..893, 895..8191, 8204..8205, 8304..8591,
   11264..12271, 12289..55295, 63744..64975, 65008..65533, 65536..983039}

IsNameStartChar(c) == c = 95 \/ c \in 65..90 \/ c \in 97..122
                      \/ \E R \in NameStartRanges : c \in R

IsNameChar(c) == IsNameStartChar(c) \/ c \in {45, 46, 183} \/ c \in 48..57
                 \/ c \in 768..879 \/ c \in 8255..8256

\* Of the C0 controls only tab and newline; not the two noncharacters.
IsXmlChar(c) == (c < 32 => c \in {9, 10}) /\ c \notin {65534, 65535}

\* What isValidElementName asks of the character at position i, and what
\* isXmlRepresentable asks of any.
Accepts(kind, i, c) ==
  CASE kind = "name" -> IF i = 1 THEN IsNameStartChar(c) ELSE IsNameChar(c)
    [] kind = "text" -> IsXmlChar(c)

\* Either function: where it is in the text, and its answer when it has one.
StartScan(kind, text) ==
  [pos |-> 1, answer |-> IF kind = "name" /\ text = <<>> THEN "no" ELSE "open"]

\* One round of its loop.
ScanStep(kind, text, w) ==
  LET c == DecodeUtf8(text, w.pos)
  IN  IF w.pos > Len(text) THEN [w EXCEPT !.answer = "yes"]
      ELSE IF c.ok /\ Accepts(kind, w.pos, c.value) THEN [w EXCEPT !.pos = c.next]
      ELSE [w EXCEPT !.answer = "no"]
-------------------------------------------------------------------------------
(***************************************************************************)
(* The reference: the encoding of a code point, and the standard's table   *)
(* of well-formed byte sequences.                                          *)
(***************************************************************************)
Continuation(c, unit) == 128 + ((c \div unit) % 64)

Encode(c) ==
  IF c < 128 THEN <<c>>
  ELSE IF c < 2048 THEN <<192 + c \div 64, Continuation(c, 1)>>
  ELSE IF c < 65536 THEN <<224 + c \div 4096, Continuation(c, 64), Continuation(c, 1)>>
  ELSE <<240 + c \div 262144, Continuation(c, 4096), Continuation(c, 64), Continuation(c, 1)>>

\* A row of the table: the lead bytes, and what the second byte may be.
TableRow(bytes, length, lead, second) ==
  /\ Len(bytes) = length /\ bytes[1] \in lead
  /\ length > 1 => bytes[2] \in second
  /\ \A k \in 3..length : IsContinuation(bytes[k])

WellFormedBytes(bytes) ==
  \/ TableRow(bytes, 1, 0..127, {})
  \/ TableRow(bytes, 2, 194..223, 128..191)
  \/ TableRow(bytes, 3, {224}, 160..191)
  \/ TableRow(bytes, 3, 225..236, 128..191)
  \/ TableRow(bytes, 3, {237}, 128..159)
  \/ TableRow(bytes, 3, 238..239, 128..191)
  \/ TableRow(bytes, 4, {240}, 144..191)
  \/ TableRow(bytes, 4, 241..243, 128..191)
  \/ TableRow(bytes, 4, {244}, 128..143)
===============================================================================
