------------------------------ MODULE TextProofs ------------------------------
(***************************************************************************)
(* The checks of names and texts on bytes, for texts of every length: the  *)
(* decoder against the standard's table, and the two loops against the     *)
(* text as a whole.                                                        *)
(***************************************************************************)
EXTENDS AlgorithmsProofs, FiniteOrders

Bytes == 0..255

\* The table, length by length.
Fits1(a) == a \in 0..127
Fits2(a, b) == a \in 194..223 /\ b \in 128..191
Fits3(a, b, c) == /\ a \in 224..239 /\ b \in 128..191 /\ c \in 128..191
                  /\ a = 224 => b >= 160
                  /\ a = 237 => b <= 159
Fits4(a, b, c, d) == /\ a \in 240..244 /\ b \in 128..191 /\ c \in 128..191 /\ d \in 128..191
                     /\ a = 240 => b >= 144
                     /\ a = 244 => b <= 143

LEMMA RowByLength ==
  ASSUME NEW s, NEW lead, NEW second
  PROVE  /\ TableRow(s, 1, lead, second) <=> Len(s) = 1 /\ s[1] \in lead
         /\ TableRow(s, 2, lead, second) <=> Len(s) = 2 /\ s[1] \in lead /\ s[2] \in second
         /\ TableRow(s, 3, lead, second) <=>
              Len(s) = 3 /\ s[1] \in lead /\ s[2] \in second /\ IsContinuation(s[3])
         /\ TableRow(s, 4, lead, second) <=>
              /\ Len(s) = 4 /\ s[1] \in lead /\ s[2] \in second
              /\ IsContinuation(s[3]) /\ IsContinuation(s[4])
<1>1. 3..1 = {} /\ 3..2 = {} /\ 3..3 = {3} /\ 3..4 = {3, 4}
  OBVIOUS
<1>2. ~(1 > 1) /\ 2 > 1 /\ 3 > 1 /\ 4 > 1
  OBVIOUS
<1>3. TableRow(s, 1, lead, second) <=> Len(s) = 1 /\ s[1] \in lead
  BY <1>1, <1>2, Zenon DEF TableRow
<1>4. TableRow(s, 2, lead, second) <=> Len(s) = 2 /\ s[1] \in lead /\ s[2] \in second
  BY <1>1, <1>2, Zenon DEF TableRow
<1>5. TableRow(s, 3, lead, second) <=>
        Len(s) = 3 /\ s[1] \in lead /\ s[2] \in second /\ IsContinuation(s[3])
  BY <1>1, <1>2, Zenon DEF TableRow
<1>6. TableRow(s, 4, lead, second) <=>
        /\ Len(s) = 4 /\ s[1] \in lead /\ s[2] \in second
        /\ IsContinuation(s[3]) /\ IsContinuation(s[4])
  BY <1>1, <1>2, Zenon DEF TableRow
<1> QED
  BY <1>3, <1>4, <1>5, <1>6

LEMMA TableByLength ==
  ASSUME NEW s, \A k \in 1..Len(s) : s[k] \in Int
  PROVE  WellFormedBytes(s) <=> \/ Len(s) = 1 /\ Fits1(s[1])
                                \/ Len(s) = 2 /\ Fits2(s[1], s[2])
                                \/ Len(s) = 3 /\ Fits3(s[1], s[2], s[3])
                                \/ Len(s) = 4 /\ Fits4(s[1], s[2], s[3], s[4])
<1>1. WellFormedBytes(s) => Len(s) \in {1, 2, 3, 4}
  BY RowByLength DEF WellFormedBytes
<1>2. ASSUME Len(s) = 1 PROVE WellFormedBytes(s) <=> Fits1(s[1])
  BY <1>2, RowByLength DEF WellFormedBytes, Fits1
<1>3. ASSUME Len(s) = 2 PROVE WellFormedBytes(s) <=> Fits2(s[1], s[2])
  BY <1>3, RowByLength DEF WellFormedBytes, Fits2
<1>4. ASSUME Len(s) = 3 PROVE WellFormedBytes(s) <=> Fits3(s[1], s[2], s[3])
  <2>1. s[1] \in Int /\ s[2] \in Int /\ s[3] \in Int
    BY <1>4
  <2>2. WellFormedBytes(s) <=>
          \/ s[1] \in {224} /\ s[2] \in 160..191 /\ IsContinuation(s[3])
          \/ s[1] \in 225..236 /\ s[2] \in 128..191 /\ IsContinuation(s[3])
          \/ s[1] \in {237} /\ s[2] \in 128..159 /\ IsContinuation(s[3])
          \/ s[1] \in 238..239 /\ s[2] \in 128..191 /\ IsContinuation(s[3])
    BY <1>4, RowByLength DEF WellFormedBytes
  <2>3. \A a, b, c \in Int :
          \/ a \in {224} /\ b \in 160..191 /\ IsContinuation(c)
          \/ a \in 225..236 /\ b \in 128..191 /\ IsContinuation(c)
          \/ a \in {237} /\ b \in 128..159 /\ IsContinuation(c)
          \/ a \in 238..239 /\ b \in 128..191 /\ IsContinuation(c)
          <=> Fits3(a, b, c)
    BY DEF Fits3, IsContinuation
  <2> QED
    BY <2>1, <2>2, <2>3, Zenon
<1>5. ASSUME Len(s) = 4 PROVE WellFormedBytes(s) <=> Fits4(s[1], s[2], s[3], s[4])
  <2>1. s[1] \in Int /\ s[2] \in Int /\ s[3] \in Int /\ s[4] \in Int
    BY <1>5
  <2>2. PICK a \in Int, b \in Int, c \in Int, d \in Int :
          a = s[1] /\ b = s[2] /\ c = s[3] /\ d = s[4]
    BY <2>1
  <2>3. WellFormedBytes(s) <=>
          /\ \/ a \in {240} /\ b \in 144..191
             \/ a \in 241..243 /\ b \in 128..191
             \/ a \in {244} /\ b \in 128..143
          /\ IsContinuation(c) /\ IsContinuation(d)
    BY <1>5, <2>2, RowByLength DEF WellFormedBytes
  <2>4. WellFormedBytes(s) <=> Fits4(a, b, c, d)
    BY <2>3 DEF Fits4, IsContinuation
  <2> QED
    BY <2>2, <2>4
<1> QED
  BY <1>1, <1>2, <1>3, <1>4, <1>5

-------------------------------------------------------------------------------
(***************************************************************************)
(* decodeUtf8 at one position.                                             *)
(***************************************************************************)
Value2(a, b) == 64 * (a - 192) + (b - 128)
Value3(a, b, c) == 4096 * (a - 224) + 64 * (b - 128) + (c - 128)
Value4(a, b, c, d) == 262144 * (a - 240) + 4096 * (b - 128) + 64 * (c - 128) + (d - 128)

Decoded(v, next) == [ok |-> TRUE, value |-> v, next |-> next]

LEMMA LeadFacts ==
  ASSUME NEW a \in Bytes
  PROVE  /\ a \in 0..127 => LeadLength(a) = 1 /\ LeadBits(a) = a
         /\ a \in 192..223 => LeadLength(a) = 2 /\ LeadBits(a) = a - 192
         /\ a \in 224..239 => LeadLength(a) = 3 /\ LeadBits(a) = a - 224
         /\ a \in 240..247 => LeadLength(a) = 4 /\ LeadBits(a) = a - 240
         /\ a \in 128..191 \/ a \in 248..255 => LeadLength(a) = 0
         /\ a \in 0..127 \/ a \in 192..223 \/ a \in 224..239 \/ a \in 240..247
            \/ a \in 128..191 \/ a \in 248..255
<1> a \in Int /\ 0 <= a /\ a <= 255
  BY DEF Bytes
<1>1. a \in 0..127 => LeadLength(a) = 1 /\ LeadBits(a) = a
  BY DEF LeadLength, LeadBits
<1>2. a \in 192..223 => LeadLength(a) = 2 /\ LeadBits(a) = a - 192
  <2>1. a \in 192..223 => LeadLength(a) = 2
    BY DEF LeadLength
  <2> QED
    BY <2>1 DEF LeadBits
<1>3. a \in 224..239 => LeadLength(a) = 3 /\ LeadBits(a) = a - 224
  <2>1. a \in 224..239 => LeadLength(a) = 3
    BY DEF LeadLength
  <2> QED
    BY <2>1 DEF LeadBits
<1>4. a \in 240..247 => LeadLength(a) = 4 /\ LeadBits(a) = a - 240
  <2>1. a \in 240..247 => LeadLength(a) = 4
    BY DEF LeadLength
  <2> QED
    BY <2>1 DEF LeadBits
<1>5. a \in 128..191 \/ a \in 248..255 => LeadLength(a) = 0
  BY DEF LeadLength
<1> QED
  BY <1>1, <1>2, <1>3, <1>4, <1>5

\* What the tests on the value leave is what the table lists.
InTests(v, min) == ~(v < min \/ v \in 55296..57343 \/ v > 1114111)

LEMMA ValueTests2 ==
  ASSUME NEW a \in 192..223, NEW b \in 128..191
  PROVE  Fits2(a, b) <=> InTests(Value2(a, b), MinForLength(2))
  BY SMT DEF Value2, Fits2, InTests, MinForLength

LEMMA ValueTests3 ==
  ASSUME NEW a \in 224..239, NEW b \in 128..191, NEW c \in 128..191
  PROVE  Fits3(a, b, c) <=> InTests(Value3(a, b, c), MinForLength(3))
  BY SMT DEF Value3, Fits3, InTests, MinForLength

LEMMA ValueTests4 ==
  ASSUME NEW a \in 240..247, NEW b \in 128..191, NEW c \in 128..191, NEW d \in 128..191
  PROVE  Fits4(a, b, c, d) <=> InTests(Value4(a, b, c, d), MinForLength(4))
  BY SMT DEF Value4, Fits4, InTests, MinForLength

\* The bytes of the table are those of the encoding.
LEMMA Encode1 ==
  ASSUME NEW a, Fits1(a)
  PROVE  Encode(a) = <<a>>
  BY SMT DEF Fits1, Encode

LEMMA Encode2 ==
  ASSUME NEW a, NEW b, Fits2(a, b)
  PROVE  Encode(Value2(a, b)) = <<a, b>>
<1> DEFINE v == Value2(a, b)
<1>1. v \in Nat /\ v >= 128 /\ v < 2048 /\ v \div 64 = a - 192 /\ v % 64 = b - 128
  BY SMT DEF Fits2, Value2
<1>2. a \in Int /\ b \in Int
  BY SMT DEF Fits2
<1> HIDE DEF v
<1>3. Encode(v) = <<192 + v \div 64, Continuation(v, 1)>>
  BY <1>1, SMT DEF Encode
<1>4. 192 + v \div 64 = a /\ Continuation(v, 1) = b
  BY <1>1, <1>2, SMT DEF Continuation
<1> QED
  BY <1>3, <1>4, SMT DEF v

LEMMA Encode3 ==
  ASSUME NEW a, NEW b, NEW c, Fits3(a, b, c)
  PROVE  Encode(Value3(a, b, c)) = <<a, b, c>>
<1> DEFINE v == Value3(a, b, c)
<1>1. v \in Nat /\ v >= 2048 /\ v < 65536 /\ v = 4096 * (a - 224) + 64 * (b - 128) + (c - 128)
  BY SMT DEF Fits3, Value3
<1>2. a \in 224..239 /\ b \in 128..191 /\ c \in 128..191
  BY SMT DEF Fits3
<1> HIDE DEF v
<1>3. v \div 4096 = a - 224
  BY <1>1, <1>2, SMT
<1>4. (v \div 64) % 64 = b - 128
  BY <1>1, <1>2, SMT
<1>5. v % 64 = c - 128 /\ v \div 1 = v
  BY <1>1, <1>2, SMT
<1>6. Encode(v) = <<224 + v \div 4096, Continuation(v, 64), Continuation(v, 1)>>
  BY <1>1, SMT DEF Encode
<1>7. 224 + v \div 4096 = a /\ Continuation(v, 64) = b /\ Continuation(v, 1) = c
  BY <1>2, <1>3, <1>4, <1>5, SMT DEF Continuation
<1> QED
  BY <1>6, <1>7, SMT DEF v

LEMMA Encode4 ==
  ASSUME NEW a, NEW b, NEW c, NEW d, Fits4(a, b, c, d)
  PROVE  Encode(Value4(a, b, c, d)) = <<a, b, c, d>>
<1> DEFINE v == Value4(a, b, c, d)
<1>1. /\ v \in Nat /\ v >= 65536
      /\ v = 262144 * (a - 240) + 4096 * (b - 128) + 64 * (c - 128) + (d - 128)
  BY SMT DEF Fits4, Value4
<1>2. a \in 240..244 /\ b \in 128..191 /\ c \in 128..191 /\ d \in 128..191
  BY SMT DEF Fits4
<1> HIDE DEF v
<1>3. v \div 262144 = a - 240
  BY <1>1, <1>2, SMT
<1>4. (v \div 4096) % 64 = b - 128
  BY <1>1, <1>2, SMT
<1>5. (v \div 64) % 64 = c - 128
  <2>1. v \div 64 = 4096 * (a - 240) + 64 * (b - 128) + (c - 128)
    BY <1>1, <1>2, SMT
  <2> QED
    BY <1>2, <2>1, SMT
<1>6. v % 64 = d - 128 /\ v \div 1 = v
  BY <1>1, <1>2, SMT
<1>7. Encode(v) = <<240 + v \div 262144, Continuation(v, 4096), Continuation(v, 64),
                    Continuation(v, 1)>>
  BY <1>1, SMT DEF Encode
<1>8. /\ 240 + v \div 262144 = a /\ Continuation(v, 4096) = b
      /\ Continuation(v, 64) = c /\ Continuation(v, 1) = d
  BY <1>2, <1>3, <1>4, <1>5, <1>6, SMT DEF Continuation
<1> QED
  BY <1>7, <1>8, SMT DEF v

-------------------------------------------------------------------------------
IsText(text) == text \in Seq(Bytes)

\* The bytes of a text.
LEMMA TextBytes ==
  ASSUME NEW text, IsText(text)
  PROVE  /\ Len(text) \in Nat /\ DOMAIN text = 1..Len(text)
         /\ \A k \in 1..Len(text) : text[k] \in Bytes /\ text[k] \in Int
<1>1. Bytes \subseteq Int
  BY DEF Bytes
<1>2. \A k \in 1..Len(text) : text[k] \in Bytes
  BY ElementOfSeq DEF IsText
<1> QED
  BY <1>1, <1>2, LenProperties DEF IsText

\* A well-formed sequence at position i: one of the four lengths.
FitsAt(text, i, n) ==
  /\ i + n - 1 <= Len(text)
  /\ \/ n = 1 /\ Fits1(text[i])
     \/ n = 2 /\ Fits2(text[i], text[i+1])
     \/ n = 3 /\ Fits3(text[i], text[i+1], text[i+2])
     \/ n = 4 /\ Fits4(text[i], text[i+1], text[i+2], text[i+3])

ValueAt(text, i, n) ==
  IF n = 1 THEN text[i]
  ELSE IF n = 2 THEN Value2(text[i], text[i+1])
  ELSE IF n = 3 THEN Value3(text[i], text[i+1], text[i+2])
  ELSE Value4(text[i], text[i+1], text[i+2], text[i+3])

\* The part of a text from i to j.
LEMMA PartFacts ==
  ASSUME NEW text, IsText(text), NEW i \in 1..Len(text), NEW j \in i..Len(text)
  PROVE  /\ IsText(SubSeq(text, i, j)) /\ Len(SubSeq(text, i, j)) = j - i + 1
         /\ \A k \in 1..j-i+1 : SubSeq(text, i, j)[k] = text[i + k - 1]
  BY SubSeqProperties, TextBytes DEF IsText

LEMMA PartWellFormed ==
  ASSUME NEW text, IsText(text), NEW i \in 1..Len(text), NEW j \in i..Len(text)
  PROVE  WellFormedBytes(SubSeq(text, i, j)) <=> FitsAt(text, i, j - i + 1)
<1> DEFINE s == SubSeq(text, i, j)
           n == j - i + 1
<1>1. /\ IsText(s) /\ Len(s) = n
      /\ \A k \in 1..n : s[k] = text[i + k - 1]
  BY PartFacts
<1>2. i \in Nat /\ j \in Nat /\ Len(text) \in Nat /\ n \in Nat /\ i + n - 1 <= Len(text)
  BY TextBytes
<1>3. \A k \in 1..Len(s) : s[k] \in Int
  BY <1>1, TextBytes
<1> HIDE DEF s, n
<1>4. WellFormedBytes(s) <=> \/ n = 1 /\ Fits1(s[1])
                             \/ n = 2 /\ Fits2(s[1], s[2])
                             \/ n = 3 /\ Fits3(s[1], s[2], s[3])
                             \/ n = 4 /\ Fits4(s[1], s[2], s[3], s[4])
  BY <1>1, <1>3, TableByLength
<1>5. /\ n >= 1 => s[1] = text[i]
      /\ n >= 2 => s[2] = text[i+1]
      /\ n >= 3 => s[3] = text[i+2]
      /\ n >= 4 => s[4] = text[i+3]
  <2>1. i + 1 - 1 = i /\ i + 2 - 1 = i + 1 /\ i + 3 - 1 = i + 2 /\ i + 4 - 1 = i + 3
    BY <1>2
  <2>2. \A k \in 1..n : s[k] = text[i + k - 1]
    BY <1>1
  <2>3. /\ n >= 1 => 1 \in 1..n
        /\ n >= 2 => 2 \in 1..n
        /\ n >= 3 => 3 \in 1..n
        /\ n >= 4 => 4 \in 1..n
    BY <1>2
  <2> QED
    BY <2>1, <2>2, <2>3
<1> QED
  BY <1>2, <1>4, <1>5 DEF FitsAt, s, n

LEMMA DecodedFields ==
  ASSUME NEW v, NEW next
  PROVE  Decoded(v, next).ok /\ Decoded(v, next).value = v /\ Decoded(v, next).next = next
  BY DEF Decoded

\* decodeUtf8 accepts exactly the sequences of the table.
LEMMA DecodeFacts ==
  ASSUME NEW text, IsText(text), NEW i \in 1..Len(text)
  PROVE  /\ \A n \in 1..4 : FitsAt(text, i, n) =>
              DecodeUtf8(text, i) = Decoded(ValueAt(text, i, n), i + n)
         /\ (\A n \in 1..4 : ~FitsAt(text, i, n)) => DecodeUtf8(text, i) = Malformed
<1> DEFINE a == text[i]
           length == LeadLength(a)
           value == CodePoint(text, i, length)
           D == DecodeUtf8(text, i)
<1>1. Len(text) \in Nat /\ i \in Nat \ {0} /\ a \in Bytes
  BY TextBytes, SMT
<1>2. D = IF length = 0 THEN Malformed
          ELSE IF i + length - 1 > Len(text) THEN Malformed
          ELSE IF \E k \in i+1..i+length-1 : ~IsContinuation(text[k]) THEN Malformed
          ELSE IF ~InTests(value, MinForLength(length)) THEN Malformed
          ELSE Decoded(value, i + length)
  BY SMT DEF DecodeUtf8, Decoded, InTests
<1> HIDE DEF a, length, value, D
<1>3. ASSUME NEW n \in 1..4, FitsAt(text, i, n)
      PROVE  n = length
  <2>1. CASE n = 1
    <3>1. a \in 0..127
      BY <1>3, <2>1, SMT DEF FitsAt, Fits1, a
    <3> QED
      BY <1>1, <2>1, <3>1, LeadFacts, SMT DEF length
  <2>2. CASE n = 2
    <3>1. a \in 192..223
      BY <1>3, <2>2, SMT DEF FitsAt, Fits2, a
    <3> QED
      BY <1>1, <2>2, <3>1, LeadFacts, SMT DEF length
  <2>3. CASE n = 3
    <3>1. a \in 224..239
      BY <1>3, <2>3, SMT DEF FitsAt, Fits3, a
    <3> QED
      BY <1>1, <2>3, <3>1, LeadFacts, SMT DEF length
  <2>4. CASE n = 4
    <3>1. a \in 240..247
      BY <1>3, <2>4, SMT DEF FitsAt, Fits4, a
    <3> QED
      BY <1>1, <2>4, <3>1, LeadFacts, SMT DEF length
  <2> QED
    BY <2>1, <2>2, <2>3, <2>4, SMT
<1>4. length \in 0..4
  BY <1>1, LeadFacts, SMT DEF length
<1>0. /\ length = 1 => a \in 0..127 /\ LeadBits(a) = a
      /\ length = 2 => a \in 192..223 /\ LeadBits(a) = a - 192
      /\ length = 3 => a \in 224..239 /\ LeadBits(a) = a - 224
      /\ length = 4 => a \in 240..247 /\ LeadBits(a) = a - 240
  <2>1. PICK x \in Bytes : x = a
    BY <1>1
  <2>2. /\ x \in 0..127 => LeadLength(x) = 1 /\ LeadBits(x) = x
        /\ x \in 192..223 => LeadLength(x) = 2 /\ LeadBits(x) = x - 192
        /\ x \in 224..239 => LeadLength(x) = 3 /\ LeadBits(x) = x - 224
        /\ x \in 240..247 => LeadLength(x) = 4 /\ LeadBits(x) = x - 240
        /\ x \in 128..191 \/ x \in 248..255 => LeadLength(x) = 0
        /\ x \in 0..127 \/ x \in 192..223 \/ x \in 224..239 \/ x \in 240..247
           \/ x \in 128..191 \/ x \in 248..255
    BY LeadFacts
  <2>3. /\ LeadLength(x) = 1 => x \in 0..127 /\ LeadBits(x) = x
        /\ LeadLength(x) = 2 => x \in 192..223 /\ LeadBits(x) = x - 192
        /\ LeadLength(x) = 3 => x \in 224..239 /\ LeadBits(x) = x - 224
        /\ LeadLength(x) = 4 => x \in 240..247 /\ LeadBits(x) = x - 240
    BY <2>2, SMT DEF Bytes
  <2>4. length = LeadLength(x)
    BY <2>1 DEF length
  <2> QED
    BY <2>1, <2>3, <2>4
<1>5. CASE length = 0
  BY <1>2, <1>3, <1>5, SMT DEF D
<1>6. ASSUME length = 1
      PROVE  D = IF FitsAt(text, i, 1) THEN Decoded(ValueAt(text, i, 1), i + 1) ELSE Malformed
  <2>1. a \in 0..127 /\ LeadBits(a) = a
    BY <1>0, <1>6, SMT
  <2>2. value = a
    BY <1>6, <2>1, SMT DEF value, CodePoint, a
  <2>3. i + 1 - 1 <= Len(text) /\ \A k \in i+1..i+1-1 : FALSE
    BY <1>1, SMT
  <2>4. InTests(value, MinForLength(1))
    BY <2>1, <2>2, SMT DEF InTests, MinForLength
  <2>5. FitsAt(text, i, 1) /\ ValueAt(text, i, 1) = a
    BY <2>1, <2>3, SMT DEF FitsAt, ValueAt, Fits1, a
  <2>6. D = Decoded(value, i + 1)
    BY <1>1, <1>2, <1>6, <2>3, <2>4, SMT
  <2> QED
    BY <2>2, <2>5, <2>6, SMT
<1>7. ASSUME length = 2
      PROVE  D = IF FitsAt(text, i, 2) THEN Decoded(ValueAt(text, i, 2), i + 2) ELSE Malformed
  <2>1. a \in 192..223 /\ LeadBits(a) = a - 192
    BY <1>0, <1>7, SMT
  <2>2. CASE i + 1 > Len(text)
    BY <1>1, <1>2, <1>7, <2>2, SMT DEF FitsAt
  <2>3. CASE i + 1 <= Len(text)
    <3>1. PICK b \in Bytes : b = text[i+1]
      BY <1>1, <2>3, TextBytes, SMT
    <3>2. (\E k \in i+1..i+2-1 : ~IsContinuation(text[k])) <=> ~IsContinuation(b)
      <4>1. i+1..i+2-1 = {i + 1}
        BY <1>1, SMT
      <4> QED
        BY <3>1, <4>1, Zenon
    <3>3. CASE ~IsContinuation(b)
      <4>1. ~Fits2(a, b)
        BY <3>3, SMT DEF Fits2, IsContinuation
      <4>2. ~FitsAt(text, i, 2)
        BY <1>1, <3>1, <4>1, SMT DEF FitsAt, a
      <4> QED
        BY <1>1, <1>2, <1>7, <2>3, <3>2, <3>3, <4>2, SMT
    <3>4. CASE IsContinuation(b)
      <4>1. b \in 128..191
        BY <3>4, SMT DEF IsContinuation
      <4>2. value = Value2(a, b)
        <5>1. CodePoint(text, i, 2) = 64 * LeadBits(text[i]) + (text[i+1] % 64)
          BY SMT DEF CodePoint
        <5>2. b % 64 = b - 128
          BY <4>1, SMT
        <5>3. a = text[i] /\ value = CodePoint(text, i, 2)
          BY <1>7, SMT DEF a, value
        <5> QED
          BY <2>1, <3>1, <5>1, <5>2, <5>3, SMT DEF Value2
      <4>3. D = IF InTests(Value2(a, b), MinForLength(2)) THEN Decoded(Value2(a, b), i + 2) ELSE Malformed
        BY <1>1, <1>2, <1>7, <2>3, <3>2, <3>4, <4>2, SMT
      <4>4. Fits2(a, b) <=> InTests(Value2(a, b), MinForLength(2))
        BY <2>1, <4>1, ValueTests2, Zenon
      <4>5. (FitsAt(text, i, 2) <=> Fits2(a, b)) /\ ValueAt(text, i, 2) = Value2(a, b)
        BY <1>1, <2>3, <3>1, SMT DEF FitsAt, ValueAt, a
      <4> QED
        BY <4>3, <4>4, <4>5, SMT
    <3> QED
      BY <3>3, <3>4, SMT
  <2> QED
    BY <1>1, <2>2, <2>3, SMT
<1>8. ASSUME length = 3
      PROVE  D = IF FitsAt(text, i, 3) THEN Decoded(ValueAt(text, i, 3), i + 3) ELSE Malformed
  <2>1. a \in 224..239 /\ LeadBits(a) = a - 224
    BY <1>0, <1>8, SMT
  <2>2. CASE i + 2 > Len(text)
    BY <1>1, <1>2, <1>8, <2>2, SMT DEF FitsAt
  <2>3. CASE i + 2 <= Len(text)
    <3>1. PICK b \in Bytes, c \in Bytes : b = text[i+1] /\ c = text[i+2]
      BY <1>1, <2>3, TextBytes, SMT
    <3>2. (\E k \in i+1..i+3-1 : ~IsContinuation(text[k]))
            <=> ~IsContinuation(b) \/ ~IsContinuation(c)
      <4>1. i+1..i+3-1 = {i + 1, i + 2}
        BY <1>1, SMT
      <4> QED
        BY <3>1, <4>1, Zenon
    <3>3. CASE ~IsContinuation(b) \/ ~IsContinuation(c)
      <4>1. ~Fits3(a, b, c)
        BY <3>3, SMT DEF Fits3, IsContinuation
      <4>2. ~FitsAt(text, i, 3)
        BY <1>1, <3>1, <4>1, SMT DEF FitsAt, a
      <4> QED
        BY <1>1, <1>2, <1>8, <2>3, <3>2, <3>3, <4>2, SMT
    <3>4. CASE IsContinuation(b) /\ IsContinuation(c)
      <4>1. b \in 128..191 /\ c \in 128..191
        BY <3>4, SMT DEF IsContinuation
      <4>2. value = Value3(a, b, c)
        <5>1. CodePoint(text, i, 3) = 4096 * LeadBits(text[i]) + 64 * (text[i+1] % 64) + (text[i+2] % 64)
          BY SMT DEF CodePoint
        <5>2. b % 64 = b - 128 /\ c % 64 = c - 128
          BY <4>1, SMT
        <5>3. a = text[i] /\ value = CodePoint(text, i, 3)
          BY <1>8, SMT DEF a, value
        <5> QED
          BY <2>1, <3>1, <5>1, <5>2, <5>3, SMT DEF Value3
      <4>3. D = IF InTests(Value3(a, b, c), MinForLength(3))
                THEN Decoded(Value3(a, b, c), i + 3) ELSE Malformed
        BY <1>1, <1>2, <1>8, <2>3, <3>2, <3>4, <4>2, SMT
      <4>4. Fits3(a, b, c) <=> InTests(Value3(a, b, c), MinForLength(3))
        BY <2>1, <4>1, ValueTests3, Zenon
      <4>5. (FitsAt(text, i, 3) <=> Fits3(a, b, c)) /\ ValueAt(text, i, 3) = Value3(a, b, c)
        BY <1>1, <2>3, <3>1, SMT DEF FitsAt, ValueAt, a
      <4> QED
        BY <4>3, <4>4, <4>5, SMT
    <3> QED
      BY <3>3, <3>4, SMT
  <2> QED
    BY <1>1, <2>2, <2>3, SMT
<1>9. ASSUME length = 4
      PROVE  D = IF FitsAt(text, i, 4) THEN Decoded(ValueAt(text, i, 4), i + 4) ELSE Malformed
  <2>1. a \in 240..247 /\ LeadBits(a) = a - 240
    BY <1>0, <1>9, SMT
  <2>2. CASE i + 3 > Len(text)
    BY <1>1, <1>2, <1>9, <2>2, SMT DEF FitsAt
  <2>3. CASE i + 3 <= Len(text)
    <3>1. PICK b \in Bytes, c \in Bytes, d \in Bytes :
            b = text[i+1] /\ c = text[i+2] /\ d = text[i+3]
      BY <1>1, <2>3, TextBytes, SMT
    <3>2. (\E k \in i+1..i+4-1 : ~IsContinuation(text[k]))
            <=> ~IsContinuation(b) \/ ~IsContinuation(c) \/ ~IsContinuation(d)
      <4>1. i+1..i+4-1 = {i + 1, i + 2, i + 3}
        BY <1>1, SMT
      <4> QED
        BY <3>1, <4>1, Zenon
    <3>3. CASE ~IsContinuation(b) \/ ~IsContinuation(c) \/ ~IsContinuation(d)
      <4>1. ~Fits4(a, b, c, d)
        BY <3>3, SMT DEF Fits4, IsContinuation
      <4>2. ~FitsAt(text, i, 4)
        BY <1>1, <3>1, <4>1, SMT DEF FitsAt, a
      <4> QED
        BY <1>1, <1>2, <1>9, <2>3, <3>2, <3>3, <4>2, SMT
    <3>4. CASE IsContinuation(b) /\ IsContinuation(c) /\ IsContinuation(d)
      <4>1. b \in 128..191 /\ c \in 128..191 /\ d \in 128..191
        BY <3>4, SMT DEF IsContinuation
      <4>2. value = Value4(a, b, c, d)
        <5>1. CodePoint(text, i, 4) = 262144 * LeadBits(text[i]) + 4096 * (text[i+1] % 64)
                                 + 64 * (text[i+2] % 64) + (text[i+3] % 64)
          BY SMT DEF CodePoint
        <5>2. b % 64 = b - 128 /\ c % 64 = c - 128 /\ d % 64 = d - 128
          BY <4>1, SMT
        <5>3. a = text[i] /\ value = CodePoint(text, i, 4)
          BY <1>9, SMT DEF a, value
        <5> QED
          BY <2>1, <3>1, <5>1, <5>2, <5>3, SMT DEF Value4
      <4>3. D = IF InTests(Value4(a, b, c, d), MinForLength(4))
                THEN Decoded(Value4(a, b, c, d), i + 4) ELSE Malformed
        BY <1>1, <1>2, <1>9, <2>3, <3>2, <3>4, <4>2, SMT
      <4>4. Fits4(a, b, c, d) <=> InTests(Value4(a, b, c, d), MinForLength(4))
        BY <2>1, <4>1, ValueTests4, Zenon
      <4>5. /\ FitsAt(text, i, 4) <=> Fits4(a, b, c, d)
            /\ ValueAt(text, i, 4) = Value4(a, b, c, d)
        BY <1>1, <2>3, <3>1, SMT DEF FitsAt, ValueAt, a
      <4> QED
        BY <4>3, <4>4, <4>5, SMT
    <3> QED
      BY <3>3, <3>4, SMT
  <2> QED
    BY <1>1, <2>2, <2>3, SMT
<1>10. ASSUME NEW n \in 1..4, length = n
       PROVE  D = IF FitsAt(text, i, n) THEN Decoded(ValueAt(text, i, n), i + n) ELSE Malformed
  BY <1>6, <1>7, <1>8, <1>9, <1>10, SMT
<1>11. length # 0 => length \in 1..4
  BY <1>4, SMT
<1> QED
  BY <1>3, <1>5, <1>10, <1>11, Zenon DEF D

\* At a position with a character the decoder reads it, its value whether it is
\* read there or on its own, and no other length is well-formed; at any other
\* position it reports the text as malformed.
LEMMA Reads ==
  ASSUME NEW text, IsText(text), NEW i \in 1..Len(text)
  PROVE  \/ /\ \A j \in i..Len(text) : ~WellFormedBytes(SubSeq(text, i, j))
            /\ DecodeUtf8(text, i) = Malformed
         \/ \E j \in i..Len(text) : \E v :
              /\ DecodeUtf8(text, i) = Decoded(v, j + 1)
              /\ \A k \in i..Len(text) : WellFormedBytes(SubSeq(text, i, k)) <=> k = j
              /\ Encode(v) = SubSeq(text, i, j)
              /\ DecodeUtf8(SubSeq(text, i, j), 1).value = v
<1>1. Len(text) \in Nat /\ i \in Nat \ {0}
  BY TextBytes
<1>2. \A n : FitsAt(text, i, n) => n \in 1..4 /\ i + n - 1 \in i..Len(text)
  BY <1>1, SMT DEF FitsAt
<1>3. CASE \A n \in 1..4 : ~FitsAt(text, i, n)
  <2>1. \A j \in i..Len(text) : ~FitsAt(text, i, j - i + 1)
    BY <1>2, <1>3
  <2> QED
    BY <1>3, <2>1, PartWellFormed, DecodeFacts
<1>4. ASSUME NEW n \in 1..4, FitsAt(text, i, n)
      PROVE  \E j \in i..Len(text) : \E v :
               /\ DecodeUtf8(text, i) = Decoded(v, j + 1)
               /\ \A k \in i..Len(text) : WellFormedBytes(SubSeq(text, i, k)) <=> k = j
               /\ Encode(v) = SubSeq(text, i, j)
               /\ DecodeUtf8(SubSeq(text, i, j), 1).value = v
  <2> DEFINE j == i + n - 1
             v == ValueAt(text, i, n)
             s == SubSeq(text, i, j)
  <2>1. j \in i..Len(text) /\ j + 1 = i + n /\ j - i + 1 = n
    BY <1>1, <1>2, <1>4
  <2>2. DecodeUtf8(text, i) = Decoded(v, j + 1)
    BY <1>4, <2>1, DecodeFacts
  <2>3. ASSUME NEW k \in i..Len(text) PROVE WellFormedBytes(SubSeq(text, i, k)) <=> k = j
    <3>1. WellFormedBytes(SubSeq(text, i, k)) <=> FitsAt(text, i, k - i + 1)
      BY PartWellFormed
    <3>2. ASSUME FitsAt(text, i, k - i + 1) PROVE k = j
      <4>1. k - i + 1 \in 1..4
        BY <1>2, <3>2
      <4>2. DecodeUtf8(text, i) = Decoded(ValueAt(text, i, k - i + 1), i + (k - i + 1))
        BY <3>2, <4>1, DecodeFacts
      <4>3. i + (k - i + 1) = j + 1
        <5>1. Decoded(v, j + 1).next = j + 1
          BY DecodedFields
        <5>2. Decoded(ValueAt(text, i, k - i + 1), i + (k - i + 1)).next = i + (k - i + 1)
          BY DecodedFields
        <5> QED
          BY <2>2, <4>2, <5>1, <5>2, Zenon
      <4> QED
        BY <1>1, <2>1, <4>3
    <3> QED
      BY <1>4, <2>1, <3>1, <3>2
  <2>4. /\ IsText(s) /\ Len(s) = n
        /\ \A k \in 1..n : s[k] = text[i + k - 1]
    BY <2>1, PartFacts
  <2>5. /\ n >= 1 => s[1] = text[i]
        /\ n >= 2 => s[2] = text[i+1]
        /\ n >= 3 => s[3] = text[i+2]
        /\ n >= 4 => s[4] = text[i+3]
    <3>1. i + 1 - 1 = i /\ i + 2 - 1 = i + 1 /\ i + 3 - 1 = i + 2 /\ i + 4 - 1 = i + 3
      BY <1>1
    <3>2. /\ n >= 1 => 1 \in 1..n
          /\ n >= 2 => 2 \in 1..n
          /\ n >= 3 => 3 \in 1..n
          /\ n >= 4 => 4 \in 1..n
      OBVIOUS
    <3> QED
      BY <2>4, <3>1, <3>2
  <2> HIDE DEF s, v, j
  <2>6. n = 1 \/ n = 2 \/ n = 3 \/ n = 4
    OBVIOUS
  <2>7. Encode(v) = s
    <3>1. CASE n = 1
      <4>1. s = <<text[i]>>
        BY <2>4, <2>5, <3>1, SMT DEF IsText
      <4>2. Fits1(text[i]) /\ v = text[i]
        BY <1>4, <3>1, SMT DEF FitsAt, ValueAt, v
      <4> QED
        BY <4>1, <4>2, Encode1, SMT
    <3>2. CASE n = 2
      <4>1. s = <<text[i], text[i+1]>>
        BY <2>4, <2>5, <3>2, SMT DEF IsText
      <4>2. Fits2(text[i], text[i+1]) /\ v = Value2(text[i], text[i+1])
        BY <1>4, <3>2, SMT DEF FitsAt, ValueAt, v
      <4> QED
        BY <4>1, <4>2, Encode2, SMT
    <3>3. CASE n = 3
      <4>1. s = <<text[i], text[i+1], text[i+2]>>
        BY <2>4, <2>5, <3>3, SMT DEF IsText
      <4>2. Fits3(text[i], text[i+1], text[i+2]) /\ v = Value3(text[i], text[i+1], text[i+2])
        BY <1>4, <3>3, SMT DEF FitsAt, ValueAt, v
      <4> QED
        BY <4>1, <4>2, Encode3, SMT
    <3>4. CASE n = 4
      <4>1. s = <<text[i], text[i+1], text[i+2], text[i+3]>>
        BY <2>4, <2>5, <3>4, SMT DEF IsText
      <4>2. /\ Fits4(text[i], text[i+1], text[i+2], text[i+3])
            /\ v = Value4(text[i], text[i+1], text[i+2], text[i+3])
        BY <1>4, <3>4, SMT DEF FitsAt, ValueAt, v
      <4> QED
        BY <4>1, <4>2, Encode4, SMT
    <3> QED
      BY <2>6, <3>1, <3>2, <3>3, <3>4
  <2>8. FitsAt(s, 1, n) /\ ValueAt(s, 1, n) = v
    <3>1. 1 + 1 = 2 /\ 1 + 2 = 3 /\ 1 + 3 = 4 /\ 1 + n - 1 <= Len(s)
      BY <2>4
    <3>2. CASE n = 1
      BY <1>4, <2>5, <3>1, <3>2, SMT DEF FitsAt, ValueAt, v
    <3>3. CASE n = 2
      BY <1>4, <2>5, <3>1, <3>3, SMT DEF FitsAt, ValueAt, v
    <3>4. CASE n = 3
      BY <1>4, <2>5, <3>1, <3>4, SMT DEF FitsAt, ValueAt, v
    <3>5. CASE n = 4
      BY <1>4, <2>5, <3>1, <3>5, SMT DEF FitsAt, ValueAt, v
    <3> QED
      BY <2>6, <3>2, <3>3, <3>4, <3>5
  <2>9. DecodeUtf8(s, 1).value = v
    <3>1. 1 \in 1..Len(s)
      BY <2>4
    <3>2. DecodeUtf8(s, 1) = Decoded(v, 1 + n)
      BY <2>4, <2>8, <3>1, DecodeFacts
    <3> QED
      BY <3>2, DecodedFields
  <2> QED
    BY <2>1, <2>2, <2>3, <2>7, <2>9, Zenon DEF s
<1> QED
  BY <1>3, <1>4

-------------------------------------------------------------------------------
(***************************************************************************)
(* The two loops.  Up to the position they have reached the text falls     *)
(* into characters they accept, and every way to cut the whole text into   *)
(* such characters cuts it there.                                          *)
(***************************************************************************)
Kinds == {"name", "text"}

\* A piece that is one character the function accepts at its place.
GoodPiece(kind, text, p) ==
  /\ WellFormedBytes(Piece(text, p))
  /\ LET c == DecodeUtf8(Piece(text, p), 1).value
     IN  CASE kind = "text"             -> IsXmlChar(c)
           [] kind = "name" /\ p[1] = 0 -> IsNameStartChar(c)
           [] OTHER                     -> IsNameChar(c)

IsCut(kind, text, cuts) ==
  /\ text = <<>> \/ Len(text) \in cuts
  /\ kind = "name" => cuts # {}
  /\ \A p \in Pieces(cuts) : GoodPiece(kind, text, p)

\* The function accepts a piece exactly when its round at the start of the
\* piece reads it.
LEMMA PieceRead ==
  ASSUME NEW kind \in Kinds, NEW text, IsText(text),
         NEW i \in 1..Len(text), NEW m \in i..Len(text)
  PROVE  GoodPiece(kind, text, <<i - 1, m>>) <=>
           LET c == DecodeUtf8(text, i)
           IN  c.ok /\ c.next = m + 1 /\ Accepts(kind, i, c.value)
<1> DEFINE p == <<i - 1, m>>
           c == DecodeUtf8(text, i)
           w == DecodeUtf8(SubSeq(text, i, m), 1).value
<1>1. Len(text) \in Nat /\ i \in Nat \ {0} /\ m \in Nat
  BY TextBytes
<1>2. Piece(text, p) = SubSeq(text, i, m)
  <2>1. p[1] = i - 1 /\ p[2] = m /\ i - 1 + 1 = i
    BY <1>1
  <2> QED
    BY <2>1, Zenon DEF Piece
<1>3. GoodPiece(kind, text, p) <=> WellFormedBytes(SubSeq(text, i, m)) /\ Accepts(kind, i, w)
  <2>1. p[1] = i - 1 /\ (p[1] = 0 <=> i = 1)
    BY <1>1
  <2> HIDE DEF p
  <2>2. CASE kind = "text"
    BY <1>2, <2>2 DEF GoodPiece, Accepts
  <2>3. CASE kind = "name"
    BY <1>2, <2>1, <2>3 DEF GoodPiece, Accepts
  <2> QED
    BY <2>2, <2>3 DEF Kinds
<1> HIDE DEF p, c
<1>4. CASE /\ \A j \in i..Len(text) : ~WellFormedBytes(SubSeq(text, i, j))
           /\ c = Malformed
  <2>1. ~c.ok
    BY <1>4 DEF Malformed
  <2> QED
    BY <1>3, <1>4, <2>1 DEF p, c
<1>5. ASSUME NEW j \in i..Len(text), NEW v,
             /\ c = Decoded(v, j + 1)
             /\ \A k \in i..Len(text) : WellFormedBytes(SubSeq(text, i, k)) <=> k = j
             /\ DecodeUtf8(SubSeq(text, i, j), 1).value = v
      PROVE  GoodPiece(kind, text, p) <=> c.ok /\ c.next = m + 1 /\ Accepts(kind, i, c.value)
  <2>1. c.ok /\ c.value = v /\ c.next = j + 1
    BY <1>5, DecodedFields
  <2>2. j + 1 = m + 1 <=> j = m
    BY <1>1
  <2>3. WellFormedBytes(SubSeq(text, i, m)) <=> m = j
    BY <1>5
  <2>4. m = j => w = v
    BY <1>5
  <2> HIDE DEF w
  <2> QED
    BY <1>3, <2>1, <2>2, <2>3, <2>4, Zenon
<1> QED
  BY <1>4, <1>5, Reads, Zenon DEF p, c

\* Behind a cut that is not the end there is a next one.
LEMMA NextCut ==
  ASSUME NEW kind, NEW text, IsText(text), NEW cuts \in SUBSET DOMAIN text,
         IsCut(kind, text, cuts), NEW i \in 1..Len(text), i = 1 \/ i - 1 \in cuts
  PROVE  \E m \in i..Len(text) : m \in cuts /\ <<i - 1, m>> \in Pieces(cuts)
<1>1. Len(text) \in Nat /\ DOMAIN text = 1..Len(text)
  BY TextBytes
<1>2. text # <<>> /\ Len(text) \in cuts
  <2>1. text # <<>>
    BY <1>1
  <2> QED
    BY <2>1 DEF IsCut
<1> DEFINE S == {m \in cuts : m >= i}
<1>3. S \in SUBSET Int /\ S # {}
  BY <1>1, <1>2
<1>4. IsFiniteSet(S)
  <2>1. IsFiniteSet(1..Len(text)) /\ S \in SUBSET (1..Len(text))
    BY <1>1, FS_Interval
  <2> QED
    BY <2>1, FS_Subset
<1>5. Min(S) \in S /\ \A y \in S : Min(S) <= y
  <2> HIDE DEF S
  <2> QED
    BY <1>3, <1>4, MinOf
<1>6. PICK m \in S : \A y \in S : m <= y
  BY <1>5
<1>7. m \in i..Len(text) /\ m \in cuts
  BY <1>1, <1>6
<1>8. <<i - 1, m>> \in Pieces(cuts)
  <2>1. i - 1 \in cuts \cup {0}
    BY <1>1
  <2>2. i - 1 < m
    BY <1>1, <1>7
  <2>3. \A c \in cuts : c <= i - 1 \/ m <= c
    BY <1>1, <1>6
  <2> QED
    BY <1>7, <2>1, <2>2, <2>3 DEF Pieces
<1> QED
  BY <1>7, <1>8

\* One more cut behind the last one adds one piece.
LEMMA AddCut ==
  ASSUME NEW i \in Nat \ {0}, NEW j \in Nat, j >= i, NEW cuts \in SUBSET (1..i-1),
         i = 1 \/ i - 1 \in cuts
  PROVE  Pieces(cuts \cup {j}) \subseteq Pieces(cuts) \cup {<<i - 1, j>>}
<1> SUFFICES ASSUME NEW a \in cuts \cup {j} \cup {0}, NEW b \in cuts \cup {j}, a < b,
                    \A c \in cuts \cup {j} : c <= a \/ b <= c
             PROVE  <<a, b>> \in Pieces(cuts) \cup {<<i - 1, j>>}
  <2>1. ASSUME NEW p \in Pieces(cuts \cup {j})
        PROVE  /\ p = <<p[1], p[2]>> /\ p[1] \in cuts \cup {j} \cup {0} /\ p[2] \in cuts \cup {j}
               /\ p[1] < p[2] /\ \A c \in cuts \cup {j} : c <= p[1] \/ p[2] <= c
    BY DEF Pieces
  <2> QED
    BY <2>1
<1>1. CASE b = j
  <2>1. a < j
    BY <1>1
  <2>2. a \in cuts \cup {0}
    BY <2>1
  <2>3. a <= i - 1
    BY <2>2
  <2>4. a = i - 1
    BY <1>1, <2>2, <2>3
  <2> QED
    BY <1>1, <2>4
<1>2. CASE b # j
  <2>1. b \in cuts /\ b < j
    BY <1>2
  <2>2. a \in cuts \cup {0}
    BY <2>1
  <2> QED
    BY <2>1, <2>2 DEF Pieces
<1> QED
  BY <1>1, <1>2

\* What is known of a call of either function after some rounds.
ScanInv(kind, text, w) ==
  /\ kind \in Kinds /\ IsText(text)
  /\ w \in [pos : 1..Len(text)+1, answer : {"open", "yes", "no"}]
  /\ kind = "name" /\ text = <<>> => w.answer = "no"
  /\ \E cuts \in SUBSET (1..w.pos-1) :
       /\ w.pos = 1 \/ w.pos - 1 \in cuts
       /\ \A p \in Pieces(cuts) : GoodPiece(kind, text, p)
  /\ \A cuts \in SUBSET DOMAIN text :
       IsCut(kind, text, cuts) => w.pos = 1 \/ w.pos - 1 \in cuts
  /\ w.answer = "yes" => w.pos = Len(text) + 1
  /\ w.answer = "no" => \A cuts \in SUBSET DOMAIN text : ~IsCut(kind, text, cuts)

LEMMA ScanStarts ==
  ASSUME NEW kind \in Kinds, NEW text, IsText(text)
  PROVE  ScanInv(kind, text, StartScan(kind, text))
<1> DEFINE w == StartScan(kind, text)
<1>1. Len(text) \in Nat /\ DOMAIN text = 1..Len(text)
  BY TextBytes
<1>2. /\ w.pos = 1 /\ w.answer = IF kind = "name" /\ text = <<>> THEN "no" ELSE "open"
      /\ w \in [pos : 1..Len(text)+1, answer : {"open", "yes", "no"}]
  BY <1>1 DEF StartScan
<1> HIDE DEF w
<1>3. Pieces({}) = {} /\ {} \in SUBSET (1..w.pos-1)
  BY DEF Pieces
<1>4. ASSUME w.answer = "no", NEW cuts \in SUBSET DOMAIN text PROVE ~IsCut(kind, text, cuts)
  <2>1. kind = "name" /\ text = <<>>
    BY <1>2, <1>4
  <2>2. cuts = {}
    BY <1>1, <2>1
  <2> QED
    BY <2>1, <2>2 DEF IsCut
<1> QED
  BY <1>1, <1>2, <1>3, <1>4 DEF ScanInv, w

LEMMA ScanKeeps ==
  ASSUME NEW kind, NEW text, NEW w, ScanInv(kind, text, w), w.answer = "open"
  PROVE  ScanInv(kind, text, ScanStep(kind, text, w))
<1> DEFINE n == ScanStep(kind, text, w)
           i == w.pos
           c == DecodeUtf8(text, i)
<1>1. /\ kind \in Kinds /\ IsText(text) /\ Len(text) \in Nat /\ DOMAIN text = 1..Len(text)
      /\ i \in 1..Len(text)+1 /\ w = [pos |-> i, answer |-> "open"]
      /\ ~(kind = "name" /\ text = <<>>)
  BY TextBytes DEF ScanInv
<1>2. PICK cuts \in SUBSET (1..i-1) :
        /\ i = 1 \/ i - 1 \in cuts
        /\ \A p \in Pieces(cuts) : GoodPiece(kind, text, p)
  BY DEF ScanInv
<1>3. \A K \in SUBSET DOMAIN text : IsCut(kind, text, K) => i = 1 \/ i - 1 \in K
  BY DEF ScanInv
<1>4. n = IF i > Len(text) THEN [pos |-> i, answer |-> "yes"]
          ELSE IF c.ok /\ Accepts(kind, i, c.value) THEN [pos |-> c.next, answer |-> "open"]
          ELSE [pos |-> i, answer |-> "no"]
  BY <1>1 DEF ScanStep
<1> HIDE DEF n, i, c
<1>5. CASE i > Len(text)
  <2>1. n.pos = i /\ n.answer = "yes" /\ i = Len(text) + 1
        /\ n \in [pos : 1..Len(text)+1, answer : {"open", "yes", "no"}]
    BY <1>1, <1>4, <1>5
  <2> QED
    BY <1>1, <1>2, <1>3, <2>1 DEF ScanInv, n
<1>6. ASSUME i <= Len(text)
      PROVE  i \in 1..Len(text)
  BY <1>1, <1>6
<1>7. ASSUME i <= Len(text), NEW K \in SUBSET DOMAIN text, IsCut(kind, text, K)
      PROVE  \E m \in i..Len(text) :
               m \in K /\ c.ok /\ c.next = m + 1 /\ Accepts(kind, i, c.value)
  <2>1. PICK m \in i..Len(text) : m \in K /\ <<i - 1, m>> \in Pieces(K)
    BY <1>1, <1>3, <1>6, <1>7, NextCut
  <2>2. GoodPiece(kind, text, <<i - 1, m>>)
    BY <1>7, <2>1 DEF IsCut
  <2>3. c.ok /\ c.next = m + 1 /\ Accepts(kind, i, c.value)
    BY <1>1, <1>6, <1>7, <2>2, PieceRead DEF c
  <2> QED
    BY <2>1, <2>3
<1>8. CASE i <= Len(text) /\ ~(c.ok /\ Accepts(kind, i, c.value))
  <2>1. n.pos = i /\ n.answer = "no"
        /\ n \in [pos : 1..Len(text)+1, answer : {"open", "yes", "no"}]
    BY <1>1, <1>4, <1>8
  <2>2. \A K \in SUBSET DOMAIN text : ~IsCut(kind, text, K)
    BY <1>7, <1>8
  <2> QED
    BY <1>1, <1>2, <1>3, <2>1, <2>2 DEF ScanInv, n
<1>9. CASE i <= Len(text) /\ c.ok /\ Accepts(kind, i, c.value)
  <2>1. PICK j \in i..Len(text) : c.next = j + 1
    <3>1. c # Malformed
      BY <1>9 DEF Malformed
    <3>2. PICK j \in i..Len(text) : \E v : c = Decoded(v, j + 1)
      BY <1>1, <1>6, <1>9, <3>1, Reads, Zenon DEF c
    <3> QED
      BY <3>2, DecodedFields
  <2>2. i \in Nat \ {0} /\ j \in Nat /\ j >= i /\ j + 1 - 1 = j /\ j + 1 \in 1..Len(text)+1
    BY <1>1
  <2>3. n.pos = j + 1 /\ n.answer = "open"
        /\ n \in [pos : 1..Len(text)+1, answer : {"open", "yes", "no"}]
    BY <1>1, <1>4, <1>9, <2>1, <2>2
  <2>4. GoodPiece(kind, text, <<i - 1, j>>)
    BY <1>1, <1>6, <1>9, <2>1, PieceRead DEF c
  <2>5. /\ cuts \cup {j} \in SUBSET (1..n.pos-1)
        /\ n.pos = 1 \/ n.pos - 1 \in cuts \cup {j}
    BY <1>2, <2>2, <2>3
  <2>6. \A p \in Pieces(cuts \cup {j}) : GoodPiece(kind, text, p)
    BY <1>2, <2>2, <2>4, AddCut
  <2>7. ASSUME NEW K \in SUBSET DOMAIN text, IsCut(kind, text, K) PROVE n.pos - 1 \in K
    <3>1. PICK m \in i..Len(text) : m \in K /\ c.next = m + 1
      BY <1>7, <1>9, <2>7
    <3>2. m = j
      BY <1>1, <2>1, <2>2, <3>1
    <3> QED
      BY <2>2, <2>3, <3>1, <3>2
  <2> QED
    BY <1>1, <2>3, <2>5, <2>6, <2>7, Zenon DEF ScanInv, n
<1> QED
  BY <1>1, <1>5, <1>8, <1>9

\* When a call has returned, its answer is the reference's.
LEMMA ScanEnds ==
  ASSUME NEW kind, NEW text, NEW w, ScanInv(kind, text, w), w.answer # "open"
  PROVE  w.answer = "yes" <=> \E cuts \in SUBSET DOMAIN text : IsCut(kind, text, cuts)
<1>1. /\ Len(text) \in Nat /\ DOMAIN text = 1..Len(text) /\ IsText(text)
      /\ w.answer \in {"open", "yes", "no"}
  BY TextBytes DEF ScanInv
<1>2. CASE w.answer = "no"
  BY <1>2 DEF ScanInv
<1>3. CASE w.answer = "yes"
  <2>1. w.pos = Len(text) + 1 /\ ~(kind = "name" /\ text = <<>>)
    BY <1>3 DEF ScanInv
  <2>2. w.pos - 1 = Len(text)
    BY <1>1, <2>1
  <2>3. PICK cuts \in SUBSET (1..w.pos-1) :
          /\ w.pos = 1 \/ w.pos - 1 \in cuts
          /\ \A p \in Pieces(cuts) : GoodPiece(kind, text, p)
    BY DEF ScanInv
  <2>4. w.pos = 1 => text = <<>>
    <3> SUFFICES ASSUME w.pos = 1 PROVE text = <<>>
      OBVIOUS
    <3>1. Len(text) = 0
      BY <1>1, <2>1
    <3> QED
      BY <1>1, <3>1, EmptySeq DEF IsText
  <2>5. IsCut(kind, text, cuts)
    BY <2>1, <2>2, <2>3, <2>4 DEF IsCut
  <2> QED
    BY <1>1, <1>3, <2>2, <2>3, <2>5
<1> QED
  BY <1>1, <1>2, <1>3

\* The texts of the instance are sequences of bytes.
LEMMA TextsAreTexts ==
  ASSUME NEW text \in Texts(XmlBytes, MaxXml)
  PROVE  IsText(text)
<1>1. PICK n \in 0..MaxXml : text \in [1..n -> XmlBytes]
  BY DEF Texts
<1>2. n \in Nat /\ XmlBytes \subseteq Bytes
  BY BytesAssumption DEF Bytes
<1>3. text \in [1..n -> Bytes]
  BY <1>1, <1>2
<1> QED
  BY <1>2, <1>3, SeqDef DEF IsText

TextInv == call.op = "xml" => ScanInv(call.kind, call.text, out)

\* At every position a call reaches, decodeUtf8 accepts exactly the table's
\* sequences and returns the character they encode, and both functions answer
\* for the whole text what its characters say: for texts of every length, with
\* the 21 bits of code points as in the code.
THEOREM TextStaysExact == Spec => []XmlTextIsExact
<1>1. Init => TextInv
  <2>1. ASSUME CallXml PROVE TextInv
    <3>1. PICK t \in Texts(XmlBytes, MaxXml), kind \in {"name", "text"} :
            call = [op |-> "xml", kind |-> kind, text |-> t] /\ out = StartScan(kind, t)
      BY <2>1, Zenon DEF CallXml
    <3>2. call.kind = kind /\ call.text = t
      BY <3>1
    <3>3. kind \in Kinds /\ IsText(t)
      BY TextsAreTexts DEF Kinds
    <3> QED
      BY <3>1, <3>2, <3>3, ScanStarts DEF TextInv
  <2>2. call.op # "xml" => TextInv
    BY DEF TextInv
  <2> QED
    BY <2>1, <2>2, OperationOf DEF Init
<1>2. TextInv /\ [Next]_vars => TextInv'
  <2> SUFFICES ASSUME TextInv, [Next]_vars PROVE TextInv'
    OBVIOUS
  <2>1. CASE CheckXml
    <3>1. /\ call' = call /\ call.op = "xml" /\ out.answer = "open"
          /\ out' = ScanStep(call.kind, call.text, out)
      BY <2>1 DEF CheckXml
    <3>2. ScanInv(call.kind, call.text, out)
      BY <3>1 DEF TextInv
    <3>3. ScanInv(call.kind, call.text, ScanStep(call.kind, call.text, out))
      BY <3>1, <3>2, ScanKeeps
    <3> QED
      BY <3>1, <3>3, Zenon DEF TextInv
  <2>2. CASE UNCHANGED vars
    BY <2>2, Zenon DEF vars, TextInv
  <2>3. ASSUME call' = call, call.op # "xml" PROVE TextInv'
    BY <2>3, Zenon DEF TextInv
  <2> QED
    BY <2>1, <2>2, <2>3 DEF Next, ParsePath, As, MakeScalar, Repair, Create, SetKey, Done
<1>3. TextInv => XmlTextIsExact
  <2> SUFFICES ASSUME TextInv, call.op = "xml" PROVE XmlTextIsExact
    BY DEF XmlTextIsExact, DecodeIsStrict, NameAndTextAreExact
  <2>1. ScanInv(call.kind, call.text, out)
    BY DEF TextInv
  <2>2. DecodeIsStrict
    <3> DEFINE text == call.text
               i == out.pos
               c == DecodeUtf8(text, i)
    <3> SUFFICES ASSUME i <= Len(text)
                 PROVE  /\ c.ok <=> \E n \in i..Len(text) : WellFormedBytes(SubSeq(text, i, n))
                        /\ c.ok => Encode(c.value) = SubSeq(text, i, c.next - 1)
      BY DEF DecodeIsStrict
    <3>1. IsText(text) /\ Len(text) \in Nat /\ i \in 1..Len(text)+1
      BY <2>1, TextBytes DEF ScanInv
    <3>2. i \in 1..Len(text)
      BY <3>1
    <3> HIDE DEF text, i, c
    <3>3. CASE /\ \A j \in i..Len(text) : ~WellFormedBytes(SubSeq(text, i, j))
               /\ c = Malformed
      BY <3>3 DEF Malformed
    <3>4. ASSUME NEW j \in i..Len(text), NEW v,
                 /\ c = Decoded(v, j + 1)
                 /\ \A k \in i..Len(text) : WellFormedBytes(SubSeq(text, i, k)) <=> k = j
                 /\ Encode(v) = SubSeq(text, i, j)
          PROVE  /\ c.ok <=> \E n \in i..Len(text) : WellFormedBytes(SubSeq(text, i, n))
                 /\ c.ok => Encode(c.value) = SubSeq(text, i, c.next - 1)
      <4>1. c.ok /\ c.value = v /\ c.next = j + 1
        BY <3>4, DecodedFields
      <4>2. c.next - 1 = j
        <5>1. j \in Int /\ j + 1 - 1 = j
          BY <3>1, <3>2
        <5> QED
          BY <4>1, <5>1
      <4>3. WellFormedBytes(SubSeq(text, i, j))
        BY <3>4
      <4>4. Encode(c.value) = SubSeq(text, i, c.next - 1)
        BY <3>4, <4>1, <4>2, Zenon
      <4> QED
        BY <4>1, <4>3, <4>4
    <3> QED
      BY <3>1, <3>2, <3>3, <3>4, Reads, Zenon DEF c
  <2>3. NameAndTextAreExact
    <3> SUFFICES ASSUME Returned
                 PROVE  out.answer = "yes" <=>
                          \E cuts \in SUBSET DOMAIN call.text : IsCut(call.kind, call.text, cuts)
      BY Zenon DEF NameAndTextAreExact, IsCut, GoodPiece
    <3>1. out.answer # "open"
      BY DEF Returned
    <3> QED
      BY <2>1, <3>1, ScanEnds
  <2> QED
    BY <2>2, <2>3 DEF XmlTextIsExact
<1> QED
  BY <1>1, <1>2, <1>3, PTL DEF Spec

-------------------------------------------------------------------------------
(***************************************************************************)
(* ConfigPath::parse.  Up to its position the text has the shape of the    *)
(* grammar, no bracket is open, and the segments it has are those that     *)
(* start before it.                                                        *)
(***************************************************************************)
IsPath(text) == text \in Seq(PathBytes)

LEMMA PathFacts ==
  ASSUME NEW text, IsPath(text)
  PROVE  /\ Len(text) \in Nat /\ DOMAIN text = 1..Len(text)
         /\ text = <<>> <=> Len(text) = 0
  BY LenProperties, EmptySeq DEF IsPath

LEMMA ByteFacts ==
  /\ IsReserved(".") /\ IsReserved("[") /\ IsReserved("]")
  /\ ~IsDigit(".") /\ ~IsDigit("[") /\ ~IsDigit("]")
  /\ \A c : IsReserved(c) => c \in {".", "[", "]"} /\ ~IsDigit(c)
  BY DEF IsReserved, IsDigit, DigitValue

LEMMA KeyEndFacts ==
  ASSUME NEW text, IsPath(text), NEW pos \in 1..Len(text)+1
  PROVE  LET end == KeyEnd(text, pos)
         IN  /\ end \in pos..Len(text)+1
             /\ \A p \in pos..end-1 : ~IsReserved(text[p])
             /\ end <= Len(text) => IsReserved(text[end])
<1>1. Len(text) \in Nat
  BY PathFacts
<1> DEFINE S == {p \in pos..Len(text) : IsReserved(text[p])} \cup {Len(text) + 1}
<1>2. S \in SUBSET Int /\ S # {} /\ S \in SUBSET (pos..Len(text)+1)
  BY <1>1
<1>3. IsFiniteSet(S)
  <2>1. IsFiniteSet(pos..Len(text)+1)
    BY <1>1, FS_Interval
  <2> HIDE DEF S
  <2> QED
    BY <1>2, <2>1, FS_Subset
<1>4. KeyEnd(text, pos) = Min(S)
  BY DEF KeyEnd
<1>5. Min(S) \in S /\ \A y \in S : Min(S) <= y
  <2> HIDE DEF S
  <2> QED
    BY <1>2, <1>3, MinOf
<1>6. PICK end \in S : end = KeyEnd(text, pos) /\ \A y \in S : end <= y
  BY <1>4, <1>5
<1>7. end \in pos..Len(text)+1 /\ (end <= Len(text) => IsReserved(text[end]))
  BY <1>1, <1>6
<1>8. \A p \in pos..end-1 : ~IsReserved(text[p])
  <2> SUFFICES ASSUME NEW p \in pos..end-1, IsReserved(text[p]) PROVE FALSE
    OBVIOUS
  <2>1. p \in pos..Len(text) /\ p < end
    BY <1>1, <1>7
  <2> QED
    BY <1>6, <1>7, <2>1
<1> QED
  BY <1>6, <1>7, <1>8

LEMMA DigitsEndFacts ==
  ASSUME NEW text, IsPath(text), NEW pos \in 1..Len(text)+1
  PROVE  LET end == DigitsEnd(text, pos)
         IN  /\ end \in pos..Len(text)+1
             /\ \A p \in pos..end-1 : IsDigit(text[p])
             /\ end <= Len(text) => ~IsDigit(text[end])
<1>1. Len(text) \in Nat
  BY PathFacts
<1> DEFINE S == {p \in pos..Len(text) : ~IsDigit(text[p])} \cup {Len(text) + 1}
<1>2. S \in SUBSET Int /\ S # {} /\ S \in SUBSET (pos..Len(text)+1)
  BY <1>1
<1>3. IsFiniteSet(S)
  <2>1. IsFiniteSet(pos..Len(text)+1)
    BY <1>1, FS_Interval
  <2> HIDE DEF S
  <2> QED
    BY <1>2, <2>1, FS_Subset
<1>4. DigitsEnd(text, pos) = Min(S)
  BY DEF DigitsEnd
<1>5. Min(S) \in S /\ \A y \in S : Min(S) <= y
  <2> HIDE DEF S
  <2> QED
    BY <1>2, <1>3, MinOf
<1>6. PICK end \in S : end = DigitsEnd(text, pos) /\ \A y \in S : end <= y
  BY <1>4, <1>5
<1>7. end \in pos..Len(text)+1 /\ (end <= Len(text) => ~IsDigit(text[end]))
  BY <1>1, <1>6
<1>8. \A p \in pos..end-1 : IsDigit(text[p])
  <2> SUFFICES ASSUME NEW p \in pos..end-1, ~IsDigit(text[p]) PROVE FALSE
    OBVIOUS
  <2>1. p \in pos..Len(text) /\ p < end
    BY <1>1, <1>7
  <2> QED
    BY <1>6, <1>7, <2>1
<1> QED
  BY <1>6, <1>7, <1>8

\* Where the run of a segment ends.
LEMMA EndOfRun ==
  ASSUME NEW text, IsPath(text), NEW i \in 1..Len(text), NEW j \in i..Len(text),
         j = Len(text) \/ IsReserved(text[j + 1]), \A k \in i+1..j : ~IsReserved(text[k])
  PROVE  EndOf(text, i) = j
<1>1. Len(text) \in Nat /\ i \in Int /\ j \in Int
  BY PathFacts
<1>2. ASSUME NEW m \in i..Len(text), m = Len(text) \/ IsReserved(text[m + 1]),
             \A k \in i+1..m : ~IsReserved(text[k])
      PROVE  m = j
  <2>1. CASE m < j
    <3>1. m # Len(text) /\ m + 1 \in i+1..j
      BY <1>1, <2>1
    <3> QED
      BY <1>2, <3>1
  <2>2. CASE j < m
    <3>1. j # Len(text) /\ j + 1 \in i+1..m
      BY <1>1, <2>2
    <3> QED
      BY <1>2, <3>1
  <2> QED
    BY <1>1, <2>1, <2>2
<1> DEFINE P(m) == /\ m = Len(text) \/ IsReserved(text[m + 1])
                   /\ \A k \in i+1..m : ~IsReserved(text[k])
<1>3. EndOf(text, i) = CHOOSE m \in i..Len(text) : P(m)
  BY Zenon DEF EndOf
<1>4. P(j) /\ \A m \in i..Len(text) : P(m) => m = j
  BY <1>2
<1> HIDE DEF P
<1> QED
  BY <1>3, <1>4

\* The starts are numbered from one in the order of the text.
LEMMA Places ==
  ASSUME NEW text, IsPath(text)
  PROVE  LET S == Starts(text)
         IN  /\ IsFiniteSet(S) /\ S \in SUBSET (1..Len(text)) /\ Cardinality(S) \in Nat
             /\ \A i \in S : SegmentPlace(text, i) \in 1..Cardinality(S)
             /\ \A i, j \in S : SegmentPlace(text, i) = SegmentPlace(text, j) => i = j
             /\ \A n \in 1..Cardinality(S) : \E i \in S : SegmentPlace(text, i) = n
<1> DEFINE S == Starts(text)
           R == {p \in S \X S : p[1] < p[2]}
           f == [x \in S |-> Rank(R, S, x)]
<1>1. Len(text) \in Nat /\ S \in SUBSET (1..Len(text)) /\ S \in SUBSET Int
  BY PathFacts DEF Starts
<1>2. IsFiniteSet(S) /\ Cardinality(S) \in Nat
  <2>1. IsFiniteSet(1..Len(text))
    BY <1>1, FS_Interval
  <2> QED
    BY <1>1, <2>1, FS_Subset, FS_CardinalityType
<1> HIDE DEF S
<1>3. IsStrictOrder(R, S)
  BY <1>1 DEF IsStrictOrder
<1>4. f \in Bijection(S, 0..Cardinality(S)-1)
  BY <1>2, <1>3, RankBijection
<1>5. /\ \A i \in S : f[i] \in 0..Cardinality(S)-1
      /\ \A i, j \in S : f[i] = f[j] => i = j
      /\ \A n \in 0..Cardinality(S)-1 : \E i \in S : f[i] = n
  BY <1>4 DEF Bijection, Injection, Surjection, IsInjective
<1>6. ASSUME NEW i \in S PROVE SegmentPlace(text, i) = f[i] + 1
  <2> DEFINE B == Before(R, S, i)
  <2>1. B = {h \in S : h < i}
    BY <1>1 DEF Before
  <2>2. {h \in S : h <= i} = B \cup {i} /\ i \notin B /\ B \in SUBSET S
    <3>1. \A h \in S : (h <= i <=> h < i \/ h = i) /\ ~(i < i)
      BY <1>1
    <3> HIDE DEF B
    <3> QED
      BY <2>1, <3>1, Zenon
  <2>3. IsFiniteSet(B)
    BY <1>2, <2>2, FS_Subset
  <2>4. f[i] = Cardinality(B)
    BY DEF Rank
  <2> HIDE DEF B, f
  <2>5. Cardinality(B \cup {i}) = Cardinality(B) + 1
    BY <2>2, <2>3, FS_AddElement
  <2>6. SegmentPlace(text, i) = Cardinality({h \in S : h <= i})
    BY DEF SegmentPlace, S
  <2> QED
    BY <2>2, <2>4, <2>5, <2>6
<1> HIDE DEF f
<1>7. \A i \in S : SegmentPlace(text, i) \in 1..Cardinality(S)
  BY <1>2, <1>5, <1>6
<1>8. \A i, j \in S : SegmentPlace(text, i) = SegmentPlace(text, j) => i = j
  BY <1>2, <1>5, <1>6
<1>9. ASSUME NEW n \in 1..Cardinality(S) PROVE \E i \in S : SegmentPlace(text, i) = n
  <2>1. n - 1 \in 0..Cardinality(S)-1 /\ n - 1 + 1 = n
    BY <1>2
  <2> QED
    BY <1>5, <1>6, <2>1
<1> QED
  BY <1>1, <1>2, <1>7, <1>8, <1>9 DEF S

\* At the place of a start the reading has its segment.
LEMMA ReadingAt ==
  ASSUME NEW text, IsPath(text), NEW i \in Starts(text)
  PROVE  /\ SegmentPlace(text, i) \in DOMAIN Reading(text)
         /\ Reading(text)[SegmentPlace(text, i)] = Segment(text, i)
<1> DEFINE n == SegmentPlace(text, i)
<1>1. n \in 1..Cardinality(Starts(text))
  BY Places
<1>2. (CHOOSE j \in Starts(text) : SegmentPlace(text, j) = n) = i
  BY Places
<1> HIDE DEF n
<1> QED
  BY <1>1, <1>2, Zenon DEF Reading, n

SegmentsUpto(text, pos, segs) ==
  /\ segs \in Seq({Segment(text, i) : i \in Starts(text)})
  /\ Len(segs) = Cardinality({i \in Starts(text) : i < pos})
  /\ \A i \in Starts(text) : i < pos => segs[SegmentPlace(text, i)] = Segment(text, i)

LEMMA AddSegment ==
  ASSUME NEW text, IsPath(text), NEW pos \in Starts(text), NEW segs, SegmentsUpto(text, pos, segs),
         NEW q \in Int, q > pos, \A i \in Starts(text) : i < q => i <= pos
  PROVE  SegmentsUpto(text, q, Append(segs, Segment(text, pos)))
<1> DEFINE S == Starts(text)
           B == {i \in S : i < pos}
           X == {Segment(text, i) : i \in S}
           new == Append(segs, Segment(text, pos))
<1>1. IsFiniteSet(S) /\ S \in SUBSET Int
  BY Places, PathFacts
<1>2. segs \in Seq(X) /\ Len(segs) = Cardinality(B) /\ Segment(text, pos) \in X
  BY DEF SegmentsUpto
<1> HIDE DEF S, X
<1>3. {i \in S : i < q} = B \cup {pos} /\ {h \in S : h <= pos} = B \cup {pos} /\ pos \notin B
  BY <1>1 DEF S
<1>4. IsFiniteSet(B) /\ Cardinality(B) \in Nat
  <2>1. B \in SUBSET S
    OBVIOUS
  <2> QED
    BY <1>1, <2>1, FS_Subset, FS_CardinalityType
<1>5. Cardinality(B \cup {pos}) = Cardinality(B) + 1
  <2> HIDE DEF B
  <2> QED
    BY <1>3, <1>4, FS_AddElement
<1>6. /\ new \in Seq(X) /\ Len(new) = Len(segs) + 1
      /\ new[Len(segs) + 1] = Segment(text, pos)
      /\ \A n \in 1..Len(segs) : new[n] = segs[n]
  <2> HIDE DEF B
  <2>1. Len(segs) \in Nat
    BY <1>2, LenProperties
  <2> QED
    BY <1>2, <2>1, AppendProperties
<1>7. SegmentPlace(text, pos) = Len(segs) + 1
  BY <1>2, <1>3, <1>5 DEF SegmentPlace, S
<1>8. ASSUME NEW i \in S, i < pos
      PROVE  /\ SegmentPlace(text, i) \in 1..Len(segs)
             /\ segs[SegmentPlace(text, i)] = Segment(text, i)
  <2>1. {h \in S : h <= i} \in SUBSET B
    BY <1>1, <1>8 DEF S
  <2>2. Cardinality({h \in S : h <= i}) <= Cardinality(B)
    BY <1>4, <2>1, FS_Subset
  <2>3. SegmentPlace(text, i) \in 1..Cardinality(S)
    BY Places DEF S
  <2>4. SegmentPlace(text, i) <= Len(segs)
    BY <1>2, <2>2 DEF SegmentPlace, S
  <2>5. segs[SegmentPlace(text, i)] = Segment(text, i)
    BY <1>8 DEF SegmentsUpto, S
  <2> QED
    BY <1>2, <1>4, <2>3, <2>4, <2>5
<1>9. ASSUME NEW i \in S, i < q PROVE new[SegmentPlace(text, i)] = Segment(text, i)
  <2>1. i <= pos
    BY <1>9 DEF S
  <2>2. CASE i = pos
    BY <1>6, <1>7, <2>2
  <2>3. CASE i < pos
    BY <1>6, <1>8, <2>3
  <2>4. i \in Int /\ pos \in Int
    BY <1>1 DEF S
  <2>5. i = pos \/ i < pos
    BY <2>1, <2>4
  <2> QED
    BY <2>2, <2>3, <2>5, Zenon
<1> HIDE DEF new
<1> QED
  BY <1>2, <1>3, <1>5, <1>6, <1>9, Zenon DEF SegmentsUpto, S, X, new

\* Nothing starts at the position: the segments are still those before it.
LEMMA NoSegment ==
  ASSUME NEW text, IsPath(text), NEW pos \in Int, NEW segs, SegmentsUpto(text, pos, segs),
         pos \notin Starts(text)
  PROVE  SegmentsUpto(text, pos + 1, segs)
<1>1. Starts(text) \in SUBSET Int
  BY Places, PathFacts
<1>2. \A i \in Starts(text) : i < pos + 1 <=> i < pos
  BY <1>1
<1>3. {i \in Starts(text) : i < pos + 1} = {i \in Starts(text) : i < pos}
  BY <1>2
<1> QED
  BY <1>2, <1>3, Zenon DEF SegmentsUpto

\* All starts are behind: the segments are the reading.
LEMMA AllSegments ==
  ASSUME NEW text, IsPath(text), NEW segs, SegmentsUpto(text, Len(text) + 1, segs)
  PROVE  segs = Reading(text)
<1> DEFINE S == Starts(text)
           X == {Segment(text, i) : i \in S}
           c == Cardinality(S)
<1>1. S \in SUBSET (1..Len(text)) /\ Len(text) \in Nat /\ c \in Nat
  BY Places, PathFacts
<1>2. {i \in S : i < Len(text) + 1} = S
  BY <1>1
<1>3. segs \in Seq(X) /\ Len(segs) = c
  BY <1>2, Zenon DEF SegmentsUpto
<1>4. DOMAIN segs = 1..c /\ segs = [n \in 1..c |-> segs[n]]
  <2> HIDE DEF X, c
  <2> QED
    BY <1>3, LenProperties
<1>5. ASSUME NEW n \in 1..c PROVE segs[n] = Reading(text)[n]
  <2>1. PICK i \in S : SegmentPlace(text, i) = n
    BY Places
  <2>2. i < Len(text) + 1
    BY <1>1
  <2>3. segs[n] = Segment(text, i)
    BY <2>1, <2>2 DEF SegmentsUpto
  <2> QED
    BY <2>1, <2>3, ReadingAt
<1>6. Reading(text) = [n \in 1..c |-> Reading(text)[n]]
  BY DEF Reading
<1> HIDE DEF c
<1> QED
  BY <1>4, <1>5, <1>6, Zenon

\* What the grammar asks of the byte at a position.
FormAt(text, i) ==
  /\ text[i] = "." => KeyByte(text, i + 1) /\ text[i-1] # "."
  /\ text[i] = "[" => /\ text[i-1] # "."
                      /\ \E j \in DOMAIN text : Bracketed(text, i, j)
  /\ text[i] = "]" => /\ \E h \in DOMAIN text : Bracketed(text, h, i)
                      /\ ~KeyByte(text, i + 1)

\* No bracket that opens before the position closes behind it.
Closed(text, pos) ==
  \A h, j \in DOMAIN text : Bracketed(text, h, j) /\ h < pos => j < pos

\* In front of a key: the start of the text, or a dot behind another byte.
BeforeKey(text, pos) ==
  pos = 1 \/ (pos > 1 /\ KeyByte(text, 1) /\ text[pos-1] = "." /\ text[pos-2] # "."
              /\ \A i \in 1..pos-2 : FormAt(text, i))

\* Behind a key or an index.
BehindSegment(text, pos) ==
  /\ pos > 1 /\ KeyByte(text, 1)
  /\ \A i \in 1..pos-2 : FormAt(text, i)
  /\ \/ KeyByte(text, pos - 1) /\ (pos <= Len(text) => IsReserved(text[pos]))
     \/ text[pos-1] = "]" /\ \E h \in DOMAIN text : Bracketed(text, h, pos - 1)

IndicesFit(segs) ==
  \A n \in DOMAIN segs : segs[n].kind = "Index" => segs[n].index <= MaxIndex

OpenInv(text, next, pos, segs) ==
  /\ pos \in 1..Len(text)+1 /\ Closed(text, pos)
  /\ SegmentsUpto(text, pos, segs) /\ IndicesFit(segs)
  /\ \/ next = "key" /\ BeforeKey(text, pos)
     \/ next = "index" /\ BehindSegment(text, pos)

\* What is known of a call after some rounds.
ParseInv(text, s) ==
  \/ s = Grammar(text)
  \/ \E next, pos, segs : s = State(next, pos, segs) /\ OpenInv(text, next, pos, segs)

LEMMA StateFields ==
  ASSUME NEW next, NEW pos, NEW segs
  PROVE  /\ State(next, pos, segs).next = next /\ State(next, pos, segs).pos = pos
         /\ State(next, pos, segs).segments = segs
  BY DEF State

LEMMA WellFormedByPosition ==
  ASSUME NEW text
  PROVE  WellFormed(text) <=> KeyByte(text, 1) /\ \A i \in DOMAIN text : FormAt(text, i)
  BY Zenon DEF WellFormed, FormAt

\* A text with a wrong byte has no reading.
LEMMA WrongByte ==
  ASSUME NEW text, ~WellFormed(text)
  PROVE  ParseInv(text, InvalidPath)
  BY Zenon DEF ParseInv, Grammar

\* Only the bracket behind the digits closes them.
LEMMA BracketEnds ==
  ASSUME NEW text, IsPath(text), NEW pos \in 1..Len(text), text[pos] = "[",
         NEW j \in DOMAIN text
  PROVE  LET last == DigitsEnd(text, pos + 1)
         IN  Bracketed(text, pos, j) <=> j = last /\ last > pos + 1 /\ text[last] = "]"
<1> DEFINE last == DigitsEnd(text, pos + 1)
<1>1. Len(text) \in Nat /\ DOMAIN text = 1..Len(text) /\ pos + 1 \in 1..Len(text)+1
  BY PathFacts
<1>2. /\ last \in pos+1..Len(text)+1
      /\ \A p \in pos+1..last-1 : IsDigit(text[p])
      /\ last <= Len(text) => ~IsDigit(text[last])
  BY <1>1, DigitsEndFacts
<1> HIDE DEF last
<1>3. ASSUME Bracketed(text, pos, j) PROVE j = last /\ last > pos + 1 /\ text[last] = "]"
  <2>1. text[j] = "]" /\ pos + 1 < j /\ \A k \in pos+1..j-1 : IsDigit(text[k])
    BY <1>3 DEF Bracketed
  <2>2. ~IsDigit(text[j])
    BY <2>1, ByteFacts
  <2>3. ~(j < last)
    <3> SUFFICES ASSUME j < last PROVE FALSE
      OBVIOUS
    <3>1. j \in pos+1..last-1
      BY <1>1, <1>2, <2>1
    <3> QED
      BY <1>2, <2>2, <3>1
  <2>4. ~(last < j)
    <3> SUFFICES ASSUME last < j PROVE FALSE
      OBVIOUS
    <3>1. last \in pos+1..j-1 /\ last <= Len(text)
      BY <1>1, <1>2
    <3> QED
      BY <1>2, <2>1, <3>1
  <2>5. j = last
    BY <1>1, <1>2, <2>3, <2>4
  <2> QED
    BY <2>1, <2>5
<1>4. ASSUME j = last, last > pos + 1, text[last] = "]" PROVE Bracketed(text, pos, j)
  BY <1>1, <1>2, <1>4 DEF Bracketed
<1> QED
  BY <1>3, <1>4 DEF last

LEMMA FitAppend ==
  ASSUME NEW X, NEW segs \in Seq(X), IndicesFit(segs), NEW x \in X,
         x.kind = "Index" => x.index <= MaxIndex
  PROVE  IndicesFit(Append(segs, x))
<1> DEFINE new == Append(segs, x)
<1>1. /\ new \in Seq(X) /\ Len(new) = Len(segs) + 1 /\ Len(segs) \in Nat
      /\ new[Len(segs) + 1] = x /\ \A n \in 1..Len(segs) : new[n] = segs[n]
  BY AppendProperties, LenProperties
<1>2. DOMAIN new = 1..Len(segs)+1 /\ DOMAIN segs = 1..Len(segs)
  BY <1>1, LenProperties
<1> HIDE DEF new
<1>3. ASSUME NEW n \in DOMAIN new, new[n].kind = "Index" PROVE new[n].index <= MaxIndex
  <2>1. CASE n = Len(segs) + 1
    BY <1>1, <1>3, <2>1
  <2>2. CASE n \in 1..Len(segs)
    <3>1. new[n] = segs[n] /\ n \in DOMAIN segs
      BY <1>1, <1>2, <2>2
    <3> QED
      BY <1>3, <3>1, Zenon DEF IndicesFit
  <2> QED
    BY <1>1, <1>2, <2>1, <2>2
<1> QED
  BY <1>3, Zenon DEF IndicesFit, new

\* A byte of a key asks nothing.
LEMMA PlainByte ==
  ASSUME NEW text, NEW i, ~IsReserved(text[i])
  PROVE  FormAt(text, i) /\ text[i] # "[" /\ text[i] # "." /\ text[i] # "]"
  BY ByteFacts, Zenon DEF FormAt

LEMMA KeyKeeps ==
  ASSUME NEW text, IsPath(text), NEW pos, NEW segs, OpenInv(text, "key", pos, segs)
  PROVE  ParseInv(text, ParseKey(text, State("key", pos, segs)))
<1> DEFINE end == KeyEnd(text, pos)
           seg == KeySegment(SubSeq(text, pos, end - 1))
<1>1. /\ Len(text) \in Nat /\ DOMAIN text = 1..Len(text) /\ pos \in 1..Len(text)+1
      /\ Closed(text, pos) /\ SegmentsUpto(text, pos, segs) /\ IndicesFit(segs)
      /\ BeforeKey(text, pos)
  BY PathFacts DEF OpenInv
<1>2. /\ end \in pos..Len(text)+1
      /\ \A p \in pos..end-1 : ~IsReserved(text[p])
      /\ end <= Len(text) => IsReserved(text[end])
  BY <1>1, KeyEndFacts
<1>3. ParseKey(text, State("key", pos, segs)) =
        IF end = pos THEN InvalidPath ELSE State("index", end, Append(segs, seg))
  <2> DEFINE s == State("key", pos, segs)
  <2>1. s.pos = pos /\ s.segments = segs
    BY StateFields
  <2> HIDE DEF s
  <2>2. ParseKey(text, s) = IF end = pos THEN InvalidPath
                            ELSE State("index", end, Append(segs, seg))
    BY <2>1, Zenon DEF ParseKey
  <2> QED
    BY <2>2 DEF s
<1> HIDE DEF end, seg
<1>4. CASE end = pos
  <2>1. ~KeyByte(text, pos)
    BY <1>1, <1>2, <1>4 DEF KeyByte
  <2>2. ASSUME pos # 1, WellFormed(text) PROVE FALSE
    <3>1. pos - 1 \in DOMAIN text /\ text[pos-1] = "." /\ pos - 1 + 1 = pos
      BY <1>1, <2>2 DEF BeforeKey
    <3>2. FormAt(text, pos - 1)
      BY <2>2, <3>1, WellFormedByPosition
    <3> QED
      BY <2>1, <3>1, <3>2, Zenon DEF FormAt
  <2>3. ~WellFormed(text)
    BY <2>1, <2>2, WellFormedByPosition
  <2> QED
    BY <1>3, <1>4, <2>3, WrongByte
<1>5. CASE end # pos
  <2>1. /\ pos < end /\ pos \in 1..Len(text) /\ end - 1 \in pos..Len(text) /\ end - 1 + 1 = end
        /\ end \in Int /\ pos \in Int
    BY <1>1, <1>2, <1>5
  <2>2. \A p \in pos..end-1 : KeyByte(text, p) /\ text[p] # "["
    <3>1. \A p \in pos..end-1 : p \in DOMAIN text
      BY <1>1, <2>1
    <3> QED
      BY <1>2, <3>1, PlainByte DEF KeyByte
  <2>3. KeyByte(text, pos) /\ text[pos] # "["
    BY <2>1, <2>2
  <2>4. ~KeyByte(text, pos - 1)
    <3>1. CASE pos = 1
      BY <1>1, <3>1 DEF KeyByte
    <3>2. CASE text[pos-1] = "."
      BY <3>2, ByteFacts DEF KeyByte
    <3> QED
      BY <1>1, <3>1, <3>2 DEF BeforeKey
  <2>5. pos \in Starts(text)
    <3>1. ~InBrackets(text, pos)
      BY <1>1, <2>1 DEF InBrackets, Closed
    <3> QED
      BY <1>1, <2>1, <2>3, <2>4, <3>1 DEF Starts
  <2>6. ASSUME NEW i \in Starts(text), i < end PROVE i <= pos
    <3> SUFFICES ASSUME i > pos PROVE FALSE
      BY <1>1, <2>1 DEF Starts
    <3>1. i \in pos..end-1 /\ i - 1 \in pos..end-1
      BY <1>1, <2>1, <2>6 DEF Starts
    <3>2. text[i] # "[" /\ KeyByte(text, i - 1)
      BY <2>2, <3>1
    <3> QED
      BY <3>2 DEF Starts
  <2>7. Segment(text, pos) = seg
    <3>1. end - 1 = Len(text) \/ IsReserved(text[end - 1 + 1])
      <4>1. end - 1 = Len(text) \/ end <= Len(text)
        BY <1>1, <2>1
      <4> QED
        BY <1>2, <2>1, <4>1, Zenon
    <3>2. \A k \in pos+1..end-1 : ~IsReserved(text[k])
      BY <1>1, <1>2, <2>1
    <3>3. EndOf(text, pos) = end - 1
      BY <2>1, <3>1, <3>2, EndOfRun
    <3> QED
      BY <2>3, <3>3, Zenon DEF Segment, seg
  <2>8. SegmentsUpto(text, end, Append(segs, seg))
    BY <1>1, <2>1, <2>5, <2>6, <2>7, AddSegment
  <2>9. IndicesFit(Append(segs, seg))
    <3> DEFINE X == {Segment(text, i) : i \in Starts(text)}
    <3>1. segs \in Seq(X) /\ seg \in X
      BY <1>1, <2>5, <2>7 DEF SegmentsUpto
    <3>2. seg.kind # "Index"
      BY DEF seg, KeySegment
    <3> HIDE DEF X
    <3> QED
      BY <1>1, <3>1, <3>2, FitAppend
  <2>10. Closed(text, end)
    <3> SUFFICES ASSUME NEW h \in DOMAIN text, NEW j \in DOMAIN text,
                        Bracketed(text, h, j), h < end
                 PROVE  j < end
      BY DEF Closed
    <3>1. text[h] = "["
      BY DEF Bracketed
    <3>2. h \notin pos..end-1
      BY <2>2, <3>1
    <3>3. h < pos
      BY <1>1, <2>1, <3>2
    <3>4. j < pos
      BY <1>1, <3>3 DEF Closed
    <3> QED
      BY <1>1, <2>1, <3>4
  <2>11. BehindSegment(text, end)
    <3>1. KeyByte(text, 1)
      BY <1>1, <2>3 DEF BeforeKey
    <3>2. ASSUME NEW i \in 1..end-2 PROVE FormAt(text, i)
      <4>1. CASE i >= pos
        <5>1. i \in pos..end-1
          BY <2>1, <4>1
        <5> QED
          BY <1>2, <5>1, PlainByte
      <4>2. CASE i = pos - 1
        <5>1. /\ text[i] = "." /\ text[i-1] # "." /\ i + 1 = pos
          <6>1. pos # 1 /\ i - 1 = pos - 2 /\ i + 1 = pos
            BY <2>1, <4>2
          <6> QED
            BY <1>1, <4>2, <6>1 DEF BeforeKey
        <5> QED
          BY <2>3, <5>1, Zenon DEF FormAt
      <4>3. CASE i < pos - 1
        <5>1. i \in 1..pos-2 /\ pos # 1
          BY <2>1, <4>3
        <5> QED
          BY <1>1, <5>1 DEF BeforeKey
      <4> QED
        BY <2>1, <4>1, <4>2, <4>3
    <3>3. KeyByte(text, end - 1) /\ end > 1
      BY <2>1, <2>2
    <3> QED
      BY <1>2, <3>1, <3>2, <3>3 DEF BehindSegment
  <2>12. end \in 1..Len(text)+1
    BY <1>1, <1>2
  <2>13. OpenInv(text, "index", end, Append(segs, seg))
    BY <2>8, <2>9, <2>10, <2>11, <2>12, Zenon DEF OpenInv
  <2> QED
    BY <1>3, <1>5, <2>13, Zenon DEF ParseInv
<1> QED
  BY <1>4, <1>5

\* Behind a segment and in front of what is no key, all bytes are in order.
LEMMA FormBefore ==
  ASSUME NEW text, NEW pos \in Nat, BehindSegment(text, pos), ~KeyByte(text, pos)
  PROVE  /\ \A i \in 1..pos-1 : FormAt(text, i)
         /\ text[pos-1] # "."
<1>1. ASSUME NEW i \in 1..pos-1 PROVE FormAt(text, i)
  <2>1. CASE i < pos - 1
    <3>1. i \in 1..pos-2
      BY <2>1
    <3> QED
      BY <3>1 DEF BehindSegment
  <2>2. CASE i = pos - 1
    <3>1. CASE KeyByte(text, pos - 1)
      BY <2>2, <3>1, PlainByte DEF KeyByte
    <3>2. CASE text[pos-1] = "]" /\ \E h \in DOMAIN text : Bracketed(text, h, pos - 1)
      <4>1. i + 1 = pos
        BY <2>2
      <4> QED
        BY <2>2, <3>2, <4>1, Zenon DEF FormAt
    <3> QED
      BY <3>1, <3>2 DEF BehindSegment
  <2> QED
    BY <2>1, <2>2
<1>2. text[pos-1] # "."
  BY PlainByte DEF BehindSegment, KeyByte
<1> QED
  BY <1>1, <1>2

LEMMA IndexKeeps ==
  ASSUME NEW text, IsPath(text), NEW pos, NEW segs, OpenInv(text, "index", pos, segs),
         pos <= Len(text), text[pos] = "["
  PROVE  ParseInv(text, ParseIndex(text, State("index", pos, segs)))
<1> DEFINE last == DigitsEnd(text, pos + 1)
           digits == SubSeq(text, pos + 1, last - 1)
           seg == IndexSegment(Decimal(digits))
           wrong == \/ last = pos + 1 \/ last > Len(text) \/ text[last] # "]"
                    \/ ~(Decimal(digits) <= MaxIndex)
<1>1. /\ Len(text) \in Nat /\ DOMAIN text = 1..Len(text) /\ pos \in 1..Len(text)
      /\ pos \in Int /\ Closed(text, pos) /\ SegmentsUpto(text, pos, segs) /\ IndicesFit(segs)
      /\ BehindSegment(text, pos) /\ pos + 1 \in 1..Len(text)+1
  BY PathFacts DEF OpenInv
<1>2. /\ last \in pos+1..Len(text)+1 /\ last \in Int
      /\ \A p \in pos+1..last-1 : IsDigit(text[p])
  BY <1>1, DigitsEndFacts
<1>3. ParseIndex(text, State("index", pos, segs)) =
        IF wrong THEN InvalidPath ELSE State("index", last + 1, Append(segs, seg))
  <2> DEFINE s == State("index", pos, segs)
             number == FromChars(digits)
  <2>1. s.pos = pos /\ s.segments = segs
    BY StateFields
  <2>2. (number.ok <=> Decimal(digits) <= MaxIndex) /\ number.value = Decimal(digits)
    BY DEF FromChars
  <2>3. ParseIndex(text, s) =
          IF last = s.pos + 1 \/ last > Len(text) \/ text[last] # "]" \/ ~number.ok
          THEN InvalidPath
          ELSE State("index", last + 1, Append(s.segments, IndexSegment(number.value)))
    <3> HIDE DEF s
    <3> QED
      BY <2>1, Zenon DEF ParseIndex
  <2> HIDE DEF s, number, last, digits
  <2> QED
    BY <2>1, <2>2, <2>3, Zenon DEF s
<1> HIDE DEF last, digits, seg, wrong
<1>4. \A j \in DOMAIN text :
        Bracketed(text, pos, j) <=> j = last /\ last > pos + 1 /\ text[last] = "]"
  BY <1>1, BracketEnds DEF last
<1>5. pos \in Starts(text)
  BY <1>1 DEF Starts
<1>8. /\ \A i \in 1..pos-1 : FormAt(text, i)
      /\ text[pos-1] # "."
  <2>1. ~KeyByte(text, pos)
    BY ByteFacts DEF KeyByte
  <2> QED
    BY <1>1, <2>1, FormBefore
<1>6. CASE last = pos + 1 \/ last > Len(text) \/ text[last] # "]"
  <2>1. \A j \in DOMAIN text : ~Bracketed(text, pos, j)
    BY <1>1, <1>2, <1>4, <1>6
  <2>2. ~FormAt(text, pos)
    BY <2>1 DEF FormAt
  <2>3. ~WellFormed(text)
    BY <1>1, <2>2, WellFormedByPosition
  <2>4. wrong
    BY <1>6 DEF wrong
  <2> QED
    BY <1>3, <2>3, <2>4, WrongByte
<1>7. CASE last > pos + 1 /\ last <= Len(text) /\ text[last] = "]"
  <2>1. /\ last \in DOMAIN text /\ last - 1 \in pos..Len(text) /\ last - 1 + 1 = last
        /\ last + 1 - 1 = last /\ last + 1 - 2 = last - 1 /\ last + 1 \in 1..Len(text)+1
    BY <1>1, <1>2, <1>7
  <2>2. Bracketed(text, pos, last)
    BY <1>4, <1>7, <2>1
  <2>3. \A k \in pos+1..last-1 : ~IsReserved(text[k]) /\ text[k] # "["
    BY <1>2, ByteFacts, PlainByte
  <2>4. Segment(text, pos) = seg
    <3>1. IsReserved(text[last - 1 + 1])
      BY <1>7, <2>1, ByteFacts
    <3>2. EndOf(text, pos) = last - 1
      BY <1>1, <2>1, <2>3, <3>1, EndOfRun
    <3> QED
      BY <3>2, Zenon DEF Segment, seg, digits
  <2>5. CASE ~(Decimal(digits) <= MaxIndex)
    <3>1. seg.kind = "Index" /\ seg.index = Decimal(digits)
      BY DEF seg, IndexSegment
    <3>2. PICK n \in DOMAIN Reading(text) : Reading(text)[n] = seg
      BY <1>5, <2>4, ReadingAt
    <3>3. Reading(text)[n].kind = "Index" /\ ~(Reading(text)[n].index <= MaxIndex)
      BY <2>5, <3>1, <3>2
    <3>4. Grammar(text) = InvalidPath
      BY <3>3, Zenon DEF Grammar
    <3>5. wrong
      BY <2>5 DEF wrong
    <3> QED
      BY <1>3, <3>4, <3>5, Zenon DEF ParseInv
  <2>6. CASE Decimal(digits) <= MaxIndex
    <3>1. ~wrong
      BY <1>1, <1>2, <1>7, <2>6 DEF wrong
    <3>2. ASSUME NEW i \in Starts(text), i < last + 1 PROVE i <= pos
      <4> SUFFICES ASSUME i > pos PROVE FALSE
        BY <1>1 DEF Starts
      <4>0. i \in DOMAIN text /\ i \in Int
        BY <1>1 DEF Starts
      <4>1. CASE i = last
        BY <1>7, <4>1, ByteFacts DEF Starts, KeyByte
      <4>2. CASE i # last
        <5>1. i \in pos+1..last-1 /\ i < last
          BY <1>1, <1>2, <3>2, <4>0, <4>2
        <5>2. InBrackets(text, i)
          BY <1>1, <2>1, <2>2, <5>1 DEF InBrackets
        <5> QED
          BY <2>3, <5>1, <5>2 DEF Starts
      <4> QED
        BY <4>1, <4>2
    <3>3. SegmentsUpto(text, last + 1, Append(segs, seg))
      <4>1. last + 1 \in Int /\ last + 1 > pos
        BY <1>1, <1>2
      <4> QED
        BY <1>1, <1>5, <2>4, <3>2, <4>1, AddSegment
    <3>4. IndicesFit(Append(segs, seg))
      <4> DEFINE X == {Segment(text, i) : i \in Starts(text)}
      <4>1. segs \in Seq(X) /\ seg \in X
        BY <1>1, <1>5, <2>4 DEF SegmentsUpto
      <4>2. seg.kind = "Index" => seg.index <= MaxIndex
        BY <2>6 DEF seg, IndexSegment
      <4> HIDE DEF X
      <4> QED
        BY <1>1, <4>1, <4>2, FitAppend
    <3>5. Closed(text, last + 1)
      <4> SUFFICES ASSUME NEW h \in DOMAIN text, NEW j \in DOMAIN text,
                          Bracketed(text, h, j), h < last + 1
                   PROVE  j < last + 1
        BY DEF Closed
      <4>1. text[h] = "["
        BY DEF Bracketed
      <4>2. CASE h < pos
        <5>1. j < pos
          BY <1>1, <4>2 DEF Closed
        <5> QED
          BY <1>1, <1>2, <5>1
      <4>3. CASE h = pos
        <5>1. j = last
          BY <1>4, <4>3
        <5> QED
          BY <1>2, <5>1
      <4>4. CASE h > pos
        <5>1. h # last
          BY <1>7, <4>1
        <5>2. h \in pos+1..last-1
          BY <1>1, <1>2, <4>4, <5>1
        <5> QED
          BY <2>3, <4>1, <5>2
      <4> QED
        BY <1>1, <4>2, <4>3, <4>4
    <3>6. BehindSegment(text, last + 1)
      <4>1. ASSUME NEW i \in 1..last-1 PROVE FormAt(text, i)
        <5>1. CASE i < pos
          BY <1>1, <1>8, <5>1
        <5>2. CASE i = pos
          BY <1>8, <2>1, <2>2, <5>2 DEF FormAt
        <5>3. CASE i > pos
          <6>1. i \in pos+1..last-1
            BY <1>1, <1>2, <5>3
          <6> QED
            BY <2>3, <6>1, PlainByte
        <5> QED
          BY <1>1, <5>1, <5>2, <5>3
      <4>2. last + 1 > 1
        BY <1>1, <1>2
      <4> QED
        BY <1>1, <1>7, <2>1, <2>2, <4>1, <4>2 DEF BehindSegment
    <3>7. OpenInv(text, "index", last + 1, Append(segs, seg))
      BY <2>1, <3>3, <3>4, <3>5, <3>6, Zenon DEF OpenInv
    <3> QED
      BY <1>3, <3>1, <3>7, Zenon DEF ParseInv
  <2> QED
    BY <2>5, <2>6
<1> QED
  BY <1>1, <1>2, <1>6, <1>7

LEMMA NextKeeps ==
  ASSUME NEW text, IsPath(text), NEW pos, NEW segs, OpenInv(text, "index", pos, segs),
         ~(pos <= Len(text) /\ text[pos] = "[")
  PROVE  ParseInv(text, ParseNext(text, State("index", pos, segs)))
<1>1. /\ Len(text) \in Nat /\ DOMAIN text = 1..Len(text) /\ pos \in 1..Len(text)+1
      /\ pos \in Nat /\ Closed(text, pos) /\ SegmentsUpto(text, pos, segs) /\ IndicesFit(segs)
      /\ BehindSegment(text, pos) /\ pos > 1
  BY PathFacts DEF OpenInv, BehindSegment
<1>2. ParseNext(text, State("index", pos, segs)) =
        IF pos > Len(text) THEN Parsed(segs)
        ELSE IF text[pos] = "." THEN State("key", pos + 1, segs)
        ELSE InvalidPath
  <2> DEFINE s == State("index", pos, segs)
  <2>1. s.pos = pos /\ s.segments = segs
    BY StateFields
  <2> HIDE DEF s
  <2>2. ParseNext(text, s) = IF pos > Len(text) THEN Parsed(segs)
                             ELSE IF text[pos] = "." THEN State("key", pos + 1, segs)
                             ELSE InvalidPath
    BY <2>1, Zenon DEF ParseNext
  <2> QED
    BY <2>2 DEF s
<1>3. CASE pos > Len(text)
  <2>1. pos = Len(text) + 1 /\ pos - 1 = Len(text) /\ ~KeyByte(text, pos)
    BY <1>1, <1>3 DEF KeyByte
  <2>2. \A i \in DOMAIN text : FormAt(text, i)
    BY <1>1, <2>1, FormBefore
  <2>3. WellFormed(text)
    BY <1>1, <2>2, WellFormedByPosition DEF BehindSegment
  <2>4. segs = Reading(text)
    BY <1>1, <2>1, AllSegments
  <2>5. Grammar(text) = Parsed(segs)
    BY <1>1, <2>3, <2>4, Zenon DEF Grammar, IndicesFit
  <2> QED
    BY <1>2, <1>3, <2>5, Zenon DEF ParseInv
<1>4. CASE pos <= Len(text) /\ text[pos] = "."
  <2>1. /\ pos + 1 \in 1..Len(text)+1 /\ pos + 1 > 1 /\ pos + 1 - 1 = pos
        /\ pos + 1 - 2 = pos - 1 /\ pos \in Int
    BY <1>1, <1>4
  <2>2. ~KeyByte(text, pos) /\ pos \notin Starts(text)
    BY <1>4, ByteFacts DEF KeyByte, Starts
  <2>3. (\A i \in 1..pos-1 : FormAt(text, i)) /\ text[pos-1] # "."
    BY <1>1, <2>2, FormBefore
  <2>4. SegmentsUpto(text, pos + 1, segs)
    BY <1>1, <2>1, <2>2, NoSegment
  <2>5. Closed(text, pos + 1)
    <3> SUFFICES ASSUME NEW h \in DOMAIN text, NEW j \in DOMAIN text,
                        Bracketed(text, h, j), h < pos + 1
                 PROVE  j < pos + 1
      BY DEF Closed
    <3>1. h # pos
      BY <1>4 DEF Bracketed
    <3>2. h < pos
      BY <1>1, <3>1
    <3>3. j < pos
      BY <1>1, <3>2 DEF Closed
    <3> QED
      BY <1>1, <3>3
  <2>6. BeforeKey(text, pos + 1)
    BY <1>1, <1>4, <2>1, <2>3 DEF BeforeKey, BehindSegment
  <2>7. OpenInv(text, "key", pos + 1, segs)
    BY <1>1, <2>1, <2>4, <2>5, <2>6, Zenon DEF OpenInv
  <2>8. ~(pos > Len(text))
    BY <1>1, <1>4
  <2> QED
    BY <1>2, <1>4, <2>7, <2>8, Zenon DEF ParseInv
<1>5. CASE pos <= Len(text) /\ text[pos] # "."
  <2>1. pos \in DOMAIN text /\ text[pos] # "[" /\ ~(pos > Len(text))
    BY <1>1, <1>5
  <2>2. ASSUME IsReserved(text[pos]) PROVE ~FormAt(text, pos)
    <3>1. text[pos] = "]"
      BY <1>5, <2>1, <2>2, ByteFacts
    <3>2. ASSUME NEW h \in DOMAIN text, Bracketed(text, h, pos) PROVE FALSE
      <4>1. h + 1 < pos
        BY <3>2 DEF Bracketed
      <4>2. h < pos
        BY <1>1, <4>1
      <4>3. pos < pos
        BY <1>1, <2>1, <3>2, <4>2 DEF Closed
      <4> QED
        BY <1>1, <4>3
    <3> QED
      BY <3>1, <3>2 DEF FormAt
  <2>3. ASSUME ~IsReserved(text[pos]) PROVE pos - 1 \in DOMAIN text /\ ~FormAt(text, pos - 1)
    <3>1. KeyByte(text, pos) /\ pos - 1 + 1 = pos /\ pos - 1 \in DOMAIN text
      BY <1>1, <2>1, <2>3 DEF KeyByte
    <3>2. text[pos-1] = "]"
      BY <1>1, <1>5, <2>3 DEF BehindSegment
    <3> QED
      BY <3>1, <3>2, Zenon DEF FormAt
  <2>4. ~WellFormed(text)
    BY <2>1, <2>2, <2>3, WellFormedByPosition
  <2> QED
    BY <1>2, <1>5, <2>1, <2>4, WrongByte
<1> QED
  BY <1>1, <1>3, <1>4, <1>5

LEMMA ParseStarts ==
  ASSUME NEW text, IsPath(text)
  PROVE  ParseInv(text, StartParse(text))
<1>1. Len(text) \in Nat /\ DOMAIN text = 1..Len(text) /\ (text = <<>> <=> Len(text) = 0)
  BY PathFacts
<1>2. CASE text = <<>>
  <2>1. ~KeyByte(text, 1)
    BY <1>1, <1>2 DEF KeyByte
  <2>2. ~WellFormed(text)
    BY <2>1, WellFormedByPosition
  <2> QED
    BY <1>2, <2>2, WrongByte DEF StartParse
<1>3. CASE text # <<>>
  <2>1. Closed(text, 1) /\ BeforeKey(text, 1) /\ 1 \in 1..Len(text)+1
    BY <1>1 DEF Closed, BeforeKey
  <2>2. SegmentsUpto(text, 1, <<>>)
    <3>1. Starts(text) \in SUBSET (1..Len(text))
      BY Places
    <3>2. \A i \in Starts(text) : ~(i < 1)
      BY <1>1, <3>1
    <3>3. {i \in Starts(text) : i < 1} = {}
      BY <3>2
    <3>4. Cardinality({}) = 0 /\ Len(<<>>) = 0
      BY FS_EmptySet
    <3>5. <<>> \in Seq({Segment(text, i) : i \in Starts(text)})
      BY EmptySeq
    <3> QED
      BY <3>2, <3>3, <3>4, <3>5, Zenon DEF SegmentsUpto
  <2>3. IndicesFit(<<>>)
    BY DEF IndicesFit
  <2>4. OpenInv(text, "key", 1, <<>>)
    BY <2>1, <2>2, <2>3, Zenon DEF OpenInv
  <2> QED
    BY <1>3, <2>4, Zenon DEF StartParse, ParseInv
<1> QED
  BY <1>2, <1>3

\* The reference ends a call; an open one has not ended.
LEMMA ParseEnds ==
  ASSUME NEW text
  PROVE  /\ ParseEnded(Grammar(text))
         /\ \A next, pos, segs : OpenInv(text, next, pos, segs) =>
              ~ParseEnded(State(next, pos, segs))
<1>1. ParseEnded(Grammar(text))
  <2>1. ParseEnded(InvalidPath) /\ ParseEnded(Parsed(Reading(text)))
    BY StateFields DEF ParseEnded, InvalidPath, Parsed
  <2> QED
    BY <2>1, Zenon DEF Grammar
<1>2. ASSUME NEW next, NEW pos, NEW segs, OpenInv(text, next, pos, segs)
      PROVE  ~ParseEnded(State(next, pos, segs))
  <2>1. next \in {"key", "index"}
    BY <1>2, Zenon DEF OpenInv
  <2> QED
    BY <2>1, StateFields DEF ParseEnded
<1> QED
  BY <1>1, <1>2

LEMMA ParseKeeps ==
  ASSUME NEW text, IsPath(text), NEW s, ParseInv(text, s), ~ParseEnded(s)
  PROVE  ParseInv(text, ParseStep(text, s))
<1>1. PICK next, pos, segs : s = State(next, pos, segs) /\ OpenInv(text, next, pos, segs)
  BY ParseEnds DEF ParseInv
<1>2. s.next = next /\ s.pos = pos
  BY <1>1, StateFields
<1>3. CASE next = "key"
  <2>1. ParseStep(text, s) = ParseKey(text, s)
    BY <1>2, <1>3 DEF ParseStep
  <2> QED
    BY <1>1, <1>3, <2>1, KeyKeeps
<1>4. CASE next = "index"
  <2>1. CASE pos <= Len(text) /\ text[pos] = "["
    <3>1. ParseStep(text, s) = ParseIndex(text, s)
      BY <1>2, <1>4, <2>1 DEF ParseStep
    <3> QED
      BY <1>1, <1>4, <2>1, <3>1, IndexKeeps
  <2>2. CASE ~(pos <= Len(text) /\ text[pos] = "[")
    <3>1. ParseStep(text, s) = ParseNext(text, s)
      BY <1>2, <1>4, <2>2 DEF ParseStep
    <3> QED
      BY <1>1, <1>4, <2>2, <3>1, NextKeeps
  <2> QED
    BY <2>1, <2>2
<1> QED
  BY <1>1, <1>3, <1>4 DEF OpenInv

PathInv == call.op = "parse" => IsPath(call.text) /\ ParseInv(call.text, out)

\* For texts of every length and every alphabet, ConfigPath::parse accepts what
\* the grammar produces and nothing else, reads the segments in their order,
\* and refuses an index that std::size_t cannot hold.
THEOREM ParseStaysGrammar == Spec => []ParseIsGrammar
<1>1. Init => PathInv
  <2>1. ASSUME CallParse PROVE PathInv
    <3>1. PICK t \in Texts(PathBytes, MaxPath) :
            call = [op |-> "parse", text |-> t] /\ out = StartParse(t)
      BY <2>1, Zenon DEF CallParse
    <3>2. call.text = t
      BY <3>1
    <3>3. IsPath(t)
      <4>1. PICK n \in 0..MaxPath : t \in [1..n -> PathBytes]
        BY DEF Texts
      <4>2. n \in Nat
        BY BytesAssumption
      <4> QED
        BY <4>1, <4>2, SeqDef DEF IsPath
    <3> QED
      BY <3>1, <3>2, <3>3, ParseStarts DEF PathInv
  <2>2. call.op # "parse" => PathInv
    BY DEF PathInv
  <2> QED
    BY <2>1, <2>2, OperationOf DEF Init
<1>2. PathInv /\ [Next]_vars => PathInv'
  <2> SUFFICES ASSUME PathInv, [Next]_vars PROVE PathInv'
    OBVIOUS
  <2>1. CASE ParsePath
    <3>1. /\ call' = call /\ call.op = "parse" /\ ~ParseEnded(out)
          /\ out' = ParseStep(call.text, out)
      BY <2>1 DEF ParsePath
    <3>2. IsPath(call.text) /\ ParseInv(call.text, out)
      BY <3>1 DEF PathInv
    <3>3. ParseInv(call.text, ParseStep(call.text, out))
      BY <3>1, <3>2, ParseKeeps
    <3> QED
      BY <3>1, <3>2, <3>3, Zenon DEF PathInv
  <2>2. CASE UNCHANGED vars
    BY <2>2, Zenon DEF vars, PathInv
  <2>3. ASSUME call' = call, call.op # "parse" PROVE PathInv'
    BY <2>3, Zenon DEF PathInv
  <2> QED
    BY <2>1, <2>2, <2>3 DEF Next, CheckXml, As, MakeScalar, Repair, Create, SetKey, Done
<1>3. PathInv => ParseIsGrammar
  <2> SUFFICES ASSUME PathInv, call.op = "parse", Returned PROVE out = Grammar(call.text)
    BY DEF ParseIsGrammar
  <2>1. ParseEnded(out)
    BY DEF Returned
  <2>2. ParseInv(call.text, out)
    BY DEF PathInv
  <2> QED
    BY <2>1, <2>2, ParseEnds DEF ParseInv
<1> QED
  BY <1>1, <1>2, <1>3, PTL DEF Spec
===============================================================================
