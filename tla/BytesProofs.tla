---------------------------- MODULE BytesProofs -----------------------------
(***************************************************************************)
(* Lemmas about integers as the bytes of a message: what is copied into a  *)
(* field and read from it again is the same, as far as the field is wide   *)
(* enough, for every value.                                                *)
(***************************************************************************)
EXTENDS Bytes, SequencesExt, SequenceTheorems, WellFoundedInduction, TLAPS

\* Induction over the natural numbers, for the set of those that have the property:
\* among those that are not in it there would be a least.
LEMMA InductionOnSet ==
  ASSUME NEW S, 0 \in S, \A n \in Nat : n \in S => n + 1 \in S
  PROVE  Nat \subseteq S
<1> DEFINE R == OpToRel(<, Nat)
           T == Nat \ S
<1>1. SUFFICES ASSUME T # {} PROVE FALSE
  OBVIOUS
<1>2. PICK x \in T : \A y \in T : ~ (<<y, x>> \in R)
  <2>1. IsWellFoundedOn(R, Nat) /\ T \subseteq Nat
    BY NatLessThanWellFounded
  <2> HIDE DEF R, T
  <2> QED
    BY <1>1, <2>1, WFMin
<1>3. x - 1 \in Nat /\ x - 1 \in T
  <2>1. x \in Nat /\ x # 0
    OBVIOUS
  <2>2. x - 1 \in Nat /\ (x - 1) + 1 = x
    BY <2>1
  <2> QED
    BY <2>2
<1>4. <<x - 1, x>> \in R
  BY <1>3 DEF OpToRel
<1> QED
  BY <1>2, <1>3, <1>4

\* What words are, for steps in which their interval stays hidden.
LEMMA Word16Values == \A w \in Word16 : w \in Nat /\ w < 65536
<1> DEFINE top == 65535
<1>1. Word16 = 0 .. top
  BY DEF Word16
<1>2. top \in Nat /\ top < 65536
  OBVIOUS
<1> HIDE DEF top
<1> QED
  BY <1>1, <1>2

LEMMA WordOf ==
  ASSUME NEW w \in Nat, w < 65536
  PROVE  w \in Word16
<1> DEFINE top == 65535
<1>1. Word16 = 0 .. top
  BY DEF Word16
<1>2. top \in Nat /\ w <= top
  OBVIOUS
<1> HIDE DEF top
<1>3. w \in 0 .. top
  BY <1>2
<1> QED
  BY <1>1, <1>3

\* The same of 16-bit integers.
LEMMA Integer16Values ==
  ASSUME NEW value \in Int
  PROVE  value \in Integer16 <=> (value >= 0 - 32768 /\ value <= 32767)
<1> DEFINE low == -32768
           high == 32767
<1>1. low = 0 - 32768 /\ high = 32767
  OBVIOUS
<1>2. Integer16 = low .. high
  BY DEF Integer16
<1>3. low \in Int /\ high \in Int
  BY <1>1
<1> HIDE DEF low, high
<1>4. value \in low .. high <=> (value >= low /\ value <= high)
  BY <1>3
<1>5. value \in Integer16 <=> (value >= low /\ value <= high)
  BY <1>2, <1>4
<1> QED
  BY <1>1, <1>5

\* The places, one by one.
LEMMA PlaceValues == Place[1] = 1 /\ Place[2] = 256 /\ Place[3] = 65536 /\ Place[4] = 16777216
BY DEF Place

\* A field is a sequence of bytes, of the width asked for.
LEMMA FieldType ==
  ASSUME NEW value \in Int, NEW width \in Nat
  PROVE  Field(value, width) \in Seq(Byte) /\ Len(Field(value, width)) = width
<1>1. ASSUME NEW i \in 1 .. width PROVE Field(value, width)[i] \in Byte
  <2>1. CASE i > 4
    BY <2>1 DEF Field, Byte
  <2>2. CASE i \in 1 .. 4
    <3>1. \A n \in Int : n % 256 \in Byte
      BY DEF Byte
    <3>2. value \div Place[i] \in Int
      <4>1. i = 1 \/ i = 2 \/ i = 3 \/ i = 4
        BY <2>2
      <4> QED
        BY <4>1, PlaceValues
    <3> QED
      BY <2>2, <3>1, <3>2 DEF Field
  <2> QED
    BY <2>1, <2>2
<1>2. Field(value, width) = [i \in 1 .. width |-> Field(value, width)[i]]
  BY DEF Field
<1>3. Field(value, width) \in [1 .. width -> Byte]
  BY <1>1, <1>2
<1>4. Field(value, width) \in Seq(Byte)
  BY <1>3
<1> QED
  BY <1>3, <1>4

\* The bytes of a number of 32 bits.
LEMMA FieldBytes ==
  ASSUME NEW value \in Int, NEW width \in Nat
  PROVE  /\ width >= 1 => Field(value, width)[1] = value % 256
         /\ width >= 2 => Field(value, width)[2] = (value \div 256) % 256
         /\ width >= 3 => Field(value, width)[3] = (value \div 65536) % 256
         /\ width >= 4 => Field(value, width)[4] = (value \div 16777216) % 256
<1>1. \A i \in 1 .. 4 : width >= i => Field(value, width)[i] = (value \div Place[i]) % 256
  BY DEF Field
<1>2. value \div 1 = value
  OBVIOUS
<1> QED
  BY <1>1, <1>2, PlaceValues

\* The two bytes of a word.
LEMMA WordBytes ==
  ASSUME NEW value \in Int
  PROVE  /\ Field(value, 2) \in Seq(Byte) /\ Len(Field(value, 2)) = 2
         /\ Field(value, 2)[1] = value % 256 /\ Field(value, 2)[2] = (value \div 256) % 256
<1>1. 2 \in Nat
  OBVIOUS
<1>2. Field(value, 2) \in Seq(Byte) /\ Len(Field(value, 2)) = 2
  BY <1>1, FieldType
<1>3. /\ Field(value, 2)[1] = (value \div Place[1]) % 256
      /\ Field(value, 2)[2] = (value \div Place[2]) % 256
  BY DEF Field
<1>4. value \div 1 = value
  OBVIOUS
<1> QED
  BY <1>2, <1>3, <1>4, PlaceValues

\* A number less than 2^32 is the sum of its bytes.
LEMMA SumOfBytes ==
  ASSUME NEW v \in Nat
  PROVE  /\ v < 65536 => (v % 256) + ((v \div 256) % 256) * 256 = v
         /\ v < 4294967296 =>
              (v % 256) + ((v \div 256) % 256) * 256 + ((v \div 65536) % 256) * 65536
                + ((v \div 16777216) % 256) * 16777216 = v
<1> DEFINE a == v \div 256  b == v \div 65536  c == v \div 16777216
<1>1. /\ a \in Nat /\ b \in Nat /\ c \in Nat
      /\ v = 256 * a + (v % 256)
  OBVIOUS
<1>2. b = a \div 256 /\ c = b \div 256
  OBVIOUS
<1>3. a = 256 * b + (a % 256) /\ b = 256 * c + (b % 256)
  BY <1>1, <1>2
<1>4. v < 65536 => a < 256
  OBVIOUS
<1>5. v < 4294967296 => c < 256
  OBVIOUS
<1>6. v < 65536 => a % 256 = a
  BY <1>1, <1>4
<1>7. v < 4294967296 => c % 256 = c
  BY <1>1, <1>5
<1> QED
  BY <1>1, <1>3, <1>6, <1>7

\* The least number that is too big for a field.
Limit(width) == CASE width = 1 -> 256 [] width = 2 -> 65536 [] width = 4 -> 4294967296

\* What width bytes stand for.
LEMMA LittleEndianValue ==
  ASSUME NEW bytes, NEW at \in Int
  PROVE  /\ bytes[at] \in Int => LittleEndian(bytes, at, 1) = bytes[at]
         /\ bytes[at] \in Int /\ bytes[at + 1] \in Int =>
              LittleEndian(bytes, at, 2) = bytes[at] + bytes[at + 1] * 256
         /\ (\A i \in 0 .. 3 : bytes[at + i] \in Int) =>
              LittleEndian(bytes, at, 4) =
                bytes[at] + bytes[at + 1] * 256 + bytes[at + 2] * 65536
                  + bytes[at + 3] * 16777216
<1> USE PlaceValues DEF LittleEndian
<1>1. at + 0 = at
  OBVIOUS
<1>2. bytes[at] \in Int => LittleEndian(bytes, at, 1) = bytes[at]
  BY <1>1
<1>3. bytes[at] \in Int /\ bytes[at + 1] \in Int =>
        LittleEndian(bytes, at, 2) = bytes[at] + bytes[at + 1] * 256
  BY <1>1
<1>4. (\A i \in 0 .. 3 : bytes[at + i] \in Int) =>
        LittleEndian(bytes, at, 4) =
          bytes[at] + bytes[at + 1] * 256 + bytes[at + 2] * 65536 + bytes[at + 3] * 16777216
  BY <1>1
<1> QED
  BY <1>2, <1>3, <1>4

\* A field that is wide enough reads as the number that was copied into it.
LEMMA FieldReadsBack ==
  ASSUME NEW value \in Nat, NEW width \in {1, 2, 4}, value < Limit(width),
         NEW bytes, NEW at \in Int,
         \A i \in 1 .. width : bytes[at + i - 1] = Field(value, width)[i]
  PROVE  LittleEndian(bytes, at, width) = value
<1>1. /\ width >= 1 => bytes[at] = value % 256
      /\ width >= 2 => bytes[at + 1] = (value \div 256) % 256
      /\ width >= 4 => /\ bytes[at + 2] = (value \div 65536) % 256
                       /\ bytes[at + 3] = (value \div 16777216) % 256
  BY FieldBytes
<1>2. CASE width = 1
  BY <1>1, <1>2, LittleEndianValue DEF Limit
<1>3. CASE width = 2
  BY <1>1, <1>3, LittleEndianValue, SumOfBytes DEF Limit
<1>4. CASE width = 4
  <2>1. \A i \in 0 .. 3 : bytes[at + i] \in Int
    BY <1>1, <1>4
  <2> QED
    BY <1>1, <1>4, <2>1, LittleEndianValue, SumOfBytes DEF Limit
<1> QED
  BY <1>2, <1>3, <1>4

\* A word of 16 bits reads back out of two bytes.
LEMMA WordReadsBack ==
  ASSUME NEW word \in Word16, NEW bytes, NEW at \in Int,
         \A i \in 1 .. 2 : bytes[at + i - 1] = Field(word, 2)[i]
  PROVE  LittleEndian(bytes, at, 2) = word
<1>1. word \in Nat /\ word < Limit(2)
  BY Word16Values DEF Limit
<1> QED
  BY <1>1, FieldReadsBack

-----------------------------------------------------------------------------
\* Sequences of them.

\* Three sequences one behind the other.
LEMMA ThreeParts ==
  ASSUME NEW S, NEW a \in Seq(S), NEW b \in Seq(S), NEW c \in Seq(S)
  PROVE  /\ a \o b \o c \in Seq(S)
         /\ Len(a \o b \o c) = Len(a) + Len(b) + Len(c)
         /\ \A i \in 1 .. Len(a) : (a \o b \o c)[i] = a[i]
         /\ \A i \in 1 .. Len(b) : (a \o b \o c)[Len(a) + i] = b[i]
         /\ \A i \in 1 .. Len(c) : (a \o b \o c)[Len(a) + Len(b) + i] = c[i]
<1> DEFINE ab == a \o b
<1>1. /\ ab \in Seq(S) /\ Len(ab) = Len(a) + Len(b)
      /\ \A i \in 1 .. Len(a) + Len(b) : ab[i] = IF i <= Len(a) THEN a[i] ELSE b[i - Len(a)]
  BY ConcatProperties
<1> HIDE DEF ab
<1>2. /\ ab \o c \in Seq(S) /\ Len(ab \o c) = Len(ab) + Len(c)
      /\ \A i \in 1 .. Len(ab) + Len(c) :
           (ab \o c)[i] = IF i <= Len(ab) THEN ab[i] ELSE c[i - Len(ab)]
  <2>1. ab \in Seq(S)
    BY <1>1
  <2> QED
    BY <2>1, ConcatProperties
<1>3. Len(a) \in Nat /\ Len(b) \in Nat /\ Len(c) \in Nat
  OBVIOUS
<1>4. \A i \in 1 .. Len(a) : (ab \o c)[i] = a[i]
  BY <1>1, <1>2, <1>3
<1>5. \A i \in 1 .. Len(b) : (ab \o c)[Len(a) + i] = b[i]
  <2> TAKE i \in 1 .. Len(b)
  <2>1. Len(a) + i \in 1 .. Len(ab) /\ Len(a) + i \in 1 .. Len(ab) + Len(c)
        /\ ~(Len(a) + i <= Len(a)) /\ (Len(a) + i) - Len(a) = i /\ Len(a) + i <= Len(ab)
    BY <1>1, <1>3
  <2> QED
    BY <1>1, <1>2, <2>1
<1>6. \A i \in 1 .. Len(c) : (ab \o c)[Len(a) + Len(b) + i] = c[i]
  <2> TAKE i \in 1 .. Len(c)
  <2>1. Len(ab) + i \in 1 .. Len(ab) + Len(c)
        /\ ~(Len(ab) + i <= Len(ab)) /\ (Len(ab) + i) - Len(ab) = i
    BY <1>1, <1>3
  <2> QED
    BY <1>1, <1>2, <2>1
<1> QED
  BY <1>1, <1>2, <1>4, <1>5, <1>6 DEF ab

\* A part of a sequence, known by its elements.
LEMMA PartOf ==
  ASSUME NEW S, NEW s, NEW from \in Int, NEW t \in Seq(S),
         \A i \in 1 .. Len(t) : s[from + i - 1] = t[i],
         NEW to, to = from + Len(t) - 1
  PROVE  SubSeq(s, from, to) = t
<1> DEFINE u == SubSeq(s, from, to)
<1>1. Len(t) \in Nat /\ to \in Int
  OBVIOUS
<1>2. \A i \in from .. to : s[i] \in S
  <2> TAKE i \in from .. to
  <2>1. (i - from) + 1 \in 1 .. Len(t) /\ from + ((i - from) + 1) - 1 = i
    BY <1>1
  <2>2. t[(i - from) + 1] \in S
    BY <2>1
  <2> QED
    BY <2>1, <2>2
<1>3. /\ u \in Seq(S)
      /\ Len(u) = IF from <= to THEN to - from + 1 ELSE 0
      /\ \A i \in 1 .. to - from + 1 : u[i] = s[from + i - 1]
  BY <1>1, <1>2, SubSeqProperties
<1> HIDE DEF u
<1>4. Len(u) = Len(t) /\ to - from + 1 = Len(t)
  BY <1>1, <1>3
<1>5. \A i \in 1 .. Len(u) : u[i] = t[i]
  BY <1>3, <1>4
<1> QED
  BY <1>3, <1>4, <1>5, SeqEqual DEF u

\* What is behind the first of two sequences is the second.
LEMMA RestOf ==
  ASSUME NEW S, NEW s \in Seq(S), NEW t \in Seq(S)
  PROVE  SubSeq(s \o t, Len(s) + 1, Len(s) + Len(t)) = t
<1> DEFINE from == Len(s) + 1
           to == Len(s) + Len(t)
           st == s \o t
<1>1. Len(s) \in Nat /\ Len(t) \in Nat
  OBVIOUS
<1>2. from \in Int /\ to = from + Len(t) - 1
  BY <1>1
<1>3. \A i \in 1 .. Len(t) : st[from + i - 1] = t[i]
  <2> TAKE i \in 1 .. Len(t)
  <2>1. Len(s) + i \in 1 .. Len(s) + Len(t) /\ ~(Len(s) + i <= Len(s)) /\ (Len(s) + i) - Len(s) = i
        /\ from + i - 1 = Len(s) + i
    BY <1>1
  <2> QED
    BY <2>1, ConcatProperties
<1> HIDE DEF from, to, st
<1>4. SubSeq(st, from, to) = t
  BY <1>2, <1>3, PartOf
<1> QED
  BY <1>4 DEF from, to, st

\* PartOf, with the end of the part given.
LEMMA BytesOf ==
  ASSUME NEW s, NEW from \in Int, NEW t \in Seq(Byte),
         \A i \in 1 .. Len(t) : s[from + i - 1] = t[i],
         NEW to, to = from + Len(t) - 1
  PROVE  SubSeq(s, from, to) = t
BY PartOf

-----------------------------------------------------------------------------
\* Values one behind the other.

Sizes == {1, 2, 4, 6}

\* The position of byte j of element k.
LEMMA ElementPosition ==
  ASSUME NEW size \in Sizes, NEW k \in Nat \ {0}, NEW j \in 1 .. size
  PROVE  (((k - 1) * size + j) - 1) \div size = k - 1 /\ (((k - 1) * size + j) - 1) % size = j - 1
<1>1. CASE size = 1
  BY <1>1
<1>2. CASE size = 2
  BY <1>2
<1>3. CASE size = 4
  BY <1>3
<1>4. CASE size = 6
  BY <1>4
<1> QED
  BY <1>1, <1>2, <1>3, <1>4 DEF Sizes

\* Packed values are bytes, as many as the size says each.
LEMMA PackedBytes ==
  ASSUME NEW size \in Sizes, NEW values \in Seq(Int)
  PROVE  LET e == Packed(values, size)
         IN  /\ e \in Seq(Byte) /\ Len(e) = Len(values) * size
             /\ \A k \in 1 .. Len(values), j \in 1 .. size :
                  /\ (k - 1) * size + j \in 1 .. Len(e)
                  /\ e[(k - 1) * size + j] = Field(values[k], size)[j]
<1> DEFINE e == Packed(values, size)
           n == Len(values)
<1>1. size \in Sizes /\ n \in Nat
  OBVIOUS
<1> HIDE DEF n
<1>2. e = [i \in 1 .. n * size |-> Field(values[(i - 1) \div size + 1], size)[((i - 1) % size) + 1]]
  BY DEF Packed, n
<1> HIDE DEF e
<1>3. n * size \in Nat /\ size \in Nat
  BY <1>1 DEF Sizes
<1>4. ASSUME NEW i \in 1 .. n * size
      PROVE  e[i] \in Byte
  <2>1. (i - 1) \div size + 1 \in 1 .. n /\ ((i - 1) % size) + 1 \in 1 .. size
    <3>1. CASE size = 1
      BY <1>1, <3>1
    <3>2. CASE size = 2
      BY <1>1, <3>2
    <3>3. CASE size = 4
      BY <1>1, <3>3
    <3>4. CASE size = 6
      BY <1>1, <3>4
    <3> QED
      BY <1>1, <3>1, <3>2, <3>3, <3>4 DEF Sizes
  <2>2. values[(i - 1) \div size + 1] \in Int
    BY <2>1 DEF n
  <2>3. /\ Field(values[(i - 1) \div size + 1], size) \in Seq(Byte)
        /\ Len(Field(values[(i - 1) \div size + 1], size)) = size
    BY <1>3, <2>2, FieldType
  <2>4. Field(values[(i - 1) \div size + 1], size)[((i - 1) % size) + 1] \in Byte
    BY <2>1, <2>3
  <2> QED
    BY <1>2, <2>4
<1>5. e \in [1 .. n * size -> Byte]
  BY <1>2, <1>4
<1>6. e \in Seq(Byte) /\ Len(e) = n * size
  BY <1>3, <1>5
<1>7. ASSUME NEW k \in 1 .. n, NEW j \in 1 .. size
      PROVE  (k - 1) * size + j \in 1 .. n * size /\ e[(k - 1) * size + j] = Field(values[k], size)[j]
  <2> DEFINE at == (k - 1) * size + j
  <2>1. at \in 1 .. n * size
    <3>1. CASE size = 1
      BY <1>1, <3>1
    <3>2. CASE size = 2
      BY <1>1, <3>2
    <3>3. CASE size = 4
      BY <1>1, <3>3
    <3>4. CASE size = 6
      BY <1>1, <3>4
    <3> QED
      BY <1>1, <3>1, <3>2, <3>3, <3>4 DEF Sizes
  <2>2. (at - 1) \div size = k - 1 /\ (at - 1) % size = j - 1
    <3>1. k \in Nat \ {0} /\ size \in Sizes
      BY <1>1
    <3>2. /\ (((k - 1) * size + j) - 1) \div size = k - 1
          /\ (((k - 1) * size + j) - 1) % size = j - 1
      BY <3>1, ElementPosition
    <3> QED
      BY <3>2
  <2>3. (k - 1) + 1 = k /\ (j - 1) + 1 = j
    BY <1>1, <1>3
  <2> HIDE DEF at
  <2>4. e[at] = Field(values[(at - 1) \div size + 1], size)[((at - 1) % size) + 1]
    BY <1>2, <2>1
  <2> QED
    BY <2>1, <2>2, <2>3, <2>4 DEF at
<1> QED
  BY <1>6, <1>7 DEF e, n

\* The size in elements of what has the bytes of n of them.
LEMMA CountOfElements ==
  ASSUME NEW size \in Sizes, NEW n \in Nat
  PROVE  (n * size) \div size = n /\ n * size \in Nat /\ size \in Nat \ {0}
<1>1. CASE size = 1
  BY <1>1
<1>2. CASE size = 2
  BY <1>2
<1>3. CASE size = 4
  BY <1>3
<1>4. CASE size = 6
  BY <1>4
<1> QED
  BY <1>1, <1>2, <1>3, <1>4 DEF Sizes

\* What FlattenSeq has after so many of the sequences.
Flattened(ss, count) ==
  CHOOSE flatten :
    flatten = [i \in 1 .. count |-> IF i = 1 THEN ss[i] ELSE flatten[i - 1] \o ss[i]]

\* There is such a function, of any length: of one more sequence than another.
LEMMA FlattenedOfEvery ==
  ASSUME NEW ss
  PROVE  \A count \in Nat :
           Flattened(ss, count) =
             [i \in 1 .. count |->
                IF i = 1 THEN ss[i] ELSE Flattened(ss, count)[i - 1] \o ss[i]]
<1> DEFINE Is(f, count) == f = [i \in 1 .. count |-> IF i = 1 THEN ss[i] ELSE f[i - 1] \o ss[i]]
           Has(count) == \E f : Is(f, count)
           S == {count \in Nat : Has(count)}
<1>1. 0 \in S
  <2> DEFINE f == [i \in 1 .. 0 |-> ss[i]]
  <2>1. Is(f, 0)
    OBVIOUS
  <2> HIDE DEF f, Is
  <2> QED
    BY <2>1
<1>2. ASSUME NEW n \in Nat, n \in S
      PROVE  n + 1 \in S
  <2>1. PICK f : Is(f, n)
    BY <1>2
  <2> DEFINE g == [i \in 1 .. n + 1 |->
                     IF i = n + 1 THEN (IF n = 0 THEN ss[1] ELSE f[n] \o ss[n + 1]) ELSE f[i]]
  <2>2. \A i \in 1 .. n + 1 : g[i] = IF i = 1 THEN ss[i] ELSE g[i - 1] \o ss[i]
    <3> TAKE i \in 1 .. n + 1
    <3>1. CASE i = n + 1 /\ n = 0
      BY <3>1
    <3>2. CASE i = n + 1 /\ n # 0
      <4>1. i # 1 /\ i - 1 = n /\ n \in 1 .. n + 1 /\ n # n + 1
        BY <3>2
      <4>2. g[n] = f[n] /\ g[i] = f[n] \o ss[i]
        BY <3>2, <4>1
      <4> QED
        BY <4>1, <4>2
    <3>3. CASE i \in 1 .. n
      <4>1. f[i] = IF i = 1 THEN ss[i] ELSE f[i - 1] \o ss[i]
        BY <2>1, <3>3
      <4>2. g[i] = f[i]
        BY <3>3
      <4>3. i # 1 => g[i - 1] = f[i - 1]
        BY <3>3
      <4> QED
        BY <4>1, <4>2, <4>3
    <3> QED
      BY <3>1, <3>2, <3>3
  <2>3. Is(g, n + 1)
    BY <2>2
  <2> HIDE DEF g, Is
  <2> QED
    BY <2>3
<1>3. Nat \subseteq S
  <2> HIDE DEF S
  <2> QED
    BY <1>1, <1>2, InductionOnSet
<1>4. \A count : Flattened(ss, count) = CHOOSE f : Is(f, count)
  BY DEF Flattened
<1>5. \A count \in Nat : Is(Flattened(ss, count), count)
  <2> HIDE DEF Is
  <2> QED
    BY <1>3, <1>4
<1> QED
  BY <1>5
=============================================================================
