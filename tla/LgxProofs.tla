----------------------------- MODULE LgxProofs ------------------------------
(***************************************************************************)
(* Proofs about the data of reads and writes of a ControlLogix, for any    *)
(* tags, any values of 32 bits and any number of elements.                 *)
(***************************************************************************)
EXTENDS LgxData, BytesProofs

-----------------------------------------------------------------------------
\* Types and their sizes.

Types == Simple \cup {Structure}

\* The code of a type fits into its two bytes.
LEMMA TypeIsWord ==
  ASSUME NEW type \in Types
  PROVE  type \in Word16 /\ type # 0 /\ type \in Nat /\ type < 65536
<1>1. type \in Nat /\ type # 0 /\ type < 65536
  BY DEF Types, Simple, Structure, LGX_BOOL, LGX_SINT, LGX_INT, LGX_DINT, LGX_REAL, LGX_BITARRAY
<1>2. type \in Word16
  BY <1>1, WordOf
<1> QED
  BY <1>1, <1>2

\* The client and the controller agree on the size of a simple type.
LEMMA SizeOfType ==
  ASSUME NEW type \in Types
  PROVE  /\ Width(type) \in {1, 2, 4} /\ Width(type) \in Sizes
         /\ type \in Simple => GetLGXDataSize(type) = Width(type)
<1> USE DEF Sizes, Width, GetLGXDataSize, Simple, LGX_BOOL, LGX_SINT, LGX_INT, LGX_DINT,
            LGX_REAL, LGX_BITARRAY
<1>1. CASE type \in Simple
  BY <1>1
<1>2. CASE type \notin Simple
  BY <1>2
<1> QED
  BY <1>1, <1>2

\* A structure is none of the simple types.
LEMMA StructureIsNotSimple == Structure \notin Simple
BY DEF Simple, Structure, LGX_BOOL, LGX_SINT, LGX_INT, LGX_DINT, LGX_REAL, LGX_BITARRAY

\* What has no size: a structure, and what is not the reply of a read.
LEMMA NoSize == GetLGXDataSize(Structure) = Error /\ GetLGXDataSize(0) = Error
BY DEF GetLGXDataSize, Structure, LGX_BOOL, LGX_SINT, LGX_INT, LGX_DINT, LGX_REAL, LGX_BITARRAY

-----------------------------------------------------------------------------
\* Signed values out of their bytes.

InRange(value, size) ==
  CASE size = 1 -> value \in -128 .. 127
    [] size = 2 -> value \in Integer16
    [] size = 4 -> MinInt <= value /\ value <= MaxInt

\* A value reads back out of as many bytes as it fits into, with its sign.
LEMMA SignedReadsBack ==
  ASSUME NEW value \in Int, NEW size \in {1, 2, 4}, InRange(value, size),
         NEW bytes, NEW at \in Int,
         \A j \in 1 .. size : bytes[at + j - 1] = Field(value, size)[j]
  PROVE  SignedField(bytes, at, size) = value
<1> DEFINE a == value \div 256
           b == value \div 65536
           c == value \div 16777216
<1>1. /\ size >= 1 => bytes[at] = value % 256
      /\ size >= 2 => bytes[at + 1] = a % 256
      /\ size >= 4 => bytes[at + 2] = b % 256 /\ bytes[at + 3] = c % 256
  BY FieldBytes
<1>2. /\ a \in Int /\ b \in Int /\ c \in Int
      /\ value = 256 * a + (value % 256) /\ value % 256 \in 0 .. 255
  OBVIOUS
<1>3. b = a \div 256 /\ c = b \div 256
  OBVIOUS
<1>4. a = 256 * b + (a % 256) /\ a % 256 \in 0 .. 255
      /\ b = 256 * c + (b % 256) /\ b % 256 \in 0 .. 255
  BY <1>2, <1>3
<1>5. \A n \in Int : n >= -128 /\ n <= 127 =>
        (IF n % 256 < 128 THEN n % 256 ELSE (n % 256) - 256) = n
  OBVIOUS
<1>6. CASE size = 1
  <2>1. value >= -128 /\ value <= 127
    BY <1>6 DEF InRange
  <2>2. bytes[at] = value % 256 /\ at + 1 - 1 = at
    BY <1>1, <1>6
  <2>3. LittleEndian(bytes, at, 0) = 0
    BY DEF LittleEndian
  <2> QED
    BY <1>2, <1>5, <1>6, <2>1, <2>2, <2>3, PlaceValues DEF SignedField
<1>7. CASE size = 2
  <2>1. a >= -128 /\ a <= 127
    <3>1. value \in Integer16
      BY <1>7 DEF InRange
    <3>2. value >= 0 - 32768 /\ value <= 32767
      BY <3>1, Integer16Values
    <3> QED
      BY <3>2
  <2>2. bytes[at] = value % 256 /\ bytes[at + 1] = a % 256 /\ at + 2 - 1 = at + 1
    BY <1>1, <1>7
  <2>3. LittleEndian(bytes, at, 1) = value % 256
    BY <1>2, <2>2, LittleEndianValue
  <2>4. (IF a % 256 < 128 THEN a % 256 ELSE (a % 256) - 256) = a
    BY <1>2, <1>5, <2>1
  <2> HIDE DEF a
  <2>5. SignedField(bytes, at, 2) = (value % 256) + a * 256
    BY <2>2, <2>3, <2>4, PlaceValues DEF SignedField
  <2> QED
    BY <1>2, <1>7, <2>5
<1>8. CASE size = 4
  <2>1. c >= -128 /\ c <= 127
    <3>1. value >= -2147483648 /\ value <= 2147483647
      BY <1>8 DEF InRange, MinInt, MaxInt
    <3> QED
      BY <3>1
  <2>2. /\ bytes[at] = value % 256 /\ bytes[at + 1] = a % 256 /\ bytes[at + 2] = b % 256
        /\ bytes[at + 3] = c % 256 /\ at + 4 - 1 = at + 3
    BY <1>1, <1>8
  <2>3. LittleEndian(bytes, at, 3) = (value % 256) + (a % 256) * 256 + (b % 256) * 65536
    BY <1>2, <1>4, <2>2, PlaceValues DEF LittleEndian
  <2>4. c \in Int
    BY <1>2
  <2> HIDE DEF a, b, c
  <2>5. (IF c % 256 < 128 THEN c % 256 ELSE (c % 256) - 256) = c
    BY ONLY <1>5, <2>1, <2>4
  <2>6. SignedField(bytes, at, 4)
          = (value % 256) + (a % 256) * 256 + (b % 256) * 65536 + c * 16777216
    BY <2>2, <2>3, <2>5, PlaceValues DEF SignedField
  <2> QED
    BY <1>2, <1>4, <1>8, <2>6
<1> QED
  BY <1>6, <1>7, <1>8

-----------------------------------------------------------------------------
\* Integers through a float.

\* An integer of 32 bits, without its sign, is less than 2^24 in one of the units
\* up to 256, and the last but one is too small, if it is not the first.
LEMMA UnitExists ==
  ASSUME NEW size \in Nat, size <= 2147483648
  PROVE  \E k \in 0 .. 8 : /\ size \div TwoTo[k + 1] < Exact
                           /\ k = 0 \/ size \div TwoTo[k] >= Exact
<1>1. /\ TwoTo[1] = 1 /\ TwoTo[2] = 2 /\ TwoTo[3] = 4 /\ TwoTo[4] = 8 /\ TwoTo[5] = 16
      /\ TwoTo[6] = 32 /\ TwoTo[7] = 64 /\ TwoTo[8] = 128 /\ TwoTo[9] = 256
  BY DEF TwoTo
<1>2. /\ size \div 1 < Exact \/ size \div 1 >= Exact
      /\ size \div 2 < Exact \/ size \div 2 >= Exact
      /\ size \div 4 < Exact \/ size \div 4 >= Exact
      /\ size \div 8 < Exact \/ size \div 8 >= Exact
      /\ size \div 16 < Exact \/ size \div 16 >= Exact
      /\ size \div 32 < Exact \/ size \div 32 >= Exact
      /\ size \div 64 < Exact \/ size \div 64 >= Exact
      /\ size \div 128 < Exact \/ size \div 128 >= Exact
      /\ size \div 256 < Exact
  BY DEF Exact
<1> DEFINE Fits(k) == size \div TwoTo[k + 1] < Exact
<1>3. /\ Fits(0) \/ size \div TwoTo[1] >= Exact
      /\ Fits(1) \/ size \div TwoTo[2] >= Exact
      /\ Fits(2) \/ size \div TwoTo[3] >= Exact
      /\ Fits(3) \/ size \div TwoTo[4] >= Exact
      /\ Fits(4) \/ size \div TwoTo[5] >= Exact
      /\ Fits(5) \/ size \div TwoTo[6] >= Exact
      /\ Fits(6) \/ size \div TwoTo[7] >= Exact
      /\ Fits(7) \/ size \div TwoTo[8] >= Exact
      /\ Fits(8)
  BY <1>1, <1>2
<1> HIDE DEF Fits
<1>4. \E k \in 0 .. 8 : Fits(k) /\ (k = 0 \/ size \div TwoTo[k] >= Exact)
  BY <1>3
<1> QED
  BY <1>4 DEF Fits

\* What a unit makes of an integer without its sign.
Below(size, unit) == size \div unit
Rest(size, unit) == size % unit
Up(size, unit) ==
  2 * Rest(size, unit) > unit \/ (2 * Rest(size, unit) = unit /\ Below(size, unit) % 2 = 1)
Mantissa(size, unit) ==
  IF Up(size, unit) /\ unit # 1 THEN Below(size, unit) + 1 ELSE Below(size, unit)

\* In its unit an integer is off by half of it at most; only next to 2^31 it is
\* rounded up to 2^31.
LEMMA NextToSize ==
  ASSUME NEW size \in Nat, size <= 2147483648, NEW k \in 0 .. 8,
         NEW unit, unit = TwoTo[k + 1], size \div unit < Exact,
         k = 0 \/ size \div TwoTo[k] >= Exact
  PROVE  LET m == Mantissa(size, unit)
         IN  /\ m \in Nat /\ unit \in Nat
             /\ m * unit - size >= 0 - 64 /\ m * unit - size <= 64
             /\ size <= Exact => m * unit = size
             /\ (m = Exact /\ k = 7) <=> (size >= 2147483584 /\ size < 2147483648)
<1> USE DEF Mantissa, Up, Below, Rest, Exact
<1>1. /\ TwoTo[1] = 1 /\ TwoTo[2] = 2 /\ TwoTo[3] = 4 /\ TwoTo[4] = 8 /\ TwoTo[5] = 16
      /\ TwoTo[6] = 32 /\ TwoTo[7] = 64 /\ TwoTo[8] = 128 /\ TwoTo[9] = 256
  BY DEF TwoTo
<1>2. CASE k = 0
  <2>1. unit = 1
    BY <1>1, <1>2
  <2> QED
    BY <1>2, <2>1
<1>3. CASE k = 1
  <2>1. unit = 2 /\ size \div 1 >= Exact
    BY <1>1, <1>3
  <2> QED
    BY <1>3, <2>1
<1>4. CASE k = 2
  <2>1. unit = 4 /\ size \div 2 >= Exact
    BY <1>1, <1>4
  <2> QED
    BY <1>4, <2>1
<1>5. CASE k = 3
  <2>1. unit = 8 /\ size \div 4 >= Exact
    BY <1>1, <1>5
  <2> QED
    BY <1>5, <2>1
<1>6. CASE k = 4
  <2>1. unit = 16 /\ size \div 8 >= Exact
    BY <1>1, <1>6
  <2> QED
    BY <1>6, <2>1
<1>7. CASE k = 5
  <2>1. unit = 32 /\ size \div 16 >= Exact
    BY <1>1, <1>7
  <2> QED
    BY <1>7, <2>1
<1>8. CASE k = 6
  <2>1. unit = 64 /\ size \div 32 >= Exact
    BY <1>1, <1>8
  <2> QED
    BY <1>8, <2>1
<1>9. CASE k = 7
  <2>1. unit = 128 /\ size \div 64 >= Exact
    BY <1>1, <1>9
  <2> QED
    BY <1>9, <2>1
<1>10. CASE k = 8
  <2>1. unit = 256 /\ size \div 128 >= Exact
    BY <1>1, <1>10
  <2> QED
    BY <1>10, <2>1
<1> QED
  BY <1>2, <1>3, <1>4, <1>5, <1>6, <1>7, <1>8, <1>9, <1>10

\* An integer of 32 bits, and the integer that is taken from the float next to it.
LEMMA RoundedIsNear ==
  ASSUME NEW value \in Int, MinInt <= value, value <= MaxInt
  PROVE  LET float == Rounded(value)
             v == float.mantissa * TwoTo[float.power + 1]
         IN  /\ v \in Int
             /\ v - value >= 0 - 64 /\ v - value <= 64
             /\ value >= 0 - Exact /\ value <= Exact => v = value
             /\ (float.mantissa = Exact /\ float.power = 7) <=> value > MaxInt - 64
<1> DEFINE size == IF value < 0 THEN -value ELSE value
           Is(k) == /\ size \div TwoTo[k + 1] < Exact
                    /\ k = 0 \/ size \div TwoTo[k] >= Exact
           shift == CHOOSE k \in 0 .. 8 : Is(k)
           unit == TwoTo[shift + 1]
           m == Mantissa(size, unit)
           float == Rounded(value)
           v == float.mantissa * TwoTo[float.power + 1]
<1>1. size \in Nat /\ size <= 2147483648 /\ (size = 2147483648 => value < 0)
  BY DEF MinInt, MaxInt
<1>2. \E k \in 0 .. 8 : Is(k)
  BY <1>1, UnitExists, SMTT(60)
<1>3. shift \in 0 .. 8 /\ Is(shift)
  <2> HIDE DEF Is
  <2> QED
    BY <1>2
<1>4. unit = 1 <=> ~(shift > 0)
  <2>1. /\ TwoTo[1] = 1 /\ TwoTo[2] = 2 /\ TwoTo[3] = 4 /\ TwoTo[4] = 8 /\ TwoTo[5] = 16
        /\ TwoTo[6] = 32 /\ TwoTo[7] = 64 /\ TwoTo[8] = 128 /\ TwoTo[9] = 256
    BY DEF TwoTo
  <2>2. shift \in 0 .. 8
    BY <1>3
  <2> HIDE DEF shift
  <2> QED
    BY <2>1, <2>2
<1>5. float = [mantissa |-> IF value < 0 THEN -m ELSE m, power |-> shift]
  <2> DEFINE rest == size % unit
             below == size \div unit
             up == 2 * rest > unit \/ (2 * rest = unit /\ below % 2 = 1)
             mantissa == IF up /\ shift > 0 THEN below + 1 ELSE below
  <2>1. float = [mantissa |-> IF value < 0 THEN -mantissa ELSE mantissa, power |-> shift]
    BY DEF Rounded
  <2>2. m = IF up /\ unit # 1 THEN below + 1 ELSE below
    BY DEF Mantissa, Up, Below, Rest
  <2> HIDE DEF m, up, below, unit, shift, float
  <2>3. m = mantissa
    BY <1>4, <2>2
  <2> HIDE DEF mantissa
  <2> QED
    BY <2>1, <2>3
<1>6. /\ m \in Nat /\ unit \in Nat
      /\ m * unit - size >= 0 - 64 /\ m * unit - size <= 64
      /\ size <= Exact => m * unit = size
      /\ (m = Exact /\ shift = 7) <=> (size >= 2147483584 /\ size < 2147483648)
  <2>1. /\ size \div TwoTo[shift + 1] < Exact
        /\ shift = 0 \/ size \div TwoTo[shift] >= Exact
        /\ shift \in 0 .. 8
    BY <1>3, SMTT(60)
  <2> HIDE DEF shift, size
  <2> QED
    BY <1>1, <2>1, NextToSize, SMTT(60)
<1>7. v = IF value < 0 THEN 0 - m * unit ELSE m * unit
  <2>1. /\ float.mantissa = IF value < 0 THEN -m ELSE m
        /\ TwoTo[float.power + 1] = unit
    BY <1>5
  <2>2. m \in Nat /\ unit \in Nat
    BY <1>6, SMTT(60)
  <2> HIDE DEF m, unit, float
  <2>3. (-m) * unit = 0 - m * unit
    BY <2>2
  <2> QED
    BY <2>1, <2>2, <2>3
<1>8. m * unit \in Nat
  BY <1>6, SMTT(60)
<1>9. float.mantissa = (IF value < 0 THEN 0 - m ELSE m) /\ float.power = shift
  <2>1. m \in Nat
    BY <1>6, SMTT(60)
  <2> HIDE DEF m, float, shift
  <2> QED
    BY <1>5, <2>1
<1> DEFINE p == m * unit
<1> HIDE DEF m, unit, float, v, shift
<1>10. /\ p \in Nat /\ p - size >= 0 - 64 /\ p - size <= 64
       /\ size <= Exact => p = size
       /\ v = IF value < 0 THEN 0 - p ELSE p
  BY <1>6, <1>7, <1>8, SMTT(60)
<1> HIDE DEF p
<1>11. v \in Int /\ v - value >= 0 - 64 /\ v - value <= 64
  BY <1>1, <1>10
<1>12. value >= 0 - Exact /\ value <= Exact => v = value
  BY <1>1, <1>10 DEF Exact
<1>13. (float.mantissa = Exact /\ float.power = 7) <=> value > MaxInt - 64
  <2>1. CASE value < 0
    <3>1. float.mantissa = 0 - m /\ m \in Nat
      BY <1>6, <1>9, <2>1
    <3> QED
      BY <2>1, <3>1 DEF Exact, MaxInt
  <2>2. CASE value >= 0
    <3>1. float.mantissa = m /\ float.power = shift
      BY <1>9, <2>2
    <3>2. size = value
      BY <2>2
    <3>3. (m = Exact /\ shift = 7) <=> (size >= 2147483584 /\ size < 2147483648)
      BY <1>6
    <3>4. (value >= 2147483584 /\ value < 2147483648) <=> value > MaxInt - 64
      BY DEF MaxInt
    <3> HIDE DEF size
    <3> QED
      BY <3>1, <3>2, <3>3, <3>4
  <2> QED
    BY <2>1, <2>2
<1> QED
  BY <1>11, <1>12, <1>13 DEF v, float

-----------------------------------------------------------------------------
\* The decoder.

\* The type of a reply, and the data behind it.
LEMMA TypeOfReply ==
  ASSUME NEW type \in Types, NEW e \in Seq(Byte), NEW data, data = Field(type, 2) \o e
  PROVE  /\ data \in Seq(Byte) /\ Len(data) = 2 + Len(e)
         /\ LittleEndian(data, 1, 2) = type
         /\ SubSeq(data, 3, 2 + Len(e)) = e
<1> DEFINE f == Field(type, 2)
           one == 1
<1>1. type \in Word16 /\ type \in Int
  BY TypeIsWord
<1>2. 2 \in Nat /\ one \in Int
  OBVIOUS
<1>3. f \in Seq(Byte) /\ Len(f) = 2
  BY <1>1, <1>2, FieldType
<1> HIDE DEF f
<1>4. /\ data \in Seq(Byte) /\ Len(data) = Len(f) + Len(e)
      /\ \A i \in 1 .. Len(f) + Len(e) : data[i] = IF i <= Len(f) THEN f[i] ELSE e[i - Len(f)]
  BY <1>3, ConcatProperties DEF f
<1>5. Len(e) \in Nat
  OBVIOUS
<1>6. \A i \in 1 .. 2 : data[one + i - 1] = f[i]
  BY <1>3, <1>4, <1>5
<1>7. LittleEndian(data, one, 2) = type
  <2> HIDE DEF one
  <2> QED
    BY <1>1, <1>2, <1>6, WordReadsBack DEF f
<1>8. SubSeq(data, 3, 2 + Len(e)) = e
  <2>1. 3 = Len(f) + 1 /\ 2 + Len(e) = Len(f) + Len(e)
    BY <1>3, <1>5
  <2>2. SubSeq(f \o e, Len(f) + 1, Len(f) + Len(e)) = e
    BY <1>3, RestOf
  <2> QED
    BY <2>1, <2>2 DEF f
<1> QED
  BY <1>3, <1>4, <1>7, <1>8

\* What the controller sends of a simple type decodes to its elements.
LEMMA ElementsAreDecoded ==
  ASSUME NEW type \in Simple, NEW values \in Seq(Int), Len(values) >= 1, NEW rep,
         rep.service = CIP_DATA_READ + 128,
         rep.data = Field(type, 2) \o Encoded(type, values)
  PROVE  DecodeLGX(rep) = [type |-> type, elementsize |-> Width(type),
                           Varcount |-> Len(values), data |-> Encoded(type, values)]
<1> DEFINE size == Width(type)
           e == Encoded(type, values)
           n == Len(values)
<1>1. type \in Types
  BY DEF Types
<1>2. size \in Sizes /\ size \in {1, 2, 4} /\ GetLGXDataSize(type) = size
  BY <1>1, SizeOfType
<1>3. e \in Seq(Byte) /\ Len(e) = n * size
  BY <1>2, PackedBytes DEF Encoded
<1>4. n \in Nat /\ n >= 1
  OBVIOUS
<1> HIDE DEF size, e, n
<1>5. (n * size) \div size = n /\ n * size \in Nat
  BY <1>2, <1>4, CountOfElements
<1>6. Len(rep.data) = 2 + Len(e) /\ LittleEndian(rep.data, 1, 2) = type
      /\ SubSeq(rep.data, 3, 2 + Len(e)) = e
  BY <1>1, <1>3, TypeOfReply, ZenonT(60) DEF e
<1>7. GetLGXDataType(rep) = type
  BY <1>6 DEF GetLGXDataType
<1> DEFINE totalsize == Len(rep.data) - 2
<1>8. totalsize = n * size /\ totalsize = Len(e)
  BY <1>3, <1>6, <1>5
<1>9. ~(size <= 0) /\ ~(n < 1)
  BY <1>2, <1>4
<1> HIDE DEF totalsize
<1>10. DecodeLGX(rep) = IF totalsize \div size < 1 THEN Nothing
                       ELSE [type |-> type, elementsize |-> size, Varcount |-> totalsize \div size,
                             data |-> SubSeq(rep.data, 3, 2 + totalsize)]
  BY <1>2, <1>7, <1>9 DEF DecodeLGX, totalsize
<1>11. totalsize \div size = n /\ SubSeq(rep.data, 3, 2 + totalsize) = e
  BY <1>6, <1>8, <1>5
<1> QED
  BY <1>9, <1>10, <1>11 DEF n, size, e

\* What has no simple type is not read.
LEMMA NoElements ==
  ASSUME NEW rep,
         \/ rep.service # CIP_DATA_READ + 128
         \/ \E e \in Seq(Byte) : rep.data = Field(Structure, 2) \o e
  PROVE  DecodeLGX(rep) = Nothing
<1>1. GetLGXDataType(rep) \in {0, Structure}
  <2>1. CASE rep.service # CIP_DATA_READ + 128
    BY <2>1 DEF GetLGXDataType
  <2>2. CASE \E e \in Seq(Byte) : rep.data = Field(Structure, 2) \o e
    <3>1. Structure \in Types
      BY DEF Types
    <3>2. LittleEndian(rep.data, 1, 2) = Structure
      BY <2>2, <3>1, TypeOfReply
    <3> QED
      BY <3>2 DEF GetLGXDataType
  <2> QED
    BY <2>1, <2>2
<1>2. GetLGXDataSize(GetLGXDataType(rep)) = Error
  BY <1>1, NoSize
<1>3. Error <= 0
  BY DEF Error
<1> QED
  BY <1>2, <1>3 DEF DecodeLGX

\* The value of an element that was decoded.
LEMMA ElementValue ==
  ASSUME NEW type \in Simple, NEW values \in Seq(Int), NEW i \in 1 .. Len(values),
         Holds(type, values[i]), MinInt <= values[i], values[i] <= MaxInt,
         NEW read, read.type = type, read.elementsize = Width(type),
         read.data = Encoded(type, values)
  PROVE  GetLGXValueAsFloat(read, i - 1)
           = IF type = LGX_REAL THEN Field(values[i], 4) ELSE Rounded(values[i])
<1> DEFINE size == Width(type)
           e == Encoded(type, values)
           value == values[i]
           at == (i - 1) * size + 1
<1>1. size \in {1, 2, 4} /\ size \in Sizes
  BY SizeOfType DEF Types
<1>2. value \in Int /\ i \in Nat
  OBVIOUS
<1>3. \A j \in 1 .. size : e[(i - 1) * size + j] = Field(value, size)[j]
  BY <1>1, PackedBytes DEF Encoded
<1> HIDE DEF e, size, value
<1>4. at \in Int
  BY <1>1, <1>2
<1>5. \A j \in 1 .. size : e[at + j - 1] = Field(value, size)[j]
  <2>1. \A j \in 1 .. size : at + j - 1 = (i - 1) * size + j
    BY <1>1, <1>2
  <2> QED
    BY <1>3, <2>1
<1>6. at = (i - 1) * read.elementsize + 1 /\ read.data = e
  BY DEF size, e
<1> HIDE DEF at
<1>7. CASE type = LGX_REAL
  <2>1. size = 4
    BY <1>7 DEF size, Width, Simple, GetLGXDataSize, LGX_BOOL, LGX_SINT, LGX_INT, LGX_DINT,
                LGX_REAL, LGX_BITARRAY
  <2> DEFINE f == Field(value, 4)
  <2>2. f \in Seq(Byte) /\ Len(f) = 4
    <3>1. 4 \in Nat
      OBVIOUS
    <3> QED
      BY <1>2, <3>1, FieldType
  <2>3. \A j \in 1 .. Len(f) : e[at + j - 1] = f[j]
    BY <1>5, <2>1, <2>2
  <2> HIDE DEF f
  <2>4. at + 3 = at + Len(f) - 1
    BY <1>4, <2>2
  <2>5. SubSeq(e, at, at + 3) = f
    <3>1. \A t, to : /\ t \in Seq(Byte) /\ \A j \in 1 .. Len(t) : e[at + j - 1] = t[j]
                     /\ to = at + Len(t) - 1
                     => SubSeq(e, at, to) = t
      BY ONLY <1>4, BytesOf
    <3> QED
      BY ONLY <2>2, <2>3, <2>4, <3>1
  <2>6. GetLGXValueAsFloat(read, i - 1) = SubSeq(e, at, at + 3)
    <3>1. read.type = LGX_REAL /\ read.type # LGX_BOOL
      BY <1>7 DEF LGX_REAL, LGX_BOOL
    <3> QED
      BY <1>6, <3>1 DEF GetLGXValueAsFloat
  <2> QED
    BY <1>7, <2>5, <2>6 DEF f, value
<1>8. CASE type = LGX_BOOL
  <2>1. size = 1
    BY <1>8 DEF size, Width, Simple, GetLGXDataSize, LGX_BOOL, LGX_SINT, LGX_INT, LGX_DINT,
                LGX_REAL, LGX_BITARRAY
  <2>2. value \in 0 .. 255
    BY <1>8 DEF Holds, value, LGX_BOOL, LGX_SINT, LGX_INT
  <2>3. e[at] = Field(value, 1)[1] /\ at + 1 - 1 = at
    BY <1>4, <1>5, <2>1
  <2>4. Field(value, 1)[1] = value % 256
    <3>1. value \div 1 = value
      BY <1>2
    <3> QED
      BY <3>1, PlaceValues DEF Field
  <2>5. value % 256 = value
    BY <2>2
  <2>6. GetLGXValueAsFloat(read, i - 1) = Rounded(e[at])
    BY <1>6, <1>8 DEF GetLGXValueAsFloat, LGX_REAL, LGX_BOOL
  <2> QED
    BY <1>8, <2>3, <2>4, <2>6, <2>5 DEF value, LGX_REAL, LGX_BOOL
<1>9. CASE type \notin {LGX_REAL, LGX_BOOL}
  <2>1. InRange(value, size)
    <3> USE DEF Width, Simple, GetLGXDataSize, LGX_BOOL, LGX_SINT, LGX_INT, LGX_DINT,
                LGX_REAL, LGX_BITARRAY
    <3>1. CASE type = LGX_SINT
      BY <3>1 DEF size, value, Holds, InRange
    <3>2. CASE type = LGX_INT
      BY <3>2 DEF size, value, Holds, InRange
    <3>3. CASE type \in {LGX_DINT, LGX_BITARRAY}
      <4>1. size = 4
        BY <3>3 DEF size
      <4>2. MinInt <= value /\ value <= MaxInt
        BY DEF value
      <4> QED
        BY <4>1, <4>2 DEF InRange
    <3> QED
      BY <1>9, <3>1, <3>2, <3>3
  <2>2. SignedField(e, at, size) = value
    BY <1>1, <1>2, <1>4, <1>5, <2>1, SignedReadsBack
  <2>3. GetLGXValueAsFloat(read, i - 1) = Rounded(SignedField(e, at, size))
    BY <1>6, <1>9 DEF GetLGXValueAsFloat, size
  <2> QED
    BY <1>9, <2>2, <2>3 DEF value
<1> QED
  BY <1>7, <1>8, <1>9

-----------------------------------------------------------------------------
\* Paths.

\* What holds of pairs of sequences and of their concatenations holds of as many on
\* either side, one behind the other.
LEMMA FlattenPairs ==
  ASSUME NEW T, <<<<>>, <<>>>> \in T,
         \A a, b, c, d : <<a, b>> \in T /\ <<c, d>> \in T => <<a \o c, b \o d>> \in T,
         NEW n \in Nat, NEW ss, NEW tt, Len(ss) = n, Len(tt) = n,
         n = 0 => ss = <<>> /\ tt = <<>>,
         \A i \in 1 .. n : <<ss[i], tt[i]>> \in T
  PROVE  <<FlattenSeq(ss), FlattenSeq(tt)>> \in T
<1> DEFINE f == Flattened(ss, n)
           g == Flattened(tt, n)
           S == {k \in Nat : k = 0 \/ (k <= n => <<f[k], g[k]>> \in T)}
<1>1. /\ f = [i \in 1 .. n |-> IF i = 1 THEN ss[i] ELSE f[i - 1] \o ss[i]]
      /\ g = [i \in 1 .. n |-> IF i = 1 THEN tt[i] ELSE g[i - 1] \o tt[i]]
  BY FlattenedOfEvery
<1>2. /\ FlattenSeq(ss) = IF n = 0 THEN ss ELSE f[n]
      /\ FlattenSeq(tt) = IF n = 0 THEN tt ELSE g[n]
  BY DEF FlattenSeq, Flattened
<1> HIDE DEF f, g
<1>3. 0 \in S
  OBVIOUS
<1>4. ASSUME NEW k \in Nat, k \in S
      PROVE  k + 1 \in S
  <2>1. CASE k + 1 <= n
    <3>1. k + 1 \in 1 .. n /\ (k + 1) - 1 = k
      BY <2>1
    <3>2. /\ f[k + 1] = IF k + 1 = 1 THEN ss[k + 1] ELSE f[k] \o ss[k + 1]
          /\ g[k + 1] = IF k + 1 = 1 THEN tt[k + 1] ELSE g[k] \o tt[k + 1]
      BY <1>1, <3>1, ZenonT(60)
    <3>3. k + 1 # 1 => <<f[k], g[k]>> \in T
      BY <1>4, <2>1
    <3>4. <<f[k + 1], g[k + 1]>> \in T
      BY <3>1, <3>2, <3>3, ZenonT(60)
    <3> QED
      BY <3>4
  <2> QED
    BY <2>1
<1>5. Nat \subseteq S
  <2> HIDE DEF S
  <2> QED
    BY <1>3, <1>4, InductionOnSet
<1>6. CASE n = 0
  BY <1>2, <1>6
<1>7. CASE n # 0
  BY <1>2, <1>5, <1>7
<1> QED
  BY <1>6, <1>7

\* The same of single ones.
LEMMA FlattenSeqIn ==
  ASSUME NEW T, <<>> \in T, \A a, b \in T : a \o b \in T, NEW ss \in Seq(T)
  PROVE  FlattenSeq(ss) \in T
<1> DEFINE Twice == {<<a, a>> : a \in T}
<1>1. <<<<>>, <<>>>> \in Twice
  OBVIOUS
<1>2. \A a, b, c, d : <<a, b>> \in Twice /\ <<c, d>> \in Twice => <<a \o c, b \o d>> \in Twice
  OBVIOUS
<1>3. /\ Len(ss) \in Nat /\ (Len(ss) = 0 => ss = <<>>)
      /\ \A i \in 1 .. Len(ss) : <<ss[i], ss[i]>> \in Twice
  OBVIOUS
<1>4. \A a, b : <<a, b>> \in Twice => a \in T
  OBVIOUS
<1> HIDE DEF Twice
<1>5. <<FlattenSeq(ss), FlattenSeq(ss)>> \in Twice
  BY <1>1, <1>2, <1>3, FlattenPairs
<1> QED
  BY <1>4, <1>5

\* Sequences of one element each make a sequence of these elements.
LEMMA FlattenSingles ==
  ASSUME NEW S, NEW e \in Seq(S)
  PROVE  FlattenSeq([i \in DOMAIN e |-> <<e[i]>>]) = e
<1> DEFINE ss == [i \in DOMAIN e |-> <<e[i]>>]
           n == Len(e)
           f == Flattened(ss, n)
           K == {k \in Nat : k = 0 \/ (k <= n => f[k] = SubSeq(e, 1, k))}
<1>1. n \in Nat /\ DOMAIN e = 1 .. n /\ \A i \in 1 .. n : e[i] \in S
  OBVIOUS
<1>2. Len(ss) = n /\ \A i \in 1 .. n : ss[i] = <<e[i]>>
  BY <1>1
<1> HIDE DEF ss, n
<1>3. f = [i \in 1 .. n |-> IF i = 1 THEN ss[i] ELSE f[i - 1] \o ss[i]]
  BY <1>1, FlattenedOfEvery
<1>4. FlattenSeq(ss) = IF n = 0 THEN ss ELSE f[n]
  BY <1>2 DEF FlattenSeq, Flattened
<1> HIDE DEF f
<1>5. 0 \in K
  OBVIOUS
<1>6. ASSUME NEW k \in Nat, k \in K
      PROVE  k + 1 \in K
  <2>1. CASE k + 1 <= n
    <3>1. k + 1 \in 1 .. n /\ (k + 1) - 1 = k
      BY <2>1
    <3>2. f[k + 1] = IF k + 1 = 1 THEN <<e[k + 1]>> ELSE f[k] \o <<e[k + 1]>>
      BY <1>2, <1>3, <3>1
    <3>3. CASE k = 0
      <4>1. f[k + 1] = <<e[1]>>
        BY <3>2, <3>3
      <4>2. SubSeq(e, 1, 1) = <<e[1]>>
        <5> DEFINE one == <<e[1]>>
        <5>1. one \in Seq(S) /\ Len(one) = 1 /\ one[1] = e[1]
          BY <1>1, <3>1, <3>3
        <5> HIDE DEF one
        <5>2. \A i \in 1 .. Len(one) : e[1 + i - 1] = one[i]
          BY <5>1
        <5>3. 1 = 1 + Len(one) - 1 /\ 1 \in Int
          BY <5>1
        <5>4. SubSeq(e, 1, 1) = one
          BY <5>1, <5>2, <5>3, PartOf
        <5> QED
          BY <5>4 DEF one
      <4> QED
        BY <3>3, <4>1, <4>2
    <3>4. CASE k # 0
      <4>1. f[k] = SubSeq(e, 1, k)
        BY <1>1, <1>6, <2>1, <3>4
      <4>2. SubSeq(e, 1, k + 1) = SubSeq(e, 1, k) \o <<e[k + 1]>>
        BY <1>1, <2>1, <3>1, <3>4
      <4>3. k + 1 # 1
        BY <3>4
      <4> QED
        BY <3>2, <4>1, <4>2, <4>3
    <3> QED
      BY <3>3, <3>4
  <2> QED
    BY <2>1
<1>7. Nat \subseteq K
  <2> HIDE DEF K
  <2> QED
    BY <1>5, <1>6, InductionOnSet
<1>8. CASE n = 0
  <2>1. ss = <<>> /\ e = <<>>
    BY <1>1, <1>8 DEF ss, n
  <2> QED
    BY <1>4, <1>8, <2>1
<1>9. CASE n # 0
  <2>1. f[n] = SubSeq(e, 1, n)
    BY <1>1, <1>7, <1>9
  <2>2. SubSeq(e, 1, n) = e
    BY DEF n
  <2> QED
    BY <1>4, <1>9, <2>1, <2>2 DEF ss
<1> QED
  BY <1>8, <1>9 DEF ss

\* Bytes of an even length.
Even == {s \in Seq(Byte) : Len(s) % 2 = 0}

\* Paths are built of parts with an even number of bytes, since their length is
\* sent in words.
LEMMA EvenParts == <<>> \in Even /\ \A a, b \in Even : a \o b \in Even
<1>1. <<>> \in Even
  BY DEF Even
<1>2. ASSUME NEW a \in Even, NEW b \in Even PROVE a \o b \in Even
  <2>1. a \in Seq(Byte) /\ b \in Seq(Byte) /\ Len(a) % 2 = 0 /\ Len(b) % 2 = 0
    BY DEF Even
  <2>2. Len(a) \in Nat /\ Len(b) \in Nat
    BY <2>1
  <2>3. a \o b \in Seq(Byte) /\ Len(a \o b) = Len(a) + Len(b)
    BY <2>1
  <2>4. (Len(a) + Len(b)) % 2 = 0
    BY <2>1, <2>2
  <2> QED
    BY <2>3, <2>4 DEF Even
<1> QED
  BY <1>1, <1>2

LEMMA EvenPair ==
  ASSUME NEW a \in Byte, NEW b \in Byte
  PROVE  <<a, b>> \in Even
BY DEF Even

LEMMA NameIsEven ==
  ASSUME NEW name \in Seq(Byte)
  PROVE  BuildIOIString(name) \in Even
<1> DEFINE head == <<145, Len(name) % 256>>
           pad == IF Len(name) % 2 = 1 THEN <<0>> ELSE <<>>
<1>1. Len(name) \in Nat
  OBVIOUS
<1>2. Len(name) % 256 \in Byte /\ 145 \in Byte /\ 0 \in Byte
  <2>1. \A n \in Nat : n % 256 \in Byte
    BY DEF Byte
  <2>2. 145 \in Byte /\ 0 \in Byte
    BY DEF Byte
  <2> QED
    BY <1>1, <2>1, <2>2
<1>3. head \in Seq(Byte) /\ Len(head) = 2
  BY <1>2
<1>4. pad \in Seq(Byte) /\ Len(pad) = Len(name) % 2
  BY <1>1, <1>2
<1> HIDE DEF head, pad
<1>5. /\ head \o name \o pad \in Seq(Byte)
      /\ Len(head \o name \o pad) = 2 + Len(name) + (Len(name) % 2)
  <2> DEFINE hn == head \o name
             all == hn \o pad
  <2>1. hn \in Seq(Byte) /\ Len(hn) = Len(head) + Len(name)
    BY <1>3, ConcatProperties
  <2> HIDE DEF hn
  <2>2. all \in Seq(Byte) /\ Len(all) = Len(hn) + Len(pad)
    BY <1>4, <2>1, ConcatProperties
  <2>3. all = head \o name \o pad
    BY DEF hn
  <2> DEFINE length == Len(name)
  <2>4. Len(hn) = 2 + length /\ Len(pad) = length % 2 /\ length \in Nat
    BY <1>1, <1>3, <1>4, <2>1
  <2> HIDE DEF all, length
  <2>5. Len(all) = 2 + length + (length % 2)
    BY ONLY <2>2, <2>4
  <2> QED
    BY <2>2, <2>3, <2>5 DEF length
<1>6. (2 + Len(name) + (Len(name) % 2)) % 2 = 0
  BY <1>1
<1>7. BuildIOIString(name) = head \o name \o pad
  BY DEF BuildIOIString, head, pad
<1> QED
  BY <1>5, <1>6, <1>7 DEF Even

LEMMA IndexIsEven ==
  ASSUME NEW value \in Int
  PROVE  AddSegmentValue(value) \in Even
<1>1. 40 \in Byte /\ 41 \in Byte /\ 42 \in Byte /\ 0 \in Byte /\ value % 256 \in Byte
  BY DEF Byte
<1>2. Field(value, 2) \in Even
  <2>1. Field(value, 2) \in Seq(Byte) /\ Len(Field(value, 2)) = 2
    <3>1. 2 \in Nat
      OBVIOUS
    <3> QED
      BY <3>1, FieldType
  <2>2. 2 % 2 = 0
    OBVIOUS
  <2> QED
    BY <2>1, <2>2 DEF Even
<1>3. /\ <<40, value % 256>> \in Even /\ <<41, 0>> \in Even /\ <<42, 0>> \in Even
      /\ <<0, 0>> \in Even
  BY <1>1, EvenPair
<1>4. CASE value <= 255
  BY <1>3, <1>4 DEF AddSegmentValue
<1>5. CASE value > 255 /\ value <= 65535
  <2>1. AddSegmentValue(value) = <<41, 0>> \o Field(value, 2)
    BY <1>5 DEF AddSegmentValue
  <2> QED
    BY <1>2, <1>3, <2>1, EvenParts
<1>6. CASE ~(value <= 255) /\ ~(value > 255 /\ value <= 65535)
  <2>1. AddSegmentValue(value) = <<42, 0>> \o Field(value, 2) \o <<0, 0>>
    BY <1>6 DEF AddSegmentValue
  <2> QED
    BY <1>2, <1>3, <2>1, EvenParts
<1> QED
  BY <1>4, <1>5, <1>6

\* A path is made of words.
LEMMA PathIsEven ==
  ASSUME NEW tag \in Seq([name : Seq(Byte), index : Seq(Int)])
  PROVE  BuildIOI(tag) \in Even
<1>1. ASSUME NEW index \in Seq(Int) PROVE BuildIOIArray(index) \in Even
  <2> DEFINE ss == [i \in DOMAIN index |-> AddSegmentValue(index[i])]
  <2>1. \A i \in 1 .. Len(index) : AddSegmentValue(index[i]) \in Even
    BY IndexIsEven
  <2>2. DOMAIN index = 1 .. Len(index) /\ Len(index) \in Nat
    OBVIOUS
  <2>3. ss \in [1 .. Len(index) -> Even]
    BY <2>1, <2>2
  <2>4. ss \in Seq(Even)
    BY <2>2, <2>3
  <2> HIDE DEF ss
  <2>5. FlattenSeq(ss) \in Even
    BY <2>4, EvenParts, FlattenSeqIn
  <2> QED
    BY <2>5 DEF BuildIOIArray, ss
<1> DEFINE P(i) == BuildIOIString(tag[i].name) \o BuildIOIArray(tag[i].index)
           ss == [i \in DOMAIN tag |-> P(i)]
<1>2. DOMAIN tag = 1 .. Len(tag) /\ Len(tag) \in Nat
  OBVIOUS
<1>3. ASSUME NEW i \in 1 .. Len(tag) PROVE P(i) \in Even
  <2>1. tag[i].name \in Seq(Byte) /\ tag[i].index \in Seq(Int)
    <3> DEFINE Members == [name : Seq(Byte), index : Seq(Int)]
    <3>1. tag \in Seq(Members)
      OBVIOUS
    <3> HIDE DEF Members
    <3>2. tag[i] \in Members
      BY <3>1
    <3> QED
      BY <3>2 DEF Members
  <2>2. BuildIOIString(tag[i].name) \in Even
    BY <2>1, NameIsEven
  <2>3. BuildIOIArray(tag[i].index) \in Even
    BY <1>1, <2>1
  <2> QED
    BY <2>2, <2>3, EvenParts
<1> HIDE DEF P
<1>4. ss \in [1 .. Len(tag) -> Even]
  BY <1>2, <1>3
<1>5. ss \in Seq(Even)
  BY <1>2, <1>4
<1>6. BuildIOI(tag) = FlattenSeq(ss)
  BY DEF BuildIOI, P
<1> HIDE DEF ss
<1>7. FlattenSeq(ss) \in Even
  BY <1>5, EvenParts, FlattenSeqIn
<1> QED
  BY <1>6, <1>7

-----------------------------------------------------------------------------
\* Reading a path.

\* What ReadPath reads from each place on.
Reading(path) ==
  CHOOSE read :
    read = [at \in 1 .. Len(path) + 1 |->
              IF at > Len(path) THEN <<>>
              ELSE IF NextSegment(path, at) \in at + 2 .. Len(path) + 1
              THEN <<Segment(path, at)>> \o read[NextSegment(path, at)]
              ELSE <<Broken>>]

\* There is such a function: what is read from a place depends on later places
\* only.
LEMMA ReadingFromEvery ==
  ASSUME NEW path, Len(path) \in Nat
  PROVE  Reading(path) =
           [at \in 1 .. Len(path) + 1 |->
              IF at > Len(path) THEN <<>>
              ELSE IF NextSegment(path, at) \in at + 2 .. Len(path) + 1
              THEN <<Segment(path, at)>> \o Reading(path)[NextSegment(path, at)]
              ELSE <<Broken>>]
<1> DEFINE n == Len(path)
           next(at) == NextSegment(path, at)
           From(f, at) == IF at > n THEN <<>>
                          ELSE IF next(at) \in at + 2 .. n + 1
                          THEN <<Segment(path, at)>> \o f[next(at)]
                          ELSE <<Broken>>
           Is(f) == f = [at \in 1 .. n + 1 |-> From(f, at)]
           Has(k) == \E f : /\ f = [at \in 1 .. n + 1 |-> f[at]]
                            /\ \A at \in 1 .. n + 1 : at + k > n + 1 => f[at] = From(f, at)
           S == {k \in Nat : Has(k)}
<1>1. n \in Nat
  OBVIOUS
<1>2. Reading(path) = CHOOSE f : Is(f)
  BY DEF Reading
<1>3. SUFFICES Is(Reading(path))
  OBVIOUS
<1>4. \A f, g, at : (\A b \in at + 1 .. n + 1 : f[b] = g[b]) /\ at \in 1 .. n + 1
        => From(f, at) = From(g, at)
  <2> TAKE f, g, at
  <2> HAVE (\A b \in at + 1 .. n + 1 : f[b] = g[b]) /\ at \in 1 .. n + 1
  <2> HIDE DEF n, next
  <2>1. next(at) \in at + 2 .. n + 1 => f[next(at)] = g[next(at)]
    BY <1>1
  <2> QED
    BY <2>1
<1> HIDE DEF n, From, Reading
<1>5. 0 \in S
  <2> DEFINE f == [at \in 1 .. n + 1 |-> <<>>]
  <2>1. f = [at \in 1 .. n + 1 |-> f[at]]
    OBVIOUS
  <2>2. \A at \in 1 .. n + 1 : ~(at + 0 > n + 1)
    BY <1>1
  <2> HIDE DEF f
  <2> QED
    BY <2>1, <2>2
<1>6. ASSUME NEW k \in Nat, k \in S
      PROVE  k + 1 \in S
  <2>1. PICK f : /\ f = [at \in 1 .. n + 1 |-> f[at]]
                 /\ \A at \in 1 .. n + 1 : at + k > n + 1 => f[at] = From(f, at)
    BY <1>6
  <2> DEFINE first == n + 1 - k
             g == [at \in 1 .. n + 1 |-> IF at = first THEN From(f, first) ELSE f[at]]
  <2>2. g = [at \in 1 .. n + 1 |-> g[at]]
    OBVIOUS
  <2>3. \A at \in 1 .. n + 1 : at + (k + 1) > n + 1 => g[at] = From(g, at)
    <3> SUFFICES ASSUME NEW at \in 1 .. n + 1, at + (k + 1) > n + 1
                 PROVE  g[at] = From(g, at)
      OBVIOUS
    <3>1. at >= first /\ first \in Int
      BY <1>1
    <3>2. \A b \in at + 1 .. n + 1 : f[b] = g[b]
      BY <1>1, <3>1
    <3>3. From(f, at) = From(g, at)
      BY <1>4, <3>2, ZenonT(60)
    <3>4. CASE at = first
      BY <3>3, <3>4
    <3>5. CASE at # first
      <4>1. at + k > n + 1 /\ g[at] = f[at]
        BY <1>1, <3>1, <3>5
      <4> QED
        BY <2>1, <3>3, <4>1
    <3> QED
      BY <3>4, <3>5
  <2> HIDE DEF g
  <2>4. Has(k + 1)
    BY <2>2, <2>3
  <2>5. k + 1 \in Nat
    OBVIOUS
  <2> HIDE DEF Has
  <2> QED
    BY <2>4, <2>5
<1>7. n + 1 \in S
  <2> HIDE DEF S
  <2>1. Nat \subseteq S
    BY <1>5, <1>6, InductionOnSet
  <2> QED
    BY <1>1, <2>1
<1>8. PICK f : /\ f = [at \in 1 .. n + 1 |-> f[at]]
               /\ \A at \in 1 .. n + 1 : at + (n + 1) > n + 1 => f[at] = From(f, at)
  BY <1>7
<1>9. \A at \in 1 .. n + 1 : f[at] = From(f, at)
  BY <1>1, <1>8
<1>10. Is(f)
  BY <1>8, <1>9
<1> HIDE DEF Is
<1> QED
  BY <1>2, <1>10

\* What a path may be read as: members without an index and indices alone.
Item == [name : Seq(Byte), index : Seq(Int)]

Readable(path) == Item \cup {Segment(path, at) : at \in 1 .. Len(path)}

LEMMA ReadingType ==
  ASSUME NEW path, Len(path) \in Nat
  PROVE  \A at \in 1 .. Len(path) + 1 : Reading(path)[at] \in Seq(Readable(path))
<1> DEFINE n == Len(path)
           read == Reading(path)
           T == Seq(Readable(path))
           S == {k \in Nat : \A at \in 1 .. n + 1 : at + k > n + 1 => read[at] \in T}
<1>1. n \in Nat
  OBVIOUS
<1>2. Broken \in Readable(path)
  BY DEF Broken, Member, Readable, Item
<1>3. \A at \in 1 .. n :
        Segment(path, at) \in Readable(path)
  BY DEF Readable
<1>4. ASSUME NEW at \in 1 .. n + 1, \A b \in at + 1 .. n + 1 : read[b] \in T
      PROVE  read[at] \in T
  <2> DEFINE next == NextSegment(path, at)
  <2>1. read[at] = IF at > n THEN <<>>
                   ELSE IF next \in at + 2 .. n + 1 THEN <<Segment(path, at)>> \o read[next]
                   ELSE <<Broken>>
    BY <1>1, ReadingFromEvery
  <2> HIDE DEF n, read, next
  <2>2. CASE at > n
    BY <2>1, <2>2
  <2>3. CASE ~(at > n) /\ next \in at + 2 .. n + 1
    <3>1. read[next] \in T /\ Segment(path, at) \in Readable(path)
      BY <1>1, <1>3, <1>4, <2>3
    <3>2. <<Segment(path, at)>> \in T
      BY <3>1
    <3> QED
      BY <2>1, <2>3, <3>1, <3>2
  <2>4. CASE ~(at > n) /\ next \notin at + 2 .. n + 1
    BY <1>2, <2>1, <2>4
  <2> QED
    BY <2>2, <2>3, <2>4
<1> HIDE DEF n, read, T
<1>5. 0 \in S
  BY <1>1
<1>6. ASSUME NEW k \in Nat, k \in S
      PROVE  k + 1 \in S
  <2>1. ASSUME NEW at \in 1 .. n + 1, at + (k + 1) > n + 1
        PROVE  read[at] \in T
    <3>1. \A b \in at + 1 .. n + 1 : b + k > n + 1
      BY <1>1, <2>1
    <3>2. \A b \in at + 1 .. n + 1 : b \in 1 .. n + 1
      BY <1>1
    <3>3. \A b \in at + 1 .. n + 1 : read[b] \in T
      BY <1>6, <3>1, <3>2
    <3> QED
      BY <1>4, <3>3
  <2> QED
    BY <2>1
<1>7. n + 1 \in S
  <2> HIDE DEF S
  <2>1. Nat \subseteq S
    BY <1>5, <1>6, InductionOnSet
  <2> QED
    BY <1>1, <2>1
<1>8. \A at \in 1 .. n + 1 : read[at] \in T
  BY <1>1, <1>7
<1> QED
  BY <1>8 DEF n, read, T

\* An item that a segment has room for.
Fits(member) ==
  Len(member.name) < 256 /\ \A j \in DOMAIN member.index : member.index[j] \in Word16

AllFit(items) == \A k \in DOMAIN items : Fits(items[k])

\* The bytes lie in the path from a place on, as far as it goes.
Lie(bytes, path, at) ==
  \A i \in 1 .. Len(bytes) : at + i - 1 <= Len(path) => path[at + i - 1] = bytes[i]

\* Bytes that name the items: wherever they lie, the path reads as the items and
\* what comes behind the bytes, if it has room for all of them and the items fit;
\* otherwise it reads as something else.
Name(bytes, items) ==
  \A path \in Seq(Byte), at \in Nat \ {0} :
    at <= Len(path) + 1 /\ Lie(bytes, path, at) =>
      IF at + Len(bytes) <= Len(path) + 1 /\ AllFit(items)
      THEN Reading(path)[at] = items \o Reading(path)[at + Len(bytes)]
      ELSE \A rest \in Seq(Readable(path)) : Reading(path)[at] # items \o rest

Naming == {pair \in Seq(Byte) \X Seq(Item) : Name(pair[1], pair[2])}

\* No bytes name no items, and what names some items and what names others name
\* both, one behind the other.
LEMMA NothingIsNamed == <<<<>>, <<>>>> \in Naming
<1>1. ASSUME NEW path \in Seq(Byte), NEW at \in Nat \ {0}, at <= Len(path) + 1
      PROVE  Reading(path)[at] = <<>> \o Reading(path)[at]
  <2>1. at \in 1 .. Len(path) + 1
    BY <1>1
  <2>2. Reading(path)[at] \in Seq(Readable(path))
    BY <2>1, ReadingType
  <2> QED
    BY <2>2
<1>2. AllFit(<<>>) /\ Len(<<>>) = 0 /\ \A at \in Nat \ {0} : at + 0 = at
  BY DEF AllFit
<1>3. Name(<<>>, <<>>)
  BY <1>1, <1>2 DEF Name
<1>4. <<>> \in Seq(Byte) /\ <<>> \in Seq(Item)
  OBVIOUS
<1> QED
  BY <1>3, <1>4 DEF Naming

LEMMA AllFitBehind ==
  ASSUME NEW g \in Seq(Item), NEW h \in Seq(Item)
  PROVE  AllFit(g \o h) <=> AllFit(g) /\ AllFit(h)
<1> DEFINE n == Len(g)
           m == Len(h)
           gh == g \o h
<1>1. n \in Nat /\ m \in Nat /\ DOMAIN g = 1 .. n /\ DOMAIN h = 1 .. m
  OBVIOUS
<1>2. /\ DOMAIN gh = 1 .. n + m
      /\ \A k \in 1 .. n : gh[k] = g[k]
      /\ \A k \in 1 .. m : gh[n + k] = h[k]
  OBVIOUS
<1>3. \A k \in 1 .. n + m : k \in 1 .. n \/ (k - n \in 1 .. m /\ k = n + (k - n))
  BY <1>1
<1>4. /\ \A k \in 1 .. n : k \in 1 .. n + m
      /\ \A k \in 1 .. m : n + k \in 1 .. n + m
  BY <1>1
<1> HIDE DEF n, m, gh
<1>5. AllFit(gh) => AllFit(g) /\ AllFit(h)
  BY <1>1, <1>2, <1>4 DEF AllFit
<1>6. AllFit(g) /\ AllFit(h) => AllFit(gh)
  <2> SUFFICES ASSUME AllFit(g), AllFit(h), NEW k \in 1 .. n + m
               PROVE  Fits(gh[k])
    BY <1>2 DEF AllFit
  <2>1. CASE k \in 1 .. n
    BY <1>1, <1>2, <2>1 DEF AllFit
  <2>2. CASE k - n \in 1 .. m /\ k = n + (k - n)
    <3>1. gh[k] = h[k - n]
      BY <1>2, <2>2
    <3> QED
      BY <1>1, <2>2, <3>1 DEF AllFit
  <2> QED
    BY <1>3, <2>1, <2>2
<1> QED
  BY <1>5, <1>6 DEF gh

LEMMA BothAreNamed ==
  ASSUME NEW a, NEW b, NEW g, NEW h, <<a, g>> \in Naming, <<b, h>> \in Naming
  PROVE  <<a \o b, g \o h>> \in Naming
<1>1. /\ a \in Seq(Byte) /\ b \in Seq(Byte) /\ g \in Seq(Item) /\ h \in Seq(Item)
      /\ Name(a, g) /\ Name(b, h)
  BY DEF Naming
<1>2. /\ a \o b \in Seq(Byte) /\ g \o h \in Seq(Item) /\ Len(a \o b) = Len(a) + Len(b)
      /\ Len(a) \in Nat /\ Len(b) \in Nat
      /\ \A i \in 1 .. Len(a) : i \in 1 .. Len(a) + Len(b) /\ (a \o b)[i] = a[i]
      /\ \A i \in 1 .. Len(b) : Len(a) + i \in 1 .. Len(a) + Len(b) /\ (a \o b)[Len(a) + i] = b[i]
  BY <1>1
<1>3. AllFit(g \o h) <=> AllFit(g) /\ AllFit(h)
  BY <1>1, AllFitBehind
<1>4. ASSUME NEW path \in Seq(Byte), NEW at \in Nat \ {0},
             at <= Len(path) + 1, Lie(a \o b, path, at)
      PROVE  IF at + (Len(a) + Len(b)) <= Len(path) + 1 /\ AllFit(g \o h)
             THEN Reading(path)[at] = (g \o h) \o Reading(path)[at + (Len(a) + Len(b))]
             ELSE \A rest \in Seq(Readable(path)) : Reading(path)[at] # (g \o h) \o rest
  <2> DEFINE n == Len(path)
             m == Len(a)
             l == Len(b)
             R == Readable(path)
             read == Reading(path)
  <2>1. n \in Nat /\ m \in Nat /\ l \in Nat
    BY <1>1
  <2>2. g \in Seq(R) /\ h \in Seq(R)
    <3>1. Item \subseteq R
      BY DEF Readable
    <3> HIDE DEF R
    <3> QED
      BY <1>1, <3>1
  <2>3. \A i \in 1 .. n + 1 : read[i] \in Seq(R)
    BY <2>1, ReadingType
  <2>4. Lie(a, path, at)
    BY <1>2, <1>4 DEF Lie
  <2>5. IF at + m <= n + 1 /\ AllFit(g)
        THEN read[at] = g \o read[at + m]
        ELSE \A rest \in Seq(R) : read[at] # g \o rest
    BY <1>1, <1>4, <2>4 DEF Name
  <2>6. at + m <= n + 1 => Lie(b, path, at + m)
    <3>1. \A i \in 1 .. Len(b) : (at + m) + i - 1 = at + (m + i) - 1
      BY <2>1
    <3> QED
      BY <1>2, <1>4, <3>1 DEF Lie
  <2>7. at + m <= n + 1 =>
          IF at + (m + l) <= n + 1 /\ AllFit(h)
          THEN read[at + m] = h \o read[at + (m + l)]
          ELSE \A rest \in Seq(R) : read[at + m] # h \o rest
    <3>1. at + m \in Nat \ {0} /\ (at + m) + l = at + (m + l)
      BY <2>1
    <3> QED
      BY <1>1, <2>6, <3>1 DEF Name
  <2> HIDE DEF n, m, l, R, read
  <2>8. \A rest \in Seq(R) : (g \o h) \o rest = g \o (h \o rest) /\ h \o rest \in Seq(R)
    BY <2>2
  <2>9. \A x, y \in Seq(R) : g \o x = g \o y => x = y
    BY <2>2, ConcatSimplifications
  <2>10. at + (m + l) <= n + 1 =>
           /\ at + m <= n + 1 /\ at + m \in 1 .. n + 1
           /\ at + (m + l) \in 1 .. n + 1
    BY <2>1
  <2>11. CASE at + (m + l) <= n + 1 /\ AllFit(g) /\ AllFit(h)
    <3>1. read[at] = g \o (h \o read[at + (m + l)])
      BY <2>5, <2>7, <2>10, <2>11
    <3>2. read[at + (m + l)] \in Seq(R)
      BY <2>3, <2>10, <2>11
    <3>3. read[at] = (g \o h) \o read[at + (m + l)]
      BY <2>8, <3>1, <3>2
    <3> QED
      BY <1>3, <2>11, <3>3 DEF n, m, l, read
  <2>12. CASE ~(at + (m + l) <= n + 1 /\ AllFit(g) /\ AllFit(h))
    <3>1. ASSUME NEW rest \in Seq(R), read[at] = (g \o h) \o rest
          PROVE  FALSE
      <4>1. read[at] = g \o (h \o rest) /\ h \o rest \in Seq(R)
        BY <2>8, <3>1
      <4>2. at + m <= n + 1 /\ AllFit(g) /\ read[at] = g \o read[at + m]
        BY <2>5, <4>1
      <4>3. read[at + m] \in Seq(R)
        <5>1. at + m \in 1 .. n + 1
          BY <2>1, <4>2
        <5> QED
          BY <2>3, <5>1
      <4>4. read[at + m] = h \o rest
        BY <2>9, <4>1, <4>2, <4>3
      <4> QED
        BY <2>7, <2>12, <4>2, <4>4
    <3> QED
      BY <1>3, <2>12, <3>1 DEF n, m, l, R, read
  <2> QED
    BY <2>11, <2>12
<1>5. Name(a \o b, g \o h)
  BY <1>2, <1>4 DEF Name
<1> QED
  BY <1>2, <1>5 DEF Naming

\* The bytes of one segment name one item: where they lie in the path, the next
\* segment lies behind them, and what is read of them is the item, if it fits.
LEMMA OneIsNamed ==
  ASSUME NEW b \in Seq(Byte), Len(b) >= 2, NEW it \in Item, it # Broken,
         \A path \in Seq(Byte), at \in Nat \ {0} :
           at <= Len(path) /\ Lie(b, path, at) =>
             /\ at + Len(b) <= Len(path) + 1 /\ Fits(it) =>
                  NextSegment(path, at) = at + Len(b)
             /\ NextSegment(path, at) \in at + 2 .. Len(path) + 1 =>
                  /\ Segment(path, at) = it <=> Fits(it)
                  /\ Fits(it) => NextSegment(path, at) = at + Len(b)
  PROVE  <<b, <<it>>>> \in Naming
<1>1. <<it>> \in Seq(Item) /\ (AllFit(<<it>>) <=> Fits(it))
  BY DEF AllFit
<1>2. ASSUME NEW path \in Seq(Byte), NEW at \in Nat \ {0},
             at <= Len(path) + 1, Lie(b, path, at)
      PROVE  IF at + Len(b) <= Len(path) + 1 /\ Fits(it)
             THEN Reading(path)[at] = <<it>> \o Reading(path)[at + Len(b)]
             ELSE \A rest \in Seq(Readable(path)) : Reading(path)[at] # <<it>> \o rest
  <2> DEFINE n == Len(path)
             m == Len(b)
             next == NextSegment(path, at)
             seg == Segment(path, at)
             R == Readable(path)
             read == Reading(path)
  <2>1. n \in Nat /\ m \in Nat /\ m >= 2 /\ at \in 1 .. n + 1
    BY <1>2
  <2>2. at <= n =>
          /\ at + m <= n + 1 /\ Fits(it) => next = at + m
          /\ next \in at + 2 .. n + 1 =>
               /\ seg = it <=> Fits(it)
               /\ Fits(it) => next = at + m
    BY <1>2
  <2>3. read[at] = IF at > n THEN <<>>
                   ELSE IF next \in at + 2 .. n + 1 THEN <<seg>> \o read[next]
                   ELSE <<Broken>>
    BY <2>1, ReadingFromEvery
  <2>4. \A i \in 1 .. n + 1 : read[i] \in Seq(R)
    BY <2>1, ReadingType
  <2>5. /\ at <= n => seg \in R
        /\ it \in R
    <3>1. at <= n => at \in 1 .. n
      BY <2>1
    <3> QED
      BY <3>1 DEF Readable
  <2> HIDE DEF n, m, next, seg, R, read
  <2>6. CASE at + m <= n + 1 /\ Fits(it)
    <3>1. at <= n /\ next = at + m /\ next \in at + 2 .. n + 1
      BY <2>1, <2>2, <2>6
    <3>2. seg = it /\ ~(at > n)
      BY <2>1, <2>2, <2>6, <3>1
    <3>3. read[at] = <<it>> \o read[at + m]
      BY <2>3, <3>1, <3>2
    <3> QED
      BY <2>6, <3>3 DEF n, m, read
  <2>7. CASE ~(at + m <= n + 1 /\ Fits(it))
    <3>1. ASSUME NEW rest \in Seq(R), read[at] = <<it>> \o rest
          PROVE  FALSE
      <4>1. read[at] # <<>> /\ read[at][1] = it
        BY <2>5, <3>1
      <4>2. at <= n /\ next \in at + 2 .. n + 1
        <5>1. read[at] # <<Broken>>
          BY <4>1
        <5> QED
          BY <2>1, <2>3, <4>1, <5>1
      <4>3. read[next] \in Seq(R) /\ seg \in R
        <5>1. next \in 1 .. n + 1
          BY <2>1, <4>2
        <5> QED
          BY <2>4, <2>5, <4>2, <5>1
      <4>4. read[at] = <<seg>> \o read[next]
        BY <2>1, <2>3, <4>2
      <4>5. read[at][1] = seg
        BY <4>3, <4>4
      <4>6. Fits(it) /\ next = at + m /\ next <= n + 1
        BY <2>1, <2>2, <4>1, <4>2, <4>5
      <4> QED
        BY <2>7, <4>6
    <3> QED
      BY <2>7, <3>1 DEF n, m, R, read
  <2> QED
    BY <2>6, <2>7
<1>3. Name(b, <<it>>)
  BY <1>1, <1>2 DEF Name
<1> QED
  BY <1>1, <1>3 DEF Naming

\* The bytes of a name, if it is not empty, name the member.
LEMMA NameIsNamed ==
  ASSUME NEW name \in Seq(Byte), name # <<>>
  PROVE  <<BuildIOIString(name), <<Member(name, <<>>)>>>> \in Naming
<1> DEFINE l == Len(name)
           b == BuildIOIString(name)
           head == <<145, l % 256>>
           pad == IF l % 2 = 1 THEN <<0>> ELSE <<>>
<1>1. l \in Nat /\ l >= 1 /\ l % 256 \in Nat /\ l % 2 \in {0, 1}
  OBVIOUS
<1>2. head \in Seq(Byte) /\ Len(head) = 2 /\ head[1] = 145 /\ head[2] = l % 256
  <2>1. l % 256 \in Byte /\ 145 \in Byte
    <3>1. \A k \in Nat : k % 256 \in Byte
      BY DEF Byte
    <3>2. 145 \in Byte
      BY DEF Byte
    <3> QED
      BY <1>1, <3>1, <3>2
  <2> QED
    BY <2>1
<1>3. pad \in Seq(Byte) /\ Len(pad) = l % 2
  <2>1. 0 \in Byte
    BY DEF Byte
  <2> QED
    BY <1>1, <2>1
<1>4. b = head \o name \o pad
  BY DEF BuildIOIString
<1> HIDE DEF head, pad, b
<1>5. /\ b \in Seq(Byte) /\ Len(b) = Len(head) + l + Len(pad)
      /\ \A i \in 1 .. Len(head) : b[i] = head[i]
      /\ \A i \in 1 .. l : b[Len(head) + i] = name[i]
  <2>1. /\ head \in Seq(Byte) /\ name \in Seq(Byte) /\ pad \in Seq(Byte)
    BY <1>2, <1>3
  <2> HIDE DEF l
  <2>2. LET b3 == head \o name \o pad
        IN  /\ b3 \in Seq(Byte) /\ Len(b3) = Len(head) + Len(name) + Len(pad)
            /\ \A i \in 1 .. Len(head) : b3[i] = head[i]
            /\ \A i \in 1 .. Len(name) : b3[Len(head) + i] = name[i]
    BY ONLY <2>1, SMTT(60), ThreeParts
  <2> QED
    BY <1>4, <2>2 DEF l
<1> HIDE DEF l
<1>6. /\ Len(b) = 2 + l + (l % 2) /\ Len(b) >= 2
      /\ b[1] = 145 /\ b[2] = l % 256
      /\ \A i \in 1 .. l : b[2 + i] = name[i]
  BY <1>1, <1>2, <1>3, <1>5
<1> DEFINE it == Member(name, <<>>)
<1>7. it \in Item /\ it # Broken /\ (Fits(it) <=> l < 256)
  BY DEF Member, Item, Broken, Fits, l
<1> HIDE DEF it
<1>8. ASSUME NEW path \in Seq(Byte), NEW at \in Nat \ {0}, at <= Len(path), Lie(b, path, at)
      PROVE  /\ at + Len(b) <= Len(path) + 1 /\ Fits(it) =>
                  NextSegment(path, at) = at + Len(b)
             /\ NextSegment(path, at) \in at + 2 .. Len(path) + 1 =>
                  /\ Segment(path, at) = it <=> Fits(it)
                  /\ Fits(it) => NextSegment(path, at) = at + Len(b)
  <2> DEFINE n == Len(path)
             c == path[at + 1]
             next == NextSegment(path, at)
  <2>1. n \in Nat
    BY <1>8
  <2>2. \A i \in 1 .. Len(b) : at + i - 1 <= n => path[at + i - 1] = b[i]
    BY <1>8 DEF Lie
  <2>3. path[at] = 145
    <3>1. at + 1 - 1 = at /\ 1 \in 1 .. Len(b)
      BY <1>1, <1>6
    <3> QED
      BY <1>6, <1>8, <2>2, <3>1
  <2>4. at + 1 <= n => c = l % 256
    <3>1. at + 2 - 1 = at + 1 /\ 2 \in 1 .. Len(b)
      BY <1>1, <1>6
    <3> QED
      BY <1>6, <2>2, <3>1
  <2>5. next = at + 2 + c + (c % 2)
    BY <2>3 DEF NextSegment
  <2>6. Segment(path, at) = Member(SubSeq(path, at + 2, at + 1 + c), <<>>)
    BY <2>3 DEF Segment
  <2> HIDE DEF n, c, next
  <2>7. ASSUME at + Len(b) <= n + 1, Fits(it) PROVE next = at + Len(b)
    <3>1. l < 256 /\ at + 1 <= n /\ l % 256 = l
      BY <1>1, <1>6, <1>7, <2>1, <2>7, SMTT(60)
    <3>2. c = l
      BY <2>4, <3>1
    <3> QED
      BY <1>1, <1>6, <2>5, <3>2
  <2>8. ASSUME next \in at + 2 .. n + 1
        PROVE  /\ Segment(path, at) = it <=> Fits(it)
               /\ Fits(it) => next = at + Len(b)
    <3>1. at + 1 <= n
      BY <2>1, <2>8
    <3>2. c = l % 256 /\ c \in Nat
      BY <1>1, <2>4, <3>1
    <3>3. CASE l < 256
      <4>1. c = l /\ next = at + 2 + l + (l % 2)
        BY <1>1, <2>5, <3>2, <3>3
      <4>2. next = at + Len(b)
        BY <1>1, <1>6, <4>1
      <4>3. SubSeq(path, at + 2, at + 1 + l) = name
        <5> DEFINE from == at + 2
                   to == at + 1 + l
        <5>1. \A i \in 1 .. l : path[(at + 2) + i - 1] = name[i]
          <6> TAKE i \in 1 .. l
          <6>1. /\ 2 + i \in 1 .. Len(b) /\ at + (2 + i) - 1 = (at + 2) + i - 1
                /\ at + (2 + i) - 1 <= n
            BY <1>1, <1>6, <2>1, <2>8, <4>1
          <6> QED
            BY <1>6, <2>2, <6>1
        <5>2. to = from + Len(name) - 1 /\ from \in Int
          BY <1>1 DEF l
        <5>3. \A i \in 1 .. Len(name) : path[from + i - 1] = name[i]
          BY <5>1 DEF l
        <5> HIDE DEF it, from, to
        <5>4. name \in Seq(Byte)
          OBVIOUS
        <5>5. SubSeq(path, from, to) = name
          BY <5>2, <5>3, <5>4, BytesOf
        <5> QED
          BY <5>5 DEF from, to
      <4> QED
        BY <1>7, <2>6, <3>3, <4>1, <4>2, <4>3 DEF it
    <3>4. CASE ~(l < 256)
      <4>1. c # l
        BY <1>1, <3>2, <3>4
      <4>2. SubSeq(path, at + 2, at + 1 + c) # name
        <5>1. Len(SubSeq(path, at + 2, at + 1 + c)) = c
          BY <3>2
        <5> QED
          BY <4>1, <5>1 DEF l
      <4> QED
        BY <1>7, <2>6, <3>4, <4>2 DEF it, Member
    <3> QED
      BY <3>3, <3>4
  <2> QED
    BY <2>7, <2>8 DEF n, next
<1>9. <<b, <<it>>>> \in Naming
  BY <1>5, <1>6, <1>7, <1>8, OneIsNamed, ZenonT(60)
<1> QED
  BY <1>9 DEF b, it

\* The bytes of an index name it.
LEMMA IndexAsItem ==
  ASSUME NEW value \in Int
  PROVE  LET it == Member(<<>>, <<value>>)
         IN  /\ it \in Item /\ it # Broken
             /\ Fits(it) <=> value \in Word16
             /\ \A v : Member(<<>>, <<v>>) = it <=> v = value
<1> DEFINE it == Member(<<>>, <<value>>)
<1>1. it.name = <<>> /\ it.index = <<value>>
  BY DEF Member
<1>2. <<>> \in Seq(Byte) /\ <<value>> \in Seq(Int)
  OBVIOUS
<1>3. it \in Item
  BY <1>2 DEF Item, Member
<1>4. it # Broken /\ \A v : Member(<<>>, <<v>>) = it <=> v = value
  BY DEF Broken, Member
<1>5. Fits(it) <=> value \in Word16
  <2>1. Len(<<>>) < 256 /\ DOMAIN <<value>> = {1} /\ <<value>>[1] = value
    OBVIOUS
  <2> HIDE DEF it
  <2> QED
    BY <1>1, <2>1 DEF Fits
<1> QED
  BY <1>3, <1>4, <1>5

LEMMA IndexIsNamed ==
  ASSUME NEW value \in Int
  PROVE  <<AddSegmentValue(value), <<Member(<<>>, <<value>>)>>>> \in Naming
<1> DEFINE it == Member(<<>>, <<value>>)
           f == Field(value, 2)
           b == AddSegmentValue(value)
           Named(path, at) ==
             /\ at + Len(b) <= Len(path) + 1 /\ Fits(it) =>
                  NextSegment(path, at) = at + Len(b)
             /\ NextSegment(path, at) \in at + 2 .. Len(path) + 1 =>
                  /\ Segment(path, at) = it <=> Fits(it)
                  /\ Fits(it) => NextSegment(path, at) = at + Len(b)
<1>1. /\ it \in Item /\ it # Broken
      /\ Fits(it) <=> value \in Word16
      /\ \A v : Member(<<>>, <<v>>) = it <=> v = value
  BY IndexAsItem
<1>2. value \in Word16 <=> value >= 0 /\ value < 65536
  BY Word16Values, WordOf
<1>3. /\ f \in Seq(Byte) /\ Len(f) = 2
      /\ f[1] = value % 256 /\ f[2] = (value \div 256) % 256
  BY WordBytes, ZenonT(60)
<1>4. /\ value % 256 \in Byte /\ (value \div 256) % 256 \in Byte
      /\ 40 \in Byte /\ 41 \in Byte /\ 42 \in Byte /\ 0 \in Byte
  BY DEF Byte
<1> HIDE DEF it, f
<1>5. CASE value <= 255
  <2>1. b = <<40, value % 256>>
    BY <1>5 DEF AddSegmentValue
  <2>2. b \in Seq(Byte) /\ Len(b) = 2 /\ Len(b) >= 2 /\ b[1] = 40 /\ b[2] = value % 256
    BY <1>4, <2>1
  <2> HIDE DEF b
  <2>3. ASSUME NEW path \in Seq(Byte), NEW at \in Nat \ {0}, at <= Len(path), Lie(b, path, at)
        PROVE  Named(path, at)
    <3>1. path[at] = 40
      <4>1. at + 1 - 1 = at /\ 1 \in 1 .. Len(b)
        BY <2>2
      <4> QED
        BY <2>2, <2>3, <4>1 DEF Lie
    <3>2. at + 1 <= Len(path) => path[at + 1] = value % 256
      <4>1. at + 2 - 1 = at + 1 /\ 2 \in 1 .. Len(b)
        BY <2>2
      <4> QED
        BY <2>2, <2>3, <4>1 DEF Lie
    <3>3. /\ NextSegment(path, at) = at + 2
          /\ Segment(path, at) = Member(<<>>, <<path[at + 1]>>)
      BY <3>1 DEF NextSegment, Segment
    <3>4. NextSegment(path, at) \in at + 2 .. Len(path) + 1 => at + 1 <= Len(path)
      BY <2>3, <3>3
    <3>5. value % 256 = value <=> value >= 0
      BY <1>5
    <3> QED
      BY <1>1, <1>2, <1>5, <2>2, <3>2, <3>3, <3>4, <3>5
  <2>4. b \in Seq(Byte) /\ Len(b) >= 2 /\ it \in Item /\ it # Broken
    BY <1>1, <2>2
  <2>5. <<b, <<it>>>> \in Naming
    BY ONLY <2>3, <2>4, OneIsNamed
  <2> QED
    BY <2>5 DEF b, it
<1>6. CASE value > 255 /\ value <= 65535
  <2> DEFINE head == <<41, 0>>
  <2>1. b = head \o f
    BY <1>6 DEF AddSegmentValue, f
  <2>2. head \in Seq(Byte) /\ Len(head) = 2 /\ head[1] = 41
    BY <1>4
  <2> HIDE DEF b, head
  <2>3. /\ b \in Seq(Byte) /\ Len(b) = 4 /\ Len(b) >= 2 /\ b[1] = 41
        /\ \A i \in 1 .. 2 : b[2 + i] = f[i]
    <3>1. /\ head \o f \in Seq(Byte) /\ Len(head \o f) = Len(head) + Len(f)
          /\ \A i \in 1 .. Len(head) + Len(f) :
               (head \o f)[i] = IF i <= Len(head) THEN head[i] ELSE f[i - Len(head)]
      <4>1. head \in Seq(Byte) /\ f \in Seq(Byte)
        BY <1>3, <2>2
      <4> QED
        BY ONLY <4>1, ConcatProperties
    <3>2. \A i \in 1 .. 2 : 2 + i \in 1 .. 2 + 2 /\ ~(2 + i <= 2) /\ (2 + i) - 2 = i
      OBVIOUS
    <3> QED
      BY <1>3, <2>1, <2>2, <3>1, <3>2
  <2>4. ASSUME NEW path \in Seq(Byte), NEW at \in Nat \ {0}, at <= Len(path), Lie(b, path, at)
        PROVE  Named(path, at)
    <3>1. path[at] = 41
      <4>1. at + 1 - 1 = at /\ 1 \in 1 .. Len(b)
        BY <2>3
      <4> QED
        BY <2>3, <2>4, <4>1 DEF Lie
    <3>2. at + 3 <= Len(path) => \A i \in 1 .. 2 : path[(at + 2) + i - 1] = f[i]
      <4>1. \A i \in 1 .. 2 : /\ at + (2 + i) - 1 = (at + 2) + i - 1 /\ 2 + i \in 1 .. Len(b)
                              /\ at + (2 + i) - 1 <= at + 3
        BY <2>3
      <4>2. Len(path) \in Nat
        BY <2>4
      <4>3. at + 3 <= Len(path) => \A i \in 1 .. 2 : at + (2 + i) - 1 <= Len(path)
        BY <4>2
      <4> QED
        BY <2>3, <2>4, <4>1, <4>3, SMTT(60) DEF Lie
    <3>3. /\ NextSegment(path, at) = at + 4
          /\ Segment(path, at) = Member(<<>>, <<LittleEndian(path, at + 2, 2)>>)
      BY <3>1 DEF NextSegment, Segment
    <3>4. NextSegment(path, at) \in at + 2 .. Len(path) + 1 => at + 3 <= Len(path)
      BY <2>4, <3>3
    <3>5. value \in Word16
      BY <1>2, <1>6
    <3>6. at + 3 <= Len(path) => LittleEndian(path, at + 2, 2) = value
      <4> DEFINE from == at + 2
      <4>1. from \in Int
        OBVIOUS
      <4> HIDE DEF from
      <4>2. (\A i \in 1 .. 2 : path[from + i - 1] = f[i]) => LittleEndian(path, from, 2) = value
        BY <3>5, <4>1, WordReadsBack DEF f
      <4> QED
        BY <3>2, <4>2 DEF from
    <3> QED
      BY <1>1, <2>3, <3>3, <3>4, <3>5, <3>6
  <2>5. b \in Seq(Byte) /\ Len(b) >= 2 /\ it \in Item /\ it # Broken
    BY <1>1, <2>3
  <2>6. <<b, <<it>>>> \in Naming
    BY ONLY <2>4, <2>5, OneIsNamed
  <2> QED
    BY <2>6 DEF b, it
<1>7. CASE value > 65535
  <2> DEFINE head == <<42, 0>>
             tail == <<0, 0>>
  <2>1. b = head \o f \o tail
    BY <1>7, SMTT(60) DEF AddSegmentValue, f
  <2>2. /\ head \in Seq(Byte) /\ Len(head) = 2 /\ head[1] = 42
        /\ tail \in Seq(Byte) /\ Len(tail) = 2 /\ tail[1] = 0 /\ tail[2] = 0
    BY <1>4
  <2> HIDE DEF b, head, tail
  <2>3. /\ b \in Seq(Byte) /\ Len(b) = Len(head) + Len(f) + Len(tail)
        /\ \A i \in 1 .. Len(head) : b[i] = head[i]
        /\ \A i \in 1 .. Len(f) : b[Len(head) + i] = f[i]
        /\ \A i \in 1 .. Len(tail) : b[Len(head) + Len(f) + i] = tail[i]
    <3>1. head \in Seq(Byte) /\ f \in Seq(Byte) /\ tail \in Seq(Byte)
      BY <1>3, <2>2
    <3>2. LET b3 == head \o f \o tail
          IN  /\ b3 \in Seq(Byte) /\ Len(b3) = Len(head) + Len(f) + Len(tail)
              /\ \A i \in 1 .. Len(head) : b3[i] = head[i]
              /\ \A i \in 1 .. Len(f) : b3[Len(head) + i] = f[i]
              /\ \A i \in 1 .. Len(tail) : b3[Len(head) + Len(f) + i] = tail[i]
      BY ONLY <3>1, SMTT(60), ThreeParts
    <3> QED
      BY <2>1, <3>2
  <2>4. /\ Len(b) = 6 /\ Len(b) >= 2 /\ b[1] = 42
        /\ b[3] = value % 256 /\ b[4] = (value \div 256) % 256
        /\ b[5] = 0 /\ b[6] = 0
    BY <1>3, <2>2, <2>3
  <2>5. ASSUME NEW path \in Seq(Byte), NEW at \in Nat \ {0}, at <= Len(path), Lie(b, path, at)
        PROVE  Named(path, at)
    <3>1. Len(path) \in Nat /\ at \in Nat
      BY <2>5
    <3>2. \A i \in 1 .. 6 : at + i - 1 <= Len(path) => path[at + i - 1] = b[i]
      BY <2>4, <2>5, ZenonT(60) DEF Lie
    <3>3. path[at] = 42
      <4>1. at + 1 - 1 = at /\ 1 \in 1 .. 6
        BY <3>1
      <4> QED
        BY <2>4, <2>5, <3>2, <4>1
    <3>4. /\ NextSegment(path, at) = at + 6
          /\ Segment(path, at) = Member(<<>>, <<LittleEndian(path, at + 2, 4)>>)
      BY <3>3 DEF NextSegment, Segment
    <3>5. ASSUME at + 5 <= Len(path)
          PROVE  LittleEndian(path, at + 2, 4) # value
      <4> DEFINE from == at + 2
      <4>1. /\ path[from] = value % 256 /\ path[from + 1] = (value \div 256) % 256
            /\ path[from + 2] = 0 /\ path[from + 3] = 0
        <5>1. /\ at + 3 - 1 = from /\ at + 4 - 1 = from + 1
              /\ at + 5 - 1 = from + 2 /\ at + 6 - 1 = from + 3
              /\ from <= Len(path) /\ from + 1 <= Len(path)
              /\ from + 2 <= Len(path) /\ from + 3 <= Len(path)
          BY <3>1, <3>5
        <5> HIDE DEF from
        <5> QED
          BY <2>4, <3>2, <5>1, SMTT(60)
      <4>2. from \in Int /\ from + 0 = from
        BY <3>1
      <4>3. (value % 256) \in Int /\ (value \div 256) % 256 \in Int
        OBVIOUS
      <4> HIDE DEF from
      <4>4. LittleEndian(path, from, 4) = (value % 256) + ((value \div 256) % 256) * 256
        BY <4>1, <4>2, <4>3, PlaceValues, SMTT(60) DEF LittleEndian
      <4>5. (value % 256) + ((value \div 256) % 256) * 256 < 65536
        OBVIOUS
      <4> QED
        BY <1>7, <4>4, <4>5 DEF from
    <3>6. NextSegment(path, at) \in at + 2 .. Len(path) + 1 => at + 5 <= Len(path)
      BY <3>1, <3>4
    <3>7. ~Fits(it)
      BY <1>1, <1>2, <1>7
    <3> QED
      BY <1>1, <3>4, <3>5, <3>6, <3>7
  <2>6. b \in Seq(Byte) /\ Len(b) >= 2 /\ it \in Item /\ it # Broken
    BY <1>1, <2>3, <2>4
  <2>7. <<b, <<it>>>> \in Naming
    BY ONLY <2>5, <2>6, OneIsNamed
  <2> QED
    BY <2>7 DEF b, it
<1> QED
  BY <1>5, <1>6, <1>7

\* The bytes of all indices of a member name them, and so do those of a whole tag.
IndexItems(index) == [j \in DOMAIN index |-> Member(<<>>, <<index[j]>>)]

LEMMA IndicesAreNamed ==
  ASSUME NEW index \in Seq(Int)
  PROVE  <<BuildIOIArray(index), IndexItems(index)>> \in Naming
<1> DEFINE n == Len(index)
           e == IndexItems(index)
           ss == [j \in DOMAIN index |-> AddSegmentValue(index[j])]
           tt == [j \in DOMAIN e |-> <<e[j]>>]
<1>1. n \in Nat /\ DOMAIN index = 1 .. n /\ \A j \in 1 .. n : index[j] \in Int
  OBVIOUS
<1>2. /\ DOMAIN e = 1 .. n
      /\ \A j \in 1 .. n : e[j] = Member(<<>>, <<index[j]>>)
  BY <1>1 DEF IndexItems
<1>3. \A j \in 1 .. n : e[j] \in Item
  <2> TAKE j \in 1 .. n
  <2> DEFINE value == index[j]
             it == Member(<<>>, <<value>>)
  <2>1. value \in Int
    BY <1>1
  <2>2. e[j] = it
    BY <1>2
  <2> HIDE DEF value
  <2>3. it \in Item
    BY <2>1, IndexAsItem
  <2> HIDE DEF it, e
  <2> QED
    BY <2>2, <2>3
<1>4. e \in Seq(Item)
  <2>1. e = [j \in 1 .. n |-> e[j]]
    BY <1>1 DEF IndexItems
  <2> HIDE DEF e, n
  <2>2. e \in [1 .. n -> Item]
    BY <1>3, <2>1
  <2> QED
    BY <1>1, <2>2
<1>5. BuildIOIArray(index) = FlattenSeq(ss)
  BY DEF BuildIOIArray
<1>6. FlattenSeq(tt) = e
  <2> HIDE DEF e
  <2> QED
    BY <1>4, FlattenSingles
<1>7. /\ Len(ss) = n /\ Len(tt) = n
      /\ n = 0 => ss = <<>> /\ tt = <<>>
      /\ \A j \in 1 .. n : ss[j] = AddSegmentValue(index[j]) /\ tt[j] = <<e[j]>>
  <2> HIDE DEF e, n
  <2> QED
    BY <1>1, <1>2
<1>8. \A j \in 1 .. n : <<ss[j], tt[j]>> \in Naming
  <2> HIDE DEF ss, tt, e, n
  <2> QED
    BY <1>1, <1>2, <1>7, IndexIsNamed
<1> HIDE DEF ss, tt, e, n
<1>9. <<FlattenSeq(ss), FlattenSeq(tt)>> \in Naming
  BY <1>1, <1>7, <1>8, NothingIsNamed, BothAreNamed, FlattenPairs
<1> QED
  BY <1>5, <1>6, <1>9 DEF e

\* What a caller may ask for: a member has a name.
TagMembers == [name : Seq(Byte) \ {<<>>}, index : Seq(Int)]

LEMMA PathIsNamed ==
  ASSUME NEW tag \in Seq(TagMembers)
  PROVE  <<BuildIOI(tag), Segments(tag)>> \in Naming
<1> DEFINE n == Len(tag)
           PathPart(i) == BuildIOIString(tag[i].name) \o BuildIOIArray(tag[i].index)
           ItemPart(i) == <<Member(tag[i].name, <<>>)>> \o IndexItems(tag[i].index)
           ss == [i \in DOMAIN tag |-> PathPart(i)]
           tt == [i \in DOMAIN tag |-> ItemPart(i)]
<1>1. n \in Nat /\ DOMAIN tag = 1 .. n /\ \A i \in 1 .. n : tag[i] \in TagMembers
  OBVIOUS
<1>2. \A i \in 1 .. n : <<PathPart(i), ItemPart(i)>> \in Naming
  <2> TAKE i \in 1 .. n
  <2>1. /\ tag[i].name \in Seq(Byte) /\ tag[i].name # <<>>
        /\ tag[i].index \in Seq(Int)
    BY <1>1 DEF TagMembers
  <2>2. <<BuildIOIString(tag[i].name), <<Member(tag[i].name, <<>>)>>>> \in Naming
    BY <2>1, NameIsNamed
  <2>3. <<BuildIOIArray(tag[i].index), IndexItems(tag[i].index)>> \in Naming
    BY <2>1, IndicesAreNamed
  <2> QED
    BY <2>2, <2>3, BothAreNamed
<1>3. BuildIOI(tag) = FlattenSeq(ss) /\ Segments(tag) = FlattenSeq(tt)
  BY DEF BuildIOI, Segments, IndexItems
<1> HIDE DEF n, PathPart, ItemPart
<1>4. /\ Len(ss) = n /\ Len(tt) = n
      /\ n = 0 => ss = <<>> /\ tt = <<>>
      /\ \A i \in 1 .. n : ss[i] = PathPart(i) /\ tt[i] = ItemPart(i)
  BY <1>1
<1> HIDE DEF ss, tt
<1>5. <<FlattenSeq(ss), FlattenSeq(tt)>> \in Naming
  BY <1>1, <1>2, <1>4, NothingIsNamed, BothAreNamed, FlattenPairs
<1> QED
  BY <1>3, <1>5

\* All that a tag names fits if and only if its names and its indices do.
LEMMA AllFitFlattened ==
  ASSUME NEW n \in Nat, NEW ss, Len(ss) = n, n = 0 => ss = <<>>,
         \A i \in 1 .. n : ss[i] \in Seq(Item)
  PROVE  AllFit(FlattenSeq(ss)) <=> \A i \in 1 .. n : AllFit(ss[i])
<1> DEFINE f == Flattened(ss, n)
           All(k) == \A i \in 1 .. k : AllFit(ss[i])
           Is(k) == f[k] \in Seq(Item) /\ (AllFit(f[k]) <=> All(k))
           S == {k \in Nat : k = 0 \/ (k <= n => Is(k))}
<1>1. f = [i \in 1 .. n |-> IF i = 1 THEN ss[i] ELSE f[i - 1] \o ss[i]]
  BY FlattenedOfEvery, ZenonT(60)
<1>2. FlattenSeq(ss) = IF n = 0 THEN ss ELSE f[n]
  BY DEF FlattenSeq, Flattened
<1> HIDE DEF f
<1>3. 0 \in S
  OBVIOUS
<1>4. ASSUME NEW k \in Nat, k \in S
      PROVE  k + 1 \in S
  <2>1. CASE k + 1 <= n
    <3>1. k + 1 \in 1 .. n /\ (k + 1) - 1 = k
      BY <2>1
    <3>2. f[k + 1] = IF k + 1 = 1 THEN ss[k + 1] ELSE f[k] \o ss[k + 1]
      BY <1>1, <3>1
    <3>3. ss[k + 1] \in Seq(Item)
      BY <3>1
    <3>4. All(k + 1) <=> All(k) /\ AllFit(ss[k + 1])
      <4>1. \A i \in 1 .. k + 1 : i \in 1 .. k \/ i = k + 1
        OBVIOUS
      <4>2. k + 1 \in 1 .. k + 1 /\ \A i \in 1 .. k : i \in 1 .. k + 1
        OBVIOUS
      <4> QED
        BY <4>1, <4>2
    <3>5. CASE k = 0
      <4>1. All(k)
        BY <3>5
      <4>2. f[k + 1] = ss[k + 1]
        BY <3>2, <3>5
      <4> HIDE DEF All
      <4>3. Is(k + 1)
        BY <3>3, <3>4, <4>1, <4>2
      <4> HIDE DEF Is
      <4> QED
        BY <4>3
    <3>6. CASE k # 0
      <4>1. Is(k)
        <5> HIDE DEF Is
        <5> QED
          BY <1>4, <2>1, <3>6
      <4>2. f[k + 1] = f[k] \o ss[k + 1]
        <5>1. k + 1 # 1
          BY <3>6
        <5> QED
          BY <3>2, <5>1
      <4> HIDE DEF All
      <4>3. AllFit(f[k + 1]) <=> AllFit(f[k]) /\ AllFit(ss[k + 1])
        BY <3>3, <4>1, <4>2, AllFitBehind
      <4>4. f[k + 1] \in Seq(Item)
        BY <3>3, <4>1, <4>2
      <4>5. Is(k + 1)
        BY <3>4, <4>1, <4>3, <4>4
      <4> HIDE DEF Is
      <4> QED
        BY <4>5
    <3> QED
      BY <3>5, <3>6
  <2>2. CASE ~(k + 1 <= n)
    <3> HIDE DEF Is
    <3> QED
      BY <2>2
  <2> QED
    BY <2>1, <2>2
<1>5. Nat \subseteq S
  <2> HIDE DEF S
  <2> QED
    BY <1>3, <1>4, InductionOnSet
<1>6. CASE n = 0
  <2>1. FlattenSeq(ss) = <<>> /\ AllFit(<<>>)
    BY <1>2, <1>6 DEF AllFit
  <2> QED
    BY <1>6, <2>1
<1>7. CASE n # 0
  <2>1. Is(n)
    <3> HIDE DEF Is
    <3> QED
      BY <1>5, <1>7
  <2> QED
    BY <1>2, <1>7, <2>1
<1> QED
  BY <1>6, <1>7

LEMMA TagFits ==
  ASSUME NEW tag \in Seq(TagMembers)
  PROVE  AllFit(Segments(tag)) <=>
           \A i \in DOMAIN tag :
             /\ Len(tag[i].name) < 256
             /\ \A j \in DOMAIN tag[i].index : tag[i].index[j] \in Word16
<1> DEFINE n == Len(tag)
           NamePart(i) == <<Member(tag[i].name, <<>>)>>
           IndexPart(i) == IndexItems(tag[i].index)
           tt == [i \in DOMAIN tag |-> NamePart(i) \o IndexPart(i)]
           Fit(i) == /\ Len(tag[i].name) < 256
                     /\ \A j \in DOMAIN tag[i].index : tag[i].index[j] \in Word16
<1>1. n \in Nat /\ DOMAIN tag = 1 .. n /\ \A i \in 1 .. n : tag[i] \in TagMembers
  OBVIOUS
<1>2. ASSUME NEW i \in 1 .. n
      PROVE  tt[i] \in Seq(Item) /\ (AllFit(tt[i]) <=> Fit(i))
  <2> DEFINE name == tag[i].name
             index == tag[i].index
             it == Member(name, <<>>)
  <2>1. name \in Seq(Byte) /\ index \in Seq(Int)
    BY <1>1 DEF TagMembers
  <2>2. tt[i] = NamePart(i) \o IndexPart(i)
    BY <1>1
  <2>3. NamePart(i) \in Seq(Item) /\ (AllFit(NamePart(i)) <=> Len(name) < 256)
    <3>1. it \in Item /\ (Fits(it) <=> Len(name) < 256)
      BY <2>1 DEF Item, Member, Fits
    <3> HIDE DEF it, name
    <3>2. <<it>> \in Seq(Item) /\ (AllFit(<<it>>) <=> Fits(it))
      BY <3>1 DEF AllFit
    <3> QED
      BY <3>1, <3>2 DEF it, name
  <2>4. /\ IndexPart(i) \in Seq(Item)
        /\ AllFit(IndexPart(i)) <=> \A j \in DOMAIN index : index[j] \in Word16
    <3> DEFINE e == IndexItems(index)
    <3> HIDE DEF index
    <3>1. /\ DOMAIN index = 1 .. Len(index) /\ Len(index) \in Nat
          /\ \A j \in 1 .. Len(index) : index[j] \in Int
      BY <2>1
    <3>2. e = [j \in 1 .. Len(index) |-> e[j]] /\ DOMAIN e = DOMAIN index
          /\ \A j \in 1 .. Len(index) : e[j] = Member(<<>>, <<index[j]>>)
      BY <3>1 DEF IndexItems
    <3> HIDE DEF e
    <3>3. \A j \in 1 .. Len(index) : e[j] \in Item /\ (Fits(e[j]) <=> index[j] \in Word16)
      <4> TAKE j \in 1 .. Len(index)
      <4> DEFINE value == index[j]
                 single == Member(<<>>, <<value>>)
      <4>1. value \in Int
        BY <3>1
      <4>2. e[j] = single
        BY <3>2
      <4> HIDE DEF value
      <4>3. single \in Item /\ (Fits(single) <=> value \in Word16)
        BY <4>1, IndexAsItem
      <4> HIDE DEF single
      <4> QED
        BY <4>2, <4>3 DEF value
    <3>4. e \in [1 .. Len(index) -> Item]
      BY <3>2, <3>3
    <3>5. e \in Seq(Item)
      BY <3>1, <3>4
    <3>6. AllFit(e) <=> \A j \in DOMAIN index : index[j] \in Word16
      BY <3>1, <3>2, <3>3 DEF AllFit
    <3> QED
      BY <3>5, <3>6 DEF e, index
  <2> HIDE DEF tt, NamePart, IndexPart
  <2>5. NamePart(i) \o IndexPart(i) \in Seq(Item)
    BY <2>3, <2>4
  <2>6. AllFit(NamePart(i) \o IndexPart(i)) <=> AllFit(NamePart(i)) /\ AllFit(IndexPart(i))
    BY <2>3, <2>4, AllFitBehind
  <2> QED
    BY <2>2, <2>3, <2>4, <2>5, <2>6
<1>3. Segments(tag) = FlattenSeq(tt)
  BY DEF Segments, IndexItems
<1> HIDE DEF Fit, NamePart, IndexPart
<1>4. Len(tt) = n /\ (n = 0 => tt = <<>>)
  BY <1>1
<1> HIDE DEF tt, n
<1>5. AllFit(FlattenSeq(tt)) <=> \A i \in 1 .. n : AllFit(tt[i])
  BY <1>1, <1>2, <1>4, AllFitFlattened
<1> QED
  BY <1>1, <1>2, <1>3, <1>5 DEF Fit

\* A request: the path, behind its length in words, and what it takes besides.
Request(service, ioi, tail) == <<service, (Len(ioi) \div 2) % 256>> \o ioi \o tail

\* Whatever is behind the path, the controller reads the tag out of it if and only
\* if the tag can be reached.
LEMMA PathReadsAsTag ==
  ASSUME NEW tag \in Seq(TagMembers), BuildIOI(tag) \in Even,
         NEW service \in Byte, NEW tail \in Seq(Byte)
  PROVE  Reachable(tag) <=>
           ReadPath(PathOf(Request(service, BuildIOI(tag), tail))) = Segments(tag)
<1> DEFINE ioi == BuildIOI(tag)
           items == Segments(tag)
           l == Len(ioi)
           w == (l \div 2) % 256
           head == <<service, w>>
           bytes == Request(service, ioi, tail)
           path == PathOf(bytes)
<1>1. ioi \in Seq(Byte) /\ items \in Seq(Item) /\ Name(ioi, items)
  BY PathIsNamed DEF Naming
<1>2. l \in Nat /\ l % 2 = 0
  BY <1>1, SMTT(60) DEF Even
<1> HIDE DEF ioi
<1>3. w \in Nat /\ w \in Byte /\ 2 * w <= l /\ (l < 512 <=> 2 * w = l)
  <2> HIDE DEF l
  <2>1. \A k \in Nat : k % 256 \in Byte
    BY DEF Byte
  <2> DEFINE h == l \div 2
  <2>2. h \in Nat /\ l = 2 * h
    BY <1>2
  <2>3. w = h % 256
    OBVIOUS
  <2> HIDE DEF h, w
  <2>4. h % 256 \in Nat /\ h % 256 <= h /\ (h < 256 <=> h % 256 = h)
    <3> DEFINE q == h \div 256
               r == h % 256
    <3>1. q \in Nat /\ r \in Nat /\ r < 256 /\ h = 256 * q + r /\ h \in Nat
      BY <2>2
    <3> HIDE DEF q, r
    <3>2. r <= h /\ (h < 256 <=> q = 0) /\ (q = 0 <=> r = h)
      BY <3>1
    <3> QED
      BY <3>1, <3>2 DEF r
  <2> QED
    BY <2>1, <2>2, <2>3, <2>4
<1> HIDE DEF w, l
<1>4. head \in Seq(Byte) /\ Len(head) = 2 /\ head[2] = w
  BY <1>3
<1>5. bytes = head \o ioi \o tail
  BY DEF Request, w, l
<1> HIDE DEF head, bytes
<1>6. LET b == head \o ioi \o tail
      IN  /\ b \in Seq(Byte) /\ Len(b) = Len(head) + Len(ioi) + Len(tail)
          /\ \A i \in 1 .. Len(head) : b[i] = head[i]
          /\ \A i \in 1 .. Len(ioi) : b[Len(head) + i] = ioi[i]
  <2>1. head \in Seq(Byte) /\ ioi \in Seq(Byte) /\ tail \in Seq(Byte)
    BY <1>1, <1>4
  <2> QED
    BY ONLY <2>1, SMTT(60), ThreeParts
<1>7. /\ bytes \in Seq(Byte) /\ Len(bytes) = 2 + l + Len(tail) /\ Len(tail) \in Nat
      /\ bytes[2] = w
      /\ \A i \in 1 .. l : bytes[2 + i] = ioi[i]
  <2>1. Len(tail) \in Nat
    OBVIOUS
  <2>2. 2 \in 1 .. Len(head) /\ l = Len(ioi)
    BY <1>4 DEF l
  <2>3. bytes \in Seq(Byte) /\ Len(bytes) = Len(head) + Len(ioi) + Len(tail)
    BY <1>5, <1>6
  <2>4. bytes[2] = head[2] /\ \A i \in 1 .. Len(ioi) : bytes[Len(head) + i] = ioi[i]
    BY <1>5, <1>6, <2>2
  <2> QED
    BY <1>4, <2>1, <2>2, <2>3, <2>4
<1>8. path = SubSeq(bytes, 3, 2 + 2 * w)
  BY <1>7 DEF PathOf
<1> HIDE DEF path
<1>9. /\ path \in Seq(Byte) /\ Len(path) = 2 * w
      /\ \A i \in 1 .. 2 * w : path[i] = ioi[i]
  <2> DEFINE to == 2 + 2 * w
  <2>1. to \in Int /\ 3 \in Int /\ to <= Len(bytes) /\ to - 3 + 1 = 2 * w /\ 3 <= to + 1
    BY <1>2, <1>3, <1>7
  <2>2. path = [i \in 1 .. 2 * w |-> bytes[2 + i]]
    <3>1. \A i \in 1 .. 2 * w : i + 3 - 1 = 2 + i
      BY <1>3
    <3> QED
      BY <1>3, <1>8, <2>1, <3>1
  <2>3. \A i \in 1 .. 2 * w : i \in 1 .. l /\ 2 + i \in 1 .. Len(bytes)
    BY <1>2, <1>3, <1>7
  <2>4. \A i \in 1 .. 2 * w : path[i] = ioi[i] /\ path[i] \in Byte
    <3>1. \A i \in 1 .. Len(bytes) : bytes[i] \in Byte
      BY <1>7
    <3> QED
      BY <1>7, <2>2, <2>3, <3>1
  <2>5. 2 * w \in Nat
    BY <1>3
  <2>6. path \in [1 .. 2 * w -> Byte]
    BY <2>2, <2>4
  <2> QED
    BY <2>4, <2>5, <2>6
<1>10. AllFit(items) /\ 2 * w = l <=> Reachable(tag)
  BY <1>3, TagFits DEF Reachable, l, ioi
<1>11. Lie(ioi, path, 1)
  <2> SUFFICES ASSUME NEW i \in 1 .. l, 1 + i - 1 <= Len(path)
               PROVE  path[1 + i - 1] = ioi[i]
    BY DEF Lie, l
  <2>1. 1 + i - 1 = i /\ i \in 1 .. 2 * w
    BY <1>2, <1>3, <1>9
  <2> QED
    BY <1>9, <2>1
<1>12. ReadPath(path) = Reading(path)[1]
  BY DEF ReadPath, Reading
<1> HIDE DEF items
<1>13. IF 1 + l <= 2 * w + 1 /\ AllFit(items)
       THEN Reading(path)[1] = items \o Reading(path)[1 + l]
       ELSE \A rest \in Seq(Readable(path)) : Reading(path)[1] # items \o rest
  <2>1. 1 \in Nat \ {0} /\ 1 <= Len(path) + 1
    BY <1>3, <1>9
  <2> QED
    BY <1>1, <1>9, <1>11, <2>1 DEF Name, l
<1>14. 1 + l <= 2 * w + 1 <=> 2 * w = l
  BY <1>2, <1>3
<1>15. items \o <<>> = items /\ <<>> \in Seq(Readable(path))
  BY <1>1
<1>16. CASE Reachable(tag)
  <2>1. Reading(path)[1] = items \o Reading(path)[1 + l]
    BY <1>10, <1>13, <1>14, <1>16
  <2>2. Reading(path)[1 + l] = <<>>
    <3>1. 1 + l = Len(path) + 1 /\ 1 + l \in 1 .. Len(path) + 1 /\ 1 + l > Len(path)
      <4>1. Len(path) = l
        BY <1>9, <1>10, <1>16
      <4> QED
        BY <1>2, <4>1
    <3>2. Len(path) \in Nat
      BY <1>9
    <3> QED
      BY <3>1, <3>2, ReadingFromEvery
  <2> QED
    BY <1>12, <1>15, <1>16, <2>1, <2>2 DEF path, bytes, ioi, items
<1>17. CASE ~Reachable(tag)
  <2>1. Reading(path)[1] # items \o <<>>
    BY <1>10, <1>13, <1>14, <1>15, <1>17
  <2> QED
    BY <1>12, <1>15, <1>17, <2>1 DEF path, bytes, ioi, items
<1> QED
  BY <1>16, <1>17

\* So it is in the requests of reads and of writes.
LEMMA ReadNamesElement ==
  ASSUME NEW tag \in Seq(TagMembers), BuildIOI(tag) \in Even, NEW number \in Word16
  PROVE  Reachable(tag) <=>
           ReadPath(PathOf(BuildLgxReadDataRequest(tag, number))) = Segments(tag)
<1> DEFINE bytes == BuildLgxReadDataRequest(tag, number)
           f == Field(number, 2)
<1>1. f \in Seq(Byte)
  <2>1. number \in Int /\ 2 \in Nat
    BY Word16Values
  <2> QED
    BY <2>1, FieldType
<1>2. bytes = Request(CIP_DATA_READ, BuildIOI(tag), f)
  BY DEF BuildLgxReadDataRequest, Request
<1>3. CIP_DATA_READ \in Byte
  BY DEF CIP_DATA_READ, Byte
<1> HIDE DEF bytes, f
<1>4. Reachable(tag) <=>
        ReadPath(PathOf(Request(CIP_DATA_READ, BuildIOI(tag), f))) = Segments(tag)
  BY <1>1, <1>3, Zenon, PathReadsAsTag
<1> QED
  BY <1>2, <1>4 DEF bytes

LEMMA WriteNamesElement ==
  ASSUME NEW tag \in Seq(TagMembers), BuildIOI(tag) \in Even,
         NEW type \in Simple, NEW values \in Seq(Int)
  PROVE  Reachable(tag) <=>
           ReadPath(PathOf(BuildLgxWriteDataRequest(tag, type, values))) = Segments(tag)
<1> DEFINE bytes == BuildLgxWriteDataRequest(tag, type, values)
           ioi == BuildIOI(tag)
           head == <<CIP_DATA_WRITE, (Len(ioi) \div 2) % 256>>
           f == Field(type, 2)
           g == Field(Len(values), 2)
           e == Encoded(type, values)
           tail == f \o g \o e
<1>1. f \in Seq(Byte) /\ g \in Seq(Byte) /\ e \in Seq(Byte)
  <2>1. type \in Types
    BY DEF Types
  <2>2. type \in Int /\ Len(values) \in Int /\ 2 \in Nat
    BY <2>1, TypeIsWord
  <2>3. f \in Seq(Byte) /\ g \in Seq(Byte)
    BY <2>2, FieldType
  <2>4. e \in Seq(Byte)
    BY <2>1, SizeOfType, PackedBytes DEF Encoded
  <2> QED
    BY <2>3, <2>4
<1>2. ioi \in Seq(Byte)
  BY DEF Even
<1>3. CIP_DATA_WRITE \in Byte
  BY DEF CIP_DATA_WRITE, Byte
<1>4. head \in Seq(Byte)
  <2>1. \A k \in Nat : k % 256 \in Byte
    BY DEF Byte
  <2>2. Len(ioi) \div 2 \in Nat
    BY <1>2
  <2>3. (Len(ioi) \div 2) % 256 \in Byte
    BY <2>1, <2>2
  <2> QED
    BY <1>3, <2>3
<1>5. bytes = head \o ioi \o f \o g \o e
  BY DEF BuildLgxWriteDataRequest
<1> HIDE DEF bytes, ioi, head, f, g, e
<1>6. bytes = head \o ioi \o tail /\ tail \in Seq(Byte)
  <2> DEFINE hi == head \o ioi
  <2>1. hi \in Seq(Byte) /\ f \o g \in Seq(Byte) /\ tail \in Seq(Byte)
    BY <1>1, <1>2, <1>4
  <2>2. hi \o f \o g = hi \o (f \o g)
    <3>1. hi \in Seq(Byte) /\ f \in Seq(Byte) /\ g \in Seq(Byte)
      BY <1>1, <2>1
    <3> HIDE DEF hi
    <3> QED
      BY ONLY <3>1, ConcatAssociative, SMTT(60)
  <2> DEFINE fg == f \o g
  <2> HIDE DEF hi
  <2>3. hi \in Seq(Byte) /\ fg \in Seq(Byte) /\ e \in Seq(Byte)
    BY <1>1, <2>1
  <2> HIDE DEF fg
  <2>4. (hi \o fg) \o e = hi \o (fg \o e)
    BY ONLY <2>3, ConcatAssociative, SMTT(60)
  <2> QED
    BY <1>5, <2>1, <2>2, <2>4 DEF hi, fg
<1> HIDE DEF tail
<1>7. bytes = Request(CIP_DATA_WRITE, BuildIOI(tag), tail)
  BY <1>6 DEF Request, head, ioi
<1>8. Reachable(tag) <=>
        ReadPath(PathOf(Request(CIP_DATA_WRITE, BuildIOI(tag), tail))) = Segments(tag)
  BY <1>3, <1>6, Zenon, PathReadsAsTag
<1> QED
  BY <1>7, <1>8 DEF bytes

\* What the controller finds in a write.
LEMMA WriteIsTakenApart ==
  ASSUME NEW tag, BuildIOI(tag) \in Even, Len(BuildIOI(tag)) < 512,
         NEW type \in Simple, NEW values \in Seq(Int), Len(values) \in Word16
  PROVE  LET bytes == BuildLgxWriteDataRequest(tag, type, values)
             at == AfterPath(bytes)
         IN  /\ LittleEndian(bytes, at, 2) = type
             /\ LittleEndian(bytes, at + 2, 2) = Len(values)
             /\ SubSeq(bytes, at + 4, Len(bytes)) = Encoded(type, values)
<1> DEFINE path == BuildIOI(tag)
           half == Len(path) \div 2
           head == <<CIP_DATA_WRITE, half % 256>>
           front == head \o path
           one == Field(type, 2)
           two == Field(Len(values), 2)
           fields == front \o one \o two
           e == Encoded(type, values)
           bytes == BuildLgxWriteDataRequest(tag, type, values)
           at == AfterPath(bytes)
<1>1. path \in Seq(Byte) /\ Len(path) \in Nat /\ Len(path) = 2 * half /\ half \in Nat /\ half < 256
  <2>1. path \in Seq(Byte) /\ Len(path) % 2 = 0 /\ Len(path) < 512
    BY DEF Even
  <2>2. Len(path) \in Nat
    BY <2>1
  <2> DEFINE length == Len(path)
  <2> HIDE DEF length
  <2>3. \A n \in Nat : n % 2 = 0 /\ n < 512 =>
          n = 2 * (n \div 2) /\ n \div 2 \in Nat /\ n \div 2 < 256
    OBVIOUS
  <2> QED
    BY <2>1, <2>2, <2>3
<1> HIDE DEF path, half
<1>2. half % 256 = half /\ half \in Byte /\ CIP_DATA_WRITE \in Byte
  <2>1. CIP_DATA_WRITE \in Byte
    BY DEF CIP_DATA_WRITE, Byte
  <2>2. half \in Byte
    BY <1>1 DEF Byte
  <2>3. half % 256 = half
    BY <1>1
  <2> QED
    BY <2>1, <2>2, <2>3
<1>3. head \in Seq(Byte) /\ Len(head) = 2 /\ head[2] = half
  BY <1>2
<1> HIDE DEF head
<1>4. front \in Seq(Byte) /\ Len(front) = 2 + 2 * half /\ front[2] = half
  <2>1. /\ front \in Seq(Byte) /\ Len(front) = Len(head) + Len(path)
        /\ \A i \in 1 .. Len(head) + Len(path) :
             front[i] = IF i <= Len(head) THEN head[i] ELSE path[i - Len(head)]
    BY <1>1, <1>3, ConcatProperties, ZenonT(60)
  <2> HIDE DEF front
  <2> QED
    BY <1>1, <1>3, <2>1
<1>5. /\ one \in Seq(Byte) /\ Len(one) = 2 /\ two \in Seq(Byte) /\ Len(two) = 2
      /\ type \in Word16 /\ Len(values) \in Word16
  <2>1. type \in Word16 /\ type \in Int /\ Len(values) \in Int /\ 2 \in Nat
    BY TypeIsWord DEF Types
  <2> QED
    BY <2>1, FieldType
<1>6. e \in Seq(Byte)
  <2>1. Width(type) \in Sizes
    BY SizeOfType DEF Types
  <2> QED
    BY <2>1, PackedBytes DEF Encoded
<1> HIDE DEF front, one, two, e
<1>7. /\ fields \in Seq(Byte) /\ Len(fields) = Len(front) + Len(one) + Len(two)
      /\ \A i \in 1 .. Len(front) : fields[i] = front[i]
      /\ \A i \in 1 .. Len(one) : fields[Len(front) + i] = one[i]
      /\ \A i \in 1 .. Len(two) : fields[Len(front) + Len(one) + i] = two[i]
  <2>1. front \in Seq(Byte) /\ one \in Seq(Byte) /\ two \in Seq(Byte)
    BY <1>4, <1>5
  <2> QED
    BY ONLY <2>1, SMTT(60), ThreeParts, SMTT(30)
<1>8. Len(fields) = 6 + 2 * half
  BY <1>1, <1>4, <1>5, <1>7
<1> HIDE DEF fields
<1>9. bytes = fields \o e
  BY DEF BuildLgxWriteDataRequest, fields, front, head, half, path, one, two, e
<1>10. /\ bytes \in Seq(Byte) /\ Len(bytes) = Len(fields) + Len(e)
       /\ \A i \in 1 .. Len(fields) + Len(e) :
            bytes[i] = IF i <= Len(fields) THEN fields[i] ELSE e[i - Len(fields)]
  BY <1>6, <1>7, <1>9, ConcatProperties, SMTT(60)
<1> HIDE DEF bytes
<1>11. Len(e) \in Nat
  BY <1>6
<1>12. \A i \in 1 .. 6 + 2 * half : bytes[i] = fields[i]
  BY <1>1, <1>8, <1>10, <1>11
<1>13. at = 3 + 2 * half
  <2>1. bytes[2] = half
    BY <1>1, <1>4, <1>7, <1>12
  <2> QED
    BY <2>1 DEF AfterPath
<1> HIDE DEF at
<1>14. \A i \in 1 .. 2 : bytes[at + i - 1] = one[i]
  <2> TAKE i \in 1 .. 2
  <2>1. at + i - 1 = Len(front) + i /\ at + i - 1 \in 1 .. 6 + 2 * half /\ i \in 1 .. Len(one)
    BY <1>1, <1>4, <1>5, <1>13
  <2> QED
    BY <1>7, <1>12, <2>1
<1> DEFINE next == at + 2
<1>15. \A i \in 1 .. 2 : bytes[next + i - 1] = two[i]
  <2> TAKE i \in 1 .. 2
  <2>1. /\ next + i - 1 = Len(front) + Len(one) + i /\ next + i - 1 \in 1 .. 6 + 2 * half
        /\ i \in 1 .. Len(two)
    BY <1>1, <1>4, <1>5, <1>13
  <2> QED
    BY <1>7, <1>12, <2>1
<1>16. at \in Int /\ next \in Int
  BY <1>1, <1>13
<1>17. LittleEndian(bytes, at, 2) = type
  BY <1>5, <1>14, <1>16, WordReadsBack DEF one
<1>18. LittleEndian(bytes, at + 2, 2) = Len(values)
  <2> DEFINE count == Len(values)
  <2>1. \A i \in 1 .. 2 : bytes[next + i - 1] = Field(count, 2)[i]
    BY <1>15 DEF two
  <2>2. count \in Word16
    BY <1>5
  <2> HIDE DEF next, count
  <2>3. LittleEndian(bytes, next, 2) = count
    BY <1>16, <2>1, <2>2, WordReadsBack
  <2> QED
    BY <2>3 DEF next, count
<1>19. SubSeq(bytes, at + 4, Len(bytes)) = e
  <2>1. at + 4 = Len(fields) + 1
    BY <1>1, <1>8, <1>13
  <2>2. SubSeq(fields \o e, Len(fields) + 1, Len(fields) + Len(e)) = e
    BY <1>6, <1>7, RestOf
  <2> QED
    BY <1>9, <1>10, <2>1, <2>2
<1> QED
  BY <1>17, <1>18, <1>19 DEF at, bytes, e

-----------------------------------------------------------------------------
\* The inductive invariant: a request is built of what the caller gave, a
\* reply and what the controller has sent or written belong together, and what
\* is returned is made of the reply.

Typed(type, values) ==
  /\ values \in Seq(Int) /\ Len(values) \in Word16 \ {0}
  /\ \A i \in 1 .. Len(values) :
       Holds(type, values[i]) /\ MinInt <= values[i] /\ values[i] <= MaxInt

Asked ==
  \E tag \in Tags, number \in Counts :
    /\ item = [tag |-> tag, number |-> number]
    /\ request = BuildLgxReadDataRequest(tag, number)

Sent ==
  \E tag \in Tags, type \in Simple, values \in Seq(Int) :
    /\ Len(values) \in Word16
    /\ item = [tag |-> tag, type |-> type, values |-> values,
                written |-> Nothing, late |-> FALSE]
    /\ request = BuildLgxWriteDataRequest(tag, type, values)

\* The controller has carried out what it confirms, and reached what the caller
\* named if the tag fits.
Answered ==
  item.late \/
    /\ reply.service = CIP_DATA_WRITE + 128
    /\ sts = 0 <=> item.written # Nothing
    /\ sts = 0 => (item.written = Given <=> Reachable(item.tag))

OwnAnswer ==
  \E type \in Types, values \in Seq(Int) :
    /\ Typed(type, values)
    /\ item = [type |-> type, values |-> values]
    /\ reply = [service |-> CIP_DATA_READ + 128,
                data |-> Field(type, 2) \o Encoded(type, values)]

OtherAnswer ==
  /\ item = [type |-> Structure, values |-> <<>>]
  /\ \/ reply.service # CIP_DATA_READ + 128
     \/ reply.service = CIP_DATA_READ + 128 /\ reply.data = Field(Structure, 2)

Inv ==
  /\ pc = "lgxAsked" => Asked
  /\ pc = "lgxSent" => Sent
  /\ pc \in {"lgxAnswered", "lgxRead"} => OwnAnswer \/ OtherAnswer
  /\ pc = "lgxRead" =>
       result = IF Known(reply.service) /\ sts = 0 THEN DecodeLGX(reply) ELSE Nothing
  /\ pc \in {"lgxConfirmed", "lgxWritten"} => Answered
  /\ pc = "lgxWritten" => result = Confirmed(reply.service, sts)

\* What a caller writes or a controller holds are integers.
LEMMA ValueListsTyped ==
  ASSUME NEW type \in Types, NEW values \in ValueLists(type)
  PROVE  Typed(type, values)
<1>1. PICK n \in Counts : values \in [1 .. n -> {v \in Integers32 : Holds(type, v)}]
  BY DEF ValueLists
<1>2. n \in Word16 \ {0}
  BY LgxAssumption
<1>3. n \in Nat
  BY <1>2, Word16Values
<1>4. \A value \in Integers32 : value \in Int /\ MinInt <= value /\ value <= MaxInt
  BY LgxAssumption
<1>5. values \in [1 .. n -> Int]
  BY <1>1, <1>4
<1>6. values \in Seq(Int) /\ Len(values) = n
  BY <1>3, <1>5
<1>7. \A i \in 1 .. Len(values) :
        Holds(type, values[i]) /\ MinInt <= values[i] /\ values[i] <= MaxInt
  BY <1>1, <1>4, <1>6
<1> QED
  BY <1>2, <1>6, <1>7 DEF Typed

\* The tags are such that their paths are made of words.
LEMMA TagIsPath ==
  ASSUME NEW tag \in Tags
  PROVE  tag \in Seq(TagMembers) /\ BuildIOI(tag) \in Even
<1>1. tag \in Seq(TagMembers)
  BY LgxAssumption DEF TagMembers
<1>2. TagMembers \subseteq [name : Seq(Byte), index : Seq(Int)]
  BY DEF TagMembers
<1> DEFINE B == [name : Seq(Byte), index : Seq(Int)]
<1> HIDE DEF B
<1>3. TagMembers \subseteq B
  BY <1>2 DEF B
<1>4. tag \in Seq(B)
  BY <1>1, <1>3
<1> QED
  BY <1>1, <1>4, PathIsEven DEF B

\* An order is never nothing.
LEMMA OrderIsSomething ==
  ASSUME NEW bytes
  PROVE  OrderIn(bytes) # Nothing
<1>1. DOMAIN OrderIn(bytes) = {"path", "type", "number", "data"}
  BY DEF OrderIn, Order
<1>2. DOMAIN Nothing = {"type"}
  BY DEF Nothing
<1> QED
  BY <1>1, <1>2

\* The order in a write is the one the caller gave exactly if the tag fits.
LEMMA WriteIsOrder ==
  ASSUME NEW tag \in Tags, NEW type \in Simple, NEW values \in Seq(Int),
         Len(values) \in Word16
  PROVE  OrderIn(BuildLgxWriteDataRequest(tag, type, values))
           = Order(Segments(tag), type, Len(values), Encoded(type, values))
         <=> Reachable(tag)
<1> DEFINE bytes == BuildLgxWriteDataRequest(tag, type, values)
           at == AfterPath(bytes)
           path == ReadPath(PathOf(bytes))
           f == LittleEndian(bytes, at, 2)
           g == LittleEndian(bytes, at + 2, 2)
           e == SubSeq(bytes, at + 4, Len(bytes))
<1>1. tag \in Seq(TagMembers) /\ BuildIOI(tag) \in Even
  BY TagIsPath
<1>2. Reachable(tag) <=> path = Segments(tag)
  BY <1>1, WriteNamesElement
<1>3. Reachable(tag) => Len(BuildIOI(tag)) < 512
  BY DEF Reachable
<1>4. Len(BuildIOI(tag)) < 512 =>
        f = type /\ g = Len(values) /\ e = Encoded(type, values)
  BY <1>1, WriteIsTakenApart
<1>5. OrderIn(bytes) = Order(path, f, g, e)
  BY DEF OrderIn
<1> HIDE DEF bytes, at, path, f, g, e
<1>6. OrderIn(bytes) = Order(Segments(tag), type, Len(values), Encoded(type, values))
        <=> Reachable(tag)
  BY <1>2, <1>3, <1>4, <1>5 DEF Order
<1> QED
  BY <1>6 DEF bytes

\* The invariant holds at first, and each action keeps it.
LEMMA InvInit == Init => Inv
BY DEF Init, Inv

LEMMA InvStep == Inv /\ [LgxNext]_vars => Inv'
<1> SUFFICES ASSUME Inv, [LgxNext]_vars
             PROVE  Inv'
  OBVIOUS
<1>1. ASSUME NEW tag \in Tags, NEW number \in Counts, AskRead(tag, number)
      PROVE  Inv'
  BY <1>1 DEF AskRead, Asked, Inv
<1>2. ASSUME NEW tag \in Tags, AskWrite(tag)
      PROVE  Inv'
  <2>1. PICK type \in Simple : \E values \in ValueLists(type) :
          /\ request' = BuildLgxWriteDataRequest(tag, type, values)
          /\ item' = [tag |-> tag, type |-> type, values |-> values,
                      written |-> Nothing, late |-> FALSE]
    BY <1>2 DEF AskWrite
  <2>2. PICK values \in ValueLists(type) :
          /\ request' = BuildLgxWriteDataRequest(tag, type, values)
          /\ item' = [tag |-> tag, type |-> type, values |-> values,
                      written |-> Nothing, late |-> FALSE]
    BY <2>1
  <2>3. values \in Seq(Int) /\ Len(values) \in Word16
    BY ValueListsTyped DEF Types, Typed
  <2>4. Sent'
    BY <2>2, <2>3 DEF Sent
  <2> QED
    BY <1>2, <2>4 DEF AskWrite, Inv
<1>3. CASE AnswerRead
  <2>1. PICK type \in Types : \E values \in ValueLists(type) :
          /\ LgxAnswer(CIP_DATA_READ, Field(type, 2) \o Encoded(type, values))
          /\ item' = [type |-> type, values |-> values]
    BY <1>3 DEF AnswerRead, Types
  <2>2. PICK values \in ValueLists(type) :
          /\ LgxAnswer(CIP_DATA_READ, Field(type, 2) \o Encoded(type, values))
          /\ item' = [type |-> type, values |-> values]
    BY <2>1
  <2>3. Typed(type, values) /\ values \in Seq(Int)
    BY ValueListsTyped DEF Typed
  <2>4. reply' = [service |-> CIP_DATA_READ + 128,
                  data |-> Field(type, 2) \o Encoded(type, values)]
    BY <2>2 DEF LgxAnswer
  <2>5. OwnAnswer'
    BY <2>2, <2>3, <2>4 DEF OwnAnswer
  <2>6. pc' = "lgxAnswered"
    BY <1>3, <2>2 DEF AnswerRead, LgxAnswer
  <2> QED
    BY <2>5, <2>6 DEF Inv
<1>4. CASE AnswerWrite
  <2>1. pc = "lgxSent" /\ pc' = "lgxConfirmed" /\ UNCHANGED request
        /\ reply' = [service |-> CIP_DATA_WRITE + 128, data |-> <<>>]
        /\ item' = [item EXCEPT !.written = IF sts' = 0 THEN OrderIn(request) ELSE Nothing]
    BY <1>4 DEF AnswerWrite, LgxAnswer
  <2>2. PICK tag \in Tags, type \in Simple, values \in Seq(Int) :
          /\ Len(values) \in Word16
          /\ item = [tag |-> tag, type |-> type, values |-> values,
                     written |-> Nothing, late |-> FALSE]
          /\ request = BuildLgxWriteDataRequest(tag, type, values)
    BY <2>1 DEF Inv, Sent
  <2>3. /\ item'.tag = tag /\ item'.type = type /\ item'.values = values
        /\ item'.written = IF sts' = 0 THEN OrderIn(request) ELSE Nothing
    BY <2>1, <2>2
  <2>4. Given' = Order(Segments(tag), type, Len(values), Encoded(type, values))
    BY <2>3 DEF Given
  <2>5. OrderIn(request) # Nothing
    BY OrderIsSomething
  <2>6. OrderIn(request) = Order(Segments(tag), type, Len(values), Encoded(type, values))
          <=> Reachable(tag)
    BY <2>2, WriteIsOrder, Zenon
  <2>7. reply'.service = CIP_DATA_WRITE + 128
    BY <2>1
  <2>8. sts' = 0 <=> item'.written # Nothing
    BY <2>3, <2>5
  <2>9. sts' = 0 => (item'.written = Given' <=> Reachable(item'.tag))
    BY <2>3, <2>4, <2>6
  <2>10. Answered'
    BY <2>7, <2>8, <2>9 DEF Answered
  <2> QED
    BY <2>1, <2>10 DEF Inv
<1>5. ASSUME NEW service \in OtherServices, AnswerOther(service)
      PROVE  Inv'
  <2>1. CASE pc = "lgxSent"
    <3>1. PICK written : item' = [item EXCEPT !.written = written, !.late = TRUE]
      BY <1>5, <2>1 DEF AnswerOther
    <3>2. pc' = "lgxConfirmed"
      BY <1>5, <2>1 DEF AnswerOther, LgxAnswer
    <3>3. Sent
      BY <2>1 DEF Inv
    <3>4. item'.late
      BY <3>1, <3>3 DEF Sent
    <3> QED
      BY <3>2, <3>4 DEF Inv, Answered
  <2>2. CASE pc = "lgxAsked"
    <3>1. /\ item' = [type |-> Structure, values |-> <<>>]
          /\ reply' = [service |-> service + 128,
                       data |-> IF service = CIP_DATA_READ THEN Field(Structure, 2) ELSE <<>>]
          /\ pc' = "lgxAnswered"
      BY <1>5, <2>2 DEF AnswerOther, LgxAnswer
    <3>2. service \in Int
      BY LgxAssumption
    <3>3. reply'.service # CIP_DATA_READ + 128 \/ service = CIP_DATA_READ
      BY <3>1, <3>2 DEF CIP_DATA_READ
    <3>4. OtherAnswer'
      BY <3>1, <3>3 DEF OtherAnswer
    <3> QED
      BY <3>1, <3>4 DEF Inv
  <2> QED
    BY <1>5, <2>1, <2>2 DEF AnswerOther
<1>6. CASE ReadLgxData
  <2>1. pc = "lgxAnswered" /\ pc' = "lgxRead" /\ UNCHANGED <<item, request, reply, sts>>
        /\ result' = IF Known(reply.service) /\ sts = 0 THEN DecodeLGX(reply) ELSE Nothing
    BY <1>6 DEF ReadLgxData
  <2>2. OwnAnswer \/ OtherAnswer
    BY <2>1 DEF Inv
  <2>3. (OwnAnswer \/ OtherAnswer)'
    BY <2>1, <2>2 DEF OwnAnswer, OtherAnswer
  <2> QED
    BY <2>1, <2>3 DEF Inv
<1>7. CASE WriteLgxData
  <2>1. pc = "lgxConfirmed" /\ pc' = "lgxWritten" /\ UNCHANGED <<item, request, reply, sts>>
        /\ result' = Confirmed(reply.service, sts)
    BY <1>7 DEF WriteLgxData
  <2>2. Answered
    BY <2>1 DEF Inv
  <2>3. Answered'
    BY <2>1, <2>2 DEF Answered, Given
  <2> QED
    BY <2>1, <2>3 DEF Inv
<1>8. CASE UNCHANGED vars
  BY <1>8 DEF vars, Inv, Asked, Sent, OwnAnswer, OtherAnswer, Answered, Given
<1> QED
  BY <1>1, <1>2, <1>3, <1>4, <1>5, <1>6, <1>7, <1>8 DEF LgxNext

LEMMA InvAlways == LgxSpec => []Inv
<1>1. Init => Inv
  BY InvInit
<1>2. Inv /\ [LgxNext]_vars => Inv'
  BY InvStep
<1> QED
  BY <1>1, <1>2, PTL DEF LgxSpec

-----------------------------------------------------------------------------
\* The properties.

\* The controller reads the tag that was asked for out of every request, for all
\* tags of which the names, the indices and the path fit into their fields, and for
\* no others (_BuildIOI, AddSegment, _BuildLgxReadDataRequest,
\* _BuildLgxWriteDataRequest).
THEOREM PathNamesElementAlways == LgxSpec => []PathNamesElement
<1>1. Inv => PathNamesElement
  <2> SUFFICES ASSUME Asked \/ Sent
               PROVE  Reachable(item.tag) <=> ReadPath(PathOf(request)) = Segments(item.tag)
    BY DEF Inv, PathNamesElement
  <2>1. CASE Asked
    <3>1. PICK tag \in Tags, number \in Counts :
            /\ item = [tag |-> tag, number |-> number]
            /\ request = BuildLgxReadDataRequest(tag, number)
      BY <2>1 DEF Asked
    <3>2. item.tag = tag
      BY <3>1
    <3>3. number \in Word16
      BY LgxAssumption
    <3>4. tag \in Seq(TagMembers) /\ BuildIOI(tag) \in Even
      BY TagIsPath
    <3> QED
      BY <3>1, <3>2, <3>3, <3>4, ReadNamesElement
  <2>2. CASE Sent
    <3>1. PICK tag \in Tags, type \in Simple, values \in Seq(Int) :
            /\ item = [tag |-> tag, type |-> type, values |-> values,
                       written |-> Nothing, late |-> FALSE]
            /\ request = BuildLgxWriteDataRequest(tag, type, values)
      BY <2>2 DEF Sent
    <3>2. item.tag = tag
      BY <3>1
    <3>3. tag \in Seq(TagMembers) /\ BuildIOI(tag) \in Even
      BY TagIsPath
    <3> QED
      BY <3>1, <3>2, <3>3, WriteNamesElement
  <2> QED
    BY <2>1, <2>2
<1> QED
  BY <1>1, InvAlways, PTL

\* The controller finds in every write the type, the number and the values the
\* caller gave, for every tag whose path takes less than 512 bytes
\* (_BuildLgxWriteDataRequest, _BuildIOI).
THEOREM WriteCarriesItsDataAlways == LgxSpec => []WriteCarriesItsData
<1>1. Inv => WriteCarriesItsData
  <2> SUFFICES ASSUME Sent, Len(BuildIOI(item.tag)) < 512
               PROVE  LET at == AfterPath(request)
                      IN  /\ LittleEndian(request, at, 2) = item.type
                          /\ LittleEndian(request, at + 2, 2) = Len(item.values)
                          /\ SubSeq(request, at + 4, Len(request)) = Encoded(item.type, item.values)
    BY DEF Inv, WriteCarriesItsData
  <2>1. PICK tag \in Tags, type \in Simple, values \in Seq(Int) :
          /\ Len(values) \in Word16
          /\ item = [tag |-> tag, type |-> type, values |-> values,
                     written |-> Nothing, late |-> FALSE]
          /\ request = BuildLgxWriteDataRequest(tag, type, values)
    BY DEF Sent
  <2>2. item.tag = tag /\ item.type = type /\ item.values = values
    BY <2>1
  <2>3. BuildIOI(tag) \in Even
    BY TagIsPath
  <2> QED
    BY <2>1, <2>2, <2>3, WriteIsTakenApart
<1> QED
  BY <1>1, InvAlways, PTL

\* The border of the exact integers, by its number.
LEMMA ExactValues ==
  ASSUME NEW value \in Int
  PROVE  value \in -Exact .. Exact <=> (value >= 0 - Exact /\ value <= Exact)
<1>1. Exact \in Int
  BY DEF Exact
<1> DEFINE low == -Exact
<1>2. low = 0 - Exact /\ low \in Int
  BY <1>1
<1> HIDE DEF low
<1>3. value \in low .. Exact <=> (value >= low /\ value <= Exact)
  BY <1>1, <1>2
<1> QED
  BY <1>2, <1>3 DEF low

\* A read returns all the elements of a simple type that the controller sent, and
\* each as the integer next to it that a float holds, for all values of 32 bits
\* (_ReadLgxData, _DecodeLGX, _GetLGXValueAsInteger).
THEOREM ElementsAreReadAlways == LgxSpec => []ElementsAreRead
<1>1. Inv => ElementsAreRead
  <2> SUFFICES ASSUME Inv, pc = "lgxRead" PROVE ElementsAreRead
    BY DEF ElementsAreRead
  <2>1. result = IF Known(reply.service) /\ sts = 0 THEN DecodeLGX(reply) ELSE Nothing
    BY DEF Inv
  <2>2. CASE OtherAnswer
    <3>1. item.type = Structure
      BY <2>2 DEF OtherAnswer
    <3>2. DecodeLGX(reply) = Nothing
      <4>1. Field(Structure, 2) = Field(Structure, 2) \o <<>>
        <5>1. Field(Structure, 2) \in Seq(Byte)
          <6>1. Structure \in Int /\ 2 \in Nat
            BY DEF Structure
          <6> QED
            BY <6>1, FieldType
        <5> QED
          BY <5>1
      <4>2. <<>> \in Seq(Byte)
        OBVIOUS
      <4> QED
        BY <2>2, <4>1, <4>2, NoElements DEF OtherAnswer
    <3> QED
      BY <2>1, <3>1, <3>2, StructureIsNotSimple DEF ElementsAreRead
  <2>3. CASE OwnAnswer
    <3>1. PICK type \in Types, values \in Seq(Int) :
            /\ Typed(type, values)
            /\ item = [type |-> type, values |-> values]
            /\ reply = [service |-> CIP_DATA_READ + 128,
                        data |-> Field(type, 2) \o Encoded(type, values)]
      BY <2>3 DEF OwnAnswer
    <3>2. /\ item.type = type /\ item.values = values
          /\ reply.service = CIP_DATA_READ + 128
          /\ reply.data = Field(type, 2) \o Encoded(type, values)
      BY <3>1
    <3>3. Known(reply.service)
      BY <3>2 DEF Known
    <3>4. Len(values) \in Nat /\ Len(values) >= 1 /\ DOMAIN values = 1 .. Len(values)
      BY <3>1, Word16Values DEF Typed
    <3>5. CASE type = Structure
      <4>1. Encoded(type, values) \in Seq(Byte)
        BY SizeOfType, PackedBytes DEF Encoded
      <4>2. DecodeLGX(reply) = Nothing
        BY <3>2, <3>5, <4>1, NoElements
      <4> QED
        BY <2>1, <3>2, <3>5, <4>2, StructureIsNotSimple DEF ElementsAreRead
    <3>6. CASE type \in Simple /\ sts # 0
      BY <2>1, <3>6 DEF ElementsAreRead
    <3>7. CASE type \in Simple /\ sts = 0
      <4>1. result = [type |-> type, elementsize |-> Width(type),
                      Varcount |-> Len(values), data |-> Encoded(type, values)]
        <5>1. result = DecodeLGX(reply)
          BY <2>1, <3>3, <3>7
        <5> QED
          BY <3>2, <3>4, <3>7, <5>1, ElementsAreDecoded
      <4>2. /\ result.type = type /\ result.elementsize = Width(type)
            /\ result.Varcount = Len(values) /\ result.data = Encoded(type, values)
        BY <4>1
      <4>3. result # Nothing
        <5>1. type # 0
          BY TypeIsWord
        <5> QED
          BY <4>2, <5>1 DEF Nothing
      <4>4. ASSUME NEW i \in 1 .. Len(values)
            PROVE  IF type = LGX_REAL
                   THEN GetLGXValueAsFloat(result, i - 1) = Field(values[i], 4)
                   ELSE \A v \in GetLGXValueAsInteger(result, i - 1) :
                          IF values[i] \in -Exact .. Exact THEN v = values[i]
                          ELSE IF values[i] > MaxInt - 64 THEN v \in {MinInt, MaxInt}
                          ELSE v - values[i] \in -64 .. 64
        <5> DEFINE value == values[i]
        <5>1. /\ Holds(type, value) /\ MinInt <= value /\ value <= MaxInt /\ value \in Int
          BY <3>1 DEF Typed
        <5>2. GetLGXValueAsFloat(result, i - 1)
                = IF type = LGX_REAL THEN Field(value, 4) ELSE Rounded(value)
          BY <3>7, <4>2, <5>1, ElementValue
        <5>3. CASE type = LGX_REAL
          BY <5>2, <5>3
        <5>4. CASE type # LGX_REAL
          <6> DEFINE float == Rounded(value)
                     near == float.mantissa * TwoTo[float.power + 1]
                     top == float.mantissa = Exact /\ float.power = 7
          <6>1. GetLGXValueAsInteger(result, i - 1) = IF top THEN {MinInt, MaxInt} ELSE {near}
            BY <5>2, <5>4 DEF GetLGXValueAsInteger
          <6>2. /\ near \in Int
                /\ near - value >= 0 - 64 /\ near - value <= 64
                /\ value >= 0 - Exact /\ value <= Exact => near = value
                /\ top <=> value > MaxInt - 64
            BY <5>1, RoundedIsNear
          <6>3. value \in Int
            BY <5>1
          <6> HIDE DEF value, near, top
          <6>4. ASSUME NEW v \in GetLGXValueAsInteger(result, i - 1)
                PROVE  IF value \in -Exact .. Exact THEN v = value
                       ELSE IF value > MaxInt - 64 THEN v \in {MinInt, MaxInt}
                       ELSE v - value \in -64 .. 64
            <7>1. value \in -Exact .. Exact <=> (value >= 0 - Exact /\ value <= Exact)
              BY <6>3, ExactValues
            <7>2. near - value \in -64 .. 64
              BY <6>2, <6>3
            <7>3. value <= Exact => ~(value > MaxInt - 64)
              BY <6>3 DEF Exact, MaxInt
            <7>4. CASE top
              <8>1. value > MaxInt - 64 /\ v \in {MinInt, MaxInt}
                BY <6>1, <6>2, <6>4, <7>4
              <8>2. value \notin -Exact .. Exact
                BY <7>1, <7>3, <8>1
              <8> QED
                BY <8>1, <8>2
            <7>5. CASE ~top
              <8>1. ~(value > MaxInt - 64) /\ v = near
                BY <6>1, <6>2, <6>4, <7>5
              <8>2. value \in -Exact .. Exact => v = value
                BY <6>2, <7>1, <8>1
              <8> QED
                BY <7>2, <8>1, <8>2
            <7> QED
              BY <7>4, <7>5
          <6> QED
            BY <5>4, <6>4 DEF value
        <5> QED
          BY <5>3, <5>4
      <4> QED
        BY <3>2, <3>4, <3>7, <4>2, <4>3, <4>4 DEF ElementsAreRead
    <3> QED
      BY <3>5, <3>6, <3>7 DEF Types
  <2> QED
    BY <2>2, <2>3 DEF Inv
<1> QED
  BY <1>1, InvAlways, PTL

\* A write is confirmed by its own reply exactly if the controller has carried
\* out the order in the request, which is the caller's order exactly if the tag
\* fits (_WriteLgxData, _GetService_ReplyNumber, _BuildLgxWriteDataRequest).
THEOREM ConfirmedIsWrittenAlways == LgxSpec => []ConfirmedIsWritten
<1>1. Inv => ConfirmedIsWritten
  <2> SUFFICES ASSUME result = Confirmed(reply.service, sts), Answered, ~item.late
               PROVE  /\ result = 1 <=> item.written # Nothing
                      /\ result = 1 => (item.written = Given <=> Reachable(item.tag))
    BY DEF Inv, ConfirmedIsWritten
  <2>1. Known(reply.service)
    BY DEF Answered, Known
  <2>2. result = 1 <=> sts = 0
    BY <2>1 DEF Confirmed, Error
  <2> QED
    BY <2>2 DEF Answered
<1> QED
  BY <1>1, InvAlways, PTL
=============================================================================
