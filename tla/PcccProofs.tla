----------------------------- MODULE PcccProofs -----------------------------
(***************************************************************************)
(* Proofs about the data of reads and writes of a PLC-5 or SLC, for any    *)
(* words in its files, any number of elements, any queues and any sizes of *)
(* records.                                                                *)
(*                                                                         *)
(* The heart of it is a lemma on the decoder: whatever form the descriptor *)
(* of an array has, the decoder finds its type, its size, and where the    *)
(* elements begin.                                                         *)
(***************************************************************************)
EXTENDS PcccData, BytesProofs, FiniteSetTheorems

Widths == {0, 1, 2, 4}

-----------------------------------------------------------------------------
\* Descriptors.

\* Half a flag and its field, if it has one, stand for the value described.
LEMMA HalfFlagReads ==
  ASSUME NEW value \in Nat, NEW width \in Widths, Fits(value, width),
         NEW bytes, NEW at \in Int,
         \A i \in 1 .. width : bytes[at + i - 1] = Field(value, width)[i]
  PROVE  /\ HalfFlag(bytes, at, Half(value, width))
              = [ok |-> TRUE, value |-> value, next |-> at + width]
         /\ Half(value, width) \in 0 .. 15
<1>1. CASE width = 0
  <2>1. value < 8 /\ Half(value, width) = value /\ at + width = at
    BY <1>1 DEF Fits, Half
  <2>2. HalfFlag(bytes, at, value) = [ok |-> TRUE, value |-> value, next |-> at]
    BY <2>1 DEF HalfFlag
  <2>3. value \in 0 .. 15
    BY <2>1
  <2> QED
    BY <2>1, <2>2, <2>3
<1>2. CASE width \in {1, 2, 4}
  <2>1. value < Limit(width)
    BY <1>2 DEF Fits, Limit
  <2>2. LittleEndian(bytes, at, width) = value
    BY <1>2, <2>1, FieldReadsBack
  <2> DEFINE half == Half(value, width)
  <2>3. half - 8 = width /\ at + half - 8 = at + width /\ ~(half < 8) /\ half \in 0 .. 15
    BY <1>2 DEF Half
  <2> HIDE DEF half
  <2>4. HalfFlag(bytes, at, half) = [ok |-> TRUE, value |-> value, next |-> at + width]
    BY <1>2, <2>2, <2>3 DEF HalfFlag
  <2> QED
    BY <2>3, <2>4 DEF half
<1> QED
  BY <1>1, <1>2 DEF Widths

\* The flag, the field of the type and the field of the size.
LEMMA DescribedBytes ==
  ASSUME NEW type \in Nat, NEW size \in Nat, NEW form \in Forms(type, size)
  PROVE  LET d == Described(type, size, form)
         IN  /\ d \in Seq(Byte)
             /\ Len(d) = 1 + form.type + form.size
             /\ d[1] = 16 * Half(type, form.type) + Half(size, form.size)
             /\ \A i \in 1 .. form.type : d[1 + i] = Field(type, form.type)[i]
             /\ \A i \in 1 .. form.size : d[1 + form.type + i] = Field(size, form.size)[i]
<1>1. /\ form.type \in Widths /\ form.size \in Widths
      /\ Fits(type, form.type) /\ Fits(size, form.size)
  BY DEF Forms, Widths
<1> DEFINE flag == 16 * Half(type, form.type) + Half(size, form.size)
           fl == <<flag>>
           ty == Field(type, form.type)
           sz == Field(size, form.size)
<1>2. Half(type, form.type) \in 0 .. 15 /\ Half(size, form.size) \in 0 .. 15
  BY <1>1 DEF Half, Fits, Widths
<1>3. flag \in Byte
  BY <1>2 DEF Byte
<1>4. fl \in Seq(Byte) /\ Len(fl) = 1 /\ fl[1] = flag
  BY <1>3
<1>5. /\ ty \in Seq(Byte) /\ Len(ty) = form.type
      /\ sz \in Seq(Byte) /\ Len(sz) = form.size
  <2>1. form.type \in Nat /\ form.size \in Nat /\ type \in Int /\ size \in Int
    BY <1>1 DEF Widths
  <2> QED
    BY <2>1, FieldType
<1> HIDE DEF fl, ty, sz, flag
<1>6. /\ fl \o ty \o sz \in Seq(Byte)
      /\ Len(fl \o ty \o sz) = Len(fl) + Len(ty) + Len(sz)
      /\ \A i \in 1 .. Len(fl) : (fl \o ty \o sz)[i] = fl[i]
      /\ \A i \in 1 .. Len(ty) : (fl \o ty \o sz)[Len(fl) + i] = ty[i]
      /\ \A i \in 1 .. Len(sz) : (fl \o ty \o sz)[Len(fl) + Len(ty) + i] = sz[i]
  <2>1. fl \in Seq(Byte) /\ ty \in Seq(Byte) /\ sz \in Seq(Byte)
    BY <1>4, <1>5
  <2> QED
    <3>1. fl \o ty \o sz \in Seq(Byte)
      BY <2>1, ThreeParts
    <3>2. Len(fl \o ty \o sz) = Len(fl) + Len(ty) + Len(sz)
      BY <2>1, ThreeParts
    <3>3. \A i \in 1 .. Len(fl) : (fl \o ty \o sz)[i] = fl[i]
      BY <2>1, ThreeParts
    <3>4. \A i \in 1 .. Len(ty) : (fl \o ty \o sz)[Len(fl) + i] = ty[i]
      BY <2>1, ThreeParts
    <3>5. \A i \in 1 .. Len(sz) : (fl \o ty \o sz)[Len(fl) + Len(ty) + i] = sz[i]
      BY <2>1, ThreeParts
    <3> QED
      BY <3>1, <3>2, <3>3, <3>4, <3>5
<1> DEFINE d == fl \o ty \o sz
<1>7. /\ d \in Seq(Byte) /\ Len(d) = 1 + form.type + form.size /\ d[1] = flag
      /\ \A i \in 1 .. form.type : d[1 + i] = ty[i]
      /\ \A i \in 1 .. form.size : d[1 + form.type + i] = sz[i]
  <2>1. \A i \in 1 .. 1 : d[i] = fl[i]
    BY <1>4, <1>6
  <2>2. d[1] = flag
    BY <1>4, <2>1
  <2> QED
    BY <1>4, <1>5, <1>6, <2>2
<1>8. Described(type, size, form) = d
  BY DEF Described, fl, ty, sz, flag
<1> HIDE DEF d
<1> QED
  BY <1>7, <1>8 DEF ty, sz, flag

\* Where the bytes of a descriptor lie, the decoder finds what it describes.
LEMMA FlagAndFieldsRead ==
  ASSUME NEW type \in Nat, NEW size \in Nat, NEW tw \in Widths, NEW sw \in Widths,
         Fits(type, tw), Fits(size, sw), NEW bytes, NEW at \in Nat,
         bytes[at] = 16 * Half(type, tw) + Half(size, sw),
         \A i \in 1 .. tw : bytes[at + i] = Field(type, tw)[i],
         \A i \in 1 .. sw : bytes[at + tw + i] = Field(size, sw)[i]
  PROVE  Descriptor(bytes, at)
           = [ok |-> TRUE, type |-> type, size |-> size, next |-> at + 1 + tw + sw]
<1> DEFINE high == Half(type, tw)
           low == Half(size, sw)
<1>1. tw \in Nat /\ sw \in Nat
  BY DEF Widths
<1>2. \A i \in 1 .. tw : bytes[(at + 1) + i - 1] = Field(type, tw)[i]
  <2>1. \A i \in 1 .. tw : (at + 1) + i - 1 = at + i
    BY <1>1
  <2> QED
    BY <2>1
<1>3. \A i \in 1 .. sw : bytes[(at + 1 + tw) + i - 1] = Field(size, sw)[i]
  <2>1. \A i \in 1 .. sw : (at + 1 + tw) + i - 1 = at + tw + i
    BY <1>1
  <2> QED
    BY <2>1
<1>4. /\ HalfFlag(bytes, at + 1, high) = [ok |-> TRUE, value |-> type, next |-> (at + 1) + tw]
      /\ high \in 0 .. 15
  <2>1. at + 1 \in Int
    OBVIOUS
  <2> QED
    BY <1>2, <2>1, HalfFlagReads, ZenonT(60)
<1>5. /\ HalfFlag(bytes, at + 1 + tw, low)
           = [ok |-> TRUE, value |-> size, next |-> (at + 1 + tw) + sw]
      /\ low \in 0 .. 15
  <2>1. at + 1 + tw \in Int
    BY <1>1
  <2> QED
    BY <1>3, <2>1, HalfFlagReads, ZenonT(60)
<1>6. bytes[at] = 16 * high + low
  OBVIOUS
<1> HIDE DEF high, low
<1>7. bytes[at] \div 16 = high /\ bytes[at] % 16 = low
  BY <1>4, <1>5, <1>6
<1> DEFINE first == HalfFlag(bytes, at + 1, high)
           second == HalfFlag(bytes, at + 1 + tw, low)
<1>8. /\ first.ok /\ first.value = type /\ first.next = at + 1 + tw
      /\ second.ok /\ second.value = size /\ second.next = at + 1 + tw + sw
  BY <1>4, <1>5
<1> HIDE DEF first, second
<1>9. Descriptor(bytes, at)
        = [ok |-> first.ok /\ second.ok, type |-> first.value, size |-> second.value,
           next |-> second.next]
  BY <1>7, <1>8 DEF Descriptor, first, second
<1> QED
  BY <1>8, <1>9

\* Descriptor finds in a descriptor as the PLC builds it the two halves, each
\* with the width of its field.
LEMMA DescriptorReads ==
  ASSUME NEW type \in Nat, NEW size \in Nat, NEW form \in Forms(type, size),
         NEW bytes, NEW at \in Nat,
         \A i \in 1 .. Len(Described(type, size, form)) :
           bytes[at + i - 1] = Described(type, size, form)[i]
  PROVE  Descriptor(bytes, at)
           = [ok |-> TRUE, type |-> type, size |-> size,
              next |-> at + Len(Described(type, size, form))]
<1> DEFINE d == Described(type, size, form)
           tw == form.type
           sw == form.size
<1>1. tw \in Widths /\ sw \in Widths /\ Fits(type, tw) /\ Fits(size, sw)
  BY DEF Forms, Widths
<1>2. /\ Len(d) = 1 + tw + sw
      /\ d[1] = 16 * Half(type, tw) + Half(size, sw)
      /\ \A i \in 1 .. tw : d[1 + i] = Field(type, tw)[i]
      /\ \A i \in 1 .. sw : d[1 + tw + i] = Field(size, sw)[i]
  BY DescribedBytes
<1>3. \A i \in 1 .. Len(d) : bytes[at + i - 1] = d[i]
  OBVIOUS
<1>4. tw \in Nat /\ sw \in Nat
  BY <1>1 DEF Widths
<1> HIDE DEF d, tw, sw
<1>5. bytes[at] = d[1]
  BY <1>2, <1>3, <1>4
<1>6. \A i \in 1 .. tw : bytes[at + i] = Field(type, tw)[i]
  <2>1. \A i \in 1 .. tw : 1 + i \in 1 .. Len(d) /\ at + (1 + i) - 1 = at + i
    BY <1>2, <1>4
  <2> QED
    BY <1>2, <1>3, <2>1
<1>7. \A i \in 1 .. sw : bytes[at + tw + i] = Field(size, sw)[i]
  <2>1. \A i \in 1 .. sw : 1 + tw + i \in 1 .. Len(d) /\ at + (1 + tw + i) - 1 = at + tw + i
    BY <1>2, <1>4
  <2> QED
    BY <1>2, <1>3, <2>1
<1>8. at + 1 + tw + sw = at + Len(d)
  BY <1>2, <1>4
<1>9. bytes[at] = 16 * Half(type, tw) + Half(size, sw)
  BY <1>2, <1>5
<1>10. Descriptor(bytes, at)
         = [ok |-> TRUE, type |-> type, size |-> size, next |-> at + 1 + tw + sw]
  BY <1>1, <1>6, <1>7, <1>9, FlagAndFieldsRead
<1> QED
  BY <1>8, <1>10 DEF d

-----------------------------------------------------------------------------
\* Elements.

\* The types of the decoder, and their sizes.
LEMMA SizeOfType ==
  ASSUME NEW type \in Types
  PROVE  type \in 3 .. 8 /\ GetPLCDataSize(type) \in Sizes
BY DEF Types, Sizes, GetPLCDataSize, PLC_BYTE_STRING, PLC_INTEGER, PLC_TIMER, PLC_COUNTER,
       PLC_CONTROL, PLC_FLOATING

\* The sizes of the two types that are written.
LEMMA SizeTable == GetPLCDataSize(PLC_INTEGER) = 2 /\ GetPLCDataSize(PLC_FLOATING) = 4
<1> USE DEF PLC_BYTE_STRING, PLC_INTEGER, PLC_TIMER, PLC_COUNTER, PLC_CONTROL, PLC_FLOATING
<1>1. GetPLCDataSize(PLC_INTEGER) = 2
  BY DEF GetPLCDataSize
<1>2. GetPLCDataSize(PLC_FLOATING) = 4
  BY DEF GetPLCDataSize
<1> QED
  BY <1>1, <1>2

\* Elements are bytes, as many as their type has each.
LEMMA ElementsBytes ==
  ASSUME NEW type \in Types, NEW words \in Seq(Nat)
  PROVE  LET size == GetPLCDataSize(type)
             e == Elements(type, words)
         IN  /\ e \in Seq(Byte) /\ Len(e) = Len(words) * size
             /\ \A k \in 1 .. Len(words), j \in 1 .. size :
                  /\ (k - 1) * size + j \in 1 .. Len(e)
                  /\ e[(k - 1) * size + j] = Field(words[k], size)[j]
<1> DEFINE size == GetPLCDataSize(type)
<1>1. size \in Sizes /\ words \in Seq(Int)
  BY SizeOfType
<1>2. Elements(type, words) = Packed(words, size)
  BY DEF Elements
<1> HIDE DEF size
<1> QED
  BY <1>1, <1>2, PackedBytes DEF size

-----------------------------------------------------------------------------
\* The decoder.

\* The first descriptor of a reply, where the rest is behind it.
LEMMA FirstDescriptor ==
  ASSUME NEW type \in Nat, NEW size \in Nat, NEW form \in Forms(type, size),
         NEW rest \in Seq(Byte)
  PROVE  LET d == Described(type, size, form)
         IN  /\ d \o rest \in Seq(Byte) /\ Len(d \o rest) = Len(d) + Len(rest)
             /\ Len(d) \in Nat /\ Len(rest) \in Nat
             /\ Descriptor(d \o rest, 1)
                  = [ok |-> TRUE, type |-> type, size |-> size, next |-> 1 + Len(d)]
             /\ \A i \in 1 .. Len(rest) : (d \o rest)[Len(d) + i] = rest[i]
<1> DEFINE d == Described(type, size, form)
           all == d \o rest
<1>1. d \in Seq(Byte)
  BY DescribedBytes
<1> HIDE DEF d
<1>2. /\ all \in Seq(Byte) /\ Len(all) = Len(d) + Len(rest)
      /\ \A i \in 1 .. Len(d) + Len(rest) :
           all[i] = IF i <= Len(d) THEN d[i] ELSE rest[i - Len(d)]
  BY <1>1, ConcatProperties
<1>3. Len(d) \in Nat /\ Len(rest) \in Nat
  BY <1>1
<1> HIDE DEF all
<1>4. \A i \in 1 .. Len(d) : all[1 + i - 1] = d[i]
  BY <1>2, <1>3
<1>5. \A i \in 1 .. Len(rest) : all[Len(d) + i] = rest[i]
  <2> TAKE i \in 1 .. Len(rest)
  <2>1. Len(d) + i \in 1 .. Len(d) + Len(rest) /\ ~(Len(d) + i <= Len(d))
        /\ (Len(d) + i) - Len(d) = i
    BY <1>3
  <2> QED
    BY <1>2, <2>1
<1>6. Descriptor(all, 1) = [ok |-> TRUE, type |-> type, size |-> size, next |-> 1 + Len(d)]
  <2>1. 1 \in Nat
    OBVIOUS
  <2> QED
    BY <1>4, <2>1, DescriptorReads DEF d
<1> QED
  BY <1>2, <1>3, <1>5, <1>6 DEF all, d

\* An array in any of its forms decodes to its elements.
LEMMA ArrayIsDecoded ==
  ASSUME NEW type \in Types, NEW words, words \in Seq(Nat), Len(words) >= 1, NEW bytes,
         NEW f \in Forms(type, GetPLCDataSize(type)),
         LET inner == Described(type, GetPLCDataSize(type), f) \o Elements(type, words)
         IN  \E g \in Forms(PLC_ARRAY, Len(inner)) :
               bytes = Described(PLC_ARRAY, Len(inner), g) \o inner
  PROVE  DecodeData(bytes)
           = [type |-> type, Varcount |-> Len(words), elementsize |-> GetPLCDataSize(type),
              data |-> Elements(type, words)]
<1> DEFINE size == GetPLCDataSize(type)
           e == Elements(type, words)
           d == Described(type, size, f)
           inner == d \o e
<1>1. PICK g \in Forms(PLC_ARRAY, Len(inner)) :
        bytes = Described(PLC_ARRAY, Len(inner), g) \o inner
  OBVIOUS
<1>2. /\ type \in Nat /\ type \in 3 .. 8 /\ size \in Sizes /\ size \in Nat \ {0}
      /\ Len(words) \in Nat
  BY SizeOfType, CountOfElements DEF Sizes
<1>3. e \in Seq(Byte) /\ Len(e) = Len(words) * size
  BY ElementsBytes
<1> HIDE DEF size, e
<1>4. d \in Seq(Byte) /\ Len(d) \in Nat
  <2>1. d \in Seq(Byte)
    BY <1>2, DescribedBytes DEF size
  <2> QED
    BY <2>1
<1> DEFINE o == Described(PLC_ARRAY, Len(inner), g)
<1>5. /\ inner \in Seq(Byte) /\ Len(inner) = Len(d) + Len(e) /\ Len(inner) \in Nat
      /\ \A i \in 1 .. Len(d) + Len(e) :
           inner[i] = IF i <= Len(d) THEN d[i] ELSE e[i - Len(d)]
  <2> HIDE DEF d
  <2>1. d \in Seq(Byte) /\ e \in Seq(Byte) /\ Len(d) \in Nat /\ Len(e) \in Nat
    BY <1>3, <1>4
  <2>2. inner \in Seq(Byte)
    BY <2>1, ConcatProperties
  <2>3. Len(inner) = Len(d) + Len(e)
    BY <2>1, ConcatProperties
  <2>4. \A i \in 1 .. Len(d) + Len(e) :
          inner[i] = IF i <= Len(d) THEN d[i] ELSE e[i - Len(d)]
    BY <2>1, ConcatProperties
  <2> QED
    BY <2>1, <2>2, <2>3, <2>4
<1> HIDE DEF inner, d
<1>6. PLC_ARRAY \in Nat /\ PLC_ARRAY = 9
  BY DEF PLC_ARRAY
<1>7. /\ Len(o) \in Nat
      /\ Descriptor(bytes, 1)
           = [ok |-> TRUE, type |-> PLC_ARRAY, size |-> Len(inner), next |-> 1 + Len(o)]
      /\ \A i \in 1 .. Len(inner) : bytes[Len(o) + i] = inner[i]
  <2> DEFINE m == Len(inner)
  <2>1. m \in Nat /\ g \in Forms(PLC_ARRAY, m)
    BY <1>5
  <2> HIDE DEF m
  <2>2. /\ Len(Described(PLC_ARRAY, m, g)) \in Nat
        /\ Descriptor(Described(PLC_ARRAY, m, g) \o inner, 1)
             = [ok |-> TRUE, type |-> PLC_ARRAY, size |-> m,
                next |-> 1 + Len(Described(PLC_ARRAY, m, g))]
        /\ \A i \in 1 .. Len(inner) :
             (Described(PLC_ARRAY, m, g) \o inner)[Len(Described(PLC_ARRAY, m, g)) + i] = inner[i]
    BY <1>5, <1>6, <2>1, FirstDescriptor, SMTT(30)
  <2> QED
    BY <1>1, <2>2 DEF m
<1> HIDE DEF o
<1> DEFINE p == 1 + Len(o)
           q == p + Len(d)
<1>8. p \in Nat /\ q \in Nat /\ Len(e) \in Nat
  BY <1>3, <1>4, <1>7
<1>9. \A i \in 1 .. Len(d) : bytes[p + i - 1] = d[i]
  <2> TAKE i \in 1 .. Len(d)
  <2>1. i \in 1 .. Len(inner) /\ p + i - 1 = Len(o) + i /\ i <= Len(d)
        /\ i \in 1 .. Len(d) + Len(e)
    BY <1>4, <1>5, <1>7, <1>8
  <2> QED
    BY <1>5, <1>7, <2>1
<1>10. \A i \in 1 .. Len(e) : bytes[q + i - 1] = e[i]
  <2> TAKE i \in 1 .. Len(e)
  <2>1. /\ Len(d) + i \in 1 .. Len(inner) /\ Len(d) + i \in 1 .. Len(d) + Len(e)
        /\ ~(Len(d) + i <= Len(d)) /\ (Len(d) + i) - Len(d) = i
        /\ q + i - 1 = Len(o) + (Len(d) + i)
    BY <1>4, <1>5, <1>7, <1>8
  <2> QED
    BY <1>5, <1>7, <2>1
<1> HIDE DEF p
<1>11. Descriptor(bytes, p) = [ok |-> TRUE, type |-> type, size |-> size, next |-> q]
  <2>1. f \in Forms(type, size) /\ size \in Nat
    BY <1>2 DEF size
  <2>2. d = Described(type, size, f)
    BY DEF d, size
  <2> QED
    <3>1. \A i \in 1 .. Len(Described(type, size, f)) :
            bytes[p + i - 1] = Described(type, size, f)[i]
      BY <1>9, <2>2
    <3>2. Descriptor(bytes, p)
            = [ok |-> TRUE, type |-> type, size |-> size,
               next |-> p + Len(Described(type, size, f))]
      <4>1. \A form \in Forms(type, size) :
              (\A i \in 1 .. Len(Described(type, size, form)) :
                 bytes[p + i - 1] = Described(type, size, form)[i])
              => Descriptor(bytes, p)
                   = [ok |-> TRUE, type |-> type, size |-> size,
                      next |-> p + Len(Described(type, size, form))]
        BY ONLY <1>2, <1>8, <2>1, DescriptorReads, SMTT(30)
      <4> QED
        BY ONLY <2>1, <3>1, <4>1
    <3> QED
      BY <2>2, <3>2
<1> HIDE DEF q
<1>12. SubSeq(bytes, q, q + Len(e) - 1) = e
  <2>1. q \in Int /\ e \in Seq(Byte)
    BY <1>3, <1>8
  <2>2. \A t, to : /\ t \in Seq(Byte) /\ \A i \in 1 .. Len(t) : bytes[q + i - 1] = t[i]
                  /\ to = q + Len(t) - 1
                  => SubSeq(bytes, q, to) = t
    BY ONLY <2>1, PartOf
  <2>3. \A to : to = q + Len(e) - 1 => SubSeq(bytes, q, to) = e
    BY ONLY <1>10, <2>1, <2>2
  <2> QED
    BY <2>3
<1>13. DecodePLCDataType(bytes)
         = [type |-> type, esize |-> size, data |-> q, tsize |-> Len(e)]
  <2> DEFINE array == Descriptor(bytes, 1)
             element == Descriptor(bytes, p)
  <2>1. array.ok /\ array.type = PLC_ARRAY /\ array.size = Len(inner) /\ array.next = p
    BY <1>7 DEF p
  <2>2. element.ok /\ element.type = type /\ element.size = size /\ element.next = q
    BY <1>11
  <2>3. Len(inner) - (q - p) = Len(e)
    BY <1>4, <1>5, <1>8 DEF q
  <2> HIDE DEF array, element
  <2>4. DecodePLCDataType(bytes)
          = [type |-> element.type, esize |-> element.size, data |-> element.next,
             tsize |-> array.size - (element.next - array.next)]
    BY <2>1, <2>2 DEF DecodePLCDataType, array, element
  <2> QED
    BY <2>1, <2>2, <2>3, <2>4
<1>14. Len(e) \div size = Len(words) /\ size # 0
  BY <1>2, <1>3, CountOfElements
<1> DEFINE r == DecodePLCDataType(bytes)
<1>15. r.type = type /\ r.esize = size /\ r.data = q /\ r.tsize = Len(e)
  BY <1>13
<1>16. r # Nothing
  BY <1>2, <1>15 DEF Nothing
<1> HIDE DEF r
<1>17. ~(Len(words) < 1)
  BY <1>2
<1>18. DecodeData(bytes)
         = [type |-> r.type, Varcount |-> r.tsize \div r.esize, elementsize |-> r.esize,
            data |-> SubSeq(bytes, r.data, r.data + r.tsize - 1)]
  BY <1>14, <1>15, <1>16, <1>17 DEF DecodeData, r
<1> QED
  BY <1>12, <1>14, <1>15, <1>18 DEF size, e

\* A single element is not an array, in whatever form it is described.
LEMMA ScalarIsNotRead ==
  ASSUME NEW type \in Types, NEW rest \in Seq(Byte),
         NEW f \in Forms(type, GetPLCDataSize(type))
  PROVE  DecodeData(Described(type, GetPLCDataSize(type), f) \o rest) = Nothing
<1> DEFINE size == GetPLCDataSize(type)
           all == Described(type, size, f) \o rest
           array == Descriptor(all, 1)
<1>1. type \in Nat /\ type # PLC_ARRAY /\ size \in Nat
  BY SizeOfType DEF Sizes, PLC_ARRAY
<1>2. array.ok /\ array.type = type
  <2> HIDE DEF size
  <2>1. Descriptor(all, 1) = [ok |-> TRUE, type |-> type, size |-> size,
                              next |-> 1 + Len(Described(type, size, f))]
    BY <1>1, FirstDescriptor DEF size
  <2> QED
    BY <2>1
<1> HIDE DEF all, array
<1>3. DecodePLCDataType(all)
        = [type |-> array.type, tsize |-> array.size - 1, esize |-> 0, data |-> array.next]
  BY <1>1, <1>2 DEF DecodePLCDataType, array
<1>4. DecodePLCDataType(all).esize = 0
  BY <1>3
<1> QED
  BY <1>4 DEF DecodeData, all

-----------------------------------------------------------------------------
\* Values.

\* The float of an element is the word it was made from.
LEMMA ElementValue ==
  ASSUME NEW type \in Types, NEW words, words \in Seq(Nat), words \in Seq(Word16),
         NEW index, index + 1 \in 1 .. Len(words), index \in Nat,
         NEW read, read.type = type, read.elementsize = GetPLCDataSize(type),
         read.data = Elements(type, words)
  PROVE  GetValueAsFloat(read, index) = Value(type, words[index + 1])
<1> DEFINE size == GetPLCDataSize(type)
           e == Elements(type, words)
           k == index + 1
           word == words[k]
           at == index * size + 1
<1>1. word \in Word16
  OBVIOUS
<1>2. \A j \in 1 .. size : e[(k - 1) * size + j] = Field(word, size)[j]
  <2>1. \A m \in 1 .. Len(words), j \in 1 .. size :
          e[(m - 1) * size + j] = Field(words[m], size)[j]
    BY ElementsBytes
  <2>2. k \in 1 .. Len(words)
    OBVIOUS
  <2> HIDE DEF size, e, k
  <2> QED
    BY <2>1, <2>2
<1>3. Element(read, index) = at /\ read.data = e
  BY DEF Element
<1>4. type \in 3 .. 8 /\ size \in Nat
  BY SizeOfType DEF Sizes
<1> HIDE DEF word, e
<1>5. \A j \in 1 .. size : e[at + j - 1] = Field(word, size)[j]
  <2>1. \A j \in 1 .. size : at + j - 1 = (k - 1) * size + j
    BY <1>4
  <2> QED
    BY <1>2, <2>1
<1>6. at \in Int
  BY <1>4
<1> HIDE DEF at
<1>7. CASE type = PLC_INTEGER
  <2>1. size = 2
    BY <1>7, SizeTable
  <2>2. \A j \in 1 .. 2 : e[at + j - 1] = Field(word, 2)[j]
    BY <1>5, <2>1
  <2>3. LittleEndian(e, at, 2) = word
    BY <1>1, <1>6, <2>2, WordReadsBack
  <2>4. read.type \in {PLC_INTEGER, PLC_QUEUE_STATUS} /\ read.type # PLC_FLOATING
    BY <1>7 DEF PLC_INTEGER, PLC_FLOATING
  <2>5. GetValueAsFloat(read, index) = Signed(LittleEndian(e, at, 2))
    BY <1>3, <2>4 DEF GetValueAsFloat
  <2>6. Value(type, word) = Signed(word)
    BY <1>7 DEF Value, PLC_INTEGER, PLC_FLOATING
  <2> QED
    BY <2>3, <2>5, <2>6 DEF word
<1>8. CASE type = PLC_FLOATING
  <2>1. size = 4
    BY <1>8, SizeTable
  <2> DEFINE f == Field(word, 4)
  <2>2. f \in Seq(Byte) /\ Len(f) = 4
    <3>1. word \in Int
      BY <1>1, Word16Values
    <3>2. 4 \in Nat
      OBVIOUS
    <3>3. f \in Seq(Byte)
      BY <3>1, <3>2, FieldType
    <3>4. Len(f) = 4
      BY <3>1, <3>2, FieldType
    <3> QED
      BY <3>3, <3>4
  <2>3. \A j \in 1 .. 4 : e[at + j - 1] = f[j]
    BY <1>5, <2>1
  <2> HIDE DEF f
  <2>4. SubSeq(e, at, at + 3) = f
    <3>1. \A t, to : /\ t \in Seq(Byte) /\ \A i \in 1 .. Len(t) : e[at + i - 1] = t[i]
                    /\ to = at + Len(t) - 1
                    => SubSeq(e, at, to) = t
      BY ONLY <1>6, PartOf
    <3>2. at + 3 = at + Len(f) - 1
      BY <1>6, <2>2
    <3> QED
      BY ONLY <2>2, <2>3, <3>1, <3>2
  <2>5. read.type = PLC_FLOATING /\ read.type \notin {PLC_INTEGER, PLC_QUEUE_STATUS}
    BY <1>8 DEF PLC_INTEGER, PLC_QUEUE_STATUS, PLC_FLOATING
  <2>6. GetValueAsFloat(read, index) = SubSeq(e, at, at + 3)
    BY <1>3, <2>5 DEF GetValueAsFloat
  <2>7. Value(type, word) = f
    BY <1>8 DEF Value, f, PLC_INTEGER, PLC_FLOATING
  <2> QED
    BY <2>4, <2>6, <2>7 DEF word
<1>9. CASE type \notin {PLC_INTEGER, PLC_FLOATING}
  <2>1. GetValueAsFloat(read, index) = Error
    BY <1>4, <1>9 DEF GetValueAsFloat, PLC_QUEUE_STATUS
  <2> QED
    BY <1>9, <2>1 DEF Value
<1> QED
  BY <1>7, <1>8, <1>9

-----------------------------------------------------------------------------
\* The mask of an address.

Masks == {None} \cup (0 .. 31)

\* What BuildLogicalBinaryAddress has after so many parts.
After(address, count) ==
  CHOOSE after :
    after = [i \in 0 .. count |->
               IF i = 0 THEN Start ELSE Number(Word(after[i - 1], address[i]), address[i])]

\* There is such a function, of any length: of one more part than another.
LEMMA AfterEveryPart ==
  ASSUME NEW address
  PROVE  \A count \in Nat :
           After(address, count) =
             [i \in 0 .. count |->
                IF i = 0 THEN Start
                ELSE Number(Word(After(address, count)[i - 1], address[i]), address[i])]
<1> DEFINE Step(lba, i) == Number(Word(lba, address[i]), address[i])
           Has(count) == \E f : f = [i \in 0 .. count |-> IF i = 0 THEN Start ELSE Step(f[i - 1], i)]
           S == {count \in Nat : Has(count)}
<1>1. SUFFICES \A count \in Nat :
                 After(address, count) =
                   [i \in 0 .. count |->
                      IF i = 0 THEN Start ELSE Step(After(address, count)[i - 1], i)]
  OBVIOUS
<1>2. \A count : After(address, count) =
        CHOOSE f : f = [i \in 0 .. count |-> IF i = 0 THEN Start ELSE Step(f[i - 1], i)]
  BY DEF After
<1> HIDE DEF Step
<1>3. 0 \in S
  <2> DEFINE f == [i \in 0 .. 0 |-> Start]
  <2>1. f = [i \in 0 .. 0 |-> IF i = 0 THEN Start ELSE Step(f[i - 1], i)]
    OBVIOUS
  <2> QED
    BY <2>1
<1>4. ASSUME NEW n \in Nat, n \in S
      PROVE  n + 1 \in S
  <2>1. PICK f : f = [i \in 0 .. n |-> IF i = 0 THEN Start ELSE Step(f[i - 1], i)]
    BY <1>4
  <2> DEFINE g == [i \in 0 .. n + 1 |-> IF i = n + 1 THEN Step(f[n], n + 1) ELSE f[i]]
  <2>2. \A i \in 0 .. n + 1 : g[i] = IF i = 0 THEN Start ELSE Step(g[i - 1], i)
    <3> TAKE i \in 0 .. n + 1
    <3>1. CASE i = 0
      <4>1. 0 \in 0 .. n /\ f[0] = Start
        BY <2>1
      <4> QED
        BY <3>1, <4>1
    <3>2. CASE i = n + 1
      <4>1. g[i] = Step(f[n], i) /\ n \in 0 .. n + 1 /\ n # n + 1 /\ i # 0 /\ i - 1 = n
        BY <3>2
      <4>2. g[n] = f[n]
        BY <4>1
      <4> QED
        BY <4>1, <4>2
    <3>3. CASE i \in 1 .. n
      <4>1. f[i] = Step(f[i - 1], i)
        BY <2>1, <3>3
      <4>2. g[i] = f[i] /\ g[i - 1] = f[i - 1]
        BY <3>3
      <4> QED
        BY <3>3, <4>1, <4>2
    <3> QED
      BY <3>1, <3>2, <3>3
  <2>3. g = [i \in 0 .. n + 1 |-> IF i = 0 THEN Start ELSE Step(g[i - 1], i)]
    BY <2>2
  <2>4. Has(n + 1)
    <3> HIDE DEF g
    <3> QED
      BY <2>3
  <2> QED
    BY <2>4
<1>5. Nat \subseteq S
  <2> HIDE DEF S
  <2> QED
    BY <1>3, <1>4, InductionOnSet
<1> QED
  BY <1>5, <1>2

\* A part leaves an address a bit of 0 to 31, or none.
LEMMA MaskAfterPart ==
  ASSUME NEW lba, NEW p \in [word : STRING, number : Nat \cup {None}],
         DOMAIN lba = {"levels", "bytes", "mask", "encoding_bit"}, lba.mask \in Masks
  PROVE  LET next == Number(Word(lba, p), p)
         IN  DOMAIN next = {"levels", "bytes", "mask", "encoding_bit"} /\ next.mask \in Masks
<1> DEFINE Fields == {"levels", "bytes", "mask", "encoding_bit"}
<1>1. \A l, bytes : DOMAIN l = Fields =>
        DOMAIN AddLevel(l, bytes) = Fields /\ AddLevel(l, bytes).mask = l.mask
  BY DEF AddLevel
<1>2. Bit(p) \in Masks
  BY DEF Bit, Masks, None
<1>3. DOMAIN Word(lba, p) = Fields /\ Word(lba, p).mask \in Masks
  <2> DEFINE deeper == IF Sublevel(p) = None THEN lba ELSE AddLevel(lba, <<Sublevel(p)>>)
  <2>1. DOMAIN deeper = Fields /\ deeper.mask \in Masks
    BY <1>1
  <2>2. Word(lba, p) = [deeper EXCEPT !.encoding_bit = @ \/ p.word = "/",
                                      !.mask = IF Bit(p) = None THEN @ ELSE Bit(p)]
    BY DEF Word
  <2> HIDE DEF deeper
  <2> QED
    BY <1>2, <2>1, <2>2
<1> DEFINE w == Word(lba, p)
<1> HIDE DEF w
<1>4. DOMAIN w = Fields /\ w.mask \in Masks
  BY <1>3 DEF w
<1>5. DOMAIN Number(w, p) = Fields /\ Number(w, p).mask \in Masks
  <2>1. CASE p.number = None
    BY <1>4, <2>1 DEF Number
  <2>2. CASE p.number # None
    <3> DEFINE i == p.number % 65536
    <3>1. i \in Nat /\ i % 32 \in Masks
      <4>1. p.number \in Nat
        BY <2>2
      <4> QED
        BY <4>1 DEF Masks
    <3>2. Number(w, p) = IF w.encoding_bit THEN [w EXCEPT !.mask = i % 32]
                         ELSE AddLevel(w, LevelValue(i))
      BY <2>2 DEF Number
    <3> HIDE DEF i
    <3> QED
      BY <1>1, <1>4, <3>1, <3>2
  <2> QED
    BY <2>1, <2>2
<1> QED
  BY <1>5 DEF w

\* The mask of every address is a bit of 0 to 31, or none.
LEMMA MaskOfAddress ==
  ASSUME NEW address \in Addresses
  PROVE  BuildLogicalBinaryAddress(address).mask \in Masks
<1> DEFINE Parts == [word : STRING, number : Nat \cup {None}]
<1>1. address \in Seq(Parts)
  BY PcccAssumption
<1> DEFINE count == Len(address)
           after == After(address, count)
           Fields == {"levels", "bytes", "mask", "encoding_bit"}
           S == {i \in Nat : i <= count => DOMAIN after[i] = Fields /\ after[i].mask \in Masks}
<1>2. count \in Nat /\ \A i \in 1 .. count : address[i] \in Parts
  <2> HIDE DEF Parts
  <2> QED
    BY <1>1
<1>3. after = [i \in 0 .. count |->
                 IF i = 0 THEN Start ELSE Number(Word(after[i - 1], address[i]), address[i])]
  BY <1>2, AfterEveryPart
<1>4. BuildLogicalBinaryAddress(address).mask = after[count].mask
  BY DEF BuildLogicalBinaryAddress, After
<1> HIDE DEF after, count
<1>5. 0 \in S
  <2>1. after[0] = Start
    BY <1>2, <1>3
  <2> QED
    BY <2>1 DEF Start, Masks
<1>6. ASSUME NEW n \in Nat, n \in S
      PROVE  n + 1 \in S
  <2>1. CASE n + 1 <= count
    <3>1. DOMAIN after[n] = Fields /\ after[n].mask \in Masks
      BY <1>2, <1>6, <2>1
    <3>2. n + 1 \in 1 .. count /\ n + 1 \in 0 .. count /\ n + 1 # 0 /\ (n + 1) - 1 = n
      BY <1>2, <2>1
    <3>3. after[n + 1] = Number(Word(after[n], address[n + 1]), address[n + 1])
      BY <1>3, <3>2
    <3> DEFINE p == address[n + 1]  lba == after[n]
    <3>4. p \in Parts
      BY <1>2, <3>2
    <3>5. DOMAIN lba = Fields /\ lba.mask \in Masks
      BY <3>1
    <3> HIDE DEF p, lba
    <3>6. DOMAIN Number(Word(lba, p), p) = Fields /\ Number(Word(lba, p), p).mask \in Masks
      BY <3>4, <3>5, MaskAfterPart
    <3>7. DOMAIN after[n + 1] = Fields /\ after[n + 1].mask \in Masks
      BY <3>3, <3>6 DEF p, lba
    <3> QED
      BY <3>7
  <2> QED
    BY <2>1
<1>7. Nat \subseteq S
  <2> HIDE DEF S
  <2> QED
    BY <1>5, <1>6, InductionOnSet
<1> QED
  BY <1>2, <1>4, <1>7

-----------------------------------------------------------------------------
\* The inductive invariant: the item, the request and the reply belong together,
\* and the result is what the decoder made of them.

DataAnswered ==
  /\ request.reqtype = DATA_REQ /\ request.mask \in Masks
  /\ \E type \in Types, words \in WordLists, array \in BOOLEAN,
        f \in [type : Widths, size : Widths] :
       LET size == GetPLCDataSize(type)
           inner == Described(type, size, f) \o Elements(type, words)
       IN  /\ f \in Forms(type, size)
           /\ item = [type |-> type, words |-> words, array |-> array]
           /\ IF array
              THEN \E g \in Forms(PLC_ARRAY, Len(inner)) :
                     reply = Described(PLC_ARRAY, Len(inner), g) \o inner
              ELSE reply = inner

StatusRequest(nro) == [reqtype |-> QUEUE_STATUS_REQ, address |-> StatusAddress(nro), mask |-> None]

RecordRequest(nro, number) ==
  [reqtype |-> QUEUE_DATA_REQ, address |-> RecordAddress(nro, number), mask |-> None]

Asked ==
  \/ request.reqtype = DATA_REQ /\ request.mask \in Masks
  \/ \E nro \in Queues : item = [nro |-> nro] /\ request = StatusRequest(nro)
  \/ \E nro \in Queues, number \in AskedSizes :
       item = [nro |-> nro, number |-> number] /\ request = RecordRequest(nro, number)

StatusAnswered ==
  \E nro \in Queues, count \in Words :
    /\ request = StatusRequest(nro)
    /\ item = [nro |-> nro, queue |-> LittleEndian(StatusAddress(nro), 5, 2), count |-> count]
    /\ reply = Field(1, 2) \o Field(100, 2) \o Field(count, 2)

RecordAnswered ==
  \E nro \in Queues, number \in AskedSizes, size \in RecordSizes :
    LET asked == RecordAddress(nro, number)[1]
    IN  /\ request = RecordRequest(nro, number)
        /\ item = [nro |-> nro, number |-> number,
                   queue |-> LittleEndian(RecordAddress(nro, number), 4, 2), size |-> size]
        /\ reply = [i \in 1 .. (IF size < asked THEN size ELSE asked) |-> i]

Answered == DataAnswered \/ StatusAnswered \/ RecordAnswered

Decoded ==
  LET read == DecodePCCC(sts, reply, request.reqtype, request.address[1])
  IN  result = IF read = Nothing THEN Nothing
               ELSE [type |-> read.type, Varcount |-> read.Varcount,
                     elementsize |-> read.elementsize, data |-> read.data,
                     mask |-> request.mask]

Written ==
  \E type \in Types, words \in Seq(Words) :
    /\ item = [type |-> type, words |-> words]
    /\ reply = EncodePLCDataType(type, Len(words)) \o Elements(type, words)

DaemonWritten ==
  \E address \in Addresses, type \in {PLC_INTEGER, PLC_FLOATING}, value \in Int :
    /\ item = [address |-> address, type |-> type, value |-> value]
    /\ reply = EncodePLCDataType(type, 1) \o Field(value, GetPLCDataSize(type))

Inv ==
  /\ pc = "asked" => Asked
  /\ pc \in {"answered", "read"} => Answered
  /\ pc = "read" => Decoded
  /\ pc = "sent" => Written
  /\ pc \in {"daemonSent", "daemonWritten", "reported"} => DaemonWritten
  /\ pc = "reported" => (result.ret = 0 <=> result.answered)
  /\ EveryFormIsPublished /\ CountIsRead /\ RecordIsDelivered

-----------------------------------------------------------------------------
\* What a read returns.

\* The words a PLC answers with are words.
LEMMA WordListsTyped ==
  ASSUME NEW words \in WordLists
  PROVE  /\ words \in Seq(Nat) /\ words \in Seq(Word16) /\ words \in Seq(Words)
         /\ Len(words) \in Nat /\ Len(words) >= 1
<1>1. PICK n \in 1 .. MaxRead : words \in [1 .. n -> Words]
  BY DEF WordLists
<1>2. n \in Nat /\ n >= 1
  <2>1. MaxRead \in Nat
    BY PcccAssumption
  <2> QED
    BY <2>1
<1>3. Words \subseteq Word16
  BY PcccAssumption
<1>4. Words \subseteq Nat
  BY <1>3, Word16Values
<1>5. words \in [1 .. n -> Nat]
  BY <1>1, <1>4
<1>6. words \in [1 .. n -> Word16]
  BY <1>1, <1>3
<1>7. words \in Seq(Words) /\ Len(words) = n
  BY <1>1, <1>2
<1>8. words \in Seq(Word16)
  BY <1>2, <1>6
<1>9. words \in Seq(Nat)
  BY <1>2, <1>5
<1> QED
  BY <1>2, <1>7, <1>8, <1>9

\* What the decoder makes of an answer, whatever its form: the array.
LEMMA DataIsRead ==
  ASSUME DataAnswered, Decoded
  PROVE  /\ item.type \in Types /\ item.words \in WordLists /\ item.array \in BOOLEAN
         /\ result = IF sts = 0 /\ item.array
                     THEN [type |-> item.type, Varcount |-> Len(item.words),
                           elementsize |-> GetPLCDataSize(item.type),
                           data |-> Elements(item.type, item.words), mask |-> request.mask]
                     ELSE Nothing
<1>1. PICK type \in Types, words \in WordLists, array \in BOOLEAN,
          f \in [type : Widths, size : Widths] :
        LET size == GetPLCDataSize(type)
            inner == Described(type, size, f) \o Elements(type, words)
        IN  /\ f \in Forms(type, size)
            /\ item = [type |-> type, words |-> words, array |-> array]
            /\ IF array
               THEN \E g \in Forms(PLC_ARRAY, Len(inner)) :
                      reply = Described(PLC_ARRAY, Len(inner), g) \o inner
               ELSE reply = inner
  BY DEF DataAnswered
<1>2. item.type = type /\ item.words = words /\ item.array = array
  BY <1>1
<1>3. words \in Seq(Nat) /\ Len(words) >= 1
  BY WordListsTyped
<1> DEFINE size == GetPLCDataSize(type)
           e == Elements(type, words)
           read == DecodePCCC(sts, reply, request.reqtype, request.address[1])
<1>4. f \in Forms(type, size)
  BY <1>1
<1>5. read = IF sts # 0 THEN Nothing ELSE DecodeData(reply)
  BY DEF DecodePCCC, DataAnswered, DATA_REQ, QUEUE_STATUS_REQ, QUEUE_DATA_REQ
<1>6. CASE sts = 0 /\ array
  <2>1. DecodeData(reply) = [type |-> type, Varcount |-> Len(words), elementsize |-> size, data |-> e]
    BY <1>1, <1>3, <1>4, <1>6, ArrayIsDecoded
  <2> HIDE DEF size, e, read
  <2>2. type # 0
    BY SizeOfType
  <2>3. /\ read.type = type /\ read.Varcount = Len(words) /\ read.elementsize = size
        /\ read.data = e
    BY <1>5, <1>6, <2>1
  <2>4. read # Nothing
    BY <2>2, <2>3 DEF Nothing
  <2>5. result = [type |-> read.type, Varcount |-> read.Varcount,
                  elementsize |-> read.elementsize, data |-> read.data, mask |-> request.mask]
    BY <2>4 DEF Decoded, read
  <2> QED
    BY <1>2, <1>6, <2>3, <2>5 DEF size, e
<1>7. CASE ~(sts = 0 /\ array)
  <2>1. CASE sts # 0
    BY <1>2, <1>5, <2>1 DEF Decoded
  <2>2. CASE sts = 0 /\ ~array
    <3>1. e \in Seq(Byte)
      BY <1>3, ElementsBytes
    <3>2. reply = Described(type, size, f) \o e
      BY <1>1, <2>2
    <3>3. DecodeData(reply) = Nothing
      <4> HIDE DEF e
      <4> QED BY <1>4, <3>1, <3>2, ScalarIsNotRead
    <3>4. read = Nothing
      BY <1>5, <2>2, <3>3
    <3>5. result = Nothing
      BY <3>4 DEF Decoded
    <3> QED
      BY <1>2, <2>2, <3>5
  <2> QED
    BY <1>7, <2>1, <2>2
<1> QED
  BY <1>6, <1>7

\* The number of records, out of the third word of the status, and the queue,
\* out of the address.
LEMMA StatusIsRead ==
  ASSUME StatusAnswered, Decoded
  PROVE  /\ item.count \in Word16 /\ item.queue = item.nro
         /\ result # Nothing =>
              /\ result.type = PLC_QUEUE_STATUS
              /\ GetValueAsFloat(result, 2) = Signed(item.count)
<1>1. PICK nro \in Queues, count \in Words :
        /\ request = StatusRequest(nro)
        /\ item = [nro |-> nro, queue |-> LittleEndian(StatusAddress(nro), 5, 2), count |-> count]
        /\ reply = Field(1, 2) \o Field(100, 2) \o Field(count, 2)
  BY DEF StatusAnswered
<1>2. count \in Word16 /\ nro \in Word16
  BY PcccAssumption
<1>3. count \in Int /\ nro \in Int
  BY <1>2, Word16Values
<1>4. LittleEndian(StatusAddress(nro), 5, 2) = nro
  <2> DEFINE a == <<6, 0, 234, 255>>  b == Field(nro, 2)
  <2>1. a \in Seq(Byte) /\ Len(a) = 4
    BY DEF Byte
  <2>2. b \in Seq(Byte) /\ Len(b) = 2
    BY <1>3, FieldType
  <2> HIDE DEF a, b
  <2>3. \A i \in 1 .. Len(a) + Len(b) :
          (a \o b)[i] = IF i <= Len(a) THEN a[i] ELSE b[i - Len(a)]
    BY <2>1, <2>2, ConcatProperties
  <2>4. \A i \in 1 .. 2 : (a \o b)[5 + i - 1] = b[i]
    <3> TAKE i \in 1 .. 2
    <3>1. /\ 5 + i - 1 \in 1 .. Len(a) + Len(b)
          /\ ~(5 + i - 1 <= Len(a)) /\ (5 + i - 1) - Len(a) = i
      BY <2>1, <2>2
    <3> HIDE DEF a, b
    <3> QED
      BY <2>3, <3>1
  <2> DEFINE all == a \o b  at == 5
  <2>5. at \in Int /\ \A i \in 1 .. 2 : all[at + i - 1] = Field(nro, 2)[i]
    <3>1. at \in Int
      OBVIOUS
    <3>2. \A i \in 1 .. 2 : all[at + i - 1] = b[i]
      BY <2>4
    <3> QED
      BY <3>1, <3>2 DEF b
  <2> HIDE DEF all, at
  <2>6. LittleEndian(all, at, 2) = nro
    BY <1>2, <2>5, WordReadsBack
  <2> QED
    BY <2>6 DEF StatusAddress, all, at, a, b
<1>5. item.count = count /\ item.queue = nro /\ item.nro = nro
  BY <1>1, <1>4
<1>6. ASSUME result # Nothing
      PROVE  /\ result.type = PLC_QUEUE_STATUS
             /\ GetValueAsFloat(result, 2) = Signed(item.count)
  <2> DEFINE read == DecodePCCC(sts, reply, request.reqtype, request.address[1])
  <2>1. request.reqtype = QUEUE_STATUS_REQ
    BY <1>1 DEF StatusRequest
  <2>2. read # Nothing
    BY <1>6 DEF Decoded
  <2>3. read = DecodeStatus(reply)
    BY <2>1, <2>2 DEF DecodePCCC, DATA_REQ, QUEUE_STATUS_REQ, QUEUE_DATA_REQ
  <2>4. result = [type |-> read.type, Varcount |-> read.Varcount,
                  elementsize |-> read.elementsize, data |-> read.data, mask |-> request.mask]
    BY <2>2 DEF Decoded
  <2> HIDE DEF read
  <2>5. /\ result.type = PLC_QUEUE_STATUS /\ result.elementsize = 2
        /\ result.data = Copied(reply, 6)
    BY <2>3, <2>4 DEF DecodeStatus
  <2> DEFINE a == Field(1, 2)  b == Field(100, 2)  c == Field(count, 2)
             data == Copied(reply, 6)
  <2>6. /\ a \in Seq(Byte) /\ Len(a) = 2 /\ b \in Seq(Byte) /\ Len(b) = 2
        /\ c \in Seq(Byte) /\ Len(c) = 2
    <3>1. \A v \in Int : Field(v, 2) \in Seq(Byte) /\ Len(Field(v, 2)) = 2
      <4> TAKE v \in Int
      <4>1. 2 \in Nat
        OBVIOUS
      <4> QED
        BY <4>1, FieldType
    <3>2. 1 \in Int /\ 100 \in Int
      OBVIOUS
    <3> QED
      BY <1>3, <3>1, <3>2
  <2>7. reply = a \o b \o c
    BY <1>1
  <2>8. data = [i \in 1 .. 6 |-> IF i <= Len(reply) THEN reply[i] ELSE Unspecified]
    BY DEF Copied
  <2> HIDE DEF a, b, c, data
  <2>9. /\ Len(reply) = Len(a) + Len(b) + Len(c)
        /\ \A i \in 1 .. Len(c) : reply[Len(a) + Len(b) + i] = c[i]
    <3>1. a \in Seq(Byte) /\ b \in Seq(Byte) /\ c \in Seq(Byte)
      BY <2>6
    <3>2. Len(a \o b \o c) = Len(a) + Len(b) + Len(c)
      BY <3>1, ThreeParts
    <3>3. \A i \in 1 .. Len(c) : (a \o b \o c)[Len(a) + Len(b) + i] = c[i]
      BY <3>1, ThreeParts
    <3> QED
      BY <2>7, <3>2, <3>3
  <2>10. \A i \in 1 .. 2 : data[5 + i - 1] = c[i]
    <3> TAKE i \in 1 .. 2
    <3>1. 5 + i - 1 \in 1 .. 6 /\ 5 + i - 1 <= Len(reply) /\ 5 + i - 1 = Len(a) + Len(b) + i
          /\ i \in 1 .. Len(c)
      BY <2>6, <2>9
    <3>2. data[5 + i - 1] = reply[5 + i - 1]
      BY <2>8, <3>1
    <3> QED
      BY <2>9, <3>1, <3>2
  <2> DEFINE at == 5
  <2>11. at \in Int /\ \A i \in 1 .. 2 : data[at + i - 1] = Field(count, 2)[i]
    BY <2>10 DEF c
  <2> HIDE DEF at
  <2>12. LittleEndian(data, at, 2) = count
    BY <1>2, <2>11, WordReadsBack
  <2>13. Element(result, 2) = at
    BY <2>5 DEF Element, at
  <2>14. GetValueAsFloat(result, 2) = Signed(LittleEndian(data, at, 2))
    BY <2>5, <2>13 DEF GetValueAsFloat, data, PLC_QUEUE_STATUS, PLC_FLOATING, PLC_INTEGER
  <2> QED
    BY <1>5, <2>5, <2>12, <2>14
<1> QED
  BY <1>2, <1>5, <1>6

\* As many bytes as were asked for; those the PLC has sent come first.
LEMMA RecordIsRead ==
  ASSUME RecordAnswered, Decoded
  PROVE  /\ item.queue = item.nro
         /\ result # Nothing =>
              /\ result.type = PLC_QUEUE_DATA
              /\ result.Varcount > 0 <=> item.number # 0
              /\ result.Varcount = 0 <=> item.number = 0
              /\ Len(result.data) = IF item.number < 109 THEN item.number ELSE 109
              /\ \A i \in DOMAIN result.data : result.data[i] = Unspecified <=> i > item.size
<1>1. PICK nro \in Queues, number \in AskedSizes, size \in RecordSizes :
        LET asked == RecordAddress(nro, number)[1]
        IN  /\ request = RecordRequest(nro, number)
            /\ item = [nro |-> nro, number |-> number,
                       queue |-> LittleEndian(RecordAddress(nro, number), 4, 2), size |-> size]
            /\ reply = [i \in 1 .. (IF size < asked THEN size ELSE asked) |-> i]
  BY DEF RecordAnswered
<1>2. nro \in Word16 /\ number \in Word16 /\ size \in Nat
  BY PcccAssumption
<1>3. nro \in Int /\ number \in Nat
  BY <1>2, Word16Values
<1> DEFINE most == IF number < 110 THEN number ELSE 109
           a == <<most, 0, 165>>
           b == Field(nro, 2)
<1>4. most \in 0 .. 109 /\ most = IF number < 109 THEN number ELSE 109
  BY <1>3
<1>5. a \in Seq(Byte) /\ Len(a) = 3 /\ a[1] = most
  BY <1>4 DEF Byte
<1>6. b \in Seq(Byte) /\ Len(b) = 2
  BY <1>3, FieldType
<1>7. RecordAddress(nro, number) = a \o b
  BY DEF RecordAddress
<1> HIDE DEF most, a, b
<1>8. \A i \in 1 .. Len(a) + Len(b) :
        (a \o b)[i] = IF i <= Len(a) THEN a[i] ELSE b[i - Len(a)]
  BY <1>5, <1>6, ConcatProperties
<1>9. RecordAddress(nro, number)[1] = most
  <2>1. 1 \in 1 .. Len(a) + Len(b) /\ 1 <= Len(a)
    BY <1>5, <1>6
  <2> QED
    BY <1>5, <1>7, <1>8, <2>1
<1>10. LittleEndian(RecordAddress(nro, number), 4, 2) = nro
  <2>1. \A i \in 1 .. 2 : (a \o b)[4 + i - 1] = b[i]
    <3> TAKE i \in 1 .. 2
    <3>1. /\ 4 + i - 1 \in 1 .. Len(a) + Len(b)
          /\ ~(4 + i - 1 <= Len(a)) /\ (4 + i - 1) - Len(a) = i
      BY <1>5, <1>6
    <3> QED
      BY <1>8, <3>1
  <2> DEFINE all == a \o b  at == 4
  <2>2. at \in Int /\ \A i \in 1 .. 2 : all[at + i - 1] = Field(nro, 2)[i]
    <3>1. at \in Int
      OBVIOUS
    <3>2. \A i \in 1 .. 2 : all[at + i - 1] = b[i]
      BY <2>1
    <3> QED
      BY <3>1, <3>2 DEF b
  <2> HIDE DEF all, at
  <2>3. LittleEndian(all, at, 2) = nro
    BY <1>2, <2>2, WordReadsBack
  <2> QED
    BY <1>7, <2>3 DEF all, at
<1>11. item.nro = nro /\ item.number = number /\ item.queue = nro /\ item.size = size
  BY <1>1, <1>10
<1>12. /\ request.reqtype = QUEUE_DATA_REQ /\ request.address[1] = most
       /\ reply = [i \in 1 .. (IF size < most THEN size ELSE most) |-> i]
  BY <1>1, <1>9 DEF RecordRequest
<1>13. ASSUME result # Nothing
       PROVE  /\ result.type = PLC_QUEUE_DATA /\ result.data = Copied(reply, most)
              /\ result.Varcount = most
  <2> DEFINE read == DecodePCCC(sts, reply, request.reqtype, request.address[1])
  <2>1. read # Nothing
    BY <1>13 DEF Decoded
  <2>2. read = DecodeRecord(reply, most)
    BY <1>12, <2>1 DEF DecodePCCC, DATA_REQ, QUEUE_STATUS_REQ, QUEUE_DATA_REQ
  <2>3. result = [type |-> read.type, Varcount |-> read.Varcount,
                  elementsize |-> read.elementsize, data |-> read.data, mask |-> request.mask]
    BY <2>1 DEF Decoded
  <2> HIDE DEF read
  <2> QED
    BY <2>2, <2>3 DEF DecodeRecord
<1> DEFINE data == Copied(reply, most)
<1>14. data = [i \in 1 .. most |-> IF i <= Len(reply) THEN reply[i] ELSE Unspecified]
  BY DEF Copied
<1> HIDE DEF data
<1>15. Len(data) = most /\ DOMAIN data = 1 .. most
  BY <1>4, <1>14
<1>16. Len(reply) = IF size < most THEN size ELSE most
  BY <1>2, <1>4, <1>12
<1>17. ASSUME NEW i \in 1 .. most
       PROVE  data[i] = Unspecified <=> i > size
  <2>1. CASE i > size
    <3>1. ~(i <= Len(reply))
      BY <1>2, <1>4, <1>16, <2>1
    <3> QED
      BY <1>14, <2>1, <3>1
  <2>2. CASE ~(i > size)
    <3>1. i <= Len(reply) /\ i \in 1 .. (IF size < most THEN size ELSE most)
      BY <1>2, <1>4, <1>16, <2>2
    <3>2. reply[i] = i
      BY <1>12, <3>1
    <3>3. data[i] = reply[i]
      BY <1>14, <3>1
    <3>4. i < 110
      BY <1>4
    <3> QED
      BY <2>2, <3>2, <3>3, <3>4 DEF Unspecified
  <2> QED
    BY <2>1, <2>2
<1>18. (most > 0 <=> number # 0) /\ (most = 0 <=> number = 0)
  BY <1>3, <1>4
<1> QED
  BY <1>4, <1>11, <1>13, <1>15, <1>17, <1>18 DEF data

-----------------------------------------------------------------------------
\* Writes.

\* The bytes of the descriptor of the elements of a write, and its flag.
Extra(type) == IF type > 7 THEN 2 ELSE 1

\* How the library itself reads the descriptors it writes: the elements are of
\* the type and size of the caller's, and as many bytes as the low byte of the
\* size says.
LEMMA WriteIsDescribed ==
  ASSUME NEW type \in Types, NEW number \in Nat, NEW e \in Seq(Byte)
  PROVE  LET size == GetPLCDataSize(type)
             all == EncodePLCDataType(type, number) \o e
         IN  /\ all \in Seq(Byte) /\ Len(all) = 3 + Extra(type) + Len(e)
             /\ \A i \in 1 .. Len(e) : all[4 + Extra(type) + i - 1] = e[i]
             /\ DecodePLCDataType(all)
                  = [type |-> type, esize |-> size, data |-> 4 + Extra(type),
                     tsize |-> ((number * size + Extra(type)) % 256) - Extra(type)]
<1> DEFINE size == GetPLCDataSize(type)
           extra == Extra(type)
           low == (number * size + extra) % 256
           a == <<153, PLC_ARRAY, low>>
           b == IF type > 7 THEN <<144 + size, type>> ELSE <<16 * type + size>>
           all == a \o b \o e
<1>1. type \in 3 .. 8 /\ size \in {1, 2, 4, 6} /\ extra \in {1, 2}
  BY SizeOfType DEF Sizes, Extra
<1>2. EncodePLCDataType(type, number) \o e = all
  <2>1. number * size + (IF type > 7 THEN 1 ELSE 0) + 1 = number * size + extra
    <3>1. number * size \in Int
      BY <1>1
    <3> QED
      BY <3>1 DEF Extra
  <2> QED
    BY <2>1 DEF EncodePLCDataType
<1>3. low \in Byte
  <2> DEFINE m == number * size + extra
  <2>1. m \in Nat
    BY <1>1
  <2> HIDE DEF m, extra
  <2>2. m % 256 \in Byte
    BY <2>1 DEF Byte
  <2> QED
    BY <2>2 DEF m
<1> HIDE DEF size, low
<1>4. a \in Seq(Byte) /\ Len(a) = 3 /\ a[1] = 153 /\ a[2] = 9 /\ a[3] = low
  <2>1. 153 \in Byte /\ 9 \in Byte
    BY DEF Byte
  <2> HIDE DEF low
  <2> QED
    BY <1>3, <2>1 DEF PLC_ARRAY
<1>5. /\ b \in Seq(Byte) /\ Len(b) = extra
      /\ type > 7 => b[1] = 144 + size /\ b[2] = type
      /\ ~(type > 7) => b[1] = 16 * type + size
  <2>1. CASE type > 7
    <3>1. 144 + size \in Byte /\ type \in Byte
      BY <1>1 DEF Byte
    <3>2. b = <<144 + size, type>>
      BY <2>1
    <3> QED
      BY <2>1, <3>1, <3>2 DEF Extra
  <2>2. CASE ~(type > 7)
    <3>1. 16 * type + size \in Byte
      BY <1>1, <2>2 DEF Byte
    <3>2. b = <<16 * type + size>>
      BY <2>2
    <3> QED
      BY <2>2, <3>1, <3>2 DEF Extra
  <2> QED
    BY <2>1, <2>2
<1> HIDE DEF a, b, extra
<1>6. /\ all \in Seq(Byte) /\ Len(all) = 3 + extra + Len(e)
      /\ \A i \in 1 .. Len(a) : all[i] = a[i]
      /\ \A i \in 1 .. Len(b) : all[Len(a) + i] = b[i]
      /\ \A i \in 1 .. Len(e) : all[Len(a) + Len(b) + i] = e[i]
  <2>1. a \in Seq(Byte) /\ b \in Seq(Byte)
    BY <1>4, <1>5
  <2>2. all \in Seq(Byte)
    BY <2>1, ThreeParts
  <2>3. Len(all) = Len(a) + Len(b) + Len(e)
    BY <2>1, ThreeParts
  <2>4. \A i \in 1 .. Len(a) : all[i] = a[i]
    BY <2>1, ThreeParts
  <2>5. \A i \in 1 .. Len(b) : all[Len(a) + i] = b[i]
    BY <2>1, ThreeParts
  <2>6. \A i \in 1 .. Len(e) : all[Len(a) + Len(b) + i] = e[i]
    BY <2>1, ThreeParts
  <2>7. Len(all) = 3 + extra + Len(e)
    BY <1>4, <1>5, <2>3
  <2> QED
    BY <2>2, <2>4, <2>5, <2>6, <2>7
<1> HIDE DEF all
<1>7. all[1] = 153 /\ all[2] = 9 /\ all[3] = low
  BY <1>4, <1>6
<1>8. all[4] = b[1] /\ (type > 7 => all[5] = type)
  <2>1. all[4] = b[1]
    <3>1. 1 \in 1 .. Len(b) /\ Len(a) + 1 = 4
      BY <1>1, <1>4, <1>5
    <3> QED
      BY <1>6, <3>1
  <2>2. ASSUME type > 7 PROVE all[5] = type
    <3>1. 2 \in 1 .. Len(b) /\ Len(a) + 2 = 5
      BY <1>4, <1>5, <2>2 DEF extra, Extra
    <3> QED
      BY <1>5, <1>6, <2>2, <3>1
  <2> QED
    BY <2>1, <2>2
<1>9. \A i \in 1 .. Len(e) : all[4 + extra + i - 1] = e[i]
  <2> TAKE i \in 1 .. Len(e)
  <2>1. 4 + extra + i - 1 = Len(a) + Len(b) + i
    BY <1>1, <1>4, <1>5
  <2> QED
    BY <1>6, <2>1
<1>10. ASSUME NEW v \in Byte
       PROVE  Field(v, 1)[1] = v /\ Fits(v, 1) /\ Half(v, 1) = 9
  <2>1. v \in Int /\ v % 256 = v /\ v < 256
    <3>1. v \in 0 .. 255
      BY DEF Byte
    <3> QED
      BY <3>1
  <2>2. Field(v, 1)[1] = v
    <3>1. 1 \in Nat /\ 1 >= 1
      OBVIOUS
    <3>2. Field(v, 1)[1] = v % 256
      BY <2>1, <3>1, FieldBytes
    <3> QED
      BY <2>1, <3>2
  <2>3. Fits(v, 1)
    BY <2>1 DEF Fits
  <2>4. Half(v, 1) = 9
    BY DEF Half
  <2> QED
    BY <2>2, <2>3, <2>4
<1> DEFINE array == Descriptor(all, 1)
<1>11. array.ok /\ array.type = PLC_ARRAY /\ array.size = low /\ array.next = 4
  <2>1. 9 \in Byte /\ 9 \in Nat /\ low \in Nat /\ 1 \in Widths /\ 1 \in Nat
    BY <1>3 DEF Byte, Widths
  <2>2. all[1] = 16 * Half(9, 1) + Half(low, 1)
    BY <1>3, <1>7, <1>10, <2>1
  <2>3. \A i \in 1 .. 1 : all[1 + i] = Field(9, 1)[i]
    BY <1>7, <1>10, <2>1
  <2>4. \A i \in 1 .. 1 : all[1 + 1 + i] = Field(low, 1)[i]
    BY <1>3, <1>7, <1>10
  <2>5. Fits(9, 1) /\ Fits(low, 1)
    BY <1>3, <1>10, <2>1
  <2>6. Descriptor(all, 1) = [ok |-> TRUE, type |-> 9, size |-> low, next |-> 1 + 1 + 1 + 1]
    BY <2>1, <2>2, <2>3, <2>4, <2>5, FlagAndFieldsRead
  <2> QED
    BY <2>6 DEF PLC_ARRAY
<1> DEFINE element == Descriptor(all, 4)
<1>12. element.ok /\ element.type = type /\ element.size = size /\ element.next = 4 + extra
  <2>1. type \in Nat /\ size \in Nat /\ 0 \in Widths /\ 1 \in Widths /\ 4 \in Nat
    BY <1>1 DEF Widths
  <2>2. Fits(size, 0) /\ Half(size, 0) = size
    BY <1>1 DEF Fits, Half
  <2>3. CASE type > 7
    <3>1. type = 8 /\ size = 4
      <4>1. type = 8
        BY <1>1, <2>3
      <4>2. type = PLC_FLOATING
        BY <4>1 DEF PLC_FLOATING
      <4> QED
        BY <4>1, <4>2, SizeTable DEF size
    <3>2. type \in Byte
      BY <3>1 DEF Byte
    <3>3. all[4] = 16 * Half(type, 1) + Half(size, 0)
      BY <1>5, <1>8, <1>10, <2>2, <2>3, <3>1, <3>2
    <3>4. \A i \in 1 .. 1 : all[4 + i] = Field(type, 1)[i]
      BY <1>8, <1>10, <2>3, <3>2
    <3>5. \A i \in 1 .. 0 : all[4 + 1 + i] = Field(size, 0)[i]
      OBVIOUS
    <3>6. Fits(type, 1)
      BY <1>10, <3>2
    <3>7. element = [ok |-> TRUE, type |-> type, size |-> size, next |-> 4 + 1 + 1 + 0]
      BY <2>1, <2>2, <3>3, <3>4, <3>5, <3>6, FlagAndFieldsRead
    <3>8. 4 + extra = 4 + 1 + 1 + 0
      BY <2>3 DEF extra, Extra
    <3> QED
      BY <3>7, <3>8
  <2>4. CASE ~(type > 7)
    <3>1. Fits(type, 0) /\ Half(type, 0) = type
      BY <1>1, <2>4 DEF Fits, Half
    <3>2. all[4] = 16 * Half(type, 0) + Half(size, 0)
      BY <1>5, <1>8, <2>2, <2>4, <3>1
    <3>3. \A i \in 1 .. 0 : all[4 + i] = Field(type, 0)[i]
      OBVIOUS
    <3>4. \A i \in 1 .. 0 : all[4 + 0 + i] = Field(size, 0)[i]
      OBVIOUS
    <3>5. element = [ok |-> TRUE, type |-> type, size |-> size, next |-> 4 + 1 + 0 + 0]
      BY <2>1, <2>2, <3>1, <3>2, <3>3, <3>4, FlagAndFieldsRead
    <3>6. 4 + extra = 4 + 1 + 0 + 0
      BY <2>4 DEF extra, Extra
    <3> QED
      BY <3>5, <3>6
  <2> QED
    BY <2>3, <2>4
<1> HIDE DEF array, element
<1>13. DecodePLCDataType(all)
         = [type |-> element.type, esize |-> element.size, data |-> element.next,
            tsize |-> array.size - (element.next - array.next)]
  BY <1>11, <1>12 DEF DecodePLCDataType, array, element
<1>14. array.size - (element.next - array.next) = low - extra
  BY <1>1, <1>3, <1>11, <1>12 DEF Byte
<1>15. DecodePLCDataType(all)
         = [type |-> type, esize |-> size, data |-> 4 + extra, tsize |-> low - extra]
  BY <1>12, <1>13, <1>14
<1> QED
  BY <1>2, <1>6, <1>9, <1>15 DEF low, extra, size

\* The byte of the size announces the elements exactly when they fit into it.
LEMMA WrittenIsAnnounced ==
  ASSUME Written
  PROVE  LET size == GetPLCDataSize(item.type)
             descriptor == IF item.type > 7 THEN 2 ELSE 1
             d == DecodePLCDataType(reply)
         IN  (Len(item.words) * size + descriptor < 256)
               <=> /\ d.type = item.type /\ d.esize = size
                   /\ d.tsize = Len(item.words) * size
                   /\ d.tsize = Len(reply) - d.data + 1
<1>1. PICK type \in Types, words \in Seq(Words) :
        /\ item = [type |-> type, words |-> words]
        /\ reply = EncodePLCDataType(type, Len(words)) \o Elements(type, words)
  BY DEF Written
<1> DEFINE size == GetPLCDataSize(type)
           e == Elements(type, words)
           n == Len(words)
           d == DecodePLCDataType(reply)
           data == n * size
<1>2. words \in Seq(Nat) /\ n \in Nat
  <2>1. \A i \in 1 .. Len(words) : words[i] \in Nat
    BY PcccAssumption, Word16Values
  <2> QED
    BY <2>1
<1>3. e \in Seq(Byte) /\ Len(e) = data
  BY <1>2, ElementsBytes
<1>4. Extra(type) \in 1 .. 2 /\ size \in {1, 2, 4, 6}
  BY SizeOfType DEF Extra, Sizes
<1>5. data \in Nat
  BY <1>2, <1>4
<1> HIDE DEF e, n
<1>6. /\ Len(reply) = 3 + Extra(type) + data
      /\ d = [type |-> type, esize |-> size, data |-> 4 + Extra(type),
              tsize |-> ((data + Extra(type)) % 256) - Extra(type)]
  <2>1. reply = EncodePLCDataType(type, n) \o e
    BY <1>1 DEF n, e
  <2>2. Len(reply) = 3 + Extra(type) + Len(e)
    BY <1>2, <1>3, <2>1, WriteIsDescribed
  <2>3. d = [type |-> type, esize |-> size, data |-> 4 + Extra(type),
             tsize |-> ((n * size + Extra(type)) % 256) - Extra(type)]
    BY <1>2, <1>3, <2>1, WriteIsDescribed
  <2> QED
    BY <1>3, <2>2, <2>3
<1> HIDE DEF d, data, size
<1>7. /\ d.type = type /\ d.esize = size /\ d.data = 4 + Extra(type)
      /\ d.tsize = ((data + Extra(type)) % 256) - Extra(type)
  BY <1>6
<1>8. Len(reply) - d.data + 1 = data
  BY <1>4, <1>5, <1>6, <1>7
<1>9. (data + Extra(type) < 256) <=> ((data + Extra(type)) % 256) - Extra(type) = data
  BY <1>4, <1>5
<1>10. item.type = type /\ item.words = words
  BY <1>1
<1>11. (data + Extra(type) < 256)
         <=> /\ d.type = type /\ d.esize = size
             /\ d.tsize = data /\ d.tsize = Len(reply) - d.data + 1
  BY <1>7, <1>8, <1>9
<1> QED
  BY <1>10, <1>11 DEF data, n, size, d, Extra

\* The low two bytes of an integer, with the sign of their word, are the integer
\* exactly when it fits into a word.
LEMMA LowWord ==
  ASSUME NEW value \in Int
  PROVE  LET f == Field(value, 2)
         IN  Signed(LittleEndian(f, 1, 2)) = value <=> value \in Integer16
<1> DEFINE f == Field(value, 2)
<1>1. f[1] = value % 256 /\ f[2] = (value \div 256) % 256
  <2>1. \A w \in Nat : w >= 1 => Field(value, w)[1] = value % 256
    BY FieldBytes
  <2>2. \A w \in Nat : w >= 2 => Field(value, w)[2] = (value \div 256) % 256
    BY FieldBytes
  <2> QED
    BY <2>1, <2>2
<1> HIDE DEF f
<1>2. LittleEndian(f, 1, 2) = (value % 256) + ((value \div 256) % 256) * 256
  <2>1. 1 \in Int /\ f[1] \in Int /\ f[1 + 1] \in Int
    BY <1>1
  <2>2. LittleEndian(f, 1, 2) = f[1] + f[1 + 1] * 256
    BY <2>1, LittleEndianValue
  <2> QED
    BY <1>1, <2>2
<1> DEFINE low == LittleEndian(f, 1, 2)
           high == value \div 256
           carry == high \div 256
<1>3. carry \in Int /\ low \in Int /\ low >= 0 /\ low < 65536 /\ value = 65536 * carry + low
  <2>1. /\ high \in Int /\ value % 256 \in Int /\ value % 256 >= 0 /\ value % 256 < 256
        /\ value = 256 * high + (value % 256)
    OBVIOUS
  <2>2. low = (value % 256) + (high % 256) * 256
    BY <1>2
  <2> HIDE DEF low, high
  <2>3. /\ carry \in Int /\ high % 256 \in Int /\ high % 256 >= 0 /\ high % 256 < 256
        /\ high = 256 * carry + (high % 256)
    BY <2>1
  <2> QED
    BY <2>1, <2>2, <2>3
<1> HIDE DEF low, carry
<1> DEFINE fits == value >= 0 - 32768 /\ value <= 32767
<1>4. value \in Integer16 <=> fits
  BY Integer16Values
<1>5. Signed(low) = value <=> fits
  <2>1. CASE low < 32768
    <3>1. Signed(low) = low
      BY <2>1 DEF Signed
    <3>2. low = value <=> carry = 0
      BY <1>3
    <3>3. fits <=> carry = 0
      BY <1>3, <2>1
    <3> HIDE DEF fits
    <3> QED
      BY <3>1, <3>2, <3>3
  <2>2. CASE ~(low < 32768)
    <3>1. Signed(low) = low - 65536
      BY <2>2 DEF Signed
    <3>2. low - 65536 = value <=> carry = 0 - 1
      BY <1>3
    <3>3. fits <=> carry = 0 - 1
      BY <1>3, <2>2
    <3> HIDE DEF fits
    <3> QED
      BY <3>1, <3>2, <3>3
  <2> QED
    BY <2>1, <2>2
<1> HIDE DEF fits
<1> QED
  BY <1>4, <1>5 DEF low, f

\* The daemon writes an array of one element, whatever the value is: the float of
\* a message, or its integer if that fits into a word.
LEMMA DaemonWritesOneElement ==
  ASSUME DaemonWritten
  PROVE  LET stored == DecodeData(reply)
             held == GetValueAsFloat(stored, 0)
         IN  /\ stored.Varcount = 1 /\ stored.type = item.type
             /\ IF item.type = PLC_FLOATING THEN held = Field(item.value, 4)
                ELSE held = item.value <=> item.value \in Integer16
<1>1. PICK address \in Addresses, type \in {PLC_INTEGER, PLC_FLOATING}, value \in Int :
        /\ item = [address |-> address, type |-> type, value |-> value]
        /\ reply = EncodePLCDataType(type, 1) \o Field(value, GetPLCDataSize(type))
  BY DEF DaemonWritten
<1>2. item.type = type /\ item.value = value
  BY <1>1
<1> DEFINE size == GetPLCDataSize(type)  extra == Extra(type)
           f == Field(value, size)
           d == DecodePLCDataType(reply)
<1>3. /\ type \in Types /\ 1 \in Nat /\ extra \in {1, 2} /\ size \in {2, 4}
      /\ (type = PLC_FLOATING => size = 4) /\ (type # PLC_FLOATING => size = 2)
  <2>1. CASE type = PLC_INTEGER
    BY <2>1, SizeTable DEF Types, Extra, PLC_INTEGER, PLC_BYTE_STRING, PLC_FLOATING
  <2>2. CASE type = PLC_FLOATING
    BY <2>2, SizeTable DEF Types, Extra, PLC_INTEGER, PLC_BYTE_STRING, PLC_FLOATING
  <2> QED
    BY <2>1, <2>2
<1> HIDE DEF size, extra
<1>4. f \in Seq(Byte) /\ Len(f) = size
  <2>1. size \in Nat
    BY <1>3
  <2> QED
    BY <2>1, FieldType
<1> HIDE DEF f
<1>5. reply = EncodePLCDataType(type, 1) \o f
  BY <1>1 DEF f, size
<1>6. /\ d = [type |-> type, esize |-> size, data |-> 4 + extra,
              tsize |-> ((1 * size + extra) % 256) - extra]
      /\ \A i \in 1 .. Len(f) : reply[4 + extra + i - 1] = f[i]
  <2> DEFINE all == EncodePLCDataType(type, 1) \o f
  <2>1. DecodePLCDataType(all)
          = [type |-> type, esize |-> GetPLCDataSize(type), data |-> 4 + Extra(type),
             tsize |-> ((1 * GetPLCDataSize(type) + Extra(type)) % 256) - Extra(type)]
    BY <1>3, <1>4, WriteIsDescribed
  <2>2. \A i \in 1 .. Len(f) : all[4 + Extra(type) + i - 1] = f[i]
    BY <1>3, <1>4, WriteIsDescribed
  <2> HIDE DEF all
  <2> QED
    BY <1>5, <2>1, <2>2 DEF all, size, extra
<1>7. ((1 * size + extra) % 256) - extra = size /\ 4 + extra \in Int
      /\ 4 + extra + size - 1 = (4 + extra) + Len(f) - 1
  <2>1. 1 * size + extra \in 0 .. 255 /\ size \in Int /\ extra \in Int
    BY <1>3
  <2> QED
    BY <1>4, <2>1
<1>8. d.type = type /\ d.esize = size /\ d.data = 4 + extra /\ d.tsize = size
  BY <1>6, <1>7
<1>9. d # Nothing /\ size \div size = 1
  <2>1. type # 0
    BY <1>3 DEF Types, PLC_BYTE_STRING, PLC_FLOATING
  <2>2. d # Nothing
    BY <1>8, <2>1 DEF Nothing
  <2>3. size \div size = 1
    BY <1>3
  <2> QED
    BY <2>2, <2>3
<1>10. SubSeq(reply, 4 + extra, 4 + extra + size - 1) = f
  <2> DEFINE at == 4 + extra  to == 4 + extra + size - 1
  <2>1. to = at + Len(f) - 1 /\ \A i \in 1 .. Len(f) : reply[at + i - 1] = f[i]
    BY <1>6, <1>7
  <2>2. at \in Int
    BY <1>7
  <2> HIDE DEF at, to
  <2>3. \A t, end : /\ t \in Seq(Byte) /\ \A i \in 1 .. Len(t) : reply[at + i - 1] = t[i]
                   /\ end = at + Len(t) - 1
                   => SubSeq(reply, at, end) = t
    BY ONLY <2>2, PartOf
  <2>4. SubSeq(reply, at, to) = f
    BY ONLY <1>4, <2>1, <2>3
  <2> QED
    BY <2>4 DEF at, to
<1> HIDE DEF d
<1> DEFINE stored == DecodeData(reply)  held == GetValueAsFloat(stored, 0)
<1>11. stored = [type |-> type, Varcount |-> 1, elementsize |-> size, data |-> f]
  <2>1. d.esize # 0 /\ ~(d.tsize \div d.esize < 1) /\ d.tsize \div d.esize = 1
    BY <1>3, <1>8, <1>9
  <2>2. stored = [type |-> d.type, Varcount |-> d.tsize \div d.esize, elementsize |-> d.esize,
                  data |-> SubSeq(reply, d.data, d.data + d.tsize - 1)]
    BY <1>9, <2>1 DEF DecodeData, d
  <2> QED
    BY <1>8, <1>9, <1>10, <2>1, <2>2
<1>12. /\ stored.type = type /\ stored.Varcount = 1 /\ stored.elementsize = size
       /\ stored.data = f
  BY <1>11
<1> HIDE DEF stored
<1>13. Element(stored, 0) = 1
  BY <1>3, <1>12 DEF Element
<1>14. CASE type = PLC_FLOATING
  <2>1. held = SubSeq(f, 1, 1 + 3)
    BY <1>12, <1>13, <1>14 DEF GetValueAsFloat, PLC_INTEGER, PLC_FLOATING, PLC_QUEUE_STATUS
  <2>2. size = 4 /\ Len(f) = 4
    BY <1>3, <1>4, <1>14
  <2>3. SubSeq(f, 1, 1 + 3) = f
    BY <1>4, <2>2
  <2>4. held = Field(value, 4)
    BY <2>1, <2>2, <2>3 DEF f
  <2> QED
    BY <1>2, <1>12, <1>14, <2>4 DEF stored
<1>15. CASE type # PLC_FLOATING
  <2>1. type = PLC_INTEGER /\ size = 2
    BY <1>3, <1>15
  <2>2. held = Signed(LittleEndian(f, 1, 2))
    BY <1>12, <1>13, <2>1 DEF GetValueAsFloat, PLC_INTEGER, PLC_FLOATING, PLC_QUEUE_STATUS
  <2>3. f = Field(value, 2)
    BY <2>1 DEF f
  <2>4. Signed(LittleEndian(f, 1, 2)) = value <=> value \in Integer16
    BY <2>3, LowWord
  <2> QED
    BY <1>2, <1>12, <1>15, <2>2, <2>4 DEF stored
<1> QED
  BY <1>14, <1>15

-----------------------------------------------------------------------------
\* The invariant is inductive.

\* The properties of the results say nothing of other states.
LEMMA Elsewhere ==
  /\ pc' # "published" => EveryFormIsPublished'
  /\ pc' # "counted" => CountIsRead'
  /\ pc' \notin {"kept", "skipped"} => RecordIsDelivered'
<1>1. pc' # "published" => EveryFormIsPublished'
  BY DEF EveryFormIsPublished
<1>2. pc' # "counted" => CountIsRead'
  BY DEF CountIsRead
<1>3. pc' \notin {"kept", "skipped"} => RecordIsDelivered'
  BY DEF RecordIsDelivered
<1> QED
  BY <1>1, <1>2, <1>3

\* The invariant holds at first, and each action keeps it.
LEMMA InvInit == Init => Inv
BY DEF Init, Inv, EveryFormIsPublished, CountIsRead, RecordIsDelivered

LEMMA InvAskData ==
  ASSUME Inv, NEW address \in Addresses, AskData(address)
  PROVE  Inv'
<1>1. request'.mask \in Masks
  BY MaskOfAddress DEF AskData, Ask
<1>2. pc' = "asked" /\ Asked'
  BY <1>1 DEF AskData, Ask, Asked
<1> QED
  BY <1>2, Elsewhere DEF Inv

LEMMA InvAskStatus ==
  ASSUME Inv, NEW nro \in Queues, AskStatus(nro)
  PROVE  Inv'
<1>1. pc' = "asked" /\ Asked'
  BY DEF AskStatus, Ask, Asked, StatusRequest
<1> QED
  BY <1>1, Elsewhere DEF Inv

LEMMA InvAskRecord ==
  ASSUME Inv, NEW nro \in Queues, NEW number \in AskedSizes, AskRecord(nro, number)
  PROVE  Inv'
<1>1. pc' = "asked" /\ Asked'
  BY DEF AskRecord, Ask, Asked, RecordRequest
<1> QED
  BY <1>1, Elsewhere DEF Inv

\* The one element of a scalar is a list of words, too.
LEMMA ScalarIsList ==
  ASSUME NEW word \in Words
  PROVE  <<word>> \in WordLists
<1>1. 1 \in 1 .. MaxRead
  BY PcccAssumption
<1>2. <<word>> \in [1 .. 1 -> Words]
  OBVIOUS
<1> QED
  BY <1>1, <1>2 DEF WordLists

\* The mask of a request for data is a bit of its address, or none.
LEMMA MaskOfRequest ==
  ASSUME Inv, pc = "asked", request.reqtype = DATA_REQ
  PROVE  request.mask \in Masks
<1>1. Asked
  BY DEF Inv
<1> QED
  BY <1>1 DEF Asked, StatusRequest, RecordRequest, DATA_REQ, QUEUE_STATUS_REQ, QUEUE_DATA_REQ

LEMMA InvAnswerArray ==
  ASSUME Inv, NEW type \in Types, NEW words \in WordLists, AnswerArray(type, words)
  PROVE  Inv'
<1> DEFINE size == GetPLCDataSize(type)
<1>1. PICK f \in Forms(type, size) :
        LET inner == Described(type, size, f) \o Elements(type, words)
        IN  \E g \in Forms(PLC_ARRAY, Len(inner)) :
              reply' = Described(PLC_ARRAY, Len(inner), g) \o inner
  BY DEF AnswerArray
<1>2. f \in [type : Widths, size : Widths]
  BY DEF Forms, Widths
<1>3. pc' = "answered" /\ request' = request /\ request.reqtype = DATA_REQ
      /\ item' = [type |-> type, words |-> words, array |-> TRUE]
  BY DEF AnswerArray, Answer
<1>4. DataAnswered'
  <2> DEFINE inner == Described(type, size, f) \o Elements(type, words)
  <2>1. \E g \in Forms(PLC_ARRAY, Len(inner)) : reply' = Described(PLC_ARRAY, Len(inner), g) \o inner
    BY <1>1
  <2>2. TRUE \in BOOLEAN
    OBVIOUS
  <2>3. request'.mask \in Masks
    BY <1>3, MaskOfRequest DEF AnswerArray, Answer
  <2> QED
    BY <1>2, <1>3, <2>1, <2>2, <2>3 DEF DataAnswered
<1> QED
  BY <1>3, <1>4, Elsewhere DEF Inv, Answered

LEMMA InvAnswerScalar ==
  ASSUME Inv, NEW type \in Types, NEW word \in Words, AnswerScalar(type, word)
  PROVE  Inv'
<1> DEFINE size == GetPLCDataSize(type)
           words == <<word>>
<1>1. PICK f \in Forms(type, size) : reply' = Described(type, size, f) \o Elements(type, words)
  BY DEF AnswerScalar
<1>2. f \in [type : Widths, size : Widths]
  BY DEF Forms, Widths
<1>3. pc' = "answered" /\ request' = request /\ request.reqtype = DATA_REQ
      /\ item' = [type |-> type, words |-> words, array |-> FALSE]
  BY DEF AnswerScalar, Answer
<1>4. words \in WordLists
  BY ScalarIsList
<1> HIDE DEF words
<1>5. request'.mask \in Masks
  BY <1>3, MaskOfRequest DEF AnswerScalar, Answer
<1>6. DataAnswered'
  BY <1>1, <1>2, <1>3, <1>4, <1>5 DEF DataAnswered
<1> QED
  BY <1>3, <1>6, Elsewhere DEF Inv, Answered

LEMMA InvAnswerStatus ==
  ASSUME Inv, NEW count \in Words, AnswerStatus(count)
  PROVE  Inv'
<1>1. /\ pc = "asked" /\ request.reqtype = QUEUE_STATUS_REQ
      /\ pc' = "answered" /\ request' = request
  BY DEF AnswerStatus, Answer
<1>2. PICK nro \in Queues : item = [nro |-> nro] /\ request = StatusRequest(nro)
  BY <1>1 DEF Inv, Asked, RecordRequest, DATA_REQ, QUEUE_STATUS_REQ, QUEUE_DATA_REQ
<1>3. item.nro = nro /\ request.address = StatusAddress(nro)
  BY <1>2 DEF StatusRequest
<1>4. StatusAnswered'
  BY <1>1, <1>2, <1>3 DEF AnswerStatus, StatusAnswered
<1> QED
  BY <1>1, <1>4, Elsewhere DEF Inv, Answered

LEMMA InvAnswerRecord ==
  ASSUME Inv, NEW size \in RecordSizes, AnswerRecord(size)
  PROVE  Inv'
<1>1. /\ pc = "asked" /\ request.reqtype = QUEUE_DATA_REQ
      /\ pc' = "answered" /\ request' = request
  BY DEF AnswerRecord, Answer
<1>2. PICK nro \in Queues, number \in AskedSizes :
        item = [nro |-> nro, number |-> number] /\ request = RecordRequest(nro, number)
  BY <1>1 DEF Inv, Asked, StatusRequest, DATA_REQ, QUEUE_STATUS_REQ, QUEUE_DATA_REQ
<1>3. item.nro = nro /\ item.number = number /\ request.address = RecordAddress(nro, number)
  BY <1>2 DEF RecordRequest
<1>4. RecordAnswered'
  BY <1>1, <1>2, <1>3 DEF AnswerRecord, RecordAnswered
<1> QED
  BY <1>1, <1>4, Elsewhere DEF Inv, Answered

LEMMA InvReadPLCData ==
  ASSUME Inv, ReadPLCData
  PROVE  Inv'
<1>1. pc' = "read" /\ UNCHANGED <<item, request, reply, sts>>
  BY DEF ReadPLCData
<1>2. Answered
  BY DEF Inv, ReadPLCData
<1>3. Answered'
  <2>1. CASE DataAnswered
    BY <1>1, <2>1, SMTT(60) DEF Answered, DataAnswered
  <2>2. CASE StatusAnswered
    BY <1>1, <2>2 DEF Answered, StatusAnswered
  <2>3. CASE RecordAnswered
    BY <1>1, <2>3 DEF Answered, RecordAnswered
  <2> QED
    BY <1>2, <2>1, <2>2, <2>3 DEF Answered
<1>4. Decoded'
  BY <1>1 DEF ReadPLCData, Decoded
<1> QED
  BY <1>1, <1>3, <1>4, Elsewhere DEF Inv

\* Of the three kinds of answers, what was read tells which it is.
LEMMA KindOfResult ==
  ASSUME Answered, Decoded, result # Nothing
  PROVE  /\ DataAnswered => result.type \in Types
         /\ StatusAnswered => result.type = PLC_QUEUE_STATUS
         /\ RecordAnswered => result.type = PLC_QUEUE_DATA
<1>1. ASSUME DataAnswered PROVE result.type \in Types
  BY <1>1, DataIsRead
<1>2. ASSUME StatusAnswered PROVE result.type = PLC_QUEUE_STATUS
  BY <1>2, StatusIsRead
<1>3. ASSUME RecordAnswered PROVE result.type = PLC_QUEUE_DATA
  BY <1>3, RecordIsRead
<1> QED
  BY <1>1, <1>2, <1>3

LEMMA InvPublish ==
  ASSUME Inv, Publish
  PROVE  Inv'
<1>1. /\ pc = "read" /\ result # Nothing
      /\ result.type \notin {PLC_QUEUE_STATUS, PLC_QUEUE_DATA}
      /\ result' = [i \in 1 .. result.Varcount |-> GetValueAsFloat(result, i - 1)]
      /\ pc' = "published" /\ item' = item
  BY DEF Publish
<1>2. Answered /\ Decoded
  BY <1>1 DEF Inv
<1>3. DataAnswered
  BY <1>1, <1>2, KindOfResult DEF Answered
<1> DEFINE type == item.type  words == item.words  size == GetPLCDataSize(type)
<1>4. /\ type \in Types /\ words \in WordLists
      /\ result = [type |-> type, Varcount |-> Len(words), elementsize |-> size,
                   data |-> Elements(type, words), mask |-> request.mask]
  BY <1>1, <1>2, <1>3, DataIsRead
<1>5. /\ result.type = type /\ result.Varcount = Len(words) /\ result.elementsize = size
      /\ result.data = Elements(type, words)
  BY <1>4
<1>6. words \in Seq(Nat) /\ words \in Seq(Word16) /\ Len(words) \in Nat
  BY <1>4, WordListsTyped
<1> HIDE DEF type, words
<1>7. ASSUME NEW i \in 1 .. Len(words)
      PROVE  GetValueAsFloat(result, i - 1) = Value(type, words[i])
  <2> DEFINE index == i - 1
  <2>1. index \in Nat /\ index + 1 = i
    BY <1>6
  <2> HIDE DEF index
  <2>2. index + 1 \in 1 .. Len(words)
    BY <2>1
  <2>3. GetValueAsFloat(result, index) = Value(type, words[index + 1])
    BY <1>4, <1>5, <1>6, <2>1, <2>2, ElementValue
  <2> QED
    BY <2>1, <2>3 DEF index
<1>8. result' = [i \in 1 .. Len(words) |-> Value(type, words[i])]
  <2>1. [i \in 1 .. Len(words) |-> GetValueAsFloat(result, i - 1)]
          = [i \in 1 .. Len(words) |-> Value(type, words[i])]
    BY <1>7
  <2> QED
    BY <1>1, <1>5, <2>1
<1>9. EveryFormIsPublished'
  BY <1>1, <1>8 DEF EveryFormIsPublished, type, words
<1> QED
  BY <1>1, <1>9, Elsewhere DEF Inv

\* What the daemon keeps of the number of records.
LEMMA KeptCount ==
  ASSUME NEW count \in Word16, NEW kept \in Unsigned(Signed(count))
  PROVE  IF count < 32768 THEN kept = count ELSE kept \in {count, 0}
<1>1. count \in Nat /\ count < 65536
  BY Word16Values
<1>2. CASE count < 32768
  <2>1. Signed(count) = count /\ count >= 0
    BY <1>1, <1>2 DEF Signed
  <2> QED
    BY <1>2, <2>1 DEF Unsigned
<1>3. CASE ~(count < 32768)
  <2> DEFINE value == count - 65536
  <2>1. Signed(count) = value
    BY <1>3 DEF Signed
  <2>2. ~(value >= 0) /\ value % 65536 = count
    BY <1>1
  <2> HIDE DEF value
  <2> QED
    BY <1>3, <2>1, <2>2 DEF Unsigned
<1> QED
  BY <1>2, <1>3

LEMMA InvPublishStatus ==
  ASSUME Inv, PublishStatus
  PROVE  Inv'
<1>1. /\ pc = "read" /\ result # Nothing /\ result.type = PLC_QUEUE_STATUS
      /\ pc' = "counted" /\ item' = item
  BY DEF PublishStatus
<1>2. PICK kept \in Unsigned(GetValueAsFloat(result, 2)) :
        result' = [records_to_read |-> kept, shared |-> GetValueAsFloat(result, 2)]
  BY DEF PublishStatus
<1>3. Answered /\ Decoded
  BY <1>1 DEF Inv
<1>4. StatusAnswered
  <2>1. PLC_QUEUE_STATUS \notin Types /\ PLC_QUEUE_STATUS # PLC_QUEUE_DATA
    BY DEF Types, PLC_BYTE_STRING, PLC_FLOATING, PLC_QUEUE_STATUS, PLC_QUEUE_DATA
  <2> QED
    BY <1>1, <1>3, <2>1, KindOfResult DEF Answered
<1>5. /\ item.count \in Word16 /\ item.queue = item.nro
      /\ GetValueAsFloat(result, 2) = Signed(item.count)
  BY <1>1, <1>3, <1>4, StatusIsRead
<1>6. IF item.count < 32768 THEN kept = item.count ELSE kept \in {item.count, 0}
  BY <1>2, <1>5, KeptCount
<1>7. result'.records_to_read = kept /\ result'.shared = Signed(item.count)
  BY <1>2, <1>5
<1>8. CountIsRead'
  BY <1>1, <1>5, <1>6, <1>7 DEF CountIsRead
<1> QED
  BY <1>1, <1>8, Elsewhere DEF Inv

LEMMA RecordIsAnswered ==
  ASSUME Inv, pc = "read", result # Nothing, result.type = PLC_QUEUE_DATA
  PROVE  RecordAnswered /\ Decoded
<1>1. Answered /\ Decoded
  BY DEF Inv
<1>2. PLC_QUEUE_DATA \notin Types /\ PLC_QUEUE_STATUS # PLC_QUEUE_DATA
  BY DEF Types, PLC_BYTE_STRING, PLC_FLOATING, PLC_QUEUE_STATUS, PLC_QUEUE_DATA
<1> QED
  BY <1>1, <1>2, KindOfResult DEF Answered

LEMMA InvKeepRecord ==
  ASSUME Inv, KeepRecord
  PROVE  Inv'
<1>1. /\ pc = "read" /\ result # Nothing /\ result.type = PLC_QUEUE_DATA
      /\ result.Varcount > 0
      /\ result' = result.data /\ pc' = "kept" /\ item' = item
  BY DEF KeepRecord
<1>2. RecordAnswered /\ Decoded
  BY <1>1, RecordIsAnswered
<1>3. /\ item.queue = item.nro
      /\ item.number # 0
      /\ Len(result.data) = IF item.number < 109 THEN item.number ELSE 109
      /\ \A i \in DOMAIN result.data : result.data[i] = Unspecified <=> i > item.size
  BY <1>1, <1>2, RecordIsRead
<1>4. RecordIsDelivered'
  BY <1>1, <1>3 DEF RecordIsDelivered
<1> QED
  BY <1>1, <1>4, Elsewhere DEF Inv

LEMMA InvSkipRecord ==
  ASSUME Inv, SkipRecord
  PROVE  Inv'
<1>1. /\ pc = "read" /\ result # Nothing /\ result.type = PLC_QUEUE_DATA
      /\ result.Varcount = 0 /\ pc' = "skipped" /\ item' = item
  BY DEF SkipRecord
<1>2. RecordAnswered /\ Decoded
  BY <1>1, RecordIsAnswered
<1>3. item.number = 0
  BY <1>1, <1>2, RecordIsRead
<1>4. RecordIsDelivered'
  BY <1>1, <1>3 DEF RecordIsDelivered
<1> QED
  BY <1>1, <1>4, Elsewhere DEF Inv

LEMMA InvBuildPLCWriteDataRequest ==
  ASSUME Inv, NEW type \in Types, NEW n \in WriteCounts, NEW word \in Words,
         BuildPLCWriteDataRequest(type, [i \in 1 .. n |-> word])
  PROVE  Inv'
<1> DEFINE words == [i \in 1 .. n |-> word]
<1>1. n \in Nat
  BY PcccAssumption
<1>2. words \in Seq(Words)
  BY <1>1
<1> HIDE DEF words
<1>3. pc' = "sent" /\ Written'
  <2>1. /\ pc' = "sent"
        /\ item' = [type |-> type, words |-> words]
        /\ reply' = EncodePLCDataType(type, Len(words)) \o Elements(type, words)
    BY DEF BuildPLCWriteDataRequest, words
  <2> QED
    BY <1>2, <2>1 DEF Written
<1> QED
  BY <1>3, Elsewhere DEF Inv

LEMMA InvWriteTuxEip ==
  ASSUME Inv, NEW address \in Addresses, NEW type \in {PLC_INTEGER, PLC_FLOATING},
         NEW value \in Int, WriteTuxEip(address, type, value)
  PROVE  Inv'
<1>1. pc' = "daemonSent" /\ DaemonWritten'
  BY DEF WriteTuxEip, DaemonWritten
<1> QED
  BY <1>1, Elsewhere DEF Inv

LEMMA InvWritePLCData ==
  ASSUME Inv, WritePLCData
  PROVE  Inv'
<1>1. pc' = (IF pc = "sent" THEN "written" ELSE "daemonWritten")
      /\ item' = item /\ reply' = reply /\ (pc = "sent" \/ pc = "daemonSent")
  BY DEF WritePLCData
<1>2. pc' = "daemonWritten" => DaemonWritten'
  <2>1. ASSUME pc' = "daemonWritten" PROVE DaemonWritten
    BY <1>1, <2>1 DEF Inv
  <2> QED
    BY <1>1, <2>1 DEF DaemonWritten
<1>3. pc' \in {"written", "daemonWritten"}
  BY <1>1
<1> QED
  BY <1>2, <1>3, Elsewhere DEF Inv

LEMMA InvReportWrite ==
  ASSUME Inv, ReportWrite
  PROVE  Inv'
<1>1. pc = "daemonWritten" /\ pc' = "reported" /\ item' = item /\ reply' = reply
  BY DEF ReportWrite
<1>2. DaemonWritten
  BY <1>1 DEF Inv
<1>3. DaemonWritten'
  BY <1>1, <1>2 DEF DaemonWritten
<1>4. result'.ret = 0 <=> result'.answered
  <2>1. result' = [answered |-> result # Error, ret |-> Reported(result)]
    BY DEF ReportWrite
  <2>2. result'.answered = (result # Error) /\ result'.ret = Reported(result)
    BY <2>1
  <2>3. Reported(result) = 0 <=> result # Error
    BY DEF Reported
  <2> QED
    BY <2>2, <2>3
<1> QED
  BY <1>1, <1>3, <1>4, Elsewhere DEF Inv

LEMMA InvUnchanged ==
  ASSUME Inv, UNCHANGED vars
  PROVE  Inv'
<1>1. /\ pc' = pc /\ item' = item /\ request' = request /\ reply' = reply
      /\ sts' = sts /\ result' = result
  BY DEF vars
<1>2. (Asked' <=> Asked) /\ (Answered' <=> Answered) /\ (Decoded' <=> Decoded)
  <2>1. Asked' <=> Asked
    BY <1>1 DEF Asked
  <2>2. DataAnswered' <=> DataAnswered
    BY <1>1 DEF DataAnswered
  <2>3. StatusAnswered' <=> StatusAnswered
    BY <1>1 DEF StatusAnswered
  <2>4. RecordAnswered' <=> RecordAnswered
    BY <1>1 DEF RecordAnswered
  <2>5. Decoded' <=> Decoded
    BY <1>1 DEF Decoded
  <2> QED
    BY <2>1, <2>2, <2>3, <2>4, <2>5 DEF Answered
<1>3. (Written' <=> Written) /\ (DaemonWritten' <=> DaemonWritten)
  <2>1. Written' <=> Written
    BY <1>1 DEF Written
  <2>2. DaemonWritten' <=> DaemonWritten
    BY <1>1 DEF DaemonWritten
  <2> QED
    BY <2>1, <2>2
<1>4. /\ EveryFormIsPublished' <=> EveryFormIsPublished
      /\ CountIsRead' <=> CountIsRead
      /\ RecordIsDelivered' <=> RecordIsDelivered
  <2>1. EveryFormIsPublished' <=> EveryFormIsPublished
    BY <1>1 DEF EveryFormIsPublished
  <2>2. CountIsRead' <=> CountIsRead
    BY <1>1 DEF CountIsRead
  <2>3. RecordIsDelivered' <=> RecordIsDelivered
    BY <1>1 DEF RecordIsDelivered
  <2> QED
    BY <2>1, <2>2, <2>3
<1> QED
  BY <1>1, <1>2, <1>3, <1>4 DEF Inv

LEMMA InvStep == Inv /\ [Next]_vars => Inv'
<1> SUFFICES ASSUME Inv, [Next]_vars
             PROVE  Inv'
  OBVIOUS
<1>1. ASSUME NEW address \in Addresses, AskData(address) PROVE Inv'
  BY <1>1, InvAskData
<1>2. ASSUME NEW nro \in Queues, AskStatus(nro) PROVE Inv'
  BY <1>2, InvAskStatus
<1>3. ASSUME NEW nro \in Queues, NEW number \in AskedSizes, AskRecord(nro, number) PROVE Inv'
  BY <1>3, InvAskRecord
<1>4. ASSUME NEW type \in Types, NEW words \in WordLists, AnswerArray(type, words) PROVE Inv'
  BY <1>4, InvAnswerArray
<1>5. ASSUME NEW type \in Types, NEW word \in Words, AnswerScalar(type, word) PROVE Inv'
  BY <1>5, InvAnswerScalar
<1>6. ASSUME NEW type \in Types, NEW n \in WriteCounts, NEW word \in Words,
             BuildPLCWriteDataRequest(type, [i \in 1 .. n |-> word])
      PROVE  Inv'
  BY <1>6, InvBuildPLCWriteDataRequest
<1>7. ASSUME NEW count \in Words, AnswerStatus(count) PROVE Inv'
  BY <1>7, InvAnswerStatus
<1>8. ASSUME NEW size \in RecordSizes, AnswerRecord(size) PROVE Inv'
  BY <1>8, InvAnswerRecord
<1>9. ASSUME NEW address \in Addresses, NEW value \in SentValues,
             WriteTuxEip(address, PLC_INTEGER, value)
      PROVE  Inv'
  <2>1. value \in Int /\ PLC_INTEGER \in {PLC_INTEGER, PLC_FLOATING}
    BY PcccAssumption
  <2> QED
    BY <1>9, <2>1, InvWriteTuxEip
<1>10. ASSUME NEW address \in Addresses, NEW word \in Words,
              WriteTuxEip(address, PLC_FLOATING, word)
       PROVE  Inv'
  <2>1. word \in Int /\ PLC_FLOATING \in {PLC_INTEGER, PLC_FLOATING}
    BY PcccAssumption, Word16Values
  <2> QED
    BY <1>10, <2>1, InvWriteTuxEip
<1>11. CASE ReadPLCData
  BY <1>11, InvReadPLCData
<1>12. CASE Publish
  BY <1>12, InvPublish
<1>13. CASE PublishStatus
  BY <1>13, InvPublishStatus
<1>14. CASE KeepRecord
  BY <1>14, InvKeepRecord
<1>15. CASE SkipRecord
  BY <1>15, InvSkipRecord
<1>16. CASE WritePLCData
  BY <1>16, InvWritePLCData
<1>17. CASE ReportWrite
  BY <1>17, InvReportWrite
<1>18. CASE UNCHANGED vars
  BY <1>18, InvUnchanged
<1> QED
  BY <1>1, <1>2, <1>3, <1>4, <1>5, <1>6, <1>7, <1>8, <1>9, <1>10, <1>11, <1>12,
     <1>13, <1>14, <1>15, <1>16, <1>17, <1>18 DEF Next

LEMMA InvAlways == Spec => []Inv
BY InvInit, InvStep, PTL DEF Spec

-----------------------------------------------------------------------------
\* The properties.

\* The daemon publishes all elements of an array, each with its value, for any
\* words and any number of them, in every form the PLC may describe them in
\* (DecodePLCDataType, _GetPLCDataAsFloat, readTuxEip).
THEOREM EveryFormIsPublishedAlways == Spec => []EveryFormIsPublished
<1>1. Inv => EveryFormIsPublished
  BY DEF Inv
<1> QED
  BY <1>1, InvAlways, PTL

\* A read of data returns something exactly for an array that was not refused
\* (DecodePLCDataType, _ReadPLCData_Ex).
THEOREM OnlyArraysAreReadAlways == Spec => []OnlyArraysAreRead
<1>1. Inv => OnlyArraysAreRead
  <2> SUFFICES ASSUME Inv, pc = "read", request.reqtype = DATA_REQ
               PROVE  result # Nothing <=> sts = 0 /\ item.array
    BY DEF OnlyArraysAreRead
  <2>1. Answered /\ Decoded
    BY DEF Inv
  <2>2. ASSUME StatusAnswered PROVE FALSE
    <3>1. request.reqtype = QUEUE_STATUS_REQ
      BY <2>2 DEF StatusAnswered, StatusRequest
    <3> QED
      BY <3>1 DEF DATA_REQ, QUEUE_STATUS_REQ
  <2>3. ASSUME RecordAnswered PROVE FALSE
    <3>1. request.reqtype = QUEUE_DATA_REQ
      BY <2>3 DEF RecordAnswered, RecordRequest
    <3> QED
      BY <3>1 DEF DATA_REQ, QUEUE_DATA_REQ
  <2>4. DataAnswered
    BY <2>1, <2>2, <2>3 DEF Answered
  <2>5. /\ item.type \in Types /\ item.array \in BOOLEAN
        /\ result = IF sts = 0 /\ item.array
                    THEN [type |-> item.type, Varcount |-> Len(item.words),
                          elementsize |-> GetPLCDataSize(item.type),
                          data |-> Elements(item.type, item.words), mask |-> request.mask]
                    ELSE Nothing
    BY <2>1, <2>4, DataIsRead
  <2>6. CASE sts = 0 /\ item.array
    <3>1. result.type = item.type
      BY <2>5, <2>6
    <3>2. item.type # 0
      BY <2>5, SizeOfType
    <3>3. result # Nothing
      BY <3>1, <3>2 DEF Nothing
    <3> QED
      BY <2>6, <3>3
  <2>7. CASE ~(sts = 0 /\ item.array)
    BY <2>5, <2>7
  <2> QED
    BY <2>6, <2>7
<1> QED
  BY <1>1, InvAlways, PTL

\* No division by zero.
LEMMA PowersOfTwo == \A b \in 0 .. 15 : TwoTo[b + 1] \in Nat \ {0}
<1> SUFFICES ASSUME NEW b \in 0 .. 15
             PROVE  TwoTo[b + 1] \in Nat \ {0}
  OBVIOUS
<1>1. TwoTo \in [1 .. 16 -> Nat \ {0}]
  BY DEF TwoTo
<1> QED
  BY <1>1

\* Through an address with a bit, that bit of a word is read, for every word up
\* to 32767 and every address of a bit (_GetPLCValueAsBoolean).
THEOREM BitIsReadAlways == Spec => []BitIsRead
<1>1. Inv => BitIsRead
  <2> SUFFICES ASSUME Inv, pc = "read", request.mask # None, result # Nothing,
                      item.type = PLC_INTEGER, NEW i \in 1 .. Len(item.words)
               PROVE  LET read == GetValueAsBoolean(result, i - 1)
                      IN  IF item.words[i] < 32768
                          THEN read = {IF request.mask < 16
                                       THEN BitOf(item.words[i], request.mask) ELSE 0}
                          ELSE read \subseteq {0, 1}
    BY DEF BitIsRead
  <2> DEFINE word == item.words[i]
             mask == request.mask
             bit == IF mask < 16 THEN mask ELSE 15
             at == Element(result, i - 1)
             value == Signed(LittleEndian(result.data, at, 2))
  <2>1. Answered /\ Decoded
    BY DEF Inv
  <2>2. DataAnswered
    BY <2>1 DEF Answered, StatusAnswered, RecordAnswered, StatusRequest, RecordRequest
  <2>3. /\ item.type \in Types /\ item.words \in WordLists
        /\ result = [type |-> item.type, Varcount |-> Len(item.words),
                     elementsize |-> GetPLCDataSize(item.type),
                     data |-> Elements(item.type, item.words), mask |-> request.mask]
    BY <2>1, <2>2, DataIsRead
  <2>4. /\ item.words \in Seq(Nat) /\ item.words \in Seq(Word16) /\ Len(item.words) \in Nat
    BY <2>3, WordListsTyped
  <2>5. mask \in 0 .. 31 /\ bit \in 0 .. 15
    <3>1. request.mask \in Masks
      BY <2>2 DEF DataAnswered
    <3>2. mask \in 0 .. 31
      BY <3>1 DEF Masks
    <3> HIDE DEF mask
    <3> QED
      BY <3>2
  <2>6. word \in Word16
    BY <2>4
  <2>7. value = Signed(word)
    <3> DEFINE index == i - 1
    <3>1. index \in Nat /\ index + 1 = i /\ index + 1 \in 1 .. Len(item.words)
      BY <2>4
    <3>2. /\ result.type = item.type /\ result.elementsize = GetPLCDataSize(item.type)
          /\ result.data = Elements(item.type, item.words)
      BY <2>3
    <3> HIDE DEF index
    <3>3. GetValueAsFloat(result, index) = Value(item.type, item.words[index + 1])
      BY <2>3, <2>4, <3>1, <3>2, ElementValue
    <3>4. GetValueAsFloat(result, index) = Signed(LittleEndian(result.data, Element(result, index), 2))
      BY <3>2 DEF GetValueAsFloat, PLC_INTEGER, PLC_FLOATING
    <3>5. Value(item.type, item.words[index + 1]) = Signed(item.words[index + 1])
      BY DEF Value, PLC_INTEGER, PLC_FLOATING
    <3> QED
      BY <3>1, <3>3, <3>4, <3>5 DEF index
  <2>8. GetValueAsBoolean(result, i - 1) = {BitOf(v, bit) : v \in Unsigned(value)}
    <3>1. /\ result.type = PLC_INTEGER /\ result.type # PLC_FLOATING
          /\ result.mask = mask /\ mask # None
      BY <2>3 DEF PLC_INTEGER, PLC_FLOATING
    <3> QED
      BY <3>1 DEF GetValueAsBoolean
  <2>9. word \in Nat /\ word < 65536
    BY <2>6, Word16Values
  <2> HIDE DEF word, mask, value
  <2>10. CASE word < 32768
    <3>1. Unsigned(value) = {word}
      BY <2>7, <2>9, <2>10 DEF Signed, Unsigned
    <3>2. GetValueAsBoolean(result, i - 1) = {BitOf(word, bit)}
      BY <2>8, <3>1
    <3>3. BitOf(word, 15) = 0
      <4>1. TwoTo[15 + 1] = 32768
        BY DEF TwoTo
      <4>2. word \div 32768 = 0
        BY <2>9, <2>10
      <4> QED
        BY <4>1, <4>2 DEF BitOf
    <3>4. GetValueAsBoolean(result, i - 1) = {IF mask < 16 THEN BitOf(word, mask) ELSE 0}
      BY <3>2, <3>3
    <3> QED
      BY <2>10, <3>4 DEF word, mask
  <2>11. CASE ~(word < 32768)
    <3>1. \A v \in Int : BitOf(v, bit) \in {0, 1}
      <4> TAKE v \in Int
      <4>1. TwoTo[bit + 1] \in Nat \ {0}
        BY <2>5, PowersOfTwo
      <4>2. v \div TwoTo[bit + 1] \in Int
        <5> DEFINE d == TwoTo[bit + 1]
        <5> HIDE DEF d
        <5>1. d \in Nat \ {0} => v \div d \in Int
          OBVIOUS
        <5> QED
          BY <4>1, <5>1 DEF d
      <4>3. \A n \in Int : n % 2 \in {0, 1}
        OBVIOUS
      <4> QED
        BY <4>2, <4>3 DEF BitOf
    <3>2. Unsigned(value) \subseteq Int
      <4>1. value \in Int
        BY <2>7, <2>9 DEF Signed
      <4>2. value % 65536 \in Int
        BY <4>1
      <4> QED
        BY <4>1, <4>2 DEF Unsigned
    <3>3. GetValueAsBoolean(result, i - 1) \subseteq {0, 1}
      BY <2>8, <3>1, <3>2
    <3> QED
      BY <2>11, <3>3 DEF word
  <2> QED
    BY <2>10, <2>11
<1> QED
  BY <1>1, InvAlways, PTL

\* The daemon goes by the number of records of the queue in the cell's name,
\* for every queue and every number (_BuildLogicalBinaryAddress, readTuxEip).
THEOREM CountIsReadAlways == Spec => []CountIsRead
<1>1. Inv => CountIsRead
  BY DEF Inv
<1> QED
  BY <1>1, InvAlways, PTL

\* A record has the length that was configured, up to 109 bytes, of which those
\* behind the end of the PLC's are unspecified, for every size
\* (_BuildLogicalBinaryAddress, DecodePCCC).
THEOREM RecordIsDeliveredAlways == Spec => []RecordIsDelivered
<1>1. Inv => RecordIsDelivered
  BY DEF Inv
<1> QED
  BY <1>1, InvAlways, PTL

\* A write announces the elements that follow if and only if they fit into the
\* byte of the size, for any number of elements of any type
\* (EncodePLCDataType, _BuildPLCWriteDataRequest).
THEOREM WriteAnnouncesItsDataAlways == Spec => []WriteAnnouncesItsData
<1>1. Inv => WriteAnnouncesItsData
  <2> SUFFICES ASSUME Inv, pc = "sent"
               PROVE  WriteAnnouncesItsData
    BY DEF WriteAnnouncesItsData
  <2>1. Written
    BY DEF Inv
  <2> QED
    BY <2>1, WrittenIsAnnounced DEF WriteAnnouncesItsData
<1> QED
  BY <1>1, InvAlways, PTL

\* The daemon reports a write as done exactly when it was answered, and the PLC
\* holds one element with the float of the message, or with its integer if and
\* only if that fits into a word, for every float and integer (_WritePLCData,
\* writeTuxEip).
THEOREM WriteIsReportedAlways == Spec => []WriteIsReported
<1>1. Inv => WriteIsReported
  <2> SUFFICES ASSUME Inv, pc = "reported"
               PROVE  WriteIsReported
    BY DEF WriteIsReported
  <2>1. DaemonWritten /\ (result.ret = 0 <=> result.answered)
    BY DEF Inv
  <2> QED
    BY <2>1, DaemonWritesOneElement DEF WriteIsReported
<1> QED
  BY <1>1, InvAlways, PTL

-----------------------------------------------------------------------------
\* Addresses.

\* From its first byte to the one before the next, a level has its number.
HasLevel(bytes, from, next, level) ==
  /\ from \in 1 .. Len(bytes)
  /\ next <= Len(bytes) + 1
  /\ IF bytes[from] = 255 THEN next = from + 3 /\ LittleEndian(bytes, from + 1, 2) = level
                          ELSE next = from + 1 /\ bytes[from] = level

\* Bytes are levels, one behind the other.
Coded(bytes, levels) ==
  /\ bytes \in Seq(Nat) /\ levels \in Seq(Nat)
  /\ Len(bytes) <= 3 * Len(levels)
  /\ \E at \in [1 .. Len(levels) + 1 -> Nat] :
       /\ at[1] = 1 /\ at[Len(levels) + 1] = Len(bytes) + 1
       /\ \A k \in 1 .. Len(levels) : HasLevel(bytes, at[k], at[k + 1], levels[k])

LEMMA BehindByte ==
  ASSUME NEW bytes \in Seq(Nat), NEW head \in Nat
  PROVE  /\ <<head>> \o bytes \in Seq(Nat) /\ Len(<<head>> \o bytes) = Len(bytes) + 1
         /\ (<<head>> \o bytes)[1] = head
         /\ \A i \in 1 .. Len(bytes) : (<<head>> \o bytes)[i + 1] = bytes[i]
OBVIOUS

LEMMA TwoBytes ==
  ASSUME NEW bytes, NEW at \in Nat, bytes[at] \in Nat, bytes[at + 1] \in Nat
  PROVE  LittleEndian(bytes, at, 2) = bytes[at] + bytes[at + 1] * 256
BY PlaceValues DEF LittleEndian

\* A level stays where it is when more bytes follow, and a byte before it moves it.
LEMMA HasLevelStill ==
  ASSUME NEW bytes \in Seq(Nat), NEW more \in Seq(Nat), NEW from, NEW next, NEW level,
         HasLevel(bytes, from, next, level)
  PROVE  HasLevel(bytes \o more, from, next, level)
<1> DEFINE all == bytes \o more
<1>1. /\ all \in Seq(Nat) /\ Len(all) = Len(bytes) + Len(more)
      /\ \A i \in 1 .. Len(bytes) : all[i] = bytes[i] /\ bytes[i] \in Nat
      /\ Len(bytes) \in Nat /\ Len(more) \in Nat
  OBVIOUS
<1>2. from \in 1 .. Len(bytes) /\ next <= Len(bytes) + 1
  BY DEF HasLevel
<1>3. all[from] = bytes[from] /\ from \in 1 .. Len(all) /\ next <= Len(all) + 1
  <2> HIDE DEF all
  <2>1. next \in Int
    BY <1>2 DEF HasLevel
  <2> QED
    BY <1>1, <1>2, <2>1
<1>4. CASE bytes[from] = 255
  <2>1. next = from + 3 /\ LittleEndian(bytes, from + 1, 2) = level
    BY <1>4 DEF HasLevel
  <2>2. from + 1 \in 1 .. Len(bytes) /\ (from + 1) + 1 \in 1 .. Len(bytes)
    BY <1>1, <1>2, <2>1
  <2>3. LittleEndian(all, from + 1, 2) = LittleEndian(bytes, from + 1, 2)
    <3> HIDE DEF all
    <3>1. /\ all[from + 1] = bytes[from + 1] /\ bytes[from + 1] \in Nat
          /\ all[(from + 1) + 1] = bytes[(from + 1) + 1] /\ bytes[(from + 1) + 1] \in Nat
      BY <1>1, <2>2, Zenon
    <3> DEFINE i == from + 1
    <3>2. i \in Nat
      BY <1>2
    <3> HIDE DEF i
    <3>3. /\ all[i] = bytes[i] /\ bytes[i] \in Nat
          /\ all[i + 1] = bytes[i + 1] /\ bytes[i + 1] \in Nat
      BY <3>1, Zenon DEF i
    <3>4. LittleEndian(bytes, i, 2) = bytes[i] + bytes[i + 1] * 256
      BY <3>2, <3>3, TwoBytes, SMTT(60)
    <3>5. LittleEndian(all, i, 2) = all[i] + all[i + 1] * 256
      <4>1. all[i] \in Nat /\ all[i + 1] \in Nat
        BY <3>3, Zenon
      <4> QED
        BY <3>2, <4>1, TwoBytes, SMTT(60)
    <3>6. LittleEndian(all, i, 2) = LittleEndian(bytes, i, 2)
      BY <3>3, <3>4, <3>5, Zenon
    <3> QED
      BY <3>6 DEF i
  <2> QED
    BY <1>3, <1>4, <2>1, <2>3 DEF HasLevel
<1>5. CASE bytes[from] # 255
  BY <1>3, <1>5 DEF HasLevel
<1> QED
  BY <1>4, <1>5

LEMMA HasLevelMoved ==
  ASSUME NEW bytes \in Seq(Nat), NEW head \in Nat, NEW from, NEW next, NEW level,
         HasLevel(bytes, from, next, level)
  PROVE  HasLevel(<<head>> \o bytes, from + 1, next + 1, level)
<1> DEFINE all == <<head>> \o bytes
<1>1. /\ all \in Seq(Nat) /\ Len(all) = Len(bytes) + 1
      /\ \A i \in 1 .. Len(bytes) : all[i + 1] = bytes[i] /\ bytes[i] \in Nat
      /\ Len(bytes) \in Nat
  OBVIOUS
<1>2. from \in 1 .. Len(bytes) /\ next <= Len(bytes) + 1 /\ next \in Int
  BY DEF HasLevel
<1>3. all[from + 1] = bytes[from] /\ from + 1 \in 1 .. Len(all) /\ next + 1 <= Len(all) + 1
  <2> HIDE DEF all
  <2> QED
    BY <1>1, <1>2
<1>4. CASE bytes[from] = 255
  <2>1. next = from + 3 /\ LittleEndian(bytes, from + 1, 2) = level
    BY <1>4 DEF HasLevel
  <2>2. from + 1 \in 1 .. Len(bytes) /\ (from + 1) + 1 \in 1 .. Len(bytes)
    BY <1>1, <1>2, <2>1
  <2>3. LittleEndian(all, (from + 1) + 1, 2) = LittleEndian(bytes, from + 1, 2)
    <3> HIDE DEF all
    <3>1. /\ all[(from + 1) + 1] = bytes[from + 1] /\ bytes[from + 1] \in Nat
          /\ all[((from + 1) + 1) + 1] = bytes[(from + 1) + 1] /\ bytes[(from + 1) + 1] \in Nat
      BY <1>1, <2>2, Zenon
    <3> DEFINE i == from + 1
               j == i + 1
    <3>2. i \in Nat /\ j \in Nat
      BY <1>2
    <3> HIDE DEF i, j
    <3>3. /\ all[j] = bytes[i] /\ bytes[i] \in Nat
          /\ all[j + 1] = bytes[i + 1] /\ bytes[i + 1] \in Nat
      BY <3>1, Zenon DEF i, j
    <3>4. LittleEndian(bytes, i, 2) = bytes[i] + bytes[i + 1] * 256
      BY <3>2, <3>3, TwoBytes, SMTT(60)
    <3>5. LittleEndian(all, j, 2) = all[j] + all[j + 1] * 256
      <4>1. all[j] \in Nat /\ all[j + 1] \in Nat
        BY <3>3, Zenon
      <4> QED
        BY <3>2, <4>1, TwoBytes, SMTT(60)
    <3>6. LittleEndian(all, j, 2) = LittleEndian(bytes, i, 2)
      BY <3>3, <3>4, <3>5, Zenon
    <3> QED
      BY <3>6 DEF i, j
  <2> HIDE DEF all
  <2>4. next + 1 = (from + 1) + 3
    <3>1. from \in Int /\ next = from + 3
      BY <1>2, <2>1
    <3> QED
      BY ONLY <3>1
  <2>5. HasLevel(all, from + 1, next + 1, level)
    BY <1>3, <1>4, <2>1, <2>3, <2>4 DEF HasLevel
  <2> QED
    BY <2>5 DEF all
<1>5. CASE bytes[from] # 255
  <2>1. next + 1 = (from + 1) + 1 /\ bytes[from] = level
    BY <1>2, <1>5 DEF HasLevel
  <2> HIDE DEF all
  <2>2. HasLevel(all, from + 1, next + 1, level)
    BY <1>3, <1>5, <2>1 DEF HasLevel
  <2> QED
    BY <2>2 DEF all
<1> QED
  BY <1>4, <1>5

\* The bytes of a level are the level.
LEMMA LevelIsHeld ==
  ASSUME NEW n \in Word16
  PROVE  LET v == LevelValue(n)
         IN  v \in Seq(Nat) /\ Len(v) \in {1, 3} /\ HasLevel(v, 1, Len(v) + 1, n)
<1> DEFINE v == LevelValue(n)
<1>1. n \in Nat
  BY Word16Values
<1>2. CASE n < 255
  <2>1. v = <<n>>
    BY <1>2 DEF LevelValue
  <2>2. v \in Seq(Nat) /\ Len(v) = 1 /\ v[1] = n /\ v[1] # 255
    BY <1>1, <1>2, <2>1
  <2> HIDE DEF v
  <2>3. HasLevel(v, 1, 2, n)
    BY <2>2 DEF HasLevel
  <2> QED
    BY <2>2, <2>3 DEF v
<1>3. CASE ~(n < 255)
  <2> DEFINE f == Field(n, 2)
  <2>1. v = <<255>> \o f
    BY <1>3 DEF LevelValue
  <2>2. /\ f = <<f[1], f[2]>> /\ f[1] \in Nat /\ f[2] \in Nat
        /\ f[1] = n % 256 /\ f[2] = (n \div 256) % 256
    <3>1. f \in Seq(Byte) /\ Len(f) = 2 /\ f[1] = n % 256 /\ f[2] = (n \div 256) % 256
      BY <1>1, WordBytes
    <3> HIDE DEF f
    <3>2. f = <<f[1], f[2]>>
      BY <3>1
    <3>3. f[1] \in Nat /\ f[2] \in Nat
      BY <1>1, <3>1
    <3> QED
      BY <3>1, <3>2, <3>3
  <2> DEFINE low == f[1]  high == f[2]
  <2> HIDE DEF f
  <2>3. v \in Seq(Nat) /\ Len(v) = 3 /\ v[1] = 255 /\ v[2] = f[1] /\ v[3] = f[2]
    <3>2. f \in Seq(Nat) /\ Len(f) = 2
      <4>1. f = <<low, high>> /\ low \in Nat /\ high \in Nat
        BY <2>2
      <4> HIDE DEF low, high
      <4> QED
        BY <4>1
    <3>3. /\ v \in Seq(Nat) /\ Len(v) = Len(f) + 1 /\ v[1] = 255
          /\ \A i \in 1 .. Len(f) : v[i + 1] = f[i]
      <4> DEFINE all == <<255>> \o f
      <4>1. 255 \in Nat
        OBVIOUS
      <4>2. /\ all \in Seq(Nat) /\ Len(all) = Len(f) + 1
            /\ all[1] = 255
            /\ \A i \in 1 .. Len(f) : all[i + 1] = f[i]
        BY ONLY <3>2, <4>1, BehindByte, ZenonT(60)
      <4>3. v = all
        BY <2>1
      <4> HIDE DEF v, all
      <4> QED
        BY <4>2, <4>3
    <3> HIDE DEF v
    <3>4. v[1 + 1] = f[1] /\ v[2 + 1] = f[2]
      BY <3>2, <3>3
    <3> QED
      BY <3>2, <3>3, <3>4
  <2>4. LittleEndian(v, 2, 2) = n
    <3>1. 2 \in Nat /\ 2 + 1 = 3 /\ v[2] \in Nat /\ v[3] \in Nat
      <4> HIDE DEF v
      <4> QED
        BY <2>2, <2>3
    <3>2. LittleEndian(v, 2, 2) = v[2] + v[3] * 256
      BY <3>1, TwoBytes
    <3>3. n = (n % 256) + ((n \div 256) % 256) * 256
      <4>1. n < 65536
        BY Word16Values
      <4> QED
        BY <1>1, <4>1
    <3> QED
      BY <2>2, <2>3, <3>2, <3>3
  <2> HIDE DEF v
  <2>5. HasLevel(v, 1, 4, n)
    BY <2>3, <2>4 DEF HasLevel
  <2> QED
    BY <2>3, <2>5 DEF v
<1> QED
  BY <1>2, <1>3

\* A level behind others.
LEMMA HasLevelBehind ==
  ASSUME NEW bytes \in Seq(Nat), NEW v \in Seq(Nat), NEW size \in {1, 3}, Len(v) = size,
         NEW n, HasLevel(v, 1, size + 1, n)
  PROVE  HasLevel(bytes \o v, Len(bytes) + 1, Len(bytes) + size + 1, n)
<1> DEFINE all == bytes \o v
           from == Len(bytes) + 1
<1>1. /\ all \in Seq(Nat) /\ Len(all) = Len(bytes) + size
      /\ \A i \in 1 .. size : all[Len(bytes) + i] = v[i] /\ v[i] \in Nat
      /\ Len(bytes) \in Nat
  OBVIOUS
<1>2. 1 \in 1 .. size /\ all[from] = v[1]
  <2> HIDE DEF all
  <2>1. 1 \in 1 .. size
    OBVIOUS
  <2> QED
    BY <1>1, <2>1, Zenon DEF from
<1>3. from \in 1 .. Len(all) /\ Len(bytes) + size + 1 <= Len(all) + 1
  <2> HIDE DEF all
  <2> QED
    BY <1>1 DEF from
<1>4. CASE v[1] = 255
  <2>1. size = 3 /\ LittleEndian(v, 2, 2) = n
    <3> HIDE DEF all
    <3>2. size + 1 = 1 + 3 /\ LittleEndian(v, 1 + 1, 2) = n
      BY <1>4 DEF HasLevel
    <3>3. 1 + 1 = 2
      OBVIOUS
    <3>4. LittleEndian(v, 2, 2) = n
      BY <3>2, <3>3, Zenon
    <3>5. size = 3
      BY <3>2
    <3> QED
      BY <3>4, <3>5
  <2>2. LittleEndian(all, from + 1, 2) = LittleEndian(v, 2, 2)
    <3>1. 2 \in 1 .. size /\ 3 \in 1 .. size
      BY <2>1
    <3> HIDE DEF all
    <3>2. /\ all[Len(bytes) + 2] = v[2] /\ v[2] \in Nat
          /\ all[Len(bytes) + 3] = v[3] /\ v[3] \in Nat
      BY <1>1, <3>1, Zenon
    <3>3. from + 1 = Len(bytes) + 2 /\ (from + 1) + 1 = Len(bytes) + 3 /\ from + 1 \in Nat
          /\ 2 \in Nat /\ 2 + 1 = 3
      BY <1>1 DEF from
    <3>4. /\ all[from + 1] = v[2] /\ all[(from + 1) + 1] = v[3]
      BY <3>2, <3>3, Zenon
    <3> HIDE DEF from
    <3>5. LittleEndian(v, 2, 2) = v[2] + v[3] * 256
      <4>1. 2 \in Nat /\ v[2] \in Nat /\ v[2 + 1] \in Nat /\ v[2 + 1] = v[3]
        BY <3>2
      <4>2. LittleEndian(v, 2, 2) = v[2] + v[2 + 1] * 256
        <5> DEFINE second == 2
        <5>1. second \in Nat /\ v[second] \in Nat /\ v[second + 1] \in Nat
          BY <4>1
        <5> HIDE DEF second
        <5>2. LittleEndian(v, second, 2) = v[second] + v[second + 1] * 256
          BY ONLY <5>1, TwoBytes, SMTT(60)
        <5> QED
          BY <5>2 DEF second
      <4> QED
        BY <4>1, <4>2
    <3>6. LittleEndian(all, from + 1, 2) = all[from + 1] + all[(from + 1) + 1] * 256
      <4> DEFINE second == from + 1
      <4>1. second \in Nat /\ all[second] \in Nat /\ all[second + 1] \in Nat
        BY <3>2, <3>3, <3>4, Zenon
      <4> HIDE DEF second
      <4>2. LittleEndian(all, second, 2) = all[second] + all[second + 1] * 256
        BY ONLY <4>1, TwoBytes, SMTT(60)
      <4> QED
        BY <4>2 DEF second
    <3> QED
      BY <3>4, <3>5, <3>6
  <2>3. Len(bytes) + size + 1 = from + 3
    BY <1>1, <2>1 DEF from
  <2> HIDE DEF all, from
  <2>4. HasLevel(all, from, Len(bytes) + size + 1, n)
    BY <1>2, <1>3, <1>4, <2>1, <2>2, <2>3 DEF HasLevel
  <2> QED
    BY <2>4 DEF all, from
<1>5. CASE v[1] # 255
  <2>1. size = 1 /\ v[1] = n
    <3> HIDE DEF all
    <3>2. size + 1 = 1 + 1 /\ v[1] = n
      BY <1>5 DEF HasLevel
    <3>3. size = 1
      BY <3>2
    <3> QED
      BY <3>2, <3>3
  <2>2. Len(bytes) + size + 1 = from + 1
    BY <1>1, <2>1 DEF from
  <2> HIDE DEF all, from
  <2>3. HasLevel(all, from, Len(bytes) + size + 1, n)
    BY <1>2, <1>3, <1>5, <2>1, <2>2 DEF HasLevel
  <2> QED
    BY <2>3 DEF all, from
<1> QED
  BY <1>4, <1>5

\* One more level.
LEMMA CodedLonger ==
  ASSUME NEW bytes, NEW levels, Coded(bytes, levels), NEW n \in Word16
  PROVE  Coded(bytes \o LevelValue(n), Append(levels, n))
<1> DEFINE v == LevelValue(n)
           all == bytes \o v
           more == Append(levels, n)
           count == Len(levels)
<1>1. /\ bytes \in Seq(Nat) /\ levels \in Seq(Nat) /\ Len(bytes) <= 3 * count
      /\ count \in Nat /\ Len(bytes) \in Nat
  BY DEF Coded
<1>2. PICK at \in [1 .. count + 1 -> Nat] :
        /\ at[1] = 1 /\ at[count + 1] = Len(bytes) + 1
        /\ \A k \in 1 .. count : HasLevel(bytes, at[k], at[k + 1], levels[k])
  BY DEF Coded
<1>3. v \in Seq(Nat) /\ Len(v) \in {1, 3} /\ HasLevel(v, 1, Len(v) + 1, n) /\ n \in Nat
  BY LevelIsHeld, Word16Values
<1> HIDE DEF v
<1>4. /\ all \in Seq(Nat) /\ Len(all) = Len(bytes) + Len(v)
      /\ more \in Seq(Nat) /\ Len(more) = count + 1
      /\ more[count + 1] = n /\ \A k \in 1 .. count : more[k] = levels[k]
  BY <1>1, <1>3
<1>5. Len(all) <= 3 * Len(more)
  <2> DEFINE b == Len(bytes)  l == Len(v)
  <2>1. b \in Nat /\ (l = 1 \/ l = 3) /\ b <= 3 * count /\ Len(all) = b + l /\ Len(more) = count + 1
    BY <1>1, <1>3, <1>4
  <2> HIDE DEF all, more, count, b, l
  <2> QED
    BY <1>1, <2>1
<1> DEFINE to == [k \in 1 .. count + 2 |-> IF k = count + 2 THEN Len(all) + 1 ELSE at[k]]
<1> HIDE DEF more, count, all
<1>6. /\ to \in [1 .. count + 2 -> Nat]
      /\ to[count + 2] = Len(all) + 1 /\ \A k \in 1 .. count + 1 : to[k] = at[k]
  <2>1. Len(all) + 1 \in Nat
    BY <1>1, <1>3, <1>4
  <2>2. \A k \in 1 .. count + 2 : k # count + 2 => k \in 1 .. count + 1 /\ at[k] \in Nat
    BY <1>1, <1>2
  <2> QED
    BY <1>1, <2>1, <2>2
<1>7. \A k \in 1 .. count + 1 : HasLevel(all, to[k], to[k + 1], more[k])
  <2> TAKE k \in 1 .. count + 1
  <2>1. CASE k \in 1 .. count
    <3>1. k \in 1 .. count + 1 /\ k + 1 \in 1 .. count + 1
      BY <1>1, <2>1
    <3>2. to[k] = at[k] /\ to[k + 1] = at[k + 1] /\ more[k] = levels[k]
      BY <1>4, <1>6, <2>1, <3>1, Zenon
    <3>3. HasLevel(bytes, at[k], at[k + 1], levels[k])
      BY <1>2, <2>1
    <3>4. HasLevel(all, at[k], at[k + 1], levels[k])
      BY <1>1, <1>3, <3>3, HasLevelStill DEF all
    <3> QED
      BY <3>2, <3>4
  <2>2. CASE k = count + 1
    <3>1. k + 1 = count + 2
      BY <1>1, <2>2
    <3>2. to[k] = Len(bytes) + 1 /\ to[k + 1] = Len(bytes) + Len(v) + 1 /\ more[k] = n
      BY <1>2, <1>4, <1>6, <2>2, <3>1
    <3>3. HasLevel(all, Len(bytes) + 1, Len(bytes) + Len(v) + 1, n)
      BY <1>1, <1>3, HasLevelBehind DEF all
    <3> QED
      BY <3>2, <3>3
  <2> QED
    BY <1>1, <2>1, <2>2
<1>8. to[1] = 1 /\ to[Len(more) + 1] = Len(all) + 1 /\ to \in [1 .. Len(more) + 1 -> Nat]
  <2>1. 1 \in 1 .. count + 1 /\ Len(more) + 1 = count + 2
    BY <1>1, <1>4
  <2> HIDE DEF to
  <2> QED
    BY <1>2, <1>6, <2>1
<1> HIDE DEF to
<1>9. \A k \in 1 .. Len(more) : HasLevel(all, to[k], to[k + 1], more[k])
  BY <1>4, <1>7
<1>10. Coded(all, more)
  BY <1>4, <1>5, <1>8, <1>9 DEF Coded
<1> QED
  BY <1>10 DEF all, more, v

\* The bits of the first byte are as many as there are levels.
LEMMA LevelBits ==
  ASSUME NEW n \in 0 .. 4
  PROVE  LET first == (2^(n + 1) - 2) % 256
         IN  first \in Nat /\ Cardinality({b \in 1 .. 7 : (first \div 2^b) % 2 = 1}) = n
<1> DEFINE Bits(first) == {b \in 1 .. 7 : (first \div 2^b) % 2 = 1}
<1>1. 2^1 = 2 /\ 2^2 = 4 /\ 2^3 = 8 /\ 2^4 = 16 /\ 2^5 = 32 /\ 2^6 = 64 /\ 2^7 = 128
  OBVIOUS
<1>2. \A first \in 0 .. 30 :
        Bits(first) = {b \in 1 .. 4 : \/ b = 1 /\ (first \div 2) % 2 = 1
                                      \/ b = 2 /\ (first \div 4) % 2 = 1
                                      \/ b = 3 /\ (first \div 8) % 2 = 1
                                      \/ b = 4 /\ (first \div 16) % 2 = 1}
  <2> TAKE first \in 0 .. 30
  <2>1. \A b \in 1 .. 7 : b = 1 \/ b = 2 \/ b = 3 \/ b = 4 \/ b = 5 \/ b = 6 \/ b = 7
    OBVIOUS
  <2>2. (first \div 32) % 2 # 1 /\ (first \div 64) % 2 # 1 /\ (first \div 128) % 2 # 1
    OBVIOUS
  <2>3. ASSUME NEW b \in 1 .. 7
        PROVE  (first \div 2^b) % 2 = 1 <=> \/ b = 1 /\ (first \div 2) % 2 = 1
                                            \/ b = 2 /\ (first \div 4) % 2 = 1
                                            \/ b = 3 /\ (first \div 8) % 2 = 1
                                            \/ b = 4 /\ (first \div 16) % 2 = 1
    <3>1. CASE b = 1
      BY <1>1, <3>1
    <3>2. CASE b = 2
      BY <1>1, <3>2
    <3>3. CASE b = 3
      BY <1>1, <3>3
    <3>4. CASE b = 4
      BY <1>1, <3>4
    <3>5. CASE b = 5
      BY <1>1, <2>2, <3>5
    <3>6. CASE b = 6
      BY <1>1, <2>2, <3>6
    <3>7. CASE b = 7
      BY <1>1, <2>2, <3>7
    <3> QED
      BY <2>1, <3>1, <3>2, <3>3, <3>4, <3>5, <3>6, <3>7
  <2> DEFINE One(b) == (first \div 2^b) % 2 = 1
             Two(b) == \/ b = 1 /\ (first \div 2) % 2 = 1
                       \/ b = 2 /\ (first \div 4) % 2 = 1
                       \/ b = 3 /\ (first \div 8) % 2 = 1
                       \/ b = 4 /\ (first \div 16) % 2 = 1
  <2>4. \A b \in 1 .. 7 : One(b) <=> Two(b)
    BY <2>3
  <2>5. \A b \in 1 .. 7 : Two(b) => b \in 1 .. 4
    OBVIOUS
  <2>6. \A b \in 1 .. 4 : b \in 1 .. 7
    OBVIOUS
  <2> HIDE DEF One, Two
  <2>7. {b \in 1 .. 7 : One(b)} = {b \in 1 .. 4 : Two(b)}
    BY <2>4, <2>5, <2>6
  <2> QED
    BY <2>7 DEF One, Two
<1>3. \A m \in 1 .. 4 : Cardinality(1 .. m) = m
  <2> TAKE m \in 1 .. 4
  <2>1. 1 \in Int /\ m \in Int /\ ~(1 > m) /\ (m - 1) + 1 = m
    OBVIOUS
  <2>2. Cardinality(1 .. m) = IF 1 > m THEN 0 ELSE (m - 1) + 1
    BY <2>1, FS_Interval
  <2> QED
    BY <2>1, <2>2
<1>4. CASE n = 0
  <2>1. (2^(n + 1) - 2) % 256 = 0
    BY <1>1, <1>4
  <2>2. Bits(0) = {}
    BY <1>2
  <2> QED
    BY <1>4, <2>1, <2>2, FS_EmptySet
<1>5. CASE n = 1
  <2>1. (2^(n + 1) - 2) % 256 = 2
    BY <1>1, <1>5
  <2>2. Bits(2) = 1 .. 1
    BY <1>2
  <2>3. Cardinality(1 .. 1) = 1
    BY <1>3
  <2> QED
    BY <1>5, <2>1, <2>2, <2>3
<1>6. CASE n = 2
  <2>1. (2^(n + 1) - 2) % 256 = 6
    BY <1>1, <1>6
  <2>2. Bits(6) = 1 .. 2
    BY <1>2
  <2>3. Cardinality(1 .. 2) = 2
    BY <1>3
  <2> QED
    BY <1>6, <2>1, <2>2, <2>3
<1>7. CASE n = 3
  <2>1. (2^(n + 1) - 2) % 256 = 14
    BY <1>1, <1>7
  <2>2. Bits(14) = 1 .. 3
    BY <1>2
  <2>3. Cardinality(1 .. 3) = 3
    BY <1>3
  <2> QED
    BY <1>7, <2>1, <2>2, <2>3
<1>8. CASE n = 4
  <2>1. (2^(n + 1) - 2) % 256 = 30
    BY <1>1, <1>8
  <2>2. Bits(30) = 1 .. 4
    BY <1>2
  <2>3. Cardinality(1 .. 4) = 4
    BY <1>3
  <2> QED
    BY <1>8, <2>1, <2>2, <2>3
<1> QED
  BY <1>4, <1>5, <1>6, <1>7, <1>8

\* Where the PLC finds the levels, as Levels has it.
LevelsAt(bytes, count) ==
  CHOOSE at : at = [k \in 1 .. count |->
                      IF k = 1 THEN 2 ELSE at[k - 1] + (IF bytes[at[k - 1]] = 255 THEN 3 ELSE 1)]

\* The PLC reads the levels that there are.
LEMMA LevelsAreRead ==
  ASSUME NEW bytes, NEW levels \in Seq(Nat), NEW to \in [1 .. Len(levels) + 1 -> Nat],
         to[1] = 2,
         \A k \in 1 .. Len(levels) : HasLevel(bytes, to[k], to[k + 1], levels[k]),
         Cardinality({b \in 1 .. 7 : (bytes[1] \div 2^b) % 2 = 1}) = Len(levels)
  PROVE  Levels(bytes) = levels
<1> DEFINE count == Len(levels)
           at == LevelsAt(bytes, count)
           Size(i) == IF bytes[i] = 255 THEN 3 ELSE 1
           Is(f) == f = [k \in 1 .. count |-> IF k = 1 THEN 2 ELSE f[k - 1] + Size(f[k - 1])]
<1>1. count \in Nat
  OBVIOUS
<1>2. Levels(bytes) = [k \in 1 .. count |-> IF Size(at[k]) = 1 THEN bytes[at[k]]
                                            ELSE LittleEndian(bytes, at[k] + 1, 2)]
  <2> DEFINE c == Cardinality({b \in 1 .. 7 : (bytes[1] \div 2^b) % 2 = 1})
  <2>1. Levels(bytes) =
          [k \in 1 .. c |-> IF (IF bytes[LevelsAt(bytes, c)[k]] = 255 THEN 3 ELSE 1) = 1
                            THEN bytes[LevelsAt(bytes, c)[k]]
                            ELSE LittleEndian(bytes, LevelsAt(bytes, c)[k] + 1, 2)]
    BY DEF Levels, LevelsAt
  <2>2. c = count
    OBVIOUS
  <2> HIDE DEF c, count
  <2> QED
    BY <2>1, <2>2
<1>3. at = CHOOSE f : Is(f)
  BY DEF LevelsAt
<1> HIDE DEF at
<1>4. \A k \in 1 .. count : /\ to[k + 1] = to[k] + Size(to[k])
                            /\ levels[k] = IF Size(to[k]) = 1 THEN bytes[to[k]]
                                           ELSE LittleEndian(bytes, to[k] + 1, 2)
  <2> TAKE k \in 1 .. count
  <2>1. HasLevel(bytes, to[k], to[k + 1], levels[k])
    OBVIOUS
  <2>2. CASE bytes[to[k]] = 255
    BY <2>1, <2>2 DEF HasLevel
  <2>3. CASE bytes[to[k]] # 255
    BY <2>1, <2>3 DEF HasLevel
  <2> QED
    BY <2>2, <2>3
<1> DEFINE f == [k \in 1 .. count |-> to[k]]
<1> HIDE DEF Size, count
<1>5. Is(f)
  <2>1. \A k \in 1 .. count : f[k] = IF k = 1 THEN 2 ELSE f[k - 1] + Size(f[k - 1])
    <3> TAKE k \in 1 .. count
    <3>1. CASE k = 1
      BY <3>1
    <3>2. CASE k # 1
      <4>1. k - 1 \in 1 .. count /\ (k - 1) + 1 = k
        BY <1>1, <3>2
      <4>2. to[(k - 1) + 1] = to[k - 1] + Size(to[k - 1])
        BY <1>4, <4>1
      <4>3. f[k] = to[k] /\ f[k - 1] = to[k - 1]
        BY <4>1
      <4> HIDE DEF f
      <4> QED
        BY <3>2, <4>1, <4>2, <4>3
    <3> QED
      BY <3>1, <3>2
  <2> QED
    BY <2>1
<1> HIDE DEF f
<1>6. Is(at)
  <2> HIDE DEF Is
  <2> QED
    BY <1>3, <1>5
<1> DEFINE S == {k \in Nat : k \in 1 .. count => at[k] = to[k]}
<1>7. 0 \in S
  BY <1>1
<1>8. ASSUME NEW k \in Nat, k \in S
      PROVE  k + 1 \in S
  <2>1. CASE k + 1 \in 1 .. count /\ k # 0
    <3>1. k \in 1 .. count /\ (k + 1) - 1 = k /\ k + 1 # 1
      BY <1>1, <2>1
    <3>2. at[k] = to[k]
      BY <1>8, <3>1
    <3>3. at[k + 1] = at[k] + Size(at[k])
      BY <1>6, <2>1, <3>1
    <3>4. to[k + 1] = to[k] + Size(to[k])
      BY <1>4, <3>1
    <3> QED
      BY <3>2, <3>3, <3>4
  <2>2. CASE k + 1 \in 1 .. count /\ k = 0
    BY <1>6, <2>2
  <2> QED
    BY <2>1, <2>2
<1>9. Nat \subseteq S
  <2> HIDE DEF S
  <2> QED
    BY <1>7, <1>8, InductionOnSet
<1>10. \A k \in 1 .. count : at[k] = to[k]
  <2>1. \A k \in 1 .. count : k \in Nat
    BY <1>1
  <2> QED
    BY <1>9, <2>1
<1>11. Levels(bytes) = [k \in 1 .. count |-> levels[k]]
  <2> DEFINE Read(i) == IF Size(i) = 1 THEN bytes[i] ELSE LittleEndian(bytes, i + 1, 2)
  <2>1. \A k \in 1 .. count : Read(at[k]) = levels[k]
    BY <1>4, <1>10
  <2>2. Levels(bytes) = [k \in 1 .. count |-> Read(at[k])]
    BY <1>2
  <2> HIDE DEF Read
  <2> QED
    BY <2>1, <2>2
<1> QED
  BY <1>11 DEF count

\* So it reads what BuildLogicalBinaryAddress has put behind a first byte.
LEMMA CodedIsRead ==
  ASSUME NEW bytes, NEW levels, Coded(bytes, levels), Len(levels) \in 0 .. 4
  PROVE  /\ Levels(<<(2^(Len(levels) + 1) - 2) % 256>> \o bytes) = levels
         /\ Len(<<(2^(Len(levels) + 1) - 2) % 256>> \o bytes) = Len(bytes) + 1
<1> DEFINE count == Len(levels)
           first == (2^(count + 1) - 2) % 256
           all == <<first>> \o bytes
<1>1. bytes \in Seq(Nat) /\ levels \in Seq(Nat) /\ count \in Nat
  BY DEF Coded
<1>2. PICK at \in [1 .. count + 1 -> Nat] :
        /\ at[1] = 1 /\ at[count + 1] = Len(bytes) + 1
        /\ \A k \in 1 .. count : HasLevel(bytes, at[k], at[k + 1], levels[k])
  BY DEF Coded
<1>3. first \in Nat /\ Cardinality({b \in 1 .. 7 : (first \div 2^b) % 2 = 1}) = count
  BY LevelBits
<1> HIDE DEF first
<1>4. Len(all) = Len(bytes) + 1 /\ all[1] = first
  BY <1>1, <1>3, BehindByte
<1> DEFINE to == [k \in 1 .. count + 1 |-> at[k] + 1]
<1> HIDE DEF count, all
<1>5. to \in [1 .. count + 1 -> Nat] /\ to[1] = 2
  <2>1. 1 \in 1 .. count + 1
    BY <1>1
  <2> QED
    BY <1>2, <2>1
<1>6. \A k \in 1 .. count : HasLevel(all, to[k], to[k + 1], levels[k])
  <2> TAKE k \in 1 .. count
  <2>1. HasLevel(bytes, at[k], at[k + 1], levels[k])
    BY <1>2
  <2>2. HasLevel(all, at[k] + 1, at[k + 1] + 1, levels[k])
    BY <1>1, <1>3, <2>1, HasLevelMoved DEF all
  <2>3. k \in 1 .. count + 1 /\ k + 1 \in 1 .. count + 1
    BY <1>1
  <2>4. to[k] = at[k] + 1 /\ to[k + 1] = at[k + 1] + 1
    BY <2>3
  <2> QED
    BY <2>2, <2>4
<1> HIDE DEF to
<1>7. Levels(all) = levels
  BY <1>1, <1>3, <1>4, <1>5, <1>6, LevelsAreRead DEF count
<1> QED
  BY <1>4, <1>7 DEF all, first, count

\* What BuildLogicalBinaryAddress has when it has encoded these levels.
Kept(lba, levels, mask, encoding) ==
  /\ lba = [levels |-> Len(levels), bytes |-> lba.bytes, mask |-> mask, encoding_bit |-> encoding]
  /\ Coded(lba.bytes, levels)

Parts == [word : STRING, number : Nat \cup {None}]

\* The levels of a part that is not a bit: of a mnemonic, and of a number.
Sublevels(p) == IF Sublevel(p) = None THEN <<>> ELSE <<Sublevel(p)>>
LowNumber(p) == p.number % 65536
Encoded(p) == Sublevels(p) \o (IF p.number = None THEN <<>> ELSE <<LowNumber(p)>>)

LEMMA LowNumberType ==
  ASSUME NEW p, p.number \in Nat
  PROVE  LowNumber(p) \in Word16 /\ LowNumber(p) \in Nat
<1> DEFINE n == LowNumber(p)
<1>1. n \in Nat /\ n < 65536
  BY DEF LowNumber
<1> HIDE DEF n
<1>2. n \in Word16
  BY <1>1, WordOf
<1> QED
  BY <1>1, <1>2 DEF n

LEMMA StartKept == Kept(Start, <<>>, None, FALSE)
<1> DEFINE at == [k \in 1 .. 1 |-> 1]
<1>1. /\ at \in [1 .. 0 + 1 -> Nat] /\ at[1] = 1 /\ at[0 + 1] = 0 + 1
      /\ <<>> \in Seq(Nat) /\ Len(<<>>) = 0
      /\ \A k \in 1 .. 0 : HasLevel(<<>>, at[k], at[k + 1], <<>>[k])
  OBVIOUS
<1> HIDE DEF at
<1>2. Coded(<<>>, <<>>)
  BY <1>1 DEF Coded
<1>3. Start = [levels |-> Len(<<>>), bytes |-> Start.bytes, mask |-> None, encoding_bit |-> FALSE]
      /\ Start.bytes = <<>>
  BY DEF Start
<1> QED
  BY <1>2, <1>3 DEF Kept

LEMMA AddLevelKept ==
  ASSUME NEW lba, NEW levels, NEW mask, NEW encoding, Kept(lba, levels, mask, encoding),
         NEW n \in Word16
  PROVE  Kept(AddLevel(lba, LevelValue(n)), Append(levels, n), mask, encoding)
<1> DEFINE next == AddLevel(lba, LevelValue(n))
           bytes == lba.bytes
           longer == bytes \o LevelValue(n)
<1>1. /\ lba = [levels |-> Len(levels), bytes |-> bytes, mask |-> mask, encoding_bit |-> encoding]
      /\ Coded(bytes, levels)
  BY DEF Kept
<1>2. Coded(longer, Append(levels, n))
  BY <1>1, CodedLonger
<1>3. Len(Append(levels, n)) = Len(levels) + 1
  <2>1. levels \in Seq(Nat) /\ n \in Nat
    BY <1>1, Word16Values DEF Coded
  <2> QED
    BY ONLY <2>1
<1>4. next = [lba EXCEPT !.levels = @ + 1, !.bytes = @ \o LevelValue(n)]
  BY DEF AddLevel
<1> DEFINE count == Len(levels)
<1> HIDE DEF bytes, count, longer
<1>5. next = [levels |-> count + 1, bytes |-> bytes \o LevelValue(n), mask |-> mask,
              encoding_bit |-> encoding]
  <2>1. lba = [levels |-> count, bytes |-> bytes, mask |-> mask, encoding_bit |-> encoding]
    BY <1>1 DEF count
  <2> QED
    BY <1>4, <2>1
<1> HIDE DEF next
<1>6. Kept(next, Append(levels, n), mask, encoding)
  BY <1>2, <1>3, <1>5 DEF Kept, count, longer
<1> QED
  BY <1>6 DEF next

\* A mnemonic adds its level and its bit.
LEMMA WordKept ==
  ASSUME NEW lba, NEW levels, NEW mask, Kept(lba, levels, mask, FALSE),
         NEW p, p.word # "/"
  PROVE  Kept(Word(lba, p), levels \o Sublevels(p), IF Bit(p) = None THEN mask ELSE Bit(p), FALSE)
<1> DEFINE deeper == IF Sublevel(p) = None THEN lba ELSE AddLevel(lba, <<Sublevel(p)>>)
           more == levels \o Sublevels(p)
           bit == IF Bit(p) = None THEN mask ELSE Bit(p)
<1>1. levels \in Seq(Nat)
  BY DEF Kept, Coded
<1>2. Kept(deeper, more, mask, FALSE)
  <2>1. CASE Sublevel(p) = None
    <3>1. more = levels
      BY <1>1, <2>1 DEF Sublevels
    <3> QED
      BY <2>1, <3>1
  <2>2. CASE Sublevel(p) # None
    <3> DEFINE n == Sublevel(p)
    <3>1. n \in 0 .. 26
      BY <2>2 DEF Sublevel
    <3>2. n \in Nat /\ n < 255 /\ n < 65536
      BY <3>1
    <3>3. n \in Word16 /\ LevelValue(n) = <<n>>
      BY <3>2, WordOf DEF LevelValue
    <3>4. more = levels \o <<n>>
      BY <2>2 DEF Sublevels
    <3> HIDE DEF n
    <3>5. levels \o <<n>> = Append(levels, n)
      BY <1>1, <3>2
    <3>6. deeper = AddLevel(lba, LevelValue(n))
      BY <2>2, <3>3 DEF n
    <3> QED
      BY <3>3, <3>4, <3>5, <3>6, AddLevelKept
  <2> QED
    BY <2>1, <2>2
<1>3. Word(lba, p) = [deeper EXCEPT !.encoding_bit = @ \/ p.word = "/",
                                    !.mask = IF Bit(p) = None THEN @ ELSE Bit(p)]
  BY DEF Word
<1> DEFINE bytes == deeper.bytes
           b == Bit(p)
           count == Len(more)
<1> HIDE DEF deeper, more, bytes
<1>4. /\ deeper = [levels |-> count, bytes |-> bytes, mask |-> mask, encoding_bit |-> FALSE]
      /\ Coded(bytes, more)
  BY <1>2 DEF Kept, bytes
<1> HIDE DEF b, count
<1>5. Word(lba, p) = [levels |-> count, bytes |-> bytes, mask |-> IF b = None THEN mask ELSE b,
                      encoding_bit |-> FALSE]
  <2>1. Word(lba, p) = [deeper EXCEPT !.encoding_bit = @ \/ p.word = "/",
                                      !.mask = IF b = None THEN @ ELSE b]
    BY <1>3 DEF b
  <2>2. (FALSE \/ p.word = "/") = FALSE
    OBVIOUS
  <2> HIDE DEF deeper
  <2> QED
    BY <1>4, <2>1, <2>2
<1>6. Kept(Word(lba, p), more, bit, FALSE)
  BY <1>4, <1>5 DEF Kept, b, count
<1> QED
  BY <1>6 DEF more

\* A number that is not a bit's is one more level.
LEMMA NumberKept ==
  ASSUME NEW lba, NEW levels, NEW mask, Kept(lba, levels, mask, FALSE),
         NEW p, p.number \in Nat
  PROVE  Kept(Number(lba, p), Append(levels, LowNumber(p)), mask, FALSE)
<1>1. lba.encoding_bit = FALSE /\ p.number # None
  BY DEF Kept, None
<1>2. Number(lba, p) = AddLevel(lba, LevelValue(LowNumber(p)))
  BY <1>1 DEF Number, LowNumber
<1> QED
  BY <1>2, LowNumberType, AddLevelKept

\* Together: a part that is not a bit.
LEMMA PartKept ==
  ASSUME NEW lba, NEW levels, NEW mask, Kept(lba, levels, mask, FALSE),
         NEW p \in Parts, p.word # "/"
  PROVE  /\ Encoded(p) \in Seq(Nat)
         /\ Kept(Number(Word(lba, p), p), levels \o Encoded(p),
                 IF Bit(p) = None THEN mask ELSE Bit(p), FALSE)
<1> DEFINE bit == IF Bit(p) = None THEN mask ELSE Bit(p)
           word == Word(lba, p)
           sub == Sublevels(p)
<1>1. Kept(word, levels \o sub, bit, FALSE)
  BY WordKept
<1>2. levels \in Seq(Nat)
  BY DEF Kept, Coded
<1>3. sub \in Seq(Nat)
  <2>1. Sublevel(p) # None => Sublevel(p) \in 0 .. 26
    BY DEF Sublevel
  <2> DEFINE n == Sublevel(p)
  <2>2. n # None => n \in Nat
    BY <2>1
  <2>3. sub = IF n = None THEN <<>> ELSE <<n>>
    BY DEF Sublevels
  <2> HIDE DEF n, sub
  <2> QED
    BY <2>2, <2>3
<1> HIDE DEF word, sub, bit
<1>4. CASE p.number = None
  <2>1. Number(word, p) = word
    BY <1>4 DEF Number
  <2>2. Encoded(p) = sub
    BY <1>3, <1>4 DEF Encoded, sub
  <2> QED
    BY <1>1, <1>3, <2>1, <2>2 DEF word, bit
<1>5. CASE p.number # None
  <2> DEFINE n == LowNumber(p)
  <2>1. p.number \in Nat
    BY <1>5 DEF Parts
  <2>2. n \in Nat
    BY <2>1, LowNumberType
  <2>3. Kept(Number(word, p), Append(levels \o sub, n), bit, FALSE)
    <3> DEFINE before == levels \o sub
    <3>1. Kept(word, before, bit, FALSE)
      BY <1>1
    <3> HIDE DEF before
    <3>2. Kept(Number(word, p), Append(before, n), bit, FALSE)
      BY <2>1, <3>1, NumberKept
    <3> QED
      BY <3>2 DEF before
  <2>4. Encoded(p) = sub \o <<n>>
    BY <1>5 DEF Encoded, sub
  <2> HIDE DEF n
  <2>5. sub \o <<n>> \in Seq(Nat) /\ Append(levels \o sub, n) = levels \o (sub \o <<n>>)
    <3>1. <<n>> \in Seq(Nat)
      BY <2>2
    <3>2. levels \o sub \in Seq(Nat) /\ sub \o <<n>> \in Seq(Nat)
      BY <1>2, <1>3, <3>1
    <3>3. Append(levels \o sub, n) = (levels \o sub) \o <<n>>
      <4> DEFINE before == levels \o sub
      <4>1. before \in Seq(Nat)
        BY <3>2
      <4> HIDE DEF before
      <4>2. Append(before, n) = before \o <<n>>
        BY <2>2, <4>1
      <4> QED
        BY <4>2 DEF before
    <3>4. (levels \o sub) \o <<n>> = levels \o (sub \o <<n>>)
      BY <1>2, <1>3, <3>1, ConcatAssociative
    <3> QED
      BY <3>2, <3>3, <3>4
  <2> QED
    BY <2>3, <2>4, <2>5 DEF word, bit
<1> QED
  BY <1>4, <1>5

\* A bit.
LEMMA BitKept ==
  ASSUME NEW lba, NEW levels, NEW mask, Kept(lba, levels, mask, FALSE),
         NEW p, p.word = "/", p.number \in Nat
  PROVE  Kept(Number(Word(lba, p), p), levels, LowNumber(p) % 32, TRUE)
<1> DEFINE word == Word(lba, p)
           b == LowNumber(p) % 32
           bytes == lba.bytes
           count == Len(levels)
<1>1. Sublevel(p) = None /\ Bit(p) = None /\ p.number # None
  BY DEF Sublevel, Bit, None
<1>2. word = [lba EXCEPT !.encoding_bit = @ \/ p.word = "/", !.mask = @]
  BY <1>1 DEF Word
<1>3. /\ lba = [levels |-> count, bytes |-> bytes, mask |-> mask, encoding_bit |-> FALSE]
      /\ Coded(bytes, levels)
  BY DEF Kept
<1>4. (FALSE \/ p.word = "/") = TRUE
  OBVIOUS
<1> HIDE DEF bytes, count, word
<1>5. word = [levels |-> count, bytes |-> bytes, mask |-> mask, encoding_bit |-> TRUE]
  BY <1>2, <1>3, <1>4
<1>6. Number(word, p) = [word EXCEPT !.mask = b]
  BY <1>1, <1>5 DEF Number, LowNumber
<1> HIDE DEF b
<1>7. Number(word, p) = [levels |-> count, bytes |-> bytes, mask |-> b, encoding_bit |-> TRUE]
  BY <1>5, <1>6
<1>8. Kept(Number(word, p), levels, b, TRUE)
  BY <1>3, <1>7 DEF Kept, count
<1> QED
  BY <1>8 DEF word, b

\* Two to four sequences, one behind the other.
LEMMA FlattenFew ==
  ASSUME NEW ss, Len(ss) \in 2 .. 4
  PROVE  /\ Len(ss) = 2 => FlattenSeq(ss) = ss[1] \o ss[2]
         /\ Len(ss) = 3 => FlattenSeq(ss) = (ss[1] \o ss[2]) \o ss[3]
         /\ Len(ss) = 4 => FlattenSeq(ss) = ((ss[1] \o ss[2]) \o ss[3]) \o ss[4]
<1> DEFINE n == Len(ss)
           f == Flattened(ss, n)
<1>1. n \in Nat /\ n # 0
  OBVIOUS
<1>2. f = [i \in 1 .. n |-> IF i = 1 THEN ss[i] ELSE f[i - 1] \o ss[i]]
  BY <1>1, FlattenedOfEvery
<1>3. FlattenSeq(ss) = f[n]
  BY <1>1 DEF FlattenSeq, Flattened
<1> HIDE DEF f
<1>4. \A i \in 1 .. n : f[i] = IF i = 1 THEN ss[i] ELSE f[i - 1] \o ss[i]
  BY <1>2
<1>5. f[1] = ss[1] /\ f[2] = f[1] \o ss[2]
  <2>1. 1 \in 1 .. n /\ 2 \in 1 .. n /\ 2 # 1 /\ 2 - 1 = 1
    OBVIOUS
  <2> QED
    BY <1>4, <2>1
<1>6. n \in 3 .. 4 => f[3] = f[2] \o ss[3]
  <2>1. n \in 3 .. 4 => 3 \in 1 .. n
    OBVIOUS
  <2>2. 3 # 1 /\ 3 - 1 = 2
    OBVIOUS
  <2> QED
    BY <1>4, <2>1, <2>2
<1>7. n = 4 => f[4] = f[3] \o ss[4]
  <2>1. n = 4 => 4 \in 1 .. n
    OBVIOUS
  <2>2. 4 # 1 /\ 4 - 1 = 3
    OBVIOUS
  <2> QED
    BY <1>4, <2>1, <2>2
<1>8. n = 2 => f[n] = ss[1] \o ss[2]
  BY <1>5
<1>9. n = 3 => f[n] = (ss[1] \o ss[2]) \o ss[3]
  BY <1>5, <1>6
<1>10. n = 4 => f[n] = ((ss[1] \o ss[2]) \o ss[3]) \o ss[4]
  <2>1. n = 4 => n \in 3 .. 4
    OBVIOUS
  <2> QED
    BY <1>5, <1>6, <1>7, <2>1, Zenon
<1> QED
  BY <1>3, <1>8, <1>9, <1>10, Zenon

\* Whether an address has something inside of the element, and whether it has a bit.
HasSub(a) == Len(a) \in 3 .. 4 /\ a[3].word # "/"
HasBit(a) == a[Len(a)].word = "/"

\* The parts of an address.
LEMMA PartsOfAddress ==
  ASSUME NEW a \in Seq(Parts), IsDataAddress(a)
  PROVE  /\ Len(a) \in 2 .. 4 /\ DOMAIN a = 1 .. Len(a)
         /\ \A i \in 1 .. Len(a) : a[i] \in Parts
         /\ a[1].word # "/" /\ a[2].word # "/"
         /\ Len(a) = 2 => ~HasSub(a) /\ ~HasBit(a)
         /\ Len(a) = 3 => HasSub(a) = ~HasBit(a)
         /\ Len(a) = 4 => HasSub(a) /\ HasBit(a) /\ a[3].word \notin BitMnemonics
         /\ HasBit(a) => a[Len(a)].word = "/" /\ a[Len(a)].number \in Nat
         /\ HasSub(a) => IsSubelement(a[3], a[1])
<1>1. Len(a) \in 2 .. 4 /\ DOMAIN a = 1 .. Len(a) /\ \A i \in 1 .. Len(a) : a[i] \in Parts
  BY DEF IsDataAddress
<1>2. a[1].word # "/" /\ a[2].word # "/"
  BY DEF IsDataAddress, IsFile, FileTypes
<1>3. \A p : IsSubelement(p, a[1]) => p.word # "/"
  BY DEF IsSubelement, Mnemonics, BitMnemonics
<1>4. /\ Len(a) = 3 => IsSubelement(a[3], a[1]) \/ IsBit(a[3])
      /\ Len(a) = 4 => /\ IsSubelement(a[3], a[1]) /\ IsBit(a[4])
                       /\ a[3].word \notin BitMnemonics
  BY DEF IsDataAddress
<1>5. CASE Len(a) = 2
  BY <1>1, <1>2, <1>5 DEF HasSub, HasBit
<1>6. CASE Len(a) = 3
  BY <1>1, <1>2, <1>3, <1>4, <1>6 DEF HasSub, HasBit, IsBit
<1>7. CASE Len(a) = 4
  BY <1>1, <1>2, <1>3, <1>4, <1>7 DEF HasSub, HasBit, IsBit
<1> QED
  BY <1>1, <1>5, <1>6, <1>7

\* What is meant by the levels of an address.
LEMMA InsideType == \A p \in Parts : Inside(p) \in Seq(Nat)
<1> TAKE p \in Parts
<1>1. CASE p.number = None
  <2>1. Inside(p) \in {<<>>, <<0>>, <<1>>, <<2>>}
    BY <1>1 DEF Inside
  <2>2. 0 \in Nat /\ 1 \in Nat /\ 2 \in Nat
    OBVIOUS
  <2> HIDE DEF Inside
  <2>3. <<>> \in Seq(Nat) /\ <<0>> \in Seq(Nat) /\ <<1>> \in Seq(Nat) /\ <<2>> \in Seq(Nat)
    OBVIOUS
  <2> QED
    BY <2>1, <2>3
<1>2. CASE p.number # None
  <2> DEFINE n == p.number
  <2>1. n \in Nat
    BY <1>2 DEF Parts
  <2>2. Inside(p) \in {<<>>, <<0>>, <<1>>, <<2>>, <<n>>}
    BY <1>2 DEF Inside
  <2> HIDE DEF n
  <2>3. <<>> \in Seq(Nat) /\ <<0>> \in Seq(Nat) /\ <<1>> \in Seq(Nat) /\ <<2>> \in Seq(Nat)
        /\ <<n>> \in Seq(Nat)
    BY <2>1
  <2> QED
    BY <2>2, <2>3
<1> QED
  BY <1>1, <1>2

LEMMA LevelsMeant ==
  ASSUME NEW a \in Seq(Parts), IsDataAddress(a)
  PROVE  MeantLevels(a) = (Inside(a[1]) \o Inside(a[2])) \o
                          (IF HasSub(a) THEN Inside(a[3]) ELSE <<>>)
<1> DEFINE n == Len(a)
           plain == {i \in DOMAIN a : \A j \in 1 .. i : a[j].word # "/"}
           ss == [i \in DOMAIN a |-> IF i \in plain THEN Inside(a[i]) ELSE <<>>]
           two == Inside(a[1]) \o Inside(a[2])
<1>1. /\ n \in 2 .. 4 /\ DOMAIN a = 1 .. n
      /\ a[1].word # "/" /\ a[2].word # "/"
      /\ n = 2 => ~HasSub(a) /\ ~HasBit(a)
      /\ n = 3 => HasSub(a) = ~HasBit(a)
      /\ n = 4 => HasSub(a) /\ HasBit(a)
  BY PartsOfAddress
<1>2. MeantLevels(a) = FlattenSeq(ss)
  BY DEF MeantLevels
<1>3. Len(ss) = n /\ \A i \in 1 .. n : ss[i] = IF i \in plain THEN Inside(a[i]) ELSE <<>>
  BY <1>1
<1>4. 1 \in plain /\ 2 \in plain
  <2>1. \A j \in 1 .. 2 : j = 1 \/ j = 2
    OBVIOUS
  <2> QED
    BY <1>1, <2>1
<1>5. n \in 3 .. 4 => (3 \in plain <=> HasSub(a))
  <2>1. \A j \in 1 .. 3 : j = 1 \/ j = 2 \/ j = 3
    OBVIOUS
  <2> QED
    BY <1>1, <2>1 DEF HasSub
<1>6. n = 4 => 4 \notin plain
  BY <1>1 DEF HasBit
<1> HIDE DEF plain, ss
<1>7. two \in Seq(Nat) /\ two \o <<>> = two
  <2>1. Inside(a[1]) \in Seq(Nat) /\ Inside(a[2]) \in Seq(Nat)
    BY <1>1, PartsOfAddress, InsideType
  <2> QED
    BY <2>1
<1>8. ss[1] \o ss[2] = two
  <2>1. 1 \in 1 .. n /\ 2 \in 1 .. n
    BY <1>1
  <2>2. ss[1] = Inside(a[1]) /\ ss[2] = Inside(a[2])
    BY <1>3, <1>4, <2>1
  <2> QED
    BY <2>2
<1>9. CASE n = 2
  BY <1>1, <1>2, <1>3, <1>7, <1>8, <1>9, FlattenFew
<1>10. CASE n = 3
  <2>1. FlattenSeq(ss) = two \o ss[3]
    <3>1. Len(ss) = 3 /\ Len(ss) \in 2 .. 4
      BY <1>3, <1>10
    <3>2. FlattenSeq(ss) = (ss[1] \o ss[2]) \o ss[3]
      BY <3>1, FlattenFew, Zenon
    <3> QED
      BY <1>8, <3>2, Zenon
  <2>2. ss[3] = IF HasSub(a) THEN Inside(a[3]) ELSE <<>>
    BY <1>3, <1>5, <1>10
  <2> QED
    BY <1>2, <2>1, <2>2
<1>11. CASE n = 4
  <2>1. FlattenSeq(ss) = (two \o ss[3]) \o ss[4]
    <3>1. Len(ss) = 4 /\ Len(ss) \in 2 .. 4
      BY <1>3, <1>11
    <3>2. FlattenSeq(ss) = ((ss[1] \o ss[2]) \o ss[3]) \o ss[4]
      BY <3>1, FlattenFew, Zenon
    <3> QED
      BY <1>8, <3>2, Zenon
  <2>2. ss[3] = Inside(a[3]) /\ ss[4] = <<>> /\ HasSub(a)
    BY <1>1, <1>3, <1>5, <1>6, <1>11
  <2>3. (two \o Inside(a[3])) \o <<>> = two \o Inside(a[3])
    <3>1. 3 \in 1 .. n
      BY <1>11
    <3>2. Inside(a[3]) \in Seq(Nat)
      BY <3>1, PartsOfAddress, InsideType
    <3> HIDE DEF two
    <3> QED
      BY <1>7, <3>2
  <2> QED
    BY <1>2, <2>1, <2>2, <2>3
<1>12. n = 2 \/ n = 3 \/ n = 4
  BY <1>1
<1> QED
  BY <1>9, <1>10, <1>11, <1>12, Zenon

\* What the code makes of an address: of a part of it after another.
LEMMA AddressKept ==
  ASSUME NEW a \in Seq(Parts), IsDataAddress(a)
  PROVE  LET levels == (Encoded(a[1]) \o Encoded(a[2])) \o
                       (IF HasSub(a) THEN Encoded(a[3]) ELSE <<>>)
             bit == IF HasBit(a) THEN LowNumber(a[Len(a)]) % 32
                    ELSE IF HasSub(a) THEN Bit(a[3]) ELSE None
         IN  \E bytes : /\ Coded(bytes, levels)
                        /\ BuildLogicalBinaryAddress(a) =
                             [address |-> <<(2^(Len(levels) + 1) - 2) % 256>> \o bytes, mask |-> bit]
<1> DEFINE n == Len(a)
           after == After(a, n)
           e1 == Encoded(a[1])
           e2 == Encoded(a[2])
           e3 == Encoded(a[3])
           levels == (e1 \o e2) \o (IF HasSub(a) THEN e3 ELSE <<>>)
           bit == IF HasBit(a) THEN LowNumber(a[n]) % 32 ELSE IF HasSub(a) THEN Bit(a[3]) ELSE None
           one == after[1]
           two == after[2]
           three == after[3]
           four == after[4]
           ends == after[n]
<1>1. /\ n \in 2 .. 4 /\ \A i \in 1 .. n : a[i] \in Parts
      /\ a[1].word # "/" /\ a[2].word # "/"
      /\ n = 2 => ~HasSub(a) /\ ~HasBit(a)
      /\ n = 3 => HasSub(a) = ~HasBit(a)
      /\ n = 4 => HasSub(a) /\ HasBit(a)
      /\ HasBit(a) => a[n].word = "/" /\ a[n].number \in Nat
      /\ HasSub(a) => a[3].word # "/"
  BY PartsOfAddress DEF HasSub
<1>2. n \in Nat /\ 1 \in 1 .. n /\ 2 \in 1 .. n /\ (n = 2 \/ n = 3 \/ n = 4)
  BY <1>1
<1>3. Bit(a[1]) = None /\ Bit(a[2]) = None
  BY DEF IsDataAddress, IsFile, FileTypes, Bit
<1>4. after = [i \in 0 .. n |-> IF i = 0 THEN Start ELSE Number(Word(after[i - 1], a[i]), a[i])]
  BY <1>2, AfterEveryPart
<1>5. BuildLogicalBinaryAddress(a) =
        [address |-> <<(2^(ends.levels + 1) - 2) % 256>> \o ends.bytes, mask |-> ends.mask]
  BY DEF BuildLogicalBinaryAddress, After
<1> HIDE DEF after
<1>6. /\ one = Number(Word(Start, a[1]), a[1])
      /\ two = Number(Word(one, a[2]), a[2])
      /\ n \in 3 .. 4 => three = Number(Word(two, a[3]), a[3])
      /\ n = 4 => four = Number(Word(three, a[4]), a[4])
  <2>1. \A i \in 0 .. n : after[i] = IF i = 0 THEN Start ELSE Number(Word(after[i - 1], a[i]), a[i])
    BY <1>4, Zenon
  <2>2. 0 \in 0 .. n /\ 1 \in 0 .. n /\ 2 \in 0 .. n /\ 1 # 0 /\ 2 # 0 /\ 3 # 0 /\ 4 # 0
        /\ 1 - 1 = 0 /\ 2 - 1 = 1 /\ 3 - 1 = 2 /\ 4 - 1 = 3
    BY <1>1
  <2>3. (n \in 3 .. 4 => 3 \in 0 .. n) /\ (n = 4 => 4 \in 0 .. n)
    BY <1>1
  <2>4. after[0] = Start
    BY <2>1, <2>2, Zenon
  <2>5. one = Number(Word(Start, a[1]), a[1])
    BY <2>1, <2>2, <2>4
  <2>6. two = Number(Word(one, a[2]), a[2])
    BY <2>1, <2>2
  <2>7. n \in 3 .. 4 => three = Number(Word(two, a[3]), a[3])
    BY <2>1, <2>2, <2>3
  <2>8. n = 4 => four = Number(Word(three, a[4]), a[4])
    BY <2>1, <2>2, <2>3
  <2> QED
    BY <2>5, <2>6, <2>7, <2>8
<1> HIDE DEF one, two, three, four
<1>7. Kept(one, e1, None, FALSE) /\ e1 \in Seq(Nat)
  <2>1. a[1] \in Parts
    BY <1>1, <1>2
  <2>2. e1 \in Seq(Nat) /\ Kept(one, <<>> \o e1, IF Bit(a[1]) = None THEN None ELSE Bit(a[1]), FALSE)
    BY <1>1, <1>6, <2>1, StartKept, PartKept
  <2>3. <<>> \o e1 = e1
    BY <2>2
  <2> QED
    BY <1>3, <2>2, <2>3
<1>8. Kept(two, e1 \o e2, None, FALSE) /\ e2 \in Seq(Nat)
  <2>1. a[2] \in Parts
    BY <1>1, <1>2
  <2>2. e2 \in Seq(Nat) /\ Kept(two, e1 \o e2, IF Bit(a[2]) = None THEN None ELSE Bit(a[2]), FALSE)
    BY <1>1, <1>6, <1>7, <2>1, PartKept
  <2> QED
    BY <1>3, <2>2
<1> DEFINE both == e1 \o e2
<1>9. both \in Seq(Nat) /\ both \o <<>> = both
  BY <1>7, <1>8
<1>10. HasSub(a) => Kept(three, both \o e3, Bit(a[3]), FALSE)
  <2> SUFFICES ASSUME HasSub(a)
               PROVE  Kept(three, both \o e3, Bit(a[3]), FALSE)
    OBVIOUS
  <2>1. n \in 3 .. 4 /\ 3 \in 1 .. n
    BY DEF HasSub
  <2>2. a[3] \in Parts /\ a[3].word # "/" /\ three = Number(Word(two, a[3]), a[3])
    BY <1>1, <1>6, <2>1
  <2> HIDE DEF both
  <2>3. Kept(two, both, None, FALSE)
    BY <1>8 DEF both
  <2>4. Kept(three, both \o e3, IF Bit(a[3]) = None THEN None ELSE Bit(a[3]), FALSE)
    BY <2>2, <2>3, PartKept
  <2> QED
    BY <2>4
<1>11. \E encoding : Kept(ends, levels, bit, encoding)
  <2>1. CASE n = 2
    <3>1. ends = two /\ levels = both \o <<>> /\ bit = None
      BY <1>1, <2>1 DEF two
    <3> QED
      BY <1>8, <1>9, <3>1
  <2>2. CASE n = 3 /\ HasSub(a)
    <3>1. ends = three /\ levels = both \o e3 /\ bit = Bit(a[3])
      BY <1>1, <2>2 DEF three
    <3> QED
      BY <1>10, <2>2, <3>1
  <2>3. CASE n = 3 /\ ~HasSub(a)
    <3>1. HasBit(a) /\ a[3].word = "/" /\ a[3].number \in Nat
      BY <1>1, <2>3
    <3>2. ends = three /\ levels = both \o <<>> /\ bit = LowNumber(a[3]) % 32
      BY <2>3, <3>1 DEF three
    <3>3. three = Number(Word(two, a[3]), a[3])
      BY <1>6, <2>3
    <3>4. Kept(three, both, LowNumber(a[3]) % 32, TRUE)
      BY <1>8, <3>1, <3>3, BitKept
    <3> QED
      BY <1>9, <3>2, <3>4
  <2>4. CASE n = 4
    <3>1. HasSub(a) /\ HasBit(a) /\ a[4].word = "/" /\ a[4].number \in Nat
      BY <1>1, <2>4
    <3>2. ends = four /\ levels = both \o e3 /\ bit = LowNumber(a[4]) % 32
      BY <2>4, <3>1 DEF four
    <3>3. four = Number(Word(three, a[4]), a[4])
      BY <1>6, <2>4
    <3> DEFINE all == both \o e3
    <3>4. Kept(three, all, Bit(a[3]), FALSE)
      BY <1>10, <3>1
    <3> HIDE DEF all
    <3>5. Kept(four, all, LowNumber(a[4]) % 32, TRUE)
      BY <3>1, <3>3, <3>4, BitKept
    <3> QED
      BY <3>2, <3>5 DEF all
  <2> QED
    BY <1>2, <2>1, <2>2, <2>3, <2>4
<1> HIDE DEF levels, bit, ends
<1>12. Coded(ends.bytes, levels) /\ ends.levels = Len(levels) /\ ends.mask = bit
  BY <1>11 DEF Kept
<1>13. \E bytes : /\ Coded(bytes, levels)
                  /\ BuildLogicalBinaryAddress(a) =
                       [address |-> <<(2^(Len(levels) + 1) - 2) % 256>> \o bytes, mask |-> bit]
  BY <1>5, <1>12, ZenonT(60)
<1> QED
  BY <1>13 DEF levels, bit

\* A number of 16 bits is encoded as it is, and no other.
LEMMA LowNumberValue ==
  ASSUME NEW p, p.number \in Nat
  PROVE  /\ LowNumber(p) = p.number <=> p.number < 65536
         /\ p.number < 32 => LowNumber(p) % 32 = p.number
<1> DEFINE n == p.number
<1>1. LowNumber(p) = n % 65536
  BY DEF LowNumber
<1>2. n \in Nat
  OBVIOUS
<1> HIDE DEF n
<1>3. n % 65536 = n <=> n < 65536
  BY <1>2
<1>4. n < 32 => n % 65536 = n /\ n % 32 = n
  BY <1>2
<1> QED
  BY <1>1, <1>3, <1>4 DEF n

\* The code encodes a part as it is meant exactly if it is one of IsEncoded: the
\* number of a file, of an element, and what is in the element.
LEMMA NumberIsEncoded ==
  ASSUME NEW p \in Parts, p.number \in Nat, Sublevel(p) = None, Inside(p) = <<p.number>>
  PROVE  Len(Encoded(p)) = 1 /\ (Encoded(p) = Inside(p) <=> p.number < 65536)
<1>1. p.number # None
  BY DEF None
<1>2. Encoded(p) = <<>> \o <<LowNumber(p)>>
  BY <1>1 DEF Encoded, Sublevels
<1> DEFINE low == LowNumber(p)
<1>3. low \in Nat /\ (low = p.number <=> p.number < 65536)
  BY LowNumberType, LowNumberValue
<1> HIDE DEF low
<1>4. <<>> \o <<low>> = <<low>> /\ Len(<<low>>) = 1
  BY <1>3
<1>5. <<low>> = <<p.number>> <=> low = p.number
  OBVIOUS
<1> QED
  BY <1>2, <1>3, <1>4, <1>5 DEF low

LEMMA FileIsEncoded ==
  ASSUME NEW p \in Parts, IsFile(p)
  PROVE  /\ Len(Inside(p)) = 1
         /\ Encoded(p) = Inside(p) <=> IsEncoded(p)
         /\ Len(Encoded(p)) = IF p.number = None THEN 0 ELSE 1
<1>1. /\ p.word \in FileTypes /\ Sublevel(p) = None
      /\ p.number \in Nat \/ (p.word \in {"O", "I", "S"} /\ p.number = None)
  BY DEF IsFile, FileTypes, Sublevel
<1>2. CASE p.number \in Nat
  <2>1. Inside(p) = <<p.number>> /\ p.number # None
    BY <1>1, <1>2 DEF Inside, FileTypes, None
  <2>2. IsEncoded(p) <=> p.number < 65536
    BY <1>1, <2>1 DEF IsEncoded, FileTypes
  <2>3. Len(<<p.number>>) = 1
    OBVIOUS
  <2> QED
    BY <1>1, <1>2, <2>1, <2>2, <2>3, NumberIsEncoded
<1>3. CASE p.number = None
  <2>1. p.word \in {"O", "I", "S"}
    BY <1>1, <1>3 DEF None
  <2>2. Inside(p) \in {<<0>>, <<1>>, <<2>>} /\ Len(Inside(p)) = 1
    <3>1. Inside(p) \in {<<0>>, <<1>>, <<2>>}
      BY <1>3, <2>1 DEF Inside
    <3>2. Len(<<0>>) = 1 /\ Len(<<1>>) = 1 /\ Len(<<2>>) = 1
      OBVIOUS
    <3> QED
      BY <3>1, <3>2
  <2>3. Encoded(p) = <<>> \o <<>> /\ Len(Encoded(p)) = 0
    <3>1. Encoded(p) = <<>> \o <<>>
      BY <1>1, <1>3 DEF Encoded, Sublevels
    <3>2. Len(<<>> \o <<>>) = 0
      OBVIOUS
    <3> QED
      BY <3>1, <3>2
  <2>4. ~IsEncoded(p)
    BY <1>3, <2>1 DEF IsEncoded
  <2>5. Encoded(p) # Inside(p)
    BY <2>2, <2>3
  <2> QED
    BY <1>3, <2>2, <2>3, <2>4, <2>5
<1> QED
  BY <1>1, <1>2, <1>3

LEMMA ElementIsEncoded ==
  ASSUME NEW p \in Parts, p.word = ":", p.number \in Nat
  PROVE  /\ Len(Inside(p)) = 1 /\ Len(Encoded(p)) = 1
         /\ Encoded(p) = Inside(p) <=> IsEncoded(p)
<1>1. Sublevel(p) = None /\ p.number # None
  BY DEF Sublevel, None
<1>2. Inside(p) = <<p.number>>
  BY <1>1 DEF Inside
<1>3. IsEncoded(p) <=> p.number < 65536
  BY DEF IsEncoded
<1>4. Len(<<p.number>>) = 1
  OBVIOUS
<1> QED
  BY <1>1, <1>2, <1>3, <1>4, NumberIsEncoded

LEMMA SubelementIsEncoded ==
  ASSUME NEW p \in Parts, NEW file, IsSubelement(p, file)
  PROVE  /\ Len(Inside(p)) = 1
         /\ Encoded(p) = Inside(p) <=> IsEncoded(p)
         /\ file.number = None => Len(Encoded(p)) <= 1
<1>1. CASE p.word = "." /\ p.number \in Nat
  <2>1. Sublevel(p) = None /\ p.number # None
    BY <1>1 DEF Sublevel, None
  <2>2. Inside(p) = <<p.number>>
    BY <1>1, <2>1 DEF Inside
  <2>3. IsEncoded(p) <=> p.number < 65536
    BY <1>1 DEF IsEncoded
  <2>4. Len(<<p.number>>) = 1
    OBVIOUS
  <2>5. Len(Encoded(p)) = 1 /\ (Encoded(p) = Inside(p) <=> IsEncoded(p))
    BY <1>1, <2>1, <2>2, <2>3, NumberIsEncoded
  <2> QED
    BY <2>2, <2>4, <2>5
<1>2. CASE p.word \in Mnemonics /\ p.number = None
  <2> DEFINE n == Sublevel(p)
  <2>1. /\ p.word \in {"POS", "CD"} => n = None
        /\ p.word \in {"EN", "DN", "TT", "CU", "CTL", "LEN"} => n = 0
        /\ p.word = "PRE" => n = 1
        /\ p.word \in {"ACC", "SP"} => n = 2
    BY <1>2 DEF Sublevel, None
  <2>2. /\ p.word \in {"EN", "DN", "TT", "CU", "CD", "CTL"} => Inside(p) = <<0>>
        /\ p.word \in {"PRE", "LEN"} => Inside(p) = <<1>>
        /\ p.word \in {"ACC", "SP", "POS"} => Inside(p) = <<2>>
    BY <1>2 DEF Inside
  <2>3. p.word \in {"POS", "CD", "EN", "DN", "TT", "CU", "CTL", "LEN", "PRE", "ACC", "SP"}
    BY <1>2 DEF Mnemonics, BitMnemonics
  <2>4. IsEncoded(p) <=> p.word \notin {"LEN", "POS", "CD"}
    BY <1>2, <2>3 DEF IsEncoded, None
  <2>5. Encoded(p) = (IF n = None THEN <<>> ELSE <<n>>) \o <<>>
    BY <1>2 DEF Encoded, Sublevels
  <2>6. n = None \/ n \in 0 .. 2
    BY <2>1, <2>3
  <2> HIDE DEF n
  <2>7. Encoded(p) = IF n = None THEN <<>> ELSE <<n>>
    BY <2>5, <2>6
  <2>8. Len(<<>>) = 0 /\ Len(<<n>>) = 1 /\ Len(<<0>>) = 1 /\ Len(<<1>>) = 1 /\ Len(<<2>>) = 1
        /\ <<0>> # <<1>> /\ <<>> # <<0>> /\ <<>> # <<2>>
    OBVIOUS
  <2>9. Len(Inside(p)) = 1
    BY <2>2, <2>3, <2>8
  <2>10. Len(Encoded(p)) <= 1
    <3>1. 0 <= 1 /\ 1 <= 1
      OBVIOUS
    <3> QED
      BY <2>7, <2>8, <3>1
  <2>11. Encoded(p) = Inside(p) <=> IsEncoded(p)
    <3>1. CASE p.word \in {"POS", "CD"}
      BY <2>1, <2>2, <2>4, <2>7, <2>8, <3>1
    <3>2. CASE p.word = "LEN"
      BY <2>1, <2>2, <2>4, <2>7, <2>8, <3>2 DEF None
    <3>3. CASE p.word \in {"EN", "DN", "TT", "CU", "CTL", "PRE", "ACC", "SP"}
      BY <2>1, <2>2, <2>4, <2>7, <2>8, <3>3 DEF None
    <3> QED
      BY <2>3, <3>1, <3>2, <3>3
  <2> QED
    BY <2>9, <2>10, <2>11
<1>3. CASE p.word = "CTL" /\ p.number \in Nat /\ file.word = "PD" /\ file.number # None
  <2>1. p.number # None
    BY <1>3 DEF None
  <2>2. Inside(p) = <<p.number>>
    BY <1>3, <2>1 DEF Inside
  <2>3. ~IsEncoded(p)
    BY <1>3, <2>1 DEF IsEncoded
  <2> DEFINE n == Sublevel(p)  low == LowNumber(p)
  <2>4. n \in Nat /\ n # None
    BY <1>3 DEF Sublevel, None
  <2>5. Encoded(p) = <<n>> \o <<low>>
    BY <2>1, <2>4 DEF Encoded, Sublevels
  <2>6. low \in Nat
    BY <1>3, LowNumberType
  <2> HIDE DEF n, low
  <2>7. Len(<<n>> \o <<low>>) = 2 /\ Len(<<p.number>>) = 1
    BY <2>4, <2>6
  <2>8. Encoded(p) # Inside(p)
    BY <2>2, <2>5, <2>7
  <2> QED
    BY <1>3, <2>2, <2>3, <2>7, <2>8
<1> QED
  BY <1>1, <1>2, <1>3 DEF IsSubelement

\* Sequences that begin with others as long are equal part by part.
LEMMA SameParts ==
  ASSUME NEW x \in Seq(Nat), NEW y \in Seq(Nat), NEW u \in Seq(Nat), NEW v \in Seq(Nat),
         Len(x) = Len(u), x \o y = u \o v
  PROVE  x = u /\ y = v
<1> DEFINE m == Len(x)
           n == Len(y)
           k == Len(v)
           z == x \o y
<1>1. /\ m \in Nat /\ n \in Nat /\ k \in Nat /\ Len(u) = m
      /\ x = [i \in 1 .. m |-> x[i]] /\ u = [i \in 1 .. m |-> u[i]]
      /\ y = [i \in 1 .. n |-> y[i]] /\ v = [i \in 1 .. k |-> v[i]]
  OBVIOUS
<1>2. /\ Len(z) = m + n
      /\ \A i \in 1 .. m + n : z[i] = IF i <= m THEN x[i] ELSE y[i - m]
  BY ConcatProperties
<1>3. /\ Len(z) = m + k
      /\ \A i \in 1 .. m + k : z[i] = IF i <= m THEN u[i] ELSE v[i - m]
  <2>1. /\ Len(u \o v) = Len(u) + k
        /\ \A i \in 1 .. Len(u) + k : (u \o v)[i] = IF i <= Len(u) THEN u[i] ELSE v[i - Len(u)]
    BY ConcatProperties
  <2>2. z = u \o v /\ Len(u) = m
    OBVIOUS
  <2> HIDE DEF z, m
  <2> QED
    BY <2>1, <2>2
<1> HIDE DEF z, m, n, k
<1>4. n = k
  BY <1>1, <1>2, <1>3
<1>5. \A i \in 1 .. m : x[i] = u[i]
  <2> TAKE i \in 1 .. m
  <2>1. i \in 1 .. m + n /\ i <= m
    BY <1>1
  <2> QED
    BY <1>2, <1>3, <1>4, <2>1
<1>6. \A i \in 1 .. n : y[i] = v[i]
  <2> TAKE i \in 1 .. n
  <2>1. m + i \in 1 .. m + n /\ ~(m + i <= m) /\ (m + i) - m = i
    BY <1>1
  <2>2. z[m + i] = y[(m + i) - m] /\ z[m + i] = v[(m + i) - m]
    BY <1>2, <1>3, <1>4, <2>1
  <2> QED
    BY <2>1, <2>2
<1> QED
  BY <1>1, <1>4, <1>5, <1>6

\* The levels are encoded as they are meant exactly if each part is.
LEMMA LevelsAsMeant ==
  ASSUME NEW a \in Seq(Parts), IsDataAddress(a)
  PROVE  LET levels == (Encoded(a[1]) \o Encoded(a[2])) \o
                       (IF HasSub(a) THEN Encoded(a[3]) ELSE <<>>)
             fits == IsEncoded(a[1]) /\ IsEncoded(a[2]) /\ (HasSub(a) => IsEncoded(a[3]))
         IN  /\ levels \in Seq(Nat) /\ Len(levels) \in 0 .. 4
             /\ levels = MeantLevels(a) <=> fits
             /\ fits => Len(levels) <= 3
<1> DEFINE e1 == Encoded(a[1])
           e2 == Encoded(a[2])
           e3 == IF HasSub(a) THEN Encoded(a[3]) ELSE <<>>
           m1 == Inside(a[1])
           m2 == Inside(a[2])
           m3 == IF HasSub(a) THEN Inside(a[3]) ELSE <<>>
           levels == (e1 \o e2) \o e3
           meant == (m1 \o m2) \o m3
           fits == IsEncoded(a[1]) /\ IsEncoded(a[2]) /\ (HasSub(a) => IsEncoded(a[3]))
           number == a[1].number
<1>1. /\ a[1] \in Parts /\ a[2] \in Parts
      /\ HasSub(a) => a[3] \in Parts /\ a[3].word # "/" /\ IsSubelement(a[3], a[1])
  <2>1. Len(a) \in 2 .. 4 /\ \A i \in 1 .. Len(a) : a[i] \in Parts
    BY PartsOfAddress
  <2>2. 1 \in 1 .. Len(a) /\ 2 \in 1 .. Len(a) /\ (HasSub(a) => 3 \in 1 .. Len(a))
    BY <2>1 DEF HasSub
  <2> QED
    BY <2>1, <2>2, PartsOfAddress DEF HasSub
<1>2. /\ e1 \in Seq(Nat) /\ e2 \in Seq(Nat) /\ e3 \in Seq(Nat)
      /\ m1 \in Seq(Nat) /\ m2 \in Seq(Nat) /\ m3 \in Seq(Nat)
  <2>1. \A p \in Parts : p.word # "/" => Encoded(p) \in Seq(Nat)
    BY StartKept, PartKept
  <2>2. a[1].word # "/" /\ a[2].word # "/" /\ <<>> \in Seq(Nat)
    BY PartsOfAddress
  <2> QED
    BY <1>1, <2>1, <2>2, InsideType
<1>3. /\ Len(m1) = 1 /\ Len(m2) = 1 /\ Len(e2) = 1
      /\ Len(e1) = IF number = None THEN 0 ELSE 1
      /\ (e1 = m1 <=> IsEncoded(a[1])) /\ (e2 = m2 <=> IsEncoded(a[2]))
  BY <1>1, FileIsEncoded, ElementIsEncoded DEF IsDataAddress
<1>4. /\ e3 = m3 <=> (HasSub(a) => IsEncoded(a[3]))
      /\ Len(m3) = IF HasSub(a) THEN 1 ELSE 0
      /\ HasSub(a) /\ number = None => Len(e3) <= 1
      /\ ~HasSub(a) => Len(e3) = 0
  <2>1. CASE HasSub(a)
    BY <1>1, <2>1, SubelementIsEncoded
  <2>2. CASE ~HasSub(a)
    BY <2>2
  <2> QED
    BY <2>1, <2>2
<1>5. MeantLevels(a) = meant
  BY LevelsMeant
<1>6. Len(e3) \in 0 .. 2
  <2>1. CASE HasSub(a)
    <3> DEFINE p == a[3]
               low == IF p.number = None THEN <<>> ELSE <<LowNumber(p)>>
    <3>1. e3 = Sublevels(p) \o low
      BY <2>1 DEF Encoded
    <3>2. p \in Parts /\ (p.number # None => LowNumber(p) \in Nat)
      BY <1>1, <2>1, LowNumberType DEF Parts
    <3>3. Sublevels(p) \in Seq(Nat) /\ Len(Sublevels(p)) \in 0 .. 1
      <4> DEFINE n == Sublevel(p)
      <4>1. n = None \/ n \in Nat
        BY DEF Sublevel
      <4>2. Sublevels(p) = IF n = None THEN <<>> ELSE <<n>>
        BY DEF Sublevels
      <4> HIDE DEF n
      <4> QED
        BY <4>1, <4>2
    <3>4. low \in Seq(Nat) /\ Len(low) \in 0 .. 1
      <4> DEFINE n == LowNumber(p)
      <4>1. low = (IF p.number = None THEN <<>> ELSE <<n>>) /\ (p.number # None => n \in Nat)
        BY <3>2
      <4> HIDE DEF n, low
      <4> QED
        BY <4>1
    <3> HIDE DEF low, p, e3
    <3>5. Len(e3) = Len(Sublevels(p)) + Len(low)
      BY <3>1, <3>3, <3>4
    <3> DEFINE k == Len(Sublevels(p))  l == Len(low)  m == Len(e3)
    <3>6. k \in 0 .. 1 /\ l \in 0 .. 1 /\ m = k + l
      BY <3>3, <3>4, <3>5
    <3> HIDE DEF k, l, m
    <3>7. m \in 0 .. 2
      BY <3>6
    <3> QED
      BY <3>7 DEF m
  <2>2. CASE ~HasSub(a)
    BY <1>4, <2>2
  <2> QED
    BY <2>1, <2>2
<1> HIDE DEF e1, e2, e3, m1, m2, m3
<1>7. /\ levels \in Seq(Nat) /\ Len(levels) = Len(e1) + 1 + Len(e3)
      /\ meant \in Seq(Nat) /\ Len(meant) = 2 + Len(m3)
      /\ e1 \o e2 \in Seq(Nat) /\ Len(e1 \o e2) = Len(e1) + 1
      /\ m1 \o m2 \in Seq(Nat) /\ Len(m1 \o m2) = 2
  <2>1. /\ e1 \o e2 \in Seq(Nat) /\ Len(e1 \o e2) = Len(e1) + 1
        /\ m1 \o m2 \in Seq(Nat) /\ Len(m1 \o m2) = 2
    <3>1. /\ e1 \o e2 \in Seq(Nat) /\ Len(e1 \o e2) = Len(e1) + Len(e2)
          /\ m1 \o m2 \in Seq(Nat) /\ Len(m1 \o m2) = Len(m1) + Len(m2)
      BY <1>2, ConcatProperties
    <3> QED
      BY <1>3, <3>1
  <2> DEFINE e == e1 \o e2  m == m1 \o m2
  <2> HIDE DEF e, m
  <2>2. /\ e \in Seq(Nat) /\ m \in Seq(Nat) /\ Len(e) = Len(e1) + 1 /\ Len(m) = 2
    BY <2>1 DEF e, m
  <2>3. /\ e \o e3 \in Seq(Nat) /\ Len(e \o e3) = Len(e) + Len(e3)
        /\ m \o m3 \in Seq(Nat) /\ Len(m \o m3) = Len(m) + Len(m3)
    BY <1>2, <2>2, ConcatProperties
  <2> QED
    BY <2>1, <2>2, <2>3 DEF e, m
<1>8. Len(levels) \in 0 .. 4
  <2> DEFINE k == Len(e1)  l == Len(e3)  m == Len(levels)
  <2>1. k \in 0 .. 1 /\ l \in 0 .. 2 /\ m = k + 1 + l
    BY <1>3, <1>6, <1>7
  <2> HIDE DEF k, l, m
  <2>2. m \in 0 .. 4
    BY <2>1
  <2> QED
    BY <2>2 DEF m
<1>9. fits <=> e1 = m1 /\ e2 = m2 /\ e3 = m3
  BY <1>3, <1>4
<1>10. ASSUME levels = meant
       PROVE  e1 = m1 /\ e2 = m2 /\ e3 = m3
  <2>1. number # None
    <3> SUFFICES ASSUME number = None
                 PROVE  FALSE
      OBVIOUS
    <3>1. Len(levels) = Len(meant)
      BY <1>10
    <3> HIDE DEF levels, meant, number
    <3>2. Len(e1) = 0
      BY <1>3
    <3>3. Len(e3) <= Len(m3)
      BY <1>4
    <3>4. Len(m3) \in Nat
      BY <1>4
    <3> QED
      BY <1>6, <1>7, <3>1, <3>2, <3>3, <3>4
  <2>2. Len(e1) = 1 /\ Len(e1 \o e2) = Len(m1 \o m2)
    BY <1>3, <1>7, <2>1
  <2>3. e1 \o e2 = m1 \o m2 /\ e3 = m3
    BY <1>2, <1>7, <1>10, <2>2, SameParts, Zenon
  <2>4. Len(e1) = Len(m1)
    BY <1>3, <2>2
  <2>5. e1 = m1 /\ e2 = m2
    BY <1>2, <2>3, <2>4, SameParts, Zenon
  <2> QED
    BY <2>3, <2>5
<1>11. levels = meant <=> fits
  BY <1>9, <1>10
<1>12. fits => Len(levels) <= 3
  <2> SUFFICES ASSUME fits
               PROVE  Len(levels) <= 3
    OBVIOUS
  <2>1. levels = meant
    BY <1>11
  <2> DEFINE k == Len(m3)  m == Len(meant)
  <2>2. k \in 0 .. 1 /\ m = 2 + k
    BY <1>4, <1>7
  <2> HIDE DEF k, m
  <2>3. m <= 3
    BY <2>2
  <2> QED
    BY <2>1, <2>3 DEF m
<1> HIDE DEF meant
<1> QED
  BY <1>5, <1>7, <1>8, <1>11, <1>12 DEF levels, fits, e1, e2, e3

\* The bit that is meant.
LEMMA BitsMeant ==
  ASSUME NEW a \in Seq(Parts), IsDataAddress(a)
  PROVE  /\ HasBit(a) => LET number == a[Len(a)].number
                         IN  MeantBit(a) = IF number < 32 THEN number ELSE None
         /\ ~HasBit(a) /\ ~HasSub(a) => MeantBit(a) = None
         /\ ~HasBit(a) /\ HasSub(a) /\ IsEncoded(a[3]) => MeantBit(a) = Bit(a[3])
<1> DEFINE n == Len(a)
           last == a[n]
           Selects(p, b) == \/ p.word = "/" /\ p.number = b
                            \/ p.word \in {"EN", "CU"} /\ b = 15
                            \/ p.word \in {"TT", "CD"} /\ b = 14
                            \/ p.word = "DN" /\ b = 13
           bits == {b \in 0 .. 31 : \E i \in DOMAIN a : Selects(a[i], b)}
           Only(b) == \A c \in 0 .. 31 : (\E i \in DOMAIN a : Selects(a[i], c)) <=> c = b
<1>1. MeantBit(a) = IF bits = {} THEN None ELSE CHOOSE b \in bits : TRUE
  BY DEF MeantBit
<1>2. /\ n \in 2 .. 4 /\ DOMAIN a = 1 .. n
      /\ n = 2 => ~HasSub(a) /\ ~HasBit(a)
      /\ n = 3 => HasSub(a) = ~HasBit(a)
      /\ n = 4 => HasSub(a) /\ HasBit(a) /\ a[3].word \notin BitMnemonics
      /\ HasBit(a) => last.word = "/" /\ last.number \in Nat
      /\ HasSub(a) => a[3].word # "/" /\ IsSubelement(a[3], a[1])
  BY PartsOfAddress DEF HasSub
<1>3. \A b : ~Selects(a[1], b) /\ ~Selects(a[2], b)
  BY DEF IsDataAddress, IsFile, FileTypes
<1>4. n = 4 => \A b : ~Selects(a[3], b)
  BY <1>2 DEF BitMnemonics
<1>5. \A i \in 1 .. n : i = 1 \/ i = 2 \/ (i = 3 /\ n \in 3 .. 4) \/ (i = 4 /\ n = 4)
  BY <1>2
<1>6. \A b : Only(b) => MeantBit(a) = IF b \in 0 .. 31 THEN b ELSE None
  <2> SUFFICES ASSUME NEW b, Only(b)
               PROVE  MeantBit(a) = IF b \in 0 .. 31 THEN b ELSE None
    BY Zenon
  <2>1. CASE b \in 0 .. 31
    <3>1. bits = {b}
      BY <2>1
    <3> HIDE DEF bits, Only
    <3>2. MeantBit(a) = CHOOSE c \in {b} : TRUE
      BY <1>1, <3>1
    <3> QED
      BY <2>1, <3>2
  <2>2. CASE b \notin 0 .. 31
    <3>1. bits = {}
      BY <2>2
    <3> HIDE DEF bits, Only
    <3> QED
      BY <1>1, <2>2, <3>1
  <2> QED
    BY <2>1, <2>2
<1>7. n = 2 \/ n = 3 \/ n = 4
  BY <1>2
<1> HIDE DEF Selects, bits
<1>8. CASE HasBit(a)
  <2> DEFINE number == last.number
  <2>1. number \in Nat /\ last.word = "/"
    BY <1>2, <1>8
  <2>2. \A b : Selects(last, b) <=> number = b
    BY <2>1 DEF Selects
  <2>3. n \in 3 .. 4 /\ n \in DOMAIN a
    BY <1>2, <1>8
  <2>4. \A i \in 1 .. n : \A b : i # n => ~Selects(a[i], b)
    <3> SUFFICES ASSUME NEW i \in 1 .. n, i # n
                 PROVE  \A b : ~Selects(a[i], b)
      BY Zenon
    <3>1. i = 1 \/ i = 2 \/ (i = 3 /\ n = 4)
      <4>1. i = 1 \/ i = 2 \/ (i = 3 /\ n \in 3 .. 4) \/ (i = 4 /\ n = 4)
        BY <1>5, Zenon
      <4>2. i # n
        OBVIOUS
      <4> HIDE DEF n
      <4> QED
        BY <1>7, <4>1, <4>2
    <3> QED
      BY <1>3, <1>4, <3>1, Zenon
  <2>5. Only(number)
    BY <1>2, <2>2, <2>3, <2>4, ZenonT(60)
  <2> HIDE DEF number
  <2>6. MeantBit(a) = IF number < 32 THEN number ELSE None
    <3>1. number \in Nat
      BY <2>1 DEF number
    <3>2. number \in 0 .. 31 <=> number < 32
      BY <3>1
    <3> HIDE DEF Only
    <3> QED
      BY <1>6, <2>5, <3>2
  <2> QED
    BY <1>8, <2>6 DEF number
<1>9. CASE ~HasBit(a) /\ ~HasSub(a)
  <2>1. n = 2
    <3>1. n = 2 \/ n = 3 \/ n = 4
      BY <1>2
    <3> QED
      BY <1>2, <1>9, <3>1, Zenon
  <2>2. \A i \in 1 .. n : \A b : ~Selects(a[i], b)
    BY <1>3, <1>5, <2>1
  <2>3. Only(None)
    BY <1>2, <2>2 DEF None
  <2> HIDE DEF Only
  <2> QED
    BY <1>6, <1>9, <2>3 DEF None
<1>10. CASE ~HasBit(a) /\ HasSub(a)
  <2> SUFFICES ASSUME IsEncoded(a[3])
               PROVE  MeantBit(a) = Bit(a[3])
    BY <1>10
  <2> DEFINE p == a[3]
  <2>1. n = 3 /\ 3 \in DOMAIN a
    BY <1>2, <1>10
  <2>2. p.word # "/" /\ p.word \in {"."} \cup Mnemonics /\ p.word \notin {"LEN", "POS", "CD"}
    BY <1>2, <1>10 DEF IsSubelement, IsEncoded, Mnemonics
  <2>3. \A i \in 1 .. n : \A b : i # 3 => ~Selects(a[i], b)
    BY <1>3, <1>5, <2>1
  <2>4. \A b \in 0 .. 31 : Selects(p, b) <=> b = Bit(p)
    <3> TAKE b \in 0 .. 31
    <3>1. p.word \in {".", "EN", "TT", "DN", "CU", "PRE", "ACC", "SP", "CTL"}
      BY <2>2 DEF Mnemonics, BitMnemonics
    <3>2. CASE p.word \in {"EN", "CU"}
      BY <3>2 DEF Selects, Bit
    <3>3. CASE p.word = "TT"
      BY <3>3 DEF Selects, Bit
    <3>4. CASE p.word = "DN"
      BY <3>4 DEF Selects, Bit
    <3>5. CASE p.word \in {".", "PRE", "ACC", "SP", "CTL"}
      <4>1. Bit(p) = None
        BY <3>5 DEF Bit
      <4>2. ~Selects(p, b)
        BY <3>5 DEF Selects
      <4> QED
        BY <4>1, <4>2 DEF None
    <3> QED
      BY <3>1, <3>2, <3>3, <3>4, <3>5
  <2>5. Only(Bit(p))
    BY <1>2, <2>1, <2>3, <2>4
  <2>6. Bit(p) = None \/ Bit(p) \in 0 .. 31
    BY DEF Bit
  <2> HIDE DEF Only
  <2> QED
    BY <1>6, <2>5, <2>6
<1> QED
  BY <1>8, <1>9, <1>10

\* What BuildLogicalBinaryAddress makes of an address is understood exactly if each
\* of its parts is encoded as it is meant.
LEMMA AddressIsRead ==
  ASSUME NEW a \in Seq(Parts), IsDataAddress(a)
  PROVE  LET built == BuildLogicalBinaryAddress(a)
         IN  (\A i \in DOMAIN a : IsEncoded(a[i])) <=>
               /\ Levels(built.address) = MeantLevels(a)
               /\ built.mask = MeantBit(a)
               /\ Len(built.address) <= 10
<1> DEFINE n == Len(a)
           levels == (Encoded(a[1]) \o Encoded(a[2])) \o
                     (IF HasSub(a) THEN Encoded(a[3]) ELSE <<>>)
           bit == IF HasBit(a) THEN LowNumber(a[n]) % 32 ELSE IF HasSub(a) THEN Bit(a[3]) ELSE None
           fits == IsEncoded(a[1]) /\ IsEncoded(a[2]) /\ (HasSub(a) => IsEncoded(a[3]))
           built == BuildLogicalBinaryAddress(a)
           every == \A i \in DOMAIN a : IsEncoded(a[i])
<1>1. PICK bytes : /\ Coded(bytes, levels)
                   /\ built = [address |-> <<(2^(Len(levels) + 1) - 2) % 256>> \o bytes, mask |-> bit]
  BY AddressKept, ZenonT(60)
<1>2. /\ Len(levels) \in 0 .. 4
      /\ levels = MeantLevels(a) <=> fits
      /\ fits => Len(levels) <= 3
  BY LevelsAsMeant
<1>3. /\ n \in 2 .. 4 /\ DOMAIN a = 1 .. n
      /\ n = 2 => ~HasSub(a) /\ ~HasBit(a)
      /\ n = 3 => HasSub(a) = ~HasBit(a)
      /\ n = 4 => HasSub(a) /\ HasBit(a)
      /\ HasBit(a) => a[n].word = "/" /\ a[n].number \in Nat
  BY PartsOfAddress
<1> HIDE DEF levels, built
<1>4. /\ Levels(built.address) = levels
      /\ Len(built.address) = Len(bytes) + 1
      /\ built.mask = bit
  <2> DEFINE address == <<(2^(Len(levels) + 1) - 2) % 256>> \o bytes
  <2>1. Levels(address) = levels /\ Len(address) = Len(bytes) + 1
    BY <1>1, <1>2, CodedIsRead
  <2> HIDE DEF address
  <2>2. built = [address |-> address, mask |-> bit]
    BY <1>1 DEF address
  <2> QED
    BY <2>1, <2>2
<1>5. fits => Len(built.address) <= 10
  <2> DEFINE size == Len(built.address)  most == Len(levels)  l == Len(bytes)
  <2>1. l \in Nat /\ most \in Nat /\ l <= 3 * most /\ size = l + 1
    BY <1>1, <1>4 DEF Coded
  <2>2. fits => most <= 3
    BY <1>2
  <2> HIDE DEF size, most, l, fits
  <2> QED
    BY <2>1, <2>2 DEF size
<1>6. every <=> fits /\ (HasBit(a) => IsEncoded(a[n]))
  <2>1. n = 2 \/ n = 3 \/ n = 4
    BY <1>3
  <2>2. CASE n = 2
    <3>1. \A i : i \in 1 .. n <=> i = 1 \/ i = 2
      BY <2>2
    <3> QED
      BY <1>3, <2>2, <3>1
  <2>3. CASE n = 3
    <3>1. \A i : i \in 1 .. n <=> i = 1 \/ i = 2 \/ i = 3
      BY <2>3
    <3> QED
      BY <1>3, <2>3, <3>1
  <2>4. CASE n = 4
    <3>1. \A i : i \in 1 .. n <=> i = 1 \/ i = 2 \/ i = 3 \/ i = 4
      BY <2>4
    <3> QED
      BY <1>3, <2>4, <3>1
  <2> QED
    BY <2>1, <2>2, <2>3, <2>4
<1>7. ASSUME fits
      PROVE  (HasBit(a) => IsEncoded(a[n])) <=> bit = MeantBit(a)
  <2>1. CASE HasBit(a)
    <3> DEFINE number == a[n].number  code == LowNumber(a[n]) % 32
    <3>1. IsEncoded(a[n]) <=> number < 32
      BY <1>3, <2>1 DEF IsEncoded
    <3>2. MeantBit(a) = IF number < 32 THEN number ELSE None
      BY <2>1, BitsMeant
    <3>3. code \in Nat /\ (number < 32 => code = number)
      <4>1. LowNumber(a[n]) \in Nat /\ (number < 32 => code = number)
        BY <1>3, <2>1, LowNumberType, LowNumberValue
      <4>2. code \in Nat
        BY <4>1
      <4> QED
        BY <4>1, <4>2
    <3>4. bit = code
      BY <2>1
    <3> HIDE DEF number, code, bit
    <3>5. IsEncoded(a[n]) <=> bit = MeantBit(a)
      BY <3>1, <3>2, <3>3, <3>4 DEF None
    <3> QED
      BY <2>1, <3>5
  <2>2. CASE ~HasBit(a)
    BY <1>7, <2>2, BitsMeant
  <2> QED
    BY <2>1, <2>2
<1> HIDE DEF bit, fits, every
<1>8. every <=> /\ Levels(built.address) = MeantLevels(a)
                /\ built.mask = MeantBit(a)
                /\ Len(built.address) <= 10
  BY <1>2, <1>4, <1>5, <1>6, <1>7
<1> QED
  BY <1>8 DEF every, built

\* Of every address of the form that addresses of data files have, the PLC reads
\* what is meant exactly if it is one the code can encode; for any numbers in it
\* (_BuildLogicalBinaryAddress).
THEOREM AddressIsUnderstoodAlways ==
  ASSUME \A address \in Addresses : IsDataAddress(address)
  PROVE  Spec => []AddressIsUnderstood
<1> DEFINE Built == AddressIsSent =>
                      /\ item.address \in Addresses
                      /\ request.address = BuildLogicalBinaryAddress(item.address).address
                      /\ request.mask = BuildLogicalBinaryAddress(item.address).mask
<1>1. Init => Built
  BY DEF Init, AddressIsSent
<1>2. Built /\ [Next]_vars => Built'
  <2> SUFFICES ASSUME Built, [Next]_vars
               PROVE  Built'
    OBVIOUS
  <2>1. ASSUME NEW address \in Addresses, AskData(address)
        PROVE  Built'
    BY <2>1 DEF AskData, Ask, AddressIsSent
  <2>2. ASSUME NEW nro \in Queues, AskStatus(nro)
        PROVE  Built'
    BY <2>2 DEF AskStatus, Ask, DATA_REQ, QUEUE_STATUS_REQ, AddressIsSent
  <2>3. ASSUME NEW nro \in Queues, NEW number \in AskedSizes, AskRecord(nro, number)
        PROVE  Built'
    BY <2>3 DEF AskRecord, Ask, DATA_REQ, QUEUE_DATA_REQ, AddressIsSent
  <2>4. CASE pc' \notin {"asked", "daemonSent"}
    BY <2>4 DEF AddressIsSent
  <2>5. CASE UNCHANGED vars
    BY <2>5 DEF vars, AddressIsSent
  <2>6. ASSUME NEW address \in Addresses, NEW type, NEW value, WriteTuxEip(address, type, value)
        PROVE  Built'
    BY <2>6 DEF WriteTuxEip, AddressIsSent
  <2>7. ASSUME Next
        PROVE  \/ \E address \in Addresses :
                    AskData(address) \/ \E type, value : WriteTuxEip(address, type, value)
               \/ \E nro \in Queues : \/ AskStatus(nro)
                                      \/ \E number \in AskedSizes : AskRecord(nro, number)
               \/ pc' \notin {"asked", "daemonSent"}
    <3>1. ReadPLCData \/ Publish \/ PublishStatus \/ KeepRecord \/ SkipRecord \/ WritePLCData
            \/ ReportWrite => pc' \notin {"asked", "daemonSent"}
      BY DEF ReadPLCData, Publish, PublishStatus, KeepRecord, SkipRecord, WritePLCData,
             ReportWrite
    <3>2. \A type, words : AnswerArray(type, words) \/ AnswerScalar(type, words)
                             => pc' \notin {"asked", "daemonSent"}
      BY DEF AnswerArray, AnswerScalar, Answer
    <3>3. \A n : AnswerStatus(n) \/ AnswerRecord(n) => pc' \notin {"asked", "daemonSent"}
      BY DEF AnswerStatus, AnswerRecord, Answer
    <3>4. \A type, words : BuildPLCWriteDataRequest(type, words)
                             => pc' \notin {"asked", "daemonSent"}
      BY DEF BuildPLCWriteDataRequest
    <3> QED
      BY <2>7, <3>1, <3>2, <3>3, <3>4 DEF Next
  <2> QED
    BY <2>1, <2>2, <2>3, <2>4, <2>5, <2>7, <2>6
<1>3. Built => AddressIsUnderstood
  <2> SUFFICES ASSUME Built, AddressIsSent
               PROVE  AddressIsUnderstood
    BY DEF AddressIsUnderstood
  <2> DEFINE a == item.address
  <2>1. a \in Addresses /\ IsDataAddress(a)
    OBVIOUS
  <2>2. a \in Seq(Parts)
    BY <2>1, PcccAssumption DEF Parts
  <2>3. /\ request.address = BuildLogicalBinaryAddress(a).address
        /\ request.mask = BuildLogicalBinaryAddress(a).mask
    OBVIOUS
  <2> HIDE DEF a
  <2>4. (\A i \in DOMAIN a : IsEncoded(a[i])) <=>
          /\ Levels(request.address) = MeantLevels(a)
          /\ request.mask = MeantBit(a)
          /\ Len(request.address) <= 10
    BY <2>1, <2>2, <2>3, AddressIsRead
  <2> QED
    BY <2>4 DEF AddressIsUnderstood, a
<1> QED
  BY <1>1, <1>2, <1>3, PTL DEF Spec

=============================================================================
