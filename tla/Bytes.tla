------------------------------- MODULE Bytes --------------------------------
(***************************************************************************)
(* Integers as the bytes of a message: the library copies them as they lie *)
(* in the memory of a little-endian machine.                               *)
(***************************************************************************)
EXTENDS Integers, Sequences

Byte == 0 .. 255
Word16 == 0 .. 65535
Integer16 == -32768 .. 32767

\* What a byte stands for by its place.
Place == <<1, 256, 65536, 16777216>>

TwoTo ==
  <<1, 2, 4, 8, 16, 32, 64, 128, 256, 512, 1024, 2048, 4096, 8192, 16384, 32768>>

\* The low bytes of an integer of 32 bits; a negative one in two's complement.
Field(value, width) ==
  [i \in 1 .. width |->
     IF i > 4 THEN (IF value < 0 THEN 255 ELSE 0) ELSE (value \div Place[i]) % 256]

\* Values one behind the other.
Packed(values, size) ==
  [i \in 1 .. Len(values) * size |->
     Field(values[(i - 1) \div size + 1], size)[((i - 1) % size) + 1]]

\* What width bytes stand for, without a sign.
LittleEndian(bytes, at, width) ==
  LET B(i) == IF i < width THEN bytes[at + i] * Place[i + 1] ELSE 0
  IN  B(0) + B(1) + B(2) + B(3)

\* What up to four bytes stand for, with a sign.
SignedField(bytes, at, width) ==
  LET top == bytes[at + width - 1]
      high == IF top < 128 THEN top ELSE top - 256
  IN  LittleEndian(bytes, at, width - 1) + high * Place[width]

Signed(word) == IF word < 32768 THEN word ELSE word - 65536
=============================================================================
