----------------------------- MODULE PlcAddress -----------------------------
(***************************************************************************)
(* Addresses of data files, from their text to the bytes of a request      *)
(* (_BuildLogicalBinaryAddress).                                           *)
(*                                                                         *)
(* The text is a sequence of parts, each a word or a separator and the     *)
(* number that follows it, or None: "T4:0.ACC" is T 4, ":" 0, "ACC" None.  *)
(* Numbers are levels of the address, until a "/"; a mnemonic is one more  *)
(* level, and some of them select a bit.                                   *)
(***************************************************************************)
EXTENDS Bytes, FiniteSets, SequencesExt

None == -1  \* no number, or no bit mask

Part(word, number) == [word |-> word, number |-> number]

\* Levels that mnemonics stand for.  The text is searched at every letter of
\* it, so that LEN contains EN.
Sublevel(p) ==
  CASE p.word \in {"DN", "EN", "LEN", "TT", "CU", "OV", "SWM", "MO"} -> 0
    [] p.word = "CTL" -> IF p.number = 1 THEN 1 ELSE 0
    [] p.word \in {"PRE", "OLL", "OLH"} -> 1
    [] p.word \in {"ACC", "SP"} -> 2
    [] p.word = "KP" -> 4
    [] p.word = "KI" -> 6
    [] p.word = "KD" -> 8
    [] p.word = "PV" -> 26
    [] OTHER -> None

\* Bits that mnemonics stand for.
Bit(p) ==
  CASE p.word \in {"EN", "LEN", "CU"} -> 15
    [] p.word = "TT" -> 14
    [] p.word = "DN" -> 13
    [] p.word = "OV" -> 12
    [] p.word = "OLL" -> 10
    [] p.word = "OLH" -> 9
    [] p.word = "SWM" -> 4
    [] p.word = "MO" -> 1
    [] OTHER -> None

\* Mutant of LevelValue: the high byte comes first.
LevelValueHighFirst(number) ==
  IF number < 255 THEN <<number>> ELSE <<255, number \div 256, number % 256>>

\* A level takes one byte, or a byte 255 and two.
LevelValue(number) == IF number < 255 THEN <<number>> ELSE <<255>> \o Field(number, 2)

AddLevel(lba, bytes) == [lba EXCEPT !.levels = @ + 1, !.bytes = @ \o bytes]

Word(lba, p) ==
  LET deeper == IF Sublevel(p) = None THEN lba ELSE AddLevel(lba, <<Sublevel(p)>>)
  IN  [deeper EXCEPT !.encoding_bit = @ \/ p.word = "/",
                     !.mask = IF Bit(p) = None THEN @ ELSE Bit(p)]

\* A number is kept in 16 bits, and the mask is shifted by its low five.
Number(lba, p) ==
  LET i == p.number % 65536
  IN  IF p.number = None THEN lba
      ELSE IF lba.encoding_bit THEN [lba EXCEPT !.mask = i % 32]
      ELSE AddLevel(lba, LevelValue(i))

Start == [levels |-> 0, bytes |-> <<>>, mask |-> None, encoding_bit |-> FALSE]

\* The first byte has a bit for every level that follows, from bit 1 on.
BuildLogicalBinaryAddress(address) ==
  LET after[i \in 0 .. Len(address)] ==
        IF i = 0 THEN Start ELSE Number(Word(after[i - 1], address[i]), address[i])
      lba == after[Len(address)]
  IN  [address |-> <<(2^(lba.levels + 1) - 2) % 256>> \o lba.bytes, mask |-> lba.mask]

-----------------------------------------------------------------------------
\* The PLC's reading of a logical binary address: the numbers of its levels.

Levels(bytes) ==
  LET Size(at) == IF bytes[at] = 255 THEN 3 ELSE 1
      count == Cardinality({b \in 1 .. 7 : (bytes[1] \div 2^b) % 2 = 1})
      at[k \in 1 .. count] == IF k = 1 THEN 2 ELSE at[k - 1] + Size(at[k - 1])
  IN  [k \in 1 .. count |->
         IF Size(at[k]) = 1 THEN bytes[at[k]] ELSE LittleEndian(bytes, at[k] + 1, 2)]
=============================================================================
