-------------------------------- MODULE Ioi ---------------------------------
(***************************************************************************)
(* The path to an element of a tag (CIP_IOI.c), and a controller's reading *)
(* of it.                                                                  *)
(*                                                                         *)
(* A tag is a sequence of members, as "." separates them, each a name and  *)
(* the indices in the brackets after it: "A.B[1,2]" is A, then B with the  *)
(* indices 1 and 2.  A name is its bytes.                                  *)
(***************************************************************************)
EXTENDS Bytes, SequencesExt

Member(name, index) == [name |-> name, index |-> index]

\* The name is padded to an even length.
BuildIOIString(name) ==
  <<145, Len(name) % 256>> \o name \o (IF Len(name) % 2 = 1 THEN <<0>> ELSE <<>>)

\* Mutant of AddSegmentValue: 255 is taken for the last but one of a byte's values.
AddSegmentValueShort(value) ==
  CASE value <= 256 -> <<40, value % 256>>
    [] value > 256 /\ value <= 65535 -> <<41, 0>> \o Field(value, 2)
    [] OTHER -> <<42, 0>> \o Field(value, 2) \o <<0, 0>>

\* An index of four bytes has only its low two stored; the others are zero.
AddSegmentValue(value) ==
  CASE value <= 255 -> <<40, value % 256>>
    [] value > 255 /\ value <= 65535 -> <<41, 0>> \o Field(value, 2)
    [] OTHER -> <<42, 0>> \o Field(value, 2) \o <<0, 0>>

BuildIOIArray(index) ==
  FlattenSeq([i \in DOMAIN index |-> AddSegmentValue(index[i])])

BuildIOI(tag) ==
  FlattenSeq([i \in DOMAIN tag |-> BuildIOIString(tag[i].name) \o BuildIOIArray(tag[i].index)])

-----------------------------------------------------------------------------
\* A controller takes a path apart segment by segment, to its end or to the first
\* that is not there in full.  What each names is a member without an index, or
\* an index alone.

Segment(path, at) ==
  CASE path[at] = 145 -> Member(SubSeq(path, at + 2, at + 1 + path[at + 1]), <<>>)
    [] path[at] = 40 -> Member(<<>>, <<path[at + 1]>>)
    [] path[at] = 41 -> Member(<<>>, <<LittleEndian(path, at + 2, 2)>>)
    [] path[at] = 42 -> Member(<<>>, <<LittleEndian(path, at + 2, 4)>>)

NextSegment(path, at) ==
  CASE path[at] = 145 -> at + 2 + path[at + 1] + (path[at + 1] % 2)
    [] path[at] = 40 -> at + 2
    [] path[at] = 41 -> at + 4
    [] path[at] = 42 -> at + 6
    [] OTHER -> at

Broken == Member(<<>>, <<>>)

ReadPath(path) ==
  LET read[at \in 1 .. Len(path) + 1] ==
        IF at > Len(path) THEN <<>>
        ELSE IF NextSegment(path, at) \in at + 2 .. Len(path) + 1
        THEN <<Segment(path, at)>> \o read[NextSegment(path, at)]
        ELSE <<Broken>>
  IN  read[1]

\* What a path should name: the members and indices of a tag, in this order.
Segments(tag) ==
  FlattenSeq([i \in DOMAIN tag |->
    <<Member(tag[i].name, <<>>)>>
      \o [j \in DOMAIN tag[i].index |-> Member(<<>>, <<tag[i].index[j]>>)]])
=============================================================================
