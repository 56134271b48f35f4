------------------------------ MODULE LgxData -------------------------------
(***************************************************************************)
(* The data of reads and writes of a ControlLogix (LGX.c): the requests,   *)
(* the acceptance and decoding of their replies, and the values taken from *)
(* them.  A request and its exchange are a ConnectedSend of Exchange.      *)
(***************************************************************************)
EXTENDS Ioi, DataCall

CONSTANTS
  Tags,          \* tags that are read and written
  Integers32,    \* what the elements of tags hold, as far as their types can
  Counts,        \* elements in a request
  LgxStatuses,   \* status of replies
  OtherServices  \* services of late replies that pass for one to this request

MaxInt == 2147483647
MinInt == (-MaxInt) - 1

\* A name is never empty, and an index is an int.
ASSUME LgxAssumption ==
  /\ Tags \subseteq Seq([name : Seq(Byte) \ {<<>>}, index : Seq(Int)])
  /\ \A value \in Integers32 : value \in Int /\ MinInt <= value /\ value <= MaxInt
  /\ Counts \subseteq Word16 \ {0}
  /\ LgxStatuses \subseteq Byte
  /\ OtherServices \subseteq 0 .. 127

CIP_DATA_READ == 76
CIP_DATA_WRITE == 77
EXECUTE_PCCC == 75

LGX_BOOL == 193
LGX_SINT == 194
LGX_INT == 195
LGX_DINT == 196
LGX_REAL == 202
LGX_BITARRAY == 211
Structure == 672  \* a type of the controller's own

GetLGXDataSize(type) ==
  CASE type \in {LGX_BOOL, LGX_SINT} -> 1
    [] type = LGX_INT -> 2
    [] type \in {LGX_BITARRAY, LGX_DINT, LGX_REAL} -> 4
    [] OTHER -> Error

Simple == {LGX_BOOL, LGX_SINT, LGX_INT, LGX_DINT, LGX_REAL, LGX_BITARRAY}

Width(type) == IF type \in Simple THEN GetLGXDataSize(type) ELSE 4

Holds(type, value) ==
  CASE type = LGX_BOOL -> value \in 0 .. 255
    [] type = LGX_SINT -> value \in -128 .. 127
    [] type = LGX_INT -> value \in Integer16
    [] OTHER -> TRUE

ValueLists(type) ==
  UNION {[1 .. n -> {v \in Integers32 : Holds(type, v)}] : n \in Counts}

Encoded(type, values) == Packed(values, Width(type))

-----------------------------------------------------------------------------
\* Requests.

BuildLgxReadDataRequest(tag, number) ==
  LET path == BuildIOI(tag)
  IN  <<CIP_DATA_READ, (Len(path) \div 2) % 256>> \o path \o Field(number, 2)

\* Mutant of BuildLgxWriteDataRequest: the number comes first.
BuildWriteSwapped(tag, type, values) ==
  LET path == BuildIOI(tag)
  IN  <<CIP_DATA_WRITE, (Len(path) \div 2) % 256>> \o path
        \o Field(Len(values), 2) \o Field(type, 2) \o Encoded(type, values)

BuildLgxWriteDataRequest(tag, type, values) ==
  LET path == BuildIOI(tag)
  IN  <<CIP_DATA_WRITE, (Len(path) \div 2) % 256>> \o path
        \o Field(type, 2) \o Field(Len(values), 2) \o Encoded(type, values)

AskRead(tag, number) ==
  /\ pc = "ready"
  /\ request' = BuildLgxReadDataRequest(tag, number)
  /\ item' = [tag |-> tag, number |-> number]
  /\ pc' = "lgxAsked"
  /\ UNCHANGED <<reply, sts, result>>

AskWrite(tag) ==
  /\ pc = "ready"
  /\ \E type \in Simple : \E values \in ValueLists(type) :
       /\ request' = BuildLgxWriteDataRequest(tag, type, values)
       /\ item' = [tag |-> tag, type |-> type, values |-> values,
                   written |-> Nothing, late |-> FALSE]
  /\ pc' = "lgxSent"
  /\ UNCHANGED <<reply, sts, result>>

-----------------------------------------------------------------------------
\* The controller: it takes the request apart, and answers it.

PathOf(bytes) == SubSeq(bytes, 3, 2 + 2 * bytes[2])
AfterPath(bytes) == 3 + 2 * bytes[2]

LgxAnswer(service, data) ==
  /\ reply' = [service |-> service + 128, data |-> data]
  /\ sts' \in LgxStatuses
  /\ pc' = IF pc = "lgxAsked" THEN "lgxAnswered" ELSE "lgxConfirmed"
  /\ UNCHANGED <<request, result>>

\* As many elements as the request says.
AnswerRead ==
  /\ pc = "lgxAsked"
  /\ \E type \in Simple \cup {Structure} : \E values \in ValueLists(type) :
       /\ Len(values) = LittleEndian(request, AfterPath(request), 2)
       /\ LgxAnswer(CIP_DATA_READ, Field(type, 2) \o Encoded(type, values))
       /\ item' = [type |-> type, values |-> values]

\* What a request asks to be written, and where.
Order(path, type, number, data) ==
  [path |-> path, type |-> type, number |-> number, data |-> data]

OrderIn(bytes) ==
  LET at == AfterPath(bytes)
  IN  Order(ReadPath(PathOf(bytes)), LittleEndian(bytes, at, 2),
            LittleEndian(bytes, at + 2, 2), SubSeq(bytes, at + 4, Len(bytes)))

\* Without an error exactly if it has carried the order out.
AnswerWrite ==
  /\ pc = "lgxSent"
  /\ LgxAnswer(CIP_DATA_WRITE, <<>>)
  /\ item' = [item EXCEPT !.written = IF sts' = 0 THEN OrderIn(request) ELSE Nothing]

\* The reply to something else comes first: Exchange!OwnReply says when.  What
\* has become of a write is not in it.
AnswerOther(service) ==
  /\ pc \in {"lgxAsked", "lgxSent"}
  /\ LgxAnswer(service, IF service = CIP_DATA_READ THEN Field(Structure, 2) ELSE <<>>)
  /\ IF pc = "lgxAsked"
     THEN item' = [type |-> Structure, values |-> <<>>]
     ELSE \E written \in {Nothing, OrderIn(request)} :
            item' = [item EXCEPT !.written = written, !.late = TRUE]

-----------------------------------------------------------------------------
\* Back in the library.

\* Replies in which _GetService_Reply finds a service to look at.
Known(service) == service \in {CIP_DATA_READ + 128, CIP_DATA_WRITE + 128, EXECUTE_PCCC + 128}

GetLGXDataType(rep) ==
  IF rep.service = CIP_DATA_READ + 128 THEN LittleEndian(rep.data, 1, 2) ELSE 0

\* Mutant of DecodeLGX: the type is counted among the data, which then reach
\* two bytes beyond the reply.
DecodeWithType(rep) ==
  LET type == GetLGXDataType(rep)
      size == GetLGXDataSize(type)
      totalsize == Len(rep.data)
  IN  IF size <= 0 THEN Nothing
      ELSE IF totalsize \div size < 1 THEN Nothing
      ELSE [type |-> type, elementsize |-> size, Varcount |-> totalsize \div size,
            data |-> SubSeq(rep.data, 3, Len(rep.data)) \o <<0, 0>>]

DecodeLGX(rep) ==
  LET type == GetLGXDataType(rep)
      size == GetLGXDataSize(type)
      totalsize == Len(rep.data) - 2
  IN  IF size <= 0 THEN Nothing
      ELSE IF totalsize \div size < 1 THEN Nothing
      ELSE [type |-> type, elementsize |-> size, Varcount |-> totalsize \div size,
            data |-> SubSeq(rep.data, 3, 2 + totalsize)]

ReadLgxData ==
  /\ pc = "lgxAnswered"
  /\ result' = IF Known(reply.service) /\ sts = 0 THEN DecodeLGX(reply) ELSE Nothing
  /\ pc' = "lgxRead"
  /\ UNCHANGED <<item, request, reply, sts>>

\* Mutant of Confirmed: the status is not looked at.
ConfirmedAnyhow(service, status) == IF Known(service) THEN 1 ELSE Error

\* A reply of any known service stands for the one request it answers.
Confirmed(service, status) == IF Known(service) /\ status = 0 THEN 1 ELSE Error

WriteLgxData ==
  /\ pc = "lgxConfirmed"
  /\ result' = Confirmed(reply.service, sts)
  /\ pc' = "lgxWritten"
  /\ UNCHANGED <<item, request, reply, sts>>

-----------------------------------------------------------------------------
\* Values: every element goes through a float, of 24 bits.

Exact == 16777216  \* 2^24: up to it a float has every integer

\* The float next to an integer: a mantissa and a power of two.
Rounded(value) ==
  LET size == IF value < 0 THEN -value ELSE value
      shift == CHOOSE k \in 0 .. 8 :
                 /\ size \div TwoTo[k + 1] < Exact
                 /\ k = 0 \/ size \div TwoTo[k] >= Exact
      unit == TwoTo[shift + 1]
      rest == size % unit
      below == size \div unit
      up == 2 * rest > unit \/ (2 * rest = unit /\ below % 2 = 1)
      mantissa == IF up /\ shift > 0 THEN below + 1 ELSE below
  IN  [mantissa |-> IF value < 0 THEN -mantissa ELSE mantissa, power |-> shift]

\* A REAL is known by its bytes.
GetLGXValueAsFloat(read, index) ==
  LET at == index * read.elementsize + 1
  IN  CASE read.type = LGX_REAL -> SubSeq(read.data, at, at + 3)
        [] read.type = LGX_BOOL -> Rounded(read.data[at])
        [] OTHER -> Rounded(SignedField(read.data, at, read.elementsize))

\* Of an element that is not REAL.  What does not fit is what the machine
\* makes of it.
GetLGXValueAsInteger(read, index) ==
  LET float == GetLGXValueAsFloat(read, index)
  IN  IF float.mantissa = Exact /\ float.power = 7 THEN {MinInt, MaxInt}
      ELSE {float.mantissa * TwoTo[float.power + 1]}

-----------------------------------------------------------------------------
LgxNext ==
  \/ /\ pc = "ready"
     /\ \E tag \in Tags : AskWrite(tag) \/ \E number \in Counts : AskRead(tag, number)
  \/ AnswerRead \/ AnswerWrite
  \/ \E service \in OtherServices : AnswerOther(service)
  \/ ReadLgxData \/ WriteLgxData

LgxSpec == Init /\ [][LgxNext]_vars

-----------------------------------------------------------------------------
\* Properties.

\* Names have their length in one byte, indices are of 16 bits without a sign, and
\* the path has its length, in words, in one byte.
Reachable(tag) ==
  /\ \A i \in DOMAIN tag :
       /\ Len(tag[i].name) < 256
       /\ \A j \in DOMAIN tag[i].index : tag[i].index[j] \in Word16
  /\ Len(BuildIOI(tag)) < 512

\* The controller reads out of a request the tag that was asked for, with every
\* index, if and only if all of it fits into the request: another element is
\* read or written in place of one beyond.
PathNamesElement ==
  pc \in {"lgxAsked", "lgxSent"} =>
    (Reachable(item.tag) <=> ReadPath(PathOf(request)) = Segments(item.tag))

\* What the controller finds behind the path of a write is the type, the number
\* and the values the caller gave, as long as the length of the path fits into
\* the one byte it has in the request.
WriteCarriesItsData ==
  pc = "lgxSent" /\ Len(BuildIOI(item.tag)) < 512 =>
    LET at == AfterPath(request)
    IN  /\ LittleEndian(request, at, 2) = item.type
        /\ LittleEndian(request, at + 2, 2) = Len(item.values)
        /\ SubSeq(request, at + 4, Len(request)) = Encoded(item.type, item.values)

\* A read returns something exactly when the controller sent elements of a
\* simple type; then all of them, and each as an integer, exact up to 2^24, but
\* from there on off by as much as 64, or of the wrong sign next to 2^31.
ElementsAreRead ==
  pc = "lgxRead" =>
    /\ result # Nothing <=> sts = 0 /\ item.type \in Simple
    /\ result # Nothing =>
         /\ result.Varcount = Len(item.values)
         /\ \A i \in DOMAIN item.values :
              IF item.type = LGX_REAL
              THEN GetLGXValueAsFloat(result, i - 1) = Field(item.values[i], 4)
              ELSE \A v \in GetLGXValueAsInteger(result, i - 1) :
                     IF item.values[i] \in -Exact .. Exact THEN v = item.values[i]
                     ELSE IF item.values[i] > MaxInt - 64 THEN v \in {MinInt, MaxInt}
                     ELSE v - item.values[i] \in -64 .. 64

\* The order the caller gave.
Given == Order(Segments(item.tag), item.type, Len(item.values),
               Encoded(item.type, item.values))

\* The reply to a write confirms it exactly if the controller has written
\* something, and this is what the caller gave, in the element he named, exactly
\* if the tag fits into the request: any other write is confirmed and has
\* changed something else.  Nothing is known of a write that the late reply of
\* another request confirms.
ConfirmedIsWritten ==
  pc = "lgxWritten" /\ ~item.late =>
    /\ result = 1 <=> item.written # Nothing
    /\ result = 1 => (item.written = Given <=> Reachable(item.tag))
=============================================================================
