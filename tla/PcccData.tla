------------------------------ MODULE PcccData ------------------------------
(***************************************************************************)
(* The data of reads and writes of a PLC-5 or SLC (PLC.c): what a request  *)
(* asks for, the encoding that a write sends, the decoding of what a read  *)
(* returns, and what the daemon makes of it.                               *)
(*                                                                         *)
(* A typed item is a flag byte, its fields, and its data.  The two halves  *)
(* of the flag are the item's type and size, when they are less than 8, or *)
(* 8 plus the width of a field that holds them.  Elements come in an item  *)
(* of type PLC_ARRAY, whose data are a second descriptor, of one element,  *)
(* and the elements.  The status of a queue is three words, and a record   *)
(* of one is bytes.                                                        *)
(***************************************************************************)
EXTENDS PlcAddress, DataCall

CONSTANTS
  Addresses,    \* addresses of data files that are read
  Files,        \* levels of the elements the PLC has
  Words,        \* 16-bit words that files of the PLC hold
  MaxRead,      \* elements a read returns
  WriteCounts,  \* elements a caller may write
  Statuses,     \* STS of replies
  Queues,       \* numbers of queues
  AskedSizes,   \* bytes per record in the configuration
  RecordSizes,  \* bytes the PLC has in a record
  SentValues    \* integers in messages to the daemon; its floats are from Words

ASSUME PcccAssumption ==
  /\ Addresses \subseteq Seq([word : STRING, number : Nat \cup {None}])
  /\ Words \subseteq Word16
  /\ MaxRead \in Nat \ {0}
  /\ WriteCounts \subseteq Nat \ {0}
  /\ Statuses \subseteq Byte
  /\ Queues \subseteq Word16 /\ AskedSizes \subseteq Word16
  /\ RecordSizes \subseteq Nat /\ SentValues \subseteq Int

PLC_BYTE_STRING == 3
PLC_INTEGER == 4
PLC_TIMER == 5
PLC_COUNTER == 6
PLC_CONTROL == 7
PLC_FLOATING == 8
PLC_ARRAY == 9
PLC_QUEUE_STATUS == 17
PLC_QUEUE_DATA == 18

DATA_REQ == 1
QUEUE_STATUS_REQ == 2
QUEUE_DATA_REQ == 3
Types == PLC_BYTE_STRING .. PLC_FLOATING

-----------------------------------------------------------------------------
\* The elements of files.

GetPLCDataSize(type) ==
  CASE type = PLC_BYTE_STRING -> 1
    [] type = PLC_INTEGER -> 2
    [] type \in {PLC_TIMER, PLC_COUNTER, PLC_CONTROL} -> 6
    [] type = PLC_FLOATING -> 4

\* The elements of a file: as many bytes as the type has, from a word.
Elements(type, words) == Packed(words, GetPLCDataSize(type))

-----------------------------------------------------------------------------
\* Decoding.

\* The value of one half of a flag, and where the next field is.
HalfFlag(bytes, at, half) ==
  IF half < 8 THEN [ok |-> TRUE, value |-> half, next |-> at]
  ELSE IF half - 8 \in {1, 2, 4}
       THEN [ok |-> TRUE, value |-> LittleEndian(bytes, at, half - 8),
             next |-> at + half - 8]
       ELSE [ok |-> FALSE, value |-> 0, next |-> at]

Descriptor(bytes, at) ==
  LET type == HalfFlag(bytes, at + 1, bytes[at] \div 16)
      size == HalfFlag(bytes, type.next, bytes[at] % 16)
  IN  [ok |-> type.ok /\ size.ok, type |-> type.value, size |-> size.value,
       next |-> size.next]

\* Mutant of DecodePLCDataType: the flag is counted twice.
DecodeTwoFlags(bytes) ==
  LET array == Descriptor(bytes, 1)
      element == Descriptor(bytes, array.next)
  IN  IF ~array.ok THEN Nothing
      ELSE IF array.type # PLC_ARRAY
      THEN [type |-> array.type, tsize |-> array.size - 1, esize |-> 0,
            data |-> array.next]
      ELSE IF ~element.ok THEN Nothing
      ELSE [type |-> element.type, esize |-> element.size, data |-> element.next,
            tsize |-> array.size - (element.next - array.next) - 1]

\* The size of an array counts the second descriptor: its fields, and its flag.
DecodePLCDataType(bytes) ==
  LET array == Descriptor(bytes, 1)
      element == Descriptor(bytes, array.next)
  IN  IF ~array.ok THEN Nothing
      ELSE IF array.type # PLC_ARRAY
      THEN [type |-> array.type, tsize |-> array.size - 1, esize |-> 0,
            data |-> array.next]
      ELSE IF ~element.ok THEN Nothing
      ELSE [type |-> element.type, esize |-> element.size, data |-> element.next,
            tsize |-> array.size - (element.next - array.next)]

\* Mutant of DecodeData: an item of one element is taken for an array.
DecodeItem(bytes) ==
  LET d == DecodePLCDataType(bytes)
      size == IF d.esize = 0 THEN GetPLCDataSize(d.type) ELSE d.esize
      count == IF d.esize = 0 THEN 1 ELSE d.tsize \div d.esize
  IN  IF d = Nothing THEN Nothing
      ELSE [type |-> d.type, Varcount |-> count, elementsize |-> size,
            data |-> SubSeq(bytes, d.data, d.data + count * size - 1)]

DecodeData(bytes) ==
  LET d == DecodePLCDataType(bytes)
  IN  IF d = Nothing THEN Nothing
      ELSE IF d.esize = 0 THEN Nothing
      ELSE IF d.tsize \div d.esize < 1 THEN Nothing
      ELSE [type |-> d.type, Varcount |-> d.tsize \div d.esize,
            elementsize |-> d.esize,
            data |-> SubSeq(bytes, d.data, d.data + d.tsize - 1)]

\* What is copied from behind the end of the reply.
Unspecified == 256
Copied(bytes, size) == [i \in 1 .. size |-> IF i <= Len(bytes) THEN bytes[i] ELSE Unspecified]

DecodeStatus(bytes) ==
  [type |-> PLC_QUEUE_STATUS, Varcount |-> 3, elementsize |-> 2, data |-> Copied(bytes, 6)]

\* As many bytes as were asked for, whatever the PLC has sent.
DecodeRecord(bytes, nro) ==
  [type |-> PLC_QUEUE_DATA, Varcount |-> nro, elementsize |-> 1, data |-> Copied(bytes, nro)]

DecodePCCC(status, bytes, reqtype, nro) ==
  IF status # 0 THEN Nothing
  ELSE CASE reqtype = DATA_REQ -> DecodeData(bytes)
         [] reqtype = QUEUE_STATUS_REQ -> DecodeStatus(bytes)
         [] reqtype = QUEUE_DATA_REQ -> DecodeRecord(bytes, nro)

-----------------------------------------------------------------------------
\* The values of what was decoded, which has an element at least; index counts
\* from 0.

Element(read, index) == index * read.elementsize + 1

\* A float is known by its bytes.  The mask of the address is not used.
GetValueAsFloat(read, index) ==
  CASE read.type \in {PLC_INTEGER, PLC_QUEUE_STATUS} ->
         Signed(LittleEndian(read.data, Element(read, index), 2))
    [] read.type = PLC_FLOATING ->
         SubSeq(read.data, Element(read, index), Element(read, index) + 3)
    [] OTHER -> Error

\* A signed word that was made a float, as an unsigned one: of a negative one
\* the machine makes the same bits, or zero.
Unsigned(value) == IF value >= 0 THEN {value} ELSE {value % 65536, 0}

\* What a float's bytes say of its truncation: nothing about a single bit.
AnyOf(float, mask) == IF mask = None THEN {float} ELSE {0, 1}

BitOf(word, bit) == (word \div TwoTo[bit + 1]) % 2

\* Mutant of GetValueAsBoolean: index counts bytes.
BooleanAtByte(read, index) ==
  LET value == Signed(LittleEndian(read.data, index + 1, 2))
      bit == IF read.mask < 16 THEN read.mask ELSE 15
  IN  IF read.type = PLC_FLOATING THEN AnyOf(GetValueAsFloat(read, index), read.mask)
      ELSE IF read.type # PLC_INTEGER THEN {Error}
      ELSE IF read.mask = None THEN {value}
      ELSE {BitOf(v, bit) : v \in Unsigned(value)}

\* The word goes through a float to an unsigned int.  Its bits from 16 on are
\* those of its sign.
GetValueAsBoolean(read, index) ==
  LET value == Signed(LittleEndian(read.data, Element(read, index), 2))
      bit == IF read.mask < 16 THEN read.mask ELSE 15
  IN  IF read.type = PLC_FLOATING THEN AnyOf(GetValueAsFloat(read, index), read.mask)
      ELSE IF read.type # PLC_INTEGER THEN {Error}
      ELSE IF read.mask = None THEN {value}
      ELSE {BitOf(v, bit) : v \in Unsigned(value)}

-----------------------------------------------------------------------------
\* Encoding.

\* Mutant of EncodePLCDataType: the type field of a float is not counted.
EncodeWithoutField(type, number) ==
  LET size == GetPLCDataSize(type)
  IN  <<153, PLC_ARRAY, (number * size + 1) % 256>>
        \o (IF type > 7 THEN <<144 + size, type>> ELSE <<16 * type + size>>)

EncodePLCDataType(type, number) ==
  LET size == GetPLCDataSize(type)
      typeidlen == IF type > 7 THEN 1 ELSE 0
  IN  <<153, PLC_ARRAY, (number * size + typeidlen + 1) % 256>>
        \o (IF type > 7 THEN <<144 + size, type>> ELSE <<16 * type + size>>)

-----------------------------------------------------------------------------
\* Requests for a read: ReadPLCData looks at the first letters of the address.

Ask(reqtype, lba) ==
  /\ pc = "ready"
  /\ request' = [reqtype |-> reqtype, address |-> lba.address, mask |-> lba.mask]
  /\ pc' = "asked"
  /\ UNCHANGED <<reply, sts, result>>

AskData(address) ==
  /\ Ask(DATA_REQ, BuildLogicalBinaryAddress(address))
  /\ item' = [address |-> address]

\* Mutant of StatusAddress: the number of the queue is taken to be a byte.
StatusAddressByte(nro) == <<6, 0, 234, 255>> \o Field(nro, 1) \o <<0>>

StatusAddress(nro) == <<6, 0, 234, 255>> \o Field(nro, 2)

AskStatus(nro) ==
  /\ Ask(QUEUE_STATUS_REQ, [address |-> StatusAddress(nro), mask |-> None])
  /\ item' = [nro |-> nro]

\* Mutant of RecordAddress: the size is taken as it is configured.
RecordAddressUnbounded(nro, number) == <<number % 256, 0, 165>> \o Field(nro, 2)

\* A record has at most 109 bytes.
RecordAddress(nro, number) ==
  <<IF number < 110 THEN number ELSE 109, 0, 165>> \o Field(nro, 2)

AskRecord(nro, number) ==
  /\ Ask(QUEUE_DATA_REQ, [address |-> RecordAddress(nro, number), mask |-> None])
  /\ item' = [nro |-> nro, number |-> number]

-----------------------------------------------------------------------------
\* The PLC.  It describes an item in any of the forms the decoder knows.

Half(value, width) == IF width = 0 THEN value ELSE 8 + width

Fits(value, width) ==
  CASE width = 0 -> value < 8
    [] width = 1 -> value < 256
    [] width = 2 -> value < 65536
    [] OTHER -> value <= 2147483647

Described(type, size, form) ==
  <<16 * Half(type, form.type) + Half(size, form.size)>>
    \o Field(type, form.type) \o Field(size, form.size)

Forms(type, size) ==
  {f \in [type : {0, 1, 2, 4}, size : {0, 1, 2, 4}] :
     Fits(type, f.type) /\ Fits(size, f.size)}

WordLists == UNION {[1 .. n -> Words] : n \in 1 .. MaxRead}

Answer(reqtype) ==
  /\ pc = "asked" /\ request.reqtype = reqtype
  /\ sts' \in Statuses
  /\ pc' = "answered"
  /\ UNCHANGED <<request, result>>

\* The elements, as an array.
AnswerArray(type, words) ==
  /\ Answer(DATA_REQ) /\ Levels(request.address) \in Files
  /\ \E f \in Forms(type, GetPLCDataSize(type)) :
       LET inner == Described(type, GetPLCDataSize(type), f) \o Elements(type, words)
       IN  \E g \in Forms(PLC_ARRAY, Len(inner)) :
             reply' = Described(PLC_ARRAY, Len(inner), g) \o inner
  /\ item' = [type |-> type, words |-> words, array |-> TRUE]

\* One element, as an item of its own.
AnswerScalar(type, word) ==
  /\ Answer(DATA_REQ) /\ Levels(request.address) \in Files
  /\ \E f \in Forms(type, GetPLCDataSize(type)) :
       reply' = Described(type, GetPLCDataSize(type), f) \o Elements(type, <<word>>)
  /\ item' = [type |-> type, words |-> <<word>>, array |-> FALSE]

\* Status, size and records of the queue.
AnswerStatus(count) ==
  /\ Answer(QUEUE_STATUS_REQ)
  /\ item' = [nro |-> item.nro, queue |-> LittleEndian(request.address, 5, 2), count |-> count]
  /\ reply' = Field(1, 2) \o Field(100, 2) \o Field(count, 2)

\* No more of the record than was asked for.
AnswerRecord(size) ==
  /\ Answer(QUEUE_DATA_REQ)
  /\ item' = [nro |-> item.nro, number |-> item.number,
              queue |-> LittleEndian(request.address, 4, 2), size |-> size]
  /\ LET asked == request.address[1]
     IN  reply' = [i \in 1 .. (IF size < asked THEN size ELSE asked) |-> i]

-----------------------------------------------------------------------------
\* Back in the library and the daemon.

\* _ReadPLCData_Ex returns what it decoded, with the mask of a data address.
ReadPLCData ==
  /\ pc = "answered"
  /\ LET read == DecodePCCC(sts, reply, request.reqtype, request.address[1])
     IN  result' = IF read = Nothing THEN Nothing
                   ELSE [type |-> read.type, Varcount |-> read.Varcount,
                         elementsize |-> read.elementsize, data |-> read.data,
                         mask |-> request.mask]
  /\ pc' = "read"
  /\ UNCHANGED <<item, request, reply, sts>>

\* readTuxEip puts every element into the shared memory.
Publish ==
  /\ pc = "read" /\ result # Nothing
  /\ result.type \notin {PLC_QUEUE_STATUS, PLC_QUEUE_DATA}
  /\ result' = [i \in 1 .. result.Varcount |-> GetValueAsFloat(result, i - 1)]
  /\ pc' = "published"
  /\ UNCHANGED <<item, request, reply, sts>>

\* Of a status it publishes the number of records, and keeps it.
PublishStatus ==
  /\ pc = "read" /\ result # Nothing /\ result.type = PLC_QUEUE_STATUS
  /\ LET val_float == GetValueAsFloat(result, 2)
     IN  \E kept \in Unsigned(val_float) :
           result' = [records_to_read |-> kept, shared |-> val_float]
  /\ pc' = "counted"
  /\ UNCHANGED <<item, request, reply, sts>>

\* queue_str is where the record begins.
KeepRecord ==
  /\ pc = "read" /\ result # Nothing /\ result.type = PLC_QUEUE_DATA
  /\ result.Varcount > 0
  /\ result' = result.data
  /\ pc' = "kept"
  /\ UNCHANGED <<item, request, reply, sts>>

\* A record of no bytes is counted as an error, the read has not failed, and
\* queue_str stays what it was.
SkipRecord ==
  /\ pc = "read" /\ result # Nothing /\ result.type = PLC_QUEUE_DATA
  /\ result.Varcount = 0
  /\ pc' = "skipped"
  /\ UNCHANGED <<item, request, reply, sts, result>>

-----------------------------------------------------------------------------
\* Writes.

BuildPLCWriteDataRequest(type, words) ==
  /\ pc = "ready"
  /\ reply' = EncodePLCDataType(type, Len(words)) \o Elements(type, words)
  /\ item' = [type |-> type, words |-> words]
  /\ sts' \in Statuses
  /\ pc' = "sent"
  /\ UNCHANGED <<request, result>>

\* The daemon writes one element of the file: the low bytes of the integer in a
\* message, or the float if there is a dot in it, which is known by its bytes.
\* The mask of the address is built and not used.
WriteTuxEip(address, type, value) ==
  /\ pc = "ready"
  /\ request' = BuildLogicalBinaryAddress(address)
  /\ reply' = EncodePLCDataType(type, 1) \o Field(value, GetPLCDataSize(type))
  /\ item' = [address |-> address, type |-> type, value |-> value]
  /\ sts' \in Statuses
  /\ pc' = "daemonSent"
  /\ UNCHANGED result

\* _WritePLCData returns the STS of the reply, if there is one.
WritePLCData ==
  /\ pc \in {"sent", "daemonSent"}
  /\ result' \in {sts, Error}
  /\ pc' = IF pc = "sent" THEN "written" ELSE "daemonWritten"
  /\ UNCHANGED <<item, request, reply, sts>>

\* Mutant of Reported: a refusal is reported.
ReportedRefusal(ret) == IF ret # 0 THEN -1 ELSE 0

Reported(ret) == IF ret = Error THEN -1 ELSE 0

\* writeTuxEip.
ReportWrite ==
  /\ pc = "daemonWritten"
  /\ result' = [answered |-> result # Error, ret |-> Reported(result)]
  /\ pc' = "reported"
  /\ UNCHANGED <<item, request, reply, sts>>

-----------------------------------------------------------------------------
Next ==
  \/ /\ pc = "ready"
     /\ \/ \E address \in Addresses : AskData(address)
        \/ \E nro \in Queues :
             \/ AskStatus(nro)
             \/ \E number \in AskedSizes : AskRecord(nro, number)
        \/ \E type \in Types, n \in WriteCounts, word \in Words :
             BuildPLCWriteDataRequest(type, [i \in 1 .. n |-> word])
        \/ \E address \in Addresses :
             \/ \E value \in SentValues : WriteTuxEip(address, PLC_INTEGER, value)
             \/ \E word \in Words : WriteTuxEip(address, PLC_FLOATING, word)
  \/ /\ pc = "asked"
     /\ \/ \E type \in Types :
             \/ \E words \in WordLists : AnswerArray(type, words)
             \/ \E word \in Words : AnswerScalar(type, word)
        \/ \E count \in Words : AnswerStatus(count)
        \/ \E size \in RecordSizes : AnswerRecord(size)
  \/ ReadPLCData \/ Publish \/ PublishStatus \/ KeepRecord \/ SkipRecord
  \/ WritePLCData \/ ReportWrite

Spec == Init /\ [][Next]_vars

-----------------------------------------------------------------------------
\* Properties.

\* An address of a data file: the type of a file and its number, which
\* inputs, outputs and the status go without; an element; perhaps a sub-element,
\* by its number or a mnemonic, which PD files have a number to; perhaps a bit,
\* unless a mnemonic is one.
FileTypes ==
  {"O", "I", "S", "B", "T", "C", "R", "F", "N", "A", "D", "L", "ST", "MG", "PD", "BT", "SC"}
BitMnemonics == {"EN", "TT", "DN", "CU", "CD"}
Mnemonics == BitMnemonics \cup {"PRE", "LEN", "ACC", "POS", "SP", "CTL"}

IsFile(p) ==
  /\ p.word \in FileTypes
  /\ p.number \in Nat \/ (p.word \in {"O", "I", "S"} /\ p.number = None)
IsSubelement(p, file) ==
  \/ p.word = "." /\ p.number \in Nat
  \/ p.word \in Mnemonics /\ p.number = None
  \/ p.word = "CTL" /\ p.number \in Nat /\ file.word = "PD" /\ file.number # None
IsBit(p) == p.word = "/" /\ p.number \in Nat

IsDataAddress(address) ==
  /\ Len(address) \in 2 .. 4
  /\ IsFile(address[1])
  /\ address[2].word = ":" /\ address[2].number \in Nat
  /\ Len(address) = 3 => IsSubelement(address[3], address[1]) \/ IsBit(address[3])
  /\ Len(address) = 4 => /\ IsSubelement(address[3], address[1])
                         /\ address[3].word \notin BitMnemonics
                         /\ IsBit(address[4])

\* What a part of an address names to those who write it: the number of a file,
\* of an element or of what is in it.  Inputs, outputs and the status are files
\* 1, 0 and 2.
Inside(p) ==
  CASE p.word \in {"EN", "TT", "DN", "CU", "CD"} -> <<0>>
    [] p.word = "CTL" /\ p.number = None -> <<0>>
    [] p.word \in {"PRE", "LEN"} -> <<1>>
    [] p.word \in {"ACC", "POS", "SP"} -> <<2>>
    [] p.word \in {"O", "I", "S"} /\ p.number = None ->
         CASE p.word = "O" -> <<0>> [] p.word = "I" -> <<1>> [] OTHER -> <<2>>
    [] OTHER -> IF p.number # None THEN <<p.number>> ELSE <<>>

MeantLevels(address) ==
  LET plain == {i \in DOMAIN address : \A j \in 1 .. i : address[j].word # "/"}
  IN  FlattenSeq([i \in DOMAIN address |-> IF i \in plain THEN Inside(address[i]) ELSE <<>>])

MeantBit(address) ==
  LET bits == {b \in 0 .. 31 : \E i \in DOMAIN address :
                 \/ address[i].word = "/" /\ address[i].number = b
                 \/ address[i].word \in {"EN", "CU"} /\ b = 15
                 \/ address[i].word \in {"TT", "CD"} /\ b = 14
                 \/ address[i].word = "DN" /\ b = 13}
  IN  IF bits = {} THEN None ELSE CHOOSE b \in bits : TRUE

\* A part that the code encodes as it is meant: its number is less than 2^16, or
\* of a bit less than 32, it has one if it is a file, and a mnemonic is one of
\* the table's, without a number (CTL0 gets a level too many) and without
\* another in its letters (LEN has EN).
IsEncoded(p) ==
  /\ p.number < IF p.word = "/" THEN 32 ELSE 65536
  /\ p.word \notin {"LEN", "POS", "CD"}
  /\ p.word = "CTL" => p.number = None
  /\ p.word \in {"O", "I", "S"} => p.number # None

AddressIsSent ==
  (pc = "asked" /\ request.reqtype = DATA_REQ) \/ pc = "daemonSent"

\* The PLC reads out of the bytes of an address what the text means, and the
\* bytes fit into their array, exactly for the addresses all of whose parts are
\* encoded as they are meant.  The others are sent all the same, in a read and in
\* a write of the daemon, which goes to the whole element whatever the bit is.
AddressIsUnderstood ==
  AddressIsSent =>
    LET address == item.address
    IN  (\A i \in DOMAIN address : IsEncoded(address[i])) <=>
          /\ Levels(request.address) = MeantLevels(address)
          /\ request.mask = MeantBit(address)
          /\ Len(request.address) <= 10

\* What an element is worth to the daemon.
Value(type, word) ==
  CASE type = PLC_INTEGER -> Signed(word)
    [] type = PLC_FLOATING -> Field(word, 4)
    [] OTHER -> Error

\* Whatever form the PLC describes an array in, the daemon publishes all its
\* elements and no more, each with its value; a type without a numeric value is
\* published as Error, and of an address with a bit the whole word.
EveryFormIsPublished ==
  pc = "published" =>
    result = [i \in 1 .. Len(item.words) |-> Value(item.type, item.words[i])]

\* A read of data returns something exactly when the PLC did not refuse it and
\* sent an array: the decoder knows items of one element and returns none.
OnlyArraysAreRead ==
  pc = "read" /\ request.reqtype = DATA_REQ =>
    (result # Nothing <=> sts = 0 /\ item.array)

\* A word that is read through an address with a bit is that bit of it, or 0 for
\* a bit it has not, unless the word is negative; then no more can be said than
\* that it is 0 or 1.
BitIsRead ==
  pc = "read" /\ request.mask # None /\ result # Nothing /\ item.type = PLC_INTEGER =>
    \A i \in 1 .. Len(item.words) :
      LET read == GetValueAsBoolean(result, i - 1)
      IN  IF item.words[i] < 32768
          THEN read = {IF request.mask < 16 THEN BitOf(item.words[i], request.mask) ELSE 0}
          ELSE read \subseteq {0, 1}

\* The number of records the daemon goes by is that of the queue in the cell's
\* name, up to 32767; from there on it may be zero and the queue never be read,
\* and what is published is negative.
CountIsRead ==
  pc = "counted" =>
    /\ item.queue = item.nro
    /\ result.shared = Signed(item.count)
    /\ IF item.count < 32768 THEN result.records_to_read = item.count
       ELSE result.records_to_read \in {item.count, 0}

\* A record is as long as it is configured, at most 109 bytes, and is of the
\* queue in the cell's name; where the PLC has less in it the rest is whatever
\* lies behind the reply, and nowhere else.  The record before is only handed out
\* again when none is asked for.
RecordIsDelivered ==
  /\ pc = "kept" =>
       /\ item.queue = item.nro
       /\ Len(result) = IF item.number < 109 THEN item.number ELSE 109
       /\ \A i \in DOMAIN result : result[i] = Unspecified <=> i > item.size
  /\ pc \in {"kept", "skipped"} => (pc = "skipped" <=> item.number = 0)

\* By the rules the library itself decodes by, a write announces exactly the
\* elements that follow, if and only if they fit into the one byte of the size.
WriteAnnouncesItsData ==
  pc = "sent" =>
    LET size == GetPLCDataSize(item.type)
        descriptor == IF item.type > 7 THEN 2 ELSE 1
        d == DecodePLCDataType(reply)
    IN  (Len(item.words) * size + descriptor < 256)
          <=> /\ d.type = item.type /\ d.esize = size
              /\ d.tsize = Len(item.words) * size
              /\ d.tsize = Len(reply) - d.data + 1

\* The daemon reports a write as failed exactly when it got no answer, so that
\* what the PLC refused passes for written; what it accepted it holds: one element
\* with the float of the message, or with its integer if that fits into a word.
WriteIsReported ==
  pc = "reported" =>
    /\ result.ret = 0 <=> result.answered
    /\ LET stored == DecodeData(reply)
           held == GetValueAsFloat(stored, 0)
       IN  /\ stored.Varcount = 1 /\ stored.type = item.type
           /\ IF item.type = PLC_FLOATING THEN held = Field(item.value, 4)
              ELSE held = item.value <=> item.value \in Integer16
=============================================================================
