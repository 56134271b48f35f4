---------------------------- MODULE QueuePollProofs ----------------------------
(***************************************************************************)
(* Theorems about QueuePoll, for any namelists, numbers of queues, records *)
(* and links: it is type correct, queue 1 is asked for a record only when  *)
(* it has one, and every record that leaves it is accounted for.           *)
(***************************************************************************)
EXTENDS QueuePoll, FiniteSetTheorems, TLAPS

-----------------------------------------------------------------------------
\* Types.  A request that arrives is of a cell of the namelist; a count or a
\* record in a reply is one of the queue.

Request == [kind : Kinds, nro : Queues, link : 1 .. MaxLinks]

ReplyType ==
  /\ reply.kind \in {"none", "count", "record", "empty", "data", "refused"}
  /\ reply.kind = "none" => reply = NoReply
  /\ reply.kind = "count" => reply.count \in 0 .. MaxRecords
  /\ reply.kind = "record" => reply.record \in 1 .. MaxRecords

TypeInv ==
  /\ TypeOK
  /\ link >= 1 /\ (mpc = "down" => link < MaxLinks)
  /\ plc \in [Queues -> Seq(1 .. MaxRecords)]
  /\ \A q \in Queues : Len(plc[q]) <= record
  /\ ReplyType
  /\ handed \in Seq(1 .. MaxRecords)
  /\ printed \in Seq(0 .. MaxRecords) /\ (chunk = NoString \/ chunk \in 0 .. MaxRecords)

LEMMA ElementType ==
  ASSUME NEW S, NEW s \in Seq(S)
  PROVE  /\ Len(s) \in Nat /\ DOMAIN s = 1 .. Len(s)
         /\ \A i \in DOMAIN s : s[i] \in S
         /\ s # <<>> => /\ Len(s) >= 1 /\ Head(s) \in S /\ Head(s) = s[1]
                       /\ Tail(s) \in Seq(S) /\ Len(Tail(s)) = Len(s) - 1
                       /\ \A i \in DOMAIN Tail(s) : i + 1 \in DOMAIN s /\ Tail(s)[i] = s[i + 1]
  BY SMT

LEMMA NextOf ==
  ASSUME NEW n \in Nat \ {0}, NEW c \in 1 .. n
  PROVE  (c < n /\ (c % n) + 1 = c + 1) \/ (c % n) + 1 = 1
<1>1. CASE c = n
  BY <1>1, SMT
<1>2. CASE c < n
  <2>1. c % n = c
    BY <1>2, SMT
  <2> QED BY <1>2, <2>1, SMT
<1> QED BY <1>1, <1>2, SMT

LEMMA CellType ==
  ASSUME TypeOK
  PROVE  /\ namelist \in Namelists /\ namelist \in Seq([kind : Kinds, nro : Nat])
         /\ Here.kind \in Kinds /\ Here.nro \in Queues
         /\ Len(namelist) \in Nat \ {0}
         /\ cell \in 1 .. Len(namelist)
<1>1. namelist \in Namelists /\ namelist \in Seq([kind : Kinds, nro : Nat])
  BY QueueAssumption DEF TypeOK
<1>2. cell \in DOMAIN namelist
  BY DEF TypeOK
<1>3. Here \in [kind : Kinds, nro : Nat]
  BY <1>1, <1>2, ElementType DEF Here
<1>4. Here.kind \in Kinds
  BY <1>3
<1>5. Here.nro \in Queues
  BY <1>1, <1>2 DEF Queues, Here
<1>6. Len(namelist) \in Nat \ {0} /\ cell \in 1 .. Len(namelist)
  BY <1>1, <1>2, SMT
<1> QED BY <1>1, <1>4, <1>5, <1>6

LEMMA NextCellType ==
  ASSUME TypeOK, NextCell
  PROVE  /\ cell' \in DOMAIN namelist
         /\ (cell < Len(namelist) /\ cell' = cell + 1) \/ cell' = 1
<1>1. Len(namelist) \in Nat \ {0} /\ cell \in 1 .. Len(namelist)
  BY CellType
<1>2. (cell < Len(namelist) /\ cell' = cell + 1) \/ cell' = 1
  BY <1>1, NextOf DEF NextCell
<1>3. cell' \in DOMAIN namelist
  BY <1>1, <1>2, CellType, SMT
<1> QED BY <1>2, <1>3

LEMMA TypeInit == Init => TypeInv
<1> SUFFICES ASSUME Init PROVE TypeInv
  OBVIOUS
<1>1. namelist \in Seq([kind : Kinds, nro : Nat]) /\ namelist # <<>>
  BY QueueAssumption DEF Init
<1>2. cell \in DOMAIN namelist
  BY <1>1, SMT DEF Init
<1>3. /\ inbox \in Seq(Request) /\ handed \in Seq(1 .. MaxRecords)
      /\ printed \in Seq(0 .. MaxRecords)
      /\ \A n \in DOMAIN que : que[n] \in 0 .. MaxRecords
  BY SMT DEF Init
<1>4. plc \in [Queues -> Seq(1 .. MaxRecords)] /\ \A q \in Queues : Len(plc[q]) <= record
  BY SMT DEF Init
<1>5. ReplyType
  BY DEF Init, NoReply, ReplyType
<1>6. record \in 0 .. MaxRecords /\ link \in 1 .. MaxLinks /\ chunk = NoString
  BY QueueAssumption, SMT DEF Init
<1> QED BY <1>2, <1>3, <1>4, <1>5, <1>6, SMT DEF Init, TypeInv, TypeOK, Request

-----------------------------------------------------------------------------
\* What a step of the PLC does.

Asked == Head(inbox)
Takes == Asked.kind = "queue" /\ plc[Asked.nro] # <<>>
ForMain == Asked.link = link /\ mpc = "await"

LEMMA ServeTypes ==
  ASSUME TypeInv, Serve
  PROVE  /\ Asked \in Request /\ Asked.nro \in Queues /\ inbox' \in Seq(Request)
         /\ Len(plc[Asked.nro]) \in 0 .. MaxRecords
         /\ Takes => Head(plc[Asked.nro]) \in 1 .. MaxRecords
<1>1. inbox \in Seq(Request) /\ inbox # <<>> /\ inbox' = Tail(inbox)
  BY DEF TypeInv, TypeOK, Serve, Request
<1>2. Asked \in Request /\ inbox' \in Seq(Request)
  BY <1>1, SMT DEF Asked
<1>3. Asked.nro \in Queues
  BY <1>2 DEF Request
<1>4. plc[Asked.nro] \in Seq(1 .. MaxRecords) /\ Len(plc[Asked.nro]) <= record
  BY <1>3 DEF TypeInv
<1>5. Len(plc[Asked.nro]) \in 0 .. MaxRecords
  BY <1>4, QueueAssumption, SMT DEF TypeInv, TypeOK
<1>6. Takes => Head(plc[Asked.nro]) \in 1 .. MaxRecords
  BY <1>4, ElementType DEF Takes
<1> QED BY <1>2, <1>3, <1>5, <1>6

LEMMA ServePlc ==
  ASSUME TypeInv, Serve
  PROVE  /\ ~Takes => UNCHANGED <<plc, handed>>
         /\ Takes =>
              /\ plc' \in [Queues -> Seq(1 .. MaxRecords)]
              /\ plc'[Asked.nro] = Tail(plc[Asked.nro])
              /\ \A q \in Queues \ {Asked.nro} : plc'[q] = plc[q]
              /\ handed' = Append(handed, Head(plc[Asked.nro]))
<1>1. ASSUME ~Takes PROVE UNCHANGED <<plc, handed>>
  BY <1>1 DEF Serve, Takes, Asked
<1>2. ASSUME Takes
      PROVE  /\ plc' = [plc EXCEPT ![Asked.nro] = Tail(@)]
             /\ handed' = Append(handed, Head(plc[Asked.nro]))
  BY <1>2, SMT DEF Serve, Takes, Asked
<1>3. ASSUME Takes PROVE Tail(plc[Asked.nro]) \in Seq(1 .. MaxRecords)
  <2>1. plc[Asked.nro] \in Seq(1 .. MaxRecords) /\ plc[Asked.nro] # <<>>
    BY <1>3, ServeTypes DEF TypeInv, Takes
  <2> QED BY <2>1, ElementType
<1> QED BY <1>1, <1>2, <1>3, ServeTypes DEF TypeInv

\* The answer goes to main if main waits for it on the same link; a record that
\* does not is lost.
LEMMA ServeReply ==
  ASSUME TypeInv, Serve
  PROVE  /\ ReplyType'
         /\ ~ForMain => /\ reply' = reply
                        /\ lost' = IF Takes THEN lost \cup {Head(plc[Asked.nro])} ELSE lost
         /\ ForMain =>
              /\ lost' = lost /\ reply' # NoReply
              /\ reply'.kind = "count" <=> Asked.kind = "dls"
              /\ reply'.kind = "count" => reply'.count = Len(plc[Asked.nro])
              /\ reply'.kind = "record" <=> Takes
              /\ reply'.kind = "record" => reply'.record = Head(plc[Asked.nro])
              /\ reply'.kind = "data" => Asked.kind = "data"
              /\ reply'.kind # "empty"
<1>1. CASE ~ForMain
  <2>1. /\ reply' = reply
        /\ lost' = IF Takes THEN lost \cup {Head(plc[Asked.nro])} ELSE lost
    BY <1>1, SMT DEF Serve, Takes, ForMain, Asked
  <2> QED BY <1>1, <2>1 DEF TypeInv, ReplyType, NoReply
<1>2. CASE ForMain
  <2>0. lost' = lost
    BY <1>2, SMT DEF Serve, Takes, ForMain, Asked
  <2>1. Asked.kind \in Kinds /\ Asked.kind # "empty"
    BY ServeTypes DEF Request, Serve, Asked
  <2>2. CASE Asked.kind = "dls"
    <3>1. reply' = [kind |-> "count", count |-> Len(plc[Asked.nro])] /\ ~Takes
      BY <1>2, <2>2, SMT DEF Serve, Takes, ForMain, Asked
    <3> QED BY <1>2, <2>0, <2>2, <3>1, ServeTypes, SMT DEF ReplyType, NoReply
  <2>3. CASE Takes
    <3>1. reply' = [kind |-> "record", record |-> Head(plc[Asked.nro])]
          /\ Asked.kind = "queue"
      BY <1>2, <2>3, SMT DEF Serve, Takes, ForMain, Asked
    <3> QED BY <1>2, <2>0, <2>3, <3>1, ServeTypes, SMT DEF ReplyType, NoReply
  <2>4. CASE Asked.kind = "data"
    <3>1. reply' = [kind |-> "data"] /\ ~Takes
      BY <1>2, <2>4, SMT DEF Serve, Takes, ForMain, Asked
    <3> QED BY <1>2, <2>0, <2>4, <3>1, SMT DEF ReplyType, NoReply
  <2>5. CASE Asked.kind = "queue" /\ ~Takes
    <3>1. reply' = [kind |-> "refused"]
      BY <1>2, <2>5, SMT DEF Serve, Takes, ForMain, Asked
    <3> QED BY <1>2, <2>0, <2>5, <3>1, SMT DEF ReplyType, NoReply
  <2> QED BY <2>1, <2>2, <2>3, <2>4, <2>5 DEF Kinds
<1> QED BY <1>1, <1>2

-----------------------------------------------------------------------------
\* Type correctness.

LEMMA ProduceType ==
  ASSUME TypeInv, NEW q \in Produced, Produce(q)
  PROVE  TypeInv'
<1>1. q \in Queues /\ record + 1 \in 1 .. MaxRecords /\ record' = record + 1
  BY QueueAssumption, SMTT(60) DEF Produce, Queues, TypeInv, TypeOK
<1>2. Append(plc[q], record') \in Seq(1 .. MaxRecords)
      /\ Len(Append(plc[q], record')) = Len(plc[q]) + 1
  BY <1>1, SMT DEF TypeInv
<1>3. plc' = [plc EXCEPT ![q] = Append(plc[q], record')]
  BY DEF Produce
<1>4. plc' \in [Queues -> Seq(1 .. MaxRecords)]
  BY <1>1, <1>2, <1>3 DEF TypeInv
<1>5. ASSUME NEW p \in Queues PROVE Len(plc'[p]) <= record'
  <2>1. Len(plc[p]) <= record /\ Len(plc[p]) \in Nat /\ Len(plc[q]) <= record
        /\ Len(plc[q]) \in Nat
    BY <1>1, ElementType DEF TypeInv
  <2>2. CASE p = q
    <3>1. plc'[p] = Append(plc[q], record')
      BY <1>3, <2>2 DEF TypeInv
    <3>2. Len(plc'[p]) = Len(plc[q]) + 1
      BY <1>2, <3>1
    <3> QED BY <1>1, <2>1, <3>2, SMT DEF TypeInv, TypeOK
  <2>3. CASE p # q
    <3>1. plc'[p] = plc[p]
      BY <1>3, <2>3 DEF TypeInv
    <3> QED BY <1>1, <2>1, <3>1, SMT DEF TypeInv, TypeOK
  <2> QED BY <2>2, <2>3
<1> QED BY <1>1, <1>4, <1>5, SMT
        DEF Produce, TypeInv, TypeOK, ReplyType, client, history

LEMMA ServeType == ASSUME TypeInv, Serve PROVE TypeInv'
<1>1. inbox' \in Seq(Request) /\ ReplyType'
  BY ServeTypes, ServeReply
<1>2. plc' \in [Queues -> Seq(1 .. MaxRecords)] /\ handed' \in Seq(1 .. MaxRecords)
  <2>1. CASE ~Takes
    BY <2>1, ServePlc DEF TypeInv
  <2>2. CASE Takes
    <3>1. handed' = Append(handed, Head(plc[Asked.nro]))
          /\ plc' \in [Queues -> Seq(1 .. MaxRecords)]
      BY <2>2, ServePlc
    <3> QED BY <2>2, <3>1, ServeTypes, SMT DEF TypeInv
  <2> QED BY <2>1, <2>2
<1>3. ASSUME NEW q \in Queues PROVE Len(plc'[q]) <= record
  <2>1. Len(plc[q]) <= record /\ plc[q] \in Seq(1 .. MaxRecords) /\ record \in Nat
    BY SMT DEF TypeInv, TypeOK
  <2>2. CASE Takes /\ q = Asked.nro
    <3>1. plc'[q] = Tail(plc[q]) /\ plc[q] # <<>>
      BY <2>2, ServePlc DEF Takes
    <3>2. Len(Tail(plc[q])) = Len(plc[q]) - 1 /\ Len(plc[q]) \in Nat
      BY <2>1, <3>1, ElementType
    <3> QED BY <2>1, <3>1, <3>2, SMT
  <2>3. CASE ~(Takes /\ q = Asked.nro)
    BY <2>1, <2>3, ServePlc
  <2> QED BY <2>2, <2>3
<1>4. lost' \subseteq 1 .. MaxRecords
  BY ServeReply, ServeTypes DEF TypeInv, TypeOK
<1>5. UNCHANGED <<client, mpc, cell, record, chunk, printed>>
  BY DEF Serve
<1> QED BY <1>1, <1>2, <1>3, <1>4, <1>5, SMT DEF TypeInv, TypeOK, Request, client

\* What it makes of a request for no bytes.
LEMMA EmptyServed ==
  ASSUME TypeInv, ServeEmpty
  PROVE  /\ Asked \in Request /\ Asked.nro \in Queues /\ inbox' \in Seq(Request)
         /\ reply' = IF ForMain THEN [kind |-> "empty"] ELSE reply
         /\ \/ UNCHANGED <<plc, handed, lost>>
            \/ LET h == Head(plc[Asked.nro])
               IN  /\ h \in 1 .. MaxRecords
                   /\ Tail(plc[Asked.nro]) \in Seq(1 .. MaxRecords)
                   /\ Len(Tail(plc[Asked.nro])) = Len(plc[Asked.nro]) - 1
                   /\ plc' = [plc EXCEPT ![Asked.nro] = Tail(plc[Asked.nro])]
                   /\ handed' = Append(handed, h) /\ lost' = lost \cup {h}
<1>1. inbox \in Seq(Request) /\ inbox # <<>> /\ inbox' = Tail(inbox)
  BY DEF TypeInv, TypeOK, ServeEmpty, Request
<1>2. Asked \in Request /\ inbox' \in Seq(Request)
  BY <1>1, ElementType DEF Asked
<1>3. Asked.nro \in Queues
  BY <1>2 DEF Request
<1>4. plc[Asked.nro] \in Seq(1 .. MaxRecords)
  BY <1>3 DEF TypeInv
<1>5. \/ UNCHANGED <<plc, handed, lost>>
      \/ LET h == Head(plc[Asked.nro])
         IN  /\ plc[Asked.nro] # <<>>
             /\ plc' = [plc EXCEPT ![Asked.nro] = Tail(plc[Asked.nro])]
             /\ handed' = Append(handed, h) /\ lost' = lost \cup {h}
  BY DEF ServeEmpty, Asked
<1>6. reply' = IF ForMain THEN [kind |-> "empty"] ELSE reply
  BY DEF ServeEmpty, ForMain, Asked
<1> QED BY <1>2, <1>3, <1>4, <1>5, <1>6, ElementType

LEMMA ServeEmptyType == ASSUME TypeInv, ServeEmpty PROVE TypeInv'
<1>1. inbox' \in Seq(Request)
  BY EmptyServed
<1>2. ReplyType'
  <2>1. reply' = [kind |-> "empty"] \/ reply' = reply
    BY EmptyServed
  <2> QED BY <2>1 DEF TypeInv, ReplyType, NoReply
<1>3. UNCHANGED <<client, mpc, cell, record, chunk, printed>>
  BY DEF ServeEmpty
<1>4. CASE UNCHANGED <<plc, handed, lost>>
  BY <1>1, <1>2, <1>3, <1>4, SMT DEF TypeInv, TypeOK, Request, client
<1>5. CASE ~UNCHANGED <<plc, handed, lost>>
  <2> DEFINE q == Asked.nro
             h == Head(plc[q])
  <2>1. /\ q \in Queues /\ h \in 1 .. MaxRecords
        /\ Tail(plc[q]) \in Seq(1 .. MaxRecords) /\ Len(Tail(plc[q])) = Len(plc[q]) - 1
        /\ plc' = [plc EXCEPT ![q] = Tail(plc[q])]
        /\ handed' = Append(handed, h) /\ lost' = lost \cup {h}
    BY <1>5, EmptyServed
  <2>2. plc' \in [Queues -> Seq(1 .. MaxRecords)]
    BY <2>1 DEF TypeInv
  <2>3. ASSUME NEW p \in Queues PROVE Len(plc'[p]) <= record
    <3>1. Len(plc[p]) <= record /\ Len(plc[p]) \in Nat /\ record \in Nat
      BY ElementType, SMT DEF TypeInv, TypeOK
    <3>2. CASE p = q
      <4>1. Len(plc'[p]) = Len(plc[p]) - 1
        BY <2>1, <3>2 DEF TypeInv
      <4> QED BY <3>1, <4>1, SMT
    <3>3. CASE p # q
      <4>1. plc'[p] = plc[p]
        BY <2>1, <3>3 DEF TypeInv
      <4> QED BY <3>1, <4>1
    <3> QED BY <3>2, <3>3
  <2>4. handed' \in Seq(1 .. MaxRecords) /\ lost' \subseteq 1 .. MaxRecords
    <3> HIDE DEF h
    <3> QED BY <2>1, SMT DEF TypeInv, TypeOK
  <2> QED BY <1>1, <1>2, <1>3, <2>2, <2>3, <2>4, SMT DEF TypeInv, TypeOK, Request, client
<1> QED BY <1>4, <1>5

\* The steps that leave the PLC's queues alone.
LEMMA MainType == ASSUME TypeInv, Main \/ MailboxAllocates PROVE TypeInv'
<1>1. CASE Configure
  <2>1. \A n \in DOMAIN que' : que'[n] \in 0 .. MaxRecords
    <3>1. CASE Configured(namelist)
      <4>1. que' = [n \in 0 .. (Cardinality(DlsCells(namelist)) - 1) |-> 0]
        BY <1>1, <3>1 DEF Configure
      <4> QED BY <4>1, QueueAssumption, SMT
    <3>2. CASE ~Configured(namelist)
      BY <1>1, <3>2 DEF Configure, TypeInv, TypeOK
    <3> QED BY <3>1, <3>2
  <2>2. mpc' \in {"poll", "crashed"}
    BY <1>1 DEF Configure
  <2> QED BY <1>1, <2>1, <2>2, SMT
          DEF Configure, TypeInv, TypeOK, ReplyType, history
<1>2. CASE SkipQueue
  <2>1. cell' \in DOMAIN namelist
    BY <1>2, NextCellType DEF SkipQueue, TypeInv
  <2> QED BY <1>2, <2>1, SMT DEF SkipQueue, TypeInv, TypeOK, ReplyType, client, history
<1>3. CASE SendRead
  <2>1. ReadRequest \in Request
    BY CellType, SMT DEF ReadRequest, Request, TypeInv, TypeOK
  <2>2. inbox' \in Seq(Request)
    BY <1>3, <2>1, SMT DEF SendRead, TypeInv, TypeOK, Request
  <2> QED BY <1>3, <2>2, SMT
          DEF SendRead, TypeInv, TypeOK, ReplyType, client, history, Request
<1>4. CASE ReadStatus
  <2>1. cell' \in DOMAIN namelist
    BY <1>4, NextCellType DEF ReadStatus, TypeInv
  <2>2. reply.count \in 0 .. MaxRecords /\ que' = [que EXCEPT ![Here.nro] = reply.count]
    BY <1>4 DEF ReadStatus, TypeInv, ReplyType
  <2>3. \A n \in DOMAIN que' : que'[n] \in 0 .. MaxRecords
    BY <2>2 DEF TypeInv, TypeOK
  <2>4. ReplyType'
    BY <1>4 DEF ReadStatus, ReplyType, NoReply
  <2> QED BY <1>4, <2>1, <2>3, <2>4, SMT DEF ReadStatus, TypeInv, TypeOK, history
<1>5. CASE ReadStatusCrashes
  BY <1>5, SMT DEF ReadStatusCrashes, TypeInv, TypeOK, ReplyType, client, history
<1>6. CASE ReadRecord
  <2>1. chunk' \in 0 .. MaxRecords
    BY <1>6, QueueAssumption, SMT DEF ReadRecord, TypeInv, ReplyType
  <2>2. ReplyType'
    BY <1>6 DEF ReadRecord, ReplyType, NoReply
  <2> QED BY <1>6, <2>1, <2>2, SMT DEF ReadRecord, TypeInv, TypeOK, client, history
<1>7. CASE ReadEmpty
  <2>1. ReplyType'
    BY <1>7 DEF ReadEmpty, ReplyType, NoReply
  <2> QED BY <1>7, <2>1, SMT DEF ReadEmpty, TypeInv, TypeOK, client, history
<1>8. CASE PrintNull
  <2>1. cell' \in DOMAIN namelist
    BY <1>8, NextCellType DEF PrintNull, TypeInv, TypeOK
  <2>2. printed' \in Seq(0 .. MaxRecords)
    <3>1. Garbage \in 0 .. MaxRecords
      BY QueueAssumption, SMT DEF Garbage
    <3>2. printed' = Append(printed, Garbage) \/ printed' = printed
      BY <1>8 DEF PrintNull
    <3>3. printed \in Seq(0 .. MaxRecords)
      BY DEF TypeInv
    <3>4. Append(printed, Garbage) \in Seq(0 .. MaxRecords)
      <4> DEFINE S == 0 .. MaxRecords
      <4>1. printed \in Seq(S) /\ Garbage \in S
        BY <3>1, <3>3
      <4> HIDE DEF S
      <4>2. Append(printed, Garbage) \in Seq(S)
        BY <4>1
      <4> QED BY <4>2 DEF S
    <3> QED BY <3>2, <3>3, <3>4
  <2>3. mpc' \in {"poll", "crashed"}
    BY <1>8 DEF PrintNull
  <2> QED BY <1>8, <2>1, <2>2, <2>3, SMT DEF PrintNull, TypeInv, TypeOK, ReplyType, client
<1>9. CASE ReadData
  <2>1. cell' \in DOMAIN namelist
    BY <1>9, NextCellType DEF ReadData, TypeInv
  <2>2. ReplyType'
    BY <1>9 DEF ReadData, ReplyType, NoReply
  <2> QED BY <1>9, <2>1, <2>2, SMT DEF ReadData, TypeInv, TypeOK, client, history
<1>10. CASE ReadFails
  <2>1. lost' \subseteq 1 .. MaxRecords
    BY <1>10 DEF ReadFails, TypeInv, TypeOK, ReplyType
  <2>2. ReplyType'
    BY <1>10 DEF ReadFails, ReplyType, NoReply
  <2> QED BY <1>10, <2>1, <2>2, SMT DEF ReadFails, TypeInv, TypeOK, client
<1>11. CASE PrintRecord
  <2>1. cell' \in DOMAIN namelist
    BY <1>11, NextCellType DEF PrintRecord, TypeInv
  <2>2. printed' \in Seq(0 .. MaxRecords)
    BY <1>11, SMT DEF PrintRecord, TypeInv
  <2> QED BY <1>11, <2>1, <2>2, SMT DEF PrintRecord, TypeInv, TypeOK, ReplyType, client
<1>12. CASE Reopen
  <2>1. cell' \in DOMAIN namelist
    <3>1. Len(namelist) \in Nat \ {0} /\ namelist \in Seq([kind : Kinds, nro : Nat])
      BY CellType DEF TypeInv
    <3> QED BY <1>12, <3>1, SMT DEF Reopen
  <2>2. inbox' \in Seq(Request)
    <3>1. inbox \in Seq(Request) /\ <<>> \in Seq(Request)
      BY SMT DEF TypeInv, TypeOK, Request
    <3> QED BY <1>12, <3>1 DEF Reopen
  <2>3. link' \in 1 .. MaxLinks
    BY <1>12, QueueAssumption, SMT DEF Reopen, TypeInv, TypeOK
  <2> QED BY <1>12, <2>1, <2>2, <2>3, SMT
          DEF Reopen, TypeInv, TypeOK, ReplyType, history, Request
<1>13. CASE MailboxAllocates
  <2>1. chunk' \in 0 .. MaxRecords
    BY <1>13, QueueAssumption, SMT DEF MailboxAllocates, Garbage
  <2> QED BY <1>13, <2>1, SMT DEF MailboxAllocates, TypeInv, TypeOK, ReplyType, client, history
<1> QED BY <1>1, <1>2, <1>3, <1>4, <1>5, <1>6, <1>9, <1>10, <1>11, <1>12, <1>13, <1>7,
           <1>8 DEF Main

LEMMA TypeNext == TypeInv /\ [Next]_vars => TypeInv'
<1>1. ASSUME TypeInv, UNCHANGED vars PROVE TypeInv'
  BY <1>1, SMT DEF vars, client, history, TypeInv, TypeOK, ReplyType
<1> QED BY <1>1, ProduceType, ServeType, ServeEmptyType, MainType DEF Next, Answer

\* The state of the poll loop is well formed: the counts are those of queues, and
\* the cell is always one of the namelist (ethernetip_client.cpp:666-709).
THEOREM QueuePollTypeCorrect == Spec => []TypeOK
<1>1. TypeInv => TypeOK
  BY DEF TypeInv
<1> QED BY <1>1, TypeInit, TypeNext, PTL DEF Spec

-----------------------------------------------------------------------------
\* The exchanges.  While main waits, its request is the last the PLC has; once
\* it is answered the PLC has none, and the answer is to it.

Earlier(n) == \A i \in DOMAIN inbox : inbox[i].link < n

FlowInv ==
  /\ mpc = "await" /\ Here.kind \in QueueKinds => Here.nro = 1
  /\ mpc = "await" /\ reply = NoReply =>
       /\ inbox # <<>> /\ inbox[Len(inbox)] = ReadRequest
       /\ \A i \in DOMAIN inbox : i # Len(inbox) => inbox[i].link < link
  /\ mpc \notin {"await", "crashed"} => reply = NoReply
  /\ reply # NoReply => inbox = <<>>
  /\ mpc = "poll" => Earlier(link)
  /\ mpc = "down" => Earlier(link + 1)
  /\ mpc = "print" => inbox = <<>> /\ QueueOne(Here)
  /\ mpc = "init" => inbox = <<>> /\ cell = 1
  /\ \A i \in DOMAIN inbox : inbox[i].kind \in QueueKinds => inbox[i].nro = 1
  /\ reply.kind = "count" =>
       Here.kind = "dls" /\ (Here.nro = 1 => reply.count <= Len(plc[1]))
  /\ reply.kind \in {"record", "empty"} => QueueOne(Here)
  /\ reply.kind = "data" => Here.kind = "data"

\* Behind a status of queue 1 main knows no more records of it than there are,
\* and no request that would take one is on its way.
CountInv ==
  Fresh(namelist, cell) /\ mpc \in {"poll", "await"} =>
    /\ 1 \in DOMAIN que
    /\ mpc = "poll" => inbox = <<>> /\ que[1] <= Len(plc[1])
    /\ mpc = "await" =>
         /\ Len(inbox) <= 1
         /\ IF QueueOne(Here)
            THEN inbox # <<>> => que[1] > 0 /\ que[1] <= Len(plc[1])
            ELSE que[1] <= Len(plc[1])

LEMMA FreshNext ==
  ASSUME TypeOK, NextCell, Fresh(namelist, cell')
  PROVE  StatusOne(Here) \/ (Fresh(namelist, cell) /\ ~QueueOne(Here))
<1>1. cell \in Nat /\ cell' = cell + 1
  <2>1. cell' # 1
    BY SMT DEF Fresh
  <2>2. cell \in 1 .. Len(namelist) /\ Len(namelist) \in Nat
    BY CellType
  <2> QED BY <2>1, <2>2, NextCellType, SMT
<1>2. PICK j \in 1 .. cell :
        StatusOne(namelist[j]) /\ \A k \in j + 1 .. cell : ~QueueOne(namelist[k])
  BY <1>1, SMT DEF Fresh
<1>3. CASE j = cell
  BY <1>2, <1>3 DEF Here
<1>4. CASE j # cell
  <2>1. j \in 1 .. cell - 1 /\ cell \in j + 1 .. cell /\ j + 1 .. cell - 1 \subseteq j + 1 .. cell
    BY <1>1, <1>2, <1>4, SMT
  <2> QED BY <1>2, <2>1 DEF Fresh, Here
<1> QED BY <1>3, <1>4

\* Queue 1 is one of the queues wherever main counts it.
LEMMA QueueOneExists ==
  ASSUME TypeOK, Fresh(namelist, cell) \/ StatusOne(Here) \/ QueueOne(Here)
  PROVE  1 \in Queues
<1>1. CASE StatusOne(Here) \/ QueueOne(Here)
  BY <1>1, CellType DEF StatusOne, QueueOne
<1>2. CASE Fresh(namelist, cell)
  <2>1. PICK j \in 1 .. cell - 1 : namelist[j].nro = 1
    BY <1>2 DEF Fresh, StatusOne
  <2>2. j \in DOMAIN namelist
    BY <2>1, CellType, SMT
  <2> QED BY <2>1, <2>2, CellType DEF Queues
<1> QED BY <1>1, <1>2

\* Of main's own request, the PLC has no other left.
LEMMA AnswersMain ==
  ASSUME TypeInv, FlowInv, inbox # <<>>, inbox' = Tail(inbox), ForMain
  PROVE  Asked = ReadRequest /\ inbox' = <<>> /\ reply = NoReply
<1>1. inbox \in Seq(Request) /\ inbox # <<>> /\ inbox' = Tail(inbox) /\ link \in Nat
  BY SMT DEF TypeInv, TypeOK, Request
<1>2. reply = NoReply
  BY <1>1 DEF FlowInv
<1>3. Len(inbox) \in Nat /\ 1 \in DOMAIN inbox /\ Asked = inbox[1]
  BY <1>1, ElementType, SMT DEF Asked
<1>4. Len(inbox) = 1
  <2>1. ~(inbox[1].link < link)
    BY <1>1, <1>3, SMT DEF ForMain
  <2> QED BY <1>2, <1>3, <2>1 DEF FlowInv, ForMain
<1>5. inbox' = <<>>
  BY <1>1, <1>4, SMT
<1> QED BY <1>2, <1>3, <1>4, <1>5 DEF FlowInv, ForMain

LEMMA FlowInit == Init => FlowInv /\ CountInv
<1> SUFFICES ASSUME Init PROVE FlowInv /\ CountInv
  OBVIOUS
<1>1. mpc = "init" /\ cell = 1 /\ inbox = <<>> /\ reply = NoReply /\ reply.kind = "none"
  BY DEF Init, NoReply
<1>2. \A i \in DOMAIN inbox : inbox[i].kind \in QueueKinds => inbox[i].nro = 1
  BY <1>1, SMT
<1> QED BY <1>1, <1>2 DEF FlowInv, CountInv

LEMMA ProduceFlow ==
  ASSUME TypeInv, FlowInv, CountInv, NEW q \in Produced, Produce(q)
  PROVE  FlowInv' /\ CountInv'
<1>1. /\ mpc' = mpc /\ reply' = reply /\ inbox' = inbox /\ link' = link /\ que' = que
      /\ Here' = Here /\ ReadRequest' = ReadRequest /\ namelist' = namelist /\ cell' = cell
  BY DEF Produce, client, history, Here, ReadRequest
<1>2. ASSUME 1 \in Queues
      PROVE  Len(plc[1]) \in Nat /\ Len(plc'[1]) \in Nat /\ Len(plc[1]) <= Len(plc'[1])
  <2>1. plc[1] \in Seq(1 .. MaxRecords)
    BY <1>2 DEF TypeInv
  <2>2. CASE q = 1
    <3>1. record' \in 1 .. MaxRecords
      BY QueueAssumption, SMT DEF Produce, TypeInv, TypeOK
    <3>2. plc'[1] = Append(plc[1], record')
      BY <1>2, <2>2 DEF Produce, TypeInv
    <3> QED BY <2>1, <3>1, <3>2, SMT
  <2>3. CASE q # 1
    <3>1. plc'[1] = plc[1]
      BY <1>2, <2>3 DEF Produce, TypeInv
    <3> QED BY <2>1, <3>1, SMT
  <2> QED BY <2>2, <2>3
<1>3. ASSUME reply.kind = "count", Here.nro = 1 PROVE reply.count <= Len(plc'[1])
  <2>1. 1 \in Queues /\ reply.count \in Nat
    BY <1>3, CellType, SMT DEF TypeInv, ReplyType
  <2>2. reply.count <= Len(plc[1])
    BY <1>3 DEF FlowInv
  <2> QED BY <1>2, <2>1, <2>2, SMT
<1>4. FlowInv'
  BY <1>1, <1>3 DEF FlowInv, Earlier
<1>5. CountInv'
  <2> SUFFICES ASSUME Fresh(namelist, cell), mpc \in {"poll", "await"},
                      que[1] <= Len(plc[1]), 1 \in DOMAIN que
               PROVE  que[1] <= Len(plc'[1])
    BY <1>1 DEF CountInv
  <2>1. 1 \in Queues /\ que[1] \in Nat
    BY QueueOneExists, SMT DEF TypeInv, TypeOK
  <2> QED BY <1>2, <2>1, SMT
<1> QED BY <1>4, <1>5

\* The PLC serves one request, and takes a record or not.
LEMMA ServedFlow ==
  ASSUME TypeInv, FlowInv, CountInv, NEW takes,
         inbox # <<>>, inbox' = Tail(inbox), UNCHANGED <<client, mpc, cell>>,
         takes => Asked.kind \in QueueKinds,
         ~takes => plc' = plc,
         ~ForMain => reply' = reply,
         ForMain =>
           /\ reply' # NoReply
           /\ reply'.kind = "count" <=> Asked.kind = "dls"
           /\ reply'.kind = "count" => reply'.count = Len(plc[Asked.nro])
           /\ reply'.kind = "record" => takes
           /\ reply'.kind = "empty" => Asked.kind = "empty"
           /\ reply'.kind = "data" => Asked.kind = "data"
  PROVE  FlowInv' /\ CountInv'
<1>0. inbox \in Seq(Request) /\ inbox # <<>> /\ inbox' = Tail(inbox)
  BY DEF TypeInv, TypeOK, Request
<1>1. /\ mpc' = mpc /\ link' = link /\ que' = que /\ Here' = Here
      /\ ReadRequest' = ReadRequest /\ namelist' = namelist /\ cell' = cell
  BY DEF client, Here, ReadRequest
<1>2. \A i \in DOMAIN inbox' : i + 1 \in DOMAIN inbox /\ inbox'[i] = inbox[i + 1]
  BY <1>0, ElementType
<1>3. reply = NoReply
  BY <1>0 DEF FlowInv
<1>4. \A n : Earlier(n) => Earlier(n)'
  BY <1>2 DEF Earlier
<1>5. \A i \in DOMAIN inbox' : inbox'[i].kind \in QueueKinds => inbox'[i].nro = 1
  BY <1>2 DEF FlowInv
<1>6. Asked.kind \in QueueKinds => Asked.nro = 1
  BY <1>0, ElementType, SMT DEF Asked, FlowInv
<1>7. CASE ~ForMain
  <2>1. reply' = NoReply /\ reply'.kind = "none"
    BY <1>3, <1>7 DEF NoReply
  <2>2. ASSUME mpc = "await"
        PROVE  /\ inbox' # <<>> /\ inbox'[Len(inbox')] = ReadRequest
               /\ \A i \in DOMAIN inbox' : i # Len(inbox') => inbox'[i].link < link
    <3>1. /\ inbox[Len(inbox)] = ReadRequest
          /\ \A i \in DOMAIN inbox : i # Len(inbox) => inbox[i].link < link
      BY <1>3, <2>2 DEF FlowInv
    <3>2. Len(inbox) \in Nat \ {0} /\ Len(inbox') = Len(inbox) - 1 /\ Asked = inbox[1]
          /\ inbox' \in Seq(Request) /\ DOMAIN inbox' = 1 .. Len(inbox')
      BY <1>0, ElementType, SMT DEF Asked
    <3>3. Len(inbox) # 1
      <4>1. Asked.link # link /\ ReadRequest.link = link
        BY <1>7, <2>2 DEF ForMain, ReadRequest
      <4> QED BY <3>1, <3>2, <4>1
    <3>4. inbox' # <<>> /\ Len(inbox') \in DOMAIN inbox' /\ Len(inbox') + 1 = Len(inbox)
      BY ONLY <3>2, <3>3, SMT
    <3>5. inbox'[Len(inbox')] = ReadRequest
      BY <1>2, <3>1, <3>4
    <3>6. ASSUME NEW i \in DOMAIN inbox', i # Len(inbox') PROVE inbox'[i].link < link
      <4>1. i + 1 # Len(inbox)
        BY <3>2, <3>6, SMT
      <4> QED BY <1>2, <3>1, <3>6, <4>1
    <3> QED BY <3>4, <3>5, <3>6
  <2>3. mpc \notin {"print", "init"}
    BY <1>0 DEF FlowInv
  <2>4. FlowInv'
    BY <1>1, <1>4, <1>5, <2>1, <2>2, <2>3 DEF FlowInv
  <2>5. CountInv'
    <3> SUFFICES ASSUME Fresh(namelist, cell), mpc \in {"poll", "await"} PROVE FALSE
      BY <1>1 DEF CountInv
    <3>1. mpc = "await" /\ Len(inbox) <= 1
      BY <1>0 DEF CountInv
    <3>2. /\ inbox' # <<>> /\ Len(inbox') = Len(inbox) - 1 /\ inbox' \in Seq(Request)
      BY <1>0, <2>2, <3>1, ElementType
    <3>3. Len(inbox') >= 1
      BY <3>2, ElementType
    <3> QED BY <1>0, <3>1, <3>2, <3>3, SMT
  <2> QED BY <2>4, <2>5
<1>8. CASE ForMain
  <2>1. Asked = ReadRequest /\ inbox' = <<>> /\ mpc = "await"
    BY <1>0, <1>8, AnswersMain DEF ForMain
  <2>2. Asked.kind = Here.kind /\ Asked.nro = Here.nro
    BY <2>1 DEF ReadRequest
  <2>3. /\ reply' # NoReply
        /\ reply'.kind = "count" <=> Here.kind = "dls"
        /\ reply'.kind = "count" => reply'.count = Len(plc[Here.nro])
        /\ reply'.kind = "record" => takes
        /\ reply'.kind = "empty" => Here.kind = "empty"
        /\ reply'.kind = "data" => Here.kind = "data"
    BY <1>8, <2>2
  <2>4. takes => QueueOne(Here)
    BY <1>6, <2>2 DEF QueueOne
  <2>5. reply'.kind \in {"record", "empty"} => QueueOne(Here)
    <3>1. "empty" \in QueueKinds
      BY DEF QueueKinds
    <3> QED BY <1>6, <2>2, <2>3, <2>4, <3>1 DEF QueueOne
  <2>6. ASSUME reply'.kind = "count", Here.nro = 1 PROVE reply'.count <= Len(plc'[1])
    <3>1. plc' = plc /\ reply'.count = Len(plc[1])
      <4>1. Here.kind = "dls"
        BY <2>3, <2>6
      <4> QED BY <2>3, <2>4, <2>6, <4>1 DEF QueueOne, QueueKinds
    <3>2. 1 \in Queues
      BY <2>6, CellType DEF TypeInv
    <3>3. Len(plc[1]) \in Nat
      BY <3>2, ElementType DEF TypeInv
    <3> QED BY <3>1, <3>3, SMT
  <2>7. FlowInv'
    BY <1>1, <1>5, <2>1, <2>3, <2>5, <2>6 DEF FlowInv
  <2>8. CountInv'
    <3>1. Len(inbox') <= 1
      BY <2>1, SMT
    <3>2. ~QueueOne(Here) => plc' = plc
      BY <2>4
    <3> QED BY <1>1, <2>1, <3>1, <3>2 DEF CountInv
  <2> QED BY <2>7, <2>8
<1> QED BY <1>7, <1>8

LEMMA ServeFlow ==
  ASSUME TypeInv, FlowInv, CountInv, Serve \/ ServeEmpty
  PROVE  FlowInv' /\ CountInv'
<1>1. CASE Serve
  <2>1. inbox # <<>> /\ inbox' = Tail(inbox) /\ UNCHANGED <<client, mpc, cell>>
    BY <1>1 DEF Serve
  <2>2. Takes => Asked.kind \in QueueKinds
    BY DEF Takes, QueueKinds
  <2>3. ~Takes => plc' = plc
    BY <1>1, ServePlc
  <2> QED BY <1>1, <2>1, <2>2, <2>3, ServeReply, ServedFlow
<1>2. CASE ServeEmpty
  <2>1. inbox # <<>> /\ inbox' = Tail(inbox) /\ UNCHANGED <<client, mpc, cell>>
        /\ Asked.kind = "empty"
    BY <1>2 DEF ServeEmpty, Asked
  <2>2. Asked.kind \in QueueKinds /\ Asked.kind # "dls"
    BY <2>1 DEF QueueKinds
  <2>3. ForMain => reply' # NoReply /\ reply'.kind = "empty"
    BY <1>2, EmptyServed DEF NoReply
  <2>4. ~ForMain => reply' = reply
    BY <1>2, EmptyServed
  <2> QED BY <2>1, <2>2, <2>3, <2>4, ServedFlow
<1> QED BY <1>1, <1>2

\* A read is over, and main goes on to the next cell.
LEMMA ReadOver ==
  ASSUME TypeInv, FlowInv, CountInv, mpc \in {"await", "print"}, reply # NoReply \/ mpc = "print",
         mpc' = "poll", reply' = NoReply, NextCell,
         namelist' = namelist, link' = link, inbox' = inbox, plc' = plc,
         ~StatusOne(Here) => que' = que,
         StatusOne(Here) => 1 \in DOMAIN que' /\ que'[1] <= Len(plc[1])
  PROVE  FlowInv' /\ CountInv'
<1>1. inbox = <<>>
  BY DEF FlowInv
<1>2. FlowInv'
  <2>1. Earlier(link)' /\ reply'.kind = "none"
    BY <1>1, SMT DEF Earlier, NoReply
  <2> QED BY <1>1, <2>1 DEF FlowInv
<1>3. ASSUME Fresh(namelist, cell') PROVE 1 \in DOMAIN que' /\ que'[1] <= Len(plc[1])
  <2>1. CASE StatusOne(Here)
    BY <2>1
  <2>2. CASE ~StatusOne(Here)
    <3>1. Fresh(namelist, cell) /\ ~QueueOne(Here)
      BY <1>3, <2>2, FreshNext DEF TypeInv
    <3>2. mpc = "await"
      BY <3>1 DEF FlowInv
    <3> QED BY <2>2, <3>1, <3>2 DEF CountInv
  <2> QED BY <2>1, <2>2
<1> QED BY <1>1, <1>2, <1>3 DEF CountInv

LEMMA MainFlow ==
  ASSUME TypeInv, FlowInv, CountInv, Main \/ MailboxAllocates
  PROVE  FlowInv' /\ CountInv'
<1>0. inbox \in Seq(Request) /\ link \in Nat
  BY SMT DEF TypeInv, TypeOK, Request
<1>1. CASE Configure
  <2>1. /\ mpc = "init" /\ mpc' \in {"poll", "crashed"} /\ inbox' = inbox /\ reply' = reply
        /\ link' = link /\ namelist' = namelist /\ cell' = cell
    BY <1>1 DEF Configure
  <2>2. inbox = <<>> /\ cell = 1 /\ reply = NoReply /\ reply.kind = "none"
    BY <2>1 DEF FlowInv, NoReply
  <2>3. ~Fresh(namelist', cell')
    BY <2>1, <2>2, SMT DEF Fresh
  <2>4. DOMAIN inbox = {}
    BY <2>2, SMT
  <2> QED BY <2>1, <2>2, <2>3, <2>4 DEF FlowInv, CountInv, Earlier
<1>2. CASE SkipQueue
  <2>1. /\ mpc = "poll" /\ mpc' = "poll" /\ NextCell /\ inbox' = inbox /\ reply' = reply
        /\ link' = link /\ namelist' = namelist /\ que' = que /\ plc' = plc
        /\ Here.kind \in QueueKinds
    BY <1>2 DEF SkipQueue, client, Readable
  <2>2. reply = NoReply /\ reply.kind = "none"
    BY <2>1 DEF FlowInv, NoReply
  <2>3. FlowInv'
    BY <2>1, <2>2 DEF FlowInv, Earlier
  <2>4. Fresh(namelist, cell') => Fresh(namelist, cell)
    BY <2>1, FreshNext DEF TypeInv, StatusOne, QueueKinds
  <2> QED BY <2>1, <2>3, <2>4 DEF CountInv
<1>3. CASE SendRead
  <2>1. /\ mpc = "poll" /\ mpc' = "await" /\ Readable /\ inbox' = Append(inbox, ReadRequest)
        /\ reply' = reply /\ link' = link /\ namelist' = namelist /\ que' = que
        /\ plc' = plc /\ cell' = cell /\ Here' = Here /\ ReadRequest' = ReadRequest
    BY <1>3 DEF SendRead, client, Here, ReadRequest
  <2>2. reply = NoReply /\ reply.kind = "none" /\ Earlier(link)
    BY <2>1 DEF FlowInv, NoReply
  <2>3. ReadRequest \in Request
    BY CellType, SMT DEF ReadRequest, Request, TypeInv, TypeOK
  <2>4. /\ Len(inbox') = Len(inbox) + 1 /\ inbox' # <<>> /\ Len(inbox) \in Nat
        /\ inbox'[Len(inbox')] = ReadRequest
        /\ \A i \in DOMAIN inbox' : i # Len(inbox') => i \in DOMAIN inbox /\ inbox'[i] = inbox[i]
    BY <1>0, <2>1, <2>3, SMT
  <2>5. Here.kind \in QueueKinds => Here.nro = 1 /\ que[1] > 0
    BY <2>1 DEF Readable
  <2>6. \A i \in DOMAIN inbox' : inbox'[i].kind \in QueueKinds => inbox'[i].nro = 1
    BY <2>4, <2>5 DEF FlowInv, ReadRequest
  <2>7. FlowInv'
    BY <2>1, <2>2, <2>4, <2>5, <2>6 DEF FlowInv, Earlier
  <2>8. ASSUME Fresh(namelist, cell)
        PROVE  1 \in DOMAIN que /\ Len(inbox') <= 1 /\ que[1] <= Len(plc[1])
    <3>1. inbox = <<>> /\ 1 \in DOMAIN que /\ que[1] <= Len(plc[1])
      BY <2>1, <2>8 DEF CountInv
    <3> QED BY <2>4, <3>1, SMT
  <2>9. QueueOne(Here) => que[1] > 0
    BY <2>5 DEF QueueOne
  <2> QED BY <2>1, <2>7, <2>8, <2>9 DEF CountInv
<1>4. CASE ReadStatus
  <2>1. /\ mpc = "await" /\ reply.kind = "count" /\ Here.nro \in DOMAIN que
        /\ que' = [que EXCEPT ![Here.nro] = reply.count]
        /\ mpc' = "poll" /\ NextCell /\ reply' = NoReply
        /\ namelist' = namelist /\ link' = link /\ inbox' = inbox /\ plc' = plc
    BY <1>4 DEF ReadStatus
  <2>2. reply # NoReply /\ Here.kind = "dls" /\ (Here.nro = 1 => reply.count <= Len(plc[1]))
    BY <2>1 DEF FlowInv, NoReply
  <2>3. CASE StatusOne(Here)
    <3>1. Here.nro = 1 /\ 1 \in DOMAIN que' /\ que'[1] = reply.count
      BY <2>1, <2>3 DEF StatusOne
    <3> QED BY <2>1, <2>2, <2>3, <3>1, ReadOver
  <2>4. CASE ~StatusOne(Here)
    <3>1. Here.nro # 1
      BY <2>2, <2>4 DEF StatusOne
    <3>2. /\ 1 \in DOMAIN que => 1 \in DOMAIN que' /\ que'[1] = que[1]
      BY <2>1, <3>1
    <3>3. FlowInv'
      <4>1. inbox = <<>>
        BY <2>2 DEF FlowInv
      <4>2. Earlier(link)' /\ reply'.kind = "none"
        BY <2>1, <4>1, SMT DEF Earlier, NoReply
      <4> QED BY <2>1, <4>1, <4>2 DEF FlowInv
    <3>4. ASSUME Fresh(namelist, cell')
          PROVE  inbox = <<>> /\ 1 \in DOMAIN que' /\ que'[1] <= Len(plc[1])
      <4>1. Fresh(namelist, cell) /\ ~QueueOne(Here)
        BY <2>1, <2>4, <3>4, FreshNext DEF TypeInv
      <4> QED BY <2>1, <2>2, <3>2, <4>1 DEF CountInv, FlowInv
    <3> QED BY <2>1, <3>3, <3>4 DEF CountInv
  <2> QED BY <2>3, <2>4
<1>5. CASE ReadStatusCrashes
  <2>1. /\ mpc' = "crashed" /\ inbox' = inbox /\ reply' = reply /\ plc' = plc /\ Here' = Here
    BY <1>5 DEF ReadStatusCrashes, client, Here
  <2> QED BY <2>1 DEF FlowInv, CountInv
<1>6. CASE ReadRecord
  <2>1. /\ mpc = "await" /\ reply.kind = "record" /\ mpc' = "print" /\ reply' = NoReply
        /\ inbox' = inbox /\ Here' = Here
    BY <1>6 DEF ReadRecord, client, Here
  <2>2. inbox = <<>> /\ QueueOne(Here) /\ reply'.kind = "none"
    BY <2>1 DEF FlowInv, NoReply
  <2> QED BY <2>1, <2>2 DEF FlowInv, CountInv
<1>7. CASE ReadEmpty
  <2>1. /\ mpc = "await" /\ reply.kind = "empty" /\ mpc' = "print" /\ reply' = NoReply
        /\ inbox' = inbox /\ Here' = Here
    BY <1>7 DEF ReadEmpty, client, Here
  <2>2. inbox = <<>> /\ QueueOne(Here) /\ reply'.kind = "none"
    BY <2>1 DEF FlowInv, NoReply
  <2> QED BY <2>1, <2>2 DEF FlowInv, CountInv
<1>8. CASE PrintNull
  <2>1. /\ mpc = "print" /\ reply' = reply /\ inbox' = inbox /\ plc' = plc
        /\ namelist' = namelist /\ link' = link /\ que' = que
    BY <1>8 DEF PrintNull, client
  <2>2. reply' = NoReply /\ reply'.kind = "none" /\ ~StatusOne(Here) /\ inbox = <<>>
    BY <2>1 DEF FlowInv, StatusOne, QueueOne, QueueKinds, NoReply
  <2>3. CASE mpc' = "poll" /\ NextCell
    BY <2>1, <2>2, <2>3, ReadOver
  <2>4. CASE mpc' = "crashed"
    <3>1. DOMAIN inbox' = {}
      BY <2>1, <2>2, SMT
    <3> QED BY <2>1, <2>2, <2>4, <3>1 DEF FlowInv, CountInv
  <2> QED BY <1>8, <2>3, <2>4 DEF PrintNull
<1>9. CASE ReadData
  <2>1. /\ mpc = "await" /\ reply.kind = "data" /\ mpc' = "poll" /\ NextCell
        /\ reply' = NoReply /\ namelist' = namelist /\ link' = link /\ inbox' = inbox
        /\ plc' = plc /\ que' = que
    BY <1>9 DEF ReadData, client
  <2>2. reply # NoReply /\ ~StatusOne(Here)
    BY <2>1 DEF FlowInv, NoReply, StatusOne
  <2> QED BY <2>1, <2>2, ReadOver
<1>10. CASE ReadFails
  <2>1. /\ mpc = "await" /\ mpc' = "down" /\ reply' = NoReply /\ inbox' = inbox
        /\ link' = link
    BY <1>10 DEF ReadFails, client
  <2>2. Earlier(link + 1)
    <3>1. CASE reply # NoReply
      BY <3>1, SMT DEF FlowInv, Earlier
    <3>2. CASE reply = NoReply
      <4> SUFFICES ASSUME NEW i \in DOMAIN inbox PROVE inbox[i].link < link + 1
        BY DEF Earlier
      <4>1. inbox[i].link \in Nat
        <5>1. inbox[i] \in Request
          BY <1>0, ElementType
        <5> QED BY <5>1, SMT DEF Request
      <4>2. inbox[Len(inbox)].link = link
        BY <2>1, <3>2 DEF FlowInv, ReadRequest
      <4>3. i # Len(inbox) => inbox[i].link < link
        BY <2>1, <3>2 DEF FlowInv
      <4> QED BY <1>0, <4>1, <4>2, <4>3, SMT
    <3> QED BY <3>1, <3>2
  <2>3. reply'.kind = "none"
    BY <2>1 DEF NoReply
  <2> QED BY <2>1, <2>2, <2>3 DEF FlowInv, CountInv, Earlier
<1>11. CASE PrintRecord
  <2>1. /\ mpc = "print" /\ mpc' = "poll" /\ NextCell /\ reply' = reply
        /\ namelist' = namelist /\ link' = link /\ inbox' = inbox /\ plc' = plc /\ que' = que
    BY <1>11 DEF PrintRecord, client
  <2>2. reply' = NoReply /\ ~StatusOne(Here)
    BY <2>1 DEF FlowInv, StatusOne, QueueOne, QueueKinds
  <2> QED BY <2>1, <2>2, ReadOver
<1>12. CASE Reopen
  <2>1. /\ mpc = "down" /\ mpc' = "poll" /\ link' = link + 1 /\ cell' = 1
        /\ inbox' \in {inbox, <<>>} /\ reply' = reply
    BY <1>12 DEF Reopen
  <2>2. Earlier(link + 1) /\ reply = NoReply /\ reply.kind = "none"
    BY <2>1 DEF FlowInv, NoReply
  <2>3. Earlier(link)' /\ \A i \in DOMAIN inbox' : inbox'[i].kind \in QueueKinds => inbox'[i].nro = 1
    <3>1. CASE inbox' = inbox
      BY <2>1, <2>2, <3>1 DEF Earlier, FlowInv
    <3>2. CASE inbox' = <<>>
      BY <3>2, SMT DEF Earlier
    <3> QED BY <2>1, <3>1, <3>2
  <2>4. ~Fresh(namelist', cell')
    BY <2>1, SMT DEF Fresh
  <2> QED BY <2>1, <2>2, <2>3, <2>4 DEF FlowInv, CountInv
<1>13. CASE MailboxAllocates
  <2>1. UNCHANGED <<client, mpc, cell, inbox, reply, plc>>
    BY <1>13 DEF MailboxAllocates
  <2> QED BY <2>1 DEF client, FlowInv, CountInv, Here, ReadRequest, Earlier
<1> QED BY <1>1, <1>2, <1>3, <1>4, <1>5, <1>6, <1>9, <1>10, <1>11, <1>12, <1>13, <1>7,
           <1>8 DEF Main

LEMMA FlowNext == TypeInv /\ FlowInv /\ CountInv /\ [Next]_vars => FlowInv' /\ CountInv'
<1>1. ASSUME FlowInv, CountInv, UNCHANGED vars PROVE FlowInv' /\ CountInv'
  BY <1>1 DEF vars, client, FlowInv, CountInv, Earlier, Here, ReadRequest
<1> QED BY <1>1, ProduceFlow, ServeFlow, MainFlow DEF Next, Answer

\* With namelists that read the status of queue 1 before its records, queue 1 is
\* never asked for a record when it is empty, although records_to_read is not
\* counted down and outlives the link (ethernetip_client.cpp:557-600, 666-709).
THEOREM ReadFindsRecordAlways ==
  ASSUME \A names \in Namelists : StatusFirst(names)
  PROVE  Spec => []ReadFindsRecord
<1>1. TypeInv /\ FlowInv /\ CountInv => ReadFindsRecord
  <2> SUFFICES ASSUME TypeInv, FlowInv, CountInv,
                      mpc = "await", Here.kind \in QueueKinds, inbox # <<>>
               PROVE  plc[Here.nro] # <<>>
    BY DEF ReadFindsRecord
  <2>1. Here.nro = 1 /\ QueueOne(Here)
    BY DEF FlowInv, QueueOne
  <2>2. Fresh(namelist, cell)
    <3>1. namelist \in Namelists /\ cell \in DOMAIN namelist
      BY DEF TypeInv, TypeOK
    <3> QED BY <2>1, <3>1 DEF StatusFirst, Here
  <2>3. que[1] > 0 /\ que[1] <= Len(plc[1]) /\ 1 \in DOMAIN que
    BY <2>1, <2>2 DEF CountInv
  <2>4. que[1] \in Nat
    BY <2>3, QueueAssumption, SMT DEF TypeInv, TypeOK
  <2>5. plc[1] # <<>>
    <3> SUFFICES ASSUME plc[1] = <<>> PROVE FALSE
      OBVIOUS
    <3>1. Len(plc[1]) = 0
      BY SMT
    <3> QED BY <2>3, <2>4, <3>1, SMT
  <2> QED BY <2>1, <2>5
<1> QED BY <1>1, TypeInit, TypeNext, FlowInit, FlowNext, PTL DEF Spec

-----------------------------------------------------------------------------
\* The records.  They are numbered as they come, so those that have left queue 1
\* are below those that are in it, and the one in hand is the last of them.

InHand == IF reply.kind = "record" THEN reply.record
          ELSE IF mpc = "print" /\ chunk # NoString THEN chunk ELSE Garbage

Pending == IF mpc = "print" \/ reply.kind = "record" THEN 1 ELSE 0

\* Without empty cells there are no empty reads.
SizedInv ==
  /\ \A i \in DOMAIN inbox : inbox[i].kind # "empty"
  /\ reply.kind # "empty"
  /\ mpc = "print" => chunk # NoString

\* Records are out up to, and without, n.
Below(n) == (\A r \in lost : r < n) /\ (\A i \in DOMAIN printed : printed[i] < n)

OutInv ==
  /\ IsFiniteSet(lost)
  /\ Len(handed) = Len(printed) + Cardinality(lost) + Pending
  /\ \A i, j \in DOMAIN printed :
       printed[i] # Garbage /\ printed[j] # Garbage /\ i < j => printed[i] < printed[j]
  /\ \A i \in DOMAIN printed : printed[i] # Garbage => printed[i] \notin lost
  /\ InHand # Garbage => Below(InHand)
  /\ reply.kind = "record" => mpc = "await"
  /\ Below(record + 1) /\ InHand <= record

QueueInv ==
  1 \in Queues =>
    /\ \A k \in DOMAIN plc[1] :
         Below(plc[1][k]) /\ InHand < plc[1][k] /\ plc[1][k] <= record
    /\ \A j, k \in DOMAIN plc[1] : j < k => plc[1][j] < plc[1][k]

LEMMA LedgerTypes ==
  ASSUME TypeInv
  PROVE  /\ \A i \in DOMAIN printed : printed[i] \in 0 .. MaxRecords
         /\ InHand \in 0 .. MaxRecords
         /\ \A r \in lost : r \in 1 .. MaxRecords
         /\ Len(printed) \in Nat /\ DOMAIN printed = 1 .. Len(printed)
         /\ Len(handed) \in Nat /\ MaxRecords \in Nat /\ record \in 0 .. MaxRecords
<1>1. \A i \in DOMAIN printed : printed[i] \in 0 .. MaxRecords
  BY ElementType DEF TypeInv
<1>2. InHand \in 0 .. MaxRecords
  BY QueueAssumption, SMT DEF TypeInv, ReplyType, InHand, Garbage
<1>3. Len(printed) \in Nat /\ DOMAIN printed = 1 .. Len(printed) /\ Len(handed) \in Nat
  BY ElementType DEF TypeInv
<1> QED BY <1>1, <1>2, <1>3, QueueAssumption DEF TypeInv, TypeOK

\* What holds of the records if no cell is empty.
LedgerInv == Sized(namelist) => SizedInv /\ OutInv /\ QueueInv

LEMMA SizedNext ==
  ASSUME TypeInv, Sized(namelist), SizedInv, Next
  PROVE  SizedInv' /\ ~ServeEmpty /\ ~ReadEmpty /\ ~PrintNull
<1>0. inbox \in Seq(Request)
  BY DEF TypeInv, TypeOK, Request
<1>1. ~ServeEmpty
  BY <1>0, ElementType, SMT DEF ServeEmpty, SizedInv
<1>2. ~ReadEmpty /\ ~PrintNull
  BY DEF ReadEmpty, PrintNull, SizedInv
<1>3. ASSUME Serve PROVE SizedInv'
  <2>1. UNCHANGED <<mpc, chunk>> /\ inbox # <<>> /\ inbox' = Tail(inbox)
    BY <1>3 DEF Serve
  <2>2. \A i \in DOMAIN inbox' : i + 1 \in DOMAIN inbox /\ inbox'[i] = inbox[i + 1]
    BY <1>0, <2>1, ElementType
  <2>3. reply'.kind # "empty"
    BY <1>3, ServeReply DEF SizedInv
  <2> QED BY <2>1, <2>2, <2>3 DEF SizedInv
<1>4. ASSUME SendRead PROVE SizedInv'
  <2>1. /\ mpc' = "await" /\ inbox' = Append(inbox, ReadRequest) /\ UNCHANGED reply
    BY <1>4 DEF SendRead
  <2>2. ReadRequest \in Request /\ ReadRequest.kind # "empty"
    <3>1. ReadRequest \in Request
      BY CellType, SMT DEF ReadRequest, Request, TypeInv, TypeOK
    <3> QED BY <3>1 DEF Sized, ReadRequest, Here, TypeInv, TypeOK
  <2>3. \A i \in DOMAIN inbox' :
          (i \in DOMAIN inbox /\ inbox'[i] = inbox[i]) \/ inbox'[i] = ReadRequest
    BY <1>0, <2>1, <2>2, SMT
  <2> QED BY <2>1, <2>2, <2>3 DEF SizedInv
<1>5. ASSUME ReadRecord PROVE SizedInv'
  <2>1. UNCHANGED inbox /\ reply' = NoReply /\ chunk' = reply.record
        /\ reply.record \in 1 .. MaxRecords
    BY <1>5 DEF ReadRecord, TypeInv, ReplyType
  <2>2. chunk' # NoString
    BY <2>1, QueueAssumption, SMT DEF NoString
  <2> QED BY <2>1, <2>2 DEF SizedInv, NoReply
<1>6. ASSUME MailboxAllocates PROVE SizedInv'
  BY <1>6 DEF MailboxAllocates, SizedInv, Garbage, NoString
<1>7. ASSUME Reopen PROVE SizedInv'
  <2>1. \A i \in DOMAIN <<>> : FALSE
    BY SMT
  <2> QED BY <1>7, <2>1 DEF Reopen, SizedInv
<1>8. ASSUME NEW q \in Produced, Produce(q) PROVE SizedInv'
  BY <1>8 DEF Produce, SizedInv
<1>9. ASSUME \/ Configure \/ SkipQueue \/ ReadStatus \/ ReadStatusCrashes \/ ReadData
             \/ ReadFails \/ PrintRecord
      PROVE  SizedInv'
  <2>1. UNCHANGED inbox /\ reply' \in {reply, NoReply} /\ mpc' # "print"
    BY <1>9 DEF Configure, SkipQueue, ReadStatus, ReadStatusCrashes, ReadData, ReadFails,
                PrintRecord
  <2> QED BY <2>1 DEF SizedInv, NoReply
<1> QED BY <1>1, <1>2, <1>3, <1>4, <1>5, <1>6, <1>7, <1>8, <1>9 DEF Next, Main, Answer

LEMMA LedgerInit == Init => SizedInv /\ OutInv /\ QueueInv
<1> SUFFICES ASSUME Init PROVE SizedInv /\ OutInv /\ QueueInv
  OBVIOUS
<1>0. SizedInv
  <2>1. \A i \in DOMAIN <<>> : FALSE
    BY SMT
  <2> QED BY <2>1 DEF Init, SizedInv, NoReply
<1>1. InHand = 0 /\ Pending = 0 /\ reply.kind # "record"
  BY DEF Init, InHand, Pending, NoReply, Garbage
<1>2. IsFiniteSet(lost) /\ Cardinality(lost) = 0
  BY FS_EmptySet DEF Init
<1>3. /\ Len(handed) = 0 /\ Len(printed) = 0 /\ DOMAIN printed = {} /\ lost = {} /\ record = 0
  BY SMT DEF Init
<1>4. 1 \in Queues => DOMAIN plc[1] = {}
  <2>1. 1 \in Queues => plc[1] = <<>>
    BY DEF Init
  <2> QED BY <2>1, SMT
<1>5. Below(record + 1)
  BY <1>3 DEF Below
<1>6. OutInv
  BY <1>1, <1>2, <1>3, <1>5, SMT DEF OutInv, Garbage
<1> QED BY <1>0, <1>4, <1>6 DEF QueueInv

\* Steps that take no record out and put none down.
LEMMA LedgerKept ==
  ASSUME OutInv, QueueInv, UNCHANGED <<plc, record, history>>,
         InHand' = InHand, Pending' = Pending, reply'.kind = "record" => mpc' = "await"
  PROVE  OutInv' /\ QueueInv'
<1>1. \A n : Below(n) => Below(n)'
  BY DEF Below, history
<1>2. OutInv'
  BY <1>1 DEF OutInv, history
<1>3. QueueInv'
  BY <1>1 DEF QueueInv, history
<1> QED BY <1>2, <1>3

LEMMA ProduceLedger ==
  ASSUME TypeInv, OutInv, QueueInv, NEW q \in Produced, Produce(q)
  PROVE  OutInv' /\ QueueInv'
<1>1. /\ UNCHANGED <<mpc, reply, chunk, handed, lost, printed>>
      /\ record' = record + 1 /\ record \in Nat
      /\ plc' = [plc EXCEPT ![q] = Append(plc[q], record')]
  BY QueueAssumption, SMT DEF Produce, history, TypeInv, TypeOK
<1>2. InHand' = InHand /\ Pending' = Pending /\ \A n : Below(n) => Below(n)'
  BY <1>1 DEF InHand, Pending, Below
<1>3. Below(record' + 1) /\ InHand <= record'
  BY <1>1, LedgerTypes, SMT DEF OutInv, Below
<1>4. OutInv'
  BY <1>1, <1>2, <1>3 DEF OutInv
<1>5. ASSUME 1 \in Queues
      PROVE  /\ \A k \in DOMAIN plc'[1] :
                  Below(plc'[1][k]) /\ InHand < plc'[1][k] /\ plc'[1][k] <= record'
             /\ \A j, k \in DOMAIN plc'[1] : j < k => plc'[1][j] < plc'[1][k]
  <2>0. /\ plc[1] \in Seq(1 .. MaxRecords) /\ MaxRecords \in Nat
        /\ \A k \in DOMAIN plc[1] : plc[1][k] \in 1 .. MaxRecords
    BY <1>5, ElementType, QueueAssumption DEF TypeInv
  <2>1. CASE q # 1
    <3>1. plc'[1] = plc[1]
      BY <1>1, <1>5, <2>1 DEF TypeInv
    <3>2. \A k \in DOMAIN plc[1] : plc[1][k] <= record'
      BY <1>1, <1>5, <2>0, SMT DEF QueueInv
    <3> QED BY <1>5, <3>1, <3>2 DEF QueueInv
  <2>2. CASE q = 1
    <3>1. plc'[1] = Append(plc[1], record')
      BY <1>1, <1>5, <2>2 DEF TypeInv
    <3>2. record' \in 1 .. MaxRecords
      BY <1>1, <2>0, SMT DEF Produce, TypeInv, TypeOK
    <3>3. /\ Len(plc[1]) \in Nat /\ DOMAIN plc[1] = 1 .. Len(plc[1])
          /\ DOMAIN plc'[1] = 1 .. Len(plc[1]) + 1
          /\ plc'[1][Len(plc[1]) + 1] = record'
          /\ \A k \in DOMAIN plc[1] : plc'[1][k] = plc[1][k]
      BY <2>0, <3>1, <3>2, SMT
    <3>4. Below(record') /\ InHand < record'
      BY <1>1, LedgerTypes, SMT DEF OutInv
    <3>5. \A k \in DOMAIN plc[1] : plc[1][k] < record'
      BY <1>1, <1>5, <2>0, SMT DEF QueueInv
    <3>6. ASSUME NEW k \in DOMAIN plc'[1]
          PROVE  Below(plc'[1][k]) /\ InHand < plc'[1][k] /\ plc'[1][k] <= record'
      <4>1. CASE k = Len(plc[1]) + 1
        BY <1>1, <3>3, <3>4, <4>1, SMT
      <4>2. CASE k \in DOMAIN plc[1]
        <5>1. plc[1][k] <= record'
          BY <1>1, <2>0, <3>5, <4>2, SMT
        <5> QED BY <1>5, <3>3, <4>2, <5>1 DEF QueueInv
      <4> QED BY <3>3, <4>1, <4>2, SMT
    <3>7. ASSUME NEW j \in DOMAIN plc'[1], NEW k \in DOMAIN plc'[1], j < k
          PROVE  plc'[1][j] < plc'[1][k]
      <4>1. j \in DOMAIN plc[1] /\ (k \in DOMAIN plc[1] \/ k = Len(plc[1]) + 1)
        BY <3>3, <3>7, SMT
      <4>2. CASE k \in DOMAIN plc[1]
        BY <1>5, <3>3, <3>7, <4>1, <4>2 DEF QueueInv
      <4>3. CASE k = Len(plc[1]) + 1
        BY <3>3, <3>5, <4>1, <4>3
      <4> QED BY <4>1, <4>2, <4>3
    <3> QED BY <3>6, <3>7
  <2> QED BY <2>1, <2>2
<1>6. QueueInv'
  BY <1>1, <1>2, <1>5 DEF QueueInv
<1> QED BY <1>4, <1>6

\* The record that leaves queue 1 is above all that left before, and below the rest.
LEMMA TakenRecord ==
  ASSUME TypeInv, FlowInv, OutInv, QueueInv, Serve, Takes
  PROVE  LET h == Head(plc[Asked.nro])
         IN  /\ 1 \in Queues /\ h \in 1 .. MaxRecords
             /\ Below(h) /\ h <= record /\ Len(handed') = Len(handed) + 1
             /\ \A k \in DOMAIN plc'[1] :
                  Below(plc'[1][k]) /\ h < plc'[1][k] /\ plc'[1][k] <= record
             /\ \A j, k \in DOMAIN plc'[1] : j < k => plc'[1][j] < plc'[1][k]
<1>1. Asked.nro = 1
  <2>1. inbox \in Seq(Request) /\ inbox # <<>>
    BY DEF TypeInv, TypeOK, Request, Serve
  <2> QED BY <2>1, ElementType, SMT DEF Asked, Takes, FlowInv, QueueKinds
<1>2. 1 \in Queues /\ plc[1] \in Seq(1 .. MaxRecords) /\ plc[1] # <<>>
      /\ plc'[1] = Tail(plc[1]) /\ handed' = Append(handed, Head(plc[1]))
  BY <1>1, ServeTypes, ServePlc DEF Takes, TypeInv
<1>3. /\ Head(plc[1]) = plc[1][1] /\ Head(plc[1]) \in 1 .. MaxRecords
      /\ 1 \in DOMAIN plc[1]
      /\ \A i \in DOMAIN plc'[1] : i + 1 \in DOMAIN plc[1] /\ plc'[1][i] = plc[1][i + 1]
      /\ DOMAIN plc'[1] \subseteq Nat \ {0}
  <2>1. Tail(plc[1]) \in Seq(1 .. MaxRecords) /\ Len(plc[1]) >= 1 /\ Len(plc[1]) \in Nat
        /\ DOMAIN plc[1] = 1 .. Len(plc[1])
    BY <1>2, ElementType
  <2>2. DOMAIN plc'[1] \subseteq Nat \ {0} /\ 1 \in DOMAIN plc[1]
    BY <1>2, <2>1, SMT
  <2>3. \A i \in DOMAIN Tail(plc[1]) :
          i + 1 \in DOMAIN plc[1] /\ Tail(plc[1])[i] = plc[1][i + 1]
    BY <1>2, ElementType
  <2>4. Head(plc[1]) = plc[1][1] /\ Head(plc[1]) \in 1 .. MaxRecords
    BY <1>2, ElementType
  <2> QED BY <1>2, <2>2, <2>3, <2>4
<1>4. Len(handed') = Len(handed) + 1
  BY <1>2, <1>3, SMT DEF TypeInv
<1>5. Below(Head(plc[1])) /\ Head(plc[1]) <= record
  BY <1>2, <1>3 DEF QueueInv
<1>6. ASSUME NEW k \in DOMAIN plc'[1]
      PROVE  Below(plc'[1][k]) /\ Head(plc[1]) < plc'[1][k] /\ plc'[1][k] <= record
  <2>1. k + 1 \in DOMAIN plc[1] /\ 1 < k + 1 /\ plc'[1][k] = plc[1][k + 1]
    BY <1>3, SMT
  <2> QED BY <1>2, <1>3, <2>1 DEF QueueInv
<1>7. ASSUME NEW j \in DOMAIN plc'[1], NEW k \in DOMAIN plc'[1], j < k
      PROVE  plc'[1][j] < plc'[1][k]
  <2>1. j + 1 \in DOMAIN plc[1] /\ k + 1 \in DOMAIN plc[1] /\ j + 1 < k + 1
    BY <1>3, <1>7, SMT
  <2> QED BY <1>2, <1>3, <2>1 DEF QueueInv
<1> QED BY <1>1, <1>2, <1>3, <1>4, <1>5, <1>6, <1>7

LEMMA ServeLedger ==
  ASSUME TypeInv, FlowInv, OutInv, QueueInv, Serve
  PROVE  OutInv' /\ QueueInv'
<1> DEFINE h == Head(plc[Asked.nro])
<1>1. /\ UNCHANGED <<mpc, record, chunk, printed>> /\ inbox # <<>>
  BY DEF Serve
<1>2. reply = NoReply /\ reply.kind = "none" /\ mpc # "print"
  BY <1>1 DEF FlowInv, NoReply
<1>3. InHand = 0 /\ Pending = 0
  BY <1>2 DEF InHand, Pending, Garbage
<1>4. CASE ~Takes
  <2>1. UNCHANGED <<plc, handed, lost>> /\ reply'.kind # "record"
    BY <1>2, <1>4, ServePlc, ServeReply
  <2>2. InHand' = 0 /\ Pending' = 0
    BY <1>1, <1>2, <2>1 DEF InHand, Pending, Garbage
  <2> QED BY <1>1, <1>3, <2>1, <2>2, LedgerKept DEF history
<1>5. CASE Takes
  <2>1. /\ 1 \in Queues /\ h \in 1 .. MaxRecords
        /\ Below(h) /\ h <= record /\ Len(handed') = Len(handed) + 1
        /\ \A k \in DOMAIN plc'[1] :
             Below(plc'[1][k]) /\ h < plc'[1][k] /\ plc'[1][k] <= record
        /\ \A j, k \in DOMAIN plc'[1] : j < k => plc'[1][j] < plc'[1][k]
    BY <1>5, TakenRecord
  <2>2. CASE ForMain
    <3>1. lost' = lost /\ reply'.kind = "record" /\ reply'.record = h
      BY <1>5, <2>2, ServeReply
    <3>2. InHand' = h /\ Pending' = 1 /\ mpc' = "await"
      BY <1>1, <2>2, <3>1 DEF InHand, Pending, ForMain
    <3>3. \A n : Below(n) => Below(n)'
      BY <1>1, <3>1 DEF Below
    <3>4. Len(handed') = Len(printed') + Cardinality(lost') + Pending'
      <4>1. Cardinality(lost) \in Nat
        BY FS_CardinalityType DEF OutInv
      <4>2. Len(handed) = Len(printed) + Cardinality(lost)
        BY <1>3, <4>1, LedgerTypes, SMT DEF OutInv
      <4> QED BY <1>1, <2>1, <3>1, <3>2, <4>1, <4>2, LedgerTypes, SMT
    <3>5. OutInv'
      BY <1>1, <2>1, <3>1, <3>2, <3>3, <3>4 DEF OutInv
    <3>6. QueueInv'
      BY <1>1, <2>1, <3>2, <3>3 DEF QueueInv
    <3> QED BY <3>5, <3>6
  <2>3. CASE ~ForMain
    <3>1. lost' = lost \cup {h} /\ reply' = reply
      BY <1>5, <2>3, ServeReply
    <3>2. InHand' = 0 /\ Pending' = 0 /\ reply'.kind # "record"
      BY <1>1, <1>2, <3>1 DEF InHand, Pending, Garbage
    <3>3. ASSUME NEW n \in Int, Below(n), h < n PROVE Below(n)'
      BY <1>1, <3>1, <3>3 DEF Below
    <3>4. h \notin lost
      BY <2>1, LedgerTypes, SMT DEF Below
    <3>5. IsFiniteSet(lost') /\ Cardinality(lost') = Cardinality(lost) + 1
      BY <3>1, <3>4, FS_AddElement DEF OutInv
    <3>6. Len(handed') = Len(printed') + Cardinality(lost') + Pending'
      <4>1. Cardinality(lost) \in Nat
        BY FS_CardinalityType DEF OutInv
      <4>2. Len(handed) = Len(printed) + Cardinality(lost)
        BY <1>3, <4>1, LedgerTypes, SMT DEF OutInv
      <4> QED BY <1>1, <2>1, <3>2, <3>5, <4>1, <4>2, LedgerTypes, SMT
    <3>7. \A i \in DOMAIN printed : printed[i] # Garbage => printed[i] \notin lost'
      <4>1. \A i \in DOMAIN printed : printed[i] # h
        BY <2>1, LedgerTypes, SMT DEF Below
      <4> QED BY <3>1, <4>1 DEF OutInv
    <3>8. Below(record + 1)' /\ 0 <= record
      <4>1. record + 1 \in Int /\ h < record + 1 /\ 0 <= record
        BY <2>1, LedgerTypes, SMT
      <4>2. Below(record + 1)
        BY DEF OutInv
      <4> QED BY <1>1, <3>3, <4>1, <4>2
    <3>9. OutInv'
      BY <1>1, <3>2, <3>5, <3>6, <3>7, <3>8 DEF OutInv, Garbage
    <3>10. ASSUME NEW k \in DOMAIN plc'[1]
           PROVE  Below(plc[1][k])' /\ 0 < plc'[1][k]
      <4>1. plc'[1][k] \in 1 .. MaxRecords
        <5>1. plc'[1] \in Seq(1 .. MaxRecords)
          BY <1>5, <2>1, ServePlc
        <5> QED BY <5>1, ElementType
      <4>2. plc'[1][k] \in Int /\ 0 < plc'[1][k]
        BY <4>1, LedgerTypes, SMT
      <4> QED BY <2>1, <3>3, <4>2
    <3>11. QueueInv'
      BY <1>1, <2>1, <3>2, <3>10 DEF QueueInv
    <3> QED BY <3>9, <3>11
  <2> QED BY <2>2, <2>3
<1> QED BY <1>4, <1>5

LEMMA MainLedger ==
  ASSUME TypeInv, FlowInv, OutInv, QueueInv, Main \/ MailboxAllocates,
         ~ReadEmpty, ~PrintNull
  PROVE  OutInv' /\ QueueInv'
<1>1. CASE Configure \/ SkipQueue \/ SendRead \/ Reopen
  <2>1. /\ UNCHANGED <<reply, plc, record, chunk, history>>
        /\ mpc \notin {"await", "print"} /\ mpc' # "print" /\ mpc # "crashed"
    BY <1>1 DEF Configure, SkipQueue, SendRead, Reopen
  <2>2. reply.kind = "none"
    BY <2>1 DEF FlowInv, NoReply
  <2>3. InHand' = InHand /\ Pending' = Pending
    BY <2>1, <2>2 DEF InHand, Pending
  <2> QED BY <2>1, <2>2, <2>3, LedgerKept
<1>2. CASE ReadStatus \/ ReadStatusCrashes \/ ReadData
  <2>1. /\ UNCHANGED <<plc, record, chunk, history>>
        /\ mpc = "await" /\ mpc' # "print" /\ reply' \in {reply, NoReply}
        /\ reply.kind # "record"
    BY <1>2 DEF ReadStatus, ReadStatusCrashes, ReadData
  <2>2. reply'.kind # "record"
    BY <2>1 DEF NoReply
  <2>3. InHand' = InHand /\ Pending' = Pending
    BY <2>1, <2>2 DEF InHand, Pending
  <2> QED BY <2>1, <2>2, <2>3, LedgerKept
<1>3. CASE ReadRecord
  <2>1. /\ UNCHANGED <<plc, record, history>> /\ reply.kind = "record"
        /\ mpc' = "print" /\ reply' = NoReply /\ chunk' = reply.record
    BY <1>3 DEF ReadRecord
  <2>2. reply'.kind # "record"
    BY <2>1 DEF NoReply
  <2>3. chunk' # NoString
    BY <1>3, <2>1, QueueAssumption, SMT DEF TypeInv, ReplyType, NoString
  <2>4. InHand' = InHand /\ Pending' = Pending
    BY <2>1, <2>2, <2>3 DEF InHand, Pending
  <2> QED BY <2>1, <2>2, <2>4, LedgerKept
<1>4. CASE ReadFails
  <2>1. /\ UNCHANGED <<plc, record, chunk, handed, printed>> /\ mpc = "await"
        /\ mpc' = "down" /\ reply' = NoReply
        /\ lost' = IF reply.kind = "record" THEN lost \cup {reply.record} ELSE lost
    BY <1>4 DEF ReadFails
  <2>2. reply'.kind # "record" /\ InHand' = 0 /\ Pending' = 0
    BY <2>1 DEF NoReply, InHand, Pending, Garbage
  <2>3. CASE reply.kind # "record"
    <3>1. InHand = 0 /\ Pending = 0 /\ lost' = lost
      BY <2>1, <2>3 DEF InHand, Pending, Garbage
    <3> QED BY <2>1, <2>2, <3>1, LedgerKept DEF history
  <2>4. CASE reply.kind = "record"
    <3>1. /\ InHand = reply.record /\ Pending = 1 /\ InHand \in 1 .. MaxRecords
          /\ lost' = lost \cup {InHand}
      BY <2>1, <2>4 DEF InHand, Pending, TypeInv, ReplyType
    <3>2. InHand # Garbage
      BY <3>1, LedgerTypes, SMT DEF Garbage
    <3>3. Below(InHand) /\ InHand <= record
      BY <3>2 DEF OutInv
    <3>4. \A n : Below(n) /\ InHand < n => Below(n)'
      BY <2>1, <3>1 DEF Below
    <3>5. InHand \notin lost /\ \A i \in DOMAIN printed : printed[i] # InHand
      BY <3>3, LedgerTypes, SMT DEF Below
    <3>6. IsFiniteSet(lost') /\ Cardinality(lost') = Cardinality(lost) + 1
      BY <3>1, <3>5, FS_AddElement DEF OutInv
    <3>7. Len(handed') = Len(printed') + Cardinality(lost') + Pending'
      <4>1. Cardinality(lost) \in Nat
        BY FS_CardinalityType DEF OutInv
      <4>2. Len(handed) = Len(printed) + Cardinality(lost) + 1
        BY <3>1 DEF OutInv
      <4> QED BY <2>1, <2>2, <3>6, <4>1, <4>2, LedgerTypes, SMT
    <3>8. \A i \in DOMAIN printed : printed[i] # Garbage => printed[i] \notin lost'
      BY <3>1, <3>5 DEF OutInv
    <3>9. Below(record + 1)' /\ 0 <= record
      <4>1. InHand < record + 1 /\ 0 <= record
        BY <3>3, LedgerTypes, SMT
      <4> QED BY <2>1, <3>4, <4>1 DEF OutInv
    <3>10. OutInv'
      BY <2>1, <2>2, <3>6, <3>7, <3>8, <3>9 DEF OutInv, Garbage
    <3>11. ASSUME 1 \in Queues, NEW k \in DOMAIN plc[1]
           PROVE  Below(plc[1][k])' /\ 0 < plc[1][k] /\ plc[1][k] <= record
      <4>1. Below(plc[1][k]) /\ InHand < plc[1][k] /\ plc[1][k] <= record
        BY <3>11 DEF QueueInv
      <4>2. plc[1][k] \in 1 .. MaxRecords
        BY <3>11, ElementType DEF TypeInv
      <4>3. 0 < plc[1][k]
        BY <4>2, LedgerTypes, SMT
      <4> QED BY <2>1, <3>4, <4>1, <4>3
    <3>12. QueueInv'
      BY <2>1, <2>2, <3>11 DEF QueueInv
    <3> QED BY <3>10, <3>12
  <2> QED BY <2>3, <2>4
<1>5. CASE PrintRecord
  <2>1. /\ UNCHANGED <<reply, plc, record, chunk, handed, lost>> /\ mpc = "print"
        /\ mpc' = "poll" /\ printed' = Append(printed, chunk)
        /\ chunk # NoString /\ chunk \in 0 .. MaxRecords
    BY <1>5 DEF PrintRecord, TypeInv
  <2>2. reply.kind = "none"
    BY <2>1 DEF FlowInv, NoReply
  <2>3. InHand = chunk /\ Pending = 1 /\ InHand' = 0 /\ Pending' = 0
    BY <2>1, <2>2 DEF InHand, Pending, Garbage
  <2>4. /\ Len(printed') = Len(printed) + 1 /\ DOMAIN printed' = 1 .. Len(printed) + 1
        /\ \A i \in DOMAIN printed : printed'[i] = printed[i]
        /\ printed'[Len(printed) + 1] = chunk
        /\ Len(printed) \in Nat /\ DOMAIN printed = 1 .. Len(printed)
    BY <2>1, SMT DEF TypeInv
  <2>5. \A i \in DOMAIN printed' :
          (i \in DOMAIN printed /\ printed'[i] = printed[i])
          \/ (i = Len(printed) + 1 /\ printed'[i] = chunk)
    BY <2>4, SMT
  <2>6. chunk # Garbage => Below(chunk)
    BY <2>3 DEF OutInv
  <2>7. \A n : Below(n) /\ chunk < n => Below(n)'
    BY <2>1, <2>5 DEF Below
  <2>8. Len(handed') = Len(printed') + Cardinality(lost') + Pending'
    <3>1. Cardinality(lost) \in Nat
      BY FS_CardinalityType DEF OutInv
    <3>2. Len(handed) = Len(printed) + Cardinality(lost) + 1
      BY <2>3 DEF OutInv
    <3> QED BY <2>1, <2>3, <2>4, <3>1, <3>2, SMT
  <2>9. ASSUME NEW i \in DOMAIN printed', NEW j \in DOMAIN printed',
               printed'[i] # Garbage, printed'[j] # Garbage, i < j
        PROVE  printed'[i] < printed'[j]
    <3>1. i \in DOMAIN printed /\ printed'[i] = printed[i]
      BY <2>4, <2>5, <2>9, SMT
    <3>2. CASE j \in DOMAIN printed /\ printed'[j] = printed[j]
      BY <2>9, <3>1, <3>2 DEF OutInv
    <3>3. CASE printed'[j] = chunk
      BY <2>6, <2>9, <3>1, <3>3 DEF Below
    <3> QED BY <2>5, <3>2, <3>3
  <2>10. \A i \in DOMAIN printed' : printed'[i] # Garbage => printed'[i] \notin lost'
    <3>1. chunk # Garbage => chunk \notin lost
      BY <2>6, <2>3, LedgerTypes, SMT DEF Below
    <3> QED BY <2>1, <2>5, <3>1 DEF OutInv
  <2>11. Below(record + 1)' /\ 0 <= record
    <3>1. chunk < record + 1 /\ 0 <= record
      <4>1. chunk <= record
        BY <2>3 DEF OutInv
      <4> QED BY <2>3, <4>1, LedgerTypes, SMT
    <3> QED BY <2>1, <2>7, <3>1 DEF OutInv
  <2>12. OutInv'
    BY <2>1, <2>2, <2>3, <2>8, <2>9, <2>10, <2>11 DEF OutInv, Garbage
  <2>13. ASSUME 1 \in Queues, NEW k \in DOMAIN plc[1]
         PROVE  Below(plc[1][k])' /\ 0 < plc[1][k] /\ plc[1][k] <= record
    <3>1. Below(plc[1][k]) /\ chunk < plc[1][k] /\ plc[1][k] <= record
      BY <2>3, <2>13 DEF QueueInv
    <3>2. plc[1][k] \in 1 .. MaxRecords
      BY <2>13, ElementType DEF TypeInv
    <3>3. 0 < plc[1][k]
      BY <3>2, LedgerTypes, SMT
    <3> QED BY <2>1, <2>7, <3>1, <3>3
  <2>14. QueueInv'
    BY <2>1, <2>3, <2>13 DEF QueueInv
  <2> QED BY <2>12, <2>14
<1>6. CASE MailboxAllocates
  <2>1. /\ UNCHANGED <<mpc, reply, plc, record, history>> /\ mpc = "print" /\ chunk' = Garbage
    BY <1>6 DEF MailboxAllocates
  <2>2. reply.kind = "none"
    BY <2>1 DEF FlowInv, NoReply
  <2>3. InHand' = 0 /\ Pending' = Pending
    BY <2>1, <2>2 DEF InHand, Pending, Garbage
  <2>4. \A n : Below(n) => Below(n)'
    BY <2>1 DEF Below, history
  <2>5. 0 <= record /\ \A n \in Int : InHand < n => 0 < n
    BY LedgerTypes, SMT
  <2>6. OutInv'
    BY <2>1, <2>2, <2>3, <2>4, <2>5 DEF OutInv, Garbage, history
  <2>7. ASSUME 1 \in Queues, NEW k \in DOMAIN plc[1] PROVE 0 < plc[1][k]
    <3>1. plc[1][k] \in 1 .. MaxRecords
      BY <2>7, ElementType DEF TypeInv
    <3> QED BY <3>1, LedgerTypes, SMT
  <2>8. QueueInv'
    BY <2>1, <2>3, <2>4, <2>7 DEF QueueInv, history
  <2> QED BY <2>6, <2>8
<1> QED BY <1>1, <1>2, <1>3, <1>4, <1>5, <1>6 DEF Main

LEMMA LedgerNext ==
  TypeInv /\ FlowInv /\ LedgerInv /\ [Next]_vars => LedgerInv'
<1> SUFFICES ASSUME TypeInv, FlowInv, LedgerInv, [Next]_vars, Sized(namelist)'
             PROVE  SizedInv' /\ OutInv' /\ QueueInv'
  BY DEF LedgerInv
<1>1. namelist' = namelist
  <2>1. CASE UNCHANGED vars
    BY <2>1 DEF vars, client
  <2>2. ASSUME NEW q \in Produced, Produce(q) PROVE namelist' = namelist
    BY <2>2 DEF Produce, client
  <2>3. CASE Answer \/ MailboxAllocates
    BY <2>3 DEF Answer, Serve, ServeEmpty, MailboxAllocates, client
  <2>4. CASE Main
    BY <2>4 DEF Main, Configure, SkipQueue, SendRead, ReadStatus, ReadStatusCrashes,
                ReadRecord, ReadEmpty, ReadData, ReadFails, PrintRecord, PrintNull,
                Reopen, client
  <2> QED BY <2>1, <2>2, <2>3, <2>4 DEF Next
<1>2. Sized(namelist) /\ SizedInv /\ OutInv /\ QueueInv
  BY <1>1 DEF LedgerInv, Sized
<1>3. CASE UNCHANGED vars
  <2>1. InHand' = InHand /\ Pending' = Pending
    BY <1>3 DEF vars, InHand, Pending
  <2>2. reply'.kind = "record" => mpc' = "await"
    BY <1>2, <1>3 DEF vars, OutInv
  <2>3. UNCHANGED <<plc, record, history>>
    BY <1>3 DEF vars
  <2>4. SizedInv'
    BY <1>2, <1>3 DEF vars, SizedInv
  <2> QED BY <1>2, <2>1, <2>2, <2>3, <2>4, LedgerKept
<1>4. CASE Next
  <2>1. SizedInv' /\ ~ServeEmpty /\ ~ReadEmpty /\ ~PrintNull
    BY <1>2, <1>4, SizedNext
  <2> QED BY <1>2, <1>4, <2>1, ProduceLedger, ServeLedger, MainLedger DEF Next, Answer
<1> QED BY <1>3, <1>4

\* Every record the PLC hands out is printed once and in order, is lost with the
\* read that failed, or is the one being read, whatever the namelist, unless a cell
\* of it asks for records of no bytes (ethernetip_client.cpp:517-607, 666-701).
THEOREM RecordsAccountedForAlways == Spec => []RecordsAccountedFor
<1>1. LedgerInv => RecordsAccountedFor
  BY DEF LedgerInv, OutInv, RecordsAccountedFor, Pending
<1>2. Init => LedgerInv
  BY LedgerInit DEF LedgerInv
<1> QED BY <1>1, <1>2, TypeInit, TypeNext, FlowInit, FlowNext, LedgerNext, PTL
        DEF Spec
=============================================================================
