----------------------------- MODULE QueuePoll ------------------------------
(***************************************************************************)
(* The cycle of the daemon over its namelist, and the queues of the PLC.   *)
(*                                                                         *)
(* A DLS cell reads how many records a queue holds; a QUEUE cell takes one *)
(* record out of it, if the last status said there was one; the other      *)
(* cells read data files.  A QUEUE cell that is configured with no bytes   *)
(* ("empty") asks for a record all the same.  A read that fails closes the *)
(* link, and main starts over at the first cell of a new one, with the     *)
(* counts it had.                                                          *)
(*                                                                         *)
(* An exchange gets its own reply or fails (Exchange!CarefulOwnReply): a   *)
(* reply that comes too late dies with its link.                           *)
(***************************************************************************)
EXTENDS Integers, Sequences, FiniteSets

CONSTANTS
  Namelists,   \* configured lists of cells, each [kind, nro]
  Produced,    \* queues the program of the PLC puts records into
  MaxRecords,  \* bound: records put into queues
  MaxLinks     \* bound: links opened; after the last no read fails by itself

Kinds == {"dls", "queue", "empty", "data"}
QueueKinds == {"queue", "empty"}

ASSUME QueueAssumption ==
  /\ \A names \in Namelists :
       /\ names \in Seq([kind : Kinds, nro : Nat])
       /\ names # <<>>
  /\ Produced \subseteq Nat
  /\ MaxRecords \in Nat /\ MaxLinks \in Nat \ {0}

VARIABLES
  namelist,  \* the cells of this configuration
  mpc,       \* where main is
  cell,      \* its place in the namelist
  que,       \* records_to_read of each allocated entry of the queue table
  link,      \* links opened so far
  inbox,     \* requests the PLC has yet to serve
  reply,     \* its answer on this link, or NoReply
  plc,       \* the records in each queue of the PLC
  record,    \* the last record put into a queue
  chunk,     \* what the memory queue_str points to holds, or NoString
  handed,    \* records the PLC has handed out, in order
  lost,      \* those whose read failed
  printed    \* what main has printed as records, in order

client == <<namelist, que, link>>
history == <<handed, lost, printed>>
vars == <<client, mpc, cell, inbox, reply, plc, record, chunk, history>>

NoReply == [kind |-> "none"]
Garbage == 0   \* memory that something else was written to
NoString == -1 \* queue_str is null, before the first record

Queues == Produced \cup UNION {{names[i].nro : i \in DOMAIN names} : names \in Namelists}
Here == namelist[cell]

-----------------------------------------------------------------------------
\* The PLC.

Produce(q) ==
  /\ record < MaxRecords
  /\ record' = record + 1
  /\ plc' = [plc EXCEPT ![q] = Append(@, record')]
  /\ UNCHANGED <<client, mpc, cell, inbox, reply, chunk, history>>

\* Requests are served in the order they came.  The record that is handed out
\* leaves its queue; an empty queue is refused.
Serve ==
  /\ inbox # <<>> /\ Head(inbox).kind # "empty"
  /\ inbox' = Tail(inbox)
  /\ LET request == Head(inbox)
         q == request.nro
         takes == request.kind = "queue" /\ plc[q] # <<>>
         answer ==
           CASE request.kind = "dls" -> [kind |-> "count", count |-> Len(plc[q])]
             [] takes -> [kind |-> "record", record |-> Head(plc[q])]
             [] request.kind = "data" -> [kind |-> "data"]
             [] OTHER -> [kind |-> "refused"]
     IN  /\ plc' = IF takes THEN [plc EXCEPT ![q] = Tail(@)] ELSE plc
         /\ handed' = IF takes THEN Append(handed, Head(plc[q])) ELSE handed
         /\ IF request.link = link /\ mpc = "await"
            THEN reply' = answer /\ lost' = lost
            ELSE /\ reply' = reply
                 /\ lost' = IF takes THEN lost \cup {Head(plc[q])} ELSE lost
  /\ UNCHANGED <<client, mpc, cell, record, chunk, printed>>

\* Asked for no bytes, it keeps the record, or hands it out and nothing arrives.
ServeEmpty ==
  /\ inbox # <<>> /\ Head(inbox).kind = "empty"
  /\ inbox' = Tail(inbox)
  /\ LET q == Head(inbox).nro
     IN  \/ UNCHANGED <<plc, handed, lost>>
         \/ /\ plc[q] # <<>>
            /\ plc' = [plc EXCEPT ![q] = Tail(@)]
            /\ handed' = Append(handed, Head(plc[q]))
            /\ lost' = lost \cup {Head(plc[q])}
  /\ reply' = IF Head(inbox).link = link /\ mpc = "await" THEN [kind |-> "empty"] ELSE reply
  /\ UNCHANGED <<client, mpc, cell, record, chunk, printed>>

-----------------------------------------------------------------------------
\* init: the queue table has one entry per DLS cell, at the next free index;
\* the entry a QUEUE cell names must be there when the cell is reached.

DlsCells(names) == {i \in DOMAIN names : names[i].kind = "dls"}

Configured(names) ==
  \A i \in DOMAIN names :
    names[i].kind \in QueueKinds =>
      names[i].nro < Cardinality({j \in DlsCells(names) : j < i})

Configure ==
  /\ mpc = "init"
  /\ IF Configured(namelist)
     THEN /\ que' = [n \in 0 .. (Cardinality(DlsCells(namelist)) - 1) |-> 0]
          /\ mpc' = "poll"
     ELSE que' = que /\ mpc' = "crashed"
  /\ UNCHANGED <<namelist, cell, link, inbox, reply, plc, record, chunk, history>>

-----------------------------------------------------------------------------
\* main.

NextCell == cell' = (cell % Len(namelist)) + 1

\* Mutant of Readable: the last record is left.
ReadableButOne == Here.kind \in QueueKinds => Here.nro = 1 /\ que[Here.nro] > 1

Readable == Here.kind \in QueueKinds => Here.nro = 1 /\ que[Here.nro] > 0

SkipQueue ==
  /\ mpc = "poll" /\ ~Readable
  /\ NextCell
  /\ UNCHANGED <<client, mpc, inbox, reply, plc, record, chunk, history>>

\* The name of the cell decides what is asked of which queue.
ReadRequest == [kind |-> Here.kind, nro |-> Here.nro, link |-> link]

SendRead ==
  /\ mpc = "poll" /\ Readable
  /\ inbox' = Append(inbox, ReadRequest)
  /\ mpc' = "await"
  /\ UNCHANGED <<client, cell, reply, plc, record, chunk, history>>

\* Mutant of ReadStatus: counts are added up.
ReadStatusAdds ==
  /\ mpc = "await" /\ reply.kind = "count"
  /\ Here.nro \in DOMAIN que
  /\ que' = [que EXCEPT ![Here.nro] = @ + reply.count]
  /\ mpc' = "poll" /\ NextCell /\ reply' = NoReply
  /\ UNCHANGED <<namelist, link, inbox, plc, record, chunk, history>>

\* The count goes to the entry with the number of the queue, if there is one.
ReadStatus ==
  /\ mpc = "await" /\ reply.kind = "count"
  /\ Here.nro \in DOMAIN que
  /\ que' = [que EXCEPT ![Here.nro] = reply.count]
  /\ mpc' = "poll" /\ NextCell /\ reply' = NoReply
  /\ UNCHANGED <<namelist, link, inbox, plc, record, chunk, history>>

ReadStatusCrashes ==
  /\ mpc = "await" /\ reply.kind = "count"
  /\ Here.nro \notin DOMAIN que
  /\ mpc' = "crashed"
  /\ UNCHANGED <<client, cell, inbox, reply, plc, record, chunk, history>>

\* queue_str is set to point into the reply, and the reply is freed.
ReadRecord ==
  /\ mpc = "await" /\ reply.kind = "record"
  /\ chunk' = reply.record
  /\ mpc' = "print" /\ reply' = NoReply
  /\ UNCHANGED <<client, cell, inbox, plc, record, history>>

\* Varcount is 0: an error is counted, but the read has not failed, and main goes
\* on to print what queue_str points to from before.
ReadEmpty ==
  /\ mpc = "await" /\ reply.kind = "empty"
  /\ mpc' = "print" /\ reply' = NoReply
  /\ UNCHANGED <<client, cell, inbox, plc, record, chunk, history>>

ReadData ==
  /\ mpc = "await" /\ reply.kind = "data"
  /\ mpc' = "poll" /\ NextCell /\ reply' = NoReply
  /\ UNCHANGED <<client, inbox, plc, record, chunk, history>>

\* The mailbox thread, while main does not hold the lock, uses the memory
\* that main has freed.
MailboxAllocates ==
  /\ mpc = "print" /\ chunk \notin {Garbage, NoString}
  /\ chunk' = Garbage
  /\ UNCHANGED <<client, mpc, cell, inbox, reply, plc, record, history>>

\* Mutant of PrintRecord: the cell is not left.
PrintAgain ==
  /\ mpc = "print" /\ chunk # NoString
  /\ printed' = Append(printed, chunk)
  /\ mpc' \in {"print", "poll"} /\ NextCell
  /\ UNCHANGED <<client, inbox, reply, plc, record, chunk, handed, lost>>

PrintRecord ==
  /\ mpc = "print" /\ chunk # NoString
  /\ printed' = Append(printed, chunk)
  /\ mpc' = "poll" /\ NextCell
  /\ UNCHANGED <<client, inbox, reply, plc, record, chunk, handed, lost>>

\* The null pointer is printed as "(null)" or not survived.
PrintNull ==
  /\ mpc = "print" /\ chunk = NoString
  /\ \/ printed' = Append(printed, Garbage) /\ mpc' = "poll" /\ NextCell
     \/ mpc' = "crashed" /\ UNCHANGED <<printed, cell>>
  /\ UNCHANGED <<client, inbox, reply, plc, record, chunk, handed, lost>>

\* A time-out, a lost link or a refusal: the loop ends and the link is closed,
\* with the answer, if it was on its way.
ReadFails ==
  /\ mpc = "await" /\ link < MaxLinks
  /\ mpc' = "down" /\ reply' = NoReply
  /\ lost' = IF reply.kind = "record" THEN lost \cup {reply.record} ELSE lost
  /\ UNCHANGED <<client, cell, inbox, plc, record, chunk, handed, printed>>

\* Mutant of Reopen: the loop goes on where it was.
ReopenInPlace ==
  /\ mpc = "down"
  /\ link' = link + 1 /\ mpc' = "poll"
  /\ inbox' \in {inbox, <<>>}
  /\ UNCHANGED <<namelist, que, cell, reply, plc, record, chunk, history>>

\* The PLC may still serve what it received on the link before.
Reopen ==
  /\ mpc = "down"
  /\ link' = link + 1 /\ cell' = 1 /\ mpc' = "poll"
  /\ inbox' \in {inbox, <<>>}
  /\ UNCHANGED <<namelist, que, reply, plc, record, chunk, history>>

-----------------------------------------------------------------------------
Init ==
  /\ namelist \in Namelists
  /\ que = <<>>
  /\ mpc = "init" /\ cell = 1 /\ link = 1
  /\ inbox = <<>> /\ reply = NoReply
  /\ plc = [q \in Queues |-> <<>>] /\ record = 0
  /\ chunk = NoString
  /\ handed = <<>> /\ lost = {} /\ printed = <<>>

Main ==
  \/ Configure \/ SkipQueue \/ SendRead
  \/ ReadStatus \/ ReadStatusCrashes \/ ReadRecord \/ ReadEmpty \/ ReadData
  \/ ReadFails \/ PrintRecord \/ PrintNull \/ Reopen

Answer == Serve \/ ServeEmpty

Next == Main \/ Answer \/ MailboxAllocates \/ \E q \in Produced : Produce(q)

Spec == Init /\ [][Next]_vars

\* main runs, and the PLC serves what it receives; nothing makes it produce.
FairSpec == Spec /\ WF_vars(Main) /\ WF_vars(Answer)

-----------------------------------------------------------------------------
\* Properties.

TypeOK ==
  /\ namelist \in Namelists /\ cell \in DOMAIN namelist
  /\ mpc \in {"init", "poll", "await", "print", "down", "crashed"}
  /\ \A n \in DOMAIN que : que[n] \in 0 .. MaxRecords
  /\ link \in 0 .. MaxLinks
  /\ inbox \in Seq([kind : Kinds, nro : Queues, link : 1 .. MaxLinks])
  /\ record \in 0 .. MaxRecords /\ lost \subseteq 1 .. MaxRecords

QueueOne(c) == c.kind \in QueueKinds /\ c.nro = 1
StatusOne(c) == c.kind = "dls" /\ c.nro = 1

\* At cell i, the status of queue 1 has been read since its last record was.
Fresh(names, i) ==
  \E j \in 1 .. i - 1 :
    StatusOne(names[j]) /\ \A k \in j + 1 .. i - 1 : ~QueueOne(names[k])

\* A namelist that reads the status of queue 1 before each of its records.
StatusFirst(names) == \A i \in DOMAIN names : QueueOne(names[i]) => Fresh(names, i)

\* A queue is asked for a record only when it has one, although the count it
\* was judged by is never counted down and outlives the link: each cycle reads
\* the status first, and the PLC has served all earlier takers by then.
\* A refusal would close the link.  It takes namelists that are StatusFirst.
ReadFindsRecord ==
  mpc = "await" /\ Here.kind \in QueueKinds /\ inbox # <<>>
    /\ Head(inbox).link = link => plc[Here.nro] # <<>>

\* Every QUEUE cell is configured with the bytes of its records.
Sized(names) == \A i \in DOMAIN names : names[i].kind # "empty"

\* Every record the PLC has handed out was printed, was lost with a read that
\* failed, or is between the two; none is printed twice or out of order.  An
\* empty cell prints the record before once more.
RecordsAccountedFor ==
  Sized(namelist) =>
  LET intact == {i \in DOMAIN printed : printed[i] # Garbage}
      pending == IF mpc = "print" \/ reply.kind = "record" THEN 1 ELSE 0
  IN  /\ Len(handed) = Len(printed) + Cardinality(lost) + pending
      /\ \A i, j \in intact : i < j => printed[i] < printed[j]
      /\ \A i \in intact : printed[i] \notin lost

\* What is printed as a record is the record that was read.
PrintsItsRecord == \A i \in DOMAIN printed : printed[i] # Garbage

\* "number after QUEUE is the one to read": a configuration that names its
\* queues runs, whatever their numbers are.
NumbersNameQueues == mpc # "crashed"

Holds(q, r) == \E i \in DOMAIN plc[q] : plc[q][i] = r

\* A record in queue 1 is taken out of it, when links stop failing and no cell is
\* empty.
\* The other queues never are: main reads queue 1 only.
QueueOneIsDrained ==
  \A r \in 1 .. MaxRecords :
    Sized(namelist) /\ mpc # "crashed" /\ Holds(1, r) ~> mpc = "crashed" \/ ~Holds(1, r)
=============================================================================
