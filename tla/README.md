# tuxeip in TLA+

This directory holds TLA+ models of *tuxeip*: the EtherNet/IP client library
`src/tuxeip`, the acquisition daemon `src/client` that polls an Allen-Bradley
PLC with it, and the SQLite wrapper and debug tool beside it.  TLC checks the
models on small instances, and TLAPS proves all the safety properties among them,
and the safety part of the one refinement, for every value of the constants.

    tlc -workers 2 -config Exchange_connected.cfg MCExchange
    tlc -workers 2 -config Daemon_threads.cfg Daemon
    tlc -workers 2 -config QueuePoll.cfg MCQueuePoll
    tlc -workers 2 -config PcccData.cfg MCData
    tlc -workers 2 -config Recorder.cfg MCRecorder
    tlapm ExchangeProofs.tla
    tlapm StreamProofs.tla
    tlapm DaemonProofs.tla
    tlapm QueuePollProofs.tla
    tlapm BytesProofs.tla
    tlapm PcccProofs.tla
    tlapm LgxProofs.tla
    tlapm RecorderProofs.tla

Paths below are relative to `src/tuxeip/src/` unless they say otherwise, and
`client` is `src/client/src/ethernetip_client.cpp`.

## 1. The system

| Component | State | Operations | Talks to |
|---|---|---|---|
| Transport, `SendData.c` | one TCP socket per session; a 512-byte drain buffer | `_CipOpenSock`, `_CIPEmptyBuffer`, `_CipSendData`, `_CipRecvData`, `_CipSendData_WaitReply` | the target, over a byte stream |
| Encapsulation, `Ethernet_IP.c` | `Eip_Session` (socket, handle, time-out), `Eip_Connection` (ids, `packet`) | open, close, register, unregister, three List calls, `_SendRRData`, `_ConnectedSend` | transport |
| Message router, `MR.c` | none | `_SendMRRequest` | encapsulation |
| Connection manager, `CM.c`, `AB.c` | makes and frees `Eip_Connection` | `_Forward_Open`, `_Forward_Close`, `_UnconnectedSend`, `_ConnectPLCOverCNET`, `_ConnectPLCOverDHP` | message router |
| PLC data, `PLC.c` | none | `_ReadPLCData`, `_WritePLCData`, address and data codecs | connection manager, encapsulation |
| ControlLogix data, `LGX.c` | none | `_ReadLgxData`, `_WriteLgxData`, decoding | encapsulation |
| IOI paths, `CIP_IOI.c` | none | `_BuildIOI` | used by LGX |
| Error state, `ErrCodes.c` | last error, per thread or shared | `CIPERROR`, message tables | everyone |
| Daemon, `client` | globals `session`, `connection`, the queue table, the current cell; one lock | `main` (open, poll, close, retry), `mailboxReadThread` (writes) | the library; shared memory and mailbox of pvbrowser |
| SQLite wrapper, `src/tux_sqlite` | a database handle or NULL | open, close, query | Qt |
| Debug tool, `src/debug` | one record | parse and insert until it succeeds | SQLite wrapper |

What is hard in this code:

- *Late replies.*  A call gives up after a time-out and leaves the reply on its
  way.  The next call drains what has arrived, which may be nothing, all, or a
  part of a late reply.  What tells replies apart is the command code and, for a
  connected send only, the low 16 bits of a counter.
- *Framing.*  TCP has no message boundaries.  The length of a body is believed
  from the 24 bytes that happen to come next.
- *Time-outs and closes.*  The time-out covers only the wait before the header.
  A closed socket makes `recv` return nothing, which nobody looks at, and a
  `send` on a closed connection raises SIGPIPE, which ends the process.
- *Two threads, three kinds of exclusion.*  Reads and writes take the lock; the
  opening and the closing of the link do not.  The globals are set to NULL after
  the object was freed.
- *Partial failure.*  An open has four steps, each of which may fail, and the
  retry must start clean.
- *Formats with more than one length.*  A level of an address takes one byte or
  three, a field of a descriptor none, one, two or four, an index of a tag two,
  four or six; and values go through signed words, floats and bytes on their way.
- *Names shared by a process.*  Qt's connections are looked up by name, and the
  first wrapper to close one closes it for all.

What each component must guarantee: transport and encapsulation, that a caller
gets the answer to its own question and that a broken exchange does not break
those after it; the daemon, that it goes on for ever, that its threads do not
mix their exchanges, that it uses no freed object and keeps none, and that it
loses no record of a queue silently; the codecs, that what is asked for, sent
and published is what was meant; the wrapper, that a statement it reports as
done was done in the file it was opened for.

## 2. Modules

| Module | Models | Lines |
|---|---|---|
| `Exchange` | one session: the calls of one thread at a time, the target, the byte stream | `SendData.c`, `Ethernet_IP.c`, `MR.c`, `CM.c`, the unconnected requests of `PLC.c` |
| `MCExchange` | instances of `Exchange`: which calls are made, which statuses occur | |
| `ExchangeProofs` | theorems about `Exchange`: types, `OwnReply` | |
| `StreamProofs` | theorems about its byte stream: `InSyncAfterReply`, `QuietUntilFailure`, `CarefulOwnReply` | |
| `Daemon` | the two threads of the daemon, the objects and the last error they share | `client`, `_CipOpenSock`, the use of session and connection in `PLC.c` and `_ConnectedSend` |
| `LinkSupervisor` | what the daemon promises about its link, abstractly | |
| `DaemonProofs` | theorems about `Daemon`, among them the safety of the refinement | |
| `QueuePoll` | the cycle over DLS, QUEUE and data cells, the queue table, the PLC's queues | `client`, `_ReadPLCData`, `_BuildPLCReadDataRequest` |
| `MCQueuePoll` | namelists for `QueuePoll` | |
| `QueuePollProofs` | theorems about `QueuePoll` | |
| `Bytes` | integers as little-endian bytes | the copies of integers in all codecs |
| `PlcAddress` | the address of a data file, from its text to bytes | `_BuildLogicalBinaryAddress` in `PLC.c` |
| `BytesProofs` | lemmas about bytes: what is written is read back | |
| `DataCall` | the variables of one read or write, of either family | |
| `PcccData` | read requests, typed data, queue status and records; what the daemon publishes and reports | `PLC.c`, `client` |
| `PcccProofs` | theorems about `PcccData` | |
| `Ioi` | the path of a tag, with members and indices | `CIP_IOI.c` |
| `LgxData` | reads and writes of a ControlLogix: requests, replies, values | `LGX.c` |
| `LgxProofs` | theorems about `LgxData` | |
| `MCData` | instances of `PcccData` and `LgxData`; composes both over one state | |
| `Sqlite` | any number of database wrappers over Qt's table of connections | `src/tux_sqlite` |
| `Recorder` | the debug tool, or any other program of the wrapper | `src/debug` |
| `MCRecorder` | the record of `Recorder` | |
| `RecorderProofs` | theorems about `Sqlite` and `Recorder` | |

`Exchange` and `Daemon` are two views of one program.  `Daemon` treats an
exchange on the socket as one step with any outcome; `Exchange` says which
outcomes there are, for a caller that is alone on the socket.  `Daemon` shows
that the threads are alone while they read and write (`ExchangesExclude`).

### Exchange

The stream is a sequence of cells.  A reply is a run of cells: the first is the
encapsulation header, the others its body.  `wire` is what the target has sent
and `rx` what has reached the receive buffer; `Arrive` moves one cell, so that
a drain or a read may find any part of a reply.  `pc` follows a call through
the transport:

| `pc` | Code | Actions |
|---|---|---|
| `idle` | between calls | `Call`, `OpenSession`, `CloseSession` |
| `drain` | `_CIPEmptyBuffer` in `_CipSendData_WaitReply` | `EmptyBuffer` |
| `send` | `_CipSendData`: the second drain, and `send` | `SendRequest`, `SendFails`, `SendKills` |
| `select` | `select` with the time-out, and the `recv` of the header | `RecvTimeout`, `RecvHeader`, `RecvPartOfHeader`, `RecvHeaderAtEof` |
| `body` | the `recv` of the body | `RecvBody`, `RecvShortBody` |
| `killed` | the process has died of SIGPIPE | |

`Finish` is the end of every call: each kind of call has an operator with the
tests it makes on the reply (`RegisterAccepts`, `ListAccepts`,
`ForwardAccepts`, `UnconnectedAccepts`, `ConnectedAccepts`), and Forward_Open
and Forward_Close make and free the connection.  A request carries its
connection and number for the properties' sake; the client compares only
`Command`, `Service` and `Packet`, which are all it can see.  Memory that the
code reads uninitialised, after an end of file or a short read, is a reply with
any verdict (`NoReply`, `BOOLEAN`).  A header read from the middle of a reply
announces a body of any length up to `MaxGarbage`.

`WaitAll` is FALSE in the WIN32 build, whose `MSG_WAITALL` is 0: there `recv` may
return a part of the header (`RecvPartOfHeader`) or of the body
(`RecvShortBody`), and a `send` fails where it would raise SIGPIPE elsewhere
(`SendFails`, `SendKills`).  A drain takes whole cells; that it might tear a
reply of one cell within its header is not modelled.

`Answer`, `Arrive` and `PeerClose` are the target and TCP, seen from the code
that uses them: replies come in any order, at any time or never, and the end of
what was sent may be lost when the target closes.

### Daemon

`mpc` is the main thread (open, register, connect, poll, read, sleep, and the
four steps of closing), `wpc` the mailbox thread.  `sessions`, `conns` and
`fds` are what malloc and socket have given out; an address that was freed may
be given out again, as malloc does.  `wsession` and `wconn` are the arguments
of a write, which stay what they were while main moves on.  A write through
NULL crashes; one through a freed pointer may crash or, when the address is in
use again, work.

`err` is whose exchange has set the last error.  `ErrCodes.h:29-32` makes it a
set of variables per thread, unless `VALGRING` is defined; the Windows project
files define it (`tuxeip.pro:12`, `debug.pro:29`), and the model has the one set
of such a build.  A failed read is printed (`report`) while main still holds the
lock.

`steady`, `leaked` and `torn` are history variables: main has been polling since
a write read its arguments; the sockets of failed lookups; and an exchange on the
session has failed, or two have overlapped, so that the next one may not return
(see Fairness).  None occurs in a guard.  `death` is what the process has died
of, a bad pointer or the SIGPIPE of a `send` (`SendKills`), after which there are
no more steps.

### QueuePoll

One cell of the namelist at a time: `SkipQueue` or `SendRead`, then one of the
ways `readTuxEip` can end, then `NextCell`.  `que` is `records_to_read` of the
entries of the queue table that `init` has allocated (`Configure`): the n-th DLS
cell gets entry n, whatever its name.  The PLC (`Produce`, `Serve`) is external:
it serves requests in the order they came, counts a queue for a status, and
takes out of it the record it hands out, as the code expects of it; after a
reopening it may still serve what it had received before.  `chunk` is the memory
`queue_str` points to, which has been freed by the time it is printed.
`handed`, `lost` and `printed` are history variables.

A QUEUE cell that is configured with no bytes (`empty`) is read like the others:
`ReadEmpty` counts an error and goes on to print, and what is printed is the
record before, or nothing (`PrintNull`), while the PLC may have taken a record out
of the queue (`ServeEmpty`).

An exchange succeeds or fails as a whole.  That a reply on a new link is never
of an old one is what `CarefulOwnReply` of `Exchange` shows.

### PcccData, PlcAddress

A behaviour is one request.  `AskData`, `AskStatus` and `AskRecord` are the three
requests `_ReadPLCData` makes, told apart by the first letters of the address;
the PLC answers, and `DecodePCCC` and the two getters, operators on sequences of
bytes, give what the library returns.  Then the daemon publishes values, stores
a count, keeps a record or, if it has no bytes, skips it, or reports a write.
`WriteTuxEip` is the daemon's write, of an integer or, if there is a dot in the
message, a float, to an address.  Floats are known by their bytes.

Each direction is checked against a reading of the format written independently
of the code: `AnswerArray` describes what the PLC holds in every form the decoder
knows (each field inline, or one, two or four bytes wide); `Levels` reads a
logical address as a PLC does; `MeantLevels` and `MeantBit` say what the text of
an address means to those who write it.  An address is a sequence of parts, a
word or separator with the number that follows it, not characters.  The code
reads it part by part; the model has that as a recursive function over the parts.
The number of a bit is shifted by its low five bits, as the processors the library
is built for do it.

### LgxData, Ioi

The same for a ControlLogix: `BuildIOI` makes a path, `ReadPath` takes
it apart as a controller does, segment by segment to its end or to the first that is
not there in full, and `Segments` is what it should find; a reply has a
service, a status and bytes, and may be the late reply of another service
(`AnswerOther`).  Of a write the controller takes what the request tells it, if
anything (`OrderIn`); when a late reply comes first, either may be the case.  An
integer is exact in its bytes and passes through a float on its way to the caller:
where that rounds, the getter has a set of results.  A path has its length, in
words, in one byte, and a name in another; both are cut to it, as in the code.

### Sqlite, Recorder

`registry` and `isOpen` are Qt's table of named connections, `db` the handle of
each wrapper; `rows` are what the files hold.  `Accept` is another program locking
a file, dropping its table, or giving them back.  `users`, `asked` and `claimed`
are history variables.  A process (`tpc`) is the debug tool, with its steps in
order, or any other program (`Other`), which calls the wrappers in any order.

## 3. What the runs check

| Run | Property | What it says |
|---|---|---|
| `Exchange_connected` | `OwnReply` | an accepted connected reply is the caller's own, or is of an earlier connection, or is at least `PacketMod` requests late |
| | `InSyncAfterReply` | a reply read in full leaves the stream on a boundary, whatever was torn before, also when `recv` may return early (the WIN32 build) |
| `Exchange_careful` | `CarefulOwnReply` | if nothing but a close follows a failure, no call takes a wrong reply |
| `Exchange_allcalls` | `TypeOK` | every call of the library |
| | `QuietUntilFailure` | until a call has failed nothing is about but the exchange in progress, and every read starts on a boundary |
| | `BoundaryReadEnds` | a read that starts on a boundary ends |
| `Daemon_threads` | `ExchangesExclude` | a poll and a write never overlap on the socket |
| | `OwnErrorReported` | the error printed for a failed read is that read's, though the threads may share it |
| | `MainPointersLive` | main uses no freed object and frees none twice |
| | `NothingLeaked` | every retry starts without sessions, connections and sockets, but for those of failed lookups |
| | `WriteSafeWhilePolling` | a write is in danger only from an open or a close |
| | `KeepsGoing` | cycles or retries for ever, unless it died, messages keep the lock, or an exchange after a failed one never returns |
| | `ImplementsLink` | the daemon refines `LinkSupervisor` |
| `QueuePoll` | `ReadFindsRecord` | a queue is asked for a record only when it has one, though the count may be old |
| | `RecordsAccountedFor` | each record handed out is printed once, in order, or was lost with a failed read, if no QUEUE cell is empty |
| | `QueueOneIsDrained` | every record of queue 1 is taken out, when links stop failing and no QUEUE cell is empty |
| `PcccData` | `AddressIsUnderstood` | the PLC finds the element that is meant, exactly for the addresses that are encoded as they are meant, in reads and in the daemon's writes |
| | `EveryFormIsPublished` | all elements and their values, in whatever form they come |
| | `OnlyArraysAreRead` | a read returns something exactly for an accepted array |
| | `BitIsRead` | a masked word gives its bit, unless it is negative |
| | `CountIsRead` | the count of the queue in the cell's name, exact below 2^15 |
| | `RecordIsDelivered` | a record has the configured length, the PLC's bytes, and nothing else in their place; it is skipped exactly when none is asked for |
| | `WriteAnnouncesItsData` | the announced size is right exactly below 256 bytes |
| | `WriteIsReported` | a write fails for the daemon exactly when there was no answer; it sends one element, with the float of the message, or with its integer exactly if that has 16 bits |
| | `PathNamesElement` | the controller reads the tag out of a request exactly when its names, its indices and its path fit into their fields |
| | `WriteCarriesItsData` | behind a path of less than 512 bytes come the type, number and values of the caller |
| | `ElementsAreRead` | all elements of a simple type, exact up to 2^24 |
| | `ConfirmedIsWritten` | a write is confirmed by its own reply exactly if it was carried out, and then what the caller gave is in the element he named, exactly if the tag fits into the request |
| `Recorder` | `OpenedIsConnected` | an open wrapper reaches the file it asked for, if it does not share its name |
| | `ClaimedIsStored` | what `query` reports as done is in that file |
| | `RecordedOnce` | the debug tool's record is stored once, each field in its column |
| | `InsertsIntoOpenDatabase` | its loop is never entered without a database |
| | `LoopEnds` | and ends once the database goes on accepting writes |

`ReadFindsRecord` depends on the order of things: the status of a queue is read
before the queue in every cycle, each new link starts at the first cell, and the
PLC serves in order.  A namelist with a QUEUE cell before its DLS cell could ask
for a record that is gone on every new link, and a refusal closes the link.
`StatusFirst` says which namelists are in order; `MCQueuePoll` assumes it of its
own, and the theorem has it as a hypothesis.

The codec properties that say "exactly" give the border of what works, so that
the cases beyond it are in the runs too: an address with `LEN`, which is read as
having an `EN` in it; a bit above 31, of which another is read; an index of a tag that is negative or above 65535, of which 8 or
16 bits are sent; a name of 256 letters, which is sent as having none; a
write the PLC refused, which returns its STS and passes for success.

`ConfirmedIsWritten` is about a write that its own reply answers.  Without that
condition (`~item.late`) TLC finds it violated: the late reply of a read confirms
a write that was refused, since the library looks at the service of a reply only
to know it for one of three (`LGX.c:142-176`).  When that may happen is what
`OwnReply` says.

`RecordsAccountedFor` and `QueueOneIsDrained` have `Sized` as a condition, and are
violated without it: the list `Unsized` of `MCQueuePoll` has a QUEUE cell of no
bytes, for which the record before is printed again.

The two exceptions in `OwnReply` are necessary: without either of them TLC
finds a counterexample in these runs.  They are the precise content of the
test at `Ethernet_IP.c:410`.

`Careful` describes the poll loop, which closes after the first failed read.
The mailbox thread is not careful, since a failed write is only counted; with
`Careful = FALSE` the other Exchange runs cover it.

Five runs show a disagreement between the code and what its comments or its
documentation say:

- `Daemon_crash` (`RunsForever`): the mailbox thread is started at
  `client:629`, before the first session exists, and writes whatever
  `session` is at the time.
- `Daemon_fds` (`RetryCanConnect`): `SendData.c:92` returns without closing
  the socket.
- `Exchange_callends` (`CallEnds`): the body is received without a time-out.
- `QueuePoll_print` (`PrintsItsRecord`): the record is printed from freed memory
  that the mailbox thread may have been given.
- `QueuePoll_numbers` (`NumbersNameQueues`): the queue table is filled by position
  and used by number.

More was seen that has no run of its own:

- A `send` on a connection that the PLC has closed raises SIGPIPE
  (`SendData.c:151`), which nothing in `src/` ignores: the daemon may end where it
  should retry.  `RunsForever` is about bad pointers only, so that its
  counterexample is not this.
- A write to an address with a bit writes the whole word: the mask is built and
  not used (`PLC.c:629-631`).
- A refused registration and a refused write return the positive status of the
  reply (`Ethernet_IP.c:168`, `PLC.c:641`), which the daemon takes for success.
- Of all queues the daemon reads queue 1 only (`client:673`), so
  `QueueOneIsDrained` has no counterpart for the others.
- `src/README.md` promises "Write data queue to SQLite database"; the daemon
  opens the database (`client:631`), ends if it cannot, and never writes to it:
  the query at `client:702-712` is commented out, and a record is only printed.
- `tux_sqlite.cpp:101` returns the address of bytes that are freed on return;
  `LGX.c:80` does not free the reply of an unknown service; `PLC.c:613` puts the
  STS over the error that was set before it.  Nothing else depends on them.

### Bounds

- Replies have one to three cells: a header alone, and a body that a drain can
  cut.  `DrainMax` is one or two cells, so that a drain takes less than, exactly,
  or more than a reply.
- `PacketMod` is 2 or 3 in place of 2^16: the counter wraps within the calls of
  a run.  The proof covers every modulus.
- `MaxCalls` is 5 for `Exchange_connected`: open a connection and three sends,
  the third of which has the packet number of the first modulo 2, or open, send,
  close, open, send.  It is 4 for `Exchange_careful`.  In `Exchange_allcalls` two
  calls suffice: one that leaves something behind, and the one that meets it.
- `MaxGarbage` is 1: a body that was never sent, or one that takes one cell of
  the next reply.
- The daemon has two cells, one of them a QUEUE, three addresses for two
  objects (so that an address can be, and need not be, used again), and two or
  three descriptors.
- `QueuePoll` has namelists of up to five cells with two queues, `MaxRecords` of
  three (two in the queue while one is read) and `MaxLinks` of three: a record
  lost on the first link, a request of it served late, and a link to recover on.
- `PcccData` reads one or two elements, with words at both edges of the sign and
  of a byte; addresses have numbers on both sides of 255 and of 2^16, every
  mnemonic, and bits on both sides of 15, of 31 and of 2^16; records are shorter and longer than what
  is asked for, on both sides of 109; writes have the counts on both sides of the
  limit for each size of element.  Tags have up to two members and two indices,
  negative and on both sides of each width, a name of 256 letters, or names enough for
  a path on either side of 512 bytes; integers are at the edges of each type and of what
  a float holds.
- `Recorder` has two wrappers, two names and two files, so that a name or a file
  can be shared or not, and two rows per file: enough for a row stored twice.
- `CHECK_DEADLOCK FALSE`: `PcccData` makes one request; a run of `Exchange` stops
  when the calls are used up, or in the `recv` without a time-out; the daemon,
  also in `QueuePoll`, stops when it has crashed; the debug tool ends.

### Fairness

`Exchange!FairSpec` has weak fairness of the steps of the call in progress,
because the thread is scheduled and the time-out of `select` expires, and of
`Arrive`, because TCP delivers what was sent.  Nothing makes the target answer
or close.  `Exchange_callends` shows that this does not make every call return.

`Daemon!FairSpec` is weak fairness of `MainProceeds` and `WriteProceeds`: each
thread's own steps, but the end of an exchange only while the session is not
`torn`.  That much two properties of `Exchange` justify: until a call on a
session has failed every read starts on a boundary (`QuietUntilFailure`), and a
read that starts on one ends (`BoundaryReadEnds`; both for a build in which `recv`
waits for all, so these are claims about such a build).  After a failure a read may
find a header in the middle of a late reply, and wait for a body that was never
sent (`CallEnds`, `SendData.c:209`).  So nothing makes the `Forward_Close` that
follows a failed read return, nor a read that follows a failed write, and
`KeepsGoing` names these as exceptions.  It names two more: a death, by a bad pointer
or by SIGPIPE, and that the lock promises nothing to a thread that waits for it, so
that no fairness is assumed of a thread getting it while the other keeps taking it.

`LinkSupervisor` has fairness only of what no answer of the target is needed for: an
attempt to open ends with a session or without, and once the connection was given
back the session follows and the link is tried again.  That a connection is made, or
given back, it does not promise.

`QueuePoll!FairSpec` has weak fairness of main, with its reads and closes, and of
the PLC serving what it received; links fail at most `MaxLinks` - 1 times.  That the
reads and closes of main return is an assumption here, which `QueueOneIsDrained` is
to be read with: it says that records are not left behind by the order of the
exchanges, when these come to an end.

`Recorder!FairSpec` has weak fairness of the debug tool, a loop without a wait;
nothing makes the database accept anything, and `LoopEnds` is about runs in
which it does from some time on.

## 4. What is proved

`ExchangeProofs`:

- `TypeCorrect`: `Spec => []TypeOK`.
- `OwnReplyAlways`: `Spec => []OwnReply`, for every drain size, modulus, set of
  reply sizes and statuses, with and without `MSG_WAITALL`, and any number of
  calls, connections and outstanding requests.

`OwnReply` speaks of the last result and is not inductive.  `PacketInv` adds
that no request anywhere, in the target, on the wire, in the buffer or in hand,
is newer than the counters (`AllIssued`: it belongs to a connection made so
far, and on the newest one its number has been handed out), and that the
connected request in progress is the newest of all (`RequestIsNewest`).  The
core is `AcceptedIsOwn`: an accepted reply has the packet number of the request
modulo `PacketMod` and, on the same connection, is not newer; by
`SameRemainder` it is the reply, or a multiple of `PacketMod` late.

`StreamProofs`, with the same generality:

- `InSyncAfterReplyAlways`: `Spec => []InSyncAfterReply`.
- `QuietUntilFailureAlways`: `Spec => []QuietUntilFailure`, where `recv` waits for
  all it was asked for (`WaitAll`), the safety half of what the fairness of `Daemon`
  rests on.
- `CarefulOwnReplyAlways`: `Spec => []CarefulOwnReply`, which speaks of such a
  system, too.

For the first, `Bounded` says of the wire, the buffer and the two together that
behind the last cell of a reply, wherever the client is in it, comes the first
cell of another; it survives drains that cut replies anywhere.  `Whole` adds that
the whole of a reply is there of which a cell is, until the target closes.
`RestInv` finds the boundary behind the body that is being read.  For the second, `Alone` says that for a
careful caller nothing else is under way: no reply but that to the request in
progress exists anywhere, so that the one which is read is the right one.

`DaemonProofs`, for any addresses, namelist and number of descriptors, with the
PLC given by name or by address:

- `DaemonTypeCorrect`: `Spec => []TypeOK`.
- `ExchangesExcludeAlways`, `MainPointersLiveAlways`, `NothingLeakedAlways`,
  `WriteSafeWhilePollingAlways`: `Spec => []P` for the property each is named
  after.
- `OwnErrorReportedAlways`: `Spec => []OwnErrorReported`.
- `ImplementsLinkSafely`: the initial states and steps of the daemon are initial
  states and steps, or stutters, of `LinkSupervisor` (its fairness is left to TLC).

They follow from one inductive invariant, `Inv` (`DaemonInv`).  `LockInv` ties
the holder of the lock to where the threads are.  `SessionInv` and `ConnInv` say
that each global owns the one object of its kind, or is null and there is none
(`Owns`), except between the `free` and the assignment of NULL, when the object
is gone and the pointer is not.  None of the properties says this of every step
(`MainPointersLive` does not say that a retry starts with nothing, nor
`NothingLeaked` that the pointers are live), and each needs it of the steps
before.  `FdInv` counts the descriptors, exactly so unless a lookup can leak
one: without it `CloseSession` might give back one too many.  `WriteInv` says
that a write main has not overtaken still has main's pointers.

`ErrInv` holds because the lock does: no write ends between a failed read and
its report.

`QueuePollProofs`, for any namelists, queues, records and links:

- `QueuePollTypeCorrect`: `Spec => []TypeOK`.
- `ReadFindsRecordAlways`: `Spec => []ReadFindsRecord`, for namelists that are
  `StatusFirst`.
- `RecordsAccountedForAlways`: `Spec => []RecordsAccountedFor`, for namelists whose
  QUEUE cells have bytes (`Sized`, in the property itself).

`FlowInv` is the order of the exchanges: while main waits, its request is the
last one the PLC has and all before it are of earlier links; once it is answered
there is none.  So the takers left over from a link that failed are served before
the status is counted, and `CountInv` can say that from the status of queue 1 to
its next record main's count is at most what the queue holds.  That is what makes
a count that is never counted down safe to go by.  `OutInv` and `QueueInv` order
the records: all that are out are below the one in hand, which is below all that
are left in queue 1.

`RecorderProofs`, for any number of wrappers, connection names and files, and any
record of the right shape:

- `OpenedIsConnectedAlways`, `ClaimedIsStoredAlways`: `Spec => []P` for the wrapper,
  whatever program uses it.
- `RecordedOnceAlways`, `InsertsIntoOpenDatabaseAlways`: the same for the debug tool.

What a wrapper finds behind its name depends on who opened it before.
`TableIsHistory` says that Qt's table has, for each name that was ever asked for,
one of the files it was asked for, and `HandlesAreHistory` that a handle was given
by an open; together they find the one file of a name that was opened for one file
only.  `ToolInv` says that the tool has its connection, open and to its file, in
every step in which it has a handle, and that a loop is entered with one.

`BytesProofs` has what both families of codecs rest on.  `FieldReadsBack` and
`WordReadsBack`: an integer comes back from its bytes, as far as they hold it.
`PartOf`, `RestOf` and `ThreeParts`: a message taken apart where it was put
together.  `PackedBytes` and `ElementPosition`: values one behind the other, each at
its index times its size.  `FlattenedOfEvery` gives the recursion of `FlattenSeq` a value
for sequences of any length.

`PcccProofs`, for any words, numbers of elements, sizes of records, queues, integers
and addresses:

- `EveryFormIsPublishedAlways`, `OnlyArraysAreReadAlways`, `BitIsReadAlways`,
  `CountIsReadAlways`, `RecordIsDeliveredAlways`, `WriteAnnouncesItsDataAlways`,
  `WriteIsReportedAlways`: `Spec => []P` for the property each is named after.
- `AddressIsUnderstoodAlways`: `Spec => []AddressIsUnderstood`, for addresses of the
  form file, element, and then, if at all, a sub-element, a bit or both
  (`IsDataAddress`), with numbers of any size.

The invariant follows the message.  At each `pc` it says what the bytes in hand are
(`Asked`, `Answered`, `Decoded`, `Written`, `DaemonWritten`): not that they are well
formed, but which item, in which form, they were made of, since a property speaks of
the item and the code sees the bytes only.  `DescriptorReads` is the core: whichever
of its sixteen forms a descriptor has, the decoder finds in it the type and the size, and
goes on behind it.  `DataIsRead` applies it twice, to the array and to its element.
`BitIsReadAlways` needs `MaskOfAddress`: the mask of any address, of whatever number
of parts, is none or one of 32 bits.  That is an induction over the parts, done
without the induction theorems of the library (`InductionOnSet`, from the least
element of the set of exceptions), and it first needs that the recursive function of
the model exists, for each length from the one before (`AfterEveryPart`).

`AddressIsUnderstood` is about three recursions, one that writes an address, one that
reads it and one that says what it means.  `Coded` is what they have in common: some
bytes are some levels, one behind the other, each in one byte or in three.  The code
keeps it part by part (`Kept`; `WordKept`, `NumberKept`, `PartKept`, `BitKept`), so that
at the end the bytes are the levels of all parts (`AddressKept`), and a reader that
goes by the sizes finds these levels (`CodedIsRead`), after it has counted them in the
first byte (`LevelBits`).  What is read is then compared with what is meant, part by
part (`SameParts`, `LevelsAsMeant`, `BitsMeant`).  The "only if" needs that a level
missing in one part is not made up for by another part: only an input, output or status
file without a number lacks a level, and only `CTL` with a number, in a `PD` file, has
one too many.  `IsDataAddress` is a hypothesis of the theorem and an `ASSUME` of
`MCData`, which holds its addresses against it; the model itself takes any sequence
of parts.

`LgxProofs`, for any tags, values of 32 bits and statuses:

- `PathNamesElementAlways`, `WriteCarriesItsDataAlways`, `ElementsAreReadAlways`,
  `ConfirmedIsWrittenAlways`: `LgxSpec => []P` for the property each is named after.

The first says that what writes a path and what reads it are inverse, as far as they
are, and no farther.  `Name` says it of some bytes and some items, wherever the bytes
lie in a path: the reader finds the items and goes on behind the bytes, if the path has
room for them and the items fit, and otherwise finds something else, whatever comes
behind.  It holds of the bytes of a name (`NameIsNamed`) and of an index
(`IndexIsNamed`), and of two that lie one behind the other if it holds of each
(`BothAreNamed`); so it holds of a whole tag (`PathIsNamed`, with `FlattenPairs`, an
induction over the members).  The second half of `Name`, without which there is no "only
if", is there because a reader that has lost its place might still come upon
what was meant.  `ReadingFromEvery` is that the reader's recursion has a value at all.

`PathIsEven` is why the data of a write is found: every part of a path has an even
number of bytes, so that its length in words, and with it where the path ends, is
exact.  The length is sent in one byte, so that a longer path than 510 bytes ends
elsewhere; the property has that as its condition.  `RoundedIsNear` bounds what a float
makes of an integer, binade by binade.  `ConfirmedIsWritten` puts the two halves
together: `WriteIsOrder` says that a controller which reads the request finds the
order the caller gave, exactly if the tag is `Reachable`, and `Answered` in the
invariant ties what has become of a write to the reply that is in hand.

The only assumptions are the types of the constants (`ExchangeAssumption`,
`DaemonAssumption`, `QueueAssumption`, `SqliteAssumption`, `RecorderAssumption`,
`PcccAssumption`, `LgxAssumption`), that a record has seven fields, the first of them
a date of three, and its row is not the null pointer (`RecordAssumption`), and
`StatusFirst` and `IsDataAddress` where it is said.

Only model-checked, because it is out of the prover's reach, is liveness with the
fairness it needs: `BoundaryReadEnds`, `KeepsGoing`, `QueueOneIsDrained`, `LoopEnds`, and
that `LinkSupervisor`'s own fairness is implemented (`ImplementsLink`).  Every invariant of
the passing runs is stated by a theorem.

## 5. Not modelled

- Message tables and wording (`ErrCodes.c`), debug dumps, and `malloc` failing.
- The routes of `AB.c`, bytes that are built once per connection from the
  configuration and interpreted by the target only.
- `_SendData` and `_BuildThreeAddressField`, which nothing calls; replies of a
  multiple service (`LGX.c:163`), since nothing builds such a request; the DHP
  variants of a request, which no caller here uses.
- `nextRecord` and `recordFieldValue` of the wrapper, which nothing calls.
- The rest of the ini file and the ARP search of `init` (input handling); shared
  memory and mailbox of pvbrowser (external).
- The public API: macros that rename functions and types.
- Two threads on one byte stream.  The lock keeps exchanges apart
  (`ExchangesExclude`), so that to `Exchange` the two threads are one caller that
  is not careful, which is what `Careful = FALSE` is; and a close or an open that
  crosses a write is a crash (`Daemon_crash`) before it is a question of bytes.
