------------------------------- MODULE Daemon -------------------------------
(***************************************************************************)
(* The two threads of the acquisition daemon, ethernetip_client.cpp.       *)
(*                                                                         *)
(* The main thread opens a session and a connection to the PLC, polls the  *)
(* configured cycles, and on the first failed read closes both and tries   *)
(* again five seconds later.  The mailbox thread turns messages into       *)
(* writes.  They share the globals session and connection.  The lock of    *)
(* rlThread is held around each read and each write, and only there: the   *)
(* main thread opens and closes without it.                                *)
(*                                                                         *)
(* What an exchange on the socket returns is any of its outcomes here; the *)
(* exchange itself is module Exchange, which also says when it is sure to  *)
(* return: on a session where none has failed (variable torn).             *)
(***************************************************************************)
EXTENDS Integers, FiniteSets

CONSTANTS
  Addr,      \* addresses malloc may return; a freed one may be used again
  Null,      \* the null pointer
  NumCells,  \* cells (cycles) of the configured namelist
  QueueCells,\* those that name a QUEUE
  MaxFds,    \* bound: file descriptors the process may have open
  ByName     \* the PLC is configured by name, to be looked up by DNS

ASSUME DaemonAssumption ==
  /\ Null \notin Addr
  /\ NumCells \in Nat \ {0}
  /\ QueueCells \subseteq 1 .. NumCells
  /\ MaxFds \in Nat \ {0}
  /\ ByName \in BOOLEAN

VARIABLES
  mpc,         \* where the main thread is
  cell,        \* its index in the namelist
  wpc,         \* where the mailbox thread is
  lock,        \* the holder of thread->lock(): "none", "main" or "mailbox"
  session,     \* the global Eip_Session pointer
  connection,  \* the global Eip_Connection pointer
  sessions,    \* addresses of the Eip_Session objects that are allocated
  conns,       \* addresses of the Eip_Connection objects that are allocated
  fds,         \* sockets open
  wsession,    \* the arguments WritePLCData was called with
  wconn,
  steady,      \* main has been in its poll loop since they were read
  torn,        \* history: an exchange on the session has failed, or two have
               \* overlapped: a read may start in the middle of a reply
  death,       \* "none", "pointer" or "signal": what the process has died of
  err,         \* whose poll or write has set the last-error variables
  leaked       \* history: sockets of failed lookups

objects == <<sessions, conns, fds, leaked>>
globals == <<session, connection>>
writer == <<wpc, wsession, wconn>>
vars == <<mpc, cell, lock, globals, objects, writer, steady, torn, death, err>>

Polling == {"poll", "read", "report", "sleep"}
Writing == {"send", "reply"}

\* main waits for the target's answer to a request.
InExchange ==
  \/ mpc \in {"register", "connect", "read"}
  \/ mpc = "closeConn" /\ connection # Null

-----------------------------------------------------------------------------
\* The main thread: openTuxEip.

\* A new session has a new socket, but a write may still be about with the
\* number of the old one; every way to closeTuxEip is a failure.
MainGoes(to) ==
  /\ mpc' = to /\ steady' = (steady /\ to \in Polling)
  /\ torn' = CASE to = "register" -> wpc \in Writing
               [] to = "closeConn" -> TRUE
               [] OTHER -> torn

OpenSession(s) ==
  /\ mpc = "open" /\ fds < MaxFds /\ s \notin sessions \cup conns
  /\ session' = s /\ sessions' = sessions \cup {s} /\ fds' = fds + 1
  /\ MainGoes("register")
  /\ UNCHANGED <<cell, lock, connection, conns, leaked, writer, death, err>>

\* The target does not accept, and the socket is closed again.
OpenSessionRefused ==
  /\ mpc = "open" /\ fds < MaxFds
  /\ session' = Null
  /\ MainGoes("closeConn")
  /\ UNCHANGED <<cell, lock, connection, objects, writer, death, err>>

\* socket() fails: the process has no descriptor left.
NoDescriptor ==
  /\ mpc = "open" /\ fds = MaxFds
  /\ session' = Null
  /\ MainGoes("closeConn")
  /\ UNCHANGED <<cell, lock, connection, objects, writer, death, err>>

\* gethostbyname fails after the socket was made, and the socket stays open.
LookupFails ==
  /\ mpc = "open" /\ ByName /\ fds < MaxFds
  /\ session' = Null /\ fds' = fds + 1 /\ leaked' = leaked + 1
  /\ MainGoes("closeConn")
  /\ UNCHANGED <<cell, lock, connection, sessions, conns, writer, death, err>>

\* Mutant of RegisterSession: a failure skips closeTuxEip.
RegisterSessionNoClose ==
  /\ mpc = "register"
  /\ \E to \in {"connect", "retry"} : MainGoes(to)
  /\ UNCHANGED <<cell, lock, globals, objects, writer, death, err>>

\* Any answer but a timeout, a failed send or another command will do.
RegisterSession ==
  /\ mpc = "register"
  /\ \E to \in {"connect", "closeConn"} : MainGoes(to)
  /\ UNCHANGED <<cell, lock, globals, objects, writer, death, err>>

ConnectPLC(c) ==
  /\ mpc = "connect" /\ c \notin sessions \cup conns
  /\ connection' = c /\ conns' = conns \cup {c}
  /\ cell' = 1
  /\ MainGoes("poll")
  /\ UNCHANGED <<lock, session, sessions, fds, leaked, writer, death, err>>

ConnectPLCFails ==
  /\ mpc = "connect"
  /\ connection' = Null
  /\ MainGoes("closeConn")
  /\ UNCHANGED <<cell, lock, session, objects, writer, death, err>>

-----------------------------------------------------------------------------
\* The main thread: the poll loop.

\* Mutant of NextCell: the loop index is not reset.
NextCellForever == /\ cell' = cell + 1
                   /\ MainGoes(IF cell = NumCells THEN "sleep" ELSE "poll")

NextCell == /\ cell' = (cell % NumCells) + 1
            /\ MainGoes(IF cell = NumCells THEN "sleep" ELSE "poll")

\* A QUEUE cell with nothing to read is passed over without the lock.
SkipCell ==
  /\ mpc = "poll" /\ cell \in QueueCells
  /\ NextCell
  /\ UNCHANGED <<lock, globals, objects, writer, death, err>>

\* Mutant of LockForRead: the read is made without the lock.
ReadUnlocked ==
  /\ mpc = "poll"
  /\ MainGoes("read")
  /\ UNCHANGED <<cell, lock, globals, objects, writer, death, err>>

LockForRead ==
  /\ mpc = "poll" /\ lock = "none"
  /\ lock' = "main"
  /\ MainGoes("read")
  /\ UNCHANGED <<cell, globals, objects, writer, death, err>>

\* Mutant of ReadDone: an error frees the connection and polls on.
ReadDoneDropsConn ==
  /\ mpc = "read"
  /\ lock' = "none" /\ err' = "main"
  /\ NextCell
  /\ conns' \in {conns, conns \ {connection}}
  /\ UNCHANGED <<globals, sessions, fds, leaked, writer, death>>

\* readTuxEip returns, and the lock is released.
ReadDone ==
  /\ mpc = "read"
  /\ lock' = "none" /\ err' = "main"
  /\ NextCell
  /\ UNCHANGED <<globals, objects, writer, death>>

\* Mutant of ReadFails: the lock is released before the error is printed.
ReadFailsUnlocked ==
  /\ mpc = "read"
  /\ lock' = "none" /\ err' = "main"
  /\ MainGoes("report")
  /\ UNCHANGED <<cell, globals, objects, writer, death>>

\* The read has set the error.  The Linux build gives each thread its own set
\* of variables; a Windows build has one set for both threads.  Opening and
\* closing set them too, which no later report of a read shows.
ReadFails ==
  /\ mpc = "read"
  /\ err' = "main"
  /\ MainGoes("report")
  /\ UNCHANGED <<cell, lock, globals, objects, writer, death>>

\* readTuxEip prints it and returns, the lock is released, and the loop ends.
ReportRead ==
  /\ mpc = "report"
  /\ lock' = "none"
  /\ MainGoes("closeConn")
  /\ UNCHANGED <<cell, globals, objects, writer, death, err>>

\* The life counter is published and the cycle time slept.
CycleSleep ==
  /\ mpc = "sleep"
  /\ MainGoes("poll")
  /\ UNCHANGED <<cell, lock, globals, objects, writer, death, err>>

-----------------------------------------------------------------------------
\* The main thread: closeTuxEip and the pause before the next attempt.

\* Forward_Close frees the connection whatever the target answers.
ForwardClose ==
  /\ mpc = "closeConn"
  /\ IF connection # Null
     THEN conns' = conns \ {connection} /\ MainGoes("nullConn")
     ELSE UNCHANGED conns /\ MainGoes("closeSession")
  /\ UNCHANGED <<cell, lock, globals, sessions, fds, leaked, writer, death, err>>

\* Mutant of ForgetConn: the freed pointer is kept.
KeepConn ==
  /\ mpc = "nullConn"
  /\ MainGoes("closeSession")
  /\ UNCHANGED <<cell, lock, globals, objects, writer, death, err>>

ForgetConn ==
  /\ mpc = "nullConn"
  /\ connection' = Null
  /\ MainGoes("closeSession")
  /\ UNCHANGED <<cell, lock, session, objects, writer, death, err>>

\* Mutant of CloseSession: nothing is closed, as if the session were Null.
CloseNothing ==
  /\ mpc = "closeSession"
  /\ MainGoes("retry")
  /\ UNCHANGED <<cell, lock, globals, objects, writer, death, err>>

\* UnRegisterSession, then close and free.
CloseSession ==
  /\ mpc = "closeSession"
  /\ IF session # Null
     THEN /\ sessions' = sessions \ {session} /\ fds' = fds - 1
          /\ MainGoes("nullSession")
     ELSE UNCHANGED <<sessions, fds>> /\ MainGoes("retry")
  /\ UNCHANGED <<cell, lock, globals, conns, leaked, writer, death, err>>

ForgetSession ==
  /\ mpc = "nullSession"
  /\ session' = Null
  /\ MainGoes("retry")
  /\ UNCHANGED <<cell, lock, connection, objects, writer, death, err>>

RetrySleep ==
  /\ mpc = "retry"
  /\ MainGoes("open")
  /\ UNCHANGED <<cell, lock, globals, objects, writer, death, err>>

-----------------------------------------------------------------------------
\* The mailbox thread.

\* A message arrives, or the mailbox is lost and the thread ends.
ReadMailbox ==
  /\ wpc = "mailbox"
  /\ wpc' \in {"lock", "ended"}
  /\ UNCHANGED <<mpc, cell, lock, globals, objects, wsession, wconn, steady, torn, death, err>>

\* thread->lock(), and the globals become the arguments of WritePLCData.  The
\* lock does not keep the write apart from an open or a close.
LockForWrite ==
  /\ wpc = "lock" /\ lock = "none"
  /\ lock' = "mailbox"
  /\ wsession' = session /\ wconn' = connection
  /\ steady' = (mpc \in Polling)
  /\ torn' = (torn \/ mpc \notin Polling)
  /\ wpc' = "send"
  /\ UNCHANGED <<mpc, cell, globals, objects, death, err>>

\* A pointer to a freed object may still work; the null pointer never does.
\* A connected write increments connection->packet; every request carries
\* session->Session_Handle and goes to session->sock.
WriteSend ==
  /\ wpc = "send" /\ wsession # Null
  /\ wpc' = "reply" /\ err' = "mailbox"
  /\ UNCHANGED <<mpc, cell, lock, globals, objects, wsession, wconn, steady, torn, death>>

WriteSendCrashes ==
  /\ wpc = "send"
  /\ wsession \notin sessions \/ wconn \notin conns \cup {Null}
  /\ death' = "pointer"
  /\ UNCHANGED <<mpc, cell, lock, globals, objects, writer, steady, torn, err>>

\* Mutant of WriteDone: the lock is not released.
WriteDoneKeepsLock ==
  /\ wpc = "reply"
  /\ wpc' = "mailbox" /\ wsession' = Null /\ wconn' = Null /\ steady' = FALSE
  /\ torn' \in {torn, TRUE}
  /\ UNCHANGED <<mpc, cell, lock, globals, objects, death, err>>

\* The write returns, with or without a reply.
WriteDone ==
  /\ wpc = "reply"
  /\ lock' = "none" /\ err' = "mailbox"
  /\ wpc' = "mailbox" /\ wsession' = Null /\ wconn' = Null /\ steady' = FALSE
  /\ torn' \in {torn, TRUE}
  /\ UNCHANGED <<mpc, cell, globals, objects, death>>

\* A connected write compares its reply with connection->packet.
WriteReplyCrashes ==
  /\ wpc = "reply" /\ wconn \notin conns \cup {Null}
  /\ death' = "pointer"
  /\ UNCHANGED <<mpc, cell, lock, globals, objects, writer, steady, torn, err>>

\* A send on a connection that is gone raises SIGPIPE, which nothing in the
\* program ignores, in either thread.
SendKills ==
  /\ \/ InExchange
     \/ mpc = "closeSession" /\ session # Null
     \/ wpc = "send" /\ wsession # Null
  /\ death' = "signal"
  /\ UNCHANGED <<mpc, cell, lock, globals, objects, writer, steady, torn, err>>

-----------------------------------------------------------------------------
Init ==
  /\ mpc = "open" /\ cell = 1 /\ wpc = "mailbox" /\ lock = "none"
  /\ session = Null /\ connection = Null
  /\ sessions = {} /\ conns = {} /\ fds = 0
  /\ wsession = Null /\ wconn = Null /\ steady = FALSE
  /\ torn = FALSE /\ death = "none" /\ err = "none" /\ leaked = 0

Alive == death = "none"

Main ==
  /\ Alive
  /\ \/ \E a \in Addr : OpenSession(a) \/ ConnectPLC(a)
     \/ OpenSessionRefused \/ NoDescriptor \/ LookupFails
     \/ RegisterSession \/ ConnectPLCFails
     \/ SkipCell \/ LockForRead \/ ReadDone \/ ReadFails \/ ReportRead \/ CycleSleep
     \/ ForwardClose \/ ForgetConn \/ CloseSession \/ ForgetSession
     \/ RetrySleep

\* The mailbox thread once it has the lock.
Write ==
  /\ Alive
  /\ WriteSend \/ WriteSendCrashes \/ WriteDone \/ WriteReplyCrashes

TakeMessage == Alive /\ ReadMailbox
LockMailbox == Alive /\ LockForWrite

Die == Alive /\ SendKills

Next == Main \/ TakeMessage \/ LockMailbox \/ Write \/ Die

Spec == Init /\ [][Next]_vars

\* Both threads are scheduled and sleeps end.  An exchange returns on a
\* session where none has failed (Exchange!QuietUntilFailure and
\* BoundaryReadEnds); after that its reply may be waited for without end.  A
\* mutex promises nothing to a thread that waits for it while others keep
\* taking it.
MainProceeds == Main /\ (InExchange => ~torn)
WriteProceeds == Write /\ (wpc = "reply" => ~torn)

FairSpec == Spec /\ WF_vars(MainProceeds) /\ WF_vars(WriteProceeds)

-----------------------------------------------------------------------------
\* Properties.

TypeOK ==
  /\ mpc \in {"open", "register", "connect", "poll", "read", "report",
              "sleep", "closeConn", "nullConn", "closeSession", "nullSession", "retry"}
  /\ cell \in 1 .. NumCells
  /\ wpc \in {"mailbox", "lock", "send", "reply", "ended"}
  /\ lock \in {"none", "main", "mailbox"}
  /\ {session, connection, wsession, wconn} \subseteq Addr \cup {Null}
  /\ sessions \subseteq Addr /\ conns \subseteq Addr
  /\ fds \in 0 .. MaxFds /\ leaked \in 0 .. MaxFds
  /\ err \in {"none", "main", "mailbox"}
  /\ steady \in BOOLEAN /\ torn \in BOOLEAN
  /\ death \in {"none", "pointer", "signal"}

\* A poll and a write never use the socket at the same time: their exchanges
\* would drain each other's replies.
ExchangesExclude == ~(mpc = "read" /\ wpc \in Writing)

\* The error main prints for a failed read is that of the read, although the
\* last error may be one for both threads: the lock is held until it is
\* printed.
OwnErrorReported == mpc = "report" => err = "main"

\* Every pointer the main thread is about to use is to an allocated object,
\* through any sequence of failed opens, lost links and partial closes; in
\* particular nothing is freed twice.
MainPointersLive ==
  /\ mpc \in {"register", "connect"} \cup Polling => session \in sessions
  /\ mpc \in Polling => connection \in conns
  /\ mpc = "closeConn" => connection \in conns \cup {Null}
  /\ mpc \in {"closeConn", "nullConn", "closeSession"}
       => session \in sessions \cup {Null}

\* No retry starts with a session, a connection or a socket left over from
\* the attempt before, except for one socket for each lookup that failed.
NothingLeaked ==
  mpc \in {"retry", "open"} => sessions = {} /\ conns = {} /\ fds = leaked

\* A write whose arguments were read while main polled, and that main has not
\* overtaken by closing, uses allocated objects.  A write is only ever in
\* danger from an open or a close, which the lock does not cover.
WriteSafeWhilePolling ==
  wpc \in Writing /\ steady => wsession \in sessions /\ wconn \in conns

\* The daemon goes on completing cycles or retrying, unless it dies, mailbox
\* writes keep taking the lock from the poll loop for ever, or a thread waits
\* without end for the reply of an exchange on a session where an earlier one
\* has failed: in particular in Forward_Close after a failed read.
KeepsGoing ==
  \/ []<>(mpc \in {"sleep", "retry"})
  \/ <>~Alive
  \/ []<><<LockMailbox>>_vars
  \/ <>[](torn /\ (InExchange \/ wpc = "reply"))

\* "forever run the daemon": its own pointers, at least, do not end it.
RunsForever == death # "pointer"

\* "retry connecting every 5 seconds": the process still can.
RetryCanConnect == mpc = "open" => fds < MaxFds

\* The daemon implements the supervisor of a single link.
Link == INSTANCE LinkSupervisor WITH
  link <- IF ~Alive THEN "dead"
          ELSE IF mpc \in {"open", "register", "connect"} THEN "opening"
          ELSE IF mpc \in Polling THEN "up" ELSE "down",
  hasSession <- sessions # {},
  hasConn <- conns # {}

ImplementsLink == Link!Spec
=============================================================================
