---------------------------- MODULE DaemonProofs ----------------------------
(***************************************************************************)
(* The safety of the two threads of the daemon, for any number of          *)
(* addresses, cells and descriptors: exchanges never overlap, main uses    *)
(* live objects only and leaks none, and a write is safe while main polls. *)
(***************************************************************************)
EXTENDS Daemon, TLAPS

\* The pointer p owns the only allocated object, or is null and there is none.
Owns(p, objs) == IF p = Null THEN objs = {} ELSE p \in Addr /\ objs = {p}

\* A thread holds the lock exactly while its exchange is under way.
LockInv ==
  /\ lock = "main" <=> mpc \in {"read", "report"}
  /\ lock = "mailbox" <=> wpc \in Writing

\* Between freeing an object and forgetting its address nothing is allocated;
\* everywhere else the global owns what there is.
SessionInv ==
  /\ mpc \in {"open", "retry"} => session = Null
  /\ mpc \in {"register", "connect"} \cup Polling => session # Null
  /\ IF mpc = "nullSession" THEN sessions = {} ELSE Owns(session, sessions)

ConnInv ==
  /\ mpc \in {"open", "register", "connect", "closeSession", "nullSession",
              "retry"} => connection = Null
  /\ mpc \in Polling => connection # Null
  /\ IF mpc = "nullConn" THEN conns = {} ELSE Owns(connection, conns)

FdInv ==
  /\ sessions # {} => fds > 0
  /\ fds = leaked + (IF sessions = {} THEN 0 ELSE 1)

\* A steady write still has the pointers main polls with.
WriteInv ==
  steady => mpc \in Polling /\ wsession = session /\ wconn = connection

\* Between a failed read and the report of it the error is main's.
ErrInv == mpc = "report" => err = "main"

\* TypeOK in two parts: the history and the fate of the process, and the rest.
Flags ==
  /\ steady \in BOOLEAN /\ torn \in BOOLEAN
  /\ death \in {"none", "pointer", "signal"}

Ranges ==
  /\ mpc \in {"open", "register", "connect", "poll", "read", "report",
              "sleep", "closeConn", "nullConn", "closeSession", "nullSession", "retry"}
  /\ cell \in 1 .. NumCells
  /\ wpc \in {"mailbox", "lock", "send", "reply", "ended"}
  /\ lock \in {"none", "main", "mailbox"}
  /\ {session, connection, wsession, wconn} \subseteq Addr \cup {Null}
  /\ sessions \subseteq Addr /\ conns \subseteq Addr
  /\ fds \in 0 .. MaxFds /\ leaked \in 0 .. MaxFds
  /\ err \in {"none", "main", "mailbox"}

Inv == TypeOK /\ LockInv /\ SessionInv /\ ConnInv /\ FdInv /\ WriteInv /\ ErrInv

-----------------------------------------------------------------------------
\* The loop index, wrapped as NextCell wraps it, stays within the namelist.
LEMMA NextInRange ==
  ASSUME NEW n \in Nat \ {0}, NEW i \in 1 .. n
  PROVE  (i % n) + 1 \in 1 .. n
  BY SMT

\* NextCell goes to a cell of the namelist, and polls on or sleeps.
LEMMA NextCellType ==
  ASSUME TypeOK, NextCell
  PROVE  cell' \in 1 .. NumCells /\ mpc' \in {"sleep", "poll"}
<1>1. cell' \in 1 .. NumCells
  BY NextInRange, DaemonAssumption DEF TypeOK, NextCell
<1> QED BY <1>1 DEF NextCell, MainGoes

\* Where main goes, the histories stay truth values, and steady implies that
\* main polls.
LEMMA MainGoesSteady ==
  ASSUME TypeOK, NEW to, MainGoes(to)
  PROVE  /\ mpc' = to /\ steady' \in BOOLEAN /\ torn' \in BOOLEAN
         /\ steady' => steady /\ to \in Polling
<1>1. (wpc \in Writing) \in BOOLEAN
  OBVIOUS
<1>2. torn' \in {(wpc \in Writing), TRUE, torn}
  BY DEF MainGoes
<1>3. torn' \in BOOLEAN
  BY <1>1, <1>2, Zenon DEF TypeOK
<1> QED BY <1>3, Zenon DEF TypeOK, MainGoes

\* A step of main that the process survives leaves them in their ranges.
LEMMA MainKeepsFlags ==
  ASSUME TypeOK, NEW to, MainGoes(to), death' = death
  PROVE  Flags'
  BY MainGoesSteady, Zenon DEF TypeOK, Flags

\* main starts with nothing open, nothing locked and null globals.
LEMMA InvInit == Init => Inv
<1> SUFFICES ASSUME Init PROVE Inv
  OBVIOUS
<1>1. TypeOK
  <2>1. Flags
    BY DEF Init, Flags
  <2>2. Ranges
    BY DaemonAssumption, SMT DEF Init, Ranges
  <2> QED BY <2>1, <2>2 DEF TypeOK, Flags, Ranges
<1>2. LockInv /\ SessionInv /\ ConnInv /\ FdInv /\ WriteInv /\ ErrInv
  BY DEF Init, LockInv, SessionInv, ConnInv, FdInv, WriteInv, ErrInv, Owns, Writing, Polling
<1> QED BY <1>1, <1>2 DEF Inv

\* Steps of main that touch no object and do not end a read.
LEMMA MainMoves ==
  ASSUME Inv, NEW to, MainGoes(to),
         UNCHANGED <<lock, globals, objects, writer, death, err>>,
         cell' \in 1 .. NumCells,
         mpc \notin {"read", "report"}, to \notin {"read", "report"},
         \/ mpc = "poll" /\ to \in {"poll", "sleep"}
         \/ mpc = "sleep" /\ to = "poll"
         \/ mpc = "register" /\ to \in {"connect", "closeConn"}
         \/ mpc = "retry" /\ to = "open"
  PROVE  Inv'
<1>1. /\ mpc' = to /\ steady' \in BOOLEAN /\ torn' \in BOOLEAN
      /\ steady' => steady /\ to \in Polling
  BY MainGoesSteady DEF Inv
<1>2. TypeOK'
  BY <1>1, Zenon DEF Inv, TypeOK, globals, objects, writer
<1>3. LockInv'
  BY <1>1 DEF Inv, LockInv, writer
<1>4. SessionInv' /\ ConnInv' /\ FdInv'
  BY <1>1 DEF Inv, SessionInv, ConnInv, FdInv, Owns, Polling, globals, objects
<1>5. WriteInv' /\ ErrInv'
  BY <1>1 DEF Inv, WriteInv, ErrInv, globals, writer
<1> QED BY <1>2, <1>3, <1>4, <1>5 DEF Inv

\* Every step of openTuxEip, the poll loop and closeTuxEip preserves Inv.
LEMMA MainNext == Inv /\ Main => Inv'
<1> SUFFICES ASSUME Inv, Main PROVE Inv'
  OBVIOUS
<1> USE DaemonAssumption
<1>0. TypeOK
  BY DEF Inv
<1>1. ASSUME NEW a \in Addr, OpenSession(a) PROVE Inv'
  <2>1. mpc' = "register" /\ ~steady' /\ ~steady
    BY <1>0, <1>1, MainGoesSteady DEF OpenSession, Polling, Inv, WriteInv
  <2>2. TypeOK'
    <3>1. Flags'
      BY <1>0, <1>1, MainKeepsFlags DEF OpenSession
    <3>2. Ranges'
      BY <1>0, <1>1, <2>1, SMT DEF OpenSession, TypeOK, Ranges, writer
    <3> QED BY <3>1, <3>2 DEF TypeOK, Ranges, Flags
  <2>3. SessionInv' /\ ConnInv' /\ FdInv'
    BY <1>0, <1>1, <2>1, SMT
       DEF OpenSession, Inv, SessionInv, ConnInv, FdInv, Owns, Polling, TypeOK
  <2>4. LockInv' /\ WriteInv' /\ ErrInv'
    BY <1>1, <2>1 DEF OpenSession, Inv, LockInv, WriteInv, ErrInv, writer
  <2> QED BY <2>2, <2>3, <2>4 DEF Inv
<1>2. CASE OpenSessionRefused \/ NoDescriptor
  <2>1. mpc' = "closeConn" /\ ~steady' /\ mpc = "open" /\ session' = Null
        /\ UNCHANGED <<cell, lock, connection, objects, writer, death, err>>
    BY <1>0, <1>2, MainGoesSteady DEF OpenSessionRefused, NoDescriptor, Polling
  <2>2. TypeOK'
    <3>1. Flags'
      BY <1>0, <1>2, MainKeepsFlags DEF OpenSessionRefused, NoDescriptor
    <3>2. Ranges'
      BY <1>0, <2>1, SMT DEF TypeOK, Ranges, writer, objects
    <3> QED BY <3>1, <3>2 DEF TypeOK, Ranges, Flags
  <2>3. SessionInv' /\ ConnInv' /\ FdInv'
    BY <2>1, SMT DEF Inv, SessionInv, ConnInv, FdInv, Owns, Polling, objects
  <2>4. LockInv' /\ WriteInv' /\ ErrInv'
    BY <2>1 DEF Inv, LockInv, WriteInv, ErrInv, writer
  <2> QED BY <2>2, <2>3, <2>4 DEF Inv
<1>3. CASE LookupFails
  <2>1. mpc' = "closeConn" /\ ~steady' /\ mpc = "open" /\ session' = Null
    BY <1>0, <1>3, MainGoesSteady DEF LookupFails, Polling
  <2>2. TypeOK'
    <3>1. Flags'
      BY <1>0, <1>3, MainKeepsFlags DEF LookupFails
    <3>2. leaked <= fds
      BY <1>0, SMT DEF Inv, FdInv, TypeOK
    <3>3. Ranges'
      BY <1>0, <1>3, <2>1, <3>2, SMT DEF LookupFails, TypeOK, Ranges, writer
    <3> QED BY <3>1, <3>3 DEF TypeOK, Ranges, Flags
  <2>3. SessionInv' /\ ConnInv' /\ FdInv'
    BY <1>0, <1>3, <2>1, SMT
       DEF LookupFails, Inv, SessionInv, ConnInv, FdInv, Owns, Polling, TypeOK
  <2>4. LockInv' /\ WriteInv' /\ ErrInv'
    BY <1>3, <2>1 DEF LookupFails, Inv, LockInv, WriteInv, ErrInv, writer
  <2> QED BY <2>2, <2>3, <2>4 DEF Inv
<1>4. CASE RegisterSession
  BY <1>0, <1>4, MainMoves DEF RegisterSession, TypeOK
<1>5. ASSUME NEW a \in Addr, ConnectPLC(a) PROVE Inv'
  <2>1. mpc' = "poll" /\ ~steady'
    BY <1>0, <1>5, MainGoesSteady DEF ConnectPLC, Polling, Inv, WriteInv
  <2>2. TypeOK'
    <3>1. Flags'
      BY <1>0, <1>5, MainKeepsFlags DEF ConnectPLC
    <3>2. Ranges'
      BY <1>0, <1>5, <2>1, SMT DEF ConnectPLC, TypeOK, Ranges, writer
    <3> QED BY <3>1, <3>2 DEF TypeOK, Ranges, Flags
  <2>3. SessionInv' /\ ConnInv' /\ FdInv'
    BY <1>0, <1>5, <2>1, SMT
       DEF ConnectPLC, Inv, SessionInv, ConnInv, FdInv, Owns, Polling, TypeOK
  <2>4. LockInv' /\ WriteInv' /\ ErrInv'
    BY <1>5, <2>1 DEF ConnectPLC, Inv, LockInv, WriteInv, ErrInv, writer
  <2> QED BY <2>2, <2>3, <2>4 DEF Inv
<1>6. CASE ConnectPLCFails
  <2>1. mpc' = "closeConn" /\ ~steady' /\ mpc = "connect"
    BY <1>0, <1>6, MainGoesSteady DEF ConnectPLCFails, Polling
  <2>2. TypeOK'
    <3>1. Flags'
      BY <1>0, <1>6, MainKeepsFlags DEF ConnectPLCFails
    <3>2. Ranges'
      BY <1>0, <1>6, <2>1, SMT DEF ConnectPLCFails, TypeOK, Ranges, writer, objects
    <3> QED BY <3>1, <3>2 DEF TypeOK, Ranges, Flags
  <2>3. SessionInv' /\ ConnInv' /\ FdInv'
    BY <1>6, <2>1, SMT
       DEF ConnectPLCFails, Inv, SessionInv, ConnInv, FdInv, Owns, Polling, objects
  <2>4. LockInv' /\ WriteInv' /\ ErrInv'
    BY <1>6, <2>1 DEF ConnectPLCFails, Inv, LockInv, WriteInv, ErrInv, writer
  <2> QED BY <2>2, <2>3, <2>4 DEF Inv
<1>7. CASE SkipCell
  <2>1. PICK to \in {"sleep", "poll"} : MainGoes(to)
    BY <1>7 DEF SkipCell, NextCell
  <2>2. cell' \in 1 .. NumCells
    BY <1>0, <1>7, NextCellType DEF SkipCell
  <2> QED BY <1>7, <2>1, <2>2, MainMoves DEF SkipCell
<1>8. CASE LockForRead
  <2>1. mpc' = "read" /\ steady' \in BOOLEAN /\ torn' \in BOOLEAN /\ (steady' => steady) /\ mpc = "poll"
        /\ lock = "none" /\ lock' = "main"
        /\ UNCHANGED <<cell, globals, objects, writer, death, err>>
    BY <1>0, <1>8, MainGoesSteady DEF LockForRead
  <2>2. TypeOK'
    BY <1>0, <2>1, Zenon DEF TypeOK, globals, writer, objects
  <2>3. SessionInv' /\ ConnInv' /\ FdInv'
    BY <2>1 DEF Inv, SessionInv, ConnInv, FdInv, Owns, Polling, objects, globals
  <2>4. LockInv' /\ WriteInv' /\ ErrInv'
    BY <2>1 DEF Inv, LockInv, WriteInv, ErrInv, writer, globals, Polling, Writing
  <2> QED BY <2>2, <2>3, <2>4 DEF Inv
<1>9. CASE ReadDone
  <2>1. PICK to \in {"sleep", "poll"} : MainGoes(to)
    BY <1>9 DEF ReadDone, NextCell
  <2>2. cell' \in 1 .. NumCells
    BY <1>0, <1>9, NextCellType DEF ReadDone, TypeOK
  <2>3. mpc' = to /\ steady' \in BOOLEAN /\ torn' \in BOOLEAN
        /\ (steady' => steady /\ to \in Polling) /\ mpc = "read" /\ lock' = "none" /\ err' = "main"
        /\ UNCHANGED <<globals, objects, writer, death>>
    BY <1>0, <1>9, <2>1, MainGoesSteady DEF ReadDone
  <2>4. TypeOK'
    BY <1>0, <2>2, <2>3, Zenon DEF TypeOK, globals, writer, objects
  <2>5. SessionInv' /\ ConnInv' /\ FdInv'
    BY <2>3 DEF Inv, SessionInv, ConnInv, FdInv, Owns, Polling, objects, globals
  <2>6. LockInv' /\ WriteInv' /\ ErrInv'
    BY <2>3 DEF Inv, LockInv, WriteInv, ErrInv, writer, globals, Polling, Writing
  <2> QED BY <2>4, <2>5, <2>6 DEF Inv
<1>16. CASE ReadFails
  <2>1. mpc' = "report" /\ steady' \in BOOLEAN /\ torn' \in BOOLEAN /\ (steady' => steady)
        /\ mpc = "read" /\ err' = "main"
        /\ UNCHANGED <<cell, lock, globals, objects, writer, death>>
    BY <1>0, <1>16, MainGoesSteady DEF ReadFails
  <2>2. TypeOK'
    BY <1>0, <2>1, Zenon DEF TypeOK, globals, writer, objects
  <2>3. SessionInv' /\ ConnInv' /\ FdInv'
    BY <2>1 DEF Inv, SessionInv, ConnInv, FdInv, Owns, Polling, objects, globals
  <2>4. LockInv' /\ WriteInv' /\ ErrInv'
    BY <2>1 DEF Inv, LockInv, WriteInv, ErrInv, writer, globals, Polling, Writing
  <2> QED BY <2>2, <2>3, <2>4 DEF Inv
<1>17. CASE ReportRead
  <2>1. mpc' = "closeConn" /\ ~steady' /\ mpc = "report" /\ lock' = "none"
        /\ UNCHANGED <<cell, globals, objects, writer, death, err>>
    BY <1>0, <1>17, MainGoesSteady DEF ReportRead, Polling
  <2>2. TypeOK'
    <3>1. Flags'
      BY <1>0, <1>17, MainKeepsFlags DEF ReportRead
    <3>2. Ranges'
      BY <1>0, <2>1, SMT DEF TypeOK, Ranges, globals, writer, objects
    <3> QED BY <3>1, <3>2 DEF TypeOK, Ranges, Flags
  <2>3. SessionInv' /\ ConnInv' /\ FdInv'
    BY <2>1 DEF Inv, SessionInv, ConnInv, FdInv, Owns, Polling, objects, globals
  <2>4. LockInv' /\ WriteInv' /\ ErrInv'
    BY <2>1 DEF Inv, LockInv, WriteInv, ErrInv, writer, globals, Writing
  <2> QED BY <2>2, <2>3, <2>4 DEF Inv
<1>10. CASE CycleSleep
  BY <1>0, <1>10, MainMoves DEF CycleSleep, TypeOK
<1>11. CASE ForwardClose
  <2>1. PICK to \in {"nullConn", "closeSession"} : MainGoes(to)
    BY <1>11 DEF ForwardClose
  <2>2. mpc' = to /\ ~steady' /\ mpc = "closeConn"
        /\ UNCHANGED <<cell, lock, globals, sessions, fds, leaked, writer, death, err>>
    BY <1>0, <1>11, <2>1, MainGoesSteady DEF ForwardClose, Polling
  <2>3. IF connection # Null THEN conns' = conns \ {connection} /\ to = "nullConn"
                             ELSE conns' = conns /\ to = "closeSession"
    BY <1>11, <2>2 DEF ForwardClose, MainGoes
  <2>4. TypeOK'
    <3>1. Flags'
      BY <1>0, <1>11, <2>1, MainKeepsFlags DEF ForwardClose
    <3>2. Ranges'
      BY <1>0, <2>2, <2>3, SMT DEF TypeOK, Ranges, globals, writer
    <3> QED BY <3>1, <3>2 DEF TypeOK, Ranges, Flags
  <2>5. SessionInv' /\ ConnInv' /\ FdInv'
    BY <2>2, <2>3, SMT DEF Inv, SessionInv, ConnInv, FdInv, Owns, Polling, globals
  <2>6. LockInv' /\ WriteInv' /\ ErrInv'
    BY <2>2 DEF Inv, LockInv, WriteInv, ErrInv, writer
  <2> QED BY <2>4, <2>5, <2>6 DEF Inv
<1>12. CASE ForgetConn
  <2>1. mpc' = "closeSession" /\ ~steady' /\ mpc = "nullConn"
    BY <1>0, <1>12, MainGoesSteady DEF ForgetConn, Polling
  <2>2. TypeOK'
    <3>1. Flags'
      BY <1>0, <1>12, MainKeepsFlags DEF ForgetConn
    <3>2. Ranges'
      BY <1>0, <1>12, <2>1, SMT DEF ForgetConn, TypeOK, Ranges, writer, objects
    <3> QED BY <3>1, <3>2 DEF TypeOK, Ranges, Flags
  <2>3. SessionInv' /\ ConnInv' /\ FdInv'
    BY <1>12, <2>1, SMT
       DEF ForgetConn, Inv, SessionInv, ConnInv, FdInv, Owns, Polling, objects
  <2>4. LockInv' /\ WriteInv' /\ ErrInv'
    BY <1>12, <2>1 DEF ForgetConn, Inv, LockInv, WriteInv, ErrInv, writer
  <2> QED BY <2>2, <2>3, <2>4 DEF Inv
<1>13. CASE CloseSession
  <2>1. PICK to \in {"nullSession", "retry"} : MainGoes(to)
    BY <1>13 DEF CloseSession
  <2>2. mpc' = to /\ ~steady' /\ mpc = "closeSession"
        /\ UNCHANGED <<cell, lock, globals, conns, leaked, writer, death, err>>
    BY <1>0, <1>13, <2>1, MainGoesSteady DEF CloseSession, Polling
  <2>3. IF session # Null
        THEN sessions' = sessions \ {session} /\ fds' = fds - 1 /\ to = "nullSession"
        ELSE sessions' = sessions /\ fds' = fds /\ to = "retry"
    BY <1>13, <2>2 DEF CloseSession, MainGoes
  <2>4. SessionInv' /\ ConnInv' /\ FdInv'
    BY <1>0, <2>2, <2>3, SMT
       DEF Inv, SessionInv, ConnInv, FdInv, Owns, Polling, globals, TypeOK
  <2>5. TypeOK'
    <3>1. Flags'
      BY <1>0, <1>13, <2>1, MainKeepsFlags DEF CloseSession
    <3>2. Ranges'
      BY <1>0, <2>2, <2>3, SMT DEF TypeOK, Ranges, globals, writer, Inv, FdInv, SessionInv, Owns
    <3> QED BY <3>1, <3>2 DEF TypeOK, Ranges, Flags
  <2>6. LockInv' /\ WriteInv' /\ ErrInv'
    BY <2>2 DEF Inv, LockInv, WriteInv, ErrInv, writer
  <2> QED BY <2>4, <2>5, <2>6 DEF Inv
<1>14. CASE ForgetSession
  <2>1. mpc' = "retry" /\ ~steady' /\ mpc = "nullSession"
    BY <1>0, <1>14, MainGoesSteady DEF ForgetSession, Polling
  <2>2. TypeOK'
    <3>1. Flags'
      BY <1>0, <1>14, MainKeepsFlags DEF ForgetSession
    <3>2. Ranges'
      BY <1>0, <1>14, <2>1, SMT DEF ForgetSession, TypeOK, Ranges, writer, objects
    <3> QED BY <3>1, <3>2 DEF TypeOK, Ranges, Flags
  <2>3. SessionInv' /\ ConnInv' /\ FdInv'
    BY <1>14, <2>1, SMT
       DEF ForgetSession, Inv, SessionInv, ConnInv, FdInv, Owns, Polling, objects
  <2>4. LockInv' /\ WriteInv' /\ ErrInv'
    BY <1>14, <2>1 DEF ForgetSession, Inv, LockInv, WriteInv, ErrInv, writer
  <2> QED BY <2>2, <2>3, <2>4 DEF Inv
<1>15. CASE RetrySleep
  BY <1>0, <1>15, MainMoves DEF RetrySleep, TypeOK
<1> QED BY <1>1, <1>2, <1>3, <1>4, <1>5, <1>6, <1>7, <1>8, <1>9, <1>10,
           <1>11, <1>12, <1>13, <1>14, <1>15, <1>16, <1>17 DEF Main

\* The mailbox thread changes no object and no global; taking the lock it
\* copies the globals, and giving it back it forgets them.  Nor does death.
LEMMA MailboxNext == Inv /\ (TakeMessage \/ LockMailbox \/ Write \/ Die) => Inv'
<1> SUFFICES ASSUME Inv, TakeMessage \/ LockMailbox \/ Write \/ Die
             PROVE  Inv'
  OBVIOUS
<1>0. TypeOK
  BY DEF Inv
<1>1. UNCHANGED <<mpc, cell, globals, objects>>
  BY DEF TakeMessage, LockMailbox, Write, Die, ReadMailbox, LockForWrite, WriteSend,
         WriteSendCrashes, WriteDone, WriteReplyCrashes, SendKills
<1>2. SessionInv' /\ ConnInv' /\ FdInv'
  BY <1>1 DEF Inv, SessionInv, ConnInv, FdInv, Owns, Polling, globals, objects
<1>3. CASE TakeMessage
  <2>1. TypeOK'
    BY <1>0, <1>1, <1>3, Zenon DEF TakeMessage, ReadMailbox, TypeOK, globals, objects
  <2>2. LockInv' /\ WriteInv' /\ ErrInv'
    BY <1>0, <1>1, <1>3
       DEF TakeMessage, ReadMailbox, Inv, LockInv, WriteInv, ErrInv, Writing, globals
  <2> QED BY <1>2, <2>1, <2>2 DEF Inv
<1>4. CASE LockMailbox
  <2>1. Flags'
    <3>1. /\ steady' = (mpc \in Polling) /\ torn' = (torn \/ mpc \notin Polling)
          /\ death' = death
      BY <1>4, Zenon DEF LockMailbox, LockForWrite
    <3>2. (mpc \in Polling) \in BOOLEAN /\ (torn \/ mpc \notin Polling) \in BOOLEAN
      OBVIOUS
    <3> QED BY <1>0, <3>1, <3>2, Zenon DEF TypeOK, Flags
  <2>2. Ranges'
    BY <1>0, <1>1, <1>4, SMT
       DEF LockMailbox, LockForWrite, TypeOK, Ranges, globals, objects
  <2>3. TypeOK'
    BY <2>1, <2>2 DEF TypeOK, Ranges, Flags
  <2>4. LockInv' /\ WriteInv' /\ ErrInv'
    BY <1>1, <1>4
       DEF LockMailbox, LockForWrite, Inv, LockInv, WriteInv, ErrInv, Writing, globals
  <2> QED BY <1>2, <2>3, <2>4 DEF Inv
<1>5. CASE WriteSend
  <2>1. TypeOK'
    BY <1>0, <1>1, <1>5, Zenon DEF WriteSend, TypeOK, globals, objects
  <2>2. LockInv' /\ WriteInv' /\ ErrInv'
    BY <1>1, <1>5 DEF WriteSend, Inv, LockInv, WriteInv, ErrInv, Writing, globals
  <2> QED BY <1>2, <2>1, <2>2 DEF Inv
<1>6. CASE WriteSendCrashes \/ WriteReplyCrashes \/ SendKills
  <2>1. TypeOK'
    BY <1>0, <1>1, <1>6, ZenonT(60)
       DEF WriteSendCrashes, WriteReplyCrashes, SendKills, TypeOK, globals, objects, writer
  <2>2. LockInv' /\ WriteInv' /\ ErrInv'
    BY <1>1, <1>6
       DEF WriteSendCrashes, WriteReplyCrashes, SendKills, Inv, LockInv, WriteInv,
           ErrInv, globals, writer
  <2> QED BY <1>2, <2>1, <2>2 DEF Inv
<1>7. CASE WriteDone
  <2>1. Flags'
    BY <1>0, <1>7, Zenon DEF WriteDone, TypeOK, Flags
  <2>2. Ranges'
    BY <1>0, <1>1, <1>7, SMT DEF WriteDone, TypeOK, Ranges, globals, objects
  <2>3. TypeOK'
    BY <2>1, <2>2 DEF TypeOK, Ranges, Flags
  <2>4. LockInv' /\ WriteInv' /\ ErrInv'
    BY <1>1, <1>7 DEF WriteDone, Inv, LockInv, WriteInv, ErrInv, Writing
  <2> QED BY <1>2, <2>3, <2>4 DEF Inv
<1> QED BY <1>3, <1>4, <1>5, <1>6, <1>7 DEF Write, Die

\* Inv depends on the variables of the specification only.
LEMMA InvStutter == Inv /\ UNCHANGED vars => Inv'
  BY DEF vars, objects, globals, writer, Inv, TypeOK, LockInv, SessionInv,
         ConnInv, FdInv, WriteInv, ErrInv, Owns

-----------------------------------------------------------------------------
\* The inductive invariant holds in every state the two threads reach.
THEOREM DaemonInv == Spec => []Inv
<1>1. Inv /\ [Next]_vars => Inv'
  BY MainNext, MailboxNext, InvStutter DEF Next
<1> QED BY InvInit, <1>1, PTL DEF Spec

\* Both threads' variables, the lock, the pointers and the descriptor count
\* stay within their ranges: with MaxFds descriptors no open takes one more
\* and no close gives back one that was not held.
THEOREM DaemonTypeCorrect == Spec => []TypeOK
<1>1. Inv => TypeOK
  BY DEF Inv
<1> QED BY DaemonInv, <1>1, PTL

\* The lock around readTuxEip and around WritePLCData keeps a poll and a write
\* from ever being on the socket together.
THEOREM ExchangesExcludeAlways == Spec => []ExchangesExclude
<1>1. Inv => ExchangesExclude
  BY DEF Inv, LockInv, ExchangesExclude
<1> QED BY DaemonInv, <1>1, PTL

\* openTuxEip, readTuxEip and closeTuxEip only ever use, and closeTuxEip only
\* ever frees, objects that are allocated, through any sequence of failures.
THEOREM MainPointersLiveAlways == Spec => []MainPointersLive
<1>1. Inv => MainPointersLive
  <2> SUFFICES ASSUME Inv PROVE MainPointersLive
    OBVIOUS
  <2>1. session = Null \/ mpc = "nullSession" \/ session \in sessions
    BY DEF Inv, SessionInv, Owns
  <2>2. connection = Null \/ mpc = "nullConn" \/ connection \in conns
    BY DEF Inv, ConnInv, Owns
  <2> QED BY <2>1, <2>2 DEF Inv, SessionInv, ConnInv, Polling, MainPointersLive
<1> QED BY DaemonInv, <1>1, PTL

\* closeTuxEip, reached from every failure, gives back everything: a retry
\* begins with no session, no connection, and no socket but those of the
\* lookups that failed.
THEOREM NothingLeakedAlways == Spec => []NothingLeaked
<1>1. Inv => NothingLeaked
  <2> SUFFICES ASSUME Inv, mpc \in {"retry", "open"}
               PROVE  sessions = {} /\ conns = {} /\ fds = leaked
    BY DEF NothingLeaked
  <2>1. sessions = {} /\ conns = {}
    BY DEF Inv, SessionInv, ConnInv, Owns
  <2> QED BY <2>1, SMT DEF Inv, FdInv, TypeOK
<1> QED BY DaemonInv, <1>1, PTL

\* readTuxEip prints the error of its own read, whether or not the threads
\* share the last-error variables.
THEOREM OwnErrorReportedAlways == Spec => []OwnErrorReported
<1>1. Inv => OwnErrorReported
  BY DEF Inv, ErrInv, OwnErrorReported
<1> QED BY DaemonInv, <1>1, PTL

\* A write that main has not overtaken by closing uses allocated objects: the
\* lock is enough as long as main neither opens nor closes.
THEOREM WriteSafeWhilePollingAlways == Spec => []WriteSafeWhilePolling
<1>1. Inv => WriteSafeWhilePolling
  <2> SUFFICES ASSUME Inv, steady
               PROVE  wsession \in sessions /\ wconn \in conns
    BY DEF WriteSafeWhilePolling
  <2>1. mpc \in Polling /\ wsession = session /\ wconn = connection
    BY DEF Inv, WriteInv
  <2>2. session \in sessions /\ connection \in conns
    BY <2>1 DEF Inv, SessionInv, ConnInv, Owns, Polling
  <2> QED BY <2>1, <2>2
<1> QED BY DaemonInv, <1>1, PTL
-----------------------------------------------------------------------------
\* The daemon as a supervisor of one link.

\* What the supervisor sees of the daemon depends on these variables only.
LEMMA LinkStutter ==
  ASSUME UNCHANGED <<sessions, conns, death>>,
         \/ mpc' = mpc
         \/ {mpc, mpc'} \subseteq {"open", "register", "connect"}
         \/ {mpc, mpc'} \subseteq Polling
         \/ {mpc, mpc'} \subseteq {"closeConn", "nullConn", "closeSession",
                                   "nullSession", "retry"}
  PROVE  UNCHANGED Link!vars
  BY DEF Link!vars, Polling, Alive

\* A failure takes the link down with all that it holds.
LEMMA LinkLost ==
  ASSUME UNCHANGED <<sessions, conns, death>>, Alive,
         mpc \in {"open", "register", "connect"} \cup Polling,
         mpc' = "closeConn"
  PROVE  Link!Lose
  BY DEF Link!Lose, Polling, Alive

\* Every step of main is a step of the supervisor or invisible to it.
LEMMA MainIsLink == Inv /\ Main => [Link!Next]_Link!vars
<1> SUFFICES ASSUME Inv, Main PROVE [Link!Next]_Link!vars
  OBVIOUS
<1> USE DEF Link!Next
<1>0. Alive
  BY DEF Main
<1>1. ASSUME NEW a \in Addr, OpenSession(a) PROVE [Link!Next]_Link!vars
  <2>1. sessions = {} /\ sessions' # {} /\ mpc = "open" /\ mpc' = "register"
        /\ UNCHANGED <<conns, death>>
    BY <1>1 DEF OpenSession, MainGoes, Inv, SessionInv, Owns
  <2>2. Link!TakeSession
    BY <1>0, <2>1 DEF Link!TakeSession, Alive
  <2> QED BY <2>2
<1>2. CASE OpenSessionRefused \/ NoDescriptor \/ LookupFails \/ ConnectPLCFails
           \/ ReportRead
  BY <1>0, <1>2, LinkLost
     DEF OpenSessionRefused, NoDescriptor, LookupFails, ConnectPLCFails,
         ReportRead, MainGoes, objects, Polling
<1>3. CASE RegisterSession
  <2>1. PICK to \in {"connect", "closeConn"} : mpc' = to
    BY <1>3 DEF RegisterSession, MainGoes
  <2>2. mpc = "register" /\ UNCHANGED <<sessions, conns, death>>
    BY <1>3 DEF RegisterSession, objects
  <2>3. CASE to = "connect"
    BY <2>1, <2>2, <2>3, LinkStutter
  <2>4. CASE to = "closeConn"
    BY <1>0, <2>1, <2>2, <2>4, LinkLost
  <2> QED BY <2>3, <2>4
<1>4. ASSUME NEW a \in Addr, ConnectPLC(a) PROVE [Link!Next]_Link!vars
  <2>1. sessions # {} /\ conns = {} /\ conns' # {} /\ mpc = "connect" /\ mpc' = "poll"
        /\ UNCHANGED <<sessions, death>>
    BY <1>4 DEF ConnectPLC, MainGoes, Inv, SessionInv, ConnInv, Owns
  <2>2. Link!TakeConn
    BY <1>0, <2>1 DEF Link!TakeConn, Polling, Alive
  <2> QED BY <2>2
<1>5. CASE SkipCell \/ LockForRead \/ ReadDone \/ ReadFails \/ CycleSleep
  <2>1. {mpc, mpc'} \subseteq Polling
    BY <1>5 DEF SkipCell, LockForRead, ReadDone, ReadFails, CycleSleep, NextCell,
                MainGoes, Polling
  <2>2. UNCHANGED <<sessions, conns, death>>
    BY <1>5 DEF SkipCell, LockForRead, ReadDone, ReadFails, CycleSleep, objects
  <2> QED BY <2>1, <2>2, LinkStutter
<1>6. CASE ForwardClose
  <2>1. mpc = "closeConn" /\ mpc' \in {"nullConn", "closeSession"}
        /\ UNCHANGED <<sessions, death>>
    BY <1>6 DEF ForwardClose, MainGoes
  <2>2. CASE connection # Null
    <3>1. conns # {} /\ conns' = {}
      BY <1>6, <2>2 DEF ForwardClose, Inv, ConnInv, Owns
    <3>2. Link!GiveBackConn
      BY <1>0, <2>1, <3>1 DEF Link!GiveBackConn, Polling, Alive
    <3> QED BY <3>2
  <2>3. CASE connection = Null
    <3>1. UNCHANGED conns
      BY <1>6, <2>3 DEF ForwardClose
    <3> QED BY <2>1, <3>1, LinkStutter
  <2> QED BY <2>2, <2>3
<1>7. CASE ForgetConn \/ ForgetSession
  BY <1>7, LinkStutter DEF ForgetConn, ForgetSession, MainGoes, objects
<1>8. CASE CloseSession
  <2>1. mpc = "closeSession" /\ mpc' \in {"nullSession", "retry"} /\ conns = {}
        /\ UNCHANGED <<conns, death>>
    BY <1>8 DEF CloseSession, MainGoes, Inv, ConnInv, Owns
  <2>2. CASE session # Null
    <3>1. sessions # {} /\ sessions' = {}
      BY <1>8, <2>2 DEF CloseSession, Inv, SessionInv, Owns
    <3>2. Link!GiveBackSession
      BY <1>0, <2>1, <3>1 DEF Link!GiveBackSession, Polling, Alive
    <3> QED BY <3>2
  <2>3. CASE session = Null
    <3>1. UNCHANGED sessions
      BY <1>8, <2>3 DEF CloseSession
    <3> QED BY <2>1, <3>1, LinkStutter
  <2> QED BY <2>2, <2>3
<1>9. CASE RetrySleep
  <2>1. mpc = "retry" /\ mpc' = "open" /\ UNCHANGED <<sessions, conns, death>>
    BY <1>9 DEF RetrySleep, MainGoes, objects
  <2>2. sessions = {} /\ conns = {}
    BY <2>1 DEF Inv, SessionInv, ConnInv, Owns
  <2>3. Link!Retry
    BY <1>0, <2>1, <2>2 DEF Link!Retry, Polling, Alive
  <2> QED BY <2>3
<1> QED BY <1>1, <1>2, <1>3, <1>4, <1>5, <1>6, <1>7, <1>8, <1>9 DEF Main

\* The mailbox thread is invisible to the supervisor, and death is one of its
\* steps.
LEMMA MailboxIsLink ==
  TakeMessage \/ LockMailbox \/ Write \/ Die => [Link!Next]_Link!vars
<1>1. ASSUME TakeMessage \/ LockMailbox \/ (Alive /\ (WriteSend \/ WriteDone))
      PROVE  UNCHANGED Link!vars
  BY <1>1, LinkStutter
     DEF TakeMessage, LockMailbox, ReadMailbox, LockForWrite, WriteSend, WriteDone,
         objects
<1>2. ASSUME Alive, WriteSendCrashes \/ WriteReplyCrashes \/ SendKills
      PROVE  Link!Die
  <2>1. death' # "none" /\ UNCHANGED <<mpc, sessions, conns>>
    BY <1>2 DEF WriteSendCrashes, WriteReplyCrashes, SendKills, objects
  <2> QED BY <1>2, <2>1 DEF Link!Die, Polling, Alive
<1> QED BY <1>1, <1>2 DEF Write, Die, Link!Next

\* The safety part of ImplementsLink: through any sequence of failures the
\* daemon takes a session, then a connection, reports the link up only with
\* both, and gives both back, the connection first, before it tries again.
THEOREM ImplementsLinkSafely == Spec => Link!Init /\ [][Link!Next]_(Link!vars)
<1>1. Init => Link!Init
  BY DEF Init, Link!Init, Alive
<1>2. Inv /\ [Next]_vars => [Link!Next]_(Link!vars)
  <2>1. ASSUME UNCHANGED vars PROVE UNCHANGED Link!vars
    BY <2>1, LinkStutter DEF vars, objects
  <2> QED BY <2>1, MainIsLink, MailboxIsLink DEF Next
<1> QED BY <1>1, <1>2, DaemonInv, PTL DEF Spec
=============================================================================
