------------------------------- MODULE Sqlite -------------------------------
(***************************************************************************)
(* The wrapper Tux_sqlite around a Qt database, tux_sqlite.cpp, for any    *)
(* number of wrappers in one process.                                      *)
(*                                                                         *)
(* Qt keeps a table of connections by name, for the whole process: a name  *)
(* once added stays, with the file it was added for.  A wrapper has a      *)
(* handle on one of them, or the null pointer.  Wrappers that use the same *)
(* name share the connection, and the first to close it closes it for all. *)
(***************************************************************************)
EXTENDS Integers, Sequences

CONSTANTS
  Wrappers,  \* objects of class Tux_sqlite
  Names,     \* connection names they are opened with
  Files,     \* database files
  Null       \* a null pointer; also a statement that stores nothing

ASSUME SqliteAssumption == Null \notin Names \cup Files

VARIABLES
  db,        \* the connection each wrapper has a handle on, or Null
  registry,  \* Qt's table: the file of each name, Null if it was never added
  isOpen,    \* Qt's connections that are open
  rows,      \* the rows stored in each file
  accepting, \* files that can be written: they have the table, and no other
             \* program has them locked
  users,     \* history: the wrappers that have opened each name,
  asked,     \* and the files they asked for
  claimed    \* history: <<f, row>> of each query that returned 0 to a wrapper
             \* alone with its name, which has been opened for f only

handles == <<db, registry, isOpen>>
usage == <<users, asked>>
sqlite == <<handles, rows, accepting, usage, claimed>>

Failed == -1

-----------------------------------------------------------------------------
\* Qt: a new name gets the file asked for, a known one keeps what it has.
AddDatabase(n, f) == IF registry[n] = Null THEN f ELSE registry[n]

\* Mutant of ConnectionName: every wrapper uses the default connection, the
\* bug that the comment in Tux_sqlite::open refers to.
DefaultConnection(n) == CHOOSE name \in Names : TRUE

ConnectionName(n) == n

\* open: works is whether Qt can open the file.
Open(w, f, name, works) ==
  LET n == ConnectionName(name)
  IN  /\ db[w] = Null
      /\ registry' = [registry EXCEPT ![n] = AddDatabase(n, f)]
      /\ isOpen' = IF works THEN isOpen \cup {n} ELSE isOpen \ {n}
      /\ db' = IF works THEN [db EXCEPT ![w] = n] ELSE db
      /\ users' = [users EXCEPT ![name] = @ \cup {w}]
      /\ asked' = [asked EXCEPT ![name] = @ \cup {f}]
      /\ UNCHANGED <<rows, accepting, claimed>>

\* An open wrapper is not opened again: open returns -1 and changes nothing.
OpenAgain(w) == db[w] # Null /\ UNCHANGED sqlite

\* close, and the destructor of a wrapper that is still open.
Close(w) ==
  /\ db[w] # Null
  /\ isOpen' = isOpen \ {db[w]}
  /\ db' = [db EXCEPT ![w] = Null]
  /\ UNCHANGED <<registry, rows, accepting, usage, claimed>>

\* The file f has the wrapper w alone, under name n.
Alone(w, n, f) == users[n] = {w} /\ asked[n] = {f}

\* The file that a statement of w reaches, if any.
Reached(w) == {f \in Files : db[w] # Null /\ db[w] \in isOpen /\ registry[db[w]] = f}

\* Mutant of Returned: the error of the statement is not looked at.
ReturnedUnlessNull(w, row) == IF db[w] = Null THEN {Failed} ELSE {0}

\* What query may return.  Reading fails as it may; a row is stored if the file
\* accepts it.  On a connection that another wrapper has closed nothing runs,
\* and it is up to Qt whether that is an error.
Returned(w, row) ==
  IF db[w] = Null THEN {Failed}
  ELSE IF row = Null \/ Reached(w) = {} THEN {0, Failed}
  ELSE IF Reached(w) \subseteq accepting THEN {0} ELSE {Failed}

\* query: what the statement stores depends on the file, not on what is returned.
Query(w, row, ret) ==
  /\ ret \in Returned(w, row)
  /\ rows' = [f \in Files |-> IF row # Null /\ f \in Reached(w) \cap accepting
                              THEN Append(rows[f], row) ELSE rows[f]]
  /\ claimed' = claimed \cup
       {<<f, row>> : f \in {a \in Files : ret = 0 /\ row # Null /\ Alone(w, db[w], a)}}
  /\ UNCHANGED <<handles, accepting, usage>>

\* Another program locks the file, drops the table, or gives them back.
Accept(f) ==
  /\ accepting' = IF f \in accepting THEN accepting \ {f} ELSE accepting \cup {f}
  /\ UNCHANGED <<handles, rows, usage, claimed>>

SqliteInit ==
  /\ db = [w \in Wrappers |-> Null]
  /\ registry = [n \in Names |-> Null] /\ isOpen = {}
  /\ rows = [f \in Files |-> <<>>] /\ accepting \in SUBSET Files
  /\ users = [n \in Names |-> {}] /\ asked = [n \in Names |-> {}]
  /\ claimed = {}

-----------------------------------------------------------------------------
\* Properties.

\* A wrapper that open returned 0 to, and that was not closed, has an open
\* connection to the file it asked for, however often it and the others were
\* opened and closed before: unless its name was used by another wrapper or
\* for another file.
OpenedIsConnected ==
  \A w \in Wrappers, n \in Names, f \in Files :
    db[w] = n /\ Alone(w, n, f) => n \in isOpen /\ registry[n] = f

\* A statement for which query returned 0 has been stored in the file that the
\* wrapper was opened for, if it was alone with its name.
ClaimedIsStored ==
  \A c \in claimed : \E i \in DOMAIN rows[c[1]] : rows[c[1]][i] = c[2]
=============================================================================
