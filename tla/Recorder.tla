------------------------------ MODULE Recorder ------------------------------
(***************************************************************************)
(* The debug tool, debug/src/main.cpp: it opens the production database,   *)
(* looks whether the table can be read, takes one record of a queue apart  *)
(* and inserts it, again and again until the insert succeeds.              *)
(*                                                                         *)
(* In the same module, other programs of the wrapper: they open, close and *)
(* query as they like.  A process is one or the other.                     *)
(*                                                                         *)
(* A record is the sequence of its comma-separated fields, a date the      *)
(* sequence of its numbers; a number with a decimal comma is two fields.   *)
(***************************************************************************)
EXTENDS Sqlite, SequencesExt

CONSTANTS
  Tool,        \* the wrapper of the debug tool
  DebugName,   \* its connection name
  Produccion,  \* its database file
  queue_data,  \* the record it inserts
  MaxRows      \* bound: rows the other programs store in a file

ASSUME RecorderAssumption ==
  /\ Tool \in Wrappers /\ DebugName \in Names /\ Produccion \in Files
  /\ MaxRows \in Nat

VARIABLE tpc   \* where the debug tool is; "absent" in another program

vars == <<sqlite, tpc>>

-----------------------------------------------------------------------------
\* The record: each function takes its fields off the front and returns the
\* rest.

get_date(source) == [value |-> Reverse(Head(source)), rest |-> Tail(source)]
get_time(source) == [value |-> Head(source), rest |-> Tail(source)]
get_int(source) == [value |-> Head(source), rest |-> Tail(source)]

get_float(source) == [value |-> SubSeq(source, 1, 2),
                      rest |-> SubSeq(source, 3, Len(source))]

Row(record) ==
  LET fecha == get_date(record)
      hora == get_time(fecha.rest)
      peso == get_float(hora.rest)
      plato == get_int(peso.rest)
  IN  [FECHA |-> fecha.value, HORA |-> hora.value, VIA |-> 1,
       PLATO |-> plato.value, PESO |-> peso.value]

\* The record has seven fields, the first a date of three numbers.
ASSUME RecordAssumption ==
  LET q == queue_data
  IN  /\ q = <<q[1], q[2], q[3], q[4], q[5], q[6], q[7]>>
      /\ q[1] = <<q[1][1], q[1][2], q[1][3]>>
      /\ Row(q) # Null

-----------------------------------------------------------------------------
\* The debug tool.  What open returned is printed and not looked at.

OpenDatabase ==
  /\ tpc = "open"
  /\ \E works \in BOOLEAN : Open(Tool, Produccion, DebugName, works)
  /\ tpc' = "select"

\* Mutant of SelectAll: the tool goes on without the table.
SelectIgnored ==
  /\ tpc = "select"
  /\ \E ret \in {0, Failed} : Query(Tool, Null, ret)
  /\ tpc' \in {"insert", "quit"}

SelectAll ==
  /\ tpc = "select"
  /\ \E ret \in {0, Failed} :
       Query(Tool, Null, ret) /\ tpc' = IF ret = 0 THEN "insert" ELSE "quit"

\* Mutant of InsertRecord: i is counted up whatever query returned.
InsertAndStop ==
  /\ tpc = "insert"
  /\ \E ret \in {0, Failed} : Query(Tool, Row(queue_data), ret)
  /\ tpc' = "done"

\* Mutant of InsertRecord: i is never counted up.
InsertForever ==
  /\ tpc = "insert" /\ Len(rows[Produccion]) < MaxRows
  /\ \E ret \in {0, Failed} : Query(Tool, Row(queue_data), ret)
  /\ UNCHANGED tpc

InsertRecord ==
  /\ tpc = "insert"
  /\ \E ret \in {0, Failed} :
       Query(Tool, Row(queue_data), ret) /\ tpc' = IF ret = 0 THEN "done" ELSE "insert"

\* main returns -1, and the destructor closes the database if it is open.
Quit ==
  /\ tpc = "quit"
  /\ IF db[Tool] # Null THEN Close(Tool) ELSE UNCHANGED sqlite
  /\ tpc' = "ended"

-----------------------------------------------------------------------------
Debug == OpenDatabase \/ SelectAll \/ InsertRecord \/ Quit

\* Any other program of the wrapper; its rows are the names of its wrappers.
Other ==
  /\ tpc = "absent" /\ UNCHANGED tpc
  /\ \E w \in Wrappers :
       \/ \E f \in Files, n \in Names, works \in BOOLEAN : Open(w, f, n, works)
       \/ OpenAgain(w) \/ Close(w)
       \/ \E ret \in {0, Failed} :
            (\A f \in Files : Len(rows[f]) < MaxRows) /\ Query(w, w, ret)

Environment == \E f \in Files : Accept(f) /\ UNCHANGED tpc

Init == SqliteInit /\ tpc \in {"absent", "open"}

Next == Debug \/ Other \/ Environment

Spec == Init /\ [][Next]_vars

\* The tool is scheduled; nothing makes the database accept anything.
FairSpec == Spec /\ WF_vars(Debug)

-----------------------------------------------------------------------------
\* Properties.

\* The place of each column in a record, from the comment in the client:
\* "date(10),time(8),float(13),int(6),float(13)".
Expected ==
  [FECHA |-> <<queue_data[1][3], queue_data[1][2], queue_data[1][1]>>,
   HORA |-> queue_data[2], VIA |-> 1,
   PLATO |-> queue_data[5], PESO |-> <<queue_data[3], queue_data[4]>>]

\* However often the insert fails, the record is in the database once when the
\* loop has ended, with every field in its column, and not before.
RecordedOnce ==
  tpc # "absent" =>
    rows[Produccion] = IF tpc = "done" THEN <<Expected>> ELSE <<>>

\* The loop that repeats the insert is entered with the database open, or it
\* would be repeated for ever.
InsertsIntoOpenDatabase ==
  tpc = "insert" => db[Tool] # Null /\ registry[db[Tool]] = Produccion
                    /\ db[Tool] \in isOpen

\* The loop ends once the database accepts writes and goes on doing so.
LoopEnds ==
  <>[](Produccion \in accepting) => (tpc = "insert" ~> tpc = "done")
=============================================================================
