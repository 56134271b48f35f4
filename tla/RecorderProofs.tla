--------------------------- MODULE RecorderProofs ---------------------------
(***************************************************************************)
(* Proofs about the database wrapper and the debug tool that uses it, for  *)
(* any number of wrappers, connection names and files, and any record.     *)
(*                                                                         *)
(* Qt's table of connections never forgets a name, so what a wrapper finds *)
(* behind its name depends on every open and close before.  The invariant  *)
(* ties the table to the history of who opened a name, and for which file. *)
(***************************************************************************)
EXTENDS Recorder, SequenceTheorems, TLAPS

Rows == Wrappers \cup {Row(queue_data)}

-----------------------------------------------------------------------------
\* The inductive invariant.

SqliteTypeOK ==
  /\ db \in [Wrappers -> Names \cup {Null}]
  /\ registry \in [Names -> Files \cup {Null}]
  /\ isOpen \subseteq Names
  /\ rows \in [Files -> Seq(Rows)]
  /\ users \in [Names -> SUBSET Wrappers]
  /\ asked \in [Names -> SUBSET Files]

\* A name is in the table once it was asked for, with one of the files asked for.
TableIsHistory ==
  \A n \in Names :
    IF asked[n] = {} THEN registry[n] = Null
    ELSE registry[n] # Null /\ registry[n] \in asked[n]

\* A wrapper with a handle on a name has opened it.
HandlesAreHistory ==
  \A w \in Wrappers : db[w] # Null => w \in users[db[w]]

ClaimsTyped == claimed \subseteq Files \X Rows

SqliteInv ==
  /\ SqliteTypeOK /\ ClaimsTyped
  /\ TableIsHistory /\ HandlesAreHistory
  /\ OpenedIsConnected /\ ClaimedIsStored

\* The tool has the process to itself: its name is in the table for its file,
\* and no row is stored before the loop ends.
ToolConnected ==
  db[Tool] # Null => registry[db[Tool]] = Produccion /\ db[Tool] \in isOpen

ToolInv ==
  /\ tpc \in {"absent", "open", "select", "insert", "quit", "done", "ended"}
  /\ tpc = "open" => db[Tool] = Null /\ registry[DebugName] = Null
  /\ tpc \in {"select", "insert"} => ToolConnected
  /\ tpc = "insert" => db[Tool] # Null

Inv == SqliteInv /\ ToolInv /\ RecordedOnce

-----------------------------------------------------------------------------
\* Operators.

\* A failed query does not return the 0 of a successful one.
LEMMA FailedIsNotZero == Failed # 0
BY DEF Failed

\* A row behind the others leaves each where it was.
LEMMA AppendKeepsRows ==
  ASSUME NEW S, NEW s \in Seq(S), NEW e \in S, NEW x
  PROVE  /\ Append(s, e) \in Seq(S)
         /\ (\E i \in DOMAIN s : s[i] = x) => \E i \in DOMAIN Append(s, e) : Append(s, e)[i] = x
         /\ \E i \in DOMAIN Append(s, e) : Append(s, e)[i] = e
<1>1. /\ DOMAIN s = 1 .. Len(s) /\ Len(s) \in Nat
      /\ DOMAIN Append(s, e) = 1 .. Len(s) + 1
      /\ \A i \in 1 .. Len(s) : Append(s, e)[i] = s[i]
      /\ Append(s, e)[Len(s) + 1] = e
      /\ Append(s, e) \in Seq(S)
  OBVIOUS
<1>2. 1 .. Len(s) \subseteq 1 .. Len(s) + 1 /\ Len(s) + 1 \in 1 .. Len(s) + 1
  BY <1>1
<1> QED
  BY <1>1, <1>2

\* Two pieces of a sequence of five.
LEMMA PiecesOfFive ==
  ASSUME NEW S, NEW s \in Seq(S), Len(s) = 5
  PROVE  /\ SubSeq(s, 1, 2) = <<s[1], s[2]>>
         /\ SubSeq(s, 3, Len(s)) = <<s[3], s[4], s[5]>>
<1> DEFINE front == SubSeq(s, 1, 2)   two == <<s[1], s[2]>>
           back == SubSeq(s, 3, 5)    three == <<s[3], s[4], s[5]>>
<1>1. /\ \A i \in 1 .. 2 : s[i] \in S
      /\ \A i \in 3 .. 5 : s[i] \in S
  BY SMTT(60)
<1>2. /\ two \in Seq(S) /\ Len(two) = 2 /\ \A i \in 1 .. 2 : two[i] = s[1 + i - 1]
      /\ three \in Seq(S) /\ Len(three) = 3 /\ \A i \in 1 .. 3 : three[i] = s[3 + i - 1]
  BY SMTT(60)
<1> HIDE DEF two, three
<1>3. /\ front \in Seq(S) /\ Len(front) = 2 /\ \A i \in 1 .. 2 : front[i] = s[1 + i - 1]
  BY <1>1, SubSeqProperties, 1 \in Int, 2 \in Int
<1>4. /\ back \in Seq(S) /\ Len(back) = 3 /\ \A i \in 1 .. 3 : back[i] = s[3 + i - 1]
  BY <1>1, SubSeqProperties, 3 \in Int, 5 \in Int
<1> HIDE DEF front, back
<1>5. front = two
  BY <1>2, <1>3, SeqEqual, SMTT(60)
<1>6. back = three
  BY <1>2, <1>4, SeqEqual
<1> QED
  BY <1>5, <1>6 DEF front, back, two, three

\* The tool's parsing puts every field of the record into its column.
LEMMA RowIsExpected == Row(queue_data) = Expected
<1> DEFINE q == queue_data
           a == q[1]  b == q[2]  c == q[3]  d == q[4]  e == q[5]  f == q[6]  g == q[7]
           x == a[1]  y == a[2]  z == a[3]
<1>1. q = <<a, b, c, d, e, f, g>> /\ a = <<x, y, z>>
  BY RecordAssumption
<1> HIDE DEF q, a, b, c, d, e, f, g, x, y, z
<1>2. /\ Head(q) = a
      /\ Tail(q) = <<b, c, d, e, f, g>>
  BY <1>1
<1>3. Reverse(a) = <<z, y, x>>
  BY <1>1 DEF Reverse
<1> DEFINE after == <<b, c, d, e, f, g>>
           rest == <<c, d, e, f, g>>
           last == <<e, f, g>>
<1>4. Head(after) = b /\ Tail(after) = rest /\ Head(last) = e
  OBVIOUS
<1>5. SubSeq(rest, 1, 2) = <<c, d>> /\ SubSeq(rest, 3, Len(rest)) = last
  <2>1. /\ rest \in Seq({c, d, e, f, g}) /\ Len(rest) = 5
        /\ rest[1] = c /\ rest[2] = d /\ rest[3] = e /\ rest[4] = f /\ rest[5] = g
    OBVIOUS
  <2> HIDE DEF rest
  <2> QED
    BY <2>1, PiecesOfFive
<1> HIDE DEF rest, last, after
<1>6. Row(q) = [FECHA |-> Reverse(a), HORA |-> b, VIA |-> 1,
                PLATO |-> e, PESO |-> <<c, d>>]
  BY <1>2, <1>4, <1>5 DEF Row, get_date, get_time, get_float, get_int, after
<1> QED
  BY <1>3, <1>6 DEF Expected, q, a, b, c, d, e, x, y, z

-----------------------------------------------------------------------------
\* The wrapper: each operation keeps its invariant.

LEMMA OpenKeepsInv ==
  ASSUME SqliteInv, NEW w \in Wrappers, NEW f \in Files, NEW name \in Names,
         NEW works \in BOOLEAN, Open(w, f, name, works)
  PROVE  SqliteInv'
<1> USE DEF Open, ConnectionName, AddDatabase
<1>1. SqliteTypeOK /\ ClaimsTyped /\ Null \notin Names /\ Null \notin Files
  BY SqliteAssumption DEF SqliteInv
<1>2. SqliteTypeOK'
  BY <1>1 DEF SqliteTypeOK
<1>3. ClaimsTyped'
  BY <1>1 DEF ClaimsTyped
<1>4. TableIsHistory'
  <2> SUFFICES ASSUME NEW n \in Names
               PROVE  IF asked'[n] = {} THEN registry'[n] = Null
                      ELSE registry'[n] # Null /\ registry'[n] \in asked'[n]
    BY DEF TableIsHistory
  <2>1. IF asked[n] = {} THEN registry[n] = Null
        ELSE registry[n] # Null /\ registry[n] \in asked[n]
    BY DEF SqliteInv, TableIsHistory
  <2>2. CASE n = name
    BY <1>1, <2>1, <2>2 DEF SqliteTypeOK
  <2>3. CASE n # name
    BY <1>1, <2>1, <2>3 DEF SqliteTypeOK
  <2> QED
    BY <2>2, <2>3
<1>5. HandlesAreHistory'
  BY <1>1 DEF SqliteInv, SqliteTypeOK, HandlesAreHistory
<1>6. OpenedIsConnected'
  <2> SUFFICES ASSUME NEW v \in Wrappers, NEW n \in Names, NEW g \in Files,
                      db'[v] = n, Alone(v, n, g)'
               PROVE  n \in isOpen' /\ registry'[n] = g
    BY DEF OpenedIsConnected
  <2>1. CASE n # name
    <3>1. db[v] = n /\ Alone(v, n, g)
      BY <1>1, <2>1 DEF SqliteTypeOK, Alone
    <3> QED
      BY <1>1, <2>1, <3>1 DEF SqliteInv, OpenedIsConnected, SqliteTypeOK
  <2>2. CASE n = name
    <3>1. v = w /\ f = g /\ asked[n] \subseteq {g}
      BY <1>1, <2>2 DEF SqliteTypeOK, Alone
    <3>2. works
      BY <1>1, <3>1, <2>2
    <3>3. registry'[n] = g
      BY <1>1, <2>2, <3>1 DEF SqliteInv, SqliteTypeOK, TableIsHistory
    <3> QED
      BY <2>2, <3>2, <3>3
  <2> QED
    BY <2>1, <2>2
<1>7. ClaimedIsStored'
  BY DEF SqliteInv, ClaimedIsStored
<1> QED
  BY <1>2, <1>3, <1>4, <1>5, <1>6, <1>7 DEF SqliteInv

LEMMA CloseKeepsInv ==
  ASSUME SqliteInv, NEW w \in Wrappers, Close(w)
  PROVE  SqliteInv'
<1> USE DEF Close, usage
<1>1. SqliteTypeOK /\ ClaimsTyped /\ Null \notin Names
  BY SqliteAssumption DEF SqliteInv
<1>2. SqliteTypeOK' /\ ClaimsTyped'
  BY <1>1 DEF SqliteTypeOK, ClaimsTyped
<1>3. TableIsHistory' /\ ClaimedIsStored'
  BY DEF SqliteInv, TableIsHistory, ClaimedIsStored
<1>4. HandlesAreHistory'
  BY <1>1 DEF SqliteInv, SqliteTypeOK, HandlesAreHistory
<1>5. OpenedIsConnected'
  <2> SUFFICES ASSUME NEW v \in Wrappers, NEW n \in Names, NEW g \in Files,
                      db'[v] = n, Alone(v, n, g)'
               PROVE  n \in isOpen' /\ registry'[n] = g
    BY DEF OpenedIsConnected
  <2>1. v # w /\ db[v] = n /\ Alone(v, n, g)
    BY <1>1 DEF SqliteTypeOK, Alone
  \* Another that shared the name would have left a trace in users.
  <2>2. db[w] # n
    BY <2>1 DEF SqliteInv, HandlesAreHistory, Alone
  <2> QED
    BY <2>1, <2>2 DEF SqliteInv, OpenedIsConnected
<1> QED
  BY <1>2, <1>3, <1>4, <1>5 DEF SqliteInv

\* A claim is made of a statement that reached the file alone and was accepted.
LEMMA ClaimReachesFile ==
  ASSUME SqliteInv, NEW w \in Wrappers, NEW row \in Rows, NEW f \in Files,
         0 \in Returned(w, row), row # Null, Alone(w, db[w], f)
  PROVE  f \in Reached(w) \cap accepting
<1>1. db[w] # Null /\ db[w] \in Names
  BY FailedIsNotZero DEF Returned, SqliteInv, SqliteTypeOK
<1>2. db[w] \in isOpen /\ registry[db[w]] = f
  BY <1>1 DEF SqliteInv, OpenedIsConnected
<1>3. f \in Reached(w)
  BY <1>1, <1>2 DEF Reached
<1>4. Reached(w) \subseteq accepting
  BY <1>1, <1>3, FailedIsNotZero DEF Returned
<1> QED
  BY <1>3, <1>4

LEMMA QueryKeepsInv ==
  ASSUME SqliteInv, NEW w \in Wrappers, NEW row, row = Null \/ row \in Rows, NEW ret,
         Query(w, row, ret)
  PROVE  SqliteInv'
<1> USE DEF Query, handles, usage
<1>1. SqliteTypeOK /\ ClaimsTyped
  BY DEF SqliteInv
<1>2. \A f \in Files :
        rows'[f] = IF row # Null /\ f \in Reached(w) \cap accepting
                   THEN Append(rows[f], row) ELSE rows[f]
  OBVIOUS
<1>3. SqliteTypeOK'
  <2>1. ASSUME NEW f \in Files PROVE rows'[f] \in Seq(Rows)
    BY <1>1, <1>2, AppendKeepsRows DEF SqliteTypeOK
  <2> QED
    BY <1>1, <2>1 DEF SqliteTypeOK
<1>4. ClaimsTyped'
  BY <1>1 DEF ClaimsTyped
<1>5. TableIsHistory' /\ HandlesAreHistory' /\ OpenedIsConnected'
  BY DEF SqliteInv, TableIsHistory, HandlesAreHistory, OpenedIsConnected, Alone
<1>6. ClaimedIsStored'
  <2> SUFFICES ASSUME NEW c \in claimed'
               PROVE  \E i \in DOMAIN rows'[c[1]] : rows'[c[1]][i] = c[2]
    BY DEF ClaimedIsStored
  <2>1. CASE c \in claimed
    <3> DEFINE before == rows[c[1]]
               after == rows'[c[1]]
               x == c[2]
    <3>1. before \in Seq(Rows) /\ \E i \in DOMAIN before : before[i] = x
      BY <1>1, <2>1 DEF ClaimsTyped, SqliteTypeOK, SqliteInv, ClaimedIsStored
    <3>2. after = before \/ (row \in Rows /\ after = Append(before, row))
      BY <1>1, <1>2, <2>1 DEF ClaimsTyped
    <3> HIDE DEF before, after, x
    <3>3. \E i \in DOMAIN after : after[i] = x
      BY <3>1, <3>2, AppendKeepsRows
    <3> QED
      BY <3>3 DEF after, x
  <2>2. CASE c \notin claimed
    <3>1. PICK f \in Files :
            c = <<f, row>> /\ ret = 0 /\ row # Null /\ Alone(w, db[w], f)
      BY <2>2
    <3>2. f \in Reached(w) \cap accepting
      BY <3>1, ClaimReachesFile
    <3>3. rows'[f] = Append(rows[f], row) /\ rows[f] \in Seq(Rows) /\ row \in Rows
      BY <1>1, <1>2, <3>1, <3>2 DEF SqliteTypeOK
    <3> QED
      BY <3>1, <3>3, AppendKeepsRows
  <2> QED
    BY <2>1, <2>2
<1> QED
  BY <1>3, <1>4, <1>5, <1>6 DEF SqliteInv

\* A step that leaves the table, the history and the rows alone.
LEMMA NothingOfWrapper ==
  ASSUME SqliteInv, UNCHANGED <<handles, rows, usage, claimed>>
  PROVE  SqliteInv'
BY DEF SqliteInv, SqliteTypeOK, ClaimsTyped, TableIsHistory, HandlesAreHistory,
       OpenedIsConnected, ClaimedIsStored, Alone, handles, usage

-----------------------------------------------------------------------------
\* The tool: it is Tool, alone in its process.

\* The invariant holds at first, and each action keeps it.
LEMMA InvInit == Init => Inv
<1> SUFFICES ASSUME Init PROVE Inv
  OBVIOUS
<1> USE DEF Init, SqliteInit
<1>1. SqliteTypeOK /\ ClaimsTyped
  <2>1. <<>> \in Seq(Rows)
    OBVIOUS
  <2> QED
    BY <2>1 DEF SqliteTypeOK, ClaimsTyped
<1>2. TableIsHistory /\ HandlesAreHistory /\ ClaimedIsStored
  BY DEF TableIsHistory, HandlesAreHistory, ClaimedIsStored
<1>3. OpenedIsConnected
  BY SqliteAssumption DEF OpenedIsConnected
<1>4. ToolInv /\ RecordedOnce
  BY RecorderAssumption DEF ToolInv, ToolConnected, RecordedOnce
<1> QED
  BY <1>1, <1>2, <1>3, <1>4 DEF Inv, SqliteInv

\* What the tool's connection reaches, once it has one.
LEMMA ToolReaches ==
  ASSUME SqliteInv, ToolConnected, db[Tool] # Null
  PROVE  Reached(Tool) = {Produccion}
BY RecorderAssumption DEF ToolConnected, Reached

LEMMA OpenDatabaseKeepsInv == Inv /\ OpenDatabase => Inv'
<1> SUFFICES ASSUME Inv, OpenDatabase PROVE Inv'
  OBVIOUS
<1>1. PICK works \in BOOLEAN : Open(Tool, Produccion, DebugName, works)
  BY DEF OpenDatabase
<1>2. tpc = "open" /\ tpc' = "select" /\ rows' = rows
  BY <1>1 DEF OpenDatabase, Open
<1>3. SqliteInv'
  BY <1>1, OpenKeepsInv, RecorderAssumption DEF Inv
<1>4. db[Tool] = Null /\ registry[DebugName] = Null /\ SqliteTypeOK
  BY <1>2 DEF Inv, ToolInv, SqliteInv
<1>5. ToolConnected'
  BY <1>1, <1>4, RecorderAssumption
     DEF Open, ConnectionName, AddDatabase, SqliteTypeOK, ToolConnected
<1>6. ToolInv'
  BY <1>2, <1>5 DEF ToolInv
<1>7. RecordedOnce'
  BY <1>2 DEF Inv, RecordedOnce
<1> QED
  BY <1>3, <1>6, <1>7 DEF Inv

LEMMA SelectAllKeepsInv == Inv /\ SelectAll => Inv'
<1> SUFFICES ASSUME Inv, SelectAll PROVE Inv'
  OBVIOUS
<1>1. PICK ret \in {0, Failed} :
        Query(Tool, Null, ret) /\ tpc' = IF ret = 0 THEN "insert" ELSE "quit"
  BY DEF SelectAll
<1>2. tpc = "select" /\ ToolConnected /\ db' = db /\ registry' = registry /\ isOpen' = isOpen
  BY <1>1 DEF SelectAll, Inv, ToolInv, Query, handles
<1>3. SqliteInv'
  BY <1>1, QueryKeepsInv, RecorderAssumption DEF Inv
<1>4. ret = 0 => db[Tool] # Null
  BY <1>1, FailedIsNotZero DEF Query, Returned
<1>5. rows' = rows
  <2>1. rows' = [f \in Files |-> rows[f]]
    BY <1>1 DEF Query
  <2> QED
    BY <2>1 DEF Inv, SqliteInv, SqliteTypeOK
<1>6. ToolInv'
  BY <1>1, <1>2, <1>4 DEF ToolInv, ToolConnected
<1>7. RecordedOnce'
  BY <1>1, <1>2, <1>5 DEF Inv, RecordedOnce
<1> QED
  BY <1>3, <1>6, <1>7 DEF Inv

LEMMA InsertRecordKeepsInv == Inv /\ InsertRecord => Inv'
<1> SUFFICES ASSUME Inv, InsertRecord PROVE Inv'
  OBVIOUS
<1> DEFINE row == Row(queue_data)
<1>1. PICK ret \in {0, Failed} :
        Query(Tool, row, ret) /\ tpc' = IF ret = 0 THEN "done" ELSE "insert"
  BY DEF InsertRecord
<1>2. /\ tpc = "insert" /\ ToolConnected /\ db[Tool] # Null
      /\ db' = db /\ registry' = registry /\ isOpen' = isOpen
  BY <1>1 DEF InsertRecord, Inv, ToolInv, Query, handles
<1>3. row \in Rows /\ row # Null /\ row = Expected
  BY RecordAssumption, RowIsExpected DEF Rows
<1> HIDE DEF row
<1>4. SqliteInv'
  BY <1>1, <1>3, QueryKeepsInv, RecorderAssumption DEF Inv
<1>5. Reached(Tool) = {Produccion}
  BY <1>2, ToolReaches DEF Inv
<1>6. rows[Produccion] = <<>>
  BY <1>2 DEF Inv, RecordedOnce
\* The statement fails exactly when the file does not accept the row.
<1>7. rows'[Produccion] = IF ret = 0 THEN <<Expected>> ELSE <<>>
  <2>1. ret = 0 <=> Produccion \in accepting
    BY <1>1, <1>2, <1>3, <1>5, FailedIsNotZero DEF Query, Returned
  <2>2. rows'[Produccion] = IF Produccion \in accepting
                            THEN Append(rows[Produccion], row) ELSE rows[Produccion]
    BY <1>1, <1>3, <1>5, RecorderAssumption DEF Query
  <2>3. Append(<<>>, Expected) = <<Expected>>
    OBVIOUS
  <2> QED
    BY <1>3, <1>6, <2>1, <2>2, <2>3
<1>8. ToolInv'
  BY <1>1, <1>2 DEF ToolInv, ToolConnected
<1>9. RecordedOnce'
  BY <1>1, <1>2, <1>7 DEF RecordedOnce
<1> QED
  BY <1>4, <1>8, <1>9 DEF Inv

LEMMA QuitKeepsInv == Inv /\ Quit => Inv'
<1> SUFFICES ASSUME Inv, Quit PROVE Inv'
  OBVIOUS
<1>1. tpc = "quit" /\ tpc' = "ended" /\ rows' = rows
  BY DEF Quit, Close, sqlite
<1>2. SqliteInv'
  <2>1. CASE Close(Tool)
    BY <2>1, CloseKeepsInv, RecorderAssumption DEF Inv
  <2>2. CASE UNCHANGED sqlite
    BY <2>2, NothingOfWrapper DEF Inv, sqlite
  <2> QED
    BY <2>1, <2>2 DEF Quit
<1>3. ToolInv' /\ RecordedOnce'
  BY <1>1 DEF Inv, ToolInv, RecordedOnce
<1> QED
  BY <1>2, <1>3 DEF Inv

LEMMA OtherKeepsInv == Inv /\ Other => Inv'
<1> SUFFICES ASSUME Inv, Other PROVE Inv'
  OBVIOUS
<1>1. tpc = "absent" /\ tpc' = "absent"
  BY DEF Other
<1>2. PICK w \in Wrappers :
       \/ \E f \in Files, n \in Names, works \in BOOLEAN : Open(w, f, n, works)
       \/ OpenAgain(w) \/ Close(w)
       \/ \E ret \in {0, Failed} : Query(w, w, ret)
  BY DEF Other
<1>3. SqliteInv'
  <2>1. CASE \E f \in Files, n \in Names, works \in BOOLEAN : Open(w, f, n, works)
    BY <2>1, OpenKeepsInv DEF Inv
  <2>2. CASE OpenAgain(w)
    BY <2>2, NothingOfWrapper DEF Inv, OpenAgain, sqlite
  <2>3. CASE Close(w)
    BY <2>3, CloseKeepsInv DEF Inv
  <2>4. CASE \E ret \in {0, Failed} : Query(w, w, ret)
    <3>1. w \in Rows
      BY DEF Rows
    <3> QED
      BY <2>4, <3>1, QueryKeepsInv DEF Inv
  <2> QED
    BY <1>2, <2>1, <2>2, <2>3, <2>4
<1>4. ToolInv' /\ RecordedOnce'
  BY <1>1 DEF ToolInv, RecordedOnce
<1> QED
  BY <1>3, <1>4 DEF Inv

LEMMA EnvironmentKeepsInv == Inv /\ Environment => Inv'
<1> SUFFICES ASSUME Inv, NEW f \in Files, Accept(f), UNCHANGED tpc PROVE Inv'
  BY DEF Environment
<1>1. UNCHANGED <<handles, rows, usage, claimed>>
  BY DEF Accept
<1>2. SqliteInv'
  BY <1>1, NothingOfWrapper DEF Inv
<1>3. ToolInv' /\ RecordedOnce'
  BY <1>1 DEF Inv, ToolInv, ToolConnected, RecordedOnce, handles
<1> QED
  BY <1>2, <1>3 DEF Inv

LEMMA InvStep == Inv /\ [Next]_vars => Inv'
<1> SUFFICES ASSUME Inv, [Next]_vars PROVE Inv'
  OBVIOUS
<1>1. CASE OpenDatabase
  BY <1>1, OpenDatabaseKeepsInv
<1>2. CASE SelectAll
  BY <1>2, SelectAllKeepsInv
<1>3. CASE InsertRecord
  BY <1>3, InsertRecordKeepsInv
<1>4. CASE Quit
  BY <1>4, QuitKeepsInv
<1>5. CASE Other
  BY <1>5, OtherKeepsInv
<1>6. CASE Environment
  BY <1>6, EnvironmentKeepsInv
<1>7. CASE UNCHANGED vars
  <2>1. UNCHANGED <<handles, rows, usage, claimed>> /\ tpc' = tpc
    BY <1>7 DEF vars, sqlite
  <2>2. SqliteInv'
    BY <2>1, NothingOfWrapper DEF Inv
  <2>3. ToolInv' /\ RecordedOnce'
    BY <2>1 DEF Inv, ToolInv, ToolConnected, RecordedOnce, handles
  <2> QED
    BY <2>2, <2>3 DEF Inv
<1> QED
  BY <1>1, <1>2, <1>3, <1>4, <1>5, <1>6, <1>7 DEF Next, Debug

-----------------------------------------------------------------------------
\* The theorems.

\* However wrappers are opened, closed and used, and whatever Qt remembers of
\* their names, each invariant below holds.
THEOREM InvAlways == Spec => []Inv
BY InvInit, InvStep, PTL DEF Spec

\* A wrapper that open returned 0 to is connected to the file it asked for,
\* while it alone uses its connection name, for that file only
\* (Tux_sqlite::open, Tux_sqlite::close).
THEOREM OpenedIsConnectedAlways == Spec => []OpenedIsConnected
<1>1. Inv => OpenedIsConnected
  BY DEF Inv, SqliteInv
<1> QED
  BY <1>1, InvAlways, PTL

\* A statement that query reported as done is stored, and stays stored
\* (Tux_sqlite::query).
THEOREM ClaimedIsStoredAlways == Spec => []ClaimedIsStored
<1>1. Inv => ClaimedIsStored
  BY DEF Inv, SqliteInv
<1> QED
  BY <1>1, InvAlways, PTL

\* The loop of the debug tool stores its record once, with every field in its
\* column, however often the insert has failed before (main of debug).
THEOREM RecordedOnceAlways == Spec => []RecordedOnce
<1>1. Inv => RecordedOnce
  BY DEF Inv
<1> QED
  BY <1>1, InvAlways, PTL

\* The loop is not entered without a database, although main does not look at
\* what open returned (main of debug).
THEOREM InsertsIntoOpenDatabaseAlways == Spec => []InsertsIntoOpenDatabase
<1>1. Inv => InsertsIntoOpenDatabase
  BY DEF Inv, ToolInv, ToolConnected, InsertsIntoOpenDatabase
<1> QED
  BY <1>1, InvAlways, PTL
=============================================================================
