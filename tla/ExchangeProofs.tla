--------------------------- MODULE ExchangeProofs ---------------------------
(***************************************************************************)
(* Exchange is type correct, and a ConnectedSend that returns an intact    *)
(* reply returns its own (OwnReply), for every size of the drain buffer,   *)
(* every modulus of the packet counter, every set of reply sizes and       *)
(* statuses, with and without MSG_WAITALL, and any number of calls.        *)
(***************************************************************************)
EXTENDS Exchange, TLAPS

-----------------------------------------------------------------------------
\* Arithmetic of the packet counter.

LEMMA ModType ==
  ASSUME NEW m \in Nat \ {0}, NEW a \in Nat
  PROVE  a % m \in Nat
  BY SMT

LEMMA DivMod ==
  ASSUME NEW m \in Nat \ {0}, NEW a \in Nat
  PROVE  a \div m \in Int /\ a = m * (a \div m) + (a % m)
  BY SMT

LEMMA NoMultipleBetween ==
  ASSUME NEW m \in Nat \ {0}, NEW q \in Int, NEW p \in Int,
         m * p - m * q < m, m * p - m * q >= 0
  PROVE  p = q
<1>1. m * (p - q) = m * p - m * q
  BY SMT
<1>2. CASE p - q >= 1
  <2>1. m * (p - q) >= m
    BY <1>2, SMT
  <2> QED BY <2>1, <1>1, SMT
<1>3. CASE p - q <= -1
  <2>1. m * (p - q) <= -m
    BY <1>3, SMT
  <2> QED BY <2>1, <1>1, SMT
<1> QED BY <1>2, <1>3, SMT

\* Two numbers less than m apart with the same remainder are equal: why the
\* packet number identifies a request unless a reply is m requests late.
LEMMA SameRemainder ==
  ASSUME NEW m \in Nat \ {0}, NEW a \in Nat, NEW b \in Nat,
         a <= b, b < a + m, a % m = b % m
  PROVE  a = b
<1> DEFINE q == a \div m
           p == b \div m
           r == a % m
<1>1. q \in Int /\ p \in Int /\ r \in Nat
  BY DivMod, SMT
<1>2. a = m * q + r /\ b = m * p + r
  BY DivMod
<1>3. m * q \in Int /\ m * p \in Int
  BY <1>1, SMT
<1> HIDE DEF q, p, r
<1>4. m * p - m * q < m /\ m * p - m * q >= 0
  BY <1>1, <1>2, <1>3, SMT
<1>5. p = q
  BY <1>1, <1>4, NoMultipleBetween
<1> QED BY <1>2, <1>5

-----------------------------------------------------------------------------
\* Pieces of the byte stream: every cell of what is left was there before.

LEMMA DroppedCells ==
  ASSUME NEW S, NEW s \in Seq(S), NEW k \in Nat
  PROVE  /\ Dropped(s, k) \in Seq(S)
         /\ \A i \in DOMAIN Dropped(s, k) :
              \E j \in DOMAIN s : Dropped(s, k)[i] = s[j]
  BY SMT DEF Dropped

LEMMA PrefixCells ==
  ASSUME NEW S, NEW s \in Seq(S), NEW k \in 0 .. Len(s)
  PROVE  /\ SubSeq(s, 1, k) \in Seq(S)
         /\ \A i \in DOMAIN SubSeq(s, 1, k) :
              \E j \in DOMAIN s : SubSeq(s, 1, k)[i] = s[j]
  BY SMT

LEMMA TailCells ==
  ASSUME NEW S, NEW s \in Seq(S), s # << >>
  PROVE  /\ Tail(s) \in Seq(S) /\ Head(s) \in S
         /\ 1 \in DOMAIN s /\ Head(s) = s[1]
         /\ \A i \in DOMAIN Tail(s) : \E j \in DOMAIN s : Tail(s)[i] = s[j]
  BY SMT

LEMMA AppendCells ==
  ASSUME NEW S, NEW s \in Seq(S), NEW e \in S
  PROVE  /\ Append(s, e) \in Seq(S)
         /\ \A i \in DOMAIN Append(s, e) :
              Append(s, e)[i] = e \/ \E j \in DOMAIN s : Append(s, e)[i] = s[j]
  BY SMT

LEMMA ConcatCells ==
  ASSUME NEW S, NEW s \in Seq(S), NEW t \in Seq(S)
  PROVE  /\ s \o t \in Seq(S)
         /\ \A i \in DOMAIN (s \o t) :
              \/ \E j \in DOMAIN s : (s \o t)[i] = s[j]
              \/ \E j \in DOMAIN t : (s \o t)[i] = t[j]
  BY SMT

\* The cells of one reply.
LEMMA ReplyCells ==
  ASSUME NEW reply \in Reply, NEW n, n = reply.size
  PROVE  /\ [i \in 1 .. n |-> [of |-> reply, off |-> i]] \in Seq(Cell)
         /\ DOMAIN [i \in 1 .. n |-> [of |-> reply, off |-> i]] = 1 .. n
<1>1. n \in Nat
  BY SMT DEF Reply
<1>2. \A i \in 1 .. n : [of |-> reply, off |-> i] \in Cell
  BY <1>1, SMT DEF Cell
<1> QED BY <1>1, <1>2, SMT

\* What a short read leaves of a header is of the same reply.
LEMMA RestCells ==
  ASSUME NEW s \in Seq(Cell), s # << >>
  PROVE  /\ [s EXCEPT ![1] = Rest(@)] \in Seq(Cell)
         /\ Len([s EXCEPT ![1] = Rest(@)]) = Len(s)
         /\ DOMAIN [s EXCEPT ![1] = Rest(@)] = DOMAIN s
         /\ 1 \in DOMAIN s /\ [s EXCEPT ![1] = Rest(@)][1] = Rest(s[1])
         /\ \A i \in DOMAIN s : [s EXCEPT ![1] = Rest(@)][i].of = s[i].of
         /\ \A i \in DOMAIN s \ {1} : [s EXCEPT ![1] = Rest(@)][i] = s[i]
<1>1. 1 \in DOMAIN s /\ s[1] \in Cell /\ Len(s) \in Nat
  BY SMT
<1>2. Rest(s[1]) \in Cell /\ Rest(s[1]).of = s[1].of
  BY <1>1, SMT DEF Rest, Cell, Reply
<1> DEFINE t == [s EXCEPT ![1] = Rest(@)]
<1>3. t[1] = Rest(s[1]) /\ DOMAIN t = DOMAIN s /\ \A i \in DOMAIN s \ {1} : t[i] = s[i]
  BY <1>1
<1>4. t \in Seq(Cell) /\ Len(t) = Len(s)
  BY <1>1, <1>2, SMT
<1> QED BY <1>1, <1>2, <1>3, <1>4

-----------------------------------------------------------------------------
\* What a call's end can change.

LEMMA VerdictsType ==
  ASSUME NEW reply
  PROVE  Verdicts(reply) \in SUBSET BOOLEAN
  BY DEF Verdicts, Accepts

\* What the end of a call leaves behind, as far as types go.
FinishedOK ==
  /\ result \in [req : Request, reply : Reply \cup {NoReply}, ok : BOOLEAN]
  /\ failed \in BOOLEAN /\ pc = "idle" /\ hdr = NoReply /\ need = 0
  /\ gens \in Nat /\ conn \in Nat /\ packet \in Nat /\ count \in Nat

LEMMA FinishType ==
  ASSUME TypeOK, NEW reply \in Reply \cup {NoReply},
         NEW verdicts \in SUBSET BOOLEAN, Finish(reply, verdicts)
  PROVE  FinishedOK'
<1>1. PICK ok \in verdicts :
        /\ result' = [req |-> req, reply |-> reply, ok |-> ok]
        /\ failed' = (failed \/ ~ok)
  BY DEF Finish
<1>2. ok \in BOOLEAN
  BY <1>1
<1>3. result' \in [req : Request, reply : Reply \cup {NoReply}, ok : BOOLEAN]
  BY <1>1, <1>2 DEF TypeOK
<1>4. failed' \in BOOLEAN
  BY <1>1
<1> QED BY <1>3, <1>4, SMT DEF Finish, FinishedOK, TypeOK

-----------------------------------------------------------------------------
\* Type correctness.

LEMMA TypeInit == Init => TypeOK
<1> SUFFICES ASSUME Init PROVE TypeOK
  OBVIOUS
<1>1. req \in Request
  BY SMT DEF Init, Request, AllOps
<1>2. result \in [req : Request, reply : Reply \cup {NoReply}, ok : BOOLEAN]
  BY <1>1, Zenon DEF Init
<1>3. failed \in BOOLEAN
  BY DEF Init
<1> QED BY <1>1, <1>2, <1>3, SMT DEF Init, TypeOK

LEMMA TypeNext == TypeOK /\ [Next]_vars => TypeOK'
<1> SUFFICES ASSUME TypeOK, [Next]_vars PROVE TypeOK'
  OBVIOUS
<1> USE ExchangeAssumption
<1>1. ASSUME NEW op \in Ops, Call(op) PROVE TypeOK'
  <2>1. (count + 1) % PacketMod \in Nat
    BY ModType, SMT DEF TypeOK
  <2>2. req' \in Request
    BY <1>1, SMTT(60) DEF Call, TypeOK, Request
  <2>3. packet' \in Nat /\ count' \in Nat /\ calls' \in Nat
    BY <1>1, <2>1, SMT DEF Call, TypeOK
  <2> QED BY <1>1, <2>2, <2>3, SMT DEF Call, TypeOK, stream
<1>2. CASE OpenSession
  <2>1. failed' \in BOOLEAN
    BY <1>2 DEF OpenSession
  <2> QED BY <1>2, <2>1, SMT DEF OpenSession, TypeOK, connection, stream
<1>3. CASE CloseSession
  BY <1>3, SMT DEF CloseSession, TypeOK, client, connection
<1>4. CASE EmptyBuffer
  <2>1. rx' \in Seq(Cell)
    BY <1>4, DroppedCells DEF EmptyBuffer, TypeOK
  <2> QED BY <1>4, <2>1, SMT DEF EmptyBuffer, TypeOK, connection
<1>5. CASE SendRequest
  <2>1. rx' \in Seq(Cell)
    BY <1>5, DroppedCells DEF SendRequest, TypeOK
  <2>2. pending' \in SUBSET Request
    BY <1>5 DEF SendRequest, TypeOK
  <2>3. [req |-> req, reply |-> NoReply, ok |-> TRUE]
          \in [req : Request, reply : Reply \cup {NoReply}, ok : BOOLEAN]
    BY Zenon DEF TypeOK
  <2>4. result' \in [req : Request, reply : Reply \cup {NoReply}, ok : BOOLEAN]
    BY <1>5, <2>3 DEF SendRequest, TypeOK
  <2> QED BY <1>5, <2>1, <2>2, <2>4, SMT DEF SendRequest, TypeOK, connection
<1>6. CASE SendFails
  <2>1. rx' \in Seq(Cell)
    BY <1>6, DroppedCells DEF SendFails, TypeOK
  <2>2. CASE Finish(NoReply, {FALSE})
    <3>1. FinishedOK'
      BY <2>2, FinishType, Zenon
    <3> QED BY <1>6, <2>1, <3>1, SMT DEF SendFails, TypeOK, FinishedOK
  <2>3. CASE pc' = "select" /\ UNCHANGED <<hdr, need, result, failed, connection>>
    BY <1>6, <2>1, <2>3, SMT DEF SendFails, TypeOK, connection
  <2> QED BY <1>6, <2>2, <2>3 DEF SendFails
<1>6a. CASE SendKills
  BY <1>6a, SMT DEF SendKills, TypeOK, connection
<1>7. CASE RecvTimeout
  <2>1. FinishedOK'
    BY <1>7, FinishType, Zenon DEF RecvTimeout
  <2> QED BY <1>7, <2>1, SMT DEF RecvTimeout, TypeOK, FinishedOK, stream
<1>8. CASE RecvHeader
  <2>1. Head(rx) \in Cell /\ rx' \in Seq(Cell)
    BY <1>8, TailCells DEF RecvHeader, TypeOK
  <2>2. Head(rx).of \in Reply /\ Head(rx).of.size - 1 \in Nat
    BY <2>1, SMT DEF Cell, Reply
  <2>3. hdr' \in Reply \cup {NoReply} /\ need' \in Nat
    BY <1>8, <2>2, SMT DEF RecvHeader
  <2> QED BY <1>8, <2>1, <2>3, SMT DEF RecvHeader, TypeOK, connection
<1>8a. CASE RecvPartOfHeader
  <2>1. Head(rx) \in Cell /\ rx' \in Seq(Cell)
    BY <1>8a, TailCells, RestCells DEF RecvPartOfHeader, TypeOK
  <2>2. Head(rx).of.size - 1 \in Nat
    BY <2>1, SMT DEF Cell, Reply
  <2>3. need' \in Nat
    BY <1>8a, <2>2, SMT DEF RecvPartOfHeader
  <2> QED BY <1>8a, <2>1, <2>3, SMT DEF RecvPartOfHeader, TypeOK, connection
<1>9. CASE RecvHeaderAtEof
  <2>1. FinishedOK'
    BY <1>9, FinishType, Zenon DEF RecvHeaderAtEof
  <2> QED BY <1>9, <2>1, SMT DEF RecvHeaderAtEof, TypeOK, FinishedOK, stream
<1>10. CASE RecvBody
  <2>1. rx' \in Seq(Cell)
    BY <1>10, DroppedCells DEF RecvBody, TypeOK
  <2>2. hdr \in Reply \cup {NoReply}
    BY DEF TypeOK
  <2>3. FinishedOK'
    BY <1>10, <2>2, FinishType, VerdictsType DEF RecvBody
  <2> QED BY <1>10, <2>1, <2>3, SMT DEF RecvBody, TypeOK, FinishedOK
<1>11. CASE RecvShortBody
  <2>1. FinishedOK'
    BY <1>11, FinishType, Zenon DEF RecvShortBody
  <2> QED BY <1>11, <2>1, SMT DEF RecvShortBody, TypeOK, FinishedOK
<1>12. CASE Answer
  <2>1. PICK r \in pending, s \in Sizes, st \in Statuses :
          /\ wire' = wire \o [i \in 1 .. s |->
                        [of |-> [to |-> r, size |-> s, status |-> st], off |-> i]]
          /\ pending' = pending \ {r}
    BY <1>12 DEF Answer
  <2>2. [to |-> r, size |-> s, status |-> st] \in Reply /\ s \in Nat
    BY SMT DEF Reply, TypeOK
  <2>3. wire' \in Seq(Cell)
    BY <2>1, <2>2, ReplyCells, ConcatCells DEF TypeOK
  <2> QED BY <1>12, <2>1, <2>3, SMT DEF Answer, TypeOK, client, connection
<1>13. CASE Arrive
  <2>1. Head(wire) \in Cell /\ wire' \in Seq(Cell)
    BY <1>13, TailCells DEF Arrive, TypeOK
  <2>2. rx' \in Seq(Cell)
    BY <1>13, <2>1, AppendCells DEF Arrive, TypeOK
  <2> QED BY <1>13, <2>1, <2>2, SMT DEF Arrive, TypeOK, client, connection
<1>14. CASE PeerClose
  <2>1. wire' \in Seq(Cell)
    BY <1>14, PrefixCells DEF PeerClose, TypeOK
  <2> QED BY <1>14, <2>1, SMT DEF PeerClose, TypeOK, client, connection
<1>15. CASE UNCHANGED vars
  BY <1>15, SMT DEF TypeOK, vars, client, connection, stream
<1> QED BY <1>1, <1>2, <1>3, <1>4, <1>5, <1>6, <1>6a, <1>7, <1>8, <1>8a, <1>9,
           <1>10, <1>11, <1>12, <1>13, <1>14, <1>15 DEF Next, InCall

\* The state of an exchange is always well formed: every cell in the stream
\* belongs to a reply, every reply to a request (SendData.c, Ethernet_IP.c).
THEOREM TypeCorrect == Spec => []TypeOK
<1>1. Init => TypeOK
  BY TypeInit
<1>2. TypeOK /\ [Next]_vars => TypeOK'
  BY TypeNext
<1> QED BY <1>1, <1>2, PTL DEF Spec

-----------------------------------------------------------------------------
\* OwnReply.  The inductive invariant says that no request anywhere between
\* client and target is younger than the counters: it belongs to a connection
\* made so far, and on the newest one has a number handed out so far.  A reply
\* with the packet number of the request in progress is then the reply to it,
\* or a whole number of turns of the counter older.

IssuedBy(r, g, c) ==
  r.conn <= g /\ (r.op = "ConnectedSend" /\ r.conn = g => r.n <= c)

CellsIssuedBy(s, g, c) == \A i \in DOMAIN s : IssuedBy(s[i].of.to, g, c)

\* Every request still on its way, in a buffer or in hand has been issued.
AllIssued ==
  /\ IssuedBy(req, gens, count)
  /\ \A r \in pending : IssuedBy(r, gens, count)
  /\ CellsIssuedBy(wire, gens, count)
  /\ CellsIssuedBy(rx, gens, count)
  /\ hdr # NoReply => IssuedBy(hdr.to, gens, count)

\* The connected request in progress is the newest one.
RequestIsNewest ==
  pc # "idle" /\ req.op = "ConnectedSend"
    => req.conn = gens /\ req.n = count /\ packet = count % PacketMod

PacketInv ==
  /\ TypeOK
  /\ conn \in {0, gens}
  /\ AllIssued
  /\ RequestIsNewest
  /\ OwnReply

LEMMA IssuedGrows ==
  ASSUME NEW r \in Request, NEW g \in Nat, NEW c \in Nat,
         NEW h \in Nat, NEW d \in Nat,
         (h = g /\ d >= c) \/ h = g + 1,
         IssuedBy(r, g, c)
  PROVE  IssuedBy(r, h, d)
  BY SMT DEF IssuedBy, Request

\* A stream made of cells of a stream that was fine.
LEMMA CellsGrow ==
  ASSUME NEW s \in Seq(Cell), NEW t \in Seq(Cell),
         \A i \in DOMAIN t : \E j \in DOMAIN s : t[i] = s[j],
         NEW g \in Nat, NEW c \in Nat, NEW h \in Nat, NEW d \in Nat,
         (h = g /\ d >= c) \/ h = g + 1,
         CellsIssuedBy(s, g, c)
  PROVE  CellsIssuedBy(t, h, d)
<1> SUFFICES ASSUME NEW i \in DOMAIN t PROVE IssuedBy(t[i].of.to, h, d)
  BY DEF CellsIssuedBy
<1>1. PICK j \in DOMAIN s : t[i] = s[j]
  OBVIOUS
<1>2. s[j].of.to \in Request
  <2>1. s[j] \in Cell
    OBVIOUS
  <2> QED BY <2>1, SMT DEF Cell, Reply
<1>3. IssuedBy(s[j].of.to, g, c)
  BY DEF CellsIssuedBy
<1> QED BY <1>1, <1>2, <1>3, IssuedGrows

LEMMA ConcatIssued ==
  ASSUME NEW s \in Seq(Cell), NEW t \in Seq(Cell), NEW g, NEW c,
         CellsIssuedBy(s, g, c), CellsIssuedBy(t, g, c)
  PROVE  CellsIssuedBy(s \o t, g, c)
  BY ConcatCells DEF CellsIssuedBy

\* The core of the argument: what a ConnectedSend accepts.
LEMMA AcceptedIsOwn ==
  ASSUME PacketInv, pc # "idle", req.op = "ConnectedSend",
         hdr # NoReply, Accepts(hdr)
  PROVE  /\ hdr.to.op = "ConnectedSend"
         /\ \/ hdr.to = req
            \/ hdr.to.conn < req.conn
            \/ hdr.to.n + PacketMod <= req.n
<1> USE ExchangeAssumption
<1>1. hdr \in Reply /\ hdr.to \in Request /\ req \in Request
  BY DEF PacketInv, TypeOK, Reply
<1>2. Command(hdr) = "SendUnitData" /\ Packet(hdr) = packet
  BY SMT DEF Accepts, ConnectedAccepts, MROps, ListOps
<1>3. hdr.to.op = "ConnectedSend"
  BY <1>1, <1>2, SMT DEF Command, MROps, Request, AllOps
<1>4. req.conn = gens /\ req.n = count /\ hdr.to.n % PacketMod = count % PacketMod
  BY <1>2 DEF PacketInv, RequestIsNewest, Packet
<1>5. IssuedBy(hdr.to, gens, count) /\ gens \in Nat /\ count \in Nat
  BY DEF PacketInv, AllIssued, TypeOK
<1>6. hdr.to.conn \in Nat /\ hdr.to.n \in Nat
  BY <1>1 DEF Request
<1>7. ASSUME ~(hdr.to.conn < req.conn), ~(hdr.to.n + PacketMod <= req.n)
      PROVE  hdr.to = req
  <2>1. hdr.to.conn = gens /\ hdr.to.n <= count /\ count < hdr.to.n + PacketMod
    BY <1>3, <1>4, <1>5, <1>6, <1>7, SMTT(60) DEF IssuedBy
  <2>2. hdr.to.n = count
    BY <1>4, <1>5, <1>6, <2>1, SameRemainder
  <2>3. hdr.to.op = req.op /\ hdr.to.conn = req.conn /\ hdr.to.n = req.n
    BY <1>3, <1>4, <2>1, <2>2
  <2> QED BY <1>1, <2>3, SMT DEF Request
<1> QED BY <1>3, <1>7

\* The counters only move forward, and a new connection starts afresh.
CountersGrow ==
  /\ gens' \in Nat /\ count' \in Nat
  /\ (gens' = gens /\ count' >= count) \/ gens' = gens + 1

\* The end of a call keeps the invariant: a reply is judged only by the call
\* that read it.
LEMMA FinishKeeps ==
  ASSUME PacketInv, pc # "idle", NEW reply, NEW verdicts,
         Finish(reply, verdicts),
         reply = NoReply \/ (reply = hdr /\ verdicts = Verdicts(hdr))
  PROVE  /\ CountersGrow /\ conn' \in {0, gens'}
         /\ pc' = "idle" /\ hdr' = NoReply
         /\ OwnReply'
<1>1. PICK ok \in verdicts :
        result' = [req |-> req, reply |-> reply, ok |-> ok]
  BY DEF Finish
<1>2. CountersGrow /\ conn' \in {0, gens'}
  <2>1. gens \in Nat /\ count \in Nat /\ conn \in {0, gens}
    BY DEF PacketInv, TypeOK
  <2> QED BY <2>1, SMT DEF Finish, CountersGrow
<1>3. result'.req = req /\ result'.reply = reply /\ result'.ok = ok
  BY <1>1
<1>4. SUFFICES ASSUME ok, reply # NoReply, req.op = "ConnectedSend"
               PROVE  /\ reply.to.op = "ConnectedSend"
                      /\ \/ reply.to = req
                         \/ reply.to.conn < req.conn
                         \/ reply.to.n + PacketMod <= req.n
  BY <1>2, <1>3 DEF Finish, OwnReply
<1>5. reply = hdr /\ ok \in Verdicts(hdr)
  BY <1>4
<1>6. Verdicts(hdr) = {Accepts(hdr)}
  BY <1>4, <1>5, SMT DEF Verdicts, MROps
<1>7. Accepts(hdr)
  BY <1>4, <1>5, <1>6
<1> QED BY <1>4, <1>5, <1>7, AcceptedIsOwn

\* The requests of the stream stay issued when counters grow and no new
\* request or reply appears.
LEMMA OutstandingGrow ==
  ASSUME PacketInv, TypeOK', CountersGrow, req' = req,
         pending' \subseteq pending,
         \A i \in DOMAIN wire' : \E j \in DOMAIN wire : wire'[i] = wire[j],
         \A i \in DOMAIN rx' : \E j \in DOMAIN rx : rx'[i] = rx[j],
         hdr' \in {hdr, NoReply}
  PROVE  AllIssued'
<1>1. /\ gens \in Nat /\ count \in Nat /\ gens' \in Nat /\ count' \in Nat
      /\ (gens' = gens /\ count' >= count) \/ gens' = gens + 1
  BY DEF PacketInv, TypeOK, CountersGrow
<1>2. IssuedBy(req', gens', count')
  BY <1>1, IssuedGrows DEF PacketInv, TypeOK, AllIssued
<1>3. \A r \in pending' : IssuedBy(r, gens', count')
  <2> SUFFICES ASSUME NEW r \in pending' PROVE IssuedBy(r, gens', count')
    OBVIOUS
  <2>1. r \in Request /\ IssuedBy(r, gens, count)
    BY DEF PacketInv, TypeOK, AllIssued
  <2> QED BY <1>1, <2>1, IssuedGrows
<1>4. CellsIssuedBy(wire', gens', count')
  <2>1. wire \in Seq(Cell) /\ wire' \in Seq(Cell)
    BY DEF PacketInv, TypeOK
  <2> QED BY <1>1, <2>1, CellsGrow DEF PacketInv, AllIssued
<1>5. CellsIssuedBy(rx', gens', count')
  <2>1. rx \in Seq(Cell) /\ rx' \in Seq(Cell)
    BY DEF PacketInv, TypeOK
  <2> QED BY <1>1, <2>1, CellsGrow DEF PacketInv, AllIssued
<1>6. hdr' # NoReply => IssuedBy(hdr'.to, gens', count')
  <2> SUFFICES ASSUME hdr' # NoReply PROVE IssuedBy(hdr'.to, gens', count')
    OBVIOUS
  <2>1. hdr' = hdr /\ hdr.to \in Request /\ IssuedBy(hdr.to, gens, count)
    BY DEF PacketInv, TypeOK, AllIssued, Reply
  <2> QED BY <1>1, <2>1, IssuedGrows
<1> QED BY <1>2, <1>3, <1>4, <1>5, <1>6 DEF AllIssued

\* A step that neither begins nor ends a call and adds nothing to the stream.
LEMMA StreamOnly ==
  ASSUME PacketInv, TypeOK', UNCHANGED <<req, result, connection>>,
         pc # "idle" \/ pc' = "idle",
         pending' \subseteq pending,
         \A i \in DOMAIN wire' : \E j \in DOMAIN wire : wire'[i] = wire[j],
         \A i \in DOMAIN rx' : \E j \in DOMAIN rx : rx'[i] = rx[j],
         hdr' \in {hdr, NoReply}
  PROVE  PacketInv'
<1>1. CountersGrow /\ conn' \in {0, gens'}
  <2>1. gens \in Nat /\ count \in Nat /\ conn \in {0, gens}
    BY DEF PacketInv, TypeOK
  <2> QED BY <2>1, SMT DEF CountersGrow, connection
<1>2. AllIssued'
  BY <1>1, OutstandingGrow
<1>3. RequestIsNewest'
  BY DEF PacketInv, RequestIsNewest, connection
<1>4. OwnReply'
  BY DEF PacketInv, OwnReply
<1> QED BY <1>1, <1>2, <1>3, <1>4 DEF PacketInv

\* A step that ends a call.
LEMMA CallOver ==
  ASSUME PacketInv, TypeOK', pc # "idle", NEW reply, NEW verdicts,
         Finish(reply, verdicts),
         reply = NoReply \/ (reply = hdr /\ verdicts = Verdicts(hdr)),
         UNCHANGED <<req, pending, wire>>,
         \A i \in DOMAIN rx' : \E j \in DOMAIN rx : rx'[i] = rx[j]
  PROVE  PacketInv'
<1>1. /\ CountersGrow /\ conn' \in {0, gens'}
      /\ pc' = "idle" /\ hdr' = NoReply
      /\ OwnReply'
  BY FinishKeeps
<1>2. AllIssued'
  BY <1>1, OutstandingGrow
<1>3. RequestIsNewest'
  BY <1>1 DEF RequestIsNewest
<1> QED BY <1>1, <1>2, <1>3 DEF PacketInv

\* A call adds one request, as new as the counters; the others stay issued.
LEMMA CallKeeps ==
  ASSUME PacketInv, TypeOK', NEW op, Call(op),
         IssuedBy(req', gens', count'), RequestIsNewest',
         conn' \in {0, gens'}, gens' = gens, count' >= count
  PROVE  PacketInv'
<1>1. UNCHANGED <<hdr, result, pending, wire, rx>>
  BY DEF Call, stream
<1>2. /\ gens \in Nat /\ count \in Nat /\ gens' \in Nat /\ count' \in Nat
      /\ (gens' = gens /\ count' >= count) \/ gens' = gens + 1
  BY DEF PacketInv, TypeOK
<1>3. \A r \in pending' : IssuedBy(r, gens', count')
  <2> SUFFICES ASSUME NEW r \in pending PROVE IssuedBy(r, gens', count')
    BY <1>1
  <2>1. r \in Request /\ IssuedBy(r, gens, count)
    BY DEF PacketInv, TypeOK, AllIssued
  <2> QED BY <1>2, <2>1, IssuedGrows
<1>4. CellsIssuedBy(wire, gens', count') /\ CellsIssuedBy(rx, gens', count')
  <2>1. wire \in Seq(Cell) /\ rx \in Seq(Cell)
    BY DEF PacketInv, TypeOK
  <2>2. CellsIssuedBy(wire, gens, count) /\ CellsIssuedBy(rx, gens, count)
    BY DEF PacketInv, AllIssued
  <2>3. CellsIssuedBy(wire, gens', count')
    BY <1>2, <2>1, <2>2, CellsGrow
  <2>4. CellsIssuedBy(rx, gens', count')
    BY <1>2, <2>1, <2>2, CellsGrow
  <2> QED BY <2>3, <2>4
<1>5. hdr # NoReply => IssuedBy(hdr.to, gens', count')
  <2> SUFFICES ASSUME hdr # NoReply PROVE IssuedBy(hdr.to, gens', count')
    OBVIOUS
  <2>1. hdr.to \in Request /\ IssuedBy(hdr.to, gens, count)
    BY DEF PacketInv, TypeOK, AllIssued, Reply
  <2> QED BY <1>2, <2>1, IssuedGrows
<1>6. AllIssued'
  BY <1>1, <1>3, <1>4, <1>5 DEF AllIssued
<1>7. OwnReply'
  BY <1>1 DEF PacketInv, OwnReply
<1> QED BY <1>6, <1>7 DEF PacketInv

LEMMA PacketInit == Init => PacketInv
<1> SUFFICES ASSUME Init PROVE PacketInv
  OBVIOUS
<1>1. TypeOK
  BY TypeInit
<1>2. AllIssued
  BY SMT DEF Init, AllIssued, IssuedBy, CellsIssuedBy
<1>3. RequestIsNewest /\ conn \in {0, gens}
  BY DEF Init, RequestIsNewest
<1>4. OwnReply
  BY DEF Init, OwnReply
<1> QED BY <1>1, <1>2, <1>3, <1>4 DEF PacketInv

LEMMA PacketNext == PacketInv /\ [Next]_vars => PacketInv'
<1> SUFFICES ASSUME PacketInv, [Next]_vars PROVE PacketInv'
  OBVIOUS
<1> USE ExchangeAssumption
<1>0. TypeOK /\ TypeOK'
  BY TypeNext DEF PacketInv
<1>a. /\ wire \in Seq(Cell) /\ rx \in Seq(Cell)
      /\ gens \in Nat /\ count \in Nat /\ conn \in {0, gens}
      /\ pending \in SUBSET Request /\ req \in Request
  BY DEF PacketInv, TypeOK
<1>b. \A k \in Nat : \A i \in DOMAIN Dropped(rx, k) :
        \E j \in DOMAIN rx : Dropped(rx, k)[i] = rx[j]
  BY <1>a, DroppedCells
<1>1. ASSUME NEW op \in Ops, Call(op) PROVE PacketInv'
  <2>1. CASE op = "ConnectedSend"
    <3>1. /\ count' = count + 1 /\ gens' = gens /\ conn' = gens
          /\ packet' = (count + 1) % PacketMod
          /\ req' = [op |-> op, conn |-> gens, n |-> count + 1]
      <4>1. conn = gens
        BY <1>1, <2>1, <1>a DEF Call, Legal
      <4> QED BY <1>1, <2>1, <4>1 DEF Call
    <3>2. IssuedBy(req', gens', count') /\ RequestIsNewest'
      BY <3>1, <1>a, SMT DEF IssuedBy, RequestIsNewest
    <3>3. gens' = gens /\ count' >= count
      BY <3>1, <1>a, SMT
    <3> QED BY <3>1, <3>2, <3>3, <1>0, <1>1, <1>a, CallKeeps
  <2>2. CASE op # "ConnectedSend"
    <3>1. /\ count' = count /\ gens' = gens /\ conn' = conn
          /\ req' = [op |-> op, conn |-> conn, n |-> calls + 1]
      BY <1>1, <2>2 DEF Call
    <3>2. IssuedBy(req', gens', count') /\ RequestIsNewest'
      BY <3>1, <2>2, <1>a, SMT DEF IssuedBy, RequestIsNewest
    <3>3. gens' = gens /\ count' >= count
      BY <3>1, <1>a, SMT
    <3> QED BY <3>1, <3>2, <3>3, <1>0, <1>1, <1>a, CallKeeps
  <2> QED BY <2>1, <2>2
<1>2. CASE OpenSession
  BY <1>2, <1>0, StreamOnly DEF OpenSession, stream
<1>3. CASE CloseSession
  <2>1. \A i \in DOMAIN wire' : \E j \in DOMAIN wire : wire'[i] = wire[j]
    BY <1>3, SMT DEF CloseSession
  <2>2. \A i \in DOMAIN rx' : \E j \in DOMAIN rx : rx'[i] = rx[j]
    BY <1>3, SMT DEF CloseSession
  <2> QED BY <1>3, <1>0, <2>1, <2>2, StreamOnly DEF CloseSession, client
<1>4. CASE EmptyBuffer
  BY <1>4, <1>0, <1>b, StreamOnly DEF EmptyBuffer
<1>5. CASE SendRequest
  <2>1. \A r \in pending' : IssuedBy(r, gens, count)
    BY <1>5 DEF SendRequest, PacketInv, AllIssued
  <2>2. CellsIssuedBy(rx', gens, count)
    <3>1. rx' \in Seq(Cell) /\ DrainMax \in Nat /\ rx' = Dropped(rx, DrainMax)
      BY <1>5, <1>0 DEF SendRequest, TypeOK
    <3>2. \A i \in DOMAIN rx' : \E j \in DOMAIN rx : rx'[i] = rx[j]
      BY <3>1, <1>b
    <3>3. CellsIssuedBy(rx, gens, count) /\ count >= count
      BY <1>a, SMT DEF PacketInv, AllIssued
    <3> QED BY <1>a, <3>1, <3>2, <3>3, CellsGrow
  <2>3. AllIssued'
    BY <1>5, <2>1, <2>2 DEF SendRequest, PacketInv, AllIssued, connection
  <2>4. RequestIsNewest'
    BY <1>5 DEF SendRequest, PacketInv, RequestIsNewest, connection
  <2>5. OwnReply'
    BY <1>5 DEF SendRequest, PacketInv, OwnReply
  <2>6. conn' \in {0, gens'}
    BY <1>5, <1>a DEF SendRequest, connection
  <2> QED BY <1>0, <2>3, <2>4, <2>5, <2>6 DEF PacketInv
<1>6. CASE SendFails
  <2>0. rx' = Dropped(rx, DrainMax) /\ DrainMax \in Nat /\ pc # "idle"
        /\ UNCHANGED <<req, pending, wire>>
    BY <1>6 DEF SendFails
  <2>1. CASE Finish(NoReply, {FALSE})
    BY <2>0, <2>1, <1>0, <1>b, CallOver
  <2>2. CASE UNCHANGED <<hdr, need, result, failed, connection>>
    BY <2>0, <2>2, <1>0, <1>b, StreamOnly
  <2> QED BY <1>6, <2>1, <2>2 DEF SendFails
<1>6a. CASE SendKills
  <2>1. \A i \in DOMAIN wire' : \E j \in DOMAIN wire : wire'[i] = wire[j]
    BY <1>6a, SMT DEF SendKills
  <2>2. \A i \in DOMAIN rx' : \E j \in DOMAIN rx : rx'[i] = rx[j]
    BY <1>6a, SMT DEF SendKills
  <2>3. /\ pc # "idle" /\ pending' \subseteq pending
        /\ UNCHANGED <<req, hdr, result, connection>>
    BY <1>6a DEF SendKills
  <2> QED BY <1>0, <2>1, <2>2, <2>3, StreamOnly
<1>7. CASE RecvTimeout
  BY <1>7, <1>0, CallOver DEF RecvTimeout, stream
<1>8. CASE RecvHeader
  <2>1. /\ \A i \in DOMAIN rx' : \E j \in DOMAIN rx : rx'[i] = rx[j]
        /\ 1 \in DOMAIN rx /\ Head(rx) = rx[1]
    BY <1>8, <1>a, TailCells DEF RecvHeader
  <2>2. IssuedBy(Head(rx).of.to, gens, count)
    BY <2>1 DEF PacketInv, AllIssued, CellsIssuedBy
  <2>3. hdr' # NoReply => IssuedBy(hdr'.to, gens, count)
    BY <1>8, <2>2 DEF RecvHeader
  <2>4. CellsIssuedBy(rx', gens, count)
    <3>1. rx' \in Seq(Cell)
      BY <1>0 DEF TypeOK
    <3> QED BY <1>a, <2>1, <3>1, CellsGrow, SMT DEF PacketInv, AllIssued
  <2>5. AllIssued'
    BY <1>8, <2>3, <2>4 DEF RecvHeader, PacketInv, AllIssued, connection
  <2>6. RequestIsNewest'
    BY <1>8 DEF RecvHeader, PacketInv, RequestIsNewest, connection
  <2>7. OwnReply'
    BY <1>8 DEF RecvHeader, PacketInv, OwnReply
  <2>8. conn' \in {0, gens'}
    BY <1>8, <1>a DEF RecvHeader, connection
  <2> QED BY <1>0, <2>5, <2>6, <2>7, <2>8 DEF PacketInv
<1>8a. CASE RecvPartOfHeader
  <2>1. DOMAIN rx' = DOMAIN rx /\ \A i \in DOMAIN rx : rx'[i].of = rx[i].of
    BY <1>8a, <1>a, RestCells DEF RecvPartOfHeader
  <2>2. CellsIssuedBy(rx', gens, count)
    BY <2>1 DEF PacketInv, AllIssued, CellsIssuedBy
  <2>3. /\ pc # "idle" /\ hdr' = NoReply
        /\ UNCHANGED <<req, result, connection, pending, wire>>
    BY <1>8a DEF RecvPartOfHeader
  <2>4. AllIssued'
    BY <2>2, <2>3 DEF PacketInv, AllIssued, connection
  <2>5. RequestIsNewest' /\ OwnReply' /\ conn' \in {0, gens'}
    BY <1>a, <2>3 DEF PacketInv, RequestIsNewest, OwnReply, connection
  <2> QED BY <1>0, <2>4, <2>5 DEF PacketInv
<1>9. CASE RecvHeaderAtEof
  BY <1>9, <1>0, CallOver DEF RecvHeaderAtEof, stream
<1>10. CASE RecvBody
  <2>1. need \in Nat
    BY <1>0 DEF TypeOK
  <2> QED BY <1>10, <1>0, <1>b, <2>1, CallOver DEF RecvBody
<1>11. CASE RecvShortBody
  <2>1. \A i \in DOMAIN rx' : \E j \in DOMAIN rx : rx'[i] = rx[j]
    BY <1>11, SMT DEF RecvShortBody
  <2> QED BY <1>11, <1>0, <2>1, CallOver DEF RecvShortBody
<1>12. CASE Answer
  <2>1. PICK r \in pending, s \in Sizes, st \in Statuses :
          /\ wire' = wire \o [i \in 1 .. s |->
                        [of |-> [to |-> r, size |-> s, status |-> st], off |-> i]]
          /\ pending' = pending \ {r}
    BY <1>12 DEF Answer
  <2> DEFINE reply == [to |-> r, size |-> s, status |-> st]
             cells == [i \in 1 .. s |-> [of |-> reply, off |-> i]]
  <2>2. reply \in Reply /\ s \in Nat /\ reply.to = r
    BY SMT, <1>a DEF Reply
  <2>3. cells \in Seq(Cell) /\ \A i \in DOMAIN cells : cells[i].of = reply
    BY <2>2, ReplyCells
  <2>4. IssuedBy(r, gens, count)
    BY DEF PacketInv, AllIssued
  <2>5. CellsIssuedBy(cells, gens, count)
    BY <2>2, <2>3, <2>4 DEF CellsIssuedBy
  <2>6. CellsIssuedBy(wire', gens, count)
    <3>1. wire' = wire \o cells
      BY <2>1
    <3>2. CellsIssuedBy(wire, gens, count)
      BY DEF PacketInv, AllIssued
    <3> HIDE DEF cells, reply
    <3> QED BY <1>a, <2>3, <2>5, <3>1, <3>2, ConcatIssued
  <2>7. AllIssued'
    BY <1>12, <2>1, <2>6
       DEF Answer, PacketInv, AllIssued, client, connection
  <2> QED BY <1>12, <1>0, <1>a, <2>7
          DEF Answer, PacketInv, RequestIsNewest, OwnReply, client, connection
<1>13. CASE Arrive
  <2>1. /\ \A i \in DOMAIN wire' : \E j \in DOMAIN wire : wire'[i] = wire[j]
        /\ 1 \in DOMAIN wire /\ Head(wire) = wire[1] /\ Head(wire) \in Cell
    BY <1>13, <1>a, TailCells DEF Arrive
  <2>2. \A i \in DOMAIN rx' :
          rx'[i] = Head(wire) \/ \E j \in DOMAIN rx : rx'[i] = rx[j]
    BY <1>13, <1>a, <2>1, AppendCells DEF Arrive
  <2>3. CellsIssuedBy(wire', gens, count) /\ CellsIssuedBy(rx', gens, count)
    BY <2>1, <2>2 DEF PacketInv, AllIssued, CellsIssuedBy
  <2>4. AllIssued'
    BY <1>13, <2>3 DEF Arrive, PacketInv, AllIssued, client, connection
  <2> QED BY <1>13, <1>0, <1>a, <2>4
          DEF Arrive, PacketInv, RequestIsNewest, OwnReply, client, connection
<1>14. CASE PeerClose
  <2>1. \A i \in DOMAIN wire' : \E j \in DOMAIN wire : wire'[i] = wire[j]
    BY <1>14, <1>a, PrefixCells DEF PeerClose
  <2>2. UNCHANGED <<pc, req, hdr, result, connection, rx>> /\ pending' = {}
    BY <1>14 DEF PeerClose, client
  <2> QED BY <1>0, <2>1, <2>2, StreamOnly
<1>15. CASE UNCHANGED vars
  BY <1>15, <1>0, StreamOnly DEF vars, client, stream
<1> QED BY <1>1, <1>2, <1>3, <1>4, <1>5, <1>6, <1>6a, <1>7, <1>8, <1>8a, <1>9,
           <1>10, <1>11, <1>12, <1>13, <1>14, <1>15 DEF Next, InCall

\* A ConnectedSend that returns an intact reply returns its own, that of an
\* earlier connection, or one a full turn of the packet counter late
\* (_ConnectedSend compares Command and Packet only).
THEOREM OwnReplyAlways == Spec => []OwnReply
<1>1. Init => PacketInv
  BY PacketInit
<1>2. PacketInv /\ [Next]_vars => PacketInv'
  BY PacketNext
<1>3. PacketInv => OwnReply
  BY DEF PacketInv
<1> QED BY <1>1, <1>2, <1>3, PTL DEF Spec
===============================================================================
