------------------------------ MODULE Exchange ------------------------------
(***************************************************************************)
(* One EtherNet/IP session: the request/reply exchanges libtuxeip makes    *)
(* over one TCP socket (SendData.c, Ethernet_IP.c, MR.c, CM.c), the target *)
(* that answers them late or never, and the byte stream between them.      *)
(*                                                                         *)
(* The stream is a sequence of cells.  A reply is a run of cells: the      *)
(* first is its 24-byte encapsulation header, the others stand for its     *)
(* body.  TCP keeps the order of the cells but not the boundaries between  *)
(* replies: a reply may arrive in pieces, and the library itself may throw *)
(* a piece away when it empties the socket before it sends.                *)
(*                                                                         *)
(* Calls are serialised (one exchange at a time), as libtuxeip requires    *)
(* and as the client's lock arranges while it polls.                       *)
(***************************************************************************)
EXTENDS Integers, Sequences

CONSTANTS
  Ops,         \* the library calls that are made, a subset of AllOps
  DrainMax,    \* cells one _CIPEmptyBuffer call takes (sizeof(_CIPEmptyBuff))
  PacketMod,   \* values of Eip_Connection.packet before it repeats (2^16)
  Statuses,    \* the statuses the target answers with, in AllStatuses
  Sizes,       \* sizes of a reply in cells, the header cell included
  WaitAll,     \* not the WIN32 build, where MSG_WAITALL is 0 and a send on a
               \* closed connection raises no signal
  Careful,     \* after a call fails, the caller only closes (ethernetip_client)
  MaxGarbage,  \* bound: body cells announced by a header that is none
  MaxCalls,    \* bound: library calls
  NoReply      \* "no intact reply was read"

AllOps == {"RegisterSession", "UnRegisterSession", "ListServices",
           "ListIdentity", "ListInterfaces", "ForwardOpen", "ForwardClose",
           "UnconnectedSend", "ConnectedSend"}

ListOps == {"ListServices", "ListIdentity", "ListInterfaces"}

\* Calls that go through _SendRRData and the message router.
MROps == {"ForwardOpen", "ForwardClose", "UnconnectedSend"}

\* "ok", an encapsulation error (header only), or a CIP General_Status.
AllStatuses == {"ok", "encap_error", "cip_error"}

\* conn is the connection a request was made with or during (0: none) and
\* n its number: the count of ConnectedSend calls on that connection, or,
\* for every other call, of all calls.  Both identify the request to the
\* properties; the only trace of them on the wire is Packet.
Request == [op : AllOps, conn : Nat, n : Nat]

Reply == [to : Request, size : Nat \ {0}, status : AllStatuses]

\* Cell number off of a reply; 0 for what a short read left of its header.
Cell == {c \in [of : Reply, off : Nat] : c.off <= c.of.size}

ASSUME ExchangeAssumption ==
  /\ Ops \subseteq AllOps
  /\ DrainMax \in Nat \ {0}
  /\ PacketMod \in Nat \ {0}
  /\ Sizes \subseteq Nat \ {0}
  /\ 1 \in Sizes
  /\ Statuses \subseteq AllStatuses
  /\ WaitAll \in BOOLEAN /\ Careful \in BOOLEAN
  /\ MaxGarbage \in Nat
  /\ MaxCalls \in Nat
  /\ NoReply \notin Reply

VARIABLES
  sock,    \* "closed", "up", or "eof": the target has closed its end
  pc,      \* where the call in progress is ("idle": none; "killed": the
           \* process has died of SIGPIPE in it)
  req,     \* the request of the call in progress, or of the last one
  hdr,     \* the reply whose header was read, NoReply if it was not one
  need,    \* body cells Encap_Header.Length still asks for
  conn,    \* the Eip_Connection the caller holds (0: none)
  packet,  \* its field packet
  count,   \* ConnectedSend calls made on it
  gens,    \* connections created so far
  calls,   \* calls made so far
  result,  \* what the last call returned
  failed,  \* some call on this session has failed
  pending, \* requests that reached the target and are not answered
  wire,    \* cells the target has sent, on their way
  rx       \* cells in the socket's receive buffer

client == <<pc, req, hdr, need, calls, result, failed>>
connection == <<conn, packet, count, gens>>
stream == <<pending, wire, rx>>
vars == <<sock, client, connection, stream>>

-----------------------------------------------------------------------------
\* What the client can see of a reply.

Command(reply) ==
  CASE reply.to.op \in MROps -> "SendRRData"
    [] reply.to.op = "ConnectedSend" -> "SendUnitData"
    [] OTHER -> reply.to.op

Service(reply) ==
  IF reply.to.op \in {"UnconnectedSend", "ConnectedSend"}
  THEN "EXECUTE_PCCC" ELSE reply.to.op

Packet(reply) == reply.to.n % PacketMod

\* _GetDataItem finds a data item: the reply has a body and a command that
\* carries a common packet.
HasDataItem(reply) ==
  /\ reply.size > 1 /\ reply.status # "encap_error"
  /\ Command(reply) \in {"SendRRData", "SendUnitData"} \cup ListOps

\* The tests each call makes on an intact reply before it reports success.

RegisterAccepts(reply) == Command(reply) = "RegisterSession"

ListAccepts(reply) == Command(reply) = req.op /\ reply.status = "ok"

\* Forward_Open and Forward_Close take any router reply, whatever it answers
\* and whatever its status.
ForwardAccepts(reply) == HasDataItem(reply)

UnconnectedAccepts(reply) ==
  HasDataItem(reply) /\ Service(reply) = "EXECUTE_PCCC" /\ reply.status = "ok"

\* Mutant of ConnectedAccepts: the packet number is not compared.
ConnectedAcceptsAnyPacket(reply) ==
  HasDataItem(reply) /\ Command(reply) = "SendUnitData"

ConnectedAccepts(reply) ==
  /\ HasDataItem(reply)
  /\ Command(reply) = "SendUnitData" /\ Packet(reply) = packet

Accepts(reply) ==
  \/ req.op = "RegisterSession" /\ RegisterAccepts(reply)
  \/ req.op \in ListOps /\ ListAccepts(reply)
  \/ req.op \in {"ForwardOpen", "ForwardClose"} /\ ForwardAccepts(reply)
  \/ req.op = "UnconnectedSend" /\ UnconnectedAccepts(reply)
  \/ req.op = "ConnectedSend" /\ ConnectedAccepts(reply)

\* What is not a reply to begin with may look like anything; a late answer
\* to a List command is read as a router reply past its own end.
Verdicts(reply) ==
  IF reply = NoReply THEN BOOLEAN
  ELSE IF req.op \in MROps /\ HasDataItem(reply) /\ Command(reply) \in ListOps
       THEN BOOLEAN
       ELSE {Accepts(reply)}

\* recv of up to k cells into a buffer nobody looks at.
Dropped(s, k) == SubSeq(s, k + 1, Len(s))

-----------------------------------------------------------------------------
\* The caller.

Legal(op) ==
  /\ op \in {"ConnectedSend", "ForwardClose"} => conn # 0
  /\ op = "ForwardOpen" => conn = 0
  /\ Careful /\ failed => op \in {"ForwardClose", "UnRegisterSession"}

\* A call builds its request; ConnectedSend numbers it first.
Call(op) ==
  /\ sock # "closed" /\ pc = "idle" /\ calls < MaxCalls
  /\ Legal(op)
  /\ calls' = calls + 1
  /\ IF op = "ConnectedSend"
     THEN /\ count' = count + 1
          /\ packet' = (count + 1) % PacketMod
          /\ req' = [op |-> op, conn |-> conn, n |-> count + 1]
     ELSE /\ UNCHANGED <<count, packet>>
          /\ req' = [op |-> op, conn |-> conn, n |-> calls + 1]
  /\ pc' = IF op \in MROps \cup {"ConnectedSend"} THEN "drain" ELSE "send"
  /\ UNCHANGED <<sock, hdr, need, conn, gens, result, failed, stream>>

\* OpenSession: a new socket to the target, with nothing in it.
OpenSession ==
  /\ sock = "closed" /\ pc = "idle"
  /\ sock' = "up"
  /\ failed' = FALSE
  /\ UNCHANGED <<pc, req, hdr, need, calls, result, connection, stream>>

\* CloseSession, once the connection is gone.
CloseSession ==
  /\ sock # "closed" /\ pc = "idle" /\ conn = 0
  /\ sock' = "closed"
  /\ pending' = {} /\ wire' = << >> /\ rx' = << >>
  /\ UNCHANGED <<client, connection>>

-----------------------------------------------------------------------------
\* The steps of a call.

\* The end of a call: whatever reply is at hand is judged, Forward_Open makes
\* a connection of a reply it accepts, Forward_Close frees its connection in
\* every case.
Finish(reply, verdicts) ==
  \E ok \in verdicts :
    /\ result' = [req |-> req, reply |-> reply, ok |-> ok]
    /\ failed' = (failed \/ ~ok)
    /\ pc' = "idle" /\ hdr' = NoReply /\ need' = 0
    /\ IF req.op = "ForwardOpen" /\ ok
       THEN /\ gens' = gens + 1 /\ conn' = gens + 1
            /\ packet' = 0 /\ count' = 0
       ELSE /\ conn' = IF req.op = "ForwardClose" THEN 0 ELSE conn
            /\ UNCHANGED <<gens, packet, count>>

\* _CIPEmptyBuffer, called by _CipSendData_WaitReply: one recv of at most
\* DrainMax cells of what happens to have arrived.
EmptyBuffer ==
  /\ pc = "drain"
  /\ rx' = Dropped(rx, DrainMax)
  /\ pc' = "send"
  /\ UNCHANGED <<sock, req, hdr, need, calls, result, failed, connection, pending, wire>>

\* _CipSendData: it empties the buffer (again) and sends.  A socket whose
\* other end is closed may still take the bytes.
SendRequest ==
  /\ pc = "send"
  /\ rx' = Dropped(rx, DrainMax)
  /\ pending' = IF sock = "up" /\ req.op # "UnRegisterSession"
                THEN pending \cup {req} ELSE pending
  /\ IF req.op = "UnRegisterSession"
     THEN /\ pc' = "idle"
          /\ result' = [req |-> req, reply |-> NoReply, ok |-> TRUE]
     ELSE /\ pc' = "select"
          /\ UNCHANGED result
  /\ UNCHANGED <<sock, req, hdr, need, calls, failed, connection, wire>>

\* send fails: the calls that look at its result give up, the others wait
\* for a reply all the same.
SendFails ==
  /\ pc = "send" /\ sock = "eof"
  /\ rx' = Dropped(rx, DrainMax)
  /\ IF req.op \in MROps \cup {"ConnectedSend"}
     THEN /\ pc' = "select"
          /\ UNCHANGED <<hdr, need, result, failed, connection>>
     ELSE Finish(NoReply, {FALSE})
  /\ UNCHANGED <<sock, req, calls, pending, wire>>

\* Or SIGPIPE, which send raises on a connection that is gone and nothing in
\* the program ignores, ends the process and its socket with it.
SendKills ==
  /\ WaitAll
  /\ pc = "send" /\ sock = "eof"
  /\ pc' = "killed" /\ sock' = "closed"
  /\ pending' = {} /\ wire' = << >> /\ rx' = << >>
  /\ UNCHANGED <<req, hdr, need, calls, result, failed, connection>>

\* Mutant of RecvTimeout: the caller takes the NULL for an empty answer.
RecvTimeoutIgnored ==
  /\ pc = "select" /\ rx = << >>
  /\ sock = "up" \/ wire # << >>
  /\ Finish(NoReply, {TRUE})
  /\ UNCHANGED <<sock, req, calls, stream>>

\* Mutant of RecvTimeout: select is called with no timeout.
RecvNeverTimesOut == FALSE /\ UNCHANGED vars

\* select returned 0: nothing arrived within session->timeout.
RecvTimeout ==
  /\ pc = "select" /\ rx = << >>
  /\ sock = "up" \/ wire # << >>
  /\ Finish(NoReply, {FALSE})
  /\ UNCHANGED <<sock, req, calls, stream>>

\* Mutant of RecvHeader: Length is taken to count the header too.
RecvHeaderInclusive ==
  /\ pc = "select" /\ rx # << >>
  /\ hdr' = Head(rx).of
  /\ need' = Head(rx).of.size - 2
  /\ rx' = Tail(rx)
  /\ pc' = "body"
  /\ UNCHANGED <<sock, req, calls, result, failed, connection, pending, wire>>

\* The header is whatever comes next.  Read from the middle of a reply, its
\* Length is arbitrary.
RecvHeader ==
  /\ pc = "select" /\ rx # << >>
  /\ IF Head(rx).off = 1
     THEN /\ hdr' = Head(rx).of
          /\ need' = Head(rx).of.size - 1
     ELSE /\ hdr' = NoReply
          /\ need' \in 0 .. MaxGarbage
  /\ rx' = Tail(rx)
  /\ pc' = "body"
  /\ UNCHANGED <<sock, req, calls, result, failed, connection, pending, wire>>

\* Without MSG_WAITALL recv may return before the header is complete.  The
\* rest of it comes next, and Length, set or not, is believed.
Rest(cell) == [cell EXCEPT !.off = IF @ = 1 THEN 0 ELSE @]

RecvPartOfHeader ==
  /\ ~WaitAll
  /\ pc = "select" /\ rx # << >>
  /\ hdr' = NoReply
  /\ need' \in 0 .. MaxGarbage \cup {Head(rx).of.size - 1}
  /\ rx' = [rx EXCEPT ![1] = Rest(@)]
  /\ pc' = "body"
  /\ UNCHANGED <<sock, req, calls, result, failed, connection, pending, wire>>

\* The target has closed: select says readable, recv reads nothing, and the
\* header is the memory malloc returned.
RecvHeaderAtEof ==
  /\ pc = "select" /\ rx = << >> /\ wire = << >> /\ sock = "eof"
  /\ Finish(NoReply, BOOLEAN)
  /\ UNCHANGED <<sock, req, calls, stream>>

\* Mutant of RecvBody: one cell of the body is left in the socket.
RecvBodyButOne ==
  /\ pc = "body" /\ need <= Len(rx)
  /\ rx' = Dropped(rx, IF need > 1 THEN need - 1 ELSE 0)
  /\ Finish(hdr, Verdicts(hdr))
  /\ UNCHANGED <<sock, req, calls, pending, wire>>

\* The body has arrived in full.
RecvBody ==
  /\ pc = "body" /\ need <= Len(rx)
  /\ rx' = Dropped(rx, need)
  /\ Finish(hdr, Verdicts(hdr))
  /\ UNCHANGED <<sock, req, calls, pending, wire>>

\* recv returns before the body is complete: the target has closed, or
\* MSG_WAITALL is 0 and something has arrived.  The rest of the buffer is
\* uninitialised, and nobody looks at what recv returned.
RecvShortBody ==
  /\ pc = "body" /\ need > Len(rx)
  /\ \/ sock = "eof" /\ wire = << >>
     \/ ~WaitAll /\ rx # << >>
  /\ rx' = << >>
  /\ Finish(NoReply, BOOLEAN)
  /\ UNCHANGED <<sock, req, calls, pending, wire>>

-----------------------------------------------------------------------------
\* The target and the network (external).

\* The target answers a request, in any order and at any later time.
Answer ==
  /\ sock = "up"
  /\ \E r \in pending, s \in Sizes, st \in Statuses :
       /\ st = "encap_error" => s = 1
       /\ LET reply == [to |-> r, size |-> s, status |-> st]
          IN  wire' = wire \o [i \in 1 .. s |-> [of |-> reply, off |-> i]]
       /\ pending' = pending \ {r}
  /\ UNCHANGED <<sock, client, connection, rx>>

\* One more cell reaches the receive buffer.
Arrive ==
  /\ wire # << >>
  /\ rx' = Append(rx, Head(wire))
  /\ wire' = Tail(wire)
  /\ UNCHANGED <<sock, client, connection, pending>>

\* The target closes the TCP connection; what it sent last may be lost.
PeerClose ==
  /\ sock = "up"
  /\ sock' = "eof"
  /\ pending' = {}
  /\ \E k \in 0 .. Len(wire) : wire' = SubSeq(wire, 1, k)
  /\ UNCHANGED <<client, connection, rx>>

-----------------------------------------------------------------------------
Init ==
  /\ sock = "up" /\ pc = "idle"
  /\ req = [op |-> "UnRegisterSession", conn |-> 0, n |-> 0]
  /\ hdr = NoReply /\ need = 0
  /\ conn = 0 /\ packet = 0 /\ count = 0 /\ gens = 0 /\ calls = 0
  /\ result = [req |-> req, reply |-> NoReply, ok |-> TRUE] /\ failed = FALSE
  /\ pending = {} /\ wire = << >> /\ rx = << >>

InCall ==
  \/ EmptyBuffer \/ SendRequest \/ SendFails \/ SendKills
  \/ RecvTimeout \/ RecvHeader \/ RecvPartOfHeader \/ RecvHeaderAtEof
  \/ RecvBody \/ RecvShortBody

Next ==
  \/ \E op \in Ops : Call(op)
  \/ OpenSession \/ CloseSession
  \/ InCall
  \/ Answer \/ Arrive \/ PeerClose

Spec == Init /\ [][Next]_vars

\* The thread inside a call is scheduled, select's timeout expires, and what
\* the target has sent arrives.  Nothing makes the target answer or close.
FairSpec == Spec /\ WF_vars(InCall) /\ WF_vars(Arrive)

-----------------------------------------------------------------------------
\* Properties.

TypeOK ==
  /\ sock \in {"closed", "up", "eof"}
  /\ pc \in {"idle", "drain", "send", "select", "body", "killed"}
  /\ req \in Request
  /\ hdr \in Reply \cup {NoReply}
  /\ need \in Nat
  /\ conn \in Nat /\ packet \in Nat /\ count \in Nat
  /\ gens \in Nat /\ calls \in Nat
  /\ result \in [req : Request, reply : Reply \cup {NoReply}, ok : BOOLEAN]
  /\ failed \in BOOLEAN
  /\ pending \in SUBSET Request
  /\ wire \in Seq(Cell) /\ rx \in Seq(Cell)

\* A ConnectedSend that returns an intact reply returns the reply to its own
\* request.  The two exceptions are exactly what the code cannot tell apart:
\* it tests Command and Packet but not the connection ID, so a late reply to
\* the equally numbered request of an earlier connection on the same session
\* passes, and so does one that is PacketMod or more requests late.
OwnReply ==
  LET asked == result.req
      got == result.reply
  IN  result.ok /\ got # NoReply /\ asked.op = "ConnectedSend"
        => /\ got.to.op = "ConnectedSend"
           /\ \/ got.to = asked
              \/ got.to.conn < asked.conn
              \/ got.to.n + PacketMod <= asked.n

\* A caller that makes no further request on a session once a call has failed
\* never takes one reply for another, not even in the calls that test neither
\* command nor service (Forward_Open makes its connection of any reply).  Only
\* Forward_Close, called after the failure, may: its status is only logged.
\* Without MSG_WAITALL a short read can pass for success and leave its rest
\* behind, so the promise needs WaitAll.
CarefulOwnReply ==
  LET asked == result.req
      got == result.reply
  IN  Careful /\ WaitAll /\ result.ok /\ got # NoReply
        /\ asked.op # "ForwardClose"
        => got.to = asked

Unread == rx \o wire

\* The next byte the client will read is the first byte of a header.
InSync == Unread # << >> => Unread[1].off = 1

\* A call that returned an intact reply leaves the socket on a boundary
\* between two replies, whatever was torn or garbled before: the header's
\* Length was believed and consumed to the byte.
InSyncAfterReply == pc = "idle" /\ result.reply # NoReply => InSync

\* A call that starts to read on a boundary returns, by a reply, by select's
\* timeout or by the target's close.  (Off a boundary it need not: recv has
\* no timeout of its own and may wait for a body that was never sent.)
BoundaryReadEnds == (pc = "select" /\ InSync) ~> (pc = "idle")

\* Until a call on the session has failed, nothing is about but the exchange
\* in progress: between calls and until a request is sent no answer is owed
\* and no byte is unread, so the drains have nothing to tear, and every read
\* starts on a boundary.  With BoundaryReadEnds, every call of a session
\* returns as long as none has failed; after that one may hang.
QuietUntilFailure ==
  WaitAll /\ ~failed =>
    /\ pc \in {"idle", "drain", "send"} => pending = {} /\ Unread = << >>
    /\ pc = "select" => InSync

\* "Time-out used to send / receive frames" (TuxEip.odt, Session): every call
\* returns.
CallEnds == (pc # "idle") ~> (pc \in {"idle", "killed"})
=============================================================================
