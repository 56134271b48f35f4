----------------------------- MODULE StreamProofs -----------------------------
(***************************************************************************)
(* The byte stream of Exchange, for every value of the constants: a reply  *)
(* that was read in full leaves the socket on a boundary between replies   *)
(* (InSyncAfterReply), until a call fails nothing is about but the         *)
(* exchange in progress (QuietUntilFailure), and a caller that only closes *)
(* after a failure never takes one reply for another (CarefulOwnReply).    *)
(***************************************************************************)
EXTENDS ExchangeProofs

-----------------------------------------------------------------------------
\* Boundaries.  Wherever the client is in a reply, what comes behind the last
\* cell of that reply, if anything does, is the first cell of another.

Place(cell) == IF cell.off = 0 THEN 1 ELSE cell.off

Behind(s, i) == i + s[i].of.size - Place(s[i]) + 1

Bounded(s) == \A i \in DOMAIN s : Behind(s, i) \in DOMAIN s => s[Behind(s, i)].off = 1

\* Every reply of which there is a cell is there to its end.
Whole(s) == \A i \in DOMAIN s : Behind(s, i) <= Len(s) + 1

\* t is what is left of s without its first d cells.
Without(t, s, d) ==
  /\ d \in Nat
  /\ t # << >> => Len(t) = Len(s) - d
  /\ t = << >> => Len(s) <= d
  /\ \A i \in DOMAIN t : t[i] = s[i + d]

LEMMA CellType ==
  ASSUME NEW s \in Seq(Cell), NEW i \in DOMAIN s
  PROVE  /\ i \in Nat \ {0} /\ i <= Len(s)
         /\ s[i].of \in Reply /\ s[i].of.size \in Nat \ {0}
         /\ s[i].off \in Nat /\ Place(s[i]) \in Nat
         /\ Behind(s, i) \in Nat /\ Behind(s, i) > i
<1>1. s[i] \in Cell /\ i \in Nat \ {0} /\ i <= Len(s)
  BY SMT
<1>2. s[i].of \in Reply /\ s[i].off \in Nat /\ s[i].off <= s[i].of.size
  BY <1>1, SMT DEF Cell
<1>3. s[i].of.size \in Nat \ {0}
  BY <1>2, SMT DEF Reply
<1>4. Place(s[i]) \in Nat /\ Place(s[i]) <= s[i].of.size
  BY <1>2, <1>3, SMT DEF Place
<1> QED BY <1>1, <1>2, <1>3, <1>4, SMT DEF Behind

LEMMA WithoutKeeps ==
  ASSUME NEW s \in Seq(Cell), NEW t \in Seq(Cell), NEW d \in Nat, Without(t, s, d)
  PROVE  /\ Bounded(s) => Bounded(t)
         /\ Whole(s) => Whole(t)
<1>1. ASSUME NEW i \in DOMAIN t
      PROVE  /\ i + d \in DOMAIN s /\ t[i] = s[i + d]
             /\ Len(t) = Len(s) - d
             /\ Behind(t, i) \in Int /\ Behind(s, i + d) = Behind(t, i) + d
  <2>1. t # << >> /\ Len(t) = Len(s) - d /\ t[i] = s[i + d]
    BY <1>1, SMT DEF Without
  <2>2. i + d \in DOMAIN s
    BY <1>1, <2>1, SMT
  <2>3. /\ t[i].of.size \in Nat /\ Place(t[i]) \in Nat /\ i \in Nat
        /\ Behind(t, i) \in Int
    BY <1>1, CellType, SMT
  <2> QED BY <2>1, <2>2, <2>3, SMTT(60) DEF Behind
<1>2. ASSUME Bounded(s) PROVE Bounded(t)
  <2> SUFFICES ASSUME NEW i \in DOMAIN t, Behind(t, i) \in DOMAIN t
               PROVE  t[Behind(t, i)].off = 1
    BY DEF Bounded
  <2>1. /\ i + d \in DOMAIN s /\ Behind(s, i + d) = Behind(t, i) + d
        /\ Behind(t, i) + d \in DOMAIN s
        /\ t[Behind(t, i)] = s[Behind(t, i) + d]
    BY <1>1
  <2> QED BY <1>2, <2>1 DEF Bounded
<1>3. ASSUME Whole(s) PROVE Whole(t)
  <2> SUFFICES ASSUME NEW i \in DOMAIN t PROVE Behind(t, i) <= Len(t) + 1
    BY DEF Whole
  <2>1. Behind(s, i + d) <= Len(s) + 1
    BY <1>1, <1>3 DEF Whole
  <2> QED BY <1>1, <2>1, SMT
<1> QED BY <1>2, <1>3

LEMMA PrefixBounded ==
  ASSUME NEW s \in Seq(Cell), NEW t \in Seq(Cell), Len(t) <= Len(s),
         \A i \in DOMAIN t : t[i] = s[i], Bounded(s)
  PROVE  Bounded(t)
<1> SUFFICES ASSUME NEW i \in DOMAIN t, Behind(t, i) \in DOMAIN t
             PROVE  t[Behind(t, i)].off = 1
  BY DEF Bounded
<1>1. DOMAIN t \subseteq DOMAIN s
  BY SMT
<1>2. Behind(t, i) = Behind(s, i)
  BY DEF Behind
<1> QED BY <1>1, <1>2 DEF Bounded

\* u is s with the n cells of a reply behind it.
LEMMA AnswerBounded ==
  ASSUME NEW s \in Seq(Cell), NEW u \in Seq(Cell), NEW reply \in Reply,
         Len(u) = Len(s) + reply.size,
         \A i \in DOMAIN s : u[i] = s[i],
         \A i \in 1 .. reply.size : u[Len(s) + i] = [of |-> reply, off |-> i],
         Bounded(s), Whole(s)
  PROVE  Bounded(u) /\ Whole(u)
<1>0. Len(s) \in Nat /\ reply.size \in Nat \ {0} /\ DOMAIN s \subseteq DOMAIN u
  BY SMT DEF Reply
<1>1. ASSUME NEW i \in DOMAIN s
      PROVE  Behind(u, i) = Behind(s, i) /\ Behind(s, i) <= Len(s) + 1
  BY <1>1 DEF Whole, Behind
<1>2. ASSUME NEW i \in DOMAIN u, i \notin DOMAIN s
      PROVE  Behind(u, i) = Len(u) + 1
  <2>1. i - Len(s) \in 1 .. reply.size /\ i = Len(s) + (i - Len(s))
    BY <1>0, <1>2, SMT
  <2>2. u[i] = [of |-> reply, off |-> i - Len(s)]
    BY <2>1
  <2>3. Place(u[i]) = i - Len(s) /\ u[i].of = reply
    BY <2>1, <2>2, SMT DEF Place
  <2> QED BY <1>0, <2>1, <2>3, SMT DEF Behind
<1>3. Whole(u)
  <2> SUFFICES ASSUME NEW i \in DOMAIN u PROVE Behind(u, i) <= Len(u) + 1
    BY DEF Whole
  <2>1. CASE i \in DOMAIN s
    BY <1>0, <1>1, <2>1, CellType, SMT
  <2>2. CASE i \notin DOMAIN s
    BY <1>0, <1>2, <2>2, SMT
  <2> QED BY <2>1, <2>2
<1>4. Bounded(u)
  <2> SUFFICES ASSUME NEW i \in DOMAIN u, Behind(u, i) \in DOMAIN u
               PROVE  u[Behind(u, i)].off = 1
    BY DEF Bounded
  <2>1. i \in DOMAIN s
    BY <1>0, <1>2, SMT
  <2>2. Behind(s, i) \in Int /\ Behind(s, i) <= Len(s) + 1 /\ Behind(u, i) = Behind(s, i)
    BY <1>1, <2>1, CellType
  <2>3. CASE Behind(s, i) \in DOMAIN s
    BY <2>1, <2>2, <2>3 DEF Bounded
  <2>4. CASE Behind(s, i) \notin DOMAIN s
    <3>1. Behind(s, i) = Len(s) + 1 /\ 1 \in 1 .. reply.size
      BY <1>0, <2>2, <2>4, SMT
    <3>2. u[Len(s) + 1] = [of |-> reply, off |-> 1]
      BY <3>1
    <3> QED BY <2>2, <3>1, <3>2, SMT
  <2> QED BY <2>3, <2>4
<1> QED BY <1>3, <1>4

-----------------------------------------------------------------------------
\* How the steps change what is unread.

LEMMA ConcatShape ==
  ASSUME NEW s \in Seq(Cell), NEW t \in Seq(Cell)
  PROVE  /\ s \o t \in Seq(Cell)
         /\ Len(s) \in Nat /\ Len(t) \in Nat /\ Len(s \o t) = Len(s) + Len(t)
         /\ DOMAIN (s \o t) = 1 .. Len(s) + Len(t)
         /\ \A i \in 1 .. Len(s) : (s \o t)[i] = s[i]
         /\ \A i \in 1 .. Len(t) : (s \o t)[Len(s) + i] = t[i]
  BY SMT

\* Cells taken from the front of a stream are gone from the whole of it.
LEMMA ConcatWithout ==
  ASSUME NEW s \in Seq(Cell), NEW t \in Seq(Cell), NEW u \in Seq(Cell),
         NEW k \in Nat, Len(u) = Len(s) - k, \A i \in DOMAIN u : u[i] = s[i + k]
  PROVE  Without(u \o t, s \o t, k) /\ Len(u \o t) = Len(s \o t) - k
<1>1. /\ Len(s) \in Nat /\ Len(t) \in Nat /\ Len(s \o t) = Len(s) + Len(t)
      /\ \A i \in 1 .. Len(s) : (s \o t)[i] = s[i]
      /\ \A i \in 1 .. Len(t) : (s \o t)[Len(s) + i] = t[i]
  BY ConcatShape
<1>2. /\ Len(u) \in Nat /\ Len(u \o t) = Len(u) + Len(t)
      /\ \A i \in 1 .. Len(u) : (u \o t)[i] = u[i]
      /\ \A i \in 1 .. Len(t) : (u \o t)[Len(u) + i] = t[i]
      /\ u \o t \in Seq(Cell)
  BY ConcatShape
<1> DOMAIN u = 1 .. Len(u) /\ DOMAIN (u \o t) = 1 .. Len(u) + Len(t)
  BY SMTT(60)
<1>3. ASSUME NEW i \in DOMAIN (u \o t) PROVE (u \o t)[i] = (s \o t)[i + k]
  <2>1. CASE i <= Len(u)
    <3>1. i \in 1 .. Len(u) /\ i + k \in 1 .. Len(s)
      BY <1>1, <1>2, <2>1, SMT
    <3>2. (u \o t)[i] = u[i] /\ (s \o t)[i + k] = s[i + k] /\ u[i] = s[i + k]
      BY <1>1, <1>2, <3>1
    <3> QED BY <3>2
  <2>2. CASE i > Len(u)
    <3>1. i - Len(u) \in 1 .. Len(t) /\ i = Len(u) + (i - Len(u))
          /\ i + k = Len(s) + (i - Len(u))
      BY <1>1, <1>2, <2>2, SMT
    <3>2. (u \o t)[Len(u) + (i - Len(u))] = t[i - Len(u)]
          /\ (s \o t)[Len(s) + (i - Len(u))] = t[i - Len(u)]
      BY <1>1, <1>2, <3>1
    <3> QED BY <3>1, <3>2
  <2> QED BY <1>2, <2>1, <2>2, SMTT(60)
<1>4. Len(u \o t) = Len(s \o t) - k
  BY <1>1, <1>2, SMT
<1>5. u \o t = << >> => Len(s \o t) <= k
  BY <1>2, <1>4, SMT
<1> QED BY <1>3, <1>4, <1>5, Zenon DEF Without

LEMMA UnreadType ==
  ASSUME TypeOK
  PROVE  /\ Unread \in Seq(Cell) /\ Len(Unread) = Len(rx) + Len(wire)
         /\ Len(rx) \in Nat /\ Len(wire) \in Nat
         /\ \A i \in DOMAIN rx : Unread[i] = rx[i]
         /\ \A i \in DOMAIN wire : Unread[Len(rx) + i] = wire[i]
  BY SMT DEF TypeOK, Unread

LEMMA UnreadTypes ==
  ASSUME TypeOK, TypeOK'
  PROVE  Unread \in Seq(Cell) /\ Unread' \in Seq(Cell)
  BY SMT DEF TypeOK, Unread

LEMMA SameUnread ==
  ASSUME UNCHANGED <<rx, wire>>
  PROVE  Unread' = Unread
  BY DEF Unread

\* A drain, or the read of a body.
LEMMA DropUnread ==
  ASSUME TypeOK, TypeOK', NEW k \in Nat, rx' = Dropped(rx, k), wire' = wire
  PROVE  /\ k <= Len(rx) => Without(Unread', Unread, k)
         /\ \E d \in Nat : Without(Unread', Unread, d)
<1>1. rx \in Seq(Cell) /\ wire \in Seq(Cell) /\ rx' \in Seq(Cell)
  BY DEF TypeOK
<1>2. CASE k <= Len(rx)
  <2>1. /\ Len(rx') = Len(rx) - k
        /\ \A i \in DOMAIN rx' : rx'[i] = rx[i + k]
    BY <1>1, <1>2, SMT DEF Dropped
  <2>2. Without(rx' \o wire, rx \o wire, k)
    BY <1>1, <2>1, ConcatWithout
  <2> QED BY <1>2, <2>2 DEF Unread
<1>3. CASE Len(rx) < k
  <2>1. Len(rx') = 0 /\ Len(rx) \in Nat
    BY <1>1, <1>3, SMT DEF Dropped
  <2>2. Len(rx') = Len(rx) - Len(rx) /\ \A i \in DOMAIN rx' : rx'[i] = rx[i + Len(rx)]
    BY <1>1, <2>1, SMT
  <2>3. Without(rx' \o wire, rx \o wire, Len(rx))
    BY <1>1, <2>1, <2>2, ConcatWithout
  <2>4. ~(k <= Len(rx))
    BY <1>3, <2>1, SMT
  <2> QED BY <2>1, <2>3, <2>4 DEF Unread
<1> QED BY <1>1, <1>2, <1>3, SMT

LEMMA HeaderUnread ==
  ASSUME TypeOK, TypeOK', rx # << >>, rx' = Tail(rx), wire' = wire
  PROVE  /\ Without(Unread', Unread, 1)
         /\ Unread # << >> /\ Len(Unread') = Len(Unread) - 1
         /\ Unread[1] = Head(rx)
<1>1. rx \in Seq(Cell) /\ wire \in Seq(Cell) /\ rx' \in Seq(Cell)
  BY DEF TypeOK
<1>2. /\ Len(rx) \in Nat \ {0} /\ Len(rx') = Len(rx) - 1
      /\ \A i \in DOMAIN rx' : rx'[i] = rx[i + 1]
      /\ rx[1] = Head(rx)
  BY <1>1, SMT
<1>3. Without(rx' \o wire, rx \o wire, 1) /\ Len(rx' \o wire) = Len(rx \o wire) - 1
  <2> DEFINE k == 1
  <2> k \in Nat /\ Len(rx') = Len(rx) - k /\ \A i \in DOMAIN rx' : rx'[i] = rx[i + k]
    BY <1>2
  <2> HIDE DEF k
  <2>1. Without(rx' \o wire, rx \o wire, k) /\ Len(rx' \o wire) = Len(rx \o wire) - k
    BY <1>1, ConcatWithout, ZenonT(60)
  <2> QED BY <2>1 DEF k
<1>4. /\ Len(rx \o wire) \in Nat \ {0} /\ 1 \in 1 .. Len(rx)
      /\ rx \o wire \in Seq(Cell)
  BY <1>1, <1>2, ConcatShape, SMT
<1>5. (rx \o wire)[1] = rx[1]
  BY <1>1, <1>4, ConcatShape
<1>6. rx \o wire # << >>
  BY <1>4, SMT
<1> QED BY <1>2, <1>3, <1>5, <1>6 DEF Unread

\* A short read of a header: what follows the reply stays where it is.
LEMMA RestUnread ==
  ASSUME TypeOK, TypeOK', rx # << >>, rx' = [rx EXCEPT ![1] = Rest(@)], wire' = wire
  PROVE  /\ Len(Unread') = Len(Unread) /\ 1 \in DOMAIN Unread
         /\ \A i \in DOMAIN Unread \ {1} : Unread'[i] = Unread[i]
         /\ \A i \in DOMAIN Unread : Behind(Unread', i) = Behind(Unread, i)
<1>1. rx \in Seq(Cell) /\ wire \in Seq(Cell) /\ rx' \in Seq(Cell)
  BY DEF TypeOK
<1>2. /\ Len(rx') = Len(rx) /\ 1 \in DOMAIN rx /\ rx'[1] = Rest(rx[1])
      /\ \A i \in DOMAIN rx \ {1} : rx'[i] = rx[i]
  BY <1>1, RestCells
<1>3. /\ Len(rx' \o wire) = Len(rx \o wire) /\ 1 \in DOMAIN (rx \o wire)
      /\ (rx' \o wire)[1] = rx'[1] /\ (rx \o wire)[1] = rx[1]
      /\ \A i \in DOMAIN (rx \o wire) \ {1} : (rx' \o wire)[i] = (rx \o wire)[i]
  BY <1>1, <1>2, SMT
<1>4. /\ Len(Unread') = Len(Unread) /\ 1 \in DOMAIN Unread
      /\ Unread'[1] = Rest(Unread[1])
      /\ \A i \in DOMAIN Unread \ {1} : Unread'[i] = Unread[i]
  BY <1>2, <1>3 DEF Unread
<1>5. Unread[1] \in Cell
  BY <1>4, UnreadType
<1>6. Rest(Unread[1]).of = Unread[1].of /\ Place(Rest(Unread[1])) = Place(Unread[1])
  BY <1>5, SMT DEF Rest, Place, Cell
<1>7. \A i \in DOMAIN Unread : Behind(Unread', i) = Behind(Unread, i)
  BY <1>4, <1>6 DEF Behind
<1> QED BY <1>4, <1>7

LEMMA ArriveUnread ==
  ASSUME TypeOK, TypeOK', Arrive
  PROVE  /\ Len(Unread') = Len(Unread)
         /\ \A i \in DOMAIN Unread : Unread'[i] = Unread[i]
<1>1. rx \in Seq(Cell) /\ wire \in Seq(Cell) /\ wire # << >>
  BY DEF TypeOK, Arrive
<1>2. rx' = Append(rx, Head(wire)) /\ wire' = Tail(wire)
  BY DEF Arrive
<1>3. Head(wire) \in Cell
  BY <1>1, SMT
<1>4. /\ Len(Append(rx, Head(wire)) \o Tail(wire)) = Len(rx \o wire)
      /\ \A i \in DOMAIN (rx \o wire) :
           (Append(rx, Head(wire)) \o Tail(wire))[i] = (rx \o wire)[i]
  BY <1>1, <1>3, SMT
<1> QED BY <1>2, <1>4 DEF Unread

LEMMA AnswerUnread ==
  ASSUME TypeOK, TypeOK', Answer
  PROVE  \E reply \in Reply :
           /\ reply.to \in pending /\ pending' = pending \ {reply.to}
           /\ Len(Unread') = Len(Unread) + reply.size
           /\ \A i \in DOMAIN Unread : Unread'[i] = Unread[i]
           /\ \A i \in 1 .. reply.size :
                Unread'[Len(Unread) + i] = [of |-> reply, off |-> i]
<1> USE ExchangeAssumption
<1>1. PICK r \in pending, n \in Sizes, st \in Statuses :
        /\ wire' = wire \o [i \in 1 .. n |->
                     [of |-> [to |-> r, size |-> n, status |-> st], off |-> i]]
        /\ pending' = pending \ {r}
  BY DEF Answer
<1> DEFINE reply == [to |-> r, size |-> n, status |-> st]
           cells == [i \in 1 .. n |-> [of |-> reply, off |-> i]]
<1>2. reply \in Reply /\ reply.size = n /\ reply.to = r /\ n \in Nat
  BY SMT DEF Reply, TypeOK
<1>3. rx \in Seq(Cell) /\ wire \in Seq(Cell) /\ rx' = rx
  BY DEF TypeOK, Answer
<1>4. cells \in Seq(Cell) /\ DOMAIN cells = 1 .. n /\ Len(cells) = n
  <2>1. cells \in Seq(Cell) /\ DOMAIN cells = 1 .. n
    BY <1>2, ReplyCells
  <2> HIDE DEF cells
  <2> QED BY <1>2, <2>1, SMT
<1>5. \A i \in 1 .. n : cells[i] = [of |-> reply, off |-> i]
  OBVIOUS
<1>6. Unread' = rx \o (wire \o cells)
  BY <1>1, <1>3 DEF Unread
<1> HIDE DEF cells, reply
<1>7. wire \o cells \in Seq(Cell) /\ Len(wire \o cells) = Len(wire) + n
  BY <1>2, <1>3, <1>4, SMT
<1>8. Len(rx \o (wire \o cells)) = Len(rx \o wire) + n
  <2>1. /\ Len(rx \o (wire \o cells)) = Len(rx) + Len(wire \o cells)
        /\ Len(rx) \in Nat
    BY <1>3, <1>7, ConcatShape
  <2>2. Len(rx \o wire) = Len(rx) + Len(wire) /\ Len(wire) \in Nat
    BY <1>3, ConcatShape
  <2> QED BY <1>2, <1>7, <2>1, <2>2, SMT
<1>9. \A i \in DOMAIN (rx \o wire) : (rx \o (wire \o cells))[i] = (rx \o wire)[i]
  BY <1>2, <1>3, <1>4, <1>7, SMT
<1>10. \A i \in 1 .. n : (rx \o (wire \o cells))[Len(rx \o wire) + i] = cells[i]
  BY <1>2, <1>3, <1>4, <1>7, SMT
<1>11. /\ Len(Unread') = Len(Unread) + reply.size
       /\ \A i \in DOMAIN Unread : Unread'[i] = Unread[i]
  BY <1>2, <1>6, <1>8, <1>9 DEF Unread
<1>12. \A i \in 1 .. reply.size : Unread'[Len(Unread) + i] = [of |-> reply, off |-> i]
  BY <1>2, <1>5, <1>6, <1>10 DEF Unread
<1>13. reply \in Reply /\ reply.to \in pending /\ pending' = pending \ {reply.to}
  BY <1>1, <1>2
<1> QED BY <1>11, <1>12, <1>13

LEMMA PeerCloseUnread ==
  ASSUME TypeOK, TypeOK', PeerClose
  PROVE  /\ Len(Unread') <= Len(Unread)
         /\ \A i \in DOMAIN Unread' : Unread'[i] = Unread[i]
<1>1. PICK k \in 0 .. Len(wire) : wire' = SubSeq(wire, 1, k)
  BY DEF PeerClose
<1>2. rx \in Seq(Cell) /\ wire \in Seq(Cell) /\ rx' = rx
  BY DEF TypeOK, PeerClose
<1>3. /\ Len(rx \o SubSeq(wire, 1, k)) <= Len(rx \o wire)
      /\ \A i \in DOMAIN (rx \o SubSeq(wire, 1, k)) :
           (rx \o SubSeq(wire, 1, k))[i] = (rx \o wire)[i]
  BY <1>1, <1>2, SMT
<1> QED BY <1>1, <1>2, <1>3 DEF Unread

-----------------------------------------------------------------------------
\* InSyncAfterReply.  The replies that are unread follow one another, and all
\* of them are there to the end while the target is up.  Of a reply whose
\* header was read there is exactly the announced rest before the next.

StreamInv ==
  /\ Bounded(Unread)
  /\ sock = "closed" => Unread = << >>
  /\ sock = "up" => Whole(Unread)

RestInv ==
  /\ pc = "body" => sock # "closed"
  /\ pc = "body" /\ hdr # NoReply =>
       /\ need + 1 \in DOMAIN Unread => Unread[need + 1].off = 1
       /\ sock = "up" => need <= Len(Unread)

SyncInv == TypeOK /\ StreamInv /\ RestInv /\ InSyncAfterReply

\* A step that takes cells from the stream leaves it in order.
LEMMA WithoutStream ==
  ASSUME TypeOK, TypeOK', StreamInv, sock' = sock, NEW d \in Nat,
         Without(Unread', Unread, d)
  PROVE  StreamInv'
<1>1. Unread \in Seq(Cell) /\ Unread' \in Seq(Cell)
  BY UnreadTypes
<1>2. Bounded(Unread') /\ (Whole(Unread) => Whole(Unread'))
  BY <1>1, WithoutKeeps DEF StreamInv
<1>3. ASSUME Unread = << >> PROVE Unread' = << >>
  <2>1. Unread' # << >> => Len(Unread') = 0 - d /\ Len(Unread') \in Nat \ {0}
    BY <1>1, <1>3, SMT DEF Without
  <2> QED BY <2>1, SMT
<1> QED BY <1>2, <1>3 DEF StreamInv

\* The end of a call that read no intact reply, or that read all of hdr.
LEMMA FinishSync ==
  ASSUME TypeOK, NEW reply, NEW verdicts, Finish(reply, verdicts),
         reply # NoReply => InSync'
  PROVE  RestInv' /\ InSyncAfterReply'
<1>1. pc' = "idle" /\ result'.reply = reply
  BY DEF Finish
<1> QED BY <1>1 DEF RestInv, InSyncAfterReply

LEMMA SyncInit == Init => SyncInv
<1> SUFFICES ASSUME Init PROVE SyncInv
  OBVIOUS
<1>1. TypeOK
  BY TypeInit
<1>2. Unread = << >>
  BY SMT DEF Init, Unread
<1>3. StreamInv
  BY <1>2, SMT DEF StreamInv, Bounded, Whole
<1> QED BY <1>1, <1>2, <1>3, SMT DEF Init, SyncInv, RestInv, InSyncAfterReply, InSync

\* What is read or dropped comes off the front, and the call is over or goes on
\* to a step other than the body.
LEMMA DropSync ==
  ASSUME SyncInv, TypeOK', sock' = sock, NEW k \in Nat, rx' = Dropped(rx, k), wire' = wire
  PROVE  StreamInv'
<1>1. PICK d \in Nat : Without(Unread', Unread, d)
  BY DropUnread DEF SyncInv
<1> QED BY <1>1, WithoutStream DEF SyncInv

LEMMA SyncNext == SyncInv /\ [Next]_vars => SyncInv'
<1> SUFFICES ASSUME SyncInv, [Next]_vars PROVE SyncInv'
  OBVIOUS
<1> USE ExchangeAssumption
<1>0. TypeOK /\ TypeOK' /\ Unread \in Seq(Cell) /\ Unread' \in Seq(Cell)
  <2>1. TypeOK /\ TypeOK'
    BY TypeNext DEF SyncInv
  <2> QED BY <2>1, UnreadTypes
<1>1. ASSUME NEW op \in Ops, Call(op) PROVE SyncInv'
  <2>1. pc' \in {"drain", "send"} /\ Unread' = Unread /\ sock' = sock
    BY <1>1, SameUnread DEF Call, stream
  <2> QED BY <1>0, <2>1 DEF SyncInv, StreamInv, RestInv, InSyncAfterReply
<1>2. CASE OpenSession
  <2>1. /\ pc' = pc /\ result' = result /\ hdr' = hdr /\ need' = need
        /\ Unread' = Unread /\ sock' = "up" /\ sock = "closed"
    BY <1>2, SameUnread DEF OpenSession, stream
  <2>2. Unread = << >>
    BY <2>1 DEF SyncInv, StreamInv
  <2>3. StreamInv' /\ RestInv' /\ InSyncAfterReply'
    <3>1. Unread' = << >>
      BY <2>1, <2>2
    <3>2. StreamInv' /\ InSyncAfterReply'
      BY <2>1, <3>1, SMT DEF StreamInv, Bounded, Whole, InSyncAfterReply, InSync
    <3>3. RestInv'
      BY <2>1 DEF SyncInv, RestInv
    <3> QED BY <3>2, <3>3
  <2> QED BY <1>0, <2>3 DEF SyncInv
<1>3. CASE CloseSession
  <2>1. pc' = "idle" /\ wire' = << >> /\ rx' = << >> /\ sock' = "closed"
    BY <1>3 DEF CloseSession, client
  <2>2. Unread' = << >>
    BY <2>1, SMT DEF Unread
  <2> QED BY <1>0, <2>1, <2>2, SMT
          DEF SyncInv, StreamInv, Bounded, RestInv, InSyncAfterReply, InSync
<1>4. CASE EmptyBuffer
  <2>1. StreamInv'
    BY <1>0, <1>4, DropSync DEF EmptyBuffer
  <2> QED BY <1>0, <1>4, <2>1 DEF EmptyBuffer, SyncInv, RestInv, InSyncAfterReply
<1>5. CASE SendRequest
  <2>1. StreamInv'
    BY <1>0, <1>5, DropSync DEF SendRequest
  <2>2. pc' = "select" \/ (pc' = "idle" /\ result'.reply = NoReply)
    BY <1>5 DEF SendRequest
  <2> QED BY <1>0, <2>1, <2>2 DEF SyncInv, RestInv, InSyncAfterReply
<1>6. CASE SendFails
  <2>1. StreamInv'
    BY <1>0, <1>6, DropSync DEF SendFails
  <2>2. CASE pc' = "select"
    BY <1>0, <2>1, <2>2 DEF SyncInv, RestInv, InSyncAfterReply
  <2>3. CASE Finish(NoReply, {FALSE})
    BY <1>0, <2>1, <2>3, FinishSync DEF SyncInv
  <2> QED BY <1>6, <2>2, <2>3 DEF SendFails
<1>6a. CASE SendKills
  <2>1. pc' = "killed" /\ wire' = << >> /\ rx' = << >> /\ sock' = "closed"
    BY <1>6a DEF SendKills
  <2>2. Unread' = << >>
    BY <2>1, SMT DEF Unread
  <2> QED BY <1>0, <2>1, <2>2, SMT DEF StreamInv, Bounded, SyncInv, RestInv, InSyncAfterReply
<1>7. CASE RecvTimeout
  <2>1. StreamInv'
    BY <1>7, SameUnread DEF RecvTimeout, stream, SyncInv, StreamInv
  <2> QED BY <1>0, <1>7, <2>1, FinishSync DEF RecvTimeout, SyncInv
<1>8. CASE RecvHeader
  <2>1. /\ rx # << >> /\ rx' = Tail(rx) /\ wire' = wire /\ sock' = sock
        /\ pc' = "body"
    BY <1>8 DEF RecvHeader
  <2>2. /\ Without(Unread', Unread, 1)
        /\ Unread # << >> /\ Len(Unread') = Len(Unread) - 1
        /\ Unread[1] = Head(rx)
    BY <1>0, <2>1, HeaderUnread
  <2>3. StreamInv'
    <3>1. 1 \in Nat
      OBVIOUS
    <3> QED BY <1>0, <2>1, <2>2, <3>1, WithoutStream DEF SyncInv
  <2>4. RestInv'
    <3>0. sock' # "closed"
      BY <2>1, <2>2 DEF SyncInv, StreamInv
    <3> SUFFICES ASSUME hdr' # NoReply
                 PROVE  /\ need' + 1 \in DOMAIN Unread' => Unread'[need' + 1].off = 1
                        /\ sock' = "up" => need' <= Len(Unread')
      BY <3>0 DEF RestInv
    <3>1. /\ Unread[1].off = 1 /\ need' = Unread[1].of.size - 1
      BY <1>8, <2>2 DEF RecvHeader
    <3>2. 1 \in DOMAIN Unread /\ Unread[1].of.size \in Nat
      <4>1. 1 \in DOMAIN Unread
        BY <1>0, <2>2, SMT
      <4> QED BY <1>0, <4>1, CellType
    <3>3. Behind(Unread, 1) = need' + 2
      BY <3>1, <3>2, SMT DEF Behind, Place
    <3>4. ASSUME need' + 1 \in DOMAIN Unread' PROVE Unread'[need' + 1].off = 1
      <4>1. need' + 2 \in DOMAIN Unread /\ Unread'[need' + 1] = Unread[need' + 2]
        <5>1. Unread'[need' + 1] = Unread[(need' + 1) + 1] /\ (need' + 1) + 1 = need' + 2
          BY <2>2, <3>1, <3>2, <3>4, SMT DEF Without
        <5>2. need' + 2 \in DOMAIN Unread
          BY <1>0, <2>2, <3>1, <3>2, <3>4, SMT
        <5> QED BY <5>1, <5>2
      <4> QED BY <3>2, <3>3, <4>1 DEF SyncInv, StreamInv, Bounded
    <3>5. ASSUME sock' = "up" PROVE need' <= Len(Unread')
      <4>1. Behind(Unread, 1) <= Len(Unread) + 1
        BY <2>1, <3>2, <3>5 DEF SyncInv, StreamInv, Whole
      <4>2. Len(Unread) \in Nat
        BY <1>0, SMT
      <4> QED BY <2>2, <3>1, <3>2, <3>3, <4>1, <4>2, SMT
    <3> QED BY <3>4, <3>5
  <2> QED BY <1>0, <2>1, <2>3, <2>4 DEF SyncInv, InSyncAfterReply
<1>8a. CASE RecvPartOfHeader
  <2>1. /\ pc' = "body" /\ hdr' = NoReply /\ sock' = sock
        /\ rx # << >> /\ rx' = [rx EXCEPT ![1] = Rest(@)] /\ wire' = wire
    BY <1>8a DEF RecvPartOfHeader
  <2>2. /\ Len(Unread') = Len(Unread) /\ 1 \in DOMAIN Unread
        /\ \A i \in DOMAIN Unread \ {1} : Unread'[i] = Unread[i]
        /\ \A i \in DOMAIN Unread : Behind(Unread', i) = Behind(Unread, i)
    BY <1>0, <2>1, RestUnread
  <2>3. DOMAIN Unread' = DOMAIN Unread /\ Unread # << >>
    BY <1>0, <2>2, SMT
  <2>4. Bounded(Unread')
    <3> SUFFICES ASSUME NEW i \in DOMAIN Unread, Behind(Unread, i) \in DOMAIN Unread
                 PROVE  Unread'[Behind(Unread, i)].off = 1
      BY <2>2, <2>3 DEF Bounded
    <3>1. Behind(Unread, i) # 1
      BY <1>0, CellType, SMT
    <3> QED BY <2>2, <3>1 DEF SyncInv, StreamInv, Bounded
  <2>5. Whole(Unread) => Whole(Unread')
    BY <2>2, <2>3 DEF Whole
  <2>6. sock' # "closed" /\ StreamInv'
    BY <2>1, <2>3, <2>4, <2>5 DEF SyncInv, StreamInv
  <2> QED BY <1>0, <2>1, <2>6 DEF SyncInv, RestInv, InSyncAfterReply
<1>9. CASE RecvHeaderAtEof
  <2>1. StreamInv'
    BY <1>9, SameUnread DEF RecvHeaderAtEof, stream, SyncInv, StreamInv
  <2> QED BY <1>0, <1>9, <2>1, FinishSync DEF RecvHeaderAtEof, SyncInv
<1>10. CASE RecvBody
  <2>1. /\ pc = "body" /\ need <= Len(rx) /\ rx' = Dropped(rx, need) /\ wire' = wire
        /\ sock' = sock /\ Finish(hdr, Verdicts(hdr)) /\ need \in Nat
    BY <1>0, <1>10 DEF RecvBody, TypeOK
  <2>2. StreamInv'
    BY <1>0, <2>1, DropSync
  <2>3. ASSUME hdr # NoReply PROVE InSync'
    <3> SUFFICES ASSUME Unread' # << >> PROVE Unread'[1].off = 1
      BY DEF InSync
    <3>1. Without(Unread', Unread, need)
      BY <1>0, <2>1, DropUnread
    <3>2. 1 \in DOMAIN Unread' /\ 1 + need \in DOMAIN Unread /\ 1 + need = need + 1
      BY <1>0, <2>1, <3>1, SMT DEF Without
    <3>3. Unread'[1] = Unread[need + 1]
      BY <3>1, <3>2 DEF Without
    <3> QED BY <2>1, <2>3, <3>2, <3>3 DEF SyncInv, RestInv
  <2> QED BY <1>0, <2>1, <2>2, <2>3, FinishSync DEF SyncInv
<1>11. CASE RecvShortBody
  <2>1. /\ rx' = << >> /\ wire' = wire /\ sock' = sock /\ Finish(NoReply, BOOLEAN)
    BY <1>11 DEF RecvShortBody
  <2>2. Len(rx) \in Nat /\ rx' = Dropped(rx, Len(rx))
    BY <1>0, <2>1, SMT DEF TypeOK, Dropped
  <2>3. StreamInv'
    BY <1>0, <2>1, <2>2, DropSync
  <2> QED BY <1>0, <2>1, <2>3, FinishSync DEF SyncInv
<1>12. CASE Answer
  <2>1. PICK reply \in Reply :
           /\ Len(Unread') = Len(Unread) + reply.size
           /\ \A i \in DOMAIN Unread : Unread'[i] = Unread[i]
           /\ \A i \in 1 .. reply.size :
                Unread'[Len(Unread) + i] = [of |-> reply, off |-> i]
    BY <1>0, <1>12, AnswerUnread
  <2>2. /\ sock = "up" /\ sock' = "up" /\ pc' = pc /\ hdr' = hdr /\ need' = need
        /\ result' = result
    BY <1>12 DEF Answer, client
  <2>3. StreamInv'
    BY <1>0, <2>1, <2>2, AnswerBounded DEF SyncInv, StreamInv
  <2>4. Len(Unread) \in Nat /\ reply.size \in Nat \ {0} /\ need \in Nat
    BY <1>0, SMT DEF Reply, TypeOK
  <2>5. Unread'[Len(Unread) + 1].off = 1
    <3>1. 1 \in 1 .. reply.size
      BY <2>4, SMT
    <3>2. Unread'[Len(Unread) + 1] = [of |-> reply, off |-> 1]
      BY <2>1, <3>1
    <3> QED BY <3>2
  <2>6. RestInv'
    <3> SUFFICES ASSUME pc = "body", hdr # NoReply
                 PROVE  /\ need + 1 \in DOMAIN Unread' => Unread'[need + 1].off = 1
                        /\ need <= Len(Unread')
      BY <2>2 DEF RestInv
    <3>1. need <= Len(Unread) /\ (need + 1 \in DOMAIN Unread => Unread[need + 1].off = 1)
      BY <2>2 DEF SyncInv, RestInv
    <3>2. CASE need + 1 \in DOMAIN Unread
      BY <2>1, <2>4, <3>1, <3>2, SMT
    <3>3. CASE need + 1 \notin DOMAIN Unread
      <4>1. need = Len(Unread)
        BY <1>0, <2>4, <3>1, <3>3, SMT
      <4> QED BY <2>1, <2>4, <2>5, <4>1, SMT
    <3> QED BY <3>2, <3>3
  <2>7. InSyncAfterReply'
    <3> SUFFICES ASSUME pc = "idle", result.reply # NoReply PROVE Unread'[1].off = 1
      BY <2>2 DEF InSyncAfterReply, InSync
    <3>1. Unread # << >> => Unread[1].off = 1
      BY DEF SyncInv, InSyncAfterReply, InSync
    <3>2. CASE Unread = << >>
      <4>1. Len(Unread) + 1 = 1
        BY <3>2, SMT
      <4> QED BY <2>5, <4>1
    <3>3. CASE Unread # << >>
      <4>1. 1 \in DOMAIN Unread
        BY <1>0, <3>3, SMT
      <4> QED BY <2>1, <3>1, <3>3, <4>1
    <3> QED BY <3>2, <3>3
  <2> QED BY <1>0, <2>3, <2>6, <2>7 DEF SyncInv
<1>13. CASE Arrive
  <2>1. Unread' = Unread
    <3>1. /\ Len(Unread') = Len(Unread)
          /\ \A i \in DOMAIN Unread : Unread'[i] = Unread[i]
      BY <1>0, <1>13, ArriveUnread
    <3> QED BY <1>0, <3>1, SMT
  <2>2. /\ sock' = sock /\ pc' = pc /\ hdr' = hdr /\ need' = need /\ result' = result
    BY <1>13 DEF Arrive, client
  <2> QED BY <1>0, <2>1, <2>2 DEF SyncInv, StreamInv, RestInv, InSyncAfterReply, InSync
<1>14. CASE PeerClose
  <2>1. /\ Len(Unread') <= Len(Unread)
        /\ \A i \in DOMAIN Unread' : Unread'[i] = Unread[i]
    BY <1>0, <1>14, PeerCloseUnread
  <2>2. /\ sock' = "eof" /\ pc' = pc /\ hdr' = hdr /\ need' = need /\ result' = result
    BY <1>14 DEF PeerClose, client
  <2>3. StreamInv'
    BY <1>0, <2>1, <2>2, PrefixBounded DEF SyncInv, StreamInv
  <2>4. DOMAIN Unread' \subseteq DOMAIN Unread
    BY <1>0, <2>1, SMT
  <2>5. RestInv'
    BY <2>1, <2>2, <2>4 DEF SyncInv, RestInv
  <2>6. InSyncAfterReply'
    <3>1. Unread' # << >> => Unread # << >> /\ Unread'[1] = Unread[1]
      BY <1>0, <2>1, SMT
    <3> QED BY <2>2, <3>1 DEF SyncInv, InSyncAfterReply, InSync
  <2> QED BY <1>0, <2>3, <2>5, <2>6 DEF SyncInv
<1>15. CASE UNCHANGED vars
  <2>1. /\ sock' = sock /\ pc' = pc /\ hdr' = hdr /\ need' = need /\ result' = result
        /\ Unread' = Unread
    BY <1>15, SameUnread DEF vars, client, stream
  <2> QED BY <1>0, <2>1 DEF SyncInv, StreamInv, RestInv, InSyncAfterReply, InSync
<1> QED BY <1>1, <1>2, <1>3, <1>4, <1>5, <1>6, <1>6a, <1>7, <1>8, <1>8a, <1>9,
           <1>10, <1>11, <1>12, <1>13, <1>14, <1>15 DEF Next, InCall

\* A reply that a call read in full leaves the socket on a boundary between two
\* replies (_CipRecvData, SendData.c:188-209), whatever the drains before it
\* have torn, with and without MSG_WAITALL.
THEOREM InSyncAfterReplyAlways == Spec => []InSyncAfterReply
<1>1. Init => SyncInv
  BY SyncInit
<1>2. SyncInv /\ [Next]_vars => SyncInv'
  BY SyncNext
<1>3. SyncInv => InSyncAfterReply
  BY DEF SyncInv
<1> QED BY <1>1, <1>2, <1>3, PTL DEF Spec

-----------------------------------------------------------------------------
\* QuietUntilFailure and CarefulOwnReply.  Where recv waits for all it was asked
\* for, the only request the target holds and the only reply on its way are, until
\* a call fails, those of the call in progress.

\* The cells that are unread are the first ones of one reply to the request.
OneReply ==
  /\ pending \subseteq {req}
  /\ Unread # << >> =>
       /\ pending = {} /\ Unread[1].of.to = req
       /\ \A i \in DOMAIN Unread : Unread[i].of = Unread[1].of /\ Unread[i].off = i
       /\ Len(Unread) <= Unread[1].of.size

Nothing == pending = {} /\ Unread = << >>

RestOfReply ==
  /\ hdr # NoReply /\ hdr.to = req /\ pending = {}
  /\ Len(Unread) <= need

Alone ==
  /\ sock # "up" => pending = {}
  /\ sock = "closed" => pc \in {"idle", "killed"} /\ Nothing
  /\ pc = "killed" => sock = "closed"
  /\ Careful /\ failed /\ pc # "idle"
       => req.op \in {"ForwardClose", "UnRegisterSession"}
  /\ pc \in {"select", "body"} => req.op # "UnRegisterSession"
  /\ ~failed =>
       /\ pc \in {"idle", "drain", "send"} => Nothing
       /\ pc = "select" => OneReply
       /\ pc = "body" => RestOfReply

QuietInv == TypeOK /\ (WaitAll => Alone) /\ CarefulOwnReply

LEMMA EmptyStays ==
  ASSUME TypeOK, TypeOK', NEW k \in Nat, rx' = Dropped(rx, k), wire' = wire,
         Unread = << >>
  PROVE  Unread' = << >>
<1>1. PICK d \in Nat : Without(Unread', Unread, d)
  BY DropUnread
<1>2. Unread' \in Seq(Cell)
  BY UnreadTypes
<1>3. Unread' # << >> => Len(Unread') = 0 - d /\ Len(Unread') \in Nat \ {0}
  BY <1>1, <1>2, SMT DEF Without
<1> QED BY <1>3, SMT

\* The end of a call: it failed, or nothing is left of the exchange.
LEMMA FinishAlone ==
  ASSUME TypeOK, Alone, pc \in {"send", "select", "body"}, sock' = sock,
         pending' = pending, req' = req,
         NEW reply, NEW verdicts \in SUBSET BOOLEAN, Finish(reply, verdicts),
         ~failed => verdicts = {FALSE} \/ Nothing',
         reply # NoReply => pc = "body" /\ reply = hdr
  PROVE  Alone' /\ CarefulOwnReply'
<1>1. PICK ok \in verdicts :
        /\ result' = [req |-> req, reply |-> reply, ok |-> ok]
        /\ failed' = (failed \/ ~ok)
  BY DEF Finish
<1>2. pc' = "idle" /\ ok \in BOOLEAN /\ failed \in BOOLEAN
  BY <1>1 DEF Finish, TypeOK
<1>3. ~failed' => Nothing'
  BY <1>1, <1>2
<1>4. sock' # "closed"
  BY DEF Alone
<1>5. Alone'
  BY <1>2, <1>3, <1>4 DEF Alone
<1>6. CarefulOwnReply'
  <2>1. result'.req = req /\ result'.reply = reply
    BY <1>1
  <2>2. ASSUME Careful, reply # NoReply, req.op # "ForwardClose" PROVE reply.to = req
    <3>1. ~failed
      BY <2>2, <1>2 DEF Alone
    <3> QED BY <2>2, <3>1 DEF Alone, RestOfReply
  <2> QED BY <2>1, <2>2 DEF CarefulOwnReply
<1> QED BY <1>5, <1>6

LEMMA QuietInit == Init => QuietInv
<1> SUFFICES ASSUME Init PROVE QuietInv
  OBVIOUS
<1>1. TypeOK
  BY TypeInit
<1>2. Nothing
  BY SMT DEF Init, Unread, Nothing
<1> QED BY <1>1, <1>2, SMT DEF Init, QuietInv, Alone, CarefulOwnReply

LEMMA QuietNext == QuietInv /\ [Next]_vars => QuietInv'
<1> SUFFICES ASSUME QuietInv, [Next]_vars PROVE QuietInv'
  OBVIOUS
<1>0. TypeOK /\ TypeOK' /\ Unread \in Seq(Cell) /\ Unread' \in Seq(Cell)
  <2>1. TypeOK /\ TypeOK'
    BY TypeNext DEF QuietInv
  <2> QED BY <2>1, UnreadTypes
<1> SUFFICES ASSUME WaitAll PROVE Alone' /\ CarefulOwnReply'
  BY <1>0 DEF QuietInv, CarefulOwnReply
<1> USE ExchangeAssumption
<1>a. Alone /\ CarefulOwnReply
  BY DEF QuietInv
<1>1. ASSUME NEW op \in Ops, Call(op) PROVE Alone' /\ CarefulOwnReply'
  <2>1. /\ pc = "idle" /\ pc' \in {"drain", "send"} /\ sock # "closed" /\ sock' = sock
        /\ pending' = pending /\ Unread' = Unread /\ req'.op = op
        /\ failed' = failed /\ result' = result
        /\ Careful /\ failed => op \in {"ForwardClose", "UnRegisterSession"}
    <3>1. Unread' = Unread
      BY <1>1, SameUnread DEF Call, stream
    <3>2. req'.op = op
      BY <1>1, SMT DEF Call
    <3>3. Careful /\ failed => op \in {"ForwardClose", "UnRegisterSession"}
      BY <1>1 DEF Call, Legal
    <3> QED BY <1>1, <3>1, <3>2, <3>3 DEF Call, stream
  <2>2. ~failed => Nothing'
    BY <1>a, <2>1 DEF Alone, Nothing
  <2>3. Alone'
    BY <1>a, <2>1, <2>2 DEF Alone
  <2> QED BY <1>a, <2>1, <2>3 DEF CarefulOwnReply
<1>2. CASE OpenSession
  <2>1. /\ sock = "closed" /\ sock' = "up" /\ pc' = pc /\ req' = req /\ result' = result
        /\ pending' = pending /\ Unread' = Unread
    BY <1>2, SameUnread DEF OpenSession, stream
  <2>2. pc' = "idle" /\ Nothing'
    BY <1>2, <1>a, <2>1 DEF Alone, Nothing, OpenSession
  <2> QED BY <1>a, <2>1, <2>2 DEF Alone, CarefulOwnReply
<1>3. CASE CloseSession
  <2>1. /\ pc' = "idle" /\ wire' = << >> /\ rx' = << >> /\ pending' = {} /\ result' = result
    BY <1>3 DEF CloseSession, client
  <2>2. Nothing'
    BY <2>1, SMT DEF Unread, Nothing
  <2> QED BY <1>a, <2>1, <2>2 DEF Alone, CarefulOwnReply, Nothing
<1>4. CASE EmptyBuffer
  <2>1. /\ pc = "drain" /\ pc' = "send" /\ rx' = Dropped(rx, DrainMax) /\ wire' = wire
        /\ sock' = sock /\ req' = req /\ failed' = failed /\ pending' = pending
        /\ result' = result
    BY <1>4 DEF EmptyBuffer
  <2>2. ~failed => Nothing'
    BY <1>0, <1>a, <2>1, EmptyStays DEF Alone, Nothing
  <2> QED BY <1>a, <2>1, <2>2 DEF Alone, CarefulOwnReply
<1>5. CASE SendRequest
  <2>1. /\ pc = "send" /\ rx' = Dropped(rx, DrainMax) /\ wire' = wire
        /\ sock' = sock /\ req' = req /\ failed' = failed
    BY <1>5 DEF SendRequest
  <2>2. sock # "closed" /\ (sock # "up" => pending = {})
    BY <1>a, <2>1 DEF Alone
  <2>3. ~failed => pending = {} /\ Unread' = << >>
    BY <1>0, <1>a, <2>1, EmptyStays DEF Alone, Nothing
  <2>4. CASE req.op = "UnRegisterSession"
    <3>1. /\ pc' = "idle" /\ result'.reply = NoReply /\ pending' = pending
      BY <1>5, <2>4 DEF SendRequest
    <3> QED BY <2>1, <2>2, <2>3, <3>1 DEF Alone, Nothing, CarefulOwnReply
  <2>5. CASE req.op # "UnRegisterSession"
    <3>1. /\ pc' = "select" /\ result' = result
          /\ pending' = IF sock = "up" THEN pending \cup {req} ELSE pending
      BY <1>5, <2>5 DEF SendRequest
    <3>2. ~failed => OneReply'
      BY <2>1, <2>3, <3>1 DEF OneReply
    <3>3. Careful /\ failed => req.op \in {"ForwardClose", "UnRegisterSession"}
      BY <1>a, <2>1 DEF Alone
    <3> QED BY <1>a, <2>1, <2>2, <2>5, <3>1, <3>2, <3>3 DEF Alone, CarefulOwnReply
  <2> QED BY <2>4, <2>5
<1>6. CASE SendFails
  <2>1. /\ pc = "send" /\ sock = "eof" /\ rx' = Dropped(rx, DrainMax) /\ wire' = wire
        /\ sock' = sock /\ req' = req /\ pending' = pending
    BY <1>6 DEF SendFails
  <2>2. CASE req.op \in MROps \cup {"ConnectedSend"}
    <3>1. pc' = "select" /\ failed' = failed /\ result' = result
      BY <1>6, <2>2 DEF SendFails, connection
    <3>2. ~failed => OneReply'
      <4>1. ~failed => pending = {} /\ Unread' = << >>
        BY <1>0, <1>a, <2>1, EmptyStays DEF Alone, Nothing
      <4> QED BY <2>1, <4>1 DEF OneReply
    <3>3. req.op # "UnRegisterSession"
      BY <2>2 DEF MROps
    <3> QED BY <1>a, <2>1, <3>1, <3>2, <3>3 DEF Alone, CarefulOwnReply
  <2>3. CASE Finish(NoReply, {FALSE})
    BY <1>0, <1>a, <2>1, <2>3, FinishAlone
  <2> QED BY <1>6, <2>2, <2>3 DEF SendFails
<1>6a. CASE SendKills
  <2>1. /\ pc = "send" /\ pc' = "killed" /\ wire' = << >> /\ rx' = << >> /\ pending' = {}
        /\ result' = result /\ req' = req /\ failed' = failed /\ sock' = "closed"
    BY <1>6a DEF SendKills
  <2>2. Nothing'
    BY <2>1, SMT DEF Unread, Nothing
  <2> QED BY <1>a, <2>1, <2>2 DEF Alone, CarefulOwnReply, Nothing
<1>7. CASE RecvTimeout
  <2>1. /\ pc = "select" /\ sock' = sock /\ req' = req /\ pending' = pending
        /\ Finish(NoReply, {FALSE})
    BY <1>7 DEF RecvTimeout, stream
  <2> QED BY <1>0, <1>a, <2>1, FinishAlone
<1>8. CASE RecvHeader
  <2>1. /\ pc = "select" /\ rx # << >> /\ rx' = Tail(rx) /\ wire' = wire /\ sock' = sock
        /\ pc' = "body" /\ req' = req /\ failed' = failed /\ pending' = pending
        /\ result' = result
    BY <1>8 DEF RecvHeader
  <2>2. /\ Unread # << >> /\ Len(Unread') = Len(Unread) - 1 /\ Unread[1] = Head(rx)
    BY <1>0, <2>1, HeaderUnread
  <2>3. ASSUME ~failed PROVE RestOfReply'
    <3>1. OneReply /\ 1 \in DOMAIN Unread
      BY <1>0, <1>a, <2>1, <2>2, <2>3, SMT DEF Alone
    <3>2. Unread[1].off = 1 /\ Unread[1].of \in Reply /\ Unread[1].of.size \in Nat
      BY <1>0, <2>2, <3>1, CellType DEF OneReply
    <3>3. hdr' = Unread[1].of /\ need' = Unread[1].of.size - 1
      BY <1>8, <2>2, <3>2 DEF RecvHeader
    <3>4. hdr' # NoReply /\ hdr'.to = req /\ pending = {}
      BY <2>2, <3>1, <3>2, <3>3 DEF OneReply
    <3>5. Len(Unread) <= Unread[1].of.size /\ Len(Unread) \in Nat
      BY <1>0, <2>2, <3>1, SMT DEF OneReply
    <3>6. Len(Unread') <= need'
      BY <2>2, <3>2, <3>3, <3>5, SMT
    <3> QED BY <2>1, <3>4, <3>6 DEF RestOfReply
  <2> QED BY <1>a, <2>1, <2>3 DEF Alone, CarefulOwnReply
<1>8a. CASE RecvPartOfHeader
  BY <1>8a DEF RecvPartOfHeader
<1>9. CASE RecvHeaderAtEof
  <2>1. /\ pc = "select" /\ sock = "eof" /\ sock' = sock /\ req' = req /\ pending' = pending
        /\ Finish(NoReply, BOOLEAN) /\ rx = << >> /\ wire = << >>
        /\ rx' = rx /\ wire' = wire
    BY <1>9 DEF RecvHeaderAtEof, stream
  <2>2. Unread' = << >>
    BY <2>1, SMT DEF Unread
  <2>3. Nothing'
    BY <1>a, <2>1, <2>2 DEF Alone, Nothing
  <2> QED BY <1>0, <1>a, <2>1, <2>3, FinishAlone
<1>10. CASE RecvBody
  <2>1. /\ pc = "body" /\ need <= Len(rx) /\ rx' = Dropped(rx, need) /\ wire' = wire
        /\ sock' = sock /\ req' = req /\ pending' = pending
        /\ Finish(hdr, Verdicts(hdr)) /\ need \in Nat
    BY <1>0, <1>10 DEF RecvBody, TypeOK
  <2>2. ASSUME ~failed PROVE Nothing'
    <3>1. pending = {} /\ Len(Unread) <= need
      BY <1>a, <2>1, <2>2 DEF Alone, RestOfReply
    <3>2. Without(Unread', Unread, need)
      BY <1>0, <2>1, DropUnread
    <3>3. Unread' = << >>
      BY <1>0, <2>1, <3>1, <3>2, SMT DEF Without
    <3> QED BY <2>1, <3>1, <3>3 DEF Nothing
  <2> QED BY <1>0, <1>a, <2>1, <2>2, VerdictsType, FinishAlone
<1>11. CASE RecvShortBody
  <2>1. /\ pc = "body" /\ rx' = << >> /\ wire' = wire /\ sock' = sock /\ req' = req
        /\ pending' = pending /\ Finish(NoReply, BOOLEAN)
        /\ sock = "eof" /\ wire = << >>
    BY <1>11 DEF RecvShortBody
  <2>2. Unread' = << >>
    BY <2>1, SMT DEF Unread
  <2>3. Nothing'
    BY <1>a, <2>1, <2>2 DEF Alone, Nothing
  <2> QED BY <1>0, <1>a, <2>1, <2>3, FinishAlone
<1>12. CASE Answer
  <2>1. PICK reply \in Reply :
           /\ reply.to \in pending /\ pending' = pending \ {reply.to}
           /\ Len(Unread') = Len(Unread) + reply.size
           /\ \A i \in 1 .. reply.size :
                Unread'[Len(Unread) + i] = [of |-> reply, off |-> i]
    BY <1>0, <1>12, AnswerUnread
  <2>2. /\ sock = "up" /\ sock' = "up" /\ pc' = pc /\ req' = req /\ failed' = failed
        /\ result' = result
    BY <1>12 DEF Answer, client
  <2>3. ASSUME ~failed PROVE pc = "select" /\ OneReply'
    <3>1. pc = "select" /\ OneReply
      BY <1>0, <1>a, <2>1, <2>2, <2>3 DEF Alone, Nothing, RestOfReply, TypeOK
    <3>2. Unread = << >> /\ reply.to = req /\ pending' = {}
      BY <2>1, <3>1 DEF OneReply
    <3>3. Len(Unread) = 0 /\ reply.size \in Nat \ {0}
      BY <3>2, SMT DEF Reply
    <3>4. /\ Len(Unread') = reply.size /\ DOMAIN Unread' = 1 .. reply.size
          /\ \A i \in 1 .. reply.size : Len(Unread) + i = i
      BY <1>0, <2>1, <3>3, SMT
    <3>5. ASSUME NEW i \in DOMAIN Unread'
          PROVE  Unread'[i].of = reply /\ Unread'[i].off = i
      <4>1. Unread'[i] = [of |-> reply, off |-> i]
        BY <2>1, <3>4
      <4> QED BY <4>1
    <3>6. 1 \in DOMAIN Unread' /\ Len(Unread') <= reply.size
      BY <3>3, <3>4, SMT
    <3> QED BY <2>2, <3>1, <3>2, <3>5, <3>6 DEF OneReply
  <2> QED BY <1>a, <2>2, <2>3 DEF Alone, CarefulOwnReply
<1>13. CASE Arrive
  <2>1. Unread' = Unread
    <3>1. /\ Len(Unread') = Len(Unread)
          /\ \A i \in DOMAIN Unread : Unread'[i] = Unread[i]
      BY <1>0, <1>13, ArriveUnread
    <3> QED BY <1>0, <3>1, SMT
  <2>2. /\ sock' = sock /\ pc' = pc /\ hdr' = hdr /\ need' = need /\ result' = result
        /\ req' = req /\ failed' = failed /\ pending' = pending
    BY <1>13 DEF Arrive, client
  <2> QED BY <1>a, <2>1, <2>2 DEF Alone, Nothing, OneReply, RestOfReply, CarefulOwnReply
<1>14. CASE PeerClose
  <2>1. /\ Len(Unread') <= Len(Unread)
        /\ \A i \in DOMAIN Unread' : Unread'[i] = Unread[i]
    BY <1>0, <1>14, PeerCloseUnread
  <2>2. /\ sock = "up" /\ sock' = "eof" /\ pc' = pc /\ hdr' = hdr /\ need' = need
        /\ result' = result /\ req' = req /\ failed' = failed /\ pending' = {}
    BY <1>14 DEF PeerClose, client
  <2>3. Nothing => Nothing'
    BY <1>0, <2>1, <2>2, SMT DEF Nothing
  <2>4. RestOfReply => RestOfReply'
    BY <1>0, <2>1, <2>2, SMT DEF RestOfReply, TypeOK
  <2>5. ASSUME OneReply PROVE OneReply'
    <3> SUFFICES ASSUME Unread' # << >>
                 PROVE  /\ Unread'[1].of.to = req
                        /\ \A i \in DOMAIN Unread' :
                             Unread'[i].of = Unread'[1].of /\ Unread'[i].off = i
                        /\ Len(Unread') <= Unread'[1].of.size
      BY <2>2 DEF OneReply
    <3>1. /\ Unread # << >> /\ 1 \in DOMAIN Unread' /\ 1 \in DOMAIN Unread
          /\ DOMAIN Unread' \subseteq DOMAIN Unread
      BY <1>0, <2>1, SMT
    <3>2. Unread'[1] = Unread[1] /\ Unread[1].of.size \in Nat
      BY <1>0, <2>1, <3>1, CellType
    <3>3. Len(Unread') <= Unread'[1].of.size
      BY <1>0, <2>1, <2>5, <3>1, <3>2, SMT DEF OneReply
    <3> QED BY <2>1, <2>5, <3>1, <3>2, <3>3 DEF OneReply
  <2> QED BY <1>a, <2>2, <2>3, <2>4, <2>5 DEF Alone, CarefulOwnReply
<1>15. CASE UNCHANGED vars
  <2>1. /\ sock' = sock /\ pc' = pc /\ hdr' = hdr /\ need' = need /\ result' = result
        /\ req' = req /\ failed' = failed /\ pending' = pending /\ Unread' = Unread
    BY <1>15, SameUnread DEF vars, client, stream
  <2> QED BY <1>a, <2>1 DEF Alone, Nothing, OneReply, RestOfReply, CarefulOwnReply
<1> QED BY <1>1, <1>2, <1>3, <1>4, <1>5, <1>6, <1>6a, <1>7, <1>8, <1>8a, <1>9,
           <1>10, <1>11, <1>12, <1>13, <1>14, <1>15 DEF Next, InCall

\* On a system where recv waits for all it was asked for, no answer is owed and no
\* byte unread between the calls of a session until one fails, and every read until
\* then starts on a boundary between replies (SendData.c:134-239).
THEOREM QuietUntilFailureAlways == Spec => []QuietUntilFailure
<1>1. Init => QuietInv
  BY QuietInit
<1>2. QuietInv /\ [Next]_vars => QuietInv'
  BY QuietNext
<1>3. QuietInv => QuietUntilFailure
  BY DEF QuietInv, QuietUntilFailure, Alone, Nothing, OneReply, InSync
<1> QED BY <1>1, <1>2, <1>3, PTL DEF Spec

\* A caller that only closes once a call has failed (the poll loop of
\* ethernetip_client.cpp:716-729), on a system where recv waits for all it was
\* asked for, never takes the reply to one request for the reply to another.
THEOREM CarefulOwnReplyAlways == Spec => []CarefulOwnReply
<1>1. Init => QuietInv
  BY QuietInit
<1>2. QuietInv /\ [Next]_vars => QuietInv'
  BY QuietNext
<1>3. QuietInv => CarefulOwnReply
  BY DEF QuietInv
<1> QED BY <1>1, <1>2, <1>3, PTL DEF Spec
=============================================================================
