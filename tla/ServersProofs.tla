---------------------------- MODULE ServersProofs ----------------------------
(* Proofs about the server thread: for any number of connections, lines and
   messages, the single connection pointer is enough for users that come one at
   a time, and messages are logged in the order sent. Users one at a time get
   all their answers; a newer user silences the older for good.              *)
EXTENDS Servers, SequenceTheorems, WellFoundedInduction, TLAPS

-----------------------------------------------------------------------------
(* What p_conn points at, and, while no connection was accepted beside an open
   one, which sockets are open, closed and doomed.                           *)
Met == {"open", "failed", "closed", "freed"}

Pointer ==
  /\ sock \in [Conns -> Met \cup {"none", "queued"}]
  /\ p_conn \in Conns \cup {None}
  /\ \A c \in Conns : sock[c] \in Met => p_conn \in Conns
  /\ p_conn \in Conns => sock[p_conn] \in Met
  /\ \A c \in doomed : c \in Conns /\ sock[c] \in Met

OneAtATime ==
  ~overlap => /\ touched = FALSE /\ dropped = {}
              /\ \A c \in Conns : sock[c] = "open" => c = p_conn
              /\ \A c \in Conns : sock[c] = "closed" => c \in doomed
              /\ \A c \in doomed : sock[c] = "closed"

LEMMA NoneIsNoConn == None \notin Conns
  BY ServersAssumption DEF None, Conns

LEMMA PointerInit == Init => Pointer /\ OneAtATime
  BY NoneIsNoConn DEF Init, Pointer, OneAtATime, Met

LEMMA PointerStep ==
  Pointer /\ OneAtATime /\ [Next]_vars => Pointer' /\ OneAtATime'
<1> SUFFICES ASSUME Pointer, OneAtATime, [Next]_vars
             PROVE  Pointer' /\ OneAtATime'
  OBVIOUS
<1> USE NoneIsNoConn DEF Pointer, OneAtATime, Met
<1>1. ASSUME UNCHANGED sockets PROVE Pointer' /\ OneAtATime'
  BY <1>1 DEF sockets
<1>2. CASE MsgInit
  BY <1>1, <1>2 DEF MsgInit
<1>3. CASE StartServer
  BY <1>1, <1>3 DEF StartServer
<1>4. CASE SendMessage
  BY <1>1, <1>4 DEF SendMessage
<1>5. CASE ReadyRead
  BY <1>1, <1>5 DEF ReadyRead
<1>6. ASSUME NEW c \in Conns, Connect(c) PROVE Pointer' /\ OneAtATime'
  <2>1. sock' = [sock EXCEPT ![c] = "queued"] /\ sock[c] = "none"
    BY <1>6 DEF Connect
  <2>2. UNCHANGED <<p_conn, doomed, touched, dropped, overlap>>
    BY <1>6 DEF Connect
  <2> QED  BY <2>1, <2>2
<1>7. ASSUME NEW c \in Conns, SendLine(c) \/ HangUp(c)
      PROVE Pointer' /\ OneAtATime'
  BY <1>1, <1>7 DEF SendLine, HangUp
<1>8. ASSUME NEW c \in Conns, Accept(c) PROVE Pointer' /\ OneAtATime'
  <2>1. PICK s \in {"open", "failed"} : sock' = [sock EXCEPT ![c] = s]
    BY <1>8 DEF Accept
  <2>2. sock[c] = "queued" /\ p_conn' = c
    BY <1>8 DEF Accept, First
  <2>3. /\ overlap' = (overlap \/ \E d \in Conns : sock[d] = "open")
        /\ UNCHANGED <<doomed, touched, dropped>>
    BY <1>8 DEF Accept
  <2>4. Pointer'
    BY <2>1, <2>2, <2>3
  <2>5. OneAtATime'
    BY <2>1, <2>2, <2>3
  <2> QED  BY <2>4, <2>5
<1>9. ASSUME NEW c \in Conns, Notify(c) PROVE Pointer' /\ OneAtATime'
  <2> DEFINE Same == UNCHANGED <<sock, doomed, touched>>
             Quit == /\ sock[p_conn] = "open"
                     /\ sock' = [sock EXCEPT ![p_conn] = "closed"]
                     /\ Disconnected(sock')
             Used == /\ sock[p_conn] = "freed" /\ touched' = TRUE
                     /\ UNCHANGED <<sock, doomed>>
  <2>1. UNCHANGED <<p_conn, dropped, overlap>> /\ sock[c] = "open"
    BY <1>9 DEF Notify
  <2>2. Same \/ Quit \/ Used
    BY <1>9 DEF Notify, HConnection
  <2>3. p_conn \in Conns
    BY <2>1
  <2>4. CASE Same
    BY <2>1, <2>4
  <2>5. CASE Quit
    <3>1. sock'[p_conn] = "closed"
      BY <2>3, <2>5
    <3>2. doomed' = doomed \cup {p_conn} /\ touched' = touched
      BY <2>5, <3>1 DEF Disconnected
    <3>3. Pointer'
      BY <2>1, <2>3, <2>5, <3>2
    <3>4. OneAtATime'
      BY <2>1, <2>3, <2>5, <3>2
    <3> QED  BY <3>3, <3>4
  <2>6. CASE Used
    BY <2>1, <2>3, <2>6
  <2> QED  BY <2>2, <2>4, <2>5, <2>6
<1>10. ASSUME NEW c \in Conns, PeerGone(c) PROVE Pointer' /\ OneAtATime'
  <2>1. /\ UNCHANGED <<p_conn, dropped, overlap>> /\ sock[c] = "open"
        /\ sock' = [sock EXCEPT ![c] = "closed"] /\ Disconnected(sock')
    BY <1>10 DEF PeerGone
  <2>2. p_conn \in Conns
    BY <2>1
  <2>3. Pointer'
    BY <2>1, <2>2 DEF Disconnected
  <2>4. ASSUME ~overlap PROVE OneAtATime'
    <3>1. c = p_conn
      BY <2>1, <2>4
    <3>2. doomed' = doomed \cup {c} /\ touched' = touched
      BY <2>1, <3>1 DEF Disconnected
    <3> QED  BY <2>1, <2>4, <3>1, <3>2
  <2> QED  BY <2>1, <2>3, <2>4
<1>11. ASSUME NEW c \in Conns, Free(c) PROVE Pointer' /\ OneAtATime'
  <2>1. /\ UNCHANGED <<p_conn, overlap>> /\ c \in doomed
        /\ sock' = [sock EXCEPT ![c] = "freed"]
    BY <1>11 DEF Free
  <2>2. ASSUME ~overlap PROVE OneAtATime'
    <3>1. sock[c] = "closed"
      BY <2>1, <2>2
    <3>2. doomed' = doomed \ {c} /\ UNCHANGED <<touched, dropped>>
      BY <1>11, <3>1 DEF Free
    <3> QED  BY <2>1, <2>2, <3>1, <3>2
  <2>3. Pointer'
    <3>1. doomed' \subseteq (doomed \cup {p_conn})
      BY <1>11 DEF Free
    <3>2. sock[c] \in Met /\ p_conn \in Conns
      BY <2>1
    <3> QED  BY <2>1, <3>1, <3>2
  <2> QED  BY <2>1, <2>2, <2>3
<1> QED
  <2>1. CASE UNCHANGED vars
    BY <1>1, <2>1 DEF vars
  <2>2. CASE Next
    BY <2>2, <1>2, <1>3, <1>4, <1>5, <1>6, <1>7, <1>8, <1>9, <1>10, <1>11
    DEF Next, Handlers
  <2> QED  BY <2>1, <2>2

(* While no connection is accepted beside an open one, no deleted socket is
   used, no user is cut off and every closed socket is going to be deleted: the
   single pointer UserServer::p_conn is enough for users one at a time.      *)
THEOREM UsersOneAtATime == Spec => []AloneIsSafe
<1>1. Pointer /\ OneAtATime => AloneIsSafe
  BY DEF Pointer, OneAtATime, AloneIsSafe
<1> QED
  BY <1>1, PointerInit, PointerStep, PTL DEF Spec

-----------------------------------------------------------------------------
(* The messages: what reached the socket is logged or waiting, numbered in the
   order sent.                                                               *)
Msgs == 1 .. MaxMsgs

Delivery ==
  /\ rx \in Seq(Msgs) /\ taken \in Seq(Msgs) /\ logged \in Seq(Msgs)
  /\ posted \in 0 .. MaxMsgs
  /\ logged \o rx = taken
  /\ \A i \in DOMAIN taken : taken[i] <= posted
  /\ \A i, j \in DOMAIN taken : i < j => taken[i] < taken[j]

LEMMA DeliveryInit == Init => Delivery
  BY ServersAssumption DEF Init, Delivery

(* A message numbered after all those taken keeps them in order.             *)
LEMMA AppendInOrder ==
  ASSUME NEW s \in Seq(Nat), NEW n \in Nat, NEW m \in Nat, m > n,
         \A i \in DOMAIN s : s[i] <= n,
         \A i, j \in DOMAIN s : i < j => s[i] < s[j]
  PROVE  /\ \A i \in DOMAIN Append(s, m) : Append(s, m)[i] <= m
         /\ \A i, j \in DOMAIN Append(s, m) :
              i < j => Append(s, m)[i] < Append(s, m)[j]
<1>1. /\ DOMAIN s = 1 .. Len(s) /\ Len(s) \in Nat
      /\ DOMAIN Append(s, m) = 1 .. Len(s) + 1
  OBVIOUS
<1>2. \A i \in 1 .. Len(s) : Append(s, m)[i] = s[i] /\ s[i] \in Nat
  OBVIOUS
<1>3. Append(s, m)[Len(s) + 1] = m
  OBVIOUS
<1>4. \A i \in 1 .. Len(s) + 1 : i \in 1 .. Len(s) \/ i = Len(s) + 1
  BY <1>1
<1> QED
  BY <1>1, <1>2, <1>3, <1>4

LEMMA TakenNats == Delivery => taken \in Seq(Nat)
<1> SUFFICES ASSUME Delivery PROVE taken \in Seq(Nat)
  OBVIOUS
<1>1. taken \in Seq(Msgs) /\ \A m \in Msgs : m \in Nat
  BY DEF Delivery, Msgs
<1>2. Len(taken) \in Nat /\ taken \in [1 .. Len(taken) -> Nat]
  BY ONLY <1>1
<1> QED
  BY ONLY <1>2

LEMMA DeliveryStep == Delivery /\ [Next]_vars => Delivery'
<1> SUFFICES ASSUME Delivery, [Next]_vars PROVE Delivery'
  OBVIOUS
<1>1. ASSUME UNCHANGED messages PROVE Delivery'
  BY <1>1 DEF messages, Delivery
<1>2. CASE SendMessage
  <2>1. posted' = posted + 1 /\ posted < MaxMsgs /\ logged' = logged
    BY <1>2 DEF SendMessage
  <2>2. posted' \in Msgs /\ posted' \in 0 .. MaxMsgs /\ posted \in Nat
    BY <2>1, ServersAssumption DEF Delivery, Msgs
  <2>3. CASE rx' = Append(rx, posted') /\ taken' = Append(taken, posted')
    <3> DEFINE m == posted'
    <3>1. rx' \in Seq(Msgs) /\ taken' \in Seq(Msgs)
      BY <2>2, <2>3 DEF Delivery
    <3>2. logged' \o rx' = taken'
      <4>1. logged \in Seq(Msgs) /\ rx \in Seq(Msgs) /\ m \in Msgs
        BY <2>2 DEF Delivery
      <4>2. logged \o Append(rx, m) = Append(logged \o rx, m)
        BY ONLY <4>1
      <4> QED  BY <2>1, <2>3, <4>2 DEF Delivery
    <3>3. taken \in Seq(Nat)
      BY TakenNats
    <3>4. /\ \A i \in DOMAIN taken' : taken'[i] <= posted'
          /\ \A i, j \in DOMAIN taken' : i < j => taken'[i] < taken'[j]
      <4>1. m \in Nat /\ m > posted
        BY <2>1, <2>2
      <4>2. /\ \A i \in DOMAIN taken : taken[i] <= posted
            /\ \A i, j \in DOMAIN taken : i < j => taken[i] < taken[j]
        BY DEF Delivery
      <4>3. /\ \A i \in DOMAIN Append(taken, m) : Append(taken, m)[i] <= m
            /\ \A i, j \in DOMAIN Append(taken, m) :
                 i < j => Append(taken, m)[i] < Append(taken, m)[j]
        BY ONLY <2>2, <3>3, <4>1, <4>2, AppendInOrder
      <4> QED  BY <2>3, <4>3
    <3> QED  BY <2>1, <2>2, <3>1, <3>2, <3>4 DEF Delivery
  <2>4. CASE UNCHANGED <<rx, taken>>
    <3>1. \A i \in DOMAIN taken : taken[i] <= posted'
      <4>1. taken \in Seq(Nat)
        BY TakenNats
      <4>2. \A i \in DOMAIN taken : taken[i] <= posted
        BY DEF Delivery
      <4>3. \A i \in DOMAIN taken : taken[i] \in Nat
        BY ONLY <4>1
      <4> QED  BY ONLY <2>1, <2>2, <4>2, <4>3
    <3> QED  BY <2>1, <2>2, <2>4, <3>1 DEF Delivery
  <2> QED  BY <1>2, <2>3, <2>4 DEF SendMessage
<1>3. CASE ReadyRead
  <2>1. logged' = logged \o rx /\ rx' = <<>> /\ UNCHANGED <<posted, taken>>
    BY <1>3 DEF ReadyRead
  <2>2. logged' \in Seq(Msgs) /\ rx' \in Seq(Msgs)
    BY <2>1 DEF Delivery
  <2>3. logged' \o rx' = taken'
    <3>1. logged' \o <<>> = logged'
      BY ONLY <2>2
    <3> QED  BY <2>1, <3>1 DEF Delivery
  <2> QED  BY <2>1, <2>2, <2>3 DEF Delivery
<1>4. CASE MsgInit \/ StartServer
  BY <1>1, <1>4 DEF MsgInit, StartServer
<1>5. ASSUME NEW c \in Conns, Connect(c) \/ SendLine(c) \/ HangUp(c)
      PROVE Delivery'
  BY <1>1, <1>5 DEF Connect, SendLine, HangUp
<1>6. ASSUME NEW c \in Conns, Handlers(c) PROVE Delivery'
  BY <1>1, <1>6 DEF Handlers, Accept, Notify, PeerGone, Free
<1> QED
  <2>1. CASE UNCHANGED vars
    BY <1>1, <2>1 DEF vars
  <2>2. CASE Next
    BY <2>2, <1>2, <1>3, <1>4, <1>5, <1>6 DEF Next
  <2> QED  BY <2>1, <2>2

(* Every message that reached MsgServer's socket is logged once, in the order
   sent, or still in the socket, for any number of messages and any buffer.  *)
THEOREM MessagesKeepOrder == Spec => []MessagesInOrder
<1>1. Delivery => MessagesInOrder
  BY DEF Delivery, MessagesInOrder
<1> QED
  BY <1>1, DeliveryInit, DeliveryStep, PTL DEF Spec

-----------------------------------------------------------------------------
(* Facts about hConnection's reading.                                        *)
NoQuit(s)   == \A i \in DOMAIN s : s[i] # "quit"
QuitLast(s) == \A i \in 1 .. (Len(s) - 1) : s[i] # "quit"

LEMMA LeastNat ==
  ASSUME NEW T, T \subseteq Nat, T # {}
  PROVE  \E x \in T : \A y \in T : x <= y
<1> DEFINE R == OpToRel(<, Nat)
<1>1. IsWellFoundedOn(R, Nat)
  BY NatLessThanWellFounded
<1>2. \A x, y \in Nat : x < y => <<x, y>> \in R
  BY DEF OpToRel
<1> HIDE DEF R
<1>3. PICK x \in T : \A y \in T : ~(<<y, x>> \in R)
  BY <1>1, WFMin
<1>4. \A y \in T : ~(y < x)
  BY <1>2, <1>3
<1> QED
  BY <1>4

(* Lines with no first quit have none.                                       *)
LEMMA NoFirstNone ==
  ASSUME NEW ls \in Seq(Lines), QuitAt(ls) = {}
  PROVE  NoQuit(ls)
<1> DEFINE T == {i \in DOMAIN ls : ls[i] = "quit"}
<1> SUFFICES ASSUME T # {} PROVE FALSE
  BY DEF NoQuit
<1>1. T \subseteq Nat /\ \A i \in T : i \in DOMAIN ls /\ ls[i] = "quit"
  OBVIOUS
<1>2. DOMAIN ls = 1 .. Len(ls) /\ Len(ls) \in Nat
  OBVIOUS
<1>3. \A i \in DOMAIN ls : ls[i] = "quit" => i \in T
  OBVIOUS
<1> HIDE DEF T
<1>4. PICK i \in T : \A j \in T : i <= j
  BY <1>1, LeastNat
<1>5. ASSUME NEW j \in 1 .. (i - 1) PROVE ls[j] # "quit"
  <2>1. j \in DOMAIN ls /\ ~(i <= j)
    BY <1>1, <1>2, <1>4
  <2> QED  BY <1>3, <1>4, <2>1
<1>6. i \in QuitAt(ls)
  BY <1>1, <1>4, <1>5 DEF QuitAt
<1> QED
  BY <1>6

(* The lines read are the first ones, and at most the last of them is a quit;
   all of them when there is none.                                           *)
LEMMA ReadLinesSplit ==
  ASSUME NEW ls \in Seq(Lines)
  PROVE  LET r    == ReadLines(ls)
             rest == SubSeq(ls, Len(r) + 1, Len(ls))
         IN /\ r \in Seq(Lines) /\ rest \in Seq(Lines) /\ ls = r \o rest
            /\ QuitLast(r)
            /\ QuitAt(ls) = {} => r = ls /\ rest = <<>> /\ NoQuit(ls)
<1>1. Len(ls) \in Nat /\ DOMAIN ls = 1 .. Len(ls)
  OBVIOUS
<1>2. CASE QuitAt(ls) = {}
  <2>1. ReadLines(ls) = ls /\ NoQuit(ls)
    BY <1>2, NoFirstNone DEF ReadLines
  <2>2. SubSeq(ls, Len(ls) + 1, Len(ls)) = <<>>
    BY <1>1, SubSeqEmpty
  <2>3. ls = ls \o <<>> /\ <<>> \in Seq(Lines)
    OBVIOUS
  <2>4. QuitLast(ls)
    BY <1>1, <2>1 DEF QuitLast, NoQuit
  <2> QED  BY <2>1, <2>2, <2>3, <2>4
<1>3. CASE QuitAt(ls) # {}
  <2> DEFINE n == CHOOSE i \in QuitAt(ls) : TRUE
  <2>1. n \in QuitAt(ls)
    BY <1>3
  <2>2. n \in 1 .. Len(ls) /\ \A j \in 1 .. (n - 1) : ls[j] # "quit"
    BY <1>1, <2>1 DEF QuitAt
  <2>3. ReadLines(ls) = SubSeq(ls, 1, n)
    BY <1>3 DEF ReadLines
  <2> HIDE DEF n
  <2>4. \A i \in 1 .. Len(ls) : ls[i] \in Lines
    BY <1>1
  <2>5. /\ SubSeq(ls, 1, n) \in Seq(Lines) /\ Len(SubSeq(ls, 1, n)) = n
        /\ \A i \in 1 .. n : SubSeq(ls, 1, n)[i] = ls[i]
    <3>1. \A i \in 1 .. n : ls[i] \in Lines
      BY <1>1, <2>2, <2>4
    <3>2. 1 \in Int /\ n \in Int /\ 1 <= n /\ n - 1 + 1 = n
      BY <1>1, <2>2
    <3>3. /\ SubSeq(ls, 1, n) \in Seq(Lines)
          /\ Len(SubSeq(ls, 1, n)) = IF 1 <= n THEN n - 1 + 1 ELSE 0
          /\ \A i \in 1 .. n - 1 + 1 : SubSeq(ls, 1, n)[i] = ls[1 + i - 1]
      BY ONLY <3>1, <3>2, SubSeqProperties
    <3> QED  BY ONLY <3>2, <3>3
  <2>6. SubSeq(ls, n + 1, Len(ls)) \in Seq(Lines)
    <3>1. \A i \in n + 1 .. Len(ls) : ls[i] \in Lines
      BY <1>1, <2>2, <2>4
    <3> QED  BY <1>1, <2>2, <3>1, SubSeqProperties
  <2>7. ls = SubSeq(ls, 1, n) \o SubSeq(ls, n + 1, Len(ls))
    <3>1. 1 \in 1 .. Len(ls) + 1 /\ n \in 1 - 1 .. Len(ls)
      BY <1>1, <2>2
    <3>2. Len(ls) \in n .. Len(ls) /\ ls \in Seq(Lines)
      BY <1>1, <2>2
    <3>3. SubSeq(ls, 1, n) \o SubSeq(ls, n + 1, Len(ls)) = SubSeq(ls, 1, Len(ls))
      BY ONLY <3>1, <3>2, ConcatAdjacentSubSeq
    <3> QED  BY <3>3, SubSeqFull
  <2>8. QuitLast(SubSeq(ls, 1, n))
    BY <2>2, <2>5 DEF QuitLast
  <2> QED  BY <1>3, <2>3, <2>5, <2>6, <2>7, <2>8
<1> QED
  BY <1>2, <1>3

(* A sequence extended at its end keeps what it was split into.              *)
LEMMA SplitAppend ==
  ASSUME NEW a \in Seq(Lines), NEW b \in Seq(Lines), NEW l \in Lines
  PROVE  Append(a \o b, l) = a \o Append(b, l) /\ Append(b, l) \in Seq(Lines)
  OBVIOUS

LEMMA SplitPrefix ==
  ASSUME NEW a \in Seq(Lines), NEW b \in Seq(Lines)
  PROVE  IsPrefix(a, a \o b)
<1>1. /\ a \o b \in Seq(Lines) /\ Len(a \o b) = Len(a) + Len(b)
      /\ Len(a) \in Nat /\ Len(b) \in Nat
  BY ConcatProperties
<1>2. CASE a = <<>>
  BY <1>1, <1>2, SubSeqEmpty DEF IsPrefix
<1>3. CASE a # <<>>
  <2>1. 1 \in 1 .. Len(a) /\ Len(a) \in 1 .. Len(a)
    BY <1>1, <1>3
  <2>2. SubSeq(a \o b, 1, Len(a)) = SubSeq(a, 1, Len(a))
    BY <2>1, SubSeqOfConcat1
  <2> QED  BY <1>1, <2>2 DEF IsPrefix
<1> QED
  BY <1>2, <1>3

Joins(s, a, b) == s = a \o b

LEMMA Regroup ==
  ASSUME NEW a \in Seq(Lines), NEW b \in Seq(Lines), NEW d \in Seq(Lines),
         NEW e \in Seq(Lines), NEW s, NEW bd, NEW ab, NEW de, NEW bde,
         Joins(s, a, bde), Joins(bde, bd, e), Joins(bd, b, d),
         Joins(ab, a, b), Joins(de, d, e)
  PROVE  Joins(s, ab, de)
<1>1. /\ bd \in Seq(Lines) /\ ab \in Seq(Lines) /\ de \in Seq(Lines)
      /\ bd = b \o d /\ ab = a \o b /\ de = d \o e
  BY DEF Joins
<1>2. bde \in Seq(Lines) /\ bde = bd \o e
  BY <1>1 DEF Joins
<1>3. s \in Seq(Lines) /\ s = a \o bde
  BY <1>2 DEF Joins
<1>4. ab \o de \in Seq(Lines) /\ Len(s) = Len(ab \o de)
  BY ONLY <1>1, <1>2, <1>3
<1>5. ASSUME NEW i \in 1 .. Len(s) PROVE s[i] = (ab \o de)[i]
  BY ONLY <1>1, <1>2, <1>3
<1>6. s = ab \o de
  BY ONLY <1>3, <1>4, <1>5, SeqEqual
<1> QED
  BY ONLY <1>6 DEF Joins

LEMMA NoQuitConcat ==
  ASSUME NEW a \in Seq(Lines), NEW b \in Seq(Lines), NoQuit(a)
  PROVE  /\ QuitLast(b) => QuitLast(a \o b)
         /\ NoQuit(b) => NoQuit(a \o b)
<1>1. /\ Len(a \o b) = Len(a) + Len(b) /\ Len(a) \in Nat /\ Len(b) \in Nat
      /\ DOMAIN (a \o b) = 1 .. Len(a) + Len(b)
      /\ DOMAIN a = 1 .. Len(a) /\ DOMAIN b = 1 .. Len(b)
  OBVIOUS
<1>2. \A i \in 1 .. Len(a) + Len(b) :
        (a \o b)[i] = IF i <= Len(a) THEN a[i] ELSE b[i - Len(a)]
  BY ConcatProperties
<1>3. \A i \in 1 .. Len(a) : (a \o b)[i] # "quit"
  BY <1>1, <1>2 DEF NoQuit
<1>4. \A i \in Len(a) + 1 .. Len(a) + Len(b) :
        i - Len(a) \in 1 .. Len(b) /\ (a \o b)[i] = b[i - Len(a)]
  BY <1>1, <1>2
<1>5. ASSUME QuitLast(b) PROVE QuitLast(a \o b)
  <2> SUFFICES ASSUME NEW i \in 1 .. (Len(a \o b) - 1)
               PROVE  (a \o b)[i] # "quit"
    BY DEF QuitLast
  <2>1. CASE i \in 1 .. Len(a)
    BY <1>3, <2>1
  <2>2. CASE i \notin 1 .. Len(a)
    <3>1. i \in Len(a) + 1 .. Len(a) + Len(b) /\ i - Len(a) \in 1 .. (Len(b) - 1)
      BY <1>1, <2>2
    <3> QED  BY <1>4, <1>5, <3>1 DEF QuitLast
  <2> QED  BY <2>1, <2>2
<1>6. ASSUME NoQuit(b) PROVE NoQuit(a \o b)
  <2> SUFFICES ASSUME NEW i \in 1 .. Len(a) + Len(b) PROVE (a \o b)[i] # "quit"
    BY <1>1 DEF NoQuit
  <2>1. CASE i \in 1 .. Len(a)
    BY <1>3, <2>1
  <2>2. CASE i \notin 1 .. Len(a)
    <3>1. i \in Len(a) + 1 .. Len(a) + Len(b)
      BY <1>1, <2>2
    <3> QED  BY <1>1, <1>4, <1>6, <3>1 DEF NoQuit
  <2> QED  BY <2>1, <2>2
<1> QED
  BY <1>5, <1>6

-----------------------------------------------------------------------------
(* What a connection's lines are: answered, then in its buffer, then unread,
   as long as it is open.                                                    *)
LineTypes ==
  /\ net \in [Conns -> Seq(Lines)] /\ buf \in [Conns -> Seq(Lines)]
  /\ sent \in [Conns -> Seq(Lines)] /\ handled \in [Conns -> Seq(Lines)]

Fresh(c) ==
  /\ sock[c] \in {"none", "queued", "failed"} => handled[c] = <<>> /\ buf[c] = <<>>
  /\ sock[c] \in {"none", "queued"} => net[c] = sent[c]

Pending(c) ==
  sock[c] = "open" => /\ sent[c] = handled[c] \o (buf[c] \o net[c])
                      /\ NoQuit(handled[c])
                      /\ c = p_conn => buf[c] = <<>>

Answered(c) ==
  /\ \E rest \in Seq(Lines) : sent[c] = handled[c] \o rest
  /\ QuitLast(handled[c])

Answers == LineTypes /\ \A c \in Conns : Fresh(c) /\ Pending(c) /\ Answered(c)

LEMMA AnswersInit == Init => Answers
<1> SUFFICES ASSUME Init PROVE Answers
  OBVIOUS
<1>1. LineTypes
  BY DEF Init, LineTypes
<1>2. ASSUME NEW c \in Conns PROVE Fresh(c) /\ Pending(c) /\ Answered(c)
  <2>1. sock[c] = "none" /\ sent[c] = <<>> /\ handled[c] = <<>> /\ buf[c] = <<>>
    BY DEF Init
  <2>2. net[c] = <<>>
    BY DEF Init
  <2>3. <<>> = <<>> \o <<>> /\ <<>> \in Seq(Lines)
    OBVIOUS
  <2>4. QuitLast(<<>>)
    BY DEF QuitLast
  <2> QED  BY <2>1, <2>2, <2>3, <2>4 DEF Fresh, Pending, Answered
<1> QED
  BY <1>1, <1>2 DEF Answers

LEMMA AnswersSendLine ==
  ASSUME Answers, NEW d \in Conns, SendLine(d)
  PROVE  Answers'
<1>1. PICK l \in Lines : /\ net'  = [net EXCEPT ![d] = Append(@, l)]
                         /\ sent' = [sent EXCEPT ![d] = Append(@, l)]
  BY DEF SendLine
<1>2. UNCHANGED <<sock, p_conn, buf, handled>> /\ sock[d] # "none"
  BY DEF SendLine, sockets, Connected
<1>3. LineTypes'
  BY <1>1, <1>2 DEF Answers, LineTypes
<1>4. ASSUME NEW c \in Conns PROVE Fresh(c)' /\ Pending(c)' /\ Answered(c)'
  <2>0. Fresh(c) /\ Pending(c) /\ Answered(c)
    BY DEF Answers
  <2>1. CASE c # d
    <3>1. net'[c] = net[c] /\ sent'[c] = sent[c]
      BY <1>1, <2>1 DEF Answers, LineTypes
    <3> QED  BY <1>2, <2>0, <3>1 DEF Fresh, Pending, Answered
  <2>2. CASE c = d
    <3>1. net'[c] = Append(net[c], l) /\ sent'[c] = Append(sent[c], l)
      BY <1>1, <2>2 DEF Answers, LineTypes
    <3>2. /\ net[c] \in Seq(Lines) /\ buf[c] \in Seq(Lines)
          /\ handled[c] \in Seq(Lines) /\ buf[c] \o net[c] \in Seq(Lines)
      BY DEF Answers, LineTypes
    <3>3. Fresh(c)'
      BY <1>2, <2>0, <3>1 DEF Fresh
    <3>4. Pending(c)'
      <4>1. SUFFICES ASSUME sock[c] = "open"
                     PROVE  sent'[c] = handled[c] \o (buf[c] \o net'[c])
        BY <1>2, <2>0 DEF Pending
      <4>2. sent[c] = handled[c] \o (buf[c] \o net[c])
        BY <2>0, <4>1 DEF Pending
      <4>3. Append(buf[c] \o net[c], l) = buf[c] \o Append(net[c], l)
        BY ONLY <3>2, SplitAppend
      <4>4. Append(handled[c] \o (buf[c] \o net[c]), l)
              = handled[c] \o Append(buf[c] \o net[c], l)
        BY ONLY <3>2, SplitAppend
      <4> QED  BY ONLY <3>1, <4>2, <4>3, <4>4
    <3>5. Answered(c)'
      <4>1. PICK rest \in Seq(Lines) : sent[c] = handled[c] \o rest
        BY <2>0 DEF Answered
      <4>2. /\ Append(handled[c] \o rest, l) = handled[c] \o Append(rest, l)
            /\ Append(rest, l) \in Seq(Lines)
        BY ONLY <3>2, SplitAppend
      <4>3. sent'[c] = handled'[c] \o Append(rest, l)
        BY ONLY <1>2, <3>1, <4>1, <4>2
      <4> QED  BY <1>2, <2>0, <4>2, <4>3 DEF Answered
    <3> QED  BY <3>3, <3>4, <3>5
  <2> QED  BY <2>1, <2>2
<1> QED
  BY <1>3, <1>4 DEF Answers

(* A step that moves no line, and closes, frees or queues sockets.           *)
LEMMA AnswersNoLines ==
  ASSUME Answers, UNCHANGED <<net, buf, sent, handled, p_conn>>,
         \A c \in Conns : \/ sock'[c] = sock[c]
                          \/ sock'[c] \in {"closed", "freed"}
                          \/ sock[c] = "none" /\ sock'[c] = "queued"
  PROVE  Answers'
<1>1. LineTypes'
  BY DEF Answers, LineTypes
<1>2. ASSUME NEW c \in Conns PROVE Fresh(c)' /\ Pending(c)' /\ Answered(c)'
  <2>1. Fresh(c) /\ Pending(c) /\ Answered(c)
    BY DEF Answers
  <2> QED  BY <2>1 DEF Fresh, Pending, Answered
<1> QED
  BY <1>1, <1>2 DEF Answers

LEMMA AnswersAccept ==
  ASSUME Pointer, Answers, NEW d \in Conns, Accept(d)
  PROVE  Answers'
<1>1. PICK s \in {"open", "failed"} : sock' = [sock EXCEPT ![d] = s]
  BY DEF Accept
<1>2. /\ UNCHANGED <<net, buf, sent, handled>> /\ p_conn' = d
      /\ sock[d] = "queued"
  BY DEF Accept, lines, First
<1>3. LineTypes'
  BY <1>2 DEF Answers, LineTypes
<1>4. ASSUME NEW c \in Conns PROVE Fresh(c)' /\ Pending(c)' /\ Answered(c)'
  <2>0. Fresh(c) /\ Pending(c) /\ Answered(c)
    BY DEF Answers
  <2>1. CASE c # d
    <3>1. sock'[c] = sock[c]
      BY <1>1, <2>1 DEF Pointer
    <3> QED  BY <1>2, <2>0, <2>1, <3>1 DEF Fresh, Pending, Answered
  <2>2. CASE c = d
    <3>1. sock'[c] \in {"open", "failed"}
      BY <1>1, <2>2 DEF Pointer
    <3>2. handled[c] = <<>> /\ buf[c] = <<>> /\ net[c] = sent[c]
      BY <1>2, <2>0, <2>2 DEF Fresh
    <3>3. net[c] = <<>> \o (<<>> \o net[c]) /\ NoQuit(<<>>)
      <4>1. net[c] \in Seq(Lines)
        BY DEF Answers, LineTypes
      <4> QED  BY <4>1 DEF NoQuit
    <3> QED  BY <1>2, <2>0, <3>1, <3>2, <3>3 DEF Fresh, Pending, Answered
  <2> QED  BY <2>1, <2>2
<1> QED
  BY <1>3, <1>4 DEF Answers

(* The connection that signalled but is not p_conn's: its lines move to its
   buffer.                                                                   *)
LEMMA AnswersBuffered ==
  ASSUME Answers, NEW c \in Conns, sock[c] = "open", c # p_conn,
         net'[c] = <<>>, buf'[c] = buf[c] \o net[c],
         sent'[c] = sent[c], handled'[c] = handled[c],
         sock'[c] = sock[c], p_conn' = p_conn
  PROVE  Fresh(c)' /\ Pending(c)' /\ Answered(c)'
<1>1. Pending(c) /\ Answered(c)
  BY DEF Answers
<1>2. buf[c] \in Seq(Lines) /\ net[c] \in Seq(Lines)
  BY DEF Answers, LineTypes
<1>3. buf[c] \o net[c] = (buf[c] \o net[c]) \o <<>>
  BY ONLY <1>2
<1> QED
  BY <1>1, <1>3 DEF Fresh, Pending, Answered

(* p_conn's, when it is open: what its buffer holds is what was unread, and it
   is answered up to the first quit.                                         *)
LEMMA AnswersRead ==
  ASSUME Answers, NEW c \in Conns, sock[c] = "open", c = p_conn, p_conn' = p_conn,
         NEW ls \in Seq(Lines), net[c] = ls \o net'[c], net'[c] \in Seq(Lines),
         sent'[c] = sent[c],
         handled'[c] = handled[c] \o ReadLines(ls),
         buf'[c] = SubSeq(ls, Len(ReadLines(ls)) + 1, Len(ls)),
         sock'[c] = IF QuitAt(ls) = {} THEN "open" ELSE "closed"
  PROVE  Fresh(c)' /\ Pending(c)' /\ Answered(c)'
<1> DEFINE r    == ReadLines(ls)
           rest == SubSeq(ls, Len(r) + 1, Len(ls))
<1>1. /\ r \in Seq(Lines) /\ rest \in Seq(Lines) /\ ls = r \o rest /\ QuitLast(r)
      /\ QuitAt(ls) = {} => r = ls /\ rest = <<>> /\ NoQuit(ls)
  BY ReadLinesSplit
<1>2. buf'[c] = rest /\ handled'[c] = handled[c] \o r
  OBVIOUS
<1> HIDE DEF r, rest
<1>3. /\ sent[c] = handled[c] \o (buf[c] \o net[c]) /\ NoQuit(handled[c])
      /\ buf[c] = <<>>
  BY DEF Answers, Pending
<1>4. /\ handled[c] \in Seq(Lines) /\ net[c] \in Seq(Lines)
      /\ net'[c] \in Seq(Lines)
  BY DEF Answers, LineTypes
<1>5. Joins(sent'[c], handled[c], net[c]) /\ Joins(net[c], ls, net'[c])
  <2>1. buf[c] \o net[c] = net[c]
    BY ONLY <1>3, <1>4
  <2> QED  BY <1>3, <2>1 DEF Joins
<1>6. r \in Seq(Lines) /\ rest \in Seq(Lines)
  BY <1>1
<1>7. sent'[c] = handled'[c] \o (buf'[c] \o net'[c])
  <2>1. Joins(ls, r, rest) /\ Joins(handled'[c], handled[c], r)
    BY <1>1, <1>2 DEF Joins
  <2>2. Joins(buf'[c] \o net'[c], rest, net'[c])
    BY <1>2 DEF Joins
  <2>3. Joins(sent'[c], handled'[c], buf'[c] \o net'[c])
    BY ONLY <1>4, <1>5, <1>6, <2>1, <2>2, Regroup
  <2> QED  BY ONLY <2>3 DEF Joins
<1>8. buf'[c] \o net'[c] \in Seq(Lines)
  BY <1>1, <1>2, <1>4
<1>9. Answered(c)'
  <2>1. QuitLast(handled'[c])
    BY <1>1, <1>2, <1>3, <1>4, NoQuitConcat
  <2> QED  BY <1>7, <1>8, <2>1 DEF Answered
<1>10. Pending(c)'
  <2> SUFFICES ASSUME QuitAt(ls) = {} PROVE Pending(c)'
    BY DEF Pending
  <2>1. r = ls /\ rest = <<>> /\ NoQuit(ls)
    BY <1>1
  <2>2. NoQuit(handled'[c])
    BY <1>2, <1>3, <1>4, <2>1, NoQuitConcat
  <2> QED  BY <1>2, <1>7, <2>1, <2>2 DEF Pending
<1>11. Fresh(c)'
  BY DEF Fresh
<1> QED
  BY <1>9, <1>10, <1>11

LEMMA AnswersNotify ==
  ASSUME Pointer, Answers, NEW d \in Conns, Notify(d)
  PROVE  Answers'
<1> DEFINE read == [buf EXCEPT ![d] = buf[d] \o net[d]]
           ls   == ReadLines(read[p_conn])
<1>1. /\ sock[d] = "open" /\ net' = [net EXCEPT ![d] = <<>>]
      /\ UNCHANGED <<sent, p_conn>> /\ HConnection(read)
  BY DEF Notify
<1>2. p_conn \in Conns /\ sock[p_conn] \in Met
  BY <1>1 DEF Pointer, Met
<1>3. /\ read \in [Conns -> Seq(Lines)] /\ read[d] = buf[d] \o net[d]
      /\ \A c \in Conns : c # d => read[c] = buf[c]
  BY DEF Answers, LineTypes
<1>4. /\ net' \in [Conns -> Seq(Lines)] /\ net'[d] = <<>>
      /\ \A c \in Conns : c # d => net'[c] = net[c]
  BY <1>1 DEF Answers, LineTypes
<1>5. CASE sock[p_conn] = "freed"
  <2>1. buf' = read /\ UNCHANGED <<sock, handled>> /\ d # p_conn
    BY <1>1, <1>5 DEF HConnection
  <2>2. LineTypes'
    BY <1>1, <1>3, <1>4, <2>1 DEF Answers, LineTypes
  <2>3. ASSUME NEW c \in Conns PROVE Fresh(c)' /\ Pending(c)' /\ Answered(c)'
    <3>1. CASE c = d
      BY <1>1, <1>3, <1>4, <2>1, <3>1, AnswersBuffered
    <3>2. CASE c # d
      <4>1. Fresh(c) /\ Pending(c) /\ Answered(c)
        BY DEF Answers
      <4> QED  BY <1>1, <1>3, <1>4, <2>1, <3>2, <4>1 DEF Fresh, Pending, Answered
    <3> QED  BY <3>1, <3>2
  <2> QED  BY <2>2, <2>3 DEF Answers
<1>6. CASE sock[p_conn] # "freed"
  <2> DEFINE left == SubSeq(read[p_conn], Len(ls) + 1, Len(read[p_conn]))
  <2>1. /\ buf' = [read EXCEPT ![p_conn] = left]
        /\ handled' = IF sock[p_conn] = "open"
                      THEN [handled EXCEPT ![p_conn] = @ \o ls] ELSE handled
        /\ sock' = IF sock[p_conn] = "open" /\ QuitAt(read[p_conn]) # {}
                   THEN [sock EXCEPT ![p_conn] = "closed"] ELSE sock
    <3>1. HConnection(read) /\ sock[p_conn] # "freed"
      BY <1>1, <1>6
    <3> HIDE DEF read
    <3>2. /\ buf' = [read EXCEPT ![p_conn] = left]
          /\ handled' = IF sock[p_conn] = "open"
                        THEN [handled EXCEPT ![p_conn] = @ \o ls] ELSE handled
      BY ONLY <3>1 DEF HConnection
    <3>3. sock' = IF sock[p_conn] = "open" /\ QuitAt(read[p_conn]) # {}
                  THEN [sock EXCEPT ![p_conn] = "closed"] ELSE sock
      BY ONLY <3>1 DEF HConnection
    <3> QED  BY ONLY <3>2, <3>3
  <2>2. /\ ls \in Seq(Lines) /\ left \in Seq(Lines)
        /\ read[p_conn] \in Seq(Lines)
        /\ QuitAt(read[p_conn]) = {} => ls = read[p_conn] /\ left = <<>>
    <3>1. read[p_conn] \in Seq(Lines)
      BY <1>2, <1>3
    <3> QED  BY <3>1, ReadLinesSplit
  <2> HIDE DEF left, ls
  <2>3. \A c \in Conns : c # p_conn => /\ buf'[c] = read[c]
                                       /\ handled'[c] = handled[c]
                                       /\ sock'[c] = sock[c]
    BY <1>2, <1>3, <2>1 DEF Answers, LineTypes, Pointer
  <2>4. /\ buf'[p_conn] = left
        /\ handled'[p_conn] = IF sock[p_conn] = "open"
                              THEN handled[p_conn] \o ls ELSE handled[p_conn]
        /\ sock'[p_conn] = IF sock[p_conn] = "open" /\ QuitAt(read[p_conn]) # {}
                           THEN "closed" ELSE sock[p_conn]
    BY <1>2, <1>3, <2>1 DEF Answers, LineTypes, Pointer
  <2>5. LineTypes'
    <3>1. buf' \in [Conns -> Seq(Lines)]
      BY <1>3, <2>1, <2>2
    <3>2. handled[p_conn] \o ls \in Seq(Lines)
      BY <1>2, <2>2 DEF Answers, LineTypes
    <3>3. handled' \in [Conns -> Seq(Lines)]
      BY <2>1, <3>2 DEF Answers, LineTypes
    <3> QED  BY <1>1, <1>4, <3>1, <3>3 DEF Answers, LineTypes
  <2>6. ASSUME NEW c \in Conns, c # p_conn
        PROVE  Fresh(c)' /\ Pending(c)' /\ Answered(c)'
    <3>1. CASE c = d
      BY <1>1, <1>3, <1>4, <2>3, <2>6, <3>1, AnswersBuffered
    <3>2. CASE c # d
      <4>1. Fresh(c) /\ Pending(c) /\ Answered(c)
        BY DEF Answers
      <4> QED  BY <1>1, <1>3, <1>4, <2>3, <2>6, <3>2, <4>1
               DEF Fresh, Pending, Answered
    <3> QED  BY <3>1, <3>2
  <2>7. CASE sock[p_conn] = "open"
    <3> SUFFICES ASSUME NEW c \in Conns, c = p_conn
                 PROVE  Fresh(c)' /\ Pending(c)' /\ Answered(c)'
      BY <2>5, <2>6 DEF Answers
    <3>1. Pending(c) /\ buf[c] = <<>>
      BY <1>2, <2>7 DEF Answers, Pending
    <3>2. net[c] = read[c] \o net'[c]
      <4>1. net[c] \in Seq(Lines)
        BY <1>2 DEF Answers, LineTypes
      <4>2. net[c] = <<>> \o net[c] /\ net[c] = net[c] \o <<>>
        BY ONLY <4>1
      <4>3. CASE c = d
        <5>1. read[c] = net[c] /\ net'[c] = <<>>
          BY <1>3, <1>4, <3>1, <4>2, <4>3
        <5> QED  BY ONLY <4>2, <5>1
      <4>4. CASE c # d
        <5>1. read[c] = <<>> /\ net'[c] = net[c]
          BY <1>2, <1>3, <1>4, <3>1, <4>4
        <5> QED  BY ONLY <4>2, <5>1
      <4> QED  BY <4>3, <4>4
    <3>3. /\ handled'[c] = handled[c] \o ReadLines(read[c])
          /\ sock'[c] = IF QuitAt(read[c]) = {} THEN "open" ELSE "closed"
          /\ buf'[c] = SubSeq(read[c], Len(ReadLines(read[c])) + 1,
                                   Len(read[c]))
      BY <2>4, <2>7 DEF ls, left
    <3>4. net'[c] \in Seq(Lines) /\ sent'[c] = sent[c]
      BY <1>1, <1>4
    <3> HIDE DEF read
    <3> QED  BY <1>1, <2>2, <2>7, <3>2, <3>3, <3>4, AnswersRead
  <2>8. CASE sock[p_conn] # "open"
    <3> SUFFICES ASSUME NEW c \in Conns, c = p_conn
                 PROVE  Fresh(c)' /\ Pending(c)' /\ Answered(c)'
      BY <2>5, <2>6 DEF Answers
    <3>1. /\ handled'[c] = handled[c] /\ sock'[c] = sock[c]
          /\ c # d
      BY <1>1, <2>4, <2>8
    <3>2. Fresh(c) /\ Answered(c)
      BY <1>2 DEF Answers
    <3>3. sock[c] = "failed" => left = <<>>
      <4>1. SUFFICES ASSUME read[c] = <<>> PROVE left = <<>>
        BY <1>2, <1>3, <3>1, <3>2 DEF Fresh
      <4>2. QuitAt(<<>>) = {}
        BY DEF QuitAt
      <4> QED  BY <2>2, <4>1, <4>2
    <3> QED  BY <1>1, <1>2, <2>4, <2>8, <3>1, <3>2, <3>3 DEF Fresh, Pending, Answered, Met
  <2> QED  BY <2>7, <2>8
<1> QED
  BY <1>5, <1>6

LEMMA AnswersStep == Pointer /\ Answers /\ [Next]_vars => Answers'
<1> SUFFICES ASSUME Pointer, Answers, [Next]_vars PROVE Answers'
  OBVIOUS
<1>1. ASSUME UNCHANGED <<net, buf, sent, handled, p_conn, sock>> PROVE Answers'
  BY <1>1, AnswersNoLines
<1>2. CASE MsgInit \/ StartServer \/ SendMessage \/ ReadyRead
  BY <1>1, <1>2 DEF MsgInit, StartServer, SendMessage, ReadyRead, lines, sockets
<1>3. ASSUME NEW c \in Conns, Connect(c) PROVE Answers'
  BY <1>3, AnswersNoLines DEF Connect, lines, Pointer
<1>4. ASSUME NEW c \in Conns, SendLine(c) PROVE Answers'
  BY <1>4, AnswersSendLine
<1>5. ASSUME NEW c \in Conns, HangUp(c) PROVE Answers'
  BY <1>1, <1>5 DEF HangUp, sockets
<1>6. ASSUME NEW c \in Conns, Accept(c) PROVE Answers'
  BY <1>6, AnswersAccept
<1>7. ASSUME NEW c \in Conns, Notify(c) PROVE Answers'
  BY <1>7, AnswersNotify
<1>8. ASSUME NEW c \in Conns, PeerGone(c) \/ Free(c) PROVE Answers'
  BY <1>8, AnswersNoLines DEF PeerGone, Free, lines, Pointer
<1> QED
  <2>1. CASE UNCHANGED vars
    BY <1>1, <2>1 DEF vars, lines, sockets
  <2>2. CASE Next
    BY <2>2, <1>2, <1>3, <1>4, <1>5, <1>6, <1>7, <1>8 DEF Next, Handlers
  <2> QED  BY <2>1, <2>2

-----------------------------------------------------------------------------
(* What is written back, line by line.                                       *)
Replied == replies = [c \in Conns |-> Replies(handled[c])]

Texts == {"ask", "", "quit"}

LEMMA RepliesType ==
  ASSUME NEW ls \in Seq(Lines)
  PROVE  /\ Replies(ls) \in Seq(Texts) /\ Len(Replies(ls)) = Len(ls)
         /\ \A i \in 1 .. Len(ls) : Replies(ls)[i] = Reply(ls[i])
<1>1. Len(ls) \in Nat /\ DOMAIN ls = 1 .. Len(ls) /\ \A i \in 1 .. Len(ls) : ls[i] \in Lines
  OBVIOUS
<1>2. \A l \in Lines : Reply(l) \in Texts
  BY DEF Lines, Reply, Texts
<1>3. Replies(ls) = [i \in 1 .. Len(ls) |-> Reply(ls[i])]
  BY <1>1 DEF Replies
<1>4. Replies(ls) \in [1 .. Len(ls) -> Texts]
  BY <1>1, <1>2, <1>3
<1> QED  BY <1>1, <1>3, <1>4

LEMMA RepliesConcat ==
  ASSUME NEW a \in Seq(Lines), NEW b \in Seq(Lines)
  PROVE  Replies(a \o b) = Replies(a) \o Replies(b)
<1>1. /\ a \o b \in Seq(Lines) /\ Len(a \o b) = Len(a) + Len(b)
      /\ Len(a) \in Nat /\ Len(b) \in Nat
      /\ \A i \in 1 .. Len(a) : (a \o b)[i] = a[i]
      /\ \A i \in 1 .. Len(b) : (a \o b)[Len(a) + i] = b[i]
  OBVIOUS
<1>2. PICK ra \in Seq(Texts), rb \in Seq(Texts), r \in Seq(Texts) :
        ra = Replies(a) /\ rb = Replies(b) /\ r = Replies(a \o b)
  BY <1>1, RepliesType
<1>3. /\ Len(ra) = Len(a) /\ Len(rb) = Len(b) /\ Len(r) = Len(a) + Len(b)
      /\ \A i \in 1 .. Len(a) : ra[i] = Reply(a[i])
      /\ \A i \in 1 .. Len(b) : rb[i] = Reply(b[i])
      /\ \A i \in 1 .. Len(a) + Len(b) : r[i] = Reply((a \o b)[i])
  BY <1>1, <1>2, RepliesType
<1>4. /\ ra \o rb \in Seq(Texts) /\ Len(ra \o rb) = Len(a) + Len(b)
      /\ \A i \in 1 .. Len(a) : (ra \o rb)[i] = ra[i]
      /\ \A i \in 1 .. Len(b) : (ra \o rb)[Len(a) + i] = rb[i]
  <2>1. /\ ra \o rb \in Seq(Texts) /\ Len(ra \o rb) = Len(ra) + Len(rb)
        /\ \A i \in 1 .. Len(ra) : (ra \o rb)[i] = ra[i]
        /\ \A i \in 1 .. Len(rb) : (ra \o rb)[Len(ra) + i] = rb[i]
    OBVIOUS
  <2> QED  BY <1>3, <2>1
<1>5. ASSUME NEW i \in 1 .. Len(a) + Len(b) PROVE r[i] = (ra \o rb)[i]
  <2>1. CASE i <= Len(a)
    <3>1. i \in 1 .. Len(a)
      BY <1>1, <2>1
    <3> QED  BY ONLY <1>1, <1>3, <1>4, <3>1
  <2>2. CASE ~(i <= Len(a))
    <3>1. PICK j \in 1 .. Len(b) : i = Len(a) + j
      <4>1. i - Len(a) \in 1 .. Len(b) /\ i = Len(a) + (i - Len(a))
        BY <1>1, <2>2
      <4> QED  BY <4>1
    <3>2. r[i] = Reply(b[j]) /\ (ra \o rb)[i] = Reply(b[j])
      BY ONLY <1>1, <1>3, <1>4, <3>1
    <3> QED  BY <3>2
  <2> QED  BY <2>1, <2>2
<1>6. r = ra \o rb
  BY ONLY <1>3, <1>4, <1>5, SeqEqual
<1> QED  BY <1>2, <1>6

LEMMA RepliedInit == Init => Replied
<1> SUFFICES ASSUME Init PROVE Replied
  OBVIOUS
<1>1. Replies(<<>>) = <<>>
  BY DEF Replies
<1> QED  BY <1>1 DEF Init, Replied

LEMMA RepliedStep ==
  ASSUME Pointer, Answers, Replied, [Next]_vars
  PROVE  Replied'
<1>1. ASSUME UNCHANGED <<handled, replies>> PROVE Replied'
  BY <1>1 DEF Replied
<1>2. CASE MsgInit \/ StartServer \/ SendMessage \/ ReadyRead
  BY <1>1, <1>2 DEF MsgInit, StartServer, SendMessage, ReadyRead, sockets
<1>3. ASSUME NEW c \in Conns, Connect(c) \/ SendLine(c) \/ HangUp(c) PROVE Replied'
  BY <1>1, <1>3 DEF Connect, SendLine, HangUp, sockets
<1>4. ASSUME NEW c \in Conns, Accept(c) \/ PeerGone(c) \/ Free(c) PROVE Replied'
  BY <1>1, <1>4 DEF Accept, PeerGone, Free
<1>5. ASSUME NEW d \in Conns, Notify(d) PROVE Replied'
  <2> DEFINE read == [buf EXCEPT ![d] = @ \o net[d]]
             ls   == ReadLines(read[p_conn])
  <2>1. HConnection(read) /\ sock[d] = "open"
    BY <1>5 DEF Notify
  <2>2. p_conn \in Conns /\ read[p_conn] \in Seq(Lines)
    <3>1. p_conn \in Conns
      BY <2>1 DEF Pointer, Met
    <3> QED  BY <3>1 DEF Answers, LineTypes
  <2>3. ls \in Seq(Lines)
    BY <2>2, ReadLinesSplit
  <2>4. \/ UNCHANGED <<handled, replies>>
        \/ /\ handled' = [handled EXCEPT ![p_conn] = @ \o ls]
           /\ replies' = [replies EXCEPT ![p_conn] = @ \o Replies(ls)]
    <3> HIDE DEF read
    <3> QED  BY ONLY <2>1 DEF HConnection
  <2> HIDE DEF ls
  <2>5. CASE /\ handled' = [handled EXCEPT ![p_conn] = @ \o ls]
             /\ replies' = [replies EXCEPT ![p_conn] = @ \o Replies(ls)]
    <3>1. handled \in [Conns -> Seq(Lines)] /\ handled[p_conn] \in Seq(Lines)
      BY <2>2 DEF Answers, LineTypes
    <3>2. Replies(handled[p_conn] \o ls) = Replies(handled[p_conn]) \o Replies(ls)
      BY <2>3, <3>1, RepliesConcat
    <3>3. \A c \in Conns : replies'[c] = Replies(handled'[c])
      BY <2>2, <2>5, <3>1, <3>2 DEF Replied
    <3>4. replies' = [c \in Conns |-> replies'[c]]
      BY <2>5 DEF Replied
    <3> QED  BY <3>3, <3>4 DEF Replied
  <2> QED  BY <1>1, <2>4, <2>5
<1> QED
  <2>1. CASE UNCHANGED vars
    BY <1>1, <2>1 DEF vars, sockets
  <2> QED  BY <2>1, <1>2, <1>3, <1>4, <1>5 DEF Next, Handlers

LEMMA AnswersAreLines == Pointer /\ Answers /\ Replied => AnswersMatchLines
<1> SUFFICES ASSUME Pointer, Answers, Replied PROVE AnswersMatchLines
  OBVIOUS
<1>1. ASSUME NEW c \in Conns
      PROVE  /\ Len(replies[c]) <= Len(sent[c])
             /\ \A i \in 1 .. Len(replies[c]) : replies[c][i] = Reply(sent[c][i])
             /\ \A i \in 1 .. (Len(replies[c]) - 1) : sent[c][i] # "quit"
  <2>1. PICK rest \in Seq(Lines) : sent[c] = handled[c] \o rest
    BY DEF Answers, Answered
  <2>2. handled[c] \in Seq(Lines) /\ QuitLast(handled[c])
    BY DEF Answers, LineTypes, Answered
  <2>3. /\ Len(replies[c]) = Len(handled[c])
        /\ \A i \in 1 .. Len(handled[c]) : replies[c][i] = Reply(handled[c][i])
    BY <2>2, RepliesType DEF Replied
  <2>4. /\ Len(handled[c]) \in Nat /\ Len(rest) \in Nat
        /\ Len(sent[c]) = Len(handled[c]) + Len(rest)
        /\ \A i \in 1 .. Len(handled[c]) : sent[c][i] = handled[c][i]
    BY ONLY <2>1, <2>2, ConcatProperties
  <2>5. /\ Len(replies[c]) <= Len(sent[c])
        /\ \A i \in 1 .. Len(replies[c]) : replies[c][i] = Reply(sent[c][i])
    BY <2>3, <2>4
  <2>6. \A i \in 1 .. (Len(handled[c]) - 1) : handled[c][i] # "quit"
    BY <2>2 DEF QuitLast
  <2>7. \A i \in 1 .. (Len(replies[c]) - 1) :
          i \in 1 .. Len(handled[c]) /\ i \in 1 .. (Len(handled[c]) - 1)
    BY <2>3, <2>4
  <2> QED  BY <2>4, <2>5, <2>6, <2>7
<1>2. ASSUME p_conn # None, sock[p_conn] = "open", p_conn \in Conns
      PROVE  Len(replies[p_conn]) + Len(net[p_conn]) = Len(sent[p_conn])
  <2>1. /\ net[p_conn] \in Seq(Lines) /\ buf[p_conn] = <<>>
        /\ handled[p_conn] \in Seq(Lines)
    BY <1>2 DEF Answers, LineTypes, Pending
  <2>2. buf[p_conn] \o net[p_conn] = net[p_conn]
    BY ONLY <2>1
  <2>3. sent[p_conn] = handled[p_conn] \o net[p_conn]
    BY <1>2, <2>2 DEF Answers, Pending
  <2>4. Len(replies[p_conn]) = Len(handled[p_conn])
    BY <1>2, <2>1, RepliesType DEF Replied
  <2> QED  BY <2>1, <2>3, <2>4
<1> QED
  BY <1>1, <1>2 DEF AnswersMatchLines, Pointer

(* Whoever's signal makes hConnection run, what is written back to a user are
   the replies to its first lines, in order, one for each (an empty one for
   info, app/server.cpp:90-92), none after its quit; and no line read from the
   newest connection is without its reply while that is open.                *)
THEOREM AnswersKeepOrder == Spec => []AnswersMatchLines
<1> DEFINE Inv == Pointer /\ OneAtATime /\ Answers /\ Replied
<1>1. Inv => AnswersMatchLines
  BY AnswersAreLines
<1>2. Inv /\ [Next]_vars => Inv'
  BY PointerStep, AnswersStep, RepliedStep
<1>3. Init => Inv
  BY PointerInit, AnswersInit, RepliedInit
<1> QED
  BY <1>1, <1>2, <1>3, PTL DEF Spec

-----------------------------------------------------------------------------
(* What is left of the types.                                                *)
Flags ==
  /\ stage \in {"start", "bound", "loop"}
  /\ bound \in BOOLEAN /\ listening \in BOOLEAN
  /\ gone \subseteq Conns /\ dropped \subseteq Conns
  /\ touched \in BOOLEAN /\ overlap \in BOOLEAN

LEMMA FlagsInit == Init => Flags
  BY DEF Init, Flags

LEMMA FlagsStep == Flags /\ [Next]_vars => Flags'
<1> SUFFICES ASSUME Flags, [Next]_vars PROVE Flags'
  OBVIOUS
<1> USE DEF Flags
<1>1. CASE MsgInit \/ StartServer \/ SendMessage \/ ReadyRead
  BY <1>1 DEF MsgInit, StartServer, SendMessage, ReadyRead, lines, sockets
<1>2. ASSUME NEW c \in Conns, Connect(c) \/ SendLine(c) \/ HangUp(c)
      PROVE  Flags'
  BY <1>2 DEF Connect, SendLine, HangUp, lines, sockets
<1>3. ASSUME NEW c \in Conns, Accept(c) PROVE Flags'
  BY <1>3 DEF Accept, lines
<1>4. ASSUME NEW c \in Conns, Notify(c) PROVE Flags'
  <2>1. touched' \in BOOLEAN
    BY <1>4 DEF Notify, HConnection, Disconnected
  <2> QED  BY <1>4, <2>1 DEF Notify
<1>5. ASSUME NEW c \in Conns, PeerGone(c) PROVE Flags'
  BY <1>5 DEF PeerGone, Disconnected, lines
<1>6. ASSUME NEW c \in Conns, Free(c) PROVE Flags'
  BY <1>6 DEF Free, lines
<1> QED
  <2>1. CASE UNCHANGED vars
    BY <2>1 DEF vars, lines, sockets
  <2>2. CASE Next
    BY <2>2, <1>1, <1>2, <1>3, <1>4, <1>5, <1>6 DEF Next, Handlers
  <2> QED  BY <2>1, <2>2

(* The server thread's state has its types: p_conn points at nothing or at a
   connection, and only connections are doomed.                              *)
THEOREM ServersTyped == Spec => []TypeOK
<1> DEFINE Inv == Pointer /\ OneAtATime /\ Answers /\ Replied /\ Delivery /\ Flags
<1>1. Init => Inv
  BY PointerInit, AnswersInit, RepliedInit, DeliveryInit, FlagsInit
<1>2. Inv /\ [Next]_vars => Inv'
  BY PointerStep, AnswersStep, RepliedStep, DeliveryStep, FlagsStep
<1>3. Inv => TypeOK
  <2> SUFFICES ASSUME Inv PROVE TypeOK
    OBVIOUS
  <2>1. /\ rx \in Seq(1 .. MaxMsgs) /\ taken \in Seq(1 .. MaxMsgs)
        /\ logged \in Seq(1 .. MaxMsgs) /\ posted \in 0 .. MaxMsgs
    BY DEF Delivery, Msgs
  <2>2. /\ sock \in [Conns -> {"none", "queued", "open", "failed", "closed", "freed"}]
        /\ p_conn \in Conns \cup {None} /\ doomed \subseteq Conns
    BY DEF Pointer, Met
  <2>3. replies \in [Conns -> Seq({"ask", "", "quit"})]
    BY RepliesType DEF Answers, LineTypes, Replied, Texts
  <2> QED  BY <2>1, <2>2, <2>3 DEF Answers, LineTypes, Flags, TypeOK
<1> QED
  BY <1>1, <1>2, <1>3, PTL DEF Spec

-----------------------------------------------------------------------------
(* What a user has been answered when its connection has ended.              *)
EndsInQuit(s) == s # <<>> /\ s[Len(s)] = "quit"

Served(c) == sock[c] \in {"closed", "freed"} =>
               handled[c] = sent[c] \/ EndsInQuit(handled[c])

AllServed == ~overlap => \A c \in Conns : Served(c)

LEMMA FirstQuitRead ==
  ASSUME NEW ls \in Seq(Lines), QuitAt(ls) # {}
  PROVE  ReadLines(ls) \in Seq(Lines) /\ EndsInQuit(ReadLines(ls))
<1>1. PICK n : n = CHOOSE i \in QuitAt(ls) : TRUE
  OBVIOUS
<1>2. /\ ReadLines(ls) = SubSeq(ls, 1, n) /\ n \in DOMAIN ls
      /\ ls[n] = "quit"
  <2>1. n \in QuitAt(ls)
    BY <1>1
  <2> QED  BY <1>1, <2>1 DEF ReadLines, QuitAt
<1>3. Len(ls) \in Nat /\ DOMAIN ls = 1 .. Len(ls)
  OBVIOUS
<1>4. n \in 1 .. Len(ls)
  BY <1>2, <1>3
<1>5. /\ SubSeq(ls, 1, n) \in Seq(Lines) /\ Len(SubSeq(ls, 1, n)) = n
      /\ SubSeq(ls, 1, n)[n] = ls[n]
  BY ONLY <1>3, <1>4, ls \in Seq(Lines)
<1> QED
  BY <1>2, <1>4, <1>5 DEF EndsInQuit

LEMMA LastOfConcat ==
  ASSUME NEW a \in Seq(Lines), NEW b \in Seq(Lines), EndsInQuit(b)
  PROVE  EndsInQuit(a \o b)
<1>1. b # <<>> /\ b[Len(b)] = "quit"
  BY DEF EndsInQuit
<1>2. /\ Len(a \o b) = Len(a) + Len(b) /\ Len(b) \in Nat \ {0} /\ Len(a) \in Nat
      /\ (a \o b)[Len(a) + Len(b)] = b[Len(b)]
  BY ONLY <1>1, a \in Seq(Lines), b \in Seq(Lines)
<1> QED
  BY <1>1, <1>2 DEF EndsInQuit

LEMMA ServedInit == Init => AllServed
  BY DEF Init, AllServed, Served

LEMMA ServedNotify ==
  ASSUME Pointer, OneAtATime, Answers, AllServed, ~overlap, NEW d \in Conns, Notify(d)
  PROVE  \A c \in Conns : Served(c)'
<1> DEFINE read == [buf EXCEPT ![d] = buf[d] \o net[d]]
<1>1. /\ sock[d] = "open" /\ UNCHANGED <<sent, p_conn>> /\ HConnection(read)
  BY DEF Notify
<1>2. d = p_conn /\ p_conn \in Conns
  BY <1>1 DEF OneAtATime
<1>3. read \in [Conns -> Seq(Lines)] /\ read[d] \in Seq(Lines)
  BY DEF Answers, LineTypes
<1> HIDE DEF read
<1>4. /\ handled' = [handled EXCEPT ![d] = @ \o ReadLines(read[d])]
      /\ sock' = IF QuitAt(read[d]) # {} THEN [sock EXCEPT ![d] = "closed"] ELSE sock
  BY <1>1, <1>2 DEF HConnection
<1>5. handled \in [Conns -> Seq(Lines)] /\ sock \in [Conns -> Met \cup {"none", "queued"}]
  BY DEF Answers, LineTypes, Pointer
<1>6. ASSUME NEW c \in Conns, c # d PROVE Served(c)'
  <2>1. handled'[c] = handled[c] /\ sock'[c] = sock[c]
    BY <1>4, <1>5, <1>6
  <2> QED  BY <1>1, <2>1 DEF AllServed, Served
<1>7. CASE QuitAt(read[d]) = {}
  <2>1. sock'[d] = "open"
    BY <1>1, <1>4, <1>7
  <2>2. Served(d)'
    BY <2>1 DEF Served
  <2> QED  BY <1>6, <2>2
<1>8. CASE QuitAt(read[d]) # {}
  <2>1. PICK r \in Seq(Lines) : r = ReadLines(read[d]) /\ EndsInQuit(r)
    BY <1>3, <1>8, FirstQuitRead
  <2>2. handled'[d] = handled[d] \o r
    BY <1>4, <1>5, <2>1
  <2>3. handled[d] \in Seq(Lines)
    BY <1>5
  <2>4. EndsInQuit(handled[d] \o r)
    BY ONLY <2>1, <2>3, r \in Seq(Lines), LastOfConcat
  <2>5. Served(d)'
    BY <2>2, <2>4 DEF Served
  <2> QED  BY <1>6, <2>5
<1> QED
  BY <1>7, <1>8

LEMMA ServedStep ==
  Pointer /\ OneAtATime /\ Answers /\ AllServed /\ [Next]_vars => AllServed'
<1> SUFFICES ASSUME Pointer, OneAtATime, Answers, AllServed, [Next]_vars, ~overlap'
             PROVE  \A c \in Conns : Served(c)'
  BY DEF AllServed
<1>1. ~overlap
  <2>1. CASE \E c \in Conns : Accept(c)
    BY <2>1 DEF Accept
  <2>2. CASE ~\E c \in Conns : Accept(c)
    <3>1. overlap' = overlap
      BY <2>2 DEF Next, vars, sockets, MsgInit, StartServer, SendMessage, ReadyRead, Connect,
                  SendLine, HangUp, Handlers, Notify, PeerGone, Free
    <3> QED  BY <3>1
  <2> QED  BY <2>1, <2>2
<1>2. ASSUME UNCHANGED <<sock, handled, sent>> PROVE \A c \in Conns : Served(c)'
  BY <1>1, <1>2 DEF AllServed, Served
<1>3. \A c \in Conns : Served(c) /\ (sock[c] = "open" => c = p_conn)
  BY <1>1 DEF AllServed, OneAtATime
<1>4. CASE MsgInit \/ StartServer \/ SendMessage \/ ReadyRead \/ UNCHANGED vars
  BY <1>2, <1>4 DEF MsgInit, StartServer, SendMessage, ReadyRead, lines, sockets, vars
<1>5. ASSUME NEW d \in Conns, Connect(d) \/ Accept(d) PROVE \A c \in Conns : Served(c)'
  <2>1. UNCHANGED <<handled, sent>>
    BY <1>5 DEF Connect, Accept, lines
  <2>2. \A c \in Conns : sock'[c] = sock[c] \/ sock'[c] \in {"queued", "open", "failed"}
    BY <1>5 DEF Connect, Accept, Pointer
  <2> QED  BY <1>3, <2>1, <2>2 DEF Served
<1>6. ASSUME NEW d \in Conns, SendLine(d) PROVE \A c \in Conns : Served(c)'
  <2>1. UNCHANGED <<handled, sock>> /\ sock[d] \in {"queued", "open", "failed"}
    BY <1>6 DEF SendLine, Connected, sockets
  <2>2. \A c \in Conns : c # d => sent'[c] = sent[c]
    BY <1>6 DEF SendLine, Answers, LineTypes
  <2> QED  BY <1>3, <2>1, <2>2 DEF Served
<1>7. ASSUME NEW d \in Conns, HangUp(d) PROVE \A c \in Conns : Served(c)'
  BY <1>2, <1>7 DEF HangUp, sockets
<1>8. ASSUME NEW d \in Conns, Notify(d) PROVE \A c \in Conns : Served(c)'
  BY <1>1, <1>8, ServedNotify
<1>9. ASSUME NEW d \in Conns, PeerGone(d) PROVE \A c \in Conns : Served(c)'
  <2>1. /\ UNCHANGED <<handled, sent>> /\ sock[d] = "open" /\ net[d] = <<>>
        /\ \A c \in Conns : c # d => sock'[c] = sock[c]
    BY <1>9 DEF PeerGone, lines, Pointer
  <2>2. d = p_conn
    BY <1>3, <2>1
  <2>3. sent[d] = handled[d] \o (buf[d] \o net[d]) /\ buf[d] = <<>>
    BY <2>1, <2>2 DEF Answers, Pending
  <2>4. handled[d] \in Seq(Lines)
    BY DEF Answers, LineTypes
  <2>5. handled[d] \o (<<>> \o <<>>) = handled[d]
    BY ONLY <2>4
  <2>6. sent[d] = handled[d]
    BY ONLY <2>1, <2>3, <2>5
  <2> QED  BY <1>3, <2>1, <2>6 DEF Served
<1>10. ASSUME NEW d \in Conns, Free(d) PROVE \A c \in Conns : Served(c)'
  <2>1. /\ UNCHANGED <<handled, sent>> /\ d \in doomed
        /\ \A c \in Conns : c # d => sock'[c] = sock[c]
    BY <1>10 DEF Free, lines, Pointer
  <2>2. sock[d] = "closed"
    BY <1>1, <2>1 DEF OneAtATime
  <2> QED  BY <1>3, <2>1, <2>2 DEF Served
<1> QED
  BY <1>4, <1>5, <1>6, <1>7, <1>8, <1>9, <1>10 DEF Next, Handlers

(* Each line of a connection that has ended, or each up to its quit, has its
   reply.                                                                    *)
LoneUsersServed ==
  ~overlap => \A c \in Conns : sock[c] \in {"closed", "freed"} =>
    LET n == Len(replies[c])
    IN /\ n = Len(sent[c]) \/ (n > 0 /\ sent[c][n] = "quit")
       /\ \A i \in 1 .. n : replies[c][i] = Reply(sent[c][i])

LEMMA ServedGotReplies ==
  ASSUME Pointer, Answers, Replied, AllServed
  PROVE  LoneUsersServed
<1> SUFFICES ASSUME ~overlap, NEW c \in Conns, sock[c] \in {"closed", "freed"}
             PROVE  LET n == Len(replies[c])
                    IN /\ n = Len(sent[c]) \/ (n > 0 /\ sent[c][n] = "quit")
                       /\ \A i \in 1 .. n : replies[c][i] = Reply(sent[c][i])
  BY DEF LoneUsersServed
<1>1. handled[c] = sent[c] \/ EndsInQuit(handled[c])
  BY DEF AllServed, Served
<1>2. handled[c] \in Seq(Lines) /\ sent[c] \in Seq(Lines)
  BY DEF Answers, LineTypes
<1>3. PICK rest \in Seq(Lines) : sent[c] = handled[c] \o rest
  BY DEF Answers, Answered
<1>4. Len(replies[c]) = Len(handled[c]) /\ Len(handled[c]) \in Nat
  BY <1>2, RepliesType DEF Replied
<1>5. /\ \A i \in 1 .. Len(replies[c]) : replies[c][i] = Reply(sent[c][i])
  BY AnswersAreLines DEF AnswersMatchLines
<1>6. CASE handled[c] = sent[c]
  BY <1>4, <1>5, <1>6
<1>7. CASE EndsInQuit(handled[c])
  <2>1. Len(handled[c]) \in 1 .. Len(handled[c]) /\ handled[c][Len(handled[c])] = "quit"
    BY <1>2, <1>7 DEF EndsInQuit
  <2>2. sent[c][Len(handled[c])] = handled[c][Len(handled[c])]
    BY ONLY <1>2, <1>3, <2>1
  <2> QED  BY <1>4, <1>5, <2>1, <2>2
<1> QED  BY <1>1, <1>6, <1>7

(* While no connection is accepted beside an open one, every line of a
   connection that has ended, or every line up to its quit, was read and
   replied to (to info with nothing, app/server.cpp:90-92): none is lost when a
   user hangs up right after it (73-106).                                    *)
THEOREM LoneUsersAreServed == Spec => []LoneUsersServed
<1> DEFINE Inv == Pointer /\ OneAtATime /\ Answers /\ Replied /\ AllServed
<1>1. Init => Inv
  BY PointerInit, AnswersInit, RepliedInit, ServedInit
<1>2. Inv /\ [Next]_vars => Inv'
  BY PointerStep, AnswersStep, RepliedStep, ServedStep
<1>3. Inv => LoneUsersServed
  BY ServedGotReplies
<1> QED
  BY <1>1, <1>2, <1>3, PTL DEF Spec

-----------------------------------------------------------------------------
(* What a newer connection does to the older ones.                           *)
InTurn ==
  /\ \A c \in Conns : sock[c] \in {"none", "queued"} => p_conn < c
  /\ \A c, d \in Conns : sock[c] = "none" /\ c < d => sock[d] = "none"

OlderUnread ==
  \A c \in Conns : c < p_conn => c < p_conn' /\ handled'[c] = handled[c]

LEMMA ConnsAreNat == p_conn \in Conns \cup {None} => p_conn \in Nat /\ Conns \subseteq Nat \ {0}
  BY ServersAssumption DEF Conns, None

LEMMA InTurnInit == Init => InTurn
<1> SUFFICES ASSUME Init PROVE InTurn
  OBVIOUS
<1>1. p_conn = 0 /\ \A c \in Conns : 0 < c
  BY ConnsAreNat DEF Init, None
<1> QED  BY <1>1 DEF Init, InTurn

LEMMA TurnStep ==
  ASSUME Pointer, Answers, InTurn, [Next]_vars
  PROVE  InTurn' /\ OlderUnread
<1> USE DEF Pointer
<1>0. p_conn \in Nat /\ Conns \subseteq Nat \ {0}
  BY ConnsAreNat
<1>1. ASSUME UNCHANGED <<sock, p_conn, handled>>
      PROVE  InTurn' /\ OlderUnread
  BY <1>0, <1>1 DEF InTurn, OlderUnread
<1>2. CASE MsgInit \/ StartServer \/ SendMessage \/ ReadyRead \/ UNCHANGED vars
  BY <1>1, <1>2 DEF MsgInit, StartServer, SendMessage, ReadyRead, sockets, vars
<1>3. ASSUME NEW d \in Conns, SendLine(d) \/ HangUp(d)
      PROVE  InTurn' /\ OlderUnread
  BY <1>1, <1>3 DEF SendLine, HangUp, sockets
<1>4. ASSUME NEW d \in Conns, Connect(d)
      PROVE  InTurn' /\ OlderUnread
  <2>1. /\ sock[d] = "none" /\ sock' = [sock EXCEPT ![d] = "queued"]
        /\ \A c \in Conns : c < d => sock[c] # "none"
        /\ UNCHANGED <<p_conn, handled>>
    BY <1>4 DEF Connect
  <2>2. sock'[d] = "queued" /\ \A c \in Conns : c # d => sock'[c] = sock[c]
    BY <2>1
  <2>3. OlderUnread
    BY <2>1, <2>2 DEF OlderUnread
  <2>4. \A c \in Conns : sock'[c] \in {"none", "queued"} => p_conn' < c
    BY <2>1, <2>2 DEF InTurn
  <2>5. \A c, e \in Conns : sock'[c] = "none" /\ c < e => sock'[e] = "none"
    BY <1>0, <2>1, <2>2 DEF InTurn
  <2> QED  BY <2>3, <2>4, <2>5 DEF InTurn
<1>5. ASSUME NEW d \in Conns, Accept(d)
      PROVE  InTurn' /\ OlderUnread
  <2>1. /\ sock[d] = "queued" /\ p_conn' = d /\ UNCHANGED handled
        /\ \A c \in Conns : sock[c] = "queued" => d <= c
    BY <1>5 DEF Accept, First
  <2>2. sock'[d] \in {"open", "failed"} /\ \A c \in Conns : c # d => sock'[c] = sock[c]
    BY <1>5 DEF Accept
  <2>3. p_conn < d
    BY <2>1 DEF InTurn
  <2>4. OlderUnread
    BY <1>0, <2>1, <2>2, <2>3 DEF OlderUnread
  <2>5. ASSUME NEW c \in Conns, sock'[c] \in {"none", "queued"} PROVE d < c
    <3>1. c # d /\ sock[c] \in {"none", "queued"}
      BY <2>2, <2>5
    <3>2. ~(c < d)
      <4>1. CASE sock[c] = "none"
        BY <2>1, <4>1 DEF InTurn
      <4>2. CASE sock[c] = "queued"
        BY <1>0, <2>1, <4>2
      <4> QED  BY <3>1, <4>1, <4>2
    <3> QED  BY <1>0, <3>1, <3>2
  <2>6. \A c, e \in Conns : sock'[c] = "none" /\ c < e => sock'[e] = "none"
    BY <2>1, <2>2, <2>5 DEF InTurn
  <2> QED  BY <2>1, <2>4, <2>5, <2>6 DEF InTurn
<1>6. ASSUME UNCHANGED p_conn, sock[p_conn] \in Met, p_conn \in Conns,
             \A c \in Conns : sock[c] \in {"none", "queued"} <=> sock'[c] \in {"none", "queued"},
             \A c \in Conns : sock[c] \in {"none", "queued"} => sock'[c] = sock[c],
             \A c \in Conns : c # p_conn => handled'[c] = handled[c]
      PROVE  InTurn' /\ OlderUnread
  <2>1. \A c \in Conns : sock'[c] = "none" <=> sock[c] = "none"
    BY <1>6
  <2>2. InTurn'
    BY <1>6, <2>1 DEF InTurn
  <2>3. OlderUnread
    BY <1>0, <1>6 DEF OlderUnread
  <2> QED  BY <2>2, <2>3
<1>7. ASSUME NEW d \in Conns, Notify(d)
      PROVE  InTurn' /\ OlderUnread
  <2> DEFINE read == [buf EXCEPT ![d] = buf[d] \o net[d]]
             Same == UNCHANGED sock
             Quit == /\ sock[p_conn] = "open"
                     /\ sock' = [sock EXCEPT ![p_conn] = "closed"]
  <2>1. UNCHANGED p_conn /\ sock[d] = "open" /\ HConnection(read)
    BY <1>7 DEF Notify
  <2>2. p_conn \in Conns /\ sock[p_conn] \in Met
    BY <2>1 DEF Met
  <2>3. \A c \in Conns : c # p_conn => handled'[c] = handled[c]
    <3> HIDE DEF read
    <3> QED  BY <2>1, <2>2 DEF HConnection, Answers, LineTypes
  <2>4. Same \/ Quit
    <3> HIDE DEF read
    <3> QED  BY <2>1 DEF HConnection
  <2>5. CASE Same
    BY <1>6, <2>1, <2>2, <2>3, <2>5
  <2>6. CASE Quit
    <3>1. sock'[p_conn] = "closed" /\ \A c \in Conns : c # p_conn => sock'[c] = sock[c]
      BY <2>2, <2>6
    <3> QED  BY <1>6, <2>1, <2>2, <2>3, <2>6, <3>1
  <2> QED  BY <2>4, <2>5, <2>6
<1>8. ASSUME NEW d \in Conns, PeerGone(d)
      PROVE  InTurn' /\ OlderUnread
  <2>1. /\ UNCHANGED <<p_conn, handled>> /\ sock[d] = "open"
        /\ sock' = [sock EXCEPT ![d] = "closed"]
    BY <1>8 DEF PeerGone
  <2>2. p_conn \in Conns /\ sock[p_conn] \in Met
    BY <2>1 DEF Met
  <2>3. sock'[d] = "closed" /\ \A c \in Conns : c # d => sock'[c] = sock[c]
    BY <2>1
  <2> QED  BY <1>6, <2>1, <2>2, <2>3
<1>9. ASSUME NEW d \in Conns, Free(d)
      PROVE  InTurn' /\ OlderUnread
  <2>1. /\ UNCHANGED <<p_conn, handled>> /\ d \in doomed
        /\ sock' = [sock EXCEPT ![d] = "freed"]
    BY <1>9 DEF Free
  <2>2. sock[d] \in Met
    BY <2>1 DEF Met
  <2>3. p_conn \in Conns /\ sock[p_conn] \in Met
    BY <2>2 DEF Met
  <2>4. sock'[d] = "freed" /\ \A c \in Conns : c # d => sock'[c] = sock[c]
    BY <2>1
  <2> QED  BY <1>6, <2>1, <2>2, <2>3, <2>4 DEF Met
<1> QED
  BY <1>2, <1>3, <1>4, <1>5, <1>7, <1>8, <1>9 DEF Next, Handlers

OlderAreSilent ==
  \A c \in Conns : c < p_conn => c < p_conn' /\ replies'[c] = replies[c]

(* However many users there are and whatever they do: once a newer connection
   was accepted, even one that got no descriptor, no line of an older one is ever
   answered: its readyRead() reads from the newer (app/server.cpp:75, 115).  *)
THEOREM NewerSilencesOlder == Spec => [][OlderAreSilent]_vars
<1> DEFINE Inv == Pointer /\ OneAtATime /\ Answers /\ Replied /\ InTurn
<1>1. Init => Inv
  BY PointerInit, AnswersInit, RepliedInit, InTurnInit
<1>2. Inv /\ [Next]_vars => Inv' /\ [OlderUnread]_vars
  BY PointerStep, AnswersStep, RepliedStep, TurnStep
<1>3. Replied /\ Replied' /\ [OlderUnread]_vars => [OlderAreSilent]_vars
  BY DEF Replied, OlderUnread, OlderAreSilent
<1> QED
  BY <1>1, <1>2, <1>3, PTL DEF Spec
=============================================================================
