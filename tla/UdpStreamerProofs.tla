-------------------------- MODULE UdpStreamerProofs --------------------------
(* Proofs about the stream's counters, for every width of the counter, every
   number of channels and every fault of the network: the types, and that the
   counters of m_conn_info balance modulo that width. Order and null lists are
   proved for streams of any length while no two frames in flight are half a
   turn of the counter apart (InStep); a short stream never gets there.      *)
EXTENDS UdpStreamer, SequenceTheorems, TLAPS

-----------------------------------------------------------------------------
(* Arithmetic modulo the width of the counters.                              *)

LEMMA DivMod ==
  ASSUME NEW M \in Nat \ {0}, NEW a \in Int
  PROVE  /\ a % M \in 0 .. M - 1 /\ a \div M \in Int
         /\ a = M * (a \div M) + (a % M)
<1>1. a % M \in 0 .. M - 1
  OBVIOUS
<1>2. a \div M \in Int
  OBVIOUS
<1>3. a = M * (a \div M) + (a % M)
  OBVIOUS
<1> QED
  BY <1>1, <1>2, <1>3

LEMMA NoMultipleBetween ==
  ASSUME NEW M \in Nat \ {0}, NEW z \in Int, M * z < M, -M < M * z
  PROVE  z = 0
<1>1. CASE z >= 1
  <2>1. M * z >= M
    BY <1>1, Z3
  <2> QED
    BY <2>1
<1>2. CASE z <= -1
  <2>1. M * z <= -M
    BY <1>2, Z3
  <2> QED
    BY <2>1
<1> QED
  BY <1>1, <1>2

LEMMA RemainderUnique ==
  ASSUME NEW M \in Nat \ {0}, NEW q \in Int, NEW r \in 0 .. M - 1
  PROVE  (M * q + r) % M = r
<1> DEFINE a == M * q + r
           p == a \div M
           s == a % M
<1>1. a \in Int /\ p \in Int /\ s \in 0 .. M - 1 /\ a = M * p + s
  BY DivMod
<1>2. M * q + r = M * p + s
  BY <1>1
<1>3. M * (p - q) = r - s
  BY <1>1, <1>2, Z3
<1>4. p - q = 0
  BY <1>1, <1>3, NoMultipleBetween
<1> QED
  BY <1>1, <1>3, <1>4, Z3

(* A whole number of turns of the counter does not show.                     *)
LEMMA AddTurns ==
  ASSUME NEW M \in Nat \ {0}, NEW a \in Int, NEW k \in Int
  PROVE  (a + M * k) % M = a % M
<1> DEFINE q == a \div M
           r == a % M
<1>1. q \in Int /\ r \in 0 .. M - 1 /\ a = M * q + r
  BY DivMod
<1> HIDE DEF q, r
<1>2. a + M * k = M * (q + k) + r
  BY <1>1, Z3
<1>3. (M * (q + k) + r) % M = r
  BY <1>1, RemainderUnique
<1>4. (a + M * k) % M = (M * (q + k) + r) % M
  BY ONLY <1>2
<1> QED
  BY ONLY <1>3, <1>4 DEF r

(* A wrapped summand is as good as the summand itself.                       *)
LEMMA AddWrapped ==
  ASSUME NEW M \in Nat \ {0}, NEW a \in Int, NEW b \in Int
  PROVE  ((a % M) + b) % M = (a + b) % M
<1> DEFINE q == a \div M
           r == a % M
<1>1. q \in Int /\ r \in 0 .. M - 1 /\ a = M * q + r
  BY DivMod
<1> HIDE DEF q, r
<1>2. r + b = (a + b) + M * (-q)
  BY <1>1, Z3
<1>3. ((a + b) + M * (-q)) % M = (a + b) % M
  <2> DEFINE c == a + b
             k == -q
  <2>1. c \in Int /\ k \in Int
    BY <1>1
  <2> HIDE DEF c, k
  <2>2. (c + M * k) % M = c % M
    BY <2>1, AddTurns
  <2> QED
    BY ONLY <2>2 DEF c, k
<1>4. (r + b) % M = ((a + b) + M * (-q)) % M
  BY ONLY <1>2
<1> QED
  BY ONLY <1>3, <1>4 DEF r

LEMMA InRange ==
  ASSUME NEW M \in Nat \ {0}, NEW h \in 0 .. M - 1
  PROVE  h % M = h
<1>1. (M * 0 + h) % M = h
  BY RemainderUnique
<1>2. M * 0 + h = h
  BY Z3
<1> QED
  BY ONLY <1>1, <1>2

-----------------------------------------------------------------------------
LEMMA CounterMath ==
  /\ CounterMod \in Nat \ {0, 1} /\ Counter = 0 .. CounterMod - 1
  /\ \A a \in Int : a % CounterMod \in Counter
  /\ \A a \in Int : a \in Counter => a \in Nat
<1>1. CounterMod \in Nat \ {0, 1} /\ Counter = 0 .. CounterMod - 1
  BY UdpAssumption DEF Counter
<1>2. \A a \in Int : a % CounterMod \in Counter
  BY <1>1, DivMod
<1> QED
  BY <1>1, <1>2

LEMMA Wraps ==
  ASSUME NEW a \in Int
  PROVE  a % CounterMod \in Counter
BY CounterMath

LEMMA NextIsInt ==
  ASSUME NEW c \in Counter
  PROVE  c \in Int /\ c + 1 \in Int
BY UdpAssumption DEF Counter

LEMMA NextWraps ==
  ASSUME NEW c \in Counter
  PROVE  (c + 1) % CounterMod \in Counter
<1> DEFINE d == c + 1
<1>1. d \in Int
  BY NextIsInt
<1> HIDE DEF d
<1>2. d % CounterMod \in Counter
  BY <1>1, Wraps
<1> QED
  BY ONLY <1>2 DEF d

(* The difference the code reads as signed is the true one but for turns.    *)
LEMMA ErrsTurns ==
  ASSUME NEW h \in Int, NEW e \in Int
  PROVE  \E k \in Int : Signed((h - e) % CounterMod) = (h - e) + CounterMod * k
<1> DEFINE d == h - e
           q == d \div CounterMod
           r == d % CounterMod
<1>1. CounterMod \in Nat \ {0}
  BY CounterMath
<1>2. d \in Int /\ q \in Int /\ r \in Int /\ d = CounterMod * q + r
  BY <1>1, DivMod
<1> HIDE DEF d, q, r
<1>3. Signed(r) = r \/ Signed(r) = r - CounterMod
  BY DEF Signed
<1>4. r = d + CounterMod * (-q) /\ r - CounterMod = d + CounterMod * (-q - 1)
  BY <1>1, <1>2, Z3
<1>5. -q \in Int /\ -q - 1 \in Int
  BY <1>2
<1>6. \E k \in Int : Signed(r) = d + CounterMod * k
  BY <1>3, <1>4, <1>5
<1> QED
  BY <1>6 DEF d, r

(* ++paketCounter on a frame that is forwarded keeps the balance.            *)
LEMMA InSyncBalances ==
  ASSUME NEW s \in Int
  PROVE  ((s % CounterMod) + 1) % CounterMod = (s + 1) % CounterMod
<1> DEFINE b == 1
<1>1. CounterMod \in Nat \ {0} /\ b \in Int
  BY CounterMath
<1> HIDE DEF b
<1>2. ((s % CounterMod) + b) % CounterMod = (s + b) % CounterMod
  BY <1>1, AddWrapped
<1> QED
  BY ONLY <1>2 DEF b

(* The wrapped sum of a forwarded, x desyncs and t lost frames, before and
   after a desync that found err frames missing, and the err it computes when
   frame h arrives after frame p.                                            *)
Balance(a, x, t) == (a + x + t) % CounterMod

BalanceAfter(a, x, t, err) ==
  (a + ((x + 1) % CounterMod) + ((t + err) % CounterMod)) % CounterMod

MissingBetween(p, h) == Signed((h - ((p + 1) % CounterMod)) % CounterMod)

(* paketCounter = udp.counter keeps it when the difference is counted lost.  *)
LEMMA DesyncBalances ==
  ASSUME NEW a \in Int, NEW x \in Int, NEW t \in Int, NEW h \in Counter,
         NEW p \in Int, p = Balance(a, x, t),
         NEW err \in Int, err = MissingBetween(p, h)
  PROVE  BalanceAfter(a, x, t, err) = h
<1> DEFINE M == CounterMod
           s == a + x + t
<1>1. M \in Nat \ {0} /\ h \in Int /\ s \in Int
  BY CounterMath
<1>2. PICK i \in Int : s = M * i + p
  BY <1>1, DivMod DEF Balance
<1> DEFINE pp == p + 1
           xx == x + 1
           tt == t + err
           e == pp % M
           u == xx % M
           v == tt % M
<1>3. pp \in Int /\ xx \in Int /\ tt \in Int
  OBVIOUS
<1>4. err = Signed((h - e) % M)
  BY DEF MissingBetween
<1> HIDE DEF pp, xx, tt
<1>5. e \in Int /\ u \in Int /\ v \in Int
  BY <1>1, <1>3, DivMod
<1>6. PICK j \in Int : pp = M * j + e
  BY <1>1, <1>3, DivMod
<1>7. PICK l \in Int : xx = M * l + u
  BY <1>1, <1>3, DivMod
<1>8. PICK m \in Int : tt = M * m + v
  BY <1>1, <1>3, DivMod
<1> HIDE DEF e
<1>9. PICK k \in Int : err = (h - e) + M * k
  <2>1. \E k \in Int : Signed((h - e) % CounterMod) = (h - e) + CounterMod * k
    BY <1>1, <1>5, ErrsTurns
  <2> QED
    BY ONLY <2>1, <1>4
<1> HIDE DEF u, v, M, s
<1>10. a + u + v = h + M * (i + j + k - l - m)
  <2>1. /\ u = x + 1 - M * l /\ v = t + err - M * m /\ p + 1 = M * j + e
    BY <1>1, <1>5, <1>6, <1>7, <1>8, Z3 DEF pp, xx, tt
  <2>2. a + x + t = M * i + p
    BY <1>2 DEF s
  <2>3. M * (i + j + k - l - m) = M * i + M * j + M * k - M * l - M * m
    BY <1>1, Z3
  <2>4. M * i \in Int /\ M * j \in Int /\ M * k \in Int /\ M * l \in Int /\ M * m \in Int
    BY <1>1
  <2> DEFINE Mi == M * i  Mj == M * j  Mk == M * k  Ml == M * l  Mm == M * m
  <2>5. /\ Mi \in Int /\ Mj \in Int /\ Mk \in Int /\ Ml \in Int /\ Mm \in Int
        /\ u = x + 1 - Ml /\ v = t + err - Mm /\ p + 1 = Mj + e
        /\ a + x + t = Mi + p /\ err = (h - e) + Mk
    BY <2>1, <2>2, <2>4, <1>9
  <2> HIDE DEF Mi, Mj, Mk, Ml, Mm
  <2>6. a + u + v = h + (Mi + Mj + Mk - Ml - Mm)
    <3>1. /\ a \in Int /\ x \in Int /\ t \in Int /\ p \in Int /\ h \in Int
          /\ err \in Int /\ e \in Int /\ u \in Int /\ v \in Int
      BY <1>1, <1>5
    <3> QED
      BY ONLY <2>5, <3>1, Z3
  <2> QED
    BY ONLY <2>3, <2>6 DEF Mi, Mj, Mk, Ml, Mm
<1>11. (h + M * (i + j + k - l - m)) % M = h % M
  <2> DEFINE w == i + j + k - l - m
  <2>1. w \in Int
    OBVIOUS
  <2> HIDE DEF w
  <2>2. (h + M * w) % M = h % M
    BY <2>1, <1>1, AddTurns
  <2> QED
    BY ONLY <2>2 DEF w
<1>12. h % M = h
  BY CounterMath, InRange DEF M
<1>13. (a + u + v) % M = (h + M * (i + j + k - l - m)) % M
  BY ONLY <1>10
<1> QED
  BY ONLY <1>11, <1>12, <1>13 DEF u, v, xx, tt, M, BalanceAfter

-----------------------------------------------------------------------------
LEMMA TypeInit == Init => TypeOK
<1> SUFFICES ASSUME Init PROVE TypeOK
  OBVIOUS
<1>1. 0 \in Counter
  BY UdpAssumption DEF Counter
<1>2. faults \in FaultSets /\ devCounter \in Counter
  BY UdpAssumption DEF Init, Counter
<1>3. net \in Seq(Datagram) /\ sockq \in Seq(Datagram)
  <2>1. net = <<>> /\ sockq = <<>>
    BY DEF Init
  <2> QED
    BY ONLY <2>1, EmptySeq
<1>4. framesSent = 0 /\ handler = "idle" /\ heard = FALSE /\ peeked = 0 /\ ZeroCounters
  BY DEF Init
<1> QED
  <2>1. 0 \in Nat /\ 0 \in Int
    OBVIOUS
  <2>2. heard \in BOOLEAN /\ onetimeSynch \in BOOLEAN /\ handler \in {"idle", "reading"}
    BY <1>4 DEF ZeroCounters
  <2>3. framesSent \in Nat /\ peeked \in Nat /\ data \in Nat /\ nulls \in Nat /\ firstLost \in Int
        /\ ahead \in Int
    BY <1>4 DEF ZeroCounters
  <2>4. paketCounter \in Counter /\ desynchCounter \in Counter /\ totalLost \in Counter /\ lastData \in Counter
    BY <1>1, <1>4, Zenon DEF ZeroCounters
  <2> QED
    BY ONLY <1>2, <1>3, <2>2, <2>3, <2>4 DEF TypeOK

LEMMA RemoveAtInSeq ==
  ASSUME NEW S, NEW s \in Seq(S), NEW i \in DOMAIN s
  PROVE  RemoveAt(s, i) \in Seq(S)
BY DEF RemoveAt

LEMMA NullListsCount ==
  ASSUME NEW errs \in Int
  PROVE  Len(NullLists(errs)) \in Nat
<1> DEFINE one == List("null", Channels)
           F(k) == List("null", (IF ChainClears THEN 1 ELSE k) * Channels)
           n == IF errs >= 0 THEN errs ELSE 0
<1>1. 1 .. errs = 1 .. n /\ n \in Nat
  OBVIOUS
<1> HIDE DEF n, F, one
<1>2. NullLists(errs) = <<one>> \/ NullLists(errs) = [k \in 1 .. errs |-> F(k)]
  BY DEF NullLists, F, one
<1>3. Len(<<one>>) = 1
  OBVIOUS
<1>4. Len([k \in 1 .. n |-> F(k)]) = n
  BY <1>1
<1>5. [k \in 1 .. errs |-> F(k)] = [k \in 1 .. n |-> F(k)]
  BY ONLY <1>1
<1> QED
  BY ONLY <1>1, <1>2, <1>3, <1>4, <1>5

(* What the signed difference of two counters may be.                        *)
LEMMA ErrsType ==
  ASSUME paketCounter \in Counter, totalLost \in Counter, Head(sockq) \in Counter
  PROVE  /\ Expected \in Counter /\ Errs \in Int /\ LostInAll \in Counter
<1>1. CounterMod \in Int /\ totalLost \in Int /\ Head(sockq) \in Int
  <2>1. CounterMod \in Int
    BY UdpAssumption
  <2> QED
    BY <2>1, NextIsInt, Zenon
<1>2. Expected \in Counter
  BY NextWraps DEF Expected
<1>3. (Head(sockq) - Expected) % CounterMod \in Int
  <2> DEFINE d == Head(sockq) - Expected
  <2>1. d \in Int
    BY <1>1, <1>2, NextIsInt
  <2> HIDE DEF d
  <2>2. d % CounterMod \in Int
    BY <2>1, Wraps, NextIsInt
  <2> QED
    BY ONLY <2>2 DEF d
<1>4. Errs \in Int
  BY <1>1, <1>3 DEF Errs, Signed
<1>5. LostInAll \in Counter
  <2> DEFINE d == totalLost + Errs
  <2>1. d \in Int
    BY <1>1, <1>4
  <2> HIDE DEF d
  <2>2. d % CounterMod \in Counter
    BY <2>1, Wraps
  <2> QED
    BY ONLY <2>2 DEF LostInAll, d
<1> QED
  BY <1>2, <1>4, <1>5

(* A datagram that is read is a counter's value, or a runt.                  *)
LEMMA SockqType ==
  ASSUME TypeOK, sockq # <<>>
  PROVE  Head(sockq) \in Datagram /\ Tail(sockq) \in Seq(Datagram)
<1>1. sockq \in Seq(Datagram)
  BY DEF TypeOK
<1> QED
  BY ONLY <1>1, sockq # <<>>, HeadTailProperties

LEMMA TypeStep == TypeOK /\ [Next]_vars => TypeOK'
<1> SUFFICES ASSUME TypeOK, [Next]_vars PROVE TypeOK'
  OBVIOUS
<1> DEFINE Dev == faults' \in FaultSets /\ devCounter' \in Counter /\ framesSent' \in Nat /\ net' \in Seq(Datagram)
           Sock == /\ sockq' \in Seq(Datagram) /\ handler' \in {"idle", "reading"}
                   /\ heard' \in BOOLEAN /\ peeked' \in Nat
           Conn == /\ paketCounter' \in Counter /\ desynchCounter' \in Counter
                   /\ totalLost' \in Counter /\ onetimeSynch' \in BOOLEAN
           Hist == /\ data' \in Nat /\ lastData' \in Counter /\ nulls' \in Nat
                   /\ firstLost' \in Int /\ ahead' \in Int
<1> SUFFICES Dev /\ Sock /\ Conn /\ Hist
  BY DEF TypeOK
<1>0. 0 \in Counter /\ Counter \subseteq Datagram /\ Runt \in Datagram
  BY CounterMath DEF Datagram
<1>1. CASE DeviceSend
  <2>1. devCounter' \in Counter
    <3>1. devCounter \in Counter /\ devCounter' = (devCounter + 1) % CounterMod
      BY <1>1 DEF DeviceSend, TypeOK
    <3> QED
      BY ONLY <3>1, NextWraps
  <2>2. net' \in Seq(Datagram)
    BY <1>1, <1>0, <2>1, AppendProperties DEF DeviceSend, TypeOK
  <2> QED
    BY <1>1, <2>1, <2>2 DEF DeviceSend, TypeOK, conn, history
<1>2. CASE DeviceReboot
  BY <1>2, <1>0 DEF DeviceReboot, TypeOK, conn, history
<1>3. ASSUME NEW i \in DOMAIN net, Deliver(i) PROVE Dev /\ Sock /\ Conn /\ Hist
  <2>1. net \in Seq(Datagram) /\ sockq \in Seq(Datagram)
    BY DEF TypeOK
  <2>2. net[i] \in Datagram /\ RemoveAt(net, i) \in Seq(Datagram)
    BY <2>1, RemoveAtInSeq
  <2>3. sockq' \in Seq(Datagram)
    <3>1. CASE sockq' = Append(sockq, net[i])
      BY ONLY <3>1, <2>1, <2>2, AppendProperties
    <3>2. CASE sockq' = Append(sockq, Runt)
      BY ONLY <3>2, <2>1, <1>0, AppendProperties
    <3> QED
      BY <3>1, <3>2, <1>3 DEF Deliver
  <2> QED
    BY <1>3, <2>2, <2>3 DEF Deliver, TypeOK, device, conn, history
<1>4. CASE Duplicate
  <2>1. net' \in Seq(Datagram)
    <3>1. PICK i \in DOMAIN net : net' = <<net[i]>> \o net
      BY <1>4 DEF Duplicate
    <3>2. net \in Seq(Datagram) /\ net[i] \in Datagram
      BY DEF TypeOK
    <3>3. <<net[i]>> \in Seq(Datagram)
      BY ONLY <3>2
    <3> QED
      BY ONLY <3>1, <3>2, <3>3, ConcatProperties
  <2> QED
    BY <1>4, <2>1 DEF Duplicate, TypeOK, conn, history
<1>5. CASE Lose
  <2>1. net' \in Seq(Datagram)
    BY <1>5, HeadTailProperties DEF Lose, TypeOK
  <2> QED
    BY <1>5, <2>1 DEF Lose, TypeOK, device, conn, history
<1>6. CASE ReadyRead
  BY <1>6 DEF ReadyRead, TypeOK, device, conn, history
<1>7. CASE ReadLoopEnds
  BY <1>7 DEF ReadLoopEnds, TypeOK, device, conn, history
<1>8. CASE ReadRunt
  BY <1>8, SockqType DEF ReadRunt, TypeOK, device, conn, history
<1>9. ASSUME ReadFrame
      PROVE  /\ Dev /\ Sock /\ Head(sockq) \in Counter
  <2>1. Tail(sockq) \in Seq(Datagram) /\ Head(sockq) \in Counter
    BY <1>9, SockqType DEF ReadFrame, Datagram
  <2> QED
    BY <1>9, <2>1 DEF ReadFrame, TypeOK, device
<1>10. CASE ReadInSync
  <2>1. Dev /\ Sock /\ Head(sockq) \in Counter /\ Expected \in Counter
    BY <1>9, <1>10, ErrsType DEF ReadInSync, TypeOK
  <2> QED
    BY <1>10, <2>1 DEF ReadInSync, TypeOK
<1>11. CASE ReadDesync
  <2>1. Dev /\ Sock /\ Head(sockq) \in Counter /\ Errs \in Int /\ LostInAll \in Counter
    BY <1>9, <1>11, ErrsType DEF ReadDesync, TypeOK
  <2>2. (desynchCounter + 1) % CounterMod \in Counter
    BY NextWraps DEF TypeOK
  <2>3. Len(lists') \in Nat
    BY <1>11, <2>1, NullListsCount DEF ReadDesync
  <2>4. Conn
    BY <1>11, <2>1, <2>2 DEF ReadDesync, ResyncTo
  <2>5. Hist
    BY <1>11, <2>1, <2>3 DEF ReadDesync, TypeOK
  <2> QED
    BY <2>1, <2>4, <2>5
<1>a. ASSUME Disconnected PROVE heard' \in BOOLEAN /\ Conn /\ Hist
  <2>1. heard' \in BOOLEAN /\ onetimeSynch' \in BOOLEAN
    BY <1>a DEF Disconnected
  <2>2. data' \in Nat /\ nulls' \in Nat /\ firstLost' \in Int /\ ahead' \in Int
    BY <1>a DEF Disconnected
  <2>3. /\ paketCounter' \in Counter /\ desynchCounter' \in Counter
        /\ totalLost' \in Counter /\ lastData' \in Counter
    BY <1>a, <1>0, Zenon DEF Disconnected
  <2> QED
    BY <2>1, <2>2, <2>3
<1>b. ASSUME UNCHANGED <<device, net, sockq, handler, peeked>>
      PROVE  Dev /\ sockq' \in Seq(Datagram) /\ handler' \in {"idle", "reading"} /\ peeked' \in Nat
  BY <1>b DEF TypeOK, device
<1>12. CASE ReadyReadEmpty
  <2>1. Disconnected /\ UNCHANGED <<device, net, sockq, handler, peeked>>
    BY <1>12 DEF ReadyReadEmpty
  <2> QED
    BY <2>1, <1>a, <1>b
<1>13. CASE CheckConnection
  <2>1. UNCHANGED <<device, net, sockq, handler, peeked>>
    BY <1>13 DEF CheckConnection
  <2>2. CASE Disconnected
    BY <2>1, <2>2, <1>a, <1>b
  <2>3. CASE heard' = FALSE /\ UNCHANGED <<conn, history>>
    <3>1. heard' \in BOOLEAN /\ Conn /\ Hist
      BY <2>3 DEF TypeOK, conn, history
    <3> QED
      BY <2>1, <3>1, <1>b
  <2> QED
    BY <2>2, <2>3, <1>13 DEF CheckConnection, HeardAfterTick
<1>14. CASE UNCHANGED vars
  BY <1>14 DEF vars, device, conn, history, TypeOK
<1> QED
  BY <1>1, <1>2, <1>3, <1>4, <1>5, <1>6, <1>7, <1>8, <1>10, <1>11, <1>12, <1>13, <1>14
     DEF Next, Network, ReadyReadUdp

(* The stream's variables keep their types, the counters among them their
   width, under every fault of the network (server.h:23-28).                 *)
THEOREM UdpTypes == Safety => []TypeOK
<1> QED
  BY TypeInit, TypeStep, PTL DEF Safety

-----------------------------------------------------------------------------
LEMMA BalanceInit == Init => CountersBalance
<1> SUFFICES ASSUME Init PROVE CountersBalance
  OBVIOUS
<1>1. paketCounter = 0 /\ data + desynchCounter + totalLost = 0
  BY DEF Init, ZeroCounters
<1>2. 0 % CounterMod = 0
  <2>1. CounterMod \in Nat \ {0} /\ 0 \in 0 .. CounterMod - 1
    BY UdpAssumption
  <2> QED
    BY ONLY <2>1, InRange
<1> QED
  BY ONLY <1>1, <1>2 DEF CountersBalance

LEMMA BalanceStep == TypeOK /\ CountersBalance /\ [Next]_vars => CountersBalance'
<1> SUFFICES ASSUME TypeOK, CountersBalance, [Next]_vars PROVE CountersBalance'
  OBVIOUS
<1> DEFINE s == data + desynchCounter + totalLost
<1>0. /\ paketCounter \in Counter /\ paketCounter \in Int /\ data \in Int
      /\ desynchCounter \in Int /\ totalLost \in Counter /\ totalLost \in Int
  <2>1. /\ paketCounter \in Counter /\ desynchCounter \in Counter
        /\ totalLost \in Counter /\ data \in Nat
    BY DEF TypeOK
  <2>2. data \in Int
    BY <2>1
  <2> QED
    BY <2>1, <2>2, NextIsInt, Zenon
<1>1. ASSUME UNCHANGED <<conn, history>> PROVE CountersBalance'
  BY <1>1 DEF conn, history, CountersBalance
<1>2. ASSUME Disconnected PROVE CountersBalance'
  <2>1. paketCounter' = 0 /\ data' + desynchCounter' + totalLost' = 0
    BY <1>2 DEF Disconnected
  <2>2. 0 % CounterMod = 0
    <3>1. CounterMod \in Nat \ {0} /\ 0 \in 0 .. CounterMod - 1
      BY UdpAssumption
    <3> QED
      BY ONLY <3>1, InRange
  <2> QED
    BY ONLY <2>1, <2>2 DEF CountersBalance
<1>3. CASE ReadInSync
  <2>1. s \in Int /\ paketCounter = s % CounterMod
    BY <1>0 DEF CountersBalance
  <2>2. data' + desynchCounter' + totalLost' = s + 1
    BY <1>0, <1>3 DEF ReadInSync
  <2>3. paketCounter' = (paketCounter + 1) % CounterMod
    BY <1>3 DEF ReadInSync, Expected
  <2> HIDE DEF s
  <2>4. ((s % CounterMod) + 1) % CounterMod = (s + 1) % CounterMod
    BY <2>1, InSyncBalances
  <2> QED
    BY ONLY <2>1, <2>2, <2>3, <2>4 DEF CountersBalance
<1>4. CASE ReadDesync
  <2>1. Head(sockq) \in Counter
    <3>1. Head(sockq) \in Datagram
      BY <1>4, SockqType DEF ReadDesync, ReadFrame
    <3> QED
      BY <3>1, <1>4 DEF ReadDesync, ReadFrame, Datagram
  <2>2. Errs \in Int
    BY <1>0, <2>1, ErrsType
  <2>3. Errs = MissingBetween(paketCounter, Head(sockq))
    BY DEF Errs, Expected, MissingBetween
  <2>4. paketCounter = Balance(data, desynchCounter, totalLost)
    BY DEF CountersBalance, Balance
  <2>5. /\ data' = data /\ desynchCounter' = (desynchCounter + 1) % CounterMod
        /\ totalLost' = (totalLost + Errs) % CounterMod /\ paketCounter' = Head(sockq)
    BY <1>4 DEF ReadDesync, LostInAll, ResyncTo
  <2>6. BalanceAfter(data, desynchCounter, totalLost, Errs) = Head(sockq)
    <3>1. /\ data \in Int /\ desynchCounter \in Int /\ totalLost \in Int
          /\ paketCounter \in Int
      BY <1>0
    <3> QED
      BY ONLY <2>1, <2>2, <2>3, <2>4, <3>1, DesyncBalances
  <2> QED
    BY ONLY <2>5, <2>6 DEF CountersBalance, BalanceAfter
<1>5. CASE CheckConnection
  BY <1>1, <1>2, <1>5 DEF CheckConnection
<1>6. CASE ReadyReadEmpty
  BY <1>2, <1>6 DEF ReadyReadEmpty
<1>7. CASE DeviceSend \/ DeviceReboot \/ Network
  BY <1>1, <1>7 DEF DeviceSend, DeviceReboot, Network, Duplicate, Lose, Deliver
<1>8. CASE ReadyRead \/ ReadLoopEnds \/ ReadRunt
  BY <1>1, <1>8 DEF ReadyRead, ReadLoopEnds, ReadRunt
<1>9. CASE UNCHANGED vars
  BY <1>1, <1>9 DEF vars
<1> QED
  BY <1>3, <1>4, <1>5, <1>6, <1>7, <1>8, <1>9 DEF Next, ReadyReadUdp

(* paketCounter is always the frames forwarded plus the desyncs plus the
   frames reported lost, modulo the width of a uint32_t: however datagrams are
   lost, repeated or reordered, wherever the device starts or restarts, the
   resynchronisation of server.cpp:258-276 never drifts.                     *)
THEOREM CountersAlwaysBalance == Safety => []CountersBalance
<1>1. TypeOK /\ CountersBalance /\ [Next]_vars => (TypeOK /\ CountersBalance)'
  BY TypeStep, BalanceStep
<1> QED
  BY TypeInit, BalanceInit, <1>1, PTL DEF Safety

-----------------------------------------------------------------------------
(* How far a counter lies behind another, forwards and around the turn.      *)
Dist(d, c) == (d - c) % CounterMod

LEMMA WrapsTo ==
  ASSUME NEW a \in Int, NEW k \in Int, NEW r \in Counter, a = CounterMod * k + r
  PROVE  a % CounterMod = r
<1>1. CounterMod \in Nat \ {0} /\ r \in 0 .. CounterMod - 1
  BY CounterMath
<1>2. (CounterMod * k + r) % CounterMod = r
  BY ONLY <1>1, k \in Int, RemainderUnique
<1> QED
  BY ONLY <1>2, a = CounterMod * k + r

LEMMA DistTurns ==
  ASSUME NEW d \in Counter, NEW c \in Counter
  PROVE  /\ Dist(d, c) \in Counter
         /\ \E k \in Int : d - c = CounterMod * k + Dist(d, c)
<1>1. CounterMod \in Nat \ {0} /\ d - c \in Int
  BY CounterMath, NextIsInt
<1> QED
  BY <1>1, DivMod, CounterMath DEF Dist

LEMMA DistSelf ==
  ASSUME NEW d \in Counter
  PROVE  Dist(d, d) = 0
<1>1. d - d = 0 /\ CounterMod \in Nat \ {0} /\ 0 \in 0 .. CounterMod - 1
  BY CounterMath
<1> QED
  BY ONLY <1>1, InRange DEF Dist

(* Everything falls one further behind when the counter is incremented.      *)
LEMMA DistNext ==
  ASSUME NEW d \in Counter, NEW c \in Counter, Dist(d, c) + 1 < CounterMod
  PROVE  Dist((d + 1) % CounterMod, c) = Dist(d, c) + 1
<1> DEFINE M == CounterMod
           e == (d + 1) % CounterMod
           r == Dist(d, c)
<1>1. M \in Nat \ {0} /\ d \in Int /\ c \in Int /\ r \in Counter /\ r + 1 \in Counter
  <2>1. r \in Counter /\ r + 1 < CounterMod
    BY DistTurns
  <2>2. r + 1 \in Counter
    <3>1. Counter = 0 .. M - 1 /\ M \in Nat
      BY CounterMath
    <3> HIDE DEF r
    <3> QED
      BY ONLY <2>1, <3>1
  <2> QED
    BY <2>1, <2>2, CounterMath, NextIsInt
<1>2. PICK k \in Int : d - c = M * k + r
  BY DistTurns
<1>3. e \in Counter /\ e \in Int
  BY NextWraps, NextIsInt
<1>4. PICK j \in Int : d + 1 = M * j + e
  <2> DEFINE b == d + 1
  <2>1. b \in Int
    BY <1>1
  <2> HIDE DEF b
  <2>2. \E j \in Int : b = M * j + (b % M)
    BY <1>1, <2>1, DivMod
  <2> QED
    BY ONLY <2>2 DEF b, e
<1> HIDE DEF e, r, M
<1>5. e - c = M * (k - j) + (r + 1)
  <2>1. M * (k - j) = M * k - M * j
    BY <1>1, Z3
  <2>2. M * k \in Int /\ M * j \in Int /\ r \in Int
    BY <1>1, NextIsInt
  <2> QED
    BY ONLY <2>1, <2>2, <1>1, <1>2, <1>3, <1>4
<1>6. (e - c) % M = r + 1
  <2> DEFINE a == e - c
             i == k - j
             s == r + 1
  <2>1. a \in Int /\ i \in Int /\ s \in Counter /\ a = M * i + s
    BY <1>1, <1>3, <1>5
  <2> HIDE DEF a, i, s
  <2>2. a % M = s
    BY <2>1, WrapsTo DEF M
  <2> QED
    BY ONLY <2>2 DEF a, s
<1> QED
  BY ONLY <1>6 DEF e, r, M, Dist

(* The distance between two counters that lie behind a third.                *)
LEMMA DistBetween ==
  ASSUME NEW d \in Counter, NEW c \in Counter, NEW e \in Counter,
         Dist(d, e) <= Dist(d, c)
  PROVE  Dist(e, c) = Dist(d, c) - Dist(d, e)
<1> DEFINE M == CounterMod
           r == Dist(d, c)
           s == Dist(d, e)
           a == e - c
           t == r - s
<1>1. /\ M \in Nat \ {0} /\ d \in Int /\ c \in Int /\ e \in Int
      /\ r \in Counter /\ s \in Counter /\ r \in Int /\ s \in Int
  BY CounterMath, DistTurns, NextIsInt
<1>2. PICK k \in Int : d - c = M * k + r
  BY DistTurns
<1>3. PICK j \in Int : d - e = M * j + s
  BY DistTurns
<1>4. t \in Counter /\ a \in Int
  <2>1. s <= r /\ Counter = 0 .. M - 1
    BY CounterMath
  <2> HIDE DEF r, s, M
  <2> QED
    BY ONLY <1>1, <2>1
<1> HIDE DEF M, r, s
<1>5. a = M * (k - j) + t
  <2>1. M * (k - j) = M * k - M * j /\ M * k \in Int /\ M * j \in Int
    BY <1>1, Z3
  <2> QED
    BY ONLY <2>1, <1>1, <1>2, <1>3
<1>6. a % M = t
  <2> DEFINE i == k - j
  <2>1. i \in Int /\ a = M * i + t
    BY <1>5
  <2> HIDE DEF i, a, t
  <2> QED
    BY <2>1, <1>4, WrapsTo DEF M
<1> QED
  BY ONLY <1>6 DEF a, t, r, s, M, Dist

(* The counter that the stream expects next is one less far behind.          *)
LEMMA DistExpected ==
  ASSUME NEW d \in Counter, NEW c \in Counter
  PROVE  Dist(d, (c + 1) % CounterMod) =
           IF Dist(d, c) = 0 THEN CounterMod - 1 ELSE Dist(d, c) - 1
<1> DEFINE M == CounterMod
           e == (c + 1) % CounterMod
           r == Dist(d, c)
           s == IF r = 0 THEN M - 1 ELSE r - 1
           a == d - e
<1>1. M \in Nat \ {0} /\ d \in Int /\ c \in Int /\ r \in Counter /\ r \in Int
  BY CounterMath, DistTurns, NextIsInt
<1>2. PICK k \in Int : d - c = M * k + r
  BY DistTurns
<1>3. e \in Counter /\ e \in Int
  BY NextWraps, NextIsInt
<1>4. PICK j \in Int : c + 1 = M * j + e
  <2> DEFINE b == c + 1
  <2>1. b \in Int
    BY <1>1
  <2> HIDE DEF b
  <2>2. \E j \in Int : b = M * j + (b % M)
    BY <1>1, <2>1, DivMod
  <2> QED
    BY ONLY <2>2 DEF b, e
<1>5. s \in Counter /\ a \in Int
  <2>1. Counter = 0 .. M - 1
    BY CounterMath
  <2> HIDE DEF r, e, M
  <2> QED
    BY ONLY <1>1, <1>3, <2>1
<1> HIDE DEF e, r, M
<1>6. PICK i \in Int : a = M * i + s
  <2>1. /\ M * (k + j) = M * k + M * j /\ M * (k + j - 1) = M * k + M * j - M
        /\ M * k \in Int /\ M * j \in Int
    BY <1>1, Z3
  <2>2. d - e = M * (k + j) + (r - 1) /\ d - e = M * (k + j - 1) + (r + M - 1)
    BY ONLY <2>1, <1>1, <1>2, <1>3, <1>4
  <2>3. k + j \in Int /\ k + j - 1 \in Int
    OBVIOUS
  <2>4. CASE r = 0
    <3>1. s = r + M - 1
      BY <2>4, <1>1
    <3> QED
      BY <2>2, <2>3, <3>1
  <2>5. CASE r # 0
    <3>1. s = r - 1
      BY <2>5
    <3> QED
      BY <2>2, <2>3, <3>1
  <2> QED
    BY <2>4, <2>5
<1>7. a % M = s
  <2> HIDE DEF a, s
  <2> QED
    BY <1>5, <1>6, WrapsTo DEF M
<1> QED
  BY ONLY <1>7 DEF a, s, e, r, M, Dist

-----------------------------------------------------------------------------
(* On a network that keeps the order, what is in flight and what was read are
   counters of one device, and later ones are less far behind it: strictly,
   unless frames are repeated.                                               *)
Age(c) == Dist(devCounter, c)

Before(c, e) ==
  c \in Counter /\ e \in Counter =>
    Age(e) <= Age(c) /\ (Age(e) = Age(c) => "dup" \in faults)

InOrder(s) == \A j, k \in DOMAIN s : j < k => Before(s[j], s[k])

BeforeAll(c, s) == \A k \in DOMAIN s : Before(c, s[k])

InFlight ==
  /\ InOrder(sockq) /\ InOrder(net)
  /\ \A k \in DOMAIN sockq : BeforeAll(sockq[k], net)

(* paketCounter is the counter of the last frame read, once there is one.    *)
FrameWasRead == onetimeSynch \/ data > 0

LastRead ==
  FrameWasRead => BeforeAll(paketCounter, sockq) /\ BeforeAll(paketCounter, net)

LastForwarded == data > 0 => Age(paketCounter) <= Age(lastData)

KeepsOrder == faults \cap {"reorder", "reboot"} = {}

OrderInv == KeepsOrder => InFlight /\ LastRead

ForwardInv == KeepsOrder => LastForwarded

(* The stream is in step with the device: what is in flight and the last
   frame read are less than half a turn of the counter behind it, so that a
   signed difference of two of them has the sign of the true one. Recent says
   the same of the last frame forwarded.                                     *)
Near(c) == c \in Counter => 2 * Age(c) < CounterMod

AllNear(s) == \A k \in DOMAIN s : Near(s[k])

InStep ==
  KeepsOrder => AllNear(sockq) /\ AllNear(net) /\ (FrameWasRead => Near(paketCounter))

Recent == KeepsOrder /\ data > 0 => Near(lastData)

LEMMA AgeType ==
  ASSUME TypeOK, NEW c \in Counter
  PROVE  Age(c) \in Nat /\ Age(c) < CounterMod
<1>1. Age(c) \in Counter
  BY DistTurns DEF Age, TypeOK
<1> QED
  BY <1>1, CounterMath

(* Nothing is sent, and what is in flight is what was, a part left out.      *)
LEMMA Thinned ==
  ASSUME NEW s \in Seq(Datagram), NEW t \in Seq(Datagram), NEW n \in Nat,
         Len(t) + n <= Len(s),
         \A k \in DOMAIN t : t[k] = s[k + n] \/ t[k] = Runt
  PROVE  /\ \A k \in DOMAIN t : t[k] \in Counter => k + n \in DOMAIN s /\ t[k] = s[k + n]
         /\ InOrder(s) => InOrder(t)
         /\ \A c : BeforeAll(c, s) => BeforeAll(c, t)
<1>1. Runt \notin Counter
  BY CounterMath DEF Runt
<1>2. \A k \in DOMAIN t : k + n \in DOMAIN s
  OBVIOUS
<1>3. \A k \in DOMAIN t : t[k] \in Counter => t[k] = s[k + n]
  BY <1>1
<1>4. InOrder(s) => InOrder(t)
  <2>1. \A j, k \in DOMAIN t : j < k => j + n < k + n
    OBVIOUS
  <2> QED
    BY <1>2, <1>3, <2>1 DEF InOrder, Before
<1>5. \A c : BeforeAll(c, s) => BeforeAll(c, t)
  BY <1>2, <1>3 DEF BeforeAll, Before
<1> QED
  BY <1>2, <1>3, <1>4, <1>5

(* A step that leaves the device's counter alone keeps every age.            *)
LEMMA SameAges ==
  ASSUME UNCHANGED <<faults, devCounter>>
  PROVE  /\ /\ InOrder(sockq') /\ InOrder(net')
            /\ \A k \in DOMAIN sockq' : BeforeAll(sockq'[k], net')
            => InFlight'
         /\ BeforeAll(paketCounter, sockq)' = BeforeAll(paketCounter', sockq')
         /\ BeforeAll(paketCounter, net)' = BeforeAll(paketCounter', net')
         /\ Age(paketCounter)' = Age(paketCounter') /\ Age(lastData)' = Age(lastData')
         /\ KeepsOrder' = KeepsOrder
BY DEF InFlight, InOrder, BeforeAll, Before, Age, KeepsOrder

LEMMA AgeGrows ==
  ASSUME TypeOK, DeviceSend, NEW c \in Counter, Near(c)
  PROVE  Age(c) \in Nat /\ Age(c)' = Age(c) + 1
<1>1. Age(c) \in Nat /\ 2 * Age(c) < CounterMod /\ CounterMod \in Nat /\ CounterMod >= 2
  BY AgeType, UdpAssumption DEF Near
<1>2. Age(c) + 1 < CounterMod
  BY <1>1
<1> QED
  BY <1>1, <1>2, DistNext DEF Age, TypeOK, DeviceSend

(* A frame that is sent makes the others older, and is the youngest itself.  *)
LEMMA SendOrdered ==
  ASSUME TypeOK, InStep, OrderInv, DeviceSend, KeepsOrder
  PROVE  InFlight' /\ LastRead'
<1>1. /\ sockq' = sockq /\ faults' = faults
      /\ net' = Append(net, devCounter') /\ devCounter' \in Counter
      /\ paketCounter' = paketCounter /\ data' = data
      /\ onetimeSynch' = onetimeSynch
  <2>1. devCounter' \in Counter
    BY NextWraps DEF DeviceSend, TypeOK
  <2> QED
    BY <2>1 DEF DeviceSend, conn, history
<1>2. /\ InFlight /\ LastRead
      /\ net \in Seq(Datagram) /\ sockq \in Seq(Datagram)
      /\ paketCounter \in Counter
  BY DEF OrderInv, TypeOK
<1>3. \A c \in Counter : Near(c) => Age(c) \in Nat /\ Age(c)' = Age(c) + 1
  <2> SUFFICES ASSUME NEW c \in Counter, Near(c)
               PROVE  Age(c) \in Nat /\ Age(c)' = Age(c) + 1
    OBVIOUS
  <2> QED
    BY AgeGrows
<1>4. \A c, e : Near(c) /\ Near(e) /\ Before(c, e) => Before(c, e)'
  BY <1>1, <1>3 DEF Before
<1>5. Age(devCounter)' = 0
  BY <1>1, DistSelf DEF Age
<1>6. \A c : Near(c) => Before(c, devCounter)'
  BY <1>1, <1>3, <1>5 DEF Before
<1>7. /\ Len(net') = Len(net) + 1 /\ net'[Len(net) + 1] = devCounter'
      /\ \A k \in DOMAIN net : net'[k] = net[k]
      /\ \A k \in DOMAIN net' : k \in DOMAIN net \/ k = Len(net) + 1
      /\ \A j, k \in DOMAIN net' : j < k => j \in DOMAIN net
      /\ Len(net) + 1 \in DOMAIN net'
  BY <1>1, <1>2
<1>8. AllNear(sockq) /\ AllNear(net) /\ (FrameWasRead => Near(paketCounter))
  BY DEF InStep
<1>9. \A c : Near(c) /\ BeforeAll(c, net) => BeforeAll(c, net)'
  <2> SUFFICES ASSUME NEW c, Near(c), BeforeAll(c, net), NEW k \in DOMAIN net'
               PROVE  Before(c, net[k])'
    BY DEF BeforeAll
  <2>1. CASE k \in DOMAIN net
    <3>1. Before(c, net[k]) /\ Near(net[k]) /\ net'[k] = net[k]
      BY <2>1, <1>7, <1>8 DEF BeforeAll, AllNear
    <3> QED
      BY <3>1, <1>4 DEF Before, Age
  <2>2. CASE k = Len(net) + 1
    BY <2>2, <1>6, <1>7 DEF Before, Age
  <2> QED
    BY <2>1, <2>2, <1>7
<1>10. \A c : Near(c) /\ BeforeAll(c, sockq) => BeforeAll(c, sockq)'
  BY <1>1, <1>4, <1>8 DEF BeforeAll, AllNear, Before, Age
<1>11. InOrder(sockq)'
  BY <1>1, <1>2, <1>4, <1>8 DEF InFlight, InOrder, AllNear, Before, Age
<1>12. InOrder(net)'
  <2> SUFFICES ASSUME NEW j \in DOMAIN net', NEW k \in DOMAIN net', j < k
               PROVE  Before(net[j], net[k])'
    BY DEF InOrder
  <2>1. j \in DOMAIN net /\ net'[j] = net[j] /\ Near(net[j])
    BY <1>7, <1>8 DEF AllNear
  <2>2. CASE k \in DOMAIN net
    <3>1. Before(net[j], net[k]) /\ Near(net[k]) /\ net'[k] = net[k]
      BY <2>1, <2>2, <1>2, <1>7, <1>8 DEF InFlight, InOrder, AllNear
    <3> QED
      BY <2>1, <3>1, <1>4 DEF Before, Age
  <2>3. CASE k = Len(net) + 1
    BY <2>1, <2>3, <1>6, <1>7 DEF Before, Age
  <2> QED
    BY <2>2, <2>3, <1>7
<1>13. (\A k \in DOMAIN sockq : BeforeAll(sockq[k], net))'
  <2> SUFFICES ASSUME NEW k \in DOMAIN sockq PROVE BeforeAll(sockq[k], net)'
    BY <1>1
  <2>1. Near(sockq[k]) /\ BeforeAll(sockq[k], net) /\ sockq'[k] = sockq[k]
    BY <1>1, <1>2, <1>8 DEF InFlight, AllNear
  <2> QED
    BY <2>1, <1>9 DEF BeforeAll, Before, Age
<1>14. LastRead'
  BY <1>1, <1>2, <1>8, <1>9, <1>10 DEF LastRead, FrameWasRead, BeforeAll, Before, Age
<1> QED
  BY <1>11, <1>12, <1>13, <1>14 DEF InFlight

LEMMA LoseOrdered ==
  ASSUME TypeOK, OrderInv, Lose, KeepsOrder
  PROVE  InFlight' /\ LastRead'
<1>1. UNCHANGED <<device, sockq, conn, history>> /\ net # <<>> /\ net' = Tail(net)
  BY DEF Lose
<1>2. net \in Seq(Datagram) /\ InFlight /\ LastRead
  BY DEF TypeOK, OrderInv
<1>3. /\ net' \in Seq(Datagram) /\ Len(net') + 1 <= Len(net)
      /\ \A k \in DOMAIN net' : net'[k] = net[k + 1]
  BY ONLY <1>1, <1>2, HeadTailProperties
<1>4. /\ InOrder(net) => InOrder(net')
      /\ \A c : BeforeAll(c, net) => BeforeAll(c, net')
  BY <1>2, <1>3, Thinned
<1>5. InFlight'
  <2>1. /\ InOrder(sockq') /\ InOrder(net')
        /\ \A k \in DOMAIN sockq' : BeforeAll(sockq'[k], net')
    BY <1>1, <1>2, <1>4 DEF InFlight
  <2> QED
    BY <2>1, <1>1, SameAges DEF device
<1>6. LastRead'
  BY <1>1, <1>2, <1>4, SameAges DEF LastRead, FrameWasRead, conn, history, device
<1> QED
  BY <1>5, <1>6

LEMMA DuplicateOrdered ==
  ASSUME TypeOK, OrderInv, Duplicate, KeepsOrder
  PROVE  InFlight' /\ LastRead'
<1>1. /\ UNCHANGED <<faults, devCounter, sockq, conn, history>> /\ net # <<>>
      /\ net' = <<Head(net)>> \o net /\ "dup" \in faults
  <2>1. PICK i \in DOMAIN net : i = 1 /\ net' = <<net[i]>> \o net
    BY DEF Duplicate, KeepsOrder
  <2>2. net # <<>> /\ Head(net) = net[1]
    BY <2>1 DEF TypeOK
  <2> QED  BY <2>1, <2>2 DEF Duplicate
<1>2. net \in Seq(Datagram) /\ InFlight /\ LastRead
  BY DEF TypeOK, OrderInv
<1>3. /\ 1 \in DOMAIN net /\ 1 \in DOMAIN net' /\ net'[1] = net[1]
      /\ \A k \in DOMAIN net' : k # 1 => k - 1 \in DOMAIN net /\ net'[k] = net[k - 1]
  <2>1. Head(net) = net[1] /\ Len(net) \in Nat /\ Len(net) >= 1
    BY ONLY <1>1, <1>2
  <2>2. /\ net' \in Seq(Datagram) /\ Len(net') = Len(net) + 1
        /\ \A k \in 1 .. Len(net') : net'[k] = IF k <= 1 THEN net[1] ELSE net[k - 1]
    BY ONLY <1>1, <1>2, <2>1
  <2> QED
    BY ONLY <2>1, <2>2, <1>2
<1>4. \A c \in Counter : Age(c) \in Nat
  BY AgeType
<1>5. \A c : Before(c, c)
  BY <1>1, <1>4 DEF Before
<1>6. InOrder(net)'
  <2> SUFFICES ASSUME NEW j \in DOMAIN net', NEW k \in DOMAIN net', j < k
               PROVE  Before(net[j], net[k])'
    BY DEF InOrder
  <2>1. k # 1 /\ k - 1 \in DOMAIN net /\ net'[k] = net[k - 1] /\ j \in Nat /\ k \in Nat
    BY <1>2, <1>3
  <2>2. PICK i \in DOMAIN net : net'[j] = net[i] /\ (i < k - 1 \/ i = k - 1)
    BY <2>1, <1>2, <1>3
  <2>3. Before(net[i], net[k - 1])
    BY <2>1, <2>2, <1>2, <1>5 DEF InFlight, InOrder
  <2> QED
    BY <2>1, <2>2, <2>3, <1>1 DEF Before, Age
<1>7. \A c : BeforeAll(c, net) => BeforeAll(c, net)'
  BY <1>1, <1>3 DEF BeforeAll, Before, Age
<1>8. \A c : BeforeAll(c, sockq) => BeforeAll(c, sockq)'
  BY <1>1 DEF BeforeAll, Before, Age
<1>9. InOrder(sockq)'
  BY <1>1, <1>2 DEF InFlight, InOrder, Before, Age
<1>10. (\A k \in DOMAIN sockq : BeforeAll(sockq[k], net))'
  BY <1>1, <1>2, <1>7 DEF InFlight, BeforeAll, Before, Age
<1>11. LastRead'
  BY <1>1, <1>2, <1>7, <1>8 DEF LastRead, FrameWasRead, conn, history, BeforeAll, Before, Age
<1> QED
  BY <1>6, <1>9, <1>10, <1>11 DEF InFlight

LEMMA DeliverOrdered ==
  ASSUME TypeOK, OrderInv, KeepsOrder, NEW i \in DOMAIN net, Deliver(i)
  PROVE  InFlight' /\ LastRead'
<1>1. i = 1
  BY DEF Deliver, KeepsOrder
<1>2. /\ net \in Seq(Datagram) /\ sockq \in Seq(Datagram) /\ Runt \notin Counter
      /\ InFlight /\ LastRead
  BY CounterMath DEF TypeOK, OrderInv, Runt
<1>3. /\ UNCHANGED <<device, conn, history>> /\ net' = RemoveAt(net, 1)
      /\ \E d \in {net[1], Runt} : sockq' = Append(sockq, d)
  BY <1>1 DEF Deliver
<1>4. /\ net' \in Seq(Datagram) /\ Len(net') + 1 <= Len(net)
      /\ \A k \in DOMAIN net' : net'[k] = net[k + 1]
  BY <1>1, <1>2, <1>3 DEF RemoveAt
<1>5. /\ InOrder(net) => InOrder(net')
      /\ \A c : BeforeAll(c, net) => BeforeAll(c, net')
  BY <1>2, <1>4, Thinned
<1>6. PICK d \in {net[1], Runt} : sockq' = Append(sockq, d)
  BY <1>3
<1>7. /\ \A k \in DOMAIN sockq' : k \in DOMAIN sockq \/ k = Len(sockq) + 1
      /\ \A k \in DOMAIN sockq : sockq'[k] = sockq[k]
      /\ sockq'[Len(sockq) + 1] = d
      /\ \A j, k \in DOMAIN sockq' : j < k => j \in DOMAIN sockq
  BY <1>2, <1>6
<1>8. (\A k \in DOMAIN sockq : Before(sockq[k], d)) /\ BeforeAll(d, net')
  <2>1. CASE d = Runt
    BY <2>1, <1>2 DEF Before, BeforeAll
  <2>2. CASE d = net[1]
    <3>1. \A k \in DOMAIN sockq : Before(sockq[k], d)
      BY <2>2, <1>1, <1>2 DEF InFlight, BeforeAll
    <3>2. \A k \in DOMAIN net' : k + 1 \in DOMAIN net /\ 1 < k + 1 /\ net'[k] = net[k + 1]
      BY <1>2, <1>4
    <3>3. BeforeAll(d, net')
      BY <2>2, <3>2, <1>1, <1>2 DEF InFlight, InOrder, BeforeAll
    <3> QED
      BY <3>1, <3>3
  <2> QED
    BY <2>1, <2>2
<1>9. InOrder(sockq')
  BY <1>2, <1>7, <1>8 DEF InFlight, InOrder
<1>10. \A k \in DOMAIN sockq' : BeforeAll(sockq'[k], net')
  BY <1>2, <1>5, <1>7, <1>8 DEF InFlight
<1>11. InFlight'
  <2>1. InOrder(net')
    BY <1>2, <1>5 DEF InFlight
  <2> QED
    BY <2>1, <1>3, <1>9, <1>10, SameAges DEF device
<1>12. \A c : Before(c, net[1]) /\ BeforeAll(c, sockq) => BeforeAll(c, sockq')
  BY <1>2, <1>6, <1>7 DEF BeforeAll, Before
<1>13. LastRead'
  BY <1>1, <1>2, <1>3, <1>5, <1>12, SameAges
     DEF LastRead, FrameWasRead, BeforeAll, conn, history, device
<1> QED
  BY <1>11, <1>13

(* Reading takes the oldest of the datagrams; a frame among them has the rest
   behind it.                                                                *)
LEMMA ReadKeepsFlight ==
  ASSUME TypeOK, InFlight, UNCHANGED device, net' = net,
         sockq # <<>>, sockq' = Tail(sockq)
  PROVE  /\ InFlight'
         /\ \A c : BeforeAll(c, sockq) => BeforeAll(c, sockq')
         /\ BeforeAll(Head(sockq), sockq') /\ BeforeAll(Head(sockq), net)
         /\ \A c : BeforeAll(c, sockq) => Before(c, Head(sockq))
         /\ AllNear(sockq) => Near(Head(sockq))
<1>1. sockq \in Seq(Datagram)
  BY DEF TypeOK
<1>2. /\ sockq' \in Seq(Datagram) /\ Len(sockq') + 1 <= Len(sockq)
      /\ \A k \in DOMAIN sockq' : sockq'[k] = sockq[k + 1]
      /\ 1 \in DOMAIN sockq /\ Head(sockq) = sockq[1]
  BY ONLY <1>1, sockq # <<>>, sockq' = Tail(sockq), HeadTailProperties
<1>3. /\ \A k \in DOMAIN sockq' : k + 1 \in DOMAIN sockq /\ 1 < k + 1
  BY <1>1, <1>2
<1>4. /\ InOrder(sockq) => InOrder(sockq')
      /\ \A c : BeforeAll(c, sockq) => BeforeAll(c, sockq')
  BY <1>1, <1>2, Thinned
<1>5. InFlight'
  <2>1. /\ InOrder(sockq') /\ InOrder(net')
        /\ \A k \in DOMAIN sockq' : BeforeAll(sockq'[k], net')
    BY <1>2, <1>3, <1>4 DEF InFlight
  <2> QED
    BY <2>1, SameAges DEF device
<1>6. BeforeAll(Head(sockq), sockq') /\ BeforeAll(Head(sockq), net)
  BY <1>2, <1>3 DEF InFlight, InOrder, BeforeAll
<1>7. \A c : BeforeAll(c, sockq) => Before(c, Head(sockq))
  BY <1>2 DEF BeforeAll
<1>8. AllNear(sockq) => Near(Head(sockq))
  BY <1>2 DEF AllNear
<1> QED
  BY <1>4, <1>5, <1>6, <1>7, <1>8

(* A frame that is read is no older than the last one read, and the stream
   follows it.                                                               *)
LEMMA FrameOrdered ==
  ASSUME TypeOK, InStep, OrderInv, KeepsOrder, ReadInSync \/ ReadDesync
  PROVE  /\ InFlight' /\ LastRead' /\ UNCHANGED <<faults, devCounter>>
         /\ paketCounter' = Head(sockq) /\ Head(sockq) \in Counter
         /\ Age(Head(sockq)) \in Nat /\ Near(Head(sockq))
         /\ FrameWasRead => /\ Near(paketCounter) /\ Age(paketCounter) \in Nat
                            /\ Before(paketCounter, Head(sockq))
<1>1. /\ UNCHANGED device /\ net' = net /\ sockq # <<>> /\ sockq' = Tail(sockq)
      /\ paketCounter' = Head(sockq) /\ Head(sockq) # Runt
  BY DEF ReadInSync, ReadDesync, ReadFrame, InSync, ResyncTo
<1>2. /\ InFlight /\ LastRead /\ paketCounter \in Counter /\ Head(sockq) \in Counter
  <2>1. Head(sockq) \in Counter
    BY <1>1, SockqType DEF Datagram
  <2> QED
    BY <2>1 DEF OrderInv, TypeOK
<1>3. /\ InFlight' /\ BeforeAll(Head(sockq), sockq') /\ BeforeAll(Head(sockq), net)
      /\ \A c : BeforeAll(c, sockq) => Before(c, Head(sockq))
      /\ AllNear(sockq) => Near(Head(sockq))
  BY <1>1, <1>2, ReadKeepsFlight
<1>4. LastRead'
  BY <1>1, <1>3, SameAges DEF LastRead, device
<1>5. Near(Head(sockq)) /\ (FrameWasRead => Near(paketCounter) /\ Before(paketCounter, Head(sockq)))
  BY <1>2, <1>3 DEF InStep, LastRead
<1>6. Age(Head(sockq)) \in Nat /\ Age(paketCounter) \in Nat
  BY <1>2, AgeType
<1> QED
  BY <1>1, <1>2, <1>3, <1>4, <1>5, <1>6 DEF device

(* What neither sends nor loses a datagram, nor follows a frame, keeps the
   order: a runt is dropped, and a connection may be forgotten.              *)
LEMMA OtherOrdered ==
  ASSUME TypeOK, OrderInv, KeepsOrder,
         ReadRunt \/ ReadyRead \/ ReadLoopEnds \/ ReadyReadEmpty \/ CheckConnection
         \/ UNCHANGED vars
  PROVE  InFlight' /\ LastRead'
<1>1. InFlight /\ LastRead
  BY DEF OrderInv
<1>2. CASE ReadRunt
  <2>1. /\ UNCHANGED <<device, conn, history>> /\ net' = net /\ sockq # <<>>
        /\ sockq' = Tail(sockq)
    BY <1>2 DEF ReadRunt
  <2>2. /\ InFlight' /\ \A c : BeforeAll(c, sockq) => BeforeAll(c, sockq')
    BY <1>1, <2>1, ReadKeepsFlight
  <2> QED
    BY <1>1, <2>1, <2>2, SameAges DEF LastRead, FrameWasRead, conn, history, device
<1>3. ASSUME UNCHANGED <<device, net, sockq>>
      PROVE  InFlight'
  BY <1>1, <1>3, SameAges DEF InFlight, device
<1>4. ASSUME UNCHANGED <<device, net, sockq, conn, history>>
      PROVE  InFlight' /\ LastRead'
  <2>1. InFlight'
    BY <1>3, <1>4
  <2> QED
    BY <1>1, <1>4, <2>1, SameAges DEF LastRead, FrameWasRead, conn, history, device
<1>5. ASSUME UNCHANGED <<device, net, sockq>>, Disconnected
      PROVE  InFlight' /\ LastRead'
  <2>1. ~FrameWasRead'
    BY <1>5 DEF Disconnected, FrameWasRead
  <2> QED
    BY <1>3, <1>5, <2>1 DEF LastRead
<1>6. CASE ReadyRead \/ ReadLoopEnds \/ UNCHANGED vars
  BY <1>4, <1>6 DEF ReadyRead, ReadLoopEnds, vars
<1>7. CASE ReadyReadEmpty
  BY <1>5, <1>7 DEF ReadyReadEmpty
<1>8. CASE CheckConnection
  BY <1>4, <1>5, <1>8 DEF CheckConnection
<1> QED
  BY <1>2, <1>6, <1>7, <1>8

LEMMA OrderInit == Init => OrderInv /\ ForwardInv
<1> SUFFICES ASSUME Init PROVE OrderInv /\ ForwardInv
  OBVIOUS
<1>1. /\ net = <<>> /\ sockq = <<>> /\ onetimeSynch = FALSE /\ data = 0
      /\ DOMAIN net = {} /\ DOMAIN sockq = {}
  BY DEF Init, ZeroCounters
<1> QED
  BY <1>1 DEF OrderInv, ForwardInv, InFlight, LastRead, LastForwarded, FrameWasRead, InOrder

LEMMA FaultsStay == [Next]_vars => faults' = faults
<1> SUFFICES ASSUME [Next]_vars PROVE faults' = faults
  OBVIOUS
<1>1. CASE DeviceSend \/ DeviceReboot \/ Network
  BY <1>1 DEF DeviceSend, DeviceReboot, Network, Duplicate, Lose, Deliver, device
<1>2. CASE ReadyReadUdp
  BY <1>2 DEF ReadyReadUdp, ReadyRead, ReadLoopEnds, ReadRunt, ReadInSync, ReadDesync,
              ReadFrame, device
<1>3. CASE ReadyReadEmpty \/ CheckConnection \/ UNCHANGED vars
  BY <1>3 DEF ReadyReadEmpty, CheckConnection, vars, device
<1> QED
  BY <1>1, <1>2, <1>3 DEF Next

LEMMA OrderStep ==
  TypeOK /\ InStep /\ OrderInv /\ [Next]_vars => OrderInv'
<1> SUFFICES ASSUME TypeOK, InStep, OrderInv, [Next]_vars, KeepsOrder
             PROVE  InFlight' /\ LastRead'
  BY FaultsStay DEF OrderInv, KeepsOrder
<1>1. ~DeviceReboot
  BY DEF KeepsOrder, DeviceReboot
<1>2. CASE DeviceSend
  BY <1>2, SendOrdered
<1>3. CASE Network
  BY <1>3, LoseOrdered, DuplicateOrdered, DeliverOrdered DEF Network
<1>4. CASE ReadInSync \/ ReadDesync
  BY <1>4, FrameOrdered
<1>5. CASE ReadRunt \/ ReadyRead \/ ReadLoopEnds \/ ReadyReadEmpty \/ CheckConnection
           \/ UNCHANGED vars
  BY <1>5, OtherOrdered
<1> QED
  BY <1>1, <1>2, <1>3, <1>4, <1>5 DEF Next, ReadyReadUdp

-----------------------------------------------------------------------------
(* The successor of the last frame read is one younger.                      *)
LEMMA ExpectedIsClose ==
  ASSUME TypeOK, Near(paketCounter), NEW h \in Counter,
         Age(h) <= Age(paketCounter), h = Expected
  PROVE  Age(paketCounter) = Age(h) + 1
<1>1. paketCounter \in Counter /\ devCounter \in Counter /\ CounterMod \in Nat /\ CounterMod >= 2
  BY UdpAssumption DEF TypeOK
<1>2. Age(paketCounter) \in Nat /\ 2 * Age(paketCounter) < CounterMod
  BY <1>1, AgeType DEF Near
<1>3. Age(Expected) = IF Age(paketCounter) = 0 THEN CounterMod - 1 ELSE Age(paketCounter) - 1
  BY <1>1, DistExpected DEF Age, Expected
<1> QED
  BY <1>1, <1>2, <1>3

(* A distance of less than half a turn is what it is read as.                *)
LEMMA SignedNear ==
  ASSUME NEW d \in Nat, 2 * d < CounterMod
  PROVE  Signed(d) = d
<1>1. CounterMod \in Nat /\ CounterMod % 2 = 0
  BY UdpAssumption
<1>2. CounterMod = 2 * (CounterMod \div 2)
  BY <1>1
<1>3. d < CounterMod \div 2
  BY <1>1, <1>2
<1> QED
  BY <1>3 DEF Signed

(* A frame in sync is the successor of the last read, and is forwarded after
   everything forwarded before it.                                           *)
LEMMA InSyncOnwards ==
  ASSUME TypeOK, InStep, Recent, OrderInv, ForwardInv, ReadInSync, KeepsOrder, data > 0
  PROVE  Signed((lastData' - lastData) % CounterMod) > 0
<1> DEFINE h == Head(sockq)
<1>1. /\ lastData' = h /\ h = Expected /\ FrameWasRead /\ LastForwarded /\ Near(lastData)
      /\ lastData \in Counter /\ paketCounter \in Counter /\ devCounter \in Counter
  BY DEF ReadInSync, ReadFrame, InSync, FrameWasRead, ForwardInv, Recent, TypeOK
<1>2. /\ h \in Counter /\ Age(h) \in Nat /\ Near(paketCounter) /\ Age(paketCounter) \in Nat
      /\ Before(paketCounter, h)
  BY <1>1, FrameOrdered
<1>3. Age(paketCounter) = Age(h) + 1
  BY <1>1, <1>2, ExpectedIsClose DEF Before
<1>4. /\ Age(lastData) \in Nat /\ 2 * Age(lastData) < CounterMod
      /\ Age(paketCounter) <= Age(lastData) /\ CounterMod \in Nat
  BY <1>1, AgeType, UdpAssumption DEF LastForwarded, Near
<1>5. Dist(h, lastData) = Age(lastData) - Age(h)
  BY <1>1, <1>2, <1>3, <1>4, DistBetween DEF Age
<1>6. Dist(h, lastData) \in Nat /\ Dist(h, lastData) > 0 /\ 2 * Dist(h, lastData) < CounterMod
  BY <1>2, <1>3, <1>4, <1>5
<1>7. Signed(Dist(h, lastData)) = Dist(h, lastData)
  BY <1>6, SignedNear
<1>8. (lastData' - lastData) % CounterMod = Dist(h, lastData)
  BY <1>1 DEF Dist
<1> QED
  BY <1>6, <1>7, <1>8

(* Between two frames that were read without repetition, the difference
   computed is the frames that are missing.                                  *)
LEMMA DesyncCountsMissing ==
  ASSUME TypeOK, InStep, OrderInv, ReadDesync, KeepsOrder, onetimeSynch, "dup" \notin faults
  PROVE  Errs \in Nat
<1> DEFINE h == Head(sockq)
<1>1. /\ FrameWasRead /\ paketCounter \in Counter /\ devCounter \in Counter
      /\ CounterMod \in Nat
  BY UdpAssumption DEF FrameWasRead, TypeOK
<1>2. /\ h \in Counter /\ Age(h) \in Nat /\ Near(paketCounter) /\ Age(paketCounter) \in Nat
      /\ Age(h) <= Age(paketCounter) /\ Age(h) # Age(paketCounter)
  BY <1>1, FrameOrdered DEF Before
<1>3. 2 * Age(paketCounter) < CounterMod
  BY <1>1, <1>2 DEF Near
<1>4. Age(Expected) = Age(paketCounter) - 1 /\ Expected \in Counter
  BY <1>1, <1>2, DistExpected, NextWraps DEF Age, Expected
<1>5. Dist(h, Expected) = Age(Expected) - Age(h)
  BY <1>1, <1>2, <1>4, DistBetween DEF Age
<1>6. Dist(h, Expected) \in Nat /\ 2 * Dist(h, Expected) < CounterMod
  BY <1>1, <1>2, <1>3, <1>4, <1>5
<1>7. Signed(Dist(h, Expected)) = Dist(h, Expected)
  BY <1>6, SignedNear
<1> QED
  BY <1>6, <1>7 DEF Errs, Dist

(* What is forwarded stays behind what was read last.                        *)
LEMMA ForwardStep ==
  TypeOK /\ InStep /\ Recent /\ OrderInv /\ ForwardInv /\ [Next]_vars => ForwardInv'
<1> SUFFICES ASSUME TypeOK, InStep, Recent, OrderInv, ForwardInv, [Next]_vars, KeepsOrder
             PROVE  LastForwarded'
  BY FaultsStay DEF ForwardInv, KeepsOrder
<1>1. LastForwarded /\ paketCounter \in Counter /\ lastData \in Counter /\ data \in Nat
  BY DEF ForwardInv, TypeOK
<1>2. ASSUME UNCHANGED <<devCounter, conn, history>> PROVE LastForwarded'
  BY <1>1, <1>2 DEF LastForwarded, conn, history, Age
<1>3. ASSUME Disconnected PROVE LastForwarded'
  BY <1>3 DEF Disconnected, LastForwarded
<1>4. CASE DeviceSend
  <2>1. UNCHANGED <<conn, history>>
    BY <1>4 DEF DeviceSend
  <2>2. ASSUME data > 0 PROVE Age(paketCounter)' <= Age(lastData)'
    <3>1. Near(paketCounter) /\ Near(lastData) /\ Age(paketCounter) <= Age(lastData)
      BY <1>1, <2>2 DEF InStep, Recent, FrameWasRead, LastForwarded
    <3>2. /\ Age(paketCounter) \in Nat /\ Dist(devCounter', paketCounter) = Age(paketCounter) + 1
          /\ Age(lastData) \in Nat /\ Dist(devCounter', lastData) = Age(lastData) + 1
      BY <1>1, <1>4, <3>1, AgeGrows DEF Age
    <3> QED
      BY <2>1, <3>1, <3>2 DEF Age, conn, history
  <2> QED
    BY <2>1, <2>2 DEF LastForwarded, history
<1>5. CASE ReadInSync \/ ReadDesync
  <2> DEFINE h == Head(sockq)
  <2>1. /\ UNCHANGED <<faults, devCounter>> /\ paketCounter' = h /\ Age(h) \in Nat
        /\ FrameWasRead => Age(paketCounter) \in Nat /\ Before(paketCounter, h)
        /\ h \in Counter
    BY <1>5, FrameOrdered
  <2>2. CASE lastData' = h
    BY <2>1, <2>2, SameAges DEF LastForwarded
  <2>3. CASE UNCHANGED <<data, lastData>>
    <3>1. ASSUME data > 0 PROVE Age(h) <= Age(lastData)
      <4>1. Age(h) <= Age(paketCounter) /\ Age(paketCounter) <= Age(lastData)
        BY <1>1, <2>1, <3>1 DEF FrameWasRead, Before, LastForwarded
      <4>2. Age(lastData) \in Nat /\ Age(paketCounter) \in Nat
        BY <1>1, AgeType
      <4> QED
        BY <2>1, <4>1, <4>2
    <3> QED
      BY <2>1, <2>3, <3>1, SameAges DEF LastForwarded
  <2> QED
    BY <1>5, <2>2, <2>3 DEF ReadInSync, ReadDesync
<1>6. CASE DeviceReboot
  BY <1>6 DEF KeepsOrder, DeviceReboot
<1>7. CASE Network
  BY <1>2, <1>7 DEF Network, Duplicate, Lose, Deliver, device
<1>8. CASE ReadRunt \/ ReadyRead \/ ReadLoopEnds \/ UNCHANGED vars
  BY <1>2, <1>8 DEF ReadRunt, ReadyRead, ReadLoopEnds, vars, device
<1>9. CASE ReadyReadEmpty \/ CheckConnection
  BY <1>2, <1>3, <1>9 DEF ReadyReadEmpty, CheckConnection, device
<1> QED
  BY <1>4, <1>5, <1>6, <1>7, <1>8, <1>9 DEF Next, ReadyReadUdp

(* Only a frame in sync is forwarded.                                        *)
LEMMA OnlyInSyncForwards ==
  TypeOK /\ [Next]_vars /\ data' = data + 1 => ReadInSync
<1> SUFFICES ASSUME TypeOK, [Next]_vars, data' = data + 1 PROVE ReadInSync
  OBVIOUS
<1>1. data' # data /\ data' # 0
  BY DEF TypeOK
<1>2. CASE DeviceSend \/ DeviceReboot \/ Network
  BY <1>1, <1>2 DEF DeviceSend, DeviceReboot, Network, Duplicate, Lose, Deliver, history
<1>3. CASE ReadyRead \/ ReadLoopEnds \/ ReadRunt \/ ReadDesync \/ UNCHANGED vars
  BY <1>1, <1>3 DEF ReadyRead, ReadLoopEnds, ReadRunt, ReadDesync, history, vars
<1>4. CASE ReadyReadEmpty \/ CheckConnection
  BY <1>1, <1>4 DEF ReadyReadEmpty, CheckConnection, Disconnected, history
<1> QED
  BY <1>2, <1>3, <1>4 DEF Next, ReadyReadUdp

(* The count has gone on from the last frame forwarded by as much as the frames
   in sync and the differences since then say.                               *)
GoneOn == data > 0 => (lastData + ahead) % CounterMod = paketCounter

LEMMA GoneOnBy ==
  ASSUME NEW a \in Int, NEW e \in Int, NEW h \in Counter
  PROVE  (a + 1 + Signed((h - e) % CounterMod)) % CounterMod
           = (h + ((a + 1) - e)) % CounterMod
<1> DEFINE M == CounterMod
           x == h + ((a + 1) - e)
<1>1. M \in Nat \ {0} /\ x \in Int /\ h \in Int
  BY CounterMath, NextIsInt
<1>2. PICK k \in Int : Signed((h - e) % CounterMod) = (h - e) + M * k
  BY <1>1, ErrsTurns
<1>3. a + 1 + Signed((h - e) % CounterMod) = x + M * k
  <2> DEFINE m == M * k
             g == Signed((h - e) % CounterMod)
  <2>1. m \in Int /\ g = (h - e) + m
    BY <1>1, <1>2
  <2> HIDE DEF m, g
  <2>2. a + 1 + g = h + ((a + 1) - e) + m
    BY <1>1, <2>1
  <2> QED  BY ONLY <2>2 DEF m, g, x
<1> HIDE DEF x, M
<1>4. (x + M * k) % M = x % M
  BY <1>1, <1>2, AddTurns
<1> QED  BY ONLY <1>3, <1>4 DEF x, M

LEMMA GoneOnStep == TypeOK /\ GoneOn /\ [Next]_vars => GoneOn'
<1> SUFFICES ASSUME TypeOK, GoneOn, [Next]_vars PROVE GoneOn'
  OBVIOUS
<1>1. CASE UNCHANGED <<conn, history>>
  BY <1>1 DEF GoneOn, conn, history
<1>2. CASE Disconnected
  BY <1>2 DEF GoneOn, Disconnected
<1>3. ASSUME ReadFrame PROVE Head(sockq) \in Counter
  BY <1>3, SockqType DEF ReadFrame, Datagram
<1>4. CASE ReadInSync
  <2> DEFINE h == Head(sockq)
  <2>1. lastData' = h /\ ahead' = 0 /\ paketCounter' = h /\ h \in Counter
    BY <1>3, <1>4 DEF ReadInSync, ReadFrame, InSync
  <2> HIDE DEF h
  <2>2. h + 0 = h /\ h % CounterMod = h
    <3>1. h \in Int /\ CounterMod \in Nat \ {0} /\ h \in 0 .. CounterMod - 1
      BY <2>1, CounterMath, NextIsInt
    <3>2. h % CounterMod = h
      BY ONLY <3>1, InRange
    <3> QED  BY <3>1, <3>2
  <2>3. lastData' + ahead' = h
    BY <2>1, <2>2
  <2>4. (lastData' + ahead') % CounterMod = paketCounter'
    BY ONLY <2>1, <2>2, <2>3
  <2> QED  BY <2>4 DEF GoneOn
<1>5. CASE ReadDesync
  <2> SUFFICES ASSUME data > 0 PROVE (lastData + ahead')  % CounterMod = paketCounter'
    BY <1>5 DEF GoneOn, ReadDesync
  <2> DEFINE h == Head(sockq)
             a == lastData + ahead
             e == Expected
  <2>1. /\ paketCounter' = h /\ h \in Counter /\ a \in Int /\ lastData \in Int /\ ahead \in Int
        /\ ahead' = ahead + 1 + Errs /\ Errs = Signed((h - e) % CounterMod)
        /\ a % CounterMod = paketCounter
    <3>1. h \in Counter /\ lastData \in Counter /\ ahead \in Int
      BY <1>3, <1>5 DEF ReadDesync, TypeOK
    <3>2. lastData \in Int /\ lastData + ahead \in Int
      BY <3>1, NextIsInt
    <3>3. paketCounter' = h /\ ahead' = ahead + 1 + Errs
      BY <1>5 DEF ReadDesync, ResyncTo
    <3>4. Errs = Signed((h - e) % CounterMod)
      BY DEF Errs
    <3>5. a % CounterMod = paketCounter
      BY DEF GoneOn
    <3> QED  BY <3>1, <3>2, <3>3, <3>4, <3>5
  <2>2. e \in Int /\ Errs \in Int /\ e = ((a % CounterMod) + 1) % CounterMod
    BY <2>1, ErrsType, NextIsInt DEF TypeOK, Expected
  <2>3. lastData + ahead' = a + 1 + Errs
    BY <2>1, <2>2
  <2>4. e = (a + 1) % CounterMod
    BY <2>1, <2>2, InSyncBalances
  <2> HIDE DEF h, a, e
  <2> DEFINE b == a + 1
  <2>5. b \in Int /\ CounterMod \in Nat \ {0} /\ e = b % CounterMod
    BY <2>1, <2>4, CounterMath
  <2>6. PICK q \in Int : b - e = CounterMod * q
    <3> HIDE DEF b
    <3>1. PICK q \in Int : b = CounterMod * q + (b % CounterMod)
      BY <2>5, DivMod
    <3> DEFINE m == CounterMod * q
    <3>2. m \in Int
      BY <2>5
    <3>3. b = m + e
      BY ONLY <2>5, <3>1 DEF m
    <3> HIDE DEF m
    <3>4. b - e = m
      BY <2>2, <3>2, <3>3
    <3>5. b - e = CounterMod * q
      BY ONLY <3>4 DEF m
    <3> QED  BY <3>5
  <2>7. (h + (b - e)) % CounterMod = h
    <3>1. h \in Int /\ h % CounterMod = h
      BY <2>1, CounterMath, InRange, NextIsInt
    <3>2. (h + CounterMod * q) % CounterMod = h % CounterMod
      BY <2>5, <2>6, <3>1, AddTurns
    <3>3. (h + (b - e)) % CounterMod = (h + CounterMod * q) % CounterMod
      BY ONLY <2>6
    <3> QED  BY ONLY <3>1, <3>2, <3>3
  <2>8. (a + 1 + Errs) % CounterMod = h
    <3>1. (a + 1 + Errs) % CounterMod = (h + ((a + 1) - e)) % CounterMod
      BY <2>1, <2>2, GoneOnBy
    <3> QED  BY ONLY <2>7, <3>1 DEF b
  <2> QED  BY ONLY <2>1, <2>3, <2>8
<1>6. CASE DeviceSend \/ DeviceReboot \/ Network
  BY <1>1, <1>6 DEF DeviceSend, DeviceReboot, Network, Duplicate, Lose, Deliver
<1>7. CASE ReadyRead \/ ReadLoopEnds \/ ReadRunt \/ UNCHANGED vars
  BY <1>1, <1>7 DEF ReadyRead, ReadLoopEnds, ReadRunt, vars
<1>8. CASE ReadyReadEmpty \/ CheckConnection
  BY <1>1, <1>2, <1>8 DEF ReadyReadEmpty, CheckConnection
<1> QED  BY <1>4, <1>5, <1>6, <1>7, <1>8 DEF Next, ReadyReadUdp

(* Where frames come in any order, or the device restarts: the count went less
   than half a turn forward since the last frame was forwarded.              *)
NoLeap == ~KeepsOrder => 2 * (ahead + 1) < CounterMod

LEMMA SetOnOnwards ==
  ASSUME TypeOK, GoneOn, ReadInSync, data > 0, ahead >= 0, 2 * (ahead + 1) < CounterMod
  PROVE  Signed((lastData' - lastData) % CounterMod) > 0
<1> DEFINE l == lastData
           d == ahead + 1
           b == l + ahead
           c == (b + 1) % CounterMod
<1>1. /\ CounterMod \in Nat \ {0} /\ l \in Int /\ ahead \in Int /\ b \in Int
      /\ d \in Nat /\ 2 * d < CounterMod /\ d > 0 /\ b % CounterMod = paketCounter
  BY CounterMath, NextIsInt DEF TypeOK, GoneOn
<1>2. lastData' = ((b % CounterMod) + 1) % CounterMod
  BY <1>1 DEF ReadInSync, ReadFrame, InSync, Expected
<1>3. lastData' = c
  BY <1>1, <1>2, InSyncBalances
<1>4. c \in Int /\ -l \in Int /\ b + 1 \in Int /\ (b + 1) + (-l) = d
  BY <1>1
<1>5. (c - l) % CounterMod = d % CounterMod
  <2> DEFINE g == b + 1
             m == -l
  <2>1. g \in Int /\ m \in Int /\ g + m = d
    BY <1>1
  <2>2. c - l = (g % CounterMod) + m
    <3>1. c \in Int /\ c = g % CounterMod
      BY <1>4
    <3> HIDE DEF c, l
    <3>2. c - l = c + (-l)
      BY <1>1, <3>1
    <3> QED  BY ONLY <3>1, <3>2 DEF m
  <2> HIDE DEF g, m
  <2>3. ((g % CounterMod) + m) % CounterMod = (g + m) % CounterMod
    BY <1>1, <2>1, AddWrapped
  <2> QED  BY ONLY <2>1, <2>2, <2>3
<1>6. d % CounterMod = d /\ Signed(d) = d
  <2>1. d \in 0 .. CounterMod - 1
    BY <1>1
  <2> HIDE DEF d
  <2> QED  BY <1>1, <2>1, InRange, SignedNear
<1>7. (lastData' - lastData) % CounterMod = d
  BY ONLY <1>3, <1>5, <1>6 DEF l
<1> HIDE DEF d
<1> QED  BY <1>1, <1>6, <1>7

(* However long the device sends, whatever the network does and wherever the
   counter starts or wraps: a connection forwards a frame again, or after a later
   one, only where the count was set back to an earlier frame in between, and not
   at all where frames keep their order (server.cpp:258-276). Nothing that counts
   may be half a turn of the counter away.                                   *)
THEOREM OnwardsWhileInStep ==
  Safety /\ [](InStep /\ Recent /\ NoLeap) => ForwardedInOrder
<1> DEFINE Inv == TypeOK /\ OrderInv /\ ForwardInv /\ GoneOn
           Forwards == data' = data + 1 /\ data > 0
           Onwards ==
             Forwards => \/ Signed((lastData' - lastData) % CounterMod) > 0
                         \/ ahead < 0 /\ faults \cap {"reorder", "reboot"} # {}
<1>1. Inv /\ InStep /\ Recent /\ NoLeap /\ [Next]_vars => [Onwards]_vars
  <2> SUFFICES ASSUME Inv, InStep, Recent, NoLeap, [Next]_vars, Forwards PROVE Onwards
    OBVIOUS
  <2>1. ReadInSync
    BY OnlyInSyncForwards
  <2>2. CASE KeepsOrder
    BY <2>1, <2>2, InSyncOnwards
  <2>3. CASE ~KeepsOrder
    <3>1. CASE ahead >= 0
      BY <2>1, <2>3, <3>1, SetOnOnwards DEF NoLeap
    <3>2. CASE ~(ahead >= 0)
      BY <2>3, <3>2 DEF KeepsOrder, TypeOK
    <3> QED  BY <3>1, <3>2
  <2> QED  BY <2>2, <2>3
<1>2. Inv /\ InStep /\ Recent /\ [Next]_vars => Inv'
  BY TypeStep, OrderStep, ForwardStep, GoneOnStep
<1>3. Init => Inv
  BY TypeInit, OrderInit DEF GoneOn, Init, ZeroCounters
<1> QED
  BY <1>1, <1>2, <1>3, PTL DEF Safety, ForwardedInOrder

-----------------------------------------------------------------------------
(* The device's frames take less than half a turn of the counter: then the
   stream stays in step, since nothing is further behind the device than the
   frames it has sent.                                                       *)
HalfTurn == 2 * MaxFrames <= CounterMod

Young(c) == c \in Counter => Age(c) < framesSent

AllYoung(s) == \A k \in DOMAIN s : Young(s[k])

YoungInv ==
  /\ framesSent <= MaxFrames
  /\ KeepsOrder => /\ AllYoung(sockq) /\ AllYoung(net)
                   /\ FrameWasRead => Young(paketCounter)
                   /\ data > 0 => Young(lastData)

LEMMA YoungIsNear ==
  ASSUME TypeOK, HalfTurn, YoungInv, NEW c, Young(c)
  PROVE  Near(c)
<1> SUFFICES ASSUME c \in Counter PROVE 2 * Age(c) < CounterMod
  BY DEF Near
<1>1. /\ Age(c) \in Nat /\ Age(c) < framesSent /\ framesSent <= MaxFrames
      /\ framesSent \in Nat /\ MaxFrames \in Nat /\ CounterMod \in Nat
  BY AgeType, UdpAssumption DEF Young, YoungInv, TypeOK
<1> QED
  BY <1>1 DEF HalfTurn

LEMMA YoungInStep ==
  TypeOK /\ HalfTurn /\ YoungInv => InStep /\ Recent
BY YoungIsNear DEF YoungInv, InStep, Recent, AllYoung, AllNear

LEMMA YoungInit == Init => YoungInv
<1> SUFFICES ASSUME Init PROVE YoungInv
  OBVIOUS
<1>1. /\ framesSent = 0 /\ DOMAIN net = {} /\ DOMAIN sockq = {}
      /\ onetimeSynch = FALSE /\ data = 0
  BY DEF Init, ZeroCounters
<1> QED
  BY <1>1, UdpAssumption DEF YoungInv, AllYoung, FrameWasRead

(* What no step but a new frame changes of the ages.                         *)
LEMMA YoungKept ==
  ASSUME devCounter' = devCounter, framesSent \in Nat,
         framesSent' = framesSent \/ framesSent' = framesSent + 1, TypeOK,
         NEW c, Young(c)
  PROVE  Young(c)'
<1> SUFFICES ASSUME c \in Counter PROVE Age(c)' < framesSent'
  BY DEF Young
<1>1. Age(c)' = Age(c) /\ Age(c) \in Nat /\ Age(c) < framesSent
  BY AgeType DEF Age, Young
<1> QED
  BY <1>1

LEMMA YoungStep ==
  TypeOK /\ HalfTurn /\ YoungInv /\ [Next]_vars => YoungInv'
<1> SUFFICES ASSUME TypeOK, HalfTurn, YoungInv, [Next]_vars PROVE YoungInv'
  OBVIOUS
<1>0. /\ framesSent \in Nat /\ MaxFrames \in Nat /\ framesSent <= MaxFrames
      /\ net \in Seq(Datagram) /\ sockq \in Seq(Datagram)
      /\ paketCounter \in Counter /\ lastData \in Counter /\ faults' = faults
      /\ Runt \notin Counter
  BY UdpAssumption, FaultsStay, CounterMath DEF YoungInv, TypeOK, Runt
<1>1. framesSent' <= MaxFrames
      /\ (framesSent' = framesSent \/ framesSent' = framesSent + 1)
  <2>1. CASE DeviceSend \/ Duplicate
    BY <1>0, <2>1 DEF DeviceSend, Duplicate
  <2>2. CASE DeviceReboot \/ Lose \/ \E i \in DOMAIN net : Deliver(i)
    BY <1>0, <2>2 DEF DeviceReboot, Lose, Deliver, device
  <2>3. CASE ReadyReadUdp
    BY <1>0, <2>3 DEF ReadyReadUdp, ReadyRead, ReadLoopEnds, ReadRunt, ReadInSync,
                      ReadDesync, ReadFrame, device
  <2>4. CASE ReadyReadEmpty \/ CheckConnection \/ UNCHANGED vars
    BY <1>0, <2>4 DEF ReadyReadEmpty, CheckConnection, vars, device
  <2> QED
    BY <2>1, <2>2, <2>3, <2>4 DEF Next, Network
<1> SUFFICES ASSUME KeepsOrder
             PROVE  /\ AllYoung(sockq)' /\ AllYoung(net)'
                    /\ FrameWasRead' => Young(paketCounter)'
                    /\ data' > 0 => Young(lastData)'
  BY <1>0, <1>1 DEF YoungInv, KeepsOrder
<1>2. /\ AllYoung(sockq) /\ AllYoung(net)
      /\ FrameWasRead => Young(paketCounter)
      /\ data > 0 => Young(lastData)
  BY DEF YoungInv
<1>3. \A c : Young(c) => Young(c)'
  <2> SUFFICES ASSUME NEW c, Young(c), c \in Counter PROVE Age(c)' < framesSent'
    BY DEF Young
  <2>1. CASE DeviceSend
    <3>1. Age(c)' = Age(c) + 1 /\ Age(c) \in Nat /\ Age(c) < framesSent
      BY <2>1, YoungIsNear, AgeGrows DEF Young
    <3> QED
      BY <1>0, <2>1, <3>1 DEF DeviceSend
  <2>2. CASE devCounter' = devCounter
    BY <1>0, <1>1, <2>2, YoungKept DEF Young
  <2>3. DeviceSend \/ devCounter' = devCounter
    <3>1. CASE DeviceReboot
      BY <3>1 DEF KeepsOrder, DeviceReboot
    <3>2. CASE Network
      BY <3>2 DEF Network, Duplicate, Lose, Deliver, device
    <3>3. CASE ReadyReadUdp
      BY <3>3 DEF ReadyReadUdp, ReadyRead, ReadLoopEnds, ReadRunt, ReadInSync,
                  ReadDesync, ReadFrame, device
    <3>4. CASE ReadyReadEmpty \/ CheckConnection \/ UNCHANGED vars
      BY <3>4 DEF ReadyReadEmpty, CheckConnection, vars, device
    <3> QED
      BY <3>1, <3>2, <3>3, <3>4 DEF Next
  <2> QED
    BY <2>1, <2>2, <2>3
<1> DEFINE Read == \A k \in DOMAIN sockq' : \E j \in DOMAIN sockq : sockq'[k] = sockq[j]
<1>4. ASSUME sockq # <<>>, sockq' = Tail(sockq)
      PROVE  Read /\ Young(Head(sockq))
  <2>1. /\ Len(sockq') + 1 <= Len(sockq) /\ 1 \in DOMAIN sockq /\ Head(sockq) = sockq[1]
        /\ sockq' \in Seq(Datagram) /\ \A k \in DOMAIN sockq' : sockq'[k] = sockq[k + 1]
    BY ONLY <1>0, <1>4, HeadTailProperties
  <2>2. \A k \in DOMAIN sockq' : k + 1 \in DOMAIN sockq
    BY <1>0, <2>1
  <2> QED
    BY <1>2, <2>1, <2>2 DEF AllYoung
<1>5. ASSUME Read PROVE AllYoung(sockq)'
  <2> SUFFICES ASSUME NEW k \in DOMAIN sockq' PROVE Young(sockq[k])'
    BY DEF AllYoung
  <2>1. PICK j \in DOMAIN sockq : sockq'[k] = sockq[j]
    BY <1>5
  <2>2. Young(sockq[j])
    BY <1>2 DEF AllYoung
  <2>3. PICK c : c = sockq[j]
    OBVIOUS
  <2>4. Young(c)'
    BY <1>3, <2>2, <2>3
  <2> QED
    BY <2>1, <2>3, <2>4 DEF Young, Age
<1>6. ASSUME \A k \in DOMAIN net' : \/ net'[k] = devCounter' /\ DeviceSend
                                    \/ \E j \in DOMAIN net : net'[k] = net[j]
      PROVE  AllYoung(net)'
  <2> SUFFICES ASSUME NEW k \in DOMAIN net' PROVE Young(net[k])'
    BY DEF AllYoung
  <2>1. CASE net'[k] = devCounter' /\ DeviceSend
    <3>1. devCounter' \in Counter /\ framesSent' = framesSent + 1
      BY <2>1, NextWraps DEF DeviceSend, TypeOK
    <3>2. Age(devCounter)' = 0
      BY <3>1, DistSelf DEF Age
    <3> QED
      BY <1>0, <2>1, <3>1, <3>2 DEF Young, Age
  <2>2. ASSUME NEW j \in DOMAIN net, net'[k] = net[j] PROVE Young(net[k])'
    <3>1. Young(net[j])
      BY <1>2 DEF AllYoung
    <3>2. PICK c : c = net[j]
      OBVIOUS
    <3>3. Young(c)'
      BY <1>3, <3>1, <3>2
    <3> QED
      BY <2>2, <3>2, <3>3 DEF Young, Age
  <2> QED
    BY <1>6, <2>1, <2>2
<1>7. ASSUME sockq' = sockq PROVE AllYoung(sockq)'
  BY <1>5, <1>7
<1>8. ASSUME net' = net PROVE AllYoung(net)'
  BY <1>6, <1>8
<1>9. ASSUME UNCHANGED <<conn, history>>
      PROVE  (FrameWasRead' => Young(paketCounter)') /\ (data' > 0 => Young(lastData)')
  <2>1. PICK c, e : c = paketCounter /\ e = lastData
    OBVIOUS
  <2>2. (Young(c) => Young(c)') /\ (Young(e) => Young(e)')
    BY <1>3
  <2> QED
    BY <1>2, <1>9, <2>1, <2>2 DEF FrameWasRead, conn, history, Young, Age
<1>10. ASSUME Disconnected
       PROVE  (FrameWasRead' => Young(paketCounter)') /\ (data' > 0 => Young(lastData)')
  BY <1>10 DEF Disconnected, FrameWasRead
<1>11. CASE DeviceSend
  <2>1. /\ \A k \in DOMAIN net' : k \in DOMAIN net \/ net'[k] = devCounter'
        /\ \A k \in DOMAIN net : net'[k] = net[k]
    BY <1>0, <1>11 DEF DeviceSend
  <2> QED
    BY <1>6, <1>7, <1>9, <1>11, <2>1 DEF DeviceSend
<1>12. CASE Lose
  <2>1. /\ net' = Tail(net) /\ net # <<>>
    BY <1>12 DEF Lose
  <2>2. /\ Len(net') + 1 <= Len(net) /\ net' \in Seq(Datagram)
        /\ \A k \in DOMAIN net' : net'[k] = net[k + 1]
    BY ONLY <1>0, <2>1, HeadTailProperties
  <2>3. \A k \in DOMAIN net' : k + 1 \in DOMAIN net
    BY <1>0, <2>2
  <2> QED
    BY <1>6, <1>7, <1>9, <1>12, <2>2, <2>3 DEF Lose
<1>13. CASE Duplicate
  <2>1. PICK i \in DOMAIN net : net' = <<net[i]>> \o net
    BY <1>13 DEF Duplicate
  <2>2. \A k \in DOMAIN net' : \E j \in DOMAIN net : net'[k] = net[j]
    <3>1. Len(net) \in Nat /\ i \in DOMAIN net
      BY ONLY <1>0, <2>1
    <3>2. /\ net' \in Seq(Datagram) /\ Len(net') = Len(net) + 1
          /\ \A k \in 1 .. Len(net') : net'[k] = IF k <= 1 THEN net[i] ELSE net[k - 1]
      BY ONLY <1>0, <2>1, <3>1
    <3>3. \A k \in DOMAIN net' : k \in 1 .. Len(net') /\ (k > 1 => k - 1 \in DOMAIN net)
      BY <1>0, <3>1, <3>2
    <3> QED
      BY <3>1, <3>2, <3>3
  <2> QED
    BY <1>6, <1>7, <1>9, <1>13, <2>2 DEF Duplicate
<1>14. ASSUME NEW i \in DOMAIN net, Deliver(i)
       PROVE  /\ AllYoung(sockq)' /\ AllYoung(net)'
              /\ FrameWasRead' => Young(paketCounter)'
              /\ data' > 0 => Young(lastData)'
  <2>1. UNCHANGED <<device, conn, history>> /\ i = 1 /\ net' = RemoveAt(net, 1)
    BY <1>14 DEF Deliver, KeepsOrder
  <2>2. \A k \in DOMAIN net' : \E j \in DOMAIN net : net'[k] = net[j]
    <3>1. /\ Len(net') + 1 <= Len(net) /\ net' \in Seq(Datagram)
          /\ \A k \in DOMAIN net' : net'[k] = net[k + 1]
      BY <1>0, <2>1 DEF RemoveAt
    <3>2. \A k \in DOMAIN net' : k + 1 \in DOMAIN net
      BY <1>0, <3>1
    <3> QED
      BY <3>1, <3>2
  <2>3. PICK d \in {net[i], Runt} : sockq' = Append(sockq, d)
    BY <1>14 DEF Deliver
  <2>4. Young(d)
    BY <1>0, <1>2, <2>3 DEF AllYoung, Young
  <2>5. AllYoung(sockq)'
    <3> SUFFICES ASSUME NEW k \in DOMAIN sockq' PROVE Young(sockq[k])'
      BY DEF AllYoung
    <3>1. sockq'[k] = d \/ \E j \in DOMAIN sockq : sockq'[k] = sockq[j]
      BY <1>0, <2>3
    <3>2. PICK c : c = sockq'[k]
      OBVIOUS
    <3>3. Young(c)
      BY <1>2, <2>4, <3>1, <3>2 DEF AllYoung
    <3>4. Young(c)'
      BY <1>3, <3>3
    <3> QED
      BY <3>2, <3>4 DEF Young, Age
  <2> QED
    BY <1>6, <1>9, <2>1, <2>2, <2>5
<1>15. CASE ReadInSync \/ ReadDesync
  <2>1. /\ sockq # <<>> /\ sockq' = Tail(sockq) /\ net' = net
        /\ paketCounter' = Head(sockq)
        /\ lastData' = Head(sockq) \/ UNCHANGED <<data, lastData>>
    BY <1>15 DEF ReadInSync, ReadDesync, ReadFrame, InSync, ResyncTo
  <2>2. PICK c, e : c = Head(sockq) /\ e = lastData
    OBVIOUS
  <2>3. Young(c)'
    BY <1>3, <1>4, <2>1, <2>2
  <2>4. Young(e) => Young(e)'
    BY <1>3
  <2>5. Young(paketCounter)' /\ (data' > 0 => Young(lastData)')
    BY <1>2, <2>1, <2>2, <2>3, <2>4 DEF Young, Age
  <2> QED
    BY <1>4, <1>5, <1>8, <2>1, <2>5
<1>16. CASE ReadRunt
  BY <1>4, <1>5, <1>8, <1>9, <1>16 DEF ReadRunt
<1>17. CASE DeviceReboot
  BY <1>17 DEF KeepsOrder, DeviceReboot
<1>18. CASE ReadyRead \/ ReadLoopEnds \/ UNCHANGED vars
  BY <1>7, <1>8, <1>9, <1>18 DEF ReadyRead, ReadLoopEnds, vars
<1>19. CASE ReadyReadEmpty \/ CheckConnection
  BY <1>7, <1>8, <1>9, <1>10, <1>19 DEF ReadyReadEmpty, CheckConnection
<1> QED
  BY <1>11, <1>12, <1>13, <1>14, <1>15, <1>16, <1>17, <1>18, <1>19
     DEF Next, Network, ReadyReadUdp

LEMMA ShortStreamsStayInStep ==
  ASSUME HalfTurn
  PROVE  Safety => [](InStep /\ Recent)
<1>1. TypeOK /\ YoungInv /\ [Next]_vars => (TypeOK /\ YoungInv)'
  BY TypeStep, YoungStep
<1>2. TypeOK /\ YoungInv => InStep /\ Recent
  BY YoungInStep
<1> QED
  BY TypeInit, YoungInit, <1>1, <1>2, PTL DEF Safety

OnlyOnwards ==
  [][KeepsOrder /\ data' = data + 1 /\ data > 0 =>
       Signed((lastData' - lastData) % CounterMod) > 0]_vars

(* In particular, for every counter whose half turn is longer than the stream, a
   connection forwards only frames later than those it forwarded, whatever the
   network loses or doubles, while nothing overtakes and the device does not
   restart (server.cpp:258).                                                 *)
THEOREM ForwardedOnlyOnwards ==
  ASSUME HalfTurn
  PROVE  Safety => OnlyOnwards
<1> DEFINE Inv == TypeOK /\ OrderInv /\ ForwardInv
           Onwards == KeepsOrder /\ data' = data + 1 /\ data > 0 =>
                        Signed((lastData' - lastData) % CounterMod) > 0
<1>1. Inv /\ InStep /\ Recent /\ [Next]_vars => [Onwards]_vars
  BY OnlyInSyncForwards, InSyncOnwards
<1>2. Inv /\ InStep /\ Recent /\ [Next]_vars => Inv'
  BY TypeStep, OrderStep, ForwardStep
<1>3. Init => Inv
  BY TypeInit, OrderInit
<1> QED
  BY <1>1, <1>2, <1>3, ShortStreamsStayInStep, PTL DEF Safety, OnlyOnwards

-----------------------------------------------------------------------------
(* Until the first desync nothing was reported lost and no list made.        *)
NoLossYet == ~onetimeSynch => totalLost = 0 /\ nulls = 0

(* Since then, a list for each frame reported missing; the first desync made
   one, whatever it reported.                                                *)
NullsMatchLoss ==
  onetimeSynch /\ faults \cap {"dup", "reorder", "reboot"} = {} =>
    (totalLost - firstLost) % CounterMod = (nulls - 1) % CounterMod

LossInv == NoLossYet /\ NullsMatchLoss

OneMissed == 1  \* the list of null samples before the first synchronisation

LEMMA NullListsOf ==
  ASSUME NEW errs \in Nat, onetimeSynch
  PROVE  Len(NullLists(errs)) = errs
<1> DEFINE F(k) == List("null", (IF ChainClears THEN 1 ELSE k) * Channels)
<1> HIDE DEF F
<1>1. NullLists(errs) = [k \in 1 .. errs |-> F(k)]
  BY DEF NullLists, F
<1>2. Len([k \in 1 .. errs |-> F(k)]) = errs
  OBVIOUS
<1> QED
  BY <1>1, <1>2

(* What was lost since the first desync, and lists, as counters show them.   *)
LostSince(t, f) == (t - f) % CounterMod
Shown(n) == n % CounterMod
LostNow(t, errs) == (t + errs) % CounterMod

(* errs frames more are lost, and errs more lists are made.                  *)
LEMMA LossesMatch ==
  ASSUME NEW t \in Int, NEW f \in Int, NEW n \in Int, NEW errs \in Int,
         NEW m \in Int, m = n + errs, LostSince(t, f) = Shown(n)
  PROVE  LostSince(LostNow(t, errs), f) = Shown(m)
<1> DEFINE M == CounterMod
           a == t + errs
           b == -f
           c == t - f
<1>1. M \in Nat \ {0} /\ a \in Int /\ b \in Int /\ c \in Int /\ a + b = c + errs
  BY CounterMath
<1>2. (a % M) \in Int
  BY <1>1, DivMod
<1> HIDE DEF a, b, c, M
<1>3. ((a % M) + b) % M = (a + b) % M
  BY <1>1, AddWrapped
<1>4. ((c % M) + errs) % M = (c + errs) % M
  BY <1>1, AddWrapped
<1>5. ((n % M) + errs) % M = (n + errs) % M
  BY <1>1, AddWrapped
<1>6. c % M = n % M
  BY DEF c, M, LostSince, Shown
<1>7. (a % M) + b = (a % M) - f
  <2> DEFINE r == a % M
  <2>1. r \in Int /\ b = -f
    BY <1>2 DEF b
  <2> HIDE DEF r
  <2>2. r + b = r - f
    BY <2>1
  <2> QED
    BY ONLY <2>2 DEF r
<1>8. ((a % M) - f) % M = (n + errs) % M
  BY ONLY <1>1, <1>3, <1>4, <1>5, <1>6, <1>7
<1> QED
  BY ONLY <1>8, m = n + errs DEF a, M, LostSince, Shown, LostNow

LEMMA LossInit == Init => LossInv
BY DEF Init, ZeroCounters, LossInv, NoLossYet, NullsMatchLoss

LEMMA LossStep ==
  TypeOK /\ InStep /\ OrderInv /\ LossInv /\ [Next]_vars => LossInv'
<1> SUFFICES ASSUME TypeOK, InStep, OrderInv, LossInv, [Next]_vars PROVE LossInv'
  OBVIOUS
<1> DEFINE Only == faults \cap {"dup", "reorder", "reboot"} = {}
<1>1. ASSUME UNCHANGED <<faults, onetimeSynch, totalLost, nulls, firstLost>>
      PROVE  LossInv'
  BY <1>1 DEF LossInv, NoLossYet, NullsMatchLoss
<1>2. ASSUME Disconnected PROVE LossInv'
  BY <1>2 DEF Disconnected, LossInv, NoLossYet, NullsMatchLoss
<1>3. CASE ReadDesync
  <2>1. /\ onetimeSynch' /\ faults' = faults /\ totalLost' = (totalLost + Errs) % CounterMod
        /\ nulls' = nulls + Len(NullLists(Errs))
        /\ firstLost' = IF onetimeSynch THEN firstLost ELSE Errs
    BY <1>3 DEF ReadDesync, ReadFrame, LostInAll, device
  <2>2. /\ totalLost \in Int /\ firstLost \in Int /\ nulls \in Int /\ Errs \in Int
    <3>1. /\ paketCounter \in Counter /\ totalLost \in Counter /\ firstLost \in Int
          /\ nulls \in Int
      BY DEF TypeOK
    <3>2. Head(sockq) \in Counter
      BY <1>3, SockqType DEF ReadDesync, ReadFrame, Datagram
    <3> QED
      BY <3>1, <3>2, ErrsType, NextIsInt
  <2>3. CASE ~onetimeSynch
    <3>1. totalLost = 0 /\ nulls = 0 /\ Len(NullLists(Errs)) = OneMissed
      BY <2>3 DEF LossInv, NoLossYet, NullLists, OneMissed
    <3> DEFINE z == 0
               n == -Errs
    <3>2. z \in Int /\ n \in Int /\ z = n + Errs
      BY <2>2
    <3>3. LostSince(z, Errs) = Shown(n)
      <4>1. z - Errs = n
        BY <2>2
      <4> QED
        BY ONLY <4>1 DEF LostSince, Shown
    <3>4. nulls' - 1 = z /\ firstLost' = Errs /\ totalLost' = LostNow(z, Errs)
      BY <2>1, <2>3, <3>1 DEF OneMissed, LostNow
    <3> HIDE DEF z, n
    <3>5. LostSince(LostNow(z, Errs), Errs) = Shown(z)
      BY <2>2, <3>2, <3>3, LossesMatch
    <3>6. (totalLost' - firstLost') % CounterMod = (nulls' - 1) % CounterMod
      BY ONLY <3>4, <3>5 DEF LostSince, Shown
    <3> QED
      BY <2>1, <3>6 DEF LossInv, NoLossYet, NullsMatchLoss
  <2>4. CASE onetimeSynch
    <3>1. ASSUME Only PROVE (totalLost' - firstLost') % CounterMod = (nulls' - 1) % CounterMod
      <4>1. Errs \in Nat
        BY <1>3, <2>4, <3>1, DesyncCountsMissing DEF KeepsOrder
      <4>2. nulls' = nulls + Errs /\ firstLost' = firstLost
        BY <2>1, <2>4, <4>1, NullListsOf
      <4> DEFINE n == nulls - 1
                 m == nulls' - 1
      <4>3. n \in Int /\ m \in Int /\ m = n + Errs
        BY <2>2, <4>2
      <4>4. LostSince(totalLost, firstLost) = Shown(n)
        BY <2>4, <3>1 DEF LossInv, NullsMatchLoss, LostSince, Shown
      <4> HIDE DEF n, m
      <4>5. LostSince(LostNow(totalLost, Errs), firstLost) = Shown(m)
        BY <2>2, <4>3, <4>4, LossesMatch
      <4> QED
        BY ONLY <2>1, <4>2, <4>5 DEF LostSince, LostNow, Shown, m
    <3> QED
      BY <2>1, <3>1 DEF LossInv, NoLossYet, NullsMatchLoss
  <2> QED
    BY <2>3, <2>4
<1>4. CASE DeviceSend \/ DeviceReboot \/ Network
  BY <1>1, <1>4 DEF DeviceSend, DeviceReboot, Network, Duplicate, Lose, Deliver, conn,
                    history, device
<1>5. CASE ReadyRead \/ ReadLoopEnds \/ ReadRunt \/ UNCHANGED vars
  BY <1>1, <1>5 DEF ReadyRead, ReadLoopEnds, ReadRunt, vars, conn, history, device
<1>6. CASE ReadInSync
  BY <1>1, <1>6 DEF ReadInSync, ReadFrame, device
<1>7. CASE ReadyReadEmpty \/ CheckConnection
  BY <1>1, <1>2, <1>7 DEF ReadyReadEmpty, CheckConnection, conn, history, device
<1> QED
  BY <1>3, <1>4, <1>5, <1>6, <1>7 DEF Next, ReadyReadUdp

(* When frames are only lost, the lists of null samples are exactly as many as
   the frames reported missing after the first desync (server.cpp:258-308),
   whatever the counter's first value, the number of channels and the length
   of the stream, as long as it stays in step: no gap of half a turn.        *)
THEOREM NullsWhileInStep ==
  Safety /\ []InStep => []NullsMatchLoss
<1> DEFINE Inv == TypeOK /\ OrderInv /\ LossInv
<1>1. Inv /\ InStep /\ [Next]_vars => Inv'
  BY TypeStep, OrderStep, LossStep
<1>2. Inv => NullsMatchLoss
  BY DEF LossInv
<1>3. Init => Inv
  BY TypeInit, OrderInit, LossInit
<1> QED
  BY <1>1, <1>2, <1>3, PTL DEF Safety

(* From the first frame that was read to p, as a counter shows it, and a, n
   and x together.                                                           *)
SinceFirst(p, f) == (p + 1 - f) % CounterMod
InAll(a, n, x) == (a + n + x) % CounterMod

(* The three wrapped counters and the two that are not, together.            *)
LEMMA LengthOf ==
  ASSUME NEW a \in Int, NEW x \in Int, NEW t \in Int, NEW f \in Int, NEW n \in Int,
         NEW m \in Int, m = n - 1, LostSince(t, f) = Shown(m)
  PROVE  SinceFirst(Balance(a, x, t), f) = InAll(a, n, x)
<1> DEFINE M == CounterMod
           s == a + x + t
           b == 1 - f
           c == t - f
           d == a + x + 1
<1>1. /\ M \in Nat \ {0} /\ s \in Int /\ b \in Int /\ c \in Int /\ d \in Int
      /\ s + b = c + d /\ m + d = a + n + x
  BY CounterMath
<1>2. (s % M) \in Int
  BY <1>1, DivMod
<1>3. (s % M) + 1 - f = (s % M) + b
  <2> DEFINE r == s % M
  <2>1. r \in Int
    BY <1>2
  <2> HIDE DEF r
  <2>2. r + 1 - f = r + b
    BY <2>1
  <2> QED
    BY ONLY <2>2 DEF r
<1>4. Balance(a, x, t) = s % M
  BY DEF Balance
<1>5. c % M = m % M
  BY DEF LostSince, Shown
<1> HIDE DEF s, b, c, d, M
<1>6. ((s % M) + b) % M = (s + b) % M
  BY <1>1, AddWrapped
<1>7. ((c % M) + d) % M = (c + d) % M
  BY <1>1, AddWrapped
<1>8. ((m % M) + d) % M = (m + d) % M
  BY <1>1, AddWrapped
<1>9. ((s % M) + b) % M = (a + n + x) % M
  BY ONLY <1>1, <1>5, <1>6, <1>7, <1>8
<1> QED
  BY ONLY <1>3, <1>4, <1>9 DEF SinceFirst, InAll, M

(* The shortfall as a sum.                                                   *)
ShortByDesyncs ==
  onetimeSynch /\ faults \cap {"dup", "reorder", "reboot"} = {} =>
    (paketCounter + 1 - firstLost) % CounterMod = (data + nulls + desynchCounter) % CounterMod

LEMMA ShortInAll == TypeOK /\ CountersBalance /\ NullsMatchLoss => ShortByDesyncs
<1> SUFFICES ASSUME TypeOK, CountersBalance, NullsMatchLoss, onetimeSynch,
                    faults \cap {"dup", "reorder", "reboot"} = {}
             PROVE  (paketCounter + 1 - firstLost) % CounterMod
                      = (data + nulls + desynchCounter) % CounterMod
  BY DEF ShortByDesyncs
<1>1. /\ data \in Int /\ desynchCounter \in Int /\ totalLost \in Int
      /\ firstLost \in Int /\ nulls \in Int
  BY NextIsInt DEF TypeOK
<1>2. paketCounter = Balance(data, desynchCounter, totalLost)
  BY DEF CountersBalance, Balance
<1> DEFINE m == nulls - 1
<1>3. m \in Int /\ LostSince(totalLost, firstLost) = Shown(m)
  BY <1>1 DEF NullsMatchLoss, LostSince, Shown
<1> HIDE DEF m
<1>4. SinceFirst(Balance(data, desynchCounter, totalLost), firstLost)
        = InAll(data, nulls, desynchCounter)
  BY <1>1, <1>3, LengthOf DEF m
<1> QED
  BY ONLY <1>2, <1>4 DEF SinceFirst, InAll

FromFirst(p, f) == (p + 1 - f) % CounterMod
Held(b, x) == (b + x) % CounterMod
Elapsed(p, f, x) == (p - f - (x - 1)) % CounterMod

LEMMA ShortOf ==
  ASSUME NEW p \in Int, NEW f \in Int, NEW b \in Int, NEW x \in Int,
         FromFirst(p, f) = Held(b, x)
  PROVE  b % CounterMod = Elapsed(p, f, x)
<1> DEFINE u == p + 1 - f
           v == b + x
           y == -x
<1>1. /\ CounterMod \in Nat \ {0} /\ u \in Int /\ v \in Int /\ y \in Int
      /\ v + y = b /\ u + y = p - f - (x - 1)
  BY CounterMath
<1>2. u % CounterMod = v % CounterMod
  BY DEF FromFirst, Held
<1>5. Elapsed(p, f, x) = (u + y) % CounterMod
  BY ONLY <1>1 DEF Elapsed
<1> HIDE DEF u, v, y
<1>3. ((u % CounterMod) + y) % CounterMod = (u + y) % CounterMod
  BY <1>1, AddWrapped
<1>4. ((v % CounterMod) + y) % CounterMod = (v + y) % CounterMod
  BY <1>1, AddWrapped
<1> QED
  BY ONLY <1>1, <1>2, <1>3, <1>4, <1>5

(* What the recording loses for good when frames are only lost: the missing
   frames of the first gap, and one frame for each gap after it, although
   server.cpp:279 has null samples stand for every missed packet; for streams of
   any length that stay in step, in the width of the counters.               *)
THEOREM RecordingLength ==
  Safety /\ []InStep => []RecordingFallsShort
<1>1. TypeOK /\ ShortByDesyncs => RecordingFallsShort
  <2> SUFFICES ASSUME TypeOK, ShortByDesyncs, onetimeSynch,
                      faults \cap {"dup", "reorder", "reboot"} = {}
               PROVE  (data + nulls) % CounterMod
                        = (paketCounter - firstLost - (desynchCounter - 1)) % CounterMod
    BY DEF RecordingFallsShort
  <2> DEFINE b == data + nulls
  <2>1. b \in Int /\ desynchCounter \in Int /\ paketCounter \in Int /\ firstLost \in Int
    BY NextIsInt DEF TypeOK
  <2>2. FromFirst(paketCounter, firstLost) = Held(b, desynchCounter)
    BY DEF ShortByDesyncs, FromFirst, Held
  <2> HIDE DEF b
  <2>3. b % CounterMod = Elapsed(paketCounter, firstLost, desynchCounter)
    BY <2>1, <2>2, ShortOf
  <2> QED  BY ONLY <2>3 DEF b, Elapsed
<1> QED
  BY <1>1, ShortInAll, UdpTypes, CountersAlwaysBalance, NullsWhileInStep, PTL

(* In particular for every counter whose half turn is longer than the stream. *)
THEOREM ShortStreamsFallShort ==
  ASSUME HalfTurn
  PROVE  Safety => []RecordingFallsShort
BY ShortStreamsStayInStep, RecordingLength, PTL

-----------------------------------------------------------------------------
(* The list that stands for the k-th missing frame of a desync, with what the
   chain left in it.                                                         *)
NullEntries ==
  \A k \in DOMAIN lists :
    lists[k].kind = "null" => lists[k].entries = (IF ChainClears THEN 1 ELSE k) * Channels

LEMMA NullListEntries ==
  ASSUME NEW errs \in Int, NEW k \in DOMAIN NullLists(errs)
  PROVE  NullLists(errs)[k].entries = (IF ChainClears THEN 1 ELSE k) * Channels
<1>1. CASE ~onetimeSynch
  <2>1. NullLists(errs) = <<List("null", Channels)>>
    BY <1>1 DEF NullLists
  <2>2. k = 1 /\ NullLists(errs)[k].entries = Channels
    BY <2>1 DEF List
  <2>3. Channels \in Int
    BY UdpAssumption
  <2> QED
    BY <2>2, <2>3
<1>2. CASE onetimeSynch
  BY <1>2 DEF NullLists, List
<1> QED
  BY <1>1, <1>2

LEMMA EntriesStep ==
  TypeOK /\ NullEntries /\ [Next]_vars => NullEntries'
<1> SUFFICES ASSUME TypeOK, NullEntries, [Next]_vars PROVE NullEntries'
  OBVIOUS
<1>1. ASSUME lists' = lists PROVE NullEntries'
  BY <1>1 DEF NullEntries
<1>2. CASE ReadRunt
  BY <1>2 DEF ReadRunt, NullEntries
<1>3. CASE ReadInSync
  BY <1>3 DEF ReadInSync, NullEntries, DataList, List
<1>4. CASE ReadDesync
  <2>1. Head(sockq) \in Counter
    BY <1>4, SockqType DEF ReadDesync, ReadFrame, Datagram
  <2>2. Errs \in Int /\ lists' = NullLists(Errs)
    BY <1>4, <2>1, ErrsType DEF ReadDesync, TypeOK
  <2> QED
    BY <2>2, NullListEntries DEF NullEntries
<1>5. CASE DeviceSend \/ DeviceReboot \/ Network
  BY <1>1, <1>5 DEF DeviceSend, DeviceReboot, Network, Duplicate, Lose, Deliver
<1>6. CASE ReadyRead \/ ReadLoopEnds \/ UNCHANGED vars
  BY <1>1, <1>6 DEF ReadyRead, ReadLoopEnds, vars
<1>7. CASE ReadyReadEmpty \/ CheckConnection
  BY <1>1, <1>7 DEF ReadyReadEmpty, CheckConnection
<1> QED
  BY <1>2, <1>3, <1>4, <1>5, <1>6, <1>7 DEF Next, ReadyReadUdp

(* When the chain does clear the list, as README.md:92-93 asks of its last
   plugin, every list for a missed frame is one frame long (server.cpp:294-308),
   on every network: the long lists of the code come from the chain alone.   *)
THEOREM ClearedListsAreOneFrame ==
  ASSUME ChainClears
  PROVE  Safety => []NullListIsOneFrame
<1>1. Init => NullEntries
  BY DEF Init, NullEntries
<1>2. NullEntries => NullListIsOneFrame
  <2>1. Channels \in Int
    BY UdpAssumption
  <2> QED
    BY <2>1 DEF NullEntries, NullListIsOneFrame
<1>3. TypeOK /\ NullEntries /\ [Next]_vars => (TypeOK /\ NullEntries)'
  BY TypeStep, EntriesStep
<1> QED
  BY TypeInit, <1>1, <1>2, <1>3, PTL DEF Safety
=============================================================================
