-------------------------- MODULE TcpStreamerProofs --------------------------
(* Proofs about the TCP transport: for a ring of any size, any channels and
   samples and any counters, the ring is a queue that loses everything when it
   is full; read() finds whole frames in order whatever the overrun; each list
   repeats the last channel's samples of the frame found, or of later ones if
   the slot in use is written to, which room in the ring excludes. Threads that
   are not bound serve nothing.                                              *)
EXTENDS TcpStreamer, TLAPS

-----------------------------------------------------------------------------
(* The ring: the slots from the reader's head to the writer's.               *)
RingOK == rHead \in Slots /\ wHead \in Slots

LEMMA SizeIsNat == Size \in Nat /\ Size >= 2
  BY SizeAssumption

LEMMA UnreadSlots ==
  ASSUME RingOK
  PROVE  /\ Unread \in 0 .. Size - 1
         /\ \A k \in 1 .. Unread : SlotOf(k) \in Slots /\ SlotOf(k) # wHead
         /\ Unread > 0 => SlotOf(1) = rHead
         /\ Unread = 0 <=> Empty
         /\ DOMAIN Contents = 1 .. Unread /\ Len(Contents) = Unread
         /\ \A k \in 1 .. Unread : Contents[k] = buffer[SlotOf(k)]
<1> USE SizeIsNat
<1>1. /\ Unread \in 0 .. Size - 1
      /\ \A k \in 1 .. Unread : SlotOf(k) \in Slots /\ SlotOf(k) # wHead
      /\ Unread > 0 => SlotOf(1) = rHead
      /\ Unread = 0 <=> Empty
  BY DEF RingOK, Slots, Unread, SlotOf, Empty
<1>2. Contents = [k \in 1 .. Unread |-> buffer[SlotOf(k)]]
  BY DEF Contents
<1> HIDE DEF Unread
<1> QED  BY <1>1, <1>2

(* A write that is not finished is out of the reader's sight.                *)
LEMMA WritingUnseen ==
  ASSUME RingOK, UNCHANGED <<rHead, wHead>>, NEW x, buffer' = [buffer EXCEPT ![wHead] = x]
  PROVE  Contents' = Contents
<1>1. \A k \in 1 .. Unread : SlotOf(k) # wHead
  BY UnreadSlots
<1>2. Unread' = Unread /\ \A k \in 1 .. Unread : SlotOf(k)' = SlotOf(k)
  BY DEF Unread, SlotOf
<1>3. \A k \in 1 .. Unread : buffer'[SlotOf(k)] = buffer[SlotOf(k)]
  BY <1>1
<1> QED  BY <1>2, <1>3 DEF Contents

LEMMA AdvanceStays ==
  ASSUME NEW s \in Slots
  PROVE  AdvanceWriteHead(s) \in Slots /\ AdvanceReadHead(s) \in Slots
  BY SizeIsNat DEF Slots, AdvanceWriteHead, AdvanceReadHead

LEMMA WriteAppends ==
  ASSUME RingOK, UNCHANGED <<buffer, rHead>>, wHead' = AdvanceWriteHead(wHead)
  PROVE  /\ Contents' = IF Len(Contents) = Size - 1 THEN <<>>
                        ELSE Append(Contents, buffer[wHead])
         /\ RingOK'
<1> USE SizeIsNat
<1>1. RingOK'
  BY AdvanceStays DEF RingOK, Slots
<1>2. CASE Unread = Size - 1
  <2>1. Unread' = 0
    BY <1>2 DEF RingOK, Slots, Unread, AdvanceWriteHead
  <2>2. Contents' = <<>>
    BY <2>1 DEF Contents
  <2> QED  BY <1>1, <1>2, <2>2, UnreadSlots
<1>3. CASE Unread # Size - 1
  <2>1. Unread' = Unread + 1 /\ SlotOf(Unread + 1) = wHead /\ Unread \in Nat
    BY <1>3 DEF RingOK, Slots, Unread, SlotOf, AdvanceWriteHead
  <2>2. \A k \in 1 .. Unread + 1 : SlotOf(k)' = SlotOf(k)
    BY DEF SlotOf
  <2>3. Contents' = [k \in 1 .. Unread + 1 |-> buffer[SlotOf(k)]]
    BY <2>1, <2>2 DEF Contents
  <2>4. Contents = [k \in 1 .. Unread |-> buffer[SlotOf(k)]]
    BY DEF Contents
  <2> DEFINE n == Unread
             b == buffer
             S(k) == SlotOf(k)
  <2>5. n \in Nat /\ S(n + 1) = wHead
    BY <2>1
  <2> HIDE DEF n, b, S
  <2>6. [k \in 1 .. n + 1 |-> b[S(k)]] = Append([k \in 1 .. n |-> b[S(k)]], b[S(n + 1)])
    BY <2>5
  <2>7. Contents' = Append(Contents, buffer[wHead])
    BY <2>3, <2>4, <2>5, <2>6 DEF n, b, S
  <2> QED  BY <1>1, <1>3, <2>7, UnreadSlots
<1> QED  BY <1>2, <1>3

LEMMA ReadTakesHead ==
  ASSUME RingOK, ~Empty, UNCHANGED <<buffer, wHead>>, rHead' = AdvanceReadHead(rHead)
  PROVE  /\ Contents # <<>> /\ Head(Contents) = buffer[rHead] /\ Contents' = Tail(Contents)
         /\ RingOK'
<1> USE SizeIsNat
<1>1. RingOK'
  BY AdvanceStays DEF RingOK, Slots
<1>2. Unread > 0 /\ Unread \in Nat /\ Contents[1] = buffer[rHead] /\ Len(Contents) = Unread
  BY UnreadSlots
<1>3. Unread' = Unread - 1 /\ \A k \in 1 .. Unread - 1 : SlotOf(k)' = SlotOf(k + 1)
  BY DEF RingOK, Empty, Slots, Unread, SlotOf, AdvanceReadHead
<1>4. Contents' = [k \in 1 .. Unread - 1 |-> buffer[SlotOf(k + 1)]]
  BY <1>3 DEF Contents
<1>5. Contents = [k \in 1 .. Unread |-> buffer[SlotOf(k)]]
  BY DEF Contents
<1> DEFINE n == Unread
           b == buffer
           S(k) == SlotOf(k)
<1>6. n \in Nat /\ n > 0
  BY <1>2
<1> HIDE DEF n, b, S
<1>7. [k \in 1 .. n - 1 |-> b[S(k + 1)]] = Tail([k \in 1 .. n |-> b[S(k)]])
  BY <1>6
<1>8. Contents' = Tail(Contents)
  BY <1>4, <1>5, <1>7 DEF n, b, S
<1> QED  BY <1>1, <1>2, <1>8

-----------------------------------------------------------------------------
(* Types, and what the worker's place says of the frame it holds.            *)
Samples == Nat \X (1 .. MAX)

Frames == {f \in [1 .. MAX -> Samples] : \A n \in 1 .. MAX : f[n][2] = n}

Lists == [1 .. Channels -> [1 .. SmplPerChan -> Samples]]

LEMMA MaxIsNat ==
  /\ MAX \in Nat /\ MAX >= 1 /\ MAX - SmplPerChan \in Nat
  /\ SmplPerChan \in Nat /\ MaxCounter \in Nat
<1>1. /\ Channels \in Nat /\ Channels >= 1 /\ SmplPerChan \in Nat /\ SmplPerChan >= 1
      /\ MaxCounter \in Nat
  BY TcpAssumption
<1>2. \A c, n \in Nat : c >= 1 /\ n >= 1 => c * n \in Nat /\ c * n >= n
  <2> SUFFICES ASSUME NEW c \in Nat, NEW n \in Nat, c >= 1, n >= 1
               PROVE  c * n \in Nat /\ c * n >= n
    OBVIOUS
  <2>1. PICK b \in Nat : c = b + 1
    <3>1. c - 1 \in Nat /\ c = (c - 1) + 1
      OBVIOUS
    <3> QED  BY <3>1
  <2>2. b * n \in Nat /\ c * n = b * n + n
    BY <2>1
  <2> QED  BY <2>2
<1>3. MAX \in Nat /\ MAX >= SmplPerChan
  BY <1>1, <1>2 DEF MAX
<1> QED  BY <1>1, <1>3

Places == {"none", "loop", "open", "test", "accept", "select", "read", "check", "write", "spin",
           "ended"}

Typed ==
  /\ RingOK /\ buffer \in [Slots -> Frames]
  /\ tcp \in Places /\ writer \in {"none", "idle", "copy"} /\ t \in Slots
  /\ paket \in Nat /\ sent \in 0 .. MaxCounter /\ frame \in 0 .. MaxCounter
  /\ h \in 1 .. MAX + 1
  /\ list \in Seq(Samples) /\ given \in Seq(Lists)
  /\ tcp \in {"none", "loop", "open"} => writer = "none"
  /\ clobbered \in BOOLEAN
  /\ tcp \in {"check", "write"} => frame \in {0, sent}
  /\ tcp = "write" =>
       frame > 0 /\ \A n \in 1 .. MAX : n < h => buffer[wHead][n] = <<frame, n>>

LEMMA FrameIsTyped == ASSUME NEW c \in Nat PROVE Frame(c) \in Frames
  BY DEF Frame, Frames, Samples

LEMMA TypedInit == Init => Typed
<1> SUFFICES ASSUME Init PROVE Typed
  OBVIOUS
<1>1. RingOK /\ t \in Slots
  BY SizeIsNat DEF Init, Heads, RingOK, Slots
<1>2. Frame(0) \in Frames /\ buffer = [s \in Slots |-> Frame(0)]
  BY FrameIsTyped DEF Init
<1>3. buffer \in [Slots -> Frames]
  BY <1>2
<1>4. 1 \in 1 .. MAX + 1 /\ 0 \in 0 .. MaxCounter
  BY MaxIsNat
<1>5. list \in Seq(Samples) /\ given \in Seq(Lists)
  BY DEF Init
<1> QED  BY <1>1, <1>3, <1>4, <1>5 DEF Init, Typed, Places

LEMMA TypedStep == Typed /\ [Next]_vars => Typed'
<1> SUFFICES ASSUME Typed, [Next]_vars PROVE Typed'
  OBVIOUS
<1>0. MAX \in Nat /\ MAX > 0 /\ MaxCounter \in Nat
  BY MaxIsNat
<1>1. CASE UNCHANGED vars
  BY <1>1 DEF vars, ring, stream, reader, Typed, RingOK
<1>2. CASE InitTcp \/ Open \/ OpenFails \/ TestRunning \/ Accept \/ Select \/ ReadNothing \/ Deinit
  <2>1. /\ UNCHANGED <<ring, stream, t, list, given, clobbered>>
        /\ writer' \in {writer, "idle"}
    BY <1>2 DEF InitTcp, Open, OpenFails, TestRunning, Accept, Select, ReadNothing, Deinit, reader
  <2>2. tcp' \in Places \ {"check", "write"} \/ tcp' = tcp
    BY <1>2 DEF InitTcp, Open, OpenFails, TestRunning, Accept, Select, ReadNothing, Deinit, At,
                Places
  <2>3. tcp' \in {"none", "loop", "open"} =>
          tcp \in {"none", "loop", "open"} /\ writer' = writer
    BY <1>2 DEF InitTcp, Open, OpenFails, TestRunning, Accept, Select, ReadNothing, Deinit, At,
                reader
  <2> QED  BY <2>1, <2>2, <2>3 DEF Typed, RingOK, ring, stream
<1>3. CASE ReadFrame
  <2>1. PICK c \in {0} \cup sent + 1 .. MaxCounter :
          frame' = c /\ sent' = (IF c = 0 THEN sent ELSE c)
    BY <1>3 DEF ReadFrame
  <2>2. tcp' = "check" /\ UNCHANGED <<ring, paket, h, reader, clobbered>>
    BY <1>3 DEF ReadFrame, At
  <2>3. frame' \in 0 .. MaxCounter /\ sent' \in 0 .. MaxCounter /\ frame' \in {0, sent'}
    BY <1>0, <2>1 DEF Typed
  <2> QED  BY <2>2, <2>3 DEF Typed, RingOK, ring, reader, Places
<1>4. CASE Missed
  BY <1>4 DEF Missed, At, Typed, RingOK, ring, reader, Places
<1>5. CASE InSync
  <2>1. /\ tcp = "check" /\ tcp' = "write" /\ paket + 1 = frame /\ paket' = frame /\ h' = 1
        /\ UNCHANGED <<ring, sent, frame, reader, clobbered>>
    BY <1>5 DEF InSync, At
  <2>2. frame > 0 /\ frame \in Nat /\ 1 \in 1 .. MAX + 1
    BY <1>0, <2>1 DEF Typed
  <2>3. \A n \in 1 .. MAX : ~(n < h')
    BY <1>0, <2>1
  <2> QED  BY <2>1, <2>2, <2>3 DEF Typed, RingOK, ring, reader, Places
<1>6. CASE WriteSample
  <2>1. /\ h <= MAX /\ tcp = "write" /\ tcp' = "write" /\ h' = h + 1
        /\ buffer' = [buffer EXCEPT ![wHead][h] = <<frame, h>>]
        /\ UNCHANGED <<rHead, wHead, paket, sent, frame, reader>>
        /\ clobbered' \in BOOLEAN
    BY <1>6 DEF WriteSample, At, Typed
  <2>2. h \in 1 .. MAX /\ h' \in 1 .. MAX + 1 /\ frame \in Nat /\ wHead \in Slots
    BY <1>0, <2>1 DEF Typed, RingOK
  <2> DEFINE b == buffer[wHead]
             x == <<frame, h>>
             f == [b EXCEPT ![h] = x]
  <2>3. b \in Frames /\ x \in Samples /\ x[2] = h
    BY <2>2 DEF Typed, Samples
  <2>4. f \in Frames /\ f[h] = x /\ \A n \in 1 .. MAX : n # h => f[n] = b[n]
    <3> HIDE DEF b, x
    <3> QED  BY <2>2, <2>3 DEF Frames
  <2>5. buffer' \in [Slots -> Frames] /\ buffer'[wHead] = f
    <3>1. buffer' = [buffer EXCEPT ![wHead] = f]
      BY <2>1
    <3> HIDE DEF f
    <3> QED  BY <2>2, <2>4, <3>1 DEF Typed
  <2>6. ASSUME NEW n \in 1 .. MAX, n < h' PROVE buffer'[wHead][n] = <<frame, n>>
    <3>1. n = h \/ (n < h /\ n # h)
      BY <1>0, <2>1, <2>2, <2>6
    <3>2. CASE n = h
      BY <2>4, <2>5, <3>2
    <3>3. CASE n < h /\ n # h
      <4>1. b[n] = <<frame, n>>
        BY <2>1, <3>3 DEF Typed
      <4> HIDE DEF b, f, x
      <4> QED  BY <2>4, <2>5, <3>3, <4>1
    <3> QED  BY <3>1, <3>2, <3>3
  <2> QED  BY <2>1, <2>2, <2>5, <2>6 DEF Typed, RingOK, reader, Places
<1>7. CASE Written
  <2>1. RingOK'
    BY <1>7, WriteAppends DEF Written, Typed
  <2> QED  BY <1>7, <2>1 DEF Written, At, Typed, reader, stream, Places
<1>8. CASE Read
  <2>1. RingOK' /\ t' \in Slots /\ <<>> \in Seq(Samples)
    BY <1>8, ReadTakesHead DEF Read, Typed, RingOK
  <2> QED  BY <1>8, <2>1 DEF Read, Typed, stream
<1>9. CASE CopySample
  <2>1. /\ Len(list) < MAX /\ list' = Append(list, buffer[t][Len(list) + 1])
        /\ UNCHANGED <<ring, tcp, stream, writer, t, given, clobbered>>
    BY <1>9 DEF CopySample
  <2>2. Len(list) + 1 \in 1 .. MAX /\ buffer[t] \in Frames /\ list \in Seq(Samples)
    BY <1>0, <2>1 DEF Typed
  <2>3. buffer[t][Len(list) + 1] \in Samples
    BY <2>2 DEF Frames
  <2>4. list' \in Seq(Samples)
    BY <2>1, <2>2, <2>3
  <2> QED  BY <2>1, <2>4 DEF Typed, RingOK, ring, stream
<1>10. CASE PutData
  <2>1. given' = Append(given, Shown(list)) /\ Len(list) = MAX
    BY <1>10 DEF PutData
  <2>2. Shown(list) \in Lists
    <3> SUFFICES ASSUME NEW e \in 1 .. Channels, NEW j \in 1 .. SmplPerChan
                 PROVE  list[MAX - SmplPerChan + j] \in Samples
      BY DEF Shown, Lists
    <3>1. MAX - SmplPerChan + j \in 1 .. MAX
      BY MaxIsNat
    <3> QED  BY <2>1, <3>1 DEF Typed
  <2>3. given' \in Seq(Lists)
    BY <2>1, <2>2 DEF Typed
  <2> QED  BY <1>10, <2>3 DEF PutData, Typed, RingOK, ring, stream
<1> QED
  BY <1>1, <1>2, <1>3, <1>4, <1>5, <1>6, <1>7, <1>8, <1>9, <1>10 DEF Next, Worker, WriterWorker

-----------------------------------------------------------------------------
(* Above Upto is only the frame being written.                               *)
Upto == IF tcp \in {"check", "write"} /\ frame > 0 THEN frame - 1 ELSE sent

LEMMA FrameFirst == ASSUME NEW c PROVE Counter(Frame(c)) = c
<1>1. 1 \in 1 .. MAX
  BY MaxIsNat
<1>2. Frame(c)[1] = <<c, 1>>
  BY <1>1 DEF Frame
<1> QED  BY <1>2 DEF Counter

LEMMA WholeIsFrame ==
  ASSUME NEW f \in Frames, NEW c, \A n \in 1 .. MAX : f[n] = <<c, n>>
  PROVE  f = Frame(c)
  BY DEF Frame, Frames

LEMMA UptoIsInt == Typed => Upto \in Nat /\ Upto <= sent
  BY MaxIsNat DEF Typed, Upto

LEMMA ContentsIsSeq ==
  ASSUME Typed
  PROVE  Contents \in Seq(Frames) /\ DOMAIN Contents = 1 .. Len(Contents) /\ Len(Contents) \in Nat
<1>1. /\ Unread \in 0 .. Size - 1
      /\ \A k \in 1 .. Unread : SlotOf(k) \in Slots
  BY UnreadSlots DEF Typed
<1>2. Unread \in Nat
  BY <1>1, SizeIsNat
<1>3. \A k \in 1 .. Unread : buffer[SlotOf(k)] \in Frames
  BY <1>1 DEF Typed
<1>4. Contents = [k \in 1 .. Unread |-> buffer[SlotOf(k)]]
  BY DEF Contents
<1> DEFINE n == Unread
           b(k) == buffer[SlotOf(k)]
<1>5. n \in Nat /\ \A k \in 1 .. n : b(k) \in Frames
  BY <1>2, <1>3
<1> HIDE DEF n, b
<1>6. [k \in 1 .. n |-> b(k)] \in Seq(Frames)
  BY <1>5
<1>7. Contents \in Seq(Frames)
  BY <1>4, <1>6 DEF n, b
<1> QED  BY <1>7

-----------------------------------------------------------------------------
(* Each step of the transport is a step of the queue or leaves it as it is, the
   slot in use included: the ring is overrun, not torn (ring-buffer.h:48-67). *)
LEMMA QueueStep == Typed /\ [Next]_vars => [Queue!Next]_(Queue!vars)
<1> SUFFICES ASSUME Typed, [Next]_vars PROVE [Queue!Next]_(Queue!vars)
  OBVIOUS
<1>1. ASSUME UNCHANGED ring PROVE Contents' = Contents
  BY <1>1 DEF ring, Contents, Unread, SlotOf
<1>2. CASE UNCHANGED vars
  BY <1>1, <1>2 DEF vars, reader, Queue!vars
<1>3. CASE Open \/ OpenFails \/ TestRunning \/ Accept \/ Select \/ ReadFrame \/ ReadNothing
           \/ Missed \/ InSync \/ InitTcp \/ CopySample \/ PutData
  <2>1. UNCHANGED <<ring, app, taken>>
    BY <1>3 DEF Open, OpenFails, TestRunning, Accept, Select, ReadFrame, ReadNothing, Missed,
                InSync, InitTcp, CopySample, PutData, reader
  <2> QED  BY <1>1, <2>1 DEF Queue!vars
<1>4. CASE WriteSample
  <2>1. UNCHANGED <<rHead, wHead, app, taken>> /\ buffer' = [buffer EXCEPT ![wHead][h] = <<frame, h>>]
    BY <1>4 DEF WriteSample, reader
  <2>2. Contents' = Contents
    BY <2>1, WritingUnseen DEF Typed
  <2> QED  BY <2>1, <2>2 DEF Queue!vars
<1>5. CASE Written
  <2>1. /\ app = "up" /\ h > MAX /\ tcp = "write" /\ wHead' = AdvanceWriteHead(wHead)
        /\ UNCHANGED <<buffer, rHead, app, taken>>
    BY <1>5 DEF Written, At, reader
  <2>2. /\ RingOK /\ frame \in 1 .. MaxCounter /\ buffer[wHead] \in Frames
        /\ \A n \in 1 .. MAX : buffer[wHead][n] = <<frame, n>>
    BY <2>1, MaxIsNat DEF Typed, RingOK
  <2>3. buffer[wHead] = Frame(frame)
    BY <2>2, WholeIsFrame
  <2>4. Contents' = IF Len(Contents) = Size - 1 THEN <<>> ELSE Append(Contents, Frame(frame))
    BY <2>1, <2>2, <2>3, WriteAppends
  <2>5. Queue!Put(Frame(frame))
    BY <2>1, <2>4 DEF Queue!Put
  <2> QED  BY <2>2, <2>5 DEF Queue!Next
<1>6. CASE Read
  <2>1. /\ app = "up" /\ ~Empty /\ rHead' = AdvanceReadHead(rHead)
        /\ taken' = Append(taken, buffer[rHead]) /\ UNCHANGED <<buffer, wHead, app>>
    BY <1>6 DEF Read
  <2>2. Contents # <<>> /\ Head(Contents) = buffer[rHead] /\ Contents' = Tail(Contents)
    BY <2>1, ReadTakesHead DEF Typed
  <2>3. Queue!Get
    BY <2>1, <2>2 DEF Queue!Get
  <2> QED  BY <2>3 DEF Queue!Next
<1>7. CASE Deinit
  <2>1. app = "up" /\ app' # "up" /\ UNCHANGED <<ring, taken>>
    BY <1>7 DEF Deinit, reader
  <2>2. Queue!Stop
    BY <1>1, <2>1 DEF Queue!Stop
  <2> QED  BY <2>2 DEF Queue!Next
<1> QED
  BY <1>2, <1>3, <1>4, <1>5, <1>6, <1>7 DEF Next, Worker, WriterWorker

THEOREM ImplementsQueueSafety == Spec => Queue!Init /\ [][Queue!Next]_(Queue!vars)
<1>1. Init => Queue!Init
  <2> SUFFICES ASSUME Init PROVE Queue!Init
    OBVIOUS
  <2>1. Contents = <<>>
    BY DEF Init, Heads, Unread, Contents
  <2> QED  BY <2>1 DEF Init, Queue!Init
<1> QED  BY TypedInit, TypedStep, QueueStep, <1>1, PTL DEF Spec
-----------------------------------------------------------------------------
(* What read() found, and what it has yet to find, as whole frames in order.  *)
Numbered(s, u) ==
  \A k \in DOMAIN s : Counter(s[k]) \in Nat /\ Counter(s[k]) <= u /\ s[k] = Frame(Counter(s[k]))

Rising(s) == \A j, k \in DOMAIN s : j < k => Counter(s[j]) < Counter(s[k])

Below(s, q) == \A j \in DOMAIN s, k \in DOMAIN q : Counter(s[j]) < Counter(q[k])

TakenInv ==
  /\ taken \in Seq(Frames)
  /\ Numbered(taken, Upto) /\ Numbered(Contents, Upto)
  /\ Rising(taken) /\ Rising(Contents) /\ Below(taken, Contents)

TakenInOrder == Numbered(taken, sent) /\ Rising(taken)

Behind == writer = "copy" => rHead = AdvanceReadHead(t)

RoomLeft == Unread < Size - 1

Exact ==
  \A k \in DOMAIN given, e \in 1 .. Channels, j \in 1 .. SmplPerChan :
    given[k][e][j] = Shown(taken[k])[e][j]

Unserved ==
  ~bound =>
    /\ tcp \in {"none", "loop"} /\ writer = "none" /\ app \in {"up", "aborted"}
    /\ paket = 0 /\ sent = 0 /\ Empty /\ given = <<>> /\ taken = <<>>

LEMMA UptoRises ==
  ASSUME Typed, Typed', [Next]_vars
  PROVE  Upto \in Nat /\ Upto' \in Nat /\ Upto <= Upto'
<1>1. /\ sent \in Nat /\ frame \in Nat /\ MaxCounter \in Nat
      /\ tcp = "write" => frame > 0 /\ frame = sent
  BY TcpAssumption DEF Typed
<1>2. Upto \in Nat /\ Upto <= sent
  BY UptoIsInt
<1>3. sent' \in Nat /\ frame' \in Nat
  BY <1>1 DEF Typed
<1>4. Upto' \in Nat
  <2>1. \A b \in Nat : b > 0 => b - 1 \in Nat
    OBVIOUS
  <2> QED  BY <1>3, <2>1 DEF Upto
<1>5. ASSUME UNCHANGED <<sent, frame>>, tcp' = tcp \/ tcp' \notin {"check", "write"}
      PROVE  Upto <= Upto'
  BY <1>1, <1>2, <1>5 DEF Upto
<1>6. CASE ReadFrame
  <2>1. PICK c \in {0} \cup sent + 1 .. MaxCounter :
          frame' = c /\ sent' = (IF c = 0 THEN sent ELSE c)
    BY <1>6 DEF ReadFrame
  <2>2. tcp' = "check" /\ tcp = "read"
    BY <1>6 DEF ReadFrame, At
  <2>3. Upto <= Upto'
    BY <1>1, <2>1, <2>2 DEF Upto
  <2> QED  BY <1>2, <1>4, <2>3
<1>7. CASE InSync
  <2>1. Upto <= Upto'
    BY <1>1, <1>7 DEF InSync, At, Upto
  <2> QED  BY <1>2, <1>4, <2>1
<1>8. CASE Missed \/ Written \/ WriteSample
  <2>1. UNCHANGED <<sent, frame>> /\ (tcp' = tcp \/ tcp' \notin {"check", "write"})
    BY <1>8 DEF Missed, Written, WriteSample, At, stream
  <2> QED  BY <1>2, <1>4, <1>5, <2>1
<1>9. CASE InitTcp \/ Open \/ OpenFails \/ TestRunning \/ Accept \/ Select \/ ReadNothing \/ Deinit
           \/ WriterWorker \/ UNCHANGED vars
  <2>1. UNCHANGED <<sent, frame>> /\ (tcp' = tcp \/ tcp' \notin {"check", "write"})
    BY <1>9 DEF InitTcp, Open, OpenFails, TestRunning, Accept, Select, ReadNothing, Deinit, At,
                WriterWorker, Read, CopySample, PutData, vars, stream
  <2> QED  BY <1>2, <1>4, <1>5, <2>1
<1> QED  BY <1>6, <1>7, <1>8, <1>9 DEF Next, Worker

LEMMA NumberedUpTo ==
  ASSUME NEW s, NEW u \in Nat, NEW v \in Nat, u <= v, Numbered(s, u)
  PROVE  Numbered(s, v)
  BY DEF Numbered

LEMMA AppendKeeps ==
  ASSUME NEW S, NEW s \in Seq(S), NEW c \in Nat, NEW u \in Nat, c <= u,
         Numbered(s, u), Rising(s), \A k \in DOMAIN s : Counter(s[k]) < c
  PROVE  /\ Numbered(Append(s, Frame(c)), u) /\ Rising(Append(s, Frame(c)))
         /\ \A q : Below(s, q) /\ (\A k \in DOMAIN q : c < Counter(q[k]))
                   => Below(Append(s, Frame(c)), q)
         /\ \A q : Below(q, s) /\ (\A k \in DOMAIN q : Counter(q[k]) < c)
                   => Below(q, Append(s, Frame(c)))
<1>1. PICK n \in Nat : n = Len(s) /\ DOMAIN s = 1 .. n
  OBVIOUS
<1>2. PICK f : f = Frame(c) /\ Counter(f) = c
  BY FrameFirst
<1>3. PICK a : a = Append(s, f)
  OBVIOUS
<1>4. /\ DOMAIN a = 1 .. n + 1 /\ a[n + 1] = f /\ \A k \in 1 .. n : a[k] = s[k]
      /\ \A k \in 1 .. n + 1 : k \in 1 .. n \/ k = n + 1
  BY <1>1, <1>3
<1>5. ASSUME NEW k \in DOMAIN a PROVE Counter(a[k]) \in Nat /\ Counter(a[k]) <= u /\ a[k] = Frame(Counter(a[k]))
  BY <1>1, <1>2, <1>4, <1>5 DEF Numbered
<1>6. ASSUME NEW j \in DOMAIN a, NEW k \in DOMAIN a, j < k PROVE Counter(a[j]) < Counter(a[k])
  <2>1. j \in 1 .. n
    BY <1>1, <1>4, <1>6
  <2>2. CASE k \in 1 .. n
    BY <1>1, <1>4, <1>6, <2>1, <2>2 DEF Rising
  <2>3. CASE k = n + 1
    BY <1>1, <1>2, <1>4, <2>1, <2>3
  <2> QED  BY <1>4, <2>2, <2>3
<1>7. ASSUME NEW q, Below(s, q), \A k \in DOMAIN q : c < Counter(q[k]) PROVE Below(a, q)
  BY <1>1, <1>2, <1>4, <1>7 DEF Below
<1>8. ASSUME NEW q, Below(q, s), \A k \in DOMAIN q : Counter(q[k]) < c PROVE Below(q, a)
  BY <1>1, <1>2, <1>4, <1>8 DEF Below
<1> QED  BY <1>2, <1>3, <1>5, <1>6, <1>7, <1>8 DEF Numbered, Rising

LEMMA TailKeeps ==
  ASSUME NEW S, NEW s \in Seq(S), s # <<>>, NEW u \in Nat, Numbered(s, u), Rising(s)
  PROVE  /\ Numbered(Tail(s), u) /\ Rising(Tail(s))
         /\ 1 \in DOMAIN s /\ \A k \in DOMAIN Tail(s) : Counter(s[1]) < Counter(Tail(s)[k])
         /\ \A q : Below(q, s) => Below(q, Tail(s))
<1>1. PICK n \in Nat : n = Len(s) /\ DOMAIN s = 1 .. n /\ n > 0
  OBVIOUS
<1>2. PICK a : a = Tail(s)
  OBVIOUS
<1>3. DOMAIN a = 1 .. n - 1 /\ \A k \in 1 .. n - 1 : a[k] = s[k + 1]
  BY <1>1, <1>2
<1>4. 1 \in 1 .. n /\ \A k \in 1 .. n - 1 : k + 1 \in 1 .. n /\ 1 < k + 1
  BY <1>1
<1>5. \A j, k \in 1 .. n - 1 : j < k => j + 1 < k + 1
  BY <1>1
<1>6. Numbered(a, u)
  BY <1>1, <1>3, <1>4 DEF Numbered
<1>7. Rising(a)
  <2> SUFFICES ASSUME NEW j \in 1 .. n - 1, NEW k \in 1 .. n - 1, j < k
               PROVE  Counter(a[j]) < Counter(a[k])
    BY <1>3 DEF Rising
  <2>1. j + 1 \in DOMAIN s /\ k + 1 \in DOMAIN s /\ j + 1 < k + 1
    BY <1>1, <1>4, <1>5
  <2>2. a[j] = s[j + 1] /\ a[k] = s[k + 1]
    BY <1>3
  <2> QED  BY <2>1, <2>2 DEF Rising
<1>8. \A k \in DOMAIN a : Counter(s[1]) < Counter(a[k])
  BY <1>1, <1>3, <1>4 DEF Rising
<1>9. \A q : Below(q, s) => Below(q, a)
  BY <1>1, <1>3, <1>4 DEF Below
<1> QED  BY <1>1, <1>2, <1>4, <1>6, <1>7, <1>8, <1>9

LEMMA TakenStep ==
  ASSUME Typed, Typed', TakenInv, [Next]_vars
  PROVE  TakenInv'
<1>1. Upto \in Nat /\ Upto' \in Nat /\ Upto <= Upto'
  BY UptoRises
<1>2. /\ taken \in Seq(Frames) /\ Contents \in Seq(Frames)
      /\ Numbered(taken, Upto) /\ Numbered(Contents, Upto)
      /\ Rising(taken) /\ Rising(Contents) /\ Below(taken, Contents)
  BY ContentsIsSeq DEF TakenInv
<1>3. Numbered(taken, Upto') /\ Numbered(Contents, Upto')
  BY <1>1, <1>2, NumberedUpTo
<1>4. ASSUME taken' = taken, Contents' = Contents
      PROVE  TakenInv'
  <2>1. \A x, y : taken' = x /\ Contents' = y
        => (TakenInv' <=> /\ x \in Seq(Frames) /\ Numbered(x, Upto') /\ Numbered(y, Upto')
                          /\ Rising(x) /\ Rising(y) /\ Below(x, y))
    BY DEF TakenInv, Numbered, Rising, Below
  <2> QED  BY <1>2, <1>3, <1>4, <2>1
<1>5. CASE Written
  <2>1. /\ h > MAX /\ tcp = "write" /\ tcp' = "read" /\ wHead' = AdvanceWriteHead(wHead)
        /\ UNCHANGED <<buffer, rHead, stream, taken>>
    BY <1>5 DEF Written, At, reader
  <2>2. /\ RingOK /\ frame = sent /\ frame \in Nat /\ frame > 0 /\ MAX \in Nat /\ h \in Nat
        /\ \A n \in 1 .. MAX : n < h => buffer[wHead][n] = <<frame, n>>
        /\ buffer[wHead] \in Frames
    BY <2>1, MaxIsNat DEF Typed, RingOK
  <2>3. \A n \in 1 .. MAX : buffer[wHead][n] = <<frame, n>>
    BY <2>1, <2>2
  <2>4. buffer[wHead] = Frame(frame)
    BY <2>2, <2>3, WholeIsFrame
  <2>5. Contents' = <<>> \/ Contents' = Append(Contents, Frame(frame))
    BY <2>1, <2>2, <2>4, WriteAppends
  <2>6. Upto = frame - 1 /\ Upto' = frame
    BY <2>1, <2>2 DEF Upto, stream
  <2>7. PICK x, y, q : x = taken /\ y = Contents /\ q = Contents'
    OBVIOUS
  <2>8. /\ \A k \in DOMAIN x : Counter(x[k]) < frame
        /\ \A k \in DOMAIN y : Counter(y[k]) < frame
    BY <1>2, <2>2, <2>6, <2>7 DEF Numbered
  <2>9. Numbered(q, frame) /\ Rising(q) /\ Below(x, q)
    <3>1. CASE q = <<>>
      <4>1. DOMAIN q = {}
        BY <3>1
      <4> QED  BY <4>1 DEF Numbered, Rising, Below
    <3>2. CASE q = Append(y, Frame(frame))
      BY <1>2, <1>3, <2>2, <2>6, <2>7, <2>8, <3>2, AppendKeeps
    <3> QED  BY <2>5, <2>7, <3>1, <3>2
  <2>10. Numbered(x, frame) /\ Rising(x) /\ x \in Seq(Frames)
    BY <1>2, <1>3, <2>6, <2>7
  <2> QED  BY <2>1, <2>6, <2>7, <2>9, <2>10 DEF TakenInv, Numbered, Rising, Below
<1>6. CASE Read
  <2>1. /\ ~Empty /\ rHead' = AdvanceReadHead(rHead) /\ taken' = Append(taken, buffer[rHead])
        /\ UNCHANGED <<buffer, wHead, tcp, stream>>
    BY <1>6 DEF Read
  <2>2. Contents # <<>> /\ Head(Contents) = buffer[rHead] /\ Contents' = Tail(Contents)
    BY <2>1, ReadTakesHead DEF Typed
  <2>3. PICK x, y, u : x = taken /\ y = Contents /\ u = Upto /\ u = Upto'
    BY <2>1 DEF Upto, stream
  <2>4. /\ x \in Seq(Frames) /\ y \in Seq(Frames) /\ y # <<>> /\ u \in Nat
        /\ Numbered(x, u) /\ Numbered(y, u) /\ Rising(x) /\ Rising(y) /\ Below(x, y)
    BY <1>1, <1>2, <2>2, <2>3
  <2>5. /\ Numbered(Tail(y), u) /\ Rising(Tail(y)) /\ Below(x, Tail(y)) /\ 1 \in DOMAIN y
        /\ \A k \in DOMAIN Tail(y) : Counter(y[1]) < Counter(Tail(y)[k])
    BY <2>4, TailKeeps
  <2>6. PICK c \in Nat : y[1] = Frame(c) /\ Counter(y[1]) = c /\ c <= u
    BY <2>4, <2>5 DEF Numbered
  <2>7. \A k \in DOMAIN x : Counter(x[k]) < c
    BY <2>4, <2>5, <2>6 DEF Below
  <2>8. /\ Numbered(Append(x, Frame(c)), u) /\ Rising(Append(x, Frame(c)))
        /\ Below(Append(x, Frame(c)), Tail(y))
    BY <2>4, <2>5, <2>6, <2>7, AppendKeeps
  <2>9. buffer[rHead] = Frame(c) /\ Frame(c) \in Frames
    <3>1. Head(y) = y[1]
      BY <2>4, <2>5
    <3> QED  BY <2>2, <2>3, <2>6, <3>1, FrameIsTyped
  <2>10. Append(x, Frame(c)) \in Seq(Frames)
    BY <2>4, <2>9
  <2>11. PICK a, b : a = taken' /\ a = Append(x, Frame(c)) /\ b = Contents' /\ b = Tail(y)
    BY <2>1, <2>2, <2>3, <2>9
  <2>12. /\ a \in Seq(Frames) /\ Numbered(a, u) /\ Rising(a) /\ Below(a, b)
         /\ Numbered(b, u) /\ Rising(b)
    BY <2>5, <2>8, <2>10, <2>11
  <2> QED  BY <2>3, <2>11, <2>12 DEF TakenInv, Numbered, Rising, Below
<1>7. ASSUME UNCHANGED ring PROVE Contents' = Contents
  BY <1>7 DEF ring, Contents, Unread, SlotOf
<1>8. CASE WriteSample
  <2>1. /\ UNCHANGED <<rHead, wHead, taken>> /\ buffer' = [buffer EXCEPT ![wHead][h] = <<frame, h>>]
    BY <1>8 DEF WriteSample, reader
  <2>2. Contents' = Contents
    BY <2>1, WritingUnseen DEF Typed
  <2> QED  BY <1>4, <2>1, <2>2
<1>9. CASE InitTcp \/ Open \/ OpenFails \/ TestRunning \/ Accept \/ Select \/ ReadFrame
           \/ ReadNothing \/ Missed \/ InSync \/ CopySample \/ PutData \/ Deinit \/ UNCHANGED vars
  <2>1. UNCHANGED ring /\ taken' = taken
    BY <1>9 DEF InitTcp, Open, OpenFails, TestRunning, Accept, Select, ReadFrame, ReadNothing,
                Missed, InSync, CopySample, PutData, Deinit, vars, reader
  <2> QED  BY <1>4, <1>7, <2>1
<1> QED  BY <1>5, <1>6, <1>8, <1>9 DEF Next, Worker, WriterWorker

(* What read() points the Writer at is a whole frame when it does, and no frame
   is found twice or after a later one, however often the worker laps the
   Writer: only what the Writer does with the slot afterwards is unprotected
   (ring-buffer.h:48-67, tcp-server.cpp:166-185).                            *)
THEOREM ReadFindsWholeFrames == Spec => []TakenInOrder
<1>1. Init => TakenInv
  <2> SUFFICES ASSUME Init PROVE TakenInv
    OBVIOUS
  <2>1. Unread = 0 /\ taken = <<>>
    BY DEF Init, Heads, Unread
  <2>2. DOMAIN Contents = {} /\ DOMAIN taken = {} /\ taken \in Seq(Frames)
    BY <2>1 DEF Contents
  <2> QED  BY <2>2 DEF TakenInv, Numbered, Rising, Below
<1>2. Typed /\ Typed' /\ TakenInv /\ [Next]_vars => TakenInv'
  BY TakenStep
<1>3. Typed /\ TakenInv => TakenInOrder
  <2> SUFFICES ASSUME Typed, TakenInv PROVE TakenInOrder
    OBVIOUS
  <2>1. Upto \in Nat /\ Upto <= sent /\ sent \in Nat
    BY UptoIsInt, TcpAssumption DEF Typed
  <2> QED  BY <2>1, NumberedUpTo DEF TakenInv, TakenInOrder
<1> QED  BY TypedInit, TypedStep, <1>1, <1>2, <1>3, PTL DEF Spec

-----------------------------------------------------------------------------
(* What a list is made of: its n-th sample is of the frame read() found, or of a
   later one if the slot was written to while it was in use.                 *)
IsOf(x, n, f, u, late) == \E c \in Counter(f) .. u : x = <<c, n>> /\ (late \/ c = Counter(f))

GivenOf(g, f, u, late) ==
  \A e \in 1 .. Channels, j \in 1 .. SmplPerChan :
    IsOf(g[e][j], MAX - SmplPerChan + j, f, u, late)

Latest == taken[Len(taken)]

Follows ==
  /\ Len(taken) = Len(given) + (IF writer = "copy" THEN 1 ELSE 0)
  /\ \A k \in 1 .. Len(given) : GivenOf(given[k], taken[k], sent, clobbered)
  /\ writer = "copy" =>
       /\ Len(list) <= MAX
       /\ \A n \in 1 .. MAX : IsOf(buffer[t][n], n, Latest, sent, clobbered)
       /\ \A n \in 1 .. Len(list) : IsOf(list[n], n, Latest, sent, clobbered)

LEMMA IsOfLater ==
  ASSUME NEW x, NEW n, NEW f, Counter(f) \in Nat,
         NEW u \in Nat, NEW v \in Nat, u <= v,
         NEW a \in BOOLEAN, NEW b \in BOOLEAN, a => b, IsOf(x, n, f, u, a)
  PROVE  IsOf(x, n, f, v, b)
<1>1. PICK c \in Counter(f) .. u : x = <<c, n>> /\ (a \/ c = Counter(f))
  BY DEF IsOf
<1>2. c \in Counter(f) .. v
  BY <1>1
<1> QED  BY <1>1, <1>2 DEF IsOf

LEMMA TakenCounters ==
  ASSUME Typed, TakenInv
  PROVE  /\ Len(taken) \in Nat /\ DOMAIN taken = 1 .. Len(taken)
         /\ \A k \in 1 .. Len(taken) : Counter(taken[k]) \in Nat /\ Counter(taken[k]) <= Upto
<1>1. taken \in Seq(Frames) /\ Numbered(taken, Upto)
  BY DEF TakenInv
<1>2. Len(taken) \in Nat /\ DOMAIN taken = 1 .. Len(taken)
  BY <1>1
<1> QED  BY <1>1, <1>2 DEF Numbered

(* A step that leaves the lists and the slot in use alone.                   *)
LEMMA FollowsKept ==
  ASSUME Typed, Typed', TakenInv, Follows, sent <= sent', clobbered => clobbered',
         UNCHANGED <<given, taken, list, t, writer>>,
         writer = "copy" =>
           \A n \in 1 .. MAX : IsOf(buffer'[t][n], n, Latest, sent', clobbered')
  PROVE  Follows'
<1>1. /\ sent \in Nat /\ sent' \in Nat /\ clobbered \in BOOLEAN /\ clobbered' \in BOOLEAN
  BY MaxIsNat DEF Typed
<1>2. /\ Len(given) \in Nat /\ Len(taken) \in Nat /\ MAX \in Nat
      /\ \A k \in 1 .. Len(taken) : Counter(taken[k]) \in Nat
      /\ list \in Seq(Samples) /\ Len(list) \in Nat
  BY TakenCounters, MaxIsNat DEF Typed
<1>3. ASSUME NEW k \in 1 .. Len(given) PROVE GivenOf(given[k], taken[k], sent', clobbered')
  <2>1. k \in 1 .. Len(taken)
    BY <1>2 DEF Follows
  <2>2. Counter(taken[k]) \in Nat
    BY <1>2, <2>1
  <2>3. GivenOf(given[k], taken[k], sent, clobbered)
    BY DEF Follows
  <2> QED  BY <1>1, <2>2, <2>3, IsOfLater DEF GivenOf
<1>4. ASSUME writer = "copy", NEW n \in 1 .. Len(list)
      PROVE  IsOf(list[n], n, Latest, sent', clobbered')
  <2>1. Len(taken) \in 1 .. Len(taken)
    BY <1>2, <1>4 DEF Follows
  <2>2. Counter(Latest) \in Nat
    BY <1>2, <2>1 DEF Latest
  <2>3. IsOf(list[n], n, Latest, sent, clobbered)
    BY <1>4 DEF Follows
  <2> QED  BY <1>1, <2>2, <2>3, IsOfLater
<1>5. Latest' = Latest
  BY DEF Latest
<1> QED  BY <1>3, <1>4, <1>5 DEF Follows

LEMMA FollowsStep ==
  ASSUME Typed, Typed', TakenInv, Follows, [Next]_vars
  PROVE  Follows'
<1>1. /\ sent \in Nat /\ sent' \in Nat /\ clobbered \in BOOLEAN /\ clobbered' \in BOOLEAN
      /\ Upto \in Nat /\ Upto <= sent /\ MAX \in Nat /\ MAX >= 1 /\ SmplPerChan \in Nat
      /\ MAX - SmplPerChan \in Nat /\ t \in Slots
  BY MaxIsNat, UptoIsInt DEF Typed
<1>2. /\ Len(taken) \in Nat /\ DOMAIN taken = 1 .. Len(taken)
      /\ Len(given) \in Nat /\ DOMAIN given = 1 .. Len(given)
      /\ taken \in Seq(Frames) /\ list \in Seq(Samples) /\ Len(list) \in Nat
      /\ \A k \in 1 .. Len(taken) : Counter(taken[k]) \in Nat /\ Counter(taken[k]) <= Upto
  BY TakenCounters DEF Typed, TakenInv
<1>3. ASSUME writer = "copy"
      PROVE  /\ Len(taken) = Len(given) + 1 /\ Len(taken) \in 1 .. Len(taken)
             /\ Counter(Latest) \in Nat /\ Counter(Latest) <= Upto
             /\ \A n \in 1 .. MAX : IsOf(buffer[t][n], n, Latest, sent, clobbered)
  <2>1. Len(taken) = Len(given) + 1
    BY <1>3 DEF Follows
  <2>2. Len(taken) \in 1 .. Len(taken)
    BY <1>2, <2>1
  <2> QED  BY <1>2, <1>3, <2>1, <2>2 DEF Latest, Follows
<1>4. CASE InitTcp \/ OpenFails \/ TestRunning \/ Accept \/ Select \/ ReadFrame \/ ReadNothing
           \/ Missed \/ InSync \/ Written \/ Deinit \/ UNCHANGED vars
  <2>1. UNCHANGED <<buffer, reader, clobbered>>
    BY <1>4 DEF InitTcp, OpenFails, TestRunning, Accept, Select, ReadFrame, ReadNothing, Missed,
                InSync, Written, Deinit, vars, ring
  <2>2. sent <= sent'
    <3>1. CASE ReadFrame
      <4>1. PICK c \in {0} \cup sent + 1 .. MaxCounter : sent' = (IF c = 0 THEN sent ELSE c)
        BY <3>1 DEF ReadFrame
      <4> QED  BY <1>1, <4>1, MaxIsNat
    <3>2. CASE ~ReadFrame
      <4>1. sent' = sent
        BY <1>4, <3>2 DEF InitTcp, OpenFails, TestRunning, Accept, Select, ReadNothing, Missed,
                          InSync, Written, Deinit, vars, stream
      <4> QED  BY <1>1, <4>1
    <3> QED  BY <3>1, <3>2
  <2>3. ASSUME writer = "copy", NEW n \in 1 .. MAX
        PROVE  IsOf(buffer'[t][n], n, Latest, sent', clobbered')
    <3>1. IsOf(buffer[t][n], n, Latest, sent, clobbered) /\ Counter(Latest) \in Nat
      BY <1>3, <2>3
    <3>2. IsOf(buffer[t][n], n, Latest, sent', clobbered')
      BY <1>1, <2>1, <2>2, <3>1, IsOfLater
    <3> QED  BY <2>1, <3>2
  <2> QED  BY <2>1, <2>2, <2>3, FollowsKept DEF reader
<1>5. CASE Open
  <2>1. writer' # "copy" /\ UNCHANGED <<sent, given, taken, clobbered>>
    BY <1>5 DEF Open, stream
  <2>2. writer # "copy" => Follows'
    BY <2>1 DEF Follows
  <2>3. writer # "copy"
    BY <1>5 DEF Open, At, Typed
  <2> QED  BY <2>2, <2>3
<1>6. CASE WriteSample
  <2>1. /\ h <= MAX /\ tcp = "write" /\ buffer' = [buffer EXCEPT ![wHead][h] = <<frame, h>>]
        /\ clobbered' = (clobbered \/ (writer = "copy" /\ t = wHead))
        /\ UNCHANGED <<sent, reader>>
    BY <1>6 DEF WriteSample, At
  <2>2. frame = sent /\ frame > 0 /\ h \in 1 .. MAX /\ wHead \in Slots
    BY <1>1, <2>1 DEF Typed, RingOK
  <2>3. Upto = frame - 1
    BY <2>1, <2>2 DEF Upto
  <2>4. /\ \A r \in Slots : r # wHead => buffer'[r] = buffer[r]
        /\ buffer'[wHead][h] = <<frame, h>>
        /\ \A n \in 1 .. MAX : n # h => buffer'[wHead][n] = buffer[wHead][n]
    <3> DEFINE f == buffer[wHead]
               x == <<frame, h>>
               g == [f EXCEPT ![h] = x]
    <3>1. DOMAIN f = 1 .. MAX
      BY <2>2 DEF Typed, Frames
    <3>2. buffer' = [buffer EXCEPT ![wHead] = g]
      BY <2>1
    <3> HIDE DEF f, x
    <3>3. g[h] = x /\ \A n \in 1 .. MAX : n # h => g[n] = f[n]
      BY <2>2, <3>1
    <3> HIDE DEF g
    <3>4. buffer'[wHead] = g /\ \A r \in Slots : r # wHead => buffer'[r] = buffer[r]
      BY <2>2, <3>2 DEF Typed
    <3> QED  BY <3>3, <3>4 DEF f, x
  <2>5. ASSUME writer = "copy", NEW n \in 1 .. MAX
        PROVE  IsOf(buffer'[t][n], n, Latest, sent', clobbered')
    <3>1. /\ IsOf(buffer[t][n], n, Latest, sent, clobbered)
          /\ Counter(Latest) \in Nat /\ Counter(Latest) <= Upto
      BY <1>3, <2>5
    <3>2. IsOf(buffer[t][n], n, Latest, sent', clobbered')
      <4>1. sent <= sent' /\ (clobbered => clobbered')
        BY <1>1, <2>1
      <4> QED  BY <1>1, <3>1, <4>1, IsOfLater
    <3>3. CASE t = wHead /\ n = h
      <4>1. buffer'[t][n] = <<frame, n>>
        BY <2>4, <3>3
      <4>2. clobbered'
        BY <2>1, <2>5, <3>3
      <4>3. sent' = sent
        BY <2>1
      <4>4. frame \in Counter(Latest) .. sent'
        BY <1>1, <2>2, <2>3, <3>1, <4>3
      <4> QED  BY <4>1, <4>2, <4>4 DEF IsOf
    <3>4. CASE ~(t = wHead /\ n = h)
      <4>1. buffer'[t][n] = buffer[t][n]
        BY <1>1, <2>5, <2>4, <3>4
      <4> QED  BY <3>2, <4>1
    <3> QED  BY <3>3, <3>4
  <2>6. sent <= sent' /\ (clobbered => clobbered') /\ UNCHANGED reader
    BY <1>1, <2>1
  <2> QED  BY <2>5, <2>6, FollowsKept DEF reader
<1>7. CASE Read
  <2>1. /\ writer = "idle" /\ writer' = "copy" /\ ~Empty /\ t' = rHead /\ list' = <<>>
        /\ taken' = Append(taken, buffer[rHead]) /\ rHead' = AdvanceReadHead(rHead)
        /\ UNCHANGED <<buffer, wHead, sent, given, clobbered>>
    BY <1>7 DEF Read, stream
  <2>2. Len(taken) = Len(given)
    BY <1>2, <2>1 DEF Follows
  <2>3. /\ Len(taken') = Len(taken) + 1 /\ taken'[Len(taken) + 1] = buffer[rHead]
        /\ \A k \in 1 .. Len(taken) : taken'[k] = taken[k]
    BY <1>2, <2>1
  <2>4. Latest' = buffer[rHead]
    BY <2>3 DEF Latest
  <2>5. PICK c \in Nat : buffer[rHead] = Frame(c) /\ c <= Upto
    <3>1. Contents # <<>> /\ Head(Contents) = buffer[rHead]
      BY <2>1, ReadTakesHead DEF Typed
    <3>2. Contents \in Seq(Frames) /\ Numbered(Contents, Upto)
      BY ContentsIsSeq DEF TakenInv
    <3>3. 1 \in DOMAIN Contents /\ Head(Contents) = Contents[1]
      <4>1. PICK q \in Seq(Frames) : q = Contents
        BY <3>2
      <4>2. q # <<>> => 1 \in DOMAIN q /\ Head(q) = q[1]
        OBVIOUS
      <4> QED  BY <3>1, <4>1, <4>2
    <3> QED  BY <3>1, <3>2, <3>3 DEF Numbered
  <2>6. Counter(Latest') = c /\ c \in c .. sent'
    BY <1>1, <2>1, <2>4, <2>5, FrameFirst
  <2>7. ASSUME NEW n \in 1 .. MAX
        PROVE  IsOf(buffer'[t'][n], n, Latest', sent', clobbered')
    <3>1. Frame(c)[n] = <<c, n>>
      BY DEF Frame
    <3> QED  BY <2>1, <2>5, <2>6, <3>1 DEF IsOf
  <2>8. Len(list') = 0 /\ 0 <= MAX
    BY <1>1, <2>1
  <2>9. \A k \in 1 .. Len(given) : GivenOf(given'[k], taken'[k], sent', clobbered')
    BY <2>1, <2>2, <2>3 DEF Follows
  <2>10. \A n \in 1 .. Len(list') : FALSE
    BY <2>8
  <2> QED  BY <2>1, <2>2, <2>3, <2>7, <2>8, <2>9, <2>10 DEF Follows
<1>8. CASE CopySample
  <2>1. /\ writer = "copy" /\ Len(list) < MAX /\ list' = Append(list, buffer[t][Len(list) + 1])
        /\ UNCHANGED <<buffer, sent, writer, t, given, taken, clobbered>>
    BY <1>8 DEF CopySample, stream, ring
  <2>2. Latest' = Latest
    BY <2>1 DEF Latest
  <2>3. Len(list) + 1 \in 1 .. MAX
    BY <1>1, <1>2, <2>1
  <2>4. IsOf(buffer[t][Len(list) + 1], Len(list) + 1, Latest, sent, clobbered)
    BY <1>3, <2>1, <2>3
  <2>5. /\ Len(list') = Len(list) + 1 /\ list'[Len(list) + 1] = buffer[t][Len(list) + 1]
        /\ \A n \in 1 .. Len(list) : list'[n] = list[n]
    <3> DEFINE x == buffer[t][Len(list) + 1]
    <3> HIDE DEF x
    <3>1. list' = Append(list, x)
      BY <2>1 DEF x
    <3>2. Len(list') = Len(list) + 1 /\ list'[Len(list) + 1] = x
          /\ \A n \in 1 .. Len(list) : list'[n] = list[n]
      BY <1>2, <3>1
    <3> QED  BY <3>2 DEF x
  <2>6. ASSUME NEW n \in 1 .. Len(list') PROVE IsOf(list'[n], n, Latest, sent, clobbered)
    <3>1. n \in 1 .. Len(list) \/ n = Len(list) + 1
      BY <1>2, <2>5
    <3>2. ASSUME NEW m \in 1 .. Len(list) PROVE IsOf(list[m], m, Latest, sent, clobbered)
      BY <2>1 DEF Follows
    <3> QED  BY <2>4, <2>5, <3>1, <3>2
  <2>7. Len(list') <= MAX
    BY <1>1, <1>2, <2>1, <2>5
  <2> QED  BY <2>1, <2>2, <2>6, <2>7 DEF Follows
<1>9. CASE PutData
  <2>1. /\ writer = "copy" /\ Len(list) = MAX /\ writer' = "idle"
        /\ given' = Append(given, Shown(list))
        /\ UNCHANGED <<sent, taken, clobbered>>
    BY <1>9 DEF PutData, stream
  <2>2. /\ Len(given') = Len(given) + 1 /\ given'[Len(given) + 1] = Shown(list)
        /\ \A k \in 1 .. Len(given) : given'[k] = given[k]
    <3> DEFINE x == Shown(list)
    <3> HIDE DEF x
    <3>1. given \in Seq(Lists) /\ given' = Append(given, x)
      BY <2>1 DEF Typed, x
    <3>2. /\ Len(given') = Len(given) + 1 /\ given'[Len(given) + 1] = x
          /\ \A k \in 1 .. Len(given) : given'[k] = given[k]
      BY <3>1
    <3> QED  BY <3>2 DEF x
  <2>3. Len(taken) = Len(given) + 1
    BY <1>3, <2>1
  <2>4. GivenOf(Shown(list), Latest, sent, clobbered)
    <3> SUFFICES ASSUME NEW e \in 1 .. Channels, NEW j \in 1 .. SmplPerChan
                 PROVE  IsOf(Shown(list)[e][j], MAX - SmplPerChan + j, Latest, sent, clobbered)
      BY DEF GivenOf
    <3>1. Shown(list)[e][j] = list[MAX - SmplPerChan + j]
      BY DEF Shown
    <3>2. MAX - SmplPerChan + j \in 1 .. Len(list)
      BY <1>1, <2>1
    <3>3. \A n \in 1 .. Len(list) : IsOf(list[n], n, Latest, sent, clobbered)
      BY <2>1 DEF Follows
    <3> QED  BY <3>1, <3>2, <3>3
  <2>5. ASSUME NEW k \in 1 .. Len(given') PROVE GivenOf(given'[k], taken[k], sent, clobbered)
    <3>1. k \in 1 .. Len(given) \/ k = Len(given) + 1
      BY <1>2, <2>2
    <3>2. ASSUME NEW m \in 1 .. Len(given) PROVE GivenOf(given[m], taken[m], sent, clobbered)
      BY DEF Follows
    <3> QED  BY <2>2, <2>3, <2>4, <3>1, <3>2 DEF Latest
  <2>6. Len(taken) = Len(given')
    BY <2>2, <2>3
  <2> QED  BY <2>1, <2>5, <2>6 DEF Follows
<1> QED  BY <1>4, <1>5, <1>6, <1>7, <1>8, <1>9 DEF Next, Worker, WriterWorker

FollowInv == Typed /\ TakenInv /\ Follows

LEMMA AlwaysFollows == Spec => []FollowInv
<1>1. Init => FollowInv
  <2> SUFFICES ASSUME Init PROVE FollowInv
    OBVIOUS
  <2>1. Unread = 0 /\ taken = <<>> /\ given = <<>> /\ writer = "none"
    BY DEF Init, Heads, Unread
  <2>2. DOMAIN Contents = {} /\ DOMAIN taken = {} /\ taken \in Seq(Frames)
    BY <2>1 DEF Contents
  <2>3. TakenInv
    BY <2>2 DEF TakenInv, Numbered, Rising, Below
  <2>4. Follows
    BY <2>1 DEF Follows
  <2> QED  BY <2>3, <2>4, TypedInit DEF FollowInv
<1>2. FollowInv /\ [Next]_vars => FollowInv'
  BY TypedStep, TakenStep, FollowsStep DEF FollowInv
<1> QED  BY <1>1, <1>2, PTL DEF Spec

(* However far the ring is overrun, the k-th list repeats the samples of one
   channel, the last, for every entry: those of the k-th frame read() found, or
   of later frames where the worker wrote to the slot while the Writer copied
   from it. No frame is found twice or overtaken. For rings of any size and
   lists of any channels and samples (tcp-server.cpp:166-185).               *)
THEOREM ListsFollowTheRing == Spec => []ListsFollowFrames
<1>1. FollowInv => ListsFollowFrames
  <2> SUFFICES ASSUME FollowInv PROVE ListsFollowFrames
    OBVIOUS
  <2>1. Rising(taken)
    BY DEF FollowInv, TakenInv
  <2>2. ASSUME NEW k \in DOMAIN given, NEW e \in 1 .. Channels, NEW j \in 1 .. SmplPerChan
        PROVE  \E c \in Counter(taken[k]) .. sent :
                 /\ given[k][e][j] = Frame(c)[MAX - SmplPerChan + j]
                 /\ clobbered \/ c = Counter(taken[k])
    <3>1. k \in 1 .. Len(given)
      BY DEF FollowInv, Typed
    <3>2. PICK c \in Counter(taken[k]) .. sent :
            /\ given[k][e][j] = <<c, MAX - SmplPerChan + j>>
            /\ clobbered \/ c = Counter(taken[k])
      BY <3>1 DEF FollowInv, Follows, GivenOf, IsOf
    <3>3. MAX - SmplPerChan + j \in 1 .. MAX
      BY MaxIsNat
    <3>4. Frame(c)[MAX - SmplPerChan + j] = <<c, MAX - SmplPerChan + j>>
      BY <3>3 DEF Frame
    <3> QED  BY <3>2, <3>4
  <2> QED  BY <2>1, <2>2 DEF ListsFollowFrames, Rising
<1> QED  BY <1>1, AlwaysFollows, PTL

-----------------------------------------------------------------------------
(* The slot in use is the one behind the reader's head, the last that a write
   comes to: it is written to only when the ring holds all it can.           *)
LEMMA BehindStep ==
  ASSUME Typed, Behind, [Next]_vars
  PROVE  Behind' /\ (~clobbered /\ clobbered' => ~RoomLeft)
<1>1. CASE Read
  BY <1>1 DEF Read, Behind
<1>2. CASE WriteSample
  <2>1. /\ UNCHANGED <<rHead, wHead, reader>> /\ RingOK
        /\ clobbered' = (clobbered \/ (writer = "copy" /\ t = wHead))
    BY <1>2 DEF WriteSample, Typed
  <2>2. Behind'
    BY <2>1 DEF Behind, reader, AdvanceReadHead
  <2>3. ASSUME ~clobbered, clobbered' PROVE Unread = Size - 1
    <3>1. rHead = AdvanceReadHead(wHead)
      BY <2>1, <2>3 DEF Behind
    <3> QED  BY <2>1, <3>1, SizeIsNat DEF RingOK, Slots, AdvanceReadHead, Unread
  <2>4. Unread = Size - 1 => ~RoomLeft
    BY SizeIsNat DEF RoomLeft
  <2> QED  BY <2>2, <2>3, <2>4
<1>3. CASE Written
  BY <1>3 DEF Written, reader, Behind, AdvanceReadHead
<1>4. CASE PutData
  BY <1>4 DEF PutData, Behind
<1>5. CASE InitTcp \/ Open \/ OpenFails \/ TestRunning \/ Accept \/ Select \/ ReadFrame
           \/ ReadNothing \/ Missed \/ InSync \/ CopySample \/ Deinit \/ UNCHANGED vars
  <2>1. UNCHANGED <<rHead, t, clobbered>> /\ (writer' = writer \/ writer' = "idle")
    BY <1>5 DEF InitTcp, Open, OpenFails, TestRunning, Accept, Select, ReadFrame, ReadNothing,
                Missed, InSync, CopySample, Deinit, vars, reader, ring
  <2> QED  BY <2>1 DEF Behind, AdvanceReadHead
<1> QED  BY <1>1, <1>2, <1>3, <1>4, <1>5 DEF Next, Worker, WriterWorker

(* While the Writer keeps one slot ahead of a full ring, sharing its slots
   without a lock costs nothing: every list is the frame found, with the last
   channel's samples for each of its channels as put_data shows them
   (tcp-server.cpp:166-185).                                                 *)
THEOREM ListsWholeWhileRoom == Spec /\ []RoomLeft => []Exact
<1>1. Init => Behind /\ ~clobbered
  BY DEF Init, Behind
<1>2. Typed /\ Behind /\ [Next]_vars => Behind' /\ (~clobbered /\ clobbered' => ~RoomLeft)
  BY BehindStep
<1>3. FollowInv /\ ~clobbered => Exact
  <2> SUFFICES ASSUME FollowInv, ~clobbered, NEW k \in DOMAIN given,
                      NEW e \in 1 .. Channels, NEW j \in 1 .. SmplPerChan
               PROVE  given[k][e][j] = Shown(taken[k])[e][j]
    BY DEF Exact
  <2>1. k \in 1 .. Len(given) /\ k \in DOMAIN taken /\ Len(given) \in Nat
    <3>1. DOMAIN given = 1 .. Len(given) /\ Len(given) \in Nat
      BY DEF FollowInv, Typed
    <3>2. Len(taken) \in Nat /\ DOMAIN taken = 1 .. Len(taken) /\ Len(given) <= Len(taken)
      BY <3>1, TakenCounters DEF FollowInv, Follows
    <3> QED  BY <3>1, <3>2
  <2>2. given[k][e][j] = <<Counter(taken[k]), MAX - SmplPerChan + j>>
    BY <2>1 DEF FollowInv, Follows, GivenOf, IsOf
  <2>3. taken[k] = Frame(Counter(taken[k]))
    BY <2>1 DEF FollowInv, TakenInv, Numbered
  <2>4. MAX - SmplPerChan + j \in 1 .. MAX
    BY MaxIsNat
  <2>5. Shown(taken[k])[e][j] = taken[k][MAX - SmplPerChan + j]
    BY DEF Shown
  <2>6. Frame(Counter(taken[k]))[MAX - SmplPerChan + j]
          = <<Counter(taken[k]), MAX - SmplPerChan + j>>
    BY <2>4 DEF Frame
  <2> QED  BY <2>2, <2>3, <2>5, <2>6
<1>4. Spec => []Typed
  BY TypedInit, TypedStep, PTL DEF Spec
<1>5. Spec => []Behind
  BY <1>1, <1>2, <1>4, PTL DEF Spec
<1>6. RoomLeft /\ Typed /\ Behind /\ ~clobbered /\ [Next]_vars => ~clobbered'
  BY <1>2
<1>7. Spec /\ []RoomLeft => []~clobbered
  BY <1>1, <1>4, <1>5, <1>6, PTL DEF Spec
<1> QED  BY <1>3, <1>7, AlwaysFollows, PTL

-----------------------------------------------------------------------------
(* As TcpServer::init starts the two threads, bare QThreads of which neither
   enters its worker (tcp-server.cpp:138-144, 208-213): nothing a client sends
   is read, no list is ever passed on, and the server, once it is started, can
   only end the process by aborting it.                                      *)
THEOREM UnboundServesNothing == Spec => []Unserved
<1>1. Init => Unserved
  BY DEF Init, Heads, Unserved, Empty
<1>2. Unserved /\ [Next]_vars => Unserved'
  <2> SUFFICES ASSUME Unserved, [Next]_vars PROVE Unserved'
    OBVIOUS
  <2>1. bound' = bound
    BY DEF Next, Worker, WriterWorker, InitTcp, Open, OpenFails, TestRunning, Accept, Select,
           ReadFrame, ReadNothing, Missed, InSync, WriteSample, Written, Read, CopySample, PutData,
           Deinit, vars
  <2> SUFFICES ASSUME ~bound PROVE Unserved'
    BY <2>1 DEF Unserved
  <2>2. /\ tcp \in {"none", "loop"} /\ writer = "none" /\ app \in {"up", "aborted"}
        /\ paket = 0 /\ sent = 0 /\ Empty /\ given = <<>> /\ taken = <<>>
    BY DEF Unserved
  <2>3. ~Worker /\ ~WriterWorker
    BY <2>2 DEF Worker, WriterWorker, Open, OpenFails, TestRunning, Accept, Select, ReadFrame,
       ReadNothing, Missed, InSync, WriteSample, Written, Read, CopySample, PutData, At
  <2>4. CASE InitTcp \/ UNCHANGED vars
    BY <2>2, <2>4 DEF InitTcp, vars, ring, stream, reader, Unserved, Empty
  <2>5. CASE Deinit
    BY <2>2, <2>5 DEF Deinit, ring, stream, reader, Unserved, Empty
  <2> QED  BY <2>3, <2>4, <2>5 DEF Next
<1> QED  BY <1>1, <1>2, PTL DEF Spec
=============================================================================
