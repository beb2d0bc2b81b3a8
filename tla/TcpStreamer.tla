----------------------------- MODULE TcpStreamer -----------------------------
(* The streamer's TCP transport (udp-streamer/tcp-server.cpp): TcpServer's
   worker reads one client's frames into a ring, its Writer takes them out and
   passes each as a list to put_data. The worker writes under m_lock, the
   Writer reads under its own lock, so that neither keeps the other out, and
   the Writer goes on using the slot read() pointed it at. Each mutex has one
   user and is left out; a frame is written and used sample by sample, a sample
   being the frame's counter and its place in the frame.

   Both threads are QThreads that do not override run, and nothing calls the
   worker functions: bound is FALSE for the code as it is.                   *)
EXTENDS RingBuffer

CONSTANTS Bindings,   \* FALSE: the threads as they are; TRUE: they run worker
          Channels,   \* m_channels, the entries of a list
          SmplPerChan,  \* m_smplPerChan, an entry's samples; smpl has room for them
          MaxCounter  \* bound: the highest counter a client sends

ASSUME TcpAssumption ==
  /\ Bindings \subseteq BOOLEAN /\ MaxCounter \in Nat
  /\ Channels \in Nat \ {0} /\ SmplPerChan \in Nat \ {0}

VARIABLES
  bound,      \* the threads run the worker functions
  app,        \* "up", or how the process ended: "aborted", "crashed", "freed"
  running,    \* TcpServer.m_isRunning
  tcp,        \* where TcpServer::worker is
  paket,      \* m_conn_info.paketCounter
  sent,       \* the client's last counter
  frame,      \* worker's frame: its counter
  h,          \* the sample being written into the ring
  writer,     \* where Writer::worker is
  t,          \* Writer::worker's t: the slot read() returned
  list,       \* the samples copied so far, each entry's into smpl
  given,      \* history: the lists passed to put_data
  taken,      \* history: the frames read() returned
  clobbered   \* history: the slot in use was written to

reader  == <<writer, t, list, given, taken>>
stream  == <<paket, sent, frame, h>>
vars == <<ring, bound, app, running, tcp, stream, reader, clobbered>>

MAX == Channels * SmplPerChan

Frame(c) == [n \in 1 .. MAX |-> <<c, n>>]

Counter(f) == f[1][1]

Init ==
  /\ buffer = [s \in Slots |-> Frame(0)] /\ Heads
  /\ bound \in Bindings /\ app = "up" /\ running = FALSE /\ tcp = "none"
  /\ paket = 0 /\ sent = 0 /\ frame = 0 /\ h = 1
  /\ writer = "none" /\ t = 0 /\ list = <<>> /\ given = <<>> /\ taken = <<>>
  /\ clobbered = FALSE

-----------------------------------------------------------------------------
(* TcpServer::init: start() enters QThread's own event loop.                 *)
InitTcp ==
  /\ tcp = "none" /\ app = "up"
  /\ running' = TRUE /\ tcp' = (IF bound THEN "open" ELSE "loop")
  /\ UNCHANGED <<ring, bound, app, stream, reader, clobbered>>

At(place, after) == app = "up" /\ tcp = place /\ tcp' = after

(* socket, bind and listen, then Writer::init; or one of them fails.         *)
Open ==
  /\ At("open", "test") /\ writer' = "idle"
  /\ UNCHANGED <<ring, bound, app, running, stream, t, list, given, taken, clobbered>>

OpenFails ==
  /\ At("open", "ended")
  /\ UNCHANGED <<ring, bound, app, running, stream, reader, clobbered>>

TestRunning ==
  /\ At("test", IF running THEN "accept" ELSE "ended")
  /\ UNCHANGED <<ring, bound, app, running, stream, reader, clobbered>>

(* A client, of which there is always another; or accept fails.              *)
Accept ==
  /\ At("accept", "select") \/ At("accept", "ended")
  /\ UNCHANGED <<ring, bound, app, running, stream, reader, clobbered>>

(* The client sent something; or select fails; or it waited five seconds, and
   the next one is accepted without closing this one.                        *)
Select ==
  /\ At("select", "read") \/ At("select", "ended") \/ At("select", "test")
  /\ UNCHANGED <<ring, bound, app, running, stream, reader, clobbered>>

(* A frame with the next counter or a later one; an error of read leaves what
   it left of the frame, and nothing is a counter of 0.                      *)
ReadFrame ==
  /\ At("read", "check")
  /\ \E c \in {0} \cup sent + 1 .. MaxCounter :
       frame' = c /\ sent' = (IF c = 0 THEN sent ELSE c)
  /\ UNCHANGED <<ring, bound, app, running, paket, h, reader, clobbered>>

(* The client is gone: read returns 0, which adds nothing, for ever.         *)
ReadNothing ==
  /\ At("read", "spin")
  /\ UNCHANGED <<ring, bound, app, running, stream, reader, clobbered>>

(* A frame that is not the next one is counted and dropped.                  *)
Missed ==
  /\ At("check", "read") /\ paket + 1 # frame /\ paket' = frame
  /\ UNCHANGED <<ring, bound, app, running, sent, frame, h, reader, clobbered>>

InSync ==
  /\ At("check", "write") /\ paket + 1 = frame /\ paket' = frame /\ h' = 1
  /\ UNCHANGED <<ring, bound, app, running, sent, frame, reader, clobbered>>

(* RingBuffer::write: the frame is copied, then the head advanced.           *)
WriteSample ==
  /\ h <= MAX /\ At("write", "write")
  /\ buffer' = [buffer EXCEPT ![wHead][h] = <<frame, h>>] /\ h' = h + 1
  /\ clobbered' = (clobbered \/ (writer = "copy" /\ t = wHead))
  /\ UNCHANGED <<rHead, wHead, bound, app, running, paket, sent, frame, reader>>

Written ==
  /\ h > MAX /\ At("write", "read")
  /\ wHead' = AdvanceWriteHead(wHead)
  /\ UNCHANGED <<buffer, rHead, bound, app, running, stream, reader, clobbered>>

-----------------------------------------------------------------------------
(* Writer::worker: read(), and at once again when it finds nothing.          *)
Read ==
  /\ app = "up" /\ writer = "idle" /\ ~Empty
  /\ t' = rHead /\ rHead' = AdvanceReadHead(rHead)
  /\ taken' = Append(taken, buffer[rHead])
  /\ writer' = "copy" /\ list' = <<>>
  /\ UNCHANGED <<buffer, wHead, bound, app, running, tcp, stream, given, clobbered>>

(* Sample by sample, from the slot itself.                                   *)
CopySample ==
  /\ app = "up" /\ writer = "copy" /\ Len(list) < MAX
  /\ list' = Append(list, buffer[t][Len(list) + 1])
  /\ UNCHANGED <<ring, bound, app, running, tcp, stream, writer, t, given, taken, clobbered>>

(* put_data. Each pass of the loop has its smpl at the same place on the stack,
   and each entry points there: all of them show what the last pass left.    *)
Shown(ls) ==
  [e \in 1 .. Channels |-> [j \in 1 .. SmplPerChan |-> ls[MAX - SmplPerChan + j]]]

PutData ==
  /\ app = "up" /\ writer = "copy" /\ Len(list) = MAX /\ writer' = "idle"
  /\ given' = Append(given, Shown(list))
  /\ UNCHANGED <<ring, bound, app, running, tcp, stream, t, list, taken, clobbered>>

(* Server::deinit: the flag is cleared and the TcpServer deleted: its QThread
   aborts if it is running; else the Writer is left with a freed ring.       *)
Deinit ==
  /\ app = "up" /\ tcp # "none" /\ running' = FALSE
  /\ app' = (IF tcp # "ended" THEN "aborted"
             ELSE IF writer # "none" THEN "crashed" ELSE "freed")
  /\ UNCHANGED <<ring, bound, tcp, stream, reader, clobbered>>

Worker == \/ Open \/ OpenFails \/ TestRunning \/ Accept \/ Select \/ ReadFrame
          \/ ReadNothing \/ Missed \/ InSync \/ WriteSample \/ Written

WriterWorker == Read \/ CopySample \/ PutData

Next == InitTcp \/ Worker \/ WriterWorker \/ Deinit

(* The Writer never sleeps or blocks.                                        *)
Spec == Init /\ [][Next]_vars /\ WF_vars(WriterWorker)

-----------------------------------------------------------------------------
(* The ring is a queue that loses everything when it is full, and while the
   process is up the Writer takes what is in it or it is lost
   (ring-buffer.h:48-67).                                                    *)
Queue == INSTANCE LossyQueue WITH
           Item <- {Frame(c) : c \in 1 .. MaxCounter}, Room <- Size - 1,
           queue <- Contents, taken <- taken, on <- app = "up"

ImplementsQueue == Queue!Spec

(* No frame is found twice or after a later one, however far the ring was
   overrun. The k-th list repeats the samples of one channel, the last, for all
   of them; each is of the k-th frame found, or of a later one if the worker
   came round to the slot while the Writer used it (tcp-server.cpp:166-185).  *)
ListsFollowFrames ==
  /\ \A j, k \in DOMAIN taken : j < k => Counter(taken[j]) < Counter(taken[k])
  /\ \A k \in DOMAIN given :
       \A e \in 1 .. Channels, j \in 1 .. SmplPerChan :
         \E c \in Counter(taken[k]) .. sent :
           /\ given[k][e][j] = Frame(c)[MAX - SmplPerChan + j]
           /\ clobbered \/ c = Counter(taken[k])
=============================================================================
