--------------------------- MODULE LogWriterProofs ---------------------------
(* The safety of the log for any set of callers and any number of messages:
   the inductive invariant of LogWriter, what follows from it, that the code's
   every step is a step of the abstract log, how long the writer holds the
   mutex, and what the end of its thread leaves unwritten.                   *)
EXTENDS LogWriter, SequenceTheorems, TLAPS

-----------------------------------------------------------------------------
(* Facts about the queue operations the code is built from.                  *)

(* An append moves through a concatenation (Writer::write's append is an
   append to all that the logger holds).                                     *)
LEMMA AppendToConcat ==
  ASSUME NEW S, NEW s \in Seq(S), NEW t \in Seq(S), NEW e \in S
  PROVE  s \o Append(t, e) = Append(s \o t, e)
<1>1. /\ s \o Append(t, e) \in Seq(S) /\ Append(s \o t, e) \in Seq(S)
      /\ Len(s \o Append(t, e)) = Len(Append(s \o t, e))
  OBVIOUS
<1>2. ASSUME NEW i \in 1 .. Len(s \o Append(t, e))
      PROVE  (s \o Append(t, e))[i] = Append(s \o t, e)[i]
  OBVIOUS
<1> QED
  BY <1>1, <1>2, SeqEqual

(* dequeue-and-enqueue moves the boundary between two queues and keeps their
   concatenation (Writer::run's drain loop, and its write loop).             *)
LEMMA MoveHead ==
  ASSUME NEW S, NEW s \in Seq(S), NEW t \in Seq(S), t # <<>>
  PROVE  /\ Append(s, Head(t)) \o Tail(t) = s \o t
         /\ Append(s, Head(t)) \in Seq(S) /\ Tail(t) \in Seq(S)
         /\ Head(t) \in S
<1>1. Head(t) \in S /\ Tail(t) \in Seq(S) /\ Len(t) > 0
  BY HeadTailProperties, EmptySeq
<1>2. /\ Append(s, Head(t)) \o Tail(t) \in Seq(S) /\ s \o t \in Seq(S)
      /\ Len(Append(s, Head(t)) \o Tail(t)) = Len(s \o t)
  BY <1>1
<1>3. ASSUME NEW i \in 1 .. Len(Append(s, Head(t)) \o Tail(t))
      PROVE  (Append(s, Head(t)) \o Tail(t))[i] = (s \o t)[i]
  BY <1>1, <1>2
<1> QED
  BY <1>1, <1>2, <1>3, SeqEqual

(* A one-message file buffer holds the message after those on the disk.      *)
LEMMA NextOfConcat ==
  ASSUME NEW S, NEW s \in Seq(S), NEW p \in Seq(S), NEW r \in Seq(S), Len(p) = 1
  PROVE  /\ Len(s) < Len((s \o p) \o r)
         /\ ((s \o p) \o r)[Len(s) + 1] = p[1]
         /\ s \o p = Append(s, p[1])
<1>1. p[1] \in S
  <2>1. 1 \in 1 .. Len(p)
    OBVIOUS
  <2> QED
    BY <2>1, ElementOfSeq
<1>2. /\ s \o p \in Seq(S) /\ Append(s, p[1]) \in Seq(S)
      /\ Len(s \o p) = Len(s) + 1 /\ Len(Append(s, p[1])) = Len(s) + 1
  <2>1. s \o p \in Seq(S) /\ Len(s \o p) = Len(s) + 1
    <3>1. s \o p \in Seq(S) /\ Len(s \o p) = Len(s) + Len(p)
      BY ConcatProperties
    <3> QED
      BY <3>1
  <2>2. Append(s, p[1]) \in Seq(S) /\ Len(Append(s, p[1])) = Len(s) + 1
    BY <1>1, AppendProperties
  <2> QED
    BY <2>1, <2>2
<1>3. ASSUME NEW i \in 1 .. Len(s \o p) PROVE (s \o p)[i] = Append(s, p[1])[i]
  <2>1. CASE i \in 1 .. Len(s)
    BY <1>1, <2>1, AppendProperties, ConcatProperties
  <2>2. CASE i = Len(s) + 1
    BY <1>1, <2>2, AppendProperties, ConcatProperties
  <2> QED
    BY <1>2, <2>1, <2>2
<1>4. s \o p = Append(s, p[1])
  BY <1>2, <1>3, SeqEqual
<1> QED
  BY <1>1, <1>2, <1>4

-----------------------------------------------------------------------------
(* The inductive invariant.                                                  *)

LEMMA InitInv == Init => LogInv
<1> SUFFICES ASSUME Init PROVE LogInv
  OBVIOUS
<1> USE LogWriterAssumption DEF Init
<1>1. TypeOK
  <2>1. <<>> \in Seq(Message)
    BY EmptySeq
  <2>2. cpc \in [Callers -> {"idle", "append", "unlock"}]
    OBVIOUS
  <2>3. sent \in [Callers -> 0 .. MaxMsgs]
    OBVIOUS
  <2> QED
    BY <2>1, <2>2, <2>3 DEF TypeOK
<1>2. WithinBound /\ MutexHeld /\ BeforeStart /\ HeldByPlace /\ InOrderNoLoss /\ OwedKept
  BY DEF WithinBound, MutexHeld, BeforeStart, HeldByPlace, InOrderNoLoss, OwedKept
<1> QED
  BY <1>1, <1>2 DEF LogInv

(* Every step keeps the state well typed.                                    *)
LEMMA TypeStep == LogInv /\ [Next]_vars => TypeOK'
<1> SUFFICES ASSUME LogInv, [Next]_vars PROVE TypeOK'
  OBVIOUS
<1> USE LogWriterAssumption DEF LogInv, TypeOK, vars, loggerVars, writerVars, callerVars
<1>0. ASSUME NEW c \in Callers, cpc[c] = "append"
      PROVE  sent[c] + 1 \in 1 .. MaxMsgs /\ <<c, sent[c] + 1>> \in Message
  BY <1>0 DEF WithinBound, Message
<1>1. CASE Reserve \/ StartWriter \/ Exit
  BY <1>1 DEF Reserve, StartWriter, Exit
<1>9. CASE StopWriter
  <2>1. owed' \in Nat
    BY <1>9, LenProperties DEF StopWriter
  <2> QED
    BY <1>9, <2>1 DEF StopWriter
<1>2. ASSUME NEW c \in Callers, WriteLock(c) \/ WriteUnlock(c) PROVE TypeOK'
  <2>1. mutex' \in Callers \cup {Writer, Nobody}
    BY <1>2 DEF WriteLock, WriteUnlock
  <2>2. cpc' \in [Callers -> {"idle", "append", "unlock"}]
    BY <1>2 DEF WriteLock, WriteUnlock
  <2>3. CASE WriteLock(c)
    BY <2>1, <2>2, <2>3 DEF WriteLock
  <2>4. CASE WriteUnlock(c)
    BY <2>1, <2>2, <2>4 DEF WriteUnlock
  <2> QED
    BY <1>2, <2>3, <2>4
<1>3. ASSUME NEW c \in Callers, AppendMsg(c) PROVE TypeOK'
  <2> DEFINE m == <<c, sent[c] + 1>>
  <2>0. m \in Message /\ sent[c] + 1 \in 0 .. MaxMsgs
    BY <1>0, <1>3 DEF AppendMsg
  <2>1. buffer' \in Seq(Message) /\ accepted' \in Seq(Message)
    <3>1. \/ buffer' = Append(buffer, m) /\ accepted' = Append(accepted, m)
          \/ buffer' = buffer /\ accepted' = accepted
      BY <1>3 DEF AppendMsg
    <3>2. buffer \in Seq(Message) /\ accepted \in Seq(Message)
      OBVIOUS
    <3>3. ASSUME NEW s \in Seq(Message) PROVE Append(s, m) \in Seq(Message)
      BY <2>0, AppendProperties
    <3> QED
      BY <3>1, <3>2, <3>3
  <2>2. cpc' \in [Callers -> {"idle", "append", "unlock"}]
    BY <1>3 DEF AppendMsg
  <2>3. sent' \in [Callers -> 0 .. MaxMsgs]
    BY <2>0, <1>3 DEF AppendMsg
  <2> QED
    BY <1>3, <2>1, <2>2, <2>3 DEF AppendMsg
<1>4. CASE Wake \/ DrainUnlock \/ LoopTest
  BY <1>4 DEF Wake, DrainUnlock, LoopTest
<1>5. CASE Drain
  <2>1. Head(buffer) \in Message /\ Tail(buffer) \in Seq(Message)
    BY <1>5, HeadTailProperties DEF Drain
  <2> QED
    BY <1>5, <2>1, AppendProperties DEF Drain
<1>6. CASE WriteFile
  <2>1. Head(dblBuff) \in Message /\ Tail(dblBuff) \in Seq(Message)
    BY <1>6, HeadTailProperties DEF WriteFile
  <2> QED
    BY <1>6, <2>1, AppendProperties DEF WriteFile
<1>7. CASE Flush
  BY <1>7 DEF Flush
<1>8. CASE UNCHANGED vars
  BY <1>8
<1> QED
  BY <1>1, <1>2, <1>3, <1>4, <1>5, <1>6, <1>7, <1>8, <1>9 DEF Next, CallerStep, WriterStep

(* The mutex, the callers' program counters and the writer's agree.          *)
LEMMA MutexStep == LogInv /\ [Next]_vars => (WithinBound /\ MutexHeld)'
<1> SUFFICES ASSUME LogInv, [Next]_vars PROVE (WithinBound /\ MutexHeld)'
  OBVIOUS
<1> USE LogWriterAssumption
    DEF LogInv, WithinBound, MutexHeld, TypeOK, vars, loggerVars, writerVars, callerVars
<1>1. CASE Reserve \/ StartWriter \/ StopWriter \/ Exit
  BY <1>1 DEF BeforeStart, Reserve, StartWriter, StopWriter, Exit
<1>2. ASSUME NEW c \in Callers, WriteLock(c) PROVE (WithinBound /\ MutexHeld)'
  BY <1>2 DEF WriteLock
<1>3. ASSUME NEW c \in Callers, AppendMsg(c) PROVE (WithinBound /\ MutexHeld)'
  BY <1>3 DEF AppendMsg
<1>4. ASSUME NEW c \in Callers, WriteUnlock(c) PROVE (WithinBound /\ MutexHeld)'
  BY <1>4 DEF WriteUnlock
<1>5. CASE Wake \/ Drain \/ DrainUnlock
  BY <1>5 DEF Wake, Drain, DrainUnlock
<1>6. CASE WriteFile \/ Flush \/ LoopTest
  BY <1>6 DEF WriteFile, Flush, LoopTest
<1>7. CASE UNCHANGED vars
  BY <1>7
<1> QED
  BY <1>1, <1>2, <1>3, <1>4, <1>5, <1>6, <1>7 DEF Next, CallerStep, WriterStep

(* Each queue is empty where the program counters say so.                    *)
LEMMA PlaceStep == LogInv /\ [Next]_vars => (BeforeStart /\ HeldByPlace)'
<1> SUFFICES ASSUME LogInv, [Next]_vars PROVE (BeforeStart /\ HeldByPlace)'
  OBVIOUS
<1> USE DEF LogInv, BeforeStart, HeldByPlace, TypeOK, vars, loggerVars, writerVars,
            callerVars
<1>1. CASE Reserve \/ StartWriter \/ StopWriter \/ Exit
  BY <1>1 DEF Reserve, StartWriter, StopWriter, Exit
<1>2. ASSUME NEW c \in Callers, CallerStep(c) PROVE (BeforeStart /\ HeldByPlace)'
  <2>1. CASE WriteLock(c) \/ WriteUnlock(c)
    BY <2>1 DEF WriteLock, WriteUnlock
  <2>2. CASE AppendMsg(c)
    BY <2>2 DEF AppendMsg
  <2> QED
    BY <1>2, <2>1, <2>2 DEF CallerStep
<1>3. CASE Wake \/ Drain \/ DrainUnlock
  BY <1>3 DEF Wake, Drain, DrainUnlock
<1>4. CASE WriteFile
  <2>1. Head(dblBuff) \in Message
    BY <1>4, MoveHead DEF WriteFile
  <2> QED
    BY <1>4, <2>1, AppendProperties, LenProperties DEF WriteFile
<1>5. CASE Flush \/ LoopTest
  BY <1>5 DEF Flush, LoopTest
<1>6. CASE UNCHANGED vars
  BY <1>6
<1> QED
  BY <1>1, <1>2, <1>3, <1>4, <1>5, <1>6 DEF Next, WriterStep

(* No step loses, duplicates or reorders a message.                          *)
LEMMA OrderStep == LogInv /\ [Next]_vars => InOrderNoLoss'
<1> SUFFICES ASSUME LogInv, [Next]_vars, opened' PROVE
      (file \o pending \o dblBuff \o buffer = accepted)'
  BY DEF InOrderNoLoss
<1> USE DEF LogInv, TypeOK, InOrderNoLoss, vars, loggerVars, writerVars, callerVars
<1>1. CASE Reserve \/ StopWriter \/ Exit \/ UNCHANGED vars
  BY <1>1 DEF Reserve, StopWriter, Exit
<1>2. CASE StartWriter
  <2>1. /\ file = <<>> /\ pending = <<>> /\ dblBuff = <<>> /\ buffer = accepted
        /\ UNCHANGED <<file, pending, dblBuff, buffer, accepted>>
    BY <1>2 DEF StartWriter, BeforeStart, HeldByPlace
  <2> QED
    BY <2>1, ConcatEmptySeq
<1>3. ASSUME NEW c \in Callers, WriteLock(c) \/ WriteUnlock(c)
      PROVE  (file \o pending \o dblBuff \o buffer = accepted)'
  BY <1>3 DEF WriteLock, WriteUnlock
<1>4. ASSUME NEW c \in Callers, AppendMsg(c)
      PROVE  (file \o pending \o dblBuff \o buffer = accepted)'
  <2>1. CASE UNCHANGED <<buffer, accepted>>
    BY <1>4, <2>1 DEF AppendMsg
  <2>2. ASSUME NEW m \in Message, buffer' = Append(buffer, m),
               accepted' = Append(accepted, m)
        PROVE  (file \o pending \o dblBuff \o buffer = accepted)'
    <3> DEFINE taken == file \o pending \o dblBuff
    <3>1. /\ taken \in Seq(Message) /\ buffer \in Seq(Message)
          /\ taken \o buffer = accepted
      BY <1>4 DEF AppendMsg
    <3> HIDE DEF taken
    <3>2. taken \o Append(buffer, m) = Append(accepted, m)
      BY ONLY m \in Message, <3>1, AppendToConcat
    <3> USE DEF taken
    <3> QED
      BY <1>4, <2>2, <3>2 DEF AppendMsg
  <2>3. <<c, sent[c] + 1>> \in Message
    BY <1>4, LogWriterAssumption DEF AppendMsg, WithinBound, Message
  <2> QED
    BY <1>4, <2>1, <2>2, <2>3 DEF AppendMsg
<1>5. CASE Drain
  <2> DEFINE written == file \o pending
             taken == written \o dblBuff
  <2>1. /\ written \in Seq(Message) /\ taken \in Seq(Message)
        /\ dblBuff \in Seq(Message) /\ buffer \in Seq(Message) /\ buffer # <<>>
    BY <1>5 DEF Drain
  <2>2. /\ Head(buffer) \in Message
        /\ Append(taken, Head(buffer)) \o Tail(buffer) = taken \o buffer
    <3> HIDE DEF taken
    <3> QED
      BY ONLY <2>1, MoveHead
  <2>3. written \o Append(dblBuff, Head(buffer)) = Append(taken, Head(buffer))
    <3> HIDE DEF written
    <3> QED
      BY ONLY <2>1, <2>2, AppendToConcat
  <2> QED
    BY <1>5, <2>2, <2>3 DEF Drain
<1>6. CASE WriteFile
  <2> DEFINE written == file \o pending
  <2>1. /\ written \in Seq(Message) /\ file \in Seq(Message) /\ pending \in Seq(Message)
        /\ dblBuff \in Seq(Message) /\ dblBuff # <<>>
    BY <1>6 DEF WriteFile
  <2>2. /\ Head(dblBuff) \in Message
        /\ Append(written, Head(dblBuff)) \o Tail(dblBuff) = written \o dblBuff
    <3> HIDE DEF written
    <3> QED
      BY ONLY <2>1, MoveHead
  <2>3. file \o Append(pending, Head(dblBuff)) = Append(written, Head(dblBuff))
    BY ONLY <2>1, <2>2, AppendToConcat
  <2> QED
    BY <1>6, <2>2, <2>3 DEF WriteFile
<1>7. CASE Flush
  <2>1. (file \o pending) \o <<>> = file \o pending
    BY ConcatEmptySeq
  <2> QED
    BY <1>7, <2>1 DEF Flush
<1>8. CASE Wake \/ DrainUnlock \/ LoopTest
  BY <1>8 DEF Wake, DrainUnlock, LoopTest
<1> QED
  BY <1>1, <1>2, <1>3, <1>4, <1>5, <1>6, <1>7, <1>8 DEF Next, CallerStep, WriterStep

(* What stopWriter left for the last pass is never dropped.                  *)
LEMMA OwedStep == LogInv /\ [Next]_vars => OwedKept'
<1> SUFFICES ASSUME LogInv, [Next]_vars PROVE OwedKept'
  OBVIOUS
<1> USE DEF LogInv, TypeOK, OwedKept, vars, loggerVars, writerVars, callerVars
<1>1. CASE Reserve \/ StartWriter \/ StopWriter \/ Exit
  BY <1>1 DEF Reserve, StartWriter, StopWriter, Exit, BeforeStart
<1>2. ASSUME NEW c \in Callers, WriteLock(c) \/ WriteUnlock(c) PROVE OwedKept'
  BY <1>2 DEF WriteLock, WriteUnlock
<1>3. ASSUME NEW c \in Callers, AppendMsg(c) PROVE OwedKept'
  <2>1. Len(accepted') \in Nat /\ Len(accepted') >= Len(accepted)
    BY <1>3 DEF AppendMsg
  <2> QED
    BY <1>3, <2>1 DEF AppendMsg
<1>4. CASE Wake \/ Drain \/ LoopTest
  BY <1>4 DEF Wake, Drain, LoopTest, HeldByPlace
<1>5. CASE DrainUnlock
  <2>1. CASE opened
    <3>1. accepted = file \o pending \o dblBuff
      BY <1>5, <2>1, ConcatEmptySeq DEF DrainUnlock, InOrderNoLoss
    <3>2. Len(accepted) = Len(file) + Len(pending) + Len(dblBuff)
      BY <3>1
    <3> QED
      BY <1>5, <3>2 DEF DrainUnlock
  <2>2. CASE ~opened
    BY <1>5, <2>2 DEF DrainUnlock, HeldByPlace
  <2> QED
    BY <2>1, <2>2
<1>6. CASE WriteFile
  <2>1. Head(dblBuff) \in Message /\ Len(Tail(dblBuff)) = Len(dblBuff) - 1
    BY <1>6, HeadTailProperties DEF WriteFile
  <2>2. CASE opened
    BY <1>6, <2>1, <2>2, AppendProperties DEF WriteFile
  <2>3. CASE ~opened
    BY <1>6, <2>1, <2>3 DEF WriteFile, HeldByPlace
  <2> QED
    BY <2>2, <2>3
<1>7. CASE Flush
  BY <1>7 DEF Flush
<1>8. CASE UNCHANGED vars
  BY <1>8
<1> QED
  BY <1>1, <1>2, <1>3, <1>4, <1>5, <1>6, <1>7, <1>8 DEF Next, CallerStep, WriterStep

-----------------------------------------------------------------------------
(* The inductive invariant holds in every reachable state.                   *)
THEOREM LogInvariant == Safety => []LogInv
<1>1. LogInv /\ [Next]_vars => LogInv'
  BY TypeStep, MutexStep, PlaceStep, OrderStep, OwedStep DEF LogInv
<1> QED
  BY InitInv, <1>1, PTL DEF Safety

(* For any callers and any number of messages, m_mutex keeps every append
   and the drain loop out of each other's way (writer.cpp:42-44, 69-74).     *)
THEOREM BufferIsGuarded == Safety => []BufferGuarded
<1>1. LogInv => BufferGuarded
  BY DEF LogInv, MutexHeld, BufferGuarded
<1> QED
  BY LogInvariant, <1>1, PTL

(* Writer::write and Writer::run together never lose, duplicate or reorder a
   message the buffer took.                                                  *)
THEOREM NoMessageLost == Safety => []InOrderNoLoss
<1>1. LogInv => InOrderNoLoss
  BY DEF LogInv
<1> QED
  BY LogInvariant, <1>1, PTL

(* When Writer::run returns, what stopWriter found accepted while the thread
   slept or drained is on the disk.                                          *)
THEOREM FinalPassWrites == Safety => []FinalPass
<1>1. LogInv => FinalPass
  <2> SUFFICES ASSUME LogInv, wpc = "done" PROVE Len(file) >= owed
    BY DEF FinalPass
  <2>1. pending = <<>> /\ dblBuff = <<>>
    BY DEF LogInv, HeldByPlace
  <2> QED
    BY <2>1 DEF LogInv, OwedKept, TypeOK
<1> QED
  BY LogInvariant, <1>1, PTL

(* A thread in sleep() holds nothing: a crash then costs only the buffer.    *)
THEOREM SleeperHoldsNothing == Safety => []AsleepIsFlushed
<1>1. LogInv => AsleepIsFlushed
  BY DEF LogInv, HeldByPlace, AsleepIsFlushed
<1> QED
  BY LogInvariant, <1>1, PTL

-----------------------------------------------------------------------------
(* The writer implements the abstract log.                                   *)

LEMMA LogInit == Init => Log!Init
  BY DEF Init, Log!Init, LogPhase

(* Flush is the step that persists: the message it puts on the disk is the
   first accepted one that is not there yet.                                 *)
LEMMA FlushPersists == LogInv /\ Flush => [Log!Next]_Log!absVars
<1> SUFFICES ASSUME LogInv, Flush PROVE [Log!Next]_Log!absVars
  OBVIOUS
<1>1. UNCHANGED <<accepted, LogPhase>>
  BY DEF Flush, LogPhase, loggerVars, callerVars
<1>2. CASE opened
  <2>1. /\ Len(pending) = 1 /\ pending \in Seq(Message) /\ file \in Seq(Message)
        /\ dblBuff \in Seq(Message) /\ buffer \in Seq(Message)
        /\ accepted = ((file \o pending) \o dblBuff) \o buffer
    BY <1>2 DEF LogInv, TypeOK, HeldByPlace, InOrderNoLoss, Flush
  <2>2. file \o pending \in Seq(Message) /\ dblBuff \o buffer \in Seq(Message)
    BY ONLY <2>1
  <2>3. accepted = (file \o pending) \o (dblBuff \o buffer)
    BY ONLY <2>1, <2>2, ConcatAssociative
  <2>4. /\ Len(file) < Len(accepted)
        /\ file \o pending = Append(file, accepted[Len(file) + 1])
    BY ONLY <2>1, <2>2, <2>3, NextOfConcat
  <2> QED
    BY <1>1, <2>4 DEF Flush, Log!Next, Log!Persist, Log!absVars
<1>3. CASE ~opened
  <2>1. file' = file
    BY <1>3, ConcatEmptySeq DEF Flush, LogInv, HeldByPlace
  <2> QED
    BY <1>1, <2>1 DEF Log!absVars
<1> QED
  BY <1>2, <1>3

LEMMA LogStep == LogInv /\ [Next]_vars => [Log!Next]_Log!absVars
<1> SUFFICES ASSUME LogInv, [Next]_vars PROVE [Log!Next]_Log!absVars
  OBVIOUS
<1> USE DEF vars, loggerVars, writerVars, callerVars, Log!absVars, LogPhase
<1>1. CASE Reserve \/ UNCHANGED vars
  BY <1>1 DEF Reserve
<1>2. CASE StartWriter \/ StopWriter \/ Exit
  BY <1>2 DEF StartWriter, StopWriter, Exit, Log!Next, Log!Switch, LogInv, TypeOK
<1>3. ASSUME NEW c \in Callers, WriteLock(c) \/ WriteUnlock(c)
      PROVE  [Log!Next]_Log!absVars
  BY <1>3 DEF WriteLock, WriteUnlock
<1>4. ASSUME NEW c \in Callers, AppendMsg(c) PROVE [Log!Next]_Log!absVars
  <2>1. <<c, sent[c] + 1>> \in Message
    BY <1>4, LogWriterAssumption DEF AppendMsg, LogInv, TypeOK, WithinBound, Message
  <2> QED
    BY <1>4, <2>1 DEF AppendMsg, Log!Next, Log!Accept
<1>5. CASE Wake \/ Drain \/ DrainUnlock \/ WriteFile \/ LoopTest
  BY <1>5 DEF Wake, Drain, DrainUnlock, WriteFile, LoopTest
<1>6. CASE Flush
  BY <1>6, FlushPersists
<1> QED
  BY <1>1, <1>2, <1>3, <1>4, <1>5, <1>6 DEF Next, CallerStep, WriterStep

(* Every behaviour of utils::Writer is one of the abstract log: messages
   reach the file one at a time, in the order they were accepted.            *)
THEOREM ImplementsLogSafety == Safety => Log!Safety
  BY LogInit, LogInvariant, LogStep, PTL DEF Safety, Log!Safety

-----------------------------------------------------------------------------
(* Whose messages are in the file.                                           *)

(* A caller's messages are accepted in the order of their numbers, and none
   has a number the caller has not reached.                                  *)
Numbered ==
  /\ \A i \in DOMAIN accepted : accepted[i][2] <= sent[accepted[i][1]]
  /\ \A i, j \in DOMAIN accepted :
       i < j /\ accepted[i][1] = accepted[j][1] => accepted[i][2] < accepted[j][2]

LEMMA NumberedInit == Init => Numbered
  BY DEF Init, Numbered

LEMMA NumberedStep == LogInv /\ Numbered /\ [Next]_vars => Numbered'
<1> SUFFICES ASSUME LogInv, Numbered, [Next]_vars PROVE Numbered'
  OBVIOUS
<1>1. ASSUME UNCHANGED <<accepted, sent>> PROVE Numbered'
  BY <1>1 DEF Numbered
<1>2. /\ accepted \in Seq(Message) /\ Len(accepted) \in Nat
      /\ DOMAIN accepted = 1 .. Len(accepted) /\ sent \in [Callers -> 0 .. MaxMsgs]
      /\ \A i \in DOMAIN accepted : accepted[i] \in Message
      /\ MaxMsgs \in Nat
  BY LogWriterAssumption DEF LogInv, TypeOK
<1>3. ASSUME NEW i \in DOMAIN accepted
      PROVE  /\ accepted[i][1] \in Callers /\ accepted[i][2] \in Nat
             /\ sent[accepted[i][1]] \in Nat
  BY <1>2, <1>3 DEF Message
<1>4. ASSUME NEW c \in Callers, AppendMsg(c) PROVE Numbered'
  <2>1. PICK m : m = <<c, sent[c] + 1>>
    OBVIOUS
  <2>2. /\ m[1] = c /\ m[2] = sent[c] + 1 /\ sent[c] \in Nat
        /\ m \in Message /\ sent[c] < MaxMsgs
    BY <1>2, <1>4, <2>1 DEF AppendMsg, LogInv, WithinBound, Message
  <2>3. sent' = [sent EXCEPT ![c] = @ + 1]
    BY <1>4 DEF AppendMsg
  <2>4. \A d \in Callers : sent[d] \in Nat /\ sent'[d] \in Nat /\ sent[d] <= sent'[d]
    BY <1>2, <2>3
  <2>5. sent'[c] = m[2]
    BY <1>2, <2>2, <2>3
  <2>6. ASSUME NEW i \in DOMAIN accepted
        PROVE  /\ accepted[i][2] <= sent'[accepted[i][1]]
               /\ accepted[i][1] = c => accepted[i][2] < m[2]
    <3>1. accepted[i][2] <= sent[accepted[i][1]]
      BY DEF Numbered
    <3> QED  BY <1>3, <2>2, <2>4, <3>1
  <2>7. CASE accepted' = accepted
    BY <1>3, <2>6, <2>7 DEF Numbered
  <2>8. CASE accepted' = Append(accepted, m)
    <3>1. PICK n \in Nat : n = Len(accepted) /\ DOMAIN accepted = 1 .. n
      BY <1>2
    <3>2. /\ DOMAIN accepted' = 1 .. n + 1 /\ accepted'[n + 1] = m
          /\ \A i \in 1 .. n : accepted'[i] = accepted[i]
      BY <1>2, <2>2, <2>8, <3>1
    <3>3. ASSUME NEW i \in 1 .. n + 1 PROVE accepted'[i][2] <= sent'[accepted'[i][1]]
      <4>1. CASE i = n + 1
        BY <2>2, <2>4, <2>5, <3>2, <4>1
      <4>2. CASE i # n + 1
        BY <2>6, <3>1, <3>2, <4>2
      <4> QED  BY <4>1, <4>2
    <3>4. ASSUME NEW i \in 1 .. n + 1, NEW j \in 1 .. n + 1, i < j,
                 accepted'[i][1] = accepted'[j][1]
          PROVE  accepted'[i][2] < accepted'[j][2]
      <4>1. i \in 1 .. n /\ accepted'[i] = accepted[i]
        BY <3>2, <3>4
      <4>2. CASE j = n + 1
        BY <2>2, <2>6, <3>1, <3>2, <3>4, <4>1, <4>2
      <4>3. CASE j # n + 1
        BY <3>1, <3>2, <3>4, <4>1, <4>3 DEF Numbered
      <4> QED  BY <4>2, <4>3
    <3> QED  BY <3>2, <3>3, <3>4 DEF Numbered
  <2> QED  BY <1>4, <2>1, <2>7, <2>8 DEF AppendMsg
<1>5. CASE \E c \in Callers : WriteLock(c) \/ WriteUnlock(c)
  BY <1>1, <1>5 DEF WriteLock, WriteUnlock
<1>6. CASE Reserve \/ StartWriter \/ StopWriter \/ Exit
  BY <1>1, <1>6 DEF Reserve, StartWriter, StopWriter, Exit, callerVars
<1>7. CASE WriterStep
  BY <1>1, <1>7 DEF WriterStep, Wake, Drain, DrainUnlock, WriteFile, Flush, LoopTest,
                    callerVars
<1>8. CASE UNCHANGED vars
  BY <1>1, <1>8 DEF vars, callerVars
<1> QED
  BY <1>4, <1>5, <1>6, <1>7, <1>8 DEF Next, CallerStep

FileInOrder ==
  \A i, j \in DOMAIN file :
    i < j /\ file[i][1] = file[j][1] => file[i][2] < file[j][2]

(* The file begins what was accepted.                                        *)
LEMMA FileIsPrefix ==
  ASSUME LogInv, NEW i \in DOMAIN file
  PROVE  i \in DOMAIN accepted /\ file[i] = accepted[i]
<1>1. /\ file \in Seq(Message) /\ pending \in Seq(Message)
      /\ dblBuff \in Seq(Message) /\ buffer \in Seq(Message)
  BY DEF LogInv, TypeOK
<1>2. file # <<>>
  BY <1>1
<1>3. opened
  BY <1>2 DEF LogInv, HeldByPlace
<1>4. accepted = ((file \o pending) \o dblBuff) \o buffer
  BY <1>3 DEF LogInv, InOrderNoLoss
<1>5. ASSUME NEW s \in Seq(Message), NEW t \in Seq(Message), NEW k \in DOMAIN s
      PROVE  k \in DOMAIN (s \o t) /\ (s \o t)[k] = s[k] /\ s \o t \in Seq(Message)
  OBVIOUS
<1>6. i \in DOMAIN (file \o pending) /\ (file \o pending)[i] = file[i]
      /\ file \o pending \in Seq(Message)
  BY ONLY <1>1, <1>5, i \in DOMAIN file
<1>7. /\ i \in DOMAIN ((file \o pending) \o dblBuff)
      /\ ((file \o pending) \o dblBuff)[i] = file[i]
      /\ (file \o pending) \o dblBuff \in Seq(Message)
  <2>1. PICK s \in Seq(Message) : s = file \o pending
    BY <1>6
  <2> QED  BY ONLY <1>1, <1>5, <1>6, <2>1
<1> QED
  <2>1. PICK s \in Seq(Message) : s = (file \o pending) \o dblBuff
    BY <1>7
  <2> QED  BY ONLY <1>1, <1>4, <1>5, <1>7, <2>1

(* For any callers: the file holds a message at most once, and the messages of
   one thread stand in it in the order that thread logged them, also when
   appends race with the unlocked reserve (writer.cpp:31, 42-44).            *)
THEOREM CallersKeepTheirOrder == Safety => []FileInOrder
<1>1. LogInv /\ Numbered => FileInOrder
  <2> SUFFICES ASSUME LogInv, Numbered, NEW i \in DOMAIN file, NEW j \in DOMAIN file,
                      i < j, file[i][1] = file[j][1]
               PROVE  file[i][2] < file[j][2]
    BY DEF FileInOrder
  <2>1. /\ i \in DOMAIN accepted /\ file[i] = accepted[i]
        /\ j \in DOMAIN accepted /\ file[j] = accepted[j]
    BY FileIsPrefix
  <2> QED  BY <2>1 DEF Numbered
<1> QED
  BY <1>1, NumberedInit, NumberedStep, LogInvariant, PTL DEF Safety

-----------------------------------------------------------------------------
(* How long the writer holds the mutex, and what the end of the thread leaves. *)

TakesOrReleases ==
  mutex = Writer =>
    /\ accepted' = accepted
    /\ \/ UNCHANGED <<mutex, buffer>>
       \/ mutex' = Writer /\ Len(buffer') = Len(buffer) - 1
       \/ mutex' = Nobody /\ buffer = <<>> /\ buffer' = <<>>

(* While the writer thread holds m_mutex nothing enters m_buffer, and each of
   its steps there takes a message or releases: a caller waits for at most as
   many steps as there were messages when the thread woke, however many
   callers press (writer.cpp:69-74).                                         *)
THEOREM DrainIsBounded == Safety => [][TakesOrReleases]_vars
<1>1. LogInv /\ [Next]_vars => [TakesOrReleases]_vars
  <2> SUFFICES ASSUME LogInv, [Next]_vars, mutex = Writer
               PROVE  TakesOrReleases
    BY DEF TakesOrReleases
  <2> USE DEF TakesOrReleases, vars, loggerVars, writerVars, callerVars
  <2>1. CASE Reserve \/ StartWriter \/ StopWriter \/ Exit \/ UNCHANGED vars
    BY <2>1 DEF Reserve, StartWriter, StopWriter, Exit
  <2>2. ASSUME NEW c \in Callers, CallerStep(c) PROVE FALSE
    <3>1. cpc[c] = "idle" /\ Writer # Nobody
      BY LogWriterAssumption DEF LogInv, MutexHeld
    <3> QED  BY <2>2, <3>1 DEF CallerStep, WriteLock, AppendMsg, WriteUnlock
  <2>3. CASE Drain
    <3>1. buffer \in Seq(Message) /\ buffer # <<>> /\ buffer' = Tail(buffer)
      BY <2>3 DEF Drain, LogInv, TypeOK
    <3>2. Len(buffer') = Len(buffer) - 1
      BY ONLY <3>1
    <3> QED  BY <2>3, <3>2 DEF Drain
  <2>4. CASE Wake
    BY <2>4, LogWriterAssumption DEF Wake
  <2>5. CASE DrainUnlock
    BY <2>5 DEF DrainUnlock
  <2>6. CASE WriteFile \/ Flush \/ LoopTest
    BY <2>6 DEF WriteFile, Flush, LoopTest
  <2> QED  BY <2>1, <2>2, <2>3, <2>4, <2>5, <2>6 DEF Next, WriterStep
<1> QED
  BY <1>1, LogInvariant, PTL DEF Safety

RestIsInBuffer == wpc = "done" /\ opened => accepted = file \o buffer

EndIsFinal == wpc = "done" => wpc' = "done" /\ file' = file

(* Once Writer::run has returned, what is not on the disk is exactly what lies
   in m_buffer: messages that came after the last pass. They are never written,
   since nothing starts the thread again (writer.cpp:81, logger.cpp:30).     *)
THEOREM EndOfLogIsFinal == Safety => []RestIsInBuffer /\ [][EndIsFinal]_vars
<1>1. LogInv => RestIsInBuffer
  <2> SUFFICES ASSUME LogInv, wpc = "done", opened PROVE accepted = file \o buffer
    BY DEF RestIsInBuffer
  <2>1. /\ file \in Seq(Message) /\ pending = <<>> /\ dblBuff = <<>>
        /\ accepted = ((file \o pending) \o dblBuff) \o buffer
    BY DEF LogInv, TypeOK, HeldByPlace, InOrderNoLoss
  <2> QED  BY ONLY <2>1, ConcatEmptySeq
<1>2. LogInv /\ [Next]_vars => [EndIsFinal]_vars
  <2> SUFFICES ASSUME LogInv, [Next]_vars, wpc = "done" PROVE EndIsFinal
    BY DEF EndIsFinal
  <2> USE DEF EndIsFinal, vars, loggerVars, writerVars, callerVars
  <2>1. CASE Reserve \/ StartWriter
    BY <2>1 DEF Reserve, StartWriter, LogInv, BeforeStart
  <2>2. CASE StopWriter \/ Exit \/ UNCHANGED vars
    BY <2>2 DEF StopWriter, Exit
  <2>3. ASSUME NEW c \in Callers, CallerStep(c) PROVE EndIsFinal
    BY <2>3 DEF CallerStep, WriteLock, AppendMsg, WriteUnlock
  <2>4. CASE WriterStep
    BY <2>4 DEF WriterStep, Wake, Drain, DrainUnlock, WriteFile, Flush, LoopTest
  <2> QED  BY <2>1, <2>2, <2>3, <2>4 DEF Next
<1> QED
  BY <1>1, <1>2, LogInvariant, PTL DEF Safety
=============================================================================
