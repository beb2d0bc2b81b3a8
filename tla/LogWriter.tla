------------------------------ MODULE LogWriter ------------------------------
(* utils::Writer (utils/writer.cpp) and its only user utils::Logger
   (utils/logger.cpp). Any thread may log: Writer::write appends under
   m_mutex. The writer thread sleeps, moves everything to a queue of its own
   under the mutex, and then writes and flushes each message without it.
   A message is <<caller, n>>, the n-th message of that caller.              *)
EXTENDS Naturals, Sequences

CONSTANTS Callers,  \* the threads that call Logger::logMessage
          MaxMsgs,  \* how many messages a caller logs: the bound of the runs
          Writer,   \* the writer thread, as an owner of m_mutex
          Nobody    \* m_mutex is free

ASSUME LogWriterAssumption ==
  /\ MaxMsgs \in Nat
  /\ Writer \notin Callers /\ Nobody \notin Callers /\ Writer # Nobody

VARIABLES
  setup,      \* Logger::init: "new", "reserve" (in Writer::setup), "started"
  isRunning,  \* m_isRunning
  opened,     \* whether m_file.open succeeded; setup returns true either way
  mutex,      \* the owner of m_mutex
  buffer,     \* m_buffer
  dblBuff,    \* the local queue of Writer::run
  pending,    \* in the buffer of m_file, not flushed
  file,       \* on the disk
  wpc,        \* where the writer thread is
  cpc,        \* where each caller is
  sent,       \* how many messages each caller has passed to Writer::write
  accepted,   \* history: the messages that entered m_buffer, in order
  owed,       \* history: how many of them stopWriter left for the last pass
  alive       \* the process runs

loggerVars == <<setup, isRunning, opened>>
writerVars == <<dblBuff, pending, file, wpc>>
callerVars == <<cpc, sent, accepted>>
vars == <<loggerVars, mutex, buffer, writerVars, callerVars, owed, alive>>

Message == Callers \X (1 .. MaxMsgs)

Init ==
  /\ setup = "new" /\ isRunning = FALSE /\ opened = FALSE
  /\ mutex = Nobody /\ buffer = <<>>
  /\ dblBuff = <<>> /\ pending = <<>> /\ file = <<>> /\ wpc = "off"
  /\ cpc = [c \in Callers |-> "idle"] /\ sent = [c \in Callers |-> 0]
  /\ accepted = <<>> /\ owed = 0 /\ alive = TRUE

-----------------------------------------------------------------------------
(* Logger::init, in the main thread. m_onetime makes a second call return at
   once. Writer::setup reserves m_buffer without the mutex.                  *)
Reserve ==
  /\ alive /\ setup = "new"
  /\ setup' = "reserve"
  /\ UNCHANGED <<isRunning, opened, mutex, buffer, writerVars, callerVars, owed, alive>>

StartWriter ==
  /\ alive /\ setup = "reserve"
  /\ setup' = "started" /\ isRunning' = TRUE /\ wpc' = "sleep"
  /\ opened' \in BOOLEAN
  /\ UNCHANGED <<mutex, buffer, dblBuff, pending, file, callerVars, owed, alive>>

(* Logger::deinit only clears the flag; nothing waits for the thread.        *)
StopWriter ==
  /\ alive
  /\ isRunning' = FALSE
  /\ owed' = IF opened /\ isRunning /\ wpc \in {"sleep", "drain"}
             THEN Len(accepted) ELSE owed
  /\ UNCHANGED <<setup, opened, mutex, buffer, writerVars, callerVars, alive>>

(* exit, a fatal signal, or main returning: the Logger is never deleted, so
   what is not on the disk is gone.                                          *)
Exit ==
  /\ alive
  /\ alive' = FALSE
  /\ UNCHANGED <<loggerVars, mutex, buffer, writerVars, callerVars, owed>>

-----------------------------------------------------------------------------
(* Writer::write, called by Logger::logMessage.                              *)
WriteLockUnguarded(c) ==  \* seeded bug: m_mutex.lock() forgotten
  /\ alive /\ cpc[c] = "idle" /\ sent[c] < MaxMsgs
  /\ mutex' = c /\ cpc' = [cpc EXCEPT ![c] = "append"]
  /\ UNCHANGED <<loggerVars, buffer, writerVars, sent, accepted, owed, alive>>

WriteLock(c) ==
  /\ alive /\ cpc[c] = "idle" /\ sent[c] < MaxMsgs
  /\ mutex = Nobody
  /\ mutex' = c /\ cpc' = [cpc EXCEPT ![c] = "append"]
  /\ UNCHANGED <<loggerVars, buffer, writerVars, sent, accepted, owed, alive>>

(* An append that overlaps the unlocked reserve is a data race on the list:
   the message gets in or is lost with the old array.                        *)
AppendMsg(c) ==
  LET m == <<c, sent[c] + 1>>
  IN /\ alive /\ cpc[c] = "append"
     /\ cpc' = [cpc EXCEPT ![c] = "unlock"] /\ sent' = [sent EXCEPT ![c] = @ + 1]
     /\ \/ buffer' = Append(buffer, m) /\ accepted' = Append(accepted, m)
        \/ setup = "reserve" /\ UNCHANGED <<buffer, accepted>>
     /\ UNCHANGED <<loggerVars, mutex, writerVars, owed, alive>>

WriteUnlock(c) ==
  /\ alive /\ cpc[c] = "unlock"
  /\ mutex' = Nobody /\ cpc' = [cpc EXCEPT ![c] = "idle"]
  /\ UNCHANGED <<loggerVars, buffer, writerVars, sent, accepted, owed, alive>>

-----------------------------------------------------------------------------
(* Writer::run.                                                              *)
Wake ==
  /\ alive /\ wpc = "sleep" /\ mutex = Nobody
  /\ mutex' = Writer /\ wpc' = "drain"
  /\ UNCHANGED <<loggerVars, buffer, dblBuff, pending, file, callerVars, owed, alive>>

DrainLast ==  \* seeded bug: the newest message taken first
  /\ alive /\ wpc = "drain" /\ buffer # <<>>
  /\ dblBuff' = Append(dblBuff, buffer[Len(buffer)])
  /\ buffer' = SubSeq(buffer, 1, Len(buffer) - 1)
  /\ UNCHANGED <<loggerVars, mutex, pending, file, wpc, callerVars, owed, alive>>

Drain ==
  /\ alive /\ wpc = "drain" /\ buffer # <<>>
  /\ dblBuff' = Append(dblBuff, Head(buffer)) /\ buffer' = Tail(buffer)
  /\ UNCHANGED <<loggerVars, mutex, pending, file, wpc, callerVars, owed, alive>>

DrainUnlock ==
  /\ alive /\ wpc = "drain" /\ buffer = <<>>
  /\ mutex' = Nobody /\ wpc' = "write"
  /\ UNCHANGED <<loggerVars, buffer, dblBuff, pending, file, callerVars, owed, alive>>

(* m_file.write: nothing is stored when the file could not be opened.        *)
WriteFile ==
  /\ alive /\ wpc = "write" /\ dblBuff # <<>>
  /\ dblBuff' = Tail(dblBuff) /\ wpc' = "flush"
  /\ pending' = IF opened THEN Append(pending, Head(dblBuff)) ELSE pending
  /\ UNCHANGED <<loggerVars, mutex, buffer, file, callerVars, owed, alive>>

FlushSkipped ==  \* seeded bug: m_file.flush() removed
  /\ alive /\ wpc = "flush"
  /\ wpc' = "write"
  /\ UNCHANGED <<loggerVars, mutex, buffer, dblBuff, pending, file, callerVars, owed, alive>>

Flush ==
  /\ alive /\ wpc = "flush"
  /\ file' = file \o pending /\ pending' = <<>> /\ wpc' = "write"
  /\ UNCHANGED <<loggerVars, mutex, buffer, dblBuff, callerVars, owed, alive>>

LoopTestEager ==  \* seeded bug: the flag also ends the loop over dblBuff
  /\ alive /\ wpc = "write" /\ (dblBuff = <<>> \/ ~isRunning)
  /\ wpc' = IF isRunning THEN "sleep" ELSE "done"
  /\ UNCHANGED <<loggerVars, mutex, buffer, dblBuff, pending, file, callerVars, owed, alive>>

LoopTest ==
  /\ alive /\ wpc = "write" /\ dblBuff = <<>>
  /\ wpc' = IF isRunning THEN "sleep" ELSE "done"
  /\ UNCHANGED <<loggerVars, mutex, buffer, dblBuff, pending, file, callerVars, owed, alive>>

CallerStep(c) == WriteLock(c) \/ AppendMsg(c) \/ WriteUnlock(c)

WriterStep == Wake \/ Drain \/ DrainUnlock \/ WriteFile \/ Flush \/ LoopTest

Next ==
  \/ Reserve \/ StartWriter \/ StopWriter \/ Exit
  \/ \E c \in Callers : CallerStep(c)
  \/ WriterStep

(* The scheduler runs both kinds of thread; whether a caller logs again, and
   whether anyone stops the logger, is open.                                 *)
Fairness ==
  /\ WF_vars(WriterStep)
  /\ \A c \in Callers : WF_vars(AppendMsg(c) \/ WriteUnlock(c))

Safety == Init /\ [][Next]_vars

Spec == Safety /\ Fairness

-----------------------------------------------------------------------------
TypeOK ==
  /\ setup \in {"new", "reserve", "started"}
  /\ isRunning \in BOOLEAN /\ opened \in BOOLEAN /\ alive \in BOOLEAN
  /\ mutex \in Callers \cup {Writer, Nobody}
  /\ buffer \in Seq(Message) /\ dblBuff \in Seq(Message)
  /\ pending \in Seq(Message) /\ file \in Seq(Message)
  /\ wpc \in {"off", "sleep", "drain", "write", "flush", "done"}
  /\ cpc \in [Callers -> {"idle", "append", "unlock"}]
  /\ sent \in [Callers -> 0 .. MaxMsgs]
  /\ accepted \in Seq(Message) /\ owed \in Nat

(* Only the owner of m_mutex is inside m_buffer: no append overlaps another
   append or the drain loop (writer.cpp:42-44, 69-74).                       *)
BufferGuarded ==
  /\ \A c \in Callers : cpc[c] # "idle" => mutex = c
  /\ wpc = "drain" => mutex = Writer

(* With the file open, what callers handed in is, in order, what is on disk,
   then in the file's buffer, then in the two queues: no message is lost,
   duplicated or reordered on its way, whoever runs when.                    *)
InOrderNoLoss == opened => file \o pending \o dblBuff \o buffer = accepted

(* A thread that sleeps has written all it took, so that a crash during the
   sleep (1000 s by default) costs only what arrived since.                  *)
AsleepIsFlushed == wpc = "sleep" => dblBuff = <<>> /\ pending = <<>>

(* Writer::run tests m_isRunning after the pass (do ... while), so what was
   accepted before stopWriter and found the thread asleep or draining is on
   the disk when the thread ends.                                            *)
FinalPass == wpc = "done" => Len(file) >= owed

(* The abstract log this implements: accepted messages reach the file one at
   a time and in order, and do reach it while the writer runs.               *)
LogPhase == IF setup # "started" THEN "new"
            ELSE IF isRunning /\ opened /\ alive THEN "on" ELSE "off"

Log == INSTANCE AbstractLog WITH log <- file, phase <- LogPhase

ImplementsLog == Log!Spec
-----------------------------------------------------------------------------
(* The inductive invariant behind the properties above.                      *)

MutexHeld ==
  /\ \A c \in Callers : cpc[c] # "idle" <=> mutex = c
  /\ wpc = "drain" <=> mutex = Writer

BeforeStart ==
  /\ setup # "started" <=> wpc = "off"
  /\ setup # "started" => ~opened /\ buffer = accepted

HeldByPlace ==
  /\ wpc \in {"off", "sleep", "done"} => dblBuff = <<>>
  /\ wpc = "flush" /\ opened => Len(pending) = 1
  /\ wpc # "flush" => pending = <<>>
  /\ ~opened => file = <<>> /\ pending = <<>> /\ owed = 0

OwedKept ==
  /\ owed <= Len(accepted)
  /\ wpc \in {"write", "flush", "done"} =>
       owed <= Len(file) + Len(pending) + Len(dblBuff)

WithinBound == \A c \in Callers : cpc[c] = "append" => sent[c] < MaxMsgs

LogInv == TypeOK /\ WithinBound /\ MutexHeld /\ BeforeStart /\ HeldByPlace
          /\ InOrderNoLoss /\ OwedKept
=============================================================================
