--------------------------------- MODULE Dtmf ---------------------------------
(* The DTMF plugin (DFT/dtmf.cpp): put_data queues the entries of a list under
   m_lock; the plugin's thread counts them, and takes them in a second locked
   section once there are s_frameSize of them; the first is repeated until a
   frame is full and goes to the detector, the others are dropped. deinit stops
   the thread, waits for it a second and deletes the detector; the signal that
   leads there may find the main thread inside put_data, holding m_lock.     *)
EXTENDS DtmfDetector, FiniteSets

CONSTANTS Sizes,     \* samples of an entry, in the configurations tried
          Lengths,   \* the entries of a list: 0, 1, or the number of channels
          MaxQueued  \* bound: entries queued

ASSUME DtmfAssumption ==
  Sizes \subseteq Nat /\ Lengths \subseteq Nat /\ MaxQueued \in Nat

VARIABLES
  size,        \* sample_data_t.size, as configured
  data,        \* m_sampleBuffer.data
  m_lock,      \* the main thread was stopped with it, or not
  m_isRunning,
  exists,      \* m_dtmfDetector is not deleted
  main,        \* "loop", "put", "deinit", "down"
  run,         \* "test", "count", "copy", "fill", "detect", "off"
  buffSize,    \* run's count of the entries
  dbl,         \* run's own list
  crashed,
  queued,      \* history: entries queued
  timedOut     \* history: wait() gave up

plugin  == <<data, m_lock, m_isRunning, exists>>
thread  == <<run, buffSize, dbl>>
vars    == <<size, plugin, main, thread, crashed, queued, timedOut, detector>>

Init ==
  /\ size \in Sizes /\ data = <<>> /\ m_lock = FALSE /\ m_isRunning = TRUE
  /\ exists = TRUE /\ main = "loop" /\ run = "test" /\ buffSize = 0 /\ dbl = <<>>
  /\ crashed = FALSE /\ queued = 0 /\ timedOut = FALSE
  /\ InitDetector

-----------------------------------------------------------------------------
(* The main thread.                                                          *)
PutLock ==
  /\ main = "loop" /\ queued < MaxQueued /\ ~m_lock
  /\ main' = "put" /\ m_lock' = TRUE
  /\ UNCHANGED <<data, m_isRunning, exists, thread, crashed, queued, timedOut, detector>>

PutNewest(n) ==  \* seeded bug: the oldest entries give way
  data' = [k \in 1 .. n |-> queued + k]

PutAll(n) == data' = data \o [k \in 1 .. n |-> queued + k]

(* The entries of the list, if any; then the lock is released.               *)
PutData ==
  /\ main = "put"
  /\ \E n \in Lengths : PutAll(n) /\ queued' = queued + n
  /\ main' = "loop" /\ m_lock' = FALSE
  /\ UNCHANGED <<m_isRunning, exists, thread, crashed, timedOut, detector>>

(* The signal's handler runs on the main thread, which never goes on.        *)
Deinit ==
  /\ main \in {"loop", "put"} /\ main' = "deinit" /\ m_isRunning' = FALSE
  /\ UNCHANGED <<data, m_lock, exists, thread, crashed, queued, timedOut, detector>>

NoWait == TRUE  \* seeded bug: wait() forgotten

Wait == run = "off"

Delete(late) ==
  /\ main = "deinit" /\ main' = "down" /\ exists' = FALSE /\ timedOut' = late
  /\ UNCHANGED <<data, m_lock, m_isRunning, thread, crashed, queued, detector>>

Waited == Wait /\ Delete(FALSE)

WaitTimesOut == run # "off" /\ Delete(TRUE)

-----------------------------------------------------------------------------
(* Dtmf::run. Its locked sections are one step each.                         *)
Main == UNCHANGED <<m_lock, m_isRunning, exists, main, queued, timedOut>>

StopAfterOne ==  \* seeded bug: break for continue
  IF m_isRunning /\ buffSize = 0 THEN "count" ELSE "off"

IfRunning == IF m_isRunning THEN "count" ELSE "off"

TestRunning ==
  /\ run = "test" /\ run' = IfRunning
  /\ Main /\ UNCHANGED <<data, buffSize, dbl, crashed, detector>>

Count ==
  /\ run = "count" /\ ~m_lock
  /\ buffSize' = Len(data)
  /\ run' = (IF buffSize' < FrameSize THEN "test" ELSE "copy")
  /\ Main /\ UNCHANGED <<data, dbl, crashed, detector>>

KeepBuffer == data  \* seeded bug: clear() forgotten

Cleared == <<>>

(* at(i) up to the count of the first section, then clear().                 *)
Copy ==
  /\ run = "copy" /\ ~m_lock
  /\ IF buffSize > Len(data)
     THEN crashed' = TRUE /\ UNCHANGED <<data, dbl, run>>
     ELSE /\ dbl' = dbl \o SubSeq(data, 1, buffSize) /\ data' = Cleared
          /\ run' = "fill" /\ UNCHANGED crashed
  /\ Main /\ UNCHANGED <<buffSize, detector>>

Tile(e) == [k \in 1 .. FrameSize |-> <<e, ((k - 1) % size) + 1>>]

(* The first entry again and again; the last time may go past the frame's end,
   and an entry without samples never fills it.                              *)
Fill ==
  /\ run = "fill" /\ size > 0
  /\ crashed' \in (IF FrameSize % size = 0 THEN {~exists} ELSE {TRUE, ~exists})
  /\ BeginFrame(Tile(Head(dbl))) /\ run' = "detect"
  /\ Main /\ UNCHANGED <<data, buffSize, dbl>>

Detect ==
  /\ run = "detect" /\ frameCount >= SAMPLES
  /\ crashed' \in {FALSE, ~exists} /\ CutWindow
  /\ Main /\ UNCHANGED <<data, thread>>

(* dbl.clear() ends the loop over it: the entries after the first are lost. The
   buttons so far are asked of the detector and printed beside s_DialButtons,
   past its sixteen when there are more: nothing is changed by that.         *)
Detected ==
  /\ run = "detect" /\ EndFrame
  /\ dbl' = <<>> /\ run' = "test" /\ crashed' = ~exists
  /\ Main /\ UNCHANGED <<data, buffSize>>

MainStep == PutLock \/ PutData \/ Deinit \/ Waited \/ WaitTimesOut

ThreadStep == TestRunning \/ Count \/ Copy \/ Fill \/ Detect \/ Detected

Next == ~crashed /\ (MainStep \/ ThreadStep) /\ UNCHANGED size

Safety == Init /\ [][Next]_vars

(* Both threads run whenever they can; put_data holds m_lock now and then, so
   the plugin's thread gets it only if the mutex is fair. Nobody has to send a
   signal or another list.                                                   *)
Spec == /\ Safety
        /\ WF_vars(~crashed /\ PutData /\ UNCHANGED size)
        /\ SF_vars(~crashed /\ ThreadStep /\ UNCHANGED size)

-----------------------------------------------------------------------------
TypeOK ==
  /\ DetectorTypeOK
  /\ size \in Sizes /\ data \in Seq(1 .. queued) /\ dbl \in Seq(1 .. queued)
  /\ m_lock \in BOOLEAN /\ m_isRunning \in BOOLEAN /\ exists \in BOOLEAN
  /\ crashed \in BOOLEAN /\ timedOut \in BOOLEAN
  /\ main \in {"loop", "put", "deinit", "down"}
  /\ run \in {"test", "count", "copy", "fill", "detect", "off"}
  /\ run \in {"fill", "detect"} => dbl # <<>>
  /\ buffSize \in 0 .. queued

(* The count that run takes in its first locked section is still good in the
   second one, whatever put_data did in between (dtmf.cpp:205-218).          *)
StaleCountIsGood == run = "copy" => buffSize \in FrameSize .. Len(data)

(* Of the queued entries, those analysed are taken once and in their order,
   each for one whole frame (dtmf.cpp:214-238).                              *)
AnalysedInOrder ==
  /\ \A i, j \in DOMAIN input : i <= j => input[i][1] <= input[j][1]
  /\ \A i, j \in DOMAIN input :
       input[i][1] = input[j][1] <=> (i - 1) \div FrameSize = (j - 1) \div FrameSize
  /\ run \notin {"fill", "detect"} =>
       \A i \in DOMAIN input, k \in DOMAIN data : input[i][1] < data[k]

(* The detector's windows are the consecutive cuts of its frames put in a row:
   no sample is lost, repeated or moved where one frame ends and the next begins
   (DtmfDetector.cpp:112-150).                                               *)
WindowsAreConsecutive == seen \o Pending = input

(* A button is reported once for each stretch of sound of two windows or more,
   as its second window has it; dialButtons holds those since it was last full
   (DtmfDetector.cpp:122-141).                                               *)
PressesReported ==
  /\ indexForDialButtons = Cardinality(Presses) % MaxButtons
  /\ \A k \in Presses :
       LET n == Cardinality({p \in Presses : p <= k})
       IN n > Cardinality(Presses) - indexForDialButtons =>
            dialButtons[(n - 1) % MaxButtons] = verdicts[k]

(* Through put_data between the locked sections, signals inside put_data and the
   wait, the thread uses what is not there in two cases only: the detector, when
   it takes longer than the second deinit waits for it (dtmf.cpp:63-69), which
   it must if put_data was stopped with the lock; and the end of a frame that
   entries do not divide (226-234).                                          *)
CrashesOnlyLate == crashed => timedOut \/ (size > 0 /\ FrameSize % size # 0)

(* Entries enough for a frame are taken, while the plugin runs; not so if they
   have no samples, when the thread never gets past the first (226-234).     *)
EntriesAreTaken ==
  (Len(data) >= FrameSize /\ size > 0)
    ~> (Len(data) < FrameSize \/ ~m_isRunning \/ crashed)

(* "wait to pack a whole defined frame" (dtmf.cpp:204): the frame analysed is
   made of as many samples that arrived.                                     *)
FrameIsPacked ==
  \A i, j \in DOMAIN input : i # j => input[i] # input[j]
=============================================================================
