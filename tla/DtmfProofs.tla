------------------------------ MODULE DtmfProofs ------------------------------
(* Proofs about the DTMF plugin and its detector: for frames and windows of any
   size, entries of any size, lists of any length and any sounds. Which sounds
   are reported, what a frame is made of, and when the thread can crash.     *)
EXTENDS Dtmf, FiniteSetTheorems, TLAPS

LEMMA SizesAreNat == FrameSize \in Nat /\ FrameSize > 0 /\ SAMPLES \in Nat /\ SAMPLES > 0
                     /\ MaxButtons \in Nat /\ MaxButtons > 0
  BY DetectorAssumption

-----------------------------------------------------------------------------
(* DTMF_detection finds a button or nothing.                                 *)
LEMMA LoudestOfFour ==
  ASSUME NEW m \in Nat, NEW T, \A k \in m .. m + 3 : T[k] \in Nat
  PROVE  Loudest(T, m .. m + 3) \in m .. m + 3
<1>1. m .. m + 3 = {m, m + 1, m + 2, m + 3}
  OBVIOUS
<1>2. T[m] \in Nat /\ T[m + 1] \in Nat /\ T[m + 2] \in Nat /\ T[m + 3] \in Nat
  OBVIOUS
<1>3. \E k \in {m, m + 1, m + 2, m + 3} : \A j \in {m, m + 1, m + 2, m + 3} :
        T[j] < T[k] \/ (T[j] = T[k] /\ k <= j)
  BY <1>2
<1> QED  BY <1>1, <1>3 DEF Loudest

LEMMA DetectionIsButton ==
  ASSUME NEW T \in Energies
  PROVE  DTMF_detection(T) \in Buttons \cup {Blank}
<1>1. T \in [Dialled \cup Others -> Nat]
  BY DetectorAssumption
<1>2. \A k \in 0 .. 7 : T[k] \in Nat
  BY <1>1 DEF Dialled, Others
<1>3. Loudest(T, Rows) \in Rows
  <2>1. Rows = 0 .. 0 + 3 /\ \A k \in 0 .. 0 + 3 : T[k] \in Nat
    BY <1>2 DEF Rows
  <2>2. Loudest(T, 0 .. 0 + 3) \in 0 .. 0 + 3
    BY <2>1, LoudestOfFour
  <2> QED  BY <2>1, <2>2
<1>4. Loudest(T, Columns) \in Columns
  <2>1. Columns = 4 .. 4 + 3 /\ \A k \in 4 .. 4 + 3 : T[k] \in Nat
    BY <1>2 DEF Columns
  <2>2. Loudest(T, 4 .. 4 + 3) \in 4 .. 4 + 3
    BY <2>1, LoudestOfFour
  <2> QED  BY <2>1, <2>2
<1> QED  BY <1>3, <1>4 DEF DTMF_detection, Buttons

LEMMA VerdictsAreButtons == Verdicts \subseteq Buttons \cup {Blank}
  BY DetectionIsButton DEF Verdicts

-----------------------------------------------------------------------------
(* Types. Between frames nothing waits in the thread's own list, and less than
   a window in the detector's array.                                         *)
Sample == Nat \X Nat

Kept ==
  /\ run \notin {"fill", "detect"} => dbl = <<>>
  /\ run # "detect" => temp_index = 0 /\ frameCount < SAMPLES
  /\ Len(data) <= queued

Typed ==
  /\ TypeOK /\ StaleCountIsGood /\ Kept
  /\ queued \in Nat /\ input \in Seq(Sample) /\ seen \in Seq(Sample)

LEMMA TypedInit == Init => Typed
<1> SUFFICES ASSUME Init PROVE Typed
  OBVIOUS
<1> USE SizesAreNat
<1>1. DetectorTypeOK
  <2>1. NoSample \in Nat \X Nat
    BY DEF NoSample
  <2>2. pArraySamples \in [Indices -> Nat \X Nat]
    BY <2>1 DEF Init, InitDetector
  <2>3. dialButtons \in [0 .. MaxButtons -> Buttons \cup {Blank}]
    BY DEF Init, InitDetector
  <2>4. /\ frameCount = 0 /\ temp_index = 0 /\ indexForDialButtons = 0
        /\ prevDialButton = Blank /\ permissionFlag = FALSE
    BY DEF Init, InitDetector
  <2>5. 0 \in 0 .. FrameSize + SAMPLES - 1 /\ 0 + 0 <= FrameSize + SAMPLES - 1
        /\ 0 \in 0 .. MaxButtons - 1 /\ FALSE \in BOOLEAN
    OBVIOUS
  <2> QED  BY ONLY <2>2, <2>3, <2>4, <2>5 DEF DetectorTypeOK
<1>2. TypeOK
  <2>1. /\ size \in Sizes /\ data = <<>> /\ dbl = <<>> /\ queued = 0 /\ buffSize = 0
        /\ m_lock = FALSE /\ m_isRunning = TRUE /\ exists = TRUE /\ crashed = FALSE
        /\ timedOut = FALSE /\ main = "loop" /\ run = "test"
    BY DEF Init
  <2>2. <<>> \in Seq(1 .. 0) /\ 0 \in 0 .. 0
    OBVIOUS
  <2> QED  BY ONLY <1>1, <2>1, <2>2 DEF TypeOK
<1> QED  BY <1>2 DEF Init, InitDetector, Typed, Kept, StaleCountIsGood

(* The queue.                                                                *)
LEMMA PutIsTyped ==
  ASSUME NEW q \in Nat, NEW d \in Seq(1 .. q), NEW n \in Nat
  PROVE  /\ d \o [k \in 1 .. n |-> q + k] \in Seq(1 .. q + n)
         /\ Len(d \o [k \in 1 .. n |-> q + k]) = Len(d) + n
<1>1. d \in Seq(1 .. q + n)
  <2>1. 1 .. q \subseteq 1 .. q + n
    OBVIOUS
  <2> QED  BY <2>1
<1>2. [k \in 1 .. n |-> q + k] \in Seq(1 .. q + n) /\ Len([k \in 1 .. n |-> q + k]) = n
  OBVIOUS
<1> QED  BY <1>1, <1>2

LEMMA SeqWidens ==
  ASSUME NEW q \in Nat, NEW n \in Nat, NEW d \in Seq(1 .. q)
  PROVE  d \in Seq(1 .. q + n)
<1>1. 1 .. q \subseteq 1 .. q + n
  OBVIOUS
<1> QED  BY <1>1

LEMMA TakenIsTyped ==
  ASSUME NEW q \in Nat, NEW d \in Seq(1 .. q), NEW n \in 1 .. Len(d)
  PROVE  /\ <<>> \o SubSeq(d, 1, n) = SubSeq(d, 1, n)
         /\ SubSeq(d, 1, n) \in Seq(1 .. q) /\ Len(SubSeq(d, 1, n)) = n
         /\ SubSeq(d, 1, n) # <<>> /\ Head(SubSeq(d, 1, n)) = d[1]
<1>1. SubSeq(d, 1, n) \in Seq(1 .. q) /\ Len(SubSeq(d, 1, n)) = n
  OBVIOUS
<1>2. SubSeq(d, 1, n)[1] = d[1]
  OBVIOUS
<1> QED  BY <1>1, <1>2

LEMMA FrameIsTyped ==
  ASSUME NEW e \in Nat, size \in Nat, size > 0
  PROVE  Tile(e) \in Seq(Sample) /\ Len(Tile(e)) = FrameSize
         /\ \A k \in 1 .. FrameSize : Tile(e)[k] \in Sample /\ Tile(e)[k][1] = e
<1> USE SizesAreNat
<1>1. \A k \in 1 .. FrameSize : (k - 1) % size \in Nat
  OBVIOUS
<1>2. \A k \in 1 .. FrameSize : <<e, ((k - 1) % size) + 1>> \in Sample
  BY <1>1 DEF Sample
<1> QED  BY <1>2 DEF Tile

(* The detector.                                                             *)
LEMMA BeginFrameTyped ==
  ASSUME DetectorTypeOK, temp_index = 0, frameCount < SAMPLES, input \in Seq(Sample),
         NEW f \in Seq(Sample), Len(f) = FrameSize, BeginFrame(f)
  PROVE  DetectorTypeOK' /\ input' \in Seq(Sample) /\ seen' = seen
<1> USE SizesAreNat
<1>1. frameCount' \in 0 .. FrameSize + SAMPLES - 1 /\ temp_index' = 0
      /\ temp_index' + frameCount' <= FrameSize + SAMPLES - 1
  BY DEF BeginFrame, DetectorTypeOK
<1>2. \A i \in Indices : i \in frameCount .. frameCount + FrameSize - 1 =>
        f[i - frameCount + 1] \in Nat \X Nat
  <2> SUFFICES ASSUME NEW i \in Indices, i \in frameCount .. frameCount + FrameSize - 1
               PROVE  f[i - frameCount + 1] \in Nat \X Nat
    OBVIOUS
  <2>1. i - frameCount + 1 \in 1 .. Len(f)
    BY DEF DetectorTypeOK
  <2> QED  BY <2>1 DEF Sample
<1>3. pArraySamples' \in [Indices -> Nat \X Nat]
  BY <1>2 DEF BeginFrame, DetectorTypeOK
<1> QED  BY <1>1, <1>3 DEF BeginFrame, DetectorTypeOK, reported

LEMMA WindowIsTyped ==
  ASSUME DetectorTypeOK, frameCount >= SAMPLES
  PROVE  Window \in Seq(Sample) /\ Len(Window) = SAMPLES
         /\ \A k \in 1 .. SAMPLES : Window[k] = pArraySamples[temp_index + k - 1]
<1> USE SizesAreNat
<1>1. \A k \in 1 .. SAMPLES : temp_index + k - 1 \in Indices
  BY DEF DetectorTypeOK, Indices
<1>2. \A k \in 1 .. SAMPLES : pArraySamples[temp_index + k - 1] \in Sample
  BY <1>1 DEF DetectorTypeOK, Sample
<1> QED  BY <1>2 DEF Window

LEMMA CutWindowTyped ==
  ASSUME DetectorTypeOK, seen \in Seq(Sample), CutWindow
  PROVE  DetectorTypeOK' /\ seen' \in Seq(Sample) /\ input' = input
<1> USE SizesAreNat
<1>1. PICK b \in Verdicts :
        /\ Dial(b)
        /\ permissionFlag' = (b # Blank /\ prevDialButton = Blank)
        /\ prevDialButton' = b
  BY DEF CutWindow
<1>2. b \in Buttons \cup {Blank}
  BY VerdictsAreButtons
<1>3. /\ temp_index' \in Nat /\ frameCount' \in 0 .. FrameSize + SAMPLES - 1
      /\ temp_index' + frameCount' <= FrameSize + SAMPLES - 1
  BY DEF CutWindow, DetectorTypeOK
<1>4. /\ dialButtons' \in [0 .. MaxButtons -> Buttons \cup {Blank}]
      /\ indexForDialButtons' \in 0 .. MaxButtons - 1
  BY <1>1, <1>2 DEF Dial, Report, DetectorTypeOK
<1>5. prevDialButton' \in Buttons \cup {Blank} /\ permissionFlag' \in BOOLEAN
  BY <1>1, <1>2
<1>6. seen' \in Seq(Sample)
  BY WindowIsTyped DEF CutWindow
<1>7. pArraySamples' \in [Indices -> Nat \X Nat]
  BY DEF CutWindow, DetectorTypeOK
<1> QED  BY <1>3, <1>4, <1>5, <1>6, <1>7 DEF DetectorTypeOK, CutWindow

LEMMA EndFrameTyped ==
  ASSUME DetectorTypeOK, EndFrame
  PROVE  /\ DetectorTypeOK' /\ temp_index' = 0 /\ frameCount' < SAMPLES
         /\ UNCHANGED <<input, seen>>
<1> USE SizesAreNat
<1>1. \A i \in Indices : i < frameCount => i + temp_index \in Indices
  BY DEF DetectorTypeOK, Indices
<1>2. pArraySamples' \in [Indices -> Nat \X Nat]
  BY <1>1 DEF EndFrame, LeftOver, DetectorTypeOK
<1>3. /\ temp_index' = 0 /\ frameCount' = frameCount /\ frameCount < SAMPLES
      /\ UNCHANGED <<prevDialButton, permissionFlag, dialButtons, indexForDialButtons>>
      /\ UNCHANGED <<input, seen>>
  BY DEF EndFrame, reported
<1> QED  BY <1>2, <1>3 DEF DetectorTypeOK

LEMMA DetectorStays ==
  ASSUME DetectorTypeOK, UNCHANGED detector
  PROVE  DetectorTypeOK' /\ UNCHANGED <<frameCount, temp_index, input, seen>>
  BY DEF DetectorTypeOK, detector, array, reported

LEMMA TypedStep == Typed /\ [Next]_vars => Typed'
<1> SUFFICES ASSUME Typed, [Next]_vars PROVE Typed'
  OBVIOUS
<1> USE SizesAreNat
<1>1. /\ DetectorTypeOK /\ Kept /\ StaleCountIsGood
      /\ size \in Sizes /\ size \in Nat /\ data \in Seq(1 .. queued) /\ dbl \in Seq(1 .. queued)
      /\ m_lock \in BOOLEAN /\ m_isRunning \in BOOLEAN /\ exists \in BOOLEAN
      /\ crashed \in BOOLEAN /\ timedOut \in BOOLEAN
      /\ main \in {"loop", "put", "deinit", "down"}
      /\ run \in {"test", "count", "copy", "fill", "detect", "off"}
      /\ (run \in {"fill", "detect"} => dbl # <<>>)
      /\ buffSize \in 0 .. queued
      /\ queued \in Nat /\ input \in Seq(Sample) /\ seen \in Seq(Sample)
  BY DtmfAssumption DEF Typed, TypeOK
<1>2. CASE UNCHANGED vars
  <2>1. /\ UNCHANGED detector
        /\ UNCHANGED <<size, data, m_lock, m_isRunning, exists, main, run, buffSize, dbl, crashed,
                       queued, timedOut>>
    BY <1>2 DEF vars, plugin, thread
  <2>2. DetectorTypeOK' /\ UNCHANGED <<frameCount, temp_index, input, seen>>
    BY <1>1, <2>1, DetectorStays
  <2> QED  BY <1>1, <2>1, <2>2 DEF Typed, TypeOK, Kept, StaleCountIsGood
<1>3. ASSUME UNCHANGED size, UNCHANGED detector, UNCHANGED thread, UNCHANGED crashed,
             PutLock \/ Deinit \/ Waited \/ WaitTimesOut
      PROVE  Typed'
  <2>1. DetectorTypeOK' /\ UNCHANGED <<frameCount, temp_index, input, seen>>
    BY <1>1, <1>3, DetectorStays
  <2>2. UNCHANGED <<size, data, run, buffSize, dbl, crashed, queued>>
    BY <1>3 DEF PutLock, Deinit, Waited, WaitTimesOut, Delete, thread
  <2>3. /\ m_lock' \in BOOLEAN /\ m_isRunning' \in BOOLEAN /\ exists' \in BOOLEAN
        /\ main' \in {"loop", "put", "deinit", "down"} /\ timedOut' \in BOOLEAN
    BY <1>1, <1>3 DEF PutLock, Deinit, Waited, WaitTimesOut, Delete
  <2> QED  BY <1>1, <2>1, <2>2, <2>3 DEF Typed, TypeOK, Kept, StaleCountIsGood
<1>4. ASSUME UNCHANGED size, PutData PROVE Typed'
  <2>1. DetectorTypeOK' /\ UNCHANGED <<frameCount, temp_index, input, seen>>
    BY <1>1, <1>4, DetectorStays DEF PutData
  <2>2. PICK n \in Lengths : PutAll(n) /\ queued' = queued + n
    BY <1>4 DEF PutData
  <2>3. n \in Nat
    BY DtmfAssumption
  <2>4. data' \in Seq(1 .. queued') /\ Len(data') = Len(data) + n /\ queued' \in Nat
    BY <1>1, <2>2, <2>3, PutIsTyped DEF PutAll
  <2>5. dbl' \in Seq(1 .. queued') /\ buffSize' \in 0 .. queued'
    <3>1. dbl \in Seq(1 .. queued + n) /\ buffSize \in 0 .. queued + n
      BY <1>1, <2>3, SeqWidens
    <3> QED  BY <1>4, <2>2, <3>1 DEF PutData, thread
  <2>6. /\ main' = "loop" /\ m_lock' = FALSE
        /\ UNCHANGED <<m_isRunning, exists, run, buffSize, dbl, crashed, timedOut>>
    BY <1>4 DEF PutData, thread
  <2>7. StaleCountIsGood'
    BY <1>1, <2>3, <2>4, <2>6 DEF StaleCountIsGood
  <2>8. Kept'
    BY <1>1, <2>1, <2>2, <2>3, <2>4, <2>6 DEF Kept
  <2> QED  BY <1>1, <1>4, <2>1, <2>4, <2>5, <2>6, <2>7, <2>8 DEF Typed, TypeOK
<1>5. ASSUME UNCHANGED size, TestRunning PROVE Typed'
  <2>1. DetectorTypeOK' /\ UNCHANGED <<frameCount, temp_index, input, seen>>
    BY <1>1, <1>5, DetectorStays DEF TestRunning
  <2>2. run = "test" /\ run' \in {"count", "off"}
    BY <1>5 DEF TestRunning, IfRunning
  <2>3. UNCHANGED <<data, m_lock, m_isRunning, exists, main, buffSize, dbl, crashed, queued,
                    timedOut>>
    BY <1>5 DEF TestRunning, Main
  <2> QED  BY <1>1, <1>5, <2>1, <2>2, <2>3 DEF Typed, TypeOK, Kept, StaleCountIsGood
<1>6. ASSUME UNCHANGED size, Count PROVE Typed'
  <2>1. DetectorTypeOK' /\ UNCHANGED <<frameCount, temp_index, input, seen>>
    BY <1>1, <1>6, DetectorStays DEF Count
  <2>2. run = "count" /\ buffSize' = Len(data)
        /\ run' = (IF buffSize' < FrameSize THEN "test" ELSE "copy")
    BY <1>6 DEF Count
  <2>3. UNCHANGED <<data, m_lock, m_isRunning, exists, main, dbl, crashed, queued, timedOut>>
    BY <1>6 DEF Count, Main
  <2> QED  BY <1>1, <1>6, <2>1, <2>2, <2>3 DEF Typed, TypeOK, Kept, StaleCountIsGood
<1>7. ASSUME UNCHANGED size, Copy PROVE Typed'
  <2>1. DetectorTypeOK' /\ UNCHANGED <<frameCount, temp_index, input, seen>>
    BY <1>1, <1>7, DetectorStays DEF Copy
  <2>2. /\ run = "copy" /\ UNCHANGED buffSize
        /\ UNCHANGED <<m_lock, m_isRunning, exists, main, queued, timedOut>>
    BY <1>7 DEF Copy, Main
  <2>3. buffSize \in FrameSize .. Len(data)
    BY <1>1, <2>2 DEF StaleCountIsGood
  <2>4. /\ dbl' = dbl \o SubSeq(data, 1, buffSize) /\ data' = <<>> /\ run' = "fill"
        /\ crashed' = crashed
    BY <1>1, <1>7, <2>3 DEF Copy, Cleared
  <2>5. dbl = <<>>
    BY <1>1, <2>2 DEF Kept
  <2>6. dbl' \in Seq(1 .. queued') /\ dbl' # <<>>
    BY <1>1, <2>2, <2>3, <2>4, <2>5, TakenIsTyped
  <2>7. data' \in Seq(1 .. queued') /\ Len(data') = 0
    BY <2>4
  <2>8. Kept' /\ StaleCountIsGood'
    BY <1>1, <2>1, <2>2, <2>4, <2>7 DEF Kept, StaleCountIsGood
  <2>9. run' \in {"test", "count", "copy", "fill", "detect", "off"} /\ crashed' \in BOOLEAN
        /\ buffSize' \in 0 .. queued' /\ queued' \in Nat
    BY <1>1, <2>2, <2>4
  <2>10. TypeOK'
    BY ONLY <1>1, <1>7, <2>1, <2>2, <2>6, <2>7, <2>9 DEF TypeOK
  <2> QED  BY <1>1, <2>1, <2>8, <2>9, <2>10 DEF Typed
<1>8. ASSUME UNCHANGED size, Fill PROVE Typed'
  <2>1. run = "fill" /\ size > 0 /\ dbl # <<>>
    BY <1>1, <1>8 DEF Fill
  <2>2. Head(dbl) \in Nat
    BY <1>1, <2>1
  <2>3. Tile(Head(dbl)) \in Seq(Sample) /\ Len(Tile(Head(dbl))) = FrameSize
    BY <1>1, <2>1, <2>2, FrameIsTyped
  <2>4. temp_index = 0 /\ frameCount < SAMPLES
    BY <1>1, <2>1 DEF Kept
  <2>5. DetectorTypeOK' /\ input' \in Seq(Sample) /\ seen' = seen
    BY <1>1, <1>8, <2>3, <2>4, BeginFrameTyped DEF Fill
  <2>6. /\ run' = "detect" /\ UNCHANGED <<data, dbl, buffSize>> /\ crashed' \in BOOLEAN
        /\ UNCHANGED <<m_lock, m_isRunning, exists, main, queued, timedOut>>
    BY <1>1, <1>8 DEF Fill, Main
  <2> QED  BY <1>1, <1>8, <2>1, <2>5, <2>6 DEF Typed, TypeOK, Kept, StaleCountIsGood
<1>9. ASSUME UNCHANGED size, Detect PROVE Typed'
  <2>1. DetectorTypeOK' /\ seen' \in Seq(Sample) /\ input' = input
    BY <1>1, <1>9, CutWindowTyped DEF Detect
  <2>2. /\ run = "detect" /\ UNCHANGED <<run, data, dbl, buffSize>> /\ crashed' \in BOOLEAN
        /\ UNCHANGED <<m_lock, m_isRunning, exists, main, queued, timedOut>>
    BY <1>1, <1>9 DEF Detect, Main, thread
  <2> QED  BY <1>1, <1>9, <2>1, <2>2 DEF Typed, TypeOK, Kept, StaleCountIsGood
<1>10. ASSUME UNCHANGED size, Detected PROVE Typed'
  <2>1. /\ DetectorTypeOK' /\ temp_index' = 0 /\ frameCount' < SAMPLES
        /\ UNCHANGED <<input, seen>>
    BY <1>1, <1>10, EndFrameTyped DEF Detected
  <2>2. /\ run' = "test" /\ dbl' = <<>> /\ UNCHANGED <<data, buffSize>> /\ crashed' \in BOOLEAN
        /\ UNCHANGED <<m_lock, m_isRunning, exists, main, queued, timedOut>>
    BY <1>1, <1>10 DEF Detected, Main, Typed, TypeOK
  <2>3. dbl' \in Seq(1 .. queued')
    BY <2>2
  <2> QED  BY <1>1, <1>10, <2>1, <2>2, <2>3 DEF Typed, TypeOK, Kept, StaleCountIsGood
<1>11. CASE Next
  <2>1. UNCHANGED size /\ (MainStep \/ ThreadStep)
    BY <1>11 DEF Next
  <2>2. ASSUME MainStep PROVE Typed'
    BY <1>3, <1>4, <2>1, <2>2
       DEF MainStep, PutLock, Deinit, Waited, WaitTimesOut, Delete
  <2>3. ASSUME ThreadStep PROVE Typed'
    BY <1>5, <1>6, <1>7, <1>8, <1>9, <1>10, <2>1, <2>3 DEF ThreadStep
  <2> QED  BY <2>1, <2>2, <2>3
<1> QED  BY <1>2, <1>11

(* The array, its counts and the plugin's two lists are well-formed for any
   sizes: a frame always fits behind what the last one left.                 *)
THEOREM PluginTyped == Safety => []TypeOK
<1>1. Typed => TypeOK
  BY DEF Typed
<1> QED  BY <1>1, TypedInit, TypedStep, PTL DEF Safety

(* For entries and lists of any size, the count of the first locked section is
   good in the second.                                                       *)
THEOREM CountStaysGood == Safety => []StaleCountIsGood
<1>1. Typed => StaleCountIsGood
  BY DEF Typed
<1> QED  BY <1>1, TypedInit, TypedStep, PTL DEF Safety

-----------------------------------------------------------------------------
(* The detector is deleted once, and not before the thread is off unless the
   wait gave up; a thread that is off stays so.                              *)
Outlives == (~exists /\ ~timedOut => run = "off") /\ (~exists <=> main = "down")

LEMMA OutlivesInit == Init => Outlives
  BY DEF Init, Outlives

LEMMA OutlivesStep == Outlives /\ [Next]_vars => Outlives'
<1> SUFFICES ASSUME Outlives, [Next]_vars PROVE Outlives'
  OBVIOUS
<1> USE DEF Outlives
<1>1. ASSUME PutLock \/ PutData \/ Deinit PROVE Outlives'
  BY <1>1 DEF PutLock, PutData, Deinit, thread
<1>2. ASSUME Waited \/ WaitTimesOut PROVE Outlives'
  BY <1>2 DEF Waited, WaitTimesOut, Wait, Delete, thread
<1>3. ASSUME ThreadStep PROVE Outlives'
  <2>1. run # "off" /\ UNCHANGED <<exists, main, timedOut>>
    BY <1>3 DEF ThreadStep, TestRunning, Count, Copy, Fill, Detect, Detected, Main
  <2> QED  BY <2>1
<1>4. CASE UNCHANGED vars
  BY <1>4 DEF vars, plugin, thread
<1> QED  BY <1>1, <1>2, <1>3, <1>4 DEF Next, MainStep

-----------------------------------------------------------------------------
(* The windows: what was cut is the input's beginning, and what the array still
   holds is its end.                                                         *)
Cuts ==
  /\ Len(input) = Len(seen) + frameCount
  /\ \A i \in 1 .. Len(seen) : seen[i] = input[i]
  /\ \A k \in 1 .. frameCount : pArraySamples[temp_index + k - 1] = input[Len(seen) + k]

LEMMA JoinParts ==
  ASSUME NEW a \in Seq(Sample), NEW b \in Seq(Sample)
  PROVE  /\ a \o b \in Seq(Sample) /\ Len(a \o b) = Len(a) + Len(b)
         /\ \A i \in 1 .. Len(a) : (a \o b)[i] = a[i]
         /\ \A k \in 1 .. Len(b) : (a \o b)[Len(a) + k] = b[k]
<1>1. a \o b \in Seq(Sample) /\ Len(a \o b) = Len(a) + Len(b)
  OBVIOUS
<1>2. \A i \in 1 .. Len(a) : (a \o b)[i] = a[i]
  OBVIOUS
<1>3. \A k \in 1 .. Len(b) : (a \o b)[Len(a) + k] = b[k]
  OBVIOUS
<1> QED  BY <1>1, <1>2, <1>3

LEMMA JoinIsWhole ==
  ASSUME NEW a \in Seq(Sample), NEW b \in Seq(Sample), NEW c \in Seq(Sample),
         Len(c) = Len(a) + Len(b),
         \A i \in 1 .. Len(a) : a[i] = c[i],
         \A k \in 1 .. Len(b) : b[k] = c[Len(a) + k]
  PROVE  a \o b = c
<1>1. a \o b \in Seq(Sample) /\ Len(a \o b) = Len(c)
  OBVIOUS
<1>2. ASSUME NEW i \in 1 .. Len(c) PROVE (a \o b)[i] = c[i]
  <2>1. CASE i \in 1 .. Len(a)
    BY <2>1
  <2>2. CASE i \notin 1 .. Len(a)
    <3>1. i - Len(a) \in 1 .. Len(b) /\ i = Len(a) + (i - Len(a))
      BY <2>2
    <3>2. PICK k \in 1 .. Len(b) : i = Len(a) + k
      BY <3>1
    <3>3. (a \o b)[Len(a) + k] = b[k]
      OBVIOUS
    <3> QED  BY <3>2, <3>3
  <2> QED  BY <2>1, <2>2
<1>3. a \o b \in Seq(Sample) /\ c \in Seq(Sample)
  OBVIOUS
<1> QED  BY <1>1, <1>2, <1>3

LEMMA BeginFrameCuts ==
  ASSUME DetectorTypeOK, Cuts, temp_index = 0, frameCount < SAMPLES,
         input \in Seq(Sample), seen \in Seq(Sample),
         NEW f \in Seq(Sample), Len(f) = FrameSize, BeginFrame(f)
  PROVE  Cuts'
<1> USE SizesAreNat
<1>1. /\ temp_index' = 0 /\ frameCount' = frameCount + FrameSize /\ seen' = seen
      /\ frameCount \in Nat /\ Len(input) \in Nat /\ Len(seen) \in Nat
  BY DEF BeginFrame, DetectorTypeOK
<1>2. /\ Len(input') = Len(input) + FrameSize
      /\ \A i \in 1 .. Len(input) : input'[i] = input[i]
      /\ \A k \in 1 .. FrameSize : input'[Len(input) + k] = f[k]
  <2>1. input' = input \o f
    BY DEF BeginFrame
  <2> QED  BY <2>1, JoinParts
<1>3. \A i \in Indices :
        pArraySamples'[i] = IF i \in frameCount .. frameCount + FrameSize - 1
                            THEN f[i - frameCount + 1] ELSE pArraySamples[i]
  BY DEF BeginFrame
<1>4. ASSUME NEW k \in 1 .. frameCount
      PROVE  pArraySamples'[k - 1] = input'[Len(seen) + k]
  <2>1. k - 1 \in Indices /\ k - 1 \notin frameCount .. frameCount + FrameSize - 1
    BY <1>1 DEF Indices
  <2>2. pArraySamples'[k - 1] = pArraySamples[k - 1]
    BY <1>3, <2>1
  <2>3. pArraySamples[k - 1] = input[Len(seen) + k] /\ Len(seen) + k \in 1 .. Len(input)
    BY <1>1 DEF Cuts
  <2> QED  BY <1>2, <2>2, <2>3
<1>5. ASSUME NEW k \in frameCount + 1 .. frameCount + FrameSize
      PROVE  pArraySamples'[k - 1] = input'[Len(seen) + k]
  <2>1. /\ k - 1 \in Indices /\ k - 1 \in frameCount .. frameCount + FrameSize - 1
        /\ (k - 1) - frameCount + 1 = k - frameCount /\ k - frameCount \in 1 .. FrameSize
        /\ Len(input) + (k - frameCount) = Len(seen) + k
    BY <1>1 DEF Indices, Cuts
  <2>2. pArraySamples'[k - 1] = f[k - frameCount]
    BY <1>3, <2>1
  <2> QED  BY <1>2, <2>1, <2>2
<1>6. \A k \in 1 .. frameCount' : pArraySamples'[temp_index' + k - 1] = input'[Len(seen') + k]
  <2> SUFFICES ASSUME NEW k \in 1 .. frameCount'
               PROVE  pArraySamples'[temp_index' + k - 1] = input'[Len(seen') + k]
    OBVIOUS
  <2>1. temp_index' + k - 1 = k - 1
    BY <1>1
  <2>2. k \in 1 .. frameCount \/ k \in frameCount + 1 .. frameCount + FrameSize
    BY <1>1
  <2> QED  BY <1>1, <1>4, <1>5, <2>1, <2>2
<1>7. \A i \in 1 .. Len(seen) : seen[i] = input'[i]
  BY <1>1, <1>2 DEF Cuts
<1>8. Len(input') = Len(seen') + frameCount'
  BY <1>1, <1>2 DEF Cuts
<1> QED  BY <1>1, <1>6, <1>7, <1>8 DEF Cuts

LEMMA CutWindowCuts ==
  ASSUME DetectorTypeOK, Cuts, input \in Seq(Sample), seen \in Seq(Sample), CutWindow
  PROVE  Cuts'
<1> USE SizesAreNat
<1>1. /\ temp_index' = temp_index + SAMPLES /\ frameCount' = frameCount - SAMPLES
      /\ pArraySamples' = pArraySamples /\ input' = input /\ seen' = seen \o Window
      /\ frameCount \in Nat /\ temp_index \in Nat /\ frameCount >= SAMPLES
      /\ Len(input) \in Nat /\ Len(seen) \in Nat
  BY DEF CutWindow, DetectorTypeOK
<1>2. /\ Len(seen') = Len(seen) + SAMPLES
      /\ \A i \in 1 .. Len(seen) : seen'[i] = seen[i]
      /\ \A k \in 1 .. SAMPLES : seen'[Len(seen) + k] = pArraySamples[temp_index + k - 1]
  <2>1. Window \in Seq(Sample) /\ Len(Window) = SAMPLES
        /\ \A k \in 1 .. SAMPLES : Window[k] = pArraySamples[temp_index + k - 1]
    BY <1>1, WindowIsTyped
  <2> HIDE DEF Window
  <2> QED  BY <1>1, <2>1, JoinParts
<1>3. \A i \in 1 .. Len(seen') : seen'[i] = input[i]
  <2> SUFFICES ASSUME NEW i \in 1 .. Len(seen') PROVE seen'[i] = input[i]
    OBVIOUS
  <2>1. CASE i <= Len(seen)
    BY <1>1, <1>2, <2>1 DEF Cuts
  <2>2. CASE i > Len(seen)
    <3>1. PICK k \in 1 .. SAMPLES : i = Len(seen) + k
      <4>1. i - Len(seen) \in 1 .. SAMPLES /\ i = Len(seen) + (i - Len(seen))
        BY <1>1, <1>2, <2>2
      <4> QED  BY <4>1
    <3>2. k \in 1 .. frameCount
      BY <1>1
    <3> QED  BY <1>2, <3>1, <3>2 DEF Cuts
  <2> QED  BY <1>1, <1>2, <2>1, <2>2
<1>4. \A k \in 1 .. frameCount' : pArraySamples[temp_index' + k - 1] = input[Len(seen') + k]
  <2> SUFFICES ASSUME NEW k \in 1 .. frameCount'
               PROVE  pArraySamples[temp_index' + k - 1] = input[Len(seen') + k]
    OBVIOUS
  <2>1. /\ SAMPLES + k \in 1 .. frameCount
        /\ temp_index' + k - 1 = temp_index + (SAMPLES + k) - 1
        /\ Len(seen') + k = Len(seen) + (SAMPLES + k)
    BY <1>1, <1>2
  <2> QED  BY <2>1 DEF Cuts
<1>5. Len(input') = Len(seen') + frameCount'
  <2>1. Len(input) = Len(seen) + frameCount
    BY DEF Cuts
  <2> QED  BY ONLY <1>1, <1>2, <2>1, SizesAreNat
<1> QED  BY <1>1, <1>3, <1>4, <1>5 DEF Cuts

LEMMA EndFrameCuts ==
  ASSUME DetectorTypeOK, Cuts, seen \in Seq(Sample), EndFrame
  PROVE  Cuts'
<1> USE SizesAreNat
<1>1. /\ temp_index' = 0 /\ UNCHANGED <<frameCount, input, seen>>
      /\ frameCount \in Nat /\ temp_index \in Nat /\ Len(seen) \in Nat
      /\ temp_index + frameCount <= FrameSize + SAMPLES - 1 /\ frameCount < SAMPLES
  BY DEF EndFrame, DetectorTypeOK
<1>2. \A i \in Indices : i < frameCount => pArraySamples'[i] = pArraySamples[i + temp_index]
  BY DEF EndFrame, LeftOver
<1>3. ASSUME NEW k \in 1 .. frameCount
      PROVE  pArraySamples'[0 + k - 1] = input[Len(seen) + k]
  <2>1. k - 1 \in Indices /\ k - 1 < frameCount /\ 0 + k - 1 = k - 1
        /\ (k - 1) + temp_index = temp_index + k - 1
    BY <1>1 DEF Indices
  <2>2. pArraySamples'[k - 1] = pArraySamples[temp_index + k - 1]
    BY <1>2, <2>1
  <2> QED  BY <2>1, <2>2 DEF Cuts
<1> QED  BY <1>1, <1>3 DEF Cuts

(* No sample is lost, repeated or moved between frames of any size and windows
   of any other.                                                             *)
THEOREM WindowsFollow == Safety => []WindowsAreConsecutive
<1>1. Init => Cuts
  BY DEF Init, InitDetector, Cuts
<1>2. Typed /\ Cuts /\ [Next]_vars => Cuts'
  <2> SUFFICES ASSUME Typed, Cuts, [Next]_vars PROVE Cuts'
    OBVIOUS
  <2>1. DetectorTypeOK /\ input \in Seq(Sample) /\ seen \in Seq(Sample)
    BY DEF Typed, TypeOK
  <2>2. ASSUME UNCHANGED detector PROVE Cuts'
    BY <2>2 DEF Cuts, detector, array
  <2>3. ASSUME Fill PROVE Cuts'
    <3>1. run = "fill" /\ size \in Nat /\ size > 0
      BY <2>3, DtmfAssumption DEF Fill, Typed, TypeOK
    <3>2. Head(dbl) \in Nat
      <4>1. dbl # <<>> /\ dbl \in Seq(1 .. queued) /\ queued \in Nat
        BY <3>1 DEF Typed, TypeOK
      <4> QED  BY <4>1
    <3>3. Tile(Head(dbl)) \in Seq(Sample) /\ Len(Tile(Head(dbl))) = FrameSize
      BY <3>1, <3>2, FrameIsTyped
    <3>4. temp_index = 0 /\ frameCount < SAMPLES
      BY <3>1 DEF Typed, Kept
    <3> QED  BY <2>1, <2>3, <3>3, <3>4, BeginFrameCuts DEF Fill
  <2>4. ASSUME Detect PROVE Cuts'
    BY <2>1, <2>4, CutWindowCuts DEF Detect
  <2>5. ASSUME Detected PROVE Cuts'
    BY <2>1, <2>5, EndFrameCuts DEF Detected
  <2>6. ASSUME MainStep \/ TestRunning \/ Count \/ Copy PROVE UNCHANGED detector
    BY <2>6 DEF MainStep, PutLock, PutData, Deinit, Waited, WaitTimesOut, Delete, TestRunning,
                Count, Copy
  <2>7. CASE UNCHANGED vars
    BY <2>2, <2>7 DEF vars
  <2> QED  BY <2>2, <2>3, <2>4, <2>5, <2>6, <2>7 DEF Next, ThreadStep
<1>3. Typed /\ Cuts => WindowsAreConsecutive
  <2> SUFFICES ASSUME Typed, Cuts PROVE WindowsAreConsecutive
    OBVIOUS
  <2>1. /\ input \in Seq(Sample) /\ seen \in Seq(Sample) /\ frameCount \in Nat
        /\ Len(seen) \in Nat
    BY DEF Typed, TypeOK, DetectorTypeOK
  <2>2. DOMAIN Pending = 1 .. frameCount
        /\ \A k \in 1 .. frameCount : Pending[k] = input[Len(seen) + k]
    BY DEF Pending, Cuts
  <2>3. \A k \in 1 .. frameCount : Pending[k] \in Sample
    <3>1. \A k \in 1 .. frameCount : Len(seen) + k \in 1 .. Len(input)
      BY <2>1 DEF Cuts
    <3> QED  BY <2>1, <2>2, <3>1
  <2>4. Pending \in Seq(Sample) /\ Len(Pending) = frameCount
    BY <2>1, <2>3 DEF Pending
  <2> QED  BY <2>1, <2>2, <2>4, JoinIsWhole DEF Cuts, WindowsAreConsecutive
<1> QED  BY <1>1, <1>2, <1>3, TypedInit, TypedStep, PTL DEF Safety

-----------------------------------------------------------------------------
(* The entries analysed. The input is a row of whole frames, one entry each.  *)
LEMMA DivMod ==
  ASSUME NEW F \in Nat \ {0}, NEW x \in Nat
  PROVE  \E p \in Int, s \in 0 .. F - 1 : p = x \div F /\ x = F * p + s
<1>1. x % F \in 0 .. F - 1 /\ x \div F \in Int
  OBVIOUS
<1>2. x = F * (x \div F) + (x % F)
  OBVIOUS
<1> QED  BY <1>1, <1>2

LEMMA FrameOf ==
  ASSUME NEW F \in Nat \ {0}, NEW x \in Nat, NEW m \in Nat
  PROVE  /\ F * m <= x /\ x < F * m + F => x \div F = m
         /\ x < F * m => x \div F < m
<1>1. PICK p \in Int, s \in 0 .. F - 1 : p = x \div F /\ x = F * p + s
  BY DivMod
<1>2. ASSUME F * m <= x, x < F * m + F PROVE p = m
  <2>1. CASE p >= m + 1
    <3>1. F * p >= F * m + F
      BY <2>1, Z3
    <3> QED  BY <1>1, <1>2, <3>1
  <2>2. CASE p <= m - 1
    <3>1. F * p <= F * m - F
      BY <2>2, Z3
    <3> QED  BY <1>1, <1>2, <3>1
  <2> QED  BY <2>1, <2>2
<1>3. ASSUME x < F * m PROVE p < m
  <2>1. CASE p >= m
    <3>1. F * p >= F * m
      BY <2>1, Z3
    <3> QED  BY <1>1, <1>3, <3>1
  <2> QED  BY <2>1
<1> QED  BY <1>1, <1>2, <1>3

Entry(i) == input[i][1]

Order ==
  /\ \E m \in Nat : Len(input) = FrameSize * m
  /\ \A i, j \in DOMAIN input : i <= j => Entry(i) <= Entry(j)
  /\ \A i, j \in DOMAIN input :
       Entry(i) = Entry(j) <=> (i - 1) \div FrameSize = (j - 1) \div FrameSize
  /\ \A i \in DOMAIN input : Entry(i) <= queued
  /\ \A i \in DOMAIN input, k \in DOMAIN data : Entry(i) < data[k]
  /\ run = "fill" => /\ \A i \in DOMAIN input : Entry(i) < Head(dbl)
                     /\ \A k \in DOMAIN data : Head(dbl) < data[k]

LEMMA FillOrder ==
  ASSUME Typed, Order, Fill
  PROVE  Order'
<1> USE SizesAreNat
<1> DEFINE e == Head(dbl)
           L == Len(input)
<1>1. /\ run = "fill" /\ size \in Nat /\ size > 0 /\ dbl # <<>> /\ dbl \in Seq(1 .. queued)
      /\ queued \in Nat /\ input \in Seq(Sample) /\ L \in Nat
  BY DtmfAssumption DEF Fill, Typed, TypeOK
<1>2. e \in Nat /\ e <= queued
  BY <1>1
<1>3. /\ run' = "detect" /\ UNCHANGED <<data, dbl, queued>> /\ input' = input \o Tile(e)
  BY DEF Fill, Main, BeginFrame
<1>4. Tile(e) \in Seq(Sample) /\ Len(Tile(e)) = FrameSize
      /\ \A k \in 1 .. FrameSize : Tile(e)[k][1] = e
  BY <1>1, <1>2, FrameIsTyped
<1> HIDE DEF e, L
<1>5. /\ input' \in Seq(Sample) /\ Len(input') = L + FrameSize
      /\ \A i \in 1 .. L : input'[i] = input[i]
      /\ \A k \in 1 .. FrameSize : input'[L + k] = Tile(e)[k]
  BY <1>1, <1>3, <1>4, JoinParts DEF L
<1>6. PICK m \in Nat : L = FrameSize * m
  BY DEF Order, L
<1>7. \A i \in 1 .. L : /\ i \in DOMAIN input /\ Entry(i)' = Entry(i) /\ Entry(i) \in Nat
                        /\ Entry(i) < e /\ (i - 1) \div FrameSize < m
  <2> SUFFICES ASSUME NEW i \in 1 .. L
               PROVE  /\ i \in DOMAIN input /\ Entry(i)' = Entry(i) /\ Entry(i) \in Nat
                      /\ Entry(i) < e /\ (i - 1) \div FrameSize < m
    OBVIOUS
  <2>1. i \in DOMAIN input /\ input[i] \in Sample /\ Entry(i) < e
    <3>1. i \in DOMAIN input /\ input[i] \in Sample
      BY <1>1 DEF L
    <3>2. \A j \in DOMAIN input : Entry(j) < Head(dbl)
      BY <1>1 DEF Order
    <3> QED  BY <3>1, <3>2 DEF e
  <2>2. Entry(i)' = Entry(i) /\ Entry(i) \in Nat
    BY <1>5, <2>1 DEF Entry, Sample
  <2>3. i - 1 \in Nat /\ i - 1 < FrameSize * m
    BY <1>1, <1>6
  <2>4. (i - 1) \div FrameSize < m
    BY <2>3, FrameOf
  <2> QED  BY <2>1, <2>2, <2>4
<1>8. \A i \in L + 1 .. L + FrameSize : Entry(i)' = e /\ (i - 1) \div FrameSize = m
  <2> SUFFICES ASSUME NEW i \in L + 1 .. L + FrameSize
               PROVE  Entry(i)' = e /\ (i - 1) \div FrameSize = m
    OBVIOUS
  <2>1. i - L \in 1 .. FrameSize /\ i = L + (i - L)
    BY <1>1
  <2>2. Entry(i)' = e
    BY <1>4, <1>5, <2>1 DEF Entry
  <2>3. i - 1 \in Nat /\ FrameSize * m <= i - 1 /\ i - 1 < FrameSize * m + FrameSize
    BY <1>1, <1>6
  <2> QED  BY <2>2, <2>3, FrameOf
<1>9. DOMAIN input' = 1 .. L + FrameSize /\ DOMAIN input = 1 .. L
  BY <1>1, <1>5 DEF L
<1>10. \A i \in DOMAIN input' : i \in 1 .. L \/ i \in L + 1 .. L + FrameSize
  BY <1>1, <1>9
<1>11. \A i, j \in DOMAIN input' : i <= j => Entry(i)' <= Entry(j)'
  <2> SUFFICES ASSUME NEW i \in DOMAIN input', NEW j \in DOMAIN input', i <= j
               PROVE  Entry(i)' <= Entry(j)'
    OBVIOUS
  <2>1. CASE i \in 1 .. L /\ j \in 1 .. L
    BY <1>7, <2>1 DEF Order
  <2>2. CASE i \in 1 .. L /\ j \in L + 1 .. L + FrameSize
    BY <1>2, <1>7, <1>8, <2>2
  <2>3. CASE i \in L + 1 .. L + FrameSize /\ j \in L + 1 .. L + FrameSize
    BY <1>2, <1>8, <2>3
  <2> QED  BY <1>1, <1>10, <2>1, <2>2, <2>3
<1>12. \A i, j \in DOMAIN input' :
         Entry(i)' = Entry(j)' <=> (i - 1) \div FrameSize = (j - 1) \div FrameSize
  <2> SUFFICES ASSUME NEW i \in DOMAIN input', NEW j \in DOMAIN input'
               PROVE  Entry(i)' = Entry(j)' <=> (i - 1) \div FrameSize = (j - 1) \div FrameSize
    OBVIOUS
  <2> DEFINE di == (i - 1) \div FrameSize
             dj == (j - 1) \div FrameSize
  <2>1. CASE i \in 1 .. L /\ j \in 1 .. L
    BY <1>7, <2>1 DEF Order
  <2>2. CASE i \in 1 .. L /\ j \in L + 1 .. L + FrameSize
    <3>1. Entry(i)' < Entry(j)' /\ Entry(i)' \in Nat /\ Entry(j)' \in Nat /\ di < m /\ dj = m
      BY <1>2, <1>7, <1>8, <2>2
    <3>2. di \in Int
      BY <2>2, <1>1
    <3> HIDE DEF di, dj
    <3>3. Entry(i)' # Entry(j)' /\ di # dj
      BY <3>1, <3>2
    <3> QED  BY <3>3 DEF di, dj
  <2>3. CASE j \in 1 .. L /\ i \in L + 1 .. L + FrameSize
    <3>1. Entry(j)' < Entry(i)' /\ Entry(i)' \in Nat /\ Entry(j)' \in Nat /\ dj < m /\ di = m
      BY <1>2, <1>7, <1>8, <2>3
    <3>2. dj \in Int
      BY <2>3, <1>1
    <3> HIDE DEF di, dj
    <3>3. Entry(i)' # Entry(j)' /\ di # dj
      BY <3>1, <3>2
    <3> QED  BY <3>3 DEF di, dj
  <2>4. CASE i \in L + 1 .. L + FrameSize /\ j \in L + 1 .. L + FrameSize
    BY <1>8, <2>4
  <2> QED  BY <1>10, <2>1, <2>2, <2>3, <2>4
<1>13. \A i \in DOMAIN input' : Entry(i)' <= queued'
  BY <1>2, <1>3, <1>7, <1>8, <1>10 DEF Order
<1>14. \A i \in DOMAIN input', k \in DOMAIN data' : Entry(i)' < data'[k]
  <2> SUFFICES ASSUME NEW i \in DOMAIN input', NEW k \in DOMAIN data
               PROVE  Entry(i)' < data[k]
    BY <1>3
  <2>1. e < data[k]
    BY <1>1 DEF Order, e
  <2>2. CASE i \in 1 .. L
    BY <1>7, <2>2 DEF Order
  <2>3. CASE i \in L + 1 .. L + FrameSize
    BY <1>8, <2>1, <2>3
  <2> QED  BY <1>10, <2>2, <2>3
<1>15. \E n \in Nat : Len(input') = FrameSize * n
  <2>1. FrameSize * (m + 1) = FrameSize * m + FrameSize
    BY Z3
  <2> QED  BY <1>5, <1>6, <2>1
<1> QED  BY <1>3, <1>11, <1>12, <1>13, <1>14, <1>15 DEF Order

LEMMA OrderStep == Typed /\ Order /\ [Next]_vars => Order'
<1> SUFFICES ASSUME Typed, Order, [Next]_vars PROVE Order'
  OBVIOUS
<1> USE SizesAreNat
<1>1. /\ queued \in Nat /\ data \in Seq(1 .. queued) /\ dbl \in Seq(1 .. queued)
      /\ input \in Seq(Sample) /\ \A i \in DOMAIN input : Entry(i) \in Nat
  <2>1. \A i \in DOMAIN input : input[i] \in Sample
    BY DEF Typed
  <2> QED  BY <2>1 DEF Typed, TypeOK, Entry, Sample
<1>2. ASSUME input' = input, UNCHANGED <<data, queued>>, run' # "fill" PROVE Order'
  BY <1>2 DEF Order, Entry
<1>3. ASSUME input' = input, UNCHANGED <<data, queued, run, dbl>> PROVE Order'
  BY <1>3 DEF Order, Entry
<1>4. ASSUME PutData PROVE Order'
  <2>1. PICK n \in Lengths : PutAll(n) /\ queued' = queued + n
    BY <1>4 DEF PutData
  <2>2. n \in Nat /\ UNCHANGED <<run, dbl, input>>
    BY <1>4, DtmfAssumption DEF PutData, thread, detector
  <2>3. \A k \in DOMAIN data' : \/ k \in DOMAIN data /\ data'[k] = data[k]
                                \/ data'[k] \in Nat /\ data'[k] > queued
    BY <1>1, <2>1, <2>2 DEF PutAll
  <2>4. \A i \in DOMAIN input : Entry(i)' = Entry(i) /\ Entry(i) <= queued' /\ Entry(i) <= queued
    BY <1>1, <2>1, <2>2 DEF Order, Entry
  <2>5. \A i \in DOMAIN input, k \in DOMAIN data' : Entry(i) < data'[k]
    <3> SUFFICES ASSUME NEW i \in DOMAIN input, NEW k \in DOMAIN data'
                 PROVE  Entry(i) < data'[k]
      OBVIOUS
    <3>1. CASE k \in DOMAIN data /\ data'[k] = data[k]
      <4>1. \A l \in DOMAIN data : Entry(i) < data[l]
        BY DEF Order
      <4> QED  BY <3>1, <4>1
    <3>2. CASE data'[k] \in Nat /\ data'[k] > queued
      BY <1>1, <2>4, <3>2
    <3> QED  BY <2>3, <3>1, <3>2
  <2>6. run = "fill" => \A k \in DOMAIN data' : Head(dbl) < data'[k]
    <3> SUFFICES ASSUME run = "fill" PROVE \A k \in DOMAIN data' : Head(dbl) < data'[k]
      OBVIOUS
    <3>1. dbl # <<>>
      BY DEF Typed, TypeOK
    <3>2. Head(dbl) \in Nat /\ Head(dbl) <= queued
      BY <1>1, <3>1
    <3>3. \A k \in DOMAIN data : Head(dbl) < data[k]
      BY DEF Order
    <3> QED  BY <1>1, <2>3, <3>2, <3>3
  <2> QED  BY <2>2, <2>4, <2>5, <2>6 DEF Order
<1>5. ASSUME Copy PROVE Order'
  <2>1. run = "copy" /\ UNCHANGED <<input, queued>> /\ dbl = <<>>
    BY <1>5 DEF Copy, Main, detector, Typed, Kept
  <2>2. buffSize \in FrameSize .. Len(data)
    BY <2>1 DEF Typed, StaleCountIsGood
  <2>3. dbl' = dbl \o SubSeq(data, 1, buffSize) /\ data' = <<>> /\ run' = "fill"
    BY <1>1, <1>5, <2>2 DEF Copy, Cleared
  <2>4. Head(dbl') = data[1] /\ 1 \in DOMAIN data
    BY <1>1, <2>1, <2>2, <2>3, TakenIsTyped
  <2>5. \A i \in DOMAIN input : Entry(i)' = Entry(i) /\ Entry(i) < data[1]
    BY <2>1, <2>4 DEF Entry, Order
  <2>6. DOMAIN data' = {}
    BY <2>3
  <2>7. \A i \in DOMAIN input' : Entry(i)' < Head(dbl')
    BY <2>1, <2>4, <2>5
  <2>8. (\E m \in Nat : Len(input') = FrameSize * m)
        /\ (\A i, j \in DOMAIN input' : i <= j => Entry(i)' <= Entry(j)')
        /\ (\A i, j \in DOMAIN input' :
              Entry(i)' = Entry(j)' <=> (i - 1) \div FrameSize = (j - 1) \div FrameSize)
        /\ (\A i \in DOMAIN input' : Entry(i)' <= queued')
    BY <2>1, <2>5 DEF Order
  <2> QED  BY <2>6, <2>7, <2>8 DEF Order
<1>6. ASSUME PutLock \/ Deinit \/ Waited \/ WaitTimesOut \/ Detect
      PROVE  input' = input /\ UNCHANGED <<data, queued, run, dbl>>
  BY <1>6 DEF PutLock, Deinit, Waited, WaitTimesOut, Delete, Detect, Main, CutWindow, thread,
              detector
<1>7. ASSUME TestRunning \/ Count \/ Detected
      PROVE  input' = input /\ UNCHANGED <<data, queued>> /\ run' # "fill"
  BY <1>7 DEF TestRunning, IfRunning, Count, Detected, EndFrame, Main, detector
<1>8. CASE UNCHANGED vars
  BY <1>3, <1>8 DEF vars, plugin, thread, detector
<1> QED  BY <1>2, <1>3, <1>4, <1>5, <1>6, <1>7, <1>8, FillOrder
           DEF Next, MainStep, ThreadStep

LEMMA OrderInit == Init => Order
<1>1. Init => input = <<>> /\ data = <<>> /\ run = "test"
  BY DEF Init, InitDetector
<1>2. ASSUME input = <<>> PROVE \E m \in Nat : Len(input) = FrameSize * m
  <2>1. 0 \in Nat /\ Len(input) = 0 /\ FrameSize * 0 = 0
    BY <1>2, SizesAreNat
  <2> QED  BY <2>1
<1>3. ASSUME input = <<>> PROVE DOMAIN input = {}
  BY <1>3
<1> QED  BY <1>1, <1>2, <1>3 DEF Order

(* For frames, entries and lists of any size, whatever put_data does between
   the thread's two sections: the frames analysed are entries in their order,
   no two of the same.                                                       *)
THEOREM EntriesInOrder == Safety => []AnalysedInOrder
<1>1. Order => AnalysedInOrder
  BY DEF Order, AnalysedInOrder, Entry
<1> QED  BY <1>1, OrderInit, TypedInit, TypedStep, OrderStep, PTL DEF Safety

-----------------------------------------------------------------------------
(* The presses. The flags know the last two windows, and the array holds the
   presses since it was last full, in their order.                           *)
LEMMA TurnOf ==
  ASSUME NEW M \in Nat \ {0}, NEW c \in Nat
  PROVE  \E q \in Nat : c = M * q + (c % M) /\ c % M \in 0 .. M - 1
<1>1. c % M \in 0 .. M - 1 /\ c \div M \in Int /\ c = M * (c \div M) + (c % M)
  OBVIOUS
<1> DEFINE q == c \div M
           r == c % M
<1>2. q \in Int /\ r \in 0 .. M - 1 /\ c = M * q + r
  BY <1>1
<1> HIDE DEF q, r
<1>3. CASE q <= -1
  <2>1. M * q <= -M
    BY <1>2, <1>3, Z3
  <2> QED  BY <1>2, <2>1
<1>4. q \in Nat
  BY <1>2, <1>3
<1> QED  BY <1>2, <1>4 DEF r

LEMMA PlaceInTurn ==
  ASSUME NEW M \in Nat \ {0}, NEW q \in Nat, NEW r \in 0 .. M - 1
  PROVE  (M * q + r) % M = r
<1> DEFINE x == M * q + r
<1>1. x \in Nat /\ M * q <= x /\ x < M * q + M
  <2>1. M * q \in Nat
    BY Z3
  <2> QED  BY <2>1
<1>2. PICK p \in Nat : x = M * p + (x % M) /\ x % M \in 0 .. M - 1
  BY <1>1, TurnOf
<1> DEFINE s == x % M
<1>3. s \in 0 .. M - 1 /\ x = M * p + s
  BY <1>2
<1> HIDE DEF s
<1>4. ~(p >= q + 1)
  <2> SUFFICES ASSUME p >= q + 1 PROVE FALSE
    OBVIOUS
  <2>1. M * p >= M * q + M
    BY Z3
  <2> QED  BY <1>1, <1>3, <2>1
<1>5. ~(p <= q - 1)
  <2> SUFFICES ASSUME p <= q - 1 PROVE FALSE
    OBVIOUS
  <2>1. M * p <= M * q - M
    BY Z3
  <2> QED  BY <1>1, <1>3, <2>1
<1>6. p = q
  BY <1>4, <1>5
<1>7. s = r
  BY <1>1, <1>3, <1>6, Z3
<1> QED  BY <1>7 DEF s

Place(k) == Cardinality({p \in Presses : p <= k})

Windows == Len(verdicts)

Flags ==
  /\ verdicts \in Seq(Buttons \cup {Blank})
  /\ prevDialButton = IF Windows = 0 THEN Blank ELSE verdicts[Windows]
  /\ permissionFlag <=> /\ Windows > 0 /\ verdicts[Windows] # Blank
                        /\ Windows = 1 \/ verdicts[Windows - 1] = Blank

LEMMA PressesAreFinite ==
  ASSUME verdicts \in Seq(Buttons \cup {Blank})
  PROVE  /\ IsFiniteSet(Presses) /\ Cardinality(Presses) \in Nat
         /\ \A k \in Presses : Place(k) \in 1 .. Cardinality(Presses)
<1>1. Presses \in SUBSET (1 .. Len(verdicts)) /\ Len(verdicts) \in Nat
  BY DEF Presses
<1>2. IsFiniteSet(Presses)
  <2>1. IsFiniteSet(1 .. Len(verdicts))
    BY <1>1, FS_Interval
  <2> QED  BY <1>1, <2>1, FS_Subset
<1>3. ASSUME NEW k \in Presses PROVE Place(k) \in 1 .. Cardinality(Presses)
  <2> DEFINE S == {p \in Presses : p <= k}
  <2>1. S \in SUBSET Presses /\ k \in S
    BY <1>1
  <2> HIDE DEF S
  <2>2. IsFiniteSet(S) /\ Cardinality(S) <= Cardinality(Presses)
    BY <1>2, <2>1, FS_Subset
  <2>3. Cardinality(S) \in Nat /\ Cardinality(Presses) \in Nat /\ Cardinality(S) # 0
    BY <1>2, <2>1, <2>2, FS_CardinalityType, FS_EmptySet
  <2>4. Place(k) = Cardinality(S)
    BY DEF Place, S
  <2> QED  BY <2>2, <2>3, <2>4
<1> QED  BY <1>2, <1>3, FS_CardinalityType

(* One window more: Presses grows by it or stays.                            *)
LEMMA PressesGrow ==
  ASSUME Flags, NEW b \in Buttons \cup {Blank}, verdicts' = Append(verdicts, b)
  PROVE  /\ Windows' = Windows + 1 /\ \A k \in 1 .. Windows : verdicts'[k] = verdicts[k]
         /\ verdicts'[Windows + 1] = b
         /\ Presses' = IF permissionFlag /\ b # Blank THEN Presses \cup {Windows + 1}
                       ELSE Presses
         /\ \A k \in Presses : k \in 1 .. Windows /\ Place(k)' = Place(k)
<1>1. Windows \in Nat /\ Windows = Len(verdicts)
  BY DEF Flags, Windows
<1>2. /\ Windows' = Windows + 1 /\ \A k \in 1 .. Windows : verdicts'[k] = verdicts[k]
      /\ verdicts'[Windows + 1] = b /\ DOMAIN verdicts' = 1 .. Windows + 1
      /\ DOMAIN verdicts = 1 .. Windows
  BY DEF Flags, Windows
<1>3. \A k \in 1 .. Windows : SecondWindow(k)' <=> SecondWindow(k)
  <2> SUFFICES ASSUME NEW k \in 1 .. Windows PROVE SecondWindow(k)' <=> SecondWindow(k)
    OBVIOUS
  <2>1. verdicts'[k] = verdicts[k] /\ (k > 1 => verdicts'[k - 1] = verdicts[k - 1])
        /\ (k > 2 => verdicts'[k - 2] = verdicts[k - 2])
    BY <1>1, <1>2
  <2> QED  BY <1>1, <2>1 DEF SecondWindow
<1>4. PICK n \in Nat : n = Windows
  BY <1>1
<1>5. SecondWindow(n + 1)' <=> permissionFlag /\ b # Blank
  <2>1. (permissionFlag <=> /\ n > 0 /\ verdicts[n] # Blank
                            /\ n = 1 \/ verdicts[n - 1] = Blank)
    BY <1>4 DEF Flags
  <2>2. CASE n = 0
    <3>1. SecondWindow(0 + 1)' <=> FALSE
      BY DEF SecondWindow
    <3> QED  BY <2>1, <2>2, <3>1
  <2>3. CASE n = 1
    <3>1. /\ verdicts'[2] = b /\ verdicts'[1] = verdicts[1] /\ n + 1 = 2
          /\ (permissionFlag <=> verdicts[1] # Blank)
      BY <1>2, <1>4, <2>1, <2>3
    <3>2. SecondWindow(2)' <=> verdicts'[2] # Blank /\ verdicts'[1] # Blank
      BY DEF SecondWindow
    <3> QED  BY <3>1, <3>2
  <2>4. CASE n > 1
    <3>1. /\ verdicts'[n + 1] = b /\ verdicts'[n] = verdicts[n] /\ verdicts'[n - 1] = verdicts[n - 1]
          /\ n > 1 /\ n + 1 > 1 /\ n + 1 # 2 /\ (n + 1) - 1 = n /\ (n + 1) - 2 = n - 1
      BY <1>2, <1>4, <2>4
    <3>2. permissionFlag <=> verdicts[n] # Blank /\ verdicts[n - 1] = Blank
      BY <2>1, <3>1
    <3>3. SecondWindow(n + 1)' <=> /\ n + 1 > 1 /\ verdicts'[n + 1] # Blank
                                   /\ verdicts'[(n + 1) - 1] # Blank
                                   /\ n + 1 = 2 \/ verdicts'[(n + 1) - 2] = Blank
      BY DEF SecondWindow
    <3> QED  BY ONLY <3>1, <3>2, <3>3
  <2> QED  BY <2>2, <2>3, <2>4
<1>6. Presses = {k \in 1 .. n : SecondWindow(k)}
      /\ Presses' = {k \in 1 .. n + 1 : SecondWindow(k)'}
  BY <1>2, <1>4 DEF Presses
<1>7. Presses' = IF permissionFlag /\ b # Blank THEN Presses \cup {n + 1} ELSE Presses
  <2>1. \A k \in 1 .. n : SecondWindow(k)' <=> SecondWindow(k)
    BY <1>3, <1>4
  <2> HIDE DEF SecondWindow
  <2>2. \A k : k \in 1 .. n + 1 <=> k \in 1 .. n \/ k = n + 1
    OBVIOUS
  <2>3. n + 1 \notin 1 .. n
    OBVIOUS
  <2>4. \A k : k \in Presses' <=> k \in Presses \/ (k = n + 1 /\ permissionFlag /\ b # Blank)
    BY ONLY <1>5, <1>6, <2>1, <2>2, <2>3, Zenon
  <2> QED  BY <2>4
<1>8. ASSUME NEW k \in Presses PROVE k \in 1 .. Windows /\ Place(k)' = Place(k)
  <2>1. k \in 1 .. n /\ \A p \in Presses : p \in 1 .. n
    BY <1>6
  <2>2. ~(n + 1 <= k)
    BY <2>1
  <2>3. {p \in Presses' : p <= k} = {p \in Presses : p <= k}
    BY <1>7, <2>2
  <2> QED  BY <1>4, <2>1, <2>3 DEF Place
<1> QED  BY <1>2, <1>4, <1>7, <1>8

LEMMA CutWindowFlags ==
  ASSUME Flags, NEW b \in Buttons \cup {Blank}, verdicts' = Append(verdicts, b),
         permissionFlag' = (b # Blank /\ prevDialButton = Blank), prevDialButton' = b
  PROVE  Flags'
<1>1. PICK n \in Nat : n = Windows
  BY DEF Flags, Windows
<1>2. /\ Windows' = n + 1 /\ \A k \in 1 .. n : verdicts'[k] = verdicts[k]
      /\ verdicts'[n + 1] = b
  BY <1>1, PressesGrow
<1>3. verdicts' \in Seq(Buttons \cup {Blank})
  BY DEF Flags
<1>4. prevDialButton = IF n = 0 THEN Blank ELSE verdicts[n]
  BY <1>1 DEF Flags
<1>5. permissionFlag' <=> /\ n + 1 > 0 /\ verdicts'[n + 1] # Blank
                          /\ n + 1 = 1 \/ verdicts'[(n + 1) - 1] = Blank
  <2>1. n + 1 > 0 /\ (n + 1 = 1 <=> n = 0) /\ (n + 1) - 1 = n /\ (n # 0 => n \in 1 .. n)
    OBVIOUS
  <2>2. n = 0 => prevDialButton = Blank
    BY <1>4
  <2>3. n # 0 => prevDialButton = verdicts'[n]
    BY <1>2, <1>4, <2>1
  <2> QED  BY <1>2, <2>1, <2>2, <2>3, Zenon
<1>6. prevDialButton' = IF Windows' = 0 THEN Blank ELSE verdicts'[Windows']
  BY <1>2
<1>7. permissionFlag' <=> /\ Windows' > 0 /\ verdicts'[Windows'] # Blank
                          /\ Windows' = 1 \/ verdicts'[Windows' - 1] = Blank
  BY <1>2, <1>5, Zenon
<1> QED  BY ONLY <1>3, <1>6, <1>7, Zenon DEF Flags

LEMMA CutWindowReports ==
  ASSUME DetectorTypeOK, Flags, PressesReported, CutWindow
  PROVE  Flags' /\ PressesReported'
<1> USE SizesAreNat
<1>1. PICK b \in Verdicts :
        /\ Dial(b)
        /\ permissionFlag' = (b # Blank /\ prevDialButton = Blank)
        /\ prevDialButton' = b /\ verdicts' = Append(verdicts, b)
  BY DEF CutWindow
<1>2. b \in Buttons \cup {Blank}
  BY VerdictsAreButtons
<1>3. Flags'
  BY <1>1, <1>2, CutWindowFlags
<1>4. PICK n \in Nat : n = Windows
  BY DEF Flags, Windows
<1>5. /\ \A k \in 1 .. n : verdicts'[k] = verdicts[k]
      /\ verdicts'[n + 1] = b
      /\ Presses' = IF permissionFlag /\ b # Blank THEN Presses \cup {n + 1} ELSE Presses
      /\ \A k \in Presses : k \in 1 .. n /\ Place(k)' = Place(k)
  BY <1>1, <1>2, <1>4, PressesGrow
<1>6. PICK c \in Nat : c = Cardinality(Presses)
  BY PressesAreFinite DEF Flags
<1>7. PICK x \in 0 .. MaxButtons - 1 : x = indexForDialButtons /\ x = c % MaxButtons
  BY <1>6 DEF PressesReported, DetectorTypeOK
<1>8. \A k \in Presses : /\ Place(k) \in 1 .. c
                         /\ Place(k) > c - x =>
                              dialButtons[(Place(k) - 1) % MaxButtons] = verdicts[k]
  BY <1>6, <1>7, PressesAreFinite DEF Flags, PressesReported, Place
<1>9. CASE ~(permissionFlag /\ b # Blank)
  <2>1. UNCHANGED <<dialButtons, indexForDialButtons, Presses>>
    BY <1>1, <1>5, <1>9 DEF Dial
  <2>2. \A k \in Presses :
          Place(k)' > c - x => dialButtons[(Place(k)' - 1) % MaxButtons] = verdicts'[k]
    BY <1>5, <1>8
  <2> QED  BY <1>3, <1>6, <1>7, <2>1, <2>2 DEF PressesReported, Place
<1>10. CASE permissionFlag /\ b # Blank
  <2>1. /\ dialButtons' = [dialButtons EXCEPT ![x] = b, ![x + 1] = Blank]
        /\ indexForDialButtons' = IF x + 1 >= MaxButtons THEN 0 ELSE x + 1
    BY <1>1, <1>7, <1>10 DEF Dial, Report
  <2>2. dialButtons'[x] = b
        /\ \A i \in 0 .. x - 1 : dialButtons'[i] = dialButtons[i]
    BY <1>7, <2>1 DEF DetectorTypeOK
  <2>3. Presses' = Presses \cup {n + 1} /\ n + 1 \notin Presses
    BY <1>5, <1>10
  <2>4. IsFiniteSet(Presses)
    BY PressesAreFinite DEF Flags
  <2>5. Cardinality(Presses') = c + 1
    BY <1>6, <2>3, <2>4, FS_AddElement
  <2>6. PICK q \in Nat : c = MaxButtons * q + x
    <3>1. MaxButtons \in Nat \ {0}
      OBVIOUS
    <3> QED  BY <1>7, <3>1, TurnOf
  <2>7. indexForDialButtons' = (c + 1) % MaxButtons
    <3>1. CASE x + 1 < MaxButtons
      <4>1. c + 1 = MaxButtons * q + (x + 1) /\ x + 1 \in 0 .. MaxButtons - 1
        BY <2>6, <3>1
      <4>2. PICK r \in 0 .. MaxButtons - 1 : r = x + 1 /\ c + 1 = MaxButtons * q + r
        BY <4>1
      <4>3. (MaxButtons * q + r) % MaxButtons = r
        BY PlaceInTurn
      <4>4. (c + 1) % MaxButtons = r
        BY <4>2, <4>3
      <4> QED  BY <2>1, <3>1, <4>2, <4>4
    <3>2. CASE x + 1 = MaxButtons
      <4>1. c + 1 = MaxButtons * (q + 1) + 0 /\ 0 \in 0 .. MaxButtons - 1 /\ q + 1 \in Nat
        BY <2>6, <3>2, Z3
      <4>2. (MaxButtons * (q + 1) + 0) % MaxButtons = 0
        BY <4>1, PlaceInTurn
      <4>3. (c + 1) % MaxButtons = 0
        BY <4>1, <4>2
      <4> QED  BY <2>1, <3>2, <4>3
    <3> QED  BY <3>1, <3>2
  <2>8. PICK y \in 0 .. MaxButtons - 1 : y = indexForDialButtons' /\ (y = x + 1 \/ y = 0)
    BY <2>1
  <2>9. ASSUME NEW k \in Presses', Place(k)' > (c + 1) - y
        PROVE  dialButtons'[(Place(k)' - 1) % MaxButtons] = verdicts'[k]
    <3>1. Place(n + 1)' = c + 1
      <4>1. \A p \in Presses' : p <= n + 1
        BY <1>5, <2>3
      <4>2. {p \in Presses' : p <= n + 1} = Presses'
        BY <4>1
      <4> QED  BY <2>5, <4>2 DEF Place
    <3>2. Place(k)' \in 1 .. c + 1
      BY <1>5, <1>8, <2>3, <3>1
    <3>3. y = x + 1
      BY <2>8, <2>9, <3>2
    <3>4. (c + 1) - y = MaxButtons * q
      <4>1. MaxButtons * q \in Nat
        BY Z3
      <4> QED  BY <2>6, <3>3, <4>1
    <3>5. CASE k = n + 1
      <4>1. (c + 1) - 1 = c /\ c % MaxButtons = x
        BY <1>7
      <4> QED  BY <1>5, <2>2, <3>1, <3>5, <4>1
    <3>6. CASE k \in Presses
      <4>1. PICK m \in Nat : m = Place(k) /\ Place(k)' = m /\ m \in 1 .. c /\ m > MaxButtons * q
        BY <1>5, <1>8, <2>9, <3>4, <3>6
      <4>2. (m - 1) - MaxButtons * q \in 0 .. x - 1
        <5>1. MaxButtons * q \in Nat
          BY Z3
        <5> QED  BY <2>6, <4>1, <5>1
      <4>3. PICK r \in 0 .. x - 1 : m - 1 = MaxButtons * q + r
        <5>1. MaxButtons * q \in Nat
          BY Z3
        <5>2. m - 1 = MaxButtons * q + ((m - 1) - MaxButtons * q)
          BY <4>1, <5>1
        <5> QED  BY <4>2, <5>2
      <4>4. r \in 0 .. MaxButtons - 1
        BY <1>7
      <4>5. (m - 1) % MaxButtons = r
        BY <4>3, <4>4, PlaceInTurn
      <4>6. m > c - x
        <5>1. MaxButtons * q \in Nat
          BY Z3
        <5> QED  BY <2>6, <4>1, <5>1
      <4>7. dialButtons[r] = verdicts[k]
        BY <1>8, <3>6, <4>1, <4>5, <4>6
      <4> QED  BY <1>5, <2>2, <3>6, <4>1, <4>3, <4>5, <4>7
    <3> QED  BY <2>3, <3>5, <3>6
  <2> QED  BY <1>3, <2>5, <2>7, <2>8, <2>9 DEF PressesReported, Place
<1> QED  BY <1>9, <1>10

(* For windows of any size, any sounds and an array of any length: what is in
   the array is each press, as its second window has it.                     *)
THEOREM PressesAreReported == Safety => []PressesReported
<1> DEFINE Inv == Flags /\ PressesReported
<1>1. Init => Inv
  <2> SUFFICES ASSUME Init PROVE Flags /\ PressesReported
    OBVIOUS
  <2>1. verdicts = <<>> /\ prevDialButton = Blank /\ ~permissionFlag /\ indexForDialButtons = 0
    BY DEF Init, InitDetector
  <2>2. Flags
    BY <2>1 DEF Flags, Windows
  <2>3. Presses = {} /\ Cardinality({}) = 0
    BY <2>1, FS_EmptySet DEF Presses
  <2>4. 0 % MaxButtons = 0
    <3>1. MaxButtons * 0 + 0 = 0 /\ 0 \in 0 .. MaxButtons - 1
      BY SizesAreNat
    <3> QED  BY <3>1, PlaceInTurn, SizesAreNat
  <2> QED  BY <2>1, <2>2, <2>3, <2>4 DEF PressesReported
<1>2. Typed /\ Inv /\ [Next]_vars => Inv'
  <2> SUFFICES ASSUME Typed, Flags, PressesReported, [Next]_vars
               PROVE  Flags' /\ PressesReported'
    OBVIOUS
  <2>1. ASSUME UNCHANGED <<reported, verdicts>> PROVE Flags' /\ PressesReported'
    BY <2>1 DEF reported, Flags, Windows, PressesReported, Presses, SecondWindow
  <2>2. ASSUME Detect PROVE Flags' /\ PressesReported'
    BY <2>2, CutWindowReports DEF Detect, Typed, TypeOK
  <2>3. ASSUME UNCHANGED vars \/ MainStep \/ TestRunning \/ Count \/ Copy \/ Fill \/ Detected
        PROVE  UNCHANGED <<reported, verdicts>>
    BY <2>3 DEF vars, MainStep, PutLock, PutData, Deinit, Waited, WaitTimesOut, Delete,
                TestRunning, Count, Copy, Fill, Detected, BeginFrame, EndFrame, detector
  <2> QED  BY <2>1, <2>2, <2>3 DEF Next, ThreadStep
<1>3. Inv => PressesReported
  OBVIOUS
<1> HIDE DEF Inv
<1> QED  BY <1>1, <1>2, <1>3, TypedInit, TypedStep, PTL DEF Safety
-----------------------------------------------------------------------------
(* What DTMF_detection takes for a button.                                   *)
LEMMA LoudestIsLoudest ==
  ASSUME NEW m \in Nat, NEW T, \A k \in m .. m + 3 : T[k] \in Nat
  PROVE  \A j \in m .. m + 3 : T[j] <= T[Loudest(T, m .. m + 3)]
<1>1. m .. m + 3 = {m, m + 1, m + 2, m + 3}
  OBVIOUS
<1>2. T[m] \in Nat /\ T[m + 1] \in Nat /\ T[m + 2] \in Nat /\ T[m + 3] \in Nat
  OBVIOUS
<1>3. \E k \in m .. m + 3 : \A j \in m .. m + 3 : T[j] < T[k] \/ (T[j] = T[k] /\ k <= j)
  BY <1>1, <1>2
<1>4. PICK k : k = Loudest(T, m .. m + 3)
  OBVIOUS
<1>5. \A j \in m .. m + 3 : T[j] < T[k] \/ (T[j] = T[k] /\ k <= j)
  BY <1>3, <1>4 DEF Loudest
<1>6. k \in m .. m + 3
  BY <1>4, LoudestOfFour
<1> QED  BY <1>4, <1>5, <1>6

LEMMA TimesAsLoud ==
  ASSUME NEW a \in Nat, NEW b \in Nat \ {0}, NEW n \in Nat, a \div b >= n
  PROVE  a >= n * b
<1>1. PICK p \in Int, s \in 0 .. b - 1 : p = a \div b /\ a = b * p + s
  BY DivMod
<1>2. b * p >= b * n
  BY <1>1, Z3
<1>3. b * n = n * b /\ b * n \in Int /\ b * p \in Int
  BY <1>1, Z3
<1> QED  BY <1>1, <1>2, <1>3

LEMMA OutIsLouder ==
  ASSUME NEW T, NEW k, NEW j, T[k] \in Nat, T[j] \in Nat, NEW n \in {2, 6, 16},
         StandsOut(T, k, j, n)
  PROVE  n * T[j] <= T[k]
<1>1. PICK b \in Nat \ {0} : b = AtLeast1(T[j]) /\ T[j] <= b
  BY DEF AtLeast1
<1>2. T[k] >= n * b
  BY <1>1, TimesAsLoud DEF StandsOut
<1>3. n \in Nat /\ n * b >= n * T[j] /\ n * b \in Nat /\ n * T[j] \in Nat
  BY <1>1
<1> QED  BY <1>2, <1>3

(* Whatever the filters find in a window: the button reported is that of the
   loudest row and the loudest column, both sixteen times as loud as any other
   sound that is looked for, and as a dial tone that is not as loud as one of
   the two, six times as loud as that, or, in column 4, the column twice. So a
   third dial tone passes only if it is exactly as loud as one of the two
   (DtmfDetector.cpp:207-289).                                               *)
THEOREM ReportedStandsOut ==
  ASSUME NEW T \in [Dialled \cup Others -> Nat], DTMF_detection(T) # Blank
  PROVE  \E r \in Rows, c \in Columns :
           /\ DTMF_detection(T) = <<r, c>>
           /\ \A j \in Rows : T[j] <= T[r]
           /\ \A j \in Columns : T[j] <= T[c]
           /\ \A j \in Others : 16 * T[j] <= T[r] /\ 16 * T[j] <= T[c]
           /\ \A j \in Dialled : \/ T[j] = T[r] \/ T[j] = T[c]
                                 \/ 6 * T[j] <= T[r] /\ 2 * T[j] <= T[c]
                                    /\ (c # 4 => 6 * T[j] <= T[c])
<1>1. PICK r, c : r = Loudest(T, Rows) /\ c = Loudest(T, Columns)
  OBVIOUS
<1>2. /\ DTMF_detection(T) = <<r, c>>
      /\ \A j \in Others : StandsOut(T, r, j, 16) /\ StandsOut(T, c, j, 16)
      /\ \A j \in Dialled :
           AtLeast1(T[j]) \notin {T[r], T[c]} =>
             StandsOut(T, r, j, 6) /\ StandsOut(T, c, j, IF c = 4 THEN 2 ELSE 6)
  BY <1>1 DEF DTMF_detection
<1>3. r \in Rows /\ \A j \in Rows : T[j] <= T[r]
  <2>1. Rows = 0 .. 0 + 3 /\ \A k \in 0 .. 0 + 3 : T[k] \in Nat
    BY DEF Rows, Dialled, Others
  <2>2. /\ Loudest(T, 0 .. 0 + 3) \in 0 .. 0 + 3
        /\ \A j \in 0 .. 0 + 3 : T[j] <= T[Loudest(T, 0 .. 0 + 3)]
    BY <2>1, LoudestOfFour, LoudestIsLoudest
  <2> QED  BY <1>1, <2>1, <2>2
<1>4. c \in Columns /\ \A j \in Columns : T[j] <= T[c]
  <2>1. Columns = 4 .. 4 + 3 /\ \A k \in 4 .. 4 + 3 : T[k] \in Nat
    BY DEF Columns, Dialled, Others
  <2>2. /\ Loudest(T, 4 .. 4 + 3) \in 4 .. 4 + 3
        /\ \A j \in 4 .. 4 + 3 : T[j] <= T[Loudest(T, 4 .. 4 + 3)]
    BY <2>1, LoudestOfFour, LoudestIsLoudest
  <2> QED  BY <1>1, <2>1, <2>2
<1>5. T[r] \in Nat /\ T[c] \in Nat /\ \A j \in Dialled \cup Others : T[j] \in Nat
  BY <1>3, <1>4 DEF Rows, Columns, Dialled
<1>6. \A j \in Others : 16 * T[j] <= T[r] /\ 16 * T[j] <= T[c]
  BY <1>2, <1>5, OutIsLouder
<1>7. ASSUME NEW j \in Dialled, T[j] # T[r], T[j] # T[c]
      PROVE  6 * T[j] <= T[r] /\ 2 * T[j] <= T[c] /\ (c # 4 => 6 * T[j] <= T[c])
  <2>1. T[j] \in Nat
    BY <1>5
  <2>2. CASE T[j] = 0
    BY <1>5, <2>2
  <2>3. CASE T[j] # 0
    <3>1. AtLeast1(T[j]) = T[j]
      BY <2>3 DEF AtLeast1
    <3>2. StandsOut(T, r, j, 6) /\ StandsOut(T, c, j, IF c = 4 THEN 2 ELSE 6)
      BY <1>2, <1>7, <3>1
    <3>3. 6 * T[j] <= T[r]
      BY <1>5, <2>1, <3>2, OutIsLouder
    <3>4. CASE c = 4
      BY <1>5, <2>1, <3>2, <3>3, <3>4, OutIsLouder
    <3>5. CASE c # 4
      <4>1. 6 * T[j] <= T[c]
        BY <1>5, <2>1, <3>2, <3>5, OutIsLouder
      <4>2. 2 * T[j] <= 6 * T[j]
        BY <2>1
      <4> QED  BY <1>5, <2>1, <3>3, <4>1, <4>2
    <3> QED  BY <3>4, <3>5
  <2> QED  BY <2>2, <2>3
<1> QED  BY <1>2, <1>3, <1>4, <1>6, <1>7

LEMMA PartsOf ==
  ASSUME NEW F \in Nat \ {0}, NEW x \in Nat
  PROVE  \E p \in Int, s \in 0 .. F - 1 : p = x \div F /\ s = x % F /\ x = F * p + s
<1>1. x % F \in 0 .. F - 1 /\ x \div F \in Int /\ x = F * (x \div F) + (x % F)
  OBVIOUS
<1> QED  BY <1>1

LEMMA PairIs ==
  ASSUME NEW x \in Sample, NEW y \in Sample, x[1] = y[1], x[2] = y[2]
  PROVE  x = y
  BY DEF Sample

-----------------------------------------------------------------------------
(* What a frame is made of: its entry's samples, again and again.            *)
SampleAt(i) == (((i - 1) % FrameSize) % size) + 1

Tiled == \A i \in DOMAIN input : size > 0 /\ input[i][2] = SampleAt(i)

LEMMA TiledStep ==
  ASSUME Typed, Order, Tiled, [Next]_vars
  PROVE  Tiled'
<1> USE SizesAreNat
<1>1. size' = size
  BY DEF Next, vars
<1>2. ASSUME input' = input PROVE Tiled'
  BY <1>1, <1>2 DEF Tiled, SampleAt
<1>3. CASE Fill
  <2>1. /\ run = "fill" /\ size \in Nat /\ size > 0 /\ dbl # <<>> /\ dbl \in Seq(1 .. queued)
        /\ queued \in Nat /\ input \in Seq(Sample)
    BY <1>3, DtmfAssumption DEF Fill, Typed, TypeOK
  <2>2. PICK e \in Nat : e = Head(dbl)
    BY <2>1
  <2>3. input' = input \o Tile(e)
    BY <1>3, <2>2 DEF Fill, BeginFrame
  <2>4. Tile(e) \in Seq(Sample) /\ Len(Tile(e)) = FrameSize
    BY <2>1, FrameIsTyped
  <2>5. PICK L \in Nat : L = Len(input) /\ DOMAIN input = 1 .. L
    BY <2>1
  <2>6. /\ DOMAIN input' = 1 .. L + FrameSize
        /\ \A i \in 1 .. L : input'[i] = input[i]
        /\ \A k \in 1 .. FrameSize : input'[L + k] = Tile(e)[k]
    BY <2>1, <2>3, <2>4, <2>5, JoinParts
  <2>7. PICK m \in Nat : L = FrameSize * m
    BY <2>5 DEF Order
  <2>8. ASSUME NEW k \in 1 .. FrameSize
        PROVE  input'[L + k][2] = SampleAt(L + k)
    <3>1. input'[L + k][2] = ((k - 1) % size) + 1
      BY <2>6 DEF Tile
    <3>2. PICK x : x = k - 1 /\ x \in 0 .. FrameSize - 1 /\ (L + k) - 1 = FrameSize * m + x
      BY <2>7
    <3>3. PICK y : y = (L + k) - 1
      OBVIOUS
    <3>4. y = FrameSize * m + x
      BY <3>2, <3>3
    <3>5. y % FrameSize = x
      <4>1. x \in 0 .. FrameSize - 1 /\ FrameSize \in Nat \ {0} /\ m \in Nat
        BY <3>2, DetectorAssumption
      <4>2. (FrameSize * m + x) % FrameSize = x
        BY <4>1, PlaceInTurn
      <4> QED  BY ONLY <3>4, <4>2, Zenon
    <3>6. SampleAt(L + k) = (x % size) + 1
      BY ONLY <3>3, <3>5 DEF SampleAt
    <3> QED  BY <3>1, <3>2, <3>6
  <2>9. ASSUME NEW i \in 1 .. L + FrameSize PROVE input'[i][2] = SampleAt(i)
    <3>1. CASE i \in 1 .. L
      BY <2>5, <2>6, <3>1 DEF Tiled
    <3>2. CASE i \notin 1 .. L
      <4>1. PICK k \in 1 .. FrameSize : i = L + k
        <5>1. i - L \in 1 .. FrameSize /\ i = L + (i - L)
          BY <3>2
        <5> QED  BY <5>1
      <4> QED  BY <2>8, <4>1
    <3> QED  BY <3>1, <3>2
  <2> QED  BY <1>1, <2>1, <2>6, <2>9 DEF Tiled, SampleAt
<1>4. CASE MainStep \/ TestRunning \/ Count \/ Copy \/ Detect \/ Detected \/ UNCHANGED vars
  <2>1. input' = input
    BY <1>4 DEF MainStep, PutLock, PutData, Deinit, Waited, WaitTimesOut, Delete, TestRunning,
                Count, Copy, Detect, CutWindow, Detected, EndFrame, detector, vars
  <2> QED  BY <1>2, <2>1
<1> QED  BY <1>3, <1>4 DEF Next, ThreadStep

PackedIfEntryFills == input # <<>> => (FrameIsPacked <=> size >= FrameSize)

LEMMA PackedWhenFilled ==
  ASSUME Typed, Order, Tiled, input # <<>>
  PROVE  FrameIsPacked <=> size >= FrameSize
<1> USE SizesAreNat
<1>1. /\ input \in Seq(Sample) /\ size \in Nat /\ 1 \in DOMAIN input /\ size > 0
      /\ Len(input) \in Nat /\ DOMAIN input = 1 .. Len(input)
  <2>1. input \in Seq(Sample) /\ size \in Nat
    BY DtmfAssumption DEF Typed, TypeOK
  <2> QED  BY <2>1 DEF Tiled
<1>2. ASSUME size >= FrameSize, NEW i \in DOMAIN input, NEW j \in DOMAIN input,
             input[i] = input[j]
      PROVE  i = j
  <2>1. (i - 1) \div FrameSize = (j - 1) \div FrameSize
    BY <1>2 DEF Order, Entry
  <2>2. PICK a \in Nat, b \in Nat : a = i - 1 /\ b = j - 1
    BY <1>1
  <2>3. \A x \in 0 .. FrameSize - 1 : x % size = x
    <3> SUFFICES ASSUME NEW x \in 0 .. FrameSize - 1 PROVE x % size = x
      OBVIOUS
    <3>1. x \in 0 .. size - 1 /\ size * 0 + x = x
      BY <1>1, <1>2
    <3>2. (size * 0 + x) % size = x
      BY <1>1, <3>1, PlaceInTurn
    <3> QED  BY <3>1, <3>2
  <2>4. PICK p \in Int, x \in 0 .. FrameSize - 1 :
          p = a \div FrameSize /\ x = a % FrameSize /\ a = FrameSize * p + x
    BY PartsOf
  <2>5. PICK q \in Int, y \in 0 .. FrameSize - 1 :
          q = b \div FrameSize /\ y = b % FrameSize /\ b = FrameSize * q + y
    BY PartsOf
  <2>6. SampleAt(i) = SampleAt(j)
    BY <1>2 DEF Tiled
  <2>7. SampleAt(i) = (x % size) + 1 /\ SampleAt(j) = (y % size) + 1
    BY <2>2, <2>4, <2>5 DEF SampleAt
  <2>8. SampleAt(i) = x + 1 /\ SampleAt(j) = y + 1
    BY <2>3, <2>7
  <2>9. x = y /\ p = q
    <3>1. x = y
      <4>1. x \in Int /\ y \in Int
        BY <1>1
      <4>2. x + 1 = y + 1
        BY ONLY <2>6, <2>8, Zenon
      <4> QED  BY ONLY <4>1, <4>2
    <3>2. a \div FrameSize = b \div FrameSize
      BY ONLY <2>1, <2>2, Zenon
    <3>3. p = q
      BY ONLY <2>4, <2>5, <3>2
    <3> QED  BY <3>1, <3>3
  <2>10. a = b
    BY <2>4, <2>5, <2>9
  <2> QED  BY <1>1, <2>2, <2>10
<1>3. ASSUME size < FrameSize PROVE ~FrameIsPacked
  <2>1. PICK m \in Nat : Len(input) = FrameSize * m
    BY DEF Order
  <2>2. FrameSize <= Len(input)
    <3>1. m # 0
      <4>1. FrameSize * 0 = 0
        OBVIOUS
      <4> QED  BY <1>1, <2>1, <4>1
    <3>2. FrameSize * m >= FrameSize
      BY <3>1, Z3
    <3> QED  BY <2>1, <3>2
  <2>3. size + 1 \in DOMAIN input /\ size + 1 # 1
    BY <1>1, <1>3, <2>2
  <2>4. 0 \div FrameSize = 0 /\ size \div FrameSize = 0
    <3>1. FrameSize * 0 = 0
      OBVIOUS
    <3> QED  BY <1>1, <1>3, <3>1, FrameOf
  <2>5. Entry(1) = Entry(size + 1)
    <3>1. 1 - 1 = 0 /\ (size + 1) - 1 = size
      BY <1>1
    <3> QED  BY <1>1, <2>3, <2>4, <3>1 DEF Order
  <2>6. SampleAt(1) = SampleAt(size + 1)
    <3>1. \A x \in 0 .. FrameSize - 1 : x % FrameSize = x
      <4> SUFFICES ASSUME NEW x \in 0 .. FrameSize - 1 PROVE x % FrameSize = x
        OBVIOUS
      <4>1. FrameSize * 0 + x = x /\ (FrameSize * 0 + x) % FrameSize = x
        BY PlaceInTurn
      <4> QED  BY <4>1
    <3>2. 0 % size = 0 /\ size % size = 0
      <4>1. size * 0 + 0 = 0 /\ size * 1 + 0 = size /\ 0 \in 0 .. size - 1
        BY <1>1
      <4>2. (size * 0 + 0) % size = 0 /\ (size * 1 + 0) % size = 0
        BY <1>1, <4>1, PlaceInTurn
      <4> QED  BY <4>1, <4>2
    <3>3. 0 \in 0 .. FrameSize - 1 /\ size \in 0 .. FrameSize - 1
          /\ 1 - 1 = 0 /\ (size + 1) - 1 = size
      BY <1>1, <1>3
    <3>4. 0 % FrameSize = 0 /\ size % FrameSize = size
      BY <3>1, <3>3
    <3> QED  BY <3>2, <3>3, <3>4 DEF SampleAt
  <2>7. input[1] \in Sample /\ input[size + 1] \in Sample
    BY <1>1, <2>3
  <2>8. input[1] = input[size + 1]
    <3>1. /\ input[1][1] = input[size + 1][1]
          /\ input[1][2] = input[size + 1][2]
      BY <1>1, <2>3, <2>5, <2>6 DEF Tiled, Entry
    <3> QED  BY <2>7, <3>1, PairIs
  <2> QED  BY <1>1, <2>3, <2>8 DEF FrameIsPacked
<1> QED  BY <1>1, <1>2, <1>3 DEF FrameIsPacked

(* "wait to pack a whole defined frame" (dtmf.cpp:204) is what happens exactly
   when an entry holds at least a frame's samples: otherwise, as a frame is one
   entry over and over (224-238), the first frame already holds a sample twice. *)
THEOREM FramesRepeatOneEntry == Safety => []PackedIfEntryFills
<1>1. Init => Tiled
  <2>1. Init => DOMAIN input = {}
    BY DEF Init, InitDetector
  <2> QED  BY <2>1 DEF Tiled
<1>2. Typed /\ Order /\ Tiled /\ [Next]_vars => Tiled'
  BY TiledStep
<1>3. Typed /\ Order /\ Tiled => PackedIfEntryFills
  BY PackedWhenFilled DEF PackedIfEntryFills
<1> QED
  BY <1>1, <1>2, <1>3, TypedInit, TypedStep, OrderInit, OrderStep, PTL DEF Safety

-----------------------------------------------------------------------------
(* Only a wait that timed out leaves a thread behind.                        *)
GaveUp == timedOut => main = "down"

LEMMA CrashStep ==
  ASSUME Typed, Outlives, GaveUp, CrashesOnlyLate, [Next]_vars
  PROVE  GaveUp' /\ CrashesOnlyLate'
<1>0. GaveUp'
  BY DEF Next, MainStep, ThreadStep, PutLock, PutData, Deinit, Waited, WaitTimesOut, Delete,
         TestRunning, Count, Copy, Fill, Detect, Detected, Main, vars, GaveUp
<1>1. size' = size /\ (timedOut => timedOut')
  <2>1. timedOut => timedOut'
    BY DEF Next, MainStep, ThreadStep, PutLock, PutData, Deinit, Waited, WaitTimesOut, Delete,
           TestRunning, Count, Copy, Fill, Detect, Detected, Main, vars, GaveUp
  <2> QED  BY <2>1 DEF Next, vars
<1>2. ASSUME crashed' => crashed PROVE GaveUp' /\ CrashesOnlyLate'
  BY <1>0, <1>1, <1>2 DEF CrashesOnlyLate
<1>3. ASSUME crashed' = ~exists, run # "off" PROVE GaveUp' /\ CrashesOnlyLate'
  BY <1>0, <1>1, <1>3 DEF CrashesOnlyLate, Outlives, Typed, TypeOK
<1>4. CASE Copy
  <2>1. ~(buffSize > Len(data))
    <3>1. buffSize \in FrameSize .. Len(data) /\ data \in Seq(1 .. queued)
      BY <1>4 DEF Copy, Typed, StaleCountIsGood, TypeOK
    <3> QED  BY <3>1, SizesAreNat
  <2> QED  BY <1>2, <1>4, <2>1 DEF Copy
<1>5. CASE Fill
  <2>1. CASE FrameSize % size = 0
    BY <1>3, <1>5, <2>1 DEF Fill
  <2>2. CASE FrameSize % size # 0
    BY <1>0, <1>1, <1>5, <2>2 DEF CrashesOnlyLate, Fill
  <2> QED  BY <2>1, <2>2
<1>6. CASE Detect
  <2>1. crashed' = FALSE \/ (crashed' = ~exists /\ run # "off")
    BY <1>6 DEF Detect
  <2> QED  BY <1>2, <1>3, <2>1
<1>7. CASE MainStep \/ TestRunning \/ Count \/ UNCHANGED vars
  <2>1. crashed' = crashed
    BY <1>7 DEF MainStep, PutLock, PutData, Deinit, Waited, WaitTimesOut, Delete, TestRunning,
                Count, vars
  <2> QED  BY <1>2, <2>1
<1>8. CASE Detected
  BY <1>3, <1>8 DEF Detected
<1> QED  BY <1>0, <1>4, <1>5, <1>6, <1>7, <1>8 DEF Next, ThreadStep

(* The only uses of what is not there: a detector deleted under a thread that
   takes longer than the second it is waited for (dtmf.cpp:63-69), and the end
   of a frame that entries do not divide (226-234).                          *)
THEOREM CrashNeedsLateThread == Safety => []CrashesOnlyLate
<1>1. Init => GaveUp /\ CrashesOnlyLate
  BY DEF Init, GaveUp, CrashesOnlyLate
<1>2. Typed /\ Outlives /\ GaveUp /\ CrashesOnlyLate /\ [Next]_vars
      => GaveUp' /\ CrashesOnlyLate'
  BY CrashStep
<1> QED
  BY <1>1, <1>2, TypedInit, TypedStep, OutlivesInit, OutlivesStep, PTL DEF Safety
=============================================================================
