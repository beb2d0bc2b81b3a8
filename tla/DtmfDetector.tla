----------------------------- MODULE DtmfDetector -----------------------------
(* DtmfDetector::dtmfDetecting (DFT/DtmfDetector.cpp): frames of a fixed size
   are cut into windows of SAMPLES, what is left over waits for the next frame,
   and a button is reported in the second window in which it sounds. A window
   is the energies its Goertzel filters find, any of Energies, and whether it is
   loud enough. A call is BeginFrame, CutWindow for each window, EndFrame.   *)
EXTENDS Integers, Sequences, Functions

CONSTANTS FrameSize,  \* frameSize, the plugin's s_frameSize
          SAMPLES,    \* a window: the plugin's s_freq
          Energies,   \* what the filters find in a window: T, for each tone
          Blank,
          MaxButtons  \* entries of dialButtons that are used: 64

(* The tones: four rows, four columns, two more, and eight of other sounds.  *)
Rows    == 0 .. 3
Columns == 4 .. 7
Dialled == 0 .. 9
Others  == 10 .. 17
Buttons == Rows \X Columns

ASSUME DetectorAssumption ==
  /\ FrameSize \in Nat \ {0} /\ SAMPLES \in Nat \ {0} /\ MaxButtons \in Nat \ {0}
  /\ Energies \subseteq [Dialled \cup Others -> Nat] /\ Blank \notin Buttons

VARIABLES
  pArraySamples,   \* the samples kept, or NoSample
  frameCount,
  temp_index,
  prevDialButton,
  permissionFlag,
  dialButtons, indexForDialButtons,
  input,           \* history: the samples of every frame given, in a row
  seen,            \* history: the samples of every window cut, in a row
  verdicts         \* history: what each window was found to hold

array    == <<pArraySamples, frameCount, temp_index>>
reported == <<prevDialButton, permissionFlag, dialButtons, indexForDialButtons>>
detector == <<array, reported, input, seen, verdicts>>

NoSample == <<0, 0>>

Indices == 0 .. FrameSize + SAMPLES - 1

InitDetector ==
  /\ pArraySamples = [i \in Indices |-> NoSample]
  /\ frameCount = 0 /\ temp_index = 0
  /\ prevDialButton = Blank /\ permissionFlag = FALSE
  /\ dialButtons = [i \in 0 .. MaxButtons |-> Blank] /\ indexForDialButtons = 0
  /\ input = <<>> /\ seen = <<>> /\ verdicts = <<>>

-----------------------------------------------------------------------------
(* The frame goes behind what the last one left.                             *)
BeginFrame(frame) ==
  /\ pArraySamples' =
       [i \in Indices |-> IF i \in frameCount .. frameCount + FrameSize - 1
                          THEN frame[i - frameCount + 1] ELSE pArraySamples[i]]
  /\ frameCount' = frameCount + FrameSize
  /\ input' = input \o frame
  /\ UNCHANGED <<temp_index, reported, seen, verdicts>>

Window == [k \in 1 .. SAMPLES |-> pArraySamples[temp_index + k - 1]]

Report(b, next, atEnd) ==
  /\ dialButtons' = [dialButtons EXCEPT ![indexForDialButtons] = b, ![next] = Blank]
  /\ indexForDialButtons' = (IF next >= atEnd THEN 0 ELSE next)

DialAny(b) ==  \* seeded bug: the test for ' ' dropped
  IF permissionFlag
  THEN Report(b, indexForDialButtons + 1, MaxButtons)
  ELSE UNCHANGED <<dialButtons, indexForDialButtons>>

DialPast(b) ==  \* seeded bug: > for >=
  IF permissionFlag /\ b # Blank
  THEN Report(b, indexForDialButtons + 1, MaxButtons + 1)
  ELSE UNCHANGED <<dialButtons, indexForDialButtons>>

(* permissionFlag: the window before began a tone. A full array starts over. *)
Dial(b) ==
  IF permissionFlag /\ b # Blank
  THEN Report(b, indexForDialButtons + 1, MaxButtons)
  ELSE UNCHANGED <<dialButtons, indexForDialButtons>>

(* DTMF_detection: the loudest row and column make a button, if each stands out
   from the average, the other dial tones and the other sounds, and they are
   not too different. A dial tone exactly as loud as one of them is not looked
   at; column 4 need not stand out as much.                                  *)
Loudest(T, S) ==
  CHOOSE k \in S : \A j \in S : T[j] < T[k] \/ (T[j] = T[k] /\ k <= j)

AtLeast1(n) == IF n = 0 THEN 1 ELSE n

Average(T, r, c) ==
  AtLeast1((FoldFunctionOnSet(LAMBDA a, b : a + b, 0, T, Dialled) - T[r] - T[c]) \div 8)

StandsOut(T, k, j, times) == T[k] \div AtLeast1(T[j]) >= times

DTMF_detection(T) ==
  LET r == Loudest(T, Rows)
      c == Loudest(T, Columns)
      mean == Average(T, r, c)
      isTone ==
        /\ T[r] \div mean >= 6 /\ T[c] \div mean >= 6
        /\ T[r] >= T[c] \div 4 /\ T[c] >= T[r] \div 2 - T[r] \div 8
        /\ \A j \in Others : StandsOut(T, r, j, 16) /\ StandsOut(T, c, j, 16)
        /\ \A j \in Dialled :
             AtLeast1(T[j]) \notin {T[r], T[c]} =>
               StandsOut(T, r, j, 6) /\ StandsOut(T, c, j, IF c = 4 THEN 2 ELSE 6)
  IN IF isTone THEN <<r, c>> ELSE Blank

(* What a window may be found to hold: nothing, if it is not loud enough.    *)
Verdicts == {Blank} \cup {DTMF_detection(T) : T \in Energies}

CutWindow ==
  /\ frameCount >= SAMPLES
  /\ \E b \in Verdicts :
       /\ Dial(b)
       /\ permissionFlag' = (b # Blank /\ prevDialButton = Blank)
       /\ prevDialButton' = b
       /\ verdicts' = Append(verdicts, b)
  /\ temp_index' = temp_index + SAMPLES /\ frameCount' = frameCount - SAMPLES
  /\ seen' = seen \o Window
  /\ UNCHANGED <<pArraySamples, input>>

FromStart(i) == pArraySamples[i]  \* seeded bug: + temp_index forgotten

LeftOver(i) == pArraySamples[i + temp_index]

EndFrame ==
  /\ frameCount < SAMPLES
  /\ pArraySamples' = [i \in Indices |->
                         IF i < frameCount THEN LeftOver(i) ELSE pArraySamples[i]]
  /\ temp_index' = 0
  /\ UNCHANGED <<frameCount, reported, input, seen, verdicts>>

-----------------------------------------------------------------------------
DetectorTypeOK ==
  /\ pArraySamples \in [Indices -> Nat \X Nat]
  /\ frameCount \in 0 .. FrameSize + SAMPLES - 1 /\ temp_index \in Nat
  /\ temp_index + frameCount <= FrameSize + SAMPLES - 1
  /\ prevDialButton \in Buttons \cup {Blank} /\ permissionFlag \in BOOLEAN
  /\ dialButtons \in [0 .. MaxButtons -> Buttons \cup {Blank}]
  /\ indexForDialButtons \in 0 .. MaxButtons - 1

Pending == [k \in 1 .. frameCount |-> pArraySamples[temp_index + k - 1]]

(* The windows in which a tone is found for the second time after a pause.   *)
SecondWindow(k) ==
  /\ k > 1 /\ verdicts[k] # Blank /\ verdicts[k - 1] # Blank
  /\ k = 2 \/ verdicts[k - 2] = Blank

Presses == {k \in DOMAIN verdicts : SecondWindow(k)}
=============================================================================
