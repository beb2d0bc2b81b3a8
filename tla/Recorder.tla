------------------------------- MODULE Recorder -------------------------------
(* The recorder plugin (recorder/recorder.cpp) and the WAV files it writes
   (utils/wav-writer.cpp). The main thread queues lists of samples, swaps files
   on a timer and stops the plugin; Recorder::run takes the lists and writes
   each entry to the file of its slot. Only the queue is under the mutex: the
   slots m_wavs are not, so what a thread saw in a slot may be gone when it uses
   it. Undefined behaviour that follows ends the model with crashed.

   The main thread closes, deletes and replaces files call by call. A step of
   the recorder thread that does the same is one step, of which a main thread at
   the same slot may see a part: what then follows is a crash, or is what
   follows when the step is over.

   At this commit startRecorder() starts a bare QThread, and nothing enters
   Recorder::run: that is RunBound = FALSE. RunBound = TRUE is run as written. *)
EXTENDS Integers, Sequences, FiniteSets

CONSTANTS Channels,   \* entries of a list: the streamer's m_channels
          Files,      \* m_maxChans: slots that hold a Wav
          SwapModes,  \* the ways of swapping files that are configured
          MaxSize,    \* m_maxFileSize, in entries written
          RunBound,   \* the started thread runs Recorder::run
          Tried,      \* bound: the lists of entries that arrive, by swap mode
          Empty,      \* bound: swap modes in which lists without entries arrive
          MaxLists,   \* bound: lists queued, for each way of swapping
          MaxSwaps,   \* bound: timeouts of m_hotswap
          Null

Slots   == 1 .. Files
Entries == 1 .. Channels
Signals == [Entries -> {0, 1}]  \* what matters of sample_data_t.signal[0]

ASSUME RecorderAssumption ==
  /\ Channels \in 1 .. 127 /\ Files \in 1 .. 127
  /\ SwapModes \subseteq {"time", "size", "none"}
  /\ MaxSize \in Nat /\ MaxLists \in [SwapModes -> Nat] /\ MaxSwaps \in Nat
  /\ RunBound \in BOOLEAN /\ Empty \subseteq SwapModes /\ Null \notin Nat
  /\ Tried \in [SwapModes -> SUBSET Signals]

VARIABLES
  mode,      \* m_hotswap started ("time"), m_sizeBased ("size"), or neither
  buffer,    \* m_thread.buffer
  running,   \* m_thread.running
  dblBuff,   \* run's own queue; its head is the list being recorded
  rec,       \* recorder thread: "off", "take", "next", "poll", "entry" (look),
             \* then "close" or "write", and "sleep"
  slot,      \* record's loop index
  main,      \* main thread: "loop", "swap", "deinit", "down"
  place,     \* main thread: the slot that hotSwapFiles or deinit is at, the
             \* next call there, the UID for the new Wav, the Wav that close()
             \* is called on and the length it was told
  swaps,     \* timeouts so far
  wavs,      \* m_wavs[i]: Null, or the UID in the name of its Wav
  UID,       \* s_UID
  disk,      \* the files made so far: their slot, the lists in them, the length
             \* in their header, whether open, whether something else was
             \* written into them
  crashed,   \* a null or a deleted Wav, or a closed FILE, was used
  heard,     \* history: the lists queued that had entries
  fileless   \* history: slots and lists before which the slot's open() failed

sharedq  == <<buffer, running>>
recorder == <<rec, slot, dblBuff>>
mainvars == <<main, place, swaps>>
waves    == <<wavs, UID, disk>>
history  == <<heard, fileless>>
vars == <<mode, sharedq, recorder, mainvars, waves, crashed, history>>

(* A Wav is opened when its file is: m_isOpened.                             *)
Opened(u) == u \in DOMAIN disk /\ disk[u].open

At(i) == IF i \in Slots THEN wavs[i] ELSE Null

(* The main thread has deleted what slot i points to, and not yet cleared it. *)
Freed(i) == place.step = "clear" /\ place.slot = i

Missing(i) == At(i) = Null \/ Freed(i)

Busy(i) == main \in {"swap", "deinit"} /\ place.slot = i

(* The main thread's close() has moved this Wav's FILE into the header.       *)
Sought(u) == place.step = "shut" /\ place.wav = u

(* open(): the header goes out, data_len still 0; the name of a file that was
   there already cuts it short, under the FILE that has it open. close(): the
   header gets the length that ftell says was written.                       *)
File(i, again) ==
  [slot |-> i, lists |-> <<>>, header |-> 0, open |-> TRUE, torn |-> again]

Closed(d, u) ==
  IF u \in DOMAIN d /\ d[u].open
  THEN [d EXCEPT ![u].open = FALSE, ![u].header = Len(d[u].lists),
                 ![u].torn = @ \/ Sought(u)]
  ELSE d

WithFile(d, u, i) ==
  [v \in DOMAIN d \cup {u} |-> IF v = u THEN File(i, u \in DOMAIN d) ELSE d[v]]

ReplaceUnclosed(i, n) ==  \* seeded bug: deleted without close()
  /\ UID' = UID + 1 /\ wavs' = [wavs EXCEPT ![i] = UID']
  /\ disk' = WithFile(disk, UID', i) /\ UNCHANGED fileless

ReplaceByNothing(i, n) ==  \* seeded bug: the new Wav is forgotten
  /\ UID' = UID + 1 /\ wavs' = [wavs EXCEPT ![i] = Null]
  /\ disk' = Closed(disk, wavs[i]) /\ UNCHANGED fileless

(* s_UID++, close, delete, new Wav in the same slot, open: which may fail and
   leave the Wav without a file for list n.                                  *)
Replace(i, n) ==
  /\ UID' = UID + 1 /\ wavs' = [wavs EXCEPT ![i] = UID']
  /\ \/ disk' = WithFile(Closed(disk, wavs[i]), UID', i) /\ UNCHANGED fileless
     \/ disk' = Closed(disk, wavs[i]) /\ fileless' = fileless \cup {<<i, n>>}

Place(i, step, uid, wav, len) ==
  [slot |-> i, step |-> step, uid |-> uid, wav |-> wav, len |-> len]

LookAt(i) == Place(i, "look", 0, 0, 0)

Init ==
  /\ mode \in SwapModes
  /\ buffer = <<>> /\ running = TRUE /\ dblBuff = <<>> /\ slot = 1
  /\ rec = (IF RunBound THEN "take" ELSE "off")
  /\ main = "loop" /\ place = LookAt(1) /\ swaps = 0
  /\ wavs = [i \in Slots |-> i] /\ UID = Files  \* made by init(), not opened
  /\ disk = <<>> /\ crashed = FALSE
  /\ heard = <<>> /\ fileless = {}

-----------------------------------------------------------------------------
(* The main thread.                                                          *)

(* put_data, on a list of entries or on an empty one (bound: no other waits). *)
PutData ==
  /\ main = "loop" /\ Len(heard) < MaxLists[mode]
  /\ \/ \E s \in Tried[mode] :
          /\ buffer' = Append(buffer, [id |-> Len(heard) + 1, signal |-> s])
          /\ heard' = Append(heard, s)
     \/ /\ mode \in Empty /\ buffer = <<>>
        /\ buffer' = Append(buffer, [id |-> 0, signal |-> <<>>])
        /\ heard' = heard
  /\ UNCHANGED <<running, recorder, mainvars, waves, crashed, fileless>>

(* hotSwapFiles, slot by slot: find it open; close it, delete it and clear the
   slot; make and open the new one, under the UID counted at the start.      *)
Timeout ==
  /\ main = "loop" /\ mode = "time" /\ swaps < MaxSwaps
  /\ main' = "swap" /\ place' = LookAt(1) /\ swaps' = swaps + 1
  /\ UNCHANGED <<sharedq, recorder, waves, crashed, history>>

(* deinit: close, delete and clear the opened slots, then stopRecoder(). The
   signal's handler calls it, in the middle of hotSwapFiles as well.         *)
Deinit ==
  /\ main \in {"loop", "swap"} /\ main' = "deinit" /\ place' = LookAt(1)
  /\ crashed' = (place.step = "clear")
  /\ disk' = IF place.step = "shut" THEN [disk EXCEPT ![place.wav].torn = TRUE]
             ELSE disk
  /\ UNCHANGED <<sharedq, recorder, swaps, wavs, UID, history>>

NextPlacePast == IF main = "swap" /\ place.slot > Files  \* seeded bug: i <= m_maxChans
                 THEN main' = "loop" /\ place' = LookAt(1)
                 ELSE main' = main /\ place' = LookAt(place.slot + 1)

NextPlace == IF main = "swap" /\ place.slot = Files
             THEN main' = "loop" /\ place' = LookAt(1)
             ELSE main' = main /\ place' = LookAt(place.slot + 1)

Look ==
  /\ main \in {"swap", "deinit"} /\ place.step = "look" /\ place.slot \in Slots
  /\ LET i == place.slot
     IN \/ /\ wavs[i] # Null /\ Opened(wavs[i])
           /\ UID' = (IF main = "swap" THEN UID + 1 ELSE UID)
           /\ place' = Place(i, "tell", UID', 0, 0) /\ UNCHANGED main
        \/ /\ wavs[i] = Null \/ ~Opened(wavs[i])
           /\ NextPlace /\ UNCHANGED UID
  /\ UNCHANGED <<sharedq, recorder, swaps, wavs, disk, crashed, history>>

(* close(), on what is in the slot now: nothing if it is not opened, or ftell,
   fseek to the header, and fwrite, fclose and m_isOpened = false. The Wav is
   not looked up again, and the other thread may write or close under it.    *)
CloseTell ==
  /\ place.step = "tell"
  /\ LET w == wavs[place.slot]
     IN place' = IF Opened(w)
                 THEN Place(place.slot, "seek", place.uid, w, Len(disk[w].lists))
                 ELSE Place(place.slot, "delete", place.uid, 0, 0)
  /\ UNCHANGED <<sharedq, recorder, main, swaps, waves, crashed, history>>

Gone == ~Opened(place.wav)  \* closed by the thread, which may have deleted it

CloseSeek ==
  /\ place.step = "seek"
  /\ crashed' = Gone /\ place' = [place EXCEPT !.step = "shut"]
  /\ UNCHANGED <<sharedq, recorder, main, swaps, waves, history>>

CloseShut ==
  /\ place.step = "shut"
  /\ crashed' = Gone
  /\ disk' = IF Gone THEN disk
             ELSE [disk EXCEPT ![place.wav].open = FALSE, ![place.wav].header = place.len]
  /\ place' = Place(place.slot, "delete", place.uid, 0, 0)
  /\ UNCHANGED <<sharedq, recorder, main, swaps, wavs, UID, history>>

(* delete, which closes nothing: ~Wav is empty.                              *)
DeleteWav ==
  /\ place.step = "delete" /\ place' = [place EXCEPT !.step = "clear"]
  /\ UNCHANGED <<sharedq, recorder, main, swaps, waves, crashed, history>>

ClearSlot ==
  /\ place.step = "clear" /\ wavs' = [wavs EXCEPT ![place.slot] = Null]
  /\ IF main = "swap" THEN place' = [place EXCEPT !.step = "new"] /\ UNCHANGED main
                      ELSE NextPlace
  /\ UNCHANGED <<sharedq, recorder, swaps, UID, disk, crashed, history>>

SwapNew ==
  /\ place.step = "new" /\ wavs' = [wavs EXCEPT ![place.slot] = place.uid]
  /\ place' = [place EXCEPT !.step = "open"]
  /\ UNCHANGED <<sharedq, recorder, main, swaps, UID, disk, crashed, history>>

(* open(), on what is in the slot now. If it fails on a Wav that the thread put
   there and opened, that one counts as opened without a FILE.               *)
SwapOpen ==
  /\ place.step = "open" /\ NextPlace
  /\ LET w == wavs[place.slot]
     IN \/ disk' = WithFile(disk, w, place.slot) /\ UNCHANGED crashed
        \/ crashed' = Opened(w) /\ UNCHANGED disk
  /\ UNCHANGED <<sharedq, recorder, swaps, wavs, UID, history>>

StopRecoder ==
  /\ main = "deinit" /\ place.slot \notin Slots
  /\ running' = FALSE /\ main' = "down"
  /\ UNCHANGED <<buffer, recorder, place, swaps, waves, crashed, history>>

-----------------------------------------------------------------------------
(* Recorder::run.                                                            *)

TakeFirstOnly ==  \* seeded bug: an if for the while, and the rest dropped
  dblBuff' = IF buffer = <<>> THEN dblBuff ELSE Append(dblBuff, Head(buffer))

TakeAll == dblBuff' = dblBuff \o buffer

Take ==
  /\ rec = "take" /\ TakeAll /\ buffer' = <<>> /\ rec' = "next"
  /\ UNCHANGED <<running, slot, mainvars, waves, crashed, history>>

(* record(): an empty list returns at once; pollHotSwap only by size.        *)
RecordList ==
  /\ rec = "next" /\ slot' = 1
  /\ \/ dblBuff = <<>> /\ rec' = "sleep" /\ UNCHANGED dblBuff
     \/ /\ dblBuff # <<>> /\ Head(dblBuff).signal = <<>>
        /\ dblBuff' = Tail(dblBuff) /\ UNCHANGED rec
     \/ /\ dblBuff # <<>> /\ Head(dblBuff).signal # <<>>
        /\ rec' = (IF mode = "size" THEN "poll" ELSE "entry")
        /\ UNCHANGED dblBuff
  /\ UNCHANGED <<sharedq, mainvars, waves, crashed, history>>

TooBigTwice(u) == Len(disk[u].lists) > MaxSize + 1  \* seeded bug

TooBig(u) == Len(disk[u].lists) > MaxSize

Oversized(i) == wavs[i] # Null /\ Opened(wavs[i]) /\ TooBig(wavs[i])

PollHotSwap ==
  /\ rec = "poll"
  /\ LET i == slot
     IN \/ /\ Oversized(i) /\ ~Freed(i)
           /\ Replace(i, Head(dblBuff).id) /\ crashed' \in {FALSE, Busy(i)}
        \/ /\ ~Oversized(i) \/ Freed(i)
           /\ crashed' = Freed(i) /\ UNCHANGED <<waves, fileless>>
  /\ IF slot = Files THEN rec' = "entry" /\ slot' = 1
                     ELSE rec' = rec /\ slot' = slot + 1
  /\ UNCHANGED <<sharedq, dblBuff, mainvars, heard>>

(* One entry: look at the slot, then use it. Silence closes the slot's file,
   sound is written to it, and sound without a file opens one, unwritten.    *)
RecordEntry ==
  /\ rec = "entry" /\ slot \in Entries
  /\ LET i == slot
         sound == Head(dblBuff).signal[i] = 1
     IN \/ /\ sound /\ Missing(i)
           /\ crashed' = TRUE /\ UNCHANGED <<rec, slot, waves, fileless>>
        \/ /\ sound /\ ~Missing(i) /\ ~Opened(At(i))
           /\ Replace(i, Head(dblBuff).id + 1) /\ crashed' \in {FALSE, Busy(i)}
           /\ slot' = slot + 1 /\ UNCHANGED rec
        \/ /\ ~sound /\ At(i) = Null
           /\ slot' = slot + 1 /\ UNCHANGED <<rec, waves, crashed, fileless>>
        \/ /\ At(i) # Null /\ (sound => ~Freed(i) /\ Opened(At(i)))
           /\ rec' = (IF sound THEN "write" ELSE "close")
           /\ UNCHANGED <<slot, waves, crashed, fileless>>
  /\ UNCHANGED <<sharedq, dblBuff, mainvars, heard>>

SilenceKept(i) == UNCHANGED waves  \* seeded bug: close() forgotten

Silence(i) == disk' = Closed(disk, wavs[i]) /\ UNCHANGED <<wavs, UID>>

(* fwrite, wherever the FILE stands: main's close() may have moved it.        *)
WriteEntry(i) ==
  /\ disk' = IF Sought(wavs[i])
             THEN [disk EXCEPT ![wavs[i]].torn = TRUE]
             ELSE [disk EXCEPT ![wavs[i]].lists = Append(@, Head(dblBuff).id)]
  /\ UNCHANGED <<wavs, UID>>

UseSlot ==
  /\ rec \in {"close", "write"}
  /\ \/ /\ Missing(slot) \/ (rec = "write" /\ ~Opened(At(slot)))
        /\ crashed' = TRUE /\ UNCHANGED waves
     \/ /\ ~Missing(slot) /\ rec = "close"
        /\ Silence(slot) /\ crashed' \in {FALSE, Busy(slot) /\ Opened(At(slot))}
     \/ /\ ~Missing(slot) /\ rec = "write" /\ Opened(At(slot))
        /\ WriteEntry(slot) /\ UNCHANGED crashed
  /\ rec' = "entry" /\ slot' = slot + 1
  /\ UNCHANGED <<sharedq, dblBuff, mainvars, history>>

Again == dblBuff  \* seeded bug: dblBuff.clear() forgotten

Recorded == Tail(dblBuff)

RecordEnds ==
  /\ rec = "entry" /\ slot \notin Entries
  /\ dblBuff' = Recorded /\ rec' = "next" /\ slot' = 1
  /\ UNCHANGED <<sharedq, mainvars, waves, crashed, history>>

StopAfterOne ==  \* seeded bug: the loop's condition is wrong
  /\ rec = "sleep" /\ rec' = "off"
  /\ UNCHANGED <<sharedq, slot, dblBuff, mainvars, waves, crashed, history>>

TestRunning ==
  /\ rec = "sleep" /\ rec' = (IF running THEN "take" ELSE "off")
  /\ UNCHANGED <<sharedq, slot, dblBuff, mainvars, waves, crashed, history>>

MainStep == PutData \/ Timeout \/ Deinit \/ Look \/ CloseTell \/ CloseSeek
            \/ CloseShut \/ DeleteWav \/ ClearSlot \/ SwapNew \/ SwapOpen \/ StopRecoder

RecorderStep == Take \/ RecordList \/ PollHotSwap \/ RecordEntry \/ UseSlot
                \/ RecordEnds \/ TestRunning

Next == ~crashed /\ (MainStep \/ RecorderStep) /\ UNCHANGED mode

Safety == Init /\ [][Next]_vars

(* The operating system runs the recorder thread whenever it can move.       *)
Spec == Safety /\ WF_vars(~crashed /\ RecorderStep /\ UNCHANGED mode)

-----------------------------------------------------------------------------
(* Every index into m_wavs stays within the slots that the thread or the timer
   walk, and every file carries a UID that s_UID has reached
   (recorder.cpp:206, 349, 393-396, 534, 578).                               *)
TypeOK ==
  /\ mode \in SwapModes
  /\ \A q \in {buffer, dblBuff} :
       q \in Seq([id : Nat, signal : Signals \cup {<<>>}])
  /\ running \in BOOLEAN /\ crashed \in BOOLEAN
  /\ rec \in {"off", "take", "next", "poll", "entry", "close", "write", "sleep"}
  /\ slot \in 1 .. Channels + 1 \/ (rec = "poll" /\ slot \in Slots)
  /\ rec \in {"close", "write"} => slot \in Entries /\ dblBuff # <<>>
  /\ main \in {"loop", "swap", "deinit", "down"}
  /\ place.slot \in 1 .. Files + 1 /\ (main = "swap" => place.slot \in Slots)
  /\ place.step \in {"look", "tell", "seek", "shut", "delete", "clear", "new", "open"}
  /\ place.step \in {"seek", "shut"} => place.wav \in DOMAIN disk
  /\ place.step # "look" => place.slot \in Slots
  /\ swaps \in 0 .. MaxSwaps /\ UID \in Nat
  /\ wavs \in [Slots -> (1 .. UID) \cup {Null}]
  /\ DOMAIN disk \subseteq Files + 1 .. UID
  /\ \A u \in DOMAIN disk :
       disk[u] \in [slot : Slots, lists : Seq(DOMAIN heard), header : Nat,
                    open : BOOLEAN, torn : BOOLEAN]
  /\ heard \in Seq(Signals) /\ fileless \subseteq Slots \X Nat

Made(i) == {u \in DOMAIN disk : disk[u].slot = i}

Written(i) == UNION {{disk[u].lists[k] : k \in DOMAIN disk[u].lists} : u \in Made(i)}

(* How many of the lists heard were recorded at slot i.                      *)
Done(i) ==
  LET left == {buffer[k].id : k \in DOMAIN buffer}
              \cup {dblBuff[k].id : k \in IF rec \in {"entry", "close", "write"} /\ slot > i
                                          THEN DOMAIN dblBuff \ {1}
                                          ELSE DOMAIN dblBuff}
  IN {n \in DOMAIN heard : n \notin left}

(* A stretch of sound is recorded without a gap but for its first list, which
   only opens the file, and for the one that comes after an open() that failed,
   which opens it again (recorder.cpp:395-406, wav-writer.cpp:90-93); files
   swapped for their size in the middle of it lose nothing (576-614). The
   timer's swaps may, and so may deinit.                                     *)
SoundKept ==
  main = "loop" /\ mode # "time" => \A i \in Slots \cap Entries :
    Written(i) = {n \in Done(i) \ {1} : /\ heard[n][i] = 1 /\ heard[n - 1][i] = 1
                                        /\ <<i, n>> \notin fileless}

(* Even while the timer or deinit close, delete and open files under the thread,
   call by call, a list gets in its place in at most one file of a slot, once,
   and the lists in a file are in the order they were queued
   (recorder.cpp:336-359 against 206-216 and 532-570, which take no lock). One
   that lands in a header is in no file: it only tears the one it lands in.  *)
WrittenOnce ==
  \A u \in DOMAIN disk :
    LET lists == disk[u].lists
    IN /\ \A j, k \in DOMAIN lists : j < k => lists[j] < lists[k]
       /\ \A v \in Made(disk[u].slot) \ {u}, j \in DOMAIN lists :
            \A k \in DOMAIN disk[v].lists : lists[j] # disk[v].lists[k]

(* But for the timer: a slot never has two files open, and until deinit comes
   no FILE is leaked and every header is right: a file that is open is the one
   in its slot, so that the next silence, swap or deinit finishes it, whole
   (wav-writer.cpp:132-152). In deinit the thread may put an open Wav in a slot
   whose Wav is about to be deleted: that one is never closed.               *)
OpenIsReachable ==
  mode # "time" =>
    /\ \A u, v \in DOMAIN disk :
         disk[u].open /\ disk[v].open /\ disk[u].slot = disk[v].slot => u = v
    /\ main = "loop" => \A u \in DOMAIN disk :
         /\ disk[u].open => wavs[disk[u].slot] = u
         /\ ~disk[u].torn /\ (disk[u].open \/ disk[u].header = Len(disk[u].lists))

(* Size swapping keeps a file to the limit and one list (recorder.cpp:581).  *)
SizeLimited ==
  mode = "size" => \A u \in DOMAIN disk : Len(disk[u].lists) <= MaxSize + 1

(* But for the timer, and before deinit pulls the files from under the thread,
   whose stop it orders after closing them (recorder.cpp:206-219), a missing Wav
   is met only by sound in an entry past the slots that the configuration made:
   every slot always has its Wav (395, 490-519, 576-614).                    *)
CrashOnlyInDeinit ==
  crashed /\ mode # "time" /\ main = "loop" =>
    rec = "entry" /\ slot \notin Slots /\ Head(dblBuff).signal[slot] = 1

(* "takes the list of samples and polls them to the recorder thread"
   (recorder.cpp:231-232): a queued list is taken, unless the plugin stops.  *)
ListsAreTaken ==
  (buffer # <<>>) ~> (buffer = <<>> \/ main # "loop" \/ crashed)
=============================================================================
