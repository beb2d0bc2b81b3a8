# recd2 in TLA+

`recd2` is a daemon that receives a recording device's frames over the network
and hands them, as lists of samples, to a chain of plugins: a recorder that
writes WAV files, a DTMF detector, a checksum plugin, and others. This directory
holds TLA+ models of its parts, TLC runs on small instances of them, and
theorems about them that TLAPS proves for every instance. Paths below are
relative to `src/`; the definitions and the lines each one models are listed in
`PROJECT.json`.

## The system

| part | files | state it keeps | operations |
|---|---|---|---|
| application | `app/main.cpp`, `app/sapplication.cpp` | the configuration's tags, `m_setup`, the server thread | parse the command line, load the plugins, call each one's `main_proxy` and `init`, deinitialise them |
| plugin chain | `app/defs.cpp`, `app/plugin-manager.cpp` | a list of `interface_t`, linked through `nextPlugin` | `put`, `loadLibrary`, `clear` |
| daemon, signals | `app/unix/daemon.cpp` | whether the signals are attached | `daemonize`, `registerAppData`; `testSig`: deinitialise and exit, at any point |
| logger, writer | `utils/logger.cpp`, `utils/writer.cpp` | queue, mutex, thread's own queue, file | `init`, `logMessage`, `deinit`, the thread's loop |
| message and user servers | `app/server.cpp`, `utils/ipc-msg.cpp` | two sockets, one connection pointer | log every datagram; answer a user's lines |
| UDP streamer | `udp-streamer/server.cpp` | `m_conn_info`'s counters, the list of monitored data | `readyReadUdp`, `checkConnection`, `disconnected` |
| TCP streamer | `udp-streamer/tcp-server.cpp`, `utils/ring-buffer.h` | a ring of frames, two mutexes | the worker that fills the ring, the Writer that empties it |
| recorder | `recorder/recorder.cpp`, `utils/wav-writer.cpp` | queue, slots of WAV files, their UIDs | `put_data`, the thread's `record`, swaps by size or by a timer, `deinit` |
| DTMF | `DFT/dtmf.cpp`, `DFT/DtmfDetector.cpp` | queue, detector with left-over samples and buttons | `put_data`, the thread's loop, `dtmfDetecting` |
| configuration | `utils/recorder-config.cpp` | pairs of tags and attributes, one copy in each library | load, fall back on defaults, look up |
| locks, threads | `utils/thread.cpp` | mutex, semaphore, spin lock | lock, try, unlock, post, wait: without a user |

How they interact. Every library, and the application, has its own copy of the
configuration, and each reads the file for itself, from the words of the command
line that its `main_proxy` is passed. `SApplication` loads the plugins in the order of the
configuration's tags and links them; afterwards the data path is calls only: the
device's datagram wakes the streamer in the main thread, the streamer builds a
list and calls its own `put_data`, and each plugin's `put_data` calls that of
`nextPlugin`. A plugin that has a thread copies the list into a queue of its own
under a mutex before it forwards it. Plugins tell the message server what
happens by datagrams to the local port 6666, and the message server's thread
logs them; other threads log by calling the logger. A signal's handler runs
`deinit` along the chain on whatever thread it interrupts and ends the process.

What is hard in it:

* threads that share a queue and differ in what they lock: the logger guards all
  of it; the recorder guards the queue but not its files, and its timer swaps the
  files from another thread; the DTMF thread counts in one locked section and
  copies in another;
* an unreliable stream: lost, repeated, late and foreign datagrams, a device that
  restarts, 32-bit counters that wrap, and a timer that decides a device is gone;
* shutdown in a signal handler, which can meet every thread anywhere;
* one connection pointer for all users, kept after its socket is deleted, in an
  event loop that deletes later;
* one chain of calls through plugins that must each forward, and of which the
  last cleans up;
* a start in which a dozen optional things (words, files, attributes, libraries,
  ports) may each be missing, and plugins that read the same file must agree on
  what it says;
* a ring between two threads under different locks, which overwrites when it is
  full and hands out pointers into itself.

What makes each part correct:

* logger: nothing accepted is lost, repeated or reordered, and what a thread
  queued before `stopWriter` is still written;
* streamer: the counters account for every frame, what the recording lacks is
  known, frames are forwarded onwards unless a late one set the count back, and
  silence is noticed;
* recorder: sound is in the files, once and in order, and every file's header is
  finished in the end, as far as the code's missing locks allow;
* chain: the list is the load order, every walk and every list of samples visits
  each plugin once;
* start: whatever is initialised can be stopped; the named file is what every
  plugin uses; what goes wrong later is in that file;
* ring: what is lost is lost all at once, and what is left is in order;
* DTMF: entries are analysed once and in order, windows are consecutive cuts, a
  press is reported once, the detector is used after it is gone only if `deinit`
  gave up waiting;
* servers: answers match lines, no deleted socket is used, messages that arrive
  are logged once and in order.

## The modules

### LogWriter, AbstractLog, LogWriterProofs

`AbstractLog` is what the logger promises: an accepted message appears in the
log, in the order of acceptance, and does appear while the log is on.
`LogWriter` models `Logger::init`, `logMessage`, `deinit` and `Writer`: a caller
takes the mutex, appends, releases (`WriteLock`, `AppendMsg`, `WriteUnlock`);
the thread sleeps, drains the queue under the mutex, then writes and flushes
each message, and tests the flag (`Wake` to `LoopTest`). `Reserve` and
`StartWriter` are `Writer::setup`, which reserves the queue without the mutex and
goes on if the file did not open; `Exit` ends the process at any point and loses
what was not flushed. `Log` instantiates `AbstractLog` under the mapping that
takes the flushed file to the log.

### UdpStreamer, UdpStreamerProofs

The device sends counted frames (`udp-client/client.cpp` does the same), the
network delivers, loses, repeats and reorders them, foreign datagrams arrive, and
the device may restart: `faults`, chosen at the start, says which of these may
happen. `ReadyRead` to `ReadLoopEnds` are the slot's loop: a frame that has the
expected counter is forwarded (`ReadInSync`); any other one is a desync
(`ReadDesync`), which counts it, resynchronises and makes the lists of null
samples. `CheckConnection` is the one-second tick: a tick with nothing heard
resets the counters. A datagram may be repeated at once or, where the network
reorders, late, behind others. `CounterMod` stands for 2^32.

### Recorder, RecorderProofs

`PutData` queues a list. The thread takes all of it (`Take`) and records the
lists one by one: it polls the slots for files that are too big
(`PollHotSwap`), then looks at each entry's slot (`RecordEntry`) and uses it
(`UseSlot`): silence closes the file, sound is written, sound without an open
file opens one (`Replace`), whose `open()` may fail and leave the slot without a
file. Look and use are two steps because no lock is held: the timer's swap and
`deinit`, in the main thread, run in between, and run call by call: `Look`, then
the parts of `close()` (`CloseTell`, `CloseSeek`, `CloseShut`), `DeleteWav`,
`ClearSlot`, and for a swap `SwapNew` and `SwapOpen`. The handler of a signal may
start `deinit` in the middle of a swap. `place` is where the main thread is.
What the thread does meanwhile follows from what it finds: a list written while
`close()` has moved the FILE into the header lands there (`torn`); a Wav that is
null, deleted, or whose FILE is closed ends the model with `crashed`; an open Wav
that it puts into a slot about to be deleted stays open, out of reach. `disk`
holds each file's lists, its header's length, whether it is open and torn.

A step of the thread that closes, deletes and opens is one step. If the main
thread is at the same slot, it may have seen a part of that step, and what comes
of it may be a crash: `crashed` is then either. `s_UID++` is taken as atomic, and
a name is its UID, so that the time in the file's name does not make two the same.

`RunBound` is FALSE for the code as it is: `startRecorder` calls `start()` on a
member that is a plain `QThread`, whose `run` is an event loop, so nothing enters
`Recorder::run` and every list stays in the queue. With TRUE, what is modelled is
the thread as `Recorder::run` is written.

### Startup, StartupProofs

From the words of the command line to the event loop. `GetOpts` is `main`'s
loop, `Daemonize` and `DaemonizeFails` the fork; `ParseArg` is the constructor's
loop over the words, `LoadPlugins` the choice of libraries, of which any may fail
to load. Then each plugin's `main_proxy` walks the words (`TakeFile`, `SkipWord`,
`ListDevices`): `Takes` has the three forms of the test, of which the one that
most plugins copied takes the word after every word but `--config` for a file.
`DtmfConf` is the DTMF plugin's second file, loaded inside a walk over the list
that loading it frees. `RegisterAppData` attaches the signals if `m_setup` is set;
then the logger's file is named and each plugin's `init` makes its settings of its
own copy of the configuration (`RecOf`, `UdpOf`, `AlsaOf`, with every default and
every failed conversion), may refuse, may write past an array, or throw
(`DtmfThrows`: the detector's arrays of negative length). `EndInit` enters
the event loop or exits. A configuration is its sources in the order loaded, so
that a look-up finds the first; a number is an integer or `NaN`.

`Startup` says under what conditions the other modules' assumptions hold: a slot
for each entry, frames and windows of a sample at least, an attached handler. A
DTMF `freq` or `frameSize` of 0 starts, as in the code, and fails at the first
frame; sums past an INT32 are left out. A file size is a number and its unit.

### RingBuffer, LossyQueue, TcpStreamer, TcpStreamerProofs

`RingBuffer` is the ring's two heads and slots; `LossyQueue` is what it promises
to one writer and one reader: a queue in order which loses everything when it is
full. `TcpStreamer` puts the two threads around it. The worker accepts a client,
waits for it, reads a frame, drops what is not the next one and writes the rest
into the ring sample by sample (`WriteSample`, `Written`), each step on its own
because the Writer locks another mutex; the Writer takes a pointer to a slot
(`Read`), copies the samples from the slot itself (`CopySample`) and passes the
list on (`PutData`). Every entry of that list points at the one array of the
loop's body, which holds what the last channel left there: `Shown` is the list
as the plugins see it. `clobbered` remembers that the worker wrote to the slot in
use. `Deinit` aborts, crashes or frees the ring, depending on which of the threads
is alive. `bound` is FALSE for the code as it is, where neither thread enters its
loop, and TRUE for the loops as they are written; the properties are of both.

### PluginChain, PluginChainProofs

`LoadLibrary` and `Put` build the list from the tags; `LoadFails` and
`LoadPastEnd` are the tags that yield no plugin. `Call` and `EndWalk` are the
three walks (`main_proxy`, `init`, `deinit`); `Produce` and `Forward` pass a list
of samples down the chain. What a plugin's `put_data` does is its `Kind`: it
forwards the list and clears it when last, or keeps a copy and never clears it
(recorder, DTMF), or calls itself instead of its successor (MD5). `Signal` starts
the last walk from wherever the main thread was. A library has a single static
`interface_t`, so a library listed twice is one node put twice; the ordering
properties are stated for libraries listed once, and `LinksOfAnyTags` says what
links there are otherwise.

### DtmfDetector, Dtmf, DtmfProofs

`DtmfDetector` is one call of `dtmfDetecting` in steps: `BeginFrame` copies the
frame behind what is left over, `CutWindow` takes one window and may report a
button, `EndFrame` moves the rest to the front. `DTMF_detection` is the decision
about a window, with its thresholds, over the energies that the Goertzel filters
may find: any of `Energies`. `Dtmf` extends it with the plugin: `PutLock` and `PutData` in the main thread, and the
thread's `Count`, `Copy`, `Fill`, `Detect` and `Detected`. A signal may stop the
main thread inside `put_data`, with the mutex held; `WaitTimesOut` is `wait(1000)`
giving up, after which the detector is deleted under a thread that may use it.

### Servers, ServersProofs

`MsgInit` and `StartServer` are `ServerThread::run`; either port may be taken.
`SendMessage` is `IPC::sendMessage`, lost before the bind or at a full buffer;
`ReadyRead` logs what is pending. For users, `Accept` is `incomingConnection`,
`Notify` a socket's `readyRead()` and the `hConnection` it calls, `PeerGone` a
`disconnected()`, and `Free` the event loop deleting a socket that `deleteLater`
was called on; a socket still connected signals `disconnected()` from its
destructor. Handlers run one at a time, so each is one step. `p_conn` is the
newest connection for all of them, and keeps pointing at a deleted one: the model
ends with `touched` when it is used. `handled` and `replies` are the lines that
`hConnection` took and what it wrote back; to `info` it writes nothing, an empty
reply, and a user who waits for more waits for ever. `overlap` remembers whether a connection was
ever accepted beside an open one.

## What the runs check

| run | instance | checks |
|---|---|---|
| `log` | 2 callers, 2 messages each | mutual exclusion on the queue; order and completeness; a sleeping writer holds nothing; the last pass; refinement of `AbstractLog`, liveness included |
| `udp_stream` | counters modulo 16 from 0, 1 and 13, 5 frames, 3 in flight, three sets of faults | types; balance of the counters; by how much a recording falls short; forwarded in order but where the count was set back; silence is noticed |
| `udp_cumul` | losses, a chain that does not clear | violated: the list for the second missed frame holds the first one's entries too |
| `rec` | 3 entries, 2 slots, 3 lists, a timer's swap, any `open()` failing | types; sound kept; open files reachable; size limit; no crash before `deinit` but past the slots; written once; lists are taken |
| `rec_unbound` | the same thread, not bound | violated: a queued list is never taken |
| `startup` | command lines of up to 3 words of 14 and a fourth after options; seven configuration files, consistent and not, and three of DTMF settings; frames of 16 samples, byte counts modulo 10 | initialised plugins are stoppable; a file named by the last `-c` is every plugin's source; what goes wrong is in the file, and which part of it |
| `tcp` | a ring of 3 slots, 2 channels of 2 samples, a client's counters to 6, the threads bound and not | refinement of `LossyQueue`, liveness included; frames in order, and what of them a list shows |
| `chain` | up to 3 tags of 4 libraries, one perhaps without a path or not loading, 3 lists, signals | load order; walks in order; every plugin once; the links of any tags; a list gets to the end |
| `chain_md5` | MD5 between two plugins | violated: a list never leaves MD5 |
| `dtmf` | frames of 3, windows of 2, lists of 0, 1 or 3 entries of 0, 2 or 3 samples, 10 entries, six kinds of energies | types; the count of the first section is good in the second; entries once and in order; windows consecutive; presses reported once; what is gone is used only late; entries are taken |
| `dtmf_frame` | entries of 1 sample | violated: a frame is one entry repeated |
| `serve` | 2 connections with 2 lines and 1, 3 messages, a socket buffer of 2 | types; users one at a time are safe; a reply for each line; messages in order; the newest user gets its replies; messages are logged |

Bounds. Two callers are enough for every pair of steps to interleave, and two
messages each for a message to arrive while an older one is in each of the three
places it passes. Counters modulo 16 from 13 wrap within 5 frames, and two gaps, a
late copy that sets the count back, and a restart fit into 5. Three lists let a
file be opened, fill (`MaxSize` 0), be swapped in the middle of sound and go on,
with a failed open at any of them; against the timer one entry sounds at a time,
so that each call of the swap meets each step of the thread at the same slot and
at another. The third entry has no slot. Three tags give a
plugin a predecessor and a successor; three lists, one that finds another's
leftovers. Frames of 3 and windows of 2 leave one sample over, or none, in turn,
and six windows can make two presses, which fill `MaxButtons`. The energies are
two buttons, noise, a harmonic, two columns at once and a row too faint, which the
tests on the average, on other sounds and on the two levels refuse. Command lines of three words have every
order of an option, its file and a stray word, and the files cover each failing
conversion, each missing attribute and each transport; longer lines are the
proofs'. A ring of three slots fills with two frames, so that six overrun it
while the Writer is still at its slot. Two connections give every order of coming, signalling, hanging up
and being deleted between an old and a new user; two lines put one behind a
`quit`; what holds of more users is proved. Each property was also
checked to fail when a definition it depends on is replaced by a plausible bug
(the operators marked "seeded bug").

Fairness. `LogWriter` and `Recorder`: the threads that the code starts are run by
the operating system, and a mutex that is released again and again is obtained.
`UdpStreamer`: Qt's event loop serves the socket and the timer. `PluginChain`: the
main thread goes on through its calls. `Dtmf`: the thread obtains `m_lock`, which
`put_data` holds only while it copies a list, so that it is free nearly always
(strong fairness), and `put_data` itself ends. `Servers`: the event loop serves
each socket that has something ready, and the sockets it has to delete.
`TcpStreamer`: the Writer's loop neither sleeps nor waits. `Startup` states no
liveness. No fairness is assumed of the
device, the network, the timer's swaps or signals.

Deadlock is not checked anywhere: bounds on what callers send, a process that
exits and an event loop with nothing to do all stop these models.

## What is proved

| module | theorems | argument |
|---|---|---|
| `LogWriterProofs` | `LogInvariant`, `BufferIsGuarded`, `NoMessageLost`, `FinalPassWrites`, `SleeperHoldsNothing`, `ImplementsLogSafety`, `CallersKeepTheirOrder`, `DrainIsBounded`, `EndOfLogIsFinal` | `LogInv` adds to the types who owns the mutex at each place, what each place of the thread implies for its queue and the file's buffer, and how much of what was accepted before `stopWriter` can still be unwritten. Every safety property follows, and each step of `LogWriter` is a step or a stutter of `AbstractLog`. What was accepted is numbered by caller, and the file is a prefix of it; `RestIsInBuffer` is `LogInv` where the thread has returned |
| `UdpStreamerProofs` | `UdpTypes`, `CountersAlwaysBalance`, `ForwardedOnlyOnwards`, `ShortStreamsFallShort`, `OnwardsWhileInStep`, `NullsWhileInStep`, `RecordingLength`, `ClearedListsAreOneFrame` | for every counter width: the lemmas on remainders turn each update modulo `CounterMod` into one of integers; the balance is then inductive with the types. `OrderInv` orders the counters in flight, read and forwarded by how far they are into the device's stream (`Age`, `Dist`), which the subtraction of the code tells apart only within half a turn: hence the assumption `HalfTurn`; `ahead` is how far the count went on, or was set back, since a frame was forwarded. `LossInv` follows the null lists from the same order, one for each frame reported missing after the first desync. Those for streams of any length assume `InStep`, `Recent` and, where the count may be set back, `NoLeap` of the behaviour instead of a bound on what is sent; `ShortStreamsStayInStep` derives the first two from `HalfTurn`. `RecordingLength` is the balance of the counters with the number of null lists |
| `RecorderProofs` | `RecorderTyped`, `OpenFilesAreReachable`, `FilesAreSized`, `NoCrashBeforeDeinit`, `ListsWrittenOnce`, `SoundIsKept`, `ClosedFilesAreFinal`, `HeadersPromiseNoMore`, `SilenceIsNotRecorded`, `UnboundRecordsNothing` | for any channels, slots, lists and swaps. `StepEffect` sums up what any step does to slots and files: nothing, replace, close, write, or one of main's calls in `close()`, `delete`, new and `open()`. `Own` (a slot's UID names a file made for that slot) holds even while the timer races; with it, `Sizes` says which slots the poll has passed, `Safe` that no slot is null before `deinit`, and `LeftIsLater` that what is left to write for a slot has higher numbers than all its files hold. `Kept` says that what a slot is done with is a first part of the lists heard, that its file is open when the last of them had sound and no open failed, and what its files hold; `SlotStep` shows that a step leaves a slot alone, passes it with the head of the queue, or queues a list. `Told` says of main's `close()` that the length it was told was written. The last four go through `StepEffect`; `SilenceIsNotRecorded` also through `Looked`: what the thread decided about an entry is still true of the list when it writes it |
| `DtmfProofs` | `PluginTyped`, `CountStaysGood`, `WindowsFollow`, `EntriesInOrder`, `PressesAreReported`, `ReportedStandsOut`, `FramesRepeatOneEntry`, `CrashNeedsLateThread` | for any frame and window sizes. `Typed` carries the count of the first locked section into the second; `Cuts` is the position of the next window in the frames put in a row; `Order` relates what was analysed, what is in the thread's list and what is queued; `Flags` says what `permissionFlag` and `prevDialButton` know of the last verdicts, from which the count of presses follows by cardinality. `Tiled` says that the frames in a row are their entries over and over; `GaveUp`, that only a wait that timed out leaves a thread behind. The decision about a window is proved about its thresholds, for every energy |
| `StartupProofs` | `PluginsAreStoppable`, `NamedFileIsRead`, `FaultsAreOfTheFile`, `LongOptionIsLost` | for command lines and files of any number. `Stoppable` relates `m_setup`, the application's sources and the chain; `NamedRead` and `Reading` follow a plugin's walk over the words up to the last `-c`; `AllSane` adds what a file, good or bad, makes of each plugin. `LongRead` is the same walk for plugins that negate the comparison |
| `TcpStreamerProofs` | `ListsFollowTheRing`, `ImplementsQueueSafety`, `ReadFindsWholeFrames`, `ListsWholeWhileRoom`, `UnboundServesNothing` | for any ring and any lists. `Follows` matches the lists given, and the one being copied, with the frames found, sample by sample; each step is a step or a stutter of `LossyQueue` under the mapping of the ring's unread slots. `TakenInv` numbers the frames taken and those still unread; `Behind`, that the Writer's slot is the one right behind the read head, which the worker reaches only in a ring with `Size - 1` unread frames |
| `PluginChainProofs` | `ChainInvariant`, `ChainFollowsTags`, `WalksInOrder`, `ListReachesAll`, `LinksFromLastPut`, `GoodTagsAreAllLoaded`, `DeinitIsComplete`, `NothingPassesMd5` | `ChainInv` says where a walk is relative to the plugins called, and where a list is relative to the plugins that saw it, for any number of libraries and tags. `LinksFromLastPut` needs no distinct tags: `TailIsLast` and the last place a library has in the load order fix every link |
| `ServersProofs` | `ServersTyped`, `UsersOneAtATime`, `AnswersKeepOrder`, `MessagesKeepOrder`, `LoneUsersAreServed`, `NewerSilencesOlder` | `Pointer` and `OneAtATime` say which sockets may be open, closed and doomed while users come one at a time: at most `p_conn`'s is open, and the doomed ones are the closed ones. `Answers` splits each user's lines into answered, buffered and unread; the first quit of a line sequence exists because the naturals are well-founded. `AllServed` adds to `Answers` what a connection that ended was answered: its lines, or those up to the first quit; `InTurn` says that those not yet accepted are newer than `p_conn`, so that it only rises |

The theorems assume the `ASSUME`s of the modules and, where they are named
below, conditions on the stream or the ring. Without the strengthening
none of these is inductive: `InOrderNoLoss`, for instance, says nothing of whether
the thread may be between copying and clearing the queue, which is what the
mutex's ownership adds.

`NoCrashBeforeDeinit` and `SoundIsKept` hold of lists with more entries than the
recorder has slots: the one names the entries past the slots as the only way to
crash, the other speaks of the entries that have one. `FaultsAreOfTheFile` says
which configurations lead there, and `LongOptionIsLost` is another way.

The timer's swaps and `deinit` are where the recorder's missing lock bites, and
what is proved of them is what remains true: `RecorderTyped`, `ListsWrittenOnce`,
`SilenceIsNotRecorded`, `ClosedFilesAreFinal`, `HeadersPromiseNoMore`. That no sound
is lost, no file left open or torn and nothing crashes is not true of them.
`ClosedFilesAreFinal` names its two exceptions, both the timer's: a file that the
thread has opened in the slot between main's new and its `open()` is cut short,
and one whose `close()` is interrupted by the signal may be torn.

`ForwardedOnlyOnwards` and `ShortStreamsFallShort` assume `HalfTurn`: no more than 2^31
datagrams are sent in all, copies included. Past that, two frames in flight may be
half a turn apart, and the counter no longer tells which is the later. A long
recording passes that number, and what is needed is less: `OnwardsWhileInStep`,
which also covers late copies and restarts, and `RecordingLength` are about
streams of any length, whose counters wrap as often as they like, as long as
nothing in flight, read or forwarded last is half a turn old (`InStep`, `Recent`)
and the count was not moved half a turn on between two frames forwarded
(`NoLeap`). These are conditions on the network, which the code does not test and
cannot: at 2^31 frames of delay it takes an old frame for a new one. `ListsWholeWhileRoom` assumes `RoomLeft`, that there are never as many as `Size - 1`
unread frames; no code ensures it, and without it `ReadFindsWholeFrames` is what is
left.

For each run that ends in a violation, a theorem says how far the violation
reaches: `ClearedListsAreOneFrame` (the long null lists come only from a chain that
does not clear), `UnboundRecordsNothing` (nothing is recorded in any configuration,
and nothing is lost from the queue), `NothingPassesMd5` (every plugin behind MD5
starves, and no second list is produced) and `FramesRepeatOneEntry` (a DTMF frame is right
exactly when one entry fills it).

Model-checked only: every liveness property, and the liveness half of the two
refinements (the prover does not reason about fairness). Every safety property of
a passing run is proved.

## What the models show about the code

The runs that end in a violation are in `PROJECT.json` under "findings". Other
observations made while modelling, which no run is devoted to:

* the first desync of a connection is replaced by a single list of null samples,
  however many frames were missed (`udp-streamer/server.cpp:282-294`), although
  the comment at 279 says always; a device that starts with the server is in sync
  from its first frame, and its first gap shortens the recording. Later gaps
  shorten it by one frame each, the one that shows the gap (`RecordingLength`).
  `RecordingFallsShort` is the sum of it;
* a late copy is taken for a restart: 1 2 3 2 3 is forwarded as 1 2 3 3
  (`udp-streamer/server.cpp:258-292`, `ForwardedInOrder`);
* with a `freq` of 0 the first frame divides by zero (`DFT/DtmfDetector.cpp:169`),
  and a negative `frameSize` that `freq` makes up for throws at the first frame
  (`DFT/dtmf.cpp:222`); no run starts the thread with such settings;
* in single-file mode 512 bytes are copied for 512 two-byte samples
  (`udp-streamer/server.cpp:334-335`);
* a last Plugin tag with too few attributes is read one past the end of the list:
  the test at `app/sapplication.cpp:241` lets `i+3 = count` through;
* a library listed before and after another cuts the chain between them, or closes
  it to a ring (`LinksFromLastPut`);
* with two users at once, one user's lines are never answered after the other
  came (`app/server.cpp:75`, `NewerSilencesOlder`), its leaving deletes the other's socket (105), and
  after a `quit` the pointer is to a deleted socket that the other's next line
  uses; the model reaches all three. `info` is offered (95) and answered by
  nothing (90), in every run of `serve` in which it is sent;
* `deinit` deletes a Wav without looking whether the thread has just put an open
  one in its place (`recorder/recorder.cpp:213-214`), and `~Wav` closes nothing;
  during the timer's or `deinit`'s `close()` a list may land in the header. Both
  are states of the model, before which `OpenIsReachable` stops;
* a file that fails to open is tried again with the next list of sound, each of
  which is lost (`utils/wav-writer.cpp:90-93`);
* `Writer::setup` reports success when the file did not open, and the messages
  are then dropped at the last stage; the model has both cases;
* `recd2 --config conf`, which the usage offers (`app/main.cpp:85`), configures the
  application but not the recorder, DTMF and others, which negate the comparison;
  `-c conf` works (`LongOptionIsLost`, `NamedFileIsRead`). With `--config`, DTMF is left with frames and windows of size 0. A word
  after the file makes those plugins load that word and lose the file, and a stray
  word that names a file is loaded too. `-h` does not exit;
* a DTMF conf without `freq` or `frameSize` makes `p_main` go on through a list
  that loading it freed (`DFT/dtmf.cpp:144`); a negative `freq` throws in
  `init` (53). Without `port` the streamer binds to
  whatever `m_port` held. With a `files` that does not parse the streamer sends
  all channels while the recorder has one slot. `enabled` is not looked at when
  plugins are loaded;
* the TCP streamer's two threads are QThreads that override nothing, so that
  neither loop runs. If they did: after a client leaves, `read` returns 0 for
  ever; a `select` that times out leaks the client's descriptor; the list's
  entries point at a dead stack variable (`udp-streamer/tcp-server.cpp:175`); the
  ring loses `SIZE` frames at once when it fills; `deinit` destroys a running
  thread or frees the ring under one;
* the DTMF detector does not compare with a dial tone exactly as loud as the
  loudest row or column (`DFT/DtmfDetector.cpp:272-274`), so that two keys pressed
  at once can be reported as one; `ReportedStandsOut` shows that nothing else gets
  through;
* at exit `InterfaceList::clear` deinitialises the plugins again and deletes
  static objects; the model lets it crash.

## Not modelled

* `utils/thread.cpp` (PThread, PMutex, BSemaphore, SpinLock) and the tone
  generator: nothing in the program uses them;
* the ring's `readAll`, `clear` and `getSize`: unreachable or without a caller;
* formatting (dates, JSON, log prefixes), the stack tracer, the checksum of a
  frame, which the streamer computes and ignores, the MD5 hash: no state that a
  property could be about;
* capture from the sound card, `fork`, `setsid` and the descriptors: the operating
  system's;
* the Goertzel filter's fixed-point arithmetic: numeric; what it finds is any of
  the energies;
* the creation of the singletons by two threads at once, and the memory of the
  samples, which plugins share by pointer: see the plan;
* the server thread's end, and users who do not read their answers.

## Plan

Done: every component that keeps state and is reached, in the order of what a
failure costs (logger, streamer, recorder, chain, DTMF, servers, then the start and
the TCP transport), with proofs of all their safety properties, and of
what holds beyond the runs: streams without a bound on their length, the recorder's
files under the timer's race, chains with repeated libraries, and the complement of
each violation. Left:

1. Sample buffers through the streamer, the recorder and the DTMF plugin: who
   frees which, composing `UdpStreamer`'s lists with `PluginChain`'s walk.
2. The singletons' creation (`utils/logger.cpp:22`, `utils/ipc-msg.cpp`) by two
   threads at once.
