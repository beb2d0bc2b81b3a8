------------------------------- MODULE Startup -------------------------------
(* From the command line to the event loop: main and SApplication
   (app/main.cpp, app/sapplication.cpp, app/unix/daemon.cpp), the configuration
   (utils/recorder-config.cpp) and what each plugin's main_proxy and init make
   of them. utils is a static library linked into the application and into
   every plugin, so each of them has a RecorderConfig of its own and loads the
   file for itself, from the command line main_proxy is passed. Files are
   their attributes and Plugin tags; a number is an integer or NaN, text that
   toInt refuses. Reads of freed memory and writes past an array end the model;
   a library listed twice is PluginChain's.                                  *)
EXTENDS Integers, Sequences, SequencesExt

CONSTANTS Lines,      \* the command lines tried: words, the program's name first
          Files,      \* the words that name a readable file
          Contents,   \* for each file, its Plugin tags and its attributes
          FrameSize,  \* samples in a frame_data_t
          Unit,       \* the bytes in a "B", a "MB" and a "GB"
          SizeMod,    \* 2^32 bytes
          Ports,      \* what the streamer's m_port may hold uninitialised
          NaN, None

ConfigOption == {"-c", "--config"}
DaemonOption == {"-d", "--daemon"}
ListOption   == {"-l", "--list-dev"}
BuiltIn      == ""  \* no file's name: loadDefaults' attributes

(* main_proxy negates strcmp(argv[i], "--config") by mistake in these.       *)
Copied == {"rec", "dtmf", "md5", "null", "consumer", "producer"}
Libs   == Copied \cup {"udp", "alsa"}

ASSUME StartupAssumption ==
  /\ \A l \in Lines : l \in Seq(STRING) /\ l # <<>>
  /\ Files \cap (ConfigOption \cup DaemonOption \cup ListOption \cup {BuiltIn, None}) = {}
  /\ \A f \in Files :
       LET tag == Contents[f].plugins
           attr == Contents[f].attrs
       IN /\ tag \in Seq([lib : Libs, conf : {None} \cup STRING])
          /\ \A j, k \in DOMAIN tag : tag[j].lib = tag[k].lib => j = k
          /\ \A a \in {"freq", "frameSize"} \cap DOMAIN attr : attr[a] \in Int \cup {NaN}
  /\ FrameSize \in Nat /\ SizeMod \in Nat \ {0} /\ Unit \in [{"B", "MB", "GB"} -> Nat]

VARIABLES
  line,        \* argv
  pc,          \* where the main thread is, or how the program ended
  i,           \* the word a loop over argv is at
  p,           \* the plugin a walk is at
  confs,       \* Dtmf::p_main: the conf attributes still to be read, None for none
  daemon,      \* main's is_daemon
  setup,       \* SApplication.m_setup
  tags,        \* m_tags of each RecorderConfig: the sources loaded, in order
  chain,       \* the plugins loaded
  registered,  \* testSig is attached to the signals
  log,         \* the logger's file has a name
  up,          \* the plugins whose init ran
  later,       \* the plugins with a single shot of 0 ms pending
  rec, udp, dtmf, alsa  \* what their init made of the configuration

plugins  == <<up, later, rec, udp, alsa>>
settings == <<daemon, setup, chain, registered, log>>
vars == <<line, pc, i, p, confs, settings, tags, dtmf, plugins>>

Owners == Libs \cup {"app"}

-----------------------------------------------------------------------------
(* RecorderConfig. A file clears what was loaded before it; loadDefaults adds
   to it. A look-up finds the first pair that has the name.                  *)
BuiltInAttributes ==
  [timeBased |-> "enabled", maxSize |-> [n |-> 100, unit |-> "MB"], interval |-> 30, rate |-> 8000,
   transport |-> "udp", port |-> 1234, logname |-> "recorder.log"]

FastLoadAdded(t, f) ==  \* seeded bug: m_tags.clear() forgotten
  IF f \in Files THEN Append(t, f) ELSE t

FastLoadFile(t, f) ==
  IF f = BuiltIn THEN t ELSE IF f \in Files THEN <<f>> ELSE <<>>

LoadDefaults(t) == Append(t, BuiltIn)

Attributes(s) == IF s = BuiltIn THEN BuiltInAttributes ELSE Contents[s].attrs

Having(t, a) == {k \in DOMAIN t : a \in DOMAIN Attributes(t[k])}

Has(t, a) == Having(t, a) # {}

Attrib(t, a) == Attributes(t[Min(Having(t, a))])[a]

(* toInt, and what its caller falls back on.                                 *)
Number(t, a, absent, bad) ==
  IF ~Has(t, a) THEN absent ELSE IF Attrib(t, a) = NaN THEN bad ELSE Attrib(t, a)

Says(t, a, words) == Has(t, a) /\ Attrib(t, a) \in words

(* The Plugin tags; only the first source can be a file.                     *)
PluginTags(t) == IF t = <<>> \/ t[1] = BuiltIn THEN <<>> ELSE Contents[t[1]].plugins

-----------------------------------------------------------------------------
(* What init makes of a configuration, plugin by plugin. The recorder: sizes
   are uint32_t, and setupWavFiles takes the last rate, not the first.       *)
RecChans(t) == LET n == Number(t, "files", 1, 1) IN IF n \in 1 .. 127 THEN n ELSE 1

Swap(t) == IF ~Has(t, "timeBased") THEN "none"
           ELSE IF Says(t, "timeBased", {"enabled", "true"}) THEN "time" ELSE "size"

WaveRate(t) ==
  IF ~Has(t, "rate") THEN 0
  ELSE Number(<<t[Max(Having(t, "rate"))]>>, "rate", 0, 8000)

(* A size is the number a text starts with, in the unit that follows it.     *)
Limit(t) ==
  IF ~Has(t, "maxSize") THEN 0
  ELSE LET max == Attrib(t, "maxSize")
       IN (IF max.n = NaN THEN 30 * Unit["MB"] ELSE max.n * Unit[max.unit]) % SizeMod

RecOf(t) ==
  [chans |-> RecChans(t), swap |-> Swap(t), rate |-> WaveRate(t),
   interval |-> Number(t, "interval", 1, 1),
   limit |-> IF Swap(t) = "size" THEN Limit(t) ELSE 0]

(* The streamer.                                                             *)
UdpChans(t) == LET n == Number(t, "channels", 1, 1) IN IF n \in 1 .. 127 THEN n ELSE 1

UdpOf(t, port, state) ==
  [port |-> port, single |-> Number(t, "files", 1, 0) = 1, chans |-> UdpChans(t),
   smpls |-> Number(t, "samplesPerChan", 16, 16),
   peek |-> Says(t, "enabled", {"enabled", "true"}),
   packet |-> Number(t, "size", 0, 10), state |-> state]

(* init writes smpls x chans samples into err_udp.data; smpls is unsigned.   *)
Overruns(t) == \/ Number(t, "samplesPerChan", 16, 16) < 0
               \/ Number(t, "samplesPerChan", 16, 16) * UdpChans(t) > FrameSize

AlsaOf(t) == [rate |-> Number(t, "sampleRate", 8000, 8000), chans |-> Number(t, "chans", 1, 1)]

(* The DTMF plugin reads freq and frameSize from another file, which a conf
   attribute of its tag, or of a later one, names.                           *)
FromDtmf(s) ==
  LET at == {k \in DOMAIN s : s[k].lib = "dtmf"}
  IN IF at = {} THEN <<>> ELSE SubSeq(s, Min(at), Len(s))

ConfsOf(t) ==
  LET s == FromDtmf(PluginTags(t)) IN [k \in DOMAIN s |-> s[k].conf]

Complete(t) == Has(t, "freq") /\ Has(t, "frameSize")

DtmfOf(t) ==
  IF Complete(t)
  THEN [freq |-> Number(t, "freq", 102, 102), size |-> Number(t, "frameSize", 160, 160)]
  ELSE [freq |-> 102, size |-> 160]

Unset == [freq |-> 0, size |-> 0]

-----------------------------------------------------------------------------
Init ==
  /\ line \in Lines /\ pc = "main" /\ i = 1 /\ p = 1 /\ confs = <<>>
  /\ daemon = FALSE /\ setup = FALSE /\ registered = FALSE /\ log = FALSE
  /\ tags = [o \in Owners |-> <<>>] /\ chain = <<>> /\ up = {} /\ later = {}
  /\ rec = None /\ udp = None /\ dtmf = Unset /\ alsa = None

(* main: -h prints its help and goes on like any other word.                 *)
GetOpts ==
  /\ pc = "main" /\ i <= Len(line)
  /\ daemon' = (daemon \/ (Len(line) > 1 /\ line[i] \in DaemonOption)) /\ i' = i + 1
  /\ UNCHANGED <<line, pc, p, confs, setup, chain, registered, log, tags, dtmf, plugins>>

EndOpts ==
  /\ pc = "main" /\ i > Len(line)
  /\ pc' = (IF daemon THEN "daemonize" ELSE "args") /\ i' = 1
  /\ UNCHANGED <<line, p, confs, settings, tags, dtmf, plugins>>

(* The process that goes on is the second fork's child, or this one if it was
   a daemon already; its three standard descriptors stay closed.             *)
Daemonize ==
  /\ pc = "daemonize" /\ pc' = "args"
  /\ UNCHANGED <<line, i, p, confs, settings, tags, dtmf, plugins>>

(* getrlimit, fork, setsid or chdir fails.                                   *)
DaemonizeFails ==
  /\ pc = "daemonize" /\ pc' = "exited"
  /\ UNCHANGED <<line, i, p, confs, settings, tags, dtmf, plugins>>

(* SApplication's constructor: each -c, then each -d, as it comes.           *)
FallBack(t, f) ==
  LET loaded == FastLoadFile(t, f) IN IF f \in Files THEN loaded ELSE LoadDefaults(loaded)

IsSetUpIfLoaded(k) ==  \* seeded bug: m_setup is fastLoadFile's result
  \/ line[k] \in ConfigOption /\ k < Len(line) /\ line[k + 1] \in Files
  \/ line[k] \in DaemonOption
  \/ setup /\ ~(line[k] \in ConfigOption /\ k < Len(line))

IsSetUp(k) ==
  \/ line[k] \in ConfigOption /\ k < Len(line)
  \/ line[k] \in DaemonOption
  \/ setup

ParseArg ==
  /\ pc = "args" /\ i <= Len(line)
  /\ setup' = (Len(line) = 1 \/ IsSetUp(i)) /\ i' = i + 1
  /\ tags' = [tags EXCEPT !["app"] =
       IF Len(line) = 1 \/ line[i] \in DaemonOption THEN LoadDefaults(@)
       ELSE IF line[i] \in ConfigOption /\ i < Len(line) THEN FallBack(@, line[i + 1])
       ELSE @]
  /\ UNCHANGED <<line, pc, p, confs, daemon, chain, registered, log, dtmf, plugins>>

(* loadPlugins, whatever "enabled" says; any library may fail to load: the
   tags whose library loads, in order.                                       *)
Selections(s) ==
  UNION {{at \in [1 .. n -> DOMAIN s] : \A j, k \in 1 .. n : j < k => at[j] < at[k]} :
           n \in 0 .. Len(s)}

LoadPlugins ==
  /\ pc = "args" /\ i > Len(line)
  /\ \E good \in Selections(PluginTags(tags["app"])) :
       chain' = [k \in DOMAIN good |-> PluginTags(tags["app"])[good[k]].lib]
  /\ pc' = "proxy" /\ p' = 1 /\ i' = 1
  /\ UNCHANGED <<line, confs, daemon, setup, registered, log, tags, dtmf, plugins>>

(* main_proxy: the words after which a plugin loads the next one.            *)
Takes(l, k) ==
  \/ l \in Copied /\ line[k] # "--config"
  \/ l = "udp" /\ line[k] \in ConfigOption
  \/ l = "alsa" /\ line[k] \in ConfigOption /\ k > 1

InProxy == pc = "proxy" /\ p <= Len(chain) /\ confs = <<>> /\ i <= Len(line) /\ Len(line) > 1

Lists(l, k) == l = "alsa" /\ k > 1 /\ line[k] \in ListOption

TakeFile ==
  /\ InProxy /\ Takes(chain[p], i) /\ i < Len(line)
  /\ LET t == FastLoadFile(tags[chain[p]], line[i + 1])
     IN /\ tags' = [tags EXCEPT ![chain[p]] = t]
        /\ confs' = (IF chain[p] = "dtmf" THEN ConfsOf(t) ELSE <<>>)
  /\ i' = (IF chain[p] = "udp" THEN Len(line) + 1 ELSE i + 1)
  /\ UNCHANGED <<line, pc, p, settings, dtmf, plugins>>

SkipWord ==
  /\ InProxy /\ ~(Takes(chain[p], i) /\ i < Len(line)) /\ ~Lists(chain[p], i)
  /\ i' = i + 1
  /\ UNCHANGED <<line, pc, p, confs, settings, tags, dtmf, plugins>>

ListDevices ==
  /\ InProxy /\ Lists(chain[p], i) /\ pc' = "exited"
  /\ UNCHANGED <<line, i, p, confs, settings, tags, dtmf, plugins>>

(* Dtmf::p_main walks the Plugin pairs by reference; loading a conf file frees
   them. It returns at once when the file was complete; else it sets defaults
   and, unless the name was empty, goes on through the freed list.           *)
DtmfGoesOn(t) ==  \* seeded bug: "make sure you exit here" forgotten
  /\ pc' = (IF Head(confs) = BuiltIn THEN pc ELSE "crashed")
  /\ confs' = Tail(confs) /\ UNCHANGED i

DtmfAfter(t) ==
  IF Complete(t)
  THEN i' = Len(line) + 1 /\ confs' = <<>> /\ UNCHANGED pc
  ELSE /\ pc' = (IF Head(confs) = BuiltIn THEN pc ELSE "crashed")
       /\ confs' = Tail(confs) /\ UNCHANGED i

DtmfNoConf ==
  /\ pc = "proxy" /\ confs # <<>> /\ Head(confs) = None /\ confs' = Tail(confs)
  /\ UNCHANGED <<line, pc, i, p, settings, tags, dtmf, plugins>>

DtmfConf ==
  /\ pc = "proxy" /\ confs # <<>> /\ Head(confs) # None
  /\ LET t == FastLoadFile(tags["dtmf"], Head(confs))
     IN /\ tags' = [tags EXCEPT !["dtmf"] = t]
        /\ dtmf' = DtmfOf(t)
        /\ DtmfAfter(t)
  /\ UNCHANGED <<line, p, settings, plugins>>

NextPlugin ==
  /\ pc = "proxy" /\ p <= Len(chain) /\ confs = <<>>
  /\ i > Len(line) \/ Len(line) = 1
  /\ p' = p + 1 /\ i' = 1
  /\ UNCHANGED <<line, pc, confs, settings, tags, dtmf, plugins>>

(* Daemon::registerAppData, in the constructor's last lines.                 *)
RegisterAppData ==
  /\ pc = "proxy" /\ p > Len(chain)
  /\ registered' = setup /\ pc' = "logger" /\ p' = 1
  /\ UNCHANGED <<line, i, confs, daemon, setup, chain, log, tags, dtmf, plugins>>

(* SApplication::init: Logger::init, which never fails, then the plugins'.   *)
LoggerInit ==
  /\ pc = "logger" /\ pc' = "init" /\ log' = Has(tags["app"], "logname")
  /\ UNCHANGED <<line, i, p, confs, daemon, setup, chain, registered, tags, dtmf, plugins>>

Initialises(l) ==
  /\ pc = "init" /\ p <= Len(chain) /\ chain[p] = l
  /\ UNCHANGED <<line, i, confs, settings, tags, dtmf>>

IsUp(l) == up' = up \cup {l} /\ p' = p + 1 /\ UNCHANGED pc

RecInit ==
  /\ Initialises("rec") /\ IsUp("rec") /\ rec' = RecOf(tags["rec"])
  /\ UNCHANGED <<later, udp, alsa>>

(* Server::init: a socket that does not bind, or a deferred TCP server.      *)
UdpStarts(state) ==
  /\ Initialises("udp") /\ ~Overruns(tags["udp"]) /\ IsUp("udp")
  /\ \E port \in (IF Has(tags["udp"], "port")
                  THEN {Number(tags["udp"], "port", 1234, 1234)} ELSE Ports) :
       udp' = UdpOf(tags["udp"], port, state)
  /\ UNCHANGED <<rec, alsa>>

UdpInit ==
  /\ Says(tags["udp"], "transport", {"udp"})
  /\ UdpStarts("bound") \/ UdpStarts("unbound")
  /\ UNCHANGED later

TcpInit ==
  /\ Says(tags["udp"], "transport", {"tcp"})
  /\ UdpStarts("waits") /\ later' = later \cup {"udp"}

(* An invalid transport is exit(1).                                          *)
UdpRefuses ==
  /\ Initialises("udp") /\ ~Overruns(tags["udp"])
  /\ ~Says(tags["udp"], "transport", {"udp", "tcp"})
  /\ pc' = "exited" /\ UNCHANGED <<p, plugins>>

UdpOverruns ==
  /\ Initialises("udp") /\ Overruns(tags["udp"])
  /\ pc' = "crashed" /\ UNCHANGED <<p, plugins>>

AlsaInit ==
  /\ Initialises("alsa") /\ IsUp("alsa") /\ later' = later \cup {"alsa"}
  /\ UNCHANGED <<rec, udp, alsa>>

(* DTMF makes its detector of whatever main_proxy left in dtmf, and starts its
   thread: an array of size + freq samples and one of freq. A negative length
   throws, and nothing catches it. Lengths stay within an INT32.             *)
Allocates == dtmf.freq >= 0 /\ dtmf.size + dtmf.freq >= 0

DtmfInit ==
  /\ Initialises("dtmf") /\ Allocates /\ IsUp("dtmf")
  /\ UNCHANGED <<later, rec, udp, alsa>>

DtmfThrows ==
  /\ Initialises("dtmf") /\ ~Allocates
  /\ pc' = "crashed" /\ UNCHANGED <<p, plugins>>

(* The others keep nothing of the configuration.                             *)
PlainInit ==
  /\ \E l \in Libs \ {"rec", "udp", "alsa", "dtmf"} : Initialises(l) /\ IsUp(l)
  /\ UNCHANGED <<later, rec, udp, alsa>>

InitPlugin == \/ RecInit \/ UdpInit \/ TcpInit \/ UdpRefuses \/ UdpOverruns
              \/ AlsaInit \/ DtmfInit \/ DtmfThrows \/ PlainInit

(* Loaded plugins count as set up; then exec(), or exit(4).                  *)
EndInit ==
  /\ pc = "init" /\ p > Len(chain)
  /\ setup' = (setup \/ chain # <<>>)
  /\ pc' = (IF setup' THEN "exec" ELSE "exited")
  /\ UNCHANGED <<line, i, p, confs, daemon, chain, registered, log, tags, dtmf, plugins>>

(* The single shots, in the event loop.                                      *)
InitTcpServer ==
  /\ pc = "exec" /\ "udp" \in later
  /\ later' = later \ {"udp"} /\ udp' = [udp EXCEPT !.state = "listens"]
  /\ UNCHANGED <<line, pc, i, p, confs, settings, tags, dtmf, up, rec, alsa>>

HEvLoop ==
  /\ pc = "exec" /\ "alsa" \in later
  /\ later' = later \ {"alsa"} /\ alsa' = AlsaOf(tags["alsa"])
  /\ UNCHANGED <<line, pc, i, p, confs, settings, tags, dtmf, up, rec, udp>>

(* A signal: testSig deinitialises and exits; before it is attached the
   process just ends.                                                        *)
Running == {"main", "daemonize", "args", "proxy", "logger", "init", "exec"}

Signal ==
  /\ pc \in Running /\ pc' = (IF registered THEN "stopped" ELSE "killed")
  /\ UNCHANGED <<line, i, p, confs, settings, tags, dtmf, plugins>>

Proxy == TakeFile \/ SkipWord \/ ListDevices \/ DtmfNoConf \/ DtmfConf \/ NextPlugin

Next == \/ GetOpts \/ EndOpts \/ Daemonize \/ DaemonizeFails \/ ParseArg \/ LoadPlugins
        \/ Proxy \/ RegisterAppData \/ LoggerInit \/ InitPlugin \/ EndInit
        \/ InitTcpServer \/ HEvLoop \/ Signal

Spec == Init /\ [][Next]_vars

-----------------------------------------------------------------------------
(* Whatever the words, a signal that finds a plugin initialised meets testSig,
   which stops the plugins in order: what sets plugins up (loaded tags) has
   also set m_setup before registerAppData (sapplication.cpp:68-135).        *)
RunningIsStoppable ==
  /\ up # {} => registered
  /\ pc = "killed" => up = {}

(* The line names f: as its last two words are -c f, with no other option of
   the kind and no other word that is a file's name.                         *)
NamesConfig(f) ==
  LET n == Len(line)
  IN /\ n >= 3 /\ line[n] = f /\ line[n - 1] = "-c"
     /\ \A k \in 1 .. n - 2 : line[k] \notin ConfigOption \cup Files

(* A file named that way is the one source of every plugin's settings when its
   init runs, and DTMF's are of the file or of the conf it names, although most
   plugins load the word after every word (main_proxy in each plugin).       *)
NamedConfigRead ==
  pc \in {"init", "exec"} =>
    \A f \in Files : NamesConfig(f) =>
      /\ tags["app"] = <<f>>
      /\ \A k \in DOMAIN chain :
           \/ tags[chain[k]] = <<f>>
           \/ chain[k] = "dtmf" /\ \E c \in ToSet(ConfsOf(<<f>>)) : tags["dtmf"] = <<c>>

(* What a file may get wrong: DTMF's first conf names a file with a window and
   a frame of at least one sample; entries of the streamer's lists have slots. *)
Uses(f, l) == \E g \in ToSet(Contents[f].plugins) : g.lib = l

Tones(f) == DtmfOf(<<ConfsOf(<<f>>)[1]>>)

TonesFit(f) ==
  LET c == ConfsOf(<<f>>)
  IN /\ c # <<>> /\ c[1] \in Files /\ Complete(<<c[1]>>)
     /\ Tones(f).freq > 0 /\ Tones(f).size > 0

SlotsFit(f) ==
  Number(<<f>>, "files", 1, 0) = 1 \/ UdpChans(<<f>>) <= RecChans(<<f>>)

Entries == IF udp.single THEN 1 ELSE udp.chans

(* For any file named that way, good or bad, what goes wrong is in the file: the
   start crashes only over the streamer's sizes or DTMF's conf, never with a
   streamer up that overran its frame; lists have entries without a slot exactly
   when the counts, each plugin reading its own attribute, do not fit; and DTMF
   runs with its conf's settings if they make sense (server.cpp:118-132,
   recorder.cpp:100-111, dtmf.cpp:53 and 143-176).                           *)
FaultsAreTheFiles ==
  \A f \in Files : NamesConfig(f) =>
    /\ pc = "crashed" => \/ Uses(f, "udp") /\ Overruns(<<f>>)
                         \/ Uses(f, "dtmf") /\ ~TonesFit(f)
    /\ "udp" \in up => ~Overruns(<<f>>)
    /\ {"udp", "rec"} \subseteq up => (Entries > rec.chans <=> ~SlotsFit(f))
    /\ "dtmf" \in up /\ TonesFit(f) => dtmf = Tones(f)
=============================================================================
