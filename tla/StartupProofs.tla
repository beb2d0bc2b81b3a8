---------------------------- MODULE StartupProofs ----------------------------
(* Proofs about the start, for command lines of any length and any files: a
   running plugin can be stopped, a file named by a last -c is the one that
   every plugin reads, a sound file starts soundly, and a file named by
   --config leaves most of the plugins without settings.                     *)
EXTENDS Startup, WellFoundedInduction, TLAPS

-----------------------------------------------------------------------------
(* m_setup is set by what fills the tags that load plugins, the signals are
   attached when it is set, and nothing is initialised before.               *)
Stoppable ==
  /\ p \in Nat \ {0}
  /\ DOMAIN tags = Owners
  /\ pc \in {"main", "daemonize"} => tags["app"] = <<>>
  /\ pc = "args" => setup \/ tags["app"] = <<>>
  /\ pc = "proxy" => setup \/ chain = <<>>
  /\ pc \in {"logger", "init", "exec"} => registered \/ chain = <<>>
  /\ pc \in {"main", "daemonize", "args", "proxy", "logger"} => up = {}
  /\ up # {} => registered
  /\ pc = "killed" => up = {}

LEMMA NoTagsNoPlugins ==
  ASSUME NEW good \in Selections(PluginTags(<<>>))
  PROVE  [k \in DOMAIN good |-> PluginTags(<<>>)[good[k]].lib] = <<>>
<1>1. PluginTags(<<>>) = <<>> /\ Len(<<>>) = 0 /\ DOMAIN <<>> = {}
  BY DEF PluginTags
<1>2. PICK n \in 0 .. 0 : good \in [1 .. n -> {}]
  BY <1>1 DEF Selections
<1>3. n = 0 /\ DOMAIN good = {}
  BY <1>2
<1> QED  BY <1>3

LEMMA StoppableInit == Init => Stoppable
<1> SUFFICES ASSUME Init PROVE Stoppable
  OBVIOUS
<1>1. DOMAIN tags = Owners
  BY DEF Init
<1>2. tags["app"] = <<>>
  BY DEF Init, Owners
<1> QED  BY <1>1, <1>2 DEF Init, Stoppable

LEMMA StoppableStep == Stoppable /\ [Next]_vars => Stoppable'
<1> SUFFICES ASSUME Stoppable, [Next]_vars PROVE Stoppable'
  OBVIOUS
<1> USE DEF Stoppable
<1>0. CASE UNCHANGED vars
  BY <1>0 DEF vars, plugins, settings
<1>1. CASE GetOpts \/ EndOpts \/ Daemonize \/ DaemonizeFails
  BY <1>1 DEF GetOpts, EndOpts, Daemonize, DaemonizeFails, plugins, settings
<1>2. CASE ParseArg
  <2>1. pc = "args" /\ pc' = pc /\ UNCHANGED <<p, chain, registered, up>>
    BY <1>2 DEF ParseArg, plugins
  <2>2. "app" \in Owners
    BY DEF Owners
  <2>3. DOMAIN tags' = Owners
    BY <1>2 DEF ParseArg
  <2>4. setup' \/ tags'["app"] = tags["app"]
    BY <1>2, <2>2 DEF ParseArg, IsSetUp
  <2>5. setup => setup'
    BY <1>2 DEF ParseArg, IsSetUp
  <2> QED  BY <2>1, <2>3, <2>4, <2>5
<1>3. CASE LoadPlugins
  <2>1. PICK good \in Selections(PluginTags(tags["app"])) :
          chain' = [k \in DOMAIN good |-> PluginTags(tags["app"])[good[k]].lib]
    BY <1>3 DEF LoadPlugins
  <2>2. tags["app"] = <<>> => chain' = <<>>
    BY <2>1, NoTagsNoPlugins
  <2>3. /\ pc = "args" /\ pc' = "proxy" /\ p' = 1
        /\ UNCHANGED <<tags, setup, registered, up>>
    BY <1>3 DEF LoadPlugins, plugins
  <2> QED  BY <2>2, <2>3
<1>4. CASE TakeFile
  <2>1. pc = "proxy" /\ UNCHANGED <<p, pc, setup, chain, registered, up>>
    BY <1>4 DEF TakeFile, InProxy, settings, plugins
  <2>2. DOMAIN tags' = Owners
    BY <1>4 DEF TakeFile
  <2> QED  BY <2>1, <2>2
<1>5. CASE DtmfConf
  <2>1. /\ pc = "proxy" /\ pc' \in {"proxy", "crashed"}
        /\ UNCHANGED <<p, setup, chain, registered, up>>
    BY <1>5 DEF DtmfConf, DtmfAfter, settings, plugins
  <2>2. DOMAIN tags' = Owners
    BY <1>5 DEF DtmfConf
  <2> QED  BY <2>1, <2>2
<1>6. CASE SkipWord \/ ListDevices \/ DtmfNoConf \/ NextPlugin
  <2>1. /\ pc = "proxy" /\ pc' \in {"proxy", "exited"} /\ p' \in {p, p + 1}
        /\ UNCHANGED <<tags, setup, chain, registered, up>>
    BY <1>6 DEF SkipWord, ListDevices, DtmfNoConf, NextPlugin, InProxy, settings, plugins
  <2> QED  BY <2>1
<1>7. CASE RegisterAppData
  BY <1>7 DEF RegisterAppData, plugins
<1>8. CASE LoggerInit
  BY <1>8 DEF LoggerInit, plugins
<1>9. CASE InitPlugin
  <2>1. PICK l \in Libs : Initialises(l)
    BY <1>9 DEF InitPlugin, RecInit, UdpInit, TcpInit, UdpStarts, UdpRefuses, UdpOverruns,
                AlsaInit, DtmfInit, DtmfThrows, PlainInit, Libs, Copied
  <2>2. pc = "init" /\ chain # <<>> /\ UNCHANGED <<tags, setup, chain, registered>>
    BY <2>1 DEF Initialises, settings
  <2>3. pc' \in {"init", "exited", "crashed"} /\ p' \in {p, p + 1}
    <3>1. ASSUME NEW m, IsUp(m) PROVE pc' = pc /\ p' = p + 1
      BY <3>1 DEF IsUp
    <3> QED
      BY <1>9, <2>2, <3>1 DEF InitPlugin, RecInit, UdpInit, TcpInit, UdpStarts, UdpRefuses,
                              UdpOverruns, AlsaInit, DtmfInit, DtmfThrows, PlainInit, Initialises
  <2> QED  BY <2>2, <2>3
<1>10. CASE EndInit
  BY <1>10 DEF EndInit, plugins
<1>11. CASE InitTcpServer \/ HEvLoop
  BY <1>11 DEF InitTcpServer, HEvLoop, settings
<1>12. CASE Signal
  BY <1>12 DEF Signal, Running, settings, plugins
<1> QED
  BY <1>0, <1>1, <1>2, <1>3, <1>4, <1>5, <1>6, <1>7, <1>8, <1>9, <1>10, <1>11, <1>12
     DEF Next, Proxy

(* Whatever the words and the files, an initialised plugin finds testSig
   attached, and a process that is killed had none (daemon.cpp:179-219).     *)
THEOREM PluginsAreStoppable == Spec => []RunningIsStoppable
<1>1. Stoppable => RunningIsStoppable
  BY DEF Stoppable, RunningIsStoppable
<1> QED  BY StoppableInit, StoppableStep, <1>1, PTL DEF Spec

-----------------------------------------------------------------------------
(* What the words of a line that names f do to a configuration.              *)
LEMMA LoadsNamed == ASSUME NEW f \in Files, NEW t PROVE FastLoadFile(t, f) = <<f>>
  BY StartupAssumption DEF FastLoadFile

LEMMA LoadsNothing == ASSUME NEW w, w \notin Files PROVE FastLoadFile(<<>>, w) = <<>>
  BY DEF FastLoadFile

LEMMA NamedTags == ASSUME NEW f \in Files PROVE PluginTags(<<f>>) = Contents[f].plugins
  BY StartupAssumption DEF PluginTags

LEMMA NoConfs == ConfsOf(<<>>) = <<>>
<1>1. PluginTags(<<>>) = <<>> /\ DOMAIN <<>> = {}
  BY DEF PluginTags
<1>2. FromDtmf(<<>>) = <<>>
  BY <1>1 DEF FromDtmf
<1> QED  BY <1>1, <1>2 DEF ConfsOf

LEMMA LeastNat ==
  ASSUME NEW S \in SUBSET Nat, S # {} PROVE Min(S) \in S
<1> DEFINE R == OpToRel(<, Nat)
<1>1. \A x, y \in Nat : x < y => <<x, y>> \in R
  BY DEF OpToRel
<1>2. IsWellFoundedOn(R, Nat)
  BY NatLessThanWellFounded
<1> HIDE DEF R
<1>3. PICK m \in S : \A y \in S : <<y, m>> \notin R
  BY <1>2, WFMin
<1>4. \A y \in S : ~(y < m)
  BY <1>1, <1>3
<1>5. \A y \in S : m <= y
  BY <1>4
<1> QED  BY <1>3, <1>5 DEF Min

LEMMA ConfsAreSeq ==
  ASSUME NEW f \in Files PROVE ConfsOf(<<f>>) \in Seq(ToSet(ConfsOf(<<f>>)))
<1> DEFINE tag == Contents[f].plugins
           s == FromDtmf(tag)
<1>1. tag \in Seq([lib : Libs, conf : {None} \cup STRING])
  BY StartupAssumption
<1>2. \E n \in Nat : DOMAIN s = 1 .. n
  <2> DEFINE at == {k \in DOMAIN tag : tag[k].lib = "dtmf"}
  <2>1. CASE at = {}
    <3>1. s = <<>>
      BY <2>1 DEF FromDtmf
    <3> QED  BY <3>1
  <2>2. CASE at # {}
    <3>1. at \in SUBSET (1 .. Len(tag)) /\ Len(tag) \in Nat
      BY <1>1
    <3>2. at \in SUBSET Nat
      BY <3>1
    <3>3. Min(at) \in at
      BY <2>2, <3>2, LeastNat
    <3> DEFINE m == Min(at)
    <3>4. s = SubSeq(tag, m, Len(tag))
      BY <2>2 DEF FromDtmf
    <3>5. m \in 1 .. Len(tag)
      BY <3>1, <3>3
    <3> HIDE DEF m, tag
    <3>6. DOMAIN SubSeq(tag, m, Len(tag)) = 1 .. Len(tag) - m + 1
      BY <3>1, <3>5
    <3>7. Len(tag) - m + 1 \in Nat
      BY <3>1, <3>5
    <3> HIDE DEF s
    <3> QED  BY <3>4, <3>6, <3>7
  <2> QED  BY <2>1, <2>2
<1>3. ConfsOf(<<f>>) = [k \in DOMAIN s |-> s[k].conf]
  BY NamedTags DEF ConfsOf
<1> HIDE DEF s
<1>4. PICK n \in Nat : DOMAIN s = 1 .. n
  BY <1>2
<1> DEFINE c == ConfsOf(<<f>>)
<1>5. c = [k \in 1 .. n |-> c[k]] /\ \A k \in 1 .. n : c[k] \in ToSet(c)
  BY <1>3, <1>4 DEF ToSet
<1> HIDE DEF c
<1>6. c \in [1 .. n -> ToSet(c)]
  BY <1>5
<1> QED  BY <1>6 DEF c

-----------------------------------------------------------------------------
(* How far the plugins' configurations are when f is the named file: nothing
   is loaded before the word f is met, and then nothing but a conf of f's.   *)
Loaded(l, f) ==
  \/ tags[l] = <<f>>
  \/ l = "dtmf" /\ \E c \in ToSet(ConfsOf(<<f>>)) : tags["dtmf"] = <<c>>

Chained(f) ==
  /\ chain = [k \in 1 .. Len(chain) |-> chain[k]] /\ Len(chain) \in Nat
  /\ \A k \in DOMAIN chain : chain[k] \in Libs
  /\ \A j, k \in DOMAIN chain : chain[j] = chain[k] => j = k
  /\ \A k \in DOMAIN chain : \E g \in ToSet(Contents[f].plugins) : g.lib = chain[k]

Walked(f) ==
  \A q \in DOMAIN chain :
    /\ q < p => Loaded(chain[q], f)
    /\ q > p => tags[chain[q]] = <<>>
    /\ q = p /\ confs = <<>> =>
         IF i >= Len(line) THEN Loaded(chain[q], f) ELSE tags[chain[q]] = <<>>

Aside(f) ==
  confs # <<>> =>
    /\ p \in DOMAIN chain /\ chain[p] = "dtmf" /\ i >= Len(line) /\ Loaded("dtmf", f)
    /\ confs \in Seq(ToSet(ConfsOf(<<f>>)))

Reading(f) ==
  /\ DOMAIN tags = Owners /\ i \in Nat \ {0} /\ p \in Nat \ {0}
  /\ pc \in {"main", "daemonize", "args"} => confs = <<>> /\ \A l \in Libs : tags[l] = <<>>
  /\ pc = "daemonize" => i = 1
  /\ pc = "args" /\ i >= Len(line) => tags["app"] = <<f>>
  /\ pc \in {"proxy", "logger", "init", "exec"} => tags["app"] = <<f>> /\ Chained(f)
  /\ pc = "proxy" => Walked(f) /\ Aside(f)
  /\ pc \in {"logger", "init", "exec"} => \A q \in DOMAIN chain : Loaded(chain[q], f)

NamedRead == line \in Lines /\ \A f \in Files : NamesConfig(f) => Reading(f)

(* A line that names f ends in "-c" and f; no other word loads anything.     *)
LEMMA LineEnds ==
  ASSUME NEW f \in Files, line \in Lines, NamesConfig(f)
  PROVE  /\ Len(line) \in Nat /\ Len(line) >= 3
         /\ line[Len(line)] = f /\ line[Len(line) - 1] = "-c"
         /\ f \notin ConfigOption \cup DaemonOption
         /\ \A k \in Nat \ {0} : k < Len(line) - 1 =>
              line[k] \notin ConfigOption /\ line[k + 1] \notin Files
<1>1. Len(line) \in Nat /\ Len(line) >= 3
  BY StartupAssumption DEF NamesConfig
<1>2. f \notin ConfigOption \cup DaemonOption /\ "-c" \notin Files
  BY StartupAssumption DEF ConfigOption
<1>3. /\ line[Len(line)] = f /\ line[Len(line) - 1] = "-c"
      /\ \A k \in 1 .. Len(line) - 2 : line[k] \notin ConfigOption \cup Files
  BY DEF NamesConfig
<1>4. ASSUME NEW k \in Nat \ {0}, k < Len(line) - 1
      PROVE  line[k] \notin ConfigOption /\ line[k + 1] \notin Files
  <2>1. k \in 1 .. Len(line) - 2
    BY <1>1, <1>4
  <2>2. k + 1 \in 1 .. Len(line) - 2 \/ k + 1 = Len(line) - 1
    BY <1>1, <1>4
  <2> QED  BY <1>2, <1>3, <2>1, <2>2
<1> QED  BY <1>1, <1>2, <1>3, <1>4

LEMMA ReadingInit == Init => NamedRead
<1> SUFFICES ASSUME Init, NEW f \in Files, NamesConfig(f) PROVE line \in Lines /\ Reading(f)
  BY DEF Init, NamedRead
<1>1. DOMAIN tags = Owners /\ \A l \in Libs : tags[l] = <<>>
  BY DEF Init, Owners
<1>2. pc = "main" /\ i = 1 /\ p = 1 /\ confs = <<>> /\ line \in Lines
  BY DEF Init
<1> QED  BY <1>1, <1>2 DEF Reading

(* Steps that leave the configurations, the words and the plugins as they are.*)
LEMMA ReadingKept ==
  ASSUME NEW f \in Files, Reading(f), UNCHANGED <<line, i, p, confs, tags, chain>>,
         pc' = pc \/ pc' \notin {"main", "daemonize", "args", "proxy", "logger", "init", "exec"}
  PROVE  Reading(f)'
  BY DEF Reading, Chained, Walked, Aside, Loaded

(* main's words, and the constructor's.                                      *)
LEMMA ReadingArgs ==
  ASSUME NEW f \in Files, line \in Lines, NamesConfig(f), Reading(f), ParseArg
  PROVE  Reading(f)'
<1> DEFINE n == Len(line)
<1>1. /\ pc = "args" /\ i <= n /\ i' = i + 1
      /\ UNCHANGED <<line, pc, p, confs, chain>>
      /\ tags' = [tags EXCEPT !["app"] =
           IF n = 1 \/ line[i] \in DaemonOption THEN LoadDefaults(@)
           ELSE IF line[i] \in ConfigOption /\ i < n THEN FallBack(@, line[i + 1])
           ELSE @]
  BY DEF ParseArg
<1>2. /\ DOMAIN tags = Owners /\ i \in Nat \ {0} /\ p \in Nat \ {0}
      /\ confs = <<>> /\ \A l \in Libs : tags[l] = <<>>
      /\ i >= n => tags["app"] = <<f>>
  BY <1>1 DEF Reading
<1>3. /\ n \in Nat /\ n >= 3 /\ line[n] = f /\ line[n - 1] = "-c"
      /\ f \notin ConfigOption \cup DaemonOption
  BY LineEnds
<1>4. "app" \in Owners /\ \A l \in Libs : l \in Owners /\ l # "app"
  BY DEF Owners, Libs, Copied
<1> HIDE DEF n
<1>5. DOMAIN tags' = Owners /\ \A l \in Libs : tags'[l] = <<>>
  BY <1>1, <1>2, <1>4
<1>6. ASSUME i' >= n PROVE tags'["app"] = <<f>>
  <2>1. CASE i = n - 1
    <3>1. line[i + 1] = f /\ line[i] = "-c" /\ i < n /\ n # 1
      BY <1>3, <2>1
    <3>2. line[i] \in ConfigOption /\ line[i] \notin DaemonOption
      BY <3>1 DEF ConfigOption, DaemonOption
    <3>3. tags'["app"] = FallBack(tags["app"], f)
      BY <1>1, <1>2, <1>4, <3>1, <3>2
    <3> QED  BY <3>3, LoadsNamed DEF FallBack
  <2>2. CASE i = n
    <3>1. line[i] = f /\ ~(i < n) /\ n # 1
      BY <1>3, <2>2
    <3>2. tags' = [tags EXCEPT !["app"] = @]
      BY <1>1, <1>3, <3>1
    <3> QED  BY <1>2, <1>3, <1>4, <2>2, <3>2
  <2>3. i \in Nat /\ n \in Nat /\ i <= n /\ i + 1 >= n
    BY <1>1, <1>2, <1>3, <1>6
  <2>4. i = n - 1 \/ i = n
    BY <2>3
  <2> QED  BY <2>1, <2>2, <2>4
<1>7. i' \in Nat \ {0} /\ pc' = "args" /\ p' = p /\ confs' = <<>> /\ line' = line
  BY <1>1, <1>2
<1>8. i' >= Len(line)' => tags'["app"] = <<f>>
  BY <1>6, <1>7 DEF n
<1> QED  BY <1>2, <1>5, <1>7, <1>8 DEF Reading

LEMMA ElementOfSeq == ASSUME NEW S, NEW s \in Seq(S), NEW k \in DOMAIN s PROVE s[k] \in S
  OBVIOUS

LEMMA ReadingLoad ==
  ASSUME NEW f \in Files, line \in Lines, NamesConfig(f), Reading(f), LoadPlugins
  PROVE  Reading(f)'
<1> DEFINE tag == Contents[f].plugins
<1>1. /\ pc = "args" /\ i > Len(line) /\ pc' = "proxy" /\ p' = 1 /\ i' = 1
      /\ UNCHANGED <<line, confs, tags>>
  BY DEF LoadPlugins
<1>2. Len(line) \in Nat /\ Len(line) >= 3
  BY LineEnds
<1>3. /\ DOMAIN tags = Owners /\ i \in Nat /\ confs = <<>>
      /\ \A l \in Libs : tags[l] = <<>>
      /\ i >= Len(line) => tags["app"] = <<f>>
  BY <1>1 DEF Reading
<1>4. tags["app"] = <<f>>
  BY <1>1, <1>2, <1>3
<1>5. PICK good \in Selections(tag) : chain' = [k \in DOMAIN good |-> tag[good[k]].lib]
  BY <1>4, NamedTags DEF LoadPlugins
<1>6. PICK m \in 0 .. Len(tag) :
        /\ good \in [1 .. m -> DOMAIN tag]
        /\ \A j, k \in 1 .. m : j < k => good[j] < good[k]
  BY <1>5 DEF Selections
<1>7. /\ tag \in Seq([lib : Libs, conf : {None} \cup STRING])
      /\ \A j, k \in DOMAIN tag : tag[j].lib = tag[k].lib => j = k
  BY StartupAssumption
<1>8. /\ Len(tag) \in Nat /\ m \in Nat /\ DOMAIN tag = 1 .. Len(tag)
      /\ \A k \in DOMAIN tag : tag[k].lib \in Libs /\ tag[k] \in ToSet(tag)
  <2> DEFINE Tag == [lib : Libs, conf : {None} \cup STRING]
  <2>1. tag \in Seq(Tag)
    BY <1>7
  <2>2. \A g \in Tag : g.lib \in Libs
    OBVIOUS
  <2> HIDE DEF tag, Tag
  <2>3. Len(tag) \in Nat /\ DOMAIN tag = 1 .. Len(tag) /\ \A k \in DOMAIN tag : tag[k] \in Tag
    BY <2>1, ElementOfSeq
  <2> QED  BY <1>6, <2>2, <2>3 DEF ToSet
<1> HIDE DEF tag
<1>9. DOMAIN good = 1 .. m /\ \A k \in 1 .. m : good[k] \in DOMAIN tag
  BY <1>6
<1>10. /\ chain' = [k \in 1 .. m |-> tag[good[k]].lib] /\ Len(chain') = m
       /\ DOMAIN chain' = 1 .. m
  BY <1>5, <1>8, <1>9
<1>11. \A k \in 1 .. m : chain'[k] \in Libs /\ \E g \in ToSet(tag) : g.lib = chain'[k]
  BY <1>8, <1>9, <1>10
<1>12. ASSUME NEW j \in 1 .. m, NEW k \in 1 .. m, chain'[j] = chain'[k] PROVE j = k
  <2>1. tag[good[j]].lib = tag[good[k]].lib
    BY <1>10, <1>12
  <2>2. good[j] = good[k]
    BY <1>7, <1>9, <2>1
  <2>3. good[j] \in Nat /\ good[k] \in Nat
    BY <1>8, <1>9
  <2> QED  BY <1>6, <2>2, <2>3
<1>13. Chained(f)'
  BY <1>8, <1>10, <1>11, <1>12 DEF Chained, tag
<1>14. Walked(f)' /\ Aside(f)'
  <2>1. ASSUME NEW q \in DOMAIN chain' PROVE q \in Nat \ {0} /\ tags'[chain'[q]] = <<>>
    BY <1>1, <1>3, <1>8, <1>10, <1>11, <2>1
  <2> QED  BY <1>1, <1>2, <1>3, <2>1 DEF Walked, Aside
<1> QED  BY <1>1, <1>3, <1>4, <1>13, <1>14 DEF Reading

(* main_proxy of a plugin that is at a word of its loop.                     *)
LEMMA ReadingTake ==
  ASSUME NEW f \in Files, line \in Lines, NamesConfig(f), Reading(f), TakeFile
  PROVE  /\ Reading(f)' /\ tags'[chain[p]] \in {<<>>, <<f>>}
         /\ confs' # <<>> => confs' = ConfsOf(<<f>>)
         /\ i' >= Len(line) /\ chain[p] = "dtmf" => confs' = ConfsOf(<<f>>)
<1> DEFINE n == Len(line)
           l == chain[p]
<1>1. /\ pc = "proxy" /\ p <= Len(chain) /\ confs = <<>> /\ i < n /\ Takes(l, i)
      /\ tags' = [tags EXCEPT ![l] = FastLoadFile(tags[l], line[i + 1])]
      /\ confs' = (IF l = "dtmf" THEN ConfsOf(FastLoadFile(tags[l], line[i + 1])) ELSE <<>>)
      /\ i' = (IF l = "udp" THEN n + 1 ELSE i + 1)
      /\ UNCHANGED <<line, pc, p, chain>>
  BY DEF TakeFile, InProxy, settings
<1>2. /\ DOMAIN tags = Owners /\ i \in Nat \ {0} /\ p \in Nat \ {0}
      /\ tags["app"] = <<f>> /\ Chained(f) /\ Walked(f)
  BY <1>1 DEF Reading
<1>3. /\ n \in Nat /\ n >= 3 /\ line[n] = f
      /\ \A k \in Nat \ {0} : k < n - 1 => line[k] \notin ConfigOption /\ line[k + 1] \notin Files
  BY LineEnds
<1>4. p \in DOMAIN chain /\ l \in Libs
  BY <1>1, <1>2 DEF Chained
<1>5. l \in Owners /\ l # "app"
  BY <1>4 DEF Owners, Libs, Copied
<1>6. tags[l] = <<>>
  BY <1>1, <1>2, <1>3, <1>4 DEF Walked
<1>7. /\ DOMAIN tags' = Owners /\ tags'["app"] = <<f>>
      /\ \A k \in DOMAIN chain : k # p => tags'[chain[k]] = tags[chain[k]]
      /\ tags'[l] = FastLoadFile(<<>>, line[i + 1])
  BY <1>1, <1>2, <1>4, <1>5, <1>6 DEF Chained
<1>8. CASE i = n - 1
  <2>1. line[i + 1] = f
    BY <1>3, <1>8
  <2>2. tags'[l] = <<f>>
    BY <1>7, <2>1, LoadsNamed
  <2>3. confs' = IF l = "dtmf" THEN ConfsOf(<<f>>) ELSE <<>>
    BY <1>1, <1>6, <2>1, LoadsNamed
  <2>4. i' \in Nat \ {0} /\ i' >= n
    BY <1>1, <1>2, <1>3, <1>8
  <2>5. Loaded(l, f)'
    BY <1>1, <2>2 DEF Loaded
  <2>6. \A q \in DOMAIN chain : q # p /\ Loaded(chain[q], f) => Loaded(chain[q], f)'
    BY <1>1, <1>2, <1>4, <1>7 DEF Loaded, Chained
  <2>7. Walked(f)'
    <3>1. ASSUME NEW q \in DOMAIN chain
          PROVE  /\ q < p => Loaded(chain[q], f)'
                 /\ q > p => tags'[chain[q]] = <<>>
                 /\ q = p => Loaded(chain[q], f)'
      <4>1. q \in Nat
        BY <1>2 DEF Chained
      <4>2. q < p => Loaded(chain[q], f)
        BY <1>2 DEF Walked
      <4>3. q > p => tags[chain[q]] = <<>>
        BY <1>2 DEF Walked
      <4>4. (q < p \/ q > p) => q # p
        BY <1>2, <4>1
      <4> QED  BY <1>1, <1>7, <2>5, <2>6, <4>2, <4>3, <4>4
    <3> QED  BY <1>1, <2>4, <3>1 DEF Walked
  <2>8. Aside(f)'
    BY <1>1, <1>4, <2>3, <2>4, <2>5, ConfsAreSeq DEF Aside
  <2>9. Chained(f)'
    BY <1>1, <1>2 DEF Chained
  <2>10. Reading(f)'
    BY <1>1, <1>2, <1>7, <2>4, <2>7, <2>8, <2>9 DEF Reading
  <2> QED  BY <2>2, <2>3, <2>10
<1>9. CASE i < n - 1
  <2>1. line[i] \notin ConfigOption /\ line[i + 1] \notin Files
    BY <1>2, <1>3, <1>9
  <2>2. tags'[l] = <<>>
    BY <1>7, <2>1, LoadsNothing
  <2>3. confs' = <<>>
    BY <1>1, <1>6, <2>1, LoadsNothing, NoConfs
  <2>4. l # "udp"
    BY <1>1, <2>1 DEF Takes, Copied
  <2>5. i' \in Nat \ {0} /\ ~(i' >= n)
    BY <1>1, <1>2, <1>3, <1>9, <2>4
  <2>6. \A q \in DOMAIN chain : q # p /\ Loaded(chain[q], f) => Loaded(chain[q], f)'
    BY <1>1, <1>2, <1>4, <1>7 DEF Loaded, Chained
  <2>7. Walked(f)'
    <3>1. ASSUME NEW q \in DOMAIN chain
          PROVE  /\ q < p => Loaded(chain[q], f)'
                 /\ q > p => tags'[chain[q]] = <<>>
                 /\ q = p => tags'[chain[q]] = <<>>
      <4>1. q \in Nat
        BY <1>2 DEF Chained
      <4> QED  BY <1>2, <1>7, <2>2, <2>6, <4>1 DEF Walked
    <3> QED  BY <1>1, <2>5, <3>1 DEF Walked
  <2>8. Aside(f)'
    BY <2>3 DEF Aside
  <2>9. Chained(f)'
    BY <1>1, <1>2 DEF Chained
  <2>10. Reading(f)'
    BY <1>1, <1>2, <1>7, <2>5, <2>7, <2>8, <2>9 DEF Reading
  <2> QED  BY <1>1, <2>2, <2>3, <2>5, <2>10
<1> QED  BY <1>1, <1>2, <1>3, <1>8, <1>9

LEMMA ReadingDtmfConf ==
  ASSUME NEW f \in Files, line \in Lines, NamesConfig(f), Reading(f), DtmfConf
  PROVE  Reading(f)'
<1> DEFINE c == Head(confs)
           t == FastLoadFile(tags["dtmf"], c)
           S == ToSet(ConfsOf(<<f>>))
<1>1. /\ pc = "proxy" /\ confs # <<>> /\ tags' = [tags EXCEPT !["dtmf"] = t]
      /\ UNCHANGED <<line, p, chain>>
      /\ IF Complete(t)
         THEN i' = Len(line) + 1 /\ confs' = <<>> /\ pc' = pc
         ELSE /\ pc' = (IF c = BuiltIn THEN pc ELSE "crashed")
              /\ confs' = Tail(confs) /\ i' = i
  BY DEF DtmfConf, DtmfAfter, settings
<1>2. /\ DOMAIN tags = Owners /\ i \in Nat \ {0} /\ p \in Nat \ {0}
      /\ tags["app"] = <<f>> /\ Chained(f) /\ Walked(f)
      /\ p \in DOMAIN chain /\ chain[p] = "dtmf" /\ i >= Len(line) /\ Loaded("dtmf", f)
      /\ confs \in Seq(S)
  BY <1>1 DEF Reading, Aside
<1>3. Len(line) \in Nat
  BY LineEnds
<1>4. "dtmf" \in Owners
  BY DEF Owners, Libs, Copied
<1>5. /\ DOMAIN tags' = Owners /\ tags'["app"] = <<f>> /\ tags'["dtmf"] = t
      /\ i' \in Nat \ {0} /\ i' >= Len(line)
      /\ \A q \in DOMAIN chain : q # p => tags'[chain[q]] = tags[chain[q]]
  BY <1>1, <1>2, <1>3, <1>4 DEF Chained
<1>6. c \in S /\ Tail(confs) \in Seq(S)
  BY <1>1, <1>2
<1>7. Chained(f)'
  BY <1>1, <1>2 DEF Chained
<1>8. CASE pc' = "proxy"
  <2>1. t = tags["dtmf"] \/ t = <<c>>
    <3>1. CASE c = BuiltIn
      BY <3>1 DEF FastLoadFile
    <3>2. CASE c \in Files
      BY <3>2, LoadsNamed
    <3>3. CASE c # BuiltIn /\ c \notin Files
      <4>1. t = <<>>
        BY <3>3 DEF FastLoadFile
      <4>2. ~Complete(<<>>)
        BY DEF Complete, Has, Having
      <4> QED  BY <1>1, <1>8, <3>3, <4>1, <4>2
    <3> QED  BY <3>1, <3>2, <3>3
  <2>2. t = <<f>> \/ \E d \in S : t = <<d>>
    BY <1>2, <1>6, <2>1 DEF Loaded
  <2>3. Loaded("dtmf", f)'
    BY <1>5, <2>2 DEF Loaded
  <2>4. \A q \in DOMAIN chain : q # p /\ Loaded(chain[q], f) => Loaded(chain[q], f)'
    BY <1>1, <1>2, <1>5 DEF Loaded, Chained
  <2>5. ASSUME NEW q \in DOMAIN chain
        PROVE  /\ q < p => Loaded(chain[q], f)'
               /\ q > p => tags'[chain[q]] = <<>>
               /\ q = p => Loaded(chain[q], f)'
    <3>1. q \in Nat
      BY <1>2 DEF Chained
    <3>2. (q < p => Loaded(chain[q], f)) /\ (q > p => tags[chain[q]] = <<>>)
      BY <1>2 DEF Walked
    <3>3. q < p \/ q > p => q # p
      BY <1>2, <3>1
    <3> QED  BY <1>1, <1>2, <1>5, <2>3, <2>4, <3>2, <3>3
  <2>6. Walked(f)'
    BY <1>1, <1>5, <2>5 DEF Walked
  <2>7. Aside(f)'
    BY <1>1, <1>2, <1>5, <1>6, <2>3 DEF Aside
  <2> QED  BY <1>2, <1>5, <1>7, <1>8, <1>1, <2>6, <2>7 DEF Reading
<1>9. CASE pc' # "proxy"
  <2>1. pc' = "crashed"
    BY <1>1, <1>9
  <2> QED  BY <1>1, <1>2, <1>5, <2>1 DEF Reading
<1> QED  BY <1>8, <1>9

(* The other steps of main_proxy move on in the words or the conf attributes. *)
LEMMA ReadingSkip ==
  ASSUME NEW f \in Files, line \in Lines, NamesConfig(f), Reading(f), SkipWord
  PROVE  Reading(f)'
<1> DEFINE n == Len(line)
<1>1. /\ pc = "proxy" /\ p <= Len(chain) /\ confs = <<>> /\ i <= n /\ i' = i + 1
      /\ ~(Takes(chain[p], i) /\ i < n)
      /\ UNCHANGED <<line, pc, p, confs, tags, chain>>
  BY DEF SkipWord, InProxy, settings
<1>2. /\ DOMAIN tags = Owners /\ i \in Nat \ {0} /\ p \in Nat \ {0}
      /\ tags["app"] = <<f>> /\ Chained(f) /\ Walked(f)
  BY <1>1 DEF Reading
<1>3. n \in Nat /\ n >= 3 /\ line[n - 1] = "-c"
  BY LineEnds
<1>4. i # n - 1
  <2> SUFFICES ASSUME i = n - 1 PROVE FALSE
    OBVIOUS
  <2>1. p \in DOMAIN chain /\ chain[p] \in Libs
    BY <1>1, <1>2 DEF Chained
  <2>2. line[i] = "-c" /\ i > 1 /\ i < n
    BY <1>3
  <2> QED  BY <1>1, <2>1, <2>2 DEF Takes, Libs, Copied, ConfigOption
<1>5. i' \in Nat \ {0} /\ (i' >= n <=> i >= n)
  BY <1>1, <1>2, <1>3, <1>4
<1>6. Chained(f)' /\ Aside(f)'
  BY <1>1, <1>2 DEF Chained, Aside
<1>7. Walked(f)'
  BY <1>1, <1>2, <1>5 DEF Walked, Loaded
<1> QED  BY <1>1, <1>2, <1>5, <1>6, <1>7 DEF Reading

LEMMA ReadingNoConf ==
  ASSUME NEW f \in Files, line \in Lines, NamesConfig(f), Reading(f), DtmfNoConf
  PROVE  Reading(f)'
<1>1. /\ pc = "proxy" /\ confs # <<>> /\ confs' = Tail(confs)
      /\ UNCHANGED <<line, pc, i, p, tags, chain>>
  BY DEF DtmfNoConf, settings
<1>2. /\ DOMAIN tags = Owners /\ i \in Nat \ {0} /\ p \in Nat \ {0}
      /\ tags["app"] = <<f>> /\ Chained(f) /\ Walked(f) /\ Aside(f)
  BY <1>1 DEF Reading
<1>3. confs' \in Seq(ToSet(ConfsOf(<<f>>)))
  BY <1>1, <1>2 DEF Aside
<1>4. Chained(f)' /\ Aside(f)'
  BY <1>1, <1>2, <1>3 DEF Chained, Aside, Loaded
<1>5. Walked(f)'
  BY <1>1, <1>2 DEF Walked, Aside, Loaded
<1> QED  BY <1>1, <1>2, <1>4, <1>5 DEF Reading

LEMMA ReadingNext ==
  ASSUME NEW f \in Files, line \in Lines, NamesConfig(f), Reading(f), NextPlugin
  PROVE  Reading(f)'
<1>1. /\ pc = "proxy" /\ p <= Len(chain) /\ confs = <<>> /\ p' = p + 1 /\ i' = 1
      /\ (i > Len(line) \/ Len(line) = 1)
      /\ UNCHANGED <<line, pc, confs, tags, chain>>
  BY DEF NextPlugin, settings
<1>2. /\ DOMAIN tags = Owners /\ i \in Nat \ {0} /\ p \in Nat \ {0}
      /\ tags["app"] = <<f>> /\ Chained(f) /\ Walked(f)
  BY <1>1 DEF Reading
<1>3. Len(line) \in Nat /\ Len(line) >= 3
  BY LineEnds
<1>4. i >= Len(line) /\ ~(i' >= Len(line))
  <2> DEFINE n == Len(line)
  <2>1. n \in Nat /\ n >= 3 /\ (i > n \/ n = 1) /\ i \in Nat /\ i' = 1
    BY <1>1, <1>2, <1>3
  <2> HIDE DEF n
  <2>2. i >= n /\ ~(i' >= n)
    BY ONLY <2>1
  <2> QED  BY <2>2 DEF n
<1>5. Chained(f)' /\ Aside(f)'
  BY <1>1, <1>2 DEF Chained, Aside
<1>6. ASSUME NEW q \in DOMAIN chain
      PROVE  /\ q < p + 1 => Loaded(chain[q], f)
             /\ q >= p + 1 => tags[chain[q]] = <<>>
  <2>1. q \in Nat
    BY <1>2 DEF Chained
  <2> QED  BY <1>1, <1>2, <1>4, <2>1 DEF Walked
<1>7. Walked(f)'
  <2>1. \A q \in DOMAIN chain : q \in Nat
    BY <1>2 DEF Chained
  <2> QED  BY <1>1, <1>2, <1>4, <1>6, <2>1 DEF Walked, Loaded
<1> QED  BY <1>1, <1>2, <1>5, <1>7 DEF Reading

LEMMA ReadingStep == NamedRead /\ [Next]_vars => NamedRead'
<1> SUFFICES ASSUME NamedRead, [Next]_vars PROVE NamedRead'
  OBVIOUS
<1>1. line' = line
  BY DEF vars, Next, GetOpts, EndOpts, Daemonize, DaemonizeFails, ParseArg, LoadPlugins, Proxy,
         TakeFile, SkipWord, ListDevices, DtmfNoConf, DtmfConf, NextPlugin, RegisterAppData,
         LoggerInit, InitPlugin, RecInit, UdpInit, TcpInit, UdpStarts, UdpRefuses, UdpOverruns,
         AlsaInit, DtmfInit, DtmfThrows, PlainInit, Initialises, EndInit, InitTcpServer, HEvLoop, Signal
<1> SUFFICES ASSUME NEW f \in Files, line \in Lines, NamesConfig(f), Reading(f)
             PROVE  Reading(f)'
  BY <1>1 DEF NamedRead, NamesConfig
<1>2. CASE UNCHANGED vars
  BY <1>2, ReadingKept DEF vars, settings, plugins
<1>3. CASE GetOpts \/ EndOpts
  <2>1. /\ pc = "main" /\ i' \in {i + 1, 1} /\ pc' \in {"main", "daemonize", "args"}
        /\ UNCHANGED <<p, confs, tags>>
        /\ pc' \in {"args", "daemonize"} => i' = 1
    BY <1>3 DEF GetOpts, EndOpts, settings
  <2>2. ~(1 >= Len(line))
    BY LineEnds
  <2> QED  BY <1>1, <2>1, <2>2 DEF Reading
<1>4. CASE Daemonize \/ DaemonizeFails
  <2>1. PICK n \in {"args", "exited"} : pc' = n /\ pc = "daemonize"
    BY <1>4 DEF Daemonize, DaemonizeFails
  <2>2. UNCHANGED <<i, p, confs, tags>>
    BY <1>4 DEF Daemonize, DaemonizeFails, settings
  <2>3. ~(1 >= Len(line))
    BY LineEnds
  <2> QED  BY <1>1, <2>1, <2>2, <2>3 DEF Reading
<1>5. CASE ParseArg
  BY <1>5, ReadingArgs
<1>6. CASE LoadPlugins
  BY <1>6, ReadingLoad
<1>7. CASE Proxy
  <2>1. CASE ListDevices
    BY <2>1, ReadingKept DEF ListDevices, settings
  <2> QED
    BY <1>7, <2>1, ReadingTake, ReadingSkip, ReadingNoConf, ReadingDtmfConf, ReadingNext
       DEF Proxy
<1>8. CASE RegisterAppData \/ LoggerInit \/ InitPlugin \/ EndInit \/ InitTcpServer \/ HEvLoop
  <2>1. UNCHANGED <<tags, chain>> /\ i' = i /\ confs' = confs
    BY <1>8 DEF RegisterAppData, LoggerInit, InitPlugin, RecInit, UdpInit, TcpInit, UdpStarts,
                UdpRefuses, UdpOverruns, AlsaInit, DtmfInit, DtmfThrows, PlainInit, Initialises, EndInit,
                InitTcpServer, HEvLoop, settings
  <2>2. p' \in {p, p + 1, 1}
    BY <1>8 DEF RegisterAppData, LoggerInit, InitPlugin, RecInit, UdpInit, TcpInit, UdpStarts,
                UdpRefuses, UdpOverruns, AlsaInit, DtmfInit, DtmfThrows, PlainInit, Initialises, IsUp, EndInit,
                InitTcpServer, HEvLoop
  <2>3. /\ pc \in {"proxy", "logger", "init", "exec"}
        /\ pc' \in {"logger", "init", "exec", "exited", "crashed"}
        /\ pc = "proxy" => p > Len(chain)
    BY <1>8 DEF RegisterAppData, LoggerInit, InitPlugin, RecInit, UdpInit, TcpInit, UdpStarts,
                UdpRefuses, UdpOverruns, AlsaInit, DtmfInit, DtmfThrows, PlainInit, Initialises, IsUp, EndInit,
                InitTcpServer, HEvLoop
  <2>4. \A q \in DOMAIN chain : Loaded(chain[q], f)
    BY <2>3 DEF Reading, Walked, Chained
  <2>5. Chained(f) /\ DOMAIN tags = Owners /\ i \in Nat \ {0} /\ p \in Nat \ {0}
        /\ tags["app"] = <<f>>
    BY <2>3 DEF Reading
  <2>6. Chained(f)' /\ \A q \in DOMAIN chain' : Loaded(chain[q], f)'
    BY <2>1, <2>4, <2>5 DEF Chained, Loaded
  <2> QED  BY <2>1, <2>2, <2>3, <2>5, <2>6 DEF Reading
<1>9. CASE Signal
  BY <1>9, ReadingKept DEF Signal, settings
<1> QED  BY <1>2, <1>3, <1>4, <1>5, <1>6, <1>7, <1>8, <1>9 DEF Next

(* Each plugin loads the file for itself, most of them after every word; still
   f is the source of every one's settings at its init (recorder.cpp:302-317).*)
THEOREM NamedFileIsRead == Spec => []NamedConfigRead
<1>1. NamedRead => NamedConfigRead
  <2> SUFFICES ASSUME NamedRead, pc \in {"init", "exec"}, NEW f \in Files, NamesConfig(f)
               PROVE  /\ tags["app"] = <<f>>
                      /\ \A k \in DOMAIN chain : Loaded(chain[k], f)
    BY DEF NamedConfigRead, Loaded
  <2> QED  BY DEF NamedRead, Reading
<1> QED  BY ReadingInit, ReadingStep, <1>1, PTL DEF Spec

-----------------------------------------------------------------------------
(* What the faults rest on: a crash is owed to the file, DTMF's first conf, if it
   makes sense, gives its settings before any init, and the inits find the
   file's own attributes.                                                    *)
AtFault(f) ==
  \/ Uses(f, "udp") /\ Overruns(<<f>>)
  \/ Uses(f, "dtmf") /\ ~TonesFit(f)

Framed(f) == TonesFit(f) => dtmf = Tones(f)

Sane(f) ==
  /\ pc = "crashed" => AtFault(f)
  /\ pc \in {"main", "daemonize", "args", "proxy", "logger"} => up = {}
  /\ confs # <<>> => pc \notin {"main", "daemonize", "args", "logger", "init", "exec"}
  /\ pc = "proxy" /\ confs # <<>> /\ TonesFit(f) => confs = ConfsOf(<<f>>)
  /\ pc = "proxy" => \A q \in DOMAIN chain :
       /\ chain[q] = "dtmf"
       /\ q < p \/ (q = p /\ confs = <<>> /\ i >= Len(line))
       => Framed(f)
  /\ pc \in {"logger", "init", "exec"} =>
       \A q \in DOMAIN chain : chain[q] = "dtmf" => Framed(f)
  /\ "dtmf" \in up => Framed(f)
  /\ "rec" \in up => rec = RecOf(<<f>>)
  /\ "udp" \in up => /\ ~Overruns(<<f>>)
                    /\ \E port, state : udp = UdpOf(<<f>>, port, state)

AllSane == \A f \in Files : NamesConfig(f) => Sane(f)

LEMMA SaneInit == Init => AllSane
  BY DEF Init, AllSane, Sane

LEMMA ChainIsUsed ==
  ASSUME NEW f \in Files, Chained(f), NEW q \in DOMAIN chain
  PROVE  Uses(f, chain[q])
  BY DEF Chained, Uses

LEMMA TonesOfConf ==
  ASSUME NEW f \in Files, TonesFit(f)
  PROVE  LET c == ConfsOf(<<f>>)
         IN /\ c # <<>> /\ Head(c) = c[1] /\ c[1] \in Files /\ Complete(<<c[1]>>)
            /\ Tones(f) = DtmfOf(<<Head(c)>>)
  BY DEF TonesFit, Tones

LEMMA TonesAreNumbers ==
  ASSUME NEW f \in Files, TonesFit(f)
  PROVE  Tones(f).freq \in Int /\ Tones(f).size \in Int
<1> DEFINE c == ConfsOf(<<f>>)[1]
           t == <<c>>
<1>1. c \in Files /\ Complete(t) /\ Tones(f) = DtmfOf(t)
  BY TonesOfConf DEF Tones
<1>2. t[1] = c /\ DOMAIN t = {1} /\ Attributes(c) = Contents[c].attrs
  BY <1>1, StartupAssumption DEF Attributes
<1> HIDE DEF t, c
<1>3. ASSUME NEW a \in {"freq", "frameSize"}, NEW absent \in Int, NEW bad \in Int, Has(t, a)
      PROVE  Number(t, a, absent, bad) \in Int
  <2>1. Having(t, a) \in SUBSET Nat /\ Having(t, a) # {}
    BY <1>2, <1>3 DEF Having, Has
  <2>2. Min(Having(t, a)) \in Having(t, a)
    BY <2>1, LeastNat
  <2>3. a \in DOMAIN Contents[c].attrs /\ Attrib(t, a) = Contents[c].attrs[a]
    BY <1>2, <2>2 DEF Having, Attrib
  <2>4. Attrib(t, a) \in Int \cup {NaN}
    BY <1>1, <2>3, StartupAssumption
  <2> QED  BY <1>3, <2>4 DEF Number
<1>4. Number(t, "freq", 102, 102) \in Int /\ Number(t, "frameSize", 160, 160) \in Int
  BY <1>1, <1>3 DEF Complete
<1> QED  BY <1>1, <1>4 DEF DtmfOf

LEMMA SaneProxy ==
  ASSUME NEW f \in Files, line \in Lines, NamesConfig(f), Reading(f), Sane(f), Proxy
  PROVE  Sane(f)'
<1>1. pc = "proxy" /\ UNCHANGED <<line, chain>> /\ UNCHANGED plugins
  BY DEF Proxy, TakeFile, SkipWord, ListDevices, DtmfNoConf, DtmfConf, NextPlugin, InProxy,
         settings
<1>2. up = {} /\ up' = {}
  BY <1>1 DEF Sane, plugins
<1>3. Chained(f) /\ Walked(f) /\ Aside(f) /\ i \in Nat \ {0} /\ p \in Nat \ {0}
  BY <1>1 DEF Reading
<1>4. \A q \in DOMAIN chain : q \in Nat
  BY <1>3 DEF Chained
<1>5. CASE TakeFile
  <2>1. /\ confs' # <<>> => confs' = ConfsOf(<<f>>)
        /\ i' >= Len(line) /\ chain[p] = "dtmf" => confs' = ConfsOf(<<f>>)
    BY <1>5, ReadingTake
  <2>2. UNCHANGED <<pc, p, dtmf>> /\ p \in DOMAIN chain
    BY <1>3, <1>5 DEF TakeFile, InProxy, Chained
  <2>3. ASSUME NEW q \in DOMAIN chain, chain[q] = "dtmf",
               q < p \/ (q = p /\ confs' = <<>> /\ i' >= Len(line))
        PROVE  Framed(f)
    <3> SUFFICES ASSUME TonesFit(f) PROVE dtmf = Tones(f)
      BY DEF Framed
    <3>1. ConfsOf(<<f>>) # <<>>
      BY TonesOfConf
    <3>2. q # p
      BY <1>3, <1>4, <2>1, <2>3, <3>1
    <3>3. Framed(f)
      BY <1>1, <2>3, <3>2 DEF Sane
    <3> QED  BY <3>3 DEF Framed
  <2> QED  BY <1>1, <1>2, <2>1, <2>2, <2>3 DEF Sane, Framed
<1>6. CASE SkipWord
  <2>1. UNCHANGED <<pc, p, dtmf, confs>> /\ confs = <<>> /\ i' = i + 1
    BY <1>6 DEF SkipWord, InProxy
  <2>2. p \in DOMAIN chain /\ ~(Takes(chain[p], i) /\ i < Len(line))
    BY <1>3, <1>6 DEF SkipWord, InProxy, Chained
  <2>3. /\ Len(line) \in Nat /\ Len(line) >= 3 /\ line[Len(line) - 1] = "-c"
    BY LineEnds
  <2>4. ASSUME chain[p] = "dtmf" PROVE i # Len(line) - 1
    <3>1. Takes("dtmf", Len(line) - 1)
      BY <2>3 DEF Takes, Copied
    <3> QED  BY <2>2, <2>3, <2>4, <3>1
  <2>5. chain[p] = "dtmf" /\ i' >= Len(line) => i >= Len(line)
    BY <1>3, <2>1, <2>3, <2>4
  <2>6. ASSUME NEW q \in DOMAIN chain, chain[q] = "dtmf",
               q < p \/ (q = p /\ confs' = <<>> /\ i' >= Len(line))
        PROVE  Framed(f)
    BY <1>1, <2>1, <2>5, <2>6 DEF Sane
  <2> QED  BY <1>1, <1>2, <2>1, <2>6 DEF Sane, Framed
<1>7. CASE ListDevices
  BY <1>1, <1>2, <1>7 DEF ListDevices, Sane, Framed
<1>8. ASSUME confs # <<>>
      PROVE  /\ p \in DOMAIN chain /\ chain[p] = "dtmf" /\ Uses(f, "dtmf")
             /\ TonesFit(f) => LET c == Head(confs)
                               IN c \in Files /\ Complete(<<c>>) /\ Tones(f) = DtmfOf(<<c>>)
  <2>1. p \in DOMAIN chain /\ chain[p] = "dtmf" /\ Uses(f, "dtmf")
    BY <1>1, <1>3, <1>8, ChainIsUsed DEF Aside
  <2>2. TonesFit(f) => confs = ConfsOf(<<f>>)
    BY <1>1, <1>8 DEF Sane
  <2> QED  BY <2>1, <2>2, TonesOfConf
<1>9. CASE DtmfNoConf
  <2>1. confs # <<>> /\ Head(confs) = None /\ UNCHANGED <<pc, i, p, dtmf>>
    BY <1>9 DEF DtmfNoConf
  <2>2. ~TonesFit(f)
    BY <1>8, <2>1, StartupAssumption
  <2> QED  BY <1>1, <1>2, <2>1, <2>2 DEF Sane, Framed
<1>10. CASE DtmfConf
  <2> DEFINE c == Head(confs)
  <2>1. confs # <<>> /\ p' = p /\ pc' \in {pc, "crashed"}
    BY <1>10 DEF DtmfConf, DtmfAfter
  <2>2. CASE TonesFit(f)
    <3>1. FastLoadFile(tags["dtmf"], c) = <<c>> /\ Complete(<<c>>)
      BY <1>8, <2>1, <2>2, LoadsNamed
    <3>2. confs' = <<>> /\ UNCHANGED pc /\ dtmf' = DtmfOf(<<c>>)
      BY <1>10, <3>1 DEF DtmfConf, DtmfAfter
    <3>3. Framed(f)'
      BY <1>8, <2>1, <2>2, <3>2 DEF Framed, TonesFit, Tones
    <3> QED  BY <1>1, <1>2, <2>1, <3>2, <3>3 DEF Sane
  <2>3. CASE ~TonesFit(f)
    <3>1. AtFault(f)
      BY <1>8, <2>1, <2>3 DEF AtFault
    <3> QED  BY <1>1, <1>2, <2>1, <2>3, <3>1 DEF Sane, Framed, AtFault
  <2> QED  BY <2>2, <2>3
<1>11. CASE NextPlugin
  <2>1. /\ pc' = pc /\ p' = p + 1 /\ i' = 1 /\ confs = <<>> /\ UNCHANGED <<confs, dtmf>>
        /\ (i > Len(line) \/ Len(line) = 1)
    BY <1>11 DEF NextPlugin
  <2>2. Len(line) \in Nat /\ Len(line) >= 3
    BY LineEnds
  <2>3. i >= Len(line) /\ ~(i' >= Len(line))
    <3> DEFINE n == Len(line)
    <3>1. n \in Nat /\ n >= 3 /\ (i > n \/ n = 1) /\ i \in Nat /\ i' = 1
      BY <1>3, <2>1, <2>2
    <3> HIDE DEF n
    <3>2. i >= n /\ ~(i' >= n)
      BY ONLY <3>1
    <3> QED  BY <3>2 DEF n
  <2>4. ASSUME NEW q \in DOMAIN chain, chain[q] = "dtmf",
               q < p' \/ (q = p' /\ confs' = <<>> /\ i' >= Len(line))
        PROVE  Framed(f)
    <3>1. q < p \/ q = p
      BY <1>3, <1>4, <2>1, <2>3, <2>4
    <3> QED  BY <1>1, <2>1, <2>3, <2>4, <3>1 DEF Sane
  <2> QED  BY <1>1, <1>2, <2>1, <2>4 DEF Sane, Framed
<1> QED  BY <1>5, <1>6, <1>7, <1>9, <1>10, <1>11 DEF Proxy

LEMMA SaneInitPlugin ==
  ASSUME NEW f \in Files, line \in Lines, NamesConfig(f), Reading(f), Sane(f), InitPlugin
  PROVE  Sane(f)'
<1>1. PICK l \in Libs : Initialises(l)
  BY DEF InitPlugin, RecInit, UdpInit, TcpInit, UdpStarts, UdpRefuses, UdpOverruns,
         AlsaInit, DtmfInit, DtmfThrows, PlainInit, Libs, Copied
<1>2. /\ pc = "init" /\ p <= Len(chain) /\ chain[p] = l
      /\ UNCHANGED <<line, confs, tags, chain, dtmf>>
  BY <1>1 DEF Initialises, settings
<1>3. p \in DOMAIN chain /\ Loaded(l, f) /\ Uses(f, l)
  BY <1>2, ChainIsUsed DEF Reading, Chained
<1>4. confs = <<>> /\ \A q \in DOMAIN chain : chain[q] = "dtmf" => Framed(f)
  BY <1>2 DEF Sane
<1>5. CASE RecInit
  <2>1. /\ l = "rec" /\ up' = up \cup {"rec"} /\ rec' = RecOf(tags["rec"])
        /\ pc' = pc /\ udp' = udp
    BY <1>2, <1>5 DEF RecInit, Initialises, IsUp
  <2>2. rec' = RecOf(<<f>>)
    BY <1>3, <2>1 DEF Loaded
  <2> QED  BY <1>2, <1>4, <2>1, <2>2 DEF Sane, Framed
<1>6. CASE UdpInit \/ TcpInit
  <2>1. PICK port, state : udp' = UdpOf(tags["udp"], port, state) /\ ~Overruns(tags["udp"])
    BY <1>6 DEF UdpInit, TcpInit, UdpStarts
  <2>2. l = "udp" /\ up' = up \cup {"udp"} /\ pc' = pc /\ rec' = rec
    BY <1>2, <1>6 DEF UdpInit, TcpInit, UdpStarts, Initialises, IsUp
  <2>3. udp' = UdpOf(<<f>>, port, state) /\ ~Overruns(<<f>>)
    BY <1>3, <2>1, <2>2 DEF Loaded
  <2> QED  BY <1>2, <1>4, <2>2, <2>3 DEF Sane, Framed
<1>7. CASE UdpRefuses
  BY <1>2, <1>4, <1>7 DEF UdpRefuses, plugins, Sane, Framed
<1>8. CASE UdpOverruns
  <2>1. l = "udp" /\ Overruns(tags["udp"]) /\ UNCHANGED plugins /\ pc' = "crashed"
    BY <1>2, <1>8 DEF UdpOverruns, Initialises
  <2>2. AtFault(f)
    BY <1>3, <2>1 DEF Loaded, AtFault
  <2> QED  BY <1>2, <1>4, <2>1, <2>2 DEF Sane, Framed, AtFault, plugins
<1>9. CASE DtmfThrows
  <2>1. l = "dtmf" /\ ~Allocates /\ UNCHANGED plugins /\ pc' = "crashed"
    BY <1>2, <1>9 DEF DtmfThrows, Initialises
  <2>2. ~TonesFit(f)
    <3> SUFFICES ASSUME TonesFit(f) PROVE FALSE
      OBVIOUS
    <3>1. dtmf = Tones(f) /\ dtmf.freq > 0 /\ dtmf.size > 0
      BY <1>2, <1>3, <1>4, <2>1 DEF Framed, TonesFit
    <3>2. dtmf.freq >= 0 /\ dtmf.size + dtmf.freq >= 0
      BY <3>1, TonesAreNumbers
    <3> QED  BY <2>1, <3>2 DEF Allocates
  <2>3. AtFault(f)
    BY <1>3, <2>1, <2>2 DEF AtFault
  <2> QED  BY <1>2, <1>4, <2>1, <2>3 DEF Sane, Framed, AtFault, plugins
<1>10. CASE AlsaInit \/ DtmfInit \/ PlainInit
  <2>1. PICK m \in Libs \ {"rec", "udp"} : Initialises(m) /\ IsUp(m)
    BY <1>10 DEF AlsaInit, DtmfInit, PlainInit, Libs, Copied
  <2>2. m = l /\ up' = up \cup {l} /\ pc' = pc /\ UNCHANGED <<rec, udp>>
    BY <1>2, <1>10, <2>1 DEF AlsaInit, DtmfInit, PlainInit, Initialises, IsUp
  <2>3. l = "dtmf" => Framed(f)
    BY <1>2, <1>3, <1>4
  <2> QED  BY <1>2, <1>4, <2>1, <2>2, <2>3 DEF Sane, Framed
<1> QED  BY <1>5, <1>6, <1>7, <1>8, <1>9, <1>10 DEF InitPlugin

LEMMA SaneStep == NamedRead /\ AllSane /\ [Next]_vars => AllSane'
<1> SUFFICES ASSUME NamedRead, AllSane, [Next]_vars, NEW f \in Files, NamesConfig(f)'
             PROVE  Sane(f)'
  BY DEF AllSane
<1>1. line' = line
  BY DEF vars, Next, GetOpts, EndOpts, Daemonize, DaemonizeFails, ParseArg, LoadPlugins, Proxy,
         TakeFile, SkipWord, ListDevices, DtmfNoConf, DtmfConf, NextPlugin, RegisterAppData,
         LoggerInit, InitPlugin, RecInit, UdpInit, TcpInit, UdpStarts, UdpRefuses, UdpOverruns,
         AlsaInit, DtmfInit, DtmfThrows, PlainInit, Initialises, EndInit, InitTcpServer, HEvLoop,
         Signal
<1>2. line \in Lines /\ NamesConfig(f) /\ Reading(f) /\ Sane(f)
  BY <1>1 DEF NamedRead, AllSane, NamesConfig
<1>3. CASE UNCHANGED vars
  BY <1>2, <1>3 DEF vars, settings, plugins, Sane, Framed, AtFault
<1>4. CASE GetOpts \/ EndOpts \/ Daemonize \/ DaemonizeFails \/ ParseArg
  <2>1. /\ pc \in {"main", "daemonize", "args"}
        /\ pc' \in {"main", "daemonize", "args", "exited"}
        /\ UNCHANGED <<confs, dtmf, up>>
    BY <1>4 DEF GetOpts, EndOpts, Daemonize, DaemonizeFails, ParseArg, plugins
  <2> QED  BY <1>2, <2>1 DEF Sane
<1>5. CASE LoadPlugins
  <2>1. /\ pc = "args" /\ pc' = "proxy" /\ p' = 1 /\ i' = 1
        /\ UNCHANGED <<confs, dtmf, up>>
    BY <1>5 DEF LoadPlugins, plugins
  <2>2. Reading(f)' /\ Len(line) \in Nat /\ Len(line) >= 3
    BY <1>2, <1>5, ReadingLoad, LineEnds
  <2>3. \A q \in DOMAIN chain' : q \in Nat \ {0}
    BY <2>1, <2>2 DEF Reading, Chained
  <2> QED  BY <1>1, <1>2, <2>1, <2>2, <2>3 DEF Sane
<1>6. CASE Proxy
  BY <1>2, <1>6, SaneProxy
<1>7. CASE RegisterAppData
  <2>1. /\ pc = "proxy" /\ pc' = "logger" /\ p > Len(chain)
        /\ UNCHANGED <<confs, dtmf, up, chain>>
    BY <1>7 DEF RegisterAppData, plugins
  <2>2. confs = <<>> /\ \A q \in DOMAIN chain : q < p
    BY <1>2, <2>1 DEF Reading, Chained, Aside
  <2> QED  BY <1>2, <2>1, <2>2 DEF Sane, Framed
<1>8. CASE LoggerInit
  BY <1>2, <1>8 DEF LoggerInit, plugins, Sane, Framed
<1>9. CASE InitPlugin
  BY <1>2, <1>9, SaneInitPlugin
<1>10. CASE EndInit
  BY <1>2, <1>10 DEF EndInit, plugins, Sane, Framed
<1>11. CASE InitTcpServer
  <2>1. /\ pc = "exec" /\ UNCHANGED <<pc, confs, dtmf, up, chain, rec>>
        /\ udp' = [udp EXCEPT !.state = "listens"]
    BY <1>11 DEF InitTcpServer, settings
  <2>2. ASSUME NEW port, NEW state, udp = UdpOf(<<f>>, port, state)
        PROVE  udp' = UdpOf(<<f>>, port, "listens")
    BY <2>1, <2>2 DEF UdpOf
  <2> QED  BY <1>2, <2>1, <2>2 DEF Sane, Framed
<1>12. CASE HEvLoop
  BY <1>2, <1>12 DEF HEvLoop, settings, Sane, Framed
<1>13. CASE Signal
  BY <1>2, <1>13 DEF Signal, Running, settings, plugins, Sane, Framed
<1> QED  BY <1>3, <1>4, <1>5, <1>6, <1>7, <1>8, <1>9, <1>10, <1>11, <1>12, <1>13 DEF Next

(* Both counts come from the file, but a streamer reads "files" only to ask if it
   is 1, and the recorder falls back on one slot.                            *)
LEMMA SlotsOfFile ==
  ASSUME NEW f, NEW port, NEW state, udp = UdpOf(<<f>>, port, state), rec = RecOf(<<f>>)
  PROVE  Entries > rec.chans <=> ~SlotsFit(f)
<1> DEFINE n == Number(<<f>>, "files", 1, 0)
<1>1. rec.chans = RecChans(<<f>>)
  BY DEF RecOf
<1>2. udp.single = (n = 1) /\ udp.chans = UdpChans(<<f>>)
  BY DEF UdpOf
<1>3. RecChans(<<f>>) \in 1 .. 127
  BY DEF RecChans
<1>4. UdpChans(<<f>>) \in 1 .. 127
  BY DEF UdpChans
<1>5. SlotsFit(f) <=> n = 1 \/ UdpChans(<<f>>) <= RecChans(<<f>>)
  BY DEF SlotsFit
<1> HIDE DEF n
<1>6. CASE n = 1
  <2>1. udp.single = TRUE
    BY <1>2, <1>6
  <2> QED  BY <1>1, <1>3, <1>5, <1>6, <2>1 DEF Entries
<1>7. CASE n # 1
  <2>1. Entries = UdpChans(<<f>>)
    BY <1>2, <1>7 DEF Entries
  <2>2. SlotsFit(f) <=> UdpChans(<<f>>) <= RecChans(<<f>>)
    BY <1>5, <1>7
  <2> QED  BY <1>1, <1>3, <1>4, <2>1, <2>2
<1> QED  BY <1>6, <1>7

(* Any file named last by -c, good or bad: a crash at the start is owed to the
   streamer's sizes or to DTMF's conf, and what the streamer, the recorder and
   DTMF run with is what the file says, fitting or not (server.cpp:118-132,
   recorder.cpp:100-111, dtmf.cpp:53 and 143-176).                           *)
THEOREM FaultsAreOfTheFile == Spec => []FaultsAreTheFiles
<1>1. AllSane => FaultsAreTheFiles
  <2> SUFFICES ASSUME AllSane, NEW f \in Files, NamesConfig(f)
               PROVE  /\ pc = "crashed" => AtFault(f)
                      /\ "udp" \in up => ~Overruns(<<f>>)
                      /\ {"udp", "rec"} \subseteq up => (Entries > rec.chans <=> ~SlotsFit(f))
                      /\ "dtmf" \in up /\ TonesFit(f) => dtmf = Tones(f)
    BY DEF FaultsAreTheFiles, AtFault
  <2>1. Sane(f)
    BY DEF AllSane
  <2>2. ASSUME "udp" \in up, "rec" \in up PROVE Entries > rec.chans <=> ~SlotsFit(f)
    <3>1. rec = RecOf(<<f>>) /\ \E port, state : udp = UdpOf(<<f>>, port, state)
      BY <2>1, <2>2 DEF Sane
    <3> QED  BY <3>1, SlotsOfFile
  <2> QED  BY <2>1, <2>2 DEF Sane, Framed
<1>2. NamedRead /\ [Next]_vars => NamedRead'
  BY ReadingStep
<1> QED  BY ReadingInit, SaneInit, <1>1, <1>2, SaneStep, PTL DEF Spec

-----------------------------------------------------------------------------
(* The line names f by the option the usage gives: its last two words are
   --config f, with no other option of the kind and no other file's name.    *)
NamesLong(f) ==
  LET n == Len(line)
  IN /\ n >= 3 /\ line[n] = f /\ line[n - 1] = "--config"
     /\ \A k \in 1 .. n - 2 : line[k] \notin ConfigOption \cup Files

LongReading(f) ==
  /\ DOMAIN tags = Owners /\ i \in Nat \ {0} /\ p \in Nat \ {0}
  /\ confs = <<>> /\ dtmf = Unset /\ \A l \in Copied : tags[l] = <<>>
  /\ pc = "daemonize" => i = 1
  /\ pc = "args" /\ i >= Len(line) => tags["app"] = <<f>>
  /\ pc \in {"proxy", "logger", "init", "exec"} =>
       /\ tags["app"] = <<f>>
       /\ Len(chain) \in Nat /\ DOMAIN chain = 1 .. Len(chain)
  /\ pc = "proxy" => \A q \in DOMAIN chain :
       chain[q] = "udp" /\ (q < p \/ (q = p /\ i >= Len(line))) => tags["udp"] = <<f>>
  /\ pc \in {"logger", "init", "exec"} =>
       \A q \in DOMAIN chain : chain[q] = "udp" => tags["udp"] = <<f>>
  /\ "rec" \in up => rec = RecOf(<<>>)
  /\ "udp" \in up => \E port, state : udp = UdpOf(<<f>>, port, state)

LongRead == line \in Lines /\ \A f \in Files : NamesLong(f) => LongReading(f)

LEMMA LongEnds ==
  ASSUME NEW f \in Files, line \in Lines, NamesLong(f)
  PROVE  /\ Len(line) \in Nat /\ Len(line) >= 3
         /\ line[Len(line)] = f /\ line[Len(line) - 1] = "--config"
         /\ f \notin ConfigOption \cup DaemonOption
         /\ \A k \in Nat \ {0} : k < Len(line) - 1 =>
              line[k] \notin ConfigOption /\ line[k + 1] \notin Files
<1>1. Len(line) \in Nat /\ Len(line) >= 3
  BY StartupAssumption DEF NamesLong
<1>2. f \notin ConfigOption \cup DaemonOption /\ "--config" \notin Files
  BY StartupAssumption DEF ConfigOption
<1>3. /\ line[Len(line)] = f /\ line[Len(line) - 1] = "--config"
      /\ \A k \in 1 .. Len(line) - 2 : line[k] \notin ConfigOption \cup Files
  BY DEF NamesLong
<1>4. ASSUME NEW k \in Nat \ {0}, k < Len(line) - 1
      PROVE  line[k] \notin ConfigOption /\ line[k + 1] \notin Files
  <2>1. k \in 1 .. Len(line) - 2
    BY <1>1, <1>4
  <2>2. k + 1 \in 1 .. Len(line) - 2 \/ k + 1 = Len(line) - 1
    BY <1>1, <1>4
  <2> QED  BY <1>2, <1>3, <2>1, <2>2
<1> QED  BY <1>1, <1>2, <1>3, <1>4

LEMMA LongInit == Init => LongRead
<1> SUFFICES ASSUME Init, NEW f \in Files, NamesLong(f) PROVE line \in Lines /\ LongReading(f)
  BY DEF Init, LongRead
<1>1. DOMAIN tags = Owners /\ \A l \in Copied : tags[l] = <<>>
  BY DEF Init, Owners, Libs
<1> QED  BY <1>1 DEF Init, LongReading

LEMMA LongArgs ==
  ASSUME NEW f \in Files, line \in Lines, NamesLong(f), LongReading(f), ParseArg
  PROVE  LongReading(f)'
<1> DEFINE n == Len(line)
<1>1. /\ pc = "args" /\ i <= n /\ i' = i + 1
      /\ UNCHANGED <<line, pc, p, confs, chain, dtmf, up, rec, udp>>
      /\ tags' = [tags EXCEPT !["app"] =
           IF n = 1 \/ line[i] \in DaemonOption THEN LoadDefaults(@)
           ELSE IF line[i] \in ConfigOption /\ i < n THEN FallBack(@, line[i + 1])
           ELSE @]
  BY DEF ParseArg, plugins
<1>2. /\ DOMAIN tags = Owners /\ i \in Nat \ {0} /\ p \in Nat \ {0}
      /\ confs = <<>> /\ \A l \in Copied : tags[l] = <<>>
      /\ i >= n => tags["app"] = <<f>>
  BY <1>1 DEF LongReading
<1>3. /\ n \in Nat /\ n >= 3 /\ line[n] = f /\ line[n - 1] = "--config"
      /\ f \notin ConfigOption \cup DaemonOption
  BY LongEnds
<1>4. "app" \in Owners /\ \A l \in Copied : l \in Owners /\ l # "app"
  BY DEF Owners, Libs, Copied
<1> HIDE DEF n
<1>5. DOMAIN tags' = Owners /\ \A l \in Copied : tags'[l] = <<>>
  BY <1>1, <1>2, <1>4
<1>6. ASSUME i' >= n PROVE tags'["app"] = <<f>>
  <2>1. CASE i = n - 1
    <3>1. line[i + 1] = f /\ line[i] = "--config" /\ i < n /\ n # 1
      BY <1>3, <2>1
    <3>2. line[i] \in ConfigOption /\ line[i] \notin DaemonOption
      BY <3>1 DEF ConfigOption, DaemonOption
    <3>3. tags'["app"] = FallBack(tags["app"], f)
      BY <1>1, <1>2, <1>4, <3>1, <3>2
    <3> QED  BY <3>3, LoadsNamed DEF FallBack
  <2>2. CASE i = n
    <3>1. line[i] = f /\ ~(i < n) /\ n # 1
      BY <1>3, <2>2
    <3>2. tags' = [tags EXCEPT !["app"] = @]
      BY <1>1, <1>3, <3>1
    <3> QED  BY <1>2, <1>3, <1>4, <2>2, <3>2
  <2>3. i = n - 1 \/ i = n
    BY <1>1, <1>2, <1>3, <1>6
  <2> QED  BY <2>1, <2>2, <2>3
<1>7. i' >= Len(line)' => tags'["app"] = <<f>>
  BY <1>1, <1>6 DEF n
<1> QED  BY <1>1, <1>2, <1>5, <1>7 DEF LongReading

LEMMA LongLoad ==
  ASSUME NEW f \in Files, line \in Lines, NamesLong(f), LongReading(f), LoadPlugins
  PROVE  LongReading(f)'
<1>1. /\ pc = "args" /\ i > Len(line) /\ pc' = "proxy" /\ p' = 1 /\ i' = 1
      /\ UNCHANGED <<line, confs, tags, dtmf, up, rec, udp>>
  BY DEF LoadPlugins, plugins
<1>2. Len(line) \in Nat /\ Len(line) >= 3
  BY LongEnds
<1>3. i \in Nat
  BY DEF LongReading
<1>4. tags["app"] = <<f>>
  BY <1>1, <1>2, <1>3 DEF LongReading
<1>5. Len(Contents[f].plugins) \in Nat
  BY StartupAssumption
<1>6. PICK tag : tag = Contents[f].plugins
  OBVIOUS
<1>7. PICK good \in Selections(tag) : chain' = [k \in DOMAIN good |-> tag[good[k]].lib]
  BY <1>4, <1>6, NamedTags DEF LoadPlugins
<1>8. PICK m \in Nat : DOMAIN good = 1 .. m
  BY <1>5, <1>6, <1>7 DEF Selections
<1>9. Len(chain') = m /\ DOMAIN chain' = 1 .. m
  BY <1>7, <1>8
<1>10. ~(1 >= Len(line)) /\ \A q \in 1 .. m : ~(q < 1)
  BY <1>2
<1> QED  BY <1>1, <1>4, <1>9, <1>10 DEF LongReading

LEMMA LongTake ==
  ASSUME NEW f \in Files, line \in Lines, NamesLong(f), LongReading(f), TakeFile
  PROVE  LongReading(f)'
<1> DEFINE n == Len(line)
           l == chain[p]
<1>1. /\ pc = "proxy" /\ p <= Len(chain) /\ i < n /\ Takes(l, i)
      /\ tags' = [tags EXCEPT ![l] = FastLoadFile(tags[l], line[i + 1])]
      /\ confs' = (IF l = "dtmf" THEN ConfsOf(FastLoadFile(tags[l], line[i + 1])) ELSE <<>>)
      /\ i' = (IF l = "udp" THEN n + 1 ELSE i + 1)
      /\ UNCHANGED <<line, pc, p, chain, dtmf, up, rec, udp>>
  BY DEF TakeFile, InProxy, settings, plugins
<1>2. /\ DOMAIN tags = Owners /\ i \in Nat \ {0} /\ p \in Nat \ {0}
      /\ tags["app"] = <<f>> /\ \A m \in Copied : tags[m] = <<>>
      /\ Len(chain) \in Nat /\ DOMAIN chain = 1 .. Len(chain)
  BY <1>1 DEF LongReading
<1>3. /\ n \in Nat /\ n >= 3 /\ line[n] = f /\ line[n - 1] = "--config"
      /\ \A k \in Nat \ {0} : k < n - 1 => line[k] \notin ConfigOption /\ line[k + 1] \notin Files
  BY LongEnds
<1>4. l \in Copied \cup {"udp", "alsa"}
  BY <1>1 DEF Takes
<1>5. /\ l \in Owners /\ l # "app" /\ "dtmf" \in Copied
      /\ "udp" \notin Copied /\ "alsa" \notin Copied /\ \A m \in Copied : m \in Owners
  BY <1>4 DEF Owners, Libs, Copied
<1>6. /\ DOMAIN tags' = Owners /\ tags'["app"] = <<f>>
      /\ tags'[l] = FastLoadFile(tags[l], line[i + 1])
      /\ \A m \in Owners : m # l => tags'[m] = tags[m]
  BY <1>1, <1>2, <1>5 DEF Owners
<1>7. i' \in Nat \ {0}
  BY <1>1, <1>2, <1>3
<1>8. CASE l \in Copied
  <2>1. i # n - 1
    BY <1>1, <1>3, <1>5, <1>8 DEF Takes
  <2>2. i < n - 1
    BY <1>1, <1>2, <1>3, <2>1
  <2>3. tags'[l] = <<>>
    BY <1>2, <1>3, <1>6, <1>8, <2>2, LoadsNothing
  <2>4. confs' = <<>>
    BY <1>1, <1>6, <2>3, NoConfs
  <2>5. tags'["udp"] = tags["udp"] /\ i' = i + 1 /\ ~(i + 1 >= n)
    BY <1>1, <1>2, <1>3, <1>5, <1>6, <1>8, <2>2 DEF Owners, Libs
  <2>6. ASSUME NEW q \in DOMAIN chain, chain[q] = "udp", q < p \/ (q = p /\ i' >= n)
        PROVE  tags'["udp"] = <<f>>
    BY <1>1, <2>5, <2>6 DEF LongReading
  <2>7. \A m \in Copied : tags'[m] = <<>>
    BY <1>2, <1>5, <1>6, <2>3
  <2>8. /\ line' = line /\ pc' = "proxy" /\ p' = p /\ chain' = chain
        /\ dtmf' = dtmf /\ up' = up /\ rec' = rec /\ udp' = udp
    BY <1>1
  <2> HIDE DEF l
  <2> QED  BY <1>2, <1>6, <1>7, <2>4, <2>6, <2>7, <2>8 DEF LongReading
<1>9. CASE l \notin Copied
  <2>1. confs' = <<>> /\ \A m \in Copied : tags'[m] = <<>>
    BY <1>1, <1>2, <1>5, <1>6, <1>9
  <2>2. ASSUME NEW q \in DOMAIN chain, chain[q] = "udp", q < p \/ (q = p /\ i' >= n)
        PROVE  tags'["udp"] = <<f>>
    <3>1. CASE l = "udp"
      <4>1. ~(i < n - 1)
        BY <1>1, <1>2, <1>3, <3>1 DEF Takes, Copied
      <4>2. i = n - 1
        BY <1>1, <1>2, <1>3, <4>1
      <4>3. line[i + 1] = f
        BY <1>3, <4>2
      <4> QED  BY <1>6, <3>1, <4>3, LoadsNamed
    <3>2. CASE l # "udp"
      <4>1. tags'["udp"] = tags["udp"]
        BY <1>6, <3>2 DEF Owners, Libs
      <4>2. q # p
        BY <2>2, <3>2
      <4> QED  BY <1>1, <2>2, <4>1, <4>2 DEF LongReading
    <3> QED  BY <3>1, <3>2
  <2>3. /\ line' = line /\ pc' = "proxy" /\ p' = p /\ chain' = chain
        /\ dtmf' = dtmf /\ up' = up /\ rec' = rec /\ udp' = udp
    BY <1>1
  <2> HIDE DEF l
  <2> QED  BY <1>2, <1>6, <1>7, <2>1, <2>2, <2>3 DEF LongReading
<1> QED  BY <1>8, <1>9

LEMMA LongSkip ==
  ASSUME NEW f \in Files, line \in Lines, NamesLong(f), LongReading(f), SkipWord
  PROVE  LongReading(f)'
<1> DEFINE n == Len(line)
<1>1. /\ pc = "proxy" /\ i <= n /\ i' = i + 1 /\ ~(Takes(chain[p], i) /\ i < n)
      /\ UNCHANGED <<line, pc, p, confs, tags, chain, dtmf, up, rec, udp>>
  BY DEF SkipWord, InProxy, settings, plugins
<1>2. n \in Nat /\ n >= 3 /\ line[n - 1] = "--config" /\ i \in Nat \ {0}
  BY LongEnds DEF LongReading
<1>3. chain[p] = "udp" /\ i' >= n => i >= n
  <2>1. Takes("udp", n - 1)
    BY <1>2 DEF Takes, ConfigOption
  <2>2. chain[p] = "udp" => i # n - 1
    BY <1>1, <1>2, <2>1
  <2> QED  BY <1>1, <1>2, <2>2
<1>4. ASSUME NEW q \in DOMAIN chain, chain[q] = "udp", q < p \/ (q = p /\ i' >= n)
      PROVE  tags["udp"] = <<f>>
  BY <1>1, <1>3, <1>4 DEF LongReading
<1> QED  BY <1>1, <1>2, <1>4 DEF LongReading

LEMMA LongNext ==
  ASSUME NEW f \in Files, line \in Lines, NamesLong(f), LongReading(f), NextPlugin
  PROVE  LongReading(f)'
<1>1. /\ pc = "proxy" /\ p' = p + 1 /\ i' = 1 /\ (i > Len(line) \/ Len(line) = 1)
      /\ UNCHANGED <<line, pc, confs, tags, chain, dtmf, up, rec, udp>>
  BY DEF NextPlugin, settings, plugins
<1>2. PICK n \in Nat : n = Len(line) /\ n >= 3
  BY LongEnds
<1>3. /\ i \in Nat \ {0} /\ p \in Nat \ {0} /\ Len(chain) \in Nat
      /\ DOMAIN chain = 1 .. Len(chain)
  BY <1>1 DEF LongReading
<1>4. p' = p + 1 /\ i' = 1
  BY DEF NextPlugin
<1>5. i > n
  BY <1>2 DEF NextPlugin
<1>6. UNCHANGED <<line, pc, confs, tags, chain, dtmf, up, rec, udp>> /\ pc = "proxy"
  BY DEF NextPlugin, settings, plugins
<1>7. ASSUME NEW q \in DOMAIN chain, chain[q] = "udp", q < p' \/ (q = p' /\ i' >= n)
      PROVE  tags["udp"] = <<f>>
  <2>1. q < p \/ (q = p /\ i >= n)
    BY <1>2, <1>3, <1>4, <1>5, <1>7
  <2> QED  BY <1>2, <1>6, <1>7, <2>1 DEF LongReading
<1> QED  BY <1>2, <1>3, <1>4, <1>6, <1>7 DEF LongReading

LEMMA LongInitPlugin ==
  ASSUME NEW f \in Files, line \in Lines, NamesLong(f), LongReading(f), InitPlugin
  PROVE  LongReading(f)'
<1>1. PICK l \in Libs : Initialises(l)
  BY DEF InitPlugin, RecInit, UdpInit, TcpInit, UdpStarts, UdpRefuses, UdpOverruns,
         AlsaInit, DtmfInit, DtmfThrows, PlainInit, Libs, Copied
<1>2. /\ pc = "init" /\ p <= Len(chain) /\ chain[p] = l
      /\ UNCHANGED <<line, i, confs, tags, chain, dtmf>>
  BY <1>1 DEF Initialises, settings
<1>3. /\ p \in DOMAIN chain /\ (l = "udp" => tags["udp"] = <<f>>)
      /\ tags["rec"] = <<>>
  BY <1>2 DEF LongReading, Copied
<1>4. pc' \in {"init", "exited", "crashed"} /\ p' \in Nat \ {0}
  <2>1. p \in Nat \ {0}
    BY DEF LongReading
  <2> QED
    BY <1>2, <2>1 DEF InitPlugin, RecInit, UdpInit, TcpInit, UdpStarts, UdpRefuses,
                      UdpOverruns, AlsaInit, DtmfInit, DtmfThrows, PlainInit, IsUp
<1>5. CASE RecInit
  <2>1. up' = up \cup {"rec"} /\ rec' = RecOf(<<>>) /\ udp' = udp
    BY <1>3, <1>5 DEF RecInit, IsUp
  <2> QED  BY <1>2, <1>4, <2>1 DEF LongReading
<1>6. CASE UdpInit \/ TcpInit
  <2>1. PICK port, state : udp' = UdpOf(tags["udp"], port, state)
    BY <1>6 DEF UdpInit, TcpInit, UdpStarts
  <2>2. l = "udp" /\ up' = up \cup {"udp"} /\ rec' = rec
    BY <1>2, <1>6 DEF UdpInit, TcpInit, UdpStarts, Initialises, IsUp
  <2>3. udp' = UdpOf(<<f>>, port, state)
    BY <1>3, <2>1, <2>2
  <2> QED  BY <1>2, <1>4, <2>2, <2>3 DEF LongReading
<1>7. CASE UdpRefuses \/ UdpOverruns \/ DtmfThrows
  <2>1. UNCHANGED <<up, rec, udp>>
    BY <1>7 DEF UdpRefuses, UdpOverruns, DtmfThrows, plugins
  <2> QED  BY <1>2, <1>4, <2>1 DEF LongReading
<1>8. CASE AlsaInit \/ DtmfInit \/ PlainInit
  <2>1. PICK m \in Libs \ {"rec", "udp"} : up' = up \cup {m}
    BY <1>8 DEF AlsaInit, DtmfInit, PlainInit, IsUp, Libs, Copied
  <2>2. UNCHANGED <<rec, udp>>
    BY <1>8 DEF AlsaInit, DtmfInit, PlainInit
  <2> QED  BY <1>2, <1>4, <2>1, <2>2 DEF LongReading
<1> QED  BY <1>5, <1>6, <1>7, <1>8 DEF InitPlugin

LEMMA LongStep == LongRead /\ [Next]_vars => LongRead'
<1> SUFFICES ASSUME LongRead, [Next]_vars PROVE LongRead'
  OBVIOUS
<1>1. line' = line
  BY DEF vars, Next, GetOpts, EndOpts, Daemonize, DaemonizeFails, ParseArg, LoadPlugins, Proxy,
         TakeFile, SkipWord, ListDevices, DtmfNoConf, DtmfConf, NextPlugin, RegisterAppData,
         LoggerInit, InitPlugin, RecInit, UdpInit, TcpInit, UdpStarts, UdpRefuses, UdpOverruns,
         AlsaInit, DtmfInit, DtmfThrows, PlainInit, Initialises, EndInit, InitTcpServer, HEvLoop, Signal
<1> SUFFICES ASSUME NEW f \in Files, line \in Lines, NamesLong(f), LongReading(f)
             PROVE  LongReading(f)'
  BY <1>1 DEF LongRead, NamesLong
<1>2. Len(line) \in Nat /\ ~(1 >= Len(line))
  BY LongEnds
<1>3. CASE UNCHANGED vars
  BY <1>3 DEF vars, plugins, settings, LongReading
<1>4. CASE GetOpts \/ EndOpts
  <2>1. /\ pc = "main" /\ i' \in {i + 1, 1} /\ pc' \in {"main", "daemonize", "args"}
        /\ UNCHANGED <<p, confs, tags, dtmf, up, rec, udp>>
        /\ pc' \in {"args", "daemonize"} => i' = 1
    BY <1>4 DEF GetOpts, EndOpts, settings, plugins
  <2> QED  BY <1>1, <1>2, <2>1 DEF LongReading
<1>5. CASE Daemonize \/ DaemonizeFails
  <2>1. /\ pc = "daemonize" /\ pc' \in {"args", "exited"}
        /\ UNCHANGED <<i, p, confs, tags, dtmf, up, rec, udp>>
    BY <1>5 DEF Daemonize, DaemonizeFails, settings, plugins
  <2> QED  BY <1>1, <1>2, <2>1 DEF LongReading
<1>6. CASE ListDevices \/ Signal
  <2>1. /\ pc' \in {"exited", "stopped", "killed"}
        /\ UNCHANGED <<i, p, confs, tags, dtmf, up, rec, udp>>
    BY <1>6 DEF ListDevices, Signal, settings, plugins
  <2> QED  BY <2>1 DEF LongReading
<1>7. CASE DtmfNoConf \/ DtmfConf
  BY <1>7 DEF DtmfNoConf, DtmfConf, LongReading
<1>8. CASE RegisterAppData
  <2>1. /\ pc = "proxy" /\ pc' = "logger" /\ p > Len(chain) /\ p' = 1
        /\ UNCHANGED <<i, confs, tags, chain, dtmf, up, rec, udp>>
    BY <1>8 DEF RegisterAppData, plugins
  <2>2. \A q \in DOMAIN chain : q < p
    BY <2>1 DEF LongReading
  <2> QED  BY <2>1, <2>2 DEF LongReading
<1>9. CASE LoggerInit \/ EndInit
  <2>1. /\ pc \in {"logger", "init"} /\ pc' \in {"init", "exec", "exited"}
        /\ UNCHANGED <<i, p, confs, tags, chain, dtmf, up, rec, udp>>
    BY <1>9 DEF LoggerInit, EndInit, plugins
  <2> QED  BY <2>1 DEF LongReading
<1>10. CASE InitTcpServer \/ HEvLoop
  <2>1. /\ pc = "exec" /\ UNCHANGED <<pc, i, p, confs, tags, chain, dtmf, up, rec>>
        /\ udp' \in {udp, [udp EXCEPT !.state = "listens"]}
    BY <1>10 DEF InitTcpServer, HEvLoop, settings
  <2>2. ASSUME NEW port, NEW state, udp = UdpOf(<<f>>, port, state)
        PROVE  udp' \in {UdpOf(<<f>>, port, state), UdpOf(<<f>>, port, "listens")}
    BY <2>1, <2>2 DEF UdpOf
  <2> QED  BY <2>1, <2>2 DEF LongReading
<1> QED
  BY <1>3, <1>4, <1>5, <1>6, <1>7, <1>8, <1>9, <1>10, LongArgs, LongLoad, LongTake, LongSkip,
     LongNext, LongInitPlugin DEF Next, Proxy

LongOptionLost ==
  \A f \in Files : NamesLong(f) =>
    /\ \A l \in Copied : tags[l] = <<>>
    /\ pc \in {"proxy", "logger", "init", "exec"} => tags["app"] = <<f>>
    /\ "rec" \in up => rec.chans = 1 /\ rec.swap = "none" /\ rec.rate = 0
    /\ "dtmf" \in up => dtmf = Unset
    /\ {"udp", "rec"} \subseteq up /\ Number(<<f>>, "files", 1, 0) # 1 /\ UdpChans(<<f>>) > 1
         => Entries > rec.chans

(* `recd2 ... --config f`, as the usage says (main.cpp:85), for any file and any
   words before that name neither an option for one nor a file: the application and the streamer read f, but the plugins that negate
   the comparison read nothing (recorder.cpp:309, dtmf.cpp:135). The recorder has
   one slot at rate 0 and never swaps, DTMF has frames of size 0, and a streamer of
   several channels passes lists with more entries than the recorder's slots, which
   is what NoCrashBeforeDeinit has to exclude.                               *)
THEOREM LongOptionIsLost == Spec => []LongOptionLost
<1>1. LongRead => LongOptionLost
  <2> SUFFICES ASSUME LongRead, NEW f \in Files, NamesLong(f)
               PROVE  /\ \A l \in Copied : tags[l] = <<>>
                      /\ pc \in {"proxy", "logger", "init", "exec"} => tags["app"] = <<f>>
                      /\ "rec" \in up => rec.chans = 1 /\ rec.swap = "none" /\ rec.rate = 0
                      /\ "dtmf" \in up => dtmf = Unset
                      /\ {"udp", "rec"} \subseteq up /\ Number(<<f>>, "files", 1, 0) # 1
                           /\ UdpChans(<<f>>) > 1
                         => Entries > rec.chans
    BY DEF LongOptionLost
  <2>1. LongReading(f)
    BY DEF LongRead
  <2>2. ~Has(<<>>, "files") /\ ~Has(<<>>, "timeBased") /\ ~Has(<<>>, "rate")
    BY DEF Has, Having
  <2>3. RecChans(<<>>) = 1 /\ Swap(<<>>) = "none" /\ WaveRate(<<>>) = 0
    BY <2>2 DEF RecChans, Swap, WaveRate, Number
  <2>4. RecOf(<<>>).chans = 1 /\ RecOf(<<>>).swap = "none" /\ RecOf(<<>>).rate = 0
    BY <2>3 DEF RecOf
  <2>5. ASSUME "udp" \in up, "rec" \in up, Number(<<f>>, "files", 1, 0) # 1, UdpChans(<<f>>) > 1
        PROVE  Entries > rec.chans
    <3>1. PICK port, state : udp = UdpOf(<<f>>, port, state)
      BY <2>1, <2>5 DEF LongReading
    <3>2. udp.single = FALSE /\ udp.chans = UdpChans(<<f>>)
      BY <2>5, <3>1 DEF UdpOf
    <3>3. rec.chans = 1
      BY <2>1, <2>4, <2>5 DEF LongReading
    <3> QED  BY <2>5, <3>2, <3>3 DEF Entries
  <2> QED  BY <2>1, <2>4, <2>5 DEF LongReading
<1> QED  BY LongInit, LongStep, <1>1, PTL DEF Spec
=============================================================================
