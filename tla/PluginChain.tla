----------------------------- MODULE PluginChain -----------------------------
(* The plugin chain: the InterfaceList that RecPluginMngr::loadLibrary builds
   from the configuration's Plugin tags (app/defs.cpp, app/plugin-manager.cpp),
   the walks SApplication makes over it (app/sapplication.cpp), and put_data,
   which every plugin calls on its nextPlugin. A library has one interface_t,
   and get_interface() returns it with nextPlugin reset: a library listed
   twice is one node put twice. A signal's handler deinitialises the chain and
   exits, whatever the main thread was doing (app/unix/daemon.cpp).          *)
EXTENDS Integers, Sequences

CONSTANTS Libs,      \* the plugin libraries
          Kind,      \* what each one's put_data does
          Tags,      \* the Plugin tags of the configurations tried
          Broken,    \* the libraries that may fail to load
          MaxLists,  \* bound: lists passed down the chain
          MaxCalls,  \* bound: calls of one walk that are remembered
          Null

(* "pass" (udp-streamer, producer, consumer, null, alsa-rec) forwards the list,
   and clears it when last; "keep" (recorder, dtmf) copies it and forwards it;
   "self" (MD5) calls its own put_data instead of its successor's.           *)
ASSUME ChainAssumption ==
  /\ Null \notin Libs /\ Broken \subseteq Libs
  /\ Kind \in [Libs -> {"pass", "keep", "self"}]
  /\ Tags \subseteq Seq([lib : Libs, path : BOOLEAN]) /\ MaxLists \in Nat
  /\ MaxCalls \in Nat /\ \A t \in Tags : Len(t) <= MaxCalls

VARIABLES
  tags,     \* the configuration's Plugin tags
  tag,      \* loadPlugins: the next one
  next,     \* interface_t.nextPlugin of each library
  head,     \* InterfaceList.head
  tail,     \* InterfaceList.tail
  phase,    \* "load", "main", "init", "run", "deinit", "clear", "gone"
  it,       \* the interface a walk, or put_data, is at
  entries,  \* "none", or what the list being passed holds: "full", "cleared"
  crashed,  \* an index out of range, or a pointer that is not the heap's freed
  loaded,   \* history: the libraries put, in order
  called,   \* history: the plugins called by each walk
  sent,     \* history: lists passed so far
  got       \* history: full lists seen by each plugin's put_data

config  == <<tags, tag>>
chain   == <<next, head, tail>>
history == <<loaded, called, sent, got>>
vars == <<config, chain, phase, it, entries, crashed, history>>

Walks == {"main", "init", "deinit"}

Init ==
  /\ tags \in Tags /\ tag = 1
  /\ next = [l \in Libs |-> Null] /\ head = Null /\ tail = Null
  /\ phase = "load" /\ it = Null /\ entries = "none" /\ crashed = FALSE
  /\ loaded = <<>> /\ called = [w \in Walks |-> <<>>]
  /\ sent = 0 /\ got = [l \in Libs |-> 0]

-----------------------------------------------------------------------------
(* InterfaceList::put.                                                       *)
PutTailKept(fresh, l) ==  \* seeded bug: tail = newone forgotten
  IF head = Null
  THEN head' = l /\ tail' = l /\ next' = fresh
  ELSE next' = [fresh EXCEPT ![tail] = l] /\ UNCHANGED <<head, tail>>

Put(fresh, l) ==
  IF head = Null
  THEN head' = l /\ tail' = l /\ next' = fresh
  ELSE next' = [fresh EXCEPT ![tail] = l] /\ tail' = l /\ UNCHANGED head

LoadUnreset ==  \* seeded bug: get_interface() leaves nextPlugin as it was
  /\ phase = "load" /\ tag \in DOMAIN tags /\ tags[tag].path
  /\ tag' = tag + 1
  /\ LET l == tags[tag].lib IN Put(next, l) /\ loaded' = Append(loaded, l)
  /\ UNCHANGED <<tags, phase, it, entries, crashed, called, sent, got>>

(* loadLibrary: get_interface() resets the node, then it is put.             *)
LoadLibrary ==
  /\ phase = "load" /\ tag \in DOMAIN tags /\ tags[tag].path
  /\ tag' = tag + 1
  /\ LET l == tags[tag].lib
     IN /\ Put([next EXCEPT ![l] = Null], l)
        /\ loaded' = Append(loaded, l)
  /\ UNCHANGED <<tags, phase, it, entries, crashed, called, sent, got>>

(* It cannot be opened or lacks get_interface; or, in a tag with three
   attributes, the path three on is the next tag's name.                     *)
LoadFails ==
  /\ phase = "load" /\ tag \in DOMAIN tags
  /\ \/ tags[tag].path /\ tags[tag].lib \in Broken
     \/ ~tags[tag].path /\ tag # Len(tags)
  /\ tag' = tag + 1
  /\ UNCHANGED <<tags, chain, phase, it, entries, crashed, history>>

(* i+3 > count lets i+3 = count through to list.at(i+3).                     *)
LoadPastEnd ==
  /\ phase = "load" /\ tag = Len(tags) /\ tag > 0 /\ ~tags[tag].path
  /\ crashed' = TRUE
  /\ UNCHANGED <<config, chain, phase, it, entries, history>>

EndLoad ==
  /\ phase = "load" /\ tag \notin DOMAIN tags
  /\ phase' = "main" /\ it' = head
  /\ UNCHANGED <<config, chain, entries, crashed, history>>

(* proxyMainAll, initAllPlugins and deinit: call the plugin, go to the next. *)
Call ==
  /\ phase \in Walks /\ it # Null
  /\ called' = [called EXCEPT ![phase] =
                  IF Len(@) < MaxCalls THEN Append(@, it) ELSE @]
  /\ it' = next[it]
  /\ UNCHANGED <<config, chain, phase, entries, crashed, loaded, sent, got>>

AfterNoInit ==  \* seeded bug: initAllPlugins is not called
  [main |-> "run", init |-> "run", deinit |-> "clear"]

After == [main |-> "init", init |-> "run", deinit |-> "clear"]

EndWalk ==
  /\ phase \in Walks /\ it = Null
  /\ phase' = After[phase] /\ it' = (IF phase = "main" THEN head ELSE Null)
  /\ UNCHANGED <<config, chain, entries, crashed, history>>

(* The producer at the head passes a list down with its own put_data.        *)
Produce ==
  /\ phase = "run" /\ it = Null /\ head # Null /\ sent < MaxLists
  /\ it' = head /\ entries' = "full" /\ sent' = sent + 1
  /\ UNCHANGED <<config, chain, phase, crashed, loaded, called, got>>

PutThenClear(p) ==  \* seeded bug: cleared whether last or not
  /\ entries' = (IF Kind[p] = "keep" THEN entries ELSE "cleared")
  /\ it' = (IF Kind[p] = "self" /\ next[p] # Null THEN p ELSE next[p])

PutToSelf(p) ==  \* seeded bug: put_data for nextPlugin->put_data
  /\ entries' = (IF next[p] = Null /\ Kind[p] # "keep" THEN "cleared" ELSE entries)
  /\ it' = (IF next[p] # Null THEN p ELSE Null)

PutData(p) ==
  /\ entries' = (IF next[p] = Null /\ Kind[p] # "keep" THEN "cleared" ELSE entries)
  /\ it' = (IF Kind[p] = "self" /\ next[p] # Null THEN p ELSE next[p])

Forward ==
  /\ phase = "run" /\ it # Null
  /\ got' = [got EXCEPT ![it] = IF entries = "full" /\ @ <= MaxLists THEN @ + 1 ELSE @]
  /\ PutData(it)
  /\ UNCHANGED <<config, chain, phase, crashed, loaded, called, sent>>

(* The handlers are attached once the plugins' main_proxy ran: a signal may
   find init, put_data or an earlier signal's deinit under way.              *)
Signal ==
  /\ phase \in {"init", "run", "deinit"}
  /\ phase' = "deinit" /\ it' = head
  /\ called' = [called EXCEPT !["deinit"] = <<>>]
  /\ UNCHANGED <<config, chain, entries, crashed, loaded, sent, got>>

(* ~InterfaceList, on exit: deinit each plugin again and delete it, though it
   is a static object of its library.                                        *)
Clear ==
  /\ phase = "clear" /\ head # Null
  /\ head' = next[head] /\ crashed' \in BOOLEAN
  /\ UNCHANGED <<config, next, tail, phase, it, entries, history>>

Gone ==
  /\ phase = "clear" /\ head = Null /\ phase' = "gone"
  /\ UNCHANGED <<config, chain, it, entries, crashed, history>>

Walk == Call \/ EndWalk

Next ==
  /\ ~crashed
  /\ \/ LoadLibrary \/ LoadFails \/ LoadPastEnd \/ EndLoad \/ Walk
     \/ Produce \/ Forward \/ Signal \/ Clear \/ Gone

Safety == Init /\ [][Next]_vars

(* The main thread runs on through the walks and through put_data.           *)
Spec == Safety /\ WF_vars(~crashed /\ (Walk \/ Forward))

-----------------------------------------------------------------------------
TypeOK ==
  /\ tags \in Tags /\ tag \in 1 .. Len(tags) + 1
  /\ next \in [Libs -> Libs \cup {Null}]
  /\ head \in Libs \cup {Null} /\ tail \in Libs \cup {Null}
  /\ phase \in Walks \cup {"load", "run", "clear", "gone"}
  /\ it \in Libs \cup {Null} /\ entries \in {"none", "full", "cleared"}
  /\ crashed \in BOOLEAN
  /\ loaded \in Seq(Libs) /\ called \in [Walks -> Seq(Libs)]
  /\ sent \in 0 .. MaxLists /\ got \in [Libs -> Nat]

Distinct == \A i, j \in DOMAIN loaded : i # j => loaded[i] # loaded[j]

FirstLoaded == IF loaded = <<>> THEN Null ELSE loaded[1]

LoadedAfter(i) == IF i = Len(loaded) THEN Null ELSE loaded[i + 1]

(* From head, the links of InterfaceList visit the loaded libraries in the
   order of their tags, and end (defs.cpp:16-26), unless one was listed twice. *)
ChainIsLoadOrder ==
  Distinct =>
    /\ phase \notin {"clear", "gone"} => head = FirstLoaded
    /\ \A i \in DOMAIN loaded : next[loaded[i]] = LoadedAfter(i)

(* Whatever the tags, a library listed twice among them: the chain starts at
   the first loaded, and each node's link is the one made after it was last
   put, the reset of get_interface() having cut what it led to before; put
   twice at once, it leads to itself (plugin-manager.cpp:61, defs.cpp:16-26). *)
LastPut(i) == \A j \in DOMAIN loaded : j > i => loaded[j] # loaded[i]

AtOnce(i) == i > 1 /\ loaded[i - 1] = loaded[i]

LinkFrom(i) == IF i = Len(loaded) /\ AtOnce(i) THEN loaded[i] ELSE LoadedAfter(i)

LinksOfAnyTags ==
  /\ phase \notin {"clear", "gone"} => head = FirstLoaded
  /\ \A i \in DOMAIN loaded : LastPut(i) => next[loaded[i]] = LinkFrom(i)

Prefix(s) == Len(s) <= Len(loaded) /\ \A i \in DOMAIN s : s[i] = loaded[i]

Complete(s) == Prefix(s) /\ Len(s) = Len(loaded)

(* Each walk calls the plugins once each in the order loaded, and none receives
   data before all have seen the arguments and been initialised
   (sapplication.cpp:121, 148-195, 266-287).                                 *)
CalledInOrder ==
  Distinct =>
    /\ \A w \in Walks : Prefix(called[w])
    /\ phase \notin {"load", "main"} => Complete(called["main"])
    /\ sent > 0 => Complete(called["init"])

(* A list that went down the chain reached every plugin once, still full, and
   came back empty so that its producer can reuse it, unless the last plugin
   keeps it (README.md:92-93, 258-271).                                      *)
EveryPluginOnce ==
  Distinct /\ phase = "run" /\ it = Null =>
    /\ \A i \in DOMAIN loaded : got[loaded[i]] = sent
    /\ sent > 0 => entries = IF Kind[loaded[Len(loaded)]] = "keep"
                             THEN "full" ELSE "cleared"

(* "each plugin passes the data to the next with this call" (README.md:92):
   a list handed to the chain gets to its end.                               *)
ListGetsToTheEnd == (phase = "run" /\ it # Null) ~> (it = Null \/ phase # "run")
=============================================================================
