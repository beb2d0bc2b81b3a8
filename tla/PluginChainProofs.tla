-------------------------- MODULE PluginChainProofs --------------------------
(* Proofs about the plugin chain: for any libraries and any configuration in
   which no library is loaded twice, the chain is the load order, the walks
   follow it, and a list put into it reaches every plugin once. For any
   configuration, the links are those of each library's last put.            *)
EXTENDS PluginChain, SequenceTheorems, TLAPS

-----------------------------------------------------------------------------
(* The inductive invariant. A walk is at the plugin after those it called...  *)
WalkPos ==
  /\ phase \in Walks =>
       /\ Prefix(called[phase])
       /\ it = IF called[phase] = <<>> THEN FirstLoaded
               ELSE LoadedAfter(Len(called[phase]))
  /\ phase \in {"load", "main"} => called["init"] = <<>> /\ sent = 0
  /\ phase \in {"load", "main", "init", "run"} => called["deinit"] = <<>>
  /\ phase = "load" => called["main"] = <<>>
  /\ phase = "init" => sent = 0
  /\ phase = "run" => Complete(called["init"])

(* ... and a list at the plugin after those that saw it, or at a plugin that
   passes it to itself.                                                      *)
DataPos ==
  /\ phase \in {"load", "main", "init"} => \A l \in Libs : got[l] = 0
  /\ phase = "run" /\ it # Null =>
       \E k \in DOMAIN loaded :
         /\ it = loaded[k] /\ entries = "full" /\ sent > 0
         /\ \A i \in DOMAIN loaded :
              /\ i < k => got[loaded[i]] = sent
              /\ i > k => got[loaded[i]] = sent - 1
         /\ \/ got[it] = sent - 1
            \/ Kind[it] = "self" /\ k # Len(loaded)

ChainInv ==
  /\ TypeOK
  /\ loaded = <<>> <=> tail = Null
  /\ phase = "load" => (head = Null <=> tail = Null) /\ Len(loaded) < tag
  /\ Len(loaded) <= Len(tags)
  /\ Distinct => /\ loaded # <<>> => tail = loaded[Len(loaded)]
                 /\ ChainIsLoadOrder /\ CalledInOrder /\ WalkPos
                 /\ DataPos /\ EveryPluginOnce
-----------------------------------------------------------------------------

LEMMA InSeq ==
  ASSUME NEW S, NEW s \in Seq(S), NEW i \in DOMAIN s
  PROVE  s[i] \in S
  OBVIOUS

LEMMA TagLibs ==
  ASSUME TypeOK
  PROVE  /\ Len(tags) \in Nat /\ DOMAIN tags = 1 .. Len(tags)
         /\ \A t \in 1 .. Len(tags) : tags[t].lib \in Libs
<1>1. tags \in Seq([lib : Libs, path : BOOLEAN])
  BY ChainAssumption DEF TypeOK
<1>2. DOMAIN tags = 1 .. Len(tags) /\ Len(tags) \in Nat
  BY ONLY <1>1
<1>3. ASSUME NEW t \in 1 .. Len(tags) PROVE tags[t].lib \in Libs
  <2>1. tags[t] \in [lib : Libs, path : BOOLEAN]
    BY ONLY <1>1, <1>2, InSeq
  <2> QED  BY ONLY <2>1
<1> QED
  BY <1>2, <1>3

LEMMA TypeInit == Init => TypeOK
<1> SUFFICES ASSUME Init PROVE TypeOK
  OBVIOUS
<1>1. tags \in Tags /\ tag \in 1 .. Len(tags) + 1
  <2>1. Len(tags) \in Nat
    BY ChainAssumption DEF Init
  <2> QED  BY <2>1 DEF Init
<1>2. called \in [Walks -> Seq(Libs)] /\ loaded \in Seq(Libs)
  BY DEF Init
<1>3. sent \in 0 .. MaxLists /\ got \in [Libs -> Nat]
  BY ChainAssumption DEF Init
<1>4. QED
  BY <1>1, <1>2, <1>3 DEF Init, TypeOK

LEMMA TypeStep == TypeOK /\ [Next]_vars => TypeOK'
<1> SUFFICES ASSUME TypeOK, [Next]_vars PROVE TypeOK'
  OBVIOUS
<1> USE ChainAssumption DEF TypeOK, Walks
<1> DEFINE Config == tags' \in Tags /\ tag' \in 1 .. Len(tags') + 1
           Nodes == /\ next' \in [Libs -> Libs \cup {Null}]
                    /\ head' \in Libs \cup {Null} /\ tail' \in Libs \cup {Null}
                    /\ it' \in Libs \cup {Null}
           Rest == /\ phase' \in Walks \cup {"load", "run", "clear", "gone"}
                   /\ entries' \in {"none", "full", "cleared"} /\ crashed' \in BOOLEAN
           Hist == /\ loaded' \in Seq(Libs) /\ called' \in [Walks -> Seq(Libs)]
                   /\ sent' \in 0 .. MaxLists /\ got' \in [Libs -> Nat]
<1> SUFFICES Config /\ Nodes /\ Rest /\ Hist
  OBVIOUS
<1>0. /\ Len(tags) \in Nat /\ DOMAIN tags = 1 .. Len(tags)
      /\ \A t \in 1 .. Len(tags) : tags[t].lib \in Libs
  BY TagLibs
<1>a. ASSUME tag \in 1 .. Len(tags), tag' = tag + 1, tags' = tags PROVE Config
  <2>1. tag + 1 \in 1 .. Len(tags) + 1
    BY ONLY <1>0, <1>a
  <2>2. tags' \in Tags
    BY <1>a
  <2>3. QED  BY ONLY <2>1, <2>2, <1>a
<1>1. CASE LoadLibrary
  <2> DEFINE l == tags[tag].lib  fresh == [next EXCEPT ![l] = Null]
  <2>1. l \in Libs /\ fresh \in [Libs -> Libs \cup {Null}] /\ tag \in 1 .. Len(tags)
    <3>1. tag \in 1 .. Len(tags)
      BY <1>0, <1>1, ChainAssumption DEF LoadLibrary
    <3> QED  BY <3>1, <1>0
  <2>2. Nodes
    BY <1>1, <2>1 DEF LoadLibrary, Put
  <2>3. Config
    <3>1. tag' = tag + 1 /\ tags' = tags
      BY <1>1 DEF LoadLibrary
    <3> QED  BY ONLY <1>a, <2>1, <3>1
  <2>4. Rest /\ Hist
    BY <1>1, <2>1 DEF LoadLibrary
  <2>5. QED  BY <2>2, <2>3, <2>4
<1>2. CASE LoadFails
  <2>1. tag \in 1 .. Len(tags) /\ tag' = tag + 1 /\ tags' = tags
    BY <1>0, <1>2 DEF LoadFails
  <2>2. Config
    BY ONLY <1>a, <2>1
  <2>3. Nodes /\ Rest /\ Hist
    BY <1>2 DEF LoadFails, chain, history
  <2>4. QED  BY <2>2, <2>3
<1>3. CASE LoadPastEnd
  BY <1>3 DEF LoadPastEnd, config, chain, history
<1>4. CASE EndLoad
  BY <1>4 DEF EndLoad, config, chain, history
<1>5. CASE Call
  <2>1. Config /\ Nodes /\ Rest
    BY <1>5 DEF Call, config, chain
  <2>2. called' \in [Walks -> Seq(Libs)]
    <3>1. Append(called[phase], it) \in Seq(Libs)
      BY <1>5 DEF Call
    <3>2. QED  BY <1>5, <3>1 DEF Call
  <2>3. Hist
    BY <1>5, <2>2 DEF Call
  <2>4. QED  BY <2>1, <2>3
<1>6. CASE EndWalk
  BY <1>6 DEF EndWalk, After, config, chain, history
<1>7. CASE Produce
  BY <1>7 DEF Produce, config, chain
<1>8. CASE Forward
  <2>1. Config /\ Nodes /\ Rest
    BY <1>8 DEF Forward, PutData, config, chain
  <2>2. Hist
    BY <1>8 DEF Forward
  <2>3. QED  BY <2>1, <2>2
<1>9. CASE Signal
  BY <1>9 DEF Signal, config, chain
<1>10. CASE Clear
  BY <1>10 DEF Clear, config, history
<1>11. CASE Gone
  BY <1>11 DEF Gone, config, chain, history
<1>12. CASE UNCHANGED vars
  BY <1>12 DEF vars, config, chain, history
<1>13. QED
  BY <1>1, <1>2, <1>3, <1>4, <1>5, <1>6, <1>7, <1>8, <1>9, <1>10, <1>11, <1>12
     DEF Next, Walk

LEMMA InvInit == Init => ChainInv
<1> SUFFICES ASSUME Init PROVE ChainInv
  OBVIOUS
<1>1. TypeOK
  BY TypeInit
<1>2. Len(tags) \in Nat
  BY <1>1, ChainAssumption DEF TypeOK
<1> QED
  BY <1>1, <1>2 DEF Init, ChainInv, Distinct, ChainIsLoadOrder, CalledInOrder, WalkPos,
     DataPos, EveryPluginOnce, Prefix, Complete, FirstLoaded, LoadedAfter, Walks

-----------------------------------------------------------------------------
(* loadLibrary: the node is linked behind the tail, whose link was Null.     *)
LEMMA LoadStep ==
  ASSUME ChainInv, LoadLibrary, TypeOK'
  PROVE  ChainInv'
<1> DEFINE l == tags[tag].lib
           fresh == [next EXCEPT ![l] = Null]
           n == Len(loaded)
<1>1. /\ phase = "load" /\ phase' = "load" /\ loaded' = Append(loaded, l)
      /\ tag' = tag + 1 /\ tag \in 1 .. Len(tags) /\ tags' = tags
      /\ called' = called /\ sent' = sent /\ got' = got /\ it' = it
      /\ Put(fresh, l)
  BY DEF LoadLibrary
<1>2. /\ TypeOK /\ n < tag /\ n \in Nat
      /\ (loaded = <<>> <=> tail = Null) /\ (head = Null <=> tail = Null)
  BY <1>1 DEF ChainInv, TypeOK
<1>3. /\ loaded \in Seq(Libs) /\ l \in Libs
      /\ next \in [Libs -> Libs \cup {Null}] /\ fresh \in [Libs -> Libs \cup {Null}]
      /\ tail' = l
  <2>1. l \in Libs
    BY <1>1, <1>2, TagLibs
  <2> QED  BY <2>1, <1>1, <1>2 DEF TypeOK, Put
<1>4. /\ loaded' \in Seq(Libs) /\ Len(loaded') = n + 1 /\ loaded' # <<>>
      /\ loaded'[n + 1] = l /\ \A i \in 1 .. n : loaded'[i] = loaded[i]
      /\ \A i \in 1 .. n : loaded[i] \in Libs
      /\ DOMAIN loaded = 1 .. n /\ DOMAIN loaded' = 1 .. n + 1
  BY ONLY <1>1, <1>3
<1> HIDE DEF l, fresh, n
<1>5. Len(loaded') <= Len(tags') /\ Len(loaded') < tag' /\ tail' # Null
  <2>1. Len(tags) \in Nat
    BY <1>2, TagLibs
  <2> QED  BY <2>1, <1>1, <1>2, <1>3, <1>4, ChainAssumption
<1>6. head' # Null
  BY <1>1, <1>2, <1>3, ChainAssumption DEF Put
<1>7. ASSUME Distinct'
      PROVE  /\ tail' = loaded'[Len(loaded')] /\ ChainIsLoadOrder' /\ CalledInOrder'
             /\ WalkPos' /\ DataPos' /\ EveryPluginOnce'
  <2>1. Distinct /\ \A i \in 1 .. n : loaded[i] # l
    BY <1>2, <1>4, <1>7 DEF Distinct
  <2>2. /\ n > 0 => tail = loaded[n]
        /\ ChainIsLoadOrder /\ CalledInOrder /\ WalkPos /\ DataPos
    BY <2>1, <1>2, <1>4 DEF ChainInv, n
  <2>3. /\ head = IF n = 0 THEN Null ELSE loaded[1]
        /\ \A i \in 1 .. n : next[loaded[i]] = IF i = n THEN Null ELSE loaded[i + 1]
    <3>1. /\ head = FirstLoaded /\ DOMAIN loaded = 1 .. n
          /\ \A i \in DOMAIN loaded : next[loaded[i]] = LoadedAfter(i)
      BY <2>1, <2>2, <1>1, <1>4 DEF ChainIsLoadOrder
    <3>2. n = 0 <=> loaded = <<>>
      BY <1>3, EmptySeq DEF n
    <3> QED  BY <3>1, <3>2 DEF FirstLoaded, LoadedAfter, n
  <2>4. /\ n = 0 => head = Null /\ tail = Null
        /\ n > 0 => head # Null /\ tail # Null
    BY <1>2, <1>3, <1>4 DEF n
  <2>5. ASSUME NEW i \in 1 .. n + 1
        PROVE  next'[loaded'[i]] = IF i = n + 1 THEN Null ELSE loaded'[i + 1]
    <3>1. CASE i = n + 1
      <4>1. next'[l] = Null
        <5>1. n > 0 => tail # l
          BY <2>1, <2>2, <1>2
        <5>2. QED  BY <5>1, <2>4, <1>1, <1>2, <1>3 DEF Put, fresh
      <4>2. QED  BY <4>1, <3>1, <1>4
    <3>2. CASE i = n /\ i # n + 1
      BY <3>2, <2>2, <2>4, <1>1, <1>2, <1>3, <1>4 DEF Put, fresh
    <3>3. CASE i \in 1 .. n - 1
      <4>1. loaded[i] # l /\ loaded[i] # tail /\ n > 0
        BY <3>3, <2>1, <2>2, <1>2, <1>4 DEF Distinct
      <4>2. next'[loaded[i]] = next[loaded[i]]
        BY <4>1, <3>3, <2>4, <1>1, <1>2, <1>3, <1>4 DEF Put, fresh
      <4>3. QED  BY <4>2, <3>3, <2>3, <1>2, <1>4
    <3>4. QED  BY <3>1, <3>2, <3>3, <1>2
  <2>6. head' = loaded'[1]
    <3>1. CASE n = 0
      BY <3>1, <2>4, <1>1, <1>4 DEF Put
    <3>2. CASE n > 0
      BY <3>2, <2>3, <2>4, <1>1, <1>2, <1>4 DEF Put
    <3>3. QED  BY <3>1, <3>2, <1>2
  <2>7. ChainIsLoadOrder'
    BY <2>5, <2>6, <1>2, <1>4 DEF ChainIsLoadOrder, FirstLoaded, LoadedAfter
  <2>8. called = [w \in Walks |-> <<>>] /\ sent = 0
    <3>1. \A w \in Walks : called[w] = <<>>
      BY <2>2, <1>1 DEF WalkPos, Walks
    <3>2. QED  BY <3>1, <2>2, <1>1, <1>2 DEF TypeOK, WalkPos
  <2>9. CalledInOrder' /\ WalkPos'
    BY <2>8, <1>1, <1>2, <1>4 DEF CalledInOrder, WalkPos, Prefix, Walks
  <2>10. DataPos' /\ EveryPluginOnce'
    BY <2>2, <1>1 DEF DataPos, EveryPluginOnce
  <2> QED  BY <2>7, <2>9, <2>10, <1>3, <1>4
<1> QED
  BY <1>1, <1>4, <1>5, <1>6, <1>7 DEF ChainInv

(* The other steps of loading link nothing.                                  *)
LEMMA SkipStep ==
  ASSUME ChainInv, LoadFails \/ LoadPastEnd \/ EndLoad, TypeOK'
  PROVE  ChainInv'
<1>1. /\ UNCHANGED <<chain, loaded, called, sent, got, entries, tags>>
      /\ phase = "load" /\ tag' >= tag
      /\ \/ phase' = "load" /\ it' = it
         \/ phase' = "main" /\ it' = head
  BY DEF LoadFails, LoadPastEnd, EndLoad, history, config, chain, ChainInv, TypeOK
<1>2. TypeOK /\ Len(loaded) \in Nat
  <2>1. TypeOK
    BY DEF ChainInv
  <2>2. loaded \in Seq(Libs)
    BY <2>1 DEF TypeOK
  <2> QED  BY <2>1, <2>2
<1>3. (Distinct' <=> Distinct) /\ (ChainIsLoadOrder <=> ChainIsLoadOrder')
  BY <1>1 DEF Distinct, ChainIsLoadOrder, chain, FirstLoaded, LoadedAfter
<1>4. ASSUME Distinct
      PROVE CalledInOrder' /\ WalkPos' /\ DataPos' /\ EveryPluginOnce'
  <2>1. ChainIsLoadOrder /\ CalledInOrder /\ WalkPos /\ DataPos
    BY <1>4 DEF ChainInv
  <2>2. CalledInOrder' /\ DataPos' /\ EveryPluginOnce'
    BY <2>1, <1>1 DEF CalledInOrder, DataPos, EveryPluginOnce, Distinct, Prefix, Complete
  <2>3. WalkPos'
    BY <2>1, <1>1, <1>2, <1>4
       DEF WalkPos, ChainIsLoadOrder, FirstLoaded, LoadedAfter, Prefix, Walks
  <2> QED  BY <2>2, <2>3
<1> QED
  BY <1>1, <1>2, <1>3, <1>4 DEF ChainInv, chain, TypeOK

-----------------------------------------------------------------------------
(* A walk calls the plugin it is at, the first it has not called.            *)
LEMMA CallStep ==
  ASSUME ChainInv, Call, TypeOK'
  PROVE  ChainInv'
<1> DEFINE c == called[phase]
<1>1. /\ phase \in Walks /\ it # Null /\ phase' = phase /\ it' = next[it]
      /\ UNCHANGED <<tags, tag, next, head, tail, loaded, sent, got, entries>>
      /\ called' = [called EXCEPT ![phase] = IF Len(c) < MaxCalls
                                             THEN Append(c, it) ELSE c]
  BY DEF Call, config, chain
<1>2. TypeOK
  BY DEF ChainInv
<1>3. /\ loaded \in Seq(Libs) /\ Len(loaded) \in Nat /\ DOMAIN loaded = 1 .. Len(loaded)
      /\ called \in [Walks -> Seq(Libs)] /\ it \in Libs
      /\ c \in Seq(Libs) /\ Len(c) \in Nat /\ DOMAIN c = 1 .. Len(c)
      /\ c = <<>> <=> Len(c) = 0
      /\ loaded = <<>> <=> Len(loaded) = 0
      /\ Len(loaded) <= MaxCalls /\ MaxCalls \in Nat
  <2>1. loaded \in Seq(Libs) /\ called \in [Walks -> Seq(Libs)] /\ it \in Libs
    BY <1>1, <1>2 DEF TypeOK
  <2>2. c \in Seq(Libs)
    BY <2>1, <1>1
  <2>3. Len(loaded) <= MaxCalls /\ MaxCalls \in Nat
    <3>1. Len(loaded) <= Len(tags) /\ Len(tags) <= MaxCalls /\ Len(tags) \in Nat
      BY <1>2, TagLibs, ChainAssumption DEF ChainInv, TypeOK
    <3> QED  BY <3>1, <2>1, ChainAssumption
  <2> QED  BY <2>1, <2>2, <2>3, EmptySeq
<1> HIDE DEF c
<1>4. Distinct' <=> Distinct
  BY <1>1 DEF Distinct
<1>5. ASSUME Distinct
      PROVE  ChainIsLoadOrder' /\ CalledInOrder' /\ WalkPos' /\ DataPos' /\ EveryPluginOnce'
  <2> DEFINE n == Len(c)
  <2>1. ChainIsLoadOrder /\ CalledInOrder /\ WalkPos /\ DataPos
    BY <1>5 DEF ChainInv
  <2>2. n < Len(loaded) /\ it = loaded[n + 1] /\ \A i \in 1 .. n : c[i] = loaded[i]
    <3>1. Prefix(c) /\ it = IF c = <<>> THEN FirstLoaded ELSE LoadedAfter(Len(c))
      BY <2>1, <1>1 DEF WalkPos, c
    <3>2. n <= Len(loaded) /\ \A i \in 1 .. n : c[i] = loaded[i]
      BY <3>1, <1>3 DEF Prefix
    <3>3. CASE n = 0
      BY <3>1, <3>2, <3>3, <1>1, <1>3 DEF FirstLoaded
    <3>4. CASE n # 0
      <4>1. it = LoadedAfter(n)
        BY <3>1, <3>4, <1>3
      <4>2. n # Len(loaded)
        BY <4>1, <1>1 DEF LoadedAfter
      <4>3. it = loaded[n + 1]
        BY <4>1, <4>2 DEF LoadedAfter
      <4>4. n < Len(loaded)
        <5>1. n \in Nat /\ Len(loaded) \in Nat
          BY <1>3
        <5>2. n <= Len(loaded)
          BY <3>2
        <5> QED  BY ONLY <4>2, <5>1, <5>2
      <4> QED  BY <4>3, <4>4, <3>2
    <3> QED  BY <3>3, <3>4
  <2>3. /\ called' = [called EXCEPT ![phase] = Append(c, it)]
        /\ Append(c, it) \in Seq(Libs) /\ Len(Append(c, it)) = n + 1
        /\ Append(c, it)[n + 1] = it /\ \A i \in 1 .. n : Append(c, it)[i] = c[i]
        /\ Append(c, it) # <<>> /\ DOMAIN Append(c, it) = 1 .. n + 1
    <3>1. called' = [called EXCEPT ![phase] = Append(c, it)]
      <4>1. Len(c) < MaxCalls
        BY ONLY <2>2, <1>3
      <4> QED  BY <4>1, <1>1
    <3> QED  BY ONLY <3>1, <1>3
  <2>4. called'[phase] = Append(c, it) /\ \A w \in Walks \ {phase} : called'[w] = called[w]
    BY <2>3, <1>1, <1>3
  <2>5. Prefix(Append(c, it))
    BY <2>2, <2>3, <1>3 DEF Prefix
  <2>6. it' = LoadedAfter(Len(Append(c, it)))
    <3>1. next[it] = LoadedAfter(n + 1)
      BY <2>1, <2>2, <1>3, <1>5 DEF ChainIsLoadOrder
    <3> QED  BY <3>1, <2>3, <1>1
  <2>7. ChainIsLoadOrder' /\ DataPos' /\ EveryPluginOnce'
    BY <2>1, <1>1 DEF ChainIsLoadOrder, DataPos, EveryPluginOnce, FirstLoaded,
       LoadedAfter, Distinct, Walks
  <2>8. \A w \in Walks : Prefix(called'[w])
    BY <2>1, <2>4, <2>5, <1>5 DEF CalledInOrder
  <2>9. CalledInOrder'
    <3>1. /\ phase \notin {"load", "main"} => Complete(called'["main"])
          /\ sent > 0 => Complete(called'["init"])
      <4>1. phase = "init" => ~(sent > 0)
        BY <2>1, <1>2 DEF WalkPos, TypeOK
      <4>2. phase = "main" => ~(sent > 0)
        BY <2>1, <1>2 DEF WalkPos, TypeOK
      <4> QED  BY <4>1, <4>2, <2>1, <2>4, <1>1, <1>5 DEF CalledInOrder, Walks
    <3> QED  BY <3>1, <2>8, <1>1 DEF CalledInOrder, Prefix, Complete
  <2>10. WalkPos'
    <3>1. /\ Prefix(called'[phase])
          /\ it' = IF called'[phase] = <<>> THEN FirstLoaded
                   ELSE LoadedAfter(Len(called'[phase]))
      BY <2>3, <2>4, <2>5, <2>6
    <3>2. /\ phase \in {"load", "main"} => called'["init"] = <<>> /\ sent = 0
          /\ phase \in {"load", "main", "init", "run"} => called'["deinit"] = <<>>
          /\ phase = "init" => sent = 0
      BY <2>1, <2>4, <1>1 DEF WalkPos, Walks
    <3>3. phase # "load" /\ phase # "run"
      BY <1>1 DEF Walks
    <3> QED  BY <3>1, <3>2, <3>3, <1>1 DEF WalkPos, Prefix, FirstLoaded, LoadedAfter
  <2> QED  BY <2>7, <2>9, <2>10
<1> QED
  <2>1. phase' # "load"
    BY <1>1 DEF Walks
  <2> QED  BY <2>1, <1>1, <1>4, <1>5 DEF ChainInv

(* A walk at its end has called every plugin.                                *)
LEMMA EndWalkStep ==
  ASSUME ChainInv, EndWalk, TypeOK'
  PROVE  ChainInv'
<1>1. /\ phase \in Walks /\ it = Null /\ phase' = After[phase]
      /\ it' = (IF phase = "main" THEN head ELSE Null)
      /\ UNCHANGED <<tags, tag, next, head, tail, loaded, called, sent, got, entries>>
  BY DEF EndWalk, config, chain, history
<1>2. TypeOK
  BY DEF ChainInv
<1>3. \/ phase = "main" /\ phase' = "init"
      \/ phase = "init" /\ phase' = "run"
      \/ phase = "deinit" /\ phase' = "clear"
  BY <1>1 DEF After, Walks
<1>4. /\ loaded \in Seq(Libs) /\ Len(loaded) \in Nat /\ DOMAIN loaded = 1 .. Len(loaded)
      /\ loaded = <<>> <=> Len(loaded) = 0
      /\ called[phase] \in Seq(Libs) /\ Len(called[phase]) \in Nat
      /\ called[phase] = <<>> <=> Len(called[phase]) = 0
      /\ \A i \in 1 .. Len(loaded) : loaded[i] # Null
  <2>1. loaded \in Seq(Libs) /\ called[phase] \in Seq(Libs)
    BY <1>1, <1>2 DEF TypeOK
  <2> QED  BY <2>1, EmptySeq, ChainAssumption
<1>5. Distinct' <=> Distinct
  BY <1>1 DEF Distinct
<1>6. ASSUME Distinct
      PROVE  ChainIsLoadOrder' /\ CalledInOrder' /\ WalkPos' /\ DataPos' /\ EveryPluginOnce'
  <2>1. ChainIsLoadOrder /\ CalledInOrder /\ WalkPos /\ DataPos
    BY <1>6 DEF ChainInv
  <2>2. Complete(called[phase])
    <3>1. /\ Prefix(called[phase])
          /\ it = IF called[phase] = <<>> THEN FirstLoaded
                  ELSE LoadedAfter(Len(called[phase]))
      BY <2>1, <1>1 DEF WalkPos
    <3>2. Len(called[phase]) <= Len(loaded)
      BY <3>1 DEF Prefix
    <3>3. Len(called[phase]) = Len(loaded)
      BY <3>1, <3>2, <1>1, <1>4 DEF FirstLoaded, LoadedAfter
    <3> QED  BY <3>1, <3>3 DEF Complete
  <2>3. ChainIsLoadOrder'
    BY <2>1, <1>1, <1>3 DEF ChainIsLoadOrder, FirstLoaded, LoadedAfter, Distinct
  <2>4. CalledInOrder'
    BY <2>1, <2>2, <1>1, <1>3, <1>6 DEF CalledInOrder, Prefix, Complete
  <2>5. WalkPos'
    <3>1. phase = "main" => called["init"] = <<>> /\ sent = 0 /\ it' = FirstLoaded
      BY <2>1, <1>1, <1>3, <1>6 DEF WalkPos, ChainIsLoadOrder
    <3>2. phase \in {"main", "init"} => called["deinit"] = <<>>
      BY <2>1 DEF WalkPos
    <3>3. phase = "init" => Complete(called["init"])'
      BY <2>2, <1>1 DEF Complete, Prefix
    <3> QED  BY <3>1, <3>2, <3>3, <1>1, <1>3, <1>4
             DEF WalkPos, Prefix, Complete, FirstLoaded, LoadedAfter, Walks
  <2>6. DataPos' /\ EveryPluginOnce'
    <3>1. phase \in {"main", "init"} => (\A l \in Libs : got[l] = 0) /\ sent = 0
      BY <2>1 DEF DataPos, WalkPos
    <3>2. \A i \in DOMAIN loaded : loaded[i] \in Libs
      BY <1>4
    <3> QED  BY <3>1, <3>2, <1>1, <1>3 DEF DataPos, EveryPluginOnce, Distinct
  <2> QED  BY <2>3, <2>4, <2>5, <2>6
<1> QED
  BY <1>1, <1>3, <1>5, <1>6 DEF ChainInv

-----------------------------------------------------------------------------
(* A list starts at the head, and each put_data hands it one plugin on.      *)
LEMMA ProduceStep ==
  ASSUME ChainInv, Produce, TypeOK'
  PROVE  ChainInv'
<1>1. /\ phase = "run" /\ phase' = "run" /\ it = Null /\ head # Null
      /\ it' = head /\ entries' = "full" /\ sent' = sent + 1
      /\ UNCHANGED <<tags, tag, next, head, tail, loaded, called, got>>
  BY DEF Produce, config, chain
<1>2. TypeOK
  BY DEF ChainInv
<1>3. /\ loaded \in Seq(Libs) /\ Len(loaded) \in Nat /\ DOMAIN loaded = 1 .. Len(loaded)
      /\ loaded = <<>> <=> Len(loaded) = 0
      /\ sent \in Nat /\ it' # Null
  <2>1. loaded \in Seq(Libs) /\ sent \in Nat
    BY <1>2, ChainAssumption DEF TypeOK
  <2> QED  BY <2>1, <1>1, EmptySeq
<1>4. Distinct' <=> Distinct
  BY <1>1 DEF Distinct
<1>5. ASSUME Distinct
      PROVE  ChainIsLoadOrder' /\ CalledInOrder' /\ WalkPos' /\ DataPos' /\ EveryPluginOnce'
  <2>1. ChainIsLoadOrder /\ CalledInOrder /\ WalkPos /\ EveryPluginOnce
    BY <1>5 DEF ChainInv
  <2>2. ChainIsLoadOrder' /\ WalkPos' /\ EveryPluginOnce'
    BY <2>1, <1>1, <1>3
       DEF ChainIsLoadOrder, WalkPos, EveryPluginOnce, FirstLoaded, LoadedAfter, Distinct, Walks, Complete, Prefix
  <2>3. CalledInOrder'
    <3>1. Complete(called["init"])
      BY <2>1, <1>1, <1>2 DEF WalkPos
    <3> QED  BY <3>1, <2>1, <1>1, <1>5 DEF CalledInOrder, Prefix, Complete
  <2>4. DataPos'
    <3>1. head = loaded[1] /\ Len(loaded) > 0
      BY <2>1, <1>1, <1>3, <1>5 DEF ChainIsLoadOrder, FirstLoaded
    <3>2. \A i \in DOMAIN loaded : got[loaded[i]] = sent
      BY <2>1, <1>1, <1>5 DEF EveryPluginOnce
    <3>3. 1 \in DOMAIN loaded
      BY <3>1, <1>3
    <3>4. /\ it' = loaded'[1] /\ entries' = "full" /\ sent' > 0 /\ 1 \in DOMAIN loaded'
          /\ \A i \in DOMAIN loaded' : /\ i < 1 => got'[loaded'[i]] = sent'
                                       /\ i > 1 => got'[loaded'[i]] = sent' - 1
          /\ got'[it'] = sent' - 1
      BY <3>1, <3>2, <3>3, <1>1, <1>3
    <3> QED  BY <3>4, <1>1 DEF DataPos
  <2> QED  BY <2>2, <2>3, <2>4
<1> QED
  BY <1>1, <1>4, <1>5 DEF ChainInv

LEMMA ForwardStep ==
  ASSUME ChainInv, Forward, TypeOK'
  PROVE  ChainInv'
<1>1. /\ phase = "run" /\ phase' = "run" /\ it # Null /\ PutData(it)
      /\ got' = [got EXCEPT ![it] = IF entries = "full" /\ @ <= MaxLists
                                    THEN @ + 1 ELSE @]
      /\ UNCHANGED <<tags, tag, next, head, tail, loaded, called, sent>>
  BY DEF Forward, config, chain
<1>2. TypeOK
  BY DEF ChainInv
<1>3. /\ loaded \in Seq(Libs) /\ Len(loaded) \in Nat /\ DOMAIN loaded = 1 .. Len(loaded)
      /\ loaded = <<>> <=> Len(loaded) = 0
      /\ sent \in 0 .. MaxLists /\ got \in [Libs -> Nat] /\ it \in Libs
      /\ \A i \in DOMAIN loaded : loaded[i] \in Libs /\ loaded[i] # Null
      /\ MaxLists \in Nat
  <2>1. loaded \in Seq(Libs) /\ sent \in 0 .. MaxLists /\ got \in [Libs -> Nat] /\ it \in Libs
    BY <1>1, <1>2 DEF TypeOK
  <2> QED  BY <2>1, ChainAssumption, EmptySeq
<1>4. Distinct' <=> Distinct
  BY <1>1 DEF Distinct
<1>5. ASSUME Distinct
      PROVE  ChainIsLoadOrder' /\ CalledInOrder' /\ WalkPos' /\ DataPos' /\ EveryPluginOnce'
  <2>1. ChainIsLoadOrder /\ CalledInOrder /\ WalkPos /\ DataPos
    BY <1>5 DEF ChainInv
  <2>2. ChainIsLoadOrder' /\ CalledInOrder' /\ WalkPos'
    BY <2>1, <1>1, <1>5 DEF ChainIsLoadOrder, CalledInOrder, WalkPos, FirstLoaded, LoadedAfter,
       Distinct, Walks, Prefix, Complete
  <2>3. PICK k \in DOMAIN loaded :
          /\ it = loaded[k] /\ entries = "full" /\ sent > 0
          /\ \A i \in DOMAIN loaded : /\ i < k => got[loaded[i]] = sent
                                      /\ i > k => got[loaded[i]] = sent - 1
          /\ \/ got[it] = sent - 1
             \/ Kind[it] = "self" /\ k # Len(loaded)
    BY <2>1, <1>1 DEF DataPos
  <2>4. /\ next[it] = IF k = Len(loaded) THEN Null ELSE loaded[k + 1]
        /\ k \in 1 .. Len(loaded)
    BY <2>1, <2>3, <1>3, <1>5 DEF ChainIsLoadOrder, LoadedAfter
  <2>5. \A i \in DOMAIN loaded : i # k => got'[loaded[i]] = got[loaded[i]]
    <3>1. \A i \in DOMAIN loaded : i # k => loaded[i] # it
      BY <2>3, <1>5 DEF Distinct
    <3> QED  BY <3>1, <1>1, <1>3
  <2>8. ASSUME NEW i \in 1 .. Len(loaded)
        PROVE  /\ i < k => got'[loaded[i]] = sent
               /\ i > k => got'[loaded[i]] = sent - 1
    <3>1. i \in DOMAIN loaded /\ (i < k => i # k) /\ (i > k => i # k)
      BY <2>4, <1>3
    <3>2. i # k => got'[loaded[i]] = got[loaded[i]]
      BY <3>1, <2>5
    <3>3. (i < k => got[loaded[i]] = sent) /\ (i > k => got[loaded[i]] = sent - 1)
      BY <3>1, <2>3
    <3> QED  BY <3>1, <3>2, <3>3
  <2>6. CASE Kind[it] = "self" /\ k # Len(loaded)
    <3>1. it' = it /\ entries' = "full"
      BY <2>3, <2>4, <2>6, <1>1, <1>3 DEF PutData
    <3>2. \A i \in DOMAIN loaded' : /\ i < k => got'[loaded'[i]] = sent'
                                    /\ i > k => got'[loaded'[i]] = sent' - 1
      BY <2>8, <1>1, <1>3
    <3>3. DataPos'
      BY <3>1, <3>2, <2>3, <2>6, <1>1 DEF DataPos
    <3>4. EveryPluginOnce'
      BY <3>1, <1>1 DEF EveryPluginOnce
    <3> QED  BY <2>2, <3>3, <3>4
  <2>7. CASE ~(Kind[it] = "self" /\ k # Len(loaded))
    <3>1. it' = next[it]
      BY <2>4, <2>7, <1>1 DEF PutData
    <3>2. got'[it] = sent
      <4>1. got[it] = sent - 1 /\ got[it] <= MaxLists
        BY <2>3, <2>7, <1>3
      <4>2. got'[it] = got[it] + 1
        BY <4>1, <2>3, <1>1, <1>3
      <4> QED  BY <4>1, <4>2, <1>3
    <3>3. \A i \in 1 .. Len(loaded) : /\ i <= k => got'[loaded[i]] = sent
                                      /\ i > k => got'[loaded[i]] = sent - 1
      <4> SUFFICES ASSUME NEW i \in 1 .. Len(loaded)
                   PROVE  /\ i <= k => got'[loaded[i]] = sent
                          /\ i > k => got'[loaded[i]] = sent - 1
        OBVIOUS
      <4>1. i = k => got'[loaded[i]] = sent
        BY <2>3, <3>2
      <4>2. i <= k => i = k \/ i < k
        BY <2>4, <1>3
      <4> QED  BY <4>1, <4>2, <2>8
    <3>4. CASE k = Len(loaded)
      <4>1. it' = Null /\ entries' = (IF Kind[it] = "keep" THEN "full" ELSE "cleared")
        BY <3>1, <3>4, <2>3, <2>4, <1>1 DEF PutData
      <4>2. \A i \in DOMAIN loaded' : got'[loaded'[i]] = sent'
        BY <3>3, <3>4, <1>1, <1>3
      <4>3. DataPos' /\ EveryPluginOnce'
        BY <4>1, <4>2, <3>4, <2>3, <1>1 DEF DataPos, EveryPluginOnce
      <4> QED  BY <2>2, <4>3
    <3>5. CASE k # Len(loaded)
      <4>1. /\ k + 1 \in DOMAIN loaded' /\ it' = loaded'[k + 1] /\ entries' = "full"
            /\ it' # Null /\ sent' > 0
        BY <3>1, <3>5, <2>3, <2>4, <1>1, <1>3 DEF PutData
      <4>2. \A i \in DOMAIN loaded' :
              /\ i < k + 1 => got'[loaded'[i]] = sent'
              /\ i > k + 1 => got'[loaded'[i]] = sent' - 1
        <5> SUFFICES ASSUME NEW i \in 1 .. Len(loaded)
                     PROVE  /\ i < k + 1 => got'[loaded[i]] = sent
                            /\ i > k + 1 => got'[loaded[i]] = sent - 1
          BY <1>1, <1>3
        <5>1. (i < k + 1 => i <= k) /\ (i > k + 1 => i > k)
          BY <2>4, <1>3
        <5> QED  BY <5>1, <3>3
      <4>3. got'[it'] = sent' - 1
        BY <3>3, <4>1, <2>4, <1>1, <1>3
      <4>4. DataPos'
        BY <4>1, <4>2, <4>3, <1>1 DEF DataPos
      <4>5. EveryPluginOnce'
        BY <4>1 DEF EveryPluginOnce
      <4> QED  BY <2>2, <4>4, <4>5
    <3> QED  BY <3>4, <3>5
  <2> QED  BY <2>6, <2>7
<1> QED
  BY <1>1, <1>4, <1>5 DEF ChainInv

-----------------------------------------------------------------------------
(* A signal starts the deinit walk over, wherever the main thread was.       *)
LEMMA SignalStep ==
  ASSUME ChainInv, Signal, TypeOK'
  PROVE  ChainInv'
<1>1. /\ phase \in {"init", "run", "deinit"} /\ phase' = "deinit" /\ it' = head
      /\ called' = [called EXCEPT !["deinit"] = <<>>]
      /\ UNCHANGED <<tags, tag, next, head, tail, loaded, sent, got, entries>>
  BY DEF Signal, config, chain
<1>2. /\ called' \in [Walks -> Seq(Libs)] /\ called'["deinit"] = <<>>
      /\ called'["main"] = called["main"] /\ called'["init"] = called["init"]
      /\ Len(loaded) \in Nat
  <2>1. TypeOK
    BY DEF ChainInv
  <2>2. called \in [Walks -> Seq(Libs)] /\ loaded \in Seq(Libs)
    BY <2>1 DEF TypeOK
  <2> QED  BY <2>2, <1>1 DEF Walks
<1>3. Distinct' <=> Distinct
  BY <1>1 DEF Distinct
<1>4. ASSUME Distinct
      PROVE  ChainIsLoadOrder' /\ CalledInOrder' /\ WalkPos' /\ DataPos' /\ EveryPluginOnce'
  <2>1. ChainIsLoadOrder /\ CalledInOrder /\ WalkPos
    BY <1>4 DEF ChainInv
  <2>2. ChainIsLoadOrder' /\ DataPos' /\ EveryPluginOnce'
    BY <2>1, <1>1
       DEF ChainIsLoadOrder, DataPos, EveryPluginOnce, FirstLoaded, LoadedAfter, Distinct
  <2>3. CalledInOrder'
    BY <2>1, <1>1, <1>2, <1>4 DEF CalledInOrder, Prefix, Complete, Walks
  <2>4. head = FirstLoaded
    BY <2>1, <1>1, <1>4 DEF ChainIsLoadOrder
  <2>5. WalkPos'
    BY <2>4, <1>1, <1>2 DEF WalkPos, Prefix, FirstLoaded, LoadedAfter, Walks
  <2> QED  BY <2>2, <2>3, <2>5
<1> QED
  BY <1>1, <1>3, <1>4 DEF ChainInv

(* What is left is the exit, and steps that leave all as it was.             *)
LEMMA ExitStep ==
  ASSUME ChainInv, Clear \/ Gone \/ UNCHANGED vars, TypeOK'
  PROVE  ChainInv'
<1>1. CASE UNCHANGED vars
  BY <1>1 DEF vars, config, chain, history, ChainInv, Distinct, ChainIsLoadOrder,
     CalledInOrder, WalkPos, DataPos, EveryPluginOnce, Prefix, Complete, FirstLoaded,
     LoadedAfter, TypeOK
<1>2. CASE Clear \/ Gone
  <2>1. /\ phase = "clear" /\ phase' \in {"clear", "gone"}
        /\ UNCHANGED <<tags, tag, next, tail, loaded, called, sent, got, entries, it>>
    BY <1>2 DEF Clear, Gone, config, chain, history
  <2>2. Distinct' <=> Distinct
    BY <2>1 DEF Distinct
  <2>3. ASSUME Distinct
        PROVE  ChainIsLoadOrder' /\ CalledInOrder' /\ WalkPos' /\ DataPos' /\ EveryPluginOnce'
    <3>1. ChainIsLoadOrder /\ CalledInOrder
      BY <2>3 DEF ChainInv
    <3> QED  BY <3>1, <2>1, <2>3 DEF ChainIsLoadOrder, CalledInOrder, WalkPos, DataPos,
             EveryPluginOnce, LoadedAfter, Prefix, Complete, Walks
  <2> QED  BY <2>1, <2>2, <2>3 DEF ChainInv
<1> QED
  BY <1>1, <1>2

-----------------------------------------------------------------------------
(* The chain, the positions of the walks and of the list being passed are kept
   by every step of loading, walking, passing data, signals and exit.        *)
THEOREM ChainInvariant == Safety => []ChainInv
<1>1. Init => ChainInv
  BY InvInit
<1>2. ChainInv /\ [Next]_vars => ChainInv'
  <2> SUFFICES ASSUME ChainInv, [Next]_vars PROVE ChainInv'
    OBVIOUS
  <2>1. TypeOK'
    BY TypeStep DEF ChainInv
  <2> QED
    BY <2>1, LoadStep, SkipStep, CallStep, EndWalkStep, ProduceStep, ForwardStep,
       SignalStep, ExitStep DEF Next, Walk
<1> QED
  BY <1>1, <1>2, PTL DEF Safety

(* InterfaceList::put, as loadLibrary uses it, keeps the order of the tags.  *)
THEOREM ChainFollowsTags == Safety => []ChainIsLoadOrder
<1>1. ChainInv => ChainIsLoadOrder
  BY DEF ChainInv, ChainIsLoadOrder
<1> QED
  BY <1>1, ChainInvariant, PTL

(* proxyMainAll, initAllPlugins and deinit call each plugin once, in order,
   and no data flows before every plugin is initialised.                     *)
THEOREM WalksInOrder == Safety => []CalledInOrder
<1>1. ChainInv => CalledInOrder
  BY DEF ChainInv, CalledInOrder
<1> QED
  BY <1>1, ChainInvariant, PTL

(* put_data hands every list to every plugin exactly once, whole.            *)
THEOREM ListReachesAll == Safety => []EveryPluginOnce
<1>1. ChainInv => EveryPluginOnce
  BY DEF ChainInv, EveryPluginOnce
<1> QED
  BY <1>1, ChainInvariant, PTL
-----------------------------------------------------------------------------
TailIsLast == loaded # <<>> => tail = loaded[Len(loaded)]

(* A configuration every tag of which can be loaded.                         *)
AllLoad == \A t \in DOMAIN tags : tags[t].path /\ tags[t].lib \notin Broken

LoadedAsListed ==
  AllLoad =>
    /\ Len(loaded) = tag - 1 /\ \A i \in DOMAIN loaded : loaded[i] = tags[i].lib
    /\ phase = "load" \/ tag = Len(tags) + 1
    /\ crashed => phase = "clear"

DeinitBeforeClear ==
  Distinct /\ phase \in {"clear", "gone"} => Complete(called["deinit"])

(* No plugin comes after one that passes a list to itself.                   *)
Before(p, q) == \E i, j \in DOMAIN loaded : i < j /\ loaded[i] = p /\ loaded[j] = q

SelfKeepsLists ==
  Distinct => \A p, q \in Libs : Kind[p] = "self" /\ Before(p, q) =>
    got[q] = 0 /\ sent <= 1 /\ (phase = "run" => it # q)

LEMMA NotLast ==
  ASSUME NEW n \in Nat, NEW i \in 1 .. n, i # n
  PROVE  i + 1 \in 1 .. n /\ n > i /\ n \in 1 .. n + 1 /\ n \in 1 .. n
  OBVIOUS

LEMMA LinksStep ==
  ASSUME ChainInv, LinksOfAnyTags, TailIsLast, [Next]_vars
  PROVE  LinksOfAnyTags' /\ TailIsLast'
<1> DEFINE n == Len(loaded)
<1>1. /\ loaded \in Seq(Libs) /\ n \in Nat /\ DOMAIN loaded = 1 .. n
      /\ loaded = <<>> <=> n = 0
      /\ loaded = <<>> <=> tail = Null
      /\ phase = "load" => (head = Null <=> tail = Null)
      /\ next \in [Libs -> Libs \cup {Null}] /\ head \in Libs \cup {Null}
      /\ \A i \in DOMAIN loaded : loaded[i] \in Libs /\ loaded[i] # Null
  <2>1. TypeOK /\ (loaded = <<>> <=> tail = Null)
        /\ (phase = "load" => (head = Null <=> tail = Null))
    BY DEF ChainInv
  <2>2. loaded \in Seq(Libs) /\ next \in [Libs -> Libs \cup {Null}] /\ head \in Libs \cup {Null}
    BY <2>1 DEF TypeOK
  <2> QED  BY <2>1, <2>2, EmptySeq, ChainAssumption
<1>2. CASE LoadLibrary
  <2> DEFINE l == tags[tag].lib
             fresh == [next EXCEPT ![l] = Null]
  <2>1. /\ phase = "load" /\ phase' = "load" /\ loaded' = Append(loaded, l) /\ l \in Libs
        /\ fresh \in [Libs -> Libs \cup {Null}] /\ fresh[l] = Null
        /\ \A m \in Libs : m # l => fresh[m] = next[m]
        /\ Put(fresh, l)
    <3>1. tag \in 1 .. Len(tags) /\ TypeOK
      BY <1>2 DEF LoadLibrary, ChainInv, TypeOK
    <3>2. l \in Libs
      BY <3>1, TagLibs
    <3> QED  BY <1>1, <1>2, <3>2 DEF LoadLibrary
  <2> HIDE DEF l, fresh
  <2>2. /\ loaded' \in Seq(Libs) /\ Len(loaded') = n + 1 /\ loaded' # <<>>
        /\ loaded'[n + 1] = l /\ DOMAIN loaded' = 1 .. n + 1
        /\ \A i \in 1 .. n : loaded'[i] = loaded[i]
    BY <1>1, <2>1
  <2>3. tail' = l /\ (head = Null <=> n = 0) /\ (head = Null <=> tail = Null)
    BY <1>1, <2>1 DEF Put
  <2>4. head' = loaded'[1]
    <3>1. n > 0 => head = loaded[1]
      BY <1>1, <2>1 DEF LinksOfAnyTags, FirstLoaded
    <3> QED  BY <1>1, <2>1, <2>2, <2>3, <3>1 DEF Put
  <2>5. ASSUME NEW i \in 1 .. n + 1, LastPut(i)'
        PROVE  next'[loaded'[i]] = LinkFrom(i)'
    <3>1. CASE i = n + 1
      <4>1. next'[l] = IF n > 0 /\ loaded[n] = l THEN l ELSE Null
        BY <1>1, <2>1, <2>3 DEF Put, TailIsLast
      <4>2. LinkFrom(i)' = IF n > 0 /\ loaded[n] = l THEN l ELSE Null
        BY <1>1, <2>2, <3>1 DEF LinkFrom, AtOnce, LoadedAfter
      <4> QED  BY <2>2, <3>1, <4>1, <4>2
    <3>2. CASE i \in 1 .. n
      <4>1. /\ loaded'[i] = loaded[i] /\ loaded[i] \in Libs /\ loaded[i] # l /\ n > 0
            /\ LinkFrom(i)' = loaded'[i + 1]
        BY <1>1, <2>2, <2>5, <3>2 DEF LastPut, LinkFrom, LoadedAfter
      <4>2. /\ next' = [fresh EXCEPT ![tail] = l] /\ tail = loaded[n]
            /\ fresh[loaded[i]] = next[loaded[i]]
        BY <1>1, <2>1, <2>3, <4>1 DEF Put, TailIsLast
      <4>3. CASE i = n
        BY <1>1, <2>1, <2>2, <4>1, <4>2, <4>3
      <4>4. CASE i # n
        <5>0. i + 1 \in 1 .. n /\ n > i /\ n \in 1 .. n + 1 /\ n \in 1 .. n
          BY ONLY <1>1, <3>2, <4>4, NotLast
        <5>1. loaded[i] # loaded[n]
          <6>1. n \in DOMAIN loaded' /\ n > i /\ loaded'[n] = loaded[n]
            BY ONLY <2>2, <5>0
          <6> QED  BY <2>5, <4>1, <6>1 DEF LastPut
        <5>2. LastPut(i)
          BY <1>1, <2>2, <2>5, <3>2 DEF LastPut
        <5>3. next[loaded[i]] = loaded[i + 1] /\ loaded'[i + 1] = loaded[i + 1]
          <6>1. i \in DOMAIN loaded /\ i + 1 \in 1 .. n
            BY <1>1, <3>2, <5>0
          <6>2. next[loaded[i]] = LinkFrom(i)
            BY <5>2, <6>1 DEF LinksOfAnyTags
          <6> QED  BY <2>2, <4>4, <6>1, <6>2 DEF LinkFrom, LoadedAfter
        <5> QED  BY <1>1, <2>1, <4>1, <4>2, <5>1, <5>3
      <4> QED  BY <4>3, <4>4
    <3> QED  BY <1>1, <3>1, <3>2
  <2> QED  BY <2>2, <2>3, <2>4, <2>5 DEF LinksOfAnyTags, TailIsLast, FirstLoaded
<1>3. ASSUME UNCHANGED <<next, tail, loaded>>,
             phase' \notin {"clear", "gone"} => phase \notin {"clear", "gone"} /\ head' = head
      PROVE  LinksOfAnyTags' /\ TailIsLast'
  BY <1>3 DEF LinksOfAnyTags, TailIsLast, LastPut, LinkFrom, AtOnce, LoadedAfter, FirstLoaded
<1>4. CASE EndWalk
  <2>1. phase \in Walks
    BY <1>4 DEF EndWalk
  <2> QED  BY <1>3, <1>4, <2>1 DEF EndWalk, chain, history, Walks
<1>5. CASE LoadFails \/ LoadPastEnd \/ EndLoad \/ Call \/ Produce \/ Forward \/ Signal
           \/ Clear \/ Gone \/ UNCHANGED vars
  <2>1. /\ UNCHANGED <<next, tail, loaded>>
        /\ phase' \notin {"clear", "gone"} => phase \notin {"clear", "gone"} /\ head' = head
    BY <1>5 DEF LoadFails, LoadPastEnd, EndLoad, Call, Produce, Forward, Signal, Clear, Gone,
       vars, chain, history, Walks
  <2> QED  BY <1>3, <2>1
<1> QED  BY <1>2, <1>4, <1>5 DEF Next, Walk

(* Whatever the configuration, a library listed twice included: the chain
   starts at the first library loaded, and each library's link is the one made
   by the plugin put right after it was last put; so all that was put between
   the two is cut off, or goes round for ever (plugin-manager.cpp:61, which
   resets nextPlugin, against defs.cpp:16-26).                               *)
THEOREM LinksFromLastPut == Safety => []LinksOfAnyTags
<1> DEFINE Inv == ChainInv /\ LinksOfAnyTags /\ TailIsLast
<1>1. Init => LinksOfAnyTags /\ TailIsLast
  BY DEF Init, LinksOfAnyTags, TailIsLast, FirstLoaded
<1>2. ChainInv /\ LinksOfAnyTags /\ TailIsLast /\ [Next]_vars
      => (LinksOfAnyTags /\ TailIsLast)'
  BY LinksStep
<1> QED  BY <1>1, <1>2, ChainInvariant, PTL DEF Safety

-----------------------------------------------------------------------------
LEMMA ListedStep ==
  ASSUME ChainInv, LoadedAsListed, [Next]_vars
  PROVE  LoadedAsListed'
<1>1. /\ loaded \in Seq(Libs) /\ DOMAIN loaded = 1 .. Len(loaded) /\ Len(loaded) \in Nat
      /\ tag \in 1 .. Len(tags) + 1 /\ Len(tags) \in Nat /\ DOMAIN tags = 1 .. Len(tags)
      /\ \A t \in 1 .. Len(tags) : tags[t].lib \in Libs
  <2>1. TypeOK
    BY DEF ChainInv
  <2>2. loaded \in Seq(Libs) /\ tag \in 1 .. Len(tags) + 1
    BY <2>1 DEF TypeOK
  <2> QED  BY <2>1, <2>2, TagLibs
<1> SUFFICES ASSUME AllLoad'
             PROVE  /\ Len(loaded') = tag' - 1
                    /\ \A i \in DOMAIN loaded' : loaded'[i] = tags'[i].lib
                    /\ phase' = "load" \/ tag' = Len(tags') + 1
                    /\ crashed' => phase' = "clear"
  BY DEF LoadedAsListed
<1>2. tags' = tags
  BY DEF Next, Walk, LoadLibrary, LoadFails, LoadPastEnd, EndLoad, Call, EndWalk, Produce,
     Forward, Signal, Clear, Gone, vars, config
<1>3. /\ AllLoad /\ Len(loaded) = tag - 1 /\ \A i \in DOMAIN loaded : loaded[i] = tags[i].lib
      /\ phase = "load" \/ tag = Len(tags) + 1
      /\ crashed => phase = "clear"
  BY <1>2 DEF AllLoad, LoadedAsListed
<1>4. CASE LoadLibrary
  <2>1. /\ phase = "load" /\ phase' = "load" /\ loaded' = Append(loaded, tags[tag].lib)
        /\ tag' = tag + 1 /\ tag \in 1 .. Len(tags) /\ crashed' = crashed
        /\ tags[tag].lib \in Libs
    BY <1>1, <1>4 DEF LoadLibrary
  <2>2. /\ Len(loaded') = Len(loaded) + 1 /\ DOMAIN loaded' = 1 .. Len(loaded) + 1
        /\ loaded'[Len(loaded) + 1] = tags[tag].lib
        /\ \A i \in 1 .. Len(loaded) : loaded'[i] = loaded[i]
    BY <1>1, <2>1
  <2> QED  BY <1>1, <1>2, <1>3, <2>1, <2>2
<1>5. ~LoadFails /\ ~LoadPastEnd
  <2>1. \A t \in 1 .. Len(tags) : tags[t].path /\ tags[t].lib \notin Broken
    BY <1>1, <1>3 DEF AllLoad
  <2>2. LoadFails => tag \in 1 .. Len(tags) /\ (~tags[tag].path \/ tags[tag].lib \in Broken)
    BY <1>1 DEF LoadFails
  <2>3. LoadPastEnd => tag \in 1 .. Len(tags) /\ ~tags[tag].path
    BY <1>1 DEF LoadPastEnd
  <2> QED  BY <2>1, <2>2, <2>3
<1>6. CASE EndLoad
  BY <1>1, <1>2, <1>3, <1>6 DEF EndLoad, config, history
<1>7. CASE Call \/ EndWalk \/ Produce \/ Forward \/ Signal \/ Clear \/ Gone \/ UNCHANGED vars
  <2>1. /\ UNCHANGED <<tag, loaded>> /\ (phase' = "load" <=> phase = "load")
        /\ crashed' => (crashed /\ phase' = phase) \/ phase' = "clear"
    <3>1. CASE UNCHANGED vars
      BY <3>1 DEF vars, config, history
    <3>2. (~crashed /\ Next) \/ UNCHANGED vars
      BY DEF Next
    <3>3. CASE ~crashed /\ (Call \/ EndWalk \/ Produce \/ Forward \/ Signal)
      BY <3>3 DEF Call, EndWalk, Produce, Forward, Signal, config, history, Walks, After
    <3>4. CASE Clear \/ Gone
      <4>1. CASE Clear
        BY <4>1 DEF Clear, config, history
      <4>2. CASE Gone /\ ~crashed
        BY <4>2 DEF Gone, config, history
      <4> QED  BY <3>1, <3>2, <3>4, <4>1, <4>2
    <3> QED  BY <1>7, <3>1, <3>2, <3>3, <3>4
  <2> QED  BY <1>2, <1>3, <2>1
<1> QED  BY <1>4, <1>5, <1>6, <1>7 DEF Next, Walk

(* A configuration whose every Plugin tag gives a path to a library that loads
   is loaded as it is written: all of it, in its order, and nothing is read
   past the end of a tag's attributes (sapplication.cpp:226-258).            *)
THEOREM GoodTagsAreAllLoaded == Safety => []LoadedAsListed
<1>1. Init => LoadedAsListed
  BY DEF Init, LoadedAsListed
<1>2. ChainInv /\ LoadedAsListed /\ [Next]_vars => LoadedAsListed'
  BY ListedStep
<1> QED  BY <1>1, <1>2, ChainInvariant, PTL DEF Safety

-----------------------------------------------------------------------------
LEMMA DeinitStep ==
  ASSUME ChainInv, DeinitBeforeClear, [Next]_vars
  PROVE  DeinitBeforeClear'
<1> SUFFICES ASSUME Distinct', phase' \in {"clear", "gone"}
             PROVE  Complete(called["deinit"])'
  BY DEF DeinitBeforeClear
<1>1. UNCHANGED <<loaded, called>>
      /\ \/ phase \in {"clear", "gone"}
         \/ phase = "deinit" /\ it = Null
  BY DEF Next, Walk, LoadLibrary, LoadFails, LoadPastEnd, EndLoad, Call, EndWalk, Produce,
     Forward, Signal, Clear, Gone, vars, config, history, Walks, After
<1>2. Distinct
  BY <1>1 DEF Distinct
<1>3. CASE phase \in {"clear", "gone"}
  BY <1>1, <1>2, <1>3 DEF DeinitBeforeClear, Complete, Prefix
<1>4. CASE phase = "deinit" /\ it = Null
  <2>1. /\ Prefix(called["deinit"])
        /\ it = IF called["deinit"] = <<>> THEN FirstLoaded
                ELSE LoadedAfter(Len(called["deinit"]))
    BY <1>2, <1>4 DEF ChainInv, WalkPos, Walks
  <2>2. /\ loaded \in Seq(Libs) /\ called["deinit"] \in Seq(Libs)
    BY DEF ChainInv, TypeOK, Walks
  <2>3. /\ Len(called["deinit"]) \in Nat /\ Len(loaded) \in Nat
        /\ called["deinit"] = <<>> => Len(called["deinit"]) = 0
        /\ loaded = <<>> => Len(loaded) = 0
        /\ \A i \in 1 .. Len(loaded) : loaded[i] # Null
    BY <2>2, ChainAssumption
  <2>4. Len(called["deinit"]) = Len(loaded)
    BY <1>4, <2>1, <2>2, <2>3, EmptySeq DEF Prefix, FirstLoaded, LoadedAfter
  <2> QED  BY <1>1, <2>1, <2>4 DEF Complete, Prefix
<1> QED  BY <1>1, <1>3, <1>4

(* However often a signal starts it over, and whatever it finds under way, the
   walk that ends in the exit has deinitialised every plugin, once each and in
   order, before the list of plugins is destroyed (sapplication.cpp:211-215,
   defs.cpp:46-60).                                                           *)
THEOREM DeinitIsComplete == Safety => []DeinitBeforeClear
<1>1. Init => DeinitBeforeClear
  BY DEF Init, DeinitBeforeClear
<1>2. ChainInv /\ DeinitBeforeClear /\ [Next]_vars => DeinitBeforeClear'
  BY DeinitStep
<1> QED  BY <1>1, <1>2, ChainInvariant, PTL DEF Safety

-----------------------------------------------------------------------------
LEMMA SelfForward ==
  ASSUME ChainInv, Distinct, SelfKeepsLists, Forward,
         NEW p \in Libs, NEW q \in Libs, Kind[p] = "self", Before(p, q)
  PROVE  got'[q] = got[q] /\ it' # q
<1>1. /\ phase = "run" /\ it # Null /\ PutData(it) /\ ~Before(p, it)
      /\ loaded \in Seq(Libs) /\ Len(loaded) \in Nat /\ DOMAIN loaded = 1 .. Len(loaded)
      /\ got \in [Libs -> Nat] /\ it \in Libs /\ it # q /\ q # Null
  <2>1. TypeOK /\ phase = "run" /\ it # Null /\ PutData(it)
    BY DEF ChainInv, Forward
  <2>2. loaded \in Seq(Libs) /\ got \in [Libs -> Nat] /\ it \in Libs
    BY <2>1 DEF TypeOK
  <2> QED  BY <2>1, <2>2, ChainAssumption DEF SelfKeepsLists
<1>2. PICK k \in DOMAIN loaded : it = loaded[k]
  BY <1>1 DEF ChainInv, DataPos
<1>3. next[it] = LoadedAfter(k)
  BY <1>2 DEF ChainInv, ChainIsLoadOrder
<1>4. PICK i \in DOMAIN loaded, j \in DOMAIN loaded : i < j /\ loaded[i] = p /\ loaded[j] = q
  BY DEF Before
<1>5. ASSUME it' = q PROVE FALSE
  <2>1. it' = next[it] /\ next[it] # Null /\ Kind[it] # "self"
    BY <1>1, <1>5 DEF PutData
  <2>2. k # Len(loaded) /\ loaded[k + 1] = q /\ k + 1 \in DOMAIN loaded
    BY <1>1, <1>2, <1>3, <1>5, <2>1 DEF LoadedAfter
  <2>3. k + 1 = j
    BY <1>4, <2>2 DEF Distinct
  <2>4. i < k
    <3>1. i # k
      BY <1>2, <1>4, <2>1
    <3> QED  BY <1>1, <1>4, <2>3, <3>1
  <2> QED  BY <1>1, <1>2, <1>4, <2>4 DEF Before
<1> QED  BY <1>1, <1>5 DEF Forward

LEMMA SelfStep ==
  ASSUME ChainInv, ChainInv', SelfKeepsLists, [Next]_vars
  PROVE  SelfKeepsLists'
<1> SUFFICES ASSUME Distinct', NEW p \in Libs, NEW q \in Libs, Kind[p] = "self", Before(p, q)'
             PROVE  got'[q] = 0 /\ sent' <= 1 /\ (phase' = "run" => it' # q)
  BY DEF SelfKeepsLists
<1>1. CASE phase' \in {"load", "main", "init"}
  BY <1>1 DEF ChainInv, DataPos, WalkPos
<1>2. CASE phase' \notin {"load", "main", "init"}
  <2>1. loaded' = loaded
    BY <1>2 DEF Next, Walk, LoadLibrary, LoadFails, LoadPastEnd, EndLoad, Call, EndWalk, Produce,
       Forward, Signal, Clear, Gone, vars, history
  <2>2. Distinct /\ Before(p, q)
    BY <2>1 DEF Distinct, Before
  <2>3. got[q] = 0 /\ sent <= 1 /\ (phase = "run" => it # q)
    BY <2>2 DEF SelfKeepsLists
  <2>4. CASE Produce
    <3>1. /\ phase = "run" /\ it = Null /\ it' = head /\ sent' = sent + 1 /\ got' = got
      BY <2>4 DEF Produce
    <3>2. PICK i \in DOMAIN loaded, j \in DOMAIN loaded : i < j /\ loaded[i] = p /\ loaded[j] = q
      BY <2>2 DEF Before
    <3>3. got[q] = sent
      BY <2>2, <3>1, <3>2 DEF ChainInv, EveryPluginOnce
    <3>4. loaded \in Seq(Libs)
      BY DEF ChainInv, TypeOK
    <3>5. 1 \in DOMAIN loaded /\ j # 1 /\ head = loaded[1]
      BY <2>2, <3>1, <3>2, <3>4 DEF ChainInv, ChainIsLoadOrder, FirstLoaded
    <3> QED  BY <2>2, <2>3, <3>1, <3>2, <3>3, <3>5 DEF Distinct
  <2>5. CASE Forward
    BY <2>2, <2>3, <2>5, SelfForward DEF Forward
  <2>6. CASE EndWalk
    BY <2>3, <2>6, ChainAssumption DEF EndWalk, history, After, Walks
  <2>7. CASE UNCHANGED vars
    BY <2>3, <2>7 DEF vars, history
  <2>8. CASE LoadLibrary \/ LoadFails \/ LoadPastEnd \/ EndLoad \/ Call \/ Signal \/ Clear \/ Gone
    <3>1. UNCHANGED <<got, sent>> /\ phase' # "run"
      BY <1>2, <2>8 DEF LoadLibrary, LoadFails, LoadPastEnd, EndLoad, Call, Signal, Clear, Gone,
         Walks, history
    <3> QED  BY <2>3, <3>1
  <2> QED  BY <2>4, <2>5, <2>6, <2>7, <2>8 DEF Next, Walk
<1> QED  BY <1>1, <1>2

(* A plugin that calls its own put_data instead of its successor's, as MD5 does
   (md5-generator.cpp:72-73), holds the first list for ever: every plugin after it gets
   none, however many there are, and no second list is ever produced.        *)
THEOREM NothingPassesMd5 == Safety => []SelfKeepsLists
<1>1. Init => SelfKeepsLists
  BY DEF Init, SelfKeepsLists, Before
<1>2. ChainInv /\ ChainInv' /\ SelfKeepsLists /\ [Next]_vars => SelfKeepsLists'
  BY SelfStep
<1> QED  BY <1>1, <1>2, ChainInvariant, PTL DEF Safety
=============================================================================
