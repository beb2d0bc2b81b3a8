---------------------------- MODULE RecorderProofs ----------------------------
(* Proofs about the recorder, for any number of channels, slots, lists and
   swaps: what its slots and files are, what the files hold of what was put,
   and that what is closed stays as it is.                                   *)
EXTENDS Recorder, TLAPS

LEMMA ConstantsTyped ==
  /\ Channels \in Nat /\ Channels > 0 /\ Files \in Nat /\ Files > 0
  /\ MaxSize \in Nat /\ MaxSwaps \in Nat /\ Null \notin Nat
  /\ SwapModes \subseteq {"time", "size", "none"}
  BY RecorderAssumption

LEMMA SilentIsNoSignal == <<>> \notin Signals
<1>1. 1 \in Entries
  BY ConstantsTyped DEF Entries
<1>2. \A s \in Signals : 1 \in DOMAIN s
  BY <1>1 DEF Signals
<1> QED  BY <1>2

-----------------------------------------------------------------------------
(* What the operations do to the files, of which L bounds the lists written. *)
FileOf(L) ==
  [slot : Slots, lists : Seq(L), header : Nat, open : BOOLEAN, torn : BOOLEAN]

FilesOf(d, L) == \A u \in DOMAIN d : d[u] \in FileOf(L)

(* d2 is d1 with u closed, if it was open.                                   *)
Closes(d1, d2, u) ==
  \A v \in DOMAIN d1 :
    /\ d2[v].slot = d1[v].slot /\ d2[v].lists = d1[v].lists
    /\ v # u \/ ~d1[v].open => d2[v] = d1[v]
    /\ v = u => ~d2[v].open
    /\ v = u /\ d1[v].open =>
         d2[v].header = Len(d1[v].lists) /\ (d2[v].torn = (d1[v].torn \/ Sought(u)))

FieldsOf(S, Q) == [slot : S, lists : Q, header : Nat, open : BOOLEAN, torn : BOOLEAN]

LEMMA TornFields ==
  ASSUME NEW S, NEW Q, NEW r \in FieldsOf(S, Q)
  PROVE  LET f == [r EXCEPT !.torn = TRUE]
         IN /\ f.slot = r.slot /\ f.lists = r.lists /\ f.open = r.open
            /\ f.header = r.header /\ f \in FieldsOf(S, Q)
  BY DEF FieldsOf

LEMMA LongerFields ==
  ASSUME NEW S, NEW Q, NEW x \in Q, NEW r \in FieldsOf(S, Q)
  PROVE  LET f == [r EXCEPT !.lists = x]
         IN /\ f.slot = r.slot /\ f.lists = x /\ f.open = r.open
            /\ f.header = r.header /\ f.torn = r.torn /\ f \in FieldsOf(S, Q)
  BY DEF FieldsOf

LEMMA ClosedCloses ==
  ASSUME NEW L, NEW d, FilesOf(d, L), NEW u
  PROVE  /\ DOMAIN Closed(d, u) = DOMAIN d
         /\ Closes(d, Closed(d, u), u) /\ FilesOf(Closed(d, u), L)
<1>1. CASE u \in DOMAIN d /\ d[u].open
  <2> DEFINE r == d[u]
             t == r.torn \/ Sought(u)
             n == Len(r.lists)
             f == [r EXCEPT !.open = FALSE, !.header = n, !.torn = t]
             S == Slots
             Q == Seq(L)
  <2>1. r \in FieldsOf(S, Q) /\ n \in Nat /\ t \in BOOLEAN
    BY <1>1 DEF FilesOf, FileOf, FieldsOf, Sought
  <2>2. /\ f.slot = d[u].slot /\ f.lists = d[u].lists /\ f.open = FALSE
        /\ f.header = n /\ f.torn = t /\ f \in FieldsOf(S, Q)
    <3> HIDE DEF r, t, n, S, Q
    <3>1. /\ f.slot = r.slot /\ f.lists = r.lists /\ f.open = FALSE
          /\ f.header = n /\ f.torn = t /\ f \in FieldsOf(S, Q)
      BY <2>1 DEF FieldsOf
    <3> QED  BY <3>1 DEF r
  <2> DEFINE e == Closed(d, u)
  <2>3. DOMAIN e = DOMAIN d /\ \A v \in DOMAIN d : e[v] = IF v = u THEN f ELSE d[v]
    BY <1>1 DEF Closed
  <2> HIDE DEF f, e
  <2>4. FilesOf(e, L)
    BY <2>2, <2>3 DEF FilesOf, FileOf, FieldsOf
  <2>5. Closes(d, e, u)
    BY <1>1, <2>2, <2>3 DEF Closes
  <2> QED  BY <2>3, <2>4, <2>5 DEF e
<1>2. CASE ~(u \in DOMAIN d /\ d[u].open)
  <2>1. Closed(d, u) = d
    BY <1>2 DEF Closed
  <2>2. Closes(d, d, u)
    BY <1>2 DEF Closes
  <2> QED  BY <2>1, <2>2
<1> QED  BY <1>1, <1>2

LEMMA WithFileAdds ==
  ASSUME NEW L, NEW d, FilesOf(d, L), NEW u, NEW i \in Slots
  PROVE  /\ DOMAIN WithFile(d, u, i) = DOMAIN d \cup {u}
         /\ WithFile(d, u, i)[u] = File(i, u \in DOMAIN d)
         /\ \A v \in DOMAIN d \ {u} : WithFile(d, u, i)[v] = d[v]
         /\ FilesOf(WithFile(d, u, i), L)
<1>1. File(i, u \in DOMAIN d) \in FileOf(L)
  <2> DEFINE t == u \in DOMAIN d
  <2>1. t \in BOOLEAN
    OBVIOUS
  <2> HIDE DEF t
  <2>2. File(i, t) \in FileOf(L)
    BY <2>1 DEF File, FileOf
  <2> QED  BY <2>2 DEF t
<1>2. /\ DOMAIN WithFile(d, u, i) = DOMAIN d \cup {u}
      /\ WithFile(d, u, i)[u] = File(i, u \in DOMAIN d)
      /\ \A v \in DOMAIN d \ {u} : WithFile(d, u, i)[v] = d[v]
  BY DEF WithFile
<1> QED  BY <1>1, <1>2 DEF FilesOf

-----------------------------------------------------------------------------
(* Types.                                                                    *)
Lists == [id : Nat, signal : Signals \cup {<<>>}]

Loud(list) == list.signal # <<>>

QueuesOK ==
  /\ heard \in Seq(Signals) /\ buffer \in Seq(Lists) /\ dblBuff \in Seq(Lists)
  /\ \A k \in DOMAIN buffer : Loud(buffer[k]) => buffer[k].id \in DOMAIN heard
  /\ \A k \in DOMAIN dblBuff : Loud(dblBuff[k]) => dblBuff[k].id \in DOMAIN heard

ThreadOK ==
  /\ rec \in {"off", "take", "next", "poll", "entry", "close", "write", "sleep"}
  /\ rec = "poll" => slot \in Slots
  /\ rec # "poll" => slot \in 1 .. Channels + 1
  /\ rec \in {"close", "write"} => slot \in Entries /\ slot \in Slots
  /\ rec \in {"poll", "entry", "close", "write"} => dblBuff # <<>> /\ Loud(Head(dblBuff))
  /\ rec \in {"off", "take", "sleep"} => dblBuff = <<>>

FilesOK ==
  /\ UID \in Nat /\ UID >= Files
  /\ wavs \in [Slots -> (1 .. UID) \cup {Null}]
  /\ DOMAIN disk \subseteq Files + 1 .. UID
  /\ FilesOf(disk, DOMAIN heard)

Steps == {"look", "tell", "seek", "shut", "delete", "clear", "new", "open"}

Places == [slot : 1 .. Files + 1, step : Steps, uid : Nat, wav : Nat, len : Nat]

(* The timer's new UID is in no slot and names no file until it is used.     *)
PlaceOK ==
  /\ place \in Places
  /\ main = "swap" \/ place.step # "look" => place.slot \in Slots
  /\ place.step # "look" => main \in {"swap", "deinit"}
  /\ place.step \in {"seek", "shut"} => place.wav \in DOMAIN disk
  /\ place.step \in {"new", "open"} => main = "swap"
  /\ main = "swap" /\ place.step # "look" => place.uid \in Files + 1 .. UID
  /\ main = "swap" /\ place.step \notin {"look", "open"} =>
       place.uid \notin DOMAIN disk /\ \A j \in Slots : wavs[j] # place.uid
  /\ place.step = "open" => wavs[place.slot] \in Files + 1 .. UID

MainOK ==
  /\ mode \in SwapModes /\ running \in BOOLEAN /\ crashed \in BOOLEAN
  /\ main \in {"loop", "swap", "deinit", "down"} /\ swaps \in 0 .. MaxSwaps
  /\ main = "swap" => mode = "time"
  /\ fileless \subseteq Slots \X Nat

Typed == QueuesOK /\ ThreadOK /\ FilesOK /\ PlaceOK /\ MainOK

LEMMA TypedIsTypeOK == Typed => TypeOK
<1> SUFFICES ASSUME Typed PROVE TypeOK
  OBVIOUS
<1> USE ConstantsTyped DEF Typed
<1>1. /\ place.slot \in 1 .. Files + 1 /\ (main = "swap" => place.slot \in Slots)
      /\ place.step \in {"look", "tell", "seek", "shut", "delete", "clear", "new", "open"}
      /\ place.step \in {"seek", "shut"} => place.wav \in DOMAIN disk
      /\ place.step # "look" => place.slot \in Slots
  BY DEF PlaceOK, Places, Steps
<1>2. \A q \in {buffer, dblBuff} : q \in Seq([id : Nat, signal : Signals \cup {<<>>}])
  BY DEF QueuesOK, Lists
<1>3. slot \in 1 .. Channels + 1 \/ (rec = "poll" /\ slot \in Slots)
  BY DEF ThreadOK
<1>4. \A u \in DOMAIN disk :
        disk[u] \in [slot : Slots, lists : Seq(DOMAIN heard), header : Nat, open : BOOLEAN,
                     torn : BOOLEAN]
  BY DEF FilesOK, FilesOf, FileOf
<1>5. heard \in Seq(Signals)
  BY DEF QueuesOK
<1>6. UID \in Nat /\ wavs \in [Slots -> (1 .. UID) \cup {Null}]
      /\ DOMAIN disk \subseteq Files + 1 .. UID
  BY DEF FilesOK
<1>7. /\ rec \in {"off", "take", "next", "poll", "entry", "close", "write", "sleep"}
      /\ rec \in {"close", "write"} => slot \in Entries /\ dblBuff # <<>>
  BY DEF ThreadOK
<1>8. /\ mode \in SwapModes /\ running \in BOOLEAN /\ crashed \in BOOLEAN
      /\ main \in {"loop", "swap", "deinit", "down"} /\ swaps \in 0 .. MaxSwaps
      /\ fileless \subseteq Slots \X Nat
  BY DEF MainOK
<1> QED  BY ONLY <1>1, <1>2, <1>3, <1>4, <1>5, <1>6, <1>7, <1>8 DEF TypeOK

LEMMA LookAtIs ==
  ASSUME NEW i \in 1 .. Files + 1
  PROVE  LookAt(i) \in Places /\ LookAt(i).step = "look" /\ LookAt(i).slot = i
<1>1. 0 \in Nat /\ "look" \in Steps
  BY DEF Steps
<1> QED  BY <1>1 DEF LookAt, Place, Places

LEMMA TypedInit == Init => Typed
<1> SUFFICES ASSUME Init PROVE Typed
  OBVIOUS
<1> USE ConstantsTyped
<1>1. /\ buffer = <<>> /\ dblBuff = <<>> /\ heard = <<>> /\ disk = <<>> /\ UID = Files
      /\ wavs = [i \in Slots |-> i] /\ slot = 1 /\ place = LookAt(1) /\ main = "loop"
      /\ rec \in {"take", "off"} /\ mode \in SwapModes /\ running = TRUE /\ crashed = FALSE
      /\ swaps = 0 /\ fileless = {}
  BY DEF Init
<1>2. QueuesOK
  BY <1>1 DEF QueuesOK
<1>3. ThreadOK
  BY <1>1 DEF ThreadOK
<1>4. FilesOK
  <2>1. DOMAIN disk = {}
    BY <1>1
  <2>2. wavs \in [Slots -> (1 .. UID) \cup {Null}]
    BY <1>1 DEF Slots
  <2> QED  BY <1>1, <2>1, <2>2 DEF FilesOK, FilesOf
<1>5. PlaceOK
  <2>1. 1 \in 1 .. Files + 1
    OBVIOUS
  <2>2. LookAt(1) \in Places /\ LookAt(1).step = "look" /\ LookAt(1).slot = 1
    BY <2>1, LookAtIs
  <2> QED  BY <1>1, <2>2 DEF PlaceOK
<1>6. MainOK
  <2>1. swaps \in 0 .. MaxSwaps
    BY <1>1
  <2>2. main # "swap" /\ main \in {"loop", "swap", "deinit", "down"}
    BY <1>1
  <2> QED  BY <1>1, <2>1, <2>2, Zenon DEF MainOK
<1> QED  BY <1>2, <1>3, <1>4, <1>5, <1>6 DEF Typed

(* The operations on a slot.                                                 *)
LEMMA ReplaceIs ==
  ASSUME FilesOK, NEW i \in Slots, NEW n, Replace(i, n)
  PROVE  /\ UID' = UID + 1 /\ UID' \notin DOMAIN disk /\ UID' \in Nat
         /\ \A j \in Slots : wavs[j] # UID'
         /\ wavs' \in [Slots -> (1 .. UID') \cup {Null}]
         /\ wavs'[i] = UID' /\ \A j \in Slots \ {i} : wavs'[j] = wavs[j]
         /\ \/ /\ DOMAIN disk' = DOMAIN disk \cup {UID'} /\ disk'[UID'] = File(i, FALSE)
               /\ fileless' = fileless
            \/ DOMAIN disk' = DOMAIN disk /\ fileless' = fileless \cup {<<i, n>>}
         /\ Closes(disk, disk', wavs[i]) /\ FilesOf(disk', DOMAIN heard)
         /\ DOMAIN disk' \subseteq Files + 1 .. UID'
<1> USE ConstantsTyped
<1> DEFINE d == Closed(disk, wavs[i])
           L == DOMAIN heard
<1>1. /\ UID' = UID + 1 /\ UID \in Nat /\ DOMAIN disk \subseteq Files + 1 .. UID
      /\ UID >= Files
  BY DEF FilesOK, Replace
<1>2. UID' \notin DOMAIN disk /\ UID' \in Nat /\ UID' \in Files + 1 .. UID'
      /\ DOMAIN disk \subseteq Files + 1 .. UID'
  BY <1>1
<1>3. /\ wavs' = [wavs EXCEPT ![i] = UID']
      /\ \/ disk' = WithFile(d, UID', i) /\ fileless' = fileless
         \/ disk' = d /\ fileless' = fileless \cup {<<i, n>>}
  BY DEF Replace
<1>4. DOMAIN d = DOMAIN disk /\ Closes(disk, d, wavs[i]) /\ FilesOf(d, L)
  BY ClosedCloses DEF FilesOK
<1>5. wavs \in [Slots -> (1 .. UID) \cup {Null}]
  BY DEF FilesOK
<1>6. wavs' \in [Slots -> (1 .. UID') \cup {Null}]
      /\ wavs'[i] = UID' /\ \A j \in Slots \ {i} : wavs'[j] = wavs[j]
  BY <1>1, <1>3, <1>5
<1>7. \A j \in Slots : wavs[j] # UID'
  BY <1>1, <1>5
<1> HIDE DEF d, L
<1>8. PICK u : u = UID'
  OBVIOUS
<1>9. CASE disk' = WithFile(d, UID', i) /\ fileless' = fileless
  <2>1. disk' = WithFile(d, u, i) /\ u \notin DOMAIN d
    BY <1>2, <1>4, <1>8, <1>9
  <2>2. /\ DOMAIN WithFile(d, u, i) = DOMAIN d \cup {u}
        /\ WithFile(d, u, i)[u] = File(i, u \in DOMAIN d)
        /\ \A v \in DOMAIN d \ {u} : WithFile(d, u, i)[v] = d[v]
        /\ FilesOf(WithFile(d, u, i), L)
    BY <1>4, WithFileAdds
  <2>3. (u \in DOMAIN d) = FALSE
    BY <2>1
  <2>4. /\ DOMAIN disk' = DOMAIN disk \cup {u} /\ disk'[u] = File(i, FALSE)
        /\ \A v \in DOMAIN disk : disk'[v] = d[v]
        /\ FilesOf(disk', L)
    BY <1>4, <2>1, <2>2, <2>3
  <2>5. Closes(disk, disk', wavs[i])
    BY <1>4, <2>4 DEF Closes
  <2> QED  BY <1>1, <1>2, <1>6, <1>7, <1>8, <1>9, <2>4, <2>5 DEF L
<1>10. CASE disk' = d /\ fileless' = fileless \cup {<<i, n>>}
  BY <1>1, <1>2, <1>4, <1>6, <1>7, <1>10 DEF L
<1> QED  BY <1>3, <1>9, <1>10

LEMMA SilenceIs ==
  ASSUME FilesOK, NEW i \in Slots, Silence(i)
  PROVE  /\ UNCHANGED <<wavs, UID>> /\ DOMAIN disk' = DOMAIN disk
         /\ Closes(disk, disk', wavs[i]) /\ FilesOf(disk', DOMAIN heard)
  BY ClosedCloses DEF FilesOK, Silence

(* d2 is d1 with list n at the end of u, or with u torn.                     *)
Appends(d1, d2, u, n) ==
  /\ DOMAIN d2 = DOMAIN d1
  /\ \A v \in DOMAIN d1 :
       /\ v # u => d2[v] = d1[v]
       /\ v = u => /\ d2[v].slot = d1[v].slot /\ d2[v].open = d1[v].open
                   /\ d2[v].header = d1[v].header /\ d2[v].torn = d1[v].torn
                   /\ d2[v].lists = Append(d1[v].lists, n)

Tears(d1, d2, u) ==
  /\ DOMAIN d2 = DOMAIN d1
  /\ \A v \in DOMAIN d1 :
       /\ v # u => d2[v] = d1[v]
       /\ v = u => /\ d2[v].slot = d1[v].slot /\ d2[v].open = d1[v].open
                   /\ d2[v].header = d1[v].header /\ d2[v].lists = d1[v].lists

LEMMA TornTears ==
  ASSUME NEW L, NEW d, FilesOf(d, L), NEW u \in DOMAIN d
  PROVE  LET e == [d EXCEPT ![u].torn = TRUE]
         IN Tears(d, e, u) /\ FilesOf(e, L)
<1> DEFINE e == [d EXCEPT ![u].torn = TRUE]
           r == d[u]
           f == [r EXCEPT !.torn = TRUE]
           Q == Seq(L)
           S == Slots
<1>1. r \in FieldsOf(S, Q)
  BY DEF FilesOf, FileOf, FieldsOf
<1>2. DOMAIN e = DOMAIN d /\ \A v \in DOMAIN d : e[v] = IF v = u THEN f ELSE d[v]
  OBVIOUS
<1> HIDE DEF e, Q, S
<1>3. /\ f.slot = r.slot /\ f.lists = r.lists /\ f.open = r.open
      /\ f.header = r.header /\ f \in FileOf(L)
  BY <1>1, TornFields DEF FileOf, FieldsOf, Q, S
<1> HIDE DEF f
<1>4. Tears(d, e, u) /\ FilesOf(e, L)
  BY <1>2, <1>3 DEF Tears, FilesOf
<1> QED  BY <1>4 DEF e

LEMMA WriteIs ==
  ASSUME FilesOK, NEW i \in Slots, wavs[i] \in DOMAIN disk,
         NEW n \in DOMAIN heard, n = Head(dblBuff).id, WriteEntry(i)
  PROVE  /\ UNCHANGED <<wavs, UID>> /\ FilesOf(disk', DOMAIN heard)
         /\ \/ ~Sought(wavs[i]) /\ Appends(disk, disk', wavs[i], n)
            \/ Sought(wavs[i]) /\ Tears(disk, disk', wavs[i])
<1> DEFINE u == wavs[i]
           L == DOMAIN heard
           r == disk[u]
           f == [r EXCEPT !.lists = Append(@, n)]
           Q == Seq(L)
           S == Slots
<1>1. UNCHANGED <<wavs, UID>> /\ FilesOf(disk, L)
  BY DEF WriteEntry, FilesOK
<1>2. CASE Sought(u)
  <2>1. disk' = [disk EXCEPT ![u].torn = TRUE]
    BY <1>2 DEF WriteEntry
  <2> HIDE DEF u
  <2> QED  BY <1>1, <1>2, <2>1, TornTears DEF u
<1>3. CASE ~Sought(u)
  <2>1. disk' = [disk EXCEPT ![u] = f]
    BY <1>3 DEF WriteEntry
  <2>2. r \in FieldsOf(S, Q) /\ Append(r.lists, n) \in Q
    BY <1>1 DEF FilesOf, FileOf, FieldsOf
  <2> HIDE DEF Q, S, u, L
  <2>3. /\ f.slot = r.slot /\ f.lists = Append(r.lists, n) /\ f.open = r.open
        /\ f.header = r.header /\ f.torn = r.torn /\ f \in FieldsOf(S, Q)
    BY <2>2, LongerFields
  <2> HIDE DEF f
  <2>4. DOMAIN disk' = DOMAIN disk /\ \A v \in DOMAIN disk : disk'[v] = IF v = u THEN f ELSE disk[v]
    BY <1>1, <2>1
  <2>5. FilesOf(disk', L)
    BY <1>1, <2>3, <2>4 DEF FilesOf, FileOf, FieldsOf, Q, S
  <2>6. Appends(disk, disk', u, n)
    BY <2>3, <2>4 DEF Appends
  <2> QED  BY <1>1, <1>3, <2>5, <2>6 DEF u, L
<1> QED  BY <1>2, <1>3

-----------------------------------------------------------------------------
(* What a step does to the slots and to the files: nothing; what the thread
   does at a slot; what main does to a file that is there, the thread's torn
   write included; and main's three changes of a slot.                       *)
ReplacesAt(i) == wavs[i] # Null /\ \E n : Replace(i, n)

ClosesAt(i) ==
  DOMAIN disk' = DOMAIN disk /\ Closes(disk, disk', wavs[i]) /\ wavs' = wavs

WritesAt(i) ==
  /\ rec = "write" /\ rec' = "entry" /\ slot' = slot + 1 /\ slot = i
  /\ wavs' = wavs /\ Opened(wavs[i])
  /\ dblBuff # <<>> /\ Loud(Head(dblBuff)) /\ UNCHANGED <<buffer, dblBuff>>
  /\ Head(dblBuff).id \in DOMAIN heard
  /\ Appends(disk, disk', wavs[i], Head(dblBuff).id)

Marked ==
  /\ main \in {"swap", "deinit"} /\ wavs' = wavs /\ DOMAIN disk' = DOMAIN disk
  /\ \A v \in DOMAIN disk :
       /\ disk'[v].slot = disk[v].slot /\ disk'[v].lists = disk[v].lists
       /\ \/ (disk'[v].open <=> disk[v].open) /\ disk'[v].header = disk[v].header
          \/ /\ disk[v].open /\ ~disk'[v].open /\ disk'[v].header = place.len
             /\ place.step = "shut" /\ v = place.wav
       /\ \/ disk[v].open \/ disk'[v] = disk[v]
          \/ main = "swap" /\ place.step = "shut" /\ v = place.wav

ClearsAt(i) ==
  main \in {"swap", "deinit"} /\ wavs' = [wavs EXCEPT ![i] = Null] /\ disk' = disk

NewAt(i) ==
  /\ mode = "time" /\ disk' = disk
  /\ \E u \in Files + 1 .. UID : /\ u \notin DOMAIN disk /\ \A j \in Slots : wavs[j] # u
                                 /\ wavs' = [wavs EXCEPT ![i] = u]

OpensAt(i) ==
  /\ mode = "time" /\ main = "swap" /\ place.step = "open" /\ i = place.slot /\ wavs' = wavs
  /\ wavs[i] \in Files + 1 .. UID /\ disk' = WithFile(disk, wavs[i], i)

Effect ==
  \/ UNCHANGED <<wavs, disk>>
  \/ Marked
  \/ \E i \in Slots : \/ ReplacesAt(i) \/ ClosesAt(i) \/ WritesAt(i)
                      \/ ClearsAt(i) \/ NewAt(i) \/ OpensAt(i)

LEMMA TearsMarks ==
  ASSUME NEW u \in DOMAIN disk, Tears(disk, disk', u), wavs' = wavs,
         main \in {"swap", "deinit"},
         disk[u].open \/ (main = "swap" /\ place.step = "shut" /\ u = place.wav)
  PROVE  Marked
  BY DEF Tears, Marked

-----------------------------------------------------------------------------
(* Each step keeps the types, and has one of the effects.                    *)
LEMMA PlaceStays ==
  ASSUME Typed, UNCHANGED <<place, main>>, UID' \in Nat, UID' >= UID,
         DOMAIN disk \subseteq DOMAIN disk', DOMAIN disk' \subseteq DOMAIN disk \cup {UID + 1},
         \A j \in Slots : wavs'[j] = wavs[j] \/ (wavs'[j] = UID' /\ UID' = UID + 1)
  PROVE  PlaceOK'
<1> USE ConstantsTyped
<1>1. PlaceOK /\ UID \in Nat /\ UID >= Files
  BY DEF Typed, FilesOK
<1>2. main = "swap" /\ place.step # "look" =>
        place.uid \in Files + 1 .. UID' /\ place.uid # UID + 1
  BY <1>1 DEF PlaceOK
<1>3. main = "swap" /\ place.step \notin {"look", "open"} =>
        place.uid \notin DOMAIN disk' /\ \A j \in Slots : wavs'[j] # place.uid
  BY <1>1, <1>2 DEF PlaceOK
<1>4. place.step = "open" => wavs'[place.slot] \in Files + 1 .. UID'
  <2>1. CASE place.step = "open"
    <3>1. place.slot \in Slots /\ wavs[place.slot] \in Files + 1 .. UID
      BY <1>1, <2>1 DEF PlaceOK
    <3>2. CASE wavs'[place.slot] = wavs[place.slot]
      BY <1>1, <3>1, <3>2
    <3>3. CASE wavs'[place.slot] = UID' /\ UID' = UID + 1
      BY <1>1, <3>3
    <3> QED  BY <3>1, <3>2, <3>3
  <2> QED  BY <2>1
<1>5. /\ place' = place /\ main' = main
      /\ place.step \in {"seek", "shut"} => place.wav \in DOMAIN disk'
  BY <1>1 DEF PlaceOK
<1> QED  BY <1>1, <1>2, <1>3, <1>4, <1>5 DEF PlaceOK

LEMMA OthersStay ==
  ASSUME Typed, UNCHANGED mode
  PROVE  /\ UNCHANGED <<heard, buffer, dblBuff>> => QueuesOK'
         /\ UNCHANGED <<rec, slot, dblBuff>> => ThreadOK'
         /\ UNCHANGED <<heard, UID, wavs, disk>> => FilesOK'
         /\ UNCHANGED <<main, running, swaps, mode, fileless>> /\ crashed' \in BOOLEAN => MainOK'
         /\ UNCHANGED <<main, place, UID, wavs, disk>> => PlaceOK'
<1>1. UNCHANGED <<heard, buffer, dblBuff>> => QueuesOK'
  BY DEF Typed, QueuesOK, Loud
<1>2. UNCHANGED <<rec, slot, dblBuff>> => ThreadOK'
  BY DEF Typed, ThreadOK, Loud
<1>3. UNCHANGED <<heard, UID, wavs, disk>> => FilesOK'
  BY DEF Typed, FilesOK, FilesOf
<1>4. UNCHANGED <<main, running, swaps, mode, fileless>> /\ crashed' \in BOOLEAN => MainOK'
  BY DEF Typed, MainOK
<1>5. UNCHANGED <<main, place, UID, wavs, disk>> => PlaceOK'
  BY DEF Typed, PlaceOK
<1> QED  BY <1>1, <1>2, <1>3, <1>4, <1>5

LEMMA PutDataIs ==
  ASSUME Typed, PutData
  PROVE  /\ UNCHANGED <<running, rec, slot, dblBuff, main, place, swaps, wavs, UID, disk,
                        crashed, fileless>>
         /\ main = "loop"
         /\ \/ \E s \in Signals :
                 /\ buffer' = Append(buffer, [id |-> Len(heard) + 1, signal |-> s])
                 /\ heard' = Append(heard, s)
            \/ /\ buffer' = Append(buffer, [id |-> 0, signal |-> <<>>])
               /\ heard' = heard /\ buffer = <<>>
<1>1. Tried[mode] \subseteq Signals
  BY RecorderAssumption DEF Typed, MainOK
<1>2. UNCHANGED <<running, rec, slot, dblBuff, main, place, swaps, wavs, UID, disk, crashed,
                  fileless>> /\ main = "loop"
  BY DEF PutData, recorder, mainvars, waves
<1>3. \/ \E s \in Tried[mode] :
           /\ buffer' = Append(buffer, [id |-> Len(heard) + 1, signal |-> s])
           /\ heard' = Append(heard, s)
      \/ /\ buffer' = Append(buffer, [id |-> 0, signal |-> <<>>])
         /\ heard' = heard /\ buffer = <<>>
  BY DEF PutData
<1> QED  BY <1>1, <1>2, <1>3

LEMMA PutDataTyped == ASSUME Typed, PutData, UNCHANGED mode PROVE Typed' /\ Effect
<1> USE ConstantsTyped DEF Typed
<1>1. UNCHANGED <<running, rec, slot, dblBuff, main, place, swaps, wavs, UID, disk, crashed,
                  fileless>>
  BY PutDataIs
<1>2. heard \in Seq(Signals) /\ buffer \in Seq(Lists) /\ Len(heard) \in Nat
  BY DEF QueuesOK
<1>3. /\ \A k \in DOMAIN heard : k \in DOMAIN heard'
      /\ heard' \in Seq(Signals) /\ buffer' \in Seq(Lists)
  <2>1. ASSUME NEW s \in Signals,
               buffer' = Append(buffer, [id |-> Len(heard) + 1, signal |-> s]),
               heard' = Append(heard, s)
        PROVE  /\ \A k \in DOMAIN heard : k \in DOMAIN heard'
               /\ heard' \in Seq(Signals) /\ buffer' \in Seq(Lists)
    <3>1. [id |-> Len(heard) + 1, signal |-> s] \in Lists
      BY <1>2 DEF Lists
    <3> QED  BY <1>2, <2>1, <3>1
  <2>2. ASSUME buffer' = Append(buffer, [id |-> 0, signal |-> <<>>]), heard' = heard
        PROVE  /\ \A k \in DOMAIN heard : k \in DOMAIN heard'
               /\ heard' \in Seq(Signals) /\ buffer' \in Seq(Lists)
    <3>1. [id |-> 0, signal |-> <<>>] \in Lists
      BY DEF Lists
    <3> QED  BY <1>2, <2>2, <3>1
  <2> QED  BY <2>1, <2>2, PutDataIs
<1>4. \A k \in DOMAIN buffer' : Loud(buffer'[k]) => buffer'[k].id \in DOMAIN heard'
  <2>1. ASSUME NEW s \in Signals,
               buffer' = Append(buffer, [id |-> Len(heard) + 1, signal |-> s]),
               heard' = Append(heard, s), NEW k \in DOMAIN buffer', Loud(buffer'[k])
        PROVE  buffer'[k].id \in DOMAIN heard'
    <3>1. CASE k \in DOMAIN buffer
      BY <1>2, <1>3, <2>1, <3>1 DEF QueuesOK
    <3>2. CASE k = Len(buffer) + 1
      BY <1>2, <2>1, <3>2
    <3> QED  BY <1>2, <2>1, <3>1, <3>2
  <2>2. ASSUME buffer' = Append(buffer, [id |-> 0, signal |-> <<>>]), heard' = heard,
               NEW k \in DOMAIN buffer', Loud(buffer'[k])
        PROVE  buffer'[k].id \in DOMAIN heard'
    <3>1. CASE k \in DOMAIN buffer
      BY <1>2, <2>2, <3>1 DEF QueuesOK
    <3>2. CASE k = Len(buffer) + 1
      BY <1>2, <2>2, <3>2 DEF Loud
    <3> QED  BY <1>2, <2>2, <3>1, <3>2
  <2> QED  BY <2>1, <2>2, PutDataIs
<1>5. QueuesOK'
  <2>1. /\ dblBuff' \in Seq(Lists)
        /\ \A k \in DOMAIN dblBuff' : Loud(dblBuff'[k]) => dblBuff'[k].id \in DOMAIN heard'
    BY <1>1, <1>3 DEF QueuesOK
  <2> QED  BY ONLY <1>3, <1>4, <2>1 DEF QueuesOK
<1>6. FilesOK'
  <2>1. FilesOf(disk, DOMAIN heard')
    <3>1. \A q \in Seq(DOMAIN heard) : q \in Seq(DOMAIN heard')
      BY <1>3
    <3>2. FileOf(DOMAIN heard) \subseteq FileOf(DOMAIN heard')
      BY <3>1 DEF FileOf
    <3> QED  BY <3>2 DEF FilesOK, FilesOf
  <2> QED  BY <1>1, <2>1 DEF FilesOK, FilesOf
<1>7. PlaceOK' /\ ThreadOK' /\ MainOK'
  BY <1>1 DEF PlaceOK, ThreadOK, MainOK, Loud
<1> QED  BY <1>1, <1>5, <1>6, <1>7 DEF Effect

(* The main thread's other steps.                                            *)
LEMMA PlaceSlot ==
  ASSUME Typed
  PROVE  /\ place.slot \in 1 .. Files + 1 /\ place.slot \in Nat
         /\ main = "swap" \/ place.step # "look" => place.slot \in Slots
         /\ place \in Places
  BY ConstantsTyped DEF Typed, PlaceOK, Places

LEMMA LooksAgain ==
  ASSUME NEW i \in 1 .. Files + 1, place' = LookAt(i), main' = "swap" => i \in Slots
  PROVE  PlaceOK'
<1>1. place' \in Places /\ place'.step = "look" /\ place'.slot = i
  BY LookAtIs
<1> QED  BY <1>1 DEF PlaceOK

LEMMA NextPlaceIs ==
  ASSUME place.slot \in Slots, main \in {"swap", "deinit"}, NextPlace
  PROVE  PlaceOK' /\ (main' = main \/ (main = "swap" /\ main' = "loop"))
<1> USE ConstantsTyped
<1>1. place.slot \in 1 .. Files
  BY DEF Slots
<1>2. CASE main = "swap" /\ place.slot = Files
  <2>1. main' = "loop" /\ place' = LookAt(1) /\ 1 \in 1 .. Files + 1
    BY <1>1, <1>2 DEF NextPlace
  <2> QED  BY <1>2, <2>1, LooksAgain
<1>3. CASE ~(main = "swap" /\ place.slot = Files)
  <2> DEFINE i == place.slot + 1
  <2>1. main' = main /\ place' = LookAt(i) /\ i \in 1 .. Files + 1
        /\ (main' = "swap" => i \in Slots)
    BY <1>1, <1>3 DEF NextPlace, Slots
  <2> HIDE DEF i
  <2> QED  BY <2>1, LooksAgain
<1> QED  BY <1>2, <1>3

LEMMA NextMain ==
  ASSUME Typed, UNCHANGED <<mode, running, swaps, fileless>>, crashed' \in BOOLEAN,
         main' = main \/ main' = "loop"
  PROVE  MainOK'
  BY DEF Typed, MainOK

LEMMA MainTyped ==
  ASSUME Typed, UNCHANGED mode, Timeout \/ StopRecoder
  PROVE  Typed' /\ Effect
<1> USE ConstantsTyped
<1>1. UNCHANGED <<heard, buffer, dblBuff, rec, slot, wavs, UID, disk, crashed, fileless>>
  BY DEF Timeout, StopRecoder, sharedq, recorder, waves, history
<1>2. QueuesOK' /\ ThreadOK' /\ FilesOK'
  BY <1>1, OthersStay
<1>3. /\ mode \in SwapModes /\ running \in BOOLEAN /\ crashed \in BOOLEAN
      /\ swaps \in 0 .. MaxSwaps /\ fileless \subseteq Slots \X Nat
  BY DEF Typed, MainOK
<1>4. ASSUME Timeout PROVE MainOK' /\ PlaceOK'
  <2>1. swaps' \in 0 .. MaxSwaps /\ main' = "swap" /\ mode' = "time" /\ running' = running
        /\ place' = LookAt(1)
    BY <1>3, <1>4 DEF Timeout, sharedq
  <2>2. 1 \in 1 .. Files + 1 /\ 1 \in Slots
    BY DEF Slots
  <2>3. PlaceOK'
    BY <2>1, <2>2, LooksAgain
  <2> QED  BY <1>1, <1>3, <2>1, <2>3 DEF MainOK
<1>5. ASSUME StopRecoder PROVE MainOK' /\ PlaceOK'
  <2>1. main = "deinit" /\ place.slot \notin Slots /\ swaps' = swaps /\ main' = "down"
        /\ running' \in BOOLEAN /\ place' = place
    BY <1>5 DEF StopRecoder
  <2>2. place.step = "look" /\ place \in Places
    BY <2>1, PlaceSlot
  <2>3. PlaceOK'
    BY <2>1, <2>2 DEF PlaceOK
  <2> QED  BY <1>1, <1>3, <2>1, <2>3 DEF MainOK
<1> QED  BY <1>1, <1>2, <1>4, <1>5 DEF Typed, Effect

LEMMA DeinitTyped == ASSUME Typed, UNCHANGED mode, Deinit PROVE Typed' /\ Effect
<1> USE ConstantsTyped
<1>1. /\ UNCHANGED <<heard, buffer, running, dblBuff, rec, slot, swaps, wavs, UID, fileless>>
      /\ main \in {"loop", "swap"} /\ main' = "deinit" /\ place' = LookAt(1)
      /\ crashed' = (place.step = "clear")
  BY DEF Deinit, sharedq, recorder, history
<1>2. QueuesOK' /\ ThreadOK'
  BY <1>1, OthersStay
<1>3. PlaceOK'
  <2>1. 1 \in 1 .. Files + 1 /\ 1 \in Slots
    BY DEF Slots
  <2> QED  BY <1>1, <2>1, LooksAgain
<1>4. MainOK'
  <2>1. crashed' \in BOOLEAN
    BY <1>1
  <2> QED  BY <1>1, <2>1 DEF Typed, MainOK
<1>5. FilesOK' /\ Effect
  <2>1. CASE place.step = "shut"
    <3>1. main = "swap" /\ place.wav \in DOMAIN disk
      BY <1>1, <2>1 DEF Typed, PlaceOK
    <3>2. disk' = [disk EXCEPT ![place.wav].torn = TRUE]
      BY <2>1 DEF Deinit
    <3>3. FilesOf(disk, DOMAIN heard)
      BY DEF Typed, FilesOK
    <3>4. Tears(disk, disk', place.wav) /\ FilesOf(disk', DOMAIN heard)
      BY <3>1, <3>2, <3>3, TornTears
    <3>5. FilesOK'
      BY <1>1, <3>4 DEF Typed, FilesOK, Tears
    <3>6. Marked
      BY <1>1, <2>1, <3>1, <3>4, TearsMarks
    <3> QED  BY <3>5, <3>6 DEF Effect
  <2>2. CASE place.step # "shut"
    <3>1. disk' = disk
      BY <2>2 DEF Deinit
    <3> QED  BY <1>1, <3>1, OthersStay DEF Effect
  <2> QED  BY <2>1, <2>2
<1> QED  BY <1>2, <1>3, <1>4, <1>5 DEF Typed

LEMMA AtPlace ==
  ASSUME NEW i, NEW s, NEW u, NEW w, NEW n
  PROVE  /\ Place(i, s, u, w, n).slot = i /\ Place(i, s, u, w, n).step = s
         /\ Place(i, s, u, w, n).uid = u /\ Place(i, s, u, w, n).wav = w
         /\ Place(i, s, u, w, n).len = n
         /\ i \in 1 .. Files + 1 /\ s \in Steps /\ u \in Nat /\ w \in Nat /\ n \in Nat =>
              Place(i, s, u, w, n) \in Places
  BY DEF Place, Places

LEMMA LookTyped == ASSUME Typed, UNCHANGED mode, Look PROVE Typed' /\ Effect
<1> USE ConstantsTyped
<1>1. /\ main \in {"swap", "deinit"} /\ place.slot \in Slots
      /\ UNCHANGED <<heard, buffer, dblBuff, rec, slot, wavs, disk, running, swaps, crashed,
                     fileless>>
  BY DEF Look, sharedq, recorder, history
<1>2. QueuesOK' /\ ThreadOK'
  BY <1>1, OthersStay
<1>3. FilesOK /\ crashed \in BOOLEAN
  BY DEF Typed, MainOK
<1> DEFINE i == place.slot
<1>4. CASE /\ UID' = (IF main = "swap" THEN UID + 1 ELSE UID)
           /\ place' = Place(i, "tell", UID', 0, 0) /\ UNCHANGED main
  <2>1. UID \in Nat /\ UID' \in Nat /\ UID' >= UID /\ (main = "swap" => UID' = UID + 1)
        /\ UID >= Files
    BY <1>3, <1>4 DEF FilesOK
  <2>2. FilesOK'
    BY <1>1, <1>3, <2>1 DEF FilesOK
  <2>3. /\ place'.slot = i /\ place'.step = "tell" /\ place'.uid = UID' /\ place' \in Places
    <3>1. "tell" \in Steps /\ 0 \in Nat /\ i \in 1 .. Files + 1
      BY <1>1, PlaceSlot DEF Steps
    <3> QED  BY <1>4, <2>1, <3>1, AtPlace
  <2>4. main = "swap" => /\ UID' \notin DOMAIN disk' /\ \A j \in Slots : wavs'[j] # UID'
                         /\ UID' \in Files + 1 .. UID'
    BY <1>1, <1>3, <2>1 DEF FilesOK
  <2>5. PlaceOK'
    BY <1>1, <1>4, <2>3, <2>4 DEF PlaceOK
  <2>6. MainOK'
    BY <1>1, <1>3, <1>4, NextMain
  <2> QED  BY <1>1, <1>2, <2>2, <2>5, <2>6 DEF Typed, Effect
<1>5. CASE NextPlace /\ UNCHANGED UID
  <2>1. PlaceOK' /\ (main' = main \/ main' = "loop")
    BY <1>1, <1>5, NextPlaceIs
  <2>2. FilesOK' /\ MainOK'
    BY <1>1, <1>3, <1>5, <2>1, OthersStay, NextMain
  <2> QED  BY <1>1, <1>2, <2>1, <2>2 DEF Typed, Effect
<1> QED  BY <1>4, <1>5 DEF Look

LEMMA StepAt ==
  ASSUME place \in Places, NEW s \in Steps
  PROVE  LET p == [place EXCEPT !.step = s]
         IN /\ p \in Places /\ p.step = s /\ p.slot = place.slot /\ p.uid = place.uid
            /\ p.wav = place.wav /\ p.len = place.len
<1> DEFINE R == 1 .. Files + 1
<1>1. place \in [slot : R, step : Steps, uid : Nat, wav : Nat, len : Nat]
  BY DEF Places
<1> HIDE DEF R
<1>2. LET p == [place EXCEPT !.step = s]
      IN /\ p \in [slot : R, step : Steps, uid : Nat, wav : Nat, len : Nat]
         /\ p.step = s /\ p.slot = place.slot /\ p.uid = place.uid
         /\ p.wav = place.wav /\ p.len = place.len
  BY <1>1
<1> QED  BY <1>2 DEF Places, R

(* The next call at the slot.                                                *)
LEMMA MovesOn ==
  ASSUME Typed, main \in {"swap", "deinit"}, UNCHANGED <<main, wavs, UID>>,
         DOMAIN disk' = DOMAIN disk, place.step \notin {"look", "open"},
         place' \in Places, place'.slot = place.slot, place'.uid = place.uid,
         place'.step \in {"seek", "shut", "delete", "clear"},
         place'.step \in {"seek", "shut"} => place'.wav \in DOMAIN disk
  PROVE  PlaceOK'
  BY DEF Typed, PlaceOK

LEMMA CloseTellTyped == ASSUME Typed, UNCHANGED mode, CloseTell PROVE Typed' /\ Effect
<1> USE ConstantsTyped
<1>1. /\ place.step = "tell"
      /\ UNCHANGED <<heard, buffer, dblBuff, rec, slot, wavs, UID, disk, main, running, swaps,
                     crashed, fileless>>
  BY DEF CloseTell, sharedq, recorder, waves, history
<1>2. QueuesOK' /\ ThreadOK' /\ FilesOK'
  BY <1>1, OthersStay
<1>3. MainOK'
  BY <1>1, NextMain DEF Typed, MainOK
<1>4. /\ main \in {"swap", "deinit"} /\ place.slot \in Slots /\ place \in Places
      /\ place.uid \in Nat /\ place.slot \in 1 .. Files + 1
  BY <1>1, PlaceSlot DEF Typed, PlaceOK, Places
<1>5. "seek" \in Steps /\ "delete" \in Steps /\ 0 \in Nat
  BY DEF Steps
<1> DEFINE w == wavs[place.slot]
           n == Len(disk[w].lists)
<1>6. CASE Opened(w)
  <2>1. place' = Place(place.slot, "seek", place.uid, w, n)
    BY <1>1, <1>6 DEF CloseTell
  <2>2. w \in DOMAIN disk /\ w \in Nat /\ n \in Nat
    BY <1>6 DEF Opened, Typed, FilesOK, FilesOf, FileOf
  <2> HIDE DEF w, n
  <2>3. place' \in Places /\ place'.slot = place.slot /\ place'.uid = place.uid
        /\ place'.step = "seek" /\ place'.wav = w
    BY <1>4, <1>5, <2>1, <2>2, AtPlace
  <2>4. PlaceOK'
    BY <1>1, <1>4, <2>2, <2>3, MovesOn
  <2> QED  BY <1>1, <1>2, <1>3, <2>4 DEF Typed, Effect
<1>7. CASE ~Opened(w)
  <2>1. place' = Place(place.slot, "delete", place.uid, 0, 0)
    BY <1>1, <1>7 DEF CloseTell
  <2>2. place' \in Places /\ place'.slot = place.slot /\ place'.uid = place.uid
        /\ place'.step = "delete"
    BY <1>4, <1>5, <2>1, AtPlace
  <2>3. PlaceOK'
    BY <1>1, <1>4, <2>2, MovesOn
  <2> QED  BY <1>1, <1>2, <1>3, <2>3 DEF Typed, Effect
<1> QED  BY <1>6, <1>7

LEMMA CloseSeekTyped == ASSUME Typed, UNCHANGED mode, CloseSeek PROVE Typed' /\ Effect
<1> USE ConstantsTyped
<1>1. /\ place.step = "seek" /\ crashed' = Gone /\ place' = [place EXCEPT !.step = "shut"]
      /\ UNCHANGED <<heard, buffer, dblBuff, rec, slot, wavs, UID, disk, main, running, swaps,
                     fileless>>
  BY DEF CloseSeek, sharedq, recorder, waves, history
<1>2. QueuesOK' /\ ThreadOK' /\ FilesOK'
  BY <1>1, OthersStay
<1>3. crashed' \in BOOLEAN
  BY <1>1 DEF Gone
<1>4. MainOK'
  BY <1>1, <1>3, NextMain
<1>5. main \in {"swap", "deinit"} /\ place \in Places /\ place.wav \in DOMAIN disk
  BY <1>1 DEF Typed, PlaceOK
<1>6. "shut" \in Steps
  BY DEF Steps
<1>7. place' \in Places /\ place'.slot = place.slot /\ place'.uid = place.uid
      /\ place'.step = "shut" /\ place'.wav = place.wav
  BY <1>1, <1>5, <1>6, StepAt
<1>8. PlaceOK'
  BY <1>1, <1>5, <1>7, MovesOn
<1> QED  BY <1>1, <1>2, <1>4, <1>8 DEF Typed, Effect

LEMMA CloseShutTyped == ASSUME Typed, UNCHANGED mode, CloseShut PROVE Typed' /\ Effect
<1> USE ConstantsTyped
<1>1. /\ place.step = "shut" /\ crashed' = Gone
      /\ place' = Place(place.slot, "delete", place.uid, 0, 0)
      /\ UNCHANGED <<heard, buffer, dblBuff, rec, slot, wavs, UID, main, running, swaps, fileless>>
  BY DEF CloseShut, sharedq, recorder, history
<1>2. QueuesOK' /\ ThreadOK'
  BY <1>1, OthersStay
<1>3. crashed' \in BOOLEAN
  BY <1>1 DEF Gone
<1>4. MainOK'
  BY <1>1, <1>3, NextMain
<1>5. /\ main \in {"swap", "deinit"} /\ place \in Places /\ place.wav \in DOMAIN disk
      /\ place.slot \in Slots /\ place.slot \in 1 .. Files + 1
      /\ place.uid \in Nat /\ place.len \in Nat
  BY <1>1, PlaceSlot DEF Typed, PlaceOK, Places
<1>6. "delete" \in Steps /\ 0 \in Nat
  BY DEF Steps
<1>7. place' \in Places /\ place'.slot = place.slot /\ place'.uid = place.uid
      /\ place'.step = "delete"
  BY <1>1, <1>5, <1>6, AtPlace
<1>8. FilesOf(disk, DOMAIN heard)
  BY DEF Typed, FilesOK
<1>9. CASE Gone
  <2>1. disk' = disk
    BY <1>9 DEF CloseShut
  <2>2. FilesOK' /\ PlaceOK'
    BY <1>1, <1>5, <1>7, <2>1, OthersStay, MovesOn
  <2> QED  BY <1>1, <1>2, <1>4, <2>1, <2>2 DEF Typed, Effect
<1>10. CASE ~Gone
  <2> DEFINE u == place.wav
             r == disk[u]
             n == place.len
             f == [r EXCEPT !.open = FALSE, !.header = n]
             S == Slots
             Q == Seq(DOMAIN heard)
  <2>1. disk[u].open /\ u \in DOMAIN disk
    BY <1>10 DEF Gone, Opened
  <2>2. r \in FieldsOf(S, Q) /\ n \in Nat
    BY <1>5, <1>8 DEF FilesOf, FileOf, FieldsOf
  <2>3. DOMAIN disk' = DOMAIN disk /\ \A v \in DOMAIN disk : disk'[v] = IF v = u THEN f ELSE disk[v]
    <3>1. disk' = [disk EXCEPT ![u].open = FALSE, ![u].header = n]
      BY <1>10 DEF CloseShut
    <3> QED  BY <2>1, <3>1
  <2>4. /\ f.slot = r.slot /\ f.lists = r.lists /\ f.open = FALSE /\ f.header = n
        /\ f \in FieldsOf(S, Q)
    <3> HIDE DEF r, n, S, Q
    <3> QED  BY <2>2 DEF FieldsOf
  <2> HIDE DEF f
  <2>5. FilesOf(disk', DOMAIN heard)
    BY <1>8, <2>3, <2>4 DEF FilesOf, FileOf, FieldsOf
  <2>6. FilesOK'
    BY <1>1, <2>3, <2>5 DEF Typed, FilesOK
  <2>7. PlaceOK'
    BY <1>1, <1>5, <1>7, <2>3, MovesOn
  <2>8. Marked
    BY <1>1, <1>5, <2>1, <2>3, <2>4 DEF Marked
  <2> QED  BY <1>2, <1>4, <2>6, <2>7, <2>8 DEF Typed, Effect
<1> QED  BY <1>9, <1>10

LEMMA DeleteWavTyped == ASSUME Typed, UNCHANGED mode, DeleteWav PROVE Typed' /\ Effect
<1> USE ConstantsTyped
<1>1. /\ place.step = "delete" /\ place' = [place EXCEPT !.step = "clear"]
      /\ UNCHANGED <<heard, buffer, dblBuff, rec, slot, wavs, UID, disk, main, running, swaps,
                     crashed, fileless>>
  BY DEF DeleteWav, sharedq, recorder, waves, history
<1>2. QueuesOK' /\ ThreadOK' /\ FilesOK'
  BY <1>1, OthersStay
<1>3. MainOK'
  BY <1>1, NextMain DEF Typed, MainOK
<1>4. main \in {"swap", "deinit"} /\ place \in Places
  BY <1>1 DEF Typed, PlaceOK
<1>5. "clear" \in Steps
  BY DEF Steps
<1>6. place' \in Places /\ place'.slot = place.slot /\ place'.uid = place.uid
      /\ place'.step = "clear"
  BY <1>1, <1>4, <1>5, StepAt
<1>7. PlaceOK'
  BY <1>1, <1>4, <1>6, MovesOn
<1> QED  BY <1>1, <1>2, <1>3, <1>7 DEF Typed, Effect

LEMMA ClearSlotTyped == ASSUME Typed, UNCHANGED mode, ClearSlot PROVE Typed' /\ Effect
<1> USE ConstantsTyped
<1> DEFINE i == place.slot
<1>1. /\ place.step = "clear" /\ wavs' = [wavs EXCEPT ![i] = Null]
      /\ UNCHANGED <<heard, buffer, dblBuff, rec, slot, UID, disk, running, swaps, crashed,
                     fileless>>
  BY DEF ClearSlot, sharedq, recorder, history
<1>2. QueuesOK' /\ ThreadOK'
  BY <1>1, OthersStay
<1>3. main \in {"swap", "deinit"} /\ place \in Places /\ i \in Slots
  BY <1>1, PlaceSlot DEF Typed, PlaceOK
<1>4. wavs \in [Slots -> (1 .. UID) \cup {Null}] /\ FilesOK /\ UID \in Nat
  BY DEF Typed, FilesOK
<1>5. wavs' \in [Slots -> (1 .. UID) \cup {Null}]
      /\ \A j \in Slots : wavs'[j] = wavs[j] \/ wavs'[j] = Null
  BY <1>1, <1>4
<1>6. FilesOK'
  BY <1>1, <1>4, <1>5 DEF FilesOK
<1>7. Effect
  BY <1>1, <1>3 DEF Effect, ClearsAt
<1>8. CASE main = "swap" /\ place' = [place EXCEPT !.step = "new"] /\ main' = main
  <2>1. "new" \in Steps
    BY DEF Steps
  <2>2. place' \in Places /\ place'.slot = i /\ place'.uid = place.uid /\ place'.step = "new"
    BY <1>3, <1>8, <2>1, StepAt
  <2>3. /\ place.uid \in Files + 1 .. UID /\ place.uid \notin DOMAIN disk
        /\ \A j \in Slots : wavs[j] # place.uid
    BY <1>1, <1>8 DEF Typed, PlaceOK
  <2>4. \A j \in Slots : wavs'[j] # place.uid
    BY <1>4, <1>5, <2>3
  <2>5. PlaceOK'
    BY <1>1, <1>3, <1>8, <2>2, <2>3, <2>4 DEF PlaceOK
  <2>6. MainOK'
    BY <1>1, <1>8, NextMain DEF Typed, MainOK
  <2> QED  BY <1>2, <1>6, <1>7, <2>5, <2>6 DEF Typed
<1>9. CASE main # "swap" /\ NextPlace
  <2>1. PlaceOK' /\ (main' = main \/ main' = "loop")
    BY <1>3, <1>9, NextPlaceIs
  <2>2. MainOK'
    BY <1>1, <2>1, NextMain DEF Typed, MainOK
  <2> QED  BY <1>2, <1>6, <1>7, <2>1, <2>2 DEF Typed
<1> QED  BY <1>8, <1>9 DEF ClearSlot

LEMMA SwapNewTyped == ASSUME Typed, UNCHANGED mode, SwapNew PROVE Typed' /\ Effect
<1> USE ConstantsTyped
<1> DEFINE i == place.slot
<1>1. /\ place.step = "new" /\ wavs' = [wavs EXCEPT ![i] = place.uid]
      /\ place' = [place EXCEPT !.step = "open"]
      /\ UNCHANGED <<heard, buffer, dblBuff, rec, slot, UID, disk, main, running, swaps, crashed,
                     fileless>>
  BY DEF SwapNew, sharedq, recorder, history
<1>2. QueuesOK' /\ ThreadOK'
  BY <1>1, OthersStay
<1>3. MainOK'
  BY <1>1, NextMain DEF Typed, MainOK
<1>4. /\ main = "swap" /\ mode = "time" /\ place \in Places /\ i \in Slots
      /\ place.uid \in Files + 1 .. UID /\ place.uid \notin DOMAIN disk
      /\ \A j \in Slots : wavs[j] # place.uid
  BY <1>1, PlaceSlot DEF Typed, PlaceOK, MainOK
<1>5. wavs \in [Slots -> (1 .. UID) \cup {Null}] /\ FilesOK /\ UID \in Nat
  BY DEF Typed, FilesOK
<1>6. place.uid \in 1 .. UID
  BY <1>4, <1>5
<1>7. wavs' \in [Slots -> (1 .. UID) \cup {Null}] /\ wavs'[i] = place.uid
  BY <1>1, <1>4, <1>5, <1>6
<1>8. FilesOK'
  BY <1>1, <1>5, <1>7 DEF FilesOK
<1>9. Effect
  BY <1>1, <1>4 DEF Effect, NewAt
<1>10. PlaceOK'
  <2>1. "open" \in Steps
    BY DEF Steps
  <2>2. place' \in Places /\ place'.slot = i /\ place'.uid = place.uid /\ place'.step = "open"
    BY <1>1, <1>4, <2>1, StepAt
  <2> QED  BY <1>1, <1>4, <1>7, <2>2 DEF PlaceOK
<1> QED  BY <1>2, <1>3, <1>8, <1>9, <1>10 DEF Typed

LEMMA SwapOpenTyped == ASSUME Typed, UNCHANGED mode, SwapOpen PROVE Typed' /\ Effect
<1> USE ConstantsTyped
<1> DEFINE i == place.slot
           w == wavs[i]
<1>1. /\ place.step = "open" /\ NextPlace
      /\ UNCHANGED <<heard, buffer, dblBuff, rec, slot, wavs, UID, running, swaps, fileless>>
      /\ \/ disk' = WithFile(disk, w, i) /\ crashed' = crashed
         \/ crashed' = Opened(w) /\ disk' = disk
  BY DEF SwapOpen, sharedq, recorder, history
<1>2. QueuesOK' /\ ThreadOK'
  BY <1>1, OthersStay
<1>3. main = "swap" /\ mode = "time" /\ i \in Slots /\ w \in Files + 1 .. UID
  BY <1>1, PlaceSlot DEF Typed, PlaceOK, MainOK
<1>4. PlaceOK' /\ (main' = main \/ main' = "loop")
  BY <1>1, <1>3, NextPlaceIs
<1>5. crashed' \in BOOLEAN
  BY <1>1 DEF Opened, Typed, MainOK, FilesOK, FilesOf, FileOf
<1>6. MainOK'
  BY <1>1, <1>4, <1>5, NextMain
<1>7. CASE disk' = disk
  BY <1>1, <1>2, <1>4, <1>6, <1>7, OthersStay DEF Typed, Effect
<1>8. CASE disk' = WithFile(disk, w, i)
  <2> DEFINE L == DOMAIN heard
  <2>1. FilesOf(disk, L)
    BY DEF Typed, FilesOK
  <2> HIDE DEF i, w, L
  <2>2. DOMAIN disk' = DOMAIN disk \cup {w} /\ FilesOf(disk', L)
    <3>1. DOMAIN WithFile(disk, w, i) = DOMAIN disk \cup {w} /\ FilesOf(WithFile(disk, w, i), L)
      BY <1>3, <2>1, WithFileAdds
    <3> QED  BY <1>8, <3>1
  <2>3. FilesOK'
    BY <1>1, <1>3, <2>2 DEF Typed, FilesOK, L
  <2>4. OpensAt(i)
    BY <1>1, <1>3, <1>8 DEF OpensAt, i, w
  <2> QED  BY <1>2, <1>3, <1>4, <1>6, <2>3, <2>4 DEF Typed, Effect
<1> QED  BY <1>1, <1>7, <1>8

(* The thread's steps.                                                       *)
LEMMA TailIs ==
  ASSUME NEW S, NEW d \in Seq(S), d # <<>>
  PROVE  /\ Tail(d) \in Seq(S) /\ Len(Tail(d)) = Len(d) - 1 /\ Head(d) = d[1] /\ 1 \in DOMAIN d
         /\ \A k \in DOMAIN Tail(d) : k + 1 \in DOMAIN d /\ Tail(d)[k] = d[k + 1] /\ k + 1 > 1
  OBVIOUS

LEMMA TailQueue ==
  ASSUME Typed, dblBuff # <<>>, dblBuff' = Tail(dblBuff), UNCHANGED <<heard, buffer>>
  PROVE  QueuesOK'
<1>1. dblBuff \in Seq(Lists)
  BY DEF Typed, QueuesOK
<1>2. /\ Tail(dblBuff) \in Seq(Lists)
      /\ \A k \in DOMAIN Tail(dblBuff) :
           k + 1 \in DOMAIN dblBuff /\ Tail(dblBuff)[k] = dblBuff[k + 1]
  BY <1>1, TailIs
<1> QED  BY <1>2 DEF Typed, QueuesOK

LEMMA TakeTyped == ASSUME Typed, UNCHANGED mode, Take PROVE Typed' /\ Effect
<1> USE ConstantsTyped
<1>1. /\ rec = "take" /\ rec' = "next" /\ dblBuff' = dblBuff \o buffer /\ buffer' = <<>>
      /\ UNCHANGED <<running, slot, main, place, swaps, wavs, UID, disk, crashed, heard, fileless>>
  BY DEF Take, TakeAll, mainvars, waves, history
<1>2. dblBuff = <<>> /\ buffer \in Seq(Lists)
  BY <1>1 DEF Typed, ThreadOK, QueuesOK
<1>3. dblBuff' = buffer
  BY <1>1, <1>2
<1>4. QueuesOK'
  BY <1>1, <1>3 DEF Typed, QueuesOK
<1>5. ThreadOK'
  BY <1>1 DEF Typed, ThreadOK
<1>6. FilesOK' /\ PlaceOK' /\ MainOK'
  BY <1>1, OthersStay DEF Typed, MainOK
<1> QED  BY <1>1, <1>4, <1>5, <1>6 DEF Typed, Effect

LEMMA RecordListIs ==
  ASSUME Typed, RecordList
  PROVE  /\ rec = "next" /\ slot' = 1
         /\ UNCHANGED <<buffer, running, main, place, swaps, wavs, UID, disk, crashed, heard,
                        fileless>>
         /\ \/ dblBuff = <<>> /\ rec' = "sleep" /\ UNCHANGED dblBuff
            \/ /\ dblBuff # <<>> /\ dblBuff' = Tail(dblBuff) /\ rec' = "next"
               /\ ~Loud(Head(dblBuff))
            \/ /\ dblBuff # <<>> /\ UNCHANGED dblBuff /\ Loud(Head(dblBuff))
               /\ rec' = IF mode = "size" THEN "poll" ELSE "entry"
  BY DEF RecordList, sharedq, mainvars, waves, Loud, history

LEMMA RecordListTyped == ASSUME Typed, UNCHANGED mode, RecordList PROVE Typed' /\ Effect
<1> USE ConstantsTyped
<1>1. /\ rec = "next" /\ slot' = 1
      /\ UNCHANGED <<buffer, running, main, place, swaps, wavs, UID, disk, crashed, heard,
                     fileless>>
      /\ \/ dblBuff = <<>> /\ rec' = "sleep" /\ UNCHANGED dblBuff
         \/ /\ dblBuff # <<>> /\ dblBuff' = Tail(dblBuff) /\ rec' = "next"
         \/ /\ dblBuff # <<>> /\ UNCHANGED dblBuff /\ Loud(Head(dblBuff))
            /\ rec' = IF mode = "size" THEN "poll" ELSE "entry"
  BY RecordListIs
<1>2. FilesOK' /\ PlaceOK' /\ MainOK'
  BY <1>1, OthersStay DEF Typed, MainOK
<1>3. QueuesOK'
  BY <1>1, TailQueue, OthersStay
<1>4. ThreadOK'
  <2>1. 1 \in Slots /\ 1 \in 1 .. Channels + 1
    BY DEF Slots
  <2> QED  BY <1>1, <2>1 DEF ThreadOK
<1> QED  BY <1>1, <1>2, <1>3, <1>4 DEF Typed, Effect

(* In the loop, main is at no slot.                                          *)
LEMMA LoopIsCalm ==
  ASSUME Typed, main = "loop", NEW i
  PROVE  /\ ~Freed(i) /\ ~Busy(i) /\ ~Sought(i) /\ place.step = "look"
         /\ Missing(i) <=> At(i) = Null
<1>1. place.step = "look"
  BY DEF Typed, PlaceOK
<1> QED  BY <1>1 DEF Freed, Busy, Sought, Missing

LEMMA HeadIsHeard ==
  ASSUME Typed, dblBuff # <<>>, Loud(Head(dblBuff))
  PROVE  Head(dblBuff).id \in DOMAIN heard /\ Head(dblBuff).id \in Nat
<1>1. 1 \in DOMAIN dblBuff /\ Head(dblBuff) = dblBuff[1]
  BY DEF Typed, QueuesOK
<1>2. DOMAIN heard \subseteq Nat
  BY DEF Typed, QueuesOK
<1> QED  BY <1>1, <1>2 DEF Typed, QueuesOK

LEMMA PollHotSwapIs ==
  ASSUME Typed, PollHotSwap
  PROVE  /\ rec = "poll" /\ slot \in Slots /\ slot \in Nat
         /\ dblBuff # <<>> /\ Loud(Head(dblBuff))
         /\ UNCHANGED <<buffer, running, dblBuff, main, place, swaps, heard>>
         /\ crashed' \in BOOLEAN /\ (main = "loop" => crashed' = FALSE)
         /\ \/ rec' = "entry" /\ slot' = 1 /\ slot = Files
            \/ rec' = "poll" /\ slot' = slot + 1 /\ slot + 1 \in Slots
         /\ \/ /\ Replace(slot, Head(dblBuff).id) /\ ReplacesAt(slot)
               /\ Opened(wavs[slot])
            \/ /\ UNCHANGED <<wavs, UID, disk, fileless>>
               /\ Opened(wavs[slot]) /\ ~crashed' => Len(disk[wavs[slot]].lists) <= MaxSize
<1> USE ConstantsTyped
<1>1. rec = "poll" /\ slot \in Slots /\ slot \in Nat /\ dblBuff # <<>> /\ Loud(Head(dblBuff))
  BY DEF PollHotSwap, Typed, ThreadOK, Slots
<1>2. UNCHANGED <<buffer, running, dblBuff, main, place, swaps, heard>>
  BY DEF PollHotSwap, sharedq, mainvars
<1>3. \/ rec' = "entry" /\ slot' = 1 /\ slot = Files
      \/ rec' = "poll" /\ slot' = slot + 1 /\ slot + 1 \in Slots
  BY <1>1 DEF PollHotSwap, Slots
<1>4. main = "loop" => ~Freed(slot) /\ ~Busy(slot)
  BY LoopIsCalm
<1>5. Freed(slot) \in BOOLEAN /\ Busy(slot) \in BOOLEAN
  BY DEF Freed, Busy
<1>6. CASE /\ Oversized(slot) /\ ~Freed(slot)
           /\ Replace(slot, Head(dblBuff).id) /\ crashed' \in {FALSE, Busy(slot)}
  <2>1. wavs[slot] # Null /\ Opened(wavs[slot])
    BY <1>6 DEF Oversized
  <2>2. crashed' \in BOOLEAN /\ (main = "loop" => crashed' = FALSE)
    BY <1>4, <1>5, <1>6
  <2> QED  BY <1>1, <1>2, <1>3, <1>6, <2>1, <2>2 DEF ReplacesAt
<1>7. CASE /\ ~Oversized(slot) \/ Freed(slot)
           /\ crashed' = Freed(slot) /\ UNCHANGED <<waves, fileless>>
  <2>1. UNCHANGED <<wavs, UID, disk, fileless>>
    BY <1>7 DEF waves
  <2>2. crashed' \in BOOLEAN /\ (main = "loop" => crashed' = FALSE)
    BY <1>4, <1>5, <1>7
  <2>3. ASSUME Opened(wavs[slot]), ~crashed' PROVE Len(disk[wavs[slot]].lists) <= MaxSize
    <3> DEFINE u == wavs[slot]
    <3>1. u \in DOMAIN disk /\ DOMAIN disk \subseteq Nat /\ disk[u] \in FileOf(DOMAIN heard)
      BY <2>3 DEF Opened, Typed, FilesOK, FilesOf
    <3>2. Len(disk[u].lists) \in Nat
      BY <3>1 DEF FileOf
    <3>3. ~TooBig(u)
      BY <1>7, <2>3, <3>1 DEF Oversized
    <3> QED  BY <3>2, <3>3 DEF TooBig
  <2> QED  BY <1>1, <1>2, <1>3, <2>1, <2>2, <2>3
<1> QED  BY <1>6, <1>7 DEF PollHotSwap

LEMMA ReplaceTyped ==
  ASSUME Typed, NEW i \in Slots, NEW n \in Nat, Replace(i, n), UNCHANGED <<heard, place, main>>
  PROVE  FilesOK' /\ PlaceOK' /\ fileless' \subseteq Slots \X Nat
<1>1. /\ UID' = UID + 1 /\ UID' \in Nat
      /\ wavs' \in [Slots -> (1 .. UID') \cup {Null}]
      /\ wavs'[i] = UID' /\ \A j \in Slots \ {i} : wavs'[j] = wavs[j]
      /\ DOMAIN disk' = DOMAIN disk \cup {UID'} \/ DOMAIN disk' = DOMAIN disk
      /\ fileless' = fileless \/ fileless' = fileless \cup {<<i, n>>}
      /\ FilesOf(disk', DOMAIN heard)
      /\ DOMAIN disk' \subseteq Files + 1 .. UID'
  BY ReplaceIs DEF Typed
<1>2. UID \in Nat /\ UID >= Files
  BY DEF Typed, FilesOK
<1>3. FilesOK'
  <2>1. FilesOf(disk', DOMAIN heard')
    BY <1>1
  <2>2. UID' >= Files
    BY <1>1, <1>2, ConstantsTyped
  <2> QED  BY <1>1, <2>1, <2>2 DEF FilesOK
<1>4. PlaceOK'
  <2>1. DOMAIN disk' \subseteq DOMAIN disk \cup {UID + 1} /\ UID' >= UID
        /\ DOMAIN disk \subseteq DOMAIN disk'
        /\ \A j \in Slots : wavs'[j] = wavs[j] \/ (wavs'[j] = UID' /\ UID' = UID + 1)
    BY <1>1, <1>2
  <2> QED  BY <1>1, <1>2, <2>1, PlaceStays
<1>5. fileless' \subseteq Slots \X Nat
  BY <1>1 DEF Typed, MainOK
<1> QED  BY <1>3, <1>4, <1>5

LEMMA PollHotSwapTyped == ASSUME Typed, UNCHANGED mode, PollHotSwap PROVE Typed' /\ Effect
<1> USE ConstantsTyped
<1>1. /\ rec = "poll" /\ slot \in Slots /\ slot \in Nat
      /\ dblBuff # <<>> /\ Loud(Head(dblBuff))
      /\ UNCHANGED <<buffer, running, dblBuff, main, place, swaps, heard>>
      /\ crashed' \in BOOLEAN
      /\ \/ rec' = "entry" /\ slot' = 1
         \/ rec' = "poll" /\ slot' = slot + 1 /\ slot + 1 \in Slots
      /\ \/ Replace(slot, Head(dblBuff).id) /\ ReplacesAt(slot)
         \/ UNCHANGED <<wavs, UID, disk, fileless>>
  BY PollHotSwapIs
<1>2. QueuesOK'
  BY <1>1, OthersStay
<1>3. ThreadOK'
  BY <1>1 DEF Typed, ThreadOK
<1>4. FilesOK' /\ PlaceOK' /\ fileless' \subseteq Slots \X Nat
  <2>1. Head(dblBuff).id \in Nat
    BY <1>1, HeadIsHeard
  <2>2. CASE Replace(slot, Head(dblBuff).id)
    BY <1>1, <2>1, <2>2, ReplaceTyped
  <2>3. CASE UNCHANGED <<wavs, UID, disk, fileless>>
    BY <1>1, <2>3, OthersStay DEF Typed, MainOK
  <2> QED  BY <1>1, <2>2, <2>3
<1>5. MainOK'
  BY <1>1, <1>4 DEF Typed, MainOK
<1> QED  BY <1>1, <1>2, <1>3, <1>4, <1>5 DEF Typed, Effect

LEMMA RecordEntryIs ==
  ASSUME Typed, RecordEntry
  PROVE  /\ rec = "entry" /\ slot \in Entries /\ slot \in Nat
         /\ dblBuff # <<>> /\ Loud(Head(dblBuff))
         /\ UNCHANGED <<buffer, running, dblBuff, main, place, swaps, heard>>
         /\ \/ /\ crashed' = TRUE /\ UNCHANGED <<rec, slot, wavs, UID, disk, fileless>>
               /\ Head(dblBuff).signal[slot] = 1 /\ Missing(slot)
            \/ /\ crashed' \in BOOLEAN /\ (main = "loop" => crashed' = crashed \/ crashed' = FALSE)
               /\ rec' = rec /\ slot' = slot + 1
               /\ \/ /\ slot \in Slots /\ Replace(slot, Head(dblBuff).id + 1) /\ ReplacesAt(slot)
                     /\ ~Opened(wavs[slot]) /\ Head(dblBuff).signal[slot] = 1
                  \/ /\ UNCHANGED <<wavs, UID, disk, fileless>>
                     /\ Head(dblBuff).signal[slot] # 1 /\ At(slot) = Null
            \/ /\ slot \in Slots /\ wavs[slot] # Null
               /\ UNCHANGED <<slot, wavs, UID, disk, crashed, fileless>>
               /\ \/ rec' = "write" /\ Head(dblBuff).signal[slot] = 1 /\ Opened(wavs[slot])
                  \/ rec' = "close" /\ Head(dblBuff).signal[slot] # 1
<1> USE ConstantsTyped
<1>1. rec = "entry" /\ slot \in Entries /\ slot \in Nat /\ dblBuff # <<>> /\ Loud(Head(dblBuff))
  BY DEF RecordEntry, Entries, Typed, ThreadOK
<1>2. UNCHANGED <<buffer, running, dblBuff, main, place, swaps, heard>>
  BY DEF RecordEntry, sharedq, mainvars
<1>3. At(slot) # Null => slot \in Slots /\ At(slot) = wavs[slot]
  BY DEF At
<1> DEFINE sound == Head(dblBuff).signal[slot] = 1
<1>4. CASE sound /\ Missing(slot) /\ crashed' = TRUE /\ UNCHANGED <<rec, slot, waves, fileless>>
  BY <1>1, <1>2, <1>4 DEF waves
<1>5. CASE /\ sound /\ ~Missing(slot) /\ ~Opened(At(slot)) /\ Replace(slot, Head(dblBuff).id + 1)
           /\ crashed' \in {FALSE, Busy(slot)} /\ slot' = slot + 1 /\ UNCHANGED rec
  <2>1. At(slot) # Null
    BY <1>5 DEF Missing
  <2>2. crashed' \in BOOLEAN /\ (main = "loop" => crashed' = FALSE)
    <3>1. Busy(slot) \in BOOLEAN
      BY DEF Busy
    <3>2. main = "loop" => ~Busy(slot)
      BY LoopIsCalm
    <3> QED  BY <1>5, <3>1, <3>2
  <2> QED  BY <1>1, <1>2, <1>3, <1>5, <2>1, <2>2 DEF ReplacesAt
<1>6. CASE ~sound /\ At(slot) = Null /\ slot' = slot + 1 /\ UNCHANGED <<rec, waves, crashed, fileless>>
  BY <1>1, <1>2, <1>6 DEF waves, Typed, MainOK
<1>7. CASE /\ At(slot) # Null /\ (sound => ~Freed(slot) /\ Opened(At(slot)))
           /\ rec' = (IF sound THEN "write" ELSE "close")
           /\ UNCHANGED <<slot, waves, crashed, fileless>>
  BY <1>1, <1>2, <1>3, <1>7 DEF waves
<1>8. \/ sound /\ Missing(slot) /\ crashed' = TRUE /\ UNCHANGED <<rec, slot, waves, fileless>>
      \/ /\ sound /\ ~Missing(slot) /\ ~Opened(At(slot)) /\ Replace(slot, Head(dblBuff).id + 1)
         /\ crashed' \in {FALSE, Busy(slot)} /\ slot' = slot + 1 /\ UNCHANGED rec
      \/ ~sound /\ At(slot) = Null /\ slot' = slot + 1 /\ UNCHANGED <<rec, waves, crashed, fileless>>
      \/ /\ At(slot) # Null /\ (sound => ~Freed(slot) /\ Opened(At(slot)))
         /\ rec' = (IF sound THEN "write" ELSE "close")
         /\ UNCHANGED <<slot, waves, crashed, fileless>>
  BY DEF RecordEntry
<1> HIDE DEF sound
<1> QED  BY ONLY <1>4, <1>5, <1>6, <1>7, <1>8

LEMMA RecordEntryTyped == ASSUME Typed, UNCHANGED mode, RecordEntry PROVE Typed' /\ Effect
<1> USE ConstantsTyped
<1>1. /\ rec = "entry" /\ slot \in Entries /\ slot \in Nat
      /\ dblBuff # <<>> /\ Loud(Head(dblBuff))
      /\ UNCHANGED <<buffer, running, dblBuff, main, place, swaps, heard>>
      /\ \/ /\ crashed' = TRUE /\ UNCHANGED <<rec, slot, wavs, UID, disk, fileless>>
         \/ /\ crashed' \in BOOLEAN /\ rec' = rec /\ slot' = slot + 1
            /\ \/ slot \in Slots /\ Replace(slot, Head(dblBuff).id + 1) /\ ReplacesAt(slot)
               \/ UNCHANGED <<wavs, UID, disk, fileless>>
         \/ /\ slot \in Slots /\ UNCHANGED <<slot, wavs, UID, disk, crashed, fileless>>
            /\ rec' \in {"write", "close"}
  BY RecordEntryIs
<1>2. QueuesOK'
  BY <1>1, OthersStay
<1>3. ThreadOK'
  <2>1. slot + 1 \in 1 .. Channels + 1 /\ slot \in 1 .. Channels + 1
    BY <1>1 DEF Entries
  <2> QED  BY <1>1, <2>1 DEF Typed, ThreadOK
<1>4. FilesOK' /\ PlaceOK' /\ fileless' \subseteq Slots \X Nat /\ Effect
  <2>1. Head(dblBuff).id + 1 \in Nat
    BY <1>1, HeadIsHeard
  <2>2. CASE slot \in Slots /\ Replace(slot, Head(dblBuff).id + 1) /\ ReplacesAt(slot)
    BY <1>1, <2>1, <2>2, ReplaceTyped DEF Effect
  <2>3. CASE UNCHANGED <<wavs, UID, disk, fileless>>
    BY <1>1, <2>3, OthersStay DEF Typed, MainOK, Effect
  <2> QED  BY <1>1, <2>2, <2>3
<1>5. MainOK'
  BY <1>1, <1>4 DEF Typed, MainOK
<1> QED  BY <1>2, <1>3, <1>4, <1>5 DEF Typed

LEMMA UseSlotIs ==
  ASSUME Typed, UseSlot
  PROVE  /\ rec \in {"close", "write"} /\ slot \in Entries /\ slot \in Slots /\ slot \in Nat
         /\ dblBuff # <<>> /\ Loud(Head(dblBuff)) /\ Head(dblBuff).id \in DOMAIN heard
         /\ rec' = "entry" /\ slot' = slot + 1
         /\ UNCHANGED <<buffer, running, dblBuff, main, place, swaps, heard, fileless>>
         /\ \/ /\ crashed' = TRUE /\ UNCHANGED <<wavs, UID, disk>>
               /\ Missing(slot) \/ (rec = "write" /\ ~Opened(At(slot)))
            \/ /\ rec = "close" /\ Silence(slot)
               /\ crashed' \in BOOLEAN /\ (main = "loop" => crashed' = FALSE)
            \/ /\ rec = "write" /\ crashed' = crashed /\ WriteEntry(slot)
               /\ wavs[slot] \in DOMAIN disk /\ disk[wavs[slot]].open
<1> USE ConstantsTyped
<1>1. /\ rec \in {"close", "write"} /\ slot \in Entries /\ slot \in Nat /\ slot \in Slots
      /\ dblBuff # <<>> /\ Loud(Head(dblBuff))
  BY DEF UseSlot, Typed, ThreadOK, Entries
<1>2. Head(dblBuff).id \in DOMAIN heard
  BY <1>1, HeadIsHeard
<1>3. rec' = "entry" /\ slot' = slot + 1
      /\ UNCHANGED <<buffer, running, dblBuff, main, place, swaps, heard, fileless>>
  BY DEF UseSlot, sharedq, mainvars, history
<1>4. At(slot) = wavs[slot]
  BY <1>1 DEF At
<1>5. CASE /\ Missing(slot) \/ (rec = "write" /\ ~Opened(At(slot)))
           /\ crashed' = TRUE /\ UNCHANGED waves
  BY <1>1, <1>2, <1>3, <1>5 DEF waves
<1>6. CASE /\ ~Missing(slot) /\ rec = "close"
           /\ Silence(slot) /\ crashed' \in {FALSE, Busy(slot) /\ Opened(At(slot))}
  <2> DEFINE o == Opened(At(slot))
             b == Busy(slot)
  <2>1. o \in BOOLEAN /\ b \in BOOLEAN /\ crashed' \in {FALSE, b /\ o} /\ (main = "loop" => ~b)
    <3>1. o \in BOOLEAN
      BY DEF Opened, Typed, FilesOK, FilesOf, FileOf
    <3>2. b \in BOOLEAN
      BY DEF Busy
    <3> QED  BY <1>6, <3>1, <3>2, LoopIsCalm
  <2> HIDE DEF o, b
  <2>2. crashed' \in BOOLEAN /\ (main = "loop" => crashed' = FALSE)
    BY <2>1
  <2> QED  BY <1>1, <1>2, <1>3, <1>6, <2>2
<1>7. CASE /\ ~Missing(slot) /\ rec = "write" /\ Opened(At(slot))
           /\ WriteEntry(slot) /\ UNCHANGED crashed
  BY <1>1, <1>2, <1>3, <1>4, <1>7 DEF Opened
<1> QED  BY <1>5, <1>6, <1>7 DEF UseSlot

LEMMA UseSlotTyped == ASSUME Typed, UNCHANGED mode, UseSlot PROVE Typed' /\ Effect
<1> USE ConstantsTyped
<1>1. /\ rec \in {"close", "write"} /\ slot \in Entries /\ slot \in Nat /\ slot \in Slots
      /\ dblBuff # <<>> /\ Loud(Head(dblBuff)) /\ Head(dblBuff).id \in DOMAIN heard
      /\ rec' = "entry" /\ slot' = slot + 1
      /\ UNCHANGED <<buffer, running, dblBuff, main, place, swaps, heard, fileless>>
      /\ crashed' \in BOOLEAN
      /\ \/ UNCHANGED <<wavs, UID, disk>>
         \/ Silence(slot)
         \/ /\ rec = "write" /\ WriteEntry(slot)
            /\ wavs[slot] \in DOMAIN disk /\ disk[wavs[slot]].open
  BY UseSlotIs DEF Typed, MainOK
<1>2. QueuesOK' /\ MainOK'
  BY <1>1, OthersStay
<1>3. ThreadOK'
  <2>1. slot + 1 \in 1 .. Channels + 1
    BY <1>1 DEF Entries
  <2> QED  BY <1>1, <2>1 DEF Typed, ThreadOK
<1>4. FilesOK /\ UID \in Nat
  BY DEF Typed, FilesOK
<1>5. ASSUME UNCHANGED <<wavs, UID>>, DOMAIN disk' = DOMAIN disk, FilesOf(disk', DOMAIN heard)
      PROVE  FilesOK' /\ PlaceOK'
  <2>1. FilesOK'
    BY <1>1, <1>4, <1>5 DEF FilesOK
  <2>2. PlaceOK'
    BY <1>1, <1>4, <1>5, PlaceStays
  <2> QED  BY <2>1, <2>2
<1>6. ASSUME UNCHANGED <<wavs, UID, disk>> PROVE FilesOK' /\ PlaceOK' /\ Effect
  BY <1>4, <1>5, <1>6 DEF FilesOK, Effect
<1>7. ASSUME Silence(slot) PROVE FilesOK' /\ PlaceOK' /\ Effect
  <2>1. /\ UNCHANGED <<wavs, UID>> /\ DOMAIN disk' = DOMAIN disk
        /\ Closes(disk, disk', wavs[slot]) /\ FilesOf(disk', DOMAIN heard)
    BY <1>1, <1>4, <1>7, SilenceIs
  <2>2. ClosesAt(slot)
    BY <2>1 DEF ClosesAt
  <2> QED  BY <1>1, <1>5, <2>1, <2>2 DEF Effect
<1>8. ASSUME rec = "write", WriteEntry(slot), wavs[slot] \in DOMAIN disk, disk[wavs[slot]].open
      PROVE  FilesOK' /\ PlaceOK' /\ Effect
  <2> DEFINE n == Head(dblBuff).id
  <2>1. /\ UNCHANGED <<wavs, UID>> /\ FilesOf(disk', DOMAIN heard)
        /\ \/ ~Sought(wavs[slot]) /\ Appends(disk, disk', wavs[slot], n)
           \/ Sought(wavs[slot]) /\ Tears(disk, disk', wavs[slot])
    BY <1>1, <1>4, <1>8, WriteIs
  <2>2. FilesOK' /\ PlaceOK'
    BY <1>5, <2>1 DEF Appends, Tears
  <2>3. CASE Appends(disk, disk', wavs[slot], n)
    <3>1. WritesAt(slot)
      BY <1>1, <1>8, <2>1, <2>3 DEF WritesAt, Opened
    <3> QED  BY <1>1, <2>2, <3>1 DEF Effect
  <2>4. CASE Sought(wavs[slot]) /\ Tears(disk, disk', wavs[slot])
    <3>1. main \in {"swap", "deinit"}
      BY <2>4 DEF Sought, Typed, PlaceOK
    <3>2. Marked
      BY <1>8, <2>1, <2>4, <3>1, TearsMarks
    <3> QED  BY <2>2, <3>2 DEF Effect
  <2> QED  BY <2>1, <2>3, <2>4
<1> QED  BY <1>1, <1>2, <1>3, <1>6, <1>7, <1>8 DEF Typed

LEMMA RecordEndsTyped == ASSUME Typed, UNCHANGED mode, RecordEnds PROVE Typed' /\ Effect
<1> USE ConstantsTyped
<1>1. /\ rec = "entry" /\ dblBuff' = Tail(dblBuff) /\ rec' = "next" /\ slot' = 1
      /\ UNCHANGED <<buffer, running, main, place, swaps, wavs, UID, disk, crashed, heard, fileless>>
  BY DEF RecordEnds, Recorded, sharedq, mainvars, waves, history
<1>2. dblBuff # <<>>
  BY <1>1 DEF Typed, ThreadOK
<1>3. QueuesOK'
  BY <1>1, <1>2, TailQueue
<1>4. FilesOK' /\ PlaceOK' /\ MainOK'
  BY <1>1, OthersStay DEF Typed, MainOK
<1>5. ThreadOK'
  BY <1>1 DEF ThreadOK
<1> QED  BY <1>1, <1>3, <1>4, <1>5 DEF Typed, Effect

LEMMA TestRunningTyped == ASSUME Typed, UNCHANGED mode, TestRunning PROVE Typed' /\ Effect
<1> USE ConstantsTyped
<1>1. /\ rec = "sleep" /\ rec' \in {"take", "off"}
      /\ UNCHANGED <<buffer, running, dblBuff, slot, main, place, swaps, wavs, UID, disk, crashed,
                     heard, fileless>>
  BY DEF TestRunning, sharedq, mainvars, waves, history
<1>2. QueuesOK' /\ FilesOK' /\ PlaceOK' /\ MainOK'
  BY <1>1, OthersStay DEF Typed, MainOK
<1>3. ThreadOK'
  BY <1>1 DEF Typed, ThreadOK
<1> QED  BY <1>1, <1>2, <1>3 DEF Typed, Effect

LEMMA Unchanged ==
  UNCHANGED vars => /\ UNCHANGED <<mode, buffer, running, rec, slot, dblBuff, main, place, swaps>>
                    /\ UNCHANGED <<wavs, UID, disk, crashed, heard, fileless>>
  BY DEF vars, sharedq, recorder, mainvars, waves, history

LEMMA StepEffect ==
  ASSUME Typed, [Next]_vars
  PROVE  Typed' /\ UNCHANGED mode /\ Effect
<1>1. CASE UNCHANGED vars
  <2>1. /\ UNCHANGED <<mode, buffer, running, rec, slot, dblBuff, main, place, swaps>>
        /\ UNCHANGED <<wavs, UID, disk, crashed, heard, fileless>>
    BY <1>1, Unchanged
  <2>2. QueuesOK' /\ ThreadOK' /\ FilesOK' /\ PlaceOK'
    BY <2>1, OthersStay
  <2>3. MainOK'
    BY <2>1 DEF Typed, MainOK
  <2> QED  BY <2>1, <2>2, <2>3 DEF Typed, Effect
<1>2. CASE Next
  <2>1. UNCHANGED mode /\ (MainStep \/ RecorderStep)
    BY <1>2 DEF Next
  <2>2. ASSUME MainStep PROVE Typed' /\ Effect
    BY ONLY Typed, <2>1, <2>2, PutDataTyped, MainTyped, DeinitTyped, LookTyped, CloseTellTyped,
       CloseSeekTyped, CloseShutTyped, DeleteWavTyped, ClearSlotTyped, SwapNewTyped,
       SwapOpenTyped, Zenon DEF MainStep
  <2>3. ASSUME RecorderStep PROVE Typed' /\ Effect
    BY ONLY Typed, <2>1, <2>3, TakeTyped, RecordListTyped, PollHotSwapTyped, RecordEntryTyped,
       UseSlotTyped, RecordEndsTyped, TestRunningTyped, Zenon DEF RecorderStep
  <2> QED  BY <2>1, <2>2, <2>3
<1> QED  BY <1>1, <1>2

LEMMA TypedStep == Typed /\ [Next]_vars => Typed'
  BY StepEffect

(* Whatever main and the thread do between each other's calls, no index leaves
   m_wavs and every file has a UID of its own.                               *)
THEOREM RecorderTyped == Safety => []TypeOK
  BY TypedInit, TypedStep, TypedIsTypeOK, PTL DEF Safety

-----------------------------------------------------------------------------
(* A file belongs to the slot that names it, and no two slots name the same,
   in every way of swapping.                                                 *)
Own ==
  /\ \A i \in Slots : wavs[i] \in DOMAIN disk => disk[wavs[i]].slot = i
  /\ \A i, j \in Slots : wavs[i] = wavs[j] /\ wavs[i] # Null => i = j

LEMMA FilesAre ==
  ASSUME Typed
  PROVE  /\ FilesOK /\ UID \in Nat /\ wavs \in [Slots -> (1 .. UID) \cup {Null}]
         /\ DOMAIN disk \subseteq Files + 1 .. UID /\ DOMAIN disk \subseteq Nat
         /\ Null \notin DOMAIN disk /\ Null \notin 1 .. UID
         /\ \A u \in DOMAIN disk : /\ disk[u].slot \in Slots /\ disk[u].open \in BOOLEAN
                                   /\ disk[u].header \in Nat /\ disk[u].torn \in BOOLEAN
                                   /\ disk[u].lists \in Seq(DOMAIN heard)
                                   /\ Len(disk[u].lists) \in Nat
<1>1. FilesOK /\ UID \in Nat /\ wavs \in [Slots -> (1 .. UID) \cup {Null}]
      /\ DOMAIN disk \subseteq Files + 1 .. UID
  BY DEF Typed, FilesOK
<1>2. Null \notin DOMAIN disk /\ Null \notin 1 .. UID /\ DOMAIN disk \subseteq Nat
  BY <1>1, ConstantsTyped
<1>3. \A u \in DOMAIN disk : /\ disk[u].slot \in Slots /\ disk[u].open \in BOOLEAN
                             /\ disk[u].header \in Nat /\ disk[u].torn \in BOOLEAN
                             /\ disk[u].lists \in Seq(DOMAIN heard)
                             /\ Len(disk[u].lists) \in Nat
  BY <1>1 DEF FilesOK, FilesOf, FileOf
<1> QED  BY <1>1, <1>2, <1>3

LEMMA ReplacedIs ==
  ASSUME Typed, NEW i \in Slots, ReplacesAt(i)
  PROVE  /\ UID' = UID + 1 /\ UID' \notin DOMAIN disk /\ UID' \in Nat /\ wavs[i] # Null
         /\ \A j \in Slots : wavs[j] # UID'
         /\ wavs'[i] = UID' /\ \A j \in Slots \ {i} : wavs'[j] = wavs[j]
         /\ \/ DOMAIN disk' = DOMAIN disk \cup {UID'} /\ disk'[UID'] = File(i, FALSE)
            \/ DOMAIN disk' = DOMAIN disk
         /\ Closes(disk, disk', wavs[i])
<1>1. PICK n : Replace(i, n)
  BY DEF ReplacesAt
<1> QED  BY <1>1, FilesAre, ReplaceIs DEF ReplacesAt

LEMMA OpensIs ==
  ASSUME Typed, NEW i \in Slots, OpensAt(i)
  PROVE  /\ DOMAIN disk' = DOMAIN disk \cup {wavs[i]} /\ disk'[wavs[i]].slot = i
         /\ disk'[wavs[i]].lists = <<>> /\ disk'[wavs[i]].header = 0 /\ disk'[wavs[i]].open
         /\ \A v \in DOMAIN disk \ {wavs[i]} : disk'[v] = disk[v]
<1> DEFINE w == wavs[i]
           L == DOMAIN heard
<1>1. FilesOf(disk, L) /\ disk' = WithFile(disk, w, i)
  BY FilesAre DEF FilesOK, OpensAt
<1> HIDE DEF w, L
<1>2. /\ DOMAIN WithFile(disk, w, i) = DOMAIN disk \cup {w}
      /\ WithFile(disk, w, i)[w] = File(i, w \in DOMAIN disk)
      /\ \A v \in DOMAIN disk \ {w} : WithFile(disk, w, i)[v] = disk[v]
  BY DEF WithFile
<1>3. File(i, w \in DOMAIN disk).slot = i /\ File(i, w \in DOMAIN disk).lists = <<>>
      /\ File(i, w \in DOMAIN disk).header = 0 /\ File(i, w \in DOMAIN disk).open
  BY DEF File
<1> QED  BY <1>1, <1>2, <1>3 DEF w

LEMMA OwnStep == ASSUME Typed, Own, [Next]_vars PROVE Own'
<1> USE ConstantsTyped
<1>1. /\ wavs \in [Slots -> (1 .. UID) \cup {Null}] /\ Null \notin DOMAIN disk
  BY FilesAre
<1>2. ASSUME NEW i \in Slots, ReplacesAt(i) PROVE Own'
  <2>1. /\ UID' \notin DOMAIN disk /\ \A j \in Slots : wavs[j] # UID'
        /\ wavs'[i] = UID' /\ \A j \in Slots \ {i} : wavs'[j] = wavs[j]
        /\ \/ DOMAIN disk' = DOMAIN disk \cup {UID'} /\ disk'[UID'] = File(i, FALSE)
           \/ DOMAIN disk' = DOMAIN disk
        /\ Closes(disk, disk', wavs[i])
    BY <1>2, ReplacedIs
  <2>2. ASSUME NEW j \in Slots, j # i, wavs'[j] \in DOMAIN disk' PROVE disk'[wavs'[j]].slot = j
    <3>1. wavs'[j] = wavs[j] /\ wavs[j] \in DOMAIN disk
      BY <2>1, <2>2
    <3>2. disk'[wavs[j]].slot = disk[wavs[j]].slot
      BY <2>1, <3>1 DEF Closes
    <3> QED  BY <3>1, <3>2 DEF Own
  <2>3. wavs'[i] \in DOMAIN disk' => disk'[wavs'[i]].slot = i
    BY <2>1 DEF File
  <2>4. \A j, k \in Slots : wavs'[j] = wavs'[k] /\ wavs'[j] # Null => j = k
    BY <2>1 DEF Own
  <2> QED  BY <2>2, <2>3, <2>4 DEF Own
<1>3. ASSUME NEW i \in Slots, ClosesAt(i) PROVE Own'
  BY <1>3 DEF Own, ClosesAt, Closes
<1>4. ASSUME NEW i \in Slots, WritesAt(i) PROVE Own'
  BY <1>4 DEF Own, WritesAt, Appends
<1>5. ASSUME NEW i \in Slots, ClearsAt(i) PROVE Own'
  <2>1. disk' = disk /\ \A j \in Slots : wavs'[j] = wavs[j] \/ wavs'[j] = Null
    BY <1>1, <1>5 DEF ClearsAt
  <2> QED  BY <1>1, <2>1 DEF Own
<1>6. ASSUME NEW i \in Slots, NewAt(i) PROVE Own'
  <2>1. PICK u \in Files + 1 .. UID : /\ u \notin DOMAIN disk /\ \A j \in Slots : wavs[j] # u
                                      /\ wavs' = [wavs EXCEPT ![i] = u]
    BY <1>6 DEF NewAt
  <2>2. disk' = disk /\ wavs'[i] = u /\ \A j \in Slots \ {i} : wavs'[j] = wavs[j]
    BY <1>1, <1>6, <2>1 DEF NewAt
  <2> QED  BY <2>1, <2>2 DEF Own
<1>7. ASSUME NEW i \in Slots, OpensAt(i) PROVE Own'
  <2>1. /\ DOMAIN disk' = DOMAIN disk \cup {wavs[i]} /\ disk'[wavs[i]].slot = i
        /\ \A v \in DOMAIN disk \ {wavs[i]} : disk'[v] = disk[v]
    BY <1>7, OpensIs
  <2>2. wavs' = wavs /\ wavs[i] \in Nat
    BY <1>7, FilesAre DEF OpensAt
  <2>3. \A j \in Slots : wavs[j] = wavs[i] => j = i
    BY <2>2 DEF Own
  <2> QED  BY <2>1, <2>2, <2>3 DEF Own
<1>8. ASSUME UNCHANGED <<wavs, disk>> \/ Marked PROVE Own'
  BY <1>8 DEF Own, Marked
<1>9. Effect
  BY StepEffect
<1> QED  BY <1>2, <1>3, <1>4, <1>5, <1>6, <1>7, <1>8, <1>9 DEF Effect

(* The way back to the loop is the timer's.                                  *)
LEMMA LoopBefore ==
  ASSUME Typed, [Next]_vars, mode # "time", main' = "loop"
  PROVE  main = "loop"
<1>1. main # "swap"
  BY DEF Typed, MainOK
<1>2. CASE UNCHANGED vars
  BY <1>2, Unchanged
<1>3. CASE MainStep
  BY <1>1, <1>3 DEF MainStep, PutData, Timeout, Deinit, Look, CloseTell, CloseSeek, CloseShut,
    DeleteWav, ClearSlot, SwapNew, SwapOpen, StopRecoder, mainvars, NextPlace
<1>4. CASE RecorderStep
  BY <1>4 DEF RecorderStep, Take, RecordList, PollHotSwap, RecordEntry, UseSlot, RecordEnds,
    TestRunning, mainvars
<1> QED  BY <1>2, <1>3, <1>4 DEF Next

(* But for the timer, a file that is open is in its slot, unless deinit has
   cleared that: whatever the thread then does, it opens no second one.      *)
Reachable ==
  mode # "time" =>
    /\ \A u, v \in DOMAIN disk :
         disk[u].open /\ disk[v].open /\ disk[u].slot = disk[v].slot => u = v
    /\ \A u \in DOMAIN disk :
         disk[u].open => wavs[disk[u].slot] \in {u, Null}
    /\ main = "loop" =>
         /\ \A i \in Slots : wavs[i] # Null
         /\ \A u \in DOMAIN disk :
              ~disk[u].torn /\ (disk[u].open \/ disk[u].header = Len(disk[u].lists))

LEMMA ReachableIs == Typed /\ Reachable => OpenIsReachable
<1> SUFFICES ASSUME Typed, Reachable PROVE OpenIsReachable
  OBVIOUS
<1>1. CASE mode # "time" /\ main = "loop"
  <2>1. \A u \in DOMAIN disk : disk[u].slot \in Slots
    BY FilesAre
  <2> QED  BY <1>1, <2>1 DEF Reachable, OpenIsReachable
<1> QED  BY <1>1 DEF Reachable, OpenIsReachable

LEMMA ReachableStep ==
  ASSUME Typed, Own, Reachable, [Next]_vars
  PROVE  Reachable'
<1> USE ConstantsTyped
<1>1. UNCHANGED mode /\ Effect
  BY StepEffect
<1>2. SUFFICES ASSUME mode # "time" PROVE Reachable'
  BY <1>1 DEF Reachable
<1>3. /\ \A u, v \in DOMAIN disk :
           disk[u].open /\ disk[v].open /\ disk[u].slot = disk[v].slot => u = v
      /\ \A u \in DOMAIN disk : disk[u].open => wavs[disk[u].slot] = u \/ wavs[disk[u].slot] = Null
      /\ main = "loop" =>
           /\ \A i \in Slots : wavs[i] # Null
           /\ \A u \in DOMAIN disk :
                ~disk[u].torn /\ (disk[u].open \/ disk[u].header = Len(disk[u].lists))
  BY <1>2 DEF Reachable
<1>4. /\ wavs \in [Slots -> (1 .. UID) \cup {Null}] /\ Null \notin DOMAIN disk
      /\ \A u \in DOMAIN disk : disk[u].slot \in Slots
  BY FilesAre
<1>5. main' = "loop" => main = "loop" /\ \A u : ~Sought(u)
  BY <1>2, LoopBefore, LoopIsCalm
<1> DEFINE Good(u) == ~disk[u].torn /\ (disk[u].open \/ disk[u].header = Len(disk[u].lists))
(* What closing one file leaves of the rest. *)
<1>6. ASSUME NEW i \in Slots, Closes(disk, disk', wavs[i]), NEW u \in DOMAIN disk
      PROVE  /\ disk'[u].open => disk[u].open /\ disk'[u] = disk[u] /\ u # wavs[i]
             /\ disk'[u].slot = disk[u].slot
             /\ main' = "loop" => Good(u)'
  <2>1. disk'[u].open => disk[u].open /\ disk'[u] = disk[u] /\ u # wavs[i]
    BY <1>6 DEF Closes
  <2>2. ASSUME main' = "loop" PROVE Good(u)'
    <3>1. Good(u) /\ ~Sought(wavs[i])
      BY <1>3, <1>5, <2>2
    <3>2. CASE u # wavs[i] \/ ~disk[u].open
      <4>1. disk'[u] = disk[u]
        BY <1>6, <3>2 DEF Closes
      <4> QED  BY <3>1, <4>1
    <3>3. CASE u = wavs[i] /\ disk[u].open
      BY <1>6, <3>1, <3>3 DEF Closes
    <3> QED  BY <3>2, <3>3
  <2> QED  BY <1>6, <2>1, <2>2 DEF Closes
<1> HIDE DEF Good
<1>7. ASSUME NEW i \in Slots, ReplacesAt(i) PROVE Reachable'
  <2>1. /\ UID' \notin DOMAIN disk /\ wavs[i] # Null /\ UID' \in Nat
        /\ wavs'[i] = UID' /\ \A j \in Slots \ {i} : wavs'[j] = wavs[j]
        /\ \/ DOMAIN disk' = DOMAIN disk \cup {UID'} /\ disk'[UID'] = File(i, FALSE)
           \/ DOMAIN disk' = DOMAIN disk
        /\ Closes(disk, disk', wavs[i])
    BY <1>7, ReplacedIs
  <2>2. UID' \in DOMAIN disk' =>
          /\ disk'[UID'].slot = i /\ disk'[UID'].open /\ ~disk'[UID'].torn
    BY <2>1 DEF File
  <2>3. ASSUME NEW u \in DOMAIN disk
        PROVE  /\ disk'[u].slot = disk[u].slot
               /\ disk'[u].open => disk[u].open /\ u # wavs[i] /\ disk[u].slot # i
    BY <1>3, <1>6, <2>1
  <2>4. \A u, v \in DOMAIN disk' :
           disk'[u].open /\ disk'[v].open /\ disk'[u].slot = disk'[v].slot => u = v
    <3>1. \A u \in DOMAIN disk' : u \in DOMAIN disk \/ u = UID'
      BY <2>1
    <3>2. ASSUME NEW u \in DOMAIN disk, NEW v \in DOMAIN disk, disk'[u].open, disk'[v].open,
                 disk'[u].slot = disk'[v].slot
          PROVE  u = v
      BY <1>3, <2>3, <3>2
    <3>3. ASSUME NEW u \in DOMAIN disk, disk'[u].open, UID' \in DOMAIN disk'
          PROVE  disk'[u].slot # disk'[UID'].slot
      BY <2>2, <2>3, <3>3
    <3> QED  BY <3>1, <3>2, <3>3
  <2>5. ASSUME NEW u \in DOMAIN disk', disk'[u].open
        PROVE  wavs'[disk'[u].slot] = u \/ wavs'[disk'[u].slot] = Null
    <3>1. CASE u = UID'
      BY <2>1, <2>2, <3>1
    <3>2. CASE u \in DOMAIN disk
      <4>1. disk'[u].slot = disk[u].slot /\ disk[u].open /\ disk[u].slot # i
        BY <2>3, <2>5, <3>2
      <4>2. wavs'[disk[u].slot] = wavs[disk[u].slot]
        BY <1>4, <2>1, <3>2, <4>1
      <4> QED  BY <1>3, <3>2, <4>1, <4>2
    <3> QED  BY <2>1, <3>1, <3>2
  <2>6. ASSUME main' = "loop"
        PROVE  /\ \A j \in Slots : wavs'[j] # Null
               /\ \A u \in DOMAIN disk' : Good(u)'
    <3>1. \A j \in Slots : wavs'[j] # Null
      BY <1>3, <1>5, <2>1, <2>6
    <3>2. \A u \in DOMAIN disk : Good(u)'
      BY <1>6, <2>1, <2>6
    <3>3. UID' \in DOMAIN disk' => Good(UID)'
      BY <2>2 DEF Good
    <3> DEFINE G(u) == Good(u)'
    <3>4. \A u \in DOMAIN disk' : u \in DOMAIN disk \/ u = UID'
      BY <2>1
    <3> QED  BY <3>1, <3>2, <3>3, <3>4
  <2> QED  BY <2>4, <2>5, <2>6 DEF Reachable, Good
<1>8. ASSUME NEW i \in Slots, ClosesAt(i) PROVE Reachable'
  <2>1. DOMAIN disk' = DOMAIN disk /\ Closes(disk, disk', wavs[i]) /\ wavs' = wavs
    BY <1>8 DEF ClosesAt
  <2>2. \A u \in DOMAIN disk : /\ disk'[u].slot = disk[u].slot
                               /\ disk'[u].open => disk[u].open
                               /\ main' = "loop" => Good(u)'
    BY <1>6, <2>1
  <2> QED  BY <1>3, <1>5, <2>1, <2>2 DEF Reachable, Good
<1>9. ASSUME NEW i \in Slots, WritesAt(i) PROVE Reachable'
  <2>1. /\ wavs' = wavs /\ DOMAIN disk' = DOMAIN disk
        /\ \A u \in DOMAIN disk : /\ disk'[u].slot = disk[u].slot
                                  /\ disk'[u].open = disk[u].open
                                  /\ disk'[u].torn = disk[u].torn
                                  /\ ~disk[u].open => disk'[u] = disk[u]
    BY <1>9 DEF WritesAt, Appends, Opened
  <2> QED  BY <1>3, <1>5, <2>1 DEF Reachable
<1>10. ASSUME Marked PROVE Reachable'
  <2>1. wavs' = wavs /\ DOMAIN disk' = DOMAIN disk /\ main # "loop"
        /\ \A v \in DOMAIN disk : disk'[v].slot = disk[v].slot /\ (disk'[v].open => disk[v].open)
    BY <1>10 DEF Marked
  <2>2. main' # "loop"
    BY <1>5, <2>1
  <2> QED  BY <1>3, <2>1, <2>2 DEF Reachable
<1>11. ASSUME NEW i \in Slots, ClearsAt(i) PROVE Reachable'
  <2>1. disk' = disk /\ (\A j \in Slots : wavs'[j] = wavs[j] \/ wavs'[j] = Null) /\ main # "loop"
    BY <1>4, <1>11 DEF ClearsAt
  <2>2. main' # "loop"
    BY <1>5, <2>1
  <2> QED  BY <1>3, <1>4, <2>1, <2>2 DEF Reachable
<1>12. ASSUME UNCHANGED <<wavs, disk>> PROVE Reachable'
  BY <1>3, <1>5, <1>12 DEF Reachable
<1> QED  BY <1>1, <1>2, <1>7, <1>8, <1>9, <1>10, <1>11, <1>12 DEF Effect, NewAt, OpensAt

LEMMA FilesInit == Init => Own /\ Reachable
<1> SUFFICES ASSUME Init PROVE Own /\ Reachable
  OBVIOUS
<1>1. DOMAIN disk = {} /\ \A i \in Slots : wavs[i] = i /\ i \in Nat
  BY DEF Init, Slots
<1> QED  BY <1>1, ConstantsTyped DEF Own, Reachable

(* Swapped for its size or not at all, and whatever opens fail, no slot ever
   has two files open, and until deinit comes each file is open only while its
   slot names it and a closed one has the header of what was written: nothing
   is left open behind the plugin's back (wav-writer.cpp:86-152).            *)
THEOREM OpenFilesAreReachable == Safety => []OpenIsReachable
<1>1. Init => Typed /\ Own /\ Reachable
  BY TypedInit, FilesInit
<1>2. Typed /\ Own /\ Reachable /\ [Next]_vars => (Typed /\ Own /\ Reachable)'
  BY TypedStep, OwnStep, ReachableStep
<1> QED  BY <1>1, <1>2, ReachableIs, PTL DEF Safety

-----------------------------------------------------------------------------
(* Swapping by size: the poll of a slot comes before each write to its file. *)
Polled(j) ==
  \/ rec = "poll" /\ j < slot
  \/ rec \in {"entry", "close", "write"} /\ j >= slot

Sizes ==
  mode = "size" =>
    /\ \A u \in DOMAIN disk : Len(disk[u].lists) <= MaxSize + 1
    /\ ~crashed => \A j \in Slots : Polled(j) /\ Opened(wavs[j]) => Len(disk[wavs[j]].lists) <= MaxSize

LEMMA MainLeavesThread == MainStep => UNCHANGED <<rec, slot, dblBuff>>
  BY DEF MainStep, PutData, Timeout, Deinit, Look, CloseTell, CloseSeek, CloseShut, DeleteWav,
    ClearSlot, SwapNew, SwapOpen, StopRecoder, recorder

LEMMA PolledStep ==
  ASSUME Typed, mode = "size", [Next]_vars, NEW j \in Slots, Polled(j)', ~crashed'
  PROVE  /\ ~crashed
         /\ \/ Polled(j) /\ (rec = "write" => slot # j \/ UNCHANGED rec)
            \/ /\ j = slot /\ rec = "poll"
               /\ \/ ReplacesAt(j)
                  \/ UNCHANGED <<wavs, disk>>
                     /\ (Opened(wavs[j]) => Len(disk[wavs[j]].lists) <= MaxSize)
<1> USE ConstantsTyped
<1>1. j \in Nat /\ j > 0 /\ j <= Files
  BY DEF Slots
<1>2. CASE UNCHANGED vars
  <2>1. UNCHANGED <<rec, slot, wavs, disk, crashed>>
    BY <1>2, Unchanged
  <2> QED  BY <2>1 DEF Polled
<1>3. ASSUME MainStep PROVE Polled(j) /\ (rec = "write" => slot # j \/ UNCHANGED rec)
  <2>1. UNCHANGED <<rec, slot>>
    BY <1>3, MainLeavesThread
  <2> QED  BY <2>1 DEF Polled
<1>4. ASSUME Take \/ RecordEnds \/ TestRunning PROVE FALSE
  <2>1. rec' \in {"next", "take", "off"}
    BY <1>4 DEF Take, RecordEnds, TestRunning
  <2> QED  BY <2>1 DEF Polled
<1>5. ASSUME RecordList PROVE FALSE
  <2>1. rec' \in {"sleep", "next", "poll"} /\ slot' = 1
    BY <1>5 DEF RecordList
  <2> QED  BY <1>1, <2>1 DEF Polled
<1>6. ASSUME PollHotSwap
      PROVE  \/ Polled(j) /\ rec # "write"
             \/ /\ j = slot /\ rec = "poll"
                /\ \/ ReplacesAt(j)
                   \/ UNCHANGED <<wavs, disk>>
                      /\ (Opened(wavs[j]) => Len(disk[wavs[j]].lists) <= MaxSize)
  <2>1. /\ rec = "poll" /\ slot \in Nat
        /\ \/ rec' = "entry" /\ slot' = 1 /\ slot = Files
           \/ rec' = "poll" /\ slot' = slot + 1 /\ slot + 1 \in Slots
        /\ \/ ReplacesAt(slot)
           \/ /\ UNCHANGED <<wavs, UID, disk>>
              /\ Opened(wavs[slot]) /\ ~crashed' => Len(disk[wavs[slot]].lists) <= MaxSize
    BY <1>6, PollHotSwapIs
  <2>2. j < slot \/ j = slot
    BY <1>1, <2>1 DEF Polled
  <2> QED  BY <2>1, <2>2 DEF Polled
<1>7. ASSUME RecordEntry PROVE Polled(j) /\ rec # "write"
  <2>1. rec = "entry" /\ slot \in Nat /\ (slot' = slot \/ slot' = slot + 1)
        /\ rec' \in {"entry", "write", "close"}
    BY <1>7, RecordEntryIs
  <2> QED  BY <1>1, <2>1 DEF Polled
<1>8. ASSUME UseSlot PROVE Polled(j) /\ slot # j
  <2>1. rec \in {"close", "write"} /\ slot \in Nat /\ rec' = "entry" /\ slot' = slot + 1
    BY <1>8, UseSlotIs
  <2> QED  BY <1>1, <2>1 DEF Polled
<1>9. CASE Next
  BY <1>3, <1>4, <1>5, <1>6, <1>7, <1>8, <1>9 DEF Next, RecorderStep
<1> QED  BY <1>2, <1>9

LEMMA SizesStep ==
  ASSUME Typed, Own, Sizes, [Next]_vars
  PROVE  Sizes'
<1> USE ConstantsTyped
<1>1. UNCHANGED mode /\ Effect
  BY StepEffect
<1>2. SUFFICES ASSUME mode = "size" PROVE Sizes'
  BY <1>1 DEF Sizes
<1>3. /\ \A u \in DOMAIN disk : Len(disk[u].lists) <= MaxSize + 1 /\ Len(disk[u].lists) \in Nat
      /\ ~crashed => \A j \in Slots :
                       Polled(j) /\ Opened(wavs[j]) => Len(disk[wavs[j]].lists) <= MaxSize
  BY <1>2, FilesAre DEF Sizes
<1>4. wavs \in [Slots -> (1 .. UID) \cup {Null}] /\ Null \notin DOMAIN disk
  BY FilesAre
<1>5. ASSUME NEW j \in Slots, Polled(j)', ~crashed', ~(j = slot /\ ReplacesAt(j)), Opened(wavs[j])
      PROVE  Len(disk[wavs[j]].lists) <= MaxSize
  BY <1>2, <1>3, <1>5, PolledStep
<1>6. ASSUME NEW i \in Slots, ReplacesAt(i) PROVE Sizes'
  <2>1. /\ UID' \notin DOMAIN disk /\ \A j \in Slots : wavs[j] # UID'
        /\ wavs'[i] = UID' /\ \A j \in Slots \ {i} : wavs'[j] = wavs[j]
        /\ \/ DOMAIN disk' = DOMAIN disk \cup {UID'} /\ disk'[UID'] = File(i, FALSE)
           \/ DOMAIN disk' = DOMAIN disk
        /\ Closes(disk, disk', wavs[i])
    BY <1>6, ReplacedIs
  <2>2. /\ \A u \in DOMAIN disk : /\ disk'[u].lists = disk[u].lists
                                  /\ disk'[u].open => disk[u].open
        /\ UID' \in DOMAIN disk' => Len(disk'[UID'].lists) = 0
    BY <2>1 DEF Closes, File
  <2>3. \A u \in DOMAIN disk' : Len(disk'[u].lists) <= MaxSize + 1
    <3>1. \A u \in DOMAIN disk' : u \in DOMAIN disk \/ u = UID'
      BY <2>1
    <3> QED  BY <1>3, <2>2, <3>1
  <2>4. ASSUME NEW j \in Slots, Polled(j)', Opened(wavs[j])', ~crashed'
        PROVE  Len(disk'[wavs'[j]].lists) <= MaxSize
    <3>1. CASE j = i
      BY <2>1, <2>2, <2>4, <3>1 DEF Opened
    <3>2. CASE j # i
      <4>1. wavs'[j] = wavs[j] /\ wavs[j] \in DOMAIN disk' /\ disk'[wavs[j]].open
        BY <2>1, <2>4, <3>2 DEF Opened
      <4>2. wavs[j] \in DOMAIN disk
        BY <2>1, <4>1
      <4>3. Opened(wavs[j])
        BY <2>2, <4>1, <4>2 DEF Opened
      <4>4. ~ReplacesAt(j)
        BY <2>1, <4>1, ReplacedIs
      <4>5. Len(disk[wavs[j]].lists) <= MaxSize
        BY <1>5, <2>4, <4>3, <4>4
      <4> QED  BY <2>2, <4>1, <4>2, <4>5
    <3> QED  BY <3>1, <3>2
  <2> QED  BY <2>3, <2>4 DEF Sizes
<1>7. ASSUME \E i \in Slots : ClosesAt(i) \/ ClearsAt(i) \/ Marked \/ UNCHANGED <<wavs, disk>>
      PROVE  Sizes'
  <2>1. /\ DOMAIN disk' = DOMAIN disk /\ \A u \in DOMAIN disk : disk'[u].lists = disk[u].lists
        /\ \A u \in DOMAIN disk : disk'[u].open => disk[u].open
        /\ \A j \in Slots : wavs'[j] = wavs[j] \/ wavs'[j] = Null
    <3>1. PICK i \in Slots : ClosesAt(i) \/ ClearsAt(i) \/ Marked \/ UNCHANGED <<wavs, disk>>
      BY <1>7
    <3>2. CASE ClosesAt(i)
      BY <3>2 DEF ClosesAt, Closes
    <3>3. CASE ClearsAt(i)
      BY <1>4, <3>3 DEF ClearsAt
    <3>4. CASE Marked
      BY <3>4 DEF Marked
    <3>5. CASE UNCHANGED <<wavs, disk>>
      BY <3>5
    <3> QED  BY <3>1, <3>2, <3>3, <3>4, <3>5
  <2>2. ASSUME NEW j \in Slots, Polled(j)', Opened(wavs[j])', ~crashed'
        PROVE  Len(disk'[wavs'[j]].lists) <= MaxSize
    <3>1. wavs'[j] = wavs[j] /\ Opened(wavs[j]) /\ wavs[j] \in DOMAIN disk
      BY <1>4, <2>1, <2>2 DEF Opened
    <3>2. ~ReplacesAt(j)
      BY <1>4, <2>1, <3>1, ReplacedIs
    <3>3. Len(disk[wavs[j]].lists) <= MaxSize
      BY <1>5, <2>2, <3>1, <3>2
    <3> QED  BY <2>1, <3>1, <3>3
  <2> QED  BY <1>3, <2>1, <2>2 DEF Sizes
<1>8. ASSUME NEW i \in Slots, WritesAt(i) PROVE Sizes'
  <2>0. /\ wavs' = wavs /\ DOMAIN disk' = DOMAIN disk
        /\ \A v \in DOMAIN disk :
             /\ v # wavs[i] => disk'[v] = disk[v]
             /\ v = wavs[i] => /\ disk'[v].open = disk[v].open
                               /\ disk'[v].lists = Append(disk[v].lists, Head(dblBuff).id)
    BY <1>8 DEF WritesAt, Appends
  <2>1. ~crashed => Len(disk[wavs[i]].lists) <= MaxSize
    <3>1. Polled(i) /\ Opened(wavs[i])
      BY <1>8 DEF WritesAt, Polled, Slots
    <3> QED  BY <1>3, <3>1
  <2>2. ~crashed /\ wavs[i] \in DOMAIN disk
    <3>1. rec' # rec
      BY <1>8 DEF WritesAt
    <3> QED  BY <1>8, <3>1, Unchanged DEF Next, WritesAt, Opened
  <2>3. \A u \in DOMAIN disk' : Len(disk'[u].lists) <= MaxSize + 1
    <3>1. Len(Append(disk[wavs[i]].lists, Head(dblBuff).id)) = Len(disk[wavs[i]].lists) + 1
      <4>1. disk[wavs[i]].lists \in Seq(DOMAIN heard)
        BY <2>2, FilesAre
      <4> QED  BY <4>1
    <3> QED  BY <1>3, <2>0, <2>1, <2>2, <3>1
  <2>4. ASSUME NEW j \in Slots, Polled(j)', Opened(wavs[j])', ~crashed'
        PROVE  Len(disk'[wavs'[j]].lists) <= MaxSize
    <3>1. rec = "write" /\ rec' = "entry" /\ slot = i
      BY <1>8 DEF WritesAt
    <3>2. Polled(j) /\ j # i
      BY <1>2, <2>4, <3>1, PolledStep
    <3>3. Opened(wavs[j])
      BY <2>0, <2>4 DEF Opened
    <3>4. wavs[j] # wavs[i]
      <4>1. wavs[i] # Null
        BY <1>4, <2>2
      <4> QED  BY <3>2, <4>1 DEF Own
    <3> QED  BY <1>3, <2>0, <2>2, <3>2, <3>3, <3>4 DEF Opened
  <2> QED  BY <2>3, <2>4 DEF Sizes
<1>9. 1 \in Slots
  BY DEF Slots
<1>10. ~(\E i \in Slots : NewAt(i) \/ OpensAt(i))
  BY <1>2 DEF NewAt, OpensAt
<1> QED  BY <1>1, <1>6, <1>7, <1>8, <1>9, <1>10 DEF Effect

(* Swapped for its size, a file is at most one list over the limit
   (recorder.cpp:576-614).                                                   *)
THEOREM FilesAreSized == Safety => []SizeLimited
<1>1. Init => Typed /\ Own /\ Sizes
  <2>1. Init => DOMAIN disk = {} /\ \A j \in Slots : ~Opened(wavs[j])
    BY DEF Init, Opened
  <2> QED  BY <2>1, TypedInit, FilesInit DEF Sizes
<1>2. Typed /\ Own /\ Sizes /\ [Next]_vars => (Typed /\ Own /\ Sizes)'
  BY TypedStep, OwnStep, SizesStep
<1>3. Sizes => SizeLimited
  BY DEF Sizes, SizeLimited
<1> QED  BY <1>1, <1>2, <1>3, PTL DEF Safety

-----------------------------------------------------------------------------
(* But for the timer and before deinit, the thread is alone with the slots.  *)
LEMMA LoopStep ==
  ASSUME Typed, [Next]_vars, mode # "time", main' = "loop"
  PROVE  /\ main = "loop"
         /\ UNCHANGED vars \/ (~crashed /\ PutData) \/ (~crashed /\ RecorderStep)
<1>1. main = "loop" /\ place.step = "look"
  BY LoopBefore, LoopIsCalm
<1>2. ~(\/ Look \/ CloseTell \/ CloseSeek \/ CloseShut \/ DeleteWav \/ ClearSlot \/ SwapNew
        \/ SwapOpen \/ StopRecoder)
  BY <1>1 DEF Look, CloseTell, CloseSeek, CloseShut, DeleteWav, ClearSlot, SwapNew, SwapOpen,
    StopRecoder
<1>3. ~Timeout /\ ~Deinit
  BY DEF Timeout, Deinit
<1> QED  BY <1>1, <1>2, <1>3 DEF Next, MainStep

Safe ==
  mode # "time" /\ main = "loop" =>
    /\ rec = "write" => Opened(wavs[slot])
    /\ crashed => rec = "entry" /\ slot \notin Slots /\ Head(dblBuff).signal[slot] = 1

LEMMA SafeStep ==
  ASSUME Typed, Reachable, Safe, [Next]_vars
  PROVE  Safe'
<1> USE ConstantsTyped
<1>1. UNCHANGED mode
  BY StepEffect
<1>2. SUFFICES ASSUME mode # "time", main' = "loop" PROVE Safe'
  BY <1>1 DEF Safe
<1>3. /\ main = "loop"
      /\ UNCHANGED vars \/ (~crashed /\ PutData) \/ (~crashed /\ RecorderStep)
  BY <1>2, LoopStep
<1>4. /\ rec = "write" => Opened(wavs[slot])
      /\ crashed => rec = "entry" /\ slot \notin Slots /\ Head(dblBuff).signal[slot] = 1
      /\ \A i \in Slots : wavs[i] # Null
      /\ \A i : Missing(i) <=> At(i) = Null
  BY <1>2, <1>3, LoopIsCalm DEF Safe, Reachable
<1>5. CASE UNCHANGED vars
  <2>1. UNCHANGED <<rec, slot, dblBuff, wavs, disk, crashed>>
    BY <1>5, Unchanged
  <2> QED  BY <1>4, <2>1 DEF Safe, Opened
<1>6. CASE ~crashed /\ PutData
  <2>1. UNCHANGED <<rec, slot, dblBuff, wavs, disk, crashed>>
    BY <1>6, PutDataIs
  <2> QED  BY <1>4, <1>6, <2>1 DEF Safe, Opened
<1>7. CASE ~crashed /\ (Take \/ RecordList \/ RecordEnds \/ TestRunning)
  <2>1. rec' # "write" /\ UNCHANGED crashed
    BY <1>7 DEF Take, RecordList, RecordEnds, TestRunning
  <2> QED  BY <1>7, <2>1 DEF Safe
<1>8. CASE ~crashed /\ PollHotSwap
  <2>1. rec' # "write" /\ crashed' = FALSE
    BY <1>3, <1>8, PollHotSwapIs
  <2> QED  BY <2>1 DEF Safe
<1>9. CASE ~crashed /\ RecordEntry
  <2>1. CASE /\ crashed' = TRUE /\ UNCHANGED <<rec, slot, dblBuff, wavs, UID, disk>>
             /\ rec = "entry" /\ Head(dblBuff).signal[slot] = 1 /\ Missing(slot)
    <3>1. slot \notin Slots
      BY <1>4, <2>1 DEF At
    <3> QED  BY <2>1, <3>1 DEF Safe
  <2>2. CASE rec' = rec /\ rec = "entry" /\ ~crashed'
    BY <2>2 DEF Safe
  <2>3. CASE /\ UNCHANGED <<slot, wavs, UID, disk, crashed>>
             /\ rec' = "write" => Opened(wavs[slot])
    BY <1>9, <2>3 DEF Safe, Opened
  <2> QED  BY <1>3, <1>9, <2>1, <2>2, <2>3, RecordEntryIs
<1>10. CASE ~crashed /\ UseSlot
  <2>1. /\ rec' = "entry" /\ slot \in Slots
        /\ \/ Missing(slot) \/ (rec = "write" /\ ~Opened(At(slot)))
           \/ crashed' = FALSE \/ crashed' = crashed
    BY <1>3, <1>10, UseSlotIs
  <2>2. ~crashed'
    BY <1>4, <1>10, <2>1 DEF At
  <2> QED  BY <2>1, <2>2 DEF Safe
<1> QED  BY <1>3, <1>5, <1>6, <1>7, <1>8, <1>9, <1>10 DEF RecorderStep

(* But for the timer, and before deinit, the thread never meets a missing Wav
   in a slot, whatever is queued and whatever opens fail: only sound in an
   entry past the slots does (recorder.cpp:395).                             *)
THEOREM NoCrashBeforeDeinit == Safety => []CrashOnlyInDeinit
<1>1. Init => Typed /\ Own /\ Reachable /\ Safe
  <2>1. Init => rec # "write" /\ ~crashed
    BY DEF Init
  <2> QED  BY <2>1, TypedInit, FilesInit DEF Safe
<1>2. Typed /\ Own /\ Reachable /\ Safe /\ [Next]_vars => (Typed /\ Own /\ Reachable /\ Safe)'
  BY TypedStep, OwnStep, ReachableStep, SafeStep
<1>3. Safe => CrashOnlyInDeinit
  BY DEF Safe, CrashOnlyInDeinit
<1> QED  BY <1>1, <1>2, <1>3, PTL DEF Safety

-----------------------------------------------------------------------------
(* A list is written at most once for a slot: what is left to write for it has
   a higher number than all that its files hold.                             *)
Pending(k, i) == k > 1 \/ rec \notin {"entry", "close", "write"} \/ slot <= i

Left(m, i) ==
  \/ \E k \in DOMAIN dblBuff : Loud(dblBuff[k]) /\ dblBuff[k].id = m /\ Pending(k, i)
  \/ \E k \in DOMAIN buffer : Loud(buffer[k]) /\ buffer[k].id = m

InTurn ==
  /\ \A j, k \in DOMAIN dblBuff :
       j < k /\ Loud(dblBuff[j]) /\ Loud(dblBuff[k]) => dblBuff[j].id < dblBuff[k].id
  /\ \A j, k \in DOMAIN buffer :
       j < k /\ Loud(buffer[j]) /\ Loud(buffer[k]) => buffer[j].id < buffer[k].id
  /\ \A j \in DOMAIN dblBuff, k \in DOMAIN buffer :
       Loud(dblBuff[j]) /\ Loud(buffer[k]) => dblBuff[j].id < buffer[k].id

LEMMA PutDataQueues ==
  ASSUME Typed, PutData
  PROVE  /\ UNCHANGED <<dblBuff, rec, slot, wavs, disk>>
         /\ Len(heard) \in Nat /\ Len(buffer) \in Nat /\ DOMAIN buffer = 1 .. Len(buffer)
         /\ DOMAIN heard = 1 .. Len(heard)
         /\ DOMAIN buffer' = 1 .. Len(buffer) + 1
         /\ \A k \in DOMAIN buffer : buffer'[k] = buffer[k]
         /\ Loud(buffer'[Len(buffer) + 1]) => buffer'[Len(buffer) + 1].id = Len(heard) + 1
<1>1. heard \in Seq(Signals) /\ buffer \in Seq(Lists)
  BY DEF Typed, QueuesOK
<1>2. Len(heard) \in Nat /\ Len(buffer) \in Nat /\ DOMAIN buffer = 1 .. Len(buffer)
      /\ DOMAIN heard = 1 .. Len(heard)
  BY <1>1
<1>3. UNCHANGED <<dblBuff, rec, slot, wavs, disk>>
  BY PutDataIs
<1>4. PICK list \in Lists : /\ buffer' = Append(buffer, list)
                            /\ Loud(list) => list.id = Len(heard) + 1
  <2>1. ASSUME NEW s \in Signals PROVE [id |-> Len(heard) + 1, signal |-> s] \in Lists
    BY <1>2 DEF Lists
  <2>2. [id |-> 0, signal |-> <<>>] \in Lists /\ ~Loud([id |-> 0, signal |-> <<>>])
    BY DEF Lists, Loud
  <2>3. CASE \E s \in Signals : buffer' = Append(buffer, [id |-> Len(heard) + 1, signal |-> s])
    BY <2>1, <2>3
  <2>4. CASE buffer' = Append(buffer, [id |-> 0, signal |-> <<>>])
    BY <2>2, <2>4
  <2> QED  BY <2>3, <2>4, PutDataIs
<1>5. /\ DOMAIN buffer' = 1 .. Len(buffer) + 1 /\ buffer'[Len(buffer) + 1] = list
      /\ \A k \in DOMAIN buffer : buffer'[k] = buffer[k]
  BY <1>1, <1>2, <1>4
<1> QED  BY <1>2, <1>3, <1>4, <1>5

LEMMA IdsHeard ==
  ASSUME Typed
  PROVE  /\ DOMAIN dblBuff \subseteq Nat /\ DOMAIN buffer \subseteq Nat
         /\ \A k \in DOMAIN dblBuff : k > 0 /\ dblBuff[k].id \in Nat
         /\ \A k \in DOMAIN buffer : k > 0 /\ buffer[k].id \in Nat
         /\ \A k \in DOMAIN dblBuff : Loud(dblBuff[k]) => dblBuff[k].id <= Len(heard)
         /\ \A k \in DOMAIN buffer : Loud(buffer[k]) => buffer[k].id <= Len(heard)
         /\ Len(heard) \in Nat /\ DOMAIN heard = 1 .. Len(heard)
<1>1. heard \in Seq(Signals) /\ buffer \in Seq(Lists) /\ dblBuff \in Seq(Lists)
  BY DEF Typed, QueuesOK
<1>2. Len(heard) \in Nat /\ DOMAIN heard = 1 .. Len(heard)
  BY <1>1
<1>3. /\ DOMAIN dblBuff \subseteq Nat /\ DOMAIN buffer \subseteq Nat
      /\ \A k \in DOMAIN dblBuff : k > 0 /\ dblBuff[k] \in Lists
      /\ \A k \in DOMAIN buffer : k > 0 /\ buffer[k] \in Lists
  BY <1>1
<1>4. \A list \in Lists : list.id \in Nat
  BY DEF Lists
<1>5. /\ \A k \in DOMAIN buffer : Loud(buffer[k]) => buffer[k].id \in DOMAIN heard
      /\ \A k \in DOMAIN dblBuff : Loud(dblBuff[k]) => dblBuff[k].id \in DOMAIN heard
  BY DEF Typed, QueuesOK
<1> QED  BY <1>2, <1>3, <1>4, <1>5

LEMMA TailLeft ==
  ASSUME Typed, dblBuff # <<>>, dblBuff' = Tail(dblBuff)
  PROVE  \A k \in DOMAIN dblBuff' : k + 1 \in DOMAIN dblBuff /\ k \in Nat /\ k > 0
                                    /\ dblBuff'[k] = dblBuff[k + 1]
<1>1. dblBuff \in Seq(Lists)
  BY DEF Typed, QueuesOK
<1>2. \A k \in DOMAIN Tail(dblBuff) :
        k + 1 \in DOMAIN dblBuff /\ Tail(dblBuff)[k] = dblBuff[k + 1] /\ k \in Nat /\ k > 0
  BY <1>1
<1> QED  BY <1>2

(* How the queues change in a step of each kind.                             *)
Queued ==
  \/ UNCHANGED <<dblBuff, buffer>>
  \/ dblBuff # <<>> /\ dblBuff' = Tail(dblBuff) /\ UNCHANGED buffer
  \/ dblBuff = <<>> /\ dblBuff' = buffer /\ buffer' = <<>>
  \/ PutData

LEMMA StepQueued == ASSUME Typed, [Next]_vars PROVE Queued
<1>1. CASE UNCHANGED vars
  BY <1>1, Unchanged DEF Queued
<1>2. ASSUME MainStep PROVE Queued
  BY <1>2 DEF MainStep, Timeout, Deinit, Look, CloseTell, CloseSeek, CloseShut, DeleteWav,
              ClearSlot, SwapNew, SwapOpen, StopRecoder, recorder, sharedq, Queued
<1>3. ASSUME Take PROVE Queued
  <2>1. rec = "take" /\ dblBuff' = dblBuff \o buffer /\ buffer' = <<>>
    BY <1>3 DEF Take, TakeAll
  <2>2. dblBuff = <<>> /\ buffer \in Seq(Lists)
    BY <2>1 DEF Typed, ThreadOK, QueuesOK
  <2>3. dblBuff' = buffer
    BY <2>1, <2>2
  <2> QED  BY <2>1, <2>2, <2>3 DEF Queued
<1>4. ASSUME RecordEnds PROVE Queued
  <2>1. dblBuff # <<>>
    BY <1>4 DEF RecordEnds, Typed, ThreadOK
  <2> QED  BY <1>4, <2>1 DEF RecordEnds, Recorded, sharedq, Queued
<1>5. ASSUME RecordList PROVE Queued
  BY <1>5, RecordListIs DEF Queued
<1>6. ASSUME PollHotSwap \/ RecordEntry \/ UseSlot \/ TestRunning PROVE Queued
  BY <1>6 DEF PollHotSwap, RecordEntry, UseSlot, TestRunning, sharedq, Queued
<1>7. CASE Next
  BY <1>2, <1>3, <1>4, <1>5, <1>6, <1>7 DEF Next, RecorderStep
<1> QED  BY <1>1, <1>7

LEMMA InTurnStep == ASSUME Typed, InTurn, [Next]_vars PROVE InTurn'
<1>1. CASE UNCHANGED <<dblBuff, buffer>>
  BY <1>1 DEF InTurn, Loud
<1>2. CASE dblBuff # <<>> /\ dblBuff' = Tail(dblBuff) /\ UNCHANGED buffer
  <2>1. \A k \in DOMAIN dblBuff' : k + 1 \in DOMAIN dblBuff /\ k \in Nat /\ k > 0
                                   /\ dblBuff'[k] = dblBuff[k + 1]
    BY <1>2, TailLeft
  <2> QED  BY <1>2, <2>1 DEF InTurn, Loud
<1>3. CASE dblBuff = <<>> /\ dblBuff' = buffer /\ buffer' = <<>>
  BY <1>3 DEF InTurn, Loud
<1>4. CASE PutData
  <2>1. /\ UNCHANGED dblBuff /\ Len(buffer) \in Nat /\ DOMAIN buffer = 1 .. Len(buffer)
        /\ DOMAIN buffer' = 1 .. Len(buffer) + 1
        /\ \A k \in DOMAIN buffer : buffer'[k] = buffer[k]
        /\ Loud(buffer'[Len(buffer) + 1]) => buffer'[Len(buffer) + 1].id = Len(heard) + 1
    BY <1>4, PutDataQueues
  <2>2. \A k \in DOMAIN buffer' : k \in DOMAIN buffer \/ k = Len(buffer) + 1
    BY <2>1
  <2>3. ASSUME NEW j \in DOMAIN buffer', NEW k \in DOMAIN buffer', j < k, Loud(buffer'[j]),
               Loud(buffer'[k])
        PROVE  buffer'[j].id < buffer'[k].id
    <3>1. j \in DOMAIN buffer
      BY <2>1, <2>3
    <3>2. CASE k \in DOMAIN buffer
      BY <2>1, <2>3, <3>1, <3>2 DEF InTurn
    <3>3. CASE k = Len(buffer) + 1
      BY <2>1, <2>3, <3>1, <3>3, IdsHeard
    <3> QED  BY <2>2, <3>2, <3>3
  <2>4. ASSUME NEW j \in DOMAIN dblBuff', NEW k \in DOMAIN buffer', Loud(dblBuff'[j]),
               Loud(buffer'[k])
        PROVE  dblBuff'[j].id < buffer'[k].id
    <3>1. CASE k \in DOMAIN buffer
      BY <2>1, <2>4, <3>1 DEF InTurn
    <3>2. CASE k = Len(buffer) + 1
      BY <2>1, <2>4, <3>2, IdsHeard
    <3> QED  BY <2>2, <3>1, <3>2
  <2>5. \A j, k \in DOMAIN dblBuff' :
          j < k /\ Loud(dblBuff'[j]) /\ Loud(dblBuff'[k]) => dblBuff'[j].id < dblBuff'[k].id
    BY <2>1 DEF InTurn
  <2> QED  BY <2>3, <2>4, <2>5 DEF InTurn, Loud
<1> QED  BY <1>1, <1>2, <1>3, <1>4, StepQueued DEF Queued

LEMMA PendingStep ==
  ASSUME Typed, [Next]_vars, NEW i \in Slots, NEW k \in Nat, Pending(k, i)'
  PROVE  Pending(k, i) \/ (dblBuff # <<>> /\ dblBuff' = Tail(dblBuff))
<1> USE ConstantsTyped
<1>1. i \in Nat
  BY DEF Slots
<1>2. CASE UNCHANGED vars
  BY <1>2, Unchanged DEF Pending
<1>3. ASSUME MainStep PROVE Pending(k, i)
  BY <1>3, MainLeavesThread DEF Pending
<1>4. ASSUME Take \/ RecordList \/ PollHotSwap \/ TestRunning PROVE Pending(k, i)
  BY <1>4 DEF Take, RecordList, PollHotSwap, TestRunning, Pending
<1>5. ASSUME RecordEntry PROVE Pending(k, i)
  <2>1. rec = "entry" /\ slot \in Nat /\ (slot' = slot \/ slot' = slot + 1)
        /\ rec' \in {"entry", "write", "close"}
    BY <1>5, RecordEntryIs
  <2> QED  BY <1>1, <2>1 DEF Pending
<1>6. ASSUME UseSlot PROVE Pending(k, i)
  <2>1. slot \in Nat /\ rec' = "entry" /\ slot' = slot + 1
    BY <1>6, UseSlotIs
  <2> QED  BY <1>1, <2>1 DEF Pending
<1>7. ASSUME RecordEnds PROVE dblBuff # <<>> /\ dblBuff' = Tail(dblBuff)
  BY <1>7 DEF RecordEnds, Recorded, Typed, ThreadOK
<1>8. CASE Next
  BY <1>3, <1>4, <1>5, <1>6, <1>7, <1>8 DEF Next, RecorderStep
<1> QED  BY <1>2, <1>8

LEMMA LeftStep ==
  ASSUME Typed, [Next]_vars, NEW i \in Slots, NEW m, Left(m, i)'
  PROVE  Left(m, i) \/ m = Len(heard) + 1
<1>1. CASE dblBuff # <<>> /\ dblBuff' = Tail(dblBuff) /\ UNCHANGED buffer
  <2>1. \A k \in DOMAIN dblBuff' : k + 1 \in DOMAIN dblBuff /\ k \in Nat /\ k > 0
                                   /\ dblBuff'[k] = dblBuff[k + 1]
    BY <1>1, TailLeft
  <2> QED  BY <1>1, <2>1 DEF Left, Pending, Loud
<1>2. CASE dblBuff = <<>> /\ dblBuff' = buffer /\ buffer' = <<>>
  BY <1>2 DEF Left, Loud
<1>3. CASE /\ UNCHANGED <<dblBuff, buffer>>
           /\ ~(dblBuff # <<>> /\ dblBuff' = Tail(dblBuff) /\ UNCHANGED buffer)
  <2>1. ASSUME NEW k \in DOMAIN dblBuff, Pending(k, i)' PROVE Pending(k, i)
    <3>1. k \in Nat
      BY IdsHeard
    <3> QED  BY <1>3, <2>1, <3>1, PendingStep
  <2> QED  BY <1>3, <2>1 DEF Left, Loud
<1>4. CASE PutData
  <2>1. /\ UNCHANGED <<dblBuff, rec, slot>> /\ DOMAIN buffer' = 1 .. Len(buffer) + 1
        /\ Len(buffer) \in Nat /\ DOMAIN buffer = 1 .. Len(buffer)
        /\ \A k \in DOMAIN buffer : buffer'[k] = buffer[k]
        /\ Loud(buffer'[Len(buffer) + 1]) => buffer'[Len(buffer) + 1].id = Len(heard) + 1
    BY <1>4, PutDataQueues
  <2>2. \A k \in DOMAIN buffer' : k \in DOMAIN buffer \/ k = Len(buffer) + 1
    BY <2>1
  <2>3. CASE \E k \in DOMAIN dblBuff' :
               Loud(dblBuff'[k]) /\ dblBuff'[k].id = m /\ Pending(k, i)'
    BY <2>1, <2>3 DEF Left, Pending
  <2>4. CASE \E k \in DOMAIN buffer' : Loud(buffer'[k]) /\ buffer'[k].id = m
    BY <2>1, <2>2, <2>4 DEF Left
  <2> QED  BY <2>3, <2>4 DEF Left, Loud
<1> QED  BY <1>1, <1>2, <1>3, <1>4, StepQueued DEF Queued

LEMMA WriteLeft ==
  ASSUME Typed, InTurn, NEW i \in Slots, WritesAt(i)
  PROVE  /\ Left(Head(dblBuff).id, i)
         /\ \A m : Left(m, i)' => Head(dblBuff).id < m
<1> USE ConstantsTyped
<1>1. /\ rec = "write" /\ rec' = "entry" /\ slot = i /\ slot' = i + 1 /\ i \in Nat
      /\ UNCHANGED <<buffer, dblBuff>> /\ dblBuff # <<>> /\ Loud(Head(dblBuff))
  BY DEF WritesAt, Slots
<1>2. 1 \in DOMAIN dblBuff /\ Head(dblBuff) = dblBuff[1]
  BY <1>1, TailIs DEF Typed, QueuesOK
<1>3. Left(Head(dblBuff).id, i)
  BY <1>1, <1>2 DEF Left, Pending
<1>4. ASSUME NEW m, Left(m, i)' PROVE Head(dblBuff).id < m
  <2>1. CASE \E k \in DOMAIN dblBuff : Loud(dblBuff[k]) /\ dblBuff[k].id = m /\ Pending(k, i)'
    <3>1. PICK k \in DOMAIN dblBuff : Loud(dblBuff[k]) /\ dblBuff[k].id = m /\ Pending(k, i)'
      BY <2>1
    <3>2. k > 1
      BY <1>1, <3>1 DEF Pending
    <3> QED  BY <1>1, <1>2, <3>1, <3>2 DEF InTurn
  <2>2. CASE \E k \in DOMAIN buffer : Loud(buffer[k]) /\ buffer[k].id = m
    BY <1>1, <1>2, <2>2 DEF InTurn
  <2> QED  BY <1>1, <1>4, <2>1, <2>2 DEF Left, Loud
<1> QED  BY <1>3, <1>4

(* What becomes of the lists of a file.                                      *)
Same(v) == /\ v \in DOMAIN disk /\ disk'[v].slot = disk[v].slot
           /\ disk'[v].lists = disk[v].lists

Fresh(v) == disk'[v].lists = <<>>

Grown(v, i) ==
  /\ v \in DOMAIN disk /\ v = wavs[i] /\ disk[v].slot = i /\ disk'[v].slot = i
  /\ WritesAt(i) /\ disk'[v].lists = Append(disk[v].lists, Head(dblBuff).id)

LEMMA FilesGrow ==
  ASSUME Typed, Own, [Next]_vars, NEW v \in DOMAIN disk'
  PROVE  Same(v) \/ Fresh(v) \/ \E i \in Slots : Grown(v, i)
<1> USE ConstantsTyped
<1>1. Effect
  BY StepEffect
<1>2. ASSUME NEW i \in Slots, ReplacesAt(i) PROVE Same(v) \/ Fresh(v)
  <2>1. /\ \/ DOMAIN disk' = DOMAIN disk \cup {UID'} /\ disk'[UID'] = File(i, FALSE)
           \/ DOMAIN disk' = DOMAIN disk
        /\ Closes(disk, disk', wavs[i])
    BY <1>2, ReplacedIs
  <2>2. CASE v \in DOMAIN disk
    BY <2>1, <2>2 DEF Same, Closes
  <2>3. CASE v \notin DOMAIN disk
    BY <2>1, <2>3 DEF Fresh, File
  <2> QED  BY <2>2, <2>3
<1>3. ASSUME NEW i \in Slots, ClosesAt(i) PROVE Same(v)
  BY <1>3 DEF ClosesAt, Closes, Same
<1>4. ASSUME NEW i \in Slots, WritesAt(i) PROVE Same(v) \/ Grown(v, i)
  <2>1. v = wavs[i] => disk[v].slot = i
    BY <1>4 DEF Own, WritesAt, Opened
  <2>2. v \in DOMAIN disk
    BY <1>4 DEF WritesAt, Appends
  <2> QED  BY <1>4, <2>1, <2>2 DEF WritesAt, Appends, Same, Grown
<1>5. ASSUME disk' = disk PROVE Same(v)
  BY <1>5 DEF Same
<1>6. ASSUME Marked PROVE Same(v)
  BY <1>6 DEF Marked, Same
<1>7. ASSUME NEW i \in Slots, OpensAt(i) PROVE Same(v) \/ Fresh(v)
  <2>1. /\ DOMAIN disk' = DOMAIN disk \cup {wavs[i]} /\ disk'[wavs[i]].lists = <<>>
        /\ \A u \in DOMAIN disk \ {wavs[i]} : disk'[u] = disk[u]
    BY <1>7, OpensIs
  <2> QED  BY <2>1 DEF Same, Fresh
<1> QED  BY <1>1, <1>2, <1>3, <1>4, <1>5, <1>6, <1>7 DEF Effect, ClearsAt, NewAt

LEMMA ListsTyped ==
  ASSUME Typed
  PROVE  /\ \A u \in DOMAIN disk :
              /\ disk[u].slot \in Slots /\ disk[u].lists \in Seq(Nat)
              /\ \A j \in DOMAIN disk[u].lists : /\ disk[u].lists[j] \in Nat
                                                 /\ disk[u].lists[j] <= Len(heard)
         /\ Len(heard) \in Nat
<1>1. Len(heard) \in Nat /\ DOMAIN heard = 1 .. Len(heard)
  BY IdsHeard
<1>2. ASSUME NEW u \in DOMAIN disk
      PROVE  /\ disk[u].slot \in Slots /\ disk[u].lists \in Seq(Nat)
             /\ \A j \in DOMAIN disk[u].lists : /\ disk[u].lists[j] \in Nat
                                                /\ disk[u].lists[j] <= Len(heard)
  <2>1. disk[u].slot \in Slots /\ disk[u].lists \in Seq(1 .. Len(heard))
    BY <1>1 DEF Typed, FilesOK, FilesOf, FileOf
  <2>2. \A j \in DOMAIN disk[u].lists : disk[u].lists[j] \in 1 .. Len(heard)
    BY <2>1
  <2>3. disk[u].lists \in Seq(Nat)
    BY <1>1, <2>1
  <2> QED  BY <1>1, <2>1, <2>2, <2>3
<1> QED  BY <1>1, <1>2

LEMMA AppendIs ==
  ASSUME NEW s \in Seq(Nat), NEW n \in Nat
  PROVE  /\ Len(s) \in Nat /\ DOMAIN s = 1 .. Len(s)
         /\ DOMAIN Append(s, n) = 1 .. Len(s) + 1 /\ Append(s, n)[Len(s) + 1] = n
         /\ \A j \in DOMAIN s : Append(s, n)[j] = s[j]
  OBVIOUS

LEMMA GrownIs ==
  ASSUME Typed, NEW i \in Slots, NEW u \in DOMAIN disk, Grown(u, i)
  PROVE  /\ Head(dblBuff).id \in Nat /\ Len(disk[u].lists) \in Nat
         /\ DOMAIN disk[u].lists = 1 .. Len(disk[u].lists)
         /\ DOMAIN disk'[u].lists = 1 .. Len(disk[u].lists) + 1
         /\ disk'[u].lists[Len(disk[u].lists) + 1] = Head(dblBuff).id
         /\ \A j \in DOMAIN disk[u].lists : disk'[u].lists[j] = disk[u].lists[j]
         /\ \A j \in DOMAIN disk'[u].lists : j \in DOMAIN disk[u].lists
                                             \/ j = Len(disk[u].lists) + 1
<1>1. Head(dblBuff).id \in Nat
  <2>1. dblBuff # <<>>
    BY DEF Grown, WritesAt
  <2>2. 1 \in DOMAIN dblBuff /\ Head(dblBuff) = dblBuff[1]
    BY <2>1, TailIs DEF Typed, QueuesOK
  <2> QED  BY <2>2, IdsHeard
<1>2. disk[u].lists \in Seq(Nat) /\ disk'[u].lists = Append(disk[u].lists, Head(dblBuff).id)
  BY ListsTyped DEF Grown
<1> DEFINE s == disk[u].lists
           t == disk'[u].lists
           n == Head(dblBuff).id
<1>3. s \in Seq(Nat) /\ n \in Nat /\ t = Append(s, n)
  BY <1>1, <1>2
<1> HIDE DEF s, t, n
<1>4. /\ Len(s) \in Nat /\ DOMAIN s = 1 .. Len(s) /\ DOMAIN t = 1 .. Len(s) + 1
      /\ t[Len(s) + 1] = n /\ \A j \in DOMAIN s : t[j] = s[j]
  BY <1>3, AppendIs
<1>5. \A j \in DOMAIN t : j \in DOMAIN s \/ j = Len(s) + 1
  BY <1>4
<1> QED  BY <1>3, <1>4, <1>5 DEF s, t, n

LeftIsLater ==
  \A i \in Slots, m \in Nat :
    Left(m, i) => \A u \in DOMAIN disk : disk[u].slot = i =>
                    \A j \in DOMAIN disk[u].lists : disk[u].lists[j] < m

LEMMA LeftIsLaterStep ==
  ASSUME Typed, Own, InTurn, LeftIsLater, [Next]_vars
  PROVE  LeftIsLater'
<1> SUFFICES ASSUME NEW h \in Slots, NEW m \in Nat, Left(m, h)', NEW u \in DOMAIN disk',
                    disk'[u].slot = h, NEW j \in DOMAIN disk'[u].lists
             PROVE  disk'[u].lists[j] < m
  BY DEF LeftIsLater
<1>1. CASE Fresh(u)
  BY <1>1 DEF Fresh
<1>2. CASE Same(u)
  <2>1. disk[u].slot = h
    BY <1>2 DEF Same
  <2>3. Left(m, h) \/ m = Len(heard) + 1
    BY LeftStep
  <2>4. u \in DOMAIN disk /\ j \in DOMAIN disk[u].lists /\ disk'[u].lists[j] = disk[u].lists[j]
        /\ disk[u].lists[j] \in Nat /\ disk[u].lists[j] <= Len(heard) /\ Len(heard) \in Nat
    BY <1>2, ListsTyped DEF Same
  <2> QED  BY <2>1, <2>3, <2>4 DEF LeftIsLater
<1>3. ASSUME NEW i \in Slots, Grown(u, i) PROVE disk'[u].lists[j] < m
  <2>1. u \in DOMAIN disk /\ disk[u].slot = i /\ h = i /\ WritesAt(i)
    BY <1>3 DEF Grown
  <2>2. Left(m, i)'
    BY <2>1
  <2>3. Left(Head(dblBuff).id, i) /\ Head(dblBuff).id < m
    BY <2>1, <2>2, WriteLeft
  <2>4. /\ Head(dblBuff).id \in Nat
        /\ disk'[u].lists[Len(disk[u].lists) + 1] = Head(dblBuff).id
        /\ \A k \in DOMAIN disk[u].lists : disk'[u].lists[k] = disk[u].lists[k]
        /\ \A k \in DOMAIN disk'[u].lists : k \in DOMAIN disk[u].lists
                                            \/ k = Len(disk[u].lists) + 1
    BY <1>3, <2>1, GrownIs
  <2>5. CASE j \in DOMAIN disk[u].lists
    <3>1. disk[u].lists[j] < Head(dblBuff).id /\ disk[u].lists[j] \in Nat
      BY <2>1, <2>3, <2>4, <2>5, ListsTyped DEF LeftIsLater
    <3> QED  BY <2>3, <2>4, <2>5, <3>1
  <2>6. CASE j = Len(disk[u].lists) + 1
    BY <2>3, <2>4, <2>6
  <2> QED  BY <2>4, <2>5, <2>6
<1> QED  BY <1>1, <1>2, <1>3, FilesGrow

Rising(u) ==
  \A j, k \in DOMAIN disk[u].lists : j < k => disk[u].lists[j] < disk[u].lists[k]

Apart(u, v) ==
  disk[u].slot = disk[v].slot =>
    \A j \in DOMAIN disk[u].lists, k \in DOMAIN disk[v].lists :
      disk[u].lists[j] # disk[v].lists[k]

Once ==
  \A u \in DOMAIN disk : Rising(u) /\ \A v \in DOMAIN disk \ {u} : Apart(u, v)

LEMMA OnceIsWrittenOnce == Once => WrittenOnce
  BY DEF Once, Rising, Apart, WrittenOnce, Made

LEMMA RisingStep ==
  ASSUME Typed, Own, InTurn, LeftIsLater, Once, [Next]_vars, NEW u \in DOMAIN disk'
  PROVE  Rising(u)'
<1>1. CASE Fresh(u)
  BY <1>1 DEF Fresh, Rising
<1>2. CASE Same(u)
  BY <1>2 DEF Same, Rising, Once
<1>3. ASSUME NEW i \in Slots, Grown(u, i) PROVE Rising(u)'
  <2>1. u \in DOMAIN disk /\ disk[u].slot = i /\ WritesAt(i)
    BY <1>3 DEF Grown
  <2>2. Left(Head(dblBuff).id, i)
    BY <2>1, WriteLeft
  <2>3. /\ Head(dblBuff).id \in Nat /\ Len(disk[u].lists) \in Nat
        /\ DOMAIN disk[u].lists = 1 .. Len(disk[u].lists)
        /\ disk'[u].lists[Len(disk[u].lists) + 1] = Head(dblBuff).id
        /\ \A k \in DOMAIN disk[u].lists : disk'[u].lists[k] = disk[u].lists[k]
        /\ \A k \in DOMAIN disk'[u].lists : k \in DOMAIN disk[u].lists
                                            \/ k = Len(disk[u].lists) + 1
    BY <1>3, <2>1, GrownIs
  <2>4. SUFFICES ASSUME NEW j \in DOMAIN disk'[u].lists, NEW k \in DOMAIN disk'[u].lists, j < k
                 PROVE  disk'[u].lists[j] < disk'[u].lists[k]
    BY DEF Rising
  <2>5. j \in DOMAIN disk[u].lists
    BY <2>3, <2>4
  <2>6. CASE k \in DOMAIN disk[u].lists
    BY <2>1, <2>3, <2>4, <2>5, <2>6 DEF Once, Rising
  <2>7. CASE k = Len(disk[u].lists) + 1
    BY <2>1, <2>2, <2>3, <2>5, <2>7 DEF LeftIsLater
  <2> QED  BY <2>3, <2>6, <2>7
<1> QED  BY <1>1, <1>2, <1>3, FilesGrow

(* A file that grows stays apart from the others of its slot.                *)
LEMMA GrownApart ==
  ASSUME Typed, LeftIsLater, Once, InTurn, NEW i \in Slots, NEW u \in DOMAIN disk, Grown(u, i),
         NEW v \in DOMAIN disk', v # u, Same(v) \/ Fresh(v)
  PROVE  Apart(u, v)' /\ Apart(v, u)'
<1>1. CASE Fresh(v)
  BY <1>1 DEF Fresh, Apart
<1>2. CASE Same(v)
  <2>1. disk[u].slot = i /\ disk'[u].slot = i /\ WritesAt(i)
    BY DEF Grown
  <2>2. Left(Head(dblBuff).id, i)
    BY <2>1, WriteLeft
  <2>3. /\ Head(dblBuff).id \in Nat
        /\ disk'[u].lists[Len(disk[u].lists) + 1] = Head(dblBuff).id
        /\ \A k \in DOMAIN disk[u].lists : disk'[u].lists[k] = disk[u].lists[k]
        /\ \A k \in DOMAIN disk'[u].lists : k \in DOMAIN disk[u].lists
                                            \/ k = Len(disk[u].lists) + 1
    BY GrownIs
  <2>4. SUFFICES ASSUME disk'[v].slot = i, NEW j \in DOMAIN disk'[u].lists,
                        NEW k \in DOMAIN disk'[v].lists
                 PROVE  disk'[u].lists[j] # disk'[v].lists[k]
    BY <2>1 DEF Apart
  <2>5. /\ v \in DOMAIN disk /\ disk[v].slot = i /\ k \in DOMAIN disk[v].lists
        /\ disk'[v].lists[k] = disk[v].lists[k] /\ disk[v].lists[k] \in Nat
    BY <1>2, <2>4, ListsTyped DEF Same
  <2>6. CASE j \in DOMAIN disk[u].lists
    BY <2>1, <2>3, <2>5, <2>6 DEF Once, Apart
  <2>7. CASE j = Len(disk[u].lists) + 1
    <3>1. disk[v].lists[k] < Head(dblBuff).id
      BY <2>2, <2>3, <2>5 DEF LeftIsLater
    <3> QED  BY <2>3, <2>5, <2>7, <3>1
  <2> QED  BY <2>3, <2>6, <2>7
<1> QED  BY <1>1, <1>2

LEMMA ApartStep ==
  ASSUME Typed, Own, InTurn, LeftIsLater, Once, [Next]_vars,
         NEW u \in DOMAIN disk', NEW v \in DOMAIN disk', v # u
  PROVE  Apart(u, v)'
<1>1. ASSUME Same(u) \/ Fresh(u), Same(v) \/ Fresh(v) PROVE Apart(u, v)'
  <2>1. CASE Fresh(u) \/ Fresh(v)
    BY <2>1 DEF Fresh, Apart
  <2>2. CASE Same(u) /\ Same(v)
    <3>1. Apart(u, v)
      BY <2>2 DEF Same, Once
    <3> QED  BY <2>2, <3>1 DEF Same, Apart
  <2> QED  BY <1>1, <2>1, <2>2
<1>2. ASSUME NEW i \in Slots, Grown(u, i), Same(v) \/ Fresh(v) PROVE Apart(u, v)'
  BY <1>2, GrownApart DEF Grown
<1>3. ASSUME NEW i \in Slots, Grown(v, i), Same(u) \/ Fresh(u) PROVE Apart(u, v)'
  BY <1>3, GrownApart DEF Grown
<1>4. ASSUME NEW i \in Slots, NEW j \in Slots, Grown(u, i), Grown(v, j) PROVE FALSE
  BY <1>4 DEF Grown, WritesAt
<1> QED  BY <1>1, <1>2, <1>3, <1>4, FilesGrow

LEMMA OnceInit == Init => InTurn /\ LeftIsLater /\ Once
<1> SUFFICES ASSUME Init PROVE InTurn /\ LeftIsLater /\ Once
  OBVIOUS
<1>1. buffer = <<>> /\ dblBuff = <<>> /\ DOMAIN disk = {}
  BY DEF Init
<1> QED  BY <1>1 DEF InTurn, LeftIsLater, Once

(* Whatever the way of swapping and however the timer's swaps race with the
   thread, a list is written to one file of a slot at most, and in the order
   queued (recorder.cpp:336-359, 532-570): a swap may lose sound, not repeat it. *)
THEOREM ListsWrittenOnce == Safety => []WrittenOnce
<1> DEFINE Inv == Typed /\ Own /\ InTurn /\ LeftIsLater /\ Once
<1>1. Init => Inv
  BY TypedInit, FilesInit, OnceInit
<1>2. Inv /\ [Next]_vars => Inv'
  <2> SUFFICES ASSUME Inv, [Next]_vars PROVE Inv'
    OBVIOUS
  <2>1. Typed' /\ Own' /\ InTurn' /\ LeftIsLater'
    BY TypedStep, OwnStep, InTurnStep, LeftIsLaterStep
  <2>2. Once'
    BY RisingStep, ApartStep DEF Once
  <2> QED  BY <2>1, <2>2
<1>3. Inv => WrittenOnce
  BY OnceIsWrittenOnce
<1> QED  BY <1>1, <1>2, <1>3, PTL DEF Safety

-----------------------------------------------------------------------------
(* No sound is lost. A list in a queue is one that was heard, with its signal. *)
Matches(list) ==
  IF Loud(list) THEN list.id \in DOMAIN heard /\ list.signal = heard[list.id]
                ELSE list.id = 0

Matched ==
  /\ \A k \in DOMAIN buffer : Matches(buffer[k])
  /\ \A k \in DOMAIN dblBuff : Matches(dblBuff[k])

(* What the thread saw of the head's entry before it uses the slot.          *)
Looked ==
  /\ rec = "write" => Head(dblBuff).signal[slot] = 1
  /\ rec = "close" => Head(dblBuff).signal[slot] # 1

LEMMA PutDataHeard ==
  ASSUME Typed, PutData
  PROVE  /\ UNCHANGED <<main, dblBuff, rec, slot, wavs, disk, fileless>> /\ main = "loop"
         /\ heard \in Seq(Signals) /\ buffer \in Seq(Lists)
         /\ \/ \E s \in Signals : /\ heard' = Append(heard, s)
                                 /\ buffer' = Append(buffer, [id |-> Len(heard) + 1, signal |-> s])
            \/ heard' = heard /\ buffer' = Append(buffer, [id |-> 0, signal |-> <<>>])
<1>1. heard \in Seq(Signals) /\ buffer \in Seq(Lists)
  BY DEF Typed, QueuesOK
<1> QED  BY <1>1, PutDataIs

LEMMA StepHeard ==
  ASSUME [Next]_vars
  PROVE  PutData \/ heard' = heard
<1>1. ASSUME MainStep PROVE PutData \/ heard' = heard
  BY <1>1 DEF MainStep, Timeout, Deinit, Look, CloseTell, CloseSeek, CloseShut, DeleteWav,
              ClearSlot, SwapNew, SwapOpen, StopRecoder, history
<1>2. ASSUME RecorderStep PROVE heard' = heard
  BY <1>2 DEF RecorderStep, Take, RecordList, PollHotSwap, RecordEntry, UseSlot, RecordEnds,
              TestRunning, history
<1> QED  BY <1>1, <1>2 DEF Next, vars, history

LEMMA MatchedStep == ASSUME Typed, Matched, [Next]_vars PROVE Matched'
<1>1. CASE PutData
  <2>1. /\ dblBuff' = dblBuff /\ heard \in Seq(Signals) /\ buffer \in Seq(Lists)
        /\ Len(heard) \in Nat /\ Len(buffer) \in Nat
    BY <1>1, PutDataHeard
  <2>2. PICK list \in Lists :
          /\ buffer' = Append(buffer, list) /\ Matches(list)'
          /\ \A k \in DOMAIN heard : k \in DOMAIN heard' /\ heard'[k] = heard[k]
    <3>1. ASSUME NEW s \in Signals, heard' = Append(heard, s),
                 buffer' = Append(buffer, [id |-> Len(heard) + 1, signal |-> s])
          PROVE  \E list \in Lists :
                   /\ buffer' = Append(buffer, list) /\ Matches(list)'
                   /\ \A k \in DOMAIN heard : k \in DOMAIN heard' /\ heard'[k] = heard[k]
      <4>0. [id |-> Len(heard) + 1, signal |-> s] \in Lists
        BY <2>1 DEF Lists
      <4>1. PICK list \in Lists : /\ list = [id |-> Len(heard) + 1, signal |-> s] /\ Loud(list)
                                  /\ list.id = Len(heard) + 1 /\ list.signal = s
        BY <4>0, SilentIsNoSignal DEF Loud
      <4>2. /\ Len(heard) + 1 \in DOMAIN heard' /\ heard'[Len(heard) + 1] = s
            /\ \A k \in DOMAIN heard : k \in DOMAIN heard' /\ heard'[k] = heard[k]
        BY <2>1, <3>1
      <4>3. Matches(list)'
        BY <4>1, <4>2 DEF Matches, Loud
      <4>4. buffer' = Append(buffer, list)
        BY <3>1, <4>1
      <4> QED  BY <4>1, <4>2, <4>3, <4>4
    <3>2. ASSUME heard' = heard, buffer' = Append(buffer, [id |-> 0, signal |-> <<>>])
          PROVE  \E list \in Lists :
                   /\ buffer' = Append(buffer, list) /\ Matches(list)'
                   /\ \A k \in DOMAIN heard : k \in DOMAIN heard' /\ heard'[k] = heard[k]
      <4>1. [id |-> 0, signal |-> <<>>] \in Lists /\ Matches([id |-> 0, signal |-> <<>>])'
        BY DEF Lists, Matches, Loud
      <4> QED  BY <3>2, <4>1
    <3> QED  BY <1>1, <3>1, <3>2, PutDataHeard
  <2>3. /\ DOMAIN buffer' = 1 .. Len(buffer) + 1 /\ buffer'[Len(buffer) + 1] = list
        /\ \A k \in DOMAIN buffer : buffer'[k] = buffer[k]
        /\ \A k \in DOMAIN buffer' : k \in DOMAIN buffer \/ k = Len(buffer) + 1
    BY <2>1, <2>2
  <2>4. \A x : Matches(x) => Matches(x)'
    BY <2>2 DEF Matches, Loud
  <2>5. \A k \in DOMAIN dblBuff' : Matches(dblBuff[k])'
    BY <2>1, <2>4 DEF Matched, Matches, Loud
  <2>6. ASSUME NEW k \in DOMAIN buffer' PROVE Matches(buffer[k])'
    <3>1. CASE k \in DOMAIN buffer
      <4>1. Matches(buffer[k]) /\ buffer'[k] = buffer[k]
        BY <2>3, <3>1 DEF Matched
      <4> QED  BY <4>1, <2>4 DEF Matches, Loud
    <3>2. CASE k = Len(buffer) + 1
      BY <2>2, <2>3, <3>2 DEF Matches, Loud
    <3> QED  BY <2>3, <3>1, <3>2
  <2> QED  BY <2>5, <2>6 DEF Matched
<1>2. CASE heard' = heard /\ ~PutData
  <2>1. CASE UNCHANGED <<dblBuff, buffer>>
    BY <1>2, <2>1 DEF Matched, Matches, Loud
  <2>2. CASE dblBuff # <<>> /\ dblBuff' = Tail(dblBuff) /\ UNCHANGED buffer
    <3>1. \A k \in DOMAIN dblBuff' : k + 1 \in DOMAIN dblBuff /\ dblBuff'[k] = dblBuff[k + 1]
      BY <2>2, TailLeft
    <3> QED  BY <1>2, <2>2, <3>1 DEF Matched, Matches, Loud
  <2>3. CASE dblBuff = <<>> /\ dblBuff' = buffer /\ buffer' = <<>>
    BY <1>2, <2>3 DEF Matched, Matches, Loud
  <2> QED  BY <1>2, <2>1, <2>2, <2>3, StepQueued DEF Queued
<1> QED  BY <1>1, <1>2, StepHeard

LEMMA LookedStep == ASSUME Typed, Looked, [Next]_vars PROVE Looked'
<1>1. CASE UNCHANGED vars
  BY <1>1, Unchanged DEF Looked
<1>2. ASSUME MainStep PROVE Looked'
  BY <1>2, MainLeavesThread DEF Looked
<1>3. ASSUME Take \/ RecordList \/ PollHotSwap \/ UseSlot \/ RecordEnds \/ TestRunning
      PROVE  Looked'
  <2>1. rec' \notin {"write", "close"}
    BY <1>3 DEF Take, RecordList, PollHotSwap, UseSlot, RecordEnds, TestRunning
  <2> QED  BY <2>1 DEF Looked
<1>4. ASSUME RecordEntry PROVE Looked'
  <2>1. /\ rec = "entry" /\ dblBuff' = dblBuff
        /\ \/ rec' = rec
           \/ rec' = "write" /\ slot' = slot /\ Head(dblBuff).signal[slot] = 1
           \/ rec' = "close" /\ slot' = slot /\ Head(dblBuff).signal[slot] # 1
    BY <1>4, RecordEntryIs
  <2> QED  BY <2>1 DEF Looked
<1>5. CASE Next
  BY <1>2, <1>3, <1>4, <1>5 DEF Next, RecorderStep
<1> QED  BY <1>1, <1>5

(* What a slot has recorded, and whether its file is open, step by step.     *)
Holds(u, n) == \E k \in DOMAIN disk[u].lists : disk[u].lists[k] = n

LEMMA WrittenIs ==
  \A i, n : n \in Written(i) <=> \E u \in DOMAIN disk : disk[u].slot = i /\ Holds(u, n)
  BY DEF Written, Made, Holds

(* But for the timer, no file is cut short.                                  *)
LEMMA FilesStay ==
  ASSUME Typed, Own, [Next]_vars, mode # "time", NEW v \in DOMAIN disk
  PROVE  v \in DOMAIN disk' /\ (Same(v) \/ \E i \in Slots : Grown(v, i))
<1>1. Effect
  BY StepEffect
<1>2. ASSUME NEW i \in Slots, ReplacesAt(i) PROVE v \in DOMAIN disk' /\ Same(v)
  BY <1>2, ReplacedIs DEF Same, Closes
<1>3. ASSUME NEW i \in Slots, ClosesAt(i) PROVE v \in DOMAIN disk' /\ Same(v)
  BY <1>3 DEF ClosesAt, Closes, Same
<1>4. ASSUME NEW i \in Slots, WritesAt(i) PROVE v \in DOMAIN disk' /\ (Same(v) \/ Grown(v, i))
  <2>1. v = wavs[i] => disk[v].slot = i
    BY <1>4 DEF Own, WritesAt, Opened
  <2> QED  BY <1>4, <2>1 DEF WritesAt, Appends, Same, Grown
<1>5. ASSUME disk' = disk PROVE v \in DOMAIN disk' /\ Same(v)
  BY <1>5 DEF Same
<1>6. ASSUME Marked PROVE v \in DOMAIN disk' /\ Same(v)
  BY <1>6 DEF Marked, Same
<1> QED  BY <1>1, <1>2, <1>3, <1>4, <1>5, <1>6 DEF Effect, ClearsAt, NewAt, OpensAt

LEMMA SameHolds ==
  ASSUME NEW u, Same(u), NEW n
  PROVE  Holds(u, n)' <=> Holds(u, n)
  BY DEF Same, Holds

LEMMA GrownHolds ==
  ASSUME Typed, NEW i \in Slots, NEW u \in DOMAIN disk, Grown(u, i), NEW n
  PROVE  Holds(u, n)' <=> Holds(u, n) \/ n = Head(dblBuff).id
<1>1. /\ Len(disk[u].lists) \in Nat
      /\ DOMAIN disk[u].lists = 1 .. Len(disk[u].lists)
      /\ DOMAIN disk'[u].lists = 1 .. Len(disk[u].lists) + 1
      /\ disk'[u].lists[Len(disk[u].lists) + 1] = Head(dblBuff).id
      /\ \A j \in DOMAIN disk[u].lists : disk'[u].lists[j] = disk[u].lists[j]
      /\ \A j \in DOMAIN disk'[u].lists : j \in DOMAIN disk[u].lists
                                          \/ j = Len(disk[u].lists) + 1
  BY GrownIs
<1>2. /\ Len(disk[u].lists) + 1 \in DOMAIN disk'[u].lists
      /\ \A j \in DOMAIN disk[u].lists : j \in DOMAIN disk'[u].lists
  BY <1>1
<1> QED  BY ONLY <1>1, <1>2 DEF Holds

LEMMA WrittenStep ==
  ASSUME Typed, Own, [Next]_vars, mode # "time", NEW i \in Slots, NEW n
  PROVE  n \in Written(i)' <=> n \in Written(i) \/ (WritesAt(i) /\ n = Head(dblBuff).id)
<1>1. ASSUME NEW u \in DOMAIN disk', disk'[u].slot = i, Holds(u, n)'
      PROVE  n \in Written(i) \/ (WritesAt(i) /\ n = Head(dblBuff).id)
  <2>1. CASE Same(u)
    <3>1. u \in DOMAIN disk /\ disk[u].slot = i /\ Holds(u, n)
      BY <1>1, <2>1, SameHolds DEF Same
    <3> QED  BY <3>1, WrittenIs
  <2>2. CASE Fresh(u)
    BY <1>1, <2>2 DEF Fresh, Holds
  <2>3. ASSUME NEW j \in Slots, Grown(u, j)
        PROVE  n \in Written(i) \/ (WritesAt(i) /\ n = Head(dblBuff).id)
    <3>1. u \in DOMAIN disk /\ disk[u].slot = i /\ j = i /\ WritesAt(i)
      BY <1>1, <2>3 DEF Grown
    <3>2. Holds(u, n) \/ n = Head(dblBuff).id
      BY <1>1, <2>3, <3>1, GrownHolds
    <3> QED  BY <3>1, <3>2, WrittenIs
  <2> QED  BY <2>1, <2>2, <2>3, FilesGrow
<1>2. ASSUME NEW u \in DOMAIN disk, disk[u].slot = i, Holds(u, n)
      PROVE  disk'[u].slot = i /\ Holds(u, n)' /\ u \in DOMAIN disk'
  <2>1. u \in DOMAIN disk' /\ (Same(u) \/ \E j \in Slots : Grown(u, j))
    BY FilesStay
  <2>2. CASE Same(u)
    BY <1>2, <2>1, <2>2, SameHolds DEF Same
  <2>3. ASSUME NEW j \in Slots, Grown(u, j)
        PROVE  disk'[u].slot = i /\ Holds(u, n)'
    <3>1. disk'[u].slot = i
      BY <1>2, <2>3 DEF Grown
    <3> QED  BY <1>2, <2>3, <3>1, GrownHolds
  <2> QED  BY <2>1, <2>2, <2>3
<1>3. ASSUME WritesAt(i), n = Head(dblBuff).id PROVE n \in Written(i)'
  <2>0. PICK u : u = wavs[i]
    OBVIOUS
  <2>1. u \in DOMAIN disk /\ disk[u].slot = i /\ Grown(u, i)
    BY <1>3, <2>0 DEF WritesAt, Appends, Opened, Own, Grown
  <2>2. u \in DOMAIN disk' /\ disk'[u].slot = i /\ Holds(u, n)'
    BY <1>3, <2>1, FilesStay, GrownHolds DEF Grown
  <2> QED  BY <2>2 DEF Written, Made, Holds
<1>4. n \in Written(i)' <=> \E u \in DOMAIN disk' : disk'[u].slot = i /\ Holds(u, n)'
  BY DEF Written, Made, Holds
<1>5. n \in Written(i) <=> \E u \in DOMAIN disk : disk[u].slot = i /\ Holds(u, n)
  BY WrittenIs
<1> QED  BY <1>1, <1>2, <1>3, <1>4, <1>5

OpenAt(i) == Opened(wavs[i])

(* The lists that slot i has no file for, as its open() failed.              *)
Failed(i, m) == <<i, m>> \in fileless

SameFailed(i) == \A m : Failed(i, m)' <=> Failed(i, m)

Fails(i, h) == \A m : Failed(i, m)' <=> Failed(i, m) \/ m = h

LEMMA ReplaceOpens ==
  ASSUME Typed, Own, NEW j \in Slots, NEW n, Replace(j, n), NEW i \in Slots
  PROVE  /\ i # j => (OpenAt(i)' <=> OpenAt(i)) /\ SameFailed(i)
         /\ i = j => \/ OpenAt(i)' /\ SameFailed(i)
                     \/ ~OpenAt(i)' /\ Fails(i, n)
<1>1. /\ UID' = UID + 1 /\ UID' \notin DOMAIN disk
      /\ wavs'[j] = UID' /\ \A k \in Slots \ {j} : wavs'[k] = wavs[k]
      /\ \A k \in Slots : wavs[k] # UID'
      /\ \/ /\ DOMAIN disk' = DOMAIN disk \cup {UID'} /\ disk'[UID'] = File(j, FALSE)
            /\ fileless' = fileless
         \/ DOMAIN disk' = DOMAIN disk /\ fileless' = fileless \cup {<<j, n>>}
      /\ Closes(disk, disk', wavs[j])
  BY ReplaceIs DEF Typed
<1>2. Opened(UID)' <=> UID' \in DOMAIN disk' /\ disk'[UID'].open
  BY DEF Opened
<1>3. CASE i = j
  BY <1>1, <1>2, <1>3 DEF OpenAt, Opened, File, Failed, SameFailed, Fails
<1>4. CASE i # j
  <2>1. wavs'[i] = wavs[i] /\ wavs[i] # UID'
    BY <1>1, <1>4
  <2>2. ASSUME wavs[i] \in DOMAIN disk PROVE disk'[wavs[i]] = disk[wavs[i]]
    <3>1. wavs[i] # wavs[j]
      <4>1. wavs[i] # Null
        BY <2>2, FilesAre
      <4> QED  BY <1>4, <4>1 DEF Own
    <3> QED  BY <1>1, <2>2, <3>1 DEF Closes
  <2>3. OpenAt(i)' <=> OpenAt(i)
    BY <1>1, <2>1, <2>2 DEF OpenAt, Opened
  <2>4. SameFailed(i)
    BY <1>1, <1>4 DEF SameFailed, Failed
  <2> QED  BY <1>4, <2>3, <2>4
<1> QED  BY <1>3, <1>4

LEMMA SilenceCloses ==
  ASSUME Typed, Own, NEW j \in Slots, Silence(j), NEW i \in Slots
  PROVE  OpenAt(i)' <=> i # j /\ OpenAt(i)
<1>1. wavs' = wavs /\ DOMAIN disk' = DOMAIN disk /\ Closes(disk, disk', wavs[j])
  BY SilenceIs DEF Typed
<1>2. CASE i = j
  BY <1>1, <1>2 DEF OpenAt, Opened, Closes
<1>3. CASE i # j
  <2>1. ASSUME wavs[i] \in DOMAIN disk PROVE disk'[wavs[i]] = disk[wavs[i]]
    <3>1. wavs[i] # wavs[j]
      <4>1. wavs[i] # Null
        BY <2>1, FilesAre
      <4> QED  BY <1>3, <4>1 DEF Own
    <3> QED  BY <1>1, <2>1, <3>1 DEF Closes
  <2> QED  BY <1>1, <1>3, <2>1 DEF OpenAt, Opened
<1> QED  BY <1>2, <1>3

LEMMA WriteKeepsOpen ==
  ASSUME NEW j \in Slots, WritesAt(j), NEW i \in Slots
  PROVE  OpenAt(i)' <=> OpenAt(i)
<1>1. wavs' = wavs /\ DOMAIN disk' = DOMAIN disk
      /\ \A v \in DOMAIN disk : disk'[v].open = disk[v].open
  BY DEF WritesAt, Appends
<1> QED  BY <1>1 DEF OpenAt, Opened

(* What is left for a slot changes when the thread passes it with a list.    *)
SameLeft(i) == \A m : Left(m, i)' <=> Left(m, i)

LEMMA LeftSame ==
  ASSUME NEW i, UNCHANGED <<dblBuff, buffer>>,
         \A k \in DOMAIN dblBuff : Pending(k, i)' <=> Pending(k, i)
  PROVE  SameLeft(i)
  BY DEF SameLeft, Left, Loud

LEMMA HeadIs ==
  ASSUME Typed, dblBuff # <<>>
  PROVE  /\ 1 \in DOMAIN dblBuff /\ Head(dblBuff) = dblBuff[1] /\ Head(dblBuff).id \in Nat
         /\ \A k \in DOMAIN dblBuff : k \in Nat /\ k > 0
<1>1. 1 \in DOMAIN dblBuff /\ Head(dblBuff) = dblBuff[1]
  BY TailIs DEF Typed, QueuesOK
<1> QED  BY <1>1, IdsHeard

LEMMA HeadLeast ==
  ASSUME Typed, InTurn, dblBuff # <<>>, Loud(Head(dblBuff)), NEW i, Pending(1, i)
  PROVE  Left(Head(dblBuff).id, i) /\ \A m : Left(m, i) => Head(dblBuff).id <= m
<1>1. /\ 1 \in DOMAIN dblBuff /\ Head(dblBuff) = dblBuff[1] /\ Head(dblBuff).id \in Nat
      /\ \A k \in DOMAIN dblBuff : k \in Nat /\ k > 0
      /\ \A k \in DOMAIN dblBuff : dblBuff[k].id \in Nat
      /\ \A k \in DOMAIN buffer : buffer[k].id \in Nat
  BY HeadIs, IdsHeard
<1>2. /\ \A k \in DOMAIN dblBuff : k # 1 /\ Loud(dblBuff[k]) => Head(dblBuff).id < dblBuff[k].id
      /\ \A k \in DOMAIN buffer : Loud(buffer[k]) => Head(dblBuff).id < buffer[k].id
  BY <1>1 DEF InTurn
<1>3. Left(Head(dblBuff).id, i)
  BY <1>1 DEF Left
<1> QED  BY <1>1, <1>2, <1>3 DEF Left

LEMMA PassedLeft ==
  ASSUME Typed, InTurn, UNCHANGED <<dblBuff, buffer>>, rec \in {"entry", "close", "write"},
         rec' = "entry", slot \in Entries, slot' = slot + 1
  PROVE  /\ Left(Head(dblBuff).id, slot)
         /\ \A m : Left(m, slot) => Head(dblBuff).id <= m
         /\ \A i \in Entries : i = slot =>
              \A m : Left(m, i)' <=> Left(m, i) /\ m # Head(dblBuff).id
         /\ \A i \in Entries : i # slot => SameLeft(i)
<1> USE ConstantsTyped
<1> DEFINE h == Head(dblBuff).id
<1>1. dblBuff # <<>> /\ Loud(Head(dblBuff)) /\ slot \in Nat
  BY DEF Typed, ThreadOK, Entries
<1>2. /\ 1 \in DOMAIN dblBuff /\ Head(dblBuff) = dblBuff[1] /\ h \in Nat
      /\ \A k \in DOMAIN dblBuff : k \in Nat /\ k > 0
      /\ \A k \in DOMAIN dblBuff : dblBuff[k].id \in Nat
      /\ \A k \in DOMAIN buffer : buffer[k].id \in Nat
  BY <1>1, HeadIs, IdsHeard
<1>3. Left(h, slot)
  BY <1>1, <1>2 DEF Left, Pending
<1>4. /\ \A k \in DOMAIN dblBuff : k # 1 /\ Loud(dblBuff[k]) => h < dblBuff[k].id
      /\ \A k \in DOMAIN buffer : Loud(buffer[k]) => h < buffer[k].id
  BY <1>1, <1>2 DEF InTurn
<1>5. ASSUME NEW m, Left(m, slot) PROVE h <= m
  BY <1>2, <1>4, <1>5 DEF Left
<1>6. ASSUME NEW i \in Entries, i = slot, NEW m
      PROVE  Left(m, i)' <=> Left(m, i) /\ m # h
  <2>1. \A k \in DOMAIN dblBuff : (Pending(k, i)' <=> k # 1) /\ Pending(k, i)
    BY <1>1, <1>2, <1>6 DEF Pending
  <2>2. ASSUME Left(m, i)' PROVE Left(m, i) /\ m # h
    BY <1>2, <1>4, <2>1, <2>2 DEF Left, Loud
  <2>3. ASSUME Left(m, i), m # h PROVE Left(m, i)'
    BY <1>2, <2>1, <2>3 DEF Left, Loud
  <2> QED  BY <2>2, <2>3
<1>7. ASSUME NEW i \in Entries, i # slot PROVE SameLeft(i)
  <2>1. \A k \in DOMAIN dblBuff : Pending(k, i)' <=> Pending(k, i)
    BY <1>1, <1>2, <1>7 DEF Pending, Entries
  <2> QED  BY <2>1, LeftSame
<1> QED  BY <1>3, <1>5, <1>6, <1>7

(* Nothing left changes when the queue moves on.                             *)
LEMMA MovesLeft ==
  ASSUME Typed, Take \/ RecordList \/ RecordEnds \/ TestRunning \/ PollHotSwap,
         NEW i \in Entries
  PROVE  SameLeft(i)
<1> USE ConstantsTyped
<1>1. i \in Nat /\ i >= 1 /\ i <= Channels
  BY DEF Entries
<1>2. CASE Take
  <2>1. rec = "take" /\ rec' = "next" /\ dblBuff' = dblBuff \o buffer /\ buffer' = <<>>
    BY <1>2 DEF Take, TakeAll
  <2>2. dblBuff = <<>> /\ dblBuff' = buffer
    <3>1. dblBuff = <<>> /\ buffer \in Seq(Lists)
      BY <2>1 DEF Typed, ThreadOK, QueuesOK
    <3> QED  BY <2>1, <3>1
  <2> QED  BY <2>1, <2>2 DEF SameLeft, Left, Pending, Loud
<1>3. ASSUME dblBuff # <<>>, dblBuff' = Tail(dblBuff), buffer' = buffer, rec' = "next",
             ~Loud(Head(dblBuff)) \/ ~Pending(1, i),
             \A k \in DOMAIN dblBuff : k # 1 => Pending(k, i)
      PROVE  SameLeft(i)
  <2>1. /\ 1 \in DOMAIN dblBuff /\ Head(dblBuff) = dblBuff[1]
        /\ \A k \in DOMAIN dblBuff : k \in Nat /\ k > 0
    BY <1>3, HeadIs
  <2>2. /\ \A k \in DOMAIN dblBuff' : k + 1 \in DOMAIN dblBuff /\ k \in Nat /\ k > 0
                                      /\ dblBuff'[k] = dblBuff[k + 1]
    BY <1>3, TailLeft
  <2>3. \A k \in DOMAIN dblBuff : k # 1 => k - 1 \in DOMAIN dblBuff' /\ dblBuff'[k - 1] = dblBuff[k]
    <3>1. dblBuff \in Seq(Lists)
      BY DEF Typed, QueuesOK
    <3> QED  BY <1>3, <3>1
  <2>4. ASSUME NEW m, Left(m, i)' PROVE Left(m, i)
    <3>1. CASE \E k \in DOMAIN dblBuff' : Loud(dblBuff'[k]) /\ dblBuff'[k].id = m
      <4>1. PICK k \in DOMAIN dblBuff' : Loud(dblBuff'[k]) /\ dblBuff'[k].id = m
        BY <3>1
      <4>2. k + 1 \in DOMAIN dblBuff /\ k + 1 # 1 /\ dblBuff[k + 1] = dblBuff'[k]
        BY <2>2
      <4> QED  BY <1>3, <4>1, <4>2 DEF Left
    <3> QED  BY <1>3, <2>4, <3>1 DEF Left, Loud
  <2>5. ASSUME NEW m, Left(m, i) PROVE Left(m, i)'
    <3>1. CASE \E k \in DOMAIN dblBuff : k # 1 /\ Loud(dblBuff[k]) /\ dblBuff[k].id = m
      BY <1>3, <2>3, <3>1 DEF Left, Pending, Loud
    <3> QED  BY <1>3, <2>1, <2>5, <3>1 DEF Left, Loud
  <2> QED  BY <2>4, <2>5 DEF SameLeft
<1>4. CASE RecordEnds
  <2>1. /\ rec = "entry" /\ rec' = "next" /\ dblBuff # <<>> /\ dblBuff' = Tail(dblBuff)
        /\ buffer' = buffer /\ slot \in 1 .. Channels + 1 /\ slot \notin Entries
    BY <1>4 DEF RecordEnds, Recorded, sharedq, Typed, ThreadOK
  <2>2. ~Pending(1, i)
    BY <1>1, <2>1 DEF Pending, Entries
  <2>3. \A k \in DOMAIN dblBuff : k # 1 => Pending(k, i)
    <3>1. \A k \in DOMAIN dblBuff : k \in Nat /\ k > 0
      BY <2>1, HeadIs
    <3> QED  BY <3>1 DEF Pending
  <2> QED  BY <1>3, <2>1, <2>2, <2>3
<1>5. CASE RecordList
  <2>1. /\ rec = "next" /\ slot' = 1 /\ buffer' = buffer
        /\ \/ rec' \in {"sleep", "poll", "entry"} /\ UNCHANGED dblBuff
           \/ /\ dblBuff # <<>> /\ dblBuff' = Tail(dblBuff) /\ rec' = "next"
              /\ ~Loud(Head(dblBuff))
    BY <1>5, RecordListIs
  <2>2. \A k : Pending(k, i)
    BY <2>1 DEF Pending
  <2>3. ASSUME rec' \in {"sleep", "poll", "entry"}, UNCHANGED dblBuff PROVE SameLeft(i)
    <3>1. \A k : Pending(k, i)'
      BY <1>1, <2>1, <2>3 DEF Pending
    <3> QED  BY <2>1, <2>2, <2>3, <3>1, LeftSame
  <2> QED  BY <1>3, <2>1, <2>2, <2>3
<1>6. CASE TestRunning
  <2>1. rec = "sleep" /\ rec' \in {"take", "off"} /\ UNCHANGED <<dblBuff, buffer>>
    BY <1>6 DEF TestRunning, sharedq
  <2> QED  BY <2>1, LeftSame DEF Pending
<1>7. CASE PollHotSwap
  <2>1. /\ rec = "poll" /\ UNCHANGED <<dblBuff, buffer>>
        /\ rec' = "poll" \/ (rec' = "entry" /\ slot' = 1)
    BY <1>7, PollHotSwapIs
  <2>2. \A k : Pending(k, i)' /\ Pending(k, i)
    BY <1>1, <2>1 DEF Pending
  <2> QED  BY <2>1, <2>2, LeftSame
<1> QED  BY <1>2, <1>4, <1>5, <1>6, <1>7

SameWritten(i) == \A n : n \in Written(i)' <=> n \in Written(i)

SameSlot(i) ==
  /\ heard' = heard /\ SameLeft(i) /\ SameWritten(i) /\ SameFailed(i)
  /\ OpenAt(i)' <=> OpenAt(i)

(* The thread passes slot i with list h: it opens a file, or fails to, closes
   the file, or writes the list to it.                                       *)
Handled(i, h) ==
  \/ /\ heard[h][i] = 1 /\ ~OpenAt(i) /\ SameWritten(i)
     /\ (OpenAt(i)' /\ SameFailed(i)) \/ (~OpenAt(i)' /\ Fails(i, h + 1))
  \/ heard[h][i] # 1 /\ ~OpenAt(i)' /\ SameWritten(i) /\ SameFailed(i)
  \/ /\ heard[h][i] = 1 /\ OpenAt(i) /\ OpenAt(i)' /\ SameFailed(i)
     /\ \A n : n \in Written(i)' <=> n \in Written(i) \/ n = h

Passes(i, h) ==
  /\ heard' = heard /\ Left(h, i) /\ Handled(i, h)
  /\ \A m : Left(m, i) => h <= m
  /\ \A m : Left(m, i)' <=> Left(m, i) /\ m # h

(* Before list h, it closes the file of slot i for its size, and opens none.  *)
Loses(i, h) ==
  /\ heard' = heard /\ Left(h, i) /\ SameLeft(i) /\ SameWritten(i)
  /\ ~OpenAt(i)' /\ Fails(i, h)
  /\ \A m : Left(m, i) => h <= m

LEMMA HeadHeard ==
  ASSUME Typed, Matched, dblBuff # <<>>, Loud(Head(dblBuff))
  PROVE  /\ Head(dblBuff).id \in DOMAIN heard
         /\ Head(dblBuff).signal = heard[Head(dblBuff).id]
<1>1. 1 \in DOMAIN dblBuff /\ Head(dblBuff) = dblBuff[1]
  BY HeadIs
<1> QED  BY <1>1 DEF Matched, Matches

LEMMA UseSlotWrites ==
  ASSUME Typed, UseSlot, rec = "write", main = "loop", WriteEntry(slot), Opened(wavs[slot])
  PROVE  WritesAt(slot)
<1>1. /\ rec' = "entry" /\ slot' = slot + 1 /\ UNCHANGED <<buffer, dblBuff>>
      /\ dblBuff # <<>> /\ Loud(Head(dblBuff)) /\ Head(dblBuff).id \in DOMAIN heard
      /\ slot \in Slots
  BY UseSlotIs
<1>2. wavs[slot] \in DOMAIN disk /\ FilesOK /\ ~Sought(wavs[slot])
  BY LoopIsCalm DEF Opened, Typed
<1>3. PICK n \in DOMAIN heard : n = Head(dblBuff).id
  BY <1>1
<1>4. wavs' = wavs /\ Appends(disk, disk', wavs[slot], n)
  BY <1>1, <1>2, <1>3, WriteIs
<1> QED  BY <1>1, <1>3, <1>4 DEF WritesAt

LEMMA NoWrite ==
  ASSUME Typed, Own, [Next]_vars, mode # "time", NEW i \in Slots, ~WritesAt(i)
  PROVE  SameWritten(i)
  BY WrittenStep DEF SameWritten

(* But for the timer, and before deinit, what a step of the thread does at a
   slot.                                                                     *)
LEMMA PollSlot ==
  ASSUME Typed, Own, InTurn, [Next]_vars, mode # "time", PollHotSwap,
         NEW i \in Slots, i \in Entries
  PROVE  SameSlot(i) \/ Loses(i, Head(dblBuff).id)
<1> DEFINE h == Head(dblBuff).id
<1>1. /\ rec = "poll" /\ slot \in Slots /\ heard' = heard
      /\ dblBuff # <<>> /\ Loud(Head(dblBuff))
      /\ \/ Replace(slot, h) /\ OpenAt(slot)
         \/ UNCHANGED <<wavs, disk, fileless>>
  BY PollHotSwapIs DEF OpenAt
<1>2. SameLeft(i) /\ ~WritesAt(i)
  BY <1>1, MovesLeft DEF WritesAt
<1>3. SameWritten(i)
  BY <1>2, NoWrite
<1>4. Left(h, i) /\ \A m : Left(m, i) => h <= m
  <2>1. Pending(1, i)
    BY <1>1 DEF Pending
  <2> QED  BY <1>1, <2>1, HeadLeast
<1>5. CASE UNCHANGED <<wavs, disk, fileless>>
  BY <1>1, <1>2, <1>3, <1>5 DEF SameSlot, SameFailed, Failed, OpenAt, Opened
<1>6. CASE Replace(slot, h) /\ OpenAt(slot)
  <2> SUFFICES SameSlot(i) \/ Loses(i, h)
    OBVIOUS
  <2> HIDE DEF h
  <2>1. /\ i # slot => (OpenAt(i)' <=> OpenAt(i)) /\ SameFailed(i)
        /\ i = slot => \/ OpenAt(i)' /\ SameFailed(i)
                       \/ ~OpenAt(i)' /\ Fails(i, h)
    BY <1>1, <1>6, ReplaceOpens
  <2>2. CASE i # slot \/ (OpenAt(i)' /\ SameFailed(i))
    BY <1>1, <1>2, <1>3, <1>6, <2>1, <2>2 DEF SameSlot
  <2>3. CASE i = slot /\ ~OpenAt(i)' /\ Fails(i, h)
    BY <1>1, <1>2, <1>3, <1>4, <2>3 DEF Loses
  <2> QED  BY <2>1, <2>2, <2>3
<1> QED  BY <1>1, <1>5, <1>6

LEMMA EntrySlot ==
  ASSUME Typed, Own, Reachable, InTurn, Matched, [Next]_vars, mode # "time", main = "loop",
         RecordEntry, NEW i \in Slots, i \in Entries
  PROVE  SameSlot(i) \/ Passes(i, Head(dblBuff).id)
<1> DEFINE h == Head(dblBuff).id
<1>1. /\ rec = "entry" /\ slot \in Entries /\ dblBuff # <<>> /\ Loud(Head(dblBuff))
      /\ UNCHANGED <<heard, dblBuff, buffer>>
      /\ \/ UNCHANGED <<rec, slot, wavs, disk, fileless>>
         \/ /\ slot \in Slots /\ Replace(slot, h + 1) /\ ~OpenAt(slot)
            /\ rec' = "entry" /\ slot' = slot + 1 /\ Head(dblBuff).signal[slot] = 1
         \/ /\ UNCHANGED <<wavs, disk, fileless>> /\ At(slot) = Null
            /\ rec' = "entry" /\ slot' = slot + 1
         \/ UNCHANGED <<slot, wavs, disk, fileless>> /\ rec' \in {"write", "close"}
  BY RecordEntryIs DEF OpenAt
<1>2. ~WritesAt(i)
  BY <1>1 DEF WritesAt
<1>3. SameWritten(i)
  BY <1>2, NoWrite
<1>4. CASE /\ UNCHANGED <<slot, wavs, disk, fileless>>
           /\ rec' = rec \/ rec' \in {"write", "close"}
  <2>1. SameLeft(i)
    BY <1>1, <1>4, LeftSame DEF Pending
  <2> QED  BY <1>1, <1>3, <1>4, <2>1 DEF SameSlot, SameFailed, Failed, OpenAt, Opened
<1>5. ASSUME rec' = "entry", slot' = slot + 1
      PROVE  /\ Left(h, slot)
             /\ \A m : Left(m, slot) => h <= m
             /\ i = slot => \A m : Left(m, i)' <=> Left(m, i) /\ m # h
             /\ i # slot => SameLeft(i)
  BY <1>1, <1>5, PassedLeft
<1>6. CASE /\ UNCHANGED <<wavs, disk, fileless>> /\ At(slot) = Null
           /\ rec' = "entry" /\ slot' = slot + 1
  <2>1. i # slot
    BY <1>6 DEF Reachable, At
  <2> QED  BY <1>1, <1>3, <1>5, <1>6, <2>1 DEF SameSlot, SameFailed, Failed, OpenAt, Opened
<1>7. CASE /\ slot \in Slots /\ Replace(slot, h + 1) /\ ~OpenAt(slot)
           /\ rec' = "entry" /\ slot' = slot + 1 /\ Head(dblBuff).signal[slot] = 1
  <2> DEFINE n == h + 1
  <2>1. Replace(slot, n)
    BY <1>7
  <2> HIDE DEF n
  <2>2. /\ i # slot => (OpenAt(i)' <=> OpenAt(i)) /\ SameFailed(i)
        /\ i = slot => \/ OpenAt(i)' /\ SameFailed(i)
                       \/ ~OpenAt(i)' /\ Fails(i, n)
    BY <1>7, <2>1, ReplaceOpens
  <2>3. CASE i # slot
    BY <1>1, <1>3, <1>5, <1>7, <2>2, <2>3 DEF SameSlot
  <2>4. CASE i = slot
    <3>1. heard[h][i] = 1
      BY <1>1, <1>7, <2>4, HeadHeard
    <3>2. Handled(i, h)
      BY <1>3, <1>7, <2>2, <2>4, <3>1 DEF Handled, n
    <3> QED  BY <1>1, <1>5, <1>7, <2>4, <3>2 DEF Passes
  <2> QED  BY <2>3, <2>4
<1> QED  BY <1>1, <1>4, <1>6, <1>7

LEMMA UseSlotSlot ==
  ASSUME Typed, Own, Reachable, InTurn, Matched, Looked, Safe, [Next]_vars, mode # "time",
         main = "loop", UseSlot, NEW i \in Slots, i \in Entries
  PROVE  SameSlot(i) \/ Passes(i, Head(dblBuff).id)
<1>1. /\ rec \in {"close", "write"} /\ slot \in Entries /\ slot \in Slots
      /\ dblBuff # <<>> /\ Loud(Head(dblBuff)) /\ rec' = "entry" /\ slot' = slot + 1
      /\ UNCHANGED <<heard, dblBuff, buffer, fileless>>
  BY UseSlotIs
<1>2. ~Missing(slot) /\ At(slot) = wavs[slot] /\ (rec = "write" => Opened(wavs[slot]) /\ OpenAt(slot))
  BY <1>1, LoopIsCalm DEF Safe, Reachable, At, OpenAt
<1>3. \/ rec = "close" /\ Silence(slot) /\ Head(dblBuff).signal[slot] # 1
      \/ rec = "write" /\ WriteEntry(slot) /\ Head(dblBuff).signal[slot] = 1
  BY <1>1, <1>2, UseSlotIs DEF Looked
<1>4. /\ Left(Head(dblBuff).id, slot)
      /\ \A m : Left(m, slot) => Head(dblBuff).id <= m
      /\ i = slot => \A m : Left(m, i)' <=> Left(m, i) /\ m # Head(dblBuff).id
      /\ i # slot => SameLeft(i)
  BY <1>1, PassedLeft
<1>5. Head(dblBuff).signal = heard[Head(dblBuff).id] /\ SameFailed(i)
  BY <1>1, HeadHeard DEF SameFailed, Failed
<1>6. CASE rec = "close" /\ Silence(slot) /\ Head(dblBuff).signal[slot] # 1
  <2>1. (OpenAt(i)' <=> i # slot /\ OpenAt(i)) /\ SameWritten(i)
    <3>1. ~WritesAt(i)
      BY <1>6 DEF WritesAt
    <3> QED  BY <1>1, <1>6, <3>1, NoWrite, SilenceCloses
  <2>2. CASE i # slot
    BY <1>1, <1>4, <1>5, <2>1, <2>2 DEF SameSlot
  <2>3. CASE i = slot
    <3>1. Handled(i, Head(dblBuff).id)
      BY <1>5, <1>6, <2>1, <2>3 DEF Handled
    <3> QED  BY <1>1, <1>4, <2>3, <3>1 DEF Passes
  <2> QED  BY <2>2, <2>3
<1>7. CASE rec = "write" /\ WriteEntry(slot) /\ Head(dblBuff).signal[slot] = 1
  <2>1. WritesAt(slot) /\ OpenAt(slot)
    BY <1>1, <1>2, <1>7, UseSlotWrites
  <2>2. OpenAt(i)' <=> OpenAt(i)
    BY <1>1, <2>1, WriteKeepsOpen
  <2>3. CASE i # slot
    <3>1. ~WritesAt(i)
      BY <2>3 DEF WritesAt
    <3> QED  BY <1>1, <1>4, <1>5, <2>2, <2>3, <3>1, NoWrite DEF SameSlot
  <2>4. CASE i = slot
    <3>1. WritesAt(i) /\ OpenAt(i)
      BY <2>1, <2>4
    <3>2. \A n : n \in Written(i)' <=> n \in Written(i) \/ n = Head(dblBuff).id
      BY <3>1, WrittenStep
    <3>3. Handled(i, Head(dblBuff).id)
      BY <1>5, <1>7, <2>2, <2>4, <3>1, <3>2 DEF Handled
    <3> QED  BY <1>1, <1>4, <2>4, <3>3 DEF Passes
  <2> QED  BY <2>3, <2>4
<1> QED  BY <1>3, <1>6, <1>7

LEMMA SlotStep ==
  ASSUME Typed, Own, Reachable, InTurn, Matched, Looked, Safe, [Next]_vars,
         mode # "time", main' = "loop", NEW i \in Slots, i \in Entries
  PROVE  \/ PutData \/ SameSlot(i)
         \/ dblBuff # <<>> /\ (Passes(i, Head(dblBuff).id) \/ Loses(i, Head(dblBuff).id))
<1>1. main = "loop" /\ (UNCHANGED vars \/ PutData \/ RecorderStep)
  BY LoopStep
<1>2. CASE UNCHANGED vars
  <2>1. UNCHANGED <<heard, fileless, wavs, disk, dblBuff, buffer, rec, slot>>
    BY <1>2, Unchanged
  <2>2. SameLeft(i) /\ ~WritesAt(i)
    BY <2>1, LeftSame DEF Pending, WritesAt
  <2> QED  BY <2>1, <2>2, NoWrite DEF SameSlot, SameFailed, Failed, OpenAt, Opened
<1>3. CASE Take \/ RecordList \/ RecordEnds \/ TestRunning
  <2>1. UNCHANGED <<heard, fileless, wavs, disk>> /\ rec # "write"
    BY <1>3 DEF Take, RecordList, RecordEnds, TestRunning, waves, history
  <2>2. SameLeft(i) /\ ~WritesAt(i)
    BY <1>3, <2>1, MovesLeft DEF WritesAt
  <2> QED  BY <2>1, <2>2, NoWrite DEF SameSlot, SameFailed, Failed, OpenAt, Opened
<1>4. CASE PollHotSwap
  <2>1. dblBuff # <<>>
    BY <1>4, PollHotSwapIs
  <2> QED  BY <1>4, <2>1, PollSlot
<1>5. CASE RecordEntry
  <2>1. dblBuff # <<>>
    BY <1>5, RecordEntryIs
  <2> QED  BY <1>1, <1>5, <2>1, EntrySlot
<1>6. CASE UseSlot
  <2>1. dblBuff # <<>>
    BY <1>6, UseSlotIs
  <2> QED  BY <1>1, <1>6, <2>1, UseSlotSlot
<1> QED  BY <1>1, <1>2, <1>3, <1>4, <1>5, <1>6 DEF RecorderStep

(* What a slot has done is a first part of what was heard; its file is open if
   the last list of that part had sound, and no open failed since; and it holds
   every list of sound in that part that follows one of sound, but for those
   that came after an open that failed, none of which is still to come.      *)
Prefix(i) ==
  \A m, n \in DOMAIN heard : Left(m, i) /\ m < n => Left(n, i)

Last(n, i) == ~Left(n, i) /\ (n + 1 \in DOMAIN heard => Left(n + 1, i))

OpenIff(i) ==
  OpenAt(i) <=> \E n \in DOMAIN heard : Last(n, i) /\ heard[n][i] = 1 /\ ~Failed(i, n + 1)

Sounds(n, i) == n # 1 /\ heard[n][i] = 1 /\ heard[n - 1][i] = 1

WrittenIff(i) ==
  \A n : n \in Written(i) <=>
    n \in DOMAIN heard /\ ~Left(n, i) /\ Sounds(n, i) /\ ~Failed(i, n)

FailedBefore(i) ==
  \A m : Failed(i, m) => /\ m \in Nat /\ m <= Len(heard) + 1
                         /\ \A n \in DOMAIN heard : Left(n, i) => m <= n

KeptAt(i) == Prefix(i) /\ OpenIff(i) /\ WrittenIff(i) /\ FailedBefore(i)

Kept == mode # "time" /\ main = "loop" => \A i \in Slots \cap Entries : KeptAt(i)

LEMMA SameKept ==
  ASSUME NEW i, KeptAt(i), SameSlot(i)
  PROVE  KeptAt(i)'
<1>1. heard' = heard /\ (OpenAt(i)' <=> OpenAt(i))
  BY DEF SameSlot
<1>2. \A m : Left(m, i)' <=> Left(m, i)
  BY DEF SameSlot, SameLeft
<1>3. \A n : (n \in Written(i)' <=> n \in Written(i)) /\ (Failed(i, n)' <=> Failed(i, n))
  BY DEF SameSlot, SameWritten, SameFailed
<1>4. Prefix(i)' /\ FailedBefore(i)'
  BY <1>1, <1>2, <1>3 DEF KeptAt, Prefix, FailedBefore
<1>5. \A n : Last(n, i)' <=> Last(n, i)
  BY <1>1, <1>2 DEF Last
<1>6. OpenIff(i)'
  BY <1>1, <1>3, <1>5 DEF KeptAt, OpenIff
<1>7. WrittenIff(i)'
  BY <1>1, <1>2, <1>3 DEF KeptAt, WrittenIff, Sounds
<1> QED  BY <1>4, <1>6, <1>7 DEF KeptAt

(* When h is the next list for a slot, the one before it is the last.        *)
LEMMA NextIs ==
  ASSUME Typed, NEW i, KeptAt(i), NEW h \in DOMAIN heard, Left(h, i),
         \A m : Left(m, i) => h <= m
  PROVE  /\ DOMAIN heard = 1 .. Len(heard) /\ Len(heard) \in Nat /\ h \in Nat /\ h >= 1
         /\ \A n \in DOMAIN heard : Left(n, i) <=> h <= n
         /\ OpenAt(i) <=> h # 1 /\ heard[h - 1][i] = 1 /\ ~Failed(i, h)
         /\ \A m : Failed(i, m) => m \in Nat /\ m <= h
<1>1. /\ DOMAIN heard = 1 .. Len(heard) /\ Len(heard) \in Nat
      /\ h \in Nat /\ h >= 1 /\ \A n \in DOMAIN heard : n \in Nat /\ n >= 1
  BY IdsHeard
<1>2. \A n \in DOMAIN heard : Left(n, i) <=> h <= n
  <2>1. \A n \in DOMAIN heard : h < n => Left(n, i)
    BY DEF KeptAt, Prefix
  <2> QED  BY <1>1, <2>1
<1>3. \A n \in DOMAIN heard : Last(n, i) <=> n = h - 1
  BY <1>1, <1>2 DEF Last
<1>4. OpenAt(i) <=> h # 1 /\ heard[h - 1][i] = 1 /\ ~Failed(i, h)
  <2>1. (h # 1 <=> h - 1 \in DOMAIN heard) /\ h - 1 + 1 = h
    BY <1>1
  <2> QED  BY <1>3, <2>1 DEF KeptAt, OpenIff
<1>5. \A m : Failed(i, m) => m \in Nat /\ m <= h
  BY DEF KeptAt, FailedBefore
<1> QED  BY <1>1, <1>2, <1>4, <1>5

LEMMA PassKept ==
  ASSUME Typed, NEW i, KeptAt(i), NEW h \in DOMAIN heard, Passes(i, h)
  PROVE  KeptAt(i)'
<1>1. /\ heard' = heard /\ Handled(i, h) /\ Left(h, i)
      /\ \A m : Left(m, i) => h <= m
      /\ \A m : Left(m, i)' <=> Left(m, i) /\ m # h
  BY DEF Passes
<1>2. /\ DOMAIN heard = 1 .. Len(heard) /\ Len(heard) \in Nat /\ h \in Nat /\ h >= 1
      /\ \A n \in DOMAIN heard : Left(n, i) <=> h <= n
      /\ OpenAt(i) <=> h # 1 /\ heard[h - 1][i] = 1 /\ ~Failed(i, h)
      /\ \A m : Failed(i, m) => m \in Nat /\ m <= h
  BY <1>1, NextIs
<1>3. \A n \in DOMAIN heard : n \in Nat /\ (Left(n, i)' <=> h < n)
  BY <1>1, <1>2
<1>4. Prefix(i)'
  BY <1>1, <1>2, <1>3 DEF Prefix
<1>5. \A n \in DOMAIN heard : Last(n, i)' <=> n = h
  <2>1. \A n \in DOMAIN heard :
          Last(n, i)' <=> ~(h < n) /\ (n + 1 \in DOMAIN heard => h < n + 1)
    BY <1>1, <1>3 DEF Last
  <2> QED  BY <1>2, <2>1
<1>6. OpenAt(i)' <=> heard[h][i] = 1 /\ ~Failed(i, h + 1)'
  <2>1. ~Failed(i, h + 1)
    BY <1>2
  <2> QED  BY <1>1, <2>1 DEF Handled, SameFailed, Fails
<1>7. OpenIff(i)'
  BY <1>1, <1>5, <1>6 DEF OpenIff
<1>8. \A m : Failed(i, m)' => Failed(i, m) \/ m = h + 1
  BY <1>1 DEF Handled, SameFailed, Fails
<1>9. FailedBefore(i)'
  <2>1. ASSUME NEW m, Failed(i, m)' PROVE m \in Nat /\ m <= h + 1
    BY <1>2, <1>8, <2>1
  <2> QED  BY <1>1, <1>2, <1>3, <2>1 DEF FailedBefore
<1>10. \A n : n \in Written(i)' <=> n \in Written(i) \/ (n = h /\ Sounds(h, i) /\ ~Failed(i, h))
  BY <1>1, <1>2 DEF Handled, SameWritten, Sounds
<1>11. \A n \in DOMAIN heard : ~Left(n, i)' => (Failed(i, n)' <=> Failed(i, n))
  <2>1. ASSUME NEW n \in DOMAIN heard, ~Left(n, i)' PROVE n # h + 1
    BY <1>2, <1>3, <2>1
  <2>2. \A m : m # h + 1 => (Failed(i, m)' <=> Failed(i, m))
    BY <1>1 DEF Handled, SameFailed, Fails
  <2> QED  BY <2>1, <2>2
<1>12. \A n : n \in DOMAIN heard => (Left(n, i)' <=> Left(n, i) /\ n # h)
  BY <1>1
<1>13. h \in DOMAIN heard /\ ~Left(h, i)'
  BY <1>1
<1>14. \A n : n \in Written(i) <=>
         n \in DOMAIN heard /\ ~Left(n, i) /\ Sounds(n, i) /\ ~Failed(i, n)
  BY DEF KeptAt, WrittenIff
<1>15. \A n : Sounds(n, i)' <=> Sounds(n, i)
  BY <1>1 DEF Sounds
<1>16. WrittenIff(i)'
  <2>1. ASSUME NEW n
        PROVE  n \in Written(i)' <=>
                 n \in DOMAIN heard /\ ~Left(n, i)' /\ Sounds(n, i) /\ ~Failed(i, n)'
    BY <1>1, <1>10, <1>11, <1>12, <1>13, <1>14
  <2> QED  BY <1>1, <1>15, <2>1 DEF WrittenIff
<1> QED  BY <1>4, <1>7, <1>9, <1>16 DEF KeptAt

LEMMA LoseKept ==
  ASSUME Typed, NEW i, KeptAt(i), NEW h \in DOMAIN heard, Loses(i, h)
  PROVE  KeptAt(i)'
<1>1. /\ heard' = heard /\ Left(h, i) /\ SameWritten(i) /\ ~OpenAt(i)'
      /\ \A m : Left(m, i) => h <= m
      /\ \A m : Left(m, i)' <=> Left(m, i)
      /\ \A m : Failed(i, m)' <=> Failed(i, m) \/ m = h
  BY DEF Loses, SameLeft, Fails
<1>2. /\ DOMAIN heard = 1 .. Len(heard) /\ Len(heard) \in Nat /\ h \in Nat /\ h >= 1
      /\ \A n \in DOMAIN heard : Left(n, i) <=> h <= n
      /\ \A m : Failed(i, m) => m \in Nat /\ m <= h
  BY <1>1, NextIs
<1>3. Prefix(i)'
  BY <1>1 DEF KeptAt, Prefix
<1>4. \A n \in DOMAIN heard : Last(n, i)' => n + 1 = h
  <2>1. \A n \in DOMAIN heard :
          Last(n, i)' <=> ~(h <= n) /\ (n + 1 \in DOMAIN heard => h <= n + 1)
    BY <1>1, <1>2 DEF Last
  <2> QED  BY <1>2, <2>1
<1>5. OpenIff(i)'
  BY <1>1, <1>4 DEF OpenIff
<1>6. FailedBefore(i)'
  <2>1. ASSUME NEW m, Failed(i, m)' PROVE m \in Nat /\ m <= h
    BY <1>1, <1>2, <2>1
  <2> QED  BY <1>1, <1>2, <2>1 DEF FailedBefore
<1>7. WrittenIff(i)'
  BY <1>1 DEF KeptAt, WrittenIff, Sounds, SameWritten
<1> QED  BY <1>3, <1>5, <1>6, <1>7 DEF KeptAt

(* A list that is put is left for every slot.                                *)
LEMMA PutLeft ==
  ASSUME Typed, PutData, NEW i
  PROVE  \/ heard' = heard /\ SameLeft(i)
         \/ \E s \in Signals :
              /\ heard' = Append(heard, s)
              /\ \A m : Left(m, i)' <=> Left(m, i) \/ m = Len(heard) + 1
<1>1. /\ UNCHANGED <<main, dblBuff, rec, slot, wavs, disk>>
      /\ heard \in Seq(Signals) /\ buffer \in Seq(Lists)
      /\ \/ \E s \in Signals : /\ heard' = Append(heard, s)
                              /\ buffer' = Append(buffer, [id |-> Len(heard) + 1, signal |-> s])
         \/ heard' = heard /\ buffer' = Append(buffer, [id |-> 0, signal |-> <<>>])
  BY PutDataHeard
<1>2. ASSUME NEW list, buffer' = Append(buffer, list)
      PROVE  \A m : Left(m, i)' <=> Left(m, i) \/ (Loud(list) /\ list.id = m)
  <2>1. /\ \A k \in DOMAIN buffer : k \in DOMAIN buffer' /\ buffer'[k] = buffer[k]
        /\ Len(buffer) + 1 \in DOMAIN buffer' /\ buffer'[Len(buffer) + 1] = list
        /\ \A k \in DOMAIN buffer' : k \in DOMAIN buffer \/ k = Len(buffer) + 1
    BY <1>1, <1>2
  <2> QED  BY <1>1, <2>1 DEF Left, Loud, Pending
<1>3. ASSUME NEW s \in Signals, heard' = Append(heard, s),
             buffer' = Append(buffer, [id |-> Len(heard) + 1, signal |-> s])
      PROVE  \A m : Left(m, i)' <=> Left(m, i) \/ m = Len(heard) + 1
  <2>1. Loud([id |-> Len(heard) + 1, signal |-> s])
    BY SilentIsNoSignal DEF Loud
  <2> QED  BY <1>2, <1>3, <2>1
<1>4. ASSUME heard' = heard, buffer' = Append(buffer, [id |-> 0, signal |-> <<>>])
      PROVE  SameLeft(i)
  <2>1. ~Loud([id |-> 0, signal |-> <<>>])
    BY DEF Loud
  <2> QED  BY <1>2, <1>4, <2>1 DEF SameLeft
<1> QED  BY <1>1, <1>3, <1>4

LEMMA PutKept ==
  ASSUME Typed, NEW i, KeptAt(i), PutData
  PROVE  KeptAt(i)'
<1>1. UNCHANGED <<wavs, disk, fileless>> /\ heard \in Seq(Signals)
  BY PutDataHeard
<1>2. (OpenAt(i)' <=> OpenAt(i)) /\ SameWritten(i) /\ SameFailed(i)
  BY <1>1 DEF OpenAt, Opened, SameWritten, Written, Made, SameFailed, Failed
<1>3. CASE heard' = heard /\ SameLeft(i)
  BY <1>2, <1>3, SameKept DEF SameSlot
<1>4. ASSUME NEW s \in Signals, heard' = Append(heard, s),
             \A m : Left(m, i)' <=> Left(m, i) \/ m = Len(heard) + 1
      PROVE  KeptAt(i)'
  <2>1. /\ Len(heard) \in Nat /\ DOMAIN heard = 1 .. Len(heard)
        /\ DOMAIN heard' = 1 .. Len(heard) + 1
        /\ \A n \in DOMAIN heard : heard'[n] = heard[n]
    BY <1>1, <1>4
  <2>2. \A m : Left(m, i) => m \in DOMAIN heard
    BY DEF Left, Typed, QueuesOK
  <2>3. Prefix(i)'
    <3>1. \A m, n \in DOMAIN heard : Left(m, i) /\ m < n => Left(n, i)
      BY DEF KeptAt, Prefix
    <3> QED  BY <1>4, <2>1, <2>2, <3>1 DEF Prefix
  <2>4. \A n \in DOMAIN heard : Last(n, i)' <=> Last(n, i)
    <3>1. ASSUME NEW n \in DOMAIN heard PROVE Last(n, i)' <=> Last(n, i)
      <4>1. /\ n \in Nat /\ n # Len(heard) + 1 /\ n + 1 \in DOMAIN heard'
            /\ n + 1 \in DOMAIN heard \/ n + 1 = Len(heard) + 1
            /\ n + 1 = Len(heard) + 1 => n + 1 \notin DOMAIN heard
        BY <2>1
      <4> QED  BY <1>4, <4>1 DEF Last
    <3> QED  BY <3>1
  <2>5. PICK c : c = Len(heard) + 1
    OBVIOUS
  <2>6. ~Last(c, i)'
    BY <1>4, <2>5 DEF Last
  <2>7. /\ \A n \in DOMAIN heard' : n \in DOMAIN heard \/ n = c
        /\ \A n \in DOMAIN heard : n \in DOMAIN heard' /\ heard'[n] = heard[n]
    BY <2>1, <2>5
  <2>8. OpenIff(i)'
    <3>1. (\E n \in DOMAIN heard' : Last(n, i)' /\ heard'[n][i] = 1 /\ ~Failed(i, n + 1)')
          <=> \E n \in DOMAIN heard : Last(n, i) /\ heard[n][i] = 1 /\ ~Failed(i, n + 1)
      BY <1>2, <2>4, <2>6, <2>7 DEF SameFailed
    <3> QED  BY <1>2, <3>1 DEF KeptAt, OpenIff
  <2>9. \A n \in DOMAIN heard : Sounds(n, i)' <=> Sounds(n, i)
    <3>1. \A n \in DOMAIN heard : n # 1 => n - 1 \in DOMAIN heard
      BY <2>1
    <3> QED  BY <2>1, <3>1 DEF Sounds
  <2>10. \A n \in DOMAIN heard : n # Len(heard) + 1
    BY <2>1
  <2>11. WrittenIff(i)'
    BY <1>2, <1>4, <2>5, <2>7, <2>9, <2>10 DEF KeptAt, WrittenIff, SameWritten, SameFailed
  <2>12. FailedBefore(i)'
    <3>1. ASSUME NEW m, Failed(i, m)'
          PROVE  /\ m \in Nat /\ m <= Len(heard) + 1
                 /\ \A n \in DOMAIN heard : Left(n, i) => m <= n
      BY <1>2, <3>1 DEF SameFailed, KeptAt, FailedBefore
    <3>2. Len(heard') = Len(heard) + 1
      BY <1>1, <1>4
    <3> QED  BY <1>4, <2>1, <2>7, <2>5, <3>1, <3>2 DEF FailedBefore
  <2> QED  BY <2>3, <2>8, <2>11, <2>12 DEF KeptAt
<1> QED  BY <1>3, <1>4, PutLeft

LEMMA KeptStep ==
  ASSUME Typed, Own, Reachable, InTurn, Matched, Looked, Safe, Kept, [Next]_vars
  PROVE  Kept'
<1>1. UNCHANGED mode
  BY StepEffect
<1>2. SUFFICES ASSUME mode # "time", main' = "loop", NEW i \in Slots, i \in Entries
               PROVE  KeptAt(i)'
  BY <1>1 DEF Kept
<1>3. KeptAt(i)
  BY <1>2, LoopStep DEF Kept
<1>4. CASE dblBuff # <<>> /\ (Passes(i, Head(dblBuff).id) \/ Loses(i, Head(dblBuff).id))
  <2>1. Left(Head(dblBuff).id, i)
    BY <1>4 DEF Passes, Loses
  <2>2. Head(dblBuff).id \in DOMAIN heard
    BY <2>1 DEF Left, Typed, QueuesOK
  <2> QED  BY <1>3, <1>4, <2>2, PassKept, LoseKept
<1> QED  BY <1>2, <1>3, <1>4, SlotStep, SameKept, PutKept

(* Done says the same of the queues as Left does.                            *)
LEMMA DoneIs ==
  ASSUME Typed, Matched, NEW i \in Nat, NEW n \in DOMAIN heard
  PROVE  n \in Done(i) <=> ~Left(n, i)
<1>1. n > 0 /\ n \in Nat
  BY IdsHeard
<1>2. /\ \A k \in DOMAIN dblBuff : dblBuff[k].id = n => Loud(dblBuff[k])
      /\ \A k \in DOMAIN buffer : buffer[k].id = n => Loud(buffer[k])
  BY <1>1 DEF Matched, Matches
<1>3. PICK K : K = IF rec \in {"entry", "close", "write"} /\ slot > i
                   THEN DOMAIN dblBuff \ {1} ELSE DOMAIN dblBuff
  OBVIOUS
<1>4. Left(n, i) <=> \/ \E k \in K : dblBuff[k].id = n
                    \/ \E k \in DOMAIN buffer : buffer[k].id = n
  <2>1. \A k \in DOMAIN dblBuff : Pending(k, i) <=> k \in K
    <3>1. slot \in Nat /\ \A k \in DOMAIN dblBuff : k \in Nat /\ k > 0
      BY IdsHeard, ConstantsTyped DEF Typed, ThreadOK, Slots
    <3> QED  BY <1>3, <3>1 DEF Pending
  <2>2. \A k \in K : k \in DOMAIN dblBuff
    BY <1>3
  <2> QED  BY <1>2, <2>1, <2>2 DEF Left
<1> QED  BY <1>3, <1>4 DEF Done

LEMMA KeptIsSoundKept ==
  ASSUME Typed, Matched, Kept
  PROVE  SoundKept
<1> SUFFICES ASSUME mode # "time", main = "loop", NEW i \in Slots \cap Entries
             PROVE  Written(i) = {n \in Done(i) \ {1} : /\ heard[n][i] = 1 /\ heard[n - 1][i] = 1
                                                        /\ <<i, n>> \notin fileless}
  BY DEF SoundKept
<1>1. WrittenIff(i)
  BY DEF Kept, KeptAt
<1>2. i \in Nat
  BY ConstantsTyped DEF Entries
<1>3. ASSUME NEW n PROVE n \in Done(i) \ {1} <=> n \in DOMAIN heard /\ ~Left(n, i) /\ n # 1
  BY <1>2, DoneIs DEF Done
<1> QED  BY <1>1, <1>3 DEF WrittenIff, Sounds, Failed

LEMMA KeptInit == Init => Matched /\ Looked /\ Kept
<1> SUFFICES ASSUME Init PROVE Matched /\ Looked /\ Kept
  OBVIOUS
<1>1. /\ buffer = <<>> /\ dblBuff = <<>> /\ DOMAIN disk = {} /\ heard = <<>>
      /\ rec \in {"take", "off"} /\ fileless = {}
  BY DEF Init
<1>2. Matched /\ Looked
  BY <1>1 DEF Matched, Looked
<1>3. \A i : Prefix(i) /\ OpenIff(i) /\ WrittenIff(i) /\ FailedBefore(i)
  BY <1>1 DEF Prefix, OpenIff, OpenAt, Opened, WrittenIff, Written, Made, FailedBefore, Failed
<1> QED  BY <1>2, <1>3 DEF Kept, KeptAt

(* If the timer swaps nothing, then until deinit the files of a slot hold
   exactly the lists of sound that follow one of sound, of those the thread has
   passed the slot with, but for each that comes after an open that failed: one
   list is what a failure costs, for the next one opens again, and the swaps
   for size lose none (recorder.cpp:389-406, 576-614, wav-writer.cpp:86-106). *)
THEOREM SoundIsKept == Safety => []SoundKept
<1> DEFINE Inv == Typed /\ Own /\ Reachable /\ InTurn /\ Matched /\ Looked /\ Safe /\ Kept
<1>1. Init => Inv
  <2>1. Init => Safe
    BY DEF Init, Safe
  <2> QED  BY <2>1, TypedInit, FilesInit, OnceInit, KeptInit
<1>2. Inv /\ [Next]_vars => Inv'
  <2> SUFFICES ASSUME Inv, [Next]_vars PROVE Inv'
    OBVIOUS
  <2>1. Typed' /\ Own' /\ Reachable' /\ InTurn' /\ Matched' /\ Looked' /\ Safe'
    BY TypedStep, OwnStep, ReachableStep, InTurnStep, MatchedStep, LookedStep, SafeStep
  <2>2. Kept'
    BY KeptStep
  <2> QED  BY <2>1, <2>2
<1>3. Inv => SoundKept
  BY KeptIsSoundKept
<1> QED  BY <1>1, <1>2, <1>3, PTL DEF Safety

-----------------------------------------------------------------------------
(* What the timer spoils: a file that its own open() names again is cut short,
   and a signal in the middle of its close() may tear one that the thread has
   closed meanwhile.                                                         *)
CutShort(u) == main = "swap" /\ place.step = "open" /\ u = wavs[place.slot]

LeftShutting(u) == main = "swap" /\ place.step = "shut" /\ u = place.wav

FileStays(u) ==
  /\ u \in DOMAIN disk' /\ disk'[u].slot = disk[u].slot
  /\ CutShort(u) \/ \A k \in DOMAIN disk[u].lists :
                      k \in DOMAIN disk'[u].lists /\ disk'[u].lists[k] = disk[u].lists[k]
  /\ disk[u].open \/ CutShort(u) \/ LeftShutting(u) \/ disk'[u] = disk[u]

LEMMA FilesStayStep ==
  ASSUME Typed, Own, [Next]_vars, NEW u \in DOMAIN disk
  PROVE  FileStays(u)
<1>1. Effect
  BY StepEffect
<1>2. ASSUME NEW w, DOMAIN disk \subseteq DOMAIN disk', Closes(disk, disk', w)
      PROVE  FileStays(u)
  BY <1>2 DEF Closes, FileStays
<1>3. ASSUME NEW i \in Slots, ReplacesAt(i) PROVE FileStays(u)
  <2>1. DOMAIN disk \subseteq DOMAIN disk' /\ Closes(disk, disk', wavs[i])
    BY <1>3, ReplacedIs
  <2> QED  BY <1>2, <2>1
<1>4. ASSUME NEW i \in Slots, ClosesAt(i) PROVE FileStays(u)
  BY <1>2, <1>4 DEF ClosesAt
<1>5. ASSUME NEW i \in Slots, WritesAt(i) PROVE FileStays(u)
  <2>1. CASE u # wavs[i]
    BY <1>5, <2>1 DEF WritesAt, Appends, FileStays
  <2>2. CASE u = wavs[i]
    <3>1. /\ disk[u].open /\ u \in DOMAIN disk' /\ disk'[u].slot = disk[u].slot
          /\ disk'[u].lists = Append(disk[u].lists, Head(dblBuff).id)
          /\ Head(dblBuff).id \in DOMAIN heard
      BY <1>5, <2>2 DEF WritesAt, Appends, Opened
    <3> DEFINE s == disk[u].lists
               t == disk'[u].lists
               n == Head(dblBuff).id
    <3>2. s \in Seq(Nat) /\ t = Append(s, n) /\ n \in Nat
      BY <3>1, ListsTyped, IdsHeard
    <3> HIDE DEF s, t, n
    <3>3. \A k \in DOMAIN s : k \in DOMAIN t /\ t[k] = s[k]
      BY <3>2, AppendIs
    <3> QED  BY <3>1, <3>3 DEF FileStays, s, t
  <2> QED  BY <2>1, <2>2
<1>6. ASSUME disk' = disk PROVE FileStays(u)
  BY <1>6 DEF FileStays
<1>7. ASSUME Marked PROVE FileStays(u)
  BY <1>7 DEF Marked, FileStays, LeftShutting
<1>8. ASSUME NEW i \in Slots, OpensAt(i) PROVE FileStays(u)
  <2>1. /\ DOMAIN disk' = DOMAIN disk \cup {wavs[i]} /\ disk'[wavs[i]].slot = i
        /\ \A v \in DOMAIN disk \ {wavs[i]} : disk'[v] = disk[v]
    BY <1>8, OpensIs
  <2>2. CASE u # wavs[i]
    BY <2>1, <2>2 DEF FileStays
  <2>3. CASE u = wavs[i]
    BY <1>8, <2>1, <2>3 DEF FileStays, CutShort, OpensAt, Own
  <2> QED  BY <2>2, <2>3
<1> QED  BY <1>1, <1>3, <1>4, <1>5, <1>6, <1>7, <1>8 DEF Effect, ClearsAt, NewAt

(* No file is ever forgotten; one that is open only grows, and one that was
   closed never changes again, although main and the thread may both still hold
   its Wav, in deinit as well - but for the timer, whose open() may cut short
   the file that the thread has opened in the slot meanwhile, and whose close(),
   if the signal comes before it ends, may leave one torn (recorder.cpp:
   206-216, 389-406, 532-570, wav-writer.cpp:86-152).                        *)
THEOREM ClosedFilesAreFinal ==
  Safety => [][\A u \in DOMAIN disk : FileStays(u)]_vars
<1>1. Typed /\ Own /\ [Next]_vars => [\A u \in DOMAIN disk : FileStays(u)]_vars
  BY FilesStayStep
<1>2. Init => Typed /\ Own
  BY TypedInit, FilesInit
<1>3. Typed /\ Own /\ [Next]_vars => (Typed /\ Own)'
  BY TypedStep, OwnStep
<1> QED  BY <1>1, <1>2, <1>3, PTL DEF Safety

(* A header says 0 until its file is closed. Then it says what was written, as
   ftell told; which the thread may have gone past.                          *)
HeadersTell ==
  \A u \in DOMAIN disk :
    IF disk[u].open THEN disk[u].header = 0 ELSE disk[u].header <= Len(disk[u].lists)

Told == place.step \in {"seek", "shut"} => place.len <= Len(disk[place.wav].lists)

LEMMA PlaceStep ==
  ASSUME Typed, [Next]_vars, place'.step \in {"seek", "shut"}
  PROVE  \/ place' = place
         \/ /\ disk' = disk /\ place'.wav = place.wav /\ place'.len = place.len
            /\ place.step = "seek"
         \/ disk' = disk /\ place'.len = Len(disk[place'.wav].lists)
<1>1. CASE UNCHANGED vars \/ RecorderStep \/ PutData
  BY <1>1, Unchanged, PutDataIs DEF RecorderStep, Take, RecordList, PollHotSwap, RecordEntry,
    UseSlot, RecordEnds, TestRunning, mainvars
<1>2. ASSUME NEW i, place' = LookAt(i) PROVE FALSE
  BY <1>2 DEF LookAt, Place
<1>3. ~Timeout /\ ~Deinit
  BY <1>2 DEF Timeout, Deinit
<1>4. ~NextPlace
  BY <1>2 DEF NextPlace
<1>5. CASE Look
  <2>1. place' = Place(place.slot, "tell", UID', 0, 0)
    BY <1>4, <1>5 DEF Look
  <2> QED  BY <2>1 DEF Place
<1>6. CASE CloseTell
  <2> DEFINE w == wavs[place.slot]
             n == Len(disk[w].lists)
  <2>1. ASSUME place' = Place(place.slot, "delete", place.uid, 0, 0) PROVE FALSE
    BY <2>1 DEF Place
  <2>2. place' = Place(place.slot, "seek", place.uid, w, n) /\ disk' = disk
    BY <1>6, <2>1 DEF CloseTell, waves
  <2>3. place'.wav = w /\ place'.len = n
    <3> HIDE DEF w, n
    <3> QED  BY <2>2 DEF Place
  <2> QED  BY <2>2, <2>3
<1>7. CASE CloseSeek
  <2>1. place \in Places /\ "shut" \in Steps
    BY DEF Typed, PlaceOK, Steps
  <2> QED  BY <1>7, <2>1, StepAt DEF CloseSeek, waves
<1>8. ~CloseShut
  BY DEF CloseShut, Place
<1>9. ASSUME NEW s \in {"clear", "new", "open"}, place' = [place EXCEPT !.step = s] PROVE FALSE
  <2>1. place \in Places /\ s \in Steps
    BY DEF Typed, PlaceOK, Steps
  <2>2. place'.step = s
    BY <1>9, <2>1, StepAt
  <2> QED  BY <2>2
<1>10. ~DeleteWav /\ ~ClearSlot /\ ~SwapNew /\ ~SwapOpen
  BY <1>4, <1>9 DEF DeleteWav, ClearSlot, SwapNew, SwapOpen
<1>11. CASE StopRecoder
  BY <1>11 DEF StopRecoder
<1> QED  BY <1>1, <1>3, <1>5, <1>6, <1>7, <1>8, <1>10, <1>11 DEF Next, MainStep

LEMMA Longer ==
  ASSUME Typed, Own, [Next]_vars, NEW u \in DOMAIN disk, ~CutShort(u)
  PROVE  /\ u \in DOMAIN disk' /\ Len(disk[u].lists) \in Nat /\ Len(disk'[u].lists) \in Nat
         /\ Len(disk[u].lists) <= Len(disk'[u].lists)
<1>1. /\ u \in DOMAIN disk'
      /\ \A k \in DOMAIN disk[u].lists : k \in DOMAIN disk'[u].lists
  BY FilesStayStep DEF FileStays
<1>2. disk[u].lists \in Seq(Nat)
  BY ListsTyped
<1>3. disk'[u].lists \in Seq(Nat)
  <2>1. Typed'
    BY TypedStep
  <2>2. disk'[u].lists \in Seq(DOMAIN heard') /\ DOMAIN heard' \subseteq Nat
    BY <1>1, <2>1 DEF Typed, QueuesOK, FilesOK, FilesOf, FileOf
  <2> DEFINE D == DOMAIN heard'
  <2> HIDE DEF D
  <2> DEFINE q == disk'[u].lists
  <2> HIDE DEF q
  <2>3. q \in Seq(D) /\ D \subseteq Nat
    BY <2>2 DEF D, q
  <2>4. q \in Seq(Nat)
    <3>1. q \in [1 .. Len(q) -> D] /\ Len(q) \in Nat
      BY <2>3
    <3>2. q \in [1 .. Len(q) -> Nat]
      BY <2>3, <3>1
    <3> QED  BY <3>1, <3>2
  <2> QED  BY <2>4 DEF q
<1> DEFINE s == disk[u].lists
           t == disk'[u].lists
<1>4. s \in Seq(Nat) /\ t \in Seq(Nat) /\ \A k \in DOMAIN s : k \in DOMAIN t
  BY <1>1, <1>2, <1>3
<1> HIDE DEF s, t
<1>5. Len(s) \in Nat /\ Len(t) \in Nat /\ Len(s) <= Len(t)
  BY <1>4
<1> QED  BY <1>1, <1>5 DEF s, t

LEMMA ToldStep ==
  ASSUME Typed, Own, Told, [Next]_vars
  PROVE  Told'
<1> SUFFICES ASSUME place'.step \in {"seek", "shut"}
             PROVE  place'.len <= Len(disk'[place'.wav].lists)
  BY DEF Told
<1>1. CASE place' = place
  <2> DEFINE u == place.wav
  <2>1. place.len \in Nat /\ place.len <= Len(disk[u].lists) /\ u \in DOMAIN disk
        /\ ~CutShort(u)
    BY <1>1 DEF Told, Typed, PlaceOK, Places, CutShort
  <2>2. Len(disk[u].lists) \in Nat /\ Len(disk'[u].lists) \in Nat
        /\ Len(disk[u].lists) <= Len(disk'[u].lists)
    BY <2>1, Longer
  <2> HIDE DEF u
  <2>3. place.len <= Len(disk'[u].lists)
    BY <2>1, <2>2
  <2> QED  BY <1>1, <2>3 DEF u
<1>2. CASE disk' = disk /\ place'.wav = place.wav /\ place'.len = place.len /\ place.step = "seek"
  BY <1>2 DEF Told
<1>3. CASE disk' = disk /\ place'.len = Len(disk[place'.wav].lists)
  <2>1. place'.wav \in DOMAIN disk'
    BY TypedStep DEF Typed, PlaceOK
  <2>2. Len(disk[place'.wav].lists) \in Nat
    BY <1>3, <2>1, FilesAre
  <2> QED  BY <1>3, <2>2
<1> QED  BY <1>1, <1>2, <1>3, PlaceStep

LEMMA HeadersStep ==
  ASSUME Typed, Own, Told, HeadersTell, [Next]_vars
  PROVE  HeadersTell'
<1>1. Effect /\ \A u \in DOMAIN disk : Len(disk[u].lists) \in Nat
  BY StepEffect, FilesAre
<1>2. ASSUME NEW w, NEW v \in DOMAIN disk, Closes(disk, disk', w)
      PROVE  IF disk'[v].open THEN disk'[v].header = 0 ELSE disk'[v].header <= Len(disk'[v].lists)
  BY <1>1, <1>2 DEF HeadersTell, Closes
<1>3. ASSUME NEW i \in Slots, ReplacesAt(i) PROVE HeadersTell'
  <2>1. /\ \/ DOMAIN disk' = DOMAIN disk \cup {UID'} /\ disk'[UID'] = File(i, FALSE)
           \/ DOMAIN disk' = DOMAIN disk
        /\ Closes(disk, disk', wavs[i])
    BY <1>3, ReplacedIs
  <2>2. UID' \in DOMAIN disk' /\ UID' \notin DOMAIN disk =>
          disk'[UID'].open /\ disk'[UID'].header = 0
    BY <2>1 DEF File
  <2> QED  BY <1>2, <2>1, <2>2 DEF HeadersTell
<1>4. ASSUME NEW i \in Slots, ClosesAt(i) PROVE HeadersTell'
  BY <1>2, <1>4 DEF ClosesAt, HeadersTell
<1>5. ASSUME NEW i \in Slots, WritesAt(i) PROVE HeadersTell'
  BY <1>5 DEF WritesAt, Appends, Opened, HeadersTell
<1>6. ASSUME disk' = disk PROVE HeadersTell'
  BY <1>6 DEF HeadersTell
<1>7. ASSUME Marked PROVE HeadersTell'
  <2>1. /\ DOMAIN disk' = DOMAIN disk
        /\ \A v \in DOMAIN disk :
             /\ disk'[v].lists = disk[v].lists
             /\ \/ (disk'[v].open <=> disk[v].open) /\ disk'[v].header = disk[v].header
                \/ /\ ~disk'[v].open /\ disk'[v].header = place.len
                   /\ place.step = "shut" /\ v = place.wav
    BY <1>7 DEF Marked
  <2> QED  BY <2>1 DEF HeadersTell, Told
<1>8. ASSUME NEW i \in Slots, OpensAt(i) PROVE HeadersTell'
  <2> DEFINE w == wavs[i]
  <2>1. /\ DOMAIN disk' = DOMAIN disk \cup {w}
        /\ disk'[w].open /\ disk'[w].header = 0
        /\ \A v \in DOMAIN disk \ {w} : disk'[v] = disk[v]
    BY <1>8, OpensIs
  <2> HIDE DEF w
  <2>2. ASSUME NEW u \in DOMAIN disk'
        PROVE  IF disk'[u].open THEN disk'[u].header = 0
               ELSE disk'[u].header <= Len(disk'[u].lists)
    <3>1. CASE u = w
      BY <2>1, <3>1
    <3>2. CASE u # w
      <4>1. u \in DOMAIN disk /\ disk'[u] = disk[u]
        BY <2>1, <2>2, <3>2
      <4> QED  BY <4>1 DEF HeadersTell
    <3> QED  BY <3>1, <3>2
  <2> QED  BY <2>2 DEF HeadersTell
<1> QED  BY <1>1, <1>3, <1>4, <1>5, <1>6, <1>7, <1>8 DEF Effect, ClearsAt, NewAt

(* Whoever closes a file - silence, a swap for size, the timer or deinit, races
   included - the length in its header is one that was written, though not all
   that was, when the other thread wrote on meanwhile; a file that is left open
   says it is empty (wav-writer.cpp:132-152).                                *)
THEOREM HeadersPromiseNoMore == Safety => []HeadersTell
<1> DEFINE Inv == Typed /\ Own /\ Told /\ HeadersTell
<1>1. Init => Inv
  <2>1. Init => DOMAIN disk = {} /\ place = LookAt(1)
    BY DEF Init
  <2>2. LookAt(1).step = "look"
    BY DEF LookAt, Place
  <2> QED  BY <2>1, <2>2, TypedInit, FilesInit DEF HeadersTell, Told
<1>2. Inv /\ [Next]_vars => Inv'
  BY TypedStep, OwnStep, ToldStep, HeadersStep
<1> QED  BY <1>1, <1>2, PTL DEF Safety


-----------------------------------------------------------------------------
(* Only entries with sound are recorded, in the slot of their channel.       *)
Sounded(u) ==
  \A k \in DOMAIN disk[u].lists :
    /\ disk[u].slot \in Entries /\ disk[u].lists[k] \in DOMAIN heard
    /\ heard[disk[u].lists[k]][disk[u].slot] = 1

OnlySound == \A u \in DOMAIN disk : Sounded(u)

LEMMA HeardStays ==
  ASSUME Typed, [Next]_vars
  PROVE  \A k \in DOMAIN heard : k \in DOMAIN heard' /\ heard'[k] = heard[k]
<1>1. CASE heard' = heard
  BY <1>1
<1>2. ASSUME NEW s \in Signals, heard' = Append(heard, s)
      PROVE  \A k \in DOMAIN heard : k \in DOMAIN heard' /\ heard'[k] = heard[k]
  <2>1. heard \in Seq(Signals)
    BY DEF Typed, QueuesOK
  <2> QED  BY <1>2, <2>1
<1> QED  BY <1>1, <1>2, StepHeard, PutDataHeard

LEMMA OnlySoundStep ==
  ASSUME Typed, Own, Matched, Looked, OnlySound, [Next]_vars
  PROVE  OnlySound'
<1> SUFFICES ASSUME NEW u \in DOMAIN disk' PROVE Sounded(u)'
  BY DEF OnlySound
<1>1. CASE Fresh(u)
  BY <1>1 DEF Fresh, Sounded
<1>2. CASE Same(u)
  BY <1>2, HeardStays DEF Same, OnlySound, Sounded
<1>3. ASSUME NEW i \in Slots, Grown(u, i) PROVE Sounded(u)'
  <2> DEFINE n == Head(dblBuff).id
  <2>1. /\ u \in DOMAIN disk /\ disk[u].slot = i /\ disk'[u].slot = i
        /\ rec = "write" /\ slot = i /\ dblBuff # <<>> /\ Loud(Head(dblBuff))
    BY <1>3 DEF Grown, WritesAt
  <2>2. i \in Entries
    BY <2>1 DEF Typed, ThreadOK
  <2>3. n \in DOMAIN heard /\ heard[n][i] = 1
    <3>1. 1 \in DOMAIN dblBuff /\ Head(dblBuff) = dblBuff[1]
      BY <2>1, TailIs DEF Typed, QueuesOK
    <3>2. Matches(Head(dblBuff)) /\ Head(dblBuff).signal[i] = 1
      BY <2>1, <3>1 DEF Matched, Looked
    <3> QED  BY <2>1, <3>2 DEF Matches
  <2>4. /\ disk'[u].lists[Len(disk[u].lists) + 1] = n
        /\ \A j \in DOMAIN disk[u].lists : disk'[u].lists[j] = disk[u].lists[j]
        /\ \A j \in DOMAIN disk'[u].lists : j \in DOMAIN disk[u].lists
                                            \/ j = Len(disk[u].lists) + 1
    BY <1>3, <2>1, GrownIs
  <2>5. ASSUME NEW k \in DOMAIN disk'[u].lists
        PROVE  /\ disk'[u].lists[k] \in DOMAIN heard /\ heard[disk'[u].lists[k]][i] = 1
    BY <2>1, <2>3, <2>4, <2>5 DEF OnlySound, Sounded
  <2> QED  BY <2>1, <2>2, <2>5, HeardStays DEF Sounded
<1> QED  BY <1>1, <1>2, <1>3, FilesGrow

(* Silence is never recorded, whichever way files are swapped and although the
   thread looks at an entry in one step and writes it in a later one: what is
   in a slot's files are lists that had sound on that channel
   (recorder.cpp:389-406).                                                   *)
THEOREM SilenceIsNotRecorded == Safety => []OnlySound
<1> DEFINE Inv == Typed /\ Own /\ Matched /\ Looked /\ OnlySound
<1>1. Init => OnlySound
  <2>1. Init => DOMAIN disk = {}
    BY DEF Init
  <2> QED  BY <2>1 DEF OnlySound
<1>2. Init => Inv
  BY <1>1, TypedInit, FilesInit, KeptInit
<1>3. Inv /\ [Next]_vars => Inv'
  BY TypedStep, OwnStep, MatchedStep, LookedStep, OnlySoundStep
<1> QED  BY <1>2, <1>3, PTL DEF Safety

-----------------------------------------------------------------------------
(* What is heard when nothing enters Recorder::run.                          *)
Hoarded ==
  \A n \in DOMAIN heard : \E k \in DOMAIN buffer : buffer[k].id = n /\ buffer[k].signal = heard[n]

NothingRecorded == DOMAIN disk = {} /\ ~crashed /\ Hoarded

Unbound == rec = "off" /\ place.step = "look" /\ NothingRecorded

LEMMA UnboundStep ==
  ASSUME Typed, Unbound, [Next]_vars
  PROVE  Unbound'
<1> USE ConstantsTyped
<1>1. ~RecorderStep
  BY DEF RecorderStep, Take, RecordList, PollHotSwap, RecordEntry, UseSlot, RecordEnds,
         TestRunning, Unbound
<1>2. /\ rec = "off" /\ place.step = "look" /\ DOMAIN disk = {} /\ ~crashed /\ Hoarded
      /\ \A i : ~Opened(i)
  BY DEF Unbound, NothingRecorded, Opened
<1>3. ASSUME UNCHANGED <<rec, disk, crashed, buffer, heard>>, place'.step = "look"
      PROVE  Unbound'
  BY <1>2, <1>3 DEF Unbound, NothingRecorded, Hoarded
<1>4. CASE PutData
  <2>1. /\ rec' = rec /\ disk' = disk /\ crashed' = crashed /\ place' = place
        /\ heard \in Seq(Signals) /\ buffer \in Seq(Lists)
    BY <1>4, PutDataIs, PutDataHeard
  <2>2. Hoarded'
    <3>1. ASSUME NEW s \in Signals, heard' = Append(heard, s),
                 buffer' = Append(buffer, [id |-> Len(heard) + 1, signal |-> s])
          PROVE  Hoarded'
      <4>1. PICK list : list = [id |-> Len(heard) + 1, signal |-> s]
        OBVIOUS
      <4>2. /\ list \in Lists /\ list.id = Len(heard) + 1 /\ list.signal = s
            /\ buffer' = Append(buffer, list)
        BY <2>1, <3>1, <4>1 DEF Lists
      <4>3. /\ Len(buffer) + 1 \in DOMAIN buffer' /\ buffer'[Len(buffer) + 1] = list
            /\ \A k \in DOMAIN buffer : k \in DOMAIN buffer' /\ buffer'[k] = buffer[k]
            /\ heard'[Len(heard) + 1] = s
            /\ \A n \in DOMAIN heard : heard'[n] = heard[n]
            /\ \A n \in DOMAIN heard' : n \in DOMAIN heard \/ n = Len(heard) + 1
        BY <2>1, <3>1, <4>2
      <4>4. ASSUME NEW n \in DOMAIN heard'
            PROVE  \E k \in DOMAIN buffer' : buffer'[k].id = n /\ buffer'[k].signal = heard'[n]
        <5>1. CASE n = Len(heard) + 1
          BY <5>1, <4>2, <4>3
        <5>2. CASE n \in DOMAIN heard
          <6>1. PICK k \in DOMAIN buffer : buffer[k].id = n /\ buffer[k].signal = heard[n]
            BY <1>2, <5>2 DEF Hoarded
          <6>2. k \in DOMAIN buffer' /\ buffer'[k] = buffer[k] /\ heard'[n] = heard[n]
            BY <4>3, <5>2, <6>1
          <6> QED  BY <6>1, <6>2
        <5> QED  BY <4>3, <5>1, <5>2
      <4> QED  BY <4>4 DEF Hoarded
    <3>2. ASSUME NEW list \in Lists, heard' = heard, buffer' = Append(buffer, list)
          PROVE  Hoarded'
      <4>1. \A k \in DOMAIN buffer : k \in DOMAIN buffer' /\ buffer'[k] = buffer[k]
        BY <2>1, <3>2
      <4> QED  BY <1>2, <3>2, <4>1 DEF Hoarded
    <3>3. [id |-> 0, signal |-> <<>>] \in Lists
      BY DEF Lists
    <3> QED  BY <1>4, <3>1, <3>2, <3>3, PutDataHeard
  <2> QED  BY <1>2, <2>1, <2>2 DEF Unbound, NothingRecorded
<1>5. ASSUME NEW i, place' = LookAt(i) PROVE place'.step = "look"
  BY <1>5 DEF LookAt, Place
<1>6. CASE Timeout \/ Deinit
  <2>1. place'.step = "look"
    BY <1>5, <1>6 DEF Timeout, Deinit
  <2>2. /\ UNCHANGED <<rec, disk, buffer, heard>> /\ (Timeout => crashed' = crashed)
        /\ (Deinit => crashed' = (place.step = "clear"))
    BY <1>2, <1>6 DEF Timeout, Deinit, sharedq, recorder, waves, history
  <2>3. ~crashed'
    BY <1>2, <1>6, <2>2
  <2>4. NothingRecorded' /\ rec' = "off"
    BY <1>2, <2>2, <2>3 DEF NothingRecorded, Hoarded
  <2> QED  BY <2>1, <2>4 DEF Unbound
<1>7. CASE StopRecoder
  <2>1. UNCHANGED <<rec, disk, crashed, buffer, heard, place>>
    BY <1>7 DEF StopRecoder, recorder, waves, history
  <2> QED  BY <1>2, <1>3, <2>1
<1>8. CASE Look
  <2>1. NextPlace /\ UNCHANGED <<rec, disk, crashed, buffer, heard>>
    BY <1>2, <1>8 DEF Look, sharedq, recorder, history
  <2>2. place'.step = "look"
    BY <1>5, <2>1 DEF NextPlace
  <2> QED  BY <1>3, <2>1, <2>2
<1>9. ~(\/ CloseTell \/ CloseSeek \/ CloseShut \/ DeleteWav \/ ClearSlot \/ SwapNew \/ SwapOpen)
  BY <1>2 DEF CloseTell, CloseSeek, CloseShut, DeleteWav, ClearSlot, SwapNew, SwapOpen
<1>10. CASE UNCHANGED vars
  <2>1. UNCHANGED <<rec, disk, crashed, buffer, heard, place>>
    BY <1>10 DEF vars, sharedq, recorder, mainvars, waves, history
  <2> QED  BY <1>2, <1>3, <2>1
<1> QED  BY <1>1, <1>4, <1>6, <1>7, <1>8, <1>9, <1>10 DEF Next, MainStep

(* As the plugin is started at this commit (recorder.cpp:197, 364-368: a bare
   QThread, so that nothing enters Recorder::run): however it is configured,
   no file is ever made, nothing crashes, and every list that was passed on is
   still in the buffer, which only grows.                                    *)
THEOREM UnboundRecordsNothing ==
  ASSUME ~RunBound
  PROVE  Safety => []NothingRecorded
<1>1. Init => Unbound
  <2> SUFFICES ASSUME Init PROVE Unbound
    OBVIOUS
  <2>1. /\ rec = "off" /\ place = LookAt(1) /\ DOMAIN disk = {} /\ crashed = FALSE
        /\ DOMAIN heard = {}
    BY DEF Init
  <2>2. place.step = "look"
    BY <2>1 DEF LookAt, Place
  <2> QED  BY <2>1, <2>2 DEF Unbound, NothingRecorded, Hoarded
<1>2. Typed /\ Unbound /\ [Next]_vars => (Typed /\ Unbound)'
  BY TypedStep, UnboundStep
<1>3. Unbound => NothingRecorded
  BY DEF Unbound
<1> QED  BY <1>1, <1>2, <1>3, TypedInit, PTL DEF Safety
=============================================================================
