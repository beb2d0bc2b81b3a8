----------------------------- MODULE UdpStreamer -----------------------------
(* The UDP side of the udp-streamer plugin (udp-streamer/server.cpp): the slot
   readyReadUdp, which follows the device's frame counter and hands lists of
   samples to the plugin chain, and the one-second timer's checkConnection.
   Both run in the main thread's event loop, so the timer never fires inside
   the read loop, but datagrams do arrive during it. The network between the
   device and the socket is external.                                        *)
EXTENDS Integers, Sequences, SequencesExt

CONSTANTS CounterMod,     \* 2^32: the counters are uint32_t
          Channels,       \* m_channels
          SingleFile,     \* m_singleFile
          PeekOn,         \* s_peekOptions.peekOnOff
          ChainClears,    \* the last plugin of the chain clears the list
          FaultSets,      \* what the network and the device may do
          FirstCounters,  \* where the device's counter may be at first
          MaxFrames,      \* bound: frames sent, copies included
          MaxQueue        \* bound: datagrams in flight, and in the socket

ASSUME UdpAssumption ==
  /\ CounterMod \in Nat \ {0, 1} /\ CounterMod % 2 = 0
  /\ Channels \in 1 .. 127
  /\ SingleFile \in BOOLEAN /\ PeekOn \in BOOLEAN /\ ChainClears \in BOOLEAN
  /\ FaultSets \subseteq
       SUBSET {"loss", "dup", "reorder", "reboot", "runt", "spurious"}
  /\ FirstCounters \subseteq 0 .. CounterMod - 1
  /\ MaxFrames \in Nat /\ MaxQueue \in Nat

VARIABLES
  faults,        \* which faults this behaviour may meet
  devCounter,    \* the device's frame counter
  framesSent,    \* how many frames it has sent
  net,           \* datagrams in flight
  sockq,         \* datagrams pending in the bound socket
  handler,       \* "idle", or "reading" inside readyReadUdp's loop
  heard,         \* m_monitorData is not empty
  paketCounter, desynchCounter, totalLost, onetimeSynch,  \* m_conn_info
  peeked,        \* how many frames m_helper->m_buffer holds
  lists,         \* the lists the last datagram made put_data pass on
  data,          \* history: frames forwarded since the counters were reset
  lastData,      \* history: the counter of the last of them, 0 if none
  nulls,         \* history: lists of null samples passed on since the reset
  firstLost,     \* history: frames found missing by the first desync
  ahead          \* history: how far paketCounter has gone on from lastData

device  == <<faults, devCounter, framesSent>>
conn    == <<paketCounter, desynchCounter, totalLost, onetimeSynch>>
history == <<data, lastData, nulls, firstLost, ahead>>
vars == <<device, net, sockq, handler, heard, conn, peeked, lists, history>>

Counter == 0 .. CounterMod - 1
Runt == CounterMod              \* a datagram whose size is not a frame's
Datagram == Counter \cup {Runt}

(* A list of sample_data_t: the entries of a frame's channels, or of null
   samples.                                                                  *)
List(kind, entries) == [kind |-> kind, entries |-> entries]

ZeroCounters ==
  /\ paketCounter = 0 /\ desynchCounter = 0 /\ totalLost = 0 /\ onetimeSynch = FALSE
  /\ data = 0 /\ lastData = 0 /\ nulls = 0 /\ firstLost = 0 /\ ahead = 0

Init ==
  /\ faults \in FaultSets
  /\ devCounter \in FirstCounters  \* the device may have been sending for long
  /\ framesSent = 0 /\ net = <<>> /\ sockq = <<>> /\ handler = "idle"
  /\ heard = FALSE /\ ZeroCounters /\ peeked = 0 /\ lists = <<>>

-----------------------------------------------------------------------------
(* The device and the network.                                               *)

DeviceSend ==
  /\ framesSent < MaxFrames /\ Len(net) < MaxQueue
  /\ devCounter' = (devCounter + 1) % CounterMod /\ framesSent' = framesSent + 1
  /\ net' = Append(net, devCounter')
  /\ UNCHANGED <<faults, sockq, handler, heard, conn, peeked, lists, history>>

DeviceReboot ==
  /\ "reboot" \in faults /\ devCounter # 0
  /\ devCounter' = 0
  /\ UNCHANGED <<faults, framesSent, net, sockq, handler, heard, conn, peeked, lists, history>>

(* The datagram at position i reaches the socket; i > 1 is reordering.       *)
Deliver(i) ==
  /\ i \in DOMAIN net /\ (i = 1 \/ "reorder" \in faults)
  /\ Len(sockq) < MaxQueue
  /\ \/ sockq' = Append(sockq, net[i])
     \/ "runt" \in faults /\ sockq' = Append(sockq, Runt)
  /\ net' = RemoveAt(net, i)
  /\ UNCHANGED <<device, handler, heard, conn, peeked, lists, history>>

Duplicate ==
  /\ "dup" \in faults /\ Len(net) < MaxQueue
  /\ \E i \in DOMAIN net : (i = 1 \/ "reorder" \in faults) /\ net' = <<net[i]>> \o net
  /\ framesSent < MaxFrames /\ framesSent' = framesSent + 1
  /\ UNCHANGED <<faults, devCounter, sockq, handler, heard, conn, peeked, lists, history>>

Lose ==
  /\ "loss" \in faults /\ net # <<>>
  /\ net' = Tail(net)
  /\ UNCHANGED <<device, sockq, handler, heard, conn, peeked, lists, history>>

-----------------------------------------------------------------------------
(* disconnected(): forget the connection.                                    *)
Disconnected ==
  /\ heard' = FALSE
  /\ paketCounter' = 0 /\ desynchCounter' = 0 /\ totalLost' = 0
  /\ onetimeSynch' = FALSE
  /\ data' = 0 /\ lastData' = 0 /\ nulls' = 0 /\ firstLost' = 0 /\ ahead' = 0

(* checkConnection(), from the timer m_liveConnection.                       *)
HeardKept == heard  \* seeded bug: m_monitorData.clear() forgotten

HeardAfterTick == FALSE

CheckConnection ==
  /\ handler = "idle"
  /\ \/ ~heard /\ Disconnected
     \/ heard /\ heard' = HeardAfterTick /\ UNCHANGED <<conn, history>>
  /\ UNCHANGED <<device, net, sockq, handler, peeked, lists>>

(* readyReadUdp(): the notification, then one step per turn of its loop.     *)
ReadyRead ==
  /\ handler = "idle" /\ sockq # <<>>
  /\ handler' = "reading" /\ heard' = TRUE
  /\ UNCHANGED <<device, net, sockq, conn, peeked, lists, history>>

ReadyReadEmpty ==
  /\ "spurious" \in faults
  /\ handler = "idle" /\ sockq = <<>>
  /\ Disconnected
  /\ UNCHANGED <<device, net, sockq, handler, peeked, lists>>

ReadLoopEnds ==
  /\ handler = "reading" /\ sockq = <<>>
  /\ handler' = "idle"
  /\ UNCHANGED <<device, net, sockq, heard, conn, peeked, lists, history>>

(* A datagram of another size: "Missed an UDP".                              *)
ReadRunt ==
  /\ handler = "reading" /\ sockq # <<>> /\ Head(sockq) = Runt
  /\ sockq' = Tail(sockq) /\ lists' = <<>>
  /\ UNCHANGED <<device, net, handler, heard, conn, peeked, history>>

(* A frame (its checksum is computed and ignored) is peeked at and compared
   with ++paketCounter.                                                      *)
Expected == (paketCounter + 1) % CounterMod

AnyCounter == TRUE  \* seeded bug: the counter is not compared

InSync == Head(sockq) = Expected

ReadFrame ==
  /\ handler = "reading" /\ sockq # <<>> /\ Head(sockq) # Runt
  /\ sockq' = Tail(sockq)
  /\ peeked' = IF PeekOn THEN peeked + 1 ELSE peeked
  /\ UNCHANGED <<device, net, handler, heard>>

(* In m_singleFile mode the list has a single entry.                         *)
DataList == List("data", IF SingleFile THEN 1 ELSE Channels)

ReadInSync ==
  /\ ReadFrame /\ InSync
  /\ paketCounter' = Expected
  /\ lists' = <<DataList>>
  /\ data' = data + 1 /\ lastData' = Head(sockq) /\ ahead' = 0
  /\ UNCHANGED <<desynchCounter, totalLost, onetimeSynch, nulls, firstLost>>

(* int errs = udp.counter - paketCounter: the difference of two uint32_t
   read as a signed number.                                                  *)
Signed(d) == IF d < CounterMod \div 2 THEN d ELSE d - CounterMod

Errs == Signed((Head(sockq) - Expected) % CounterMod)

(* One list before the first synchronisation, then one per missing frame. The
   list is the same QList each time: what the chain leaves in it stays.      *)
OneListTooMany(errs) ==  \* seeded bug: i <= errs
  [k \in 1 .. errs + 1 |-> List("null", Channels)]

NullLists(errs) ==
  IF ~onetimeSynch
  THEN <<List("null", Channels)>>
  ELSE [k \in 1 .. errs |-> List("null", (IF ChainClears THEN 1 ELSE k) * Channels)]

LostUnwrapped == totalLost + Errs  \* seeded bug: totalLost is a wider, signed sum

LostInAll == (totalLost + Errs) % CounterMod

NoResync == Expected  \* seeded bug: paketCounter = udp.counter forgotten

ResyncTo == Head(sockq)

ReadDesync ==
  /\ ReadFrame /\ ~InSync
  /\ desynchCounter' = (desynchCounter + 1) % CounterMod
  /\ totalLost' = LostInAll
  /\ paketCounter' = ResyncTo
  /\ onetimeSynch' = TRUE
  /\ lists' = NullLists(Errs)
  /\ nulls' = nulls + Len(lists')
  /\ firstLost' = IF onetimeSynch THEN firstLost ELSE Errs
  /\ ahead' = ahead + 1 + Errs
  /\ UNCHANGED <<data, lastData>>

ReadyReadUdp ==
  ReadyRead \/ ReadLoopEnds \/ ReadRunt \/ ReadInSync \/ ReadDesync

Network == \/ Duplicate \/ Lose
           \/ \E i \in DOMAIN net : Deliver(i)

Next == DeviceSend \/ DeviceReboot \/ Network
        \/ ReadyReadUdp \/ ReadyReadEmpty \/ CheckConnection

Safety == Init /\ [][Next]_vars

(* The event loop runs: the socket's notifications and the timer are served. *)
Spec == Safety /\ WF_vars(ReadyReadUdp) /\ WF_vars(CheckConnection)

-----------------------------------------------------------------------------
TypeOK ==
  /\ faults \in FaultSets /\ devCounter \in Counter /\ framesSent \in Nat
  /\ net \in Seq(Datagram) /\ sockq \in Seq(Datagram)
  /\ handler \in {"idle", "reading"} /\ heard \in BOOLEAN
  /\ paketCounter \in Counter /\ desynchCounter \in Counter
  /\ totalLost \in Counter /\ onetimeSynch \in BOOLEAN
  /\ peeked \in Nat
  /\ data \in Nat /\ lastData \in Counter /\ nulls \in Nat /\ firstLost \in Int /\ ahead \in Int

(* The three uint32_t counters of m_conn_info balance, whatever is lost,
   duplicated, reordered or restarted and however they wrap: each frame read
   was forwarded or counted as a desync, and paketCounter is the frames read
   plus the frames reported lost (server.cpp:258-276).                       *)
CountersBalance ==
  paketCounter = (data + desynchCounter + totalLost) % CounterMod

(* What the recording holds when frames are only lost. server.cpp:279 has a null
   packet written for every missed one: from the first desync on it is so, yet
   the frame that shows a gap is dropped itself. The first gap leaves one list
   for it and nothing of what it missed; each later one makes the recording one
   frame shorter than what the device sent (server.cpp:258-308).              *)
RecordingFallsShort ==
  onetimeSynch /\ faults \cap {"dup", "reorder", "reboot"} = {} =>
    (data + nulls) % CounterMod
      = (paketCounter - firstLost - (desynchCounter - 1)) % CounterMod

(* Within a connection a frame is forwarded again, or after a later one, only
   where an earlier frame came in between and the count was set back to it: it
   takes a late frame or copy, or a restarted device. The frames 1 2 3 2 3 are
   forwarded as 1 2 3 3 (server.cpp:258-276).                                *)
ForwardedInOrder ==
  [][data' = data + 1 /\ data > 0 =>
       \/ Signed((lastData' - lastData) % CounterMod) > 0
       \/ ahead < 0 /\ faults \cap {"reorder", "reboot"} # {}]_vars

(* A silent device is noticed: the counters go back to zero for good, so that
   a frame that comes much later is not taken to continue the old connection
   (server.cpp:357-368: the first tick forgets, the second one resets).      *)
SilenceIsNoticed == <>[](~heard /\ paketCounter = 0 /\ ~onetimeSynch)

(* recorder.cpp:251-252 and README.md:92-93: the last plugin cleans the list,
   so the list for a missed frame holds that frame's channels and no more.   *)
NullListIsOneFrame ==
  \A k \in DOMAIN lists : lists[k].kind = "null" => lists[k].entries = Channels
=============================================================================
