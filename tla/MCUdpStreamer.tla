---------------------------- MODULE MCUdpStreamer ----------------------------
(* One device and one server, over networks of different kinds.              *)
EXTENDS UdpStreamer

Lossy == {{"loss", "runt"}}

(* A network that loses, one that also repeats, and one that does anything, late
   copies included, while the device restarts.                               *)
Faults == Lossy \cup {{"loss", "dup"},
                      {"loss", "dup", "reorder", "reboot", "runt", "spurious"}}
=============================================================================
