---------------------------- MODULE MCTcpStreamer ----------------------------
(* A ring of three slots, two channels of two samples, a client's counters to
   six: enough for the worker to come round to the slot in use.             *)
EXTENDS TcpStreamer
=============================================================================
