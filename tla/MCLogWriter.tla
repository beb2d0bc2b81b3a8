----------------------------- MODULE MCLogWriter -----------------------------
(* Two callers (the main thread and the message server's thread) against the
   writer thread. No symmetry: the run checks liveness too.                  *)
EXTENDS LogWriter
=============================================================================
