---------------------------- MODULE AbstractLog ----------------------------
(* What utils::Logger promises its callers: the messages it accepted appear
   in the log file one by one, in the order they were accepted, none twice
   and none skipped; and while the log is on, an accepted message does appear.
   Nothing is promised for what is still unwritten when the log goes off.   *)
EXTENDS Naturals, Sequences

CONSTANT Message

VARIABLES accepted,  \* every message taken from a caller, in order
          log,       \* the messages in the file
          phase      \* "new", then "on", then "off"

absVars == <<accepted, log, phase>>

Init == accepted = <<>> /\ log = <<>> /\ phase = "new"

Accept == /\ \E m \in Message : accepted' = Append(accepted, m)
          /\ UNCHANGED <<log, phase>>

Persist == /\ Len(log) < Len(accepted)
           /\ log' = Append(log, accepted[Len(log) + 1])
           /\ UNCHANGED <<accepted, phase>>

Switch == /\ \/ phase = "new" /\ phase' \in {"on", "off"}
             \/ phase = "on" /\ phase' = "off"
          /\ UNCHANGED <<accepted, log>>

Next == Accept \/ Persist \/ Switch

PersistWhileOn == phase = "on" /\ Persist

Safety == Init /\ [][Next]_absVars

Spec == Safety /\ WF_absVars(PersistWhileOn)
=============================================================================
