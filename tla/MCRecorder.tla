------------------------------ MODULE MCRecorder ------------------------------
(* One recorder with a slot less than a list has entries. Against the timer one
   entry sounds at a time; for the other ways of swapping any of those that have
   a slot, and in one the entry that has none.                               *)
EXTENDS Recorder

Lists == [m \in SwapModes |-> 3]

Sounding(E) == [i \in Entries |-> IF i \in E THEN 1 ELSE 0]

OneAtMost == {Sounding(E) : E \in {{}} \cup {{i} : i \in Slots \cap Entries}}

InSlots == {Sounding(E) : E \in SUBSET (Slots \cap Entries)}

Inputs == [m \in SwapModes |->
             CASE m = "time" -> OneAtMost
               [] m = "size" -> InSlots
               [] m = "none" -> InSlots \cup {Sounding({1, Channels})}]
=============================================================================
