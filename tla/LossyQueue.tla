----------------------------- MODULE LossyQueue -----------------------------
(* What a ring of Room + 1 slots promises its single writer and its single
   reader when it overwrites: a queue in order which, when it is full, loses
   all it holds and the item that was to be added. While it is on, an item
   that waits is taken or lost.                                              *)
EXTENDS Naturals, Sequences

CONSTANTS Item, Room  \* Room is a natural number

VARIABLES queue,  \* what waits
          taken,  \* what the reader took, in order
          on      \* writer and reader still run

vars == <<queue, taken, on>>

Init == queue = <<>> /\ taken = <<>> /\ on = TRUE

Put(x) ==
  /\ on /\ queue' = (IF Len(queue) = Room THEN <<>> ELSE Append(queue, x))
  /\ UNCHANGED <<taken, on>>

Get ==
  /\ on /\ queue # <<>>
  /\ taken' = Append(taken, Head(queue)) /\ queue' = Tail(queue)
  /\ UNCHANGED on

Stop == on /\ on' = FALSE /\ UNCHANGED <<queue, taken>>

Next == (\E x \in Item : Put(x)) \/ Get \/ Stop

Spec == Init /\ [][Next]_vars /\ WF_vars(Get)
=============================================================================
