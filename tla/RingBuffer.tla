----------------------------- MODULE RingBuffer -----------------------------
(* utils/ring-buffer.h: an array with two heads, a reader's and a writer's.
   read() finds nothing when they are equal; write() does not look at the
   reader's. No field is shared but the slots and, to be read, the other's
   head.                                                                     *)
EXTENDS Integers, Sequences

CONSTANT Size  \* SIZE

ASSUME SizeAssumption == Size \in Nat \ {0, 1}

VARIABLES buffer,  \* m_buffer
          rHead, wHead

ring == <<buffer, rHead, wHead>>

Slots == 0 .. Size - 1

Heads == rHead = 0 /\ wHead = 0

(* advanceReadHead, advanceWriteHead: end() is the last slot.                *)
AdvanceStuck(head) == head  \* seeded bug: the head is not advanced

AdvanceShort(head) == IF head = Size - 2 THEN 0 ELSE head + 1  \* seeded bug: the last slot is unused

AdvanceReadHead(head) == IF head = Size - 1 THEN 0 ELSE head + 1

AdvanceWriteHead(head) == IF head = Size - 1 THEN 0 ELSE head + 1

Empty == rHead = wHead

(* The frames from one head to the other.                                    *)
Unread == IF wHead >= rHead THEN wHead - rHead ELSE wHead - rHead + Size

SlotOf(k) == IF rHead + k - 1 < Size THEN rHead + k - 1 ELSE rHead + k - 1 - Size

Contents == [k \in 1 .. Unread |-> buffer[SlotOf(k)]]
=============================================================================
