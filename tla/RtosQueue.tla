------------------------------ MODULE RtosQueue ------------------------------
(***************************************************************************)
(* The FreeRTOS queue as the tasks of this firmware see it: a bounded      *)
(* sequence of items, copied in and out inside a critical section, so that *)
(* each call below is one indivisible step.  A caller that passes timeout  *)
(* 0 never waits: its item is dropped when the queue is full.  A caller    *)
(* that passes portMAX_DELAY waits: CanSend or CanReceive is then a guard  *)
(* of its action.                                                          *)
(***************************************************************************)
EXTENDS Naturals, Sequences

(* uxMessagesWaiting against uxLength. *)
CanSend(q, length) == Len(q) < length

CanReceive(q) == q # << >>

(* Mutant: no test of uxMessagesWaiting before the copy. *)
SendToBackUnchecked(q, length, item) == Append(q, item)

(* xQueueSend(q, item, 0) and xQueueSendFromISR. *)
SendToBack(q, length, item) ==
  IF CanSend(q, length) THEN Append(q, item) ELSE q

(* xQueueSendToFront(q, item, 0). *)
SendToFront(q, length, item) ==
  IF CanSend(q, length) THEN <<item>> \o q ELSE q

(* xQueueReset: every item is forgotten, blocked senders wake up. *)
Reset == << >>

(* The values a queue of the given length and item set can hold. *)
QueueOf(Item, length) == { q \in Seq(Item) : Len(q) <= length }
=============================================================================
