-------------------------- MODULE RtosQueueTheorems --------------------------
(***************************************************************************)
(* What the queue calls preserve, for every item set and every length, and *)
(* induction over the natural numbers, for what is computed item by item.  *)
(***************************************************************************)
EXTENDS RtosQueue, SequenceTheorems, WellFoundedInduction, TLAPS

(* Induction with a set in the place of a predicate: the library's theorems  *)
(* on induction take operators, which the provers here cannot instantiate,   *)
(* but those on well-founded relations take sets.                            *)
Precedes == {p \in Nat \X Nat : p[1] < p[2]}

LEMMA LeastMember ==
  ASSUME NEW T \in SUBSET Nat, T # {}
  PROVE  \E n \in T : \A m \in T : n <= m
  <1>1. IsWellFoundedOn(Precedes, Nat)
    BY NatLessThanWellFounded, Zenon DEF OpToRel, Precedes
  <1>2. PICK n \in T : \A m \in T : <<m, n>> \notin Precedes
    BY <1>1, WFMin
  <1>3. \A m \in T : m \in Nat /\ n \in Nat /\ ~(m < n)
    BY <1>2 DEF Precedes
  <1> QED
    BY <1>3

LEMMA NaturalsFromZero ==
  ASSUME NEW T \in SUBSET Nat, 0 \in T, \A n \in T : n + 1 \in T
  PROVE  T = Nat
  <1> SUFFICES ASSUME Nat \ T # {} PROVE FALSE
    OBVIOUS
  <1>1. PICK n \in Nat \ T : \A m \in Nat \ T : n <= m
    <2>1. Nat \ T \in SUBSET Nat
      OBVIOUS
    <2> QED
      BY <2>1, LeastMember
  <1>2. n - 1 \in Nat /\ n - 1 + 1 = n
    BY <1>1
  <1>3. n - 1 \in T
    BY <1>1, <1>2
  <1> QED
    BY <1>1, <1>2, <1>3

-----------------------------------------------------------------------------

(* prvCopyDataToQueue at the back, guarded by uxMessagesWaiting < uxLength:  *)
(* an append that had room leaves a queue within its length.                *)
LEMMA AppendStaysBounded ==
  ASSUME NEW Item, NEW length \in Nat, NEW q \in QueueOf(Item, length),
         NEW item \in Item, CanSend(q, length)
  PROVE  /\ Append(q, item) \in QueueOf(Item, length)
         /\ Len(Append(q, item)) = Len(q) + 1
BY DEF QueueOf, CanSend

(* xQueueSend with timeout 0: full or not, the queue stays within its length. *)
LEMMA SendToBackStaysBounded ==
  ASSUME NEW Item, NEW length \in Nat, NEW q \in QueueOf(Item, length),
         NEW item \in Item
  PROVE  SendToBack(q, length, item) \in QueueOf(Item, length)
BY AppendStaysBounded DEF SendToBack

(* xQueueSendToFront with timeout 0 stays within the length as well, and the *)
(* item that was sent is the next to be received when there was room.        *)
LEMMA SendToFrontStaysBounded ==
  ASSUME NEW Item, NEW length \in Nat, NEW q \in QueueOf(Item, length),
         NEW item \in Item
  PROVE  /\ SendToFront(q, length, item) \in QueueOf(Item, length)
         /\ CanSend(q, length) => Head(SendToFront(q, length, item)) = item
<1>1. CASE ~CanSend(q, length)
  BY <1>1 DEF SendToFront
<1>2. CASE CanSend(q, length)
  <2>1. /\ <<item>> \in Seq(Item) /\ Len(<<item>>) = 1 /\ <<item>>[1] = item
        /\ q \in Seq(Item)
    BY DEF QueueOf
  <2>2. /\ <<item>> \o q \in Seq(Item)
        /\ Len(<<item>> \o q) = 1 + Len(q)
        /\ Head(<<item>> \o q) = item
    BY <2>1, SMT
  <2>3. QED
    BY <1>2, <2>2 DEF SendToFront, QueueOf, CanSend
<1>3. QED
  BY <1>1, <1>2

(* xQueueReceive of a queue that holds something. *)
LEMMA ReceiveStaysBounded ==
  ASSUME NEW Item, NEW length \in Nat, NEW q \in QueueOf(Item, length),
         CanReceive(q)
  PROVE  /\ Head(q) \in Item
         /\ Tail(q) \in QueueOf(Item, length)
         /\ Len(Tail(q)) = Len(q) - 1
BY HeadTailProperties DEF QueueOf, CanReceive

(* A new or a reset queue. *)
LEMMA EmptyIsBounded ==
  ASSUME NEW Item, NEW length \in Nat
  PROVE  << >> \in QueueOf(Item, length)
BY DEF QueueOf
=============================================================================
