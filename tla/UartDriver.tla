----------------------------- MODULE UartDriver -----------------------------
(***************************************************************************)
(* uart.c with both queues enabled: tasks that print through the transmit  *)
(* queue, tasks that print on stderr, which polls, a task that reads, and  *)
(* the interrupt handler between the queues and the peripheral.  The       *)
(* peripheral is an environment that behaves as the LPC4078's manual says: *)
(* a transmit FIFO, a shift register, and a "transmitter empty" interrupt  *)
(* that comes once when the FIFO has run empty, at some moment before the  *)
(* shift register has.                                                     *)
(***************************************************************************)
EXTENDS RtosQueue, FiniteSets

CONSTANTS Writer,        \* tasks that call uart__put
          PolledWriter,  \* tasks that call uart__polled_put
          TxLength,      \* length of the transmit queue
          RxLength,      \* length of the receive queue
          FifoSize,      \* bytes in the transmit FIFO (hw_fifo_size)
          MaxBytes,      \* bound on the bytes of one writer
          MaxPolled,     \* bound on the bytes of one polled writer
          MaxReceived,   \* bound on the bytes that arrive
          NoByte

ASSUME UartAssumption ==
  /\ TxLength \in Nat \ {0} /\ RxLength \in Nat \ {0} /\ FifoSize \in Nat \ {0}
  /\ MaxBytes \in Nat /\ MaxPolled \in Nat /\ MaxReceived \in Nat
  /\ Writer \cap PolledWriter = {}
  /\ NoByte \notin (Writer \cup PolledWriter) \X Nat

VARIABLES
  txq, rxq,         \* queue_transmit and queue_receive
  fifo, shift,      \* the transmit FIFO and the shift register
  due,              \* the FIFO ran empty and the interrupt has not come yet
  transmitterEmpty, \* the interrupt is pending
  rxFifo,           \* received and not read
  pc,               \* pc[w]: where writer w is in its put
  count,            \* bytes w has printed
  line,             \* what went over the line
  deposited,        \* what was put on the transmit queue, in order
  missed,           \* a kick-off found the shift register busy and no
                    \* interrupt left to come
  arrived, got      \* bytes received so far, and read by uart__get

tx == <<txq, fifo, shift, due, transmitterEmpty, line, missed>>
rx == <<rxq, rxFifo, arrived, got>>
writers == <<pc, count, deposited>>
vars == <<tx, rx, writers>>

Byte == (Writer \cup PolledWriter) \X Nat

(* Bit 6 of LSR: neither the FIFO nor the shift register holds a byte. *)
Idle == fifo = <<>> /\ shift = NoByte

(* Bytes wait in the queue and no interrupt will come for them. *)
NothingToCome == txq # <<>> /\ fifo = <<>> /\ ~due /\ ~transmitterEmpty

Least(m, n) == IF m < n THEN m ELSE n

Init ==
  /\ txq = <<>> /\ rxq = <<>>
  /\ fifo = <<>> /\ shift = NoByte
  /\ due = FALSE /\ transmitterEmpty \in BOOLEAN
  /\ rxFifo = <<>>
  /\ pc = [w \in Writer \cup PolledWriter |-> "idle"]
  /\ count = [w \in Writer \cup PolledWriter |-> 0]
  /\ line = <<>> /\ deposited = <<>> /\ missed = FALSE
  /\ arrived = 0 /\ got = <<>>

-----------------------------------------------------------------------------
(* The peripheral *)

(* The shift register takes the next byte. *)
ShiftNext ==
  /\ shift = NoByte
  /\ fifo # <<>>
  /\ shift' = Head(fifo)
  /\ fifo' = Tail(fifo)
  /\ due' = (Tail(fifo) = <<>>)
  /\ UNCHANGED <<txq, transmitterEmpty, line, missed, rx, writers>>

(* The interrupt comes at once, or up to a byte later if the FIFO held one *)
(* byte only.                                                              *)
RaiseTransmitterEmpty ==
  /\ due
  /\ due' = FALSE
  /\ transmitterEmpty' = TRUE
  /\ UNCHANGED <<txq, fifo, shift, line, missed, rx, writers>>

SendByte ==
  /\ shift # NoByte
  /\ ~due
  /\ line' = Append(line, shift)
  /\ shift' = NoByte
  /\ UNCHANGED <<txq, fifo, due, transmitterEmpty, missed, rx, writers>>

(* A byte arrives; bytes that find the receive FIFO full are the sender's  *)
(* concern, not the driver's.                                              *)
Arrive ==
  /\ arrived < MaxReceived
  /\ arrived' = arrived + 1
  /\ rxFifo' = Append(rxFifo, arrived + 1)
  /\ UNCHANGED <<tx, rxq, got, writers>>

(* A write to THR takes the interrupt back.  A byte for which the FIFO has *)
(* no room is lost.                                                        *)
WriteTHR(bytes) ==
  /\ fifo' = SubSeq(fifo \o bytes, 1, Least(Len(fifo \o bytes), FifoSize))
  /\ transmitterEmpty' = FALSE
  /\ due' = FALSE

-----------------------------------------------------------------------------
(* The interrupt handler *)

(* uart__load_pending_transmit_bytes: as many bytes as the FIFO holds.  *)
(* Reading IIR, before, acknowledged the interrupt.                     *)
LoadPendingTransmitBytes ==
  LET n == Least(Len(txq), FifoSize)
  IN /\ txq' = SubSeq(txq, n + 1, Len(txq))
     /\ IF n = 0 THEN transmitterEmpty' = FALSE /\ UNCHANGED <<fifo, due>>
                 ELSE WriteTHR(SubSeq(txq, 1, n))
     /\ missed' = (n = 0 /\ missed)

(* IIR reports one source at a time, a reception first; the model lets the *)
(* handler find them in either order.                                      *)
IsrTransmit ==
  /\ transmitterEmpty
  /\ LoadPendingTransmitBytes
  /\ UNCHANGED <<shift, line, rx, writers>>

(* Mutant: the bytes the queue has no room for stay in the FIFO. *)
ClearReceiveFifoUntilFull ==
  /\ rxFifo # <<>>
  /\ CanSend(rxq, RxLength)
  /\ rxq' = Append(rxq, Head(rxFifo))
  /\ rxFifo' = Tail(rxFifo)
  /\ UNCHANGED <<tx, arrived, got, writers>>

(* uart__clear_receive_fifo: every byte is read, also those the queue has no *)
(* room for.  The interrupt comes at the trigger level or after a timeout.   *)
ClearReceiveFifo ==
  /\ rxFifo # <<>>
  /\ rxq' = rxq \o SubSeq(rxFifo, 1, Least(Len(rxFifo), RxLength - Len(rxq)))
  /\ rxFifo' = <<>>
  /\ UNCHANGED <<tx, arrived, got, writers>>

-----------------------------------------------------------------------------
(* The tasks *)

(* Mutant: the timeout of the send is not waited for. *)
DepositUnchecked(w) ==
  /\ pc[w] = "idle"
  /\ count[w] < MaxBytes
  /\ txq' = Append(txq, <<w, count[w] + 1>>)
  /\ deposited' = Append(deposited, <<w, count[w] + 1>>)
  /\ count' = [count EXCEPT ![w] = @ + 1]
  /\ pc' = [pc EXCEPT ![w] = "deposited"]
  /\ UNCHANGED <<fifo, shift, due, transmitterEmpty, line, missed, rx>>

(* uart__put, first half: the byte goes on the queue, which may have to make *)
(* room for it first.  Every caller in the firmware waits for ever.          *)
Deposit(w) ==
  /\ pc[w] = "idle"
  /\ count[w] < MaxBytes
  /\ CanSend(txq, TxLength)
  /\ txq' = Append(txq, <<w, count[w] + 1>>)
  /\ deposited' = Append(deposited, <<w, count[w] + 1>>)
  /\ count' = [count EXCEPT ![w] = @ + 1]
  /\ pc' = [pc EXCEPT ![w] = "deposited"]
  /\ UNCHANGED <<fifo, shift, due, transmitterEmpty, line, missed, rx>>

(* Mutant: the byte of this call is sent instead of the oldest. *)
KickOffWithOwnByte(w) ==
  /\ pc[w] = "deposited"
  /\ pc' = [pc EXCEPT ![w] = "idle"]
  /\ \/ /\ Idle /\ txq # <<>>
        /\ WriteTHR(<< <<w, count[w]>> >>)
        /\ txq' = Tail(txq)
        /\ missed' = FALSE
     \/ /\ ~(Idle /\ txq # <<>>)
        /\ missed' = (missed \/ NothingToCome)
        /\ UNCHANGED <<txq, fifo, due, transmitterEmpty>>
  /\ UNCHANGED <<shift, line, count, deposited, rx>>

(* Mutant: no kick-off, the interrupt is trusted to come. *)
NoKickOff(w) ==
  /\ pc[w] = "deposited"
  /\ pc' = [pc EXCEPT ![w] = "idle"]
  /\ UNCHANGED <<txq, fifo, shift, due, transmitterEmpty, line, missed, count, deposited, rx>>

(* uart__put, second half, a critical section: if the transmitter is idle the *)
(* oldest byte starts it.                                                     *)
KickOff(w) ==
  /\ pc[w] = "deposited"
  /\ pc' = [pc EXCEPT ![w] = "idle"]
  /\ \/ /\ Idle /\ txq # <<>>
        /\ WriteTHR(<<Head(txq)>>)
        /\ txq' = Tail(txq)
        /\ missed' = FALSE
     \/ /\ ~(Idle /\ txq # <<>>)
        /\ missed' = (missed \/ NothingToCome)
        /\ UNCHANGED <<txq, fifo, due, transmitterEmpty>>
  /\ UNCHANGED <<shift, line, count, deposited, rx>>

(* uart__polled_put: wait until the FIFO is empty (bit 5 of LSR), write, wait *)
(* again.  The handler and the other tasks run between waiting and writing.   *)
PolledWait(w) ==
  /\ pc[w] = "idle"
  /\ count[w] < MaxPolled
  /\ fifo = <<>>
  /\ count' = [count EXCEPT ![w] = @ + 1]
  /\ pc' = [pc EXCEPT ![w] = "writing"]
  /\ UNCHANGED <<tx, rx, deposited>>

PolledWrite(w) ==
  /\ pc[w] = "writing"
  /\ WriteTHR(<< <<w, count[w]>> >>)
  /\ pc' = [pc EXCEPT ![w] = "draining"]
  /\ UNCHANGED <<txq, shift, line, missed, rx, count, deposited>>

PolledDrain(w) ==
  /\ pc[w] = "draining"
  /\ fifo = <<>>
  /\ pc' = [pc EXCEPT ![w] = "idle"]
  /\ UNCHANGED <<tx, rx, count, deposited>>

(* Mutant: the byte is peeked at. *)
GetPeek ==
  /\ CanReceive(rxq)
  /\ Len(got) < MaxReceived
  /\ got' = Append(got, Head(rxq))
  /\ UNCHANGED <<tx, rxq, rxFifo, arrived, writers>>

(* uart__get *)
Get ==
  /\ CanReceive(rxq)
  /\ got' = Append(got, Head(rxq))
  /\ rxq' = Tail(rxq)
  /\ UNCHANGED <<tx, rxFifo, arrived, writers>>

Put(w) == Deposit(w) \/ KickOff(w)
PolledPut(w) == PolledWait(w) \/ PolledWrite(w) \/ PolledDrain(w)

Peripheral == ShiftNext \/ RaiseTransmitterEmpty \/ SendByte
Isr == IsrTransmit \/ ClearReceiveFifo

Next ==
  \/ Peripheral \/ Arrive
  \/ Isr
  \/ \E w \in Writer : Put(w)
  \/ \E w \in PolledWriter : PolledPut(w)
  \/ Get

Spec == Init /\ [][Next]_vars

(* The peripheral goes on, the interrupts are served and a task inside a put *)
(* goes on.  That a task prints again, or reads, is not assumed.             *)
FairSpec ==
  /\ Spec
  /\ WF_vars(Peripheral)
  /\ WF_vars(IsrTransmit) /\ WF_vars(ClearReceiveFifo)
  /\ \A w \in Writer : WF_vars(KickOff(w))
  /\ \A w \in PolledWriter : WF_vars(PolledWrite(w)) /\ WF_vars(PolledDrain(w))

-----------------------------------------------------------------------------
(* Properties *)

TypeOK ==
  /\ txq \in QueueOf(Writer \X Nat, TxLength) /\ rxq \in QueueOf(Nat, RxLength)
  /\ fifo \in QueueOf(Byte, FifoSize) /\ shift \in Byte \cup {NoByte}
  /\ due \in BOOLEAN /\ transmitterEmpty \in BOOLEAN /\ missed \in BOOLEAN
  /\ rxFifo \in Seq(Nat) /\ got \in Seq(Nat) /\ arrived \in Nat
  /\ pc \in [Writer \cup PolledWriter -> {"idle", "deposited", "writing", "draining"}]
  /\ count \in [Writer \cup PolledWriter -> Nat]
  /\ line \in Seq(Byte) /\ deposited \in Seq(Writer \X Nat)

InShift == IF shift = NoByte THEN <<>> ELSE <<shift>>

(* The bytes that went through the queue, of all that were written. *)
Queued(bytes) ==
  LET upTo[k \in 0..Len(bytes)] ==
        IF k = 0 THEN <<>>
        ELSE IF bytes[k][1] \in Writer THEN Append(upTo[k - 1], bytes[k])
        ELSE upTo[k - 1]
  IN  upTo[Len(bytes)]

(* What uart__put deposits leaves in that order, each byte once, although the *)
(* handler and every task's kick-off take bytes off the queue, and tasks that *)
(* print on stderr write to the FIFO without looking at the queue.            *)
NoByteLost == Queued(line \o InShift \o fifo) \o txq = deposited

(* Bytes can be left behind in the queue, with no interrupt to come and no    *)
(* task about to start the transmitter, for one reason only: a kick-off that  *)
(* came after the last interrupt and before the last byte's end.  "We check   *)
(* here in a critical section if transmit holder register is empty, and       *)
(* kick-off the tranmisssion", says uart__put; bit 6, which it tests, is up   *)
(* only when the shift register is empty too.                                 *)
LeftOnlyIfMissed ==
  NothingToCome /\ (\A w \in Writer : pc[w] # "deposited") => missed

(* The driver gives received bytes to uart__get in the order they arrived,    *)
(* none of them twice.                                                        *)
ReceivedInOrder ==
  LET r == got \o rxq \o rxFifo IN \A i \in 1..(Len(r) - 1) : r[i] < r[i + 1]

(* "Even if xQueueSendFromISR() fails (Queue is full), we still need to read  *)
(* RBR register otherwise interrupt will not clear": with a full queue and    *)
(* nobody reading it, the receive FIFO is emptied all the same.               *)
ReceptionIsCleared == (rxFifo # <<>>) ~> (rxFifo = <<>>)

(* A put that finds the transmitter idle sends its byte and all before it,    *)
(* those that an earlier put left behind as well.                             *)
PutOnIdleSends ==
  \A n \in 1..(Cardinality(Writer) * MaxBytes) :
    (Len(deposited) = n /\ Idle /\ \E w \in Writer : pc[w] = "deposited")
      ~> (Len(Queued(line)) >= n)
=============================================================================
