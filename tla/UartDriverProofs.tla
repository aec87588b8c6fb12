-------------------------- MODULE UartDriverProofs --------------------------
(***************************************************************************)
(* Proofs about UartDriver, for any tasks and any lengths of the queues    *)
(* and of the FIFO.                                                        *)
(***************************************************************************)
EXTENDS UartDriver, RtosQueueTheorems

UartInv == TypeOK /\ LeftOnlyIfMissed

-----------------------------------------------------------------------------
(* Sequences *)

LEMMA LeastIsLeast ==
  ASSUME NEW m \in Nat, NEW n \in Nat
  PROVE  /\ Least(m, n) \in Nat /\ Least(m, n) <= m /\ Least(m, n) <= n
         /\ m > 0 /\ n > 0 => Least(m, n) > 0
  BY DEF Least

LEMMA LeastOfOrdered ==
  ASSUME NEW m \in Nat, NEW n \in Nat, m <= n
  PROVE  Least(m, n) = m
  BY DEF Least

LEMMA Lengths ==
  /\ TxLength \in Nat /\ RxLength \in Nat
  /\ FifoSize \in Nat /\ FifoSize > 0
  BY UartAssumption

LEMMA PrefixFits ==
  ASSUME NEW S, NEW s \in Seq(S), NEW n \in Nat, n <= Len(s)
  PROVE  SubSeq(s, 1, n) \in Seq(S) /\ Len(SubSeq(s, 1, n)) = n
  BY SubSeqProperties

LEMMA SuffixFits ==
  ASSUME NEW S, NEW s \in Seq(S), NEW n \in Nat, n <= Len(s)
  PROVE  SubSeq(s, n + 1, Len(s)) \in Seq(S) /\ Len(SubSeq(s, n + 1, Len(s))) = Len(s) - n
  BY SubSeqProperties

LEMMA SplitAt ==
  ASSUME NEW S, NEW s \in Seq(S), NEW n \in Nat, n <= Len(s)
  PROVE  s = SubSeq(s, 1, n) \o SubSeq(s, n + 1, Len(s))
  <1>1. Len(s) \in Nat
    OBVIOUS
  <1> DEFINE b == SubSeq(s, 1, n)
             q == SubSeq(s, n + 1, Len(s))
  <1>2. /\ b \in Seq(S) /\ Len(b) = n /\ q \in Seq(S) /\ Len(q) = Len(s) - n
        /\ \A i \in 1..n : b[i] = s[i]
        /\ \A i \in 1..(Len(s) - n) : q[i] = s[n + i]
    BY <1>1, SubSeqProperties
  <1> HIDE DEF b, q
  <1>3. /\ b \o q \in Seq(S) /\ Len(b \o q) = Len(s)
        /\ \A i \in 1..Len(s) : (b \o q)[i] = IF i <= n THEN b[i] ELSE q[i - n]
    BY <1>1, <1>2, ConcatProperties
  <1>4. ASSUME NEW i \in 1..Len(s) PROVE (b \o q)[i] = s[i]
    <2>1. CASE i <= n
      BY <1>1, <1>2, <1>3, <2>1
    <2>2. CASE i > n
      <3>1. i - n \in 1..(Len(s) - n) /\ n + (i - n) = i
        BY <1>1, <2>2
      <3> QED
        BY <1>2, <1>3, <2>2, <3>1
    <2>3. i <= n \/ i > n
      BY <1>1
    <2> QED
      BY <2>1, <2>2, <2>3
  <1>5. b \o q = s
    BY <1>3, <1>4, SeqEqual
  <1> QED
    BY <1>5 DEF b, q

LEMMA AppendJoins ==
  ASSUME NEW S, NEW s \in Seq(S), NEW t \in Seq(S), NEW e \in S
  PROVE  s \o Append(t, e) = Append(s \o t, e)
  OBVIOUS

(* A write to THR leaves something in the FIFO and nothing above its size. *)
LEMMA WriteFillsFifo ==
  ASSUME fifo \in QueueOf(Byte, FifoSize), NEW b \in Seq(Byte), b # <<>>, WriteTHR(b)
  PROVE  fifo' \in QueueOf(Byte, FifoSize) /\ fifo' # <<>>
  <1>1. fifo \o b \in Seq(Byte) /\ Len(fifo \o b) = Len(fifo) + Len(b)
    BY DEF QueueOf
  <1>2. Len(b) \in Nat /\ Len(b) > 0 /\ Len(fifo) \in Nat
    BY DEF QueueOf
  <1> DEFINE n == Least(Len(fifo \o b), FifoSize)
  <1>3. n \in Nat /\ n <= Len(fifo \o b) /\ n <= FifoSize /\ n > 0
    <2>1. Len(fifo \o b) \in Nat /\ Len(fifo \o b) > 0
      BY <1>1, <1>2
    <2> QED
      BY <2>1, Lengths, LeastIsLeast
  <1>4. fifo' \in Seq(Byte) /\ Len(fifo') = n
    BY <1>1, <1>3, PrefixFits DEF WriteTHR
  <1> QED
    BY <1>3, <1>4 DEF QueueOf

-----------------------------------------------------------------------------

LEMMA UartInit == Init => UartInv
  <1> SUFFICES ASSUME Init PROVE UartInv
    OBVIOUS
  <1>1. /\ txq \in QueueOf(Writer \X Nat, TxLength) /\ rxq \in QueueOf(Nat, RxLength)
        /\ fifo \in QueueOf(Byte, FifoSize)
    BY Lengths, EmptyIsBounded DEF Init
  <1>2. /\ rxFifo \in Seq(Nat) /\ got \in Seq(Nat)
        /\ line \in Seq(Byte) /\ deposited \in Seq(Writer \X Nat)
    BY DEF Init
  <1> QED
    BY <1>1, <1>2 DEF Init, UartInv, TypeOK, LeftOnlyIfMissed, NothingToCome

LEMMA PeripheralStep == UartInv /\ (Peripheral \/ Arrive) => UartInv'
  <1> SUFFICES ASSUME UartInv, Peripheral \/ Arrive PROVE UartInv'
    OBVIOUS
  <1> USE DEF UartInv, TypeOK, LeftOnlyIfMissed, NothingToCome, rx, writers, tx
  <1>1. CASE ShiftNext
    <2>1. /\ Head(fifo) \in Byte
          /\ Tail(fifo) \in QueueOf(Byte, FifoSize)
      BY <1>1, Lengths, ReceiveStaysBounded DEF ShiftNext, CanReceive
    <2> QED
      BY <1>1, <2>1 DEF ShiftNext
  <1>2. CASE RaiseTransmitterEmpty
    BY <1>2 DEF RaiseTransmitterEmpty
  <1>3. CASE SendByte
    <2>1. Append(line, shift) \in Seq(Byte)
      BY <1>3 DEF SendByte
    <2> QED
      BY <1>3, <2>1 DEF SendByte
  <1>4. CASE Arrive
    BY <1>4 DEF Arrive
  <1> QED
    BY <1>1, <1>2, <1>3, <1>4 DEF Peripheral

LEMMA IsrTransmitStep == UartInv /\ IsrTransmit => UartInv'
  <1> SUFFICES ASSUME UartInv, IsrTransmit PROVE UartInv'
    OBVIOUS
  <1> DEFINE n == Least(Len(txq), FifoSize)
  <1>1. TypeOK /\ txq \in Seq(Writer \X Nat) /\ Len(txq) \in Nat /\ Len(txq) <= TxLength
    BY DEF UartInv, TypeOK, QueueOf
  <1>2. n \in Nat /\ n <= Len(txq) /\ (txq # <<>> => n > 0)
    <2>1. txq # <<>> => Len(txq) > 0
      BY <1>1
    <2> QED
      BY <1>1, <2>1, Lengths, LeastIsLeast
  <1>3. txq' = SubSeq(txq, n + 1, Len(txq)) /\ txq' \in QueueOf(Writer \X Nat, TxLength)
    BY <1>1, <1>2, SuffixFits, UartAssumption DEF IsrTransmit, LoadPendingTransmitBytes, QueueOf
  <1>4. /\ fifo' \in QueueOf(Byte, FifoSize)
        /\ due' \in BOOLEAN /\ transmitterEmpty' = FALSE
        /\ n = 0 \/ fifo' # <<>>
    <2>1. CASE n = 0
      BY <1>1, <2>1, Zenon DEF IsrTransmit, LoadPendingTransmitBytes, TypeOK
    <2>2. CASE n # 0
      <3>1. SubSeq(txq, 1, n) \in Seq(Byte) /\ SubSeq(txq, 1, n) # <<>>
        <4>1. SubSeq(txq, 1, n) \in Seq(Writer \X Nat) /\ Len(SubSeq(txq, 1, n)) = n
          BY <1>1, <1>2, PrefixFits
        <4>2. Writer \X Nat \subseteq Byte
          BY DEF Byte
        <4>3. Seq(Writer \X Nat) \subseteq Seq(Byte)
          BY <4>2, SeqMonotonic
        <4>4. SubSeq(txq, 1, n) # <<>>
          BY <1>2, <2>2, <4>1
        <4> QED
          BY <4>1, <4>3, <4>4
      <3>2. WriteTHR(SubSeq(txq, 1, n))
        BY <2>2, Zenon DEF IsrTransmit, LoadPendingTransmitBytes
      <3> QED
        BY <1>1, <2>2, <3>1, <3>2, WriteFillsFifo DEF TypeOK, WriteTHR
    <2> QED
      BY <2>1, <2>2
  <1>5. missed' \in BOOLEAN
    BY DEF IsrTransmit, LoadPendingTransmitBytes
  <1>6. UNCHANGED <<shift, line, rx, writers>>
    BY DEF IsrTransmit
  <1>7. TypeOK'
    BY <1>1, <1>3, <1>4, <1>5, <1>6 DEF TypeOK, rx, writers
  <1>8. LeftOnlyIfMissed'
    <2>1. CASE n = 0
      <3>1. txq' = <<>>
        BY <1>1, <1>2, <1>3, <2>1
      <3> QED
        BY <3>1 DEF LeftOnlyIfMissed, NothingToCome
    <2>2. CASE n # 0
      BY <1>4, <2>2 DEF LeftOnlyIfMissed, NothingToCome
    <2> QED
      BY <2>1, <2>2
  <1> QED
    BY <1>7, <1>8 DEF UartInv

LEMMA ReceptionStep == UartInv /\ (ClearReceiveFifo \/ Get) => UartInv'
  <1> SUFFICES ASSUME UartInv, ClearReceiveFifo \/ Get PROVE UartInv'
    OBVIOUS
  <1>1. UNCHANGED <<tx, arrived, writers>>
    BY DEF ClearReceiveFifo, Get
  <1>2. rxq \in Seq(Nat) /\ Len(rxq) <= RxLength /\ rxFifo \in Seq(Nat) /\ got \in Seq(Nat)
    BY DEF UartInv, TypeOK, QueueOf
  <1>3. /\ rxq' \in QueueOf(Nat, RxLength)
        /\ rxFifo' \in Seq(Nat) /\ got' \in Seq(Nat)
    <2>1. CASE ClearReceiveFifo
      <3> DEFINE n == Least(Len(rxFifo), RxLength - Len(rxq))
      <3>1. n \in Nat /\ n <= Len(rxFifo) /\ n <= RxLength - Len(rxq)
        <4>1. Len(rxFifo) \in Nat /\ RxLength - Len(rxq) \in Nat
          BY <1>2, Lengths
        <4> QED
          BY <4>1, LeastIsLeast
      <3>2. SubSeq(rxFifo, 1, n) \in Seq(Nat) /\ Len(SubSeq(rxFifo, 1, n)) = n
        BY <1>2, <3>1, PrefixFits
      <3>3. rxq' = rxq \o SubSeq(rxFifo, 1, n) /\ rxFifo' = <<>> /\ got' = got
        BY <2>1 DEF ClearReceiveFifo
      <3> HIDE DEF n
      <3>4. rxq' \in Seq(Nat) /\ Len(rxq') = Len(rxq) + n
        BY <1>2, <3>2, <3>3
      <3> QED
        BY <1>2, <3>1, <3>3, <3>4, UartAssumption DEF QueueOf
    <2>2. CASE Get
      <3>1. rxq \in QueueOf(Nat, RxLength)
        BY DEF UartInv, TypeOK
      <3>2. Head(rxq) \in Nat /\ Tail(rxq) \in QueueOf(Nat, RxLength)
        BY <2>2, <3>1, Lengths, ReceiveStaysBounded DEF Get
      <3> QED
        BY <1>2, <2>2, <3>2 DEF Get
    <2> QED
      BY <2>1, <2>2
  <1> QED
    BY <1>1, <1>3 DEF UartInv, TypeOK, LeftOnlyIfMissed, NothingToCome, tx, writers

LEMMA DepositStep ==
  ASSUME UartInv, NEW w \in Writer, Deposit(w)
  PROVE  UartInv'
  <1>1. txq \in Seq(Writer \X Nat) /\ Len(txq) < TxLength /\ deposited \in Seq(Writer \X Nat)
    BY UartAssumption DEF UartInv, TypeOK, QueueOf, Deposit, CanSend
  <1>2. count[w] \in Nat /\ <<w, count[w] + 1>> \in Writer \X Nat
    BY DEF UartInv, TypeOK
  <1>3. txq' \in QueueOf(Writer \X Nat, TxLength) /\ deposited' \in Seq(Writer \X Nat)
    BY <1>1, <1>2, UartAssumption DEF Deposit, QueueOf
  <1>4. /\ pc' \in [Writer \cup PolledWriter -> {"idle", "deposited", "writing", "draining"}]
        /\ count' \in [Writer \cup PolledWriter -> Nat]
        /\ pc'[w] = "deposited"
    BY <1>2 DEF UartInv, TypeOK, Deposit
  <1> QED
    BY <1>3, <1>4 DEF UartInv, TypeOK, LeftOnlyIfMissed, Deposit, rx

LEMMA KickOffStep ==
  ASSUME UartInv, NEW w \in Writer, KickOff(w)
  PROVE  UartInv'
  <1>1. TypeOK /\ txq \in Seq(Writer \X Nat)
    BY DEF UartInv, TypeOK, QueueOf
  <1>2. pc' \in [Writer \cup PolledWriter -> {"idle", "deposited", "writing", "draining"}]
    BY DEF UartInv, TypeOK, KickOff
  <1>3. CASE Idle /\ txq # <<>> /\ WriteTHR(<<Head(txq)>>) /\ txq' = Tail(txq) /\ missed' = FALSE
    <2>1. Head(txq) \in Byte
      BY <1>1, <1>3 DEF Byte
    <2>2. <<Head(txq)>> \in Seq(Byte) /\ <<Head(txq)>> # <<>>
      BY <2>1
    <2>3. fifo' \in QueueOf(Byte, FifoSize) /\ fifo' # <<>>
      BY <1>1, <1>3, <2>2, WriteFillsFifo DEF TypeOK
    <2>4. txq' \in QueueOf(Writer \X Nat, TxLength)
      BY <1>1, <1>3, UartAssumption DEF TypeOK, QueueOf
    <2>5. TypeOK'
      BY <1>1, <1>2, <1>3, <2>3, <2>4 DEF TypeOK, KickOff, WriteTHR, rx
    <2> QED
      BY <2>3, <2>5 DEF UartInv, LeftOnlyIfMissed, NothingToCome
  <1>4. CASE missed' = (missed \/ NothingToCome) /\ UNCHANGED <<txq, fifo, due, transmitterEmpty>>
    <2>1. NothingToCome' => missed'
      BY <1>4 DEF NothingToCome
    <2>2. missed' \in BOOLEAN
      BY <1>4
    <2>3. TypeOK'
      BY <1>1, <1>2, <1>4, <2>2 DEF TypeOK, KickOff, rx
    <2> QED
      BY <2>1, <2>3 DEF UartInv, LeftOnlyIfMissed
  <1> QED
    BY <1>3, <1>4 DEF KickOff

LEMMA PolledStep ==
  ASSUME UartInv, NEW w \in PolledWriter, PolledPut(w)
  PROVE  UartInv'
  <1>1. /\ pc' \in [Writer \cup PolledWriter -> {"idle", "deposited", "writing", "draining"}]
        /\ count' \in [Writer \cup PolledWriter -> Nat]
        /\ \A v \in Writer : pc'[v] = pc[v]
    <2>1. w \notin Writer
      BY UartAssumption
    <2>2. CASE PolledWait(w)
      BY <2>1, <2>2 DEF UartInv, TypeOK, PolledWait
    <2>3. CASE PolledWrite(w)
      BY <2>1, <2>3 DEF UartInv, TypeOK, PolledWrite
    <2>4. CASE PolledDrain(w)
      BY <2>1, <2>4 DEF UartInv, TypeOK, PolledDrain
    <2> QED
      BY <2>2, <2>3, <2>4 DEF PolledPut
  <1>2. CASE PolledWait(w) \/ PolledDrain(w)
    BY <1>1, <1>2 DEF UartInv, TypeOK, LeftOnlyIfMissed, NothingToCome, PolledWait, PolledDrain, tx, rx
  <1>3. CASE PolledWrite(w)
    <2>1. << <<w, count[w]>> >> \in Seq(Byte) /\ << <<w, count[w]>> >> # <<>>
      BY DEF UartInv, TypeOK, Byte
    <2>2. fifo' \in QueueOf(Byte, FifoSize) /\ fifo' # <<>>
      BY <1>3, <2>1, WriteFillsFifo DEF PolledWrite, UartInv, TypeOK
    <2>3. TypeOK'
      BY <1>1, <1>3, <2>2 DEF UartInv, TypeOK, PolledWrite, WriteTHR, rx
    <2> QED
      BY <2>2, <2>3 DEF UartInv, LeftOnlyIfMissed, NothingToCome
  <1> QED
    BY <1>2, <1>3 DEF PolledPut

-----------------------------------------------------------------------------
(* Theorems *)

(* Types, and the one way to leave bytes behind, for all tasks and lengths. *)
THEOREM UartInvariant == Spec => []UartInv
  <1>1. UartInv /\ [Next]_vars => UartInv'
    <2>1. UartInv /\ UNCHANGED vars => UartInv'
      BY DEF UartInv, TypeOK, LeftOnlyIfMissed, NothingToCome, vars, tx, rx, writers
    <2> QED
      BY <2>1, PeripheralStep, IsrTransmitStep, ReceptionStep, DepositStep, KickOffStep, PolledStep
      DEF Next, Isr, Put
  <1> QED
    BY UartInit, <1>1, PTL DEF Spec

(* The queues and the FIFO stay within their lengths and hold bytes. *)
THEOREM UartTypeCorrect == Spec => []TypeOK
  <1>1. UartInv => TypeOK
    BY DEF UartInv
  <1> QED
    BY UartInvariant, <1>1, PTL

(* A wake-up of the transmitter is lost in one way only: to a kick-off that   *)
(* came between the last interrupt and the end of the last byte.              *)
THEOREM LeftOnlyIfMissedAlways == Spec => []LeftOnlyIfMissed
  <1>1. UartInv => LeftOnlyIfMissed
    BY DEF UartInv
  <1> QED
    BY UartInvariant, <1>1, PTL

-----------------------------------------------------------------------------
(* Reception *)

(* What was received and is not lost: read, queued, still in the FIFO. *)
Received == got \o rxq \o rxFifo

(* Numbers grow along Received, and none is above the last that arrived. *)
OrderInv ==
  /\ \A i \in 1..(Len(Received) - 1) : Received[i] < Received[i + 1]
  /\ \A i \in 1..Len(Received) : Received[i] <= arrived

LEMMA JoinAssociates ==
  ASSUME NEW a \in Seq(Nat), NEW b \in Seq(Nat), NEW c \in Seq(Nat)
  PROVE  (a \o b) \o c = a \o (b \o c)
  OBVIOUS

(* The oldest queued byte moves to the end of what was read. *)
LEMMA OldestIsRead ==
  ASSUME NEW g \in Seq(Nat), NEW q \in Seq(Nat), q # << >>
  PROVE  Append(g, Head(q)) \o Tail(q) = g \o q
  OBVIOUS

(* A sequence followed by a prefix of another begins as both together do. *)
LEMMA JoinedPrefix ==
  ASSUME NEW g \in Seq(Nat), NEW f \in Seq(Nat), NEW s \in Seq(Nat),
         Len(s) <= Len(f), \A i \in 1..Len(s) : s[i] = f[i]
  PROVE  /\ g \o s \in Seq(Nat) /\ Len(g \o s) = Len(g) + Len(s)
         /\ Len(g \o s) <= Len(g \o f)
         /\ \A i \in 1..Len(g \o s) : (g \o s)[i] = (g \o f)[i]
  <1>1. /\ Len(g) \in Nat /\ Len(f) \in Nat /\ Len(s) \in Nat
        /\ Len(g \o s) = Len(g) + Len(s) /\ Len(g \o f) = Len(g) + Len(f)
        /\ g \o s \in Seq(Nat)
    BY ConcatProperties
  <1>2. ASSUME NEW i \in 1..(Len(g) + Len(s))
        PROVE  (g \o s)[i] = (g \o f)[i]
    <2>1. CASE i <= Len(g)
      BY <1>1, <2>1
    <2>2. CASE i > Len(g)
      <3>1. /\ i - Len(g) \in 1..Len(s) /\ i \in 1..(Len(g) + Len(f))
            /\ s[i - Len(g)] = f[i - Len(g)]
        BY <1>1, <2>2
      <3> QED
        BY <1>1, <2>2, <3>1
    <2> QED
      BY <1>1, <2>1, <2>2
  <1> QED
    BY <1>1, <1>2

(* A prefix of a growing sequence grows. *)
LEMMA PrefixGrows ==
  ASSUME NEW r \in Seq(Nat), NEW s \in Seq(Nat), NEW n \in Nat,
         Len(s) = n, n <= Len(r), \A i \in 1..n : s[i] = r[i],
         NEW last \in Nat,
         \A i \in 1..(Len(r) - 1) : r[i] < r[i + 1],
         \A i \in 1..Len(r) : r[i] <= last
  PROVE  /\ \A i \in 1..(Len(s) - 1) : s[i] < s[i + 1]
         /\ \A i \in 1..Len(s) : s[i] <= last
  <1>1. Len(r) \in Nat
    OBVIOUS
  <1>2. ASSUME NEW i \in 1..(Len(s) - 1) PROVE s[i] < s[i + 1]
    <2>1. i \in 1..n /\ i + 1 \in 1..n /\ i \in 1..(Len(r) - 1)
      BY <1>1
    <2> QED
      BY <2>1
  <1>3. ASSUME NEW i \in 1..Len(s) PROVE s[i] <= last
    <2>1. i \in 1..n /\ i \in 1..Len(r)
      BY <1>1
    <2> QED
      BY <2>1
  <1> QED
    BY <1>2, <1>3

(* So does one with a new last number above all the others. *)
LEMMA AppendGrows ==
  ASSUME NEW r \in Seq(Nat), NEW s \in Seq(Nat), NEW last \in Nat,
         Len(s) = Len(r) + 1, s[Len(s)] = last + 1,
         \A i \in 1..Len(r) : s[i] = r[i],
         \A i \in 1..(Len(r) - 1) : r[i] < r[i + 1],
         \A i \in 1..Len(r) : r[i] <= last
  PROVE  /\ \A i \in 1..(Len(s) - 1) : s[i] < s[i + 1]
         /\ \A i \in 1..Len(s) : s[i] <= last + 1
  <1>1. ASSUME NEW i \in 1..(Len(s) - 1) PROVE s[i] < s[i + 1]
    <2>1. CASE i < Len(r)
      <3>1. i \in 1..Len(r) /\ i + 1 \in 1..Len(r) /\ i \in 1..(Len(r) - 1)
        BY <2>1
      <3>2. s[i] = r[i] /\ s[i + 1] = r[i + 1] /\ r[i] < r[i + 1]
        BY <3>1
      <3> QED
        BY <3>2
    <2>2. CASE i = Len(r)
      <3>1. i \in 1..Len(r) /\ i + 1 = Len(s) /\ r[i] \in Nat
        BY <2>2
      <3>2. s[i] = r[i] /\ r[i] <= last /\ s[i + 1] = last + 1
        BY <3>1
      <3> QED
        BY <3>1, <3>2
    <2> QED
      BY <2>1, <2>2
  <1>2. ASSUME NEW i \in 1..Len(s) PROVE s[i] <= last + 1
    <2>1. CASE i <= Len(r)
      <3>1. s[i] = r[i] /\ r[i] <= last /\ r[i] \in Nat
        BY <2>1
      <3> QED
        BY <3>1
    <2>2. CASE i = Len(s)
      BY <2>2
    <2> QED
      BY <2>1, <2>2
  <1> QED
    BY <1>1, <1>2

LEMMA OrderStep == TypeOK /\ OrderInv /\ [Next]_vars => OrderInv'
  <1> SUFFICES ASSUME TypeOK, OrderInv, [Next]_vars PROVE OrderInv'
    OBVIOUS
  <1>1. /\ got \in Seq(Nat) /\ rxq \in Seq(Nat) /\ rxFifo \in Seq(Nat)
        /\ Len(rxq) <= RxLength /\ Received \in Seq(Nat) /\ arrived \in Nat
        /\ Len(Received) = Len(got) + Len(rxq) + Len(rxFifo)
    BY DEF TypeOK, QueueOf, Received
  <1>2. CASE UNCHANGED rx
    BY <1>2 DEF rx, OrderInv, Received
  <1>3. CASE Arrive
    <2>1. /\ got' = got /\ rxq' = rxq /\ arrived' = arrived + 1
          /\ rxFifo' = Append(rxFifo, arrived + 1)
      BY <1>3 DEF Arrive, tx
    <2>2. /\ Received' \in Seq(Nat) /\ Len(Received') = Len(Received) + 1
          /\ Received'[Len(Received')] = arrived + 1
          /\ \A i \in 1..Len(Received) : Received'[i] = Received[i]
      BY <1>1, <2>1 DEF Received
    <2> QED
      BY <1>1, <2>1, <2>2, AppendGrows DEF OrderInv
  <1>4. CASE ClearReceiveFifo
    <2> DEFINE n == Least(Len(rxFifo), RxLength - Len(rxq))
               s == SubSeq(rxFifo, 1, n)
    <2>1. n \in Nat /\ n <= Len(rxFifo)
      <3>1. Len(rxFifo) \in Nat /\ RxLength - Len(rxq) \in Nat
        BY <1>1, Lengths
      <3> QED
        BY <3>1, LeastIsLeast
    <2>2. /\ rxq' = rxq \o s /\ rxFifo' = << >>
          /\ got' = got /\ arrived' = arrived
      BY <1>4 DEF ClearReceiveFifo
    <2> HIDE DEF n
    <2>3. s \in Seq(Nat) /\ Len(s) = n /\ \A i \in 1..n : s[i] = rxFifo[i]
      BY <1>1, <2>1, SubSeqProperties
    <2> HIDE DEF s
    <2> DEFINE g == got \o rxq
    <2>6. g \in Seq(Nat) /\ Len(g) = Len(got) + Len(rxq)
      BY <1>1
    <2>7. Received = g \o rxFifo /\ Received' = g \o s
      <3>1. Received' = got \o (rxq \o s) \o << >>
        BY <2>2 DEF Received
      <3>2. got \o (rxq \o s) = g \o s
        BY <1>1, <2>3, JoinAssociates DEF g
      <3>3. g \o s \in Seq(Nat)
        BY <2>3, <2>6
      <3>4. (g \o s) \o << >> = g \o s
        BY <3>3, ConcatEmptySeq
      <3> QED
        BY <3>1, <3>2, <3>4 DEF Received
    <2> HIDE DEF g
    <2>4. /\ Received' \in Seq(Nat) /\ Len(Received') = Len(got) + Len(rxq) + n
          /\ \A i \in 1..Len(Received') : Received'[i] = Received[i]
      <3>1. Len(s) <= Len(rxFifo) /\ \A i \in 1..Len(s) : s[i] = rxFifo[i]
        BY <2>1, <2>3
      <3>2. /\ g \o s \in Seq(Nat) /\ Len(g \o s) = Len(g) + Len(s)
            /\ \A i \in 1..Len(g \o s) : (g \o s)[i] = (g \o rxFifo)[i]
        <4>1. rxFifo \in Seq(Nat) /\ g \in Seq(Nat) /\ s \in Seq(Nat)
          BY <1>1, <2>3, <2>6
        <4> QED
          BY ONLY <4>1, <3>1, JoinedPrefix, Zenon
      <3>3. Len(g) + Len(s) = Len(got) + Len(rxq) + n
        BY <2>3, <2>6
      <3> QED
        BY ONLY <2>7, <3>2, <3>3
    <2>5. Len(Received') \in Nat /\ Len(Received') <= Len(Received)
      BY <1>1, <2>1, <2>4
    <2> QED
      BY <1>1, <2>2, <2>4, <2>5, PrefixGrows DEF OrderInv
  <1>5. CASE Get
    <2>1. /\ rxq # << >> /\ got' = Append(got, Head(rxq)) /\ rxq' = Tail(rxq)
          /\ rxFifo' = rxFifo /\ arrived' = arrived
      BY <1>5 DEF Get, CanReceive
    <2>2. Append(got, Head(rxq)) \o Tail(rxq) = got \o rxq
      BY <1>1, <2>1, OldestIsRead
    <2>3. Received' = Received
      BY <2>1, <2>2 DEF Received
    <2> QED
      BY <2>1, <2>3 DEF OrderInv
  <1>6. CASE \/ Peripheral \/ IsrTransmit \/ UNCHANGED vars
             \/ \E w \in Writer : Put(w)
             \/ \E w \in PolledWriter : PolledPut(w)
    <2>1. UNCHANGED rx
      BY <1>6 DEF Peripheral, ShiftNext, RaiseTransmitterEmpty, SendByte, IsrTransmit,
                  Put, Deposit, KickOff, PolledPut, PolledWait, PolledWrite,
                  PolledDrain, vars
    <2> QED
      BY <1>2, <2>1
  <1> QED
    BY <1>3, <1>4, <1>5, <1>6 DEF Next, Isr

(* uart__get gives what arrived in order and nothing twice, also when the    *)
(* receive queue was full and bytes were dropped.                            *)
THEOREM ReceivedInOrderAlways == Spec => []ReceivedInOrder
  <1>1. Init => OrderInv
    BY DEF Init, OrderInv, Received
  <1>2. OrderInv => ReceivedInOrder
    BY DEF OrderInv, Received, ReceivedInOrder
  <1> QED
    BY <1>1, <1>2, OrderStep, UartTypeCorrect, PTL DEF Spec
-----------------------------------------------------------------------------
(* What went through the queue *)

(* f[k] is what Queued leaves of the first k bytes of s. *)
Filters(f, s) ==
  f = [k \in 0..Len(s) |-> IF k = 0 THEN <<>>
                           ELSE IF s[k][1] \in Writer THEN Append(f[k - 1], s[k])
                           ELSE f[k - 1]]

LEMMA FilterExtends ==
  ASSUME NEW s \in Seq(Byte), NEW b \in Byte, NEW f, Filters(f, s)
  PROVE  \E g : /\ Filters(g, Append(s, b))
                /\ g[Len(s) + 1] = IF b[1] \in Writer THEN Append(f[Len(s)], b) ELSE f[Len(s)]
  <1> DEFINE n == Len(s)
             t == Append(s, b)
             g == [k \in 0..(n + 1) |->
                     IF k = n + 1 THEN IF b[1] \in Writer THEN Append(f[n], b) ELSE f[n]
                     ELSE f[k]]
  <1>1. n \in Nat /\ Len(t) = n + 1 /\ t[n + 1] = b /\ \A k \in 1..n : t[k] = s[k]
    OBVIOUS
  <1> HIDE DEF n, t
  <1>2. f = [k \in 0..n |-> IF k = 0 THEN <<>>
                            ELSE IF s[k][1] \in Writer THEN Append(f[k - 1], s[k])
                            ELSE f[k - 1]]
    BY DEF Filters, n
  <1>3. ASSUME NEW k \in 0..(n + 1)
        PROVE  g[k] = IF k = 0 THEN <<>>
                      ELSE IF t[k][1] \in Writer THEN Append(g[k - 1], t[k])
                      ELSE g[k - 1]
    <2>1. CASE k = 0
      BY <1>1, <1>2, <2>1
    <2>2. CASE k \in 1..n
      <3>1. k \in 0..n /\ k - 1 \in 0..n /\ k # n + 1 /\ k - 1 # n + 1 /\ k # 0
        BY <1>1, <2>2
      <3>2. g[k] = f[k] /\ g[k - 1] = f[k - 1] /\ t[k] = s[k]
        BY <1>1, <2>2, <3>1
      <3>3. f[k] = IF s[k][1] \in Writer THEN Append(f[k - 1], s[k]) ELSE f[k - 1]
        BY <1>2, <3>1
      <3> HIDE DEF g
      <3> QED
        BY <3>1, <3>2, <3>3
    <2>3. CASE k = n + 1
      <3>1. /\ n + 1 # 0 /\ n + 1 - 1 = n /\ n # n + 1
            /\ n + 1 \in 0..(n + 1) /\ n \in 0..(n + 1)
        BY <1>1
      <3>2. /\ g[n + 1] = IF b[1] \in Writer THEN Append(f[n], b) ELSE f[n]
            /\ g[n] = f[n]
        BY <3>1
      <3> HIDE DEF g
      <3> QED
        BY <1>1, <2>3, <3>1, <3>2
    <2> QED
      BY <1>1, <2>1, <2>2, <2>3
  <1>4. g = [k \in 0..(n + 1) |-> g[k]]
    OBVIOUS
  <1>5. /\ n + 1 \in 0..(n + 1)
        /\ g[n + 1] = IF b[1] \in Writer THEN Append(f[n], b) ELSE f[n]
    BY <1>1
  <1> HIDE DEF g
  <1>6. Filters(g, t)
    BY <1>1, <1>3, <1>4 DEF Filters
  <1> QED
    BY <1>5, <1>6 DEF n, t

LEMMA FilterExists == \A s \in Seq(Byte) : \E f : Filters(f, s)
  <1> DEFINE T == {n \in Nat : \A s \in Seq(Byte) : Len(s) = n => \E f : Filters(f, s)}
  <1>1. 0 \in T
    <2> SUFFICES ASSUME NEW s \in Seq(Byte), Len(s) = 0 PROVE \E f : Filters(f, s)
      OBVIOUS
    <2>1. Filters([k \in 0..0 |-> <<>>], s)
      BY DEF Filters
    <2> QED
      BY <2>1
  <1>2. \A n \in T : n + 1 \in T
    <2>1. ASSUME NEW n \in T, NEW s \in Seq(Byte), Len(s) = n + 1
          PROVE  \E f : Filters(f, s)
      <3>1. n \in Nat /\ \A r \in Seq(Byte) : Len(r) = n => \E f : Filters(f, r)
        OBVIOUS
      <3> DEFINE r == SubSeq(s, 1, n)
      <3>2. r \in Seq(Byte) /\ Len(r) = n /\ s[n + 1] \in Byte
        BY <2>1, <3>1, PrefixFits
      <3>3. s = Append(r, s[n + 1])
        BY <2>1, <3>1, <3>2
      <3>4. PICK f : Filters(f, r)
        BY <3>1, <3>2
      <3> HIDE DEF r
      <3>5. \E g : Filters(g, Append(r, s[n + 1]))
        BY <3>2, <3>4, FilterExtends
      <3> QED
        BY <3>3, <3>5
    <2>2. \A n \in T : n \in Nat /\ n + 1 \in Nat
      OBVIOUS
    <2>3. \A n \in T : \A s \in Seq(Byte) : Len(s) = n + 1 => \E f : Filters(f, s)
      BY <2>1
    <2> QED
      BY <2>2, <2>3
  <1>3. T = Nat
    <2>1. T \in SUBSET Nat
      OBVIOUS
    <2> HIDE DEF T
    <2> QED
      BY <1>1, <1>2, <2>1, NaturalsFromZero
  <1> QED
    BY <1>3

(* There is one such function only. *)
LEMMA FilterUnique ==
  ASSUME NEW s \in Seq(Byte), NEW f, NEW g, Filters(f, s), Filters(g, s)
  PROVE  f[Len(s)] = g[Len(s)]
  <1> DEFINE n == Len(s)
             T == {k \in Nat : k <= n => f[k] = g[k]}
  <1>1. n \in Nat
    OBVIOUS
  <1>2. /\ \A k \in 0..n : f[k] = IF k = 0 THEN <<>>
                                  ELSE IF s[k][1] \in Writer THEN Append(f[k - 1], s[k])
                                  ELSE f[k - 1]
        /\ \A k \in 0..n : g[k] = IF k = 0 THEN <<>>
                                  ELSE IF s[k][1] \in Writer THEN Append(g[k - 1], s[k])
                                  ELSE g[k - 1]
    BY DEF Filters
  <1> HIDE DEF n
  <1>3. 0 \in T
    BY <1>1, <1>2
  <1>4. \A k \in T : k + 1 \in T
    <2> SUFFICES ASSUME NEW k \in T, k + 1 <= n PROVE f[k + 1] = g[k + 1]
      OBVIOUS
    <2>1. k + 1 \in 0..n /\ k + 1 # 0 /\ k + 1 - 1 = k /\ f[k] = g[k]
      BY <1>1
    <2> QED
      BY <1>2, <2>1
  <1>5. T = Nat
    <2>1. T \in SUBSET Nat
      OBVIOUS
    <2> HIDE DEF T
    <2> QED
      BY <1>3, <1>4, <2>1, NaturalsFromZero
  <1> QED
    BY <1>1, <1>5 DEF n

LEMMA QueuedIsFilter ==
  ASSUME NEW s \in Seq(Byte), NEW f, Filters(f, s)
  PROVE  Queued(s) = f[Len(s)]
  <1> DEFINE h == CHOOSE g : Filters(g, s)
  <1>1. Queued(s) = h[Len(s)]
    BY DEF Queued, Filters
  <1>2. Filters(h, s)
    OBVIOUS
  <1> HIDE DEF h
  <1> QED
    BY <1>1, <1>2, FilterUnique

(* Byte by byte. *)
LEMMA QueuedAppend ==
  ASSUME NEW s \in Seq(Byte), NEW b \in Byte
  PROVE  Queued(Append(s, b)) = IF b[1] \in Writer THEN Append(Queued(s), b) ELSE Queued(s)
  <1>1. PICK f : Filters(f, s)
    BY FilterExists
  <1>2. PICK g : /\ Filters(g, Append(s, b))
                 /\ g[Len(s) + 1] = IF b[1] \in Writer THEN Append(f[Len(s)], b) ELSE f[Len(s)]
    BY <1>1, FilterExtends
  <1>3. Append(s, b) \in Seq(Byte) /\ Len(Append(s, b)) = Len(s) + 1
    OBVIOUS
  <1>4. Queued(Append(s, b)) = g[Len(s) + 1] /\ Queued(s) = f[Len(s)]
    BY <1>1, <1>2, <1>3, QueuedIsFilter
  <1> QED
    BY <1>2, <1>4

LEMMA QueuedEmpty == Queued(<<>>) = <<>>
  <1> DEFINE f == [k \in 0..0 |-> <<>>]
  <1>1. Filters(f, <<>>) /\ f[Len(<<>>)] = <<>>
    BY DEF Filters
  <1>2. <<>> \in Seq(Byte)
    OBVIOUS
  <1> HIDE DEF f
  <1> QED
    BY <1>1, <1>2, QueuedIsFilter

LEMMA QueuedType == \A s \in Seq(Byte) : Queued(s) \in Seq(Writer \X Nat)
  <1> DEFINE T == {n \in Nat : \A s \in Seq(Byte) : Len(s) = n => Queued(s) \in Seq(Writer \X Nat)}
  <1>1. 0 \in T
    <2>1. \A s \in Seq(Byte) : Len(s) = 0 => s = <<>>
      OBVIOUS
    <2> QED
      BY <2>1, QueuedEmpty
  <1>2. \A n \in T : n + 1 \in T
    <2>1. ASSUME NEW n \in T, NEW s \in Seq(Byte), Len(s) = n + 1
          PROVE  Queued(s) \in Seq(Writer \X Nat)
      <3>1. n \in Nat /\ \A r \in Seq(Byte) : Len(r) = n => Queued(r) \in Seq(Writer \X Nat)
        OBVIOUS
      <3> DEFINE r == SubSeq(s, 1, n)
      <3>2. r \in Seq(Byte) /\ Len(r) = n /\ s[n + 1] \in Byte
        BY <2>1, <3>1, PrefixFits
      <3>3. s = Append(r, s[n + 1])
        BY <2>1, <3>1, <3>2
      <3>4. Queued(r) \in Seq(Writer \X Nat)
        BY <3>1, <3>2
      <3> HIDE DEF r
      <3>5. s[n + 1][1] \in Writer => s[n + 1] \in Writer \X Nat
        BY <3>2 DEF Byte
      <3>6. Queued(s) = IF s[n + 1][1] \in Writer THEN Append(Queued(r), s[n + 1]) ELSE Queued(r)
        BY <3>2, <3>3, QueuedAppend
      <3> QED
        BY <3>4, <3>5, <3>6
    <2>2. \A n \in T : n \in Nat /\ n + 1 \in Nat
      OBVIOUS
    <2>3. \A n \in T : \A s \in Seq(Byte) : Len(s) = n + 1 => Queued(s) \in Seq(Writer \X Nat)
      BY <2>1
    <2> QED
      BY <2>2, <2>3
  <1>3. T = Nat
    <2>1. T \in SUBSET Nat
      OBVIOUS
    <2> HIDE DEF T
    <2> QED
      BY <1>1, <1>2, <2>1, NaturalsFromZero
  <1> QED
    BY <1>3

(* Bytes taken from the queue are all kept, however many. *)
LEMMA QueuedJoin ==
  ASSUME NEW s \in Seq(Byte), NEW t \in Seq(Writer \X Nat)
  PROVE  Queued(s \o t) = Queued(s) \o t
  <1> DEFINE T == {n \in Nat : n <= Len(t) =>
                     Queued(s \o SubSeq(t, 1, n)) = Queued(s) \o SubSeq(t, 1, n)}
  <1>0. t \in Seq(Byte) /\ Len(t) \in Nat /\ Queued(s) \in Seq(Writer \X Nat)
    <2>1. Writer \X Nat \subseteq Byte
      BY DEF Byte
    <2>2. Seq(Writer \X Nat) \subseteq Seq(Byte)
      BY <2>1, SeqMonotonic
    <2> QED
      BY <2>2, QueuedType
  <1>1. 0 \in T
    <2>1. SubSeq(t, 1, 0) = <<>>
      OBVIOUS
    <2>2. s \o <<>> = s /\ Queued(s) \o <<>> = Queued(s)
      BY <1>0, ConcatEmptySeq
    <2> QED
      BY <2>1, <2>2
  <1>2. \A n \in T : n + 1 \in T
    <2>1. ASSUME NEW n \in T, n + 1 <= Len(t)
          PROVE  Queued(s \o SubSeq(t, 1, n + 1)) = Queued(s) \o SubSeq(t, 1, n + 1)
      <3> DEFINE r == SubSeq(t, 1, n)
                 b == t[n + 1]
      <3>1. n \in Nat /\ n <= Len(t) /\ Queued(s \o r) = Queued(s) \o r
        BY <1>0, <2>1
      <3>2. /\ r \in Seq(Byte) /\ r \in Seq(Writer \X Nat) /\ Len(r) = n
            /\ b \in Writer \X Nat /\ b \in Byte /\ b[1] \in Writer
        BY <1>0, <2>1, <3>1, PrefixFits DEF Byte
      <3>3. SubSeq(t, 1, n + 1) = Append(r, b)
        BY <1>0, <2>1, <3>1
      <3> HIDE DEF r, b
      <3>4. s \o Append(r, b) = Append(s \o r, b) /\ s \o r \in Seq(Byte)
        BY <3>2
      <3>5. Queued(s) \o Append(r, b) = Append(Queued(s) \o r, b)
        BY <1>0, <3>2
      <3>6. Queued(Append(s \o r, b)) = Append(Queued(s \o r), b)
        BY <3>2, <3>4, QueuedAppend
      <3> QED
        BY <3>1, <3>3, <3>4, <3>5, <3>6
    <2>2. \A n \in T : n \in Nat /\ n + 1 \in Nat
      OBVIOUS
    <2> HIDE DEF T
    <2>3. \A n \in T : n + 1 <= Len(t) =>
            Queued(s \o SubSeq(t, 1, n + 1)) = Queued(s) \o SubSeq(t, 1, n + 1)
      BY <2>1
    <2> QED
      BY <2>2, <2>3 DEF T
  <1>3. T = Nat
    <2>1. T \in SUBSET Nat
      OBVIOUS
    <2> HIDE DEF T
    <2> QED
      BY <1>1, <1>2, <2>1, NaturalsFromZero
  <1>4. SubSeq(t, 1, Len(t)) = t
    OBVIOUS
  <1>5. Queued(s \o SubSeq(t, 1, Len(t))) = Queued(s) \o SubSeq(t, 1, Len(t))
    <2>1. Len(t) \in T /\ Len(t) <= Len(t)
      BY <1>0, <1>3
    <2> QED
      BY <2>1
  <1> HIDE DEF T
  <1> QED
    BY <1>4, <1>5

-----------------------------------------------------------------------------
(* The transmit side loses nothing *)

(* The interrupt is on its way only while the FIFO is empty, so that what the *)
(* handler takes off the queue fits and comes after all that was written.     *)
EmptyWhenDue == due \/ transmitterEmpty => fifo = <<>>

Written == line \o InShift \o fifo

LosslessInv == EmptyWhenDue /\ NoByteLost

(* The bytes on the line, in the shift register and in the FIFO. *)
LEMMA WrittenType ==
  TypeOK => InShift \in Seq(Byte) /\ line \o InShift \in Seq(Byte) /\ Written \in Seq(Byte)
  BY DEF TypeOK, QueueOf, InShift, Written

LEMMA ShiftKeepsWritten == TypeOK /\ (ShiftNext \/ SendByte) => Written' = Written
  <1> SUFFICES ASSUME TypeOK, ShiftNext \/ SendByte PROVE Written' = Written
    OBVIOUS
  <1>1. /\ line \in Seq(Byte) /\ fifo \in Seq(Byte) /\ NoByte \notin Byte
        /\ shift \in Byte \cup {NoByte}
    BY UartAssumption DEF TypeOK, QueueOf, Byte
  <1>2. CASE ShiftNext
    <2>1. /\ fifo # <<>> /\ shift = NoByte /\ shift' = Head(fifo) /\ fifo' = Tail(fifo)
          /\ line' = line
      BY <1>2 DEF ShiftNext
    <2>2. Head(fifo) \in Byte
      BY <1>1, <2>1
    <2>3. InShift = <<>> /\ InShift' = <<Head(fifo)>>
      BY <1>1, <2>1, <2>2 DEF InShift
    <2>4. (line \o <<Head(fifo)>>) \o Tail(fifo) = (line \o <<>>) \o fifo
      BY <1>1, <2>1, <2>2
    <2> QED
      BY <2>1, <2>3, <2>4 DEF Written
  <1>3. CASE SendByte
    <2>1. /\ shift # NoByte /\ line' = Append(line, shift) /\ shift' = NoByte /\ fifo' = fifo
      BY <1>3 DEF SendByte
    <2>2. InShift = <<shift>> /\ InShift' = <<>> /\ shift \in Byte
      BY <1>1, <2>1 DEF InShift
    <2>3. (Append(line, shift) \o <<>>) \o fifo = (line \o <<shift>>) \o fifo
      BY <1>1, <2>2
    <2> QED
      BY <2>1, <2>2, <2>3 DEF Written
  <1> QED
    BY <1>2, <1>3

(* A write to THR while the FIFO is empty, of no more than it holds. *)
LEMMA WriteToEmptyFifo ==
  ASSUME NEW b \in Seq(Byte), Len(b) <= FifoSize, fifo = <<>>, WriteTHR(b)
  PROVE  fifo' = b
  <1>1. fifo \o b = b /\ SubSeq(b, 1, Len(b)) = b /\ Len(b) \in Nat
    BY EmptySeq, ConcatEmptySeq
  <1>2. Least(Len(b), FifoSize) = Len(b)
    BY <1>1, Lengths, LeastOfOrdered
  <1> QED
    BY <1>1, <1>2 DEF WriteTHR

(* A write of one byte to any FIFO: it goes behind the others or is lost. *)
LEMMA WriteOneByte ==
  ASSUME fifo \in QueueOf(Byte, FifoSize), NEW b \in Byte, WriteTHR(<<b>>)
  PROVE  fifo' = Append(fifo, b) \/ fifo' = fifo
  <1>1. /\ fifo \in Seq(Byte) /\ Len(fifo) \in Nat /\ Len(fifo) <= FifoSize
        /\ fifo \o <<b>> = Append(fifo, b) /\ Len(Append(fifo, b)) = Len(fifo) + 1
    BY DEF QueueOf
  <1>2. CASE Len(fifo) < FifoSize
    <2>1. Least(Len(fifo) + 1, FifoSize) = Len(fifo) + 1
      BY <1>1, <1>2, Lengths DEF Least
    <2>2. SubSeq(Append(fifo, b), 1, Len(fifo) + 1) = Append(fifo, b)
      BY <1>1
    <2> QED
      BY <1>1, <2>1, <2>2 DEF WriteTHR
  <1>3. CASE Len(fifo) = FifoSize
    <2>1. Least(Len(fifo) + 1, FifoSize) = Len(fifo)
      BY <1>1, <1>3, Lengths DEF Least
    <2>2. SubSeq(Append(fifo, b), 1, Len(fifo)) = fifo
      BY <1>1
    <2> QED
      BY <1>1, <2>1, <2>2 DEF WriteTHR
  <1> QED
    BY <1>1, <1>2, <1>3, Lengths

LEMMA EmptyWhenDueStep == TypeOK /\ EmptyWhenDue /\ [Next]_vars => EmptyWhenDue'
  <1> SUFFICES ASSUME TypeOK, EmptyWhenDue, [Next]_vars PROVE EmptyWhenDue'
    OBVIOUS
  <1> USE DEF EmptyWhenDue
  <1>1. CASE Peripheral
    BY <1>1 DEF Peripheral, ShiftNext, RaiseTransmitterEmpty, SendByte
  <1>2. CASE IsrTransmit
    BY <1>2 DEF IsrTransmit, LoadPendingTransmitBytes, WriteTHR
  <1>3. CASE Arrive \/ ClearReceiveFifo \/ Get \/ UNCHANGED vars
    BY <1>3 DEF Arrive, ClearReceiveFifo, Get, vars, tx
  <1>4. ASSUME NEW w \in Writer, Put(w) PROVE EmptyWhenDue'
    BY <1>4 DEF Put, Deposit, KickOff, WriteTHR
  <1>5. ASSUME NEW w \in PolledWriter, PolledPut(w) PROVE EmptyWhenDue'
    BY <1>5 DEF PolledPut, PolledWait, PolledWrite, PolledDrain, WriteTHR, tx
  <1> QED
    BY <1>1, <1>2, <1>3, <1>4, <1>5 DEF Next, Isr

LEMMA LosslessInit == Init => LosslessInv
  <1> SUFFICES ASSUME Init PROVE LosslessInv
    OBVIOUS
  <1>1. InShift = <<>> /\ line = <<>> /\ fifo = <<>> /\ txq = <<>> /\ deposited = <<>>
    BY DEF Init, InShift
  <1>2. (line \o InShift) \o fifo = <<>>
    BY <1>1
  <1> QED
    BY <1>1, <1>2, QueuedEmpty DEF LosslessInv, EmptyWhenDue, NoByteLost

(* What a step does to what was written, to the queue and to what was put on *)
(* it: bytes move from the front of the queue to the end of what was written.*)
LEMMA MoveKeepsAll ==
  ASSUME TypeOK, NoByteLost, NEW b \in Seq(Writer \X Nat), NEW q \in Seq(Writer \X Nat),
         txq = b \o q, txq' = q, Written' = Written \o b, deposited' = deposited
  PROVE  NoByteLost'
  <1>1. Written \in Seq(Byte) /\ Queued(Written) \in Seq(Writer \X Nat)
    BY WrittenType, QueuedType
  <1>2. Queued(Written \o b) = Queued(Written) \o b
    BY <1>1, QueuedJoin
  <1>3. (Queued(Written) \o b) \o q = Queued(Written) \o (b \o q)
    BY <1>1
  <1> QED
    BY <1>2, <1>3 DEF NoByteLost, Written

LEMMA LosslessStep == TypeOK /\ LosslessInv /\ [Next]_vars => NoByteLost'
  <1> SUFFICES ASSUME TypeOK, LosslessInv, [Next]_vars PROVE NoByteLost'
    OBVIOUS
  <1>1. /\ line \in Seq(Byte) /\ fifo \in Seq(Byte) /\ txq \in Seq(Writer \X Nat)
        /\ InShift \in Seq(Byte) /\ line \o InShift \in Seq(Byte)
        /\ Written \in Seq(Byte) /\ Queued(Written) \in Seq(Writer \X Nat)
        /\ Queued(Written) \o txq = deposited
    BY WrittenType, QueuedType DEF TypeOK, QueueOf, LosslessInv, NoByteLost, Written
  <1>2. CASE Written' = Written /\ txq' = txq /\ deposited' = deposited
    BY <1>1, <1>2 DEF NoByteLost, Written
  <1>3. CASE Peripheral
    <2>1. txq' = txq /\ deposited' = deposited
      BY <1>3 DEF Peripheral, ShiftNext, RaiseTransmitterEmpty, SendByte, writers
    <2>2. CASE RaiseTransmitterEmpty
      BY <1>2, <2>1, <2>2 DEF RaiseTransmitterEmpty, Written, InShift
    <2>3. CASE ShiftNext \/ SendByte
      BY <1>2, <2>1, <2>3, ShiftKeepsWritten
    <2> QED
      BY <1>3, <2>2, <2>3 DEF Peripheral
  <1>4. CASE Arrive \/ ClearReceiveFifo \/ Get \/ UNCHANGED vars
    <2>1. UNCHANGED <<tx, writers>>
      BY <1>4 DEF Arrive, ClearReceiveFifo, Get, vars
    <2> QED
      BY <1>2, <2>1 DEF tx, writers, Written, InShift
  <1>5. CASE IsrTransmit
    <2> DEFINE n == Least(Len(txq), FifoSize)
               b == SubSeq(txq, 1, n)
               q == SubSeq(txq, n + 1, Len(txq))
    <2>1. n \in Nat /\ n <= Len(txq) /\ n <= FifoSize /\ Len(txq) \in Nat
      <3>1. Len(txq) \in Nat
        BY <1>1
      <3> QED
        BY <3>1, Lengths, LeastIsLeast
    <2>2. /\ txq' = q /\ line' = line /\ shift' = shift /\ deposited' = deposited
          /\ fifo = <<>>
          /\ n = 0 => fifo' = fifo
          /\ n # 0 => WriteTHR(b)
      BY <1>5 DEF IsrTransmit, LoadPendingTransmitBytes, writers, LosslessInv, EmptyWhenDue
    <2> HIDE DEF n
    <2>3. /\ b \in Seq(Writer \X Nat) /\ Len(b) = n /\ q \in Seq(Writer \X Nat)
          /\ txq = b \o q /\ b \in Seq(Byte)
      <3>1. b \in Seq(Writer \X Nat) /\ Len(b) = n /\ q \in Seq(Writer \X Nat)
        BY <1>1, <2>1, PrefixFits, SuffixFits
      <3>2. txq = b \o q
        BY <1>1, <2>1, SplitAt
      <3>3. Writer \X Nat \subseteq Byte
        BY DEF Byte
      <3> QED
        BY <3>1, <3>2, <3>3, SeqMonotonic
    <2>4. fifo' = b
      <3>1. CASE n = 0
        <4>1. b = <<>>
          BY <2>3, <3>1, EmptySeq
        <4> QED
          BY <2>2, <3>1, <4>1
      <3>2. CASE n # 0
        BY <2>1, <2>2, <2>3, <3>2, WriteToEmptyFifo
      <3> QED
        BY <3>1, <3>2
    <2> HIDE DEF b, q
    <2>5. Written' = Written \o b
      <3>1. InShift' = InShift
        BY <2>2 DEF InShift
      <3>2. (line \o InShift) \o <<>> = line \o InShift
        BY <1>1, ConcatEmptySeq
      <3> QED
        BY <2>2, <2>4, <3>1, <3>2 DEF Written
    <2> QED
      BY <2>2, <2>3, <2>5, MoveKeepsAll DEF LosslessInv
  <1>6. ASSUME NEW w \in Writer, Deposit(w) PROVE NoByteLost'
    <2> DEFINE item == <<w, count[w] + 1>>
    <2>1. item \in Writer \X Nat
      BY DEF TypeOK
    <2>2. /\ txq' = Append(txq, item) /\ deposited' = Append(deposited, item)
          /\ line' = line /\ shift' = shift /\ fifo' = fifo
      BY <1>6 DEF Deposit
    <2> HIDE DEF item
    <2>3. Written' = Written
      BY <2>2 DEF Written, InShift
    <2>4. Queued(Written) \o Append(txq, item) = Append(Queued(Written) \o txq, item)
      <3>1. Queued(Written) \in Seq(Writer \X Nat) /\ txq \in Seq(Writer \X Nat)
        BY <1>1
      <3> QED
        BY ONLY <3>1, <2>1, AppendJoins
    <2>5. Queued(Written') = Queued(Written)
      BY <2>3
    <2>6. Queued(Written') \o txq' = deposited'
      BY <1>1, <2>2, <2>4, <2>5
    <2> QED
      BY <2>6 DEF NoByteLost, Written
  <1>7. ASSUME NEW w \in Writer, KickOff(w) PROVE NoByteLost'
    <2>1. line' = line /\ shift' = shift /\ deposited' = deposited /\ InShift' = InShift
      BY <1>7 DEF KickOff, InShift
    <2>2. CASE UNCHANGED <<txq, fifo>>
      BY <1>2, <2>1, <2>2 DEF Written
    <2>3. CASE fifo = <<>> /\ txq # <<>> /\ WriteTHR(<<Head(txq)>>) /\ txq' = Tail(txq)
      <3> DEFINE b == <<Head(txq)>>
      <3>1. /\ b \in Seq(Writer \X Nat) /\ Tail(txq) \in Seq(Writer \X Nat)
            /\ txq = b \o Tail(txq) /\ Len(b) = 1 /\ Head(txq) \in Writer \X Nat
        BY <1>1, <2>3
      <3>2. b \in Seq(Byte) /\ Len(b) <= FifoSize
        BY <3>1, Lengths DEF Byte
      <3>3. fifo' = b
        BY <2>3, <3>2, WriteToEmptyFifo
      <3> HIDE DEF b
      <3>4. Written' = Written \o b
        <4>1. (line \o InShift) \o <<>> = line \o InShift
          BY <1>1, ConcatEmptySeq
        <4> QED
          BY <2>1, <2>3, <3>3, <4>1 DEF Written
      <3> QED
        BY <2>1, <2>3, <3>1, <3>4, MoveKeepsAll DEF LosslessInv
    <2> QED
      BY <1>7, <2>2, <2>3 DEF KickOff, Idle
  <1>8. ASSUME NEW w \in PolledWriter, PolledPut(w) PROVE NoByteLost'
    <2>1. txq' = txq /\ line' = line /\ deposited' = deposited /\ InShift' = InShift
      BY <1>8 DEF PolledPut, PolledWait, PolledWrite, PolledDrain, tx, InShift
    <2>2. CASE fifo' = fifo
      BY <1>2, <2>1, <2>2 DEF Written
    <2>3. CASE PolledWrite(w)
      <3> DEFINE b == <<w, count[w]>>
      <3>1. b \in Byte /\ b[1] \notin Writer
        BY UartAssumption DEF TypeOK, Byte
      <3>2. WriteTHR(<<b>>) /\ fifo \in QueueOf(Byte, FifoSize)
        BY <2>3 DEF PolledWrite, TypeOK
      <3> HIDE DEF b
      <3>3. CASE fifo' = Append(fifo, b)
        <4>1. (line \o InShift) \o Append(fifo, b) = Append((line \o InShift) \o fifo, b)
          <5>1. line \o InShift \in Seq(Byte) /\ fifo \in Seq(Byte) /\ b \in Byte
            BY <1>1, <3>1
          <5> QED
            BY ONLY <5>1, AppendJoins
        <4>2. Written' = Append(Written, b)
          BY <2>1, <3>3, <4>1 DEF Written
        <4>3. Queued(Append(Written, b)) = Queued(Written)
          BY <1>1, <3>1, QueuedAppend
        <4>4. Queued(Written') \o txq' = deposited'
          BY <1>1, <2>1, <4>2, <4>3
        <4> QED
          BY <4>4 DEF NoByteLost, Written
      <3> QED
        BY <2>2, <3>1, <3>2, <3>3, WriteOneByte
    <2> QED
      BY <1>8, <2>2, <2>3 DEF PolledPut, PolledWait, PolledDrain, tx
  <1> QED
    BY <1>3, <1>4, <1>5, <1>6, <1>7, <1>8 DEF Next, Isr, Put

(* What uart__put deposits reaches the line in that order, each byte once:   *)
(* whatever stderr writes in between and wherever the handler and the tasks' *)
(* kick-offs interleave, no byte of the queue is dropped or sent twice.      *)
THEOREM NoByteLostAlways == Spec => []NoByteLost
  <1>1. TypeOK /\ LosslessInv /\ [Next]_vars => LosslessInv'
    BY EmptyWhenDueStep, LosslessStep DEF LosslessInv
  <1>2. LosslessInv => NoByteLost
    BY DEF LosslessInv
  <1> QED
    BY LosslessInit, <1>1, <1>2, UartTypeCorrect, PTL DEF Spec
=============================================================================
