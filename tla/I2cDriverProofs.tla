--------------------------- MODULE I2cDriverProofs ---------------------------
(***************************************************************************)
(* Proofs about I2cDriver, for any callers, devices, transfers and sizes:  *)
(* every variable keeps its type, a success is exact, and the handler      *)
(* writes astray only for a transfer that nobody waits for.                *)
(***************************************************************************)
EXTENDS I2cDriver, SequenceTheorems, TLAPS

(* How many parameters of its call the caller has saved for the handler. *)
SavedBy(c) ==
  IF pc[c] = "wait" THEN 6 ELSE IF pc[c] = "kick" THEN kicked ELSE 0

(* The mutex is held from its taking to its giving, and only its holder is   *)
(* in kick_off_transfer.                                                     *)
MutexInv ==
  /\ \A c \in Caller : pc[c] \in {"clear", "kick", "wait", "give"} <=> mutex = c
  /\ kicked # 0 => \E c \in Caller : pc[c] = "kick"

(* Between calls a caller has neither a buffer nor a result; those it has    *)
(* are of its own call, and the parameters the handler never changes are     *)
(* the call's as soon as they are saved.                                     *)
CallInv(c) ==
  /\ pc[c] = "idle" \/ op[c] \in Transfers
  /\ pc[c] \in {"idle", "take", "clear"} => buffer[c] = << >>
  /\ status[c] => pc[c] = "give"
  /\ SavedBy(c) >= 2 => i2c.slave = ParamsOf(c).slave
  /\ SavedBy(c) >= 3 => i2c.register = op[c].register
  /\ SavedBy(c) >= 4 => i2c.input = ParamsOf(c).input

(* What the peripheral's state says of its registers. *)
BusInv ==
  /\ stat = "idle" => ~si
  /\ stat \in Errors => si
  /\ stat \in {"mt_addr_ack", "mt_data_ack", "mr_read_ack", "mr_ack_sent"} =>
       selected.address \in Device

(* The handler may still take bytes from the caller's. *)
MayWrite ==
  \/ stat \in {"start", "repeat_start", "mt_addr_ack", "mt_data_ack"}
  \/ stat = "idle" /\ sta

(* How far output_byte_pointer can get: the bytes left of an orphaned        *)
(* transfer may still be sent from the pointer of the next call.             *)
OutputBound == IF kicked = 5 THEN MaxBytes + 1 ELSE 2 * MaxBytes + 1

OutputInv ==
  /\ i2c.output.next <= OutputBound
  /\ MayWrite \/ kicked = 6 =>
       i2c.remaining <= MaxBytes /\ i2c.output.next + i2c.remaining <= OutputBound

(* A reader that has saved its parameters has room for the bytes left. *)
RoomInv ==
  \A c \in Caller :
    pc[c] = "kick" /\ kicked = 6 /\ op[c].mode = "read" /\ (sta \/ stat # "idle") =>
      i2c.remaining + Len(buffer[c]) >= op[c].length

-----------------------------------------------------------------------------
(* A call that found the bus idle has it for itself until it gives up. *)

(* Bytes 1..n of c's data are in the device, but for those overwritten. *)
Stored(c, n) ==
  \A k \in 1..n : LastAt(k, n) =>
    mem[op[c].address][RegisterAt(op[c], k)] = op[c].data[k]

(* What c has read is what the device holds. *)
Fetched(c) ==
  \A k \in 1..Len(buffer[c]) :
    buffer[c][k] = mem[op[c].address][RegisterAt(op[c], k)]

Complete(c) ==
  /\ op[c].address \in Device
  /\ op[c].mode = "read" => Len(buffer[c]) = op[c].length /\ Fetched(c)
  /\ op[c].mode = "write" => Stored(c, op[c].length)

(* Nothing has been transferred yet. *)
Fresh(c) ==
  /\ i2c.error_code = "none" /\ ~signal
  /\ i2c.remaining = op[c].length
  /\ i2c.output.next = 1 /\ buffer[c] = << >>

Selects(c, mode) == selected = [address |-> op[c].address, mode |-> mode]

PointsAt(c, k) == pointer[op[c].address] = RegisterAt(op[c], k)

Addressing(c) ==
  /\ stat = "start" => Fresh(c) /\ sta /\ (~si => Selects(c, "write"))
  /\ stat = "mt_addr_ack" =>
       /\ Fresh(c) /\ Selects(c, "write")
       /\ si \/ (~sta /\ i2c.remaining > 0 /\ dat = op[c].register)

Writing(c) ==
  stat = "mt_data_ack" /\ op[c].mode = "write" =>
    LET n == IF si THEN i2c.output.next ELSE i2c.output.next - 1 IN
    /\ i2c.error_code = "none" /\ ~signal /\ ~sta
    /\ Selects(c, "write")
    /\ i2c.output.of = c
    /\ i2c.output.next + i2c.remaining = op[c].length + 1
    /\ n >= 1 /\ PointsAt(c, n) /\ Stored(c, n - 1)
    /\ si \/ dat = op[c].data[n]

Reading(c) ==
  /\ stat = "mt_data_ack" /\ op[c].mode = "read" =>
       /\ Fresh(c) /\ i2c.remaining > 0 /\ Selects(c, "write") /\ PointsAt(c, 1)
       /\ si \/ sta
  /\ stat = "repeat_start" =>
       /\ op[c].mode = "read" /\ op[c].address \in Device
       /\ Fresh(c) /\ i2c.remaining > 0 /\ PointsAt(c, 1) /\ sta
       /\ si \/ Selects(c, "read")
  /\ stat = "mr_read_ack" =>
       /\ op[c].mode = "read" /\ Selects(c, "read")
       /\ Fresh(c) /\ i2c.remaining > 0 /\ PointsAt(c, 1)
       /\ si \/ (~sta /\ aa = (i2c.remaining > 1))

Receiving(c) ==
  stat \in {"mr_ack_sent", "mr_nack_sent"} =>
    LET n == Len(buffer[c]) + 1 IN
    /\ i2c.error_code = "none" /\ ~signal /\ ~sta
    /\ op[c].mode = "read" /\ Selects(c, "read") /\ op[c].address \in Device
    /\ Len(buffer[c]) + i2c.remaining = op[c].length
    /\ Fetched(c)
    /\ IF si THEN dat = mem[op[c].address][RegisterAt(op[c], n)] /\ PointsAt(c, n + 1)
             ELSE PointsAt(c, n) /\ aa = (i2c.remaining # 1)
    /\ IF stat = "mr_nack_sent" THEN si /\ i2c.remaining = 1
       ELSE i2c.remaining >= IF si THEN 2 ELSE 1

(* The bus is idle: the transfer has still to start, or it is over. *)
AtRest(c) ==
  stat = "idle" => IF sta THEN Fresh(c)
                   ELSE signal /\ (i2c.error_code = "none" => Complete(c))

Transfer(c) ==
  /\ i2c.output.of = ParamsOf(c).output.of
  /\ AtRest(c) /\ Addressing(c) /\ Writing(c) /\ Reading(c) /\ Receiving(c)

Preparation(c) ==
  /\ stat = "idle" /\ ~sta /\ ~signal /\ buffer[c] = << >>
  /\ kicked >= 1 => i2c.error_code = "none"
  /\ kicked >= 5 => i2c.output = ParamsOf(c).output
  /\ kicked >= 6 => i2c.remaining = op[c].length

CleanInv(c) ==
  clean[c] => /\ pc[c] = "kick" => Preparation(c)
              /\ pc[c] = "wait" => Transfer(c)

Result(c) ==
  pc[c] = "give" /\ status[c] /\ clean[c] =>
    ~Busy /\ (i2c.error_code = "bus_error" \/ Complete(c))

(* After a stray write nothing is claimed but the types and the results. *)
DriverInv ==
  /\ TypeOK
  /\ \A c \in Caller : Result(c)
  /\ stray \/ /\ MutexInv /\ BusInv /\ OutputInv /\ RoomInv
              /\ \A c \in Caller : CallInv(c) /\ CleanInv(c)

-----------------------------------------------------------------------------
(* Arithmetic of the register pointer *)

LEMMA Division ==
  \A n \in Nat \ {0} : \A x \in Int :
    x \div n \in Int /\ x % n \in 0..(n - 1) /\ x = n * (x \div n) + (x % n)
  OBVIOUS

LEMMA SmallMultiple ==
  \A n \in Nat \ {0} : \A q \in Int : n * q < n /\ n * q > -n => q = 0
  OBVIOUS

LEMMA MultipleOfDifference == \A n, p, q \in Int : n * (p - q) = n * p - n * q
  OBVIOUS

LEMMA Products == \A p, q \in Int : p * q \in Int
  OBVIOUS

(* The remainder is the only one that is small enough. *)
LEMMA RemainderUnique ==
  ASSUME NEW n \in Nat \ {0}, NEW q \in Int, NEW r \in 0..(n - 1), NEW x \in Int, x = n * q + r
  PROVE  x % n = r
  <1> DEFINE p == x \div n
             s == x % n
  <1>1. p \in Int /\ s \in 0..(n - 1) /\ x = n * p + s
    BY Division
  <1> HIDE DEF p, s
  <1>2. n * (p - q) = r - s
    <2>1. n * (p - q) = n * p - n * q
      BY <1>1, MultipleOfDifference
    <2>2. n * p \in Int /\ n * q \in Int
      BY <1>1, Products
    <2> QED
      BY <1>1, <2>1, <2>2
  <1>3. p - q = 0
    <2>1. r - s < n /\ r - s > -n
      BY <1>1
    <2>2. p - q \in Int
      BY <1>1
    <2> QED
      BY <1>2, <2>1, <2>2, SmallMultiple
  <1>4. n * (p - q) = 0
    BY <1>3
  <1> QED
    BY <1>1, <1>2, <1>4 DEF s

LEMMA MultipleHasNoRemainder ==
  ASSUME NEW n \in Nat \ {0}, NEW q \in Int, NEW x \in Int, x = n * q
  PROVE  x % n = 0
  <1>1. 0 \in 0..(n - 1) /\ x = n * q + 0
    OBVIOUS
  <1> QED
    BY <1>1, RemainderUnique

(* One more before or after taking the remainder. *)
LEMMA RemainderOfNext ==
  ASSUME NEW n \in Nat \ {0}, NEW x \in Nat
  PROVE  ((x % n) + 1) % n = (x + 1) % n
  <1> DEFINE q == x \div n
             r == x % n
  <1>1. q \in Int /\ r \in 0..(n - 1) /\ x = n * q + r
    BY Division
  <1> HIDE DEF q, r
  <1>2. CASE r + 1 < n
    <2>1. r + 1 \in 0..(n - 1) /\ r + 1 = n * 0 + (r + 1) /\ r + 1 \in Int
      BY <1>1, <1>2
    <2>2. x + 1 = n * q + (r + 1) /\ x + 1 \in Int
      <3>1. n * q \in Int
        BY <1>1, Products
      <3> QED
        BY <1>1, <3>1
    <2>3. (r + 1) % n = r + 1 /\ (x + 1) % n = r + 1
      BY <1>1, <2>1, <2>2, RemainderUnique
    <2> QED
      BY <2>3 DEF r
  <1>3. CASE r + 1 = n
    <2>1. PICK k \in Int : r + 1 = n * k
      <3>1. n * 1 = n /\ 1 \in Int
        OBVIOUS
      <3> QED
        BY <1>3, <3>1
    <2>2. PICK m \in Int : x + 1 = n * m
      <3>1. n * q \in Int /\ n * (q + 1) = n * q + n /\ q + 1 \in Int
        BY <1>1, Products
      <3>2. x + 1 = n * (q + 1)
        BY <1>1, <1>3, <3>1
      <3> QED
        BY <3>1, <3>2, Zenon
    <2>3. (r + 1) % n = 0 /\ (x + 1) % n = 0
      <3>1. r + 1 \in Int /\ x + 1 \in Int
        BY <1>1
      <3> QED
        BY <2>1, <2>2, <3>1, MultipleHasNoRemainder
    <2> QED
      BY <2>3 DEF r
  <1> QED
    BY <1>1, <1>2, <1>3

(* Two numbers less than n apart have different remainders. *)
LEMMA RemaindersDiffer ==
  ASSUME NEW n \in Nat \ {0}, NEW x \in Nat, NEW y \in Nat, x < y, y < x + n
  PROVE  x % n # y % n
  <1> DEFINE p == x \div n
             q == y \div n
             r == x % n
  <1> SUFFICES ASSUME y % n = r PROVE FALSE
    OBVIOUS
  <1>1. /\ p \in Int /\ q \in Int /\ r \in 0..(n - 1)
        /\ x = n * p + r /\ y = n * q + r
    BY Division
  <1> HIDE DEF p, q, r
  <1>2. n * (q - p) = n * q - n * p /\ n * q \in Int /\ n * p \in Int
    BY <1>1, MultipleOfDifference, Products
  <1>3. n * (q - p) = y - x
    BY <1>1, <1>2
  <1>4. q - p = 0
    <2>1. y - x < n /\ y - x > -n /\ q - p \in Int
      BY <1>1
    <2> QED
      BY <1>3, <2>1, SmallMultiple
  <1>5. n * (q - p) = 0
    BY <1>4
  <1> QED
    BY <1>3, <1>5

-----------------------------------------------------------------------------
(* Calls and parameters *)

LEMMA Sizes ==
  /\ LastRegister \in Nat /\ MaxBytes \in Nat /\ SizeMax \in Nat /\ MaxBytes < SizeMax
  /\ LastRegister + 1 \in Nat \ {0}
  /\ Register \subseteq Byte /\ 0 \in Register /\ Register \subseteq Nat
  /\ NoCaller \notin Caller
  BY TransferAssumption DEF Register

LEMMA TransferType ==
  ASSUME NEW t \in Transfers
  PROVE  /\ t.mode \in {"read", "write"} /\ t.address \in Addresses
         /\ t.register \in Register /\ t.register \in Nat
         /\ t.length \in 0..MaxBytes /\ t.length \in Nat
         /\ t.data \in Seq(Byte)
         /\ t.mode = "write" => Len(t.data) = t.length
         /\ t.mode = "read" => Len(t.data) = 0
  BY TransferAssumption DEF Addresses, Register

LEMMA NoAddressType == NoAddress \in AddressByte
  <1>1. \E a : a \in Addresses
    BY TransferAssumption DEF Addresses
  <1>2. (CHOOSE a \in Addresses : TRUE) \in Addresses
    BY <1>1
  <1> QED
    BY <1>2 DEF NoAddress, AddressByte

(* A register pointer that starts at t's register steps along RegisterAt. *)
LEMMA RegisterAtSteps ==
  ASSUME NEW t \in Transfers, NEW k \in Nat, k >= 1
  PROVE  /\ RegisterAt(t, k) \in Register
         /\ NextRegister(RegisterAt(t, k)) = RegisterAt(t, k + 1)
  <1>1. t.register \in Nat /\ t.register + k - 1 \in Nat
    BY TransferType
  <1>2. (t.register + k - 1) % (LastRegister + 1) \in 0..LastRegister
    <2> DEFINE x == t.register + k - 1
    <2>1. x \in Int /\ LastRegister + 1 - 1 = LastRegister
      BY <1>1, Sizes
    <2> HIDE DEF x
    <2>2. x % (LastRegister + 1) \in 0..(LastRegister + 1 - 1)
      BY <2>1, Sizes, Division
    <2> QED
      BY <2>1, <2>2 DEF x
  <1>3. t.register + (k + 1) - 1 = (t.register + k - 1) + 1
    BY <1>1
  <1>4. (((t.register + k - 1) % (LastRegister + 1)) + 1) % (LastRegister + 1)
          = ((t.register + k - 1) + 1) % (LastRegister + 1)
    BY <1>1, Sizes, RemainderOfNext
  <1> QED
    BY <1>2, <1>3, <1>4 DEF RegisterAt, NextRegister, Register

LEMMA RegisterAtFirst ==
  ASSUME NEW t \in Transfers
  PROVE  RegisterAt(t, 1) = t.register
  <1>1. /\ t.register \in 0..LastRegister /\ t.register + 1 - 1 = t.register
        /\ LastRegister + 1 - 1 = LastRegister /\ t.register \in Int
    BY TransferType, Sizes DEF Register
  <1>2. t.register = (LastRegister + 1) * 0 + t.register
    BY <1>1, Sizes
  <1>3. t.register % (LastRegister + 1) = t.register
    <2>1. t.register \in 0..(LastRegister + 1 - 1) /\ 0 \in Int
      BY <1>1
    <2> QED
      BY ONLY <1>1, <1>2, <2>1, Sizes, RemainderUnique
  <1> QED
    BY <1>1, <1>3 DEF RegisterAt

LEMMA RegisterAtDiffers ==
  ASSUME NEW t \in Transfers, NEW k \in Nat, NEW n \in Nat, k >= 1, k < n, LastAt(k, n)
  PROVE  RegisterAt(t, k) # RegisterAt(t, n)
  <1>1. /\ t.register \in Nat
        /\ t.register + k - 1 \in Nat /\ t.register + n - 1 \in Nat
        /\ t.register + k - 1 < t.register + n - 1
        /\ t.register + n - 1 < (t.register + k - 1) + (LastRegister + 1)
    <2>1. t.register \in Nat /\ LastRegister \in Nat
      BY TransferType, Sizes
    <2> QED
      BY <2>1 DEF LastAt
  <1> QED
    BY <1>1, Sizes, RemaindersDiffer DEF RegisterAt

(* kick_off_transfer, one assignment at a time. *)
LEMMA SaveParamCases ==
  ASSUME NEW c \in Caller, SaveParam(c), kicked \in 0..Len(Params)
  PROVE  /\ kicked \in 0..5 /\ kicked' = kicked + 1
         /\ kicked = 0 => i2c' = [i2c EXCEPT !.error_code = "none"]
         /\ kicked = 1 => i2c' = [i2c EXCEPT !.slave = ParamsOf(c).slave]
         /\ kicked = 2 => i2c' = [i2c EXCEPT !.register = op[c].register]
         /\ kicked = 3 => i2c' = [i2c EXCEPT !.input = ParamsOf(c).input]
         /\ kicked = 4 => i2c' = [i2c EXCEPT !.output = ParamsOf(c).output]
         /\ kicked = 5 => i2c' = [i2c EXCEPT !.remaining = op[c].length]
  <1>1. Len(Params) = 6
    BY DEF Params
  <1>2. kicked \in 0..5 /\ kicked' = kicked + 1
    BY <1>1 DEF SaveParam
  <1>3. i2c' = [i2c EXCEPT ![Params[kicked + 1]] = ParamsOf(c)[Params[kicked + 1]]]
    BY <1>2 DEF SaveParam
  <1>4. /\ ParamsOf(c)["error_code"] = "none"
        /\ ParamsOf(c)["register"] = op[c].register
        /\ ParamsOf(c)["remaining"] = op[c].length
        /\ ParamsOf(c)["slave"] = ParamsOf(c).slave
        /\ ParamsOf(c)["input"] = ParamsOf(c).input
        /\ ParamsOf(c)["output"] = ParamsOf(c).output
    BY DEF ParamsOf
  <1>5. /\ Params[1] = "error_code" /\ Params[2] = "slave" /\ Params[3] = "register"
        /\ Params[4] = "input" /\ Params[5] = "output" /\ Params[6] = "remaining"
    BY DEF Params
  <1>6. /\ kicked = 0 => Params[kicked + 1] = "error_code"
        /\ kicked = 1 => Params[kicked + 1] = "slave"
        /\ kicked = 2 => Params[kicked + 1] = "register"
        /\ kicked = 3 => Params[kicked + 1] = "input"
        /\ kicked = 4 => Params[kicked + 1] = "output"
        /\ kicked = 5 => Params[kicked + 1] = "remaining"
    BY <1>5
  <1> QED
    BY <1>2, <1>3, <1>4, <1>6, Zenon

(* The call a caller is in, or none. *)
LEMMA OpType ==
  ASSUME TypeOK, NEW c \in Caller
  PROVE  /\ op[c].length \in Nat
         /\ op[c] \in Transfers \/ (op[c] = NoCall /\ op[c].length = 0)
  BY TransferType DEF TypeOK, NoCall

LEMMA ParamsType ==
  ASSUME NEW c \in Caller, op[c] \in Transfers
  PROVE  /\ ParamsOf(c).slave \in AddressByte
         /\ ParamsOf(c).input \in Caller \cup {NoCaller}
         /\ ParamsOf(c).output \in [of : Caller \cup {NoCaller}, next : 1..(2 * MaxBytes + 1)]
         /\ ParamsOf(c).output.next = 1
         /\ op[c].register \in Register /\ op[c].length \in 0..SizeMax
  <1>1. op[c].length \in 0..SizeMax /\ 1 \in 1..(2 * MaxBytes + 1)
    BY TransferType, Sizes
  <1> QED
    BY <1>1, TransferType DEF ParamsOf, AddressByte

LEMMA SetParam ==
  ASSUME NEW p \in Parameters
  PROVE  /\ \A v \in Errors \cup {"none"} : [p EXCEPT !.error_code = v] \in Parameters
         /\ \A v \in AddressByte : [p EXCEPT !.slave = v] \in Parameters
         /\ \A v \in Register : [p EXCEPT !.register = v] \in Parameters
         /\ \A v \in Caller \cup {NoCaller} : [p EXCEPT !.input = v] \in Parameters
         /\ \A v \in [of : Caller \cup {NoCaller}, next : 1..(2 * MaxBytes + 1)] :
              [p EXCEPT !.output = v] \in Parameters
         /\ \A v \in 0..SizeMax : [p EXCEPT !.remaining = v] \in Parameters
  <1>1. \A v \in Errors \cup {"none"} : [p EXCEPT !.error_code = v] \in Parameters
    BY DEF Parameters
  <1>2. \A v \in AddressByte : [p EXCEPT !.slave = v] \in Parameters
    BY DEF Parameters
  <1>3. \A v \in Register : [p EXCEPT !.register = v] \in Parameters
    BY DEF Parameters
  <1>4. \A v \in Caller \cup {NoCaller} : [p EXCEPT !.input = v] \in Parameters
    BY DEF Parameters
  <1>5. \A v \in [of : Caller \cup {NoCaller}, next : 1..(2 * MaxBytes + 1)] :
          [p EXCEPT !.output = v] \in Parameters
    BY DEF Parameters
  <1>6. \A v \in 0..SizeMax : [p EXCEPT !.remaining = v] \in Parameters
    BY DEF Parameters
  <1> QED
    BY <1>1, <1>2, <1>3, <1>4, <1>5, <1>6

LEMMA SaveParamType ==
  ASSUME TypeOK, NEW c \in Caller, SaveParam(c), op[c] \in Transfers
  PROVE  i2c' \in Parameters
  <1>1. kicked \in 0..Len(Params) /\ i2c \in Parameters
    BY DEF TypeOK
  <1>2. kicked \in 0..5
    BY <1>1, SaveParamCases
  <1>3. CASE kicked = 0
    <2>1. i2c' = [i2c EXCEPT !.error_code = "none"]
      BY <1>1, <1>3, SaveParamCases
    <2> QED
      BY <1>1, <2>1, SetParam
  <1>4. CASE kicked = 1
    <2>1. i2c' = [i2c EXCEPT !.slave = ParamsOf(c).slave]
      BY <1>1, <1>4, SaveParamCases
    <2> QED
      BY <1>1, <2>1, SetParam, ParamsType
  <1>5. CASE kicked = 2
    <2>1. i2c' = [i2c EXCEPT !.register = op[c].register]
      BY <1>1, <1>5, SaveParamCases
    <2> QED
      BY <1>1, <2>1, SetParam, ParamsType
  <1>6. CASE kicked = 3
    <2>1. i2c' = [i2c EXCEPT !.input = ParamsOf(c).input]
      BY <1>1, <1>6, SaveParamCases
    <2> QED
      BY <1>1, <2>1, SetParam, ParamsType
  <1>7. CASE kicked = 4
    <2>1. i2c' = [i2c EXCEPT !.output = ParamsOf(c).output]
      BY <1>1, <1>7, SaveParamCases
    <2> QED
      BY <1>1, <2>1, SetParam, ParamsType
  <1>8. CASE kicked = 5
    <2>1. i2c' = [i2c EXCEPT !.remaining = op[c].length]
      BY <1>1, <1>8, SaveParamCases
    <2> QED
      BY <1>1, <2>1, SetParam, ParamsType
  <1> QED
    BY <1>2, <1>3, <1>4, <1>5, <1>6, <1>7, <1>8

-----------------------------------------------------------------------------
(* Types *)

LEMMA InitType == Init => TypeOK
  <1> SUFFICES ASSUME Init PROVE TypeOK
    OBVIOUS
  <1>1. NoCall.length = 0 /\ Len(Params) = 6
    BY DEF NoCall, Params
  <1>2. << >> \in Seq(Byte) /\ Len(<< >>) = 0
    OBVIOUS
  <1>3. i2c \in Parameters
    BY NoAddressType, Sizes DEF Init, Parameters
  <1>4. dat \in Byte /\ selected \in AddressByte
    BY NoAddressType, Sizes DEF Init
  <1>5. mem \in [Device -> [Register -> Byte]] /\ pointer \in [Device -> Register]
    BY Sizes DEF Init
  <1>6. /\ pc \in [Caller -> {"idle", "take", "clear", "kick", "wait", "give"}]
        /\ op \in [Caller -> Transfers \cup {NoCall}]
        /\ buffer \in [Caller -> Seq(Byte)]
        /\ \A c \in Caller : Len(buffer[c]) <= op[c].length
        /\ status \in [Caller -> BOOLEAN] /\ clean \in [Caller -> BOOLEAN]
    BY <1>1, <1>2 DEF Init
  <1>7. /\ mutex \in Caller \cup {NoCaller} /\ kicked \in 0..Len(Params)
        /\ signal = FALSE /\ stat \in Stats
        /\ si = FALSE /\ sta = FALSE /\ aa = FALSE /\ stray = FALSE
    BY <1>1 DEF Init, Stats
  <1> QED
    BY <1>3, <1>4, <1>5, <1>6, <1>7 DEF TypeOK

LEMMA CallerType ==
  ASSUME TypeOK, NEW c \in Caller, Call(c) \/ CallerStep(c),
         pc[c] \in {"idle", "take", "clear"} => buffer[c] = << >>,
         pc[c] # "idle" => op[c] \in Transfers
  PROVE  TypeOK'
  <1> USE DEF TypeOK
  <1>1. pc' \in [Caller -> {"idle", "take", "clear", "kick", "wait", "give"}]
    BY DEF Call, CallerStep, TakeMutex, ClearSignal, SaveParam, SetStart, TakeSignal,
           Timeout, GiveMutex, Task
  <1>2. UNCHANGED <<stat, si, aa, dat, selected, mem, pointer, stray>> /\ sta' \in BOOLEAN
    BY DEF Call, CallerStep, TakeMutex, ClearSignal, SaveParam, SetStart, TakeSignal,
           Timeout, GiveMutex, hardware
  <1>3. mutex' \in Caller \cup {NoCaller} /\ signal' \in BOOLEAN
    BY DEF Call, CallerStep, TakeMutex, ClearSignal, SaveParam, SetStart, TakeSignal,
           Timeout, GiveMutex, driver
  <1>4. status' \in [Caller -> BOOLEAN] /\ clean' \in [Caller -> BOOLEAN]
    <2>1. CASE TakeSignal(c)
      <3>1. IsZero(i2c.error_code) \in BOOLEAN
        BY DEF IsZero
      <3>2. QED
        BY <2>1, <3>1 DEF TakeSignal
    <2>2. CASE ~TakeSignal(c)
      BY <2>2 DEF Call, CallerStep, TakeMutex, ClearSignal, SaveParam, SetStart,
                  Timeout, GiveMutex, Busy
    <2>3. QED
      BY <2>1, <2>2
  <1>5. kicked' \in 0..Len(Params) /\ i2c' \in Parameters
    <2>1. CASE SaveParam(c)
      <3>1. op[c] \in Transfers
        BY <2>1 DEF SaveParam, Task
      <3>2. kicked' \in 0..Len(Params)
        <4>1. Len(Params) = 6
          BY DEF Params
        <4> QED
          BY <2>1, <4>1 DEF SaveParam
      <3>3. i2c' \in Parameters
        BY <2>1, <3>1, SaveParamType
      <3> QED
        BY <3>2, <3>3
    <2>2. CASE ~SaveParam(c)
      BY <2>2 DEF Call, CallerStep, TakeMutex, ClearSignal, SetStart, TakeSignal,
                  Timeout, GiveMutex, driver, Params
    <2> QED
      BY <2>1, <2>2
  <1>6. /\ op' \in [Caller -> Transfers \cup {NoCall}]
        /\ buffer' \in [Caller -> Seq(Byte)]
        /\ \A b \in Caller : Len(buffer'[b]) <= op'[b].length
    <2>1. CASE Call(c)
      <3>1. PICK t \in Transfers : op' = [op EXCEPT ![c] = t]
        BY <2>1 DEF Call
      <3>2. buffer' = buffer /\ buffer[c] = << >> /\ t.length \in Nat
        BY <2>1, <3>1, TransferType DEF Call, Task
      <3> QED
        BY <3>1, <3>2
    <2>2. CASE GiveMutex(c)
      <3>1. NoCall.length = 0
        BY DEF NoCall
      <3> QED
        BY <2>2, <3>1 DEF GiveMutex
    <2>3. CASE UNCHANGED <<op, buffer>>
      BY <2>3
    <2> QED
      BY <2>1, <2>2, <2>3 DEF CallerStep, TakeMutex, ClearSignal, SaveParam, SetStart,
                              TakeSignal, Timeout
  <1> QED
    BY <1>1, <1>2, <1>3, <1>4, <1>5, <1>6

(* *(input_byte_pointer) = DAT, where a caller reads or astray. *)
LEMMA StoreByteCases ==
  ASSUME StoreByte, TypeOK
  PROVE  \/ /\ i2c.input \in Caller /\ SavedBy(i2c.input) >= 4
            /\ Len(buffer[i2c.input]) < op[i2c.input].length
            /\ buffer' = [buffer EXCEPT ![i2c.input] = Append(@, dat)]
            /\ UNCHANGED stray
         \/ stray' = TRUE /\ UNCHANGED buffer
  BY DEF StoreByte, SavedBy

LEMMA StoreByteType ==
  ASSUME TypeOK, StoreByte, UNCHANGED op
  PROVE  /\ buffer' \in [Caller -> Seq(Byte)] /\ stray' \in BOOLEAN
         /\ \A c \in Caller : Len(buffer'[c]) <= op'[c].length
  <1>1. /\ buffer \in [Caller -> Seq(Byte)] /\ dat \in Byte /\ stray \in BOOLEAN
        /\ \A c \in Caller : Len(buffer[c]) <= op[c].length
    BY DEF TypeOK
  <1>2. CASE UNCHANGED buffer /\ stray' \in BOOLEAN
    BY <1>1, <1>2
  <1>3. CASE /\ i2c.input \in Caller /\ Len(buffer[i2c.input]) < op[i2c.input].length
             /\ buffer' = [buffer EXCEPT ![i2c.input] = Append(@, dat)]
             /\ UNCHANGED stray
    <2> DEFINE b == i2c.input
    <2>1. b \in Caller /\ buffer' = [buffer EXCEPT ![b] = Append(@, dat)]
      BY <1>3
    <2>2. Append(buffer[b], dat) \in Seq(Byte)
          /\ Len(Append(buffer[b], dat)) = Len(buffer[b]) + 1
      BY <1>1, <2>1
    <2>3. Len(Append(buffer[b], dat)) <= op[b].length
      BY <1>1, <1>3, <2>1, <2>2, OpType
    <2> HIDE DEF b
    <2> QED
      BY <1>1, <1>3, <2>1, <2>2, <2>3
  <1> QED
    BY <1>1, <1>2, <1>3, StoreByteCases

LEMMA IsrType ==
  ASSUME TypeOK, Isr, OutputInv
  PROVE  TypeOK'
  <1>1. /\ UNCHANGED <<pc, op, status, clean, mutex, kicked, mem, pointer>>
        /\ signal' \in BOOLEAN /\ stat' \in Stats /\ {si', sta', aa'} \subseteq BOOLEAN
    <2>1. /\ signal \in BOOLEAN /\ stat \in Stats /\ si \in BOOLEAN /\ sta \in BOOLEAN
          /\ aa \in BOOLEAN /\ "idle" \in Stats
      BY DEF TypeOK, Stats
    <2>2. CASE IsrStart
      BY <2>1, <2>2 DEF IsrStart, callers, driver
    <2>3. CASE IsrAddressAck
      BY <2>1, <2>3 DEF IsrAddressAck, Interrupt, Continue, Stop, callers
    <2>4. CASE IsrDataAck
      BY <2>1, <2>4 DEF IsrDataAck, Interrupt, Continue, Stop, callers
    <2>5. CASE IsrReadAck
      <3>1. aa' \in BOOLEAN
        BY <2>5 DEF IsrReadAck
      <3> QED
        BY <2>1, <2>5, <3>1 DEF IsrReadAck, Interrupt, Continue, callers
    <2>6. CASE IsrAckSent
      BY <2>1, <2>6 DEF IsrAckSent, Continue
    <2>7. CASE IsrNackSent
      BY <2>1, <2>7 DEF IsrNackSent, Stop
    <2>8. CASE IsrArbitrationLost
      BY <2>1, <2>8 DEF IsrArbitrationLost, Interrupt, callers, hardware
    <2>9. CASE IsrError
      BY <2>1, <2>9 DEF IsrError, Interrupt, Stop, callers
    <2> QED
      BY <2>2, <2>3, <2>4, <2>5, <2>6, <2>7, <2>8, <2>9 DEF Isr
  <1>2. selected' \in AddressByte
    <2>1. CASE IsrStart
      BY <2>1 DEF IsrStart, TypeOK, Parameters, AddressByte
    <2>2. CASE ~IsrStart
      BY <2>2, NoAddressType
         DEF Isr, IsrAddressAck, IsrDataAck, IsrReadAck, IsrAckSent, IsrNackSent,
             IsrArbitrationLost, IsrError, Interrupt, Continue, Stop, hardware, TypeOK
    <2> QED
      BY <2>1, <2>2
  <1>3. dat' \in Byte
    <2>1. dat \in Byte /\ 0 \in Byte /\ i2c.register \in Byte
      BY Sizes DEF TypeOK, Parameters
    <2> QED
      BY <2>1 DEF Isr, IsrStart, IsrAddressAck, IsrDataAck, IsrReadAck, IsrAckSent,
                  IsrNackSent, IsrArbitrationLost, IsrError, Interrupt, Continue, Stop,
                  hardware
  <1>4. i2c' \in Parameters
    <2>1. i2c \in Parameters /\ i2c.remaining \in 0..SizeMax
      BY DEF TypeOK, Parameters
    <2>2. \A n \in Int : n % (SizeMax + 1) \in 0..SizeMax
      <3>1. SizeMax + 1 \in Nat \ {0} /\ SizeMax + 1 - 1 = SizeMax
        BY Sizes
      <3> DEFINE m == SizeMax + 1
      <3>2. m \in Nat \ {0} /\ m - 1 = SizeMax
        BY <3>1, Sizes
      <3> HIDE DEF m
      <3>3. \A n \in Int : n % m \in 0..(m - 1)
        BY <3>2, Division
      <3> QED
        BY <3>2, <3>3 DEF m
    <2>3. CASE IsrDataAck
      <3>1. CASE i2c' = i2c
        BY <2>1, <3>1
      <3>2. CASE /\ i2c.remaining # 0 /\ stat = "mt_data_ack"
                 /\ i2c' = [i2c EXCEPT !.output.next = @ + 1, !.remaining = @ - 1]
        <4>1. i2c.output.next + i2c.remaining <= 2 * MaxBytes + 1
          <5>1. i2c.output.next + i2c.remaining <= OutputBound
            BY <3>2 DEF OutputInv, MayWrite
          <5> QED
            BY <2>1, <5>1, Sizes DEF OutputBound, Parameters
        <4>2. /\ i2c.output.next + 1 \in 1..(2 * MaxBytes + 1)
              /\ i2c.remaining - 1 \in 0..SizeMax
          BY <2>1, <3>2, <4>1, Sizes DEF Parameters
        <4> QED
          BY <2>1, <3>2, <4>2 DEF Parameters
      <3> QED
        BY <2>3, <3>1, <3>2 DEF IsrDataAck, Interrupt
    <2>4. CASE IsrAckSent
      <3>1. i2c' = [i2c EXCEPT !.remaining = (i2c.remaining - 1) % (SizeMax + 1)]
        BY <2>4 DEF IsrAckSent
      <3>2. (i2c.remaining - 1) % (SizeMax + 1) \in 0..SizeMax
        <4>1. i2c.remaining - 1 \in Int
          BY <2>1, Sizes
        <4> QED
          BY <2>2, <4>1
      <3> QED
        BY <2>1, <3>1, <3>2, SetParam
    <2>5. CASE IsrNackSent
      <3>1. i2c' = [i2c EXCEPT !.remaining = 0] /\ 0 \in 0..SizeMax
        BY <2>5, Sizes DEF IsrNackSent
      <3> QED
        BY <2>1, <3>1, SetParam
    <2>6. CASE IsrArbitrationLost \/ IsrError
      <3>1. i2c' = [i2c EXCEPT !.error_code = stat] /\ stat \in Errors \cup {"none"}
        BY <2>6 DEF IsrArbitrationLost, IsrError, Interrupt, Errors
      <3> QED
        BY <2>1, <3>1, SetParam
    <2>7. CASE IsrStart \/ IsrAddressAck \/ IsrReadAck
      BY <2>1, <2>7 DEF IsrStart, IsrAddressAck, IsrReadAck, driver
    <2> QED
      BY <2>3, <2>4, <2>5, <2>6, <2>7 DEF Isr
  <1>5. /\ buffer' \in [Caller -> Seq(Byte)] /\ stray' \in BOOLEAN
        /\ \A c \in Caller : Len(buffer'[c]) <= op'[c].length
    <2>1. CASE UNCHANGED <<buffer, stray>>
      BY <1>1, <2>1 DEF TypeOK
    <2>2. CASE StoreByte
      BY <1>1, <2>2, StoreByteType
    <2> QED
      BY <2>1, <2>2 DEF Isr, IsrStart, IsrAddressAck, IsrDataAck, IsrReadAck, IsrAckSent,
                        IsrNackSent, IsrArbitrationLost, IsrError, Interrupt, callers
  <1> QED
    BY <1>1, <1>2, <1>3, <1>4, <1>5 DEF TypeOK

LEMMA NextRegisterType ==
  ASSUME NEW r \in Register
  PROVE  NextRegister(r) \in Register
  <1>1. r \in Nat /\ r + 1 \in Int /\ LastRegister + 1 - 1 = LastRegister
    BY Sizes
  <1>2. (r + 1) % (LastRegister + 1) \in 0..(LastRegister + 1 - 1)
    BY <1>1, Sizes, Division
  <1> QED
    BY <1>1, <1>2 DEF NextRegister, Register

LEMMA BusType ==
  ASSUME TypeOK, Bus, BusInv
  PROVE  TypeOK'
  <1>1. /\ UNCHANGED <<callers, driver, aa, selected, stray, sta>>
        /\ stat' \in Stats /\ si' = TRUE
    BY DEF Bus, HwStart, HwAddress, HwSend, HwReceive, HwDisturbed, Hardware, Stats, Errors
  <1>2. /\ dat' \in Byte /\ mem' \in [Device -> [Register -> Byte]]
        /\ pointer' \in [Device -> Register]
    <2> DEFINE d == selected.address
    <2>1. CASE UNCHANGED <<dat, mem, pointer>>
      BY <2>1 DEF TypeOK
    <2>2. CASE HwSend
      <3>1. stat \in {"mt_addr_ack", "mt_data_ack"} /\ UNCHANGED dat
        BY <2>2 DEF HwSend, Hardware
      <3>2. d \in Device
        BY <3>1 DEF BusInv
      <3>3. pointer[d] \in Register /\ NextRegister(pointer[d]) \in Register /\ dat \in Byte
        BY <3>2, NextRegisterType DEF TypeOK
      <3>4. mem' = mem \/ mem' = [mem EXCEPT ![d] = [@ EXCEPT ![pointer[d]] = dat]]
        BY <2>2 DEF HwSend
      <3>5. \/ pointer' = pointer \/ pointer' = [pointer EXCEPT ![d] = NextRegister(@)]
            \/ pointer' = [pointer EXCEPT ![d] = dat] /\ dat \in Register
        BY <2>2 DEF HwSend
      <3> HIDE DEF d
      <3>6. mem' \in [Device -> [Register -> Byte]]
        <4>1. [mem[d] EXCEPT ![pointer[d]] = dat] \in [Register -> Byte]
          BY <3>2, <3>3 DEF TypeOK
        <4> QED
          BY <3>2, <3>4, <4>1 DEF TypeOK
      <3>7. pointer' \in [Device -> Register]
        BY <3>2, <3>3, <3>5 DEF TypeOK
      <3> QED
        BY <3>1, <3>3, <3>6, <3>7
    <2>3. CASE HwReceive
      <3>1. stat \in {"mr_read_ack", "mr_ack_sent"} /\ UNCHANGED mem
        BY <2>3 DEF HwReceive, Hardware
      <3>2. d \in Device
        BY <3>1 DEF BusInv
      <3>3. /\ pointer[d] \in Register /\ NextRegister(pointer[d]) \in Register
            /\ mem[d][pointer[d]] \in Byte
        BY <3>2, NextRegisterType DEF TypeOK
      <3> QED
        BY <2>3, <3>1, <3>2, <3>3 DEF HwReceive, TypeOK
    <2> QED
      BY <2>1, <2>2, <2>3 DEF Bus, HwStart, HwAddress, HwDisturbed
  <1> QED
    BY <1>1, <1>2 DEF TypeOK, callers, driver

-----------------------------------------------------------------------------
(* What a step leaves alone *)

(* The handler has put a byte of the caller's in DAT. *)
LEMMA SentByte ==
  ASSUME NEW p \in Parameters, NEW q,
         q = [p EXCEPT !.output.next = @ + 1, !.remaining = @ - 1]
  PROVE  /\ q.error_code = p.error_code /\ q.slave = p.slave
         /\ q.register = p.register /\ q.input = p.input
         /\ q.output.of = p.output.of /\ q.output.next = p.output.next + 1
         /\ q.remaining = p.remaining - 1
  <1>1. p.output \in [of : Caller \cup {NoCaller}, next : 1..(2 * MaxBytes + 1)]
    BY DEF Parameters
  <1>2. q.error_code = p.error_code /\ q.slave = p.slave
    BY DEF Parameters
  <1>3. q.register = p.register /\ q.input = p.input
    BY DEF Parameters
  <1>4. q.output = [p.output EXCEPT !.next = @ + 1] /\ q.remaining = p.remaining - 1
    BY DEF Parameters
  <1> QED
    BY <1>1, <1>2, <1>3, <1>4

(* size_t counts down to zero before it wraps. *)
LEMMA CountDown ==
  ASSUME NEW p \in Parameters, p.remaining >= 1
  PROVE  (p.remaining - 1) % (SizeMax + 1) = p.remaining - 1
  <1> DEFINE m == SizeMax + 1
             r == p.remaining - 1
  <1>1. m \in Nat \ {0} /\ r \in 0..(m - 1) /\ r \in Int
    BY Sizes DEF Parameters
  <1>2. r = m * 0 + r /\ 0 \in Int
    BY <1>1
  <1> HIDE DEF m, r
  <1>3. r % m = r
    BY ONLY <1>1, <1>2, RemainderUnique
  <1> QED
    BY <1>3 DEF m, r

LEMMA IsrKeeps ==
  ASSUME TypeOK, Isr
  PROVE  /\ si /\ ~stray
         /\ UNCHANGED <<pc, op, status, clean, mutex, kicked, mem, pointer>>
         /\ i2c'.slave = i2c.slave /\ i2c'.register = i2c.register
         /\ i2c'.input = i2c.input /\ i2c'.output.of = i2c.output.of
  <1>1. i2c \in Parameters
    BY DEF TypeOK
  <1>2. CASE IsrStart \/ IsrAddressAck \/ IsrReadAck
    BY <1>2 DEF IsrStart, IsrAddressAck, IsrReadAck, Interrupt, Continue, Stop, callers, driver
  <1>3. CASE IsrDataAck
    <2>1. i2c' = i2c \/ i2c' = [i2c EXCEPT !.output.next = @ + 1, !.remaining = @ - 1]
      BY <1>3 DEF IsrDataAck
    <2>2. /\ i2c'.slave = i2c.slave /\ i2c'.register = i2c.register
          /\ i2c'.input = i2c.input /\ i2c'.output.of = i2c.output.of
      <3>1. CASE i2c' = i2c
        BY <3>1
      <3>2. CASE i2c' = [i2c EXCEPT !.output.next = @ + 1, !.remaining = @ - 1]
        BY <1>1, <3>2, SentByte
      <3> QED
        BY <2>1, <3>1, <3>2
    <2> QED
      BY <1>3, <2>2 DEF IsrDataAck, Interrupt, Continue, Stop, callers
  <1>4. CASE IsrAckSent
    BY <1>1, <1>4 DEF IsrAckSent, Continue, Parameters
  <1>5. CASE IsrNackSent
    BY <1>1, <1>5 DEF IsrNackSent, Stop, Parameters
  <1>6. CASE IsrArbitrationLost
    BY <1>1, <1>6 DEF IsrArbitrationLost, Interrupt, callers, hardware, Parameters
  <1>7. CASE IsrError
    BY <1>1, <1>7 DEF IsrError, Interrupt, Stop, callers, Parameters
  <1> QED
    BY <1>2, <1>3, <1>4, <1>5, <1>6, <1>7 DEF Isr

LEMMA IsrBuffer ==
  ASSUME Isr
  PROVE  /\ ~UNCHANGED <<buffer, stray>> =>
              StoreByte /\ stat \in {"mr_ack_sent", "mr_nack_sent"}
         /\ stat \notin {"mr_ack_sent", "mr_nack_sent"} => UNCHANGED <<buffer, stray>>
  BY DEF Isr, IsrStart, IsrAddressAck, IsrDataAck, IsrReadAck, IsrAckSent, IsrNackSent,
         IsrArbitrationLost, IsrError, Interrupt, callers

LEMMA BusKeeps ==
  ASSUME Bus
  PROVE  /\ ~si /\ ~stray /\ si' = TRUE /\ stat' # "idle" /\ (stat # "idle" \/ sta)
         /\ UNCHANGED <<callers, driver, sta, aa, selected, stray>>
  BY DEF Bus, HwStart, HwAddress, HwSend, HwReceive, HwDisturbed, Hardware

LEMMA CallerKeeps ==
  ASSUME NEW c \in Caller, Call(c) \/ CallerStep(c)
  PROVE  /\ ~si /\ ~stray
         /\ UNCHANGED <<stat, si, aa, dat, selected, mem, pointer, stray>>
         /\ ~SetStart(c) => UNCHANGED sta
         /\ ~SaveParam(c) => UNCHANGED i2c
         /\ ~SaveParam(c) /\ ~SetStart(c) => UNCHANGED kicked
         /\ ~Call(c) /\ ~GiveMutex(c) => UNCHANGED <<op, buffer>>
         /\ ~TakeSignal(c) /\ ~GiveMutex(c) => UNCHANGED status
         /\ ~ClearSignal(c) /\ ~GiveMutex(c) => UNCHANGED clean
         /\ ~ClearSignal(c) /\ ~TakeSignal(c) => UNCHANGED signal
  BY DEF Call, CallerStep, TakeMutex, ClearSignal, SaveParam, SetStart, TakeSignal,
         Timeout, GiveMutex, Task, driver, hardware

-----------------------------------------------------------------------------
(* The mutex, and what a caller and its parameters have to do with each other *)

LEMMA MutexCaller ==
  ASSUME TypeOK, MutexInv, NEW c \in Caller, Call(c) \/ CallerStep(c)
  PROVE  MutexInv'
  <1>1. \A b \in Caller : pc'[b] = "kick" \/ pc[b] # "kick" \/ SetStart(c)
    BY DEF TypeOK, Call, CallerStep, TakeMutex, ClearSignal, SaveParam, SetStart,
           TakeSignal, Timeout, GiveMutex, Task
  <1>2. kicked' # 0 => \E b \in Caller : pc'[b] = "kick"
    <2>1. CASE SetStart(c)
      BY <2>1 DEF SetStart
    <2>2. CASE SaveParam(c)
      BY <2>2 DEF SaveParam, Task, TypeOK
    <2>3. CASE ~SaveParam(c) /\ ~SetStart(c)
      BY <1>1, <2>3, CallerKeeps DEF MutexInv
    <2> QED
      BY <2>1, <2>2, <2>3
  <1>3. \A b \in Caller : pc'[b] \in {"clear", "kick", "wait", "give"} <=> mutex' = b
    <2>1. pc \in [Caller -> {"idle", "take", "clear", "kick", "wait", "give"}]
          /\ NoCaller \notin Caller
      BY Sizes DEF TypeOK
    <2>2. CASE TakeMutex(c)
      BY <2>1, <2>2 DEF TakeMutex, Task, MutexInv
    <2>3. CASE GiveMutex(c)
      BY <2>1, <2>3 DEF GiveMutex, Task, MutexInv
    <2>4. CASE Call(c)
      BY <2>1, <2>4 DEF Call, Task, MutexInv, driver
    <2>5. CASE ClearSignal(c) \/ SaveParam(c) \/ SetStart(c)
      BY <2>1, <2>5 DEF ClearSignal, SaveParam, SetStart, Task, MutexInv
    <2>6. CASE TakeSignal(c) \/ Timeout(c)
      BY <2>1, <2>6 DEF TakeSignal, Timeout, Task, MutexInv, driver
    <2> QED
      BY <2>2, <2>3, <2>4, <2>5, <2>6 DEF CallerStep
  <1> QED
    BY <1>2, <1>3 DEF MutexInv

LEMMA CallCaller ==
  ASSUME TypeOK, MutexInv, NEW b \in Caller, CallInv(b), NEW c \in Caller,
         Call(c) \/ CallerStep(c)
  PROVE  CallInv(b)'
  <1>1. /\ pc \in [Caller -> {"idle", "take", "clear", "kick", "wait", "give"}]
        /\ op \in [Caller -> Transfers \cup {NoCall}] /\ kicked \in 0..Len(Params)
        /\ buffer \in [Caller -> Seq(Byte)] /\ i2c \in Parameters
        /\ status \in [Caller -> BOOLEAN]
    BY DEF TypeOK
  <1>2. kicked \in 0..6
    BY <1>1 DEF Params
  <1>3. CASE b # c
    <2>1. UNCHANGED <<pc[b], op[b], buffer[b], status[b]>>
      BY <1>1, <1>3 DEF Call, CallerStep, TakeMutex, ClearSignal, SaveParam, SetStart,
                        TakeSignal, Timeout, GiveMutex, Task
    <2>2. CASE SaveParam(c) \/ SetStart(c)
      <3>1. pc[b] \notin {"kick", "wait"}
        BY <1>3, <2>2 DEF SaveParam, SetStart, Task, MutexInv
      <3> QED
        BY <2>1, <3>1 DEF CallInv, SavedBy
    <2>3. CASE ~SaveParam(c) /\ ~SetStart(c)
      <3>1. UNCHANGED <<i2c, kicked>>
        BY <2>3, CallerKeeps
      <3> QED
        BY <2>1, <3>1 DEF CallInv, SavedBy, ParamsOf
    <2> QED
      BY <2>2, <2>3
  <1>4. CASE b = c
    <2>1. CASE Call(c)
      BY <1>1, <1>4, <2>1 DEF Call, Task, CallInv, SavedBy
    <2>2. CASE TakeMutex(c)
      BY <1>1, <1>4, <2>2 DEF TakeMutex, Task, CallInv, SavedBy
    <2>3. CASE ClearSignal(c)
      <3>1. kicked' = 0
        BY <2>3 DEF ClearSignal, Task, MutexInv
      <3> QED
        BY <1>1, <1>4, <2>3, <3>1 DEF ClearSignal, Task, CallInv, SavedBy
    <2>4. CASE SaveParam(c)
      <3>1. /\ pc[c] = "kick" /\ UNCHANGED <<pc, op, buffer, status>>
        BY <1>1, <2>4 DEF SaveParam, Task
      <3>2. SavedBy(c) = kicked /\ SavedBy(c)' = kicked + 1 /\ ParamsOf(c)' = ParamsOf(c)
        BY <1>1, <2>4, <3>1, SaveParamCases DEF SavedBy, ParamsOf
      <3>3. /\ kicked >= 1 => i2c'.slave = ParamsOf(c).slave
            /\ kicked >= 2 => i2c'.register = op[c].register
            /\ kicked >= 3 => i2c'.input = ParamsOf(c).input
        BY <1>1, <1>2, <1>4, <2>4, <3>2, SaveParamCases DEF CallInv, Parameters
      <3> QED
        BY <1>1, <1>2, <1>4, <3>1, <3>2, <3>3 DEF CallInv
    <2>5. CASE SetStart(c)
      <3>1. kicked = 6 /\ pc[c] = "kick" /\ pc' = [pc EXCEPT ![c] = "wait"]
            /\ UNCHANGED <<op, buffer, status, i2c>>
        BY <2>5 DEF SetStart, Task, Params
      <3>2. SavedBy(c) = 6 /\ SavedBy(c)' = 6 /\ ParamsOf(c)' = ParamsOf(c)
        BY <1>1, <3>1 DEF SavedBy, ParamsOf
      <3> QED
        BY <1>1, <1>4, <3>1, <3>2 DEF CallInv
    <2>6. CASE TakeSignal(c)
      BY <1>1, <1>4, <2>6 DEF TakeSignal, Task, CallInv, SavedBy
    <2>7. CASE Timeout(c)
      BY <1>1, <1>4, <2>7 DEF Timeout, Task, CallInv, SavedBy
    <2>8. CASE GiveMutex(c)
      BY <1>1, <1>4, <2>8 DEF GiveMutex, Task, CallInv, SavedBy
    <2> QED
      BY <2>1, <2>2, <2>3, <2>4, <2>5, <2>6, <2>7, <2>8 DEF CallerStep
  <1> QED
    BY <1>3, <1>4

LEMMA CallIsr ==
  ASSUME TypeOK, NEW b \in Caller, CallInv(b), Isr
  PROVE  CallInv(b)'
  <1>1. SavedBy(b)' = SavedBy(b) /\ ParamsOf(b)' = ParamsOf(b)
    BY IsrKeeps DEF SavedBy, ParamsOf
  <1>2. pc[b] \in {"idle", "take", "clear"} => UNCHANGED buffer[b]
    <2>1. CASE UNCHANGED buffer
      BY <2>1
    <2>2. CASE /\ i2c.input \in Caller /\ SavedBy(i2c.input) >= 4
               /\ buffer' = [buffer EXCEPT ![i2c.input] = Append(@, dat)]
      <3>1. pc[b] \in {"idle", "take", "clear"} => SavedBy(b) = 0
        BY DEF SavedBy
      <3>2. pc[b] \in {"idle", "take", "clear"} => i2c.input # b
        BY <2>2, <3>1
      <3> QED
        BY <2>2, <3>2 DEF TypeOK
    <2> QED
      BY <2>1, <2>2, IsrBuffer, StoreByteCases
  <1> QED
    BY <1>1, <1>2, IsrKeeps DEF CallInv

LEMMA BusStep ==
  ASSUME TypeOK, BusInv, Isr \/ Bus
  PROVE  BusInv'
  <1>1. CASE Bus
    <2>1. si' = TRUE /\ stat' # "idle" /\ UNCHANGED selected
      BY <1>1, BusKeeps
    <2>2. stat' \in {"mt_addr_ack", "mt_data_ack", "mr_read_ack", "mr_ack_sent"} =>
            selected.address \in Device
      BY <1>1 DEF Bus, HwStart, HwAddress, HwSend, HwReceive, HwDisturbed, Hardware, BusInv
    <2> QED
      BY <2>1, <2>2 DEF BusInv
  <1>2. CASE Isr
    BY <1>2 DEF Isr, IsrStart, IsrAddressAck, IsrDataAck, IsrReadAck, IsrAckSent,
                IsrNackSent, IsrArbitrationLost, IsrError, Interrupt, Continue, Stop,
                hardware, BusInv, Errors
  <1> QED
    BY <1>1, <1>2

-----------------------------------------------------------------------------
(* How far the handler's pointers and counters can get *)

(* A byte that is stored while the caller has yet to set START is one of     *)
(* those the handler still counts.                                           *)
LEMMA RoomForByte ==
  ASSUME TypeOK, MutexInv, RoomInv, \A c \in Caller : CallInv(c), kicked = 6,
         stat # "idle", i2c.input \in Caller, SavedBy(i2c.input) >= 4,
         Len(buffer[i2c.input]) < op[i2c.input].length
  PROVE  /\ pc[i2c.input] = "kick" /\ op[i2c.input].mode = "read"
         /\ i2c.remaining >= 1
  <1> DEFINE c == i2c.input
  <1>1. c \in Caller /\ pc[c] \in {"kick", "wait"}
    BY DEF SavedBy
  <1>2. pc[c] = "kick"
    <2>1. PICK b \in Caller : pc[b] = "kick"
      BY DEF MutexInv
    <2> QED
      BY <1>1, <2>1 DEF MutexInv
  <1>3. op[c].mode = "read"
    <2>1. c = ParamsOf(c).input
      BY <1>1 DEF CallInv
    <2> QED
      BY <1>1, <2>1, Sizes DEF ParamsOf
  <1>4. i2c.remaining + Len(buffer[c]) >= op[c].length
    BY <1>1, <1>2, <1>3 DEF RoomInv
  <1>5. i2c.remaining \in Nat /\ op[c].length \in Nat /\ Len(buffer[c]) \in Nat
    BY <1>1, OpType, Sizes DEF TypeOK, Parameters
  <1> QED
    BY <1>2, <1>3, <1>4, <1>5

LEMMA OutputCaller ==
  ASSUME TypeOK, MutexInv, OutputInv, NEW c \in Caller, CallInv(c),
         Call(c) \/ CallerStep(c)
  PROVE  OutputInv'
  <1>1. /\ i2c \in Parameters /\ i2c.output.next \in Nat /\ i2c.remaining \in Nat
        /\ MaxBytes \in Nat /\ kicked \in 0..6
    BY Sizes DEF TypeOK, Parameters, Params
  <1>2. CASE SaveParam(c)
    <2>1. /\ UNCHANGED <<stat, sta>> /\ op[c] \in Transfers /\ kicked \in 0..5
          /\ kicked' = kicked + 1 /\ MayWrite' = MayWrite
      BY <1>1, <1>2, SaveParamCases DEF SaveParam, Task, hardware, MayWrite, CallInv, TypeOK
    <2>2. CASE kicked \in 0..3
      <3>1. i2c'.output = i2c.output /\ i2c'.remaining = i2c.remaining
        BY <1>1, <1>2, <2>2, SaveParamCases DEF TypeOK, Parameters
      <3>2. OutputBound' = OutputBound
        BY <2>1, <2>2 DEF OutputBound
      <3> QED
        BY <2>1, <2>2, <3>1, <3>2 DEF OutputInv
    <2>3. CASE kicked = 4
      <3>1. i2c'.output = ParamsOf(c).output /\ i2c'.remaining = i2c.remaining
        BY <1>1, <1>2, <2>3, SaveParamCases DEF TypeOK, Parameters
      <3>2. i2c'.output.next = 1 /\ OutputBound' = MaxBytes + 1 /\ kicked' = 5
        BY <2>1, <2>3, <3>1, ParamsType DEF OutputBound
      <3>3. MayWrite => i2c.remaining <= MaxBytes
        BY DEF OutputInv
      <3> QED
        BY <1>1, <2>1, <3>1, <3>2, <3>3 DEF OutputInv
    <2>4. CASE kicked = 5
      <3>1. i2c'.output = i2c.output /\ i2c'.remaining = op[c].length
        BY <1>1, <1>2, <2>4, SaveParamCases DEF TypeOK, Parameters
      <3>2. OutputBound = MaxBytes + 1 /\ OutputBound' = 2 * MaxBytes + 1
        BY <2>1, <2>4 DEF OutputBound
      <3>3. i2c.output.next <= MaxBytes + 1 /\ op[c].length \in 0..MaxBytes
        BY <2>1, <3>2, TransferType DEF OutputInv
      <3> QED
        BY <1>1, <3>1, <3>2, <3>3 DEF OutputInv
    <2> QED
      BY <2>1, <2>2, <2>3, <2>4
  <1>3. CASE SetStart(c)
    <2>1. kicked = 6 /\ kicked' = 0 /\ UNCHANGED i2c
      BY <1>3 DEF SetStart, Params
    <2>2. OutputBound' = OutputBound
      BY <2>1 DEF OutputBound
    <2> QED
      BY <2>1, <2>2 DEF OutputInv
  <1>4. CASE ~SaveParam(c) /\ ~SetStart(c)
    <2>1. UNCHANGED <<i2c, kicked, stat, sta>>
      BY <1>4, CallerKeeps
    <2> QED
      BY <2>1 DEF OutputInv, MayWrite, OutputBound
  <1> QED
    BY <1>2, <1>3, <1>4

LEMMA OutputBus ==
  ASSUME TypeOK, OutputInv, Bus
  PROVE  OutputInv'
  <1>1. UNCHANGED <<i2c, kicked>>
    BY BusKeeps DEF driver
  <1>2. MayWrite' => MayWrite
    BY DEF Bus, HwStart, HwAddress, HwSend, HwReceive, HwDisturbed, Hardware, MayWrite
  <1> QED
    BY <1>1, <1>2 DEF OutputInv, OutputBound

LEMMA OutputIsr ==
  ASSUME TypeOK, MutexInv, RoomInv, OutputInv, \A c \in Caller : CallInv(c),
         Isr, ~stray'
  PROVE  OutputInv'
  <1>1. /\ i2c \in Parameters /\ i2c.output.next \in Nat /\ i2c.remaining \in Nat
        /\ MaxBytes \in Nat /\ OutputBound \in Nat
    BY Sizes DEF TypeOK, Parameters, OutputBound
  <1>2. kicked' = kicked /\ OutputBound' = OutputBound
    BY IsrKeeps DEF OutputBound
  <1>3. CASE IsrStart \/ IsrAddressAck \/ IsrReadAck
    <2>1. i2c' = i2c
      BY <1>3 DEF IsrStart, IsrAddressAck, IsrReadAck, driver
    <2>2. MayWrite' => MayWrite
      BY <1>3 DEF IsrStart, IsrAddressAck, IsrReadAck, Interrupt, Continue, Stop, MayWrite
    <2> QED
      BY <1>2, <2>1, <2>2 DEF OutputInv
  <1>4. CASE IsrDataAck
    <2>1. MayWrite
      BY <1>4 DEF IsrDataAck, Interrupt, MayWrite
    <2>2. CASE i2c' = i2c
      BY <1>2, <2>1, <2>2 DEF OutputInv
    <2>3. CASE /\ i2c.remaining # 0
               /\ i2c' = [i2c EXCEPT !.output.next = @ + 1, !.remaining = @ - 1]
      <3>1. /\ i2c'.output.next = i2c.output.next + 1
            /\ i2c'.remaining = i2c.remaining - 1
        BY <1>1, <2>3, SentByte
      <3>2. i2c.remaining <= MaxBytes /\ i2c.output.next + i2c.remaining <= OutputBound
        BY <2>1 DEF OutputInv
      <3>3. /\ i2c'.output.next <= OutputBound /\ i2c'.remaining <= MaxBytes
            /\ i2c'.output.next + i2c'.remaining <= OutputBound
        BY <1>1, <2>3, <3>1, <3>2
      <3> QED
        BY <1>2, <3>3 DEF OutputInv
    <2> QED
      BY <1>4, <2>2, <2>3 DEF IsrDataAck
  <1>5. CASE IsrAckSent
    <2>1. /\ i2c'.output = i2c.output
          /\ i2c'.remaining = (i2c.remaining - 1) % (SizeMax + 1)
          /\ stat = "mr_ack_sent" /\ stat' = stat /\ StoreByte
      BY <1>1, <1>5 DEF IsrAckSent, Continue, Parameters
    <2>2. ~MayWrite'
      BY <2>1 DEF MayWrite
    <2>3. kicked = 6 => i2c.remaining >= 1
      BY <2>1, StoreByteCases, RoomForByte
    <2>4. kicked = 6 => i2c'.remaining = i2c.remaining - 1
      BY <1>1, <2>1, <2>3, CountDown
    <2>5. kicked = 6 =>
            i2c.remaining <= MaxBytes /\ i2c.output.next + i2c.remaining <= OutputBound
      BY DEF OutputInv
    <2>6. kicked = 6 =>
            i2c'.remaining <= MaxBytes /\ i2c'.output.next + i2c'.remaining <= OutputBound
      BY <1>1, <2>1, <2>4, <2>5
    <2> QED
      BY <1>2, <2>1, <2>2, <2>6 DEF OutputInv
  <1>6. CASE IsrNackSent
    <2>1. i2c'.output = i2c.output /\ i2c'.remaining = 0 /\ stat' = "idle" /\ sta' = FALSE
      BY <1>1, <1>6 DEF IsrNackSent, Stop, Parameters
    <2>2. i2c'.output.next + i2c'.remaining <= OutputBound
      BY <1>1, <2>1 DEF OutputInv
    <2> QED
      BY <1>1, <1>2, <2>1, <2>2 DEF OutputInv, MayWrite
  <1>7. CASE IsrArbitrationLost \/ IsrError
    <2>1. i2c'.output = i2c.output /\ i2c'.remaining = i2c.remaining
      BY <1>1, <1>7 DEF IsrArbitrationLost, IsrError, Parameters
    <2>2. ~MayWrite'
      BY <1>7 DEF IsrArbitrationLost, IsrError, Interrupt, Stop, hardware, MayWrite
    <2> QED
      BY <1>2, <2>1, <2>2 DEF OutputInv
  <1> QED
    BY <1>3, <1>4, <1>5, <1>6, <1>7 DEF Isr

LEMMA RoomCaller ==
  ASSUME TypeOK, MutexInv, RoomInv, NEW c \in Caller, CallInv(c), Call(c) \/ CallerStep(c)
  PROVE  RoomInv'
  <1> SUFFICES ASSUME NEW b \in Caller, pc'[b] = "kick", kicked' = 6,
                      op'[b].mode = "read", sta' \/ stat' # "idle"
               PROVE  i2c'.remaining + Len(buffer'[b]) >= op'[b].length
    BY DEF RoomInv
  <1>1. /\ pc \in [Caller -> {"idle", "take", "clear", "kick", "wait", "give"}]
        /\ op \in [Caller -> Transfers \cup {NoCall}] /\ kicked \in 0..Len(Params)
        /\ buffer \in [Caller -> Seq(Byte)] /\ i2c \in Parameters
    BY DEF TypeOK
  <1>2. CASE SaveParam(c)
    <2>1. UNCHANGED <<pc, op, buffer>> /\ pc[c] = "kick" /\ kicked = 5
      BY <1>1, <1>2, SaveParamCases DEF SaveParam, Task
    <2>2. b = c
      BY <2>1 DEF MutexInv
    <2>3. i2c'.remaining = op[c].length
      BY <1>1, <1>2, <2>1, SaveParamCases DEF Parameters
    <2>4. op[c].length \in Nat /\ Len(buffer[c]) \in Nat
      BY <1>1, OpType
    <2> QED
      BY <2>1, <2>2, <2>3, <2>4
  <1>3. CASE SetStart(c)
    BY <1>3 DEF SetStart
  <1>4. CASE ~SaveParam(c) /\ ~SetStart(c)
    <2>1. UNCHANGED <<i2c, kicked, stat, sta>> /\ pc[c] # "kick"
      BY <1>4, CallerKeeps DEF Call, CallerStep, TakeMutex, ClearSignal, TakeSignal,
                               Timeout, GiveMutex, Task
    <2>2. PICK d \in Caller : pc[d] = "kick"
      BY <2>1 DEF MutexInv
    <2>3. MutexInv' /\ pc'[d] = "kick" /\ UNCHANGED <<op[d], buffer[d]>>
      <3>1. d # c
        BY <2>1, <2>2
      <3>2. pc'[d] = pc[d] /\ UNCHANGED <<op[d], buffer[d]>>
        BY <1>1, <1>4, <3>1 DEF Call, CallerStep, TakeMutex, ClearSignal, TakeSignal,
                                Timeout, GiveMutex, Task
      <3> QED
        BY <2>2, <3>2, MutexCaller
    <2>4. b = d
      BY <2>3 DEF MutexInv
    <2> QED
      BY <2>1, <2>2, <2>3, <2>4 DEF RoomInv
  <1> QED
    BY <1>2, <1>3, <1>4

LEMMA RoomBus ==
  ASSUME TypeOK, RoomInv, Bus
  PROVE  RoomInv'
  <1>1. UNCHANGED <<i2c, kicked, pc, op, buffer>> /\ (stat # "idle" \/ sta)
    BY BusKeeps DEF driver, callers
  <1> QED
    BY <1>1 DEF RoomInv

LEMMA RoomIsr ==
  ASSUME TypeOK, MutexInv, BusInv, RoomInv, \A c \in Caller : CallInv(c), Isr, ~stray'
  PROVE  RoomInv'
  <1>1. UNCHANGED <<pc, op, kicked>> /\ stat # "idle"
    BY IsrKeeps DEF BusInv
  <1> SUFFICES ASSUME NEW b \in Caller, pc[b] = "kick", kicked = 6,
                      op[b].mode = "read", sta' \/ stat' # "idle"
               PROVE  i2c'.remaining + Len(buffer'[b]) >= op[b].length
    BY <1>1 DEF RoomInv
  <1>2. i2c.remaining + Len(buffer[b]) >= op[b].length
    BY <1>1 DEF RoomInv
  <1>3. i2c \in Parameters /\ buffer \in [Caller -> Seq(Byte)]
    BY DEF TypeOK
  <1>4. CASE IsrStart \/ IsrAddressAck \/ IsrReadAck
    BY <1>2, <1>4 DEF IsrStart, IsrAddressAck, IsrReadAck, Interrupt, callers, driver
  <1>5. CASE IsrDataAck
    <2>1. SavedBy(b) = 6
      BY DEF SavedBy
    <2>2. i2c.slave.mode = "read"
      <3>1. i2c.slave = ParamsOf(b).slave
        BY <2>1 DEF CallInv
      <3> QED
        BY <3>1 DEF ParamsOf
    <2>3. UNCHANGED <<i2c, buffer>>
      BY <1>5, <2>2 DEF IsrDataAck, Interrupt, callers
    <2> QED
      BY <1>2, <2>3
  <1>6. CASE IsrAckSent
    <2>1. /\ i2c'.remaining = (i2c.remaining - 1) % (SizeMax + 1) /\ StoreByte
      BY <1>3, <1>6 DEF IsrAckSent, Parameters
    <2>2. /\ i2c.input \in Caller /\ SavedBy(i2c.input) >= 4
          /\ Len(buffer[i2c.input]) < op[i2c.input].length
          /\ buffer' = [buffer EXCEPT ![i2c.input] = Append(@, dat)]
      BY <2>1, StoreByteCases
    <2>3. pc[i2c.input] = "kick" /\ i2c.remaining >= 1
      BY <1>1, <2>2, RoomForByte
    <2>4. i2c.input = b
      BY <2>2, <2>3 DEF MutexInv
    <2>5. buffer'[b] = Append(buffer[b], dat) /\ buffer[b] \in Seq(Byte)
      BY <1>3, <2>2, <2>4
    <2>6. Len(buffer'[b]) = Len(buffer[b]) + 1 /\ Len(buffer[b]) \in Nat
      BY <2>5
    <2>7. i2c'.remaining = i2c.remaining - 1 /\ i2c.remaining \in Nat /\ op[b].length \in Nat
      BY <1>3, <2>1, <2>3, CountDown, OpType, Sizes DEF Parameters
    <2> QED
      BY <1>2, <2>6, <2>7
  <1>7. CASE IsrNackSent
    BY <1>7 DEF IsrNackSent, Stop
  <1>8. CASE IsrArbitrationLost \/ IsrError
    <2>1. i2c'.remaining = i2c.remaining /\ UNCHANGED buffer
      BY <1>3, <1>8 DEF IsrArbitrationLost, IsrError, Interrupt, callers, Parameters
    <2> QED
      BY <1>2, <2>1
  <1> QED
    BY <1>4, <1>5, <1>6, <1>7, <1>8 DEF Isr

-----------------------------------------------------------------------------
(* A call that has the bus for itself, from one state of the peripheral to   *)
(* the next                                                                  *)

(* c waits, and the handler works from its parameters. *)
Serving(c) ==
  /\ op[c] \in Transfers
  /\ i2c.slave = ParamsOf(c).slave /\ i2c.register = op[c].register
  /\ i2c.input = ParamsOf(c).input
  /\ Transfer(c)

LEMMA WaitingIsServed ==
  ASSUME NEW c \in Caller, CallInv(c), CleanInv(c), pc[c] = "wait", clean[c]
  PROVE  Serving(c)
  <1>1. SavedBy(c) = 6
    BY DEF SavedBy
  <1> QED
    BY <1>1 DEF CallInv, CleanInv, Serving

(* What Transfer asks for in the state the peripheral goes to. *)
LEMMA TransferNext ==
  ASSUME NEW c \in Caller, Transfer(c), UNCHANGED op, i2c'.output.of = i2c.output.of
  PROVE  /\ stat' = "idle" /\ AtRest(c)' => Transfer(c)'
         /\ stat' \in {"start", "mt_addr_ack"} /\ Addressing(c)' => Transfer(c)'
         /\ stat' = "mt_data_ack" /\ Writing(c)' /\ Reading(c)' => Transfer(c)'
         /\ stat' \in {"repeat_start", "mr_read_ack"} /\ Reading(c)' => Transfer(c)'
         /\ stat' \in {"mr_ack_sent", "mr_nack_sent"} /\ Receiving(c)' => Transfer(c)'
         /\ stat' \in Errors => Transfer(c)'
  <1>0. i2c'.output.of = ParamsOf(c)'.output.of
    BY DEF Transfer, ParamsOf
  <1>1. stat' = "idle" /\ AtRest(c)' => Transfer(c)'
    BY <1>0 DEF Transfer, Addressing, Writing, Reading, Receiving
  <1>2. stat' \in {"start", "mt_addr_ack"} /\ Addressing(c)' => Transfer(c)'
    BY <1>0 DEF Transfer, AtRest, Writing, Reading, Receiving
  <1>3. stat' = "mt_data_ack" /\ Writing(c)' /\ Reading(c)' => Transfer(c)'
    BY <1>0 DEF Transfer, AtRest, Addressing, Receiving
  <1>4. stat' \in {"repeat_start", "mr_read_ack"} /\ Reading(c)' => Transfer(c)'
    BY <1>0 DEF Transfer, AtRest, Addressing, Writing, Receiving
  <1>5. stat' \in {"mr_ack_sent", "mr_nack_sent"} /\ Receiving(c)' => Transfer(c)'
    BY <1>0 DEF Transfer, AtRest, Addressing, Writing, Reading
  <1>6. stat' \in Errors => Transfer(c)'
    BY <1>0 DEF Transfer, AtRest, Addressing, Writing, Reading, Receiving, Errors
  <1> QED
    BY <1>1, <1>2, <1>3, <1>4, <1>5, <1>6

LEMMA ServedStart ==
  ASSUME TypeOK, NEW c \in Caller, Serving(c), IsrStart
  PROVE  Transfer(c)'
  <1>1. /\ UNCHANGED <<op, buffer, signal, i2c, stat, sta, mem, pointer>> /\ si /\ si' = FALSE
        /\ stat \in {"start", "repeat_start"}
    BY DEF IsrStart, callers, driver
  <1>2. CASE stat = "start"
    <2>1. selected' = [address |-> op[c].address, mode |-> "write"]
      BY <1>2 DEF IsrStart, Serving, ParamsOf
    <2>2. Addressing(c)'
      BY <1>1, <1>2, <2>1 DEF Serving, Transfer, Addressing, Fresh, Selects
    <2> QED
      BY <1>1, <1>2, <2>2, TransferNext DEF Serving
  <1>3. CASE stat = "repeat_start"
    <2>1. selected' = [address |-> op[c].address, mode |-> "read"]
      BY <1>3 DEF IsrStart, Serving, ParamsOf
    <2>2. Reading(c)'
      BY <1>1, <1>3, <2>1 DEF Serving, Transfer, Reading, Fresh, Selects, PointsAt
    <2> QED
      BY <1>1, <1>3, <2>2, TransferNext DEF Serving
  <1> QED
    BY <1>1, <1>2, <1>3

LEMMA ServedAddressAck ==
  ASSUME TypeOK, BusInv, NEW c \in Caller, Serving(c), IsrAddressAck
  PROVE  Transfer(c)'
  <1>1. /\ UNCHANGED <<op, buffer, i2c, mem, pointer>> /\ si /\ stat = "mt_addr_ack"
    BY DEF IsrAddressAck, Interrupt, Stop, Continue, callers
  <1>2. Fresh(c) /\ Selects(c, "write")
    BY <1>1 DEF Serving, Transfer, Addressing
  <1>3. op[c].address \in Device
    BY <1>1, <1>2 DEF BusInv, Selects
  <1>4. CASE i2c.remaining = 0
    <2>1. /\ stat' = "idle" /\ sta' = FALSE /\ signal' = TRUE
          /\ op[c].length = 0 /\ buffer[c] = << >>
      BY <1>2, <1>4 DEF IsrAddressAck, Stop, Fresh
    <2>2. Complete(c)'
      BY <1>1, <1>3, <2>1 DEF Complete, Fetched, Stored
    <2> QED
      BY <1>1, <2>1, <2>2, TransferNext DEF Serving, AtRest
  <1>5. CASE i2c.remaining # 0
    <2>1. /\ UNCHANGED <<stat, selected, signal>> /\ si' = FALSE /\ sta' = FALSE
          /\ dat' = i2c.register
      BY <1>5 DEF IsrAddressAck, Continue
    <2>2. i2c.remaining > 0
      BY <1>5, Sizes DEF TypeOK, Parameters
    <2>3. Addressing(c)'
      BY <1>1, <1>2, <2>1, <2>2 DEF Serving, Addressing, Fresh, Selects
    <2> QED
      BY <1>1, <2>1, <2>3, TransferNext DEF Serving
  <1> QED
    BY <1>4, <1>5

(* A length and a count that bound each other are numbers. *)
LEMMA ServedTypes ==
  ASSUME TypeOK, NEW c \in Caller, Serving(c)
  PROVE  /\ i2c \in Parameters /\ i2c.remaining \in Nat /\ i2c.output.next \in Nat \ {0}
         /\ op[c].length \in Nat /\ op[c].mode \in {"read", "write"}
         /\ op[c].data \in Seq(Byte) /\ (op[c].mode = "write" => Len(op[c].data) = op[c].length)
         /\ buffer[c] \in Seq(Byte) /\ Len(buffer[c]) \in Nat
         /\ op[c].register \in Register
  <1>1. buffer[c] \in Seq(Byte) /\ i2c \in Parameters
    BY DEF TypeOK
  <1>2. i2c.remaining \in Nat /\ i2c.output.next \in Nat \ {0}
    BY <1>1, Sizes DEF Parameters
  <1> QED
    BY <1>1, <1>2, TransferType DEF Serving

LEMMA ServedDataAck ==
  ASSUME TypeOK, BusInv, NEW c \in Caller, Serving(c), IsrDataAck
  PROVE  Transfer(c)'
  <1>1. /\ UNCHANGED <<op, buffer, mem, pointer>> /\ si /\ stat = "mt_data_ack"
        /\ i2c.slave.mode = op[c].mode /\ op[c].mode \in {"read", "write"}
        /\ i2c \in Parameters
    BY ServedTypes DEF IsrDataAck, Interrupt, Stop, Continue, callers, Serving, ParamsOf
  <1>2. CASE op[c].mode = "read"
    <2>1. /\ UNCHANGED <<stat, selected, signal, i2c>> /\ si' = FALSE /\ sta' = TRUE
      BY <1>1, <1>2 DEF IsrDataAck, Continue
    <2>2. Fresh(c) /\ i2c.remaining > 0 /\ Selects(c, "write") /\ PointsAt(c, 1)
      BY <1>1, <1>2 DEF Serving, Transfer, Reading
    <2>3. Reading(c)'
      BY <1>1, <2>1, <2>2 DEF Reading, Fresh, Selects, PointsAt
    <2>4. Writing(c)'
      BY <1>1, <1>2 DEF Writing
    <2> QED
      BY <1>1, <2>1, <2>3, <2>4, TransferNext DEF Serving
  <1>3. CASE op[c].mode = "write"
    <2>0. PICK n \in Nat \ {0} : n = i2c.output.next
      BY ServedTypes
    <2>1. /\ i2c.error_code = "none" /\ ~signal /\ ~sta
          /\ Selects(c, "write") /\ i2c.output.of = c
          /\ n + i2c.remaining = op[c].length + 1
          /\ PointsAt(c, n) /\ Stored(c, n - 1)
      BY <1>1, <1>3, <2>0 DEF Serving, Transfer, Writing
    <2>2. n \in Nat \ {0} /\ i2c.remaining \in Nat /\ op[c].length \in Nat
      BY ServedTypes
    <2>3. CASE i2c.remaining = 0
      <3>1. /\ stat' = "idle" /\ sta' = FALSE /\ signal' = TRUE /\ UNCHANGED i2c
        BY <1>1, <1>3, <2>3 DEF IsrDataAck, Stop
      <3>2. op[c].address \in Device
        BY <1>1, <2>1 DEF BusInv, Selects
      <3>3. n - 1 = op[c].length
        BY <2>1, <2>2, <2>3
      <3>4. Stored(c, op[c].length)
        BY <2>1, <3>3
      <3>5. Complete(c)'
        BY <1>1, <1>3, <3>2, <3>4 DEF Complete, Stored
      <3> QED
        BY <1>1, <3>1, <3>5, TransferNext DEF Serving, AtRest
    <2>4. CASE i2c.remaining # 0
      <3>1. PICK b \in Byte : OutputByte(b) /\ dat' = b
        BY <1>1, <1>3, <2>4 DEF IsrDataAck
      <3>2. /\ UNCHANGED <<stat, selected, signal, sta>> /\ si' = FALSE
            /\ i2c' = [i2c EXCEPT !.output.next = @ + 1, !.remaining = @ - 1]
        BY <1>1, <1>3, <2>4 DEF IsrDataAck, Continue
      <3>3. /\ i2c'.error_code = i2c.error_code /\ i2c'.output.of = i2c.output.of
            /\ i2c'.output.next = n + 1 /\ i2c'.remaining = i2c.remaining - 1
        BY <1>1, <2>0, <3>2, SentByte
      <3>4. n \in 1..op[c].length /\ DOMAIN op[c].data = 1..op[c].length
        BY <1>3, <2>1, <2>2, <2>4, ServedTypes
      <3>5. dat' = op[c].data[n]
        BY <2>0, <2>1, <3>1, <3>4 DEF OutputByte
      <3>6. /\ i2c'.output.next - 1 = n
            /\ i2c'.output.next + i2c'.remaining = op[c].length + 1
        BY <2>1, <2>2, <3>3
      <3>7. PointsAt(c, n)' /\ Selects(c, "write")' /\ Stored(c, n - 1)'
        BY <1>1, <2>1, <3>2 DEF PointsAt, Selects, Stored
      <3>8. Writing(c)'
        BY <1>1, <2>1, <2>2, <3>2, <3>3, <3>5, <3>6, <3>7
           DEF Writing, Stored, PointsAt, Selects
      <3>9. Reading(c)'
        BY <1>1, <1>3, <3>2 DEF Reading
      <3> QED
        BY <1>1, <3>2, <3>3, <3>8, <3>9, TransferNext DEF Serving
    <2> QED
      BY <2>3, <2>4
  <1> QED
    BY <1>1, <1>2, <1>3

LEMMA ServedReadAck ==
  ASSUME TypeOK, NEW c \in Caller, Serving(c), IsrReadAck
  PROVE  Transfer(c)'
  <1>1. /\ UNCHANGED <<op, buffer, i2c, mem, pointer, stat, selected, signal>>
        /\ stat = "mr_read_ack" /\ si' = FALSE /\ sta' = FALSE /\ aa' = (i2c.remaining > 1)
    BY DEF IsrReadAck, Interrupt, Continue, callers
  <1>2. Reading(c)
    BY DEF Serving, Transfer
  <1>3. Reading(c)'
    BY <1>1, <1>2 DEF Reading, Fresh, Selects, PointsAt
  <1> QED
    BY <1>1, <1>3, TransferNext DEF Serving

(* The byte in DAT goes to the end of what c has read. *)
LEMMA ServedByte ==
  ASSUME TypeOK, NEW c \in Caller, pc[c] = "wait", Serving(c), StoreByte,
         UNCHANGED <<op, mem>>, si, stat \in {"mr_ack_sent", "mr_nack_sent"}
  PROVE  /\ UNCHANGED stray
         /\ buffer'[c] \in Seq(Byte) /\ Len(buffer'[c]) = Len(buffer[c]) + 1
         /\ Fetched(c)'
  <1>1. /\ op[c].mode = "read" /\ Fetched(c) /\ i2c.remaining >= 1
        /\ Len(buffer[c]) + i2c.remaining = op[c].length
        /\ dat = mem[op[c].address][RegisterAt(op[c], Len(buffer[c]) + 1)]
    BY ServedTypes DEF Serving, Transfer, Receiving
  <1>2. i2c.input = c
    BY <1>1 DEF Serving, ParamsOf
  <1>3. Len(buffer[c]) < op[c].length
    BY <1>1, ServedTypes
  <1>4. buffer' = [buffer EXCEPT ![c] = Append(@, dat)] /\ UNCHANGED stray
    BY <1>2, <1>3 DEF StoreByte
  <1>5. buffer'[c] = Append(buffer[c], dat) /\ buffer[c] \in Seq(Byte) /\ dat \in Byte
    BY <1>4 DEF TypeOK
  <1>6. /\ buffer'[c] \in Seq(Byte) /\ Len(buffer'[c]) = Len(buffer[c]) + 1
        /\ Len(buffer[c]) \in Nat
        /\ \A k \in 1..Len(buffer[c]) : buffer'[c][k] = buffer[c][k]
        /\ buffer'[c][Len(buffer[c]) + 1] = dat
    BY <1>5
  <1>7. Fetched(c)'
    <2>1. SUFFICES ASSUME NEW k \in 1..Len(buffer'[c])
                   PROVE  buffer'[c][k] = mem[op[c].address][RegisterAt(op[c], k)]
      BY DEF Fetched
    <2>2. CASE k \in 1..Len(buffer[c])
      BY <1>1, <1>6, <2>2 DEF Fetched
    <2>3. CASE k = Len(buffer[c]) + 1
      BY <1>1, <1>6, <2>3
    <2> QED
      BY <1>6, <2>1, <2>2, <2>3
  <1> QED
    BY <1>4, <1>6, <1>7

LEMMA ServedAckSent ==
  ASSUME TypeOK, NEW c \in Caller, pc[c] = "wait", Serving(c), IsrAckSent
  PROVE  Transfer(c)' /\ UNCHANGED stray
  <1>1. /\ UNCHANGED <<op, mem, pointer, sta, stat, selected, signal>> /\ si /\ si' = FALSE
        /\ stat = "mr_ack_sent" /\ StoreByte
        /\ i2c' = [i2c EXCEPT !.remaining = (i2c.remaining - 1) % (SizeMax + 1)]
        /\ aa' = (i2c'.remaining # 1)
    BY DEF IsrAckSent, Continue
  <1>2. PICK n \in Nat : n = Len(buffer[c])
    BY ServedTypes
  <1>3. /\ i2c.error_code = "none" /\ ~signal /\ ~sta
        /\ op[c].mode = "read" /\ Selects(c, "read") /\ op[c].address \in Device
        /\ n + i2c.remaining = op[c].length /\ i2c.remaining >= 2
        /\ PointsAt(c, n + 1 + 1)
    BY <1>1, <1>2 DEF Serving, Transfer, Receiving
  <1>4. /\ i2c'.error_code = i2c.error_code /\ i2c'.output = i2c.output
        /\ i2c'.remaining = i2c.remaining - 1
    <2>1. i2c.remaining >= 1 /\ i2c \in Parameters
      BY <1>3, ServedTypes
    <2> QED
      BY <1>1, <2>1, CountDown DEF Parameters
  <1>5. UNCHANGED stray /\ Len(buffer'[c]) = n + 1 /\ Fetched(c)'
    BY <1>1, <1>2, ServedByte
  <1>6. Len(buffer'[c]) + i2c'.remaining = op[c].length /\ i2c'.remaining >= 1
    BY <1>3, <1>4, <1>5, ServedTypes
  <1>7. PointsAt(c, n + 1 + 1)' /\ Selects(c, "read")'
    BY <1>1, <1>3 DEF PointsAt, Selects
  <1>8. Receiving(c)'
    BY <1>1, <1>3, <1>4, <1>5, <1>6, <1>7 DEF Receiving, PointsAt, Selects
  <1> QED
    BY <1>1, <1>4, <1>5, <1>8, TransferNext DEF Serving

LEMMA ServedNackSent ==
  ASSUME TypeOK, NEW c \in Caller, pc[c] = "wait", Serving(c), IsrNackSent
  PROVE  Transfer(c)' /\ UNCHANGED stray
  <1>1. /\ UNCHANGED <<op, mem, pointer>> /\ si
        /\ stat = "mr_nack_sent" /\ stat' = "idle" /\ sta' = FALSE /\ signal' = TRUE
        /\ StoreByte /\ i2c' = [i2c EXCEPT !.remaining = 0]
    BY DEF IsrNackSent, Stop
  <1>2. /\ op[c].mode = "read" /\ op[c].address \in Device
        /\ Len(buffer[c]) + i2c.remaining = op[c].length /\ i2c.remaining = 1
    BY <1>1 DEF Serving, Transfer, Receiving
  <1>3. UNCHANGED stray /\ Len(buffer'[c]) = Len(buffer[c]) + 1 /\ Fetched(c)'
    BY <1>1, ServedByte
  <1>4. Complete(c)'
    BY <1>1, <1>2, <1>3 DEF Complete
  <1>5. i2c'.output = i2c.output
    BY <1>1, ServedTypes DEF Parameters
  <1> QED
    BY <1>1, <1>3, <1>4, <1>5, TransferNext DEF Serving, AtRest

LEMMA ServedError ==
  ASSUME TypeOK, NEW c \in Caller, Serving(c), IsrArbitrationLost \/ IsrError
  PROVE  Transfer(c)'
  <1>1. UNCHANGED op /\ i2c' = [i2c EXCEPT !.error_code = stat] /\ stat \in Errors
    BY DEF IsrArbitrationLost, IsrError, Interrupt, callers, Errors
  <1>2. i2c'.output = i2c.output /\ i2c'.error_code # "none"
    BY <1>1, ServedTypes DEF Parameters, Errors
  <1>3. CASE IsrArbitrationLost
    <2>1. stat' \in Errors
      BY <1>1, <1>3 DEF IsrArbitrationLost, hardware
    <2> QED
      BY <1>1, <1>2, <2>1, TransferNext DEF Serving
  <1>4. CASE IsrError
    <2>1. stat' = "idle" /\ sta' = FALSE /\ signal' = TRUE
      BY <1>4 DEF IsrError, Stop
    <2> QED
      BY <1>1, <1>2, <2>1, TransferNext DEF Serving, AtRest
  <1> QED
    BY <1>3, <1>4

LEMMA ServedByHandler ==
  ASSUME TypeOK, BusInv, NEW c \in Caller, pc[c] = "wait", Serving(c), Isr
  PROVE  Transfer(c)' /\ UNCHANGED stray
  <1>1. CASE IsrStart \/ IsrAddressAck \/ IsrDataAck \/ IsrReadAck
             \/ IsrArbitrationLost \/ IsrError
    <2>1. UNCHANGED stray
      BY <1>1 DEF IsrStart, IsrAddressAck, IsrDataAck, IsrReadAck,
                  IsrArbitrationLost, IsrError
    <2> QED
      BY <1>1, <2>1, ServedStart, ServedAddressAck, ServedDataAck, ServedReadAck, ServedError
  <1> QED
    BY <1>1, ServedAckSent, ServedNackSent DEF Isr

(* A START goes out: of a new transfer, or again before the bytes are read. *)
LEMMA ServedHwStart ==
  ASSUME TypeOK, BusInv, NEW c \in Caller, Serving(c), HwStart
  PROVE  Transfer(c)'
  <1>1. /\ UNCHANGED <<op, buffer, signal, i2c, selected, sta, mem, pointer>>
        /\ sta /\ ~si /\ si' = TRUE
        /\ \/ stat = "idle" /\ stat' = "start"
           \/ stat \in {"mt_addr_ack", "mt_data_ack"} /\ stat' = "repeat_start"
    BY DEF HwStart, Hardware, callers, driver
  <1>2. CASE stat = "idle"
    <2>1. Fresh(c)
      BY <1>1, <1>2 DEF Serving, Transfer, AtRest
    <2>2. Addressing(c)'
      BY <1>1, <1>2, <2>1 DEF Addressing, Fresh
    <2> QED
      BY <1>1, <1>2, <2>2, TransferNext DEF Serving
  <1>3. CASE stat \in {"mt_addr_ack", "mt_data_ack"}
    <2>1. stat = "mt_data_ack" /\ op[c].mode = "read"
      BY <1>1, <1>3, ServedTypes DEF Serving, Transfer, Addressing, Writing
    <2>2. /\ Fresh(c) /\ i2c.remaining > 0 /\ PointsAt(c, 1) /\ op[c].address \in Device
      BY <2>1 DEF Serving, Transfer, Reading, BusInv, Selects
    <2>3. Reading(c)'
      BY <1>1, <1>3, <2>1, <2>2 DEF Reading, Fresh, PointsAt
    <2> QED
      BY <1>1, <1>3, <2>3, TransferNext DEF Serving
  <1> QED
    BY <1>1, <1>2, <1>3

LEMMA ServedHwAddress ==
  ASSUME TypeOK, NEW c \in Caller, Serving(c), HwAddress
  PROVE  Transfer(c)'
  <1>1. /\ UNCHANGED <<op, buffer, signal, i2c, selected, sta, mem, pointer>>
        /\ ~si /\ si' = TRUE /\ stat \in {"start", "repeat_start"}
    BY DEF HwAddress, Hardware, callers, driver
  <1>2. CASE stat' \in Errors
    BY <1>1, <1>2, TransferNext DEF Serving
  <1>3. CASE stat = "start" /\ stat' \notin Errors
    <2>1. Fresh(c) /\ Selects(c, "write")
      BY <1>1, <1>3 DEF Serving, Transfer, Addressing
    <2>2. stat' = "mt_addr_ack"
      BY <1>3, <2>1 DEF HwAddress, Hardware, Selects, Errors
    <2>3. Addressing(c)'
      BY <1>1, <2>1, <2>2 DEF Addressing, Fresh, Selects
    <2> QED
      BY <1>1, <2>2, <2>3, TransferNext DEF Serving
  <1>4. CASE stat = "repeat_start" /\ stat' \notin Errors
    <2>1. /\ op[c].mode = "read" /\ Fresh(c) /\ Selects(c, "read")
          /\ i2c.remaining > 0 /\ PointsAt(c, 1)
      BY <1>1, <1>4 DEF Serving, Transfer, Reading
    <2>2. stat' = "mr_read_ack"
      BY <1>4, <2>1 DEF HwAddress, Hardware, Selects, Errors
    <2>3. Reading(c)'
      BY <1>1, <2>1, <2>2 DEF Reading, Fresh, Selects, PointsAt
    <2> QED
      BY <1>1, <2>2, <2>3, TransferNext DEF Serving
  <1> QED
    BY <1>1, <1>2, <1>3, <1>4

(* The register goes out first, then the bytes that are written. *)
LEMMA ServedHwSend ==
  ASSUME TypeOK, BusInv, NEW c \in Caller, Serving(c), HwSend
  PROVE  Transfer(c)'
  <1>1. /\ UNCHANGED <<op, buffer, signal, i2c, selected, sta, dat>>
        /\ ~si /\ si' = TRUE /\ ~sta /\ stat \in {"mt_addr_ack", "mt_data_ack"}
    BY DEF HwSend, Hardware, callers, driver
  <1> DEFINE d == selected.address
  <1>2. d \in Device /\ mem \in [Device -> [Register -> Byte]]
        /\ pointer \in [Device -> Register]
    BY <1>1 DEF BusInv, TypeOK
  <1>3. CASE stat' \in Errors
    BY <1>1, <1>3, TransferNext DEF Serving
  <1>4. CASE stat = "mt_addr_ack" /\ stat' \notin Errors
    <2>1. /\ Fresh(c) /\ Selects(c, "write") /\ i2c.remaining > 0 /\ dat = op[c].register
      BY <1>1, <1>4 DEF Serving, Transfer, Addressing
    <2>2. stat' = "mt_data_ack" /\ UNCHANGED mem /\ pointer' = [pointer EXCEPT ![d] = dat]
      BY <1>4 DEF HwSend, Hardware, Errors
    <2>3. PointsAt(c, 1)' /\ Selects(c, "write")'
      <3>1. RegisterAt(op[c], 1) = dat
        BY <2>1, RegisterAtFirst DEF Serving
      <3>2. op[c].address = d
        BY <2>1 DEF Selects
      <3> QED
        BY <1>1, <1>2, <2>1, <2>2, <3>1, <3>2 DEF PointsAt, Selects
    <2>4. op[c].mode = "read" => Reading(c)'
      BY <1>1, <2>1, <2>2, <2>3 DEF Reading, Fresh
    <2>5. op[c].mode = "write" => Writing(c)'
      <3>1. SUFFICES ASSUME op[c].mode = "write" PROVE Writing(c)'
        OBVIOUS
      <3>2. i2c.output.of = c
        BY <3>1 DEF Serving, Transfer, ParamsOf
      <3>3. i2c'.output.next = 1 /\ i2c'.output.next + i2c'.remaining = op[c].length + 1
        BY <1>1, <2>1, ServedTypes DEF Fresh
      <3>4. Stored(c, 1 - 1)'
        BY DEF Stored
      <3> QED
        BY <1>1, <2>1, <2>2, <2>3, <3>2, <3>3, <3>4 DEF Writing, Fresh, Stored, PointsAt
    <2>6. Reading(c)' /\ Writing(c)'
      <3>1. op[c].mode \in {"read", "write"}
        BY ServedTypes
      <3> QED
        BY <1>1, <2>2, <2>4, <2>5, <3>1 DEF Reading, Writing
    <2> QED
      BY <1>1, <2>2, <2>6, TransferNext DEF Serving
  <1>5. CASE stat = "mt_data_ack" /\ stat' \notin Errors
    <2>0. PICK n \in Nat : n = i2c.output.next - 1
      BY ServedTypes
    <2>1. /\ op[c].mode = "write"
          /\ i2c.error_code = "none" /\ ~signal
          /\ Selects(c, "write") /\ i2c.output.of = c
          /\ i2c.output.next + i2c.remaining = op[c].length + 1
          /\ n >= 1 /\ PointsAt(c, n) /\ Stored(c, n - 1) /\ dat = op[c].data[n]
      <3>1. op[c].mode = "write"
        BY <1>1, <1>5, ServedTypes DEF Serving, Transfer, Reading
      <3> QED
        BY <1>1, <1>5, <2>0, <3>1 DEF Serving, Transfer, Writing
    <2>2. /\ stat' = "mt_data_ack"
          /\ mem' = [mem EXCEPT ![d][pointer[d]] = dat]
          /\ pointer' = [pointer EXCEPT ![d] = NextRegister(@)]
      BY <1>5 DEF HwSend, Hardware, Errors
    <2>3. op[c].address = d /\ op[c] \in Transfers /\ n \in Nat /\ n >= 1
      BY <2>1 DEF Selects, Serving
    <2>4. pointer[d] = RegisterAt(op[c], n) /\ RegisterAt(op[c], n) \in Register
          /\ NextRegister(pointer[d]) = RegisterAt(op[c], n + 1)
      BY <2>1, <2>3, RegisterAtSteps DEF PointsAt
    <2>5. PointsAt(c, n + 1)' /\ Selects(c, "write")'
      BY <1>1, <1>2, <2>1, <2>2, <2>3, <2>4 DEF PointsAt, Selects
    <2>6. Stored(c, n)'
      <3> HIDE DEF d
      <3>1. /\ mem'[d][RegisterAt(op[c], n)] = dat
            /\ \A r \in Register : r # RegisterAt(op[c], n) => mem'[d][r] = mem[d][r]
        BY <1>2, <2>2, <2>4
      <3>2. SUFFICES ASSUME NEW k \in 1..n, LastAt(k, n)
                     PROVE  mem'[d][RegisterAt(op[c], k)] = op[c].data[k]
        BY <1>1, <2>3 DEF Stored
      <3>3. CASE k = n
        BY <2>1, <3>1, <3>3
      <3>4. CASE k # n
        <4>1. k \in Nat /\ k >= 1 /\ k < n /\ k \in 1..(n - 1)
          BY <2>3, <3>4
        <4>2. LastAt(k, n - 1)
          BY <2>3, <3>2, <4>1, Sizes DEF LastAt
        <4>3. RegisterAt(op[c], k) # RegisterAt(op[c], n) /\ RegisterAt(op[c], k) \in Register
          BY <2>3, <3>2, <4>1, RegisterAtDiffers, RegisterAtSteps
        <4>4. mem[d][RegisterAt(op[c], k)] = op[c].data[k]
          BY <2>1, <2>3, <4>1, <4>2 DEF Stored
        <4> QED
          BY <3>1, <4>3, <4>4
      <3> QED
        BY <3>3, <3>4
    <2>7. i2c'.output.next = n + 1 /\ n + 1 - 1 = n
      BY <1>1, <2>0, ServedTypes
    <2>8. Writing(c)'
      BY <1>1, <2>1, <2>2, <2>3, <2>5, <2>6, <2>7 DEF Writing, Stored, PointsAt, Selects
    <2>9. Reading(c)'
      BY <1>1, <2>1, <2>2 DEF Reading
    <2> QED
      BY <1>1, <2>2, <2>8, <2>9, TransferNext DEF Serving
  <1> QED
    BY <1>1, <1>3, <1>4, <1>5

(* A byte comes in from the register the device points at. *)
LEMMA ServedHwReceive ==
  ASSUME TypeOK, BusInv, NEW c \in Caller, Serving(c), HwReceive
  PROVE  Transfer(c)'
  <1> DEFINE d == selected.address
  <1>1. /\ UNCHANGED <<op, buffer, signal, i2c, selected, sta, aa, mem>>
        /\ ~si /\ si' = TRUE /\ stat \in {"mr_read_ack", "mr_ack_sent"}
        /\ stat' = IF aa THEN "mr_ack_sent" ELSE "mr_nack_sent"
        /\ dat' = mem[d][pointer[d]]
        /\ pointer' = [pointer EXCEPT ![d] = NextRegister(@)]
    BY DEF HwReceive, Hardware, callers, driver
  <1>2. d \in Device /\ pointer \in [Device -> Register]
    BY <1>1 DEF BusInv, TypeOK
  <1>3. PICK n \in Nat : n = Len(buffer[c]) + 1
    BY ServedTypes
  <1>4. /\ i2c.error_code = "none" /\ ~signal /\ ~sta
        /\ op[c].mode = "read" /\ Selects(c, "read")
        /\ Len(buffer[c]) + i2c.remaining = op[c].length /\ Fetched(c)
        /\ PointsAt(c, n) /\ i2c.remaining >= 1 /\ aa = (i2c.remaining # 1)
    <2>1. CASE stat = "mr_read_ack"
      <3>1. /\ op[c].mode = "read" /\ Selects(c, "read")
            /\ Fresh(c) /\ i2c.remaining > 0 /\ PointsAt(c, 1)
            /\ ~sta /\ aa = (i2c.remaining > 1)
        BY <1>1, <2>1 DEF Serving, Transfer, Reading
      <3>2. buffer[c] = << >> /\ Len(buffer[c]) = 0 /\ n = 1
        BY <1>3, <3>1 DEF Fresh
      <3>3. Fetched(c)
        BY <3>2 DEF Fetched
      <3>4. (i2c.remaining > 1) = (i2c.remaining # 1) /\ i2c.remaining >= 1
        BY <3>1, ServedTypes
      <3> QED
        BY <3>1, <3>2, <3>3, <3>4, ServedTypes DEF Fresh
    <2>2. CASE stat = "mr_ack_sent"
      BY <1>1, <1>3, <2>2, ServedTypes DEF Serving, Transfer, Receiving
    <2> QED
      BY <1>1, <2>1, <2>2
  <1>5. op[c].address = d /\ op[c] \in Transfers /\ n \in Nat /\ n >= 1
    BY <1>3, <1>4, ServedTypes DEF Selects, Serving
  <1>6. pointer[d] = RegisterAt(op[c], n) /\ NextRegister(pointer[d]) = RegisterAt(op[c], n + 1)
    BY <1>4, <1>5, RegisterAtSteps DEF PointsAt
  <1>7. /\ dat' = mem'[op'[c].address][RegisterAt(op'[c], n)] /\ PointsAt(c, n + 1)'
        /\ Fetched(c)' /\ Selects(c, "read")'
    BY <1>1, <1>2, <1>4, <1>5, <1>6 DEF PointsAt, Fetched, Selects
  <1>8. stat' = "mr_ack_sent" => i2c.remaining >= 2
    <2>1. stat' = "mr_ack_sent" => i2c.remaining # 1
      BY <1>1, <1>4
    <2>2. i2c.remaining \in Nat /\ i2c.remaining >= 1
      BY <1>4, ServedTypes
    <2> QED
      BY <2>1, <2>2
  <1>9. stat' = "mr_nack_sent" => i2c.remaining = 1
    BY <1>1, <1>4
  <1>10. Receiving(c)'
    BY <1>1, <1>2, <1>3, <1>4, <1>5, <1>7, <1>8, <1>9 DEF Receiving, PointsAt
  <1> QED
    BY <1>1, <1>10, TransferNext DEF Serving

LEMMA ServedByBus ==
  ASSUME TypeOK, BusInv, NEW c \in Caller, Serving(c), Bus
  PROVE  Transfer(c)'
  <1>1. CASE HwDisturbed
    <2>1. UNCHANGED <<op, i2c>> /\ stat' \in Errors
      BY <1>1 DEF HwDisturbed, Hardware, callers, driver, Errors
    <2> QED
      BY <2>1, TransferNext DEF Serving
  <1> QED
    BY <1>1, ServedHwStart, ServedHwAddress, ServedHwSend, ServedHwReceive DEF Bus

-----------------------------------------------------------------------------
(* A call that found the bus idle, from its first parameter to its result *)

(* While c is in kick_off_transfer or waits, the others can only make calls. *)
LEMMA OthersOnlyCall ==
  ASSUME TypeOK, MutexInv, NEW b \in Caller, NEW c \in Caller, b # c,
         Call(c) \/ CallerStep(c), pc[b] \in {"clear", "kick", "wait", "give"}
  PROVE  /\ UNCHANGED <<pc[b], op[b], buffer[b], status[b], clean[b]>>
         /\ UNCHANGED <<driver, hardware>>
  <1>1. mutex = b /\ pc[c] \notin {"clear", "kick", "wait", "give"} /\ b # NoCaller
    BY Sizes DEF MutexInv
  <1>2. Call(c)
    BY <1>1 DEF CallerStep, TakeMutex, ClearSignal, SaveParam, SetStart, TakeSignal,
                Timeout, GiveMutex, Task
  <1>3. PICK t \in Transfers : op' = [op EXCEPT ![c] = t]
    BY <1>2 DEF Call
  <1> QED
    BY <1>2, <1>3 DEF Call, Task, TypeOK

LEMMA PreparationStep ==
  ASSUME TypeOK, NEW c \in Caller, CallInv(c), Preparation(c), SaveParam(c)
  PROVE  Preparation(c)'
  <1>1. /\ UNCHANGED <<op, buffer, signal, stat, sta>> /\ i2c \in Parameters
        /\ kicked \in 0..5 /\ kicked' = kicked + 1 /\ ParamsOf(c)' = ParamsOf(c)
    BY SaveParamCases DEF SaveParam, hardware, TypeOK, ParamsOf
  <1>2. kicked \in 0..Len(Params)
    BY DEF TypeOK
  <1>3. i2c'.error_code = "none"
    <2>1. CASE kicked = 0
      BY <1>1, <1>2, <2>1, SaveParamCases DEF Parameters
    <2>2. CASE kicked # 0
      <3>1. i2c'.error_code = i2c.error_code
        BY <1>1, <1>2, <2>2, SaveParamCases DEF Parameters
      <3> QED
        BY <1>1, <2>2, <3>1 DEF Preparation
    <2> QED
      BY <2>1, <2>2
  <1>4. kicked >= 4 => i2c'.output = ParamsOf(c).output
    <2>1. CASE kicked = 4
      BY <1>1, <1>2, <2>1, SaveParamCases DEF Parameters
    <2>2. CASE kicked = 5
      <3>1. i2c'.output = i2c.output
        BY <1>1, <1>2, <2>2, SaveParamCases DEF Parameters
      <3> QED
        BY <2>2, <3>1 DEF Preparation
    <2> QED
      BY <1>1, <2>1, <2>2
  <1>5. kicked >= 5 => i2c'.remaining = op[c].length
    <2>1. CASE kicked = 5
      BY <1>1, <1>2, <2>1, SaveParamCases DEF Parameters
    <2> QED
      BY <1>1, <2>1
  <1> QED
    BY <1>1, <1>3, <1>4, <1>5 DEF Preparation

LEMMA StartStep ==
  ASSUME TypeOK, NEW c \in Caller, CallInv(c), Preparation(c), SetStart(c)
  PROVE  Transfer(c)'
  <1>1. /\ UNCHANGED <<op, buffer, signal, i2c, stat>> /\ sta' = TRUE /\ kicked = 6
        /\ stat = "idle" /\ ParamsOf(c)' = ParamsOf(c)
    BY DEF SetStart, Params, Preparation, ParamsOf
  <1>2. /\ i2c.error_code = "none" /\ ~signal /\ buffer[c] = << >>
        /\ i2c.output = ParamsOf(c).output /\ i2c.remaining = op[c].length
    BY <1>1 DEF Preparation
  <1>3. i2c.output.next = 1
    BY <1>2 DEF ParamsOf
  <1>4. Fresh(c)'
    BY <1>1, <1>2, <1>3 DEF Fresh
  <1> QED
    BY <1>1, <1>2, <1>4 DEF Transfer, AtRest, Addressing, Writing, Reading, Receiving

LEMMA CleanCaller ==
  ASSUME TypeOK, MutexInv, NEW b \in Caller, CallInv(b), CleanInv(b), NEW c \in Caller,
         Call(c) \/ CallerStep(c)
  PROVE  CleanInv(b)'
  <1>1. /\ pc \in [Caller -> {"idle", "take", "clear", "kick", "wait", "give"}]
        /\ clean \in [Caller -> BOOLEAN]
    BY DEF TypeOK
  <1>2. CASE b # c
    <2>1. CASE pc[b] \in {"kick", "wait"}
      <3>1. /\ UNCHANGED <<pc[b], op[b], buffer[b], clean[b]>>
            /\ UNCHANGED <<signal, i2c, kicked, stat, si, sta, aa, dat, selected, mem, pointer>>
        BY <1>2, <2>1, OthersOnlyCall DEF driver, hardware
      <3>2. ParamsOf(b)' = ParamsOf(b)
        BY <3>1 DEF ParamsOf
      <3>3. Preparation(b) => Preparation(b)'
        BY <3>1, <3>2 DEF Preparation
      <3>4. Transfer(b) => Transfer(b)'
        BY <3>1, <3>2
           DEF Transfer, AtRest, Addressing, Writing, Reading, Receiving, Complete, Fetched,
               Stored, Fresh, Selects, PointsAt
      <3> QED
        BY <3>1, <3>3, <3>4 DEF CleanInv
    <2>2. CASE pc[b] \notin {"kick", "wait"}
      <3>1. pc'[b] = pc[b]
        BY <1>1, <1>2 DEF Call, CallerStep, TakeMutex, ClearSignal, SaveParam, SetStart,
                          TakeSignal, Timeout, GiveMutex, Task
      <3> QED
        BY <2>2, <3>1 DEF CleanInv
    <2> QED
      BY <2>1, <2>2
  <1>3. CASE b = c
    <2>1. CASE ClearSignal(c)
      <3>1. /\ pc' = [pc EXCEPT ![c] = "kick"] /\ signal' = FALSE /\ buffer[c] = << >>
            /\ clean' = [clean EXCEPT ![c] = ~Busy] /\ UNCHANGED <<buffer, kicked, stat, sta>>
            /\ pc[c] = "clear"
        BY <1>3, <2>1 DEF ClearSignal, Task, CallInv, hardware
      <3>2. kicked = 0
        BY <3>1 DEF MutexInv
      <3>3. pc'[c] = "kick" /\ clean'[c] = ~Busy
        BY <1>1, <3>1
      <3>4. clean'[c] => Preparation(c)'
        <4>1. clean'[c] => ~Busy
          BY <3>3, Zenon
        <4>2. clean'[c] => stat = "idle" /\ ~sta
          BY <4>1 DEF Busy
        <4> QED
          BY <3>1, <3>2, <4>2 DEF Preparation
      <3> QED
        BY <1>3, <3>3, <3>4 DEF CleanInv
    <2>2. CASE SaveParam(c)
      <3>1. UNCHANGED <<pc, clean>> /\ pc[c] = "kick"
        BY <1>1, <2>2 DEF SaveParam, Task
      <3> QED
        BY <1>3, <2>2, <3>1, PreparationStep DEF CleanInv
    <2>3. CASE SetStart(c)
      <3>1. pc'[c] = "wait" /\ pc[c] = "kick" /\ UNCHANGED clean
        BY <1>1, <2>3 DEF SetStart, Task
      <3> QED
        BY <1>3, <2>3, <3>1, StartStep DEF CleanInv
    <2>4. CASE Call(c) \/ TakeMutex(c) \/ TakeSignal(c) \/ Timeout(c) \/ GiveMutex(c)
      <3>1. pc'[c] \in {"take", "clear", "give", "idle"}
        BY <1>1, <2>4 DEF Call, TakeMutex, TakeSignal, Timeout, GiveMutex, Task
      <3> QED
        BY <1>3, <3>1 DEF CleanInv
    <2> QED
      BY <2>1, <2>2, <2>3, <2>4 DEF CallerStep
  <1> QED
    BY <1>2, <1>3

LEMMA CleanDriver ==
  ASSUME TypeOK, BusInv, NEW c \in Caller, CallInv(c), CleanInv(c), Isr \/ Bus
  PROVE  CleanInv(c)'
  <1>1. UNCHANGED <<pc, clean>>
    BY IsrKeeps, BusKeeps DEF callers
  <1>2. CASE clean[c] /\ pc[c] = "kick"
    <2>1. stat = "idle" /\ ~sta /\ ~si
      BY <1>2 DEF CleanInv, Preparation, BusInv
    <2> QED
      BY <2>1, IsrKeeps, BusKeeps
  <1>3. CASE clean[c] /\ pc[c] = "wait"
    <2>1. Transfer(c)'
      BY <1>3, WaitingIsServed, ServedByHandler, ServedByBus
    <2> QED
      BY <1>1, <1>3, <2>1 DEF CleanInv
  <1> QED
    BY <1>1, <1>2, <1>3 DEF CleanInv

(* The signal of a transfer means that it is over. *)
LEMMA SignalEnds ==
  ASSUME TypeOK, BusInv, NEW c \in Caller, Serving(c), signal, ~si
  PROVE  ~Busy /\ (i2c.error_code = "none" => Complete(c))
  <1>1. stat \in Stats /\ stat \notin Errors
    BY DEF BusInv, TypeOK
  <1>2. Transfer(c) /\ op[c].mode \in {"read", "write"}
    BY ServedTypes DEF Serving
  <1>3. stat \notin {"start", "mt_addr_ack"}
    BY <1>2 DEF Transfer, Addressing, Fresh
  <1>4. stat # "mt_data_ack"
    BY <1>2 DEF Transfer, Writing, Reading, Fresh
  <1>5. stat \notin {"repeat_start", "mr_read_ack"}
    BY <1>2 DEF Transfer, Reading, Fresh
  <1>6. stat \notin {"mr_ack_sent", "mr_nack_sent"}
    BY <1>2 DEF Transfer, Receiving
  <1>7. stat = "idle"
    BY <1>1, <1>3, <1>4, <1>5, <1>6 DEF Stats
  <1> QED
    BY <1>2, <1>7 DEF Transfer, AtRest, Fresh, Busy

LEMMA ResultCaller ==
  ASSUME TypeOK, MutexInv, BusInv, NEW b \in Caller, CallInv(b), CleanInv(b), Result(b),
         NEW c \in Caller, Call(c) \/ CallerStep(c)
  PROVE  Result(b)'
  <1>1. /\ pc \in [Caller -> {"idle", "take", "clear", "kick", "wait", "give"}]
        /\ clean \in [Caller -> BOOLEAN] /\ status \in [Caller -> BOOLEAN]
    BY DEF TypeOK
  <1>2. CASE b # c
    <2>1. pc'[b] = pc[b]
      BY <1>1, <1>2 DEF Call, CallerStep, TakeMutex, ClearSignal, SaveParam, SetStart,
                        TakeSignal, Timeout, GiveMutex, Task
    <2>2. CASE pc[b] = "give"
      <3>1. /\ UNCHANGED <<pc[b], op[b], buffer[b], status[b], clean[b]>>
            /\ UNCHANGED <<stat, sta, mem, i2c>>
        BY <1>2, <2>2, OthersOnlyCall DEF hardware, driver
      <3> QED
        BY <3>1 DEF Result, Complete, Fetched, Stored, Busy
    <2> QED
      BY <2>1, <2>2 DEF Result
  <1>3. CASE b = c
    <2>1. CASE TakeSignal(c)
      <3>1. /\ pc[c] = "wait" /\ signal /\ ~si /\ UNCHANGED <<op, buffer, clean, i2c, stat, sta, mem>>
            /\ status'[c] = IsZero(i2c.error_code)
        BY <1>1, <2>1 DEF TakeSignal, Task, hardware
      <3>2. clean[c] => Serving(c)
        BY <1>3, <3>1, WaitingIsServed
      <3>3. clean[c] /\ status'[c] =>
              ~Busy /\ (i2c.error_code = "bus_error" \/ Complete(c))
        BY <3>1, <3>2, SignalEnds DEF IsZero
      <3> QED
        BY <1>3, <3>1, <3>3 DEF Result, Complete, Fetched, Stored, Busy
    <2>2. CASE Timeout(c)
      <3>1. ~status'[c]
        BY <1>1, <1>3, <2>2 DEF Timeout, Task, CallInv
      <3> QED
        BY <1>3, <3>1 DEF Result
    <2>3. CASE ~TakeSignal(c) /\ ~Timeout(c)
      <3>1. pc'[c] # "give"
        BY <1>1, <2>3 DEF Call, CallerStep, TakeMutex, ClearSignal, SaveParam, SetStart,
                          GiveMutex, Task
      <3> QED
        BY <1>3, <3>1 DEF Result
    <2> QED
      BY <2>1, <2>2, <2>3
  <1> QED
    BY <1>2, <1>3

LEMMA ResultDriver ==
  ASSUME TypeOK, BusInv, NEW c \in Caller, Result(c), Isr \/ Bus
  PROVE  Result(c)'
  <1>1. UNCHANGED <<pc, status, clean>>
    BY IsrKeeps, BusKeeps DEF callers
  <1>2. Busy
    BY IsrKeeps, BusKeeps DEF BusInv, Busy
  <1> QED
    BY <1>1, <1>2 DEF Result

-----------------------------------------------------------------------------
(* The theorems *)

LEMMA InitInv == Init => DriverInv
  <1> SUFFICES ASSUME Init PROVE DriverInv
    OBVIOUS
  <1>1. TypeOK
    BY InitType
  <1>2. /\ \A c \in Caller : pc[c] = "idle" /\ buffer[c] = << >> /\ ~status[c]
        /\ mutex = NoCaller /\ kicked = 0 /\ stat = "idle" /\ ~si /\ ~sta
        /\ i2c.output.next = 1 /\ i2c.remaining = 0
    BY DEF Init
  <1>3. MutexInv /\ BusInv /\ RoomInv
    BY <1>2, Sizes DEF MutexInv, BusInv, RoomInv, Errors
  <1>4. OutputInv
    <2>1. OutputBound = 2 * MaxBytes + 1
      BY <1>2 DEF OutputBound
    <2>2. i2c.output.next <= OutputBound
      BY <1>2, <2>1, Sizes
    <2> QED
      BY <1>2, <2>2 DEF OutputInv, MayWrite
  <1>5. \A c \in Caller : CallInv(c) /\ CleanInv(c) /\ Result(c)
    <2> SUFFICES ASSUME NEW c \in Caller PROVE CallInv(c) /\ CleanInv(c) /\ Result(c)
      OBVIOUS
    <2>1. SavedBy(c) = 0 /\ pc[c] = "idle" /\ buffer[c] = << >> /\ ~status[c]
      BY <1>2 DEF SavedBy
    <2>2. CallInv(c)
      BY <2>1 DEF CallInv
    <2>3. CleanInv(c) /\ Result(c)
      BY <2>1 DEF CleanInv, Result
    <2> QED
      BY <2>2, <2>3
  <1> QED
    BY <1>1, <1>3, <1>4, <1>5 DEF DriverInv

LEMMA StutterInv ==
  ASSUME DriverInv, UNCHANGED vars
  PROVE  DriverInv'
  <1>1. /\ UNCHANGED <<pc, op, buffer, status, clean, mutex, signal, i2c, kicked>>
        /\ UNCHANGED <<stat, si, sta, aa, dat, selected, mem, pointer, stray>>
    BY DEF vars, callers, driver, hardware
  <1>2. \A c \in Caller : ParamsOf(c)' = ParamsOf(c) /\ SavedBy(c)' = SavedBy(c)
    BY <1>1 DEF ParamsOf, SavedBy
  <1>3. TypeOK'
    BY <1>1 DEF DriverInv, TypeOK
  <1>4. \A c \in Caller : Complete(c)' = Complete(c)
    BY <1>1 DEF Complete, Fetched, Stored
  <1>5. \A c \in Caller : Result(c)'
    BY <1>1, <1>4 DEF DriverInv, Result, Busy
  <1>6. MutexInv /\ BusInv /\ OutputInv /\ RoomInv =>
          MutexInv' /\ BusInv' /\ OutputInv' /\ RoomInv'
    BY <1>1 DEF MutexInv, BusInv, OutputInv, OutputBound, MayWrite, RoomInv
  <1>7. \A c \in Caller : CallInv(c) => CallInv(c)'
    BY <1>1, <1>2 DEF CallInv
  <1>8. \A c \in Caller : Transfer(c) => Transfer(c)'
    BY <1>1, <1>2, <1>4
       DEF Transfer, AtRest, Addressing, Writing, Reading, Receiving, Fetched, Stored,
           Fresh, Selects, PointsAt
  <1>9. \A c \in Caller : Preparation(c) => Preparation(c)'
    BY <1>1, <1>2 DEF Preparation
  <1>10. \A c \in Caller : CleanInv(c) => CleanInv(c)'
    BY <1>1, <1>8, <1>9 DEF CleanInv
  <1> QED
    BY <1>1, <1>3, <1>5, <1>6, <1>7, <1>10 DEF DriverInv

LEMMA StepInv ==
  ASSUME DriverInv, [Next]_vars
  PROVE  DriverInv'
  <1>1. TypeOK /\ \A c \in Caller : Result(c)
    BY DEF DriverInv
  <1>2. CASE UNCHANGED vars \/ Undefined
    BY <1>2, StutterInv DEF Undefined
  <1>3. ASSUME ~stray
        PROVE  /\ MutexInv /\ BusInv /\ OutputInv /\ RoomInv
               /\ \A c \in Caller : CallInv(c) /\ CleanInv(c)
    BY <1>3 DEF DriverInv
  <1>4. ASSUME NEW c \in Caller, Call(c) \/ CallerStep(c)
        PROVE  DriverInv'
    <2>1. ~stray
      BY <1>4, CallerKeeps
    <2>2. /\ MutexInv /\ BusInv /\ OutputInv /\ RoomInv
          /\ \A b \in Caller : CallInv(b) /\ CleanInv(b)
      BY <1>3, <2>1
    <2>3. TypeOK'
      BY <1>1, <1>4, <2>2, CallerType DEF CallInv
    <2>4. MutexInv' /\ OutputInv' /\ RoomInv'
      BY <1>1, <1>4, <2>2, MutexCaller, OutputCaller, RoomCaller
    <2>5. BusInv'
      BY <1>4, <2>2, CallerKeeps DEF BusInv
    <2>6. ASSUME NEW b \in Caller
          PROVE  CallInv(b)' /\ CleanInv(b)' /\ Result(b)'
      BY <1>1, <1>4, <2>2, CallCaller, CleanCaller, ResultCaller
    <2> QED
      BY <2>3, <2>4, <2>5, <2>6 DEF DriverInv
  <1>5. CASE Isr \/ Bus
    <2>1. ~stray
      BY <1>1, <1>5, IsrKeeps, BusKeeps
    <2>2. /\ MutexInv /\ BusInv /\ OutputInv /\ RoomInv
          /\ \A b \in Caller : CallInv(b) /\ CleanInv(b)
      BY <1>3, <2>1
    <2>3. TypeOK'
      BY <1>1, <1>5, <2>2, IsrType, BusType
    <2>4. \A b \in Caller : Result(b)'
      BY <1>1, <1>5, <2>2, ResultDriver
    <2>5. \A b \in Caller : CleanInv(b)'
      BY <1>1, <1>5, <2>2, CleanDriver
    <2>6. BusInv'
      BY <1>1, <1>5, <2>2, BusStep
    <2>7. MutexInv'
      <3>1. UNCHANGED <<pc, mutex, kicked>>
        BY <1>1, <1>5, IsrKeeps, BusKeeps DEF callers, driver
      <3> QED
        BY <2>2, <3>1 DEF MutexInv
    <2>8. \A b \in Caller : CallInv(b)'
      <3>1. CASE Isr
        BY <1>1, <2>2, <3>1, CallIsr
      <3>2. CASE Bus
        <4>1. UNCHANGED <<pc, op, buffer, status, i2c, kicked>>
          BY <3>2, BusKeeps DEF callers, driver
        <4> QED
          BY <2>2, <4>1 DEF CallInv, SavedBy, ParamsOf
      <3> QED
        BY <1>5, <3>1, <3>2
    <2>9. stray' \/ (OutputInv' /\ RoomInv')
      BY <1>1, <1>5, <2>2, OutputBus, OutputIsr, RoomBus, RoomIsr
    <2> QED
      BY <2>3, <2>4, <2>5, <2>6, <2>7, <2>8, <2>9 DEF DriverInv
  <1> QED
    BY <1>2, <1>4, <1>5 DEF Next

(* i2c.c's handler, peripheral and callers keep DriverInv: until a byte goes *)
(* astray, the mutex is held by the caller that is served, the parameters in *)
(* i2c are its own, and a transfer that found the bus idle is where its      *)
(* caller expects it.                                                        *)
THEOREM DriverInvariant == Spec => []DriverInv
  BY InitInv, StepInv, PTL DEF Spec

(* The driver's parameters, the peripheral's registers and the callers'      *)
(* buffers keep their types: output_byte_pointer and the count of bytes stay *)
(* bounded, and no buffer outgrows what its call asked for.                  *)
THEOREM I2cTypeCorrect == Spec => []TypeOK
  <1>1. DriverInv => TypeOK
    BY DEF DriverInv
  <1> QED
    BY <1>1, DriverInvariant, PTL

(* A call that found the bus idle and reports success left it idle and has   *)
(* moved exactly the bytes it was asked to, unless it met a bus error        *)
(* (i2c__transfer): no other status of the peripheral passes for success.    *)
THEOREM SuccessIsExactAlways == Spec => []SuccessIsExact
  <1>1. DriverInv => SuccessIsExact
    <2> SUFFICES ASSUME DriverInv, NEW c \in Caller, pc[c] = "give", status[c], clean[c],
                        op[c].length \in Nat
                 PROVE  ~Busy /\ (i2c.error_code = "bus_error" \/ Exact(c))
      BY OpType DEF SuccessIsExact, DriverInv
    <2>1. ~Busy /\ (i2c.error_code = "bus_error" \/ Complete(c))
      BY DEF DriverInv, Result
    <2>2. op[c] \in Transfers \/ op[c].length = 0
      BY OpType DEF DriverInv
    <2>3. op[c].length = 0 \/ op[c].mode \in {"read", "write"}
      BY <2>2, TransferType
    <2> QED
      BY <2>1, <2>3 DEF Exact, Complete, Fetched, Stored
  <1> QED
    BY <1>1, DriverInvariant, PTL

(* The handler writes astray only for a transfer nobody waits for: the       *)
(* pointer it stores through, the count and the acknowledge agree as long as *)
(* the call that started the transfer has not timed out.                     *)
THEOREM StrayOnlyWhenOrphanedAlways == Spec => StrayOnlyWhenOrphaned
  <1>1. ASSUME DriverInv, [Next]_vars
        PROVE  [stray' # stray => Orphaned]_vars
    <2> SUFFICES ASSUME Next, stray' # stray PROVE Orphaned
      BY <1>1
    <2>1. TypeOK
      BY <1>1 DEF DriverInv
    <2>2. Isr
      BY CallerKeeps, BusKeeps DEF Next, Undefined, vars
    <2>3. ~stray /\ Busy
      <3>1. ~stray /\ stat \in {"mr_ack_sent", "mr_nack_sent"}
        BY <2>1, <2>2, IsrKeeps, IsrBuffer
      <3> QED
        BY <3>1 DEF Busy
    <2>4. ASSUME NEW c \in Caller, pc[c] = "wait", clean[c]
          PROVE  FALSE
      <3>1. BusInv /\ CallInv(c) /\ CleanInv(c)
        BY <1>1, <2>3 DEF DriverInv
      <3>2. Serving(c)
        BY <2>4, <3>1, WaitingIsServed
      <3>3. UNCHANGED stray
        BY <2>1, <2>2, <2>4, <3>1, <3>2, ServedByHandler
      <3> QED
        BY <3>3
    <2> QED
      BY <2>3, <2>4 DEF Orphaned
  <1> QED
    BY <1>1, DriverInvariant, PTL DEF Spec, StrayOnlyWhenOrphaned

(* What the devices hold changes only by the bytes a waiting call asked to   *)
(* write, at the registers it asked for, whatever becomes of the call.       *)
THEOREM WrittenAsAskedAlways == Spec => WrittenAsAsked
  <1> DEFINE Asked(c, k) ==
        /\ pc[c] = "wait" /\ op[c].mode = "write"
        /\ mem' = [mem EXCEPT ![op[c].address][RegisterAt(op[c], k)] = op[c].data[k]]
  <1>1. ASSUME DriverInv, Next, mem' # mem, ~Orphaned
        PROVE  \E c \in Caller : \E k \in 1..op[c].length : Asked(c, k)
    <2>1. TypeOK
      BY <1>1 DEF DriverInv
    <2>2. HwSend /\ stat = "mt_data_ack" /\ ~si /\ ~sta /\ ~stray
          /\ mem' = [mem EXCEPT ![selected.address][pointer[selected.address]] = dat]
      <3>1. HwSend
        BY <1>1, <2>1, CallerKeeps, IsrKeeps
           DEF Next, Bus, HwStart, HwAddress, HwReceive, HwDisturbed, Undefined, vars, hardware
      <3> QED
        BY <1>1, <3>1 DEF HwSend, Hardware
    <2>3. PICK c \in Caller : pc[c] = "wait" /\ clean[c]
      BY <1>1, <2>2 DEF Orphaned, Busy
    <2>4. Serving(c)
      BY <1>1, <2>2, <2>3, WaitingIsServed DEF DriverInv
    <2>5. PICK n \in Nat : n = i2c.output.next - 1
      BY <2>1, <2>4, ServedTypes
    <2>6. op[c].mode = "write"
      BY <2>1, <2>2, <2>4, ServedTypes DEF Serving, Transfer, Reading
    <2>7. /\ Selects(c, "write") /\ i2c.output.next + i2c.remaining = op[c].length + 1
          /\ n >= 1 /\ PointsAt(c, n) /\ dat = op[c].data[n]
      BY <2>2, <2>4, <2>5, <2>6 DEF Serving, Transfer, Writing
    <2>8. n \in 1..op[c].length
      BY <2>1, <2>4, <2>5, <2>7, ServedTypes
    <2>9. selected.address = op[c].address /\ pointer[selected.address] = RegisterAt(op[c], n)
      BY <2>7 DEF Selects, PointsAt
    <2>10. Asked(c, n)
      BY <2>2, <2>3, <2>6, <2>7, <2>9
    <2> QED
      BY <2>8, <2>10, Zenon
  <1>2. DriverInv /\ [Next]_vars =>
          [mem' # mem => Orphaned \/ \E c \in Caller : \E k \in 1..op[c].length : Asked(c, k)]_vars
    BY <1>1
  <1> QED
    BY <1>2, DriverInvariant, PTL DEF Spec, WrittenAsAsked

=============================================================================
