------------------------------ MODULE I2cDriver ------------------------------
(***************************************************************************)
(* i2c.c: callers that hold the driver's mutex describe a transfer, set    *)
(* the START flag and sleep on a signal; the interrupt handler carries the *)
(* transfer out, one step per state the peripheral reports, and gives the  *)
(* signal once it has sent STOP.                                           *)
(*                                                                         *)
(* The peripheral and the devices on the bus are external: after each      *)
(* interrupt they acknowledge, refuse, lose arbitration, or take so long   *)
(* that the caller gives up.  An interrupt that is pending (SI) runs       *)
(* before any task does.                                                   *)
(***************************************************************************)
EXTENDS Integers, Sequences

CONSTANTS
  Caller,     \* the tasks that use the bus
  NoCaller,   \* NULL, for a pointer into a caller's bytes
  Device,     \* the addresses at which a device answers
  Transfers,  \* the calls that are made
  LastRegister, \* the registers of a device are 0..LastRegister, and its
              \* register pointer goes back to 0 after the last one
  Byte,       \* what a register holds
  MaxBytes,   \* the longest transfer
  SizeMax     \* the largest size_t

Register == 0..LastRegister

(* A call: its direction, the address, the first register, the number of     *)
(* bytes, and the bytes to write.  No bytes at all is i2c__detect.           *)
ASSUME TransferAssumption ==
  /\ \A t \in Transfers :
       /\ t.mode \in {"read", "write"}
       /\ t.register \in Register
       /\ t.length \in 0..MaxBytes
       /\ t.data \in Seq(Byte)
       /\ Len(t.data) = IF t.mode = "write" THEN t.length ELSE 0
  /\ Transfers # {} /\ LastRegister \in Nat /\ Register \subseteq Byte
  /\ NoCaller \notin Caller
  /\ MaxBytes \in Nat /\ SizeMax \in Nat /\ MaxBytes < SizeMax

VARIABLES
  pc, op, buffer, status, \* callers: next statement, call, bytes read, result
  clean,                  \* history: was the bus idle when the call began?
  mutex, signal,          \* i2c->mutex and i2c->transfer_complete_signal
  i2c,                    \* the parameters saved for the handler
  kicked,                 \* how many of them kick_off_transfer has saved
  stat, si, sta, aa, dat, \* registers of the peripheral
  selected,               \* the address byte last put in DAT
  mem, pointer,           \* devices: registers, and the one that is next
  stray                   \* has the handler written where no caller reads?

callers == <<pc, op, buffer, status, clean>>
driver == <<mutex, signal, i2c, kicked>>
hardware == <<stat, si, sta, aa, dat, selected, mem, pointer>>
vars == <<callers, driver, hardware, stray>>

(* Between calls, when the locals of the last one are gone. *)
NoCall == [mode |-> "none", register |-> 0, length |-> 0, data |-> << >>]

Addresses == { t.address : t \in Transfers }
NoAddress == [address |-> CHOOSE a \in Addresses : TRUE, mode |-> "write"]

Errors == {"mt_addr_nack", "mt_data_nack", "mr_read_nack", "bus_error",
           "arbitration_lost"}
Stats == Errors \cup {"idle", "start", "repeat_start", "mt_addr_ack",
                      "mt_data_ack", "mr_read_ack", "mr_ack_sent", "mr_nack_sent"}

Params == <<"error_code", "slave", "register", "input", "output", "remaining">>

Busy == stat # "idle" \/ sta

AddressByte == [address : Addresses, mode : {"read", "write"}]

Parameters ==
  [error_code : Errors \cup {"none"}, slave : AddressByte, register : Register,
   input : Caller \cup {NoCaller},
   output : [of : Caller \cup {NoCaller}, next : 1..(2 * MaxBytes + 1)],
   remaining : 0..SizeMax]

TypeOK ==
  /\ pc \in [Caller -> {"idle", "take", "clear", "kick", "wait", "give"}]
  /\ op \in [Caller -> Transfers \cup {NoCall}]
  /\ buffer \in [Caller -> Seq(Byte)] /\ \A c \in Caller : Len(buffer[c]) <= op[c].length
  /\ status \in [Caller -> BOOLEAN] /\ clean \in [Caller -> BOOLEAN]
  /\ mutex \in Caller \cup {NoCaller} /\ signal \in BOOLEAN
  /\ i2c \in Parameters
  /\ kicked \in 0..Len(Params)
  /\ stat \in Stats /\ {si, sta, aa, stray} \subseteq BOOLEAN
  /\ dat \in Byte
  /\ selected \in AddressByte
  /\ mem \in [Device -> [Register -> Byte]] /\ pointer \in [Device -> Register]

(* The driver's parameters and DAT start as zeroes, any address here; the    *)
(* registers of a device start with their own numbers.                       *)
Init ==
  /\ pc = [c \in Caller |-> "idle"]
  /\ op = [c \in Caller |-> NoCall]
  /\ selected = NoAddress
  /\ i2c = [error_code |-> "none", slave |-> NoAddress, register |-> 0,
            input |-> NoCaller, output |-> [of |-> NoCaller, next |-> 1],
            remaining |-> 0]
  /\ buffer = [c \in Caller |-> << >>]
  /\ status = [c \in Caller |-> FALSE] /\ clean = [c \in Caller |-> TRUE]
  /\ mutex = NoCaller /\ signal = FALSE /\ kicked = 0
  /\ stat = "idle" /\ si = FALSE /\ sta = FALSE /\ aa = FALSE /\ dat = 0
  /\ mem = [d \in Device |-> [r \in Register |-> r]]
  /\ pointer = [d \in Device |-> 0]
  /\ stray = FALSE

-----------------------------------------------------------------------------
(* The callers. *)

Task(c, from, to) == ~si /\ ~stray /\ pc[c] = from /\ pc' = [pc EXCEPT ![c] = to]

(* i2c__read_slave_data, i2c__write_slave_data or i2c__detect. *)
Call(c) ==
  /\ Task(c, "idle", "take")
  /\ \E t \in Transfers : op' = [op EXCEPT ![c] = t]
  /\ UNCHANGED <<buffer, status, clean, driver, hardware, stray>>

TakeMutex(c) ==
  /\ Task(c, "take", "clear")
  /\ mutex = NoCaller
  /\ mutex' = c
  /\ UNCHANGED <<op, buffer, status, clean, signal, i2c, kicked, hardware, stray>>

(* Mutant: the stale signal is left in place. *)
KeepSignal(c) ==
  /\ Task(c, "clear", "kick")
  /\ clean' = [clean EXCEPT ![c] = ~Busy]
  /\ UNCHANGED <<op, buffer, status, mutex, signal, i2c, kicked, hardware, stray>>

ClearSignal(c) ==
  /\ Task(c, "clear", "kick")
  /\ signal' = FALSE
  /\ clean' = [clean EXCEPT ![c] = ~Busy]
  /\ UNCHANGED <<op, buffer, status, mutex, i2c, kicked, hardware, stray>>

ParamsOf(c) ==
  [error_code |-> "none",
   slave |-> [address |-> op[c].address, mode |-> op[c].mode],
   register |-> op[c].register,
   input |-> IF op[c].mode = "read" THEN c ELSE NoCaller,
   output |-> [of |-> IF op[c].mode = "write" THEN c ELSE NoCaller, next |-> 1],
   remaining |-> op[c].length]

(* The parameters are saved one by one: an interrupt may come in between. *)
SaveParam(c) ==
  /\ Task(c, "kick", "kick")
  /\ kicked < Len(Params)
  /\ kicked' = kicked + 1
  /\ LET p == Params[kicked']
     IN  i2c' = [i2c EXCEPT ![p] = ParamsOf(c)[p]]
  /\ UNCHANGED <<op, buffer, status, clean, mutex, signal, hardware, stray>>

SetStart(c) ==
  /\ Task(c, "kick", "wait")
  /\ kicked = Len(Params)
  /\ kicked' = 0
  /\ sta' = TRUE
  /\ UNCHANGED <<op, buffer, status, clean, mutex, signal, i2c, stat, si, aa,
                 dat, selected, mem, pointer, stray>>

(* error_code holds the number read from STAT; here it is kept by the name   *)
(* of the status.  I2C__STATE_BUS_ERROR is 0x00, which is also the value for *)
(* no error: the driver cannot tell the two apart.                           *)
IsZero(code) == code \in {"none", "bus_error"}

TakeSignal(c) ==
  /\ Task(c, "wait", "give")
  /\ signal
  /\ signal' = FALSE
  /\ status' = [status EXCEPT ![c] = IsZero(i2c.error_code)]
  /\ UNCHANGED <<op, buffer, clean, mutex, i2c, kicked, hardware, stray>>

(* After 3000 ticks without the signal; nothing is done to the peripheral. *)
Timeout(c) ==
  /\ Task(c, "wait", "give")
  /\ ~signal
  /\ UNCHANGED <<op, buffer, status, clean, driver, hardware, stray>>

(* The call returns: what it had on its stack is gone. *)
GiveMutex(c) ==
  /\ Task(c, "give", "idle")
  /\ mutex' = NoCaller
  /\ op' = [op EXCEPT ![c] = NoCall]
  /\ buffer' = [buffer EXCEPT ![c] = << >>]
  /\ status' = [status EXCEPT ![c] = FALSE]
  /\ clean' = [clean EXCEPT ![c] = TRUE]
  /\ UNCHANGED <<signal, i2c, kicked, hardware, stray>>

-----------------------------------------------------------------------------
(* The interrupt handler. *)

Interrupt(s) == si /\ ~stray /\ stat = s /\ UNCHANGED <<callers, mutex, kicked>>

Continue == si' = FALSE /\ UNCHANGED <<stat, selected, mem, pointer, signal>>

(* i2c__set_stop, which waits for the STOP, and then the signal.  DAT and AA *)
(* are written again before they are used: what they hold is forgotten.      *)
Stop ==
  /\ stat' = "idle" /\ si' = FALSE /\ sta' = FALSE
  /\ aa' = FALSE /\ dat' = 0 /\ selected' = NoAddress
  /\ signal' = TRUE
  /\ UNCHANGED <<mem, pointer>>

IsrStart ==
  \E s \in {"start", "repeat_start"} :
    /\ si /\ ~stray /\ stat = s
    /\ selected' = [address |-> i2c.slave.address,
                    mode |-> IF s = "start" THEN "write" ELSE "read"]
    /\ si' = FALSE
    /\ UNCHANGED <<callers, driver, stat, sta, aa, dat, mem, pointer, stray>>

IsrAddressAck ==
  /\ Interrupt("mt_addr_ack")
  /\ IF i2c.remaining = 0
     THEN Stop
     ELSE dat' = i2c.register /\ sta' = FALSE /\ UNCHANGED aa /\ Continue
  /\ UNCHANGED <<i2c, stray>>

(* The byte under output_byte_pointer: past the caller's bytes, anything. *)
OutputByte(b) ==
  LET c == i2c.output.of
      k == i2c.output.next
  IN  c \in Caller /\ k \in DOMAIN op[c].data => b = op[c].data[k]

(* Mutant: the bytes left are not looked at before the next one is sent. *)
IsrDataAckNeverStops ==
  /\ Interrupt("mt_data_ack")
  /\ IF i2c.slave.mode = "read"
     THEN sta' = TRUE /\ Continue /\ UNCHANGED <<dat, i2c, aa>>
     ELSE /\ \E b \in Byte : OutputByte(b) /\ dat' = b
          /\ i2c' = [i2c EXCEPT !.output.next = @ + 1,
                                !.remaining = (@ - 1) % (SizeMax + 1)]
          /\ Continue /\ UNCHANGED <<sta, aa>>
  /\ UNCHANGED stray

IsrDataAck ==
  /\ Interrupt("mt_data_ack")
  /\ IF i2c.slave.mode = "read"
     THEN sta' = TRUE /\ Continue /\ UNCHANGED <<dat, i2c, aa>>
     ELSE IF i2c.remaining = 0
     THEN Stop /\ UNCHANGED i2c
     ELSE /\ \E b \in Byte : OutputByte(b) /\ dat' = b
          /\ i2c' = [i2c EXCEPT !.output.next = @ + 1, !.remaining = @ - 1]
          /\ Continue /\ UNCHANGED <<sta, aa>>
  /\ UNCHANGED stray

(* Mutant: >= 1, which acknowledges the only byte of a one-byte read. *)
IsrReadAckOneMore ==
  /\ Interrupt("mr_read_ack")
  /\ sta' = FALSE
  /\ aa' = (i2c.remaining >= 1)
  /\ Continue
  /\ UNCHANGED <<dat, i2c, stray>>

IsrReadAck ==
  /\ Interrupt("mr_read_ack")
  /\ sta' = FALSE
  /\ aa' = (i2c.remaining > 1)
  /\ Continue
  /\ UNCHANGED <<dat, i2c, stray>>

(* *(i2c->input_byte_pointer) = DAT: right only if the pointer was saved by   *)
(* the call its caller is in, and within the bytes it asked for.             *)
StoreByte ==
  LET c == i2c.input
      saved == pc[c] = "wait" \/ (pc[c] = "kick" /\ kicked >= 4)
  IN  IF c \in Caller /\ saved /\ Len(buffer[c]) < op[c].length
      THEN buffer' = [buffer EXCEPT ![c] = Append(@, dat)] /\ UNCHANGED stray
      ELSE stray' = TRUE /\ UNCHANGED buffer

IsrAckSent ==
  /\ si /\ ~stray /\ stat = "mr_ack_sent"
  /\ StoreByte
  /\ i2c' = [i2c EXCEPT !.remaining = (@ - 1) % (SizeMax + 1)]
  /\ aa' = (i2c'.remaining # 1)
  /\ Continue
  /\ UNCHANGED <<pc, op, status, clean, mutex, kicked, sta, dat>>

IsrNackSent ==
  /\ si /\ ~stray /\ stat = "mr_nack_sent"
  /\ StoreByte
  /\ i2c' = [i2c EXCEPT !.remaining = 0]
  /\ Stop
  /\ UNCHANGED <<pc, op, status, clean, mutex, kicked>>

(* The signal is given, but SI is not cleared: the interrupt stays pending. *)
IsrArbitrationLost ==
  /\ Interrupt("arbitration_lost")
  /\ i2c' = [i2c EXCEPT !.error_code = stat]
  /\ signal' = TRUE
  /\ UNCHANGED <<hardware, stray>>

(* Any other failure; what STAT reads is kept for TakeSignal. *)
IsrError ==
  /\ \E s \in Errors \ {"arbitration_lost"} : Interrupt(s)
  /\ i2c' = [i2c EXCEPT !.error_code = stat]
  /\ Stop
  /\ UNCHANGED stray

Isr == \/ IsrStart \/ IsrAddressAck \/ IsrDataAck \/ IsrReadAck \/ IsrAckSent
       \/ IsrNackSent \/ IsrArbitrationLost \/ IsrError

-----------------------------------------------------------------------------
(* The peripheral and the devices, once SI is clear. *)

Hardware(from, to) ==
  /\ ~si /\ ~stray /\ stat \in from
  /\ stat' = to /\ si' = TRUE
  /\ UNCHANGED <<callers, driver, aa, selected, stray>>

HwStart ==
  /\ sta
  /\ \/ Hardware({"idle"}, "start")
     \/ Hardware({"mt_addr_ack", "mt_data_ack"}, "repeat_start")
  /\ UNCHANGED <<sta, dat, mem, pointer>>

(* The address goes out: a device answers, or none does. *)
HwAddress ==
  /\ \/ /\ selected.address \in Device
        /\ Hardware({"start", "repeat_start"},
                    IF selected.mode = "write" THEN "mt_addr_ack" ELSE "mr_read_ack")
     \/ Hardware({"start", "repeat_start"},
                 IF selected.mode = "write" THEN "mt_addr_nack" ELSE "mr_read_nack")
  /\ UNCHANGED <<sta, dat, mem, pointer>>

NextRegister(r) == (r + 1) % (LastRegister + 1)

(* A byte goes out: the first one names a register, others are stored. *)
HwSend ==
  /\ ~sta
  /\ LET d == selected.address IN
     \/ /\ stat = "mt_addr_ack" /\ dat \in Register
        /\ Hardware({"mt_addr_ack"}, "mt_data_ack")
        /\ pointer' = [pointer EXCEPT ![d] = dat]
        /\ UNCHANGED mem
     \/ /\ Hardware({"mt_data_ack"}, "mt_data_ack")
        /\ mem' = [mem EXCEPT ![d][pointer[d]] = dat]
        /\ pointer' = [pointer EXCEPT ![d] = NextRegister(@)]
     \/ /\ Hardware({"mt_addr_ack", "mt_data_ack"}, "mt_data_nack")
        /\ UNCHANGED <<mem, pointer>>
  /\ UNCHANGED <<sta, dat>>

(* A byte comes in, and is acknowledged as the AA flag says. *)
HwReceive ==
  LET d == selected.address IN
  /\ Hardware({"mr_read_ack", "mr_ack_sent"},
              IF aa THEN "mr_ack_sent" ELSE "mr_nack_sent")
  /\ dat' = mem[d][pointer[d]]
  /\ pointer' = [pointer EXCEPT ![d] = NextRegister(@)]
  /\ UNCHANGED <<sta, mem>>

(* Another master or noise takes the bus away, or breaks its framing. *)
HwDisturbed ==
  /\ \E e \in {"arbitration_lost", "bus_error"} : Hardware(Stats \ (Errors \cup {"idle"}), e)
  /\ UNCHANGED <<sta, dat, mem, pointer>>

Bus == HwStart \/ HwAddress \/ HwSend \/ HwReceive \/ HwDisturbed

(* Nothing is said of the program after a stray write. *)
Undefined == stray /\ UNCHANGED vars

CallerStep(c) ==
  \/ TakeMutex(c) \/ ClearSignal(c) \/ SaveParam(c) \/ SetStart(c)
  \/ TakeSignal(c) \/ Timeout(c) \/ GiveMutex(c)

Next == (\E c \in Caller : Call(c) \/ CallerStep(c)) \/ Isr \/ Bus \/ Undefined

Spec == Init /\ [][Next]_vars

(* A pending interrupt is served, a task that can run runs, and the tick     *)
(* ends every wait.  Nothing makes the peripheral or a device answer.        *)
FairSpec == Spec /\ WF_vars(Isr) /\ \A c \in Caller : WF_vars(CallerStep(c))

-----------------------------------------------------------------------------
(* Properties *)

(* The registers a call is about, in the order its bytes go to or come from. *)
RegisterAt(t, k) == (t.register + k - 1) % (LastRegister + 1)

(* Of the n bytes a transfer has moved, byte k is the last one that met its  *)
(* register: a write that goes round replaces what it wrote before.          *)
LastAt(k, n) == n <= k + LastRegister

(* The bytes read are the device's registers in order, the bytes written are *)
(* in them.                                                                  *)
Exact(c) ==
  /\ op[c].address \in Device
  /\ op[c].mode = "read" => Len(buffer[c]) = op[c].length
  /\ \A k \in 1..op[c].length :
       op[c].mode = "read" \/ LastAt(k, op[c].length) =>
         mem[op[c].address][RegisterAt(op[c], k)] =
           IF op[c].mode = "read" THEN buffer[c][k] ELSE op[c].data[k]

(* A call that found the bus idle and reports success left it idle and did   *)
(* what it was asked, with one exception: a bus error cut its transfer short.*)
SuccessIsExact ==
  \A c \in Caller :
    pc[c] = "give" /\ status[c] /\ clean[c] =>
      ~Busy /\ (i2c.error_code = "bus_error" \/ Exact(c))

(* The bus works on behalf of nobody: its call timed out, or a later call   *)
(* found it at work.                                                        *)
Orphaned == Busy /\ ~\E c \in Caller : pc[c] = "wait" /\ clean[c]

(* The handler writes only into the buffer of the caller that waits for it,  *)
(* and within it, unless a call gave up on a transfer that was still going   *)
(* on: counting down and acknowledging agree on where the last byte is.      *)
StrayOnlyWhenOrphaned == [][stray' # stray => Orphaned]_vars

(* Whether a call succeeds or not, a register of a device only ever changes  *)
(* to the next byte of the call that waits, unless that call gave up on a    *)
(* transfer still going on.                                                  *)
WrittenAsAsked ==
  [][mem' # mem =>
       \/ Orphaned
       \/ \E c \in Caller : \E k \in 1..op[c].length :
            /\ pc[c] = "wait" /\ op[c].mode = "write"
            /\ mem' = [mem EXCEPT ![op[c].address][RegisterAt(op[c], k)] = op[c].data[k]]]_vars

(* i2c.c:380 of the lost arbitration: "we still need to end our transaction". *)
LostArbitrationEnds ==
  \A c \in Caller :
    (pc[c] = "wait" /\ stat = "arbitration_lost") ~> pc[c] = "idle"

(* i2c.h:34 of i2c__detect: "returns true if the I2C device at the given     *)
(* address responds back with an ACK", here for a call that has the bus for  *)
(* itself.                                                                   *)
DetectMeansAck ==
  \A c \in Caller :
    pc[c] = "give" /\ status[c] /\ clean[c] /\ op[c].length = 0 =>
      op[c].address \in Device

(* i2c.c:226: "the signal will be sent by the ISR once the transaction       *)
(* finishes", and i2c.c:222 clears a stale one: who gets the signal has its   *)
(* own transfer finished.                                                    *)
SignalMeansFinished ==
  \A c \in Caller : pc[c] = "give" /\ status[c] => ~Busy
=============================================================================
