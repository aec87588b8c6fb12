---------------------------- MODULE MCI2cDriver ----------------------------
EXTENDS I2cDriver, TLC

CONSTANTS d1, absent

Callers == Permutations(Caller)

Read(n, r) == [mode |-> "read", address |-> d1, register |-> r, length |-> n, data |-> << >>]
Write(bytes, r) ==
  [mode |-> "write", address |-> d1, register |-> r, length |-> Len(bytes), data |-> bytes]
Detect(a) == [mode |-> "write", address |-> a, register |-> 0, length |-> 0, data |-> << >>]

(* A read that goes past the last register, one of a single byte, a write,   *)
(* and a test for a device that is not there.                                *)
MCTransfers == {Read(2, 1), Read(1, 0), Write(<<0>>, 1), Detect(absent)}

MCDetects == {Detect(absent)}

MCWrites == {Write(<<0>>, 1)}
=============================================================================
