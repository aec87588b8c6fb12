---------------------------- MODULE MCPlayerInput ----------------------------
(* The clock of the rotary encoder on port 2, whose callback sends one of    *)
(* two inputs after a pause, and an interrupt of the accelerometer on port   *)
(* 0, which is dispatched before it and sends into the same queue.           *)
EXTENDS PlayerInput

Accelerometer == <<1, 25>>
Rotary == <<4, 5>>

MCSource == {Accelerometer, Rotary}
MCPause == [s \in {Rotary} |-> 1]
MCInputs ==
  [s \in MCSource |->
     IF s = Rotary THEN {"clockwise", "anticlockwise"} ELSE {"tilt"}]
=============================================================================
