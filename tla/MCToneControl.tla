---------------------------- MODULE MCToneControl ----------------------------
(***************************************************************************)
(* ToneControl on a level board: which tilt it is changes no step, and the *)
(* reading is the same as that of a failed transfer.  The operator types   *)
(* "taskcontrol suspend treble task" and "taskcontrol resume treble task". *)
(***************************************************************************)
EXTENDS ToneControl

MCTilt == {0}
MCNamed == {"treble"}
=============================================================================
