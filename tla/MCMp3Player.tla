---------------------------- MODULE MCMp3Player ----------------------------
(***************************************************************************)
(* Small instances of Mp3Player.  A song has one block more than q_songdata *)
(* holds: a suspended player leaves the reader blocked on the full queue.   *)
(***************************************************************************)
EXTENDS Mp3Player

MCBlock == 1 .. DataLength + 1
MCContent == [f \in Files |-> [i \in MCBlock |-> i]]
=============================================================================
