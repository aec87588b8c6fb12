-------------------------------- MODULE Mutex --------------------------------
(* What a lock promises its users: one holder at a time, and only the holder *)
(* lets go.                                                                  *)

CONSTANT User
VARIABLE holders   \* the users inside the critical section

MutexInit == holders = {}

Acquire(u) == holders = {} /\ holders' = {u}

Release(u) == u \in holders /\ holders' = holders \ {u}

MutexNext == \E u \in User : Acquire(u) \/ Release(u)

MutexSpec == MutexInit /\ [][MutexNext]_holders
=============================================================================
