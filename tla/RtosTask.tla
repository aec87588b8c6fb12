------------------------------ MODULE RtosTask ------------------------------
(***************************************************************************)
(* Suspending FreeRTOS tasks, as far as the tasks of this firmware use it: *)
(* xSuspendedTaskList is the set of the tasks that were suspended by a     *)
(* call.  A task that waits with portMAX_DELAY is on that list too, but    *)
(* with its event item in use, and all three calls tell it apart; here it  *)
(* is not in the set.  Each call changes the list in a critical section.   *)
(***************************************************************************)

(* vTaskSuspend: ready, delayed or waiting, the task is taken off its list  *)
(* and off the event it waits for; it will try again once it is resumed.    *)
VTaskSuspend(list, task) == list \cup {task}

(* vTaskResume: nothing happens to a task that is not suspended. *)
VTaskResume(list, task) == list \ {task}

(* vTaskGetInfo with eInvalid, by eTaskGetState: is the state eSuspended? *)
IsSuspended(list, task) == task \in list
=============================================================================
