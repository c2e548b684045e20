--------------------------- MODULE SchedulerHold ---------------------------
(***************************************************************************)
(* What vTaskSuspendAll and xTaskResumeAll promise (task.h): a task holds  *)
(* the processor from its first vTaskSuspendAll to the xTaskResumeAll that *)
(* undoes it, however deep the calls nest; every call counts at once.      *)
(***************************************************************************)
EXTENDS Naturals

CONSTANTS Tasks

VARIABLES
  owner,   \* the task that has the processor
  depth    \* its outstanding vTaskSuspendAll calls

holdVars == <<owner, depth>>

Init == owner \in Tasks /\ depth = 0

Hold    == depth' = depth + 1 /\ UNCHANGED owner
Release == depth > 0 /\ depth' = depth - 1 /\ UNCHANGED owner
Switch  == depth = 0 /\ owner' \in Tasks /\ UNCHANGED depth

Next == Hold \/ Release \/ Switch

Spec == Init /\ [][Next]_holdVars
=============================================================================
