----------------------------- MODULE ServiceClaims -----------------------------
(***************************************************************************)
(* What comments and log lines of the repository say of the current task   *)
(* and the code does not keep.  Each is checked by a configuration of its  *)
(* own, which finds the shortest behaviour that breaks it.                 *)
(***************************************************************************)
EXTENDS SmartService

NoActionBegins == \A r \in Runners : Acting(r)' => Acting(r)

\* smart_service.cpp:34 and 233, a real time control is forwarded after the
\* current task is cancelled: the task starts no action from then on.  A task
\* that was set and has not begun is INIT, and cancel does nothing to it.
NoActionAfterCancel ==
  [][asked = "cancel" /\ ctl = "none" => NoActionBegins]_vars

\* task.cpp:205, pause "stops all actions" so that the loop leaves the blocked
\* action: the robot is at rest in a paused task.  The command to stop may be
\* published before the command to move that it is meant to stop.
PauseStopsRobot == status = "PAUSE" /\ MainAt("pop") => ~robotMoving

\* smart_service.cpp:188, set_current_task returns true or false: operator=
\* does not wait for ever.
SetCurrentTaskReturns == mpc = "assign" ~> mpc # "assign"

=============================================================================
