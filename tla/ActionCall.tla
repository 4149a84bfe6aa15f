------------------------------ MODULE ActionCall ------------------------------
(***************************************************************************)
(* What SmartService takes for granted of one interruptible action, which  *)
(* is made of the steps of ActionBody: the call ends in one step, with a   *)
(* report of the robot at rest or because of a stop request, and stop      *)
(* publishes its command and makes its request in one step.                *)
(***************************************************************************)
EXTENDS ActionBody

CONSTANT Kind           \* of Stoppable: "move" for location_speed_move, "charge" for to_charge

VARIABLES
  caller,               \* the thread that executes the action
  stopper               \* the thread that calls stop

vars == <<deviceVars, caller, stopper>>

Init ==
  /\ DeviceInit
  /\ caller = "idle"
  /\ stopper = "idle"

\* StopAdmitsNone of SmartService: no action begins while a stop waits for one.
Begin ==
  /\ caller = "idle"
  /\ stopper = "idle"
  /\ Enter(Kind)
  /\ caller' = "publish"
  /\ UNCHANGED stopper

Command ==
  /\ caller = "publish"
  /\ Publish(Kind)
  /\ caller' = "acting"
  /\ UNCHANGED stopper

End ==
  /\ caller = "acting"
  /\ ReturnReported(Kind) \/ ReturnStopped(Kind)
  /\ caller' = "idle"
  /\ UNCHANGED stopper

Rest == Arrive /\ UNCHANGED <<caller, stopper>>

Stop ==
  /\ stopper = "idle"
  /\ IF bodyStatus = "RUNNING"
     THEN stopper' = "request" /\ UNCHANGED deviceVars
     ELSE StopIdle /\ UNCHANGED stopper
  /\ UNCHANGED caller

Request ==
  /\ stopper = "request"
  /\ StopRequest
  /\ stopper' = "wait"
  /\ UNCHANGED caller

Stopped ==
  /\ stopper = "wait"
  /\ StopDone
  /\ stopper' = "idle"
  /\ UNCHANGED caller

Next == Begin \/ Command \/ End \/ Rest \/ Stop \/ Request \/ Stopped

Spec == Init /\ [][Next]_vars

=============================================================================
