------------------------------ MODULE ActionBody ------------------------------
(***************************************************************************)
(* The moving body of the robot as the service drives it: class            *)
(* action_body_mqtt of device_mqtt.cpp, with the stop() that task::pause   *)
(* and task::cancel call from another thread than the one that runs the    *)
(* action.  The two threads share the atomics status and request only.     *)
(*                                                                         *)
(* The operators below are the steps of one call; the modules that extend  *)
(* this one say which thread takes them and when.                          *)
(*                                                                         *)
(* An action of a task is known by its kind, which is all that the threads *)
(* can tell apart:                                                         *)
(*   "move"       location_speed_move, returns when the robot reports that *)
(*                the position mode is over, or when a stop is requested   *)
(*   "charge"     to_charge, the same with the battery report              *)
(*   "malformed"  location_speed_move whose argument has no position: it   *)
(*                raises after status = RUNNING                            *)
(*   "speed"      speed_front_move, speed_back_move: start the heartbeat   *)
(*                and return at once                                       *)
(*   "halt"       stop_move, motor_reset, restart, poweroff: end the       *)
(*                heartbeat                                                *)
(*   "plain"      every other action, the uninterruptible wait included    *)
(*   "unknown"    a device or action code that is not in the tables        *)
(***************************************************************************)
EXTENDS Naturals, Sequences

CONSTANT RobotType      \* config_item::robot_type

ASSUME RobotTypeAssumption == RobotType \in {"TrackRobot", "Pad"}

VARIABLES
  bodyStatus,           \* action_body_mqtt::status
  bodyRequest,          \* action_body_mqtt::request
  sendHeart,            \* action_body_mqtt::send_heart
  robotMoving           \* the robot itself, as the commands it got leave it

deviceVars == <<bodyStatus, bodyRequest, sendHeart, robotMoving>>

Kinds == {"move", "charge", "malformed", "speed", "halt", "plain", "unknown"}

\* The kinds that set status to RUNNING, and those of them that reach the loop
\* in which a stop request is seen.
Blocking == {"move", "charge", "malformed"}
Stoppable == {"move", "charge"}

DeviceTypeOK ==
  /\ bodyStatus \in {"RUNNING", "STOPPED"}
  /\ bodyRequest \in {"INIT", "REQ_STOP"}
  /\ sendHeart \in BOOLEAN
  /\ robotMoving \in BOOLEAN

DeviceInit ==
  /\ bodyStatus = "STOPPED"
  /\ bodyRequest = "INIT"
  /\ sendHeart = FALSE
  /\ robotMoving = FALSE

-----------------------------------------------------------------------------
(* The thread that runs an action                                          *)

\* robot::get_device and get_action look the codes up with map::at.
Lookup(kind) == kind # "unknown"

\* The first line of an action that waits for the robot.
Enter(kind) ==
  /\ bodyStatus' = IF kind \in Blocking THEN "RUNNING" ELSE bodyStatus
  /\ UNCHANGED <<bodyRequest, sendHeart, robotMoving>>

\* send_heart and mqtt_pub.  A command reaches the robot when it is published.
Publish(kind) ==
  /\ sendHeart' = IF kind = "speed" THEN TRUE
                  ELSE IF kind \in {"charge", "halt"} THEN FALSE ELSE sendHeart
  /\ robotMoving' = IF kind \in {"move", "charge", "speed"} THEN TRUE
                    ELSE IF kind = "halt" THEN FALSE ELSE robotMoving
  /\ UNCHANGED <<bodyStatus, bodyRequest>>

\* The loop sees the request and returns a result with "emergency_stop".
ReturnStopped(kind) ==
  /\ kind \in Stoppable
  /\ bodyRequest = "REQ_STOP"
  /\ bodyStatus' = "STOPPED"
  /\ UNCHANGED <<bodyRequest, sendHeart, robotMoving>>

\* Variant: status = STOPPED is forgotten after the loop.
ReturnReportedRunning(kind) ==
  /\ kind \in Stoppable
  /\ bodyStatus = "RUNNING"
  /\ ~robotMoving
  /\ UNCHANGED deviceVars

\* A report of the robot at rest ends the action.  Reports are read only while
\* status is RUNNING: with STOPPED the loop spins and reads nothing.
ReturnReported(kind) ==
  /\ kind \in Stoppable
  /\ bodyStatus = "RUNNING"
  /\ ~robotMoving
  /\ bodyStatus' = "STOPPED"
  /\ UNCHANGED <<bodyRequest, sendHeart, robotMoving>>

\* An action that waits for no report returns json().
ReturnPlain(kind) ==
  /\ kind \notin Blocking
  /\ UNCHANGED deviceVars

\* command.at("arg").at("position") raises: status is left RUNNING.
Raise(kind) ==
  /\ kind = "malformed"
  /\ UNCHANGED deviceVars

\* The robot gets to its position or to its charger, or reads a limit card.
Arrive ==
  /\ robotMoving
  /\ robotMoving' = FALSE
  /\ UNCHANGED <<bodyStatus, bodyRequest, sendHeart>>

-----------------------------------------------------------------------------
(* The thread that calls stop().  pad_mqtt inherits the empty              *)
(* device::stop and does not pass the call to its track_robot.             *)

StopReaches == RobotType = "TrackRobot"

\* if (status == RUNNING), not taken: request = INIT and return.
StopIdle ==
  /\ bodyStatus # "RUNNING"
  /\ bodyRequest' = "INIT"
  /\ UNCHANGED <<bodyStatus, sendHeart, robotMoving>>

\* stop_move, then request = REQ_STOP.
StopRequest ==
  /\ sendHeart' = FALSE
  /\ robotMoving' = FALSE
  /\ bodyRequest' = "REQ_STOP"
  /\ UNCHANGED bodyStatus

\* Variant: the request is not withdrawn.
StopDoneKeepsRequest ==
  /\ bodyStatus # "RUNNING"
  /\ UNCHANGED deviceVars

\* while (status == RUNNING), left: request = INIT and return.
StopDone ==
  /\ bodyStatus # "RUNNING"
  /\ bodyRequest' = "INIT"
  /\ UNCHANGED <<bodyStatus, sendHeart, robotMoving>>

=============================================================================
