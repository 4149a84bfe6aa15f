----------------------------- MODULE SmartService -----------------------------
(***************************************************************************)
(* The message loop of smart_service.cpp, which owns current_task: every   *)
(* message that touches the task or the robot is handled here, one at a    *)
(* time, while the runner threads that earlier messages started go on.     *)
(* The queue in front of the loop is not part of this module: any message  *)
(* of Messages may be next.                                                *)
(***************************************************************************)
EXTENDS TaskRun

CONSTANTS
  Messages,             \* the kinds of message the environment sends
  CountBound            \* no "start" message once executed_count is this high

ASSUME MessagesAssumption ==
  /\ Messages \subseteq {"start", "pause", "resume", "cancel", "ctrl", "battery"}
  /\ CountBound \in Nat

VARIABLES
  mpc,                  \* where the message loop is, between control calls
  arg,                  \* the task of the "start" message being handled
  asked                 \* history: the last command on the task

mainVars == <<mpc, arg, asked>>
vars == <<deviceVars, taskVars, mainVars>>

MainTypeOK ==
  /\ mpc \in {"pop", "prioritize", "replace", "assign", "install", "spawn",
              "forward", "charge", "charging"}
  /\ arg \in Tasks \cup {NoTask}
  /\ asked \in {"none", "start", "pause", "resume", "cancel"}

TypeOK == DeviceTypeOK /\ TaskTypeOK /\ MainTypeOK

Init ==
  /\ DeviceInit
  /\ TaskInit
  /\ mpc = "pop"
  /\ arg = NoTask
  /\ asked = "none"

\* The loop's own code runs only when no control call is in progress.
MainAt(label) == mpc = label /\ ctl = "none"
Receives(kind) == MainAt("pop") /\ kind \in Messages

-----------------------------------------------------------------------------
(* type 3: set_current_task and the thread that executes the task          *)

\* task(task_json).  A task that is refused is reported and then goes on to
\* the std::thread below, like one that was set.
RecvStart(t) ==
  /\ Receives("start")
  /\ executed < CountBound
  /\ \E r \in Runners : At(r, "none")
  /\ arg' = t
  /\ mpc' = IF WellFormed(t) THEN "prioritize" ELSE "spawn"
  /\ UNCHANGED <<asked, taskVars, deviceVars>>

\* if (!is_over() && new_task.priority < current_task.priority).
Prioritize ==
  /\ MainAt("prioritize")
  /\ mpc' = IF status # "END" /\ PriorityOf(arg) < PriorityOf(cur)
            THEN "spawn" ELSE "replace"
  /\ UNCHANGED <<arg, asked, taskVars, deviceVars>>

\* if (!is_empty()), if (!is_over()): the task in progress is cancelled.
Replace ==
  /\ MainAt("replace")
  /\ IF status \notin {"INIT", "END"} THEN Call("cancel") ELSE UNCHANGED ctlVars
  /\ mpc' = "assign"
  /\ UNCHANGED <<arg, asked, status, reqStatus, taskData, runSche, rpc, index,
                 deviceVars>>

\* current_task = new_task.
AssignTask ==
  /\ MainAt("assign")
  /\ Assign(arg)
  /\ mpc' = "install"
  /\ asked' = "start"
  /\ UNCHANGED arg

\* The six callbacks are set after operator= has released run_sche.
InstallCallbacks ==
  /\ MainAt("install")
  /\ callbacks' = "installed"
  /\ mpc' = "spawn"
  /\ UNCHANGED <<arg, asked, status, reqStatus, bot, cur, executed, runSche,
                 rpc, index, ctlVars, deviceVars>>

SpawnRunner ==
  /\ MainAt("spawn")
  /\ \E r \in Runners : Spawn(r)
  /\ mpc' = "pop"
  /\ UNCHANGED <<arg, asked>>

-----------------------------------------------------------------------------
(* types 4, 5 and 6, the real time control and the battery                 *)

RecvControl(op) ==
  /\ Receives(op)
  /\ Call(op)
  /\ asked' = op
  /\ UNCHANGED <<mpc, arg, status, reqStatus, taskData, runSche, rpc, index,
                 deviceVars>>

\* real_time_ctrl_handler: a task that is not over is cancelled first.
RecvRealTimeCtrl ==
  /\ Receives("ctrl")
  /\ IF status # "END" THEN Call("cancel") ELSE UNCHANGED ctlVars
  /\ mpc' = "forward"
  /\ asked' = "cancel"
  /\ UNCHANGED <<arg, status, reqStatus, taskData, runSche, rpc, index,
                 deviceVars>>

\* The operator's command goes to the robot, and may make it move.
Forward ==
  /\ MainAt("forward")
  /\ robotMoving' \in BOOLEAN
  /\ mpc' = "pop"
  /\ UNCHANGED <<arg, asked, taskVars, bodyStatus, bodyRequest, sendHeart>>

\* A battery report below battery_threshold: current_task.pause().
RecvLowBattery ==
  /\ Receives("battery")
  /\ Call("pause")
  /\ mpc' = "charge"
  /\ UNCHANGED <<arg, asked, status, reqStatus, taskData, runSche, rpc, index,
                 deviceVars>>

\* to_charge, called by the message loop itself, which makes it one step: no
\* other thread calls stop().
StartCharge ==
  /\ MainAt("charge")
  /\ bodyStatus' = "RUNNING"
  /\ sendHeart' = FALSE
  /\ robotMoving' = TRUE
  /\ UNCHANGED bodyRequest
  /\ mpc' = "charging"
  /\ UNCHANGED <<arg, asked, taskVars>>

\* Full battery: current_task.resume().  bodyRequest is INIT here, as only
\* this thread calls stop(), so "emergency_stop" cannot be the result.
EndCharge ==
  /\ MainAt("charging")
  /\ ReturnReported("charge")
  /\ Call("resume")
  /\ mpc' = "pop"
  /\ UNCHANGED <<arg, asked, status, reqStatus, taskData, runSche, rpc, index>>

-----------------------------------------------------------------------------

Recv ==
  \/ \E t \in Tasks : RecvStart(t)
  \/ \E op \in {"pause", "resume", "cancel"} : RecvControl(op)
  \/ RecvRealTimeCtrl
  \/ RecvLowBattery

\* What the message loop's thread does once it has a message.
MainStep ==
  \/ Prioritize \/ Replace \/ AssignTask \/ InstallCallbacks \/ SpawnRunner
  \/ Forward \/ StartCharge
  \/ CtlStep /\ UNCHANGED mainVars

RunnersStep(r) == RunnerStep(r) /\ UNCHANGED mainVars

RobotArrives == Arrive /\ UNCHANGED <<taskVars, mainVars>>

Next ==
  \/ Recv
  \/ MainStep
  \/ EndCharge
  \/ RobotArrives
  \/ \E r \in Runners : RunnersStep(r)

Spec == Init /\ [][Next]_vars

\* Every thread is scheduled, and the robot may stay silent.
ThreadFairness ==
  /\ WF_vars(MainStep)
  /\ \A r \in Runners : WF_vars(ThreadStep(r) /\ UNCHANGED mainVars)

\* The robot, besides, ends every move and charge and reports it.
RobotFairness ==
  /\ WF_vars(RobotArrives)
  /\ WF_vars(EndCharge)
  /\ \A r \in Runners : WF_vars(ReportDone(r) /\ UNCHANGED mainVars)

FairSpec == Spec /\ ThreadFairness /\ RobotFairness

-----------------------------------------------------------------------------
(* The abstract specification this one implements                          *)

\* Thread r is in the call of an action.
Acting(r) == rpc[r] \in {"publish", "acting"}

Lifecycle == INSTANCE TaskLifecycle WITH
  phase  <- status,
  acting <- \E r \in Runners : Acting(r),
  count  <- executed,
  limit  <- MaxCountOf(cur)

\* Whatever the messages and the threads do, the task goes through the phases
\* of task.hpp in order: no action outside EXECING, no change of phase during
\* an action, no new task during a run, and no run above max_count.
ImplementsLifecycle == Lifecycle!Spec

-----------------------------------------------------------------------------
(* Safety of the task object                                               *)

\* task.hpp: "run can run only once at a time".  A thread between the first and
\* the last line of task::run is the holder of run_sche, so there is one.
OneScheduler ==
  /\ \A r \in Runners : rpc[r] \in Inside <=> runSche = r
  /\ \A r, s \in Runners : rpc[r] \in Inside /\ rpc[s] \in Inside => r = s

\* pause and cancel dereference bot, which only run sets and which operator=
\* resets to null: whenever they are about to, or may, it is set.
RobotBound ==
  /\ InCall("post") \/ InCall("stop") \/ InCall("request") \/ InCall("wait")
       => bot
  /\ status \in {"EXECING", "PAUSE", "CANCEL"} => bot

\* No run gets past its prologue once executed_count is above max_count, even
\* when several threads were started for the same task.
RunBudget ==
  status \in {"EXECING", "PAUSE", "CANCEL"} => executed <= MaxCountOf(cur)

\* The robot executes an action only of the task that is held, and only while
\* that task is EXECING: never of a paused, cancelled, ended or replaced one.
ActsOnlyExecing ==
  \A r \in Runners : Acting(r) =>
    status = "EXECING" /\ index[r] \in 1 .. Len(ActionsOf(cur))

\* In a paused task the device says STOPPED: the action that the pause interrupted
\* has left its wait, and no other has begun.  This is of the service alone; the
\* robot may move all the same, as PauseStopsRobot of ServiceClaims shows.
PausedMeansStopped == status = "PAUSE" => bodyStatus = "STOPPED"

\* No action begins between the request of a stop and its return, which would
\* stop it in the place of the action that was meant.  SubscribedCall relies on it.
StopAdmitsNone ==
  InCall("request") \/ InCall("wait") =>
    \A r \in Runners : rpc[r] = "exec" => status # "EXECING"

\* A stop request does not outlive the call of stop that made it.  If it did,
\* the next interruptible action would be stopped and tried again for ever.
NoStaleStop == bodyRequest = "REQ_STOP" => InCall("wait")

\* A thread that only pause, resume or cancel can free, all three calls of the
\* message loop.
WaitsForCall(r) ==
  At(r, "paused") /\ reqStatus \notin {"REQ_RESUME", "REQ_CANCEL"}

\* The loops at the end of pause, resume and cancel have no time limit: the
\* status they poll for is there, or a thread inside run is still to set it that
\* does not in its turn wait for the message loop.
CallAnswered ==
  InCall("ack") =>
    \/ status \in AcknowledgedBy[ctl]
    \/ \E r \in Runners : runSche = r /\ ~WaitsForCall(r)

\* Nor has the loop in device_mqtt's stop: the device is RUNNING for an action
\* that a thread is in and that sees the request.
StopAnswered ==
  InCall("wait") =>
    \/ bodyStatus # "RUNNING"
    \/ /\ bodyRequest = "REQ_STOP"
       /\ \E r \in Runners :
            Acting(r) /\ ActionsOf(cur)[index[r]] \in Stoppable

\* operator= waits for run_sche on the thread that resumes and cancels: the
\* thread that holds it is not one that waits for a resume or a cancel.
AssignAnswered ==
  MainAt("assign") => \A r \in Runners : runSche = r => ~WaitsForCall(r)

\* operator=, with its comment: no task is replaced while a thread is inside
\* run, which reads action_list, max_count and executed_count without a lock.
TaskDataStable ==
  [][\A r \in Runners : rpc[r] \in Inside /\ rpc'[r] \in Inside
       => UNCHANGED cur]_vars

\* A request that pause or cancel has stored holds once the call has returned: no
\* action begins until the operator, the end of a charge or a new task replaces it.
\* A call that met a task set and not begun has stored nothing, and is not covered:
\* after it the task begins, as NoActionAfterCancel of ServiceClaims shows.
RequestHolds ==
  [][ctl = "none" /\ reqStatus \in {"REQ_PAUSE", "REQ_CANCEL"}
       => \A r \in Runners : Acting(r)' => Acting(r)]_vars

\* The comment on mqtt_msg_handler has messages handled in their order, so that
\* a resume follows a pause: a paused task goes on only if the operator's last
\* command was to resume it.
PauseStands ==
  [][status = "PAUSE" /\ status' = "EXECING" => asked = "resume"]_vars

-----------------------------------------------------------------------------
(* The inductive invariant                                                 *)

\* The values of status that a thread inside run can meet at each label.
StatusAt ==
  [label \in Inside |->
     CASE label \in Prologue            -> {"INIT", "END"}
       [] label = "paused"              -> {"PAUSE"}
       [] label \in {"publish", "acting"} -> {"EXECING"}
       [] label = "finish"              -> {"EXECING", "CANCEL"}
       [] label = "over"                -> {"END"}
       [] OTHER                         -> {"EXECING", "PAUSE"}]

RunnerHoldsLock == \A r \in Runners : rpc[r] \in Inside <=> runSche = r

StatusOfRunner ==
  /\ \A r \in Runners : rpc[r] \in Inside => status \in StatusAt[rpc[r]]
  /\ runSche = NoThread => status \in {"INIT", "END"}

RunnerAdmitted ==
  \A r \in Runners : rpc[r] \in Loop \cup {"finish"} =>
    bot /\ executed <= MaxCountOf(cur)

RunnerIndex ==
  \A r \in Runners : rpc[r] \in Loop => index[r] \in 1 .. Len(ActionsOf(cur))

\* Past its check, a call has a robot; past its post, its request is the last.
CallBound ==
  /\ InCall("post") \/ InCall("stop") \/ InCall("request") \/ InCall("wait")
       => bot
  /\ ctl # "none" /\ cat \notin {"check", "post"} => reqStatus = RequestOf[ctl]

\* A pause or cancel that waits for the runner.
Pending == ctl \in {"pause", "cancel"} /\ cat \notin {"check", "post"}

\* A thread that has passed the test of a request has not missed it: the call
\* that made the request still waits.
RequestSeen ==
  \A r \in Runners :
    /\ reqStatus = "REQ_CANCEL"
       /\ rpc[r] \in {"ifResume", "ifPause", "paused", "exec"} => Pending
    /\ reqStatus = "REQ_PAUSE"
       /\ rpc[r] = "exec" /\ status = "EXECING" => Pending

ArgWellFormed ==
  mpc \in {"prioritize", "replace", "assign"} => arg \in Tasks /\ WellFormed(arg)

\* What the thread inside run relies on, and what the calls rely on.
RunnerInv == RunnerHoldsLock /\ StatusOfRunner /\ RunnerAdmitted /\ RunnerIndex
CallInv == CallBound /\ RequestSeen /\ NoStaleStop

\* run_sche and the one thread inside run, status and the label of that thread,
\* the request and the call that made it: every step preserves them together.
IInv == TypeOK /\ RunnerInv /\ CallInv /\ ArgWellFormed

-----------------------------------------------------------------------------
(* Liveness                                                                *)

\* The loop gets back to its queue from every message: from pause, resume and
\* cancel, which wait for the runner, and from operator=, which waits for
\* run_sche.
HandlerReturns == ~MainAt("pop") ~> MainAt("pop")

\* The part of it that concerns the comments on task::pause, task::resume and
\* task::cancel: the call returns.
ControlReturns == ctl # "none" ~> ctl = "none"

\* A run of a task ends unless the task is left paused: no stop and no resume
\* makes it try the same action for ever.
RunEnds == \A r \in Runners : runSche = r ~> runSche # r \/ status = "PAUSE"


=============================================================================
