------------------------------- MODULE TaskRun -------------------------------
(***************************************************************************)
(* The object smart_service::current_task: class task of task.hpp and      *)
(* task.cpp.  Detached threads execute task::run, one thread calls pause,  *)
(* resume, cancel and operator=.  A step is what one thread does between   *)
(* two accesses that another thread can tell apart: the two atomics status *)
(* and req_status, the mutex run_sche and the atomics of the device.       *)
(*                                                                         *)
(* The mutex control is not a variable: pause, resume and cancel are       *)
(* called by the message loop's thread alone, so it is never contended.    *)
(***************************************************************************)
EXTENDS ActionBody, Integers

CONSTANTS
  Runners,              \* threads that may execute task::run at the same time
  Tasks,                \* the "start" messages of the backend and of cron
  NoTask,               \* the default constructed task
  Priority,             \* task::priority of each start message
  MaxCount,             \* task::max_count
  ExecutedCount,        \* task::executed_count, as the message carries it
  ActionList            \* task::action_list: the kinds, sorted by action::no

ASSUME TasksAssumption ==
  /\ NoTask \notin Tasks
  /\ Priority \in [Tasks -> Int]
  /\ MaxCount \in [Tasks -> Nat]
  /\ ExecutedCount \in [Tasks -> Nat]
  /\ ActionList \in [Tasks -> Seq(Kinds)]

CONSTANT NoThread
ASSUME RunnersAssumption == NoThread \notin Runners

VARIABLES
  status,               \* task::status
  reqStatus,            \* task::req_status
  bot,                  \* task::bot is not null
  cur,                  \* the task held: its priority, max_count, action_list
  executed,             \* task::executed_count
  callbacks,            \* "empty" or "installed": the six callbacks
  runSche,              \* the thread that holds task::run_sche
  rpc,                  \* where each runner is in task::run
  index,                \* the local i of each runner's loop
  ctl,                  \* the control call in progress: pause, resume, cancel
  cat                   \* where it is

taskData == <<bot, cur, executed, callbacks>>
ctlVars == <<ctl, cat>>
taskVars == <<status, reqStatus, taskData, runSche, rpc, index, ctlVars>>

Statuses == {"INIT", "PAUSE", "EXECING", "CANCEL", "END"}
Requests == {"INIT", "REQ_PAUSE", "REQ_RESUME", "REQ_CANCEL"}

\* Labels of task::run: waiting for run_sche, before the loop, in the loop and
\* after it.
Prologue == {"willStart", "budget"}
Loop == {"ifCancel", "ifResume", "ifPause", "paused", "exec", "publish",
         "acting"}
Epilogue == {"finish", "over"}
Inside == Prologue \cup Loop \cup Epilogue

PriorityOf(t) == IF t = NoTask THEN 0 ELSE Priority[t]
MaxCountOf(t) == IF t = NoTask THEN 0 ELSE MaxCount[t]
ActionsOf(t) == IF t = NoTask THEN <<>> ELSE ActionList[t]

\* from_json raises runtime_error otherwise.
WellFormed(t) ==
  /\ Priority[t] \in 0 .. 999
  /\ ExecutedCount[t] < MaxCount[t]

TaskTypeOK ==
  /\ status \in Statuses
  /\ reqStatus \in Requests
  /\ bot \in BOOLEAN
  /\ cur \in Tasks \cup {NoTask}
  /\ executed \in Nat
  /\ callbacks \in {"empty", "installed"}
  /\ runSche \in Runners \cup {NoThread}
  /\ rpc \in [Runners -> Inside \cup {"none", "lock"}]
  /\ index \in [Runners -> Nat]
  /\ ctl \in {"none", "pause", "resume", "cancel"}
  /\ cat \in {"check", "post", "stop", "request", "wait", "ack"}

TaskInit ==
  /\ status = "INIT"
  /\ reqStatus = "INIT"
  /\ bot = FALSE
  /\ cur = NoTask
  /\ executed = 0
  /\ callbacks = "empty"
  /\ runSche = NoThread
  /\ rpc = [r \in Runners |-> "none"]
  /\ index = [r \in Runners |-> 0]
  /\ ctl = "none"
  /\ cat = "check"

-----------------------------------------------------------------------------
(* task::run on thread r                                                   *)

At(r, label) == rpc[r] = label
Goto(r, label) == rpc' = [rpc EXCEPT ![r] = label]

\* The for-condition i < action_list.size(), for the action numbered i from 1.
LoopHead(i) == IF i <= Len(ActionsOf(cur)) THEN "ifCancel" ELSE "finish"

\* Variant: the lock is not taken.
LockRunScheUnguarded(r) ==
  /\ At(r, "lock")
  /\ runSche' = r
  /\ Goto(r, "willStart")
  /\ UNCHANGED <<status, reqStatus, taskData, index, ctlVars, deviceVars>>

\* std::scoped_lock lock(run_sche).
LockRunSche(r) ==
  /\ At(r, "lock")
  /\ runSche = NoThread
  /\ runSche' = r
  /\ Goto(r, "willStart")
  /\ UNCHANGED <<status, reqStatus, taskData, index, ctlVars, deviceVars>>

\* ++executed_count and task_will_start_callback.
WillStart(r) ==
  /\ At(r, "willStart")
  /\ executed' = executed + 1
  /\ Goto(r, "budget")
  /\ UNCHANGED <<status, reqStatus, bot, cur, callbacks, runSche, index,
                 ctlVars, deviceVars>>

\* Variants: one run too many, one too few.
OneRunMore == executed <= MaxCountOf(cur) + 1
OneRunLess == executed < MaxCountOf(cur)

\* !(executed_count > max_count), after ++executed_count.
BudgetLeft == executed <= MaxCountOf(cur)

\* Without a run left the task ends, otherwise the loop starts.
BeginOrRefuse(r) ==
  /\ At(r, "budget")
  /\ \/ /\ ~BudgetLeft
        /\ status' = "END"
        /\ Goto(r, "over")
        /\ UNCHANGED <<bot, index>>
     \/ /\ BudgetLeft
        /\ bot' = TRUE
        /\ status' = "EXECING"
        /\ index' = [index EXCEPT ![r] = 1]
        /\ Goto(r, LoopHead(1))
  /\ UNCHANGED <<reqStatus, cur, executed, callbacks, runSche, ctlVars,
                 deviceVars>>

\* Variant: a paused task is not cancelled.
IfCancelExecing(r) ==
  /\ At(r, "ifCancel")
  /\ IF reqStatus = "REQ_CANCEL" /\ status = "EXECING"
     THEN status' = "CANCEL" /\ Goto(r, "finish")
     ELSE Goto(r, "ifResume") /\ UNCHANGED status
  /\ UNCHANGED <<reqStatus, taskData, runSche, index, ctlVars, deviceVars>>

\* if (req_status == REQ_CANCEL), with cancel_callback.
IfCancel(r) ==
  /\ At(r, "ifCancel")
  /\ IF reqStatus = "REQ_CANCEL" /\ status \in {"EXECING", "PAUSE"}
     THEN status' = "CANCEL" /\ Goto(r, "finish")
     ELSE Goto(r, "ifResume") /\ UNCHANGED status
  /\ UNCHANGED <<reqStatus, taskData, runSche, index, ctlVars, deviceVars>>

\* if (req_status == REQ_RESUME).
IfResume(r) ==
  /\ At(r, "ifResume")
  /\ status' = IF reqStatus = "REQ_RESUME" /\ status = "PAUSE"
               THEN "EXECING" ELSE status
  /\ Goto(r, "ifPause")
  /\ UNCHANGED <<reqStatus, taskData, runSche, index, ctlVars, deviceVars>>

\* Variant: the request is stored in status.
IfPauseStoresRequest(r) ==
  /\ At(r, "ifPause")
  /\ IF reqStatus = "REQ_PAUSE" /\ status = "EXECING"
     THEN status' = "REQ_PAUSE" /\ Goto(r, "paused")
     ELSE Goto(r, "exec") /\ UNCHANGED status
  /\ UNCHANGED <<reqStatus, taskData, runSche, index, ctlVars, deviceVars>>

\* if (req_status == REQ_PAUSE), with pause_callback.
IfPause(r) ==
  /\ At(r, "ifPause")
  /\ IF reqStatus = "REQ_PAUSE" /\ status = "EXECING"
     THEN status' = "PAUSE" /\ Goto(r, "paused")
     ELSE Goto(r, "exec") /\ UNCHANGED status
  /\ UNCHANGED <<reqStatus, taskData, runSche, index, ctlVars, deviceVars>>

\* Variant: whatever ends the wait resumes the task.
WaitPausedResumes(r) ==
  /\ At(r, "paused")
  /\ reqStatus \in {"REQ_RESUME", "REQ_CANCEL"}
  /\ status' = "EXECING"
  /\ Goto(r, "exec")
  /\ UNCHANGED <<reqStatus, taskData, runSche, index, ctlVars, deviceVars>>

\* while (req_status != REQ_RESUME && req_status != REQ_CANCEL), left.
WaitPaused(r) ==
  /\ At(r, "paused")
  /\ reqStatus \in {"REQ_RESUME", "REQ_CANCEL"}
  /\ Goto(r, "exec")
  /\ UNCHANGED <<status, reqStatus, taskData, runSche, index, ctlVars,
                 deviceVars>>

\* Variant: status is not tested again after the wait of a paused task.
ExecActionUntested(r) ==
  /\ At(r, "exec")
  /\ Lookup(ActionsOf(cur)[index[r]])
  /\ Enter(ActionsOf(cur)[index[r]])
  /\ Goto(r, "publish")
  /\ UNCHANGED <<status, reqStatus, taskData, runSche, index, ctlVars>>

\* if (status == EXECING): action_start_callback and the call of the action.  A
\* code that is not found ends the task.  The call is entered here, its command
\* is published by the next step.
ExecAction(r) ==
  /\ At(r, "exec")
  /\ LET kind == ActionsOf(cur)[index[r]]
     IN \/ /\ status # "EXECING"
           /\ Goto(r, "ifCancel")
           /\ UNCHANGED deviceVars
        \/ /\ status = "EXECING" /\ Lookup(kind)
           /\ Enter(kind)
           /\ Goto(r, "publish")
        \/ /\ status = "EXECING" /\ ~Lookup(kind)
           /\ Goto(r, "finish")
           /\ UNCHANGED deviceVars
  /\ UNCHANGED <<status, reqStatus, taskData, runSche, index, ctlVars>>

PublishAction(r) ==
  /\ At(r, "publish")
  /\ Publish(ActionsOf(cur)[index[r]])
  /\ Goto(r, "acting")
  /\ UNCHANGED <<status, reqStatus, taskData, runSche, index, ctlVars>>

\* Variant: ++i is forgotten.
NextActionSame(r) ==
  /\ Goto(r, LoopHead(index[r]))
  /\ UNCHANGED <<status, reqStatus, taskData, runSche, index, ctlVars>>

\* The action returns a result: action_result_callback and ++i.
NextAction(r) ==
  /\ index' = [index EXCEPT ![r] = @ + 1]
  /\ Goto(r, LoopHead(index[r] + 1))
  /\ UNCHANGED <<status, reqStatus, taskData, runSche, ctlVars>>

PlainDone(r) ==
  /\ At(r, "acting")
  /\ ReturnPlain(ActionsOf(cur)[index[r]])
  /\ NextAction(r)

ReportDone(r) ==
  /\ At(r, "acting")
  /\ ReturnReported(ActionsOf(cur)[index[r]])
  /\ NextAction(r)

\* The result holds "emergency_stop": the same action is tried again.
ActionStopped(r) ==
  /\ At(r, "acting")
  /\ ReturnStopped(ActionsOf(cur)[index[r]])
  /\ Goto(r, "ifCancel")
  /\ UNCHANGED <<status, reqStatus, taskData, runSche, index, ctlVars>>

\* A caught exception: action_result_callback and break.
ActionRaises(r) ==
  /\ At(r, "acting")
  /\ Raise(ActionsOf(cur)[index[r]])
  /\ Goto(r, "finish")
  /\ UNCHANGED <<status, reqStatus, taskData, runSche, index, ctlVars>>

\* Variant: the end of the task is not recorded.
FinishSilently(r) ==
  /\ At(r, "finish")
  /\ Goto(r, "over")
  /\ UNCHANGED <<status, reqStatus, taskData, runSche, index, ctlVars,
                 deviceVars>>

\* status = END after the loop.
Finish(r) ==
  /\ At(r, "finish")
  /\ status' = "END"
  /\ Goto(r, "over")
  /\ UNCHANGED <<reqStatus, taskData, runSche, index, ctlVars, deviceVars>>

\* over_callback, and run_sche is released.
OverCallback(r) ==
  /\ At(r, "over")
  /\ runSche' = NoThread
  /\ Goto(r, "none")
  /\ UNCHANGED <<status, reqStatus, taskData, index, ctlVars, deviceVars>>

\* The steps that need nothing from the robot.
ThreadStep(r) ==
  \/ LockRunSche(r) \/ WillStart(r) \/ BeginOrRefuse(r)
  \/ IfCancel(r) \/ IfResume(r) \/ IfPause(r) \/ WaitPaused(r)
  \/ ExecAction(r) \/ PublishAction(r)
  \/ PlainDone(r) \/ ActionStopped(r) \/ ActionRaises(r)
  \/ Finish(r) \/ OverCallback(r)

RunnerStep(r) == ThreadStep(r) \/ ReportDone(r)

-----------------------------------------------------------------------------
(* task::pause, task::resume and task::cancel on the message loop's thread *)

\* Variant: a task that has not begun may be paused.
AdmittedBeforeBegin == [pause  |-> {"INIT", "EXECING"},
                        resume |-> {"PAUSE"},
                        cancel |-> {"EXECING", "PAUSE"}]

AdmittedIn == [pause  |-> {"EXECING"},
               resume |-> {"PAUSE"},
               cancel |-> {"EXECING", "PAUSE"}]
RequestOf == [pause |-> "REQ_PAUSE", resume |-> "REQ_RESUME",
              cancel |-> "REQ_CANCEL"]
AcknowledgedBy == [pause  |-> {"PAUSE", "END"},
                   resume |-> {"EXECING", "END"},
                   cancel |-> {"END"}]

InCall(label) == ctl # "none" /\ cat = label
Call(op) == ctl' = op /\ cat' = "check"
Return == ctl' = "none" /\ cat' = "check"
Proceed(label) == cat' = label /\ UNCHANGED ctl

\* The outer if of the three functions.
CtlCheck ==
  /\ InCall("check")
  /\ IF status \in AdmittedIn[ctl] THEN Proceed("post") ELSE Return
  /\ UNCHANGED <<status, reqStatus, taskData, runSche, rpc, index, deviceVars>>

\* Variant: the devices are stopped and no request is stored.
CtlPostNothing ==
  /\ InCall("post")
  /\ Proceed(IF ctl # "resume" /\ StopReaches THEN "stop" ELSE "ack")
  /\ UNCHANGED <<status, reqStatus, taskData, runSche, rpc, index, deviceVars>>

\* req_status is stored; pause and cancel then stop every device of bot.
CtlPost ==
  /\ InCall("post")
  /\ reqStatus' = RequestOf[ctl]
  /\ Proceed(IF ctl # "resume" /\ StopReaches THEN "stop" ELSE "ack")
  /\ UNCHANGED <<status, taskData, runSche, rpc, index, deviceVars>>

CtlStop ==
  /\ InCall("stop")
  /\ IF bodyStatus = "RUNNING"
     THEN Proceed("request") /\ UNCHANGED deviceVars
     ELSE StopIdle /\ Proceed("ack")
  /\ UNCHANGED <<status, reqStatus, taskData, runSche, rpc, index>>

CtlStopRequest ==
  /\ InCall("request")
  /\ StopRequest
  /\ Proceed("wait")
  /\ UNCHANGED <<status, reqStatus, taskData, runSche, rpc, index>>

CtlStopWait ==
  /\ InCall("wait")
  /\ StopDone
  /\ Proceed("ack")
  /\ UNCHANGED <<status, reqStatus, taskData, runSche, rpc, index>>

\* Variant: the call does not wait for the runner.
CtlAckAtOnce ==
  /\ InCall("ack")
  /\ Return
  /\ UNCHANGED <<status, reqStatus, taskData, runSche, rpc, index, deviceVars>>

\* The polling loop at the end of the three functions, left.
CtlAck ==
  /\ InCall("ack")
  /\ status \in AcknowledgedBy[ctl]
  /\ Return
  /\ UNCHANGED <<status, reqStatus, taskData, runSche, rpc, index, deviceVars>>

CtlStep ==
  CtlCheck \/ CtlPost \/ CtlStop \/ CtlStopRequest \/ CtlStopWait \/ CtlAck

-----------------------------------------------------------------------------
(* The rest of the object                                                  *)

\* Variant: operator= does not lock run_sche.
AssignUnlocked(t) ==
  /\ cur' = t
  /\ executed' = ExecutedCount[t]
  /\ status' = "INIT"
  /\ reqStatus' = "INIT"
  /\ bot' = FALSE
  /\ callbacks' = "empty"
  /\ UNCHANGED <<runSche, rpc, index, ctlVars, deviceVars>>

\* Variant: the request of the replaced task stays.
AssignKeepsRequest(t) ==
  /\ runSche = NoThread
  /\ cur' = t
  /\ executed' = ExecutedCount[t]
  /\ status' = "INIT"
  /\ bot' = FALSE
  /\ callbacks' = "empty"
  /\ UNCHANGED <<reqStatus, runSche, rpc, index, ctlVars, deviceVars>>

\* operator=, which holds run_sche from its first line to its last, with the
\* task that task(task_json) made: no thread, no robot, empty callbacks.
Assign(t) ==
  /\ runSche = NoThread
  /\ cur' = t
  /\ executed' = ExecutedCount[t]
  /\ status' = "INIT"
  /\ reqStatus' = "INIT"
  /\ bot' = FALSE
  /\ callbacks' = "empty"
  /\ UNCHANGED <<runSche, rpc, index, ctlVars, deviceVars>>

\* std::thread(&task::run, &current_task, std::ref(bot)).detach().
Spawn(r) ==
  /\ At(r, "none")
  /\ Goto(r, "lock")
  /\ UNCHANGED <<status, reqStatus, taskData, runSche, index, ctlVars,
                 deviceVars>>

=============================================================================
