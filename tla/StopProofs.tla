------------------------------- MODULE StopProofs -------------------------------
(***************************************************************************)
(* What a stop of the robot means for the task: no call of an action is in *)
(* progress in a paused task, and a stop meets the action it was made for. *)
(*                                                                         *)
(* Both hold because the device is RUNNING only while the one thread       *)
(* inside run is in an action that will see a stop.  That is false of a    *)
(* charge that the message loop makes itself, and after an action that     *)
(* raises, so the theorems assume that neither happens.                    *)
(***************************************************************************)
EXTENDS SmartServiceProofs

\* No message makes the loop charge, and no action raises.
Regular ==
  /\ "battery" \notin Messages
  /\ \A t \in Tasks : \A i \in 1 .. Len(ActionList[t]) :
       ActionList[t][i] # "malformed"

KindOf(r) == ActionsOf(cur)[index[r]]

\* The device is RUNNING for the action that a thread is in.
BodyFollows ==
  /\ mpc \notin {"charge", "charging"}
  /\ bodyStatus = "RUNNING" =>
       \E r \in Runners : Acting(r) /\ KindOf(r) \in Stoppable

\* resume stops no device.
StopAsked == InCall("stop") => ctl # "resume"

Stopping == InCall("request") \/ InCall("wait")

\* Until a stop has returned, the thread it was made for meets the request of the
\* call: cancel ends the loop, and pause keeps it in its wait.
StopWaits ==
  Stopping =>
    /\ ctl \in {"pause", "cancel"}
    /\ \A r \in Runners :
         /\ rpc[r] # "exec"
         /\ rpc[r] \in {"ifCancel", "ifResume", "ifPause"} => status = "EXECING"
         /\ ctl = "cancel" => rpc[r] \notin {"ifResume", "ifPause", "paused"}

-----------------------------------------------------------------------------
(* Lemmas                                                                  *)

\* Two threads inside run are the same.
LEMMA OneInside ==
  ASSUME IInv, NEW r \in Runners, NEW s \in Runners,
         rpc[r] \in Inside, rpc[s] \in Inside
  PROVE  r = s
BY DEF IInv, RunnerInv, RunnerHoldsLock

\* The action of a thread in the loop is one of its task's, and does not raise.
LEMMA KindInLoop ==
  ASSUME IInv, Regular, NEW r \in Runners, rpc[r] \in Loop
  PROVE  KindOf(r) # "malformed"
<1>1. index[r] \in 1 .. Len(ActionsOf(cur))
  BY DEF IInv, RunnerInv, RunnerIndex
<1>2. CASE cur = NoTask
  BY <1>1, <1>2 DEF ActionsOf
<1>3. CASE cur # NoTask
  <2>1. cur \in Tasks /\ ActionsOf(cur) = ActionList[cur]
    BY <1>3 DEF ActionsOf, IInv, TypeOK, TaskTypeOK
  <2>. QED  BY <1>1, <2>1 DEF KindOf, Regular
<1>. QED  BY <1>2, <1>3

\* A thread moves its own index only.
LEMMA RunnerIndexes ==
  ASSUME IInv, NEW r \in Runners, RunnersStep(r)
  PROVE  \A s \in Runners \ {r} : index'[s] = index[s]
<1>1. index \in [Runners -> Nat]
  BY DEF IInv, TypeOK, TaskTypeOK
<1>2. UNCHANGED index \/ index' = [index EXCEPT ![r] = 1]
      \/ index' = [index EXCEPT ![r] = @ + 1]
  BY DEF RunnersStep, RunnerStep, ThreadStep, LockRunSche, WillStart,
         BeginOrRefuse, IfCancel, IfResume, IfPause, WaitPaused, ExecAction,
         PublishAction, PlainDone, ReportDone, NextAction, ActionStopped,
         ActionRaises, Finish, OverCallback
<1>. QED  BY <1>1, <1>2

\* The device follows the steps of a thread.
LEMMA RunnerBody ==
  ASSUME IInv, Regular, BodyFollows, NEW r \in Runners, RunnersStep(r)
  PROVE  BodyFollows'
<1>1. mpc' \notin {"charge", "charging"} /\ UNCHANGED cur
  BY RunnerMoves DEF BodyFollows, mainVars
<1>2. rpc \in [Runners -> Inside \cup {"none", "lock"}] /\ rpc' = [rpc EXCEPT ![r] = rpc'[r]]
  BY RunnerMoves DEF IInv, TypeOK, TaskTypeOK
<1>. SUFFICES ASSUME bodyStatus' = "RUNNING"
              PROVE  (\E s \in Runners : Acting(s) /\ KindOf(s) \in Stoppable)'
  BY <1>1 DEF BodyFollows
<1>3. ASSUME bodyStatus = "RUNNING", rpc[r] \in Inside
      PROVE  Acting(r) /\ KindOf(r) \in Stoppable
  BY <1>3, OneInside DEF BodyFollows, Acting, Inside, Loop
<1>4. ASSUME bodyStatus = "RUNNING", ~Acting(r)
      PROVE  (\E s \in Runners : Acting(s) /\ KindOf(s) \in Stoppable)'
  <2>1. PICK s \in Runners : Acting(s) /\ KindOf(s) \in Stoppable
    BY <1>4 DEF BodyFollows
  <2>2. s # r /\ rpc'[s] = rpc[s] /\ index'[s] = index[s]
    BY <1>2, <1>4, <2>1, RunnerIndexes
  <2>. QED  BY <1>1, <2>1, <2>2 DEF Acting, KindOf, ActionsOf
<1>5. CASE ExecAction(r)
  <2>1. rpc[r] = "exec" /\ rpc[r] \in Loop /\ rpc[r] \in Inside /\ ~Acting(r)
    BY <1>5 DEF ExecAction, At, Loop, Inside, Acting
  <2>2. bodyStatus # "RUNNING"
    BY <1>3, <2>1
  <2>3. KindOf(r) \in Blocking /\ rpc'[r] = "publish" /\ UNCHANGED index
    BY <1>2, <1>5, <2>2 DEF ExecAction, Enter, Goto, KindOf, deviceVars
  <2>4. KindOf(r) \in Stoppable
    BY <2>1, <2>3, KindInLoop DEF Blocking, Stoppable
  <2>. QED  BY <1>1, <2>3, <2>4 DEF Acting, KindOf, ActionsOf
<1>6. CASE PublishAction(r)
  <2>1. rpc[r] \in Inside /\ bodyStatus = "RUNNING" /\ UNCHANGED index
    BY <1>6 DEF PublishAction, Publish, At, Inside, Loop
  <2>2. rpc'[r] = "acting"
    BY <1>2, <1>6 DEF PublishAction, Goto
  <2>. QED  BY <1>1, <1>3, <2>1, <2>2 DEF Acting, KindOf, ActionsOf
<1>7. CASE PlainDone(r)
  <2>1. rpc[r] \in Inside /\ bodyStatus = "RUNNING" /\ KindOf(r) \notin Blocking
    BY <1>7 DEF PlainDone, ReturnPlain, At, Inside, Loop, KindOf, deviceVars
  <2>. QED  BY <1>3, <2>1 DEF Blocking, Stoppable
<1>8. CASE ReportDone(r) \/ ActionStopped(r)
  BY <1>8 DEF ReportDone, ReturnReported, ActionStopped, ReturnStopped
<1>9. CASE ActionRaises(r)
  <2>1. rpc[r] \in Loop /\ KindOf(r) = "malformed"
    BY <1>9 DEF ActionRaises, Raise, At, Loop, KindOf
  <2>. QED  BY <2>1, KindInLoop
<1>10. CASE LockRunSche(r) \/ WillStart(r) \/ BeginOrRefuse(r) \/ IfCancel(r)
            \/ IfResume(r) \/ IfPause(r) \/ WaitPaused(r) \/ Finish(r)
            \/ OverCallback(r)
  <2>1. UNCHANGED bodyStatus /\ ~Acting(r)
    BY <1>10
       DEF LockRunSche, WillStart, BeginOrRefuse, IfCancel, IfResume, IfPause,
           WaitPaused, Finish, OverCallback, At, Acting, deviceVars
  <2>. QED  BY <1>4, <2>1
<1>. QED
  BY <1>5, <1>6, <1>7, <1>8, <1>9, <1>10 DEF RunnersStep, RunnerStep, ThreadStep

\* Until a stop has returned, no step of a thread gets to the next action.
LEMMA RunnerStops ==
  ASSUME IInv, StopWaits, NEW r \in Runners, RunnersStep(r)
  PROVE  StopWaits'
<1>1. UNCHANGED <<reqStatus, ctl, cat>>
  BY RunnerMoves
<1>2. rpc \in [Runners -> Inside \cup {"none", "lock"}] /\ rpc' = [rpc EXCEPT ![r] = rpc'[r]]
  BY RunnerMoves DEF IInv, TypeOK, TaskTypeOK
<1>. SUFFICES ASSUME Stopping
              PROVE  StopWaits'
  BY <1>1 DEF StopWaits, Stopping, InCall
<1>3. ctl \in {"pause", "cancel"} /\ reqStatus = RequestOf[ctl]
  BY DEF StopWaits, Stopping, InCall, IInv, CallInv, CallBound
<1>4. /\ ctl = "pause" => reqStatus = "REQ_PAUSE"
      /\ ctl = "cancel" => reqStatus = "REQ_CANCEL"
  BY <1>3 DEF RequestOf
<1>5. /\ rpc[r] # "exec"
      /\ rpc[r] \in {"ifCancel", "ifResume", "ifPause"} => status = "EXECING"
      /\ ctl = "cancel" => rpc[r] \notin {"ifResume", "ifPause", "paused"}
  BY DEF StopWaits
<1>6. /\ rpc'[r] # "exec"
      /\ rpc'[r] \in {"ifCancel", "ifResume", "ifPause"} => status' = "EXECING"
      /\ ctl = "cancel" => rpc'[r] \notin {"ifResume", "ifPause", "paused"}
  <2>1. CASE BeginOrRefuse(r)
    BY <1>2, <2>1 DEF BeginOrRefuse, Goto, LoopHead
  <2>2. CASE IfCancel(r)
    BY <1>2, <1>3, <1>4, <1>5, <2>2 DEF IfCancel, Goto, At
  <2>3. CASE IfResume(r)
    BY <1>2, <1>3, <1>4, <1>5, <2>3 DEF IfResume, Goto, At
  <2>4. CASE IfPause(r)
    BY <1>2, <1>3, <1>4, <1>5, <2>4 DEF IfPause, Goto, At
  <2>5. CASE WaitPaused(r)
    BY <1>3, <1>4, <1>5, <2>5 DEF WaitPaused, At
  <2>6. CASE ExecAction(r)
    BY <1>5, <2>6 DEF ExecAction, At
  <2>7. CASE PlainDone(r) \/ ReportDone(r) \/ ActionStopped(r)
    <3>1. rpc[r] = "acting" /\ rpc[r] \in Inside /\ UNCHANGED status
      BY <2>7 DEF PlainDone, ReportDone, NextAction, ActionStopped, At, Inside, Loop
    <3>2. status = "EXECING"
      BY <3>1, HolderFacts, StatusAtLabels DEF IInv
    <3>3. rpc'[r] \in {"ifCancel", "finish"}
      BY <1>2, <2>7
         DEF PlainDone, ReportDone, NextAction, ActionStopped, Goto, LoopHead
    <3>. QED  BY <3>1, <3>2, <3>3
  <2>8. CASE LockRunSche(r) \/ WillStart(r) \/ PublishAction(r)
             \/ ActionRaises(r) \/ Finish(r) \/ OverCallback(r)
    BY <1>2, <2>8
       DEF LockRunSche, WillStart, PublishAction, ActionRaises, Finish,
           OverCallback, Goto
  <2>. QED
    BY <2>1, <2>2, <2>3, <2>4, <2>5, <2>6, <2>7, <2>8
       DEF RunnersStep, RunnerStep, ThreadStep
<1>7. ASSUME NEW s \in Runners \ {r}
      PROVE  /\ rpc'[s] # "exec"
             /\ rpc'[s] \in {"ifCancel", "ifResume", "ifPause"} => status' = "EXECING"
             /\ ctl = "cancel" => rpc'[s] \notin {"ifResume", "ifPause", "paused"}
  <2>1. rpc'[s] = rpc[s]
    BY <1>2
  <2>2. rpc[r] \notin Inside => UNCHANGED status
    BY DEF RunnersStep, RunnerStep, ThreadStep, LockRunSche, WillStart,
           BeginOrRefuse, IfCancel, IfResume, IfPause, WaitPaused, ExecAction,
           PublishAction, PlainDone, ReportDone, NextAction, ActionStopped,
           ActionRaises, Finish, OverCallback, At, Inside, Prologue, Loop,
           Epilogue
  <2>3. rpc[r] \in Inside => rpc[s] \notin Inside
    BY OneInside
  <2>. QED  BY <2>1, <2>2, <2>3 DEF StopWaits, Inside, Loop
<1>. QED  BY <1>1, <1>3, <1>6, <1>7 DEF StopWaits

\* Only pause and cancel get to the call of stop.
LEMMA AskedStep ==
  ASSUME IInv, StopAsked, [Next]_vars
  PROVE  StopAsked'
<1>1. CASE \E r \in Runners : RunnersStep(r)
  BY <1>1, RunnerMoves DEF StopAsked, InCall
<1>2. CASE CtlStep
  BY <1>2
     DEF CtlStep, CtlCheck, CtlPost, CtlStop, CtlStopRequest, CtlStopWait,
         CtlAck, Proceed, Return, StopAsked, InCall
<1>3. CASE Recv \/ EndCharge
  BY <1>3
     DEF Recv, RecvStart, RecvControl, RecvRealTimeCtrl, RecvLowBattery,
         EndCharge, Receives, MainAt, Call, StopAsked, InCall, taskVars, ctlVars
<1>4. CASE MainStep /\ ~CtlStep
  BY <1>4
     DEF MainStep, Prioritize, Replace, AssignTask, Assign, InstallCallbacks,
         SpawnRunner, Spawn, Forward, StartCharge, MainAt, Call, StopAsked,
         InCall, taskVars, ctlVars
<1>5. CASE RobotArrives \/ UNCHANGED vars
  BY <1>5 DEF RobotArrives, StopAsked, InCall, vars, taskVars, ctlVars
<1>. QED  BY <1>1, <1>2, <1>3, <1>4, <1>5 DEF Next

\* A step of the message loop, of its calls or of the robot.
LEMMA LoopStops ==
  ASSUME IInv, Regular, BodyFollows, StopAsked, StopWaits,
         Recv \/ MainStep \/ EndCharge \/ RobotArrives
  PROVE  BodyFollows' /\ StopWaits'
<1>. DEFINE Frame == UNCHANGED <<bodyStatus, rpc, index, cur>>
<1>1. Frame /\ mpc' \notin {"charge", "charging"} => BodyFollows'
  BY DEF BodyFollows, Acting, KindOf, ActionsOf
<1>2. CASE Recv
  <2>1. Frame /\ mpc' \notin {"charge", "charging"}
    BY <1>2
       DEF Recv, RecvStart, RecvControl, RecvRealTimeCtrl, RecvLowBattery,
           Receives, MainAt, BodyFollows, Regular, taskVars, taskData, deviceVars
  <2>2. ~Stopping'
    BY <1>2
       DEF Recv, RecvStart, RecvControl, RecvRealTimeCtrl, RecvLowBattery,
           Receives, MainAt, Call, Stopping, InCall, taskVars, ctlVars
  <2>. QED  BY <1>1, <2>1, <2>2 DEF StopWaits
<1>3. CASE CtlStep /\ UNCHANGED mainVars
  <2>1. Frame /\ UNCHANGED <<mpc, status>>
    BY <1>3
       DEF CtlStep, CtlCheck, CtlPost, CtlStop, CtlStopRequest, CtlStopWait,
           CtlAck, StopIdle, StopRequest, StopDone, taskData, deviceVars, mainVars
  <2>2. BodyFollows'
    BY <1>1, <2>1 DEF BodyFollows
  <2>3. CASE CtlStop
    <3>1. CASE bodyStatus # "RUNNING"
      BY <2>2, <2>3, <3>1 DEF CtlStop, Proceed, Stopping, InCall, StopWaits
    <3>2. CASE bodyStatus = "RUNNING"
      <4>1. PICK s \in Runners : Acting(s)
        BY <3>2 DEF BodyFollows
      <4>2. \A r \in Runners \ {s} : rpc[r] \notin Inside
        BY <4>1, OneInside DEF Acting, Inside, Loop
      <4>3. \A r \in Runners :
              rpc[r] \notin {"ifCancel", "ifResume", "ifPause", "paused", "exec"}
        BY <4>1, <4>2 DEF Acting, Inside, Loop
      <4>4. ctl \in {"pause", "cancel"} /\ UNCHANGED ctl
        <5>1. ctl # "resume"
          BY <2>3 DEF CtlStop, InCall, StopAsked
        <5>. QED  BY <2>3, <3>2, <5>1 DEF CtlStop, Proceed, InCall, IInv, TypeOK, TaskTypeOK
      <4>. QED  BY <2>1, <2>2, <4>3, <4>4 DEF StopWaits
    <3>. QED  BY <3>1, <3>2
  <2>4. CASE CtlStopRequest
    <3>1. Stopping /\ UNCHANGED ctl
      BY <2>4 DEF CtlStopRequest, Stopping, Proceed
    <3>. QED  BY <2>1, <2>2, <3>1 DEF StopWaits
  <2>5. CASE CtlCheck \/ CtlPost \/ CtlStopWait \/ CtlAck
    <3>1. ~Stopping'
      BY <2>5
         DEF CtlCheck, CtlPost, CtlStopWait, CtlAck, Proceed, Return, Stopping,
             InCall
    <3>. QED  BY <2>2, <3>1 DEF StopWaits
  <2>. QED  BY <1>3, <2>3, <2>4, <2>5 DEF CtlStep
<1>4. CASE AssignTask
  <2>1. \A r \in Runners : ~Acting(r)
    BY <1>4, RunnersAssumption
       DEF AssignTask, Assign, IInv, RunnerInv, RunnerHoldsLock, Acting, Inside,
           Loop
  <2>2. bodyStatus' # "RUNNING" /\ mpc' = "install" /\ ~Stopping'
    BY <1>4, <2>1
       DEF AssignTask, Assign, MainAt, BodyFollows, Stopping, InCall, deviceVars,
           ctlVars
  <2>. QED  BY <2>2 DEF BodyFollows, StopWaits
<1>5. CASE SpawnRunner
  <2>1. PICK s \in Runners : Spawn(s)
    BY <1>5 DEF SpawnRunner
  <2>2. \A r \in Runners : Acting(r) => rpc'[r] = rpc[r]
    BY <2>1 DEF Spawn, At, Goto, Acting, IInv, TypeOK, TaskTypeOK
  <2>3. UNCHANGED <<bodyStatus, index, cur, ctl>> /\ mpc' = "pop" /\ ctl = "none"
    BY <1>5, <2>1
       DEF SpawnRunner, Spawn, MainAt, taskData, deviceVars, ctlVars
  <2>. QED
    BY <2>2, <2>3
       DEF BodyFollows, StopWaits, Stopping, InCall, Acting, KindOf, ActionsOf
<1>6. CASE Prioritize \/ Replace \/ InstallCallbacks \/ Forward
  <2>1. Frame /\ mpc' \notin {"charge", "charging"}
    BY <1>6
       DEF Prioritize, Replace, InstallCallbacks, Forward, taskVars, taskData,
           deviceVars
  <2>2. ~Stopping'
    BY <1>6
       DEF Prioritize, Replace, InstallCallbacks, Forward, MainAt, Call,
           Stopping, InCall, taskVars, ctlVars
  <2>. QED  BY <1>1, <2>1, <2>2 DEF StopWaits
<1>7. CASE StartCharge \/ EndCharge
  BY <1>7 DEF StartCharge, EndCharge, MainAt, BodyFollows
<1>8. CASE RobotArrives
  <2>1. Frame /\ UNCHANGED <<mpc, status, ctl, cat>>
    BY <1>8 DEF RobotArrives, Arrive, taskVars, taskData, ctlVars, mainVars
  <2>2. BodyFollows'
    BY <1>1, <2>1 DEF BodyFollows
  <2>3. StopWaits'
    BY <2>1 DEF StopWaits, Stopping, InCall
  <2>. QED  BY <2>2, <2>3
<1>. QED
  BY <1>2, <1>3, <1>4, <1>5, <1>6, <1>7, <1>8 DEF MainStep

-----------------------------------------------------------------------------
(* Theorems                                                                *)

\* When nothing charges beside the task and no action raises, the device is
\* RUNNING for a thread's action only and a stop holds back the next one.
LEMMA Stops ==
  ASSUME Regular
  PROVE  Spec => [](BodyFollows /\ StopWaits)
<1>. DEFINE StopInv == BodyFollows /\ StopAsked /\ StopWaits
<1>1. Init => StopInv
  BY DEF Init, DeviceInit, TaskInit, BodyFollows, StopAsked, StopWaits,
         Stopping, InCall
<1>2. ASSUME IInv, StopInv, [Next]_vars
      PROVE  BodyFollows' /\ StopWaits'
  <2>1. CASE \E r \in Runners : RunnersStep(r)
    BY <1>2, <2>1, RunnerBody, RunnerStops
  <2>2. CASE Recv \/ MainStep \/ EndCharge \/ RobotArrives
    BY <1>2, <2>2, LoopStops
  <2>3. CASE UNCHANGED vars
    BY <1>2, <2>3
       DEF BodyFollows, StopWaits, Stopping, InCall, Acting, KindOf, ActionsOf,
           vars, deviceVars, taskVars, taskData, ctlVars, mainVars
  <2>. QED  BY <1>2, <2>1, <2>2, <2>3 DEF Next
<1>3. IInv /\ StopInv /\ [Next]_vars => StopInv'
  BY <1>2, AskedStep
<1>. QED  BY Invariance, <1>1, <1>3, PTL DEF Spec

\* In a paused task the device says STOPPED: no call of an action is left in it.
THEOREM PausedStopped ==
  ASSUME Regular
  PROVE  Spec => []PausedMeansStopped
<1>1. ASSUME IInv, BodyFollows, status = "PAUSE"
      PROVE  bodyStatus = "STOPPED"
  <2>1. ASSUME NEW r \in Runners, Acting(r) PROVE FALSE
    <3>1. rpc[r] \in {"publish", "acting"} /\ rpc[r] \in Inside
      BY <2>1 DEF Acting, Inside, Loop
    <3>. QED  BY <1>1, <3>1, HolderFacts, StatusAtLabels DEF IInv
  <2>. QED  BY <1>1, <2>1 DEF BodyFollows, IInv, TypeOK, DeviceTypeOK
<1>2. IInv /\ BodyFollows /\ StopWaits => PausedMeansStopped
  BY <1>1 DEF PausedMeansStopped
<1>. QED  BY Invariance, Stops, <1>2, PTL

\* No action begins while a stop is made, so it stops the one it was made for.
THEOREM StopMeetsItsAction ==
  ASSUME Regular
  PROVE  Spec => []StopAdmitsNone
<1>1. StopWaits => StopAdmitsNone
  BY DEF StopWaits, StopAdmitsNone, Stopping
<1>. QED  BY Stops, <1>1, PTL

=============================================================================
