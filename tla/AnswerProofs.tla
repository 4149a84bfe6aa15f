------------------------------ MODULE AnswerProofs ------------------------------
(***************************************************************************)
(* The message loop is one thread, and it waits without a time limit in    *)
(* three places: for the status that pause, resume and cancel poll, for    *)
(* the device that stop() polls, and for run_sche in operator=.  In none   *)
(* of them does it wait for a thread that waits for it.                    *)
(*                                                                         *)
(* This is the safety half of HandlerReturns, which also needs that the    *)
(* threads are scheduled and that the robot ends its moves.                *)
(***************************************************************************)
EXTENDS StopProofs

\* Every task that can be set has one run left.
RunOnce == \A t \in Tasks : WellFormed(t) => MaxCount[t] = ExecutedCount[t] + 1

\* A call past its check has a task that has begun, and a task that has not has
\* no request; the thread that pauses has seen one.
RequestInv ==
  /\ ctl # "none" /\ cat # "check" => status # "INIT"
  /\ status = "INIT" => reqStatus = "INIT"
  /\ status = "PAUSE" => reqStatus # "INIT"

\* A call that waits for the device has made its request.
StopPosted == InCall("wait") => bodyRequest = "REQ_STOP"

\* executed_count is max_count from the first run on, and more in a second one.
CountReached ==
  /\ executed + 1 >= MaxCountOf(cur)
  /\ status # "INIT" => executed >= MaxCountOf(cur)
  /\ \A r \in Runners : rpc[r] = "budget" =>
       /\ executed >= MaxCountOf(cur)
       /\ status = "END" => executed > MaxCountOf(cur)

\* When operator= is next, the task held has met no request since it was set, or
\* its run is ending or over.
LeftAlone ==
  mpc = "assign" =>
    /\ ctl = "none" => reqStatus = "INIT" \/ status \in {"CANCEL", "END"}
    /\ ctl # "none" => ctl = "cancel" /\ status # "INIT"

-----------------------------------------------------------------------------
(* Lemmas                                                                  *)

\* max_count is a natural number, that of the default task too.
LEMMA CountTypes ==
  ASSUME IInv
  PROVE  executed \in Nat /\ MaxCountOf(cur) \in Nat
BY TasksAssumption DEF IInv, TypeOK, TaskTypeOK, MaxCountOf

\* What a thread does to status and executed_count, and where it does it.
LEMMA RunnerStatus ==
  ASSUME IInv, NEW r \in Runners, RunnersStep(r)
  PROVE  /\ status' = "INIT" => status = "INIT"
         /\ status = "INIT" => status' = "INIT" \/ rpc[r] = "budget"
         /\ status \in {"CANCEL", "END"} =>
              \/ status' \in {"CANCEL", "END"}
              \/ rpc[r] = "budget" /\ executed <= MaxCountOf(cur)
         /\ rpc'[r] = "budget" =>
              /\ rpc[r] = "willStart" /\ UNCHANGED status
              /\ executed' = executed + 1
         /\ rpc'[r] # "budget" => UNCHANGED executed
<1>1. rpc \in [Runners -> Inside \cup {"none", "lock"}]
  BY DEF IInv, TypeOK, TaskTypeOK
<1>2. rpc[r] \in Inside => status \in StatusAt[rpc[r]]
  BY HolderFacts DEF IInv
<1>. USE <1>1, <1>2, StatusAtLabels DEF At, Goto, taskData
<1>3. CASE LockRunSche(r)
  BY <1>3 DEF LockRunSche
<1>4. CASE WillStart(r)
  BY <1>4 DEF WillStart
<1>5. CASE BeginOrRefuse(r)
  BY <1>5 DEF BeginOrRefuse, BudgetLeft, LoopHead
<1>6. CASE IfCancel(r) \/ IfResume(r) \/ IfPause(r) \/ WaitPaused(r)
  BY <1>6 DEF IfCancel, IfResume, IfPause, WaitPaused, Inside, Loop
<1>7. CASE ExecAction(r) \/ PublishAction(r)
  BY <1>7 DEF ExecAction, PublishAction
<1>8. CASE PlainDone(r) \/ ReportDone(r)
  BY <1>8 DEF PlainDone, ReportDone, NextAction, LoopHead
<1>9. CASE ActionStopped(r) \/ ActionRaises(r)
  BY <1>9 DEF ActionStopped, ActionRaises
<1>10. CASE Finish(r) \/ OverCallback(r)
  BY <1>10 DEF Finish, OverCallback, Inside, Epilogue
<1>. QED
  BY <1>3, <1>4, <1>5, <1>6, <1>7, <1>8, <1>9, <1>10
     DEF RunnersStep, RunnerStep, ThreadStep

-----------------------------------------------------------------------------
(* Requests and calls                                                      *)

\* A thread makes no request, and pauses only on one.
LEMMA RunnerRequests ==
  ASSUME IInv, RequestInv, NEW r \in Runners, RunnersStep(r)
  PROVE  RequestInv'
<1>1. UNCHANGED <<reqStatus, ctl, cat>>
  BY RunnerMoves
<1>. QED  BY <1>1, RunnerStatus, RunnerResumes DEF RequestInv

\* A call makes its request after its check, and operator= is the only other
\* writer of status and req_status.
LEMMA LoopRequests ==
  ASSUME IInv, RequestInv, Recv \/ MainStep \/ EndCharge \/ RobotArrives
  PROVE  RequestInv'
<1>1. CASE CtlStep
  <2>1. ctl \in {"pause", "resume", "cancel"} /\ UNCHANGED status
    BY <1>1
       DEF CtlStep, CtlCheck, CtlPost, CtlStop, CtlStopRequest, CtlStopWait,
           CtlAck, InCall, IInv, TypeOK, TaskTypeOK
  <2>2. CASE CtlCheck
    BY <2>1, <2>2 DEF CtlCheck, AdmittedIn, Proceed, Return, RequestInv
  <2>3. CASE CtlPost
    BY <2>1, <2>3 DEF CtlPost, InCall, RequestOf, Proceed, RequestInv
  <2>4. CASE CtlStop \/ CtlStopRequest \/ CtlStopWait
    BY <2>1, <2>4
       DEF CtlStop, CtlStopRequest, CtlStopWait, InCall, Proceed, RequestInv
  <2>5. CASE CtlAck
    BY <2>1, <2>5 DEF CtlAck, Return, RequestInv
  <2>. QED  BY <1>1, <2>2, <2>3, <2>4, <2>5 DEF CtlStep
<1>2. CASE AssignTask
  BY <1>2 DEF AssignTask, Assign, MainAt, ctlVars, RequestInv
<1>3. CASE ~CtlStep /\ ~AssignTask
  <2>1. UNCHANGED <<status, reqStatus>> /\ (UNCHANGED ctlVars \/ cat' = "check")
    BY <1>3
       DEF Recv, RecvStart, RecvControl, RecvRealTimeCtrl, RecvLowBattery, Call,
           MainStep, Prioritize, Replace, InstallCallbacks, SpawnRunner, Spawn,
           Forward, StartCharge, EndCharge, RobotArrives, taskVars
  <2>. QED  BY <2>1 DEF RequestInv, ctlVars
<1>. QED  BY <1>1, <1>2, <1>3

\* RequestInv holds throughout.
LEMMA Requested == Spec => []RequestInv
<1>1. Init => RequestInv
  BY DEF Init, TaskInit, RequestInv
<1>2. IInv /\ RequestInv /\ [Next]_vars => RequestInv'
  <2>1. ASSUME RequestInv, UNCHANGED vars PROVE RequestInv'
    BY <2>1 DEF RequestInv, vars, taskVars, ctlVars
  <2>. QED  BY <2>1, RunnerRequests, LoopRequests DEF Next
<1>. QED  BY Invariance, <1>1, <1>2, PTL DEF Spec

\* The request to stop stays until the call of stop has returned.
LEMMA Posted == Spec => []StopPosted
<1>1. Init => StopPosted
  BY DEF Init, TaskInit, StopPosted, InCall
<1>2. ASSUME IInv, StopPosted, [Next]_vars
      PROVE  StopPosted'
  <2>1. CASE \E r \in Runners : RunnersStep(r)
    BY <1>2, <2>1, RunnerMoves DEF StopPosted, InCall
  <2>2. CASE CtlStep
    BY <1>2, <2>2
       DEF CtlStep, CtlCheck, CtlPost, CtlStop, CtlStopRequest, CtlStopWait,
           CtlAck, StopRequest, Proceed, Return, StopPosted, InCall
  <2>3. CASE (Recv \/ MainStep \/ EndCharge \/ RobotArrives) /\ ~CtlStep
    <3>1. UNCHANGED <<ctlVars, bodyRequest>> \/ cat' = "check"
      BY <2>3
         DEF Recv, RecvStart, RecvControl, RecvRealTimeCtrl, RecvLowBattery,
             Call, MainStep, Prioritize, Replace, AssignTask, Assign,
             InstallCallbacks, SpawnRunner, Spawn, Forward, StartCharge,
             EndCharge, RobotArrives, Arrive, taskVars, deviceVars
    <3>. QED  BY <1>2, <3>1 DEF StopPosted, InCall, ctlVars
  <2>4. CASE UNCHANGED vars
    BY <1>2, <2>4 DEF StopPosted, InCall, vars, deviceVars, taskVars, ctlVars
  <2>. QED  BY <1>2, <2>1, <2>2, <2>3, <2>4 DEF Next
<1>3. IInv /\ StopPosted /\ [Next]_vars => StopPosted'
  BY <1>2
<1>. QED  BY Invariance, <1>1, <1>3, PTL DEF Spec

-----------------------------------------------------------------------------
(* Tasks that run once                                                     *)

\* A thread counts a run before it begins, and begins none beyond max_count.
LEMMA RunnerCounts ==
  ASSUME IInv, CountReached, NEW r \in Runners, RunnersStep(r)
  PROVE  CountReached'
<1>1. /\ UNCHANGED cur
      /\ rpc' = [rpc EXCEPT ![r] = rpc'[r]]
      /\ rpc \in [Runners -> Inside \cup {"none", "lock"}]
  BY RunnerMoves DEF IInv, TypeOK, TaskTypeOK
<1>2. /\ executed \in Nat /\ MaxCountOf(cur) \in Nat
      /\ MaxCountOf(cur') = MaxCountOf(cur)
  BY <1>1, CountTypes DEF MaxCountOf
<1>3. executed' = executed \/ executed' = executed + 1
  BY RunnerStatus
<1>4. status' # "INIT" => executed' >= MaxCountOf(cur')
  <2>1. CASE status # "INIT"
    BY <1>2, <1>3, <2>1 DEF CountReached
  <2>2. CASE status = "INIT" /\ rpc[r] = "budget"
    BY <1>2, <1>3, <2>2 DEF CountReached
  <2>. QED  BY <2>1, <2>2, RunnerStatus
<1>5. ASSUME NEW s \in Runners, rpc'[s] = "budget"
      PROVE  /\ executed' >= MaxCountOf(cur')
             /\ status' = "END" => executed' > MaxCountOf(cur')
  <2>1. CASE s = r
    <3>1. status' = status /\ executed' = executed + 1
      BY <1>5, <2>1, RunnerStatus
    <3>. QED  BY <1>2, <3>1 DEF CountReached
  <2>2. CASE s # r
    <3>1. rpc[s] = "budget" /\ rpc[r] \notin Inside
      BY <1>1, <1>5, <2>2, OneInside DEF Inside, Prologue
    <3>2. UNCHANGED status
      BY <3>1
         DEF RunnersStep, RunnerStep, ThreadStep, LockRunSche, WillStart,
             BeginOrRefuse, IfCancel, IfResume, IfPause, WaitPaused, ExecAction,
             PublishAction, PlainDone, ReportDone, ActionStopped, ActionRaises,
             Finish, OverCallback, At, Inside, Prologue, Loop, Epilogue
    <3>. QED  BY <1>2, <1>3, <3>1, <3>2 DEF CountReached
  <2>. QED  BY <2>1, <2>2
<1>. QED  BY <1>2, <1>3, <1>4, <1>5 DEF CountReached

\* A task that is ending or over is left so until it is replaced.
LEMMA RunnerLeaves ==
  ASSUME IInv, CountReached, LeftAlone, NEW r \in Runners, RunnersStep(r)
  PROVE  LeftAlone'
<1>1. UNCHANGED <<reqStatus, ctl, mpc>>
  BY RunnerMoves DEF mainVars
<1>2. executed \in Nat /\ MaxCountOf(cur) \in Nat
  BY CountTypes
<1>3. ASSUME status \in {"CANCEL", "END"}
      PROVE  status' \in {"CANCEL", "END"}
  <2>1. ASSUME rpc[r] = "budget", executed <= MaxCountOf(cur)
        PROVE  FALSE
    <3>1. status = "END"
      BY <1>3, <2>1, HolderFacts, StatusAtLabels DEF IInv, Inside, Prologue
    <3>. QED  BY <1>2, <2>1, <3>1 DEF CountReached
  <2>. QED  BY <1>3, <2>1, RunnerStatus
<1>. QED  BY <1>1, <1>3, RunnerStatus DEF LeftAlone

\* operator= sets a task with one run left while no thread is inside run.
LEMMA LoopCounts ==
  ASSUME RunOnce, IInv, CountReached,
         Recv \/ MainStep \/ EndCharge \/ RobotArrives
  PROVE  CountReached'
<1>1. CASE AssignTask
  <2>1. arg \in Tasks /\ WellFormed(arg) /\ \A r \in Runners : rpc[r] # "budget"
    BY <1>1, RunnersAssumption
       DEF AssignTask, Assign, MainAt, IInv, ArgWellFormed, RunnerInv,
           RunnerHoldsLock, Inside, Prologue
  <2>2. /\ UNCHANGED rpc /\ status' = "INIT"
        /\ executed' = ExecutedCount[arg] /\ MaxCountOf(cur') = MaxCount[arg]
    BY <1>1, <2>1, TasksAssumption DEF AssignTask, Assign, MaxCountOf
  <2>3. MaxCount[arg] = ExecutedCount[arg] + 1 /\ ExecutedCount[arg] \in Nat
    BY <2>1, TasksAssumption DEF RunOnce
  <2>. QED  BY <2>1, <2>2, <2>3 DEF CountReached
<1>2. CASE SpawnRunner
  <2>1. UNCHANGED <<status, executed, cur>>
        /\ \A r \in Runners : rpc'[r] = "budget" => rpc[r] = "budget"
    BY <1>2
       DEF SpawnRunner, Spawn, Goto, taskData, IInv, TypeOK, TaskTypeOK
  <2>. QED  BY <2>1 DEF CountReached, MaxCountOf
<1>3. CASE ~AssignTask /\ ~SpawnRunner
  <2>1. UNCHANGED <<status, executed, cur, rpc>>
    BY <1>3
       DEF Recv, RecvStart, RecvControl, RecvRealTimeCtrl, RecvLowBattery,
           MainStep, Prioritize, Replace, InstallCallbacks, Forward,
           StartCharge, EndCharge, RobotArrives, CtlStep, CtlCheck, CtlPost,
           CtlStop, CtlStopRequest, CtlStopWait, CtlAck, taskVars, taskData
  <2>. QED  BY <2>1 DEF CountReached, MaxCountOf
<1>. QED  BY <1>1, <1>2, <1>3

\* set_current_task cancels the task that has begun and is not over, and the
\* call of cancel returns when it is ending or over.
LEMMA LoopLeaves ==
  ASSUME IInv, RequestInv, LeftAlone,
         Recv \/ MainStep \/ EndCharge \/ RobotArrives
  PROVE  LeftAlone'
<1>1. CASE Replace
  <2>1. ctl = "none" /\ UNCHANGED <<status, reqStatus>> /\ status \in Statuses
    BY <1>1 DEF Replace, MainAt, IInv, TypeOK, TaskTypeOK
  <2>2. CASE status \in {"INIT", "END"}
    BY <1>1, <2>1, <2>2 DEF Replace, ctlVars, RequestInv, LeftAlone
  <2>3. CASE status \notin {"INIT", "END"}
    BY <1>1, <2>1, <2>3 DEF Replace, Call, LeftAlone
  <2>. QED  BY <2>2, <2>3
<1>2. CASE CtlStep /\ UNCHANGED mainVars
  <2>1. ctl # "none" /\ UNCHANGED <<status, mpc>> /\ status \in Statuses
    BY <1>2
       DEF CtlStep, CtlCheck, CtlPost, CtlStop, CtlStopRequest, CtlStopWait,
           CtlAck, InCall, mainVars, IInv, TypeOK, TaskTypeOK
  <2>2. CASE CtlCheck
    BY <2>1, <2>2
       DEF CtlCheck, AdmittedIn, Proceed, Return, Statuses, LeftAlone
  <2>3. CASE CtlAck
    BY <2>1, <2>3 DEF CtlAck, AcknowledgedBy, Return, LeftAlone
  <2>4. CASE CtlPost \/ CtlStop \/ CtlStopRequest \/ CtlStopWait
    BY <2>1, <2>4
       DEF CtlPost, CtlStop, CtlStopRequest, CtlStopWait, Proceed, LeftAlone
  <2>. QED  BY <1>2, <2>2, <2>3, <2>4 DEF CtlStep
<1>3. CASE RobotArrives
  BY <1>3 DEF RobotArrives, taskVars, ctlVars, mainVars, LeftAlone
<1>4. CASE ~Replace /\ ~(CtlStep /\ UNCHANGED mainVars) /\ ~RobotArrives
  <2>1. mpc' # "assign"
    BY <1>4
       DEF Recv, RecvStart, RecvControl, RecvRealTimeCtrl, RecvLowBattery,
           Receives, MainStep, Prioritize, AssignTask, InstallCallbacks,
           SpawnRunner, Forward, StartCharge, EndCharge, MainAt
  <2>. QED  BY <2>1 DEF LeftAlone
<1>. QED  BY <1>1, <1>2, <1>3, <1>4

-----------------------------------------------------------------------------
(* Theorems                                                                *)

\* What pause, resume and cancel poll for is there or comes from a thread that
\* does not wait for the message loop.
THEOREM CallsAnswered == Spec => []CallAnswered
<1>1. ASSUME IInv, RequestInv, InCall("ack"),
             ~\E r \in Runners : runSche = r /\ ~WaitsForCall(r)
      PROVE  status \in AcknowledgedBy[ctl]
  <2>1. ctl \in {"pause", "resume", "cancel"} /\ status # "INIT"
        /\ reqStatus = RequestOf[ctl]
    BY <1>1
       DEF InCall, RequestInv, IInv, TypeOK, TaskTypeOK, CallInv, CallBound
  <2>2. CASE runSche = NoThread
    BY <1>1, <2>1, <2>2
       DEF IInv, RunnerInv, StatusOfRunner, AcknowledgedBy
  <2>3. CASE runSche # NoThread
    <3>1. PICK r \in Runners : runSche = r /\ WaitsForCall(r)
      BY <1>1, <2>3 DEF IInv, TypeOK, TaskTypeOK
    <3>2. status = "PAUSE"
      BY <1>1, <3>1, HolderFacts, StatusAtLabels
         DEF WaitsForCall, At, IInv, Inside, Loop
    <3>3. ctl = "pause"
      BY <2>1, <3>1 DEF WaitsForCall, RequestOf
    <3>. QED  BY <3>2, <3>3 DEF AcknowledgedBy
  <2>. QED  BY <2>2, <2>3
<1>2. IInv /\ RequestInv => CallAnswered
  BY <1>1 DEF CallAnswered
<1>. QED  BY Invariance, Requested, <1>2, PTL

\* The device that stop() polls is RUNNING for an action that sees its request.
THEOREM StopsAnswered ==
  ASSUME Regular
  PROVE  Spec => []StopAnswered
<1>1. IInv /\ BodyFollows /\ StopWaits /\ StopPosted => StopAnswered
  BY DEF BodyFollows, StopPosted, StopAnswered, KindOf
<1>. QED  BY Invariance, Stops, Posted, <1>1, PTL

\* When every task runs once, the thread that operator= waits for is not paused.
THEOREM AssignsAnswered ==
  ASSUME RunOnce
  PROVE  Spec => []AssignAnswered
<1>. DEFINE OnceInv == CountReached /\ LeftAlone
<1>1. Init => OnceInv
  BY DEF Init, TaskInit, CountReached, LeftAlone, MaxCountOf
<1>2. ASSUME IInv, RequestInv, OnceInv, [Next]_vars
      PROVE  OnceInv'
  <2>1. CASE \E r \in Runners : RunnersStep(r)
    BY <1>2, <2>1, RunnerCounts, RunnerLeaves
  <2>2. CASE Recv \/ MainStep \/ EndCharge \/ RobotArrives
    BY <1>2, <2>2, LoopCounts, LoopLeaves
  <2>3. CASE UNCHANGED vars
    BY <1>2, <2>3
       DEF CountReached, LeftAlone, MaxCountOf, vars, taskVars, taskData,
           ctlVars, mainVars
  <2>. QED  BY <1>2, <2>1, <2>2, <2>3 DEF Next
<1>3. ASSUME IInv, RequestInv, OnceInv
      PROVE  AssignAnswered
  <2>. SUFFICES ASSUME MainAt("assign"), NEW r \in Runners, runSche = r,
                       WaitsForCall(r)
                PROVE  FALSE
    BY DEF AssignAnswered
  <2>1. status = "PAUSE"
    BY <1>3, HolderFacts, StatusAtLabels
       DEF WaitsForCall, At, IInv, Inside, Loop
  <2>. QED  BY <1>3, <2>1 DEF MainAt, LeftAlone, RequestInv
<1>4. IInv /\ RequestInv /\ OnceInv /\ [Next]_vars => OnceInv'
  BY <1>2
<1>5. IInv /\ RequestInv /\ OnceInv => AssignAnswered
  BY <1>3
<1>. QED  BY Invariance, Requested, <1>1, <1>4, <1>5, PTL DEF Spec

=============================================================================
