--------------------------- MODULE SmartServiceProofs ---------------------------
(***************************************************************************)
(* What SmartService promises for any tasks, messages and threads.         *)
(*                                                                         *)
(* IInv is inductive: a step of a thread inside run is a step of the       *)
(* holder of run_sche (HolderGoto), every other step leaves the variables  *)
(* of RunnerInv as they are (RunnerFrame) or finds run_sche free.          *)
(***************************************************************************)
EXTENDS SmartService, TLAPS

-----------------------------------------------------------------------------
(* Lemmas                                                                  *)

\* The cases of StatusAt, one by one.
LEMMA StatusAtLabels ==
  /\ StatusAt["willStart"] = {"INIT", "END"}
  /\ StatusAt["budget"] = {"INIT", "END"}
  /\ StatusAt["ifCancel"] = {"EXECING", "PAUSE"}
  /\ StatusAt["ifResume"] = {"EXECING", "PAUSE"}
  /\ StatusAt["ifPause"] = {"EXECING", "PAUSE"}
  /\ StatusAt["paused"] = {"PAUSE"}
  /\ StatusAt["exec"] = {"EXECING", "PAUSE"}
  /\ StatusAt["publish"] = {"EXECING"}
  /\ StatusAt["acting"] = {"EXECING"}
  /\ StatusAt["finish"] = {"EXECING", "CANCEL"}
  /\ StatusAt["over"] = {"END"}
<1>1. Inside = {"willStart", "budget", "ifCancel", "ifResume", "ifPause",
                "paused", "exec", "publish", "acting", "finish", "over"}
  BY DEF Inside, Prologue, Loop, Epilogue
<1>. QED  BY <1>1 DEF StatusAt, Prologue

\* RunnerInv speaks of these variables only.
LEMMA RunnerFrame ==
  ASSUME RunnerInv,
         UNCHANGED <<status, bot, cur, executed, runSche, rpc, index>>
  PROVE  RunnerInv'
BY DEF RunnerInv, RunnerHoldsLock, StatusOfRunner, RunnerAdmitted, RunnerIndex,
       ActionsOf, MaxCountOf

\* CallInv speaks of these variables only.
LEMMA CallFrame ==
  ASSUME CallInv,
         UNCHANGED <<status, reqStatus, bot, rpc, ctl, cat, bodyRequest>>
  PROVE  CallInv'
BY DEF CallInv, CallBound, RequestSeen, NoStaleStop, InCall, Pending

\* The holder of run_sche goes from one label inside run to another: RunnerInv
\* has to be shown of that thread alone, as no other is inside.
LEMMA HolderGoto ==
  ASSUME TypeOK, RunnerInv, NEW r \in Runners,
         rpc[r] \in Inside,
         rpc' = [rpc EXCEPT ![r] = rpc'[r]],
         rpc'[r] \in Inside,
         runSche' = runSche,
         status' \in StatusAt[rpc'[r]],
         rpc'[r] \in Loop \cup {"finish"} => bot' /\ executed' <= MaxCountOf(cur'),
         rpc'[r] \in Loop => index'[r] \in 1 .. Len(ActionsOf(cur'))
  PROVE  RunnerInv'
<1>1. runSche = r /\ \A s \in Runners \ {r} : rpc[s] \notin Inside
  BY DEF RunnerInv, RunnerHoldsLock
<1>2. \A s \in Runners \ {r} : rpc'[s] = rpc[s]
  BY DEF TypeOK, TaskTypeOK
<1>3. RunnerHoldsLock'
  BY <1>1, <1>2 DEF RunnerHoldsLock
<1>4. StatusOfRunner'
  BY <1>1, <1>2, RunnersAssumption DEF StatusOfRunner
<1>5. \A s \in Runners \ {r} : rpc'[s] \notin Loop \cup {"finish"}
  BY <1>1, <1>2 DEF Inside, Epilogue
<1>6. RunnerAdmitted' /\ RunnerIndex'
  BY <1>5 DEF RunnerAdmitted, RunnerIndex
<1>. QED  BY <1>3, <1>4, <1>6 DEF RunnerInv

\* What RunnerInv says of the thread at a label.
LEMMA HolderFacts ==
  ASSUME TypeOK, RunnerInv, NEW r \in Runners, rpc[r] \in Inside
  PROVE  /\ runSche = r
         /\ status \in StatusAt[rpc[r]]
         /\ rpc[r] \in Loop \cup {"finish"} => bot /\ executed <= MaxCountOf(cur)
         /\ rpc[r] \in Loop => index[r] \in 1 .. Len(ActionsOf(cur))
BY DEF RunnerInv, RunnerHoldsLock, StatusOfRunner, RunnerAdmitted, RunnerIndex

\* A task that executes, is paused or is being cancelled has a thread inside run,
\* which has bound the robot and checked max_count.
LEMMA ExecingAdmitted ==
  ASSUME IInv, status \in {"EXECING", "PAUSE", "CANCEL"}
  PROVE  bot /\ executed <= MaxCountOf(cur)
<1>1. PICK r \in Runners : runSche = r
  BY DEF IInv, TypeOK, TaskTypeOK, RunnerInv, StatusOfRunner
<1>2. rpc[r] \in Inside /\ status \in StatusAt[rpc[r]]
  BY <1>1 DEF IInv, RunnerInv, RunnerHoldsLock, StatusOfRunner
<1>3. rpc[r] \in Loop \cup {"finish"}
  BY <1>2, StatusAtLabels DEF Inside, Prologue, Epilogue
<1>. QED  BY <1>3 DEF IInv, RunnerInv, RunnerAdmitted

-----------------------------------------------------------------------------
(* The steps of a thread in run                                            *)

\* The types of everything a thread in run changes.
LEMMA RunnerTyping ==
  ASSUME IInv, NEW r \in Runners, RunnersStep(r)
  PROVE  TypeOK'
<1>. USE DEF IInv, TypeOK, DeviceTypeOK, TaskTypeOK, MainTypeOK, RunnersStep,
             taskData, ctlVars, mainVars, Goto, Inside, Prologue, Loop,
             Epilogue, Statuses
<1>1. CASE LockRunSche(r)
  BY <1>1 DEF LockRunSche, deviceVars
<1>2. CASE WillStart(r)
  BY <1>2 DEF WillStart, deviceVars
<1>3. CASE BeginOrRefuse(r)
  <2>1. LoopHead(1) \in Inside
    BY DEF LoopHead
  <2>2. CASE ~BudgetLeft /\ status' = "END" /\ Goto(r, "over")
             /\ UNCHANGED <<bot, index>>
    BY <1>3, <2>2 DEF BeginOrRefuse, deviceVars
  <2>3. CASE bot' = TRUE /\ status' = "EXECING" /\ Goto(r, LoopHead(1))
             /\ index' = [index EXCEPT ![r] = 1]
    BY <1>3, <2>1, <2>3 DEF BeginOrRefuse, deviceVars
  <2>. QED  BY <1>3, <2>2, <2>3 DEF BeginOrRefuse
<1>4. CASE IfCancel(r)
  BY <1>4 DEF IfCancel, deviceVars
<1>5. CASE IfResume(r)
  BY <1>5 DEF IfResume, deviceVars
<1>6. CASE IfPause(r)
  BY <1>6 DEF IfPause, deviceVars
<1>7. CASE WaitPaused(r)
  BY <1>7 DEF WaitPaused, deviceVars
<1>8. CASE ExecAction(r)
  BY <1>8 DEF ExecAction, Enter, deviceVars
<1>9. CASE PublishAction(r)
  <2>1. bodyStatus' = bodyStatus /\ bodyRequest' = bodyRequest
    BY <1>9 DEF PublishAction, Publish
  <2>2. sendHeart' \in BOOLEAN /\ robotMoving' \in BOOLEAN
    BY <1>9, Zenon DEF PublishAction, Publish
  <2>3. TaskTypeOK' /\ MainTypeOK'
    BY <1>9 DEF PublishAction
  <2>. QED  BY <2>1, <2>2, <2>3
<1>10. CASE PlainDone(r)
  BY <1>10 DEF PlainDone, LoopHead, NextAction, ReturnPlain, deviceVars
<1>11. CASE ReportDone(r)
  BY <1>11 DEF ReportDone, LoopHead, NextAction, ReturnReported
<1>12. CASE ActionStopped(r)
  BY <1>12 DEF ActionStopped, ReturnStopped
<1>13. CASE ActionRaises(r)
  BY <1>13 DEF ActionRaises, Raise, deviceVars
<1>14. CASE Finish(r)
  BY <1>14 DEF Finish, deviceVars
<1>15. CASE OverCallback(r)
  BY <1>15 DEF OverCallback, deviceVars
<1>. QED
  BY <1>1, <1>2, <1>3, <1>4, <1>5, <1>6, <1>7, <1>8, <1>9, <1>10, <1>11, <1>12, <1>13, <1>14, <1>15
     DEF RunnersStep, RunnerStep, ThreadStep

\* What a thread in run leaves alone: requests, calls and other threads.
LEMMA RunnerMoves ==
  ASSUME IInv, NEW r \in Runners, RunnersStep(r)
  PROVE  /\ UNCHANGED <<reqStatus, ctl, cat, bodyRequest, cur, callbacks,
                        mainVars>>
         /\ bot => bot'
         /\ rpc' = [rpc EXCEPT ![r] = rpc'[r]]
<1>. USE DEF IInv, TypeOK, TaskTypeOK, RunnersStep, Goto, taskData, ctlVars,
             deviceVars
<1>1. CASE LockRunSche(r)
  BY <1>1 DEF LockRunSche
<1>2. CASE WillStart(r)
  BY <1>2 DEF WillStart
<1>3. CASE BeginOrRefuse(r)
  BY <1>3 DEF BeginOrRefuse
<1>4. CASE IfCancel(r)
  BY <1>4 DEF IfCancel
<1>5. CASE IfResume(r)
  BY <1>5 DEF IfResume
<1>6. CASE IfPause(r)
  BY <1>6 DEF IfPause
<1>7. CASE WaitPaused(r)
  BY <1>7 DEF WaitPaused
<1>8. CASE ExecAction(r)
  BY <1>8 DEF ExecAction, Enter
<1>9. CASE PublishAction(r)
  BY <1>9 DEF PublishAction, Publish
<1>10. CASE PlainDone(r)
  BY <1>10 DEF PlainDone, NextAction, ReturnPlain
<1>11. CASE ReportDone(r)
  BY <1>11 DEF ReportDone, NextAction, ReturnReported
<1>12. CASE ActionStopped(r)
  BY <1>12 DEF ActionStopped, ReturnStopped
<1>13. CASE ActionRaises(r)
  BY <1>13 DEF ActionRaises, Raise
<1>14. CASE Finish(r)
  BY <1>14 DEF Finish
<1>15. CASE OverCallback(r)
  BY <1>15 DEF OverCallback
<1>. QED
  BY <1>1, <1>2, <1>3, <1>4, <1>5, <1>6, <1>7, <1>8, <1>9, <1>10, <1>11, <1>12, <1>13, <1>14, <1>15
     DEF RunnerStep, ThreadStep

\* A thread that goes past ifCancel or ifPause has met no request there, or one
\* whose call still waits for it.
LEMMA RunnerCall ==
  ASSUME IInv, NEW r \in Runners, RunnersStep(r)
  PROVE  CallInv'
<1>1. /\ UNCHANGED <<reqStatus, ctl, cat, bodyRequest>>
      /\ bot => bot'
      /\ rpc' = [rpc EXCEPT ![r] = rpc'[r]]
  BY RunnerMoves
<1>2. CallBound' /\ NoStaleStop' /\ Pending' = Pending
  BY <1>1 DEF IInv, CallInv, CallBound, NoStaleStop, InCall, Pending
<1>. DEFINE Passed == {"ifResume", "ifPause", "paused", "exec"}
<1>3. \A s \in Runners \ {r} : rpc'[s] = rpc[s]
  BY <1>1 DEF IInv, TypeOK, TaskTypeOK
<1>4. \A s \in Runners \ {r} : rpc'[s] \notin Passed \/ status' = status
  <2>1. CASE rpc[r] \in Inside
    BY <1>3, <2>1 DEF IInv, RunnerInv, RunnerHoldsLock, Inside, Loop
  <2>2. CASE rpc[r] \notin Inside
    BY <2>2 DEF RunnersStep, RunnerStep, ThreadStep, Inside, Prologue, Loop,
           Epilogue, At, LockRunSche, WillStart, BeginOrRefuse, IfCancel,
           IfResume, IfPause, WaitPaused, ExecAction, PublishAction, PlainDone,
           ReportDone, ActionStopped, ActionRaises, Finish, OverCallback
  <2>. QED  BY <2>1, <2>2
<1>5. /\ reqStatus = "REQ_CANCEL" /\ rpc'[r] \in Passed => Pending
      /\ reqStatus = "REQ_PAUSE" /\ rpc'[r] = "exec" /\ status' = "EXECING"
           => Pending
  <2>. USE DEF At, Goto, IInv, TypeOK, TaskTypeOK, CallInv, RequestSeen
  <2>1. CASE IfCancel(r)
    BY <2>1, HolderFacts, StatusAtLabels
       DEF IfCancel, Inside, Loop
  <2>2. CASE IfResume(r)
    BY <2>2 DEF IfResume
  <2>3. CASE IfPause(r)
    BY <2>3 DEF IfPause
  <2>4. CASE WaitPaused(r)
    BY <2>4, HolderFacts, StatusAtLabels
       DEF WaitPaused, Inside, Loop
  <2>5. CASE rpc'[r] \notin Passed
    BY <2>5
  <2>6. \/ IfCancel(r) \/ IfResume(r) \/ IfPause(r) \/ WaitPaused(r)
        \/ rpc'[r] \notin Passed
    BY DEF RunnersStep, RunnerStep, ThreadStep, LockRunSche, WillStart,
           BeginOrRefuse, ExecAction, PublishAction, PlainDone, ReportDone,
           NextAction, LoopHead, ActionStopped, ActionRaises, Finish,
           OverCallback
  <2>. QED  BY <2>1, <2>2, <2>3, <2>4, <2>5, <2>6
<1>6. RequestSeen'
  BY <1>1, <1>2, <1>3, <1>4, <1>5 DEF IInv, CallInv, RequestSeen
<1>. QED  BY <1>2, <1>6 DEF CallInv

\* A thread in run goes to a label at which status, bot, executed_count and its
\* index are as RunnerInv says.
LEMMA RunnerRunner ==
  ASSUME IInv, NEW r \in Runners, RunnersStep(r)
  PROVE  RunnerInv'
<1>1. rpc' = [rpc EXCEPT ![r] = rpc'[r]] /\ cur' = cur /\ (bot => bot')
  BY RunnerMoves
<1>2. /\ rpc \in [Runners -> Inside \cup {"none", "lock"}]
      /\ index \in [Runners -> Nat] /\ executed \in Nat
      /\ runSche \in Runners \cup {NoThread}
      /\ TypeOK /\ RunnerInv
  BY DEF IInv, TypeOK, TaskTypeOK
<1>3. \A s \in Runners \ {r} : rpc'[s] = rpc[s]
  BY <1>1, <1>2
<1>4. MaxCountOf(cur') = MaxCountOf(cur) /\ ActionsOf(cur') = ActionsOf(cur)
  BY <1>1
<1>. USE DEF At, Goto
<1>5. CASE LockRunSche(r)
  <2>1. \A s \in Runners : rpc[s] \notin Inside
    BY <1>2, <1>5, RunnersAssumption
       DEF LockRunSche, RunnerInv, RunnerHoldsLock
  <2>2. rpc'[r] = "willStart" /\ runSche' = r /\ status' = status
        /\ status \in {"INIT", "END"}
    BY <1>2, <1>5 DEF LockRunSche, RunnerInv, StatusOfRunner
  <2>3. RunnerHoldsLock' /\ StatusOfRunner'
    BY <1>3, <2>1, <2>2, StatusAtLabels, RunnersAssumption
       DEF RunnerHoldsLock, StatusOfRunner, Inside, Prologue
  <2>4. \A s \in Runners : rpc'[s] \notin Loop \cup {"finish"}
    BY <1>3, <2>1, <2>2 DEF Inside, Loop, Epilogue
  <2>. QED  BY <2>3, <2>4 DEF RunnerInv, RunnerAdmitted, RunnerIndex
<1>6. CASE OverCallback(r)
  <2>1. rpc[r] = "over" /\ rpc'[r] = "none"
        /\ runSche' = NoThread /\ status' = status
    BY <1>2, <1>6 DEF OverCallback
  <2>2. status = "END" /\ \A s \in Runners \ {r} : rpc[s] \notin Inside
    BY <1>2, <2>1, StatusAtLabels
       DEF RunnerInv, RunnerHoldsLock, StatusOfRunner, Inside, Epilogue
  <2>3. \A s \in Runners : rpc'[s] \notin Inside
    BY <1>3, <2>1, <2>2 DEF Inside, Prologue, Loop, Epilogue
  <2>. QED
    BY <2>1, <2>2, <2>3, RunnersAssumption
       DEF RunnerInv, RunnerHoldsLock, StatusOfRunner, RunnerAdmitted,
           RunnerIndex, Inside, Epilogue
<1>7. SUFFICES ASSUME ~LockRunSche(r), ~OverCallback(r)
               PROVE  /\ rpc[r] \in Inside /\ rpc'[r] \in Inside
                      /\ runSche' = runSche
                      /\ status' \in StatusAt[rpc'[r]]
                      /\ rpc'[r] \in Loop \cup {"finish"}
                           => bot' /\ executed' <= MaxCountOf(cur)
                      /\ rpc'[r] \in Loop
                           => index'[r] \in 1 .. Len(ActionsOf(cur))
  BY <1>1, <1>2, <1>4, <1>5, <1>6, HolderGoto
<1>8. rpc[r] \in Inside
      => /\ status \in StatusAt[rpc[r]]
         /\ rpc[r] \in Loop \cup {"finish"} => bot /\ executed <= MaxCountOf(cur)
         /\ rpc[r] \in Loop => index[r] \in 1 .. Len(ActionsOf(cur))
  BY <1>2, HolderFacts
<1>. USE <1>1, <1>2, <1>8, StatusAtLabels DEF Inside, Prologue, Loop, Epilogue
<1>9. CASE WillStart(r)
  BY <1>9 DEF WillStart, taskData
<1>10. CASE BeginOrRefuse(r)
  BY <1>10 DEF BeginOrRefuse, BudgetLeft, LoopHead, taskData
<1>11. CASE IfCancel(r)
  BY <1>11 DEF IfCancel, taskData
<1>12. CASE IfResume(r)
  BY <1>12 DEF IfResume, taskData
<1>13. CASE IfPause(r)
  BY <1>13 DEF IfPause, taskData
<1>14. CASE WaitPaused(r)
  BY <1>14 DEF WaitPaused, taskData
<1>15. CASE ExecAction(r)
  BY <1>15 DEF ExecAction, taskData
<1>16. CASE PublishAction(r)
  BY <1>16 DEF PublishAction, taskData
<1>17. CASE PlainDone(r)
  BY <1>17 DEF PlainDone, NextAction, LoopHead, taskData
<1>18. CASE ReportDone(r)
  BY <1>18 DEF ReportDone, NextAction, LoopHead, taskData
<1>19. CASE ActionStopped(r)
  BY <1>19 DEF ActionStopped, taskData
<1>20. CASE ActionRaises(r)
  BY <1>20 DEF ActionRaises, taskData
<1>21. CASE Finish(r)
  BY <1>21 DEF Finish, taskData
<1>. QED
  BY <1>7, <1>9, <1>10, <1>11, <1>12, <1>13, <1>14, <1>15, <1>16, <1>17, <1>18, <1>19, <1>20, <1>21
     DEF RunnersStep, RunnerStep, ThreadStep

-----------------------------------------------------------------------------
(* The steps of the message loop's thread                                  *)

\* The types of what pause, resume and cancel change.
LEMMA ControlTyping ==
  ASSUME TypeOK, CtlStep, UNCHANGED mainVars
  PROVE  TypeOK'
<1>1. UNCHANGED <<status, bot, cur, executed, callbacks, runSche, rpc, index>>
  BY DEF CtlStep, CtlCheck, CtlPost, CtlStop, CtlStopRequest, CtlStopWait,
         CtlAck, taskData
<1>2. ctl \in {"pause", "resume", "cancel"}
  BY DEF CtlStep, CtlCheck, CtlPost, CtlStop, CtlStopRequest, CtlStopWait,
         CtlAck, InCall, TypeOK, TaskTypeOK
<1>3. reqStatus' \in Requests
  BY <1>2 DEF CtlStep, CtlCheck, CtlPost, CtlStop, CtlStopRequest, CtlStopWait,
              CtlAck, RequestOf, Requests, TypeOK, TaskTypeOK
<1>4. /\ ctl' = ctl \/ ctl' = "none"
      /\ cat' \in {"check", "post", "stop", "request", "wait", "ack"}
  BY DEF CtlStep, CtlCheck, CtlPost, CtlStop, CtlStopRequest, CtlStopWait,
         CtlAck, Proceed, Return
<1>5. /\ bodyStatus' = bodyStatus
      /\ bodyRequest' \in {bodyRequest, "INIT", "REQ_STOP"}
  BY DEF CtlStep, CtlCheck, CtlPost, CtlStop, CtlStopRequest, CtlStopWait,
         CtlAck, StopIdle, StopRequest, StopDone, deviceVars
<1>6. \/ UNCHANGED <<sendHeart, robotMoving>>
      \/ sendHeart' = FALSE /\ robotMoving' = FALSE
  BY DEF CtlStep, CtlCheck, CtlPost, CtlStop, CtlStopRequest, CtlStopWait,
         CtlAck, StopIdle, StopRequest, StopDone, deviceVars
<1>7. DeviceTypeOK'
  BY <1>5, <1>6 DEF TypeOK, DeviceTypeOK
<1>8. TaskTypeOK'
  BY <1>1, <1>2, <1>3, <1>4 DEF TypeOK, TaskTypeOK
<1>9. MainTypeOK'
  BY DEF TypeOK, MainTypeOK, mainVars
<1>. QED  BY <1>7, <1>8, <1>9 DEF TypeOK

\* pause, resume and cancel change the request, the call and the device only.
LEMMA ControlStep ==
  ASSUME IInv, CtlStep, UNCHANGED mainVars
  PROVE  IInv'
<1>1. UNCHANGED <<status, bot, cur, executed, callbacks, runSche, rpc, index>>
  BY DEF CtlStep, CtlCheck, CtlPost, CtlStop, CtlStopRequest, CtlStopWait,
         CtlAck, taskData
<1>2. RunnerInv'
  BY <1>1, RunnerFrame DEF IInv
<1>3. ArgWellFormed'
  BY DEF IInv, ArgWellFormed, WellFormed, mainVars
<1>4. TypeOK /\ CallInv /\ StatusOfRunner
  BY DEF IInv, RunnerInv
<1>5. CallInv'
  <2>. USE DEF CallInv, CallBound, NoStaleStop, RequestSeen, Pending, InCall,
               taskData, deviceVars, Proceed, Return
  <2>1. CASE CtlCheck
    <3>1. status \in AdmittedIn[ctl] => bot
      <4>1. ctl \in {"pause", "resume", "cancel"}
        BY <1>4, <2>1 DEF CtlCheck, TypeOK, TaskTypeOK
      <4>2. AdmittedIn[ctl] \subseteq {"EXECING", "PAUSE"}
        BY <4>1 DEF AdmittedIn
      <4>3. status \in {"EXECING", "PAUSE"} => bot
        BY ExecingAdmitted
      <4>. QED  BY <4>2, <4>3
    <3>2. /\ UNCHANGED <<status, reqStatus, bot, rpc, bodyRequest>>
          /\ ~Pending /\ bodyRequest # "REQ_STOP"
          /\ \/ ctl' = "none"
             \/ cat' = "post" /\ bot
      BY <1>1, <1>4, <2>1, <3>1 DEF CtlCheck
    <3>3. CallBound' /\ NoStaleStop'
      BY <3>2
    <3>4. RequestSeen'
      BY <1>4, <3>2
    <3>. QED  BY <3>3, <3>4
  <2>2. CASE CtlPost
    <3>1. /\ ctl \in {"pause", "resume", "cancel"} /\ ctl' = ctl /\ bot'
          /\ cat' \in {"stop", "ack"} /\ reqStatus' = RequestOf[ctl]
          /\ bodyRequest' # "REQ_STOP"
      BY <1>1, <1>4, <2>2 DEF CtlPost, TypeOK, TaskTypeOK
    <3>2. reqStatus' \in {"REQ_PAUSE", "REQ_CANCEL"} => Pending'
      BY <3>1 DEF RequestOf
    <3>. QED  BY <3>1, <3>2
  <2>3. CASE CtlStop
    BY <1>1, <1>4, <2>3 DEF CtlStop, StopIdle
  <2>4. CASE CtlStopRequest
    BY <1>1, <1>4, <2>4 DEF CtlStopRequest, StopRequest
  <2>5. CASE CtlStopWait
    BY <1>1, <1>4, <2>5 DEF CtlStopWait, StopDone
  <2>6. CASE CtlAck
    <3>1. CallBound' /\ NoStaleStop'
      BY <1>1, <1>4, <2>6 DEF CtlAck
    <3>2. CASE ctl = "resume"
      BY <1>1, <1>4, <2>6, <3>1, <3>2 DEF CtlAck
    <3>3. CASE ctl = "pause"
      <4>1. reqStatus = "REQ_PAUSE" /\ status # "EXECING"
        BY <1>4, <2>6, <3>3 DEF CtlAck, RequestOf, AcknowledgedBy
      <4>. QED  BY <1>1, <2>6, <3>1, <4>1 DEF CtlAck
    <3>4. CASE ctl = "cancel"
      <4>1. status = "END"
        BY <1>4, <2>6, <3>4 DEF CtlAck, AcknowledgedBy
      <4>2. \A r \in Runners :
              rpc[r] \notin {"ifResume", "ifPause", "paused", "exec"}
        BY <1>4, <4>1, StatusAtLabels DEF StatusOfRunner, Inside, Loop
      <4>. QED  BY <1>1, <2>6, <3>1, <4>2 DEF CtlAck
    <3>. QED  BY <1>4, <2>6, <3>2, <3>3, <3>4 DEF CtlAck
  <2>. QED  BY <2>1, <2>2, <2>3, <2>4, <2>5, <2>6 DEF CtlStep
<1>6. TypeOK'
  BY <1>4, ControlTyping
<1>. QED  BY <1>2, <1>3, <1>5, <1>6 DEF IInv

\* The loop's own steps leave what RunnerInv speaks of alone, but for operator=,
\* which has run_sche, and the thread that is started, which is not inside yet.
LEMMA LoopRunner ==
  ASSUME IInv, Recv \/ MainStep \/ EndCharge \/ RobotArrives, ~CtlStep
  PROVE  RunnerInv'
<1>. USE DEF taskVars, taskData, ctlVars, deviceVars, mainVars
<1>1. CASE AssignTask
  <2>1. runSche = NoThread /\ runSche' = NoThread /\ rpc' = rpc
        /\ status' = "INIT"
    BY <1>1 DEF AssignTask, Assign
  <2>2. \A r \in Runners : rpc[r] \notin Inside
    BY <2>1, RunnersAssumption DEF IInv, RunnerInv, RunnerHoldsLock
  <2>. QED
    BY <2>1, <2>2, RunnersAssumption
       DEF RunnerInv, RunnerHoldsLock, StatusOfRunner, RunnerAdmitted,
           RunnerIndex, Inside, Epilogue
<1>2. CASE SpawnRunner
  <2>1. PICK r \in Runners : Spawn(r)
    BY <1>2 DEF SpawnRunner
  <2>2. rpc[r] = "none" /\ rpc' = [rpc EXCEPT ![r] = "lock"]
        /\ UNCHANGED <<status, bot, cur, executed, runSche, index>>
    BY <2>1 DEF Spawn, At, Goto
  <2>3. rpc \in [Runners -> Inside \cup {"none", "lock"}]
    BY DEF IInv, TypeOK, TaskTypeOK
  <2>4. \A s \in Runners : rpc'[s] = rpc[s] \/ (s = r /\ rpc'[s] = "lock")
    BY <2>2, <2>3
  <2>. QED
    BY <2>2, <2>4
       DEF IInv, RunnerInv, RunnerHoldsLock, StatusOfRunner, RunnerAdmitted,
           RunnerIndex, ActionsOf, MaxCountOf, Inside, Prologue, Loop, Epilogue
<1>3. CASE ~AssignTask /\ ~SpawnRunner
  <2>1. UNCHANGED <<status, bot, cur, executed, runSche, rpc, index>>
    BY <1>3 DEF Recv, RecvStart, RecvControl, RecvRealTimeCtrl, RecvLowBattery,
                MainStep, Prioritize, Replace, InstallCallbacks, Forward,
                StartCharge, EndCharge, RobotArrives
  <2>. QED  BY <2>1, RunnerFrame DEF IInv
<1>. QED  BY <1>1, <1>2, <1>3

\* A call begins where none is in progress.
LEMMA LoopCall ==
  ASSUME IInv, Recv \/ MainStep \/ EndCharge \/ RobotArrives, ~CtlStep
  PROVE  CallInv'
<1>. USE DEF taskVars, taskData, ctlVars, deviceVars, mainVars
<1>1. CASE RobotArrives
  BY <1>1, CallFrame DEF IInv, RobotArrives, Arrive
<1>2. CASE ~RobotArrives
  <2>1. /\ ctl = "none"
        /\ ctl' = "none" \/ cat' = "check"
        /\ bodyRequest' = bodyRequest
        /\ reqStatus' \in {reqStatus, "INIT"}
    BY <1>2 DEF Recv, RecvStart, RecvControl, RecvRealTimeCtrl, RecvLowBattery,
                MainStep, Prioritize, Replace, AssignTask, Assign,
                InstallCallbacks, SpawnRunner, Spawn, Forward, StartCharge,
                EndCharge, ReturnReported, Receives, MainAt, Call
  <2>2. CallBound' /\ NoStaleStop'
    BY <2>1 DEF IInv, CallInv, CallBound, NoStaleStop, InCall
  <2>3. ~Pending
    BY <2>1 DEF Pending
  <2>4. \/ UNCHANGED <<status, rpc>>
        \/ status' = "INIT" /\ rpc' = rpc /\ reqStatus' = "INIT"
        \/ SpawnRunner
    BY <1>2 DEF Recv, RecvStart, RecvControl, RecvRealTimeCtrl, RecvLowBattery,
                MainStep, Prioritize, Replace, AssignTask, Assign,
                InstallCallbacks, Forward, StartCharge, EndCharge
  <2>5. ASSUME SpawnRunner
        PROVE  /\ status' = status
               /\ \A s \in Runners : rpc'[s] = rpc[s] \/ rpc'[s] = "lock"
    <3>1. PICK r \in Runners : Spawn(r)
      BY <2>5 DEF SpawnRunner
    <3>2. rpc \in [Runners -> Inside \cup {"none", "lock"}]
      BY DEF IInv, TypeOK, TaskTypeOK
    <3>. QED  BY <3>1, <3>2 DEF Spawn, Goto
  <2>6. RequestSeen'
    BY <2>1, <2>3, <2>4, <2>5 DEF IInv, CallInv, RequestSeen
  <2>. QED  BY <2>2, <2>6 DEF CallInv
<1>. QED  BY <1>1, <1>2

\* The message in hand is one of Tasks, and from_json has accepted it.
LEMMA LoopArg ==
  ASSUME IInv, Recv \/ MainStep \/ EndCharge \/ RobotArrives, ~CtlStep
  PROVE  ArgWellFormed'
<1>. USE DEF IInv, ArgWellFormed, WellFormed, mainVars
<1>1. CASE Recv
  <2>1. CASE \E t \in Tasks : RecvStart(t)
    BY <2>1 DEF RecvStart
  <2>2. CASE ~\E t \in Tasks : RecvStart(t)
    BY <1>1, <2>2 DEF Recv, RecvControl, RecvRealTimeCtrl, RecvLowBattery,
                      Receives, MainAt
  <2>. QED  BY <2>1, <2>2
<1>2. CASE MainStep
  BY <1>2 DEF MainStep, Prioritize, Replace, AssignTask, InstallCallbacks,
              SpawnRunner, Forward, StartCharge, MainAt
<1>3. CASE EndCharge
  BY <1>3 DEF EndCharge
<1>4. CASE RobotArrives
  BY <1>4 DEF RobotArrives
<1>. QED  BY <1>1, <1>2, <1>3, <1>4

\* The types of everything the loop's own steps change.
LEMMA LoopTyping ==
  ASSUME IInv, Recv \/ MainStep \/ EndCharge \/ RobotArrives, ~CtlStep
  PROVE  TypeOK'
<1>. USE DEF IInv, TypeOK, DeviceTypeOK, TaskTypeOK, MainTypeOK, taskVars,
             taskData, ctlVars, deviceVars, mainVars, MainAt, Receives, Call
<1>1. CASE \E t \in Tasks : RecvStart(t)
  BY <1>1 DEF RecvStart
<1>2. CASE \E op \in {"pause", "resume", "cancel"} : RecvControl(op)
  BY <1>2 DEF RecvControl
<1>3. CASE RecvRealTimeCtrl
  BY <1>3 DEF RecvRealTimeCtrl
<1>4. CASE RecvLowBattery
  BY <1>4 DEF RecvLowBattery
<1>5. CASE Prioritize
  BY <1>5 DEF Prioritize
<1>6. CASE Replace
  BY <1>6 DEF Replace
<1>7. CASE AssignTask
  BY <1>7, TasksAssumption DEF AssignTask, Assign, ArgWellFormed, Statuses, Requests
<1>8. CASE InstallCallbacks
  BY <1>8 DEF InstallCallbacks
<1>9. CASE SpawnRunner
  BY <1>9 DEF SpawnRunner, Spawn, At, Goto
<1>10. CASE Forward
  BY <1>10 DEF Forward
<1>11. CASE StartCharge
  <2>1. DeviceTypeOK'
    BY <1>11 DEF StartCharge
  <2>2. TaskTypeOK' /\ MainTypeOK'
    BY <1>11 DEF StartCharge
  <2>. QED  BY <2>1, <2>2
<1>12. CASE EndCharge
  <2>1. DeviceTypeOK'
    BY <1>12 DEF EndCharge, ReturnReported
  <2>2. TaskTypeOK' /\ MainTypeOK'
    BY <1>12 DEF EndCharge
  <2>. QED  BY <2>1, <2>2
<1>13. CASE RobotArrives
  <2>1. DeviceTypeOK'
    BY <1>13, Zenon DEF RobotArrives, Arrive
  <2>2. TaskTypeOK' /\ MainTypeOK'
    BY <1>13 DEF RobotArrives
  <2>. QED  BY <2>1, <2>2
<1>. QED
  BY <1>1, <1>2, <1>3, <1>4, <1>5, <1>6, <1>7, <1>8, <1>9, <1>10, <1>11, <1>12, <1>13
     DEF Recv, MainStep

-----------------------------------------------------------------------------
(* The theorems                                                            *)

\* IInv holds at the start: no thread, no call, no task.
LEMMA InitIInv == Init => IInv
<1>. SUFFICES ASSUME Init PROVE IInv
  OBVIOUS
<1>. USE DEF Init, DeviceInit, TaskInit
<1>1. TypeOK
  BY DEF TypeOK, DeviceTypeOK, TaskTypeOK, MainTypeOK, Statuses, Requests
<1>2. RunnerInv
  BY RunnersAssumption
     DEF RunnerInv, RunnerHoldsLock, StatusOfRunner, RunnerAdmitted,
         RunnerIndex, Inside, Prologue, Loop, Epilogue
<1>3. CallInv /\ ArgWellFormed
  BY DEF CallInv, CallBound, RequestSeen, NoStaleStop, InCall, ArgWellFormed
<1>. QED  BY <1>1, <1>2, <1>3 DEF IInv

\* Every step of every thread preserves IInv.
LEMMA NextIInv == IInv /\ [Next]_vars => IInv'
<1>. SUFFICES ASSUME IInv, [Next]_vars PROVE IInv'
  OBVIOUS
<1>1. ASSUME NEW r \in Runners, RunnersStep(r)
      PROVE  IInv'
  <2>1. TypeOK' /\ RunnerInv' /\ CallInv'
    BY <1>1, RunnerTyping, RunnerRunner, RunnerCall
  <2>2. ArgWellFormed'
    BY <1>1 DEF IInv, ArgWellFormed, WellFormed, RunnersStep, mainVars
  <2>. QED  BY <2>1, <2>2 DEF IInv
<1>2. CASE CtlStep /\ UNCHANGED mainVars
  BY <1>2, ControlStep
<1>3. CASE (Recv \/ MainStep \/ EndCharge \/ RobotArrives) /\ ~CtlStep
  BY <1>3, LoopTyping, LoopRunner, LoopCall, LoopArg DEF IInv
<1>4. CASE UNCHANGED vars
  <2>1. TypeOK'
    BY <1>4 DEF IInv, TypeOK, DeviceTypeOK, TaskTypeOK, MainTypeOK, vars,
                deviceVars, taskVars, taskData, ctlVars, mainVars
  <2>2. RunnerInv' /\ CallInv' /\ ArgWellFormed'
    BY <1>4, RunnerFrame, CallFrame
       DEF IInv, ArgWellFormed, WellFormed, vars, deviceVars, taskVars,
           taskData, ctlVars, mainVars
  <2>. QED  BY <2>1, <2>2 DEF IInv
<1>5. CtlStep /\ (Recv \/ MainStep \/ EndCharge \/ RobotArrives)
        => UNCHANGED mainVars
  BY DEF CtlStep, CtlCheck, CtlPost, CtlStop, CtlStopRequest, CtlStopWait,
         CtlAck, InCall, Recv, RecvStart, RecvControl, RecvRealTimeCtrl,
         RecvLowBattery, Receives, MainStep, Prioritize, Replace, AssignTask,
         InstallCallbacks, SpawnRunner, Forward, StartCharge, EndCharge,
         MainAt, RobotArrives, mainVars
<1>. QED  BY <1>1, <1>2, <1>3, <1>4, <1>5 DEF Next

\* The inductive invariant.
THEOREM Invariance == Spec => []IInv
BY InitIInv, NextIInv, PTL DEF Spec

\* Every variable has its type, for any tasks, messages and threads.
THEOREM TypeCorrect == Spec => []TypeOK
<1>1. IInv => TypeOK
  BY DEF IInv
<1>. QED  BY Invariance, <1>1, PTL

\* task::run is executed by one thread at a time, the holder of run_sche.
THEOREM Scheduling == Spec => []OneScheduler
<1>1. IInv => OneScheduler
  BY DEF IInv, RunnerInv, RunnerHoldsLock, OneScheduler
<1>. QED  BY Invariance, <1>1, PTL

\* pause and cancel never dereference a null bot.
THEOREM BotIsBound == Spec => []RobotBound
<1>1. IInv => RobotBound
  BY ExecingAdmitted DEF RobotBound, IInv, CallInv, CallBound
<1>. QED  BY Invariance, <1>1, PTL

\* However many threads are started for a task, max_count bounds its runs.
THEOREM BudgetKept == Spec => []RunBudget
<1>1. IInv => RunBudget
  BY ExecingAdmitted DEF RunBudget
<1>. QED  BY Invariance, <1>1, PTL

\* The robot acts for the task that is held and only while it is EXECING.
THEOREM ActingIsExecing == Spec => []ActsOnlyExecing
<1>1. ASSUME IInv PROVE ActsOnlyExecing
  <2>. SUFFICES ASSUME NEW r \in Runners, Acting(r)
                PROVE  status = "EXECING"
                       /\ index[r] \in 1 .. Len(ActionsOf(cur))
    BY DEF ActsOnlyExecing
  <2>1. rpc[r] \in Inside /\ rpc[r] \in Loop
    BY DEF Acting, Inside, Loop
  <2>. QED
    BY <1>1, <2>1, StatusAtLabels
       DEF Acting, IInv, RunnerInv, StatusOfRunner, RunnerIndex
<1>. QED  BY Invariance, <1>1, PTL

\* A request to stop is withdrawn before the call of stop returns.
THEOREM StopWithdrawn == Spec => []NoStaleStop
<1>1. IInv => NoStaleStop
  BY DEF IInv, CallInv
<1>. QED  BY Invariance, <1>1, PTL

\* operator= finds no thread inside run.
THEOREM DataStable == Spec => TaskDataStable
<1>. DEFINE Stable == \A r \in Runners :
                        rpc[r] \in Inside /\ rpc'[r] \in Inside => UNCHANGED cur
<1>1. ASSUME IInv, [Next]_vars, ~UNCHANGED cur
      PROVE  \A r \in Runners : rpc[r] \notin Inside
  <2>1. AssignTask
    BY <1>1, RunnerMoves
       DEF Next, Recv, RecvStart, RecvControl, RecvRealTimeCtrl, RecvLowBattery,
           MainStep, Prioritize, Replace, InstallCallbacks, SpawnRunner, Spawn,
           Forward, StartCharge, EndCharge, RobotArrives, CtlStep, CtlCheck,
           CtlPost, CtlStop, CtlStopRequest, CtlStopWait, CtlAck, taskVars,
           taskData, vars
  <2>. QED
    BY <1>1, <2>1, RunnersAssumption
       DEF AssignTask, Assign, IInv, RunnerInv, RunnerHoldsLock
<1>2. IInv /\ [Next]_vars => [Stable]_vars
  BY <1>1
<1>. QED  BY Invariance, <1>2, PTL DEF Spec, TaskDataStable

\* While the request that is stored is a pause or a cancel and no call waits for it,
\* no action begins: the one thread that could begin one has passed the tests of
\* a request that is still waited for.  Calls that store no request are not covered.
THEOREM RequestsHold == Spec => RequestHolds
<1>. DEFINE Holds == ctl = "none" /\ reqStatus \in {"REQ_PAUSE", "REQ_CANCEL"}
                       => \A r \in Runners : Acting(r)' => Acting(r)
<1>1. ASSUME IInv, [Next]_vars,
             ctl = "none", reqStatus \in {"REQ_PAUSE", "REQ_CANCEL"},
             NEW r \in Runners, Acting(r)', ~Acting(r)
      PROVE  FALSE
  <2>1. rpc \in [Runners -> Inside \cup {"none", "lock"}]
    BY <1>1 DEF IInv, TypeOK, TaskTypeOK
  <2>2. rpc'[r] \in {"publish", "acting"} /\ rpc[r] \notin {"publish", "acting"}
    BY <1>1 DEF Acting
  <2>3. PICK s \in Runners : RunnersStep(s)
    <3>1. CASE SpawnRunner
      BY <2>1, <2>2, <3>1 DEF SpawnRunner, Spawn, Goto
    <3>2. CASE ~SpawnRunner
      BY <1>1, <2>2, <3>2
         DEF Next, Recv, RecvStart, RecvControl, RecvRealTimeCtrl,
             RecvLowBattery, MainStep, Prioritize, Replace, AssignTask, Assign,
             InstallCallbacks, Forward, StartCharge, EndCharge, RobotArrives,
             CtlStep, CtlCheck, CtlPost, CtlStop, CtlStopRequest, CtlStopWait,
             CtlAck, taskVars, vars
    <3>. QED  BY <3>1, <3>2
  <2>4. s = r
    BY <1>1, <2>1, <2>2, <2>3, RunnerMoves
  <2>5. ExecAction(r) /\ rpc[r] = "exec" /\ status = "EXECING"
    BY <2>1, <2>2, <2>3, <2>4
       DEF RunnersStep, RunnerStep, ThreadStep, LockRunSche, WillStart,
           BeginOrRefuse, IfCancel, IfResume, IfPause, WaitPaused, ExecAction,
           PublishAction, PlainDone, ReportDone, NextAction, LoopHead,
           ActionStopped, ActionRaises, Finish, OverCallback, At, Goto
  <2>6. Pending
    BY <1>1, <2>5 DEF IInv, CallInv, RequestSeen
  <2>. QED  BY <1>1, <2>6 DEF Pending
<1>2. IInv /\ [Next]_vars => [Holds]_vars
  BY <1>1
<1>. QED  BY Invariance, <1>2, PTL DEF Spec, RequestHolds

-----------------------------------------------------------------------------
(* A pause stands until the operator resumes, when no battery is reported  *)

\* resume is called for the operator alone, and a paused thread that has been
\* asked to go on is asked by a call that still waits for it.
ResumeAsked ==
  /\ mpc \notin {"charge", "charging"}
  /\ ctl = "resume" => asked = "resume"
  /\ status = "PAUSE" /\ reqStatus = "REQ_RESUME" => ctl = "resume"

\* A step of a thread pauses the task only on REQ_PAUSE, and resumes it only on
\* REQ_RESUME.
LEMMA RunnerResumes ==
  ASSUME IInv, NEW r \in Runners, RunnersStep(r)
  PROVE  /\ UNCHANGED <<mpc, asked, ctl, reqStatus>>
         /\ status # "PAUSE" /\ status' = "PAUSE" => reqStatus = "REQ_PAUSE"
         /\ status = "PAUSE" /\ status' = "EXECING" => reqStatus = "REQ_RESUME"
<1>1. UNCHANGED <<mpc, asked>>
  BY DEF RunnersStep, mainVars
<1>2. UNCHANGED <<ctl, reqStatus>>
  BY DEF RunnersStep, RunnerStep, ThreadStep, LockRunSche, WillStart,
         BeginOrRefuse, IfCancel, IfResume, IfPause, WaitPaused, ExecAction,
         PublishAction, PlainDone, ReportDone, NextAction, ActionStopped,
         ActionRaises, Finish, OverCallback, ctlVars
<1>3. ASSUME At(r, "budget") PROVE status # "PAUSE"
  BY <1>3, HolderFacts, StatusAtLabels DEF IInv, At, Inside, Prologue
<1>4. status # "PAUSE" /\ status' = "PAUSE" => reqStatus = "REQ_PAUSE"
  BY DEF RunnersStep, RunnerStep, ThreadStep, LockRunSche, WillStart,
         BeginOrRefuse, IfCancel, IfResume, IfPause, WaitPaused, ExecAction,
         PublishAction, PlainDone, ReportDone, NextAction, ActionStopped,
         ActionRaises, Finish, OverCallback
<1>5. status = "PAUSE" /\ status' = "EXECING" => reqStatus = "REQ_RESUME"
  BY <1>3
     DEF RunnersStep, RunnerStep, ThreadStep, LockRunSche, WillStart,
         BeginOrRefuse, IfCancel, IfResume, IfPause, WaitPaused, ExecAction,
         PublishAction, PlainDone, ReportDone, NextAction, ActionStopped,
         ActionRaises, Finish, OverCallback
<1>. QED  BY <1>1, <1>2, <1>4, <1>5

\* The message loop stores requests, and never status but in operator=.
LEMMA LoopResumes ==
  ASSUME IInv, ResumeAsked, "battery" \notin Messages,
         Recv \/ MainStep \/ EndCharge \/ RobotArrives
  PROVE  ResumeAsked' /\ (status = "PAUSE" => status' # "EXECING")
<1>1. CASE Recv
  BY <1>1
     DEF Recv, RecvStart, RecvControl, RecvRealTimeCtrl, RecvLowBattery,
         Receives, MainAt, Call, ResumeAsked, taskVars, ctlVars
<1>2. CASE CtlStep /\ UNCHANGED mainVars
  <2>1. ctl \in {"pause", "resume", "cancel"} /\ UNCHANGED <<status, mpc, asked>>
    BY <1>2 DEF CtlStep, CtlCheck, CtlPost, CtlStop, CtlStopRequest,
       CtlStopWait, CtlAck, InCall, mainVars, IInv, TypeOK, TaskTypeOK
  <2>2. ctl' = ctl \/ ctl' = "none"
    BY <1>2 DEF CtlStep, CtlCheck, CtlPost, CtlStop, CtlStopRequest,
       CtlStopWait, CtlAck, Return, Proceed
  <2>3. CASE CtlPost
    BY <2>1, <2>2, <2>3 DEF CtlPost, RequestOf, Proceed, ResumeAsked
  <2>4. CASE CtlCheck
    BY <2>1, <2>2, <2>4
       DEF CtlCheck, AdmittedIn, Proceed, Return, ResumeAsked
  <2>5. CASE CtlAck
    BY <2>1, <2>2, <2>5 DEF CtlAck, AcknowledgedBy, Return, ResumeAsked
  <2>6. CASE CtlStop \/ CtlStopRequest \/ CtlStopWait
    <3>1. UNCHANGED <<ctl, reqStatus>>
      BY <2>6 DEF CtlStop, CtlStopRequest, CtlStopWait, Proceed
    <3>. QED  BY <2>1, <3>1 DEF ResumeAsked
  <2>. QED  BY <1>2, <2>3, <2>4, <2>5, <2>6 DEF CtlStep
<1>3. CASE MainStep /\ ~(CtlStep /\ UNCHANGED mainVars)
  BY <1>3
     DEF MainStep, Prioritize, Replace, AssignTask, Assign, InstallCallbacks,
         SpawnRunner, Spawn, Forward, StartCharge, MainAt, Call, ResumeAsked,
         taskVars, ctlVars
<1>4. CASE EndCharge \/ RobotArrives
  BY <1>4
     DEF EndCharge, RobotArrives, MainAt, ResumeAsked, taskVars, ctlVars,
         mainVars
<1>. QED  BY <1>1, <1>2, <1>3, <1>4

\* Without battery reports a paused task goes on only when the operator's last
\* command was to resume it.
THEOREM PauseKept ==
  ASSUME "battery" \notin Messages
  PROVE  Spec => PauseStands
<1>. DEFINE Stands == status = "PAUSE" /\ status' = "EXECING"
                        => asked = "resume"
<1>1. Init => ResumeAsked
  BY DEF Init, TaskInit, ResumeAsked
<1>2. ASSUME IInv, ResumeAsked, [Next]_vars
      PROVE  ResumeAsked' /\ Stands
  <2>1. CASE \E r \in Runners : RunnersStep(r)
    BY <1>2, <2>1, RunnerResumes DEF ResumeAsked
  <2>2. CASE Recv \/ MainStep \/ EndCharge \/ RobotArrives
    BY <1>2, <2>2, LoopResumes
  <2>3. CASE UNCHANGED vars
    BY <1>2, <2>3 DEF ResumeAsked, vars, taskVars, ctlVars, mainVars
  <2>. QED  BY <1>2, <2>1, <2>2, <2>3 DEF Next
<1>. QED
  <2>1. IInv /\ ResumeAsked /\ [Next]_vars => ResumeAsked'
    BY <1>2
  <2>2. IInv /\ ResumeAsked /\ [Next]_vars => [Stands]_vars
    BY <1>2
  <2>. QED
    BY Invariance, <1>1, <2>1, <2>2, PTL DEF Spec, PauseStands

-----------------------------------------------------------------------------
(* Refinement of TaskLifecycle                                             *)

SomeActing == \E q \in Runners : Acting(q)

\* The abstract variable acting follows the thread that is inside run.
LEMMA ActingFollows ==
  ASSUME IInv, NEW r \in Runners, RunnersStep(r), rpc[r] \in Inside
  PROVE  /\ SomeActing <=> Acting(r)
         /\ SomeActing' <=> Acting(r)'
<1>1. \A s \in Runners \ {r} : rpc[s] \notin Inside
  BY DEF IInv, RunnerInv, RunnerHoldsLock
<1>2. \A s \in Runners \ {r} : rpc'[s] = rpc[s]
  BY RunnerMoves DEF IInv, TypeOK, TaskTypeOK
<1>. QED  BY <1>1, <1>2 DEF SomeActing, Acting, Inside, Loop

\* The thread inside run takes the steps of the task's life, in its order.
LEMMA RunnerRefines ==
  ASSUME IInv, NEW r \in Runners, RunnersStep(r)
  PROVE  [Lifecycle!Next]_Lifecycle!vars
<1>1. cur' = cur
  BY RunnerMoves
<1>2. CASE LockRunSche(r)
  <2>1. \A q \in Runners : Acting(q)' <=> Acting(q)
    BY <1>2 DEF LockRunSche, At, Goto, Acting, IInv, TypeOK, TaskTypeOK
  <2>. QED
    BY <1>2, <2>1 DEF LockRunSche, taskData, Lifecycle!vars
<1>3. CASE ~LockRunSche(r)
  <2>1. rpc[r] \in Inside /\ status \in StatusAt[rpc[r]]
        /\ rpc \in [Runners -> Inside \cup {"none", "lock"}]
    <3>1. rpc[r] \in Inside
      BY <1>3 DEF RunnersStep, RunnerStep, ThreadStep, WillStart,
         BeginOrRefuse, IfCancel, IfResume, IfPause, WaitPaused, ExecAction,
         PublishAction, PlainDone, ReportDone, ActionStopped, ActionRaises,
         Finish, OverCallback, At, Inside, Prologue, Loop, Epilogue
    <3>. QED  BY <3>1, HolderFacts DEF IInv, TypeOK, TaskTypeOK
  <2>2. (SomeActing <=> Acting(r)) /\ (SomeActing' <=> Acting(r)')
    BY <2>1, ActingFollows
  <2>. USE <1>1, <2>1, <2>2, StatusAtLabels
       DEF SomeActing, Acting, At, Goto, taskData
  <2>3. CASE WillStart(r)
    BY <2>3
       DEF WillStart, Lifecycle!Count, Lifecycle!AtRest, Lifecycle!vars, Lifecycle!Next
  <2>4. CASE BeginOrRefuse(r)
    <3>1. executed \in Nat /\ MaxCountOf(cur) \in Nat
      BY TasksAssumption DEF IInv, TypeOK, TaskTypeOK, MaxCountOf
    <3>2. CASE BudgetLeft
      BY <2>4, <3>2
         DEF BeginOrRefuse, BudgetLeft, LoopHead, Lifecycle!Begin,
             Lifecycle!AtRest, Lifecycle!vars, Lifecycle!Next
    <3>3. CASE ~BudgetLeft
      BY <2>4, <3>1, <3>3
         DEF BeginOrRefuse, BudgetLeft, Lifecycle!Refuse,
             Lifecycle!AtRest, Lifecycle!vars, Lifecycle!Next
    <3>. QED  BY <3>2, <3>3
  <2>5. CASE IfCancel(r)
    BY <2>5
       DEF IfCancel, Lifecycle!Cancel, Lifecycle!Move, Lifecycle!vars, Lifecycle!Next
  <2>6. CASE IfResume(r)
    BY <2>6
       DEF IfResume, Lifecycle!Resume, Lifecycle!Move, Lifecycle!vars, Lifecycle!Next
  <2>7. CASE IfPause(r)
    BY <2>7
       DEF IfPause, Lifecycle!Pause, Lifecycle!Move, Lifecycle!vars, Lifecycle!Next
  <2>8. CASE WaitPaused(r)
    BY <2>8
       DEF WaitPaused, Lifecycle!vars
  <2>9. CASE ExecAction(r)
    BY <2>9
       DEF ExecAction, Lifecycle!StartAction, Lifecycle!vars, Lifecycle!Next
  <2>10. CASE PublishAction(r)
    BY <2>10
       DEF PublishAction, Lifecycle!vars
  <2>11. CASE PlainDone(r)
    BY <2>11
       DEF PlainDone, NextAction, LoopHead, Lifecycle!EndAction, Lifecycle!vars, Lifecycle!Next
  <2>12. CASE ReportDone(r)
    BY <2>12
       DEF ReportDone, NextAction, LoopHead, Lifecycle!EndAction, Lifecycle!vars, Lifecycle!Next
  <2>13. CASE ActionStopped(r)
    BY <2>13
       DEF ActionStopped, Lifecycle!EndAction, Lifecycle!vars, Lifecycle!Next
  <2>14. CASE ActionRaises(r)
    BY <2>14
       DEF ActionRaises, Lifecycle!EndAction, Lifecycle!vars, Lifecycle!Next
  <2>15. CASE Finish(r)
    BY <2>15
       DEF Finish, Lifecycle!End, Lifecycle!Move, Lifecycle!vars, Lifecycle!Next
  <2>16. CASE OverCallback(r)
    BY <2>16
       DEF OverCallback, Lifecycle!vars
  <2>. QED
    BY <1>3, <2>3, <2>4, <2>5, <2>6, <2>7, <2>8, <2>9,
       <2>10, <2>11, <2>12, <2>13, <2>14, <2>15, <2>16
       DEF RunnersStep, RunnerStep, ThreadStep
<1>. QED  BY <1>2, <1>3

\* Of the other steps only operator= is visible: run_sche is free, so the task
\* is at rest, and the new one has a run left, as from_json has checked.
LEMMA LoopRefines ==
  ASSUME IInv, Recv \/ MainStep \/ EndCharge \/ RobotArrives
  PROVE  [Lifecycle!Next]_Lifecycle!vars
<1>1. CASE AssignTask
  <2>1. runSche = NoThread /\ arg \in Tasks /\ ExecutedCount[arg] < MaxCount[arg]
    BY <1>1 DEF AssignTask, Assign, MainAt, IInv, ArgWellFormed, WellFormed
  <2>2. status \in {"INIT", "END"}
    BY <2>1 DEF IInv, RunnerInv, StatusOfRunner
  <2>3. executed' = ExecutedCount[arg] /\ MaxCountOf(cur') = MaxCount[arg]
    BY <1>1, <2>1, TasksAssumption DEF AssignTask, Assign, MaxCountOf
  <2>4. ExecutedCount[arg] \in Nat /\ MaxCount[arg] \in Nat
    BY <2>1, TasksAssumption
  <2>5. (\E r \in Runners : Acting(r))' = (\E r \in Runners : Acting(r))
    BY <1>1 DEF AssignTask, Assign, Acting
  <2>6. Lifecycle!Replace
    BY <1>1, <2>1, <2>2, <2>3, <2>4, <2>5
       DEF AssignTask, Assign, MaxCountOf, Lifecycle!Replace, Lifecycle!AtRest
  <2>. QED  BY <2>6 DEF Lifecycle!Next
<1>2. CASE SpawnRunner
  <2>1. PICK r \in Runners : Spawn(r)
    BY <1>2 DEF SpawnRunner
  <2>2. \A q \in Runners : Acting(q)' <=> Acting(q)
    BY <2>1 DEF Spawn, At, Goto, Acting, IInv, TypeOK, TaskTypeOK
  <2>. QED  BY <2>1, <2>2 DEF Spawn, taskData, Lifecycle!vars
<1>3. CASE ~AssignTask /\ ~SpawnRunner
  <2>1. UNCHANGED <<status, cur, executed, rpc>>
    BY <1>3
       DEF Recv, RecvStart, RecvControl, RecvRealTimeCtrl, RecvLowBattery,
           MainStep, Prioritize, Replace, InstallCallbacks, Forward, StartCharge,
           EndCharge, RobotArrives, CtlStep, CtlCheck, CtlPost, CtlStop,
           CtlStopRequest, CtlStopWait, CtlAck, taskVars, taskData
  <2>. QED  BY <2>1 DEF Acting, MaxCountOf, Lifecycle!vars
<1>. QED  BY <1>1, <1>2, <1>3

\* The service implements TaskLifecycle, whatever the messages and the threads.
THEOREM Refinement == Spec => ImplementsLifecycle
<1>1. Init => Lifecycle!Init
  BY DEF Init, TaskInit, Acting, MaxCountOf, Lifecycle!Init
<1>2. IInv /\ [Next]_vars => [Lifecycle!Next]_Lifecycle!vars
  <2>1. ASSUME IInv, UNCHANGED vars PROVE UNCHANGED Lifecycle!vars
    BY <2>1 DEF vars, taskVars, taskData, Acting, MaxCountOf, Lifecycle!vars
  <2>. QED
    BY <2>1, RunnerRefines, LoopRefines DEF Next
<1>. QED
  BY <1>1, <1>2, Invariance, PTL
     DEF Spec, ImplementsLifecycle, Lifecycle!Spec

================================================================================
