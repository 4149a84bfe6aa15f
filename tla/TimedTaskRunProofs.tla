-------------------------- MODULE TimedTaskRunProofs --------------------------
(***************************************************************************)
(* Proofs about TimedTaskRun: whatever is done with timed tasks, the       *)
(* current task behaves as SmartService says, the bookkeeping at the end   *)
(* of a run is that of the thread inside run, and no timed task that was   *)
(* deleted comes back of itself, all this also when a callback raises and  *)
(* the process is started again.                                           *)
(*                                                                         *)
(* RunLabels says what a step of a thread does to the label of the thread, *)
(* to status and to executed_count: all that the bookkeeping rests on.     *)
(***************************************************************************)
EXTENDS TimedTaskRun, SmartServiceProofs

-----------------------------------------------------------------------------
(* The composition keeps what SmartService promises                        *)

LEMMA StepOfService == [TimedNext]_allVars => [Next \/ ServiceRestarts]_vars
<1> SUFFICES ASSUME [TimedNext]_allVars PROVE [Next \/ ServiceRestarts]_vars
  OBVIOUS
<1>1. CASE UNCHANGED allVars
  BY <1>1 DEF allVars
<1>2. ASSUME NEW t \in Tasks, RecvAdd(t) \/ RecvFired(t)
      PROVE  [Next]_vars
  BY <1>2 DEF RecvAdd, RecvFired, Next, Recv
<1>3. ASSUME NEW i \in Ids, RecvDelete(i) \/ Fire(i)
      PROVE  [Next]_vars
  BY <1>3 DEF RecvDelete, Fire
<1>4. ASSUME NEW op \in {"pause", "resume", "cancel"}, RecvControl(op)
      PROVE  [Next]_vars
  BY <1>4 DEF Next, Recv
<1>5. CASE MainStep
  BY <1>5 DEF Next
<1>6. ASSUME NEW r \in Runners, FindTimedTask(r) \/ StoreRuns(r) \/ RunTimed(r)
      PROVE  [Next]_vars
  BY <1>6 DEF FindTimedTask, StoreRuns, RunTimed, Next
<1>7. ASSUME NEW r \in Runners, RaiseNoCount(r)
      PROVE  ServiceRestarts
  BY <1>7 DEF RaiseNoCount
<1> QED
  BY <1>1, <1>2, <1>3, <1>4, <1>5, <1>6, <1>7 DEF TimedNext

\* Between two starts of the process the service with timed tasks does, with its
\* current task and its robot, what SmartService says: the callback that writes the
\* list, which runs inside task::run, and the requests of the list add no step to
\* it, but for the end of the process when the callback raises.
THEOREM ServiceKept == TimedSpec => Init /\ [][Next \/ ServiceRestarts]_vars
<1>1. TimedInit => Init
  BY DEF TimedInit
<1> QED
  BY <1>1, StepOfService, PTL DEF TimedSpec

\* The process starts as it first did, but that the robot may be moving.
LEMMA RestartIInv == IInv /\ ServiceRestarts => IInv'
<1> SUFFICES ASSUME IInv, ServiceRestarts PROVE IInv'
  OBVIOUS
<1> USE DEF ServiceRestarts
<1>1. TypeOK'
  BY DEF IInv, TypeOK, DeviceTypeOK, TaskTypeOK, MainTypeOK, Statuses, Requests
<1>2. RunnerInv'
  BY RunnersAssumption
     DEF RunnerInv, RunnerHoldsLock, StatusOfRunner, RunnerAdmitted,
         RunnerIndex, Inside, Prologue, Loop, Epilogue
<1>3. CallInv' /\ ArgWellFormed'
  BY DEF CallInv, CallBound, RequestSeen, NoStaleStop, InCall, ArgWellFormed
<1> QED
  BY <1>1, <1>2, <1>3 DEF IInv

\* task::run is as safe with timed tasks as without: IInv holds of it, also when a
\* callback ends the process in the middle of a run and the robot moves on.
THEOREM TimedInvariance == TimedSpec => []IInv
<1>1. IInv /\ [Next \/ ServiceRestarts]_vars => IInv'
  BY NextIInv, RestartIInv
<1> QED
  BY <1>1, ServiceKept, InitIInv, PTL

-----------------------------------------------------------------------------
(* Lemmas                                                                  *)

\* A copy of an entry that has a number of runs, with another one below some
\* max_count, is a task.
LEMMA WithCountIs ==
  ASSUME NEW t \in Tasks, HasCount[t],
         NEW held \in Tasks, NEW n \in 0 .. MaxCount[held] - 1
  PROVE  /\ WithCount(t, n) \in Tasks
         /\ Id[WithCount(t, n)] = Id[t]
         /\ Version[WithCount(t, n)] = Version[t]
         /\ ExecutedCount[WithCount(t, n)] = n
<1>1. \E u \in Tasks : Id[u] = Id[t] /\ Version[u] = Version[t] /\ ExecutedCount[u] = n
  BY TimedAssumption
<1> QED
  BY <1>1 DEF WithCount

\* The labels of a thread in run, with the steps that change status and
\* executed_count.
Counts(r) ==
  rpc[r] = "willStart" /\ rpc'[r] = "budget" /\ executed' = executed + 1 /\ UNCHANGED status
Begins(r) ==
  /\ rpc[r] = "budget" /\ rpc'[r] \in {"ifCancel", "finish"}
  /\ executed <= MaxCountOf(cur) /\ status' = "EXECING" /\ UNCHANGED executed
Refuses(r) ==
  /\ rpc[r] = "budget" /\ rpc'[r] = "over"
  /\ executed > MaxCountOf(cur) /\ status' = "END" /\ UNCHANGED executed
Locks(r) ==
  rpc[r] = "lock" /\ rpc'[r] = "willStart" /\ UNCHANGED <<executed, status>>
Loops(r) ==
  /\ rpc[r] \in Loop \cup {"finish"} /\ rpc'[r] \in Loop \cup Epilogue
  /\ status' # "INIT" /\ UNCHANGED executed
Ends(r) ==
  rpc[r] = "over" /\ rpc'[r] = "none" /\ UNCHANGED <<executed, status>>

LEMMA RunLabels ==
  ASSUME IInv, NEW r \in Runners, RunnersStep(r)
  PROVE  Locks(r) \/ Counts(r) \/ Begins(r) \/ Refuses(r) \/ Loops(r) \/ Ends(r)
<1>1. /\ rpc \in [Runners -> Inside \cup {"none", "lock"}]
      /\ executed \in Nat /\ cur \in Tasks \cup {NoTask}
  BY DEF IInv, TypeOK, TaskTypeOK
<1>2. MaxCountOf(cur) \in Nat
  BY <1>1, TasksAssumption DEF MaxCountOf
<1>3. rpc[r] \in Loop \cup {"finish"} => status # "INIT"
  BY HolderFacts, StatusAtLabels DEF IInv, Loop, Inside, Epilogue
<1>4. \A n : LoopHead(n) \in {"ifCancel", "finish"}
  BY DEF LoopHead
<1>5. CASE LockRunSche(r)
  BY <1>1, <1>5 DEF LockRunSche, At, Goto, taskData, Locks
<1>6. CASE WillStart(r)
  BY <1>1, <1>6 DEF WillStart, At, Goto, Counts
<1>7. CASE BeginOrRefuse(r)
  BY <1>1, <1>2, <1>4, <1>7 DEF BeginOrRefuse, BudgetLeft, At, Goto, Begins, Refuses
<1>8. CASE IfCancel(r) \/ IfResume(r) \/ IfPause(r) \/ WaitPaused(r)
  BY <1>1, <1>3, <1>8 DEF IfCancel, IfResume, IfPause, WaitPaused, At, Goto, taskData,
     Loops, Loop, Epilogue
<1>9. CASE ExecAction(r) \/ PublishAction(r) \/ ActionStopped(r) \/ ActionRaises(r)
  BY <1>1, <1>3, <1>9 DEF ExecAction, PublishAction, ActionStopped, ActionRaises, At, Goto,
     taskData, Loops, Loop, Epilogue
<1>10. CASE PlainDone(r) \/ ReportDone(r)
  BY <1>1, <1>3, <1>4, <1>10 DEF PlainDone, ReportDone, NextAction, At, Goto, taskData,
     Loops, Loop, Epilogue
<1>11. CASE Finish(r)
  BY <1>1, <1>11 DEF Finish, At, Goto, taskData, Loops, Epilogue
<1>12. CASE OverCallback(r)
  BY <1>1, <1>12 DEF OverCallback, At, Goto, taskData, Ends
<1> QED
  BY <1>5, <1>6, <1>7, <1>8, <1>9, <1>10, <1>11, <1>12 DEF RunnersStep, RunnerStep, ThreadStep

\* The task object while a thread goes on: the same task, the other threads where
\* they were.
LEMMA RunKeeps ==
  ASSUME IInv, NEW r \in Runners, RunnersStep(r)
  PROVE  /\ UNCHANGED <<cur, callbacks, mpc, arg>>
         /\ rpc \in [Runners -> Inside \cup {"none", "lock"}]
         /\ rpc' = [rpc EXCEPT ![r] = rpc'[r]]
BY RunnerMoves DEF IInv, TypeOK, TaskTypeOK, mainVars

-----------------------------------------------------------------------------
(* The bookkeeping                                                         *)

\* What is true of the list and of the bookkeeping, whatever is allowed.
TimedInv == IInv /\ TimedTypeOK /\ BookInv

\* BookInv speaks of these variables only.
LEMMA BookFrame ==
  ASSUME BookInv, UNCHANGED <<mpc, callbacks, cur, executed, rpc, book, copy>>
  PROVE  BookInv'
BY DEF BookInv, InList, MaxCountOf

\* The bookkeeping is that of the thread inside run, so that no other step of a
\* run comes between.
LEMMA BookHolder ==
  ASSUME IInv, BookInv, NEW r \in Runners, book[r] # "none"
  PROVE  runSche = r /\ \A s \in Runners \ {r} : rpc[s] \notin Inside /\ book[s] = "none"
BY DEF BookInv, IInv, RunnerInv, RunnerHoldsLock, Inside, Prologue, Epilogue

\* No step of the message loop meets a thread in a callback with another task or
\* another number of runs.
LEMMA MainBook ==
  ASSUME TimedInv, MainStep, UNCHANGED timedVars
  PROVE  BookInv'
<1> USE DEF BookInv, InList, TimedInv, timedVars
<1>1. /\ rpc \in [Runners -> Inside \cup {"none", "lock"}]
      /\ arg \in Tasks \cup {NoTask}
  BY DEF IInv, TypeOK, TaskTypeOK, MainTypeOK
<1>2. CASE Prioritize \/ Forward \/ StartCharge \/ Replace
  BY <1>2 DEF Prioritize, Forward, StartCharge, Replace, taskVars, taskData, MaxCountOf
<1>3. CASE AssignTask
  <2>1. runSche = NoThread /\ cur' = arg /\ mpc' = "install" /\ callbacks' = "empty"
    BY <1>3 DEF AssignTask, Assign
  <2>2. arg # NoTask
    BY <1>3, TasksAssumption DEF AssignTask, MainAt, IInv, ArgWellFormed
  <2>3. \A r \in Runners : rpc[r] \notin Inside
    BY <2>1, RunnersAssumption DEF IInv, RunnerInv, RunnerHoldsLock
  <2>4. UNCHANGED <<rpc, book, copy>>
    BY <1>3 DEF AssignTask, Assign
  <2> QED
    BY <2>1, <2>2, <2>3, <2>4 DEF Inside, Prologue, Epilogue
<1>4. CASE InstallCallbacks
  BY <1>4 DEF InstallCallbacks, MainAt, MaxCountOf
<1>5. CASE SpawnRunner
  BY <1>1, <1>5 DEF SpawnRunner, Spawn, At, Goto, taskData, MaxCountOf
<1>6. CASE CtlStep /\ UNCHANGED mainVars
  <2>1. UNCHANGED <<taskData, rpc>>
    BY <1>6 DEF CtlStep, CtlCheck, CtlPost, CtlStop, CtlStopRequest, CtlStopWait, CtlAck
  <2> QED
    BY <1>6, <2>1 DEF taskData, mainVars, MaxCountOf
<1> QED
  BY <1>2, <1>3, <1>4, <1>5, <1>6 DEF MainStep

\* A thread of a run: the bookkeeping is due in a callback only, and a run that
\* is counted has a task, as executed_count is above 0 by then.
LEMMA RunTimedBook ==
  ASSUME TimedInv, NEW r \in Runners, RunTimed(r)
  PROVE  TimedTypeOK' /\ BookInv'
<1> USE DEF TimedInv
<1>1. RunnersStep(r) /\ book[r] = "none" /\ UNCHANGED <<timed, fired, copy>>
  BY DEF RunTimed
<1>2. /\ UNCHANGED <<cur, callbacks, mpc>>
      /\ rpc \in [Runners -> Inside \cup {"none", "lock"}]
      /\ rpc' = [rpc EXCEPT ![r] = rpc'[r]]
  BY <1>1, RunKeeps
<1>3. Locks(r) \/ Counts(r) \/ Begins(r) \/ Refuses(r) \/ Loops(r) \/ Ends(r)
  BY <1>1, RunLabels
<1>4. executed \in Nat /\ cur \in Tasks \cup {NoTask}
  BY DEF IInv, TypeOK, TaskTypeOK
<1>5. ran' \in [Ids -> Nat]
  <2>1. CASE rpc[r] = "budget" /\ status' = "EXECING"
    <3>1. executed > 0 /\ executed <= MaxCountOf(cur)
      BY <1>3, <2>1 DEF BookInv, Locks, Counts, Begins, Refuses, Loops, Ends, Loop
    <3>2. cur \in Tasks /\ Id[cur] \in Ids
      BY <1>4, <3>1, TimedAssumption DEF MaxCountOf
    <3> QED
      BY <2>1, <3>2 DEF RunTimed, TimedTypeOK
  <2>2. CASE ~(rpc[r] = "budget" /\ status' = "EXECING")
    BY <2>2 DEF RunTimed, TimedTypeOK
  <2> QED
    BY <2>1, <2>2
<1>6. book' = [book EXCEPT ![r] = book'[r]] /\ book'[r] \in {"none", "due"}
  BY DEF RunTimed, TimedTypeOK
<1>7. book'[r] = "due" => rpc'[r] \in {"budget", "over"}
  BY <1>3, <1>6 DEF RunTimed, CalledBackOver, TimedTypeOK, Locks, Counts, Begins, Refuses, Loops,
     Ends, Loop
<1>8. \A s \in Runners \ {r} : rpc'[s] = rpc[s] /\ book'[s] = book[s]
  BY <1>2, <1>6 DEF TimedTypeOK
<1>9. rpc'[r] = "budget" => executed' > 0
  BY <1>3, <1>4 DEF Locks, Counts, Begins, Refuses, Loops, Ends, Loop, Epilogue
<1>10. \A s \in Runners \ {r} : rpc[s] \in {"budget", "over"} => executed' = executed
  <2>1. ASSUME NEW s \in Runners \ {r}, rpc[s] \in {"budget", "over"}
        PROVE  rpc[r] \notin Inside
    BY <2>1 DEF IInv, RunnerInv, RunnerHoldsLock, Inside, Prologue, Epilogue
  <2> QED
    BY <1>3, <2>1 DEF Locks, Counts, Begins, Refuses, Loops, Ends, Inside, Prologue, Epilogue
<1>11. BookInv'
  BY <1>1, <1>2, <1>6, <1>7, <1>8, <1>9, <1>10 DEF BookInv, InList, MaxCountOf
<1> QED
  BY <1>1, <1>5, <1>6, <1>11 DEF TimedTypeOK

LEMMA TimedStep == TimedInv /\ [TimedNext]_allVars => TimedTypeOK' /\ BookInv'
<1> SUFFICES ASSUME TimedInv, [TimedNext]_allVars
             PROVE  TimedTypeOK' /\ BookInv'
  OBVIOUS
<1> USE DEF TimedInv
<1>1. CASE UNCHANGED allVars
  BY <1>1, BookFrame
     DEF allVars, timedVars, vars, taskVars, taskData, mainVars, TimedTypeOK
<1>2. ASSUME NEW t \in Tasks, RecvAdd(t)
      PROVE  TimedTypeOK' /\ BookInv'
  BY <1>2, BookFrame, TasksAssumption
     DEF RecvAdd, TimedTypeOK, vars, taskVars, taskData, mainVars
<1>3. ASSUME NEW t \in Tasks, RecvFired(t)
      PROVE  TimedTypeOK' /\ BookInv'
  <2>1. TimedTypeOK'
    BY <1>3 DEF RecvFired, TimedTypeOK
  <2>2. mpc' # "install" /\ mpc # "install"
        /\ UNCHANGED <<callbacks, cur, executed, rpc, book, copy>>
    BY <1>3 DEF RecvFired, RecvStart, Receives, MainAt, taskVars, taskData
  <2> QED
    BY <2>1, <2>2 DEF BookInv, InList, MaxCountOf
<1>4. ASSUME NEW i \in Ids, RecvDelete(i) \/ Fire(i)
      PROVE  TimedTypeOK' /\ BookInv'
  BY <1>4, BookFrame
     DEF RecvDelete, Fire, TimedTypeOK, vars, taskVars, taskData, mainVars
<1>5. ASSUME NEW op \in {"pause", "resume", "cancel"}, RecvControl(op), UNCHANGED timedVars
      PROVE  TimedTypeOK' /\ BookInv'
  BY <1>5, BookFrame DEF RecvControl, TimedTypeOK, timedVars, taskData
<1>6. CASE MainStep /\ UNCHANGED timedVars
  BY <1>6, MainBook DEF TimedTypeOK, timedVars
<1>7. ASSUME NEW r \in Runners, FindTimedTask(r)
      PROVE  TimedTypeOK' /\ BookInv'
  <2>1. UNCHANGED <<mpc, callbacks, cur, executed, rpc, timed, fired, ran>>
    BY <1>7 DEF FindTimedTask, vars, taskVars, taskData, mainVars
  <2>2. callbacks = "empty" \/ Id[cur] \in Ids
    BY TimedAssumption DEF BookInv, IInv, TypeOK, TaskTypeOK
  <2>3. /\ copy' = [copy EXCEPT ![r] = copy'[r]] /\ copy'[r] \in Tasks \cup {NoTask}
        /\ book' = [book EXCEPT ![r] = book'[r]]
        /\ book'[r] \in {"none", "delete", "store"}
        /\ book'[r] # "none" => copy'[r] # NoTask /\ callbacks = "installed"
        /\ book'[r] = "store" => ~NoRunLeft
    BY <1>7, <2>2 DEF FindTimedTask, TimedTypeOK, IInv, TypeOK, TaskTypeOK
  <2>4. TimedTypeOK'
    BY <2>1, <2>3 DEF TimedTypeOK
  <2>5. executed \in Nat /\ MaxCountOf(cur) \in Nat
    BY TasksAssumption DEF IInv, TypeOK, TaskTypeOK, MaxCountOf
  <2>6. \A s \in Runners \ {r} : book'[s] = book[s] /\ copy'[s] = copy[s]
    BY <2>3 DEF TimedTypeOK
  <2>7. rpc[r] \in {"budget", "over"}
    BY <1>7 DEF FindTimedTask, BookInv
  <2> QED
    BY <2>1, <2>3, <2>4, <2>5, <2>6, <2>7 DEF BookInv, InList, MaxCountOf, NoRunLeft
<1>8. ASSUME NEW r \in Runners, StoreRuns(r)
      PROVE  TimedTypeOK' /\ BookInv'
  <2>1. UNCHANGED <<mpc, callbacks, cur, executed, rpc, fired, ran>>
    BY <1>8 DEF StoreRuns, vars, taskVars, taskData, mainVars
  <2>2. /\ cur \in Tasks /\ copy[r] \in Tasks /\ executed \in Nat
        /\ book[r] = "store" => executed < MaxCount[cur]
    BY <1>8 DEF StoreRuns, BookInv, TimedTypeOK, IInv, TypeOK, TaskTypeOK, MaxCountOf
  <2>3. book[r] = "store" => WithCount(copy[r], executed) \in Tasks
    <3>1. book[r] = "store" => executed \in 0 .. MaxCount[cur] - 1
      BY <2>2, TasksAssumption
    <3>2. book[r] = "store" => HasCount[copy[r]]
      BY <1>8 DEF StoreRuns, LacksCount
    <3> QED
      BY <2>2, <3>1, <3>2, WithCountIs
  <2>4. TimedTypeOK'
    BY <1>8, <2>1, <2>2, <2>3 DEF StoreRuns, InList, TimedTypeOK
  <2> QED
    BY <1>8, <2>1, <2>4 DEF StoreRuns, BookInv, InList, TimedTypeOK, MaxCountOf
<1>9. ASSUME NEW r \in Runners, RunTimed(r)
      PROVE  TimedTypeOK' /\ BookInv'
  BY <1>9, RunTimedBook
<1>10. ASSUME NEW r \in Runners, RaiseNoCount(r)
       PROVE  TimedTypeOK' /\ BookInv'
  BY <1>10 DEF RaiseNoCount, ServiceRestarts, TimedTypeOK, BookInv, InList
<1> QED
  BY <1>1, <1>2, <1>3, <1>4, <1>5, <1>6, <1>7, <1>8, <1>9, <1>10 DEF TimedNext

\* Whatever cron and the backend do with timed tasks, and however many threads
\* run: the bookkeeping is done by the thread inside run, for a task that there is,
\* and what it stores in the list is a task, its count below some max_count.
THEOREM BookKept == TimedSpec => []TimedInv
<1>1. TimedInit => TimedTypeOK /\ BookInv
  <2> SUFFICES ASSUME TimedInit PROVE TimedTypeOK /\ BookInv
    OBVIOUS
  <2>1. mpc # "install" /\ callbacks = "empty" /\ rpc = [r \in Runners |-> "none"]
    BY DEF TimedInit, Init, TaskInit
  <2> QED
    BY <2>1 DEF TimedInit, TimedTypeOK, BookInv, InList
<1>2. TimedSpec => []IInv
  BY TimedInvariance
<1> QED
  BY <1>1, <1>2, TimedStep, PTL DEF TimedSpec, TimedInv

\* The list, the messages of cron and the bookkeeping have their types.
THEOREM TimedTyped == TimedSpec => []TimedTypeOK
BY BookKept, PTL DEF TimedInv

THEOREM BookSound == TimedSpec => []BookInv
BY BookKept, PTL DEF TimedInv

-----------------------------------------------------------------------------
(* Deleted timed tasks                                                     *)

\* The message loop gives the task another only while no callback has a copy.
LEMMA MainKeepsCopies ==
  ASSUME TimedInv, MainStep
  PROVE  cur' = cur \/ \A r \in Runners : book[r] = "none"
<1>1. cur' = cur \/ runSche = NoThread
  BY DEF MainStep, Prioritize, Forward, StartCharge, Replace, AssignTask, Assign,
         InstallCallbacks, SpawnRunner, Spawn, CtlStep, CtlCheck, CtlPost, CtlStop,
         CtlStopRequest, CtlStopWait, CtlAck, taskVars, taskData
<1> QED
  BY <1>1, BookHolder, RunnersAssumption DEF TimedInv

\* Whatever cron, the backend and the threads do, and whether the process ends or
\* not: what was deleted stays deleted, once no callback is between its lookup and
\* its request.  Nothing but RecvAdd lists a task of an id that is not listed.
THEOREM Deletion == TimedSpec => DeletedStays
<1>1. ASSUME TimedInv, [TimedNext]_allVars, NEW i \in Ids, Gone(i),
             \A t \in Tasks : Id[t] = i => ~RecvAdd(t)
      PROVE  Gone(i)'
  <2> USE DEF Gone, InList
  <2> timed \in [Ids -> Tasks \cup {NoTask}] /\ timed[i] = NoTask
    BY <1>1 DEF TimedInv, TimedTypeOK
  <2>1. CASE UNCHANGED allVars
    BY <1>1, <2>1 DEF allVars, timedVars, vars, taskVars, taskData
  <2>2. ASSUME NEW t \in Tasks, RecvAdd(t)
        PROVE  Gone(i)'
    BY <1>1, <2>2 DEF RecvAdd, vars, taskVars, taskData
  <2>3. ASSUME NEW t \in Tasks, RecvFired(t)
        PROVE  Gone(i)'
    BY <1>1, <2>3 DEF RecvFired, RecvStart, taskVars, taskData
  <2>4. ASSUME NEW d \in Ids, RecvDelete(d) \/ Fire(d)
        PROVE  Gone(i)'
    BY <1>1, <2>4 DEF RecvDelete, Fire, vars, taskVars, taskData
  <2>5. ASSUME NEW op \in {"pause", "resume", "cancel"}, RecvControl(op), UNCHANGED timedVars
        PROVE  Gone(i)'
    BY <1>1, <2>5 DEF RecvControl, timedVars, taskData
  <2>6. CASE MainStep /\ UNCHANGED timedVars
    BY <1>1, <2>6, MainKeepsCopies DEF timedVars
  <2>7. ASSUME NEW r \in Runners, FindTimedTask(r)
        PROVE  Gone(i)'
    <3>1. /\ UNCHANGED <<cur, timed>>
          /\ Id[cur] = i => book'[r] = "none"
          /\ \A s \in Runners \ {r} : book'[s] = book[s]
      BY <1>1, <2>7 DEF FindTimedTask, TimedInv, TimedTypeOK, vars, taskVars, taskData
    <3> QED
      BY <1>1, <3>1
  <2>8. ASSUME NEW r \in Runners, StoreRuns(r)
        PROVE  Gone(i)'
    <3>1. /\ UNCHANGED cur /\ Id[cur] # i /\ timed'[i] = timed[i]
          /\ \A s \in Runners : book'[s] \in {book[s], "none"}
      BY <1>1, <2>8 DEF StoreRuns, TimedInv, TimedTypeOK, vars, taskVars, taskData
    <3> QED
      BY <1>1, <3>1
  <2>9. ASSUME NEW r \in Runners, RaiseNoCount(r)
        PROVE  Gone(i)'
    BY <1>1, <2>9 DEF RaiseNoCount
  <2>10. ASSUME NEW r \in Runners, RunTimed(r)
         PROVE  Gone(i)'
    <3>1. /\ UNCHANGED <<cur, timed>>
          /\ book'[r] \in {"none", "due"}
          /\ \A s \in Runners \ {r} : book'[s] = book[s]
      BY <1>1, <2>10, RunKeeps DEF RunTimed, TimedInv, TimedTypeOK
    <3> QED
      BY <1>1, <3>1
  <2> QED
    BY <1>1, <2>1, <2>2, <2>3, <2>4, <2>5, <2>6, <2>7, <2>8, <2>9, <2>10 DEF TimedNext
<1>2. TimedInv /\ [TimedNext]_allVars
        => [\A i \in Ids : Gone(i) /\ ~Gone(i)' =>
              \E t \in Tasks : Id[t] = i /\ RecvAdd(t)]_allVars
  BY <1>1
<1> QED
  BY <1>2, BookKept, PTL DEF TimedSpec, DeletedStays

=============================================================================
