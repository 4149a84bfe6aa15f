---------------------------- MODULE TimedRunsProofs ----------------------------
(***************************************************************************)
(* The runs of a timed task are counted right: each of them once, over all *)
(* the messages of cron and all the ends of runs, and none above           *)
(* max_count.                                                              *)
(*                                                                         *)
(* RunsInv is inductive: the entry of an id is settled but while a thread  *)
(* may run the task of that id, and then executed_count, which only the    *)
(* thread inside run changes, is the number of runs, but for the one that  *)
(* the thread has counted and not yet begun.  When the callback raises,    *)
(* for a task without executed_count, the process ends with every other    *)
(* entry settled.                                                          *)
(***************************************************************************)
EXTENDS TimedTaskRunProofs

\* No message overtakes a run: cron fires a task, and the backend adds it, when no
\* run of it is left, no message comes between the start of a thread and its
\* run_sche, and the backend adds no task that from_json refuses.  The message loop
\* may change the list during a callback, and a callback may end the process.
Orderly == Allowed = {}

\* Before a step, and what is known of the state after it.
Before == TimedInv /\ RunsInv
Known == Before /\ TimedInv'

-----------------------------------------------------------------------------
(* Lemmas                                                                  *)

\* The types that the proofs below need, in one place.
LEMMA Types ==
  ASSUME TimedInv
  PROVE  /\ rpc \in [Runners -> Inside \cup {"none", "lock"}]
         /\ executed \in Nat
         /\ cur \in Tasks \cup {NoTask} /\ arg \in Tasks \cup {NoTask}
         /\ NoTask \notin Tasks
         /\ timed \in [Ids -> Tasks \cup {NoTask}]
         /\ fired \in [Tasks -> Nat]
         /\ book \in [Runners -> {"none", "due", "delete", "store"}]
         /\ copy \in [Runners -> Tasks \cup {NoTask}]
         /\ ran \in [Ids -> Nat]
         /\ \A t \in Tasks : /\ Id[t] \in Ids /\ MaxCount[t] \in Nat
                             /\ ExecutedCount[t] \in Nat
BY TasksAssumption, TimedAssumption
   DEF TimedInv, TimedTypeOK, IInv, TypeOK, TaskTypeOK, MainTypeOK

\* A thread inside run is alone there.
LEMMA Alone ==
  ASSUME IInv, NEW r \in Runners, rpc[r] \in Inside
  PROVE  \A s \in Runners : rpc[s] \in Inside => s = r
BY DEF IInv, RunnerInv, RunnerHoldsLock

\* The runs begun, by the label of the thread inside run.
LEMMA BegunInside ==
  ASSUME IInv, NEW r \in Runners, rpc[r] \in Inside
  PROVE  Begun = IF rpc[r] = "budget" THEN executed - 1 ELSE executed
BY Alone DEF Begun, At, Inside, Prologue

\* Without a thread in any call, run_sche is free and the task is at its end, if
\* it has begun.
LEMMA NoneStarted ==
  ASSUME IInv, NotStarted
  PROVE  /\ runSche = NoThread
         /\ status \in {"INIT", "END"}
<1>1. \A r \in Runners : rpc[r] \notin Inside
  BY DEF NotStarted, At, Inside, Prologue, Loop, Epilogue
<1>2. runSche \in Runners \cup {NoThread}
  BY DEF IInv, TypeOK, TaskTypeOK
<1> QED
  BY <1>1, <1>2 DEF IInv, RunnerInv, RunnerHoldsLock, StatusOfRunner

\* What RunsInv says of the task while a thread is in a call: it is the only one
\* of which runs are not settled.
LEMMA StartedIsHeld ==
  ASSUME Before, NEW r \in Runners, ~At(r, "none")
  PROVE  /\ cur \in Tasks /\ callbacks = "installed"
         /\ Held(Id[cur])
         /\ \A i \in Ids : Held(i) => i = Id[cur]
         /\ \A t \in Tasks : fired[t] > 0 => Id[t] # Id[cur]
         /\ Handling => Id[arg] # Id[cur]
<1>1. cur \in Tasks /\ callbacks = "installed" /\ Id[cur] \in Ids
  BY Types DEF Before, RunsInv, HeldInv, NotStarted
<1>2. Held(Id[cur]) /\ \A i \in Ids : Held(i) => i = Id[cur]
  BY <1>1, Types DEF Held, Before
<1> QED
  BY <1>1, <1>2, Types DEF Before, RunsInv, FiredInv, ArgInv, NotStarted

\* Without a change to these variables RunsInv is as before.
LEMMA RunsFrame ==
  ASSUME RunsInv,
         UNCHANGED <<mpc, arg, cur, status, executed, callbacks, rpc, timedVars>>
  PROVE  RunsInv'
<1>1. \A i \in Ids : Held(i)' = Held(i)
  BY DEF Held, At
<1>2. \A i \in Ids : Settled(i)' = Settled(i)
  BY DEF Settled, timedVars
<1>3. Begun' = Begun /\ NotStarted' = NotStarted
  BY DEF Begun, NotStarted, At
<1>4. EntryIds'
  BY DEF RunsInv, EntryIds, WellFormed, timedVars
<1>5. FiredInv'
  BY TimedAssumption, <1>1 DEF RunsInv, FiredInv, Fresh, WellFormed, timedVars
<1>6. ArgInv'
  BY <1>3 DEF RunsInv, ArgInv, Fresh, WellFormed, Handling, At, timedVars
<1>7. HeldInv'
  BY <1>3 DEF RunsInv, HeldInv
<1>8. CountInv'
  BY <1>1, <1>2, <1>3 DEF RunsInv, CountInv, InList, WellFormed, timedVars
<1> QED
  BY <1>1, <1>2, <1>4, <1>5, <1>6, <1>7, <1>8 DEF RunsInv

-----------------------------------------------------------------------------
(* The list, and cron                                                      *)

\* A task is added, and its runs are counted anew, when nothing of its id is left.
LEMMA AddRuns ==
  ASSUME Orderly, Before, NEW t \in Tasks, MayAdd(t), RecvAdd(t)
  PROVE  RunsInv'
<1> USE DEF Before, RunsInv
<1>1. /\ mpc = "pop" /\ WellFormed(t)
      /\ ~Outstanding(Id[t])
      /\ timed' = [timed EXCEPT ![Id[t]] = t]
      /\ ran' = [ran EXCEPT ![Id[t]] = ExecutedCount[t]]
      /\ UNCHANGED <<mpc, arg, cur, status, executed, callbacks, rpc, fired, book, copy>>
  BY DEF RecvAdd, MayAdd, MainAt, Orderly, vars, mainVars, taskVars, taskData
<1>2. \A i \in Ids : Held(i)' = Held(i)
  BY <1>1 DEF Held, At
<1>3. /\ ~Held(Id[t])
      /\ \A u \in Tasks : fired[u] > 0 => Id[u] # Id[t]
  BY <1>1, Types DEF Outstanding
<1>4. \A i \in Ids \ {Id[t]} : timed'[i] = timed[i] /\ ran'[i] = ran[i]
  BY <1>1, Types
<1>5. timed'[Id[t]] = t /\ ran'[Id[t]] = ExecutedCount[t]
  BY <1>1, Types
<1>6. EntryIds'
  BY <1>1, <1>4, <1>5 DEF EntryIds, WellFormed
<1>7. FiredInv'
  <2>1. ASSUME NEW u \in Tasks, fired[u] > 0 PROVE Fresh(u)'
    <3>1. Fresh(u) /\ Id[u] \in Ids \ {Id[t]}
      BY <1>3, <2>1, TimedAssumption DEF FiredInv
    <3> QED
      BY <1>4, <3>1 DEF Fresh, WellFormed
  <2> QED
    BY <1>1, <1>2, <2>1, TimedAssumption DEF FiredInv
<1>8. ArgInv' /\ HeldInv'
  BY <1>1 DEF ArgInv, HeldInv, Handling, NotStarted, At
<1>9. \A i \in Ids \ {Id[t]} : Settled(i)' = Settled(i)
  BY <1>4 DEF Settled
<1>10. CountInv'
  <2>1. Begun' = Begun
    BY <1>1 DEF Begun, At
  <2> QED
    BY <1>1, <1>2, <1>3, <1>4, <1>9, <2>1 DEF CountInv, InList, WellFormed
<1>11. Settled(Id[t])'
  BY <1>1, <1>5 DEF Settled, WellFormed
<1> QED
  BY <1>2, <1>6, <1>7, <1>8, <1>9, <1>10, <1>11

LEMMA DeleteRuns ==
  ASSUME Before, NEW d \in Ids, RecvDelete(d)
  PROVE  RunsInv'
<1> USE DEF Before, RunsInv
<1>1. /\ timed' = [timed EXCEPT ![d] = NoTask]
      /\ UNCHANGED <<mpc, arg, cur, status, executed, callbacks, rpc, fired, book, copy, ran>>
  BY DEF RecvDelete, vars, mainVars, taskVars, taskData
<1>2. \A i \in Ids : Held(i)' = Held(i)
  BY <1>1 DEF Held, At
<1>3. \A i \in Ids : timed'[i] \in {timed[i], NoTask}
  BY <1>1, Types
<1>4. EntryIds'
  BY <1>3 DEF EntryIds, WellFormed
<1>5. \A t \in Tasks : Fresh(t) => Fresh(t)'
  BY <1>1, <1>3, Types DEF Fresh, WellFormed
<1>6. FiredInv'
  BY <1>1, <1>2, <1>5, Types DEF FiredInv
<1>7. ArgInv' /\ HeldInv'
  BY <1>1, <1>5, Types DEF ArgInv, HeldInv, Handling, NotStarted, At
<1>8. \A i \in Ids : Settled(i) => Settled(i)'
  BY <1>1, <1>3 DEF Settled
<1>9. CountInv'
  <2>1. Begun' = Begun
    BY <1>1 DEF Begun, At
  <2> QED
    BY <1>1, <1>2, <1>3, <1>8, <2>1 DEF CountInv, InList, WellFormed
<1> QED
  BY <1>2, <1>4, <1>6, <1>7, <1>8, <1>9

\* Cron sends a settled entry, which makes it the one message of its id.
LEMMA FireRuns ==
  ASSUME Orderly, Before, NEW f \in Ids, MayFire(f), Fire(f)
  PROVE  RunsInv'
<1> USE DEF Before, RunsInv
<1> DEFINE sent == timed[f]
<1>1. /\ sent \in Tasks /\ Id[sent] = f /\ WellFormed(sent)
      /\ ~Outstanding(f)
      /\ fired' = [fired EXCEPT ![sent] = @ + 1]
      /\ UNCHANGED <<mpc, arg, cur, status, executed, callbacks, rpc, timed, book, copy, ran>>
  BY Types DEF Fire, MayFire, EntryIds, Orderly, vars, mainVars, taskVars, taskData
<1>2. /\ ~Held(f)
      /\ \A u \in Tasks : Id[u] = f => fired[u] = 0
      /\ mpc # "pop" => Id[arg] # f
  BY <1>1, Types DEF Outstanding, ArgInv
<1>3. Fresh(sent)
  <2>1. Settled(f)
    BY <1>2
  <2> QED
    BY <1>1, <2>1, Types DEF Settled, Fresh
<1>4. /\ \A i \in Ids : Held(i)' = Held(i)
      /\ \A t \in Tasks : Fresh(t)' = Fresh(t)
  BY <1>1 DEF Held, At, Fresh, WellFormed
<1>5. FiredInv'
  <2>1. \A t \in Tasks \ {sent} : fired'[t] = fired[t]
    BY <1>1, Types
  <2>2. fired'[sent] = 1
    BY <1>1, <1>2, Types
  <2>3. \A t \in Tasks : fired'[t] > 0 => Id[t] # f \/ t = sent
    BY <1>2, <2>1
  <2> QED
    BY <1>1, <1>2, <1>3, <1>4, <2>1, <2>2, <2>3, Types DEF FiredInv
<1>6. EntryIds' /\ ArgInv' /\ HeldInv'
  BY <1>1, <1>4, Types DEF EntryIds, WellFormed, ArgInv, HeldInv, Handling, NotStarted, At
<1>7. CountInv' /\ \A i \in Ids : Settled(i)' = Settled(i)
  BY <1>1, <1>4 DEF CountInv, Settled, Begun, InList, At, WellFormed
<1> QED
  BY <1>4, <1>5, <1>6, <1>7

-----------------------------------------------------------------------------
(* The message loop                                                        *)

\* The message of a task is taken, which is well formed: it is handled next.
LEMMA ReceiveRuns ==
  ASSUME Orderly, Before, NEW t \in Tasks, MayTake, RecvFired(t)
  PROVE  RunsInv'
<1> USE DEF Before, RunsInv
<1>1. fired[t] = 1 /\ Fresh(t) /\ ~Held(Id[t])
      /\ \A u \in Tasks : fired[u] > 0 /\ Id[u] = Id[t] => u = t
  BY DEF RecvFired, FiredInv
<1>2. /\ mpc = "pop" /\ mpc' = "prioritize" /\ arg' = t
      /\ fired' = [fired EXCEPT ![t] = @ - 1]
      /\ \A r \in Runners : ~At(r, "lock")
      /\ UNCHANGED <<cur, status, executed, callbacks, rpc, timed, book, copy, ran>>
  BY <1>1 DEF RecvFired, RecvStart, Receives, MainAt, MayTake, Fresh, Orderly, taskVars, taskData
<1>3. /\ \A i \in Ids : Held(i)' = Held(i)
      /\ \A u \in Tasks : Fresh(u)' = Fresh(u)
      /\ \A i \in Ids : Settled(i)' = Settled(i)
  BY <1>2 DEF Held, At, Fresh, WellFormed, Settled
<1>4. fired'[t] = 0 /\ \A u \in Tasks \ {t} : fired'[u] = fired[u]
  BY <1>1, <1>2, Types
<1>5. FiredInv'
  BY <1>1, <1>2, <1>3, <1>4, Types DEF FiredInv
<1>6. ArgInv'
  <2>1. cur # NoTask /\ Id[cur] = Id[t] => NotStarted
    BY <1>1 DEF Held, NotStarted
  <2> QED
    BY <1>1, <1>2, <1>3, <2>1, Types DEF ArgInv, Handling, NotStarted, At
<1>7. EntryIds' /\ HeldInv'
  BY <1>2 DEF EntryIds, WellFormed, HeldInv, NotStarted, At
<1>8. CountInv'
  BY <1>2, <1>3 DEF CountInv, Begun, InList, At, WellFormed
<1> QED
  BY <1>3, <1>5, <1>6, <1>7, <1>8

\* A message is refused only for the sake of a task that a thread runs.
LEMMA PrioritizeRuns ==
  ASSUME Before, Prioritize, UNCHANGED timedVars
  PROVE  RunsInv'
<1> USE DEF Before, RunsInv
<1>1. /\ mpc = "prioritize" /\ mpc' \in {"replace", "spawn"}
      /\ mpc' = "spawn" => status # "END" /\ PriorityOf(arg) < PriorityOf(cur)
      /\ UNCHANGED <<arg, cur, status, executed, callbacks, rpc, timed, fired, book, copy, ran>>
  BY DEF Prioritize, MainAt, taskVars, taskData, timedVars
<1>2. mpc' = "spawn" => ~NotStarted
  <2> SUFFICES ASSUME mpc' = "spawn", NotStarted PROVE FALSE
    OBVIOUS
  <2>1. cur # NoTask
    <3>1. arg \in Tasks /\ Priority[arg] \in 0 .. 999
      BY <1>1, Types DEF ArgInv, Handling, Fresh, WellFormed
    <3> QED
      BY <1>1, <3>1, Types DEF PriorityOf
  <2>2. status = "INIT"
    BY <1>1, NoneStarted DEF TimedInv
  <2> QED
    BY <1>1, <2>1, <2>2 DEF HeldInv, NotStarted, At, Prologue
<1>3. \A i \in Ids : Held(i)' = Held(i)
  BY <1>1, <1>2 DEF Held, NotStarted, At
<1>4. EntryIds' /\ \A i \in Ids : Settled(i)' = Settled(i)
  BY <1>1 DEF EntryIds, WellFormed, Settled
<1>5. \A t \in Tasks : Fresh(t)' = Fresh(t)
  BY <1>1 DEF Fresh, WellFormed
<1>6. FiredInv'
  BY <1>1, <1>3, <1>5, Types DEF FiredInv
<1>7. ArgInv'
  BY <1>1, <1>5, Types DEF ArgInv, Handling, NotStarted, At
<1>8. HeldInv'
  BY <1>1, <1>2 DEF HeldInv, NotStarted, At
<1>9. CountInv'
  BY <1>1, <1>3, <1>4 DEF CountInv, Begun, InList, At, WellFormed
<1> QED
  BY <1>3, <1>4, <1>6, <1>7, <1>8, <1>9

LEMMA ReplaceRuns ==
  ASSUME Before, Replace, UNCHANGED timedVars
  PROVE  RunsInv'
<1> USE DEF Before, RunsInv
<1>1. /\ mpc = "replace" /\ mpc' = "assign"
      /\ UNCHANGED <<arg, cur, status, executed, callbacks, rpc, timed, fired, book, copy, ran>>
  BY DEF Replace, MainAt, taskData, timedVars
<1>2. \A i \in Ids : Held(i)' = Held(i)
  BY <1>1 DEF Held, At
<1>3. /\ EntryIds' /\ \A i \in Ids : Settled(i)' = Settled(i)
      /\ \A t \in Tasks : Fresh(t)' = Fresh(t)
  BY <1>1 DEF EntryIds, Settled, Fresh, WellFormed
<1>4. FiredInv'
  BY <1>1, <1>2, <1>3, Types DEF FiredInv
<1>5. ArgInv' /\ HeldInv'
  BY <1>1, <1>3, Types DEF ArgInv, HeldInv, Handling, NotStarted, At
<1>6. CountInv'
  BY <1>1, <1>2, <1>3 DEF CountInv, Begun, InList, At, WellFormed
<1> QED
  BY <1>2, <1>3, <1>4, <1>5, <1>6

\* The task held is replaced when no thread is left that may run it, so that its
\* entry is settled, by one with as many runs as its entry says.
LEMMA AssignRuns ==
  ASSUME Before, AssignTask, UNCHANGED timedVars
  PROVE  RunsInv'
<1> USE DEF Before, RunsInv
<1>1. /\ mpc = "assign" /\ mpc' = "install" /\ runSche = NoThread
      /\ cur' = arg /\ executed' = ExecutedCount[arg]
      /\ UNCHANGED <<arg, rpc, timed, fired, book, copy, ran>>
  BY DEF AssignTask, MainAt, Assign, timedVars
<1>2. arg \in Tasks /\ Fresh(arg)
  BY <1>1, Types DEF ArgInv, Handling
<1>3. NotStarted
  <2>1. \A r \in Runners : rpc[r] \notin Inside
    BY <1>1, RunnersAssumption DEF TimedInv, IInv, RunnerInv, RunnerHoldsLock
  <2> QED
    BY <1>1, <2>1, Types DEF ArgInv, NotStarted, At
<1>4. /\ \A i \in Ids : ~Held(i)
      /\ \A i \in Ids : Held(i)' => i = Id[arg]
  BY <1>1, <1>3 DEF Held, NotStarted
<1>5. /\ EntryIds' /\ \A i \in Ids : Settled(i)' = Settled(i)
      /\ \A t \in Tasks : Fresh(t)' = Fresh(t)
  BY <1>1 DEF EntryIds, Settled, Fresh, WellFormed
<1>6. FiredInv'
  BY <1>1, <1>4, <1>5, Types DEF FiredInv
<1>7. ArgInv'
  BY <1>1, <1>2, <1>3, <1>5, Types DEF ArgInv, Handling, NotStarted, At
<1>8. HeldInv'
  BY <1>1, <1>3 DEF HeldInv, NotStarted, At
<1>9. CountInv'
  <2>1. \A r \in Runners : rpc[r] = "none" /\ book[r] = "none"
    BY <1>3 DEF NotStarted, At, TimedInv, BookInv
  <2>2. Begun' = ExecutedCount[arg]
    BY <1>1, <2>1 DEF Begun, At
  <2> QED
    BY <1>1, <1>2, <1>4, <2>1, <2>2, Types DEF CountInv, Fresh, WellFormed, InList
<1> QED
  BY <1>4, <1>5, <1>6, <1>7, <1>8, <1>9

LEMMA InstallRuns ==
  ASSUME Before, InstallCallbacks, UNCHANGED timedVars
  PROVE  RunsInv'
<1> USE DEF Before, RunsInv
<1>1. /\ mpc = "install" /\ mpc' = "spawn" /\ callbacks' = "installed"
      /\ UNCHANGED <<arg, cur, status, executed, rpc, timed, fired, book, copy, ran>>
  BY DEF InstallCallbacks, MainAt, timedVars
<1>2. cur # NoTask
  BY <1>1 DEF TimedInv, BookInv
<1>3. \A i \in Ids : Held(i)' = Held(i)
  BY <1>1 DEF Held, At
<1>4. /\ EntryIds' /\ \A i \in Ids : Settled(i)' = Settled(i)
      /\ \A t \in Tasks : Fresh(t)' = Fresh(t)
  BY <1>1 DEF EntryIds, Settled, Fresh, WellFormed
<1>5. FiredInv'
  BY <1>1, <1>3, <1>4, Types DEF FiredInv
<1>6. ArgInv' /\ HeldInv'
  BY <1>1, <1>2 DEF ArgInv, HeldInv, Handling, NotStarted, At
<1>7. CountInv'
  BY <1>1, <1>3, <1>4 DEF CountInv, Begun, InList, At, WellFormed
<1> QED
  BY <1>3, <1>4, <1>5, <1>6, <1>7

LEMMA SpawnRuns ==
  ASSUME Before, SpawnRunner, UNCHANGED timedVars
  PROVE  RunsInv'
<1> USE DEF Before, RunsInv
<1>1. PICK n \in Runners :
        /\ mpc = "spawn" /\ mpc' = "pop"
        /\ rpc[n] = "none" /\ rpc' = [rpc EXCEPT ![n] = "lock"]
        /\ UNCHANGED <<arg, cur, status, executed, callbacks, timed, fired, book, copy, ran>>
  BY DEF SpawnRunner, Spawn, MainAt, At, Goto, taskData, timedVars
<1>2. rpc'[n] = "lock" /\ \A r \in Runners \ {n} : rpc'[r] = rpc[r]
  BY <1>1, Types
<1>3. \A i \in Ids : Held(i)' = Held(i)
  BY <1>1, <1>2 DEF Held, At
<1>4. /\ EntryIds' /\ \A i \in Ids : Settled(i)' = Settled(i)
      /\ \A t \in Tasks : Fresh(t)' = Fresh(t)
  BY <1>1 DEF EntryIds, Settled, Fresh, WellFormed
<1>5. FiredInv'
  BY <1>1, <1>3, <1>4, Types DEF FiredInv
<1>6. ArgInv' /\ HeldInv'
  BY <1>1, <1>2 DEF ArgInv, HeldInv, Handling, NotStarted, At
<1>7. CountInv'
  <2>1. Begun' = Begun
    BY <1>1, <1>2 DEF Begun, At
  <2> QED
    BY <1>1, <1>2, <1>3, <1>4, <2>1 DEF CountInv, InList, WellFormed
<1> QED
  BY <1>3, <1>4, <1>5, <1>6, <1>7

LEMMA MainRuns ==
  ASSUME Before, MainStep, UNCHANGED timedVars
  PROVE  RunsInv'
<1>1. ~Forward /\ ~StartCharge
  BY DEF Before, RunsInv, HeldInv, Forward, StartCharge, MainAt
<1>2. CASE CtlStep /\ UNCHANGED mainVars
  <2>1. UNCHANGED <<taskData, rpc, status>>
    BY <1>2 DEF CtlStep, CtlCheck, CtlPost, CtlStop, CtlStopRequest, CtlStopWait, CtlAck
  <2> QED
    BY <1>2, <2>1, RunsFrame DEF Before, taskData, mainVars
<1> QED
  BY <1>1, <1>2, PrioritizeRuns, ReplaceRuns, AssignRuns, InstallRuns, SpawnRuns DEF MainStep

-----------------------------------------------------------------------------
(* The end of a run                                                        *)

\* The bookkeeping finds the entry of the task held, or has nothing to do.
LEMMA FindRuns ==
  ASSUME Before, NEW r \in Runners, FindTimedTask(r)
  PROVE  RunsInv'
<1> USE DEF Before, RunsInv
<1>1. /\ UNCHANGED <<mpc, arg, cur, status, executed, callbacks, rpc, timed, fired, ran>>
      /\ copy' = [copy EXCEPT ![r] = copy'[r]] /\ book' = [book EXCEPT ![r] = book'[r]]
  BY Types DEF FindTimedTask, vars, mainVars, taskVars, taskData
<1>2. rpc[r] \in {"budget", "over"} /\ ~At(r, "none")
  BY DEF FindTimedTask, TimedInv, BookInv, At
<1>3. /\ cur \in Tasks /\ callbacks = "installed" /\ Held(Id[cur])
      /\ \A i \in Ids : Held(i) => i = Id[cur]
  BY <1>2, StartedIsHeld
<1>4. /\ copy'[r] = timed[Id[cur]]
      /\ book'[r] = IF timed[Id[cur]] = NoTask THEN "none"
                    ELSE IF NoRunLeft THEN "delete" ELSE "store"
  BY <1>3, Types DEF FindTimedTask
<1>5. \A i \in Ids : Held(i)' = Held(i) /\ Settled(i)' = Settled(i)
  BY <1>1 DEF Held, At, Settled
<1>6. EntryIds' /\ FiredInv' /\ ArgInv' /\ HeldInv'
  <2>1. \A t \in Tasks : Fresh(t)' = Fresh(t)
    BY <1>1 DEF Fresh, WellFormed
  <2>2. FiredInv'
    BY <1>1, <1>5, <2>1, Types DEF FiredInv
  <2>3. EntryIds' /\ ArgInv'
    BY <1>1, <2>1, Types DEF EntryIds, ArgInv, Handling, NotStarted, At
  <2>4. HeldInv'
    BY <1>1 DEF HeldInv, NotStarted, At
  <2> QED
    BY <2>2, <2>3, <2>4
<1>7. CountInv'
  <2>1. Begun' = Begun
    BY <1>1 DEF Begun, At
  <2>2. \A s \in Runners \ {r} : book'[s] = book[s] /\ copy'[s] = copy[s]
    BY <1>1, Types
  <2>3. InList(r)' => /\ Id[copy'[r]] = Id[cur]
                      /\ Version[copy'[r]] = Version[cur]
                      /\ WellFormed(copy'[r])
    BY <1>3, <1>4, Types DEF InList, EntryIds, CountInv
  <2>4. book'[r] = "delete" => executed >= MaxCount[cur]
    BY <1>3, <1>4, Types DEF NoRunLeft, MaxCountOf
  <2>5. book'[r] = "none" => Settled(Id[cur])
    BY <1>4 DEF Settled
  <2>6. SUFFICES ASSUME NEW i \in Ids, Held(i)
                 PROVE  /\ HasCount[cur] =>
                             ran[i] = IF Begun <= MaxCount[cur] THEN Begun ELSE MaxCount[cur]
                        /\ timed[i] # NoTask => Version[timed[i]] = Version[cur]
                        /\ \A s \in Runners :
                             /\ InList(s)' => /\ Id[copy'[s]] = i
                                              /\ Version[copy'[s]] = Version[cur]
                                              /\ WellFormed(copy'[s])
                             /\ book'[s] = "delete" => executed >= MaxCount[cur]
                             /\ rpc[s] = "over" /\ book'[s] = "none" => Settled(i)
    BY <1>1, <1>5, <2>1 DEF CountInv, WellFormed
  <2>7. i = Id[cur]
    BY <1>3, <2>6
  <2> QED
    BY <2>2, <2>3, <2>4, <2>5, <2>6, <2>7 DEF CountInv, InList, WellFormed
<1> QED
  BY <1>5, <1>6, <1>7

\* The entry that is stored has the number of runs, which were all begun.
LEMMA StoreRunsRuns ==
  ASSUME Before, NEW r \in Runners, StoreRuns(r)
  PROVE  RunsInv'
<1> USE DEF Before, RunsInv
<1> DEFINE entry == timed'[Id[cur]]
<1>1. /\ InList(r) /\ book[r] \in {"delete", "store"}
      /\ UNCHANGED <<mpc, arg, cur, status, executed, callbacks, rpc, fired, ran>>
      /\ book' = [book EXCEPT ![r] = "none"] /\ copy' = [copy EXCEPT ![r] = NoTask]
  BY DEF StoreRuns, InList, vars, mainVars, taskVars, taskData
<1>2. /\ rpc[r] \in {"budget", "over"} /\ ~At(r, "none") /\ rpc[r] \in Inside
  BY <1>1 DEF TimedInv, BookInv, At, Inside, Prologue, Epilogue
<1>3. /\ cur \in Tasks /\ Held(Id[cur])
      /\ \A i \in Ids : Held(i) => i = Id[cur]
      /\ \A t \in Tasks : fired[t] > 0 => Id[t] # Id[cur]
      /\ Handling => Id[arg] # Id[cur]
  BY <1>2, StartedIsHeld
<1>4. \A s \in Runners \ {r} : book'[s] = "none"
  BY <1>1, BookHolder, Types DEF TimedInv
<1>5. /\ \A i \in Ids \ {Id[cur]} : timed'[i] = timed[i]
      /\ entry = IF book[r] = "delete" THEN NoTask ELSE WithCount(copy[r], executed)
  BY <1>3, Types DEF StoreRuns
<1>6. entry # NoTask =>
        /\ entry \in Tasks /\ Id[entry] = Id[cur] /\ Version[entry] = Version[cur]
        /\ ExecutedCount[entry] = executed
        /\ MaxCount[entry] = MaxCount[cur]
        /\ executed < MaxCount[cur]
        /\ HasCount[cur] /\ WellFormed(entry)
  <2> SUFFICES ASSUME entry # NoTask PROVE
        /\ entry \in Tasks /\ Id[entry] = Id[cur] /\ Version[entry] = Version[cur]
        /\ ExecutedCount[entry] = executed
        /\ MaxCount[entry] = MaxCount[cur]
        /\ executed < MaxCount[cur]
        /\ HasCount[cur] /\ WellFormed(entry)
    OBVIOUS
  <2>1. book[r] = "store" /\ entry = WithCount(copy[r], executed)
    BY <1>1, <1>5
  <2>2. copy[r] \in Tasks /\ executed < MaxCount[cur]
    BY <1>1, <1>3, <2>1, Types DEF TimedInv, BookInv, MaxCountOf
  <2>3. Id[copy[r]] = Id[cur] /\ Version[copy[r]] = Version[cur] /\ WellFormed(copy[r])
    BY <1>1, <1>3, Types DEF CountInv
  <2> HasCount[copy[r]] /\ HasCount[cur]
    BY <1>3, <2>1, <2>2, <2>3, TimedAssumption DEF StoreRuns, LacksCount
  <2>4. executed \in 0 .. MaxCount[cur] - 1
    BY <1>3, <2>2, Types
  <2>5. /\ entry \in Tasks /\ Id[entry] = Id[copy[r]] /\ Version[entry] = Version[copy[r]]
        /\ ExecutedCount[entry] = executed
    BY <1>3, <2>1, <2>2, <2>4, WithCountIs
  <2>6. MaxCount[entry] = MaxCount[cur] /\ Priority[entry] = Priority[copy[r]]
    BY <1>3, <2>2, <2>3, <2>5, TimedAssumption
  <2>7. WellFormed(entry)
    BY <2>2, <2>3, <2>5, <2>6 DEF WellFormed
  <2> QED
    BY <2>2, <2>3, <2>5, <2>6, <2>7
<1>7. \A i \in Ids : Held(i)' = Held(i)
  BY <1>1 DEF Held, At
<1>8. EntryIds'
  BY <1>5, <1>6 DEF EntryIds, WellFormed
<1>9. \A t \in Tasks : Id[t] # Id[cur] => Fresh(t)' = Fresh(t)
  BY <1>1, <1>5, Types DEF Fresh, WellFormed
<1>10. FiredInv'
  BY <1>1, <1>3, <1>7, <1>9, Types DEF FiredInv
<1>11. ArgInv' /\ HeldInv'
  BY <1>1, <1>3, <1>9, Types DEF ArgInv, HeldInv, Handling, NotStarted, At
<1>12. \A i \in Ids \ {Id[cur]} : Settled(i)' = Settled(i)
  BY <1>1, <1>5 DEF Settled
<1>13. CountInv'
  <2>1. Begun' = Begun
    BY <1>1 DEF Begun, At
  <2>2. rpc[r] = "over" => Settled(Id[cur])'
    <3> SUFFICES ASSUME rpc[r] = "over", entry # NoTask
                 PROVE  ExecutedCount[entry] = ran[Id[cur]] /\ ran[Id[cur]] < MaxCount[entry]
      BY <1>1 DEF Settled
    <3>1. Begun = executed
      BY <1>2, BegunInside DEF TimedInv
    <3>2. ran[Id[cur]] = executed
      BY <1>3, <1>6, <3>1, Types DEF CountInv
    <3> QED
      BY <1>6, <3>2
  <2>3. \A s \in Runners : ~InList(s)' /\ book'[s] = "none"
    BY <1>1, <1>4, Types DEF InList
  <2>4. \A s \in Runners : rpc[s] = "over" => s = r
    BY <1>2, Alone DEF TimedInv, Inside, Epilogue
  <2>5. SUFFICES ASSUME NEW i \in Ids, Held(i)
                 PROVE  /\ HasCount[cur] =>
                             ran[i] = IF Begun <= MaxCount[cur] THEN Begun ELSE MaxCount[cur]
                        /\ timed'[i] # NoTask => Version[timed'[i]] = Version[cur]
                        /\ \A s \in Runners : rpc[s] = "over" => Settled(i)'
    BY <1>1, <1>7, <2>1, <2>3 DEF CountInv, WellFormed
  <2>6. i = Id[cur]
    BY <1>3, <2>5
  <2>7. HasCount[cur] => ran[i] = IF Begun <= MaxCount[cur] THEN Begun ELSE MaxCount[cur]
    BY <2>5 DEF CountInv
  <2>8. timed'[i] # NoTask => Version[timed'[i]] = Version[cur]
    BY <1>6, <2>6
  <2>9. \A s \in Runners : rpc[s] = "over" => Settled(i)'
    BY <1>1, <2>2, <2>4, <2>6 DEF Settled
  <2> QED
    BY <2>7, <2>8, <2>9
<1> QED
  BY <1>3, <1>7, <1>8, <1>10, <1>11, <1>12, <1>13

\* The process ends with the run of a task that has no number of runs: no other
\* entry was touched, and the messages and the task that held one are gone.
LEMMA RaiseRuns ==
  ASSUME Before, NEW r \in Runners, RaiseNoCount(r)
  PROVE  RunsInv'
<1> USE DEF Before, RunsInv
<1>1. /\ InList(r) /\ copy[r] \in Tasks /\ ~HasCount[copy[r]]
      /\ rpc[r] \in {"budget", "over"} /\ ~At(r, "none")
  BY Types DEF RaiseNoCount, LacksCount, InList, TimedInv, BookInv, At
<1>2. /\ cur \in Tasks /\ Held(Id[cur])
      /\ \A i \in Ids : Held(i) => i = Id[cur]
  BY <1>1, StartedIsHeld
<1>3. /\ mpc' = "pop" /\ cur' = NoTask /\ rpc' = [s \in Runners |-> "none"]
      /\ fired' = [t \in Tasks |-> 0] /\ UNCHANGED <<timed, ran>>
  BY DEF RaiseNoCount, ServiceRestarts
<1>4. EntryIds' /\ FiredInv' /\ ArgInv'
  BY <1>3 DEF EntryIds, WellFormed, FiredInv, ArgInv, Handling
<1>5. HeldInv' /\ CountInv'
  BY <1>3 DEF HeldInv, CountInv, Held, NotStarted, At
<1>6. timed[Id[cur]] # NoTask => ~HasCount[timed[Id[cur]]]
  <2>1. Version[copy[r]] = Version[cur] /\ Id[copy[r]] = Id[cur]
    BY <1>1, <1>2, Types DEF CountInv
  <2>2. timed[Id[cur]] # NoTask => /\ timed[Id[cur]] \in Tasks
                                  /\ Id[timed[Id[cur]]] = Id[cur]
                                  /\ Version[timed[Id[cur]]] = Version[cur]
    BY <1>2, Types DEF CountInv, EntryIds
  <2> QED
    BY <1>1, <2>1, <2>2, TimedAssumption
<1>7. \A i \in Ids : Settled(i)'
  <2>1. \A i \in Ids : Settled(i)
    BY <1>2, <1>6 DEF Settled
  <2> QED
    BY <1>3, <2>1 DEF Settled
<1> QED
  BY <1>4, <1>5, <1>7

-----------------------------------------------------------------------------
(* The runs                                                                *)

\* A thread that counts a run, begins it or is refused: the number of runs begun
\* follows executed_count, up to max_count.
LEMMA RunCounts ==
  ASSUME Known, NEW r \in Runners, RunTimed(r), HasCount[cur]
  PROVE  ran'[Id[cur]] = IF Begun' <= MaxCount[cur] THEN Begun' ELSE MaxCount[cur]
<1> USE DEF Known, Before, RunsInv
<1>1. RunnersStep(r) /\ ~At(r, "none") /\ UNCHANGED cur
  <2>1. RunnersStep(r)
    BY DEF RunTimed
  <2>2. rpc[r] # "none"
    BY <2>1, RunLabels DEF TimedInv, Locks, Counts, Begins, Refuses, Loops, Ends, Loop
  <2> QED
    BY <2>1, <2>2, RunKeeps DEF TimedInv, At
<1>2. /\ cur \in Tasks /\ Held(Id[cur]) /\ Id[cur] \in Ids
      /\ executed \in Nat /\ MaxCount[cur] \in Nat /\ MaxCountOf(cur) = MaxCount[cur]
  BY <1>1, StartedIsHeld, Types DEF MaxCountOf
<1>3. ran[Id[cur]] = IF Begun <= MaxCount[cur] THEN Begun ELSE MaxCount[cur]
  BY <1>2 DEF CountInv
<1>4. ran \in [Ids -> Nat]
  BY Types
<1>5. rpc[r] \in Inside => Begun = IF rpc[r] = "budget" THEN executed - 1 ELSE executed
  BY BegunInside DEF TimedInv
<1>6. rpc'[r] \in Inside => Begun' = IF rpc'[r] = "budget" THEN executed' - 1 ELSE executed'
  <2>1. (IInv /\ rpc[r] \in Inside
           => Begun = IF rpc[r] = "budget" THEN executed - 1 ELSE executed)'
    BY BegunInside, PTL
  <2> QED
    BY <2>1 DEF TimedInv
<1>7. rpc' = [rpc EXCEPT ![r] = rpc'[r]] /\ rpc \in [Runners -> Inside \cup {"none", "lock"}]
  BY <1>1, RunKeeps DEF TimedInv
<1>8. ran' = IF rpc[r] = "budget" /\ status' = "EXECING"
             THEN [ran EXCEPT ![Id[cur]] = @ + 1] ELSE ran
  BY DEF RunTimed
<1>9. CASE Locks(r)
  <2>1. \A s \in Runners : ~At(s, "budget")
    <3> SUFFICES ASSUME NEW s \in Runners, rpc[s] = "budget" PROVE FALSE
      BY DEF At
    <3>1. rpc'[s] \in Inside /\ rpc'[r] \in Inside /\ s # r
      BY <1>7, <1>9 DEF Locks, Inside, Prologue
    <3> QED
      BY <3>1 DEF TimedInv, IInv, RunnerInv, RunnerHoldsLock
  <2>2. Begun = executed /\ Begun' = executed'
    BY <1>6, <1>9, <2>1 DEF Begun, Locks, Inside, Prologue
  <2> QED
    BY <1>3, <1>8, <1>9, <2>2 DEF Locks
<1>10. CASE Counts(r)
  BY <1>2, <1>3, <1>5, <1>6, <1>8, <1>10 DEF Counts, Inside, Prologue
<1>11. CASE Begins(r)
  <2>1. Begun = executed - 1 /\ Begun' = executed
    BY <1>5, <1>6, <1>11 DEF Begins, Inside, Prologue, Loop, Epilogue
  <2>2. ran[Id[cur]] = executed - 1
    BY <1>2, <1>3, <1>11, <2>1 DEF Begins
  <2> QED
    BY <1>2, <1>4, <1>8, <1>11, <2>1, <2>2 DEF Begins
<1>12. CASE Refuses(r)
  BY <1>2, <1>3, <1>5, <1>6, <1>8, <1>12 DEF Refuses, Inside, Prologue, Epilogue
<1>13. CASE Loops(r)
  BY <1>3, <1>5, <1>6, <1>8, <1>13 DEF Loops, Inside, Loop, Epilogue
<1>14. CASE Ends(r)
  <2>1. \A s \in Runners : rpc'[s] # "budget"
    BY <1>7, <1>14, Alone DEF Ends, TimedInv, Inside, Prologue, Epilogue
  <2>2. Begun' = executed' /\ Begun = executed
    BY <1>5, <1>14, <2>1 DEF Begun, At, Ends, Inside, Epilogue
  <2> QED
    BY <1>3, <1>8, <1>14, <2>2 DEF Ends
<1> QED
  BY <1>1, <1>9, <1>10, <1>11, <1>12, <1>13, <1>14, RunLabels DEF TimedInv

\* A step of a run: the entry is settled by the time no thread is left.
LEMMA RunTimedRuns ==
  ASSUME Known, NEW r \in Runners, RunTimed(r)
  PROVE  RunsInv'
<1> USE DEF Known, Before, RunsInv
<1>1. /\ RunnersStep(r) /\ book[r] = "none"
      /\ UNCHANGED <<cur, callbacks, mpc, arg, timed, fired, copy>>
      /\ rpc \in [Runners -> Inside \cup {"none", "lock"}]
      /\ rpc' = [rpc EXCEPT ![r] = rpc'[r]]
      /\ \A s \in Runners \ {r} : rpc'[s] = rpc[s]
  BY RunKeeps DEF RunTimed, TimedInv
<1>2. Locks(r) \/ Counts(r) \/ Begins(r) \/ Refuses(r) \/ Loops(r) \/ Ends(r)
  BY <1>1, RunLabels DEF TimedInv
<1>3. rpc[r] # "none" /\ rpc'[r] # "lock"
  BY <1>2 DEF Locks, Counts, Begins, Refuses, Loops, Ends, Loop, Epilogue
<1>4. /\ cur \in Tasks /\ callbacks = "installed" /\ Held(Id[cur])
      /\ \A i \in Ids : Held(i) => i = Id[cur]
      /\ \A t \in Tasks : fired[t] > 0 => Id[t] # Id[cur]
      /\ Handling => Id[arg] # Id[cur]
  BY <1>3, StartedIsHeld DEF At
<1>5. \A i \in Ids : i # Id[cur] => ran'[i] = ran[i]
  BY <1>4, Types DEF RunTimed
<1>6. \A i \in Ids : Held(i)' => Held(i)
  BY <1>1, <1>3 DEF Held, At
<1>7. \A t \in Tasks : Id[t] # Id[cur] => Fresh(t)' = Fresh(t)
  BY <1>1, <1>5, Types DEF Fresh, WellFormed
<1>8. EntryIds'
  BY <1>1 DEF EntryIds, WellFormed
<1>9. FiredInv'
  BY <1>1, <1>4, <1>6, <1>7, Types DEF FiredInv
<1>10. ArgInv'
  BY <1>1, <1>3, <1>4, <1>7, Types DEF ArgInv, Handling, NotStarted, At
<1>11. HeldInv'
  <2>1. status' = "INIT" => rpc'[r] \in Prologue
    <3>1. Ends(r) => status = "END"
      BY HolderFacts, StatusAtLabels DEF Ends, TimedInv, IInv, Inside, Epilogue
    <3> QED
      BY <1>2, <3>1 DEF Locks, Counts, Begins, Refuses, Loops, Ends, Prologue
  <2> QED
    BY <1>1, <1>3, <1>4, <2>1 DEF HeldInv, NotStarted, At
<1>12. book' = [book EXCEPT ![r] = book'[r]] /\ book'[r] \in {"none", "due"}
       /\ (rpc'[r] = "over" => book'[r] = "due")
  BY Types DEF RunTimed, CalledBackOver
<1>13. CountInv'
  <2>1. \A s \in Runners : /\ InList(s)' => InList(s)
                           /\ book'[s] = "delete" => book[s] = "delete" /\ s # r
    BY <1>12, Types DEF InList
  <2>2. \A s \in Runners : ~(rpc'[s] = "over" /\ book'[s] = "none")
    <3> SUFFICES ASSUME NEW s \in Runners, rpc'[s] = "over", book'[s] = "none"
                 PROVE  FALSE
      OBVIOUS
    <3>1. s # r /\ rpc[s] = "over"
      BY <1>1, <1>12
    <3>2. rpc[r] = "lock" /\ rpc'[r] = "willStart"
      BY <1>2, <3>1, Alone
         DEF TimedInv, Locks, Counts, Begins, Refuses, Loops, Ends, Inside, Prologue, Epilogue
    <3> QED
      BY <3>1, <3>2 DEF TimedInv, IInv, RunnerInv, RunnerHoldsLock, Inside, Prologue, Epilogue
  <2>3. \A s \in Runners : book[s] = "delete" => executed' = executed
    <3> SUFFICES ASSUME NEW s \in Runners, book[s] = "delete" PROVE executed' = executed
      OBVIOUS
    <3>1. s # r /\ rpc[s] \in Inside /\ rpc[r] \notin Inside
      BY <1>1, BookHolder DEF TimedInv, BookInv, Inside, Prologue, Epilogue
    <3> QED
      BY <1>2, <3>1 DEF Locks, Counts, Begins, Refuses, Loops, Ends, Inside, Prologue, Epilogue
  <2>4. HasCount[cur] =>
          ran'[Id[cur]] = IF Begun' <= MaxCount[cur] THEN Begun' ELSE MaxCount[cur]
    BY RunCounts
  <2>5. SUFFICES ASSUME NEW i \in Ids, Held(i)'
                 PROVE  /\ HasCount[cur] =>
                             ran'[i] = IF Begun' <= MaxCount[cur] THEN Begun' ELSE MaxCount[cur]
                        /\ timed[i] # NoTask => Version[timed[i]] = Version[cur]
                        /\ \A s \in Runners :
                             /\ InList(s) => /\ Id[copy[s]] = i
                                             /\ Version[copy[s]] = Version[cur]
                                             /\ WellFormed(copy[s])
                             /\ book'[s] = "delete" => executed' >= MaxCount[cur]
    BY <1>1, <2>1, <2>2 DEF CountInv, WellFormed
  <2>6. Held(i) /\ i = Id[cur]
    BY <1>4, <1>6, <2>5
  <2> QED
    BY <2>1, <2>3, <2>4, <2>6 DEF CountInv, WellFormed
<1>14. ASSUME NEW i \in Ids, ~Held(i)'
       PROVE  Settled(i)'
  <2>1. CASE ~Held(i)
    BY <1>1, <1>4, <1>5, <2>1 DEF Settled
  <2>2. CASE Held(i)
    <3>1. i = Id[cur] /\ rpc'[r] = "none"
      BY <1>1, <1>4, <1>14, <2>2 DEF Held, At
    <3>2. Ends(r)
      BY <1>2, <3>1 DEF Locks, Counts, Begins, Refuses, Loops, Ends, Loop, Epilogue
    <3>3. Settled(i)
      BY <1>1, <2>2, <3>2 DEF CountInv, Ends
    <3>4. ran' = ran
      BY <3>2 DEF RunTimed, Ends
    <3> QED
      BY <1>1, <3>3, <3>4 DEF Settled
  <2> QED
    BY <2>1, <2>2
<1> QED
  BY <1>8, <1>9, <1>10, <1>11, <1>13, <1>14

-----------------------------------------------------------------------------
(* The theorems                                                            *)

LEMMA RunsStep ==
  ASSUME Orderly
  PROVE  TimedInv /\ TimedInv' /\ RunsInv /\ [TimedNext]_allVars => RunsInv'
<1> SUFFICES ASSUME Known, [TimedNext]_allVars PROVE RunsInv'
  BY DEF Known, Before
<1> USE DEF Known
<1>1. CASE UNCHANGED allVars
  BY <1>1, RunsFrame DEF Before, allVars, vars, mainVars, taskVars, taskData
<1>2. ASSUME NEW t \in Tasks, (MayAdd(t) /\ RecvAdd(t)) \/ (MayTake /\ RecvFired(t))
      PROVE  RunsInv'
  BY <1>2, AddRuns, ReceiveRuns
<1>3. ASSUME NEW i \in Ids, RecvDelete(i) \/ (MayFire(i) /\ Fire(i))
      PROVE  RunsInv'
  BY <1>3, DeleteRuns, FireRuns
<1>4. ASSUME NEW op \in {"pause", "resume", "cancel"}, RecvControl(op), UNCHANGED timedVars
      PROVE  RunsInv'
  BY <1>4, RunsFrame DEF Before, RecvControl, taskData
<1>5. CASE MainStep /\ UNCHANGED timedVars
  BY <1>5, MainRuns
<1>6. ASSUME NEW r \in Runners, FindTimedTask(r) \/ StoreRuns(r) \/ RaiseNoCount(r) \/ RunTimed(r)
      PROVE  RunsInv'
  BY <1>6, FindRuns, StoreRunsRuns, RaiseRuns, RunTimedRuns
<1> QED
  BY <1>1, <1>2, <1>3, <1>4, <1>5, <1>6 DEF TimedNext

LEMMA RunsInit == TimedInit => RunsInv
<1> SUFFICES ASSUME TimedInit PROVE RunsInv
  OBVIOUS
<1>1. /\ mpc = "pop" /\ cur = NoTask /\ rpc = [r \in Runners |-> "none"]
      /\ timed = [i \in Ids |-> NoTask] /\ fired = [t \in Tasks |-> 0]
  BY DEF TimedInit, Init, TaskInit
<1>2. EntryIds /\ FiredInv /\ ArgInv /\ \A i \in Ids : Settled(i)
  BY <1>1 DEF EntryIds, FiredInv, ArgInv, Settled, Handling
<1>3. HeldInv /\ CountInv
  BY <1>1 DEF HeldInv, CountInv, Held, NotStarted, At
<1> QED
  BY <1>2, <1>3 DEF RunsInv

\* As long as no message overtakes a run, every entry of the list that no thread
\* may run is settled, and so is every message that waits, also after a callback
\* has ended the process.
THEOREM RunsKept ==
  ASSUME Orderly
  PROVE  TimedSpec => []RunsInv
<1>1. TimedInv /\ TimedInv' /\ RunsInv /\ [TimedNext]_allVars => RunsInv'
  BY RunsStep
<1> QED
  BY <1>1, RunsInit, BookKept, PTL DEF TimedSpec

\* A timed task that was added with executed_count is not run more often than its
\* max_count says, over all the messages of cron, refused messages, cancelled runs
\* and ends of the process that another task brings about.
THEOREM BoundKept ==
  ASSUME Orderly
  PROVE  TimedSpec => []RunsBounded
<1>1. TimedInv /\ RunsInv => RunsBounded
  <2> SUFFICES ASSUME TimedInv, RunsInv, NEW r \in Runners, rpc[r] \in Loop, HasCount[cur]
               PROVE  ran[Id[cur]] <= MaxCount[cur]
    BY DEF RunsBounded
  <2>1. ~At(r, "none") /\ rpc[r] \in Inside /\ rpc[r] # "budget"
    BY DEF At, Loop, Inside
  <2>2. cur \in Tasks /\ Held(Id[cur])
    BY <2>1, StartedIsHeld DEF Before
  <2>3. ran[Id[cur]] = IF Begun <= MaxCount[cur] THEN Begun ELSE MaxCount[cur]
    BY <2>2, Types DEF RunsInv, CountInv
  <2>4. Begun = executed
    BY <2>1, BegunInside DEF TimedInv
  <2> QED
    BY <2>2, <2>3, <2>4, Types
<1> QED
  BY <1>1, RunsKept, BookKept, PTL

\* Between two runs of a timed task that was added with executed_count, the list
\* says how often it ran, also when another task ended the process in between.
THEOREM RecordKept ==
  ASSUME Orderly
  PROVE  TimedSpec => []RunsRecorded
<1>1. RunsInv => RunsRecorded
  BY DEF RunsInv, RunsRecorded, Outstanding, Settled
<1> QED
  BY <1>1, RunsKept, PTL

=============================================================================
