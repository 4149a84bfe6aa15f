----------------------------- MODULE TimedTaskRun -----------------------------
(***************************************************************************)
(* Timed tasks while they run: smart_service with its timed_task_set.      *)
(* Cron sends the task of a file as a "start" message; when a run is over, *)
(* the feedback callback, on the thread of the run, deletes the timed task *)
(* or stores its number of runs; the message loop adds and deletes timed   *)
(* tasks meanwhile.  Nothing locks the list.  The callback may also raise, *)
(* which ends the process; the service manager starts it again.            *)
(*                                                                         *)
(* A request of the list is one step here: TimedTaskSet has the writes.    *)
(***************************************************************************)
EXTENDS SmartService

CONSTANTS
  Ids,
  Id,                   \* the id of each task
  Version,              \* with Id, its fields but for the value of executed_count
  HasCount,             \* whether it has the key executed_count, which it need not
  FiredBound,           \* no more messages of cron wait for the message loop
  RanBound,             \* cron fires no task that has run more often
  Allowed               \* what the environment does that the code is not made for

\* "overlap" lets cron fire a task again before its last run is over, "readd" lets
\* a task be added again while a run of it is not over, "refused" lets one be added
\* that from_json will refuse, and "burst" lets a task be started while the thread
\* of the one before has not got run_sche yet.
ASSUME TimedAssumption ==
  /\ Id \in [Tasks -> Ids] /\ Version \in [Tasks -> Nat]
  /\ HasCount \in [Tasks -> BOOLEAN]
  /\ \A t, u \in Tasks : Id[t] = Id[u] /\ Version[t] = Version[u] =>
       /\ MaxCount[t] = MaxCount[u]
       /\ HasCount[t] = HasCount[u]
       /\ Priority[t] = Priority[u]
       /\ ActionList[t] = ActionList[u]
       /\ ExecutedCount[t] = ExecutedCount[u] => t = u
  /\ \A t, held \in Tasks : HasCount[t] => \A n \in 0 .. MaxCount[held] - 1 :
       \E u \in Tasks :
         Id[u] = Id[t] /\ Version[u] = Version[t] /\ ExecutedCount[u] = n
  /\ \A t \in Tasks : ~HasCount[t] => ExecutedCount[t] = 0
  /\ FiredBound \in Nat /\ RanBound \in Nat
  /\ Allowed \subseteq {"overlap", "readd", "refused", "burst"}

VARIABLES
  timed,                \* timed_task_list: the task of each id
  fired,                \* how many messages with each task wait
  book,                 \* each thread's bookkeeping of a run that is over
  copy,                 \* update_task, the entry it found
  ran                   \* history: the runs of each id, with those it was added with

timedVars == <<timed, fired, book, copy, ran>>
allVars == <<vars, timedVars>>

TimedTypeOK ==
  /\ timed \in [Ids -> Tasks \cup {NoTask}]
  /\ fired \in [Tasks -> Nat]
  /\ book \in [Runners -> {"none", "due", "delete", "store"}]
  /\ copy \in [Runners -> Tasks \cup {NoTask}]
  /\ ran \in [Ids -> Nat]

TimedInit ==
  /\ Init
  /\ timed = [i \in Ids |-> NoTask]
  /\ fired = [t \in Tasks |-> 0]
  /\ book = [r \in Runners |-> "none"]
  /\ copy = [r \in Runners |-> NoTask]
  /\ ran = [i \in Ids |-> 0]

\* The task held is of id i, and a thread may still run it: one that has started,
\* or the one that the message loop is about to start.
Held(i) ==
  /\ cur # NoTask /\ Id[cur] = i
  /\ mpc \in {"install", "spawn"} \/ \E r \in Runners : ~At(r, "none")

\* A message of id i waits or is handled, or a thread may still run its task.
Outstanding(i) ==
  \/ \E t \in Tasks : Id[t] = i /\ fired[t] > 0
  \/ mpc # "pop" /\ arg # NoTask /\ Id[arg] = i
  \/ Held(i)

InList(r) == book[r] \in {"delete", "store"}

\* update_task.at("executed_count") = current_task.executed_count, where the key is.
WithCount(t, n) ==
  CHOOSE u \in Tasks :
    Id[u] = Id[t] /\ Version[u] = Version[t] /\ ExecutedCount[u] = n

-----------------------------------------------------------------------------
(* Types 1 and 2, and cron                                                 *)

RecvAdd(t) ==
  /\ MainAt("pop")
  /\ timed' = [timed EXCEPT ![Id[t]] = t]
  /\ ran' = [ran EXCEPT ![Id[t]] = ExecutedCount[t]]
  /\ UNCHANGED <<vars, fired, book, copy>>

RecvDelete(i) ==
  /\ MainAt("pop")
  /\ timed' = [timed EXCEPT ![i] = NoTask]
  /\ UNCHANGED <<vars, fired, book, copy, ran>>

\* Cron publishes the file of a task.
Fire(i) ==
  /\ timed[i] # NoTask
  /\ fired' = [fired EXCEPT ![timed[i]] = @ + 1]
  /\ UNCHANGED <<vars, timed, book, copy, ran>>

\* Variant: a message that cron has not sent.
RecvFiredNot(t) ==
  /\ RecvStart(t)
  /\ fired' = [fired EXCEPT ![t] = @ - 1]
  /\ UNCHANGED <<timed, book, copy, ran>>

RecvFired(t) ==
  /\ fired[t] > 0
  /\ RecvStart(t)
  /\ fired' = [fired EXCEPT ![t] = @ - 1]
  /\ UNCHANGED <<timed, book, copy, ran>>

\* When the backend adds a task, when cron fires one, and when the message loop
\* comes to its message.
MayAdd(t) ==
  /\ "refused" \in Allowed \/ WellFormed(t)
  /\ "readd" \in Allowed \/ ~Outstanding(Id[t])

MayFire(i) ==
  /\ timed[i] # NoTask => fired[timed[i]] < FiredBound /\ ran[i] <= RanBound
  /\ "overlap" \in Allowed \/ ~Outstanding(i)

MayTake == "burst" \in Allowed \/ \A r \in Runners : ~At(r, "lock")

-----------------------------------------------------------------------------
(* The feedback callback once the task is over                             *)

\* Variant: the runs left are compared with <.
NoRunLeftButOne == executed > MaxCountOf(cur)

NoRunLeft == executed >= MaxCountOf(cur)

\* Variant: the task is not looked up in the list.
FindTimedTaskNot(r) ==
  /\ book[r] = "due"
  /\ copy' = [copy EXCEPT ![r] = cur]
  /\ book' = [book EXCEPT ![r] = IF NoRunLeft THEN "delete" ELSE "store"]
  /\ UNCHANGED <<vars, timed, fired, ran>>

\* The loop over the list: the entry of the id is to be deleted, or copied.  The
\* callbacks of a task that was just assigned do nothing.
FindTimedTask(r) ==
  /\ book[r] = "due"
  /\ copy' = [copy EXCEPT ![r] =
       IF callbacks = "empty" THEN NoTask ELSE timed[Id[cur]]]
  /\ book' = [book EXCEPT ![r] =
       IF copy'[r] = NoTask THEN "none" ELSE IF NoRunLeft THEN "delete" ELSE "store"]
  /\ UNCHANGED <<vars, timed, fired, ran>>

\* update_task.at("executed_count") raises out_of_range.
LacksCount(r) == book[r] = "store" /\ ~HasCount[copy[r]]

\* Variant: the copy is stored as it was found.
StoreCopy(r) ==
  /\ InList(r) /\ ~LacksCount(r)
  /\ timed' = [timed EXCEPT ![Id[cur]] = IF book[r] = "delete" THEN NoTask ELSE copy[r]]
  /\ book' = [book EXCEPT ![r] = "none"]
  /\ copy' = [copy EXCEPT ![r] = NoTask]
  /\ UNCHANGED <<vars, fired, ran>>

\* del_timed_task, or add_timed_task of the copy.
StoreRuns(r) ==
  /\ InList(r) /\ ~LacksCount(r)
  /\ timed' = [timed EXCEPT ![Id[cur]] =
       IF book[r] = "delete" THEN NoTask ELSE WithCount(copy[r], executed)]
  /\ book' = [book EXCEPT ![r] = "none"]
  /\ copy' = [copy EXCEPT ![r] = NoTask]
  /\ UNCHANGED <<vars, fired, ran>>

\* The process as it starts: the robot is where it was.
ServiceRestarts ==
  /\ bodyStatus' = "STOPPED" /\ bodyRequest' = "INIT" /\ sendHeart' = FALSE
  /\ status' = "INIT" /\ reqStatus' = "INIT" /\ bot' = FALSE
  /\ cur' = NoTask /\ executed' = 0 /\ callbacks' = "empty"
  /\ runSche' = NoThread
  /\ rpc' = [r \in Runners |-> "none"] /\ index' = [r \in Runners |-> 0]
  /\ ctl' = "none" /\ cat' = "check"
  /\ mpc' = "pop" /\ arg' = NoTask /\ asked' = "none"
  /\ UNCHANGED robotMoving

\* Nothing on the thread of a run catches what the callback raises: the process
\* ends.  Its successor reads the list from the files; the messages that waited
\* are lost, as the session is a clean one.
RaiseNoCount(r) ==
  /\ LacksCount(r)
  /\ ServiceRestarts
  /\ fired' = [t \in Tasks |-> 0]
  /\ book' = [s \in Runners |-> "none"]
  /\ copy' = [s \in Runners |-> NoTask]
  /\ UNCHANGED <<timed, ran>>

\* Variant: is_over is not asked.
CalledBack(r) == rpc'[r] # rpc[r]

\* A callback that is called while the task is over.
CalledBackOver(r) ==
  \/ rpc[r] = "willStart" /\ status = "END"
  \/ rpc'[r] = "over"

\* The steps of the run, which go on when the callback has returned.
RunTimed(r) ==
  /\ book[r] = "none"
  /\ RunnersStep(r)
  /\ book' = [book EXCEPT ![r] = IF CalledBackOver(r) THEN "due" ELSE "none"]
  /\ ran' = IF rpc[r] = "budget" /\ status' = "EXECING"
            THEN [ran EXCEPT ![Id[cur]] = @ + 1] ELSE ran
  /\ UNCHANGED <<timed, fired, copy>>

-----------------------------------------------------------------------------

TimedNext ==
  \/ \E t \in Tasks : (MayAdd(t) /\ RecvAdd(t)) \/ (MayTake /\ RecvFired(t))
  \/ \E i \in Ids : RecvDelete(i) \/ (MayFire(i) /\ Fire(i))
  \/ \E op \in {"pause", "resume", "cancel"} : RecvControl(op) /\ UNCHANGED timedVars
  \/ MainStep /\ UNCHANGED timedVars
  \/ \E r \in Runners :
       FindTimedTask(r) \/ StoreRuns(r) \/ RaiseNoCount(r) \/ RunTimed(r)

TimedSpec == TimedInit /\ [][TimedNext]_allVars

-----------------------------------------------------------------------------
(* Properties                                                              *)

\* task.hpp:61, max_count is the number of times a timed task is executed: its
\* runs are counted over all the messages of cron, each of which is a new task.
\* A task that was added without executed_count is left out: its run ends the
\* process before it is counted, and cron fires it again after the restart.
RunsBounded ==
  \A r \in Runners : rpc[r] \in Loop /\ HasCount[cur] => ran[Id[cur]] <= MaxCount[cur]

\* Between two runs the list holds as many runs as there were, and only tasks
\* with a run left, also when another task has ended the process meanwhile.
\* Tasks without executed_count, which hold no number, are left out.
RunsRecorded ==
  \A i \in Ids : timed[i] # NoTask /\ HasCount[timed[i]] /\ ~Outstanding(i) =>
    ExecutedCount[timed[i]] = ran[i] /\ ran[i] < MaxCount[timed[i]]

\* The id is not listed, and no callback holds a copy of its entry.
Gone(i) == timed[i] = NoTask /\ \A r \in Runners : InList(r) => Id[cur] # i

\* A task that was deleted comes back by another request to add it only: neither a
\* message of it that waits, nor its run with the end of it, nor a restart lists
\* it again.  The deletion must not come between the lookup of the callback and
\* its add_timed_task, which undoes it.
DeletedStays ==
  [][\A i \in Ids : Gone(i) /\ ~Gone(i)' => \E t \in Tasks : Id[t] = i /\ RecvAdd(t)]_allVars

-----------------------------------------------------------------------------
(* The inductive invariant                                                 *)

\* Whatever is allowed: the bookkeeping is that of the holder of run_sche, in a
\* callback; a thread without a task gets no further than its budget.
BookInv ==
  /\ mpc = "install" \/ callbacks = "installed" => cur # NoTask
  /\ \A r \in Runners :
       /\ rpc[r] = "budget" => executed > 0
       /\ book[r] # "none" => rpc[r] \in {"budget", "over"}
       /\ InList(r) =>
            /\ cur # NoTask /\ copy[r] # NoTask
            /\ book[r] = "store" => executed < MaxCountOf(cur)

\* The entry of an id that has a number of runs has the right one, and one left.
Settled(i) ==
  timed[i] # NoTask /\ HasCount[timed[i]] =>
    ExecutedCount[timed[i]] = ran[i] /\ ran[i] < MaxCount[timed[i]]

\* A message of task t, of which no run has begun, is all there is of its id.
Fresh(t) ==
  /\ timed[Id[t]] \in {NoTask, t}
  /\ HasCount[t] => ExecutedCount[t] = ran[Id[t]]
  /\ WellFormed(t)

Handling == mpc \in {"prioritize", "replace", "assign"}
NotStarted == \A r \in Runners : At(r, "none")

FiredInv ==
  \A t \in Tasks : fired[t] > 0 =>
    /\ Fresh(t)
    /\ fired[t] = 1
    /\ \A u \in Tasks : fired[u] > 0 /\ Id[u] = Id[t] => u = t
    /\ ~Held(Id[t])
    /\ mpc # "pop" => Id[arg] # Id[t]

ArgInv ==
  /\ mpc # "pop" => arg # NoTask
  /\ Handling =>
       Fresh(arg) /\ (cur # NoTask /\ Id[cur] = Id[arg] => NotStarted)
  /\ mpc \in {"prioritize", "replace", "assign", "install"} =>
       \A r \in Runners : ~At(r, "lock")

\* A task that is held is started, and until then its callbacks are installed.
HeldInv ==
  /\ mpc \notin {"forward", "charge", "charging"}
  /\ mpc = "install" => NotStarted
  /\ cur # NoTask /\ status = "INIT" =>
       \/ mpc \in {"install", "spawn"}
       \/ \E r \in Runners : rpc[r] \in {"lock"} \cup Prologue
  /\ mpc = "spawn" \/ ~NotStarted => cur # NoTask /\ callbacks = "installed"

\* The runs begun, of which executed_count is ahead between ++executed_count and
\* the comparison with max_count, and beyond max_count.
Begun == IF \E r \in Runners : At(r, "budget") THEN executed - 1 ELSE executed

\* The task held, its number of runs and its entry in the list.
CountInv ==
  \A i \in Ids : Held(i) =>
    /\ HasCount[cur] =>
         ran[i] = IF Begun <= MaxCount[cur] THEN Begun ELSE MaxCount[cur]
    /\ timed[i] # NoTask => Version[timed[i]] = Version[cur]
    /\ \A r \in Runners :
         /\ InList(r) => /\ Id[copy[r]] = i /\ Version[copy[r]] = Version[cur]
                         /\ WellFormed(copy[r])
         /\ book[r] = "delete" => executed >= MaxCount[cur]
         /\ rpc[r] = "over" /\ book[r] = "none" => Settled(i)

EntryIds ==
  \A i \in Ids : timed[i] # NoTask => Id[timed[i]] = i /\ WellFormed(timed[i])

\* When no message overtakes a run: every entry whose task no thread may run is
\* settled, and so are those of the messages that wait.
RunsInv ==
  /\ EntryIds /\ FiredInv /\ ArgInv /\ HeldInv /\ CountInv
  /\ \A i \in Ids : ~Held(i) => Settled(i)

=============================================================================
