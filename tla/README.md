# Models and proofs of the smart service

The smart service runs on the board of an inspection robot.  It takes messages
from a backend over MQTT, lets the robot execute one task (a list of actions) at
a time, reports its progress, stores timed tasks as lines of a cron file, and
sends the robot to its charger when the battery is low.  This directory holds a
TLA+ model of that program, the configurations with which TLC checks it on small
instances, and proofs of its main properties for every instance.

`PROJECT.json` lists the components, the runs, the lines of source that each
definition translates, the findings and the hazards.

## Inventory

| component | source | state | operations | what makes it correct |
|---|---|---|---|---|
| current task | `task.hpp`, `task.cpp` | `status`, `req_status` (atomics), `bot`, `action_list`, `executed_count`, `max_count`, callbacks, mutexes `run_sche` and `control` | `run` on detached threads; `pause`, `resume`, `cancel`, `operator=` on the message loop's thread | one scheduler at a time; the phases in their order; no action of a paused, cancelled or replaced task; the runs bounded by `max_count`; control calls return |
| moving body | `device_mqtt.cpp`, `device.hpp` | `status`, `request`, `send_heart` (atomics), a heartbeat thread | moves and charges that wait for reports, commands that do not, `stop` from another thread | a stop ends the action in progress and no other; no action is in progress in a paused task |
| message loop | `smart_service.cpp` | `current_task`, `bot`, `timed_set`, `mqtt_msg_queue` | task messages (types 1 to 6), real time control, forwarding, battery protection | messages take effect in their order; the loop always returns to its queue |
| timed tasks | `timed_task.cpp` | `timed_task_list`, `/etc/cron.d/timed_task_robot`, `./timed_task/*.json` | `add_timed_task`, `del_timed_task`, `update_file`, the constructor | what was answered survives a restart, what was deleted does not, cron reads what the list holds |
| message queue | `ThreadSafeQueue.hpp` | a `std::queue`, a mutex, a condition variable | `push`, `tryPop`, `pop`, `popTimeout`, `popUntil`, `clear` | no thread sleeps beside a value; a call with a time returns |
| report subscribers | `device_mqtt.cpp` (`mos_obj`) | a queue, `last_recv_time`, `done`; one detached thread per move | the sampling callback | deleted once, after its user is done; the call sees a stop without a report, and its reports beside other subscribers |
| other devices | `device.hpp`, `device_mqtt.cpp` | none | pan-tilt and pad commands | |
| robot | `robot.cpp` | `device_list` | `add_device`, `get_device` | |
| configuration | `config.cpp` | values read once, a `std::set` of modules | `operator<` | no module is lost |
| connection, shutdown | `smart_service.cpp`, the unit file | `mosq` | `start_mqtt`, the destructor | no use after `mosquitto_destroy` |

How they interact.  libmosquitto's thread pushes copies of messages on the
queue; the main thread pops them and handles one at a time.  A message of type 3
sets the current task and detaches a thread that executes `task::run`, which
calls the actions of the devices and the feedback callback; the callback
publishes and, once the task is over, updates the timed tasks *from the runner's
thread*.  `pause` and `cancel` store a request that `run` polls, call `stop` of
every device and poll `status` until `run` has obeyed.  Cron publishes the
stored tasks back to the service as messages of type 3.  All that the main
thread and the runners share without a lock is `status`, `req_status`, the
device's atomics, and (unintended) the callbacks and the timed task list.

What is hard here: the window between setting a task and its first action, in
which every command is ignored; several threads queued on `run_sche` for one
task object; requests that outlive the run they were made for; a stop that races
the action it is to stop; waits without a time limit on the only thread that
could end them; and files that are rewritten in place while the process may be
killed.

## Modules

| module | models | extends / instantiates |
|---|---|---|
| `ActionBody` | the device's steps: `Enter`, `Publish`, the returns, `Raise`, and the parts of `stop` | |
| `TaskRun` | the task object: `run` on a thread `r` of `Runners`, the control calls, `operator=` | extends `ActionBody` |
| `SmartService` | the message loop that owns the task; specification, safety, inductive invariant, liveness | extends `TaskRun`, instantiates `TaskLifecycle` |
| `TaskLifecycle` | abstract: the phases of a task, when the robot may act, how runs are limited | |
| `ServiceClaims` | what comments of the source claim and the code does not keep | extends `SmartService` |
| `MCSmartService` | a table of start messages for TLC, symmetry | extends `ServiceClaims` |
| `SmartServiceProofs` | theorems about `SmartService` for any instance | extends it and `TLAPS` |
| `StopProofs` | what a stop means for the task | extends `SmartServiceProofs` |
| `AnswerProofs` | the message loop never waits for a thread that waits for it | extends `StopProofs` |
| `SubscribedCall` | an interruptible action in detail, with its `mos_obj` and the subscriber's thread, beside `stop` | extends `ActionBody`, instantiates `ActionCall` |
| `ActionCall` | abstract: the same action as the steps that `SmartService` is made of | extends `ActionBody` |
| `SubscribedCallProofs` | theorems about `SubscribedCall` | extends it |
| `TimedTaskSet` | the list, the cron file and the task files, with crashes | |
| `MCTimedTaskSet` | symmetry for TLC | extends `TimedTaskSet` |
| `TimedTaskSetProofs` | theorems about `TimedTaskSet` | extends it |
| `TimedTaskRun` | the service with its timed tasks: types 1 and 2, cron, the callback at the end of a run | extends `SmartService` |
| `MCTimedTaskRun` | a table of timed tasks for TLC, symmetry | extends `TimedTaskRun` |
| `TimedTaskRunProofs` | theorems about `TimedTaskRun`, whatever cron and the backend do | extends it and `SmartServiceProofs` |
| `TimedRunsProofs` | the runs of a timed task are counted right | extends `TimedTaskRunProofs` |
| `ThreadSafeQueue` | the queue with the threads that wait in it | |
| `ThreadSafeQueueProofs` | theorems about it | extends it |

The modules fit together at three seams.  `SmartService` takes an action to end
in one step and a stop to be made in one; `SubscribedCall` has the reports, the
objects and the order of the writes, and `ImplementsCall` shows that this detail
is the same to the task.  `ActionCall` assumes in turn that no action begins
while a stop waits, which is `StopAdmitsNone` of `SmartService`.  `TimedTaskRun`
adds variables to `SmartService` and restricts its steps, but for the restart of
the process when a callback has raised: by `ServiceKept` each of its steps is one
of `SmartService` or that restart, and `IInv` holds across it.  `SubscribedCall` and the message loop use the queue
as a sequence; `ThreadSafeQueue` shows that one may: nobody sleeps beside a
value, and `popTimeout` returns.

### State and actions

`rpc[r]` is the line at which thread `r` is in `task::run`: `lock` waits for
`run_sche`; `willStart` and `budget` are the prologue; `ifCancel`, `ifResume`,
`ifPause`, `paused`, `exec`, `publish` and `acting` are the loop; `finish` and
`over` are the end.  A step is what a thread does between two accesses that
another thread can tell apart, so `status = RUNNING`, the publication of the
command and the wait for reports are three steps, and `stop()` is up to three of
its own (`CtlStop`, `CtlStopRequest`, `CtlStopWait`).  `ctl` and `cat` are the
control call in progress and its line; `mpc` is the line of the message loop
around it.  The mutex `control` is not a variable, as one thread makes all
control calls.  `asked` is a history variable: the last command of the operator.

The data is abstracted to what threads can tell apart.  An action is one of the
kinds of `ActionBody!Kinds`; a start message is a value with a priority,
`max_count`, `executed_count` and a sequence of kinds.  A message that raises
`out_of_range` or `type_error` while it is parsed changes nothing and is left
out; one that raises `runtime_error` (priority, counts) is `~WellFormed` and, as
in the code, still starts a thread.  The robot is a single flag `robotMoving`:
commands set and clear it as they are *published*, and `Arrive` clears it.  The
module takes the reports for current; their sampling is not modelled.

In `TimedTaskSet` an entry is an id, a kind of cron expression ("fields": the
constructor's pattern matches; "nickname": it does not, as `@daily`; "missing":
no such key) and a version that stands for every other field.  `update_file` is
one step per flush (`TruncateCron`, `WriteLine`, `OpenTaskFile`, `DumpTask`,
`CloseCron`), and `Crash` may come between any two.  `acked` is a history
variable: each id as the last answered request left it, `Unknown` when the
process did not survive the request or raised.  `phase` and `next` are where the
constructor is; it reads one line a step, as a torn file raises in the midst.

In `TimedTaskRun` a request of the list is one step, and the callback that runs
at the end of a run is two, `FindTimedTask` (the loop, with the copy of the
entry) and `StoreRuns` (the deletion or the update).  No lock keeps the message
loop from the list between the two, in the code or in the model.  A task is a
start message; `Id`, `Version` and `ExecutedCount` tell the entries of the list
apart, and `HasCount` says whether a task has the key `executed_count`, which
`from_json` takes for 0 where it is missing.  The update of the copy does not:
`RaiseNoCount` is the exception of smart_service.cpp:216, which nothing on the
thread of the run catches.  The process ends, what waited in its queue is lost
with its clean session, and `ServiceRestarts` puts every variable of the service
to its initial value.  The list comes back from the files as it was, which is
`Durable` of `TimedTaskSet` for expressions that the constructor can read and an end
that cuts no write short; the robot is where it was.  `ran` is a history variable,
the runs of an id with those that it was added with.  A run of an id is
`Outstanding` while a message of it waits or is handled, or while its task is held
and a thread may still run it (`Held`): also a thread that a *refused* message of
another task is about to start, as the code starts one for whatever task is held.

`RecvAdd`, `RecvDelete`, `Fire` and `RecvFired` are the handlers and cron as they
are.  What the environment does is apart from them: `MayAdd` says when the backend
adds a task, `MayFire` when cron fires one, `MayTake` when the message loop gets to
its message.  `Allowed` names four things that the environment may do and the code
is not made for; the passing run allows none of them, `overlap` allows one, and
the hazards say what the others lead to:

* `"overlap"`: cron fires a task again before its last run is over;
* `"readd"`: a task is added again under its id while a run of it lasts;
* `"refused"`: a task is added that `from_json` will refuse when it is started, for
  its priority or because it has no run left;
* `"burst"`: a task is started before the thread of the one before has locked
  `run_sche`.

In `SubscribedCall` `pc` is the line of the call and `stopper` that of `stop`.  An
address is `"free"` or holds an object in `"use"` or `"done"`; `link` is the
thread of an object: `"dialing"` before its first connection, `"refused"` when it
got none and has ended, `"lost"` while libmosquitto tries again.  All threads use
one client id, so `Connect` takes the connection from the others, as the broker
under `third/` does.  A report in an inbox is known by what ends the call: whether
it says that the robot is at rest, or full.  Reports that do not parse, which
raise like an argument without position, are the kind "malformed" of
`ActionBody`.  `stop` writes its request again each second; nobody else writes
it, so that one write stands for all.

In `ThreadSafeQueue` a call holds the mutex but while it waits, so `EnterCall` and
`Resume` are its two steps.  A thread is `"blocked"`, or awake and in need of the
mutex because it was `"notified"` or its time has `"expired"`.

## Runs

Passing (deadlock is checked but where noted):

| run | instance | shows |
|---|---|---|
| `core_all` | 2 threads; nine tasks with every kind of action, one of a higher priority, one refused, one that may run twice; every message | `TypeOK`, `IInv`, `OneScheduler`, `RobotBound`, `RunBudget`, `ActsOnlyExecing`, `NoStaleStop`, `TaskDataStable`, `RequestHolds` (of requests that were stored: a call that stores none is `lost_cancel`), and that the service implements `TaskLifecycle` |
| `core_live` | 2 threads; `patrol`, `urgent`, `dock`; no battery; fair threads and robot | `PausedMeansStopped` (of the device's status: whether the robot has stopped is `stop_overtaken`), `StopAdmitsNone`, `PauseStands`; `CallAnswered`, `StopAnswered`, `AssignAnswered`: none of the loop's three waits is for a thread that waits for the loop; `HandlerReturns`, `RunEnds` |
| `move` | 2 objects, 2 reports in an inbox; connections refused, lost and taken; stops at any time | `IInv`, which includes `TypeOK`; `NoUseAfterDelete`, `StopReturns`, `CallReturns`, `ObjectsFreed`, and that the call implements `ActionCall` |
| `queue` | 3 threads, 4 values; every call, expiries, spurious wake-ups, `clear` | `TypeOK`, `NoLostWakeup`, `HeadTaken`, `TimedCallReturns` |
| `timed_set` | 3 ids, 2 versions, the three kinds of expression, crashes anywhere | `IInv`, which includes `TypeOK`; `UniqueIds`, `CronReadsWhole`, `NoPhantom`, `Durable`, `FilesUpdated` |
| `timed_run` | 2 ids in 3 versions, which may run twice, one of a higher priority and one without `executed_count`; 2 threads, cancels, messages refused for their priority, requests of the list during callbacks, ends of the process | `TimedTypeOK`, `BookInv`, `RunsInv`, `RunsBounded`, `RunsRecorded`, `DeletedStays` |

`core_all` does not check deadlock: with `broken`, or with `again` and a stale
request, the code does stop for ever, which the runs below show.

Each of the others finds a behaviour of the code that a comment or the unit file
of the repository excludes; `PROJECT.json` quotes the line.

| run | what happens |
|---|---|
| `lost_cancel` | a real time control meets a task set and not begun, cancels nothing, and the task starts afterwards |
| `stop_overtaken` | the stop is published before the move it should stop |
| `start_blocks` | a request left from an ended run pauses the next one, which a refused message started, and `operator=` waits for it for ever |
| `broken_action` | an action that raises leaves the device RUNNING, and the next stop waits for ever |
| `torn_file` | a file emptied and not yet written makes every restart fail |
| `overlap` | cron fires a task again while a run of it lasts, with the old count, and the task runs more often than `max_count` |

Met while modelling, without a run of its own: a speed move returns at once and
never sets RUNNING, so a pause after it leaves the heartbeat going; a stop that
reads STOPPED just before the move starts does nothing, and pause then waits for
the robot to arrive; a low battery that meets a task set and not begun charges
beside it, by the window of `lost_cancel`; a timed task that is added without
`executed_count` and may run more than once ends the process at the end of its
run, its count is not stored, and after each restart cron fires it again with
count 0 (`RaiseNoCount`), so that it runs more often than `max_count` and ends the
process each time: TLC finds `RunsBounded` violated when it is stated of such
tasks too; a deletion that comes between the lookup of a callback and its
`add_timed_task` is undone, and TLC finds `DeletedStays` violated when it is stated
without that window; a pad inherits the empty `stop`; the
callbacks are written without a lock while a thread may be calling them; a task
without `cron` stays in the list and cuts every later update of the files short,
and at the end of a timed run ends the process; a task under `@daily` is answered
and dropped by the next restart, so that `Durable` speaks of five plain fields;
a subscriber whose first connection is refused leaves its object behind and its
call without reports, so that `CallReturns` and `ObjectsFreed` except it.

### Bounds

`CountBound` stops start messages once `executed_count` has reached it, which
keeps `executed` finite; 3 and 4 let a task be begun, refused for its count and
replaced, and no property compares counts beyond `max_count + 1`.  `Runners`
bounds the threads alive at a time: two are needed for a thread queued behind a
running one; a third would queue behind the same lock.  Action lists have at
most three actions, enough for a first, a middle and a last one; the loop treats
all others alike.  Two priorities give both outcomes of the comparison.

In `TimedTaskSet` `Ids` and `Versions` bound the list; three ids give an entry
before, at and behind the one that is written.  In `TimedTaskRun` `FiredBound`
bounds the messages of cron that wait: one for each task is what the passing run
lets cron send anyway, and with it `overlap` has one more than is right.
`RanBound` is the number of runs above which cron fires an id no more, which only
a task without `executed_count` gets to: three are one more than `max_count`.

`Objects` bounds the calls of `SubscribedCall` whose objects live at a time: two
are a call and the one before it, whose thread takes its connection.
`InboxBound` is the length from which no report is sampled, two, so that a call
meets a report behind another; the code samples one in three or ten seconds and
pops one a second.  In `ThreadSafeQueue` `SentBound` ends the pushes; four values
and three threads give more values than sleepers and fewer.

All runs drive a `TrackRobot`.  The theorems have none of these bounds, and hold
for a `Pad` too.

### Fairness

`ThreadFairness`: the operating system schedules the message loop's thread and
every runner (`WF` of each thread's steps).  `RobotFairness`, besides: the robot
ends its moves and charges and its reports arrive.  `FairSpec` of `SmartService`
assumes both: the runs with liveness ask what the program does with a robot that
answers.  The arrival of messages is never fair: nobody has to resume a paused
task.  `WF` is enough: a step that waits in the code polls a value, and the
model's guard stays true once it is.

`FairSpec` of `SubscribedCall` schedules the call and `stop`, and nothing else:
`StopReturns` holds of a robot that never reports and a broker that is away.
`CallReturns` and `ObjectsFreed` assume `ReportFairness` besides: libmosquitto
connects again, the robot comes to rest and goes on to report.  There a report
needs `SF`, since another subscriber may take the connection time and again.
Beginning a call is not fair.

`FairSpec` of `ThreadSafeQueue`: time passes for a call that has one, and a thread
that is awake gets the mutex in the end.  Pushes are not fair.

In `TimedTaskSet`, `FairSpec` has the unit file's `Restart=always` without a start
limit as fairness of `Construct`, and `Recovers` speaks only of behaviours in
which the process is killed finitely often.

## Proofs

`SmartServiceProofs` proves for any set of threads, any tasks (any action lists,
priorities and counts), any messages and both robot types:

* `Invariance`, `Spec => []IInv`.  `OneScheduler` and `ActsOnlyExecing` are not
  inductive: that no thread acts in a paused task depends on which values
  `status` can have at each label, on the request having been seen, and on
  `run_sche` being held.  `IInv` says this: `RunnerHoldsLock` (a thread is inside
  `run` iff it holds `run_sche`), `StatusOfRunner` (the values of `status` at each
  label, `INIT` or `END` when nobody is inside), `RunnerAdmitted` and
  `RunnerIndex` (what the prologue established), `CallBound` (a call past its check
  has a robot, past its post its request is the last one), `RequestSeen` (a
  thread past the test of a request has not missed one whose call has returned).
  The proof of a runner's step goes by `HolderGoto`: only the holder of
  `run_sche` moves, so one label has to be looked at; other steps leave the
  runner's variables alone (`RunnerFrame`, `CallFrame`) or find `run_sche` free.
* From it `TypeCorrect`, `Scheduling`, `BotIsBound`, `BudgetKept`,
  `ActingIsExecing`, `StopWithdrawn`; and the action properties `DataStable` and
  `RequestsHold`.
* `PauseKept`: without battery messages only the operator resumes.  It needs
  `ResumeAsked` beside `IInv`: a paused thread that has been asked to go on was
  asked by a resume that still waits for it.
* `Refinement`, `Spec => ImplementsLifecycle`, step by step.

`StopProofs` proves `PausedStopped` and `StopMeetsItsAction` under `Regular`: no
battery message and no action that raises.  Without it they are false, as a
charge of the message loop, or what a raise leaves behind, is RUNNING with
nobody in an action.  The invariant is `BodyFollows` (RUNNING means that the
thread inside `run` is in an action that sees a stop) with `StopWaits` (until the
stop returns that thread meets the request, which ends the loop or holds it in
its wait, so that it does not get to `exec`).

`AnswerProofs` proves what liveness rests on and the prover can state.  The message
loop is one thread and waits without a time limit in three places; the theorems
say that none of them is a circle.

* `CallsAnswered`, of every instance: the status that `pause`, `resume` or `cancel`
  polls for is there, or a thread inside `run` is still to set it that is not
  itself paused without a request to go on.  Beside `IInv` it needs `RequestInv`:
  a call past its check has a task that has begun, since only `operator=`, on the
  same thread, makes a task `INIT` again.
* `StopsAnswered`, under `Regular`: `stop()` polls a device that is RUNNING for an
  action that sees its request.  `broken_action` shows it false without.
* `AssignsAnswered`, under `RunOnce` (every task that `from_json` accepts has one
  run left): the thread that `operator=` waits for is not paused.  The invariant
  follows `executed_count` (`CountReached`: with one run to begin, none begins
  after it) and what `set_current_task` leaves (`LeftAlone`: when `operator=` is
  next, the task held has met no request, or its run is ending or over).
  `start_blocks` shows it false of a task that may run twice.

What remains of `HandlerReturns` to TLC is that the threads take their steps and
the robot ends its moves.

`SubscribedCallProofs`: `Invariance`, `CallTyped`, `Lifetimes` and `Refinement`,
for any number of objects.  `IInv` adds to `NoUseAfterDelete` that `status` follows
the call (`Running`) and that a report in the inbox that says at rest is true
(`Sampled`): the robot of this model begins to move by a command only, and no
command is published while the call waits.  The refinement takes a call to be
over with its first `status = STOPPED`, and a stop to be requested when
`stop_move` is published.

`TimedTaskSetProofs`: `IInv` relates, at each write, the first part of the list
that is written to the lines and the files (`Written`), and each entry, line and
file to the last answer for its id (`ListAcked`, `LinesAcked`, `Retained`); `Read`
and `Modes` carry it through a restart.  From it `TypeCorrect`, `IdsUnique`,
`WholeFiles`, `NothingComesBack`, `Durability` and `FilesFollow`, for any ids,
versions and expressions, any length of the list and any number of crashes.

`TimedTaskRunProofs`: `ServiceKept` (between two starts of the process the service
with timed tasks does what `SmartService` says) and `TimedInvariance` (`IInv` holds
of it, also across the restarts); `TimedTyped` and `BookSound`, whatever
`Allowed` has: the bookkeeping of a run is done in a callback, at the label
`budget` or `over`, by the holder of `run_sche`, which has a task, and a count is
stored only while a run is left (`BookInv`).  That `StoreRuns` always finds a task
of that count, so that `WithCount` means something, follows from it and from
`TimedAssumption`.  `Deletion`, `TimedSpec => DeletedStays`, needs no assumption on
cron, the backend or the order of the threads: an id that is not listed, and of
whose entry no callback holds a copy (`Gone`), is listed again by `RecvAdd` only.
The thread with a copy holds `run_sche`, so that the task, whose id says where the
copy is stored, is not replaced under it (`MainKeepsCopies`).  A deletion while a
callback does hold a copy is what it leaves out, and the code undoes.

`TimedRunsProofs`: `RunsKept`, `BoundKept` and `RecordKept`.  `RunsBounded` and
`RunsRecorded` compare counts at the two ends of a run, and say nothing of the
time between, in which a message waits, a thread is started and a count is taken
and stored; `RunsInv` follows the count all the way:

* an entry is `Settled` (its count is the number of runs, and a run is left) but
  while a thread may run the task of its id, which is then the one held;
* a message that waits is the only one of its id and carries that count
  (`FiredInv`), and so does the one that is handled (`ArgInv`);
* while a task is held the number of runs is `executed_count`, or one less between
  `++executed_count` and the comparison, or `max_count` once runs are refused, and
  the copy that a callback has made is of the task held (`CountInv`);
* a task that is held has its callbacks, and a thread that is to run it
  (`HeldInv`): otherwise a message could be lost with its run uncounted.

Refused messages are part of it: the thread they start may run the held task a
second time, and the run is counted.  So are requests of the list during a
callback, and the end of the process: when a callback raises, the entry of its
task is one without `executed_count` (`RaiseRuns`), of which `Settled` says nothing,
and every other is settled.  `RunsBounded` and `RunsRecorded` say nothing of tasks
without the key, which the code does not count.  The theorems assume `Orderly`,
that the environment does none of the four things of `Allowed`; with each of them
the properties are false (the run `overlap`, and the hazards).

`ThreadSafeQueueProofs`: `WakeupKept` and `QueueTyped`, for any finite set of
threads, with the library's theorems on cardinalities.  `NoLostWakeup` is
inductive with `TypeOK`: a push wakes one more thread if any is blocked, and a
thread that goes back to its wait has found the queue empty.

The assumptions are those named in the modules: the types of the constants, and
that `NoThread`, `NoTask`, `NoEntry` and the like are none of the values they stand
beside.

Only model-checked: liveness, as the prover has no `ENABLED` and so no fairness:
`HandlerReturns`, `RunEnds`, `StopReturns`, `CallReturns`, `ObjectsFreed`, `HeadTaken`
and `TimedCallReturns`.  Every invariant, action property and refinement of a
passing run is a theorem.

## Not modelled

* Of the message loop: the forwarding of heartbeats and of direct commands, which
  reads and writes no state; the `clear` of the queue at the end of a charge
  (`SmartService` takes any message to be next, so that a message lost there is
  one that never came); a heartbeat or battery payload that raises outside the
  `try`, and `debug_exit`, both of which end the process (`Crash` in
  `TimedTaskSet` is the end of the process at any step).
* Shutdown.  After `debug_exit` the destructor cancels the task and destroys what
  detached threads go on to use: from the first such access the behaviour is
  undefined.
* The heartbeat thread's tick, the connection callbacks of `start_mqtt`: they keep
  no state.
* The configuration and `module::operator<`.  The comparison is not a strict weak
  order, so which modules a `std::set` keeps follows from the rotations of its
  tree in libstdc++, outside the repository; a hazard describes it.
* `image_detect` (no action calls it), the camera stubs (they return their
  arguments), `misc.hpp` (macros and helpers), `test.cpp` (a scratch program).
* Vendored code: `json.hpp` and all of `third/` but the few functions of
  mosquitto that `SubscribedCall` follows.  They are almost all of the lines of
  the tree: about 2,100 of 339,000 are the service's own, of which the map
  covers some 900.  The others are declarations, logging, topics, the formatting
  of answers and the parts above.
