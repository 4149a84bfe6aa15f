---------------------------- MODULE ThreadSafeQueue ----------------------------
(***************************************************************************)
(* ThreadSafeQueue<T>: a queue with one mutex and one condition variable.  *)
(* A call holds the mutex from its first line to its last but while it     *)
(* waits, so that each call is one step, or two around a wait.  The values *)
(* pushed are told apart by their numbers.                                 *)
(***************************************************************************)
EXTENDS Naturals, Sequences, FiniteSets

CONSTANTS
  Threads,              \* the threads that take values
  SentBound             \* no push after so many

ASSUME QueueAssumption == IsFiniteSet(Threads) /\ SentBound \in Nat

VARIABLES
  queue,                \* the std::queue, of numbers
  sent,                 \* history: how many values were pushed
  call,                 \* the call that each thread waits in
  at,                   \* where: "blocked" on cond, or awake and in need of the
                        \* mutex, because of a notification or of the time
  passed                \* history: a popUntil left a value and used a notification

vars == <<queue, sent, call, at, passed>>

Calls == {"pop", "popTimeout", "popUntil"}
Timed == {"popTimeout", "popUntil"}

TypeOK ==
  /\ queue \in Seq(Nat)
  /\ sent \in Nat
  /\ call \in [Threads -> Calls \cup {"none"}]
  /\ at \in [Threads -> {"out", "blocked", "notified", "expired"}]
  /\ passed \in BOOLEAN
  /\ \A t \in Threads : call[t] = "none" <=> at[t] = "out"
  /\ \A t \in Threads : at[t] = "expired" => call[t] \in Timed

Init ==
  /\ queue = <<>>
  /\ sent = 0
  /\ call = [t \in Threads |-> "none"]
  /\ at = [t \in Threads |-> "out"]
  /\ passed = FALSE

Blocked == {t \in Threads : at[t] = "blocked"}
Awake == {t \in Threads : at[t] \in {"notified", "expired"}}

-----------------------------------------------------------------------------

\* Variant: a value is pushed without a notification unless the queue was empty.
PushNotifiesOnce ==
  /\ sent < SentBound
  /\ sent' = sent + 1
  /\ queue' = Append(queue, sent')
  /\ IF Blocked = {} \/ queue # <<>> THEN UNCHANGED at
     ELSE \E t \in Blocked : at' = [at EXCEPT ![t] = "notified"]
  /\ UNCHANGED <<call, passed>>

\* cond.notify_one wakes one of the threads that are blocked.
Push ==
  /\ sent < SentBound
  /\ sent' = sent + 1
  /\ queue' = Append(queue, sent')
  /\ IF Blocked = {} THEN UNCHANGED at
     ELSE \E t \in Blocked : at' = [at EXCEPT ![t] = "notified"]
  /\ UNCHANGED <<call, passed>>

\* tryPop, which returns at once; when it returns false nothing changes.
TryPop(t) ==
  /\ call[t] = "none"
  /\ queue # <<>>
  /\ queue' = Tail(queue)
  /\ UNCHANGED <<sent, call, at, passed>>

\* The return of a call, with a value or without.
Return(t) ==
  /\ call' = [call EXCEPT ![t] = "none"]
  /\ at' = [at EXCEPT ![t] = "out"]
  /\ UNCHANGED sent

\* queue.front and queue.pop.
Take(t) ==
  /\ queue # <<>>
  /\ queue' = Tail(queue)
  /\ Return(t)
  /\ UNCHANGED passed

Wait(t, c) ==
  /\ queue = <<>>
  /\ call' = [call EXCEPT ![t] = c]
  /\ at' = [at EXCEPT ![t] = "blocked"]
  /\ UNCHANGED <<queue, sent, passed>>

\* The three calls test the queue before they wait.
EnterCall(t, c) ==
  /\ call[t] = "none"
  /\ Take(t) \/ Wait(t, c)

\* Variant: every wait has an end.
ExpireAny(t) ==
  /\ at[t] \in {"blocked", "notified"}
  /\ at' = [at EXCEPT ![t] = "expired"]
  /\ UNCHANGED <<queue, sent, call, passed>>

\* The time of a call is over.  A thread that was notified and gets the mutex
\* too late is told of the time, as wait_until compares the clock on its return.
Expire(t) ==
  /\ at[t] \in {"blocked", "notified"}
  /\ call[t] \in Timed
  /\ at' = [at EXCEPT ![t] = "expired"]
  /\ UNCHANGED <<queue, sent, call, passed>>

\* A condition variable may wake a thread without a notification.
WakeSpuriously(t) ==
  /\ at[t] = "blocked"
  /\ at' = [at EXCEPT ![t] = "notified"]
  /\ UNCHANGED <<queue, sent, call, passed>>

\* popUntil reads the clock after its wait and leaves a value that came too late.
Leave(t) ==
  /\ queue # <<>>
  /\ call[t] = "popUntil"
  /\ Return(t)
  /\ passed' = TRUE
  /\ UNCHANGED queue

GiveUp(t) ==
  /\ queue = <<>>
  /\ at[t] = "expired"
  /\ Return(t)
  /\ UNCHANGED <<queue, passed>>

\* Variant: each wake-up starts the time again.
ResumeAnew(t) ==
  /\ t \in Awake
  /\ Take(t) \/ Leave(t) \/ Wait(t, call[t])

\* Variant: the queue is not tested again once the time is over.
ResumeLate(t) ==
  /\ t \in Awake
  /\ \/ at[t] = "notified" /\ (Take(t) \/ Leave(t) \/ Wait(t, call[t]))
     \/ at[t] = "expired" /\ Return(t) /\ UNCHANGED <<queue, passed>>

\* A thread that got the mutex again tests the queue again, also when its time
\* is over.
Resume(t) ==
  /\ t \in Awake
  /\ \/ Take(t)
     \/ Leave(t)
     \/ at[t] = "notified" /\ Wait(t, call[t])
     \/ GiveUp(t)

Clear ==
  /\ queue' = <<>>
  /\ UNCHANGED <<sent, call, at, passed>>

-----------------------------------------------------------------------------

Next ==
  \/ Push \/ Clear
  \/ \E t \in Threads :
       \/ TryPop(t) \/ Expire(t) \/ WakeSpuriously(t) \/ Resume(t)
       \/ \E c \in Calls : EnterCall(t, c)

Spec == Init /\ [][Next]_vars

\* Time passes for the threads that wait, and those awake get the mutex.
FairSpec == Spec /\ \A t \in Threads : WF_vars(Expire(t)) /\ WF_vars(Resume(t))

-----------------------------------------------------------------------------
(* Properties                                                              *)

\* ThreadSafeQueue.hpp:38, pop blocks until there is a value: for each value that
\* waits in the queue while a thread is blocked, another thread is awake and about
\* to look.  A popUntil that leaves a value uses a notification for nothing.
NoLostWakeup ==
  ~passed /\ Blocked # {} => Len(queue) <= Cardinality(Awake)

\* No value stays in the queue while a thread is blocked for one.
HeadTaken ==
  \A n \in 1 .. SentBound :
    queue # <<>> /\ Head(queue) = n
      ~> (queue # <<>> => Head(queue) # n) \/ Blocked = {} \/ passed

\* ThreadSafeQueue.hpp:51, popTimeout returns when its time is over, with a value
\* or without, whatever wakes it before: task::run's actions look at a stop
\* request only between two of these calls.
TimedCallReturns ==
  \A t \in Threads : call[t] \in Timed ~> call[t] \notin Timed

=============================================================================
