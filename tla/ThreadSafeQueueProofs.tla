------------------------- MODULE ThreadSafeQueueProofs -------------------------
(***************************************************************************)
(* No notification of a queue is lost, for any number of threads.          *)
(***************************************************************************)
EXTENDS ThreadSafeQueue, FiniteSetTheorems, SequenceTheorems, TLAPS

IInv == TypeOK /\ NoLostWakeup

-----------------------------------------------------------------------------

LEMMA AwakeFinite == IsFiniteSet(Awake) /\ Cardinality(Awake) \in Nat
<1>1. Awake \in SUBSET Threads
  BY DEF Awake
<1> QED
  BY <1>1, QueueAssumption, FS_Subset, FS_CardinalityType

\* What a push does to the length, and what a pop does.
LEMMA Lengths ==
  ASSUME queue \in Seq(Nat)
  PROVE  /\ Len(queue) \in Nat
         /\ queue = <<>> => Len(queue) = 0
         /\ queue # <<>> => Tail(queue) \in Seq(Nat) /\ Len(Tail(queue)) = Len(queue) - 1
         /\ \A n \in Nat : /\ Append(queue, n) \in Seq(Nat)
                           /\ Len(Append(queue, n)) = Len(queue) + 1
  BY HeadTailProperties, AppendProperties, LenProperties

\* What a thread that changes its place does to the number of threads awake.
LEMMA Moved ==
  ASSUME TypeOK, NEW t \in Threads,
         NEW p \in {"out", "blocked", "notified", "expired"},
         at' = [at EXCEPT ![t] = p]
  PROVE  /\ Cardinality(Awake)' \in Nat
         /\ t \notin Awake /\ p \in {"notified", "expired"}
              => Cardinality(Awake)' = Cardinality(Awake) + 1
         /\ t \in Awake /\ p \notin {"notified", "expired"}
              => Cardinality(Awake)' = Cardinality(Awake) - 1
         /\ t \in Awake <=> p \in {"notified", "expired"}
              => Cardinality(Awake)' = Cardinality(Awake)
         /\ p # "blocked" => Blocked' = Blocked \ {t}
<1>1. Awake' = IF p \in {"notified", "expired"} THEN Awake \cup {t} ELSE Awake \ {t}
  BY DEF TypeOK, Awake
<1>2. p # "blocked" => Blocked' = Blocked \ {t}
  BY DEF TypeOK, Blocked
<1>3. IsFiniteSet(Awake) /\ Cardinality(Awake) \in Nat
  BY AwakeFinite
<1>4. IsFiniteSet(Awake') /\ Cardinality(Awake') \in Nat
  BY <1>1, <1>3, FS_AddElement, FS_RemoveElement, FS_CardinalityType
<1>5. CASE p \in {"notified", "expired"}
  <2>1. Cardinality(Awake') = IF t \in Awake THEN Cardinality(Awake) ELSE Cardinality(Awake) + 1
    BY <1>1, <1>3, <1>5, FS_AddElement
  <2> QED
    BY <2>1, <1>2, <1>4, <1>5
<1>6. CASE p \notin {"notified", "expired"}
  <2>1. Cardinality(Awake') = IF t \in Awake THEN Cardinality(Awake) - 1 ELSE Cardinality(Awake)
    BY <1>1, <1>3, <1>6, FS_RemoveElement
  <2> QED
    BY <2>1, <1>2, <1>4, <1>6
<1> QED
  BY <1>5, <1>6

-----------------------------------------------------------------------------
(* The steps                                                               *)

LEMMA PushStep ==
  ASSUME IInv, Push
  PROVE  IInv'
<1> USE DEF IInv
<1>1. /\ sent' \in Nat
      /\ queue' \in Seq(Nat) /\ Len(queue') = Len(queue) + 1 /\ Len(queue) \in Nat
  BY Lengths DEF TypeOK, Push
<1>2. CASE Blocked = {}
  <2>1. UNCHANGED <<at, call, passed>>
    BY <1>2 DEF Push
  <2> QED
    BY <1>1, <1>2, <2>1 DEF TypeOK, NoLostWakeup, Blocked
<1>3. CASE Blocked # {}
  <2>1. PICK t \in Blocked : at' = [at EXCEPT ![t] = "notified"]
    BY <1>3 DEF Push
  <2>2. t \in Threads /\ t \notin Awake /\ at[t] = "blocked"
    BY <2>1 DEF Blocked, Awake
  <2>3. Cardinality(Awake)' = Cardinality(Awake) + 1 /\ Cardinality(Awake) \in Nat
    BY <2>1, <2>2, Moved, AwakeFinite
  <2>4. UNCHANGED <<call, passed>>
    BY DEF Push
  <2>5. TypeOK'
    BY <1>1, <2>1, <2>2, <2>4 DEF TypeOK
  <2> QED
    BY <1>1, <1>3, <2>3, <2>4, <2>5 DEF NoLostWakeup
<1> QED
  BY <1>2, <1>3

LEMMA TakeStep ==
  ASSUME IInv, NEW t \in Threads, Take(t)
  PROVE  IInv'
<1> USE DEF IInv
<1>1. /\ queue' \in Seq(Nat) /\ Len(queue') = Len(queue) - 1
      /\ Len(queue) \in Nat
      /\ UNCHANGED <<sent, passed>>
  BY Lengths DEF TypeOK, Take, Return
<1>2. call' = [call EXCEPT ![t] = "none"] /\ at' = [at EXCEPT ![t] = "out"]
  BY DEF Take, Return
<1>3. TypeOK'
  BY <1>1, <1>2 DEF TypeOK, Calls, Timed
<1>4. /\ Cardinality(Awake) \in Nat
      /\ \/ Cardinality(Awake)' = Cardinality(Awake)
         \/ Cardinality(Awake)' = Cardinality(Awake) - 1
      /\ Blocked' = Blocked \ {t}
  BY <1>2, Moved, AwakeFinite
<1> QED
  BY <1>1, <1>3, <1>4 DEF NoLostWakeup

\* The steps that do not make a value wait: the queue is empty, or
\* a popUntil passes.
LEMMA QuietStep ==
  ASSUME IInv, NEW t \in Threads,
         \/ \E c \in Calls : Wait(t, c)
         \/ Leave(t) \/ GiveUp(t)
  PROVE  IInv'
<1> USE DEF IInv
<1>1. \A n \in Nat : 0 <= n
  OBVIOUS
<1>2. Cardinality(Awake)' \in Nat
  <2>1. \E p \in {"out", "blocked"} : at' = [at EXCEPT ![t] = p]
    BY DEF Wait, Leave, GiveUp, Return
  <2> QED
    BY <2>1, Moved
<1>3. queue' = <<>> \/ passed'
  BY DEF Wait, Leave, GiveUp, Return
<1>4. TypeOK'
  <2>1. CASE \E c \in Calls : Wait(t, c)
    BY <2>1 DEF Wait, TypeOK, Calls, Timed
  <2>2. CASE Leave(t) \/ GiveUp(t)
    BY <2>2 DEF Leave, GiveUp, Return, TypeOK, Calls, Timed
  <2> QED
    BY <2>1, <2>2
<1>5. queue' = <<>> => Len(queue') = 0
  OBVIOUS
<1> QED
  BY <1>1, <1>2, <1>3, <1>4, <1>5 DEF NoLostWakeup

\* The steps that wake a thread without a push.
LEMMA WakeStep ==
  ASSUME IInv, NEW t \in Threads, Expire(t) \/ WakeSpuriously(t)
  PROVE  IInv'
<1> USE DEF IInv
<1>1. PICK p \in {"notified", "expired"} : at' = [at EXCEPT ![t] = p]
  BY DEF Expire, WakeSpuriously
<1>2. UNCHANGED <<queue, call, passed, sent>> /\ Len(queue) \in Nat
  BY Lengths DEF Expire, WakeSpuriously, TypeOK
<1>3. TypeOK'
  BY DEF TypeOK, Expire, WakeSpuriously, Timed, Calls
<1>4. /\ Cardinality(Awake) \in Nat
      /\ \/ Cardinality(Awake)' = Cardinality(Awake)
         \/ Cardinality(Awake)' = Cardinality(Awake) + 1
      /\ Blocked' = Blocked \ {t}
  BY <1>1, Moved, AwakeFinite
<1> QED
  BY <1>2, <1>3, <1>4 DEF NoLostWakeup

LEMMA TryPopStep ==
  ASSUME IInv, NEW t \in Threads, TryPop(t)
  PROVE  IInv'
<1>1. /\ queue' \in Seq(Nat) /\ Len(queue') = Len(queue) - 1
      /\ Len(queue) \in Nat /\ Cardinality(Awake) \in Nat
      /\ UNCHANGED <<sent, call, at, passed>>
  BY Lengths, AwakeFinite DEF IInv, TypeOK, TryPop
<1> QED
  BY <1>1 DEF IInv, TypeOK, NoLostWakeup, Awake, Blocked

-----------------------------------------------------------------------------

LEMMA Initial == Init => IInv
<1> SUFFICES ASSUME Init PROVE IInv
  OBVIOUS
<1>1. queue \in Seq(Nat) /\ sent \in Nat
  BY EmptySeq DEF Init
<1>4. passed \in BOOLEAN
  BY DEF Init
<1>2. /\ call \in [Threads -> Calls \cup {"none"}]
      /\ at \in [Threads -> {"out", "blocked", "notified", "expired"}]
      /\ \A t \in Threads : call[t] = "none" /\ at[t] = "out"
  BY DEF Init, Calls
<1>3. Blocked = {}
  BY <1>2 DEF Blocked
<1> QED
  <2>1. TypeOK
    BY <1>1, <1>2, <1>4 DEF TypeOK
  <2> QED
    BY <2>1, <1>3 DEF IInv, NoLostWakeup

LEMMA Inductive == IInv /\ [Next]_vars => IInv'
<1> SUFFICES ASSUME IInv, [Next]_vars PROVE IInv'
  OBVIOUS
<1>1. CASE Push
  BY <1>1, PushStep
<1>2. ASSUME NEW t \in Threads, TryPop(t) PROVE IInv'
  BY <1>2, TryPopStep
<1>3. ASSUME NEW t \in Threads, Expire(t) \/ WakeSpuriously(t) PROVE IInv'
  BY <1>3, WakeStep
<1>4. ASSUME NEW t \in Threads, Resume(t) PROVE IInv'
  <2>1. CASE Take(t)
    BY <2>1, TakeStep
  <2>2. CASE Leave(t) \/ GiveUp(t)
    BY <2>2, QuietStep
  <2>3. CASE at[t] = "notified" /\ Wait(t, call[t])
    <3>1. call[t] \in Calls
      BY <2>3 DEF IInv, TypeOK
    <3> QED
      BY <2>3, <3>1, QuietStep
  <2> QED
    BY <1>4, <2>1, <2>2, <2>3 DEF Resume
<1>5. ASSUME NEW t \in Threads, NEW c \in Calls, EnterCall(t, c) PROVE IInv'
  BY <1>5, TakeStep, QuietStep DEF EnterCall
<1>6. CASE Clear
  <2>1. queue' = <<>> /\ UNCHANGED <<sent, call, at, passed>>
    BY <1>6 DEF Clear
  <2>2. Cardinality(Awake) \in Nat /\ Awake' = Awake /\ Len(<<>>) = 0
    BY <2>1, AwakeFinite DEF Awake
  <2> QED
    BY <2>1, <2>2 DEF IInv, TypeOK, NoLostWakeup
<1>7. CASE UNCHANGED vars
  BY <1>7 DEF vars, IInv, TypeOK, NoLostWakeup, Blocked, Awake
<1> QED
  BY <1>1, <1>2, <1>3, <1>4, <1>5, <1>6, <1>7 DEF Next

\* ThreadSafeQueue.hpp: for any number of threads that pop, with or without a
\* time, and whatever wakes them, a value is never left in the queue while every
\* thread that could take it sleeps.
THEOREM WakeupKept == Spec => []NoLostWakeup
<1>1. Init => IInv
  BY Initial
<1>2. IInv => NoLostWakeup
  BY DEF IInv
<1> QED
  BY <1>1, <1>2, Inductive, PTL DEF Spec

\* Its variables keep their types, and only a timed call is ended by its time.
THEOREM QueueTyped == Spec => []TypeOK
<1>1. Init => IInv
  BY Initial
<1>2. IInv => TypeOK
  BY DEF IInv
<1> QED
  BY <1>1, <1>2, Inductive, PTL DEF Spec

=============================================================================
