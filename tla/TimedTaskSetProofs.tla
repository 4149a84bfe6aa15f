-------------------------- MODULE TimedTaskSetProofs --------------------------
(***************************************************************************)
(* Proofs about TimedTaskSet for any ids and versions, lists of any length *)
(* and any number of crashes.                                              *)
(***************************************************************************)
EXTENDS TimedTaskSet, TLAPS, SequenceTheorems

-----------------------------------------------------------------------------
(* The list and the lines                                                  *)

LEMMA ListFacts ==
  ASSUME TypeOK
  PROVE  /\ Len(list) \in Nat /\ DOMAIN list = 1 .. Len(list)
         /\ \A k \in DOMAIN list :
              list[k] \in Entries /\ list[k].id \in Ids /\ list[k].cron \in Crons
         /\ Len(cronLines) \in Nat /\ DOMAIN cronLines = 1 .. Len(cronLines)
         /\ \A k \in DOMAIN cronLines : cronLines[k].id \in Ids
<1>1. list \in Seq(Entries) /\ cronLines \in Seq(Lines)
  BY DEF TypeOK
<1>2. \A k \in 1 .. Len(list) : list[k] \in Entries
  BY <1>1, ElementOfSeq
<1>3. \A k \in 1 .. Len(cronLines) : cronLines[k] \in Lines
  BY <1>1, ElementOfSeq
<1> QED
  BY <1>1, <1>2, <1>3, LenProperties DEF Entries, Lines

\* Where ids are unique, the first task of an id is the task of that id.
LEMMA HeldFacts ==
  ASSUME TypeOK, UniqueIds, NEW k \in DOMAIN list
  PROVE  /\ Listed(list[k].id)
         /\ Position(list[k].id) = k
         /\ Held(list[k].id) = list[k]
<1>1. \A j \in DOMAIN list : FirstOf(j, list[k].id) <=> j = k
  BY ListFacts DEF FirstOf, UniqueIds
<1> QED
  BY <1>1 DEF Listed, Position, Held

\* What Held returns is in the list.
LEMMA HeldListed ==
  ASSUME NEW i, Listed(i)
  PROVE  /\ Position(i) \in DOMAIN list
         /\ list[Position(i)].id = i
         /\ Held(i) = list[Position(i)]
<1>1. FirstOf(Position(i), i)
  BY DEF Listed, Position
<1> QED
  BY <1>1 DEF FirstOf, Held

\* erase keeps the tasks but one, in their order.
LEMMA EraseFacts ==
  ASSUME TypeOK, NEW k \in DOMAIN list
  PROVE  /\ Erase(k) \in Seq(Entries)
         /\ DOMAIN Erase(k) = 1 .. Len(list) - 1
         /\ \A j \in 1 .. Len(list) - 1 :
              Erase(k)[j] = IF j < k THEN list[j] ELSE list[j + 1]
<1>1. /\ Len(list) - 1 \in Nat
      /\ Erase(k) \in [1 .. Len(list) - 1 -> Entries]
  BY ListFacts DEF Erase
<1>2. Erase(k) \in Seq(Entries)
  BY <1>1, SeqDef
<1> QED
  BY <1>1, <1>2 DEF Erase

\* Without(i) holds the other tasks, in their order.
LEMMA WithoutFacts ==
  ASSUME TypeOK, UniqueIds, NEW i \in Ids, NEW L, L = Without(i)
  PROVE  /\ L \in Seq(Entries)
         /\ \A k \in DOMAIN L : L[k].id # i /\ \E j \in DOMAIN list : L[k] = list[j]
         /\ \A j, k \in DOMAIN L : j < k =>
              \E a, b \in DOMAIN list : a < b /\ L[j] = list[a] /\ L[k] = list[b]
         /\ \A k \in DOMAIN list : list[k].id # i => \E j \in DOMAIN L : L[j] = list[k]
<1>1. CASE ~Listed(i)
  <2>1. L = list
    BY <1>1 DEF Without
  <2>2. \A k \in DOMAIN list : list[k].id # i
    BY <1>1, HeldFacts
  <2> QED
    BY <2>1, <2>2 DEF TypeOK
<1>2. CASE Listed(i)
  <2> DEFINE p == Position(i)
  <2>1. p \in DOMAIN list /\ list[p].id = i /\ L = Erase(p)
    BY <1>2, HeldListed DEF Without
  <2> HIDE DEF p
  <2>2. /\ L \in Seq(Entries) /\ DOMAIN L = 1 .. Len(list) - 1
        /\ \A j \in 1 .. Len(list) - 1 : L[j] = IF j < p THEN list[j] ELSE list[j + 1]
    BY <2>1, EraseFacts
  <2>3. \A k \in DOMAIN list : list[k].id = i => k = p
    BY <2>1 DEF UniqueIds
  <2>4. /\ Len(list) \in Nat /\ DOMAIN list = 1 .. Len(list)
    BY ListFacts
  <2>5. ASSUME NEW k \in DOMAIN L
        PROVE  L[k].id # i /\ \E j \in DOMAIN list : L[k] = list[j]
    <3>1. CASE k < p
      BY <3>1, <2>1, <2>2, <2>3, <2>4
    <3>2. CASE ~(k < p)
      <4>1. k + 1 \in DOMAIN list /\ k + 1 # p /\ L[k] = list[k + 1]
        BY <3>2, <2>1, <2>2, <2>4
      <4> QED
        BY <4>1, <2>3
    <3> QED
      BY <3>1, <3>2
  <2>6. ASSUME NEW j \in DOMAIN L, NEW k \in DOMAIN L, j < k
        PROVE  \E a, b \in DOMAIN list : a < b /\ L[j] = list[a] /\ L[k] = list[b]
    <3> DEFINE a == IF j < p THEN j ELSE j + 1
               b == IF k < p THEN k ELSE k + 1
    <3>1. a \in DOMAIN list /\ b \in DOMAIN list /\ a < b
      BY <2>1, <2>2, <2>4, <2>6
    <3>2. L[j] = list[a] /\ L[k] = list[b]
      BY <2>2
    <3> QED
      BY <3>1, <3>2
  <2>7. ASSUME NEW k \in DOMAIN list, list[k].id # i
        PROVE  \E j \in DOMAIN L : L[j] = list[k]
    <3> DEFINE j == IF k < p THEN k ELSE k - 1
    <3>1. k # p
      BY <2>1, <2>7
    <3>2. j \in DOMAIN L /\ L[j] = list[k]
      BY <3>1, <2>1, <2>2, <2>4
    <3> QED
      BY <3>2
  <2> QED
    BY <2>2, <2>5, <2>6, <2>7
<1> QED
  BY <1>1, <1>2

-----------------------------------------------------------------------------
(* The requests                                                            *)

\* A request that makes the list L: whatever it lists is of the request or was
\* listed before, in that order, and nothing but the request's task is gone.
LEMMA RequestStep ==
  ASSUME IInv, Idle, NEW i \in Ids, NEW L \in Seq(Entries),
         \A j, k \in DOMAIN L : L[j].id = L[k].id => j = k,
         \A k \in DOMAIN L : L[k].id = i \/ \E j \in DOMAIN list : L[k] = list[j],
         \A j, k \in DOMAIN L : j < k /\ L[k].id # i =>
           \E a, b \in DOMAIN list : a < b /\ L[j] = list[a] /\ L[k] = list[b],
         \A k \in DOMAIN list : list[k].id # i => \E j \in DOMAIN L : L[j] = list[k],
         list' = L, request' = i, writing' = "truncate",
         UNCHANGED <<fileVars, phase, next, acked, interrupted>>
  PROVE  IInv'
<1> USE DEF IInv, fileVars
<1>1. phase = "up" /\ writing = "no" /\ request = NoEntry
  BY DEF Idle, Modes
<1>2. TypeOK'
  BY DEF TypeOK
<1>3. UniqueIds'
  BY DEF UniqueIds
<1>4. NoEntry \notin Ids
  BY MarksAssumption
<1>4a. \A k \in DOMAIN list : list[k].id # request
  <2>1. \A k \in DOMAIN list : list[k].id \in Ids
    BY ListFacts
  <2> QED
    BY <2>1, <1>1, <1>4
<1>5. (Modes /\ Read /\ Named /\ Written)'
  BY <1>1, <1>4 DEF Modes, Read, Named, Written, Storing, Ended
<1>6. ListAcked'
  <2> SUFFICES ASSUME NEW k \in DOMAIN L, L[k].id # i
               PROVE  \/ acked[L[k].id] = Unknown
                      \/ acked[L[k].id] = L[k] /\ taskFile[L[k].id] \in {L[k], Torn}
    BY DEF ListAcked
  <2>1. PICK j \in DOMAIN list : L[k] = list[j]
    OBVIOUS
  <2> QED
    BY <2>1, <1>4a DEF ListAcked
<1>7. LinesAcked'
  BY <1>1, <1>4, ListFacts DEF LinesAcked
<1>8. AckedBefore'
  <2> SUFFICES ASSUME NEW j \in DOMAIN L, NEW k \in DOMAIN L, j < k,
                      L[j].cron = "missing", L[k].id # i
               PROVE  acked[L[k].id] = Unknown
    BY DEF AckedBefore
  <2>1. PICK a \in DOMAIN list, b \in DOMAIN list :
          a < b /\ L[j] = list[a] /\ L[k] = list[b]
    OBVIOUS
  <2> QED
    BY <2>1, <1>4a DEF AckedBefore
<1>9. Retained'
  <2> SUFFICES ASSUME ~interrupted, NEW n \in Ids, Kept(n)'
               PROVE  InList(n)'
    BY <1>1 DEF Retained
  <2>1. Kept(n) /\ n # i
    BY <1>1, <1>4 DEF Kept
  <2>2. PICK k \in DOMAIN list : list[k] = acked[n]
    BY <2>1, <1>1 DEF Retained, InList
  <2>3. list[k].id # i
    BY <2>1, <2>2 DEF Named, Kept
  <2> QED
    BY <2>2, <2>3 DEF InList
<1> QED
  BY <1>2, <1>3, <1>5, <1>6, <1>7, <1>8, <1>9

LEMMA AddStep ==
  ASSUME IInv, NEW e \in Entries, AddTimedTask(e)
  PROVE  IInv'
<1> DEFINE W == Without(e.id)
           L == Append(W, e)
<1>1. TypeOK /\ UniqueIds /\ e.id \in Ids
  BY DEF IInv, Entries
<1>2. /\ W \in Seq(Entries)
      /\ \A k \in DOMAIN W : W[k].id # e.id /\ \E j \in DOMAIN list : W[k] = list[j]
      /\ \A j, k \in DOMAIN W : j < k =>
           \E a, b \in DOMAIN list : a < b /\ W[j] = list[a] /\ W[k] = list[b]
      /\ \A k \in DOMAIN list : list[k].id # e.id => \E j \in DOMAIN W : W[j] = list[k]
  BY <1>1, WithoutFacts
<1>3. /\ Idle /\ list' = L /\ request' = e.id /\ writing' = "truncate"
      /\ UNCHANGED <<fileVars, phase, next, acked, interrupted>>
  BY DEF AddTimedTask, PutTask
<1> HIDE DEF W
<1>4. /\ L \in Seq(Entries) /\ Len(W) \in Nat /\ DOMAIN W = 1 .. Len(W)
      /\ DOMAIN L = 1 .. Len(W) + 1 /\ L[Len(W) + 1] = e
      /\ \A k \in 1 .. Len(W) : L[k] = W[k]
  BY <1>2, LenProperties
<1>5. \A k \in DOMAIN W : \A j \in DOMAIN W : W[j].id = W[k].id => j = k
  <2> SUFFICES ASSUME NEW j \in DOMAIN W, NEW k \in DOMAIN W, j < k
               PROVE  W[j].id # W[k].id
    BY <1>4
  <2>1. PICK a, b \in DOMAIN list : a < b /\ W[j] = list[a] /\ W[k] = list[b]
    BY <1>2
  <2>2. a # b
    BY <2>1, <1>1, ListFacts
  <2> QED
    BY <1>1, <2>1, <2>2 DEF UniqueIds
<1> HIDE DEF L
<1>6. \A j, k \in DOMAIN L : L[j].id = L[k].id => j = k
  BY <1>2, <1>4, <1>5
<1>7. \A k \in DOMAIN L : L[k].id = e.id \/ \E j \in DOMAIN list : L[k] = list[j]
  BY <1>2, <1>4
<1>8. ASSUME NEW j \in DOMAIN L, NEW k \in DOMAIN L, j < k, L[k].id # e.id
      PROVE  \E a, b \in DOMAIN list : a < b /\ L[j] = list[a] /\ L[k] = list[b]
  <2>1. j \in DOMAIN W /\ k \in DOMAIN W /\ L[j] = W[j] /\ L[k] = W[k]
    BY <1>4, <1>8
  <2> QED
    BY <2>1, <1>2, <1>8
<1>9. \A k \in DOMAIN list : list[k].id # e.id => \E j \in DOMAIN L : L[j] = list[k]
  BY <1>2, <1>4
<1> QED
  BY <1>1, <1>3, <1>4, <1>6, <1>7, <1>8, <1>9, RequestStep

LEMMA DelStep ==
  ASSUME IInv, NEW i \in Ids, DelTimedTask(i)
  PROVE  IInv'
<1>1. TypeOK /\ UniqueIds /\ Idle
  BY DEF IInv, DelTimedTask
<1>2. CASE Listed(i)
  <2> DEFINE L == Without(i)
  <2>1. /\ L \in Seq(Entries)
        /\ \A k \in DOMAIN L : L[k].id # i /\ \E j \in DOMAIN list : L[k] = list[j]
        /\ \A j, k \in DOMAIN L : j < k =>
             \E a, b \in DOMAIN list : a < b /\ L[j] = list[a] /\ L[k] = list[b]
        /\ \A k \in DOMAIN list : list[k].id # i => \E j \in DOMAIN L : L[j] = list[k]
    BY <1>1, WithoutFacts
  <2>2. /\ list' = L /\ request' = i /\ writing' = "truncate"
        /\ UNCHANGED <<fileVars, phase, next, acked, interrupted>>
    BY <1>2 DEF DelTimedTask
  <2> HIDE DEF L
  <2>3. Len(L) \in Nat /\ DOMAIN L = 1 .. Len(L)
    BY <2>1, LenProperties
  <2>4. \A j, k \in DOMAIN L : L[j].id = L[k].id => j = k
    <3> SUFFICES ASSUME NEW j \in DOMAIN L, NEW k \in DOMAIN L, j < k
                 PROVE  L[j].id # L[k].id
      BY <2>3
    <3>1. PICK a, b \in DOMAIN list : a < b /\ L[j] = list[a] /\ L[k] = list[b]
      BY <2>1
    <3>2. a # b
      BY <3>1, <1>1, ListFacts
    <3> QED
      BY <1>1, <3>1, <3>2 DEF UniqueIds
  <2> QED
    BY <1>1, <2>1, <2>2, <2>4, RequestStep
<1>3. CASE ~Listed(i)
  <2> USE DEF fileVars
  <2>1. /\ UNCHANGED <<list, fileVars, phase, writing, next, request, interrupted>>
        /\ acked' = [acked EXCEPT ![i] = NoEntry]
    BY <1>3 DEF DelTimedTask
  <2>2. \A k \in DOMAIN list : list[k].id # i
    BY <1>1, <1>3, HeldFacts
  <2>3. \A k \in DOMAIN cronLines : cronLines[k].id # i
    <3> SUFFICES ASSUME NEW k \in DOMAIN cronLines PROVE cronLines[k].id # i
      OBVIOUS
    <3>1. k \in DOMAIN list /\ cronLines[k] = Line(list[k])
      BY <1>1, ListFacts DEF IInv, Idle, Written, Storing
    <3> QED
      BY <2>2, <3>1 DEF Line
  <2>4. NoEntry \notin Entries
    BY MarksAssumption
  <2>5. \A j \in Ids : j # i => acked'[j] = acked[j]
    BY <1>1, <2>1 DEF TypeOK
  <2>6. acked'[i] = NoEntry
    BY <1>1, <2>1 DEF TypeOK
  <2>7. TypeOK'
    BY <1>1, <2>1 DEF TypeOK
  <2>8. (UniqueIds /\ Modes /\ Read /\ Written)'
    BY <2>1 DEF IInv, UniqueIds, Modes, Read, Written, Storing, Ended
  <2>9. Named'
    BY <2>1, <2>4, <2>5, <2>6 DEF IInv, Named
  <2>10. (ListAcked /\ LinesAcked /\ AckedBefore)'
    BY <1>1, <2>1, <2>2, <2>3, <2>5, ListFacts
       DEF IInv, ListAcked, LinesAcked, AckedBefore
  <2>11. Retained'
    <3> SUFFICES ASSUME NEW j \in Ids, Kept(j)', ~interrupted
                 PROVE  InList(j)' /\ InFiles(j)'
      BY <1>1, <2>1 DEF Retained
    <3>1. j # i /\ Kept(j)
      BY <2>1, <2>4, <2>5, <2>6 DEF Kept
    <3>2. InList(j) /\ InFiles(j)
      BY <1>1, <3>1 DEF IInv, Idle, Retained
    <3> QED
      BY <2>1, <2>5, <3>1, <3>2 DEF InList, InFiles
  <2> QED
    BY <2>7, <2>8, <2>9, <2>10, <2>11 DEF IInv
<1> QED
  BY <1>2, <1>3

-----------------------------------------------------------------------------
(* update_file                                                             *)

\* The writes change neither the list nor what was answered.
LEMMA TruncateStep ==
  ASSUME IInv, TruncateCron
  PROVE  IInv'
<1> USE DEF IInv, TruncateCron, fileVars
<1>1. cronLines' = <<>> /\ Len(cronLines') = 0 /\ DOMAIN cronLines' = {}
  BY EmptySeq
<1>2. phase \in {"storing", "up"}
  BY DEF TypeOK, Modes
<1>3. TypeOK'
  BY DEF TypeOK
<1>4. (UniqueIds /\ Modes /\ Read /\ Named /\ Written)'
  BY <1>1, <1>2 DEF UniqueIds, Modes, Read, Named, Written, Storing, Ended
<1>5. (ListAcked /\ LinesAcked /\ AckedBefore)'
  BY <1>1 DEF ListAcked, LinesAcked, AckedBefore
<1>6. Retained'
  BY <1>2 DEF Retained, Kept, InList
<1> QED
  BY <1>3, <1>4, <1>5, <1>6

LEMMA WriteLineStep ==
  ASSUME IInv, WriteLine
  PROVE  IInv'
<1> USE DEF IInv, WriteLine, fileVars
<1> DEFINE n == Len(cronLines) + 1
<1>1. phase \in {"storing", "up"}
  BY DEF TypeOK, Modes
<1>2. next = n /\ n \in DOMAIN list /\ n \in Nat
  BY <1>1, ListFacts DEF Written, Storing, More
<1>3. list[n].id \in Ids /\ list[n].cron \in Crons /\ Line(list[n]) \in Lines
  BY <1>2, ListFacts DEF Line, Lines
<1>4. /\ cronLines' = Append(cronLines, Line(list[n])) /\ cronLines' \in Seq(Lines)
      /\ Len(cronLines') = n /\ DOMAIN cronLines' = 1 .. n
      /\ cronLines'[n] = Line(list[n])
      /\ \A k \in DOMAIN cronLines : k \in 1 .. n /\ k # n /\ cronLines'[k] = cronLines[k]
      /\ \A k \in 1 .. n : k # n => k \in DOMAIN cronLines
  BY <1>2, <1>3, ListFacts DEF TypeOK
<1>5. \A k \in 1 .. n : k \in DOMAIN list /\ cronLines'[k] = Line(list[k])
  BY <1>1, <1>2, <1>4, ListFacts DEF Written, Storing
<1>6. TypeOK'
  BY <1>4 DEF TypeOK
<1>5a. \A k \in 1 .. n : cronLines'[k].id = list[k].id
  <2> SUFFICES ASSUME NEW k \in 1 .. n PROVE cronLines'[k].id = list[k].id
    OBVIOUS
  <2>1. cronLines'[k] = Line(list[k])
    BY <1>5
  <2> HIDE DEF WriteLine, IInv, n
  <2> QED
    BY <2>1 DEF Line
<1>7. UniqueIds'
  <2>1. \A j, k \in 1 .. n : cronLines'[j].id = cronLines'[k].id => j = k
    BY <1>5a, <1>5 DEF UniqueIds
  <2> QED
    BY <1>4, <2>1 DEF UniqueIds
<1>8. (Modes /\ Read /\ Named)'
  BY <1>1 DEF Modes, Read, Named, Ended
<1>9. Written'
  <2>1. \A k \in 1 .. n : list[k].cron # "missing"
    BY <1>1, <1>2, <1>4 DEF Written, Storing
  <2>2. \A k \in 1 .. n : k # n => taskFile[list[k].id] = list[k]
    BY <1>1, <1>4 DEF Written, Storing
  <2> QED
    BY <1>2, <1>4, <1>5, <2>1, <2>2, ListFacts DEF Written, Storing
<1>10. (ListAcked /\ AckedBefore)'
  BY DEF ListAcked, AckedBefore
<1>11. LinesAcked'
  <2> SUFFICES ASSUME NEW k \in 1 .. n
               PROVE  LET i == cronLines'[k].id
                      IN \/ i = request \/ acked[i] = Unknown
                         \/ acked[i] \in Entries /\ taskFile[i] \in {acked[i], Torn}
    BY <1>4 DEF LinesAcked
  <2>1. k \in DOMAIN list /\ cronLines'[k].id = list[k].id /\ list[k] \in Entries
    BY <1>5a, <1>5, ListFacts
  <2>2. \/ list[k].id = request \/ acked[list[k].id] = Unknown
        \/ acked[list[k].id] = list[k] /\ taskFile[list[k].id] \in {list[k], Torn}
    BY <2>1 DEF ListAcked
  <2> QED
    BY <2>1, <2>2
<1>12. Retained'
  BY <1>1 DEF Retained, Kept, InList
<1> QED
  BY <1>6, <1>7, <1>8, <1>9, <1>10, <1>11, <1>12

\* Behind a task without "cron" nothing is known to be answered.
LEMMA RaiseStep ==
  ASSUME IInv, RaiseNoCron
  PROVE  IInv'
<1> USE DEF IInv, RaiseNoCron, fileVars
<1>1. /\ request \in Ids /\ request # NoEntry /\ NoEntry \notin Ids
      /\ Unknown \notin Entries
  BY MarksAssumption DEF Modes, TypeOK
<1>2. /\ acked'[request] = Unknown
      /\ \A i \in Ids : i # request => acked'[i] = acked[i]
  BY <1>1 DEF TypeOK
<1>3. next = Len(cronLines) + 1 /\ next \in DOMAIN list
  BY ListFacts DEF Written, Storing, More
<1>4. TypeOK'
  BY <1>1 DEF TypeOK
<1>5. (UniqueIds /\ Modes /\ Read /\ Named)'
  BY <1>1, <1>2 DEF UniqueIds, Modes, Read, Named, Ended
<1>6. Written'
  BY <1>3 DEF Written, Storing
<1>7. (ListAcked /\ LinesAcked /\ AckedBefore)'
  BY <1>1, <1>2, ListFacts DEF ListAcked, LinesAcked, AckedBefore
<1>8. Retained'
  <2> SUFFICES ASSUME ~interrupted, NEW i \in Ids, Kept(i)'
               PROVE  InList(i)' /\ InFiles(i)'
    BY DEF Retained
  <2>1. Kept(i) /\ i # request /\ acked'[i] = acked[i]
    BY <1>1, <1>2 DEF Kept
  <2>2. PICK k \in DOMAIN list : list[k] = acked[i]
    BY <2>1 DEF Retained, InList
  <2>3. list[k].id = i /\ list[k].cron = "fields" /\ acked[i] # Unknown
    BY <1>1, <2>1, <2>2 DEF Kept, Named
  <2>4. ~(next < k) /\ k # next
    BY <1>3, <2>1, <2>3 DEF AckedBefore
  <2>5. k \in DOMAIN cronLines
    BY <1>3, <2>4, ListFacts
  <2>6. cronLines[k] = Line(list[k]) /\ taskFile[list[k].id] = list[k]
    BY <2>5 DEF Written, Storing
  <2> QED
    BY <2>1, <2>2, <2>3, <2>5, <2>6 DEF InList, InFiles
<1> QED
  BY <1>4, <1>5, <1>6, <1>7, <1>8

\* The file of one id is opened or written; the others are left alone.
LEMMA OpenStep ==
  ASSUME IInv, OpenTaskFile
  PROVE  IInv'
<1> USE DEF IInv, OpenTaskFile, fileVars
<1>1. phase \in {"storing", "up"}
  BY DEF TypeOK, Modes
<1>2. next = Len(cronLines) /\ next \in DOMAIN cronLines /\ next \in DOMAIN list
  BY <1>1, ListFacts DEF Written, Storing
<1>3. /\ list[next].id \in Ids
      /\ taskFile'[list[next].id] = Torn
      /\ \A i \in Ids : i # list[next].id => taskFile'[i] = taskFile[i]
  BY <1>2, ListFacts DEF TypeOK
<1>4. Torn \notin Entries
  BY MarksAssumption
<1>5. TypeOK'
  BY <1>3 DEF TypeOK
<1>6. (UniqueIds /\ Modes /\ Read /\ AckedBefore)'
  BY <1>1 DEF UniqueIds, Modes, Read, Ended, AckedBefore
<1>7. (Named /\ ListAcked /\ LinesAcked)'
  BY <1>3, <1>4, ListFacts DEF Named, ListAcked, LinesAcked
<1>8. Written'
  <2>1. \A k \in DOMAIN cronLines :
          k \in DOMAIN list /\ (k # next => taskFile[list[k].id] = list[k])
    BY <1>1, ListFacts DEF Written, Storing
  <2>2. \A k \in DOMAIN cronLines : k # next => taskFile'[list[k].id] = list[k]
    BY <1>2, <1>3, <2>1, ListFacts DEF UniqueIds
  <2> QED
    BY <1>1, <1>2, <2>2 DEF Written, Storing
<1>9. Retained'
  BY <1>1 DEF Retained, Kept, InList
<1> QED
  BY <1>5, <1>6, <1>7, <1>8, <1>9

LEMMA DumpStep ==
  ASSUME IInv, DumpTask
  PROVE  IInv'
<1> USE DEF IInv, DumpTask, fileVars
<1>1. phase \in {"storing", "up"}
  BY DEF TypeOK, Modes
<1>2. /\ next = Len(cronLines) /\ next \in DOMAIN cronLines /\ next \in DOMAIN list
      /\ list[next].cron # "missing" /\ cronLines[next] = Line(list[next])
  BY <1>1, ListFacts DEF Written, Storing
<1>3. /\ list[next] \in Entries /\ list[next].id \in Ids
      /\ taskFile'[list[next].id] = list[next]
      /\ \A i \in Ids : i # list[next].id => taskFile'[i] = taskFile[i]
  BY <1>2, ListFacts DEF TypeOK
<1>4. TypeOK'
  BY <1>3 DEF TypeOK
<1>5. (UniqueIds /\ Modes /\ Read /\ AckedBefore)'
  BY <1>1 DEF UniqueIds, Modes, Read, Ended, AckedBefore
<1>6. Named'
  BY <1>2, <1>3 DEF Named
<1>7. ListAcked'
  BY <1>2, <1>3, ListFacts DEF ListAcked, UniqueIds
<1>8. LinesAcked'
  BY <1>2, <1>3, ListFacts DEF ListAcked, LinesAcked
<1>9. Written'
  <2>1. \A k \in DOMAIN cronLines :
          k \in DOMAIN list /\ (k # next => taskFile[list[k].id] = list[k])
    BY <1>1, ListFacts DEF Written, Storing
  <2>2. \A k \in DOMAIN cronLines : taskFile'[list[k].id] = list[k]
    BY <1>2, <1>3, <2>1, ListFacts DEF UniqueIds
  <2> QED
    BY <1>1, <1>2, <2>2 DEF Written, Storing
<1>10. Retained'
  BY <1>1 DEF Retained, Kept, InList
<1> QED
  BY <1>4, <1>5, <1>6, <1>7, <1>8, <1>9, <1>10

LEMMA CloseStep ==
  ASSUME IInv, CloseCron
  PROVE  IInv'
<1> USE DEF IInv, CloseCron, fileVars
<1>1. phase \in {"storing", "up"} /\ NoEntry \notin Ids /\ NoEntry \notin Entries
  BY MarksAssumption DEF TypeOK, Modes
<1>2. Len(cronLines) = Len(list) /\ next = Len(cronLines) + 1
  BY <1>1, ListFacts DEF Written, Storing, More, TypeOK
<1>3. \A k \in DOMAIN list :
        /\ k \in DOMAIN cronLines /\ cronLines[k] = Line(list[k])
        /\ list[k].cron # "missing" /\ taskFile[list[k].id] = list[k]
  BY <1>1, <1>2, ListFacts DEF Written, Storing
<1>4. DOMAIN cronLines = DOMAIN list
  BY <1>2, ListFacts
<1>5. Held(request) \in Entries => \E k \in DOMAIN list : Held(request) = list[k] /\ list[k].id = request
  BY <1>1, HeldListed DEF Held
<1>6. Held(request) \in Entries \cup {NoEntry}
  BY ListFacts, HeldListed DEF Held
<1>7. \A i \in Ids : i # request => acked'[i] = acked[i]
  BY DEF TypeOK
<1>8. request \in Ids => acked'[request] = Held(request)
  BY <1>1 DEF TypeOK
<1>9. TypeOK'
  BY <1>6 DEF TypeOK
<1>10. (UniqueIds /\ Modes /\ Read)'
  BY DEF UniqueIds, Modes, Read, Ended
<1>11. Named'
  BY <1>5, <1>7, <1>8 DEF Named
<1>12. Written'
  BY <1>2, <1>3, <1>4 DEF Written, Storing
<1>13. \A k \in DOMAIN list : list[k].id = request => acked'[request] = list[k]
  BY <1>8, HeldFacts, ListFacts
<1>14. (ListAcked /\ LinesAcked)'
  <2> SUFFICES ASSUME NEW k \in DOMAIN list
               PROVE  LET i == list[k].id
                      IN \/ acked'[i] = Unknown
                         \/ acked'[i] = list[k] /\ taskFile[i] \in {list[k], Torn}
    BY <1>3, <1>4, ListFacts DEF ListAcked, LinesAcked, Line
  <2> QED
    BY <1>3, <1>7, <1>13, ListFacts DEF ListAcked
<1>15. AckedBefore'
  BY <1>3 DEF AckedBefore
<1>16. Retained'
  <2> SUFFICES ASSUME ~interrupted, NEW i \in Ids, Kept(i)'
               PROVE  InList(i)' /\ InFiles(i)'
    BY DEF Retained
  <2>1. \E k \in DOMAIN list : list[k] = acked'[i]
    <3>1. CASE i = request
      BY <1>5, <1>8, <3>1 DEF Kept
    <3>2. CASE i # request
      BY <1>1, <1>7, <3>2 DEF Retained, Kept, InList
    <3> QED
      BY <3>1, <3>2
  <2>2. PICK k \in DOMAIN list : list[k] = acked'[i]
    BY <2>1
  <2>3. list[k].id = i
    BY <1>11, <2>2 DEF Named, Kept
  <2> QED
    BY <1>3, <2>2, <2>3 DEF InList, InFiles
<1> QED
  BY <1>9, <1>10, <1>11, <1>12, <1>14, <1>15, <1>16

-----------------------------------------------------------------------------
(* The constructor and the crash                                           *)

LEMMA StartStep ==
  ASSUME IInv, StartReading
  PROVE  IInv'
<1> USE DEF IInv, StartReading, fileVars
<1>1. list = <<>> /\ Len(list) = 0 /\ DOMAIN list = {}
  BY EmptySeq DEF Modes
<1>2. phase \in {"down", "raised"}
  BY DEF Ended
<1>3. TypeOK'
  BY DEF TypeOK
<1>4. (UniqueIds /\ Modes /\ Read /\ Named /\ Written)'
  BY <1>1, <1>2, ListFacts DEF UniqueIds, Modes, Read, Named, Written, Storing, Ended
<1>5. (ListAcked /\ LinesAcked /\ AckedBefore)'
  BY DEF ListAcked, LinesAcked, AckedBefore
<1>6. Retained'
  BY <1>2 DEF Retained, Kept, InFiles, Modes, Ended
<1> QED
  BY <1>3, <1>4, <1>5, <1>6

\* A line whose file holds a task holds the task that was answered last.
LEMMA LoadStep ==
  ASSUME IInv, LoadLine
  PROVE  IInv'
<1> USE DEF IInv, LoadLine, fileVars
<1> DEFINE line == cronLines[next]
           i == line.id
<1>1. /\ request = NoEntry /\ NoEntry \notin Ids /\ writing = "no"
      /\ Torn \notin Entries /\ Unknown \notin Entries
  BY MarksAssumption DEF Modes
<1>2. /\ next \in DOMAIN cronLines /\ next \in Nat /\ i \in Ids
      /\ next + 1 \in 1 .. Len(cronLines) + 1
      /\ 1 .. (next + 1) - 1 = 1 .. next /\ next \in 1 .. next
      /\ \A k \in 1 .. next : k = next \/ k \in 1 .. next - 1
      /\ \A k \in 1 .. next - 1 : k \in DOMAIN cronLines /\ k # next /\ k \in 1 .. next
  BY ListFacts DEF Read, TypeOK
<1>3. CASE ~Loadable(line)
  <2>1. UNCHANGED list
    BY <1>3
  <2>2. TypeOK'
    BY <1>2, <2>1 DEF TypeOK
  <2>3. (UniqueIds /\ Modes /\ Named /\ Written /\ ListAcked /\ LinesAcked /\ AckedBefore)'
    BY <2>1 DEF UniqueIds, Modes, Named, Written, Storing, Ended, ListAcked,
                LinesAcked, AckedBefore
  <2>4. Read'
    BY <1>2, <2>1 DEF Read
  <2>5. Retained'
    <3> SUFFICES ASSUME ~interrupted, NEW n \in Ids, Kept(n)'
                 PROVE  /\ InFiles(n)'
                        /\ (\E k \in 1 .. next : cronLines[k].id = n) => InList(n)'
      BY <1>2 DEF Retained
    <3>1. Kept(n) /\ InFiles(n)
      BY <1>1 DEF Retained, Kept
    <3>2. cronLines[next].id # n
      <4> SUFFICES ASSUME i = n PROVE FALSE
        OBVIOUS
      <4>1. PICK k \in DOMAIN cronLines : cronLines[k] = Line(acked[n])
        BY <3>1 DEF InFiles
      <4>2. k = next
        BY <1>2, <3>1, <4>1 DEF UniqueIds, Line, Named, Kept
      <4>3. line.cron = "fields" /\ taskFile[i] # NoEntry
        BY <3>1, <4>1, <4>2, MarksAssumption DEF Kept, InFiles, Line
      <4> QED
        BY <1>3, <4>3 DEF Loadable
    <3> QED
      BY <1>1, <1>2, <2>1, <3>1, <3>2 DEF Retained, InFiles, InList
  <2> QED
    BY <2>2, <2>3, <2>4, <2>5
<1>4. CASE Loadable(line)
  <2> DEFINE e == taskFile[i]
             m == Len(list) + 1
  <2>1. /\ list' = Append(list, e)
        /\ e \in Entries /\ e.id = i /\ e.cron # "missing"
    BY <1>2, <1>4 DEF Loadable, TypeOK, Named
  <2> HIDE DEF e
  <2>2. /\ list' \in Seq(Entries) /\ m \in Nat /\ DOMAIN list' = 1 .. m
        /\ list'[m] = e
        /\ \A k \in DOMAIN list : k \in 1 .. m /\ k # m /\ list'[k] = list[k]
        /\ \A k \in 1 .. m : k # m => k \in DOMAIN list
    BY <2>1, ListFacts DEF TypeOK
  <2>3. \A k \in DOMAIN list : list[k].id # i
    <3> SUFFICES ASSUME NEW k \in DOMAIN list, list[k].id = i PROVE FALSE
      OBVIOUS
    <3>1. PICK j \in 1 .. next - 1 : list[k].id = cronLines[j].id
      BY DEF Read
    <3> QED
      BY <1>2, <3>1 DEF UniqueIds
  <2>4. TypeOK'
    BY <1>2, <2>2 DEF TypeOK
  <2>5. UniqueIds'
    BY <2>1, <2>2, <2>3 DEF UniqueIds
  <2>6. (Modes /\ Named /\ Written /\ LinesAcked)'
    BY DEF Modes, Named, Written, Storing, Ended, LinesAcked
  <2>7. Read'
    <3> SUFFICES ASSUME NEW k \in 1 .. m
                 PROVE  /\ list'[k].cron # "missing"
                        /\ \E j \in 1 .. next : list'[k].id = cronLines[j].id
      BY <1>2, <2>2 DEF Read
    <3>1. CASE k = m
      BY <1>2, <2>1, <2>2, <3>1
    <3>2. CASE k # m
      <4>1. k \in DOMAIN list /\ list'[k] = list[k]
        BY <2>2, <3>2
      <4> QED
        BY <1>2, <4>1 DEF Read
    <3> QED
      BY <3>1, <3>2
  <2>8. e # Torn /\ taskFile[i] = e
    BY <1>1, <2>1 DEF e
  <2>9. acked[i] = Unknown \/ acked[i] = e
    BY <1>1, <1>2, <2>8 DEF LinesAcked
  <2>10. ListAcked'
    <3> SUFFICES ASSUME NEW k \in 1 .. m
                 PROVE  \/ acked[list'[k].id] = Unknown
                        \/ /\ acked[list'[k].id] = list'[k]
                           /\ taskFile[list'[k].id] \in {list'[k], Torn}
      BY <2>2 DEF ListAcked
    <3>1. CASE k = m
      BY <2>1, <2>2, <2>8, <2>9, <3>1
    <3>2. CASE k # m
      <4>1. k \in DOMAIN list /\ list'[k] = list[k] /\ list[k].id # request
        BY <1>1, <2>2, <3>2, ListFacts
      <4> QED
        BY <4>1 DEF ListAcked
    <3> QED
      BY <3>1, <3>2
  <2>11. AckedBefore'
    BY <2>7 DEF AckedBefore, Read
  <2>12. Retained'
    <3> SUFFICES ASSUME ~interrupted, NEW n \in Ids, Kept(n)'
                 PROVE  /\ InFiles(n)'
                        /\ (\E k \in 1 .. next : cronLines[k].id = n) => InList(n)'
      BY <1>2 DEF Retained
    <3>1. Kept(n) /\ InFiles(n)
      BY <1>1 DEF Retained, Kept
    <3>2. CASE n = i
      BY <2>2, <2>8, <3>1, <3>2 DEF InFiles, InList
    <3>3. CASE n # i
      <4> SUFFICES ASSUME NEW k \in 1 .. next, cronLines[k].id = n
                   PROVE  InList(n)'
        BY <3>1 DEF InFiles
      <4>1. k \in 1 .. next - 1
        BY <1>2, <3>3
      <4>2. PICK j \in DOMAIN list : list[j] = acked[n]
        BY <3>1, <4>1 DEF Retained, InList
      <4> QED
        BY <2>2, <4>2 DEF InList
    <3> QED
      BY <3>2, <3>3, <3>1 DEF InFiles
  <2> QED
    BY <2>4, <2>5, <2>6, <2>7, <2>10, <2>11, <2>12
<1> QED
  BY <1>3, <1>4

LEMMA LoadDoneStep ==
  ASSUME IInv, LoadDone
  PROVE  IInv'
<1> USE DEF IInv, LoadDone, fileVars
<1>1. next = Len(cronLines) + 1 /\ DOMAIN cronLines = 1 .. next - 1
  BY ListFacts DEF Read, TypeOK
<1>2. TypeOK'
  BY DEF TypeOK
<1>3. (UniqueIds /\ Modes /\ Read /\ Named /\ Written)'
  BY DEF UniqueIds, Modes, Read, Named, Written, Storing, Ended
<1>4. (ListAcked /\ LinesAcked /\ AckedBefore)'
  BY DEF ListAcked, LinesAcked, AckedBefore
<1>5. Retained'
  <2> SUFFICES ASSUME ~interrupted, NEW i \in Ids, Kept(i)
               PROVE  InList(i)'
    BY DEF Retained, Kept
  <2>1. PICK k \in DOMAIN cronLines : cronLines[k] = Line(acked[i])
    BY DEF Retained, InFiles, Modes
  <2>2. cronLines[k].id = i
    BY <2>1 DEF Line, Kept, Named
  <2> QED
    BY <1>1, <2>2 DEF Retained, InList
<1> QED
  BY <1>2, <1>3, <1>4, <1>5

\* The process ends, with an exception or without: the list is gone.
LEMMA EndStep ==
  ASSUME IInv, LoadRaises \/ Crash
  PROVE  IInv'
<1> USE DEF IInv, LoadRaises, Crash, fileVars
<1>1. /\ list' = <<>> /\ list' \in Seq(Entries) /\ DOMAIN list' = {}
      /\ writing' = "no" /\ request' = NoEntry /\ phase' \in {"down", "raised"}
      /\ UNCHANGED <<cronLines, taskFile, next>>
  <2>1. <<>> \in Seq(Entries) /\ DOMAIN <<>> = {}
    BY EmptySeq
  <2>2. CASE LoadRaises
    BY <2>1, <2>2 DEF Modes
  <2>3. CASE Crash
    BY <2>1, <2>3 DEF Modes, TypeOK
  <2> QED
    BY <2>2, <2>3
<1>2. /\ NoEntry \notin Ids /\ NoEntry \notin Entries /\ Unknown \notin Entries
  BY MarksAssumption
<1>3. /\ \A i \in Ids : i # request => acked'[i] = acked[i]
      /\ request \in Ids => acked'[request] = Unknown
  BY <1>2 DEF Modes, TypeOK
<1>4. TypeOK'
  BY <1>1 DEF TypeOK
<1>5. (UniqueIds /\ Modes /\ Read /\ Written)'
  BY <1>1 DEF UniqueIds, Modes, Read, Written, Storing, Ended
<1>6. Named'
  BY <1>1, <1>2, <1>3 DEF Named, TypeOK
<1>7. (ListAcked /\ AckedBefore)'
  BY <1>1 DEF ListAcked, AckedBefore
<1>8. LinesAcked'
  BY <1>1, <1>2, <1>3, ListFacts DEF LinesAcked
<1>9. Retained'
  <2> SUFFICES ASSUME ~interrupted', NEW i \in Ids, Kept(i)'
               PROVE  InFiles(i)'
    BY <1>1 DEF Retained
  <2>1. ~interrupted /\ writing = "no" /\ request = NoEntry
    BY DEF Modes, TypeOK
  <2>2. Kept(i) /\ acked'[i] = acked[i]
    BY <1>2, <1>3, <2>1 DEF Kept
  <2> QED
    BY <1>1, <2>1, <2>2 DEF Retained, InFiles
<1> QED
  BY <1>4, <1>5, <1>6, <1>7, <1>8, <1>9

-----------------------------------------------------------------------------
(* The theorems                                                            *)

LEMMA Inductive ==
  ASSUME IInv, [Next]_vars
  PROVE  IInv'
<1>1. CASE UNCHANGED vars
  BY <1>1 DEF vars, fileVars, IInv, TypeOK, UniqueIds, Modes, Read, Named, Written,
              Storing, Ended, ListAcked, LinesAcked, AckedBefore, Retained, Kept,
              InList, InFiles
<1>2. CASE UpdateFile
  BY <1>2, TruncateStep, WriteLineStep, RaiseStep, OpenStep, DumpStep, CloseStep
     DEF UpdateFile
<1>3. CASE Construct
  BY <1>3, StartStep, LoadStep, LoadDoneStep, EndStep DEF Construct
<1> QED
  BY <1>1, <1>2, <1>3, AddStep, DelStep, EndStep DEF Next

\* update_file, the requests, the constructor and a crash at any point preserve
\* together what the list, the lines, the task files and the answers agree on.
THEOREM Invariance == Spec => []IInv
<1>1. Init => IInv
  <2> SUFFICES ASSUME Init PROVE IInv
    OBVIOUS
  <2>1. /\ list \in Seq(Entries) /\ cronLines \in Seq(Lines)
        /\ DOMAIN list = {} /\ DOMAIN cronLines = {}
    BY EmptySeq DEF Init
  <2> QED
    BY <2>1, MarksAssumption
       DEF Init, IInv, TypeOK, UniqueIds, Modes, Read, Named, Written, Storing,
           Ended, ListAcked, LinesAcked, AckedBefore, Retained, Kept
<1> QED
  BY <1>1, Inductive, PTL DEF Spec

\* Every variable of timed_task_set keeps its type.
THEOREM TypeCorrect == Spec => []TypeOK
<1>1. IInv => TypeOK
  BY DEF IInv
<1> QED
  BY <1>1, Invariance, PTL

\* add_timed_task and the constructor list no id twice, nor does the cron file.
THEOREM IdsUnique == Spec => []UniqueIds
<1>1. IInv => UniqueIds
  BY DEF IInv
<1> QED
  BY <1>1, Invariance, PTL

\* Whatever line cron reads, its file holds the task that the list holds.
THEOREM WholeFiles == Spec => []CronReadsWhole
<1>1. IInv => CronReadsWhole
  <2> SUFFICES ASSUME IInv, Storing, NEW k \in DOMAIN cronLines
               PROVE  /\ k <= Len(list) /\ cronLines[k] = Line(list[k])
                      /\ \/ taskFile[list[k].id] = list[k]
                         \/ k = Len(cronLines) /\ writing \in {"open", "dump"}
    BY DEF CronReadsWhole, Storing
  <2> QED
    BY ListFacts DEF IInv, Written
<1> QED
  BY <1>1, Invariance, PTL

\* No restart brings back what was deleted or replaced.
THEOREM NothingComesBack == Spec => []NoPhantom
<1>1. IInv => NoPhantom
  <2> SUFFICES ASSUME IInv, Idle, NEW k \in DOMAIN list
               PROVE  acked[list[k].id] \in {list[k], Unknown}
    BY DEF NoPhantom
  <2>1. list[k].id # request
    BY ListFacts, MarksAssumption DEF IInv, Idle, Modes
  <2> QED
    BY <2>1 DEF IInv, ListAcked
<1> QED
  BY <1>1, Invariance, PTL

\* What was answered and can be read back is in the list, unless a crash cut a
\* write of update_file short.
THEOREM Durability == Spec => []Durable
<1>1. IInv => Durable
  <2> SUFFICES ASSUME IInv, Idle, ~interrupted, NEW i \in Ids,
                      acked[i] \in Entries, acked[i].cron = "fields"
               PROVE  Held(i) = acked[i]
    BY DEF Durable
  <2>1. Kept(i)
    BY MarksAssumption DEF IInv, Idle, Modes, Kept
  <2>2. PICK k \in DOMAIN list : list[k] = acked[i]
    BY <2>1 DEF IInv, Idle, Retained, InList
  <2>3. list[k].id = i
    BY <2>2 DEF IInv, Named
  <2> QED
    BY <2>2, <2>3, HeldFacts DEF IInv
<1> QED
  BY <1>1, Invariance, PTL

\* Between two requests the files hold what the list holds.
THEOREM FilesFollow == Spec => []FilesUpdated
<1>1. IInv => FilesUpdated
  <2> SUFFICES ASSUME IInv, Idle, \A k \in DOMAIN list : list[k].cron # "missing"
               PROVE  /\ Len(cronLines) = Len(list)
                      /\ \A k \in DOMAIN list :
                           cronLines[k] = Line(list[k]) /\ taskFile[list[k].id] = list[k]
    BY DEF FilesUpdated
  <2>1. /\ Len(cronLines) \in Nat /\ Len(list) \in Nat /\ Len(cronLines) <= Len(list)
        /\ DOMAIN list = 1 .. Len(list)
        /\ Len(cronLines) < Len(list) => list[Len(cronLines) + 1].cron = "missing"
    BY ListFacts DEF IInv, Idle, Written, Storing
  <2>2. Len(cronLines) = Len(list)
    BY <2>1
  <2> QED
    BY <2>2, ListFacts DEF IInv, Idle, Written, Storing
<1> QED
  BY <1>1, Invariance, PTL

=============================================================================
