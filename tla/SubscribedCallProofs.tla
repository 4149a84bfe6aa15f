-------------------------- MODULE SubscribedCallProofs --------------------------
(***************************************************************************)
(* For any number of objects at the same time: no object is used after it  *)
(* is deleted, and the threads, objects and connections of a call implement *)
(* the call that SmartService sees.                                        *)
(***************************************************************************)
EXTENDS SubscribedCall, SequenceTheorems, TLAPS

-----------------------------------------------------------------------------

LEMMA Initial == Init => IInv
<1> SUFFICES ASSUME Init PROVE IInv
  OBVIOUS
<1>1. inbox \in [Objects -> Seq(BOOLEAN)]
  BY EmptySeq DEF Init
<1>2. TypeOK
  BY <1>1 DEF Init, TypeOK, DeviceInit, DeviceTypeOK, Live
<1>3. NoUseAfterDelete /\ Running /\ Sampled
  BY DEF Init, DeviceInit, NoUseAfterDelete, Running, Sampled, Live
<1> QED
  BY <1>2, <1>3 DEF IInv

\* The kinds of call this module is about make the robot move and wait for it.
LEMMA KindFacts == Kind \in {"move", "charge"} /\ Kind \in Blocking /\ Kind # "halt"
  BY CallAssumption DEF Stoppable, Blocking

\* A queue of reports after one is taken or sampled.
LEMMA InboxFacts ==
  ASSUME NEW s \in Seq(BOOLEAN)
  PROVE  /\ s # <<>> => /\ Head(s) \in BOOLEAN /\ Tail(s) \in Seq(BOOLEAN)
                        /\ 1 \in DOMAIN s /\ Head(s) = s[1]
                        /\ \A k \in DOMAIN Tail(s) : k + 1 \in DOMAIN s /\ Tail(s)[k] = s[k + 1]
         /\ \A b \in BOOLEAN :
              /\ Append(s, b) \in Seq(BOOLEAN)
              /\ \A k \in DOMAIN Append(s, b) :
                   \/ k \in DOMAIN s /\ Append(s, b)[k] = s[k]
                   \/ Append(s, b)[k] = b
<1>1. /\ Len(s) \in Nat /\ DOMAIN s = 1 .. Len(s)
      /\ s # <<>> => Len(s) # 0
  BY LenProperties, EmptySeq
<1>2. s # <<>> => /\ Head(s) \in BOOLEAN /\ Tail(s) \in Seq(BOOLEAN)
                  /\ Len(Tail(s)) = Len(s) - 1
                  /\ \A k \in 1 .. Len(Tail(s)) : Tail(s)[k] = s[k + 1]
  BY HeadTailProperties
<1>3. s # <<>> => DOMAIN Tail(s) = 1 .. Len(Tail(s))
  BY <1>2, LenProperties
<1>4. s # <<>> => Head(s) = s[1]
  OBVIOUS
<1>5. ASSUME NEW b \in BOOLEAN
      PROVE  /\ Append(s, b) \in Seq(BOOLEAN)
             /\ DOMAIN Append(s, b) = 1 .. Len(s) + 1
             /\ \A k \in 1 .. Len(s) : Append(s, b)[k] = s[k]
             /\ Append(s, b)[Len(s) + 1] = b
  <2>1. Append(s, b) \in Seq(BOOLEAN) /\ Len(Append(s, b)) = Len(s) + 1
    BY AppendProperties
  <2> QED
    BY <2>1, AppendProperties, LenProperties
<1>6. \A k \in 1 .. Len(s) + 1 : k \in 1 .. Len(s) \/ k = Len(s) + 1
  BY <1>1
<1>7. s # <<>> => /\ 1 \in DOMAIN s
                  /\ \A k \in DOMAIN Tail(s) : k + 1 \in DOMAIN s
  BY <1>1, <1>2, <1>3
<1> QED
  BY <1>1, <1>2, <1>3, <1>4, <1>5, <1>6, <1>7

-----------------------------------------------------------------------------
(* The steps of the call                                                   *)

LEMMA BeginStep == IInv /\ (Begin \/ Command) => IInv'
<1> SUFFICES ASSUME IInv, Begin \/ Command PROVE IInv'
  OBVIOUS
<1> USE DEF IInv
<1>1. /\ UNCHANGED <<own, stopper, objectVars>>
      /\ pc' \in {"publish", "subscribe"}
      /\ bodyStatus' = "RUNNING"
      /\ bodyRequest' = bodyRequest /\ sendHeart' \in BOOLEAN /\ robotMoving' \in BOOLEAN
  BY KindFacts
     DEF Begin, Command, Enter, Publish, TypeOK, DeviceTypeOK, Running
<1>2. TypeOK'
  BY <1>1 DEF TypeOK, DeviceTypeOK, objectVars
<1> QED
  BY <1>1, <1>2 DEF NoUseAfterDelete, Running, Sampled, objectVars

LEMMA SubscribeStep ==
  ASSUME IInv, NEW o \in Objects, Subscribe(o)
  PROVE  IInv'
<1> USE DEF IInv
<1>1. inbox' \in [Objects -> Seq(BOOLEAN)] /\ inbox'[o] = <<>>
  BY EmptySeq DEF Subscribe, TypeOK
<1>2. TypeOK'
  BY <1>1 DEF Subscribe, TypeOK, DeviceTypeOK, deviceVars, Live
<1>3. NoUseAfterDelete'
  BY DEF Subscribe, TypeOK, NoUseAfterDelete, Live
<1>4. Running'
  BY DEF Subscribe, Running, deviceVars
<1>5. Sampled'
  BY <1>1, EmptySeq DEF Subscribe, Sampled
<1> QED
  BY <1>2, <1>3, <1>4, <1>5

LEMMA LoopStep == IInv /\ (SeeStop \/ Look) => IInv'
<1> SUFFICES ASSUME IInv, SeeStop \/ Look PROVE IInv'
  OBVIOUS
<1> USE DEF IInv
<1>1. /\ UNCHANGED <<own, stopper, objectVars, bodyRequest, sendHeart, robotMoving>>
      /\ pc = "loop"
      /\ \/ pc' = "done" /\ bodyStatus' = "STOPPED"
         \/ pc' = "pop" /\ bodyStatus' = bodyStatus
  BY DEF SeeStop, Look, ReturnStopped, deviceVars
<1>2. TypeOK'
  BY <1>1 DEF TypeOK, DeviceTypeOK, objectVars
<1> QED
  BY <1>1, <1>2 DEF NoUseAfterDelete, Running, Sampled, objectVars

\* A report in the call's own inbox that says at rest is true when it is taken.
LEMMA PopStep == IInv /\ PopReport => IInv'
<1> SUFFICES ASSUME IInv, PopReport PROVE IInv'
  OBVIOUS
<1> USE DEF IInv
<1>1. own \in Objects /\ inbox[own] \in Seq(BOOLEAN) /\ pc = "pop"
  BY DEF PopReport, NoUseAfterDelete, TypeOK
<1>2. UNCHANGED <<own, stopper, deviceVars, heap, recent, link>>
  BY DEF PopReport
<1>3. CASE inbox[own] = <<>>
  <2>1. pc' = "loop" /\ UNCHANGED inbox
    BY <1>3 DEF PopReport
  <2> QED
    BY <1>1, <1>2, <2>1
       DEF TypeOK, DeviceTypeOK, deviceVars, NoUseAfterDelete, Running, Sampled
<1>4. CASE inbox[own] # <<>>
  <2>1. /\ inbox' = [inbox EXCEPT ![own] = Tail(inbox[own])]
        /\ pc' = IF Head(inbox[own]) THEN "done" ELSE "loop"
    BY <1>4 DEF PopReport
  <2>2. /\ Tail(inbox[own]) \in Seq(BOOLEAN)
        /\ 1 \in DOMAIN inbox[own] /\ Head(inbox[own]) = inbox[own][1]
        /\ \A k \in DOMAIN Tail(inbox[own]) :
             k + 1 \in DOMAIN inbox[own] /\ Tail(inbox[own])[k] = inbox[own][k + 1]
    BY <1>1, <1>4, InboxFacts
  <2>3. \A k \in DOMAIN inbox[own] : inbox[own][k] => ~robotMoving
    BY <1>1 DEF Sampled
  <2>4. inbox' \in [Objects -> Seq(BOOLEAN)] /\ inbox'[own] = Tail(inbox[own])
    BY <1>1, <2>1, <2>2 DEF TypeOK
  <2>5. pc' \in {"done", "loop"}
    BY <2>1
  <2>6. pc' = "done" => ~robotMoving
    BY <2>1, <2>2, <2>3
  <2>7. TypeOK'
    BY <1>2, <2>4, <2>5 DEF TypeOK, DeviceTypeOK, deviceVars
  <2>8. NoUseAfterDelete'
    BY <1>1, <1>2, <2>5 DEF NoUseAfterDelete
  <2>9. Running'
    BY <1>1, <1>2, <2>5, <2>6 DEF Running, deviceVars
  <2>10. Sampled'
    BY <1>2, <2>2, <2>3, <2>4 DEF Sampled, deviceVars
  <2> QED
    BY <2>7, <2>8, <2>9, <2>10
<1> QED
  BY <1>3, <1>4

LEMMA MarkDoneStep == IInv /\ MarkDone => IInv'
<1> SUFFICES ASSUME IInv, MarkDone PROVE IInv'
  OBVIOUS
<1> USE DEF IInv
<1>1. TypeOK'
  BY DEF MarkDone, TypeOK, DeviceTypeOK, deviceVars
<1>2. NoUseAfterDelete'
  BY DEF MarkDone, TypeOK, NoUseAfterDelete
<1> QED
  BY <1>1, <1>2 DEF MarkDone, Running, Sampled, deviceVars

LEMMA ReturnStep == IInv /\ Return => IInv'
<1> SUFFICES ASSUME IInv, Return PROVE IInv'
  OBVIOUS
<1> USE DEF IInv
<1>1. TypeOK'
  BY DEF Return, TypeOK, DeviceTypeOK, objectVars
<1> QED
  BY <1>1 DEF Return, NoUseAfterDelete, Running, Sampled, objectVars

-----------------------------------------------------------------------------
(* The steps of the threads of the objects                                 *)

\* Connections come and go without a change of the objects.
LEMMA LinkStep ==
  ASSUME IInv, NEW o \in Objects, Connect(o) \/ Refuse(o) \/ Drop(o) \/ Elapse(o)
  PROVE  IInv'
<1> USE DEF IInv
<1>1. /\ UNCHANGED <<deviceVars, callVars, heap, inbox>>
      /\ recent' \in [Objects -> BOOLEAN]
      /\ link' \in [Objects -> Live \cup {"none", "refused"}]
      /\ \A p \in Objects : link'[p] \in Live => link[p] \in Live
  BY DEF Connect, Refuse, Drop, Elapse, TypeOK, Live
<1>2. TypeOK'
  BY <1>1 DEF TypeOK, DeviceTypeOK, deviceVars, callVars
<1> QED
  BY <1>1, <1>2 DEF NoUseAfterDelete, Running, Sampled, deviceVars, callVars

LEMMA ReportStep ==
  ASSUME IInv, NEW o \in Objects, Report(o)
  PROVE  IInv'
<1> USE DEF IInv
<1>1. UNCHANGED <<deviceVars, callVars>>
  BY DEF Report
<1>2. inbox[o] \in Seq(BOOLEAN) /\ (~robotMoving) \in BOOLEAN
  BY DEF TypeOK
<1>3. /\ recent' \in [Objects -> BOOLEAN]
      /\ \/ inbox' = inbox
         \/ inbox' = [inbox EXCEPT ![o] = Append(inbox[o], ~robotMoving)]
  BY DEF Report, TypeOK
<1>4. /\ inbox' \in [Objects -> Seq(BOOLEAN)]
      /\ \A p \in Objects : \A k \in DOMAIN inbox'[p] :
           \/ k \in DOMAIN inbox[p] /\ inbox'[p][k] = inbox[p][k]
           \/ inbox'[p][k] = ~robotMoving
  <2>1. CASE inbox' = inbox
    BY <2>1 DEF TypeOK
  <2>2. CASE inbox' = [inbox EXCEPT ![o] = Append(inbox[o], ~robotMoving)]
    <3>1. /\ Append(inbox[o], ~robotMoving) \in Seq(BOOLEAN)
          /\ \A k \in DOMAIN Append(inbox[o], ~robotMoving) :
               \/ /\ k \in DOMAIN inbox[o]
                  /\ Append(inbox[o], ~robotMoving)[k] = inbox[o][k]
               \/ Append(inbox[o], ~robotMoving)[k] = ~robotMoving
      BY <1>2, InboxFacts
    <3>2. /\ inbox'[o] = Append(inbox[o], ~robotMoving)
          /\ \A p \in Objects \ {o} : inbox'[p] = inbox[p]
      BY <2>2 DEF TypeOK
    <3>3. inbox' \in [Objects -> Seq(BOOLEAN)]
      BY <2>2, <3>1 DEF TypeOK
    <3> QED
      BY <3>1, <3>2, <3>3
  <2> QED
    BY <1>3, <2>1, <2>2
<1>5. /\ heap' \in [Objects -> {"free", "use", "done"}]
      /\ link' \in [Objects -> Live \cup {"none", "refused"}]
      /\ \A p \in Objects : heap[p] = "use" => heap'[p] = "use"
      /\ \A p \in Objects :
           link'[p] \in Live => link[p] \in Live /\ heap'[p] = heap[p]
  BY DEF Report, TypeOK, Live
<1>6. TypeOK'
  BY <1>1, <1>3, <1>4, <1>5 DEF TypeOK, DeviceTypeOK, deviceVars, callVars
<1>7. NoUseAfterDelete'
  BY <1>1, <1>5 DEF NoUseAfterDelete, callVars
<1>8. Running'
  BY <1>1 DEF Running, deviceVars, callVars
<1>9. Sampled'
  <2> SUFFICES ASSUME pc \in {"loop", "pop"}, NEW k \in DOMAIN inbox'[own], inbox'[own][k]
               PROVE  ~robotMoving
    BY <1>1 DEF Sampled, deviceVars, callVars
  <2>1. own \in Objects
    BY DEF NoUseAfterDelete
  <2> QED
    BY <2>1, <1>4 DEF Sampled
<1> QED
  BY <1>6, <1>7, <1>8, <1>9

-----------------------------------------------------------------------------
(* The steps of stop and of the robot                                      *)

LEMMA StopStep == IInv /\ (Stop \/ Request \/ Stopped) => IInv'
<1> SUFFICES ASSUME IInv, Stop \/ Request \/ Stopped PROVE IInv'
  OBVIOUS
<1> USE DEF IInv
<1>1. /\ UNCHANGED <<pc, own, objectVars, bodyStatus, sendHeart, robotMoving>>
      /\ bodyRequest' \in {"INIT", "REQ_STOP"}
      /\ stopper' \in {"idle", "halt", "request", "wait"}
  BY DEF Stop, Request, Stopped, StopIdle, StopDone, deviceVars, TypeOK, DeviceTypeOK
<1>2. TypeOK'
  BY <1>1 DEF TypeOK, DeviceTypeOK, objectVars
<1> QED
  BY <1>1, <1>2 DEF NoUseAfterDelete, Running, Sampled, objectVars

LEMMA RestStep == IInv /\ (Halt \/ Rest) => IInv'
<1> SUFFICES ASSUME IInv, Halt \/ Rest PROVE IInv'
  OBVIOUS
<1> USE DEF IInv
<1>1. /\ UNCHANGED <<pc, own, objectVars, bodyStatus, bodyRequest>>
      /\ robotMoving' = FALSE /\ sendHeart' \in BOOLEAN
      /\ stopper' \in {"idle", "halt", "request", "wait"}
  BY DEF Halt, Rest, Arrive, Publish, callVars, TypeOK, DeviceTypeOK
<1>2. TypeOK'
  BY <1>1 DEF TypeOK, DeviceTypeOK, objectVars
<1> QED
  BY <1>1, <1>2 DEF NoUseAfterDelete, Running, Sampled, objectVars

LEMMA Inductive == IInv /\ [Next]_vars => IInv'
<1> SUFFICES ASSUME IInv, [Next]_vars PROVE IInv'
  OBVIOUS
<1>1. CASE CallStep
  BY <1>1, BeginStep, SubscribeStep, LoopStep, PopStep, MarkDoneStep, ReturnStep
     DEF CallStep
<1>2. ASSUME NEW o \in Objects, SubscriberStep(o) PROVE IInv'
  BY <1>2, LinkStep, ReportStep DEF SubscriberStep
<1>3. CASE Stop \/ Halt \/ Request \/ Stopped \/ Rest
  BY <1>3, StopStep, RestStep
<1>4. CASE UNCHANGED vars
  BY <1>4 DEF vars, deviceVars, callVars, objectVars, IInv, TypeOK, DeviceTypeOK,
              NoUseAfterDelete, Running, Sampled
<1> QED
  BY <1>1, <1>2, <1>3, <1>4 DEF Next

\* The invariant that the others follow from: an object in use belongs to the one
\* call, one that is done to its thread, and a report at rest is still true.
THEOREM Invariance == Spec => []IInv
  BY Initial, Inductive, PTL DEF Spec

THEOREM CallTyped == Spec => []TypeOK
<1>1. IInv => TypeOK
  BY DEF IInv
<1> QED
  BY <1>1, Invariance, PTL

\* mos_obj: the call and the subscriber's callback never use an object that the
\* callback has deleted, however many threads of earlier calls still live.
THEOREM Lifetimes == Spec => []NoUseAfterDelete
<1>1. IInv => NoUseAfterDelete
  BY DEF IInv
<1> QED
  BY <1>1, Invariance, PTL

-----------------------------------------------------------------------------
(* The refinement                                                          *)

\* The values that the call has in ActionCall.
requestBar == IF stopper = "request" THEN "REQ_STOP" ELSE bodyRequest
callerBar ==
  IF pc \in {"idle", "publish"} THEN pc
  ELSE IF bodyStatus = "RUNNING" THEN "acting" ELSE "idle"
stopperBar ==
  IF stopper = "halt" THEN "request" ELSE IF stopper = "request" THEN "wait" ELSE stopper

barVars == <<bodyStatus, requestBar, sendHeart, robotMoving, callerBar, stopperBar>>

LEMMA BarVars == UNCHANGED barVars => UNCHANGED Call!vars
  BY DEF barVars, requestBar, callerBar, stopperBar, Call!vars, Call!deviceVars

LEMMA InitMaps == Init => Call!Init
  BY DEF Init, DeviceInit, Call!Init, Call!DeviceInit

\* One step for each that ActionCall has; every other leaves its variables alone.
LEMMA CallMaps == IInv /\ CallStep => [Call!Next]_(Call!vars)
<1> SUFFICES ASSUME IInv, CallStep PROVE [Call!Next]_(Call!vars)
  OBVIOUS
<1> USE KindFacts
<1>1. CASE Begin
  <2>1. Call!Begin
    BY <1>1 DEF Begin, Call!Begin, Enter, Call!Enter, Blocking, Call!Blocking
  <2> QED
    BY <2>1 DEF Call!Next
<1>2. CASE Command
  <2>1. Call!Command
    BY <1>2 DEF Command, Call!Command, Publish, Call!Publish, IInv, Running
  <2> QED
    BY <2>1 DEF Call!Next
<1>3. ASSUME NEW o \in Objects, Subscribe(o) PROVE UNCHANGED barVars
  BY <1>3 DEF Subscribe, barVars, requestBar, callerBar, stopperBar, deviceVars
<1>4. CASE SeeStop
  <2>1. Call!End
    BY <1>4 DEF SeeStop, ReturnStopped, Call!End, Call!ReturnStopped,
                Stoppable, Call!Stoppable, IInv, Running
  <2> QED
    BY <2>1 DEF Call!Next
<1>5. CASE Look \/ PopReport \/ MarkDone
  <2>1. UNCHANGED <<deviceVars, stopper>>
    BY <1>5 DEF Look, PopReport, MarkDone
  <2>2. callerBar' = callerBar
    BY <1>5, <2>1 DEF Look, PopReport, MarkDone, callerBar, deviceVars
  <2> QED
    BY <2>1, <2>2, BarVars DEF barVars, requestBar, stopperBar, deviceVars
<1>6. CASE Return
  <2>1. CASE bodyStatus = "RUNNING"
    <3>1. Call!End
      BY <1>6, <2>1 DEF Return, Call!End, Call!ReturnReported,
                        Stoppable, Call!Stoppable, IInv, Running
    <3> QED
      BY <3>1 DEF Call!Next
  <2>2. CASE bodyStatus # "RUNNING"
    <3>1. UNCHANGED barVars
      BY <1>6, <2>2 DEF Return, barVars, requestBar, callerBar, stopperBar,
                        IInv, TypeOK, DeviceTypeOK
    <3> QED
      BY <3>1, BarVars
  <2> QED
    BY <2>1, <2>2
<1> QED
  BY <1>1, <1>2, <1>3, <1>4, <1>5, <1>6, BarVars DEF CallStep

\* stop_move comes to the robot with the request of ActionCall.
LEMMA StopMaps ==
  IInv /\ (Stop \/ Halt \/ Request \/ Stopped \/ Rest) => [Call!Next]_(Call!vars)
<1> SUFFICES ASSUME IInv, Stop \/ Halt \/ Request \/ Stopped \/ Rest
             PROVE  [Call!Next]_(Call!vars)
  OBVIOUS
<1>1. CASE Stop
  <2>1. Call!Stop
    BY <1>1 DEF Stop, Call!Stop, StopIdle, Call!StopIdle, deviceVars, Call!deviceVars
  <2> QED
    BY <2>1 DEF Call!Next
<1>2. CASE Halt
  <2>1. Call!Request
    BY <1>2 DEF Halt, Publish, Call!Request, Call!StopRequest
  <2> QED
    BY <2>1 DEF Call!Next
<1>3. CASE Request
  <2>1. UNCHANGED barVars
    BY <1>3 DEF Request, barVars, requestBar, callerBar, stopperBar
  <2> QED
    BY <2>1, BarVars
<1>4. CASE Stopped
  <2>1. Call!Stopped
    BY <1>4 DEF Stopped, StopDone, Call!Stopped, Call!StopDone
  <2> QED
    BY <2>1 DEF Call!Next
<1>5. CASE Rest
  <2>1. Call!Rest
    BY <1>5 DEF Rest, Arrive, callVars, Call!Rest, Call!Arrive
  <2> QED
    BY <2>1 DEF Call!Next
<1> QED
  BY <1>1, <1>2, <1>3, <1>4, <1>5

\* The subscribers and their connections are invisible to the caller.
LEMMA SubscriberMaps ==
  ASSUME NEW o \in Objects, SubscriberStep(o)
  PROVE  UNCHANGED Call!vars
<1>1. UNCHANGED <<deviceVars, callVars>>
  BY DEF SubscriberStep, Connect, Refuse, Drop, Report, Elapse
<1> QED
  BY <1>1, BarVars
     DEF barVars, requestBar, callerBar, stopperBar, deviceVars, callVars

\* location_speed_move, to_charge and stop, with the threads that carry the reports,
\* behave like the call and the stop that SmartService is made of.
THEOREM Refinement == Spec => ImplementsCall
<1>1. IInv /\ [Next]_vars => [Call!Next]_(Call!vars)
  <2> SUFFICES ASSUME IInv, [Next]_vars PROVE [Call!Next]_(Call!vars)
    OBVIOUS
  <2>1. CASE UNCHANGED vars
    <3>1. UNCHANGED barVars
      BY <2>1 DEF vars, deviceVars, callVars, barVars, requestBar, callerBar, stopperBar
    <3> QED
      BY <3>1, BarVars
  <2> QED
    BY <2>1, CallMaps, StopMaps, SubscriberMaps DEF Next
<1> QED
  BY <1>1, InitMaps, Invariance, PTL DEF Spec, ImplementsCall, Call!Spec

=============================================================================
