---------------------------- MODULE SubscribedCall ----------------------------
(***************************************************************************)
(* location_speed_move and to_charge of device_mqtt.cpp, call after call   *)
(* on one thread, with stop() on another.  Each call makes a mos_obj and a *)
(* detached thread that subscribes to the reports of the robot, samples    *)
(* them into the inbox of the object, and deletes it once the call has     *)
(* marked it done.  All these threads give the broker the same client id,  *)
(* so that only the last one to connect is connected; libmosquitto makes   *)
(* the others connect again.                                               *)
(***************************************************************************)
EXTENDS ActionBody, FiniteSets

CONSTANTS
  Kind,                 \* "move" for location_speed_move, "charge" for to_charge
  Objects,              \* addresses for a mos_obj
  NoObject,
  InboxBound            \* no report is sampled into an inbox this long

ASSUME CallAssumption ==
  /\ Kind \in Stoppable
  /\ NoObject \notin Objects
  /\ InboxBound \in Nat

VARIABLES
  pc,                   \* where the call is; "idle" between two calls
  own,                  \* its object
  stopper,              \* where stop() is
  heap,                 \* of an address: "free", or a mos_obj in "use" or "done"
  inbox,                \* mos_obj::msg_queue: of each report, whether at rest
  recent,               \* too little time has passed since last_recv_time
  link                  \* the thread of an object and its connection

callVars == <<pc, own, stopper>>
objectVars == <<heap, inbox, recent, link>>
vars == <<deviceVars, callVars, objectVars>>

\* "dialing" is before the first connection, "lost" after one; a thread that got
\* none is over as "refused", one that has deleted its object as "none".
Live == {"dialing", "connected", "lost"}

TypeOK ==
  /\ DeviceTypeOK
  /\ pc \in {"idle", "publish", "subscribe", "loop", "pop", "done", "stopped"}
  /\ own \in Objects \cup {NoObject}
  /\ stopper \in {"idle", "halt", "request", "wait"}
  /\ heap \in [Objects -> {"free", "use", "done"}]
  /\ inbox \in [Objects -> Seq(BOOLEAN)]
  /\ recent \in [Objects -> BOOLEAN]
  /\ link \in [Objects -> Live \cup {"none", "refused"}]

Init ==
  /\ DeviceInit
  /\ pc = "idle"
  /\ own = NoObject
  /\ stopper = "idle"
  /\ heap = [o \in Objects |-> "free"]
  /\ inbox = [o \in Objects |-> <<>>]
  /\ recent = [o \in Objects |-> FALSE]
  /\ link = [o \in Objects |-> "none"]

-----------------------------------------------------------------------------
(* The call                                                                *)

\* As in ActionCall, no action begins while a stop waits for one.  Objects bounds
\* the calls: none begins when no address is left.
Begin ==
  /\ pc = "idle"
  /\ stopper = "idle"
  /\ \E o \in Objects : heap[o] = "free"
  /\ Enter(Kind)
  /\ pc' = "publish"
  /\ UNCHANGED <<own, stopper, objectVars>>

Command ==
  /\ pc = "publish"
  /\ Publish(Kind)
  /\ pc' = "subscribe"
  /\ UNCHANGED <<own, stopper, objectVars>>

\* new mos_obj and the std::thread that is detached.  last_recv_time is the
\* epoch, so that the first report is always sampled.
Subscribe(o) ==
  /\ pc = "subscribe"
  /\ heap[o] = "free"
  /\ own' = o
  /\ heap' = [heap EXCEPT ![o] = "use"]
  /\ inbox' = [inbox EXCEPT ![o] = <<>>]
  /\ recent' = [recent EXCEPT ![o] = FALSE]
  /\ link' = [link EXCEPT ![o] = "dialing"]
  /\ pc' = "loop"
  /\ UNCHANGED <<stopper, deviceVars>>

\* if (REQ_STOP == request): status is STOPPED before the object is done.
SeeStop ==
  /\ pc = "loop"
  /\ ReturnStopped(Kind)
  /\ pc' = "done"
  /\ UNCHANGED <<own, stopper, objectVars>>

\* Variant: the report is awaited whether or not a stop was requested.
LookAlways ==
  /\ pc = "loop"
  /\ bodyStatus = "RUNNING"
  /\ pc' = "pop"
  /\ UNCHANGED <<own, stopper, deviceVars, objectVars>>

\* No request: a report is awaited, but only while status is RUNNING.
Look ==
  /\ pc = "loop"
  /\ bodyRequest # "REQ_STOP"
  /\ bodyStatus = "RUNNING"
  /\ pc' = "pop"
  /\ UNCHANGED <<own, stopper, deviceVars, objectVars>>

\* Variant: posista is taken for its negation.
PopReportInverted ==
  /\ pc = "pop"
  /\ IF inbox[own] = <<>>
     THEN pc' = "loop" /\ UNCHANGED inbox
     ELSE /\ inbox' = [inbox EXCEPT ![own] = Tail(@)]
          /\ pc' = IF Head(inbox[own]) THEN "loop" ELSE "done"
  /\ UNCHANGED <<own, stopper, deviceVars, heap, recent, link>>

\* popTimeout: a report of the robot at rest ends the loop, another one or the
\* time leads back to the test of the request.
PopReport ==
  /\ pc = "pop"
  /\ IF inbox[own] = <<>>
     THEN pc' = "loop" /\ UNCHANGED inbox
     ELSE /\ inbox' = [inbox EXCEPT ![own] = Tail(@)]
          /\ pc' = IF Head(inbox[own]) THEN "done" ELSE "loop"
  /\ UNCHANGED <<own, stopper, deviceVars, heap, recent, link>>

\* object->done = true.
MarkDone ==
  /\ pc = "done"
  /\ heap' = [heap EXCEPT ![own] = "done"]
  /\ own' = NoObject
  /\ pc' = "stopped"
  /\ UNCHANGED <<stopper, deviceVars, inbox, recent, link>>

\* status = STOPPED, for the second time when a stop was seen, and the return.
Return ==
  /\ pc = "stopped"
  /\ bodyStatus' = "STOPPED"
  /\ pc' = "idle"
  /\ UNCHANGED <<own, stopper, bodyRequest, sendHeart, robotMoving, objectVars>>

CallStep ==
  \/ Begin \/ Command \/ (\E o \in Objects : Subscribe(o))
  \/ SeeStop \/ Look \/ PopReport \/ MarkDone \/ Return

-----------------------------------------------------------------------------
(* The thread of object o                                                  *)

\* The broker ends the connection of another client with the same id.
Connect(o) ==
  /\ link[o] \in {"dialing", "lost"}
  /\ link' = [p \in Objects |-> IF p = o THEN "connected"
                                ELSE IF link[p] = "connected" THEN "lost"
                                ELSE link[p]]
  /\ UNCHANGED <<deviceVars, callVars, heap, inbox, recent>>

\* mosquitto_subscribe_callback returns when its first connection fails: the
\* thread ends, and nobody deletes the object.
Refuse(o) ==
  /\ link[o] = "dialing"
  /\ link' = [link EXCEPT ![o] = "refused"]
  /\ UNCHANGED <<deviceVars, callVars, heap, inbox, recent>>

Drop(o) ==
  /\ link[o] = "connected"
  /\ link' = [link EXCEPT ![o] = "lost"]
  /\ UNCHANGED <<deviceVars, callVars, heap, inbox, recent>>

\* Variant: the callback returns 1 without a look at done.
ReportOnce(o) ==
  /\ link[o] = "connected"
  /\ inbox' = [inbox EXCEPT ![o] = Append(@, ~robotMoving)]
  /\ recent' = [recent EXCEPT ![o] = TRUE]
  /\ heap' = [heap EXCEPT ![o] = "free"]
  /\ link' = [link EXCEPT ![o] = "none"]
  /\ UNCHANGED <<deviceVars, callVars>>

\* Variant: an object that is done is not deleted.
ReportLeaks(o) ==
  /\ link[o] = "connected"
  /\ IF recent[o] \/ Len(inbox[o]) >= InboxBound
     THEN UNCHANGED <<inbox, recent>>
     ELSE /\ inbox' = [inbox EXCEPT ![o] = Append(@, ~robotMoving)]
          /\ recent' = [recent EXCEPT ![o] = TRUE]
  /\ link' = [link EXCEPT ![o] = IF heap[o] = "done" THEN "none" ELSE @]
  /\ UNCHANGED <<deviceVars, callVars, heap>>

\* The callback: a report is sampled, unless one was a moment ago, and an object
\* that is done is deleted.  libmosquitto gives a client that has asked to be
\* disconnected no other message.
Report(o) ==
  /\ link[o] = "connected"
  /\ IF recent[o] \/ Len(inbox[o]) >= InboxBound
     THEN UNCHANGED <<inbox, recent>>
     ELSE /\ inbox' = [inbox EXCEPT ![o] = Append(@, ~robotMoving)]
          /\ recent' = [recent EXCEPT ![o] = TRUE]
  /\ IF heap[o] = "done"
     THEN /\ heap' = [heap EXCEPT ![o] = "free"]
          /\ link' = [link EXCEPT ![o] = "none"]
     ELSE UNCHANGED <<heap, link>>
  /\ UNCHANGED <<deviceVars, callVars>>

Elapse(o) ==
  /\ recent[o]
  /\ link[o] \in Live
  /\ recent' = [recent EXCEPT ![o] = FALSE]
  /\ UNCHANGED <<deviceVars, callVars, heap, inbox, link>>

SubscriberStep(o) ==
  Connect(o) \/ Refuse(o) \/ Drop(o) \/ Report(o) \/ Elapse(o)

-----------------------------------------------------------------------------
(* stop(), and the robot                                                   *)

Stop ==
  /\ stopper = "idle"
  /\ IF bodyStatus = "RUNNING"
     THEN stopper' = "halt" /\ UNCHANGED deviceVars
     ELSE StopIdle /\ UNCHANGED stopper
  /\ UNCHANGED <<pc, own, objectVars>>

\* stop_move.
Halt ==
  /\ stopper = "halt"
  /\ Publish("halt")
  /\ stopper' = "request"
  /\ UNCHANGED <<pc, own, objectVars>>

\* request = REQ_STOP.
Request ==
  /\ stopper = "request"
  /\ bodyRequest' = "REQ_STOP"
  /\ stopper' = "wait"
  /\ UNCHANGED <<pc, own, bodyStatus, sendHeart, robotMoving, objectVars>>

\* Variant: stop does not wait for the call.
StoppedAtOnce ==
  /\ stopper = "wait"
  /\ bodyRequest' = "INIT"
  /\ stopper' = "idle"
  /\ UNCHANGED <<pc, own, bodyStatus, sendHeart, robotMoving, objectVars>>

\* while (status == RUNNING), left.
Stopped ==
  /\ stopper = "wait"
  /\ StopDone
  /\ stopper' = "idle"
  /\ UNCHANGED <<pc, own, objectVars>>

Rest == Arrive /\ UNCHANGED <<callVars, objectVars>>

-----------------------------------------------------------------------------

Next ==
  \/ CallStep
  \/ \E o \in Objects : SubscriberStep(o)
  \/ Stop \/ Halt \/ Request \/ Stopped
  \/ Rest

Spec == Init /\ [][Next]_vars

\* The two threads run: nothing is said of the broker and of the robot.
FairSpec ==
  /\ Spec
  /\ WF_vars(CallStep /\ ~Begin)
  /\ WF_vars(Halt \/ Request \/ Stopped)

\* A client that has lost its connection makes another, the robot comes to rest
\* and goes on to report, to each client that is connected time and again.
ReportFairness ==
  /\ WF_vars(Rest)
  /\ \A o \in Objects :
       WF_vars(Connect(o)) /\ WF_vars(Elapse(o)) /\ SF_vars(Report(o))

-----------------------------------------------------------------------------
(* Properties                                                              *)

\* The call uses only the object that it has made, and the callback only one that
\* it has not deleted: a thread that the broker has disconnected lives on, with
\* its object, after the call that started it and beside the next one's.
NoUseAfterDelete ==
  /\ pc \in {"loop", "pop", "done"} => own \in Objects /\ heap[own] = "use"
  /\ \A o \in Objects : link[o] \in Live => heap[o] # "free"

\* device_mqtt.cpp:162, the pop has a time "to answer a stop request in time": stop
\* returns, even if the robot never reports again and the broker is away.
StopReturns == stopper # "idle" ~> stopper = "idle"

\* device_mqtt.cpp:119, the call returns when the position mode is over, unless its
\* thread got no connection: although an earlier call's thread may live and
\* takes the connection from this one's.
CallReturns ==
  ReportFairness =>
    \A o \in Objects :
      own = o ~> own # o \/ link[o] = "refused"

\* No object is left once its call is over, unless its thread got no connection.
ObjectsFreed ==
  ReportFairness =>
    \A o \in Objects : heap[o] = "done" ~> heap[o] = "free" \/ link[o] = "refused"

\* The detail is hidden from the task: to SmartService, which has the steps of
\* ActionCall, the call is over with the first status = STOPPED, and the request
\* is made with the publication of stop_move.
Call == INSTANCE ActionCall WITH
  bodyRequest <- IF stopper = "request" THEN "REQ_STOP" ELSE bodyRequest,
  caller <- IF pc \in {"idle", "publish"} THEN pc
            ELSE IF bodyStatus = "RUNNING" THEN "acting" ELSE "idle",
  stopper <- IF stopper = "halt" THEN "request"
             ELSE IF stopper = "request" THEN "wait" ELSE stopper

ImplementsCall == Call!Spec

-----------------------------------------------------------------------------
(* The inductive invariant                                                 *)

\* status follows the call, and the robot is at rest once a report said so.
Running ==
  /\ pc \in {"publish", "subscribe", "loop", "pop"} => bodyStatus = "RUNNING"
  /\ pc = "idle" => bodyStatus = "STOPPED"
  /\ pc \in {"done", "stopped"} /\ bodyStatus = "RUNNING" => ~robotMoving

\* Between "subscribe" and "done" the call's object says at rest only if the robot is.
Sampled ==
  pc \in {"loop", "pop"} =>
    \A k \in DOMAIN inbox[own] : inbox[own][k] => ~robotMoving

IInv == TypeOK /\ NoUseAfterDelete /\ Running /\ Sampled

=============================================================================
