----------------------------- MODULE TaskLifecycle -----------------------------
(***************************************************************************)
(* What the service promises about its current task, without threads,      *)
(* mutexes, requests or messages: the phases of the comment on task's enum *)
(* (start, paused, executing, over), when the robot may be acting, and how *)
(* the number of runs is limited.  SmartService implements it.             *)
(***************************************************************************)
EXTENDS Naturals

VARIABLES
  phase,                \* of the current task, CANCEL until it is over
  acting,               \* the robot is executing an action of the task
  count,                \* the runs of the task begun or refused
  limit                 \* the runs it is allowed

vars == <<phase, acting, count, limit>>

TypeOK ==
  /\ phase \in {"INIT", "PAUSE", "EXECING", "CANCEL", "END"}
  /\ acting \in BOOLEAN
  /\ count \in Nat
  /\ limit \in Nat

Init ==
  /\ phase = "INIT"
  /\ acting = FALSE
  /\ count = 0
  /\ limit = 0

\* No phase but these two lets a run begin or another task come in.
AtRest == phase \in {"INIT", "END"}

\* Another task, which may be run at least once.
Replace ==
  /\ AtRest
  /\ phase' = "INIT"
  /\ count' \in Nat
  /\ limit' \in Nat
  /\ count' < limit'
  /\ UNCHANGED acting

Count ==
  /\ AtRest
  /\ count' = count + 1
  /\ UNCHANGED <<phase, acting, limit>>

Begin ==
  /\ AtRest
  /\ count <= limit
  /\ phase' = "EXECING"
  /\ UNCHANGED <<acting, count, limit>>

Refuse ==
  /\ AtRest
  /\ count > limit
  /\ phase' = "END"
  /\ UNCHANGED <<acting, count, limit>>

StartAction ==
  /\ phase = "EXECING"
  /\ ~acting
  /\ acting' = TRUE
  /\ UNCHANGED <<phase, count, limit>>

EndAction ==
  /\ acting
  /\ acting' = FALSE
  /\ UNCHANGED <<phase, count, limit>>

\* The phase changes between two actions, never during one.
Move(from, to) ==
  /\ phase \in from
  /\ ~acting
  /\ phase' = to
  /\ UNCHANGED <<acting, count, limit>>

Pause == Move({"EXECING"}, "PAUSE")
Resume == Move({"PAUSE"}, "EXECING")
Cancel == Move({"EXECING", "PAUSE"}, "CANCEL")
End == Move({"EXECING", "CANCEL"}, "END")

Next ==
  \/ Replace \/ Count \/ Begin \/ Refuse
  \/ StartAction \/ EndAction
  \/ Pause \/ Resume \/ Cancel \/ End

Spec == Init /\ [][Next]_vars

=============================================================================
