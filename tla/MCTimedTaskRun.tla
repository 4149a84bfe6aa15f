---------------------------- MODULE MCTimedTaskRun ----------------------------
(* Small instances of TimedTaskRun: tasks of one plain action that may run   *)
(* twice, in three versions: the second of a higher priority, the third      *)
(* without executed_count.                                                   *)
EXTENDS TimedTaskRun, TLC

MCTasks ==
  [id : Ids, version : {1, 2}, count : 0 .. 2] \cup [id : Ids, version : {3}, count : {0}]

MCId == [t \in Tasks |-> t.id]
MCVersion == [t \in Tasks |-> t.version]
MCHasCount == [t \in Tasks |-> t.version # 3]
MCPriority == [t \in Tasks |-> IF t.version = 2 THEN 2 ELSE 1]
MCMaxCount == [t \in Tasks |-> 2]
MCExecutedCount == [t \in Tasks |-> t.count]
MCActionList == [t \in Tasks |-> <<"plain">>]

\* For configurations without liveness only.
TimedSymmetry == Permutations(Runners) \cup Permutations(Ids)

=============================================================================
