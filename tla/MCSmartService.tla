---------------------------- MODULE MCSmartService ----------------------------
(***************************************************************************)
(* Small instances of SmartService: a table of "start" messages from which *)
(* each configuration takes the ones its question needs.                   *)
(***************************************************************************)
EXTENDS ServiceClaims, TLC

LOCAL Start(priority, max, list) ==
  [priority |-> priority, max |-> max, list |-> list]

\* "again" may be run twice; "badPriority" is
\* refused by from_json; "empty" has no action at all.
StartMessages ==
  [patrol      |-> Start(1, 1, <<"move", "plain">>),
   urgent      |-> Start(2, 1, <<"move">>),
   again       |-> Start(1, 2, <<"plain">>),
   empty       |-> Start(1, 1, <<>>),
   badPriority |-> Start(-1, 1, <<"plain">>),
   dock        |-> Start(1, 1, <<"charge", "plain">>),
   drive       |-> Start(1, 1, <<"speed", "plain", "halt">>),
   broken      |-> Start(1, 1, <<"malformed">>),
   noSuchCode  |-> Start(1, 1, <<"unknown", "plain">>)]

MCPriority == [t \in Tasks |-> StartMessages[t].priority]
MCMaxCount == [t \in Tasks |-> StartMessages[t].max]
MCExecutedCount == [t \in Tasks |-> 0]
MCActionList == [t \in Tasks |-> StartMessages[t].list]

\* The threads are interchangeable.  For configurations without liveness only.
RunnerSymmetry == Permutations(Runners)

=============================================================================
