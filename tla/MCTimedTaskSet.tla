---------------------------- MODULE MCTimedTaskSet ----------------------------
(* Small instances of TimedTaskSet.                                        *)
EXTENDS TimedTaskSet, TLC

\* Ids and versions are compared for equality alone.  For configurations without
\* liveness only.
EntrySymmetry == Permutations(Ids) \cup Permutations(Versions)

=============================================================================
