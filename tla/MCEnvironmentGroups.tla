------------------------ MODULE MCEnvironmentGroups ------------------------
(***************************************************************************)
(* Instances of EnvironmentGroups for TLC: two groups that share one run.  *)
(* The processes are interchangeable.                                      *)
(***************************************************************************)
EXTENDS EnvironmentGroups, TLC

CONSTANTS a, b

MCMemberships == {[g \in Groups |-> IF g = a THEN Runs ELSE {1}]}

Processes == Permutations(Procs)
=============================================================================
