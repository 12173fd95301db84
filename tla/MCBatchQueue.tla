---------------------------- MODULE MCBatchQueue ----------------------------
(***************************************************************************)
(* Instances of BatchQueue for TLC: a shared Hyper-V template, a slot that *)
(* depends on it, and a container.                                         *)
(***************************************************************************)
EXTENDS BatchQueue, TLC, Functions

CONSTANTS template, slot, container

PerOp(forTemplate, forSlot, forContainer) ==
    Restrict(template :> forTemplate @@ slot :> forSlot @@ container :> forContainer, Ops)

\* resolve-artifact; create, start, windows-user-action, complete; create, complete.
MCPlan == PerOp(<<"Artifact">>, <<"Action", "Action", "UserAction", "Action">>,
                <<"Action", "Action">>)
MCDeps == PerOp({}, {template}, {})
MCLocks == PerOp({"catalog"}, {"environment"}, {"environment"})
MCClass == PerOp("HyperVHeavy", "HyperVHeavy", "RuntimeNormal")
MCCreated == PerOp(1, 2, 3)
=============================================================================
