----------------------------- MODULE AcceptOnce -----------------------------
(***************************************************************************)
(* What the single-use command acceptance of the browser server promises:  *)
(* a grant is handed out once, is spent at most once, and starts at most   *)
(* one job, which happens only after it has been spent.  A grant that has  *)
(* been voided (expired, cancelled, lost with its server) starts none.     *)
(***************************************************************************)
CONSTANTS Grants, Jobs, NoGrant

VARIABLES
    fate,    \* fate[g]: "new", "open", "spent", "run" or "void"
    startedBy  \* startedBy[j]: the grant that started job j

vars == <<fate, startedBy>>

Fate == {"new", "open", "spent", "run", "void"}

Init ==
    /\ fate = [g \in Grants |-> "new"]
    /\ startedBy = [j \in Jobs |-> NoGrant]

HandOut(g) ==
    /\ fate[g] = "new"
    /\ fate' = [fate EXCEPT ![g] = "open"]
    /\ UNCHANGED startedBy

Spend(g) ==
    /\ fate[g] = "open"
    /\ fate' = [fate EXCEPT ![g] = "spent"]
    /\ UNCHANGED startedBy

Run(g, j) ==
    /\ fate[g] = "spent"
    /\ startedBy[j] = NoGrant
    /\ fate' = [fate EXCEPT ![g] = "run"]
    /\ startedBy' = [startedBy EXCEPT ![j] = g]

\* Any number of grants that have started no job lose their force together.
Void ==
    /\ \E G \in SUBSET {g \in Grants : fate[g] \in {"open", "spent"}} :
          fate' = [g \in Grants |-> IF g \in G THEN "void" ELSE fate[g]]
    /\ UNCHANGED startedBy

Next ==
    \/ \E g \in Grants : HandOut(g) \/ Spend(g)
    \/ \E g \in Grants, j \in Jobs : Run(g, j)
    \/ Void

Spec == Init /\ [][Next]_vars
=============================================================================
