------------------------------ MODULE StepLog ------------------------------
(***************************************************************************)
(* What the batch queue promises about the steps of an operation, whatever *)
(* happens to its files, its processes and the commands in between: steps  *)
(* are completed in the order of the plan, none is left out, and an        *)
(* operation is completed only with its last step.  A step may be          *)
(* completed again after a crash.                                          *)
(***************************************************************************)
EXTENDS Naturals, Sequences

CONSTANTS Ops,   \* operations
          Plan   \* [Ops -> Seq(...)]: the steps of each operation

VARIABLES done,      \* done[o]: the steps of o that have been completed
          finished   \* the operations that have been completed

StepsOf(o) == 0..(Len(Plan[o]) - 1)

Init == done = [o \in Ops |-> {}] /\ finished = {}

CompleteStep(o, k) ==
    /\ k \in StepsOf(o) /\ \A i \in 0..(k - 1) : i \in done[o]
    /\ done' = [done EXCEPT ![o] = @ \cup {k}]

CompleteOperation(o) ==
    /\ \A k \in StepsOf(o) : k \in done'[o]
    /\ finished' = finished \cup {o}

Next ==
    \E o \in Ops :
        \/ (\E k \in StepsOf(o) : CompleteStep(o, k)) /\ UNCHANGED finished
        \/ UNCHANGED done /\ CompleteOperation(o)
        \/ (\E k \in StepsOf(o) : CompleteStep(o, k)) /\ CompleteOperation(o)

Spec == Init /\ [][Next]_<<done, finished>>
=============================================================================
