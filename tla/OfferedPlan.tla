----------------------------- MODULE OfferedPlan -----------------------------
(***************************************************************************)
(* What the operator may rely on in a dialog that first previews a change  *)
(* and then applies it: an offer is always the preview of what is chosen   *)
(* at that moment, and only such an offer is ever applied.                 *)
(***************************************************************************)
CONSTANTS
    Inputs,     \* what the operator can choose
    None

VARIABLES
    choice,     \* what is chosen in the dialog
    offer,      \* the preview the dialog offers to apply
    applied     \* what has been applied last

vars == <<choice, offer, applied>>

Init ==
    /\ choice \in Inputs \cup {None}
    /\ offer = None
    /\ applied = None

\* Another choice, by the operator or by a list that is read anew, takes the
\* offer away.
Choose ==
    /\ choice' \in Inputs \cup {None}
    /\ offer' = None
    /\ UNCHANGED applied

Offer ==
    /\ choice # None
    /\ offer' = choice
    /\ UNCHANGED <<choice, applied>>

\* The offer is carried out; it may stay for another attempt.
Apply ==
    /\ offer # None /\ offer = choice
    /\ applied' = offer
    /\ \/ UNCHANGED <<choice, offer>>
       \/ offer' = None /\ choice' \in {choice, None}

Next == Choose \/ Offer \/ Apply

Spec == Init /\ [][Next]_vars
=============================================================================
