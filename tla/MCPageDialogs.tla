---------------------------- MODULE MCPageDialogs ----------------------------
(***************************************************************************)
(* Instances of PageDialogs for TLC: the dialogs of the page.              *)
(***************************************************************************)
EXTENDS PageDialogs, DialogProfiles

\* Every dialog checked satisfies what the theorems of PageDialogsProofs assume.
ASSUME ProfilesAreDisciplined == \A d \in Dialogs : Disciplined(Profile[d])
=============================================================================
