------------------------ MODULE MCCommandSubmission ------------------------
(***************************************************************************)
(* Instances of CommandSubmission for TLC: bodies of the same command and  *)
(* target that differ in a secret only, and therefore have the same key.   *)
(***************************************************************************)
EXTENDS CommandSubmission

MCKeyOf == [b \in Bodies |-> "command and target"]
=============================================================================
