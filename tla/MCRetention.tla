----------------------------- MODULE MCRetention -----------------------------
(* One proposal, two voters, the settling job and the operator's button. *)
EXTENDS Retention
=============================================================================
