------------------------------ MODULE MCBqSync ------------------------------
(* Instances of BqSync for TLC. *)
EXTENDS BqSync

CONSTANT w1
=============================================================================
