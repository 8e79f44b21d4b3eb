------------------------------ MODULE MCIntake ------------------------------
(***************************************************************************)
(* Instances of Intake for TLC: the configurations name the fragments of a *)
(* window, one per object type the trailer detects, and the failures.      *)
(***************************************************************************)
EXTENDS Intake

=============================================================================
