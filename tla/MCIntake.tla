------------------------------ MODULE MCIntake ------------------------------
(* Intake for TLC. *)
EXTENDS Intake, TLC

CONSTANTS b1, b2, h1, h2

Interchangeable == Permutations(Browsers) \cup Permutations(Handlers)
=============================================================================
