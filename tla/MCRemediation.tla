--------------------------- MODULE MCRemediation ---------------------------
(* Remediation for TLC: requests as interchangeable model values.          *)
EXTENDS Remediation, TLC

CONSTANTS r1, r2, r3

Interchangeable == Permutations({r1, r2, r3} \cap Requests)
=============================================================================
