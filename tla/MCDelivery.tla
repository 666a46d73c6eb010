----------------------------- MODULE MCDelivery -----------------------------
(* Instances of Delivery for TLC. *)
EXTENDS Delivery, TLC

CONSTANTS a1, a2, a3, r1, r2

\* Any approver may decide and any request may submit.
Interchangeable == Permutations(Actors) \cup Permutations(Requests)
=============================================================================
