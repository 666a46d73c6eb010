---------------------------- MODULE MCEvaluation ----------------------------
(* Instances of Evaluation for TLC. *)
EXTENDS Evaluation, TLC

CONSTANTS r1, r2, w1, w2, h1

\* Both workers run with the same WORKER_ID: only the attempt tells them apart.
SharedId == [w \in Evaluators |-> "host"]

\* The second upload replaces the subtitle, the third another asset.
SourceOfManifest == [m \in Manifests |-> IF m = 1 THEN 1 ELSE 2]

\* Requests are interchangeable, and so are workers that share an id.
Interchangeable == Permutations(Requests) \cup Permutations(Workers)
=============================================================================
