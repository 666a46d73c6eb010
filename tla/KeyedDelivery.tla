--------------------------- MODULE KeyedDelivery ---------------------------
(***************************************************************************)
(* What a caller is promised of a delivery, whatever copies of checkpoints *)
(* are kept, replayed or resumed at the same time: a command reaches the   *)
(* platform under an idempotency key at most once, only after a person     *)
(* approved that command for that key, and what is reported as accepted    *)
(* under a key is the request that was accepted under it.                  *)
(***************************************************************************)

VARIABLES
    approved,   \* pairs of a key and a command somebody approved
    accepted,   \* requests the platform accepted: [id, key, sent, ...]
    reported    \* pairs of a key and the request reported as accepted under it

Init ==
    /\ approved = {}
    /\ accepted = {}
    /\ reported = {}

Approve ==
    /\ \E p \in approved' : approved' = approved \cup {p}
    /\ UNCHANGED <<accepted, reported>>

Accept ==
    /\ \E r \in accepted' :
        /\ accepted' = accepted \cup {r}
        /\ <<r.key, r.sent>> \in approved
        /\ \A s \in accepted : s.key # r.key
    /\ UNCHANGED <<approved, reported>>

Report ==
    /\ \E r \in accepted : reported' = reported \cup {<<r.key, {r.id}>>}
    /\ UNCHANGED <<approved, accepted>>

Next == Approve \/ Accept \/ Report

Spec == Init /\ [][Next]_<<approved, accepted, reported>>
=============================================================================
