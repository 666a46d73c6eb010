---------------------------- MODULE ApprovalGate ----------------------------
(***************************************************************************)
(* What the approval of a delivery promises, whatever handlers, retries    *)
(* and failures lie between a vote and the provider: every person votes at *)
(* most once and only while the matter is open, a rejection is final, and  *)
(* nothing reaches the provider before enough distinct people approved.    *)
(***************************************************************************)
EXTENDS Naturals

CONSTANT Actors

VARIABLES
    required,   \* distinct approvals this delivery needs
    votes,      \* votes[a]: "NONE", "APPROVED" or "REJECTED"
    sends       \* submissions the provider accepted

Rejected == \E a \in Actors : votes[a] = "REJECTED"

\* Somebody approved, or two people did, and nobody rejected.
Approved ==
    /\ \E a, b \in Actors :
        /\ votes[a] = "APPROVED" /\ votes[b] = "APPROVED"
        /\ required = 2 => a # b
    /\ ~ Rejected

Init ==
    /\ required \in {1, 2}
    /\ votes = [a \in Actors |-> "NONE"]
    /\ sends = 0

Vote(a, decision) ==
    /\ ~ Approved /\ ~ Rejected
    /\ votes[a] = "NONE"
    /\ votes' = [votes EXCEPT ![a] = decision]
    /\ UNCHANGED <<required, sends>>

Send ==
    /\ Approved
    /\ sends' = sends + 1
    /\ UNCHANGED <<required, votes>>

Next ==
    \/ \E a \in Actors, decision \in {"APPROVED", "REJECTED"} : Vote(a, decision)
    \/ Send

Spec == Init /\ [][Next]_<<required, votes, sends>>
=============================================================================
