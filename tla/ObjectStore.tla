----------------------------- MODULE ObjectStore -----------------------------
(***************************************************************************)
(* What the storage of assets promises to those who keep its URIs: an      *)
(* object comes into being whole, in one step, and never changes; the most *)
(* that can happen to it is that it is gone.                               *)
(***************************************************************************)
CONSTANTS
    Ids,      \* names of objects
    Wholes,   \* contents that may be stored, each of them complete
    Nothing   \* what is under a name without an object

VARIABLE contents

Init == contents = [id \in Ids |-> Nothing]

Put(id, content) ==
    /\ contents[id] = Nothing
    /\ contents' = [contents EXCEPT ![id] = content]

\* Removed one at a time, or lost together when the machine goes down.
Lose(ids) == contents' = [id \in Ids |-> IF id \in ids THEN Nothing ELSE contents[id]]

Next ==
    \/ \E id \in Ids, content \in Wholes : Put(id, content)
    \/ \E ids \in SUBSET Ids : Lose(ids)

Spec == Init /\ [][Next]_contents
=============================================================================
