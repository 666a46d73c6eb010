--------------------------- MODULE DeliveryProofs ---------------------------
(***************************************************************************)
(* Proofs about Delivery, for any sets of approvers and requests, any      *)
(* number of asset sets and any number of failures.                        *)
(*                                                                         *)
(* The argument is one inductive invariant, IInv.  Votes are frozen from   *)
(* the moment the gate opens, so a handler that saw the action APPROVED    *)
(* may rely on it for ever (GateInv).  claimDelivery makes the claiming    *)
(* handler the only one that holds the delivery (OneInFlight); because of  *)
(* that, whoever may send next has a failure for every call made so far    *)
(* (PaidInv), and everything that says "delivered" goes back to a handler  *)
(* that got past the provider, or to a receipt such a handler stored       *)
(* (DoneInv).                                                              *)
(***************************************************************************)
EXTENDS Delivery, FiniteSetTheorems, TLAPS

\* The steps of a handler that was let through and may still send.
Sending == {"preflight", "claim", "submitting", "send"}

GateInv ==
    /\ action = "PENDING_APPROVAL" => ~ Gate!Approved /\ ~ Gate!Rejected
    /\ action = "APPROVED" => Gate!Approved
    /\ \A p \in Requests : call[p].pc \in Sending => Gate!Approved

ManifestInv ==
    /\ SentIsApproved
    /\ \A p \in Requests :
        call[p].pc \in {"claim", "submitting", "send"} => call[p].manifest = ApprovedManifest

\* A handler at one of these steps, and an unclaimed delivery, leave room for
\* one more call of the provider.
Prepaid == provider.calls <= failures

PaidInv ==
    /\ SendsArePaidFor
    /\ delivery.status \in {"PENDING", "FAILED"} => Prepaid
    /\ \A p \in Requests : call[p].pc \in {"submitting", "send", "undo", "fallback"} => Prepaid

\* The steps past the provider, and those that follow a stored receipt.
PastProvider ==
    {"reclaim", "record", "fallback", "complete", "deliver", "reconcile", "recomplete"}

DoneInv ==
    /\ DoneMeansAccepted
    /\ delivery.status = "QC_PASSED" => provider.calls > 0
    /\ \A p \in Requests :
        call[p].receipt \/ call[p].pc \in PastProvider => provider.calls > 0

IInv ==
    /\ TypeOK
    /\ GateInv
    /\ ManifestInv
    /\ OneInFlight
    /\ PaidInv
    /\ DoneInv

-----------------------------------------------------------------------------
(* Frames                                                                  *)

LEMMA IdleType == IdleCall \in CallRecords
BY DEF IdleCall, CallRecords, Steps, RunStatuses, ReleaseStates

LEMMA InitIInv == Init => IInv
<1> SUFFICES ASSUME Init PROVE IInv
  OBVIOUS
<1> USE BoundsAssumption
<1>1. TypeOK
  <2>1. IdleCall \in CallRecords
    BY IdleType
  <2>2. call \in [Requests -> CallRecords]
    BY <2>1 DEF Init
  <2>3. QED
    BY <2>2 DEF Init, TypeOK, ReleaseStates, ActionStatuses, DeliveryStatuses, RunStatuses,
       Votes, Manifests, ApprovedManifest
<1>3. ~ Gate!Approved /\ ~ Gate!Rejected
  BY DEF Init, Gate!Approved, Gate!Rejected
<1>4. \A p \in Requests : call[p] = IdleCall
  BY DEF Init
<1>5. GateInv
  BY <1>3, <1>4 DEF Init, GateInv, Sending, IdleCall
<1>6. ManifestInv
  BY <1>4 DEF Init, ManifestInv, SentIsApproved, IdleCall
<1>7. OneInFlight
  BY <1>4 DEF OneInFlight, Holding, IdleCall
<1>8. PaidInv
  BY <1>4 DEF Init, PaidInv, SendsArePaidFor, Prepaid, IdleCall
<1>9. DoneInv
  BY <1>4 DEF Init, DoneInv, DoneMeansAccepted, PastProvider, IdleCall
<1>10. QED
  BY <1>1, <1>5, <1>6, <1>7, <1>8, <1>9 DEF IInv

-----------------------------------------------------------------------------
(* Counting approvals, and what a vote does to the gate                    *)

\* Comparing the number of approvals with one or two is asking for one person
\* or for two different ones.
LEMMA CountingApprovals ==
    ASSUME NEW v, NEW n \in {1, 2}
    PROVE  Cardinality({a \in Actors : v[a] = "APPROVED"}) >= n
           <=> \E a, b \in Actors :
                /\ v[a] = "APPROVED" /\ v[b] = "APPROVED"
                /\ n = 2 => a # b
<1> DEFINE S == {a \in Actors : v[a] = "APPROVED"}
<1>1. IsFiniteSet(S) /\ Cardinality(S) \in Nat
  <2>1. S \in SUBSET Actors
    OBVIOUS
  <2>2. QED
    BY <2>1, ActorsAssumption, FS_Subset, FS_CardinalityType
<1>2. Cardinality(S) = 0 <=> S = {}
  BY <1>1, FS_EmptySet
<1>3. Cardinality(S) = 1 <=> \E x : S = {x}
  BY <1>1, FS_Singleton
<1>4. (\E a, b \in S : n = 2 => a # b) <=> S # {} /\ (n = 2 => ~ \E x : S = {x})
  <2>1. CASE n = 1
    BY <2>1
  <2>2. CASE n = 2
    <3>1. (\E a, b \in S : a # b) <=> S # {} /\ ~ \E x : S = {x}
      OBVIOUS
    <3>2. QED
      BY <2>2, <3>1
  <2>3. QED
    BY <2>1, <2>2
<1>5. Cardinality(S) >= n <=> S # {} /\ (n = 2 => ~ \E x : S = {x})
  <2> HIDE DEF S
  <2>1. CASE n = 1
    BY <1>1, <1>2, <2>1
  <2>2. CASE n = 2
    BY <1>1, <1>2, <1>3, <2>2
  <2>3. QED
    BY <2>1, <2>2
<1>6. QED
  BY <1>4, <1>5

\* A vote that decideApproval takes is a vote the gate takes, and the status it
\* leaves the action in says whether the gate is open.
LEMMA DecideVotes ==
    ASSUME TypeOK, GateInv, NEW p \in Requests, NEW a \in Actors,
           NEW d \in {"APPROVED", "REJECTED"}, Decide(p, a, d)
    PROVE  /\ Gate!Vote(a, d)
           /\ \/ action' = "REJECTED"
              \/ action' = "APPROVED" /\ Gate!Approved'
              \/ action' = "PENDING_APPROVAL" /\ ~ Gate!Approved' /\ ~ Gate!Rejected'
<1>1. ~ Gate!Approved /\ ~ Gate!Rejected
  BY DEF Decide, GateInv
<1>2. /\ votes' = [votes EXCEPT ![a] = d]
      /\ votes \in [Actors -> Votes]
      /\ votes[a] = "NONE"
      /\ UNCHANGED <<risk, provider>>
  BY DEF Decide, TypeOK
<1>3. Gate!Vote(a, d)
  BY <1>1, <1>2 DEF Gate!Vote, RequiredApprovals
<1>4. CASE d = "REJECTED"
  BY <1>3, <1>4 DEF Decide
<1>5. CASE d = "APPROVED"
  <2>1. ~ Gate!Rejected'
    BY <1>1, <1>2, <1>5 DEF Gate!Rejected
  <2>2. RequiredApprovals' \in {1, 2}
    BY DEF RequiredApprovals
  <2>3. Approvals' = {b \in Actors : votes'[b] = "APPROVED"}
    BY DEF Approvals
  <2>4. Cardinality(Approvals') >= RequiredApprovals' <=> Gate!Approved'
    <3>1. Cardinality({b \in Actors : votes'[b] = "APPROVED"}) >= RequiredApprovals'
          <=> \E b, c \in Actors :
                /\ votes'[b] = "APPROVED" /\ votes'[c] = "APPROVED"
                /\ RequiredApprovals' = 2 => b # c
      BY <2>2, CountingApprovals
    <3>2. QED
      BY <2>1, <2>3, <3>1 DEF Gate!Approved
  <2>5. RequiredApprovals' = RequiredApprovals
    BY <1>2 DEF RequiredApprovals
  <2>6. Cardinality(Approvals') \in Nat /\ RequiredApprovals \in Nat
    <3>1. Approvals' \in SUBSET Actors
      BY <2>3
    <3>2. QED
      BY <2>2, <2>5, <3>1, ActorsAssumption, FS_Subset, FS_CardinalityType
  <2>7. CASE Cardinality(Approvals') >= RequiredApprovals
    BY <1>3, <1>5, <2>4, <2>5, <2>6, <2>7 DEF Decide
  <2>8. CASE Cardinality(Approvals') < RequiredApprovals
    BY <1>3, <1>5, <2>1, <2>4, <2>5, <2>6, <2>8 DEF Decide
  <2>9. QED
    BY <2>6, <2>7, <2>8
<1>6. QED
  BY <1>4, <1>5

-----------------------------------------------------------------------------
(* What a step does to the frames and to what the invariant talks about    *)

\* Every other handler stays where it is.
Alone(p) == \A q \in Requests : q # p => call'[q] = call[q]

\* p moves on and keeps its snapshots.
Moves(p, step) ==
    /\ call'[p].pc = step
    /\ call'[p].receipt = call[p].receipt
    /\ call'[p].manifest = call[p].manifest

\* Steps about which the invariant has nothing to say.
Neutral == {"idle", "list", "mark", "reject", "block", "undone", "settle"}

\* p gets to such a step, and has no receipt it did not have.
Rests(p) ==
    /\ call'[p].pc \in Neutral
    /\ call'[p].receipt => call[p].receipt

Facts == <<action, votes, risk, delivery, provider>>

Calm == failures' = failures
Failed == failures' = failures + 1

\* The step of a handler that touches none of the facts and leads nowhere.
Leaves(p) == Rests(p) /\ UNCHANGED Facts /\ (Calm \/ Failed)

\* The step of a handler that touches none of the facts.
Reads(p) ==
    /\ UNCHANGED Facts
    /\ Calm
    /\ \/ /\ delivery.status \in {"SUBMITTED", "QC_PASSED"}
          /\ call'[p].pc = "reconcile" /\ call'[p].receipt = FALSE
       \/ call'[p].pc = "read" /\ call'[p].receipt = delivery.receipt
       \/ /\ action = "APPROVED"
          /\ call[p].receipt
          /\ call'[p].pc = "reclaim" /\ call'[p].receipt = call[p].receipt
       \/ /\ action = "APPROVED"
          /\ At(p, "read") /\ ~ call[p].receipt
          /\ call'[p].pc = "preflight" /\ call'[p].receipt = call[p].receipt
       \/ /\ At(p, "preflight")
          /\ call[p].manifest = ApprovedManifest
          /\ Moves(p, "claim")
       \/ At(p, "submitting") /\ Moves(p, "send")
       \/ At(p, "reconcile") /\ Moves(p, "recomplete")

\* A throw that submitDelivery or finalizeDelivery catches.
Caught(p) ==
    /\ UNCHANGED Facts
    /\ Failed
    /\ \/ call[p].pc \in {"submitting", "send"} /\ Moves(p, "undo")
       \/ At(p, "record") /\ Moves(p, "fallback")

\* A vote, taken by the gate too; the action's status says what became of it.
Ballot(p) ==
    /\ action = "PENDING_APPROVAL"
    /\ \E a \in Actors, d \in {"APPROVED", "REJECTED"} : Gate!Vote(a, d)
    /\ \/ action' = "REJECTED"
       \/ action' = "APPROVED" /\ Gate!Approved'
       \/ action' = "PENDING_APPROVAL" /\ ~ Gate!Approved' /\ ~ Gate!Rejected'
    /\ UNCHANGED <<risk, delivery, provider>>
    /\ Rests(p)
    /\ Calm \/ Failed

Settles(p) ==
    /\ UNCHANGED <<votes, risk, delivery, provider>>
    /\ Calm \/ Failed
    /\ \/ action' = "REJECTED" /\ Rests(p)
       \/ At(p, "complete") /\ action' = "COMPLETED" /\ (Moves(p, "deliver") \/ Rests(p))
       \/ At(p, "recomplete") /\ action' = "COMPLETED" /\ Rests(p)

Claims(p) ==
    /\ delivery.status \in {"PENDING", "FAILED"}
    /\ delivery' = [status |-> "SUBMITTING", receipt |-> delivery.receipt]
    /\ UNCHANGED <<action, votes, risk, provider>>
    /\ \/ At(p, "claim") /\ Moves(p, "submitting") /\ Calm
       \/ At(p, "reclaim") /\ Moves(p, "record") /\ Calm
       \/ Rests(p) /\ Failed

Sends(p) ==
    /\ At(p, "send")
    /\ provider' = [calls |-> provider.calls + 1,
                    manifests |-> provider.manifests \cup {call[p].manifest}]
    /\ UNCHANGED <<action, votes, risk, delivery>>
    /\ \/ Moves(p, "record") /\ Calm
       \/ Moves(p, "undo") /\ Failed

Undoes(p) ==
    /\ At(p, "undo")
    /\ delivery' = [status |-> "FAILED", receipt |-> FALSE]
    /\ UNCHANGED <<action, votes, risk, provider>>
    /\ Rests(p)
    /\ Calm \/ Failed

Records(p) ==
    /\ At(p, "record")
    /\ delivery' = [status |-> "SUBMITTED", receipt |-> FALSE]
    /\ UNCHANGED <<action, votes, risk, provider>>
    /\ \/ Moves(p, "complete") /\ Calm
       \/ Moves(p, "fallback") /\ Failed

FallsBack(p) ==
    /\ At(p, "fallback")
    /\ delivery' = [status |-> "FAILED", receipt |-> TRUE]
    /\ UNCHANGED <<action, votes, risk, provider>>
    /\ Rests(p)
    /\ Calm \/ Failed

Effect(p) ==
    \/ Leaves(p) \/ Reads(p) \/ Caught(p) \/ Ballot(p) \/ Settles(p) \/ Claims(p)
    \/ Sends(p) \/ Undoes(p) \/ Records(p) \/ FallsBack(p)

LEMMA BecomeMoves ==
    ASSUME TypeOK, NEW p \in Requests, NEW f, Become(p, f)
    PROVE  call'[p] = f /\ Alone(p) /\ Calm
BY DEF TypeOK, Become, Alone, Calm

LEMMA FailMoves ==
    ASSUME TypeOK, NEW p \in Requests, NEW f, NEW fault, Fail(fault, p, f)
    PROVE  call'[p] = f /\ Alone(p) /\ Failed
BY DEF TypeOK, Fail, Alone, Failed

LEMMA ReturnMoves ==
    ASSUME TypeOK, NEW p \in Requests, NEW f, Return(p, f)
    PROVE  /\ Alone(p)
           /\ \/ call'[p] = f /\ Calm
              \/ call'[p] = Thrown(p) /\ Failed
BY BecomeMoves, FailMoves DEF Return

LEMMA GotoMoves ==
    ASSUME TypeOK, NEW p \in Requests, NEW s, call'[p] = Goto(p, s)
    PROVE  Moves(p, s)
BY DEF TypeOK, CallRecords, Goto, Moves

LEMMA IdleRests ==
    ASSUME NEW p, call'[p] = IdleCall
    PROVE  Rests(p)
BY DEF IdleCall, Rests, Neutral

LEMMA ThrownMoves ==
    ASSUME TypeOK, NEW p \in Requests, call'[p] = Thrown(p)
    PROVE  \/ call[p].pc \in {"submitting", "send"} /\ Moves(p, "undo")
           \/ At(p, "record") /\ Moves(p, "fallback")
           \/ call[p].pc \notin {"submitting", "send", "record"} /\ Rests(p)
<1>1. CASE call[p].pc \in {"submitting", "send"}
  BY <1>1, GotoMoves DEF Thrown
<1>2. CASE At(p, "record")
  BY <1>2, GotoMoves DEF Thrown, At
<1>3. CASE call[p].pc \notin {"submitting", "send", "record"}
  <2>1. Thrown(p) = IdleCall
    BY <1>3 DEF Thrown
  <2>2. QED
    BY <1>3, <2>1, IdleRests
<1>4. QED
  BY <1>1, <1>2, <1>3 DEF At

\* p moves to a neutral step.
LEMMA NeutralRests ==
    ASSUME NEW p, NEW s \in Neutral, Moves(p, s)
    PROVE  Rests(p)
BY DEF Moves, Rests

LEMMA DecideEffect ==
    ASSUME TypeOK, GateInv, NEW p \in Requests, NEW a \in Actors,
           NEW d \in {"APPROVED", "REJECTED"}, Decide(p, a, d)
    PROVE  Alone(p) /\ Ballot(p)
<1> DEFINE f(w) == [IdleCall EXCEPT !.pc = "list", !.status = w]
<1>1. \A w : f(w).pc = "list" /\ f(w).receipt = FALSE
  BY DEF IdleCall
<1>2. \/ Return(p, f("COMPLETED"))
      \/ Return(p, f("WAITING"))
      \/ Return(p, IdleCall)
  BY DEF Decide
<1>3. call[p].pc = "idle"
  BY DEF Decide, At
<1>4. Alone(p) /\ (Calm \/ Failed)
      /\ \/ call'[p] = f("COMPLETED") \/ call'[p] = f("WAITING") \/ call'[p] = IdleCall
         \/ call'[p] = Thrown(p)
  <2> HIDE DEF f
  <2>1. QED
    BY <1>2, ReturnMoves
<1>5. Rests(p)
  <2>1. CASE call'[p] = Thrown(p)
    BY <2>1, <1>3, ThrownMoves DEF At
  <2>2. CASE call'[p] = IdleCall
    BY <2>2, IdleRests
  <2>3. CASE call'[p] = f("COMPLETED") \/ call'[p] = f("WAITING")
    <3> HIDE DEF f
    <3>1. QED
      BY <2>3, <1>1 DEF Rests, Neutral
  <2>4. QED
    BY <1>4, <2>1, <2>2, <2>3
<1>6. action = "PENDING_APPROVAL" /\ UNCHANGED <<risk, delivery, provider>>
  BY DEF Decide
<1>7. QED
  BY <1>4, <1>5, <1>6, DecideVotes DEF Ballot

LEMMA ReadEffects ==
    ASSUME TypeOK, NEW p \in Requests, ReadDelivery(p) \/ ReadRelease(p) \/ Preflight(p) \/ Reconcile(p)
    PROVE  Alone(p) /\ (Leaves(p) \/ Reads(p))
<1>0. call[p] \in CallRecords
  BY DEF TypeOK
<1>1. CASE ReadDelivery(p)
  <2>1. Alone(p) /\ Calm /\ UNCHANGED Facts
    BY <1>1, BecomeMoves DEF ReadDelivery, data, Facts
  <2>2. CASE IsSubmitted
    <3>1. call'[p] = [IdleCall EXCEPT !.pc = "reconcile"]
      BY <1>1, <2>2, BecomeMoves DEF ReadDelivery
    <3>2. QED
      BY <2>1, <2>2, <3>1 DEF Reads, IsSubmitted, IdleCall
  <2>3. CASE ~ IsSubmitted
    <3>1. call'[p] = [IdleCall EXCEPT !.pc = "read", !.receipt = ProviderReceipt]
      BY <1>1, <2>3, BecomeMoves DEF ReadDelivery
    <3>2. call'[p].pc = "read" /\ call'[p].receipt = delivery.receipt
      BY <3>1 DEF IdleCall, ProviderReceipt
    <3>3. QED
      BY <2>1, <3>2 DEF Reads
  <2>4. QED
    BY <2>2, <2>3
<1>2. CASE ReadRelease(p)
  <2>1. Alone(p) /\ Calm /\ UNCHANGED Facts
    BY <1>2, BecomeMoves DEF ReadRelease, data, Facts
  <2>2. CASE ~ Submittable
    <3>1. call'[p] = IdleCall
      BY <1>2, <2>2, BecomeMoves DEF ReadRelease
    <3>2. QED
      BY <2>1, <3>1, IdleRests DEF Leaves
  <2>3. CASE Submittable /\ call[p].receipt
    <3>1. call'[p] = [call[p] EXCEPT !.pc = "reclaim", !.manifest = manifest]
      BY <1>2, <2>3, BecomeMoves DEF ReadRelease
    <3>2. call'[p].pc = "reclaim" /\ call'[p].receipt = call[p].receipt
      BY <1>0, <3>1 DEF CallRecords
    <3>3. QED
      BY <2>1, <2>3, <3>2 DEF Reads, Submittable
  <2>4. CASE Submittable /\ ~ call[p].receipt
    <3>1. call'[p] = [call[p] EXCEPT !.pc = "preflight", !.manifest = manifest]
      BY <1>2, <2>4, BecomeMoves DEF ReadRelease
    <3>2. call'[p].pc = "preflight" /\ call'[p].receipt = call[p].receipt
      BY <1>0, <3>1 DEF CallRecords
    <3>3. At(p, "read")
      BY <1>2 DEF ReadRelease
    <3>4. QED
      BY <2>1, <2>4, <3>2, <3>3 DEF Reads, Submittable
  <2>5. QED
    BY <2>2, <2>3, <2>4
<1>3. CASE Preflight(p)
  <2>1. Alone(p) /\ Calm /\ UNCHANGED Facts
    BY <1>3, BecomeMoves DEF Preflight, data, Facts
  <2>2. CASE ManifestCurrent(p) /\ Become(p, Goto(p, "claim"))
    BY <1>3, <2>1, <2>2, BecomeMoves, GotoMoves DEF Preflight, Reads, ManifestCurrent
  <2>3. ASSUME NEW w, Become(p, [call[p] EXCEPT !.pc = "reject", !.state = w])
        PROVE  Rests(p)
    <3>1. call'[p] = [call[p] EXCEPT !.pc = "reject", !.state = w]
      BY <2>3, BecomeMoves
    <3>2. QED
      BY <1>0, <3>1 DEF CallRecords, Rests, Neutral
  <2>4. QED
    BY <1>3, <2>1, <2>2, <2>3 DEF Preflight, Leaves
<1>4. CASE Reconcile(p)
  <2>1. Alone(p) /\ Calm /\ UNCHANGED Facts
    BY <1>4, BecomeMoves DEF Reconcile, data, Facts
  <2>2. \/ call'[p] = IdleCall
        \/ call'[p] = Goto(p, "settle")
        \/ call'[p] = [call[p] EXCEPT !.pc = "recomplete", !.state = release]
    BY <1>4, BecomeMoves DEF Reconcile
  <2>3. CASE call'[p] = IdleCall \/ call'[p] = Goto(p, "settle")
    BY <2>1, <2>3, IdleRests, GotoMoves, NeutralRests DEF Leaves, Neutral
  <2>4. CASE call'[p] = [call[p] EXCEPT !.pc = "recomplete", !.state = release]
    <3>1. Moves(p, "recomplete")
      BY <1>0, <2>4 DEF CallRecords, Moves
    <3>2. QED
      BY <1>4, <2>1, <3>1 DEF Reads, Reconcile
  <2>5. QED
    BY <2>2, <2>3, <2>4
<1>5. QED
  BY <1>1, <1>2, <1>3, <1>4

\* A call that returns or loses its reply, where a throw is not caught.
LEMMA ReturnRests ==
    ASSUME TypeOK, NEW p \in Requests, NEW s, Return(p, Goto(p, s)),
           call[p].pc \notin {"submitting", "send", "record"}
    PROVE  /\ Alone(p)
           /\ \/ Moves(p, s) /\ Calm
              \/ Rests(p) /\ Failed
BY ReturnMoves, GotoMoves, ThrownMoves DEF At

LEMMA ReturnIdle ==
    ASSUME TypeOK, NEW p \in Requests, Return(p, IdleCall),
           call[p].pc \notin {"submitting", "send", "record"}
    PROVE  Alone(p) /\ Rests(p) /\ (Calm \/ Failed)
BY ReturnMoves, IdleRests, ThrownMoves DEF At

LEMMA CheckpointEffects ==
    ASSUME TypeOK, NEW p \in Requests, ListRuns(p) \/ MarkRun(p)
    PROVE  Alone(p) /\ Leaves(p)
<1>1. CASE ListRuns(p)
  <2>1. Alone(p) /\ Calm /\ UNCHANGED Facts
    BY <1>1, BecomeMoves DEF ListRuns, data, Facts
  <2>2. call'[p] = Goto(p, "mark") \/ call'[p] = IdleCall
    BY <1>1, BecomeMoves DEF ListRuns
  <2>3. Rests(p)
    BY <2>2, GotoMoves, IdleRests, NeutralRests DEF Neutral
  <2>4. QED
    BY <2>1, <2>3 DEF Leaves
<1>2. CASE MarkRun(p)
  BY <1>2, ReturnIdle DEF MarkRun, At, Leaves, Facts
<1>3. QED
  BY <1>1, <1>2

LEMMA WriteActionEffect ==
    ASSUME TypeOK, NEW p \in Requests, WriteAction(p)
    PROVE  Alone(p) /\ Settles(p)
<1>0. UNCHANGED <<votes, risk, delivery, provider>>
  BY DEF WriteAction
<1>1. CASE At(p, "reject")
  <2>1. action' = "REJECTED" /\ Return(p, Goto(p, "block"))
    BY <1>1 DEF WriteAction, At
  <2>2. Alone(p) /\ Rests(p) /\ (Calm \/ Failed)
    BY <1>1, <2>1, ReturnRests, NeutralRests DEF At, Neutral
  <2>3. QED
    BY <1>0, <2>1, <2>2 DEF Settles
<1>2. CASE At(p, "complete")
  <2>1. action' = "COMPLETED" /\ Return(p, Goto(p, "deliver"))
    BY <1>2 DEF WriteAction, At
  <2>2. Alone(p) /\ (Moves(p, "deliver") \/ Rests(p)) /\ (Calm \/ Failed)
    BY <1>2, <2>1, ReturnRests DEF At
  <2>3. QED
    BY <1>0, <1>2, <2>1, <2>2 DEF Settles
<1>3. CASE At(p, "recomplete")
  <2>1. action' = "COMPLETED" /\ (Return(p, Goto(p, "settle")) \/ Return(p, IdleCall))
    BY <1>3 DEF WriteAction, At
  <2>2. Alone(p) /\ Rests(p) /\ (Calm \/ Failed)
    BY <1>3, <2>1, ReturnRests, ReturnIdle, NeutralRests DEF At, Neutral
  <2>3. QED
    BY <1>0, <1>3, <2>1, <2>2 DEF Settles
<1>4. QED
  BY <1>1, <1>2, <1>3 DEF WriteAction

LEMMA WriteStateEffect ==
    ASSUME TypeOK, NEW p \in Requests, WriteState(p)
    PROVE  Alone(p) /\ (Leaves(p) \/ Reads(p) \/ Caught(p))
<1>0. UNCHANGED Facts
  BY DEF WriteState, Facts
<1>1. CASE call[p].pc \in {"block", "undone", "settle"}
  <2>1. Return(p, IdleCall)
    BY <1>1 DEF WriteState, At
  <2>2. QED
    BY <1>0, <1>1, <2>1, ReturnIdle DEF Leaves
<1>2. CASE At(p, "submitting")
  <2>1. Return(p, Goto(p, "send"))
    BY <1>2 DEF WriteState, At
  <2>2. Alone(p) /\ ((Moves(p, "send") /\ Calm) \/ (Moves(p, "undo") /\ Failed))
    BY <1>2, <2>1, ReturnMoves, GotoMoves, ThrownMoves DEF At
  <2>3. QED
    BY <1>0, <1>2, <2>2 DEF Reads, Caught, At
<1>3. CASE At(p, "deliver")
  <2>1. Return(p, [call[p] EXCEPT !.pc = "list", !.status = "COMPLETED"])
    BY <1>3 DEF WriteState, At
  <2>2. call[p] \in CallRecords
    BY DEF TypeOK
  <2>3. [call[p] EXCEPT !.pc = "list", !.status = "COMPLETED"].pc = "list"
        /\ [call[p] EXCEPT !.pc = "list", !.status = "COMPLETED"].receipt = call[p].receipt
    BY <2>2 DEF CallRecords
  <2>4. /\ Alone(p)
        /\ \/ call'[p] = [call[p] EXCEPT !.pc = "list", !.status = "COMPLETED"] /\ Calm
           \/ call'[p] = Thrown(p) /\ Failed
    BY <2>1, ReturnMoves
  <2>5. Rests(p)
    <3>1. CASE call'[p] = [call[p] EXCEPT !.pc = "list", !.status = "COMPLETED"]
      BY <3>1, <2>3 DEF Rests, Neutral
    <3>2. CASE call'[p] = Thrown(p)
      BY <3>2, <1>3, ThrownMoves DEF At
    <3>3. QED
      BY <2>4, <3>1, <3>2
  <2>6. QED
    BY <1>0, <2>4, <2>5 DEF Leaves
<1>4. QED
  BY <1>1, <1>2, <1>3 DEF WriteState, At

LEMMA ClaimEffects ==
    ASSUME TypeOK, NEW p \in Requests, ClaimDelivery(p) \/ ClaimLost(p)
    PROVE  Alone(p) /\ (Leaves(p) \/ Claims(p))
<1>1. CASE ClaimDelivery(p)
  <2>1. /\ delivery.status \in {"PENDING", "FAILED"}
        /\ delivery' = [status |-> "SUBMITTING", receipt |-> delivery.receipt]
        /\ UNCHANGED <<action, votes, risk, provider>>
    BY <1>1 DEF ClaimDelivery, ClaimableDelivery, WriteDelivery
  <2>2. CASE At(p, "claim")
    <3>1. Return(p, Goto(p, "submitting"))
      BY <1>1, <2>2 DEF ClaimDelivery, At
    <3>2. QED
      BY <2>1, <2>2, <3>1, ReturnRests DEF At, Claims
  <2>3. CASE At(p, "reclaim")
    <3>1. Return(p, Goto(p, "record"))
      BY <1>1, <2>3 DEF ClaimDelivery, At
    <3>2. QED
      BY <2>1, <2>3, <3>1, ReturnRests DEF At, Claims
  <2>4. QED
    BY <1>1, <2>2, <2>3 DEF ClaimDelivery
<1>2. CASE ClaimLost(p)
  BY <1>2, BecomeMoves, IdleRests DEF ClaimLost, data, Facts, Leaves
<1>3. QED
  BY <1>1, <1>2

LEMMA SendEffects ==
    ASSUME TypeOK, NEW p \in Requests, Send(p) \/ Undo(p) \/ Record(p) \/ Fallback(p)
    PROVE  Alone(p) /\ (Sends(p) \/ Undoes(p) \/ Records(p) \/ FallsBack(p))
<1>1. CASE Send(p)
  <2>1. At(p, "send")
    BY <1>1 DEF Send
  <2>2. CASE Become(p, Goto(p, "record"))
    BY <1>1, <2>2, BecomeMoves, GotoMoves DEF Send, Sends
  <2>3. CASE Fail("provider", p, Thrown(p))
    <3>1. Alone(p) /\ Failed /\ Moves(p, "undo")
      BY <2>1, <2>3, FailMoves, ThrownMoves DEF At
    <3>2. QED
      BY <1>1, <3>1 DEF Send, Sends
  <2>4. QED
    BY <1>1, <2>2, <2>3 DEF Send
<1>2. CASE Undo(p)
  <2>1. At(p, "undo") /\ Return(p, Goto(p, "undone"))
    BY <1>2 DEF Undo
  <2>2. Alone(p) /\ Rests(p) /\ (Calm \/ Failed)
    BY <2>1, ReturnRests, NeutralRests DEF At, Neutral
  <2>3. QED
    BY <1>2, <2>1, <2>2 DEF Undo, WriteDelivery, Undoes
<1>3. CASE Record(p)
  <2>1. At(p, "record") /\ Return(p, Goto(p, "complete"))
    BY <1>3 DEF Record
  <2>2. Alone(p) /\ ((Moves(p, "complete") /\ Calm) \/ (Moves(p, "fallback") /\ Failed))
    BY <2>1, ReturnMoves, GotoMoves, ThrownMoves DEF At
  <2>3. QED
    BY <1>3, <2>1, <2>2 DEF Record, WriteDelivery, Records
<1>4. CASE Fallback(p)
  <2>1. At(p, "fallback") /\ Return(p, IdleCall)
    BY <1>4 DEF Fallback
  <2>2. Alone(p) /\ Rests(p) /\ (Calm \/ Failed)
    BY <2>1, ReturnIdle DEF At
  <2>3. QED
    BY <1>4, <2>1, <2>2 DEF Fallback, WriteDelivery, FallsBack
<1>5. QED
  BY <1>1, <1>2, <1>3, <1>4

LEMMA FaultEffects ==
    ASSUME TypeOK, NEW p \in Requests, Throw(p) \/ Crash(p)
    PROVE  Alone(p) /\ (Leaves(p) \/ Caught(p))
<1>1. UNCHANGED Facts /\ Alone(p) /\ Failed /\ (call'[p] = Thrown(p) \/ call'[p] = IdleCall)
  BY FailMoves DEF Throw, Crash, data, Facts
<1>2. CASE call'[p] = Thrown(p)
  BY <1>1, <1>2, ThrownMoves DEF Leaves, Caught
<1>3. CASE call'[p] = IdleCall
  BY <1>1, <1>3, IdleRests DEF Leaves
<1>4. QED
  BY <1>1, <1>2, <1>3

\* What happens outside the handlers touches neither them nor the facts.
Outside == UNCHANGED <<Facts, failures, call>>

LEMMA Effects ==
    TypeOK /\ GateInv /\ [Next]_vars => Outside \/ \E p \in Requests : Alone(p) /\ Effect(p)
<1> SUFFICES ASSUME TypeOK, GateInv, [Next]_vars
             PROVE  Outside \/ \E p \in Requests : Alone(p) /\ Effect(p)
  OBVIOUS
<1>1. ASSUME NEW p \in Requests, Start(p) PROVE Alone(p) /\ Effect(p)
  <2>1. CASE ReadDelivery(p)
    BY <2>1, ReadEffects DEF Effect
  <2>2. ASSUME NEW a \in Actors, NEW d \in {"APPROVED", "REJECTED"}, Decide(p, a, d)
      PROVE Alone(p) /\ Effect(p)
    BY <2>2, DecideEffect DEF Effect
  <2>3. QED
    BY <1>1, <2>1, <2>2 DEF Start
<1>2. ASSUME NEW p \in Requests, Progress(p) PROVE Alone(p) /\ Effect(p)
  BY <1>2, CheckpointEffects, ReadEffects, WriteActionEffect, WriteStateEffect, ClaimEffects,
     SendEffects DEF Progress, Effect
<1>3. ASSUME NEW p \in Requests, Throw(p) \/ Crash(p) PROVE Alone(p) /\ Effect(p)
  BY <1>3, FaultEffects DEF Effect
<1>4. CASE LateRunEnds \/ RegisterAsset \/ UNCHANGED vars
  BY <1>4 DEF LateRunEnds, RegisterAsset, vars, data, Outside, Facts
<1>5. QED
  BY <1>1, <1>2, <1>3, <1>4 DEF Next

-----------------------------------------------------------------------------
(* Types                                                                   *)

LEMMA BecomeType ==
    ASSUME TypeOK, NEW p \in Requests, NEW f \in CallRecords, Become(p, f)
    PROVE  call' \in [Requests -> CallRecords] /\ failures' \in Nat
BY DEF TypeOK, Become

LEMMA FailType ==
    ASSUME TypeOK, NEW p \in Requests, NEW f \in CallRecords, NEW fault, Fail(fault, p, f)
    PROVE  call' \in [Requests -> CallRecords] /\ failures' \in Nat
BY DEF TypeOK, Fail

LEMMA GotoType ==
    ASSUME TypeOK, NEW p \in Requests, NEW s \in Steps
    PROVE  Goto(p, s) \in CallRecords
<1>1. call[p] \in CallRecords
  BY DEF TypeOK
<1>2. QED
  BY <1>1 DEF Goto, CallRecords

LEMMA ThrownType ==
    ASSUME TypeOK, NEW p \in Requests
    PROVE  Thrown(p) \in CallRecords
<1>1. Goto(p, "undo") \in CallRecords /\ Goto(p, "fallback") \in CallRecords
  BY GotoType DEF Steps
<1>2. QED
  BY <1>1, IdleType DEF Thrown

LEMMA ReturnType ==
    ASSUME TypeOK, NEW p \in Requests, NEW f \in CallRecords, Return(p, f)
    PROVE  call' \in [Requests -> CallRecords] /\ failures' \in Nat
<1>1. CASE Become(p, f)
  BY <1>1, BecomeType
<1>2. CASE Fail("lostReply", p, Thrown(p))
  BY <1>2, FailType, ThrownType
<1>3. QED
  BY <1>1, <1>2 DEF Return

\* The variables other than the frames and the failure count.
DataOK ==
    /\ release \in ReleaseStates
    /\ manifest \in Manifests
    /\ lateRun \in BOOLEAN
    /\ risk \in {"R2", "R3"}
    /\ action \in ActionStatuses
    /\ votes \in [Actors -> Votes]
    /\ delivery \in [status : DeliveryStatuses, receipt : BOOLEAN]
    /\ run \in RunStatuses
    /\ provider \in [calls : Nat, manifests : SUBSET Manifests]

FramesOK == call \in [Requests -> CallRecords] /\ failures \in Nat

LEMMA TypeParts == TypeOK <=> DataOK /\ FramesOK
BY DEF TypeOK, DataOK, FramesOK

LEMMA DataKept == DataOK /\ UNCHANGED data => DataOK'
BY DEF DataOK, data

LEMMA TypeStep == TypeOK /\ ManifestInv /\ [Next]_vars => TypeOK'
<1> SUFFICES ASSUME TypeOK, ManifestInv, [Next]_vars PROVE DataOK' /\ FramesOK'
  BY DEF TypeOK, DataOK, FramesOK
<1>0. DataOK /\ FramesOK /\ manifest \in Nat
  BY TypeParts, BoundsAssumption DEF DataOK, Manifests
<1>1. ASSUME NEW p \in Requests PROVE call[p] \in CallRecords
  BY DEF TypeOK
<1>2. ASSUME NEW p \in Requests, NEW s \in Steps, Return(p, Goto(p, s)) PROVE FramesOK'
  BY <1>2, GotoType, ReturnType DEF FramesOK
<1>3. ASSUME NEW p \in Requests, Return(p, IdleCall) PROVE FramesOK'
  BY <1>3, IdleType, ReturnType DEF FramesOK
<1>4. ASSUME NEW p \in Requests, NEW a \in Actors, NEW d \in {"APPROVED", "REJECTED"},
             Decide(p, a, d)
      PROVE  DataOK' /\ FramesOK'
  <2>1. DataOK'
    BY <1>0, <1>4 DEF Decide, DataOK, Votes, ActionStatuses, ReleaseStates
  <2>2. PICK f \in {IdleCall} \cup
                   {[IdleCall EXCEPT !.pc = "list", !.status = w] : w \in {"COMPLETED", "WAITING"}} :
        Return(p, f)
    BY <1>4 DEF Decide
  <2>3. f \in CallRecords
    BY <2>2, IdleType DEF CallRecords, Steps, RunStatuses
  <2>4. QED
    BY <2>1, <2>2, <2>3, ReturnType DEF FramesOK
<1>5. ASSUME NEW p \in Requests, ReadDelivery(p) PROVE DataOK' /\ FramesOK'
  <2>1. PICK f : Become(p, f) /\ f \in {[IdleCall EXCEPT !.pc = "reconcile"],
                                       [IdleCall EXCEPT !.pc = "read", !.receipt = ProviderReceipt]}
    BY <1>5 DEF ReadDelivery
  <2>2. ProviderReceipt \in BOOLEAN
    BY <1>0 DEF DataOK, ProviderReceipt
  <2>3. f \in CallRecords
    BY <2>1, <2>2, IdleType DEF CallRecords, Steps
  <2>4. QED
    BY <1>0, <1>5, <2>1, <2>3, BecomeType, DataKept DEF ReadDelivery, FramesOK
<1>6. ASSUME NEW p \in Requests, ReadRelease(p) PROVE DataOK' /\ FramesOK'
  <2>1. PICK f : Become(p, f) /\ f \in {IdleCall,
                                       [call[p] EXCEPT !.pc = "reclaim", !.manifest = manifest],
                                       [call[p] EXCEPT !.pc = "preflight", !.manifest = manifest]}
    BY <1>6 DEF ReadRelease
  <2>2. f \in CallRecords
    BY <1>0, <1>1, <2>1, IdleType DEF CallRecords, Steps
  <2>3. QED
    BY <1>0, <1>6, <2>1, <2>2, BecomeType, DataKept DEF ReadRelease, FramesOK
<1>7. ASSUME NEW p \in Requests, Preflight(p) PROVE DataOK' /\ FramesOK'
  <2>1. UNCHANGED data
    BY <1>7 DEF Preflight
  <2>2. CASE Become(p, Goto(p, "claim"))
    BY <1>0, <2>1, <2>2, GotoType, BecomeType, DataKept DEF Steps, FramesOK
  <2>3. ASSUME NEW w \in {"BLOCKED", "READY_FOR_APPROVAL"},
               Become(p, [call[p] EXCEPT !.pc = "reject", !.state = w])
        PROVE  DataOK' /\ FramesOK'
    <3>1. [call[p] EXCEPT !.pc = "reject", !.state = w] \in CallRecords
      BY <1>1 DEF CallRecords, Steps, ReleaseStates
    <3>2. QED
      BY <1>0, <2>1, <2>3, <3>1, BecomeType, DataKept DEF FramesOK
  <2>4. QED
    BY <1>7, <2>2, <2>3 DEF Preflight
<1>8. ASSUME NEW p \in Requests, Reconcile(p) PROVE DataOK' /\ FramesOK'
  <2>1. PICK f : Become(p, f) /\ f \in {IdleCall, Goto(p, "settle"),
                                       [call[p] EXCEPT !.pc = "recomplete", !.state = release]}
    BY <1>8 DEF Reconcile
  <2>2. Goto(p, "settle") \in CallRecords
    BY GotoType DEF Steps
  <2>3. f \in CallRecords
    BY <1>0, <1>1, <2>1, <2>2, IdleType DEF CallRecords, Steps, DataOK
  <2>4. QED
    BY <1>0, <1>8, <2>1, <2>3, BecomeType, DataKept DEF Reconcile, FramesOK
<1>9. ASSUME NEW p \in Requests, ListRuns(p) PROVE DataOK' /\ FramesOK'
  <2>1. PICK f : Become(p, f) /\ f \in {IdleCall, Goto(p, "mark")}
    BY <1>9 DEF ListRuns
  <2>2. f \in CallRecords
    BY <2>1, GotoType, IdleType DEF Steps
  <2>3. QED
    BY <1>0, <1>9, <2>1, <2>2, BecomeType, DataKept DEF ListRuns, FramesOK
<1>10. ASSUME NEW p \in Requests, MarkRun(p) PROVE DataOK' /\ FramesOK'
  <2>1. call[p].status \in RunStatuses
    BY <1>1 DEF CallRecords
  <2>2. QED
    BY <1>0, <1>3, <1>10, <2>1 DEF MarkRun, DataOK
<1>11. ASSUME NEW p \in Requests, WriteAction(p) PROVE DataOK' /\ FramesOK'
  <2>1. DataOK'
    BY <1>0, <1>11 DEF WriteAction, DataOK, ActionStatuses
  <2>2. Return(p, IdleCall) \/ \E s \in {"block", "deliver", "settle"} : Return(p, Goto(p, s))
    BY <1>11 DEF WriteAction
  <2>3. QED
    BY <1>2, <1>3, <2>1, <2>2 DEF Steps
<1>12. ASSUME NEW p \in Requests, WriteState(p) PROVE DataOK' /\ FramesOK'
  <2>1. call[p].state \in ReleaseStates
    BY <1>1 DEF CallRecords
  <2>2. DataOK'
    BY <1>0, <1>12, <2>1 DEF WriteState, DataOK, ReleaseStates
  <2>3. \/ Return(p, IdleCall)
        \/ Return(p, Goto(p, "send"))
        \/ Return(p, [call[p] EXCEPT !.pc = "list", !.status = "COMPLETED"])
    BY <1>12 DEF WriteState
  <2>4. [call[p] EXCEPT !.pc = "list", !.status = "COMPLETED"] \in CallRecords
    BY <1>1 DEF CallRecords, Steps, RunStatuses
  <2>5. FramesOK'
    <3>1. CASE Return(p, IdleCall)
      BY <1>3, <3>1
    <3>2. CASE Return(p, Goto(p, "send"))
      BY <1>2, <3>2 DEF Steps
    <3>3. CASE Return(p, [call[p] EXCEPT !.pc = "list", !.status = "COMPLETED"])
      BY <2>4, <3>3, ReturnType DEF FramesOK
    <3>4. QED
      BY <2>3, <3>1, <3>2, <3>3
  <2>6. QED
    BY <2>2, <2>5
<1>13. ASSUME NEW status \in DeliveryStatuses, NEW receipt \in BOOLEAN,
              WriteDelivery(status, receipt)
       PROVE  DataOK'
  BY <1>0, <1>13 DEF DataOK, WriteDelivery
<1>14. ASSUME NEW p \in Requests, ClaimDelivery(p) \/ Undo(p) \/ Record(p) \/ Fallback(p)
       PROVE  DataOK' /\ FramesOK'
  <2>1. delivery.receipt \in BOOLEAN
    BY <1>0 DEF DataOK
  <2>2. DataOK'
    BY <1>13, <1>14, <2>1 DEF ClaimDelivery, Undo, Record, Fallback, DeliveryStatuses
  <2>3. Return(p, IdleCall)
        \/ \E s \in {"submitting", "record", "undone", "complete"} : Return(p, Goto(p, s))
    BY <1>14 DEF ClaimDelivery, Undo, Record, Fallback
  <2>4. FramesOK'
    BY <1>2, <1>3, <2>3 DEF Steps
  <2>5. QED
    BY <2>2, <2>4
<1>15. ASSUME NEW p \in Requests, ClaimLost(p) PROVE DataOK' /\ FramesOK'
  BY <1>0, <1>15, BecomeType, IdleType, DataKept DEF ClaimLost, FramesOK
<1>16. ASSUME NEW p \in Requests, Send(p) PROVE DataOK' /\ FramesOK'
  <2>1. call[p].manifest = ApprovedManifest
    BY <1>16 DEF ManifestInv, Send, At
  <2>2. call[p].manifest \in Manifests
    BY <2>1, BoundsAssumption DEF ApprovedManifest, Manifests
  <2>3. DataOK'
    BY <1>0, <1>16, <2>2 DEF Send, DataOK
  <2>4. Goto(p, "record") \in CallRecords /\ Thrown(p) \in CallRecords
    BY GotoType, ThrownType DEF Steps
  <2>5. FramesOK'
    BY <1>16, <2>4, BecomeType, FailType DEF Send, FramesOK
  <2>6. QED
    BY <2>3, <2>5
<1>17. ASSUME NEW p \in Requests, Throw(p) \/ Crash(p) PROVE DataOK' /\ FramesOK'
  BY <1>0, <1>17, FailType, ThrownType, IdleType, DataKept DEF Throw, Crash, FramesOK
<1>18. CASE LateRunEnds
  BY <1>0, <1>18 DEF LateRunEnds, DataOK, FramesOK, ReleaseStates
<1>20. CASE UNCHANGED vars
  BY <1>0, <1>20, DataKept DEF vars, FramesOK
<1>19. CASE RegisterAsset
  <2>1. manifest' \in Manifests
    BY <1>0, <1>19, BoundsAssumption DEF RegisterAsset, Manifests
  <2>2. QED
    BY <1>0, <1>19, <2>1 DEF RegisterAsset, DataOK, FramesOK
<1>21. QED
  BY <1>4, <1>5, <1>6, <1>7, <1>8, <1>9, <1>10, <1>11, <1>12, <1>14, <1>15, <1>16, <1>17,
     <1>18, <1>19, <1>20 DEF Next, Start, Progress

-----------------------------------------------------------------------------
(* Each part of the invariant is kept by each kind of step                 *)

\* An open gate stays open: nobody votes any more.
LEMMA GateStaysOpen ==
    ASSUME NEW p, Effect(p), Gate!Approved
    PROVE  Gate!Approved'
<1>1. UNCHANGED <<votes, risk>>
  BY DEF Effect, Leaves, Reads, Caught, Ballot, Settles, Claims, Sends, Undoes, Records,
     FallsBack, Facts, Gate!Vote
<1>2. QED
  BY <1>1 DEF Gate!Approved, Gate!Rejected, RequiredApprovals

LEMMA GateStep ==
    ASSUME IInv, NEW p \in Requests, Alone(p), Effect(p)
    PROVE  GateInv'
<1>1. /\ action' = "PENDING_APPROVAL" => ~ Gate!Approved' /\ ~ Gate!Rejected'
      /\ action' = "APPROVED" => Gate!Approved'
  <2>1. CASE Ballot(p)
    BY <2>1 DEF Ballot
  <2>2. CASE Settles(p)
    BY <2>2 DEF Settles
  <2>3. CASE UNCHANGED <<action, votes, risk>>
    BY <2>3 DEF IInv, GateInv, Gate!Approved, Gate!Rejected, RequiredApprovals
  <2>4. QED
    BY <2>1, <2>2, <2>3 DEF Effect, Leaves, Reads, Caught, Claims, Sends, Undoes, Records,
       FallsBack, Facts
<1>2. call'[p].pc \in Sending => Gate!Approved
  BY DEF Effect, Leaves, Reads, Caught, Ballot, Settles, Claims, Sends, Undoes, Records,
     FallsBack, Rests, Moves, Neutral, Sending, At, IInv, GateInv
<1>3. ASSUME NEW q \in Requests, call'[q].pc \in Sending PROVE Gate!Approved
  BY <1>2, <1>3 DEF Alone, IInv, GateInv
<1>4. QED
  BY <1>1, <1>3, GateStaysOpen DEF GateInv

LEMMA ManifestStep ==
    ASSUME IInv, NEW p \in Requests, Alone(p), Effect(p)
    PROVE  ManifestInv'
<1> DEFINE Late == {"claim", "submitting", "send"}
<1>1. call'[p].pc \in Late => call'[p].manifest = ApprovedManifest
  BY DEF Effect, Leaves, Reads, Caught, Ballot, Settles, Claims, Sends, Undoes, Records,
     FallsBack, Rests, Moves, Neutral, At, IInv, ManifestInv
<1>2. ASSUME NEW q \in Requests, call'[q].pc \in Late
      PROVE  call'[q].manifest = ApprovedManifest
  BY <1>1, <1>2 DEF Alone, IInv, ManifestInv
<1>3. SentIsApproved'
  <2>1. CASE Sends(p)
    BY <2>1 DEF Sends, At, IInv, ManifestInv, SentIsApproved
  <2>2. CASE UNCHANGED provider
    BY <2>2 DEF IInv, ManifestInv, SentIsApproved
  <2>3. QED
    BY <2>1, <2>2 DEF Effect, Leaves, Reads, Caught, Ballot, Settles, Claims, Undoes, Records,
       FallsBack, Facts
<1>4. QED
  BY <1>2, <1>3 DEF ManifestInv, ApprovedManifest

\* Who holds the delivery after the step held it before, or has just claimed it.
LEMMA HoldingStep ==
    ASSUME NEW p, Effect(p)
    PROVE  /\ Holding(p)' => Holding(p) \/ Claims(p)
           /\ Holding(p)' => delivery'.status \in {"SUBMITTING", "SUBMITTED"} \/ UNCHANGED delivery
           /\ ~ Claims(p) /\ ~ Holding(p) => UNCHANGED delivery
BY DEF Effect, Leaves, Reads, Caught, Ballot, Settles, Claims, Sends, Undoes, Records,
   FallsBack, Rests, Moves, Neutral, At, Holding, Facts

LEMMA OneInFlightStep ==
    ASSUME IInv, NEW p \in Requests, Alone(p), Effect(p)
    PROVE  OneInFlight'
<1>1. Claims(p) => \A q \in Requests : ~ Holding(q)
  BY DEF Claims, IInv, OneInFlight
<1>2. \A q \in Requests : q # p => (Holding(q)' <=> Holding(q))
  BY DEF Alone, Holding
<1>3. ASSUME NEW q \in Requests, NEW r \in Requests, Holding(q)', Holding(r)' PROVE q = r
  BY <1>1, <1>2, <1>3, HoldingStep DEF IInv, OneInFlight
<1>4. ASSUME NEW q \in Requests, Holding(q)'
      PROVE  delivery'.status \in {"SUBMITTING", "SUBMITTED"}
  BY <1>1, <1>2, <1>4, HoldingStep DEF IInv, OneInFlight, Claims
<1>5. QED
  BY <1>3, <1>4 DEF OneInFlight

LEMMA PaidStep ==
    ASSUME IInv, NEW p \in Requests, Alone(p), Effect(p)
    PROVE  PaidInv'
<1> DEFINE Early == {"submitting", "send", "undo", "fallback"}
<1>1. provider.calls \in Nat /\ failures \in Nat
  BY DEF IInv, TypeOK
<1>2. failures' = failures \/ failures' = failures + 1
  BY DEF Effect, Leaves, Reads, Caught, Ballot, Settles, Claims, Sends, Undoes, Records,
     FallsBack, Calm, Failed
<1>3. CASE Sends(p)
  <2>1. Prepaid /\ provider'.calls = provider.calls + 1 /\ UNCHANGED delivery
    BY <1>3 DEF Sends, At, IInv, PaidInv
  <2>2. Holding(p) /\ delivery.status \notin {"PENDING", "FAILED"}
    BY <1>3 DEF Sends, At, Holding, IInv, OneInFlight
  <2>3. call'[p].pc \in Early => Failed
    BY <1>3 DEF Sends, Moves
  <2>4. \A q \in Requests : q # p => call'[q].pc \notin Early
    BY <2>2 DEF Alone, Holding, IInv, OneInFlight
  <2>5. Failed => Prepaid'
    BY <1>1, <2>1 DEF Failed, Prepaid
  <2>6. SendsArePaidFor'
    BY <1>1, <1>2, <2>1 DEF SendsArePaidFor, Prepaid
  <2>7. QED
    BY <2>1, <2>2, <2>3, <2>4, <2>5, <2>6 DEF PaidInv
<1>4. CASE ~ Sends(p)
  <2>1. UNCHANGED provider
    BY <1>4 DEF Effect, Leaves, Reads, Caught, Ballot, Settles, Claims, Undoes, Records,
       FallsBack, Facts
  <2>2. (Prepaid \/ Failed => Prepaid') /\ SendsArePaidFor'
    BY <1>1, <1>2, <2>1 DEF Prepaid, Failed, SendsArePaidFor, IInv, PaidInv
  <2>3. call'[p].pc \in Early => Prepaid \/ Failed
    BY <1>4 DEF Effect, Leaves, Reads, Caught, Ballot, Settles, Claims, Undoes, Records,
       FallsBack, Rests, Moves, Neutral, At, IInv, PaidInv
  <2>4. \A q \in Requests : call'[q].pc \in Early => Prepaid \/ Failed
    BY <2>3 DEF Alone, IInv, PaidInv
  <2>5. delivery'.status \in {"PENDING", "FAILED"} => Prepaid
    BY <1>4 DEF Effect, Leaves, Reads, Caught, Ballot, Settles, Claims, Undoes, Records,
       FallsBack, Facts, At, IInv, PaidInv
  <2>6. QED
    BY <2>2, <2>4, <2>5 DEF PaidInv
<1>5. QED
  BY <1>3, <1>4

LEMMA DoneStep ==
    ASSUME IInv, NEW p \in Requests, Alone(p), Effect(p)
    PROVE  DoneInv'
<1> DEFINE Accepted == provider.calls > 0
<1>1. provider.calls \in Nat
  BY DEF IInv, TypeOK
<1>2. Accepted \/ Sends(p) => provider'.calls > 0
  BY <1>1 DEF Effect, Leaves, Reads, Caught, Ballot, Settles, Claims, Sends, Undoes, Records,
     FallsBack, Facts
<1>3. call'[p].receipt \/ call'[p].pc \in PastProvider => Accepted \/ Sends(p)
  BY DEF Effect, Leaves, Reads, Caught, Ballot, Settles, Claims, Undoes, Records, FallsBack,
     Rests, Moves, Neutral, PastProvider, At, IInv, DoneInv, DoneMeansAccepted
<1>4. \A q \in Requests : call'[q].receipt \/ call'[q].pc \in PastProvider => Accepted \/ Sends(p)
  BY <1>3 DEF Alone, IInv, DoneInv
<1>5. action' = "COMPLETED" => Accepted
  BY DEF Effect, Leaves, Reads, Caught, Ballot, Settles, Claims, Sends, Undoes, Records,
     FallsBack, PastProvider, At, Facts, IInv, DoneInv, DoneMeansAccepted
<1>6. \/ delivery'.status \in {"SUBMITTED", "QC_PASSED"}
      \/ delivery'.receipt
      => Accepted
  BY DEF Effect, Leaves, Reads, Caught, Ballot, Settles, Claims, Sends, Undoes, Records,
     FallsBack, PastProvider, At, Facts, IInv, DoneInv, DoneMeansAccepted
<1>7. QED
  BY <1>2, <1>4, <1>5, <1>6 DEF DoneInv, DoneMeansAccepted

LEMMA OutsideStep ==
    ASSUME IInv, Outside
    PROVE  GateInv' /\ ManifestInv' /\ OneInFlight' /\ PaidInv' /\ DoneInv'
<1>1. UNCHANGED <<action, votes, risk, delivery, provider, failures, call>>
  BY DEF Outside, Facts
<1>2. GateInv'
  BY <1>1 DEF IInv, GateInv, Gate!Approved, Gate!Rejected, RequiredApprovals
<1>3. ManifestInv' /\ OneInFlight'
  BY <1>1 DEF IInv, ManifestInv, SentIsApproved, ApprovedManifest, OneInFlight, Holding
<1>4. PaidInv' /\ DoneInv'
  BY <1>1 DEF IInv, PaidInv, SendsArePaidFor, Prepaid, DoneInv, DoneMeansAccepted
<1>5. QED
  BY <1>2, <1>3, <1>4

LEMMA NextIInv == IInv /\ [Next]_vars => IInv'
<1> SUFFICES ASSUME IInv, [Next]_vars PROVE IInv'
  OBVIOUS
<1>1. TypeOK'
  BY TypeStep DEF IInv
<1>2. Outside \/ \E p \in Requests : Alone(p) /\ Effect(p)
  BY Effects DEF IInv
<1>3. GateInv' /\ ManifestInv' /\ OneInFlight' /\ PaidInv' /\ DoneInv'
  BY <1>2, OutsideStep, GateStep, ManifestStep, OneInFlightStep, PaidStep, DoneStep
<1>4. QED
  BY <1>1, <1>3 DEF IInv

\* The inductive invariant holds in every reachable state.
THEOREM Invariance == Spec => []IInv
BY InitIInv, NextIInv, PTL DEF Spec

-----------------------------------------------------------------------------
(* The theorems                                                            *)

\* Every variable keeps its type: in particular the rows of the action and
\* the delivery only ever get statuses that belong to them.
THEOREM TypeCorrect == Spec => []TypeOK
<1>1. IInv => TypeOK
  BY DEF IInv
<1>2. QED
  BY <1>1, Invariance, PTL

\* What the provider has received is the asset set that was approved, for any
\* number of asset sets and requests.
THEOREM ProviderSeesApproved == Spec => []SentIsApproved
<1>1. IInv => SentIsApproved
  BY DEF IInv, ManifestInv
<1>2. QED
  BY <1>1, Invariance, PTL

\* claimDelivery lets one handler work on the delivery at a time, however many
\* requests race and whichever of their calls fail.
THEOREM OneHandlerAtATime == Spec => []OneInFlight
<1>1. IInv => OneInFlight
  BY DEF IInv
<1>2. QED
  BY <1>1, Invariance, PTL

\* Calls of the provider beyond the first are each preceded by a failure.
THEOREM SendsPaidFor == Spec => []SendsArePaidFor
<1>1. IInv => SendsArePaidFor
  BY DEF IInv, PaidInv
<1>2. QED
  BY <1>1, Invariance, PTL

\* An action that is COMPLETED, a delivery that is SUBMITTED and a stored
\* receipt all mean that the provider took a submission.
THEOREM DoneIsAccepted == Spec => []DoneMeansAccepted
<1>1. IInv => DoneMeansAccepted
  BY DEF IInv, DoneInv
<1>2. QED
  BY <1>1, Invariance, PTL

\* A step of the delivery is a vote or a send of the gate, or invisible to it.
LEMMA GateSteps ==
    ASSUME IInv, [Next]_vars
    PROVE  [Gate!Next]_<<RequiredApprovals, votes, provider.calls>>
<1>1. CASE Outside
  BY <1>1 DEF Outside, Facts, RequiredApprovals
<1>2. ASSUME NEW p \in Requests, Effect(p)
      PROVE  Gate!Next \/ UNCHANGED <<RequiredApprovals, votes, provider.calls>>
  <2>1. CASE Ballot(p)
    BY <2>1 DEF Ballot, Gate!Next
  <2>2. CASE Sends(p)
    <3>1. Gate!Approved
      BY <2>2 DEF Sends, At, Sending, IInv, GateInv
    <3>2. Gate!Send
      BY <2>2, <3>1 DEF Sends, Gate!Send, RequiredApprovals
    <3>3. QED
      BY <3>2 DEF Gate!Next
  <2>3. CASE UNCHANGED <<votes, risk, provider>>
    BY <2>3 DEF RequiredApprovals
  <2>4. QED
    BY <1>2, <2>1, <2>2, <2>3 DEF Effect, Leaves, Reads, Caught, Settles, Claims, Undoes,
       Records, FallsBack, Facts
<1>3. QED
  BY <1>1, <1>2, Effects DEF IInv

\* decideAction and submitDelivery, with all their retries and failures,
\* implement the approval gate: the provider is not called before enough
\* distinct people approved, and no vote changes after that.
THEOREM DeliveryImplementsGate == Spec => GateHolds
<1>1. Init => Gate!Init
  BY DEF Init, Gate!Init, RequiredApprovals
<1>2. IInv /\ [Next]_vars => [Gate!Next]_<<RequiredApprovals, votes, provider.calls>>
  BY GateSteps
<1>3. QED
  BY <1>1, <1>2, Invariance, PTL DEF Spec, GateHolds, Gate!Spec

-----------------------------------------------------------------------------
(* A stored receipt and the handlers that do not know of it: they read the *)
(* delivery before the receipt was stored and go on to the provider.       *)

Unaware(p) == call[p].pc \in Sending \/ (At(p, "read") /\ ~ call[p].receipt)

UnawareOnes == {p \in Requests : Unaware(p)}

\* What a step may do to them while a receipt is stored.
OnlyShrinks ==
    delivery.receipt =>
        /\ UnawareOnes' \subseteq UnawareOnes
        /\ provider'.calls > provider.calls => UnawareOnes' # UnawareOnes

\* While a provider receipt is stored, nobody joins those who are still on
\* their way to the provider, and each call of the provider takes one of them
\* away: a submission that starts now only finishes the delivery locally.
ReceiptStopsNewcomers == [][OnlyShrinks]_vars

LEMMA UnawareStep ==
    ASSUME IInv, delivery.receipt, NEW p \in Requests, Effect(p)
    PROVE  Unaware(p)' => Unaware(p)
<1>1. CASE Rests(p)
  BY <1>1 DEF Rests, Neutral, Unaware, Sending, At
<1>2. CASE Reads(p)
  BY <1>2 DEF Reads, Moves, Unaware, Sending, At
<1>3. CASE Caught(p) \/ Sends(p) \/ Records(p)
  BY <1>3 DEF Caught, Sends, Records, Moves, Unaware, Sending, At
<1>4. CASE Settles(p)
  BY <1>1, <1>4 DEF Settles, Moves, Unaware, Sending, At
<1>5. CASE Claims(p)
  BY <1>1, <1>5 DEF Claims, Moves, Unaware, Sending, At
<1>6. QED
  BY <1>1, <1>2, <1>3, <1>4, <1>5 DEF Effect, Leaves, Ballot, Undoes, FallsBack

LEMMA NewcomersStep == IInv /\ [Next]_vars => OnlyShrinks
<1> SUFFICES ASSUME IInv, [Next]_vars, delivery.receipt
             PROVE  /\ UnawareOnes' \subseteq UnawareOnes
                    /\ provider'.calls > provider.calls => UnawareOnes' # UnawareOnes
  BY DEF OnlyShrinks
<1>0. provider.calls \in Nat
  BY DEF IInv, TypeOK
<1>1. CASE Outside
  BY <1>0, <1>1 DEF Outside, Facts, UnawareOnes, Unaware, At
<1>2. ASSUME NEW p \in Requests, Alone(p), Effect(p)
      PROVE  /\ UnawareOnes' \subseteq UnawareOnes
             /\ provider'.calls > provider.calls => UnawareOnes' # UnawareOnes
  <2>1. \A q \in Requests : q # p => (Unaware(q)' <=> Unaware(q))
    BY <1>2 DEF Alone, Unaware, At
  <2>2. UnawareOnes' \subseteq UnawareOnes
    BY <1>2, <2>1, UnawareStep DEF UnawareOnes
  <2>3. CASE Sends(p)
    <3>1. Unaware(p) /\ ~ Unaware(p)'
      BY <2>3 DEF Sends, Moves, Unaware, Sending, At
    <3>2. QED
      BY <2>2, <3>1 DEF UnawareOnes
  <2>4. CASE provider' = provider
    BY <1>0, <2>2, <2>4
  <2>5. QED
    BY <1>2, <2>3, <2>4 DEF Effect, Leaves, Reads, Caught, Ballot, Settles, Claims, Undoes,
       Records, FallsBack, Facts
<1>3. QED
  BY <1>1, <1>2, Effects DEF IInv

\* For any number of racing submissions and whatever fails: a submission that
\* starts while a provider receipt is stored never calls the provider.  The
\* calls that may still follow are those of handlers that read the delivery
\* before (src/apps/api/src/workflow/release-workflow.service.ts:223-231).
THEOREM ReceiptSparesProvider == Spec => ReceiptStopsNewcomers
<1>1. IInv /\ [Next]_vars => [OnlyShrinks]_vars
  BY NewcomersStep
<1>2. QED
  BY <1>1, Invariance, PTL DEF Spec, ReceiptStopsNewcomers

=============================================================================
