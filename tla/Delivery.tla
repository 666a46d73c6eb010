------------------------------ MODULE Delivery ------------------------------
(***************************************************************************)
(* One submission action and the delivery it belongs to: the approval      *)
(* decisions, submitDelivery with its preflight, the provider call, the    *)
(* finalisation and its fallback, and the reconciliation of a delivery     *)
(* that was submitted but not finished.                                    *)
(*                                                                         *)
(* As in Evaluation, a handler is a sequence of awaited calls, each of     *)
(* them one action, and call[p] is the frame of the request p.  The        *)
(* preflight's own workflow_runs row and the audit trail are left out: no  *)
(* handler acts on them.                                                   *)
(***************************************************************************)
EXTENDS Naturals, FiniteSets, ReleaseTypes

CONSTANTS
    Actors,        \* people who may decide
    Requests,      \* concurrent API requests
    Faults,        \* the faults that may happen in this instance
    MaxFailures,   \* bound: how often they happen
    MaxManifests   \* bound: versions of the asset set

Manifests == 1 .. MaxManifests
ApprovedManifest == 1      \* manifestVersion in the action's input

ASSUME ActorsAssumption == IsFiniteSet(Actors)
ASSUME BoundsAssumption == MaxFailures \in Nat /\ MaxManifests \in Nat \ {0}
ASSUME FaultsAssumption ==
    Faults \subseteq {"throw", "lostReply", "provider", "crash"}

VARIABLES
    release,    \* state of the release
    manifest,   \* version of its asset set
    lateRun,    \* an evaluation checked before the approval is still to end
    risk,       \* risk of the submission action
    action,     \* its status
    votes,      \* the approvals rows of the action
    delivery,   \* the delivery_attempts row: status and stored receipt
    run,        \* status of the workflow run that waits for the action
    provider,   \* what the provider has accepted
    failures,   \* faults so far
    call        \* what each request is doing

data == <<release, manifest, lateRun, risk, action, votes, delivery, run, provider>>
vars == <<data, failures, call>>

Votes == {"NONE", "APPROVED", "REJECTED"}

RequiredApprovals == IF risk = "R3" THEN 2 ELSE 1

Steps ==
    {"idle", "read", "reclaim", "preflight", "reject", "block", "claim",
     "submitting", "send", "undo", "undone", "record", "fallback", "complete",
     "deliver", "list", "mark", "reconcile", "recomplete", "settle"}

\* receipt and manifest are the handler's snapshots; state is the release
\* state it read or is going to write, status what it will write to the run.
CallRecords ==
    [pc : Steps, receipt : BOOLEAN, manifest : Nat, state : ReleaseStates,
     status : RunStatuses]

IdleCall ==
    [pc |-> "idle", receipt |-> FALSE, manifest |-> 0, state |-> "DRAFT",
     status |-> "NONE"]

TypeOK ==
    /\ release \in ReleaseStates
    /\ manifest \in Manifests
    /\ lateRun \in BOOLEAN
    /\ risk \in {"R2", "R3"}
    /\ action \in ActionStatuses
    /\ votes \in [Actors -> Votes]
    /\ delivery \in [status : DeliveryStatuses, receipt : BOOLEAN]
    /\ run \in RunStatuses
    /\ provider \in [calls : Nat, manifests : SUBSET Manifests]
    /\ failures \in Nat
    /\ call \in [Requests -> CallRecords]

\* An evaluation ended in READY_FOR_APPROVAL and ensured the submission.
Init ==
    /\ release = "READY_FOR_APPROVAL"
    /\ manifest = ApprovedManifest
    /\ lateRun \in BOOLEAN
    /\ risk \in {"R2", "R3"}
    /\ action = "PENDING_APPROVAL"
    /\ votes = [a \in Actors |-> "NONE"]
    /\ delivery = [status |-> "PENDING", receipt |-> FALSE]
    /\ run = "WAITING"
    /\ provider = [calls |-> 0, manifests |-> {}]
    /\ failures = 0
    /\ call = [p \in Requests |-> IdleCall]

-----------------------------------------------------------------------------
(* How a handler goes on.                                                  *)

At(p, step) == call[p].pc = step
Goto(p, step) == [call[p] EXCEPT !.pc = step]

Become(p, frame) ==
    /\ call' = [call EXCEPT ![p] = frame]
    /\ UNCHANGED failures

\* Seeded fault: nothing is caught around the provider.
ThrownUncaught(p) == IF call[p].pc = "record" THEN Goto(p, "fallback") ELSE IdleCall

\* The frame after the current call threw: submitDelivery catches around the
\* provider, finalizeDelivery around its first write.
Thrown(p) ==
    CASE call[p].pc \in {"submitting", "send"} -> Goto(p, "undo")
      [] call[p].pc = "record" -> Goto(p, "fallback")
      [] OTHER -> IdleCall

Fail(fault, p, frame) ==
    /\ fault \in Faults
    /\ failures < MaxFailures
    /\ failures' = failures + 1
    /\ call' = [call EXCEPT ![p] = frame]

\* The call committed; its reply may be lost.
Return(p, frame) == Become(p, frame) \/ Fail("lostReply", p, Thrown(p))

-----------------------------------------------------------------------------
(* decideAction                                                            *)

Approvals == {a \in Actors : votes[a] = "APPROVED"}

\* decideApproval, under locks on the release and the action: one vote per
\* person and only on a pending action; the vote, the action and the release
\* change together.
Decide(p, a, decision) ==
    /\ At(p, "idle")
    /\ action = "PENDING_APPROVAL"
    /\ votes[a] = "NONE"
    /\ votes' = [votes EXCEPT ![a] = decision]
    /\ \/ /\ decision = "REJECTED"
          /\ action' = "REJECTED"
          /\ release' = "BLOCKED"
          /\ Return(p, [IdleCall EXCEPT !.pc = "list", !.status = "COMPLETED"])
       \/ /\ decision = "APPROVED"
          /\ Cardinality(Approvals') >= RequiredApprovals
          /\ action' = "APPROVED"
          /\ release' = "APPROVED"
          /\ Return(p, [IdleCall EXCEPT !.pc = "list", !.status = "WAITING"])
       \/ /\ decision = "APPROVED"
          /\ Cardinality(Approvals') < RequiredApprovals
          /\ Return(p, IdleCall)
          /\ UNCHANGED <<action, release>>
    /\ UNCHANGED <<manifest, lateRun, risk, delivery, run, provider>>

\* checkpointAction looks for a run that waits for the action ...
ListRuns(p) ==
    /\ At(p, "list")
    /\ Become(p, IF run = "WAITING" THEN Goto(p, "mark") ELSE IdleCall)
    /\ UNCHANGED data

\* ... and writes the status over whatever the run has become.
MarkRun(p) ==
    /\ At(p, "mark")
    /\ run' = call[p].status
    /\ Return(p, IdleCall)
    /\ UNCHANGED <<release, manifest, lateRun, risk, action, votes, delivery, provider>>

-----------------------------------------------------------------------------
(* submitDelivery: reads and preflight                                     *)

\* Seeded fault: a delivery that is being submitted counts as submitted.
SubmittedOrOpen == delivery.status \in {"SUBMITTING", "SUBMITTED", "QC_PASSED"}

IsSubmitted == delivery.status \in {"SUBMITTED", "QC_PASSED"}

\* Seeded fault: the stored receipt is not found.
ReceiptMissed == FALSE

ProviderReceipt == delivery.receipt

\* requireDelivery: the receipt is looked up in this snapshot later on.
ReadDelivery(p) ==
    /\ At(p, "idle")
    /\ Become(p, IF IsSubmitted
                 THEN [IdleCall EXCEPT !.pc = "reconcile"]
                 ELSE [IdleCall EXCEPT !.pc = "read", !.receipt = ProviderReceipt])
    /\ UNCHANGED data

\* Seeded fault: only a rejected action keeps a delivery back.
NotRejected == action # "REJECTED"

Submittable == action = "APPROVED"

\* requireRelease: the action must be approved; the release's own state is
\* not looked at.
ReadRelease(p) ==
    /\ At(p, "read")
    /\ Become(p, IF ~ Submittable THEN IdleCall
                 ELSE [call[p] EXCEPT !.pc = IF call[p].receipt THEN "reclaim" ELSE "preflight",
                                      !.manifest = manifest])
    /\ UNCHANGED data

\* Seeded fault: the preflight does not compare the manifest.
AnyManifest(p) == TRUE

ManifestCurrent(p) == call[p].manifest = ApprovedManifest

\* validateRelease on the snapshot, then the three reasons to turn it down.
\* Rights are judged against the clock: blockers may appear at any time, and
\* an R2 action may have come into the window that needs R3.
Preflight(p) ==
    /\ At(p, "preflight")
    /\ \/ ManifestCurrent(p) /\ Become(p, Goto(p, "claim"))
       \/ Become(p, [call[p] EXCEPT !.pc = "reject", !.state = "BLOCKED"])
       \/ /\ ManifestCurrent(p)
          /\ risk = "R2"
          /\ Become(p, [call[p] EXCEPT !.pc = "reject", !.state = "READY_FOR_APPROVAL"])
    /\ UNCHANGED data

-----------------------------------------------------------------------------
(* Writes to the action and to the release, all of them unconditional      *)

\* What a reconciliation need not write again.
Delivered == {"SUBMITTED", "QC_PASSED"}

\* updateAction, with the step that follows.
WriteAction(p) ==
    /\ \/ At(p, "reject") /\ action' = "REJECTED" /\ Return(p, Goto(p, "block"))
       \/ At(p, "complete") /\ action' = "COMPLETED" /\ Return(p, Goto(p, "deliver"))
       \/ /\ At(p, "recomplete")
          /\ action' = "COMPLETED"
          /\ Return(p, IF call[p].state \in Delivered THEN IdleCall ELSE Goto(p, "settle"))
    /\ UNCHANGED <<release, manifest, lateRun, risk, votes, delivery, run, provider>>

\* updateReleaseState: after a rejection, before the provider call, after a
\* failed one, and at the end of a submission or a reconciliation.
WriteState(p) ==
    /\ \/ At(p, "block") /\ release' = call[p].state /\ Return(p, IdleCall)
       \/ At(p, "submitting") /\ release' = "SUBMITTING" /\ Return(p, Goto(p, "send"))
       \/ At(p, "undone") /\ release' = "APPROVED" /\ Return(p, IdleCall)
       \/ /\ At(p, "deliver")
          /\ release' = "SUBMITTED"
          /\ Return(p, [call[p] EXCEPT !.pc = "list", !.status = "COMPLETED"])
       \/ At(p, "settle") /\ release' = "SUBMITTED" /\ Return(p, IdleCall)
    /\ UNCHANGED <<manifest, lateRun, risk, action, votes, delivery, run, provider>>

-----------------------------------------------------------------------------
(* submitDelivery: claim, provider, finalisation                           *)

\* updateDelivery: unconditional, and the response is replaced as a whole.
WriteDelivery(status, receipt) ==
    /\ delivery' = [status |-> status, receipt |-> receipt]
    /\ UNCHANGED <<release, manifest, lateRun, risk, action, votes, run, provider>>

\* Seeded fault: a submitted delivery can be claimed again.
ClaimableAgain == delivery.status \in {"PENDING", "FAILED", "SUBMITTED"}

\* Seeded fault: a submission in progress can be claimed again.
ClaimableOpen == delivery.status \in {"PENDING", "FAILED", "SUBMITTING"}

ClaimableDelivery == delivery.status \in {"PENDING", "FAILED"}

\* claimDelivery, to send or, with a receipt in hand, to finish only.
ClaimDelivery(p) ==
    /\ ClaimableDelivery
    /\ \/ At(p, "claim") /\ Return(p, Goto(p, "submitting"))
       \/ At(p, "reclaim") /\ Return(p, Goto(p, "record"))
    /\ WriteDelivery("SUBMITTING", delivery.receipt)

\* Somebody else is at it, or done: the row is returned as it is.
ClaimLost(p) ==
    /\ At(p, "claim") \/ At(p, "reclaim")
    /\ ~ ClaimableDelivery
    /\ Become(p, IdleCall)
    /\ UNCHANGED data

\* The provider takes the submission; its answer may not come back.
Send(p) ==
    /\ At(p, "send")
    /\ provider' = [calls |-> provider.calls + 1,
                    manifests |-> provider.manifests \cup {call[p].manifest}]
    /\ Become(p, Goto(p, "record")) \/ Fail("provider", p, Thrown(p))
    /\ UNCHANGED <<release, manifest, lateRun, risk, action, votes, delivery, run>>

\* The catch around the provider: the response, and with it any receipt, is
\* replaced by the error.
Undo(p) ==
    /\ At(p, "undo")
    /\ WriteDelivery("FAILED", FALSE)
    /\ Return(p, Goto(p, "undone"))

\* finalizeDelivery: the provider's response replaces the stored receipt.
Record(p) ==
    /\ At(p, "record")
    /\ WriteDelivery("SUBMITTED", FALSE)
    /\ Return(p, Goto(p, "complete"))

\* Its fallback when that write threw: a FAILED row that holds the receipt.
Fallback(p) ==
    /\ At(p, "fallback")
    /\ WriteDelivery("FAILED", TRUE)
    /\ Return(p, IdleCall)

\* reconcileSubmittedDelivery decides on one read what it is going to write.
Reconcile(p) ==
    /\ At(p, "reconcile")
    /\ Become(p, CASE action \in {"REJECTED", "FAILED"} -> IdleCall
                   [] action = "APPROVED" ->
                        [call[p] EXCEPT !.pc = "recomplete", !.state = release]
                   [] OTHER -> IF release \in Delivered THEN IdleCall ELSE Goto(p, "settle"))
    /\ UNCHANGED data

-----------------------------------------------------------------------------
(* The rest of the API as far as a delivery sees it, and faults            *)

\* finishEvaluationRun of a run that was checked before the approval and
\* claimed after it: its state lands on the approved release.
LateRunEnds ==
    /\ lateRun
    /\ lateRun' = FALSE
    /\ release' \in {"BLOCKED", "REMEDIATING", "READY_FOR_APPROVAL"}
    /\ UNCHANGED <<manifest, risk, action, votes, delivery, run, provider, failures, call>>

\* registerAsset
RegisterAsset ==
    /\ release \in AssetMutableStates
    /\ manifest < MaxManifests
    /\ manifest' = manifest + 1
    /\ UNCHANGED <<release, lateRun, risk, action, votes, delivery, run, provider,
                   failures, call>>

Throw(p) ==
    /\ ~ At(p, "idle")
    /\ Fail("throw", p, Thrown(p))
    /\ UNCHANGED data

Crash(p) ==
    /\ ~ At(p, "idle")
    /\ Fail("crash", p, IdleCall)
    /\ UNCHANGED data

-----------------------------------------------------------------------------
Start(p) ==
    \/ \E a \in Actors, decision \in {"APPROVED", "REJECTED"} : Decide(p, a, decision)
    \/ ReadDelivery(p)

Progress(p) ==
    \/ ListRuns(p) \/ MarkRun(p) \/ ReadRelease(p) \/ Preflight(p) \/ WriteAction(p)
    \/ WriteState(p) \/ ClaimDelivery(p) \/ ClaimLost(p) \/ Send(p) \/ Undo(p)
    \/ Record(p) \/ Fallback(p) \/ Reconcile(p)

Next ==
    \/ \E p \in Requests : Start(p) \/ Progress(p) \/ Throw(p) \/ Crash(p)
    \/ LateRunEnds
    \/ RegisterAsset

Spec == Init /\ [][Next]_vars

\* A handler that was called runs on.
FairSpec == Spec /\ \A p \in Requests : WF_vars(Progress(p))

-----------------------------------------------------------------------------
(* Properties                                                              *)

\* The whole of submitDelivery, its retries and its failures implement the
\* approval gate: no call of the provider without enough distinct approvals.
Gate == INSTANCE ApprovalGate WITH required <- RequiredApprovals, sends <- provider.calls

GateHolds == Gate!Spec

\* p claimed the delivery and has not given it back.
Holding(p) == call[p].pc \in {"submitting", "send", "undo", "record", "fallback"}

\* claimDelivery admits one handler at a time, through failed provider calls,
\* recovery from a receipt and writes whose reply was lost; while it works
\* nobody else can claim.
OneInFlight ==
    /\ \A p, q \in Requests : Holding(p) /\ Holding(q) => p = q
    /\ \A p \in Requests : Holding(p) => delivery.status \in {"SUBMITTING", "SUBMITTED"}

\* What the provider was sent is the asset set that was approved, although
\* the release can be changed between the approval and the submission.
SentIsApproved == provider.manifests \subseteq {ApprovedManifest}

\* Without a failure the provider is called once, and each further call is
\* preceded by a failure of its own, however many requests race.
SendsArePaidFor == provider.calls <= failures + 1

\* Nothing is reported as delivered that the provider never took: neither by
\* the action, nor by the delivery or a receipt stored in it.
DoneMeansAccepted ==
    action = "COMPLETED" \/ delivery.status = "SUBMITTED" \/ delivery.receipt =>
        provider.calls > 0

\* While a provider receipt is stored, the delivery is only finished locally:
\* the provider is not called again.
ReceiptStopsSending == [][provider'.calls > provider.calls => ~ delivery.receipt]_vars

\* A delivery does not stay claimed: whichever single call throws, it is
\* submitted or can be tried again.
SubmittingEnds == delivery.status = "SUBMITTING" ~> delivery.status # "SUBMITTING"
=============================================================================
