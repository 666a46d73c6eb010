---------------------------- MODULE ReleaseTypes ----------------------------
(***************************************************************************)
(* The state and status vocabularies that the API, its repository and the  *)
(* worker share (packages/contracts/src/index.ts), and the two predicates  *)
(* on release states that gate operations.  No state is kept here.         *)
(***************************************************************************)

ReleaseStates ==
    {"DRAFT", "VALIDATING", "BLOCKED", "REMEDIATING", "NEEDS_HUMAN",
     "READY_FOR_APPROVAL", "APPROVED", "SUBMITTING", "RETRY_WAIT",
     "SUBMITTED", "QC_PASSED", "QC_FAILED", "COMPLETED"}

\* "NONE" stands for a row that does not exist yet.
ActionStatuses ==
    {"NONE", "PROPOSED", "PENDING_APPROVAL", "APPROVED", "REJECTED",
     "RUNNING", "COMPLETED", "FAILED"}

DeliveryStatuses ==
    {"PENDING", "SUBMITTING", "SUBMITTED", "QC_PASSED", "QC_FAILED", "FAILED"}

RunStatuses == {"NONE", "RUNNING", "WAITING", "COMPLETED", "FAILED"}

\* The states from which validate, run and queue accept a release.
RunnableStates ==
    {"DRAFT", "BLOCKED", "REMEDIATING", "NEEDS_HUMAN", "READY_FOR_APPROVAL",
     "QC_FAILED"}

\* Seeded fault: assets may change while an evaluation is in progress.
MutableWhileValidating == {"DRAFT", "BLOCKED", "REMEDIATING", "NEEDS_HUMAN", "VALIDATING"}

\* isAssetMutableState: the states in which assets may be registered.
AssetMutableStates == {"DRAFT", "BLOCKED", "REMEDIATING", "NEEDS_HUMAN"}
=============================================================================
