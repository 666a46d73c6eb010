---------------------------- MODULE WorkerGraph ----------------------------
(***************************************************************************)
(* The delivery graph of the worker (workflow.ts) and the platform adapter *)
(* it submits to (platform.ts).  The graph keeps no state of its own: an   *)
(* invocation starts from a checkpoint its caller holds and returns a new  *)
(* one.  Callers may keep every checkpoint they were given, resume old     *)
(* ones, resume one twice and run several invocations at once; an          *)
(* invocation whose node throws returns nothing.  What ties the copies     *)
(* together is the idempotency key under which the adapter records         *)
(* acceptances, and the binding of an approval to one package.             *)
(*                                                                         *)
(* An optional field of a checkpoint is a set of at most one element.  A   *)
(* hash is the value it is taken of: SHA-256 is assumed free of            *)
(* collisions.  Audit events, messages and actor names are left out.       *)
(***************************************************************************)
EXTENDS Naturals, FiniteSets, ReleaseTypes

CONSTANTS
    Invocations,       \* start and resume calls that can be in progress at once
    StartInputs,       \* what start may be called with
    Updates,           \* what resume may be called with to revise the input
    SubtitleFindings,  \* the codes validateSrt reports for a content
    RightsFindings,    \* the codes rightsFinding reports for a rights window
    RepairSrt,         \* the content repairSrt returns
    MaxCalls           \* bound: start and resume calls ever made

ASSUME MaxCallsAssumption == MaxCalls \in Nat

VARIABLES
    running,      \* the node and checkpoint of each invocation in progress
    saved,        \* checkpoints the callers were given
    approvals,    \* decisions of people on packages presented to them
    calls,        \* start and resume calls so far
    \* the adapter
    records,              \* key -> id of the request accepted under it
    requests,             \* every request the platform accepted
    captionTracks,        \* caption tracks that exist on the platform
    externalSubmitCount   \* attempts so far

adapter == <<records, requests, captionTracks, externalSubmitCount>>
vars == <<running, saved, approvals, calls, adapter>>

-----------------------------------------------------------------------------
(* Findings                                                                *)

RepairableFindings ==
    {"SUBTITLE_CPS_EXCEEDED", "SUBTITLE_DURATION_TOO_SHORT",
     "SUBTITLE_DURATION_TOO_LONG"}

Waivable == {"RIGHTS_EXPIRING_SOON"}

RightsCodes ==
    {"RIGHTS_NOT_STARTED", "RIGHTS_EXPIRING_SOON", "RIGHTS_EXPIRED"}

\* What validateSrt may find in a subtitle.
SubtitleCodes ==
    RepairableFindings \cup
    {"SRT_INVALID", "SUBTITLE_OVERLAP", "SUBTITLE_EMPTY", "SUBTITLE_AFTER_MEDIA_END"}

ASSUME FindingsAssumption ==
    /\ \A srt \in DOMAIN SubtitleFindings : SubtitleFindings[srt] \subseteq SubtitleCodes
    /\ \A rights \in DOMAIN RightsFindings : RightsFindings[rights] \subseteq RightsCodes
    /\ RepairSrt \in [DOMAIN SubtitleFindings -> DOMAIN SubtitleFindings]

ASSUME InputsAssumption ==
    /\ \A input \in StartInputs :
        input.currentSrt \in DOMAIN SubtitleFindings /\ input.rights \in DOMAIN RightsFindings
    /\ \A update \in Updates :
        /\ update.updatedSubtitleSrt \subseteq DOMAIN SubtitleFindings
        /\ update.updatedRights \subseteq DOMAIN RightsFindings

-----------------------------------------------------------------------------
(* Identities                                                              *)

\* inputMaterial, hashed.  revision links to the hash before a revision.
InputHash(c, revision) ==
    [releaseId |-> c.releaseId, srt |-> c.currentSrt, rights |-> c.rights,
     command |-> c.deliveryCommand, revision |-> revision]

StartVersion(label) == [label |-> label, hash |-> {}]
RevisionVersion(hash) == [label |-> "revision", hash |-> {hash}]

\* createIdempotencyKey; the action type is always SUBMIT_DELIVERY.
KeyOf(c) ==
    [releaseId |-> c.releaseId, inputVersion |-> c.inputVersion,
     platform |-> c.deliveryCommand.platform]

\* The package and the command that packageRelease builds.  The TTML and the
\* digests are functions of the contents they name.
PackageOf(c) ==
    [releaseId |-> c.releaseId, inputVersion |-> c.inputVersion,
     platform |-> c.deliveryCommand.platform,
     parent |-> c.sourceSrt, srt |-> c.currentSrt]

PreparedCommand(c) ==
    [command |-> c.deliveryCommand, content |-> c.currentSrt,
     manifest |-> IF c.deliveryCommand.platform = "OTT" THEN {PackageOf(c)} ELSE {}]

\* approvalBinding of a checkpoint that has a package.
ApprovalBinding(c) ==
    [releaseId |-> c.releaseId, inputVersion |-> c.inputVersion,
     inputHash |-> c.inputHash, artifact |-> c.deliveryPackage,
     command |-> c.preparedCommand]

\* Seeded fault: any decision will do.
AnyApproval(c, approval) == c.approvalRequest = {ApprovalBinding(c)}

\* validateApprovalForCheckpoint does not throw.
ValidApproval(c, approval) ==
    /\ c.approvalRequest = {ApprovalBinding(c)}
    /\ approval.binding = ApprovalBinding(c)

-----------------------------------------------------------------------------
(* Checkpoints                                                             *)

InitialCheckpoint(input) ==
    [releaseId |-> input.releaseId,
     inputVersion |-> StartVersion(input.inputVersion),
     inputHash |-> InputHash(input, {}),
     state |-> "DRAFT",
     sourceSrt |-> input.currentSrt,
     currentSrt |-> input.currentSrt,
     rights |-> input.rights,
     findings |-> {},
     deliveryCommand |-> input.deliveryCommand,
     deliveryPackage |-> {},
     preparedCommand |-> {},
     approvalRequest |-> {},
     approval |-> {},
     submission |-> {},
     qcResult |-> {}]

\* An update gives a new subtitle, new rights, or a QC remediation that may
\* replace the delivery command; each part is a set of at most one element.
NewCommand(update) == UNION {r.deliveryCommand : r \in update.qcRemediation}

Replace(old, new) == IF new = {} THEN old ELSE CHOOSE v \in new : TRUE

\* The updated input, before it is hashed.
Updated(c, update) ==
    [c EXCEPT
        !.currentSrt = Replace(@, update.updatedSubtitleSrt),
        !.rights = Replace(@, update.updatedRights),
        !.deliveryCommand = Replace(@, NewCommand(update))]

\* Seeded faults: a revision keeps the input version, or the pending request.
RevisedInPlace(c, update) ==
    [Updated(c, update) EXCEPT
        !.state = "DRAFT", !.findings = {},
        !.deliveryPackage = {}, !.preparedCommand = {},
        !.approvalRequest = {}, !.approval = {},
        !.submission = {}, !.qcResult = {}]

RevisedBesideRequest(c, update) ==
    [RevisedInPlace(c, update) EXCEPT
        !.approvalRequest = c.approvalRequest, !.approval = c.approval]

\* reviseCheckpoint of a checkpoint it accepts.  The hash tells which parts
\* were updated, and the remediation as a whole.
Revised(c, update) ==
    LET next == Updated(c, update)
        revision == [previous |-> c.inputHash,
                     subtitle |-> update.updatedSubtitleSrt # {},
                     rights |-> update.updatedRights # {},
                     qcRemediation |-> update.qcRemediation]
        hash == InputHash(next, {revision})
    IN  [next EXCEPT
            !.inputHash = hash,
            !.inputVersion = RevisionVersion(hash),
            !.state = "DRAFT",
            !.findings = {},
            !.deliveryPackage = {}, !.preparedCommand = {},
            !.approvalRequest = {}, !.approval = {},
            !.submission = {}, !.qcResult = {}]

-----------------------------------------------------------------------------
(* The graph: invocation i goes on with a node, or returns its checkpoint. *)

Nodes == {"validate", "repair", "manual", "package", "approval", "recover",
          "submit", "qc"}

Goto(i, node, c) ==
    IF node = "__end__"
    THEN /\ saved' = saved \cup {c}
         /\ running' = [running EXCEPT ![i] = {}]
    ELSE /\ running' = [running EXCEPT ![i] = {[node |-> node, checkpoint |-> c]}]
         /\ UNCHANGED saved

\* Invocation i is at a node with checkpoint c.
At(i, node, c) == running[i] = {[node |-> node, checkpoint |-> c]}

Held(i) == {t.checkpoint : t \in running[i]}

\* submitNode awaits recover before submit: two nodes here.
RouteEntry(c) ==
    CASE c.state \in {"DRAFT", "VALIDATING", "REMEDIATING"} -> "validate"
      [] c.state \in {"READY_FOR_APPROVAL", "NEEDS_HUMAN"} /\ c.approval # {} -> "approval"
      [] c.state \in {"APPROVED", "SUBMITTING", "RETRY_WAIT"} -> "recover"
      [] c.state = "SUBMITTED" -> "qc"
      [] OTHER -> "__end__"

RouteAfterValidation(c) ==
    CASE c.findings \subseteq Waivable -> "package"
      [] c.findings \subseteq Waivable \cup RepairableFindings
         /\ c.findings \cap RepairableFindings # {} -> "repair"
      [] OTHER -> "manual"

\* Seeded fault: a repair is taken to have worked.
PackageAfterRepair(c) == "package"

RouteAfterRepair(c) == IF c.findings \subseteq Waivable THEN "package" ELSE "manual"

-----------------------------------------------------------------------------
(* Calls                                                                   *)

Call(i) ==
    /\ running[i] = {}
    /\ calls < MaxCalls
    /\ calls' = calls + 1
    /\ UNCHANGED <<approvals, adapter>>

Start(i) ==
    /\ Call(i)
    /\ \E input \in StartInputs :
        /\ input.deliveryCommand.releaseId = input.releaseId
        /\ Goto(i, "validate", InitialCheckpoint(input))

\* resume without a revision, with a decision or without.
Resume(i) ==
    /\ Call(i)
    /\ \E c \in saved :
        \/ Goto(i, RouteEntry(c), c)
        \/ \E approval \in approvals :
            LET next == [c EXCEPT !.approval = {approval}]
            IN  /\ ValidApproval(c, approval)
                /\ Goto(i, RouteEntry(next), next)

\* resume with a revision.  A decision may not come along.
Revise(i) ==
    /\ Call(i)
    /\ \E c \in saved, update \in Updates :
        /\ update.qcRemediation # {} => c.state = "QC_FAILED"
        /\ \A command \in NewCommand(update) : command.releaseId = c.releaseId
        /\ Goto(i, "validate", Revised(c, update))

-----------------------------------------------------------------------------
(* Nodes                                                                   *)

\* Invocation i leaves a node that touches nothing but its checkpoint.
Pass(i, node, c, next, result) ==
    /\ At(i, node, c)
    /\ Goto(i, next, result)
    /\ UNCHANGED <<approvals, calls, adapter>>

Validated(c) ==
    LET findings == SubtitleFindings[c.currentSrt] \cup RightsFindings[c.rights]
    IN  [c EXCEPT
            !.state = IF findings = {} THEN "VALIDATING" ELSE "BLOCKED",
            !.findings = findings]

Validate(i) ==
    \E c \in Held(i) :
        Pass(i, "validate", c, RouteAfterValidation(Validated(c)), Validated(c))

Repaired(c) ==
    [c EXCEPT
        !.state = "REMEDIATING",
        !.currentSrt = RepairSrt[@],
        !.findings = SubtitleFindings[RepairSrt[c.currentSrt]] \cup (@ \cap RightsCodes)]

Repair(i) ==
    \E c \in Held(i) : Pass(i, "repair", c, RouteAfterRepair(Repaired(c)), Repaired(c))

ToHuman(c) == [c EXCEPT !.state = "NEEDS_HUMAN"]

Manual(i) == \E c \in Held(i) : Pass(i, "manual", c, "__end__", ToHuman(c))

Packaged(c) ==
    [c EXCEPT !.deliveryPackage = {PackageOf(c)}, !.preparedCommand = {PreparedCommand(c)}]

Package(i) == \E c \in Held(i) : Pass(i, "package", c, "approval", Packaged(c))

\* approvalNode: ask for a decision, or act on the one that was given.
Decided(c) ==
    CASE ~ c.findings \subseteq Waivable -> ToHuman(c)
      [] c.findings \subseteq Waivable /\ c.approval = {} ->
            [c EXCEPT
                !.state = IF c.findings = {} THEN "READY_FOR_APPROVAL" ELSE "NEEDS_HUMAN",
                !.approvalRequest = {ApprovalBinding(c)}]
      [] OTHER ->
            [c EXCEPT
                !.state = IF \E a \in c.approval : a.decision = "REJECTED"
                          THEN "BLOCKED" ELSE "APPROVED"]

RouteAfterApproval(c) == IF c.state = "APPROVED" THEN "recover" ELSE "__end__"

\* The node throws when the decision does not fit the package.
Approval(i) ==
    \E c \in Held(i) :
        /\ \A a \in c.approval : ValidApproval(c, a)
        /\ Pass(i, "approval", c, RouteAfterApproval(Decided(c)), Decided(c))

-----------------------------------------------------------------------------
(* submitNode and qcNode                                                   *)

Submitted(c, id) ==
    [c EXCEPT !.state = "SUBMITTED",
              !.submission = {[status |-> "SUBMITTED", request |-> {id}]}]

\* The receipt may be lost after the platform accepted.
RetryWait(c) ==
    [c EXCEPT !.state = "RETRY_WAIT",
              !.submission = {[status |-> "UNKNOWN", request |-> {}]}]

Refused(c, code) ==
    [c EXCEPT !.state = "BLOCKED", !.findings = @ \cup {code},
              !.submission = {[status |-> "FAILED", request |-> {}]}]

\* submitNode up to the answer of recover.
Recover(i) ==
    \E c \in Held(i) :
        \/ /\ KeyOf(c) \in DOMAIN records
           /\ Pass(i, "recover", c, "qc", Submitted(c, records[KeyOf(c)]))
        \/ /\ KeyOf(c) \notin DOMAIN records
           /\ Pass(i, "recover", c, "submit", [c EXCEPT !.state = "SUBMITTING"])

CaptionTracks(c) ==
    IF c.deliveryCommand.platform = "YOUTUBE" THEN {c.deliveryCommand.track} ELSE {}

\* The platform accepts and records the request under its key.
Accept(c, id, verdict) ==
    /\ records' = [k \in DOMAIN records \cup {KeyOf(c)} |->
                    IF k = KeyOf(c) THEN id ELSE records[k]]
    /\ requests' = requests \cup
        {[id |-> id, key |-> KeyOf(c), sent |-> c.preparedCommand, verdict |-> verdict]}
    /\ captionTracks' = captionTracks \cup CaptionTracks(c)

\* Seeded fault: what timed out is not recorded.
ForgetTimeout(i, c) ==
    LET id == externalSubmitCount + 1
    IN  /\ externalSubmitCount' = id
        /\ \/ \E verdict \in {"PASSED", "FAILED"} :
                Accept(c, id, verdict) /\ Goto(i, "qc", Submitted(c, id))
           \/ /\ \/ Goto(i, "__end__", RetryWait(c))
                 \/ Goto(i, "__end__", Refused(c, "PLATFORM_REJECTED"))
              /\ UNCHANGED <<records, requests, captionTracks>>

\* The platform is asked for the first time: it accepts and answers, accepts
\* without answering, or rejects.
Attempt(i, c) ==
    LET id == externalSubmitCount + 1
    IN  /\ externalSubmitCount' = id
        /\ \/ \E verdict \in {"PASSED", "FAILED"} :
                /\ Accept(c, id, verdict)
                /\ Goto(i, "qc", Submitted(c, id)) \/ Goto(i, "__end__", RetryWait(c))
           \/ /\ Goto(i, "__end__", Refused(c, "PLATFORM_REJECTED"))
              /\ UNCHANGED <<records, requests, captionTracks>>

\* The adapter's submit runs to its end without giving way.
Submit(i) ==
    /\ \E c \in Held(i) :
        /\ At(i, "submit", c)
        /\ \/ /\ KeyOf(c) \in DOMAIN records
              /\ Goto(i, "qc", Submitted(c, records[KeyOf(c)]))
              /\ UNCHANGED adapter
           \/ /\ KeyOf(c) \notin DOMAIN records
              /\ CaptionTracks(c) \cap captionTracks # {}
              /\ Goto(i, "__end__", Refused(c, "CAPTION_TRACK_CONFLICT"))
              /\ UNCHANGED adapter
           \/ /\ KeyOf(c) \notin DOMAIN records
              /\ CaptionTracks(c) \cap captionTracks = {}
              /\ Attempt(i, c)
    /\ UNCHANGED <<approvals, calls>>

Judged(c, verdict) ==
    IF verdict = "PASSED"
    THEN [c EXCEPT !.state = "COMPLETED", !.qcResult = {"PASSED"}]
    ELSE [c EXCEPT !.state = "QC_FAILED", !.qcResult = {"FAILED"},
                   !.findings = @ \cup {"PLATFORM_QC_FAILED"}]

\* poll throws when the platform does not know the request.
Qc(i) ==
    \E c \in Held(i), r \in requests :
        /\ \E s \in c.submission : r.id \in s.request
        /\ Pass(i, "qc", c, "__end__", Judged(c, r.verdict))

\* A node throws (appendAudit refuses the clock's answer, or the node found
\* its checkpoint unfit) or the process dies: the caller gets nothing, and
\* what the node did at the platform stays done.
Throw(i) ==
    /\ running[i] # {}
    /\ running' = [running EXCEPT ![i] = {}]
    /\ UNCHANGED <<saved, approvals, calls, adapter>>

\* Somebody decides on a package that a checkpoint presents.
Decide ==
    /\ \E c \in saved, decision \in {"APPROVED", "REJECTED"} :
        \E binding \in c.approvalRequest :
            approvals' = approvals \cup {[binding |-> binding, decision |-> decision]}
    /\ UNCHANGED <<running, saved, calls, adapter>>

-----------------------------------------------------------------------------
Init ==
    /\ running = [i \in Invocations |-> {}]
    /\ saved = {} /\ approvals = {} /\ calls = 0
    /\ records = [k \in {} |-> 0]
    /\ requests = {} /\ captionTracks = {}
    /\ externalSubmitCount = 0

Next ==
    \/ Decide
    \/ \E i \in Invocations :
        \/ Start(i) \/ Resume(i) \/ Revise(i)
        \/ Validate(i) \/ Repair(i) \/ Manual(i) \/ Package(i) \/ Approval(i)
        \/ Recover(i) \/ Submit(i) \/ Qc(i) \/ Throw(i)

Spec == Init /\ [][Next]_vars

-----------------------------------------------------------------------------
(* Properties                                                              *)

Codes ==
    SubtitleCodes \cup RightsCodes \cup
    {"PLATFORM_REJECTED", "CAPTION_TRACK_CONFLICT", "PLATFORM_QC_FAILED"}

\* Every checkpoint that exists, held by a caller or by an invocation.
Checkpoints == saved \cup UNION {Held(i) : i \in Invocations}

\* At most one element.
Optional(S) == \A x, y \in S : x = y

\* The parts of a checkpoint are filled in the order in which the nodes run
\* (the fields of WorkflowCheckpoint).
CheckpointOK(c) ==
    /\ c.state \in ReleaseStates
    /\ c.findings \subseteq Codes
    /\ c.deliveryPackage \in {{}, {PackageOf(c)}}
    /\ c.preparedCommand \in {{}, {PreparedCommand(c)}}
    /\ c.deliveryPackage = {} <=> c.preparedCommand = {}
    /\ c.approvalRequest # {} => c.deliveryPackage # {} /\ c.approvalRequest = {ApprovalBinding(c)}
    /\ c.approval # {} => c.approvalRequest # {}
    /\ c.approval \subseteq approvals /\ Optional(c.approval)
    /\ Optional(c.submission)
    /\ c.qcResult \in {{}, {"PASSED"}, {"FAILED"}}

\* Invocations run one node each, every checkpoint is well formed, and the
\* adapter's counter is a number no request exceeds.
TypeOK ==
    /\ \A i \in Invocations : Optional(running[i]) /\ \A t \in running[i] : t.node \in Nodes
    /\ \A c \in Checkpoints : CheckpointOK(c)
    /\ \A a \in approvals : a.decision \in {"APPROVED", "REJECTED"}
    /\ calls \in 0 .. MaxCalls
    /\ externalSubmitCount \in Nat
    /\ \A r \in requests : r.id \in 1 .. externalSubmitCount

Unrevised(c) == c.inputHash.revision = {}

\* c and d were started from two inputs under one input version, which start
\* does not refuse.
SameLabel(c, d) ==
    /\ Unrevised(c) /\ Unrevised(d)
    /\ KeyOf(c) = KeyOf(d)
    /\ c.inputHash # d.inputHash

\* The idempotency key names what is sent under it: two checkpoints with the
\* same key have the same package and the same command, whatever revisions,
\* repairs and replays led to them, unless a caller started two inputs under
\* one version and revised neither.
KeyNamesCommand ==
    \A c, d \in Checkpoints :
        /\ c.preparedCommand # {} /\ d.preparedCommand # {}
        /\ KeyOf(c) = KeyOf(d)
        /\ ~ SameLabel(c, d)
        => c.preparedCommand = d.preparedCommand /\ c.deliveryPackage = d.deliveryPackage

\* What is packaged passes the validation that decided so: the subtitle, as
\* repaired, has no finding left, and the rights none a person may not waive.
PackagedIsFit ==
    \A c \in Checkpoints :
        c.deliveryPackage # {} =>
            /\ SubtitleFindings[c.currentSrt] = {}
            /\ RightsFindings[c.rights] \subseteq Waivable

\* What a checkpoint says of its submission is what the platform did: an
\* unknown outcome was accepted, so that a retry finds it, and a known one
\* is the request for this checkpoint's own command, with its verdict.  Only
\* where a caller reused an input version is it another input's request.
ReportsAgree ==
    \A c \in saved : \A s \in c.submission :
        /\ s.status = "UNKNOWN" => KeyOf(c) \in DOMAIN records
        /\ s.status = "SUBMITTED" =>
            \E r \in requests :
                /\ r.id \in s.request /\ r.key = KeyOf(c)
                /\ c.qcResult = {r.verdict}
                /\ \/ r.sent = c.preparedCommand
                   \/ \E d \in saved : SameLabel(c, d) /\ r.sent = d.preparedCommand

BoundKey(binding) ==
    [releaseId |-> binding.releaseId, inputVersion |-> binding.inputVersion,
     platform |-> (CHOOSE p \in binding.artifact : TRUE).platform]

ApprovedPairs ==
    {<<BoundKey(a.binding), a.binding.command>> :
        a \in {b \in approvals : b.decision = "APPROVED"}}

ReportedPairs ==
    UNION {{<<KeyOf(c), s.request>> : s \in {t \in c.submission : t.status = "SUBMITTED"}} :
            c \in saved}

Promise == INSTANCE KeyedDelivery
    WITH approved <- ApprovedPairs, accepted <- requests, reported <- ReportedPairs

\* Under every interleaving of invocations, replays and decisions, and whatever
\* input versions callers reuse, the graph and the adapter do no more than
\* KeyedDelivery allows: one acceptance per key, of an approved command, and
\* no report but of that acceptance.
PromiseKept == Promise!Spec
=============================================================================
