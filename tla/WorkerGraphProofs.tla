------------------------- MODULE WorkerGraphProofs -------------------------
(***************************************************************************)
(* Proofs about WorkerGraph, for any invocations, any inputs, any updates  *)
(* and any number of calls.                                                *)
(*                                                                         *)
(* The argument is one inductive invariant, IInv.  A checkpoint's inputs   *)
(* are those its hash was taken of, and its version names that hash: a     *)
(* start input's own, or the hash itself (Rooted).  Equal hashes have      *)
(* equal histories, so equal source subtitles (SourceInv); equal keys have *)
(* equal hashes, but for start inputs that a caller gave one version       *)
(* (KeyNamesHash).  What a                                                 *)
(* checkpoint may be at a node (Placed) says how far it has come: what is  *)
(* packaged is fit, what is to be sent was approved and presented by a     *)
(* checkpoint that callers still hold, and what goes to QC is a request    *)
(* of its own.  Those facts only look at sets that never shrink, so they   *)
(* outlive every other invocation (PlacedStays).                           *)
(***************************************************************************)
EXTENDS WorkerGraph, TLAPS

\* The fields of a checkpoint.
IsCheckpoint(c) ==
    DOMAIN c =
        {"releaseId", "inputVersion", "inputHash", "state", "sourceSrt", "currentSrt", "rights",
         "findings", "deliveryCommand", "deliveryPackage", "preparedCommand",
         "approvalRequest", "approval", "submission", "qcResult"}

\* The groups of fields that nodes write.
Identity(c) ==
    <<c.releaseId, c.inputVersion, c.inputHash, c.sourceSrt, c.rights, c.deliveryCommand>>
Parcel(c) == <<c.currentSrt, c.deliveryPackage, c.preparedCommand>>
Request(c) == <<c.approvalRequest, c.approval>>
Outcome(c) == <<c.submission, c.qcResult>>

-----------------------------------------------------------------------------
(* The inductive invariant                                                 *)

\* The inputs are those of the hash.
Hashed(c) ==
    /\ c.rights = c.inputHash.rights
    /\ c.deliveryCommand = c.inputHash.command
    /\ c.inputHash.srt \in DOMAIN SubtitleFindings
    /\ c.currentSrt \in DOMAIN SubtitleFindings
    /\ c.rights \in DOMAIN RightsFindings

\* The version and the source subtitle are those of a start input, or of the
\* hash and of the checkpoint that was revised.
FromStart(c) ==
    \E s \in StartInputs :
        /\ c.releaseId = s.releaseId
        /\ c.inputVersion = StartVersion(s.inputVersion)
        /\ c.inputHash = InputHash(s, {})
        /\ c.sourceSrt = s.currentSrt

FromRevision(c) ==
    /\ c.inputVersion = RevisionVersion(c.inputHash)
    /\ c.inputHash.revision # {}
    /\ \A r \in c.inputHash.revision :
        \E p \in saved : p.inputHash = r.previous /\ p.sourceSrt = c.sourceSrt

Rooted(c) == FromStart(c) \/ FromRevision(c)

\* What validationNode finds on a hash's inputs, and the subtitle that may be
\* packaged: the one hashed, or its repair.
FoundOn(hash) == SubtitleFindings[hash.srt] \cup RightsFindings[hash.rights]

FitSrt(hash) ==
    IF FoundOn(hash) \subseteq Waivable THEN hash.srt ELSE RepairSrt[hash.srt]

Fit(c) ==
    /\ c.currentSrt = FitSrt(c.inputHash)
    /\ SubtitleFindings[c.currentSrt] = {}
    /\ RightsFindings[c.rights] \subseteq Waivable

\* A person approved the package of c.
Cleared(c) ==
    /\ c.deliveryPackage # {}
    /\ \E a \in approvals : a.binding = ApprovalBinding(c) /\ a.decision = "APPROVED"

\* The request r is the one of c.
SentFor(c, r) == r.key = KeyOf(c) /\ r.sent = c.preparedCommand

\* The request r is recorded under the key of c: it is for the command of c,
\* or for that of another input with the version of c.
Answers(c, r) ==
    /\ r.key = KeyOf(c)
    /\ \/ r.sent = c.preparedCommand
       \/ \E d \in saved : SameLabel(c, d) /\ r.sent = d.preparedCommand

Fresh(c) ==
    /\ c.deliveryPackage = {} /\ c.preparedCommand = {}
    /\ Request(c) = <<{}, {}>> /\ Outcome(c) = <<{}, {}>>

WellFormed(c) ==
    /\ IsCheckpoint(c)
    /\ CheckpointOK(c)
    /\ Hashed(c)
    /\ Rooted(c)
    /\ c.deliveryPackage # {} => Fit(c)

\* A submission of unknown outcome was accepted.
Findable(c) == \A s \in c.submission : s.status = "UNKNOWN" => KeyOf(c) \in DOMAIN records

\* The states in which the graph returns a checkpoint.
ReturnStates ==
    {"NEEDS_HUMAN", "READY_FOR_APPROVAL", "BLOCKED", "RETRY_WAIT", "COMPLETED", "QC_FAILED"}

\* What c is when it is at a node, or returned.
AtValidate(c) == Fresh(c) /\ c.currentSrt = c.inputHash.srt

AtRepair(c) ==
    /\ AtValidate(c)
    /\ c.findings = FoundOn(c.inputHash)
    /\ ~ c.findings \subseteq Waivable

AtPackage(c) == Fresh(c) /\ Fit(c)

AtApproval(c) == c.deliveryPackage # {} /\ c.submission = {} /\ c.qcResult = {}

AtQc(c) ==
    /\ Cleared(c)
    /\ \E r \in requests :
        /\ c.submission = {[status |-> "SUBMITTED", request |-> {r.id}]}
        /\ Answers(c, r)

Returned(c) ==
    /\ c.state \in ReturnStates
    /\ c.state \in {"READY_FOR_APPROVAL", "NEEDS_HUMAN"} => Outcome(c) = <<{}, {}>>
    /\ c.state = "RETRY_WAIT" => Cleared(c)
    /\ \A s \in c.submission : s.status = "SUBMITTED" =>
        \E r \in requests :
            s.request = {r.id} /\ Answers(c, r) /\ c.qcResult = {r.verdict}

Placed(node, c) ==
    /\ WellFormed(c) /\ Findable(c)
    /\ node = "validate" => AtValidate(c)
    /\ node = "repair" => AtRepair(c)
    /\ node = "manual" => Fresh(c)
    /\ node = "package" => AtPackage(c)
    /\ node = "approval" => AtApproval(c)
    /\ node \in {"recover", "submit"} => Cleared(c)
    /\ node = "qc" => AtQc(c)
    /\ node = "__end__" => Returned(c)

PlaceInv ==
    /\ \A i \in Invocations : \A t \in running[i] : Placed(t.node, t.checkpoint)
    /\ \A c \in saved : Placed("__end__", c)

SourceInv ==
    \A c, d \in Checkpoints : c.inputHash = d.inputHash => c.sourceSrt = d.sourceSrt

\* An approval is of a package that callers hold.
ApprovalInv ==
    \A a \in approvals :
        /\ a.decision \in {"APPROVED", "REJECTED"}
        /\ \E d \in saved : d.deliveryPackage # {} /\ a.binding = ApprovalBinding(d)

\* A request is known by its id and its key, and is for a command that callers
\* hold.
AdapterInv ==
    /\ externalSubmitCount \in Nat
    /\ \A r \in requests :
        /\ r.id \in 1 .. externalSubmitCount
        /\ r.key \in DOMAIN records
        /\ r.verdict \in {"PASSED", "FAILED"}
        /\ \E d \in saved : d.deliveryPackage # {} /\ SentFor(d, r)
    /\ \A r, q \in requests : r.id = q.id \/ r.key = q.key => r = q
    /\ \A k \in DOMAIN records : \E r \in requests : r.id = records[k] /\ r.key = k

RunningInv ==
    /\ running = [i \in Invocations |-> running[i]]
    /\ \A i \in Invocations : Optional(running[i]) /\ \A t \in running[i] : t.node \in Nodes
    /\ calls \in 0 .. MaxCalls

IInv ==
    /\ RunningInv
    /\ PlaceInv
    /\ SourceInv
    /\ ApprovalInv
    /\ AdapterInv

-----------------------------------------------------------------------------
(* What the nodes write                                                    *)

LEMMA InitialParts ==
    ASSUME NEW s
    PROVE  LET n == InitialCheckpoint(s) IN
           /\ IsCheckpoint(n) /\ Fresh(n)
           /\ Identity(n) = <<s.releaseId, StartVersion(s.inputVersion), InputHash(s, {}),
                              s.currentSrt, s.rights, s.deliveryCommand>>
           /\ n.currentSrt = s.currentSrt
           /\ n.state = "DRAFT" /\ n.findings = {}
BY DEF InitialCheckpoint, IsCheckpoint, Fresh, Request, Outcome, Identity

LEMMA UpdatedParts ==
    ASSUME NEW c, NEW u, IsCheckpoint(c)
    PROVE  LET n == Updated(c, u) IN
           /\ IsCheckpoint(n)
           /\ n.releaseId = c.releaseId /\ n.sourceSrt = c.sourceSrt
           /\ n.currentSrt = Replace(c.currentSrt, u.updatedSubtitleSrt)
           /\ n.rights = Replace(c.rights, u.updatedRights)
BY DEF Updated, IsCheckpoint

LEMMA RevisedParts ==
    ASSUME NEW c, NEW u, IsCheckpoint(c)
    PROVE  LET n == Revised(c, u) IN
           /\ IsCheckpoint(n) /\ Fresh(n)
           /\ n.sourceSrt = c.sourceSrt
           /\ n.currentSrt = Replace(c.currentSrt, u.updatedSubtitleSrt)
           /\ n.rights = Replace(c.rights, u.updatedRights)
           /\ \E r : n.inputHash = InputHash(n, {r}) /\ r.previous = c.inputHash
           /\ n.inputVersion = RevisionVersion(n.inputHash)
           /\ n.state = "DRAFT" /\ n.findings = {}
<1> DEFINE m == Updated(c, u)
           r == [previous |-> c.inputHash,
                 subtitle |-> u.updatedSubtitleSrt # {},
                 rights |-> u.updatedRights # {},
                 qcRemediation |-> u.qcRemediation]
           h == InputHash(m, {r})
           n == Revised(c, u)
<1>1. /\ IsCheckpoint(m)
      /\ m.sourceSrt = c.sourceSrt
      /\ m.currentSrt = Replace(c.currentSrt, u.updatedSubtitleSrt)
      /\ m.rights = Replace(c.rights, u.updatedRights)
  BY UpdatedParts
<1>2. r.previous = c.inputHash
  OBVIOUS
<1>3. n = [m EXCEPT
            !.inputHash = h, !.inputVersion = RevisionVersion(h),
            !.state = "DRAFT", !.findings = {},
            !.deliveryPackage = {}, !.preparedCommand = {},
            !.approvalRequest = {}, !.approval = {}, !.submission = {}, !.qcResult = {}]
  BY DEF Revised
<1> HIDE DEF m, n, r
<1>4. /\ IsCheckpoint(n)
      /\ n.releaseId = m.releaseId /\ n.sourceSrt = m.sourceSrt /\ n.currentSrt = m.currentSrt
      /\ n.rights = m.rights /\ n.deliveryCommand = m.deliveryCommand
      /\ n.inputHash = h /\ n.inputVersion = RevisionVersion(h)
      /\ n.state = "DRAFT" /\ n.findings = {}
      /\ n.deliveryPackage = {} /\ n.preparedCommand = {}
      /\ n.approvalRequest = {} /\ n.approval = {} /\ n.submission = {} /\ n.qcResult = {}
  BY <1>1, <1>3 DEF IsCheckpoint
<1>5. n.inputHash = InputHash(n, {r})
  BY <1>4 DEF InputHash
<1>6. QED
  BY <1>1, <1>2, <1>4, <1>5 DEF n, Fresh, Request, Outcome

LEMMA ValidatedParts ==
    ASSUME NEW c, IsCheckpoint(c)
    PROVE  LET n == Validated(c) IN
           /\ IsCheckpoint(n)
           /\ Identity(n) = Identity(c) /\ Parcel(n) = Parcel(c)
           /\ Request(n) = Request(c) /\ Outcome(n) = Outcome(c)
           /\ n.findings = SubtitleFindings[c.currentSrt] \cup RightsFindings[c.rights]
           /\ n.state \in {"VALIDATING", "BLOCKED"}
BY DEF Validated, IsCheckpoint, Identity, Parcel, Request, Outcome

LEMMA RepairedParts ==
    ASSUME NEW c, IsCheckpoint(c)
    PROVE  LET n == Repaired(c) IN
           /\ IsCheckpoint(n)
           /\ Identity(n) = Identity(c)
           /\ n.deliveryPackage = c.deliveryPackage /\ n.preparedCommand = c.preparedCommand
           /\ Request(n) = Request(c) /\ Outcome(n) = Outcome(c)
           /\ n.currentSrt = RepairSrt[c.currentSrt]
           /\ n.findings = SubtitleFindings[n.currentSrt] \cup (c.findings \cap RightsCodes)
           /\ n.state = "REMEDIATING"
BY DEF Repaired, IsCheckpoint, Identity, Request, Outcome

LEMMA PackagedParts ==
    ASSUME NEW c, IsCheckpoint(c)
    PROVE  LET n == Packaged(c) IN
           /\ IsCheckpoint(n)
           /\ Identity(n) = Identity(c)
           /\ n.currentSrt = c.currentSrt
           /\ n.deliveryPackage = {PackageOf(c)} /\ n.preparedCommand = {PreparedCommand(c)}
           /\ Request(n) = Request(c) /\ Outcome(n) = Outcome(c)
           /\ n.findings = c.findings /\ n.state = c.state
BY DEF Packaged, IsCheckpoint, Identity, Request, Outcome

\* n differs from c in its state, its findings and what came of the package.
Follows(n, c) == IsCheckpoint(n) /\ Identity(n) = Identity(c) /\ Parcel(n) = Parcel(c)

LEMMA ToHumanParts ==
    ASSUME NEW c, IsCheckpoint(c)
    PROVE  LET n == ToHuman(c) IN
           /\ Follows(n, c)
           /\ Request(n) = Request(c) /\ Outcome(n) = Outcome(c)
           /\ n.findings = c.findings /\ n.state = "NEEDS_HUMAN"
BY DEF ToHuman, Follows, IsCheckpoint, Identity, Parcel, Request, Outcome

LEMMA DecidedParts ==
    ASSUME NEW c, IsCheckpoint(c)
    PROVE  LET n == Decided(c) IN
           /\ Follows(n, c)
           /\ Outcome(n) = Outcome(c) /\ n.findings = c.findings /\ n.approval = c.approval
           /\ n.approvalRequest \in {c.approvalRequest, {ApprovalBinding(c)}}
           /\ n.state \in {"NEEDS_HUMAN", "READY_FOR_APPROVAL", "BLOCKED", "APPROVED"}
           /\ n.state = "APPROVED" =>
                c.approval # {} /\ ~ \E a \in c.approval : a.decision = "REJECTED"
BY DEF Decided, ToHuman, Follows, IsCheckpoint, Identity, Parcel, Outcome

LEMMA ResumedParts ==
    ASSUME NEW c, NEW a, IsCheckpoint(c)
    PROVE  LET n == [c EXCEPT !.approval = {a}] IN
           /\ Follows(n, c)
           /\ Outcome(n) = Outcome(c)
           /\ n.findings = c.findings /\ n.state = c.state
           /\ n.approvalRequest = c.approvalRequest /\ n.approval = {a}
BY DEF Follows, IsCheckpoint, Identity, Parcel, Outcome

LEMMA SubmittingParts ==
    ASSUME NEW c, IsCheckpoint(c)
    PROVE  LET n == [c EXCEPT !.state = "SUBMITTING"] IN
           /\ Follows(n, c)
           /\ Request(n) = Request(c) /\ Outcome(n) = Outcome(c)
           /\ n.findings = c.findings /\ n.state = "SUBMITTING"
BY DEF Follows, IsCheckpoint, Identity, Parcel, Request, Outcome

LEMMA SubmittedParts ==
    ASSUME NEW c, NEW id, IsCheckpoint(c)
    PROVE  LET n == Submitted(c, id) IN
           /\ Follows(n, c)
           /\ Request(n) = Request(c) /\ n.findings = c.findings /\ n.qcResult = c.qcResult
           /\ n.submission = {[status |-> "SUBMITTED", request |-> {id}]}
           /\ n.state = "SUBMITTED"
BY DEF Submitted, Follows, IsCheckpoint, Identity, Parcel, Request

LEMMA RetryParts ==
    ASSUME NEW c, IsCheckpoint(c)
    PROVE  LET n == RetryWait(c) IN
           /\ Follows(n, c)
           /\ Request(n) = Request(c) /\ n.findings = c.findings /\ n.qcResult = c.qcResult
           /\ n.submission = {[status |-> "UNKNOWN", request |-> {}]}
           /\ n.state = "RETRY_WAIT"
BY DEF RetryWait, Follows, IsCheckpoint, Identity, Parcel, Request

LEMMA RefusedParts ==
    ASSUME NEW c, NEW code, IsCheckpoint(c)
    PROVE  LET n == Refused(c, code) IN
           /\ Follows(n, c)
           /\ Request(n) = Request(c) /\ n.qcResult = c.qcResult
           /\ n.findings = c.findings \cup {code}
           /\ n.submission = {[status |-> "FAILED", request |-> {}]}
           /\ n.state = "BLOCKED"
BY DEF Refused, Follows, IsCheckpoint, Identity, Parcel, Request

LEMMA JudgedParts ==
    ASSUME NEW c, NEW v \in {"PASSED", "FAILED"}, IsCheckpoint(c)
    PROVE  LET n == Judged(c, v) IN
           /\ Follows(n, c)
           /\ Request(n) = Request(c) /\ n.submission = c.submission
           /\ n.findings \subseteq c.findings \cup {"PLATFORM_QC_FAILED"}
           /\ n.qcResult = {v}
           /\ n.state \in {"COMPLETED", "QC_FAILED"}
BY DEF Judged, Follows, IsCheckpoint, Identity, Parcel, Request

-----------------------------------------------------------------------------
(* What a checkpoint keeps                                                 *)

LEMMA CodesAssumption ==
    /\ \A srt \in DOMAIN SubtitleFindings :
        /\ SubtitleFindings[srt] \subseteq SubtitleCodes
        /\ RepairSrt[srt] \in DOMAIN SubtitleFindings
    /\ \A rights \in DOMAIN RightsFindings : RightsFindings[rights] \subseteq RightsCodes
BY FindingsAssumption DEF FindingsAssumption

\* A subtitle is never waived.
LEMMA NoSubtitleWaived == SubtitleCodes \cap RightsCodes = {} /\ Waivable \subseteq RightsCodes
BY DEF SubtitleCodes, RepairableFindings, RightsCodes, Waivable

\* What is computed from the inputs and the package of a checkpoint.
LEMMA FollowsKeeps ==
    ASSUME NEW n, NEW c, Follows(n, c)
    PROVE  /\ KeyOf(n) = KeyOf(c) /\ PackageOf(n) = PackageOf(c)
           /\ PreparedCommand(n) = PreparedCommand(c)
           /\ ApprovalBinding(n) = ApprovalBinding(c)
           /\ n.deliveryPackage = c.deliveryPackage /\ n.preparedCommand = c.preparedCommand
           /\ n.inputHash = c.inputHash /\ n.sourceSrt = c.sourceSrt
           /\ Hashed(c) => Hashed(n)
           /\ Rooted(c) => Rooted(n)
           /\ Fit(c) => Fit(n)
           /\ Cleared(c) => Cleared(n)
           /\ \A r : SentFor(n, r) <=> SentFor(c, r)
           /\ \A r : Answers(n, r) <=> Answers(c, r)
<1>1. /\ n.releaseId = c.releaseId /\ n.inputVersion = c.inputVersion
      /\ n.inputHash = c.inputHash /\ n.sourceSrt = c.sourceSrt /\ n.rights = c.rights
      /\ n.deliveryCommand = c.deliveryCommand
      /\ n.currentSrt = c.currentSrt /\ n.deliveryPackage = c.deliveryPackage
      /\ n.preparedCommand = c.preparedCommand
  BY DEF Follows, Identity, Parcel
<1>2. KeyOf(n) = KeyOf(c) /\ PackageOf(n) = PackageOf(c)
  BY <1>1 DEF KeyOf, PackageOf
<1>3. PreparedCommand(n) = PreparedCommand(c)
  BY <1>1, <1>2 DEF PreparedCommand
<1>4. ApprovalBinding(n) = ApprovalBinding(c)
  BY <1>1 DEF ApprovalBinding
<1>5. Rooted(c) => Rooted(n)
  BY <1>1 DEF Rooted, FromStart, FromRevision
<1>6. \A d : SameLabel(n, d) <=> SameLabel(c, d)
  BY <1>1, <1>2 DEF SameLabel, Unrevised
<1>7. \A r : (SentFor(n, r) <=> SentFor(c, r)) /\ (Answers(n, r) <=> Answers(c, r))
  BY <1>1, <1>2, <1>6 DEF SentFor, Answers
<1>8. QED
  BY <1>1, <1>2, <1>3, <1>4, <1>5, <1>7 DEF Hashed, Fit, Cleared

\* Of a checkpoint that follows a well-formed one, only what was written is
\* left to check.
LEMMA FollowsWell ==
    ASSUME NEW n, NEW c, Follows(n, c), WellFormed(c),
           n.state \in ReleaseStates, n.findings \subseteq Codes,
           n.approvalRequest \in {c.approvalRequest, {ApprovalBinding(c)}},
           n.approvalRequest # {} => n.deliveryPackage # {},
           n.approval # {} => n.approvalRequest # {},
           n.approval \subseteq approvals, Optional(n.approval), Optional(n.submission),
           n.qcResult \in {{}, {"PASSED"}, {"FAILED"}}
    PROVE  WellFormed(n)
<1>1. CheckpointOK(n)
  BY FollowsKeeps DEF WellFormed, CheckpointOK
<1>2. QED
  BY <1>1, FollowsKeeps DEF WellFormed, Follows

LEMMA WellParts ==
    ASSUME NEW c, WellFormed(c)
    PROVE  /\ IsCheckpoint(c)
           /\ c.approvalRequest # {} => c.deliveryPackage # {} /\ c.approvalRequest = {ApprovalBinding(c)}
           /\ c.approval # {} => c.approvalRequest # {}
           /\ c.approval \subseteq approvals /\ Optional(c.approval) /\ Optional(c.submission)
           /\ c.qcResult \in {{}, {"PASSED"}, {"FAILED"}}
           /\ c.findings \subseteq Codes /\ c.state \in ReleaseStates
           /\ c.deliveryPackage # {} =>
                c.deliveryPackage = {PackageOf(c)} /\ c.preparedCommand = {PreparedCommand(c)}
           /\ c.preparedCommand # {} => c.deliveryPackage # {}
BY DEF WellFormed, CheckpointOK

LEMMA WrittenCodes ==
    {"PLATFORM_REJECTED", "CAPTION_TRACK_CONFLICT", "PLATFORM_QC_FAILED"} \subseteq Codes
BY DEF Codes

LEMMA FreshWell ==
    ASSUME NEW c, IsCheckpoint(c), Fresh(c), Hashed(c), Rooted(c),
           c.state \in ReleaseStates, c.findings \subseteq Codes
    PROVE  WellFormed(c)
<1>1. CheckpointOK(c)
  BY DEF Fresh, Request, Outcome, CheckpointOK, Optional
<1>2. QED
  BY <1>1 DEF WellFormed, Fresh

\* What has not been submitted cannot be unknown.
LEMMA UnsentIsFindable ==
    ASSUME NEW c, c.submission = {} PROVE Findable(c)
BY DEF Findable

LEMMA FreshIsFindable ==
    ASSUME NEW c, Fresh(c) PROVE Findable(c)
BY DEF Fresh, Outcome, Findable

-----------------------------------------------------------------------------
(* From node to node                                                       *)

\* The subtitle and the rights of a checkpoint have findings.
LEMMA FoundCodes ==
    ASSUME NEW c, Hashed(c)
    PROVE  /\ SubtitleFindings[c.inputHash.srt] \subseteq SubtitleCodes
           /\ RepairSrt[c.inputHash.srt] \in DOMAIN SubtitleFindings
           /\ SubtitleFindings[RepairSrt[c.inputHash.srt]] \subseteq SubtitleCodes
           /\ RightsFindings[c.rights] \subseteq RightsCodes
           /\ FoundOn(c.inputHash) \subseteq Codes
BY CodesAssumption DEF Hashed, FoundOn, Codes

LEMMA ValidatePlaces ==
    ASSUME NEW c, Placed("validate", c)
    PROVE  Placed(RouteAfterValidation(Validated(c)), Validated(c))
<1> DEFINE n == Validated(c)
<1>1. /\ WellFormed(c) /\ IsCheckpoint(c) /\ Hashed(c) /\ Rooted(c)
      /\ Fresh(c) /\ c.currentSrt = c.inputHash.srt
  BY DEF Placed, AtValidate, WellFormed
<1>2. /\ IsCheckpoint(n) /\ Follows(n, c)
      /\ Request(n) = Request(c) /\ Outcome(n) = Outcome(c)
      /\ n.findings = SubtitleFindings[c.currentSrt] \cup RightsFindings[c.rights]
      /\ n.state \in {"VALIDATING", "BLOCKED"}
      /\ n.currentSrt = c.currentSrt /\ n.inputHash = c.inputHash /\ n.rights = c.rights
  BY <1>1, ValidatedParts DEF Follows, Parcel, Identity
<1> HIDE DEF n
<1>3. n.findings = FoundOn(n.inputHash)
  BY <1>1, <1>2 DEF FoundOn, Hashed
<1>4. Hashed(n) /\ Rooted(n)
  BY <1>1, <1>2, FollowsKeeps
<1>5. Fresh(n)
  BY <1>1, <1>2 DEF Fresh, Follows, Parcel
<1>6. WellFormed(n)
  BY <1>2, <1>3, <1>4, <1>5, FoundCodes, FreshWell DEF ReleaseStates
<1>7. AtValidate(n)
  BY <1>1, <1>2, <1>5 DEF AtValidate
<1>8. CASE n.findings \subseteq Waivable
  <2>1. SubtitleFindings[n.inputHash.srt] = {}
    BY <1>3, <1>4, <1>8, FoundCodes, NoSubtitleWaived DEF FoundOn
  <2>2. RightsFindings[n.rights] \subseteq Waivable
    BY <1>3, <1>4, <1>8 DEF FoundOn, Hashed
  <2>3. Fit(n)
    BY <1>3, <1>7, <1>8, <2>1, <2>2 DEF Fit, FitSrt, AtValidate
  <2>4. QED
    <3>1. RouteAfterValidation(n) = "package"
      BY <1>8 DEF RouteAfterValidation, Waivable, RepairableFindings
    <3>2. QED
      BY <1>5, <1>6, <2>3, <3>1, FreshIsFindable DEF n, Placed, AtPackage
<1>9. CASE ~ n.findings \subseteq Waivable
  <2>1. RouteAfterValidation(n) \in {"repair", "manual"}
    BY <1>9 DEF RouteAfterValidation
  <2>2. QED
    BY <1>3, <1>5, <1>6, <1>7, <1>9, <2>1, FreshIsFindable DEF n, Placed, AtRepair
<1>10. QED
  BY <1>8, <1>9

LEMMA RepairPlaces ==
    ASSUME NEW c, Placed("repair", c)
    PROVE  Placed(RouteAfterRepair(Repaired(c)), Repaired(c))
<1> DEFINE n == Repaired(c)
<1>1. /\ WellFormed(c) /\ IsCheckpoint(c) /\ Hashed(c) /\ Rooted(c)
      /\ Fresh(c) /\ c.currentSrt = c.inputHash.srt
      /\ c.findings = FoundOn(c.inputHash) /\ ~ c.findings \subseteq Waivable
  BY DEF Placed, AtRepair, AtValidate, WellFormed
<1>2. /\ IsCheckpoint(n) /\ Identity(n) = Identity(c)
      /\ n.inputHash = c.inputHash /\ n.rights = c.rights
      /\ Request(n) = Request(c) /\ Outcome(n) = Outcome(c)
      /\ n.currentSrt = RepairSrt[c.inputHash.srt]
      /\ n.findings = SubtitleFindings[n.currentSrt] \cup (c.findings \cap RightsCodes)
      /\ n.state = "REMEDIATING"
      /\ n.deliveryPackage = c.deliveryPackage /\ n.preparedCommand = c.preparedCommand
  BY <1>1, RepairedParts DEF Identity
<1> HIDE DEF n
<1>3. Hashed(n)
  BY <1>1, <1>2, FoundCodes DEF Hashed, Identity
<1>4. Rooted(n)
  BY <1>1, <1>2 DEF Rooted, FromStart, FromRevision, Identity
<1>5. Fresh(n)
  BY <1>1, <1>2 DEF Fresh
<1>6. n.findings \subseteq Codes
  BY <1>1, <1>2, FoundCodes DEF Codes
<1>7. WellFormed(n)
  BY <1>2, <1>3, <1>4, <1>5, <1>6, FreshWell DEF ReleaseStates
<1>8. CASE n.findings \subseteq Waivable
  <2>1. SubtitleFindings[n.currentSrt] = {}
    BY <1>1, <1>2, <1>8, FoundCodes, NoSubtitleWaived
  <2>2. RightsFindings[n.rights] \subseteq Waivable
    <3>1. RightsFindings[n.rights] \subseteq c.findings \cap RightsCodes
      BY <1>1, <1>2, FoundCodes DEF FoundOn, Hashed
    <3>2. QED
      BY <1>2, <1>8, <3>1
  <2>3. Fit(n)
    BY <1>1, <1>2, <2>1, <2>2 DEF Fit, FitSrt
  <2>4. QED
    BY <1>5, <1>7, <1>8, <2>3, FreshIsFindable DEF n, RouteAfterRepair, Placed, AtPackage
<1>9. CASE ~ n.findings \subseteq Waivable
  BY <1>5, <1>7, <1>9, FreshIsFindable DEF n, RouteAfterRepair, Placed
<1>10. QED
  BY <1>8, <1>9

LEMMA ManualPlaces ==
    ASSUME NEW c, Placed("manual", c)
    PROVE  Placed("__end__", ToHuman(c))
<1> DEFINE n == ToHuman(c)
<1>1. WellFormed(c) /\ Fresh(c) /\ IsCheckpoint(c)
  BY DEF Placed, WellFormed
<1>2. /\ Follows(n, c) /\ Request(n) = Request(c) /\ Outcome(n) = Outcome(c)
      /\ n.findings = c.findings /\ n.state = "NEEDS_HUMAN"
  BY <1>1, ToHumanParts
<1> HIDE DEF n
<1>3. /\ n.submission = {} /\ n.qcResult = {} /\ n.approvalRequest = {} /\ n.approval = {}
      /\ n.approvalRequest = c.approvalRequest
  BY <1>1, <1>2 DEF Fresh, Request, Outcome
<1>4. WellFormed(n)
  BY <1>1, <1>2, <1>3, WellParts, FollowsWell DEF ReleaseStates, Optional
<1>5. Returned(n)
  BY <1>2, <1>3 DEF Returned, ReturnStates, Outcome
<1>6. QED
  BY <1>3, <1>4, <1>5, UnsentIsFindable DEF n, Placed

LEMMA PackagePlaces ==
    ASSUME NEW c, Placed("package", c)
    PROVE  Placed("approval", Packaged(c))
<1> DEFINE n == Packaged(c)
<1>1. WellFormed(c) /\ Fresh(c) /\ Fit(c) /\ IsCheckpoint(c) /\ Hashed(c) /\ Rooted(c)
  BY DEF Placed, AtPackage, WellFormed
<1>2. /\ IsCheckpoint(n) /\ Identity(n) = Identity(c)
      /\ n.currentSrt = c.currentSrt
      /\ n.deliveryPackage = {PackageOf(c)} /\ n.preparedCommand = {PreparedCommand(c)}
      /\ Request(n) = Request(c) /\ Outcome(n) = Outcome(c)
      /\ n.findings = c.findings /\ n.state = c.state
  BY <1>1, PackagedParts
<1> HIDE DEF n
<1>3. Hashed(n) /\ Rooted(n) /\ Fit(n)
  BY <1>1, <1>2 DEF Hashed, Rooted, FromStart, FromRevision, Fit, Identity
<1>4. PackageOf(n) = PackageOf(c)
  BY <1>2 DEF PackageOf, Identity
<1>5. PreparedCommand(n) = PreparedCommand(c)
  BY <1>2, <1>4 DEF PreparedCommand, Identity
<1>6. n.approvalRequest = {} /\ n.approval = {} /\ n.submission = {} /\ n.qcResult = {}
  BY <1>1, <1>2 DEF Fresh, Request, Outcome
<1>7. CheckpointOK(n)
  BY <1>1, <1>2, <1>4, <1>5, <1>6, WellParts DEF CheckpointOK, Optional
<1>8. QED
  BY <1>2, <1>3, <1>6, <1>7, UnsentIsFindable DEF n, Placed, WellFormed, AtApproval

LEMMA ApprovalPlaces ==
    ASSUME ApprovalInv, NEW c, Placed("approval", c),
           \A a \in c.approval : ValidApproval(c, a)
    PROVE  Placed(RouteAfterApproval(Decided(c)), Decided(c))
<1> DEFINE n == Decided(c)
<1>1. /\ WellFormed(c) /\ IsCheckpoint(c)
      /\ c.deliveryPackage # {} /\ c.submission = {} /\ c.qcResult = {}
  BY DEF Placed, WellFormed, AtApproval
<1>2. /\ Follows(n, c)
      /\ Outcome(n) = Outcome(c) /\ n.findings = c.findings /\ n.approval = c.approval
      /\ n.approvalRequest \in {c.approvalRequest, {ApprovalBinding(c)}}
      /\ n.state \in {"NEEDS_HUMAN", "READY_FOR_APPROVAL", "BLOCKED", "APPROVED"}
      /\ n.state = "APPROVED" =>
           c.approval # {} /\ ~ \E a \in c.approval : a.decision = "REJECTED"
  BY <1>1, DecidedParts
<1> HIDE DEF n
<1>3. n.submission = {} /\ n.qcResult = {} /\ n.deliveryPackage # {}
  BY <1>1, <1>2, FollowsKeeps DEF Outcome
<1>4. WellFormed(n)
  BY <1>1, <1>2, <1>3, WellParts, FollowsWell DEF ReleaseStates, Optional
<1>5. CASE n.state = "APPROVED"
  <2>1. PICK a \in c.approval : a.decision # "REJECTED"
    BY <1>2, <1>5
  <2>2. a \in approvals /\ a.decision = "APPROVED" /\ a.binding = ApprovalBinding(c)
    BY <1>1, <2>1, WellParts DEF ApprovalInv, ValidApproval
  <2>3. Cleared(n)
    BY <1>2, <1>3, <2>2, FollowsKeeps DEF Cleared
  <2>4. QED
    BY <1>3, <1>4, <1>5, <2>3, UnsentIsFindable DEF n, RouteAfterApproval, Placed
<1>6. CASE n.state # "APPROVED"
  <2>1. Returned(n)
    BY <1>2, <1>3, <1>6 DEF Returned, ReturnStates, Outcome
  <2>2. QED
    BY <1>3, <1>4, <1>6, <2>1, UnsentIsFindable DEF n, RouteAfterApproval, Placed
<1>7. QED
  BY <1>5, <1>6

-----------------------------------------------------------------------------
(* Keys and commands                                                       *)

LEMMA PlacesWell == PlaceInv => \A c \in Checkpoints : WellFormed(c)
BY DEF PlaceInv, Placed, Checkpoints, Held

LEMMA VersionParts ==
    /\ \A l : StartVersion(l).label = l /\ StartVersion(l).hash = {}
    /\ \A h : RevisionVersion(h).hash = {h}
BY DEF StartVersion, RevisionVersion

LEMMA HashParts ==
    ASSUME NEW c, NEW revision
    PROVE  LET h == InputHash(c, revision)
           IN  h.srt = c.currentSrt /\ h.rights = c.rights /\ h.command = c.deliveryCommand
               /\ h.revision = revision
BY DEF InputHash

\* The key names the history of a checkpoint, but for start inputs that were
\* given one version.
LEMMA KeyNamesHash ==
    ASSUME NEW c, NEW d, Rooted(c), Rooted(d), KeyOf(c) = KeyOf(d)
    PROVE  c.inputHash = d.inputHash \/ SameLabel(c, d)
<1>1. c.releaseId = d.releaseId /\ c.inputVersion = d.inputVersion
  BY DEF KeyOf
<1>2. CASE FromStart(c) /\ FromStart(d)
  <2>1. Unrevised(c) /\ Unrevised(d)
    BY <1>2, HashParts DEF FromStart, Unrevised
  <2>2. QED
    BY <2>1 DEF SameLabel
<1>3. CASE FromRevision(c) /\ FromRevision(d)
  <2>1. {c.inputHash} = {d.inputHash}
    <3>1. RevisionVersion(c.inputHash) = RevisionVersion(d.inputHash)
      BY <1>1, <1>3 DEF FromRevision
    <3>2. /\ RevisionVersion(c.inputHash).hash = {c.inputHash}
          /\ RevisionVersion(d.inputHash).hash = {d.inputHash}
      BY VersionParts
    <3>3. QED
      BY <3>1, <3>2
  <2>2. QED
    BY <2>1
<1>4. ASSUME NEW e, NEW f, FromStart(e), FromRevision(f) PROVE e.inputVersion # f.inputVersion
  BY <1>4, VersionParts DEF FromStart, FromRevision
<1>5. QED
  BY <1>1, <1>2, <1>3, <1>4 DEF Rooted

LEMMA KeyNames ==
    ASSUME PlaceInv, SourceInv, NEW c \in Checkpoints, NEW d \in Checkpoints,
           c.deliveryPackage # {}, d.deliveryPackage # {},
           KeyOf(c) = KeyOf(d), ~ SameLabel(c, d)
    PROVE  c.preparedCommand = d.preparedCommand /\ c.deliveryPackage = d.deliveryPackage
<1>1. WellFormed(c) /\ WellFormed(d)
  BY PlacesWell
<1>2. c.inputHash = d.inputHash
  BY <1>1, KeyNamesHash DEF WellFormed
<1>3. /\ c.sourceSrt = d.sourceSrt
      /\ c.deliveryCommand = d.deliveryCommand
      /\ c.currentSrt = d.currentSrt
  BY <1>1, <1>2 DEF SourceInv, WellFormed, Hashed, Fit
<1>4. PackageOf(c) = PackageOf(d)
  BY <1>3 DEF PackageOf, KeyOf
<1>5. PreparedCommand(c) = PreparedCommand(d)
  BY <1>3, <1>4 DEF PreparedCommand
<1>6. QED
  BY <1>1, <1>4, <1>5, WellParts

\* What a person approved, callers hold.
LEMMA ClearedIsHeld ==
    ASSUME PlaceInv, ApprovalInv, NEW c, WellFormed(c), Cleared(c)
    PROVE  \E d \in saved : /\ d.deliveryPackage # {} /\ KeyOf(d) = KeyOf(c)
                            /\ d.preparedCommand = c.preparedCommand
<1>1. PICK d \in saved : d.deliveryPackage # {} /\ ApprovalBinding(d) = ApprovalBinding(c)
  BY DEF ApprovalInv, Cleared
<1>2. /\ d.releaseId = c.releaseId /\ d.inputVersion = c.inputVersion
      /\ d.deliveryPackage = c.deliveryPackage /\ d.preparedCommand = c.preparedCommand
      /\ d.inputHash = c.inputHash
  BY <1>1 DEF ApprovalBinding
<1>3. WellFormed(d)
  BY <1>1 DEF PlaceInv, Placed
<1>4. PackageOf(d) = PackageOf(c)
  BY <1>1, <1>2, <1>3, WellParts
<1>5. d.deliveryCommand.platform = c.deliveryCommand.platform
  BY <1>4 DEF PackageOf
<1>6. QED
  BY <1>1, <1>2, <1>5 DEF KeyOf

LEMMA RecordAnswers ==
    ASSUME PlaceInv, SourceInv, AdapterInv, NEW c \in Checkpoints, c.deliveryPackage # {},
           KeyOf(c) \in DOMAIN records
    PROVE  \E r \in requests : r.id = records[KeyOf(c)] /\ Answers(c, r)
<1>1. PICK r \in requests : r.id = records[KeyOf(c)] /\ r.key = KeyOf(c)
  BY DEF AdapterInv
<1>2. PICK d \in saved : d.deliveryPackage # {} /\ SentFor(d, r)
  BY <1>1 DEF AdapterInv
<1>3. KeyOf(c) = KeyOf(d) /\ r.sent = d.preparedCommand
  BY <1>1, <1>2 DEF SentFor
<1>4. CASE SameLabel(c, d)
  BY <1>1, <1>3, <1>4 DEF Answers
<1>5. CASE ~ SameLabel(c, d)
  <2>1. c.preparedCommand = d.preparedCommand
    BY <1>2, <1>3, <1>5, KeyNames DEF Checkpoints
  <2>2. QED
    BY <1>1, <1>3, <2>1 DEF Answers
<1>6. QED
  BY <1>1, <1>4, <1>5

-----------------------------------------------------------------------------
(* Submission                                                              *)

\* The places from which the command of c is sent are for approved packages.
LEMMA SendingParts ==
    ASSUME NEW node \in {"recover", "submit", "qc"}, NEW c, Placed(node, c)
    PROVE  WellFormed(c) /\ IsCheckpoint(c) /\ Findable(c) /\ Cleared(c) /\ c.deliveryPackage # {}
BY DEF Placed, WellFormed, AtQc, Cleared

\* Of a checkpoint with a new outcome, that it is well formed.
LEMMA OutcomeWell ==
    ASSUME NEW n, NEW c, Follows(n, c), WellFormed(c), Request(n) = Request(c),
           n.state \in ReleaseStates, n.findings \subseteq Codes, Optional(n.submission),
           n.qcResult \in {{}, {"PASSED"}, {"FAILED"}}
    PROVE  WellFormed(n)
<1>1. n.approvalRequest = c.approvalRequest /\ n.approval = c.approval
  BY DEF Request
<1>2. n.deliveryPackage = c.deliveryPackage
  BY FollowsKeeps
<1>3. QED
  BY <1>1, <1>2, WellParts, FollowsWell

LEMMA SubmittedWell ==
    ASSUME NEW c, NEW id, WellFormed(c)
    PROVE  WellFormed(Submitted(c, id)) /\ Findable(Submitted(c, id))
<1> DEFINE n == Submitted(c, id)
<1>1. /\ Follows(n, c)
      /\ Request(n) = Request(c) /\ n.findings = c.findings /\ n.qcResult = c.qcResult
      /\ n.submission = {[status |-> "SUBMITTED", request |-> {id}]}
      /\ n.state = "SUBMITTED"
  BY SubmittedParts, WellParts
<1> HIDE DEF n
<1>2. WellFormed(n)
  BY <1>1, WellParts, OutcomeWell DEF Optional, ReleaseStates
<1>3. Findable(n)
  BY <1>1 DEF Findable
<1>4. QED
  BY <1>2, <1>3 DEF n

LEMMA RecoverFinds ==
    ASSUME PlaceInv, SourceInv, AdapterInv, NEW c \in Checkpoints,
           NEW node \in {"recover", "submit"}, Placed(node, c), KeyOf(c) \in DOMAIN records
    PROVE  Placed("qc", Submitted(c, records[KeyOf(c)]))
<1> DEFINE n == Submitted(c, records[KeyOf(c)])
<1>1. WellFormed(c) /\ IsCheckpoint(c) /\ Cleared(c) /\ c.deliveryPackage # {}
  BY SendingParts
<1>2. PICK r \in requests : r.id = records[KeyOf(c)] /\ Answers(c, r)
  BY <1>1, RecordAnswers
<1>3. WellFormed(n) /\ Findable(n)
  BY <1>1, SubmittedWell
<1>4. Follows(n, c) /\ n.submission = {[status |-> "SUBMITTED", request |-> {r.id}]}
  BY <1>1, <1>2, SubmittedParts
<1> HIDE DEF n
<1>5. Cleared(n) /\ Answers(n, r)
  BY <1>1, <1>2, <1>4, FollowsKeeps
<1>6. AtQc(n)
  BY <1>4, <1>5 DEF AtQc
<1>7. QED
  BY <1>3, <1>6 DEF n, Placed

LEMMA RecoverMisses ==
    ASSUME NEW c, Placed("recover", c)
    PROVE  Placed("submit", [c EXCEPT !.state = "SUBMITTING"])
<1> DEFINE n == [c EXCEPT !.state = "SUBMITTING"]
<1>1. WellFormed(c) /\ IsCheckpoint(c) /\ Findable(c) /\ Cleared(c)
  BY SendingParts
<1>2. /\ Follows(n, c) /\ Request(n) = Request(c) /\ Outcome(n) = Outcome(c)
      /\ n.findings = c.findings /\ n.state = "SUBMITTING"
  BY <1>1, SubmittingParts
<1> HIDE DEF n
<1>3. n.submission = c.submission /\ n.qcResult = c.qcResult
  BY <1>2 DEF Outcome
<1>4. WellFormed(n)
  BY <1>1, <1>2, <1>3, WellParts, OutcomeWell DEF ReleaseStates
<1>5. Cleared(n) /\ KeyOf(n) = KeyOf(c)
  BY <1>1, <1>2, FollowsKeeps
<1>6. Findable(n)
  BY <1>1, <1>3, <1>5 DEF Findable
<1>7. QED
  BY <1>4, <1>5, <1>6 DEF n, Placed

LEMMA RefusedPlaces ==
    ASSUME NEW c, Placed("submit", c),
           NEW code \in {"PLATFORM_REJECTED", "CAPTION_TRACK_CONFLICT"}
    PROVE  Placed("__end__", Refused(c, code))
<1> DEFINE n == Refused(c, code)
<1>1. WellFormed(c) /\ IsCheckpoint(c)
  BY SendingParts
<1>2. /\ Follows(n, c) /\ Request(n) = Request(c) /\ n.qcResult = c.qcResult
      /\ n.findings = c.findings \cup {code}
      /\ n.submission = {[status |-> "FAILED", request |-> {}]}
      /\ n.state = "BLOCKED"
  BY <1>1, RefusedParts
<1> HIDE DEF n
<1>3. WellFormed(n)
  BY <1>1, <1>2, WellParts, WrittenCodes, OutcomeWell DEF Optional, ReleaseStates
<1>4. Returned(n) /\ Findable(n)
  BY <1>2 DEF Returned, ReturnStates, Findable
<1>5. QED
  BY <1>3, <1>4 DEF n, Placed

\* The adapter accepts the command of c: what c becomes, with or without the
\* receipt.
LEMMA AcceptPlaces ==
    ASSUME NEW c, NEW id, NEW r, Placed("submit", c), Cleared(c)',
           WellFormed(Submitted(c, id))', WellFormed(RetryWait(c))',
           r \in requests', r.id = id, SentFor(c, r), KeyOf(c) \in DOMAIN records'
    PROVE  Placed("qc", Submitted(c, id))' /\ Placed("__end__", RetryWait(c))'
<1> DEFINE n == Submitted(c, id)
           m == RetryWait(c)
<1>1. IsCheckpoint(c)
  BY SendingParts
<1>2. Follows(n, c) /\ n.submission = {[status |-> "SUBMITTED", request |-> {r.id}]}
  BY <1>1, SubmittedParts
<1>3. /\ Follows(m, c) /\ m.submission = {[status |-> "UNKNOWN", request |-> {}]}
      /\ m.state = "RETRY_WAIT"
  BY <1>1, RetryParts
<1> HIDE DEF n, m
<1>4. /\ SentFor(n, r) /\ KeyOf(m) = KeyOf(c)
      /\ ApprovalBinding(n) = ApprovalBinding(c) /\ ApprovalBinding(m) = ApprovalBinding(c)
      /\ n.deliveryPackage = c.deliveryPackage /\ m.deliveryPackage = c.deliveryPackage
  BY <1>2, <1>3, FollowsKeeps
<1>5. Cleared(n)' /\ Cleared(m)'
  BY <1>4 DEF Cleared
<1>6. AtQc(n)' /\ Findable(n)'
  BY <1>2, <1>4, <1>5 DEF AtQc, Findable, SentFor, Answers
<1>7. Returned(m)' /\ Findable(m)'
  BY <1>3, <1>4, <1>5 DEF Returned, ReturnStates, Findable
<1>8. QED
  BY <1>6, <1>7 DEF n, m, Placed

LEMMA RetryWell ==
    ASSUME NEW c, WellFormed(c)
    PROVE  WellFormed(RetryWait(c))
<1> DEFINE n == RetryWait(c)
<1>1. /\ Follows(n, c) /\ Request(n) = Request(c) /\ n.findings = c.findings
      /\ n.qcResult = c.qcResult
      /\ n.submission = {[status |-> "UNKNOWN", request |-> {}]} /\ n.state = "RETRY_WAIT"
  BY RetryParts, WellParts
<1> HIDE DEF n
<1>2. WellFormed(n)
  BY <1>1, WellParts, OutcomeWell DEF Optional, ReleaseStates
<1>3. QED
  BY <1>2 DEF n

LEMMA QcPlaces ==
    ASSUME AdapterInv, NEW c, Placed("qc", c), NEW q \in requests,
           \E s \in c.submission : q.id \in s.request
    PROVE  Placed("__end__", Judged(c, q.verdict))
<1> DEFINE n == Judged(c, q.verdict)
<1>1. WellFormed(c) /\ IsCheckpoint(c) /\ q.verdict \in {"PASSED", "FAILED"}
  BY SendingParts DEF AdapterInv
<1>2. /\ Follows(n, c) /\ Request(n) = Request(c) /\ n.submission = c.submission
      /\ n.findings \subseteq c.findings \cup {"PLATFORM_QC_FAILED"}
      /\ n.qcResult = {q.verdict} /\ n.state \in {"COMPLETED", "QC_FAILED"}
  BY <1>1, JudgedParts
<1> HIDE DEF n
<1>3. PICK r \in requests :
        c.submission = {[status |-> "SUBMITTED", request |-> {r.id}]} /\ Answers(c, r)
  BY DEF Placed, AtQc
<1>4. q = r
  BY <1>3 DEF AdapterInv
<1>5. WellFormed(n)
  BY <1>1, <1>2, WellParts, WrittenCodes, OutcomeWell DEF ReleaseStates
<1>6. Answers(n, r)
  BY <1>2, <1>3, FollowsKeeps
<1>7. Returned(n) /\ Findable(n)
  BY <1>2, <1>3, <1>4, <1>6 DEF Returned, ReturnStates, Findable
<1>8. QED
  BY <1>5, <1>7 DEF n, Placed

-----------------------------------------------------------------------------
(* Calls                                                                   *)

\* resume goes on where the state of a checkpoint says.
LEMMA EntryPlaces ==
    ASSUME NEW c, Placed("__end__", c)
    PROVE  Placed(RouteEntry(c), c)
<1>1. WellFormed(c) /\ Findable(c) /\ Returned(c) /\ c.state \in ReturnStates
  BY DEF Placed, Returned
<1>2. CASE c.state \in {"READY_FOR_APPROVAL", "NEEDS_HUMAN"} /\ c.approval # {}
  <2>1. AtApproval(c)
    BY <1>1, <1>2, WellParts DEF Returned, Outcome, AtApproval
  <2>2. RouteEntry(c) = "approval"
    BY <1>2 DEF RouteEntry
  <2>3. QED
    BY <1>1, <2>1, <2>2 DEF Placed
<1>3. CASE c.state = "RETRY_WAIT"
  <2>1. RouteEntry(c) = "recover"
    BY <1>3 DEF RouteEntry
  <2>2. QED
    BY <1>1, <1>3, <2>1 DEF Placed, Returned
<1>4. CASE /\ c.state # "RETRY_WAIT"
           /\ ~ (c.state \in {"READY_FOR_APPROVAL", "NEEDS_HUMAN"} /\ c.approval # {})
  <2>1. RouteEntry(c) = "__end__"
    BY <1>1, <1>4 DEF RouteEntry, ReturnStates
  <2>2. QED
    BY <2>1
<1>5. QED
  BY <1>2, <1>3, <1>4

LEMMA ResumedPlaces ==
    ASSUME NEW c, Placed("__end__", c), NEW a \in approvals, ValidApproval(c, a)
    PROVE  LET n == [c EXCEPT !.approval = {a}]
           IN  Placed("__end__", n) /\ Follows(n, c)
<1> DEFINE n == [c EXCEPT !.approval = {a}]
<1>1. WellFormed(c) /\ IsCheckpoint(c) /\ Findable(c) /\ Returned(c)
  BY DEF Placed, WellFormed
<1>2. /\ Follows(n, c) /\ Outcome(n) = Outcome(c)
      /\ n.findings = c.findings /\ n.state = c.state
      /\ n.approvalRequest = c.approvalRequest /\ n.approval = {a}
  BY <1>1, ResumedParts
<1> HIDE DEF n
<1>3. n.submission = c.submission /\ n.qcResult = c.qcResult
  BY <1>2 DEF Outcome
<1>4. n.approvalRequest # {} /\ n.deliveryPackage # {}
  BY <1>1, <1>2, WellParts, FollowsKeeps DEF ValidApproval
<1>5. WellFormed(n)
  BY <1>1, <1>2, <1>3, <1>4, WellParts, FollowsWell DEF Optional
<1>6. Findable(n)
  BY <1>1, <1>2, <1>3, FollowsKeeps DEF Findable
<1>7. Returned(n)
  BY <1>1, <1>2, <1>3, FollowsKeeps DEF Returned, Outcome
<1>8. QED
  BY <1>2, <1>5, <1>6, <1>7 DEF n, Placed

LEMMA StartPlaces ==
    ASSUME NEW s \in StartInputs
    PROVE  Placed("validate", InitialCheckpoint(s)) /\ FromStart(InitialCheckpoint(s))
<1> DEFINE n == InitialCheckpoint(s)
<1>1. /\ IsCheckpoint(n) /\ Fresh(n)
      /\ n.releaseId = s.releaseId /\ n.inputVersion = StartVersion(s.inputVersion)
      /\ n.inputHash = InputHash(s, {}) /\ n.sourceSrt = s.currentSrt
      /\ n.rights = s.rights /\ n.deliveryCommand = s.deliveryCommand
      /\ n.currentSrt = s.currentSrt /\ n.state = "DRAFT" /\ n.findings = {}
  BY InitialParts DEF Identity
<1> HIDE DEF n
<1>2. n.inputHash.srt = s.currentSrt /\ n.inputHash.rights = s.rights
      /\ n.inputHash.command = s.deliveryCommand
  BY <1>1, HashParts
<1>3. Hashed(n)
  BY <1>1, <1>2, InputsAssumption DEF Hashed, InputsAssumption
<1>4. FromStart(n)
  BY <1>1 DEF FromStart
<1>5. WellFormed(n)
  BY <1>1, <1>3, <1>4, FreshWell DEF Rooted, ReleaseStates
<1>6. QED
  BY <1>1, <1>2, <1>4, <1>5, FreshIsFindable DEF n, Placed, AtValidate

LEMMA ReplaceIn ==
    ASSUME NEW S, NEW old \in S, NEW new, new \subseteq S
    PROVE  Replace(old, new) \in S
BY DEF Replace

LEMMA RevisePlaces ==
    ASSUME NEW c \in saved, WellFormed(c), NEW u \in Updates
    PROVE  LET n == Revised(c, u)
           IN  /\ Placed("validate", n)
               /\ n.sourceSrt = c.sourceSrt
               /\ \E r \in n.inputHash.revision : r.previous = c.inputHash
<1> DEFINE n == Revised(c, u)
<1>1. PICK r : n.inputHash = InputHash(n, {r}) /\ r.previous = c.inputHash
  BY RevisedParts DEF WellFormed
<1>2. /\ IsCheckpoint(n) /\ Fresh(n)
      /\ n.sourceSrt = c.sourceSrt
      /\ n.currentSrt = Replace(c.currentSrt, u.updatedSubtitleSrt)
      /\ n.rights = Replace(c.rights, u.updatedRights)
      /\ n.inputVersion = RevisionVersion(n.inputHash)
      /\ n.state = "DRAFT" /\ n.findings = {}
  BY RevisedParts DEF WellFormed
<1> HIDE DEF n
<1>3. /\ n.inputHash.srt = n.currentSrt /\ n.inputHash.rights = n.rights
      /\ n.inputHash.command = n.deliveryCommand /\ n.inputHash.revision = {r}
  BY <1>1, HashParts
<1>4. n.currentSrt \in DOMAIN SubtitleFindings /\ n.rights \in DOMAIN RightsFindings
  BY <1>2, ReplaceIn, InputsAssumption DEF InputsAssumption, WellFormed, Hashed
<1>5. Hashed(n)
  BY <1>3, <1>4 DEF Hashed
<1>6. Rooted(n)
  BY <1>1, <1>2, <1>3 DEF Rooted, FromRevision
<1>7. WellFormed(n)
  BY <1>2, <1>5, <1>6, FreshWell DEF ReleaseStates
<1>8. QED
  BY <1>1, <1>2, <1>3, <1>7, FreshIsFindable DEF n, Placed, AtValidate

-----------------------------------------------------------------------------
(* What outlives the other invocations                                     *)

\* Nothing that was returned, decided, accepted or recorded is taken back.
Grows ==
    /\ saved \subseteq saved'
    /\ approvals \subseteq approvals'
    /\ requests \subseteq requests'
    /\ DOMAIN records \subseteq DOMAIN records'

LEMMA WellStays ==
    ASSUME NEW c, Grows, WellFormed(c)
    PROVE  WellFormed(c)'
<1>1. CheckpointOK(c)'
  BY DEF Grows, WellFormed, CheckpointOK
<1>2. Rooted(c)'
  BY DEF Grows, WellFormed, Rooted, FromStart, FromRevision
<1>3. QED
  BY <1>1, <1>2 DEF WellFormed

LEMMA ClearedStays ==
    ASSUME NEW c, Grows, Cleared(c)
    PROVE  Cleared(c)'
BY DEF Grows, Cleared

LEMMA AnswersStays ==
    ASSUME NEW c, NEW r, Grows, Answers(c, r)
    PROVE  Answers(c, r)'
BY DEF Grows, Answers

LEMMA PlacedStays ==
    ASSUME NEW node, NEW c, Grows, Placed(node, c)
    PROVE  Placed(node, c)'
<1>1. WellFormed(c)'
  BY WellStays DEF Placed
<1>2. Findable(c)'
  BY DEF Grows, Placed, Findable
<1>3. AtQc(c) => AtQc(c)'
  BY ClearedStays, AnswersStays DEF Grows, AtQc
<1>4. Returned(c) => Returned(c)'
  BY ClearedStays, AnswersStays DEF Grows, Returned
<1>5. QED
  BY <1>1, <1>2, <1>3, <1>4, ClearedStays DEF Placed

-----------------------------------------------------------------------------
(* Steps                                                                   *)

\* Checkpoints with the history of c have its source.
SourceFits(c) == \A d \in Checkpoints : d.inputHash = c.inputHash => d.sourceSrt = c.sourceSrt

\* Invocation i gets to a node, or returns, with a checkpoint fit for it.
Arrives(i) ==
    \E c : \E node \in Nodes \cup {"__end__"} :
        Goto(i, node, c) /\ Placed(node, c)' /\ SourceFits(c)

LEMMA SourceFitsAll ==
    ASSUME SourceInv, NEW c \in Checkpoints, NEW n,
           n.inputHash = c.inputHash, n.sourceSrt = c.sourceSrt
    PROVE  SourceFits(n)
BY DEF SourceInv, SourceFits

LEMMA AtHolds ==
    ASSUME PlaceInv, NEW i \in Invocations, NEW node, NEW c, At(i, node, c)
    PROVE  c \in Checkpoints /\ Placed(node, c) /\ WellFormed(c) /\ IsCheckpoint(c)
<1>1. [node |-> node, checkpoint |-> c] \in running[i]
  BY DEF At
<1>2. Placed(node, c)
  BY <1>1 DEF PlaceInv
<1>3. c \in Held(i)
  BY <1>1 DEF Held
<1>4. QED
  BY <1>2, <1>3 DEF Checkpoints, Placed, WellFormed

LEMMA GotoMoves ==
    ASSUME RunningInv, NEW i \in Invocations, NEW node, NEW c, Goto(i, node, c)
    PROVE  /\ saved' = IF node = "__end__" THEN saved \cup {c} ELSE saved
           /\ running' = [j \in Invocations |-> running'[j]]
           /\ \A j \in Invocations : running'[j] =
                IF j # i THEN running[j]
                ELSE IF node = "__end__" THEN {} ELSE {[node |-> node, checkpoint |-> c]}
           /\ Checkpoints' \subseteq Checkpoints \cup {c}
<1>1. /\ saved' = IF node = "__end__" THEN saved \cup {c} ELSE saved
      /\ running' = [running EXCEPT ![i] =
            IF node = "__end__" THEN {} ELSE {[node |-> node, checkpoint |-> c]}]
  BY DEF Goto
<1>2. \A j \in Invocations : running'[j] =
        IF j # i THEN running[j]
        ELSE IF node = "__end__" THEN {} ELSE {[node |-> node, checkpoint |-> c]}
  BY <1>1 DEF RunningInv
<1>3. running' = [j \in Invocations |-> running'[j]]
  BY <1>1 DEF RunningInv
<1>4. \A j \in Invocations : Held(j)' \subseteq Held(j) \cup {c}
  BY <1>2 DEF Held
<1>5. Checkpoints' \subseteq Checkpoints \cup {c}
  BY <1>1, <1>4 DEF Checkpoints
<1>6. QED
  BY <1>1, <1>2, <1>3, <1>5

LEMMA ArrivesKeeps ==
    ASSUME IInv, NEW i \in Invocations, Grows, Arrives(i), calls' \in 0 .. MaxCalls
    PROVE  PlaceInv' /\ SourceInv' /\ RunningInv'
<1>0. PICK c :
        \E node \in Nodes \cup {"__end__"} :
            Goto(i, node, c) /\ Placed(node, c)' /\ SourceFits(c)
  BY DEF Arrives
<1>1. PICK node \in Nodes \cup {"__end__"} :
        Goto(i, node, c) /\ Placed(node, c)' /\ SourceFits(c)
  BY <1>0
<1>2. /\ saved' = IF node = "__end__" THEN saved \cup {c} ELSE saved
      /\ running' = [j \in Invocations |-> running'[j]]
      /\ \A j \in Invocations : running'[j] =
           IF j # i THEN running[j]
           ELSE IF node = "__end__" THEN {} ELSE {[node |-> node, checkpoint |-> c]}
      /\ Checkpoints' \subseteq Checkpoints \cup {c}
  BY <1>1, GotoMoves DEF IInv
<1>3. PlaceInv'
  <2>1. ASSUME NEW d \in saved' PROVE Placed("__end__", d)'
    BY <1>1, <1>2, <2>1, PlacedStays DEF IInv, PlaceInv
  <2>2. ASSUME NEW j \in Invocations, NEW t \in running'[j]
        PROVE  Placed(t.node, t.checkpoint)'
    <3>1. CASE j # i
      BY <1>2, <2>2, <3>1, PlacedStays DEF IInv, PlaceInv
    <3>2. CASE j = i
      <4>1. t = [node |-> node, checkpoint |-> c]
        BY <1>2, <2>2, <3>2
      <4>2. QED
        BY <1>1, <4>1
    <3>3. QED
      BY <3>1, <3>2
  <2>3. QED
    BY <2>1, <2>2 DEF PlaceInv
<1>4. SourceInv'
  BY <1>1, <1>2 DEF IInv, SourceInv, SourceFits
<1>5. RunningInv'
  <2>1. ASSUME NEW j \in Invocations
        PROVE  Optional(running'[j]) /\ \A t \in running'[j] : t.node \in Nodes
    BY <1>1, <1>2 DEF IInv, RunningInv, Optional
  <2>2. QED
    BY <1>2, <2>1 DEF RunningInv
<1>6. QED
  BY <1>3, <1>4, <1>5

LEMMA SameKeeps ==
    ASSUME Grows
    PROVE  /\ ApprovalInv /\ UNCHANGED approvals => ApprovalInv'
           /\ AdapterInv /\ UNCHANGED adapter => AdapterInv'
BY DEF Grows, ApprovalInv, AdapterInv, adapter

\* A step that touches neither decisions nor the platform.
Quiet == UNCHANGED <<approvals, adapter>>

LEMMA GotoGrows ==
    ASSUME RunningInv, NEW i \in Invocations, NEW node, NEW c, Goto(i, node, c), Quiet
    PROVE  Grows
BY GotoMoves DEF Grows, Quiet, adapter

LEMMA QuietArrives ==
    ASSUME IInv, NEW i \in Invocations, NEW node \in Nodes \cup {"__end__"}, NEW c, Goto(i, node, c),
           Quiet, Placed(node, c), SourceFits(c)
    PROVE  Grows /\ Arrives(i)
BY GotoGrows, PlacedStays DEF IInv, Arrives

LEMMA PassArrives ==
    ASSUME IInv, NEW i \in Invocations, NEW node, NEW c, NEW next \in Nodes \cup {"__end__"}, NEW n,
           Pass(i, node, c, next, n), Placed(next, n),
           n.inputHash = c.inputHash, n.sourceSrt = c.sourceSrt
    PROVE  Grows /\ Arrives(i) /\ Quiet /\ UNCHANGED calls
<1>1. At(i, node, c) /\ Goto(i, next, n) /\ Quiet /\ UNCHANGED calls
  BY DEF Pass, Quiet
<1>2. SourceFits(n)
  BY <1>1, AtHolds, SourceFitsAll DEF IInv
<1>3. QED
  BY <1>1, <1>2, QuietArrives

\* The nodes that touch nothing but their checkpoint.
NodeOf(i) ==
    \/ Validate(i) \/ Repair(i) \/ Manual(i) \/ Package(i) \/ Approval(i)
    \/ Recover(i) \/ Qc(i)

LEMMA NodeStep ==
    ASSUME IInv, NEW i \in Invocations, NodeOf(i)
    PROVE  Grows /\ Arrives(i) /\ Quiet /\ UNCHANGED calls
<1>0. PlaceInv /\ SourceInv /\ ApprovalInv /\ AdapterInv
  BY DEF IInv
<1>1. ASSUME Validate(i) PROVE Grows /\ Arrives(i) /\ Quiet /\ UNCHANGED calls
  <2>1. PICK c : Pass(i, "validate", c, RouteAfterValidation(Validated(c)), Validated(c))
    BY <1>1 DEF Validate
  <2>2. Placed("validate", c) /\ IsCheckpoint(c)
    BY <1>0, <2>1, AtHolds DEF Pass
  <2>3. RouteAfterValidation(Validated(c)) \in Nodes
    BY DEF RouteAfterValidation, Nodes
  <2>4. Validated(c).inputHash = c.inputHash /\ Validated(c).sourceSrt = c.sourceSrt
    BY <2>2, ValidatedParts DEF Identity
  <2>5. QED
    BY <2>1, <2>2, <2>3, <2>4, ValidatePlaces, PassArrives
<1>2. ASSUME Repair(i) PROVE Grows /\ Arrives(i) /\ Quiet /\ UNCHANGED calls
  <2>1. PICK c : Pass(i, "repair", c, RouteAfterRepair(Repaired(c)), Repaired(c))
    BY <1>2 DEF Repair
  <2>2. Placed("repair", c) /\ IsCheckpoint(c)
    BY <1>0, <2>1, AtHolds DEF Pass
  <2>3. RouteAfterRepair(Repaired(c)) \in Nodes
    BY DEF RouteAfterRepair, Nodes
  <2>4. Repaired(c).inputHash = c.inputHash /\ Repaired(c).sourceSrt = c.sourceSrt
    BY <2>2, RepairedParts DEF Identity
  <2>5. QED
    BY <2>1, <2>2, <2>3, <2>4, RepairPlaces, PassArrives
<1>3. ASSUME Manual(i) PROVE Grows /\ Arrives(i) /\ Quiet /\ UNCHANGED calls
  <2>1. PICK c : Pass(i, "manual", c, "__end__", ToHuman(c))
    BY <1>3 DEF Manual
  <2>2. Placed("manual", c) /\ IsCheckpoint(c)
    BY <1>0, <2>1, AtHolds DEF Pass
  <2>3. ToHuman(c).inputHash = c.inputHash /\ ToHuman(c).sourceSrt = c.sourceSrt
    BY <2>2, ToHumanParts, FollowsKeeps
  <2>4. QED
    BY <2>1, <2>2, <2>3, ManualPlaces, PassArrives
<1>4. ASSUME Package(i) PROVE Grows /\ Arrives(i) /\ Quiet /\ UNCHANGED calls
  <2>1. PICK c : Pass(i, "package", c, "approval", Packaged(c))
    BY <1>4 DEF Package
  <2>2. Placed("package", c) /\ IsCheckpoint(c)
    BY <1>0, <2>1, AtHolds DEF Pass
  <2>3. Packaged(c).inputHash = c.inputHash /\ Packaged(c).sourceSrt = c.sourceSrt
    BY <2>2, PackagedParts DEF Identity
  <2>4. "approval" \in Nodes
    BY DEF Nodes
  <2>5. QED
    BY <2>1, <2>2, <2>3, <2>4, PackagePlaces, PassArrives
<1>5. ASSUME Approval(i) PROVE Grows /\ Arrives(i) /\ Quiet /\ UNCHANGED calls
  <2>1. PICK c : /\ \A a \in c.approval : ValidApproval(c, a)
                 /\ Pass(i, "approval", c, RouteAfterApproval(Decided(c)), Decided(c))
    BY <1>5 DEF Approval
  <2>2. Placed("approval", c) /\ IsCheckpoint(c)
    BY <1>0, <2>1, AtHolds DEF Pass
  <2>3. RouteAfterApproval(Decided(c)) \in Nodes \cup {"__end__"}
    BY DEF RouteAfterApproval, Nodes
  <2>4. Decided(c).inputHash = c.inputHash /\ Decided(c).sourceSrt = c.sourceSrt
    BY <2>2, DecidedParts, FollowsKeeps
  <2>5. Placed(RouteAfterApproval(Decided(c)), Decided(c))
    BY <1>0, <2>1, <2>2, ApprovalPlaces
  <2>6. QED
    BY <2>1, <2>3, <2>4, <2>5, PassArrives
<1>6. ASSUME Recover(i) PROVE Grows /\ Arrives(i) /\ Quiet /\ UNCHANGED calls
  <2> DEFINE Found(c) == Submitted(c, records[KeyOf(c)])
             Missed(c) == [c EXCEPT !.state = "SUBMITTING"]
  <2>1. PICK c : \/ /\ KeyOf(c) \in DOMAIN records
                    /\ Pass(i, "recover", c, "qc", Found(c))
                 \/ Pass(i, "recover", c, "submit", Missed(c))
    BY <1>6 DEF Recover
  <2>2. c \in Checkpoints /\ Placed("recover", c) /\ IsCheckpoint(c)
    BY <1>0, <2>1, AtHolds DEF Pass
  <2>3. /\ Found(c).inputHash = c.inputHash /\ Found(c).sourceSrt = c.sourceSrt
        /\ Missed(c).inputHash = c.inputHash /\ Missed(c).sourceSrt = c.sourceSrt
    BY <2>2, SubmittedParts, SubmittingParts, FollowsKeeps
  <2>4. "qc" \in Nodes /\ "submit" \in Nodes
    BY DEF Nodes
  <2>5. KeyOf(c) \in DOMAIN records => Placed("qc", Found(c))
    BY <1>0, <2>2, RecoverFinds
  <2>6. Placed("submit", Missed(c))
    BY <2>2, RecoverMisses
  <2> HIDE DEF Found, Missed
  <2>7. QED
    BY <2>1, <2>3, <2>4, <2>5, <2>6, PassArrives
<1>7. ASSUME Qc(i) PROVE Grows /\ Arrives(i) /\ Quiet /\ UNCHANGED calls
  <2>0. PICK c : \E r \in requests :
            /\ \E s \in c.submission : r.id \in s.request
            /\ Pass(i, "qc", c, "__end__", Judged(c, r.verdict))
    BY <1>7 DEF Qc
  <2>1. PICK r \in requests :
            /\ \E s \in c.submission : r.id \in s.request
            /\ Pass(i, "qc", c, "__end__", Judged(c, r.verdict))
    BY <2>0
  <2>2. Placed("qc", c) /\ IsCheckpoint(c) /\ r.verdict \in {"PASSED", "FAILED"}
    BY <1>0, <2>1, AtHolds DEF Pass, AdapterInv
  <2>3. /\ Judged(c, r.verdict).inputHash = c.inputHash
        /\ Judged(c, r.verdict).sourceSrt = c.sourceSrt
    BY <2>2, JudgedParts, FollowsKeeps
  <2>4. Placed("__end__", Judged(c, r.verdict))
    BY <1>0, <2>1, <2>2, QcPlaces
  <2>5. QED
    BY <2>1, <2>3, <2>4, PassArrives
<1>8. QED
  BY <1>1, <1>2, <1>3, <1>4, <1>5, <1>6, <1>7 DEF NodeOf

\* Only a revision of a checkpoint has the hash of one.
LEMMA RevisedFrom ==
    ASSUME PlaceInv, NEW d \in Checkpoints
    PROVE  \/ /\ d.inputHash.revision = {}
              /\ d.sourceSrt = d.inputHash.srt
           \/ /\ d.inputHash.revision # {}
              /\ \A r \in d.inputHash.revision :
                    \E p \in saved : p.inputHash = r.previous /\ p.sourceSrt = d.sourceSrt
<1>1. Rooted(d)
  BY PlacesWell DEF WellFormed
<1>2. CASE FromStart(d)
  <2>1. PICK s \in StartInputs :
            d.inputHash = InputHash(s, {}) /\ d.sourceSrt = s.currentSrt
    BY <1>2 DEF FromStart
  <2>2. QED
    BY <2>1, HashParts
<1>3. CASE FromRevision(d)
  BY <1>3 DEF FromRevision
<1>4. QED
  BY <1>1, <1>2, <1>3 DEF Rooted

LEMMA CallStep ==
    ASSUME IInv, NEW i \in Invocations, Start(i) \/ Resume(i) \/ Revise(i)
    PROVE  Grows /\ Arrives(i) /\ Quiet /\ calls' \in 0 .. MaxCalls
<1>0. PlaceInv /\ SourceInv
  BY DEF IInv
<1>1. Quiet /\ calls' \in 0 .. MaxCalls
  <2>1. Call(i)
    BY DEF Start, Resume, Revise
  <2>2. calls \in 0 .. MaxCalls /\ MaxCalls \in Nat
    BY MaxCallsAssumption DEF MaxCallsAssumption, IInv, RunningInv
  <2>3. QED
    BY <2>1, <2>2 DEF Call, Quiet
<1>2. "validate" \in Nodes
  BY DEF Nodes
<1>3. ASSUME Start(i) PROVE Grows /\ Arrives(i)
  <2>1. PICK s \in StartInputs : Goto(i, "validate", InitialCheckpoint(s))
    BY <1>3 DEF Start
  <2> DEFINE n == InitialCheckpoint(s)
  <2>2. Placed("validate", n) /\ FromStart(n)
    BY StartPlaces
  <2> HIDE DEF n
  <2>3. n.inputHash.revision = {} /\ n.sourceSrt = n.inputHash.srt
    <3>1. PICK t \in StartInputs :
              n.inputHash = InputHash(t, {}) /\ n.sourceSrt = t.currentSrt
      BY <2>2 DEF FromStart
    <3>2. QED
      BY <3>1, HashParts
  <2>4. SourceFits(n)
    BY <1>0, <2>3, RevisedFrom DEF SourceFits
  <2>5. QED
    BY <1>1, <1>2, <2>1, <2>2, <2>4, QuietArrives DEF n
<1>4. ASSUME Resume(i) PROVE Grows /\ Arrives(i)
  <2>0. PICK c \in saved :
            \/ Goto(i, RouteEntry(c), c)
            \/ \E a \in approvals :
                LET n == [c EXCEPT !.approval = {a}]
                IN  ValidApproval(c, a) /\ Goto(i, RouteEntry(n), n)
    BY <1>4 DEF Resume
  <2>1. Placed("__end__", c) /\ c \in Checkpoints
    BY <1>0 DEF PlaceInv, Checkpoints
  <2>2. ASSUME NEW n, Placed("__end__", n), Follows(n, c) \/ n = c, Goto(i, RouteEntry(n), n)
        PROVE  Grows /\ Arrives(i)
    <3>1. n.inputHash = c.inputHash /\ n.sourceSrt = c.sourceSrt
      BY <2>2, FollowsKeeps
    <3>2. SourceFits(n)
      BY <1>0, <2>1, <3>1, SourceFitsAll
    <3>3. RouteEntry(n) \in Nodes \cup {"__end__"}
      BY DEF RouteEntry, Nodes
    <3>4. QED
      BY <1>1, <2>2, <3>2, <3>3, EntryPlaces, QuietArrives
  <2>3. CASE Goto(i, RouteEntry(c), c)
    BY <2>1, <2>2, <2>3
  <2>4. ASSUME NEW a \in approvals, ValidApproval(c, a),
               Goto(i, RouteEntry([c EXCEPT !.approval = {a}]), [c EXCEPT !.approval = {a}])
        PROVE  Grows /\ Arrives(i)
    <3> DEFINE n == [c EXCEPT !.approval = {a}]
    <3>1. Placed("__end__", n) /\ Follows(n, c)
      BY <2>1, <2>4, ResumedPlaces
    <3>2. QED
      BY <2>2, <2>4, <3>1
  <2>5. QED
    BY <2>0, <2>3, <2>4
<1>5. ASSUME Revise(i) PROVE Grows /\ Arrives(i)
  <2>1. PICK c \in saved, u \in Updates : Goto(i, "validate", Revised(c, u))
    BY <1>5 DEF Revise
  <2> DEFINE n == Revised(c, u)
  <2>2. WellFormed(c) /\ c \in Checkpoints
    BY <1>0 DEF PlaceInv, Placed, Checkpoints
  <2>3. /\ Placed("validate", n) /\ n.sourceSrt = c.sourceSrt
        /\ \E r \in n.inputHash.revision : r.previous = c.inputHash
    BY <2>2, RevisePlaces
  <2> HIDE DEF n
  <2>4. SourceFits(n)
    <3>1. SUFFICES ASSUME NEW d \in Checkpoints, d.inputHash = n.inputHash
                   PROVE  d.sourceSrt = n.sourceSrt
      BY DEF SourceFits
    <3>2. PICK p \in saved : p.inputHash = c.inputHash /\ p.sourceSrt = d.sourceSrt
      BY <1>0, <2>3, <3>1, RevisedFrom
    <3>3. p.sourceSrt = c.sourceSrt
      BY <1>0, <2>2, <3>2 DEF SourceInv, Checkpoints
    <3>4. QED
      BY <2>3, <3>2, <3>3
  <2>5. QED
    BY <1>1, <1>2, <2>1, <2>3, <2>4, QuietArrives DEF n
<1>6. QED
  BY <1>1, <1>3, <1>4, <1>5

\* The platform accepts under a key it has not seen.
LEMMA AcceptKeeps ==
    ASSUME IInv, NEW c, Placed("submit", c), KeyOf(c) \notin DOMAIN records,
           NEW id, id = externalSubmitCount + 1, externalSubmitCount' = id,
           NEW verdict \in {"PASSED", "FAILED"}, Accept(c, id, verdict),
           saved \subseteq saved', UNCHANGED approvals
    PROVE  /\ Grows /\ AdapterInv'
           /\ KeyOf(c) \in DOMAIN records'
           /\ \E r \in requests' : r.id = id /\ SentFor(c, r)
<1> DEFINE r == [id |-> id, key |-> KeyOf(c), sent |-> c.preparedCommand, verdict |-> verdict]
<1>0. PlaceInv /\ ApprovalInv /\ AdapterInv
  BY DEF IInv
<1>1. /\ requests' = requests \cup {r}
      /\ DOMAIN records' = DOMAIN records \cup {KeyOf(c)}
      /\ \A k \in DOMAIN records' : records'[k] = IF k = KeyOf(c) THEN id ELSE records[k]
  BY DEF Accept
<1>2. r.id = id /\ r.key = KeyOf(c) /\ r.sent = c.preparedCommand /\ r.verdict = verdict
  OBVIOUS
<1> HIDE DEF r
<1>3. SentFor(c, r)
  BY <1>2 DEF SentFor
<1>4. Grows
  BY <1>1 DEF Grows
<1>5. PICK d \in saved : d.deliveryPackage # {} /\ SentFor(d, r)
  BY <1>0, <1>2, SendingParts, ClearedIsHeld DEF SentFor
<1>6. externalSubmitCount \in Nat
  BY <1>0 DEF AdapterInv
<1>7. ASSUME NEW q \in requests'
      PROVE  /\ q.id \in 1 .. externalSubmitCount' /\ q.key \in DOMAIN records'
             /\ q.verdict \in {"PASSED", "FAILED"}
             /\ \E e \in saved' : e.deliveryPackage # {} /\ SentFor(e, q)
  <2>1. CASE q = r
    BY <1>1, <1>2, <1>5, <1>6, <2>1
  <2>2. CASE q \in requests
    <3>1. /\ q.id \in 1 .. externalSubmitCount /\ q.key \in DOMAIN records
          /\ q.verdict \in {"PASSED", "FAILED"}
          /\ \E e \in saved : e.deliveryPackage # {} /\ SentFor(e, q)
      BY <1>0, <2>2 DEF AdapterInv
    <3>2. QED
      BY <1>1, <1>6, <3>1
  <2>3. QED
    BY <1>1, <2>1, <2>2
<1>8. ASSUME NEW p \in requests', NEW q \in requests', p.id = q.id \/ p.key = q.key
      PROVE  p = q
  <2>1. ASSUME NEW o \in requests PROVE o.id # r.id /\ o.key # r.key
    <3>1. o.id \in 1 .. externalSubmitCount /\ o.key \in DOMAIN records
      BY <1>0 DEF AdapterInv
    <3>2. QED
      BY <1>2, <1>6, <3>1
  <2>2. QED
    BY <1>0, <1>1, <1>8, <2>1 DEF AdapterInv
<1>9. ASSUME NEW k \in DOMAIN records'
      PROVE  \E q \in requests' : q.id = records'[k] /\ q.key = k
  <2>1. CASE k = KeyOf(c)
    BY <1>1, <1>2, <2>1
  <2>2. CASE k # KeyOf(c)
    <3>1. k \in DOMAIN records /\ records'[k] = records[k]
      BY <1>1, <2>2
    <3>2. PICK q \in requests : q.id = records[k] /\ q.key = k
      BY <1>0, <3>1 DEF AdapterInv
    <3>3. QED
      BY <1>1, <3>1, <3>2
  <2>3. QED
    BY <2>1, <2>2
<1>10. AdapterInv'
  <2>1. externalSubmitCount' \in Nat
    BY <1>6
  <2>2. QED
    BY <2>1, <1>7, <1>8, <1>9 DEF AdapterInv
<1>11. QED
  BY <1>1, <1>2, <1>3, <1>4, <1>10

LEMMA GotoSaves ==
    ASSUME NEW i, NEW node, NEW c, Goto(i, node, c)
    PROVE  saved \subseteq saved'
BY DEF Goto

LEMMA SubmitStep ==
    ASSUME IInv, NEW i \in Invocations, Submit(i)
    PROVE  Grows /\ Arrives(i) /\ AdapterInv' /\ UNCHANGED <<approvals, calls>>
<1>0. PlaceInv /\ SourceInv /\ ApprovalInv /\ AdapterInv /\ "qc" \in Nodes
  BY DEF IInv, Nodes
<1>1. PICK c :
        /\ At(i, "submit", c)
        /\ \/ /\ KeyOf(c) \in DOMAIN records
              /\ Goto(i, "qc", Submitted(c, records[KeyOf(c)]))
              /\ UNCHANGED adapter
           \/ /\ Goto(i, "__end__", Refused(c, "CAPTION_TRACK_CONFLICT"))
              /\ UNCHANGED adapter
           \/ /\ KeyOf(c) \notin DOMAIN records
              /\ Attempt(i, c)
  BY DEF Submit
<1>2. c \in Checkpoints /\ Placed("submit", c) /\ WellFormed(c) /\ IsCheckpoint(c)
  BY <1>0, <1>1, AtHolds
<1>3. UNCHANGED <<approvals, calls>>
  BY DEF Submit
<1>4. ASSUME NEW n, Follows(n, c)
      PROVE  n.inputHash = c.inputHash /\ n.sourceSrt = c.sourceSrt /\ SourceFits(n)
  BY <1>0, <1>2, <1>4, FollowsKeeps, SourceFitsAll
<1>5. ASSUME NEW id PROVE SourceFits(Submitted(c, id))
  BY <1>2, <1>4, SubmittedParts
<1>6. SourceFits(RetryWait(c))
  BY <1>2, <1>4, RetryParts
<1>7. ASSUME NEW code PROVE SourceFits(Refused(c, code))
  BY <1>2, <1>4, RefusedParts
<1>8. ASSUME KeyOf(c) \in DOMAIN records, UNCHANGED adapter,
             Goto(i, "qc", Submitted(c, records[KeyOf(c)]))
      PROVE  Grows /\ Arrives(i) /\ AdapterInv'
  <2>1. Placed("qc", Submitted(c, records[KeyOf(c)]))
    BY <1>0, <1>2, <1>8, RecoverFinds
  <2>2. Quiet
    BY <1>3, <1>8 DEF Quiet
  <2>3. Grows /\ Arrives(i)
    BY <1>0, <1>5, <1>8, <2>1, <2>2, QuietArrives
  <2>4. QED
    BY <1>0, <1>8, <2>3, SameKeeps
<1>9. ASSUME UNCHANGED adapter, Goto(i, "__end__", Refused(c, "CAPTION_TRACK_CONFLICT"))
      PROVE  Grows /\ Arrives(i) /\ AdapterInv'
  <2>1. Placed("__end__", Refused(c, "CAPTION_TRACK_CONFLICT"))
    BY <1>2, RefusedPlaces
  <2>2. Quiet
    BY <1>3, <1>9 DEF Quiet
  <2>3. Grows /\ Arrives(i)
    BY <1>7, <1>9, <2>1, <2>2, QuietArrives
  <2>4. QED
    BY <1>0, <1>9, <2>3, SameKeeps
<1>10. ASSUME KeyOf(c) \notin DOMAIN records, Attempt(i, c)
       PROVE  Grows /\ Arrives(i) /\ AdapterInv'
  <2>9. PICK id : id = externalSubmitCount + 1
    OBVIOUS
  <2>0. externalSubmitCount' = id /\ externalSubmitCount \in Nat
    BY <1>0, <1>10, <2>9 DEF Attempt, AdapterInv
  <2>1. ASSUME NEW verdict \in {"PASSED", "FAILED"}, Accept(c, id, verdict),
               Goto(i, "qc", Submitted(c, id)) \/ Goto(i, "__end__", RetryWait(c))
        PROVE  Grows /\ Arrives(i) /\ AdapterInv'
    <3>1. saved \subseteq saved'
      BY <2>1, GotoSaves
    <3>2. /\ Grows /\ AdapterInv' /\ KeyOf(c) \in DOMAIN records'
          /\ \E r \in requests' : r.id = id /\ SentFor(c, r)
      BY <1>2, <1>3, <1>10, <2>9, <2>0, <2>1, <3>1, AcceptKeeps
    <3>3. PICK r \in requests' : r.id = id /\ SentFor(c, r)
      BY <3>2
    <3>4. WellFormed(Submitted(c, id)) /\ WellFormed(RetryWait(c)) /\ Cleared(c)
      BY <1>2, SubmittedWell, RetryWell, SendingParts
    <3>5. WellFormed(Submitted(c, id))' /\ WellFormed(RetryWait(c))' /\ Cleared(c)'
      BY <3>2, <3>4, WellStays, ClearedStays
    <3>6. Placed("qc", Submitted(c, id))' /\ Placed("__end__", RetryWait(c))'
      BY <1>2, <3>2, <3>3, <3>5, AcceptPlaces
    <3>7. Arrives(i)
      BY <1>0, <1>5, <1>6, <2>1, <3>6 DEF Arrives
    <3>8. QED
      BY <3>2, <3>7
  <2>2. ASSUME Goto(i, "__end__", Refused(c, "PLATFORM_REJECTED")),
               UNCHANGED <<records, requests>>
        PROVE  Grows /\ Arrives(i) /\ AdapterInv'
    <3>1. Grows
      BY <1>3, <2>2, GotoSaves DEF Grows
    <3>2. Placed("__end__", Refused(c, "PLATFORM_REJECTED"))'
      BY <1>2, <3>1, RefusedPlaces, PlacedStays
    <3>3. Arrives(i)
      BY <1>7, <2>2, <3>2 DEF Arrives
    <3>4. AdapterInv'
      <4>1. externalSubmitCount' \in Nat
            /\ 1 .. externalSubmitCount \subseteq 1 .. externalSubmitCount'
        BY <2>9, <2>0
      <4>2. QED
        BY <1>0, <2>2, <3>1, <4>1 DEF AdapterInv, Grows, SentFor
    <3>5. QED
      BY <3>1, <3>3, <3>4
  <2>3. QED
    BY <1>10, <2>9, <2>1, <2>2 DEF Attempt
<1>11. QED
  BY <1>1, <1>3, <1>8, <1>9, <1>10

LEMMA DecideStep ==
    ASSUME IInv, Decide
    PROVE  /\ Grows /\ ApprovalInv' /\ UNCHANGED <<running, saved, calls, adapter>>
           /\ \E d \in saved : \E a :
                /\ approvals' = approvals \cup {a}
                /\ d.deliveryPackage # {} /\ a.binding = ApprovalBinding(d)
<1>1. PICK d \in saved, decision \in {"APPROVED", "REJECTED"} :
        \E binding \in d.approvalRequest :
            approvals' = approvals \cup {[binding |-> binding, decision |-> decision]}
  BY DEF Decide
<1>2. PICK binding \in d.approvalRequest :
        approvals' = approvals \cup {[binding |-> binding, decision |-> decision]}
  BY <1>1
<1> DEFINE a == [binding |-> binding, decision |-> decision]
<1>3. a.binding = binding /\ a.decision \in {"APPROVED", "REJECTED"}
  OBVIOUS
<1> HIDE DEF a
<1>4. approvals' = approvals \cup {a} /\ UNCHANGED <<running, saved, calls, adapter>>
  BY <1>2 DEF a, Decide
<1>5. d.deliveryPackage # {} /\ binding = ApprovalBinding(d)
  <2>1. WellFormed(d)
    BY DEF IInv, PlaceInv, Placed
  <2>2. QED
    BY <2>1, WellParts
<1>6. Grows
  BY <1>4 DEF Grows, adapter
<1>7. ApprovalInv'
  BY <1>3, <1>4, <1>5 DEF IInv, ApprovalInv
<1>8. QED
  BY <1>3, <1>4, <1>5, <1>6, <1>7

\* Of a step in which no invocation moves on: each of them stays, or stops.
LEMMA StayKeeps ==
    ASSUME IInv, Grows, UNCHANGED <<saved, calls>>,
           running' = [i \in Invocations |-> running'[i]],
           \A i \in Invocations : running'[i] \in {running[i], {}}
    PROVE  RunningInv' /\ PlaceInv' /\ SourceInv'
<1>1. RunningInv'
  BY DEF IInv, RunningInv, Optional
<1>2. PlaceInv'
  BY PlacedStays DEF IInv, PlaceInv
<1>3. Checkpoints' \subseteq Checkpoints
  BY DEF Checkpoints, Held
<1>4. SourceInv'
  BY <1>3 DEF IInv, SourceInv
<1>5. QED
  BY <1>1, <1>2, <1>4

LEMMA InitIInv == Init => IInv
<1> SUFFICES ASSUME Init PROVE IInv
  OBVIOUS
<1>1. RunningInv
  BY MaxCallsAssumption DEF MaxCallsAssumption, Init, RunningInv, Optional
<1>2. PlaceInv /\ ApprovalInv
  BY DEF Init, PlaceInv, ApprovalInv
<1>3. SourceInv
  BY DEF Init, SourceInv, Checkpoints, Held
<1>4. AdapterInv
  BY DEF Init, AdapterInv
<1>5. QED
  BY <1>1, <1>2, <1>3, <1>4 DEF IInv

LEMMA Inductive == IInv /\ [Next]_vars => IInv'
<1> SUFFICES ASSUME IInv, [Next]_vars PROVE IInv'
  OBVIOUS
<1>0. ApprovalInv /\ AdapterInv /\ RunningInv
  BY DEF IInv
<1>1. ASSUME Decide PROVE IInv'
  <2>1. Grows /\ ApprovalInv' /\ UNCHANGED <<running, saved, calls, adapter>>
    BY <1>1, DecideStep
  <2>2. RunningInv' /\ PlaceInv' /\ SourceInv'
    BY <1>0, <2>1, StayKeeps DEF RunningInv
  <2>3. QED
    BY <1>0, <2>1, <2>2, SameKeeps DEF IInv
<1>2. ASSUME NEW i \in Invocations, Start(i) \/ Resume(i) \/ Revise(i) \/ NodeOf(i) PROVE IInv'
  <2>1. Grows /\ Arrives(i) /\ Quiet /\ calls' \in 0 .. MaxCalls
    BY <1>0, <1>2, CallStep, NodeStep DEF RunningInv
  <2>2. PlaceInv' /\ SourceInv' /\ RunningInv'
    BY <2>1, ArrivesKeeps
  <2>3. QED
    BY <1>0, <2>1, <2>2, SameKeeps DEF IInv, Quiet
<1>3. ASSUME NEW i \in Invocations, Submit(i) PROVE IInv'
  <2>1. Grows /\ Arrives(i) /\ AdapterInv' /\ UNCHANGED <<approvals, calls>>
    BY <1>3, SubmitStep
  <2>2. PlaceInv' /\ SourceInv' /\ RunningInv'
    BY <1>0, <2>1, ArrivesKeeps DEF RunningInv
  <2>3. QED
    BY <1>0, <2>1, <2>2, SameKeeps DEF IInv
<1>4. ASSUME NEW i \in Invocations, Throw(i) PROVE IInv'
  <2>1. Grows
    BY <1>4 DEF Throw, Grows, adapter
  <2>2. RunningInv' /\ PlaceInv' /\ SourceInv'
    BY <1>0, <1>4, <2>1, StayKeeps DEF Throw, RunningInv
  <2>3. QED
    BY <1>0, <1>4, <2>1, <2>2, SameKeeps DEF IInv, Throw
<1>5. ASSUME UNCHANGED vars PROVE IInv'
  <2>1. Grows
    BY <1>5 DEF vars, Grows, adapter
  <2>2. RunningInv' /\ PlaceInv' /\ SourceInv'
    BY <1>0, <1>5, <2>1, StayKeeps DEF vars, RunningInv
  <2>3. QED
    BY <1>0, <1>5, <2>1, <2>2, SameKeeps DEF IInv, vars
<1>6. QED
  BY <1>1, <1>2, <1>3, <1>4, <1>5 DEF Next, NodeOf

-----------------------------------------------------------------------------
(* Theorems                                                                *)

LEMMA IInvType == IInv => TypeOK
<1> SUFFICES ASSUME IInv PROVE TypeOK
  OBVIOUS
<1>1. \A c \in Checkpoints : CheckpointOK(c)
  BY PlacesWell DEF IInv, WellFormed
<1>2. QED
  BY <1>1 DEF IInv, RunningInv, ApprovalInv, AdapterInv, TypeOK

LEMMA IInvNames == IInv => KeyNamesCommand
<1> SUFFICES ASSUME IInv, NEW c \in Checkpoints, NEW d \in Checkpoints,
                    c.preparedCommand # {}, d.preparedCommand # {},
                    KeyOf(c) = KeyOf(d), ~ SameLabel(c, d)
             PROVE  c.preparedCommand = d.preparedCommand /\ c.deliveryPackage = d.deliveryPackage
  BY DEF KeyNamesCommand
<1>1. c.deliveryPackage # {} /\ d.deliveryPackage # {}
  BY PlacesWell, WellParts DEF IInv
<1>2. QED
  BY <1>1, KeyNames DEF IInv

LEMMA IInvFit == IInv => PackagedIsFit
BY PlacesWell DEF IInv, PackagedIsFit, WellFormed, Fit

LEMMA IInvReports == IInv => ReportsAgree
BY DEF IInv, PlaceInv, Placed, Findable, Returned, Answers, ReportsAgree

\* The invariant holds in every reachable state.
THEOREM Invariance == Spec => []IInv
BY InitIInv, Inductive, PTL DEF Spec

\* Checkpoints are well formed: the parts of one are filled in the order in
\* which workflow.ts runs its nodes, and one with a package names the package
\* and the command that belong to its inputs.
THEOREM TypeCorrect == Spec => []TypeOK
BY Invariance, IInvType, PTL

\* Two checkpoints with one idempotency key have one package and one command,
\* whatever callers kept, revised, repaired or replayed.  The exception is what
\* initialCheckpoint in workflow.ts lets callers do: start two inputs under one
\* version.  From the first revision on, the key names the input again.
THEOREM KeyNamesOneCommand == Spec => []KeyNamesCommand
BY Invariance, IInvNames, PTL

\* No package is made of a subtitle with a finding, or of rights with one that
\* a person may not waive.
THEOREM OnlyFitIsPackaged == Spec => []PackagedIsFit
BY Invariance, IInvFit, PTL

\* What callers are told of a submission is what the platform did, and for the
\* command they prepared, or one that they started under the same version.
THEOREM ReportsAreTrue == Spec => []ReportsAgree
BY Invariance, IInvReports, PTL

-----------------------------------------------------------------------------
(* Refinement: what callers are promised                                   *)

\* What c reports.
Told(c, p) == \E s \in c.submission : s.status = "SUBMITTED" /\ p = <<KeyOf(c), s.request>>

LEMMA PairsAre ==
    /\ \A p : p \in ApprovedPairs <=>
        \E a \in approvals :
            a.decision = "APPROVED" /\ p = <<BoundKey(a.binding), a.binding.command>>
    /\ \A p : p \in ReportedPairs <=>
        \E c \in saved : Told(c, p)
<1> DEFINE Reports(c) == {<<KeyOf(c), s.request>> : s \in {t \in c.submission : t.status = "SUBMITTED"}}
<1>1. \A c : \A p : p \in Reports(c) <=> Told(c, p)
  BY DEF Told
<1>2. ReportedPairs = UNION {Reports(c) : c \in saved}
  BY DEF ReportedPairs
<1> HIDE DEF Reports
<1>3. \A p : p \in ReportedPairs <=> \E c \in saved : p \in Reports(c)
  BY <1>2
<1>4. \A p : p \in ReportedPairs <=> \E c \in saved : Told(c, p)
  BY <1>1, <1>3
<1>5. QED
  BY <1>4 DEF ApprovedPairs

\* The same of the next state.
ReportsAre == \A p : p \in ReportedPairs <=> \E c \in saved : Told(c, p)

LEMMA PairsNext == \A p : p \in ReportedPairs' <=> \E c \in saved' : Told(c, p)
<1>1. ReportsAre
  BY PairsAre DEF ReportsAre
<1>2. ReportsAre'
  BY <1>1, PTL
<1>3. QED
  BY <1>2 DEF ReportsAre

\* A decision is a step of Approve, or of nothing when it is a rejection.
LEMMA DecidePromises ==
    ASSUME IInv, Decide
    PROVE  Promise!Approve \/ UNCHANGED <<ApprovedPairs, requests, ReportedPairs>>
<1>1. PICK a : approvals' = approvals \cup {a}
  BY DecideStep
<1>2. UNCHANGED <<requests, ReportedPairs>>
  BY DecideStep DEF adapter, ReportedPairs
<1> DEFINE q == <<BoundKey(a.binding), a.binding.command>>
<1>3. CASE a.decision = "APPROVED"
  <2>1. \A p : p \in ApprovedPairs' <=> p \in ApprovedPairs \/ p = q
    BY <1>1, <1>3 DEF ApprovedPairs
  <2>2. ApprovedPairs' = ApprovedPairs \cup {q} /\ q \in ApprovedPairs'
    <3> HIDE DEF q
    <3>1. QED
      BY <2>1
  <2>3. QED
    BY <1>2, <2>2 DEF Promise!Approve
<1>4. CASE a.decision # "APPROVED"
  <2>1. ApprovedPairs' = ApprovedPairs
    BY <1>1, <1>4 DEF ApprovedPairs
  <2>2. QED
    BY <1>2, <2>1
<1>5. QED
  BY <1>3, <1>4

\* A checkpoint that is returned reports at most one request.
LEMMA ArrivesReports ==
    ASSUME IInv, NEW i \in Invocations, Arrives(i)
    PROVE  \/ UNCHANGED ReportedPairs
           \/ \E r \in requests' : ReportedPairs' = ReportedPairs \cup {<<r.key, {r.id}>>}
<1>1. PICK c : \E node \in Nodes \cup {"__end__"} : Goto(i, node, c) /\ Placed(node, c)'
  BY DEF Arrives
<1>2. PICK node \in Nodes \cup {"__end__"} : Goto(i, node, c) /\ Placed(node, c)'
  BY <1>1
<1>3. saved' = IF node = "__end__" THEN saved \cup {c} ELSE saved
  BY <1>2 DEF Goto
<1>4. CASE node # "__end__" \/ \A p : ~ Told(c, p)
  <2>1. \A p : p \in ReportedPairs' <=> p \in ReportedPairs
    BY <1>3, <1>4, PairsAre, PairsNext
  <2>2. QED
    BY <2>1
<1>5. ASSUME node = "__end__", NEW q, Told(c, q)
      PROVE  \E r \in requests' : ReportedPairs' = ReportedPairs \cup {<<r.key, {r.id}>>}
  <2>1. PICK s \in c.submission : s.status = "SUBMITTED"
    BY <1>5 DEF Told
  <2>2. PICK r \in requests' : s.request = {r.id} /\ r.key = KeyOf(c)
    BY <1>2, <1>5, <2>1 DEF Placed, Returned, Answers
  <2>3. \A t \in c.submission : t = s
    BY <1>2, <2>1 DEF Placed, WellFormed, CheckpointOK, Optional
  <2>4. \A p : Told(c, p) <=> p = <<r.key, {r.id}>>
    BY <2>1, <2>2, <2>3 DEF Told
  <2>5. \A p : p \in ReportedPairs' <=> p \in ReportedPairs \/ p = <<r.key, {r.id}>>
    BY <1>3, <1>5, <2>4, PairsAre, PairsNext
  <2>6. QED
    BY <2>5
<1>6. QED
  BY <1>4, <1>5

\* Without a new approval or acceptance, a step reports, or shows nothing.
LEMMA ArrivesPromises ==
    ASSUME IInv, NEW i \in Invocations, Arrives(i), UNCHANGED <<approvals, requests>>
    PROVE  Promise!Report \/ UNCHANGED <<ApprovedPairs, requests, ReportedPairs>>
<1>1. UNCHANGED <<ApprovedPairs, requests>>
  BY DEF ApprovedPairs
<1>2. QED
  BY <1>1, ArrivesReports DEF Promise!Report

LEMMA ChooseOnly == ASSUME NEW x PROVE (CHOOSE y \in {x} : TRUE) = x
OBVIOUS

\* What was cleared, a person approved under its key.
LEMMA ClearedIsApproved ==
    ASSUME NEW c, WellFormed(c), Cleared(c)
    PROVE  <<KeyOf(c), c.preparedCommand>> \in ApprovedPairs
<1>1. PICK a \in approvals : a.binding = ApprovalBinding(c) /\ a.decision = "APPROVED"
  BY DEF Cleared
<1>2. c.deliveryPackage = {PackageOf(c)}
  BY WellParts DEF Cleared
<1>3. /\ a.binding.releaseId = c.releaseId /\ a.binding.inputVersion = c.inputVersion
      /\ a.binding.artifact = {PackageOf(c)} /\ a.binding.command = c.preparedCommand
  BY <1>1, <1>2 DEF ApprovalBinding
<1>4. (CHOOSE p \in a.binding.artifact : TRUE) = PackageOf(c)
  BY <1>3, ChooseOnly
<1>5. PackageOf(c).platform = c.deliveryCommand.platform
  BY DEF PackageOf
<1>6. BoundKey(a.binding) = KeyOf(c)
  BY <1>3, <1>4, <1>5 DEF BoundKey, KeyOf
<1>7. QED
  BY <1>1, <1>3, <1>6, PairsAre

LEMMA AcceptPromises ==
    ASSUME IInv, NEW c, Placed("submit", c), KeyOf(c) \notin DOMAIN records,
           NEW id, NEW verdict, Accept(c, id, verdict),
           NEW i, Goto(i, "qc", Submitted(c, id)) \/ Goto(i, "__end__", RetryWait(c)),
           UNCHANGED approvals
    PROVE  Promise!Accept
<1>1. WellFormed(c) /\ IsCheckpoint(c) /\ Cleared(c)
  BY SendingParts
<1> DEFINE r == [id |-> id, key |-> KeyOf(c), sent |-> c.preparedCommand, verdict |-> verdict]
<1>2. requests' = requests \cup {r} /\ r.key = KeyOf(c) /\ r.sent = c.preparedCommand
  BY DEF Accept
<1> HIDE DEF r
<1>3. <<r.key, r.sent>> \in ApprovedPairs
  BY <1>1, <1>2, ClearedIsApproved
<1>4. \A s \in requests : s.key # r.key
  BY <1>2 DEF IInv, AdapterInv
<1>5. UNCHANGED ApprovedPairs
  BY DEF ApprovedPairs
<1>6. UNCHANGED ReportedPairs
  <2>1. \A p : ~ Told(RetryWait(c), p)
    BY <1>1, RetryParts DEF Told
  <2>2. saved' = saved \/ saved' = saved \cup {RetryWait(c)}
    BY DEF Goto
  <2>3. \A p : p \in ReportedPairs' <=> p \in ReportedPairs
    BY <2>1, <2>2, PairsAre, PairsNext
  <2>4. QED
    BY <2>3
<1>7. QED
  BY <1>2, <1>3, <1>4, <1>5, <1>6 DEF Promise!Accept

LEMMA SubmitPromises ==
    ASSUME IInv, NEW i \in Invocations, Submit(i)
    PROVE  Promise!Next \/ UNCHANGED <<ApprovedPairs, requests, ReportedPairs>>
<1>1. Arrives(i) /\ UNCHANGED approvals
  BY SubmitStep
<1>2. CASE UNCHANGED requests
  BY <1>1, <1>2, ArrivesPromises DEF Promise!Next
<1>3. ASSUME requests' # requests PROVE Promise!Accept
  <2>1. PICK c : /\ At(i, "submit", c)
                 /\ KeyOf(c) \notin DOMAIN records
                 /\ Attempt(i, c)
    BY <1>3 DEF Submit, adapter
  <2>2. Placed("submit", c)
    BY <2>1, AtHolds DEF IInv
  <2>3. PICK id : id = externalSubmitCount + 1
    OBVIOUS
  <2>4. PICK verdict \in {"PASSED", "FAILED"} :
            /\ Accept(c, id, verdict)
            /\ Goto(i, "qc", Submitted(c, id)) \/ Goto(i, "__end__", RetryWait(c))
    BY <1>3, <2>1, <2>3 DEF Attempt
  <2>5. QED
    BY <1>1, <2>1, <2>2, <2>4, AcceptPromises
<1>4. QED
  BY <1>2, <1>3 DEF Promise!Next

LEMMA StepPromises ==
    ASSUME IInv, [Next]_vars
    PROVE  [Promise!Next]_<<ApprovedPairs, requests, ReportedPairs>>
<1>1. ASSUME UNCHANGED <<approvals, requests, saved>>
      PROVE  UNCHANGED <<ApprovedPairs, requests, ReportedPairs>>
  BY <1>1 DEF ApprovedPairs, ReportedPairs
<1>2. CASE Decide
  BY <1>2, DecidePromises DEF Promise!Next
<1>3. ASSUME NEW i \in Invocations, Start(i) \/ Resume(i) \/ Revise(i) \/ NodeOf(i)
      PROVE  Promise!Report \/ UNCHANGED <<ApprovedPairs, requests, ReportedPairs>>
  BY <1>3, CallStep, NodeStep, ArrivesPromises DEF Quiet, adapter
<1>4. ASSUME NEW i \in Invocations, Submit(i)
      PROVE  Promise!Next \/ UNCHANGED <<ApprovedPairs, requests, ReportedPairs>>
  BY <1>4, SubmitPromises
<1>5. ASSUME NEW i \in Invocations, Throw(i)
      PROVE  UNCHANGED <<ApprovedPairs, requests, ReportedPairs>>
  BY <1>1, <1>5 DEF Throw, adapter
<1>6. CASE UNCHANGED vars
  BY <1>1, <1>6 DEF vars, adapter
<1>7. QED
  BY <1>2, <1>3, <1>4, <1>5, <1>6 DEF Next, NodeOf, Promise!Next

\* The graph and its adapter implement KeyedDelivery: however many copies of a
\* checkpoint are resumed, revised or running at once, and whatever versions
\* start inputs share, the platform accepts one command per key, an approved
\* one, and a report is of the request accepted under its key.
THEOREM GraphKeepsPromise == Spec => PromiseKept
<1>1. Init => Promise!Init
  BY DEF Init, Promise!Init, ApprovedPairs, ReportedPairs
<1>2. IInv /\ [Next]_vars => [Promise!Next]_<<ApprovedPairs, requests, ReportedPairs>>
  BY StepPromises
<1>3. QED
  BY <1>1, <1>2, Invariance, PTL DEF Spec, PromiseKept, Promise!Spec
=============================================================================
