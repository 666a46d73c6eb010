---------------------------- MODULE ReleaseCycle ----------------------------
(***************************************************************************)
(* A release from its first evaluation to its deliveries, over time: what  *)
(* validationNode finds, what planningNode proposes, what executeAction    *)
(* makes of the proposal, and what the preflight of a submission checks    *)
(* again when the rights window and the assets have moved on.              *)
(*                                                                         *)
(* A request is one step here and the clock moves between requests: what   *)
(* happens when requests overlap, crash or lose replies is the subject of  *)
(* Evaluation, Remediation and Delivery.  Here the data counts: subtitles  *)
(* are cues, the rights are a window, and a submission knows its manifest. *)
(* The release has a video from the start, and all that counts of a video  *)
(* is what the probe said of its duration.                                 *)
(***************************************************************************)
EXTENDS Subtitles, FiniteSets, ReleaseTypes

CONSTANTS
    FirstSubtitles,   \* contents the release may start with
    NewSubtitles,     \* contents a user may upload
    FirstWindows,     \* rights windows it may start with: [validFrom, validUntil]
    NewWindows,       \* windows a user may upload
    FirstVideos,      \* durations it may start with, each a set of at most one
    NewVideos,        \* durations of the videos a user may upload
    WarningWindow,    \* rightsWarningWindowHours
    NeedsTtml,        \* subtitleFormat of the rule set is TTML
    MaxTime,          \* bound: the clock
    MaxAssets,        \* bound: subtitle contents of the release
    MaxVideos         \* bound: videos of the release

Windows == FirstWindows \cup NewWindows
Videos == FirstVideos \cup NewVideos

ASSUME BoundsAssumption ==
    /\ MaxTime \in Nat /\ MaxAssets \in Nat \ {0} /\ WarningWindow \in Nat
    /\ MaxVideos \in Nat \ {0}
    /\ IsFiniteSet(Windows)
    /\ \A w \in Windows : w.validFrom \in Int /\ w.validUntil \in Int

ASSUME VideosAssumption == \A media \in Videos : IsMedia(media)

ASSUME SubtitlesAssumption == FirstSubtitles \cup NewSubtitles \subseteq Seq(SubtitleCue)

VARIABLES
    now,          \* ORCHESTRATION_CLOCK
    state,        \* of the release
    srts,         \* its SRT assets, the latest last
    ttmls,        \* the SRT assets that have a TTML child
    rights,       \* its RIGHTS assets, the latest last
    videos,       \* its VIDEO assets, the latest last
    findings,     \* codes stored by the last validation
    actions,      \* status of each remediation action
    submissions,  \* status and approvals of each submission action
    sent,         \* what the provider was sent, in order
    proposedFor   \* history: the video for which an action was last proposed

assets == <<srts, ttmls, rights, videos>>
vars == <<now, state, assets, findings, actions, submissions, sent, proposedFor>>

\* The digest of manifestVersion ranges over all assets of the release, and
\* assets are only ever added.
ManifestOf(contents, children, windows, clips) ==
    [srts |-> Len(contents), ttmls |-> children, rights |-> Len(windows), videos |-> Len(clips)]

Manifest == ManifestOf(srts, ttmls, rights, videos)

Manifests ==
    [srts : 0 .. MaxAssets, ttmls : SUBSET (1 .. MaxAssets), rights : 0 .. Cardinality(Windows),
     videos : 0 .. MaxVideos]

RemediationKeys == {"REPAIR_SUBTITLE", "GENERATE_TTML"} \X (1 .. MaxAssets)
Submission == [status : ActionStatuses, approvals : 0 .. 2]

\* A function with one more value, or another one.
With(f, k, v) == [x \in DOMAIN f \cup {k} |-> IF x = k THEN v ELSE f[x]]

TypeOK ==
    /\ now \in 0 .. MaxTime
    /\ state \in ReleaseStates
    /\ Len(srts) <= MaxAssets
    /\ \A i \in DOMAIN srts : srts[i].parent \in 0 .. (i - 1)
    /\ ttmls \subseteq DOMAIN srts
    /\ \A i \in DOMAIN rights : rights[i] \in Windows
    /\ Len(videos) <= MaxVideos /\ \A i \in DOMAIN videos : videos[i] \in Videos
    /\ DOMAIN actions \subseteq RemediationKeys
    /\ \A k \in DOMAIN actions : actions[k] \in {"PROPOSED", "COMPLETED", "FAILED"}
    /\ DOMAIN submissions \subseteq Manifests \X {"R2", "R3"}
    /\ \A k \in DOMAIN submissions : submissions[k] \in Submission

NoFunction == [k \in {} |-> ""]

Init ==
    /\ now = 0
    /\ state = "DRAFT"
    /\ srts \in {<<[content |-> c, parent |-> 0]>> : c \in FirstSubtitles}
    /\ ttmls = {}
    /\ rights \in {<<w>> : w \in FirstWindows}
    /\ videos \in {<<media>> : media \in FirstVideos}
    /\ findings = {}
    /\ actions = NoFunction
    /\ submissions = NoFunction
    /\ sent = << >>
    /\ proposedFor = NoFunction

-----------------------------------------------------------------------------
(* validationNode and planningNode                                         *)

\* Seeded fault: the last instant of the window belongs to it.
EndInclusive(window, at) ==
    IF window.validUntil <= window.validFrom THEN {"RIGHTS_UNKNOWN"}
    ELSE IF at < window.validFrom THEN {"RIGHTS_NOT_STARTED"}
    ELSE IF at > window.validUntil THEN {"RIGHTS_EXPIRED"}
    ELSE IF window.validUntil - at <= WarningWindow THEN {"RIGHTS_EXPIRING_SOON"}
    ELSE {}

\* checkRightsWindow, whose RangeError becomes RIGHTS_UNKNOWN.
RightsFindings(window, at) ==
    IF window.validUntil <= window.validFrom THEN {"RIGHTS_UNKNOWN"}
    ELSE IF at < window.validFrom THEN {"RIGHTS_NOT_STARTED"}
    ELSE IF at >= window.validUntil THEN {"RIGHTS_EXPIRED"}
    ELSE IF window.validUntil - at <= WarningWindow THEN {"RIGHTS_EXPIRING_SOON"}
    ELSE {}

Latest(s) == s[Len(s)]

Findings(contents, children, windows, clips) ==
    SrtCodes(Latest(contents).content, Latest(clips))
    \cup (IF NeedsTtml /\ Len(contents) \notin children THEN {"TTML_REQUIRED"} ELSE {})
    \cup RightsFindings(Latest(windows), now)

Warnings == {"RIGHTS_EXPIRING_SOON"}
Blockers(found) == found \ Warnings

RightsBlockers == {"RIGHTS_UNKNOWN", "RIGHTS_NOT_STARTED", "RIGHTS_EXPIRED"}
SourceBlockers(found) == Blockers(found) \ (RightsBlockers \cup {"TTML_REQUIRED"})

\* Seeded fault: a repair is proposed when any of its blockers is repairable.
ProposesSomeRepair(found) ==
    IF Blockers(found) \cap RightsBlockers # {} THEN {}
    ELSE IF SourceBlockers(found) \cap RepairableCodes # {} THEN {"REPAIR_SUBTITLE"}
    ELSE IF SourceBlockers(found) = {} /\ "TTML_REQUIRED" \in found THEN {"GENERATE_TTML"}
    ELSE {}

\* The type of the proposed action, if there is one: a blocker that no
\* remediation handles forbids both.
Proposed(found) ==
    IF Blockers(found) \cap RightsBlockers # {} THEN {}
    ELSE IF SourceBlockers(found) # {}
        THEN IF SourceBlockers(found) \subseteq RepairableCodes THEN {"REPAIR_SUBTITLE"} ELSE {}
    ELSE IF "TTML_REQUIRED" \in found THEN {"GENERATE_TTML"}
    ELSE {}

-----------------------------------------------------------------------------
(* runRelease and validateRelease                                          *)

Risk(found) == IF "RIGHTS_EXPIRING_SOON" \in found THEN "R3" ELSE "R2"

\* ensureAction, ensureSubmission: an existing row stays as it is.
Ensured(f, k, v) == IF k \in DOMAIN f THEN f ELSE With(f, k, v)

\* finishEvaluationRun ensures an action and waits for it.  One that failed or
\* was rejected before throws, in a promise that nobody awaits: the claimed
\* release stays VALIDATING.
AwaitRemediation(done, key) ==
    /\ actions' = Ensured(done, key, "PROPOSED")
    /\ proposedFor' = With(proposedFor, key, Latest(videos'))
    /\ state' = IF actions'[key] = "FAILED" THEN "VALIDATING" ELSE "REMEDIATING"
    /\ UNCHANGED submissions

AwaitApproval(done, key) ==
    /\ submissions' = Ensured(submissions, key, [status |-> "PENDING_APPROVAL", approvals |-> 0])
    /\ state' = IF submissions'[key].status = "REJECTED" THEN "VALIDATING"
                ELSE "READY_FOR_APPROVAL"
    /\ actions' = done
    /\ UNCHANGED proposedFor

\* A run on the assets as they are after this request, whose own part in the
\* actions is done.
Evaluate(done) ==
    /\ findings' = Findings(srts', ttmls', rights', videos')
    /\ \/ \E type \in Proposed(findings') : AwaitRemediation(done, <<type, Len(srts')>>)
       \/ /\ Proposed(findings') = {} /\ Blockers(findings') # {}
          /\ state' = "BLOCKED"
          /\ actions' = done
          /\ UNCHANGED <<submissions, proposedFor>>
       \/ /\ Blockers(findings') = {}
          /\ AwaitApproval(done, <<Manifest', Risk(findings')>>)

Run ==
    /\ state \in RunnableStates
    /\ UNCHANGED <<now, assets, sent>>
    /\ Evaluate(actions)

Validate ==
    /\ state \in RunnableStates
    /\ findings' = Findings(srts, ttmls, rights, videos)
    /\ state' = IF Blockers(findings') = {} THEN "READY_FOR_APPROVAL" ELSE "BLOCKED"
    /\ UNCHANGED <<now, assets, actions, submissions, sent, proposedFor>>

-----------------------------------------------------------------------------
(* Assets and remediation                                                  *)

\* An equivalent asset that is there already is returned instead.
UploadSubtitle(content) ==
    LET asset == [content |-> content, parent |-> 0]
    IN  /\ state \in AssetMutableStates
        /\ Len(srts) < MaxAssets
        /\ \A i \in DOMAIN srts : srts[i] # asset
        /\ srts' = Append(srts, asset)
        /\ UNCHANGED <<now, state, ttmls, rights, videos, findings, actions, submissions, sent,
                       proposedFor>>

UploadRights(window) ==
    /\ state \in AssetMutableStates
    /\ \A i \in DOMAIN rights : rights[i] # window
    /\ rights' = Append(rights, window)
    /\ UNCHANGED <<now, state, srts, ttmls, videos, findings, actions, submissions, sent,
                   proposedFor>>

\* A video that is new, though it may be as long as another one.
UploadVideo(media) ==
    /\ state \in AssetMutableStates
    /\ Len(videos) < MaxVideos
    /\ videos' = Append(videos, media)
    /\ UNCHANGED <<now, state, srts, ttmls, rights, findings, actions, submissions, sent,
                   proposedFor>>

\* executeAction of the orchestration service does not throw, and the asset it
\* derives may be registered.  The video is the latest one by now.
Derivable(type, source) ==
    LET content == srts[source].content
        media == Latest(videos)
    IN  /\ source = Len(srts)
        /\ IF type = "GENERATE_TTML" THEN Valid(content, media)
           ELSE RepairedSrt(content, media) # content /\ Valid(RepairedSrt(content, media), media)
        /\ state \in AssetMutableStates

\* A derived asset, and the run that follows.
ExecuteAction(type, source) ==
    /\ actions[<<type, source>>] = "PROPOSED"
    /\ Derivable(type, source)
    /\ type = "REPAIR_SUBTITLE" => Len(srts) < MaxAssets
    /\ srts' = IF type = "GENERATE_TTML" THEN srts
               ELSE Append(srts, [content |-> RepairedSrt(srts[source].content, Latest(videos)),
                                parent |-> source])
    /\ ttmls' = IF type = "GENERATE_TTML" THEN ttmls \cup {source} ELSE ttmls
    /\ UNCHANGED <<now, rights, videos, sent>>
    /\ Evaluate(With(actions, <<type, source>>, "COMPLETED"))

\* Whatever the release has become meanwhile, it is BLOCKED.
ExecuteFails(type, source) ==
    /\ actions[<<type, source>>] = "PROPOSED"
    /\ ~ Derivable(type, source)
    /\ actions' = With(actions, <<type, source>>, "FAILED")
    /\ state' = "BLOCKED"
    /\ UNCHANGED <<now, assets, findings, submissions, sent, proposedFor>>

-----------------------------------------------------------------------------
(* decideAction and submitDelivery                                         *)

\* Seeded fault: one vote more than required.
OneVoteMore(key) == IF key[2] = "R3" THEN 3 ELSE 2

RequiredApprovals(key) == IF key[2] = "R3" THEN 2 ELSE 1

Approve(key) ==
    LET approvals == submissions[key].approvals + 1
        enough == approvals >= RequiredApprovals(key)
    IN  /\ submissions[key].status = "PENDING_APPROVAL"
        /\ submissions' = With(submissions, key,
               [status |-> IF enough THEN "APPROVED" ELSE "PENDING_APPROVAL",
                approvals |-> approvals])
        /\ state' = IF enough THEN "APPROVED" ELSE state
        /\ UNCHANGED <<now, assets, findings, actions, sent, proposedFor>>

Settled(key, status) == [submissions EXCEPT ![key].status = status]

Reject(key) ==
    /\ submissions[key].status = "PENDING_APPROVAL"
    /\ submissions' = Settled(key, "REJECTED")
    /\ state' = "BLOCKED"
    /\ UNCHANGED <<now, assets, findings, actions, sent, proposedFor>>

\* Seeded fault: the preflight does not compare the risk.
RiskIgnored(key, found) == FALSE

\* The window has become one that needs a second approval.
RiskEscalated(key, found) == key[2] = "R2" /\ "RIGHTS_EXPIRING_SOON" \in found

\* The preflight rejects the submission and blocks the release.
PreflightBlocks(key, found) == key[1] # Manifest \/ Blockers(found) # {}

\* submitDelivery of an approved submission: the preflight validates anew, and
\* the provider may fail, which leaves the delivery to be submitted again.
Submit(key) ==
    /\ submissions[key].status = "APPROVED"
    /\ findings' = Findings(srts, ttmls, rights, videos)
    /\ \/ /\ PreflightBlocks(key, findings')
          /\ submissions' = Settled(key, "REJECTED")
          /\ state' = "BLOCKED"
          /\ UNCHANGED sent
       \/ /\ ~ PreflightBlocks(key, findings')
          /\ RiskEscalated(key, findings')
          /\ submissions' = Settled(key, "REJECTED")
          /\ state' = "READY_FOR_APPROVAL"
          /\ UNCHANGED sent
       \/ /\ ~ PreflightBlocks(key, findings')
          /\ ~ RiskEscalated(key, findings')
          /\ \/ /\ submissions' = Settled(key, "COMPLETED")
                /\ state' = "SUBMITTED"
                /\ sent' = Append(sent, [key |-> key, at |-> now])
             \/ /\ state' = "APPROVED"
                /\ UNCHANGED <<submissions, sent>>
    /\ UNCHANGED <<now, assets, actions, proposedFor>>

\* reconcileSubmittedDelivery: the delivery was submitted before.
Reconcile(key) ==
    /\ submissions[key].status = "COMPLETED"
    /\ state \notin {"SUBMITTED", "QC_PASSED"}
    /\ state' = "SUBMITTED"
    /\ UNCHANGED <<now, assets, findings, actions, submissions, sent, proposedFor>>

-----------------------------------------------------------------------------
\* Time passes between requests.
Tick ==
    /\ now < MaxTime
    /\ now' = now + 1
    /\ UNCHANGED <<state, assets, findings, actions, submissions, sent, proposedFor>>

Next ==
    \/ Tick \/ Run \/ Validate
    \/ \E content \in NewSubtitles : UploadSubtitle(content)
    \/ \E window \in NewWindows : UploadRights(window)
    \/ \E media \in NewVideos : UploadVideo(media)
    \/ \E k \in DOMAIN actions : ExecuteAction(k[1], k[2]) \/ ExecuteFails(k[1], k[2])
    \/ \E key \in DOMAIN submissions :
          Approve(key) \/ Reject(key) \/ Submit(key) \/ Reconcile(key)

Spec == Init /\ [][Next]_vars

-----------------------------------------------------------------------------
(* Properties                                                              *)

\* What a release was sent with was fit when it was sent: a subtitle valid for
\* the video it was sent with, with the package the rule set asks for, inside
\* the rights window, and approved by two people when its end was near.
SentIsFit ==
    \A i \in DOMAIN sent :
        LET manifest == sent[i].key[1]
            window == rights[manifest.rights]
        IN  /\ Valid(srts[manifest.srts].content, videos[manifest.videos])
            /\ NeedsTtml => manifest.srts \in manifest.ttmls
            /\ window.validFrom <= sent[i].at /\ sent[i].at < window.validUntil
            /\ window.validUntil - sent[i].at <= WarningWindow =>
                   submissions[sent[i].key].approvals = 2

\* repairSrt on the latest subtitle never creates a defect it does not handle
\* (an overlap, an empty cue, a cue after the end of the media, a cue that
\* ends before it starts), never delays a cue, and shortens one only when it
\* is too long.
RepairIsSafe ==
    LET before == Latest(srts).content
        media == Latest(videos)
        after == RepairedSrt(before, media)
    IN  Repairable(before, media) =>
            /\ SrtCodes(after, media) \subseteq RepairableCodes
            /\ \A i \in DOMAIN before :
                  /\ after[i].startMs <= before[i].startMs
                  /\ Duration(before[i]) <= MaxDuration => after[i].endMs >= before[i].endMs

\* Every cue can be read within the longest duration and has the room for it
\* before the next cue starts; none is too long, and indexes are unique.
Roomy(cues, media) ==
    \A i \in DOMAIN cues :
        /\ Duration(cues[i]) <= MaxDuration
        /\ RequiredDuration(cues, i) <= MaxDuration
        /\ \A end \in Ends(cues, i, media) : cues[i].startMs + RequiredDuration(cues, i) <= end
        /\ \A j \in DOMAIN cues : cues[i].index = cues[j].index => i = j

\* What planningNode proposes, executeAction can do: a proposal fails only
\* when a newer subtitle arrived, when the video is not as long as the one it
\* was last proposed for, when the release has moved on to a state in which
\* assets are frozen, or when a repair has no room.
ProposalsExecute ==
    [][\A k \in DOMAIN actions :
          actions[k] = "PROPOSED" /\ actions'[k] = "FAILED" =>
              \/ k[2] # Len(srts)
              \/ Latest(videos) # proposedFor[k]
              \/ state \notin AssetMutableStates
              \/ k[1] = "REPAIR_SUBTITLE" /\ ~ Roomy(srts[k[2]].content, Latest(videos))]_vars

\* Once a manifest asked for two approvals, it is not sent with one.
OneApprovalNoMore ==
    [][\A i \in DOMAIN sent' \ DOMAIN sent :
          sent'[i].key[2] = "R2" => <<Manifest, "R3">> \notin DOMAIN submissions]_vars
=============================================================================
