------------------------- MODULE ReleaseCycleProofs -------------------------
(***************************************************************************)
(* Proofs about ReleaseCycle, for any subtitles, videos, finite set of     *)
(* rights windows, warning window and clock.                               *)
(*                                                                         *)
(* The argument is one inductive invariant, IInv.  Assets are only added,  *)
(* so what a manifest names stays what it was (Grows).  A submission that  *)
(* asks for two approvals was made when the end of its window was near,    *)
(* and the clock does not run back (KeyOK); one that may be sent has all   *)
(* the approvals it asks for (RowOK); and what was sent was fit for its    *)
(* manifest at that time (SentOK), because the preflight looked.           *)
(* What repairSrt writes does not matter for that: the preflight validates *)
(* it.  What it writes is the second half.  The cues are repaired one      *)
(* after the other, which is an induction over the subtitle: RetimedCues   *)
(* is a recursive function, so LeastNumber gives a first cue at which a    *)
(* claim fails, and there is none (ChainExists, ChainParts).  Moved says   *)
(* what becomes of one cue, RepairedParts of all, RoomyRepairs when no     *)
(* defect is left.  An open proposal was made for such a subtitle and      *)
(* subtitles and videos do not change, the second invariant, PlannedInv.   *)
(***************************************************************************)
EXTENDS ReleaseCycle, FiniteSetTheorems, SequenceTheorems, WellFoundedInduction, TLAPS

\* A sequence, of whatever elements.
IsSeq(s) == s \in Seq({s[i] : i \in DOMAIN s})

-----------------------------------------------------------------------------
(* The inductive invariant                                                 *)

AssetsOK(contents, children, windows, clips) ==
    /\ IsSeq(contents) /\ Len(contents) \in 1 .. MaxAssets
    /\ \A i \in DOMAIN contents : contents[i].parent \in 0 .. (i - 1)
    /\ children \subseteq DOMAIN contents
    /\ IsSeq(windows) /\ Len(windows) >= 1
    /\ \A i \in DOMAIN windows : windows[i] \in Windows
    /\ \A i, j \in DOMAIN windows : windows[i] = windows[j] => i = j
    /\ IsSeq(clips) /\ Len(clips) \in 1 .. MaxVideos
    /\ \A i \in DOMAIN clips : clips[i] \in Videos

AssetInv == AssetsOK(srts, ttmls, rights, videos)

ActionsOK(f) ==
    /\ DOMAIN f \subseteq RemediationKeys
    /\ \A k \in DOMAIN f : f[k] \in {"PROPOSED", "COMPLETED", "FAILED"}

ActionInv == ActionsOK(actions)

\* A submission names assets of the release, and asks for two approvals only
\* when the end of the window it names is near.
KeyOK(key) ==
    /\ key \in Manifests \X {"R2", "R3"}
    /\ key[1].srts \in DOMAIN srts
    /\ key[1].rights \in DOMAIN rights
    /\ key[1].videos \in DOMAIN videos
    /\ key[2] = "R3" => rights[key[1].rights].validUntil - now <= WarningWindow

RowOK(key, row) ==
    /\ row \in Submission
    /\ row.status = "PENDING_APPROVAL" => row.approvals < RequiredApprovals(key)
    /\ row.status \in {"APPROVED", "COMPLETED"} => row.approvals = RequiredApprovals(key)

SubmissionInv ==
    \A key \in DOMAIN submissions : KeyOK(key) /\ RowOK(key, submissions[key])

\* Sending what key names was right at that time.
FitAt(key, at) ==
    LET manifest == key[1]
        window == rights[manifest.rights]
    IN  /\ Valid(srts[manifest.srts].content, videos[manifest.videos])
        /\ NeedsTtml => manifest.srts \in manifest.ttmls
        /\ window.validFrom <= at /\ at < window.validUntil
        /\ window.validUntil - at <= WarningWindow => key[2] = "R3"

SentOK(s) ==
    /\ s.key \in DOMAIN submissions
    /\ submissions[s.key].status = "COMPLETED"
    /\ FitAt(s.key, s.at)

SentInv == IsSeq(sent) /\ \A i \in DOMAIN sent : SentOK(sent[i])

IInv ==
    /\ now \in 0 .. MaxTime
    /\ state \in ReleaseStates
    /\ AssetInv
    /\ ActionInv
    /\ SubmissionInv
    /\ SentInv

-----------------------------------------------------------------------------
(* Sequences and functions                                                 *)

LEMMA SeqParts ==
    ASSUME NEW s, IsSeq(s)
    PROVE  Len(s) \in Nat /\ DOMAIN s = 1 .. Len(s)
BY DEF IsSeq

LEMMA AppendParts ==
    ASSUME NEW s, NEW x, IsSeq(s)
    PROVE  LET t == Append(s, x) IN
           /\ IsSeq(t)
           /\ Len(t) = Len(s) + 1
           /\ DOMAIN t = DOMAIN s \cup {Len(s) + 1}
           /\ \A i \in DOMAIN s : t[i] = s[i]
           /\ t[Len(s) + 1] = x
<1> DEFINE S == {s[i] : i \in DOMAIN s} \cup {x}
           t == Append(s, x)
<1>1. s \in Seq(S)
  BY DEF IsSeq
<1>2. /\ t \in Seq(S) /\ Len(t) = Len(s) + 1
      /\ DOMAIN s = 1 .. Len(s) /\ DOMAIN t = 1 .. (Len(s) + 1)
      /\ \A i \in 1 .. Len(s) : t[i] = s[i]
      /\ t[Len(s) + 1] = x
  <2>1. x \in S
    OBVIOUS
  <2> HIDE DEF S
  <2>2. QED
    BY <1>1, <2>1, AppendProperties
<1>3. Len(s) \in Nat /\ 1 .. (Len(s) + 1) = (1 .. Len(s)) \cup {Len(s) + 1}
  BY <1>1
<1>4. t \in Seq({t[i] : i \in DOMAIN t})
  <2> HIDE DEF t, S
  <2>1. t \in [1 .. (Len(s) + 1) -> {t[i] : i \in DOMAIN t}]
    BY <1>2
  <2>2. QED
    BY <1>3, <2>1
<1>5. QED
  BY <1>2, <1>3, <1>4 DEF IsSeq

LEMMA SingletonParts ==
    ASSUME NEW x
    PROVE  IsSeq(<<x>>) /\ Len(<<x>>) = 1 /\ DOMAIN <<x>> = {1} /\ <<x>>[1] = x
BY DEF IsSeq

\* A manifest names the latest assets, and distinct windows are no more than
\* there are.
LEMMA ManifestParts ==
    ASSUME NEW contents, NEW children, NEW windows, NEW clips, AssetsOK(contents, children, windows, clips)
    PROVE  LET m == ManifestOf(contents, children, windows, clips) IN
           /\ m \in Manifests
           /\ m.srts = Len(contents) /\ m.srts \in DOMAIN contents
           /\ m.ttmls = children
           /\ m.rights = Len(windows) /\ m.rights \in DOMAIN windows
           /\ m.videos = Len(clips) /\ m.videos \in DOMAIN clips
           /\ windows[Len(windows)].validFrom \in Int /\ windows[Len(windows)].validUntil \in Int
<1>1. /\ Len(windows) \in Nat /\ DOMAIN windows = 1 .. Len(windows) /\ Len(windows) >= 1
      /\ Len(contents) \in 1 .. MaxAssets /\ DOMAIN contents = 1 .. Len(contents)
      /\ children \subseteq 1 .. Len(contents)
      /\ Len(clips) \in 1 .. MaxVideos /\ DOMAIN clips = 1 .. Len(clips)
  BY SeqParts DEF AssetsOK
<1>2. IsFiniteSet(Windows) /\ Cardinality(Windows) \in Nat /\ MaxAssets \in Nat
      /\ MaxVideos \in Nat
  BY BoundsAssumption, FS_CardinalityType DEF BoundsAssumption
<1>3. IsFiniteSet(1 .. Len(windows)) /\ Cardinality(1 .. Len(windows)) = Len(windows)
  <2>1. Len(windows) \in Int /\ Len(windows) >= 1 /\ 1 \in Int
    BY <1>1
  <2>2. /\ IsFiniteSet(1 .. Len(windows))
        /\ Cardinality(1 .. Len(windows)) =
             IF 1 > Len(windows) THEN 0 ELSE Len(windows) - 1 + 1
    BY <2>1, FS_Interval
  <2>3. QED
    BY <2>1, <2>2
<1> DEFINE f == [i \in 1 .. Len(windows) |-> windows[i]]
<1>4. f \in [1 .. Len(windows) -> Windows]
  BY <1>1 DEF AssetsOK
<1>5. \A i, j \in 1 .. Len(windows) : f[i] = f[j] => i = j
  BY <1>1 DEF AssetsOK
<1> HIDE DEF f
<1>6. ~ Cardinality(Windows) < Len(windows)
  BY <1>2, <1>3, <1>4, <1>5, FS_PigeonHole
<1>7. Len(windows) \in 0 .. Cardinality(Windows)
  BY <1>1, <1>2, <1>6
<1>8. Len(contents) \in 0 .. MaxAssets /\ Len(clips) \in 0 .. MaxVideos
      /\ children \in SUBSET (1 .. MaxAssets)
  BY <1>1, <1>2
<1>9. ManifestOf(contents, children, windows, clips) \in Manifests
  BY <1>7, <1>8 DEF ManifestOf, Manifests
<1>10. windows[Len(windows)] \in Windows
  BY <1>1 DEF AssetsOK
<1>11. QED
  BY <1>1, <1>9, <1>10, BoundsAssumption DEF ManifestOf, BoundsAssumption

-----------------------------------------------------------------------------
(* What an evaluation finds                                                *)

LEMMA SrtCodesAre ==
    ASSUME NEW cues, NEW media
    PROVE  "RIGHTS_EXPIRING_SOON" \notin SrtCodes(cues, media)
BY DEF SrtCodes, CueCodes

\* A near end is found, and what is found without a blocker is fit.
LEMMA FindingsParts ==
    ASSUME NEW contents, NEW children, NEW windows, NEW clips,
           now \in Int, Latest(windows).validFrom \in Int, Latest(windows).validUntil \in Int
    PROVE  LET found == Findings(contents, children, windows, clips)
               window == Latest(windows)
           IN  /\ "RIGHTS_EXPIRING_SOON" \in found => window.validUntil - now <= WarningWindow
               /\ Blockers(found) = {} =>
                    /\ Valid(Latest(contents).content, Latest(clips))
                    /\ NeedsTtml => Len(contents) \in children
                    /\ window.validFrom <= now /\ now < window.validUntil
                    /\ window.validUntil - now <= WarningWindow =>
                         "RIGHTS_EXPIRING_SOON" \in found
<1> DEFINE found == Findings(contents, children, windows, clips)
           window == Latest(windows)
           codes == SrtCodes(Latest(contents).content, Latest(clips))
           timed == RightsFindings(window, now)
           child == IF NeedsTtml /\ Len(contents) \notin children THEN {"TTML_REQUIRED"} ELSE {}
<1>1. found = codes \cup child \cup timed
  BY DEF Findings
<1>2. "RIGHTS_EXPIRING_SOON" \notin codes /\ "RIGHTS_EXPIRING_SOON" \notin child
  BY SrtCodesAre
<1>3. "RIGHTS_EXPIRING_SOON" \in timed => window.validUntil - now <= WarningWindow
  BY DEF RightsFindings
<1>4. ASSUME Blockers(found) = {} PROVE codes = {} /\ child = {} /\ timed \subseteq Warnings
  <2> HIDE DEF codes, timed, found
  <2>1. found \subseteq {"RIGHTS_EXPIRING_SOON"}
    BY <1>4 DEF Blockers, Warnings
  <2>2. QED
    BY <1>1, <1>2, <2>1 DEF Warnings
<1>5. ASSUME timed \subseteq Warnings
      PROVE  /\ window.validFrom <= now /\ now < window.validUntil
             /\ window.validUntil - now <= WarningWindow => "RIGHTS_EXPIRING_SOON" \in timed
  <2> HIDE DEF window
  <2>1. window.validFrom \in Int /\ window.validUntil \in Int
    BY DEF window
  <2>2. ~ window.validUntil <= window.validFrom
    BY <1>5 DEF RightsFindings, Warnings
  <2>3. ~ now < window.validFrom
    BY <1>5, <2>2 DEF RightsFindings, Warnings
  <2>4. ~ now >= window.validUntil
    BY <1>5, <2>2, <2>3 DEF RightsFindings, Warnings
  <2>5. window.validUntil - now <= WarningWindow => timed = {"RIGHTS_EXPIRING_SOON"}
    BY <2>2, <2>3, <2>4 DEF RightsFindings
  <2>6. QED
    BY <2>1, <2>3, <2>4, <2>5
<1>6. QED
  BY <1>1, <1>2, <1>3, <1>4, <1>5 DEF Valid

-----------------------------------------------------------------------------
(* What lasts                                                              *)

\* Assets are only added, and the clock does not run back.
Grows ==
    /\ now <= now'
    /\ \A i \in DOMAIN srts : i \in DOMAIN srts' /\ srts'[i] = srts[i]
    /\ \A i \in DOMAIN rights : i \in DOMAIN rights' /\ rights'[i] = rights[i]
    /\ \A i \in DOMAIN videos : i \in DOMAIN videos' /\ videos'[i] = videos[i]

\* Submissions stay, and one that was sent is settled.
RowsStay ==
    \A key \in DOMAIN submissions :
        /\ key \in DOMAIN submissions'
        /\ submissions[key].status = "COMPLETED" => submissions'[key] = submissions[key]

LEMMA KeyStays ==
    ASSUME IInv, Grows, now' \in Int, NEW key, KeyOK(key)
    PROVE  KeyOK(key)'
<1>1. rights[key[1].rights].validUntil \in Int /\ WarningWindow \in Int /\ now \in Int
  BY BoundsAssumption DEF BoundsAssumption, IInv, AssetInv, AssetsOK, KeyOK
<1>2. /\ key[1].srts \in DOMAIN srts' /\ key[1].rights \in DOMAIN rights'
      /\ key[1].videos \in DOMAIN videos'
      /\ rights'[key[1].rights] = rights[key[1].rights]
  BY DEF Grows, KeyOK
<1>3. key[2] = "R3" => rights'[key[1].rights].validUntil - now' <= WarningWindow
  BY <1>1, <1>2 DEF Grows, KeyOK
<1>4. QED
  BY <1>2, <1>3 DEF KeyOK

LEMMA SentStays ==
    ASSUME IInv, Grows, RowsStay, NEW s, SentOK(s)
    PROVE  SentOK(s)'
<1>1. KeyOK(s.key) /\ s.key \in DOMAIN submissions'
      /\ submissions'[s.key].status = "COMPLETED"
  BY DEF IInv, SubmissionInv, SentOK, RowsStay
<1>2. /\ srts'[s.key[1].srts] = srts[s.key[1].srts]
      /\ rights'[s.key[1].rights] = rights[s.key[1].rights]
      /\ videos'[s.key[1].videos] = videos[s.key[1].videos]
  BY <1>1 DEF Grows, KeyOK
<1>3. FitAt(s.key, s.at)'
  BY <1>2 DEF SentOK, FitAt
<1>4. QED
  BY <1>1, <1>3 DEF SentOK

\* A step that neither decides nor submits.
LEMMA RowsKeep ==
    ASSUME IInv, Grows, now' \in Int, UNCHANGED <<submissions, sent>>
    PROVE  SubmissionInv' /\ SentInv'
<1>1. SubmissionInv'
  BY KeyStays DEF IInv, SubmissionInv, RowOK
<1>2. RowsStay
  BY DEF RowsStay
<1>3. SentInv'
  BY <1>2, SentStays DEF IInv, SentInv
<1>4. QED
  BY <1>1, <1>3

LEMMA ClockParts ==
    ASSUME IInv
    PROVE  now \in Int /\ MaxTime \in Nat /\ WarningWindow \in Nat /\ MaxAssets \in Nat \ {0}
           /\ MaxVideos \in Nat \ {0}
BY BoundsAssumption DEF BoundsAssumption, IInv

-----------------------------------------------------------------------------
(* runRelease                                                              *)

LEMMA EnsuredActions ==
    ASSUME NEW f, ActionsOK(f), NEW k \in RemediationKeys,
           NEW v \in {"PROPOSED", "COMPLETED", "FAILED"}
    PROVE  ActionsOK(Ensured(f, k, v)) /\ ActionsOK(With(f, k, v))
<1>1. ActionsOK(With(f, k, v))
  BY DEF ActionsOK, With
<1>2. QED
  BY <1>1 DEF Ensured

LEMMA ProposedParts ==
    ASSUME NEW found
    PROVE  Proposed(found) \subseteq {"REPAIR_SUBTITLE", "GENERATE_TTML"}
BY DEF Proposed

\* A run adds an action or a submission for the assets as they have become.
LEMMA EvaluateKeeps ==
    ASSUME IInv, Grows, UNCHANGED <<now, sent>>, AssetInv',
           NEW done, ActionsOK(done), Evaluate(done)
    PROVE  ActionInv' /\ SubmissionInv' /\ SentInv' /\ state' \in ReleaseStates
<1> DEFINE found == Findings(srts', ttmls', rights', videos')
           m == ManifestOf(srts', ttmls', rights', videos')
           row == [status |-> "PENDING_APPROVAL", approvals |-> 0]
<1>0. now \in Int /\ now' = now
  BY ClockParts
<1>1. AssetsOK(srts', ttmls', rights', videos')
  BY DEF AssetInv
<1>2. ASSUME NEW type \in Proposed(found), AwaitRemediation(done, <<type, Len(srts')>>)
      PROVE  ActionInv' /\ SubmissionInv' /\ SentInv' /\ state' \in ReleaseStates
  <2>1. <<type, Len(srts')>> \in RemediationKeys
    BY <1>1, ProposedParts DEF AssetsOK, RemediationKeys
  <2>2. ActionInv'
    BY <1>2, <2>1, EnsuredActions DEF AwaitRemediation, ActionInv
  <2>3. state' \in ReleaseStates
    BY <1>2 DEF AwaitRemediation, ReleaseStates
  <2>4. QED
    BY <1>0, <1>2, <2>2, <2>3, RowsKeep DEF AwaitRemediation
<1>3. ASSUME state' = "BLOCKED", actions' = done, UNCHANGED submissions
      PROVE  ActionInv' /\ SubmissionInv' /\ SentInv' /\ state' \in ReleaseStates
  BY <1>0, <1>3, RowsKeep DEF ActionInv, ReleaseStates
<1>4. ASSUME AwaitApproval(done, <<m, Risk(found)>>)
      PROVE  ActionInv' /\ SubmissionInv' /\ SentInv' /\ state' \in ReleaseStates
  <2>1. /\ m \in Manifests
        /\ m.srts \in DOMAIN srts' /\ m.rights \in DOMAIN rights' /\ m.rights = Len(rights')
        /\ m.videos \in DOMAIN videos'
        /\ rights'[Len(rights')].validFrom \in Int /\ rights'[Len(rights')].validUntil \in Int
    BY <1>1, ManifestParts
  <2>2. "RIGHTS_EXPIRING_SOON" \in found => rights'[m.rights].validUntil - now' <= WarningWindow
    BY <1>0, <2>1, FindingsParts DEF Latest
  <2> HIDE DEF m, found
  <2>3. PICK key : key = <<m, Risk(found)>>
    OBVIOUS
  <2>4. /\ key[1] = m /\ key \in {m} \X {"R2", "R3"}
        /\ key[2] = "R3" => "RIGHTS_EXPIRING_SOON" \in found
    BY <2>3 DEF Risk
  <2>5. KeyOK(key)'
    BY <2>1, <2>2, <2>4 DEF KeyOK
  <2>6. /\ submissions' = Ensured(submissions, key, row) /\ actions' = done
        /\ state' \in ReleaseStates
    BY <1>4, <2>3 DEF AwaitApproval, ReleaseStates
  <2>7. /\ DOMAIN submissions' = DOMAIN submissions \cup {key}
        /\ key \notin DOMAIN submissions => submissions'[key] = row
        /\ \A k \in DOMAIN submissions : submissions'[k] = submissions[k]
    BY <2>6 DEF Ensured, With
  <2>8. RowOK(key, row)
    BY DEF RowOK, Submission, ActionStatuses, RequiredApprovals
  <2> HIDE DEF row
  <2>9. SubmissionInv'
    <3>1. ASSUME NEW k \in DOMAIN submissions' PROVE KeyOK(k)' /\ RowOK(k, submissions'[k])
      <4>1. CASE k \in DOMAIN submissions
        BY <1>0, <2>7, <4>1, KeyStays DEF IInv, SubmissionInv
      <4>2. CASE k = key /\ key \notin DOMAIN submissions
        BY <2>5, <2>7, <2>8, <4>2
      <4>3. QED
        BY <2>7, <4>1, <4>2
    <3>2. QED
      BY <3>1 DEF SubmissionInv, RowOK
  <2>10. RowsStay
    BY <2>7 DEF RowsStay
  <2>11. SentInv'
    BY <2>10, SentStays DEF IInv, SentInv
  <2>12. QED
    BY <2>6, <2>9, <2>11 DEF ActionInv
<1>5. Manifest' = m
  BY DEF Manifest, ManifestOf
<1> HIDE DEF m, found
<1>6. QED
  BY <1>2, <1>3, <1>4, <1>5 DEF Evaluate, found

LEMMA RunStep ==
    ASSUME IInv, Run
    PROVE  IInv'
<1>1. Grows /\ UNCHANGED <<now, sent>> /\ AssetInv' /\ ActionsOK(actions)
  BY ClockParts DEF Run, Grows, assets, IInv, AssetInv, ActionInv
<1>2. PICK done : done = actions
  OBVIOUS
<1>3. ActionInv' /\ SubmissionInv' /\ SentInv' /\ state' \in ReleaseStates
  BY <1>1, <1>2, EvaluateKeeps DEF Run
<1>4. QED
  BY <1>1, <1>3 DEF IInv

-----------------------------------------------------------------------------
(* Assets, remediation and time                                            *)

\* Of a step that neither decides nor submits nor touches an asset.
LEMMA RestKeeps ==
    ASSUME IInv, UNCHANGED <<assets, submissions, sent>>, now' \in now .. MaxTime,
           ActionInv', state' \in ReleaseStates
    PROVE  IInv'
<1>1. Grows /\ AssetInv' /\ now' \in Int /\ now' \in 0 .. MaxTime
  BY ClockParts DEF Grows, assets, IInv, AssetInv
<1>2. QED
  BY <1>1, RowsKeep DEF IInv

LEMMA QuietStep ==
    ASSUME IInv, Tick \/ Validate \/ UNCHANGED vars
    PROVE  IInv'
<1>1. UNCHANGED <<assets, submissions, sent, actions>>
  BY DEF Tick, Validate, vars
<1>2. now' \in now .. MaxTime
  BY ClockParts DEF IInv, Tick, Validate, vars
<1>3. state' \in ReleaseStates
  BY DEF IInv, Tick, Validate, vars, ReleaseStates
<1>4. ActionInv'
  BY <1>1 DEF IInv, ActionInv, ActionsOK
<1>5. QED
  BY <1>1, <1>2, <1>3, <1>4, RestKeeps

LEMMA ExecuteFailsStep ==
    ASSUME IInv, NEW k \in DOMAIN actions, ExecuteFails(k[1], k[2])
    PROVE  IInv'
<1>1. k \in RemediationKeys /\ k = <<k[1], k[2]>>
  BY DEF IInv, ActionInv, ActionsOK, RemediationKeys
<1>2. ActionInv'
  BY <1>1, EnsuredActions DEF ExecuteFails, IInv, ActionInv
<1>3. QED
  BY <1>2, RestKeeps, ClockParts DEF IInv, ExecuteFails, ReleaseStates

LEMMA UploadSubtitleStep ==
    ASSUME IInv, NEW content, UploadSubtitle(content)
    PROVE  IInv'
<1> DEFINE asset == [content |-> content, parent |-> 0]
<1>1. srts' = Append(srts, asset) /\ Len(srts) < MaxAssets /\ asset.parent = 0
      /\ UNCHANGED <<now, state, ttmls, rights, videos, actions, submissions, sent>>
  BY DEF UploadSubtitle
<1>2. IsSeq(srts) /\ Len(srts) \in Nat /\ DOMAIN srts = 1 .. Len(srts)
  BY SeqParts DEF IInv, AssetInv, AssetsOK
<1> HIDE DEF asset
<1>3. /\ IsSeq(srts') /\ Len(srts') = Len(srts) + 1
      /\ DOMAIN srts' = DOMAIN srts \cup {Len(srts) + 1}
      /\ \A i \in DOMAIN srts : srts'[i] = srts[i]
      /\ srts'[Len(srts) + 1] = asset
  BY <1>1, <1>2, AppendParts
<1>4. AssetInv'
  <2>1. \A i \in DOMAIN srts' : srts'[i].parent \in 0 .. (i - 1)
    BY <1>1, <1>2, <1>3 DEF IInv, AssetInv, AssetsOK
  <2>2. Len(srts') \in 1 .. MaxAssets
    BY <1>1, <1>2, <1>3, ClockParts
  <2>3. QED
    BY <1>1, <1>3, <2>1, <2>2 DEF IInv, AssetInv, AssetsOK
<1>5. Grows
  BY <1>1, <1>3, ClockParts DEF Grows
<1>6. SubmissionInv' /\ SentInv'
  BY <1>1, <1>5, ClockParts, RowsKeep
<1>7. QED
  BY <1>1, <1>4, <1>6 DEF IInv, ActionInv, ActionsOK

LEMMA UploadRightsStep ==
    ASSUME IInv, NEW window \in Windows, UploadRights(window)
    PROVE  IInv'
<1>1. /\ rights' = Append(rights, window)
      /\ \A i \in DOMAIN rights : rights[i] # window
      /\ UNCHANGED <<now, state, srts, ttmls, videos, actions, submissions, sent>>
  BY DEF UploadRights
<1>2. IsSeq(rights) /\ Len(rights) \in Nat /\ DOMAIN rights = 1 .. Len(rights)
  BY SeqParts DEF IInv, AssetInv, AssetsOK
<1>3. /\ IsSeq(rights') /\ Len(rights') = Len(rights) + 1
      /\ DOMAIN rights' = DOMAIN rights \cup {Len(rights) + 1}
      /\ \A i \in DOMAIN rights : rights'[i] = rights[i]
      /\ rights'[Len(rights) + 1] = window
  BY <1>1, <1>2, AppendParts
<1>4. AssetInv'
  <2>1. \A i \in DOMAIN rights' : rights'[i] \in Windows
    BY <1>3 DEF IInv, AssetInv, AssetsOK
  <2>2. \A i, j \in DOMAIN rights' : rights'[i] = rights'[j] => i = j
    BY <1>1, <1>3 DEF IInv, AssetInv, AssetsOK
  <2>3. Len(rights') >= 1
    BY <1>2, <1>3
  <2>4. QED
    BY <1>1, <1>3, <2>1, <2>2, <2>3 DEF IInv, AssetInv, AssetsOK
<1>5. Grows
  BY <1>1, <1>3, ClockParts DEF Grows
<1>6. SubmissionInv' /\ SentInv'
  BY <1>1, <1>5, ClockParts, RowsKeep
<1>7. QED
  BY <1>1, <1>4, <1>6 DEF IInv, ActionInv, ActionsOK

LEMMA UploadVideoStep ==
    ASSUME IInv, NEW media \in Videos, UploadVideo(media)
    PROVE  IInv'
<1>1. /\ videos' = Append(videos, media) /\ Len(videos) < MaxVideos
      /\ UNCHANGED <<now, state, srts, ttmls, rights, actions, submissions, sent>>
  BY DEF UploadVideo
<1>2. IsSeq(videos) /\ Len(videos) \in Nat /\ DOMAIN videos = 1 .. Len(videos)
  BY SeqParts DEF IInv, AssetInv, AssetsOK
<1>3. /\ IsSeq(videos') /\ Len(videos') = Len(videos) + 1
      /\ DOMAIN videos' = DOMAIN videos \cup {Len(videos) + 1}
      /\ \A i \in DOMAIN videos : videos'[i] = videos[i]
      /\ videos'[Len(videos) + 1] = media
  BY <1>1, <1>2, AppendParts
<1>4. AssetInv'
  <2>1. \A i \in DOMAIN videos' : videos'[i] \in Videos
    BY <1>3 DEF IInv, AssetInv, AssetsOK
  <2>2. Len(videos') \in 1 .. MaxVideos
    BY <1>1, <1>2, <1>3, ClockParts
  <2>3. QED
    BY <1>1, <1>3, <2>1, <2>2 DEF IInv, AssetInv, AssetsOK
<1>5. Grows
  BY <1>1, <1>3, ClockParts DEF Grows
<1>6. SubmissionInv' /\ SentInv'
  BY <1>1, <1>5, ClockParts, RowsKeep
<1>7. QED
  BY <1>1, <1>4, <1>6 DEF IInv, ActionInv, ActionsOK

LEMMA ExecuteStep ==
    ASSUME IInv, NEW k \in DOMAIN actions, ExecuteAction(k[1], k[2])
    PROVE  IInv'
<1> DEFINE asset == [content |-> RepairedSrt(srts[k[2]].content, Latest(videos)), parent |-> k[2]]
<1>1. k \in RemediationKeys /\ k = <<k[1], k[2]>>
  BY DEF IInv, ActionInv, ActionsOK, RemediationKeys
<1>2. /\ k[2] = Len(srts) /\ UNCHANGED <<now, rights, videos, sent>>
      /\ Evaluate(With(actions, k, "COMPLETED"))
  BY <1>1 DEF ExecuteAction, Derivable
<1>3. IsSeq(srts) /\ Len(srts) \in 1 .. MaxAssets /\ DOMAIN srts = 1 .. Len(srts)
  BY SeqParts DEF IInv, AssetInv, AssetsOK
<1>4. /\ Grows /\ AssetInv'
  <2>1. CASE k[1] = "GENERATE_TTML"
    <3>1. srts' = srts /\ ttmls' = ttmls \cup {Len(srts)}
      BY <1>2, <2>1 DEF ExecuteAction
    <3>2. QED
      BY <1>2, <1>3, <3>1, ClockParts DEF IInv, Grows, AssetInv, AssetsOK
  <2>2. CASE k[1] = "REPAIR_SUBTITLE"
    <3>1. srts' = Append(srts, asset) /\ ttmls' = ttmls /\ Len(srts) < MaxAssets
          /\ asset.parent = Len(srts)
      BY <1>2, <2>2 DEF ExecuteAction
    <3> HIDE DEF asset
    <3>2. /\ IsSeq(srts') /\ Len(srts') = Len(srts) + 1
          /\ DOMAIN srts' = DOMAIN srts \cup {Len(srts) + 1}
          /\ \A i \in DOMAIN srts : srts'[i] = srts[i]
          /\ srts'[Len(srts) + 1] = asset
      BY <1>3, <3>1, AppendParts
    <3>3. \A i \in DOMAIN srts' : srts'[i].parent \in 0 .. (i - 1)
      BY <1>3, <3>1, <3>2 DEF IInv, AssetInv, AssetsOK
    <3>4. Len(srts') \in 1 .. MaxAssets
      BY <1>3, <3>1, <3>2, ClockParts
    <3>5. AssetInv'
      BY <1>2, <3>1, <3>2, <3>3, <3>4 DEF IInv, AssetInv, AssetsOK
    <3>6. Grows
      BY <1>2, <3>2, ClockParts DEF Grows
    <3>7. QED
      BY <3>5, <3>6
  <2>3. QED
    BY <1>1, <2>1, <2>2 DEF RemediationKeys
<1>5. PICK done : done = With(actions, k, "COMPLETED")
  OBVIOUS
<1>6. ActionsOK(done)
  BY <1>1, <1>5, EnsuredActions DEF IInv, ActionInv
<1>7. ActionInv' /\ SubmissionInv' /\ SentInv' /\ state' \in ReleaseStates
  BY <1>2, <1>4, <1>5, <1>6, EvaluateKeeps
<1>8. QED
  BY <1>2, <1>4, <1>7 DEF IInv

-----------------------------------------------------------------------------
(* decideAction and submitDelivery                                         *)

\* One submission, not settled as sent, gets another row.
LEMMA RowChanges ==
    ASSUME IInv, UNCHANGED <<now, srts, rights, videos>>,
           NEW key \in DOMAIN submissions, submissions[key].status # "COMPLETED",
           NEW row, RowOK(key, row),
           DOMAIN submissions' = DOMAIN submissions, submissions'[key] = row,
           \A k \in DOMAIN submissions \ {key} : submissions'[k] = submissions[k]
    PROVE  SubmissionInv' /\ \A s : SentOK(s) => SentOK(s)'
<1>1. Grows /\ now' \in Int
  BY ClockParts DEF Grows
<1>2. RowsStay
  BY DEF RowsStay
<1>3. ASSUME NEW k \in DOMAIN submissions' PROVE KeyOK(k)' /\ RowOK(k, submissions'[k])
  <2>1. KeyOK(k)'
    BY <1>1, KeyStays DEF IInv, SubmissionInv
  <2>2. RowOK(k, submissions'[k])
    BY DEF IInv, SubmissionInv
  <2>3. QED
    BY <2>1, <2>2
<1>4. SubmissionInv'
  BY <1>3 DEF SubmissionInv, RowOK
<1>5. QED
  BY <1>1, <1>2, <1>4, SentStays

\* What lies outside the submissions.
LEMMA OtherKeeps ==
    ASSUME IInv, UNCHANGED <<now, assets, actions>>, state' \in ReleaseStates,
           SubmissionInv', SentInv'
    PROVE  IInv'
BY DEF IInv, assets, AssetInv, ActionInv

LEMMA RowParts ==
    ASSUME IInv, NEW key \in DOMAIN submissions
    PROVE  /\ RowOK(key, submissions[key]) /\ KeyOK(key)
           /\ submissions[key].status \in ActionStatuses /\ submissions[key].approvals \in 0 .. 2
           /\ RequiredApprovals(key) \in {1, 2}
BY DEF IInv, SubmissionInv, RowOK, Submission, RequiredApprovals

LEMMA ApproveStep ==
    ASSUME IInv, NEW key \in DOMAIN submissions, Approve(key)
    PROVE  IInv'
<1> DEFINE n == submissions[key].approvals + 1
           row == [status |-> IF n >= RequiredApprovals(key) THEN "APPROVED"
                              ELSE "PENDING_APPROVAL",
                   approvals |-> n]
<1>1. /\ submissions[key].status = "PENDING_APPROVAL"
      /\ submissions' = With(submissions, key, row)
      /\ state' \in ReleaseStates
      /\ UNCHANGED <<now, assets, actions, sent>>
  BY DEF Approve, IInv, ReleaseStates
<1>2. n \in 1 .. RequiredApprovals(key)
  BY <1>1, RowParts DEF RowOK
<1>3. RowOK(key, row)
  BY <1>2, RowParts DEF RowOK, Submission, ActionStatuses
<1> HIDE DEF n, row
<1>4. /\ DOMAIN submissions' = DOMAIN submissions /\ submissions'[key] = row
      /\ \A k \in DOMAIN submissions \ {key} : submissions'[k] = submissions[k]
  BY <1>1 DEF With
<1>5. SubmissionInv' /\ \A s : SentOK(s) => SentOK(s)'
  BY <1>1, <1>3, <1>4, RowChanges DEF assets
<1>6. SentInv'
  BY <1>1, <1>5 DEF IInv, SentInv
<1>7. QED
  BY <1>1, <1>5, <1>6, OtherKeeps

LEMMA SettledParts ==
    ASSUME IInv, NEW key \in DOMAIN submissions, NEW status \in {"REJECTED", "COMPLETED"},
           status = "COMPLETED" => submissions[key].status = "APPROVED",
           submissions[key].status # "COMPLETED",
           submissions' = Settled(key, status), UNCHANGED <<now, srts, rights, videos>>
    PROVE  /\ DOMAIN submissions' = DOMAIN submissions /\ submissions'[key].status = status
           /\ SubmissionInv' /\ \A s : SentOK(s) => SentOK(s)'
<1> DEFINE row == [submissions[key] EXCEPT !.status = status]
<1>1. row \in Submission /\ row.status = status /\ row.approvals = submissions[key].approvals
  BY RowParts DEF RowOK, Submission, ActionStatuses
<1>2. RowOK(key, row)
  BY <1>1, RowParts DEF RowOK
<1>3. /\ DOMAIN submissions' = DOMAIN submissions /\ submissions'[key] = row
      /\ \A k \in DOMAIN submissions \ {key} : submissions'[k] = submissions[k]
  BY DEF Settled
<1> HIDE DEF row
<1>4. QED
  BY <1>1, <1>2, <1>3, RowChanges

\* What the preflight lets through is fit, and needs no more approvals.
LEMMA PreflightFits ==
    ASSUME IInv, NEW key \in DOMAIN submissions,
           ~ PreflightBlocks(key, Findings(srts, ttmls, rights, videos)),
           ~ RiskEscalated(key, Findings(srts, ttmls, rights, videos))
    PROVE  FitAt(key, now) /\ key[1] = Manifest
<1> DEFINE found == Findings(srts, ttmls, rights, videos)
           window == Latest(rights)
<1>1. key[1] = ManifestOf(srts, ttmls, rights, videos) /\ Blockers(found) = {}
  BY DEF PreflightBlocks, Manifest
<1>2. AssetsOK(srts, ttmls, rights, videos)
  BY DEF IInv, AssetInv
<1>3. /\ key[1].srts = Len(srts) /\ key[1].ttmls = ttmls /\ key[1].rights = Len(rights)
      /\ key[1].videos = Len(videos)
      /\ window.validFrom \in Int /\ window.validUntil \in Int
  BY <1>1, <1>2, ManifestParts DEF Latest
<1> HIDE DEF found
<1>4. /\ Valid(Latest(srts).content, Latest(videos))
      /\ NeedsTtml => Len(srts) \in ttmls
      /\ window.validFrom <= now /\ now < window.validUntil
      /\ window.validUntil - now <= WarningWindow => "RIGHTS_EXPIRING_SOON" \in found
  BY <1>1, <1>3, ClockParts, FindingsParts DEF found
<1>5. key[2] \in {"R2", "R3"}
  BY RowParts DEF KeyOK
<1>6. "RIGHTS_EXPIRING_SOON" \in found => key[2] = "R3"
  BY <1>5 DEF RiskEscalated, found
<1>7. QED
  BY <1>1, <1>3, <1>4, <1>6 DEF FitAt, Latest, Manifest

\* What a submission that reaches the provider does.
Sends(key) ==
    /\ ~ PreflightBlocks(key, Findings(srts, ttmls, rights, videos))
    /\ ~ RiskEscalated(key, Findings(srts, ttmls, rights, videos))
    /\ submissions' = Settled(key, "COMPLETED")
    /\ sent' = Append(sent, [key |-> key, at |-> now])

LEMMA SubmitParts ==
    ASSUME NEW key, Submit(key)
    PROVE  /\ submissions[key].status = "APPROVED"
           /\ UNCHANGED <<now, assets, actions>> /\ state' \in ReleaseStates
           /\ \/ submissions' = Settled(key, "REJECTED") /\ UNCHANGED sent
              \/ Sends(key)
              \/ UNCHANGED <<submissions, sent>>
BY DEF Submit, Sends, ReleaseStates

LEMMA SubmitStep ==
    ASSUME IInv, NEW key \in DOMAIN submissions, Submit(key)
    PROVE  IInv'
<1>1. /\ submissions[key].status = "APPROVED"
      /\ UNCHANGED <<now, srts, rights, videos, assets, actions>> /\ state' \in ReleaseStates
  BY SubmitParts DEF assets
<1>2. CASE submissions' = Settled(key, "REJECTED") /\ UNCHANGED sent
  <2>1. SubmissionInv' /\ \A s : SentOK(s) => SentOK(s)'
    BY <1>1, <1>2, SettledParts
  <2>2. SentInv'
    BY <1>2, <2>1 DEF IInv, SentInv
  <2>3. QED
    BY <1>1, <2>1, <2>2, OtherKeeps
<1>3. CASE Sends(key)
  <2>1. /\ DOMAIN submissions' = DOMAIN submissions /\ submissions'[key].status = "COMPLETED"
        /\ SubmissionInv' /\ \A s : SentOK(s) => SentOK(s)'
    BY <1>1, <1>3, SettledParts DEF Sends
  <2>2. PICK s : s = [key |-> key, at |-> now]
    OBVIOUS
  <2>3. FitAt(key, now)
    BY <1>3, PreflightFits DEF Sends
  <2>4. FitAt(s.key, s.at)'
    BY <1>1, <2>2, <2>3 DEF FitAt
  <2>5. SentOK(s)'
    BY <2>1, <2>2, <2>4 DEF SentOK
  <2>6. IsSeq(sent) /\ sent' = Append(sent, s)
    BY <1>3, <2>2 DEF Sends, IInv, SentInv
  <2>7. /\ IsSeq(sent') /\ DOMAIN sent' = DOMAIN sent \cup {Len(sent) + 1}
        /\ \A i \in DOMAIN sent : sent'[i] = sent[i]
        /\ sent'[Len(sent) + 1] = s
    BY <2>6, AppendParts
  <2>8. SentInv'
    BY <2>1, <2>5, <2>7 DEF IInv, SentInv
  <2>9. QED
    BY <1>1, <2>1, <2>8, OtherKeeps
<1>4. CASE UNCHANGED <<submissions, sent>>
  BY <1>1, <1>4, ClockParts, RestKeeps DEF IInv, ActionInv, ActionsOK
<1>5. QED
  BY <1>2, <1>3, <1>4, SubmitParts

LEMMA RejectStep ==
    ASSUME IInv, NEW key \in DOMAIN submissions, Reject(key)
    PROVE  IInv'
<1>1. /\ submissions[key].status = "PENDING_APPROVAL" /\ submissions' = Settled(key, "REJECTED")
      /\ UNCHANGED <<now, srts, rights, videos, assets, actions, sent>> /\ state' \in ReleaseStates
  BY DEF Reject, assets, ReleaseStates
<1>2. SubmissionInv' /\ \A s : SentOK(s) => SentOK(s)'
  BY <1>1, SettledParts
<1>3. SentInv'
  BY <1>1, <1>2 DEF IInv, SentInv
<1>4. QED
  BY <1>1, <1>2, <1>3, OtherKeeps

LEMMA ReconcileStep ==
    ASSUME IInv, NEW key, Reconcile(key)
    PROVE  IInv'
<1>1. UNCHANGED <<now, assets, actions, submissions, sent>> /\ state' \in ReleaseStates
  BY DEF Reconcile, ReleaseStates
<1>2. QED
  BY <1>1, ClockParts, RestKeeps DEF IInv, ActionInv, ActionsOK

-----------------------------------------------------------------------------
(* Least and greatest elements                                             *)

LEMMA LeastNumber ==
    ASSUME NEW T, T \subseteq Nat, T # {}
    PROVE  \E m \in T : \A n \in T : m <= n
<1>1. PICK m \in T : \A n \in T : ~ (<<n, m>> \in OpToRel(<, Nat))
  BY NatLessThanWellFounded, WFMin
<1>2. \A n \in T : ~ (n < m)
  BY <1>1 DEF OpToRel
<1>3. QED
  BY <1>2

LEMMA LeastIs ==
    ASSUME NEW S, S \subseteq Int, NEW m \in S, \A n \in S : m <= n
    PROVE  Least(S) = m
<1>1. PICK k : k = Least(S)
  OBVIOUS
<1>2. k \in S /\ \A n \in S : k <= n
  BY <1>1 DEF Least
<1>3. k \in Int /\ m \in Int /\ k <= m /\ m <= k
  BY <1>2
<1>4. k = m
  BY <1>3
<1>5. QED
  BY <1>1, <1>4

LEMMA GreatestIs ==
    ASSUME NEW S, S \subseteq Int, NEW m \in S, \A n \in S : m >= n
    PROVE  Greatest(S) = m
<1>1. PICK k : k = Greatest(S)
  OBVIOUS
<1>2. k \in S /\ \A n \in S : k >= n
  BY <1>1 DEF Greatest
<1>3. k \in Int /\ m \in Int /\ k >= m /\ m >= k
  BY <1>2
<1>4. k = m
  BY <1>3
<1>5. QED
  BY <1>1, <1>4

LEMMA OfTwo ==
    ASSUME NEW a \in Int, NEW b \in Int
    PROVE  /\ Least({a, b}) = IF a <= b THEN a ELSE b
           /\ Greatest({a, b}) = IF a >= b THEN a ELSE b
<1>1. CASE a <= b
  BY <1>1, LeastIs, GreatestIs
<1>2. CASE ~ a <= b
  BY <1>2, LeastIs, GreatestIs
<1>3. QED
  BY <1>1, <1>2

LEMMA LeastOfThree ==
    ASSUME NEW x \in Int,
           NEW M, M \subseteq Int, \A m, n \in M : m = n,
           NEW N, N \subseteq Int, \A m, n \in N : m = n
    PROVE  LET S == {x} \cup (M \cup N) IN Least(S) \in S /\ \A n \in S : Least(S) <= n
<1> DEFINE S == {x} \cup (M \cup N)
<1>1. \E m \in S : \A n \in S : m <= n
  <2>1. CASE M = {}
    <3>1. CASE N = {}
      BY <2>1, <3>1
    <3>2. CASE N # {}
      <4>1. PICK n \in N : TRUE
        BY <3>2
      <4>2. S = {x, n}
        BY <2>1, <4>1
      <4>3. x <= n \/ n <= x
        BY <4>1
      <4>4. QED
        BY <4>1, <4>2, <4>3
    <3>3. QED
      BY <3>1, <3>2
  <2>2. CASE M # {}
    <3>1. PICK m \in M : TRUE
      BY <2>2
    <3>2. CASE N = {}
      <4>1. S = {x, m}
        BY <3>1, <3>2
      <4>2. m \in Int
        BY <3>1
      <4>3. x <= m \/ m <= x
        BY <4>2
      <4>4. QED
        BY <4>1, <4>2, <4>3
    <3>3. CASE N # {}
      <4>1. PICK n \in N : TRUE
        BY <3>3
      <4>2. S = {x, m, n} /\ m \in Int /\ n \in Int
        BY <3>1, <4>1
      <4>3. QED
        BY <4>2
    <3>4. QED
      BY <3>2, <3>3
  <2>3. QED
    BY <2>1, <2>2
<1>2. QED
  BY <1>1 DEF Least

-----------------------------------------------------------------------------
(* One cue of repairSrt                                                    *)

\* Subtitles without a defect that repairSrt does not handle.
Sound(cues, media) ==
    /\ IsMedia(media)
    /\ cues \in Seq(SubtitleCue) /\ cues # << >>
    /\ \A i \in 1 .. Len(cues) :
        /\ cues[i].startMs < cues[i].endMs
        /\ cues[i].characters # 0
        /\ i > 1 => cues[i - 1].endMs <= cues[i].startMs
        /\ \A m \in media : cues[i].endMs <= m

LEMMA CueAt ==
    ASSUME NEW cues \in Seq(SubtitleCue), NEW i \in 1 .. Len(cues)
    PROVE  /\ cues[i] \in SubtitleCue /\ i \in DOMAIN cues
           /\ cues[i].index \in Nat /\ cues[i].characters \in Nat
           /\ cues[i].startMs \in Nat /\ cues[i].endMs \in Nat
           /\ i > 1 => i - 1 \in 1 .. Len(cues) /\ cues[i - 1].endMs \in Nat
<1>1. Len(cues) \in Nat /\ DOMAIN cues = 1 .. Len(cues)
  BY LenProperties
<1>2. \A j \in 1 .. Len(cues) : cues[j] \in SubtitleCue
  BY ElementOfSeq
<1>3. i > 1 => i - 1 \in 1 .. Len(cues)
  BY <1>1
<1>4. QED
  BY <1>1, <1>2, <1>3 DEF SubtitleCue

LEMMA SoundCodes ==
    ASSUME NEW media, NEW cues, Sound(cues, media)
    PROVE  Parses(cues) /\ SrtCodes(cues, media) \subseteq RepairableCodes
<1>1. Parses(cues)
  BY DEF Sound, Parses
<1>2. ASSUME NEW i \in DOMAIN cues PROVE CueCodes(cues, i, media) \subseteq RepairableCodes
  <2>1. i \in 1 .. Len(cues)
    BY DEF Sound
  <2>2. ~ (i > 1 /\ cues[i].startMs < cues[i - 1].endMs)
    BY <2>1, CueAt DEF Sound
  <2>3. cues[i].characters # 0
    BY <2>1 DEF Sound
  <2>4. ~ \E m \in media : cues[i].endMs > m
    BY <2>1, CueAt DEF IsMedia, Sound
  <2>5. QED
    BY <2>2, <2>3, <2>4 DEF CueCodes, RepairableCodes
<1>3. QED
  BY <1>1, <1>2 DEF SrtCodes

LEMMA RepairableAreSound ==
    ASSUME NEW media, IsMedia(media), NEW cues \in Seq(SubtitleCue), Repairable(cues, media)
    PROVE  Sound(cues, media)
<1>1. Parses(cues)
  BY DEF Repairable, SrtCodes, RepairableCodes
<1>2. ASSUME NEW i \in 1 .. Len(cues)
      PROVE  /\ cues[i].startMs < cues[i].endMs
             /\ cues[i].characters # 0
             /\ i > 1 => cues[i - 1].endMs <= cues[i].startMs
             /\ \A m \in media : cues[i].endMs <= m
  <2>1. i \in DOMAIN cues
    BY CueAt
  <2>2. CueCodes(cues, i, media) \subseteq RepairableCodes
    BY <1>1, <2>1 DEF Repairable, SrtCodes
  <2>3. ~ (i > 1 /\ cues[i].startMs < cues[i - 1].endMs)
    BY <2>2 DEF CueCodes, RepairableCodes
  <2>4. cues[i].characters # 0
    BY <2>2 DEF CueCodes, RepairableCodes
  <2>5. ~ \E m \in media : cues[i].endMs > m
    BY <2>2 DEF CueCodes, RepairableCodes
  <2>6. cues[i].startMs < cues[i].endMs
    BY <1>1, <2>1 DEF Parses
  <2>7. i > 1 => cues[i - 1].endMs <= cues[i].startMs
    BY <2>3, CueAt
  <2>8. \A m \in media : cues[i].endMs <= m
    BY <2>5, CueAt DEF IsMedia
  <2>9. QED
    BY <2>4, <2>6, <2>7, <2>8
<1>3. QED
  BY <1>2 DEF Sound, Repairable

\* Rounding up to a whole number of units is enough.
LEMMA RoundedUpIs ==
    ASSUME NEW a \in Nat, NEW b \in Nat \ {0}
    PROVE  RoundedUp(a, b) \in Nat /\ a <= b * RoundedUp(a, b)
<1> DEFINE q == (a + b - 1) \div b
           r == (a + b - 1) % b
<1>1. a + b - 1 \in Nat
  OBVIOUS
<1>2. q \in Nat /\ r \in 0 .. (b - 1) /\ a + b - 1 = b * q + r
  BY <1>1
<1> HIDE DEF q, r
<1>3. b * q \in Int
  BY <1>2
<1>4. a <= b * q
  BY <1>2, <1>3
<1>5. QED
  BY <1>2, <1>4 DEF RoundedUp, q

\* The first of the cues that are too fast, of those with the index of cue i.
LEMMA CpsFindingIs ==
    ASSUME NEW media, NEW cues, Sound(cues, media), NEW i \in 1 .. Len(cues)
    PROVE  \/ CpsFinding(cues, i) = {}
           \/ \E j \in 1 .. Len(cues) : CpsFinding(cues, i) = {j} /\ cues[j].index = cues[i].index
                                        /\ TooFast(cues[j])
<1> DEFINE hits == {j \in DOMAIN cues : cues[j].index = cues[i].index /\ TooFast(cues[j])}
<1>1. DOMAIN cues = 1 .. Len(cues) /\ Len(cues) \in Nat
  BY DEF Sound
<1>2. hits \subseteq Nat
  BY <1>1
<1>3. CASE hits # {}
  <2> HIDE DEF hits
  <2>1. PICK j \in hits : \A n \in hits : j <= n
    BY <1>2, <1>3, LeastNumber
  <2>2. Least(hits) = j
    <3>1. hits \subseteq Int
      BY <1>2
    <3>2. QED
      BY <2>1, <3>1, LeastIs
  <2>3. CpsFinding(cues, i) = {j}
    BY <1>3, <2>2 DEF CpsFinding, hits
  <2>4. QED
    BY <1>1, <2>1, <2>3 DEF hits
<1>4. CASE hits = {}
  BY <1>4 DEF CpsFinding
<1>5. QED
  BY <1>3, <1>4

LEMMA DurationsAre ==
    ASSUME NEW media, NEW cues, Sound(cues, media), NEW i \in 1 .. Len(cues)
    PROVE  /\ RequiredDuration(cues, i) \in Nat /\ MinDuration <= RequiredDuration(cues, i)
           /\ TargetDuration(cues, i) \in Nat /\ TargetDuration(cues, i) <= MaxDuration
           /\ TargetDuration(cues, i) <= RequiredDuration(cues, i)
           /\ RequiredDuration(cues, i) <= MaxDuration =>
                TargetDuration(cues, i) = RequiredDuration(cues, i)
           /\ \A j \in CpsFinding(cues, i) :
                RoundedUp(cues[j].characters * Second, CpsLimit) <= RequiredDuration(cues, i)
<1> DEFINE Of(j) == RoundedUp(cues[j].characters * Second, CpsLimit)
           R == RequiredDuration(cues, i)
<1>1. MinDuration \in Nat /\ MaxDuration \in Nat /\ MinDuration < MaxDuration
  BY LimitsAssumption DEF LimitsAssumption
<1>2. ASSUME NEW j \in 1 .. Len(cues) PROVE Of(j) \in Nat
  <2>1. cues[j].characters \in Nat
    BY CueAt DEF Sound
  <2>2. cues[j].characters * Second \in Nat
    BY <2>1, LimitsAssumption DEF LimitsAssumption
  <2>3. QED
    BY <2>2, RoundedUpIs, LimitsAssumption DEF LimitsAssumption
<1>3. /\ R \in Nat /\ MinDuration <= R
      /\ \A j \in CpsFinding(cues, i) : Of(j) <= R
  <2>1. R = Greatest({MinDuration} \cup {Of(j) : j \in CpsFinding(cues, i)})
    BY DEF RequiredDuration
  <2> HIDE DEF Of, R
  <2>2. CASE CpsFinding(cues, i) = {}
    <3>1. R = MinDuration
      BY <1>1, <2>1, <2>2, GreatestIs
    <3>2. QED
      BY <1>1, <2>2, <3>1
  <2>3. ASSUME NEW j \in 1 .. Len(cues), CpsFinding(cues, i) = {j}
        PROVE  /\ R \in Nat /\ MinDuration <= R
               /\ \A k \in CpsFinding(cues, i) : Of(k) <= R
    <3>1. R = Greatest({MinDuration, Of(j)})
      <4>1. {MinDuration} \cup {Of(k) : k \in CpsFinding(cues, i)} = {MinDuration, Of(j)}
        BY <2>3
      <4>2. QED
        BY <2>1, <4>1
    <3>2. PICK o \in Nat : o = Of(j)
      BY <1>2
    <3>3. Greatest({MinDuration, o}) = IF MinDuration >= o THEN MinDuration ELSE o
      <4>1. PICK min \in Int : min = MinDuration
        BY <1>1
      <4>2. o \in Int
        BY <3>2
      <4>3. QED
        BY <4>1, <4>2, OfTwo
    <3>4. QED
      BY <1>1, <2>3, <3>1, <3>2, <3>3
  <2>4. QED
    BY <2>2, <2>3, CpsFindingIs
<1> HIDE DEF R
<1>4. TargetDuration(cues, i) = IF R <= MaxDuration THEN R ELSE MaxDuration
  <2>1. PICK r \in Nat : r = R
    BY <1>3
  <2>2. Least({r, MaxDuration}) = IF r <= MaxDuration THEN r ELSE MaxDuration
    <3>1. r \in Int /\ MaxDuration \in Int
      BY <1>1, <2>1
    <3>2. QED
      BY <3>1, OfTwo
  <2>3. QED
    BY <2>1, <2>2 DEF TargetDuration, R
<1>5. QED
  BY <1>1, <1>3, <1>4 DEF R

LEMMA EndsAre ==
    ASSUME NEW media, NEW cues, Sound(cues, media), NEW i \in 1 .. Len(cues), NEW x \in Int
    PROVE  /\ Ends(cues, i, media) \subseteq Nat
           /\ \A e \in Ends(cues, i, media) : cues[i].endMs <= e
           /\ LET S == {x} \cup Ends(cues, i, media) IN Least(S) \in S /\ \A n \in S : Least(S) <= n
<1> DEFINE N == IF i < Len(cues) THEN {cues[i + 1].startMs} ELSE {}
<1>1. cues \in Seq(SubtitleCue) /\ Len(cues) \in Nat
  BY LenProperties DEF Sound
<1>2. i < Len(cues) => /\ i + 1 \in 1 .. Len(cues) /\ cues[i + 1].startMs \in Nat
                       /\ cues[i].endMs <= cues[i + 1].startMs
  <2>1. i < Len(cues) => i + 1 \in 1 .. Len(cues) /\ i + 1 > 1 /\ (i + 1) - 1 = i
    BY <1>1
  <2>2. QED
    BY <1>1, <2>1, CueAt DEF Sound
<1>3. /\ N \subseteq Int /\ N \subseteq Nat /\ \A m, n \in N : m = n
      /\ \A n \in N : cues[i].endMs <= n
  BY <1>2
<1>4. /\ media \subseteq Int /\ media \subseteq Nat
      /\ \A m, n \in media : m = n
      /\ \A m \in media : cues[i].endMs <= m
  BY DEF IsMedia, Sound
<1>5. Ends(cues, i, media) = media \cup N
  BY DEF Ends
<1> HIDE DEF N
<1>6. QED
  BY <1>3, <1>4, <1>5, LeastOfThree

\* What repairSrt does to a cue, given the end of the repaired one before it.
\* A cue moves into nothing but the room it has: it stays after the repaired
\* one before it and before the next, starts no later, and ends no earlier
\* unless it was too long.  It gets what it needs where there is room.
Moved(cues, i, p, r, media) ==
    LET cue == cues[i]
        target == TargetDuration(cues, i)
    IN  /\ r \in SubtitleCue /\ r.characters = cue.characters
        /\ p <= r.startMs /\ r.startMs <= cue.startMs /\ r.startMs < r.endMs
        /\ \A e \in Ends(cues, i, media) : r.endMs <= e
        /\ Duration(cue) <= MaxDuration => cue.endMs <= r.endMs
        /\ (/\ Duration(cue) <= MaxDuration
            /\ \A e \in Ends(cues, i, media) : cue.startMs + target <= e)
             => target <= Duration(r) /\ Duration(r) <= MaxDuration

LEMMA RetimedIs ==
    ASSUME NEW media, NEW cues, Sound(cues, media), NEW i \in 1 .. Len(cues),
           NEW p \in Nat, p <= cues[i].startMs
    PROVE  Moved(cues, i, p, Retimed(cues, i, p, media), media)
<1> DEFINE cue == cues[i]
           target == TargetDuration(cues, i)
           cut == Least({cue.endMs, cue.startMs + MaxDuration})
           end == Least({cue.startMs + target} \cup Ends(cues, i, media))
           start == Greatest({p, end - target})
           r == Retimed(cues, i, p, media)
<1>1. /\ cue \in SubtitleCue /\ cue.startMs \in Nat /\ cue.endMs \in Nat
      /\ cue.startMs < cue.endMs
  BY CueAt DEF Sound
<1>2. MaxDuration \in Nat /\ MaxDuration > 0
  BY LimitsAssumption DEF LimitsAssumption
<1>3. target \in Nat /\ target <= MaxDuration
  BY DurationsAre
<1>4. r = IF cut - cue.startMs >= target THEN [cue EXCEPT !.endMs = cut]
          ELSE IF end - cue.startMs >= target THEN [cue EXCEPT !.endMs = end]
          ELSE [cue EXCEPT !.startMs = start, !.endMs = end]
  BY ZenonT(60) DEF Retimed
<1>5. Ends(cues, i, media) \subseteq Nat /\ \A e \in Ends(cues, i, media) : cue.endMs <= e
  <2>1. 0 \in Int
    OBVIOUS
  <2>2. QED
    BY <2>1, EndsAre
<1>6. /\ end \in {cue.startMs + target} \cup Ends(cues, i, media)
      /\ \A n \in {cue.startMs + target} \cup Ends(cues, i, media) : end <= n
  <2>1. cue.startMs + target \in Int
    BY <1>1, <1>3
  <2>2. PICK x \in Int : x = cue.startMs + target
    BY <2>1
  <2>3. QED
    BY <2>2, EndsAre
<1>7. cut = IF cue.endMs <= cue.startMs + MaxDuration THEN cue.endMs ELSE cue.startMs + MaxDuration
  <2>1. cue.endMs \in Int /\ cue.startMs + MaxDuration \in Int
    BY <1>1, <1>2
  <2>2. PICK a \in Int, b \in Int : a = cue.endMs /\ b = cue.startMs + MaxDuration
    BY <2>1
  <2>3. Least({a, b}) = IF a <= b THEN a ELSE b
    BY OfTwo
  <2>4. QED
    BY <2>2, <2>3
<1>8. end \in Nat /\ end <= cue.startMs + target /\ \A e \in Ends(cues, i, media) : end <= e
  <2> HIDE DEF end, cue, target
  <2>1. cue.startMs + target \in Nat
    BY <1>1, <1>3
  <2>2. QED
    BY <1>5, <1>6, <2>1
<1>9. start = IF p >= end - target THEN p ELSE end - target
  <2>1. PICK a \in Int, b \in Int : a = p /\ b = end - target
    BY <1>3, <1>8
  <2>2. Greatest({a, b}) = IF a >= b THEN a ELSE b
    BY OfTwo
  <2>3. QED
    BY <2>1, <2>2
<1>10. \A n \in Nat : Duration(cue) <= n <=> cue.endMs <= cue.startMs + n
  BY <1>1 DEF Duration
<1>12. \A s, e \in Nat :
          /\ [cue EXCEPT !.startMs = s, !.endMs = e] \in SubtitleCue
          /\ [cue EXCEPT !.startMs = s, !.endMs = e].startMs = s
          /\ [cue EXCEPT !.startMs = s, !.endMs = e].endMs = e
          /\ [cue EXCEPT !.startMs = s, !.endMs = e].characters = cue.characters
          /\ [cue EXCEPT !.endMs = e] \in SubtitleCue
          /\ [cue EXCEPT !.endMs = e].startMs = cue.startMs
          /\ [cue EXCEPT !.endMs = e].endMs = e
          /\ [cue EXCEPT !.endMs = e].characters = cue.characters
  BY <1>1 DEF SubtitleCue
<1>13. \A e \in Ends(cues, i, media) : e \in Nat /\ cue.endMs <= e
  BY <1>5
<1> HIDE DEF cut, end, start, target, cue, r
<1>14. CASE cut - cue.startMs >= target
  <2>1. cut \in Nat /\ cut <= cue.endMs /\ cue.startMs < cut
        /\ (cue.endMs <= cue.startMs + MaxDuration => cut = cue.endMs)
    BY <1>1, <1>2, <1>7
  <2>2. r.startMs = cue.startMs /\ r.endMs = cut /\ r \in SubtitleCue
        /\ r.characters = cue.characters
    BY <1>4, <1>12, <1>14, <2>1
  <2>3. \A e \in Ends(cues, i, media) : r.endMs <= e
    BY <1>1, <1>13, <2>1, <2>2
  <2>4. cut - cue.startMs <= MaxDuration
    BY <1>1, <1>2, <1>7
  <2>5. Duration(cue) <= MaxDuration => cue.endMs <= r.endMs
    BY <1>2, <1>10, <2>1, <2>2
  <2>6. target <= Duration(r) /\ Duration(r) <= MaxDuration
    BY <1>14, <2>2, <2>4 DEF Duration
  <2>7. r.startMs <= cue.startMs /\ r.startMs < r.endMs /\ p <= r.startMs
    BY <1>1, <2>1, <2>2 DEF cue
  <2>8. QED
    BY <2>2, <2>3, <2>5, <2>6, <2>7 DEF Moved, cue, target, r
<1>15. CASE ~ cut - cue.startMs >= target
  <2>1. cut = cue.endMs /\ cue.endMs < cue.startMs + target
    BY <1>1, <1>2, <1>3, <1>7, <1>15
  <2>2. cue.endMs <= end
    BY <1>1, <1>3, <1>6, <1>13, <2>1
  <2>3. CASE end - cue.startMs >= target
    <3>1. end = cue.startMs + target
      BY <1>1, <1>3, <1>8, <2>3
    <3>2. r.startMs = cue.startMs /\ r.endMs = end /\ r \in SubtitleCue
          /\ r.characters = cue.characters
      BY <1>4, <1>8, <1>12, <1>15, <2>3
    <3>3. Duration(r) = target
      BY <1>1, <1>3, <3>1, <3>2 DEF Duration
    <3>4. QED
      BY <1>1, <1>3, <1>8, <2>2, <3>2, <3>3 DEF Moved, cue, target, r
  <2>4. CASE ~ end - cue.startMs >= target
    <3>1. end - target < cue.startMs /\ end \in Ends(cues, i, media)
      BY <1>1, <1>3, <1>6, <1>8, <2>4
    <3>2. start \in Nat /\ p <= start /\ start <= cue.startMs
      BY <1>1, <1>3, <1>8, <1>9, <3>1 DEF cue
    <3>3. r.startMs = start /\ r.endMs = end /\ r \in SubtitleCue
          /\ r.characters = cue.characters
      BY <1>4, <1>8, <1>12, <1>15, <2>4, <3>2
    <3>4. ~ \A e \in Ends(cues, i, media) : cue.startMs + target <= e
      BY <1>1, <1>3, <1>8, <3>1
    <3>5. start < end
      BY <1>1, <1>8, <2>2, <3>2
    <3>6. QED
      BY <1>8, <2>2, <3>2, <3>3, <3>4, <3>5 DEF Moved, cue, target, r
  <2>5. QED
    BY <2>3, <2>4
<1>16. QED
  BY <1>14, <1>15 DEF r

-----------------------------------------------------------------------------
(* The cues one after the other                                            *)

\* g is what RetimedCues computes up to cue n.
Chain(cues, n, g, media) ==
    g = [i \in 0 .. n |->
            IF i = 0 THEN [endMs |-> 0] ELSE Retimed(cues, i, g[i - 1].endMs, media)]

LEMMA ChainGrows ==
    ASSUME NEW media, NEW cues, NEW n \in Nat, NEW g, Chain(cues, n, g, media)
    PROVE  \E h : Chain(cues, n + 1, h, media)
<1> DEFINE h == [i \in 0 .. (n + 1) |->
                    IF i = n + 1 THEN Retimed(cues, n + 1, g[n].endMs, media) ELSE g[i]]
<1>1. \A i \in 0 .. n : /\ i \in 0 .. (n + 1) /\ i # n + 1
                        /\ g[i] = IF i = 0 THEN [endMs |-> 0]
                                  ELSE Retimed(cues, i, g[i - 1].endMs, media)
  BY DEF Chain
<1>2. \A i \in 0 .. n : h[i] = g[i]
  BY <1>1
<1>3. h[n + 1] = Retimed(cues, n + 1, g[n].endMs, media)
  OBVIOUS
<1>4. ASSUME NEW i \in 0 .. (n + 1)
      PROVE  h[i] = IF i = 0 THEN [endMs |-> 0] ELSE Retimed(cues, i, h[i - 1].endMs, media)
  <2> HIDE DEF h
  <2>1. CASE i = n + 1
    <3>1. i # 0 /\ i - 1 = n /\ n \in 0 .. n
      BY <2>1
    <3>2. h[i - 1] = g[n]
      BY <1>2, <3>1
    <3>3. QED
      BY <1>3, <2>1, <3>1, <3>2
  <2>2. CASE i = 0
    <3>1. 0 \in 0 .. n
      OBVIOUS
    <3>2. QED
      BY <1>1, <1>2, <2>2, <3>1
  <2>3. CASE i # n + 1 /\ i # 0
    <3>1. i \in 0 .. n /\ i - 1 \in 0 .. n
      BY <2>3
    <3>2. h[i] = g[i] /\ h[i - 1] = g[i - 1] /\ g[i] = Retimed(cues, i, g[i - 1].endMs, media)
      BY <1>1, <1>2, <2>3, <3>1
    <3>3. QED
      BY <2>3, <3>2
  <2>4. QED
    BY <2>1, <2>2, <2>3
<1>5. h = [i \in 0 .. (n + 1) |-> h[i]]
  OBVIOUS
<1> HIDE DEF h
<1>6. Chain(cues, n + 1, h, media)
  BY <1>4, <1>5 DEF Chain
<1>7. QED
  BY <1>6

LEMMA ChainExists ==
    ASSUME NEW media, NEW cues, NEW n \in Nat
    PROVE  \E g : Chain(cues, n, g, media)
<1> DEFINE T == {k \in Nat : ~ \E g : Chain(cues, k, g, media)}
<1>1. ASSUME T # {} PROVE FALSE
  <2>1. PICK k \in T : \A l \in T : k <= l
    <3>1. T \subseteq Nat
      OBVIOUS
    <3> HIDE DEF T
    <3>2. QED
      BY <1>1, <3>1, LeastNumber
  <2>2. CASE k = 0
    <3>1. \E g : g = [i \in 0 .. 0 |-> [endMs |-> 0]]
      OBVIOUS
    <3>2. PICK g : g = [i \in 0 .. 0 |-> [endMs |-> 0]]
      BY <3>1
    <3>3. Chain(cues, 0, g, media)
      BY <3>2 DEF Chain
    <3>4. QED
      BY <2>2, <3>3
  <2>3. CASE k # 0
    <3>1. k - 1 \in Nat /\ (k - 1) + 1 = k /\ ~ k <= k - 1
      BY <2>3
    <3>2. k - 1 \notin T
      BY <2>1, <3>1
    <3>3. PICK g : Chain(cues, k - 1, g, media)
      BY <3>1, <3>2
    <3>4. PICK m \in Nat : m = k - 1
      BY <3>1
    <3>5. \E h : Chain(cues, m + 1, h, media)
      BY <3>3, <3>4, ChainGrows
    <3>6. QED
      BY <3>1, <3>4, <3>5
  <2>4. QED
    BY <2>2, <2>3
<1>2. QED
  BY <1>1

\* What RetimedCues computes.
LEMMA RetimedCuesAre ==
    ASSUME NEW media, NEW cues, Len(cues) \in Nat
    PROVE  \E g : /\ Chain(cues, Len(cues), g, media)
                  /\ RetimedCues(cues, media) = [i \in DOMAIN cues |-> g[i]]
<1> DEFINE r == CHOOSE r : r = [i \in 0 .. Len(cues) |->
                    IF i = 0 THEN [endMs |-> 0] ELSE Retimed(cues, i, r[i - 1].endMs, media)]
<1>1. \E g : g = [i \in 0 .. Len(cues) |->
                    IF i = 0 THEN [endMs |-> 0] ELSE Retimed(cues, i, g[i - 1].endMs, media)]
  <2>1. PICK n \in Nat : n = Len(cues)
    OBVIOUS
  <2>2. \E g : Chain(cues, n, g, media)
    BY ChainExists
  <2>3. QED
    BY <2>1, <2>2 DEF Chain
<1>2. r = [i \in 0 .. Len(cues) |->
                    IF i = 0 THEN [endMs |-> 0] ELSE Retimed(cues, i, r[i - 1].endMs, media)]
  BY <1>1
<1>3. RetimedCues(cues, media) = [i \in DOMAIN cues |-> r[i]]
  BY DEF RetimedCues
<1>4. PICK g : g = r
  OBVIOUS
<1> HIDE DEF r
<1>5. QED
  BY <1>2, <1>3, <1>4 DEF Chain

\* Every cue is repaired after the one before it.
LEMMA ChainParts ==
    ASSUME NEW media, NEW cues, Sound(cues, media), NEW g, Chain(cues, Len(cues), g, media),
           NEW i \in 1 .. Len(cues)
    PROVE  /\ g[i - 1].endMs \in Nat
           /\ Moved(cues, i, g[i - 1].endMs, g[i], media)
           /\ i > 1 => g[i - 1] \in SubtitleCue
<1> DEFINE P(k) == g[k - 1].endMs \in Nat /\ g[k - 1].endMs <= cues[k].startMs
           T == {k \in 1 .. Len(cues) : ~ P(k)}
<1>1. cues \in Seq(SubtitleCue) /\ Len(cues) \in Nat
  BY LenProperties DEF Sound
<1>2. ASSUME NEW k \in 1 .. Len(cues), P(k) PROVE Moved(cues, k, g[k - 1].endMs, g[k], media)
  <2>1. g[k] = Retimed(cues, k, g[k - 1].endMs, media)
    BY <1>1 DEF Chain
  <2>2. PICK p \in Nat : p = g[k - 1].endMs
    BY <1>2
  <2>3. p <= cues[k].startMs
    BY <1>2, <2>2
  <2>4. QED
    BY <2>1, <2>2, <2>3, RetimedIs
<1>3. ASSUME NEW k \in 1 .. Len(cues), k > 1, P(k - 1) PROVE P(k) /\ g[k - 1] \in SubtitleCue
  <2>1. PICK l \in 1 .. Len(cues) : l = k - 1 /\ l < Len(cues) /\ l + 1 = k
    BY <1>1, <1>3
  <2>2. P(l)
    BY <1>3, <2>1
  <2>3. Moved(cues, l, g[l - 1].endMs, g[l], media)
    BY <1>2, <2>2
  <2>4. cues[k].startMs \in Ends(cues, l, media)
    BY <2>1 DEF Ends
  <2>5. g[l] \in SubtitleCue /\ g[l].endMs <= cues[k].startMs
    BY <2>3, <2>4 DEF Moved
  <2>6. g[l].endMs \in Nat
    BY <2>5 DEF SubtitleCue
  <2>7. QED
    BY <2>1, <2>5, <2>6
<1>4. ASSUME T # {} PROVE FALSE
  <2>1. PICK k \in T : \A l \in T : k <= l
    <3>1. T \subseteq Nat
      BY <1>1
    <3> HIDE DEF T
    <3>2. QED
      BY <1>4, <3>1, LeastNumber
  <2>2. CASE k = 1
    <3>1. g[0].endMs = 0
      BY <1>1 DEF Chain
    <3>2. cues[1].startMs \in Nat
      BY <1>1, <2>1, <2>2, CueAt
    <3>3. QED
      BY <2>1, <2>2, <3>1, <3>2
  <2>3. CASE k # 1
    <3>1. k > 1 /\ k - 1 \in 1 .. Len(cues) /\ ~ k <= k - 1
      BY <1>1, <2>1, <2>3
    <3>2. P(k - 1)
      BY <2>1, <3>1
    <3>3. QED
      BY <1>3, <2>1, <3>1, <3>2
  <2>4. QED
    BY <2>2, <2>3
<1>5. \A k \in 1 .. Len(cues) : P(k)
  BY <1>4
<1>6. i > 1 => i - 1 \in 1 .. Len(cues)
  BY <1>1
<1>7. QED
  BY <1>2, <1>3, <1>5, <1>6


LEMMA RetimedParts ==
    ASSUME NEW media, NEW cues, Sound(cues, media)
    PROVE  LET r == RetimedCues(cues, media) IN
           /\ DOMAIN r = 1 .. Len(cues)
           /\ \A i \in 1 .. Len(cues) :
                \E p \in Nat : Moved(cues, i, p, r[i], media) /\ (i > 1 => p = r[i - 1].endMs)
<1> DEFINE r == RetimedCues(cues, media)
<1>1. Len(cues) \in Nat /\ DOMAIN cues = 1 .. Len(cues)
  BY LenProperties DEF Sound
<1>2. PICK g : Chain(cues, Len(cues), g, media) /\ r = [i \in DOMAIN cues |-> g[i]]
  BY <1>1, RetimedCuesAre
<1> HIDE DEF r
<1>3. ASSUME NEW i \in 1 .. Len(cues)
      PROVE  \E p \in Nat : Moved(cues, i, p, r[i], media) /\ (i > 1 => p = r[i - 1].endMs)
  <2>1. g[i - 1].endMs \in Nat /\ Moved(cues, i, g[i - 1].endMs, g[i], media)
    BY <1>2, ChainParts
  <2>2. r[i] = g[i]
    BY <1>1, <1>2
  <2>3. i > 1 => r[i - 1] = g[i - 1]
    BY <1>1, <1>2
  <2>4. QED
    BY <2>1, <2>2, <2>3
<1>4. QED
  BY <1>1, <1>2, <1>3 DEF r

\* The subtitles that repairSrt writes, cue by cue: sound again, and each cue
\* moved within its room.
RepairedWell(cues, s, media) ==
    /\ Sound(s, media) /\ Len(s) = Len(cues)
    /\ \A i \in 1 .. Len(cues) :
        /\ s[i].index = i /\ s[i].characters = cues[i].characters
        /\ s[i].startMs <= cues[i].startMs
        /\ Duration(cues[i]) <= MaxDuration => cues[i].endMs <= s[i].endMs
        /\ (/\ Duration(cues[i]) <= MaxDuration
            /\ \A e \in Ends(cues, i, media) : cues[i].startMs + TargetDuration(cues, i) <= e)
             => TargetDuration(cues, i) <= Duration(s[i]) /\ Duration(s[i]) <= MaxDuration

LEMMA RepairedParts ==
    ASSUME NEW media, NEW cues, Sound(cues, media)
    PROVE  RepairedWell(cues, Serialized(RetimedCues(cues, media)), media)
<1>0. PICK r : r = RetimedCues(cues, media)
  OBVIOUS
<1>1. /\ cues \in Seq(SubtitleCue) /\ cues # << >>
      /\ Len(cues) \in Nat /\ DOMAIN cues = 1 .. Len(cues)
  BY LenProperties DEF Sound
<1>2. /\ DOMAIN r = 1 .. Len(cues)
      /\ \A i \in 1 .. Len(cues) :
           \E p \in Nat : Moved(cues, i, p, r[i], media) /\ (i > 1 => p = r[i - 1].endMs)
  BY <1>0, RetimedParts
<1>3. PICK s : s = Serialized(r)
  OBVIOUS
<1>4. s = [i \in 1 .. Len(cues) |-> [r[i] EXCEPT !.index = i]]
  BY <1>2, <1>3 DEF Serialized
<1>5. ASSUME NEW i \in 1 .. Len(cues)
      PROVE  /\ r[i] \in SubtitleCue /\ s[i] \in SubtitleCue /\ s[i].index = i
             /\ s[i].startMs = r[i].startMs /\ s[i].endMs = r[i].endMs
             /\ s[i].characters = r[i].characters
  <2>1. r[i] \in SubtitleCue
    BY <1>2 DEF Moved
  <2>2. s[i] = [r[i] EXCEPT !.index = i]
    BY <1>4
  <2>3. i \in Nat
    BY <1>1
  <2>4. QED
    BY <2>1, <2>2, <2>3 DEF SubtitleCue
<1>6. s \in Seq(SubtitleCue) /\ Len(s) = Len(cues)
  <2>1. s \in [1 .. Len(cues) -> SubtitleCue]
    BY <1>4, <1>5
  <2>2. QED
    BY <1>1, <2>1, SeqDef, LenProperties
<1>7. s # << >>
  BY <1>1, <1>6
<1>8. ASSUME NEW i \in 1 .. Len(cues)
      PROVE  /\ s[i].startMs < s[i].endMs
             /\ s[i].characters # 0 /\ s[i].characters = cues[i].characters
             /\ i > 1 => s[i - 1].endMs <= s[i].startMs
             /\ \A m \in media : s[i].endMs <= m
             /\ s[i].startMs <= cues[i].startMs
             /\ Duration(cues[i]) <= MaxDuration => cues[i].endMs <= s[i].endMs
             /\ (/\ Duration(cues[i]) <= MaxDuration
                 /\ \A e \in Ends(cues, i, media) : cues[i].startMs + TargetDuration(cues, i) <= e)
                  => TargetDuration(cues, i) <= Duration(s[i]) /\ Duration(s[i]) <= MaxDuration
  <2>1. PICK p \in Nat : Moved(cues, i, p, r[i], media) /\ (i > 1 => p = r[i - 1].endMs)
    BY <1>2
  <2>2. i > 1 => s[i - 1].endMs = r[i - 1].endMs
    <3>1. i > 1 => i - 1 \in 1 .. Len(cues)
      BY <1>1
    <3>2. QED
      BY <1>5, <3>1
  <2>3. media \subseteq Ends(cues, i, media)
    BY DEF Ends
  <2>4. Duration(s[i]) = Duration(r[i])
    BY <1>5 DEF Duration
  <2>5. cues[i].characters # 0
    BY DEF Sound
  <2>6. QED
    BY <1>5, <2>1, <2>2, <2>3, <2>4, <2>5 DEF Moved
<1>9. Sound(s, media)
  BY <1>6, <1>7, <1>8 DEF Sound
<1>10. RepairedWell(cues, s, media)
  BY <1>5, <1>6, <1>8, <1>9 DEF RepairedWell
<1>11. QED
  BY <1>0, <1>3, <1>10

-----------------------------------------------------------------------------
(* What repairSrt promises                                                 *)

LEMMA TimesIsMonotone ==
    ASSUME NEW c \in Nat, NEW a \in Int, NEW b \in Int, a <= b
    PROVE  c * a <= c * b
<1>1. PICK d \in Nat : d = b - a /\ b = a + d
  OBVIOUS
<1>2. c * d \in Nat /\ c * a \in Int
  OBVIOUS
<1>3. c * b = c * a + c * d
  BY <1>1
<1>4. QED
  BY <1>2, <1>3

\* The index of a cue is not looked at.
LEMMA CodesAlike ==
    ASSUME NEW media, NEW s, NEW t, DOMAIN s = DOMAIN t,
           s \in Seq(SubtitleCue), t \in Seq(SubtitleCue),
           \A i \in DOMAIN s : /\ s[i].startMs = t[i].startMs /\ s[i].endMs = t[i].endMs
                               /\ s[i].characters = t[i].characters
    PROVE  SrtCodes(s, media) = SrtCodes(t, media)
<1>1. Parses(s) <=> Parses(t)
  BY DEF Parses
<1>2. ASSUME NEW i \in DOMAIN s PROVE CueCodes(s, i, media) = CueCodes(t, i, media)
  <2>1. i > 1 => i - 1 \in DOMAIN s
    OBVIOUS
  <2>2. (i > 1 /\ s[i].startMs < s[i - 1].endMs) <=> (i > 1 /\ t[i].startMs < t[i - 1].endMs)
    BY <2>1
  <2>3. TooFast(s[i]) <=> TooFast(t[i])
    BY DEF TooFast, Duration
  <2>4. Duration(s[i]) = Duration(t[i])
    BY DEF Duration
  <2>5. s[i].characters = t[i].characters /\ s[i].endMs = t[i].endMs
    OBVIOUS
  <2>6. QED
    BY <2>2, <2>3, <2>4, <2>5 DEF CueCodes
<1>3. {CueCodes(s, i, media) : i \in DOMAIN s} = {CueCodes(t, i, media) : i \in DOMAIN t}
  BY <1>2
<1>4. QED
  BY <1>1, <1>3 DEF SrtCodes

\* A repair is again in SubtitleCue, and stays within what RepairIsSafe says.
LEMMA RepairSafe ==
    ASSUME NEW media, IsMedia(media), NEW cues \in Seq(SubtitleCue)
    PROVE  LET after == RepairedSrt(cues, media) IN
           /\ after \in Seq(SubtitleCue)
           /\ Repairable(cues, media) =>
                /\ SrtCodes(after, media) \subseteq RepairableCodes
                /\ \A i \in DOMAIN cues :
                     /\ after[i].startMs <= cues[i].startMs
                     /\ Duration(cues[i]) <= MaxDuration => after[i].endMs >= cues[i].endMs
<1>1. CASE Repairable(cues, media) /\ RetimedCues(cues, media) # cues
  <2>1. PICK s : s = Serialized(RetimedCues(cues, media))
    OBVIOUS
  <2>2. RepairedSrt(cues, media) = s
    BY <1>1, <2>1 DEF RepairedSrt
  <2>3. Sound(cues, media) /\ RepairedWell(cues, s, media)
    BY <1>1, <2>1, RepairableAreSound, RepairedParts
  <2>4. SrtCodes(s, media) \subseteq RepairableCodes /\ s \in Seq(SubtitleCue)
    BY <2>3, SoundCodes DEF RepairedWell, Sound
  <2>5. ASSUME NEW i \in DOMAIN cues
        PROVE  /\ s[i].startMs <= cues[i].startMs
               /\ Duration(cues[i]) <= MaxDuration => s[i].endMs >= cues[i].endMs
    <3>1. i \in 1 .. Len(cues) /\ i \in 1 .. Len(s)
      BY <2>3 DEF RepairedWell
    <3>2. s[i].endMs \in Nat /\ cues[i].endMs \in Nat
      BY <2>4, <3>1, CueAt
    <3>3. QED
      BY <2>3, <3>1, <3>2 DEF RepairedWell
  <2>6. QED
    BY <2>2, <2>4, <2>5
<1>2. CASE ~ (Repairable(cues, media) /\ RetimedCues(cues, media) # cues)
  <2>1. RepairedSrt(cues, media) = cues
    BY <1>2 DEF RepairedSrt
  <2>2. \A i \in DOMAIN cues : cues[i].startMs <= cues[i].startMs /\ cues[i].endMs >= cues[i].endMs
    BY CueAt
  <2>3. Repairable(cues, media) => SrtCodes(cues, media) \subseteq RepairableCodes
    BY DEF Repairable
  <2>4. QED
    BY <2>1, <2>2, <2>3
<1>3. QED
  BY <1>1, <1>2

\* With room for every cue, a repair leaves no defect.
LEMMA RoomyRepairs ==
    ASSUME NEW media, IsMedia(media), NEW cues \in Seq(SubtitleCue),
           Repairable(cues, media), Roomy(cues, media)
    PROVE  Valid(RepairedSrt(cues, media), media) /\ RepairedSrt(cues, media) # cues
<1>1. PICK s : s = Serialized(RetimedCues(cues, media))
  OBVIOUS
<1>2. Sound(cues, media) /\ RepairedWell(cues, s, media)
  BY <1>1, RepairableAreSound, RepairedParts
<1>3. /\ Sound(s, media) /\ Len(s) = Len(cues) /\ Len(cues) \in Nat
      /\ DOMAIN s = 1 .. Len(cues) /\ DOMAIN cues = 1 .. Len(cues)
      /\ Parses(s)
  <2>1. Sound(s, media) /\ Len(s) = Len(cues)
    BY <1>2 DEF RepairedWell
  <2>2. s \in Seq(SubtitleCue)
    BY <2>1 DEF Sound
  <2>3. QED
    BY <2>1, <2>2, SoundCodes, LenProperties
<1>4. ASSUME NEW i \in 1 .. Len(cues)
      PROVE  ~ TooFast(s[i]) /\ ~ Duration(s[i]) < MinDuration /\ ~ Duration(s[i]) > MaxDuration
  <2> DEFINE t == TargetDuration(cues, i)
             R == RequiredDuration(cues, i)
  <2>1. /\ cues[i].startMs \in Nat /\ cues[i].endMs \in Nat /\ cues[i].characters \in Nat
        /\ s[i].startMs \in Nat /\ s[i].endMs \in Nat /\ s[i].characters = cues[i].characters
        /\ s[i].startMs <= cues[i].startMs
    <3>1. s \in Seq(SubtitleCue) /\ i \in 1 .. Len(s)
      BY <1>3 DEF Sound
    <3>2. QED
      BY <1>2, <3>1, CueAt DEF RepairedWell
  <2>2. Duration(cues[i]) <= MaxDuration /\ R <= MaxDuration
    BY <1>3 DEF Roomy
  <2>3. t = R /\ R \in Nat /\ MinDuration <= R
        /\ \A j \in CpsFinding(cues, i) :
             RoundedUp(cues[j].characters * Second, CpsLimit) <= R
    BY <1>2, <2>2, DurationsAre
  <2>4. \A e \in Ends(cues, i, media) : cues[i].startMs + t <= e
    <3> HIDE DEF t, R
    <3>1. \A e \in Ends(cues, i, media) : cues[i].startMs + R <= e
      BY <1>3 DEF Roomy, R
    <3>2. QED
      BY <2>3, <3>1
  <2>5. t <= Duration(s[i]) /\ Duration(s[i]) <= MaxDuration /\ cues[i].endMs <= s[i].endMs
    BY <1>2, <2>2, <2>4 DEF RepairedWell
  <2>6. /\ Duration(s[i]) \in Int /\ Duration(cues[i]) \in Int
        /\ Duration(cues[i]) <= Duration(s[i])
    BY <2>1, <2>5 DEF Duration
  <2> HIDE DEF t, R
  <2>7. MinDuration \in Nat /\ MaxDuration \in Nat /\ CpsLimit \in Nat \ {0} /\ Second \in Nat
    BY LimitsAssumption DEF LimitsAssumption
  <2>8. ~ TooFast(s[i])
    <3>1. PICK c \in Nat : c = cues[i].characters * Second /\ c = s[i].characters * Second
      BY <2>1, <2>7
    <3>2. PICK d \in Int : d = Duration(s[i])
      BY <2>6
    <3>3. CASE TooFast(cues[i])
      <4>1. CpsFinding(cues, i) = {i}
        <5>1. {j \in DOMAIN cues : cues[j].index = cues[i].index /\ TooFast(cues[j])} = {i}
          <6>1. i \in DOMAIN cues
            BY <1>3
          <6>2. \A j \in DOMAIN cues : cues[i].index = cues[j].index => i = j
            BY <6>1 DEF Roomy
          <6>3. QED
            BY <3>3, <6>1, <6>2
        <5>2. Least({i}) = i
          <6>1. {i} \subseteq Int /\ i \in {i} /\ \A n \in {i} : i <= n
            BY <1>3
          <6>2. PICK S, k : S = {i} /\ k = i
            OBVIOUS
          <6>3. S \subseteq Int /\ k \in S /\ \A n \in S : k <= n
            BY <6>1, <6>2
          <6>4. QED
            BY <6>2, <6>3, LeastIs
        <5>3. QED
          BY <5>1, <5>2 DEF CpsFinding
      <4>2. PICK q : q = RoundedUp(c, CpsLimit)
        OBVIOUS
      <4>3. q \in Nat /\ c <= CpsLimit * q
        BY <2>7, <4>2, RoundedUpIs
      <4>4. q <= d
        BY <2>3, <2>5, <3>1, <3>2, <4>1, <4>2, <4>3
      <4>5. CpsLimit * q <= CpsLimit * d
        BY <2>7, <4>3, <4>4, TimesIsMonotone
      <4>6. CpsLimit * q \in Int /\ CpsLimit * d \in Int
        BY <2>7, <4>3
      <4>7. c <= CpsLimit * d
        BY <4>3, <4>5, <4>6
      <4>8. QED
        BY <3>1, <3>2, <4>6, <4>7 DEF TooFast
    <3>4. CASE ~ TooFast(cues[i])
      <4>1. PICK b \in Int : b = Duration(cues[i])
        BY <2>6
      <4>2. CpsLimit * b \in Int /\ CpsLimit * d \in Int
        BY <2>7
      <4>3. c <= CpsLimit * b
        BY <3>1, <3>4, <4>1, <4>2 DEF TooFast
      <4>4. b <= d
        BY <2>6, <3>2, <4>1
      <4>5. CpsLimit * b <= CpsLimit * d
        BY <2>7, <4>4, TimesIsMonotone
      <4>6. c <= CpsLimit * d
        BY <4>2, <4>3, <4>5
      <4>7. QED
        BY <3>1, <3>2, <4>2, <4>6 DEF TooFast
    <3>5. QED
      BY <3>3, <3>4
  <2>9. QED
    BY <2>3, <2>5, <2>6, <2>7, <2>8
<1>5. Valid(s, media)
  <2>1. ASSUME NEW i \in DOMAIN s PROVE CueCodes(s, i, media) = {}
    <3>1. i \in 1 .. Len(cues) /\ i \in 1 .. Len(s)
      BY <1>3
    <3>2. s \in Seq(SubtitleCue)
      BY <1>3 DEF Sound
    <3>3. ~ (i > 1 /\ s[i].startMs < s[i - 1].endMs) /\ s[i].characters # 0
      BY <1>3, <3>1, <3>2, CueAt DEF Sound
    <3>4. ~ \E m \in media : s[i].endMs > m
      BY <1>3, <3>1, <3>2, CueAt DEF IsMedia, Sound
    <3>5. ~ TooFast(s[i]) /\ ~ Duration(s[i]) < MinDuration /\ ~ Duration(s[i]) > MaxDuration
      BY <1>4, <3>1
    <3>6. QED
      BY <3>3, <3>4, <3>5 DEF CueCodes
  <2>2. QED
    BY <1>3, <2>1 DEF Valid, SrtCodes
<1>6. RetimedCues(cues, media) # cues
  <2>1. ASSUME RetimedCues(cues, media) = cues PROVE Valid(cues, media)
    <3>1. \A i \in DOMAIN cues : s[i] = [cues[i] EXCEPT !.index = i]
      BY <1>1, <2>1 DEF Serialized
    <3>2. \A i \in DOMAIN cues : cues[i] \in SubtitleCue
      BY <1>3, CueAt
    <3>3. ASSUME NEW i \in DOMAIN cues
          PROVE  /\ s[i].startMs = cues[i].startMs /\ s[i].endMs = cues[i].endMs
                 /\ s[i].characters = cues[i].characters
      BY <3>1, <3>2 DEF SubtitleCue
    <3>4. SrtCodes(s, media) = SrtCodes(cues, media)
      BY <1>3, <3>3, CodesAlike DEF Sound
    <3>5. QED
      BY <1>5, <3>4 DEF Valid
  <2>2. QED
    BY <2>1 DEF Repairable
<1>7. RepairedSrt(cues, media) = s
  BY <1>1, <1>6 DEF RepairedSrt
<1>8. QED
  BY <1>5, <1>7 DEF Repairable

-----------------------------------------------------------------------------
(* What is proposed stays possible                                         *)

ContentInv == \A i \in DOMAIN srts : srts[i].content \in Seq(SubtitleCue)

\* What planningNode knows of the subtitle that an action was proposed for,
\* with the video of that time.
Planned(k, contents, media) ==
    /\ k[2] \in DOMAIN contents
    /\ k[1] = "GENERATE_TTML" => Valid(contents[k[2]].content, media)
    /\ k[1] = "REPAIR_SUBTITLE" => Repairable(contents[k[2]].content, media)

Plans(f, contents, seen) ==
    \A k \in DOMAIN f :
        f[k] = "PROPOSED" => k \in DOMAIN seen /\ Planned(k, contents, seen[k])

PlanInv == Plans(actions, srts, proposedFor)

LEMMA ProposedFits ==
    ASSUME NEW contents, NEW children, NEW windows, NEW clips,
           Len(contents) \in DOMAIN contents,
           NEW type \in Proposed(Findings(contents, children, windows, clips))
    PROVE  Planned(<<type, Len(contents)>>, contents, Latest(clips))
<1> DEFINE cues == contents[Len(contents)].content
           media == Latest(clips)
           codes == SrtCodes(cues, media)
           child == IF NeedsTtml /\ Len(contents) \notin children THEN {"TTML_REQUIRED"} ELSE {}
           timed == RightsFindings(Latest(windows), now)
           found == Findings(contents, children, windows, clips)
<1>1. found = codes \cup child \cup timed
  BY DEF Findings, Latest, media
<1>2. codes \cap ({"TTML_REQUIRED"} \cup RightsBlockers \cup Warnings) = {}
  BY DEF SrtCodes, CueCodes, RightsBlockers, Warnings
<1>3. timed \subseteq RightsBlockers \cup Warnings /\ child \subseteq {"TTML_REQUIRED"}
  BY DEF RightsFindings, RightsBlockers, Warnings
<1> HIDE DEF media, codes, child, timed, found
<1>4. SourceBlockers(found) = codes
  BY <1>1, <1>2, <1>3 DEF SourceBlockers, Blockers
<1>5. CASE type = "REPAIR_SUBTITLE"
  <2>1. codes # {} /\ codes \subseteq RepairableCodes
    BY <1>4, <1>5 DEF Proposed, found
  <2>2. cues # << >>
    <3>1. SrtCodes(<< >>, media) = {}
      BY DEF SrtCodes, Parses
    <3>2. QED
      BY <2>1, <3>1 DEF codes
  <2>3. Repairable(cues, media)
    BY <2>1, <2>2 DEF Repairable, Valid, codes
  <2>4. QED
    BY <1>5, <2>3 DEF Planned, media
<1>6. CASE type = "GENERATE_TTML"
  <2>1. codes = {}
    BY <1>4, <1>6 DEF Proposed, found
  <2>2. Valid(cues, media)
    BY <2>1 DEF Valid, codes
  <2>3. QED
    BY <1>6, <2>2 DEF Planned, media
<1>7. QED
  BY <1>5, <1>6, ProposedParts DEF found

LEMMA PlansStay ==
    ASSUME Grows, NEW f, NEW seen, Plans(f, srts, seen)
    PROVE  Plans(f, srts', seen)
BY DEF Grows, Plans, Planned

\* A run proposes what is possible, and makes no proposal fail.
LEMMA EvaluatePlans ==
    ASSUME Len(srts') \in DOMAIN srts', NEW done, Plans(done, srts', proposedFor), Evaluate(done)
    PROVE  /\ PlanInv'
           /\ \A k \in DOMAIN done : actions'[k] = done[k]
<1>1. ASSUME NEW type \in Proposed(Findings(srts', ttmls', rights', videos')),
             AwaitRemediation(done, <<type, Len(srts')>>)
      PROVE  PlanInv' /\ \A k \in DOMAIN done : actions'[k] = done[k]
  <2>1. Planned(<<type, Len(srts')>>, srts', Latest(videos'))
    <3>1. PICK contents, children, windows, clips :
            contents = srts' /\ children = ttmls' /\ windows = rights' /\ clips = videos'
      OBVIOUS
    <3>2. QED
      BY <3>1, ProposedFits
  <2>2. PICK key : key = <<type, Len(srts')>>
    OBVIOUS
  <2>3. /\ actions' = Ensured(done, key, "PROPOSED")
        /\ proposedFor' = With(proposedFor, key, Latest(videos'))
    BY <1>1, <2>2 DEF AwaitRemediation
  <2>4. /\ DOMAIN actions' = DOMAIN done \cup {key}
        /\ key \notin DOMAIN done => actions'[key] = "PROPOSED"
        /\ \A k \in DOMAIN done : actions'[k] = done[k]
    BY <2>3 DEF Ensured, With
  <2>7. /\ DOMAIN proposedFor' = DOMAIN proposedFor \cup {key}
        /\ proposedFor'[key] = Latest(videos')
        /\ \A k \in DOMAIN proposedFor \ {key} : proposedFor'[k] = proposedFor[k]
    BY <2>3 DEF With
  <2>5. \A k \in DOMAIN actions' : actions'[k] = "PROPOSED" =>
            k \in DOMAIN proposedFor' /\ Planned(k, srts', proposedFor'[k])
    BY <2>1, <2>2, <2>4, <2>7 DEF Plans
  <2>6. QED
    BY <2>4, <2>5 DEF PlanInv, Plans
<1>2. ASSUME actions' = done, UNCHANGED proposedFor
      PROVE  PlanInv' /\ \A k \in DOMAIN done : actions'[k] = done[k]
  BY <1>2 DEF PlanInv, Plans
<1>3. QED
  BY <1>1, <1>2 DEF Evaluate, AwaitApproval

PlannedInv == IInv /\ ContentInv /\ PlanInv

LEMMA InitPlanned == Init => ContentInv /\ PlanInv
<1> SUFFICES ASSUME Init PROVE ContentInv /\ PlanInv
  OBVIOUS
<1>1. PICK c \in FirstSubtitles : srts = <<[content |-> c, parent |-> 0]>>
  BY DEF Init
<1>2. DOMAIN srts = {1} /\ srts[1].content = c
  BY <1>1, SingletonParts
<1>3. c \in Seq(SubtitleCue)
  BY SubtitlesAssumption DEF SubtitlesAssumption
<1>4. PlanInv
  BY DEF Init, NoFunction, PlanInv, Plans
<1>5. QED
  BY <1>2, <1>3, <1>4 DEF ContentInv

\* One more subtitle.
LEMMA AppendKeeps ==
    ASSUME PlannedInv, NEW asset, asset.content \in Seq(SubtitleCue),
           srts' = Append(srts, asset), UNCHANGED <<now, rights, videos>>
    PROVE  /\ ContentInv' /\ Grows
           /\ Len(srts') = Len(srts) + 1 /\ Len(srts') \in DOMAIN srts'
<1>1. IsSeq(srts) /\ Len(srts) \in Nat
  BY SeqParts DEF PlannedInv, IInv, AssetInv, AssetsOK
<1>2. /\ Len(srts') = Len(srts) + 1
      /\ DOMAIN srts' = DOMAIN srts \cup {Len(srts) + 1}
      /\ \A i \in DOMAIN srts : srts'[i] = srts[i]
      /\ srts'[Len(srts) + 1] = asset
  BY <1>1, AppendParts
<1>3. QED
  BY <1>2, ClockParts DEF PlannedInv, ContentInv, Grows

LEMMA UploadPlanned ==
    ASSUME PlannedInv, NEW content \in NewSubtitles, UploadSubtitle(content)
    PROVE  ContentInv' /\ PlanInv'
<1>1. PICK asset : asset = [content |-> content, parent |-> 0]
  OBVIOUS
<1>2. srts' = Append(srts, asset) /\ UNCHANGED <<now, rights, videos, actions, proposedFor>>
  BY <1>1 DEF UploadSubtitle
<1>3. asset.content \in Seq(SubtitleCue)
  BY <1>1, SubtitlesAssumption DEF SubtitlesAssumption
<1>4. ContentInv' /\ Grows
  BY <1>2, <1>3, AppendKeeps
<1>5. PlanInv'
  BY <1>2, <1>4, PlansStay DEF PlannedInv, PlanInv
<1>6. QED
  BY <1>4, <1>5

\* The options of a repair are those of a video.
LEMMA LatestIsMedia ==
    ASSUME IInv
    PROVE  IsMedia(Latest(videos))
<1>1. Len(videos) \in DOMAIN videos
  BY SeqParts DEF IInv, AssetInv, AssetsOK
<1>2. QED
  BY <1>1, VideosAssumption DEF VideosAssumption, Latest, IInv, AssetInv, AssetsOK

\* What a run after a repair or a package starts from.
LEMMA ExecutePlanned ==
    ASSUME PlannedInv, NEW k \in DOMAIN actions, ExecuteAction(k[1], k[2])
    PROVE  /\ ContentInv' /\ PlanInv'
           /\ \A l \in DOMAIN actions : actions[l] = "PROPOSED" => actions'[l] # "FAILED"
<1>1. k \in RemediationKeys /\ k = <<k[1], k[2]>>
  BY DEF PlannedInv, IInv, ActionInv, ActionsOK, RemediationKeys
<1>2. PICK done : done = With(actions, k, "COMPLETED")
  OBVIOUS
<1>3. /\ k[2] = Len(srts) /\ UNCHANGED <<now, rights, videos>> /\ Evaluate(done)
  BY <1>1, <1>2 DEF ExecuteAction, Derivable
<1>4. Len(srts) \in DOMAIN srts
  BY SeqParts DEF PlannedInv, IInv, AssetInv, AssetsOK
<1>5. ContentInv' /\ Grows /\ Len(srts') \in DOMAIN srts'
  <2>1. CASE k[1] = "GENERATE_TTML"
    <3>1. srts' = srts
      BY <2>1 DEF ExecuteAction
    <3>2. QED
      BY <1>3, <1>4, <3>1, ClockParts DEF PlannedInv, ContentInv, Grows
  <2>2. CASE k[1] = "REPAIR_SUBTITLE"
    <3>1. PICK cues : cues = srts[Len(srts)].content
      OBVIOUS
    <3>2. PICK asset : asset = [content |-> RepairedSrt(cues, Latest(videos)), parent |-> k[2]]
      OBVIOUS
    <3>3. srts' = Append(srts, asset)
      BY <1>3, <2>2, <3>1, <3>2 DEF ExecuteAction
    <3>4. cues \in Seq(SubtitleCue)
      BY <1>4, <3>1 DEF PlannedInv, ContentInv
    <3>5. asset.content \in Seq(SubtitleCue)
      BY <3>2, <3>4, LatestIsMedia, RepairSafe DEF PlannedInv
    <3>6. QED
      BY <1>3, <3>3, <3>5, AppendKeeps
  <2>3. QED
    BY <1>1, <2>1, <2>2 DEF RemediationKeys
<1>6. /\ DOMAIN done = DOMAIN actions /\ done[k] = "COMPLETED"
      /\ \A l \in DOMAIN actions \ {k} : done[l] = actions[l]
  BY <1>2 DEF With
<1>7. Plans(done, srts', proposedFor)
  <2>1. Plans(done, srts, proposedFor)
    BY <1>6 DEF PlannedInv, PlanInv, Plans
  <2>2. QED
    BY <1>5, <2>1, PlansStay
<1>8. PlanInv' /\ \A l \in DOMAIN done : actions'[l] = done[l]
  BY <1>3, <1>5, <1>7, EvaluatePlans
<1>9. QED
  BY <1>5, <1>6, <1>8

LEMMA RunPlanned ==
    ASSUME PlannedInv, Run
    PROVE  /\ ContentInv' /\ PlanInv'
           /\ \A l \in DOMAIN actions : actions[l] = "PROPOSED" => actions'[l] # "FAILED"
<1>1. UNCHANGED srts /\ Evaluate(actions)
  BY DEF Run, assets
<1>2. Len(srts') \in DOMAIN srts'
  BY <1>1, SeqParts DEF PlannedInv, IInv, AssetInv, AssetsOK
<1>3. PICK done : done = actions
  OBVIOUS
<1>4. Plans(done, srts', proposedFor)
  BY <1>1, <1>3 DEF PlannedInv, PlanInv
<1>5. PlanInv' /\ \A l \in DOMAIN done : actions'[l] = done[l]
  BY <1>1, <1>2, <1>3, <1>4, EvaluatePlans
<1>6. ContentInv'
  BY <1>1 DEF PlannedInv, ContentInv
<1>7. QED
  BY <1>3, <1>5, <1>6

\* A proposal that fails is old, or for another video, or too late, or has no
\* room.
LEMMA ExecuteFailsPlanned ==
    ASSUME PlannedInv, NEW k \in DOMAIN actions, ExecuteFails(k[1], k[2])
    PROVE  /\ ContentInv' /\ PlanInv'
           /\ \A l \in DOMAIN actions :
                actions[l] = "PROPOSED" /\ actions'[l] = "FAILED" =>
                    \/ l[2] # Len(srts)
                    \/ Latest(videos) # proposedFor[l]
                    \/ state \notin AssetMutableStates
                    \/ l[1] = "REPAIR_SUBTITLE" /\ ~ Roomy(srts[l[2]].content, Latest(videos))
<1>1. k \in RemediationKeys /\ k = <<k[1], k[2]>>
  BY DEF PlannedInv, IInv, ActionInv, ActionsOK, RemediationKeys
<1>2. /\ actions[k] = "PROPOSED" /\ ~ Derivable(k[1], k[2])
      /\ actions' = With(actions, k, "FAILED") /\ UNCHANGED <<srts, proposedFor>>
  BY <1>1 DEF ExecuteFails, assets
<1>3. /\ DOMAIN actions' = DOMAIN actions /\ actions'[k] = "FAILED"
      /\ \A l \in DOMAIN actions \ {k} : actions'[l] = actions[l]
  BY <1>2 DEF With
<1>4. ContentInv' /\ PlanInv'
  BY <1>2, <1>3 DEF PlannedInv, ContentInv, PlanInv, Plans
<1>5. ASSUME k[2] = Len(srts), Latest(videos) = proposedFor[k], state \in AssetMutableStates
      PROVE  k[1] = "REPAIR_SUBTITLE" /\ ~ Roomy(srts[k[2]].content, Latest(videos))
  <2>1. PICK cues, media : cues = srts[k[2]].content /\ media = Latest(videos)
    OBVIOUS
  <2>8. IsMedia(media)
    BY <2>1, LatestIsMedia DEF PlannedInv
  <2>2. k[1] \in {"REPAIR_SUBTITLE", "GENERATE_TTML"}
    BY <1>1 DEF RemediationKeys
  <2>3. /\ k[1] = "GENERATE_TTML" => Valid(cues, media)
        /\ k[1] = "REPAIR_SUBTITLE" => Repairable(cues, media)
        /\ cues \in Seq(SubtitleCue)
    BY <1>2, <1>5, <2>1 DEF PlannedInv, ContentInv, PlanInv, Plans, Planned
  <2>4. ~ IF k[1] = "GENERATE_TTML" THEN Valid(cues, media)
          ELSE RepairedSrt(cues, media) # cues /\ Valid(RepairedSrt(cues, media), media)
    BY <1>2, <1>5, <2>1 DEF Derivable
  <2>5. k[1] = "REPAIR_SUBTITLE"
    BY <2>2, <2>3, <2>4
  <2>6. ~ Roomy(cues, media)
    BY <2>3, <2>4, <2>5, <2>8, RoomyRepairs
  <2>7. QED
    BY <2>1, <2>5, <2>6
<1>6. QED
  BY <1>3, <1>4, <1>5

LEMMA PlannedStep ==
    ASSUME PlannedInv, [Next]_vars
    PROVE  /\ ContentInv' /\ PlanInv'
           /\ \A k \in DOMAIN actions :
                actions[k] = "PROPOSED" /\ actions'[k] = "FAILED" =>
                    \/ k[2] # Len(srts)
                    \/ Latest(videos) # proposedFor[k]
                    \/ state \notin AssetMutableStates
                    \/ k[1] = "REPAIR_SUBTITLE" /\ ~ Roomy(srts[k[2]].content, Latest(videos))
<1>1. ASSUME UNCHANGED <<srts, actions, proposedFor>>
      PROVE  /\ ContentInv' /\ PlanInv'
             /\ \A k \in DOMAIN actions : actions[k] = "PROPOSED" => actions'[k] # "FAILED"
  BY <1>1 DEF PlannedInv, ContentInv, PlanInv
<1>2. CASE \/ Tick \/ Validate \/ UNCHANGED vars
           \/ \E window \in NewWindows : UploadRights(window)
           \/ \E media \in NewVideos : UploadVideo(media)
  <2>1. UNCHANGED <<srts, actions, proposedFor>>
    BY <1>2 DEF Tick, Validate, vars, assets, UploadRights, UploadVideo
  <2>2. QED
    BY <1>1, <2>1
<1>3. CASE \E key \in DOMAIN submissions : Approve(key) \/ Reject(key) \/ Submit(key) \/ Reconcile(key)
  <2>1. UNCHANGED <<srts, actions, proposedFor>>
    BY <1>3 DEF Approve, Reject, Submit, Reconcile, assets
  <2>2. QED
    BY <1>1, <2>1
<1>4. CASE Run
  BY <1>4, RunPlanned
<1>5. CASE \E content \in NewSubtitles : UploadSubtitle(content)
  <2>1. PICK content \in NewSubtitles : UploadSubtitle(content)
    BY <1>5
  <2>2. UNCHANGED <<actions, proposedFor>>
    BY <2>1 DEF UploadSubtitle
  <2>3. QED
    BY <2>1, <2>2, UploadPlanned
<1>6. CASE \E k \in DOMAIN actions : ExecuteAction(k[1], k[2])
  BY <1>6, ExecutePlanned
<1>7. CASE \E k \in DOMAIN actions : ExecuteFails(k[1], k[2])
  BY <1>7, ExecuteFailsPlanned
<1>8. QED
  BY <1>2, <1>3, <1>4, <1>5, <1>6, <1>7 DEF Next

-----------------------------------------------------------------------------
(* Theorems                                                                *)

LEMMA InitIInv == Init => IInv
<1> SUFFICES ASSUME Init PROVE IInv
  OBVIOUS
<1>1. PICK c \in FirstSubtitles : srts = <<[content |-> c, parent |-> 0]>>
  BY DEF Init
<1>2. PICK w \in Windows, media \in Videos : rights = <<w>> /\ videos = <<media>>
  BY DEF Init, Windows, Videos
<1>3. /\ IsSeq(srts) /\ Len(srts) = 1 /\ DOMAIN srts = {1} /\ srts[1].parent = 0
      /\ IsSeq(rights) /\ Len(rights) = 1 /\ DOMAIN rights = {1} /\ rights[1] = w
      /\ IsSeq(videos) /\ Len(videos) = 1 /\ DOMAIN videos = {1} /\ videos[1] = media
  BY <1>1, <1>2, SingletonParts
<1>4. AssetInv
  <2>1. Len(srts) \in 1 .. MaxAssets /\ Len(videos) \in 1 .. MaxVideos
    BY <1>3, BoundsAssumption DEF BoundsAssumption
  <2>2. ttmls = {}
    BY DEF Init
  <2>3. QED
    BY <1>3, <2>1, <2>2 DEF AssetInv, AssetsOK
<1>5. ActionInv /\ SubmissionInv
  BY DEF Init, NoFunction, ActionInv, ActionsOK, SubmissionInv
<1>6. SentInv
  BY DEF Init, SentInv, IsSeq
<1>7. now \in 0 .. MaxTime /\ state \in ReleaseStates
  BY BoundsAssumption DEF BoundsAssumption, Init, ReleaseStates
<1>8. QED
  BY <1>4, <1>5, <1>6, <1>7 DEF IInv

LEMMA Inductive == IInv /\ [Next]_vars => IInv'
BY RunStep, QuietStep, UploadSubtitleStep, UploadRightsStep, UploadVideoStep, ExecuteStep,
   ExecuteFailsStep, ApproveStep, RejectStep, SubmitStep, ReconcileStep DEF Next, Windows, Videos

LEMMA IInvType == IInv => TypeOK
<1> SUFFICES ASSUME IInv PROVE TypeOK
  OBVIOUS
<1>1. /\ Len(srts) <= MaxAssets
      /\ \A i \in DOMAIN srts : srts[i].parent \in 0 .. (i - 1)
      /\ ttmls \subseteq DOMAIN srts
      /\ \A i \in DOMAIN rights : rights[i] \in Windows
      /\ Len(videos) <= MaxVideos /\ \A i \in DOMAIN videos : videos[i] \in Videos
  BY ClockParts DEF IInv, AssetInv, AssetsOK
<1>2. /\ DOMAIN submissions \subseteq Manifests \X {"R2", "R3"}
      /\ \A k \in DOMAIN submissions : submissions[k] \in Submission
  BY DEF IInv, SubmissionInv, KeyOK, RowOK
<1>3. QED
  BY <1>1, <1>2 DEF IInv, ActionInv, ActionsOK, TypeOK

LEMMA IInvSent == IInv => SentIsFit
<1> SUFFICES ASSUME IInv, NEW i \in DOMAIN sent
             PROVE  LET manifest == sent[i].key[1]
                        window == rights[manifest.rights]
                    IN  /\ Valid(srts[manifest.srts].content, videos[manifest.videos])
                        /\ NeedsTtml => manifest.srts \in manifest.ttmls
                        /\ window.validFrom <= sent[i].at /\ sent[i].at < window.validUntil
                        /\ window.validUntil - sent[i].at <= WarningWindow =>
                               submissions[sent[i].key].approvals = 2
  BY DEF SentIsFit
<1>1. SentOK(sent[i])
  BY DEF IInv, SentInv
<1>2. sent[i].key[2] = "R3" => submissions[sent[i].key].approvals = 2
  BY <1>1, RowParts DEF SentOK, RowOK, RequiredApprovals
<1>3. QED
  BY <1>1, <1>2 DEF SentOK, FitAt

\* A manifest that asked for two approvals once still does.
LEMMA NoEscapeStep ==
    ASSUME IInv, [Next]_vars, NEW i \in DOMAIN sent' \ DOMAIN sent, sent'[i].key[2] = "R2"
    PROVE  <<Manifest, "R3">> \notin DOMAIN submissions
<1>1. PICK key \in DOMAIN submissions : Sends(key)
  <2>1. sent' # sent
    OBVIOUS
  <2>2. PICK key \in DOMAIN submissions : Submit(key)
    BY <2>1 DEF Next, vars, Tick, Run, Validate, UploadSubtitle, UploadRights, UploadVideo,
                ExecuteAction, ExecuteFails, Approve, Reject, Reconcile
  <2>3. QED
    BY <2>1, <2>2, SubmitParts
<1>2. FitAt(key, now) /\ key[1] = Manifest
  BY <1>1, PreflightFits DEF Sends
<1>3. sent'[i].key = key
  <2>1. IsSeq(sent) /\ sent' = Append(sent, [key |-> key, at |-> now])
    BY <1>1 DEF Sends, IInv, SentInv
  <2>2. DOMAIN sent' = DOMAIN sent \cup {Len(sent) + 1}
        /\ sent'[Len(sent) + 1] = [key |-> key, at |-> now]
    BY <2>1, AppendParts
  <2>3. QED
    BY <2>2
<1>4. ASSUME <<Manifest, "R3">> \in DOMAIN submissions PROVE FALSE
  <2>1. rights[Manifest.rights].validUntil - now <= WarningWindow
    BY <1>4, RowParts DEF KeyOK
  <2>2. key[2] = "R3"
    BY <1>2, <2>1 DEF FitAt
  <2>3. QED
    BY <1>3, <2>2
<1>5. QED
  BY <1>4

\* The invariant holds in every reachable state.
THEOREM Invariance == Spec => []IInv
BY InitIInv, Inductive, PTL DEF Spec

\* The variables keep their types: in particular a derived subtitle has an
\* earlier one as its parent, and no submission names more than there is.
THEOREM TypeCorrect == Spec => []TypeOK
BY Invariance, IInvType, PTL

\* Whatever is uploaded, repaired, rejected, run or retried before, and however
\* long the approvals took: what the provider gets is a valid subtitle with its
\* package, inside its rights window, with the approvals it asks for by then.
THEOREM OnlyFitIsSent == Spec => []SentIsFit
BY Invariance, IInvSent, PTL

\* A submission with one approval is not sent beside one of the same assets
\* that asks for two.
THEOREM NoEscapeFromTwoApprovals == Spec => OneApprovalNoMore
<1>1. IInv /\ [Next]_vars =>
        [\A i \in DOMAIN sent' \ DOMAIN sent :
            sent'[i].key[2] = "R2" => <<Manifest, "R3">> \notin DOMAIN submissions]_vars
  BY NoEscapeStep
<1>2. QED
  BY <1>1, Invariance, PTL DEF Spec, OneApprovalNoMore

LEMMA InitPlannedInv == Init => PlannedInv
BY InitIInv, InitPlanned DEF PlannedInv

LEMMA PlannedInductive == PlannedInv /\ [Next]_vars => PlannedInv'
BY Inductive, PlannedStep DEF PlannedInv

LEMMA PlannedIsSafe == PlannedInv => RepairIsSafe
<1> SUFFICES ASSUME PlannedInv PROVE RepairIsSafe
  OBVIOUS
<1>1. Len(srts) \in DOMAIN srts
  BY SeqParts DEF PlannedInv, IInv, AssetInv, AssetsOK
<1>2. PICK cues, media : cues = Latest(srts).content /\ media = Latest(videos)
  OBVIOUS
<1>3. cues \in Seq(SubtitleCue)
  BY <1>1, <1>2 DEF PlannedInv, ContentInv, Latest
<1>4. IsMedia(media)
  BY <1>2, LatestIsMedia DEF PlannedInv
<1>5. QED
  BY <1>2, <1>3, <1>4, RepairSafe DEF RepairIsSafe

\* Subtitles stay sequences of cues, and every open proposal is one that
\* planningNode would still make of the subtitle it names and the video it was
\* made for.
THEOREM ProposalsStayPlanned == Spec => []PlannedInv
BY InitPlannedInv, PlannedInductive, PTL DEF Spec

\* repairSrt of any subtitle that it accepts, with any limits, media and number
\* of cues, introduces no defect it does not handle, delays no cue and shortens
\* one only when it is too long.
THEOREM RepairsAreSafe == Spec => []RepairIsSafe
BY ProposalsStayPlanned, PlannedIsSafe, PTL

\* What planningNode proposes, executeAction can do unless a newer subtitle
\* or another video came, the release is frozen or a cue has no room: in
\* particular a repair with room leaves a valid subtitle.
THEOREM ProposalsAreExecutable == Spec => ProposalsExecute
<1>1. PlannedInv /\ [Next]_vars =>
        [\A k \in DOMAIN actions :
            actions[k] = "PROPOSED" /\ actions'[k] = "FAILED" =>
                \/ k[2] # Len(srts)
                \/ Latest(videos) # proposedFor[k]
                \/ state \notin AssetMutableStates
                \/ k[1] = "REPAIR_SUBTITLE" /\ ~ Roomy(srts[k[2]].content, Latest(videos))]_vars
  BY PlannedStep
<1>2. QED
  BY <1>1, ProposalsStayPlanned, PTL DEF Spec, ProposalsExecute
=============================================================================
