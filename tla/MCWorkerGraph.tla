--------------------------- MODULE MCWorkerGraph ---------------------------
(* An instance of WorkerGraph for TLC.                                     *)
EXTENDS WorkerGraph, TLC

CONSTANTS i1, i2

Command(release, platform, track) ==
    [releaseId |-> release, platform |-> platform, track |-> track]

\* Two releases that use the same input version: a series on an OTT service,
\* with subtitles that read too fast and rights about to expire, and a video
\* with nothing to complain of.  The video is started from a second input too,
\* with other subtitles and the same version.
MCStartInputs ==
    {[releaseId |-> "series", inputVersion |-> "1", currentSrt |-> "fast", rights |-> "soon",
      deliveryCommand |-> Command("series", "OTT", "none")],
     [releaseId |-> "video", inputVersion |-> "1", currentSrt |-> "good", rights |-> "open",
      deliveryCommand |-> Command("video", "YOUTUBE", "english")],
     [releaseId |-> "video", inputVersion |-> "1", currentSrt |-> "slowed", rights |-> "open",
      deliveryCommand |-> Command("video", "YOUTUBE", "english")]}

Update(srt, rights, remediation) ==
    [updatedSubtitleSrt |-> srt, updatedRights |-> rights, qcRemediation |-> remediation]

\* New subtitles that cannot be repaired or are good, or another caption track
\* after a QC failure.
MCUpdates ==
    {Update({"good"}, {}, {}), Update({"hopeless"}, {"open"}, {}),
     Update({}, {}, {[deliveryCommand |-> {Command("video", "YOUTUBE", "revised")}]})}

MCSubtitleFindings ==
    [srt \in {"good", "fast", "slowed", "hopeless"} |->
        IF srt \in {"fast", "hopeless"} THEN {"SUBTITLE_CPS_EXCEEDED"} ELSE {}]

MCRightsFindings ==
    [rights \in {"open", "soon"} |->
        IF rights = "soon" THEN {"RIGHTS_EXPIRING_SOON"} ELSE {}]

MCRepairSrt ==
    [srt \in {"good", "fast", "slowed", "hopeless"} |->
        IF srt = "fast" THEN "slowed" ELSE srt]

Interchangeable == Permutations({i1, i2} \cap Invocations)
=============================================================================
