----------------------------- MODULE Subtitles -----------------------------
(***************************************************************************)
(* Subtitle validation and timing repair (packages/qc, subtitle.ts and     *)
(* repair.ts) as functions of the cues of an SRT.  A content is the        *)
(* sequence of its cues; text is reduced to its number of visible          *)
(* characters, and a block that does not parse to a cue that does not end  *)
(* after it starts.  Byte order marks, line ends and the diff are left     *)
(* out, and so is the rounding of floating point.  The option              *)
(* mediaDurationMs is the parameter media, a set of at most one duration.  *)
(***************************************************************************)
EXTENDS Integers, Sequences

CONSTANTS
    Second,          \* units of time in a second
    MinDuration,     \* minDurationMs
    MaxDuration,     \* maxDurationMs
    CpsLimit         \* cpsLimits of the language

\* validateSrt throws a RangeError otherwise.
ASSUME LimitsAssumption ==
    /\ Second \in Nat \ {0} /\ CpsLimit \in Nat \ {0}
    /\ MinDuration \in Nat /\ MaxDuration \in Nat /\ MinDuration < MaxDuration

\* What may be known of the duration of a video.
IsMedia(media) == media \subseteq Nat /\ \A m, n \in media : m = n

\* What parseSrt makes of a block.
SubtitleCue == [index : Nat, startMs : Nat, endMs : Nat, characters : Nat]

RepairableCodes ==
    {"SUBTITLE_CPS_EXCEEDED", "SUBTITLE_DURATION_TOO_SHORT",
     "SUBTITLE_DURATION_TOO_LONG"}

Least(S) == CHOOSE m \in S : \A n \in S : m <= n
Greatest(S) == CHOOSE m \in S : \A n \in S : m >= n

Duration(cue) == cue.endMs - cue.startMs

-----------------------------------------------------------------------------
(* validateSrt                                                             *)

\* parseSrt does not throw.
Parses(cues) == \A i \in DOMAIN cues : cues[i].startMs < cues[i].endMs

TooFast(cue) == cue.characters * Second > CpsLimit * Duration(cue)

\* The codes found at cue i, in the order of their checks.
CueCodes(cues, i, media) ==
    LET cue == cues[i]
        Found(code, bad) == IF bad THEN {code} ELSE {}
    IN  Found("SUBTITLE_OVERLAP", i > 1 /\ cue.startMs < cues[i - 1].endMs)
        \cup Found("SUBTITLE_EMPTY", cue.characters = 0)
        \cup Found("SUBTITLE_CPS_EXCEEDED", TooFast(cue))
        \cup Found("SUBTITLE_DURATION_TOO_SHORT", Duration(cue) < MinDuration)
        \cup Found("SUBTITLE_DURATION_TOO_LONG", Duration(cue) > MaxDuration)
        \cup Found("SUBTITLE_AFTER_MEDIA_END", \E m \in media : cue.endMs > m)

\* The codes validateSrt reports.
SrtCodes(cues, media) ==
    IF Parses(cues) THEN UNION {CueCodes(cues, i, media) : i \in DOMAIN cues}
    ELSE {"SRT_INVALID"}

Valid(cues, media) == SrtCodes(cues, media) = {}

-----------------------------------------------------------------------------
(* repairSrt                                                               *)

Repairable(cues, media) ==
    cues # << >> /\ ~ Valid(cues, media) /\ SrtCodes(cues, media) \subseteq RepairableCodes

\* The CPS finding is looked up by the index written in the file, which need
\* not be unique: the first one counts.
CpsFinding(cues, i) ==
    LET hits == {j \in DOMAIN cues : cues[j].index = cues[i].index /\ TooFast(cues[j])}
    IN  IF hits = {} THEN {} ELSE {Least(hits)}

RoundedUp(a, b) == (a + b - 1) \div b

RequiredDuration(cues, i) ==
    Greatest({MinDuration} \cup
        {RoundedUp(cues[j].characters * Second, CpsLimit) : j \in CpsFinding(cues, i)})

TargetDuration(cues, i) == Least({RequiredDuration(cues, i), MaxDuration})

\* Seeded fault: only the media ends the room of a cue.
MediaOnly(cues, i, media) == media

\* Times cue i may not end after: the next cue, not yet repaired, and the media.
Ends(cues, i, media) ==
    media \cup (IF i < Len(cues) THEN {cues[i + 1].startMs} ELSE {})

\* Cue i, given the end of the repaired cue before it: shortened to the
\* longest duration, else made longer, first at its end and then, when that
\* does not do, at its start.
Retimed(cues, i, previousEnd, media) ==
    LET cue == cues[i]
        target == TargetDuration(cues, i)
        cut == Least({cue.endMs, cue.startMs + MaxDuration})
        end == Least({cue.startMs + target} \cup Ends(cues, i, media))
    IN  IF cut - cue.startMs >= target THEN [cue EXCEPT !.endMs = cut]
        ELSE IF end - cue.startMs >= target THEN [cue EXCEPT !.endMs = end]
        ELSE [cue EXCEPT !.startMs = Greatest({previousEnd, end - target}), !.endMs = end]

\* The cues one after the other, each after the repaired one before it.
RetimedCues(cues, media) ==
    LET repaired[i \in 0 .. Len(cues)] ==
            IF i = 0 THEN [endMs |-> 0] ELSE Retimed(cues, i, repaired[i - 1].endMs, media)
    IN  [i \in DOMAIN cues |-> repaired[i]]

\* serializeSrt numbers the cues anew.
Serialized(cues) == [i \in DOMAIN cues |-> [cues[i] EXCEPT !.index = i]]

RepairedSrt(cues, media) ==
    IF Repairable(cues, media) /\ RetimedCues(cues, media) # cues
    THEN Serialized(RetimedCues(cues, media)) ELSE cues
=============================================================================
