--------------------------- MODULE MCReleaseCycle ---------------------------
(* An instance of ReleaseCycle for TLC. *)
EXTENDS ReleaseCycle, TLC

\* Bounds: the ends of the cues of a subtitle of one and of two cues; the
\* characters of a cue that is easily read and of one that cannot be within
\* the longest duration.
CONSTANTS Horizon, Nearer, Easy, Hard

Cue(index, startMs, endMs, characters) ==
    [index |-> index, startMs |-> startMs, endMs |-> endMs, characters |-> characters]

Cues(index, last, lengths) ==
    {c \in {Cue(index, s, e, n) : s \in 0 .. last, e \in 0 .. last, n \in lengths} :
        c.startMs < c.endMs}

\* The first cue of a pair may be hard to read, the last is a single cue too.
Pairs(index) ==
    {<<c, d>> : c \in Cues(1, Nearer, {Easy, Hard}), d \in Cues(index, Nearer, {Easy})}

\* The subtitles of one or two cues that may be repaired, and with the second
\* index doubled where the lookup by index may then find the other cue.
Subtitles1 == {<<c>> : c \in Cues(1, Horizon, {Easy}) \cup Cues(1, Nearer, {Hard})}
Subtitles2 == Pairs(2)
Doubled == {s \in Pairs(1) : TooFast(s[1]) # TooFast(s[2])}

\* A valid one, one that overlaps, one with an empty cue beside one that may
\* be repaired, one that does not parse.
Others ==
    {<<Cue(1, 0, 2, 1)>>, <<Cue(1, 0, 2, 1), Cue(2, 1, 3, 1)>>,
     <<Cue(1, 0, 1, 1), Cue(2, 2, 3, 0)>>, <<Cue(1, 1, 1, 1)>>}

First == {c \in Subtitles1 \cup Subtitles2 \cup Doubled : Repairable(c, {Horizon})} \cup Others

\* What a user uploads instead.
Corrected == {<<Cue(1, 0, 3, 1)>>}

\* The video it starts with, and a shorter one.
Long == {{Horizon}}
Shorter == {{Horizon - 1}}

\* A window that is near its end and ends within the clock, and one that has
\* not begun.
Now == {[validFrom |-> 0, validUntil |-> 2]}
Later == {[validFrom |-> 1, validUntil |-> 4]}
=============================================================================
