--------------------------- MODULE AdaptiveQuality ---------------------------
(***************************************************************************)
(* AdaptiveQuality, src/src/codec/adaptive_quality.cpp: the level of the   *)
(* resolution ladder that the host's encode thread steps after a number of *)
(* samples in a row.  A sample is what one call of update() makes of the   *)
(* encode time and the bitrate: the wish to go down, to go up, or neither. *)
(* Frame rate and bitrate do not influence the level.                      *)
(***************************************************************************)
EXTENDS Integers

CONSTANTS
    Levels,             \* kMaxLevels
    DownscaleFrames,    \* downscaleFrameCount
    UpscaleFrames       \* upscaleFrameCount

ASSUME LadderAssumption ==
    /\ Levels \in Nat \ {0}
    /\ DownscaleFrames \in Nat \ {0} /\ UpscaleFrames \in Nat \ {0}

VARIABLES
    quality,    \* currentLevel_, the two counters, resolutionChanged_
    streak      \* history: the latest wish and how many samples in a row,
                \* since the level last changed, have had it

Wishes == {"down", "up", "neither"}

Native == [level |-> 0, down |-> 0, up |-> 0, changed |-> FALSE]
NoStreak == [wish |-> "neither", count |-> 0]

QualityInit == quality = Native /\ streak = NoStreak

At(level) == [level |-> level, down |-> 0, up |-> 0, changed |-> TRUE]
Counting(q, down, up) ==
    [level |-> q.level, down |-> down, up |-> up, changed |-> FALSE]

\* Mutants: one level too many, one sample too few, a sample without a wish that
\* does not interrupt the others.
MayGoBelow(q) == q.level < Levels
DueEarly(q) == q.down + 1 >= DownscaleFrames - 1
Uninterrupted(q) == Counting(q, q.down, q.up)

MayGoDown(q) == q.level < Levels - 1
DownDue(q) == q.down + 1 >= DownscaleFrames
UpDue(q) == q.up + 1 >= UpscaleFrames
Interrupted(q) == Counting(q, 0, 0)

\* The state after update().
Updated(q, wish) ==
    CASE wish = "down" /\ MayGoDown(q) ->
            IF DownDue(q) THEN At(q.level + 1) ELSE Counting(q, q.down + 1, 0)
      [] wish = "up" /\ q.level > 0 ->
            IF UpDue(q) THEN At(q.level - 1) ELSE Counting(q, 0, q.up + 1)
      [] OTHER -> Interrupted(q)

\* The streak counts no further than any threshold.
CountCap == DownscaleFrames + UpscaleFrames

Longer(wish) ==
    IF wish # streak.wish THEN [wish |-> wish, count |-> 1]
    ELSE [streak EXCEPT !.count = IF @ < CountCap THEN @ + 1 ELSE @]

Update(wish) ==
    /\ quality' = Updated(quality, wish)
    /\ streak' = IF quality'.changed THEN NoStreak ELSE Longer(wish)

\* reset(), when the encoder cannot be set up for the new size.
Reset == quality' = Native /\ streak' = NoStreak

QualityNext == Reset \/ \E wish \in Wishes : Update(wish)

QualitySpec == QualityInit /\ [][QualityNext]_<<quality, streak>>

---------------------------------------------------------------------------
(* Properties.                                                             *)

\* The type invariant.
QualityTypeOK ==
    /\ quality \in [level : 0..(Levels - 1), down : 0..(DownscaleFrames - 1),
                    up : 0..(UpscaleFrames - 1), changed : BOOLEAN]
    /\ streak \in [wish : Wishes, count : 0..CountCap]

\* A step down or up is the answer to as many equal wishes in a row, none of
\* which has been counted for an earlier step: "the controller requires several
\* consecutive samples before changing level, preventing rapid oscillation".
StepDown ==
    /\ quality'.level = quality.level + 1
    /\ Longer("down").count >= DownscaleFrames
StepUp ==
    /\ quality'.level = quality.level - 1
    /\ Longer("up").count >= UpscaleFrames
Hysteresis ==
    [][quality'.level # quality.level => StepDown \/ StepUp \/ Reset]_<<quality, streak>>

\* Why it holds: a counter never runs ahead of the streak.
CountersTrail ==
    /\ quality.down > 0 => streak.wish = "down" /\ streak.count >= quality.down
    /\ quality.up > 0 => streak.wish = "up" /\ streak.count >= quality.up

QualityInv == QualityTypeOK /\ CountersTrail

=============================================================================
