------------------------------- MODULE RectMerger -------------------------------
(***************************************************************************)
(* RectMerger::merge, src/src/diff/rect_merger.cpp: the dirty rectangles   *)
(* of a frame reduced to a few.  HostSession's encode thread calls it with *)
(* what the difference detector found.                                     *)
(*                                                                         *)
(* The two loops of the code are the two phases of the state machine; a    *)
(* step is one pass that unites two rectangles and erases the second.      *)
(***************************************************************************)
EXTENDS Integers, Sequences, SequencesExt

CONSTANTS
    Rects,          \* rectangles that may be dirty: x, y, width, height
    MaxDirty,       \* bound: how many there are
    Limits          \* maxRects: 8 in the code

ASSUME RectsAssumption ==
    /\ \A r \in Rects : {r.x, r.y} \subseteq Int /\ {r.width, r.height} \subseteq Nat
    /\ MaxDirty \in Nat /\ Limits \subseteq Nat \ {0}

VARIABLES
    merging,        \* "overlapping" (first pass), "reducing", "done"
    dirty, limit,   \* the arguments
    working         \* `result` of mergeOverlapping(), then `working`

mergeVars == <<merging, dirty, limit, working>>

---------------------------------------------------------------------------
(* Rect, src/src/core/types.h.                                             *)

Right(r) == r.x + r.width
Bottom(r) == r.y + r.height
IsEmpty(r) == r.width <= 0 \/ r.height <= 0
Area(r) == r.width * r.height

Smaller(a, b) == IF a <= b THEN a ELSE b
Larger(a, b) == IF a >= b THEN a ELSE b

\* united(): the bounding rectangle.
United(a, b) ==
    LET left == Smaller(a.x, b.x)
        top == Smaller(a.y, b.y)
    IN [x |-> left, y |-> top,
        width |-> Larger(Right(a), Right(b)) - left,
        height |-> Larger(Bottom(a), Bottom(b)) - top]

\* The `touches` lambda: they overlap or share an edge or a corner.
Touches(a, b) ==
    /\ a.x <= Right(b) /\ Right(a) >= b.x
    /\ a.y <= Bottom(b) /\ Bottom(a) >= b.y

---------------------------------------------------------------------------
Pairs == {p \in (DOMAIN working) \X (DOMAIN working) : p[1] < p[2]}

\* The order of the nested loops.
Earlier(p, q) == p[1] < q[1] \/ (p[1] = q[1] /\ p[2] < q[2])

\* Mutant: the union is made, and the wrong one of the two erased.
WithUnionErased(p) ==
    RemoveAt([working EXCEPT ![p[1]] = United(@, working[p[2]])], p[1])

\* working[i] = working[i].united(working[j]); erase j.
WithUnion(p) ==
    RemoveAt([working EXCEPT ![p[1]] = United(@, working[p[2]])], p[2])

Overlapping == {p \in Pairs : Touches(working[p[1]], working[p[2]])}

\* The first pair that touches is united and both loops start over.
MergeOverlapping ==
    /\ merging = "overlapping" /\ Overlapping # {}
    /\ \E p \in Overlapping :
          /\ \A q \in Overlapping \ {p} : Earlier(p, q)
          /\ working' = WithUnion(p)
    /\ UNCHANGED <<merging, dirty, limit>>

OverlappingDone ==
    /\ merging = "overlapping" /\ Overlapping = {}
    /\ merging' = "reducing"
    /\ UNCHANGED <<dirty, limit, working>>

Waste(p) ==
    LET a == working[p[1]]
        b == working[p[2]]
    IN Area(United(a, b)) - Area(a) - Area(b)

\* findBestMergePair(): the least waste, the first of equals.
IsBest(p) ==
    \A q \in Pairs \ {p} :
        Waste(p) < Waste(q) \/ (Waste(p) = Waste(q) /\ Earlier(p, q))

Reduce ==
    /\ merging = "reducing" /\ Len(working) > limit
    /\ \E p \in Pairs : IsBest(p) /\ working' = WithUnion(p)
    /\ UNCHANGED <<merging, dirty, limit>>

ReduceDone ==
    /\ merging = "reducing" /\ Len(working) <= limit
    /\ merging' = "done"
    /\ UNCHANGED <<dirty, limit, working>>

---------------------------------------------------------------------------
\* "Copy non-empty rects": what result holds after the first n of them.
Kept(rects) ==
    LET after[n \in 0..Len(rects)] ==
            IF n = 0 THEN <<>>
            ELSE IF IsEmpty(rects[n]) THEN after[n - 1]
            ELSE Append(after[n - 1], rects[n])
    IN after

MergeInit ==
    /\ merging = "overlapping"
    /\ dirty \in UNION {[1..n -> Rects] : n \in 0..MaxDirty}
    /\ limit \in Limits
    /\ working = Kept(dirty)[Len(dirty)]

MergeNext == MergeOverlapping \/ OverlappingDone \/ Reduce \/ ReduceDone

MergeSpec == MergeInit /\ [][MergeNext]_mergeVars

---------------------------------------------------------------------------
(* Properties.                                                             *)

Inside(r, s) ==
    /\ s.x <= r.x /\ Right(r) <= Right(s)
    /\ s.y <= r.y /\ Bottom(r) <= Bottom(s)

\* "Returns at most maxRects rectangles covering all input rects": no dirty
\* rectangle is lost on the way, whichever pairs are united, and the result has
\* no more than it may.
MergedCovers ==
    /\ \A i \in DOMAIN dirty : ~IsEmpty(dirty[i]) =>
          \E k \in DOMAIN working : Inside(dirty[i], working[k])
    /\ merging = "done" => Len(working) <= limit

=============================================================================
