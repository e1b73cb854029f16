------------------------------ MODULE Perception ------------------------------
(* Perception::process (perception/Perception.cpp): one scan is filtered by    *)
(* angle, range and quality, sorted into the five sectors of the field of view, *)
(* and judged sector by sector.  One action is one turn of the loop over the    *)
(* points of a scan; the scan is chosen point by point while it is read, so     *)
(* every scan of at most MaxPoints of the given points is processed.            *)
(*                                                                             *)
(* Angles, ranges and qualities are integers: binary32 rounding is left out.    *)
EXTENDS Integers, Sequences, FiniteSets

CONSTANTS
    Scenes,              \* fields of view, each with the points that may be seen
    MaxDistance,         \* points beyond are ignored, millimetres
    MinQuality,          \* points below are ignored
    MinHits,             \* min_hits_per_sector
    MaxPoints            \* bound on the points of a scan

\* Bearings are whole degrees, a range of 0 is "no return".
Reports == [bearing : 0..359, range : Nat, quality : Nat]

ASSUME ScenesAssumption == Scenes \subseteq [min : Int, max : Int, points : SUBSET Reports]
ASSUME ThresholdsAssumption ==
    /\ MaxDistance \in Nat /\ MinQuality \in Nat /\ MinHits \in Nat
    /\ MaxPoints \in Nat

VARIABLES
    scene,     \* the field of view, fixed by the constructor, and what is in it
    returned,  \* process() has returned its result
    points,    \* the points of the scan read so far
    hits,      \* sector_hits
    sectors,   \* the five SectorResults
    counts     \* points left after each filter

vars == <<scene, returned, points, hits, sectors, counts>>

Sectors == 0..4
MinAngle == scene.min
MaxAngle == scene.max
Points == scene.points
NoObstacle == [obstacle |-> FALSE, nearest |-> -1, angle |-> 0]

TypeOK ==
    /\ scene \in Scenes
    /\ returned \in BOOLEAN
    /\ points \in Seq(Points) /\ Len(points) <= MaxPoints
    /\ hits \in [Sectors -> Nat]
    /\ sectors \in [Sectors -> [obstacle : BOOLEAN,
                                nearest : {-1} \cup 1..MaxDistance,
                                angle : {0} \cup MinAngle..MaxAngle]]
    /\ counts \in [angle : Nat, distance : Nat, quality : Nat]

----------------------------------------------------------------------------
(* One point                                                                *)

\* The bearing as the code compares it, in (-180, 180].
Normalised(a) == IF a > 180 THEN a - 360 ELSE a

InView(p) == LET a == Normalised(p.bearing) IN MinAngle <= a /\ a <= MaxAngle

HasReturn(p) == p.range > 0

InRange(p) == p.range <= MaxDistance
GoodQuality(p) == p.quality >= MinQuality

Span == MaxAngle - MinAngle

\* Mutant: sectors one degree off at their lower edge.
RoundsUp(a) ==
    IF Span = 0 THEN Sectors
    ELSE LET k == ((a - MinAngle) * 5 + Span - 1) \div Span
         IN  {IF k >= 5 THEN 4 ELSE k}

\* Truncation of relative_angle / sector_width, clamped.  With an empty span
\* the code converts 0/0 to int, which is undefined: any sector may come out.
SectorIndex(a) ==
    IF Span = 0 THEN Sectors
    ELSE LET k == ((a - MinAngle) * 5) \div Span
         IN  {IF k < 0 THEN 0 ELSE IF k >= 5 THEN 4 ELSE k}

\* Mutant: the initial -1 counts as a distance.
CloserOnly(p, r) == p.range < r.nearest

\* Whether p becomes the nearest point of its sector.
Closer(p, r) == p.range < r.nearest \/ r.nearest < 0

\* Mutant: one hit too many asked for.
OneHitMore(h) == h > MinHits

\* "Only declare obstacle after enough hits".
Enough(h) == h >= MinHits

----------------------------------------------------------------------------
(* The loop                                                                 *)

Init ==
    /\ scene \in Scenes
    /\ returned = FALSE /\ points = <<>>
    /\ hits = [s \in Sectors |-> 0]
    /\ sectors = [s \in Sectors |-> NoObstacle]
    /\ counts = [angle |-> 0, distance |-> 0, quality |-> 0]

Read(p) ==
    /\ ~returned /\ Len(points) < MaxPoints
    /\ points' = Append(points, p)
    /\ UNCHANGED <<scene, returned>>

NoReturn(p) ==
    /\ Read(p)
    /\ ~HasReturn(p)
    /\ UNCHANGED <<hits, sectors, counts>>

OutOfView(p) ==
    /\ Read(p)
    /\ HasReturn(p) /\ ~InView(p)
    /\ UNCHANGED <<hits, sectors, counts>>

\* What passing the angle filter does to the counters.
PassedAngle(c) == [c EXCEPT !.angle = @ + 1]

TooFar(p) ==
    /\ Read(p)
    /\ HasReturn(p) /\ InView(p) /\ ~InRange(p)
    /\ counts' = PassedAngle(counts)
    /\ UNCHANGED <<hits, sectors>>

LowQuality(p) ==
    /\ Read(p)
    /\ HasReturn(p) /\ InView(p) /\ InRange(p) /\ ~GoodQuality(p)
    /\ counts' = [PassedAngle(counts) EXCEPT !.distance = @ + 1]
    /\ UNCHANGED <<hits, sectors>>

\* The result of sector r after the h-th hit p in it.
Judged(r, p, h) ==
    [obstacle |-> r.obstacle \/ Enough(h),
     nearest  |-> IF Closer(p, r) THEN p.range ELSE r.nearest,
     angle    |-> IF Closer(p, r) THEN Normalised(p.bearing) ELSE r.angle]

Hit(p) ==
    /\ Read(p)
    /\ HasReturn(p) /\ InView(p) /\ InRange(p) /\ GoodQuality(p)
    /\ counts' = [PassedAngle(counts) EXCEPT !.distance = @ + 1, !.quality = @ + 1]
    /\ \E s \in SectorIndex(Normalised(p.bearing)) :
          /\ hits' = [hits EXCEPT ![s] = @ + 1]
          /\ sectors' = [sectors EXCEPT ![s] = Judged(@, p, hits'[s])]

Return ==
    /\ ~returned
    /\ returned' = TRUE
    /\ UNCHANGED <<scene, points, hits, sectors, counts>>

\* The hits a scan begins with.
FreshHits == [s \in Sectors |-> 0]

\* The next call of process(): every local is initialised again.
NextScan ==
    /\ returned
    /\ returned' = FALSE /\ points' = <<>>
    /\ hits' = FreshHits
    /\ sectors' = [s \in Sectors |-> NoObstacle]
    /\ counts' = [angle |-> 0, distance |-> 0, quality |-> 0]
    /\ UNCHANGED scene

Next ==
    \/ \E p \in Points :
          NoReturn(p) \/ OutOfView(p) \/ TooFar(p) \/ LowQuality(p) \/ Hit(p)
    \/ Return
    \/ NextScan

Spec == Init /\ [][Next]_vars

----------------------------------------------------------------------------
(* What a scan means, without the loop                                       *)

Indices(P(_)) == {i \in 1..Len(points) : P(points[i])}

\* The angles at which a bearing can be drawn.
Drawn(p) == {p.bearing, p.bearing - 360}

\* Sector s reaches from MinAngle + s fifths of the span to the next edge, the
\* last one including its upper edge.
Inside(p, s) ==
    \E a \in Drawn(p) :
        /\ MinAngle <= a /\ a <= MaxAngle
        /\ s * Span <= 5 * (a - MinAngle)
        /\ s = 4 \/ 5 * (a - MinAngle) < (s + 1) * Span

Seen(p) == p.range \in 1..MaxDistance /\ p.quality >= MinQuality

SeenIn(s) == LET P(p) == Seen(p) /\ Inside(p, s) IN Indices(P)

Needed == IF MinHits = 0 THEN 1 ELSE MinHits

----------------------------------------------------------------------------
(* Properties                                                               *)

\* A sector is declared to hold an obstacle exactly if enough points lie in it
\* that pass every filter, in whatever order the points arrive and whatever the
\* scan before this one held (Perception.cpp:58-80); for a field of view that
\* has a width.
VerdictIsExact ==
    Span > 0 => \A s \in Sectors : sectors[s].obstacle <=> Cardinality(SeenIn(s)) >= Needed

\* The nearest distance of a sector is the least of its points that pass every
\* filter, and the angle is that of such a point (Perception.cpp:72-75).
NearestIsExact ==
    Span > 0 => \A s \in Sectors :
        IF SeenIn(s) = {} THEN sectors[s] = NoObstacle
        ELSE /\ \A i \in SeenIn(s) : sectors[s].nearest <= points[i].range
             /\ \E i \in SeenIn(s) :
                   /\ points[i].range = sectors[s].nearest
                   /\ sectors[s].angle \in Drawn(points[i])

\* However an object is split over the sectors, and even where the width of a
\* sector is zero and the index undefined, more points than five sectors can
\* hold below the threshold are an obstacle (Perception.cpp:60-80).
DenseObjectFound ==
    counts.quality > 5 * (Needed - 1) => \E s \in Sectors : sectors[s].obstacle

\* Fewer points than the threshold are never an obstacle: single-point noise
\* does not brake (Perception.cpp:77, PerceptionConfig.hpp:27-28).
NoiseSuppressed ==
    (\E s \in Sectors : sectors[s].obstacle) => counts.quality >= Needed
================================================================================
