--------------------------- MODULE PerceptionProofs ---------------------------
(* Perception judges as promised for every field of view, also one of no       *)
(* width, and every threshold: what is reported is what was hit, nothing is     *)
(* declared below the threshold, and nothing dense is missed.                   *)
EXTENDS Perception, FiniteSetTheorems, TLAPS

Results == [obstacle : BOOLEAN,
            nearest : {-1} \cup 1..MaxDistance,
            angle : {0} \cup MinAngle..MaxAngle]

Types ==
    /\ scene \in Scenes
    /\ hits \in [Sectors -> Nat]
    /\ sectors \in [Sectors -> Results]

\* Every point that passes the filters is a hit of one sector.
EveryHitCounted ==
    /\ counts \in [angle : Nat, distance : Nat, quality : Nat]
    /\ counts.quality = hits[0] + hits[1] + hits[2] + hits[3] + hits[4]

\* The flag of a sector says whether its hits reached the threshold.
FlagsMatchHits == \A s \in Sectors : sectors[s].obstacle <=> hits[s] >= Needed

IInv == Types /\ EveryHitCounted /\ FlagsMatchHits

\* A field of view is two integers.
LEMMA ViewIsInt ==
    ASSUME scene \in Scenes
    PROVE  MinAngle \in Int /\ MaxAngle \in Int /\ Points \subseteq Reports
BY ScenesAssumption DEF MinAngle, MaxAngle, Points

\* A bearing in the field of view gets an index that is a sector.
LEMMA IndexIsSector ==
    ASSUME scene \in Scenes, NEW a \in MinAngle..MaxAngle PROVE SectorIndex(a) \subseteq Sectors
<1>1. CASE Span = 0
  BY <1>1 DEF SectorIndex
<1>2. CASE Span # 0
  <2> DEFINE k == ((a - MinAngle) * 5) \div Span
  <2>1. SectorIndex(a) = {IF k < 0 THEN 0 ELSE IF k >= 5 THEN 4 ELSE k}
    BY <1>2 DEF SectorIndex
  <2>2. Span \in Nat \ {0} /\ (a - MinAngle) * 5 \in Int
    BY <1>2, ViewIsInt DEF Span
  <2>3. k \in Int
    BY <2>2
  <2> HIDE DEF k
  <2> QED BY <2>1, <2>3 DEF Sectors
<1> QED BY <1>1, <1>2

LEMMA NeededIsPositive == Needed \in Nat \ {0} /\ \A h \in Nat \ {0} : Enough(h) <=> h >= Needed
BY ThresholdsAssumption DEF Needed, Enough

LEMMA InitInvariant == Init => IInv
<1> SUFFICES ASSUME Init PROVE IInv
  OBVIOUS
<1>1. NoObstacle \in Results
  BY DEF NoObstacle, Results
<1>2. Types
  BY <1>1 DEF Init, Types
<1>3. EveryHitCounted
  BY DEF Init, EveryHitCounted, Sectors
<1>4. FlagsMatchHits
  BY NeededIsPositive DEF Init, FlagsMatchHits, NoObstacle
<1> QED BY <1>2, <1>3, <1>4 DEF IInv

\* A hit raises one counter, and the flag of its sector when that reaches the
\* threshold.
LEMMA HitKeeps ==
    ASSUME IInv, NEW p \in Points, Hit(p) PROVE IInv'
<1>1. Normalised(p.bearing) \in MinAngle..MaxAngle
  BY ViewIsInt DEF Hit, InView, Normalised, Reports, IInv, Types
<1>2. PICK s \in SectorIndex(Normalised(p.bearing)) :
          /\ hits' = [hits EXCEPT ![s] = @ + 1]
          /\ sectors' = [sectors EXCEPT ![s] = Judged(@, p, hits'[s])]
  BY DEF Hit
<1>3. s \in Sectors
  BY <1>1, <1>2, IndexIsSector DEF IInv, Types
<1>4. p.range \in 1..MaxDistance
  BY ViewIsInt, ThresholdsAssumption DEF Hit, HasReturn, InRange, Reports, IInv, Types
<1>5. Types /\ hits[s] \in Nat /\ sectors[s] \in Results
  BY <1>3 DEF IInv, Types
<1>6. hits' \in [Sectors -> Nat] /\ hits'[s] = hits[s] + 1
  BY <1>2, <1>3, <1>5 DEF Types
<1>7. Judged(sectors[s], p, hits'[s]) \in Results
  <2>1. (sectors[s].obstacle \/ Enough(hits'[s])) \in BOOLEAN
    OBVIOUS
  <2>2. (IF Closer(p, sectors[s]) THEN p.range ELSE sectors[s].nearest) \in {-1} \cup 1..MaxDistance
    BY <1>4, <1>5 DEF Results
  <2>3. (IF Closer(p, sectors[s]) THEN Normalised(p.bearing) ELSE sectors[s].angle)
            \in {0} \cup MinAngle..MaxAngle
    BY <1>1, <1>5 DEF Results
  <2> QED BY <2>1, <2>2, <2>3 DEF Judged, Results
<1>8. Types'
  <2>1. scene' = scene /\ Results' = Results
    BY DEF Hit, Read, Results, MinAngle, MaxAngle
  <2>2. sectors' = [sectors EXCEPT ![s] = Judged(sectors[s], p, hits'[s])]
    BY <1>2
  <2>3. sectors' \in [Sectors -> Results]
    BY <2>2, <1>3, <1>5, <1>7 DEF Types
  <2> HIDE DEF Results
  <2> QED BY <2>1, <2>3, <1>5, <1>6 DEF Types
<1>9. EveryHitCounted'
  <2>1. counts' = [angle |-> counts.angle + 1, distance |-> counts.distance + 1,
                   quality |-> counts.quality + 1]
    BY DEF Hit, PassedAngle, IInv, EveryHitCounted
  <2>2. hits'[0] + hits'[1] + hits'[2] + hits'[3] + hits'[4]
            = hits[0] + hits[1] + hits[2] + hits[3] + hits[4] + 1
    BY <1>2, <1>3, <1>5 DEF Types, Sectors
  <2> QED BY <2>1, <2>2 DEF IInv, EveryHitCounted
<1>10. FlagsMatchHits'
  <2> SUFFICES ASSUME NEW t \in Sectors PROVE sectors'[t].obstacle <=> hits'[t] >= Needed
    BY DEF FlagsMatchHits
  <2>1. CASE t # s
    BY <2>1, <1>2, <1>5 DEF IInv, Types, FlagsMatchHits
  <2>2. CASE t = s
    <3>1. sectors'[s].obstacle <=> (sectors[s].obstacle \/ Enough(hits'[s]))
      BY <1>2, <1>3, <1>5 DEF Types, Judged
    <3>2. sectors[s].obstacle <=> hits[s] >= Needed
      BY <1>3 DEF IInv, FlagsMatchHits
    <3>3. Enough(hits'[s]) <=> hits'[s] >= Needed
      BY <1>5, <1>6, NeededIsPositive
    <3>4. hits[s] >= Needed => hits'[s] >= Needed
      BY <1>5, <1>6, NeededIsPositive
    <3> QED BY <2>2, <3>1, <3>2, <3>3, <3>4
  <2> QED BY <2>1, <2>2
<1> QED BY <1>8, <1>9, <1>10 DEF IInv

LEMMA StepInvariant == IInv /\ [Next]_vars => IInv'
<1> SUFFICES ASSUME IInv, [Next]_vars PROVE IInv'
  OBVIOUS
<1>1. ASSUME UNCHANGED <<scene, hits, sectors>>, counts'.quality = counts.quality,
             counts' \in [angle : Nat, distance : Nat, quality : Nat]
      PROVE  IInv'
  <2>1. Results' = Results
    BY <1>1 DEF Results, MinAngle, MaxAngle
  <2> QED BY <2>1, <1>1 DEF IInv, Types, EveryHitCounted, FlagsMatchHits
<1>2. counts \in [angle : Nat, distance : Nat, quality : Nat]
  BY DEF IInv, EveryHitCounted
<1>3. ASSUME UNCHANGED <<scene, hits, sectors, counts>> PROVE IInv'
  BY <1>1, <1>2, <1>3
<1>4. CASE UNCHANGED vars
  BY <1>3, <1>4 DEF vars
<1>5. ASSUME NEW p \in Points, NoReturn(p) PROVE IInv'
  BY <1>3, <1>5 DEF NoReturn, Read
<1>6. ASSUME NEW p \in Points, OutOfView(p) PROVE IInv'
  BY <1>3, <1>6 DEF OutOfView, Read
<1>7. ASSUME NEW p \in Points, TooFar(p) PROVE IInv'
  <2>1. counts' = [counts EXCEPT !.angle = @ + 1]
    BY <1>7 DEF TooFar, PassedAngle
  <2> QED BY <2>1, <1>1, <1>2, <1>7 DEF TooFar, Read
<1>8. ASSUME NEW p \in Points, LowQuality(p) PROVE IInv'
  <2>1. counts' = [angle |-> counts.angle + 1, distance |-> counts.distance + 1,
                   quality |-> counts.quality]
    BY <1>2, <1>8 DEF LowQuality, PassedAngle
  <2>2. counts'.quality = counts.quality /\ counts' \in [angle : Nat, distance : Nat, quality : Nat]
    BY <2>1, <1>2
  <2>3. UNCHANGED <<scene, hits, sectors>>
    BY <1>8 DEF LowQuality, Read
  <2> QED BY <2>2, <2>3, <1>1
<1>9. ASSUME NEW p \in Points, Hit(p) PROVE IInv'
  BY <1>9, HitKeeps
<1>10. CASE Return
  BY <1>3, <1>10 DEF Return
<1>11. CASE NextScan
  <2>0. scene \in Scenes /\ UNCHANGED scene
    BY <1>11 DEF NextScan, IInv, Types
  <2>1. Init'
    BY <2>0, <1>11 DEF NextScan, Init, FreshHits
  <2>2. NoObstacle \in Results'
    BY DEF NoObstacle, Results
  <2>3. Types'
    BY <2>1, <2>2 DEF Init, Types
  <2>4. EveryHitCounted'
    BY <2>1 DEF Init, EveryHitCounted, Sectors
  <2>5. FlagsMatchHits'
    BY <2>1, NeededIsPositive DEF Init, FlagsMatchHits, NoObstacle
  <2> QED BY <2>3, <2>4, <2>5 DEF IInv
<1> QED BY <1>4, <1>5, <1>6, <1>7, <1>8, <1>9, <1>10, <1>11 DEF Next

LEMMA Invariant == Spec => []IInv
BY InitInvariant, StepInvariant, PTL DEF Spec

\* The type invariant of the loop, for every field of view and threshold: what
\* a sector reports is in range, and the scan stays within its bound.
THEOREM TypeCorrect == Spec => []TypeOK
<1> DEFINE Scan == returned \in BOOLEAN /\ points \in Seq(Points) /\ Len(points) <= MaxPoints
<1>0. <<>> \in Seq(Points') /\ <<>> \in Seq(Points) /\ Len(<<>>) = 0 /\ 0 <= MaxPoints
  BY ThresholdsAssumption
<1>1. Init => Scan
  BY <1>0 DEF Init
<1>2. IInv /\ Scan /\ [Next]_vars => Scan'
  <2> SUFFICES ASSUME IInv, Scan, [Next]_vars PROVE Scan'
    OBVIOUS
  <2>1. CASE UNCHANGED <<points, returned, scene>>
    BY <2>1 DEF Points
  <2>2. ASSUME NEW p \in Points, Read(p) PROVE Scan'
    <3>1. points' = Append(points, p) /\ Points' = Points /\ returned' = returned
      BY <2>2 DEF Read, Points
    <3>2. Append(points, p) \in Seq(Points) /\ Len(points) < MaxPoints
      BY <2>2 DEF Read
    <3> QED BY <3>1, <3>2, ThresholdsAssumption
  <2>3. CASE Return
    BY <2>3 DEF Return, Points
  <2>4. CASE NextScan
    BY <1>0, <2>4 DEF NextScan
  <2>5. CASE UNCHANGED vars
    BY <2>5, <2>1 DEF vars
  <2> QED
    BY <2>2, <2>3, <2>4, <2>5 DEF Next, NoReturn, OutOfView, TooFar, LowQuality, Hit
<1>3. IInv /\ Scan => TypeOK
  BY DEF IInv, Types, Results, EveryHitCounted, TypeOK
<1> HIDE DEF Scan
<1> QED BY <1>1, <1>2, <1>3, Invariant, PTL DEF Spec

\* More points in view than five sectors can hold below the threshold are an
\* obstacle, for every field of view and every threshold: five sectors without
\* an obstacle hold at most Needed - 1 hits each.
THEOREM DenseFound == Spec => []DenseObjectFound
<1>1. IInv => DenseObjectFound
  <2> SUFFICES ASSUME IInv, \A s \in Sectors : ~sectors[s].obstacle
               PROVE  ~(counts.quality > 5 * (Needed - 1))
    BY DEF DenseObjectFound
  <2>1. \A s \in Sectors : hits[s] \in Nat /\ ~(hits[s] >= Needed)
    BY DEF IInv, Types, FlagsMatchHits
  <2>2. /\ hits[0] \in Nat /\ hits[0] < Needed
        /\ hits[1] \in Nat /\ hits[1] < Needed
        /\ hits[2] \in Nat /\ hits[2] < Needed
        /\ hits[3] \in Nat /\ hits[3] < Needed
        /\ hits[4] \in Nat /\ hits[4] < Needed
    BY <2>1, NeededIsPositive DEF Sectors
  <2> QED BY <2>2, NeededIsPositive DEF IInv, EveryHitCounted
<1> QED BY <1>1, Invariant, PTL

\* An obstacle is never declared on fewer points than the threshold.
THEOREM NoiseIsSuppressed == Spec => []NoiseSuppressed
<1>1. IInv => NoiseSuppressed
  <2> SUFFICES ASSUME IInv, NEW s \in Sectors, sectors[s].obstacle
               PROVE  counts.quality >= Needed
    BY DEF NoiseSuppressed
  <2>1. hits[s] >= Needed
    BY DEF IInv, FlagsMatchHits
  <2>2. hits[0] \in Nat /\ hits[1] \in Nat /\ hits[2] \in Nat /\ hits[3] \in Nat /\ hits[4] \in Nat
    BY DEF IInv, Types, Sectors
  <2> QED BY <2>1, <2>2, NeededIsPositive DEF IInv, EveryHitCounted, Sectors
<1> QED BY <1>1, Invariant, PTL
-----------------------------------------------------------------------------
(* The loop against the definition by sets.  This holds for fields of view     *)
(* within the angles the code compares: at -180 degrees, or beyond 180, a      *)
(* bearing can be drawn in the view and is normalised out of it.               *)

Unfolded == \A v \in Scenes : -180 < v.min /\ v.max <= 180

\* Truncation, for what is not negative.
LEMMA DivBounds ==
    ASSUME NEW x \in Nat, NEW y \in Nat \ {0}
    PROVE  /\ x \div y \in Nat
           /\ (x \div y) * y <= x
           /\ x < (x \div y) * y + y
OBVIOUS

\* The angle at which a bearing is drawn in the field of view is the one the
\* code compares.
LEMMA DrawnOnce ==
    ASSUME Unfolded, scene \in Scenes, NEW p \in Points
    PROVE  /\ Normalised(p.bearing) \in Drawn(p)
           /\ \A a \in Drawn(p) : MinAngle <= a /\ a <= MaxAngle => a = Normalised(p.bearing)
<1>1. p.bearing \in 0..359
  BY ViewIsInt DEF Reports
<1>2. MinAngle \in Int /\ MaxAngle \in Int /\ -180 < MinAngle /\ MaxAngle <= 180
  BY ViewIsInt DEF Unfolded, MinAngle, MaxAngle
<1>3. QED
  BY <1>1, <1>2 DEF Drawn, Normalised

\* The sector the code computes is the one whose edges enclose the angle.
LEMMA IndexIsExact ==
    ASSUME scene \in Scenes, Span > 0, NEW a \in MinAngle..MaxAngle, NEW s \in Sectors
    PROVE  s \in SectorIndex(a) <=>
             s * Span <= 5 * (a - MinAngle) /\ (s = 4 \/ 5 * (a - MinAngle) < (s + 1) * Span)
<1> DEFINE x == (a - MinAngle) * 5
           k == x \div Span
<1>1. Span \in Nat \ {0} /\ x \in Nat /\ x = 5 * (a - MinAngle)
  BY ViewIsInt DEF Span
<1>2. SectorIndex(a) = {IF k < 0 THEN 0 ELSE IF k >= 5 THEN 4 ELSE k}
  BY <1>1 DEF SectorIndex
<1>3. k \in Nat /\ k * Span <= x /\ x < k * Span + Span
  BY <1>1, DivBounds
<1>4. s \in {0, 1, 2, 3, 4}
  BY DEF Sectors
<1> HIDE DEF x, k
<1>5. CASE k >= 5
  <2>1. 5 * Span <= k * Span
    BY <1>1, <1>3, <1>5
  <2>2. 5 * Span <= x
    BY <2>1, <1>1, <1>3
  <2>3. s \in SectorIndex(a) <=> s = 4
    BY <1>2, <1>3, <1>5
  <2>4. s = 4 <=> s * Span <= x /\ (s = 4 \/ x < (s + 1) * Span)
    BY <1>1, <1>4, <2>2
  <2>5. QED
    BY <2>3, <2>4, <1>1
<1>6. CASE k < 5
  <2>1. s \in SectorIndex(a) <=> s = k
    BY <1>2, <1>3, <1>6
  <2>2. k \in {0, 1, 2, 3, 4}
    BY <1>3, <1>6
  <2>3. s = k <=> s * Span <= x /\ (s = 4 \/ x < (s + 1) * Span)
    BY <1>1, <1>3, <1>4, <2>2
  <2>4. QED
    BY <2>1, <2>3, <1>1
<1>7. QED
  BY <1>3, <1>5, <1>6

\* A point lies in a sector exactly if the code puts it there.
LEMMA InsideIsIndex ==
    ASSUME Unfolded, scene \in Scenes, Span > 0, NEW p \in Points, NEW s \in Sectors
    PROVE  Inside(p, s) <=> InView(p) /\ s \in SectorIndex(Normalised(p.bearing))
<1> DEFINE a == Normalised(p.bearing)
<1>1. a \in Int /\ MinAngle \in Int /\ MaxAngle \in Int
  BY ViewIsInt DEF Reports, Normalised
<1>2. InView(p) <=> a \in MinAngle..MaxAngle
  BY <1>1 DEF InView
<1>3. a \in Drawn(p) /\ \A b \in Drawn(p) : MinAngle <= b /\ b <= MaxAngle => b = a
  BY DrawnOnce
<1> HIDE DEF a
<1>4. Inside(p, s) <=> /\ a \in MinAngle..MaxAngle
                       /\ s * Span <= 5 * (a - MinAngle)
                       /\ s = 4 \/ 5 * (a - MinAngle) < (s + 1) * Span
  BY <1>1, <1>3 DEF Inside
<1>5. QED
  BY <1>2, <1>4, IndexIsExact DEF a

\* A point that is read joins the points of the sectors it lies in.
LEMMA SeenGrows ==
    ASSUME TypeOK, NEW p \in Points, Read(p), NEW s \in Sectors
    PROVE  LET n == Len(points) + 1
           IN  /\ n \notin SeenIn(s)
               /\ SeenIn(s)' = IF Seen(p) /\ Inside(p, s) THEN SeenIn(s) \cup {n} ELSE SeenIn(s)
               /\ points'[n] = p
               /\ \A i \in SeenIn(s) : points'[i] = points[i]
<1> DEFINE n == Len(points) + 1
<1>1. /\ scene' = scene /\ points \in Seq(Points) /\ points' = Append(points, p)
  BY DEF Read, TypeOK
<1>2. /\ Len(points) \in Nat /\ Len(points') = n /\ points'[n] = p
      /\ \A i \in 1..Len(points) : points'[i] = points[i]
  BY <1>1
<1>3. \A q : Inside(q, s)' <=> Inside(q, s)
  BY <1>1 DEF Inside, MinAngle, MaxAngle, Span, Drawn
<1>4. SeenIn(s) = {i \in 1..Len(points) : Seen(points[i]) /\ Inside(points[i], s)}
  BY DEF SeenIn, Indices
<1>5. SeenIn(s)' = {i \in 1..Len(points') : Seen(points'[i]) /\ Inside(points'[i], s)}
  BY <1>1 DEF SeenIn, Indices, Seen, Inside, MinAngle, MaxAngle, Span, Drawn
<1>6. 1..n = 1..Len(points) \cup {n} /\ n \notin 1..Len(points)
  BY <1>2
<1>7. QED
  BY <1>2, <1>4, <1>5, <1>6

\* What one turn of the loop means for the sets: the hits of a sector gain a
\* point exactly if the code counts one there.
LEMMA TurnIsExact ==
    ASSUME Unfolded, TypeOK, Span > 0, NEW p \in Points, NEW s \in Sectors,
           NoReturn(p) \/ OutOfView(p) \/ TooFar(p) \/ LowQuality(p) \/ Hit(p)
    PROVE  /\ Read(p) /\ scene' = scene
           /\ IF Seen(p) /\ Inside(p, s)
                THEN /\ hits'[s] = hits[s] + 1
                     /\ sectors'[s] = Judged(sectors[s], p, hits'[s])
                ELSE hits'[s] = hits[s] /\ sectors'[s] = sectors[s]
<1>1. scene \in Scenes /\ p.range \in Nat /\ p.quality \in Nat
  BY ViewIsInt DEF TypeOK, Reports
<1>2. Read(p) /\ scene' = scene
  BY DEF NoReturn, OutOfView, TooFar, LowQuality, Hit, Read
<1>3. Inside(p, s) <=> InView(p) /\ s \in SectorIndex(Normalised(p.bearing))
  BY <1>1, InsideIsIndex
<1>4. Seen(p) <=> HasReturn(p) /\ InRange(p) /\ GoodQuality(p)
  BY <1>1, ThresholdsAssumption DEF Seen, HasReturn, InRange, GoodQuality
<1>5. CASE NoReturn(p) \/ OutOfView(p) \/ TooFar(p) \/ LowQuality(p)
  <2>1. UNCHANGED <<hits, sectors>> /\ ~(Seen(p) /\ Inside(p, s))
    BY <1>3, <1>4, <1>5 DEF NoReturn, OutOfView, TooFar, LowQuality
  <2>2. QED
    BY <2>1, <1>2
<1>6. CASE Hit(p)
  <2>1. PICK t \in SectorIndex(Normalised(p.bearing)) :
            /\ hits' = [hits EXCEPT ![t] = @ + 1]
            /\ sectors' = [sectors EXCEPT ![t] = Judged(@, p, hits'[t])]
    BY <1>6 DEF Hit
  <2>2. Seen(p) /\ InView(p)
    BY <1>4, <1>6 DEF Hit
  <2>3. Span # 0 /\ \A u \in SectorIndex(Normalised(p.bearing)) : u = t
    BY <1>1, <2>1, ViewIsInt DEF SectorIndex, Span
  <2>4. Inside(p, s) <=> s = t
    BY <1>3, <2>1, <2>2, <2>3
  <2>5. hits \in [Sectors -> Nat] /\ DOMAIN sectors = Sectors
    BY DEF TypeOK
  <2>6. QED
    BY <1>2, <2>1, <2>2, <2>4, <2>5
<1>7. QED
  BY <1>5, <1>6

\* The hits of a sector are the points of the scan that lie in it.
HitsAreExact ==
    Span > 0 => \A s \in Sectors : IsFiniteSet(SeenIn(s)) /\ hits[s] = Cardinality(SeenIn(s))

\* An empty scan has no points in any sector.
LEMMA NothingSeen ==
    ASSUME points = <<>>, NEW s \in Sectors PROVE SeenIn(s) = {}
BY DEF SeenIn, Indices

\* Before the first point the sets are empty and so are the results.
LEMMA InitExact ==
    Init => HitsAreExact /\ NearestIsExact
<1> SUFFICES ASSUME Init PROVE HitsAreExact /\ NearestIsExact
  OBVIOUS
<1>1. \A s \in Sectors : SeenIn(s) = {} /\ hits[s] = 0 /\ sectors[s] = NoObstacle
  BY NothingSeen DEF Init
<1>2. IsFiniteSet({}) /\ Cardinality({}) = 0
  BY FS_EmptySet
<1>3. QED
  BY <1>1, <1>2 DEF HitsAreExact, NearestIsExact

\* Each turn of the loop keeps both comparisons with the sets.
LEMMA TurnKeepsExact ==
    ASSUME Unfolded, TypeOK, HitsAreExact, NearestIsExact, NEW p \in Points,
           NoReturn(p) \/ OutOfView(p) \/ TooFar(p) \/ LowQuality(p) \/ Hit(p)
    PROVE  HitsAreExact' /\ NearestIsExact'
<1> DEFINE n == Len(points) + 1
<1>1. scene' = scene /\ (Span' = Span)
  BY DEF NoReturn, OutOfView, TooFar, LowQuality, Hit, Read, Span, MinAngle, MaxAngle
<1>2. SUFFICES ASSUME Span > 0, NEW s \in Sectors
               PROVE  /\ IsFiniteSet(SeenIn(s)') /\ hits'[s] = Cardinality(SeenIn(s)')
                      /\ IF SeenIn(s)' = {} THEN sectors'[s] = NoObstacle
                         ELSE /\ \A i \in SeenIn(s)' : sectors'[s].nearest <= points'[i].range
                              /\ \E i \in SeenIn(s)' :
                                   /\ points'[i].range = sectors'[s].nearest
                                   /\ sectors'[s].angle \in Drawn(points'[i])
  BY <1>1 DEF HitsAreExact, NearestIsExact, Drawn
<1>3. /\ Read(p)
      /\ IF Seen(p) /\ Inside(p, s)
           THEN /\ hits'[s] = hits[s] + 1
                /\ sectors'[s] = Judged(sectors[s], p, hits'[s])
           ELSE hits'[s] = hits[s] /\ sectors'[s] = sectors[s]
  BY <1>2, TurnIsExact
<1>4. /\ n \notin SeenIn(s)
      /\ SeenIn(s)' = IF Seen(p) /\ Inside(p, s) THEN SeenIn(s) \cup {n} ELSE SeenIn(s)
      /\ points'[n] = p
      /\ \A i \in SeenIn(s) : points'[i] = points[i]
  BY <1>3, SeenGrows
<1>5. IsFiniteSet(SeenIn(s)) /\ hits[s] = Cardinality(SeenIn(s))
  BY <1>2 DEF HitsAreExact
<1>6. IF SeenIn(s) = {} THEN sectors[s] = NoObstacle
      ELSE /\ \A i \in SeenIn(s) : sectors[s].nearest <= points[i].range
           /\ \E i \in SeenIn(s) : /\ points[i].range = sectors[s].nearest
                                   /\ sectors[s].angle \in Drawn(points[i])
  BY <1>2 DEF NearestIsExact
<1> HIDE DEF n
<1>7. CASE ~(Seen(p) /\ Inside(p, s))
  BY <1>3, <1>4, <1>5, <1>6, <1>7
<1>8. CASE Seen(p) /\ Inside(p, s)
  <2>1. SeenIn(s)' = SeenIn(s) \cup {n} /\ hits'[s] = hits[s] + 1
    BY <1>3, <1>4, <1>8
  <2>2. IsFiniteSet(SeenIn(s)') /\ hits'[s] = Cardinality(SeenIn(s)')
    BY <2>1, <1>4, <1>5, FS_AddElement
  <2>3. /\ scene \in Scenes /\ p.range \in Nat /\ p.range > 0
        /\ sectors[s].nearest \in {-1} \cup 1..MaxDistance
        /\ \A i \in SeenIn(s) : points[i].range \in Nat /\ points[i].range > 0
    <3>1. scene \in Scenes /\ p \in Reports /\ points \in Seq(Points) /\ Points \subseteq Reports
      BY ViewIsInt DEF TypeOK
    <3>2. \A i \in SeenIn(s) : points[i] \in Reports /\ Seen(points[i])
      BY <3>1 DEF SeenIn, Indices
    <3>3. sectors[s].nearest \in {-1} \cup 1..MaxDistance
      BY DEF TypeOK
    <3>4. QED
      BY <3>1, <3>2, <3>3, <1>8, ThresholdsAssumption DEF Seen, Reports
  <2>4. /\ sectors'[s].nearest = IF Closer(p, sectors[s]) THEN p.range ELSE sectors[s].nearest
        /\ sectors'[s].angle = IF Closer(p, sectors[s]) THEN Normalised(p.bearing)
                                                        ELSE sectors[s].angle
    BY <1>3, <1>8 DEF Judged
  <2>5. Normalised(p.bearing) \in Drawn(p)
    BY <2>3, DrawnOnce
  <2>6. CASE SeenIn(s) = {}
    <3>1. Closer(p, sectors[s])
      BY <1>6, <2>6 DEF Closer, NoObstacle
    <3>2. QED
      BY <3>1, <2>1, <2>2, <2>3, <2>4, <2>5, <2>6, <1>4
  <2>7. CASE SeenIn(s) # {}
    <3>1. PICK i \in SeenIn(s) : /\ points[i].range = sectors[s].nearest
                                 /\ sectors[s].angle \in Drawn(points[i])
      BY <1>6, <2>7
    <3>2. Closer(p, sectors[s]) <=> p.range < sectors[s].nearest
      BY <2>3, <3>1 DEF Closer
    <3>3. \A j \in SeenIn(s)' : sectors'[s].nearest <= points'[j].range
      BY <1>4, <1>6, <2>1, <2>3, <2>4, <2>7, <3>1, <3>2
    <3>4. \E j \in SeenIn(s)' : /\ points'[j].range = sectors'[s].nearest
                                /\ sectors'[s].angle \in Drawn(points'[j])
      <4>1. CASE Closer(p, sectors[s])
        BY <4>1, <1>4, <2>1, <2>4, <2>5
      <4>2. CASE ~Closer(p, sectors[s])
        BY <4>2, <1>4, <2>1, <2>4, <3>1
      <4>3. QED
        BY <4>1, <4>2
    <3>5. QED
      BY <2>1, <2>2, <3>3, <3>4
  <2>8. QED
    BY <2>6, <2>7
<1>9. QED
  BY <1>7, <1>8

\* So does every step: returning reads no point, and a new scan empties both.
LEMMA StepExact ==
    ASSUME Unfolded, TypeOK, HitsAreExact, NearestIsExact, [Next]_vars
    PROVE  HitsAreExact' /\ NearestIsExact'
<1>1. CASE UNCHANGED <<scene, points, hits, sectors>>
  <2>1. \A s \in Sectors : SeenIn(s)' = SeenIn(s)
    BY <1>1 DEF SeenIn, Indices, Seen, Inside, InView, InRange, GoodQuality, HasReturn,
       Drawn, Span, MinAngle, MaxAngle
  <2>2. Span' = Span
    BY <1>1 DEF Span, MinAngle, MaxAngle
  <2>3. HitsAreExact'
    BY <1>1, <2>1, <2>2 DEF HitsAreExact
  <2>4. NearestIsExact'
    BY <1>1, <2>1, <2>2 DEF NearestIsExact, Drawn
  <2>5. QED
    BY <2>3, <2>4
<1>2. ASSUME NEW p \in Points,
             NoReturn(p) \/ OutOfView(p) \/ TooFar(p) \/ LowQuality(p) \/ Hit(p)
      PROVE  HitsAreExact' /\ NearestIsExact'
  BY <1>2, TurnKeepsExact
<1>3. CASE Return \/ UNCHANGED vars
  BY <1>1, <1>3 DEF Return, vars
<1>4. CASE NextScan
  <2>1. \A s \in Sectors : SeenIn(s)' = {} /\ hits'[s] = 0 /\ sectors'[s] = NoObstacle
    BY <1>4 DEF NextScan, FreshHits, SeenIn, Indices
  <2>2. IsFiniteSet({}) /\ Cardinality({}) = 0
    BY FS_EmptySet
  <2>3. QED
    BY <2>1, <2>2 DEF HitsAreExact, NearestIsExact
<1>5. QED
  BY <1>2, <1>3, <1>4 DEF Next

\* A sector is declared to hold an obstacle exactly if enough points lie in it
\* that pass every filter: for every scan, threshold and field of view within
\* (-180, 180] (Perception.cpp:58-80).
THEOREM VerdictRight == Unfolded /\ Spec => []VerdictIsExact
<1>1. IInv /\ HitsAreExact => VerdictIsExact
  BY DEF IInv, FlagsMatchHits, HitsAreExact, VerdictIsExact
<1>2. Unfolded /\ Spec => [](HitsAreExact /\ NearestIsExact)
  <2> SUFFICES ASSUME Unfolded PROVE Spec => [](HitsAreExact /\ NearestIsExact)
    OBVIOUS
  <2>1. TypeOK /\ HitsAreExact /\ NearestIsExact /\ [Next]_vars => (HitsAreExact /\ NearestIsExact)'
    BY StepExact
  <2>2. QED
    BY <2>1, InitExact, TypeCorrect, PTL DEF Spec
<1>3. QED
  BY <1>1, <1>2, Invariant, PTL

\* The nearest distance of a sector is the least among its points, and the angle
\* is that of such a point, under the same condition (Perception.cpp:72-75).
THEOREM NearestRight == Unfolded /\ Spec => []NearestIsExact
<1> SUFFICES ASSUME Unfolded PROVE Spec => []NearestIsExact
  OBVIOUS
<1>1. TypeOK /\ HitsAreExact /\ NearestIsExact /\ [Next]_vars => (HitsAreExact /\ NearestIsExact)'
  BY StepExact
<1>2. QED
  BY <1>1, InitExact, TypeCorrect, PTL DEF Spec
================================================================================
