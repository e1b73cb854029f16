--------------------------- MODULE FrameQueueProofs ---------------------------
(****************************************************************************)
(* FrameQueue keeps the newest frames in order, allocates a bounded number   *)
(* of buffers and implements FrameStream, for every capacity.                *)
(*                                                                          *)
(* QInv is about the queue alone; PInv adds the pool: objects are conserved, *)
(* and the objects without storage, in the pool or in the consumer's hand,   *)
(* and the allocations so far are accounted for by the objects created.      *)
(****************************************************************************)
EXTENDS FrameQueue, FiniteSets, FiniteSetTheorems, TLAPS

QInv ==
    /\ queue \in Seq(Nat)
    /\ Len(queue) <= capacity
    /\ newest \in Nat
    /\ delivered \in Nat
    /\ delivered + Len(queue) <= newest
    /\ FreshestKept

PTypes ==
    /\ pool \in Seq(Storage)
    /\ out \in Storage
    /\ consumers \in Nat
    /\ fresh \in Nat
    /\ grown \in Nat

\* The places of the pool that hold an object without storage.
BareIn(p) == {i \in 1..Len(p) : p[i] = "bare"}
BareOut == IF out = "bare" THEN 1 ELSE 0

\* Every allocation used up an object without storage, and only new objects and
\* new sessions bring one.
Accounted ==
    /\ IsFiniteSet(BareIn(pool))
    /\ Cardinality(BareIn(pool)) + BareOut + grown <= fresh + consumers

PInv == PTypes /\ ObjectsConserved /\ Accounted

-----------------------------------------------------------------------------

\* The clamp leaves a usable capacity.
LEMMA CapacityPositive == capacity \in Nat /\ capacity >= 1
BY ConfiguredAssumption DEF capacity

\* push() on a queue within its capacity evicts at most one frame and shifts
\* the rest by as much.
LEMMA PushShape ==
    ASSUME NEW q \in Seq(Nat), Len(q) <= capacity, NEW f \in Nat
    PROVE  /\ Evictions(q) \in 0..1
           /\ Evictions(q) <= Len(q)
           /\ Pushed(q, f) \in Seq(Nat)
           /\ Len(Pushed(q, f)) = Len(q) - Evictions(q) + 1
           /\ Len(Pushed(q, f)) <= capacity
           /\ \A i \in 1..(Len(q) - Evictions(q)) : Pushed(q, f)[i] = q[i + Evictions(q)]
           /\ Pushed(q, f)[Len(q) - Evictions(q) + 1] = f
<1>1. Evictions(q) \in 0..1 /\ Evictions(q) <= Len(q)
  BY CapacityPositive DEF Evictions
<1> DEFINE e == Evictions(q)
           s == SubSeq(q, e + 1, Len(q))
<1>2. s \in Seq(Nat) /\ Len(s) = Len(q) - e /\ \A i \in 1..(Len(q) - e) : s[i] = q[i + e]
  BY <1>1
<1>3. Pushed(q, f) = Append(s, f)
  BY DEF Pushed
<1>4. Len(q) - e + 1 <= capacity
  BY CapacityPositive DEF Evictions
<1> HIDE DEF s
<1>5. QED
  BY <1>1, <1>2, <1>3, <1>4

\* recycleLocked() appends to the pool while there is room for all of it.
LEMMA RecycleShape ==
    ASSUME NEW p \in Seq(Storage), NEW n \in Nat, NEW b \in Storage,
           Len(p) + n <= capacity + kPoolSlack
    PROVE  /\ Recycled(p, n, b) \in Seq(Storage)
           /\ Len(Recycled(p, n, b)) = Len(p) + n
           /\ \A i \in 1..Len(p) : Recycled(p, n, b)[i] = p[i]
           /\ \A i \in (Len(p) + 1)..(Len(p) + n) : Recycled(p, n, b)[i] = b
<1> DEFINE t == [i \in 1..n |-> b]
<1>1. t \in Seq(Storage) /\ Len(t) = n
  OBVIOUS
<1>2. n <= capacity + kPoolSlack - Len(p)
  BY CapacityPositive DEF kPoolSlack
<1>3. Recycled(p, n, b) = p \o t
  BY <1>2 DEF Recycled
<1>4. \A i \in 1..n : t[i] = b
  OBVIOUS
<1> HIDE DEF t
<1>5. /\ p \o t \in Seq(Storage) /\ Len(p \o t) = Len(p) + n
      /\ \A i \in 1..Len(p) : (p \o t)[i] = p[i]
      /\ \A i \in 1..n : (p \o t)[Len(p) + i] = t[i]
  BY <1>1
<1>6. \A i \in (Len(p) + 1)..(Len(p) + n) : (p \o t)[i] = b
  <2> SUFFICES ASSUME NEW i \in (Len(p) + 1)..(Len(p) + n) PROVE (p \o t)[i] = b
    OBVIOUS
  <2>1. i - Len(p) \in 1..n /\ Len(p) + (i - Len(p)) = i
    OBVIOUS
  <2>2. QED
    BY <1>4, <1>5, <2>1
<1>7. QED
  BY <1>3, <1>5, <1>6

-----------------------------------------------------------------------------

\* The queue part holds initially and is preserved by each method.
LEMMA InitQ == Init => QInv
BY CapacityPositive DEF Init, QInv, FreshestKept

LEMMA StepQ == QInv /\ [Next]_vars => QInv'
<1> SUFFICES ASSUME QInv, [Next]_vars PROVE QInv'
  OBVIOUS
<1> USE DEF QInv
<1>1. CASE Push
  <2>1. newest + 1 \in Nat /\ newest' = newest + 1 /\ queue' = Pushed(queue, newest + 1)
        /\ delivered' = delivered
    BY <1>1 DEF Push
  <2> DEFINE e == Evictions(queue)
  <2>a. /\ e \in 0..1 /\ e <= Len(queue) /\ queue' \in Seq(Nat)
        /\ Len(queue') = Len(queue) - e + 1 /\ Len(queue') <= capacity
        /\ \A i \in 1..(Len(queue) - e) : queue'[i] = queue[i + e]
        /\ queue'[Len(queue) - e + 1] = newest + 1
    BY <2>1, PushShape
  <2> HIDE DEF e
  <2>2. \A i \in 1..Len(queue') : queue'[i] = newest' - Len(queue') + i
    <3> SUFFICES ASSUME NEW i \in 1..Len(queue') PROVE queue'[i] = newest' - Len(queue') + i
      OBVIOUS
    <3>1. CASE i = Len(queue) - e + 1
      BY <2>1, <2>a, <3>1
    <3>2. CASE i # Len(queue) - e + 1
      <4>1. i \in 1..(Len(queue) - e) /\ i + e \in 1..Len(queue)
        BY <2>a, <3>2
      <4>2. queue'[i] = newest - Len(queue) + (i + e)
        BY <2>a, <4>1 DEF FreshestKept
      <4>3. queue'[i] = queue[i + e]
        BY <2>a, <4>1
      <4>4. Len(queue) \in Nat /\ e \in Nat /\ i \in Nat
        BY <2>a, <4>1
      <4>5. newest' - Len(queue') + i = newest - Len(queue) + (i + e)
        <5>1. newest' = newest + 1 /\ Len(queue') = Len(queue) - e + 1
          BY <2>1, <2>a
        <5>2. newest \in Nat
          OBVIOUS
        <5>3. QED
          BY <4>4, <5>1, <5>2
      <4>6. QED
        BY <4>2, <4>3, <4>5
    <3>3. QED
      BY <3>1, <3>2
  <2>3. QED
    BY <2>1, <2>a, <2>2 DEF FreshestKept, capacity
<1>2. CASE Pop
  <2>1. queue # <<>> /\ queue' = Tail(queue) /\ delivered' = Head(queue) /\ newest' = newest
    BY <1>2 DEF Pop
  <2>2. /\ Len(queue) \in Nat /\ Len(queue) >= 1 /\ Head(queue) = queue[1]
        /\ queue' \in Seq(Nat) /\ Len(queue') = Len(queue) - 1
        /\ \A i \in 1..(Len(queue) - 1) : queue'[i] = queue[i + 1]
    BY <2>1
  <2>3. Head(queue) = newest - Len(queue) + 1
    BY <2>2 DEF FreshestKept
  <2>4. FreshestKept'
    <3> SUFFICES ASSUME NEW i \in 1..Len(queue') PROVE queue'[i] = newest' - Len(queue') + i
      BY DEF FreshestKept
    <3>1. i \in 1..(Len(queue) - 1) /\ i + 1 \in 1..Len(queue)
      BY <2>2
    <3>2. queue'[i] = newest - Len(queue) + (i + 1)
      BY <2>2, <3>1 DEF FreshestKept
    <3>3. QED
      BY <2>1, <2>2, <3>2
  <2>5. QED
    <3>1. Len(queue') <= capacity /\ delivered' \in Nat /\ delivered' + Len(queue') <= newest'
      BY <2>1, <2>2, <2>3, CapacityPositive
    <3>2. QED
      BY <2>1, <2>2, <2>4, <3>1 DEF capacity
<1>3. CASE Clear
  BY <1>3, CapacityPositive DEF Clear, FreshestKept
<1>4. CASE NewConsumer
  BY <1>4 DEF NewConsumer, FreshestKept
<1>5. CASE UNCHANGED vars
  BY <1>5 DEF vars, FreshestKept
<1>6. QED
  BY <1>1, <1>2, <1>3, <1>4, <1>5 DEF Next

LEMMA QInvariant == Spec => []QInv
BY InitQ, StepQ, PTL DEF Spec

\* Whatever the order of calls, the queue is a gap-free run of the newest
\* frames (FrameQueue.cpp push, pop, clear).
THEOREM Freshest == Spec => []FreshestKept
<1>1. QInv => FreshestKept
  BY DEF QInv
<1>2. QED
  BY <1>1, QInvariant, PTL

\* A pop hands over the oldest frame kept, which is newer than every one handed
\* over before and one of the newest capacity frames: the queue implements the
\* stream promised to the viewer.
THEOREM ImplementsStream == Spec => StreamSpec
<1>1. Init => Stream!Init
  BY DEF Init, Stream!Init
<1>2. Push => Stream!Offer
  BY DEF Push, Stream!Offer
<1>3. QInv /\ Pop => Stream!Deliver
  <2> SUFFICES ASSUME QInv, Pop PROVE Stream!Deliver
    OBVIOUS
  <2>1. queue # <<>> /\ delivered' = Head(queue) /\ newest' = newest
    BY DEF Pop
  <2>2. Head(queue) = newest - Len(queue) + 1 /\ Len(queue) >= 1
    BY <2>1 DEF QInv, FreshestKept
  <2>3. QED
    BY <2>1, <2>2, CapacityPositive DEF QInv, Stream!Deliver
\* What clear() drops is lost to the viewer, who notices nothing of it.
<1>4. Clear \/ NewConsumer \/ UNCHANGED vars => UNCHANGED <<newest, delivered>>
  BY DEF Clear, NewConsumer, vars
<1>5. QInv /\ [Next]_vars => [Stream!Next]_<<newest, delivered>>
  BY <1>2, <1>3, <1>4 DEF Next, Stream!Next
<1>6. QED
  BY <1>1, <1>5, QInvariant, PTL DEF Spec, StreamSpec, Stream!Spec, Stream!vars

-----------------------------------------------------------------------------

\* Recycling objects with storage, or none, adds no place without one.
LEMMA RecycleStored ==
    ASSUME NEW p \in Seq(Storage), NEW n \in Nat, Len(p) + n <= capacity + kPoolSlack
    PROVE  BareIn(Recycled(p, n, "stored")) = BareIn(p)
<1> DEFINE r == Recycled(p, n, "stored")
<1>1. /\ Len(r) = Len(p) + n /\ Len(p) \in Nat
      /\ \A i \in 1..Len(p) : r[i] = p[i]
      /\ \A i \in (Len(p) + 1)..(Len(p) + n) : r[i] = "stored"
  BY RecycleShape DEF Storage
<1> HIDE DEF r
<1>2. \A i : i \in BareIn(r) => i \in BareIn(p)
  <2> SUFFICES ASSUME NEW i \in BareIn(r) PROVE i \in BareIn(p)
    OBVIOUS
  <2>1. i \in 1..(Len(p) + n) /\ r[i] = "bare"
    BY <1>1 DEF BareIn
  <2>2. i \notin (Len(p) + 1)..(Len(p) + n)
    BY <1>1, <2>1
  <2>3. i \in 1..Len(p)
    BY <1>1, <2>1, <2>2
  <2> QED
    BY <1>1, <2>1, <2>3 DEF BareIn
<1>3. \A i : i \in BareIn(p) => i \in BareIn(r)
  BY <1>1 DEF BareIn
<1>4. BareIn(r) = BareIn(p)
  BY <1>2, <1>3
<1> QED
  BY <1>4 DEF r

\* The pool part holds initially.
LEMMA InitP == Init => PInv
<1> SUFFICES ASSUME Init PROVE PInv
  OBVIOUS
<1>1. BareIn(pool) = {}
  BY DEF Init, BareIn
<1>2. Accounted
  BY <1>1, FS_EmptySet DEF Init, Accounted, BareOut
<1> QED
  BY <1>2, CapacityPositive DEF Init, PInv, PTypes, Storage, ObjectsConserved

\* push(): recycling the evicted frame and taking one object back keeps the
\* number of objects, or creates the missing one.
LEMMA PushP == ASSUME QInv, PInv, Push PROVE PInv'
<1> DEFINE e == Evictions(queue)
           p == Recycled(pool, e, "stored")
<1>1. e \in 0..1 /\ e <= Len(queue) /\ Len(queue') = Len(queue) - e + 1 /\ Len(queue') <= capacity
  BY PushShape DEF QInv, Push
<1>2. Len(pool) + e <= capacity + kPoolSlack
  BY <1>1, CapacityPositive DEF PInv, PTypes, Storage, ObjectsConserved, QInv, kPoolSlack
<1>3. /\ p \in Seq(Storage) /\ Len(p) = Len(pool) + e
      /\ BareIn(p) = BareIn(pool)
  BY <1>1, <1>2, RecycleShape, RecycleStored DEF PInv, PTypes, Storage
<1>4. /\ pool' = AfterAcquire(p) /\ out' = out /\ consumers' = consumers
      /\ fresh' = IF p = <<>> THEN fresh + 1 ELSE fresh
      /\ grown' = IF AcquiredHasStorage(p) THEN grown ELSE grown + 1
  BY DEF Push
<1> HIDE DEF p, e
<1>5. /\ Len(p) + Len(queue') = fresh + 1
      /\ Len(queue') \in Nat /\ Len(p) \in Nat
  <2>1. Len(pool) \in Nat /\ Len(queue) \in Nat /\ e \in Nat
    BY <1>1 DEF PInv, PTypes, QInv
  <2>2. Len(pool) + Len(queue) = fresh
    BY DEF PInv, ObjectsConserved
  <2>3. QED
    BY <1>1, <1>3, <2>1, <2>2
<1>6. /\ IsFiniteSet(BareIn(p)) /\ Cardinality(BareIn(p)) \in Nat
      /\ Cardinality(BareIn(p)) + BareOut + grown <= fresh + consumers
      /\ BareOut' = BareOut /\ BareOut \in 0..1
      /\ fresh \in Nat /\ grown \in Nat /\ consumers \in Nat
  BY <1>3, <1>4, FS_CardinalityType DEF PInv, PTypes, Accounted, BareOut
<1>7. CASE p = <<>>
  <2>1. pool' = <<>> /\ fresh' = fresh + 1 /\ grown' = grown + 1
    BY <1>4, <1>7 DEF AfterAcquire, AcquiredHasStorage
  <2>2. Len(queue') = fresh + 1
    BY <1>5, <1>7
  <2>3. BareIn(pool') = BareIn(p)
    BY <1>7, <2>1
  <2>4. Accounted'
    BY <1>4, <1>6, <2>1, <2>3 DEF Accounted
  <2>5. QED
    BY <1>1, <1>4, <2>1, <2>2, <2>4 DEF PInv, PTypes, Storage, ObjectsConserved
<1>8. CASE p # <<>>
  <2>1. /\ pool' = SubSeq(p, 1, Len(p) - 1) /\ fresh' = fresh
        /\ grown' = IF p[Len(p)] = "stored" THEN grown ELSE grown + 1
    BY <1>4, <1>8 DEF AfterAcquire, AcquiredHasStorage
  <2>2. /\ Len(p) \in Nat /\ Len(p) >= 1 /\ pool' \in Seq(Storage) /\ Len(pool') = Len(p) - 1
        /\ \A i \in 1..(Len(p) - 1) : pool'[i] = p[i]
    BY <1>3, <1>8, <2>1
  <2>3. Len(pool') + Len(queue') = fresh'
    <3>1. Len(pool') = Len(p) - 1 /\ fresh' = fresh /\ fresh \in Nat
      BY <2>1, <2>2 DEF PInv, PTypes
    <3>2. QED
      BY <1>5, <3>1
  <2>4. ObjectsConserved'
    BY <2>1, <2>3 DEF PInv, ObjectsConserved, capacity
  <2>5. BareIn(pool') = BareIn(p) \ {Len(p)}
    BY <2>2 DEF BareIn
  <2>6. /\ IsFiniteSet(BareIn(pool'))
        /\ Cardinality(BareIn(pool')) =
               IF Len(p) \in BareIn(p) THEN Cardinality(BareIn(p)) - 1 ELSE Cardinality(BareIn(p))
    <3> DEFINE b == BareIn(p)
               n == Len(p)
    <3>1. IsFiniteSet(b)
      BY <1>6
    <3> HIDE DEF b, n
    <3>2. IsFiniteSet(b \ {n}) /\ Cardinality(b \ {n}) = IF n \in b THEN Cardinality(b) - 1 ELSE Cardinality(b)
      BY <3>1, FS_RemoveElement
    <3> QED
      BY <2>5, <3>2 DEF b, n
  <2>7. p[Len(p)] \in Storage
    BY <1>3, <2>2
  <2>8. Len(p) \in BareIn(p) <=> p[Len(p)] # "stored"
    BY <2>2, <2>7 DEF BareIn, Storage
  <2>9. Cardinality(BareIn(pool')) + grown' = Cardinality(BareIn(p)) + grown
    BY <1>6, <2>1, <2>6, <2>8
  <2>10. Accounted' /\ grown' \in Nat
    BY <1>4, <1>6, <2>1, <2>6, <2>8, <2>9 DEF Accounted
  <2>11. QED
    BY <1>4, <2>1, <2>2, <2>4, <2>10 DEF PInv, PTypes
<1>9. QED
  BY <1>7, <1>8

\* pop(): the consumer's old object replaces the frame in the pool's account.
LEMMA PopP == ASSUME QInv, PInv, Pop PROVE PInv'
<1>1. /\ queue # <<>> /\ queue' = Tail(queue) /\ out' = "stored" /\ consumers' = consumers
      /\ pool' = Recycled(pool, 1, out) /\ fresh' = fresh /\ grown' = grown
  BY DEF Pop, PoolAfterPop
<1>2. Len(queue) \in Nat /\ Len(queue) >= 1 /\ Len(queue') = Len(queue) - 1
  BY <1>1 DEF QInv
<1>3. Len(pool) + 1 <= capacity + kPoolSlack
  BY <1>2, CapacityPositive DEF PInv, PTypes, Storage, ObjectsConserved, kPoolSlack
<1>4. /\ pool' \in Seq(Storage) /\ Len(pool') = Len(pool) + 1
      /\ \A i \in 1..Len(pool) : pool'[i] = pool[i]
      /\ \A i \in (Len(pool) + 1)..(Len(pool) + 1) : pool'[i] = out
  BY <1>1, <1>3, RecycleShape DEF PInv, PTypes, Storage
<1>5. Len(pool) \in Nat /\ pool'[Len(pool) + 1] = out
  BY <1>4 DEF PInv, PTypes, Storage
<1>6. ObjectsConserved'
  BY <1>1, <1>2, <1>4, <1>5 DEF PInv, PTypes, Storage, ObjectsConserved, capacity
<1>7. /\ IsFiniteSet(BareIn(pool)) /\ Cardinality(BareIn(pool)) \in Nat
      /\ Cardinality(BareIn(pool)) + BareOut + grown <= fresh + consumers
      /\ fresh \in Nat /\ grown \in Nat /\ consumers \in Nat
  BY FS_CardinalityType DEF PInv, PTypes, Accounted
<1>8. Accounted'
  <2>1. CASE out = "stored"
    <3>1. BareIn(pool') = BareIn(pool)
      BY <1>1, <1>3, <2>1, RecycleStored DEF PInv, PTypes
    <3>2. BareOut = 0 /\ BareOut' = 0
      BY <1>1, <2>1 DEF BareOut
    <3> QED
      BY <1>1, <1>7, <3>1, <3>2 DEF Accounted
  <2>2. CASE out = "bare"
    <3>1. BareIn(pool') = BareIn(pool) \cup {Len(pool) + 1}
      BY <1>4, <1>5, <2>2 DEF BareIn
    <3>2. Len(pool) + 1 \notin BareIn(pool)
      BY <1>5 DEF BareIn
    <3>3. IsFiniteSet(BareIn(pool')) /\ Cardinality(BareIn(pool')) = Cardinality(BareIn(pool)) + 1
      BY <1>7, <3>1, <3>2, FS_AddElement
    <3>4. BareOut = 1 /\ BareOut' = 0
      BY <1>1, <2>2 DEF BareOut
    <3> QED
      BY <1>1, <1>7, <3>3, <3>4 DEF Accounted
  <2>3. QED
    BY <2>1, <2>2 DEF PInv, PTypes, Storage
<1>9. QED
  BY <1>1, <1>4, <1>6, <1>8 DEF PInv, PTypes, Storage

\* clear(): every queued object goes to the pool.
LEMMA ClearP == ASSUME QInv, PInv, Clear PROVE PInv'
<1>1. /\ queue' = <<>> /\ pool' = Recycled(pool, Len(queue), "stored")
      /\ out' = out /\ consumers' = consumers /\ fresh' = fresh /\ grown' = grown
  BY DEF Clear
<1>2. Len(queue) \in Nat /\ Len(pool) \in Nat /\ Len(pool) + Len(queue) <= capacity + kPoolSlack
  BY CapacityPositive DEF QInv, PInv, PTypes, ObjectsConserved, kPoolSlack
<1>3. /\ pool' \in Seq(Storage) /\ Len(pool') = Len(pool) + Len(queue)
      /\ BareIn(pool') = BareIn(pool)
  BY <1>1, <1>2, RecycleShape, RecycleStored DEF PInv, PTypes, Storage
<1>4. Accounted'
  BY <1>1, <1>3 DEF PInv, Accounted, BareOut
<1>5. ObjectsConserved'
  BY <1>1, <1>2, <1>3 DEF PInv, ObjectsConserved, capacity
<1>6. QED
  BY <1>1, <1>3, <1>4, <1>5 DEF PInv, PTypes, Storage

\* A new session brings at most one object without storage.
LEMMA NewConsumerP == ASSUME PInv, NewConsumer PROVE PInv'
<1>1. /\ out' = "bare" /\ consumers' = consumers + 1
      /\ UNCHANGED <<queue, pool, fresh, grown>>
  BY DEF NewConsumer
<1>2. Cardinality(BareIn(pool)) \in Nat /\ BareOut \in 0..1 /\ BareOut' = 1
  BY <1>1, FS_CardinalityType DEF PInv, Accounted, BareOut
<1>3. Accounted'
  BY <1>1, <1>2 DEF PInv, PTypes, Accounted
<1> QED
  BY <1>1, <1>3 DEF PInv, PTypes, Storage, ObjectsConserved, capacity

\* Every reachable state satisfies both parts.
LEMMA PInvariant == Spec => [](QInv /\ PInv)
<1>1. PInv /\ UNCHANGED vars => PInv'
  BY DEF PInv, PTypes, Storage, ObjectsConserved, Accounted, BareOut, vars, capacity
<1>2. QInv /\ PInv /\ [Next]_vars => PInv'
  BY <1>1, PushP, PopP, ClearP, NewConsumerP DEF Next
<1>3. QED
  BY <1>2, InitQ, InitP, StepQ, PTL DEF Spec

\* The frames queued are frames that were pushed.
LEMMA QueueOfPushed == QInv => queue \in Seq(1..newest)
<1> SUFFICES ASSUME QInv PROVE queue \in Seq(1..newest)
  OBVIOUS
<1>1. queue \in Seq(Nat) /\ Len(queue) \in Nat /\ newest \in Nat /\ Len(queue) <= newest
  BY DEF QInv
<1>2. \A i \in 1..Len(queue) : queue[i] \in 1..newest
  <2> SUFFICES ASSUME NEW i \in 1..Len(queue) PROVE queue[i] \in 1..newest
    OBVIOUS
  <2>1. queue[i] = newest - Len(queue) + i
    BY DEF QInv, FreshestKept
  <2> QED
    BY <1>1, <2>1
<1>3. QED
  BY <1>1, <1>2

\* The type invariant of the queue and its pool, for every capacity: the pool
\* stays within its slack and nothing is delivered before it is pushed.
THEOREM TypeCorrect == Spec => []TypeOK
<1> DEFINE Bounds == newest \in 0..MaxPushes /\ consumers \in 1..MaxConsumers
<1>1. Init => Bounds
  BY MaxPushesAssumption, MaxConsumersAssumption DEF Init
<1>2. Bounds /\ [Next]_vars => Bounds'
  BY MaxPushesAssumption, MaxConsumersAssumption
     DEF Next, Push, Pop, Clear, NewConsumer, vars
<1>3. QInv /\ PInv /\ Bounds => TypeOK
  <2> SUFFICES ASSUME QInv, PInv, Bounds PROVE TypeOK
    OBVIOUS
  <2>1. Len(pool) <= capacity + kPoolSlack
    BY CapacityPositive DEF QInv, PInv, PTypes, ObjectsConserved, kPoolSlack
  <2>2. delivered \in 0..newest
    BY DEF QInv
  <2> QED
    BY <2>1, <2>2, QueueOfPushed DEF QInv, PInv, PTypes, TypeOK
<1>4. QED
  BY <1>1, <1>2, <1>3, PInvariant, PTL DEF Spec

\* Recycling neither loses nor duplicates a frame object, so the pool never
\* overflows, whatever the capacity.
THEOREM ObjectsAreConserved == Spec => []ObjectsConserved
<1>1. PInv => ObjectsConserved
  BY DEF PInv
<1>2. QED
  BY <1>1, PInvariant, PTL

\* At most one point vector per slot and per session ever allocates ("no heap
\* allocation" in the steady state, FrameQueue.hpp:31), whatever the capacity
\* and the order of calls.
THEOREM AllocationIsBounded == Spec => []BoundedAllocation
<1>1. PInv => BoundedAllocation
  <2> SUFFICES ASSUME PInv PROVE BoundedAllocation
    OBVIOUS
  <2>1. Cardinality(BareIn(pool)) \in Nat /\ BareOut \in 0..1
    BY FS_CardinalityType DEF PInv, Accounted, BareOut
  <2> QED
    BY <2>1, CapacityPositive DEF PInv, PTypes, ObjectsConserved, Accounted, BoundedAllocation
<1>2. QED
  BY <1>1, PInvariant, PTL
===============================================================================
