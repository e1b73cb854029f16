------------------------------ MODULE FrameQueue ------------------------------
(****************************************************************************)
(* network/FrameQueue: the bounded, drop-oldest queue between the lidar      *)
(* thread and the I/O thread, with its pool of recycled frame objects.       *)
(* Every method runs under the queue's mutex from its first to its last      *)
(* line, so each is one action.                                              *)
(*                                                                          *)
(* A frame is the number of its push.  Of a frame object the model keeps     *)
(* whether its point vector has storage, which is what the pool is for.      *)
(****************************************************************************)
EXTENDS FrameQueueOps

CONSTANTS
    MaxPushes,      \* bound: frames pushed
    MaxConsumers    \* bound: sessions that pop() one after the other

ASSUME MaxPushesAssumption == MaxPushes \in Nat
ASSUME MaxConsumersAssumption == MaxConsumers \in Nat \ {0}

VARIABLES
    queue,     \* queue_: frame numbers, oldest first
    pool,      \* pool_: the storage of each recycled object
    out,       \* the storage of the object the consumer passes to pop()
    consumers, \* sessions so far, each with an object of its own
    newest,    \* number of the last frame pushed
    delivered, \* number of the last frame popped
    fresh,     \* history: objects acquireLocked() created
    grown      \* history: point vectors that had to allocate

vars == <<queue, pool, out, consumers, newest, delivered, fresh, grown>>

kPoolSlack == 2

\* The point vector of a frame object: never used, or with memory of its own.
Storage == {"bare", "stored"}

TypeOK ==
    /\ queue \in Seq(1..newest) /\ Len(queue) <= capacity
    /\ pool \in Seq(Storage) /\ Len(pool) <= capacity + kPoolSlack
    /\ out \in Storage
    /\ consumers \in 1..MaxConsumers
    /\ newest \in 0..MaxPushes
    /\ delivered \in 0..newest
    /\ fresh \in Nat /\ grown \in Nat

Init ==
    /\ queue = <<>>
    /\ pool = <<>>
    /\ out = "bare" /\ consumers = 1
    /\ newest = 0 /\ delivered = 0
    /\ fresh = 0 /\ grown = 0

\* Mutant: discarded frames are not recycled.
NotRecycled(p, n, storage) == p

\* recycleLocked(): n objects of the same storage go to the back of the pool as
\* far as it has room.
Recycled(p, n, storage) ==
    LET room == capacity + kPoolSlack - Len(p)
        kept == IF n <= room THEN n ELSE room
    IN p \o [i \in 1..kept |-> storage]

\* acquireLocked(): the object at the back of the pool, or a new empty one.
AcquiredHasStorage(p) == p # <<>> /\ p[Len(p)] = "stored"
AfterAcquire(p) == IF p = <<>> THEN p ELSE SubSeq(p, 1, Len(p) - 1)

Push ==
    /\ newest < MaxPushes
    /\ newest' = newest + 1
    /\ LET p == Recycled(pool, Evictions(queue), "stored") IN
        /\ pool' = AfterAcquire(p)
        /\ fresh' = IF p = <<>> THEN fresh + 1 ELSE fresh
        /\ grown' = IF AcquiredHasStorage(p) THEN grown ELSE grown + 1
    /\ queue' = Pushed(queue, newest + 1)
    /\ UNCHANGED <<out, consumers, delivered>>

\* The pool once pop() has recycled the consumer's previous frame.
PoolAfterPop == Recycled(pool, 1, out)

Pop ==
    /\ queue # <<>>
    /\ pool' = PoolAfterPop
    /\ out' = "stored"
    /\ delivered' = Head(queue)
    /\ queue' = Tail(queue)
    /\ UNCHANGED <<consumers, newest, fresh, grown>>

Clear ==
    /\ queue # <<>>
    /\ pool' = Recycled(pool, Len(queue), "stored")
    /\ queue' = <<>>
    /\ UNCHANGED <<out, consumers, newest, delivered, fresh, grown>>

\* A new session brings a frame object that has never been used; the one of
\* the session before is destroyed with it.
NewConsumer ==
    /\ consumers < MaxConsumers
    /\ consumers' = consumers + 1
    /\ out' = "bare"
    /\ UNCHANGED <<queue, pool, newest, delivered, fresh, grown>>

Next == Push \/ Pop \/ Clear \/ NewConsumer

Spec == Init /\ [][Next]_vars

----------------------------------------------------------------------------
(* Properties                                                               *)

\* The queue is a gap-free run of the newest frames in push order: eviction
\* takes the oldest, a clear takes all, and nothing is reordered.
FreshestKept ==
    \A i \in 1..Len(queue) : queue[i] = newest - Len(queue) + i

\* "The steady state performs no heap allocation" (FrameQueue.hpp:31): over any
\* sequence of calls at most one point vector per queue slot, and the one each
\* session brings, ever has to allocate.
BoundedAllocation == grown <= capacity + consumers

\* Frame objects are neither lost nor duplicated by recycling, so the pool is
\* never full and its overflow branch never releases storage.
ObjectsConserved == Len(pool) + Len(queue) = fresh /\ fresh <= capacity

\* The queue implements the stream the viewer is promised.
Stream == INSTANCE FrameStream WITH Window <- capacity
StreamSpec == Stream!Spec
=============================================================================
