----------------------------- MODULE FrameQueueOps -----------------------------
(****************************************************************************)
(* The operations of network/FrameQueue.cpp on the queue itself, as          *)
(* functions of its contents (oldest frame first).                           *)
(****************************************************************************)
EXTENDS Naturals, Sequences

CONSTANT Configured      \* the capacity the constructor is given

ASSUME ConfiguredAssumption == Configured \in Nat

\* The constructor: values below 1 are clamped to 1.
capacity == IF Configured = 0 THEN 1 ELSE Configured

\* push(): how many of the oldest frames are evicted to make room ...
Evictions(q) == IF Len(q) >= capacity THEN Len(q) - capacity + 1 ELSE 0

\* Mutant: the newest frame gives way.
DropsNewest(q, f) == Append(SubSeq(q, 1, Len(q) - Evictions(q)), f)

\* ... and the queue once the copy of the frame is at its back.
Pushed(q, f) == Append(SubSeq(q, Evictions(q) + 1, Len(q)), f)
================================================================================
