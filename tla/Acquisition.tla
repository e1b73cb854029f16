------------------------------ MODULE Acquisition ------------------------------
(****************************************************************************)
(* What Lidar promises the consumer of its frames: frames arrive only        *)
(* between a start() and the return of the stop() that ends it, numbered     *)
(* without gap or repetition across every start.                             *)
(****************************************************************************)
EXTENDS Naturals

CONSTANT SeqMod          \* sequence numbers are counted modulo SeqMod

VARIABLES attached,      \* the consumer may be called
          seq            \* the next sequence number

vars == <<attached, seq>>

Init == attached = FALSE /\ seq = 0

Attach == attached' = TRUE /\ UNCHANGED seq

Deliver == attached /\ seq' = (seq + 1) % SeqMod /\ UNCHANGED attached

Detach == attached' = FALSE /\ UNCHANGED seq

Next == Attach \/ Deliver \/ Detach

Spec == Init /\ [][Next]_vars
================================================================================
