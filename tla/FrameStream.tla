------------------------------ MODULE FrameStream ------------------------------
(****************************************************************************)
(* What the viewer's side of the node promises about scans: a viewer gets    *)
(* scans in acquisition order and never the same one twice; it may miss      *)
(* some, but a scan it is given is one of the newest Window of them.         *)
(****************************************************************************)
EXTENDS Naturals

CONSTANT Window          \* how far behind the newest scan a delivery may be

VARIABLES newest,        \* number of the newest scan offered
          delivered      \* number of the last scan handed over, 0 before any

vars == <<newest, delivered>>

Init == newest = 0 /\ delivered = 0

Offer == newest' = newest + 1 /\ UNCHANGED delivered

Deliver ==
    /\ delivered' \in (delivered + 1)..newest
    /\ delivered' + Window > newest
    /\ UNCHANGED newest

Next == Offer \/ Deliver

Spec == Init /\ [][Next]_vars
================================================================================
