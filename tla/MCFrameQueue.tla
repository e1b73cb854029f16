----------------------------- MODULE MCFrameQueue -----------------------------
(* Small instances of FrameQueue for TLC.                                    *)
EXTENDS FrameQueue
=============================================================================
