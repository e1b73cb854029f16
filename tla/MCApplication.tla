----------------------------- MODULE MCApplication -----------------------------
(* Small instances of Application for TLC: a scan without an obstacle, one   *)
(* with an obstacle in an outer sector, one with two.                        *)
EXTENDS Application

MCFrames == {{}, {"left"}, {"left_center", "center"}}
================================================================================
