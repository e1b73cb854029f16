------------------------------ MODULE MCWakePipe ------------------------------
(* A small instance of WakePipe for TLC.                                     *)
EXTENDS WakePipe
=============================================================================
