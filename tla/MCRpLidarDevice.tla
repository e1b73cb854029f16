---------------------------- MODULE MCRpLidarDevice ----------------------------
(* A small instance of RpLidarDevice for TLC.                                *)
EXTENDS RpLidarDevice
================================================================================
