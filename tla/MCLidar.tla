-------------------------------- MODULE MCLidar --------------------------------
(* Small instances of Lidar for TLC.                                         *)
EXTENDS Lidar
================================================================================
