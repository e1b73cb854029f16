-------------------------------- MODULE MCRelay --------------------------------
(* A small instance of Relay for TLC: its cfg gives every constant.          *)
EXTENDS Relay
================================================================================
