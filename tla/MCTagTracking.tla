---------------------------- MODULE MCTagTracking ----------------------------
(* Small instances of TagTracking for TLC. *)
EXTENDS TagTracking

CONSTANTS t1, t2
=============================================================================
