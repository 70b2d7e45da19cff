--------------------------- MODULE MCPortDiscovery ---------------------------
(* Small instances of PortDiscovery for TLC. *)
EXTENDS PortDiscovery

CONSTANTS a1, a2
=============================================================================
