--------------------------- MODULE MCHostSession ---------------------------
(* HostSession with a few connections, for TLC. *)
EXTENDS HostSession
=============================================================================
