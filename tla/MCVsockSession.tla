--------------------------- MODULE MCVsockSession ---------------------------
(* A small instance of VsockSession for TLC: half-second ticks and the     *)
(* code's seconds halved.                                                  *)
EXTENDS VsockSession
=============================================================================
