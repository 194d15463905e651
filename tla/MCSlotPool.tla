----------------------------- MODULE MCSlotPool -----------------------------
(* A small instance of SlotPool for TLC.                                   *)
EXTENDS SlotPool

CONSTANTS r1, r2, g1, s1
=============================================================================
