--------------------------- MODULE MCSnapshotTxn ---------------------------
(* A small instance of SnapshotTxn for TLC.                                *)
EXTENDS SnapshotTxn

CONSTANTS b1, x1, p1, p2, p3
=============================================================================
