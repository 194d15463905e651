---------------------------- MODULE MCCloneBatch ----------------------------
(* Small instances of CloneBatch for TLC.                                  *)
EXTENDS CloneBatch
=============================================================================
