--------------------------- MODULE MCCloneNetPool ---------------------------
(* Two batches that use different state directories of one host.           *)
EXTENDS CloneNetPool

CONSTANTS p, q, a1, a2, b1, ga, gb, A, B

MCBatchOf == [r \in Rooms |-> IF r = b1 THEN q ELSE p]
MCBaseOf == [x \in Batches \cup Gcs |-> IF x \in {q, gb} THEN B ELSE A]
=============================================================================
