---------------------------- MODULE MCRestoreTxn ----------------------------
(* Small instances of RestoreTxn for TLC.                                  *)
EXTENDS RestoreTxn, TLC

CONSTANTS f1, f2, c1, c2, g1, g2, s1

(* Two flat restores under one gc, one restore of either kind under two,   *)
(* and clones that meet a clone or a flat restore by themselves.           *)
MCCrews ==
    {crew \in SUBSET Actors :
        \/ Cardinality(crew \cap Rooms) = 1 /\ Gcs \subseteq crew
        \/ /\ Cardinality(crew \cap Rooms) = 2
           /\ Cardinality(crew \cap Gcs) = IF crew \cap Clones = {} THEN 1 ELSE 0}

(* One restore under every gc.                                             *)
MCSolo ==
    {crew \in SUBSET Actors :
        Cardinality(crew \cap Rooms) = 1 /\ Gcs \subseteq crew}

(* Everybody.                                                              *)
MCAll == {Actors}

(* Flat restores, clones and gc processes are interchangeable in kind.     *)
RestoreSymmetry ==
    Permutations(Rooms \ Clones) \cup Permutations(Clones) \cup Permutations(Gcs)
=============================================================================
