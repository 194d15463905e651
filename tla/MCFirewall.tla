----------------------------- MODULE MCFirewall -----------------------------
(* Small instances of Firewall for TLC.                                    *)
EXTENDS Firewall, TLC

(* One pair of rooms of each combination of kinds: clones differ in their  *)
(* names only, so one of them stands for any in the mixed pair.            *)
MCCrews == {Taps, Veths} \cup {{x, "veth1"} : x \in Taps}

(* The flat rooms differ in their names only.                              *)
TapSymmetry == Permutations(Taps)
=============================================================================
