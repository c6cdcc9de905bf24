---------------------------- MODULE MCRpzAdapter ----------------------------
(* Instances of RpzAdapter for TLC.                                          *)
EXTENDS RpzAdapter, TLC

CONSTANTS o1, o2, p1, p2, w1, w2

OneProcess == w1 :> p1
TwoProcesses == (w1 :> p1) @@ (w2 :> p2)
OwnerSymmetry == Permutations(Owners)
=============================================================================
