-------------------------- MODULE MCActionLifecycle --------------------------
(* Instances of ActionLifecycle for TLC.                                     *)
EXTENDS ActionLifecycle, TLC

CONSTANTS a1, a2, c1, c2, r1

(* Every action denies the same physical rule.                               *)
OneRule == [a \in Actions |-> r1]

ControllerSymmetry == Permutations(Controllers)
==============================================================================
