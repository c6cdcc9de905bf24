--------------------------- MODULE MCDecisionLedger ---------------------------
(* Instances of DecisionLedger for TLC.  Every text scores every observable  *)
(* for denial, so that only modes, scopes and budgets tell texts apart.      *)
EXTENDS DecisionLedger, TLC

CONSTANTS
    o1, o2, out, wild,   \* two names, one outside the adapter's scope, a wildcard
    b1, b2,
    enforce, revised,    \* two revisions of one version
    shadow, emergency

OverlappingBatches == (b1 :> <<o1, o2>>) @@ (b2 :> <<o2, wild>>)
OneBatch == b1 :> <<o1, out>>

Version == [c \in Contents |-> IF c \in {enforce, revised} THEN "v1" ELSE "v2"]
Mode == [c \in Contents |-> CASE c = shadow -> "SHADOW"
                              [] c = emergency -> "EMERGENCY"
                              [] OTHER -> "ENFORCE"]
AllDeny == [c \in Contents |-> [o \in Observables |-> "L4"]]
ShadowIsNarrow == [c \in Contents |-> IF c = shadow THEN Observables \ {o1}
                                                   ELSE Observables]
OneBudget == [c \in Contents |-> IF c = shadow THEN NoBudget ELSE 1]

ThreadSymmetry == Permutations(Workers) \cup Permutations(Operators)
===============================================================================
