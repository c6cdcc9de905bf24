-------------------------- MODULE ProposalContract --------------------------
(***************************************************************************)
(* What the approval of proposals promises: a proposal, once recorded, is   *)
(* settled at most once, by one operator, for good; and only one that was   *)
(* approved is ever turned into actions.                                    *)
(***************************************************************************)
VARIABLES proposed,       \* proposals recorded
          approved,       \* proposals an operator approved
          rejected,       \* proposals an operator rejected
          acted           \* proposals that actions cite

vars == <<proposed, approved, rejected, acted>>

Init == proposed = {} /\ approved = {} /\ rejected = {} /\ acted = {}

Propose(p) ==
    /\ proposed' = proposed \cup {p}
    /\ UNCHANGED <<approved, rejected, acted>>

Open(p) == p \in proposed \ (approved \cup rejected)

Approve(p) ==
    /\ Open(p)
    /\ approved' = approved \cup {p}
    /\ UNCHANGED <<proposed, rejected, acted>>

Reject(p) ==
    /\ Open(p)
    /\ rejected' = rejected \cup {p}
    /\ UNCHANGED <<proposed, approved, acted>>

Act(p) ==
    /\ p \in approved \ acted
    /\ acted' = acted \cup {p}
    /\ UNCHANGED <<proposed, approved, rejected>>

\* The step's proposal is on record once the step is taken.
Next == \E p \in proposed' : Propose(p) \/ Approve(p) \/ Reject(p) \/ Act(p)

Spec == Init /\ [][Next]_vars
=============================================================================
