-------------------------- MODULE ArtifactContract --------------------------
(***************************************************************************)
(* What concurrent publishers of the two RPZ artifacts promise: every call  *)
(* takes effect in one step, which adds or removes one name in the one       *)
(* artifact its posture selects, and no other call's effect is lost.        *)
(***************************************************************************)
CONSTANTS Owners, Artifacts
VARIABLE published        \* [Artifacts -> SUBSET Owners]

Init == published = [k \in Artifacts |-> {}]

Publish(k, o) == published' = [published EXCEPT ![k] = @ \cup {o}]
Withdraw(k, o) == published' = [published EXCEPT ![k] = @ \ {o}]

Next == \E k \in Artifacts, o \in Owners : Publish(k, o) \/ Withdraw(k, o)

Spec == Init /\ [][Next]_published
=============================================================================
