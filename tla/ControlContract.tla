--------------------------- MODULE ControlContract ---------------------------
(***************************************************************************)
(* What the actuation core promises about every control, whatever threads,  *)
(* crashes and adapter failures do:                                         *)
(*   - the intent of a control goes from PRESENT to ABSENT and never back;  *)
(*   - a control is open for dispatch from its creation on, in one stretch: *)
(*     once closed it is never dispatched again, and ABSENT closes it;      *)
(*   - a rule is withdrawn only in the name of a control whose intent to be *)
(*     ABSENT is already durable.                                           *)
(***************************************************************************)
CONSTANTS Actions, RuleOf
VARIABLES intent, open, rules

vars == <<intent, open, rules>>

Init ==
    /\ intent = [a \in Actions |-> "none"]
    /\ open = {}
    /\ rules = {}

Create(a) ==
    /\ intent[a] = "none"
    /\ intent' = [intent EXCEPT ![a] = "PRESENT"]
    /\ open' = open \cup {a}
    /\ UNCHANGED rules

Close(a) ==
    /\ open' = open \ {a}
    /\ UNCHANGED <<intent, rules>>

RequestAbsence(a) ==
    /\ intent[a] # "none"
    /\ intent' = [intent EXCEPT ![a] = "ABSENT"]
    /\ open' = open \ {a}
    /\ UNCHANGED rules

Publish(a) ==
    /\ intent[a] # "none"
    /\ rules' = rules \cup {RuleOf[a]}
    /\ UNCHANGED <<intent, open>>

Withdraw(a) ==
    /\ intent[a] = "ABSENT"
    /\ rules' = rules \ {RuleOf[a]}
    /\ UNCHANGED <<intent, open>>

Next ==
    \E a \in Actions : Create(a) \/ Close(a) \/ RequestAbsence(a)
                          \/ Publish(a) \/ Withdraw(a)

Spec == Init /\ [][Next]_vars
=============================================================================
