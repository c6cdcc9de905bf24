---------------------------- MODULE TenantOverlay ----------------------------
(***************************************************************************)
(* A tenant of a shared deployment may lay a policy of its own over the     *)
(* global one, meant only to tighten it.  The module follows one indicator  *)
(* of that tenant from its evidence to a decision under the merged policy,  *)
(* a control, its dispatch and the reconciler's rechecks, while operators   *)
(* promote global policies and stage and remove the overlay.                *)
(*                                                                          *)
(* Texts are named by their content, and one control of the indicator is    *)
(* followed at a time.  What dispatch and removal go through is            *)
(* ActionLifecycle's; who may approve a proposal when, the budget of a      *)
(* batch and the posture ladder of promotions are DecisionLedger's; the     *)
(* adapter's own boundary is RpzAdapter's.  An action without a proposal is *)
(* made in the handler that decides; here it may come later, under other    *)
(* policies.                                                                *)
(***************************************************************************)
EXTENDS PolicyGates, SequencesExt

CONSTANTS
    Contents, PolicyText,   \* global policies: [Contents -> Policies]
    Overlays, OverlayText,  \* tenant overlays: [Overlays -> Policies]
    Nothing,                \* no overlay, no content
    AdapterMax,             \* the adapters' maximum posture
    Targets,                \* names an indicator may be of
    Reports,                \* [Targets -> SUBSET Record]: what is seen of each
    MaxEvidence             \* bound: records of the indicator

(* What the loader lets through of a global policy: a mode, and no boundary  *)
(* beside reference_unrestricted.                                            *)
ASSUME TenantAssumption ==
    /\ PolicyText \in [Contents -> Policies]
    /\ \A c \in Contents :
          /\ PolicyText[c].mode \in Modes
          /\ PolicyText[c].open => \A s \in Spaces : PolicyText[c].boundary[s] = {}
    /\ OverlayText \in [Overlays -> Policies]
    /\ Nothing \notin Overlays \cup Contents
    /\ AdapterMax \in {"OBSERVE", "SHADOW", "ENFORCE"}
    /\ Targets \subseteq Names
    /\ Reports \in [Targets -> SUBSET Record]
    /\ MaxEvidence \in Nat

VARIABLES
    policy,    \* content of the active global policy row
    overlay,   \* the tenant's overlay, or Nothing
    target,    \* the indicator's value
    evidence,  \* its records, in ledger order
    decision,  \* its last decision
    control    \* the action made from a decision

vars == <<policy, overlay, target, evidence, decision, control>>

NoDecision == [outcome |-> NoAction, bound |-> Nothing, current |-> FALSE]
ControlStates == {"none", "pending", "active"}
NoControl == [state |-> "none", mode |-> "SHADOW", bound |-> Nothing,
              current |-> FALSE]

-----------------------------------------------------------------------------
(* The merge.                                                                *)

Rank == [OFF |-> 0, OBSERVE |-> 1, SHADOW |-> 2, ENFORCE |-> 3, EMERGENCY |-> 4]

\* an overlay that names no mode is compared like any other
StricterModeBug(g, o) ==
    IF (IF o = "UNSET" THEN 2 ELSE Rank[o]) < Rank[g] THEN o ELSE g
StricterMode(g, o) ==
    IF o # "UNSET" /\ Rank[o] < Rank[g] THEN o ELSE g

(* Entries of an overlay's boundary count when they are inside the global    *)
(* one; no entry at all, or none inside, keeps the global.  Where the global *)
(* names none, the overlay's stand.                                          *)
NarrowBug(G, O) == IF O = {} THEN G ELSE O
Narrow(G, O) ==
    LET inside == {n \in O : \E d \in G : n \in Below[d]}
    IN  IF O = {} THEN G
        ELSE IF G = {} THEN O
        ELSE IF inside = {} THEN G ELSE inside

(* Floors are only raised, and only of rungs the global policy has one for.  *)
RaiseFloorsBug(g, o) ==
    [r \in DOMAIN g |-> IF o[r] # NoFloor THEN o[r] ELSE g[r]]
RaiseFloors(g, o) ==
    [r \in DOMAIN g |->
        IF NoFloor \in {g[r], o[r]} THEN g[r]
        ELSE [m |-> AtLeast(g[r].m, o[r].m), s |-> AtLeast(g[r].s, o[r].s)]]

(* The global's entries, the last of each name; an overlay can only repeat   *)
(* one of them.                                                              *)
Governed(allow) ==
    [i \in {k \in DOMAIN allow :
               \A j \in DOMAIN allow : allow[j].name = allow[k].name => j <= k}
        |-> allow[i]]

Merge(g, o) ==
    [mode |-> StricterMode(g.mode, o.mode),
     open |-> g.open /\ o.open,
     boundary |-> [s \in Spaces |-> Narrow(g.boundary[s], o.boundary[s])],
     allow |-> Governed(g.allow),
     observe |-> AtLeast(g.observe, o.observe),
     floors |-> RaiseFloors(g.floors, o.floors),
     envelope |-> AtMost(g.envelope, o.envelope),
     families |-> g.families \cup o.families,
     rateFamilies |-> AtLeast(g.rateFamilies, o.rateFamilies),
     denyFamilies |-> AtLeast(g.denyFamilies, o.denyFamilies),
     external |-> g.external \/ o.external,
     behavioralCap |-> AtMost(g.behavioralCap, o.behavioralCap),
     wildcards |-> g.wildcards,
     dedicated |-> g.dedicated,
     rollback |-> g.rollback]

Global == PolicyText[policy]
Effective ==
    IF overlay = Nothing THEN Global ELSE Merge(Global, OverlayText[overlay])

-----------------------------------------------------------------------------
(* Operators and sources.  current says that no policy or overlay changed    *)
(* since the decision was made, or the live control was last rechecked; it   *)
(* is there for the properties only.                                         *)

PoliciesMoved ==
    /\ decision' = [decision EXCEPT !.current = FALSE]
    /\ control' = [control EXCEPT !.current = FALSE]

Promote(c) ==
    /\ c # policy
    /\ policy' = c
    /\ PoliciesMoved
    /\ UNCHANGED <<overlay, target, evidence>>

(* Problems in the text are stored beside it and stop nothing.               *)
StageOverlay(o) ==
    /\ o # overlay
    /\ overlay' = o
    /\ PoliciesMoved
    /\ UNCHANGED <<policy, target, evidence>>

RemoveOverlay ==
    /\ overlay # Nothing
    /\ overlay' = Nothing
    /\ PoliciesMoved
    /\ UNCHANGED <<policy, target, evidence>>

Report(r) ==
    /\ Len(evidence) < MaxEvidence
    /\ evidence' = Append(evidence, r)
    /\ UNCHANGED <<policy, overlay, target, decision, control>>

-----------------------------------------------------------------------------
(* The controller.                                                           *)

(* decide_indicator: the effective policy now, bound to the global content.  *)
DecideIndicator ==
    /\ evidence # <<>>
    /\ decision' = [outcome |-> Evaluate(Effective, target, evidence),
                    bound |-> policy, current |-> TRUE]
    /\ UNCHANGED <<policy, overlay, target, evidence, control>>

Materializable(n, rung) ==
    /\ TypeOf[n] = "fqdn" => rung \in {"L2", "L4"} /\ n \notin Wildcards
    /\ TypeOf[n] = "ip" => rung \in {"L2", "L5"}
    /\ TypeOf[n] \in {"fqdn", "ip"}

Posture(p, disposition) ==
    IF /\ p.mode = "ENFORCE" /\ AdapterMax = "ENFORCE"
       /\ disposition \in {"AUTO_ENFORCE", "PROPOSE_OPERATOR_APPROVAL"}
    THEN "ENFORCE" ELSE "SHADOW"

(* create_action_from_decision, of an approved proposal or at once: under    *)
(* the effective policy of this moment, not of the decision's.               *)
CreateAction ==
    /\ decision.outcome.disposition \in Acting
    /\ decision.outcome.disposition = "PROPOSE_OPERATOR_APPROVAL"
          => decision.bound = policy
    /\ control = NoControl
    /\ InScope(Effective, target)
    /\ Materializable(target, decision.outcome.rung)
    /\ AdapterMax # "OBSERVE"
    /\ control' = [state |-> "pending",
                   mode |-> Posture(Effective, decision.outcome.disposition),
                   bound |-> decision.bound, current |-> decision.current]
    /\ decision' = NoDecision
    /\ UNCHANGED <<policy, overlay, target, evidence>>

(* _stale_authorization, of a pending action.                                *)
StillAuthorized ==
    /\ control.bound = policy
    /\ AllowsPresence(Effective, target, control.mode)

Apply ==
    /\ control.state = "pending" /\ StillAuthorized
    /\ control' = [control EXCEPT !.state = "active", !.current = TRUE]
    /\ UNCHANGED <<policy, overlay, target, evidence, decision>>

Cancel ==
    /\ control.state = "pending" /\ ~StillAuthorized
    /\ control' = NoControl
    /\ UNCHANGED <<policy, overlay, target, evidence, decision>>

(* The reconciler re-authorizes what is live: the presence, not the revision. *)
Keep ==
    /\ control.state = "active"
    /\ AllowsPresence(Effective, target, control.mode)
    /\ control' = [control EXCEPT !.current = TRUE]
    /\ UNCHANGED <<policy, overlay, target, evidence, decision>>

Withdraw ==
    /\ control.state = "active"
    /\ ~AllowsPresence(Effective, target, control.mode)
    /\ control' = NoControl
    /\ UNCHANGED <<policy, overlay, target, evidence, decision>>

Init ==
    /\ policy \in Contents
    /\ overlay = Nothing
    /\ target \in Targets
    /\ evidence = <<>>
    /\ decision = NoDecision
    /\ control = NoControl

Next ==
    \/ \E c \in Contents : Promote(c)
    \/ \E o \in Overlays : StageOverlay(o)
    \/ RemoveOverlay
    \/ \E r \in Reports[target] : Report(r)
    \/ DecideIndicator
    \/ CreateAction
    \/ Apply
    \/ Cancel
    \/ Keep
    \/ Withdraw

Spec == Init /\ [][Next]_vars

-----------------------------------------------------------------------------
(* Properties.                                                               *)

(* Type correctness; and the sentinel of an overlay that names no mode never *)
(* survives the merge.                                                       *)
TypeOK ==
    /\ policy \in Contents /\ overlay \in Overlays \cup {Nothing}
    /\ target \in Targets
    /\ evidence \in Seq(Record) /\ Len(evidence) <= MaxEvidence
    /\ decision \in [outcome : Outcomes, bound : Contents \cup {Nothing},
                     current : BOOLEAN]
    /\ control \in [state : ControlStates, mode : {"SHADOW", "ENFORCE"},
                    bound : Contents \cup {Nothing}, current : BOOLEAN]
    /\ Effective.mode \in Modes

(* The global policies the merge is able to clamp an overlay to: EMERGENCY   *)
(* asks for approvals but ranks above ENFORCE; a boundary that declares      *)
(* nothing in one space reads as open to the merge and as closed to          *)
(* in_scope; of two allowlist entries of one name the merge keeps the last.  *)
Clampable(g, n) ==
    /\ g.mode # "EMERGENCY"
    /\ g.open \/ g.boundary[SpaceOf(n)] # {}
    /\ \A i, j \in DOMAIN g.allow : g.allow[i].name = g.allow[j].name => i = j

(* A control that is live, and was rechecked since the last change, is one   *)
(* the global policy itself would leave in place: no overlay extends the     *)
(* boundary, the posture or the set of targets, whatever it says.            *)
LiveWithinGlobal ==
    control.state = "active" /\ control.current /\ Clampable(Global, target)
        => AllowsPresence(Global, target, control.mode)

(* The same of every global policy: what layer.py promises of any input.     *)
(* (TLC refutes this: see the README, Findings.)                             *)
OverlayNeverWidens ==
    control.state = "active" /\ control.current
        => AllowsPresence(Global, target, control.mode)

(* The gates of evaluate() and the recheck at dispatch agree: a control is   *)
(* only cancelled when a promotion or an overlay came between its decision   *)
(* and its dispatch.  Otherwise a decision could mint, at every re-decision, *)
(* an action that dispatch refuses.                                          *)
CancelledHasCause ==
    [][control.state = "pending" /\ control' = NoControl => ~control.current]_vars

DispositionRank == [NO_ACTION |-> 0, OBSERVE |-> 1, SHADOW_ACTION |-> 2,
                    PROPOSE_OPERATOR_APPROVAL |-> 3, AUTO_ENFORCE |-> 4]
NoStronger(a, b) ==
    /\ DispositionRank[a.disposition] <= DispositionRank[b.disposition]
    /\ RungRank[a.rung] <= RungRank[b.rung]

(* Whatever the evidence, the tenant's decision is no stronger than the one  *)
(* the global policy would make of it, as long as both weigh the same        *)
(* records and corroboration raises the behavioral cap.                      *)
OverlayNeverStrengthens ==
    /\ Clampable(Global, target)
    /\ Decisive(Effective, evidence) = Decisive(Global, evidence)
    /\ Global.behavioralCap <= CorroboratedCap
    => NoStronger(Evaluate(Effective, target, evidence),
                  Evaluate(Global, target, evidence))

(* A record of a source without authority never makes or unmakes a denial,   *)
(* whatever it says and wherever it stands: the outcome is the same without  *)
(* it, and so, one after the other, without any number of them.              *)
AnnotationsNeverDeny ==
    \A i \in {k \in DOMAIN evidence : ZeroWeight(evidence[k])} :
        LET with == Evaluate(Effective, target, evidence)
            without == Evaluate(Effective, target, RemoveAt(evidence, i))
        IN  {with.rung, without.rung} \cap {"L4", "L5"} # {} => with = without
==============================================================================
