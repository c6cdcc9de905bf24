---------------------------- MODULE PolicyGates -----------------------------
(***************************************************************************)
(* Policy evaluation, a pure function of a policy, a target and the target's *)
(* evidence: which records bear on the decision, the scores they add up to, *)
(* the authorization, allowlist and mode gates, and the rung of the ladder;  *)
(* and the recheck of a control that is live already.                        *)
(*                                                                          *)
(* Evidence is a sequence of records, and what is left of it at each step is *)
(* a set of its indices.  Domains and address prefixes are both names        *)
(* ordered by Below.  A record's detail names nothing, a client, or a client *)
(* on an interactive protocol; clients are taken to be safe to put in an     *)
(* artifact, and the vote among several is left out.  So are the            *)
(* randomization of TTLs and rate ceilings, thresholds that are loaded and   *)
(* never used (fqdn_auto_m and its like: the floors decide), and allowlist   *)
(* expiries that do not parse.  dedicated_use stands for its _provenance     *)
(* variant too.                                                              *)
(***************************************************************************)
EXTENDS Integers, Sequences, FiniteSets

CONSTANTS
    Names,          \* targets and the entries of boundaries
    TypeOf,         \* [Names -> Types]
    Below,          \* [Names -> SUBSET Names]: equal to or under the entry
    Wildcards,      \* names with a * in them
    Kinds,          \* evidence kinds
    NoFloor,        \* of a rung that is never selected
    FamilyOf,       \* the behavioral family of a kind, or NoFamily
    NoFamily,
    Asserting,      \* kinds that assert maliciousness
    SharedInfra,    \* kinds that report shared infrastructure
    Needs,          \* upstreams a corroboration kind claims; 0 for the others
    Plain,          \* the kind an unfounded corroboration claim counts as
    Sources, ClassOf, UpstreamOf,
    Qualified,      \* independent sources that may corroborate enforcement
    Weight,         \* [Classes -> [Kinds -> Weights]]: the evidence table
    Instants,       \* observed_at
    Stale,          \* instants outside the recency window
    CorroboratedCap \* cap of corroborated behavioral evidence: 92, not loadable

Types == {"fqdn", "ip", "cidr", "other"}
Classes == {"curated", "local", "community", "annotation", "attribution",
            "unregistered"}
Authoritative == {"curated", "local", "community"}
ControlPlane == {"recent", "bounded_scope", "exactness", "dedicated_use",
                 "verified_rollback"}
Modes == {"OFF", "OBSERVE", "SHADOW", "ENFORCE", "EMERGENCY"}
Rungs == {"NONE", "L0", "L1", "L2", "L4", "L5"}
Dispositions == {"NO_ACTION", "OBSERVE", "SHADOW_ACTION", "AUTO_ENFORCE",
                 "PROPOSE_OPERATOR_APPROVAL"}
Acting == {"SHADOW_ACTION", "AUTO_ENFORCE", "PROPOSE_OPERATOR_APPROVAL"}
Spaces == {"domains", "prefixes"}

Weights == [m : Int, s : Int, ip : Int]
Record == [kind : Kinds, source : Sources, at : Instants,
           detail : {"none", "client", "session"}]
Floors == [Rungs \ {"NONE", "L0"} -> {NoFloor} \cup [m : Nat, s : Nat]]
Entry == [name : Names, applies : BOOLEAN, expired : BOOLEAN]

(* An overlay is a policy that says only what it overrides: its mode may be  *)
(* UNSET.  allow is in order; applies: the entry's scope covers the policy's. *)
Policies == [mode : Modes \cup {"UNSET"}, open : BOOLEAN,
             boundary : [Spaces -> SUBSET Names], allow : Seq(Entry),
             observe : Nat, floors : Floors, envelope : Nat,
             families : SUBSET ({FamilyOf[k] : k \in Kinds} \ {NoFamily}),
             rateFamilies : Nat, denyFamilies : Nat, external : BOOLEAN,
             behavioralCap : Nat, wildcards : BOOLEAN,
             dedicated : SUBSET Names, rollback : SUBSET Names]

ASSUME GatesAssumption ==
    /\ TypeOf \in [Names -> Types]
    /\ Below \in [Names -> SUBSET Names]
    /\ \A n \in Names : n \in Below[n]
    /\ \A n \in Names : \A k \in Below[n] : Below[k] \subseteq Below[n]
    /\ Wildcards \subseteq Names
    /\ ControlPlane \subseteq Kinds /\ Plain \in Kinds
    /\ DOMAIN FamilyOf = Kinds
    /\ Needs \in [Kinds -> Nat]
    /\ ClassOf \in [Sources -> Classes] /\ Qualified \subseteq Sources
    /\ Weight \in [Classes -> [Kinds -> Weights]]
    /\ Stale \subseteq Instants
    /\ CorroboratedCap \in Nat

-----------------------------------------------------------------------------
(* The gates.  A definition whose name ends in Bug is the next one with a    *)
(* plausible mistake in it.                                                  *)

SpaceOf(n) == IF TypeOf[n] \in {"ip", "cidr"} THEN "prefixes" ELSE "domains"

InScope(p, n) ==
    p.open \/ \E d \in p.boundary[SpaceOf(n)] : n \in Below[d]

Allowlisted(p, n) ==
    \E i \in DOMAIN p.allow :
        p.allow[i].name = n /\ p.allow[i].applies /\ ~p.allow[i].expired

(* policy_allows_presence: may a control stored with this mode stay live?    *)
AllowsPresenceBug(p, n, mode) ==
    /\ p.mode = mode
    /\ ~Allowlisted(p, n)
    /\ InScope(p, n)
AllowsPresence(p, n, mode) ==
    /\ p.mode # "OFF"
    /\ mode = "ENFORCE" => p.mode = "ENFORCE"
    /\ ~Allowlisted(p, n)
    /\ InScope(p, n)

-----------------------------------------------------------------------------
(* Which records bear on the decision.                                       *)

ZeroWeight(r) == ClassOf[r.source] \notin Authoritative
Behavioral(r) == FamilyOf[r.kind] # NoFamily
Fresh(r) == r.at \notin Stale

Bearing(p, e) ==
    {i \in DOMAIN e :
        /\ ~ZeroWeight(e[i])
        /\ Behavioral(e[i]) /\ p.families # {} => FamilyOf[e[i].kind] \in p.families}

(* One observation reported twice by one upstream counts once, the first.    *)
SameObservation(r, s) ==
    /\ UpstreamOf[r.source] = UpstreamOf[s.source]
    /\ r.kind = s.kind /\ r.at = s.at
Deduplicated(e, S) ==
    {i \in S : \A j \in S : j < i => ~SameObservation(e[i], e[j])}

Enveloped(S, n) ==
    {i \in S : Cardinality({j \in S : j < i}) < (IF n > 1 THEN n ELSE 1)}

\* the envelope is cut before the records without authority are dropped
DecisiveBug(p, e) ==
    Enveloped(DOMAIN e, p.envelope) \cap Deduplicated(e, Bearing(p, e))
Decisive(p, e) == Enveloped(Deduplicated(e, Bearing(p, e)), p.envelope)

-----------------------------------------------------------------------------
(* Scores.                                                                   *)

Total(points, n) ==     \* the first n points, added up
    LET upTo[k \in 0..n] == IF k = 0 THEN 0 ELSE upTo[k - 1] + points[k]
    IN  upTo[n]
Clamp(v) == IF v < 0 THEN 0 ELSE IF v > 100 THEN 100 ELSE v
AtMost(a, b) == IF a < b THEN a ELSE b
AtLeast(a, b) == IF a > b THEN a ELSE b

(* Control-plane facts count only when the controller can vouch for them.    *)
Facts(p, n, e, S) ==
    {"exactness"}
        \cup (IF \E i \in S : Fresh(e[i]) THEN {"recent"} ELSE {})
        \cup (IF InScope(p, n) THEN {"bounded_scope"} ELSE {})
        \cup (IF n \in p.dedicated THEN {"dedicated_use"} ELSE {})
        \cup (IF n \in p.rollback THEN {"verified_rollback"} ELSE {})

Counted(p, n, e, S) ==
    {i \in S :
        /\ Behavioral(e[i]) => ClassOf[e[i].source] = "local"
        /\ e[i].kind \in ControlPlane => e[i].kind \in Facts(p, n, e, S)}

(* Distinct upstreams behind fresh assertions of qualified outside sources.  *)
Upstreams(e, S) ==
    {UpstreamOf[e[i].source] : i \in
        {j \in S : /\ ClassOf[e[j].source] \in {"curated", "community"}
                   /\ e[j].source \in Qualified
                   /\ e[j].kind \in Asserting /\ Fresh(e[j])}}

WeightOf(r) == Weight[ClassOf[r.source]][r.kind]

M(e, S, i) ==
    LET w == WeightOf(e[i]).m IN
    IF ~Fresh(e[i]) THEN AtMost(0, w)
    ELSE IF w > 0 /\ Cardinality(Upstreams(e, S)) < Needs[e[i].kind]
         THEN Weight[ClassOf[e[i].source]][Plain].m
         ELSE w

Families(e, S) ==
    {FamilyOf[e[i].kind] : i \in
        {j \in S : Behavioral(e[j]) /\ ClassOf[e[j].source] = "local"}}

BehavioralCap(p, families) ==
    IF families = {} THEN 100
    ELSE IF Cardinality(families) >= AtLeast(1, p.rateFamilies)
         THEN CorroboratedCap ELSE p.behavioralCap

Maliciousness(p, n, e, S) ==
    LET C == Counted(p, n, e, S)
        all == Total([i \in DOMAIN e |-> IF i \in C THEN M(e, S, i) ELSE 0], Len(e))
        behavioral ==
            Total([i \in DOMAIN e |-> IF i \in C /\ Behavioral(e[i])
                                      THEN M(e, S, i) ELSE 0], Len(e))
        cap == BehavioralCap(p, Families(e, S))
    IN  Clamp(IF behavioral <= cap THEN all ELSE all - behavioral + cap)

SafetyInContext(p, n, e, S) ==
    LET C == Counted(p, n, e, S) IN
    Clamp(Total([i \in DOMAIN e |->
                    IF i \in C /\ Fresh(e[i]) /\ e[i].kind \notin SharedInfra
                    THEN WeightOf(e[i]).s ELSE 0], Len(e)))
SafetyOfAddress(p, n, e, S) ==
    LET C == Counted(p, n, e, S) IN
    Clamp(Total([i \in DOMAIN e |-> IF i \in C /\ Fresh(e[i])
                                    THEN WeightOf(e[i]).ip ELSE 0], Len(e)))

-----------------------------------------------------------------------------
(* The ladder.                                                               *)

(* Behavioral evidence denies only when enough families agree, and outside   *)
(* sources with them.                                                        *)
DenyAllowed(p, e, S) ==
    Families(e, S) # {} =>
        /\ Cardinality(Families(e, S)) >= p.denyFamilies
        /\ p.external => Upstreams(e, S) # {}

(* Of an address: someone vouches that it is not shared.                     *)
Dedicated(p, n, e, S) ==
    /\ \E i \in Counted(p, n, e, S) : e[i].kind = "dedicated_use" /\ Fresh(e[i])
    /\ \A i \in S : e[i].kind \notin SharedInfra

(* What the controller knows of a client, from every row it has stored.      *)
Client(e) == \E i \in DOMAIN e : e[i].detail # "none"
Interactive(e) == \E i \in DOMAIN e : e[i].detail = "session"

Clears(p, rung, m, s) ==
    /\ p.floors[rung] # NoFloor
    /\ m >= p.floors[rung].m /\ s >= p.floors[rung].s

Candidates(type, deny) ==
    {r \in Rungs :
        /\ r \notin {"NONE", "L0"}
        /\ r = "L5" => type = "ip" /\ deny
        /\ r = "L4" => type = "fqdn" /\ deny
        /\ r = "L2" => type \in {"fqdn", "ip"}
        /\ r = "L1" => type # "cidr"}

Gated(p, n, e, S, rung) ==
    /\ rung = "L5" => Dedicated(p, n, e, S)
    /\ rung \in {"L1", "L2"} => Client(e)
    /\ rung = "L1" => Interactive(e)
    /\ Clears(p, rung, Maliciousness(p, n, e, S),
              IF rung = "L5" THEN SafetyOfAddress(p, n, e, S)
                             ELSE SafetyInContext(p, n, e, S))

(* select_rung: the strongest candidate that passes its gates and its floor. *)
RungRank == [NONE |-> 0, L0 |-> 0, L1 |-> 1, L2 |-> 2, L4 |-> 4, L5 |-> 5]
SelectRung(p, n, e, S) ==
    LET open == {r \in Candidates(TypeOf[n], DenyAllowed(p, e, S)) :
                    Gated(p, n, e, S, r)}
    IN  IF open = {} THEN "L0"
        ELSE CHOOSE r \in open : \A q \in open : RungRank[q] <= RungRank[r]

-----------------------------------------------------------------------------
(* evaluate().                                                               *)

Outcomes == [disposition : Dispositions, rung : Rungs]
Outcome(disposition, rung) == [disposition |-> disposition, rung |-> rung]
NoAction == Outcome("NO_ACTION", "NONE")

NeedsApproval(p, n) == TypeOf[n] = "fqdn" /\ n \in Wildcards /\ ~p.wildcards

(* What a mode makes of a rung, and of a wildcard that needs approval.       *)
ActsBy == [SHADOW |-> "SHADOW_ACTION", ENFORCE |-> "AUTO_ENFORCE",
           EMERGENCY |-> "PROPOSE_OPERATOR_APPROVAL"]
AsksBy == [ActsBy EXCEPT !.ENFORCE = "PROPOSE_OPERATOR_APPROVAL"]

(* The mode dispatch, for a target with a score worth looking at.            *)
Dispatched(p, n, e, S) ==
    LET rung == SelectRung(p, n, e, S) IN
    IF p.mode = "OFF" THEN NoAction
    ELSE IF p.mode = "OBSERVE" THEN Outcome("OBSERVE", "L0")
    ELSE IF NeedsApproval(p, n) THEN Outcome(AsksBy[p.mode], "L4")
    ELSE IF TypeOf[n] = "cidr" /\ p.mode # "EMERGENCY" THEN Outcome("OBSERVE", "NONE")
    ELSE IF rung = "L0" THEN Outcome("OBSERVE", "L0")
    ELSE Outcome(ActsBy[p.mode], rung)

Evaluate(p, n, e) ==
    LET S == Decisive(p, e) IN
    IF ~InScope(p, n) \/ Allowlisted(p, n) \/ Maliciousness(p, n, e, S) < p.observe
    THEN NoAction
    ELSE Dispatched(p, n, e, S)
=============================================================================
