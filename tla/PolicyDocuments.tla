--------------------------- MODULE PolicyDocuments ---------------------------
(***************************************************************************)
(* Policy documents and the two loaders that turn them into policies: the    *)
(* controller's and the reference implementation's.  A document is refused   *)
(* with every problem found in it, or it becomes a policy.                   *)
(*                                                                          *)
(* TOML and its ill-typed values are left out; a name that is no prefix, no  *)
(* domain or no instant is Garbled.  So are the thresholds that are loaded   *)
(* and never used, and the freshness window, which PolicyGates reads as the  *)
(* set of stale instants.  A value that is not there is Absent.              *)
(***************************************************************************)
EXTENDS PolicyGates

CONSTANTS Absent, Garbled, Unheard   \* Unheard: a family no detector knows

LadderNames == {"L1", "L2", "L4", "L5"}
Invariants == {"auto_prefix_deny", "auto_routing", "ai_components"}
Mechanisms == {"ttl_jitter", "rate_ceiling"}
Optional == {Absent} \cup Int
DetectedFamilies == {FamilyOf[k] : k \in Kinds} \ {NoFamily}

(* A document as the TOML reader hands it on, and an entry of its allowlist. *)
Allowed == [name : Names, applies : BOOLEAN, expired : BOOLEAN, governed : BOOLEAN,
            until : {"none", "valid", "garbled"}]
IsDocument(d) ==
    /\ d.mode \in Modes \cup {Garbled}
    /\ d.broken \subseteq Invariants            \* hard invariants it contradicts
    /\ {d.unrestricted, d.external, d.precedence, d.wildcards, d.random, d.versioned,
        d.unimplemented} \subseteq BOOLEAN      \* the last: names what nothing implements
    /\ d.boundary \in [Spaces -> SUBSET (Names \cup {Garbled})]
    /\ d.observe \in Int
    /\ DOMAIN d.rungs \subseteq LadderNames \cup {"L3"}
    /\ \A r \in DOMAIN d.rungs : d.rungs[r] \in [m : Int, s : Int]
    /\ {d.rate, d.deny, d.cap} \subseteq Optional  \* families for a limit, for a denial
    /\ d.families \subseteq DetectedFamilies \cup {Unheard}
    /\ {d.ceiling, d.budget, d.ttl, d.envelope} \subseteq Optional
    /\ {d.fraction, d.measured} \subseteq Optional \* the challenge budget, in millionths
    /\ DOMAIN d.jitter \subseteq Mechanisms \cup {"other"}   \* the mechanisms it names
    /\ \A k \in DOMAIN d.jitter : d.jitter[k] \in [lo : Int, hi : Int, on : BOOLEAN]
    /\ d.pinned \in {"none", "valid", "garbled"}
    /\ d.allow \in Seq(Allowed)
    /\ d.dedicated \cup d.rollback \subseteq Names \cup {Garbled}

Whole == 1000000   \* fractions are in millionths
Or(v, default) == IF v = Absent THEN default ELSE v
Below100(v) == v \in 0..100
SwitchedOn(d) == {k \in DOMAIN d.jitter : d.jitter[k].on}

-----------------------------------------------------------------------------
(* The controller's loader.                                                  *)

LadderOrder == <<"L1", "L2", "L4", "L5">>
Weaker(f, g) == f.m < g.m \/ f.s < g.s

(* A rung is not weaker than the one below it that has a floor.              *)
Monotonic(rungs) ==
    \A i, j \in 1..4 :
        LET a == LadderOrder[i]
            b == LadderOrder[j]
        IN  i < j /\ {a, b} \subseteq DOMAIN rungs
                /\ (\A k \in i + 1 .. j - 1 : LadderOrder[k] \notin DOMAIN rungs)
            => ~Weaker(rungs[b], rungs[a])

(* Names that are none, where no later step could tell them from others.     *)
Malformed(d) ==
    Garbled \in (UNION {d.boundary[s] : s \in Spaces}) \cup d.dedicated \cup d.rollback

(* A challenge budget is a knob of the reference alone.                      *)
BudgetsChallenges(d) == d.fraction # Absent \/ d.measured # Absent
Unimplemented(d) == d.unimplemented \/ BudgetsChallenges(d)

(* validate_policy: what can be wrong with a document.                       *)
Checks(d) ==
    [invariants |-> d.broken # {},
     mode |-> d.mode = Garbled,
     observe |-> ~Below100(d.observe),
     open |-> d.mode \in {"ENFORCE", "EMERGENCY"} /\ d.unrestricted,
     boundary |-> d.mode \in {"ENFORCE", "EMERGENCY"} /\ \A s \in Spaces : d.boundary[s] = {},
     rungs |-> \E r \in DOMAIN d.rungs :
                   r \notin LadderNames \/ ~Below100(d.rungs[r].m) \/ ~Below100(d.rungs[r].s),
     ladder |-> ~Monotonic(d.rungs),
     rate |-> Or(d.rate, 2) < 2,
     deny |-> Or(d.deny, 3) < 3 \/ Or(d.deny, 3) < Or(d.rate, 2),
     cap |-> Or(d.cap, 60) >= 95,
     families |-> Unheard \in d.families,
     precedence |-> ~d.precedence,
     ceiling |-> "L2" \in DOMAIN d.rungs /\ Or(d.ceiling, 0) <= 0,
     mechanism |-> ~(DOMAIN d.jitter \subseteq Mechanisms),
     jitter |-> \E k \in SwitchedOn(d) :
                    \/ d.jitter[k].lo > d.jitter[k].hi \/ d.jitter[k].lo < 0
                    \/ k = "rate_ceiling" /\ Or(d.ceiling, 0) = 0,
     version |-> d.random /\ ~d.versioned,
     pinned |-> d.pinned = "garbled",
     budget |-> Or(d.budget, 1) < 1,
     ttl |-> Or(d.ttl, 1) < 1,
     envelope |-> Or(d.envelope, 64) \notin 1..1024,
     allow |-> \E i \in DOMAIN d.allow : ~d.allow[i].governed \/ d.allow[i].until = "garbled",
     malformed |-> Malformed(d), unimplemented |-> Unimplemented(d)]

Problems(d) == {c \in DOMAIN Checks(d) : Checks(d)[c]}

(* build_policy, of a document without problems.                             *)
Entries(d) ==
    [i \in DOMAIN d.allow |-> [name |-> d.allow[i].name, applies |-> d.allow[i].applies,
                               expired |-> d.allow[i].expired]]
Bounded(d) == \E s \in Spaces : d.boundary[s] # {}

Build(d) ==
    [mode |-> d.mode, open |-> ~Bounded(d) /\ d.unrestricted, boundary |-> d.boundary,
     allow |-> Entries(d), observe |-> d.observe,
     floors |-> [r \in LadderNames |-> IF r \in DOMAIN d.rungs THEN d.rungs[r] ELSE NoFloor],
     envelope |-> Or(d.envelope, 64), families |-> d.families,
     rateFamilies |-> Or(d.rate, 2), denyFamilies |-> Or(d.deny, 3),
     external |-> d.external, behavioralCap |-> Or(d.cap, 60), wildcards |-> d.wildcards,
     dedicated |-> d.dedicated, rollback |-> d.rollback]

-----------------------------------------------------------------------------
(* The reference's loader, section by section of a document.                 *)

SafetyProblems(d) ==
    d.broken \cup {x \in {"precedence"} : ~d.precedence}

AuthorizationProblems(d) ==
    {x \in {"unrestricted"} : d.mode \in {"ENFORCE", "EMERGENCY"} /\ d.unrestricted}
    \cup {x \in {"no boundary"} :
            d.mode \in {"ENFORCE", "EMERGENCY"} /\ \A s \in Spaces : d.boundary[s] = {}}

(* Each floor is compared with the last one that the ladder had before it.   *)
Ascended(d, below, r) ==
    IF r \notin DOMAIN d.rungs THEN below
    ELSE [last |-> <<d.rungs[r]>>,
          bad |-> below.bad \cup {x \in {r} : below.last # <<>>
                                               /\ \/ d.rungs[r].m < below.last[1].m
                                                  \/ d.rungs[r].s < below.last[1].s}]
LadderProblems(d) ==
    LET l1 == Ascended(d, [last |-> <<>>, bad |-> {}], "L1")
        l2 == Ascended(d, l1, "L2")
        l4 == Ascended(d, l2, "L4")
    IN  Ascended(d, l4, "L5").bad
        \cup {r \in DOMAIN d.rungs : r \notin LadderNames
                                       \/ ~({d.rungs[r].m, d.rungs[r].s} \subseteq 0..100)}

BehavioralProblems(d) ==
    {x \in {"rate"} : d.rate # Absent /\ d.rate < 2}
    \cup {x \in {"deny"} : d.deny # Absent /\ d.deny < 3}
    \cup {x \in {"order"} : Or(d.deny, 3) < Or(d.rate, 2)}
    \cup {x \in {"cap"} : Or(d.cap, 60) >= 95}
    \cup (d.families \ DetectedFamilies)

RandomizationProblems(d) ==
    (DOMAIN d.jitter \ Mechanisms)
    \cup {k \in SwitchedOn(d) : d.jitter[k].lo > d.jitter[k].hi \/ d.jitter[k].lo < 0}
    \cup {k \in SwitchedOn(d) : k = "rate_ceiling" /\ Or(d.ceiling, 0) = 0}
    \cup {x \in {"version"} : d.random /\ ~d.versioned}
    \cup {x \in {"pinned"} : d.pinned = "garbled"}

LimitProblems(d) ==
    {x \in {"ceiling"} : "L2" \in DOMAIN d.rungs /\ Or(d.ceiling, 0) <= 0}
    \cup {x \in {"budget"} : d.budget # Absent /\ d.budget < 1}
    \cup {x \in {"ttl"} : d.ttl # Absent /\ d.ttl < 1}
    \cup {x \in {"envelope"} : d.envelope # Absent /\ d.envelope \notin 1..1024}
    \cup {x \in {"fraction"} : d.fraction # Absent /\ d.fraction \notin 1..Whole}
    \cup {x \in {"measured"} : d.measured # Absent /\ d.measured < 0}

AllowlistProblems(d) ==
    {i \in DOMAIN d.allow : ~d.allow[i].governed}
    \cup {i \in DOMAIN d.allow : d.allow[i].until = "garbled"}

EntryProblems(d) ==
    {x \in d.boundary["prefixes"] \cup d.boundary["domains"] : x = Garbled}
    \cup {x \in d.dedicated : x = Garbled} \cup {x \in d.rollback : x = Garbled}

NotImplemented(d) == {x \in {"unimplemented"} : d.unimplemented}

Refused(d) ==
    \/ d.mode = Garbled \/ ~Below100(d.observe)
    \/ SafetyProblems(d) # {} \/ AuthorizationProblems(d) # {}
    \/ LadderProblems(d) # {} \/ BehavioralProblems(d) # {}
    \/ RandomizationProblems(d) # {} \/ LimitProblems(d) # {}
    \/ AllowlistProblems(d) # {} \/ EntryProblems(d) # {} \/ NotImplemented(d) # {}

(* load_policy: the limits that only the reference has are kept beside.      *)
LoadPolicy(d) ==
    LET boundary == [s \in Spaces |-> {x \in d.boundary[s] : x # Garbled}] IN
    [mode |-> d.mode, boundary |-> boundary,
     open |-> IF boundary = [s \in Spaces |-> {}] THEN d.unrestricted ELSE FALSE,
     allow |-> Entries(d), observe |-> d.observe,
     floors |-> [r \in LadderNames |-> IF r \in DOMAIN d.rungs THEN d.rungs[r] ELSE NoFloor],
     envelope |-> Or(d.envelope, 64), families |-> d.families,
     rateFamilies |-> Or(d.rate, 2), denyFamilies |-> Or(d.deny, 3),
     external |-> d.external, behavioralCap |-> Or(d.cap, 60), wildcards |-> d.wildcards,
     dedicated |-> d.dedicated, rollback |-> d.rollback]
=============================================================================
