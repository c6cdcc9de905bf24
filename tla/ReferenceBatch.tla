---------------------------- MODULE ReferenceBatch ----------------------------
(***************************************************************************)
(* One run of the reference implementation over a file of indicators, and    *)
(* the runs after it in the same output directory: load the policy and the   *)
(* file, watch the contacts, fold what was detected into the indicators,     *)
(* judge each, keep the two budgets, and write decisions, zone, rules and    *)
(* receipts.  A run may be refused, and may die between any two steps; each  *)
(* file is replaced whole.                                                   *)
(*                                                                          *)
(* The indicators of a file have ids of their own.  The order of decisions   *)
(* by their hash is a choice of who survives the challenge budget.  A jitter *)
(* is in percent.                                                            *)
(* The correlation report, which is only shown, and files that are no JSON   *)
(* or exceed their size are left out.                                        *)
(***************************************************************************)
EXTENDS ReferenceOracle, TLC

CONSTANTS
    Clients, Demo,       \* hosts, and the client of a run that names none
    Unregistered,        \* what a source no channel vouches for becomes
    LocalBehavioral,     \* the source of a detection
    Batches, Again,      \* the first run is one of these, a later one of those
    Input,               \* what each is given: document, file, events, trusted
                         \* sources and measurement
    MaxRecords,          \* of an indicator
    MinGaps, Slack,      \* gaps a beacon needs, and what is kept beyond them
    MinMedian, MaxMedian, Tolerance, Skew,
    MaxWindows, MaxContacts, MaxPlaces, Retention

Beacon == "behavioral_beacon_periodicity"
Novelty == "behavioral_first_seen_novelty"

Observed == [kind : Kinds, source : Sources, at : Instants,
             detail : {"none", "client", "session"}, client : Clients \cup {Nobody}]
Indicators == [name : Names, evidence : Seq(Observed)]
Contact == [src : Clients, dst : Names, at : Int, says : Instants]

ASSUME BatchAssumption ==
    /\ Again \subseteq Batches /\ Demo \in Clients /\ Nobody \notin Clients
    /\ {Unregistered, LocalBehavioral} \subseteq Sources
    /\ ClassOf[Unregistered] = "unregistered"
    /\ {Beacon, Novelty} \subseteq Kinds
    /\ MinGaps >= 3 /\ Slack \in Nat
    /\ Absent \notin Int /\ Unheard \notin DetectedFamilies
    /\ \A b \in Batches :
          /\ IsDocument(Input[b].document) /\ Input[b].measured \in Optional
          /\ Input[b].file \in Seq(Indicators) /\ Input[b].events \in Seq(Contact)

VARIABLES
    batch, phase, indicators,
    unread, beacons, novelty, detections,
    pairs,       \* the decisions so far, one per indicator
    written,     \* files written by this run
    out          \* the output directory
vars == <<batch, phase, indicators, unread, beacons, novelty, detections, pairs,
          written, out>>

Files == <<"decisions", "rpz", "suricata", "receipts">>
Given == Input[batch]
Policy == LoadPolicy(Given.document)

-----------------------------------------------------------------------------
(* Loading.                                                                  *)

NoBeacons == [windows |-> <<>>, contacts |-> 0, degraded |-> FALSE]
NoNovelty == [seen |-> <<>>, degraded |-> FALSE]

Init ==
    /\ batch \in Batches /\ phase = "load" /\ unread = Input[batch].events
    /\ beacons = NoBeacons /\ novelty = NoNovelty
    /\ indicators = <<>> /\ detections = <<>> /\ pairs = <<>>
    /\ written = 0 /\ out = <<>>

(* A source the channel does not vouch for loses its name.                   *)
Bound(e) ==
    [i \in DOMAIN e |-> IF e[i].source \in Given.trusted THEN e[i]
                        ELSE [e[i] EXCEPT !.source = Unregistered]]

Unloadable ==
    \/ Refused(Given.document)
    \/ Given.measured # Absent /\ Given.measured < 0
    \/ \E i \in DOMAIN Given.file :
           \/ Len(Given.file[i].evidence) > MaxRecords
           \/ TypeOf[Given.file[i].name] = "fqdn" /\ Given.file[i].name \in Wildcards

Load ==
    /\ phase = "load"
    /\ IF Unloadable
       THEN phase' = "refused" /\ UNCHANGED indicators
       ELSE /\ phase' = "observe"
            /\ indicators' = [i \in DOMAIN Given.file |->
                   [name |-> Given.file[i].name, evidence |-> Bound(Given.file[i].evidence)]]
    /\ UNCHANGED <<batch, unread, beacons, novelty, detections, pairs, written, out>>

-----------------------------------------------------------------------------
(* The behavioral pass.  A contact has two clocks: at, which gaps are        *)
(* counted in, and says, which becomes observed_at.                          *)

Enabled(family) ==
    Given.document.families = {} \/ family \in Given.document.families

Distance(a, b) == IF a < b THEN b - a ELSE a - b
Median(s) ==
    LET mid == Len(s) \div 2 IN
    IF Len(s) % 2 = 1 THEN s[mid + 1] ELSE (s[mid] + s[mid + 1]) \div 2
Periodic(gaps) ==
    LET median == Median(SortSeq(gaps, <)) IN
    /\ median \in MinMedian..MaxMedian
    /\ \A i \in DOMAIN gaps :
           (Distance(gaps[i], median) * 1000000) \div median <= Tolerance

(* BeaconDetector.observe: the detector after a contact, and what it found.  *)
Watched(b, v) ==
    LET key == <<v.src, v.dst>>
        known == key \in DOMAIN b.windows
        full == b.contacts >= MaxContacts
        counted == [b EXCEPT !.contacts = @ + 1]
        keep(w) == [counted EXCEPT !.windows = (key :> w) @@ @]
        same == [state |-> b, found |-> FALSE]
        quiet(state) == [state |-> state, found |-> FALSE]
        w == b.windows[key]
        gap == v.at - w.last
        all == Append(w.gaps, gap)
        gaps == SubSeq(all, AtLeast(1, Len(all) - MinGaps - Slack + 1), Len(all))
        total == w.total + 1
        fires == total >= MinGaps /\ total - w.emitted >= MinGaps /\ Periodic(gaps)
    IN  IF b.degraded \/ ~Enabled("beacon_periodicity") \/ Distance(v.at, v.says) > Skew
        THEN same
        ELSE IF full THEN quiet([b EXCEPT !.degraded = TRUE, !.windows = <<>>])
        ELSE IF ~known
             THEN IF Cardinality(DOMAIN b.windows) >= MaxWindows THEN same
                  ELSE quiet(keep([last |-> v.at, gaps |-> <<>>, total |-> 0, emitted |-> 0]))
        ELSE IF gap <= 0 THEN quiet(counted)
        ELSE [state |-> keep([last |-> v.at, gaps |-> gaps, total |-> total,
                              emitted |-> IF fires THEN total ELSE w.emitted]),
              found |-> fires]

(* FirstSeenNoveltyDetector.observe.                                         *)
Met(d, v) ==
    LET new == v.dst \notin DOMAIN d.seen \/ v.at - d.seen[v.dst] > Retention IN
    IF d.degraded \/ ~Enabled("first_seen_novelty") \/ ~new
    THEN [state |-> d, found |-> FALSE]
    ELSE IF Cardinality(DOMAIN d.seen) >= MaxPlaces
         THEN [state |-> [d EXCEPT !.degraded = TRUE], found |-> FALSE]
    ELSE [state |-> [d EXCEPT !.seen = (v.dst :> v.at) @@ @], found |-> TRUE]

Detection(kind, v) == [kind |-> kind, src |-> v.src, dst |-> v.dst, at |-> v.says]

Observe ==
    /\ phase = "observe" /\ unread # <<>>
    /\ LET v == Head(unread)
           watched == Watched(beacons, v)
           met == Met(novelty, v)
       IN  /\ beacons' = watched.state /\ novelty' = met.state
           /\ detections' = detections
                  \o (IF watched.found THEN <<Detection(Beacon, v)>> ELSE <<>>)
                  \o (IF met.found THEN <<Detection(Novelty, v)>> ELSE <<>>)
    /\ unread' = Tail(unread)
    /\ UNCHANGED <<batch, phase, indicators, pairs, written, out>>

(* A detection joins the first indicator that is its destination.            *)
Evidence(d) ==
    [kind |-> d.kind, source |-> LocalBehavioral, at |-> d.at,
     detail |-> "client", client |-> d.src]
Folded(inds, d) ==
    LET at == {i \in DOMAIN inds : inds[i].name = d.dst /\ TypeOf[d.dst] = "ip"} IN
    IF at = {} THEN inds
    ELSE LET i == CHOOSE i \in at : \A j \in at : i <= j IN
         IF Len(inds[i].evidence) >= MaxRecords THEN inds
         ELSE [inds EXCEPT ![i] = [name |-> inds[i].name,
                                   evidence |-> Append(inds[i].evidence, Evidence(d))]]

FoldDetections ==
    /\ phase = "observe" /\ unread = <<>>
    /\ LET upTo[k \in 0..Len(detections)] ==
               IF k = 0 THEN indicators ELSE Folded(upTo[k - 1], detections[k])
       IN  indicators' = upTo[Len(detections)]
    /\ phase' = "judge"
    /\ UNCHANGED <<batch, unread, beacons, novelty, detections, pairs, written, out>>

-----------------------------------------------------------------------------
(* Judging, and the two budgets.                                             *)

(* _detection_subject: the one client the behavioral records name.           *)
Subject(e) ==
    LET named == {e[i].client : i \in {j \in DOMAIN e : e[j].kind \in {Beacon, Novelty}}}
                     \ {Nobody}
    IN  IF Cardinality(named) = 1 THEN CHOOSE c \in named : TRUE ELSE Demo
Context(e) == [client |-> Subject(e), interactive |-> TRUE]

Jittered(mechanism) ==
    /\ Given.document.random /\ mechanism \in SwitchedOn(Given.document)
    /\ Given.document.jitter[mechanism].lo < Given.document.jitter[mechanism].hi
Ceilings ==
    LET nominal == Or(Given.document.ceiling, 0)
        bounds == Given.document.jitter["rate_ceiling"]
    IN  IF ~Jittered("rate_ceiling") \/ nominal <= 0 THEN {nominal}
        ELSE {AtLeast(1, AtMost(nominal, (nominal * f) \div 100)) :
                 f \in bounds.lo..bounds.hi}

Enforcing(d) == d.disposition \in {"AUTO_ENFORCE", "SHADOW_ACTION"}
\* a demotion that only changes the disposition
DemotedBug(d, why) == [d EXCEPT !.disposition = "OBSERVE", !.demoted = why]
Demoted(d, why) ==
    [name |-> d.name, disposition |-> "OBSERVE", action |-> "observe", rung |-> "L0",
     demoted |-> why, client |-> Nobody, ceiling |-> 0]
Reverted(d) == Demoted(d, "challenge")

Proposed == Cardinality({i \in DOMAIN pairs : Enforcing(pairs[i])})

(* Every enforcing decision before this one was let through, or the budget   *)
(* was spent by then.                                                        *)
Budgeted(d) ==
    IF Given.document.budget # Absent /\ Enforcing(d) /\ Proposed >= Given.document.budget
    THEN Demoted(d, "budget") ELSE d

Upcoming == indicators[Len(pairs) + 1]
Judged == Judge(Policy, Upcoming.name, Upcoming.evidence, Context(Upcoming.evidence))

Decided(i, verdict, ceiling) ==
    [name |-> i.name, disposition |-> verdict.disposition, action |-> verdict.action,
     rung |-> verdict.rung, demoted |-> "no",
     client |-> IF verdict.rung \in {"L1", "L2"} THEN Subject(i.evidence) ELSE Nobody,
     ceiling |-> IF verdict.rung = "L2" THEN ceiling ELSE 0]

(* Each decision is taken twice and compared.  Unless the clock is pinned    *)
(* the epoch may turn between the two, and a draw with it, or a record that  *)
(* is scored may enter or leave the recency window.                          *)
Redrawn(d) ==
    /\ Given.document.pinned = "none"
    /\ \/ d.rung = "L2" /\ Cardinality(Ceilings) > 1
       \/ d.rung \in LadderNames /\ Enforcing(d) /\ Jittered("ttl_jitter")
       \/ View(Policy, Upcoming.evidence) # <<>>

JudgeNext ==
    /\ phase = "judge" /\ Len(pairs) < Len(indicators)
    /\ \E ceiling \in Ceilings, d \in {Judged} :
           \/ /\ pairs' = Append(pairs, Budgeted(Decided(Upcoming, d, ceiling)))
              /\ UNCHANGED phase
           \/ Redrawn(d) /\ phase' = "refused" /\ UNCHANGED pairs
    /\ UNCHANGED <<batch, indicators, unread, beacons, novelty, detections, written, out>>

(* challenge_allowance; the measurement given to the run comes first.        *)
Measured == IF Given.measured = Absent THEN Given.document.measured ELSE Given.measured
\* a budget that was never measured is no budget
AllowanceBug ==
    IF Given.document.fraction = Absent \/ Measured = Absent THEN Absent
    ELSE (Measured * Given.document.fraction) \div Whole
Allowance ==
    IF Given.document.fraction = Absent THEN Absent
    ELSE IF Measured = Absent THEN 0
    ELSE (Measured * Given.document.fraction) \div Whole

Challenges == {i \in DOMAIN pairs : pairs[i].action = "proxy_challenge"}

KeepChallenges ==
    /\ phase = "judge" /\ Len(pairs) = Len(indicators)
    /\ IF Allowance = Absent \/ Cardinality(Challenges) <= Or(Allowance, 0)
       THEN UNCHANGED pairs
       ELSE \E kept \in SUBSET Challenges :
                /\ Cardinality(kept) = Allowance
                /\ pairs' = [i \in DOMAIN pairs |->
                       IF i \in Challenges \ kept THEN Reverted(pairs[i])
                       ELSE pairs[i]]
    /\ phase' = "write"
    /\ UNCHANGED <<batch, indicators, unread, beacons, novelty, detections, written, out>>

-----------------------------------------------------------------------------
(* Publication.                                                              *)

(* The compilers: which decisions get a line in the zone, and in the rules.  *)
Zone == {i \in DOMAIN pairs :
            /\ TypeOf[pairs[i].name] = "fqdn" /\ pairs[i].action = "dns_nxdomain"
            /\ Enforcing(pairs[i])}
Rules == {i \in DOMAIN pairs :
             \/ TypeOf[pairs[i].name] = "ip"
                    /\ pairs[i].action \in {"firewall_deny", "rate_limit"}
             \/ TypeOf[pairs[i].name] = "fqdn" /\ pairs[i].action = "rate_limit"
                    /\ pairs[i].client # Nobody}
Uncompilable == \E d \in {pairs[i] : i \in DOMAIN pairs} :
                    d.action = "rate_limit" /\ d.ceiling = 0

Artifacts ==
    {[adapter |-> "rpz", decision |-> i] : i \in Zone}
        \cup {[adapter |-> "suricata", decision |-> i] : i \in Rules}
Contents == [decisions |-> pairs, rpz |-> Zone, suricata |-> Rules,
             receipts |-> Artifacts]

(* Both compilers run once the decisions are written, before the zone is.    *)
Write ==
    /\ phase = "write" /\ written < Len(Files)
    /\ IF written = 1 /\ Uncompilable
       THEN phase' = "refused" /\ UNCHANGED <<written, out>>
       ELSE LET file == Files[written + 1] IN
            /\ out' = [f \in DOMAIN out \cup {file} |->
                          IF f = file THEN Contents[file] ELSE out[f]]
            /\ written' = written + 1
            /\ phase' = IF written + 1 = Len(Files) THEN "done" ELSE phase
    /\ UNCHANGED <<batch, indicators, unread, beacons, novelty, detections, pairs>>

Crash ==
    /\ phase \notin {"done", "refused", "crashed"}
    /\ phase' = "crashed"
    /\ UNCHANGED <<batch, indicators, unread, beacons, novelty, detections, pairs,
                   written, out>>

Rerun ==
    /\ phase \in {"done", "refused", "crashed"}
    /\ batch' \in Again /\ phase' = "load" /\ unread' = Input[batch'].events
    /\ beacons' = NoBeacons /\ novelty' = NoNovelty
    /\ indicators' = <<>> /\ detections' = <<>> /\ pairs' = <<>>
    /\ written' = 0 /\ UNCHANGED out

Next == \/ Load \/ Observe \/ FoldDetections \/ JudgeNext
        \/ KeepChallenges \/ Write \/ Crash \/ Rerun
Spec == Init /\ [][Next]_vars

-----------------------------------------------------------------------------
(* What a run promises.                                                      *)

(* The two implementations take the same documents and make the same policy  *)
(* of them, but for the challenge budget, which only the reference has; and  *)
(* under the context that the controller reads off the evidence they give    *)
(* the same verdict and scores, but for prefixes, which the controller only  *)
(* observes, and for families an operator has left out, which only the       *)
(* controller stops counting.                                                *)
AgreesOnDocuments(d) ==
    BudgetsChallenges(d) \/ /\ Refused(d) <=> Problems(d) # {}
                            /\ ~Refused(d) => LoadPolicy(d) = Build(d)
Comparable(p, n, e) ==
    /\ TypeOf[n] # "cidr"
    /\ \A i \in DOMAIN e : Behavioral(e[i]) /\ p.families # {}
                               => FamilyOf[e[i].kind] \in p.families
Same(p, n, e, S, ours, theirs) ==
    /\ ours.disposition = theirs.disposition /\ ours.rung = theirs.rung
    /\ ours.m = Maliciousness(p, n, e, S)
    /\ ours.s = IF ours.rung = "L5" THEN SafetyOfAddress(p, n, e, S)
                ELSE SafetyInContext(p, n, e, S)
AgreesOnEvidence(p, n, e) ==
    LET ctx == [client |-> IF Client(e) THEN Demo ELSE Nobody, interactive |-> Interactive(e)]
    IN  Same(p, n, e, Decisive(p, e), Judge(p, n, e, ctx), Evaluate(p, n, e))
AgreesWithProduction ==
    /\ phase = "load" => AgreesOnDocuments(Given.document)
    /\ phase = "judge" => \A i \in DOMAIN indicators :
           Comparable(Policy, indicators[i].name, indicators[i].evidence)
               => AgreesOnEvidence(Policy, indicators[i].name, indicators[i].evidence)

(* Records without authority never move a verdict: not by being there, not   *)
(* by their number, and not by where they stand among the others.            *)
AnnotationsNeverMove ==
    phase = "judge" => \A i \in DOMAIN indicators :
        LET e == indicators[i].evidence
            n == indicators[i].name
        IN  Judge(Policy, n, e, Context(e)) = Judge(Policy, n, Stripped(e), Context(e))

(* What is published keeps both budgets, and uses them up before it demotes  *)
(* anything; a challenge budget nobody measured allows none.                 *)
BudgetsHold ==
    phase \in {"write", "done"} =>
        LET count(why) == Cardinality({i \in DOMAIN pairs : pairs[i].demoted = why}) IN
        /\ Given.document.budget # Absent =>
               /\ Proposed <= Given.document.budget
               /\ count("budget") > 0 =>
                      Proposed + count("challenge") = Given.document.budget
        /\ Given.document.budget = Absent => count("budget") = 0
        /\ Given.document.fraction # Absent =>
               /\ Cardinality(Challenges) * Whole
                      <= Or(Measured, 0) * Given.document.fraction
               /\ count("challenge") > 0 =>
                      (Cardinality(Challenges) + 1) * Whole
                          > Or(Measured, 0) * Given.document.fraction
        /\ Given.document.fraction = Absent => count("challenge") = 0

(* Every file of a finished run is about that run, whatever the runs before  *)
(* it left: each line of the zone and the rules has its receipt, and each    *)
(* receipt its line and a decision that acts, was not demoted, is in scope   *)
(* and carries a ceiling if it limits a rate.  And a run is refused before   *)
(* it has written anything.                                                  *)
OutputsAttested ==
    /\ phase = "refused" => written = 0
    /\ phase = "done" =>
           /\ out.receipts = {[adapter |-> a, decision |-> i] :
                                 a \in {"rpz"}, i \in out.rpz}
                          \cup {[adapter |-> a, decision |-> i] :
                                 a \in {"suricata"}, i \in out.suricata}
           /\ \A r \in out.receipts :
                  /\ r.decision \in DOMAIN out.decisions
                  /\ LET d == out.decisions[r.decision] IN
                     /\ d.disposition \in Acting /\ d.demoted = "no"
                     /\ InScope(Policy, d.name) /\ ~Allowlisted(Policy, d.name)
                     /\ d.rung = "L2" =>
                            d.ceiling \in 1..Given.document.ceiling /\ d.client # Nobody
           /\ \A i \in DOMAIN out.decisions :
                  out.decisions[i].action \in {"dns_nxdomain", "firewall_deny", "rate_limit"}
                      /\ Enforcing(out.decisions[i])
                      /\ TypeOf[out.decisions[i].name] # "cidr"
                  => \E r \in out.receipts : r.decision = i
===============================================================================
