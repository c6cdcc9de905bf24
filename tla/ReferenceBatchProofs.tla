------------------------- MODULE ReferenceBatchProofs -------------------------
(* Theorems about ReferenceBatch, for any runs, names, clients, evidence     *)
(* tables, bounds of the detectors and limits, and any number of later runs. *)
EXTENDS ReferenceBatch, FiniteSetTheorems, SequenceTheorems, TLAPS

-----------------------------------------------------------------------------
(* Induction over the naturals, by a least counterexample: a set of naturals *)
(* that has 0 and each one's successor has them all.                         *)
LEMMA LeastNumber ==
  ASSUME NEW T \in SUBSET Nat, T # {}
  PROVE  \E n \in T : \A m \in T : n <= m
  <1> DEFINE R == OpToRel(<, Nat)
  <1>1. IsWellFoundedOn(R, Nat)
    BY NatLessThanWellFounded
  <1>2. \A x, y \in Nat : <<x, y>> \in R <=> x < y
    BY DEF OpToRel
  <1> HIDE DEF R
  <1>3. PICK n \in T : \A m \in T : ~ (<<m, n>> \in R)
    BY <1>1, WFMin
  <1>4. ASSUME NEW m \in T
        PROVE  n <= m
    <2>1. m \in Nat /\ n \in Nat /\ <<m, n>> \notin R
      BY <1>3
    <2>2. ~(m < n)
      BY <1>2, <2>1
    <2> QED
      BY <2>1, <2>2
  <1> QED
    BY <1>4

LEMMA NaturalSet ==
  ASSUME NEW S \in SUBSET Nat, 0 \in S, \A n \in S : n + 1 \in S
  PROVE  S = Nat
  <1> SUFFICES ASSUME Nat \ S # {}
               PROVE  FALSE
    OBVIOUS
  <1>1. PICK n \in Nat \ S : \A m \in Nat \ S : n <= m
    BY LeastNumber
  <1>2. n # 0 /\ n - 1 \in Nat
    BY <1>1
  <1>3. n - 1 \in S
    BY <1>1, <1>2
  <1> QED
    BY <1>1, <1>2, <1>3

-----------------------------------------------------------------------------
(* Lemmas about evaluate().                                                  *)

(* The rung climbed to is on the target's ladder and has a floor, or is L0.  *)
LEMMA ClimbedRung ==
  ASSUME NEW p, NEW sc, NEW ctx, NEW type \in Types, NEW deny \in BOOLEAN
  PROVE  LET rung == Climb(p, LadderOf(type, deny), sc, ctx)
         IN  /\ rung \in {"L0", "L1", "L2", "L4", "L5"}
             /\ rung # "L0" => p.floors[rung] # NoFloor
             /\ rung = "L5" => type = "ip"
             /\ rung = "L4" => type = "fqdn"
             /\ rung = "L2" => type \in {"ip", "fqdn"}
  <1> DEFINE ladder == LadderOf(type, deny)
             gated == {k \in 1..Len(ladder) :
                          OpenTo(sc, ctx, ladder[k]) /\ Reaches(p, sc, ladder[k])}
             least == CHOOSE k \in gated : \A j \in gated : k <= j
  <1>1. Climb(p, ladder, sc, ctx) = IF gated = {} THEN "L0" ELSE ladder[least]
    BY DEF Climb
  <1>2. /\ Len(ladder) \in Nat
        /\ \A k \in 1..Len(ladder) :
              /\ ladder[k] \in {"L1", "L2", "L4", "L5"}
              /\ ladder[k] = "L5" => type = "ip"
              /\ ladder[k] = "L4" => type = "fqdn"
              /\ ladder[k] = "L2" => type \in {"ip", "fqdn"}
    BY DEF LadderOf, Types
  <1> HIDE DEF ladder
  <1>3. CASE gated = {}
    BY <1>1, <1>3 DEF ladder
  <1>4. CASE gated # {}
    <2>1. gated \in SUBSET Nat
      BY <1>2
    <2> HIDE DEF gated
    <2>2. \E k \in gated : \A j \in gated : k <= j
      BY <1>4, <2>1, LeastNumber
    <2>3. least \in gated
      BY <2>2
    <2> HIDE DEF least
    <2>4. least \in 1..Len(ladder) /\ Reaches(p, sc, ladder[least])
      BY <2>3 DEF gated
    <2>5. p.floors[ladder[least]] # NoFloor
      BY <2>4 DEF Reaches
    <2>6. Climb(p, ladder, sc, ctx) = ladder[least]
      BY <1>1, <1>4
    <2> QED
      BY <1>2, <2>4, <2>5, <2>6 DEF ladder
  <1> QED
    BY <1>3, <1>4

Actions == {"none", "observe", "proxy_challenge", "rate_limit", "dns_nxdomain",
            "firewall_deny"}

(* What a verdict or a decision v of a name says is what its policy lets it. *)
Lawful(p, n, v) ==
    /\ v.action = "proxy_challenge" /\ p.mode # "EMERGENCY" => Enforcing(v)
    /\ p.mode = "EMERGENCY" => ~Enforcing(v)
    /\ v.disposition \in Acting => InScope(p, n) /\ ~Allowlisted(p, n)
    /\ v.action \notin {"none", "observe"} => v.disposition \in Acting
    /\ v.rung = "L2" <=> v.action = "rate_limit"
    /\ v.rung = "L2" => p.floors["L2"] # NoFloor /\ TypeOf[n] \in {"ip", "fqdn"}
    /\ v.action = "dns_nxdomain" => TypeOf[n] = "fqdn"
    /\ v.action = "firewall_deny" => TypeOf[n] \in {"ip", "cidr"}

Verdicts(v) ==
    v.disposition \in Dispositions /\ v.action \in Actions /\ v.rung \in Rungs

LEMMA GatesAgree ==
  ASSUME NEW p, NEW n, p.allow \in Seq(Entry)
  PROVE  /\ Authorized(p, n) => InScope(p, n)
         /\ Allowlisted(p, n) => Suppressed(p, n)
  <1>1. Authorized(p, n) => InScope(p, n)
    BY DEF Authorized, InScope, SpaceOf
  <1>2. Allowlisted(p, n) => Suppressed(p, n)
    <2> SUFFICES ASSUME NEW i \in DOMAIN p.allow, p.allow[i].name = n,
                        p.allow[i].applies, ~p.allow[i].expired
                 PROVE  Suppressed(p, n)
      BY DEF Allowlisted
    <2>1. i \in 1..Len(p.allow)
      OBVIOUS
    <2> QED
      BY <2>1 DEF Suppressed
  <1> QED
    BY <1>1, <1>2

LEMMA DisposedLawfully ==
  ASSUME NEW p, p.mode \in Modes, p.allow \in Seq(Entry), NEW n \in Names, NEW sc,
         NEW rung \in {"L0", "L1", "L2", "L4", "L5"},
         rung # "L0" => p.floors[rung] # NoFloor,
         rung = "L5" => TypeOf[n] = "ip",
         rung = "L4" => TypeOf[n] = "fqdn",
         rung = "L2" => TypeOf[n] \in {"ip", "fqdn"}
  PROVE  Verdicts(Dispose(p, n, sc, rung)) /\ Lawful(p, n, Dispose(p, n, sc, rung))
  <1> DEFINE v == Dispose(p, n, sc, rung)
  <1>1. \A d, a, r : /\ Verdict(d, a, r, sc).disposition = d
                     /\ Verdict(d, a, r, sc).action = a /\ Verdict(d, a, r, sc).rung = r
    BY DEF Verdict
  <1>2. CASE ~Authorized(p, n) \/ Suppressed(p, n) \/ p.mode = "OFF" \/ sc.m < p.observe
    <2>1. v = Verdict("NO_ACTION", "none", "NONE", sc)
      BY <1>2 DEF Dispose
    <2>2. v.disposition = "NO_ACTION" /\ v.action = "none" /\ v.rung = "NONE"
      BY <1>1, <2>1
    <2> HIDE DEF v
    <2>3. Verdicts(v) /\ Lawful(p, n, v)
      BY <2>2 DEF Verdicts, Lawful, Dispositions, Actions, Rungs, Enforcing, Acting
    <2> QED
      BY <2>3 DEF v
  <1>3. CASE ~(~Authorized(p, n) \/ Suppressed(p, n) \/ p.mode = "OFF" \/ sc.m < p.observe)
    <2>1. InScope(p, n) /\ ~Allowlisted(p, n) /\ p.mode # "OFF"
      BY <1>3, GatesAgree
    <2>2. CASE p.mode = "OBSERVE"
      <3>1. v = Verdict("OBSERVE", "observe", "L0", sc)
        BY <1>3, <2>2 DEF Dispose
      <3>2. v.disposition = "OBSERVE" /\ v.action = "observe" /\ v.rung = "L0"
        BY <1>1, <3>1
      <3> HIDE DEF v
      <3>3. Verdicts(v) /\ Lawful(p, n, v)
        BY <2>2, <3>2 DEF Verdicts, Lawful, Dispositions, Actions, Rungs, Enforcing, Acting
      <3> QED
        BY <3>3 DEF v
    <2>3. CASE p.mode # "OBSERVE"
      <3>1. p.mode \in {"SHADOW", "ENFORCE", "EMERGENCY"}
        BY <2>1, <2>3 DEF Modes
      <3>2. /\ ActsBy["SHADOW"] = "SHADOW_ACTION" /\ ActsBy["ENFORCE"] = "AUTO_ENFORCE"
            /\ ActsBy["EMERGENCY"] = "PROPOSE_OPERATOR_APPROVAL"
        BY DEF ActsBy
      <3>3. /\ AsksBy["SHADOW"] = "SHADOW_ACTION"
            /\ AsksBy["ENFORCE"] = "PROPOSE_OPERATOR_APPROVAL"
            /\ AsksBy["EMERGENCY"] = "PROPOSE_OPERATOR_APPROVAL"
        BY Zenon DEF ActsBy, AsksBy
      <3>4. CASE NeedsApproval(p, n)
        <4>1. v = Verdict(AsksBy[p.mode], "dns_nxdomain", "L4", sc)
          BY <1>3, <2>3, <3>4 DEF Dispose
        <4>2. v.disposition = AsksBy[p.mode] /\ v.action = "dns_nxdomain" /\ v.rung = "L4"
          BY <1>1, <4>1
        <4>3. TypeOf[n] = "fqdn"
          BY <3>4 DEF NeedsApproval
        <4> HIDE DEF v
        <4>4. Verdicts(v) /\ Lawful(p, n, v)
          BY <2>1, <3>1, <3>3, <4>2, <4>3
             DEF Verdicts, Lawful, Dispositions, Actions, Rungs, Enforcing, Acting
        <4> QED
          BY <4>4 DEF v
      <3>5. CASE ~NeedsApproval(p, n) /\ TypeOf[n] = "cidr" /\ p.mode # "EMERGENCY"
        <4>1. v = Verdict(AsksBy[p.mode], "firewall_deny", "NONE", sc)
          BY <1>3, <2>3, <3>5 DEF Dispose
        <4>2. v.disposition = AsksBy[p.mode] /\ v.action = "firewall_deny" /\ v.rung = "NONE"
          BY <1>1, <4>1
        <4> HIDE DEF v
        <4>3. Verdicts(v) /\ Lawful(p, n, v)
          BY <2>1, <3>1, <3>3, <3>5, <4>2
             DEF Verdicts, Lawful, Dispositions, Actions, Rungs, Enforcing, Acting
        <4> QED
          BY <4>3 DEF v
      <3>6. CASE ~NeedsApproval(p, n) /\ ~(TypeOf[n] = "cidr" /\ p.mode # "EMERGENCY")
        <4>1. v = Verdict(IF rung = "L0" THEN "OBSERVE" ELSE ActsBy[p.mode],
                          ActionOf[rung], rung, sc)
          BY <1>3, <2>3, <3>6 DEF Dispose
        <4>2. /\ v.disposition = IF rung = "L0" THEN "OBSERVE" ELSE ActsBy[p.mode]
              /\ v.action = ActionOf[rung] /\ v.rung = rung
          BY <1>1, <4>1
        <4>3. /\ ActionOf["L0"] = "observe" /\ ActionOf["L1"] = "proxy_challenge"
              /\ ActionOf["L2"] = "rate_limit" /\ ActionOf["L4"] = "dns_nxdomain"
              /\ ActionOf["L5"] = "firewall_deny"
          BY DEF ActionOf
        <4> HIDE DEF v
        <4>4. CASE rung = "L0"
          <5>1. v.disposition = "OBSERVE" /\ v.action = "observe" /\ v.rung = "L0"
            BY <4>2, <4>3, <4>4
          <5>2. Verdicts(v) /\ Lawful(p, n, v)
            BY <3>1, <5>1 DEF Verdicts, Lawful, Dispositions, Actions, Rungs, Enforcing, Acting
          <5> QED
            BY <5>2 DEF v
        <4>5. CASE rung # "L0"
          <5>1. v.disposition = ActsBy[p.mode] /\ v.rung = rung /\ v.action = ActionOf[rung]
            BY <4>2, <4>5
          <5>2. Verdicts(v)
            BY <3>1, <3>2, <4>3, <4>5, <5>1 DEF Verdicts, Dispositions, Actions, Rungs
          <5>3. v.disposition \in Acting /\ (Enforcing(v) <=> p.mode # "EMERGENCY")
            BY <3>1, <3>2, <5>1 DEF Acting, Enforcing
          <5>4. Lawful(p, n, v)
            BY <2>1, <4>3, <4>5, <5>1, <5>3 DEF Lawful
          <5> QED
            BY <5>2, <5>4 DEF v
        <4> QED
          BY <4>4, <4>5
      <3> QED
        BY <3>4, <3>5, <3>6
    <2> QED
      BY <2>2, <2>3
  <1> QED
    BY <1>2, <1>3

LEMMA JudgedLawfully ==
  ASSUME NEW p, p.mode \in Modes, p.allow \in Seq(Entry), NEW n \in Names, NEW e, NEW ctx
  PROVE  Verdicts(Judge(p, n, e, ctx)) /\ Lawful(p, n, Judge(p, n, e, ctx))
  <1> DEFINE sc == Scores(p, n, View(p, e))
             deny == DenialOpen(p, View(p, e))
             rung == Climb(p, LadderOf(TypeOf[n], deny), sc, ctx)
  <1>1. Judge(p, n, e, ctx) = Dispose(p, n, sc, rung)
    BY DEF Judge, OfView, Consider
  <1>2. TypeOf[n] \in Types
    BY GatesAssumption
  <1>3. deny \in BOOLEAN
    BY DEF DenialOpen
  <1>4. /\ rung \in {"L0", "L1", "L2", "L4", "L5"}
        /\ rung # "L0" => p.floors[rung] # NoFloor
        /\ rung = "L5" => TypeOf[n] = "ip"
        /\ rung = "L4" => TypeOf[n] = "fqdn"
        /\ rung = "L2" => TypeOf[n] \in {"ip", "fqdn"}
    BY <1>2, <1>3, ClimbedRung
  <1> HIDE DEF sc, deny, rung
  <1> QED
    BY <1>1, <1>4, DisposedLawfully

-----------------------------------------------------------------------------
(* Lemmas about documents.                                                   *)

LEMMA AcceptedDocuments ==
  ASSUME NEW d, IsDocument(d), ~Refused(d)
  PROVE  /\ LoadPolicy(d).mode \in Modes /\ LoadPolicy(d).allow \in Seq(Entry)
         /\ LoadPolicy(d).floors["L2"] # NoFloor => d.ceiling \in Int /\ d.ceiling >= 1
         /\ d.budget # Absent => d.budget \in Int /\ d.budget >= 1
         /\ d.fraction # Absent => d.fraction \in Int
         /\ d.measured # Absent => d.measured \in Int
  <1>1. LoadPolicy(d).mode \in Modes
    BY DEF LoadPolicy, IsDocument, Refused
  <1>2. LoadPolicy(d).allow \in Seq(Entry)
    <2>1. LoadPolicy(d).allow = Entries(d)
      BY DEF LoadPolicy
    <2>2. d.allow \in Seq(Allowed)
      BY DEF IsDocument
    <2>3. PICK n \in Nat : DOMAIN d.allow = 1..n
      BY <2>2
    <2>4. \A i \in 1..n : d.allow[i] \in Allowed
      BY <2>2, <2>3
    <2>5. \A i \in 1..n : /\ d.allow[i].name \in Names /\ d.allow[i].applies \in BOOLEAN
                          /\ d.allow[i].expired \in BOOLEAN
      BY <2>4 DEF Allowed
    <2>6. \A i \in 1..n : [name |-> d.allow[i].name, applies |-> d.allow[i].applies,
                           expired |-> d.allow[i].expired] \in Entry
      BY <2>5 DEF Entry
    <2>7. Entries(d) \in [1..n -> Entry]
      BY <2>3, <2>6 DEF Entries
    <2> QED
      BY <2>1, <2>7, SeqDef
  <1>3. LimitProblems(d) = {}
    BY DEF Refused
  <1>4. {x \in {"ceiling"} : "L2" \in DOMAIN d.rungs /\ Or(d.ceiling, 0) <= 0} = {}
    BY <1>3 DEF LimitProblems
  <1>5. {x \in {"budget"} : d.budget # Absent /\ d.budget < 1} = {}
    BY <1>3 DEF LimitProblems
  <1>6. {d.ceiling, d.budget, d.ttl, d.envelope, d.fraction, d.measured} \subseteq Optional
    BY DEF IsDocument
  <1>7. \A v \in Optional : v # Absent => v \in Int
    BY DEF Optional
  <1>8. LoadPolicy(d).floors["L2"] # NoFloor => "L2" \in DOMAIN d.rungs
    <2>1. LoadPolicy(d).floors =
              [r \in LadderNames |-> IF r \in DOMAIN d.rungs THEN d.rungs[r] ELSE NoFloor]
      BY DEF LoadPolicy
    <2>2. "L2" \in LadderNames
      BY DEF LadderNames
    <2> QED
      BY <2>1, <2>2
  <1>9. "L2" \in DOMAIN d.rungs => d.ceiling \in Int /\ d.ceiling >= 1
    <2> SUFFICES ASSUME "L2" \in DOMAIN d.rungs
                 PROVE  d.ceiling \in Int /\ d.ceiling >= 1
      OBVIOUS
    <2>1. ~(Or(d.ceiling, 0) <= 0)
      BY <1>4
    <2>2. d.ceiling # Absent
      BY <2>1 DEF Or
    <2>3. d.ceiling \in Int
      BY <1>6, <1>7, <2>2
    <2> QED
      BY <2>1, <2>2, <2>3 DEF Or
  <1>10. d.budget # Absent => d.budget \in Int /\ d.budget >= 1
    BY <1>5, <1>6, <1>7
  <1> QED
    BY <1>1, <1>2, <1>6, <1>7, <1>8, <1>9, <1>10

-----------------------------------------------------------------------------
(* The inductive invariant.                                                  *)

Phases == {"load", "observe", "judge", "write", "done", "refused", "crashed"}
Found == [kind : {Beacon, Novelty}, src : Clients, dst : Names, at : Instants]
Decisions == [name : Names, disposition : Dispositions, action : Actions, rung : Rungs,
              demoted : {"no", "budget", "challenge"}, client : Clients \cup {Nobody},
              ceiling : Int]

Typed ==
    /\ batch \in Batches /\ phase \in Phases /\ written \in 0..4
    /\ indicators \in Seq(Indicators) /\ unread \in Seq(Contact)
    /\ detections \in Seq(Found) /\ pairs \in Seq(Decisions)

Progressed ==
    /\ phase \in {"observe", "judge", "write", "done"} => ~Unloadable
    /\ phase \in {"load", "observe"} => pairs = <<>>
    /\ phase \in {"load", "observe", "judge", "refused"} => written = 0
    /\ phase = "done" => written = 4

(* Each decision is one its policy lets the run take, with the selector of   *)
(* its rung; a demoted one acts no more.                                     *)
Sound(given, d) ==
    /\ Lawful(LoadPolicy(given.document), d.name, d)
    /\ d.rung = "L2" => d.ceiling \in 1..given.document.ceiling
    /\ d.rung = "L2" => d.client # Nobody
    /\ d.demoted # "no" => d.action = "observe" /\ d.disposition = "OBSERVE"
SoundPairs == \A i \in DOMAIN pairs : Sound(Given, pairs[i])

(* While decisions are taken the first budget is kept, and is spent before   *)
(* it demotes anything.                                                      *)
Budgeting ==
    phase = "judge" =>
        /\ \A i \in DOMAIN pairs : pairs[i].demoted # "challenge"
        /\ Given.document.budget = Absent =>
               \A i \in DOMAIN pairs : pairs[i].demoted # "budget"
        /\ Given.document.budget # Absent =>
               /\ Proposed <= Given.document.budget
               /\ \A i \in DOMAIN pairs : pairs[i].demoted = "budget" =>
                      Proposed = Given.document.budget

(* What has been written is of this run.                                     *)
Current ==
    phase \in {"write", "done"} =>
        \A k \in 1..written : Files[k] \in DOMAIN out /\ out[Files[k]] = Contents[Files[k]]

IInv == Typed /\ Progressed /\ SoundPairs /\ Budgeting /\ BudgetsHold /\ Current

-----------------------------------------------------------------------------
(* Lemmas about loading, folding and judging.                                *)

LEMMA GivenTyped ==
  ASSUME Typed
  PROVE  /\ IsDocument(Given.document) /\ Given.measured \in Optional
         /\ Given.file \in Seq(Indicators) /\ Given.events \in Seq(Contact)
  BY BatchAssumption DEF Typed, Given

LEMMA BoundTyped ==
  ASSUME NEW e \in Seq(Observed)
  PROVE  Bound(e) \in Seq(Observed)
  <1>1. PICK n \in Nat : DOMAIN e = 1..n
    OBVIOUS
  <1>2. \A i \in 1..n : e[i] \in Observed
    BY <1>1
  <1>3. \A r \in Observed : [r EXCEPT !.source = Unregistered] \in Observed
    BY BatchAssumption DEF Observed
  <1>4. Bound(e) \in [1..n -> Observed]
    BY <1>1, <1>2, <1>3 DEF Bound
  <1> QED
    BY <1>4, SeqDef

LEMMA LoadedTyped ==
  ASSUME NEW q \in Seq(Indicators)
  PROVE  [i \in DOMAIN q |-> [name |-> q[i].name, evidence |-> Bound(q[i].evidence)]]
             \in Seq(Indicators)
  <1>1. PICK n \in Nat : DOMAIN q = 1..n
    OBVIOUS
  <1>2. \A i \in 1..n : q[i].name \in Names /\ q[i].evidence \in Seq(Observed)
    <2>1. \A i \in 1..n : q[i] \in Indicators
      BY <1>1
    <2> QED
      BY <2>1 DEF Indicators
  <1>3. \A i \in 1..n : Bound(q[i].evidence) \in Seq(Observed)
    BY <1>2, BoundTyped
  <1>4. \A i \in 1..n : [name |-> q[i].name, evidence |-> Bound(q[i].evidence)] \in Indicators
    BY <1>2, <1>3 DEF Indicators
  <1>5. [i \in DOMAIN q |-> [name |-> q[i].name, evidence |-> Bound(q[i].evidence)]]
            \in [1..n -> Indicators]
    BY <1>1, <1>4
  <1> QED
    BY <1>5, SeqDef

LEMMA FoldedTyped ==
  ASSUME NEW q \in Seq(Indicators), NEW d \in Found
  PROVE  Folded(q, d) \in Seq(Indicators)
  <1> DEFINE at == {i \in DOMAIN q : q[i].name = d.dst /\ TypeOf[d.dst] = "ip"}
             first == CHOOSE i \in at : \A j \in at : i <= j
             joined == [name |-> q[first].name,
                        evidence |-> Append(q[first].evidence, Evidence(d))]
  <1>1. Folded(q, d) = IF at = {} THEN q
                       ELSE IF Len(q[first].evidence) >= MaxRecords THEN q
                       ELSE [q EXCEPT ![first] = joined]
    BY DEF Folded
  <1>2. CASE at = {}
    BY <1>1, <1>2
  <1>3. CASE at # {}
    <2>1. at \in SUBSET Nat
      OBVIOUS
    <2>2. first \in at
      <3> HIDE DEF at
      <3>1. \E i \in at : \A j \in at : i <= j
        BY <1>3, <2>1, LeastNumber
      <3> QED
        BY <3>1
    <2>3. first \in DOMAIN q
      BY <2>2
    <2> HIDE DEF at, first
    <2>4. q[first].name \in Names /\ q[first].evidence \in Seq(Observed)
      <3>1. q[first] \in Indicators
        BY <2>3
      <3> QED
        BY <3>1 DEF Indicators
    <2>5. Evidence(d) \in Observed
      BY BatchAssumption DEF Evidence, Observed, Found
    <2>6. joined \in Indicators
      BY <2>4, <2>5 DEF Indicators
    <2> HIDE DEF joined
    <2>7. [q EXCEPT ![first] = joined] \in Seq(Indicators)
      BY <2>3, <2>6
    <2> QED
      BY <1>1, <1>3, <2>7
  <1> QED
    BY <1>2, <1>3

(* The loop over the detections has a result, of indicators.                 *)
Folds(f, n, inds, ds) ==
    f = [k \in 0..n |-> IF k = 0 THEN inds ELSE Folded(f[k - 1], ds[k])]

LEMMA FoldsExists ==
  ASSUME NEW inds, NEW ds
  PROVE  \A n \in Nat : \E f : Folds(f, n, inds, ds)
  <1> DEFINE S == {n \in Nat : \E f : Folds(f, n, inds, ds)}
  <1>1. 0 \in S
    <2>1. Folds([k \in 0..0 |-> inds], 0, inds, ds)
      BY DEF Folds
    <2> QED
      BY <2>1
  <1>2. ASSUME NEW n \in S
        PROVE  n + 1 \in S
    <2>1. PICK f : Folds(f, n, inds, ds)
      OBVIOUS
    <2> DEFINE g == [k \in 0..(n + 1) |-> IF k = 0 THEN inds ELSE Folded(f[k - 1], ds[k])]
    <2>2. \A k \in 0..n : f[k] = g[k]
      <3>1. /\ DOMAIN f = 0..n
            /\ \A k \in 0..n : f[k] = IF k = 0 THEN inds ELSE Folded(f[k - 1], ds[k])
        BY <2>1, Zenon DEF Folds
      <3>2. \A k \in 0..n : k \in 0..(n + 1)
        OBVIOUS
      <3> QED
        BY <3>1, <3>2, Zenon
    <2>3. \A k \in 0..(n + 1) : k # 0 => k - 1 \in 0..n
      OBVIOUS
    <2>4. \A k \in 0..(n + 1) : k # 0 => g[k - 1] = f[k - 1]
      BY <2>2, <2>3
    <2>5. g = [k \in 0..(n + 1) |-> IF k = 0 THEN inds ELSE Folded(g[k - 1], ds[k])]
      BY <2>4
    <2> HIDE DEF g
    <2>6. Folds(g, n + 1, inds, ds)
      BY <2>5 DEF Folds
    <2> QED
      BY <2>6
  <1> QED
    BY <1>1, <1>2, NaturalSet

LEMMA FoldingTyped ==
  ASSUME Typed, FoldDetections
  PROVE  indicators' \in Seq(Indicators)
  <1> DEFINE n == Len(detections)
  <1>0. n \in Nat /\ \A k \in 1..n : detections[k] \in Found
    BY DEF Typed
  <1>1. PICK f : Folds(f, n, indicators, detections) /\ indicators' = f[n]
    <2>1. \E f : Folds(f, n, indicators, detections)
      BY <1>0, FoldsExists
    <2>k. PICK k : k = CHOOSE f : Folds(f, n, indicators, detections)
      OBVIOUS
    <2>2. Folds(k, n, indicators, detections)
      BY <2>1, <2>k
    <2>3. indicators' = k[n]
      BY <2>k DEF FoldDetections, Folds
    <2> QED
      BY <2>2, <2>3
  <1> DEFINE T == {m \in Nat : m <= n => f[m] \in Seq(Indicators)}
  <1>2. \A k \in 0..n : f[k] = IF k = 0 THEN indicators ELSE Folded(f[k - 1], detections[k])
    BY <1>1, Zenon DEF Folds
  <1>3. 0 \in T
    <2>1. f[0] = indicators
      BY <1>0, <1>2
    <2> QED
      BY <2>1 DEF Typed
  <1>4. ASSUME NEW m \in T
        PROVE  m + 1 \in T
    <2> SUFFICES ASSUME m + 1 <= n
                 PROVE  f[m + 1] \in Seq(Indicators)
      OBVIOUS
    <2>1. m \in Nat /\ m <= n /\ m + 1 \in 0..n /\ m + 1 \in 1..n /\ m + 1 # 0 /\ (m + 1) - 1 = m
      BY <1>0
    <2>2. f[m + 1] = Folded(f[m], detections[m + 1])
      BY <1>2, <2>1
    <2>3. f[m] \in Seq(Indicators) /\ detections[m + 1] \in Found
      BY <1>0, <2>1
    <2> QED
      BY <2>2, <2>3, FoldedTyped
  <1>5. n \in T
    <2> HIDE DEF T
    <2>1. T \in SUBSET Nat
      BY DEF T
    <2> QED
      BY <1>0, <1>3, <1>4, <2>1, NaturalSet
  <1> QED
    BY <1>0, <1>1, <1>5


LEMMA SubjectIsClient ==
  ASSUME NEW e \in Seq(Observed)
  PROVE  Subject(e) \in Clients
  <1> DEFINE named == {e[i].client : i \in {j \in DOMAIN e : e[j].kind \in {Beacon, Novelty}}}
                          \ {Nobody}
  <1>1. Subject(e) = IF Cardinality(named) = 1 THEN CHOOSE c \in named : TRUE ELSE Demo
    BY DEF Subject
  <1>2. named \subseteq Clients
    <2>1. \A i \in DOMAIN e : e[i] \in Observed
      OBVIOUS
    <2>2. \A i \in DOMAIN e : e[i].client \in Clients \cup {Nobody}
      BY <2>1 DEF Observed
    <2> QED
      BY <2>2
  <1> HIDE DEF named
  <1>3. CASE Cardinality(named) = 1
    <2>0. Cardinality({}) = 0
      BY FS_EmptySet
    <2>1. named # {}
      <3> SUFFICES ASSUME named = {}
                   PROVE  FALSE
        OBVIOUS
      <3>1. Cardinality(named) = 0
        BY <2>0
      <3> QED
        BY <1>3, <3>1
    <2>2. (CHOOSE c \in named : TRUE) \in named
      BY <2>1
    <2> QED
      BY <1>1, <1>2, <1>3, <2>2
  <1>4. CASE Cardinality(named) # 1
    BY <1>1, <1>4, BatchAssumption
  <1> QED
    BY <1>3, <1>4

(* A ceiling that is drawn is positive and never above the document's.       *)
LEMMA CeilingsBounded ==
  ASSUME NEW c \in Ceilings, Given.document.ceiling \in Int, Given.document.ceiling >= 1,
         IsDocument(Given.document)
  PROVE  c \in 1..Given.document.ceiling
  <1>1. PICK nominal \in Int : nominal = Given.document.ceiling /\ nominal >= 1
    OBVIOUS
  <1>2. Or(Given.document.ceiling, 0) = nominal
    BY <1>1, BatchAssumption DEF Or
  <1>3. CASE ~Jittered("rate_ceiling")
    <2>1. Ceilings = {nominal}
      BY <1>2, <1>3 DEF Ceilings
    <2> QED
      BY <1>1, <2>1
  <1>4. CASE Jittered("rate_ceiling")
    <2>1. Given.document.jitter["rate_ceiling"] \in [lo : Int, hi : Int, on : BOOLEAN]
      BY <1>4 DEF Jittered, SwitchedOn, IsDocument
    <2> DEFINE bounds == Given.document.jitter["rate_ceiling"]
    <2>2. Ceilings = {AtLeast(1, AtMost(nominal, (nominal * f) \div 100)) :
                         f \in bounds.lo..bounds.hi}
      BY <1>1, <1>2, <1>4 DEF Ceilings
    <2>3. PICK f \in bounds.lo..bounds.hi :
              c = AtLeast(1, AtMost(nominal, (nominal * f) \div 100))
      BY <2>2
    <2>4. f \in Int
      BY <2>1, <2>3
    <2>5. PICK product \in Int : product = nominal * f
      BY <1>1, <2>4
    <2>6. PICK drawn \in Int : drawn = product \div 100
      OBVIOUS
    <2>7. c = AtLeast(1, AtMost(nominal, drawn))
      BY <2>3, <2>5, <2>6
    <2> QED
      BY <1>1, <2>7 DEF AtLeast, AtMost
  <1> QED
    BY <1>3, <1>4

LEMMA DemotedIsSound ==
  ASSUME NEW given, NEW d \in Decisions, NEW why \in {"budget", "challenge"}
  PROVE  /\ Demoted(d, why) \in Decisions /\ Sound(given, Demoted(d, why))
         /\ ~Enforcing(Demoted(d, why)) /\ Demoted(d, why).demoted = why
         /\ Demoted(d, why).action = "observe"
  <1>1. d.name \in Names
    BY DEF Decisions
  <1> DEFINE x == Demoted(d, why)
  <1>2. /\ x.name = d.name /\ x.disposition = "OBSERVE" /\ x.action = "observe"
        /\ x.rung = "L0" /\ x.demoted = why /\ x.client = Nobody /\ x.ceiling = 0
    BY DEF Demoted
  <1>3. x \in Decisions
    BY <1>1 DEF Demoted, Decisions, Dispositions, Actions, Rungs
  <1> HIDE DEF x
  <1>4. ~Enforcing(x)
    BY <1>2 DEF Enforcing
  <1>5. Lawful(LoadPolicy(given.document), x.name, x)
    BY <1>2, <1>4 DEF Lawful, Acting
  <1>6. Sound(given, x)
    BY <1>2, <1>5 DEF Sound
  <1> QED
    BY <1>2, <1>3, <1>4, <1>6 DEF x

LEMMA DecidedIsSound ==
  ASSUME Typed, ~Unloadable, NEW i \in Indicators, NEW ceiling \in Ceilings,
         NEW v, v = Judge(Policy, i.name, i.evidence, Context(i.evidence))
  PROVE  /\ Decided(i, v, ceiling) \in Decisions /\ Sound(Given, Decided(i, v, ceiling))
         /\ Decided(i, v, ceiling).demoted = "no"
  <1>1. IsDocument(Given.document) /\ ~Refused(Given.document)
    BY GivenTyped DEF Unloadable
  <1>2. /\ Policy.mode \in Modes /\ Policy.allow \in Seq(Entry)
        /\ Policy.floors["L2"] # NoFloor =>
               Given.document.ceiling \in Int /\ Given.document.ceiling >= 1
    BY <1>1, AcceptedDocuments DEF Policy
  <1>3. i.name \in Names /\ i.evidence \in Seq(Observed)
    BY DEF Indicators
  <1>4. Verdicts(v) /\ Lawful(Policy, i.name, v)
    BY <1>2, <1>3, JudgedLawfully
  <1>5. Subject(i.evidence) \in Clients
    BY <1>3, SubjectIsClient
  <1> DEFINE d == Decided(i, v, ceiling)
  <1>6. /\ d.name = i.name /\ d.disposition = v.disposition /\ d.action = v.action
        /\ d.rung = v.rung /\ d.demoted = "no"
        /\ d.client = IF v.rung \in {"L1", "L2"} THEN Subject(i.evidence) ELSE Nobody
        /\ d.ceiling = IF v.rung = "L2" THEN ceiling ELSE 0
    BY DEF Decided
  <1>7. v.rung = "L2" => ceiling \in 1..Given.document.ceiling
    BY <1>1, <1>2, <1>4, CeilingsBounded DEF Lawful
  <1>8. d.ceiling \in Int
    BY <1>2, <1>4, <1>6, <1>7 DEF Lawful
  <1>9. d.client \in Clients \cup {Nobody}
    BY <1>5, <1>6
  <1>10. d \in Decisions
    <2>1. /\ v.disposition \in Dispositions /\ v.action \in Actions /\ v.rung \in Rungs
      BY <1>4 DEF Verdicts
    <2>2. d = [name |-> d.name, disposition |-> d.disposition, action |-> d.action,
               rung |-> d.rung, demoted |-> d.demoted, client |-> d.client,
               ceiling |-> d.ceiling]
      BY <1>6 DEF Decided
    <2> HIDE DEF d
    <2> QED
      BY <1>3, <1>6, <1>8, <1>9, <2>1, <2>2 DEF Decisions
  <1> HIDE DEF d
  <1>11. Lawful(LoadPolicy(Given.document), d.name, d)
    BY <1>4, <1>6 DEF Lawful, Policy, Enforcing
  <1>12. Sound(Given, d)
    <2>1. Nobody \notin Clients
      BY BatchAssumption
    <2> QED
      BY <1>5, <1>6, <1>7, <1>11, <2>1 DEF Sound
  <1> QED
    BY <1>6, <1>10, <1>12 DEF d

-----------------------------------------------------------------------------
(* Lemmas about counting decisions.                                          *)

LEMMA CountsAreNaturals ==
  ASSUME NEW q \in Seq(Decisions), NEW S \in SUBSET DOMAIN q
  PROVE  IsFiniteSet(S) /\ Cardinality(S) \in Nat
  <1>1. PICK n \in Nat : DOMAIN q = 1..n
    OBVIOUS
  <1>2. IsFiniteSet(1..n)
    BY <1>1, FS_Interval
  <1>3. IsFiniteSet(S)
    BY <1>1, <1>2, FS_Subset
  <1> QED
    BY <1>3, FS_CardinalityType

LEMMA EnforcedCount ==
  ASSUME NEW q \in Seq(Decisions), NEW x \in Decisions
  PROVE  Cardinality({i \in DOMAIN Append(q, x) : Enforcing(Append(q, x)[i])})
             = Cardinality({i \in DOMAIN q : Enforcing(q[i])})
                   + (IF Enforcing(x) THEN 1 ELSE 0)
  <1>1. PICK n \in Nat : DOMAIN q = 1..n /\ n = Len(q)
    OBVIOUS
  <1>2. PICK r : r = Append(q, x)
    OBVIOUS
  <1>3. /\ DOMAIN r = 1..(n + 1) /\ r[n + 1] = x
        /\ \A i \in 1..n : r[i] = q[i]
    BY <1>1, <1>2
  <1> DEFINE before == {i \in DOMAIN q : Enforcing(q[i])}
             after == {i \in DOMAIN r : Enforcing(r[i])}
  <1>4. IsFiniteSet(before) /\ Cardinality(before) \in Nat /\ n + 1 \notin before
    BY <1>1, CountsAreNaturals
  <1>5. CASE Enforcing(x)
    <2>1. after = before \cup {n + 1}
      <3>1. \A i : i \in 1..(n + 1) <=> i \in 1..n \/ i = n + 1
        BY <1>1
      <3> QED
        BY <1>1, <1>3, <1>5, <3>1, Zenon
    <2> HIDE DEF before, after
    <2>2. Cardinality(after) = Cardinality(before) + 1
      BY <1>4, <2>1, FS_AddElement
    <2> QED
      BY <1>2, <1>5, <2>2 DEF before, after
  <1>6. CASE ~Enforcing(x)
    <2>1. after = before
      <3>1. \A i : i \in 1..(n + 1) <=> i \in 1..n \/ i = n + 1
        BY <1>1
      <3> QED
        BY <1>1, <1>3, <1>6, <3>1, Zenon
    <2> HIDE DEF before, after
    <2>2. Cardinality(after) = Cardinality(before) + 0
      BY <1>4, <2>1
    <2> QED
      BY <1>2, <1>6, <2>2 DEF before, after
  <1> QED
    BY <1>5, <1>6


-----------------------------------------------------------------------------
(* Each action keeps the invariant.                                          *)

LEMMA Initially ==
  Init => IInv
  <1> SUFFICES ASSUME Init
               PROVE  IInv
    OBVIOUS
  <1> USE DEF Init
  <1>1. Typed
    <2>1. unread \in Seq(Contact)
      BY BatchAssumption
    <2> QED
      BY <2>1 DEF Typed, Phases
  <1>2. Progressed /\ SoundPairs
    BY DEF Progressed, SoundPairs
  <1>3. Budgeting /\ BudgetsHold /\ Current
    BY DEF Budgeting, BudgetsHold, Current
  <1> QED
    BY <1>1, <1>2, <1>3 DEF IInv

(* A step that leaves the run's decisions alone, and what it has written.    *)
LEMMA StillSound ==
  ASSUME IInv, batch' = batch, pairs' = pairs
  PROVE  SoundPairs'
  BY DEF IInv, SoundPairs, Given

LEMMA LoadStep ==
  ASSUME IInv, Load
  PROVE  IInv'
  <1> USE DEF Load
  <1>1. Typed'
    <2>1. Given.file \in Seq(Indicators)
      BY GivenTyped DEF IInv
    <2>2. CASE Unloadable
      BY <2>2 DEF IInv, Typed, Phases
    <2>3. CASE ~Unloadable
      <3>1. indicators' \in Seq(Indicators)
        BY <2>1, <2>3, LoadedTyped
      <3> QED
        BY <2>3, <3>1 DEF IInv, Typed, Phases
    <2> QED
      BY <2>2, <2>3
  <1>2. Progressed'
    BY DEF IInv, Progressed, Unloadable, Given
  <1>3. SoundPairs'
    BY StillSound
  <1>4. Budgeting' /\ BudgetsHold' /\ Current'
    BY DEF Budgeting, BudgetsHold, Current
  <1> QED
    BY <1>1, <1>2, <1>3, <1>4 DEF IInv

LEMMA ObserveStep ==
  ASSUME IInv, Observe
  PROVE  IInv'
  <1>1. Typed'
    <2>1. Head(unread) \in Contact /\ Tail(unread) \in Seq(Contact)
      BY DEF IInv, Typed, Observe
    <2>2. \A kind \in {Beacon, Novelty} : Detection(kind, Head(unread)) \in Found
      BY <2>1 DEF Detection, Found, Contact
    <2>3. PICK found \in BOOLEAN, met \in BOOLEAN :
              detections' = detections
                  \o (IF found THEN <<Detection(Beacon, Head(unread))>> ELSE <<>>)
                  \o (IF met THEN <<Detection(Novelty, Head(unread))>> ELSE <<>>)
      <3>1. PICK w, m :
                detections' = detections
                    \o (IF w.found THEN <<Detection(Beacon, Head(unread))>> ELSE <<>>)
                    \o (IF m.found THEN <<Detection(Novelty, Head(unread))>> ELSE <<>>)
        BY Zenon DEF Observe
      <3> QED
        BY <3>1
    <2>4. detections' \in Seq(Found)
      <3>1. PICK b, n : b = Detection(Beacon, Head(unread)) /\ n = Detection(Novelty, Head(unread))
        OBVIOUS
      <3>2. b \in Found /\ n \in Found
        BY <2>2, <3>1
      <3>3. detections \in Seq(Found) /\ <<b>> \in Seq(Found) /\ <<n>> \in Seq(Found)
        BY <3>2 DEF IInv, Typed
      <3> QED
        BY <2>3, <3>1, <3>3
    <2> QED
      BY <2>1, <2>4 DEF IInv, Typed, Observe
  <1>2. Progressed'
    BY DEF IInv, Progressed, Unloadable, Given, Observe
  <1>3. SoundPairs'
    BY StillSound DEF Observe
  <1>4. Budgeting' /\ BudgetsHold' /\ Current'
    BY DEF Budgeting, BudgetsHold, Current, Observe
  <1> QED
    BY <1>1, <1>2, <1>3, <1>4 DEF IInv

LEMMA NoneProposed ==
  ASSUME pairs = <<>>
  PROVE  Proposed = 0
  <1>1. {i \in DOMAIN pairs : Enforcing(pairs[i])} = {}
    OBVIOUS
  <1> QED
    BY <1>1, FS_EmptySet DEF Proposed

LEMMA FoldStep ==
  ASSUME IInv, FoldDetections
  PROVE  IInv'
  <1>1. indicators' \in Seq(Indicators)
    BY FoldingTyped DEF IInv
  <1>2. /\ phase = "observe" /\ phase' = "judge"
        /\ UNCHANGED <<batch, unread, beacons, novelty, detections, pairs, written, out>>
    BY DEF FoldDetections
  <1>3. Typed'
    BY <1>1, <1>2 DEF IInv, Typed, Phases
  <1>4. Progressed'
    BY <1>2 DEF IInv, Progressed, Unloadable, Given
  <1>5. SoundPairs'
    BY <1>2, StillSound
  <1>6. Budgeting'
    <2>1. pairs = <<>>
      BY <1>2 DEF IInv, Progressed
    <2>2. Proposed = 0
      BY <2>1, NoneProposed
    <2>3. Given.document.budget # Absent =>
              Given.document.budget \in Int /\ Given.document.budget >= 1
      BY <1>2, GivenTyped, AcceptedDocuments DEF IInv, Progressed, Unloadable
    <2>4. Proposed' = 0 /\ Given' = Given
      BY <1>2, <2>2 DEF Proposed, Given
    <2> QED
      BY <1>2, <2>1, <2>3, <2>4 DEF Budgeting
  <1>7. BudgetsHold' /\ Current'
    BY <1>2 DEF BudgetsHold, Current
  <1> QED
    BY <1>3, <1>4, <1>5, <1>6, <1>7 DEF IInv


LEMMA JudgeStep ==
  ASSUME IInv, JudgeNext
  PROVE  IInv'
  <1> USE DEF IInv
  <1>1. /\ phase = "judge" /\ Len(pairs) < Len(indicators)
        /\ UNCHANGED <<batch, indicators, unread, beacons, novelty, detections, written, out>>
    BY DEF JudgeNext
  <1>2. IsDocument(Given.document) /\ ~Unloadable /\ Given' = Given
    BY <1>1, GivenTyped DEF Progressed, Given
  <1>3. CASE phase' = "refused" /\ UNCHANGED pairs
    <2>1. Typed'
      BY <1>1, <1>3 DEF Typed, Phases
    <2>2. Progressed' /\ Budgeting' /\ BudgetsHold' /\ Current'
      BY <1>1, <1>3 DEF Progressed, Budgeting, BudgetsHold, Current
    <2> QED
      BY <1>1, <1>3, <2>1, <2>2, StillSound
  <1>4. ASSUME NEW ceiling \in Ceilings, UNCHANGED phase,
               pairs' = Append(pairs, Budgeted(Decided(Upcoming, Judged, ceiling)))
        PROVE  IInv'
    <2>1. Upcoming \in Indicators
      BY <1>1 DEF Upcoming, Typed
    <2>2. PICK d : d = Decided(Upcoming, Judged, ceiling)
      OBVIOUS
    <2>3. d \in Decisions /\ Sound(Given, d) /\ d.demoted = "no"
      BY <1>2, <2>1, <2>2, DecidedIsSound DEF Judged
    <2>4. PICK x : x = Budgeted(d)
      OBVIOUS
    <2>5. pairs' = Append(pairs, x)
      BY <1>4, <2>2, <2>4
    <2>6. PICK least : least = Demoted(d, "budget")
      OBVIOUS
    <2>7. /\ least \in Decisions /\ Sound(Given, least) /\ ~Enforcing(least)
          /\ least.demoted = "budget"
      BY <2>3, <2>6, DemotedIsSound
    <2>8. x = IF /\ Given.document.budget # Absent /\ Enforcing(d)
                 /\ Proposed >= Given.document.budget
              THEN least ELSE d
      BY <2>4, <2>6 DEF Budgeted
    <2>9. x \in Decisions /\ Sound(Given, x)
      BY <2>3, <2>7, <2>8
    <2>10. Typed'
      <3>1. pairs' \in Seq(Decisions)
        BY <2>5, <2>9 DEF Typed
      <3> QED
        BY <1>1, <1>4, <3>1 DEF Typed
    <2>11. PICK n \in Nat : /\ DOMAIN pairs = 1..n /\ DOMAIN pairs' = 1..(n + 1)
                            /\ pairs'[n + 1] = x
                            /\ \A i \in 1..n : pairs'[i] = pairs[i]
      <3>1. pairs \in Seq(Decisions)
        BY DEF Typed
      <3>2. PICK n \in Nat : n = Len(pairs)
        BY <3>1
      <3>3. DOMAIN pairs = 1..n /\ DOMAIN pairs' = 1..(n + 1)
        BY <2>5, <2>9, <3>1, <3>2
      <3>4. pairs'[n + 1] = x /\ \A i \in 1..n : pairs'[i] = pairs[i]
        BY <2>5, <2>9, <3>1, <3>2
      <3> QED
        BY <3>3, <3>4
    <2>12. \A i \in DOMAIN pairs' : i \in DOMAIN pairs \/ i = n + 1
      BY <2>11
    <2>13. Progressed'
      BY <1>1, <1>2, <1>4 DEF Progressed, Unloadable
    <2>14. SoundPairs'
      BY <1>2, <2>9, <2>11, <2>12, Zenon DEF SoundPairs
    <2>15. Proposed \in Nat
      BY CountsAreNaturals DEF Typed, Proposed
    <2>16. Proposed' = Proposed + (IF Enforcing(x) THEN 1 ELSE 0)
      <3>1. Proposed' = Cardinality({i \in DOMAIN Append(pairs, x) :
                                        Enforcing(Append(pairs, x)[i])})
        BY <2>5 DEF Proposed, Enforcing
      <3> QED
        BY <2>9, <3>1, EnforcedCount DEF Typed, Proposed
    <2>17. Given.document.budget # Absent => Given.document.budget \in Int
      BY <1>2, AcceptedDocuments DEF Unloadable
    <2>18. Budgeting'
      <3> DEFINE limit == Given.document.budget
      <3>1. \A i \in DOMAIN pairs' : pairs'[i].demoted # "challenge"
        BY <1>1, <2>3, <2>7, <2>8, <2>11, <2>12 DEF Budgeting
      <3>2. ASSUME limit = Absent
            PROVE  \A i \in DOMAIN pairs' : pairs'[i].demoted # "budget"
        <4>1. x.demoted # "budget"
          BY <2>3, <2>8, <3>2
        <4> QED
          BY <1>1, <2>11, <2>12, <3>2, <4>1 DEF Budgeting
      <3>3. ASSUME limit # Absent
            PROVE  /\ Proposed' <= limit
                   /\ \A i \in DOMAIN pairs' : pairs'[i].demoted = "budget" =>
                          Proposed' = limit
        <4>1. Proposed <= limit
          BY <1>1, <3>3 DEF Budgeting
        <4>2. \A i \in 1..n : pairs[i].demoted = "budget" => Proposed = limit
          BY <1>1, <2>11, <3>3 DEF Budgeting
        <4>3. CASE Enforcing(d) /\ Proposed >= limit
          <5>1. x = least
            BY <2>8, <3>3, <4>3
          <5>2. Proposed' = Proposed + 0
            BY <2>7, <2>16, <5>1
          <5>3. Proposed' = limit
            BY <2>15, <2>17, <3>3, <4>1, <4>3, <5>2
          <5> QED
            BY <2>17, <3>3, <5>3
        <4>4. CASE Enforcing(d) /\ ~(Proposed >= limit)
          <5>1. x = d
            BY <2>8, <4>4
          <5>2. Proposed' = Proposed + 1
            BY <2>16, <4>4, <5>1
          <5>3. x.demoted # "budget"
            BY <2>3, <5>1
          <5>4. Proposed # limit /\ Proposed' <= limit
            BY <2>15, <2>17, <3>3, <4>1, <4>4, <5>2
          <5> QED
            BY <2>11, <2>12, <4>2, <5>3, <5>4
        <4>5. CASE ~Enforcing(d)
          <5>1. x = d
            BY <2>8, <4>5
          <5>2. Proposed' = Proposed
            BY <2>15, <2>16, <4>5, <5>1
          <5>3. x.demoted # "budget"
            BY <2>3, <5>1
          <5> QED
            BY <2>11, <2>12, <4>1, <4>2, <5>2, <5>3
        <4> QED
          BY <4>3, <4>4, <4>5
      <3> QED
        BY <1>2, <3>1, <3>2, <3>3 DEF Budgeting
    <2>19. BudgetsHold' /\ Current'
      BY <1>1, <1>4 DEF BudgetsHold, Current
    <2> QED
      BY <2>10, <2>13, <2>14, <2>18, <2>19
  <1> QED
    BY <1>3, <1>4 DEF JudgeNext

(* What is kept of the challenges keeps their budget: the challenges that are*)
(* demoted were enforced, so the place they leave in the other budget shows. *)
LEMMA AllowanceBounds ==
  ASSUME IInv, phase = "judge", Given.document.fraction # Absent
  PROVE  /\ Allowance \in Int /\ Or(Measured, 0) * Given.document.fraction \in Int
         /\ \A n \in Int :
               /\ n <= Allowance => n * Whole <= Or(Measured, 0) * Given.document.fraction
               /\ n >= Allowance => (n + 1) * Whole > Or(Measured, 0) * Given.document.fraction
  <1>1. IsDocument(Given.document) /\ ~Refused(Given.document) /\ Given.measured \in Optional
    BY GivenTyped DEF IInv, Progressed, Unloadable
  <1>2. /\ Given.document.fraction \in Int
        /\ Given.document.measured # Absent => Given.document.measured \in Int
    BY <1>1, AcceptedDocuments
  <1>3. Measured # Absent => Measured \in Int
    BY <1>1, <1>2 DEF Measured, Optional
  <1>4. PICK m \in Int : m = Or(Measured, 0)
    BY <1>3 DEF Or
  <1>5. PICK x \in Int : x = m * Given.document.fraction
    BY <1>2
  <1>6. Allowance = x \div Whole
    <2>1. CASE Measured = Absent
      <3>1. m = 0
        BY <1>4, <2>1 DEF Or
      <3>2. x = 0
        BY <1>2, <1>5, <3>1
      <3>3. x \div Whole = 0
        BY <3>2, SMT DEF Whole
      <3> QED
        BY <2>1, <3>3 DEF Allowance
    <2>2. CASE Measured # Absent
      <3>1. m = Measured
        BY <1>4, <2>2 DEF Or
      <3> QED
        BY <1>5, <2>2, <3>1 DEF Allowance
    <2> QED
      BY <2>1, <2>2
  <1>7. PICK q \in Int : q = x \div Whole
    BY SMT DEF Whole
  <1>8. q * Whole <= x /\ x < (q + 1) * Whole
    BY <1>7, SMT DEF Whole
  <1>9. \A n \in Int : /\ n <= q => n * Whole <= x
                       /\ n >= q => (n + 1) * Whole > x
    BY <1>8, SMT DEF Whole
  <1> QED
    BY <1>4, <1>5, <1>6, <1>7, <1>9


LEMMA KeepStep ==
  ASSUME IInv, KeepChallenges
  PROVE  IInv'
  <1> USE DEF IInv
  <1>1. /\ phase = "judge" /\ phase' = "write"
        /\ UNCHANGED <<batch, indicators, unread, beacons, novelty, detections, written, out>>
    BY DEF KeepChallenges
  <1>2. Given' = Given /\ written = 0
    BY <1>1 DEF Given, Progressed
  <1>3. IsDocument(Given.document) /\ ~Refused(Given.document)
    BY <1>1, GivenTyped DEF Progressed, Unloadable
  <1>4. Measured' = Measured
    BY <1>2 DEF Measured
  <1>5. PICK R \in SUBSET Challenges :
            /\ DOMAIN pairs' = DOMAIN pairs
            /\ \A i \in R : pairs'[i] = Demoted(pairs[i], "challenge")
            /\ \A i \in DOMAIN pairs \ R : pairs'[i] = pairs[i]
            /\ pairs' \in Seq(Decisions)
            /\ Given.document.fraction = Absent => R = {}
            /\ Given.document.fraction # Absent =>
                   /\ Cardinality(Challenges \ R) <= Allowance
                   /\ R # {} => Cardinality(Challenges \ R) = Allowance
    <2>1. Given.document.fraction # Absent => Allowance \in Int
      BY <1>1, AllowanceBounds
    <2>2. Given.document.fraction = Absent <=> Allowance = Absent
      BY <2>1, BatchAssumption DEF Allowance
    <2>3. pairs \in Seq(Decisions)
      BY DEF Typed
    <2>4. CASE Allowance = Absent \/ Cardinality(Challenges) <= Or(Allowance, 0)
      <3>1. pairs' = pairs
        BY <2>4 DEF KeepChallenges
      <3>2. Challenges \ {} = Challenges
        OBVIOUS
      <3>3. Given.document.fraction # Absent => Cardinality(Challenges) <= Allowance
        BY <2>2, <2>4 DEF Or
      <3>4. {} \in SUBSET Challenges
        OBVIOUS
      <3> QED
        BY <2>3, <3>1, <3>2, <3>3, <3>4
    <2>5. CASE ~(Allowance = Absent \/ Cardinality(Challenges) <= Or(Allowance, 0))
      <3>1. PICK kept \in SUBSET Challenges :
                /\ Cardinality(kept) = Allowance
                /\ pairs' = [i \in DOMAIN pairs |->
                       IF i \in Challenges \ kept THEN Reverted(pairs[i])
                       ELSE pairs[i]]
        BY <2>5 DEF KeepChallenges
      <3> DEFINE R == Challenges \ kept
      <3>2. R \in SUBSET Challenges /\ Challenges \ R = kept
        BY <3>1
      <3>3. Challenges \subseteq DOMAIN pairs
        BY DEF Challenges
      <3>4. /\ DOMAIN pairs' = DOMAIN pairs
            /\ \A i \in DOMAIN pairs : pairs'[i] = IF i \in R THEN Demoted(pairs[i], "challenge")
                                                   ELSE pairs[i]
        BY <3>1, Zenon DEF Reverted
      <3> HIDE DEF R
      <3>5. \A i \in DOMAIN pairs : pairs'[i] \in Decisions
        <4> SUFFICES ASSUME NEW i \in DOMAIN pairs
                     PROVE  pairs'[i] \in Decisions
          OBVIOUS
        <4>1. pairs[i] \in Decisions
          BY <2>3
        <4>2. Demoted(pairs[i], "challenge") \in Decisions
          BY <4>1, DemotedIsSound
        <4> QED
          BY <3>4, <4>1, <4>2
      <3>6. pairs' \in Seq(Decisions)
        <4>1. PICK n \in Nat : DOMAIN pairs = 1..n
          BY <2>3
        <4>2. pairs' = [i \in 1..n |-> pairs'[i]]
          BY <3>1, <3>4, <4>1, Zenon
        <4>3. \A i \in 1..n : pairs'[i] \in Decisions
          BY <3>5, <4>1
        <4>4. pairs' \in [1..n -> Decisions]
          BY <4>2, <4>3, Zenon
        <4> QED
          BY <4>4, SeqDef
      <3>7. \A i \in R : pairs'[i] = Demoted(pairs[i], "challenge")
        BY <3>2, <3>3, <3>4
      <3>8. \A i \in DOMAIN pairs \ R : pairs'[i] = pairs[i]
        BY <3>4
      <3>9. /\ Given.document.fraction = Absent => R = {}
            /\ Given.document.fraction # Absent =>
                   /\ Cardinality(Challenges \ R) <= Allowance
                   /\ R # {} => Cardinality(Challenges \ R) = Allowance
        BY <2>1, <2>2, <2>5, <3>1, <3>2
      <3> QED
        BY <3>2, <3>4, <3>6, <3>7, <3>8, <3>9
    <2> QED
      BY <2>4, <2>5
  <1>6. /\ Challenges \subseteq DOMAIN pairs
        /\ \A i \in R : i \in DOMAIN pairs /\ pairs[i].action = "proxy_challenge"
    BY DEF Challenges
  <1>7. \A i \in DOMAIN pairs : pairs[i] \in Decisions /\ Sound(Given, pairs[i])
    BY DEF Typed, SoundPairs
  <1>8. \A i \in R : /\ Sound(Given, pairs'[i]) /\ ~Enforcing(pairs'[i])
                     /\ pairs'[i].demoted = "challenge" /\ pairs'[i].action = "observe"
    <2> SUFFICES ASSUME NEW i \in R
                 PROVE  /\ Sound(Given, pairs'[i]) /\ ~Enforcing(pairs'[i])
                        /\ pairs'[i].demoted = "challenge" /\ pairs'[i].action = "observe"
      OBVIOUS
    <2>1. pairs[i] \in Decisions /\ pairs'[i] = Demoted(pairs[i], "challenge")
      BY <1>5, <1>6, <1>7
    <2> QED
      BY <2>1, DemotedIsSound
  <1>9. Typed'
    BY <1>1, <1>5 DEF Typed, Phases
  <1>10. Progressed'
    BY <1>1, <1>2 DEF Progressed, Unloadable
  <1>11. SoundPairs'
    BY <1>2, <1>5, <1>7, <1>8 DEF SoundPairs
  <1>12. Budgeting' /\ Current'
    BY <1>1, <1>2 DEF Budgeting, Current
  <1>13. BudgetsHold'
    <2> DEFINE By(q, why) == {i \in DOMAIN q : q[i].demoted = why}
               E(q) == {i \in DOMAIN q : Enforcing(q[i])}
               limit == Given.document.budget
               fraction == Given.document.fraction
    <2>1. PICK q : q = pairs'
      OBVIOUS
    <2>2. By(q, "challenge") = R
      BY <1>1, <1>5, <1>6, <1>8, <2>1 DEF Budgeting
    <2>3. By(q, "budget") = By(pairs, "budget")
      <3>1. \A i \in R : pairs[i].demoted = "no"
        BY <1>6, <1>7 DEF Sound, Decisions
      <3> QED
        BY <1>5, <1>6, <1>8, <2>1, <3>1
    <2>4. {i \in DOMAIN q : q[i].action = "proxy_challenge"} = Challenges \ R
      BY <1>5, <1>6, <1>8, <2>1 DEF Challenges
    <2>5. E(q) = E(pairs) \ R
      <3>1. \A i \in DOMAIN pairs \ R : q[i] = pairs[i]
        BY <1>5, <2>1
      <3>2. \A i \in R : ~Enforcing(q[i])
        BY <1>8, <2>1
      <3>3. DOMAIN q = DOMAIN pairs
        BY <1>5, <2>1
      <3> QED
        BY <3>1, <3>2, <3>3
    <2>6. /\ IsFiniteSet(R) /\ Cardinality(R) \in Nat
          /\ IsFiniteSet(E(pairs)) /\ Cardinality(E(pairs)) \in Nat
          /\ IsFiniteSet(Challenges \ R) /\ Cardinality(Challenges \ R) \in Nat
          /\ Cardinality(By(pairs, "budget")) \in Nat /\ IsFiniteSet(By(pairs, "budget"))
      <3>1. pairs \in Seq(Decisions)
        BY DEF Typed
      <3>2. /\ R \in SUBSET DOMAIN pairs /\ E(pairs) \in SUBSET DOMAIN pairs
            /\ Challenges \ R \in SUBSET DOMAIN pairs
            /\ By(pairs, "budget") \in SUBSET DOMAIN pairs
        BY <1>6
      <3> QED
        BY <3>1, <3>2, CountsAreNaturals
    <2>7. Proposed = Cardinality(E(pairs)) /\ Proposed' = Cardinality(E(q))
      BY <2>1 DEF Proposed, Enforcing
    <2>8. limit # Absent => limit \in Int /\ limit >= 1
      BY <1>3, AcceptedDocuments
    <2>9. ASSUME limit # Absent
          PROVE  /\ Proposed' <= limit
                 /\ Cardinality(By(q, "budget")) > 0 =>
                        Proposed' + Cardinality(By(q, "challenge")) = limit
      <3>1. Proposed <= limit /\ Proposed \in Nat
        BY <1>1, <2>6, <2>7, <2>9 DEF Budgeting
      <3>2. Cardinality(By(q, "budget")) > 0 => Proposed = limit
        <4> SUFFICES ASSUME Cardinality(By(q, "budget")) > 0
                     PROVE  Proposed = limit
          OBVIOUS
        <4>1. Cardinality({}) = 0
          BY FS_EmptySet
        <4>2. By(pairs, "budget") # {}
          <5> SUFFICES ASSUME By(pairs, "budget") = {}
                       PROVE  FALSE
            OBVIOUS
          <5>1. Cardinality(By(q, "budget")) = 0
            BY <2>3, <4>1
          <5> QED
            BY <5>1
        <4> QED
          BY <1>1, <2>9, <4>2 DEF Budgeting
      <3>3. CASE Policy.mode = "EMERGENCY"
        <4>1. E(pairs) = {}
          BY <1>7, <3>3 DEF Sound, Lawful, Policy
        <4>2. Cardinality({}) = 0
          BY FS_EmptySet
        <4>3. Proposed = 0
          BY <2>7, <4>1, <4>2
        <4>4. E(q) = {}
          BY <2>5, <4>1
        <4>5. Proposed' = 0
          BY <2>7, <4>2, <4>4
        <4> QED
          BY <2>8, <2>9, <3>2, <4>3, <4>5
      <3>4. CASE Policy.mode # "EMERGENCY"
        <4>1. R \subseteq E(pairs)
          BY <1>6, <1>7, <3>4 DEF Sound, Lawful, Policy
        <4> HIDE DEF E, By
        <4>2. Cardinality(E(pairs) \ R) = Cardinality(E(pairs)) - Cardinality(R)
          <5>1. E(pairs) \cap R = R
            BY <4>1
          <5> QED
            BY <2>6, <5>1, FS_Difference
        <4>3. Proposed' + Cardinality(R) = Proposed /\ Proposed' <= Proposed
          BY <2>5, <2>6, <2>7, <4>2
        <4>4. Proposed' \in Int
          BY <2>5, <2>6, <2>7, <4>2
        <4> QED
          BY <2>2, <2>8, <2>9, <3>1, <3>2, <4>3, <4>4
      <3> QED
        BY <3>3, <3>4
    <2>10. limit = Absent => Cardinality(By(q, "budget")) = 0
      <3> SUFFICES ASSUME limit = Absent
                   PROVE  Cardinality(By(q, "budget")) = 0
        OBVIOUS
      <3>1. By(pairs, "budget") = {}
        BY <1>1 DEF Budgeting
      <3>2. Cardinality({}) = 0
        BY FS_EmptySet
      <3> QED
        BY <2>3, <3>1, <3>2
    <2>11. Challenges' = Challenges \ R
      BY <2>1, <2>4 DEF Challenges
    <2>12. ASSUME fraction # Absent
           PROVE  /\ Cardinality(Challenges') * Whole <= Or(Measured, 0) * fraction
                  /\ Cardinality(By(q, "challenge")) > 0 =>
                         (Cardinality(Challenges') + 1) * Whole > Or(Measured, 0) * fraction
      <3>1. PICK n \in Nat : n = Cardinality(Challenges')
        BY <2>6, <2>11
      <3>2. n <= Allowance /\ (R # {} => n = Allowance) /\ Allowance \in Int
        BY <1>1, <1>5, <2>11, <2>12, <3>1, AllowanceBounds
      <3>3. Cardinality(R) > 0 => R # {}
        <4> SUFFICES ASSUME R = {}, Cardinality(R) > 0
                     PROVE  FALSE
          OBVIOUS
        <4>1. Cardinality({}) = 0
          BY FS_EmptySet
        <4> QED
          BY <4>1
      <3>4. n * Whole <= Or(Measured, 0) * fraction
        BY <1>1, <2>12, <3>2, AllowanceBounds
      <3>5. R # {} => (n + 1) * Whole > Or(Measured, 0) * fraction
        BY <1>1, <2>12, <3>2, AllowanceBounds
      <3> QED
        BY <2>2, <3>1, <3>3, <3>4, <3>5
    <2>13. fraction = Absent => Cardinality(By(q, "challenge")) = 0
      <3>1. Cardinality({}) = 0
        BY FS_EmptySet
      <3> QED
        BY <1>5, <2>2, <3>1
    <2> HIDE DEF E
    <2> QED
      BY <1>2, <1>4, <2>1, <2>9, <2>10, <2>12, <2>13 DEF BudgetsHold
  <1> QED
    BY <1>9, <1>10, <1>11, <1>12, <1>13


(* A rate limit carries a ceiling, so the compilers take every decision, and *)
(* a run is never refused once it writes.                                    *)
LEMMA WriteStep ==
  ASSUME IInv, Write
  PROVE  IInv'
  <1> USE DEF IInv
  <1>1. /\ phase = "write" /\ written < Len(Files)
        /\ UNCHANGED <<batch, indicators, unread, beacons, novelty, detections, pairs>>
    BY DEF Write
  <1>2. ~Uncompilable
    <2> SUFFICES ASSUME NEW i \in DOMAIN pairs, pairs[i].action = "rate_limit",
                        pairs[i].ceiling = 0
                 PROVE  FALSE
      BY DEF Uncompilable
    <2>1. Sound(Given, pairs[i])
      BY DEF SoundPairs
    <2>2. pairs[i].ceiling \in 1..Given.document.ceiling
      BY <2>1 DEF Sound, Lawful
    <2> QED
      BY <2>2
  <1>3. Len(Files) = 4 /\ written \in 0..3
    BY <1>1 DEF Files, Typed
  <1>4. PICK file : file = Files[written + 1]
    OBVIOUS
  <1>5. /\ out' = [f \in DOMAIN out \cup {file} |-> IF f = file THEN Contents[file] ELSE out[f]]
        /\ written' = written + 1
        /\ phase' = IF written + 1 = Len(Files) THEN "done" ELSE phase
    BY <1>2, <1>4, Zenon DEF Write
  <1>6. written' \in 1..4 /\ phase' \in {"write", "done"} /\ (phase' = "done" => written' = 4)
    BY <1>1, <1>3, <1>5
  <1>7. Typed'
    BY <1>1, <1>6 DEF Typed, Phases
  <1>8. Given' = Given
    BY <1>1 DEF Given
  <1>9. Progressed'
    BY <1>1, <1>6, <1>8 DEF Progressed, Unloadable
  <1>10. SoundPairs'
    BY <1>1, StillSound
  <1>11. Budgeting'
    BY <1>6 DEF Budgeting
  <1>12. BudgetsHold'
    <2>1. Proposed' = Proposed /\ Challenges' = Challenges /\ Measured' = Measured
      BY <1>1, <1>8 DEF Proposed, Challenges, Measured
    <2> QED
      BY <1>1, <1>8, <2>1 DEF BudgetsHold
  <1>13. Current'
    <2>1. Contents' = Contents
      BY <1>1 DEF Contents, Zone, Rules, Artifacts
    <2>2. PICK c : c = Contents
      OBVIOUS
    <2>3. \A k \in 1..written : /\ Files[k] \in DOMAIN out /\ out[Files[k]] = c[Files[k]]
      BY <1>1, <2>2 DEF Current
    <2>4. out'[file] = c[file] /\ file \in DOMAIN out'
      BY <1>5, <2>2
    <2>5. \A f \in DOMAIN out : f # file => f \in DOMAIN out' /\ out'[f] = out[f]
      BY <1>5
    <2>6. \A k \in 1..written : Files[k] # file
      BY <1>3, <1>4 DEF Files
    <2>7. \A k \in 1..written' : k \in 1..written \/ k = written + 1
      BY <1>3, <1>5
    <2>8. \A k \in 1..written' : Files[k] \in DOMAIN out' /\ out'[Files[k]] = c[Files[k]]
      BY <1>4, <2>3, <2>4, <2>5, <2>6, <2>7
    <2> QED
      BY <2>1, <2>2, <2>8 DEF Current, Files
  <1> QED
    BY <1>7, <1>9, <1>10, <1>11, <1>12, <1>13

LEMMA CrashStep ==
  ASSUME IInv, Crash
  PROVE  IInv'
  <1> USE DEF IInv
  <1>1. Typed'
    BY DEF Crash, Typed, Phases
  <1>2. SoundPairs'
    BY StillSound DEF Crash
  <1>3. Progressed' /\ Budgeting' /\ BudgetsHold' /\ Current'
    BY DEF Crash, Progressed, Budgeting, BudgetsHold, Current
  <1> QED
    BY <1>1, <1>2, <1>3

LEMMA RerunStep ==
  ASSUME IInv, Rerun
  PROVE  IInv'
  <1>1. Typed'
    <2>1. batch' \in Batches /\ unread' \in Seq(Contact)
      BY BatchAssumption DEF Rerun
    <2> QED
      BY <2>1 DEF Rerun, Typed, Phases
  <1>2. Progressed' /\ SoundPairs'
    BY DEF Rerun, Progressed, SoundPairs
  <1>3. Budgeting' /\ BudgetsHold' /\ Current'
    BY DEF Rerun, Budgeting, BudgetsHold, Current
  <1> QED
    BY <1>1, <1>2, <1>3 DEF IInv

LEMMA StutterStep ==
  ASSUME IInv, UNCHANGED vars
  PROVE  IInv'
  <1> USE DEF IInv, vars
  <1>1. Given' = Given
    BY DEF Given
  <1>2. Typed' /\ Progressed'
    BY <1>1 DEF Typed, Progressed, Unloadable
  <1>3. SoundPairs'
    BY StillSound
  <1>4. Proposed' = Proposed /\ Challenges' = Challenges /\ Measured' = Measured
    BY <1>1 DEF Proposed, Challenges, Measured
  <1>5. Budgeting' /\ BudgetsHold'
    BY <1>1, <1>4 DEF Budgeting, BudgetsHold
  <1>6. Contents' = Contents
    BY DEF Contents, Zone, Rules, Artifacts
  <1>7. Current'
    BY <1>6 DEF Current
  <1> QED
    BY <1>2, <1>3, <1>5, <1>7

(* The parts of the invariant hold together in every reachable state.        *)
THEOREM InvariantHolds == Spec => []IInv
  <1>1. IInv /\ [Next]_vars => IInv'
    BY LoadStep, ObserveStep, FoldStep, JudgeStep, KeepStep, WriteStep, CrashStep,
       RerunStep, StutterStep DEF Next
  <1> QED
    BY Initially, <1>1, PTL DEF Spec

-----------------------------------------------------------------------------
(* What a run promises.                                                      *)

(* Whatever the run, what it publishes keeps both budgets and has used them  *)
(* up if anything was demoted: the loop of cmd_evaluate with                 *)
(* apply_client_impact_budget after it.                                      *)
THEOREM BudgetsAlwaysHold == Spec => []BudgetsHold
  <1>1. IInv => BudgetsHold
    BY DEF IInv
  <1> QED
    BY <1>1, InvariantHolds, PTL

(* A finished run in the invariant has files that attest each other.         *)
LEMMA FinishedAttested ==
  IInv => OutputsAttested
  <1> SUFFICES ASSUME IInv
               PROVE  OutputsAttested
    OBVIOUS
  <1> USE DEF IInv
  <1>1. phase = "refused" => written = 0
    BY DEF Progressed
  <1>2. ASSUME phase = "done"
        PROVE  /\ out.decisions = pairs /\ out.rpz = Zone /\ out.suricata = Rules
               /\ out.receipts = Artifacts
    <2>1. \A k \in 1..4 : out[Files[k]] = Contents[Files[k]]
      BY <1>2 DEF Current, Progressed
    <2>2. /\ out["decisions"] = Contents["decisions"] /\ out["rpz"] = Contents["rpz"]
          /\ out["suricata"] = Contents["suricata"] /\ out["receipts"] = Contents["receipts"]
      BY <2>1 DEF Files
    <2> QED
      BY <2>2 DEF Contents
  <1>3. \A i \in DOMAIN pairs : /\ pairs[i] \in Decisions /\ Lawful(Policy, pairs[i].name, pairs[i])
                                /\ pairs[i].rung = "L2" =>
                                       /\ pairs[i].ceiling \in 1..Given.document.ceiling
                                       /\ pairs[i].client # Nobody
                                /\ pairs[i].demoted # "no" =>
                                       /\ pairs[i].action = "observe"
                                       /\ pairs[i].disposition = "OBSERVE"
    BY DEF SoundPairs, Sound, Typed, Policy
  <1>4. Artifacts = {[adapter |-> a, decision |-> i] : a \in {"rpz"}, i \in Zone}
                        \cup {[adapter |-> a, decision |-> i] : a \in {"suricata"}, i \in Rules}
    BY DEF Artifacts
  <1>5. ASSUME NEW i \in Zone \cup Rules
        PROVE  /\ i \in DOMAIN pairs /\ pairs[i].disposition \in Acting
               /\ pairs[i].demoted = "no"
               /\ InScope(Policy, pairs[i].name) /\ ~Allowlisted(Policy, pairs[i].name)
               /\ pairs[i].rung = "L2" => /\ pairs[i].ceiling \in 1..Given.document.ceiling
                                          /\ pairs[i].client # Nobody
    <2>1. /\ i \in DOMAIN pairs
          /\ pairs[i].action \in {"dns_nxdomain", "firewall_deny", "rate_limit"}
      BY DEF Zone, Rules
    <2>2. pairs[i].disposition \in Acting
      BY <1>3, <2>1 DEF Lawful
    <2> QED
      BY <1>3, <2>1, <2>2 DEF Lawful
  <1>6. ASSUME NEW r \in Artifacts
        PROVE  r.decision \in Zone \cup Rules
    BY DEF Artifacts
  <1>7. ASSUME NEW i \in DOMAIN pairs,
               pairs[i].action \in {"dns_nxdomain", "firewall_deny", "rate_limit"},
               Enforcing(pairs[i]), TypeOf[pairs[i].name] # "cidr"
        PROVE  \E r \in Artifacts : r.decision = i
    <2>1. Lawful(Policy, pairs[i].name, pairs[i])
      BY <1>3
    <2>2. i \in Zone \/ i \in Rules
      <3>1. CASE pairs[i].action = "dns_nxdomain"
        BY <1>7, <2>1, <3>1 DEF Lawful, Zone
      <3>2. CASE pairs[i].action = "firewall_deny"
        BY <1>7, <2>1, <3>2 DEF Lawful, Rules
      <3>3. CASE pairs[i].action = "rate_limit"
        BY <1>3, <1>7, <2>1, <3>3 DEF Lawful, Rules
      <3> QED
        BY <1>7, <3>1, <3>2, <3>3
    <2>3. CASE i \in Zone
      <3>1. [adapter |-> "rpz", decision |-> i] \in Artifacts
        BY <2>3 DEF Artifacts
      <3> QED
        BY <3>1
    <2>4. CASE i \in Rules
      <3>1. [adapter |-> "suricata", decision |-> i] \in Artifacts
        BY <2>4 DEF Artifacts
      <3> QED
        BY <3>1
    <2> QED
      BY <2>2, <2>3, <2>4
  <1>8. ASSUME phase = "done"
        PROVE  OutputsAttested
    <2>1. out.receipts = {[adapter |-> a, decision |-> i] : a \in {"rpz"}, i \in out.rpz}
                             \cup {[adapter |-> a, decision |-> i] :
                                      a \in {"suricata"}, i \in out.suricata}
      BY <1>2, <1>4, <1>8
    <2>2. \A r \in out.receipts :
              /\ r.decision \in DOMAIN out.decisions
              /\ LET d == out.decisions[r.decision] IN
                 /\ d.disposition \in Acting /\ d.demoted = "no"
                 /\ InScope(Policy, d.name) /\ ~Allowlisted(Policy, d.name)
                 /\ d.rung = "L2" =>
                        d.ceiling \in 1..Given.document.ceiling /\ d.client # Nobody
      BY <1>2, <1>5, <1>6, <1>8
    <2>3. \A i \in DOMAIN out.decisions :
              /\ out.decisions[i].action \in {"dns_nxdomain", "firewall_deny", "rate_limit"}
              /\ Enforcing(out.decisions[i])
              /\ TypeOf[out.decisions[i].name] # "cidr"
              => \E r \in out.receipts : r.decision = i
      BY <1>2, <1>7, <1>8
    <2> QED
      BY <1>1, <2>1, <2>2, <2>3 DEF OutputsAttested
  <1> QED
    BY <1>1, <1>8 DEF OutputsAttested

(* The zone, the rules and the receipts of a finished run are about each     *)
(* other and about decisions that act, whatever earlier runs left behind: the*)
(* writes at the end of cmd_evaluate.                                        *)
THEOREM OutputsAreAttested == Spec => []OutputsAttested
  BY FinishedAttested, InvariantHolds, PTL

-----------------------------------------------------------------------------
(* Lemmas about the lists that the reference makes of the records.           *)

(* v is the list of e's records at S: h says where each of them stands.      *)
Lists(v, e, S, h) ==
    /\ v \in Seq(Observed) /\ e \in Seq(Observed)
    /\ h \in [1..Len(v) -> S] /\ S \subseteq DOMAIN e
    /\ \A i \in S : \E j \in 1..Len(v) : h[j] = i
    /\ \A j, k \in 1..Len(v) : j < k => h[j] < h[k]
    /\ \A j \in 1..Len(v) : v[j] = e[h[j]]

(* The equation Picked's recursion solves, and a solution of it.             *)
Picks(f, n, e, S) ==
    f = [k \in 0..n |-> IF k = 0 THEN <<>>
                        ELSE IF k \in S THEN Append(f[k - 1], e[k]) ELSE f[k - 1]]

LEMMA PicksExist ==
  ASSUME NEW e, NEW S
  PROVE  \A n \in Nat : \E f : Picks(f, n, e, S)
  <1> DEFINE N == {n \in Nat : \E f : Picks(f, n, e, S)}
  <1>1. 0 \in N
    <2>1. Picks([k \in 0..0 |-> <<>>], 0, e, S)
      BY DEF Picks
    <2> QED
      BY <2>1
  <1>2. ASSUME NEW n \in N
        PROVE  n + 1 \in N
    <2>1. PICK f : Picks(f, n, e, S)
      OBVIOUS
    <2> DEFINE step(g, k) == IF k = 0 THEN <<>>
                             ELSE IF k \in S THEN Append(g[k - 1], e[k]) ELSE g[k - 1]
               g == [k \in 0..(n + 1) |-> step(f, k)]
    <2>2. \A k \in 0..n : f[k] = g[k]
      <3>1. \A k \in 0..n : f[k] = step(f, k)
        BY <2>1, Zenon DEF Picks
      <3>2. \A k \in 0..n : k \in 0..(n + 1)
        OBVIOUS
      <3> QED
        BY <3>1, <3>2, Zenon
    <2>3. \A k \in 0..(n + 1) : k # 0 => k - 1 \in 0..n
      OBVIOUS
    <2>4. \A k \in 0..(n + 1) : k # 0 => g[k - 1] = f[k - 1]
      BY <2>2, <2>3
    <2>5. g = [k \in 0..(n + 1) |-> step(g, k)]
      BY <2>4
    <2> HIDE DEF g
    <2>6. Picks(g, n + 1, e, S)
      BY <2>5, Zenon DEF Picks
    <2> QED
      BY <2>6
  <1> QED
    BY <1>1, <1>2, NaturalSet

(* Its list after each of the records.                                       *)
Grows(f, n, e, S) ==
    /\ Picked(e, S) = f[n] /\ f[0] = <<>>
    /\ \A k \in 1..n : f[k] = IF k \in S THEN Append(f[k - 1], e[k]) ELSE f[k - 1]

LEMMA PickedGrows ==
  ASSUME NEW e, Len(e) \in Nat, NEW S
  PROVE  \E f : Grows(f, Len(e), e, S)
  <1> DEFINE n == Len(e)
  <1>1. PICK f : Picks(f, n, e, S) /\ Picked(e, S) = f[n]
    <2>1. \E f : Picks(f, n, e, S)
      BY PicksExist
    <2>k. PICK k : k = CHOOSE f : Picks(f, n, e, S)
      OBVIOUS
    <2>2. Picks(k, n, e, S)
      BY <2>1, <2>k
    <2>3. Picked(e, S) = k[n]
      BY <2>k DEF Picked, Picks
    <2> QED
      BY <2>2, <2>3
  <1> HIDE DEF n
  <1>2. \A k \in 0..n : f[k] = IF k = 0 THEN <<>>
                               ELSE IF k \in S THEN Append(f[k - 1], e[k]) ELSE f[k - 1]
    BY <1>1, Zenon DEF Picks
  <1>3. n \in Nat /\ 0 \in 0..n /\ \A k \in 1..n : k \in 0..n /\ k # 0
    BY DEF n
  <1>4. f[0] = <<>>
    BY <1>2, <1>3, Zenon
  <1>5. \A k \in 1..n : f[k] = IF k \in S THEN Append(f[k - 1], e[k]) ELSE f[k - 1]
    BY <1>2, <1>3, Zenon
  <1> QED
    BY <1>1, <1>4, <1>5 DEF Grows, n

LEMMA AppendIs ==
  ASSUME NEW v \in Seq(Observed), NEW x \in Observed
  PROVE  /\ Append(v, x) \in Seq(Observed) /\ Len(Append(v, x)) = Len(v) + 1
         /\ \A j \in 1..Len(v) : Append(v, x)[j] = v[j]
         /\ Append(v, x)[Len(v) + 1] = x
  OBVIOUS

(* With one more record of e, the list of those up to k.                     *)
LEMMA ListsOneMore ==
  ASSUME NEW e \in Seq(Observed), NEW S \in SUBSET DOMAIN e, NEW k \in 1..Len(e),
         NEW v, NEW h, Lists(v, e, {i \in S : i < k}, h), k \in S
  PROVE  Lists(Append(v, e[k]), e, {i \in S : i < k + 1},
               [j \in 1..(Len(v) + 1) |-> IF j = Len(v) + 1 THEN k ELSE h[j]])
  <1> DEFINE n == Len(v)
             w == Append(v, e[k])
             g == [j \in 1..(n + 1) |-> IF j = n + 1 THEN k ELSE h[j]]
             T == {i \in S : i < k + 1}
  <1>1. /\ v \in Seq(Observed) /\ n \in Nat /\ k \in Nat /\ S \subseteq Nat
        /\ h \in [1..n -> {i \in S : i < k}] /\ e[k] \in Observed
        /\ \A i \in {i \in S : i < k} : \E j \in 1..n : h[j] = i
        /\ \A j, l \in 1..n : j < l => h[j] < h[l]
        /\ \A j \in 1..n : v[j] = e[h[j]]
    BY DEF Lists
  <1>2. /\ w \in Seq(Observed) /\ Len(w) = n + 1
        /\ \A j \in 1..n : w[j] = v[j]
        /\ w[n + 1] = e[k]
    BY <1>1, AppendIs
  <1>3. T = {i \in S : i < k} \cup {k}
    BY <1>1
  <1>4. /\ \A j \in 1..n : h[j] \in S /\ h[j] < k
        /\ \A j \in 1..n : j \in 1..(n + 1) /\ j # n + 1
        /\ n + 1 \in 1..(n + 1)
        /\ \A j \in 1..(n + 1) : j # n + 1 => j \in 1..n
    <2>0. n \in Nat /\ h \in [1..n -> {i \in S : i < k}]
      BY <1>1
    <2> HIDE DEF n
    <2>1. \A j \in 1..n : h[j] \in {i \in S : i < k}
      BY <2>0
    <2> QED
      BY <2>0, <2>1
  <1>5. /\ \A j \in 1..n : g[j] = h[j]
        /\ g[n + 1] = k
    BY <1>4
  <1>6. g \in [1..(n + 1) -> T]
    BY <1>1, <1>3, <1>4
  <1> HIDE DEF w, g, n
  <1>7. \A i \in T : \E j \in 1..(n + 1) : g[j] = i
    BY <1>1, <1>3, <1>4, <1>5
  <1>8. \A j, l \in 1..(n + 1) : j < l => g[j] < g[l]
    <2> SUFFICES ASSUME NEW j \in 1..(n + 1), NEW l \in 1..(n + 1), j < l
                 PROVE  g[j] < g[l]
      OBVIOUS
    <2>1. j \in 1..n
      BY <1>1
    <2>2. CASE l = n + 1
      BY <1>4, <1>5, <2>1, <2>2
    <2>3. CASE l # n + 1
      BY <1>1, <1>4, <1>5, <2>1, <2>3
    <2> QED
      BY <2>2, <2>3
  <1>9. \A j \in 1..(n + 1) : w[j] = e[g[j]]
    BY <1>1, <1>2, <1>4, <1>5
  <1>10. T \subseteq DOMAIN e
    OBVIOUS
  <1> HIDE DEF T
  <1>11. Lists(w, e, T, g)
    BY <1>2, <1>6, <1>7, <1>8, <1>9, <1>10 DEF Lists
  <1> QED
    BY <1>11 DEF w, g, T, n

(* Picked lists what it is told to.                                          *)
LEMMA PickedLists ==
  ASSUME NEW e \in Seq(Observed), NEW S \in SUBSET DOMAIN e
  PROVE  \E h : Lists(Picked(e, S), e, S, h)
  <1> DEFINE n == Len(e)
  <1>0. n \in Nat /\ DOMAIN e = 1..n
    OBVIOUS
  <1>1. PICK f : Grows(f, n, e, S)
    BY <1>0, PickedGrows
  <1> HIDE DEF n
  <1>2. /\ Picked(e, S) = f[n] /\ f[0] = <<>>
        /\ \A k \in 1..n : f[k] = IF k \in S THEN Append(f[k - 1], e[k]) ELSE f[k - 1]
    BY <1>1 DEF Grows
  <1> DEFINE upTo(k) == {i \in S : i < k + 1}
             listed(k) == \E h : Lists(f[k], e, upTo(k), h)
             N == {k \in Nat : k <= n => listed(k)}
  <1>3. listed(0)
    <2>1. upTo(0) = {} /\ Len(<<>>) = 0 /\ 1..0 = {} /\ <<>> \in Seq(Observed)
      BY <1>0
    <2>2. Lists(<<>>, e, {}, [j \in 1..0 |-> j])
      BY <2>1 DEF Lists
    <2> QED
      BY <1>2, <2>1, <2>2
  <1>4. ASSUME NEW k \in Nat, listed(k), k + 1 <= n
        PROVE  listed(k + 1)
    <2>1. k + 1 \in 1..n /\ (k + 1) - 1 = k /\ k + 1 \in 1..Len(e)
      BY <1>0, <1>4 DEF n
    <2>2. PICK h : Lists(f[k], e, upTo(k), h)
      BY <1>4
    <2>3. CASE k + 1 \in S
      <3>1. f[k + 1] = Append(f[k], e[k + 1])
        BY <1>2, <2>1, <2>3
      <3> DEFINE m == k + 1
                 v == f[k]
      <3>2. m \in 1..Len(e) /\ m \in S /\ Lists(v, e, {i \in S : i < m}, h)
        BY <2>1, <2>2, <2>3
      <3> HIDE DEF m, v
      <3>3. \E g : Lists(Append(v, e[m]), e, {i \in S : i < m + 1}, g)
        BY <3>2, ListsOneMore
      <3> QED
        BY <3>1, <3>3 DEF m, v
    <2>4. CASE k + 1 \notin S
      <3>1. f[k + 1] = f[k]
        BY <1>2, <2>1, <2>4
      <3>2. upTo(k + 1) = upTo(k)
        BY <1>0, <2>1, <2>4
      <3> QED
        BY <2>2, <3>1, <3>2
    <2> QED
      BY <2>3, <2>4
  <1>5. listed(n)
    <2> HIDE DEF listed
    <2>1. 0 \in N /\ \A k \in N : k + 1 \in N
      BY <1>0, <1>3, <1>4
    <2>2. N \in SUBSET Nat
      OBVIOUS
    <2> HIDE DEF N
    <2>3. N = Nat
      BY <2>1, <2>2, NaturalSet
    <2> QED
      BY <1>0, <2>3 DEF N
  <1>6. upTo(n) = S
    BY <1>0
  <1> QED
    BY <1>2, <1>5, <1>6

(* All of a sequence is the sequence.                                        *)
LEMMA PickedAll ==
  ASSUME NEW e \in Seq(Observed)
  PROVE  Picked(e, DOMAIN e) = e
  <1> DEFINE n == Len(e)
  <1>0. n \in Nat /\ DOMAIN e = 1..n /\ \A k \in 1..n : e[k] \in Observed
    OBVIOUS
  <1>1. PICK f : Grows(f, n, e, DOMAIN e)
    BY <1>0, PickedGrows
  <1> HIDE DEF n
  <1>2. /\ Picked(e, DOMAIN e) = f[n] /\ f[0] = <<>>
        /\ \A k \in 1..n : f[k] = Append(f[k - 1], e[k])
    BY <1>0, <1>1 DEF Grows
  <1> DEFINE starts(k) == /\ f[k] \in Seq(Observed) /\ Len(f[k]) = k
                          /\ \A j \in 1..k : f[k][j] = e[j]
             N == {k \in Nat : k <= n => starts(k)}
  <1>3. starts(0)
    <2>1. <<>> \in Seq(Observed) /\ Len(<<>>) = 0 /\ 1..0 = {}
      OBVIOUS
    <2> QED
      BY <1>2, <2>1
  <1>4. ASSUME NEW k \in Nat, starts(k), k + 1 <= n
        PROVE  starts(k + 1)
    <2>1. k + 1 \in 1..n /\ (k + 1) - 1 = k
      BY <1>0, <1>4
    <2>2. f[k + 1] = Append(f[k], e[k + 1]) /\ e[k + 1] \in Observed
      BY <1>0, <1>2, <2>1
    <2>3. /\ f[k + 1] \in Seq(Observed) /\ Len(f[k + 1]) = k + 1
          /\ \A j \in 1..k : f[k + 1][j] = f[k][j]
          /\ f[k + 1][k + 1] = e[k + 1]
      BY <1>4, <2>2, AppendIs
    <2>4. \A j \in 1..(k + 1) : j \in 1..k \/ j = k + 1
      OBVIOUS
    <2> QED
      BY <1>4, <2>3, <2>4
  <1>5. starts(n)
    <2> HIDE DEF starts
    <2>1. 0 \in N /\ \A k \in N : k + 1 \in N
      BY <1>0, <1>3, <1>4
    <2>2. N \in SUBSET Nat
      OBVIOUS
    <2> HIDE DEF N
    <2>3. N = Nat
      BY <2>1, <2>2, NaturalSet
    <2> QED
      BY <1>0, <2>3 DEF N
  <1>6. f[n] = e
    <2>1. f[n] \in Seq(Observed) /\ Len(f[n]) = Len(e) /\ \A j \in 1..Len(e) : f[n][j] = e[j]
      BY <1>5 DEF n
    <2> HIDE DEF starts
    <2> QED
      BY <2>1, SeqEqual
  <1> QED
    BY <1>2, <1>6

(* There is nothing to strip from what is stripped.                          *)
LEMMA StrippedTwice ==
  ASSUME NEW e \in Seq(Observed)
  PROVE  Stripped(Stripped(e)) = Stripped(e)
  <1> DEFINE S == {i \in DOMAIN e : ~ZeroWeight(e[i])}
             s == Picked(e, S)
  <1>1. PICK h : Lists(s, e, S, h)
    BY PickedLists
  <1>2. /\ s \in Seq(Observed) /\ DOMAIN s = 1..Len(s)
        /\ \A j \in 1..Len(s) : s[j] = e[h[j]] /\ h[j] \in S
    BY <1>1 DEF Lists
  <1>3. {i \in DOMAIN s : ~ZeroWeight(s[i])} = DOMAIN s
    BY <1>2
  <1>4. Picked(s, DOMAIN s) = s
    BY <1>2, PickedAll
  <1> QED
    BY <1>3, <1>4 DEF Stripped

(* _decision_bearing_evidence comes first in evaluate(): whatever the         *)
(* records, stripping those without authority beforehand changes no verdict. *)
THEOREM AnnotationsAreInert == Spec => []AnnotationsNeverMove
  <1>1. IInv => AnnotationsNeverMove
    <2> SUFFICES ASSUME IInv, NEW i \in DOMAIN indicators
                 PROVE  Judge(Policy, indicators[i].name, indicators[i].evidence,
                              Context(indicators[i].evidence)) =
                        Judge(Policy, indicators[i].name, Stripped(indicators[i].evidence),
                              Context(indicators[i].evidence))
      BY DEF AnnotationsNeverMove
    <2>1. indicators \in Seq(Indicators)
      BY DEF IInv, Typed
    <2>2. indicators[i] \in Indicators
      BY <2>1
    <2>3. indicators[i].evidence \in Seq(Observed)
      BY <2>2 DEF Indicators
    <2>4. Stripped(Stripped(indicators[i].evidence)) = Stripped(indicators[i].evidence)
      BY <2>3, StrippedTwice
    <2> QED
      BY <2>4 DEF Judge, View
  <1> QED
    BY <1>1, InvariantHolds, PTL

-----------------------------------------------------------------------------
(* Making a list of a list.                                                  *)
LEMMA ListsOfLists ==
  ASSUME NEW d, NEW s, NEW e, NEW A, NEW B, NEW g, NEW h,
         Lists(s, e, A, g), Lists(d, s, B, h)
  PROVE  Lists(d, e, {g[i] : i \in B}, [j \in 1..Len(d) |-> g[h[j]]])
  <1> DEFINE n == Len(d)
             m == Len(s)
             T == {g[i] : i \in B}
             f == [j \in 1..n |-> g[h[j]]]
  <1>1. /\ s \in Seq(Observed) /\ e \in Seq(Observed) /\ d \in Seq(Observed)
        /\ n \in Nat /\ m \in Nat /\ DOMAIN s = 1..m
        /\ A \subseteq DOMAIN e /\ B \subseteq 1..m /\ DOMAIN e \subseteq Nat
        /\ g \in [1..m -> A] /\ h \in [1..n -> B]
    BY DEF Lists
  <1>2. /\ \A i \in B : \E j \in 1..n : h[j] = i
        /\ \A j, k \in 1..n : j < k => h[j] < h[k]
        /\ \A j \in 1..n : d[j] = s[h[j]]
        /\ \A j, k \in 1..m : j < k => g[j] < g[k]
        /\ \A j \in 1..m : s[j] = e[g[j]]
    BY <1>1 DEF Lists
  <1> HIDE DEF n, m
  <1>3. \A j \in 1..n : h[j] \in B /\ h[j] \in 1..m /\ f[j] = g[h[j]]
    BY <1>1
  <1>4. f \in [1..n -> T]
    BY <1>3
  <1>5. T \subseteq DOMAIN e
    BY <1>1
  <1>6. \A i \in T : \E j \in 1..n : f[j] = i
    BY <1>2, <1>3
  <1>7. \A j, k \in 1..n : j < k => f[j] < f[k]
    BY <1>2, <1>3
  <1>8. \A j \in 1..n : d[j] = e[f[j]]
    BY <1>2, <1>3
  <1> HIDE DEF f, T
  <1>9. Lists(d, e, T, f)
    BY <1>1, <1>4, <1>5, <1>6, <1>7, <1>8 DEF Lists, n
  <1> QED
    BY <1>9 DEF f, T, n

(* What is stripped and deduplicated lists the first record of each key.     *)
LEMMA DedupedLists ==
  ASSUME NEW s, NEW e, NEW A, NEW g, Lists(s, e, A, g),
         \A i \in A : ~ZeroWeight(e[i])
  PROVE  \E f : Lists(Deduped(s), e, Deduplicated(e, A), f)
  <1> DEFINE B == {i \in DOMAIN s : \A k \in DOMAIN s : k < i => KeyOf(s[k]) # KeyOf(s[i])}
             m == Len(s)
  <1>1. /\ s \in Seq(Observed) /\ m \in Nat /\ DOMAIN s = 1..m /\ g \in [1..m -> A]
        /\ A \subseteq DOMAIN e /\ DOMAIN e \subseteq Nat
        /\ \A i \in A : \E j \in 1..m : g[j] = i
        /\ \A j, k \in 1..m : j < k => g[j] < g[k]
        /\ \A j \in 1..m : s[j] = e[g[j]]
    BY DEF Lists
  <1>2. \A i \in DOMAIN s : Keyed(s[i])
    <2>1. \A i \in DOMAIN s : ~ZeroWeight(s[i])
      BY <1>1
    <2> QED
      BY <2>1 DEF ZeroWeight, Keyed, Authoritative
  <1>3. Deduped(s) = Picked(s, B)
    <2>1. \A i \in DOMAIN s :
              {k \in DOMAIN s : k < i /\ Keyed(s[k])} = {k \in DOMAIN s : k < i}
      BY <1>2
    <2>2. {i \in DOMAIN s : Keyed(s[i]) =>
               KeyOf(s[i]) \notin {KeyOf(s[j]) : j \in {k \in DOMAIN s : k < i /\ Keyed(s[k])}}}
              = B
      BY <1>2, <2>1
    <2> QED
      BY <2>2 DEF Deduped
  <1>4. PICK h : Lists(Deduped(s), s, B, h)
    BY <1>1, <1>3, PickedLists
  <1>5. \A j, k \in 1..m : g[j] < g[k] => j < k
    BY <1>1
  <1>6. \A j, k \in 1..m : KeyOf(s[j]) = KeyOf(s[k]) <=> SameObservation(e[g[k]], e[g[j]])
    BY <1>1 DEF KeyOf, SameObservation
  <1>7. {g[i] : i \in B} = Deduplicated(e, A)
    <2>1. ASSUME NEW i \in B
          PROVE  g[i] \in Deduplicated(e, A)
      <3>1. g[i] \in A /\ i \in 1..m
        BY <1>1
      <3>2. ASSUME NEW j \in A, j < g[i]
            PROVE  ~SameObservation(e[g[i]], e[j])
        <4>1. PICK k \in 1..m : g[k] = j
          BY <1>1
        <4>2. k < i
          BY <1>5, <3>1, <3>2, <4>1
        <4>3. KeyOf(s[k]) # KeyOf(s[i])
          BY <1>1, <4>2
        <4> QED
          BY <1>6, <3>1, <4>1, <4>3
      <3> QED
        BY <3>1, <3>2 DEF Deduplicated
    <2>2. ASSUME NEW a \in Deduplicated(e, A)
          PROVE  \E i \in B : a = g[i]
      <3>1. a \in A /\ \A j \in A : j < a => ~SameObservation(e[a], e[j])
        BY DEF Deduplicated
      <3>2. PICK i \in 1..m : g[i] = a
        BY <1>1, <3>1
      <3>3. ASSUME NEW k \in DOMAIN s, k < i
            PROVE  KeyOf(s[k]) # KeyOf(s[i])
        <4>1. k \in 1..m /\ g[k] \in A /\ g[k] < g[i]
          BY <1>1, <3>3
        <4> QED
          BY <1>6, <3>1, <3>2, <4>1
      <3> QED
        BY <1>1, <3>2, <3>3
    <2> QED
      BY <2>1, <2>2
  <1> HIDE DEF B
  <1>8. Lists(Deduped(s), e, {g[i] : i \in B}, [j \in 1..Len(Deduped(s)) |-> g[h[j]]])
    BY <1>4, ListsOfLists
  <1> QED
    BY <1>7, <1>8

(* How many of the records listed stand before the j-th.                     *)
LEMMA RankInList ==
  ASSUME NEW v, NEW e, NEW S, NEW h, Lists(v, e, S, h), NEW j \in 1..Len(v)
  PROVE  Cardinality({i \in S : i < h[j]}) = j - 1
  <1> DEFINE n == Len(v)
             T == {i \in S : i < h[j]}
             f == [k \in 1..(j - 1) |-> h[k]]
  <1>1. /\ n \in Nat /\ h \in [1..n -> S] /\ S \subseteq Nat
        /\ \A i \in S : \E k \in 1..n : h[k] = i
        /\ \A k, l \in 1..n : k < l => h[k] < h[l]
    BY DEF Lists
  <1>0. j \in 1..n /\ j - 1 \in Nat
    BY <1>1
  <1> HIDE DEF n
  <1>2. \A k \in 1..(j - 1) : k \in 1..n /\ k < j /\ h[k] \in S /\ h[k] < h[j]
    BY <1>0, <1>1
  <1>3. f \in [1..(j - 1) -> T]
    BY <1>2
  <1>4. \A k, l \in 1..(j - 1) : f[k] = f[l] => k = l
    <2> SUFFICES ASSUME NEW k \in 1..(j - 1), NEW l \in 1..(j - 1), k # l
                 PROVE  h[k] # h[l]
      OBVIOUS
    <2>1. k \in 1..n /\ l \in 1..n /\ (k < l \/ l < k)
      BY <1>2, <1>0
    <2>2. h[k] \in Nat /\ h[l] \in Nat /\ (h[k] < h[l] \/ h[l] < h[k])
      BY <1>1, <2>1
    <2> QED
      BY <2>2
  <1>5. \A i \in T : \E k \in 1..(j - 1) : f[k] = i
    <2> SUFFICES ASSUME NEW i \in T
                 PROVE  \E k \in 1..(j - 1) : f[k] = i
      OBVIOUS
    <2>1. PICK k \in 1..n : h[k] = i
      BY <1>1
    <2>2. k \in Nat /\ j \in Nat /\ h[k] \in Nat /\ h[j] \in Nat /\ h[k] < h[j]
      <3>1. i < h[j] /\ h[k] \in S /\ h[j] \in S
        BY <1>0, <1>1
      <3>2. h[k] \in Nat /\ h[j] \in Nat
        BY <1>1, <2>1, <3>1
      <3>3. k \in Nat /\ j \in Nat
        BY <1>0, <1>1
      <3> QED
        BY <2>1, <3>1, <3>2, <3>3
    <2>3. ~(j < k) /\ k # j
      BY <1>0, <1>1, <2>1, <2>2
    <2>4. k \in 1..(j - 1)
      BY <2>1, <2>2, <2>3
    <2> QED
      BY <2>1, <2>4
  <1>6. ExistsBijection(1..(j - 1), T)
    <2> HIDE DEF f, T
    <2>1. f \in Bijection(1..(j - 1), T)
      BY <1>3, <1>4, <1>5 DEF Bijection, Injection, Surjection, IsInjective
    <2> QED
      BY <2>1 DEF ExistsBijection
  <1> QED
    BY <1>0, <1>6, FS_CountingElements

(* Cutting to the envelope keeps the records that few others precede.        *)
LEMMA CutLists ==
  ASSUME NEW d, NEW e, NEW D, NEW f, Lists(d, e, D, f), NEW limit \in Int
  PROVE  \E h : Lists(Cut(d, limit), e, Enveloped(D, limit), h)
  <1> DEFINE n == Len(d)
             most == IF limit > 1 THEN limit ELSE 1
             m == AtMost(n, most)
             v == SubSeq(d, 1, m)
             E == Enveloped(D, limit)
             h == [j \in 1..m |-> f[j]]
  <1>1. /\ d \in Seq(Observed) /\ n \in Nat /\ f \in [1..n -> D] /\ D \subseteq DOMAIN e
        /\ e \in Seq(Observed) /\ D \subseteq Nat
        /\ \A i \in D : \E k \in 1..n : f[k] = i
        /\ \A k, l \in 1..n : k < l => f[k] < f[l]
        /\ \A j \in 1..n : d[j] = e[f[j]]
    BY DEF Lists
  <1>2. most \in Nat /\ m \in Nat /\ \A j \in 1..n : j \in 1..m <=> j - 1 < most
    BY <1>1 DEF AtMost
  <1>3. m <= n /\ \A j \in 1..m : j \in 1..n
    BY <1>1 DEF AtMost
  <1>4. Cut(d, limit) = v
    <2>1. AtLeast(1, limit) = most
      BY DEF AtLeast
    <2> QED
      BY <2>1 DEF Cut
  <1>5. v \in Seq(Observed) /\ Len(v) = m /\ \A j \in 1..m : v[j] = d[j]
    BY <1>1, <1>2, <1>3, SubSeqProperties
  <1>6. \A j \in 1..n : f[j] \in E <=> j \in 1..m
    <2> SUFFICES ASSUME NEW j \in 1..n
                 PROVE  f[j] \in E <=> j \in 1..m
      OBVIOUS
    <2>1. Cardinality({i \in D : i < f[j]}) = j - 1
      BY RankInList
    <2>2. f[j] \in D
      BY <1>1
    <2>3. f[j] \in E <=> j - 1 < most
      BY <2>1, <2>2 DEF Enveloped
    <2> HIDE DEF E, m, most
    <2> QED
      BY <1>2, <2>3
  <1>7. E \subseteq D
    BY DEF Enveloped
  <1> HIDE DEF E, m, most, n, v
  <1>8. h \in [1..m -> E]
    BY <1>3, <1>6
  <1>9. \A i \in E : \E j \in 1..m : h[j] = i
    <2> SUFFICES ASSUME NEW i \in E
                 PROVE  \E j \in 1..m : h[j] = i
      OBVIOUS
    <2>1. PICK j \in 1..n : f[j] = i
      BY <1>1, <1>7
    <2>2. j \in 1..m
      BY <1>6, <2>1
    <2> QED
      BY <2>1, <2>2
  <1>10. \A j, k \in 1..m : j < k => h[j] < h[k]
    BY <1>1, <1>3
  <1>11. \A j \in 1..m : v[j] = e[h[j]]
    BY <1>1, <1>3, <1>5
  <1> HIDE DEF h
  <1>12. Lists(v, e, E, h)
    BY <1>1, <1>5, <1>7, <1>8, <1>9, <1>10, <1>11 DEF Lists
  <1> QED
    BY <1>4, <1>12 DEF E

(* What the reference views are the records that decide.                     *)
LEMMA ViewLists ==
  ASSUME NEW p, p.envelope \in Int, NEW e \in Seq(Observed),
         Bearing(p, e) = {i \in DOMAIN e : ~ZeroWeight(e[i])}
  PROVE  \E h : Lists(View(p, e), e, Decisive(p, e), h)
  <1> DEFINE A == {i \in DOMAIN e : ~ZeroWeight(e[i])}
  <1>1. PICK g : Lists(Stripped(e), e, A, g)
    BY PickedLists DEF Stripped
  <1>2. PICK f : Lists(Deduped(Stripped(e)), e, Deduplicated(e, A), f)
    BY <1>1, DedupedLists
  <1>3. \E h : Lists(Cut(Deduped(Stripped(e)), p.envelope), e,
                     Enveloped(Deduplicated(e, A), p.envelope), h)
    BY <1>2, CutLists
  <1> QED
    BY <1>3 DEF View, Decisive

-----------------------------------------------------------------------------
(* Sums over lists and over sets.                                            *)

(* The equation Total's recursion solves, and a solution of it.              *)
Totals(f, n, points) ==
    f = [k \in 0..n |-> IF k = 0 THEN 0 ELSE f[k - 1] + points[k]]

LEMMA TotalsExists ==
  ASSUME NEW points
  PROVE  \A n \in Nat : \E f : Totals(f, n, points)
  <1> DEFINE S == {n \in Nat : \E f : Totals(f, n, points)}
  <1>1. 0 \in S
    <2>1. Totals([k \in 0..0 |-> 0], 0, points)
      BY DEF Totals
    <2> QED
      BY <2>1
  <1>2. ASSUME NEW n \in S
        PROVE  n + 1 \in S
    <2>1. PICK f : Totals(f, n, points)
      OBVIOUS
    <2> DEFINE g == [k \in 0..(n + 1) |-> IF k = 0 THEN 0 ELSE f[k - 1] + points[k]]
    <2>2. \A k \in 0..n : f[k] = g[k]
      <3>1. /\ DOMAIN f = 0..n
            /\ \A k \in 0..n : f[k] = IF k = 0 THEN 0 ELSE f[k - 1] + points[k]
        BY <2>1, Zenon DEF Totals
      <3>2. \A k \in 0..n : k \in 0..(n + 1)
        OBVIOUS
      <3> QED
        BY <3>1, <3>2, Zenon
    <2>3. \A k \in 0..(n + 1) : k # 0 => k - 1 \in 0..n
      OBVIOUS
    <2>4. \A k \in 0..(n + 1) : k # 0 => g[k - 1] = f[k - 1]
      BY <2>2, <2>3
    <2>5. g = [k \in 0..(n + 1) |-> IF k = 0 THEN 0 ELSE g[k - 1] + points[k]]
      BY <2>4
    <2> HIDE DEF g
    <2>6. Totals(g, n + 1, points)
      BY <2>5 DEF Totals
    <2> QED
      BY <2>6
  <1> QED
    BY <1>1, <1>2, NaturalSet

(* Total's partial sums.                                                     *)
AddsUp(f, n, points) ==
    /\ Total(points, n) = f[n]
    /\ f[0] = 0
    /\ \A k \in 1..n : f[k] = f[k - 1] + points[k]

LEMMA TotalAddsUp ==
  ASSUME NEW n \in Nat, NEW points
  PROVE  \E f : AddsUp(f, n, points)
  <1>1. PICK f : Totals(f, n, points) /\ Total(points, n) = f[n]
    <2>1. \E f : Totals(f, n, points)
      BY TotalsExists
    <2>k. PICK k : k = CHOOSE f : Totals(f, n, points)
      OBVIOUS
    <2>2. Totals(k, n, points)
      BY <2>1, <2>k
    <2>3. Total(points, n) = k[n]
      BY <2>k DEF Total, Totals
    <2> QED
      BY <2>2, <2>3
  <1>2. \A k \in 0..n : f[k] = IF k = 0 THEN 0 ELSE f[k - 1] + points[k]
    BY <1>1, Zenon DEF Totals
  <1>3. 0 \in 0..n /\ \A k \in 1..n : k \in 0..n /\ k # 0
    OBVIOUS
  <1> QED
    BY <1>1, <1>2, <1>3 DEF AddsUp

(* The sum over a list is the sum over all the records, of which the others  *)
(* have no points.                                                           *)
LEMMA ListedTotal ==
  ASSUME NEW v, NEW e, NEW S, NEW h, Lists(v, e, S, h), NEW listed, NEW points,
         \A i \in 1..Len(e) : points[i] \in Int /\ (i \notin S => points[i] = 0),
         \A j \in 1..Len(v) : listed[j] = points[h[j]]
  PROVE  Total(listed, Len(v)) = Total(points, Len(e))
  <1> DEFINE n == Len(v)
             N == Len(e)
  <1>1. /\ n \in Nat /\ N \in Nat /\ h \in [1..n -> S] /\ S \subseteq 1..N
        /\ \A i \in S : \E j \in 1..n : h[j] = i
        /\ \A j, k \in 1..n : j < k => h[j] < h[k]
    BY DEF Lists
  <1>h. \A j \in 1..n : h[j] \in S /\ h[j] \in 1..N /\ h[j] \in Nat /\ h[j] <= N /\ h[j] > 0
    <2>1. n \in Nat /\ N \in Nat /\ h \in [1..n -> S] /\ S \subseteq 1..N
      BY DEF Lists
    <2> HIDE DEF n, N
    <2>2. \A j \in 1..n : h[j] \in S
      BY <2>1
    <2>3. S \subseteq 1..N
      BY <2>1
    <2>4. \A i \in 1..N : i \in Nat /\ i <= N /\ i > 0
      BY <2>1
    <2> QED
      BY <2>2, <2>3, <2>4, Zenon
  <1>2. /\ \A i \in 1..N : points[i] \in Int
        /\ \A i \in 1..N : i \notin S => points[i] = 0
        /\ \A j \in 1..n : listed[j] = points[h[j]]
    OBVIOUS
  <1> HIDE DEF n, N
  <1>3. PICK f : AddsUp(f, n, listed)
    BY <1>1, TotalAddsUp
  <1>4. PICK g : AddsUp(g, N, points)
    BY <1>1, TotalAddsUp
  <1>5. /\ Total(listed, n) = f[n] /\ f[0] = 0
        /\ \A k \in 1..n : f[k] = f[k - 1] + listed[k]
    BY <1>3 DEF AddsUp
  <1>6. /\ Total(points, N) = g[N] /\ g[0] = 0
        /\ \A k \in 1..N : g[k] = g[k - 1] + points[k]
    BY <1>4 DEF AddsUp
  <1> DEFINE reaches(m, k) == /\ \A j \in 1..n : j <= m => h[j] <= k
                              /\ \A j \in 1..n : j > m => h[j] > k
             agree(k) == /\ g[k] \in Int
                         /\ \A m \in 0..n : reaches(m, k) => f[m] = g[k]
             K == {k \in Nat : k <= N => agree(k)}
  <1>7. agree(0)
    <2> SUFFICES ASSUME NEW m \in 0..n, reaches(m, 0)
                 PROVE  m = 0
      BY <1>5, <1>6
    <2> SUFFICES ASSUME m # 0
                 PROVE  FALSE
      OBVIOUS
    <2>1. m \in 1..n
      BY <1>1
    <2>2. h[m] \in 1..N /\ h[m] <= 0
      BY <1>h, <2>1
    <2> QED
      BY <2>2
  <1>8. ASSUME NEW k \in Nat, agree(k), k + 1 <= N
        PROVE  agree(k + 1)
    <2>1. k + 1 \in 1..N /\ (k + 1) - 1 = k
      BY <1>1, <1>8
    <2>2. /\ g[k + 1] = g[k] + points[k + 1] /\ points[k + 1] \in Int /\ g[k] \in Int
      BY <1>2, <1>6, <1>8, <2>1
    <2>3. ASSUME NEW m \in 0..n, reaches(m, k + 1)
          PROVE  f[m] = g[k + 1]
      <3>0. \A j \in 1..n : h[j] \in Nat /\ j \in Nat
        BY <1>h
      <3>1. CASE k + 1 \in S
        <4>1. PICK j \in 1..n : h[j] = k + 1
          BY <1>1, <3>1
        <4>2. j <= m
          BY <2>3, <3>0, <4>1
        <4>3. ~(j < m)
          <5> SUFFICES ASSUME j < m
                       PROVE  FALSE
            OBVIOUS
          <5>1. m \in 1..n
            BY <1>1, <4>1
          <5>2. h[j] < h[m] /\ h[m] <= k + 1
            BY <1>1, <2>3, <4>1, <5>1
          <5> QED
            BY <3>0, <4>1, <5>1, <5>2
        <4>4. j = m /\ m \in 1..n /\ m - 1 \in 0..n /\ h[m] = k + 1
          BY <1>1, <4>1, <4>2, <4>3
        <4>5. \A i \in 1..n : i <= m - 1 => h[i] <= k
          <5> SUFFICES ASSUME NEW i \in 1..n, i <= m - 1
                       PROVE  h[i] <= k
            OBVIOUS
          <5>1. i < m
            BY <1>1, <4>4
          <5>2. h[i] < h[m]
            BY <1>1, <4>4, <5>1
          <5> QED
            BY <3>0, <4>4, <5>2
        <4>6. \A i \in 1..n : i > m - 1 => h[i] > k
          <5> SUFFICES ASSUME NEW i \in 1..n, i > m - 1
                       PROVE  h[i] > k
            OBVIOUS
          <5>1. i = m \/ m < i
            BY <1>1, <4>4
          <5>2. h[i] = k + 1 \/ h[m] < h[i]
            BY <1>1, <4>4, <5>1
          <5> QED
            BY <3>0, <4>4, <5>2
        <4>7. f[m - 1] = g[k]
          BY <1>8, <4>4, <4>5, <4>6
        <4>8. f[m] = f[m - 1] + points[k + 1]
          BY <1>2, <1>5, <4>4
        <4> QED
          BY <2>2, <4>7, <4>8
      <3>2. CASE k + 1 \notin S
        <4>1. \A j \in 1..n : h[j] # k + 1
          BY <1>1, <3>2
        <4>2. reaches(m, k)
          BY <2>3, <3>0, <4>1
        <4>3. f[m] = g[k]
          BY <1>8, <4>2
        <4>4. points[k + 1] = 0
          BY <1>2, <2>1, <3>2
        <4> QED
          BY <2>2, <4>3, <4>4
      <3> QED
        BY <3>1, <3>2
    <2> QED
      BY <2>2, <2>3
  <1>9. agree(N)
    <2> HIDE DEF agree
    <2>1. 0 \in K /\ \A k \in K : k + 1 \in K
      BY <1>1, <1>7, <1>8
    <2>2. K \in SUBSET Nat
      OBVIOUS
    <2> HIDE DEF K
    <2>3. K = Nat
      BY <2>1, <2>2, NaturalSet
    <2> QED
      BY <1>1, <2>3 DEF K
  <1>10. reaches(n, N) /\ n \in 0..n
    BY <1>1, <1>h
  <1>11. f[n] = g[N]
    BY <1>9, <1>10
  <1> QED
    BY <1>5, <1>6, <1>11 DEF n, N

-----------------------------------------------------------------------------
(* Scores: the controller sums over the deciding records, the reference over *)
(* its view of them.                                                         *)

(* The table and the rows it is read from say the same of every record.      *)
LEMMA ContributionIs ==
  ASSUME NEW c \in Classes, NEW k \in Kinds
  PROVE  /\ Contribution(c, k, TRUE) = Weight[c][k]
         /\ Contribution(c, k, FALSE) = [m |-> AtMost(0, Weight[c][k].m), s |-> 0, ip |-> 0]
         /\ Weight[c][k] \in Weights
  <1>1. Weight[c][k] = Contribution(c, k, TRUE)
    BY RowsAssumption
  <1>2. Contribution(c, k, FALSE) =
            [m |-> AtMost(0, Contribution(c, k, TRUE).m), s |-> 0, ip |-> 0]
    BY DEF Contribution
  <1>3. Weight[c][k] \in Weights
    BY GatesAssumption
  <1> QED
    BY <1>1, <1>2, <1>3

LEMMA ObservedParts ==
  ASSUME NEW e \in Seq(Observed), NEW i \in DOMAIN e
  PROVE  /\ e[i].kind \in Kinds /\ e[i].source \in Sources
         /\ ClassOf[e[i].source] \in Classes /\ Fresh(e[i]) \in BOOLEAN
  <1>1. e[i] \in Observed
    OBVIOUS
  <1> QED
    BY <1>1, GatesAssumption DEF Observed, Fresh

(* A record's points, to the reference and to the controller.                *)
LEMMA PointsAgree ==
  ASSUME NEW e \in Seq(Observed), NEW S, NEW i \in DOMAIN e
  PROVE  LET of == Contribution(ClassOf[e[i].source], e[i].kind, Fresh(e[i]))
         IN  /\ Maliciously(e[i], Cardinality(Upstreams(e, S))) = M(e, S, i)
             /\ of.s = IF Fresh(e[i]) THEN WeightOf(e[i]).s ELSE 0
             /\ of.ip = IF Fresh(e[i]) THEN WeightOf(e[i]).ip ELSE 0
             /\ M(e, S, i) \in Int
             /\ WeightOf(e[i]).s \in Int /\ WeightOf(e[i]).ip \in Int
  <1> DEFINE c == ClassOf[e[i].source]
             k == e[i].kind
             w == Weight[c][k]
             u == Cardinality(Upstreams(e, S))
  <1>1. c \in Classes /\ k \in Kinds /\ Fresh(e[i]) \in BOOLEAN
    BY ObservedParts
  <1>2. Plain \in Kinds
    BY GatesAssumption
  <1> HIDE DEF u, c, k
  <1>3. /\ Contribution(c, k, TRUE) = w
        /\ Contribution(c, k, FALSE) = [m |-> AtMost(0, w.m), s |-> 0, ip |-> 0]
        /\ w \in Weights
    BY <1>1, ContributionIs
  <1>4. Contribution(c, Plain, TRUE) = Weight[c][Plain] /\ Weight[c][Plain] \in Weights
    BY <1>1, <1>2, ContributionIs
  <1>5. w.m \in Int /\ w.s \in Int /\ w.ip \in Int /\ Weight[c][Plain].m \in Int
    BY <1>3, <1>4 DEF Weights
  <1>6. WeightOf(e[i]) = w
    BY DEF WeightOf, c, k
  <1>7. M(e, S, i) = IF ~Fresh(e[i]) THEN AtMost(0, w.m)
                     ELSE IF w.m > 0 /\ u < Needs[k] THEN Weight[c][Plain].m ELSE w.m
    BY <1>6 DEF M, u, c, k
  <1> HIDE DEF w
  <1>8. AtMost(0, w.m) \in Int
    BY <1>5 DEF AtMost
  <1>9. CASE Fresh(e[i])
    <2>1. Fresh(e[i]) = TRUE
      BY <1>1, <1>9
    <2>2. Maliciously(e[i], u) =
              IF w.m > 0 /\ u < Needs[k] THEN Weight[c][Plain].m ELSE w.m
      BY <1>3, <1>4, <2>1 DEF Maliciously, c, k
    <2>3. Contribution(c, k, Fresh(e[i])) = w
      BY <1>3, <2>1
    <2> QED
      BY <1>5, <1>6, <1>7, <2>1, <2>2, <2>3 DEF u, c, k
  <1>10. CASE ~Fresh(e[i])
    <2>1. Fresh(e[i]) = FALSE
      BY <1>1, <1>10
    <2>2. Contribution(c, k, Fresh(e[i])) = [m |-> AtMost(0, w.m), s |-> 0, ip |-> 0]
      BY <1>3, <2>1
    <2>3. Maliciously(e[i], u) = AtMost(0, w.m)
      BY <2>1, <2>2 DEF Maliciously, c, k
    <2> QED
      BY <1>5, <1>6, <1>7, <1>8, <2>1, <2>2, <2>3 DEF u, c, k
  <1> QED
    BY <1>9, <1>10

LEMMA AuthorizedIs ==
  ASSUME NEW p, p.open \in BOOLEAN, NEW n
  PROVE  Authorized(p, n) <=> InScope(p, n)
  BY DEF Authorized, InScope, SpaceOf

LEMMA ListParts ==
  ASSUME NEW v, NEW e, NEW S, NEW h, Lists(v, e, S, h)
  PROVE  /\ e \in Seq(Observed) /\ v \in Seq(Observed) /\ S \subseteq DOMAIN e
         /\ DOMAIN v = 1..Len(v)
         /\ \A i \in S : \E j \in DOMAIN v : h[j] = i
         /\ \A j \in DOMAIN v : h[j] \in S /\ v[j] = e[h[j]]
  BY DEF Lists

(* Sets of what is listed are sets over the records.                         *)
LEMMA UpstreamsAgree ==
  ASSUME NEW v, NEW e, NEW S, NEW h, Lists(v, e, S, h)
  PROVE  Corroborating(v) = Upstreams(e, S) /\ LocalFamilies(v) = Families(e, S)
  <1>1. /\ e \in Seq(Observed) /\ v \in Seq(Observed) /\ S \subseteq DOMAIN e
        /\ DOMAIN v = 1..Len(v)
        /\ \A i \in S : \E j \in DOMAIN v : h[j] = i
        /\ \A j \in DOMAIN v : h[j] \in S /\ v[j] = e[h[j]]
    BY ListParts
  <1>2. \A j \in DOMAIN v : ClassOf[v[j].source] \in Classes
    BY <1>1, ObservedParts
  <1>3. \A c \in Classes : c \notin {"annotation", "attribution", "local", "unregistered"}
                              <=> c \in {"curated", "community"}
    BY DEF Classes
  <1> DEFINE asserts(r) == /\ ClassOf[r.source] \in {"curated", "community"}
                           /\ r.source \in Qualified /\ r.kind \in Asserting /\ Fresh(r)
             local(r) == Behavioral(r) /\ ClassOf[r.source] = "local"
  <1>4. Corroborating(v) = {UpstreamOf[v[j].source] : j \in {j \in DOMAIN v : asserts(v[j])}}
    <2>1. {j \in DOMAIN v : asserts(v[j])} =
              {j \in DOMAIN v :
                  /\ ClassOf[v[j].source] \notin
                        {"annotation", "attribution", "local", "unregistered"}
                  /\ v[j].source \in Qualified
                  /\ v[j].kind \in Asserting /\ Fresh(v[j])}
      BY <1>2, <1>3
    <2> HIDE DEF asserts
    <2> QED
      BY <2>1 DEF Corroborating
  <1>5. Upstreams(e, S) = {UpstreamOf[e[i].source] : i \in {i \in S : asserts(e[i])}}
    BY DEF Upstreams
  <1>6. LocalFamilies(v) = {FamilyOf[v[j].kind] : j \in {j \in DOMAIN v : local(v[j])}}
    BY DEF LocalFamilies
  <1>7. Families(e, S) = {FamilyOf[e[i].kind] : i \in {i \in S : local(e[i])}}
    BY DEF Families
  <1> HIDE DEF asserts, local
  <1>8. {UpstreamOf[v[j].source] : j \in {j \in DOMAIN v : asserts(v[j])}} =
            {UpstreamOf[e[i].source] : i \in {i \in S : asserts(e[i])}}
    BY <1>1
  <1>9. {FamilyOf[v[j].kind] : j \in {j \in DOMAIN v : local(v[j])}} =
            {FamilyOf[e[i].kind] : i \in {i \in S : local(e[i])}}
    BY <1>1
  <1> QED
    BY <1>4, <1>5, <1>6, <1>7, <1>8, <1>9

(* A record that is listed counts if the controller can vouch for it.        *)
LEMMA VouchedAgree ==
  ASSUME NEW v, NEW e, NEW S, NEW h, Lists(v, e, S, h),
         NEW p, p.open \in BOOLEAN, NEW n, NEW j \in 1..Len(v)
  PROVE  Unvouched(v[j], Derived(p, n, v)) <=> h[j] \notin Counted(p, n, e, S)
  <1>1. /\ e \in Seq(Observed) /\ v \in Seq(Observed) /\ S \subseteq DOMAIN e
        /\ DOMAIN v = 1..Len(v)
        /\ \A i \in S : \E k \in DOMAIN v : h[k] = i
        /\ \A k \in DOMAIN v : h[k] \in S /\ v[k] = e[h[k]]
    BY ListParts
  <1>2. (\E i \in DOMAIN v : Fresh(v[i])) <=> (\E i \in S : Fresh(e[i]))
    BY <1>1
  <1>3. Authorized(p, n) <=> InScope(p, n)
    BY AuthorizedIs
  <1>4. Derived(p, n, v) = Facts(p, n, e, S)
    BY <1>2, <1>3 DEF Derived, Facts, ControlPlane
  <1>5. h[j] \in S /\ v[j] = e[h[j]]
    BY <1>1
  <1> QED
    BY <1>4, <1>5 DEF Unvouched, Counted

(* All the scores of a view are the controller's.                            *)
LEMMA ScoresAgree ==
  ASSUME NEW v, NEW e, NEW S, NEW h, Lists(v, e, S, h),
         NEW p, p.open \in BOOLEAN, NEW n
  PROVE  Scores(p, n, v) = [m |-> Maliciousness(p, n, e, S),
                            s |-> SafetyInContext(p, n, e, S),
                            ip |-> SafetyOfAddress(p, n, e, S),
                            dedicated |-> Dedicated(p, n, e, S)]
  <1> DEFINE D == Derived(p, n, v)
             C == Counted(p, n, e, S)
             u == Cardinality(Corroborating(v))
             of(r) == Contribution(ClassOf[r.source], r.kind, Fresh(r))
             ofs == [j \in DOMAIN v |->
                        Contribution(ClassOf[v[j].source], v[j].kind, Fresh(v[j]))]
             ms == [j \in DOMAIN v |-> Maliciously(v[j], u)]
             bms == [j \in DOMAIN v |-> IF Behavioral(v[j]) THEN ms[j] ELSE 0]
             ss == [j \in DOMAIN v |-> IF v[j].kind \in SharedInfra THEN 0 ELSE ofs[j].s]
             ips == [j \in DOMAIN v |-> ofs[j].ip]
             lm == [j \in DOMAIN v |-> IF Unvouched(v[j], D) THEN 0 ELSE ms[j]]
             lb == [j \in DOMAIN v |-> IF Unvouched(v[j], D) THEN 0 ELSE bms[j]]
             ls == [j \in DOMAIN v |-> IF Unvouched(v[j], D) THEN 0 ELSE ss[j]]
             lip == [j \in DOMAIN v |-> IF Unvouched(v[j], D) THEN 0 ELSE ips[j]]
             pm == [i \in DOMAIN e |-> IF i \in C THEN M(e, S, i) ELSE 0]
             pb == [i \in DOMAIN e |-> IF i \in C /\ Behavioral(e[i]) THEN M(e, S, i) ELSE 0]
             ps == [i \in DOMAIN e |-> IF i \in C /\ Fresh(e[i]) /\ e[i].kind \notin SharedInfra
                                       THEN WeightOf(e[i]).s ELSE 0]
             pip == [i \in DOMAIN e |-> IF i \in C /\ Fresh(e[i])
                                        THEN WeightOf(e[i]).ip ELSE 0]
             t == Tally(v, D)
  <1>1. /\ e \in Seq(Observed) /\ v \in Seq(Observed) /\ S \subseteq DOMAIN e
        /\ DOMAIN v = 1..Len(v) /\ DOMAIN e = 1..Len(e)
        /\ \A i \in S : \E j \in DOMAIN v : h[j] = i
        /\ \A j \in DOMAIN v : h[j] \in S /\ v[j] = e[h[j]]
    BY ListParts
  <1>2. Corroborating(v) = Upstreams(e, S) /\ LocalFamilies(v) = Families(e, S)
    BY UpstreamsAgree
  <1>3. \A j \in DOMAIN v : Unvouched(v[j], D) <=> h[j] \notin C
    BY <1>1, VouchedAgree
  <1>4. C \subseteq S
    BY DEF Counted
  <1>5. \A i \in DOMAIN e :
            /\ Maliciously(e[i], u) = M(e, S, i)
            /\ of(e[i]).s = IF Fresh(e[i]) THEN WeightOf(e[i]).s ELSE 0
            /\ of(e[i]).ip = IF Fresh(e[i]) THEN WeightOf(e[i]).ip ELSE 0
            /\ M(e, S, i) \in Int
            /\ WeightOf(e[i]).s \in Int /\ WeightOf(e[i]).ip \in Int
    BY <1>1, <1>2, PointsAgree
  <1>6. t = [m |-> Total(lm, Len(v)), bm |-> Total(lb, Len(v)), s |-> Total(ls, Len(v)),
             ip |-> Total(lip, Len(v)),
             dedicated |-> \E j \in DOMAIN v : /\ ~Unvouched(v[j], D)
                                               /\ v[j].kind = "dedicated_use" /\ Fresh(v[j])]
    BY DEF Tally
  <1> HIDE DEF D, C, u, t
  <1>7. Total(lm, Len(v)) = Total(pm, Len(e))
    <2>1. \A i \in 1..Len(e) : pm[i] \in Int /\ (i \notin S => pm[i] = 0)
      BY <1>1, <1>4, <1>5
    <2>2. \A j \in 1..Len(v) : lm[j] = pm[h[j]]
      BY <1>1, <1>3, <1>5
    <2> HIDE DEF lm, pm
    <2> QED
      BY <2>1, <2>2, ListedTotal
  <1>8. Total(lb, Len(v)) = Total(pb, Len(e))
    <2>1. \A i \in 1..Len(e) : pb[i] \in Int /\ (i \notin S => pb[i] = 0)
      BY <1>1, <1>4, <1>5
    <2>2. \A j \in 1..Len(v) : lb[j] = pb[h[j]]
      BY <1>1, <1>3, <1>5
    <2> HIDE DEF lb, pb
    <2> QED
      BY <2>1, <2>2, ListedTotal
  <1>9. Total(ls, Len(v)) = Total(ps, Len(e))
    <2>1. \A i \in 1..Len(e) : ps[i] \in Int /\ (i \notin S => ps[i] = 0)
      BY <1>1, <1>4, <1>5
    <2>2. \A j \in 1..Len(v) : ls[j] = ps[h[j]]
      BY <1>1, <1>3, <1>5
    <2> HIDE DEF ls, ps
    <2> QED
      BY <2>1, <2>2, ListedTotal
  <1>10. Total(lip, Len(v)) = Total(pip, Len(e))
    <2>1. \A i \in 1..Len(e) : pip[i] \in Int /\ (i \notin S => pip[i] = 0)
      BY <1>1, <1>4, <1>5
    <2>2. \A j \in 1..Len(v) : lip[j] = pip[h[j]]
      BY <1>1, <1>3, <1>5
    <2> HIDE DEF lip, pip
    <2> QED
      BY <2>1, <2>2, ListedTotal
  <1>11. (t.dedicated /\ \A j \in DOMAIN v : v[j].kind \notin SharedInfra)
             <=> Dedicated(p, n, e, S)
    <2>1. t.dedicated = \E j \in DOMAIN v : /\ ~Unvouched(v[j], D)
                                            /\ v[j].kind = "dedicated_use" /\ Fresh(v[j])
      BY <1>6
    <2>2. t.dedicated <=> \E i \in C : e[i].kind = "dedicated_use" /\ Fresh(e[i])
      BY <1>1, <1>3, <1>4, <2>1
    <2>3. (\A j \in DOMAIN v : v[j].kind \notin SharedInfra)
              <=> (\A i \in S : e[i].kind \notin SharedInfra)
      BY <1>1
    <2> QED
      BY <2>2, <2>3 DEF Dedicated, C
  <1>12. SafetyInContext(p, n, e, S) = Clamp(Total(ps, Len(e)))
    BY DEF SafetyInContext, C
  <1>13. SafetyOfAddress(p, n, e, S) = Clamp(Total(pip, Len(e)))
    BY DEF SafetyOfAddress, C
  <1>14. Maliciousness(p, n, e, S) =
             LET cap == BehavioralCap(p, Families(e, S))
             IN  Clamp(IF Total(pb, Len(e)) <= cap THEN Total(pm, Len(e))
                       ELSE Total(pm, Len(e)) - Total(pb, Len(e)) + cap)
    BY DEF Maliciousness, C
  <1> HIDE DEF lm, lb, ls, lip, pm, pb, ps, pip
  <1>15. t.m = Total(pm, Len(e)) /\ t.bm = Total(pb, Len(e))
    BY <1>6, <1>7, <1>8
  <1>16. t.s = Total(ps, Len(e)) /\ t.ip = Total(pip, Len(e))
    BY <1>6, <1>9, <1>10
  <1>17. Capped(p, t, LocalFamilies(v)) = Maliciousness(p, n, e, S)
    BY <1>2, <1>14, <1>15 DEF Capped, BehavioralCap
  <1>18. Scores(p, n, v) =
             [m |-> Capped(p, t, LocalFamilies(v)), s |-> Clamp(t.s), ip |-> Clamp(t.ip),
              dedicated |-> t.dedicated /\ \A j \in DOMAIN v : v[j].kind \notin SharedInfra]
    BY DEF Scores, t, D
  <1>19. (t.dedicated /\ \A j \in DOMAIN v : v[j].kind \notin SharedInfra)
             = Dedicated(p, n, e, S)
    BY <1>11 DEF Dedicated
  <1> QED
    BY <1>12, <1>13, <1>16, <1>17, <1>18, <1>19

(* Denial is open to a view when the controller allows it.                   *)
LEMMA DenialsAgree ==
  ASSUME NEW v, NEW e, NEW S, NEW h, Lists(v, e, S, h), NEW p, p.external \in BOOLEAN
  PROVE  DenialOpen(p, v) <=> DenyAllowed(p, e, S)
  <1>1. Corroborating(v) = Upstreams(e, S) /\ LocalFamilies(v) = Families(e, S)
    BY UpstreamsAgree
  <1> QED
    BY <1>1 DEF DenialOpen, DenyAllowed, ExternallyCorroborated

(* The first rung of a descending ladder that is open is the strongest.      *)
Descends(ladder, rungs) ==
    /\ ladder \in Seq(Rungs) /\ rungs = {ladder[k] : k \in 1..Len(ladder)}
    /\ \A j, k \in 1..Len(ladder) : j < k => RungRank[ladder[k]] < RungRank[ladder[j]]

FirstOf(ladder, gated) ==
    IF gated = {} THEN "L0" ELSE ladder[CHOOSE k \in gated : \A j \in gated : k <= j]
StrongestOf(open) ==
    IF open = {} THEN "L0"
    ELSE CHOOSE r \in open : \A q \in open : RungRank[q] <= RungRank[r]

Climbs(ladder, rungs, G) ==
    FirstOf(ladder, {k \in 1..Len(ladder) : ladder[k] \in G}) =
    StrongestOf({r \in rungs : r \in G})

LEMMA FirstIsStrongest ==
  ASSUME NEW ladder, NEW rungs, Descends(ladder, rungs), NEW G
  PROVE  Climbs(ladder, rungs, G)
  <1> DEFINE n == Len(ladder)
             gated == {k \in 1..n : ladder[k] \in G}
             open == {r \in rungs : r \in G}
  <1>1. /\ n \in Nat /\ \A k \in 1..n : ladder[k] \in Rungs
        /\ rungs = {ladder[k] : k \in 1..n}
        /\ \A j, k \in 1..n : j < k => RungRank[ladder[k]] < RungRank[ladder[j]]
    BY DEF Descends
  <1>2. \A r \in Rungs : RungRank[r] \in Nat
    BY DEF Rungs, RungRank
  <1> HIDE DEF n
  <1>3. gated \subseteq Nat /\ (gated = {} <=> open = {})
    BY <1>1
  <1>4. CASE gated = {}
    BY <1>3, <1>4 DEF n, FirstOf, StrongestOf, Climbs
  <1>5. CASE gated # {}
    <2> DEFINE f == CHOOSE k \in gated : \A j \in gated : k <= j
               s == CHOOSE r \in open : \A q \in open : RungRank[q] <= RungRank[r]
    <2>1. f \in gated /\ \A j \in gated : f <= j
      <3>1. \E k \in gated : \A j \in gated : k <= j
        BY <1>3, <1>5, LeastNumber
      <3> QED
        BY <3>1
    <2> HIDE DEF f
    <2>2. f \in 1..n /\ ladder[f] \in open
      BY <1>1, <2>1
    <2>3. ASSUME NEW q \in open
          PROVE  q = ladder[f] \/ RungRank[q] < RungRank[ladder[f]]
      <3>1. PICK k \in 1..n : q = ladder[k]
        BY <1>1
      <3>2. f <= k
        BY <2>1, <3>1
      <3>3. f = k \/ f < k
        BY <2>2, <3>2
      <3> QED
        BY <1>1, <2>2, <3>1, <3>3
    <2>4. \A r \in open : RungRank[r] \in Nat
      BY <1>1, <1>2
    <2>5. \A q \in open : RungRank[q] <= RungRank[ladder[f]]
      BY <2>2, <2>3, <2>4
    <2>6. s \in open /\ \A q \in open : RungRank[q] <= RungRank[s]
      BY <2>2, <2>5
    <2> HIDE DEF s, open
    <2>7. RungRank[ladder[f]] <= RungRank[s]
      BY <2>2, <2>6
    <2>8. s = ladder[f]
      BY <2>2, <2>3, <2>4, <2>6, <2>7
    <2> QED
      BY <1>3, <1>5, <2>8 DEF f, s, open, n, FirstOf, StrongestOf, Climbs
  <1> QED
    BY <1>4, <1>5

(* The ladder of a target has its rungs, strongest first.                    *)
LEMMA LaddersDescend ==
  ASSUME NEW type \in Types, type # "cidr", NEW deny \in BOOLEAN
  PROVE  Descends(LadderOf(type, deny), Candidates(type, deny))
  <1>1. Descends(<<"L1">>, {"L1"})
    BY DEF Descends, Rungs, RungRank
  <1>2. Descends(<<"L2", "L1">>, {"L2", "L1"})
    BY DEF Descends, Rungs, RungRank
  <1>3. Descends(<<"L4", "L2", "L1">>, {"L4", "L2", "L1"})
    BY DEF Descends, Rungs, RungRank
  <1>4. Descends(<<"L5", "L2", "L1">>, {"L5", "L2", "L1"})
    BY DEF Descends, Rungs, RungRank
  <1>5. CASE type = "ip" /\ deny
    <2>1. LadderOf(type, deny) = <<"L5", "L2", "L1">>
      BY <1>5 DEF LadderOf
    <2>2. Candidates(type, deny) = {"L5", "L2", "L1"}
      BY <1>5 DEF Candidates, Rungs
    <2> QED
      BY <1>4, <2>1, <2>2
  <1>6. CASE type = "fqdn" /\ deny
    <2>1. LadderOf(type, deny) = <<"L4", "L2", "L1">>
      BY <1>6 DEF LadderOf
    <2>2. Candidates(type, deny) = {"L4", "L2", "L1"}
      BY <1>6 DEF Candidates, Rungs
    <2> QED
      BY <1>3, <2>1, <2>2
  <1>7. CASE type \in {"ip", "fqdn"} /\ ~deny
    <2>1. LadderOf(type, deny) = <<"L2", "L1">>
      BY <1>7 DEF LadderOf
    <2>2. Candidates(type, deny) = {"L2", "L1"}
      BY <1>7 DEF Candidates, Rungs
    <2> QED
      BY <1>2, <2>1, <2>2
  <1>8. CASE type = "other"
    <2>1. LadderOf(type, deny) = <<"L1">>
      BY <1>8 DEF LadderOf
    <2>2. Candidates(type, deny) = {"L1"}
      BY <1>8 DEF Candidates, Rungs
    <2> QED
      BY <1>1, <2>1, <2>2
  <1> QED
    BY <1>5, <1>6, <1>7, <1>8 DEF Types

(* So both climb to the same rung.                                           *)
LEMMA ClimbAgrees ==
  ASSUME NEW p, NEW n \in Names, TypeOf[n] # "cidr", NEW e, NEW S,
         NEW sc, sc = [m |-> Maliciousness(p, n, e, S), s |-> SafetyInContext(p, n, e, S),
                       ip |-> SafetyOfAddress(p, n, e, S), dedicated |-> Dedicated(p, n, e, S)],
         NEW ctx, ctx.interactive = Interactive(e), (ctx.client # Nobody) <=> Client(e)
  PROVE  Climb(p, LadderOf(TypeOf[n], DenyAllowed(p, e, S)), sc, ctx) = SelectRung(p, n, e, S)
  <1> DEFINE deny == DenyAllowed(p, e, S)
             ladder == LadderOf(TypeOf[n], deny)
             rungs == Candidates(TypeOf[n], deny)
             G == {r \in Rungs : Gated(p, n, e, S, r)}
  <1>1. TypeOf[n] \in Types /\ deny \in BOOLEAN
    BY GatesAssumption DEF DenyAllowed
  <1> HIDE DEF deny
  <1>2. Descends(ladder, rungs)
    BY <1>1, LaddersDescend
  <1>3. /\ \A k \in 1..Len(ladder) : ladder[k] \in rungs
        /\ rungs \subseteq Rungs \ {"NONE", "L0"}
    BY <1>2 DEF Descends, Candidates
  <1>4. \A r \in rungs : Gated(p, n, e, S, r) <=> OpenTo(sc, ctx, r) /\ Reaches(p, sc, r)
    <2> SUFFICES ASSUME NEW r \in rungs
                 PROVE  Gated(p, n, e, S, r) <=> OpenTo(sc, ctx, r) /\ Reaches(p, sc, r)
      OBVIOUS
    <2>1. /\ sc.m = Maliciousness(p, n, e, S) /\ sc.s = SafetyInContext(p, n, e, S)
          /\ sc.ip = SafetyOfAddress(p, n, e, S) /\ sc.dedicated = Dedicated(p, n, e, S)
      OBVIOUS
    <2>2. OpenTo(sc, ctx, r) <=> /\ r = "L5" => Dedicated(p, n, e, S)
                                 /\ r \in {"L1", "L2"} => Client(e)
                                 /\ r = "L1" => Interactive(e)
      BY <2>1 DEF OpenTo
    <2>3. Reaches(p, sc, r) <=>
              Clears(p, r, Maliciousness(p, n, e, S),
                     IF r = "L5" THEN SafetyOfAddress(p, n, e, S)
                                 ELSE SafetyInContext(p, n, e, S))
      BY <2>1 DEF Reaches, Clears
    <2> QED
      BY <2>2, <2>3 DEF Gated
  <1> HIDE DEF ladder, rungs
  <1>5. {k \in 1..Len(ladder) : OpenTo(sc, ctx, ladder[k]) /\ Reaches(p, sc, ladder[k])}
            = {k \in 1..Len(ladder) : ladder[k] \in G}
    BY <1>3, <1>4
  <1>6. {r \in rungs : Gated(p, n, e, S, r)} = {r \in rungs : r \in G}
    BY <1>3
  <1> HIDE DEF G
  <1>7. Climb(p, ladder, sc, ctx) =
            FirstOf(ladder, {k \in 1..Len(ladder) :
                                 OpenTo(sc, ctx, ladder[k]) /\ Reaches(p, sc, ladder[k])})
    BY DEF Climb, FirstOf
  <1>8. SelectRung(p, n, e, S) = StrongestOf({r \in rungs : Gated(p, n, e, S, r)})
    BY DEF SelectRung, StrongestOf, rungs, deny
  <1>9. FirstOf(ladder, {k \in 1..Len(ladder) : ladder[k] \in G}) =
            StrongestOf({r \in rungs : r \in G})
    <2>1. Climbs(ladder, rungs, G)
      BY <1>2, FirstIsStrongest
    <2> QED
      BY <2>1 DEF Climbs
  <1>10. Climb(p, ladder, sc, ctx) = SelectRung(p, n, e, S)
    BY <1>5, <1>6, <1>7, <1>8, <1>9
  <1> QED
    BY <1>10 DEF ladder, deny

LEMMA SuppressedIs ==
  ASSUME NEW p, p.allow \in Seq(Entry), NEW n
  PROVE  Suppressed(p, n) <=> Allowlisted(p, n)
  <1>1. DOMAIN p.allow = 1..Len(p.allow)
    OBVIOUS
  <1> QED
    BY <1>1 DEF Suppressed, Allowlisted

(* What a mode makes of a target's scores and rung.                          *)
LEMMA DispositionsAgree ==
  ASSUME NEW p, p.open \in BOOLEAN, p.allow \in Seq(Entry), NEW n, TypeOf[n] # "cidr",
         NEW e, NEW S, NEW sc, sc.m = Maliciousness(p, n, e, S), S = Decisive(p, e)
  PROVE  LET ours == Dispose(p, n, sc, SelectRung(p, n, e, S))
             theirs == Evaluate(p, n, e)
         IN  /\ ours.disposition = theirs.disposition /\ ours.rung = theirs.rung
             /\ ours.m = sc.m /\ ours.s = IF ours.rung = "L5" THEN sc.ip ELSE sc.s
  <1> DEFINE rung == SelectRung(p, n, e, S)
             ours == Dispose(p, n, sc, rung)
             theirs == Evaluate(p, n, e)
             barred == \/ ~InScope(p, n) \/ Allowlisted(p, n) \/ p.mode = "OFF"
                       \/ Maliciousness(p, n, e, S) < p.observe
  <1>1. Authorized(p, n) <=> InScope(p, n)
    BY AuthorizedIs
  <1>2. Suppressed(p, n) <=> Allowlisted(p, n)
    BY SuppressedIs
  <1>3. (~Authorized(p, n) \/ Suppressed(p, n) \/ p.mode = "OFF" \/ sc.m < p.observe)
            <=> barred
    BY <1>1, <1>2
  <1>4. theirs = IF barred THEN NoAction ELSE Dispatched(p, n, e, S)
    BY DEF Evaluate, Dispatched
  <1> HIDE DEF barred, rung
  <1>5. CASE barred
    <2>1. ours = Verdict("NO_ACTION", "none", "NONE", sc)
      BY <1>3, <1>5 DEF Dispose
    <2>2. theirs = Outcome("NO_ACTION", "NONE")
      BY <1>4, <1>5 DEF NoAction
    <2> QED
      BY <2>1, <2>2 DEF Verdict, Outcome, rung
  <1>6. CASE ~barred /\ p.mode = "OBSERVE"
    <2>1. ours = Verdict("OBSERVE", "observe", "L0", sc)
      BY <1>3, <1>6 DEF Dispose
    <2>2. theirs = Outcome("OBSERVE", "L0")
      BY <1>4, <1>6 DEF Dispatched
    <2> QED
      BY <2>1, <2>2 DEF Verdict, Outcome, rung
  <1>7. CASE ~barred /\ p.mode # "OBSERVE" /\ NeedsApproval(p, n)
    <2>1. ours = Verdict(AsksBy[p.mode], "dns_nxdomain", "L4", sc)
      BY <1>3, <1>7 DEF Dispose
    <2>2. p.mode # "OFF"
      BY <1>7 DEF barred
    <2>3. theirs = Outcome(AsksBy[p.mode], "L4")
      BY <1>4, <1>7, <2>2 DEF Dispatched
    <2> QED
      BY <2>1, <2>3 DEF Verdict, Outcome, rung
  <1>8. CASE ~barred /\ p.mode # "OBSERVE" /\ ~NeedsApproval(p, n)
    <2>1. ours = Verdict(IF rung = "L0" THEN "OBSERVE" ELSE ActsBy[p.mode],
                         ActionOf[rung], rung, sc)
      BY <1>3, <1>8 DEF Dispose
    <2>2. p.mode # "OFF"
      BY <1>8 DEF barred
    <2>3. theirs = IF rung = "L0" THEN Outcome("OBSERVE", "L0")
                   ELSE Outcome(ActsBy[p.mode], rung)
      BY <1>4, <1>8, <2>2 DEF Dispatched, rung
    <2> QED
      BY <2>1, <2>3 DEF Verdict, Outcome, rung
  <1> QED
    BY <1>5, <1>6, <1>7, <1>8

(* The two implementations agree on a target and its evidence.               *)
LEMMA EvidenceAgrees ==
  ASSUME NEW p, p.open \in BOOLEAN, p.external \in BOOLEAN, p.allow \in Seq(Entry),
         p.envelope \in Int,
         NEW n \in Names, NEW e \in Seq(Observed), Comparable(p, n, e)
  PROVE  AgreesOnEvidence(p, n, e)
  <1> DEFINE ctx == [client |-> IF Client(e) THEN Demo ELSE Nobody,
                     interactive |-> Interactive(e)]
             S == Decisive(p, e)
             v == View(p, e)
             sc == Scores(p, n, v)
             rung == SelectRung(p, n, e, S)
  <1>1. TypeOf[n] # "cidr" /\ Bearing(p, e) = {i \in DOMAIN e : ~ZeroWeight(e[i])}
    BY DEF Comparable, Bearing
  <1>2. PICK h : Lists(v, e, S, h)
    BY <1>1, ViewLists
  <1>3. /\ ctx.interactive = Interactive(e)
        /\ (ctx.client # Nobody) <=> Client(e)
    BY BatchAssumption DEF Client
  <1> HIDE DEF ctx, S, v
  <1>4. sc = [m |-> Maliciousness(p, n, e, S), s |-> SafetyInContext(p, n, e, S),
              ip |-> SafetyOfAddress(p, n, e, S), dedicated |-> Dedicated(p, n, e, S)]
    BY <1>2, ScoresAgree
  <1>5. DenialOpen(p, v) = DenyAllowed(p, e, S)
    <2>1. DenialOpen(p, v) <=> DenyAllowed(p, e, S)
      BY <1>2, DenialsAgree
    <2> QED
      BY <2>1 DEF DenialOpen, DenyAllowed
  <1> HIDE DEF sc
  <1>6. Climb(p, LadderOf(TypeOf[n], DenyAllowed(p, e, S)), sc, ctx) = rung
    BY <1>1, <1>3, <1>4, ClimbAgrees
  <1>7. Judge(p, n, e, ctx) = Dispose(p, n, sc, rung)
    BY <1>5, <1>6 DEF Judge, OfView, Consider, sc, v
  <1>8. /\ sc.m = Maliciousness(p, n, e, S) /\ sc.s = SafetyInContext(p, n, e, S)
        /\ sc.ip = SafetyOfAddress(p, n, e, S)
    BY <1>4
  <1> DEFINE ours == Dispose(p, n, sc, rung)
  <1>9. /\ ours.disposition = Evaluate(p, n, e).disposition
        /\ ours.rung = Evaluate(p, n, e).rung
        /\ ours.m = sc.m /\ ours.s = IF ours.rung = "L5" THEN sc.ip ELSE sc.s
    BY <1>1, <1>8, DispositionsAgree DEF S
  <1> HIDE DEF ours, rung
  <1>10. Same(p, n, e, S, ours, Evaluate(p, n, e))
    BY <1>8, <1>9 DEF Same
  <1> QED
    BY <1>7, <1>10 DEF AgreesOnEvidence, ours, ctx, S

(* The floors are compared in pairs that have none between them.             *)
LEMMA AscendedIs ==
  ASSUME NEW d, NEW below, NEW r,
         below.last = <<>> \/ \E f : below.last = <<f>>
  PROVE  LET above == Ascended(d, below, r)
         IN  /\ above.last = IF r \in DOMAIN d.rungs THEN <<d.rungs[r]>> ELSE below.last
             /\ above.last = <<>> \/ \E f : above.last = <<f>>
             /\ above.bad = {} <=>
                    /\ below.bad = {}
                    /\ r \in DOMAIN d.rungs /\ below.last # <<>> =>
                           ~Weaker(d.rungs[r], below.last[1])
  <1>1. CASE r \notin DOMAIN d.rungs
    BY <1>1 DEF Ascended
  <1>2. CASE r \in DOMAIN d.rungs
    <2> DEFINE more == {x \in {r} : below.last # <<>>
                                      /\ \/ d.rungs[r].m < below.last[1].m
                                         \/ d.rungs[r].s < below.last[1].s}
    <2>1. Ascended(d, below, r) = [last |-> <<d.rungs[r]>>, bad |-> below.bad \cup more]
      BY <1>2 DEF Ascended
    <2>2. more = {} <=> (below.last # <<>> => ~Weaker(d.rungs[r], below.last[1]))
      BY DEF Weaker
    <2> HIDE DEF more
    <2> QED
      BY <1>2, <2>1, <2>2
  <1> QED
    BY <1>1, <1>2

(* Along the ladder that is every pair that the controller compares.         *)
LEMMA LadderAgrees ==
  ASSUME NEW d
  PROVE  LET l1 == Ascended(d, [last |-> <<>>, bad |-> {}], "L1")
             l2 == Ascended(d, l1, "L2")
             l4 == Ascended(d, l2, "L4")
         IN  Ascended(d, l4, "L5").bad = {} <=> Monotonic(d.rungs)
  <1> DEFINE l0 == [last |-> <<>>, bad |-> {}]
             l1 == Ascended(d, l0, "L1")
             l2 == Ascended(d, l1, "L2")
             l4 == Ascended(d, l2, "L4")
             l5 == Ascended(d, l4, "L5")
             has(r) == r \in DOMAIN d.rungs
             weak(r, q) == Weaker(d.rungs[r], d.rungs[q])
  <1>0. l0.last = <<>> /\ l0.bad = {}
    OBVIOUS
  <1> HIDE DEF l0
  <1>1. /\ l1.last = IF has("L1") THEN <<d.rungs["L1"]>> ELSE <<>>
        /\ l1.last = <<>> \/ \E f : l1.last = <<f>>
        /\ l1.bad = {}
    BY <1>0, AscendedIs
  <1> HIDE DEF l1
  <1>2. /\ l2.last = IF has("L2") THEN <<d.rungs["L2"]>> ELSE l1.last
        /\ l2.last = <<>> \/ \E f : l2.last = <<f>>
        /\ l2.bad = {} <=> (has("L2") /\ l1.last # <<>> =>
                                ~Weaker(d.rungs["L2"], l1.last[1]))
    BY <1>1, AscendedIs
  <1> HIDE DEF l2
  <1>4. /\ l4.last = IF has("L4") THEN <<d.rungs["L4"]>> ELSE l2.last
        /\ l4.last = <<>> \/ \E f : l4.last = <<f>>
        /\ l4.bad = {} <=> /\ l2.bad = {}
                           /\ has("L4") /\ l2.last # <<>> =>
                                  ~Weaker(d.rungs["L4"], l2.last[1])
    BY <1>2, AscendedIs
  <1> HIDE DEF l4
  <1>5. l5.bad = {} <=> /\ l4.bad = {}
                        /\ has("L5") /\ l4.last # <<>> =>
                               ~Weaker(d.rungs["L5"], l4.last[1])
    BY <1>4, AscendedIs
  <1> HIDE DEF l5
  <1>6. l5.bad = {} <=>
            /\ has("L1") /\ has("L2") => ~weak("L2", "L1")
            /\ has("L2") /\ has("L4") => ~weak("L4", "L2")
            /\ has("L1") /\ ~has("L2") /\ has("L4") => ~weak("L4", "L1")
            /\ has("L4") /\ has("L5") => ~weak("L5", "L4")
            /\ has("L2") /\ ~has("L4") /\ has("L5") => ~weak("L5", "L2")
            /\ has("L1") /\ ~has("L2") /\ ~has("L4") /\ has("L5") => ~weak("L5", "L1")
    <2> DEFINE r1 == d.rungs["L1"]
               r2 == d.rungs["L2"]
               r4 == d.rungs["L4"]
               r5 == d.rungs["L5"]
    <2>1. \A f : <<f>> # <<>> /\ <<f>>[1] = f
      OBVIOUS
    <2> HIDE DEF r1, r2, r4, r5, has
    <2> QED
      BY <1>1, <1>2, <1>4, <1>5, <2>1 DEF r1, r2, r4, r5
  <1>7. Monotonic(d.rungs) <=>
            /\ has("L1") /\ has("L2") => ~weak("L2", "L1")
            /\ has("L2") /\ has("L4") => ~weak("L4", "L2")
            /\ has("L1") /\ ~has("L2") /\ has("L4") => ~weak("L4", "L1")
            /\ has("L4") /\ has("L5") => ~weak("L5", "L4")
            /\ has("L2") /\ ~has("L4") /\ has("L5") => ~weak("L5", "L2")
            /\ has("L1") /\ ~has("L2") /\ ~has("L4") /\ has("L5") => ~weak("L5", "L1")
    <2> DEFINE no(i, j) == \A k \in i + 1 .. j - 1 : ~has(LadderOrder[k])
               holds(i, j) == has(LadderOrder[i]) /\ has(LadderOrder[j]) /\ no(i, j)
                                  => ~weak(LadderOrder[j], LadderOrder[i])
    <2>1. /\ LadderOrder[1] = "L1" /\ LadderOrder[2] = "L2"
          /\ LadderOrder[3] = "L4" /\ LadderOrder[4] = "L5"
      BY DEF LadderOrder
    <2>2. Monotonic(d.rungs) <=> \A i, j \in 1..4 : i < j => holds(i, j)
      BY DEF Monotonic
    <2>3. /\ 1 + 1 .. 2 - 1 = {} /\ 2 + 1 .. 3 - 1 = {} /\ 3 + 1 .. 4 - 1 = {}
          /\ 1 + 1 .. 3 - 1 = {2} /\ 2 + 1 .. 4 - 1 = {3} /\ 1 + 1 .. 4 - 1 = {2, 3}
      OBVIOUS
    <2>4. /\ no(1, 2) /\ no(2, 3) /\ no(3, 4)
          /\ no(1, 3) <=> ~has("L2")
          /\ no(2, 4) <=> ~has("L4")
          /\ no(1, 4) <=> ~has("L2") /\ ~has("L4")
      BY <2>1, <2>3
    <2> HIDE DEF no
    <2>5. /\ holds(1, 2) <=> (has("L1") /\ has("L2") => ~weak("L2", "L1"))
          /\ holds(2, 3) <=> (has("L2") /\ has("L4") => ~weak("L4", "L2"))
          /\ holds(3, 4) <=> (has("L4") /\ has("L5") => ~weak("L5", "L4"))
          /\ holds(1, 3) <=> (has("L1") /\ ~has("L2") /\ has("L4") => ~weak("L4", "L1"))
          /\ holds(2, 4) <=> (has("L2") /\ ~has("L4") /\ has("L5") => ~weak("L5", "L2"))
          /\ holds(1, 4) <=> (has("L1") /\ ~has("L2") /\ ~has("L4") /\ has("L5")
                                  => ~weak("L5", "L1"))
      BY <2>1, <2>4
    <2> HIDE DEF holds
    <2>6. (\A i, j \in 1..4 : i < j => holds(i, j)) <=>
              /\ holds(1, 2) /\ holds(1, 3) /\ holds(1, 4)
              /\ holds(2, 3) /\ holds(2, 4) /\ holds(3, 4)
      OBVIOUS
    <2> QED
      BY <2>2, <2>5, <2>6
  <1> QED
    BY <1>6, <1>7 DEF l0, l1, l2, l4, l5

-----------------------------------------------------------------------------
(* The two loaders.                                                          *)

(* Section by section, both loaders find the same documents faulty.          *)
LEMMA LadderFaults ==
  ASSUME NEW d
  PROVE  LadderProblems(d) # {} <=> Checks(d).rungs \/ Checks(d).ladder
  <1> DEFINE wrong == {r \in DOMAIN d.rungs :
                          r \notin LadderNames \/ ~({d.rungs[r].m, d.rungs[r].s} \subseteq 0..100)}
             l1 == Ascended(d, [last |-> <<>>, bad |-> {}], "L1")
             l2 == Ascended(d, l1, "L2")
             l4 == Ascended(d, l2, "L4")
             weak == Ascended(d, l4, "L5").bad
  <1>1. LadderProblems(d) = weak \cup wrong
    BY DEF LadderProblems
  <1>2. weak = {} <=> Monotonic(d.rungs)
    BY LadderAgrees
  <1>3. wrong # {} <=> \E r \in DOMAIN d.rungs :
                           r \notin LadderNames \/ ~Below100(d.rungs[r].m)
                              \/ ~Below100(d.rungs[r].s)
    BY DEF Below100
  <1>4. Checks(d).rungs = (\E r \in DOMAIN d.rungs :
                               r \notin LadderNames \/ ~Below100(d.rungs[r].m)
                                  \/ ~Below100(d.rungs[r].s))
    BY DEF Checks
  <1>5. Checks(d).ladder = ~Monotonic(d.rungs)
    BY DEF Checks
  <1> HIDE DEF weak, wrong
  <1> QED
    BY <1>1, <1>2, <1>3, <1>4, <1>5

LEMMA SafetyFaults ==
  ASSUME NEW d
  PROVE  SafetyProblems(d) # {} <=> Checks(d).invariants \/ Checks(d).precedence
  BY DEF SafetyProblems, Checks

LEMMA AuthorizationFaults ==
  ASSUME NEW d
  PROVE  AuthorizationProblems(d) # {} <=> Checks(d).open \/ Checks(d).boundary
  BY DEF AuthorizationProblems, Checks

LEMMA BehavioralFaults ==
  ASSUME NEW d, IsDocument(d), Unheard \notin DetectedFamilies, Absent \notin Int
  PROVE  BehavioralProblems(d) # {} <=>
             Checks(d).rate \/ Checks(d).deny \/ Checks(d).cap \/ Checks(d).families
  <1>1. /\ {d.rate, d.deny, d.cap} \subseteq Optional
        /\ d.families \subseteq DetectedFamilies \cup {Unheard}
    BY DEF IsDocument
  <1>2. BehavioralProblems(d) # {} <=>
            \/ d.rate # Absent /\ d.rate < 2
            \/ d.deny # Absent /\ d.deny < 3
            \/ Or(d.deny, 3) < Or(d.rate, 2)
            \/ Or(d.cap, 60) >= 95
            \/ d.families \ DetectedFamilies # {}
    BY DEF BehavioralProblems
  <1>3. d.rate # Absent /\ d.rate < 2 <=> Or(d.rate, 2) < 2
    BY <1>1 DEF Or, Optional
  <1>4. d.deny # Absent /\ d.deny < 3 <=> Or(d.deny, 3) < 3
    BY <1>1 DEF Or, Optional
  <1>5. d.families \ DetectedFamilies # {} <=> Unheard \in d.families
    BY <1>1
  <1>6. /\ Checks(d).rate = (Or(d.rate, 2) < 2)
        /\ Checks(d).deny = (Or(d.deny, 3) < 3 \/ Or(d.deny, 3) < Or(d.rate, 2))
        /\ Checks(d).cap = (Or(d.cap, 60) >= 95)
        /\ Checks(d).families = (Unheard \in d.families)
    BY DEF Checks
  <1> QED
    BY <1>2, <1>3, <1>4, <1>5, <1>6

LEMMA RandomizationFaults ==
  ASSUME NEW d
  PROVE  RandomizationProblems(d) # {} <=>
             \/ Checks(d).mechanism \/ Checks(d).jitter
             \/ Checks(d).version \/ Checks(d).pinned
  <1>1. RandomizationProblems(d) # {} <=>
            \/ \E k \in DOMAIN d.jitter : k \notin Mechanisms
            \/ \E k \in SwitchedOn(d) : d.jitter[k].lo > d.jitter[k].hi \/ d.jitter[k].lo < 0
            \/ \E k \in SwitchedOn(d) : k = "rate_ceiling" /\ Or(d.ceiling, 0) = 0
            \/ d.random /\ ~d.versioned
            \/ d.pinned = "garbled"
    BY DEF RandomizationProblems
  <1>2. /\ Checks(d).mechanism = ~(DOMAIN d.jitter \subseteq Mechanisms)
        /\ Checks(d).jitter =
               (\E k \in SwitchedOn(d) :
                    \/ d.jitter[k].lo > d.jitter[k].hi \/ d.jitter[k].lo < 0
                    \/ k = "rate_ceiling" /\ Or(d.ceiling, 0) = 0)
        /\ Checks(d).version = (d.random /\ ~d.versioned)
        /\ Checks(d).pinned = (d.pinned = "garbled")
    BY DEF Checks
  <1> QED
    BY <1>1, <1>2

LEMMA LimitFaults ==
  ASSUME NEW d, IsDocument(d), Absent \notin Int, ~BudgetsChallenges(d)
  PROVE  LimitProblems(d) # {} <=>
             Checks(d).ceiling \/ Checks(d).budget \/ Checks(d).ttl \/ Checks(d).envelope
  <1> DEFINE unlimited == "L2" \in DOMAIN d.rungs /\ Or(d.ceiling, 0) <= 0
             spent == d.budget # Absent /\ d.budget < 1
             expired == d.ttl # Absent /\ d.ttl < 1
             wide == d.envelope # Absent /\ d.envelope \notin 1..1024
             a == {x \in {"ceiling"} : unlimited}
             b == {x \in {"budget"} : spent}
             c == {x \in {"ttl"} : expired}
             w == {x \in {"envelope"} : wide}
             f == {x \in {"fraction"} : d.fraction # Absent /\ d.fraction \notin 1..Whole}
             g == {x \in {"measured"} : d.measured # Absent /\ d.measured < 0}
  <1>1. {d.ceiling, d.budget, d.ttl, d.envelope} \subseteq Optional
    BY DEF IsDocument
  <1>2. LimitProblems(d) = a \cup b \cup c \cup w \cup f \cup g
    BY Zenon DEF LimitProblems
  <1>3. f = {} /\ g = {}
    BY DEF BudgetsChallenges
  <1>4. spent <=> Or(d.budget, 1) < 1
    BY <1>1 DEF Or, Optional
  <1>5. expired <=> Or(d.ttl, 1) < 1
    BY <1>1 DEF Or, Optional
  <1>6. wide <=> Or(d.envelope, 64) \notin 1..1024
    BY <1>1 DEF Or, Optional
  <1>7. /\ Checks(d).ceiling <=> unlimited
        /\ Checks(d).budget <=> Or(d.budget, 1) < 1
        /\ Checks(d).ttl <=> Or(d.ttl, 1) < 1
        /\ Checks(d).envelope <=> Or(d.envelope, 64) \notin 1..1024
    BY DEF Checks
  <1> HIDE DEF unlimited, spent, expired, wide
  <1>8. /\ a # {} <=> unlimited
        /\ b # {} <=> spent
        /\ c # {} <=> expired
        /\ w # {} <=> wide
    OBVIOUS
  <1> HIDE DEF a, b, c, w, f, g
  <1>9. LimitProblems(d) # {} <=> unlimited \/ spent \/ expired \/ wide
    BY <1>2, <1>3, <1>8
  <1> QED
    BY <1>4, <1>5, <1>6, <1>7, <1>9

LEMMA AllowlistFaults ==
  ASSUME NEW d
  PROVE  AllowlistProblems(d) # {} <=> Checks(d).allow
  BY DEF AllowlistProblems, Checks

LEMMA EntryFaults ==
  ASSUME NEW d
  PROVE  EntryProblems(d) # {} <=> Checks(d).malformed
  <1>1. EntryProblems(d) # {} <=>
            \/ Garbled \in d.boundary["prefixes"] \/ Garbled \in d.boundary["domains"]
            \/ Garbled \in d.dedicated \/ Garbled \in d.rollback
    BY DEF EntryProblems
  <1>2. Malformed(d) <=>
            \/ Garbled \in d.boundary["prefixes"] \/ Garbled \in d.boundary["domains"]
            \/ Garbled \in d.dedicated \/ Garbled \in d.rollback
    <2>1. Garbled \in UNION {d.boundary[s] : s \in Spaces} <=>
              Garbled \in d.boundary["prefixes"] \/ Garbled \in d.boundary["domains"]
      <3>1. {d.boundary[s] : s \in Spaces} = {d.boundary["domains"], d.boundary["prefixes"]}
        BY DEF Spaces
      <3> QED
        BY <3>1
    <2> QED
      BY <2>1 DEF Malformed
  <1>3. Checks(d).malformed = Malformed(d)
    BY DEF Checks
  <1> QED
    BY <1>1, <1>2, <1>3

(* A document has problems if one of the checks finds one.                   *)
LEMMA FaultsAre ==
  ASSUME NEW d
  PROVE  Problems(d) # {} <=>
             \/ Checks(d).invariants \/ Checks(d).mode \/ Checks(d).observe
             \/ Checks(d).open \/ Checks(d).boundary \/ Checks(d).rungs
             \/ Checks(d).ladder \/ Checks(d).rate \/ Checks(d).deny \/ Checks(d).cap
             \/ Checks(d).families \/ Checks(d).precedence \/ Checks(d).ceiling
             \/ Checks(d).mechanism \/ Checks(d).jitter \/ Checks(d).version
             \/ Checks(d).pinned \/ Checks(d).budget \/ Checks(d).ttl \/ Checks(d).envelope
             \/ Checks(d).allow \/ Checks(d).malformed \/ Checks(d).unimplemented
  <1>1. DOMAIN Checks(d) =
            {"invariants", "mode", "observe", "open", "boundary", "rungs", "ladder",
             "rate", "deny", "cap", "families", "precedence", "ceiling", "mechanism",
             "jitter", "version", "pinned", "budget", "ttl", "envelope", "allow", "malformed",
             "unimplemented"}
    BY DEF Checks
  <1>2. Problems(d) # {} <=> \E c \in DOMAIN Checks(d) : Checks(d)[c]
    BY DEF Problems
  <1> QED
    BY <1>1, <1>2

(* Both refuse the same documents, and make the same policy of the others.   *)
LEMMA DocumentsRefused ==
  ASSUME NEW d, IsDocument(d), Unheard \notin DetectedFamilies, Absent \notin Int,
         ~BudgetsChallenges(d)
  PROVE  Refused(d) <=> Problems(d) # {}
  <1>1. /\ LadderProblems(d) # {} <=> Checks(d).rungs \/ Checks(d).ladder
        /\ SafetyProblems(d) # {} <=> Checks(d).invariants \/ Checks(d).precedence
        /\ AuthorizationProblems(d) # {} <=> Checks(d).open \/ Checks(d).boundary
    BY LadderFaults, SafetyFaults, AuthorizationFaults
  <1>2. /\ BehavioralProblems(d) # {} <=>
               Checks(d).rate \/ Checks(d).deny \/ Checks(d).cap \/ Checks(d).families
        /\ RandomizationProblems(d) # {} <=>
               \/ Checks(d).mechanism \/ Checks(d).jitter
               \/ Checks(d).version \/ Checks(d).pinned
        /\ LimitProblems(d) # {} <=>
               Checks(d).ceiling \/ Checks(d).budget \/ Checks(d).ttl \/ Checks(d).envelope
    BY BehavioralFaults, RandomizationFaults, LimitFaults
  <1>3. /\ AllowlistProblems(d) # {} <=> Checks(d).allow
        /\ EntryProblems(d) # {} <=> Checks(d).malformed
    BY AllowlistFaults, EntryFaults
  <1>4. NotImplemented(d) # {} <=> Checks(d).unimplemented
    BY DEF NotImplemented, Checks, Unimplemented
  <1>5. /\ Checks(d).mode = (d.mode = Garbled)
        /\ Checks(d).observe = ~Below100(d.observe)
    BY DEF Checks
  <1> QED
    BY <1>1, <1>2, <1>3, <1>4, <1>5, FaultsAre DEF Refused

LEMMA DocumentsBuilt ==
  ASSUME NEW d, IsDocument(d), ~Refused(d)
  PROVE  LoadPolicy(d) = Build(d)
  <1> DEFINE boundary == [s \in Spaces |-> {x \in d.boundary[s] : x # Garbled}]
  <1>1. d.boundary \in [Spaces -> SUBSET (Names \cup {Garbled})]
        /\ d.unrestricted \in BOOLEAN
    BY DEF IsDocument
  <1>2. \A s \in Spaces : Garbled \notin d.boundary[s]
    BY DEF Refused, EntryProblems, Spaces
  <1>3. boundary = d.boundary
    <2>1. \A s \in Spaces : boundary[s] = d.boundary[s]
      BY <1>2
    <2> QED
      BY <1>1, <2>1
  <1>4. d.boundary = [s \in Spaces |-> {}] <=> ~Bounded(d)
    BY <1>1 DEF Bounded
  <1>5. (IF d.boundary = [s \in Spaces |-> {}] THEN d.unrestricted ELSE FALSE)
            = (~Bounded(d) /\ d.unrestricted)
    BY <1>1, <1>4
  <1> HIDE DEF boundary
  <1> QED
    BY <1>3, <1>5 DEF LoadPolicy, Build, boundary

LEMMA DocumentsAgree ==
  ASSUME NEW d, IsDocument(d), Unheard \notin DetectedFamilies, Absent \notin Int
  PROVE  AgreesOnDocuments(d)
  BY DocumentsRefused, DocumentsBuilt DEF AgreesOnDocuments

(* The policy of an accepted document has what the comparison asks of it.    *)
LEMMA PoliciesTyped ==
  ASSUME NEW d, IsDocument(d), ~Refused(d)
  PROVE  LET p == LoadPolicy(d)
         IN  /\ p.open \in BOOLEAN /\ p.external \in BOOLEAN
             /\ p.allow \in Seq(Entry) /\ p.envelope \in Int
  <1>1. LoadPolicy(d).allow \in Seq(Entry)
    BY AcceptedDocuments
  <1>2. d.unrestricted \in BOOLEAN /\ d.external \in BOOLEAN /\ d.envelope \in Optional
    BY DEF IsDocument
  <1>3. LoadPolicy(d).open \in BOOLEAN /\ LoadPolicy(d).external \in BOOLEAN
    BY <1>2 DEF LoadPolicy
  <1>4. LoadPolicy(d).envelope = Or(d.envelope, 64)
    BY DEF LoadPolicy
  <1>5. Or(d.envelope, 64) \in Int
    BY <1>2 DEF Or, Optional
  <1> QED
    BY <1>1, <1>3, <1>4, <1>5

(* Whatever the runs are given, validate_policy and load_policy take the     *)
(* same documents and make the same policy of them, and the controller's     *)
(* evaluate() gives every loaded indicator the verdict and the scores that   *)
(* the reference's evaluate() gives it.                                      *)
THEOREM ReferenceAgrees == Spec => []AgreesWithProduction
  <1>1. IInv => AgreesWithProduction
    <2> SUFFICES ASSUME IInv
                 PROVE  AgreesWithProduction
      OBVIOUS
    <2>1. IsDocument(Given.document)
      BY GivenTyped DEF IInv
    <2>2. AgreesOnDocuments(Given.document)
      BY <2>1, DocumentsAgree, BatchAssumption
    <2>3. ASSUME phase = "judge", NEW i \in DOMAIN indicators,
                 Comparable(Policy, indicators[i].name, indicators[i].evidence)
          PROVE  AgreesOnEvidence(Policy, indicators[i].name, indicators[i].evidence)
      <3>1. ~Refused(Given.document)
        BY <2>3 DEF IInv, Progressed, Unloadable
      <3>2. /\ Policy.open \in BOOLEAN /\ Policy.external \in BOOLEAN
            /\ Policy.allow \in Seq(Entry) /\ Policy.envelope \in Int
        BY <2>1, <3>1, PoliciesTyped DEF Policy
      <3>3. indicators \in Seq(Indicators)
        BY DEF IInv, Typed
      <3>4. indicators[i] \in Indicators
        BY <3>3
      <3>5. indicators[i].name \in Names /\ indicators[i].evidence \in Seq(Observed)
        BY <3>4 DEF Indicators
      <3> QED
        BY <2>3, <3>2, <3>5, EvidenceAgrees
    <2> QED
      BY <2>2, <2>3 DEF AgreesWithProduction
  <1> QED
    BY <1>1, InvariantHolds, PTL
===============================================================================
