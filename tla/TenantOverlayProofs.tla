------------------------- MODULE TenantOverlayProofs -------------------------
(* Theorems about TenantOverlay, for any policies, overlays, names, evidence *)
(* tables and reports.                                                       *)
EXTENDS TenantOverlay, FiniteSetTheorems, SequenceTheorems, WellFoundedInduction, TLAPS

-----------------------------------------------------------------------------
(* Lemmas about evaluate().                                                  *)

(* The rung selected is the strongest of those that pass, or L0.             *)
LEMMA SelectRungStrongest ==
  ASSUME NEW p, NEW n \in Names, NEW e, NEW S
  PROVE  LET open == {r \in Candidates(TypeOf[n], DenyAllowed(p, e, S)) :
                         Gated(p, n, e, S, r)}
             rung == SelectRung(p, n, e, S)
         IN  /\ rung \in Rungs
             /\ open = {} => rung = "L0"
             /\ open # {} => rung \in open
                             /\ \A q \in open : RungRank[q] <= RungRank[rung]
  <1> DEFINE open == {r \in Candidates(TypeOf[n], DenyAllowed(p, e, S)) :
                         Gated(p, n, e, S, r)}
             strongest == CHOOSE r \in open : \A q \in open :
                              RungRank[q] <= RungRank[r]
  <1>1. open \subseteq {"L1", "L2", "L4", "L5"}
    BY DEF Candidates, Rungs
  <1>2. SelectRung(p, n, e, S) = IF open = {} THEN "L0" ELSE strongest
    BY DEF SelectRung
  <1>3. CASE open = {}
    BY <1>2, <1>3 DEF Rungs
  <1>4. CASE open # {}
    <2> HIDE DEF open, strongest
    <2>1. \E r \in open : \A q \in open : RungRank[q] <= RungRank[r]
      <3>1. /\ RungRank["L1"] = 1 /\ RungRank["L2"] = 2
            /\ RungRank["L4"] = 4 /\ RungRank["L5"] = 5
        BY DEF RungRank
      <3>2. CASE "L5" \in open
        BY <1>1, <3>1, <3>2
      <3>3. CASE "L5" \notin open /\ "L4" \in open
        BY <1>1, <3>1, <3>3
      <3>4. CASE "L5" \notin open /\ "L4" \notin open /\ "L2" \in open
        BY <1>1, <3>1, <3>4
      <3>5. CASE open = {"L1"}
        BY <3>5, <3>1
      <3> QED
        BY <1>1, <1>4, <3>2, <3>3, <3>4, <3>5
    <2>2. strongest \in open /\ \A q \in open : RungRank[q] <= RungRank[strongest]
      BY <2>1 DEF strongest
    <2>3. strongest \in Rungs
      BY <1>1, <2>2 DEF Rungs
    <2> QED
      BY <1>2, <1>4, <2>2, <2>3 DEF open
  <1> QED
    BY <1>3, <1>4

LEMMA SelectRungTyped ==
  ASSUME NEW p, NEW n \in Names, NEW e, NEW S
  PROVE  SelectRung(p, n, e, S) \in Rungs
  BY SelectRungStrongest

LEMMA DispatchedTyped ==
  ASSUME NEW p, p.mode \in Modes, NEW n \in Names, NEW e, NEW S
  PROVE  /\ Dispatched(p, n, e, S) \in Outcomes
         /\ Dispatched(p, n, e, S).disposition \in Acting => p.mode # "OFF"
  <1>1. SelectRung(p, n, e, S) \in Rungs
    BY SelectRungTyped
  <1>2. p.mode \in {"SHADOW", "ENFORCE", "EMERGENCY"} =>
            ActsBy[p.mode] \in Dispositions /\ AsksBy[p.mode] \in Dispositions
    BY DEF ActsBy, AsksBy, Dispositions
  <1>3. \A d \in Dispositions, r \in Rungs :
            Outcome(d, r) \in Outcomes /\ Outcome(d, r).disposition = d
    BY DEF Outcome, Outcomes
  <1>4. CASE p.mode = "OFF"
    BY <1>3, <1>4 DEF Dispatched, NoAction, Acting, Dispositions, Rungs
  <1>5. CASE p.mode = "OBSERVE"
    BY <1>3, <1>5 DEF Dispatched, Dispositions, Rungs
  <1>6. CASE p.mode \in {"SHADOW", "ENFORCE", "EMERGENCY"}
    <2>1. \E d \in Dispositions, r \in Rungs : Dispatched(p, n, e, S) = Outcome(d, r)
      BY <1>1, <1>2, <1>6 DEF Dispatched, Dispositions, Rungs
    <2> QED
      BY <1>3, <1>6, <2>1
  <1> QED
    BY <1>4, <1>5, <1>6 DEF Modes

(* An acting outcome has passed the authorization, allowlist and mode gates. *)
LEMMA EvaluateGates ==
  ASSUME NEW p, p.mode \in Modes, NEW n \in Names, NEW e
  PROVE  /\ Evaluate(p, n, e) \in Outcomes
         /\ Evaluate(p, n, e).disposition \in Acting =>
                p.mode # "OFF" /\ InScope(p, n) /\ ~Allowlisted(p, n)
  <1>1. NoAction \in Outcomes /\ NoAction.disposition \notin Acting
    BY DEF NoAction, Outcome, Outcomes, Acting, Dispositions, Rungs
  <1>2. CASE ~InScope(p, n) \/ Allowlisted(p, n)
               \/ Maliciousness(p, n, e, Decisive(p, e)) < p.observe
    BY <1>1, <1>2 DEF Evaluate
  <1>3. CASE /\ InScope(p, n) /\ ~Allowlisted(p, n)
             /\ ~(Maliciousness(p, n, e, Decisive(p, e)) < p.observe)
    <2>1. Evaluate(p, n, e) = Dispatched(p, n, e, Decisive(p, e))
      BY <1>3 DEF Evaluate
    <2> QED
      BY <1>3, <2>1, DispatchedTyped
  <1> QED
    BY <1>2, <1>3

-----------------------------------------------------------------------------
(* Lemmas about the scores.                                                  *)

(* Induction over the naturals, by a least counterexample: a set of naturals *)
(* that has 0 and each one's successor has them all.                         *)
LEMMA LeastNumber ==
  ASSUME NEW T \in SUBSET Nat, T # {}
  PROVE  \E n \in T : \A m \in T : n <= m
  <1> DEFINE R == OpToRel(<, Nat)
  <1>1. IsWellFoundedOn(R, Nat)
    BY NatLessThanWellFounded
  <1>2. \A x, y \in Nat : <<x, y>> \in R <=> x < y
    BY DEF OpToRel
  <1> HIDE DEF R
  <1>3. PICK n \in T : \A m \in T : ~ (<<m, n>> \in R)
    BY <1>1, WFMin
  <1>4. ASSUME NEW m \in T
        PROVE  n <= m
    <2>1. m \in Nat /\ n \in Nat /\ <<m, n>> \notin R
      BY <1>3
    <2>2. ~(m < n)
      BY <1>2, <2>1
    <2> QED
      BY <2>1, <2>2
  <1> QED
    BY <1>4

LEMMA NaturalSet ==
  ASSUME NEW S \in SUBSET Nat, 0 \in S, \A n \in S : n + 1 \in S
  PROVE  S = Nat
  <1> SUFFICES ASSUME Nat \ S # {}
               PROVE  FALSE
    OBVIOUS
  <1>1. PICK n \in Nat \ S : \A m \in Nat \ S : n <= m
    BY LeastNumber
  <1>2. n # 0 /\ n - 1 \in Nat
    BY <1>1
  <1>3. n - 1 \in S
    BY <1>1, <1>2
  <1> QED
    BY <1>1, <1>2, <1>3

(* The equation Total's recursion solves, and a solution of it.              *)
Totals(f, n, points) ==
    f = [k \in 0..n |-> IF k = 0 THEN 0 ELSE f[k - 1] + points[k]]

LEMMA TotalsExists ==
  ASSUME NEW points
  PROVE  \A n \in Nat : \E f : Totals(f, n, points)
  <1> DEFINE S == {n \in Nat : \E f : Totals(f, n, points)}
  <1>1. 0 \in S
    <2>1. Totals([k \in 0..0 |-> 0], 0, points)
      BY DEF Totals
    <2> QED
      BY <2>1
  <1>2. ASSUME NEW n \in S
        PROVE  n + 1 \in S
    <2>1. PICK f : Totals(f, n, points)
      OBVIOUS
    <2> DEFINE g == [k \in 0..(n + 1) |-> IF k = 0 THEN 0 ELSE f[k - 1] + points[k]]
    <2>2. \A k \in 0..n : f[k] = g[k]
      <3>1. /\ DOMAIN f = 0..n
            /\ \A k \in 0..n : f[k] = IF k = 0 THEN 0 ELSE f[k - 1] + points[k]
        BY <2>1, Zenon DEF Totals
      <3>2. \A k \in 0..n : k \in 0..(n + 1)
        OBVIOUS
      <3> QED
        BY <3>1, <3>2, Zenon
    <2>3. \A k \in 0..(n + 1) : k # 0 => k - 1 \in 0..n
      OBVIOUS
    <2>4. \A k \in 0..(n + 1) : k # 0 => g[k - 1] = f[k - 1]
      BY <2>2, <2>3
    <2>5. g = [k \in 0..(n + 1) |-> IF k = 0 THEN 0 ELSE g[k - 1] + points[k]]
      BY <2>4
    <2> HIDE DEF g
    <2>6. Totals(g, n + 1, points)
      BY <2>5 DEF Totals
    <2> QED
      BY <2>6
  <1> QED
    BY <1>1, <1>2, NaturalSet

(* Total's partial sums.                                                     *)
AddsUp(f, n, points) ==
    /\ Total(points, n) = f[n]
    /\ f[0] = 0
    /\ \A k \in 1..n : f[k] = f[k - 1] + points[k]

LEMMA TotalAddsUp ==
  ASSUME NEW n \in Nat, NEW points
  PROVE  \E f : AddsUp(f, n, points)
  <1>1. PICK f : Totals(f, n, points) /\ Total(points, n) = f[n]
    <2>1. \E f : Totals(f, n, points)
      BY TotalsExists
    <2>k. PICK k : k = CHOOSE f : Totals(f, n, points)
      OBVIOUS
    <2>2. Totals(k, n, points)
      BY <2>1, <2>k
    <2>3. Total(points, n) = k[n]
      BY <2>k DEF Total, Totals
    <2> QED
      BY <2>2, <2>3
  <1>2. \A k \in 0..n : f[k] = IF k = 0 THEN 0 ELSE f[k - 1] + points[k]
    BY <1>1, Zenon DEF Totals
  <1>3. 0 \in 0..n /\ \A k \in 1..n : k \in 0..n /\ k # 0
    OBVIOUS
  <1> QED
    BY <1>1, <1>2, <1>3 DEF AddsUp

LEMMA TotalIsInteger ==
  ASSUME NEW n \in Nat, NEW points, \A k \in 1..n : points[k] \in Int
  PROVE  Total(points, n) \in Int
  <1>1. PICK f : AddsUp(f, n, points)
    BY TotalAddsUp
  <1> DEFINE T == {m \in Nat : m <= n => f[m] \in Int}
  <1>2. /\ Total(points, n) = f[n]
        /\ f[0] = 0
        /\ \A k \in 1..n : f[k] = f[k - 1] + points[k]
    BY <1>1 DEF AddsUp
  <1>3. 0 \in T
    <2>1. f[0] = 0
      BY <1>2
    <2> QED
      BY <2>1
  <1>4. ASSUME NEW m \in T
        PROVE  m + 1 \in T
    <2> SUFFICES ASSUME m + 1 <= n
                 PROVE  f[m + 1] \in Int
      OBVIOUS
    <2>1. m \in Nat /\ m <= n /\ m + 1 \in 0..n /\ m + 1 \in 1..n /\ m + 1 # 0 /\ (m + 1) - 1 = m
      OBVIOUS
    <2>2. f[m + 1] = f[m] + points[m + 1]
      BY <1>2, <2>1
    <2>3. f[m] \in Int /\ points[m + 1] \in Int
      BY <2>1
    <2> QED
      BY <2>2, <2>3
  <1>5. n \in T
    <2> HIDE DEF T
    <2>1. T \in SUBSET Nat
      BY DEF T
    <2> QED
      BY <1>3, <1>4, <2>1, NaturalSet
  <1> QED
    BY <1>2, <1>5

(* A record's points are integers.                                           *)
LEMMA PointsAreIntegers ==
  ASSUME NEW e \in Seq(Record), NEW S, NEW i \in DOMAIN e
  PROVE  M(e, S, i) \in Int /\ WeightOf(e[i]) \in Weights
  <1>1. e[i] \in Record
    OBVIOUS
  <1>2. e[i].kind \in Kinds /\ ClassOf[e[i].source] \in Classes
    BY <1>1, GatesAssumption DEF Record
  <1>3. /\ Weight[ClassOf[e[i].source]][e[i].kind] \in Weights
        /\ Weight[ClassOf[e[i].source]][Plain] \in Weights
    BY <1>2, GatesAssumption
  <1>4. \A w \in Weights : w.m \in Int
    BY DEF Weights
  <1>5. WeightOf(e[i]) \in Weights
    BY <1>3 DEF WeightOf
  <1>6. WeightOf(e[i]).m \in Int /\ Weight[ClassOf[e[i].source]][Plain].m \in Int
    BY <1>3, <1>4, <1>5
  <1>7. \A w \in Int : AtMost(0, w) \in Int
    BY DEF AtMost
  <1> QED
    BY <1>5, <1>6, <1>7 DEF M

(* What is decisive of the evidence is some of it.                           *)
LEMMA DecisiveIsPart ==
  ASSUME NEW p, NEW e
  PROVE  Decisive(p, e) \subseteq DOMAIN e
  BY DEF Decisive, Enveloped, Deduplicated, Bearing

LEMMA FamiliesAreFinite ==
  ASSUME NEW e \in Seq(Record), NEW S \in SUBSET DOMAIN e
  PROVE  Cardinality(Families(e, S)) \in Nat
  <1> DEFINE J == {j \in S : Behavioral(e[j]) /\ ClassOf[e[j].source] = "local"}
             F == {FamilyOf[e[i].kind] : i \in J}
             g == [i \in J |-> FamilyOf[e[i].kind]]
  <1>1. IsFiniteSet(J)
    <2>1. IsFiniteSet(DOMAIN e)
      BY FS_Interval
    <2>2. J \in SUBSET DOMAIN e
      OBVIOUS
    <2> HIDE DEF J
    <2> QED
      BY <2>1, <2>2, FS_Subset
  <1>2. Families(e, S) = F
    BY DEF Families
  <1>3. g \in Surjection(J, F)
    BY DEF Surjection
  <1> HIDE DEF J, F, g
  <1> QED
    BY <1>1, <1>2, <1>3, FS_Surjection, FS_CardinalityType

-----------------------------------------------------------------------------
(* Lemmas about the merge.                                                   *)

LEMMA StricterModeTyped ==
  ASSUME NEW g \in Modes, NEW o \in Modes \cup {"UNSET"}
  PROVE  /\ StricterMode(g, o) \in Modes
         /\ g = "OFF" => StricterMode(g, o) = "OFF"
         /\ StricterMode(g, o) = "ENFORCE" => g \in {"ENFORCE", "EMERGENCY"}
  BY DEF StricterMode, Rank, Modes

(* Narrowing a boundary that declares something stays within it: Below is    *)
(* transitive.                                                               *)
LEMMA NarrowStaysWithin ==
  ASSUME NEW G \in SUBSET Names, G # {}, NEW O \in SUBSET Names,
         NEW n \in Names, NEW o \in Narrow(G, O), n \in Below[o]
  PROVE  \E d \in G : n \in Below[d]
  <1>1. CASE o \in G
    BY <1>1
  <1>2. CASE \E d \in G : o \in Below[d]
    <2>1. PICK d \in G : o \in Below[d]
      BY <1>2
    <2>2. Below[o] \subseteq Below[d]
      BY <2>1, GatesAssumption
    <2> QED
      BY <2>2
  <1> QED
    BY <1>1, <1>2 DEF Narrow

(* The merge of a policy it can clamp to neither widens the scope nor takes  *)
(* a name off the allowlist.                                                 *)
LEMMA MergeStaysInScope ==
  ASSUME NEW c \in Contents, NEW v \in Overlays, NEW n \in Names,
         Clampable(PolicyText[c], n)
  PROVE  LET m == Merge(PolicyText[c], OverlayText[v])
         IN  /\ InScope(m, n) => InScope(PolicyText[c], n)
             /\ Allowlisted(PolicyText[c], n) => Allowlisted(m, n)
  <1> DEFINE g == PolicyText[c]
             o == OverlayText[v]
             m == Merge(g, o)
  <1>1. g \in Policies /\ o \in Policies /\ g.mode \in Modes
    BY TenantAssumption
  <1>2. /\ g.boundary \in [Spaces -> SUBSET Names]
        /\ o.boundary \in [Spaces -> SUBSET Names]
        /\ g.allow \in Seq(Entry)
    BY <1>1 DEF Policies
  <1>3. /\ m.open = (g.open /\ o.open)
        /\ m.boundary = [s \in Spaces |-> Narrow(g.boundary[s], o.boundary[s])]
        /\ m.allow = Governed(g.allow)
    BY DEF Merge
  <1>4. SpaceOf(n) \in Spaces
    BY DEF SpaceOf, Spaces
  <1> HIDE DEF g, o, m
  <1>5. Clampable(g, n)
    BY DEF g
  <1>7. Allowlisted(g, n) => Allowlisted(m, n)
    <2> SUFFICES ASSUME NEW i \in DOMAIN g.allow,
                        g.allow[i].name = n, g.allow[i].applies,
                        ~g.allow[i].expired
                 PROVE  Allowlisted(m, n)
      BY DEF Allowlisted
    <2>1. \A j \in DOMAIN g.allow : g.allow[j].name = g.allow[i].name => j = i
      BY <1>5 DEF Clampable
    <2>2. DOMAIN g.allow \subseteq Int
      BY <1>2
    <2>3. i \in DOMAIN m.allow /\ m.allow[i] = g.allow[i]
      BY <1>3, <2>1, <2>2 DEF Governed
    <2> QED
      BY <2>3 DEF Allowlisted
  <1>8. InScope(m, n) => InScope(g, n)
    <2> SUFFICES ASSUME InScope(m, n)
                 PROVE  InScope(g, n)
      OBVIOUS
    <2>1. CASE g.open
      BY <2>1 DEF InScope
    <2>2. CASE ~g.open
      <3>1. g.boundary[SpaceOf(n)] # {}
        BY <1>5, <2>2 DEF Clampable
      <3>2. PICK d \in Narrow(g.boundary[SpaceOf(n)], o.boundary[SpaceOf(n)]) :
                n \in Below[d]
        BY <1>3, <1>4, <2>2 DEF InScope
      <3>3. \E b \in g.boundary[SpaceOf(n)] : n \in Below[b]
        BY <1>2, <1>4, <3>1, <3>2, NarrowStaysWithin
      <3> QED
        BY <3>3 DEF InScope
    <2> QED
      BY <2>1, <2>2
  <1> QED
    BY <1>7, <1>8 DEF g, o, m

(* What a merged policy leaves in place, the global policy would, when the   *)
(* global policy is one the merge can clamp to.                              *)
LEMMA MergeClamps ==
  ASSUME NEW c \in Contents, NEW v \in Overlays, NEW n \in Names, NEW mode,
         Clampable(PolicyText[c], n),
         AllowsPresence(Merge(PolicyText[c], OverlayText[v]), n, mode)
  PROVE  AllowsPresence(PolicyText[c], n, mode)
  <1> DEFINE g == PolicyText[c]
             o == OverlayText[v]
             m == Merge(g, o)
  <1>1. g.mode \in Modes /\ o.mode \in Modes \cup {"UNSET"}
    BY TenantAssumption DEF Policies
  <1>2. m.mode = StricterMode(g.mode, o.mode)
    BY DEF Merge
  <1>3. /\ InScope(m, n) => InScope(g, n)
        /\ Allowlisted(g, n) => Allowlisted(m, n)
    BY MergeStaysInScope
  <1> HIDE DEF g, o, m
  <1>4. /\ Clampable(g, n)
        /\ m.mode # "OFF"
        /\ mode = "ENFORCE" => m.mode = "ENFORCE"
        /\ ~Allowlisted(m, n)
        /\ InScope(m, n)
    BY DEF AllowsPresence, g, o, m
  <1>5. g.mode # "OFF" /\ (mode = "ENFORCE" => g.mode = "ENFORCE")
    BY <1>1, <1>2, <1>4, StricterModeTyped DEF Clampable
  <1> QED
    BY <1>3, <1>4, <1>5 DEF AllowsPresence, g

(* Everything in which the merge p of a global policy g is to be at least as *)
(* strict as g, for a name.                                                  *)
Tightens(p, g, n) ==
    /\ InScope(p, n) => InScope(g, n)
    /\ Allowlisted(g, n) => Allowlisted(p, n)
    /\ p.mode \in Modes /\ g.mode \in Modes \ {"EMERGENCY"}
    /\ Rank[p.mode] <= Rank[g.mode]
    /\ p.observe \in Nat /\ g.observe \in Nat /\ g.observe <= p.observe
    /\ \A r \in Rungs \ {"NONE", "L0"} :
           p.floors[r] # NoFloor =>
               /\ g.floors[r] # NoFloor
               /\ p.floors[r] \in [m : Nat, s : Nat] /\ g.floors[r] \in [m : Nat, s : Nat]
               /\ g.floors[r].m <= p.floors[r].m /\ g.floors[r].s <= p.floors[r].s
    /\ p.rateFamilies \in Nat /\ g.rateFamilies \in Nat
    /\ g.rateFamilies <= p.rateFamilies
    /\ p.denyFamilies \in Nat /\ g.denyFamilies \in Nat
    /\ g.denyFamilies <= p.denyFamilies
    /\ g.external => p.external
    /\ p.behavioralCap \in Nat /\ g.behavioralCap \in Nat
    /\ p.behavioralCap <= g.behavioralCap
    /\ p.wildcards = g.wildcards /\ p.dedicated = g.dedicated
    /\ p.rollback = g.rollback

LEMMA MergeTightens ==
  ASSUME NEW c \in Contents, NEW v \in Overlays, NEW n \in Names,
         Clampable(PolicyText[c], n)
  PROVE  Tightens(Merge(PolicyText[c], OverlayText[v]), PolicyText[c], n)
  <1> DEFINE g == PolicyText[c]
             o == OverlayText[v]
             p == Merge(g, o)
  <1>1. g \in Policies /\ o \in Policies /\ g.mode \in Modes
    BY TenantAssumption
  <1>2. \A q \in Policies :
            /\ q.mode \in Modes \cup {"UNSET"} /\ q.floors \in Floors
            /\ q.observe \in Nat /\ q.rateFamilies \in Nat /\ q.denyFamilies \in Nat
            /\ q.behavioralCap \in Nat /\ q.external \in BOOLEAN
    BY DEF Policies
  <1>3. /\ InScope(p, n) => InScope(g, n)
        /\ Allowlisted(g, n) => Allowlisted(p, n)
    BY MergeStaysInScope
  <1>4. /\ p.mode = StricterMode(g.mode, o.mode)
        /\ p.observe = AtLeast(g.observe, o.observe)
        /\ p.floors = RaiseFloors(g.floors, o.floors)
        /\ p.rateFamilies = AtLeast(g.rateFamilies, o.rateFamilies)
        /\ p.denyFamilies = AtLeast(g.denyFamilies, o.denyFamilies)
        /\ p.external = (g.external \/ o.external)
        /\ p.behavioralCap = AtMost(g.behavioralCap, o.behavioralCap)
        /\ p.wildcards = g.wildcards /\ p.dedicated = g.dedicated
        /\ p.rollback = g.rollback
    BY DEF Merge
  <1>5. g.mode # "EMERGENCY"
    BY DEF Clampable
  <1> HIDE DEF g, o, p
  <1>7. /\ p.observe \in Nat /\ g.observe \in Nat /\ g.observe <= p.observe
        /\ p.rateFamilies \in Nat /\ g.rateFamilies \in Nat
        /\ g.rateFamilies <= p.rateFamilies
        /\ p.denyFamilies \in Nat /\ g.denyFamilies \in Nat
        /\ g.denyFamilies <= p.denyFamilies
        /\ p.behavioralCap \in Nat /\ g.behavioralCap \in Nat
        /\ p.behavioralCap <= g.behavioralCap
    <2>1. /\ g.observe \in Nat /\ g.rateFamilies \in Nat /\ g.denyFamilies \in Nat
          /\ g.behavioralCap \in Nat
          /\ o.observe \in Nat /\ o.rateFamilies \in Nat /\ o.denyFamilies \in Nat
          /\ o.behavioralCap \in Nat
      BY <1>1, <1>2, Zenon
    <2>2. /\ p.observe = AtLeast(g.observe, o.observe)
          /\ p.rateFamilies = AtLeast(g.rateFamilies, o.rateFamilies)
          /\ p.denyFamilies = AtLeast(g.denyFamilies, o.denyFamilies)
          /\ p.behavioralCap = AtMost(g.behavioralCap, o.behavioralCap)
      BY <1>4
    <2>3. p.observe \in Nat /\ g.observe <= p.observe
      BY <2>1, <2>2 DEF AtLeast, AtMost
    <2>4. p.rateFamilies \in Nat /\ g.rateFamilies <= p.rateFamilies
      BY <2>1, <2>2 DEF AtLeast, AtMost
    <2>5. p.denyFamilies \in Nat /\ g.denyFamilies <= p.denyFamilies
      BY <2>1, <2>2 DEF AtLeast, AtMost
    <2>6. p.behavioralCap \in Nat /\ p.behavioralCap <= g.behavioralCap
      BY <2>1, <2>2 DEF AtLeast, AtMost
    <2> QED
      BY <2>1, <2>3, <2>4, <2>5, <2>6
  <1>8. p.mode \in Modes /\ Rank[p.mode] <= Rank[g.mode]
    <2>1. o.mode \in Modes \cup {"UNSET"}
      BY <1>1, <1>2
    <2> QED
      BY <1>1, <1>4, <2>1 DEF StricterMode, Rank, Modes
  <1>9. ASSUME NEW r \in Rungs \ {"NONE", "L0"}, p.floors[r] # NoFloor
        PROVE  /\ g.floors[r] # NoFloor
               /\ p.floors[r] \in [m : Nat, s : Nat] /\ g.floors[r] \in [m : Nat, s : Nat]
               /\ g.floors[r].m <= p.floors[r].m /\ g.floors[r].s <= p.floors[r].s
    <2>1. /\ DOMAIN g.floors = Rungs \ {"NONE", "L0"}
          /\ g.floors[r] \in {NoFloor} \cup [m : Nat, s : Nat]
          /\ o.floors[r] \in {NoFloor} \cup [m : Nat, s : Nat]
      BY <1>1, <1>2 DEF Floors
    <2>2. p.floors[r] = IF NoFloor \in {g.floors[r], o.floors[r]} THEN g.floors[r]
                        ELSE [m |-> AtLeast(g.floors[r].m, o.floors[r].m),
                              s |-> AtLeast(g.floors[r].s, o.floors[r].s)]
      BY <1>4, <2>1 DEF RaiseFloors
    <2>3. CASE NoFloor \in {g.floors[r], o.floors[r]}
      <3>1. p.floors[r] = g.floors[r] /\ g.floors[r] \in [m : Nat, s : Nat]
        BY <1>9, <2>1, <2>2, <2>3
      <3> QED
        BY <1>9, <3>1
    <2>4. CASE NoFloor \notin {g.floors[r], o.floors[r]}
      <3>1. /\ g.floors[r] \in [m : Nat, s : Nat] /\ g.floors[r].m \in Nat /\ g.floors[r].s \in Nat
            /\ o.floors[r].m \in Nat /\ o.floors[r].s \in Nat
        BY <2>1, <2>4
      <3>2. /\ p.floors[r] = [m |-> p.floors[r].m, s |-> p.floors[r].s]
            /\ p.floors[r].m = AtLeast(g.floors[r].m, o.floors[r].m)
            /\ p.floors[r].s = AtLeast(g.floors[r].s, o.floors[r].s)
        BY <2>2, <2>4
      <3>3. /\ p.floors[r].m \in Nat /\ g.floors[r].m <= p.floors[r].m
            /\ p.floors[r].s \in Nat /\ g.floors[r].s <= p.floors[r].s
        BY <3>1, <3>2 DEF AtLeast
      <3>4. p.floors[r] \in [m : Nat, s : Nat]
        BY <3>2, <3>3
      <3> QED
        BY <2>4, <3>1, <3>3, <3>4
    <2> QED
      BY <2>3, <2>4
  <1>10. Tightens(p, g, n)
    BY <1>1, <1>3, <1>4, <1>5, <1>7, <1>8, <1>9 DEF Tightens
  <1> QED
    BY <1>10 DEF p, g, o

-----------------------------------------------------------------------------
(* A stricter policy decides no more strongly of the same records.           *)

LEMMA SameCounted ==
  ASSUME NEW p, NEW g, NEW n, NEW e, NEW S, Tightens(p, g, n), InScope(p, n)
  PROVE  Counted(p, n, e, S) = Counted(g, n, e, S)
  <1>1. InScope(g, n) /\ p.dedicated = g.dedicated /\ p.rollback = g.rollback
    BY DEF Tightens
  <1>2. Facts(p, n, e, S) = Facts(g, n, e, S)
    BY <1>1, Zenon DEF Facts
  <1> QED
    BY <1>2 DEF Counted

(* The behavioral part is capped lower, so the score is no higher.           *)
LEMMA ScoresNoHigher ==
  ASSUME NEW p, NEW g, NEW n, NEW e \in Seq(Record), NEW S \in SUBSET DOMAIN e,
         Tightens(p, g, n), InScope(p, n), g.behavioralCap <= CorroboratedCap
  PROVE  /\ Maliciousness(p, n, e, S) \in Int /\ Maliciousness(g, n, e, S) \in Int
         /\ Maliciousness(p, n, e, S) <= Maliciousness(g, n, e, S)
  <1> DEFINE C == Counted(g, n, e, S)
             all == Total([i \in DOMAIN e |-> IF i \in C THEN M(e, S, i) ELSE 0], Len(e))
             behavioral == Total([i \in DOMAIN e |-> IF i \in C /\ Behavioral(e[i])
                                                     THEN M(e, S, i) ELSE 0], Len(e))
             F == Families(e, S)
  <1>1. Len(e) \in Nat /\ DOMAIN e = 1..Len(e)
    OBVIOUS
  <1>2. \A i \in 1..Len(e) : M(e, S, i) \in Int
    BY <1>1, PointsAreIntegers
  <1>3. all \in Int
    <2> DEFINE q == [i \in DOMAIN e |-> IF i \in C THEN M(e, S, i) ELSE 0]
    <2>1. \A k \in 1..Len(e) : q[k] \in Int
      BY <1>1, <1>2
    <2> HIDE DEF q
    <2>2. Total(q, Len(e)) \in Int
      BY <1>1, <2>1, TotalIsInteger
    <2> QED
      BY <2>2 DEF q
  <1>4. behavioral \in Int
    <2> DEFINE q == [i \in DOMAIN e |-> IF i \in C /\ Behavioral(e[i]) THEN M(e, S, i) ELSE 0]
    <2>1. \A k \in 1..Len(e) : q[k] \in Int
      BY <1>1, <1>2
    <2> HIDE DEF q
    <2>2. Total(q, Len(e)) \in Int
      BY <1>1, <2>1, TotalIsInteger
    <2> QED
      BY <2>2 DEF q
  <1>5. /\ BehavioralCap(p, F) \in Int /\ BehavioralCap(g, F) \in Int
        /\ BehavioralCap(p, F) <= BehavioralCap(g, F)
    <2>1. Cardinality(F) \in Nat
      BY FamiliesAreFinite
    <2>2. /\ p.rateFamilies \in Nat /\ g.rateFamilies \in Nat
          /\ g.rateFamilies <= p.rateFamilies
          /\ p.behavioralCap \in Nat /\ g.behavioralCap \in Nat
          /\ p.behavioralCap <= g.behavioralCap /\ CorroboratedCap \in Nat
      BY GatesAssumption DEF Tightens
    <2> HIDE DEF F
    <2> QED
      BY <2>1, <2>2 DEF BehavioralCap, AtLeast
  <1>6. /\ Maliciousness(p, n, e, S) =
               Clamp(IF behavioral <= BehavioralCap(p, F) THEN all
                     ELSE all - behavioral + BehavioralCap(p, F))
        /\ Maliciousness(g, n, e, S) =
               Clamp(IF behavioral <= BehavioralCap(g, F) THEN all
                     ELSE all - behavioral + BehavioralCap(g, F))
    <2>1. Counted(p, n, e, S) = C
      BY SameCounted
    <2> QED
      BY <2>1 DEF Maliciousness
  <1> HIDE DEF all, behavioral, F, C
  <1>7. \A a, b, x, y \in Int : x <= y =>
            /\ Clamp(IF b <= x THEN a ELSE a - b + x) \in Int
            /\ Clamp(IF b <= y THEN a ELSE a - b + y) \in Int
            /\ Clamp(IF b <= x THEN a ELSE a - b + x)
                   <= Clamp(IF b <= y THEN a ELSE a - b + y)
    BY DEF Clamp
  <1> DEFINE x == BehavioralCap(p, F)
             y == BehavioralCap(g, F)
  <1>8. x \in Int /\ y \in Int /\ x <= y
    BY <1>5
  <1> HIDE DEF x, y
  <1>9. /\ Clamp(IF behavioral <= x THEN all ELSE all - behavioral + x) \in Int
        /\ Clamp(IF behavioral <= y THEN all ELSE all - behavioral + y) \in Int
        /\ Clamp(IF behavioral <= x THEN all ELSE all - behavioral + x)
               <= Clamp(IF behavioral <= y THEN all ELSE all - behavioral + y)
    BY <1>3, <1>4, <1>7, <1>8, Zenon
  <1> QED
    BY <1>6, <1>9, Zenon DEF x, y

LEMMA SafetyIsInteger ==
  ASSUME NEW g, NEW n, NEW e \in Seq(Record), NEW S
  PROVE  SafetyInContext(g, n, e, S) \in Int /\ SafetyOfAddress(g, n, e, S) \in Int
  <1> DEFINE C == Counted(g, n, e, S)
             q == [i \in DOMAIN e |->
                      IF i \in C /\ Fresh(e[i]) /\ e[i].kind \notin SharedInfra
                      THEN WeightOf(e[i]).s ELSE 0]
             a == [i \in DOMAIN e |-> IF i \in C /\ Fresh(e[i])
                                      THEN WeightOf(e[i]).ip ELSE 0]
  <1>1. Len(e) \in Nat /\ DOMAIN e = 1..Len(e)
    OBVIOUS
  <1>2. \A i \in 1..Len(e) : WeightOf(e[i]).s \in Int /\ WeightOf(e[i]).ip \in Int
    BY <1>1, PointsAreIntegers DEF Weights
  <1>3. \A k \in 1..Len(e) : q[k] \in Int /\ a[k] \in Int
    BY <1>1, <1>2
  <1>4. /\ SafetyInContext(g, n, e, S) = Clamp(Total(q, Len(e)))
        /\ SafetyOfAddress(g, n, e, S) = Clamp(Total(a, Len(e)))
    BY DEF SafetyInContext, SafetyOfAddress
  <1> HIDE DEF q, a
  <1>5. Total(q, Len(e)) \in Int /\ Total(a, Len(e)) \in Int
    BY <1>1, <1>3, TotalIsInteger
  <1>6. \A x \in Int : Clamp(x) \in Int
    BY DEF Clamp
  <1> QED
    BY <1>4, <1>5, <1>6

LEMMA StricterGates ==
  ASSUME NEW p, NEW g, NEW n, NEW e \in Seq(Record), NEW S \in SUBSET DOMAIN e,
         Tightens(p, g, n), InScope(p, n), g.behavioralCap <= CorroboratedCap,
         NEW r \in Candidates(TypeOf[n], DenyAllowed(p, e, S)), Gated(p, n, e, S, r)
  PROVE  /\ r \in Candidates(TypeOf[n], DenyAllowed(g, e, S))
         /\ Gated(g, n, e, S, r)
  <1>1. DenyAllowed(p, e, S) => DenyAllowed(g, e, S)
    <2>1. Cardinality(Families(e, S)) \in Nat
      BY FamiliesAreFinite
    <2>2. /\ p.denyFamilies \in Nat /\ g.denyFamilies \in Nat
          /\ g.denyFamilies <= p.denyFamilies /\ (g.external => p.external)
      BY DEF Tightens
    <2> QED
      BY <2>1, <2>2 DEF DenyAllowed
  <1>2. r \in Candidates(TypeOf[n], DenyAllowed(g, e, S)) /\ r \in Rungs \ {"NONE", "L0"}
    BY <1>1 DEF Candidates
  <1>3. Counted(p, n, e, S) = Counted(g, n, e, S)
    BY SameCounted
  <1>4. /\ SafetyInContext(p, n, e, S) = SafetyInContext(g, n, e, S)
        /\ SafetyOfAddress(p, n, e, S) = SafetyOfAddress(g, n, e, S)
    BY <1>3, Zenon DEF SafetyInContext, SafetyOfAddress
  <1>5. Dedicated(p, n, e, S) => Dedicated(g, n, e, S)
    BY <1>3, Zenon DEF Dedicated
  <1> DEFINE safety == IF r = "L5" THEN SafetyOfAddress(g, n, e, S)
                                   ELSE SafetyInContext(g, n, e, S)
             mp == Maliciousness(p, n, e, S)
             mg == Maliciousness(g, n, e, S)
  <1>6. safety \in Int
    BY SafetyIsInteger
  <1>7. mp \in Int /\ mg \in Int /\ mp <= mg
    BY ScoresNoHigher
  <1>8. Clears(p, r, mp, safety) => Clears(g, r, mg, safety)
    <2>1. p.floors[r] # NoFloor =>
              /\ g.floors[r] # NoFloor
              /\ p.floors[r].m \in Nat /\ p.floors[r].s \in Nat
              /\ g.floors[r].m \in Nat /\ g.floors[r].s \in Nat
              /\ g.floors[r].m <= p.floors[r].m /\ g.floors[r].s <= p.floors[r].s
      BY <1>2 DEF Tightens
    <2> HIDE DEF safety, mp, mg
    <2> QED
      BY <1>6, <1>7, <2>1 DEF Clears
  <1>9. /\ Gated(p, n, e, S, r) =
              /\ r = "L5" => Dedicated(p, n, e, S)
              /\ r \in {"L1", "L2"} => Client(e)
              /\ r = "L1" => Interactive(e)
              /\ Clears(p, r, mp, safety)
        /\ Gated(g, n, e, S, r) =
              /\ r = "L5" => Dedicated(g, n, e, S)
              /\ r \in {"L1", "L2"} => Client(e)
              /\ r = "L1" => Interactive(e)
              /\ Clears(g, r, mg, safety)
    BY <1>4, Zenon DEF Gated
  <1> HIDE DEF safety, mp, mg
  <1> QED
    BY <1>2, <1>5, <1>8, <1>9, Zenon

(* What passes every gate of the stricter policy passes those of the other,  *)
(* whose strongest rung is then as strong.                                   *)
LEMMA RungsNoStronger ==
  ASSUME NEW p, NEW g, NEW n \in Names, NEW e \in Seq(Record), NEW S \in SUBSET DOMAIN e,
         Tightens(p, g, n), InScope(p, n), g.behavioralCap <= CorroboratedCap,
         SelectRung(p, n, e, S) # "L0"
  PROVE  /\ SelectRung(g, n, e, S) # "L0"
         /\ RungRank[SelectRung(p, n, e, S)] <= RungRank[SelectRung(g, n, e, S)]
  <1> DEFINE P == {r \in Candidates(TypeOf[n], DenyAllowed(p, e, S)) : Gated(p, n, e, S, r)}
             G == {r \in Candidates(TypeOf[n], DenyAllowed(g, e, S)) : Gated(g, n, e, S, r)}
             rp == SelectRung(p, n, e, S)
             rg == SelectRung(g, n, e, S)
  <1>1. P \subseteq G
    BY StricterGates
  <1>2. rp \in P
    BY SelectRungStrongest
  <1>3. rg \in G /\ \A q \in G : RungRank[q] <= RungRank[rg]
    BY <1>1, <1>2, SelectRungStrongest
  <1>4. "L0" \notin G
    BY DEF Candidates
  <1> QED
    BY <1>1, <1>2, <1>3, <1>4

DispositionsOrdered ==
    /\ DispositionRank["NO_ACTION"] = 0 /\ DispositionRank["OBSERVE"] = 1
    /\ DispositionRank["SHADOW_ACTION"] = 2
    /\ DispositionRank["PROPOSE_OPERATOR_APPROVAL"] = 3
    /\ DispositionRank["AUTO_ENFORCE"] = 4

(* What a mode between OBSERVE and ENFORCE makes of a target.                *)
DispatchesAs(p, n, rung, d) ==
    /\ p.mode = "OBSERVE" => d = Outcome("OBSERVE", "L0")
    /\ p.mode # "OBSERVE" /\ NeedsApproval(p, n) =>
           d = Outcome(IF p.mode = "ENFORCE" THEN "PROPOSE_OPERATOR_APPROVAL"
                       ELSE "SHADOW_ACTION", "L4")
    /\ p.mode # "OBSERVE" /\ ~NeedsApproval(p, n) /\ TypeOf[n] = "cidr" =>
           d = Outcome("OBSERVE", "NONE")
    /\ p.mode # "OBSERVE" /\ ~NeedsApproval(p, n) /\ TypeOf[n] # "cidr" =>
           d = IF rung = "L0" THEN Outcome("OBSERVE", "L0")
               ELSE Outcome(IF p.mode = "ENFORCE" THEN "AUTO_ENFORCE"
                            ELSE "SHADOW_ACTION", rung)

LEMMA DispatchedAs ==
  ASSUME NEW p, NEW n \in Names, NEW e, NEW S,
         p.mode \in {"OBSERVE", "SHADOW", "ENFORCE"}
  PROVE  DispatchesAs(p, n, SelectRung(p, n, e, S), Dispatched(p, n, e, S))
  <1>1. ActsBy["SHADOW"] = "SHADOW_ACTION" /\ ActsBy["ENFORCE"] = "AUTO_ENFORCE"
    BY DEF ActsBy
  <1>2. /\ AsksBy["SHADOW"] = "SHADOW_ACTION"
        /\ AsksBy["ENFORCE"] = "PROPOSE_OPERATOR_APPROVAL"
    BY Zenon DEF ActsBy, AsksBy
  <1>3. CASE p.mode = "OBSERVE"
    BY <1>3 DEF Dispatched, DispatchesAs
  <1>4. CASE p.mode = "SHADOW"
    BY <1>1, <1>2, <1>4 DEF Dispatched, DispatchesAs
  <1>5. CASE p.mode = "ENFORCE"
    BY <1>1, <1>2, <1>5 DEF Dispatched, DispatchesAs
  <1> QED
    BY <1>3, <1>4, <1>5

LEMMA DispatchedNoStronger ==
  ASSUME NEW p, NEW g, NEW n \in Names, NEW e \in Seq(Record), NEW S \in SUBSET DOMAIN e,
         Tightens(p, g, n), InScope(p, n), g.behavioralCap <= CorroboratedCap
  PROVE  NoStronger(Dispatched(p, n, e, S), Dispatched(g, n, e, S))
  <1> DEFINE rp == SelectRung(p, n, e, S)
             rg == SelectRung(g, n, e, S)
  <1>1. DispositionsOrdered
    BY DEF DispositionsOrdered, DispositionRank
  <1>2. \A r \in Rungs : RungRank[r] \in Nat /\ (r # "NONE" /\ r # "L0" => 1 <= RungRank[r])
    BY DEF Rungs, RungRank
  <1>3. RungRank["NONE"] = 0 /\ RungRank["L0"] = 0
    BY DEF RungRank
  <1>4. \A d, r : Outcome(d, r).disposition = d /\ Outcome(d, r).rung = r
    BY DEF Outcome
  <1>5. rp \in Rungs /\ rg \in Rungs
    BY SelectRungTyped
  <1>6. /\ p.mode \in Modes /\ g.mode \in Modes \ {"EMERGENCY"}
        /\ Rank[p.mode] <= Rank[g.mode]
    BY DEF Tightens
  <1>7. rp # "L0" => rg # "L0" /\ RungRank[rp] <= RungRank[rg]
    BY RungsNoStronger
  <1>8. NeedsApproval(p, n) = NeedsApproval(g, n)
    BY DEF NeedsApproval, Tightens
  <1> HIDE DEF rp, rg
  <1>9. CASE p.mode = "OFF"
    <2>1. Dispatched(p, n, e, S) = Outcome("NO_ACTION", "NONE")
      BY <1>9 DEF Dispatched, NoAction
    <2>2. Dispatched(g, n, e, S) \in Outcomes
      BY <1>6, DispatchedTyped
    <2>3. \A d \in Dispositions : DispositionRank[d] \in Nat
      BY DEF Dispositions, DispositionRank
    <2>4. /\ DispositionRank[Dispatched(g, n, e, S).disposition] \in Nat
          /\ RungRank[Dispatched(g, n, e, S).rung] \in Nat
      BY <1>2, <2>2, <2>3 DEF Outcomes
    <2> QED
      BY <1>1, <1>3, <1>4, <2>1, <2>4 DEF NoStronger, DispositionsOrdered
  <1>10. CASE p.mode # "OFF"
    <2>1. /\ p.mode \in {"OBSERVE", "SHADOW", "ENFORCE"}
          /\ g.mode \in {"OBSERVE", "SHADOW", "ENFORCE"}
          /\ p.mode = "SHADOW" => g.mode # "OBSERVE"
          /\ p.mode = "ENFORCE" => g.mode = "ENFORCE"
      BY <1>6, <1>10 DEF Modes, Rank
    <2>d. /\ DispatchesAs(p, n, rp, Dispatched(p, n, e, S))
          /\ DispatchesAs(g, n, rg, Dispatched(g, n, e, S))
      BY <2>1, DispatchedAs DEF rp, rg
    <2>2. CASE p.mode = "OBSERVE"
      <3>1. Dispatched(p, n, e, S) = Outcome("OBSERVE", "L0")
        BY <2>2, <2>d DEF DispatchesAs
      <3>2. \E d \in {"OBSERVE", "SHADOW_ACTION", "PROPOSE_OPERATOR_APPROVAL", "AUTO_ENFORCE"},
               r \in Rungs : Dispatched(g, n, e, S) = Outcome(d, r)
        BY <1>5, <2>1, <2>d DEF DispatchesAs, Rungs
      <3> QED
        BY <1>1, <1>2, <1>3, <1>4, <3>1, <3>2 DEF NoStronger, DispositionsOrdered
    <2>3. CASE p.mode # "OBSERVE" /\ NeedsApproval(p, n)
      <3>1. /\ Dispatched(p, n, e, S) =
                   Outcome(IF p.mode = "ENFORCE" THEN "PROPOSE_OPERATOR_APPROVAL"
                           ELSE "SHADOW_ACTION", "L4")
            /\ Dispatched(g, n, e, S) =
                   Outcome(IF g.mode = "ENFORCE" THEN "PROPOSE_OPERATOR_APPROVAL"
                           ELSE "SHADOW_ACTION", "L4")
        BY <1>8, <2>1, <2>3, <2>d DEF DispatchesAs
      <3>2. RungRank["L4"] <= RungRank["L4"]
        BY DEF RungRank
      <3> QED
        BY <1>1, <1>4, <2>1, <3>1, <3>2 DEF NoStronger, DispositionsOrdered
    <2>4. CASE p.mode # "OBSERVE" /\ ~NeedsApproval(p, n) /\ TypeOf[n] = "cidr"
      <3>1. /\ Dispatched(p, n, e, S) = Outcome("OBSERVE", "NONE")
            /\ Dispatched(g, n, e, S) = Outcome("OBSERVE", "NONE")
        BY <1>8, <2>1, <2>4, <2>d DEF DispatchesAs
      <3> QED
        BY <1>1, <1>3, <1>4, <3>1 DEF NoStronger, DispositionsOrdered
    <2>5. CASE p.mode # "OBSERVE" /\ ~NeedsApproval(p, n) /\ TypeOf[n] # "cidr"
      <3>1. /\ Dispatched(p, n, e, S) =
                   IF rp = "L0" THEN Outcome("OBSERVE", "L0")
                   ELSE Outcome(IF p.mode = "ENFORCE" THEN "AUTO_ENFORCE"
                                ELSE "SHADOW_ACTION", rp)
            /\ Dispatched(g, n, e, S) =
                   IF rg = "L0" THEN Outcome("OBSERVE", "L0")
                   ELSE Outcome(IF g.mode = "ENFORCE" THEN "AUTO_ENFORCE"
                                ELSE "SHADOW_ACTION", rg)
        BY <1>8, <2>1, <2>5, <2>d DEF DispatchesAs
      <3>2. CASE rp = "L0"
        BY <1>1, <1>2, <1>3, <1>4, <1>5, <3>1, <3>2 DEF NoStronger, DispositionsOrdered
      <3>3. CASE rp # "L0"
        BY <1>1, <1>4, <1>7, <2>1, <3>1, <3>3 DEF NoStronger, DispositionsOrdered
      <3> QED
        BY <3>2, <3>3
    <2> QED
      BY <2>2, <2>3, <2>4, <2>5
  <1> QED
    BY <1>9, <1>10

LEMMA EvaluateNoStronger ==
  ASSUME NEW p, NEW g, NEW n \in Names, NEW e \in Seq(Record),
         Tightens(p, g, n), g.behavioralCap <= CorroboratedCap,
         Decisive(p, e) = Decisive(g, e)
  PROVE  NoStronger(Evaluate(p, n, e), Evaluate(g, n, e))
  <1> DEFINE S == Decisive(g, e)
  <1>1. S \in SUBSET DOMAIN e
    BY DecisiveIsPart
  <1>2. CASE ~InScope(p, n) \/ Allowlisted(p, n) \/ Maliciousness(p, n, e, S) < p.observe
    <2>1. Evaluate(p, n, e) = NoAction
      BY <1>2 DEF Evaluate
    <2>2. Evaluate(g, n, e) \in Outcomes
      BY EvaluateGates DEF Tightens
    <2>3. /\ NoAction.disposition = "NO_ACTION" /\ NoAction.rung = "NONE"
          /\ DispositionRank["NO_ACTION"] = 0 /\ RungRank["NONE"] = 0
      BY DEF NoAction, Outcome, DispositionRank, RungRank
    <2>4. /\ \A d \in Dispositions : 0 <= DispositionRank[d]
          /\ \A r \in Rungs : 0 <= RungRank[r]
      BY DEF Dispositions, DispositionRank, Rungs, RungRank
    <2>5. /\ Evaluate(g, n, e).disposition \in Dispositions
          /\ Evaluate(g, n, e).rung \in Rungs
      BY <2>2 DEF Outcomes
    <2> QED
      BY <2>1, <2>3, <2>4, <2>5 DEF NoStronger
  <1>3. CASE /\ InScope(p, n) /\ ~Allowlisted(p, n)
             /\ ~(Maliciousness(p, n, e, S) < p.observe)
    <2>1. /\ Maliciousness(p, n, e, S) \in Int /\ Maliciousness(g, n, e, S) \in Int
          /\ Maliciousness(p, n, e, S) <= Maliciousness(g, n, e, S)
      BY <1>1, <1>3, ScoresNoHigher
    <2>2. /\ p.observe \in Nat /\ g.observe \in Nat /\ g.observe <= p.observe
          /\ InScope(g, n) /\ ~Allowlisted(g, n)
      BY <1>3 DEF Tightens
    <2>3. ~(Maliciousness(g, n, e, S) < g.observe)
      BY <1>3, <2>1, <2>2
    <2>4. /\ Evaluate(p, n, e) = Dispatched(p, n, e, S)
          /\ Evaluate(g, n, e) = Dispatched(g, n, e, S)
      BY <1>3, <2>2, <2>3 DEF Evaluate
    <2> QED
      BY <1>1, <1>3, <2>4, DispatchedNoStronger
  <1> QED
    BY <1>2, <1>3

-----------------------------------------------------------------------------
(* Lemmas about a record that is taken out.                                  *)

(* Where the j-th record of what is left stood before the z-th was taken out. *)
Up(z, j) == IF j < z THEN j ELSE j + 1

(* The records T of e are the records S of f, which is e without its z-th.   *)
Lifted(z, T, S) == T = {Up(z, j) : j \in S}

Dropped(e, z, f) ==
    /\ e \in Seq(Record) /\ f \in Seq(Record)
    /\ z \in 1..Len(e) /\ Len(f) = Len(e) - 1
    /\ \A j \in 1..Len(f) : f[j] = e[Up(z, j)]

LEMMA UpIsMonotonic ==
  ASSUME NEW z \in Nat
  PROVE  /\ \A j, k \in Nat : j < k <=> Up(z, j) < Up(z, k)
         /\ \A j, k \in Nat : Up(z, j) = Up(z, k) => j = k
         /\ \A j \in Nat : Up(z, j) \in Nat /\ Up(z, j) # z
  BY DEF Up

LEMMA UpCovers ==
  ASSUME NEW n \in Nat, NEW z \in 1..n
  PROVE  /\ \A j \in 1..(n - 1) : Up(z, j) \in 1..n
         /\ \A i \in 1..n : i # z => \E j \in 1..(n - 1) : i = Up(z, j)
  <1>1. \A j \in 1..(n - 1) : Up(z, j) \in 1..n
    BY DEF Up
  <1>2. ASSUME NEW i \in 1..n, i # z
        PROVE  \E j \in 1..(n - 1) : i = Up(z, j)
    <2>1. CASE i < z
      <3>1. i \in 1..(n - 1) /\ Up(z, i) = i
        BY <2>1 DEF Up
      <3> QED
        BY <3>1
    <2>2. CASE i > z
      <3>1. i - 1 \in 1..(n - 1) /\ Up(z, i - 1) = i
        BY <2>2 DEF Up
      <3> QED
        BY <3>1
    <2> QED
      BY <1>2, <2>1, <2>2
  <1> QED
    BY <1>1, <1>2

LEMMA RemoveAtDrops ==
  ASSUME NEW e \in Seq(Record), NEW z \in DOMAIN e
  PROVE  Dropped(e, z, RemoveAt(e, z))
  <1> DEFINE n == Len(e)
             a == SubSeq(e, 1, z - 1)
             b == SubSeq(e, z + 1, n)
  <1>1. n \in Nat /\ z \in 1..n /\ \A i \in 1..n : e[i] \in Record
    OBVIOUS
  <1>2. /\ a \in Seq(Record) /\ Len(a) = z - 1
        /\ \A i \in 1..(z - 1) : a[i] = e[i]
    <2>1. /\ 1 \in Int /\ z - 1 \in Int /\ \A i \in 1..(z - 1) : e[i] \in Record
          /\ (z - 1) - 1 + 1 = z - 1 /\ \A i \in 1..(z - 1) : 1 + i - 1 = i
      BY <1>1
    <2>2. /\ SubSeq(e, 1, z - 1) \in Seq(Record)
          /\ Len(SubSeq(e, 1, z - 1)) = IF 1 <= z - 1 THEN (z - 1) - 1 + 1 ELSE 0
          /\ \A i \in 1..((z - 1) - 1 + 1) : SubSeq(e, 1, z - 1)[i] = e[1 + i - 1]
      <3> HIDE DEF n
      <3> QED
        BY <2>1, SubSeqProperties
    <2>3. (IF 1 <= z - 1 THEN (z - 1) - 1 + 1 ELSE 0) = z - 1
      BY <1>1
    <2> QED
      BY <2>1, <2>2, <2>3
  <1>3. /\ b \in Seq(Record) /\ Len(b) = n - z
        /\ \A i \in 1..(n - z) : b[i] = e[z + i]
    <2>1. /\ z + 1 \in Int /\ n \in Int /\ \A i \in (z + 1)..n : e[i] \in Record
          /\ n - (z + 1) + 1 = n - z /\ \A i \in 1..(n - z) : (z + 1) + i - 1 = z + i
      BY <1>1
    <2>2. /\ SubSeq(e, z + 1, n) \in Seq(Record)
          /\ Len(SubSeq(e, z + 1, n)) = IF z + 1 <= n THEN n - (z + 1) + 1 ELSE 0
          /\ \A i \in 1..(n - (z + 1) + 1) : SubSeq(e, z + 1, n)[i] = e[(z + 1) + i - 1]
      <3> HIDE DEF n
      <3> QED
        BY <2>1, SubSeqProperties
    <2>3. (IF z + 1 <= n THEN n - (z + 1) + 1 ELSE 0) = n - z
      BY <1>1
    <2> QED
      BY <2>1, <2>2, <2>3
  <1> HIDE DEF n, a, b
  <1>4. /\ a \o b \in Seq(Record) /\ Len(a \o b) = Len(a) + Len(b)
        /\ \A i \in 1..(Len(a) + Len(b)) :
              (a \o b)[i] = IF i <= Len(a) THEN a[i] ELSE b[i - Len(a)]
    BY <1>2, <1>3, ConcatProperties
  <1>5. Len(a) + Len(b) = n - 1
    BY <1>1, <1>2, <1>3
  <1>6. ASSUME NEW j \in 1..(n - 1)
        PROVE  (a \o b)[j] = e[Up(z, j)]
    <2>1. CASE j < z
      <3>1. j <= Len(a) /\ j \in 1..(z - 1) /\ Up(z, j) = j
        BY <1>1, <1>2, <2>1 DEF Up
      <3> QED
        BY <1>2, <1>4, <1>5, <3>1
    <2>2. CASE ~(j < z)
      <3>1. /\ ~(j <= Len(a)) /\ j - Len(a) \in 1..(n - z)
            /\ z + (j - Len(a)) = j + 1 /\ Up(z, j) = j + 1
        BY <1>1, <1>2, <2>2 DEF Up
      <3> QED
        BY <1>3, <1>4, <1>5, <3>1
    <2> QED
      BY <2>1, <2>2
  <1>7. RemoveAt(e, z) = a \o b
    BY DEF RemoveAt, a, b, n
  <1> QED
    BY <1>1, <1>4, <1>5, <1>6, <1>7 DEF Dropped, n

LEMMA DroppedFacts ==
  ASSUME NEW e, NEW z, NEW f, Dropped(e, z, f)
  PROVE  /\ Len(e) \in Nat /\ z \in Nat /\ DOMAIN e = 1..Len(e) /\ DOMAIN f = 1..(Len(e) - 1)
         /\ \A j \in DOMAIN f : j \in Nat /\ Up(z, j) \in DOMAIN e /\ f[j] = e[Up(z, j)]
         /\ \A i \in DOMAIN e : i # z => \E j \in DOMAIN f : i = Up(z, j)
  <1>1. Len(e) \in Nat /\ z \in 1..Len(e) /\ DOMAIN e = 1..Len(e) /\ DOMAIN f = 1..(Len(e) - 1)
    BY DEF Dropped
  <1>2. z \in Nat /\ \A j \in DOMAIN f : j \in Nat
    BY <1>1
  <1>3. \A j \in DOMAIN f : f[j] = e[Up(z, j)]
    BY <1>1 DEF Dropped
  <1>4. /\ \A j \in 1..(Len(e) - 1) : Up(z, j) \in 1..Len(e)
        /\ \A i \in 1..Len(e) : i # z => \E j \in 1..(Len(e) - 1) : i = Up(z, j)
    BY <1>1, UpCovers
  <1> QED
    BY <1>1, <1>2, <1>3, <1>4

(* Lifting keeps order, number and everything a record says.                 *)
LEMMA LiftedBearing ==
  ASSUME NEW e, NEW z, NEW f, Dropped(e, z, f), ZeroWeight(e[z]), NEW p
  PROVE  Lifted(z, Bearing(p, e), Bearing(p, f))
  <1>1. /\ \A j \in DOMAIN f : Up(z, j) \in DOMAIN e /\ f[j] = e[Up(z, j)]
        /\ \A i \in DOMAIN e : i # z => \E j \in DOMAIN f : i = Up(z, j)
    BY DroppedFacts
  <1> QED
    BY <1>1 DEF Lifted, Bearing

LEMMA LiftedDeduplicated ==
  ASSUME NEW e, NEW z, NEW f, Dropped(e, z, f),
         NEW S \in SUBSET DOMAIN f, NEW T, Lifted(z, T, S)
  PROVE  Lifted(z, Deduplicated(e, T), Deduplicated(f, S))
  <1>1. /\ z \in Nat /\ S \subseteq Nat
        /\ \A j \in S : f[j] = e[Up(z, j)]
    BY DroppedFacts
  <1>2. \A j, k \in S : j < k <=> Up(z, j) < Up(z, k)
    BY <1>1, UpIsMonotonic
  <1>3. \A j, k \in S : SameObservation(f[j], f[k]) <=>
                        SameObservation(e[Up(z, j)], e[Up(z, k)])
    BY <1>1
  <1> QED
    BY <1>2, <1>3 DEF Lifted, Deduplicated

LEMMA LiftedCardinality ==
  ASSUME NEW z \in Nat, NEW S \in SUBSET Nat, IsFiniteSet(S), NEW T, Lifted(z, T, S)
  PROVE  Cardinality(T) = Cardinality(S)
  <1> DEFINE g == [j \in S |-> Up(z, j)]
  <1>1. g \in Bijection(S, T)
    <2>1. g \in [S -> T]
      BY DEF Lifted
    <2>2. \A j, k \in S : Up(z, j) = Up(z, k) => j = k
      BY UpIsMonotonic
    <2> QED
      BY <2>1, <2>2 DEF Lifted, Bijection, Injection, IsInjective, Surjection
  <1> QED
    BY <1>1, FS_Bijection DEF ExistsBijection

LEMMA LiftedEnvelope ==
  ASSUME NEW e, NEW z, NEW f, Dropped(e, z, f),
         NEW S \in SUBSET DOMAIN f, NEW T, Lifted(z, T, S), NEW n
  PROVE  Lifted(z, Enveloped(T, n), Enveloped(S, n))
  <1>1. z \in Nat /\ S \subseteq Nat /\ IsFiniteSet(S)
    <2>1. IsFiniteSet(1..(Len(e) - 1))
      BY DroppedFacts, FS_Interval
    <2> QED
      BY <2>1, DroppedFacts, FS_Subset
  <1>2. ASSUME NEW k \in S
        PROVE  Cardinality({i \in T : i < Up(z, k)}) = Cardinality({j \in S : j < k})
    <2> DEFINE A == {i \in T : i < Up(z, k)}
               B == {j \in S : j < k}
    <2>1. \A j \in S : j < k <=> Up(z, j) < Up(z, k)
      BY <1>1, UpIsMonotonic
    <2>2. Lifted(z, A, B)
      BY <2>1 DEF Lifted
    <2>3. B \in SUBSET Nat /\ IsFiniteSet(B)
      BY <1>1, FS_Subset
    <2> HIDE DEF A, B
    <2>4. Cardinality(A) = Cardinality(B)
      BY <1>1, <2>2, <2>3, LiftedCardinality
    <2> QED
      BY <2>4 DEF A, B
  <1> DEFINE few(c) == c < (IF n > 1 THEN n ELSE 1)
  <1>3. /\ Enveloped(T, n) = {i \in T : few(Cardinality({j \in T : j < i}))}
        /\ Enveloped(S, n) = {i \in S : few(Cardinality({j \in S : j < i}))}
    BY DEF Enveloped
  <1> HIDE DEF few
  <1> DEFINE c == [k \in S |-> Cardinality({j \in S : j < k})]
             d == [i \in T |-> Cardinality({j \in T : j < i})]
  <1>4. \A k \in S : Up(z, k) \in T /\ d[Up(z, k)] = c[k]
    BY <1>2 DEF Lifted
  <1>5. /\ Enveloped(T, n) = {i \in T : few(d[i])}
        /\ Enveloped(S, n) = {i \in S : few(c[i])}
    BY <1>3
  <1> HIDE DEF c, d
  <1>6. T = {Up(z, j) : j \in S}
    BY DEF Lifted
  <1>7. {i \in T : few(d[i])} = {Up(z, j) : j \in {k \in S : few(c[k])}}
    BY <1>4, <1>6
  <1> QED
    BY <1>5, <1>7 DEF Lifted

LEMMA LiftedDecisive ==
  ASSUME NEW e, NEW z, NEW f, Dropped(e, z, f), ZeroWeight(e[z]), NEW p
  PROVE  Lifted(z, Decisive(p, e), Decisive(p, f))
  <1> DEFINE S == Bearing(p, f)
             T == Bearing(p, e)
  <1>1. S \in SUBSET DOMAIN f /\ Lifted(z, T, S)
    BY LiftedBearing DEF Bearing
  <1> HIDE DEF S, T
  <1>2. Lifted(z, Deduplicated(e, T), Deduplicated(f, S))
    BY <1>1, LiftedDeduplicated
  <1>3. Deduplicated(f, S) \in SUBSET DOMAIN f
    BY <1>1 DEF Deduplicated
  <1>4. Lifted(z, Enveloped(Deduplicated(e, T), p.envelope),
                  Enveloped(Deduplicated(f, S), p.envelope))
    BY <1>2, <1>3, LiftedEnvelope
  <1> QED
    BY <1>4 DEF Decisive, S, T

(* What is derived from the records that count.                              *)
LEMMA LiftedScope ==
  ASSUME NEW e, NEW z, NEW f, Dropped(e, z, f),
         NEW S \in SUBSET DOMAIN f, NEW T, Lifted(z, T, S), NEW p, NEW n
  PROVE  /\ Facts(p, n, e, T) = Facts(p, n, f, S)
         /\ Lifted(z, Counted(p, n, e, T), Counted(p, n, f, S))
         /\ Upstreams(e, T) = Upstreams(f, S)
         /\ Families(e, T) = Families(f, S)
         /\ DenyAllowed(p, e, T) <=> DenyAllowed(p, f, S)
         /\ Dedicated(p, n, e, T) <=> Dedicated(p, n, f, S)
  <1>1. /\ \A j \in S : Up(z, j) \in T /\ f[j] = e[Up(z, j)]
        /\ \A i \in T : \E j \in S : i = Up(z, j)
    BY DroppedFacts DEF Lifted
  <1>2. Facts(p, n, e, T) = Facts(p, n, f, S)
    <2>1. (\E i \in T : Fresh(e[i])) <=> (\E j \in S : Fresh(f[j]))
      BY <1>1
    <2> QED
      BY <2>1 DEF Facts
  <1>3. Lifted(z, Counted(p, n, e, T), Counted(p, n, f, S))
    <2> DEFINE F == Facts(p, n, f, S)
               counts(r) == /\ Behavioral(r) => ClassOf[r.source] = "local"
                            /\ r.kind \in ControlPlane => r.kind \in F
    <2>1. /\ Counted(p, n, e, T) = {i \in T : counts(e[i])}
          /\ Counted(p, n, f, S) = {j \in S : counts(f[j])}
      BY <1>2 DEF Counted
    <2> HIDE DEF counts
    <2> QED
      BY <1>1, <2>1 DEF Lifted
  <1>4. Upstreams(e, T) = Upstreams(f, S)
    <2> DEFINE counts(r) == /\ ClassOf[r.source] \in {"curated", "community"}
                            /\ r.source \in Qualified
                            /\ r.kind \in Asserting /\ Fresh(r)
    <2>1. /\ Upstreams(e, T) = {UpstreamOf[e[i].source] : i \in {j \in T : counts(e[j])}}
          /\ Upstreams(f, S) = {UpstreamOf[f[i].source] : i \in {j \in S : counts(f[j])}}
      BY DEF Upstreams
    <2> HIDE DEF counts
    <2> QED
      BY <1>1, <2>1
  <1>5. Families(e, T) = Families(f, S)
    <2> DEFINE counts(r) == Behavioral(r) /\ ClassOf[r.source] = "local"
    <2>1. /\ Families(e, T) = {FamilyOf[e[i].kind] : i \in {j \in T : counts(e[j])}}
          /\ Families(f, S) = {FamilyOf[f[i].kind] : i \in {j \in S : counts(f[j])}}
      BY DEF Families
    <2> HIDE DEF counts
    <2> QED
      BY <1>1, <2>1
  <1>6. DenyAllowed(p, e, T) <=> DenyAllowed(p, f, S)
    BY <1>4, <1>5 DEF DenyAllowed
  <1>7. Dedicated(p, n, e, T) <=> Dedicated(p, n, f, S)
    <2> DEFINE C == Counted(p, n, f, S)
               D == Counted(p, n, e, T)
               vouches(r) == r.kind = "dedicated_use" /\ Fresh(r)
    <2>1. /\ \A j \in C : Up(z, j) \in D /\ f[j] = e[Up(z, j)]
          /\ \A i \in D : \E j \in C : i = Up(z, j)
      BY <1>1, <1>3 DEF Lifted, Counted
    <2>2. (\A i \in T : e[i].kind \notin SharedInfra) <=>
          (\A j \in S : f[j].kind \notin SharedInfra)
      BY <1>1
    <2>3. /\ Dedicated(p, n, e, T) <=> /\ \E i \in D : vouches(e[i])
                                       /\ \A i \in T : e[i].kind \notin SharedInfra
          /\ Dedicated(p, n, f, S) <=> /\ \E i \in C : vouches(f[i])
                                       /\ \A i \in S : f[i].kind \notin SharedInfra
      BY DEF Dedicated
    <2> HIDE DEF C, D, vouches
    <2> QED
      BY <2>1, <2>2, <2>3
  <1> QED
    BY <1>2, <1>3, <1>4, <1>5, <1>6, <1>7

LEMMA LiftedPoints ==
  ASSUME NEW e, NEW z, NEW f, Dropped(e, z, f),
         NEW S \in SUBSET DOMAIN f, NEW T, Lifted(z, T, S), NEW j \in DOMAIN f
  PROVE  M(e, T, Up(z, j)) = M(f, S, j) /\ WeightOf(e[Up(z, j)]) = WeightOf(f[j])
  <1>1. f[j] = e[Up(z, j)]
    BY DroppedFacts
  <1>2. Upstreams(e, T) = Upstreams(f, S)
    BY LiftedScope
  <1> QED
    BY <1>1, <1>2 DEF M

(* A sum loses nothing with an entry of no points.                           *)
Thinned(a, b, n, z) ==
    /\ \A i \in 1..n : a[i] \in Int
    /\ a[z] = 0
    /\ \A j \in 1..(n - 1) : b[j] = a[Up(z, j)]

LEMMA TotalWithout ==
  ASSUME NEW n \in Nat, NEW z \in 1..n, NEW a, NEW b, Thinned(a, b, n, z)
  PROVE  Total(a, n) = Total(b, n - 1)
  <1> USE DEF Thinned
  <1>0. PICK f : AddsUp(f, n, a)
    BY TotalAddsUp
  <1>1. /\ Total(a, n) = f[n]
        /\ f[0] = 0
        /\ \A k \in 1..n : f[k] = f[k - 1] + a[k]
    BY <1>0 DEF AddsUp
  <1>2. n - 1 \in Nat
    OBVIOUS
  <1>g. PICK g : AddsUp(g, n - 1, b)
    BY <1>2, TotalAddsUp
  <1>3. /\ Total(b, n - 1) = g[n - 1]
        /\ g[0] = 0
        /\ \A k \in 1..(n - 1) : g[k] = g[k - 1] + b[k]
    BY <1>g DEF AddsUp
  <1> DEFINE P == {m \in Nat : m < n => /\ f[m] \in Int
                                        /\ m < z => g[m] = f[m]
                                        /\ m >= z => g[m] = f[m + 1]
                                        /\ m + 1 = z => f[m + 1] = f[m]}
  <1>4. ASSUME NEW m \in Nat, m < n, f[m] \in Int, m + 1 = z
        PROVE  f[m + 1] = f[m]
    <2>1. f[m + 1] = f[m] + 0
      BY <1>1, <1>4
    <2> QED
      BY <1>4, <2>1
  <1>5. 0 \in P
    <2>1. f[0] \in Int
      BY <1>1
    <2>2. z = 1 => f[1] = f[0]
      BY <1>4, <2>1
    <2> QED
      BY <1>1, <1>3, <2>1, <2>2
  <1>6. ASSUME NEW m \in P
        PROVE  m + 1 \in P
    <2> SUFFICES ASSUME m + 1 < n
                 PROVE  /\ f[m + 1] \in Int
                        /\ m + 1 < z => g[m + 1] = f[m + 1]
                        /\ m + 1 >= z => g[m + 1] = f[m + 2]
                        /\ m + 2 = z => f[m + 2] = f[m + 1]
      OBVIOUS
    <2>0. m \in Nat /\ m + 1 \in 1..n /\ m + 2 \in 1..n /\ m + 1 \in 1..(n - 1)
          /\ (m + 1) - 1 = m /\ (m + 2) - 1 = m + 1 /\ (m + 1) + 1 = m + 2
      OBVIOUS
    <2>1. /\ f[m] \in Int
          /\ m < z => g[m] = f[m]
          /\ m >= z => g[m] = f[m + 1]
          /\ m + 1 = z => f[m + 1] = f[m]
      BY <2>0
    <2> HIDE DEF P
    <2>2. f[m + 1] = f[m] + a[m + 1] /\ f[m + 2] = f[m + 1] + a[m + 2]
      BY <1>1, <2>0
    <2>3. g[m + 1] = g[m] + b[m + 1]
      BY <1>3, <2>0
    <2>4. f[m + 1] \in Int
      BY <2>0, <2>1, <2>2
    <2>5. CASE m + 1 < z
      <3>1. Up(z, m + 1) = m + 1
        BY <2>5 DEF Up
      <3>2. g[m + 1] = f[m + 1]
        BY <2>0, <2>1, <2>2, <2>3, <2>5, <3>1
      <3>3. m + 2 = z => f[m + 2] = f[m + 1]
        BY <1>4, <2>0, <2>4
      <3> QED
        BY <2>0, <2>4, <2>5, <3>2, <3>3
    <2>6. CASE m + 1 >= z
      <3>1. Up(z, m + 1) = m + 2
        BY <2>0, <2>6 DEF Up
      <3>2. g[m] = f[m + 1]
        BY <2>0, <2>1, <2>6
      <3>3. g[m + 1] = f[m + 2]
        BY <2>0, <2>2, <2>3, <3>1, <3>2
      <3> QED
        BY <2>0, <2>4, <2>6, <3>3
    <2> QED
      BY <2>0, <2>5, <2>6
  <1>7. n - 1 \in P
    <2> HIDE DEF P
    <2>1. P \in SUBSET Nat
      BY DEF P
    <2> QED
      BY <1>2, <1>5, <1>6, <2>1, NaturalSet
  <1>8. CASE n - 1 >= z
    BY <1>1, <1>3, <1>7, <1>8
  <1>9. CASE n = z
    BY <1>1, <1>3, <1>7, <1>9
  <1> QED
    BY <1>8, <1>9

SumOver(e, points, D) ==
    Total([i \in DOMAIN e |-> IF i \in D THEN points[i] ELSE 0], Len(e))
SamePoints(e, z, f, u, v) ==
    /\ \A i \in DOMAIN e : u[i] \in Int
    /\ \A j \in DOMAIN f : u[Up(z, j)] = v[j]

LEMMA LiftedTotal ==
  ASSUME NEW e, NEW z, NEW f, Dropped(e, z, f), NEW u, NEW v, SamePoints(e, z, f, u, v),
         NEW C \in SUBSET DOMAIN f, NEW D, Lifted(z, D, C)
  PROVE  SumOver(e, u, D) = SumOver(f, v, C)
  <1> DEFINE n == Len(e)
             a == [i \in DOMAIN e |-> IF i \in D THEN u[i] ELSE 0]
             b == [j \in DOMAIN f |-> IF j \in C THEN v[j] ELSE 0]
  <1>1. /\ n \in Nat /\ z \in 1..n /\ z \in Nat /\ Len(f) = n - 1
        /\ DOMAIN e = 1..n /\ DOMAIN f = 1..(n - 1)
        /\ \A j \in DOMAIN f : j \in Nat /\ Up(z, j) \in DOMAIN e
    BY DroppedFacts DEF Dropped
  <1>2. \A i \in 1..n : a[i] \in Int
    BY <1>1 DEF SamePoints
  <1>3. \A j \in DOMAIN f : (Up(z, j) \in D <=> j \in C) /\ Up(z, j) # z
    <2>1. /\ \A j, k \in Nat : Up(z, j) = Up(z, k) => j = k
          /\ \A j \in Nat : Up(z, j) # z
      BY <1>1, UpIsMonotonic
    <2> QED
      BY <1>1, <2>1 DEF Lifted
  <1>4. a[z] = 0
    <2>1. z \notin D
      BY <1>3 DEF Lifted
    <2> QED
      BY <1>1, <2>1
  <1>5. \A j \in 1..(n - 1) : b[j] = a[Up(z, j)]
    <2>1. \A j \in DOMAIN f : b[j] = IF j \in C THEN v[j] ELSE 0
      OBVIOUS
    <2>2. \A i \in DOMAIN e : a[i] = IF i \in D THEN u[i] ELSE 0
      OBVIOUS
    <2> HIDE DEF a, b
    <2> QED
      BY <1>1, <1>3, <2>1, <2>2 DEF SamePoints
  <1> HIDE DEF a, b, n
  <1>6. Total(a, n) = Total(b, n - 1)
    <2>1. Thinned(a, b, n, z)
      BY <1>2, <1>4, <1>5 DEF Thinned
    <2> QED
      BY <1>1, <2>1, TotalWithout
  <1> QED
    BY <1>1, <1>6 DEF a, b, n, SumOver

(* The scores are the same without it.                                       *)
LEMMA LiftedScores ==
  ASSUME NEW e, NEW z, NEW f, Dropped(e, z, f), NEW p, NEW n,
         NEW S \in SUBSET DOMAIN f, NEW T, Lifted(z, T, S)
  PROVE  /\ Maliciousness(p, n, e, T) = Maliciousness(p, n, f, S)
         /\ SafetyInContext(p, n, e, T) = SafetyInContext(p, n, f, S)
         /\ SafetyOfAddress(p, n, e, T) = SafetyOfAddress(p, n, f, S)
  <1> DEFINE C == Counted(p, n, f, S)
             D == Counted(p, n, e, T)
             Cb == {j \in C : Behavioral(f[j])}
             Db == {i \in D : Behavioral(e[i])}
             asked(r) == Fresh(r) /\ r.kind \notin SharedInfra
             Cs == {j \in C : asked(f[j])}
             Ds == {i \in D : asked(e[i])}
             Cf == {j \in C : Fresh(f[j])}
             Df == {i \in D : Fresh(e[i])}
  <1>1. /\ Lifted(z, D, C) /\ Families(e, T) = Families(f, S)
        /\ C \in SUBSET DOMAIN f /\ D \in SUBSET DOMAIN e
    <2>1. Lifted(z, D, C) /\ Families(e, T) = Families(f, S)
      BY LiftedScope
    <2>2. C \in SUBSET DOMAIN f
      BY DEF Counted
    <2>3. \A j \in DOMAIN f : Up(z, j) \in DOMAIN e
      BY DroppedFacts
    <2> QED
      BY <2>1, <2>2, <2>3 DEF Lifted
  <1> HIDE DEF C, D
  <1>2. \A j \in C : f[j] = e[Up(z, j)]
    BY <1>1, DroppedFacts
  <1>3. /\ Lifted(z, Db, Cb) /\ Cb \in SUBSET DOMAIN f
        /\ Lifted(z, Ds, Cs) /\ Cs \in SUBSET DOMAIN f
        /\ Lifted(z, Df, Cf) /\ Cf \in SUBSET DOMAIN f
    <2> HIDE DEF asked
    <2> QED
      BY <1>1, <1>2 DEF Lifted
  <1>4. \A i \in DOMAIN e : M(e, T, i) \in Int /\ WeightOf(e[i]) \in Weights
    BY PointsAreIntegers DEF Dropped
  <1>5. \A w \in Weights : w.s \in Int /\ w.ip \in Int
    BY DEF Weights
  <1>6. \A j \in DOMAIN f : /\ M(e, T, Up(z, j)) = M(f, S, j)
                            /\ WeightOf(e[Up(z, j)]) = WeightOf(f[j])
                            /\ Up(z, j) \in DOMAIN e
    BY LiftedPoints, DroppedFacts
  <1> DEFINE u == [i \in DOMAIN e |-> M(e, T, i)]
             v == [j \in DOMAIN f |-> M(f, S, j)]
             us == [i \in DOMAIN e |-> WeightOf(e[i]).s]
             vs == [j \in DOMAIN f |-> WeightOf(f[j]).s]
             uf == [i \in DOMAIN e |-> WeightOf(e[i]).ip]
             vf == [j \in DOMAIN f |-> WeightOf(f[j]).ip]
  <1> HIDE DEF asked, Cb, Db, Cs, Ds, Cf, Df
  <1>7. /\ SamePoints(e, z, f, u, v)
        /\ SamePoints(e, z, f, us, vs)
        /\ SamePoints(e, z, f, uf, vf)
    BY <1>4, <1>5, <1>6 DEF SamePoints
  <1> HIDE DEF u, v, us, vs, uf, vf
  <1>8. SumOver(e, u, D) = SumOver(f, v, C)
    BY <1>1, <1>7, LiftedTotal
  <1>9. SumOver(e, u, Db) = SumOver(f, v, Cb)
    BY <1>3, <1>7, LiftedTotal
  <1>10. SumOver(e, us, Ds) = SumOver(f, vs, Cs)
    BY <1>3, <1>7, LiftedTotal
  <1>11. SumOver(e, uf, Df) = SumOver(f, vf, Cf)
    BY <1>3, <1>7, LiftedTotal
  <1>12. /\ SumOver(e, u, D) = Total([i \in DOMAIN e |-> IF i \in D THEN M(e, T, i) ELSE 0], Len(e))
         /\ SumOver(f, v, C) = Total([i \in DOMAIN f |-> IF i \in C THEN M(f, S, i) ELSE 0], Len(f))
    <2>1. /\ [i \in DOMAIN e |-> IF i \in D THEN u[i] ELSE 0] =
             [i \in DOMAIN e |-> IF i \in D THEN M(e, T, i) ELSE 0]
          /\ [i \in DOMAIN f |-> IF i \in C THEN v[i] ELSE 0] =
             [i \in DOMAIN f |-> IF i \in C THEN M(f, S, i) ELSE 0]
      BY DEF u, v
    <2> QED
      BY <2>1 DEF SumOver
  <1>13. /\ SumOver(e, u, Db) =
            Total([i \in DOMAIN e |-> IF i \in D /\ Behavioral(e[i])
                                      THEN M(e, T, i) ELSE 0], Len(e))
         /\ SumOver(f, v, Cb) =
            Total([i \in DOMAIN f |-> IF i \in C /\ Behavioral(f[i])
                                      THEN M(f, S, i) ELSE 0], Len(f))
    <2>1. /\ [i \in DOMAIN e |-> IF i \in Db THEN u[i] ELSE 0] =
             [i \in DOMAIN e |-> IF i \in D /\ Behavioral(e[i]) THEN M(e, T, i) ELSE 0]
          /\ [i \in DOMAIN f |-> IF i \in Cb THEN v[i] ELSE 0] =
             [i \in DOMAIN f |-> IF i \in C /\ Behavioral(f[i]) THEN M(f, S, i) ELSE 0]
      BY DEF u, v, Db, Cb
    <2> QED
      BY <2>1 DEF SumOver
  <1>14. /\ SumOver(e, us, Ds) =
            Total([i \in DOMAIN e |->
                     IF i \in D /\ Fresh(e[i]) /\ e[i].kind \notin SharedInfra
                     THEN WeightOf(e[i]).s ELSE 0], Len(e))
         /\ SumOver(f, vs, Cs) =
            Total([i \in DOMAIN f |->
                     IF i \in C /\ Fresh(f[i]) /\ f[i].kind \notin SharedInfra
                     THEN WeightOf(f[i]).s ELSE 0], Len(f))
    <2>1. /\ [i \in DOMAIN e |-> IF i \in Ds THEN us[i] ELSE 0] =
             [i \in DOMAIN e |->
                     IF i \in D /\ Fresh(e[i]) /\ e[i].kind \notin SharedInfra
                     THEN WeightOf(e[i]).s ELSE 0]
          /\ [i \in DOMAIN f |-> IF i \in Cs THEN vs[i] ELSE 0] =
             [i \in DOMAIN f |->
                     IF i \in C /\ Fresh(f[i]) /\ f[i].kind \notin SharedInfra
                     THEN WeightOf(f[i]).s ELSE 0]
      BY DEF us, vs, Ds, Cs, asked
    <2> QED
      BY <2>1 DEF SumOver
  <1>15. /\ SumOver(e, uf, Df) =
            Total([i \in DOMAIN e |-> IF i \in D /\ Fresh(e[i])
                                      THEN WeightOf(e[i]).ip ELSE 0], Len(e))
         /\ SumOver(f, vf, Cf) =
            Total([i \in DOMAIN f |-> IF i \in C /\ Fresh(f[i])
                                      THEN WeightOf(f[i]).ip ELSE 0], Len(f))
    <2>1. /\ [i \in DOMAIN e |-> IF i \in Df THEN uf[i] ELSE 0] =
             [i \in DOMAIN e |-> IF i \in D /\ Fresh(e[i]) THEN WeightOf(e[i]).ip ELSE 0]
          /\ [i \in DOMAIN f |-> IF i \in Cf THEN vf[i] ELSE 0] =
             [i \in DOMAIN f |-> IF i \in C /\ Fresh(f[i]) THEN WeightOf(f[i]).ip ELSE 0]
      BY DEF uf, vf, Df, Cf
    <2> QED
      BY <2>1 DEF SumOver
  <1>16. Maliciousness(p, n, e, T) = Maliciousness(p, n, f, S)
    BY <1>1, <1>8, <1>9, <1>12, <1>13, Zenon DEF Maliciousness, C, D
  <1>17. SafetyInContext(p, n, e, T) = SafetyInContext(p, n, f, S)
    BY <1>10, <1>14, Zenon DEF SafetyInContext, C, D
  <1>18. SafetyOfAddress(p, n, e, T) = SafetyOfAddress(p, n, f, S)
    BY <1>11, <1>15, Zenon DEF SafetyOfAddress, C, D
  <1> QED
    BY <1>16, <1>17, <1>18

(* So is what denies: whether the client is known matters to other rungs.    *)
LEMMA DenialsAgree ==
  ASSUME NEW e, NEW z, NEW f, Dropped(e, z, f), NEW p, NEW n \in Names,
         NEW S \in SUBSET DOMAIN f, NEW T, Lifted(z, T, S),
         {SelectRung(p, n, e, T), SelectRung(p, n, f, S)} \cap {"L4", "L5"} # {}
  PROVE  SelectRung(p, n, e, T) = SelectRung(p, n, f, S)
  <1> DEFINE oe == {r \in Candidates(TypeOf[n], DenyAllowed(p, e, T)) :
                       Gated(p, n, e, T, r)}
             of == {r \in Candidates(TypeOf[n], DenyAllowed(p, f, S)) :
                       Gated(p, n, f, S, r)}
             re == SelectRung(p, n, e, T)
             rf == SelectRung(p, n, f, S)
  <1>1. /\ re \in Rungs /\ (oe = {} => re = "L0")
        /\ oe # {} => re \in oe /\ \A q \in oe : RungRank[q] <= RungRank[re]
    BY SelectRungStrongest
  <1>2. /\ rf \in Rungs /\ (of = {} => rf = "L0")
        /\ of # {} => rf \in of /\ \A q \in of : RungRank[q] <= RungRank[rf]
    BY SelectRungStrongest
  <1>3. /\ "L4" \in oe <=> "L4" \in of
        /\ "L5" \in oe <=> "L5" \in of
    <2>1. /\ DenyAllowed(p, e, T) <=> DenyAllowed(p, f, S)
          /\ Dedicated(p, n, e, T) <=> Dedicated(p, n, f, S)
      BY LiftedScope
    <2>2. /\ Maliciousness(p, n, e, T) = Maliciousness(p, n, f, S)
          /\ SafetyInContext(p, n, e, T) = SafetyInContext(p, n, f, S)
          /\ SafetyOfAddress(p, n, e, T) = SafetyOfAddress(p, n, f, S)
      BY LiftedScores
    <2>3. \A r \in {"L4", "L5"} :
             r \in Candidates(TypeOf[n], DenyAllowed(p, e, T)) <=>
             r \in Candidates(TypeOf[n], DenyAllowed(p, f, S))
      BY <2>1, Zenon DEF Candidates
    <2>4. Gated(p, n, e, T, "L4") <=> Gated(p, n, f, S, "L4")
      BY <2>2 DEF Gated
    <2>5. Gated(p, n, e, T, "L5") <=> Gated(p, n, f, S, "L5")
      BY <2>1, <2>2 DEF Gated
    <2> QED
      BY <2>3, <2>4, <2>5
  <1> HIDE DEF oe, of, re, rf
  <1>4. /\ RungRank["NONE"] = 0 /\ RungRank["L0"] = 0 /\ RungRank["L1"] = 1
        /\ RungRank["L2"] = 2 /\ RungRank["L4"] = 4 /\ RungRank["L5"] = 5
    BY DEF RungRank
  <1>5. Rungs = {"NONE", "L0", "L1", "L2", "L4", "L5"}
    BY DEF Rungs
  <1>6. CASE re \in {"L4", "L5"}
    <2>1. re \in oe /\ re \in of
      BY <1>1, <1>3, <1>6
    <2>2. rf \in of /\ RungRank[re] <= RungRank[rf]
      BY <1>2, <2>1
    <2>3. rf \in {"L4", "L5"}
      BY <1>2, <1>4, <1>5, <1>6, <2>2
    <2>4. RungRank[rf] <= RungRank[re]
      BY <1>1, <1>3, <2>1, <2>2, <2>3
    <2> QED
      BY <1>4, <1>6, <2>2, <2>3, <2>4 DEF re, rf
  <1>7. CASE rf \in {"L4", "L5"}
    <2>1. rf \in of /\ rf \in oe
      BY <1>2, <1>3, <1>7
    <2>2. re \in oe /\ RungRank[rf] <= RungRank[re]
      BY <1>1, <2>1
    <2>3. re \in {"L4", "L5"}
      BY <1>1, <1>4, <1>5, <1>7, <2>2
    <2> QED
      BY <1>6, <2>3 DEF re, rf
  <1> QED
    BY <1>6, <1>7 DEF re, rf

LEMMA DispatchedDenials ==
  ASSUME NEW e, NEW z, NEW f, Dropped(e, z, f), NEW p, p.mode \in Modes, NEW n \in Names,
         NEW S \in SUBSET DOMAIN f, NEW T, Lifted(z, T, S),
         {Dispatched(p, n, e, T).rung, Dispatched(p, n, f, S).rung} \cap {"L4", "L5"} # {}
  PROVE  Dispatched(p, n, e, T) = Dispatched(p, n, f, S)
  <1> DEFINE re == SelectRung(p, n, e, T)
             rf == SelectRung(p, n, f, S)
  <1>1. CASE \/ p.mode = "OFF"
             \/ p.mode = "OBSERVE"
             \/ NeedsApproval(p, n)
             \/ TypeOf[n] = "cidr" /\ p.mode # "EMERGENCY"
    BY <1>1 DEF Dispatched
  <1>2. CASE ~ \/ p.mode = "OFF"
               \/ p.mode = "OBSERVE"
               \/ NeedsApproval(p, n)
               \/ TypeOf[n] = "cidr" /\ p.mode # "EMERGENCY"
    <2>1. /\ Dispatched(p, n, e, T) = IF re = "L0" THEN Outcome("OBSERVE", "L0")
                                      ELSE Outcome(ActsBy[p.mode], re)
          /\ Dispatched(p, n, f, S) = IF rf = "L0" THEN Outcome("OBSERVE", "L0")
                                      ELSE Outcome(ActsBy[p.mode], rf)
      BY <1>2 DEF Dispatched
    <2> HIDE DEF re, rf
    <2>2. Dispatched(p, n, e, T).rung = re /\ Dispatched(p, n, f, S).rung = rf
      BY <2>1 DEF Outcome
    <2>3. {re, rf} \cap {"L4", "L5"} # {}
      BY <2>2
    <2>4. re = rf
      BY <2>3, DenialsAgree DEF re, rf
    <2> QED
      BY <2>1, <2>4
  <1> QED
    BY <1>1, <1>2

LEMMA EvaluateDenials ==
  ASSUME NEW e, NEW z, NEW f, Dropped(e, z, f), ZeroWeight(e[z]),
         NEW p, p.mode \in Modes, NEW n \in Names,
         {Evaluate(p, n, e).rung, Evaluate(p, n, f).rung} \cap {"L4", "L5"} # {}
  PROVE  Evaluate(p, n, e) = Evaluate(p, n, f)
  <1> DEFINE T == Decisive(p, e)
             S == Decisive(p, f)
  <1>1. S \in SUBSET DOMAIN f /\ Lifted(z, T, S)
    BY DecisiveIsPart, LiftedDecisive
  <1> HIDE DEF S, T
  <1>2. Maliciousness(p, n, e, T) = Maliciousness(p, n, f, S)
    BY <1>1, LiftedScores
  <1> DEFINE refused == \/ ~InScope(p, n)
                        \/ Allowlisted(p, n)
                        \/ Maliciousness(p, n, f, S) < p.observe
  <1>3. /\ Evaluate(p, n, e) = IF refused THEN NoAction ELSE Dispatched(p, n, e, T)
        /\ Evaluate(p, n, f) = IF refused THEN NoAction ELSE Dispatched(p, n, f, S)
    BY <1>2 DEF Evaluate, S, T
  <1> HIDE DEF refused
  <1>4. CASE refused
    BY <1>3, <1>4
  <1>5. CASE ~refused
    BY <1>1, <1>3, <1>5, DispatchedDenials
  <1> QED
    BY <1>4, <1>5

-----------------------------------------------------------------------------
(* The inductive invariant.                                                  *)

(* A decision no change has overtaken passed the gates of the policies in    *)
(* force.                                                                    *)
DecisionStands ==
    decision.current /\ decision.outcome.disposition \in Acting =>
        /\ decision.bound = policy
        /\ Effective.mode # "OFF"
        /\ InScope(Effective, target)
        /\ ~Allowlisted(Effective, target)

(* So does the control made from it, pending or rechecked since it is live.  *)
PendingStands ==
    control.state = "pending" /\ control.current => StillAuthorized
ActiveStands ==
    control.state = "active" /\ control.current =>
        AllowsPresence(Effective, target, control.mode)

IInv ==
    /\ TypeOK
    /\ DecisionStands
    /\ PendingStands
    /\ ActiveStands
    /\ control.state = "none" => control = NoControl

LEMMA EffectiveTyped ==
  ASSUME NEW c \in Contents, NEW v \in Overlays \cup {Nothing}
  PROVE  (IF v = Nothing THEN PolicyText[c]
          ELSE Merge(PolicyText[c], OverlayText[v])).mode \in Modes
  <1>1. PolicyText[c].mode \in Modes
    BY TenantAssumption
  <1>2. CASE v = Nothing
    BY <1>1, <1>2
  <1>3. CASE v \in Overlays /\ v # Nothing
    <2>1. OverlayText[v].mode \in Modes \cup {"UNSET"}
      BY <1>3, TenantAssumption DEF Policies
    <2>2. Merge(PolicyText[c], OverlayText[v]).mode =
              StricterMode(PolicyText[c].mode, OverlayText[v].mode)
      BY DEF Merge
    <2> QED
      BY <1>1, <1>3, <2>1, <2>2, StricterModeTyped
  <1> QED
    BY <1>2, <1>3

LEMMA InitIInv == Init => IInv
  <1> SUFFICES ASSUME Init PROVE IInv
    OBVIOUS
  <1>1. policy \in Contents /\ overlay \in Overlays \cup {Nothing}
    BY DEF Init
  <1>2. Effective.mode \in Modes
    BY <1>1, EffectiveTyped DEF Effective, Global
  <1>3. NoAction \in Outcomes
    BY DEF NoAction, Outcome, Outcomes, Dispositions, Rungs
  <1>4. TypeOK
    BY <1>1, <1>2, <1>3, TenantAssumption
       DEF Init, TypeOK, NoDecision, NoControl, ControlStates
  <1> QED
    BY <1>4 DEF Init, IInv, DecisionStands, PendingStands, ActiveStands,
                NoDecision, NoControl

(* A step preserves it: a promotion, an overlay staged or removed overtakes  *)
(* everything, and what the controller does is under the policies in force.  *)
LEMMA NextIInv == IInv /\ [Next]_vars => IInv'
  <1> SUFFICES ASSUME IInv, [Next]_vars PROVE IInv'
    OBVIOUS
  <1> USE DEF IInv
  <1>0. /\ policy \in Contents /\ overlay \in Overlays \cup {Nothing}
        /\ target \in Targets /\ target \in Names
    BY TenantAssumption DEF TypeOK
  <1>c. NoControl \in [state : ControlStates, mode : {"SHADOW", "ENFORCE"},
                       bound : Contents \cup {Nothing}, current : BOOLEAN]
    BY DEF NoControl, ControlStates
  <1>d. NoDecision \in [outcome : Outcomes, bound : Contents \cup {Nothing},
                        current : BOOLEAN]
    BY DEF NoDecision, NoAction, Outcome, Outcomes, Dispositions, Rungs
  <1>1. ASSUME PoliciesMoved, UNCHANGED <<target, evidence>>,
               policy' \in Contents, overlay' \in Overlays \cup {Nothing}
        PROVE  IInv'
    <2>1. /\ decision'.current = FALSE /\ decision'.outcome = decision.outcome
          /\ decision' \in [outcome : Outcomes, bound : Contents \cup {Nothing},
                            current : BOOLEAN]
      BY <1>1 DEF PoliciesMoved, TypeOK
    <2>2. /\ control'.current = FALSE /\ control'.state = control.state
          /\ control' \in [state : ControlStates, mode : {"SHADOW", "ENFORCE"},
                           bound : Contents \cup {Nothing}, current : BOOLEAN]
      BY <1>1 DEF PoliciesMoved, TypeOK
    <2>3. control'.state = "none" => control' = NoControl
      <3> SUFFICES ASSUME control.state = "none" PROVE control' = NoControl
        BY <2>2
      <3>1. /\ control'.state = "none" /\ control'.mode = "SHADOW"
            /\ control'.bound = Nothing /\ control'.current = FALSE
        BY <1>1, <2>2 DEF PoliciesMoved, TypeOK, NoControl
      <3>2. /\ NoControl.state = "none" /\ NoControl.mode = "SHADOW"
            /\ NoControl.bound = Nothing /\ NoControl.current = FALSE
        BY DEF NoControl
      <3> QED
        BY <1>c, <2>2, <3>1, <3>2
    <2>4. Effective'.mode \in Modes
      BY <1>1, EffectiveTyped DEF Effective, Global
    <2>5. TypeOK'
      BY <1>1, <2>1, <2>2, <2>4 DEF TypeOK
    <2> QED
      BY <2>1, <2>2, <2>3, <2>5 DEF DecisionStands, PendingStands, ActiveStands
  <1>2. ASSUME NEW c \in Contents, Promote(c) PROVE IInv'
    BY <1>0, <1>1, <1>2 DEF Promote
  <1>3. ASSUME NEW o \in Overlays, StageOverlay(o) PROVE IInv'
    BY <1>0, <1>1, <1>3 DEF StageOverlay
  <1>4. CASE RemoveOverlay
    BY <1>0, <1>1, <1>4 DEF RemoveOverlay
  <1>5. ASSUME UNCHANGED <<policy, overlay, target>>
        PROVE  Effective' = Effective
    BY <1>5 DEF Effective, Global
  <1>6. ASSUME NEW r \in Reports[target], Report(r) PROVE IInv'
    <2>1. r \in Record
      BY <1>0, <1>6, TenantAssumption
    <2>2. evidence' \in Seq(Record) /\ Len(evidence') <= MaxEvidence
      BY <1>6, <2>1, TenantAssumption DEF Report, TypeOK
    <2>3. Effective' = Effective
      BY <1>5, <1>6 DEF Report
    <2>4. TypeOK'
      BY <1>6, <2>2, <2>3 DEF Report, TypeOK
    <2> QED
      BY <1>6, <2>3, <2>4 DEF Report, DecisionStands, PendingStands,
                              ActiveStands, StillAuthorized, NoControl
  <1>7. CASE DecideIndicator
    <2>1. Effective' = Effective
      BY <1>5, <1>7 DEF DecideIndicator
    <2>2. /\ Evaluate(Effective, target, evidence) \in Outcomes
          /\ Evaluate(Effective, target, evidence).disposition \in Acting =>
                 /\ Effective.mode # "OFF"
                 /\ InScope(Effective, target)
                 /\ ~Allowlisted(Effective, target)
      BY <1>0, EvaluateGates DEF TypeOK
    <2>3. TypeOK'
      BY <1>0, <1>7, <2>1, <2>2 DEF DecideIndicator, TypeOK
    <2>4. DecisionStands'
      BY <1>7, <2>1, <2>2 DEF DecideIndicator, DecisionStands
    <2> QED
      BY <1>7, <2>1, <2>3, <2>4 DEF DecideIndicator, PendingStands,
                                    ActiveStands, StillAuthorized, NoControl
  <1>8. CASE CreateAction
    <2>1. Effective' = Effective
      BY <1>5, <1>8 DEF CreateAction
    <2>2. Posture(Effective, decision.outcome.disposition) \in {"SHADOW", "ENFORCE"}
      BY DEF Posture
    <2>3. /\ control'.state = "pending" /\ control'.current = decision.current
          /\ control'.bound = decision.bound
          /\ control'.mode = Posture(Effective, decision.outcome.disposition)
          /\ control' \in [state : ControlStates, mode : {"SHADOW", "ENFORCE"},
                           bound : Contents \cup {Nothing}, current : BOOLEAN]
      BY <1>8, <2>2 DEF CreateAction, ControlStates, TypeOK
    <2>4. TypeOK'
      BY <1>8, <1>d, <2>1, <2>3 DEF CreateAction, TypeOK
    <2>5. PendingStands'
      <3>1. decision.current =>
                decision.bound = policy /\ Effective.mode # "OFF"
                /\ InScope(Effective, target) /\ ~Allowlisted(Effective, target)
        BY <1>8 DEF CreateAction, DecisionStands
      <3>2. control'.mode = "ENFORCE" => Effective.mode = "ENFORCE"
        BY <2>3 DEF Posture
      <3>3. policy' = policy /\ target' = target
        BY <1>8 DEF CreateAction
      <3>4. control'.current =>
                control'.bound = policy
                /\ AllowsPresence(Effective, target, control'.mode)
        BY <2>3, <3>1, <3>2 DEF AllowsPresence
      <3> QED
        BY <2>1, <3>3, <3>4 DEF PendingStands, StillAuthorized
    <2>6. ~NoDecision.current
      BY DEF NoDecision
    <2> QED
      BY <1>8, <2>3, <2>4, <2>5, <2>6
         DEF CreateAction, DecisionStands, ActiveStands
  <1>9. ASSUME UNCHANGED <<policy, overlay, target, evidence, decision>>,
               control' \in [state : ControlStates, mode : {"SHADOW", "ENFORCE"},
                             bound : Contents \cup {Nothing}, current : BOOLEAN],
               \/ control' = NoControl
               \/ /\ control'.state = "active"
                  /\ AllowsPresence(Effective, target, control'.mode)
        PROVE  IInv'
    <2>1. Effective' = Effective
      BY <1>5, <1>9
    <2>2. TypeOK'
      BY <1>9, <2>1 DEF TypeOK
    <2>3. DecisionStands'
      BY <1>9, <2>1 DEF DecisionStands
    <2>4. PendingStands' /\ ActiveStands' /\ (control'.state = "none" => control' = NoControl)
      BY <1>9, <2>1 DEF PendingStands, ActiveStands, NoControl
    <2> QED
      BY <2>2, <2>3, <2>4 DEF NoControl
  <1>10. CASE Apply
    <2>1. /\ control'.state = "active" /\ control'.mode = control.mode
          /\ control' \in [state : ControlStates, mode : {"SHADOW", "ENFORCE"},
                           bound : Contents \cup {Nothing}, current : BOOLEAN]
      BY <1>10 DEF Apply, TypeOK, ControlStates
    <2> QED
      BY <1>9, <1>10, <2>1 DEF Apply, StillAuthorized
  <1>11. CASE Cancel
    BY <1>9, <1>11, <1>c DEF Cancel
  <1>12. CASE Keep
    <2>1. /\ control'.state = "active" /\ control'.mode = control.mode
          /\ control' \in [state : ControlStates, mode : {"SHADOW", "ENFORCE"},
                           bound : Contents \cup {Nothing}, current : BOOLEAN]
      BY <1>12 DEF Keep, TypeOK, ControlStates
    <2> QED
      BY <1>9, <1>12, <2>1 DEF Keep
  <1>13. CASE Withdraw
    BY <1>9, <1>13, <1>c DEF Withdraw
  <1>14. CASE UNCHANGED vars
    BY <1>14 DEF vars, TypeOK, DecisionStands, PendingStands, ActiveStands,
                 StillAuthorized, Effective, Global, NoControl
  <1> QED
    BY <1>2, <1>3, <1>4, <1>6, <1>7, <1>8, <1>10, <1>11, <1>12, <1>13, <1>14
       DEF Next

THEOREM Inductive == Spec => []IInv
  <1>1. Init => IInv
    BY InitIInv
  <1>2. IInv /\ [Next]_vars => IInv'
    BY NextIInv
  <1> QED
    BY <1>1, <1>2, PTL DEF Spec

-----------------------------------------------------------------------------
(* The results.                                                              *)

(* Type correctness, whatever texts are promoted and staged.                 *)
THEOREM TypeCorrect == Spec => []TypeOK
  <1>1. IInv => TypeOK
    BY DEF IInv
  <1> QED
    BY <1>1, Inductive, PTL

(* No live control exceeds the global policy, under any policy the merge can *)
(* clamp to.                                                                 *)
THEOREM OverlaysStayWithin == Spec => []LiveWithinGlobal
  <1>1. IInv => LiveWithinGlobal
    <2> SUFFICES ASSUME IInv, control.state = "active", control.current,
                        Clampable(Global, target)
                 PROVE  AllowsPresence(Global, target, control.mode)
      BY DEF LiveWithinGlobal
    <2>1. AllowsPresence(Effective, target, control.mode)
      BY DEF IInv, ActiveStands
    <2>2. policy \in Contents /\ target \in Names
      BY TenantAssumption DEF IInv, TypeOK
    <2>3. CASE overlay = Nothing
      BY <2>1, <2>3 DEF Effective
    <2>4. CASE overlay \in Overlays /\ overlay # Nothing
      BY <2>1, <2>2, <2>4, MergeClamps DEF Effective, Global
    <2> QED
      BY <2>3, <2>4 DEF IInv, TypeOK
  <1> QED
    BY <1>1, Inductive, PTL

(* Dispatch never refuses what evaluate() has just decided.                  *)
THEOREM CancelsHaveCause == Spec => CancelledHasCause
  <1>1. IInv /\ [Next]_vars =>
            [control.state = "pending" /\ control' = NoControl => ~control.current]_vars
    <2> SUFFICES ASSUME IInv, Next, control.state = "pending",
                        control' = NoControl, control.current
                 PROVE  FALSE
      OBVIOUS
    <2>1. control' # control /\ control'.state = "none"
      BY DEF NoControl
    <2>2. StillAuthorized
      BY DEF IInv, PendingStands
    <2>3. ASSUME PoliciesMoved PROVE FALSE
      BY <2>1, <2>3 DEF PoliciesMoved, IInv, TypeOK
    <2>4. ASSUME control' = control PROVE FALSE
      BY <2>1, <2>4
    <2>5. CASE CreateAction
      BY <2>1, <2>5 DEF CreateAction
    <2>6. CASE Apply
      BY <2>1, <2>6 DEF Apply, IInv, TypeOK
    <2>7. CASE Cancel
      BY <2>2, <2>7 DEF Cancel
    <2>8. CASE Keep \/ Withdraw
      BY <2>8 DEF Keep, Withdraw
    <2> QED
      BY <2>3, <2>4, <2>5, <2>6, <2>7, <2>8
         DEF Next, Promote, StageOverlay, RemoveOverlay, Report, DecideIndicator
  <1> QED
    BY <1>1, Inductive, PTL DEF Spec, CancelledHasCause

(* Where the merge can clamp and both weigh the same records, no overlay     *)
(* makes evaluate() decide more strongly than the global policy does.        *)
THEOREM OverlaysNeverStrengthen == Spec => []OverlayNeverStrengthens
  <1>1. IInv => OverlayNeverStrengthens
    <2> SUFFICES ASSUME IInv, Clampable(Global, target),
                        Decisive(Effective, evidence) = Decisive(Global, evidence),
                        Global.behavioralCap <= CorroboratedCap
                 PROVE  NoStronger(Evaluate(Effective, target, evidence),
                                   Evaluate(Global, target, evidence))
      BY DEF OverlayNeverStrengthens
    <2>1. policy \in Contents /\ target \in Names /\ evidence \in Seq(Record)
      BY TenantAssumption DEF IInv, TypeOK
    <2>2. CASE overlay = Nothing
      <3>1. Evaluate(Global, target, evidence) \in Outcomes
        BY <2>1, TenantAssumption, EvaluateGates DEF Global
      <3>2. /\ \A d \in Dispositions : DispositionRank[d] <= DispositionRank[d]
            /\ \A r \in Rungs : RungRank[r] <= RungRank[r]
        BY DEF Dispositions, DispositionRank, Rungs, RungRank
      <3>3. NoStronger(Evaluate(Global, target, evidence),
                       Evaluate(Global, target, evidence))
        BY <3>1, <3>2 DEF NoStronger, Outcomes
      <3> QED
        BY <2>2, <3>3 DEF Effective
    <2>3. CASE overlay \in Overlays /\ overlay # Nothing
      <3>1. Effective = Merge(PolicyText[policy], OverlayText[overlay])
        BY <2>3 DEF Effective, Global
      <3>2. Tightens(Effective, Global, target)
        BY <2>1, <2>3, <3>1, MergeTightens DEF Global
      <3> QED
        BY <2>1, <3>2, EvaluateNoStronger
    <2> QED
      BY <2>2, <2>3 DEF IInv, TypeOK
  <1> QED
    BY <1>1, Inductive, PTL

(* Whatever the policies and the evidence, a record of a source without      *)
(* authority neither makes nor unmakes a denial: AnnotationsNeverDeny.       *)
THEOREM AnnotationsAreInert == Spec => []AnnotationsNeverDeny
  <1>1. IInv => AnnotationsNeverDeny
    <2> SUFFICES ASSUME IInv, NEW z \in DOMAIN evidence, ZeroWeight(evidence[z]),
                        {Evaluate(Effective, target, evidence).rung,
                         Evaluate(Effective, target, RemoveAt(evidence, z)).rung}
                            \cap {"L4", "L5"} # {}
                 PROVE  Evaluate(Effective, target, evidence) =
                        Evaluate(Effective, target, RemoveAt(evidence, z))
      BY DEF AnnotationsNeverDeny
    <2>1. target \in Names /\ evidence \in Seq(Record) /\ Effective.mode \in Modes
      BY TenantAssumption DEF IInv, TypeOK
    <2>2. Dropped(evidence, z, RemoveAt(evidence, z))
      BY <2>1, RemoveAtDrops
    <2> QED
      BY <2>1, <2>2, EvaluateDenials
  <1> QED
    BY <1>1, Inductive, PTL
==============================================================================
