--------------------------- MODULE ReferenceOracle ---------------------------
(***************************************************************************)
(* The reference implementation's evaluation, the oracle the controller's is *)
(* compared with: a policy, a target, a sequence of evidence and the context *)
(* of the run.  It makes shorter and shorter lists of the records, where     *)
(* PolicyGates keeps sets of their indices, and shares with it the registry  *)
(* of sources, which both sides have.  Policies are those of PolicyGates.    *)
(*                                                                          *)
(* A context has a client, or Nobody, and says whether its protocol is       *)
(* interactive; names of clients are taken to be safe in artifacts.          *)
(***************************************************************************)
EXTENDS PolicyDocuments

CONSTANTS
    Rows,    \* the weight table: some <<class, kind>>, class perhaps "any"
    Nobody   \* no client

Contribution(class, kind, fresh) ==
    LET none == [m |-> 0, s |-> 0, ip |-> 0]
        row == IF class \notin Authoritative THEN none
               ELSE IF <<class, kind>> \in DOMAIN Rows THEN Rows[<<class, kind>>]
               ELSE IF class # "community" /\ <<"any", kind>> \in DOMAIN Rows
                    THEN Rows[<<"any", kind>>]
               ELSE none
    IN  IF fresh THEN row ELSE [m |-> AtMost(0, row.m), s |-> 0, ip |-> 0]

(* The controller's table is this one, read once for every class and kind.   *)
ASSUME RowsAssumption ==
    /\ DOMAIN Rows \subseteq (Classes \cup {"any"}) \X Kinds
    /\ \A c \in Classes, k \in Kinds : Weight[c][k] = Contribution(c, k, TRUE)

-----------------------------------------------------------------------------
(* What is scored: stripped of records without authority, each observation   *)
(* once, and only then cut to the envelope.                                  *)

Picked(e, S) ==     \* the records at S, in their order
    LET upTo[k \in 0..Len(e)] ==
            IF k = 0 THEN <<>>
            ELSE IF k \in S THEN Append(upTo[k - 1], e[k]) ELSE upTo[k - 1]
    IN  upTo[Len(e)]

Stripped(e) == Picked(e, {i \in DOMAIN e : ~ZeroWeight(e[i])})

\* resellers of one upstream count apart
KeyOfBug(r) == <<r.source, r.kind, r.at>>
KeyOf(r) == <<UpstreamOf[r.source], r.kind, r.at>>
Keyed(r) == ClassOf[r.source] \notin {"annotation", "attribution"}
Deduped(e) ==
    LET seen(i) == {KeyOf(e[j]) : j \in {k \in DOMAIN e : k < i /\ Keyed(e[k])}}
    IN  Picked(e, {i \in DOMAIN e : Keyed(e[i]) => KeyOf(e[i]) \notin seen(i)})

Cut(e, n) == SubSeq(e, 1, AtMost(Len(e), AtLeast(1, n)))

\* the envelope is cut before the records without authority are dropped
ViewBug(p, e) == Stripped(Cut(Deduped(e), p.envelope))
View(p, e) == Cut(Deduped(Stripped(e)), p.envelope)

-----------------------------------------------------------------------------
(* The two gates.                                                            *)

Authorized(p, n) ==
    IF p.open THEN TRUE
    ELSE IF TypeOf[n] \in {"ip", "cidr"} THEN \E net \in p.boundary.prefixes : n \in Below[net]
    ELSE \E suffix \in p.boundary.domains : n \in Below[suffix]

(* An entry of the policy's scope stands until it expires.                   *)
Suppressed(p, n) ==
    LET standing == {k \in 1..Len(p.allow) : p.allow[k].applies /\ ~p.allow[k].expired}
    IN  n \in {p.allow[k].name : k \in standing}

-----------------------------------------------------------------------------
(* The scores of a view.                                                     *)

(* _server_derived_kinds: the facts of the control plane that hold.          *)
Derived(p, n, e) ==
    {k \in ControlPlane :
        \/ k = "exactness"
        \/ k = "recent" /\ \E i \in DOMAIN e : Fresh(e[i])
        \/ k = "bounded_scope" /\ Authorized(p, n)
        \/ k = "dedicated_use" /\ n \in p.dedicated
        \/ k = "verified_rollback" /\ n \in p.rollback}

(* The independent outside upstreams that assert maliciousness, and now.     *)
Corroborating(e) ==
    {UpstreamOf[e[i].source] : i \in
        {j \in DOMAIN e :
            /\ ClassOf[e[j].source] \notin
                  {"annotation", "attribution", "local", "unregistered"}
            /\ e[j].source \in Qualified
            /\ e[j].kind \in Asserting /\ Fresh(e[j])}}

ExternallyCorroborated(e) == Corroborating(e) # {}

LocalFamilies(e) ==
    {FamilyOf[e[i].kind] : i \in
        {j \in DOMAIN e : Behavioral(e[j]) /\ ClassOf[e[j].source] = "local"}}

(* A claim of corroboration that the upstreams do not bear out weighs what   *)
(* one plain report weighs.                                                  *)
Maliciously(r, upstreams) ==
    LET m == Contribution(ClassOf[r.source], r.kind, Fresh(r)).m IN
    IF m > 0 /\ Fresh(r) /\ upstreams < Needs[r.kind]
    THEN Contribution(ClassOf[r.source], Plain, Fresh(r)).m ELSE m

Unvouched(r, derived) ==
    \/ Behavioral(r) /\ ClassOf[r.source] # "local"
    \/ r.kind \in ControlPlane \ derived

Tally(e, derived) ==
    LET upstreams == Cardinality(Corroborating(e))
        sum(points) ==
            Total([i \in DOMAIN e |-> IF Unvouched(e[i], derived) THEN 0 ELSE points[i]],
                  Len(e))
        of == [i \in DOMAIN e |->
                  Contribution(ClassOf[e[i].source], e[i].kind, Fresh(e[i]))]
        m == [i \in DOMAIN e |-> Maliciously(e[i], upstreams)]
    IN  [m |-> sum(m),
         bm |-> sum([i \in DOMAIN e |-> IF Behavioral(e[i]) THEN m[i] ELSE 0]),
         s |-> sum([i \in DOMAIN e |-> IF e[i].kind \in SharedInfra THEN 0 ELSE of[i].s]),
         ip |-> sum([i \in DOMAIN e |-> of[i].ip]),
         dedicated |-> \E i \in DOMAIN e : /\ ~Unvouched(e[i], derived)
                                           /\ e[i].kind = "dedicated_use" /\ Fresh(e[i])]

(* The share of behavioral evidence is capped by how far it is corroborated. *)
Capped(p, t, families) ==
    LET cap == IF families = {} THEN 100
               ELSE IF Cardinality(families) >= AtLeast(1, p.rateFamilies)
                    THEN CorroboratedCap ELSE p.behavioralCap
    IN  Clamp(IF t.bm <= cap THEN t.m ELSE t.m - t.bm + cap)

Scores(p, n, e) ==
    LET t == Tally(e, Derived(p, n, e)) IN
    [m |-> Capped(p, t, LocalFamilies(e)), s |-> Clamp(t.s), ip |-> Clamp(t.ip),
     dedicated |-> t.dedicated /\ \A i \in DOMAIN e : e[i].kind \notin SharedInfra]

-----------------------------------------------------------------------------
(* The ladder, strongest first.                                              *)

DenialOpen(p, e) ==
    \/ LocalFamilies(e) = {}
    \/ /\ Cardinality(LocalFamilies(e)) >= p.denyFamilies
       /\ ~p.external \/ ExternallyCorroborated(e)

LadderOf(type, deny) ==
    IF type = "ip" THEN IF deny THEN <<"L5", "L2", "L1">> ELSE <<"L2", "L1">>
    ELSE IF type = "fqdn" THEN IF deny THEN <<"L4", "L2", "L1">> ELSE <<"L2", "L1">>
    ELSE IF type = "cidr" THEN <<>> ELSE <<"L1">>

Reaches(p, sc, rung) ==
    /\ p.floors[rung] # NoFloor
    /\ sc.m >= p.floors[rung].m
    /\ (IF rung = "L5" THEN sc.ip ELSE sc.s) >= p.floors[rung].s

OpenTo(sc, ctx, rung) ==
    /\ rung = "L1" => ctx.interactive /\ ctx.client # Nobody
    /\ rung = "L2" => ctx.client # Nobody
    /\ rung = "L5" => sc.dedicated

Climb(p, ladder, sc, ctx) ==
    LET gated == {k \in 1..Len(ladder) :
                     OpenTo(sc, ctx, ladder[k]) /\ Reaches(p, sc, ladder[k])}
    IN  IF gated = {} THEN "L0"
        ELSE ladder[CHOOSE k \in gated : \A j \in gated : k <= j]

ActionOf == [NONE |-> "none", L0 |-> "observe", L1 |-> "proxy_challenge",
             L2 |-> "rate_limit", L4 |-> "dns_nxdomain", L5 |-> "firewall_deny"]

-----------------------------------------------------------------------------
(* evaluate(), of a view.                                                    *)

Verdict(disposition, action, rung, sc) ==
    [disposition |-> disposition, action |-> action, rung |-> rung,
     m |-> sc.m, s |-> IF rung = "L5" THEN sc.ip ELSE sc.s]

(* What a mode makes of the scores and of the rung they reach.               *)
Dispose(p, n, sc, rung) ==
    IF ~Authorized(p, n) \/ Suppressed(p, n) \/ p.mode = "OFF" \/ sc.m < p.observe
    THEN Verdict("NO_ACTION", "none", "NONE", sc)
    ELSE IF p.mode = "OBSERVE" THEN Verdict("OBSERVE", "observe", "L0", sc)
    ELSE IF NeedsApproval(p, n) THEN Verdict(AsksBy[p.mode], "dns_nxdomain", "L4", sc)
    ELSE IF TypeOf[n] = "cidr" /\ p.mode # "EMERGENCY"
         THEN Verdict(AsksBy[p.mode], "firewall_deny", "NONE", sc)
    ELSE Verdict(IF rung = "L0" THEN "OBSERVE" ELSE ActsBy[p.mode], ActionOf[rung], rung, sc)

Consider(p, n, sc, deny, ctx) ==
    Dispose(p, n, sc, Climb(p, LadderOf(TypeOf[n], deny), sc, ctx))

OfView(p, n, v, ctx) == Consider(p, n, Scores(p, n, v), DenialOpen(p, v), ctx)
Judge(p, n, e, ctx) == OfView(p, n, View(p, e), ctx)
==============================================================================
