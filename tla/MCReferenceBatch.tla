--------------------------- MODULE MCReferenceBatch ---------------------------
(* Instances of ReferenceBatch for TLC: a domain, an address, a prefix, a    *)
(* wildcard and two pages; every way to spoil a document, one at a time.     *)
EXTENDS ReferenceBatch

CONSTANTS corp, sub, wild, addr, net, page, other,   \* names
          cur1, cur2, res, loc, ann, h1, h2          \* sources and hosts

Type == [n \in Names |-> CASE n = addr -> "ip" [] n = net -> "cidr"
                           [] n \in {page, other} -> "other" [] OTHER -> "fqdn"]
Under == [n \in Names |-> CASE n = corp -> {corp, sub, wild, page, other}
                            [] n = net -> {net, addr} [] OTHER -> {n}]
Class == [s \in Sources |->
    CASE s \in {loc, LocalBehavioral} -> "local" [] s = ann -> "annotation"
      [] s = Unregistered -> "unregistered" [] OTHER -> "curated"]
Upstream == [s \in Sources |-> IF s = res THEN cur1 ELSE s]
Family == [k \in Kinds |-> CASE k = Beacon -> "beacon_periodicity"
                             [] k = Novelty -> "first_seen_novelty"
                             [] OTHER -> "none"]
Need == [k \in Kinds |-> IF k = "two_curated_sources" THEN 2 ELSE 0]

W(m, s, ip) == [m |-> m, s |-> s, ip |-> ip]
AnyOf == [recent |-> W(25, 15, 15), bounded_scope |-> W(0, 20, 20),
        verified_rollback |-> W(0, 15, 15), dedicated_use |-> W(0, 25, 25),
        exactness |-> W(10, 25, 25), shared_cdn |-> W(0, 0, -45)]
CuratedOf == [curated_source |-> W(25, 0, 0), two_curated_sources |-> W(45, 0, 0),
            contradictory_benign |-> W(-35, 0, 0)]
LocalOf == [direct_local_detection |-> W(35, 10, 15),
          behavioral_beacon_periodicity |-> W(20, 10, 10),
          behavioral_first_seen_novelty |-> W(10, 0, 0)]
Table == [c \in Classes |-> [k \in Kinds |->
    CASE c \in {"curated", "local"} /\ k \in DOMAIN AnyOf -> AnyOf[k]
      [] c = "curated" /\ k \in DOMAIN CuratedOf -> CuratedOf[k]
      [] c = "local" /\ k \in DOMAIN LocalOf -> LocalOf[k]
      [] OTHER -> W(0, 0, 0)]]
TheRows == [x \in ({"any"} \X DOMAIN AnyOf) \cup ({"curated"} \X DOMAIN CuratedOf)
                      \cup ({"local"} \X DOMAIN LocalOf) |->
    CASE x[1] = "any" -> AnyOf[x[2]] [] x[1] = "curated" -> CuratedOf[x[2]]
      [] OTHER -> LocalOf[x[2]]]

R(kind, source, at) == [kind |-> kind, source |-> source, at |-> at,
                        detail |-> "session", client |-> Nobody]
I(n, e) == [name |-> n, evidence |-> e]
Report == R("curated_source", cur1, 30)
Mixed == <<
    I(sub, <<R("exactness", ann, 30), Report, R("curated_source", res, 30),
             R("two_curated_sources", cur2, 30), R("direct_local_detection", loc, 30),
             R("exactness", cur1, 30)>>),
    I(addr, <<Report, R("direct_local_detection", loc, 30), R("dedicated_use", loc, 30),
              R("exactness", cur1, 30)>>),
    I(page, <<R("curated_source", cur1, 1), Report>>)>>
Dissent == <<
    I(sub, <<R(Beacon, ann, 30), R("curated_source", cur2, 30),
             [R(Novelty, loc, 30) EXCEPT !.client = h2, !.detail = "client"],
             Report, R("two_curated_sources", cur2, 1),
             R("contradictory_benign", cur2, 1)>>),
    I(net, <<Report, R("direct_local_detection", loc, 30)>>)>>
Shared == <<
    I(addr, <<R("shared_cdn", cur1, 30), R("dedicated_use", cur1, 30), Report,
              R("direct_local_detection", loc, 30), R("recent", cur1, 30)>>),
    I(addr, <<[R(Beacon, loc, 30) EXCEPT !.client = h1]>>)>>
Pages == <<I(page, <<Report>>), I(other, <<Report>>)>>
Wild == <<I(wild, <<Report>>)>>

V(src, dst, at, says) == [src |-> src, dst |-> dst, at |-> at, says |-> says]
Regular == <<V(h1, addr, 20, 20), V(h1, addr, 30, 30), V(h1, addr, 40, 40),
             V(h1, addr, 50, 50)>>
Ragged == <<V(h1, addr, 20, 20), V(h2, addr, 30, 30), V(h1, sub, 30, 1),
            V(h1, addr, 30, 30), V(h1, addr, 20, 20), V(h1, addr, 50, 50),
            V(h1, addr, 60, 60), V(h2, net, 60, 60)>>

F(m, s) == [m |-> m, s |-> s]
Inside(domains, prefixes) == [domains |-> domains, prefixes |-> prefixes]
Entry1(n) == [name |-> n, applies |-> TRUE, expired |-> FALSE, governed |-> TRUE,
              until |-> "valid"]
Base == [mode |-> "ENFORCE", broken |-> {}, unrestricted |-> FALSE,
    boundary |-> Inside({corp}, {net}), observe |-> 20,
    rungs |-> [L1 |-> F(20, 0), L2 |-> F(35, 0), L4 |-> F(55, 5), L5 |-> F(60, 40)],
    rate |-> Absent, deny |-> Absent, external |-> TRUE, cap |-> Absent, families |-> {},
    precedence |-> TRUE, wildcards |-> FALSE, ceiling |-> 3, budget |-> Absent,
    ttl |-> Absent, envelope |-> Absent, fraction |-> Absent, measured |-> Absent,
    random |-> FALSE, versioned |-> TRUE, jitter |-> <<>>, pinned |-> "none",
    allow |-> <<>>, dedicated |-> {addr}, rollback |-> {}, unimplemented |-> FALSE]
Jitter(k, lo, hi) == k :> [lo |-> lo, hi |-> hi, on |-> TRUE]
Off(k, lo, hi) == k :> [lo |-> lo, hi |-> hi, on |-> FALSE]
OnlyL1 == [L1 |-> F(20, 0)]

Plainly == <<Base,
    [Base EXCEPT !.mode = "SHADOW", !.unrestricted = TRUE, !.boundary = Inside({}, {}),
                 !.budget = 1],
    [Base EXCEPT !.mode = "EMERGENCY", !.budget = 1],
    [Base EXCEPT !.mode = "OBSERVE", !.boundary = Inside({sub}, {})],
    [Base EXCEPT !.budget = 2, !.allow = <<Entry1(page)>>],
    [Base EXCEPT !.envelope = 2, !.dedicated = {}],
    [Base EXCEPT !.families = {"beacon_periodicity"}, !.external = FALSE, !.cap = 10],
    [Base EXCEPT !.random = TRUE, !.jitter = Jitter("rate_ceiling", 10, 120)
                                       @@ Jitter("ttl_jitter", 80, 100),
                 !.rungs = [L2 |-> F(35, 0)]],
    [Base EXCEPT !.random = TRUE, !.jitter = Jitter("rate_ceiling", 40, 70)
                                       @@ Off("ttl_jitter", 90, 80),
                 !.pinned = "valid", !.mode = "EMERGENCY"]>>
Challenge(b, m) == [Base EXCEPT !.fraction = 500000, !.rungs = OnlyL1, !.budget = b, !.mode = m]
Challenging == <<Challenge(Absent, "ENFORCE"), Challenge(1, "ENFORCE"),
                 Challenge(1, "EMERGENCY")>>
Spoilt == <<
    [Base EXCEPT !.broken = {"auto_routing"}], [Base EXCEPT !.mode = Garbled],
    [Base EXCEPT !.observe = 101], [Base EXCEPT !.unrestricted = TRUE],
    [Base EXCEPT !.boundary = Inside({}, {})],
    [Base EXCEPT !.rungs = [L3 |-> F(20, 0)] @@ @],
    [Base EXCEPT !.rungs.L4 = F(60, 0), !.rungs.L2 = F(35, 2)],
    [Base EXCEPT !.rungs = [L1 |-> F(50, 0), L5 |-> F(40, 40)]],
    [Base EXCEPT !.rungs.L5 = F(101, 100)],
    [Base EXCEPT !.rate = 1], [Base EXCEPT !.deny = 2], [Base EXCEPT !.rate = 4],
    [Base EXCEPT !.cap = 95], [Base EXCEPT !.families = {Unheard}],
    [Base EXCEPT !.precedence = FALSE], [Base EXCEPT !.ceiling = 0],
    [Base EXCEPT !.jitter = Off("other", 1, 2)],
    [Base EXCEPT !.jitter = Jitter("ttl_jitter", 90, 80)],
    [Base EXCEPT !.rungs = OnlyL1, !.ceiling = 0, !.jitter = Jitter("rate_ceiling", 1, 2)],
    [Base EXCEPT !.rungs = OnlyL1, !.ceiling = -1],
    [Base EXCEPT !.random = TRUE, !.versioned = FALSE],
    [Base EXCEPT !.pinned = "garbled"], [Base EXCEPT !.budget = 0],
    [Base EXCEPT !.ttl = 0], [Base EXCEPT !.envelope = 1025],
    [Base EXCEPT !.allow = <<[Entry1(sub) EXCEPT !.governed = FALSE]>>],
    [Base EXCEPT !.allow = <<[Entry1(sub) EXCEPT !.until = "garbled"]>>],
    [Base EXCEPT !.boundary = Inside({corp, Garbled}, {})],
    [Base EXCEPT !.dedicated = {Garbled}], [Base EXCEPT !.unimplemented = TRUE],
    [Base EXCEPT !.mode = "SHADOW", !.boundary = Inside({}, {})],
    [Base EXCEPT !.fraction = 0], [Base EXCEPT !.measured = -1]>>

Texts == Plainly \o Challenging \o Spoilt
Contacts == <<<<>>, Regular, Ragged>>
Listed == <<Mixed, Dissent, Shared, Pages, Wild>>
Vouched == Sources \ {Unregistered}

Run(d, f, v, t, m) == [document |-> d, file |-> f, events |-> v, trusted |-> t,
                       measured |-> m]
Plain1 == 1..Len(Plainly)
Challenge1 == Len(Plainly) + 1 .. Len(Plainly) + Len(Challenging)
All == {Run(d, f, v, Vouched, Absent) : d \in Plain1, f \in 1..3, v \in 1..3}
       \cup {Run(d, f, 1, Vouched, m) :
                d \in Challenge1, f \in {1, 4}, m \in {Absent, 0, 2, 3, -1}}
       \cup {Run(d, 4, 1, Vouched, Absent) : d \in DOMAIN Texts}
       \cup {Run(d, 1, 2, {cur1}, Absent) : d \in Plain1}
       \cup {Run(1, 5, 1, Vouched, Absent)}
Later == {Run(1, 3, 1, Vouched, Absent)}
Inputs == [b \in All |-> [b EXCEPT !.document = Texts[@], !.file = Listed[@],
                                   !.events = Contacts[@]]]
===============================================================================
