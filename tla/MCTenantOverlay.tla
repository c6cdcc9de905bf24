--------------------------- MODULE MCTenantOverlay ---------------------------
(* Instances of TenantOverlay for TLC: a domain under the boundary, one      *)
(* beside it, a wildcard and an address; the weights are the shipped ones.   *)
EXTENDS TenantOverlay, TLC

CONSTANTS
    corp, sub, other, wild, addr, net,           \* names
    cur1, cur2, loc, ann,                        \* sources
    now, old,                                    \* instants
    enforce, deep, shadow, emergency, prefixes,  \* global policies
    strict, wide, narrow                         \* overlays

Type == [n \in Names |-> CASE n = addr -> "ip" [] n = net -> "cidr" [] OTHER -> "fqdn"]
Under == [n \in Names |->
             CASE n = corp -> {corp, sub, wild} \cap Names
               [] n = net -> {net, addr} \cap Names
               [] OTHER -> {n}]

Class == [s \in Sources |-> CASE s = loc -> "local" [] s = ann -> "annotation"
                              [] OTHER -> "curated"]
Upstream == [s \in Sources |-> s]

Family == [k \in Kinds |-> CASE k = "behavioral_beacon_periodicity" -> "beacon_periodicity"
                             [] k = "behavioral_dga_likelihood" -> "dga_likelihood"
                             [] OTHER -> "none"]
Need == [k \in Kinds |-> IF k = "two_curated_sources" THEN 2 ELSE 0]

W(m, s, ip) == [m |-> m, s |-> s, ip |-> ip]
Fallback == [k \in Kinds |->
    CASE k = "recent" -> W(25, 15, 15)
      [] k = "bounded_scope" -> W(0, 20, 20)
      [] k = "verified_rollback" -> W(0, 15, 15)
      [] k = "dedicated_use" -> W(0, 25, 25)
      [] k = "exactness" -> W(10, 25, 25)
      [] k = "shared_cdn" -> W(0, 0, -45)
      [] OTHER -> W(0, 0, 0)]
Table == [c \in Classes |-> [k \in Kinds |->
    CASE c = "curated" /\ k = "curated_source" -> W(25, 0, 0)
      [] c = "curated" /\ k = "two_curated_sources" -> W(45, 0, 0)
      [] c = "curated" /\ k = "contradictory_benign" -> W(-35, 0, 0)
      [] c = "local" /\ k = "direct_local_detection" -> W(35, 10, 15)
      [] c = "local" /\ k = "behavioral_beacon_periodicity" -> W(20, 10, 10)
      [] c = "local" /\ k = "behavioral_dga_likelihood" -> W(15, 0, 0)
      [] c \in {"curated", "local"} -> Fallback[k]
      [] OTHER -> W(0, 0, 0)]]

R(kind, source, at, detail) ==
    [kind |-> kind, source |-> source, at |-> at, detail |-> detail]
Curated == R("curated_source", cur1, now, "none")
Detected == R("direct_local_detection", loc, now, "session")
Noted == R("exactness", ann, now, "session")
SeenOf == [n \in Targets |->
    CASE n = wild -> {Curated, Detected, R("two_curated_sources", cur2, now, "none")}
      [] n = addr -> {Curated, Detected, R("dedicated_use", loc, now, "none"),
                      R("shared_cdn", loc, now, "none")}
      [] n = other -> {Curated, Detected, R("direct_local_detection", loc, old, "none")}
      [] n = sub -> {Curated, Detected, Noted,
                     R("contradictory_benign", cur1, now, "none"),
                     R("behavioral_beacon_periodicity", loc, now, "client")}]

F(m, s) == [m |-> m, s |-> s]
NoFloors == [r \in {"L1", "L2", "L4", "L5"} |-> NoFloor]
LadderFloors == [L1 |-> F(20, 0), L2 |-> F(35, 0), L4 |-> F(55, 5), L5 |-> F(60, 40)]
Entries(n, expired) == <<[name |-> n, applies |-> TRUE, expired |-> expired]>>
Inside(domains, addresses) ==
    [domains |-> domains \cap Names, prefixes |-> addresses \cap Names]
Base == [mode |-> "ENFORCE", open |-> FALSE, boundary |-> Inside({corp}, {}), allow |-> <<>>,
         observe |-> 20, floors |-> LadderFloors, envelope |-> 64, families |-> {},
         rateFamilies |-> 2, denyFamilies |-> 3, external |-> TRUE,
         behavioralCap |-> 60, wildcards |-> FALSE, dedicated |-> {}, rollback |-> {}]
Text == [c \in Contents |->
    CASE c = enforce -> Base
      [] c = deep -> [Base EXCEPT !.boundary = Inside({sub, wild}, {net}),
                                  !.allow = Entries(wild, TRUE), !.envelope = 2]
      [] c = shadow -> [Base EXCEPT !.mode = "SHADOW", !.open = TRUE,
                           !.boundary = Inside({}, {}), !.allow = Entries(sub, FALSE),
                           !.dedicated = {addr} \cap Names]
      [] c = emergency -> [Base EXCEPT !.mode = "EMERGENCY"]
      [] c = prefixes -> [Base EXCEPT !.boundary = Inside({}, {net})]]

Blank == [mode |-> "UNSET", open |-> FALSE, boundary |-> Inside({}, {}),
          allow |-> <<>>, observe |-> 0, floors |-> NoFloors, envelope |-> 999,
          families |-> {}, rateFamilies |-> 0, denyFamilies |-> 0, external |-> FALSE,
          behavioralCap |-> 999, wildcards |-> TRUE, dedicated |-> {}, rollback |-> {}]
Over == [o \in Overlays |->
    CASE o = strict -> [Blank EXCEPT !.observe = 40, !.floors.L4 = F(90, 0),
                                     !.envelope = 2]
      [] o = wide -> [Blank EXCEPT !.mode = "EMERGENCY", !.open = TRUE,
                         !.allow = Entries(sub, FALSE), !.boundary = Inside({other, corp}, {}),
                         !.floors.L2 = F(1, 0)]
      [] o = narrow -> [Blank EXCEPT !.mode = "SHADOW",
                           !.boundary = Inside({sub, other}, {addr})]]
==============================================================================
