------------------------- MODULE MCSuricataExporter -------------------------
(* Instances of SuricataExporter for TLC.                                    *)
EXTENDS SuricataExporter, TLC

CONSTANTS d1, d2, d3, t1, t2

Deny == [action |-> "firewall_deny", type |-> "ip", pair |-> FALSE,
         client |-> FALSE, ceiling |-> FALSE, mode |-> "ENFORCE"]
PairLimit == [Deny EXCEPT !.action = "rate_limit", !.pair = TRUE,
                          !.client = TRUE, !.ceiling = TRUE]

(* Two addresses whose hashes are neighbours, and a pair-scoped rate limit.   *)
TwoDenies == (d1 :> Deny) @@ (d2 :> Deny) @@ (d3 :> PairLimit)
Neighbours == (d1 :> 0) @@ (d2 :> 1) @@ (d3 :> 0)
Nets == {{d1, d2, d3}, {d2}}
=============================================================================
