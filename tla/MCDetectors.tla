---------------------------- MODULE MCDetectors -----------------------------
(* Instances of Detectors for TLC.                                           *)
EXTENDS Detectors

Obs(s, d, t, x) == [src |-> s, dst |-> d, step |-> t, x |-> x]
Flow(o, i) == [out |-> o, in |-> i]
Query(e, n) == [encoded |-> e, chars |-> n]
Hello(s, c, b) == [sni |-> s, covered |-> c, bareAddress |-> b]

(* Beacons: two pairs, a regular interval and one within the tolerance, a      *)
(* clock that steps back and an event whose two instants disagree.             *)
SmallAlphabet ==
    [f \in AllFamilies |->
        CASE f = "beacon" ->
               {Obs("a", "x", t, TRUE) : t \in {-5, 10, 12}}
               \cup {Obs("a", "x", 10, FALSE), Obs("a", "y", 5, TRUE)}
          [] f = "novelty" ->
               {Obs("a", d, t, TRUE) : d \in {"x", "y", "z"}, t \in {-1, 1, 4}}
          [] f = "dga" ->
               {Obs("a", d[1], t, d[2]) : t \in {-1, 1, 4},
                   d \in {<<"x", "high">>, <<"y", "low">>, <<"z", "medium">>}}
          [] f = "tunnel" ->
               {Obs(s, "q", t, Query(e, 60)) :
                   s \in {"a", "b"}, t \in {1, 4}, e \in BOOLEAN}
          [] f = "fastflux" ->
               {Obs("r", d, t, x) : d \in {"x", "y"}, t \in {1, 4},
                                    x \in {"1", "2"}}
          [] f = "volume" ->
               {Obs("a", d, t, x) : d \in {"x", "y", "z"}, t \in {0, 2},
                                    x \in {Flow(6, 1), Flow(4, 4)}}
          [] f = "tls" ->
               {Obs("a", d, 1, x) : d \in {"x", "y"},
                   x \in {Hello(TRUE, FALSE, FALSE), Hello(TRUE, TRUE, FALSE),
                          Hello(FALSE, FALSE, TRUE)}}
          [] f = "sync" ->
               {Obs(s, d, t, TRUE) : s \in {"a", "b"}, d \in {"x", "y"},
                                     t \in {-1, 1, 3}}]
SmallStream ==
    [f \in AllFamilies |-> IF f = "beacon" THEN 8
                           ELSE IF f \in {"tls", "sync", "volume"} THEN 4 ELSE 5]
SmallCaps ==
    [f \in AllFamilies |-> IF f \in {"novelty", "dga", "volume"} THEN 2 ELSE 1]
=============================================================================
