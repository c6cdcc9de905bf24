----------------------------- MODULE Detectors ------------------------------
(***************************************************************************)
(* The eight behavioral detectors.  Each folds one kind of observation into  *)
(* a bounded table and now and then emits a detection; a detector whose      *)
(* table overflows is degraded, and from then on inert.  One detector runs   *)
(* here, beside a twin that differs only in having no bound, on a stream of  *)
(* observations whose clock usually advances but may also step back.         *)
(*                                                                          *)
(* An observation is [src, dst, step, x]: who, what (a destination, a        *)
(* domain), how far its epoch is from the previous one, and a payload of the *)
(* family.  A detector is [table, aux, degraded]; "aux" is what a family     *)
(* keeps beside its table.  Thresholds are constants; entropy is abstracted  *)
(* to the band a label falls in.                                             *)
(***************************************************************************)
EXTENDS Integers, FiniteSets, SequencesExt, TLC

CONSTANTS
    Families,        \* the families considered, one of them enabled
    Alphabet,        \* [Families -> SUBSET of observations]
    MaxStream,       \* bound: [Families -> Nat], observations per behavior
    Cap,             \* [Families -> Nat]: max_windows, max_entries, ...
    MaxEvents,       \* max_events of the beacon detector
    MinEvents, Slack,            \* its gaps needed, and buffered beyond that
    MinMedian, MaxMedian, Tol,   \* its interval range; Tol in millionths
    Ttl,                         \* retention of novelty, DGA, TLS and sync
    TunnelWindow, TunnelMin, TunnelShare, TunnelBytes, TunnelAge,
    MaxAnswers, MinAnswers, FluxWindow, FluxKept,
    VolumeWindow, MinBytes, MinDiversity,
    SyncWindow, MinHosts

AllFamilies == {"beacon", "novelty", "dga", "tunnel", "fastflux", "volume",
                "tls", "sync"}
Unbounded == 1000       \* more than any stream fills

ASSUME DetectorAssumption ==
    /\ Families \subseteq AllFamilies
    /\ MinEvents \in Nat /\ MinEvents >= 3
    /\ {Slack, MaxEvents, Ttl} \subseteq Nat
    /\ MinMedian \in Nat \ {0} /\ MaxMedian \in Nat
    /\ {Tol, TunnelAge, MaxAnswers, VolumeWindow, SyncWindow, MinHosts} \subseteq Int
    /\ \A f \in Families : /\ Cap[f] \in Nat /\ MaxStream[f] \in 0..Unbounded
                           /\ \A o \in Alphabet[f] :
                                  o.step \in Int /\ (f = "volume" => o.x.out \in Nat)

VARIABLES
    family,     \* the enabled family
    stream,     \* the observations so far, with their epochs
    bounded,    \* the detector
    ideal,      \* its unbounded twin
    alerts,     \* the detections of the detector, oldest first
    extra       \* the detector has detected what its twin has not

vars == <<family, stream, bounded, ideal, alerts, extra>>

(* "aux" counts the contacts of the beacon detector, and is the destinations  *)
(* of each host for the volume detector.                                      *)
Fresh(f) == [table |-> <<>>, aux |-> IF f = "volume" THEN <<>> ELSE 0,
             degraded |-> FALSE]

(* Result of an observation: the detector afterwards, and the detection      *)
(* (its "facts" are the counts it reports), if there is one.                 *)
Quiet(d) == [det |-> d, out |-> <<>>]
Alert(d, e, facts) == [det |-> d, out |->
    <<[src |-> e.src, dst |-> e.dst, epoch |-> e.epoch, facts |-> facts]>>]
AlertIf(cond, d, e, facts) == IF cond THEN Alert(d, e, facts) ELSE Quiet(d)

Put(t, k, v) == [j \in DOMAIN t \cup {k} |-> IF j = k THEN v ELSE t[j]]
At(t, k, new) == IF k \in DOMAIN t THEN t[k] ELSE new
Kept(d, table, aux) == [table |-> table, aux |-> aux, degraded |-> d.degraded]
With(d, k, v) == Kept(d, Put(d.table, k, v), d.aux)

(* A key that is not in a full table is shed and the detector marked.  A      *)
(* definition whose name ends in Bug is the next one with a plausible mistake *)
(* in it.                                                                     *)
Full(t, k, cap) == k \notin DOMAIN t /\ Cardinality(DOMAIN t) >= cap
DegradeBug(d) == [d EXCEPT !.table = <<>>]
Degrade(d) == [table |-> d.table, aux |-> d.aux, degraded |-> TRUE]

-----------------------------------------------------------------------------
(* BD-1, beacon periodicity.  A window holds the last epoch, the buffered    *)
(* gaps, the number of gaps ever and that number at its last emission.       *)

Whole == 1000000    \* shares and tolerances are in millionths
Abs(n) == IF n < 0 THEN -n ELSE n
LastOf(s, n) == SubSeq(s, IF Len(s) > n THEN Len(s) - n + 1 ELSE 1, Len(s))

Median(gaps) ==
    LET sorted == SortSeq(gaps, <)
        n == Len(sorted)  mid == n \div 2
    IN
    IF n % 2 = 1 THEN sorted[mid + 1] ELSE (sorted[mid] + sorted[mid + 1]) \div 2

Periodic(gaps) ==
    LET m == Median(gaps) IN
    /\ m \in MinMedian..MaxMedian
    /\ \A i \in DOMAIN gaps : (Abs(gaps[i] - m) * Whole) \div m <= Tol

(* A gap that advances the pair's clock is folded into its window.           *)
FoldGap(w, epoch) ==
    [last |-> epoch, total |-> w.total + 1, emitted |-> w.emitted,
     gaps |-> LastOf(Append(w.gaps, epoch - w.last), MinEvents + Slack)]
DueBug(w) == w.total >= MinEvents
Due(w) == w.total >= MinEvents /\ w.total - w.emitted >= MinEvents

Reported(w) == [last |-> w.last, total |-> w.total, emitted |-> w.total, gaps |-> w.gaps]

(* A new pair is shed when the table is full; the detector stops, its table  *)
(* emptied, once maxEvents contacts were counted.                            *)
Beacon(d, e, cap, maxEvents) ==
    LET pair == <<e.src, e.dst>>
        counted(table) == Kept(d, table, d.aux + 1)
        window == [last |-> e.epoch, gaps |-> <<>>, total |-> 0, emitted |-> 0]
        w == FoldGap(d.table[pair], e.epoch)
    IN
    IF ~e.x THEN Quiet(d)                    \* epoch and ISO instant disagree
    ELSE IF d.aux >= maxEvents THEN Quiet(Degrade(Kept(d, <<>>, d.aux)))
    ELSE IF Full(d.table, pair, cap) THEN Quiet(d)
    ELSE IF pair \notin DOMAIN d.table
         THEN Quiet(counted(Put(d.table, pair, window)))
    ELSE IF e.epoch <= d.table[pair].last THEN Quiet(counted(d.table))
    ELSE IF Due(w) /\ Periodic(w.gaps)
         THEN Alert(counted(Put(d.table, pair, Reported(w))), e, w.total)
    ELSE Quiet(counted(Put(d.table, pair, w)))

(* BD-6, first-seen novelty: a destination not in the table, or whose row is *)
(* older than the retention.  A full table stops the detector even when the  *)
(* destination has a row to renew.                                           *)
Expired(t, k, epoch) == k \in DOMAIN t => epoch - t[k] > Ttl
Novelty(d, e, cap) ==
    IF ~Expired(d.table, e.dst, e.epoch) THEN Quiet(d)
    ELSE IF Cardinality(DOMAIN d.table) >= cap THEN Quiet(Degrade(d))
    ELSE Alert(With(d, e.dst, e.epoch), e, 1)

(* BD-2, DGA-like domains: a first-seen name whose leftmost label is not in  *)
(* the low band of entropy (x is the band).                                  *)
Dga(d, e, cap) ==
    IF ~Expired(d.table, e.dst, e.epoch) THEN Quiet(d)
    ELSE IF Full(d.table, e.dst, cap) THEN Quiet(Degrade(d))
    ELSE AlertIf(e.x # "low", With(d, e.dst, e.epoch), e, 1)

(* BD-3, DNS tunneling.  Per client: queries, those whose label is long and  *)
(* near-uniform, and label characters, since the window last started over.   *)
NoQueries == [queries |-> 0, encoded |-> 0, chars |-> 0, last |-> 0]
AgedBug(c, epoch) == FALSE
Aged(c, epoch) == c.queries > 0 /\ c.last > 0 /\ epoch - c.last > TunnelAge
Tunnel(d, e, cap) ==
    LET old == At(d.table, e.src, NoQueries)
        c == IF Aged(old, e.epoch) THEN NoQueries ELSE old
        folded == [queries |-> c.queries + 1, last |-> e.epoch,
                   encoded |-> c.encoded + IF e.x.encoded THEN 1 ELSE 0,
                   chars |-> c.chars + e.x.chars]
        n == IF folded.queries >= TunnelWindow
             THEN [NoQueries EXCEPT !.last = e.epoch] ELSE folded
    IN
    IF Full(d.table, e.src, cap) THEN Quiet(Degrade(d))
    ELSE AlertIf(/\ n.queries >= TunnelMin
                 /\ n.encoded * Whole >= TunnelShare * n.queries
                 /\ n.chars >= TunnelBytes * n.queries,
                 With(d, e.src, n), e, n.queries)

(* BD-4, fast flux.  Per domain: every answer (x) it ever had, and the       *)
(* epochs of its answers, cut to the last few when the oldest has left the   *)
(* window.                                                                   *)
FastFlux(d, e, cap) ==
    LET st == At(d.table, e.dst, [answers |-> {}, epochs |-> <<>>])
        epochs == Append(st.epochs, e.epoch)
        kept == IF e.epoch - epochs[1] > FluxWindow
                THEN LastOf(epochs, FluxKept) ELSE epochs
        new == [answers |-> st.answers \cup {e.x}, epochs |-> kept]
    IN
    IF Full(d.table, e.dst, cap) THEN Quiet(Degrade(d))
    ELSE AlertIf(/\ Len(kept) >= MinAnswers
                 /\ Cardinality(new.answers) >= MaxAnswers,
                 With(d, e.dst, new), e, Cardinality(new.answers))

(* BD-5, volume.  Per pair: bytes out and in (x) since its first flow, and   *)
(* whether the host already knew MinDiversity destinations then.  A flow      *)
(* past the window forgets the pair, itself included.                        *)
Volume(d, e, cap) ==
    LET pair == <<e.src, e.dst>>
        created == pair \notin DOMAIN d.table
        prior == At(d.aux, e.src, {})
        st == At(d.table, pair, [out |-> 0, in |-> 0, first |-> e.epoch,
                  focused |-> MinDiversity > 1
                              /\ Cardinality(prior) >= MinDiversity])
        new == [out |-> st.out + e.x.out, in |-> st.in + e.x.in,
                first |-> st.first, focused |-> st.focused]
        aux == IF created THEN Put(d.aux, e.src, prior \cup {e.dst}) ELSE d.aux
        inverted == new.in > 0 /\ new.out > 5 * new.in
    IN
    IF Full(d.table, pair, cap) THEN Quiet(Degrade(d))
    ELSE IF e.epoch - new.first > VolumeWindow
         THEN Quiet(Kept(d, Restrict(d.table, DOMAIN d.table \ {pair}), aux))
    ELSE AlertIf(new.out >= MinBytes /\ (inverted \/ new.focused),
                 Kept(d, Put(d.table, pair, new), aux), e, new.out)

(* BD-7, TLS metadata: a name the certificate does not cover, or no name     *)
(* towards a bare address.  The row is only a cache: its epoch is set before *)
(* its age is tested, so it never ages.                                      *)
Tls(d, e, cap) ==
    IF Full(d.table, <<e.src, e.dst>>, cap) THEN Quiet(Degrade(d))
    ELSE AlertIf(\/ e.x.sni /\ ~e.x.covered
                 \/ e.x.bareAddress /\ ~e.x.sni,
                 With(d, <<e.src, e.dst>>, e.epoch), e, 1)

(* BD-8, synchronized first contact.  Per destination: its first contact and *)
(* the hosts since, which a contact past the retention starts over.          *)
Sync(d, e, cap) ==
    LET st == At(d.table, e.dst, [first |-> e.epoch, hosts |-> {}])
        new == IF e.epoch - st.first > Ttl
               THEN [first |-> e.epoch, hosts |-> {e.src}]
               ELSE [first |-> st.first, hosts |-> st.hosts \cup {e.src}]
    IN
    IF Full(d.table, e.dst, cap) THEN Quiet(Degrade(d))
    ELSE AlertIf(/\ Cardinality(new.hosts) >= MinHosts
                 /\ e.epoch - new.first <= SyncWindow,
                 With(d, e.dst, new), e, Cardinality(new.hosts))

Observe(f, d, e, cap, maxEvents) ==
    IF d.degraded THEN Quiet(d)
    ELSE CASE f = "beacon" -> Beacon(d, e, cap, maxEvents)
           [] f = "novelty" -> Novelty(d, e, cap)
           [] f = "dga" -> Dga(d, e, cap)
           [] f = "tunnel" -> Tunnel(d, e, cap)
           [] f = "fastflux" -> FastFlux(d, e, cap)
           [] f = "volume" -> Volume(d, e, cap)
           [] f = "tls" -> Tls(d, e, cap)
           [] f = "sync" -> Sync(d, e, cap)
-----------------------------------------------------------------------------
Now == IF stream = <<>> THEN 1 ELSE Last(stream).epoch

Numbered(out) ==
    [k \in DOMAIN out |-> [src |-> out[k].src, dst |-> out[k].dst, epoch |-> out[k].epoch,
                          facts |-> out[k].facts, index |-> Len(stream) + 1]]

Init ==
    /\ family \in Families
    /\ stream = <<>>
    /\ bounded = Fresh(family)
    /\ ideal = Fresh(family)
    /\ alerts = <<>>
    /\ extra = FALSE

(* One observation reaches the detector.                                     *)
Fold(o) ==
    LET e == [src |-> o.src, dst |-> o.dst, x |-> o.x, epoch |-> Now + o.step]
        b == Observe(family, bounded, e, Cap[family], MaxEvents)
        i == Observe(family, ideal, e, Unbounded, Unbounded)
    IN
    /\ Len(stream) < MaxStream[family]
    /\ e.epoch > 0
    /\ stream' = Append(stream, e)
    /\ bounded' = b.det
    /\ ideal' = i.det
    /\ alerts' = alerts \o Numbered(b.out)
    /\ extra' = (extra \/ b.out \notin {<<>>, i.out})
    /\ UNCHANGED family

Next == \E o \in Alphabet[family] : Fold(o)

Spec == Init /\ [][Next]_vars
-----------------------------------------------------------------------------
(* The envelope of every family: its table never outgrows its bound, and a   *)
(* beacon window never outgrows its buffer.                                  *)
TypeOK ==
    /\ family \in Families
    /\ extra \in BOOLEAN
    /\ bounded.degraded \in BOOLEAN /\ ~ideal.degraded
    /\ Cardinality(DOMAIN bounded.table) <= Cap[family]
    /\ family = "beacon" =>
           \A p \in DOMAIN bounded.table :
               Len(bounded.table[p].gaps) <= MinEvents + Slack

(* behavioral.py: degradation only reduces detections, never grows them.     *)
(* Whatever a full table or a spent budget makes a detector do, it detects    *)
(* nothing its unbounded twin does not detect from the same observation.      *)
NeverInflates == ~extra

InOrder == \A i \in 1..(Len(stream) - 1) : stream[i].epoch <= stream[i + 1].epoch

(* Observations up to an alert: of its source, destination or pair, the last *)
(* n of a set, and those of a set no older than its epoch by more than s.    *)
OfSrc(a) == {i \in 1..a.index : stream[i].src = a.src}
OfDst(a) == {i \in 1..a.index : stream[i].dst = a.dst}
OfPair(a) == OfSrc(a) \cap OfDst(a)
Latest(S, n) == {i \in S : Cardinality({j \in S : j >= i}) <= n}
Within(S, a, s) == {i \in S : stream[i].epoch >= a.epoch - s}
Payloads(S) == {stream[i].x : i \in S}

(* The contacts of the alert's pair that advanced its clock.                 *)
Advancing(a) ==
    {i \in OfPair(a) : /\ stream[i].x
                       /\ \A j \in OfPair(a) : j < i /\ stream[j].x =>
                              stream[j].epoch < stream[i].epoch}

(* The sum of the first n points, and the list of those of them at S.        *)
Total(points, n) ==
    LET upTo[k \in 0..n] == IF k = 0 THEN 0 ELSE upTo[k - 1] + points[k]
    IN  upTo[n]
Listed(points, S, n) ==
    LET upTo[k \in 0..n] ==
            IF k = 0 THEN <<>>
            ELSE IF k \in S THEN Append(upTo[k - 1], points[k]) ELSE upTo[k - 1]
    IN  upTo[n]

(* From each of the observations at S, up to the n-th, to the next of them.  *)
Gaps(S, n) ==
    LET before(i) == {j \in S : j < i}
        gap == [i \in 1..n |-> stream[i].epoch - stream[Max(before(i))].epoch]
    IN  Listed(gap, {i \in S : before(i) # {}}, n)
Sent(S, n) == Total([i \in 1..n |-> IF i \in S THEN stream[i].x.out ELSE 0], n)

(* Gaps around one interval: none is off it by more than the tolerance.      *)
Steady(gaps) ==
    LET m == Median(gaps) IN
    /\ MinMedian <= m /\ m <= MaxMedian
    /\ \A i \in DOMAIN gaps :
           LET off == (gaps[i] - m) * Whole IN
           -(Tol + 1) * m < off /\ off < (Tol + 1) * m

(* What an alert claims, said of the observations instead of the tables.     *)
Justified(a) ==
    /\ family = "beacon" => Steady(LastOf(Gaps(Advancing(a), a.index), MinEvents + Slack))
    /\ family = "tunnel" =>
           LET S == Latest(OfSrc(a), a.facts) IN
           /\ Cardinality({i \in S : stream[i].x.encoded}) * Whole
                  >= TunnelShare * Cardinality(S)
           /\ \A i \in S, j \in S :
                  i < j /\ (\A k \in S : k <= i \/ k >= j) =>
                      stream[j].epoch - stream[i].epoch <= TunnelAge
    /\ family = "volume" =>
           (InOrder => a.facts <= Sent(Within(OfPair(a), a, VolumeWindow), a.index))
    /\ family = "sync" =>
           (InOrder => MinHosts <= Cardinality(
                {stream[i].src : i \in Within(OfDst(a), a, SyncWindow)}))
    /\ family = "fastflux" => MaxAnswers <= Cardinality(Payloads(OfDst(a)))

(* An alert is about what was observed: a beacon's gaps, recomputed from the  *)
(* contacts that advanced the clock, are steady;  the queries a tunnel alert *)
(* counts are consecutive ones with no silence longer than the age limit; a   *)
(* volume alert reports no more than the pair sent within the window; enough  *)
(* hosts were seen within the sync window; whatever was shed, rolled over,    *)
(* aged, truncated or rejected before.                                        *)
AlertsAreJustified == alerts # <<>> => Justified(Last(alerts))

(* One piece of behavior is one piece of evidence: a pair is reported again   *)
(* only after MinEvents contacts that were not part of the previous report,   *)
(* and a destination is not reported as new twice within the retention.       *)
AlertsAreFresh ==
    \A k \in 1..(Len(alerts) - 1), n \in 2..Len(alerts) :
        k < n /\ alerts[k].dst = alerts[n].dst =>
            /\ family = "beacon" /\ alerts[k].src = alerts[n].src =>
                   MinEvents <= Cardinality({i \in Advancing(alerts[n]) :
                                                i > alerts[k].index})
            /\ family \in {"novelty", "dga"} =>
                   alerts[n].epoch - alerts[k].epoch > Ttl

(* BD-4: the signal is distinct answers for a domain within a window.  (TLC     *)
(* refutes this one: see the README, Findings.)                                *)
FluxWithinWindow ==
    \A k \in DOMAIN alerts : family = "fastflux" =>
        MaxAnswers <= Cardinality(
            Payloads(Within(OfDst(alerts[k]), alerts[k], FluxWindow)))
=============================================================================
