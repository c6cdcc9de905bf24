---------------------------- MODULE DetectorsProofs ----------------------------
(* Theorems about Detectors, for any alphabet of observations, any bounds and *)
(* thresholds, and streams of any length below the bound that stands for none.*)
EXTENDS Detectors, FiniteSetTheorems, TLAPS

-----------------------------------------------------------------------------
(* Lemmas about one observation.                                             *)

(* What an observation leaves of a detector that takes it: a table that gains *)
(* at most one key, and only if there was room for it.                        *)
Room(d, cap) == ~(Cardinality(DOMAIN d.table) >= cap)
Extends(d, new, cap) ==
    /\ new.degraded = d.degraded
    /\ \/ DOMAIN new.table \subseteq DOMAIN d.table
       \/ Room(d, cap) /\ \E k : DOMAIN new.table \subseteq DOMAIN d.table \cup {k}

LEMMA QuietOutcome ==
  ASSUME NEW d
  PROVE  Quiet(d).det = d /\ Quiet(d).out = <<>>
  BY DEF Quiet

LEMMA AlertOutcome ==
  ASSUME NEW d, NEW e, NEW n
  PROVE  /\ Alert(d, e, n).det = d
         /\ Alert(d, e, n).out = <<[src |-> e.src, dst |-> e.dst, epoch |-> e.epoch,
                                    facts |-> n]>>
  BY DEF Alert

LEMMA AlertIfOutcome ==
  ASSUME NEW d, NEW e, NEW n, NEW c
  PROVE  AlertIf(c, d, e, n).det = d
  BY DEF AlertIf, Alert, Quiet

LEMMA PutTable ==
  ASSUME NEW t, NEW k, NEW v
  PROVE  /\ DOMAIN Put(t, k, v) = DOMAIN t \cup {k} /\ Put(t, k, v)[k] = v
         /\ \A j \in DOMAIN t : j # k => Put(t, k, v)[j] = t[j]
  BY DEF Put

LEMMA KeptFields ==
  ASSUME NEW d, NEW t, NEW aux
  PROVE  /\ Kept(d, t, aux).table = t /\ Kept(d, t, aux).aux = aux
         /\ Kept(d, t, aux).degraded = d.degraded
  BY DEF Kept

LEMMA WithFields ==
  ASSUME NEW d, NEW k, NEW v
  PROVE  With(d, k, v).degraded = d.degraded /\ With(d, k, v).table = Put(d.table, k, v)
  BY DEF With, Kept

LEMMA WithExtends ==
  ASSUME NEW d, NEW k, NEW v, NEW cap, ~Full(d.table, k, cap)
  PROVE  Extends(d, With(d, k, v), cap)
  <1>1. k \in DOMAIN d.table \/ Room(d, cap)
    BY DEF Full, Room
  <1>2. With(d, k, v).degraded = d.degraded
        /\ DOMAIN With(d, k, v).table = DOMAIN d.table \cup {k}
    BY DEF With, Kept, Put
  <1> QED
    BY <1>1, <1>2 DEF Extends

(* A family either takes an observation as it would with any other bound that *)
(* has room, or is degraded by it and says nothing.                           *)
Sheds(d, r, other, cap) ==
    \/ r = Quiet(Degrade(d)) /\ ~Room(d, cap)
    \/ r = other /\ Extends(d, r.det, cap)

LEMMA NoveltySheds ==
  ASSUME NEW d, NEW e, NEW cap, Room(d, Unbounded)
  PROVE  Sheds(d, Novelty(d, e, cap), Novelty(d, e, Unbounded), cap)
  <1>1. CASE ~Expired(d.table, e.dst, e.epoch)
    <2>1. Novelty(d, e, cap) = Quiet(d) /\ Novelty(d, e, Unbounded) = Quiet(d)
      BY <1>1 DEF Novelty
    <2>2. Extends(d, d, cap)
      <3>1. e.dst \in DOMAIN d.table
        BY <1>1 DEF Expired
      <3> QED
        BY <3>1 DEF Extends
    <2> QED
      BY <2>1, <2>2, QuietOutcome DEF Sheds
  <1>2. CASE Expired(d.table, e.dst, e.epoch)
    <2>1. CASE Room(d, cap)
      <3>1. /\ Novelty(d, e, cap) = Alert(With(d, e.dst, e.epoch), e, 1)
            /\ Novelty(d, e, Unbounded) = Alert(With(d, e.dst, e.epoch), e, 1)
        BY <1>2, <2>1 DEF Novelty, Room
      <3>2. Extends(d, With(d, e.dst, e.epoch), cap)
        BY <2>1, WithExtends DEF Full, Room
      <3>3. Alert(With(d, e.dst, e.epoch), e, 1).det = With(d, e.dst, e.epoch)
        BY AlertOutcome
      <3> QED
        BY <3>1, <3>2, <3>3 DEF Sheds
    <2>2. CASE ~Room(d, cap)
      BY <1>2, <2>2 DEF Novelty, Room, Sheds
    <2> QED
      BY <2>1, <2>2
  <1> QED
    BY <1>1, <1>2

LEMMA DgaSheds ==
  ASSUME NEW d, NEW e, NEW cap, Room(d, Unbounded)
  PROVE  Sheds(d, Dga(d, e, cap), Dga(d, e, Unbounded), cap)
  <1>1. CASE ~Expired(d.table, e.dst, e.epoch)
    <2>1. Dga(d, e, cap) = Quiet(d) /\ Dga(d, e, Unbounded) = Quiet(d)
      BY <1>1 DEF Dga
    <2>2. Extends(d, d, cap)
      <3>1. e.dst \in DOMAIN d.table
        BY <1>1 DEF Expired
      <3> QED
        BY <3>1 DEF Extends
    <2> QED
      BY <2>1, <2>2, QuietOutcome DEF Sheds
  <1>2. CASE Expired(d.table, e.dst, e.epoch)
    <2>1. CASE Full(d.table, e.dst, cap)
      BY <1>2, <2>1 DEF Dga, Sheds, Full, Room
    <2>2. CASE ~Full(d.table, e.dst, cap)
      <3>1. ~Full(d.table, e.dst, Unbounded)
        BY DEF Full, Room
      <3>2. \A c : ~Full(d.table, e.dst, c) =>
                Dga(d, e, c) = AlertIf(e.x # "low", With(d, e.dst, e.epoch), e, 1)
        BY <1>2 DEF Dga
      <3>3. AlertIf(e.x # "low", With(d, e.dst, e.epoch), e, 1).det = With(d, e.dst, e.epoch)
        BY AlertIfOutcome
      <3> QED
        BY <2>2, <3>1, <3>2, <3>3, WithExtends DEF Sheds
    <2> QED
      BY <2>1, <2>2
  <1> QED
    BY <1>1, <1>2

LEMMA TunnelSheds ==
  ASSUME NEW d, NEW e, NEW cap, Room(d, Unbounded)
  PROVE  Sheds(d, Tunnel(d, e, cap), Tunnel(d, e, Unbounded), cap)
  <1>1. CASE Full(d.table, e.src, cap)
    BY <1>1 DEF Tunnel, Sheds, Full, Room
  <1>2. CASE ~Full(d.table, e.src, cap)
    <2>1. ~Full(d.table, e.src, Unbounded)
      BY DEF Full, Room
    <2>2. Tunnel(d, e, cap) = Tunnel(d, e, Unbounded)
      BY <1>2, <2>1 DEF Tunnel
    <2>3. PICK v : Tunnel(d, e, cap).det = With(d, e.src, v)
      BY <1>2 DEF Tunnel, AlertIf, Alert, Quiet
    <2> QED
      BY <1>2, <2>2, <2>3, WithExtends DEF Sheds
  <1> QED
    BY <1>1, <1>2

LEMMA FastFluxSheds ==
  ASSUME NEW d, NEW e, NEW cap, Room(d, Unbounded)
  PROVE  Sheds(d, FastFlux(d, e, cap), FastFlux(d, e, Unbounded), cap)
  <1>1. CASE Full(d.table, e.dst, cap)
    BY <1>1 DEF FastFlux, Sheds, Full, Room
  <1>2. CASE ~Full(d.table, e.dst, cap)
    <2>1. ~Full(d.table, e.dst, Unbounded)
      BY DEF Full, Room
    <2>2. FastFlux(d, e, cap) = FastFlux(d, e, Unbounded)
      BY <1>2, <2>1 DEF FastFlux
    <2>3. PICK v : FastFlux(d, e, cap).det = With(d, e.dst, v)
      BY <1>2 DEF FastFlux, AlertIf, Alert, Quiet
    <2> QED
      BY <1>2, <2>2, <2>3, WithExtends DEF Sheds
  <1> QED
    BY <1>1, <1>2

LEMMA TlsSheds ==
  ASSUME NEW d, NEW e, NEW cap, Room(d, Unbounded)
  PROVE  Sheds(d, Tls(d, e, cap), Tls(d, e, Unbounded), cap)
  <1>1. CASE Full(d.table, <<e.src, e.dst>>, cap)
    BY <1>1 DEF Tls, Sheds, Full, Room
  <1>2. CASE ~Full(d.table, <<e.src, e.dst>>, cap)
    <2>1. ~Full(d.table, <<e.src, e.dst>>, Unbounded)
      BY DEF Full, Room
    <2>2. Tls(d, e, cap) = Tls(d, e, Unbounded)
      BY <1>2, <2>1 DEF Tls
    <2>3. PICK v : Tls(d, e, cap).det = With(d, <<e.src, e.dst>>, v)
      BY <1>2 DEF Tls, AlertIf, Alert, Quiet
    <2> QED
      BY <1>2, <2>2, <2>3, WithExtends DEF Sheds
  <1> QED
    BY <1>1, <1>2

LEMMA SyncSheds ==
  ASSUME NEW d, NEW e, NEW cap, Room(d, Unbounded)
  PROVE  Sheds(d, Sync(d, e, cap), Sync(d, e, Unbounded), cap)
  <1>1. CASE Full(d.table, e.dst, cap)
    BY <1>1 DEF Sync, Sheds, Full, Room
  <1>2. CASE ~Full(d.table, e.dst, cap)
    <2>1. ~Full(d.table, e.dst, Unbounded)
      BY DEF Full, Room
    <2>2. Sync(d, e, cap) = Sync(d, e, Unbounded)
      BY <1>2, <2>1 DEF Sync
    <2>3. PICK v : Sync(d, e, cap).det = With(d, e.dst, v)
      BY <1>2 DEF Sync, AlertIf, Alert, Quiet
    <2> QED
      BY <1>2, <2>2, <2>3, WithExtends DEF Sheds
  <1> QED
    BY <1>1, <1>2

LEMMA VolumeSheds ==
  ASSUME NEW d, NEW e, NEW cap, Room(d, Unbounded)
  PROVE  Sheds(d, Volume(d, e, cap), Volume(d, e, Unbounded), cap)
  <1> DEFINE pair == <<e.src, e.dst>>
  <1>1. CASE Full(d.table, pair, cap)
    BY <1>1 DEF Volume, Sheds, Full, Room
  <1>2. CASE ~Full(d.table, pair, cap)
    <2>1. ~Full(d.table, pair, Unbounded)
      BY DEF Full, Room
    <2>2. Volume(d, e, cap) = Volume(d, e, Unbounded)
      BY <1>2, <2>1 DEF Volume
    <2>3. PICK v, aux :
              \/ Volume(d, e, cap).det = Kept(d, Restrict(d.table, DOMAIN d.table \ {pair}), aux)
              \/ Volume(d, e, cap).det = Kept(d, Put(d.table, pair, v), aux)
      BY <1>2 DEF Volume, AlertIf, Alert, Quiet
    <2>4. DOMAIN Restrict(d.table, DOMAIN d.table \ {pair}) = DOMAIN d.table \ {pair}
      BY DEF Restrict
    <2>5. Extends(d, Volume(d, e, cap).det, cap)
      <3>1. pair \in DOMAIN d.table \/ Room(d, cap)
        BY <1>2 DEF Full, Room
      <3>2. /\ Volume(d, e, cap).det.degraded = d.degraded
            /\ DOMAIN Volume(d, e, cap).det.table \subseteq DOMAIN d.table \cup {pair}
        BY <2>3, <2>4 DEF Kept, Put
      <3> QED
        BY <3>1, <3>2 DEF Extends
    <2> QED
      BY <2>2, <2>5 DEF Sheds
  <1> QED
    BY <1>1, <1>2


LEMMA ObserveSheds ==
  ASSUME NEW f \in AllFamilies, f # "beacon", NEW d, ~d.degraded, NEW e,
         NEW cap, NEW m, NEW n, Room(d, Unbounded)
  PROVE  Sheds(d, Observe(f, d, e, cap, m), Observe(f, d, e, Unbounded, n), cap)
  <1>1. CASE f = "novelty"
    <2>1. \A c, k : Observe(f, d, e, c, k) = Novelty(d, e, c)
      BY <1>1, Zenon DEF Observe
    <2> QED
      BY <2>1, NoveltySheds
  <1>2. CASE f = "dga"
    <2>1. \A c, k : Observe(f, d, e, c, k) = Dga(d, e, c)
      BY <1>2, Zenon DEF Observe
    <2> QED
      BY <2>1, DgaSheds
  <1>3. CASE f = "tunnel"
    <2>1. \A c, k : Observe(f, d, e, c, k) = Tunnel(d, e, c)
      BY <1>3, Zenon DEF Observe
    <2> QED
      BY <2>1, TunnelSheds
  <1>4. CASE f = "fastflux"
    <2>1. \A c, k : Observe(f, d, e, c, k) = FastFlux(d, e, c)
      BY <1>4, Zenon DEF Observe
    <2> QED
      BY <2>1, FastFluxSheds
  <1>5. CASE f = "volume"
    <2>1. \A c, k : Observe(f, d, e, c, k) = Volume(d, e, c)
      BY <1>5, Zenon DEF Observe
    <2> QED
      BY <2>1, VolumeSheds
  <1>6. CASE f = "tls"
    <2>1. \A c, k : Observe(f, d, e, c, k) = Tls(d, e, c)
      BY <1>6, Zenon DEF Observe
    <2> QED
      BY <2>1, TlsSheds
  <1>7. CASE f = "sync"
    <2>1. \A c, k : Observe(f, d, e, c, k) = Sync(d, e, c)
      BY <1>7, Zenon DEF Observe
    <2> QED
      BY <2>1, SyncSheds
  <1> QED
    BY <1>1, <1>2, <1>3, <1>4, <1>5, <1>6, <1>7 DEF AllFamilies

LEMMA BeaconObserves ==
  ASSUME NEW d, ~d.degraded, NEW e, NEW cap, NEW m
  PROVE  Observe("beacon", d, e, cap, m) = Beacon(d, e, cap, m)
  BY Zenon DEF Observe

LEMMA Growth ==
  ASSUME NEW d, NEW new, NEW cap \in Nat, Extends(d, new, cap), IsFiniteSet(DOMAIN d.table)
  PROVE  /\ IsFiniteSet(DOMAIN new.table) /\ Cardinality(DOMAIN new.table) \in Nat
         /\ Cardinality(DOMAIN new.table) <= Cardinality(DOMAIN d.table) + 1
         /\ Cardinality(DOMAIN d.table) <= cap => Cardinality(DOMAIN new.table) <= cap
  <1> DEFINE D == DOMAIN d.table
             N == DOMAIN new.table
  <1>1. Cardinality(D) \in Nat
    BY FS_CardinalityType
  <1>2. CASE N \subseteq D
    <2>1. IsFiniteSet(N) /\ Cardinality(N) <= Cardinality(D)
      BY <1>2, FS_Subset
    <2>2. Cardinality(N) \in Nat
      BY <2>1, FS_CardinalityType
    <2> HIDE DEF D, N
    <2>3. /\ Cardinality(N) <= Cardinality(D) + 1
          /\ Cardinality(D) <= cap => Cardinality(N) <= cap
      BY <1>1, <2>1, <2>2
    <2> QED
      BY <2>1, <2>2, <2>3 DEF D, N
  <1>3. CASE ~(N \subseteq D)
    <2>1. PICK k : N \subseteq D \cup {k}
      BY <1>3 DEF Extends
    <2>2. ~(Cardinality(D) >= cap)
      BY <1>3 DEF Extends, Room
    <2> DEFINE W == D \cup {k}
    <2>3. IsFiniteSet(W) /\ Cardinality(W) = IF k \in D THEN Cardinality(D) ELSE Cardinality(D) + 1
      BY FS_AddElement
    <2>4. IsFiniteSet(N) /\ Cardinality(N) <= Cardinality(W)
      BY <2>1, <2>3, FS_Subset
    <2>5. Cardinality(N) \in Nat /\ Cardinality(W) \in Nat
      BY <2>3, <2>4, FS_CardinalityType
    <2> HIDE DEF D, N, W
    <2>6. /\ Cardinality(N) <= Cardinality(D) + 1
          /\ Cardinality(D) <= cap => Cardinality(N) <= cap
      BY <1>1, <2>2, <2>3, <2>4, <2>5
    <2> QED
      BY <2>4, <2>5, <2>6 DEF D, N
  <1> QED
    BY <1>2, <1>3

LEMMA LastOfBound ==
  ASSUME NEW S, NEW s \in Seq(S), NEW n \in Nat
  PROVE  LastOf(s, n) \in Seq(S) /\ Len(LastOf(s, n)) <= n
  BY DEF LastOf

-----------------------------------------------------------------------------
(* The beacon detector beside its twin.                                      *)

Windows == [last : Int, gaps : Seq(Int), total : Nat, emitted : Nat]
Buffered(w) == w \in Windows /\ Len(w.gaps) <= MinEvents + Slack

(* Every window of the one is a window of the other, and the other has more  *)
(* only when this one is full.                                               *)
Mirrors(b, i, cap) ==
    /\ \A k \in DOMAIN b.table : k \in DOMAIN i.table /\ b.table[k] = i.table[k]
    /\ Room(b, cap) => DOMAIN b.table = DOMAIN i.table

(* What the beacon detector makes of a contact it has room for.              *)
Contact(d, e) ==
    LET pair == <<e.src, e.dst>> IN
    IF pair \notin DOMAIN d.table
    THEN Quiet(Kept(d, Put(d.table, pair,
                  [last |-> e.epoch, gaps |-> <<>>, total |-> 0, emitted |-> 0]), d.aux + 1))
    ELSE IF e.epoch <= d.table[pair].last THEN Quiet(Kept(d, d.table, d.aux + 1))
    ELSE LET w == FoldGap(d.table[pair], e.epoch) IN
         IF Due(w) /\ Periodic(w.gaps)
         THEN Alert(Kept(d, Put(d.table, pair, Reported(w)), d.aux + 1), e, w.total)
         ELSE Quiet(Kept(d, Put(d.table, pair, w), d.aux + 1))

LEMMA BeaconCases ==
  ASSUME NEW d, NEW e, NEW cap, NEW m
  PROVE  Beacon(d, e, cap, m) =
             IF ~e.x THEN Quiet(d)
             ELSE IF d.aux >= m THEN Quiet(Degrade(Kept(d, <<>>, d.aux)))
             ELSE IF Full(d.table, <<e.src, e.dst>>, cap) THEN Quiet(d)
             ELSE Contact(d, e)
  BY Zenon DEF Beacon, Contact

(* A contact changes one window, to the same one wherever it was the same.   *)
LEMMA ContactFields ==
  ASSUME NEW d, NEW e
  PROVE  LET pair == <<e.src, e.dst>>
             r == Contact(d, e)
         IN  /\ r.det.aux = d.aux + 1 /\ r.det.degraded = d.degraded
             /\ DOMAIN r.det.table = DOMAIN d.table \cup {pair}
             /\ \A k \in DOMAIN d.table : k # pair => r.det.table[k] = d.table[k]
  <1> DEFINE pair == <<e.src, e.dst>>
             w == FoldGap(d.table[pair], e.epoch)
  <1>1. \A v : /\ DOMAIN Put(d.table, pair, v) = DOMAIN d.table \cup {pair}
               /\ \A k \in DOMAIN d.table : k # pair => Put(d.table, pair, v)[k] = d.table[k]
    BY DEF Put
  <1>2. \E v : \/ Contact(d, e).det = Kept(d, Put(d.table, pair, v), d.aux + 1)
               \/ pair \in DOMAIN d.table /\ Contact(d, e).det = Kept(d, d.table, d.aux + 1)
    BY DEF Contact, Quiet, Alert
  <1>3. PICK v : \/ Contact(d, e).det = Kept(d, Put(d.table, pair, v), d.aux + 1)
                 \/ pair \in DOMAIN d.table /\ Contact(d, e).det = Kept(d, d.table, d.aux + 1)
    BY <1>2
  <1>4. CASE Contact(d, e).det = Kept(d, Put(d.table, pair, v), d.aux + 1)
    BY <1>1, <1>4 DEF Kept
  <1>5. CASE pair \in DOMAIN d.table /\ Contact(d, e).det = Kept(d, d.table, d.aux + 1)
    BY <1>5 DEF Kept
  <1> QED
    BY <1>3, <1>4, <1>5

LEMMA ContactAgrees ==
  ASSUME NEW b, NEW i, NEW e,
         <<e.src, e.dst>> \in DOMAIN b.table <=> <<e.src, e.dst>> \in DOMAIN i.table,
         <<e.src, e.dst>> \in DOMAIN b.table =>
             b.table[<<e.src, e.dst>>] = i.table[<<e.src, e.dst>>]
  PROVE  /\ Contact(b, e).out = Contact(i, e).out
         /\ Contact(b, e).det.table[<<e.src, e.dst>>]
                = Contact(i, e).det.table[<<e.src, e.dst>>]
  <1> DEFINE pair == <<e.src, e.dst>>
  <1>1. CASE pair \notin DOMAIN b.table
    BY <1>1 DEF Contact, Quiet, Kept, Put
  <1>2. CASE pair \in DOMAIN b.table
    <2>1. PICK w : w = b.table[pair] /\ w = i.table[pair]
      BY <1>2
    <2>2. CASE e.epoch <= w.last
      BY <1>2, <2>1, <2>2 DEF Contact, Quiet, Kept
    <2>3. CASE ~(e.epoch <= w.last)
      <3>1. PICK v : v = FoldGap(w, e.epoch)
        OBVIOUS
      <3>2. CASE Due(v) /\ Periodic(v.gaps)
        <4>1. \A d \in {b, i} :
                  Contact(d, e) = Alert(Kept(d, Put(d.table, pair, Reported(v)), d.aux + 1),
                                        e, v.total)
          BY <1>2, <2>1, <2>3, <3>1, <3>2, Zenon DEF Contact
        <4> QED
          BY <4>1 DEF Alert, Kept, Put
      <3>3. CASE ~(Due(v) /\ Periodic(v.gaps))
        <4>1. \A d \in {b, i} :
                  Contact(d, e) = Quiet(Kept(d, Put(d.table, pair, v), d.aux + 1))
          BY <1>2, <2>1, <2>3, <3>1, <3>3, Zenon DEF Contact
        <4> QED
          BY <4>1 DEF Quiet, Kept, Put
      <3> QED
        BY <3>2, <3>3
    <2> QED
      BY <2>2, <2>3
  <1> QED
    BY <1>1, <1>2


LEMMA ContactBuffered ==
  ASSUME NEW d, NEW e, e.epoch \in Int, \A k \in DOMAIN d.table : Buffered(d.table[k])
  PROVE  \A k \in DOMAIN Contact(d, e).det.table : Buffered(Contact(d, e).det.table[k])
  <1> DEFINE pair == <<e.src, e.dst>>
             new == [last |-> e.epoch, gaps |-> <<>>, total |-> 0, emitted |-> 0]
             w == FoldGap(d.table[pair], e.epoch)
  <1>1. Buffered(new)
    BY DetectorAssumption DEF Buffered, Windows
  <1>2. ASSUME pair \in DOMAIN d.table
        PROVE  Buffered(w) /\ Buffered(Reported(w))
    <2>1. PICK v : v = d.table[pair]
      OBVIOUS
    <2>2. /\ v.last \in Int /\ v.gaps \in Seq(Int) /\ v.total \in Nat /\ v.emitted \in Nat
      BY <1>2, <2>1 DEF Buffered, Windows
    <2>3. PICK n \in Nat : n = MinEvents + Slack
      BY DetectorAssumption
    <2>4. Append(v.gaps, e.epoch - v.last) \in Seq(Int)
      BY <2>2
    <2>5. PICK g : g = LastOf(Append(v.gaps, e.epoch - v.last), n)
      OBVIOUS
    <2>6. g \in Seq(Int) /\ Len(g) <= n
      BY <2>4, <2>5, LastOfBound
    <2>7. w = [last |-> e.epoch, total |-> v.total + 1, emitted |-> v.emitted, gaps |-> g]
      BY <2>1, <2>3, <2>5 DEF FoldGap
    <2> HIDE DEF w
    <2>8. Buffered(w)
      BY <2>2, <2>3, <2>6, <2>7 DEF Buffered, Windows
    <2>9. Reported(w) = [last |-> e.epoch, total |-> v.total + 1, emitted |-> v.total + 1,
                         gaps |-> g]
      BY <2>7 DEF Reported
    <2>10. Buffered(Reported(w))
      BY <2>2, <2>3, <2>6, <2>9 DEF Buffered, Windows
    <2> QED
      BY <2>8, <2>10
  <1> HIDE DEF new, w
  <1>3. \E v : \/ Buffered(v) /\ Contact(d, e).det = Kept(d, Put(d.table, pair, v), d.aux + 1)
               \/ Contact(d, e).det = Kept(d, d.table, d.aux + 1)
    <2>1. CASE pair \notin DOMAIN d.table
      <3>1. Contact(d, e).det = Kept(d, Put(d.table, pair, new), d.aux + 1)
        BY <2>1 DEF Contact, Quiet, new
      <3> QED
        BY <1>1, <3>1
    <2>2. CASE pair \in DOMAIN d.table
      <3>1. \/ Contact(d, e).det = Kept(d, d.table, d.aux + 1)
            \/ Contact(d, e).det = Kept(d, Put(d.table, pair, Reported(w)), d.aux + 1)
            \/ Contact(d, e).det = Kept(d, Put(d.table, pair, w), d.aux + 1)
        BY <2>2 DEF Contact, Quiet, Alert, w
      <3> QED
        BY <1>2, <2>2, <3>1
    <2> QED
      BY <2>1, <2>2
  <1>4. PICK v : \/ Buffered(v) /\ Contact(d, e).det = Kept(d, Put(d.table, pair, v), d.aux + 1)
                 \/ Contact(d, e).det = Kept(d, d.table, d.aux + 1)
    BY <1>3
  <1>5. CASE /\ Buffered(v)
             /\ Contact(d, e).det = Kept(d, Put(d.table, pair, v), d.aux + 1)
    <2>1. Contact(d, e).det.table = Put(d.table, pair, v)
      BY <1>5 DEF Kept
    <2>2. \A k \in DOMAIN Put(d.table, pair, v) :
              IF k = pair THEN Put(d.table, pair, v)[k] = v
              ELSE k \in DOMAIN d.table /\ Put(d.table, pair, v)[k] = d.table[k]
      BY DEF Put
    <2> QED
      BY <1>5, <2>1, <2>2
  <1>6. CASE Contact(d, e).det = Kept(d, d.table, d.aux + 1)
    BY <1>6 DEF Kept
  <1> QED
    BY <1>4, <1>5, <1>6

(* One contact, seen by the detector and by its twin.                        *)
LEMMA BeaconTwins ==
  ASSUME NEW b, NEW i, NEW e, NEW cap \in Nat, NEW m,
         ~b.degraded, Mirrors(b, i, cap), ~i.degraded,
         Room(i, Unbounded), ~(i.aux >= Unbounded)
  PROVE  LET s == Beacon(b, e, cap, m)
             t == Beacon(i, e, Unbounded, Unbounded)
         IN  /\ s.out \in {<<>>, t.out}
             /\ s.det.degraded \/ Mirrors(s.det, t.det, cap)
  <1> DEFINE pair == <<e.src, e.dst>>
             s == Beacon(b, e, cap, m)
             t == Beacon(i, e, Unbounded, Unbounded)
  <1>1. s = IF ~e.x THEN Quiet(b)
            ELSE IF b.aux >= m THEN Quiet(Degrade(Kept(b, <<>>, b.aux)))
            ELSE IF Full(b.table, pair, cap) THEN Quiet(b)
            ELSE Contact(b, e)
    BY BeaconCases
  <1>2. t = IF ~e.x THEN Quiet(i) ELSE Contact(i, e)
    <2>1. ~Full(i.table, pair, Unbounded)
      BY DEF Full, Room
    <2>2. t = IF ~e.x THEN Quiet(i)
              ELSE IF i.aux >= Unbounded THEN Quiet(Degrade(Kept(i, <<>>, i.aux)))
              ELSE IF Full(i.table, pair, Unbounded) THEN Quiet(i)
              ELSE Contact(i, e)
      BY BeaconCases
    <2> QED
      BY <2>1, <2>2
  <1> HIDE DEF s, t
  <1>3. CASE ~e.x
    BY <1>1, <1>2, <1>3, QuietOutcome DEF s, t
  <1>4. CASE e.x /\ b.aux >= m
    <2>1. s = Quiet(Degrade(Kept(b, <<>>, b.aux)))
      BY <1>1, <1>4
    <2>2. s.out = <<>> /\ s.det.degraded
      BY <2>1 DEF Quiet, Degrade
    <2> QED
      BY <2>2 DEF s, t
  <1>5. CASE e.x /\ ~(b.aux >= m) /\ Full(b.table, pair, cap)
    <2>1. s.out = <<>> /\ s.det = b
      BY <1>1, <1>5, QuietOutcome
    <2>2. t = Contact(i, e)
      BY <1>2, <1>5
    <2>3. /\ DOMAIN t.det.table = DOMAIN i.table \cup {pair}
          /\ \A k \in DOMAIN i.table : k # pair => t.det.table[k] = i.table[k]
      BY <2>2, ContactFields
    <2>4. pair \notin DOMAIN b.table /\ ~Room(b, cap)
      BY <1>5 DEF Full, Room
    <2>5. Mirrors(b, t.det, cap)
      BY <2>3, <2>4 DEF Mirrors
    <2> QED
      BY <2>1, <2>5 DEF s, t
  <1>6. CASE e.x /\ ~(b.aux >= m) /\ ~Full(b.table, pair, cap)
    <2>1. s = Contact(b, e) /\ t = Contact(i, e)
      BY <1>1, <1>2, <1>6
    <2>2. /\ pair \in DOMAIN b.table <=> pair \in DOMAIN i.table
          /\ pair \in DOMAIN b.table => b.table[pair] = i.table[pair]
      BY <1>6 DEF Full, Room, Mirrors
    <2>3. s.out = t.out /\ s.det.table[pair] = t.det.table[pair]
      BY <2>1, <2>2, ContactAgrees
    <2>4. /\ DOMAIN t.det.table = DOMAIN i.table \cup {pair}
          /\ \A k \in DOMAIN i.table : k # pair => t.det.table[k] = i.table[k]
          /\ DOMAIN s.det.table = DOMAIN b.table \cup {pair}
          /\ \A k \in DOMAIN b.table : k # pair => s.det.table[k] = b.table[k]
      BY <2>1, ContactFields
    <2>5. \A k \in DOMAIN s.det.table : /\ k \in DOMAIN t.det.table
                                        /\ s.det.table[k] = t.det.table[k]
      BY <2>3, <2>4 DEF Mirrors
    <2>6. ASSUME Room(s.det, cap)
          PROVE  DOMAIN s.det.table = DOMAIN t.det.table
      <3>1. CASE pair \in DOMAIN b.table
        <4>1. DOMAIN s.det.table = DOMAIN b.table
          BY <2>4, <3>1
        <4>2. Room(b, cap)
          BY <2>6, <4>1 DEF Room
        <4> QED
          BY <2>4, <4>2 DEF Mirrors
      <3>2. CASE pair \notin DOMAIN b.table
        <4>1. Room(b, cap)
          BY <1>6, <3>2 DEF Full, Room
        <4> QED
          BY <2>4, <4>1 DEF Mirrors
      <3> QED
        BY <3>1, <3>2
    <2> QED
      BY <2>3, <2>5, <2>6 DEF Mirrors, s, t
  <1> QED
    BY <1>3, <1>4, <1>5, <1>6

(* How far a contact fills the table and the count of contacts.              *)
LEMMA BeaconGrowth ==
  ASSUME NEW d, ~d.degraded, NEW e, NEW cap, NEW m
  PROVE  LET new == Beacon(d, e, cap, m).det
         IN  /\ \/ Extends(d, new, cap)
                \/ DOMAIN new.table = {} /\ new.degraded = TRUE /\ d.aux >= m
             /\ new.aux = d.aux \/ new.aux = d.aux + 1
  <1> DEFINE pair == <<e.src, e.dst>>
             r == Beacon(d, e, cap, m)
             new == r.det
  <1>1. r = IF ~e.x THEN Quiet(d)
            ELSE IF d.aux >= m THEN Quiet(Degrade(Kept(d, <<>>, d.aux)))
            ELSE IF Full(d.table, pair, cap) THEN Quiet(d)
            ELSE Contact(d, e)
    BY BeaconCases
  <1> HIDE DEF r
  <1>2. CASE r = Quiet(d)
    <2>1. new = d
      BY <1>2 DEF Quiet
    <2> QED
      BY <2>1 DEF Extends, r
  <1>3. CASE r = Quiet(Degrade(Kept(d, <<>>, d.aux))) /\ d.aux >= m
    <2>1. new = Degrade(Kept(d, <<>>, d.aux))
      BY <1>3 DEF Quiet
    <2>2. DOMAIN new.table = {} /\ new.degraded = TRUE /\ new.aux = d.aux
      BY <2>1 DEF Degrade, Kept
    <2> QED
      BY <1>3, <2>2 DEF r
  <1>4. CASE r = Contact(d, e) /\ ~Full(d.table, pair, cap)
    <2>1. /\ new.aux = d.aux + 1 /\ new.degraded = d.degraded
          /\ DOMAIN new.table = DOMAIN d.table \cup {pair}
      BY <1>4, ContactFields
    <2>2. pair \in DOMAIN d.table \/ Room(d, cap)
      BY <1>4 DEF Full, Room
    <2> QED
      BY <2>1, <2>2 DEF Extends, r
  <1> QED
    BY <1>1, <1>2, <1>3, <1>4


-----------------------------------------------------------------------------
(* The detector and its twin, fed the same stream.                           *)

Events == {[src |-> o.src, dst |-> o.dst, x |-> o.x, epoch |-> t] :
              o \in UNION {Alphabet[f] : f \in Families}, t \in Int}

Typed ==
    /\ family \in Families /\ stream \in Seq(Events)
    /\ extra \in BOOLEAN /\ bounded.degraded \in BOOLEAN

(* The twin is never full, since the stream is shorter than what it holds.   *)
Roomy ==
    /\ ~ideal.degraded /\ IsFiniteSet(DOMAIN ideal.table)
    /\ Cardinality(DOMAIN ideal.table) \in 0..Len(stream)
    /\ family = "beacon" => ideal.aux \in 0..Len(stream)

Enveloped ==
    /\ IsFiniteSet(DOMAIN bounded.table)
    /\ Cardinality(DOMAIN bounded.table) <= Cap[family]
    /\ family = "beacon" => \A k \in DOMAIN bounded.table : Buffered(bounded.table[k])

(* Until it is degraded a detector is its twin, but for the pairs that the    *)
(* beacon detector sheds.                                                     *)
Beside ==
    ~bounded.degraded => IF family = "beacon" THEN Mirrors(bounded, ideal, Cap[family])
                         ELSE bounded = ideal

IInv == Typed /\ Roomy /\ Enveloped /\ Beside /\ NeverInflates

(* One step: the event, and what detector and twin make of it.               *)
LEMMA FoldStep ==
  ASSUME Typed, NEW o \in Alphabet[family], Fold(o)
  PROVE  \E e \in Events :
             /\ e.x = o.x /\ e.epoch > 0
             /\ stream' = Append(stream, e) /\ family' = family
             /\ Len(stream) < MaxStream[family]
             /\ bounded' = Observe(family, bounded, e, Cap[family], MaxEvents).det
             /\ ideal' = Observe(family, ideal, e, Unbounded, Unbounded).det
             /\ alerts' = alerts \o Numbered(
                    Observe(family, bounded, e, Cap[family], MaxEvents).out)
             /\ extra' = (extra \/ Observe(family, bounded, e, Cap[family], MaxEvents).out
                              \notin {<<>>, Observe(family, ideal, e, Unbounded, Unbounded).out})
  <1> DEFINE e == [src |-> o.src, dst |-> o.dst, x |-> o.x, epoch |-> Now + o.step]
  <1>1. Now \in Int
    <2>1. CASE stream = <<>>
      BY <2>1 DEF Now
    <2>2. CASE stream # <<>>
      <3>1. stream[Len(stream)] \in Events
        BY <2>2 DEF Typed
      <3>2. stream[Len(stream)].epoch \in Int
        BY <3>1 DEF Events
      <3> QED
        BY <2>2, <3>2 DEF Now, Last
    <2> QED
      BY <2>1, <2>2
  <1>2. o.step \in Int
    BY DetectorAssumption DEF Typed
  <1>3. e \in Events
    <2>1. o \in UNION {Alphabet[f] : f \in Families}
      BY DEF Typed
    <2>2. PICK t \in Int : t = Now + o.step
      BY <1>1, <1>2
    <2>3. e = [src |-> o.src, dst |-> o.dst, x |-> o.x, epoch |-> t]
      BY <2>2
    <2> HIDE DEF e
    <2> QED
      BY <2>1, <2>3 DEF Events
  <1>4. /\ e.x = o.x /\ e.epoch > 0
        /\ stream' = Append(stream, e) /\ family' = family
        /\ Len(stream) < MaxStream[family]
        /\ bounded' = Observe(family, bounded, e, Cap[family], MaxEvents).det
        /\ ideal' = Observe(family, ideal, e, Unbounded, Unbounded).det
        /\ alerts' = alerts \o Numbered(
               Observe(family, bounded, e, Cap[family], MaxEvents).out)
        /\ extra' = (extra \/ Observe(family, bounded, e, Cap[family], MaxEvents).out
                         \notin {<<>>, Observe(family, ideal, e, Unbounded, Unbounded).out})
    BY Zenon DEF Fold
  <1> QED
    BY <1>3, <1>4, Zenon

LEMMA Initially ==
  Init => IInv
  <1> SUFFICES ASSUME Init
               PROVE  IInv
    OBVIOUS
  <1>1. /\ bounded.table = <<>> /\ ideal.table = <<>>
        /\ bounded.degraded = FALSE /\ ideal.degraded = FALSE
        /\ family = "beacon" => ideal.aux = 0
        /\ bounded = ideal /\ stream = <<>> /\ family \in Families /\ extra = FALSE
    BY DEF Init, Fresh
  <1>2. DOMAIN bounded.table = {} /\ DOMAIN ideal.table = {}
    BY <1>1
  <1>3. IsFiniteSet({}) /\ Cardinality({}) = 0
    BY FS_EmptySet
  <1>4. /\ IsFiniteSet(DOMAIN bounded.table) /\ Cardinality(DOMAIN bounded.table) = 0
        /\ IsFiniteSet(DOMAIN ideal.table) /\ Cardinality(DOMAIN ideal.table) = 0
    BY <1>2, <1>3
  <1>5. Typed
    <2>1. <<>> \in Seq(Events) /\ FALSE \in BOOLEAN
      OBVIOUS
    <2> QED
      BY <1>1, <2>1, Zenon DEF Typed
  <1>6. Roomy
    BY <1>1, <1>4 DEF Roomy
  <1>7. Enveloped
    <2>1. Cap[family] \in Nat
      BY <1>1, DetectorAssumption
    <2> QED
      BY <1>2, <1>4, <2>1 DEF Enveloped
  <1>8. Beside
    BY <1>1 DEF Beside, Mirrors
  <1>9. NeverInflates
    BY <1>1 DEF NeverInflates
  <1> QED
    BY <1>5, <1>6, <1>7, <1>8, <1>9 DEF IInv

LEMMA StepHolds ==
  ASSUME IInv, NEW o \in Alphabet[family], Fold(o)
  PROVE  IInv'
  <1> USE DEF IInv
  <1>1. PICK e \in Events :
             /\ stream' = Append(stream, e) /\ family' = family
             /\ Len(stream) < MaxStream[family]
             /\ bounded' = Observe(family, bounded, e, Cap[family], MaxEvents).det
             /\ ideal' = Observe(family, ideal, e, Unbounded, Unbounded).det
             /\ alerts' = alerts \o Numbered(
                    Observe(family, bounded, e, Cap[family], MaxEvents).out)
             /\ extra' = (extra \/ Observe(family, bounded, e, Cap[family], MaxEvents).out
                              \notin {<<>>, Observe(family, ideal, e, Unbounded, Unbounded).out})
    BY FoldStep
  <1> DEFINE b == Observe(family, bounded, e, Cap[family], MaxEvents)
             i == Observe(family, ideal, e, Unbounded, Unbounded)
  <1>2. /\ family \in AllFamilies /\ Cap[family] \in Nat /\ MaxStream[family] \in 0..Unbounded
    BY DetectorAssumption DEF Typed
  <1>3. /\ stream' \in Seq(Events) /\ Len(stream) \in Nat /\ Len(stream') = Len(stream) + 1
        /\ Len(stream) < Unbounded
    <2>1. stream \in Seq(Events)
      BY DEF Typed
    <2>2. Len(stream) < Unbounded
      <3>1. PICK n \in Nat : n = Len(stream)
        BY <2>1
      <3>2. PICK k \in 0..Unbounded : k = MaxStream[family]
        BY <1>2
      <3>3. n < k
        BY <1>1, <3>1, <3>2, Zenon
      <3>4. k \in Int /\ k <= Unbounded
        BY DEF Unbounded
      <3>5. PICK top \in Int : top = Unbounded
        BY DEF Unbounded
      <3> QED
        BY <3>1, <3>3, <3>4, <3>5
    <2> QED
      BY <1>1, <2>1, <2>2
  <1>4. Room(ideal, Unbounded) /\ Unbounded \in Nat
    BY <1>3 DEF Roomy, Room, Unbounded
  <1>5. e.epoch \in Int
    BY DEF Events
  <1>6. bounded.degraded => b = Quiet(bounded)
    BY Zenon DEF Observe
  <1> HIDE DEF b, i
  <1>7. bounded' = b.det /\ ideal' = i.det /\ extra' = (extra \/ b.out \notin {<<>>, i.out})
    BY <1>1 DEF b, i
  <1>8. CASE family # "beacon"
    <2>1. Sheds(ideal, i, i, Unbounded)
      BY <1>2, <1>4, <1>8, ObserveSheds DEF i, Roomy
    <2>2. Extends(ideal, i.det, Unbounded)
      BY <1>4, <2>1 DEF Sheds
    <2>3. i.det.degraded = ideal.degraded
      BY <2>2 DEF Extends
    <2>4. /\ IsFiniteSet(DOMAIN i.det.table) /\ Cardinality(DOMAIN i.det.table) \in Nat
          /\ Cardinality(DOMAIN i.det.table) <= Cardinality(DOMAIN ideal.table) + 1
      BY <1>4, <2>2, Growth DEF Roomy
    <2>5. Roomy'
      BY <1>1, <1>3, <1>7, <1>8, <2>3, <2>4 DEF Roomy
    <2>6. CASE bounded.degraded
      <3>1. b.det = bounded /\ b.out = <<>>
        BY <1>6, <2>6, QuietOutcome
      <3> QED
        BY <1>1, <1>3, <1>7, <1>8, <2>5, <2>6, <3>1
           DEF Typed, Enveloped, Beside, NeverInflates
    <2>7. CASE ~bounded.degraded
      <3>1. bounded = ideal
        BY <1>8, <2>7 DEF Beside
      <3>2. Sheds(ideal, b, i, Cap[family])
        BY <1>2, <1>4, <1>8, <2>7, <3>1, ObserveSheds DEF b, i
      <3>3. CASE b = Quiet(Degrade(ideal))
        <4>1. b.det = Degrade(ideal) /\ b.out = <<>>
          BY <3>3, QuietOutcome
        <4>2. b.det.table = bounded.table /\ b.det.degraded = TRUE
          BY <3>1, <4>1 DEF Degrade
        <4> QED
          BY <1>1, <1>3, <1>7, <1>8, <2>5, <4>1, <4>2
             DEF Typed, Enveloped, Beside, NeverInflates
      <3>4. CASE b = i /\ Extends(ideal, b.det, Cap[family])
        <4>1. /\ IsFiniteSet(DOMAIN b.det.table)
              /\ Cardinality(DOMAIN b.det.table) <= Cap[family]
          BY <1>2, <3>1, <3>4, Growth DEF Enveloped
        <4>2. b.det.degraded = FALSE
          BY <2>3, <3>4 DEF Roomy
        <4> QED
          BY <1>1, <1>3, <1>7, <1>8, <2>5, <3>4, <4>1, <4>2
             DEF Typed, Enveloped, Beside, NeverInflates
      <3> QED
        BY <3>2, <3>3, <3>4 DEF Sheds
    <2> QED
      BY <2>6, <2>7
  <1>9. CASE family = "beacon"
    <2>1. i = Beacon(ideal, e, Unbounded, Unbounded)
      BY <1>9, BeaconObserves DEF i, Roomy
    <2>2. ~(ideal.aux >= Unbounded)
      BY <1>3, <1>9 DEF Roomy, Unbounded
    <2>3. Extends(ideal, i.det, Unbounded) /\ (i.det.aux = ideal.aux \/ i.det.aux = ideal.aux + 1)
      BY <2>1, <2>2, BeaconGrowth DEF Roomy
    <2>4. i.det.degraded = ideal.degraded
      BY <2>3 DEF Extends
    <2>5. /\ IsFiniteSet(DOMAIN i.det.table) /\ Cardinality(DOMAIN i.det.table) \in Nat
          /\ Cardinality(DOMAIN i.det.table) <= Cardinality(DOMAIN ideal.table) + 1
      BY <1>4, <2>3, Growth DEF Roomy
    <2>6. Roomy'
      BY <1>1, <1>3, <1>7, <1>9, <2>3, <2>4, <2>5 DEF Roomy
    <2>7. CASE bounded.degraded
      <3>1. b.det = bounded /\ b.out = <<>>
        BY <1>6, <2>7, QuietOutcome
      <3> QED
        BY <1>1, <1>3, <1>7, <1>9, <2>6, <2>7, <3>1
           DEF Typed, Enveloped, Beside, NeverInflates
    <2>8. CASE ~bounded.degraded
      <3>1. b = Beacon(bounded, e, Cap[family], MaxEvents)
        BY <1>9, <2>8, BeaconObserves DEF b
      <3>2. Mirrors(bounded, ideal, Cap[family])
        BY <1>9, <2>8 DEF Beside
      <3>3. /\ b.out \in {<<>>, i.out}
            /\ b.det.degraded \/ Mirrors(b.det, i.det, Cap[family])
        BY <1>2, <1>4, <2>1, <2>2, <2>8, <3>1, <3>2, BeaconTwins DEF Roomy
      <3>4. \/ Extends(bounded, b.det, Cap[family])
            \/ DOMAIN b.det.table = {} /\ b.det.degraded = TRUE
        BY <2>8, <3>1, BeaconGrowth
      <3>5. b.det.degraded \in BOOLEAN
        BY <3>4 DEF Extends, Typed
      <3>6. /\ IsFiniteSet(DOMAIN b.det.table)
            /\ Cardinality(DOMAIN b.det.table) <= Cap[family]
        <4>1. CASE Extends(bounded, b.det, Cap[family])
          BY <1>2, <4>1, Growth DEF Enveloped
        <4>2. CASE DOMAIN b.det.table = {}
          <5>1. IsFiniteSet({}) /\ Cardinality({}) = 0
            BY FS_EmptySet
          <5>2. IsFiniteSet(DOMAIN b.det.table) /\ Cardinality(DOMAIN b.det.table) = 0
            BY <4>2, <5>1
          <5> QED
            BY <1>2, <5>2
        <4> QED
          BY <3>4, <4>1, <4>2
      <3>7. \A k \in DOMAIN b.det.table : Buffered(b.det.table[k])
        <4>1. \/ b.det = bounded \/ DOMAIN b.det.table = {} \/ b = Contact(bounded, e)
          <5>1. b = IF ~e.x THEN Quiet(bounded)
                    ELSE IF bounded.aux >= MaxEvents
                         THEN Quiet(Degrade(Kept(bounded, <<>>, bounded.aux)))
                    ELSE IF Full(bounded.table, <<e.src, e.dst>>, Cap[family])
                         THEN Quiet(bounded)
                    ELSE Contact(bounded, e)
            BY <3>1, BeaconCases
          <5> QED
            BY <5>1 DEF Quiet, Degrade, Kept
        <4>2. \A k \in DOMAIN bounded.table : Buffered(bounded.table[k])
          BY <1>9 DEF Enveloped
        <4> QED
          BY <1>5, <4>1, <4>2, ContactBuffered
      <3> QED
        BY <1>1, <1>3, <1>7, <1>9, <2>6, <3>3, <3>5, <3>6, <3>7
           DEF Typed, Enveloped, Beside, NeverInflates
    <2> QED
      BY <2>7, <2>8
  <1> QED
    BY <1>8, <1>9

LEMMA StutterHolds ==
  ASSUME IInv, UNCHANGED vars
  PROVE  IInv'
  BY DEF vars, IInv, Typed, Roomy, Enveloped, Beside, NeverInflates

THEOREM InvariantHolds == Spec => []IInv
  <1>1. IInv /\ [Next]_vars => IInv'
    BY StepHolds, StutterHolds DEF Next
  <1> QED
    BY Initially, <1>1, PTL DEF Spec


(* Whatever the stream, no table outgrows its bound, no window its buffer,    *)
(* and the unbounded twin is never degraded: the envelopes of the detectors   *)
(* in behavioral.py.                                                          *)
THEOREM TypeCorrect == Spec => []TypeOK
  <1>1. IInv => TypeOK
    <2> SUFFICES ASSUME IInv
                 PROVE  TypeOK
      OBVIOUS
    <2>1. family = "beacon" => \A k \in DOMAIN bounded.table :
                                   Len(bounded.table[k].gaps) <= MinEvents + Slack
      BY DEF IInv, Enveloped, Buffered
    <2> QED
      BY <2>1 DEF IInv, Typed, Roomy, Enveloped, TypeOK
  <1> QED
    BY <1>1, InvariantHolds, PTL

(* Whatever a full table or a spent budget makes a detector do, it detects    *)
(* nothing that it would not detect without a bound: degradation only reduces *)
(* detections, behavioral.py says.                                            *)
THEOREM DegradationNeverInflates == Spec => []NeverInflates
  <1>1. IInv => NeverInflates
    BY DEF IInv
  <1> QED
    BY <1>1, InvariantHolds, PTL

-----------------------------------------------------------------------------
(* Lemmas about the contacts that advance the clock of a pair.               *)

PairOf(e) == <<e.src, e.dst>>
IsContact(e, p) == e.x /\ PairOf(e) = p
Contacts(s, p, n) == {i \in 1..n : IsContact(s[i], p)}
Advances(s, p, n) ==
    {i \in Contacts(s, p, n) : \A j \in Contacts(s, p, n) :
                                   j < i => s[j].epoch < s[i].epoch}
Since(s, p, n, k) == {i \in Advances(s, p, n) : i > k}

LEMMA AdvancingIs ==
  ASSUME NEW a
  PROVE  Advancing(a) = Advances(stream, PairOf(a), a.index)
  <1>1. \A i \in 1..a.index :
            i \in OfPair(a) /\ stream[i].x <=> i \in Contacts(stream, PairOf(a), a.index)
    BY DEF OfPair, OfSrc, OfDst, Contacts, IsContact, PairOf
  <1>2. OfPair(a) \subseteq 1..a.index /\ Contacts(stream, PairOf(a), a.index) \subseteq 1..a.index
    BY DEF OfPair, OfSrc, OfDst, Contacts
  <1> QED
    BY <1>1, <1>2, Zenon DEF Advancing, Advances

LEMMA EarlierContacts ==
  ASSUME NEW s \in Seq(Events), NEW e \in Events, NEW p, NEW n \in 0..Len(s)
  PROVE  /\ Contacts(Append(s, e), p, n) = Contacts(s, p, n)
         /\ Advances(Append(s, e), p, n) = Advances(s, p, n)
  <1>1. PICK t : t = Append(s, e)
    OBVIOUS
  <1>2. \A i \in 1..n : t[i] = s[i]
    BY <1>1
  <1>3. Contacts(t, p, n) = Contacts(s, p, n)
    BY <1>2 DEF Contacts
  <1>4. Contacts(s, p, n) \subseteq 1..n
    BY DEF Contacts
  <1>5. Advances(t, p, n) = Advances(s, p, n)
    BY <1>2, <1>3, <1>4 DEF Advances
  <1> QED
    BY <1>1, <1>3, <1>5

(* A stream and what it is one event later, with their lengths.              *)
Grown(s, e, t, n, m) ==
    /\ s \in Seq(Events) /\ e \in Events /\ t = Append(s, e)
    /\ n = Len(s) /\ m = n + 1

LEMMA NextContacts ==
  ASSUME NEW s, NEW e, NEW t, NEW n, NEW m, Grown(s, e, t, n, m), NEW p
  PROVE  /\ ~IsContact(e, p) => /\ Contacts(t, p, m) = Contacts(s, p, n)
                                 /\ Advances(t, p, m) = Advances(s, p, n)
         /\ IsContact(e, p) => Contacts(t, p, m) = Contacts(s, p, n) \cup {m}
         /\ IsContact(e, p) /\ (\E i \in Contacts(s, p, n) : s[i].epoch >= e.epoch)
                => Advances(t, p, m) = Advances(s, p, n)
         /\ IsContact(e, p) /\ (\A i \in Contacts(s, p, n) : s[i].epoch < e.epoch)
                => Advances(t, p, m) = Advances(s, p, n) \cup {m}
  <1>1. /\ s \in Seq(Events) /\ e \in Events /\ t = Append(s, e)
        /\ n = Len(s) /\ n \in Nat /\ m = n + 1
    BY DEF Grown
  <1> USE <1>1
  <1>2. t[m] = e /\ \A i \in 1..n : t[i] = s[i]
    BY <1>1
  <1>3. \A i : i \in 1..m <=> i \in 1..n \/ i = m
    OBVIOUS
  <1>4. Contacts(s, p, n) \subseteq 1..n /\ m \notin 1..n
    BY DEF Contacts
  <1>5. \A i \in 1..n : i < m /\ ~(m < i)
    OBVIOUS
  <1>6. \A i \in 1..n : s[i].epoch \in Int
    <2>1. \A i \in 1..n : s[i] \in Events
      OBVIOUS
    <2>2. \A x \in Events : x.epoch \in Int
      BY DEF Events
    <2> QED
      BY <2>1, <2>2
  <1>7. e.epoch \in Int
    BY DEF Events
  <1>8. CASE ~IsContact(e, p)
    <2>1. Contacts(t, p, m) = Contacts(s, p, n)
      BY <1>2, <1>3, <1>8 DEF Contacts
    <2>2. Advances(t, p, m) = Advances(s, p, n)
      BY <1>2, <1>4, <2>1 DEF Advances
    <2> QED
      BY <1>1, <1>8, <2>1, <2>2
  <1>9. CASE IsContact(e, p)
    <2>1. Contacts(t, p, m) = Contacts(s, p, n) \cup {m}
      BY <1>2, <1>3, <1>9 DEF Contacts
    <2>2. \A i \in Contacts(s, p, n) :
              i \in Advances(t, p, m) <=> i \in Advances(s, p, n)
      BY <1>2, <1>4, <1>5, <2>1 DEF Advances
    <2>3. m \in Advances(t, p, m) <=> \A i \in Contacts(s, p, n) : s[i].epoch < e.epoch
      BY <1>2, <1>4, <1>5, <2>1 DEF Advances
    <2>4. /\ Advances(t, p, m) \subseteq Contacts(s, p, n) \cup {m}
          /\ Advances(s, p, n) \subseteq Contacts(s, p, n)
      BY <2>1 DEF Advances
    <2>5. ASSUME NEW i \in Contacts(s, p, n), s[i].epoch >= e.epoch
          PROVE  Advances(t, p, m) = Advances(s, p, n)
      <3>1. ~(s[i].epoch < e.epoch)
        BY <1>4, <1>6, <1>7, <2>5
      <3> QED
        BY <2>2, <2>3, <2>4, <2>5, <3>1
    <2>6. ASSUME \A i \in Contacts(s, p, n) : s[i].epoch < e.epoch
          PROVE  Advances(t, p, m) = Advances(s, p, n) \cup {m}
      BY <2>2, <2>3, <2>4, <2>6
    <2> QED
      BY <1>1, <1>9, <2>1, <2>5, <2>6
  <1> QED
    BY <1>8, <1>9

LEMMA SinceCounts ==
  ASSUME NEW s, NEW p, NEW n \in Nat, NEW k \in Int
  PROVE  /\ IsFiniteSet(Since(s, p, n, k)) /\ Cardinality(Since(s, p, n, k)) \in Nat
         /\ Since(s, p, n, k) \subseteq 1..n
  <1>1. Since(s, p, n, k) \subseteq 1..n
    BY DEF Since, Advances, Contacts
  <1>2. IsFiniteSet(1..n)
    BY FS_Interval
  <1> QED
    BY <1>1, <1>2, FS_Subset, FS_CardinalityType

(* What a contact does to the window of its pair, and when it is reported.   *)
LEMMA ContactWindow ==
  ASSUME NEW d, NEW e, e.epoch \in Int, \A k \in DOMAIN d.table : Buffered(d.table[k])
  PROVE  LET p == PairOf(e)
             r == Contact(d, e)
             old == d.table[p]
             new == r.det.table[p]
         IN  \/ /\ p \notin DOMAIN d.table /\ r.out = <<>>
                /\ new.last = e.epoch /\ new.total = 0 /\ new.emitted = 0
                /\ new.gaps = <<>>
             \/ /\ p \in DOMAIN d.table /\ e.epoch <= old.last /\ r.out = <<>>
                /\ new = old
             \/ /\ p \in DOMAIN d.table /\ e.epoch > old.last
                /\ new.last = e.epoch /\ new.total = old.total + 1
                /\ new.gaps = LastOf(Append(old.gaps, e.epoch - old.last), MinEvents + Slack)
                /\ \/ r.out = <<>> /\ new.emitted = old.emitted
                   \/ /\ Periodic(new.gaps)
                      /\ r.out = <<[src |-> e.src, dst |-> e.dst, epoch |-> e.epoch,
                                    facts |-> new.total]>>
                      /\ new.emitted = new.total /\ new.total - old.emitted >= MinEvents
  <1> DEFINE p == PairOf(e)
             r == Contact(d, e)
  <1>0. p = <<e.src, e.dst>>
    BY DEF PairOf
  <1>1. CASE p \notin DOMAIN d.table
    <2>1. r = Quiet(Kept(d, Put(d.table, p,
                  [last |-> e.epoch, gaps |-> <<>>, total |-> 0, emitted |-> 0]), d.aux + 1))
      BY <1>0, <1>1, Zenon DEF Contact
    <2>2. r.out = <<>>
      BY <2>1 DEF Quiet
    <2>3. r.det.table = Put(d.table, p,
                            [last |-> e.epoch, gaps |-> <<>>, total |-> 0, emitted |-> 0])
      BY <2>1 DEF Quiet, Kept
    <2>4. r.det.table[p] = [last |-> e.epoch, gaps |-> <<>>, total |-> 0, emitted |-> 0]
      BY <2>3 DEF Put
    <2> QED
      BY <1>1, <2>2, <2>4
  <1>2. CASE p \in DOMAIN d.table
    <2>1. PICK old : old = d.table[p]
      OBVIOUS
    <2>2. old.last \in Int /\ old.total \in Nat /\ old.emitted \in Nat
      BY <1>2, <2>1 DEF Buffered, Windows
    <2>3. CASE e.epoch <= old.last
      <3>1. r = Quiet(Kept(d, d.table, d.aux + 1))
        BY <1>0, <1>2, <2>1, <2>3, Zenon DEF Contact
      <3> QED
        BY <1>2, <2>1, <2>3, <3>1 DEF Quiet, Kept
    <2>4. CASE ~(e.epoch <= old.last)
      <3>1. PICK w : w = FoldGap(old, e.epoch)
        OBVIOUS
      <3>2. /\ w.last = e.epoch /\ w.total = old.total + 1 /\ w.emitted = old.emitted
            /\ w.gaps = LastOf(Append(old.gaps, e.epoch - old.last), MinEvents + Slack)
        BY <3>1 DEF FoldGap
      <3>3. CASE Due(w) /\ Periodic(w.gaps)
        <4>1. r = Alert(Kept(d, Put(d.table, p, Reported(w)), d.aux + 1), e, w.total)
          BY <1>0, <1>2, <2>1, <2>4, <3>1, <3>3, Zenon DEF Contact
        <4>2. r.det.table[p] = Reported(w)
          BY <4>1 DEF Alert, Kept, Put
        <4>3. r.out = <<[src |-> e.src, dst |-> e.dst, epoch |-> e.epoch, facts |-> w.total]>>
          BY <4>1, AlertOutcome
        <4>4. w.total - w.emitted >= MinEvents
          BY <3>3 DEF Due
        <4>5. Reported(w).last = w.last /\ Reported(w).total = w.total
                  /\ Reported(w).emitted = w.total /\ Reported(w).gaps = w.gaps
          BY DEF Reported
        <4> QED
          BY <1>2, <2>1, <2>2, <2>4, <3>2, <3>3, <4>2, <4>3, <4>4, <4>5
      <3>4. CASE ~(Due(w) /\ Periodic(w.gaps))
        <4>1. r = Quiet(Kept(d, Put(d.table, p, w), d.aux + 1))
          BY <1>0, <1>2, <2>1, <2>4, <3>1, <3>4, Zenon DEF Contact
        <4>2. r.det.table[p] = w /\ r.out = <<>>
          BY <4>1 DEF Quiet, Kept, Put
        <4> QED
          BY <1>2, <2>1, <2>2, <2>4, <3>2, <4>2
      <3> QED
        BY <3>3, <3>4
    <2> QED
      BY <2>3, <2>4
  <1> QED
    BY <1>1, <1>2

-----------------------------------------------------------------------------
(* Freshness: what the tables remember of the stream, and of the alerts.     *)

Reporters == {"beacon", "novelty", "dga"}
Reports == {[src |-> e.src, dst |-> e.dst, epoch |-> e.epoch, facts |-> n, index |-> k] :
               e \in Events, n \in Nat, k \in Nat}

Filed ==
    /\ alerts \in Seq(Reports)
    /\ \A k \in DOMAIN alerts : alerts[k].index \in 1..Len(stream)

(* A destination reported as new has a row, no older than the report.        *)
Remembered ==
    /\ \A k \in DOMAIN bounded.table : bounded.table[k] \in Int
    /\ \A k \in DOMAIN alerts : /\ alerts[k].dst \in DOMAIN bounded.table
                                /\ alerts[k].epoch <= bounded.table[alerts[k].dst]

(* The last epoch of a window is the latest of its pair's contacts.          *)
Tracked(s, p, n, w) ==
    /\ \A i \in Contacts(s, p, n) : s[i].epoch <= w.last
    /\ \E i \in Contacts(s, p, n) : s[i].epoch >= w.last

(* Nothing is forgotten before the table is full, and what a window has       *)
(* folded since it was last reported has happened since every report of it.   *)
Clocked ==
    /\ \A p \in DOMAIN bounded.table : Tracked(stream, p, Len(stream), bounded.table[p])
    /\ Room(bounded, Cap[family]) =>
           \A i \in 1..Len(stream) :
               stream[i].x => PairOf(stream[i]) \in DOMAIN bounded.table
Paid ==
    \A k \in DOMAIN alerts :
        LET p == PairOf(alerts[k])
            w == bounded.table[p]
        IN  /\ p \in DOMAIN bounded.table
            /\ w.total - w.emitted
                   <= Cardinality(Since(stream, p, Len(stream), alerts[k].index))

Fresher(k, n) ==
    /\ family = "beacon" /\ alerts[k].src = alerts[n].src =>
           MinEvents <= Cardinality(Since(stream, PairOf(alerts[n]), alerts[n].index,
                                          alerts[k].index))
    /\ family \in {"novelty", "dga"} => alerts[n].epoch - alerts[k].epoch > Ttl
Spaced ==
    \A k \in DOMAIN alerts, n \in DOMAIN alerts :
        k < n /\ alerts[k].dst = alerts[n].dst => Fresher(k, n)

FreshInv ==
    family \in Reporters =>
        /\ Filed /\ Spaced
        /\ ~bounded.degraded => IF family = "beacon" THEN Clocked /\ Paid ELSE Remembered

(* What a step adds to the alerts: nothing, or the report of its event.      *)
ReportOf(e, n, k) ==
    [src |-> e.src, dst |-> e.dst, epoch |-> e.epoch, facts |-> n, index |-> k]
OutOf(e, n) == <<[src |-> e.src, dst |-> e.dst, epoch |-> e.epoch, facts |-> n]>>

LEMMA NoReport ==
  ASSUME NEW s \in Seq(Reports)
  PROVE  s \o Numbered(<<>>) = s
  <1>1. Numbered(<<>>) = <<>>
    BY DEF Numbered
  <1> QED
    BY <1>1

LEMMA OneReport ==
  ASSUME NEW s \in Seq(Reports), NEW e \in Events, NEW n \in Nat, stream \in Seq(Events)
  PROVE  LET r == ReportOf(e, n, Len(stream) + 1)
         IN  /\ s \o Numbered(OutOf(e, n)) = Append(s, r)
             /\ r \in Reports
  <1> DEFINE r == ReportOf(e, n, Len(stream) + 1)
             out == OutOf(e, n)
  <1>1. Numbered(out) = <<r>>
    <2>1. /\ DOMAIN out = {1}
          /\ out[1].src = e.src /\ out[1].dst = e.dst /\ out[1].epoch = e.epoch
          /\ out[1].facts = n
      BY DEF OutOf
    <2>2. Numbered(out) = [k \in {1} |-> r]
      <3> HIDE DEF out
      <3>1. Numbered(out) =
                [k \in {1} |-> [src |-> out[k].src, dst |-> out[k].dst, epoch |-> out[k].epoch,
                                facts |-> out[k].facts, index |-> Len(stream) + 1]]
        BY <2>1 DEF Numbered
      <3> QED
        BY <2>1, <3>1 DEF ReportOf
    <2>3. <<r>> = [k \in {1} |-> r]
      <3> HIDE DEF r
      <3> QED
        OBVIOUS
    <2> QED
      BY <2>2, <2>3
  <1>2. r \in Reports
    <2>1. PICK k \in Nat : k = Len(stream) + 1
      OBVIOUS
    <2>2. r = [src |-> e.src, dst |-> e.dst, epoch |-> e.epoch, facts |-> n, index |-> k]
      BY <2>1 DEF ReportOf
    <2> HIDE DEF r
    <2> QED
      BY <2>2 DEF Reports
  <1> HIDE DEF r, out
  <1>3. s \o <<r>> = Append(s, r)
    BY <1>2
  <1> QED
    BY <1>1, <1>2, <1>3 DEF r, out

(* The alerts after a step, of which no older one has changed.               *)
LEMMA FiledStep ==
  ASSUME Filed, stream \in Seq(Events), NEW e \in Events, stream' = Append(stream, e),
         NEW out, alerts' = alerts \o Numbered(out),
         out = <<>> \/ \E n \in Nat : out = OutOf(e, n)
  PROVE  /\ Filed'
         /\ out = <<>> => alerts' = alerts
         /\ out # <<>> => /\ DOMAIN alerts' = DOMAIN alerts \cup {Len(alerts) + 1}
                          /\ \A k \in DOMAIN alerts : alerts'[k] = alerts[k]
                                                      /\ k < Len(alerts) + 1
                          /\ alerts'[Len(alerts) + 1].src = e.src
                          /\ alerts'[Len(alerts) + 1].dst = e.dst
                          /\ alerts'[Len(alerts) + 1].epoch = e.epoch
                          /\ alerts'[Len(alerts) + 1].index = Len(stream) + 1
  <1>1. alerts \in Seq(Reports) /\ \A k \in DOMAIN alerts : alerts[k].index \in 1..Len(stream)
    BY DEF Filed
  <1>2. Len(stream) \in Nat /\ Len(stream') = Len(stream) + 1
    OBVIOUS
  <1>3. CASE out = <<>>
    <2>1. alerts' = alerts
      BY <1>1, <1>3, NoReport
    <2>2. Filed'
      BY <1>1, <1>2, <2>1 DEF Filed
    <2> QED
      BY <1>3, <2>1, <2>2
  <1>4. CASE out # <<>>
    <2>1. PICK n \in Nat : out = OutOf(e, n)
      BY <1>4
    <2>2. PICK r : r = ReportOf(e, n, Len(stream) + 1)
      OBVIOUS
    <2>3. alerts' = Append(alerts, r) /\ r \in Reports
      BY <1>1, <2>1, <2>2, OneReport
    <2>4. r.src = e.src /\ r.dst = e.dst /\ r.epoch = e.epoch /\ r.index = Len(stream) + 1
      BY <2>2 DEF ReportOf
    <2>5. /\ DOMAIN alerts' = DOMAIN alerts \cup {Len(alerts) + 1}
          /\ \A k \in DOMAIN alerts : alerts'[k] = alerts[k] /\ k < Len(alerts) + 1
          /\ alerts'[Len(alerts) + 1] = r /\ alerts' \in Seq(Reports)
      BY <1>1, <2>3
    <2>6. \A k \in DOMAIN alerts' : alerts'[k].index \in 1..Len(stream')
      BY <1>1, <1>2, <2>4, <2>5
    <2>7. Filed'
      BY <2>5, <2>6 DEF Filed
    <2> QED
      BY <1>4, <2>4, <2>5, <2>7
  <1> QED
    BY <1>3, <1>4

(* What was true of two alerts stays true of them: it is about the stream up  *)
(* to the later one.                                                          *)
LEMMA OlderSpaced ==
  ASSUME Filed, Spaced, stream \in Seq(Events), NEW e \in Events,
         stream' = Append(stream, e), family' = family,
         NEW k \in DOMAIN alerts, NEW n \in DOMAIN alerts, k < n,
         alerts'[k] = alerts[k], alerts'[n] = alerts[n], alerts[k].dst = alerts[n].dst
  PROVE  Fresher(k, n)'
  <1>1. Fresher(k, n)
    BY DEF Spaced
  <1>2. alerts[n].index \in 0..Len(stream)
    <2>1. alerts[n].index \in 1..Len(stream) /\ Len(stream) \in Nat
      BY DEF Filed
    <2> QED
      BY <2>1
  <1>3. Advances(stream', PairOf(alerts[n]), alerts[n].index)
            = Advances(stream, PairOf(alerts[n]), alerts[n].index)
    BY <1>2, EarlierContacts
  <1> QED
    BY <1>1, <1>3 DEF Fresher, Since

LEMMA NothingReported ==
  ASSUME Filed, Spaced, stream \in Seq(Events), NEW e \in Events,
         stream' = Append(stream, e), family' = family, alerts' = alerts
  PROVE  Spaced'
  <1> SUFFICES ASSUME NEW k \in DOMAIN alerts, NEW n \in DOMAIN alerts,
                      k < n, alerts[k].dst = alerts[n].dst
               PROVE  Fresher(k, n)'
    BY DEF Spaced
  <1> QED
    BY OlderSpaced

(* A destination is reported only when it has no row or an expired one.      *)
LEMMA NewDestination ==
  ASSUME NEW f \in {"novelty", "dga"}, NEW d, ~d.degraded, NEW e, NEW cap, NEW m
  PROVE  LET r == Observe(f, d, e, cap, m)
         IN  \/ r.det = d /\ r.out = <<>>
             \/ r.det.degraded /\ r.out = <<>>
             \/ /\ Expired(d.table, e.dst, e.epoch)
                /\ r.det.table = Put(d.table, e.dst, e.epoch)
                /\ r.out = <<>> \/ r.out = OutOf(e, 1)
  <1> DEFINE r == Observe(f, d, e, cap, m)
             new == With(d, e.dst, e.epoch)
  <1>1. \/ r = Quiet(d) \/ r = Quiet(Degrade(d))
        \/ /\ Expired(d.table, e.dst, e.epoch)
           /\ r = Alert(new, e, 1) \/ r = Quiet(new)
    <2>1. CASE f = "novelty"
      <3>1. r = Novelty(d, e, cap)
        BY <2>1, Zenon DEF Observe
      <3> QED
        BY <3>1 DEF Novelty
    <2>2. CASE f = "dga"
      <3>1. r = Dga(d, e, cap)
        BY <2>2, Zenon DEF Observe
      <3> QED
        BY <3>1 DEF Dga, AlertIf
    <2> QED
      BY <2>1, <2>2
  <1> HIDE DEF r
  <1>2. CASE r = Quiet(d)
    BY <1>2, QuietOutcome DEF r
  <1>3. CASE r = Quiet(Degrade(d))
    <2>1. r.det = Degrade(d) /\ r.out = <<>>
      BY <1>3, QuietOutcome
    <2> QED
      BY <2>1 DEF Degrade, r
  <1>4. CASE /\ Expired(d.table, e.dst, e.epoch)
             /\ r = Alert(new, e, 1) \/ r = Quiet(new)
    <2>1. new.table = Put(d.table, e.dst, e.epoch)
      BY WithFields
    <2>2. r.det = new /\ (r.out = <<>> \/ r.out = OutOf(e, 1))
      BY <1>4, QuietOutcome, AlertOutcome DEF OutOf
    <2> QED
      BY <1>4, <2>1, <2>2 DEF r
  <1> QED
    BY <1>1, <1>2, <1>3, <1>4

LEMMA RememberedStep ==
  ASSUME Filed, Spaced, Remembered, stream \in Seq(Events), NEW e \in Events,
         stream' = Append(stream, e), family' = family,
         family \in {"novelty", "dga"}, ~bounded.degraded, NEW r,
         r = Observe(family, bounded, e, Cap[family], MaxEvents),
         bounded' = r.det, alerts' = alerts \o Numbered(r.out)
  PROVE  Filed' /\ Spaced' /\ (bounded'.degraded \/ Remembered')
  <1>1. \/ r.det = bounded /\ r.out = <<>>
        \/ r.det.degraded /\ r.out = <<>>
        \/ /\ Expired(bounded.table, e.dst, e.epoch)
           /\ r.det.table = Put(bounded.table, e.dst, e.epoch)
           /\ r.out = <<>> \/ r.out = OutOf(e, 1)
    BY NewDestination
  <1>2. Filed'
    BY <1>1, FiledStep
  <1>3. r.out = <<>> => alerts' = alerts
    BY FiledStep
  <1>4. CASE r.out = <<>> /\ (r.det = bounded \/ r.det.degraded)
    <2>1. Spaced'
      BY <1>3, <1>4, NothingReported
    <2> QED
      BY <1>2, <1>3, <1>4, <2>1 DEF Remembered
  <1>5. CASE /\ Expired(bounded.table, e.dst, e.epoch)
             /\ r.det.table = Put(bounded.table, e.dst, e.epoch)
             /\ r.out = <<>> \/ r.out = OutOf(e, 1)
    <2>1. /\ DOMAIN bounded'.table = DOMAIN bounded.table \cup {e.dst}
          /\ bounded'.table[e.dst] = e.epoch
          /\ \A k \in DOMAIN bounded.table : k # e.dst => bounded'.table[k] = bounded.table[k]
      <3>1. bounded'.table = Put(bounded.table, e.dst, e.epoch)
        BY <1>5
      <3> QED
        <4>1. PICK t : t = Put(bounded.table, e.dst, e.epoch)
          OBVIOUS
        <4>2. /\ DOMAIN t = DOMAIN bounded.table \cup {e.dst} /\ t[e.dst] = e.epoch
              /\ \A k \in DOMAIN bounded.table : k # e.dst => t[k] = bounded.table[k]
          BY <4>1, Zenon DEF Put
        <4> QED
          BY <3>1, <4>1, <4>2
    <2>2. e.epoch \in Int
      BY DEF Events
    <2>3. \A k \in DOMAIN alerts : alerts[k].epoch \in Int
      <3>1. \A k \in DOMAIN alerts : alerts[k] \in Reports
        BY DEF Filed
      <3>2. \A q \in Reports : q.epoch \in Int
        BY DEF Reports, Events
      <3> QED
        BY <3>1, <3>2
    <2>4. \A k \in DOMAIN bounded'.table : bounded'.table[k] \in Int
      BY <2>1, <2>2 DEF Remembered
    <2>5. ASSUME NEW k \in DOMAIN alerts, alerts[k].dst = e.dst
          PROVE  e.epoch - alerts[k].epoch > Ttl /\ e.epoch >= alerts[k].epoch
      <3>1. /\ e.dst \in DOMAIN bounded.table /\ alerts[k].epoch <= bounded.table[e.dst]
            /\ bounded.table[e.dst] \in Int
        BY <2>5 DEF Remembered
      <3>2. e.epoch - bounded.table[e.dst] > Ttl
        BY <1>5, <3>1 DEF Expired
      <3>3. Ttl \in Nat
        BY DetectorAssumption
      <3> QED
        <4>1. PICK a \in Int, t \in Int, u \in Int, q \in Nat :
                  a = alerts[k].epoch /\ t = bounded.table[e.dst] /\ u = e.epoch /\ q = Ttl
          BY <2>2, <2>3, <3>1, <3>3
        <4>2. a <= t /\ u - t > q
          BY <3>1, <3>2, <4>1
        <4>3. u - a > q /\ u >= a
          BY <4>2
        <4> QED
          BY <4>1, <4>3
    <2>6. \A k \in DOMAIN alerts :
              /\ alerts[k].dst \in DOMAIN bounded'.table
              /\ alerts[k].epoch <= bounded'.table[alerts[k].dst]
      BY <2>1, <2>5 DEF Remembered
    <2>7. CASE r.out = <<>>
      <3>1. Spaced'
        BY <1>3, <2>7, NothingReported
      <3>2. Remembered'
        BY <1>3, <2>4, <2>6, <2>7 DEF Remembered
      <3> QED
        BY <1>2, <3>1, <3>2
    <2>8. CASE r.out = OutOf(e, 1)
      <3>1. r.out # <<>>
        BY <2>8 DEF OutOf
      <3> DEFINE last == Len(alerts) + 1
      <3>2. /\ DOMAIN alerts' = DOMAIN alerts \cup {last}
            /\ \A k \in DOMAIN alerts : alerts'[k] = alerts[k] /\ k < last
            /\ alerts'[last].dst = e.dst /\ alerts'[last].epoch = e.epoch
        BY <2>8, <3>1, FiledStep
      <3>3. DOMAIN alerts = 1..Len(alerts) /\ last \in Nat
        BY DEF Filed
      <3> HIDE DEF last
      <3>4. Remembered'
        <4>1. \A k \in DOMAIN alerts' :
                  /\ alerts'[k].dst \in DOMAIN bounded'.table
                  /\ alerts'[k].epoch <= bounded'.table[alerts'[k].dst]
          <5> SUFFICES ASSUME NEW k \in DOMAIN alerts'
                       PROVE  /\ alerts'[k].dst \in DOMAIN bounded'.table
                              /\ alerts'[k].epoch <= bounded'.table[alerts'[k].dst]
            OBVIOUS
          <5>1. CASE k \in DOMAIN alerts
            BY <2>6, <3>2, <5>1
          <5>2. CASE k = last
            <6>1. alerts'[k].dst = e.dst /\ alerts'[k].epoch = e.epoch
              BY <3>2, <5>2
            <6>2. e.epoch <= e.epoch
              BY <2>2
            <6> QED
              BY <2>1, <6>1, <6>2
          <5> QED
            BY <3>2, <5>1, <5>2
        <4> QED
          BY <2>4, <4>1 DEF Remembered
      <3>5. Spaced'
        <4> SUFFICES ASSUME NEW k \in DOMAIN alerts', NEW n \in DOMAIN alerts',
                            k < n, alerts'[k].dst = alerts'[n].dst
                     PROVE  Fresher(k, n)'
          BY DEF Spaced
        <4>1. k \in DOMAIN alerts
          BY <3>2, <3>3
        <4>2. CASE n \in DOMAIN alerts
          BY <3>2, <4>1, <4>2, OlderSpaced
        <4>3. CASE n = last
          BY <2>5, <3>2, <4>1, <4>3 DEF Fresher
        <4> QED
          BY <3>2, <4>2, <4>3
      <3> QED
        BY <1>2, <3>4, <3>5
    <2> QED
      BY <1>5, <2>7, <2>8
  <1> QED
    BY <1>1, <1>4, <1>5

(* A window follows the contacts of its pair, and what is not one is nothing  *)
(* to it.                                                                     *)
LEMMA TrackedElsewhere ==
  ASSUME NEW s, NEW e, NEW t, NEW n, NEW m, Grown(s, e, t, n, m), NEW p, NEW w,
         ~IsContact(e, p)
  PROVE  /\ Tracked(s, p, n, w) => Tracked(t, p, m, w)
         /\ \A k : Since(t, p, m, k) = Since(s, p, n, k)
  <1>1. /\ s \in Seq(Events) /\ e \in Events /\ t = Append(s, e)
        /\ n = Len(s) /\ n \in Nat /\ m = n + 1
    BY DEF Grown
  <1> USE <1>1
  <1>2. /\ Contacts(t, p, m) = Contacts(s, p, n)
        /\ Advances(t, p, m) = Advances(s, p, n)
    BY NextContacts
  <1>3. \A i \in Contacts(s, p, n) : t[i] = s[i]
    <2>1. \A i \in 1..n : t[i] = s[i]
      BY <1>1
    <2> QED
      BY <2>1 DEF Contacts
  <1>4. Tracked(s, p, n, w) => Tracked(t, p, m, w)
    BY <1>2, <1>3 DEF Tracked
  <1>5. \A k : Since(t, p, m, k) = Since(s, p, n, k)
    BY <1>2 DEF Since
  <1> QED
    BY <1>1, <1>4, <1>5

LEMMA TrackedContact ==
  ASSUME NEW s, NEW e, NEW t, NEW n, NEW m, Grown(s, e, t, n, m),
         NEW p, IsContact(e, p), NEW w, w.last \in Int, Tracked(s, p, n, w)
  PROVE  /\ e.epoch <= w.last =>
                    /\ \A v : v.last = w.last => Tracked(t, p, m, v)
                    /\ \A k : Since(t, p, m, k) = Since(s, p, n, k)
         /\ e.epoch > w.last =>
                    /\ \A v : v.last = e.epoch => Tracked(t, p, m, v)
                    /\ \A k \in 1..n : Since(t, p, m, k) = Since(s, p, n, k) \cup {m}
  <1>1. /\ s \in Seq(Events) /\ e \in Events /\ t = Append(s, e)
        /\ n = Len(s) /\ n \in Nat /\ m = n + 1
    BY DEF Grown
  <1> USE <1>1
  <1>2. t[m] = e /\ \A i \in 1..n : t[i] = s[i]
    BY <1>1
  <1>3. Contacts(s, p, n) \subseteq 1..n /\ Contacts(t, p, m) = Contacts(s, p, n) \cup {m}
    BY NextContacts DEF Contacts
  <1>4. e.epoch \in Int /\ \A i \in 1..n : s[i].epoch \in Int
    <2>1. \A i \in 1..n : s[i] \in Events
      OBVIOUS
    <2>2. \A x \in Events : x.epoch \in Int
      BY DEF Events
    <2> QED
      BY <2>1, <2>2
  <1>5. /\ \A i \in Contacts(s, p, n) : s[i].epoch <= w.last
        /\ \E i \in Contacts(s, p, n) : s[i].epoch >= w.last
    BY <1>1 DEF Tracked
  <1>6. CASE e.epoch <= w.last
    <2>1. \E i \in Contacts(s, p, n) : s[i].epoch >= e.epoch
      <3>1. PICK i \in Contacts(s, p, n) : s[i].epoch >= w.last
        BY <1>5
      <3>2. PICK a \in Int, b \in Int, c \in Int : a = s[i].epoch /\ b = w.last /\ c = e.epoch
        BY <1>3, <1>4, <3>1
      <3>3. a >= c
        BY <1>6, <3>1, <3>2
      <3> QED
        BY <3>1, <3>2, <3>3
    <2>2. Advances(t, p, m) = Advances(s, p, n)
      BY <1>1, <2>1, NextContacts
    <2>3. \A k : Since(t, p, m, k) = Since(s, p, n, k)
      BY <2>2 DEF Since
    <2>4. \A v : v.last = w.last => Tracked(t, p, m, v)
      BY <1>2, <1>3, <1>5, <1>6 DEF Tracked
    <2>5. ~(e.epoch > w.last)
      BY <1>4, <1>6
    <2> QED
      BY <1>1, <2>3, <2>4, <2>5
  <1>7. CASE ~(e.epoch <= w.last)
    <2>1. \A i \in Contacts(s, p, n) : s[i].epoch < e.epoch
      <3> SUFFICES ASSUME NEW i \in Contacts(s, p, n)
                   PROVE  s[i].epoch < e.epoch
        OBVIOUS
      <3>2. PICK a \in Int, b \in Int, c \in Int : a = s[i].epoch /\ b = w.last /\ c = e.epoch
        BY <1>3, <1>4
      <3>3. a <= b /\ ~(c <= b)
        BY <1>5, <1>7, <3>2
      <3> QED
        BY <3>2, <3>3
    <2>2. Advances(t, p, m) = Advances(s, p, n) \cup {m}
      BY <1>1, <2>1, NextContacts
    <2>3. \A k \in 1..n : Since(t, p, m, k) = Since(s, p, n, k) \cup {m}
      BY <2>2 DEF Since
    <2>4. \A v : v.last = e.epoch => Tracked(t, p, m, v)
      <3>1. \A i \in Contacts(s, p, n) : t[i].epoch <= e.epoch
        BY <1>2, <1>3, <1>4, <2>1
      <3>2. t[m].epoch <= e.epoch /\ t[m].epoch >= e.epoch
        BY <1>2, <1>4
      <3> QED
        BY <1>3, <3>1, <3>2 DEF Tracked
    <2> QED
      BY <1>1, <1>7, <2>3, <2>4
  <1> QED
    BY <1>6, <1>7

LEMMA TrackedFirst ==
  ASSUME NEW s, NEW e, NEW t, NEW n, NEW m, Grown(s, e, t, n, m), NEW p, IsContact(e, p),
         Contacts(s, p, n) = {}, NEW v, v.last = e.epoch
  PROVE  Tracked(t, p, m, v)
  <1>1. /\ s \in Seq(Events) /\ e \in Events /\ t = Append(s, e)
        /\ n = Len(s) /\ n \in Nat /\ m = n + 1
    BY DEF Grown
  <1> USE <1>1
  <1>2. Contacts(t, p, m) = {m}
    <2>1. Contacts(t, p, m) = Contacts(s, p, n) \cup {m}
      BY NextContacts
    <2> QED
      BY <1>1, <2>1
  <1>3. t[m] = e /\ e.epoch \in Int
    BY <1>1 DEF Events
  <1>4. t[m].epoch <= v.last /\ t[m].epoch >= v.last
    BY <1>3
  <1> QED
    BY <1>1, <1>2, <1>4 DEF Tracked

(* The detector keeps its table, and the event is no contact or one it has no *)
(* room for.                                                                  *)
LEMMA ClockedIgnored ==
  ASSUME Filed, Spaced, Clocked, Paid, family = "beacon", stream \in Seq(Events),
         NEW e \in Events, stream' = Append(stream, e), family' = family,
         bounded' = bounded, alerts' = alerts,
         \/ ~e.x
         \/ PairOf(e) \notin DOMAIN bounded.table /\ ~Room(bounded, Cap[family])
  PROVE  Spaced' /\ Clocked' /\ Paid'
  <1>1. Spaced'
    BY NothingReported
  <1>2. PICK n \in Nat, m \in Nat : n = Len(stream) /\ m = n + 1 /\ Len(stream') = m
    OBVIOUS
  <1>6. Grown(stream, e, stream', n, m)
    BY <1>2 DEF Grown
  <1>3. ASSUME NEW q \in DOMAIN bounded.table
        PROVE  /\ Tracked(stream', q, m, bounded.table[q])
               /\ \A k : Since(stream', q, m, k) = Since(stream, q, n, k)
    <2>1. ~IsContact(e, q)
      BY DEF IsContact
    <2>2. Tracked(stream, q, n, bounded.table[q])
      BY <1>2 DEF Clocked
    <2> QED
      BY <1>6, <2>1, <2>2, TrackedElsewhere
  <1>4. Clocked'
    <2>1. ASSUME Room(bounded, Cap[family]), NEW i \in 1..m, stream'[i].x
          PROVE  PairOf(stream'[i]) \in DOMAIN bounded.table
      <3>1. i = m => stream'[i] = e
        BY <1>2
      <3>2. i # m => i \in 1..n /\ stream'[i] = stream[i]
        BY <1>2
      <3> QED
        BY <1>2, <2>1, <3>1, <3>2 DEF Clocked
    <2> QED
      BY <1>2, <1>3, <2>1 DEF Clocked
  <1>5. Paid'
    BY <1>2, <1>3 DEF Paid
  <1> QED
    BY <1>1, <1>4, <1>5

(* The window of a pair never runs ahead of what happened since any of its    *)
(* reports; a report therefore comes MinEvents contacts after each of them.   *)
LEMMA PaidContact ==
  ASSUME NEW s, NEW e, NEW t, NEW n, NEW m, Grown(s, e, t, n, m),
         NEW p, IsContact(e, p),
         NEW w, w.last \in Int, w.total \in Nat, w.emitted \in Nat, Tracked(s, p, n, w),
         NEW k \in 1..n, w.total - w.emitted <= Cardinality(Since(s, p, n, k))
  PROVE  LET T == Since(t, p, m, k)
         IN  /\ w.total - w.emitted <= Cardinality(T)
             /\ e.epoch > w.last => w.total + 1 - w.emitted <= Cardinality(T)
  <1>1. /\ s \in Seq(Events) /\ e \in Events /\ t = Append(s, e)
        /\ n = Len(s) /\ n \in Nat /\ m = n + 1
    BY DEF Grown
  <1> USE <1>1
  <1>2. PICK S : S = Since(s, p, n, k)
    OBVIOUS
  <1>3. IsFiniteSet(S) /\ Cardinality(S) \in Nat /\ S \subseteq 1..n
    BY <1>2, SinceCounts
  <1>4. e.epoch \in Int
    BY DEF Events
  <1>5. CASE e.epoch <= w.last
    <2>1. Since(t, p, m, k) = S
      BY <1>1, <1>2, <1>5, TrackedContact
    <2>2. ~(e.epoch > w.last)
      BY <1>4, <1>5
    <2> QED
      BY <1>1, <1>2, <2>1, <2>2
  <1>6. CASE e.epoch > w.last
    <2>1. Since(t, p, m, k) = S \cup {m}
      BY <1>1, <1>2, <1>6, TrackedContact
    <2>2. m \notin S
      BY <1>3
    <2>3. Cardinality(S \cup {m}) = Cardinality(S) + 1
      BY <1>3, <2>2, FS_AddElement
    <2>4. w.total - w.emitted <= Cardinality(S)
      BY <1>1, <1>2
    <2>5. \A a, b, c \in Nat : a - b <= c => a - b <= c + 1 /\ a + 1 - b <= c + 1
      OBVIOUS
    <2>6. /\ w.total - w.emitted <= Cardinality(S) + 1
          /\ w.total + 1 - w.emitted <= Cardinality(S) + 1
      BY <1>3, <2>4, <2>5
    <2> QED
      BY <1>1, <2>1, <2>3, <2>6
  <1> QED
    BY <1>4, <1>5, <1>6

LEMMA PaidWindow ==
  ASSUME NEW w, w.total \in Nat, w.emitted \in Nat,
         NEW v, v.total = w.total + 1, v.emitted = w.emitted \/ v.emitted = v.total,
         NEW c \in Nat, w.total + 1 - w.emitted <= c
  PROVE  /\ v.total - v.emitted <= c
         /\ v.total - w.emitted >= MinEvents => MinEvents <= c
  BY DetectorAssumption

(* A contact that the beacon detector has room for.                          *)
LEMMA ClockedContact ==
  ASSUME Filed, Spaced, Clocked, Paid, family = "beacon", stream \in Seq(Events),
         NEW e \in Events, stream' = Append(stream, e), family' = family, e.x,
         \A k \in DOMAIN bounded.table : Buffered(bounded.table[k]),
         ~Full(bounded.table, PairOf(e), Cap[family]),
         NEW r, r = Contact(bounded, e),
         bounded' = r.det, alerts' = alerts \o Numbered(r.out)
  PROVE  Filed' /\ Spaced' /\ Clocked' /\ Paid'
  <1>1. PICK p, n, m, T : /\ p = PairOf(e) /\ n = Len(stream) /\ m = n + 1
                          /\ T = bounded.table
    OBVIOUS
  <1>2. n \in Nat /\ m \in Nat /\ Len(stream') = m /\ Grown(stream, e, stream', n, m)
    BY <1>1 DEF Grown
  <1>3. IsContact(e, p) /\ p = <<e.src, e.dst>> /\ \A q : q # p => ~IsContact(e, q)
    BY <1>1 DEF IsContact, PairOf
  <1>4. PICK N : N = r.det.table
    OBVIOUS
  <1>5. DOMAIN N = DOMAIN T \cup {p} /\ \A q \in DOMAIN T : q # p => N[q] = T[q]
    BY <1>1, <1>3, <1>4, ContactFields
  <1>6. e.epoch \in Int
    BY DEF Events
  <1>7. \/ /\ p \notin DOMAIN T /\ r.out = <<>>
           /\ N[p].last = e.epoch /\ N[p].total = 0 /\ N[p].emitted = 0
        \/ /\ p \in DOMAIN T /\ e.epoch <= T[p].last /\ r.out = <<>>
           /\ N[p] = T[p]
        \/ /\ p \in DOMAIN T /\ e.epoch > T[p].last
           /\ N[p].last = e.epoch /\ N[p].total = T[p].total + 1
           /\ \/ r.out = <<>> /\ N[p].emitted = T[p].emitted
              \/ /\ r.out = OutOf(e, N[p].total)
                 /\ N[p].emitted = N[p].total /\ N[p].total - T[p].emitted >= MinEvents
    BY <1>1, <1>4, <1>6, ContactWindow DEF OutOf
  <1>8. ASSUME p \in DOMAIN T
        PROVE  T[p].last \in Int /\ T[p].total \in Nat /\ T[p].emitted \in Nat
    BY <1>1, <1>8 DEF Buffered, Windows
  <1>9. r.out = <<>> \/ \E k \in Nat : r.out = OutOf(e, k)
    BY <1>7, <1>8
  <1>10. Filed'
    BY <1>9, FiledStep
  <1>11. \A q \in DOMAIN T : Tracked(stream, q, n, T[q])
    BY <1>1 DEF Clocked
  <1>12. ASSUME NEW q \in DOMAIN T, q # p
         PROVE  /\ Tracked(stream', q, m, T[q])
                /\ \A k : Since(stream', q, m, k) = Since(stream, q, n, k)
    BY <1>2, <1>3, <1>11, <1>12, TrackedElsewhere
  <1>13. Tracked(stream', p, m, N[p])
    <2>1. CASE p \notin DOMAIN T
      <3>1. Room(bounded, Cap[family])
        BY <1>1, <2>1 DEF Full, Room
      <3>2. \A i \in 1..n : ~IsContact(stream[i], p)
        BY <1>1, <2>1, <3>1 DEF Clocked, IsContact
      <3>3. Contacts(stream, p, n) = {}
        BY <3>2 DEF Contacts
      <3> QED
        BY <1>2, <1>3, <1>7, <2>1, <3>3, TrackedFirst
    <2>2. CASE p \in DOMAIN T
      BY <1>2, <1>3, <1>7, <1>8, <1>11, <2>2, TrackedContact
    <2> QED
      BY <2>1, <2>2
  <1>14. Clocked'
    <2>1. \A q \in DOMAIN N : Tracked(stream', q, m, N[q])
      BY <1>5, <1>12, <1>13
    <2>2. ASSUME Room(r.det, Cap[family])
          PROVE  Room(bounded, Cap[family])
      <3>1. CASE p \in DOMAIN T
        <4>1. DOMAIN N = DOMAIN T
          BY <1>5, <3>1
        <4> QED
          BY <1>1, <1>4, <2>2, <4>1 DEF Room
      <3>2. CASE p \notin DOMAIN T
        BY <1>1, <3>2 DEF Full, Room
      <3> QED
        BY <3>1, <3>2
    <2>3. ASSUME Room(r.det, Cap[family]), NEW i \in 1..m, stream'[i].x
          PROVE  PairOf(stream'[i]) \in DOMAIN N
      <3>1. CASE i = m
        <4>1. stream'[i] = e
          BY <1>1, <3>1
        <4> QED
          BY <1>1, <1>5, <4>1
      <3>2. CASE i # m
        <4>1. i \in 1..n /\ stream'[i] = stream[i]
          BY <1>1, <1>2, <3>2
        <4> QED
          BY <1>1, <1>5, <2>2, <2>3, <4>1 DEF Clocked
      <3> QED
        BY <3>1, <3>2
    <2> QED
      BY <1>2, <1>4, <2>1, <2>3 DEF Clocked
  <1>15. \A k \in DOMAIN alerts : alerts[k].index \in 1..n
    BY <1>1 DEF Filed
  <1>16. ASSUME NEW k \in DOMAIN alerts
         PROVE  /\ PairOf(alerts[k]) \in DOMAIN T
                /\ T[PairOf(alerts[k])].total - T[PairOf(alerts[k])].emitted
                       <= Cardinality(Since(stream, PairOf(alerts[k]), n, alerts[k].index))
    BY <1>1 DEF Paid
  <1>17. ASSUME NEW k \in DOMAIN alerts, PairOf(alerts[k]) = p
         PROVE  /\ T[p].total - T[p].emitted
                       <= Cardinality(Since(stream', p, m, alerts[k].index))
                /\ e.epoch > T[p].last =>
                       T[p].total + 1 - T[p].emitted
                           <= Cardinality(Since(stream', p, m, alerts[k].index))
    <2>1. PICK j \in 1..n : j = alerts[k].index
      BY <1>15
    <2>2. p \in DOMAIN T /\ T[p].total - T[p].emitted <= Cardinality(Since(stream, p, n, j))
      BY <1>16, <1>17, <2>1
    <2> QED
      BY <1>2, <1>3, <1>8, <1>11, <2>1, <2>2, PaidContact
  <1>18. N[p].total \in Nat /\ N[p].emitted \in Nat
    <2>1. CASE p \notin DOMAIN T
      BY <1>7, <2>1
    <2>2. CASE p \in DOMAIN T
      <3>1. T[p].total + 1 \in Nat
        BY <1>8, <2>2
      <3>2. \/ N[p] = T[p]
            \/ /\ N[p].total = T[p].total + 1
               /\ N[p].emitted = T[p].emitted \/ N[p].emitted = N[p].total
        BY <1>7, <2>2
      <3> QED
        BY <1>8, <2>2, <3>1, <3>2
    <2> QED
      BY <2>1, <2>2
  <1>19. ASSUME NEW q, NEW k \in Nat
         PROVE  Cardinality(Since(stream', q, m, k)) \in Nat
    <2>1. k \in Int
      OBVIOUS
    <2> QED
      BY <1>2, <2>1, SinceCounts
  <1>20. \A a \in Nat : a - a = 0 /\ 0 <= a
    OBVIOUS
  <1>21. ASSUME NEW k \in DOMAIN alerts
         PROVE  LET q == PairOf(alerts[k])
                IN  /\ q \in DOMAIN N
                    /\ N[q].total - N[q].emitted
                           <= Cardinality(Since(stream', q, m, alerts[k].index))
    <2>1. PICK q, j : q = PairOf(alerts[k]) /\ j = alerts[k].index /\ j \in 1..n
      BY <1>15
    <2>2. q \in DOMAIN T /\ T[q].total - T[q].emitted <= Cardinality(Since(stream, q, n, j))
      BY <1>16, <2>1
    <2>3. CASE q # p
      <3>1. Since(stream', q, m, j) = Since(stream, q, n, j) /\ N[q] = T[q]
        BY <1>5, <1>12, <2>2, <2>3
      <3> QED
        BY <1>5, <2>1, <2>2, <3>1
    <2>4. CASE q = p
      <3>1. /\ T[p].total - T[p].emitted <= Cardinality(Since(stream', p, m, j))
            /\ e.epoch > T[p].last =>
                   T[p].total + 1 - T[p].emitted <= Cardinality(Since(stream', p, m, j))
        BY <1>17, <2>1, <2>4
      <3>2. N[p].total - N[p].emitted <= Cardinality(Since(stream', p, m, j))
        <4>1. CASE N[p] = T[p]
          BY <3>1, <4>1
        <4>2. CASE /\ e.epoch > T[p].last /\ N[p].total = T[p].total + 1
                   /\ N[p].emitted = T[p].emitted \/ N[p].emitted = N[p].total
          <5>1. Cardinality(Since(stream', p, m, j)) \in Nat
            BY <1>19, <2>1
          <5> QED
            BY <1>8, <2>2, <2>4, <3>1, <4>2, <5>1, PaidWindow
        <4> QED
          BY <1>7, <2>2, <2>4, <4>1, <4>2
      <3> QED
        BY <1>5, <2>1, <2>4, <3>2
    <2> QED
      BY <2>3, <2>4
  <1>22. CASE r.out = <<>>
    <2>1. alerts' = alerts
      BY <1>22, FiledStep
    <2>2. Spaced'
      BY <2>1, NothingReported
    <2>3. Paid'
      BY <1>2, <1>4, <1>21, <2>1 DEF Paid
    <2> QED
      BY <1>10, <1>14, <2>2, <2>3
  <1>23. CASE r.out # <<>>
    <2>1. /\ p \in DOMAIN T /\ e.epoch > T[p].last /\ N[p].total = T[p].total + 1
          /\ N[p].emitted = N[p].total /\ N[p].total - T[p].emitted >= MinEvents
      BY <1>7, <1>23
    <2>2. PICK last : last = Len(alerts) + 1
      OBVIOUS
    <2>3. /\ DOMAIN alerts' = DOMAIN alerts \cup {last}
          /\ \A k \in DOMAIN alerts : alerts'[k] = alerts[k] /\ k < last
          /\ alerts'[last].src = e.src /\ alerts'[last].dst = e.dst
          /\ alerts'[last].index = m
      BY <1>1, <1>9, <1>23, <2>2, FiledStep
    <2>4. DOMAIN alerts = 1..Len(alerts) /\ last \in Nat
      BY <2>2 DEF Filed
    <2>5. PairOf(alerts'[last]) = p
      BY <1>3, <2>3 DEF PairOf
    <2>6. N[p].total - N[p].emitted <= Cardinality(Since(stream', p, m, m))
      <3>1. N[p].total - N[p].emitted = 0
        BY <1>18, <1>20, <2>1
      <3>2. Cardinality(Since(stream', p, m, m)) \in Nat
        BY <1>2, <1>19
      <3> QED
        BY <1>20, <3>1, <3>2
    <2>7. Paid'
      <3> SUFFICES ASSUME NEW k \in DOMAIN alerts'
                   PROVE  LET q == PairOf(alerts'[k])
                          IN  /\ q \in DOMAIN N
                              /\ N[q].total - N[q].emitted
                                     <= Cardinality(Since(stream', q, m, alerts'[k].index))
        BY <1>2, <1>4 DEF Paid
      <3>1. CASE k \in DOMAIN alerts
        BY <1>21, <2>3, <3>1
      <3>2. CASE k = last
        BY <1>5, <2>3, <2>5, <2>6, <3>2
      <3> QED
        BY <2>3, <3>1, <3>2
    <2>8. Spaced'
      <3> SUFFICES ASSUME NEW k \in DOMAIN alerts', NEW l \in DOMAIN alerts',
                          k < l, alerts'[k].dst = alerts'[l].dst
                   PROVE  Fresher(k, l)'
        BY DEF Spaced
      <3>1. k \in DOMAIN alerts
        BY <2>3, <2>4
      <3>2. CASE l \in DOMAIN alerts
        BY <2>3, <3>1, <3>2, OlderSpaced
      <3>3. CASE l = last
        <4>1. ASSUME alerts'[k].src = alerts'[l].src
              PROVE  MinEvents <= Cardinality(Since(stream', p, m, alerts'[k].index))
          <5>1. PairOf(alerts[k]) = p
            BY <1>3, <2>3, <3>1, <3>3, <4>1 DEF PairOf
          <5>2. T[p].total + 1 - T[p].emitted
                    <= Cardinality(Since(stream', p, m, alerts[k].index))
            BY <1>17, <2>1, <3>1, <5>1
          <5>3. alerts[k].index \in Nat
            BY <1>15, <3>1
          <5>4. Cardinality(Since(stream', p, m, alerts[k].index)) \in Nat
            BY <1>19, <5>3
          <5> QED
            BY <1>8, <2>1, <2>3, <3>1, <5>2, <5>4, PaidWindow
        <4> QED
          BY <2>3, <2>5, <3>3, <4>1 DEF Fresher
      <3> QED
        BY <2>3, <3>2, <3>3
    <2> QED
      BY <1>10, <1>14, <2>7, <2>8
  <1> QED
    BY <1>22, <1>23

LEMMA FreshInitially ==
  ASSUME Init
  PROVE  FreshInv
  <1>1. /\ alerts = <<>> /\ stream = <<>> /\ bounded.table = <<>>
    BY DEF Init, Fresh
  <1>2. alerts \in Seq(Reports) /\ DOMAIN alerts = {} /\ DOMAIN bounded.table = {}
    BY <1>1
  <1>3. Filed /\ Spaced
    BY <1>2 DEF Filed, Spaced
  <1>4. Remembered
    BY <1>2 DEF Remembered
  <1>5. Paid
    BY <1>2 DEF Paid
  <1>6. Clocked
    BY <1>1, <1>2 DEF Clocked
  <1> QED
    BY <1>3, <1>4, <1>5, <1>6 DEF FreshInv

LEMMA FreshStep ==
  ASSUME IInv, FreshInv, NEW o \in Alphabet[family], Fold(o)
  PROVE  FreshInv'
  <1> SUFFICES ASSUME family' \in Reporters
               PROVE  /\ Filed' /\ Spaced'
                      /\ ~bounded'.degraded =>
                             IF family' = "beacon" THEN Clocked' /\ Paid' ELSE Remembered'
    BY DEF FreshInv
  <1>1. Typed /\ Enveloped
    BY DEF IInv
  <1>2. PICK e \in Events :
             /\ stream' = Append(stream, e) /\ family' = family
             /\ bounded' = Observe(family, bounded, e, Cap[family], MaxEvents).det
             /\ alerts' = alerts \o Numbered(
                    Observe(family, bounded, e, Cap[family], MaxEvents).out)
    BY <1>1, FoldStep
  <1>3. PICK r : r = Observe(family, bounded, e, Cap[family], MaxEvents)
    OBVIOUS
  <1>4. bounded' = r.det /\ alerts' = alerts \o Numbered(r.out)
    BY <1>2, <1>3
  <1>5. stream \in Seq(Events)
    BY <1>1 DEF Typed
  <1>6. family \in Reporters /\ Filed /\ Spaced
    BY <1>2 DEF FreshInv
  <1>7. CASE bounded.degraded
    <2>1. r = Quiet(bounded)
      BY <1>3, <1>7, Zenon DEF Observe
    <2>2. r.det = bounded /\ r.out = <<>>
      BY <2>1, QuietOutcome
    <2>3. Filed' /\ alerts' = alerts
      BY <1>2, <1>4, <1>5, <1>6, <2>2, FiledStep
    <2>4. Spaced'
      BY <1>2, <1>5, <1>6, <2>3, NothingReported
    <2> QED
      BY <1>4, <1>7, <2>2, <2>3, <2>4
  <1>8. CASE ~bounded.degraded /\ family # "beacon"
    <2>1. family \in {"novelty", "dga"} /\ Remembered
      BY <1>6, <1>8 DEF FreshInv, Reporters
    <2>2. Filed' /\ Spaced' /\ (bounded'.degraded \/ Remembered')
      BY <1>2, <1>3, <1>4, <1>5, <1>6, <1>8, <2>1, RememberedStep
    <2> QED
      BY <1>2, <1>8, <2>2
  <1>9. CASE ~bounded.degraded /\ family = "beacon"
    <2>1. Clocked /\ Paid
      BY <1>6, <1>9 DEF FreshInv
    <2>2. r = Beacon(bounded, e, Cap[family], MaxEvents)
      BY <1>3, <1>9, BeaconObserves
    <2>3. r = IF ~e.x THEN Quiet(bounded)
              ELSE IF bounded.aux >= MaxEvents
                   THEN Quiet(Degrade(Kept(bounded, <<>>, bounded.aux)))
              ELSE IF Full(bounded.table, PairOf(e), Cap[family]) THEN Quiet(bounded)
              ELSE Contact(bounded, e)
      BY <2>2, BeaconCases DEF PairOf
    <2>4. r.out = <<>> => Filed' /\ alerts' = alerts
      BY <1>2, <1>4, <1>5, <1>6, FiledStep
    <2>5. CASE r = Quiet(Degrade(Kept(bounded, <<>>, bounded.aux)))
      <3>1. r.out = <<>> /\ r.det.degraded
        BY <2>5 DEF Quiet, Degrade
      <3>2. Spaced'
        BY <1>2, <1>5, <1>6, <2>4, <3>1, NothingReported
      <3> QED
        BY <1>4, <2>4, <3>1, <3>2
    <2>6. CASE /\ r = Quiet(bounded)
               /\ ~e.x \/ Full(bounded.table, PairOf(e), Cap[family])
      <3>1. r.det = bounded /\ r.out = <<>>
        BY <2>6, QuietOutcome
      <3>2. \/ ~e.x
            \/ PairOf(e) \notin DOMAIN bounded.table /\ ~Room(bounded, Cap[family])
        BY <2>6 DEF Full, Room
      <3>3. Filed' /\ alerts' = alerts /\ bounded' = bounded
        BY <1>4, <2>4, <3>1
      <3>4. Spaced' /\ Clocked' /\ Paid'
        BY <1>2, <1>5, <1>6, <1>9, <2>1, <3>2, <3>3, ClockedIgnored
      <3> QED
        BY <1>2, <1>9, <3>3, <3>4
    <2>7. CASE /\ r = Contact(bounded, e) /\ e.x
               /\ ~Full(bounded.table, PairOf(e), Cap[family])
      <3>1. \A k \in DOMAIN bounded.table : Buffered(bounded.table[k])
        BY <1>1, <1>9 DEF Enveloped
      <3>2. Filed' /\ Spaced' /\ Clocked' /\ Paid'
        BY <1>2, <1>4, <1>5, <1>6, <1>9, <2>1, <2>7, <3>1, ClockedContact
      <3> QED
        BY <1>2, <1>9, <3>2
    <2> QED
      BY <2>3, <2>5, <2>6, <2>7
  <1> QED
    BY <1>7, <1>8, <1>9

LEMMA FreshStutter ==
  ASSUME FreshInv, UNCHANGED vars
  PROVE  FreshInv'
  BY DEF vars, FreshInv, Filed, Spaced, Fresher, Remembered, Clocked, Paid

THEOREM FreshHolds == Spec => []FreshInv
  <1>1. IInv /\ FreshInv /\ [Next]_vars => FreshInv'
    BY FreshStep, FreshStutter DEF Next
  <1> QED
    BY FreshInitially, InvariantHolds, <1>1, PTL DEF Spec

(* One piece of behavior is one piece of evidence.  A pair is reported again  *)
(* only after MinEvents contacts that advanced its clock since the previous   *)
(* report, and a destination not as new twice within the retention: whatever  *)
(* is shed, skewed or late, and however often either was reported before.     *)
THEOREM AlertsAreAlwaysFresh == Spec => []AlertsAreFresh
  <1>1. FreshInv => AlertsAreFresh
    <2> SUFFICES ASSUME FreshInv,
                        NEW k \in 1..(Len(alerts) - 1), NEW n \in 2..Len(alerts),
                        k < n, alerts[k].dst = alerts[n].dst,
                        family \in Reporters
                 PROVE  /\ family = "beacon" /\ alerts[k].src = alerts[n].src =>
                               MinEvents <= Cardinality({i \in Advancing(alerts[n]) :
                                                            i > alerts[k].index})
                        /\ family \in {"novelty", "dga"} =>
                               alerts[n].epoch - alerts[k].epoch > Ttl
      BY DEF AlertsAreFresh, Reporters
    <2>1. alerts \in Seq(Reports) /\ Spaced
      BY DEF FreshInv, Filed
    <2>2. k \in DOMAIN alerts /\ n \in DOMAIN alerts
      BY <2>1
    <2>3. Fresher(k, n)
      BY <2>1, <2>2 DEF Spaced
    <2>4. {i \in Advancing(alerts[n]) : i > alerts[k].index}
              = Since(stream, PairOf(alerts[n]), alerts[n].index, alerts[k].index)
      BY AdvancingIs DEF Since
    <2> QED
      BY <2>3, <2>4 DEF Fresher
  <1> QED
    BY FreshHolds, <1>1, PTL

-----------------------------------------------------------------------------
(* Induction over the naturals, by a least counterexample: a set of naturals *)
(* that has 0 and each one's successor has them all.                         *)
LEMMA LeastNumber ==
  ASSUME NEW T \in SUBSET Nat, T # {}
  PROVE  \E n \in T : \A m \in T : n <= m
  <1> DEFINE R == OpToRel(<, Nat)
  <1>1. IsWellFoundedOn(R, Nat)
    BY NatLessThanWellFounded
  <1>2. \A x, y \in Nat : <<x, y>> \in R <=> x < y
    BY DEF OpToRel
  <1> HIDE DEF R
  <1>3. PICK n \in T : \A m \in T : ~ (<<m, n>> \in R)
    BY <1>1, WFMin
  <1>4. ASSUME NEW m \in T
        PROVE  n <= m
    <2>1. m \in Nat /\ n \in Nat /\ <<m, n>> \notin R
      BY <1>3
    <2>2. ~(m < n)
      BY <1>2, <2>1
    <2> QED
      BY <2>1, <2>2
  <1> QED
    BY <1>4

LEMMA NaturalSet ==
  ASSUME NEW S \in SUBSET Nat, 0 \in S, \A n \in S : n + 1 \in S
  PROVE  S = Nat
  <1> SUFFICES ASSUME Nat \ S # {}
               PROVE  FALSE
    OBVIOUS
  <1>1. PICK n \in Nat \ S : \A m \in Nat \ S : n <= m
    BY LeastNumber
  <1>2. n # 0 /\ n - 1 \in Nat
    BY <1>1
  <1>3. n - 1 \in S
    BY <1>1, <1>2
  <1> QED
    BY <1>1, <1>2, <1>3

-----------------------------------------------------------------------------
(* Sums, and lists of gaps.                                                  *)

(* The equation Total's recursion solves, and a solution of it.              *)
Totals(f, n, points) ==
    f = [k \in 0..n |-> IF k = 0 THEN 0 ELSE f[k - 1] + points[k]]

LEMMA TotalsExists ==
  ASSUME NEW points
  PROVE  \A n \in Nat : \E f : Totals(f, n, points)
  <1> DEFINE S == {n \in Nat : \E f : Totals(f, n, points)}
  <1>1. 0 \in S
    <2>1. Totals([k \in 0..0 |-> 0], 0, points)
      BY DEF Totals
    <2> QED
      BY <2>1
  <1>2. ASSUME NEW n \in S
        PROVE  n + 1 \in S
    <2>1. PICK f : Totals(f, n, points)
      OBVIOUS
    <2> DEFINE g == [k \in 0..(n + 1) |-> IF k = 0 THEN 0 ELSE f[k - 1] + points[k]]
    <2>2. \A k \in 0..n : f[k] = g[k]
      <3>1. /\ DOMAIN f = 0..n
            /\ \A k \in 0..n : f[k] = IF k = 0 THEN 0 ELSE f[k - 1] + points[k]
        BY <2>1, Zenon DEF Totals
      <3>2. \A k \in 0..n : k \in 0..(n + 1)
        OBVIOUS
      <3> QED
        BY <3>1, <3>2, Zenon
    <2>3. \A k \in 0..(n + 1) : k # 0 => k - 1 \in 0..n
      OBVIOUS
    <2>4. \A k \in 0..(n + 1) : k # 0 => g[k - 1] = f[k - 1]
      BY <2>2, <2>3
    <2>5. g = [k \in 0..(n + 1) |-> IF k = 0 THEN 0 ELSE g[k - 1] + points[k]]
      BY <2>4
    <2> HIDE DEF g
    <2>6. Totals(g, n + 1, points)
      BY <2>5 DEF Totals
    <2> QED
      BY <2>6
  <1> QED
    BY <1>1, <1>2, NaturalSet

(* Total's partial sums.                                                     *)
AddsUp(f, n, points) ==
    /\ Total(points, n) = f[n]
    /\ f[0] = 0
    /\ \A k \in 1..n : f[k] = f[k - 1] + points[k]

LEMMA TotalAddsUp ==
  ASSUME NEW n \in Nat, NEW points
  PROVE  \E f : AddsUp(f, n, points)
  <1>1. PICK f : Totals(f, n, points) /\ Total(points, n) = f[n]
    <2>1. \E f : Totals(f, n, points)
      BY TotalsExists
    <2>k. PICK k : k = CHOOSE f : Totals(f, n, points)
      OBVIOUS
    <2>2. Totals(k, n, points)
      BY <2>1, <2>k
    <2>3. Total(points, n) = k[n]
      BY <2>k DEF Total, Totals
    <2> QED
      BY <2>2, <2>3
  <1>2. \A k \in 0..n : f[k] = IF k = 0 THEN 0 ELSE f[k - 1] + points[k]
    BY <1>1, Zenon DEF Totals
  <1>3. 0 \in 0..n /\ \A k \in 1..n : k \in 0..n /\ k # 0
    OBVIOUS
  <1> QED
    BY <1>1, <1>2, <1>3 DEF AddsUp


(* A sum of no less, over no fewer, is no less.                              *)
LEMMA TotalsCompare ==
  ASSUME NEW n \in Nat, NEW m \in Nat, n <= m, NEW f, NEW g, NEW p, NEW q,
         AddsUp(f, n, p), AddsUp(g, m, q),
         \A k \in 1..n : p[k] \in Int /\ q[k] \in Int /\ p[k] <= q[k]
  PROVE  \A k \in 0..n : f[k] \in Int /\ g[k] \in Int /\ f[k] <= g[k]
  <1> DEFINE N == {k \in Nat : k <= n => f[k] \in Int /\ g[k] \in Int /\ f[k] <= g[k]}
  <1>1. /\ f[0] = 0 /\ \A k \in 1..n : f[k] = f[k - 1] + p[k]
        /\ g[0] = 0 /\ \A k \in 1..m : g[k] = g[k - 1] + q[k]
    BY DEF AddsUp
  <1>2. 0 \in N
    BY <1>1
  <1>3. ASSUME NEW k \in N
        PROVE  k + 1 \in N
    <2> SUFFICES ASSUME k + 1 <= n
                 PROVE  f[k + 1] \in Int /\ g[k + 1] \in Int /\ f[k + 1] <= g[k + 1]
      OBVIOUS
    <2>1. k + 1 \in 1..n /\ k + 1 \in 1..m /\ (k + 1) - 1 = k
      OBVIOUS
    <2>2. f[k + 1] = f[k] + p[k + 1] /\ g[k + 1] = g[k] + q[k + 1]
      BY <1>1, <2>1
    <2>3. f[k] \in Int /\ g[k] \in Int /\ f[k] <= g[k]
      OBVIOUS
    <2>4. p[k + 1] \in Int /\ q[k + 1] \in Int /\ p[k + 1] <= q[k + 1]
      BY <2>1
    <2> QED
      BY <2>2, <2>3, <2>4
  <1>4. N \in SUBSET Nat
    OBVIOUS
  <1> HIDE DEF N
  <1>5. N = Nat
    BY <1>2, <1>3, <1>4, NaturalSet
  <1> QED
    BY <1>5 DEF N

LEMMA TotalMonotone ==
  ASSUME NEW n \in Nat, NEW p, NEW q,
         \A k \in 1..n : p[k] \in Int /\ q[k] \in Int /\ p[k] <= q[k]
  PROVE  Total(p, n) \in Int /\ Total(q, n) \in Int /\ Total(p, n) <= Total(q, n)
  <1>1. PICK f : AddsUp(f, n, p)
    BY TotalAddsUp
  <1>2. PICK g : AddsUp(g, n, q)
    BY TotalAddsUp
  <1>3. n \in 0..n /\ n <= n
    OBVIOUS
  <1>4. \A k \in 0..n : f[k] \in Int /\ g[k] \in Int /\ f[k] <= g[k]
    BY <1>1, <1>2, <1>3, TotalsCompare
  <1>5. Total(p, n) = f[n] /\ Total(q, n) = g[n]
    BY <1>1, <1>2 DEF AddsUp
  <1> QED
    BY <1>3, <1>4, <1>5

LEMMA TotalCounts ==
  ASSUME NEW n \in Nat, NEW p, \A k \in 1..n : p[k] \in Nat
  PROVE  Total(p, n) \in Nat
  <1>1. PICK f : AddsUp(f, n, p)
    BY TotalAddsUp
  <1>2. f[0] = 0 /\ \A k \in 1..n : f[k] = f[k - 1] + p[k]
    BY <1>1 DEF AddsUp
  <1> DEFINE N == {k \in Nat : k <= n => f[k] \in Nat}
  <1>3. 0 \in N
    BY <1>2
  <1>4. ASSUME NEW k \in N
        PROVE  k + 1 \in N
    <2> SUFFICES ASSUME k + 1 <= n
                 PROVE  f[k + 1] \in Nat
      OBVIOUS
    <2>1. k + 1 \in 1..n /\ (k + 1) - 1 = k /\ f[k] \in Nat
      OBVIOUS
    <2> QED
      BY <1>2, <2>1
  <1>5. N \in SUBSET Nat
    OBVIOUS
  <1> HIDE DEF N
  <1>6. N = Nat
    BY <1>3, <1>4, <1>5, NaturalSet
  <1>7. f[n] \in Nat
    BY <1>6 DEF N
  <1> QED
    BY <1>1, <1>7 DEF AddsUp

LEMMA TotalNext ==
  ASSUME NEW n \in Nat, NEW p, NEW q,
         \A k \in 1..n : p[k] \in Int /\ p[k] = q[k]
  PROVE  Total(q, n + 1) = Total(p, n) + q[n + 1]
  <1>1. PICK f : AddsUp(f, n, p)
    BY TotalAddsUp
  <1>2. PICK g : AddsUp(g, n + 1, q)
    BY TotalAddsUp
  <1>3. AddsUp(g, n + 1, q) /\ Total(q, n + 1) = g[n + 1]
    BY <1>2 DEF AddsUp
  <1>5. f[n] = g[n]
    <2> DEFINE N == {k \in Nat : k <= n => f[k] = g[k]}
    <2>1. /\ f[0] = 0 /\ \A k \in 1..n : f[k] = f[k - 1] + p[k]
          /\ g[0] = 0 /\ \A k \in 1..(n + 1) : g[k] = g[k - 1] + q[k]
      BY <1>1, <1>2 DEF AddsUp
    <2>2. 0 \in N
      BY <2>1
    <2>3. ASSUME NEW k \in N
          PROVE  k + 1 \in N
      <3> SUFFICES ASSUME k + 1 <= n
                   PROVE  f[k + 1] = g[k + 1]
        OBVIOUS
      <3>1. k + 1 \in 1..n /\ k + 1 \in 1..(n + 1) /\ (k + 1) - 1 = k
        OBVIOUS
      <3> QED
        BY <2>1, <3>1
    <2>4. N \in SUBSET Nat
      OBVIOUS
    <2> HIDE DEF N
    <2>5. N = Nat
      BY <2>2, <2>3, <2>4, NaturalSet
    <2> QED
      BY <2>5 DEF N
  <1>6. g[n + 1] = g[n] + q[n + 1]
    <2>1. n + 1 \in 1..(n + 1) /\ (n + 1) - 1 = n
      OBVIOUS
    <2> QED
      BY <1>2, <2>1 DEF AddsUp
  <1>7. Total(p, n) = f[n]
    BY <1>1 DEF AddsUp
  <1> QED
    BY <1>3, <1>5, <1>6, <1>7

(* The equation Listed's recursion solves, and a solution of it.             *)
Listing(f, n, points, S) ==
    f = [k \in 0..n |-> IF k = 0 THEN <<>>
                        ELSE IF k \in S THEN Append(f[k - 1], points[k]) ELSE f[k - 1]]

LEMMA ListingExists ==
  ASSUME NEW points, NEW S
  PROVE  \A n \in Nat : \E f : Listing(f, n, points, S)
  <1> DEFINE N == {n \in Nat : \E f : Listing(f, n, points, S)}
  <1>1. 0 \in N
    <2>1. Listing([k \in 0..0 |-> <<>>], 0, points, S)
      BY DEF Listing
    <2> QED
      BY <2>1
  <1>2. ASSUME NEW n \in N
        PROVE  n + 1 \in N
    <2>1. PICK f : Listing(f, n, points, S)
      OBVIOUS
    <2> DEFINE step(g, k) == IF k = 0 THEN <<>>
                             ELSE IF k \in S THEN Append(g[k - 1], points[k]) ELSE g[k - 1]
               g == [k \in 0..(n + 1) |-> step(f, k)]
    <2>2. \A k \in 0..n : f[k] = g[k]
      <3>1. \A k \in 0..n : f[k] = step(f, k)
        BY <2>1, Zenon DEF Listing
      <3>2. \A k \in 0..n : k \in 0..(n + 1)
        OBVIOUS
      <3> QED
        BY <3>1, <3>2, Zenon
    <2>3. \A k \in 0..(n + 1) : k # 0 => k - 1 \in 0..n
      OBVIOUS
    <2>4. \A k \in 0..(n + 1) : k # 0 => g[k - 1] = f[k - 1]
      BY <2>2, <2>3
    <2>5. g = [k \in 0..(n + 1) |-> step(g, k)]
      BY <2>4
    <2> HIDE DEF g
    <2>6. Listing(g, n + 1, points, S)
      BY <2>5, Zenon DEF Listing
    <2> QED
      BY <2>6
  <1> QED
    BY <1>1, <1>2, NaturalSet

(* Its list after each of the points.                                        *)
Grows(f, n, points, S) ==
    /\ Listed(points, S, n) = f[n] /\ f[0] = <<>>
    /\ \A k \in 1..n : f[k] = IF k \in S THEN Append(f[k - 1], points[k]) ELSE f[k - 1]

LEMMA ListedGrows ==
  ASSUME NEW n \in Nat, NEW points, NEW S
  PROVE  \E f : Grows(f, n, points, S)
  <1>1. PICK f : Listing(f, n, points, S) /\ Listed(points, S, n) = f[n]
    <2>1. \E f : Listing(f, n, points, S)
      BY ListingExists
    <2>k. PICK k : k = CHOOSE f : Listing(f, n, points, S)
      OBVIOUS
    <2>2. Listing(k, n, points, S)
      BY <2>1, <2>k
    <2>3. Listed(points, S, n) = k[n]
      BY <2>k DEF Listed, Listing
    <2> QED
      BY <2>2, <2>3
  <1>2. \A k \in 0..n : f[k] = IF k = 0 THEN <<>>
                               ELSE IF k \in S THEN Append(f[k - 1], points[k]) ELSE f[k - 1]
    BY <1>1, Zenon DEF Listing
  <1>3. 0 \in 0..n /\ \A k \in 1..n : k \in 0..n /\ k # 0
    OBVIOUS
  <1>4. f[0] = <<>>
    BY <1>2, <1>3, Zenon
  <1>5. \A k \in 1..n : f[k] = IF k \in S THEN Append(f[k - 1], points[k]) ELSE f[k - 1]
    BY <1>2, <1>3, Zenon
  <1> QED
    BY <1>1, <1>4, <1>5 DEF Grows

(* One more point, listed or not.                                            *)
SamePoints(n, p, S, q, T) ==
    \A k \in 1..n : (k \in S <=> k \in T) /\ (k \in S => p[k] = q[k])
LEMMA ListedNext ==
  ASSUME NEW n \in Nat, NEW p, NEW q, NEW S, NEW T,
         SamePoints(n, p, S, q, T)
  PROVE  /\ Listed(q, T, n) = Listed(p, S, n)
         /\ Listed(q, T, n + 1) = IF n + 1 \in T THEN Append(Listed(p, S, n), q[n + 1])
                                  ELSE Listed(p, S, n)
  <1>1. PICK f : Grows(f, n, p, S)
    BY ListedGrows
  <1>2. ASSUME NEW l \in {n, n + 1}, NEW g, Grows(g, l, q, T)
        PROVE  f[n] = g[n]
    <2> DEFINE N == {k \in Nat : k <= n => f[k] = g[k]}
    <2>0. l \in Nat /\ n <= l
      OBVIOUS
    <2>1. /\ f[0] = <<>>
          /\ \A k \in 1..n : f[k] = IF k \in S THEN Append(f[k - 1], p[k]) ELSE f[k - 1]
          /\ g[0] = <<>>
          /\ \A k \in 1..l : g[k] = IF k \in T THEN Append(g[k - 1], q[k]) ELSE g[k - 1]
      BY <1>1, <1>2 DEF Grows
    <2>2. 0 \in N
      BY <2>1
    <2>3. ASSUME NEW k \in N
          PROVE  k + 1 \in N
      <3> SUFFICES ASSUME k + 1 <= n
                   PROVE  f[k + 1] = g[k + 1]
        OBVIOUS
      <3>1. k + 1 \in 1..n /\ k + 1 \in 1..l /\ (k + 1) - 1 = k
        BY <2>0
      <3>2. f[k] = g[k]
        OBVIOUS
      <3>3. f[k + 1] = IF k + 1 \in S THEN Append(f[k], p[k + 1]) ELSE f[k]
        BY <2>1, <3>1
      <3>4. g[k + 1] = IF k + 1 \in T THEN Append(g[k], q[k + 1]) ELSE g[k]
        BY <2>1, <3>1
      <3> QED
        BY <3>1, <3>2, <3>3, <3>4 DEF SamePoints
    <2>4. N \in SUBSET Nat
      OBVIOUS
    <2> HIDE DEF N
    <2>5. N = Nat
      BY <2>2, <2>3, <2>4, NaturalSet
    <2> QED
      BY <2>5 DEF N
  <1>3. PICK g : Grows(g, n, q, T)
    BY ListedGrows
  <1>4. PICK h : Grows(h, n + 1, q, T)
    BY ListedGrows
  <1>5. f[n] = g[n] /\ f[n] = h[n]
    BY <1>2, <1>3, <1>4
  <1>6. h[n + 1] = IF n + 1 \in T THEN Append(h[n], q[n + 1]) ELSE h[n]
    <2>1. n + 1 \in 1..(n + 1) /\ (n + 1) - 1 = n
      OBVIOUS
    <2>2. \A k \in 1..(n + 1) : h[k] = IF k \in T THEN Append(h[k - 1], q[k]) ELSE h[k - 1]
      BY <1>4 DEF Grows
    <2> QED
      BY <2>1, <2>2
  <1>7. Listed(p, S, n) = f[n] /\ Listed(q, T, n) = g[n] /\ Listed(q, T, n + 1) = h[n + 1]
    BY <1>1, <1>3, <1>4 DEF Grows
  <1> QED
    BY <1>5, <1>6, <1>7

-----------------------------------------------------------------------------
(* What the tables of the other families remember of the stream.             *)

Towards(s, k) == {i \in 1..Len(s) : s[i].dst = k}
From(s, k) == {i \in 1..Len(s) : s[i].src = k}
Ordered(s) == \A i \in 1..(Len(s) - 1) : s[i].epoch <= s[i + 1].epoch

(* BD-4: the answers of a domain were all seen for it.                        *)
AnswersOf(s, k) == {s[i].x : i \in Towards(s, k)}
FluxGrounded(s, T) == \A k \in DOMAIN T : T[k].answers \subseteq AnswersOf(s, k)
FluxClaim(s, a) == MaxAnswers <= Cardinality(AnswersOf(s, a.dst))

LEMMA AnswersGrow ==
  ASSUME NEW s, NEW e, NEW t, NEW n, NEW m, Grown(s, e, t, n, m)
  PROVE  /\ \A k : AnswersOf(s, k) \subseteq AnswersOf(t, k)
         /\ e.x \in AnswersOf(t, e.dst)
         /\ \A k : IsFiniteSet(AnswersOf(t, k))
  <1>1. /\ s \in Seq(Events) /\ t = Append(s, e)
        /\ n = Len(s) /\ n \in Nat /\ m = n + 1 /\ Len(t) = m
    BY DEF Grown
  <1>2. t[m] = e /\ \A i \in 1..n : t[i] = s[i] /\ i \in 1..m
    BY <1>1
  <1>3. m \in 1..m
    BY <1>1
  <1>4. ASSUME NEW k
        PROVE  AnswersOf(s, k) \subseteq AnswersOf(t, k)
    BY <1>1, <1>2 DEF AnswersOf, Towards
  <1>5. e.x \in AnswersOf(t, e.dst)
    BY <1>1, <1>2, <1>3 DEF AnswersOf, Towards
  <1>6. ASSUME NEW k
        PROVE  IsFiniteSet(AnswersOf(t, k))
    <2>1. IsFiniteSet(Towards(t, k))
      <3>1. IsFiniteSet(1..m)
        BY <1>1, FS_Interval
      <3>2. Towards(t, k) \subseteq 1..m
        BY <1>1 DEF Towards
      <3> QED
        BY <3>1, <3>2, FS_Subset
    <2>2. PICK f : f = [i \in Towards(t, k) |-> t[i].x]
      OBVIOUS
    <2>3. f \in Surjection(Towards(t, k), AnswersOf(t, k))
      BY <2>2 DEF Surjection, AnswersOf
    <2> QED
      BY <2>1, <2>3, FS_Surjection
  <1> QED
    BY <1>4, <1>5, <1>6

LEMMA FluxStands ==
  ASSUME NEW s, NEW e, NEW t, NEW n, NEW m, Grown(s, e, t, n, m),
         NEW d, NEW cap, FluxGrounded(s, d.table), NEW r, r = FastFlux(d, e, cap)
  PROVE  /\ r.det.degraded \/ FluxGrounded(t, r.det.table)
         /\ \/ r.out = <<>>
            \/ FluxClaim(t, e) /\ \E k \in Nat : r.out = OutOf(e, k)
  <1>1. PICK old, epochs, kept, new, cond :
            /\ old = At(d.table, e.dst, [answers |-> {}, epochs |-> <<>>])
            /\ epochs = Append(old.epochs, e.epoch)
            /\ kept = IF e.epoch - epochs[1] > FluxWindow
                      THEN LastOf(epochs, FluxKept) ELSE epochs
            /\ new = [answers |-> old.answers \cup {e.x}, epochs |-> kept]
            /\ cond <=> /\ Len(kept) >= MinAnswers
                        /\ Cardinality(new.answers) >= MaxAnswers
    OBVIOUS
  <1>2. r = IF Full(d.table, e.dst, cap) THEN Quiet(Degrade(d))
            ELSE AlertIf(cond, With(d, e.dst, new), e, Cardinality(new.answers))
    BY <1>1, Zenon DEF FastFlux
  <1>3. CASE Full(d.table, e.dst, cap)
    BY <1>2, <1>3 DEF Quiet, Degrade
  <1>4. CASE ~Full(d.table, e.dst, cap)
    <2>1. r = AlertIf(cond, With(d, e.dst, new), e, Cardinality(new.answers))
      BY <1>2, <1>4
    <2>2. r.det.table = Put(d.table, e.dst, new)
      BY <2>1, AlertIfOutcome, WithFields
    <2>3. old.answers \subseteq AnswersOf(t, e.dst)
      <3>1. CASE e.dst \in DOMAIN d.table
        BY <1>1, <3>1, AnswersGrow DEF At, FluxGrounded
      <3>2. CASE e.dst \notin DOMAIN d.table
        BY <1>1, <3>2 DEF At
      <3> QED
        BY <3>1, <3>2
    <2>4. new.answers \subseteq AnswersOf(t, e.dst)
      BY <1>1, <2>3, AnswersGrow
    <2>5. FluxGrounded(t, r.det.table)
      <3>1. PICK N : N = r.det.table
        OBVIOUS
      <3>2. /\ DOMAIN N = DOMAIN d.table \cup {e.dst} /\ N[e.dst] = new
            /\ \A j \in DOMAIN d.table : j # e.dst => N[j] = d.table[j]
        BY <2>2, <3>1 DEF Put
      <3>3. \A j \in DOMAIN d.table : d.table[j].answers \subseteq AnswersOf(t, j)
        BY AnswersGrow DEF FluxGrounded
      <3> QED
        BY <2>4, <3>1, <3>2, <3>3 DEF FluxGrounded
    <2>6. /\ IsFiniteSet(new.answers) /\ Cardinality(new.answers) \in Nat
          /\ Cardinality(AnswersOf(t, e.dst)) \in Nat
          /\ Cardinality(new.answers) <= Cardinality(AnswersOf(t, e.dst))
      <3>1. IsFiniteSet(AnswersOf(t, e.dst))
        BY AnswersGrow
      <3> QED
        BY <2>4, <3>1, FS_Subset, FS_CardinalityType
    <2>7. CASE cond
      <3>1. r.out = OutOf(e, Cardinality(new.answers))
        BY <2>1, <2>7, AlertOutcome DEF AlertIf, OutOf
      <3>2. MaxAnswers \in Int
        BY DetectorAssumption
      <3>3. FluxClaim(t, e)
        BY <1>1, <2>6, <2>7, <3>2 DEF FluxClaim
      <3> QED
        BY <2>5, <2>6, <3>1, <3>3
    <2>8. CASE ~cond
      <3>1. r.out = <<>>
        BY <2>1, <2>8 DEF AlertIf, Quiet
      <3> QED
        BY <2>5, <3>1
    <2> QED
      BY <2>7, <2>8
  <1> QED
    BY <1>3, <1>4

LEMMA GrownFacts ==
  ASSUME NEW s, NEW e, NEW t, NEW n, NEW m, Grown(s, e, t, n, m)
  PROVE  /\ n \in Nat /\ m \in Nat /\ m = n + 1 /\ Len(s) = n /\ Len(t) = m /\ t[m] = e
         /\ \A i \in 1..n : t[i] = s[i] /\ i \in 1..m /\ s[i].epoch \in Int /\ i < m
         /\ \A i \in 1..m : i # m => i \in 1..n
         /\ m \in 1..m /\ m \notin 1..n /\ e.epoch \in Int
  <1>1. /\ s \in Seq(Events) /\ e \in Events /\ t = Append(s, e)
        /\ n = Len(s) /\ n \in Nat /\ m = n + 1 /\ Len(t) = m
    BY DEF Grown
  <1>2. t[m] = e /\ \A i \in 1..n : t[i] = s[i] /\ i \in 1..m /\ i < m
    BY <1>1
  <1>3. \A x \in Events : x.epoch \in Int
    BY DEF Events
  <1>4. \A i \in 1..n : s[i] \in Events
    BY <1>1
  <1>5. (\A i \in 1..m : i # m => i \in 1..n) /\ m \in 1..m /\ m \notin 1..n /\ m \in Nat
    BY <1>1
  <1> QED
    BY <1>1, <1>2, <1>3, <1>4, <1>5

(* In a stream whose clock never steps back no observation is later than one *)
(* that follows it.                                                          *)
LEMMA OrderedThroughout ==
  ASSUME NEW s \in Seq(Events), Ordered(s)
  PROVE  \A i \in 1..Len(s), j \in 1..Len(s) : i <= j => s[i].epoch <= s[j].epoch
  <1> SUFFICES ASSUME NEW i \in 1..Len(s)
               PROVE  \A j \in 1..Len(s) : i <= j => s[i].epoch <= s[j].epoch
    OBVIOUS
  <1>1. PICK E : E = [j \in 1..Len(s) |-> s[j].epoch]
    OBVIOUS
  <1>2. \A j \in 1..Len(s) : E[j] = s[j].epoch /\ E[j] \in Int
    <2>1. \A j \in 1..Len(s) : s[j] \in Events
      OBVIOUS
    <2>2. \A x \in Events : x.epoch \in Int
      BY DEF Events
    <2> QED
      BY <1>1, <2>1, <2>2
  <1>3. \A j \in 1..(Len(s) - 1) : E[j] <= E[j + 1]
    <2>1. \A j \in 1..(Len(s) - 1) : j \in 1..Len(s) /\ j + 1 \in 1..Len(s)
      OBVIOUS
    <2> QED
      BY <1>2, <2>1 DEF Ordered
  <1> DEFINE N == {k \in Nat : i + k <= Len(s) => E[i] <= E[i + k]}
  <1>4. 0 \in N
    BY <1>2
  <1>5. ASSUME NEW k \in N
        PROVE  k + 1 \in N
    <2> SUFFICES ASSUME i + (k + 1) <= Len(s)
                 PROVE  E[i] <= E[i + (k + 1)]
      OBVIOUS
    <2>1. PICK j : j = i + k
      OBVIOUS
    <2>2. /\ j \in 1..(Len(s) - 1) /\ j \in 1..Len(s) /\ j + 1 \in 1..Len(s)
          /\ i + (k + 1) = j + 1 /\ E[i] <= E[j]
      BY <2>1
    <2>3. E[j] <= E[j + 1] /\ E[i] \in Int /\ E[j] \in Int /\ E[j + 1] \in Int
      BY <1>2, <1>3, <2>2
    <2> QED
      BY <2>2, <2>3
  <1>6. N \in SUBSET Nat
    OBVIOUS
  <1> HIDE DEF N
  <1>7. N = Nat
    BY <1>4, <1>5, <1>6, NaturalSet
  <1>8. ASSUME NEW j \in 1..Len(s), i <= j
        PROVE  E[i] <= E[j]
    <2>1. j - i \in Nat /\ i + (j - i) = j
      BY <1>8
    <2>2. j - i \in N
      BY <1>7, <2>1
    <2> QED
      BY <2>1, <2>2 DEF N
  <1> QED
    BY <1>2, <1>8

LEMMA GrownOrdered ==
  ASSUME NEW s, NEW e, NEW t, NEW n, NEW m, Grown(s, e, t, n, m), Ordered(t)
  PROVE  Ordered(s) /\ \A i \in 1..n : s[i].epoch <= e.epoch
  <1>1. t \in Seq(Events)
    BY DEF Grown
  <1>2. \A i \in 1..m, j \in 1..m : i <= j => t[i].epoch <= t[j].epoch
    BY <1>1, GrownFacts, OrderedThroughout
  <1>3. \A i \in 1..n : t[i] = s[i] /\ i \in 1..m /\ i <= m
    BY GrownFacts
  <1>f. m \in 1..m /\ t[m] = e /\ Len(s) = n /\ n \in Nat
    BY GrownFacts
  <1>4. \A i \in 1..n : s[i].epoch <= e.epoch
    BY <1>2, <1>3, <1>f
  <1>5. \A i \in 1..(n - 1) : i \in 1..n /\ i + 1 \in 1..n /\ i <= i + 1
    BY <1>f
  <1>6. Ordered(s)
    BY <1>2, <1>3, <1>5, <1>f DEF Ordered
  <1> QED
    BY <1>4, <1>6

-----------------------------------------------------------------------------
(* BD-8: the hosts of a destination were seen since its first contact.       *)
HostsSince(s, k, epoch) == {s[i].src : i \in {j \in Towards(s, k) : s[j].epoch >= epoch}}
SyncRow(s, k, row) ==
    /\ IsFiniteSet(row.hosts)
    /\ Ordered(s) => /\ \E i \in 1..Len(s) : row.first = s[i].epoch
                     /\ row.hosts \subseteq HostsSince(s, k, row.first)
SyncGrounded(s, T) == \A k \in DOMAIN T : SyncRow(s, k, T[k])
SyncClaim(s, a) ==
    Ordered(s) => MinHosts <= Cardinality(HostsSince(s, a.dst, a.epoch - SyncWindow))

LEMMA HostsFinite ==
  ASSUME NEW s \in Seq(Events), NEW k, NEW epoch
  PROVE  IsFiniteSet(HostsSince(s, k, epoch))
  <1>1. PICK S : S = {j \in Towards(s, k) : s[j].epoch >= epoch}
    OBVIOUS
  <1>2. IsFiniteSet(S)
    <2>1. IsFiniteSet(1..Len(s))
      BY FS_Interval
    <2>2. S \subseteq 1..Len(s)
      BY <1>1 DEF Towards
    <2> QED
      BY <2>1, <2>2, FS_Subset
  <1>3. PICK f : f = [i \in S |-> s[i].src]
    OBVIOUS
  <1>4. f \in Surjection(S, HostsSince(s, k, epoch))
    BY <1>1, <1>3 DEF Surjection, HostsSince
  <1> QED
    BY <1>2, <1>4, FS_Surjection

LEMMA HostsGrow ==
  ASSUME NEW s, NEW e, NEW t, NEW n, NEW m, Grown(s, e, t, n, m), NEW epoch
  PROVE  /\ \A k : HostsSince(s, k, epoch) \subseteq HostsSince(t, k, epoch)
         /\ e.epoch >= epoch => e.src \in HostsSince(t, e.dst, epoch)
  <1>1. /\ \A i \in 1..n : t[i] = s[i] /\ i \in 1..m
        /\ t[m] = e /\ m \in 1..m /\ Len(s) = n /\ Len(t) = m
    BY GrownFacts
  <1>2. ASSUME NEW k
        PROVE  HostsSince(s, k, epoch) \subseteq HostsSince(t, k, epoch)
    BY <1>1 DEF HostsSince, Towards
  <1>3. e.epoch >= epoch => e.src \in HostsSince(t, e.dst, epoch)
    BY <1>1 DEF HostsSince, Towards
  <1> QED
    BY <1>2, <1>3

(* A row stands while other destinations are contacted.                      *)
LEMMA SyncRowGrows ==
  ASSUME NEW s, NEW e, NEW t, NEW n, NEW m, Grown(s, e, t, n, m), NEW k, NEW row,
         SyncRow(s, k, row)
  PROVE  SyncRow(t, k, row)
  <1> SUFFICES ASSUME Ordered(t)
               PROVE  /\ \E i \in 1..m : row.first = t[i].epoch
                      /\ row.hosts \subseteq HostsSince(t, k, row.first)
    BY GrownFacts DEF SyncRow
  <1>1. Ordered(s)
    BY GrownOrdered
  <1>2. PICK i \in 1..n : row.first = s[i].epoch
    BY <1>1, GrownFacts DEF SyncRow
  <1>3. i \in 1..m /\ row.first = t[i].epoch
    BY <1>2, GrownFacts
  <1>4. row.hosts \subseteq HostsSince(s, k, row.first)
    BY <1>1 DEF SyncRow
  <1>5. row.hosts \subseteq HostsSince(t, k, row.first)
    BY <1>4, HostsGrow
  <1> QED
    BY <1>3, <1>5

LEMMA SyncStands ==
  ASSUME NEW s, NEW e, NEW t, NEW n, NEW m, Grown(s, e, t, n, m),
         NEW d, NEW cap, SyncGrounded(s, d.table), NEW r, r = Sync(d, e, cap)
  PROVE  /\ r.det.degraded \/ SyncGrounded(t, r.det.table)
         /\ \/ r.out = <<>>
            \/ SyncClaim(t, e) /\ \E k \in Nat : r.out = OutOf(e, k)
  <1>1. PICK old, new, cond :
            /\ old = At(d.table, e.dst, [first |-> e.epoch, hosts |-> {}])
            /\ new = IF e.epoch - old.first > Ttl
                     THEN [first |-> e.epoch, hosts |-> {e.src}]
                     ELSE [first |-> old.first, hosts |-> old.hosts \cup {e.src}]
            /\ cond <=> /\ Cardinality(new.hosts) >= MinHosts
                        /\ e.epoch - new.first <= SyncWindow
    OBVIOUS
  <1>2. r = IF Full(d.table, e.dst, cap) THEN Quiet(Degrade(d))
            ELSE AlertIf(cond, With(d, e.dst, new), e, Cardinality(new.hosts))
    BY <1>1, Zenon DEF Sync
  <1>3. CASE Full(d.table, e.dst, cap)
    BY <1>2, <1>3 DEF Quiet, Degrade
  <1>4. CASE ~Full(d.table, e.dst, cap)
    <2>1. r = AlertIf(cond, With(d, e.dst, new), e, Cardinality(new.hosts))
      BY <1>2, <1>4
    <2>2. r.det.table = Put(d.table, e.dst, new)
      BY <2>1, AlertIfOutcome, WithFields
    <2>3. e.epoch \in Int /\ m \in 1..m /\ t[m] = e /\ Len(t) = m /\ Len(s) = n
      BY GrownFacts
    <2>4. SyncRow(t, e.dst, new)
      <3>0. IsFiniteSet({e.src}) /\ IsFiniteSet({})
        BY FS_Singleton, FS_EmptySet
      <3>1. CASE e.epoch - old.first > Ttl
        <4>1. new.first = e.epoch /\ new.hosts = {e.src}
          BY <1>1, <3>1
        <4>2. e.epoch >= e.epoch
          BY <2>3
        <4>3. e.src \in HostsSince(t, e.dst, e.epoch)
          BY <4>2, HostsGrow
        <4> QED
          BY <2>3, <3>0, <4>1, <4>3 DEF SyncRow
      <3>2. CASE ~(e.epoch - old.first > Ttl) /\ e.dst \in DOMAIN d.table
        <4>1. PICK row : row = d.table[e.dst]
          OBVIOUS
        <4>2. SyncRow(s, e.dst, row)
          BY <3>2, <4>1 DEF SyncGrounded
        <4>3. new.first = row.first /\ new.hosts = row.hosts \cup {e.src}
          BY <1>1, <3>2, <4>1 DEF At
        <4>4. IsFiniteSet(new.hosts)
          <5>1. IsFiniteSet(row.hosts)
            BY <4>2 DEF SyncRow
          <5>2. IsFiniteSet(row.hosts \cup {e.src})
            BY <5>1, FS_AddElement
          <5> QED
            BY <4>3, <5>2
        <4>5. ASSUME Ordered(t)
              PROVE  /\ \E i \in 1..m : new.first = t[i].epoch
                     /\ new.hosts \subseteq HostsSince(t, e.dst, new.first)
          <5>1. SyncRow(t, e.dst, row)
            BY <4>2, SyncRowGrows
          <5>2. /\ \E i \in 1..m : row.first = t[i].epoch
                /\ row.hosts \subseteq HostsSince(t, e.dst, row.first)
            BY <2>3, <4>5, <5>1 DEF SyncRow
          <5>3. e.epoch >= row.first
            <6>1. Ordered(s) /\ \A i \in 1..n : s[i].epoch <= e.epoch
              BY <4>5, GrownOrdered
            <6>2. PICK i \in 1..n : row.first = s[i].epoch
              BY <2>3, <4>2, <6>1 DEF SyncRow
            <6>3. s[i].epoch \in Int
              BY GrownFacts
            <6> QED
              BY <2>3, <6>1, <6>2, <6>3
          <5>4. e.src \in HostsSince(t, e.dst, row.first)
            BY <5>3, HostsGrow
          <5> QED
            BY <4>3, <5>2, <5>4
        <4> QED
          BY <2>3, <4>4, <4>5 DEF SyncRow
      <3>3. CASE ~(e.epoch - old.first > Ttl) /\ e.dst \notin DOMAIN d.table
        <4>1. old = [first |-> e.epoch, hosts |-> {}]
          BY <1>1, <3>3 DEF At
        <4>2. new.first = e.epoch /\ new.hosts = {e.src}
          BY <1>1, <3>3, <4>1
        <4>3. e.epoch >= e.epoch
          BY <2>3
        <4>4. e.src \in HostsSince(t, e.dst, e.epoch)
          BY <4>3, HostsGrow
        <4> QED
          BY <2>3, <3>0, <4>2, <4>4 DEF SyncRow
      <3> QED
        BY <3>1, <3>2, <3>3
    <2>5. SyncGrounded(t, r.det.table)
      <3>1. PICK N : N = r.det.table
        OBVIOUS
      <3>2. /\ DOMAIN N = DOMAIN d.table \cup {e.dst} /\ N[e.dst] = new
            /\ \A j \in DOMAIN d.table : j # e.dst => N[j] = d.table[j]
        BY <2>2, <3>1 DEF Put
      <3>3. ASSUME NEW j \in DOMAIN d.table
            PROVE  SyncRow(t, j, d.table[j])
        <4>1. SyncRow(s, j, d.table[j])
          BY DEF SyncGrounded
        <4> QED
          BY <4>1, SyncRowGrows
      <3> QED
        BY <2>4, <3>1, <3>2, <3>3 DEF SyncGrounded
    <2>6. IsFiniteSet(new.hosts) /\ Cardinality(new.hosts) \in Nat
      BY <2>4, FS_CardinalityType DEF SyncRow
    <2>7. CASE cond
      <3>1. r.out = OutOf(e, Cardinality(new.hosts))
        BY <2>1, <2>7, AlertOutcome DEF AlertIf, OutOf
      <3>2. SyncClaim(t, e)
        <4> SUFFICES ASSUME Ordered(t)
                     PROVE  MinHosts <= Cardinality(
                                HostsSince(t, e.dst, e.epoch - SyncWindow))
          BY DEF SyncClaim
        <4>1. PICK since, W : /\ since = e.epoch - SyncWindow
                              /\ W = HostsSince(t, e.dst, since)
          OBVIOUS
        <4>2. MinHosts \in Int /\ SyncWindow \in Int
          BY DetectorAssumption
        <4>3. PICK i \in 1..m : new.first = t[i].epoch
          BY <2>3, <2>4 DEF SyncRow
        <4>4. t[i].epoch \in Int
          <5>1. i = m \/ i \in 1..n
            BY GrownFacts
          <5> QED
            BY <2>3, <5>1, GrownFacts
        <4>5. since <= new.first
          BY <1>1, <2>3, <2>7, <4>1, <4>2, <4>3, <4>4
        <4>6. HostsSince(t, e.dst, new.first) \subseteq W
          <5>1. \A j \in 1..m : t[j].epoch \in Int
            <6>1. \A j \in 1..m : j = m \/ j \in 1..n
              BY GrownFacts
            <6>2. \A j \in 1..n : t[j] = s[j] /\ s[j].epoch \in Int
              BY GrownFacts
            <6> QED
              BY <2>3, <6>1, <6>2
          <5>2. PICK first \in Int, epoch \in Int : first = new.first /\ epoch = since
            BY <2>3, <4>1, <4>2, <4>3, <4>4
          <5>3. \A j \in 1..m : t[j].epoch >= first => t[j].epoch >= epoch
            BY <4>5, <5>1, <5>2
          <5>4. Towards(t, e.dst) \subseteq 1..m
            BY <2>3 DEF Towards
          <5> QED
            BY <4>1, <5>2, <5>3, <5>4 DEF HostsSince
        <4>7. new.hosts \subseteq W
          BY <2>4, <4>6 DEF SyncRow
        <4>8. IsFiniteSet(W)
          <5>1. t \in Seq(Events)
            BY DEF Grown
          <5> QED
            BY <4>1, <5>1, HostsFinite
        <4>9. Cardinality(new.hosts) <= Cardinality(W) /\ Cardinality(W) \in Nat
          BY <4>7, <4>8, FS_Subset, FS_CardinalityType
        <4>10. Cardinality(new.hosts) >= MinHosts
          BY <1>1, <2>7
        <4>11. MinHosts <= Cardinality(W)
          BY <2>6, <4>2, <4>9, <4>10
        <4> QED
          BY <4>1, <4>11
      <3> QED
        BY <2>5, <2>6, <3>1, <3>2
    <2>8. CASE ~cond
      <3>1. r.out = <<>>
        BY <2>1, <2>8 DEF AlertIf, Quiet
      <3> QED
        BY <2>5, <3>1
    <2> QED
      BY <2>7, <2>8
  <1> QED
    BY <1>3, <1>4

-----------------------------------------------------------------------------
(* BD-5: a pair's bytes out were all sent since its first flow.              *)
Counted(s) == \A i \in 1..Len(s) : s[i].x.out \in Nat
Flows(s, p, epoch) == {i \in 1..Len(s) : PairOf(s[i]) = p /\ s[i].epoch >= epoch}
OutOfFlows(s, S) == [i \in 1..Len(s) |-> IF i \in S THEN s[i].x.out ELSE 0]
SentSince(s, p, epoch) == Total(OutOfFlows(s, Flows(s, p, epoch)), Len(s))

VolumeRow(s, p, row) ==
    /\ row.out \in Nat
    /\ Ordered(s) => /\ \E i \in 1..Len(s) : row.first = s[i].epoch
                     /\ row.out <= SentSince(s, p, row.first)
VolumeGrounded(s, T) == \A p \in DOMAIN T : VolumeRow(s, p, T[p])
VolumeClaim(s, a, sent) ==
    Ordered(s) => sent <= SentSince(s, PairOf(a), a.epoch - VolumeWindow)

LEMMA SentGrows ==
  ASSUME NEW s, NEW e, NEW t, NEW n, NEW m, Grown(s, e, t, n, m), Counted(t),
         NEW p, NEW epoch \in Int
  PROVE  /\ SentSince(s, p, epoch) \in Int /\ SentSince(t, p, epoch) \in Int
         /\ SentSince(s, p, epoch) <= SentSince(t, p, epoch)
         /\ PairOf(e) = p /\ e.epoch >= epoch =>
                SentSince(t, p, epoch) = SentSince(s, p, epoch) + e.x.out
  <1>1. PICK f, g : /\ f = OutOfFlows(s, Flows(s, p, epoch))
                    /\ g = OutOfFlows(t, Flows(t, p, epoch))
    OBVIOUS
  <1>2. /\ \A i \in 1..n : t[i] = s[i] /\ i \in 1..m
        /\ t[m] = e /\ m \in 1..m /\ Len(s) = n /\ Len(t) = m /\ m = n + 1 /\ n \in Nat
    BY GrownFacts
  <1>3. \A i \in 1..n : i \in Flows(s, p, epoch) <=> i \in Flows(t, p, epoch)
    BY <1>2 DEF Flows
  <1>4. /\ \A i \in 1..n : f[i] = IF i \in Flows(s, p, epoch) THEN s[i].x.out ELSE 0
        /\ \A i \in 1..m : g[i] = IF i \in Flows(t, p, epoch) THEN t[i].x.out ELSE 0
    BY <1>1, <1>2, Zenon DEF OutOfFlows
  <1>5. \A i \in 1..m : t[i].x.out \in Nat
    BY <1>2 DEF Counted
  <1>6. \A i \in 1..n : f[i] \in Int /\ f[i] = g[i]
    BY <1>2, <1>3, <1>4, <1>5
  <1>7. g[m] \in Nat
    BY <1>2, <1>4, <1>5
  <1>8. Total(g, n + 1) = Total(f, n) + g[n + 1]
    BY <1>2, <1>6, TotalNext
  <1>9. Total(f, n) \in Int
    <2>1. \A i \in 1..n : f[i] \in Int /\ f[i] <= f[i]
      BY <1>6
    <2> QED
      BY <1>2, <2>1, TotalMonotone
  <1>10. SentSince(s, p, epoch) = Total(f, n) /\ SentSince(t, p, epoch) = Total(g, m)
    BY <1>1, <1>2 DEF SentSince
  <1>11. PairOf(e) = p /\ e.epoch >= epoch => g[m] = e.x.out
    BY <1>2, <1>4 DEF Flows
  <1> QED
    BY <1>2, <1>7, <1>8, <1>9, <1>10, <1>11

(* No less was sent since an earlier time.                                   *)
LEMMA SentEarlier ==
  ASSUME NEW s \in Seq(Events), Counted(s), NEW p, NEW epoch \in Int, NEW later \in Int,
         epoch <= later
  PROVE  /\ SentSince(s, p, later) <= SentSince(s, p, epoch)
         /\ SentSince(s, p, later) \in Int /\ SentSince(s, p, epoch) \in Int
  <1>1. PICK f, g : /\ f = OutOfFlows(s, Flows(s, p, later))
                    /\ g = OutOfFlows(s, Flows(s, p, epoch))
    OBVIOUS
  <1>2. \A i \in 1..Len(s) : /\ f[i] = IF i \in Flows(s, p, later) THEN s[i].x.out ELSE 0
                             /\ g[i] = IF i \in Flows(s, p, epoch) THEN s[i].x.out ELSE 0
    BY <1>1, Zenon DEF OutOfFlows
  <1>3. \A i \in 1..Len(s) : s[i].x.out \in Nat /\ s[i].epoch \in Int
    <2>1. \A i \in 1..Len(s) : s[i] \in Events
      OBVIOUS
    <2>2. \A x \in Events : x.epoch \in Int
      BY DEF Events
    <2> QED
      BY <2>1, <2>2 DEF Counted
  <1>4. \A i \in 1..Len(s) : i \in Flows(s, p, later) => i \in Flows(s, p, epoch)
    BY <1>3 DEF Flows
  <1>5. \A i \in 1..Len(s) : f[i] \in Int /\ g[i] \in Int /\ f[i] <= g[i]
    BY <1>2, <1>3, <1>4
  <1>6. Len(s) \in Nat
    OBVIOUS
  <1>7. Total(f, Len(s)) \in Int /\ Total(g, Len(s)) \in Int
        /\ Total(f, Len(s)) <= Total(g, Len(s))
    BY <1>5, <1>6, TotalMonotone
  <1> QED
    BY <1>1, <1>7 DEF SentSince

LEMMA VolumeRowGrows ==
  ASSUME NEW s, NEW e, NEW t, NEW n, NEW m, Grown(s, e, t, n, m), Counted(t), NEW p, NEW row,
         VolumeRow(s, p, row)
  PROVE  VolumeRow(t, p, row)
  <1>0. row.out \in Nat
    BY DEF VolumeRow
  <1> SUFFICES ASSUME Ordered(t)
               PROVE  /\ \E i \in 1..m : row.first = t[i].epoch
                      /\ row.out <= SentSince(t, p, row.first)
    BY <1>0, GrownFacts DEF VolumeRow
  <1>1. Ordered(s)
    BY GrownOrdered
  <1>2. PICK i \in 1..n : row.first = s[i].epoch
    BY <1>1, GrownFacts DEF VolumeRow
  <1>f. \A j \in 1..n : t[j] = s[j] /\ j \in 1..m /\ s[j].epoch \in Int
    BY GrownFacts
  <1>3. i \in 1..m /\ row.first = t[i].epoch /\ row.first \in Int
    BY <1>2, <1>f
  <1>4. row.out <= SentSince(s, p, row.first)
    BY <1>1 DEF VolumeRow
  <1>5. /\ SentSince(s, p, row.first) \in Int /\ SentSince(t, p, row.first) \in Int
        /\ SentSince(s, p, row.first) <= SentSince(t, p, row.first)
    BY <1>3, SentGrows
  <1> QED
    BY <1>0, <1>3, <1>4, <1>5

LEMMA VolumeStands ==
  ASSUME NEW s, NEW e, NEW t, NEW n, NEW m, Grown(s, e, t, n, m), Counted(t),
         NEW d, NEW cap, VolumeGrounded(s, d.table), NEW r, r = Volume(d, e, cap)
  PROVE  /\ r.det.degraded \/ VolumeGrounded(t, r.det.table)
         /\ \/ r.out = <<>>
            \/ \E k \in Nat : r.out = OutOf(e, k) /\ VolumeClaim(t, e, k)
  <1> DEFINE pair == <<e.src, e.dst>>
             created == pair \notin DOMAIN d.table
             prior == At(d.aux, e.src, {})
             old == At(d.table, pair, [out |-> 0, in |-> 0, first |-> e.epoch,
                       focused |-> MinDiversity > 1 /\ Cardinality(prior) >= MinDiversity])
             new == [out |-> old.out + e.x.out, in |-> old.in + e.x.in,
                     first |-> old.first, focused |-> old.focused]
             aux == IF created THEN Put(d.aux, e.src, prior \cup {e.dst}) ELSE d.aux
             inverted == new.in > 0 /\ new.out > 5 * new.in
             cond == new.out >= MinBytes /\ (inverted \/ new.focused)
  <1>2. r = IF Full(d.table, pair, cap) THEN Quiet(Degrade(d))
            ELSE IF e.epoch - new.first > VolumeWindow
                 THEN Quiet(Kept(d, Restrict(d.table, DOMAIN d.table \ {pair}), aux))
            ELSE AlertIf(cond, Kept(d, Put(d.table, pair, new), aux), e, new.out)
    BY DEF Volume
  <1>p. pair = PairOf(e)
    BY DEF PairOf
  <1>o. /\ pair \notin DOMAIN d.table => old.out = 0 /\ old.first = e.epoch
        /\ pair \in DOMAIN d.table => old = d.table[pair]
    BY DEF At
  <1> HIDE DEF pair, old, aux, cond
  <1>1. new.out = old.out + e.x.out /\ new.first = old.first
    OBVIOUS
  <1> HIDE DEF new
  <1>3. CASE Full(d.table, pair, cap)
    BY <1>2, <1>3 DEF Quiet, Degrade
  <1>4. ASSUME NEW j \in DOMAIN d.table
        PROVE  VolumeRow(t, j, d.table[j])
    <2>1. VolumeRow(s, j, d.table[j])
      BY DEF VolumeGrounded
    <2> QED
      BY <2>1, VolumeRowGrows
  <1>5. CASE ~Full(d.table, pair, cap) /\ e.epoch - new.first > VolumeWindow
    <2>1. r = Quiet(Kept(d, Restrict(d.table, DOMAIN d.table \ {pair}), aux))
      BY <1>2, <1>5
    <2>2. r.out = <<>> /\ r.det.table = Restrict(d.table, DOMAIN d.table \ {pair})
      BY <2>1 DEF Quiet, Kept
    <2>3. PICK N : N = Restrict(d.table, DOMAIN d.table \ {pair})
      OBVIOUS
    <2>4. /\ DOMAIN N = DOMAIN d.table \ {pair}
          /\ \A j \in DOMAIN N : N[j] = d.table[j]
      BY <2>3 DEF Restrict
    <2>5. VolumeGrounded(t, N)
      BY <1>4, <2>4 DEF VolumeGrounded
    <2> QED
      BY <2>2, <2>3, <2>5
  <1>6. CASE ~Full(d.table, pair, cap) /\ ~(e.epoch - new.first > VolumeWindow)
    <2>1. r = AlertIf(cond, Kept(d, Put(d.table, pair, new), aux), e, new.out)
      BY <1>2, <1>6
    <2>2. r.det.table = Put(d.table, pair, new)
      BY <2>1, AlertIfOutcome, KeptFields
    <2>3. /\ e.epoch \in Int /\ m \in 1..m /\ t[m] = e /\ Len(t) = m /\ Len(s) = n
          /\ m = n + 1 /\ n \in Nat
      BY GrownFacts
    <2>f. \A i \in 1..n : t[i] = s[i] /\ i \in 1..m /\ s[i].epoch \in Int
      BY GrownFacts
    <2>4. e.x.out \in Nat
      BY <2>3 DEF Counted
    <2>5. VolumeRow(t, pair, new)
      <3>0. new.out = old.out + e.x.out /\ new.first = old.first
        BY <1>1
      <3>1. CASE pair \notin DOMAIN d.table
        <4>1. old.out = 0 /\ old.first = e.epoch
          BY <1>o, <3>1
        <4>2. new.out = e.x.out /\ new.first = e.epoch
          BY <2>4, <3>0, <4>1
        <4>3. SentSince(t, pair, e.epoch) = SentSince(s, pair, e.epoch) + e.x.out
          <5>1. e.epoch >= e.epoch
            BY <2>3
          <5> QED
            BY <1>p, <2>3, <5>1, SentGrows
        <4>4. SentSince(s, pair, e.epoch) \in Nat
          <5>1. PICK f : f = OutOfFlows(s, Flows(s, pair, e.epoch))
            OBVIOUS
          <5>2. \A i \in 1..n : f[i] = IF i \in Flows(s, pair, e.epoch) THEN s[i].x.out ELSE 0
            BY <2>3, <5>1, Zenon DEF OutOfFlows
          <5>3. \A i \in 1..n : f[i] \in Nat
            BY <2>3, <2>f, <5>2 DEF Counted
          <5>4. Total(f, n) \in Nat
            BY <2>3, <5>3, TotalCounts
          <5> QED
            BY <2>3, <5>1, <5>4 DEF SentSince
        <4> QED
          BY <2>3, <2>4, <4>2, <4>3, <4>4 DEF VolumeRow
      <3>2. CASE pair \in DOMAIN d.table
        <4>1. PICK row : row = d.table[pair]
          OBVIOUS
        <4>2. old = row /\ VolumeRow(s, pair, row) /\ VolumeRow(t, pair, row)
          BY <1>o, <1>4, <3>2, <4>1 DEF VolumeGrounded
        <4>3. row.out \in Nat /\ new.out = row.out + e.x.out /\ new.first = row.first
          BY <3>0, <4>2 DEF VolumeRow
        <4>4. ASSUME Ordered(t)
              PROVE  /\ \E i \in 1..m : new.first = t[i].epoch
                     /\ new.out <= SentSince(t, pair, new.first)
          <5>1. \E i \in 1..m : row.first = t[i].epoch
            BY <2>3, <4>2, <4>4 DEF VolumeRow
          <5>2. Ordered(s) /\ \A i \in 1..n : s[i].epoch <= e.epoch
            BY <4>4, GrownOrdered
          <5>3. PICK i \in 1..n : row.first = s[i].epoch
            BY <2>3, <4>2, <5>2 DEF VolumeRow
          <5>4. row.first \in Int /\ e.epoch >= row.first
            BY <2>3, <2>f, <5>2, <5>3
          <5>5. row.out <= SentSince(s, pair, row.first)
            BY <4>2, <5>2 DEF VolumeRow
          <5>6. /\ SentSince(t, pair, row.first) = SentSince(s, pair, row.first) + e.x.out
                /\ SentSince(s, pair, row.first) \in Int
            BY <1>p, <5>4, SentGrows
          <5> QED
            BY <2>4, <4>3, <5>1, <5>5, <5>6
        <4> QED
          BY <2>3, <2>4, <4>3, <4>4 DEF VolumeRow
      <3> QED
        BY <3>1, <3>2
    <2>6. VolumeGrounded(t, r.det.table)
      <3>1. PICK N : N = r.det.table
        OBVIOUS
      <3>2. /\ DOMAIN N = DOMAIN d.table \cup {pair} /\ N[pair] = new
            /\ \A j \in DOMAIN d.table : j # pair => N[j] = d.table[j]
        BY <2>2, <3>1 DEF Put
      <3> QED
        BY <1>4, <2>5, <3>1, <3>2 DEF VolumeGrounded
    <2>7. new.out \in Nat
      BY <2>5 DEF VolumeRow
    <2>8. VolumeClaim(t, e, new.out)
      <3> SUFFICES ASSUME Ordered(t)
                   PROVE  new.out <= SentSince(t, pair, e.epoch - VolumeWindow)
        BY <1>p DEF VolumeClaim
      <3>1. PICK since : since = e.epoch - VolumeWindow
        OBVIOUS
      <3>2. VolumeWindow \in Int
        BY DetectorAssumption
      <3>3. PICK i \in 1..m : new.first = t[i].epoch
        BY <2>3, <2>5 DEF VolumeRow
      <3>4. new.first \in Int
        <4>1. i = m \/ i \in 1..n
          BY GrownFacts
        <4> QED
          BY <2>3, <2>f, <3>3, <4>1
      <3>5. since \in Int /\ since <= new.first
        BY <1>6, <2>3, <3>1, <3>2, <3>4
      <3>6. t \in Seq(Events)
        BY DEF Grown
      <3>7. /\ SentSince(t, pair, new.first) <= SentSince(t, pair, since)
            /\ SentSince(t, pair, new.first) \in Int /\ SentSince(t, pair, since) \in Int
        BY <3>4, <3>5, <3>6, SentEarlier
      <3>8. new.out <= SentSince(t, pair, new.first)
        BY <2>5 DEF VolumeRow
      <3> QED
        BY <2>7, <3>1, <3>7, <3>8
    <2>9. r.out = <<>> \/ r.out = OutOf(e, new.out)
      BY <2>1, AlertOutcome DEF AlertIf, Quiet, OutOf
    <2> QED
      BY <2>6, <2>7, <2>8, <2>9
  <1> QED
    BY <1>3, <1>5, <1>6

-----------------------------------------------------------------------------
(* BD-3: the queries a client's window counts are its latest ones, and none   *)
(* came long after the one before it.                                        *)
Encoded(s, S) == {i \in S : s[i].x.encoded}
NoSilence(s, S) ==
    \A i \in S, j \in S :
        i < j /\ (\A k \in S : k <= i \/ k >= j) => s[j].epoch - s[i].epoch <= TunnelAge
Suffix(S, O) == S \subseteq O /\ \A i \in O, j \in S : i >= j => i \in S
Run(s, k, S) == Suffix(S, From(s, k)) /\ NoSilence(s, S)
Counts(s, S, c) ==
    /\ IsFiniteSet(S) /\ Cardinality(S) = c.queries
    /\ Cardinality(Encoded(s, S)) = c.encoded
Soon(s, S, epoch) ==
    S # {} => \E i \in S : (\A j \in S : j <= i) /\ epoch - s[i].epoch <= TunnelAge
Ends(s, S, last) == \E i \in S : (\A j \in S : j <= i) /\ s[i].epoch = last

TunnelRow(s, k, c) ==
    \E S : Run(s, k, S) /\ Counts(s, S, c) /\ (S # {} => Ends(s, S, c.last))
TunnelGrounded(s, T) == \A k \in DOMAIN T : TunnelRow(s, k, T[k])
TunnelClaim(s, a, n) ==
    LET S == Latest(From(s, a.src), n) IN
    /\ Cardinality(Encoded(s, S)) * Whole >= TunnelShare * Cardinality(S)
    /\ NoSilence(s, S)
Positive(s) == \A i \in 1..Len(s) : s[i].epoch > 0

LEMMA LatestIs ==
  ASSUME NEW n \in Nat, NEW O, O \subseteq 1..n, NEW S, Suffix(S, O)
  PROVE  Latest(O, Cardinality(S)) = S
  <1>1. IsFiniteSet(1..n)
    BY FS_Interval
  <1>2. S \subseteq O /\ IsFiniteSet(O) /\ IsFiniteSet(S) /\ Cardinality(S) \in Nat
    <2>1. S \subseteq O
      BY DEF Suffix
    <2> QED
      BY <1>1, <2>1, FS_Subset, FS_CardinalityType
  <1>3. ASSUME NEW i \in S
        PROVE  Cardinality({j \in O : j >= i}) <= Cardinality(S)
    <2>1. {j \in O : j >= i} \subseteq S
      BY DEF Suffix
    <2> QED
      BY <1>2, <2>1, FS_Subset
  <1>4. ASSUME NEW i \in O \ S
        PROVE  ~(Cardinality({j \in O : j >= i}) <= Cardinality(S))
    <2>1. PICK A : A = {j \in O : j >= i}
      OBVIOUS
    <2>2. S \cup {i} \subseteq A
      <3>1. \A j \in O : j \in Int
        OBVIOUS
      <3>2. \A j \in S : j >= i
        BY <1>2, <3>1 DEF Suffix
      <3>3. i >= i
        BY <3>1
      <3> QED
        BY <1>2, <2>1, <3>2, <3>3
    <2>3. IsFiniteSet(A) /\ Cardinality(A) \in Nat
      <3>1. A \subseteq O
        BY <2>1
      <3> QED
        BY <1>2, <3>1, FS_Subset, FS_CardinalityType
    <2>4. Cardinality(S \cup {i}) = Cardinality(S) + 1
      BY <1>2, FS_AddElement
    <2>5. Cardinality(S \cup {i}) <= Cardinality(A)
      BY <2>2, <2>3, FS_Subset
    <2> QED
      BY <1>2, <2>1, <2>3, <2>4, <2>5
  <1> QED
    BY <1>2, <1>3, <1>4 DEF Latest

LEMMA RunOfNone ==
  ASSUME NEW s, NEW k
  PROVE  /\ Run(s, k, {})
         /\ \A c : c.queries = 0 /\ c.encoded = 0 => Counts(s, {}, c)
  <1>1. IsFiniteSet({}) /\ Cardinality({}) = 0
    BY FS_EmptySet
  <1>2. Encoded(s, {}) = {}
    BY DEF Encoded
  <1> QED
    BY <1>1, <1>2 DEF Run, Suffix, NoSilence, Counts

(* A run stands while others ask, and a query soon after it joins it.        *)
LEMMA RunStands ==
  ASSUME NEW s, NEW e, NEW t, NEW n, NEW m, Grown(s, e, t, n, m),
         NEW k, NEW S, Run(s, k, S)
  PROVE  /\ S \subseteq 1..n /\ NoSilence(t, S) /\ Encoded(t, S) = Encoded(s, S)
         /\ \A last : Ends(s, S, last) => Ends(t, S, last)
         /\ e.src # k => Run(t, k, S)
  <1>1. /\ \A i \in 1..n : t[i] = s[i] /\ i \in 1..m
        /\ \A i \in 1..m : i # m => i \in 1..n
    BY GrownFacts
  <1>l. t[m] = e /\ Len(s) = n /\ Len(t) = m
    BY GrownFacts
  <1>2. S \subseteq 1..n
    BY <1>l DEF Run, Suffix, From
  <1>3. \A i \in S : t[i] = s[i]
    BY <1>1, <1>2
  <1>4. NoSilence(t, S)
    <2>1. NoSilence(s, S)
      BY DEF Run
    <2> QED
      BY <1>3, <2>1 DEF NoSilence
  <1>5. Encoded(t, S) = Encoded(s, S)
    BY <1>3 DEF Encoded
  <1>6. \A last : Ends(s, S, last) => Ends(t, S, last)
    BY <1>3 DEF Ends
  <1>7. ASSUME e.src # k
        PROVE  Run(t, k, S)
    <2>1. From(t, k) = From(s, k)
      BY <1>1, <1>l, <1>7 DEF From
    <2> QED
      BY <1>4, <2>1 DEF Run
  <1> QED
    BY <1>2, <1>4, <1>5, <1>6, <1>7

LEMMA RunJoined ==
  ASSUME NEW s, NEW e, NEW t, NEW n, NEW m, Grown(s, e, t, n, m),
         NEW S, Run(s, e.src, S), NEW c, Counts(s, S, c),
         Soon(s, S, e.epoch),
         NEW T, T = S \cup {m}
  PROVE  /\ Run(t, e.src, T) /\ Ends(t, T, e.epoch) /\ IsFiniteSet(T)
         /\ Cardinality(T) = c.queries + 1 /\ c.queries \in Nat
         /\ Cardinality(Encoded(t, T)) = c.encoded + IF e.x.encoded THEN 1 ELSE 0
  <1>1. T = S \cup {m}
    OBVIOUS
  <1>2. /\ \A i \in 1..n : t[i] = s[i] /\ i \in 1..m /\ i < m
        /\ \A i \in 1..m : i # m => i \in 1..n
    BY GrownFacts
  <1>l. t[m] = e /\ Len(s) = n /\ Len(t) = m /\ m \in 1..m /\ m \notin 1..n /\ n \in Nat
    BY GrownFacts
  <1>3. S \subseteq 1..n /\ NoSilence(t, S) /\ Encoded(t, S) = Encoded(s, S)
    BY RunStands
  <1>4. From(t, e.src) = From(s, e.src) \cup {m}
    BY <1>2, <1>l DEF From
  <1>5. Suffix(T, From(t, e.src))
    <2>1. From(s, e.src) \subseteq 1..n
      BY <1>l DEF From
    <2>2. \A i \in 1..n : ~(i >= m)
      BY <1>2, <1>l
    <2> QED
      BY <1>1, <1>4, <2>1, <2>2 DEF Run, Suffix
  <1>6. NoSilence(t, T)
    <2> SUFFICES ASSUME NEW i \in T, NEW j \in T, i < j, \A k \in T : k <= i \/ k >= j
                 PROVE  t[j].epoch - t[i].epoch <= TunnelAge
      BY DEF NoSilence
    <2>1. i \in S
      <3>1. \A k \in T : ~(m < k)
        BY <1>1, <1>2, <1>3, <1>l
      <3> QED
        BY <1>1, <3>1
    <2>2. CASE j \in S
      BY <1>1, <1>3, <2>1, <2>2 DEF NoSilence
    <2>3. CASE j = m
      <3>2. PICK z \in S : (\A k \in S : k <= z) /\ e.epoch - s[z].epoch <= TunnelAge
        BY <2>1 DEF Soon
      <3>3. z <= i /\ i <= z
        <4>1. z < m
          BY <1>2, <1>3
        <4>2. z \in Int /\ m \in Int
          BY <1>2, <1>3, <1>l
        <4>3. ~(z >= m)
          BY <4>1, <4>2
        <4>4. z <= i \/ z >= m
          BY <1>1, <2>3
        <4> QED
          BY <2>1, <3>2, <4>3, <4>4
      <3>4. i \in Int /\ z \in Int
        BY <1>3, <2>1
      <3>5. i = z
        BY <3>3, <3>4
      <3>6. t[i] = s[i]
        BY <1>2, <1>3, <2>1
      <3> QED
        BY <1>l, <2>3, <3>2, <3>5, <3>6
    <2> QED
      BY <1>1, <2>2, <2>3
  <1>7. Ends(t, T, e.epoch)
    <2>1. \A i \in 1..n : i <= m
      BY <1>l
    <2>2. m <= m
      BY <1>l
    <2>3. \A j \in T : j <= m
      BY <1>1, <1>3, <2>1, <2>2
    <2> QED
      BY <1>1, <1>l, <2>3 DEF Ends
  <1>8. IsFiniteSet(S) /\ m \notin S
    BY <1>3, <1>l DEF Counts
  <1>9. IsFiniteSet(T) /\ Cardinality(T) = c.queries + 1 /\ c.queries \in Nat
    <2>1. Cardinality(S) = c.queries
      BY DEF Counts
    <2> QED
      BY <1>1, <1>8, <2>1, FS_AddElement, FS_CardinalityType
  <1>10. Cardinality(Encoded(t, T)) = c.encoded + IF e.x.encoded THEN 1 ELSE 0
    <2>1. PICK E : E = Encoded(s, S)
      OBVIOUS
    <2>2. E \subseteq S
      BY <2>1 DEF Encoded
    <2>3. IsFiniteSet(E) /\ Cardinality(E) = c.encoded /\ m \notin E
      BY <1>8, <2>1, <2>2, FS_Subset DEF Counts
    <2>4. Cardinality(E) \in Nat
      BY <2>3, FS_CardinalityType
    <2>5. \A i \in S : i \in Encoded(t, T) <=> i \in E
      <3>1. Encoded(t, S) = E
        BY <1>3, <2>1
      <3> QED
        BY <1>1, <3>1 DEF Encoded
    <2>6. CASE e.x.encoded
      <3>1. Encoded(t, T) = E \cup {m}
        <4>1. m \in Encoded(t, T)
          BY <1>1, <1>l, <2>6 DEF Encoded
        <4>2. Encoded(t, T) \subseteq S \cup {m}
          BY <1>1 DEF Encoded
        <4> QED
          BY <2>2, <2>5, <4>1, <4>2
      <3>2. Cardinality(E \cup {m}) = Cardinality(E) + 1
        BY <2>3, FS_AddElement
      <3> QED
        BY <2>3, <2>6, <3>1, <3>2
    <2>7. CASE ~e.x.encoded
      <3>1. Encoded(t, T) = E
        <4>1. m \notin Encoded(t, T)
          BY <1>l, <2>7 DEF Encoded
        <4>2. Encoded(t, T) \subseteq S \cup {m}
          BY <1>1 DEF Encoded
        <4> QED
          BY <2>2, <2>5, <4>1, <4>2
      <3> QED
        BY <2>3, <2>4, <2>7, <3>1
    <2> QED
      BY <2>6, <2>7
  <1> QED
    BY <1>1, <1>5, <1>6, <1>7, <1>9, <1>10 DEF Run

LEMMA TunnelRowGrows ==
  ASSUME NEW s, NEW e, NEW t, NEW n, NEW m, Grown(s, e, t, n, m),
         NEW k, e.src # k, NEW c, TunnelRow(s, k, c)
  PROVE  TunnelRow(t, k, c)
  <1>1. PICK S : Run(s, k, S) /\ Counts(s, S, c) /\ (S # {} => Ends(s, S, c.last))
    BY DEF TunnelRow
  <1>2. /\ Run(t, k, S) /\ Encoded(t, S) = Encoded(s, S)
        /\ S # {} => Ends(t, S, c.last)
    BY <1>1, RunStands
  <1>3. Counts(t, S, c)
    BY <1>1, <1>2 DEF Counts
  <1> QED
    BY <1>2, <1>3 DEF TunnelRow

(* A window that has not aged is continued, and one that has starts over.    *)
LEMMA TunnelRowNext ==
  ASSUME NEW s, NEW e, NEW t, NEW n, NEW m, Grown(s, e, t, n, m), Positive(s),
         NEW old, TunnelRow(s, e.src, old),
         NEW c, c = IF Aged(old, e.epoch) THEN NoQueries ELSE old,
         NEW new, new.queries = c.queries + 1, new.last = e.epoch,
         new.encoded = c.encoded + IF e.x.encoded THEN 1 ELSE 0
  PROVE  TunnelRow(t, e.src, new) /\ new.queries \in Nat
  <1>1. \E S : Run(s, e.src, S) /\ Counts(s, S, c) /\ Soon(s, S, e.epoch)
    <2>1. CASE Aged(old, e.epoch)
      <3>1. c.queries = 0 /\ c.encoded = 0
        BY <2>1 DEF NoQueries
      <3>2. Run(s, e.src, {}) /\ Counts(s, {}, c)
        BY <3>1, RunOfNone
      <3> QED
        BY <3>2 DEF Soon
    <2>2. CASE ~Aged(old, e.epoch)
      <3>1. PICK S : Run(s, e.src, S) /\ Counts(s, S, old) /\ (S # {} => Ends(s, S, old.last))
        BY DEF TunnelRow
      <3>2. ASSUME S # {}
            PROVE  Soon(s, S, e.epoch)
        <4>1. old.queries > 0
          <5>1. Cardinality(S) \in Nat /\ Cardinality(S) # 0
            BY <3>1, <3>2, FS_EmptySet, FS_CardinalityType DEF Counts
          <5> QED
            BY <3>1, <5>1 DEF Counts
        <4>2. PICK i \in S : (\A j \in S : j <= i) /\ s[i].epoch = old.last
          BY <3>1, <3>2 DEF Ends
        <4>3. i \in 1..n
          BY <3>1, RunStands
        <4>4. old.last \in Int /\ old.last > 0 /\ e.epoch \in Int
          <5>1. /\ \A j \in 1..n : s[j].epoch \in Int
                /\ Len(s) = n /\ e.epoch \in Int
            BY GrownFacts
          <5> QED
            BY <4>2, <4>3, <5>1 DEF Positive
        <4>5. TunnelAge \in Int
          BY DetectorAssumption
        <4>6. ~(e.epoch - old.last > TunnelAge)
          BY <2>2, <4>1, <4>4 DEF Aged
        <4> QED
          BY <4>2, <4>4, <4>5, <4>6 DEF Soon
      <3> QED
        BY <2>2, <3>1, <3>2 DEF Soon
    <2> QED
      BY <2>1, <2>2
  <1>2. PICK S : Run(s, e.src, S) /\ Counts(s, S, c) /\ Soon(s, S, e.epoch)
    BY <1>1
  <1>3. PICK T : T = S \cup {m}
    OBVIOUS
  <1>4. /\ Run(t, e.src, T) /\ Ends(t, T, e.epoch) /\ IsFiniteSet(T)
        /\ Cardinality(T) = c.queries + 1 /\ c.queries \in Nat
        /\ Cardinality(Encoded(t, T)) = c.encoded + IF e.x.encoded THEN 1 ELSE 0
    BY <1>2, <1>3, RunJoined
  <1>5. Counts(t, T, new)
    BY <1>4 DEF Counts
  <1> QED
    BY <1>4, <1>5 DEF TunnelRow

LEMMA TunnelStands ==
  ASSUME NEW s, NEW e, NEW t, NEW n, NEW m, Grown(s, e, t, n, m), Positive(s),
         NEW d, NEW cap, TunnelGrounded(s, d.table), NEW r, r = Tunnel(d, e, cap)
  PROVE  /\ r.det.degraded \/ TunnelGrounded(t, r.det.table)
         /\ \/ r.out = <<>>
            \/ \E k \in Nat : r.out = OutOf(e, k) /\ TunnelClaim(t, e, k)
  <1> DEFINE old == At(d.table, e.src, NoQueries)
             c == IF Aged(old, e.epoch) THEN NoQueries ELSE old
             folded == [queries |-> c.queries + 1, last |-> e.epoch,
                        encoded |-> c.encoded + IF e.x.encoded THEN 1 ELSE 0,
                        chars |-> c.chars + e.x.chars]
             new == IF folded.queries >= TunnelWindow
                    THEN [NoQueries EXCEPT !.last = e.epoch] ELSE folded
             cond == /\ new.queries >= TunnelMin
                     /\ new.encoded * Whole >= TunnelShare * new.queries
                     /\ new.chars >= TunnelBytes * new.queries
  <1>1. r = IF Full(d.table, e.src, cap) THEN Quiet(Degrade(d))
            ELSE AlertIf(cond, With(d, e.src, new), e, new.queries)
    BY DEF Tunnel
  <1>2. CASE Full(d.table, e.src, cap)
    BY <1>1, <1>2 DEF Quiet, Degrade
  <1>3. CASE ~Full(d.table, e.src, cap)
    <2>1. r = AlertIf(cond, With(d, e.src, new), e, new.queries)
      BY <1>1, <1>3
    <2>2. cond => new.encoded * Whole >= TunnelShare * new.queries
      OBVIOUS
    <2>3. \/ new = folded
          \/ new.queries = 0 /\ new.encoded = 0
      <3>1. PICK none : none = [NoQueries EXCEPT !.last = e.epoch]
        OBVIOUS
      <3>2. none.queries = 0 /\ none.encoded = 0
        BY <3>1 DEF NoQueries
      <3>3. new = folded \/ new = none
        <4> HIDE DEF folded
        <4> QED
          BY <3>1 DEF new
      <3> HIDE DEF new, folded
      <3> QED
        BY <3>2, <3>3
    <2>4. /\ folded.queries = c.queries + 1 /\ folded.last = e.epoch
          /\ folded.encoded = c.encoded + IF e.x.encoded THEN 1 ELSE 0
      OBVIOUS
    <2>5. TunnelRow(s, e.src, old)
      <3>1. CASE e.src \in DOMAIN d.table
        BY <3>1 DEF At, TunnelGrounded
      <3>2. CASE e.src \notin DOMAIN d.table
        <4>1. old.queries = 0 /\ old.encoded = 0
          BY <3>2 DEF At, NoQueries
        <4> HIDE DEF old
        <4> QED
          BY <4>1, RunOfNone DEF TunnelRow
      <3> QED
        BY <3>1, <3>2
    <2> HIDE DEF cond, new, folded, old
    <2>6. TunnelRow(t, e.src, folded) /\ folded.queries \in Nat
      BY <2>4, <2>5, TunnelRowNext
    <2>7. TunnelRow(t, e.src, new) /\ new.queries \in Nat
      <3>1. CASE new = folded
        BY <2>6, <3>1
      <3>2. CASE new.queries = 0 /\ new.encoded = 0
        <4>1. Run(t, e.src, {}) /\ Counts(t, {}, new)
          BY <3>2, RunOfNone
        <4> QED
          BY <3>2, <4>1 DEF TunnelRow
      <3> QED
        BY <2>3, <3>1, <3>2
    <2>8. r.det.table = Put(d.table, e.src, new)
      BY <2>1, AlertIfOutcome, WithFields
    <2>9. TunnelGrounded(t, r.det.table)
      <3>1. PICK N : N = r.det.table
        OBVIOUS
      <3>2. /\ DOMAIN N = DOMAIN d.table \cup {e.src} /\ N[e.src] = new
            /\ \A j \in DOMAIN d.table : j # e.src => N[j] = d.table[j]
        BY <2>8, <3>1 DEF Put
      <3>3. ASSUME NEW j \in DOMAIN d.table, j # e.src
            PROVE  TunnelRow(t, j, d.table[j])
        <4>1. TunnelRow(s, j, d.table[j])
          BY DEF TunnelGrounded
        <4> QED
          BY <3>3, <4>1, TunnelRowGrows
      <3> QED
        BY <2>7, <3>1, <3>2, <3>3 DEF TunnelGrounded
    <2>10. cond => TunnelClaim(t, e, new.queries)
      <3> SUFFICES ASSUME cond
                   PROVE  TunnelClaim(t, e, new.queries)
        OBVIOUS
      <3>1. PICK S : Run(t, e.src, S) /\ Counts(t, S, new)
        BY <2>7 DEF TunnelRow
      <3>2. Latest(From(t, e.src), Cardinality(S)) = S
        <4>1. From(t, e.src) \subseteq 1..m /\ m \in Nat
          BY GrownFacts DEF From
        <4> QED
          BY <3>1, <4>1, LatestIs DEF Run
      <3>3. Latest(From(t, e.src), new.queries) = S
        BY <3>1, <3>2 DEF Counts
      <3>4. Cardinality(Encoded(t, S)) * Whole >= TunnelShare * Cardinality(S)
        BY <2>2, <3>1 DEF Counts
      <3> QED
        BY <3>1, <3>3, <3>4 DEF TunnelClaim, Run
    <2>11. \/ cond /\ r.out = OutOf(e, new.queries)
           \/ r.out = <<>>
      BY <2>1, AlertOutcome DEF AlertIf, Quiet, OutOf
    <2> QED
      BY <2>7, <2>9, <2>10, <2>11
  <1> QED
    BY <1>2, <1>3

-----------------------------------------------------------------------------
(* BD-1: a window's gaps are the latest between contacts that advanced it.   *)
Before(S, i) == {j \in S : j < i}
Followers(S) == {i \in S : Before(S, i) # {}}
GapAt(s, S) == [i \in 1..Len(s) |-> s[i].epoch - s[Max(Before(S, i))].epoch]
GapsIn(s, S) == Listed(GapAt(s, S), Followers(S), Len(s))
Top(S, i) == i \in S /\ \A j \in S : j <= i

LEMMA MaxIsTop ==
  ASSUME NEW n \in Nat, NEW S \in SUBSET (1..n), S # {}
  PROVE  Top(S, Max(S)) /\ \A i : Top(S, i) => i = Max(S)
  <1>1. \E i : Top(S, i)
    <2> DEFINE T == {n - i : i \in S}
    <2>1. T \in SUBSET Nat /\ T # {}
      <3>1. \A i \in 1..n : n - i \in Nat
        OBVIOUS
      <3> QED
        BY <3>1
    <2>2. PICK l \in T : \A k \in T : l <= k
      BY <2>1, LeastNumber
    <2>3. PICK i \in S : l = n - i
      OBVIOUS
    <2>4. ASSUME NEW j \in S
          PROVE  j <= i
      <3>1. n - j \in T
        OBVIOUS
      <3>2. n - i <= n - j
        BY <2>2, <2>3, <3>1
      <3>3. i \in 1..n /\ j \in 1..n
        OBVIOUS
      <3> QED
        BY <3>2, <3>3
    <2> QED
      BY <2>4 DEF Top
  <1>2. Top(S, Max(S))
    <2>1. \E i \in S : \A j \in S : i >= j
      BY <1>1 DEF Top
    <2>2. Max(S) \in S /\ \A j \in S : Max(S) >= j
      BY <2>1 DEF Max
    <2> QED
      BY <2>2 DEF Top
  <1>3. ASSUME NEW i, Top(S, i)
        PROVE  i = Max(S)
    <2>1. PICK x : x = Max(S)
      OBVIOUS
    <2>2. i \in S /\ x \in S /\ i <= x /\ x <= i
      BY <1>2, <1>3, <2>1 DEF Top
    <2>3. i \in Int /\ x \in Int
      BY <2>2
    <2> QED
      BY <2>1, <2>2, <2>3
  <1> QED
    BY <1>2, <1>3

LEMMA ListedType ==
  ASSUME NEW n \in Nat, NEW p, NEW S, \A k \in 1..n : k \in S => p[k] \in Int
  PROVE  Listed(p, S, n) \in Seq(Int)
  <1>1. PICK f : Grows(f, n, p, S)
    BY ListedGrows
  <1>2. /\ f[0] = <<>>
        /\ \A k \in 1..n : f[k] = IF k \in S THEN Append(f[k - 1], p[k]) ELSE f[k - 1]
    BY <1>1 DEF Grows
  <1> DEFINE N == {k \in Nat : k <= n => f[k] \in Seq(Int)}
  <1>3. 0 \in N
    <2>1. <<>> \in Seq(Int)
      OBVIOUS
    <2> QED
      BY <1>2, <2>1
  <1>4. ASSUME NEW k \in N
        PROVE  k + 1 \in N
    <2> SUFFICES ASSUME k + 1 <= n
                 PROVE  f[k + 1] \in Seq(Int)
      OBVIOUS
    <2>1. k + 1 \in 1..n /\ (k + 1) - 1 = k /\ f[k] \in Seq(Int)
      OBVIOUS
    <2>2. f[k + 1] = IF k + 1 \in S THEN Append(f[k], p[k + 1]) ELSE f[k]
      BY <1>2, <2>1
    <2> QED
      BY <2>1, <2>2
  <1>5. N \in SUBSET Nat
    OBVIOUS
  <1> HIDE DEF N
  <1>6. N = Nat
    BY <1>3, <1>4, <1>5, NaturalSet
  <1>7. f[n] \in Seq(Int)
    BY <1>6 DEF N
  <1> QED
    BY <1>1, <1>7 DEF Grows

LEMMA ListedNone ==
  ASSUME NEW n \in Nat, NEW p, NEW S, \A k \in 1..n : k \notin S
  PROVE  Listed(p, S, n) = <<>>
  <1>1. PICK f : Grows(f, n, p, S)
    BY ListedGrows
  <1>2. f[0] = <<>> /\ \A k \in 1..n : f[k] = f[k - 1]
    BY <1>1 DEF Grows
  <1> DEFINE N == {k \in Nat : k <= n => f[k] = <<>>}
  <1>3. 0 \in N
    BY <1>2
  <1>4. ASSUME NEW k \in N
        PROVE  k + 1 \in N
    <2> SUFFICES ASSUME k + 1 <= n
                 PROVE  f[k + 1] = <<>>
      OBVIOUS
    <2>1. k + 1 \in 1..n /\ (k + 1) - 1 = k /\ f[k] = <<>>
      OBVIOUS
    <2> QED
      BY <1>2, <2>1
  <1>5. N \in SUBSET Nat
    OBVIOUS
  <1> HIDE DEF N
  <1>6. N = Nat
    BY <1>3, <1>4, <1>5, NaturalSet
  <1>7. f[n] = <<>>
    BY <1>6 DEF N
  <1> QED
    BY <1>1, <1>7 DEF Grows

(* Of what is kept of a list and one more, the same is kept as of all of it.  *)
LEMMA LastOfAppend ==
  ASSUME NEW g \in Seq(Int), NEW x \in Int, NEW k \in Nat, k >= 1
  PROVE  LastOf(Append(LastOf(g, k), x), k) = LastOf(Append(g, x), k)
  <1>1. PICK n \in Nat : n = Len(g)
    OBVIOUS
  <1>2. CASE n <= k
    <2>1. LastOf(g, k) = g
      <3>1. PICK h : h = LastOf(g, k)
        OBVIOUS
      <3>2. h = SubSeq(g, 1, n)
        <4>1. ~(Len(g) > k)
          BY <1>1, <1>2
        <4> QED
          BY <1>1, <3>1, <4>1, Zenon DEF LastOf
      <3>3. h \in Seq(Int) /\ Len(h) = n /\ \A i \in 1..n : h[i] = g[i]
        BY <1>1, <3>2
      <3>4. h = g
        BY <1>1, <3>3
      <3> QED
        BY <3>1, <3>4
    <2> QED
      BY <2>1
  <1>3. CASE ~(n <= k)
    <2>1. PICK h : h = LastOf(g, k)
      OBVIOUS
    <2>2. /\ h \in Seq(Int) /\ Len(h) = k
          /\ \A i \in 1..k : h[i] = g[n - k + i]
      BY <1>1, <1>3, <2>1 DEF LastOf
    <2>3. PICK a : a = Append(h, x)
      OBVIOUS
    <2>4. /\ a \in Seq(Int) /\ Len(a) = k + 1 /\ a[k + 1] = x
          /\ \A i \in 1..k : a[i] = h[i]
      BY <2>2, <2>3
    <2>5. PICK b : b = Append(g, x)
      OBVIOUS
    <2>6. /\ b \in Seq(Int) /\ Len(b) = n + 1 /\ b[n + 1] = x
          /\ \A i \in 1..n : b[i] = g[i]
      BY <1>1, <2>5
    <2>7. PICK c : c = LastOf(a, k)
      OBVIOUS
    <2>8. PICK q : q = LastOf(b, k)
      OBVIOUS
    <2>9. /\ c \in Seq(Int) /\ Len(c) = k
          /\ \A i \in 1..k : c[i] = a[i + 1]
      BY <2>4, <2>7 DEF LastOf
    <2>10. /\ q \in Seq(Int) /\ Len(q) = k
           /\ \A i \in 1..k : q[i] = b[n + 1 - k + i]
      BY <1>3, <2>6, <2>8 DEF LastOf
    <2>11. ASSUME NEW i \in 1..k
           PROVE  c[i] = q[i]
      <3>1. c[i] = a[i + 1] /\ q[i] = b[n + 1 - k + i]
        BY <2>9, <2>10
      <3>2. CASE i = k
        <4>1. n + 1 - k + i = n + 1
          BY <3>2
        <4> QED
          BY <2>4, <2>6, <3>1, <3>2, <4>1
      <3>3. CASE i # k
        <4>1. i + 1 \in 1..k /\ n + 1 - k + i \in 1..n /\ n - k + (i + 1) = n + 1 - k + i
          BY <1>3, <3>3
        <4> QED
          BY <2>2, <2>4, <2>6, <3>1, <4>1
      <3> QED
        BY <3>2, <3>3
    <2>12. c = q
      BY <2>9, <2>10, <2>11
    <2> QED
      BY <2>1, <2>3, <2>5, <2>7, <2>8, <2>12
  <1> QED
    BY <1>2, <1>3

(* A gap of a stream is one of the longer stream.                            *)
LEMMA GapStands ==
  ASSUME NEW s, NEW e, NEW t, NEW n, NEW m, Grown(s, e, t, n, m),
         NEW A \in SUBSET (1..n), NEW B, B = A \/ B = A \cup {m}
  PROVE  \A k \in 1..n :
             /\ k \in Followers(A) <=> k \in Followers(B)
             /\ k \in Followers(A) => GapAt(s, A)[k] = GapAt(t, B)[k]
             /\ k \in Followers(A) => GapAt(s, A)[k] \in Int
  <1> SUFFICES ASSUME NEW k \in 1..n
               PROVE  /\ k \in Followers(A) <=> k \in Followers(B)
                      /\ k \in Followers(A) => GapAt(s, A)[k] = GapAt(t, B)[k]
                      /\ k \in Followers(A) => GapAt(s, A)[k] \in Int
    OBVIOUS
  <1>1. /\ \A i \in 1..n : t[i] = s[i] /\ i \in 1..m /\ s[i].epoch \in Int /\ i < m
        /\ Len(s) = n /\ Len(t) = m /\ n \in Nat /\ m \notin 1..n /\ m = n + 1
    BY GrownFacts
  <1>2. PICK W : W = Before(A, k)
    OBVIOUS
  <1>3. W = Before(B, k)
    <2>1. ~(m < k)
      BY <1>1
    <2> QED
      BY <1>2, <2>1 DEF Before
  <1>4. W \in SUBSET (1..n)
    BY <1>2 DEF Before
  <1>5. k \in Followers(A) <=> k \in Followers(B)
    BY <1>1, <1>2, <1>3 DEF Followers
  <1>6. ASSUME k \in Followers(A)
        PROVE  GapAt(s, A)[k] = GapAt(t, B)[k] /\ GapAt(s, A)[k] \in Int
    <2>1. W # {}
      BY <1>2, <1>6 DEF Followers
    <2>2. Max(W) \in 1..n
      <3>1. Top(W, Max(W))
        BY <1>1, <1>4, <2>1, MaxIsTop
      <3> QED
        BY <1>4, <3>1 DEF Top
    <2>3. PICK x \in 1..n : x = Max(W)
      BY <2>2
    <2>4. GapAt(s, A)[k] = s[k].epoch - s[x].epoch
      BY <1>1, <1>2, <2>3 DEF GapAt
    <2>5. GapAt(t, B)[k] = t[k].epoch - t[x].epoch
      BY <1>1, <1>3, <2>3 DEF GapAt
    <2> QED
      BY <1>1, <2>4, <2>5
  <1> QED
    BY <1>5, <1>6

LEMMA GapsStand ==
  ASSUME NEW s, NEW e, NEW t, NEW n, NEW m, Grown(s, e, t, n, m), NEW A \in SUBSET (1..n)
  PROVE  GapsIn(t, A) = GapsIn(s, A) /\ GapsIn(s, A) \in Seq(Int)
  <1>1. PICK p, q, F : p = GapAt(s, A) /\ q = GapAt(t, A) /\ F = Followers(A)
    OBVIOUS
  <1>2. Len(s) = n /\ Len(t) = m /\ n \in Nat /\ m \notin 1..n /\ m = n + 1
    BY GrownFacts
  <1>3. \A k \in 1..n : k \in F => p[k] = q[k] /\ p[k] \in Int
    BY <1>1, GapStands
  <1>4. n + 1 \notin F
    BY <1>1, <1>2 DEF Followers
  <1>5. Listed(q, F, n + 1) = Listed(p, F, n)
    <2>1. SamePoints(n, p, F, q, F)
      BY <1>3 DEF SamePoints
    <2> QED
      BY <1>2, <1>4, <2>1, ListedNext
  <1>6. Listed(p, F, n) \in Seq(Int)
    BY <1>2, <1>3, ListedType
  <1> QED
    BY <1>1, <1>2, <1>5, <1>6 DEF GapsIn

LEMMA GapsGrow ==
  ASSUME NEW s, NEW e, NEW t, NEW n, NEW m, Grown(s, e, t, n, m), NEW A \in SUBSET (1..n),
         NEW i, Top(A, i)
  PROVE  GapsIn(t, A \cup {m}) = Append(GapsIn(s, A), e.epoch - s[i].epoch)
  <1>0. PICK B : B = A \cup {m}
    OBVIOUS
  <1>1. PICK p, q, F, G : /\ p = GapAt(s, A) /\ q = GapAt(t, B)
                          /\ F = Followers(A) /\ G = Followers(B)
    OBVIOUS
  <1>2. /\ \A j \in 1..n : t[j] = s[j] /\ j < m
        /\ Len(s) = n /\ Len(t) = m /\ n \in Nat /\ m \in 1..m /\ m = n + 1 /\ t[m] = e
    BY GrownFacts
  <1>3. SamePoints(n, p, F, q, G)
    BY <1>0, <1>1, GapStands DEF SamePoints
  <1>4. Before(B, m) = A
    <2>1. ~(m < m)
      BY <1>2
    <2> QED
      BY <1>0, <1>2, <2>1 DEF Before
  <1>5. i \in A /\ A # {}
    BY DEF Top
  <1>6. n + 1 \in G
    BY <1>0, <1>1, <1>2, <1>4, <1>5 DEF Followers
  <1>7. i = Max(A)
    BY <1>2, <1>5, MaxIsTop
  <1>8. q[n + 1] = e.epoch - s[i].epoch
    <2>1. q[m] = t[m].epoch - t[Max(Before(B, m))].epoch
      BY <1>1, <1>2 DEF GapAt
    <2>2. t[i] = s[i]
      BY <1>2, <1>5
    <2> QED
      BY <1>2, <1>4, <1>7, <2>1, <2>2
  <1>9. Listed(q, G, n + 1) = Append(Listed(p, F, n), q[n + 1])
    <2>1. Listed(q, G, n + 1) = IF n + 1 \in G THEN Append(Listed(p, F, n), q[n + 1])
                               ELSE Listed(p, F, n)
      <3>1. n \in Nat
        BY <1>2
      <3> QED
        BY <1>3, <3>1, ListedNext
    <2> QED
      BY <1>6, <2>1
  <1> QED
    BY <1>0, <1>1, <1>2, <1>8, <1>9 DEF GapsIn

LEMMA GapsOfFirst ==
  ASSUME NEW s, NEW k \in 1..Len(s), Len(s) \in Nat
  PROVE  GapsIn(s, {k}) = <<>>
  <1>1. Before({k}, k) = {}
    BY DEF Before
  <1>2. \A j \in 1..Len(s) : j \notin Followers({k})
    BY <1>1 DEF Followers
  <1> QED
    BY <1>2, ListedNone DEF GapsIn

-----------------------------------------------------------------------------
BeaconRow(s, p, w) ==
    LET A == Advances(s, p, Len(s)) IN
    /\ w.gaps = LastOf(GapsIn(s, A), MinEvents + Slack)
    /\ \E i : Top(A, i) /\ s[i].epoch = w.last
BeaconGrounded(s, T) == \A p \in DOMAIN T : BeaconRow(s, p, T[p])
BeaconClaim(s, a) ==
    Periodic(LastOf(GapsIn(s, Advances(s, PairOf(a), Len(s))), MinEvents + Slack))

LEMMA AdvancesWithin ==
  ASSUME NEW s, NEW p, NEW n
  PROVE  Advances(s, p, n) \in SUBSET (1..n)
  BY DEF Advances, Contacts

(* A row stands while the clock of its pair does not advance.                *)
LEMMA BeaconRowStands ==
  ASSUME NEW s, NEW e, NEW t, NEW n, NEW m, Grown(s, e, t, n, m), NEW p, NEW w,
         BeaconRow(s, p, w), Advances(t, p, m) = Advances(s, p, n)
  PROVE  BeaconRow(t, p, w)
  <1>1. PICK A : A = Advances(s, p, n)
    OBVIOUS
  <1>2. /\ \A i \in 1..n : t[i] = s[i]
        /\ Len(s) = n /\ Len(t) = m
    BY GrownFacts
  <1>3. A \in SUBSET (1..n)
    BY <1>1, AdvancesWithin
  <1>4. GapsIn(t, A) = GapsIn(s, A)
    BY <1>3, GapsStand
  <1>5. \A i : Top(A, i) => t[i] = s[i]
    BY <1>2, <1>3 DEF Top
  <1> QED
    BY <1>1, <1>2, <1>4, <1>5 DEF BeaconRow

LEMMA BeaconRowAdvances ==
  ASSUME NEW s, NEW e, NEW t, NEW n, NEW m, Grown(s, e, t, n, m), NEW p, NEW w,
         BeaconRow(s, p, w), Advances(t, p, m) = Advances(s, p, n) \cup {m},
         NEW v, v.last = e.epoch,
         v.gaps = LastOf(Append(w.gaps, e.epoch - w.last), MinEvents + Slack)
  PROVE  BeaconRow(t, p, v)
  <1>1. PICK A, B : A = Advances(s, p, n) /\ B = Advances(t, p, m)
    OBVIOUS
  <1>2. /\ \A i \in 1..n : t[i] = s[i] /\ i < m /\ s[i].epoch \in Int
        /\ Len(s) = n /\ Len(t) = m /\ t[m] = e /\ e.epoch \in Int /\ m \in Nat
    BY GrownFacts
  <1>3. A \in SUBSET (1..n) /\ B = A \cup {m}
    BY <1>1, AdvancesWithin
  <1>4. PICK i : Top(A, i) /\ s[i].epoch = w.last
    BY <1>1, <1>2 DEF BeaconRow
  <1>5. PICK g : g = GapsIn(s, A)
    OBVIOUS
  <1>6. w.gaps = LastOf(g, MinEvents + Slack)
    BY <1>1, <1>2, <1>5 DEF BeaconRow
  <1>7. GapsIn(t, B) = Append(g, e.epoch - w.last)
    BY <1>3, <1>4, <1>5, GapsGrow
  <1>8. g \in Seq(Int)
    BY <1>3, <1>5, GapsStand
  <1>9. e.epoch - w.last \in Int
    BY <1>2, <1>3, <1>4 DEF Top
  <1>10. MinEvents + Slack \in Nat /\ MinEvents + Slack >= 1
    BY DetectorAssumption
  <1>11. v.gaps = LastOf(GapsIn(t, B), MinEvents + Slack)
    <2>1. PICK K, x : K = MinEvents + Slack /\ x = e.epoch - w.last
      OBVIOUS
    <2>2. LastOf(Append(LastOf(g, K), x), K) = LastOf(Append(g, x), K)
      BY <1>8, <1>9, <1>10, <2>1, LastOfAppend
    <2> QED
      BY <1>6, <1>7, <2>1, <2>2
  <1>12. Top(B, m)
    <2>1. \A j \in 1..n : j <= m
      BY <1>2
    <2>2. m <= m
      BY <1>2
    <2> QED
      BY <1>3, <2>1, <2>2 DEF Top
  <1> QED
    BY <1>1, <1>2, <1>11, <1>12 DEF BeaconRow

LEMMA BeaconRowStarts ==
  ASSUME NEW s, NEW e, NEW t, NEW n, NEW m, Grown(s, e, t, n, m), NEW p,
         Advances(t, p, m) = {m}, NEW v, v.last = e.epoch, v.gaps = <<>>
  PROVE  BeaconRow(t, p, v)
  <1>1. Len(t) = m /\ m \in Nat /\ m \in 1..m /\ t[m] = e
    BY GrownFacts
  <1>2. GapsIn(t, {m}) = <<>>
    BY <1>1, GapsOfFirst
  <1>3. MinEvents + Slack \in Nat
    BY DetectorAssumption
  <1>4. LastOf(<<>>, MinEvents + Slack) = <<>>
    BY <1>3 DEF LastOf
  <1>5. Top({m}, m)
    <2>1. m <= m
      BY <1>1
    <2> QED
      BY <2>1 DEF Top
  <1> QED
    BY <1>1, <1>2, <1>4, <1>5 DEF BeaconRow

(* The table follows the stream: no contact of a tracked pair is later than   *)
(* its window, and with room left no pair that made contact is untracked.     *)
Follows(s, d, cap) ==
    /\ \A p \in DOMAIN d.table : Buffered(d.table[p]) /\ Tracked(s, p, Len(s), d.table[p])
    /\ Room(d, cap) => \A i \in 1..Len(s) : s[i].x => PairOf(s[i]) \in DOMAIN d.table

LEMMA BeaconIgnores ==
  ASSUME NEW s, NEW e, NEW t, NEW n, NEW m, Grown(s, e, t, n, m), NEW T,
         BeaconGrounded(s, T)
  PROVE  \A q \in DOMAIN T : ~IsContact(e, q) => BeaconRow(t, q, T[q])
  <1> SUFFICES ASSUME NEW q \in DOMAIN T, ~IsContact(e, q)
               PROVE  BeaconRow(t, q, T[q])
    OBVIOUS
  <1>1. BeaconRow(s, q, T[q])
    BY DEF BeaconGrounded
  <1>2. Advances(t, q, m) = Advances(s, q, n)
    BY NextContacts
  <1> QED
    BY <1>1, <1>2, BeaconRowStands

LEMMA ContactStands ==
  ASSUME NEW s, NEW e, NEW t, NEW n, NEW m, Grown(s, e, t, n, m), e.x,
         NEW d, NEW cap, Follows(s, d, cap), BeaconGrounded(s, d.table),
         ~Full(d.table, PairOf(e), cap), NEW r, r = Contact(d, e)
  PROVE  /\ BeaconGrounded(t, r.det.table)
         /\ \/ r.out = <<>>
            \/ BeaconClaim(t, e) /\ \E k \in Nat : r.out = OutOf(e, k)
  <1>1. PICK p, T, N : p = PairOf(e) /\ T = d.table /\ N = r.det.table
    OBVIOUS
  <1>2. Len(s) = n /\ n \in Nat /\ Len(t) = m /\ e.epoch \in Int
    BY GrownFacts
  <1>3. IsContact(e, p) /\ \A q : q # p => ~IsContact(e, q)
    BY <1>1 DEF IsContact
  <1>4. DOMAIN N = DOMAIN T \cup {p} /\ \A q \in DOMAIN T : q # p => N[q] = T[q]
    BY <1>1, ContactFields DEF PairOf
  <1>5. \A q \in DOMAIN T : Buffered(T[q]) /\ Tracked(s, q, n, T[q])
    BY <1>1, <1>2 DEF Follows
  <1>6. \/ /\ p \notin DOMAIN T /\ r.out = <<>>
           /\ N[p].last = e.epoch /\ N[p].gaps = <<>>
        \/ /\ p \in DOMAIN T /\ e.epoch <= T[p].last /\ r.out = <<>>
           /\ N[p] = T[p]
        \/ /\ p \in DOMAIN T /\ e.epoch > T[p].last
           /\ N[p].last = e.epoch /\ N[p].total = T[p].total + 1
           /\ N[p].gaps = LastOf(Append(T[p].gaps, e.epoch - T[p].last), MinEvents + Slack)
           /\ \/ r.out = <<>>
              \/ Periodic(N[p].gaps) /\ r.out = OutOf(e, N[p].total)
    BY <1>1, <1>2, <1>5, ContactWindow DEF OutOf
  <1>7. BeaconRow(t, p, N[p])
    <2>1. CASE /\ p \notin DOMAIN T
               /\ N[p].last = e.epoch /\ N[p].gaps = <<>>
      <3>1. Room(d, cap)
        BY <1>1, <2>1 DEF Full, Room
      <3>2. Contacts(s, p, n) = {}
        BY <1>1, <1>2, <2>1, <3>1 DEF Follows, Contacts, IsContact
      <3>3. Advances(s, p, n) = {}
        BY <3>2 DEF Advances
      <3>4. Advances(t, p, m) = {m}
        <4>1. \A i \in Contacts(s, p, n) : s[i].epoch < e.epoch
          BY <3>2
        <4>2. Advances(t, p, m) = Advances(s, p, n) \cup {m}
          BY <1>3, <4>1, NextContacts
        <4> QED
          BY <3>3, <4>2
      <3> QED
        BY <2>1, <3>4, BeaconRowStarts
    <2>2. CASE p \in DOMAIN T /\ e.epoch <= T[p].last /\ N[p] = T[p]
      <3>1. BeaconRow(s, p, T[p])
        BY <1>1, <2>2 DEF BeaconGrounded
      <3>2. \E i \in Contacts(s, p, n) : s[i].epoch >= e.epoch
        <4>1. PICK i \in Contacts(s, p, n) : s[i].epoch >= T[p].last
          BY <1>5, <2>2 DEF Tracked
        <4>2. T[p].last \in Int
          BY <1>5, <2>2 DEF Buffered, Windows
        <4>3. s[i].epoch \in Int
          <5>1. i \in 1..n
            BY DEF Contacts
          <5>2. \A j \in 1..n : s[j].epoch \in Int
            BY GrownFacts
          <5> QED
            BY <5>1, <5>2
        <4>4. s[i].epoch >= e.epoch
          BY <1>2, <2>2, <4>1, <4>2, <4>3
        <4> QED
          BY <4>4
      <3>3. Advances(t, p, m) = Advances(s, p, n)
        BY <1>3, <3>2, NextContacts
      <3> QED
        BY <2>2, <3>1, <3>3, BeaconRowStands
    <2>3. CASE /\ p \in DOMAIN T /\ e.epoch > T[p].last /\ N[p].last = e.epoch
               /\ N[p].gaps = LastOf(Append(T[p].gaps, e.epoch - T[p].last),
                                     MinEvents + Slack)
      <3>1. BeaconRow(s, p, T[p])
        BY <1>1, <2>3 DEF BeaconGrounded
      <3>2. \A i \in Contacts(s, p, n) : s[i].epoch < e.epoch
        <4> SUFFICES ASSUME NEW i \in Contacts(s, p, n)
                     PROVE  s[i].epoch < e.epoch
          OBVIOUS
        <4>1. s[i].epoch <= T[p].last
          BY <1>5, <2>3 DEF Tracked
        <4>2. T[p].last \in Int
          BY <1>5, <2>3 DEF Buffered, Windows
        <4>3. s[i].epoch \in Int
          <5>1. i \in 1..n
            BY DEF Contacts
          <5>2. \A j \in 1..n : s[j].epoch \in Int
            BY GrownFacts
          <5> QED
            BY <5>1, <5>2
        <4> QED
          BY <1>2, <2>3, <4>1, <4>2, <4>3
      <3>3. Advances(t, p, m) = Advances(s, p, n) \cup {m}
        BY <1>3, <3>2, NextContacts
      <3> QED
        BY <2>3, <3>1, <3>3, BeaconRowAdvances
    <2> QED
      BY <1>6, <2>1, <2>2, <2>3
  <1>8. BeaconGrounded(t, N)
    <2>1. \A q \in DOMAIN T : q # p => BeaconRow(t, q, T[q])
      BY <1>1, <1>3, BeaconIgnores
    <2> QED
      BY <1>4, <1>7, <2>1 DEF BeaconGrounded
  <1>9. ASSUME Periodic(N[p].gaps)
        PROVE  BeaconClaim(t, e)
    <2>1. N[p].gaps = LastOf(GapsIn(t, Advances(t, p, Len(t))), MinEvents + Slack)
      BY <1>7 DEF BeaconRow
    <2> QED
      BY <1>1, <1>9, <2>1 DEF BeaconClaim
  <1>10. \/ r.out = <<>>
         \/ /\ Periodic(N[p].gaps) /\ r.out = OutOf(e, N[p].total)
            /\ p \in DOMAIN T /\ N[p].total = T[p].total + 1
    BY <1>6
  <1>11. p \in DOMAIN T => T[p].total + 1 \in Nat
    BY <1>5 DEF Buffered, Windows
  <1> QED
    BY <1>1, <1>8, <1>9, <1>10, <1>11

LEMMA BeaconStands ==
  ASSUME NEW s, NEW e, NEW t, NEW n, NEW m, Grown(s, e, t, n, m),
         NEW d, NEW cap, Follows(s, d, cap), BeaconGrounded(s, d.table),
         NEW most, NEW r, r = Beacon(d, e, cap, most)
  PROVE  /\ r.det.degraded \/ BeaconGrounded(t, r.det.table)
         /\ \/ r.out = <<>>
            \/ BeaconClaim(t, e) /\ \E k \in Nat : r.out = OutOf(e, k)
  <1>1. r = IF ~e.x THEN Quiet(d)
            ELSE IF d.aux >= most THEN Quiet(Degrade(Kept(d, <<>>, d.aux)))
            ELSE IF Full(d.table, PairOf(e), cap) THEN Quiet(d)
            ELSE Contact(d, e)
    BY BeaconCases DEF PairOf
  <1>2. CASE r = Quiet(Degrade(Kept(d, <<>>, d.aux)))
    BY <1>2 DEF Quiet, Degrade
  <1>3. CASE r = Quiet(d) /\ (~e.x \/ Full(d.table, PairOf(e), cap))
    <2>1. r.det = d /\ r.out = <<>>
      BY <1>3, QuietOutcome
    <2>2. \A q \in DOMAIN d.table : ~IsContact(e, q)
      BY <1>3 DEF Full, IsContact
    <2>3. BeaconGrounded(t, d.table)
      BY <2>2, BeaconIgnores DEF BeaconGrounded
    <2> QED
      BY <2>1, <2>3
  <1>4. CASE r = Contact(d, e) /\ e.x /\ ~Full(d.table, PairOf(e), cap)
    BY <1>4, ContactStands
  <1> QED
    BY <1>1, <1>2, <1>3, <1>4

-----------------------------------------------------------------------------
(* Justification: what an alert claims is so of the stream up to it, and what *)
(* the table remembers is so of the stream up to now.                         *)
Claimants == {"beacon", "tunnel", "volume", "sync", "fastflux"}
Claim(f, s, a, n) ==
    /\ f = "beacon" => BeaconClaim(s, a)
    /\ f = "tunnel" => TunnelClaim(s, a, n)
    /\ f = "volume" => VolumeClaim(s, a, n)
    /\ f = "sync" => SyncClaim(s, a)
    /\ f = "fastflux" => FluxClaim(s, a)
Grounded(f, s, T) ==
    /\ f = "beacon" => BeaconGrounded(s, T)
    /\ f = "tunnel" => TunnelGrounded(s, T)
    /\ f = "volume" => VolumeGrounded(s, T)
    /\ f = "sync" => SyncGrounded(s, T)
    /\ f = "fastflux" => FluxGrounded(s, T)
Sane(f, s) == Positive(s) /\ (f = "volume" => Counted(s))
UpTo(k) == SubSeq(stream, 1, k)

JustInv ==
    family \in Claimants =>
        /\ Filed /\ Sane(family, stream)
        /\ \A k \in DOMAIN alerts : Claim(family, UpTo(alerts[k].index), alerts[k], alerts[k].facts)
        /\ ~bounded.degraded => Grounded(family, stream, bounded.table)

LEMMA JustInitially ==
  ASSUME Init
  PROVE  JustInv
  <1>1. alerts = <<>> /\ stream = <<>> /\ bounded.table = <<>>
    BY DEF Init, Fresh
  <1>2. /\ alerts \in Seq(Reports) /\ DOMAIN alerts = {} /\ DOMAIN bounded.table = {}
        /\ Len(stream) = 0
    BY <1>1
  <1>3. Filed
    BY <1>2 DEF Filed
  <1>4. Sane(family, stream)
    BY <1>2 DEF Sane, Positive, Counted
  <1>5. Grounded(family, stream, bounded.table)
    BY <1>2 DEF Grounded, BeaconGrounded, TunnelGrounded, VolumeGrounded, SyncGrounded,
                FluxGrounded
  <1> QED
    BY <1>2, <1>3, <1>4, <1>5 DEF JustInv

(* What a detector makes of an observation, family by family.                *)
LEMMA ObservationStands ==
  ASSUME NEW f \in Claimants, NEW s, NEW e, NEW t, NEW n, NEW m, Grown(s, e, t, n, m),
         Sane(f, s), Sane(f, t),
         NEW d, ~d.degraded, Grounded(f, s, d.table), NEW cap, NEW most,
         f = "beacon" => Follows(s, d, cap),
         NEW r, r = Observe(f, d, e, cap, most)
  PROVE  /\ r.det.degraded \/ Grounded(f, t, r.det.table)
         /\ \/ r.out = <<>>
            \/ \E k \in Nat : r.out = OutOf(e, k) /\ Claim(f, t, e, k)
  <1>1. CASE f = "beacon"
    <2>1. r = Beacon(d, e, cap, most)
      BY <1>1, BeaconObserves
    <2>2. BeaconGrounded(s, d.table) /\ Follows(s, d, cap)
      BY <1>1 DEF Grounded
    <2>3. /\ r.det.degraded \/ BeaconGrounded(t, r.det.table)
          /\ \/ r.out = <<>>
             \/ BeaconClaim(t, e) /\ \E k \in Nat : r.out = OutOf(e, k)
      BY <2>1, <2>2, BeaconStands
    <2> QED
      BY <1>1, <2>3 DEF Grounded, Claim
  <1>2. CASE f = "tunnel"
    <2>1. r = Tunnel(d, e, cap)
      BY <1>2, Zenon DEF Observe
    <2>2. /\ r.det.degraded \/ TunnelGrounded(t, r.det.table)
          /\ \/ r.out = <<>>
             \/ \E k \in Nat : r.out = OutOf(e, k) /\ TunnelClaim(t, e, k)
      BY <1>2, <2>1, TunnelStands DEF Grounded, Sane
    <2> QED
      BY <1>2, <2>2 DEF Grounded, Claim
  <1>3. CASE f = "volume"
    <2>1. r = Volume(d, e, cap)
      BY <1>3, Zenon DEF Observe
    <2>2. /\ r.det.degraded \/ VolumeGrounded(t, r.det.table)
          /\ \/ r.out = <<>>
             \/ \E k \in Nat : r.out = OutOf(e, k) /\ VolumeClaim(t, e, k)
      BY <1>3, <2>1, VolumeStands DEF Grounded, Sane
    <2> QED
      BY <1>3, <2>2 DEF Grounded, Claim
  <1>4. CASE f = "sync"
    <2>1. r = Sync(d, e, cap)
      BY <1>4, Zenon DEF Observe
    <2>2. /\ r.det.degraded \/ SyncGrounded(t, r.det.table)
          /\ \/ r.out = <<>>
             \/ SyncClaim(t, e) /\ \E k \in Nat : r.out = OutOf(e, k)
      BY <1>4, <2>1, SyncStands DEF Grounded
    <2> QED
      BY <1>4, <2>2 DEF Grounded, Claim
  <1>5. CASE f = "fastflux"
    <2>1. r = FastFlux(d, e, cap)
      BY <1>5, Zenon DEF Observe
    <2>2. /\ r.det.degraded \/ FluxGrounded(t, r.det.table)
          /\ \/ r.out = <<>>
             \/ FluxClaim(t, e) /\ \E k \in Nat : r.out = OutOf(e, k)
      BY <1>5, <2>1, FluxStands DEF Grounded
    <2> QED
      BY <1>5, <2>2 DEF Grounded, Claim
  <1> QED
    BY <1>1, <1>2, <1>3, <1>4, <1>5 DEF Claimants

(* A claim is about the source, destination and time of an alert only.       *)
LEMMA ClaimOfReport ==
  ASSUME NEW f, NEW s, NEW e, NEW a, NEW n, Claim(f, s, e, n),
         a.src = e.src, a.dst = e.dst, a.epoch = e.epoch
  PROVE  Claim(f, s, a, n)
  <1>1. PairOf(a) = PairOf(e)
    BY DEF PairOf
  <1> QED
    BY <1>1 DEF Claim, BeaconClaim, TunnelClaim, VolumeClaim, SyncClaim, FluxClaim

LEMMA EarlierPrefix ==
  ASSUME NEW s \in Seq(Events), NEW e \in Events
  PROVE  /\ \A k \in 1..Len(s) : SubSeq(Append(s, e), 1, k) = SubSeq(s, 1, k)
         /\ SubSeq(Append(s, e), 1, Len(s) + 1) = Append(s, e)
  <1>1. PICK t, n : t = Append(s, e) /\ n = Len(s)
    OBVIOUS
  <1>2. t \in Seq(Events) /\ n \in Nat /\ Len(t) = n + 1 /\ \A i \in 1..n : t[i] = s[i]
    BY <1>1
  <1>3. ASSUME NEW k \in 1..n
        PROVE  SubSeq(t, 1, k) = SubSeq(s, 1, k)
    <2>1. PICK u, v : u = SubSeq(t, 1, k) /\ v = SubSeq(s, 1, k)
      OBVIOUS
    <2>2. /\ u \in Seq(Events) /\ Len(u) = k /\ \A i \in 1..k : u[i] = t[i]
          /\ v \in Seq(Events) /\ Len(v) = k /\ \A i \in 1..k : v[i] = s[i]
      BY <1>1, <1>2, <2>1
    <2>3. \A i \in 1..k : u[i] = v[i]
      BY <1>2, <2>2
    <2>4. u = v
      BY <2>2, <2>3
    <2> QED
      BY <2>1, <2>4
  <1>4. SubSeq(t, 1, n + 1) = t
    <2>1. PICK u : u = SubSeq(t, 1, n + 1)
      OBVIOUS
    <2>2. u \in Seq(Events) /\ Len(u) = n + 1 /\ \A i \in 1..(n + 1) : u[i] = t[i]
      BY <1>2, <2>1
    <2>3. u = t
      BY <1>2, <2>2
    <2> QED
      BY <2>1, <2>3
  <1> QED
    BY <1>1, <1>3, <1>4

LEMMA JustStep ==
  ASSUME IInv, FreshInv, JustInv, NEW o \in Alphabet[family], Fold(o)
  PROVE  JustInv'
  <1>1. Typed /\ Enveloped
    BY DEF IInv
  <1>2. PICK e \in Events :
             /\ e.x = o.x /\ e.epoch > 0
             /\ stream' = Append(stream, e) /\ family' = family
             /\ bounded' = Observe(family, bounded, e, Cap[family], MaxEvents).det
             /\ alerts' = alerts \o Numbered(
                    Observe(family, bounded, e, Cap[family], MaxEvents).out)
    BY <1>1, FoldStep
  <1> SUFFICES ASSUME family \in Claimants
               PROVE  /\ Filed' /\ Sane(family, stream)'
                      /\ \A k \in DOMAIN alerts' :
                             Claim(family, UpTo(alerts[k].index), alerts[k], alerts[k].facts)'
                      /\ ~bounded'.degraded => Grounded(family, stream, bounded.table)'
    BY <1>2 DEF JustInv
  <1>3. /\ Filed /\ Sane(family, stream)
        /\ \A k \in DOMAIN alerts : Claim(family, UpTo(alerts[k].index), alerts[k], alerts[k].facts)
        /\ ~bounded.degraded => Grounded(family, stream, bounded.table)
    BY DEF JustInv
  <1>4. PICK r, n, m : /\ r = Observe(family, bounded, e, Cap[family], MaxEvents)
                       /\ n = Len(stream) /\ m = n + 1
    OBVIOUS
  <1>5. stream \in Seq(Events)
    BY <1>1 DEF Typed
  <1>6. Grown(stream, e, stream', n, m)
    BY <1>2, <1>4, <1>5 DEF Grown
  <1>7. /\ \A i \in 1..n : stream'[i] = stream[i]
        /\ \A i \in 1..m : i # m => i \in 1..n
        /\ stream'[m] = e /\ Len(stream') = m /\ Len(stream) = n /\ n \in Nat
    BY <1>6, GrownFacts
  <1>8. Sane(family, stream')
    <2>1. family = "volume" => e.x.out \in Nat
      BY <1>1, <1>2, DetectorAssumption DEF Typed
    <2> QED
      BY <1>2, <1>3, <1>7, <2>1 DEF Sane, Positive, Counted
  <1>9. /\ r.out = <<>> \/ \E k \in Nat : r.out = OutOf(e, k) /\ Claim(family, stream', e, k)
        /\ r.det.degraded \/ Grounded(family, stream', r.det.table)
    <2>1. CASE bounded.degraded
      <3>1. r = Quiet(bounded)
        BY <1>4, <2>1, Zenon DEF Observe
      <3> QED
        BY <2>1, <3>1, QuietOutcome
    <2>2. CASE ~bounded.degraded
      <3>1. family = "beacon" => Follows(stream, bounded, Cap[family])
        BY <1>1, <2>2 DEF FreshInv, Reporters, Enveloped, Clocked, Follows
      <3>2. Grounded(family, stream, bounded.table)
        BY <1>3, <2>2
      <3> QED
        BY <1>3, <1>4, <1>6, <1>8, <2>2, <3>1, <3>2, ObservationStands
    <2> QED
      BY <2>1, <2>2
  <1>10. bounded' = r.det /\ alerts' = alerts \o Numbered(r.out)
    BY <1>2, <1>4
  <1>11. Filed' /\ (r.out = <<>> => alerts' = alerts)
    BY <1>2, <1>3, <1>5, <1>9, <1>10, FiledStep
  <1>12. alerts \in Seq(Reports)
         /\ \A k \in DOMAIN alerts : alerts[k].index \in 1..n
    BY <1>3, <1>4 DEF Filed
  <1>13. \A k \in DOMAIN alerts :
             Claim(family, SubSeq(stream', 1, alerts[k].index), alerts[k], alerts[k].facts)
    <2>1. \A k \in 1..n : SubSeq(stream', 1, k) = SubSeq(stream, 1, k)
      BY <1>2, <1>4, <1>5, EarlierPrefix
    <2>2. \A k \in DOMAIN alerts :
              SubSeq(stream', 1, alerts[k].index) = UpTo(alerts[k].index)
      BY <1>12, <2>1 DEF UpTo
    <2> QED
      BY <1>3, <2>2
  <1>14. \A k \in DOMAIN alerts' :
             Claim(family, SubSeq(stream', 1, alerts'[k].index), alerts'[k], alerts'[k].facts)
    <2>1. CASE r.out = <<>>
      BY <1>11, <1>13, <2>1
    <2>2. CASE r.out # <<>>
      <3>1. PICK f \in Nat : r.out = OutOf(e, f) /\ Claim(family, stream', e, f)
        BY <1>9, <2>2
      <3>2. PICK a : a = ReportOf(e, f, m)
        OBVIOUS
      <3>3. alerts' = Append(alerts, a) /\ a \in Reports
        BY <1>4, <1>5, <1>10, <1>12, <3>1, <3>2, OneReport
      <3>4. a.src = e.src /\ a.dst = e.dst /\ a.epoch = e.epoch /\ a.facts = f /\ a.index = m
        BY <3>2 DEF ReportOf
      <3>5. SubSeq(stream', 1, m) = stream'
        BY <1>2, <1>4, <1>5, EarlierPrefix
      <3>6. Claim(family, SubSeq(stream', 1, a.index), a, a.facts)
        BY <3>1, <3>4, <3>5, ClaimOfReport
      <3>7. \A k \in DOMAIN alerts' : \/ k \in DOMAIN alerts /\ alerts'[k] = alerts[k]
                                      \/ alerts'[k] = a
        BY <1>12, <3>3
      <3> QED
        BY <1>13, <3>6, <3>7
    <2> QED
      BY <2>1, <2>2
  <1> QED
    BY <1>2, <1>8, <1>9, <1>10, <1>11, <1>14 DEF UpTo

(* A claim about the stream up to an alert is what Justified says of it.     *)
LEMMA PrefixFacts ==
  ASSUME stream \in Seq(Events), NEW k \in 1..Len(stream)
  PROVE  /\ UpTo(k) \in Seq(Events) /\ Len(UpTo(k)) = k
         /\ \A i \in 1..k : UpTo(k)[i] = stream[i]
  BY DEF UpTo

(* An integer ratio within the tolerance, with the division multiplied out.   *)
LEMMA RatioWithin ==
  ASSUME NEW p \in Nat, NEW m \in Nat \ {0}, NEW t \in Int, p \div m <= t
  PROVE  p < (t + 1) * m
  <1>1. PICK q \in Nat, x \in 0..(m - 1) : p = q * m + x /\ q = p \div m
    <2>1. p \div m \in Nat /\ p % m \in 0..(m - 1) /\ p = (m * (p \div m)) + (p % m)
      OBVIOUS
    <2> QED
      BY <2>1
  <1>2. q * m <= t * m
    BY <1>1
  <1>3. (t + 1) * m = t * m + m
    OBVIOUS
  <1> QED
    BY <1>1, <1>2, <1>3

LEMMA PeriodicIsSteady ==
  ASSUME NEW g \in Seq(Int), Periodic(g)
  PROVE  Steady(g)
  <1>1. PICK m : m = Median(g)
    OBVIOUS
  <1>2. /\ m \in MinMedian..MaxMedian
        /\ \A i \in DOMAIN g : (Abs(g[i] - m) * Whole) \div m <= Tol
    BY <1>1 DEF Periodic
  <1>3. Tol \in Int /\ MinMedian \in Nat \ {0} /\ MaxMedian \in Nat
    BY DetectorAssumption
  <1>4. m \in Nat \ {0} /\ MinMedian <= m /\ m <= MaxMedian
    BY <1>2, <1>3
  <1>5. ASSUME NEW i \in DOMAIN g, NEW w \in Nat, w = Whole
        PROVE  /\ -(Tol + 1) * m < (g[i] - m) * w
               /\ (g[i] - m) * w < (Tol + 1) * m
    <2>1. PICK d \in Int : d = g[i] - m
      BY <1>4
    <2>2. PICK a \in Nat : a = Abs(d) /\ (d = a \/ d = -a)
      BY DEF Abs
    <2>3. (a * w) \div m <= Tol
      BY <1>2, <1>5, <2>1, <2>2
    <2>4. a * w \in Nat
      OBVIOUS
    <2>5. a * w < (Tol + 1) * m
      BY <1>3, <1>4, <2>3, <2>4, RatioWithin
    <2>6. d * w = a * w \/ d * w = -(a * w)
      <3>1. (-a) * w = -(a * w)
        OBVIOUS
      <3> QED
        BY <2>2, <3>1
    <2>7. -(Tol + 1) * m = -((Tol + 1) * m)
      BY <1>3, <1>4
    <2>8. PICK x \in Int, y \in Nat, z \in Int : x = (Tol + 1) * m /\ y = a * w /\ z = d * w
      BY <1>3, <1>4, <2>4
    <2>9. y < x /\ (z = y \/ z = -y)
      BY <2>5, <2>6, <2>8
    <2>10. -x < z /\ z < x
      BY <2>9
    <2> QED
      BY <2>1, <2>7, <2>8, <2>10
  <1>6. Whole \in Nat
    BY DEF Whole
  <1> QED
    BY <1>1, <1>4, <1>5, <1>6, Zenon DEF Steady

LEMMA BeaconJustified ==
  ASSUME stream \in Seq(Events), NEW a, a.index \in 1..Len(stream),
         BeaconClaim(UpTo(a.index), a)
  PROVE  Steady(LastOf(Gaps(Advancing(a), a.index), MinEvents + Slack))
  <1>1. PICK n, s : n = a.index /\ s = UpTo(n)
    OBVIOUS
  <1>2. n \in 1..Len(stream) /\ n \in Nat /\ Len(s) = n /\ \A i \in 1..n : s[i] = stream[i]
    BY <1>1, PrefixFacts
  <1>3. PICK A : A = Advancing(a)
    OBVIOUS
  <1>4. A = Advances(s, PairOf(a), n)
    <2>1. A = Advances(stream, PairOf(a), n)
      BY <1>1, <1>3, AdvancingIs
    <2>2. Contacts(stream, PairOf(a), n) = Contacts(s, PairOf(a), n)
      BY <1>2 DEF Contacts
    <2>3. Contacts(s, PairOf(a), n) \subseteq 1..n
      BY DEF Contacts
    <2> QED
      BY <1>2, <2>1, <2>2, <2>3 DEF Advances
  <1>5. A \in SUBSET (1..n)
    BY <1>4, AdvancesWithin
  <1> DEFINE q == [i \in 1..n |-> stream[i].epoch - stream[Max(Before(A, i))].epoch]
             F == {i \in A : Before(A, i) # {}}
  <1>6. Gaps(A, n) = Listed(q, F, n)
    BY DEF Gaps, Before
  <1>7. SamePoints(n, GapAt(s, A), Followers(A), q, F)
    <2> SUFFICES ASSUME NEW k \in 1..n
                 PROVE  /\ k \in Followers(A) <=> k \in F
                        /\ k \in Followers(A) => GapAt(s, A)[k] = q[k]
      BY DEF SamePoints
    <2>1. Followers(A) = F
      BY DEF Followers
    <2>2. ASSUME k \in Followers(A)
          PROVE  GapAt(s, A)[k] = q[k]
      <3>1. Before(A, k) \in SUBSET (1..n) /\ Before(A, k) # {}
        BY <1>5, <2>2 DEF Followers, Before
      <3>2. Top(Before(A, k), Max(Before(A, k)))
        BY <1>2, <3>1, MaxIsTop
      <3>3. PICK x \in 1..n : x = Max(Before(A, k))
        BY <3>1, <3>2 DEF Top
      <3>4. GapAt(s, A)[k] = s[k].epoch - s[x].epoch
        BY <1>2, <3>3 DEF GapAt
      <3>5. q[k] = stream[k].epoch - stream[x].epoch
        BY <3>3
      <3> QED
        BY <1>2, <3>4, <3>5
    <2> QED
      BY <2>1, <2>2
  <1> HIDE DEF q, F
  <1>8. Listed(q, F, n) = Listed(GapAt(s, A), Followers(A), n)
    BY <1>2, <1>7, ListedNext
  <1>9. Gaps(A, n) = GapsIn(s, A)
    BY <1>2, <1>6, <1>8 DEF GapsIn
  <1>10. Periodic(LastOf(GapsIn(s, A), MinEvents + Slack))
    BY <1>1, <1>2, <1>4 DEF BeaconClaim
  <1>11. \A k \in 1..n : k \in Followers(A) => GapAt(s, A)[k] \in Int
    <2> SUFFICES ASSUME NEW k \in 1..n, k \in Followers(A)
                 PROVE  GapAt(s, A)[k] \in Int
      OBVIOUS
    <2>1. Before(A, k) \in SUBSET (1..n) /\ Before(A, k) # {}
      BY <1>5 DEF Followers, Before
    <2>2. Top(Before(A, k), Max(Before(A, k)))
      BY <1>2, <2>1, MaxIsTop
    <2>3. PICK x \in 1..n : x = Max(Before(A, k))
      BY <2>1, <2>2 DEF Top
    <2>4. GapAt(s, A)[k] = s[k].epoch - s[x].epoch
      BY <1>2, <2>3 DEF GapAt
    <2>5. stream[k].epoch \in Int /\ stream[x].epoch \in Int
      BY <1>2 DEF Events
    <2> QED
      BY <1>2, <2>4, <2>5
  <1>12. GapsIn(s, A) \in Seq(Int)
    BY <1>2, <1>11, ListedType DEF GapsIn
  <1>13. MinEvents + Slack \in Nat
    BY DetectorAssumption
  <1>14. LastOf(GapsIn(s, A), MinEvents + Slack) \in Seq(Int)
    BY <1>12, <1>13, LastOfBound
  <1> QED
    BY <1>1, <1>3, <1>9, <1>10, <1>14, PeriodicIsSteady

LEMMA TunnelJustified ==
  ASSUME stream \in Seq(Events), NEW a, a.index \in 1..Len(stream),
         TunnelClaim(UpTo(a.index), a, a.facts)
  PROVE  LET S == Latest(OfSrc(a), a.facts) IN
         /\ Cardinality({i \in S : stream[i].x.encoded}) * Whole
                >= TunnelShare * Cardinality(S)
         /\ \A i \in S, j \in S :
                i < j /\ (\A k \in S : k <= i \/ k >= j) =>
                    stream[j].epoch - stream[i].epoch <= TunnelAge
  <1>1. PICK n, s, S : n = a.index /\ s = UpTo(n) /\ S = Latest(From(s, a.src), a.facts)
    OBVIOUS
  <1>2. Len(s) = n /\ \A i \in 1..n : s[i] = stream[i]
    BY <1>1, PrefixFacts
  <1>3. OfSrc(a) = From(s, a.src)
    BY <1>1, <1>2 DEF OfSrc, From
  <1>4. \A i \in S : s[i] = stream[i]
    BY <1>1, <1>2 DEF Latest, From
  <1>5. {i \in S : stream[i].x.encoded} = Encoded(s, S)
    BY <1>4 DEF Encoded
  <1>6. /\ Cardinality(Encoded(s, S)) * Whole >= TunnelShare * Cardinality(S)
        /\ NoSilence(s, S)
    BY <1>1 DEF TunnelClaim
  <1>7. \A i \in S, j \in S :
            i < j /\ (\A k \in S : k <= i \/ k >= j) =>
                stream[j].epoch - stream[i].epoch <= TunnelAge
    BY <1>4, <1>6 DEF NoSilence
  <1> QED
    BY <1>1, <1>3, <1>5, <1>6, <1>7

LEMMA PrefixOrdered ==
  ASSUME stream \in Seq(Events), InOrder, NEW k \in 1..Len(stream)
  PROVE  Ordered(UpTo(k))
  <1>1. PICK s : s = UpTo(k)
    OBVIOUS
  <1>2. Len(s) = k /\ \A i \in 1..k : s[i] = stream[i]
    BY <1>1, PrefixFacts
  <1>3. \A i \in 1..(k - 1) : i \in 1..k /\ i + 1 \in 1..k /\ i \in 1..(Len(stream) - 1)
    OBVIOUS
  <1> QED
    BY <1>1, <1>2, <1>3 DEF InOrder, Ordered

LEMMA VolumeJustified ==
  ASSUME stream \in Seq(Events), NEW a, a.index \in 1..Len(stream), InOrder,
         VolumeClaim(UpTo(a.index), a, a.facts)
  PROVE  a.facts <= Sent(Within(OfPair(a), a, VolumeWindow), a.index)
  <1>1. PICK n, s, since : n = a.index /\ s = UpTo(n) /\ since = a.epoch - VolumeWindow
    OBVIOUS
  <1>2. Len(s) = n /\ \A i \in 1..n : s[i] = stream[i]
    BY <1>1, PrefixFacts
  <1>3. PICK S : S = Within(OfPair(a), a, VolumeWindow)
    OBVIOUS
  <1>4. S = Flows(s, PairOf(a), since)
    BY <1>1, <1>2, <1>3 DEF Within, OfPair, OfSrc, OfDst, Flows, PairOf
  <1>5. OutOfFlows(s, S) = [i \in 1..n |-> IF i \in S THEN stream[i].x.out ELSE 0]
    BY <1>2 DEF OutOfFlows
  <1>6. Sent(S, n) = SentSince(s, PairOf(a), since)
    BY <1>2, <1>4, <1>5 DEF Sent, SentSince
  <1>7. Ordered(s)
    BY <1>1, PrefixOrdered
  <1>8. a.facts <= SentSince(s, PairOf(a), since)
    BY <1>1, <1>7 DEF VolumeClaim
  <1> QED
    BY <1>1, <1>3, <1>6, <1>8

LEMMA SyncJustified ==
  ASSUME stream \in Seq(Events), NEW a, a.index \in 1..Len(stream), InOrder,
         SyncClaim(UpTo(a.index), a)
  PROVE  MinHosts <= Cardinality({stream[i].src : i \in Within(OfDst(a), a, SyncWindow)})
  <1>1. PICK n, s, since : n = a.index /\ s = UpTo(n) /\ since = a.epoch - SyncWindow
    OBVIOUS
  <1>2. Len(s) = n /\ \A i \in 1..n : s[i] = stream[i]
    BY <1>1, PrefixFacts
  <1>3. PICK S : S = {j \in Towards(s, a.dst) : s[j].epoch >= since}
    OBVIOUS
  <1>4. Within(OfDst(a), a, SyncWindow) = S
    BY <1>1, <1>2, <1>3 DEF Within, OfDst, Towards
  <1>5. \A i \in S : s[i] = stream[i]
    BY <1>2, <1>3 DEF Towards
  <1>6. {stream[i].src : i \in S} = HostsSince(s, a.dst, since)
    BY <1>3, <1>5 DEF HostsSince
  <1>7. Ordered(s)
    BY <1>1, PrefixOrdered
  <1>8. MinHosts <= Cardinality(HostsSince(s, a.dst, since))
    BY <1>1, <1>7 DEF SyncClaim
  <1> QED
    BY <1>4, <1>6, <1>8

LEMMA FluxJustified ==
  ASSUME stream \in Seq(Events), NEW a, a.index \in 1..Len(stream),
         FluxClaim(UpTo(a.index), a)
  PROVE  MaxAnswers <= Cardinality(Payloads(OfDst(a)))
  <1>1. PICK n, s : n = a.index /\ s = UpTo(n)
    OBVIOUS
  <1>2. Len(s) = n /\ \A i \in 1..n : s[i] = stream[i]
    BY <1>1, PrefixFacts
  <1>3. OfDst(a) = Towards(s, a.dst) /\ Towards(s, a.dst) \subseteq 1..n
    BY <1>1, <1>2 DEF OfDst, Towards
  <1>4. Payloads(OfDst(a)) = AnswersOf(s, a.dst)
    BY <1>2, <1>3 DEF Payloads, AnswersOf
  <1> QED
    BY <1>1, <1>4 DEF FluxClaim

LEMMA JustStutter ==
  ASSUME JustInv, UNCHANGED vars
  PROVE  JustInv'
  BY DEF vars, JustInv, Filed, UpTo

(* An alert is about what was observed.  Its claim, recomputed from the       *)
(* stream up to it and never from the tables, holds: a beacon's contacts are  *)
(* steady, a tunnel's queries are consecutive and without silence, a volume *)
(* was sent within the window, hosts and answers were seen; whatever was shed,*)
(* rolled over, aged, truncated or rejected before.                           *)
THEOREM AlertsAreAlwaysJustified == Spec => []AlertsAreJustified
  <1>1. Init => JustInv
    BY JustInitially
  <1>2. IInv /\ FreshInv /\ JustInv /\ [Next]_vars => JustInv'
    BY JustStep, JustStutter DEF Next
  <1>3. IInv /\ JustInv => AlertsAreJustified
    <2> SUFFICES ASSUME IInv, JustInv, alerts # <<>>, family \in Claimants
                 PROVE  Justified(Last(alerts))
      BY DEF AlertsAreJustified, Justified, Claimants
    <2>1. alerts \in Seq(Reports) /\ stream \in Seq(Events)
      BY DEF IInv, Typed, JustInv, Filed
    <2>2. PICK a, k : k = Len(alerts) /\ a = Last(alerts) /\ k \in DOMAIN alerts /\ a = alerts[k]
      BY <2>1 DEF Last
    <2>3. a.index \in 1..Len(stream) /\ Claim(family, UpTo(a.index), a, a.facts)
      BY <2>2 DEF JustInv, Filed
    <2>4. family = "beacon" =>
              Steady(LastOf(Gaps(Advancing(a), a.index), MinEvents + Slack))
      BY <2>1, <2>3, BeaconJustified DEF Claim
    <2>5. family = "tunnel" =>
              LET S == Latest(OfSrc(a), a.facts) IN
              /\ Cardinality({i \in S : stream[i].x.encoded}) * Whole
                     >= TunnelShare * Cardinality(S)
              /\ \A i \in S, j \in S :
                     i < j /\ (\A l \in S : l <= i \/ l >= j) =>
                         stream[j].epoch - stream[i].epoch <= TunnelAge
      BY <2>1, <2>3, TunnelJustified DEF Claim
    <2>6. family = "volume" =>
              (InOrder => a.facts <= Sent(Within(OfPair(a), a, VolumeWindow), a.index))
      BY <2>1, <2>3, VolumeJustified DEF Claim
    <2>7. family = "sync" =>
              (InOrder => MinHosts <= Cardinality(
                   {stream[i].src : i \in Within(OfDst(a), a, SyncWindow)}))
      BY <2>1, <2>3, SyncJustified DEF Claim
    <2>8. family = "fastflux" => MaxAnswers <= Cardinality(Payloads(OfDst(a)))
      BY <2>1, <2>3, FluxJustified DEF Claim
    <2>9. Justified(a)
      BY <2>4, <2>5, <2>6, <2>7, <2>8, Zenon DEF Justified
    <2> QED
      BY <2>2, <2>9
  <1> QED
    BY InvariantHolds, FreshHolds, <1>1, <1>2, <1>3, PTL DEF Spec
===============================================================================
