------------------------ MODULE BehavioralFeedProofs ------------------------
(* Theorems about BehavioralFeed, for any finite set of values, any          *)
(* indicators, any bounds of the feed and any number of lines, resets and    *)
(* mishaps.                                                                  *)
EXTENDS BehavioralFeed, FiniteSetTheorems, SequenceTheorems, TLAPS

-----------------------------------------------------------------------------
(* The inductive invariant.                                                  *)

Lines == [id : Nat, kind : {"event", "malformed", "poison", "answer"}, dst : Values]
Files == [ino : {1, 2}, gen : Nat, lines : Seq(Lines), torn : BOOLEAN]
Marks == [ino : {0, 1, 2}, offset : Nat, gen : Int]
Passes == [fd : Nat, pos : Nat, left : Nat]
Detections == [id : Nat, dst : Values]
Parkings == [id : Nat, age : Nat]

Typed ==
    /\ logs \in Seq(Files) /\ logs # <<>>
    /\ tail \in [mark : Marks, pass : Passes] /\ checkpoint \in Marks
    /\ retained \in Seq(Detections) /\ Len(retained) <= MaxRetained
    /\ pending \in [Values -> Seq(Parkings)]
    /\ \A v \in Values : Len(pending[v]) <= PerTarget
    /\ known \in SUBSET Indicators /\ evidence \in SUBSET (Indicators \X Nat)
    /\ skipped \in BOOLEAN /\ written \in Nat
    /\ resets \in 0..MaxResets /\ mishaps \in 0..MaxMishaps

(* Lines are numbered as they are written, and files as they begin.          *)
Numbered ==
    /\ \A f \in DOMAIN logs :
           /\ logs[f].gen <= resets
           /\ Len(logs[f].lines) <= written
           /\ \A k \in DOMAIN logs[f].lines : logs[f].lines[k].id \in 1..written
    /\ \A f, g \in DOMAIN logs : logs[f].gen = logs[g].gen => f = g
    /\ \A f, g \in DOMAIN logs : \A j \in DOMAIN logs[f].lines, k \in DOMAIN logs[g].lines :
           logs[f].lines[j].id = logs[g].lines[k].id =>
               logs[f].lines[j].kind = logs[g].lines[k].kind

(* A sweep works with one map; the row of the record it decides has landed.  *)
Attached == {row[2] : row \in evidence}
SweepSound(s, landed) ==
    /\ s = [pc |-> s.pc, map |-> s.map, dets |-> s.dets, records |-> s.records]
    /\ s.dets \in Seq(Detections) /\ s.records \in Seq(Detections)
    /\ s.pc \in {"idle", "drain", "persist", "decide"}
    /\ s.pc = "idle" => s = NoSweep
    /\ s.pc # "idle" =>
           /\ DOMAIN s.map \subseteq Values
           /\ \A v \in DOMAIN s.map : s.map[v] \in Indicators
    /\ s.pc = "drain" => s.records = <<>>
    /\ s.pc \in {"persist", "decide"} =>
           /\ s.dets = <<>> /\ s.records # <<>>
           /\ \A e \in ToSet(s.records) : e.dst \in DOMAIN s.map
    /\ s.pc = "decide" => Head(s.records).id \in landed
Swept == SweepSound(sweep, Attached)

(* Whatever is known of a detection, it came from a line that was folded.    *)
Everywhere == InMemory \cup counted \cup lost \cup Attached
Founded == folded \subseteq 1..written /\ Everywhere \subseteq folded

(* Of the file a mark was made in, the first n lines were folded.  No file is *)
(* the one of a mark whose stat and open saw different inodes.               *)
Read(mark, n) ==
    \A f \in DOMAIN logs : logs[f].gen = mark.gen =>
        /\ n <= Len(logs[f].lines)
        /\ \A k \in 1..n : logs[f].lines[k].id \in folded
Tailed ==
    /\ checkpoint.gen <= resets /\ checkpoint.offset <= written
    /\ tail.mark.gen <= resets /\ tail.mark.offset <= written
    /\ ~skipped => /\ Read(checkpoint, checkpoint.offset)
                   /\ Read(tail.mark, tail.mark.offset)
                   /\ tail.pass # NoPass => Read(tail.mark, tail.pass.pos)
    /\ tail.pass # NoPass => /\ tail.pass.pos <= written
                             /\ InPass \/ tail.pass.pos = tail.mark.offset
    /\ InPass => /\ tail.pass.fd \in DOMAIN logs
                 /\ \A f \in DOMAIN logs : logs[f].gen = tail.mark.gen => f = tail.pass.fd
-----------------------------------------------------------------------------
(* Induction over the naturals, by a least counterexample: a set of naturals *)
(* that has 0 and each one's successor has them all.                         *)
LEMMA LeastNumber ==
  ASSUME NEW T \in SUBSET Nat, T # {}
  PROVE  \E n \in T : \A m \in T : n <= m
  <1> DEFINE R == OpToRel(<, Nat)
  <1>1. IsWellFoundedOn(R, Nat)
    BY NatLessThanWellFounded
  <1>2. \A x, y \in Nat : <<x, y>> \in R <=> x < y
    BY DEF OpToRel
  <1> HIDE DEF R
  <1>3. PICK n \in T : \A m \in T : ~ (<<m, n>> \in R)
    BY <1>1, WFMin
  <1>4. ASSUME NEW m \in T
        PROVE  n <= m
    <2>1. m \in Nat /\ n \in Nat /\ <<m, n>> \notin R
      BY <1>3
    <2>2. ~(m < n)
      BY <1>2, <2>1
    <2> QED
      BY <2>1, <2>2
  <1> QED
    BY <1>4

LEMMA NaturalSet ==
  ASSUME NEW S \in SUBSET Nat, 0 \in S, \A n \in S : n + 1 \in S
  PROVE  S = Nat
  <1> SUFFICES ASSUME Nat \ S # {}
               PROVE  FALSE
    OBVIOUS
  <1>1. PICK n \in Nat \ S : \A m \in Nat \ S : n <= m
    BY LeastNumber
  <1>2. n # 0 /\ n - 1 \in Nat
    BY <1>1
  <1>3. n - 1 \in S
    BY <1>1, <1>2
  <1> QED
    BY <1>1, <1>2, <1>3

(* What a sequence holds after an append, a concatenation, a cut.            *)
LEMMA AppendHolds ==
  ASSUME NEW S, NEW q \in Seq(S), NEW e \in S
  PROVE  /\ Append(q, e) \in Seq(S) /\ Len(Append(q, e)) = Len(q) + 1
         /\ ToSet(Append(q, e)) = ToSet(q) \cup {e}
  <1>1. /\ Len(q) \in Nat /\ Len(Append(q, e)) = Len(q) + 1 /\ Append(q, e) \in Seq(S)
        /\ Append(q, e)[Len(q) + 1] = e
        /\ \A i \in 1..Len(q) : Append(q, e)[i] = q[i]
    BY AppendProperties
  <1>2. \A i : i \in 1..(Len(q) + 1) <=> i \in 1..Len(q) \/ i = Len(q) + 1
    BY <1>1
  <1>3. DOMAIN q = 1..Len(q) /\ DOMAIN Append(q, e) = 1..(Len(q) + 1)
    BY <1>1
  <1> QED
    BY <1>1, <1>2, <1>3 DEF ToSet

LEMMA ConcatHolds ==
  ASSUME NEW S, NEW s \in Seq(S), NEW t \in Seq(S)
  PROVE  /\ s \o t \in Seq(S) /\ Len(s \o t) = Len(s) + Len(t)
         /\ ToSet(s \o t) = ToSet(s) \cup ToSet(t)
  <1>1. /\ s \o t \in Seq(S) /\ Len(s \o t) = Len(s) + Len(t)
        /\ \A i \in 1..(Len(s) + Len(t)) : (s \o t)[i] =
                     IF i <= Len(s) THEN s[i] ELSE t[i - Len(s)]
    BY ConcatProperties
  <1>2. /\ Len(s) \in Nat /\ Len(t) \in Nat /\ DOMAIN s = 1..Len(s) /\ DOMAIN t = 1..Len(t)
        /\ DOMAIN (s \o t) = 1..(Len(s) + Len(t))
    BY <1>1
  <1>3. ASSUME NEW i \in 1..Len(s)
        PROVE  i \in 1..(Len(s) + Len(t)) /\ (s \o t)[i] = s[i]
    BY <1>1, <1>2
  <1>4. ASSUME NEW i \in 1..Len(t)
        PROVE  Len(s) + i \in 1..(Len(s) + Len(t)) /\ (s \o t)[Len(s) + i] = t[i]
    <2>1. /\ Len(s) + i \in 1..(Len(s) + Len(t)) /\ ~(Len(s) + i <= Len(s))
          /\ (Len(s) + i) - Len(s) = i
      BY <1>2
    <2> QED
      BY <1>1, <2>1
  <1>5. ASSUME NEW i \in 1..(Len(s) + Len(t))
        PROVE  (s \o t)[i] \in ToSet(s) \cup ToSet(t)
    <2>1. CASE i <= Len(s)
      <3>1. i \in 1..Len(s) /\ (s \o t)[i] = s[i]
        BY <1>1, <1>2, <2>1
      <3> QED
        BY <1>2, <3>1 DEF ToSet
    <2>2. CASE ~(i <= Len(s))
      <3>1. i - Len(s) \in 1..Len(t) /\ (s \o t)[i] = t[i - Len(s)]
        BY <1>1, <1>2, <2>2
      <3> QED
        BY <1>2, <3>1 DEF ToSet
    <2> QED
      BY <2>1, <2>2
  <1>6. ToSet(s) \subseteq ToSet(s \o t)
    BY <1>2, <1>3 DEF ToSet
  <1>7. ToSet(t) \subseteq ToSet(s \o t)
    BY <1>2, <1>4 DEF ToSet
  <1>8. ToSet(s \o t) \subseteq ToSet(s) \cup ToSet(t)
    <2>1. ToSet(s \o t) = {(s \o t)[i] : i \in 1..(Len(s) + Len(t))}
      BY <1>2 DEF ToSet
    <2> QED
      BY <1>5, <2>1
  <1> QED
    BY <1>1, <1>6, <1>7, <1>8

LEMMA CutHolds ==
  ASSUME NEW S, NEW q \in Seq(S), NEW n \in 0..Len(q)
  PROVE  /\ SubSeq(q, 1, n) \in Seq(S) /\ SubSeq(q, n + 1, Len(q)) \in Seq(S)
         /\ Len(SubSeq(q, n + 1, Len(q))) = Len(q) - n
         /\ ToSet(q) = ToSet(SubSeq(q, 1, n)) \cup ToSet(SubSeq(q, n + 1, Len(q)))
  <1> DEFINE front == SubSeq(q, 1, n)
             back == SubSeq(q, n + 1, Len(q))
  <1>0. Len(q) \in Nat /\ n \in Nat /\ n <= Len(q) /\ DOMAIN q = 1..Len(q)
        /\ \A i \in 1..Len(q) : q[i] \in S
    OBVIOUS
  <1>1. front \in Seq(S) /\ Len(front) = n /\ \A i \in 1..n : front[i] = q[i]
    <2>1. \A i \in 1..n : q[i] \in S
      BY <1>0
    <2>2. /\ front \in Seq(S)
          /\ Len(front) = IF 1 <= n THEN n - 1 + 1 ELSE 0
          /\ \A i \in 1..(n - 1 + 1) : front[i] = q[1 + i - 1]
      BY <1>0, <2>1, SubSeqProperties
    <2> HIDE DEF front
    <2> QED
      BY <1>0, <2>2
  <1>2. back \in Seq(S) /\ Len(back) = Len(q) - n
        /\ \A i \in 1..(Len(q) - n) : back[i] = q[n + i]
    <2>1. \A i \in (n + 1)..Len(q) : q[i] \in S
      BY <1>0
    <2>2. n + 1 \in Int /\ Len(q) \in Int
      BY <1>0
    <2>3. /\ back \in Seq(S)
          /\ Len(back) = IF n + 1 <= Len(q) THEN Len(q) - (n + 1) + 1 ELSE 0
          /\ \A i \in 1..(Len(q) - (n + 1) + 1) : back[i] = q[(n + 1) + i - 1]
      BY <2>1, <2>2, SubSeqProperties
    <2> HIDE DEF back
    <2>4. Len(q) - (n + 1) + 1 = Len(q) - n /\ \A i \in Int : (n + 1) + i - 1 = n + i
      BY <1>0
    <2>5. Len(back) = Len(q) - n
      <3>0. \A a, b \in Nat : a <= b /\ ~(a + 1 <= b) => b - a = 0
        OBVIOUS
      <3>1. ~(n + 1 <= Len(q)) => Len(q) - n = 0
        BY <1>0, <3>0
      <3> QED
        BY <2>3, <2>4, <3>1, Zenon
    <2>6. \A i \in 1..(Len(q) - n) : back[i] = q[(n + 1) + i - 1]
      BY <2>3, <2>4, Zenon
    <2>7. ASSUME NEW i \in 1..(Len(q) - n)
          PROVE  back[i] = q[n + i]
      <3>1. (n + 1) + i - 1 = n + i
        BY <1>0
      <3> QED
        BY <2>6, <3>1, Zenon
    <2> QED
      BY <2>3, <2>5, <2>7
  <1> HIDE DEF front, back
  <1>3. DOMAIN front = 1..n /\ DOMAIN back = 1..(Len(q) - n)
    BY <1>0, <1>1, <1>2
  <1>4. ASSUME NEW i \in 1..Len(q)
        PROVE  q[i] \in ToSet(front) \cup ToSet(back)
    <2>1. CASE i <= n
      BY <1>0, <1>1, <1>3, <2>1 DEF ToSet
    <2>2. CASE ~(i <= n)
      <3>1. i - n \in 1..(Len(q) - n) /\ n + (i - n) = i
        BY <1>0, <2>2
      <3> QED
        BY <1>2, <1>3, <3>1 DEF ToSet
    <2> QED
      BY <2>1, <2>2
  <1>5. ToSet(front) \subseteq ToSet(q)
    BY <1>0, <1>1, <1>3 DEF ToSet
  <1>6. ToSet(back) \subseteq ToSet(q)
    <2>1. \A i \in 1..(Len(q) - n) : n + i \in 1..Len(q)
      BY <1>0
    <2> QED
      BY <1>0, <1>2, <1>3, <2>1 DEF ToSet
  <1>7. ToSet(q) \subseteq ToSet(front) \cup ToSet(back)
    BY <1>0, <1>4 DEF ToSet
  <1>8. ToSet(q) = ToSet(front) \cup ToSet(back)
    BY <1>5, <1>6, <1>7
  <1> QED
    BY <1>1, <1>2, <1>8 DEF front, back

LEMMA EmptyHolds == ToSet(<<>>) = {} /\ Ids(<<>>) = {}
  BY DEF ToSet, Ids

LEMMA HeadHolds ==
  ASSUME NEW S, NEW q \in Seq(S), q # <<>>
  PROVE  /\ Head(q) \in S /\ Tail(q) \in Seq(S) /\ Len(Tail(q)) = Len(q) - 1
         /\ ToSet(q) = ToSet(Tail(q)) \cup {Head(q)}
         /\ Len(q) = 1 => ToSet(q) = {Head(q)}
  <1>0. Len(q) \in Nat \ {0} /\ DOMAIN q = 1..Len(q) /\ Head(q) = q[1]
    OBVIOUS
  <1>1. /\ Head(q) \in S /\ Tail(q) \in Seq(S) /\ Len(Tail(q)) = Len(q) - 1
        /\ \A i \in 1..Len(Tail(q)) : Tail(q)[i] = q[i + 1]
    BY HeadTailProperties
  <1>2. DOMAIN Tail(q) = 1..(Len(q) - 1)
    BY <1>1
  <1>3. ASSUME NEW i \in 1..Len(q), i # 1
        PROVE  i - 1 \in 1..(Len(q) - 1) /\ Tail(q)[i - 1] = q[i]
    BY <1>0, <1>1, <1>3
  <1>4. \A i \in 1..(Len(q) - 1) : i + 1 \in 1..Len(q) /\ Tail(q)[i] = q[i + 1]
    BY <1>0, <1>1
  <1>5. 1 \in 1..Len(q)
    BY <1>0
  <1>6. ToSet(q) = ToSet(Tail(q)) \cup {Head(q)}
    <2>1. ToSet(Tail(q)) \subseteq ToSet(q)
      BY <1>0, <1>2, <1>4 DEF ToSet
    <2>2. Head(q) \in ToSet(q)
      BY <1>0, <1>5 DEF ToSet
    <2>3. ASSUME NEW i \in 1..Len(q)
          PROVE  q[i] \in ToSet(Tail(q)) \cup {Head(q)}
      BY <1>0, <1>2, <1>3 DEF ToSet
    <2>4. ToSet(q) \subseteq ToSet(Tail(q)) \cup {Head(q)}
      BY <1>0, <2>3 DEF ToSet
    <2> QED
      BY <2>1, <2>2, <2>4
  <1>7. ASSUME Len(q) = 1
        PROVE  ToSet(q) = {Head(q)}
    <2>1. ToSet(Tail(q)) = {}
      BY <1>2, <1>7 DEF ToSet
    <2> QED
      BY <1>6, <2>1
  <1> QED
    BY <1>1, <1>6, <1>7

LEMMA IdsOf ==
  ASSUME NEW q
  PROVE  Ids(q) = {e.id : e \in ToSet(q)}
  BY DEF Ids, ToSet

-----------------------------------------------------------------------------
(* What Kept computes: its recursion has a solution, and keeps the entries at *)
(* the places asked for.                                                     *)
Keeps(f, n, q, at) ==
    f = [k \in 0..n |->
            IF k = 0 THEN <<>>
            ELSE IF k \in at THEN Append(f[k - 1], q[k]) ELSE f[k - 1]]

LEMMA KeepsExists ==
  ASSUME NEW q, NEW at
  PROVE  \A n \in Nat : \E f : Keeps(f, n, q, at)
  <1> DEFINE S == {n \in Nat : \E f : Keeps(f, n, q, at)}
  <1>1. 0 \in S
    <2>1. Keeps([k \in 0..0 |-> <<>>], 0, q, at)
      BY DEF Keeps
    <2> QED
      BY <2>1
  <1>2. ASSUME NEW n \in S
        PROVE  n + 1 \in S
    <2>1. PICK f : Keeps(f, n, q, at)
      OBVIOUS
    <2> DEFINE g == [k \in 0..(n + 1) |->
                       IF k = 0 THEN <<>>
                       ELSE IF k \in at THEN Append(f[k - 1], q[k]) ELSE f[k - 1]]
    <2>2. \A k \in 0..n : f[k] = g[k]
      <3>1. /\ DOMAIN f = 0..n
            /\ \A k \in 0..n : f[k] = IF k = 0 THEN <<>>
                       ELSE IF k \in at THEN Append(f[k - 1], q[k]) ELSE f[k - 1]
        BY <2>1, Zenon DEF Keeps
      <3>2. \A k \in 0..n : k \in 0..(n + 1)
        OBVIOUS
      <3> QED
        BY <3>1, <3>2, Zenon
    <2>3. \A k \in 0..(n + 1) : k # 0 => k - 1 \in 0..n
      OBVIOUS
    <2>4. \A k \in 0..(n + 1) : k # 0 => g[k - 1] = f[k - 1]
      BY <2>2, <2>3
    <2>5. g = [k \in 0..(n + 1) |->
                       IF k = 0 THEN <<>>
                       ELSE IF k \in at THEN Append(g[k - 1], q[k]) ELSE g[k - 1]]
      BY <2>4
    <2> HIDE DEF g
    <2>6. Keeps(g, n + 1, q, at)
      BY <2>5 DEF Keeps
    <2> QED
      BY <2>6
  <1> QED
    BY <1>1, <1>2, NaturalSet

LEMMA KeptHolds ==
  ASSUME NEW S, NEW q \in Seq(S), NEW at
  PROVE  /\ Kept(q, at) \in Seq(S) /\ Len(Kept(q, at)) <= Len(q)
         /\ ToSet(Kept(q, at)) = {q[k] : k \in DOMAIN q \cap at}
  <1> DEFINE n == Len(q)
  <1>0. n \in Nat /\ DOMAIN q = 1..n
    OBVIOUS
  <1>1. PICK f : Keeps(f, n, q, at) /\ Kept(q, at) = f[n]
    <2>1. \E f : Keeps(f, n, q, at)
      BY <1>0, KeepsExists
    <2>k. PICK k : k = CHOOSE f : Keeps(f, n, q, at)
      OBVIOUS
    <2>2. Keeps(k, n, q, at)
      BY <2>1, <2>k
    <2>3. Kept(q, at) = k[n]
      BY <2>k DEF Kept, Keeps
    <2> QED
      BY <2>2, <2>3
  <1> DEFINE Solved(m) == /\ f[m] \in Seq(S) /\ Len(f[m]) <= m
                          /\ ToSet(f[m]) = {q[k] : k \in 1..m \cap at}
             T == {m \in Nat : m <= n => Solved(m)}
  <1>2. \A k \in 0..n : f[k] = IF k = 0 THEN <<>>
                       ELSE IF k \in at THEN Append(f[k - 1], q[k]) ELSE f[k - 1]
    BY <1>1, Zenon DEF Keeps
  <1>3. 0 \in T
    <2>1. f[0] = <<>>
      BY <1>0, <1>2
    <2>2. f[0] \in Seq(S) /\ Len(f[0]) <= 0 /\ ToSet(f[0]) = {} /\ 1..0 = {}
      BY <2>1, EmptyHolds
    <2>3. {q[k] : k \in 1..0 \cap at} = {}
      BY <2>2
    <2>4. Solved(0)
      BY <2>2, <2>3
    <2> QED
      BY <2>4
  <1>4. ASSUME NEW m \in T
        PROVE  m + 1 \in T
    <2> SUFFICES ASSUME m + 1 <= n
                 PROVE  Solved(m + 1)
      OBVIOUS
    <2>1. m \in Nat /\ m <= n /\ m + 1 \in 0..n /\ m + 1 \in 1..n /\ m + 1 # 0 /\ (m + 1) - 1 = m
      BY <1>0
    <2>2. Solved(m)
      BY <2>1
    <2>3. q[m + 1] \in S
      BY <1>0, <2>1
    <2>4. f[m + 1] = IF m + 1 \in at THEN Append(f[m], q[m + 1]) ELSE f[m]
      BY <1>2, <2>1
    <2>5. 1..(m + 1) = 1..m \cup {m + 1}
      BY <2>1
    <2>6. CASE m + 1 \in at
      <3>1. f[m + 1] = Append(f[m], q[m + 1])
        BY <2>4, <2>6
      <3>2. /\ f[m + 1] \in Seq(S) /\ Len(f[m + 1]) = Len(f[m]) + 1
            /\ ToSet(f[m + 1]) = ToSet(f[m]) \cup {q[m + 1]}
        BY <2>2, <2>3, <3>1, AppendHolds
      <3>3. {q[k] : k \in 1..(m + 1) \cap at} = {q[k] : k \in 1..m \cap at} \cup {q[m + 1]}
        BY <2>5, <2>6
      <3>4. Len(f[m]) \in Nat /\ Len(f[m]) <= m
        BY <2>2
      <3>5. Len(f[m + 1]) <= m + 1
        BY <2>1, <3>2, <3>4
      <3> QED
        BY <2>2, <3>2, <3>3, <3>5
    <2>7. CASE m + 1 \notin at
      <3>1. 1..(m + 1) \cap at = 1..m \cap at
        BY <2>5, <2>7
      <3>2. f[m + 1] = f[m] /\ Len(f[m]) \in Nat
        BY <2>2, <2>4, <2>7
      <3>3. Len(f[m + 1]) <= m + 1
        BY <2>1, <2>2, <3>2
      <3> QED
        BY <2>2, <3>1, <3>2, <3>3
    <2> QED
      BY <2>6, <2>7
  <1>5. n \in T
    <2> HIDE DEF T
    <2>1. T \in SUBSET Nat
      BY DEF T
    <2> QED
      BY <1>0, <1>3, <1>4, <2>1, NaturalSet
  <1>6. Solved(n)
    BY <1>0, <1>5
  <1> QED
    BY <1>0, <1>1, <1>6

(* What FlattenSeq computes: its recursion has a solution, and the result     *)
(* holds what the parts hold.                                                *)
Flattens(f, n, qs) ==
    f = [i \in 1..n |-> IF i = 1 THEN qs[i] ELSE f[i - 1] \o qs[i]]

LEMMA FlattensExists ==
  ASSUME NEW qs
  PROVE  \A n \in Nat : \E f : Flattens(f, n, qs)
  <1> DEFINE S == {n \in Nat : \E f : Flattens(f, n, qs)}
  <1>1. 0 \in S
    <2>1. 1..0 = {}
      OBVIOUS
    <2>2. Flattens([i \in 1..0 |-> <<>>], 0, qs)
      BY <2>1 DEF Flattens
    <2> QED
      BY <2>2
  <1>2. ASSUME NEW n \in S
        PROVE  n + 1 \in S
    <2>1. PICK f : Flattens(f, n, qs)
      OBVIOUS
    <2> DEFINE g == [i \in 1..(n + 1) |-> IF i = 1 THEN qs[i] ELSE f[i - 1] \o qs[i]]
    <2>2. \A i \in 1..n : f[i] = g[i]
      <3>1. /\ DOMAIN f = 1..n
            /\ \A i \in 1..n : f[i] = IF i = 1 THEN qs[i] ELSE f[i - 1] \o qs[i]
        BY <2>1, Zenon DEF Flattens
      <3>2. \A i \in 1..n : i \in 1..(n + 1)
        OBVIOUS
      <3> QED
        BY <3>1, <3>2, Zenon
    <2>3. \A i \in 1..(n + 1) : i # 1 => i - 1 \in 1..n
      OBVIOUS
    <2>4. \A i \in 1..(n + 1) : i # 1 => g[i - 1] = f[i - 1]
      BY <2>2, <2>3
    <2>5. g = [i \in 1..(n + 1) |-> IF i = 1 THEN qs[i] ELSE g[i - 1] \o qs[i]]
      BY <2>4
    <2> HIDE DEF g
    <2>6. Flattens(g, n + 1, qs)
      BY <2>5 DEF Flattens
    <2> QED
      BY <2>6
  <1> QED
    BY <1>1, <1>2, NaturalSet

LEMMA FlattenHolds ==
  ASSUME NEW S, NEW qs \in Seq(Seq(S))
  PROVE  /\ FlattenSeq(qs) \in Seq(S)
         /\ ToSet(FlattenSeq(qs)) = UNION {ToSet(qs[i]) : i \in DOMAIN qs}
  <1> DEFINE n == Len(qs)
  <1>0. n \in Nat /\ DOMAIN qs = 1..n /\ \A i \in 1..n : qs[i] \in Seq(S)
    OBVIOUS
  <1>1. CASE n = 0
    <2>1. qs = <<>> /\ DOMAIN qs = {} /\ FlattenSeq(qs) = <<>>
      BY <1>0, <1>1 DEF FlattenSeq
    <2>2. UNION {ToSet(qs[i]) : i \in {}} = {}
      OBVIOUS
    <2>3. FlattenSeq(qs) \in Seq(S) /\ ToSet(FlattenSeq(qs)) = {}
      <3>1. <<>> \in Seq(S)
        OBVIOUS
      <3> QED
        BY <2>1, <3>1, EmptyHolds, Zenon
    <2> QED
      BY <2>1, <2>2, <2>3
  <1>2. CASE n # 0
    <2>1. PICK f : Flattens(f, n, qs) /\ FlattenSeq(qs) = f[n]
      <3>1. \E f : Flattens(f, n, qs)
        BY <1>0, FlattensExists
      <3>k. PICK k : k = CHOOSE f : Flattens(f, n, qs)
        OBVIOUS
      <3>2. Flattens(k, n, qs)
        BY <3>1, <3>k
      <3>3. FlattenSeq(qs) = k[n]
        BY <1>2, <3>k DEF FlattenSeq, Flattens
      <3> QED
        BY <3>2, <3>3
    <2> DEFINE U(m) == UNION {ToSet(qs[i]) : i \in 1..m}
               Solved(m) == f[m] \in Seq(S) /\ ToSet(f[m]) = U(m)
               T == {m \in Nat : m + 1 <= n => Solved(m + 1)}
    <2>2. \A i \in 1..n : f[i] = IF i = 1 THEN qs[i] ELSE f[i - 1] \o qs[i]
      BY <2>1, Zenon DEF Flattens
    <2>3. 0 \in T
      <3>1. 0 + 1 = 1 /\ 1 \in 1..n /\ 1..1 = {1}
        BY <1>0, <1>2
      <3>2. f[1] = qs[1] /\ f[1] \in Seq(S)
        BY <1>0, <2>2, <3>1
      <3>3. UNION {ToSet(qs[i]) : i \in 1..1} = ToSet(qs[1])
        BY <3>1
      <3>4. Solved(1)
        BY <3>2, <3>3
      <3> QED
        BY <3>1, <3>4
    <2>4. ASSUME NEW m \in T
          PROVE  m + 1 \in T
      <3> SUFFICES ASSUME m + 1 + 1 <= n
                   PROVE  Solved(m + 1 + 1)
        OBVIOUS
      <3> DEFINE j == m + 1
      <3>1. /\ m \in Nat /\ j \in Nat /\ j <= n /\ j + 1 \in 1..n /\ j + 1 # 1 /\ (j + 1) - 1 = j
            /\ 1..(j + 1) = 1..j \cup {j + 1}
        BY <1>0
      <3>2. Solved(j)
        BY <3>1
      <3> HIDE DEF j
      <3>3. f[j + 1] = f[j] \o qs[j + 1] /\ qs[j + 1] \in Seq(S)
        BY <1>0, <2>2, <3>1
      <3>4. f[j + 1] \in Seq(S) /\ ToSet(f[j + 1]) = ToSet(f[j]) \cup ToSet(qs[j + 1])
        <4>1. PICK a \in Seq(S) : a = f[j]
          BY <3>2
        <4>2. PICK b \in Seq(S) : b = qs[j + 1]
          BY <3>3
        <4>3. a \o b \in Seq(S) /\ ToSet(a \o b) = ToSet(a) \cup ToSet(b)
          BY ConcatHolds
        <4> QED
          BY <3>3, <4>1, <4>2, <4>3, Zenon
      <3>5. U(j + 1) = U(j) \cup ToSet(qs[j + 1])
        <4>1. \A i : i \in 1..(j + 1) <=> i \in 1..j \/ i = j + 1
          BY <3>1, Zenon
        <4>2. ASSUME NEW x
              PROVE  x \in U(j + 1) <=> x \in U(j) \cup ToSet(qs[j + 1])
          BY <4>1, Zenon
        <4> HIDE DEF U
        <4> QED
          BY <4>2, Zenon
      <3> HIDE DEF U
      <3>6. Solved(j + 1)
        BY <3>2, <3>4, <3>5, Zenon
      <3> QED
        BY <3>6 DEF j
    <2>5. Nat = T
      <3> HIDE DEF T
      <3>1. T \in SUBSET Nat
        BY DEF T
      <3> QED
        BY <2>3, <2>4, <3>1, NaturalSet
    <2>6. n - 1 \in Nat /\ (n - 1) + 1 = n
      BY <1>0, <1>2
    <2>7. Solved(n)
      <3>1. n - 1 \in T
        BY <2>5, <2>6
      <3> QED
        BY <1>0, <2>6, <3>1
    <2> QED
      BY <1>0, <2>1, <2>7
  <1> QED
    BY <1>1, <1>2

(* SetToSeq lists every element of a finite set.                             *)
LEMMA SetToSeqHolds ==
  ASSUME NEW S, NEW T \in SUBSET S, IsFiniteSet(T)
  PROVE  SetToSeq(T) \in Seq(S) /\ {SetToSeq(T)[i] : i \in DOMAIN SetToSeq(T)} = T
  <1> DEFINE n == Cardinality(T)
             D == 1..n
             Listing(f) == f \in [D -> T] /\ IsInjective(f)
  <1>1. n \in Nat
    BY FS_CardinalityType
  <1>2. IsFiniteSet(D) /\ Cardinality(D) = n
    BY <1>1, FS_Interval
  <1>3. \E f : Listing(f)
    <2>1. ExistsBijection(D, T)
      <3> HIDE DEF D
      <3> QED
        BY <1>2, FS_SameCardinalityBij
    <2> QED
      BY <2>1 DEF ExistsBijection, Bijection, Injection
  <1> DEFINE g == SetToSeq(T)
  <1>4. Listing(g)
    <2>1. g = CHOOSE f \in [D -> T] : IsInjective(f)
      BY DEF SetToSeq
    <2> QED
      BY <1>3, <2>1
  <1>5. g \in Surjection(D, T)
    <2> HIDE DEF D, g
    <2>1. g \in Injection(D, T)
      BY <1>4 DEF Injection
    <2> QED
      BY <1>2, <2>1, FS_Injection
  <1>6. g \in Seq(S)
    <2>1. g \in [1..n -> S]
      BY <1>4
    <2> HIDE DEF g, n
    <2> QED
      BY <1>1, <2>1, SeqDef
  <1>7. {g[i] : i \in DOMAIN g} = T
    <2> HIDE DEF g, D
    <2> QED
      BY <1>4, <1>5 DEF Surjection
  <1> QED
    BY <1>6, <1>7

-----------------------------------------------------------------------------
(* The same of the identities of what a sequence holds.                      *)
LEMMA IdsHold ==
  ASSUME NEW S, NEW q \in Seq(S)
  PROVE  /\ \A e \in S : Ids(Append(q, e)) = Ids(q) \cup {e.id}
         /\ \A t \in Seq(S) : Ids(q \o t) = Ids(q) \cup Ids(t)
         /\ \A n \in 0..Len(q) : Ids(q) = Ids(SubSeq(q, 1, n)) \cup Ids(SubSeq(q, n + 1, Len(q)))
         /\ q # <<>> => Ids(q) = Ids(Tail(q)) \cup {Head(q).id}
         /\ q # <<>> /\ Len(q) = 1 => Ids(q) = {Head(q).id}
         /\ \A at : Ids(Kept(q, at)) \subseteq Ids(q)
         /\ (q = <<>>) <=> (Ids(q) = {})
  <1>1. ASSUME NEW e \in S
        PROVE  Ids(Append(q, e)) = Ids(q) \cup {e.id}
    <2>1. ToSet(Append(q, e)) = ToSet(q) \cup {e}
      BY AppendHolds
    <2> QED
      BY <2>1, IdsOf
  <1>2. ASSUME NEW t \in Seq(S)
        PROVE  Ids(q \o t) = Ids(q) \cup Ids(t)
    <2>1. ToSet(q \o t) = ToSet(q) \cup ToSet(t)
      BY ConcatHolds
    <2> QED
      BY <2>1, IdsOf
  <1>3. ASSUME NEW n \in 0..Len(q)
        PROVE  Ids(q) = Ids(SubSeq(q, 1, n)) \cup Ids(SubSeq(q, n + 1, Len(q)))
    <2>1. ToSet(q) = ToSet(SubSeq(q, 1, n)) \cup ToSet(SubSeq(q, n + 1, Len(q)))
      BY CutHolds
    <2> QED
      BY <2>1, IdsOf
  <1>4. ASSUME q # <<>>
        PROVE  /\ Ids(q) = Ids(Tail(q)) \cup {Head(q).id}
               /\ Len(q) = 1 => Ids(q) = {Head(q).id}
    <2>1. /\ ToSet(q) = ToSet(Tail(q)) \cup {Head(q)}
          /\ Len(q) = 1 => ToSet(q) = {Head(q)}
      BY <1>4, HeadHolds
    <2> QED
      BY <2>1, IdsOf
  <1>5. ASSUME NEW at
        PROVE  Ids(Kept(q, at)) \subseteq Ids(q)
    <2>1. ToSet(Kept(q, at)) = {q[k] : k \in DOMAIN q \cap at}
      BY KeptHolds
    <2>2. ToSet(Kept(q, at)) \subseteq ToSet(q)
      BY <2>1 DEF ToSet
    <2> QED
      BY <2>2, IdsOf
  <1>6. (q = <<>>) <=> (Ids(q) = {})
    <2>1. q # <<>> => 1 \in DOMAIN q
      OBVIOUS
    <2>2. q # <<>> => q[1].id \in Ids(q)
      BY <2>1 DEF Ids
    <2> QED
      BY <2>2, EmptyHolds
  <1> QED
    BY <1>1, <1>2, <1>3, <1>4, <1>5, <1>6

(* Parking drops the identities that do not fit, and no other.               *)
LEMMA ParkHolds ==
  ASSUME NEW queue \in Seq(Parkings), NEW dets \in Seq(Detections)
  PROVE  /\ Park(queue, dets).queue \in Seq(Parkings)
         /\ Len(Park(queue, dets).queue) <= PerTarget
         /\ Ids(queue) \cup Ids(dets) = Ids(Park(queue, dets).queue) \cup Park(queue, dets).dropped
  <1> DEFINE new == [k \in DOMAIN dets |-> [id |-> dets[k].id, age |-> 0]]
             all == queue \o new
             over == IF Len(all) > PerTarget THEN Len(all) - PerTarget ELSE 0
  <1>1. new \in Seq(Parkings)
    <2>1. Len(dets) \in Nat /\ DOMAIN dets = 1..Len(dets)
      OBVIOUS
    <2>2. \A k \in DOMAIN dets : [id |-> dets[k].id, age |-> 0] \in Parkings
      <3>1. \A k \in DOMAIN dets : dets[k] \in Detections
        OBVIOUS
      <3>2. \A d \in Detections : [id |-> d.id, age |-> 0] \in Parkings
        BY DEF Detections, Parkings
      <3> QED
        BY <3>1, <3>2
    <2>3. new \in [1..Len(dets) -> Parkings]
      BY <2>1, <2>2
    <2> HIDE DEF new
    <2> QED
      BY <2>1, <2>3, SeqDef
  <1>2. Ids(new) = Ids(dets)
    <2>1. DOMAIN new = DOMAIN dets /\ \A k \in DOMAIN dets : new[k].id = dets[k].id
      OBVIOUS
    <2> HIDE DEF new
    <2> QED
      BY <2>1 DEF Ids
  <1> HIDE DEF new
  <1>3. all \in Seq(Parkings) /\ Ids(all) = Ids(queue) \cup Ids(new)
    BY <1>1, ConcatHolds, IdsHold
  <1> HIDE DEF all
  <1>4. PerTarget \in Nat /\ PerTarget > 0
    BY FeedAssumption
  <1>5. over \in 0..Len(all) /\ Len(all) - over <= PerTarget
    <2>1. Len(all) \in Nat
      BY <1>3
    <2> QED
      BY <1>4, <2>1
  <1>6. /\ Park(queue, dets).queue = SubSeq(all, over + 1, Len(all))
        /\ Park(queue, dets).dropped = Ids(SubSeq(all, 1, over))
    BY DEF Park, all, new
  <1> HIDE DEF over
  <1>7. /\ SubSeq(all, over + 1, Len(all)) \in Seq(Parkings)
        /\ Len(SubSeq(all, over + 1, Len(all))) = Len(all) - over
    BY <1>3, <1>5, CutHolds
  <1>8. Ids(all) = Ids(SubSeq(all, 1, over)) \cup Ids(SubSeq(all, over + 1, Len(all)))
    BY <1>3, <1>5, IdsHold
  <1> QED
    BY <1>2, <1>3, <1>5, <1>6, <1>7, <1>8

(* What the parked detections of the values of a map are taken up as.        *)
Rewoken(v) == [k \in DOMAIN pending[v] |-> [id |-> pending[v][k].id, dst |-> v]]
Woken(map) == FlattenSeq(SetToSeq({Rewoken(v) : v \in Wakes(map)}))

LEMMA WokenHolds ==
  ASSUME pending \in [Values -> Seq(Parkings)], NEW map, DOMAIN map \subseteq Values
  PROVE  /\ Woken(map) \in Seq(Detections)
         /\ \A e \in ToSet(Woken(map)) : e.dst \in DOMAIN map
         /\ Ids(Woken(map)) = UNION {Ids(pending[v]) : v \in DOMAIN map}
  <1> DEFINE D == DOMAIN map
             parts == {Rewoken(v) : v \in D}
             g == [v \in D |-> Rewoken(v)]
             qs == SetToSeq(parts)
  <1>1. ASSUME NEW v \in D
        PROVE  /\ Rewoken(v) \in Seq(Detections)
               /\ Ids(Rewoken(v)) = Ids(pending[v])
               /\ \A e \in ToSet(Rewoken(v)) : e.dst = v
    <2>1. v \in Values /\ pending[v] \in Seq(Parkings)
      OBVIOUS
    <2>2. PICK q \in Seq(Parkings) : q = pending[v]
      BY <2>1
    <2>3. Rewoken(v) = [k \in DOMAIN q |-> [id |-> q[k].id, dst |-> v]]
      BY <2>2 DEF Rewoken
    <2>4. Rewoken(v) \in Seq(Detections)
      <3>1. Len(q) \in Nat /\ DOMAIN q = 1..Len(q)
        OBVIOUS
      <3>2. \A k \in DOMAIN q : [id |-> q[k].id, dst |-> v] \in Detections
        <4>1. \A k \in DOMAIN q : q[k] \in Parkings
          OBVIOUS
        <4>2. \A p \in Parkings : [id |-> p.id, dst |-> v] \in Detections
          BY <2>1 DEF Detections, Parkings
        <4> QED
          BY <4>1, <4>2
      <3>3. Rewoken(v) \in [1..Len(q) -> Detections]
        BY <2>3, <3>1, <3>2
      <3> QED
        BY <3>1, <3>3, SeqDef
    <2>5. /\ DOMAIN Rewoken(v) = DOMAIN q
          /\ \A k \in DOMAIN q : Rewoken(v)[k].id = q[k].id /\ Rewoken(v)[k].dst = v
      BY <2>3
    <2>6. Ids(Rewoken(v)) = Ids(q)
      BY <2>5 DEF Ids
    <2>7. \A e \in ToSet(Rewoken(v)) : e.dst = v
      BY <2>5 DEF ToSet
    <2> QED
      BY <2>2, <2>4, <2>6, <2>7
  <1>2. IsFiniteSet(parts)
    <2>1. IsFiniteSet(D)
      BY FeedAssumption, FS_Subset
    <2>2. g \in Surjection(D, parts)
      BY DEF Surjection
    <2> HIDE DEF D, g, parts
    <2> QED
      BY <2>1, <2>2, FS_Surjection
  <1>3. parts \in SUBSET Seq(Detections)
    BY <1>1
  <1>4. qs \in Seq(Seq(Detections)) /\ {qs[i] : i \in DOMAIN qs} = parts
    <2> HIDE DEF parts
    <2> QED
      BY <1>2, <1>3, SetToSeqHolds
  <1>5. Woken(map) = FlattenSeq(qs)
    BY DEF Woken, Wakes
  <1> HIDE DEF qs
  <1>6. /\ Woken(map) \in Seq(Detections)
        /\ ToSet(Woken(map)) = UNION {ToSet(qs[i]) : i \in DOMAIN qs}
    BY <1>4, <1>5, FlattenHolds
  <1>7. ToSet(Woken(map)) = UNION {ToSet(q) : q \in parts}
    <2>1. UNION {ToSet(qs[i]) : i \in DOMAIN qs} = UNION {ToSet(q) : q \in {qs[i] : i \in DOMAIN qs}}
      OBVIOUS
    <2> QED
      BY <1>4, <1>6, <2>1
  <1>8. ToSet(Woken(map)) = UNION {ToSet(Rewoken(v)) : v \in D}
    BY <1>7
  <1>9. \A e \in ToSet(Woken(map)) : e.dst \in D
    BY <1>1, <1>8
  <1>10. Ids(Woken(map)) = UNION {Ids(Rewoken(v)) : v \in D}
    <2>1. \A v \in D : Ids(Rewoken(v)) = {e.id : e \in ToSet(Rewoken(v))}
      BY IdsOf
    <2>2. Ids(Woken(map)) = {e.id : e \in ToSet(Woken(map))}
      BY IdsOf
    <2> QED
      BY <1>8, <2>1, <2>2
  <1>11. \A v \in D : Ids(Rewoken(v)) = Ids(pending[v])
    BY <1>1
  <1> QED
    BY <1>6, <1>9, <1>10, <1>11

-----------------------------------------------------------------------------
(* What a step does to the files: one may be begun or written afresh, and to  *)
(* the others at most one line is appended, with the next number.            *)
Fresh(f) ==
    /\ logs'[f].lines = <<>> /\ logs'[f].gen = resets' /\ resets' = resets + 1
    /\ f = Len(logs')
Extended(f, line) ==
    /\ f \in DOMAIN logs /\ logs'[f].gen = logs[f].gen
    /\ \/ logs'[f].lines = logs[f].lines
       \/ /\ written' = written + 1 /\ line.id = written'
          /\ logs'[f].lines = Append(logs[f].lines, line)
Written(line) ==
    /\ written' = written + 1 => line \in Lines
    /\ logs' \in Seq(Files) /\ logs' # <<>> /\ DOMAIN logs \subseteq DOMAIN logs'
    /\ written' \in {written, written + 1} /\ resets' \in {resets, resets + 1}
    /\ resets' <= MaxResets
    /\ \A f \in DOMAIN logs' : Fresh(f) \/ Extended(f, line)

LEMMA FileParts ==
  ASSUME Typed
  PROVE  /\ Len(logs) \in Nat \ {0} /\ DOMAIN logs = 1..Len(logs) /\ Len(logs) \in DOMAIN logs
         /\ \A f \in DOMAIN logs :
              /\ logs[f] \in Files
              /\ logs[f].ino \in {1, 2} /\ logs[f].gen \in Nat
              /\ logs[f].lines \in Seq(Lines) /\ logs[f].torn \in BOOLEAN
              /\ logs[f] = [ino |-> logs[f].ino, gen |-> logs[f].gen,
                            lines |-> logs[f].lines, torn |-> logs[f].torn]
  <1>1. logs \in Seq(Files) /\ logs # <<>>
    BY DEF Typed
  <1>2. Len(logs) \in Nat \ {0} /\ DOMAIN logs = 1..Len(logs) /\ \A f \in DOMAIN logs : logs[f] \in Files
    BY <1>1
  <1>3. \A x \in Files : /\ x.ino \in {1, 2} /\ x.gen \in Nat
                         /\ x.lines \in Seq(Lines) /\ x.torn \in BOOLEAN
                         /\ x = [ino |-> x.ino, gen |-> x.gen, lines |-> x.lines, torn |-> x.torn]
    BY DEF Files
  <1> QED
    BY <1>2, <1>3

LEMMA Bounds ==
  ASSUME Typed
  PROVE  /\ written \in Nat /\ resets \in Nat /\ resets <= MaxResets /\ MaxResets \in Nat
         /\ MaxMishaps \in Nat /\ mishaps \in 0..MaxMishaps
  BY FeedAssumption DEF Typed

LEMMA WriteLineDoes ==
  ASSUME Typed, NEW c \in Contents, WriteLine(c)
  PROVE  \E line : Written(line)
  <1> DEFINE L == Len(logs)
             new == [id |-> written + 1, kind |-> c.kind, dst |-> c.dst]
             old == logs[L]
  <1>1. PICK torn \in BOOLEAN :
            logs' = [logs EXCEPT ![L] =
               [ino |-> @.ino, gen |-> @.gen, torn |-> torn,
                lines |-> Append(@.lines, [id |-> written', kind |-> c.kind, dst |-> c.dst])]]
    BY Zenon DEF WriteLine
  <1>2. written' = written + 1 /\ resets' = resets
    BY DEF WriteLine
  <1>3. c.kind \in {"event", "malformed", "poison", "answer"} /\ c.dst \in Values
    BY FeedAssumption
  <1>4. new \in Lines
    BY <1>3, Bounds DEF Lines
  <1>5. /\ L \in DOMAIN logs /\ DOMAIN logs = 1..L /\ L \in Nat \ {0} /\ old \in Files
        /\ old.lines \in Seq(Lines) /\ old.ino \in {1, 2} /\ old.gen \in Nat
        /\ old = [ino |-> old.ino, gen |-> old.gen, lines |-> old.lines, torn |-> old.torn]
    BY FileParts
  <1> DEFINE upd == [ino |-> old.ino, gen |-> old.gen, torn |-> torn,
                     lines |-> Append(old.lines, new)]
  <1> HIDE DEF new
  <1>7. logs' = [logs EXCEPT ![L] = upd]
    BY <1>1, <1>2, <1>5 DEF new
  <1>8. upd \in Files
    <2>1. Append(old.lines, new) \in Seq(Lines)
      BY <1>4, <1>5
    <2> QED
      BY <1>5, <2>1 DEF Files
  <1>9. upd.gen = old.gen /\ upd.lines = Append(old.lines, new)
    OBVIOUS
  <1> HIDE DEF upd
  <1>10. logs' \in Seq(Files) /\ logs' # <<>> /\ Len(logs') = L /\ DOMAIN logs' = DOMAIN logs
         /\ \A f \in DOMAIN logs : logs'[f] = IF f = L THEN upd ELSE logs[f]
    <2>1. logs \in Seq(Files)
      BY DEF Typed
    <2> QED
      BY <1>5, <1>7, <1>8, <2>1
  <1>11. new.id = written'
    BY <1>2 DEF new
  <1>12. ASSUME NEW f \in DOMAIN logs'
         PROVE  Extended(f, new)
    BY <1>2, <1>9, <1>10, <1>11 DEF Extended
  <1> QED
    BY <1>2, <1>4, <1>10, <1>12, Bounds DEF Written

LEMMA CompleteLineDoes ==
  ASSUME Typed, CompleteLine, NEW line
  PROVE  Written(line)
  <1> DEFINE L == Len(logs)
             old == logs[L]
             upd == [ino |-> old.ino, gen |-> old.gen, lines |-> old.lines, torn |-> FALSE]
  <1>1. /\ logs' = [logs EXCEPT ![L] =
               [ino |-> @.ino, gen |-> @.gen, torn |-> FALSE, lines |-> @.lines]]
        /\ written' = written /\ resets' = resets
    BY DEF CompleteLine
  <1>2. /\ L \in DOMAIN logs /\ DOMAIN logs = 1..L /\ L \in Nat \ {0} /\ old \in Files
        /\ old.lines \in Seq(Lines) /\ old.ino \in {1, 2} /\ old.gen \in Nat
        /\ old = [ino |-> old.ino, gen |-> old.gen, lines |-> old.lines, torn |-> old.torn]
    BY FileParts
  <1>3. logs' = [logs EXCEPT ![L] = upd]
    BY <1>1, <1>2
  <1>4. upd \in Files /\ upd.gen = old.gen /\ upd.lines = old.lines
    BY <1>2 DEF Files
  <1> HIDE DEF upd
  <1>5. logs' \in Seq(Files) /\ logs' # <<>> /\ DOMAIN logs' = DOMAIN logs
        /\ \A f \in DOMAIN logs : logs'[f] = IF f = L THEN upd ELSE logs[f]
    <2>1. logs \in Seq(Files)
      BY DEF Typed
    <2> QED
      BY <1>2, <1>3, <1>4, <2>1
  <1>6. ASSUME NEW f \in DOMAIN logs'
        PROVE  Extended(f, line)
    BY <1>4, <1>5 DEF Extended
  <1> QED
    BY <1>1, <1>5, <1>6, Bounds DEF Written

LEMMA NewFileIs ==
  ASSUME Typed, NEW ino \in {1, 2}
  PROVE  /\ NewFile(ino) \in Files /\ NewFile(ino).lines = <<>>
         /\ NewFile(ino).gen = resets + 1
  <1>1. <<>> \in Seq(Lines)
    OBVIOUS
  <1> QED
    BY <1>1, Bounds DEF NewFile, Files

LEMMA RotateDoes ==
  ASSUME Typed, Rotate, NEW line
  PROVE  Written(line)
  <1> DEFINE L == Len(logs)
  <1>1. PICK ino \in {1, 2} : ResetLog(Append(logs, NewFile(ino)))
    BY DEF Rotate
  <1>2. /\ logs' = Append(logs, NewFile(ino)) /\ written' = written /\ resets' = resets + 1
        /\ resets < MaxResets
    BY <1>1 DEF ResetLog
  <1>3. PICK new \in Files : new = NewFile(ino) /\ new.lines = <<>> /\ new.gen = resets + 1
    BY NewFileIs
  <1>4. logs \in Seq(Files) /\ L \in Nat /\ DOMAIN logs = 1..L
    BY FileParts DEF Typed
  <1>5. /\ logs' \in Seq(Files) /\ logs' # <<>> /\ Len(logs') = L + 1
        /\ logs'[L + 1] = new /\ \A f \in 1..L : logs'[f] = logs[f]
    BY <1>2, <1>3, <1>4, AppendProperties
  <1>6. ASSUME NEW f \in DOMAIN logs'
        PROVE  Fresh(f) \/ Extended(f, line)
    <2>1. f \in 1..(L + 1)
      BY <1>5
    <2>2. CASE f = L + 1
      BY <1>2, <1>3, <1>5, <2>2 DEF Fresh
    <2>3. CASE f # L + 1
      <3>1. f \in 1..L
        BY <1>4, <2>1, <2>3
      <3> QED
        BY <1>4, <1>5, <3>1 DEF Extended
    <2> QED
      BY <2>2, <2>3
  <1>7. DOMAIN logs \subseteq DOMAIN logs'
    BY <1>4, <1>5
  <1> QED
    BY <1>2, <1>5, <1>6, <1>7, Bounds DEF Written

LEMMA TruncateDoes ==
  ASSUME Typed, Truncate, NEW line
  PROVE  Written(line)
  <1> DEFINE L == Len(logs)
  <1>1. /\ logs' = [logs EXCEPT ![L] = NewFile(@.ino)] /\ written' = written
        /\ resets' = resets + 1 /\ resets < MaxResets
    BY DEF Truncate, ResetLog
  <1>2. /\ L \in DOMAIN logs /\ DOMAIN logs = 1..L /\ L \in Nat \ {0} /\ logs[L].ino \in {1, 2}
    BY FileParts
  <1>3. PICK new \in Files : new = NewFile(logs[L].ino) /\ new.lines = <<>> /\ new.gen = resets + 1
    BY <1>2, NewFileIs
  <1>4. logs \in Seq(Files) /\ logs' = [logs EXCEPT ![L] = new]
    BY <1>1, <1>2, <1>3 DEF Typed
  <1>5. /\ logs' \in Seq(Files) /\ logs' # <<>> /\ Len(logs') = L /\ DOMAIN logs' = 1..L
        /\ \A f \in 1..L : logs'[f] = IF f = L THEN new ELSE logs[f]
    BY <1>2, <1>4
  <1>6. ASSUME NEW f \in DOMAIN logs'
        PROVE  Fresh(f) \/ Extended(f, line)
    BY <1>1, <1>2, <1>3, <1>5 DEF Fresh, Extended
  <1>7. resets + 1 <= MaxResets /\ logs' # <<>> /\ DOMAIN logs \subseteq DOMAIN logs'
    <2>1. resets < MaxResets
      BY <1>1, Zenon
    <2>2. resets + 1 <= MaxResets
      BY <2>1, Bounds
    <2>3. Len(logs') # 0
      BY <1>2, <1>5
    <2> QED
      BY <1>2, <1>5, <2>2, <2>3
  <1>8. written' # written + 1
    <2>1. written' = written
      BY <1>1, Zenon
    <2> QED
      BY <2>1, Bounds
  <1> QED
    BY <1>1, <1>5, <1>6, <1>7, <1>8, Zenon DEF Written

LEMMA LogTypes ==
  ASSUME Typed, Numbered, NEW f \in DOMAIN logs
  PROVE  /\ logs[f].lines \in Seq(Lines) /\ logs[f].gen \in Nat /\ logs[f].gen <= resets
         /\ Len(logs[f].lines) \in Nat /\ Len(logs[f].lines) <= written
         /\ DOMAIN logs[f].lines = 1..Len(logs[f].lines)
         /\ \A k \in DOMAIN logs[f].lines :
                logs[f].lines[k] \in Lines /\ logs[f].lines[k].id \in 1..written
  <1>1. logs[f].lines \in Seq(Lines) /\ logs[f].gen \in Nat
    BY FileParts
  <1>2. /\ logs[f].gen <= resets /\ Len(logs[f].lines) <= written
        /\ \A k \in DOMAIN logs[f].lines : logs[f].lines[k].id \in 1..written
    BY DEF Numbered
  <1> QED
    BY <1>1, <1>2

(* After such a step a line is one there was, or the new one.                *)
LEMMA WrittenLines ==
  ASSUME Typed, Numbered, NEW line, Written(line), NEW f \in DOMAIN logs'
  PROVE  /\ ~Fresh(f) => /\ f \in DOMAIN logs /\ logs'[f].gen = logs[f].gen
                         /\ Len(logs[f].lines) <= Len(logs'[f].lines)
                         /\ \A k \in DOMAIN logs[f].lines : logs'[f].lines[k] = logs[f].lines[k]
         /\ logs'[f].gen <= resets' /\ Len(logs'[f].lines) <= written'
         /\ \A k \in DOMAIN logs'[f].lines :
              \/ /\ f \in DOMAIN logs /\ k \in DOMAIN logs[f].lines
                 /\ logs'[f].lines[k] = logs[f].lines[k]
              \/ /\ logs'[f].lines[k] = line /\ line.id = written + 1 /\ written' = written + 1
  <1>1. /\ written' = written + 1 => line \in Lines
        /\ Fresh(f) \/ Extended(f, line)
        /\ written' \in {written, written + 1} /\ resets' \in {resets, resets + 1}
    BY DEF Written
  <1>2. written \in Nat /\ resets \in Nat
    BY Bounds
  <1>3. CASE Fresh(f)
    <2>1. logs'[f].lines = <<>> /\ logs'[f].gen = resets'
      BY <1>3 DEF Fresh
    <2>2. DOMAIN logs'[f].lines = {} /\ Len(logs'[f].lines) = 0
      BY <2>1
    <2> QED
      BY <1>1, <1>2, <1>3, <2>1, <2>2
  <1>4. CASE ~Fresh(f)
    <2>1. f \in DOMAIN logs /\ logs'[f].gen = logs[f].gen
      BY <1>1, <1>4 DEF Extended
    <2>2. PICK q \in Seq(Lines) : q = logs[f].lines
      BY <2>1, LogTypes
    <2>3. PICK p : p = logs'[f].lines
      OBVIOUS
    <2>4. /\ Len(q) \in Nat /\ Len(q) <= written /\ DOMAIN q = 1..Len(q)
          /\ logs[f].gen \in Nat /\ logs[f].gen <= resets
      BY <2>1, <2>2, LogTypes
    <2>5. CASE p = q
      <3>1. Len(q) <= written'
        BY <1>1, <1>2, <2>4
      <3>2. logs[f].gen <= resets'
        BY <1>1, <1>2, <2>4
      <3> QED
        BY <1>4, <2>1, <2>2, <2>3, <2>4, <2>5, <3>1, <3>2
    <2>6. CASE p # q
      <3>1. written' = written + 1 /\ line.id = written' /\ p = Append(q, line)
        BY <1>1, <1>4, <2>2, <2>3, <2>6 DEF Extended
      <3>2. /\ Len(p) = Len(q) + 1 /\ \A k \in 1..Len(q) : p[k] = q[k]
            /\ p[Len(q) + 1] = line /\ p \in Seq(Lines)
        <4>1. line \in Lines
          BY <1>1, <3>1
        <4>2. /\ Len(Append(q, line)) = Len(q) + 1 /\ Append(q, line) \in Seq(Lines)
              /\ \A k \in 1..Len(q) : Append(q, line)[k] = q[k]
              /\ Append(q, line)[Len(q) + 1] = line
          BY <4>1, AppendProperties
        <4> QED
          BY <3>1, <4>2
      <3>3. DOMAIN p = 1..(Len(q) + 1) /\ Len(q) <= Len(p) /\ Len(p) <= written'
        <4>1. \A n, w \in Nat : n <= w => n <= n + 1 /\ n + 1 <= w + 1
          OBVIOUS
        <4>2. DOMAIN p = 1..Len(p)
          BY <3>2
        <4> QED
          BY <1>2, <2>4, <3>1, <3>2, <4>1, <4>2
      <3>4. logs[f].gen <= resets'
        BY <1>1, <1>2, <2>4
      <3>5. \A k \in DOMAIN p : k \in DOMAIN q \/ k = Len(q) + 1
        BY <2>4, <3>3
      <3> QED
        BY <1>4, <2>1, <2>2, <2>3, <2>4, <3>1, <3>2, <3>3, <3>4, <3>5
    <2> QED
      BY <2>5, <2>6
  <1> QED
    BY <1>3, <1>4

LEMMA NumberedStep ==
  ASSUME Typed, Numbered, NEW line, Written(line)
  PROVE  Numbered'
  <1>0. written \in Nat /\ resets \in Nat /\ written' \in {written, written + 1}
    BY Bounds DEF Written
  <1>1. ASSUME NEW f \in DOMAIN logs'
        PROVE  /\ logs'[f].gen <= resets' /\ Len(logs'[f].lines) <= written'
               /\ \A k \in DOMAIN logs'[f].lines : logs'[f].lines[k].id \in 1..written'
    <2>1. ASSUME NEW k \in DOMAIN logs'[f].lines
          PROVE  logs'[f].lines[k].id \in 1..written'
      <3>1. CASE f \in DOMAIN logs /\ k \in DOMAIN logs[f].lines /\ logs'[f].lines[k] = logs[f].lines[k]
        <4>1. logs[f].lines[k].id \in 1..written
          BY <3>1, LogTypes
        <4> QED
          BY <1>0, <3>1, <4>1
      <3>2. CASE logs'[f].lines[k] = line /\ line.id = written + 1 /\ written' = written + 1
        BY <1>0, <3>2
      <3> QED
        BY <3>1, <3>2, WrittenLines
    <2> QED
      BY <2>1, WrittenLines
  <1>2. ASSUME NEW f \in DOMAIN logs', NEW g \in DOMAIN logs', logs'[f].gen = logs'[g].gen
        PROVE  f = g
    <2>1. ASSUME NEW a \in DOMAIN logs', NEW b \in DOMAIN logs', Fresh(a), ~Fresh(b)
          PROVE  logs'[a].gen # logs'[b].gen
      <3>1. logs'[a].gen = resets + 1
        BY <2>1 DEF Fresh
      <3>2. b \in DOMAIN logs /\ logs'[b].gen = logs[b].gen
        BY <2>1, WrittenLines
      <3>3. logs[b].gen \in Nat /\ logs[b].gen <= resets
        BY <3>2, LogTypes
      <3> QED
        BY <1>0, <3>1, <3>2, <3>3
    <2>2. CASE Fresh(f) /\ Fresh(g)
      BY <2>2 DEF Fresh
    <2>3. CASE ~Fresh(f) /\ ~Fresh(g)
      <3>1. f \in DOMAIN logs /\ g \in DOMAIN logs /\ logs[f].gen = logs[g].gen
        BY <1>2, <2>3, WrittenLines
      <3> QED
        BY <3>1 DEF Numbered
    <2> QED
      BY <1>2, <2>1, <2>2, <2>3
  <1>3. ASSUME NEW f \in DOMAIN logs', NEW g \in DOMAIN logs',
               NEW j \in DOMAIN logs'[f].lines, NEW k \in DOMAIN logs'[g].lines,
               logs'[f].lines[j].id = logs'[g].lines[k].id
        PROVE  logs'[f].lines[j].kind = logs'[g].lines[k].kind
    <2> DEFINE Old(h, i) == /\ h \in DOMAIN logs /\ i \in DOMAIN logs[h].lines
                            /\ logs'[h].lines[i] = logs[h].lines[i]
               New(h, i) == /\ logs'[h].lines[i] = line /\ line.id = written + 1
    <2>1. (Old(f, j) \/ New(f, j)) /\ (Old(g, k) \/ New(g, k))
      BY WrittenLines
    <2>2. CASE Old(f, j) /\ Old(g, k)
      BY <1>3, <2>2 DEF Numbered
    <2>3. CASE New(f, j) /\ New(g, k)
      BY <2>3
    <2>4. \A h, i : Old(h, i) => logs'[h].lines[i].id # written + 1
      <3>1. ASSUME NEW h, NEW i, Old(h, i)
            PROVE  logs'[h].lines[i].id # written + 1
        <4>1. logs[h].lines[i].id \in 1..written
          BY <3>1, LogTypes
        <4> QED
          BY <1>0, <3>1, <4>1
      <3> QED
        BY <3>1
    <2> QED
      BY <1>3, <2>1, <2>2, <2>3, <2>4
  <1> QED
    BY <1>1, <1>2, <1>3 DEF Numbered

-----------------------------------------------------------------------------
(* The marks, and what was read of the files they were made in.              *)

LEMMA TailParts ==
  ASSUME Typed
  PROVE  /\ tail = [mark |-> tail.mark, pass |-> tail.pass]
         /\ tail.mark \in Marks /\ tail.pass \in Passes /\ checkpoint \in Marks
         /\ tail.mark.ino \in {0, 1, 2} /\ tail.mark.offset \in Nat /\ tail.mark.gen \in Int
         /\ checkpoint.offset \in Nat /\ checkpoint.gen \in Int
         /\ tail.pass.fd \in Nat /\ tail.pass.pos \in Nat /\ tail.pass.left \in Nat
  BY DEF Typed, Marks, Passes

LEMMA ReadStays ==
  ASSUME Typed, Numbered, NEW line, Written(line),
         NEW g \in Int, g <= resets, NEW n \in Nat, NEW F,
         \A f \in DOMAIN logs : logs[f].gen = g =>
             n <= Len(logs[f].lines) /\ \A k \in 1..n : logs[f].lines[k].id \in F
  PROVE  \A f \in DOMAIN logs' : logs'[f].gen = g =>
             n <= Len(logs'[f].lines) /\ \A k \in 1..n : logs'[f].lines[k].id \in F
  <1> SUFFICES ASSUME NEW f \in DOMAIN logs', logs'[f].gen = g
               PROVE  n <= Len(logs'[f].lines) /\ \A k \in 1..n : logs'[f].lines[k].id \in F
    OBVIOUS
  <1>1. ~Fresh(f)
    <2>1. resets \in Nat
      BY Bounds
    <2> QED
      BY <2>1 DEF Fresh
  <1>2. /\ f \in DOMAIN logs /\ logs[f].gen = g
        /\ Len(logs[f].lines) <= Len(logs'[f].lines)
        /\ \A k \in DOMAIN logs[f].lines : logs'[f].lines[k] = logs[f].lines[k]
    BY <1>1, WrittenLines
  <1>3. Len(logs[f].lines) \in Nat /\ DOMAIN logs[f].lines = 1..Len(logs[f].lines)
    BY <1>2, LogTypes
  <1>4. Len(logs'[f].lines) \in Nat
    <2>1. logs' \in Seq(Files) /\ logs'[f] \in Files
      BY DEF Written
    <2>2. logs'[f].lines \in Seq(Lines)
      BY <2>1 DEF Files
    <2> QED
      BY <2>2
  <1>5. n <= Len(logs[f].lines) /\ \A k \in 1..n : logs[f].lines[k].id \in F
    BY <1>2
  <1>6. \A k \in 1..n : k \in DOMAIN logs[f].lines
    BY <1>3, <1>5
  <1>7. \A k \in 1..n : logs'[f].lines[k] = logs[f].lines[k]
    BY <1>2, <1>6
  <1>8. n <= Len(logs'[f].lines)
    BY <1>2, <1>3, <1>4, <1>5
  <1> QED
    BY <1>5, <1>7, <1>8

LEMMA TailedWhenWritten ==
  ASSUME Typed, Numbered, Tailed, NEW line, Written(line),
         UNCHANGED <<tail, checkpoint, folded, skipped>>
  PROVE  Tailed'
  <1>0. /\ written \in Nat /\ resets \in Nat /\ written' \in {written, written + 1}
        /\ resets' \in {resets, resets + 1} /\ DOMAIN logs \subseteq DOMAIN logs'
    BY Bounds DEF Written
  <1>t. /\ tail.mark.offset \in Nat /\ tail.mark.gen \in Int /\ tail.pass.pos \in Nat
        /\ checkpoint.offset \in Nat /\ checkpoint.gen \in Int
    BY TailParts
  <1>l. /\ checkpoint.gen <= resets /\ checkpoint.offset <= written
        /\ tail.mark.gen <= resets /\ tail.mark.offset <= written
    BY DEF Tailed
  <1>1. /\ checkpoint'.gen <= resets' /\ checkpoint'.offset <= written'
        /\ tail'.mark.gen <= resets' /\ tail'.mark.offset <= written'
    BY <1>0, <1>t, <1>l
  <1>2. ASSUME NEW mark, NEW n \in Nat, mark.gen \in Int, mark.gen <= resets, Read(mark, n)
        PROVE  \A f \in DOMAIN logs' : logs'[f].gen = mark.gen =>
                  n <= Len(logs'[f].lines) /\ \A k \in 1..n : logs'[f].lines[k].id \in folded
    <2>1. PICK g \in Int : g = mark.gen
      BY <1>2
    <2>2. g <= resets
      BY <1>2, <2>1
    <2>3. \A f \in DOMAIN logs : logs[f].gen = g =>
             n <= Len(logs[f].lines) /\ \A k \in 1..n : logs[f].lines[k].id \in folded
      BY <1>2, <2>1 DEF Read
    <2>4. \A f \in DOMAIN logs' : logs'[f].gen = g =>
             n <= Len(logs'[f].lines) /\ \A k \in 1..n : logs'[f].lines[k].id \in folded
      BY <2>2, <2>3, ReadStays
    <2> QED
      BY <2>1, <2>4
  <1>3. ~skipped' => /\ Read(checkpoint, checkpoint.offset)'
                     /\ Read(tail.mark, tail.mark.offset)'
                     /\ tail.pass # NoPass => Read(tail.mark, tail.pass.pos)'
    <2> SUFFICES ASSUME ~skipped
                 PROVE  /\ Read(checkpoint, checkpoint.offset)'
                        /\ Read(tail.mark, tail.mark.offset)'
                        /\ tail.pass # NoPass => Read(tail.mark, tail.pass.pos)'
      OBVIOUS
    <2>1. Read(checkpoint, checkpoint.offset)'
      <3>1. Read(checkpoint, checkpoint.offset)
        BY DEF Tailed
      <3> QED
        BY <1>2, <1>t, <1>l, <3>1 DEF Read
    <2>2. Read(tail.mark, tail.mark.offset)'
      <3>1. Read(tail.mark, tail.mark.offset)
        BY DEF Tailed
      <3> QED
        BY <1>2, <1>t, <1>l, <3>1 DEF Read
    <2>3. ASSUME tail.pass # NoPass
          PROVE  Read(tail.mark, tail.pass.pos)'
      <3>1. Read(tail.mark, tail.pass.pos)
        BY <2>3 DEF Tailed
      <3> QED
        BY <1>2, <1>t, <1>l, <3>1 DEF Read
    <2> QED
      BY <2>1, <2>2, <2>3
  <1>4. ASSUME InPass'
        PROVE  /\ tail'.pass.fd \in DOMAIN logs'
               /\ \A f \in DOMAIN logs' : logs'[f].gen = tail'.mark.gen => f = tail'.pass.fd
    <2>1. /\ tail.pass.fd \in DOMAIN logs
          /\ \A f \in DOMAIN logs : logs[f].gen = tail.mark.gen => f = tail.pass.fd
      BY <1>4 DEF Tailed, InPass
    <2>2. ASSUME NEW f \in DOMAIN logs', logs'[f].gen = tail.mark.gen
          PROVE  f = tail.pass.fd
      <3>1. ~Fresh(f)
        BY <1>0, <1>t, <1>l, <2>2 DEF Fresh
      <3>2. f \in DOMAIN logs /\ logs'[f].gen = logs[f].gen
        BY <3>1, WrittenLines
      <3> QED
        BY <2>1, <2>2, <3>2
    <2> QED
      BY <1>0, <2>1, <2>2
  <1>5. ASSUME tail.pass # NoPass
        PROVE  tail.pass.pos <= written' /\ (InPass \/ tail.pass.pos = tail.mark.offset)
    BY <1>0, <1>t, <1>5 DEF Tailed
  <1> QED
    BY <1>1, <1>3, <1>4, <1>5 DEF Tailed, InPass

-----------------------------------------------------------------------------
(* The steps of the EVE thread.                                              *)

LEMMA NoPassIs == NoPass \in Passes /\ NoPass.fd = 0 /\ (InPass => tail.pass # NoPass)
  BY DEF NoPass, Passes, InPass

LEMMA NextLineIs ==
  ASSUME Typed, Numbered, Tailed, InPass, ~AtEnd
  PROVE  /\ tail.pass.fd \in DOMAIN logs
         /\ tail.pass.pos + 1 \in DOMAIN logs[tail.pass.fd].lines
         /\ tail.pass.pos + 1 <= Len(logs[tail.pass.fd].lines)
         /\ tail.pass.pos + 1 <= written /\ tail.pass.left # 0
         /\ NextLine \in Lines /\ NextLine.id \in 1..written
  <1>1. tail.pass.fd \in DOMAIN logs /\ tail.pass.pos \in Nat
    BY TailParts DEF Tailed
  <1>2. /\ Len(logs[tail.pass.fd].lines) \in Nat /\ Len(logs[tail.pass.fd].lines) <= written
        /\ DOMAIN logs[tail.pass.fd].lines = 1..Len(logs[tail.pass.fd].lines)
    BY <1>1, LogTypes
  <1>3. ~(tail.pass.pos >= Len(logs[tail.pass.fd].lines)) /\ tail.pass.left # 0
    BY DEF AtEnd
  <1>4. /\ tail.pass.pos + 1 \in DOMAIN logs[tail.pass.fd].lines
        /\ tail.pass.pos + 1 <= Len(logs[tail.pass.fd].lines)
        /\ tail.pass.pos + 1 <= written
    <2>1. \A p, n, w \in Nat : ~(p >= n) /\ n <= w => p + 1 \in 1..n /\ p + 1 <= n /\ p + 1 <= w
      OBVIOUS
    <2> QED
      BY <1>1, <1>2, <1>3, <2>1, Bounds
  <1> QED
    BY <1>1, <1>3, <1>4, LogTypes DEF NextLine

LEMMA BeginPassKeeps ==
  ASSUME Typed, Numbered, Tailed, BeginPass
  PROVE  /\ tail' \in [mark : Marks, pass : Passes] /\ skipped' \in BOOLEAN
         /\ Tailed'
  <1> DEFINE L == Len(logs)
             f == logs[L]
             at == ResumeAt(f, tail.mark)
             mark == [ino |-> f.ino, offset |-> at, gen |-> f.gen]
             pass == IF Size(f) > 2 * at
                     THEN [fd |-> 0, pos |-> at, left |-> MaxLinesPerPass]
                     ELSE NoPass
  <1>1. /\ tail' = [mark |-> mark, pass |-> pass]
        /\ skipped' = (skipped \/ (at > 0 /\ tail.mark.gen # f.gen /\ tail.mark.ino = f.ino))
        /\ UNCHANGED <<logs, written, resets, checkpoint, folded>>
    BY DEF BeginPass, Current, writer
  <1>2. /\ L \in DOMAIN logs /\ L \in Nat /\ f.ino \in {1, 2} /\ f.gen \in Nat /\ f.gen <= resets
        /\ Len(f.lines) \in Nat /\ Len(f.lines) <= written
    BY FileParts, LogTypes
  <1>3. /\ at = 0 \/ (at = tail.mark.offset /\ f.ino = tail.mark.ino
                      /\ ~(Size(f) < 2 * tail.mark.offset))
        /\ at \in Nat /\ at <= written
    <2>1. tail.mark.offset \in Nat /\ tail.mark.offset <= written /\ written \in Nat
      BY TailParts, Bounds DEF Tailed
    <2> QED
      BY <2>1 DEF ResumeAt
  <1> HIDE DEF at
  <1>4. mark \in Marks
    BY <1>2, <1>3 DEF Marks
  <1>5. pass \in Passes
    <2>1. MaxLinesPerPass \in Nat
      BY FeedAssumption
    <2>2. [fd |-> 0, pos |-> at, left |-> MaxLinesPerPass] \in Passes
      BY <1>2, <1>3, <2>1 DEF Passes
    <2> QED
      BY <2>2, NoPassIs
  <1>6. skipped' \in BOOLEAN
    BY <1>1 DEF Typed
  <1>7. /\ tail'.mark = mark /\ tail'.pass = pass
        /\ mark.gen = f.gen /\ mark.offset = at /\ mark.ino = f.ino
    BY <1>1
  <1>8. ASSUME ~skipped'
        PROVE  Read(mark, at)
    <2>1. ~skipped /\ ~(at > 0 /\ tail.mark.gen # f.gen /\ tail.mark.ino = f.ino)
      BY <1>1, <1>8
    <2>2. CASE at = 0
      <3>1. 1..at = {}
        BY <2>2
      <3>2. \A g \in DOMAIN logs : at <= Len(logs[g].lines)
        BY <2>2, LogTypes
      <3> QED
        BY <3>1, <3>2 DEF Read
    <2>3. CASE at # 0
      <3>1. at > 0 /\ at = tail.mark.offset /\ f.ino = tail.mark.ino
        BY <1>3, <2>3
      <3>2. tail.mark.gen = f.gen
        BY <2>1, <3>1
      <3>3. Read(tail.mark, tail.mark.offset)
        BY <2>1 DEF Tailed
      <3> QED
        BY <1>7, <3>1, <3>2, <3>3 DEF Read
    <2> QED
      BY <2>2, <2>3
  <1>9. pass.fd = 0 /\ (pass # NoPass => pass.pos = at)
    BY NoPassIs
  <1> HIDE DEF mark, pass
  <1>11. ~skipped' => Read(checkpoint, checkpoint.offset)
    BY <1>1 DEF Tailed
  <1>12. checkpoint.gen <= resets /\ checkpoint.offset <= written
    BY DEF Tailed
  <1>13. Tailed'
    BY <1>1, <1>2, <1>3, <1>7, <1>8, <1>9, <1>11, <1>12 DEF Tailed, Read, InPass
  <1> QED
    BY <1>1, <1>4, <1>5, <1>6, <1>13

(* The file opened is the one stat saw, or none of the lines count.          *)
LEMMA OpenLogKeeps ==
  ASSUME Typed, Numbered, Tailed, OpenLog
  PROVE  /\ tail' \in [mark : Marks, pass : Passes] /\ skipped' \in BOOLEAN
         /\ Tailed'
  <1> DEFINE L == Len(logs)
             f == logs[L]
             gen == IF f.ino = tail.mark.ino THEN f.gen ELSE -1
             mark == [tail.mark EXCEPT !.gen = gen]
             pass == [tail.pass EXCEPT !.fd = L]
  <1>1. /\ tail.pass # NoPass /\ ~InPass
        /\ tail' = [mark |-> mark, pass |-> pass]
        /\ skipped' = (skipped \/ (/\ tail.pass.pos > 0 /\ tail.mark.gen # f.gen
                                  /\ tail.mark.ino = f.ino))
        /\ UNCHANGED <<logs, written, resets, checkpoint, folded>>
    BY DEF OpenLog, Current, writer, InPass
  <1>2. L \in DOMAIN logs /\ L \in Nat /\ f.gen \in Nat /\ f.gen <= resets /\ resets \in Nat
    BY FileParts, LogTypes, Bounds
  <1>3. /\ tail.pass.pos \in Nat /\ tail.pass.pos <= written
        /\ tail.pass.pos = tail.mark.offset
    BY <1>1, TailParts DEF Tailed
  <1>4. /\ mark \in Marks /\ mark.gen = gen /\ mark.offset = tail.mark.offset
        /\ pass \in Passes /\ pass.pos = tail.pass.pos /\ pass.fd = L
    BY <1>2, TailParts DEF Marks, Passes
  <1>5. gen = f.gen \/ (gen = -1 /\ f.ino # tail.mark.ino)
    OBVIOUS
  <1>6. tail'.mark = mark /\ tail'.pass = pass
    BY <1>1
  <1>7. skipped' \in BOOLEAN
    BY <1>1 DEF Typed
  <1> HIDE DEF mark, pass, gen
  <1>8. \A g \in DOMAIN logs : logs[g].gen \in Nat
    BY LogTypes
  <1>9. ASSUME ~skipped'
        PROVE  Read(mark, tail.pass.pos)
    <2>1. ~skipped /\ ~(/\ tail.pass.pos > 0 /\ tail.mark.gen # f.gen
                       /\ tail.mark.ino = f.ino)
      BY <1>1, <1>9
    <2>2. CASE gen = -1
      BY <1>4, <1>8, <2>2 DEF Read
    <2>3. CASE gen = f.gen /\ tail.pass.pos = 0
      <3>1. 1..tail.pass.pos = {}
        BY <2>3
      <3>2. \A g \in DOMAIN logs : tail.pass.pos <= Len(logs[g].lines)
        BY <2>3, LogTypes
      <3> QED
        BY <3>1, <3>2 DEF Read
    <2>4. CASE gen = f.gen /\ tail.pass.pos # 0 /\ gen # -1
      <3>1. f.ino = tail.mark.ino
        BY <2>4 DEF gen
      <3>2. tail.mark.gen = f.gen
        BY <1>3, <2>1, <2>4, <3>1
      <3>3. Read(tail.mark, tail.pass.pos)
        BY <1>1, <2>1 DEF Tailed
      <3> QED
        BY <1>4, <2>4, <3>2, <3>3 DEF Read
    <2> QED
      BY <1>5, <2>2, <2>3, <2>4
  <1>10. \A g \in DOMAIN logs : logs[g].gen = mark.gen => g = L
    BY <1>2, <1>4, <1>5, <1>8 DEF Numbered
  <1>11. gen <= resets
    BY <1>2, <1>5
  <1>12. /\ checkpoint.gen <= resets /\ checkpoint.offset <= written
         /\ tail.mark.offset <= written
         /\ ~skipped' => Read(checkpoint, checkpoint.offset)
    BY <1>1 DEF Tailed
  <1>13. Tailed'
    <2>1. /\ checkpoint'.gen <= resets' /\ checkpoint'.offset <= written'
          /\ tail'.mark.gen <= resets' /\ tail'.mark.offset <= written'
          /\ tail'.pass.pos <= written'
      BY <1>1, <1>3, <1>4, <1>6, <1>11, <1>12
    <2>2. ~skipped' => /\ Read(checkpoint, checkpoint.offset)'
                       /\ Read(tail.mark, tail.mark.offset)'
                       /\ Read(tail.mark, tail.pass.pos)'
      BY <1>1, <1>3, <1>4, <1>6, <1>9, <1>12 DEF Read
    <2>3. /\ tail'.pass.fd \in DOMAIN logs' /\ InPass'
          /\ \A g \in DOMAIN logs' : logs'[g].gen = tail'.mark.gen => g = tail'.pass.fd
      <3>1. L # 0
        BY <1>2, FileParts
      <3> QED
        BY <1>1, <1>2, <1>4, <1>6, <1>10, <3>1 DEF InPass
    <2> QED
      BY <2>1, <2>2, <2>3 DEF Tailed
  <1> QED
    BY <1>1, <1>4, <1>7, <1>13

(* Retaining a detection pushes at most the oldest one out, and counts it.   *)
LEMMA RetainDoes ==
  ASSUME Typed, NEW d \in Detections, Retain(d)
  PROVE  /\ retained' \in Seq(Detections) /\ Len(retained') <= MaxRetained
         /\ Ids(retained') \cup counted' = Ids(retained) \cup counted \cup {d.id}
  <1>1. retained \in Seq(Detections) /\ Len(retained) <= MaxRetained /\ Len(retained) \in Nat
    BY DEF Typed
  <1>2. MaxRetained \in Nat \ {0}
    BY FeedAssumption
  <1>3. CASE Len(retained) < MaxRetained
    <2>1. retained' = Append(retained, d) /\ counted' = counted
      BY <1>3 DEF Retain
    <2>2. retained' \in Seq(Detections) /\ Len(retained') = Len(retained) + 1
      BY <1>1, <2>1, AppendHolds
    <2>3. Ids(retained') = Ids(retained) \cup {d.id}
      BY <1>1, <2>1, IdsHold
    <2>4. Len(retained') <= MaxRetained
      BY <1>1, <1>2, <1>3, <2>2
    <2> QED
      BY <2>1, <2>2, <2>3, <2>4
  <1>4. CASE ~(Len(retained) < MaxRetained)
    <2>1. retained' = Append(Tail(retained), d) /\ counted' = counted \cup {Head(retained).id}
      BY <1>4 DEF Retain
    <2>2. Len(retained) = MaxRetained /\ retained # <<>>
      BY <1>1, <1>2, <1>4
    <2>3. /\ Tail(retained) \in Seq(Detections) /\ Len(Tail(retained)) = Len(retained) - 1
          /\ Ids(retained) = Ids(Tail(retained)) \cup {Head(retained).id}
      BY <1>1, <2>2, HeadHolds, IdsHold
    <2>4. PICK q \in Seq(Detections) : q = Tail(retained)
      BY <2>3
    <2>5. /\ retained' \in Seq(Detections) /\ Len(retained') = Len(q) + 1
          /\ Ids(retained') = Ids(q) \cup {d.id}
      <3>1. Append(q, d) \in Seq(Detections) /\ Len(Append(q, d)) = Len(q) + 1
        BY AppendHolds
      <3>2. Ids(Append(q, d)) = Ids(q) \cup {d.id}
        BY IdsHold
      <3> QED
        BY <2>1, <2>4, <3>1, <3>2
    <2>6. Len(retained') <= MaxRetained
      BY <1>1, <1>2, <2>2, <2>3, <2>4, <2>5
    <2> QED
      BY <2>1, <2>3, <2>4, <2>5, <2>6
  <1> QED
    BY <1>3, <1>4

(* What folding a line does to the feed.                                     *)
LEMMA FoldDoes ==
  ASSUME Typed, NEW line \in Lines, Fold(line), UNCHANGED <<pending, sweep, evidence, lost>>
  PROVE  /\ retained' \in Seq(Detections) /\ Len(retained') <= MaxRetained
         /\ folded' = folded \cup {line.id}
         /\ line.kind \in Detecting => Everywhere' = Everywhere \cup {line.id}
         /\ line.kind \notin Detecting => Everywhere' = Everywhere
  <1>1. folded' = folded \cup {line.id}
    BY DEF Fold
  <1>2. CASE line.kind \in Detecting
    <2> DEFINE d == [id |-> line.id, dst |-> line.dst]
    <2>1. d \in Detections /\ d.id = line.id
      BY DEF Lines, Detections
    <2>2. Retain(d)
      BY <1>2 DEF Fold
    <2> HIDE DEF d
    <2>3. /\ retained' \in Seq(Detections) /\ Len(retained') <= MaxRetained
          /\ Ids(retained') \cup counted' = Ids(retained) \cup counted \cup {line.id}
      BY <2>1, <2>2, RetainDoes
    <2>4. /\ Ids(sweep.dets)' = Ids(sweep.dets) /\ Ids(sweep.records)' = Ids(sweep.records)
          /\ (UNION {Ids(pending[v]) : v \in Values})' = UNION {Ids(pending[v]) : v \in Values}
          /\ lost' = lost /\ Attached' = Attached
      BY DEF Ids, Attached
    <2>5. Everywhere' = Everywhere \cup {line.id}
      BY <2>3, <2>4 DEF Everywhere, InMemory
    <2> QED
      BY <1>1, <1>2, <2>3, <2>5
  <1>3. CASE line.kind \notin Detecting
    <2>1. retained' = retained /\ counted' = counted
      BY <1>3 DEF Fold
    <2>2. Everywhere' = Everywhere
      BY <2>1 DEF Everywhere, InMemory, Ids, Attached
    <2>3. retained \in Seq(Detections) /\ Len(retained) <= MaxRetained
      BY DEF Typed
    <2> QED
      BY <1>1, <1>3, <2>1, <2>2, <2>3
  <1> QED
    BY <1>2, <1>3

LEMMA FoldLineKeeps ==
  ASSUME Typed, Numbered, Tailed, FoldLine
  PROVE  tail' \in [mark : Marks, pass : Passes] /\ Tailed'
  <1> DEFINE fd == tail.pass.fd
             pos == tail.pass.pos
             pass == [fd |-> fd, pos |-> pos + 1, left |-> tail.pass.left - 1]
  <1>1. InPass /\ ~AtEnd
    BY DEF FoldLine
  <1>2. /\ tail' = [tail EXCEPT !.pass = [fd |-> @.fd, pos |-> @.pos + 1, left |-> @.left - 1]]
        /\ folded' = folded \cup {NextLine.id}
        /\ UNCHANGED <<logs, written, resets, checkpoint, pending, sweep, known, evidence,
                       lost, skipped>>
    BY DEF FoldLine, Fold, writer, ledger
  <1>3. /\ fd \in DOMAIN logs /\ pos + 1 \in DOMAIN logs[fd].lines
        /\ pos + 1 <= Len(logs[fd].lines) /\ pos + 1 <= written /\ tail.pass.left # 0
        /\ NextLine \in Lines /\ NextLine.id \in 1..written
    BY <1>1, NextLineIs
  <1>4. tail' = [mark |-> tail.mark, pass |-> pass]
    BY <1>2, TailParts
  <1>5. pass \in Passes /\ pass.fd = fd /\ pass.pos = pos + 1
    <2>1. fd \in Nat /\ pos + 1 \in Nat /\ tail.pass.left - 1 \in Nat
      BY <1>3, TailParts
    <2> QED
      BY <2>1 DEF Passes
  <1>6. tail' \in [mark : Marks, pass : Passes] /\ tail'.mark = tail.mark /\ tail'.pass = pass
    BY <1>4, <1>5, TailParts
  <1> HIDE DEF pass
  <1>7. Tailed'
    <2>1. checkpoint'.gen <= resets' /\ checkpoint'.offset <= written'
          /\ tail'.mark.gen <= resets' /\ tail'.mark.offset <= written'
      BY <1>2, <1>6 DEF Tailed
    <2>2. \A f \in DOMAIN logs : logs[f].gen = tail.mark.gen => f = fd
      BY <1>1 DEF Tailed
    <2>3. ASSUME ~skipped
          PROVE  /\ Read(checkpoint, checkpoint.offset)'
                 /\ Read(tail.mark, tail.mark.offset)'
                 /\ Read(tail.mark, tail.pass.pos)'
      <3>1. /\ Read(checkpoint, checkpoint.offset) /\ Read(tail.mark, tail.mark.offset)
            /\ Read(tail.mark, pos)
        BY <1>1, <2>3, NoPassIs DEF Tailed
      <3>2. Read(checkpoint, checkpoint.offset)' /\ Read(tail.mark, tail.mark.offset)'
        BY <1>2, <1>6, <3>1 DEF Read
      <3>3. \A k \in 1..(pos + 1) : k \in 1..pos \/ k = pos + 1
        BY TailParts
      <3>4. logs[fd].lines[pos + 1].id \in folded'
        BY <1>2 DEF NextLine
      <3>5. ASSUME NEW f \in DOMAIN logs, logs[f].gen = tail.mark.gen
            PROVE  /\ pos + 1 <= Len(logs[f].lines)
                   /\ \A k \in 1..(pos + 1) : logs[f].lines[k].id \in folded'
        <4>1. f = fd
          BY <2>2, <3>5
        <4>2. \A k \in 1..pos : logs[f].lines[k].id \in folded
          BY <3>1, <3>5 DEF Read
        <4> QED
          BY <1>2, <1>3, <3>3, <3>4, <4>1, <4>2
      <3>6. Read(tail.mark, tail.pass.pos)'
        BY <1>2, <1>5, <1>6, <3>5 DEF Read
      <3> QED
        BY <3>2, <3>6
    <2>4. InPass' /\ tail'.pass.fd = fd
      BY <1>1, <1>5, <1>6 DEF InPass
    <2> QED
      BY <1>2, <1>3, <1>5, <1>6, <2>1, <2>2, <2>3, <2>4 DEF Tailed
  <1> QED
    BY <1>6, <1>7

LEMMA PassRaisesKeeps ==
  ASSUME Typed, Tailed, PassRaises
  PROVE  tail' \in [mark : Marks, pass : Passes] /\ Tailed'
  <1>1. /\ tail' = [tail EXCEPT !.pass = NoPass]
        /\ UNCHANGED <<logs, written, resets, checkpoint, skipped>>
        /\ folded \subseteq folded'
    BY DEF PassRaises, Fold, writer
  <1>2. tail' = [mark |-> tail.mark, pass |-> NoPass]
    BY <1>1, TailParts
  <1>3. tail' \in [mark : Marks, pass : Passes] /\ tail'.mark = tail.mark /\ tail'.pass = NoPass
    BY <1>2, TailParts, NoPassIs
  <1>4. ~skipped' => Read(checkpoint, checkpoint.offset)' /\ Read(tail.mark, tail.mark.offset)'
    <2>1. ~skipped => Read(checkpoint, checkpoint.offset) /\ Read(tail.mark, tail.mark.offset)
      BY DEF Tailed
    <2> QED
      BY <1>1, <1>3, <2>1 DEF Read
  <1>5. ~InPass'
    BY <1>3, NoPassIs DEF InPass
  <1> QED
    BY <1>1, <1>3, <1>4, <1>5 DEF Tailed

LEMMA EndPassKeeps ==
  ASSUME Typed, Tailed, EndPass
  PROVE  /\ tail' \in [mark : Marks, pass : Passes] /\ checkpoint' \in Marks
         /\ mishaps' \in 0..MaxMishaps /\ Tailed'
  <1> DEFINE mark == [tail.mark EXCEPT !.offset = EndOffset]
  <1>1. /\ InPass
        /\ tail' = [mark |-> mark, pass |-> NoPass]
        /\ checkpoint' = mark \/ checkpoint' = checkpoint
        /\ mishaps' = mishaps \/ Mishap
        /\ UNCHANGED <<logs, written, resets, folded, skipped>>
    BY DEF EndPass, writer
  <1>2. /\ mark \in Marks /\ mark.gen = tail.mark.gen /\ mark.offset = tail.pass.pos
    BY TailParts DEF Marks, EndOffset
  <1> HIDE DEF mark
  <1>3. tail' \in [mark : Marks, pass : Passes] /\ tail'.mark = mark /\ tail'.pass = NoPass
    BY <1>1, <1>2, NoPassIs
  <1>4. checkpoint' \in Marks
    BY <1>1, <1>2, TailParts
  <1>5. mishaps' \in 0..MaxMishaps
    BY <1>1, Bounds DEF Mishap
  <1>6. tail.pass.pos <= written /\ tail.mark.gen <= resets
    BY <1>1, NoPassIs DEF Tailed
  <1>7. ~skipped => Read(mark, mark.offset) /\ Read(checkpoint, checkpoint.offset)
    BY <1>1, <1>2, NoPassIs DEF Tailed, Read
  <1>8. checkpoint.gen <= resets /\ checkpoint.offset <= written
    BY DEF Tailed
  <1>9. Tailed'
    <2>1. /\ checkpoint'.gen <= resets' /\ checkpoint'.offset <= written'
          /\ tail'.mark.gen <= resets' /\ tail'.mark.offset <= written'
      BY <1>1, <1>2, <1>3, <1>6, <1>8
    <2>2. ~skipped' => Read(checkpoint, checkpoint.offset)' /\ Read(tail.mark, tail.mark.offset)'
      BY <1>1, <1>3, <1>7 DEF Read
    <2>3. ~InPass'
      BY <1>3, NoPassIs DEF InPass
    <2> QED
      BY <1>3, <2>1, <2>2, <2>3 DEF Tailed
  <1> QED
    BY <1>3, <1>4, <1>5, <1>9

-----------------------------------------------------------------------------
(* The steps of the reconcile thread.  Wherever they put a detection, none   *)
(* appears and none vanishes.                                                *)

LEMMA NoSweepIs ==
  /\ NoSweep.pc = "idle" /\ Ids(NoSweep.dets) = {} /\ Ids(NoSweep.records) = {}
  /\ \A landed : SweepSound(NoSweep, landed)
  <1>1. /\ NoSweep = [pc |-> "idle", map |-> <<>>, dets |-> <<>>, records |-> <<>>]
        /\ NoSweep.pc = "idle" /\ NoSweep.dets = <<>> /\ NoSweep.records = <<>>
        /\ NoSweep.map = <<>>
    BY DEF NoSweep
  <1>2. <<>> \in Seq(Detections)
    OBVIOUS
  <1> QED
    BY <1>1, <1>2, EmptyHolds DEF SweepSound

LEMMA DormantHolds ==
  ASSUME NEW q \in Seq(Parkings)
  PROVE  Dormant(q) \in Seq(Parkings) /\ Len(Dormant(q)) <= Len(q) /\ Ids(Dormant(q)) \subseteq Ids(q)
  BY KeptHolds, IdsHold DEF Dormant

LEMMA AboutHolds ==
  ASSUME NEW q \in Seq(Detections), NEW V
  PROVE  /\ About(q, V) \in Seq(Detections)
         /\ ToSet(About(q, V)) = {e \in ToSet(q) : e.dst \in V}
         /\ Ids(About(q, V)) = {e.id : e \in {d \in ToSet(q) : d.dst \in V}}
  <1> DEFINE at == {k \in DOMAIN q : q[k].dst \in V}
  <1>1. About(q, V) = Kept(q, at)
    BY DEF About
  <1>2. Kept(q, at) \in Seq(Detections) /\ ToSet(Kept(q, at)) = {q[k] : k \in DOMAIN q \cap at}
    BY KeptHolds
  <1>3. {q[k] : k \in DOMAIN q \cap at} = {e \in ToSet(q) : e.dst \in V}
    BY DEF ToSet
  <1> QED
    BY <1>1, <1>2, <1>3, IdsOf

LEMMA MapsAre ==
  ASSUME Typed, NEW map \in Maps
  PROVE  DOMAIN map \subseteq Values /\ \A v \in DOMAIN map : map[v] \in Indicators
  BY FeedAssumption DEF Typed, Maps

LEMMA StartSweepKeeps ==
  ASSUME Typed, Swept, StartSweep
  PROVE  /\ pending' \in [Values -> Seq(Parkings)]
         /\ \A v \in Values : Len(pending'[v]) <= PerTarget
         /\ Swept' /\ Everywhere' = Everywhere
  <1>1. /\ sweep.pc = "idle"
        /\ pending' = [v \in Values |-> Dormant(pending[v])]
        /\ counted' = counted \cup UNION {Ids(pending[v]) \ Ids(pending'[v]) : v \in Values}
        /\ UNCHANGED <<retained, evidence, lost>>
    BY DEF StartSweep, ledger
  <1>2. PICK map \in Maps :
            sweep' = [pc |-> "drain", map |-> map, dets |-> retained, records |-> <<>>]
    BY DEF StartSweep
  <1>3. sweep = NoSweep
    BY <1>1 DEF Swept, SweepSound
  <1>4. ASSUME NEW v \in Values
        PROVE  /\ pending'[v] \in Seq(Parkings) /\ Len(pending'[v]) <= PerTarget
               /\ Ids(pending'[v]) \subseteq Ids(pending[v])
    <2>1. pending[v] \in Seq(Parkings) /\ Len(pending[v]) <= PerTarget
      BY DEF Typed
    <2>2. PICK q \in Seq(Parkings) : q = pending[v]
      BY <2>1
    <2>3. pending'[v] = Dormant(q)
      BY <1>1, <2>2
    <2>4. Dormant(q) \in Seq(Parkings) /\ Len(Dormant(q)) <= Len(q) /\ Ids(Dormant(q)) \subseteq Ids(q)
      BY DormantHolds
    <2>5. Len(Dormant(q)) \in Nat /\ Len(q) \in Nat /\ PerTarget \in Nat
      BY <2>4, FeedAssumption
    <2> QED
      BY <2>1, <2>2, <2>3, <2>4, <2>5
  <1>5. pending' \in [Values -> Seq(Parkings)]
    <2>1. pending' = [v \in Values |-> pending'[v]]
      BY <1>1
    <2> QED
      BY <1>4, <2>1
  <1>6. Swept'
    <2>1. DOMAIN map \subseteq Values /\ \A v \in DOMAIN map : map[v] \in Indicators
      BY MapsAre
    <2>2. retained \in Seq(Detections) /\ <<>> \in Seq(Detections)
      BY DEF Typed
    <2>3. /\ sweep'.pc = "drain" /\ sweep'.map = map /\ sweep'.dets = retained
          /\ sweep'.records = <<>>
      BY <1>2
    <2> QED
      BY <1>2, <2>1, <2>2, <2>3 DEF Swept, SweepSound
  <1>7. Everywhere' = Everywhere
    <2> DEFINE P == UNION {Ids(pending[v]) : v \in Values}
               Q == UNION {Ids(pending'[v]) : v \in Values}
               D == UNION {Ids(pending[v]) \ Ids(pending'[v]) : v \in Values}
    <2>1. P = Q \cup D
      BY <1>4
    <2>2. Ids(sweep.dets) = {} /\ Ids(sweep.records) = {}
      BY <1>3, NoSweepIs
    <2>3. Ids(sweep'.dets) = Ids(retained) /\ Ids(sweep'.records) = {}
      BY <1>2, EmptyHolds
    <2>4. /\ Everywhere = Ids(retained) \cup P \cup counted \cup lost \cup Attached
      BY <2>2 DEF Everywhere, InMemory
    <2>5. InMemory' = Ids(retained') \cup Ids(sweep'.dets) \cup Ids(sweep'.records) \cup Q
      BY DEF InMemory, Ids
    <2>6. Attached' = Attached
      BY <1>1 DEF Attached
    <2>7. counted' = counted \cup D
      BY <1>1
    <2> HIDE DEF P, Q, D
    <2>8. Ids(retained') = Ids(retained)
      BY <1>1
    <2> QED
      BY <1>1, <2>1, <2>3, <2>4, <2>5, <2>6, <2>7, <2>8 DEF Everywhere
  <1> QED
    BY <1>4, <1>5, <1>6, <1>7

LEMMA DrainKeeps ==
  ASSUME Typed, Swept, Drain
  PROVE  /\ retained' \in Seq(Detections) /\ Len(retained') <= MaxRetained
         /\ pending' \in [Values -> Seq(Parkings)]
         /\ \A v \in Values : Len(pending'[v]) <= PerTarget
         /\ Swept' /\ Everywhere' = Everywhere
  <1> DEFINE map == sweep.map
             dets == sweep.dets
             D == DOMAIN map
             fresh == About(dets, D)
             woken == Woken(map)
             queue(v) == IF v \in D THEN <<>> ELSE pending[v]
             about(v) == About(dets, {v} \ D)
             park(v) == Park(queue(v), about(v))
             records == fresh \o woken
  <1>1. /\ sweep.pc = "drain"
        /\ retained' = <<>>
        /\ lost' = lost \cup (Ids(retained) \ Ids(dets))
        /\ pending' = [v \in Values |-> park(v).queue]
        /\ counted' = counted \cup UNION {park(v).dropped : v \in Values}
        /\ sweep' = IF records = <<>> THEN NoSweep
                    ELSE [pc |-> "persist", map |-> map, dets |-> <<>>, records |-> records]
        /\ UNCHANGED evidence
    <2>1. \A v \in Values : [w \in Values |->
            Park(IF w \in Wakes(map) THEN <<>> ELSE pending[w],
                 About(sweep.dets, {w} \ DOMAIN map))][v] = park(v)
      BY DEF Wakes
    <2> QED
      BY <2>1 DEF Drain, Woken, Rewoken, ledger
  <1>2. /\ dets \in Seq(Detections) /\ sweep.records = <<>> /\ D \subseteq Values
        /\ \A v \in D : map[v] \in Indicators
    BY <1>1 DEF Swept, SweepSound
  <1>3. pending \in [Values -> Seq(Parkings)]
    BY DEF Typed
  <1> HIDE DEF map, dets
  <1>4. /\ fresh \in Seq(Detections) /\ \A e \in ToSet(fresh) : e.dst \in D
        /\ Ids(fresh) = {e.id : e \in {d \in ToSet(dets) : d.dst \in D}}
    BY <1>2, AboutHolds
  <1>5. /\ woken \in Seq(Detections) /\ \A e \in ToSet(woken) : e.dst \in D
        /\ Ids(woken) = UNION {Ids(pending[v]) : v \in D}
    BY <1>2, <1>3, WokenHolds
  <1>6. ASSUME NEW v \in Values
        PROVE  /\ park(v).queue \in Seq(Parkings) /\ Len(park(v).queue) <= PerTarget
               /\ Ids(queue(v)) \cup Ids(about(v)) = Ids(park(v).queue) \cup park(v).dropped
               /\ Ids(about(v)) = {e.id : e \in {d \in ToSet(dets) : d.dst \in {v} \ D}}
    <2>1. queue(v) \in Seq(Parkings)
      BY <1>3
    <2>2. /\ about(v) \in Seq(Detections)
          /\ Ids(about(v)) = {e.id : e \in {d \in ToSet(dets) : d.dst \in {v} \ D}}
      BY <1>2, AboutHolds
    <2> HIDE DEF queue, about
    <2> QED
      BY <2>1, <2>2, ParkHolds
  <1> HIDE DEF fresh, woken, park
  <1>7. /\ records \in Seq(Detections) /\ \A e \in ToSet(records) : e.dst \in D
        /\ Ids(records) = Ids(fresh) \cup Ids(woken)
    <2>1. /\ fresh \o woken \in Seq(Detections)
          /\ ToSet(fresh \o woken) = ToSet(fresh) \cup ToSet(woken)
      BY <1>4, <1>5, ConcatHolds
    <2>2. Ids(fresh \o woken) = Ids(fresh) \cup Ids(woken)
      BY <1>4, <1>5, IdsHold
    <2> QED
      BY <1>4, <1>5, <2>1, <2>2
  <1> HIDE DEF records
  <1>8. pending' \in [Values -> Seq(Parkings)] /\ \A v \in Values : pending'[v] = park(v).queue
    BY <1>1, <1>6
  <1>9. /\ Swept'
        /\ Ids(sweep'.dets) = {} /\ Ids(sweep'.records) = Ids(records)
    <2>1. CASE records = <<>>
      BY <1>1, <2>1, NoSweepIs, EmptyHolds DEF Swept
    <2>2. CASE records # <<>>
      <3>1. sweep' = [pc |-> "persist", map |-> map, dets |-> <<>>, records |-> records]
        BY <1>1, <2>2
      <3>2. /\ sweep'.pc = "persist" /\ sweep'.map = map /\ sweep'.dets = <<>>
            /\ sweep'.records = records
        BY <3>1
      <3>3. <<>> \in Seq(Detections)
        OBVIOUS
      <3>4. Swept'
        BY <1>2, <1>7, <2>2, <3>1, <3>2, <3>3 DEF Swept, SweepSound
      <3> QED
        BY <3>2, <3>4, EmptyHolds
    <2> QED
      BY <2>1, <2>2
  <1> DEFINE P == UNION {Ids(pending[v]) : v \in Values}
             Q == UNION {Ids(pending'[v]) : v \in Values}
             dropped == UNION {park(v).dropped : v \in Values}
  <1>10. Ids(dets) = Ids(fresh) \cup UNION {Ids(about(v)) : v \in Values}
    <2>1. Ids(dets) = {e.id : e \in ToSet(dets)}
      BY IdsOf
    <2>2. \A e \in ToSet(dets) : e.dst \in Values
      <3>1. \A k \in DOMAIN dets : dets[k] \in Detections
        BY <1>2
      <3>2. \A d \in Detections : d.dst \in Values
        BY DEF Detections
      <3> QED
        BY <3>1, <3>2 DEF ToSet
    <2> HIDE DEF about
    <2>3. \A e \in ToSet(dets) : e.dst \in D => e.id \in Ids(fresh)
      BY <1>4
    <2>4. \A e \in ToSet(dets) : e.dst \notin D => e.id \in Ids(about(e.dst))
      BY <1>6, <2>2
    <2>5. \A v \in Values : Ids(about(v)) \subseteq Ids(dets)
      BY <1>6, <2>1
    <2>6. Ids(fresh) \subseteq Ids(dets)
      BY <1>4, <2>1
    <2> QED
      BY <2>1, <2>2, <2>3, <2>4, <2>5, <2>6
  <1>11. P = Ids(woken) \cup UNION {Ids(queue(v)) : v \in Values}
    <2>1. \A v \in Values : Ids(queue(v)) = IF v \in D THEN {} ELSE Ids(pending[v])
      BY EmptyHolds
    <2> HIDE DEF queue
    <2> QED
      BY <1>2, <1>5, <2>1
  <1>12. Q \cup dropped = (UNION {Ids(queue(v)) : v \in Values})
                          \cup (UNION {Ids(about(v)) : v \in Values})
    <2>1. \A v \in Values : Ids(pending'[v]) \cup park(v).dropped = Ids(queue(v)) \cup Ids(about(v))
      BY <1>6, <1>8
    <2> HIDE DEF queue, about, park
    <2>2. ASSUME NEW x
          PROVE  x \in Q \cup dropped <=>
                     \E v \in Values : x \in Ids(pending'[v]) \cup park(v).dropped
      BY Zenon
    <2>3. ASSUME NEW x
          PROVE  (\E v \in Values : x \in Ids(queue(v)) \cup Ids(about(v))) <=>
                     x \in (UNION {Ids(queue(v)) : v \in Values})
                           \cup (UNION {Ids(about(v)) : v \in Values})
      BY Zenon
    <2> HIDE DEF Q, dropped
    <2> QED
      BY <2>1, <2>2, <2>3, Zenon
  <1>13. Everywhere = Ids(retained) \cup Ids(dets) \cup P \cup counted \cup lost \cup Attached
    <2>1. Ids(sweep.records) = {}
      BY <1>2, EmptyHolds
    <2> QED
      BY <2>1 DEF Everywhere, InMemory, dets
  <1>14. Everywhere' = Ids(records) \cup Q \cup (counted \cup dropped)
                       \cup (lost \cup (Ids(retained) \ Ids(dets))) \cup Attached
    <2>1. InMemory' = Ids(retained') \cup Ids(sweep'.dets) \cup Ids(sweep'.records) \cup Q
      BY DEF InMemory, Ids
    <2>2. Attached' = Attached
      BY <1>1 DEF Attached
    <2>3. Ids(retained') = {}
      BY <1>1, EmptyHolds
    <2> QED
      BY <1>1, <1>9, <2>1, <2>2, <2>3 DEF Everywhere
  <1>15. Everywhere' = Everywhere
    <2> DEFINE queued == UNION {Ids(queue(v)) : v \in Values}
               parked == UNION {Ids(about(v)) : v \in Values}
    <2> HIDE DEF queue, about
    <2>1. Ids(dets) = Ids(fresh) \cup parked /\ P = Ids(woken) \cup queued
      BY <1>10, <1>11, Zenon
    <2>2. Q \cup dropped = queued \cup parked
      BY <1>12, Zenon
    <2> HIDE DEF P, Q, dropped, queued, parked
    <2> QED
      BY <1>7, <1>13, <1>14, <2>1, <2>2
  <1>16. retained' \in Seq(Detections) /\ Len(retained') <= MaxRetained
    BY <1>1, FeedAssumption
  <1>17. \A v \in Values : Len(pending'[v]) <= PerTarget
    BY <1>6, <1>8
  <1> QED
    BY <1>8, <1>9, <1>15, <1>16, <1>17

(* A record is done with: the next one's turn, or the end of the sweep.      *)
LEMMA RestIs ==
  ASSUME Swept, sweep.pc \in {"persist", "decide"}
  PROVE  /\ \A landed : SweepSound(Rest(sweep), landed)
         /\ Head(sweep.records) \in Detections
         /\ Head(sweep.records).dst \in DOMAIN sweep.map
         /\ sweep.map[Head(sweep.records).dst] \in Indicators
         /\ Ids(sweep.dets) = {} /\ Ids(Rest(sweep).dets) = {}
         /\ Ids(sweep.records) = Ids(Rest(sweep).records) \cup {Head(sweep.records).id}
         /\ Ids(sweep.records) = Ids(Tail(sweep.records)) \cup {Head(sweep.records).id}
  <1>1. /\ sweep.records \in Seq(Detections) /\ sweep.records # <<>> /\ sweep.dets = <<>>
        /\ DOMAIN sweep.map \subseteq Values
        /\ \A v \in DOMAIN sweep.map : sweep.map[v] \in Indicators
        /\ \A e \in ToSet(sweep.records) : e.dst \in DOMAIN sweep.map
    BY DEF Swept, SweepSound
  <1>2. PICK q \in Seq(Detections) : q = sweep.records
    BY <1>1
  <1>3. /\ q # <<>> /\ Head(q) \in Detections /\ Tail(q) \in Seq(Detections)
        /\ Len(Tail(q)) = Len(q) - 1
        /\ ToSet(q) = ToSet(Tail(q)) \cup {Head(q)}
    BY <1>1, <1>2, HeadHolds
  <1>4. /\ Ids(q) = Ids(Tail(q)) \cup {Head(q).id}
        /\ Len(q) = 1 => Ids(q) = {Head(q).id}
    BY <1>1, <1>2, IdsHold
  <1>5. CASE Len(q) = 1
    <2>1. Rest(sweep) = NoSweep
      BY <1>2, <1>5 DEF Rest
    <2> QED
      BY <1>1, <1>2, <1>3, <1>4, <1>5, <2>1, NoSweepIs, EmptyHolds
  <1>6. CASE Len(q) # 1
    <2>1. PICK s : s = [pc |-> "persist", map |-> sweep.map, dets |-> sweep.dets,
                        records |-> Tail(sweep.records)]
      OBVIOUS
    <2>2. Rest(sweep) = s
      BY <1>2, <1>6, <2>1 DEF Rest
    <2>3. /\ s.pc = "persist" /\ s.map = sweep.map /\ s.dets = <<>> /\ s.records = Tail(q)
          /\ s = [pc |-> s.pc, map |-> s.map, dets |-> s.dets, records |-> s.records]
      BY <1>1, <1>2, <2>1
    <2>4. Tail(q) # <<>>
      <3>1. Len(q) \in Nat \ {0}
        BY <1>3
      <3>2. Len(Tail(q)) # 0
        BY <1>3, <1>6, <3>1
      <3> QED
        BY <3>2, Len(<<>>) = 0, Zenon
    <2>5. \A landed : SweepSound(s, landed)
      <3>1. <<>> \in Seq(Detections)
        OBVIOUS
      <3>2. \A e \in ToSet(s.records) : e.dst \in DOMAIN s.map
        BY <1>1, <1>2, <1>3, <2>3
      <3> QED
        BY <1>1, <1>3, <2>3, <2>4, <3>1, <3>2 DEF SweepSound
    <2> QED
      BY <1>1, <1>2, <1>3, <1>4, <2>2, <2>3, <2>5, EmptyHolds
  <1> QED
    BY <1>5, <1>6

LEMMA PersistKeeps ==
  ASSUME Typed, Swept, Persist
  PROVE  /\ evidence' \in SUBSET (Indicators \X Nat) /\ mishaps' \in 0..MaxMishaps
         /\ Swept' /\ Everywhere' = Everywhere
  <1> DEFINE rec == Head(sweep.records)
             row == <<sweep.map[rec.dst], rec.id>>
  <1>1. /\ sweep.pc = "persist"
        /\ UNCHANGED <<retained, pending, counted>>
        /\ \/ /\ evidence' = evidence \cup {row}
              /\ sweep' = IF row \in evidence THEN Rest(sweep) ELSE [sweep EXCEPT !.pc = "decide"]
              /\ UNCHANGED <<lost, mishaps>>
           \/ /\ Mishap
              /\ lost' = lost \cup {rec.id}
              /\ sweep' = Rest(sweep)
              /\ UNCHANGED evidence
    BY DEF Persist, feed
  <1>2. /\ \A landed : SweepSound(Rest(sweep), landed)
        /\ rec \in Detections /\ sweep.map[rec.dst] \in Indicators
        /\ Ids(sweep.dets) = {} /\ Ids(Rest(sweep).dets) = {}
        /\ Ids(sweep.records) = Ids(Rest(sweep).records) \cup {rec.id}
    BY <1>1, RestIs
  <1>3. row \in Indicators \X Nat
    BY <1>2 DEF Detections
  <1>4. evidence \in SUBSET (Indicators \X Nat) /\ mishaps \in 0..MaxMishaps
    BY Bounds DEF Typed
  <1> DEFINE P == UNION {Ids(pending[v]) : v \in Values}
  <1>5. /\ Everywhere = Ids(retained) \cup Ids(sweep.dets) \cup Ids(sweep.records) \cup P
                        \cup counted \cup lost \cup Attached
        /\ Everywhere' = Ids(retained) \cup Ids(sweep'.dets) \cup Ids(sweep'.records) \cup P
                        \cup counted \cup lost' \cup Attached'
    BY <1>1 DEF Everywhere, InMemory, Ids
  <1>6. row[2] = rec.id
    OBVIOUS
  <1> HIDE DEF P, rec, row
  <1>7. CASE evidence' = evidence \cup {row} /\ lost' = lost /\ mishaps' = mishaps
             /\ sweep' = IF row \in evidence THEN Rest(sweep) ELSE [sweep EXCEPT !.pc = "decide"]
    <2>1. Attached' = Attached \cup {rec.id}
      BY <1>6, <1>7 DEF Attached
    <2>2. CASE row \in evidence
      <3>1. sweep' = Rest(sweep)
        BY <1>7, <2>2
      <3>2. SweepSound(sweep', Attached')
        BY <1>2, <3>1
      <3>3. Ids(sweep'.dets) = Ids(Rest(sweep).dets) /\ Ids(sweep'.records) = Ids(Rest(sweep).records)
        BY <3>1
      <3>4. Everywhere' = Everywhere
        BY <1>2, <1>5, <1>7, <2>1, <3>3
      <3> QED
        BY <1>3, <1>4, <1>7, <3>2, <3>4 DEF Swept
    <2>3. CASE row \notin evidence
      <3>1. /\ sweep = [pc |-> sweep.pc, map |-> sweep.map, dets |-> sweep.dets,
                        records |-> sweep.records]
            /\ SweepSound(sweep, Attached)
        BY DEF Swept, SweepSound
      <3>2. sweep' = [pc |-> "decide", map |-> sweep.map, dets |-> sweep.dets,
                      records |-> sweep.records]
        BY <1>7, <2>3, <3>1
      <3>3. /\ sweep'.pc = "decide" /\ sweep'.map = sweep.map /\ sweep'.dets = sweep.dets
            /\ sweep'.records = sweep.records
        BY <3>2
      <3>4. rec.id \in Attached'
        BY <2>1
      <3>5. SweepSound(sweep', Attached')
        BY <1>1, <3>1, <3>2, <3>3, <3>4 DEF SweepSound, rec
      <3>6. Everywhere' = Everywhere
        BY <1>2, <1>5, <1>7, <2>1, <3>3
      <3> QED
        BY <1>3, <1>4, <1>7, <3>5, <3>6 DEF Swept
    <2> QED
      BY <2>2, <2>3
  <1>8. CASE Mishap /\ lost' = lost \cup {rec.id} /\ sweep' = Rest(sweep) /\ evidence' = evidence
    <2>1. Attached' = Attached
      BY <1>8 DEF Attached
    <2>2. SweepSound(sweep', Attached')
      BY <1>2, <1>8
    <2>3. Ids(sweep'.dets) = Ids(Rest(sweep).dets) /\ Ids(sweep'.records) = Ids(Rest(sweep).records)
      BY <1>8
    <2>4. Everywhere' = Everywhere
      BY <1>2, <1>5, <1>8, <2>1, <2>3
    <2>5. mishaps' \in 0..MaxMishaps
      BY <1>8, Bounds DEF Mishap
    <2> QED
      BY <1>4, <1>8, <2>2, <2>4, <2>5 DEF Swept
  <1> QED
    BY <1>1, <1>7, <1>8 DEF rec, row

LEMMA DecideKeeps ==
  ASSUME Typed, Swept, Decide
  PROVE  mishaps' \in 0..MaxMishaps /\ Swept' /\ Everywhere' = Everywhere
  <1>1. /\ sweep.pc = "decide"
        /\ UNCHANGED <<retained, pending, counted, evidence>>
        /\ \/ sweep' = Rest(sweep) /\ lost' = lost /\ mishaps' = mishaps
           \/ /\ Mishap
              /\ lost' = lost \cup Ids(Tail(sweep.records))
              /\ sweep' = NoSweep
    BY DEF Decide, feed, ledger
  <1>2. /\ \A landed : SweepSound(Rest(sweep), landed)
        /\ Ids(sweep.dets) = {} /\ Ids(Rest(sweep).dets) = {}
        /\ Ids(sweep.records) = Ids(Rest(sweep).records) \cup {Head(sweep.records).id}
        /\ Ids(sweep.records) = Ids(Tail(sweep.records)) \cup {Head(sweep.records).id}
    BY <1>1, RestIs
  <1>3. Head(sweep.records).id \in Attached
    BY <1>1 DEF Swept, SweepSound
  <1> DEFINE P == UNION {Ids(pending[v]) : v \in Values}
  <1>4. /\ Everywhere = Ids(retained) \cup Ids(sweep.dets) \cup Ids(sweep.records) \cup P
                        \cup counted \cup lost \cup Attached
        /\ Everywhere' = Ids(retained) \cup Ids(sweep'.dets) \cup Ids(sweep'.records) \cup P
                        \cup counted \cup lost' \cup Attached
    BY <1>1 DEF Everywhere, InMemory, Ids, Attached
  <1> HIDE DEF P
  <1>5. CASE sweep' = Rest(sweep) /\ lost' = lost /\ mishaps' = mishaps
    <2>1. Swept'
      BY <1>2, <1>5 DEF Swept
    <2>2. Ids(sweep'.dets) = Ids(Rest(sweep).dets) /\ Ids(sweep'.records) = Ids(Rest(sweep).records)
      BY <1>5
    <2>3. Everywhere' = Everywhere
      BY <1>2, <1>3, <1>4, <1>5, <2>2
    <2> QED
      BY <1>5, <2>1, <2>3, Bounds
  <1>6. CASE Mishap /\ lost' = lost \cup Ids(Tail(sweep.records)) /\ sweep' = NoSweep
    <2>1. Swept'
      BY <1>6, NoSweepIs DEF Swept
    <2>2. Ids(sweep'.dets) = {} /\ Ids(sweep'.records) = {}
      BY <1>6, NoSweepIs
    <2>3. Everywhere' = Everywhere
      BY <1>2, <1>3, <1>4, <1>6, <2>2
    <2>4. mishaps' \in 0..MaxMishaps
      BY <1>6, Bounds DEF Mishap
    <2> QED
      BY <2>1, <2>3, <2>4
  <1> QED
    BY <1>1, <1>5, <1>6

LEMMA AgeKeeps ==
  ASSUME Typed, Swept, Age
  PROVE  /\ pending' \in [Values -> Seq(Parkings)]
         /\ \A v \in Values : Len(pending'[v]) <= PerTarget
         /\ Swept' /\ Everywhere' = Everywhere
  <1> DEFINE older(p) == [p EXCEPT !.age = IF @ <= Ttl THEN @ + 1 ELSE @]
  <1>1. /\ pending' = [v \in Values |-> [k \in DOMAIN pending[v] |-> older(pending[v][k])]]
        /\ UNCHANGED <<retained, counted, sweep, evidence, lost>>
    BY DEF Age, ledger
  <1>2. \A p \in Parkings : older(p) \in Parkings /\ older(p).id = p.id
    BY FeedAssumption DEF Parkings
  <1> HIDE DEF older
  <1>3. ASSUME NEW v \in Values
        PROVE  /\ pending'[v] \in Seq(Parkings) /\ Len(pending'[v]) <= PerTarget
               /\ Ids(pending'[v]) = Ids(pending[v])
    <2>1. pending[v] \in Seq(Parkings) /\ Len(pending[v]) <= PerTarget
      BY DEF Typed
    <2>2. PICK q \in Seq(Parkings) : q = pending[v]
      BY <2>1
    <2>3. pending'[v] = [k \in DOMAIN q |-> older(q[k])]
      BY <1>1, <2>2
    <2>4. Len(q) \in Nat /\ DOMAIN q = 1..Len(q) /\ \A k \in 1..Len(q) : q[k] \in Parkings
      OBVIOUS
    <2>5. pending'[v] \in [1..Len(q) -> Parkings]
      BY <1>2, <2>3, <2>4
    <2>6. pending'[v] \in Seq(Parkings)
      BY <2>4, <2>5, SeqDef
    <2>7. DOMAIN pending'[v] = 1..Len(q)
      BY <2>3, <2>4
    <2>8. Len(pending'[v]) = Len(q)
      BY <2>4, <2>6, <2>7
    <2>9. Ids(pending'[v]) = Ids(q)
      <3>1. \A k \in 1..Len(q) : pending'[v][k].id = q[k].id
        BY <1>2, <2>3, <2>4
      <3> QED
        BY <2>4, <2>7, <3>1 DEF Ids
    <2> QED
      BY <2>1, <2>2, <2>6, <2>8, <2>9
  <1>4. pending' \in [Values -> Seq(Parkings)]
    <2>1. pending' = [v \in Values |-> pending'[v]]
      BY <1>1
    <2> QED
      BY <1>3, <2>1
  <1>5. Swept'
    BY <1>1 DEF Swept, SweepSound, Attached
  <1>6. Everywhere' = Everywhere
    <2>1. (UNION {Ids(pending[v]) : v \in Values})' = UNION {Ids(pending[v]) : v \in Values}
      <3>1. (UNION {Ids(pending[v]) : v \in Values})' = UNION {Ids(pending'[v]) : v \in Values}
        BY DEF Ids
      <3>2. {Ids(pending'[v]) : v \in Values} = {Ids(pending[v]) : v \in Values}
        BY <1>3
      <3> QED
        BY <3>1, <3>2
    <2>2. /\ Ids(retained)' = Ids(retained) /\ Ids(sweep.dets)' = Ids(sweep.dets)
          /\ Ids(sweep.records)' = Ids(sweep.records)
          /\ counted' = counted /\ lost' = lost /\ Attached' = Attached
      BY <1>1 DEF Ids, Attached
    <2> QED
      BY <2>1, <2>2 DEF Everywhere, InMemory
  <1> QED
    BY <1>3, <1>4, <1>5, <1>6

LEMMA CrashKeeps ==
  ASSUME Typed, Swept, Tailed, Crash
  PROVE  /\ retained' \in Seq(Detections) /\ Len(retained') <= MaxRetained
         /\ pending' \in [Values -> Seq(Parkings)]
         /\ \A v \in Values : Len(pending'[v]) <= PerTarget
         /\ tail' \in [mark : Marks, pass : Passes] /\ mishaps' \in 0..MaxMishaps
         /\ Swept' /\ Tailed' /\ Everywhere' = Everywhere
  <1>1. /\ Mishap /\ lost' = lost \cup InMemory /\ retained' = <<>>
        /\ pending' = [v \in Values |-> <<>>]
        /\ sweep' = NoSweep
        /\ tail' = [mark |-> checkpoint, pass |-> NoPass]
        /\ UNCHANGED <<logs, written, resets, checkpoint, counted, evidence, folded, skipped>>
    BY DEF Crash, writer, ledger
  <1>2. mishaps' \in 0..MaxMishaps
    BY <1>1, Bounds DEF Mishap
  <1>3. /\ retained' \in Seq(Detections) /\ Len(retained') <= MaxRetained
        /\ pending' \in [Values -> Seq(Parkings)]
        /\ \A v \in Values : pending'[v] = <<>> /\ Len(pending'[v]) <= PerTarget
    BY <1>1, FeedAssumption
  <1>4. Swept'
    BY <1>1, NoSweepIs DEF Swept
  <1>5. tail' \in [mark : Marks, pass : Passes] /\ tail'.mark = checkpoint /\ tail'.pass = NoPass
    BY <1>1, TailParts, NoPassIs
  <1>6. Tailed'
    BY <1>1, <1>5, NoPassIs DEF Tailed, Read, InPass
  <1>7. Everywhere' = Everywhere
    <2>1. Ids(retained)' = {} /\ Ids(sweep.dets)' = {} /\ Ids(sweep.records)' = {}
      BY <1>1, NoSweepIs, EmptyHolds
    <2>2. (UNION {Ids(pending[v]) : v \in Values})' = {}
      BY <1>3 DEF Ids
    <2>3. counted' = counted /\ Attached' = Attached
      BY <1>1 DEF Attached
    <2> QED
      BY <1>1, <2>1, <2>2, <2>3 DEF Everywhere, InMemory
  <1> QED
    BY <1>2, <1>3, <1>4, <1>5, <1>6, <1>7

-----------------------------------------------------------------------------
(* The invariant holds at first and is kept by every step.                   *)
FeedInv == Typed /\ Numbered /\ Swept /\ Founded /\ Tailed /\ DetectionsConserved

LEMMA ConservedIs == DetectionsConserved <=> Events(folded) \subseteq Everywhere
  BY DEF DetectionsConserved, Everywhere, Attached

LEMMA InitHolds ==
  ASSUME Init
  PROVE  FeedInv
  <1> DEFINE file == [ino |-> 1, gen |-> 0, lines |-> <<>>, torn |-> FALSE]
             mark == [ino |-> 0, offset |-> 0, gen |-> -1]
  <1>1. /\ logs = <<file>> /\ written = 0 /\ tail = [mark |-> mark, pass |-> NoPass]
        /\ checkpoint = tail.mark /\ retained = <<>> /\ pending = [v \in Values |-> <<>>]
        /\ sweep = NoSweep /\ known = Ingested /\ evidence = {}
        /\ counted = {} /\ folded = {} /\ lost = {} /\ skipped = FALSE
        /\ resets = 0 /\ mishaps = 0
    BY DEF Init
  <1>2. file \in Files /\ file.lines = <<>> /\ file.gen = 0
    <2>1. <<>> \in Seq(Lines)
      OBVIOUS
    <2> QED
      BY <2>1 DEF Files
  <1>3. mark \in Marks /\ mark.offset = 0 /\ mark.gen = -1
    BY DEF Marks
  <1> HIDE DEF file, mark
  <1>4. /\ logs \in Seq(Files) /\ logs # <<>> /\ DOMAIN logs = {1} /\ logs[1] = file
    BY <1>1, <1>2
  <1>5. /\ tail \in [mark : Marks, pass : Passes] /\ tail.mark = mark /\ tail.pass = NoPass
        /\ checkpoint = mark
    BY <1>1, <1>3, NoPassIs
  <1>6. Typed
    <2>1. retained \in Seq(Detections) /\ Len(retained) <= MaxRetained
      BY <1>1, FeedAssumption
    <2>2. /\ pending \in [Values -> Seq(Parkings)]
          /\ \A v \in Values : Len(pending[v]) <= PerTarget
      BY <1>1, FeedAssumption
    <2>3. /\ known \in SUBSET Indicators /\ evidence \in SUBSET (Indicators \X Nat)
          /\ skipped \in BOOLEAN /\ written \in Nat
      BY <1>1, FeedAssumption
    <2>4. resets \in 0..MaxResets /\ mishaps \in 0..MaxMishaps
      BY <1>1, FeedAssumption
    <2> QED
      BY <1>3, <1>4, <1>5, <2>1, <2>2, <2>3, <2>4 DEF Typed
  <1>7. Numbered
    BY <1>1, <1>2, <1>4 DEF Numbered
  <1>8. Swept
    BY <1>1, NoSweepIs DEF Swept
  <1>9. Everywhere = {}
    <2>1. Ids(retained) = {} /\ Ids(sweep.dets) = {} /\ Ids(sweep.records) = {}
      BY <1>1, NoSweepIs, EmptyHolds
    <2>2. \A v \in Values : Ids(pending[v]) = {}
      BY <1>1, EmptyHolds
    <2>3. Attached = {}
      BY <1>1 DEF Attached
    <2> QED
      BY <1>1, <2>1, <2>2, <2>3 DEF Everywhere, InMemory
  <1>10. Founded
    BY <1>1, <1>9 DEF Founded
  <1>11. Tailed
    <2>1. ~InPass
      BY <1>5, NoPassIs DEF InPass
    <2>2. \A f \in DOMAIN logs : logs[f].gen # mark.gen
      BY <1>2, <1>3, <1>4
    <2> QED
      BY <1>1, <1>3, <1>5, <2>1, <2>2 DEF Tailed, Read
  <1>12. DetectionsConserved
    BY <1>1, ConservedIs DEF Events
  <1> QED
    BY <1>6, <1>7, <1>8, <1>10, <1>11, <1>12 DEF FeedInv

(* The writer's steps.                                                       *)
LEMMA WriterStep ==
  ASSUME FeedInv, NEW line, Written(line),
         UNCHANGED <<tail, checkpoint, feed, sweep, ledger, folded, lost, skipped, mishaps>>
  PROVE  FeedInv'
  <1>1. UNCHANGED <<tail, checkpoint, retained, pending, counted, sweep, known, evidence,
                    folded, lost, skipped, mishaps>>
    BY DEF feed, ledger
  <1>2. /\ logs' \in Seq(Files) /\ logs' # <<>> /\ written' \in {written, written + 1}
        /\ resets' \in {resets, resets + 1} /\ resets' <= MaxResets
    BY DEF Written
  <1>3. Typed /\ Numbered /\ Swept /\ Founded /\ Tailed /\ DetectionsConserved
    BY DEF FeedInv
  <1>4. written \in Nat /\ resets \in Nat /\ MaxResets \in Nat
    BY <1>3, Bounds
  <1>5. Typed'
    <2>1. written' \in Nat /\ resets' \in 0..MaxResets
      BY <1>2, <1>4
    <2> QED
      BY <1>1, <1>2, <1>3, <2>1 DEF Typed
  <1>6. Numbered'
    BY <1>3, NumberedStep
  <1>7. Swept'
    BY <1>1, <1>3 DEF Swept, SweepSound, Attached
  <1>8. Everywhere' = Everywhere
    BY <1>1 DEF Everywhere, InMemory, Ids, Attached
  <1>9. Founded'
    <2>1. folded \subseteq 1..written /\ Everywhere \subseteq folded
      BY <1>3 DEF Founded
    <2>2. 1..written \subseteq 1..written'
      BY <1>2, <1>4
    <2> QED
      BY <1>1, <1>8, <2>1, <2>2 DEF Founded
  <1>10. Tailed'
    BY <1>1, <1>3, TailedWhenWritten
  <1>11. DetectionsConserved'
    <2>1. ASSUME NEW id \in folded, NEW f \in DOMAIN logs', NEW k \in DOMAIN logs'[f].lines,
                 logs'[f].lines[k].id = id, logs'[f].lines[k].kind \in Detecting
          PROVE  id \in Events(folded)
      <3>1. id \in 1..written
        BY <1>3 DEF Founded
      <3>2. ~(logs'[f].lines[k] = line /\ line.id = written + 1)
        BY <1>4, <2>1, <3>1
      <3>3. /\ f \in DOMAIN logs /\ k \in DOMAIN logs[f].lines
            /\ logs'[f].lines[k] = logs[f].lines[k]
        BY <1>3, <3>2, WrittenLines
      <3> QED
        BY <2>1, <3>3 DEF Events
    <2>2. Events(folded)' \subseteq Events(folded)
      BY <1>1, <2>1 DEF Events
    <2>3. Events(folded) \subseteq Everywhere
      BY <1>3, ConservedIs
    <2>4. Events(folded)' \subseteq Everywhere'
      BY <1>8, <2>2, <2>3
    <2> QED
      BY <2>4 DEF DetectionsConserved, Everywhere, Attached
  <1> QED
    BY <1>5, <1>6, <1>7, <1>9, <1>10, <1>11 DEF FeedInv

(* The threads' steps, which leave the log as it is.                         *)
LEMMA LogKept ==
  ASSUME FeedInv, UNCHANGED <<logs, written, resets>>
  PROVE  /\ Numbered'
         /\ folded' = folded /\ Everywhere' = Everywhere => Founded' /\ DetectionsConserved'
  <1>1. Numbered /\ Founded /\ DetectionsConserved
    BY DEF FeedInv
  <1>2. Numbered'
    BY <1>1 DEF Numbered
  <1>3. ASSUME folded' = folded, Everywhere' = Everywhere
        PROVE  Founded' /\ DetectionsConserved'
    <2>1. Founded'
      BY <1>1, <1>3 DEF Founded
    <2>2. Events(folded)' = Events(folded)
      BY <1>3 DEF Events
    <2>3. Events(folded)' \subseteq Everywhere'
      BY <1>1, <1>3, <2>2, ConservedIs
    <2> QED
      BY <2>1, <2>3 DEF DetectionsConserved, Everywhere, Attached
  <1> QED
    BY <1>2, <1>3

(* A line that is folded is accounted for, whether the pass goes on or not.  *)
LEMMA FoldConserves ==
  ASSUME FeedInv, InPass, ~AtEnd, Fold(NextLine),
         UNCHANGED <<logs, written, resets, pending, sweep, evidence, lost>>
  PROVE  /\ retained' \in Seq(Detections) /\ Len(retained') <= MaxRetained
         /\ Swept' /\ Founded' /\ DetectionsConserved'
  <1>1. Typed /\ Numbered /\ Swept /\ Founded /\ Tailed /\ DetectionsConserved
    BY DEF FeedInv
  <1> DEFINE fd == tail.pass.fd
             at == tail.pass.pos + 1
  <1>2. /\ fd \in DOMAIN logs /\ at \in DOMAIN logs[fd].lines
        /\ NextLine = logs[fd].lines[at] /\ NextLine \in Lines /\ NextLine.id \in 1..written
    BY <1>1, NextLineIs DEF NextLine
  <1> HIDE DEF fd, at
  <1>3. PICK line \in Lines : line = NextLine
    BY <1>2
  <1>4. /\ retained' \in Seq(Detections) /\ Len(retained') <= MaxRetained
        /\ folded' = folded \cup {line.id}
        /\ line.kind \in Detecting => Everywhere' = Everywhere \cup {line.id}
        /\ line.kind \notin Detecting => Everywhere' = Everywhere
    <2>1. Fold(line)
      BY <1>3
    <2> QED
      BY <1>1, <2>1, FoldDoes
  <1>5. Swept'
    BY <1>1 DEF Swept, SweepSound, Attached
  <1>6. Founded'
    <2>1. folded \subseteq 1..written /\ Everywhere \subseteq folded
      BY <1>1 DEF Founded
    <2>2. folded' \subseteq 1..written
      BY <1>2, <1>3, <1>4, <2>1
    <2>3. Everywhere' \subseteq folded'
      BY <1>4, <2>1
    <2> QED
      BY <2>2, <2>3 DEF Founded
  <1>7. DetectionsConserved'
    <2>1. ASSUME NEW f \in DOMAIN logs, NEW k \in DOMAIN logs[f].lines,
                 logs[f].lines[k].id = line.id, logs[f].lines[k].kind \in Detecting
          PROVE  line.kind \in Detecting
      BY <1>1, <1>2, <1>3, <2>1 DEF Numbered
    <2>2. Events(folded)' \subseteq Events(folded) \cup
              (IF line.kind \in Detecting THEN {line.id} ELSE {})
      BY <1>4, <2>1 DEF Events
    <2>3. Events(folded) \subseteq Everywhere
      BY <1>1, ConservedIs
    <2>4. Events(folded)' \subseteq Everywhere'
      BY <1>4, <2>2, <2>3
    <2> QED
      BY <2>4 DEF DetectionsConserved, Everywhere, Attached
  <1> QED
    BY <1>4, <1>5, <1>6, <1>7

LEMMA NextKeeps ==
  ASSUME FeedInv, Next
  PROVE  FeedInv'
  <1>0. Typed /\ Numbered /\ Swept /\ Founded /\ Tailed /\ DetectionsConserved
    BY DEF FeedInv
  <1>1. ASSUME NEW c \in Contents, WriteLine(c)
        PROVE  FeedInv'
    <2>1. PICK line : Written(line)
      BY <1>0, <1>1, WriteLineDoes
    <2> QED
      BY <1>1, <2>1, WriterStep DEF WriteLine
  <1>2. CASE CompleteLine
    BY <1>0, <1>2, CompleteLineDoes, WriterStep DEF CompleteLine
  <1>3. CASE Rotate
    <2>1. UNCHANGED <<tail, checkpoint, feed, sweep, ledger, folded, lost, skipped, mishaps>>
      BY <1>3 DEF Rotate, ResetLog
    <2> QED
      BY <1>0, <1>3, <2>1, RotateDoes, WriterStep
  <1>4. CASE Truncate
    <2>1. UNCHANGED <<tail, checkpoint, feed, sweep, ledger, folded, lost, skipped, mishaps>>
      BY <1>4 DEF Truncate, ResetLog
    <2> QED
      BY <1>0, <1>4, <2>1, TruncateDoes, WriterStep
  <1>5. CASE BeginPass
    <2>1. UNCHANGED <<logs, written, resets, checkpoint, retained, pending, counted, sweep,
                      known, evidence, folded, lost, mishaps>>
      BY <1>5 DEF BeginPass, writer, feed, ledger
    <2>2. tail' \in [mark : Marks, pass : Passes] /\ skipped' \in BOOLEAN /\ Tailed'
      BY <1>0, <1>5, BeginPassKeeps
    <2>3. Typed'
      BY <1>0, <2>1, <2>2 DEF Typed
    <2>4. Swept' /\ Everywhere' = Everywhere
      BY <1>0, <2>1 DEF Swept, SweepSound, Everywhere, InMemory, Ids, Attached
    <2> QED
      BY <2>1, <2>2, <2>3, <2>4, LogKept DEF FeedInv
  <1>16. CASE OpenLog
    <2>1. UNCHANGED <<logs, written, resets, checkpoint, retained, pending, counted, sweep,
                      known, evidence, folded, lost, mishaps>>
      BY <1>16 DEF OpenLog, writer, feed, ledger
    <2>2. tail' \in [mark : Marks, pass : Passes] /\ skipped' \in BOOLEAN /\ Tailed'
      BY <1>0, <1>16, OpenLogKeeps
    <2>3. Typed'
      BY <1>0, <2>1, <2>2 DEF Typed
    <2>4. Swept' /\ Everywhere' = Everywhere
      BY <1>0, <2>1 DEF Swept, SweepSound, Everywhere, InMemory, Ids, Attached
    <2> QED
      BY <2>1, <2>2, <2>3, <2>4, LogKept DEF FeedInv
  <1>6. CASE FoldLine
    <2>1. UNCHANGED <<logs, written, resets, checkpoint, pending, sweep, known, evidence, lost,
                      skipped, mishaps>>
      BY <1>6 DEF FoldLine, writer, ledger
    <2>2. tail' \in [mark : Marks, pass : Passes] /\ Tailed'
      BY <1>0, <1>6, FoldLineKeeps
    <2>3. InPass /\ ~AtEnd /\ Fold(NextLine)
      BY <1>6 DEF FoldLine
    <2>4. /\ retained' \in Seq(Detections) /\ Len(retained') <= MaxRetained
          /\ Swept' /\ Founded' /\ DetectionsConserved'
      BY <2>1, <2>3, FoldConserves
    <2>5. Typed'
      BY <1>0, <2>1, <2>2, <2>4 DEF Typed
    <2> QED
      BY <2>1, <2>2, <2>4, <2>5, LogKept DEF FeedInv
  <1>7. CASE PassRaises
    <2>1. UNCHANGED <<logs, written, resets, checkpoint, pending, sweep, known, evidence, lost,
                      skipped, mishaps>>
      BY <1>7 DEF PassRaises, writer, ledger
    <2>2. tail' \in [mark : Marks, pass : Passes] /\ Tailed'
      BY <1>0, <1>7, PassRaisesKeeps
    <2>3. CASE NextLine.kind = "answer"
      <3>1. InPass /\ ~AtEnd /\ Fold(NextLine)
        BY <1>7, <2>3 DEF PassRaises
      <3>2. /\ retained' \in Seq(Detections) /\ Len(retained') <= MaxRetained
            /\ Swept' /\ Founded' /\ DetectionsConserved'
        BY <2>1, <3>1, FoldConserves
      <3>3. Typed'
        BY <1>0, <2>1, <2>2, <3>2 DEF Typed
      <3> QED
        BY <2>1, <2>2, <3>2, <3>3, LogKept DEF FeedInv
    <2>4. CASE NextLine.kind # "answer"
      <3>1. UNCHANGED <<retained, counted, folded>>
        BY <1>7, <2>4 DEF PassRaises
      <3>2. Typed'
        BY <1>0, <2>1, <2>2, <3>1 DEF Typed
      <3>3. Swept' /\ Everywhere' = Everywhere
        BY <1>0, <2>1, <3>1 DEF Swept, SweepSound, Everywhere, InMemory, Ids, Attached
      <3> QED
        BY <2>1, <2>2, <3>1, <3>2, <3>3, LogKept DEF FeedInv
    <2> QED
      BY <2>3, <2>4
  <1>8. CASE EndPass
    <2>1. UNCHANGED <<logs, written, resets, retained, pending, counted, sweep, known,
                      evidence, folded, lost, skipped>>
      BY <1>8 DEF EndPass, writer, feed, ledger
    <2>2. /\ tail' \in [mark : Marks, pass : Passes] /\ checkpoint' \in Marks
          /\ mishaps' \in 0..MaxMishaps /\ Tailed'
      BY <1>0, <1>8, EndPassKeeps
    <2>3. Typed'
      BY <1>0, <2>1, <2>2 DEF Typed
    <2>4. Swept' /\ Everywhere' = Everywhere
      BY <1>0, <2>1 DEF Swept, SweepSound, Everywhere, InMemory, Ids, Attached
    <2> QED
      BY <2>1, <2>2, <2>3, <2>4, LogKept DEF FeedInv
  <1>9. ASSUME NEW i \in Indicators, Ingest(i)
        PROVE  FeedInv'
    <2>1. UNCHANGED <<logs, written, resets, tail, checkpoint, retained, pending, counted,
                      sweep, evidence, folded, lost, skipped, mishaps>>
      BY <1>9 DEF Ingest, writer, feed
    <2>2. known' \in SUBSET Indicators
      BY <1>0, <1>9 DEF Ingest, Typed
    <2>3. Typed'
      BY <1>0, <2>1, <2>2 DEF Typed
    <2>4. Swept' /\ Everywhere' = Everywhere /\ Tailed'
      BY <1>0, <2>1 DEF Swept, SweepSound, Everywhere, InMemory, Ids, Attached, Tailed, Read, InPass
    <2> QED
      BY <2>1, <2>3, <2>4, LogKept DEF FeedInv
  <1>10. CASE StartSweep
    <2>1. UNCHANGED <<logs, written, resets, tail, checkpoint, retained, known, evidence,
                      folded, lost, skipped, mishaps>>
      BY <1>10 DEF StartSweep, writer, ledger
    <2>2. /\ pending' \in [Values -> Seq(Parkings)]
          /\ \A v \in Values : Len(pending'[v]) <= PerTarget
          /\ Swept' /\ Everywhere' = Everywhere
      BY <1>0, <1>10, StartSweepKeeps
    <2>3. Typed' /\ Tailed'
      BY <1>0, <2>1, <2>2 DEF Typed, Tailed, Read, InPass
    <2> QED
      BY <2>1, <2>2, <2>3, LogKept DEF FeedInv
  <1>11. CASE Drain
    <2>1. UNCHANGED <<logs, written, resets, tail, checkpoint, known, evidence, folded,
                      skipped, mishaps>>
      BY <1>11 DEF Drain, writer, ledger
    <2>2. /\ retained' \in Seq(Detections) /\ Len(retained') <= MaxRetained
          /\ pending' \in [Values -> Seq(Parkings)]
          /\ \A v \in Values : Len(pending'[v]) <= PerTarget
          /\ Swept' /\ Everywhere' = Everywhere
      BY <1>0, <1>11, DrainKeeps
    <2>3. Typed' /\ Tailed'
      BY <1>0, <2>1, <2>2 DEF Typed, Tailed, Read, InPass
    <2> QED
      BY <2>1, <2>2, <2>3, LogKept DEF FeedInv
  <1>12. CASE Persist
    <2>1. UNCHANGED <<logs, written, resets, tail, checkpoint, retained, pending, counted,
                      known, folded, skipped>>
      BY <1>12 DEF Persist, writer, feed
    <2>2. /\ evidence' \in SUBSET (Indicators \X Nat) /\ mishaps' \in 0..MaxMishaps
          /\ Swept' /\ Everywhere' = Everywhere
      BY <1>0, <1>12, PersistKeeps
    <2>3. Typed' /\ Tailed'
      BY <1>0, <2>1, <2>2 DEF Typed, Tailed, Read, InPass
    <2> QED
      BY <2>1, <2>2, <2>3, LogKept DEF FeedInv
  <1>13. CASE Decide
    <2>1. UNCHANGED <<logs, written, resets, tail, checkpoint, retained, pending, counted,
                      known, evidence, folded, skipped>>
      BY <1>13 DEF Decide, writer, feed, ledger
    <2>2. mishaps' \in 0..MaxMishaps /\ Swept' /\ Everywhere' = Everywhere
      BY <1>0, <1>13, DecideKeeps
    <2>3. Typed' /\ Tailed'
      BY <1>0, <2>1, <2>2 DEF Typed, Tailed, Read, InPass
    <2> QED
      BY <2>1, <2>2, <2>3, LogKept DEF FeedInv
  <1>14. CASE Age
    <2>1. UNCHANGED <<logs, written, resets, tail, checkpoint, retained, counted, known,
                      evidence, folded, lost, skipped, mishaps>>
      BY <1>14 DEF Age, writer, ledger
    <2>2. /\ pending' \in [Values -> Seq(Parkings)]
          /\ \A v \in Values : Len(pending'[v]) <= PerTarget
          /\ Swept' /\ Everywhere' = Everywhere
      BY <1>0, <1>14, AgeKeeps
    <2>3. Typed' /\ Tailed'
      BY <1>0, <2>1, <2>2 DEF Typed, Tailed, Read, InPass
    <2> QED
      BY <2>1, <2>2, <2>3, LogKept DEF FeedInv
  <1>15. CASE Crash
    <2>1. UNCHANGED <<logs, written, resets, checkpoint, counted, known, evidence, folded,
                      skipped>>
      BY <1>15 DEF Crash, writer, ledger
    <2>2. /\ retained' \in Seq(Detections) /\ Len(retained') <= MaxRetained
          /\ pending' \in [Values -> Seq(Parkings)]
          /\ \A v \in Values : Len(pending'[v]) <= PerTarget
          /\ tail' \in [mark : Marks, pass : Passes] /\ mishaps' \in 0..MaxMishaps
          /\ Swept' /\ Tailed' /\ Everywhere' = Everywhere
      BY <1>0, <1>15, CrashKeeps
    <2>3. Typed'
      BY <1>0, <2>1, <2>2 DEF Typed
    <2> QED
      BY <2>1, <2>2, <2>3, LogKept DEF FeedInv
  <1> QED
    BY <1>1, <1>2, <1>3, <1>4, <1>5, <1>6, <1>7, <1>8, <1>9, <1>10, <1>11, <1>12, <1>13,
       <1>14, <1>15, <1>16 DEF Next

LEMMA FeedInvariant == Spec => []FeedInv
  <1>1. Init => FeedInv
    BY InitHolds
  <1>2. FeedInv /\ [Next]_vars => FeedInv'
    <2>1. ASSUME FeedInv, UNCHANGED vars
          PROVE  FeedInv'
      <3>1. UNCHANGED <<logs, written, tail, checkpoint, retained, pending, sweep, known,
                        evidence, counted, folded, lost, skipped, resets, mishaps>>
        BY <2>1 DEF vars
      <3>2. Typed /\ Swept /\ Tailed
        BY <2>1 DEF FeedInv
      <3>3. Typed'
        BY <3>1, <3>2 DEF Typed
      <3>4. Swept'
        BY <3>1, <3>2 DEF Swept, SweepSound, Attached
      <3>5. Tailed'
        BY <3>1, <3>2 DEF Tailed, Read, InPass
      <3>6. Everywhere' = Everywhere
        BY <3>1 DEF Everywhere, InMemory, Ids, Attached
      <3> QED
        BY <2>1, <3>1, <3>3, <3>4, <3>5, <3>6, LogKept DEF FeedInv
    <2> QED
      BY <2>1, NextKeeps
  <1> QED
    BY <1>1, <1>2, PTL DEF Spec

-----------------------------------------------------------------------------
(* The feed, the checkpoints, the sweep and the evidence have their types and *)
(* bounds: no queue outgrows its limit (feed.py's max_retained_detections and *)
(* the 64 parked of one target), an offset never runs ahead of what was       *)
(* written, and every identity is a written line's.                           *)
THEOREM TypeCorrect == Spec => []TypeOK
  <1>1. FeedInv => TypeOK
    <2> SUFFICES ASSUME FeedInv
                 PROVE  TypeOK
      OBVIOUS
    <2>1. Typed /\ Numbered /\ Swept /\ Founded /\ Tailed
      BY DEF FeedInv
    <2>2. Len(retained) <= MaxRetained /\ \A v \in Values : Len(pending[v]) <= PerTarget
      BY <2>1 DEF Typed
    <2>3. tail.pass.fd \in {0} \cup DOMAIN logs
      BY <2>1 DEF Tailed, InPass
    <2>4. tail.mark.offset \in 0..written /\ checkpoint.offset \in 0..written
      BY <2>1, TailParts, Bounds DEF Tailed
    <2>5. sweep.pc \in {"idle", "drain", "persist", "decide"}
      BY <2>1 DEF Swept, SweepSound
    <2>6. counted \cup folded \cup lost \subseteq 1..written
      BY <2>1 DEF Founded, Everywhere
    <2>7. evidence \subseteq Indicators \X (1..written)
      <3>1. evidence \in SUBSET (Indicators \X Nat)
        BY <2>1 DEF Typed
      <3>2. \A row \in evidence : row[2] \in 1..written
        BY <2>1 DEF Founded, Everywhere, Attached
      <3> QED
        BY <3>1, <3>2
    <2>8. /\ known \subseteq Indicators
          /\ skipped \in BOOLEAN /\ resets \in 0..MaxResets /\ mishaps \in 0..MaxMishaps
      BY <2>1 DEF Typed
    <2> QED
      BY <2>2, <2>3, <2>4, <2>5, <2>6, <2>7, <2>8 DEF TypeOK
  <1> QED
    BY <1>1, FeedInvariant, PTL

(* The tail of suricata_eve.py skips nothing: whatever was torn, rotated,         *)
(* truncated, raised or crashed, every line the durable checkpoint is past    *)
(* has been folded, unless the tail took a file for the one it had read.      *)
THEOREM CheckpointIsAlwaysFolded == Spec => []CheckpointIsFolded
  <1>1. FeedInv => CheckpointIsFolded
    <2> SUFFICES ASSUME FeedInv, ~skipped, checkpoint.gen = Current.gen
                 PROVE  \A k \in 1..checkpoint.offset : Current.lines[k].id \in folded
      BY DEF CheckpointIsFolded
    <2>1. Read(checkpoint, checkpoint.offset)
      BY DEF FeedInv, Tailed
    <2>2. Len(logs) \in DOMAIN logs
      BY FileParts DEF FeedInv
    <2> QED
      BY <2>1, <2>2 DEF Read, Current
  <1> QED
    BY <1>1, FeedInvariant, PTL

(* No detection of feed.py disappears unaccounted: it is retained, parked, in *)
(* the hands of the sweep, attached as evidence, counted as dropped or        *)
(* expired, or lost to one of the losses the model names.                     *)
THEOREM DetectionsAreConserved == Spec => []DetectionsConserved
  <1>1. FeedInv => DetectionsConserved
    BY DEF FeedInv
  <1> QED
    BY <1>1, FeedInvariant, PTL
=============================================================================
