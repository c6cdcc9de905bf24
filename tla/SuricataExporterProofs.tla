----------------------- MODULE SuricataExporterProofs -----------------------
(* Theorems about SuricataExporter, for any finite set of threads, any       *)
(* decisions and any bound on SIDs, calls and restarts.                      *)
EXTENDS SuricataExporter, FiniteSetTheorems, SequenceTheorems, TLAPS

-----------------------------------------------------------------------------
(* The inductive invariant.                                                  *)

PairScoped(d) == Shape[d].type = "ip" /\ Shape[d].pair
Recorded(row) == stage[row] # "none"

(* Every line anywhere is a recorded row's, and of no pair-scoped address.   *)
LineSound(line) == Recorded(<<line.decision, line.sid>>) /\ ~PairScoped(line.decision)
LinesSound(lines) == \A i \in DOMAIN lines : LineSound(lines[i])

CallSound(t) ==
    LET c == call[t] IN
    IF c.pc = "idle" THEN c = Idle
    ELSE /\ c.row \in Rows /\ c.op \in {"apply", "revoke"}
         /\ stage[c.row] = IF c.op = "apply" THEN "applying" ELSE "removing"
         /\ c.op = "apply" => ~PairScoped(c.row[1])
         /\ LinesSound(c.copy)
         /\ c.pc = "fill" <=> c.fd # NoInode

Sound ==
    /\ \A i \in Inodes : LinesSound(disk[i])
    /\ \A t \in Threads : CallSound(t)
    /\ \A t, u \in Threads : call[t].row = call[u].row /\ call[t].pc # "idle" => t = u
    /\ tmp # NoInode => tmp # rules

(* While no two calls have been writing at once, the one that writes has the *)
(* temporary file to itself, and its copy is what it read, edited.           *)
Edited(t, line) ==
    LET row == call[t].row IN
    \/ Contains(Published, line) /\ line.sid # row[2]
    \/ call[t].op = "apply" /\ line = LineOf(row)
WritesAlone(t) ==
    LET c == call[t] IN
    /\ \A u \in Threads : Writing(u) => u = t
    /\ \A line \in Lines : Contains(c.copy, line) <=> Edited(t, line)
    /\ c.pc = "fill" => c.fd = tmp /\ disk[tmp] = <<>>
    /\ c.pc = "replace" => tmp # NoInode /\ disk[tmp] = c.copy
Exclusive == ~overlapped => \A t \in Threads : Writing(t) => WritesAlone(t)

-----------------------------------------------------------------------------
(* Induction over the naturals, by a least counterexample: a set of naturals *)
(* that has 0 and each one's successor has them all.                         *)
LEMMA LeastNumber ==
  ASSUME NEW T \in SUBSET Nat, T # {}
  PROVE  \E n \in T : \A m \in T : n <= m
  <1> DEFINE R == OpToRel(<, Nat)
  <1>1. IsWellFoundedOn(R, Nat)
    BY NatLessThanWellFounded
  <1>2. \A x, y \in Nat : <<x, y>> \in R <=> x < y
    BY DEF OpToRel
  <1> HIDE DEF R
  <1>3. PICK n \in T : \A m \in T : ~ (<<m, n>> \in R)
    BY <1>1, WFMin
  <1>4. ASSUME NEW m \in T
        PROVE  n <= m
    <2>1. m \in Nat /\ n \in Nat /\ <<m, n>> \notin R
      BY <1>3
    <2>2. ~(m < n)
      BY <1>2, <2>1
    <2> QED
      BY <2>1, <2>2
  <1> QED
    BY <1>4

LEMMA NaturalSet ==
  ASSUME NEW S \in SUBSET Nat, 0 \in S, \A n \in S : n + 1 \in S
  PROVE  S = Nat
  <1> SUFFICES ASSUME Nat \ S # {}
               PROVE  FALSE
    OBVIOUS
  <1>1. PICK n \in Nat \ S : \A m \in Nat \ S : n <= m
    BY LeastNumber
  <1>2. n # 0 /\ n - 1 \in Nat
    BY <1>1
  <1>3. n - 1 \in S
    BY <1>1, <1>2
  <1> QED
    BY <1>1, <1>2, <1>3

(* What Without computes: its recursion has a solution, and keeps the lines  *)
(* with another SID.                                                         *)
Keeps(f, n, lines, s) ==
    f = [i \in 0..n |->
            IF i = 0 THEN <<>>
            ELSE IF lines[i].sid = s THEN f[i - 1]
            ELSE Append(f[i - 1], lines[i])]

LEMMA KeepsExists ==
  ASSUME NEW lines, NEW s
  PROVE  \A n \in Nat : \E f : Keeps(f, n, lines, s)
  <1> DEFINE S == {n \in Nat : \E f : Keeps(f, n, lines, s)}
  <1>1. 0 \in S
    <2>1. Keeps([i \in 0..0 |-> <<>>], 0, lines, s)
      BY DEF Keeps
    <2> QED
      BY <2>1
  <1>2. ASSUME NEW n \in S
        PROVE  n + 1 \in S
    <2>1. PICK f : Keeps(f, n, lines, s)
      OBVIOUS
    <2> DEFINE g == [i \in 0..(n + 1) |->
                       IF i = 0 THEN <<>>
                       ELSE IF lines[i].sid = s THEN f[i - 1] ELSE Append(f[i - 1], lines[i])]
    <2>2. \A i \in 0..n : f[i] = g[i]
      <3>1. /\ DOMAIN f = 0..n
            /\ \A i \in 0..n : f[i] = IF i = 0 THEN <<>>
                       ELSE IF lines[i].sid = s THEN f[i - 1] ELSE Append(f[i - 1], lines[i])
        BY <2>1, Zenon DEF Keeps
      <3>2. \A i \in 0..n : i \in 0..(n+1)
        OBVIOUS
      <3> QED
        BY <3>1, <3>2, Zenon
    <2>3. \A i \in 0..(n + 1) : i # 0 => i - 1 \in 0..n
      OBVIOUS
    <2>4. \A i \in 0..(n + 1) : i # 0 => g[i - 1] = f[i - 1]
      BY <2>2, <2>3
    <2>5. g = [i \in 0..(n + 1) |->
                       IF i = 0 THEN <<>>
                       ELSE IF lines[i].sid = s THEN g[i - 1] ELSE Append(g[i - 1], lines[i])]
      BY <2>4
    <2> HIDE DEF g
    <2>6. Keeps(g, n + 1, lines, s)
      BY <2>5 DEF Keeps
    <2> QED
      BY <2>6
  <1> QED
    BY <1>1, <1>2, NaturalSet

LEMMA WithoutIs ==
  ASSUME NEW lines \in Seq(Lines), NEW s
  PROVE  \E f : Keeps(f, Len(lines), lines, s) /\ Without(lines, s) = f[Len(lines)]
  <1>0. Len(lines) \in Nat
    OBVIOUS
  <1>1. \E f : Keeps(f, Len(lines), lines, s)
    BY <1>0, KeepsExists
  <1>k. PICK k : k = CHOOSE f : Keeps(f, Len(lines), lines, s)
    OBVIOUS
  <1>2. Keeps(k, Len(lines), lines, s)
    BY <1>1, <1>k
  <1>3. Without(lines, s) = k[Len(lines)]
    BY <1>k DEF Without, Keeps
  <1> QED
    BY <1>2, <1>3

LEMMA AppendContains ==
  ASSUME NEW q \in Seq(Lines), NEW e \in Lines
  PROVE  /\ Append(q, e) \in Seq(Lines)
         /\ \A x : Contains(Append(q, e), x) <=> Contains(q, x) \/ x = e
  <1>1. /\ Len(q) \in Nat /\ Len(Append(q, e)) = Len(q) + 1 /\ Append(q, e) \in Seq(Lines)
        /\ Append(q, e)[Len(q) + 1] = e
        /\ \A i \in 1..Len(q) : Append(q, e)[i] = q[i]
    BY AppendProperties
  <1>2. \A i : i \in 1..(Len(q) + 1) <=> i \in 1..Len(q) \/ i = Len(q) + 1
    BY <1>1
  <1> QED
    BY <1>1, <1>2 DEF Contains

LEMMA WithoutKeeps ==
  ASSUME NEW lines \in Seq(Lines), NEW s
  PROVE  /\ Without(lines, s) \in Seq(Lines)
         /\ \A x : Contains(Without(lines, s), x) <=> Contains(lines, x) /\ x.sid # s
  <1>1. PICK f : Keeps(f, Len(lines), lines, s) /\ Without(lines, s) = f[Len(lines)]
    BY WithoutIs
  <1> DEFINE n == Len(lines)
             Kept(m) == /\ f[m] \in Seq(Lines)
                        /\ \A x : Contains(f[m], x) <=>
                                \E i \in 1..m : lines[i] = x /\ x.sid # s
             S == {m \in Nat : m <= n => Kept(m)}
  <1>2. n \in Nat
    OBVIOUS
  <1>3. \A i \in 0..n : f[i] = IF i = 0 THEN <<>>
                       ELSE IF lines[i].sid = s THEN f[i - 1] ELSE Append(f[i - 1], lines[i])
    BY <1>1, Zenon DEF Keeps
  <1>4. 0 \in S
    <2>1. f[0] = <<>>
      BY <1>2, <1>3
    <2>2. f[0] \in Seq(Lines) /\ 1..0 = {} /\ Len(f[0]) = 0
      BY <2>1
    <2>3. \A x : ~Contains(f[0], x)
      BY <2>2 DEF Contains
    <2>4. Kept(0)
      BY <2>2, <2>3
    <2> QED
      BY <2>4
  <1>5. ASSUME NEW m \in S
        PROVE  m + 1 \in S
    <2> SUFFICES ASSUME m + 1 <= n
                 PROVE  Kept(m + 1)
      OBVIOUS
    <2>1. m \in Nat /\ m \in 0..n /\ m + 1 \in 0..n /\ m + 1 # 0 /\ (m + 1) - 1 = m
      BY <1>2
    <2>2. Kept(m)
      BY <1>2, <2>1
    <2>3. lines[m + 1] \in Lines
      BY <1>2, <2>1
    <2>4. f[m + 1] = IF lines[m + 1].sid = s THEN f[m] ELSE Append(f[m], lines[m + 1])
      BY <1>3, <2>1
    <2>5. \A i : i \in 1..(m + 1) <=> i \in 1..m \/ i = m + 1
      BY <2>1
    <2>6. CASE lines[m + 1].sid = s
      BY <2>2, <2>4, <2>5, <2>6
    <2>7. CASE lines[m + 1].sid # s
      <3>1. f[m + 1] = Append(f[m], lines[m + 1])
        BY <2>4, <2>7
      <3>2. f[m + 1] \in Seq(Lines) /\ \A x : Contains(f[m + 1], x) <=>
                                           Contains(f[m], x) \/ x = lines[m + 1]
        BY <2>2, <2>3, <3>1, AppendContains
      <3> QED
        BY <2>2, <2>5, <2>7, <3>2
    <2> QED
      BY <2>6, <2>7
  <1>6. n \in S
    BY <1>2, <1>4, <1>5, NaturalSet
  <1> QED
    BY <1>1, <1>2, <1>6 DEF Contains


-----------------------------------------------------------------------------
(* There is always an inode for a new temporary file: each thread holds at    *)
(* most one open, and the ruleset is one more.                                *)
LEMMA FreeInode ==
  ASSUME TypeOK, tmp = NoInode
  PROVE  \E i \in Inodes : i \notin {rules, tmp} \cup {call[u].fd : u \in Threads}
  <1> DEFINE N == Cardinality(Threads)
             F == {call[u].fd : u \in Threads}
             U == F \cup {rules}
             g == [u \in Threads |-> call[u].fd]
  <1>1. IsFiniteSet(Threads) /\ N \in Nat
    BY ExporterAssumption, FS_CardinalityType
  <1>2. g \in Surjection(Threads, F)
    BY DEF Surjection
  <1>3. IsFiniteSet(F) /\ Cardinality(F) <= N /\ Cardinality(F) \in Nat
    <2> HIDE DEF g, F
    <2>1. IsFiniteSet(F) /\ Cardinality(F) <= N
      BY <1>1, <1>2, FS_Surjection
    <2> QED
      BY <2>1, FS_CardinalityType
  <1> HIDE DEF F
  <1>4. IsFiniteSet(U) /\ Cardinality(U) <= N + 1 /\ Cardinality(U) \in Nat
    <2>1. /\ IsFiniteSet(F \cup {rules})
          /\ Cardinality(F \cup {rules}) = IF rules \in F THEN Cardinality(F) ELSE Cardinality(F) + 1
      BY <1>3, FS_AddElement
    <2> QED
      BY <1>1, <1>3, <2>1
  <1> HIDE DEF U
  <1>5. IsFiniteSet(Inodes) /\ Cardinality(Inodes) = N + 2
    <2>1. N + 1 \in Int /\ 0 \in Int /\ ~(0 > N + 1) /\ (N + 1) - 0 + 1 = N + 2
      BY <1>1
    <2>2. IsFiniteSet(0..(N + 1)) /\ Cardinality(0..(N + 1)) = N + 2
      BY <2>1, FS_Interval
    <2> QED
      BY <2>2 DEF Inodes
  <1>6. ~(Inodes \subseteq U)
    <2> SUFFICES ASSUME Inodes \in SUBSET U
                 PROVE  FALSE
      OBVIOUS
    <2>1. Cardinality(Inodes) <= Cardinality(U)
      BY <1>4, FS_Subset
    <2> QED
      BY <1>1, <1>4, <1>5, <2>1
  <1>7. PICK i \in Inodes : i \notin U
    BY <1>6
  <1>8. i # tmp
    BY <1>1 DEF Inodes, NoInode
  <1>9. i # rules /\ i \notin F
    BY <1>7 DEF U
  <1> QED
    BY <1>8, <1>9 DEF F

-----------------------------------------------------------------------------
(* Types.                                                                    *)

LEMMA RowParts ==
  ASSUME NEW row \in Rows
  PROVE  row[1] \in Decisions /\ row[2] \in Sids /\ LineOf(row) \in Lines /\ row = <<row[1], row[2]>>
  BY DEF Rows, LineOf, Lines

LEMMA SidsAre ==
  /\ \A s \in Sids : s \in Nat
  /\ -1 \notin Sids
  /\ NoInode \notin Inodes
  <1>1. MaxSid \in Nat
    BY ExporterAssumption
  <1>2. Cardinality(Threads) \in Nat
    BY ExporterAssumption, FS_CardinalityType
  <1> QED
    BY <1>1, <1>2 DEF Sids, Inodes, NoInode

LEMMA PublishedType ==
  ASSUME TypeOK
  PROVE  Published \in Seq(Lines)
  BY DEF TypeOK, Published

LEMMA IdleType == Idle \in CallStates
  BY DEF Idle, CallStates, NoInode

LEMMA CallType ==
  ASSUME TypeOK, NEW t \in Threads
  PROVE  /\ call[t] \in CallStates
         /\ call[t].op \in {"none", "apply", "revoke"}
         /\ call[t].pc \in {"idle", "read", "open", "fill", "replace", "check"}
         /\ call[t].row \in Rows \cup {<<>>}
         /\ call[t].copy \in Seq(Lines)
         /\ call[t].fd \in Inodes \cup {NoInode}
  <1>1. call[t] \in CallStates
    BY DEF TypeOK
  <1> QED
    BY <1>1 DEF CallStates

(* The row of a call that is not idle, and its edit of what was read.        *)
LEMMA EditType ==
  ASSUME TypeOK, NEW t \in Threads, call[t].row \in Rows
  PROVE  Edit(t) \in Seq(Lines)
  <1>1. Published \in Seq(Lines)
    BY PublishedType
  <1>2. Without(Published, call[t].row[2]) \in Seq(Lines)
    BY <1>1, WithoutKeeps
  <1>3. Append(Without(Published, call[t].row[2]), LineOf(call[t].row)) \in Seq(Lines)
    BY <1>2, RowParts, AppendContains
  <1> QED
    BY <1>2, <1>3, Zenon DEF Edit

(* What each step does to the call of its thread.                            *)
LEMMA NextSidType ==
  ASSUME TypeOK, NEW d \in Decisions, NEW s \in NextSid(d)
  PROVE  s \in Sids
  <1>1. claimed[d] \in Sids \cup {-1} /\ Start[d] \in Sids /\ MaxSid \in Nat
    BY ExporterAssumption DEF TypeOK
  <1>2. CASE s = claimed[d] /\ claimed[d] # -1
    BY <1>1, <1>2
  <1>3. CASE s \in Start[d]..MaxSid
    BY <1>1, <1>3 DEF Sids
  <1> QED
    BY <1>2, <1>3 DEF NextSid

LEMMA CallSet ==
  ASSUME NEW f \in [Threads -> CallStates], NEW t \in Threads, NEW c \in CallStates
  PROVE  [f EXCEPT ![t] = c] \in [Threads -> CallStates]
  OBVIOUS


(* A call enters, moves on or ends: its state stays one.                     *)
LEMMA EnterType ==
  ASSUME TypeOK, NEW t \in Threads, NEW op \in {"none", "apply", "revoke"}, NEW row \in Rows,
         NEW pc \in {"idle", "read", "open", "fill", "replace", "check"},
         Enter(t, op, row, pc)
  PROVE  /\ call' \in [Threads -> CallStates]
         /\ call' = [call EXCEPT ![t] = [op |-> op, pc |-> pc, row |-> row, copy |-> <<>>,
                                         fd |-> NoInode]]
  <1> DEFINE c == [op |-> op, pc |-> pc, row |-> row, copy |-> <<>>, fd |-> NoInode]
  <1>1. c \in CallStates
    BY DEF CallStates
  <1>3. call' = [call EXCEPT ![t] = c]
    BY Zenon DEF Enter
  <1> HIDE DEF c
  <1>4. call' \in [Threads -> CallStates]
    BY <1>1, <1>3, CallSet DEF TypeOK
  <1> QED
    BY <1>3, <1>4 DEF c

LEMMA LeaveType ==
  ASSUME TypeOK, NEW t \in Threads, Leave(t)
  PROVE  call' \in [Threads -> CallStates]
  BY IdleType, CallSet DEF TypeOK, Leave

LEMMA EditCopy ==
  ASSUME NEW f \in [Threads -> CallStates], NEW t \in Threads, NEW q \in Seq(Lines),
         NEW pc \in {"idle", "read", "open", "fill", "replace", "check"}
  PROVE  [f EXCEPT ![t].copy = q, ![t].pc = pc] \in [Threads -> CallStates]
  <1> PICK c \in CallStates : f[t] = c
    OBVIOUS
  <1>1. [c EXCEPT !.copy = q, !.pc = pc] \in CallStates
    BY DEF CallStates
  <1>2. [f EXCEPT ![t].copy = q, ![t].pc = pc] = [f EXCEPT ![t] = [c EXCEPT !.copy = q, !.pc = pc]]
    OBVIOUS
  <1> QED
    BY <1>1, <1>2, CallSet, Zenon

LEMMA EditFd ==
  ASSUME NEW f \in [Threads -> CallStates], NEW t \in Threads, NEW fd \in Inodes \cup {NoInode},
         NEW pc \in {"idle", "read", "open", "fill", "replace", "check"}
  PROVE  [f EXCEPT ![t].fd = fd, ![t].pc = pc] \in [Threads -> CallStates]
  <1> PICK c \in CallStates : f[t] = c
    OBVIOUS
  <1>1. [c EXCEPT !.fd = fd, !.pc = pc] \in CallStates
    BY DEF CallStates
  <1>2. [f EXCEPT ![t].fd = fd, ![t].pc = pc] = [f EXCEPT ![t] = [c EXCEPT !.fd = fd, !.pc = pc]]
    OBVIOUS
  <1> QED
    BY <1>1, <1>2, CallSet, Zenon

LEMMA EditPc ==
  ASSUME NEW f \in [Threads -> CallStates], NEW t \in Threads,
         NEW pc \in {"idle", "read", "open", "fill", "replace", "check"}
  PROVE  [f EXCEPT ![t].pc = pc] \in [Threads -> CallStates]
  <1> PICK c \in CallStates : f[t] = c
    OBVIOUS
  <1>1. [c EXCEPT !.pc = pc] \in CallStates
    BY DEF CallStates
  <1>2. [f EXCEPT ![t].pc = pc] = [f EXCEPT ![t] = [c EXCEPT !.pc = pc]]
    OBVIOUS
  <1> QED
    BY <1>1, <1>2, CallSet, Zenon

(* open("w") names one inode: the one of the temporary file, or a new one.   *)
LEMMA OpensInode ==
  ASSUME TypeOK, NEW t \in Threads, OpenTmp(t)
  PROVE  \E i \in Inodes :
           /\ i \in {tmp} \/ (tmp = NoInode /\ i # rules /\ \A u \in Threads : i # call[u].fd)
           /\ disk' = [disk EXCEPT ![i] = <<>>] /\ tmp' = i
           /\ call' = [call EXCEPT ![t].fd = i, ![t].pc = "fill"]
  <1> DEFINE used == {rules, tmp} \cup {call[u].fd : u \in Threads}
             new == CHOOSE i \in Inodes : i \notin used
             inode == IF tmp # NoInode THEN tmp ELSE new
  <1>1. /\ disk' = [disk EXCEPT ![inode] = <<>>] /\ tmp' = inode
        /\ call' = [call EXCEPT ![t].fd = inode, ![t].pc = "fill"]
    BY Zenon DEF OpenTmp
  <1>2. tmp = NoInode => new \in Inodes /\ new \notin used
    BY FreeInode
  <1> HIDE DEF new
  <1>3. inode \in Inodes
    BY <1>2 DEF TypeOK
  <1>4. inode \in {tmp} \/ (tmp = NoInode /\ inode # rules /\ \A u \in Threads : inode # call[u].fd)
    BY <1>2
  <1> HIDE DEF inode
  <1> QED
    BY <1>1, <1>3, <1>4

LEMMA TailOf ==
  ASSUME NEW q \in Seq(Lines), NEW n \in Nat
  PROVE  /\ SubSeq(q, n + 1, Len(q)) \in Seq(Lines)
         /\ Len(SubSeq(q, n + 1, Len(q))) = IF n <= Len(q) THEN Len(q) - n ELSE 0
         /\ \A i \in DOMAIN SubSeq(q, n + 1, Len(q)) :
                n + i \in DOMAIN q /\ SubSeq(q, n + 1, Len(q))[i] = q[n + i]
  OBVIOUS

LEMMA SettleType ==
  ASSUME TypeOK, NEW row \in Rows, NEW s \in Stages, Settle(row, s)
  PROVE  stage' \in [Rows -> Stages]
  BY DEF TypeOK, Settle

LEMMA TypeInit ==
  ASSUME Init
  PROVE  TypeOK
  <1>1. Postures \subseteq Modes /\ \A net \in HomeNets : net \subseteq Decisions
    BY ExporterAssumption
  <1>2. call \in [Threads -> CallStates]
    BY IdleType DEF Init
  <1>3. claimed \in [Decisions -> Sids \cup {-1}] /\ disk \in [Inodes -> Seq(Lines)]
    BY DEF Init
  <1>4. stage \in [Rows -> Stages]
    BY DEF Init, Stages
  <1> QED
    BY <1>1, <1>2, <1>3, <1>4 DEF Init, TypeOK

(* A call that is not idle has a row.                                        *)
LEMMA RowOfCall ==
  ASSUME Sound, NEW t \in Threads, call[t].pc # "idle"
  PROVE  call[t].row \in Rows /\ (call[t].pc = "fill" => call[t].fd # NoInode)
  BY DEF Sound, CallSound

LEMMA TypeStep ==
  ASSUME TypeOK, Sound, Next
  PROVE  TypeOK'
  <1>0. /\ disk \in [Inodes -> Seq(Lines)]
        /\ rules \in Inodes \cup {NoInode} /\ tmp \in Inodes \cup {NoInode}
        /\ claimed \in [Decisions -> Sids \cup {-1}]
        /\ posture \in Modes /\ home \in SUBSET Decisions
        /\ stage \in [Rows -> Stages] /\ unwanted \in SUBSET Rows
        /\ call \in [Threads -> CallStates]
        /\ overlapped \in BOOLEAN /\ calls \in Nat /\ restarts \in Nat
    BY DEF TypeOK
  <1>1. ASSUME NEW d \in Decisions, Compile(d)
        PROVE  TypeOK'
    <2>1. PICK s \in NextSid(d) :
            /\ claimed' = [claimed EXCEPT ![d] = s]
            /\ stage' = IF stage[<<d, s>>] = "none"
                        THEN [stage EXCEPT ![<<d, s>>] = "pending"] ELSE stage
      BY <1>1 DEF Compile
    <2>2. s \in Sids
      BY <2>1, NextSidType
    <2>3. claimed' \in [Decisions -> Sids \cup {-1}]
      BY <1>0, <2>1, <2>2
    <2>4. stage' \in [Rows -> Stages]
      BY <1>0, <2>1, <2>2 DEF Rows, Stages
    <2> QED
      BY <1>0, <1>1, <2>3, <2>4 DEF TypeOK, Compile, Calling, files
  <1>2. ASSUME NEW row \in Rows, Unwant(row)
        PROVE  TypeOK'
    BY <1>0, <1>2 DEF TypeOK, Unwant, Calling, files, process
  <1>3. ASSUME NEW row \in Rows, Sweep(row)
        PROVE  TypeOK'
    <2>1. stage' \in [Rows -> Stages]
      BY <1>3, SettleType DEF Sweep, Stages
    <2> QED
      BY <1>0, <1>3, <2>1 DEF TypeOK, Sweep, files, process, bounds
  <1>4. ASSUME NEW t \in Threads, NEW row \in Rows, BeginApply(t, row)
        PROVE  TypeOK'
    <2>1. /\ stage' \in [Rows -> Stages] /\ call' \in [Threads -> CallStates]
      BY <1>0, <1>4, SettleType, EnterType DEF BeginApply, Stages
    <2> QED
      BY <1>0, <1>4, <2>1 DEF TypeOK, BeginApply, files, process, bounds
  <1>5. ASSUME NEW t \in Threads, NEW row \in Rows, BeginRevoke(t, row)
        PROVE  TypeOK'
    <2>1. /\ stage' \in [Rows -> Stages] /\ call' \in [Threads -> CallStates]
      BY <1>0, <1>5, SettleType, EnterType DEF BeginRevoke, Stages
    <2> QED
      BY <1>0, <1>5, <2>1 DEF TypeOK, BeginRevoke, files, process, bounds
  <1>6. ASSUME NEW t \in Threads, Read(t)
        PROVE  TypeOK'
    <2>1. call[t].row \in Rows
      BY <1>6, RowOfCall DEF Read
    <2>2. /\ call' \in [Threads -> CallStates] /\ stage' \in [Rows -> Stages]
          /\ overlapped' \in BOOLEAN
      <3>1. CASE call[t].op = "revoke" /\ ~HasSid(Published, call[t].row[2])
        BY <1>0, <1>6, <2>1, <3>1, SettleType, LeaveType DEF Read, Stages
      <3>2. CASE ~(call[t].op = "revoke" /\ ~HasSid(Published, call[t].row[2]))
        <4>1. /\ call' = [call EXCEPT ![t].copy = Edit(t), ![t].pc = "open"]
              /\ overlapped' = (overlapped \/ \E u \in Threads : Writing(u))
              /\ stage' = stage
          BY <1>6, <3>2 DEF Read
        <4>2. PICK q \in Seq(Lines) : q = Edit(t)
          BY <2>1, EditType
        <4>3. call' \in [Threads -> CallStates]
          BY <1>0, <4>1, <4>2, EditCopy
        <4> QED
          BY <1>0, <4>1, <4>3
      <3> QED
        BY <3>1, <3>2
    <2> QED
      BY <1>0, <1>6, <2>2 DEF TypeOK, Read, files, process, bounds
  <1>7. ASSUME NEW t \in Threads, OpenTmp(t)
        PROVE  TypeOK'
    <2>1. \E i \in Inodes : /\ disk' = [disk EXCEPT ![i] = <<>>] /\ tmp' = i
                            /\ call' = [call EXCEPT ![t].fd = i, ![t].pc = "fill"]
      BY <1>7, OpensInode
    <2>2. PICK i \in Inodes : /\ disk' = [disk EXCEPT ![i] = <<>>] /\ tmp' = i
                            /\ call' = [call EXCEPT ![t].fd = i, ![t].pc = "fill"]
      BY <2>1
    <2>3. disk' \in [Inodes -> Seq(Lines)]
      BY <1>0, <2>2
    <2>4. call' \in [Threads -> CallStates]
      BY <1>0, <2>2, EditFd
    <2> QED
      BY <1>0, <1>7, <2>2, <2>3, <2>4 DEF TypeOK, OpenTmp, process, bounds
  <1>8. ASSUME NEW t \in Threads, FillTmp(t)
        PROVE  TypeOK'
    <2>1. call[t].fd \in Inodes /\ call[t].copy \in Seq(Lines)
      BY <1>8, RowOfCall, CallType DEF FillTmp
    <2>2. disk' \in [Inodes -> Seq(Lines)]
      <3> DEFINE tail == SubSeq(disk[call[t].fd], Len(call[t].copy) + 1, Len(disk[call[t].fd]))
      <3>1. disk' = [disk EXCEPT ![call[t].fd] = call[t].copy \o tail]
        BY <1>8 DEF FillTmp
      <3>2. tail \in Seq(Lines)
        <4>1. disk[call[t].fd] \in Seq(Lines) /\ Len(call[t].copy) \in Nat
          BY <1>0, <2>1
        <4> QED
          BY <4>1, TailOf
      <3> HIDE DEF tail
      <3>3. call[t].copy \o tail \in Seq(Lines)
        BY <2>1, <3>2
      <3> QED
        BY <1>0, <2>1, <3>1, <3>3
    <2>3. call' \in [Threads -> CallStates]
      <3>1. call' = [call EXCEPT ![t].fd = NoInode, ![t].pc = "replace"]
        BY <1>8 DEF FillTmp
      <3> QED
        BY <1>0, <3>1, EditFd
    <2> QED
      BY <1>0, <1>8, <2>2, <2>3 DEF TypeOK, FillTmp, process, bounds
  <1>9. ASSUME NEW t \in Threads, Replace(t)
        PROVE  TypeOK'
    <2>1. call' \in [Threads -> CallStates] /\ rules' \in Inodes \cup {NoInode}
          /\ tmp' \in Inodes \cup {NoInode}
      <3>1. CASE tmp = NoInode
        BY <1>0, <1>9, <3>1, LeaveType DEF Replace
      <3>2. CASE tmp # NoInode
        <4>1. call' = [call EXCEPT ![t].pc = "check"] /\ rules' = tmp /\ tmp' = NoInode
          BY <1>9, <3>2 DEF Replace, Goto
        <4>2. call' \in [Threads -> CallStates]
          BY <1>0, <4>1, EditPc
        <4> QED
          BY <1>0, <4>1, <4>2
      <3> QED
        BY <3>1, <3>2
    <2> QED
      BY <1>0, <1>9, <2>1 DEF TypeOK, Replace, process, bounds
  <1>10. ASSUME NEW t \in Threads, Check(t)
         PROVE  TypeOK'
    <2>1. call[t].row \in Rows
      BY <1>10, RowOfCall DEF Check
    <2>2. call' \in [Threads -> CallStates]
      BY <1>10, LeaveType DEF Check
    <2>3. PICK s \in Stages : Settle(call[t].row, s)
      BY <1>10 DEF Check, Stages
    <2>4. stage' \in [Rows -> Stages]
      BY <2>1, <2>3, SettleType
    <2> QED
      BY <1>0, <1>10, <2>2, <2>4 DEF TypeOK, Check, files, process, bounds
  <1>11. ASSUME NEW m \in Postures, NEW net \in HomeNets, Restart(m, net)
         PROVE  TypeOK'
    <2>1. m \in Modes /\ net \in SUBSET Decisions
      BY ExporterAssumption
    <2>2. call' \in [Threads -> CallStates]
      BY <1>11, IdleType DEF Restart
    <2>3. claimed' \in [Decisions -> Sids \cup {-1}]
      BY <1>11 DEF Restart
    <2> QED
      BY <1>0, <1>11, <2>1, <2>2, <2>3 DEF TypeOK, Restart, files
  <1> QED
    BY <1>1, <1>2, <1>3, <1>4, <1>5, <1>6, <1>7, <1>8, <1>9, <1>10, <1>11 DEF Next


-----------------------------------------------------------------------------
(* Every line is a recorded row's, of no pair-scoped address.                *)

LEMMA LinePairs ==
  ASSUME NEW line \in Lines
  PROVE  <<line.decision, line.sid>> \in Rows /\ LineOf(<<line.decision, line.sid>>) = line
  BY DEF Lines, Rows, LineOf

(* A row that has been recorded stays in the ledger.                         *)
LEMMA RecordedStays ==
  ASSUME TypeOK, Sound, Next, NEW row \in Rows, Recorded(row)
  PROVE  Recorded(row)'
  <1>0. stage \in [Rows -> Stages] /\ stage[row] # "none"
    BY DEF TypeOK, Recorded
  <1>1. ASSUME NEW r \in Rows, NEW s \in Stages, s # "none", Settle(r, s)
        PROVE  stage'[row] # "none"
    BY <1>0, <1>1 DEF Settle
  <1>2. ASSUME NEW d \in Decisions, Compile(d)
        PROVE  stage'[row] # "none"
    <2>1. PICK s \in NextSid(d) :
            stage' = IF stage[<<d, s>>] = "none"
                     THEN [stage EXCEPT ![<<d, s>>] = "pending"] ELSE stage
      BY <1>2 DEF Compile
    <2> QED
      BY <1>0, <2>1
  <1>3. ASSUME NEW t \in Threads, Read(t)
        PROVE  stage'[row] # "none"
    <2>1. call[t].row \in Rows
      BY <1>3, RowOfCall DEF Read
    <2>2. Settle(call[t].row, "removed") \/ stage' = stage
      BY <1>3 DEF Read
    <2> QED
      BY <1>0, <1>1, <2>1, <2>2 DEF Stages
  <1>4. ASSUME NEW t \in Threads, Check(t)
        PROVE  stage'[row] # "none"
    <2>1. call[t].row \in Rows
      BY <1>4, RowOfCall DEF Check
    <2>2. PICK s \in {"applied", "removed", "drifted"} : Settle(call[t].row, s)
      BY <1>4 DEF Check
    <2> QED
      BY <1>1, <2>1, <2>2 DEF Stages
  <1>5. ASSUME NEW r \in Rows, Sweep(r)
        PROVE  stage'[row] # "none"
    BY <1>1, <1>5 DEF Sweep, Stages
  <1>6. ASSUME NEW t \in Threads, NEW r \in Rows, BeginApply(t, r) \/ BeginRevoke(t, r)
        PROVE  stage'[row] # "none"
    <2>1. PICK s \in {"applying", "failed", "removing"} : Settle(r, s)
      BY <1>6 DEF BeginApply, BeginRevoke
    <2> QED
      BY <1>1, <2>1 DEF Stages
  <1>7. ASSUME stage' = stage
        PROVE  stage'[row] # "none"
    BY <1>0, <1>7
  <1>8. stage'[row] # "none"
    BY <1>2, <1>3, <1>4, <1>5, <1>6, <1>7, Zenon
       DEF Next, Unwant, OpenTmp, FillTmp, Replace, Restart
  <1> QED
    BY <1>8 DEF Recorded

(* So do the lines of any sequence: what was sound is sound after a step.    *)
LEMMA LinesStay ==
  ASSUME TypeOK, Sound, Next, NEW q \in Seq(Lines), LinesSound(q)
  PROVE  LinesSound(q)'
  <1>1. ASSUME NEW i \in DOMAIN q
        PROVE  LineSound(q[i])'
    <2>1. q[i] \in Lines
      OBVIOUS
    <2>2. PICK line \in Lines : line = q[i]
      BY <2>1
    <2>3. Recorded(<<line.decision, line.sid>>) /\ ~PairScoped(line.decision)
      BY <1>1, <2>2 DEF LinesSound, LineSound
    <2>4. PICK row \in Rows : row = <<line.decision, line.sid>>
      BY LinePairs
    <2>5. Recorded(row)'
      BY <2>3, <2>4, RecordedStays
    <2>6. (~PairScoped(line.decision))'
      BY <2>3 DEF PairScoped
    <2> QED
      BY <2>2, <2>4, <2>5, <2>6 DEF LineSound, Recorded, PairScoped
  <1> QED
    BY <1>1 DEF LinesSound

(* An edit keeps lines of the file and adds at most the call's own row's.     *)
LEMMA LinesContain ==
  ASSUME NEW q \in Seq(Lines)
  PROVE  LinesSound(q) <=> \A x \in Lines : Contains(q, x) => LineSound(x)
  <1>1. \A i \in DOMAIN q : q[i] \in Lines
    OBVIOUS
  <1>2. DOMAIN q = 1..Len(q)
    OBVIOUS
  <1> QED
    BY <1>1, <1>2, Zenon DEF LinesSound, Contains

LEMMA EditContains ==
  ASSUME TypeOK, NEW t \in Threads, call[t].row \in Rows
  PROVE  /\ Edit(t) \in Seq(Lines)
         /\ \A x \in Lines : Contains(Edit(t), x) <=> Edited(t, x)
  <1>0. PICK s, line : s = call[t].row[2] /\ line = LineOf(call[t].row)
    OBVIOUS
  <1>1. line \in Lines
    BY <1>0, RowParts
  <1>2. PICK q : q = Without(Published, s)
    OBVIOUS
  <1>3. q \in Seq(Lines) /\ \A x : Contains(q, x) <=> Contains(Published, x) /\ x.sid # s
    BY <1>2, PublishedType, WithoutKeeps
  <1>4. /\ Append(q, line) \in Seq(Lines)
        /\ \A x : Contains(Append(q, line), x) <=> Contains(q, x) \/ x = line
    BY <1>1, <1>3, AppendContains
  <1>5. Edit(t) = IF call[t].op = "apply" THEN Append(q, line) ELSE q
    BY <1>0, <1>2, Zenon DEF Edit
  <1>6. Edit(t) \in Seq(Lines)
    BY <1>3, <1>4, <1>5
  <1>7. CASE call[t].op = "apply"
    <2>1. Edit(t) = Append(q, line)
      BY <1>5, <1>7
    <2>2. \A x : Contains(Edit(t), x) <=> (Contains(Published, x) /\ x.sid # s) \/ x = line
      BY <1>3, <1>4, <2>1, Zenon
    <2> QED
      BY <1>0, <1>6, <1>7, <2>2, Zenon DEF Edited
  <1>8. CASE call[t].op # "apply"
    <2>1. Edit(t) = q
      BY <1>5, <1>8
    <2> QED
      BY <1>0, <1>3, <1>6, <1>8, <2>1, Zenon DEF Edited
  <1> QED
    BY <1>7, <1>8

(* A call whose state and whose row's stage a step leaves alone.             *)
LEMMA CallFrame ==
  ASSUME TypeOK, Sound, Next, NEW u \in Threads, call'[u] = call[u],
         call[u].pc # "idle" => stage'[call[u].row] = stage[call[u].row]
  PROVE  CallSound(u)'
  <1>1. CallSound(u)
    BY DEF Sound
  <1>2. CASE call[u].pc = "idle"
    <2>1. call[u] = Idle
      BY <1>1, <1>2 DEF CallSound
    <2> QED
      BY <1>2, <2>1 DEF CallSound, Idle
  <1>3. CASE call[u].pc # "idle"
    <2>1. PICK c : c = call[u]
      OBVIOUS
    <2>2. /\ c.row \in Rows /\ c.op \in {"apply", "revoke"}
          /\ stage[c.row] = IF c.op = "apply" THEN "applying" ELSE "removing"
          /\ c.op = "apply" => ~PairScoped(c.row[1])
          /\ LinesSound(c.copy)
          /\ c.pc = "fill" <=> c.fd # NoInode
      BY <1>1, <1>3, <2>1, Zenon DEF CallSound
    <2>3. PICK q \in Seq(Lines) : q = c.copy
      BY <2>1, CallType
    <2>4. LinesSound(q)'
      BY <2>2, <2>3, LinesStay
    <2>5. LinesSound(c.copy)'
      BY <2>3, <2>4
    <2>6. call'[u] = c /\ c.pc # "idle" /\ stage'[c.row] = stage[c.row]
      BY <1>3, <2>1
    <2>7. (c.op = "apply" => ~PairScoped(c.row[1]))'
      BY <2>2 DEF PairScoped
    <2> QED
      BY <2>2, <2>5, <2>6, <2>7 DEF CallSound, PairScoped
  <1> QED
    BY <1>2, <1>3

(* One thread's call changes: what has to be shown for the rest to stay.     *)
LEMMA SoundFrame ==
  ASSUME TypeOK, Sound, Next, NEW t \in Threads,
         \A u \in Threads \ {t} :
             /\ call'[u] = call[u]
             /\ call[u].pc # "idle" => stage'[call[u].row] = stage[call[u].row]
             /\ call'[t].pc # "idle" => call[u].row # call'[t].row,
         CallSound(t)',
         \A i \in Inodes : LinesSound(disk[i])',
         (tmp # NoInode => tmp # rules)'
  PROVE  Sound'
  <1>1. ASSUME NEW u \in Threads
        PROVE  CallSound(u)'
    <2>1. CASE u = t
      BY <2>1
    <2>2. CASE u # t
      BY <2>2, CallFrame
    <2> QED
      BY <2>1, <2>2
  <1>2. ASSUME NEW x \in Threads, NEW y \in Threads,
               call'[x].row = call'[y].row, call'[x].pc # "idle"
        PROVE  x = y
    <2>1. CASE x # t /\ y # t
      BY <1>2, <2>1 DEF Sound
    <2>2. CASE x = t /\ y # t
      BY <1>2, <2>2
    <2>3. CASE x # t /\ y = t
      <3>1. call[x] = call'[x] /\ call[x].pc # "idle"
        BY <1>2, <2>3
      <3>2. call[x].row \in Rows
        BY <3>1, RowOfCall
      <3>3. call'[t].pc # "idle" \/ call'[t].row = <<>>
        BY DEF CallSound, Idle
      <3>4. <<>> \notin Rows
        BY DEF Rows
      <3> QED
        BY <1>2, <2>3, <3>1, <3>2, <3>3, <3>4
    <2> QED
      BY <2>1, <2>2, <2>3
  <1> QED
    BY <1>1, <1>2, Zenon DEF Sound

LEMMA DiskStays ==
  ASSUME TypeOK, Sound, Next, NEW i \in Inodes, disk'[i] = disk[i]
  PROVE  LinesSound(disk[i])'
  <1>1. PICK q \in Seq(Lines) : q = disk[i]
    BY DEF TypeOK
  <1>2. LinesSound(q)
    BY <1>1 DEF Sound
  <1>3. LinesSound(q)'
    BY <1>2, LinesStay
  <1> QED
    BY <1>1, <1>3


LEMMA SoundInit ==
  ASSUME Init
  PROVE  Sound
  <1>1. \A i \in Inodes : LinesSound(disk[i])
    BY DEF Init, LinesSound
  <1>2. \A t \in Threads : CallSound(t)
    BY DEF Init, CallSound, Idle
  <1>3. \A t, u \in Threads : call[t].row = call[u].row /\ call[t].pc # "idle" => t = u
    BY DEF Init, Idle
  <1>4. tmp # NoInode => tmp # rules
    BY DEF Init
  <1> QED
    BY <1>1, <1>2, <1>3, <1>4 DEF Sound

(* Two calls that are running have different rows.                           *)
LEMMA RowsDiffer ==
  ASSUME Sound, NEW t \in Threads, NEW u \in Threads \ {t}, call[t].pc # "idle"
  PROVE  call[u].row # call[t].row
  BY DEF Sound

(* A call begins: its row was pending or in force, so no other call has it.  *)
LEMMA BeginsSound ==
  ASSUME TypeOK, Sound, Next, NEW t \in Threads, NEW row \in Rows,
         NEW op \in {"apply", "revoke"},
         stage[row] \in {"pending", "applied", "drifted"},
         Settle(row, IF op = "apply" THEN "applying" ELSE "removing"),
         Enter(t, op, row, "read"),
         op = "apply" => ~PairScoped(row[1]),
         UNCHANGED files
  PROVE  Sound'
  <1>1. call' = [call EXCEPT ![t] = [op |-> op, pc |-> "read", row |-> row, copy |-> <<>>,
                                     fd |-> NoInode]]
    BY Zenon DEF Enter
  <1>2. PICK c : c = [op |-> op, pc |-> "read", row |-> row, copy |-> <<>>, fd |-> NoInode]
    OBVIOUS
  <1>3. c.op = op /\ c.pc = "read" /\ c.row = row /\ c.copy = <<>> /\ c.fd = NoInode
    BY <1>2
  <1>4. call'[t] = c /\ \A u \in Threads \ {t} : call'[u] = call[u]
    BY <1>1, <1>2 DEF TypeOK
  <1>5. /\ stage'[row] = IF op = "apply" THEN "applying" ELSE "removing"
        /\ \A r \in Rows \ {row} : stage'[r] = stage[r]
    BY DEF TypeOK, Settle
  <1>6. ASSUME NEW u \in Threads \ {t}
        PROVE  /\ call[u].row # row
               /\ call[u].pc # "idle" => stage'[call[u].row] = stage[call[u].row]
    <2>1. CASE call[u].pc = "idle"
      <3>1. call[u].row = <<>>
        BY <2>1 DEF Sound, CallSound, Idle
      <3> QED
        BY <2>1, <3>1 DEF Rows
    <2>2. CASE call[u].pc # "idle"
      <3>1. call[u].row \in Rows /\ stage[call[u].row] \in {"applying", "removing"}
        BY <2>2 DEF Sound, CallSound
      <3> QED
        BY <1>5, <3>1
    <2> QED
      BY <2>1, <2>2
  <1>7. LinesSound(c.copy)'
    BY <1>3 DEF LinesSound
  <1>8. (op = "apply" => ~PairScoped(row[1]))'
    BY DEF PairScoped
  <1>9. CallSound(t)'
    BY <1>3, <1>4, <1>5, <1>7, <1>8 DEF CallSound, PairScoped
  <1>10. \A i \in Inodes : LinesSound(disk[i])'
    BY DiskStays DEF files
  <1>11. (tmp # NoInode => tmp # rules)'
    BY DEF Sound, files
  <1> QED
    BY <1>3, <1>4, <1>6, <1>9, <1>10, <1>11, SoundFrame

(* A call ends: its row's stage may change, nobody else's does.              *)
LEMMA EndsSound ==
  ASSUME TypeOK, Sound, Next, NEW t \in Threads, call[t].pc # "idle",
         Leave(t), stage' = stage \/ \E s \in Stages : Settle(call[t].row, s),
         disk' = disk, (tmp # NoInode => tmp # rules)'
  PROVE  Sound'
  <1>1. call'[t] = Idle /\ \A u \in Threads \ {t} : call'[u] = call[u]
    BY DEF Leave, TypeOK
  <1>2. call[t].row \in Rows
    BY RowOfCall
  <1>3. \A r \in Rows : r # call[t].row => stage'[r] = stage[r]
    BY <1>2 DEF TypeOK, Settle
  <1>4. ASSUME NEW u \in Threads \ {t}, call[u].pc # "idle"
        PROVE  stage'[call[u].row] = stage[call[u].row]
    <2>1. call[u].row # call[t].row /\ call[u].row \in Rows
      BY <1>4, RowOfCall, RowsDiffer
    <2> QED
      BY <1>3, <2>1
  <1>5. call'[t].pc = "idle"
    BY <1>1 DEF Idle
  <1>6. CallSound(t)'
    BY <1>1, <1>5 DEF CallSound, Idle
  <1>7. \A i \in Inodes : LinesSound(disk[i])'
    BY DiskStays
  <1> QED
    BY <1>1, <1>4, <1>5, <1>6, <1>7, SoundFrame

(* A call goes on: its row and its operation stay.                           *)
LEMMA GoesSound ==
  ASSUME TypeOK, Sound, Next, NEW t \in Threads, call[t].pc # "idle",
         NEW q \in Seq(Lines), LinesSound(q), NEW fd, NEW pc, pc # "idle",
         pc = "fill" <=> fd # NoInode,
         \A u \in Threads \ {t} : call'[u] = call[u],
         call'[t].op = call[t].op, call'[t].row = call[t].row,
         call'[t].copy = q, call'[t].fd = fd, call'[t].pc = pc,
         stage' = stage,
         \A i \in Inodes : LinesSound(disk[i])',
         (tmp # NoInode => tmp # rules)'
  PROVE  Sound'
  <1>1. LinesSound(q)'
    BY LinesStay
  <1>2. PICK c : c = call'[t]
    OBVIOUS
  <1>3. /\ c.row \in Rows /\ c.op \in {"apply", "revoke"}
        /\ stage[c.row] = IF c.op = "apply" THEN "applying" ELSE "removing"
        /\ c.op = "apply" => ~PairScoped(c.row[1])
    BY <1>2 DEF Sound, CallSound
  <1>4. (c.op = "apply" => ~PairScoped(c.row[1]))'
    BY <1>3 DEF PairScoped
  <1>5. LinesSound(c.copy)'
    BY <1>1, <1>2
  <1>6. c.pc # "idle" /\ (c.pc = "fill" <=> c.fd # NoInode)
    BY <1>2
  <1>7. CallSound(t)'
    BY <1>2, <1>3, <1>4, <1>5, <1>6 DEF CallSound, PairScoped
  <1>8. \A u \in Threads \ {t} : call[u].row # call'[t].row
    BY RowsDiffer
  <1> QED
    BY <1>7, <1>8, SoundFrame


LEMMA ConcatSound ==
  ASSUME NEW q \in Seq(Lines), NEW r \in Seq(Lines), LinesSound(q), LinesSound(r)
  PROVE  q \o r \in Seq(Lines) /\ LinesSound(q \o r)
  <1>1. /\ q \o r \in Seq(Lines) /\ DOMAIN (q \o r) = 1..(Len(q) + Len(r))
        /\ \A i \in DOMAIN (q \o r) : (q \o r)[i] = IF i <= Len(q) THEN q[i] ELSE r[i - Len(q)]
    OBVIOUS
  <1>2. \A i \in 1..(Len(q) + Len(r)) : i \in DOMAIN q \/ (i > Len(q) /\ i - Len(q) \in DOMAIN r)
    OBVIOUS
  <1>3. ASSUME NEW i \in DOMAIN (q \o r)
        PROVE  LineSound((q \o r)[i])
    <2>1. CASE i \in DOMAIN q
      <3>1. i <= Len(q)
        BY <2>1
      <3>2. (q \o r)[i] = q[i]
        BY <1>1, <3>1
      <3> QED
        BY <2>1, <3>2, Zenon DEF LinesSound
    <2>2. CASE i > Len(q) /\ i - Len(q) \in DOMAIN r
      <3>1. (q \o r)[i] = r[i - Len(q)]
        BY <1>1, <2>2
      <3> QED
        BY <2>2, <3>1, Zenon DEF LinesSound
    <2> QED
      BY <1>1, <1>2, <2>1, <2>2
  <1> QED
    BY <1>1, <1>3 DEF LinesSound

LEMMA SoundStep ==
  ASSUME TypeOK, Sound, Next
  PROVE  Sound'
  <1>0. /\ disk \in [Inodes -> Seq(Lines)] /\ call \in [Threads -> CallStates]
        /\ stage \in [Rows -> Stages]
        /\ \A i \in Inodes : disk[i] \in Seq(Lines) /\ LinesSound(disk[i])
    BY DEF TypeOK, Sound
  <1>1. ASSUME stage' = stage \/ \E r \in Rows : stage[r] \notin {"applying", "removing"}
                                     /\ \A x \in Rows \ {r} : stage'[x] = stage[x],
               disk' = disk, rules' = rules, tmp' = tmp, call' = call
        PROVE  Sound'
    <2>1. ASSUME NEW u \in Threads
          PROVE  CallSound(u)'
      <3>1. ASSUME call[u].pc # "idle"
            PROVE  stage'[call[u].row] = stage[call[u].row]
        <4>1. call[u].row \in Rows /\ stage[call[u].row] \in {"applying", "removing"}
          BY <3>1 DEF Sound, CallSound
        <4> QED
          BY <1>1, <4>1
      <3> QED
        BY <1>1, <3>1, CallFrame
    <2>2. \A i \in Inodes : LinesSound(disk[i])'
      BY <1>1, DiskStays
    <2> QED
      BY <1>1, <2>1, <2>2, Zenon DEF Sound
  <1>2. ASSUME NEW d \in Decisions, Compile(d)
        PROVE  Sound'
    <2>1. PICK s \in NextSid(d) :
            stage' = IF stage[<<d, s>>] = "none"
                     THEN [stage EXCEPT ![<<d, s>>] = "pending"] ELSE stage
      BY <1>2 DEF Compile
    <2>2. <<d, s>> \in Rows
      BY <2>1, NextSidType DEF Rows
    <2> QED
      BY <1>0, <1>1, <1>2, <2>1, <2>2 DEF Compile, files
  <1>3. ASSUME NEW row \in Rows, Unwant(row)
        PROVE  Sound'
    BY <1>1, <1>3 DEF Unwant, files
  <1>4. ASSUME NEW row \in Rows, Sweep(row)
        PROVE  Sound'
    <2>1. disk' = disk /\ tmp' = tmp /\ rules' = rules /\ call' = call /\ Stuck(row)
      BY <1>4 DEF Sweep, files
    <2>2. \A r \in Rows \ {row} : stage'[r] = stage[r]
      BY <1>0, <1>4 DEF Sweep, Settle
    <2>3. ASSUME NEW u \in Threads
          PROVE  CallSound(u)'
      <3>1. ASSUME call[u].pc # "idle"
            PROVE  stage'[call[u].row] = stage[call[u].row]
        BY <2>1, <2>2, <3>1, RowOfCall DEF Stuck
      <3> QED
        BY <2>1, <3>1, CallFrame
    <2>4. \A i \in Inodes : LinesSound(disk[i])'
      BY <2>1, DiskStays
    <2> QED
      BY <2>1, <2>3, <2>4, Zenon DEF Sound
  <1>5. ASSUME NEW t \in Threads, NEW row \in Rows, BeginApply(t, row)
        PROVE  Sound'
    <2>1. CASE Settle(row, "applying") /\ Enter(t, "apply", row, "read")
               /\ Valid(row[1], TRUE)
      <3>1. ~PairScoped(row[1]) /\ stage[row] = "pending" /\ UNCHANGED files
        BY <1>5, <2>1 DEF BeginApply, Valid, PairScoped
      <3> QED
        BY <2>1, <3>1, BeginsSound
    <2>2. CASE Settle(row, "failed") /\ UNCHANGED call
      BY <1>0, <1>1, <1>5, <2>2 DEF BeginApply, Settle, files
    <2> QED
      BY <1>5, <2>1, <2>2, Zenon DEF BeginApply
  <1>6. ASSUME NEW t \in Threads, NEW row \in Rows, BeginRevoke(t, row)
        PROVE  Sound'
    <2>1. /\ Settle(row, "removing") /\ Enter(t, "revoke", row, "read") /\ UNCHANGED files
          /\ stage[row] \in {"applied", "drifted"}
      BY <1>6 DEF BeginRevoke
    <2> QED
      BY <2>1, BeginsSound
  <1>7. ASSUME NEW t \in Threads, Read(t)
        PROVE  Sound'
    <2>0. call[t].pc = "read" /\ disk' = disk /\ tmp' = tmp /\ rules' = rules
      BY <1>7 DEF Read, files
    <2>1. call[t].row \in Rows /\ (tmp # NoInode => tmp # rules)'
      BY <2>0, RowOfCall DEF Sound
    <2>2. CASE Settle(call[t].row, "removed") /\ Leave(t)
      BY <2>0, <2>1, <2>2, EndsSound DEF Stages
    <2>3. CASE call' = [call EXCEPT ![t].copy = Edit(t), ![t].pc = "open"] /\ stage' = stage
      <3>1. PICK q \in Seq(Lines) : q = Edit(t) /\ \A x \in Lines : Contains(q, x) <=> Edited(t, x)
        BY <2>1, EditContains
      <3>2. ASSUME NEW x \in Lines, Edited(t, x)
            PROVE  LineSound(x)
        <4>1. CASE Contains(Published, x)
          <5>1. Published \in Seq(Lines) /\ LinesSound(Published)
            <6>1. LinesSound(<<>>)
              BY DEF LinesSound
            <6> QED
              BY <1>0, <6>1, PublishedType DEF Published, TypeOK
          <5> QED
            BY <4>1, <5>1, LinesContain
        <4>2. CASE call[t].op = "apply" /\ x = LineOf(call[t].row)
          <5>1. stage[call[t].row] = "applying" /\ ~PairScoped(call[t].row[1])
            BY <2>0, <4>2 DEF Sound, CallSound
          <5>2. x.decision = call[t].row[1] /\ <<x.decision, x.sid>> = call[t].row
            BY <2>1, <4>2, RowParts DEF LineOf
          <5> QED
            BY <5>1, <5>2 DEF LineSound, Recorded
        <4> QED
          BY <3>2, <4>1, <4>2 DEF Edited
      <3>3. LinesSound(q)
        BY <3>1, <3>2, LinesContain
      <3>4. call[t].fd = NoInode
        BY <2>0, CallType DEF Sound, CallSound
      <3>5. /\ \A u \in Threads \ {t} : call'[u] = call[u]
            /\ call'[t].op = call[t].op /\ call'[t].row = call[t].row
            /\ call'[t].copy = q /\ call'[t].fd = NoInode /\ call'[t].pc = "open"
        <4>1. PICK c \in CallStates : c = call[t]
          BY <1>0
        <4>2. call'[t] = [c EXCEPT !.copy = q, !.pc = "open"]
          BY <1>0, <2>3, <3>1, <4>1
        <4> QED
          BY <1>0, <2>3, <3>4, <4>1, <4>2 DEF CallStates
      <3>6. \A i \in Inodes : LinesSound(disk[i])'
        BY <2>0, DiskStays
      <3> QED
        BY <2>0, <2>1, <2>3, <3>3, <3>5, <3>6, GoesSound
    <2> QED
      BY <1>7, <2>2, <2>3, Zenon DEF Read
  <1>8. ASSUME NEW t \in Threads, OpenTmp(t)
        PROVE  Sound'
    <2>1. PICK i \in Inodes :
            /\ i \in {tmp} \/ (tmp = NoInode /\ i # rules /\ \A u \in Threads : i # call[u].fd)
            /\ disk' = [disk EXCEPT ![i] = <<>>] /\ tmp' = i
            /\ call' = [call EXCEPT ![t].fd = i, ![t].pc = "fill"]
      BY <1>8, OpensInode
    <2>2. call[t].pc = "open" /\ rules' = rules /\ stage' = stage
      BY <1>8 DEF OpenTmp
    <2>3. i # NoInode /\ i # rules
      BY <2>1, SidsAre DEF Sound
    <2>4. ASSUME NEW j \in Inodes
          PROVE  LinesSound(disk[j])'
      <3>1. CASE j = i
        <4>1. disk'[j] = <<>>
          BY <1>0, <2>1, <3>1
        <4> QED
          BY <4>1 DEF LinesSound
      <3>2. CASE j # i
        BY <1>0, <2>1, <3>2, DiskStays
      <3> QED
        BY <3>1, <3>2
    <2>5. PICK q \in Seq(Lines) : q = call[t].copy
      BY CallType
    <2>6. LinesSound(q)
      BY <2>2, <2>5 DEF Sound, CallSound
    <2>7. /\ \A u \in Threads \ {t} : call'[u] = call[u]
          /\ call'[t].op = call[t].op /\ call'[t].row = call[t].row
          /\ call'[t].copy = q /\ call'[t].fd = i /\ call'[t].pc = "fill"
      <3>1. PICK c \in CallStates : c = call[t]
        BY <1>0
      <3>2. call'[t] = [c EXCEPT !.fd = i, !.pc = "fill"]
        BY <1>0, <2>1, <3>1
      <3> QED
        BY <1>0, <2>1, <2>5, <3>1, <3>2 DEF CallStates
    <2> QED
      <3>1. (tmp # NoInode => tmp # rules)'
        BY <2>1, <2>2, <2>3
      <3>2. \A j \in Inodes : LinesSound(disk[j])'
        BY <2>4
      <3> QED
        BY <2>2, <2>3, <2>6, <2>7, <3>1, <3>2, GoesSound
  <1>9. ASSUME NEW t \in Threads, FillTmp(t)
        PROVE  Sound'
    <2>1. call[t].pc = "fill" /\ rules' = rules /\ tmp' = tmp /\ stage' = stage
      BY <1>9 DEF FillTmp
    <2>2. PICK q \in Seq(Lines) : q = call[t].copy
      BY CallType
    <2>3. LinesSound(q)
      BY <2>1, <2>2 DEF Sound, CallSound
    <2>4. PICK fd \in Inodes : fd = call[t].fd
      BY <2>1, RowOfCall, CallType
    <2>5. PICK old \in Seq(Lines) : old = disk[fd] /\ LinesSound(old)
      BY <1>0
    <2>6. PICK tail : tail = SubSeq(old, Len(q) + 1, Len(old))
      OBVIOUS
    <2>7. tail \in Seq(Lines) /\ \A j \in DOMAIN tail : Len(q) + j \in DOMAIN old /\ tail[j] = old[Len(q) + j]
      <3>1. Len(q) \in Nat
        OBVIOUS
      <3> QED
        BY <2>6, <3>1, TailOf
    <2>8. disk' = [disk EXCEPT ![fd] = q \o tail]
      BY <1>9, <2>2, <2>4, <2>5, <2>6, Zenon DEF FillTmp
    <2>9. LinesSound(tail)
      BY <2>5, <2>7, Zenon DEF LinesSound
    <2>10. q \o tail \in Seq(Lines) /\ LinesSound(q \o tail)
      BY <2>3, <2>7, <2>9, ConcatSound
    <2>11. ASSUME NEW j \in Inodes
           PROVE  LinesSound(disk[j])'
      <3>1. CASE j = fd
        <4>1. PICK r \in Seq(Lines) : r = q \o tail /\ LinesSound(r)
          BY <2>10
        <4>2. disk'[j] = r
          BY <1>0, <2>8, <3>1, <4>1
        <4>3. LinesSound(r)'
          BY <4>1, LinesStay
        <4> QED
          BY <4>2, <4>3
      <3>2. CASE j # fd
        BY <1>0, <2>8, <3>2, DiskStays
      <3> QED
        BY <3>1, <3>2
    <2>12. /\ \A u \in Threads \ {t} : call'[u] = call[u]
           /\ call'[t].op = call[t].op /\ call'[t].row = call[t].row
           /\ call'[t].copy = q /\ call'[t].fd = NoInode /\ call'[t].pc = "replace"
      <3>0. call' = [call EXCEPT ![t].fd = NoInode, ![t].pc = "replace"]
        BY <1>9 DEF FillTmp
      <3>1. PICK c \in CallStates : c = call[t]
        BY <1>0
      <3>2. call'[t] = [c EXCEPT !.fd = NoInode, !.pc = "replace"]
        BY <1>0, <3>0, <3>1
      <3> QED
        BY <1>0, <2>2, <3>0, <3>1, <3>2 DEF CallStates
    <2>13. (tmp # NoInode => tmp # rules)'
      BY <2>1 DEF Sound
    <2> QED
      BY <2>1, <2>3, <2>11, <2>12, <2>13, GoesSound
  <1>10. ASSUME NEW t \in Threads, Replace(t)
         PROVE  Sound'
    <2>1. call[t].pc = "replace" /\ disk' = disk /\ stage' = stage
      BY <1>10 DEF Replace
    <2>2. CASE tmp = NoInode
      <3>1. Leave(t) /\ tmp' = tmp /\ rules' = rules
        BY <1>10, <2>2 DEF Replace
      <3> QED
        BY <2>1, <2>2, <3>1, EndsSound
    <2>3. CASE tmp # NoInode
      <3>1. tmp' = NoInode /\ call' = [call EXCEPT ![t].pc = "check"]
        BY <1>10, <2>3 DEF Replace, Goto
      <3>2. PICK q \in Seq(Lines) : q = call[t].copy
        BY CallType
      <3>3. LinesSound(q) /\ call[t].fd = NoInode
        BY <2>1, <3>2 DEF Sound, CallSound
      <3>4. /\ \A u \in Threads \ {t} : call'[u] = call[u]
            /\ call'[t].op = call[t].op /\ call'[t].row = call[t].row
            /\ call'[t].copy = q /\ call'[t].fd = NoInode /\ call'[t].pc = "check"
        <4>1. PICK c \in CallStates : c = call[t]
          BY <1>0
        <4>2. call'[t] = [c EXCEPT !.pc = "check"]
          BY <1>0, <3>1, <4>1
        <4> QED
          BY <1>0, <3>1, <3>2, <3>3, <4>1, <4>2 DEF CallStates
      <3>5. \A i \in Inodes : LinesSound(disk[i])'
        BY <2>1, DiskStays
      <3> QED
        BY <2>1, <3>1, <3>3, <3>4, <3>5, GoesSound
    <2> QED
      BY <2>2, <2>3
  <1>11. ASSUME NEW t \in Threads, Check(t)
         PROVE  Sound'
    <2>1. call[t].pc = "check" /\ Leave(t) /\ disk' = disk /\ tmp' = tmp /\ rules' = rules
      BY <1>11 DEF Check, files
    <2>2. PICK s \in Stages : Settle(call[t].row, s)
      BY <1>11 DEF Check, Stages
    <2>3. (tmp # NoInode => tmp # rules)'
      BY <2>1 DEF Sound
    <2> QED
      BY <2>1, <2>2, <2>3, EndsSound
  <1>12. ASSUME NEW m \in Postures, NEW net \in HomeNets, Restart(m, net)
         PROVE  Sound'
    <2>1. call' = [t \in Threads |-> Idle] /\ disk' = disk /\ tmp' = tmp /\ rules' = rules
      BY <1>12 DEF Restart, files
    <2>2. \A u \in Threads : call'[u] = Idle /\ call'[u].pc = "idle"
      BY <2>1 DEF Idle
    <2>3. \A u \in Threads : CallSound(u)'
      BY <2>2 DEF CallSound
    <2>4. \A i \in Inodes : LinesSound(disk[i])'
      BY <2>1, DiskStays
    <2>5. (\A t, u \in Threads : call[t].row = call[u].row /\ call[t].pc # "idle" => t = u)'
      BY <2>2
    <2>6. (tmp # NoInode => tmp # rules)'
      BY <2>1 DEF Sound
    <2> QED
      BY <2>3, <2>4, <2>5, <2>6, Zenon DEF Sound
  <1> QED
    BY <1>2, <1>3, <1>4, <1>5, <1>6, <1>7, <1>8, <1>9, <1>10, <1>11, <1>12, Zenon DEF Next


-----------------------------------------------------------------------------
(* One writer at a time has the temporary file to itself.                    *)

LEMMA PublishedStays ==
  ASSUME rules' = rules, rules # NoInode => disk'[rules] = disk[rules]
  PROVE  Published' = Published
  BY DEF Published

LEMMA PublishedSound ==
  ASSUME TypeOK, Sound
  PROVE  LinesSound(Published)
  <1>1. LinesSound(<<>>)
    BY DEF LinesSound
  <1> QED
    BY <1>1 DEF Published, TypeOK, Sound

(* Who was not writing may do as it likes outside the files.                 *)
LEMMA ExclusiveFrame ==
  ASSUME Exclusive, ~overlapped' => ~overlapped, UNCHANGED files,
         \A u \in Threads : Writing(u)' => Writing(u) /\ call'[u] = call[u]
  PROVE  Exclusive'
  <1>1. Published' = Published /\ tmp' = tmp /\ disk' = disk
    BY PublishedStays DEF files
  <1>2. ASSUME ~overlapped', NEW t \in Threads, Writing(t)'
        PROVE  WritesAlone(t)'
    <2>1. WritesAlone(t) /\ call'[t] = call[t]
      BY <1>2 DEF Exclusive
    <2>2. \A u \in Threads : Writing(u)' => u = t
      BY <2>1 DEF WritesAlone
    <2> QED
      BY <1>1, <2>1, <2>2 DEF WritesAlone, Edited
  <1> QED
    BY <1>2 DEF Exclusive

(* A step of the one that writes, which leaves the ruleset as it was.        *)
LEMMA WriterStep ==
  ASSUME TypeOK, Exclusive, NEW t \in Threads, Writing(t), ~overlapped,
         \A u \in Threads \ {t} : call'[u] = call[u],
         call'[t].op = call[t].op, call'[t].row = call[t].row, call'[t].copy = call[t].copy,
         Published' = Published,
         (call[t].pc = "fill" => call[t].fd = tmp /\ disk[tmp] = <<>>)',
         (call[t].pc = "replace" => tmp # NoInode /\ disk[tmp] = call[t].copy)'
  PROVE  Exclusive'
  <1>1. WritesAlone(t)
    BY DEF Exclusive
  <1>2. \A u \in Threads : Writing(u)' => u = t
    BY <1>1 DEF WritesAlone, Writing
  <1>3. \A line \in Lines : (Contains(call[t].copy, line) <=> Edited(t, line))'
    BY <1>1 DEF WritesAlone, Edited
  <1>4. WritesAlone(t)'
    BY <1>2, <1>3 DEF WritesAlone
  <1> QED
    BY <1>2, <1>4 DEF Exclusive

LEMMA ExclusiveStep ==
  ASSUME TypeOK, Sound, Exclusive, Next
  PROVE  Exclusive'
  <1>0. /\ disk \in [Inodes -> Seq(Lines)] /\ call \in [Threads -> CallStates]
    BY DEF TypeOK
  <1>1. ASSUME UNCHANGED <<files, call, overlapped>>
        PROVE  Exclusive'
    <2>1. \A u \in Threads : Writing(u)' => Writing(u) /\ call'[u] = call[u]
      BY <1>1 DEF Writing
    <2> QED
      BY <1>1, <2>1, ExclusiveFrame
  <1>2. ASSUME NEW t \in Threads, NEW c, call' = [call EXCEPT ![t] = c],
               c.pc \notin {"open", "fill", "replace"}, UNCHANGED <<files, overlapped>>
        PROVE  Exclusive'
    <2>1. \A u \in Threads : Writing(u)' => Writing(u) /\ call'[u] = call[u]
      BY <1>0, <1>2 DEF Writing
    <2> QED
      BY <1>2, <2>1, ExclusiveFrame
  <1>3. ASSUME NEW d \in Decisions, Compile(d)
        PROVE  Exclusive'
    BY <1>1, <1>3 DEF Compile
  <1>4. ASSUME NEW row \in Rows, Unwant(row) \/ Sweep(row)
        PROVE  Exclusive'
    BY <1>1, <1>4 DEF Unwant, Sweep
  <1>5. ASSUME NEW t \in Threads, NEW row \in Rows, BeginApply(t, row) \/ BeginRevoke(t, row)
        PROVE  Exclusive'
    <2>1. CASE call' = call
      BY <1>1, <1>5, <2>1 DEF BeginApply, BeginRevoke
    <2>2. CASE \E op : Enter(t, op, row, "read")
      <3>1. PICK op : call' = [call EXCEPT ![t] = [op |-> op, pc |-> "read", row |-> row,
                                                   copy |-> <<>>, fd |-> NoInode]]
        BY <2>2 DEF Enter
      <3>2. PICK c : c = [op |-> op, pc |-> "read", row |-> row, copy |-> <<>>, fd |-> NoInode]
        OBVIOUS
      <3> QED
        BY <1>2, <1>5, <3>1, <3>2 DEF BeginApply, BeginRevoke
    <2> QED
      BY <1>5, <2>1, <2>2 DEF BeginApply, BeginRevoke
  <1>6. ASSUME NEW t \in Threads, Read(t)
        PROVE  Exclusive'
    <2>1. CASE Leave(t) /\ UNCHANGED overlapped
      BY <1>2, <1>6, <2>1 DEF Read, Leave, Idle
    <2>2. CASE /\ call' = [call EXCEPT ![t].copy = Edit(t), ![t].pc = "open"]
               /\ overlapped' = (overlapped \/ \E u \in Threads : Writing(u))
      <3> SUFFICES ASSUME ~overlapped'
                   PROVE  \A u \in Threads : Writing(u)' => WritesAlone(u)'
        BY DEF Exclusive
      <3>1. \A u \in Threads : ~Writing(u)
        BY <2>2
      <3>2. call[t].pc = "read" /\ call[t].row \in Rows
        BY <1>6, RowOfCall DEF Read
      <3>3. PICK q \in Seq(Lines) : q = Edit(t) /\ \A x \in Lines : Contains(q, x) <=> Edited(t, x)
        BY <3>2, EditContains
      <3>4. /\ \A u \in Threads \ {t} : call'[u] = call[u]
            /\ call'[t].op = call[t].op /\ call'[t].row = call[t].row
            /\ call'[t].copy = q /\ call'[t].pc = "open"
        <4>1. PICK c \in CallStates : c = call[t]
          BY <1>0
        <4>2. call'[t] = [c EXCEPT !.copy = q, !.pc = "open"]
          BY <1>0, <2>2, <3>3, <4>1
        <4> QED
          BY <1>0, <2>2, <4>1, <4>2 DEF CallStates
      <3>5. \A u \in Threads : Writing(u)' => u = t
        BY <3>1, <3>4 DEF Writing
      <3>6. Published' = Published
        BY <1>6, PublishedStays DEF Read, files
      <3>7. \A line \in Lines : (Contains(call[t].copy, line) <=> Edited(t, line))'
        BY <3>3, <3>4, <3>6 DEF Edited
      <3>8. WritesAlone(t)'
        BY <3>4, <3>5, <3>7 DEF WritesAlone
      <3> QED
        BY <3>5, <3>8
    <2> QED
      BY <1>6, <2>1, <2>2, Zenon DEF Read
  <1>7. ASSUME NEW t \in Threads, OpenTmp(t)
        PROVE  Exclusive'
    <2> SUFFICES ASSUME ~overlapped'
                 PROVE  Exclusive'
      BY DEF Exclusive
    <2>1. PICK i \in Inodes :
            /\ i \in {tmp} \/ (tmp = NoInode /\ i # rules /\ \A u \in Threads : i # call[u].fd)
            /\ disk' = [disk EXCEPT ![i] = <<>>] /\ tmp' = i
            /\ call' = [call EXCEPT ![t].fd = i, ![t].pc = "fill"]
      BY <1>7, OpensInode
    <2>2. Writing(t) /\ ~overlapped /\ rules' = rules
      BY <1>7 DEF OpenTmp, Writing
    <2>3. i # NoInode /\ i # rules
      BY <2>1, SidsAre DEF Sound
    <2>4. Published' = Published
      BY <1>0, <2>1, <2>2, <2>3, PublishedStays DEF TypeOK
    <2>5. /\ \A u \in Threads \ {t} : call'[u] = call[u]
          /\ call'[t].op = call[t].op /\ call'[t].row = call[t].row
          /\ call'[t].copy = call[t].copy /\ call'[t].fd = i /\ call'[t].pc = "fill"
      <3>1. PICK c \in CallStates : c = call[t]
        BY <1>0
      <3>2. call'[t] = [c EXCEPT !.fd = i, !.pc = "fill"]
        BY <1>0, <2>1, <3>1
      <3> QED
        BY <1>0, <2>1, <3>1, <3>2 DEF CallStates
    <2>6. disk'[tmp'] = <<>>
      BY <1>0, <2>1
    <2> QED
      BY <2>1, <2>2, <2>4, <2>5, <2>6, WriterStep
  <1>8. ASSUME NEW t \in Threads, FillTmp(t)
        PROVE  Exclusive'
    <2> SUFFICES ASSUME ~overlapped'
                 PROVE  Exclusive'
      BY DEF Exclusive
    <2>1. /\ Writing(t) /\ ~overlapped /\ rules' = rules /\ tmp' = tmp /\ call[t].pc = "fill"
          /\ call' = [call EXCEPT ![t].fd = NoInode, ![t].pc = "replace"]
      BY <1>8 DEF FillTmp, Writing
    <2>2. call[t].fd = tmp /\ disk[tmp] = <<>> /\ tmp \in Inodes /\ tmp # rules
      <3>1. call[t].fd = tmp /\ disk[tmp] = <<>>
        BY <2>1 DEF Exclusive, WritesAlone
      <3>2. call[t].fd \in Inodes
        BY <2>1, RowOfCall, CallType
      <3> QED
        BY <3>1, <3>2, SidsAre DEF Sound
    <2>3. PICK q \in Seq(Lines) : q = call[t].copy
      BY CallType
    <2>4. disk' = [disk EXCEPT ![tmp] = q \o SubSeq(<<>>, Len(q) + 1, Len(<<>>))]
      BY <1>8, <2>2, <2>3, Zenon DEF FillTmp
    <2>5. q \o SubSeq(<<>>, Len(q) + 1, Len(<<>>)) = q
      <3>1. Len(q) + 1 > 0 /\ Len(q) \in Nat
        OBVIOUS
      <3>2. SubSeq(<<>>, Len(q) + 1, Len(<<>>)) = <<>>
        BY <3>1
      <3> QED
        BY <3>2
    <2>6. disk' = [disk EXCEPT ![tmp] = q]
      BY <2>4, <2>5
    <2>7. Published' = Published
      BY <1>0, <2>1, <2>2, <2>6, PublishedStays DEF TypeOK
    <2>8. /\ \A u \in Threads \ {t} : call'[u] = call[u]
          /\ call'[t].op = call[t].op /\ call'[t].row = call[t].row
          /\ call'[t].copy = call[t].copy /\ call'[t].pc = "replace"
      <3>1. PICK c \in CallStates : c = call[t]
        BY <1>0
      <3>2. call'[t] = [c EXCEPT !.fd = NoInode, !.pc = "replace"]
        BY <1>0, <2>1, <3>1
      <3> QED
        BY <1>0, <2>1, <3>1, <3>2 DEF CallStates
    <2>9. disk'[tmp'] = call'[t].copy /\ tmp' # NoInode
      BY <1>0, <2>1, <2>2, <2>3, <2>6, <2>8, SidsAre
    <2> QED
      BY <2>1, <2>7, <2>8, <2>9, WriterStep
  <1>9. ASSUME NEW t \in Threads, Replace(t)
        PROVE  Exclusive'
    <2>1. CASE tmp = NoInode
      <3>1. Leave(t) /\ UNCHANGED <<files, overlapped>>
        BY <1>9, <2>1 DEF Replace, files
      <3> QED
        BY <1>2, <3>1 DEF Leave, Idle
    <2>2. CASE tmp # NoInode
      <3> SUFFICES ASSUME ~overlapped'
                   PROVE  \A u \in Threads : Writing(u)' => WritesAlone(u)'
        BY DEF Exclusive
      <3>1. ~overlapped /\ Writing(t) /\ call' = [call EXCEPT ![t].pc = "check"]
        BY <1>9, <2>2 DEF Replace, Goto, Writing
      <3>2. \A u \in Threads \ {t} : ~Writing(u) /\ call'[u] = call[u]
        BY <1>0, <3>1 DEF Exclusive, WritesAlone
      <3>3. call'[t].pc = "check"
        BY <1>0, <3>1 DEF CallStates
      <3>4. \A u \in Threads : ~Writing(u)'
        BY <3>2, <3>3 DEF Writing
      <3> QED
        BY <3>4
    <2> QED
      BY <2>1, <2>2
  <1>10. ASSUME NEW t \in Threads, Check(t)
         PROVE  Exclusive'
    BY <1>2, <1>10 DEF Check, Leave, Idle
  <1>11. ASSUME NEW m \in Postures, NEW net \in HomeNets, Restart(m, net)
         PROVE  Exclusive'
    <2>1. \A u \in Threads : ~Writing(u)'
      BY <1>11 DEF Restart, Idle, Writing
    <2> QED
      BY <2>1 DEF Exclusive
  <1> QED
    BY <1>3, <1>4, <1>5, <1>6, <1>7, <1>8, <1>9, <1>10, <1>11, Zenon DEF Next


-----------------------------------------------------------------------------
(* The export and the ledger.                                                *)

(* No line on the file has a recorded row's SID but that row's: the others    *)
(* are recorded too, and would share it.                                     *)
LEMMA SidIsLine ==
  ASSUME TypeOK, Sound, ~SharedSid, NEW row \in Rows, Recorded(row)
  PROVE  HasSid(Published, row[2]) <=> Contains(Published, LineOf(row))
  <1>1. PICK q \in Seq(Lines) : q = Published /\ LinesSound(q)
    BY PublishedType, PublishedSound
  <1>2. /\ DOMAIN q = 1..Len(q) /\ \A i \in DOMAIN q : q[i] \in Lines
    OBVIOUS
  <1>3. ASSUME NEW i \in DOMAIN q, q[i].sid = row[2]
        PROVE  q[i] = LineOf(row)
    <2>1. PICK line \in Lines : line = q[i]
      BY <1>2
    <2>2. PICK r \in Rows : r = <<line.decision, line.sid>> /\ line = LineOf(r)
      BY LinePairs
    <2>3. stage[r] # "none" /\ r[2] = row[2]
      BY <1>1, <1>3, <2>1, <2>2 DEF LinesSound, LineSound, Recorded
    <2>4. r[1] = row[1]
      BY <2>3 DEF SharedSid, Recorded
    <2> QED
      BY <2>1, <2>2, <2>3, <2>4 DEF LineOf
  <1>4. \A i \in DOMAIN q : q[i] = LineOf(row) => q[i].sid = row[2]
    BY DEF LineOf
  <1>5. HasSid(q, row[2]) <=> \E i \in DOMAIN q : q[i].sid = row[2]
    BY DEF HasSid
  <1>6. Contains(q, LineOf(row)) <=> \E i \in DOMAIN q : q[i] = LineOf(row)
    BY <1>2, Zenon DEF Contains
  <1> QED
    BY <1>1, <1>3, <1>4, <1>5, <1>6

LEMMA SharedStays ==
  ASSUME TypeOK, Sound, Next, SharedSid
  PROVE  SharedSid'
  <1>1. PICK r, s \in Rows : r[1] # s[1] /\ r[2] = s[2] /\ stage[r] # "none" /\ stage[s] # "none"
    BY DEF SharedSid
  <1>2. stage'[r] # "none" /\ stage'[s] # "none"
    BY <1>1, RecordedStays DEF Recorded
  <1> QED
    BY <1>1, <1>2 DEF SharedSid

(* A step that leaves the ruleset as it was, and settles a row only by what   *)
(* it shows.                                                                 *)
LEMMA MatchFrame ==
  ASSUME TypeOK, Sound, Next, FileMatchesLedger, ~overlapped' => ~overlapped,
         Published' = Published,
         \A row \in Rows :
             stage'[row] \in {"applied", "removed"} =>
                 \/ stage'[row] = stage[row]
                 \/ ~SharedSid => /\ stage'[row] = "applied" => Contains(Published, LineOf(row))
                                  /\ stage'[row] = "removed" => ~Contains(Published, LineOf(row))
  PROVE  FileMatchesLedger'
  <1> SUFFICES ASSUME ~overlapped', ~SharedSid', NEW row \in Rows
               PROVE  /\ stage'[row] = "applied" => Contains(Published, LineOf(row))
                      /\ stage'[row] = "removed" => ~Contains(Published, LineOf(row))
    BY Zenon DEF FileMatchesLedger, LineOf
  <1>1. ~overlapped /\ ~SharedSid
    BY SharedStays
  <1>2. /\ stage[row] = "applied" => Contains(Published, LineOf(row))
        /\ stage[row] = "removed" => ~Contains(Published, LineOf(row))
    BY <1>1, Zenon DEF FileMatchesLedger
  <1> QED
    BY <1>1, <1>2

LEMMA MatchStep ==
  ASSUME TypeOK, Sound, Exclusive, FileMatchesLedger, Next
  PROVE  FileMatchesLedger'
  <1>0. /\ disk \in [Inodes -> Seq(Lines)] /\ call \in [Threads -> CallStates]
        /\ stage \in [Rows -> Stages]
    BY DEF TypeOK
  <1>1. ASSUME \A row \in Rows : stage'[row] \in {"applied", "removed"} => stage'[row] = stage[row],
               overlapped' = overlapped, UNCHANGED files
        PROVE  FileMatchesLedger'
    <2>1. Published' = Published
      BY <1>1, PublishedStays DEF files
    <2> QED
      BY <1>1, <2>1, MatchFrame
  <1>2. ASSUME NEW d \in Decisions, Compile(d)
        PROVE  FileMatchesLedger'
    <2>1. PICK s \in NextSid(d) :
            stage' = IF stage[<<d, s>>] = "none"
                     THEN [stage EXCEPT ![<<d, s>>] = "pending"] ELSE stage
      BY <1>2 DEF Compile
    <2>2. \A row \in Rows : stage'[row] \in {"applied", "removed"} => stage'[row] = stage[row]
      BY <1>0, <2>1
    <2> QED
      BY <1>1, <1>2, <2>2 DEF Compile
  <1>3. ASSUME NEW row \in Rows, Unwant(row)
        PROVE  FileMatchesLedger'
    BY <1>1, <1>3 DEF Unwant
  <1>4. ASSUME NEW row \in Rows, Sweep(row)
        PROVE  FileMatchesLedger'
    <2>1. \A r \in Rows : stage'[r] \in {"applied", "removed"} => stage'[r] = stage[r]
      BY <1>0, <1>4 DEF Sweep, Settle
    <2> QED
      BY <1>1, <1>4, <2>1 DEF Sweep
  <1>5. ASSUME NEW t \in Threads, NEW row \in Rows, BeginApply(t, row) \/ BeginRevoke(t, row)
        PROVE  FileMatchesLedger'
    <2>1. \E s \in {"applying", "failed", "removing"} : Settle(row, s)
      BY <1>5 DEF BeginApply, BeginRevoke
    <2>2. \A r \in Rows : stage'[r] \in {"applied", "removed"} => stage'[r] = stage[r]
      BY <1>0, <2>1 DEF Settle
    <2> QED
      BY <1>1, <1>5, <2>2 DEF BeginApply, BeginRevoke
  <1>6. ASSUME NEW t \in Threads, Read(t)
        PROVE  FileMatchesLedger'
    <2>1. Published' = Published
      BY <1>6, PublishedStays DEF Read, files
    <2>2. PICK row \in Rows : row = call[t].row
      BY <1>6, RowOfCall DEF Read
    <2>3. CASE ~HasSid(Published, row[2]) /\ Settle(row, "removed") /\ UNCHANGED overlapped
      <3>1. Recorded(row)
        BY <1>6, <2>2 DEF Read, Sound, CallSound, Recorded
      <3>2. ~SharedSid => ~Contains(Published, LineOf(row))
        BY <2>3, <3>1, SidIsLine
      <3>3. stage'[row] = "removed" /\ \A r \in Rows \ {row} : stage'[r] = stage[r]
        BY <1>0, <2>3 DEF Settle
      <3> QED
        BY <2>1, <2>3, <3>2, <3>3, MatchFrame
    <2>4. CASE UNCHANGED stage /\ overlapped' = (overlapped \/ \E u \in Threads : Writing(u))
      BY <2>1, <2>4, MatchFrame
    <2> QED
      BY <1>6, <2>2, <2>3, <2>4, Zenon DEF Read
  <1>7. ASSUME NEW t \in Threads, OpenTmp(t)
        PROVE  FileMatchesLedger'
    <2>1. PICK i \in Inodes :
            /\ i \in {tmp} \/ (tmp = NoInode /\ i # rules /\ \A u \in Threads : i # call[u].fd)
            /\ disk' = [disk EXCEPT ![i] = <<>>]
      BY <1>7, OpensInode
    <2>2. i # rules /\ rules' = rules /\ stage' = stage /\ overlapped' = overlapped
      BY <1>7, <2>1, SidsAre DEF OpenTmp, Sound
    <2>3. Published' = Published
      BY <1>0, <2>1, <2>2, PublishedStays DEF TypeOK
    <2> QED
      BY <2>2, <2>3, MatchFrame
  <1>8. ASSUME NEW t \in Threads, FillTmp(t)
        PROVE  FileMatchesLedger'
    <2>1. rules' = rules /\ stage' = stage /\ overlapped' = overlapped /\ call[t].pc = "fill"
      BY <1>8 DEF FillTmp
    <2>2. CASE overlapped
      BY <2>1, <2>2 DEF FileMatchesLedger
    <2>3. CASE ~overlapped
      <3>1. call[t].fd = tmp /\ Writing(t)
        BY <2>1, <2>3 DEF Exclusive, WritesAlone, Writing
      <3>2. call[t].fd \in Inodes /\ call[t].fd # rules
        BY <2>1, <3>1, RowOfCall, CallType, SidsAre DEF Sound
      <3>3. PICK fd, q : fd = call[t].fd /\ disk' = [disk EXCEPT ![fd] = q]
        BY <1>8 DEF FillTmp
      <3>4. Published' = Published
        BY <1>0, <2>1, <3>2, <3>3, PublishedStays DEF TypeOK
      <3> QED
        BY <2>1, <3>4, MatchFrame
    <2> QED
      BY <2>2, <2>3
  <1>9. ASSUME NEW t \in Threads, Replace(t)
        PROVE  FileMatchesLedger'
    <2>1. disk' = disk /\ stage' = stage /\ overlapped' = overlapped /\ call[t].pc = "replace"
      BY <1>9 DEF Replace
    <2>2. CASE tmp = NoInode
      BY <1>1, <1>9, <2>1, <2>2 DEF Replace, files
    <2>3. CASE tmp # NoInode
      <3> SUFFICES ASSUME ~overlapped', ~SharedSid', NEW row \in Rows, 
                          stage[row] \in {"applied", "removed"}
                   PROVE  Contains(Published', LineOf(row)) <=> Contains(Published, LineOf(row))
        <4>1. ASSUME ~overlapped', ~SharedSid', NEW row \in Rows,
                     stage[row] \in {"applied", "removed"} =>
                         (Contains(Published', LineOf(row)) <=> Contains(Published, LineOf(row)))
              PROVE  /\ stage'[row] = "applied" => Contains(Published', LineOf(row))
                     /\ stage'[row] = "removed" => ~Contains(Published', LineOf(row))
          <5>1. /\ stage[row] = "applied" => Contains(Published, LineOf(row))
                /\ stage[row] = "removed" => ~Contains(Published, LineOf(row))
            BY <2>1, <4>1, SharedStays, Zenon DEF FileMatchesLedger
          <5> QED
            BY <2>1, <4>1, <5>1
        <4> QED
          BY <4>1, Zenon DEF FileMatchesLedger, LineOf
      <3>1. WritesAlone(t)
        BY <2>1 DEF Exclusive, Writing
      <3>2. Published' = disk[tmp] /\ disk[tmp] = call[t].copy
        <4>1. rules' = tmp
          BY <1>9, <2>3 DEF Replace
        <4> QED
          BY <2>1, <2>3, <3>1, <4>1 DEF Published, WritesAlone
      <3>3. PICK own \in Rows : own = call[t].row
        BY <2>1, RowOfCall
      <3>4. PICK line \in Lines : line = LineOf(row)
        BY RowParts
      <3>5. Contains(Published', line) <=> Edited(t, line)
        BY <3>1, <3>2 DEF WritesAlone
      <3>6. stage[own] \in {"applying", "removing"}
        BY <2>1, <3>3 DEF Sound, CallSound
      <3>7. row # own /\ stage[row] # "none" /\ stage[own] # "none"
        BY <3>6
      <3>8. ~SharedSid
        BY SharedStays
      <3>9. row[2] # own[2]
        <4>1. row = <<row[1], row[2]>> /\ own = <<own[1], own[2]>>
          BY RowParts
        <4>2. row[1] # own[1] => row[2] # own[2]
          BY <3>7, <3>8 DEF SharedSid
        <4> QED
          BY <3>7, <4>1, <4>2
      <3>10. line.sid = row[2] /\ LineOf(own).sid = own[2]
        BY <3>4 DEF LineOf
      <3>11. Edited(t, line) <=> Contains(Published, line)
        BY <3>3, <3>9, <3>10 DEF Edited
      <3> QED
        BY <3>4, <3>5, <3>11
    <2> QED
      BY <2>2, <2>3
  <1>10. ASSUME NEW t \in Threads, Check(t)
         PROVE  FileMatchesLedger'
    <2>1. /\ Published' = Published /\ overlapped' = overlapped /\ call[t].pc = "check"
      BY <1>10, PublishedStays DEF Check, files
    <2>2. PICK row \in Rows : row = call[t].row
      BY <2>1, RowOfCall
    <2>3. Recorded(row)
      BY <2>1, <2>2 DEF Sound, CallSound, Recorded
    <2>4. PICK present \in BOOLEAN : present <=> HasSid(Published, row[2])
      OBVIOUS
    <2>5. ~SharedSid => (present <=> Contains(Published, LineOf(row)))
      BY <2>3, <2>4, SidIsLine
    <2>6. /\ stage' = [stage EXCEPT ![row] = stage'[row]]
          /\ stage'[row] = "applied" => present
          /\ stage'[row] = "removed" => ~present
      <3>1. call[t].op \in {"apply", "revoke"}
        BY <2>1 DEF Sound, CallSound
      <3>2. HasSid(Published, row[2]) \in BOOLEAN
        BY DEF HasSid
      <3>3. stage' = [stage EXCEPT ![row] =
                IF HasSid(Published, row[2]) = (call[t].op = "apply")
                THEN IF call[t].op = "apply" THEN "applied" ELSE "removed" ELSE "drifted"]
        BY <1>10, <2>2, Zenon DEF Check, Settle
      <3>4. stage'[row] = IF HasSid(Published, row[2]) = (call[t].op = "apply")
                THEN IF call[t].op = "apply" THEN "applied" ELSE "removed" ELSE "drifted"
        BY <1>0, <3>3
      <3>5. stage' = [stage EXCEPT ![row] = stage'[row]]
        BY <3>3, <3>4
      <3>6. PICK s, op : s = stage'[row] /\ op = call[t].op
        OBVIOUS
      <3>7. s = IF present = (op = "apply")
                THEN IF op = "apply" THEN "applied" ELSE "removed" ELSE "drifted"
        BY <2>4, <3>2, <3>4, <3>6
      <3> QED
        BY <3>5, <3>6, <3>7
    <2>7. \A r \in Rows \ {row} : stage'[r] = stage[r]
      BY <1>0, <2>6
    <2> QED
      BY <2>1, <2>5, <2>6, <2>7, MatchFrame
  <1>11. ASSUME NEW m \in Postures, NEW net \in HomeNets, Restart(m, net)
         PROVE  FileMatchesLedger'
    BY <1>1, <1>11 DEF Restart
  <1> QED
    BY <1>2, <1>3, <1>4, <1>5, <1>6, <1>7, <1>8, <1>9, <1>10, <1>11, Zenon DEF Next

-----------------------------------------------------------------------------
(* The theorems.                                                             *)

LEMMA Stutter ==
  ASSUME TypeOK, Sound, Exclusive, FileMatchesLedger, UNCHANGED vars
  PROVE  TypeOK' /\ Sound' /\ Exclusive' /\ FileMatchesLedger'
  <1>1. /\ disk' = disk /\ rules' = rules /\ tmp' = tmp /\ claimed' = claimed
        /\ posture' = posture /\ home' = home /\ stage' = stage /\ unwanted' = unwanted
        /\ call' = call /\ overlapped' = overlapped /\ calls' = calls /\ restarts' = restarts
    BY DEF vars
  <1>2. TypeOK'
    BY <1>1 DEF TypeOK
  <1>3. Sound'
    BY <1>1 DEF Sound, CallSound, LinesSound, LineSound, Recorded
  <1>4. Published' = Published
    BY <1>1 DEF Published
  <1>5. Exclusive'
    BY <1>1, <1>4 DEF Exclusive, WritesAlone, Writing, Edited
  <1>6. FileMatchesLedger'
    BY <1>1, <1>4 DEF FileMatchesLedger, SharedSid
  <1> QED
    BY <1>2, <1>3, <1>5, <1>6

LEMMA ExporterInvariant == Spec => [](TypeOK /\ Sound /\ Exclusive /\ FileMatchesLedger)
  <1>1. Init => TypeOK /\ Sound /\ Exclusive /\ FileMatchesLedger
    <2> SUFFICES ASSUME Init
                 PROVE  TypeOK /\ Sound /\ Exclusive /\ FileMatchesLedger
      OBVIOUS
    <2>1. Exclusive
      BY DEF Init, Exclusive, Writing, Idle
    <2>2. FileMatchesLedger
      BY DEF Init, FileMatchesLedger
    <2> QED
      BY <2>1, <2>2, TypeInit, SoundInit
  <1>2. TypeOK /\ Sound /\ Exclusive /\ FileMatchesLedger /\ [Next]_vars
          => (TypeOK /\ Sound /\ Exclusive /\ FileMatchesLedger)'
    BY TypeStep, SoundStep, ExclusiveStep, MatchStep, Stutter
  <1> QED
    BY <1>1, <1>2, PTL DEF Spec

(* The exporter's state keeps its types, whatever the number of threads: in   *)
(* particular every open() finds an inode and every running call has a row.  *)
THEOREM TypeCorrect == Spec => []TypeOK
  BY ExporterInvariant, PTL

(* SuricataExporter.FileMatchesLedger, for any number of threads, decisions,  *)
(* SIDs, calls and restarts: where no two calls of apply() or revoke() have   *)
(* been between their read and their rename together and no SID is shared, a  *)
(* verified rule is in the ruleset and a removed one is not.                  *)
THEOREM FileAlwaysMatchesLedger == Spec => []FileMatchesLedger
  BY ExporterInvariant, PTL

(* SuricataExporter.NeverBroadens: whatever calls overlap, crash or truncate  *)
(* each other's temporary file, no published line is a pair-scoped address's. *)
THEOREM NeverBroadensHolds == Spec => []NeverBroadens
  <1>1. TypeOK /\ Sound => NeverBroadens
    <2> SUFFICES ASSUME TypeOK, Sound, NEW i \in DOMAIN Published
                 PROVE  ~(Shape[Published[i].decision].type = "ip" /\ Shape[Published[i].decision].pair)
      BY DEF NeverBroadens
    <2>1. LineSound(Published[i])
      BY PublishedSound DEF LinesSound
    <2> QED
      BY <2>1 DEF LineSound, PairScoped
  <1> QED
    BY <1>1, ExporterInvariant, PTL
=============================================================================
