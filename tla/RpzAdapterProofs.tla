-------------------------- MODULE RpzAdapterProofs --------------------------
(* Theorems about RpzAdapter, for any number of names, workers and           *)
(* processes and any serial modulus.                                         *)
EXTENDS RpzAdapter, FiniteSetTheorems, TLAPS

-----------------------------------------------------------------------------
(* Lemmas about the operators.                                               *)

(* Configuration never strengthens a stored posture.                         *)
LEMMA EffectiveNeverStronger ==
  ASSUME NEW m \in Modes, NEW max \in Modes
  PROVE  /\ Effective(m, max) \in Modes
         /\ Effective(m, max) = "ENFORCE" => m = "ENFORCE"
  BY DEF Effective, Rank, Modes

(* Serials stay serials, and an advanced serial is newer in RFC 1982 order.  *)
LEMMA NextSerialAdvances ==
  ASSUME NEW s \in Serials
  PROVE  /\ NextSerial(s) \in Serials
         /\ Advances(NextSerial(s), s)
  <1> USE RpzAssumption DEF Serials
  <1>1. CASE s + 1 < SerialMod
    <2>1. NextSerial(s) = s + 1
      BY <1>1 DEF NextSerial
    <2>2. (s + 1 + SerialMod - s) % SerialMod = 1
      OBVIOUS
    <2> QED
      BY <1>1, <2>1, <2>2 DEF Advances
  <1>2. CASE s + 1 = SerialMod
    <2>1. NextSerial(s) = 0
      BY <1>2 DEF NextSerial
    <2>2. (0 + SerialMod - s) % SerialMod = 1
      BY <1>2
    <2> QED
      BY <2>1, <2>2 DEF Advances
  <1> QED
    BY <1>1, <1>2

LEMMA NoCallTyped == NoCall \in Calls /\ NoZone \in Zones
  BY RpzAssumption DEF NoCall, Calls, NoZone, Zones, Serials, Modes, Artifacts

LEMMA GenerationTyped ==
  ASSUME NEW z \in Zones, NEW names \in SUBSET Owners
  PROVE  NextGeneration(z, names) \in Zones
  <1>1. NextSerial(z.serial) \in Serials
    BY NextSerialAdvances DEF Zones
  <1> QED
    BY <1>1 DEF NextGeneration, Zones

-----------------------------------------------------------------------------
(* The inductive invariant.                                                  *)

(* A call is for a name, and a worker about to write holds the locks and has *)
(* read the artifact it is about to replace: nothing was written since.      *)
Exclusive ==
    \A w \in Workers :
        /\ call[w].pc # "idle" => call[w].owner \in Owners /\ call[w].op # "none"
        /\ call[w].pc = "write" =>
               /\ lock = w
               /\ call[w].copy = zone[call[w].artifact]

(* Only ENFORCE calls touch the live artifact, so all it lists is            *)
(* enforceable.                                                              *)
LiveIsEnforceable ==
    /\ zone["live"].names \subseteq enforceable
    /\ \A w \in Workers :
           call[w].pc # "idle" /\ call[w].artifact = "live" =>
               /\ call[w].mode = "ENFORCE"
               /\ call[w].op = "apply" => call[w].owner \in enforceable

IInv == TypeOK /\ Exclusive /\ LiveIsEnforceable /\ ShadowNeverServed

(* The files an instance starts with list no name.                           *)
LEMMA InitIInv == Init => IInv
  <1> SUFFICES ASSUME Init PROVE IInv
    OBVIOUS
  <1>1. PICK z \in Zones :
            /\ z.names = {}
            /\ zone = [k \in Artifacts |-> IF k = "live" THEN z ELSE NoZone]
            /\ served = z
    BY RpzAssumption, NoCallTyped DEF Init, NoZone, Zones
  <1>2. TypeOK
    BY <1>1, NoCallTyped, RpzAssumption DEF Init, TypeOK
  <1>3. Exclusive /\ LiveIsEnforceable /\ ShadowNeverServed
    BY <1>1 DEF Init, Exclusive, LiveIsEnforceable, ShadowNeverServed, NoCall,
                Artifacts
  <1> QED
    BY <1>2, <1>3 DEF IInv

(* Ending a call touches nothing the invariant says of other calls.          *)
LEMMA EndCall ==
  ASSUME IInv, NEW w \in Workers, call' = [call EXCEPT ![w] = NoCall],
         UNCHANGED <<zone, served, signalled, unreloaded, posture, enforceable>>,
         lock' = lock \/ (lock = w /\ lock' = NoWorker),
         gone' \in SUBSET Owners, calls' \in Nat, failures' \in Nat
  PROVE  IInv'
  <1>1. TypeOK'
    BY NoCallTyped DEF IInv, TypeOK
  <1>2. Exclusive' /\ LiveIsEnforceable' /\ ShadowNeverServed'
    BY DEF IInv, TypeOK, Exclusive, LiveIsEnforceable, ShadowNeverServed, NoCall
  <1> QED
    BY <1>1, <1>2 DEF IInv

(* Moving a call on, with what it now holds, keeps the file and every other  *)
(* call as they were.                                                        *)
LEMMA MoveCall ==
  ASSUME IInv, NEW w \in Workers, NEW copy \in Zones,
         NEW pc \in {"reload", "check"},
         call[w].pc # "idle", call' = [call EXCEPT ![w] = At(call[w], pc, copy)],
         UNCHANGED <<zone, served, posture, lock, enforceable, gone, calls, failures>>,
         signalled' \in BOOLEAN, unreloaded' \in BOOLEAN
  PROVE  IInv'
  <1>1. TypeOK'
    BY DEF IInv, TypeOK, Calls, At
  <1>2. Exclusive' /\ LiveIsEnforceable' /\ ShadowNeverServed'
    BY DEF IInv, TypeOK, Exclusive, LiveIsEnforceable, ShadowNeverServed, At
  <1> QED
    BY <1>1, <1>2 DEF IInv

(* A new call aims at the artifact its effective posture selects.            *)
LEMMA NewCall ==
  ASSUME IInv, NEW w \in Workers, NEW o \in Owners, NEW m \in ActionModes,
         NEW kind \in {"apply", "revoke"},
         call' = [call EXCEPT ![w] =
             Called(kind, o, m, ArtifactOf(Effective(m, posture[ProcessOf[w]])))],
         enforceable' = IF kind = "apply" /\ m = "ENFORCE"
                        THEN enforceable \cup {o} ELSE enforceable,
         calls' \in Nat,
         UNCHANGED <<zone, served, signalled, unreloaded, posture, lock, gone,
                     failures>>
  PROVE  IInv'
  <1> DEFINE eff == Effective(m, posture[ProcessOf[w]])
             k == ArtifactOf(eff)
  <1>1. m \in Modes /\ posture[ProcessOf[w]] \in Modes
    BY RpzAssumption DEF IInv, TypeOK
  <1>2. k \in Artifacts /\ (k = "live" => m = "ENFORCE")
    BY <1>1, EffectiveNeverStronger DEF ArtifactOf, Artifacts
  <1> HIDE DEF k
  <1>3. Called(kind, o, m, k) \in Calls
    BY <1>1, <1>2, NoCallTyped DEF Called, Calls
  <1>4. call' = [call EXCEPT ![w] = Called(kind, o, m, k)]
    BY DEF k
  <1>5. TypeOK'
    BY <1>3, <1>4 DEF IInv, TypeOK
  <1>6. Exclusive'
    BY <1>4 DEF IInv, TypeOK, Exclusive, Called
  <1>7. LiveIsEnforceable' /\ ShadowNeverServed'
    BY <1>2, <1>4 DEF IInv, TypeOK, LiveIsEnforceable, ShadowNeverServed, Called
  <1> QED
    BY <1>5, <1>6, <1>7 DEF IInv

(* Every step of a call, of the resolver or of a process keeps IInv.         *)
LEMMA NextIInv == IInv /\ [Next]_vars => IInv'
  <1> SUFFICES ASSUME IInv, [Next]_vars PROVE IInv'
    OBVIOUS
  <1>1. ASSUME NEW w \in Workers, NEW o \in Owners, NEW m \in ActionModes,
               BeginApply(w, o, m)
        PROVE  IInv'
    <2>1. calls' \in Nat /\ failures' = failures
      BY <1>1 DEF BeginApply, Calling, IInv, TypeOK
    <2> QED
      BY <1>1, <2>1, NewCall DEF BeginApply, resolver
  <1>2. ASSUME NEW w \in Workers, NEW o \in Owners, NEW m \in ActionModes,
               BeginRevoke(w, o, m)
        PROVE  IInv'
    <2>1. calls' \in Nat /\ failures' = failures
      BY <1>2 DEF BeginRevoke, Calling, IInv, TypeOK
    <2> QED
      BY <1>2, <2>1, NewCall DEF BeginRevoke, resolver, ledgerView
  <1>3. ASSUME NEW w \in Workers, ReadArtifact(w)
        PROVE  IInv'
    <2> DEFINE z == zone[call[w].artifact]
    <2>1. z \in Zones /\ call[w] \in Calls /\ call[w].pc = "lock" /\ lock = NoWorker
      BY <1>3 DEF IInv, TypeOK, Calls, ReadArtifact, Free
    <2>2. CASE call[w].op = "revoke" /\ call[w].owner \notin z.names
      BY <1>3, <2>1, <2>2, NoCallTyped, MoveCall
         DEF ReadArtifact, resolver, ledgerView, budget, IInv, TypeOK
    <2>3. CASE ~(call[w].op = "revoke" /\ call[w].owner \notin z.names)
      <3>1. /\ call' = [call EXCEPT ![w] = At(call[w], "write", z)]
            /\ lock' = w
            /\ UNCHANGED <<zone, served, signalled, unreloaded, posture,
                           enforceable, gone, calls, failures>>
        BY <1>3, <2>3 DEF ReadArtifact, resolver, ledgerView, budget
      <3>2. TypeOK'
        BY <2>1, <3>1 DEF IInv, TypeOK, Calls, At
      <3>3. Exclusive'
        <4>1. \A v \in Workers \ {w} : call'[v] = call[v] /\ call[v].pc # "write"
          BY <2>1, <3>1, RpzAssumption DEF IInv, TypeOK, Exclusive
        <4>2. call'[w] = At(call[w], "write", z)
          BY <3>1 DEF IInv, TypeOK
        <4>3. call[w].owner \in Owners /\ (z = zone[call[w].artifact])
          BY <2>1 DEF IInv, Exclusive
        <4>4. call[w].op # "none"
          BY <2>1 DEF IInv, Exclusive
        <4> QED
          BY <3>1, <4>1, <4>2, <4>3, <4>4 DEF IInv, Exclusive, At
      <3>4. LiveIsEnforceable' /\ ShadowNeverServed'
        BY <2>1, <3>1 DEF IInv, TypeOK, LiveIsEnforceable, ShadowNeverServed, At
      <3> QED
        BY <3>2, <3>3, <3>4 DEF IInv
    <2> QED
      BY <2>2, <2>3
  <1>4. ASSUME NEW w \in Workers, WriteArtifact(w)
        PROVE  IInv'
    <2> DEFINE c == call[w]
               names == IF c.op = "apply" THEN c.copy.names \cup {c.owner}
                                          ELSE c.copy.names \ {c.owner}
               g == NextGeneration(c.copy, names)
               then == call'[w]
    <2>1. /\ c \in Calls /\ c.pc = "write" /\ lock = w
          /\ c.copy = zone[c.artifact] /\ c.owner \in Owners
      BY <1>4 DEF IInv, TypeOK, Exclusive, WriteArtifact
    <2>2. g \in Zones /\ g.names = names
      BY <2>1, GenerationTyped DEF Calls, Zones, NextGeneration
    <2>3. /\ zone' = [zone EXCEPT ![c.artifact] = g]
          /\ lock' = NoWorker
          /\ UNCHANGED <<served, signalled, posture, enforceable, calls, failures>>
          /\ gone' \in SUBSET Owners /\ unreloaded' \in BOOLEAN
      BY <1>4 DEF WriteArtifact, IInv, TypeOK, resolver, budget
    <2>4. \/ call' = [call EXCEPT ![w] = NoCall]
          \/ call' = [call EXCEPT ![w] = At(c, "reload", NoZone)]
          \/ call' = [call EXCEPT ![w] = At(c, "check", NoZone)]
      BY <1>4 DEF WriteArtifact
    <2>5. \A v \in Workers \ {w} : call'[v] = call[v] /\ call[v].pc # "write"
      BY <2>1, <2>4 DEF IInv, TypeOK, Exclusive
    <2>6. call' \in [Workers -> Calls]
      BY <2>1, <2>4, NoCallTyped DEF IInv, TypeOK, Calls, At
    <2>7. \/ call'[w] = NoCall
          \/ /\ call'[w].op = c.op /\ call'[w].owner = c.owner
             /\ call'[w].mode = c.mode /\ call'[w].artifact = c.artifact
             /\ call'[w].pc # "write"
      BY <2>4 DEF IInv, TypeOK, At
    <2> HIDE DEF g
    <2>8. TypeOK'
      BY <2>1, <2>2, <2>3, <2>6 DEF IInv, TypeOK
    <2>9. Exclusive'
      BY <2>1, <2>5, <2>7 DEF IInv, Exclusive, NoCall
    <2>10. zone'["live"].names \subseteq enforceable
      <3>1. CASE c.artifact = "live"
        BY <2>1, <2>2, <2>3, <3>1 DEF IInv, TypeOK, LiveIsEnforceable, Artifacts, Calls
      <3>2. CASE c.artifact # "live"
        BY <2>3, <3>2 DEF IInv, TypeOK, LiveIsEnforceable, Artifacts
      <3> QED
        BY <3>1, <3>2
    <2>11. LiveIsEnforceable' /\ ShadowNeverServed'
      BY <2>1, <2>3, <2>5, <2>7, <2>10
         DEF IInv, LiveIsEnforceable, ShadowNeverServed, NoCall
    <2> QED
      BY <2>8, <2>9, <2>11 DEF IInv
  <1>5. ASSUME NEW w \in Workers, WriteFails(w)
        PROVE  IInv'
    <2>1. /\ call' = [call EXCEPT ![w] = NoCall] /\ lock' = NoWorker /\ lock = w
          /\ UNCHANGED <<zone, served, signalled, unreloaded, posture, enforceable>>
      BY <1>5 DEF WriteFails, resolver, ledgerView, IInv, Exclusive
    <2>2. gone' \in SUBSET Owners /\ calls' \in Nat /\ failures' \in Nat
      BY <1>5 DEF WriteFails, Failing, ledgerView, IInv, TypeOK
    <2> QED
      BY <2>1, <2>2, EndCall
  <1>6. ASSUME NEW w \in Workers, Reload(w)
        PROVE  IInv'
    <2>1. CASE call[w].op = "apply"
      <3>1. call' = [call EXCEPT ![w] = NoCall] /\ signalled' = TRUE
            /\ unreloaded' = FALSE
            /\ UNCHANGED <<zone, served, posture, lock, enforceable, gone,
                           calls, failures>>
        BY <1>6, <2>1 DEF Reload, ledgerView, budget
      <3>2. TypeOK'
        BY <3>1, NoCallTyped DEF IInv, TypeOK
      <3>3. Exclusive' /\ LiveIsEnforceable' /\ ShadowNeverServed'
        BY <3>1 DEF IInv, TypeOK, Exclusive, LiveIsEnforceable,
                    ShadowNeverServed, NoCall
      <3> QED
        BY <3>2, <3>3 DEF IInv
    <2>2. CASE call[w].op # "apply"
      BY <1>6, <2>2, NoCallTyped, MoveCall DEF Reload, ledgerView, budget
    <2> QED
      BY <2>1, <2>2
  <1>7. ASSUME NEW w \in Workers, ReloadFails(w)
        PROVE  IInv'
    <2>1. /\ call' = [call EXCEPT ![w] = NoCall] /\ lock' = lock
          /\ UNCHANGED <<zone, served, signalled, unreloaded, posture, enforceable>>
      BY <1>7 DEF ReloadFails, resolver, ledgerView
    <2>2. gone' \in SUBSET Owners /\ calls' \in Nat /\ failures' \in Nat
      BY <1>7 DEF ReloadFails, Failing, ledgerView, IInv, TypeOK
    <2> QED
      BY <2>1, <2>2, EndCall
  <1>8. ASSUME NEW w \in Workers, FinishRevoke(w)
        PROVE  IInv'
    <2>1. gone' \in SUBSET Owners
      BY <1>8 DEF FinishRevoke, IInv, TypeOK, Exclusive
    <2> QED
      BY <1>8, <2>1, EndCall DEF FinishRevoke, resolver, budget, IInv, TypeOK
  <1>9. ASSUME NEW w \in Workers, RevokeUnverified(w)
        PROVE  IInv'
    BY <1>9, EndCall
       DEF RevokeUnverified, resolver, ledgerView, budget, IInv, TypeOK
  <1>10. CASE ResolverLoads
    <2>1. /\ served' = served \/ served' = zone["live"]
          /\ signalled' = FALSE
          /\ UNCHANGED <<zone, unreloaded, posture, lock, call, enforceable,
                         gone, calls, failures>>
      BY <1>10 DEF ResolverLoads, ledgerView, budget
    <2>2. TypeOK'
      BY <2>1 DEF IInv, TypeOK, Artifacts
    <2>3. Exclusive' /\ LiveIsEnforceable' /\ ShadowNeverServed'
      BY <2>1 DEF IInv, Exclusive, LiveIsEnforceable, ShadowNeverServed
    <2> QED
      BY <2>2, <2>3 DEF IInv
  <1>11. ASSUME NEW p \in Processes, NEW m \in Postures, Restart(p, m)
         PROVE  IInv'
    <2>1. /\ posture' \in [Processes -> Modes] /\ failures' \in Nat
          /\ call' = [w \in Workers |-> IF ProcessOf[w] = p THEN NoCall ELSE call[w]]
          /\ lock' = IF lock # NoWorker /\ ProcessOf[lock] = p THEN NoWorker ELSE lock
          /\ UNCHANGED <<zone, served, signalled, unreloaded, enforceable, gone, calls>>
      BY <1>11, RpzAssumption DEF Restart, Failing, resolver, ledgerView, IInv, TypeOK
    <2>2. TypeOK'
      BY <2>1, NoCallTyped DEF IInv, TypeOK
    <2>3. Exclusive' /\ LiveIsEnforceable' /\ ShadowNeverServed'
      BY <2>1 DEF IInv, TypeOK, Exclusive, LiveIsEnforceable, ShadowNeverServed, NoCall
    <2> QED
      BY <2>2, <2>3 DEF IInv
  <1>12. CASE UNCHANGED vars
    BY <1>12 DEF vars, IInv, TypeOK, Exclusive, LiveIsEnforceable, ShadowNeverServed
  <1> QED
    BY <1>1, <1>2, <1>3, <1>4, <1>5, <1>6, <1>7, <1>8, <1>9, <1>10, <1>11, <1>12
       DEF Next

LEMMA Invariance == Spec => []IInv
  BY InitIInv, NextIInv, PTL DEF Spec

-----------------------------------------------------------------------------
(* Every reachable state is well typed: zones, serials and calls.            *)
THEOREM TypeCorrect == Spec => []TypeOK
  <1>1. IInv => TypeOK
    BY DEF IInv
  <1> QED
    BY <1>1, Invariance, PTL

(* Whatever rpz_mode any process is restarted with, the resolver suppresses  *)
(* only names that some action stored as ENFORCE was for (effective_mode).   *)
THEOREM ShadowIsNeverServed == Spec => []ShadowNeverServed
  <1>1. IInv => ShadowNeverServed
    BY DEF IInv
  <1> QED
    BY <1>1, Invariance, PTL

(* A name leaves the live artifact only in a revoke of an ENFORCE action for *)
(* it (the artifact partition of revoke).                                    *)
THEOREM LiveLeavesByItsRevoke == Spec => LiveLeavesByEnforceRevoke
  <1> DEFINE A == \A o \in zone["live"].names \ zone'["live"].names :
                     \E w \in Workers :
                         /\ call[w].op = "revoke" /\ call[w].pc = "write"
                         /\ call[w].owner = o /\ call[w].mode = "ENFORCE"
  <1>1. IInv /\ [Next]_vars => [A]_vars
    <2> SUFFICES ASSUME IInv, Next PROVE A
      BY DEF vars
    <2>1. ASSUME NEW w \in Workers, WriteArtifact(w)
          PROVE  A
      <3> DEFINE c == call[w]
                 names == IF c.op = "apply" THEN c.copy.names \cup {c.owner}
                                            ELSE c.copy.names \ {c.owner}
      <3>1. /\ c \in Calls /\ c.pc = "write" /\ c.op # "none"
            /\ c.copy = zone[c.artifact]
            /\ c.artifact = "live" => c.mode = "ENFORCE"
        BY <2>1 DEF IInv, TypeOK, Exclusive, LiveIsEnforceable, WriteArtifact
      <3>2. zone' = [zone EXCEPT ![c.artifact] = NextGeneration(c.copy, names)]
        BY <2>1 DEF WriteArtifact
      <3>3. NextGeneration(c.copy, names).names = names
        BY DEF NextGeneration
      <3>4. CASE c.artifact = "live"
        BY <3>1, <3>2, <3>3, <3>4 DEF IInv, TypeOK, Calls, Artifacts
      <3>5. CASE c.artifact # "live"
        BY <3>2, <3>5 DEF IInv, TypeOK, Artifacts
      <3> QED
        BY <3>4, <3>5
    <2>2. ASSUME zone' = zone
          PROVE  A
      BY <2>2
    <2> QED
      BY <2>1, <2>2 DEF Next, BeginApply, BeginRevoke, ReadArtifact, WriteFails,
         Reload, ReloadFails, FinishRevoke, RevokeUnverified, ResolverLoads, Restart
  <1>2. [][A]_vars <=> LiveLeavesByEnforceRevoke
    BY PTL DEF LiveLeavesByEnforceRevoke
  <1> QED
    BY <1>1, <1>2, Invariance, PTL DEF Spec

(* Concurrent publishers in any number of processes lose nothing: the two    *)
(* artifacts behave as sets that every apply and revoke changes atomically.  *)
THEOREM ArtifactsImplementContract == Spec => ImplementsArtifacts
  <1> DEFINE pub == [k \in Artifacts |-> zone[k].names]
  <1>1. Init => Contract!Init
    BY DEF Init, Contract!Init, NoZone
  <1>2. IInv /\ [Next]_vars => [Contract!Next]_pub
    <2> SUFFICES ASSUME IInv, [Next]_vars PROVE [Contract!Next]_pub
      OBVIOUS
    <2>1. ASSUME NEW w \in Workers, WriteArtifact(w)
          PROVE  Contract!Next
      <3> DEFINE c == call[w]
                 names == IF c.op = "apply" THEN c.copy.names \cup {c.owner}
                                            ELSE c.copy.names \ {c.owner}
      <3>1. /\ c \in Calls /\ c.op # "none" /\ c.owner \in Owners
            /\ c.copy = zone[c.artifact] /\ c.artifact \in Artifacts
        BY <2>1 DEF IInv, TypeOK, Exclusive, WriteArtifact, Calls
      <3>2. zone' = [zone EXCEPT ![c.artifact] = NextGeneration(c.copy, names)]
        BY <2>1 DEF WriteArtifact
      <3>3. NextGeneration(c.copy, names).names = names
        BY DEF NextGeneration
      <3>4. pub' = [pub EXCEPT ![c.artifact] = names]
        BY <3>1, <3>2, <3>3 DEF IInv, TypeOK
      <3>5. PICK k \in Artifacts, o \in Owners :
                \/ pub' = [pub EXCEPT ![k] = @ \cup {o}]
                \/ pub' = [pub EXCEPT ![k] = @ \ {o}]
        BY <3>1, <3>4
      <3> QED
        BY <3>5 DEF Contract!Next, Contract!Publish, Contract!Withdraw
    <2>2. ASSUME zone' = zone
          PROVE  pub' = pub
      BY <2>2
    <2> QED
      BY <2>1, <2>2 DEF Next, vars, BeginApply, BeginRevoke, ReadArtifact,
         WriteFails, Reload, ReloadFails, FinishRevoke, RevokeUnverified,
         ResolverLoads, Restart
  <1> QED
    BY <1>1, <1>2, Invariance, PTL DEF Spec, ImplementsArtifacts, Contract!Spec


-----------------------------------------------------------------------------
(* Every reload is taken.  RFC 1982 compares two serials by how far one is    *)
(* ahead of the other, modulo SerialMod: the distance from what the resolver  *)
(* serves to what is published counts the publications it has not loaded, as  *)
(* long as they are fewer than half the modulus.                             *)

Distance(new, old) == (new + SerialMod - old) % SerialMod
Behind == Distance(zone["live"].serial, served.serial)

(* The calls that may still publish.                                         *)
Unpublished == {w \in Workers : call[w].pc \in {"lock", "write"}}

(* Each publication the resolver is behind by has used up a call.            *)
Counted ==
    /\ IsFiniteSet(Unpublished)
    /\ Behind + Cardinality(Unpublished) <= calls
    /\ calls <= MaxCalls
    /\ Behind = 0 => served = zone["live"]

LEMMA DistanceIs ==
  ASSUME NEW a \in Serials, NEW b \in Serials
  PROVE  /\ Distance(a, b) = IF a >= b THEN a - b ELSE a + SerialMod - b
         /\ Distance(a, b) \in Nat
  <1>0. SerialMod \in Nat /\ SerialMod > 3 /\ a \in 0..(SerialMod - 1) /\ b \in 0..(SerialMod - 1)
    BY RpzAssumption DEF Serials
  <1>1. CASE a >= b
    <2>1. PICK d \in 0..(SerialMod - 1) : d = a - b
      BY <1>0, <1>1
    <2>2. (d + SerialMod) % SerialMod = d
      BY <1>0, <2>1
    <2>3. a + SerialMod - b = d + SerialMod
      BY <1>0, <2>1
    <2> QED
      BY <1>0, <1>1, <2>1, <2>2, <2>3 DEF Distance
  <1>2. CASE a < b
    <2>1. PICK d \in 0..(SerialMod - 1) : d = a + SerialMod - b
      BY <1>0, <1>2
    <2>2. d % SerialMod = d
      BY <1>0, <2>1
    <2> QED
      BY <1>0, <1>2, <2>1, <2>2 DEF Distance
  <1> QED
    BY <1>0, <1>1, <1>2

LEMMA NextSerialIs ==
  ASSUME NEW s \in Serials
  PROVE  NextSerial(s) = IF s = SerialMod - 1 THEN 0 ELSE s + 1
  <1> USE RpzAssumption DEF Serials
  <1>1. CASE s + 1 < SerialMod
    BY <1>1 DEF NextSerial
  <1>2. CASE s + 1 = SerialMod
    BY <1>2 DEF NextSerial
  <1> QED
    BY <1>1, <1>2

(* One publication takes the resolver one further behind.                    *)
LEMMA OneFurther ==
  ASSUME NEW a \in Serials, NEW b \in Serials, Distance(a, b) < SerialMod - 1
  PROVE  Distance(NextSerial(a), b) = Distance(a, b) + 1
  <1>0. SerialMod \in Nat /\ SerialMod > 3 /\ a \in 0..(SerialMod - 1) /\ b \in 0..(SerialMod - 1)
    BY RpzAssumption DEF Serials
  <1>1. NextSerial(a) = IF a = SerialMod - 1 THEN 0 ELSE a + 1
    BY NextSerialIs
  <1>2. NextSerial(a) \in Serials
    BY NextSerialAdvances
  <1>3. /\ Distance(a, b) = IF a >= b THEN a - b ELSE a + SerialMod - b
        /\ Distance(NextSerial(a), b) = IF NextSerial(a) >= b THEN NextSerial(a) - b
                                        ELSE NextSerial(a) + SerialMod - b
    BY <1>2, DistanceIs
  <1> QED
    BY <1>0, <1>1, <1>3

LEMMA CountedInit ==
  ASSUME Init
  PROVE  Counted
  <1>1. PICK z \in Zones : zone["live"] = z /\ served = z
    BY RpzAssumption, NoCallTyped DEF Init, NoZone, Zones, Artifacts
  <1>2. Unpublished = {}
    BY DEF Init, Unpublished, NoCall
  <1>3. z.serial \in Serials
    BY DEF Zones
  <1>4. Behind = 0
    BY <1>1, <1>3, DistanceIs, RpzAssumption DEF Behind, Serials
  <1> QED
    <2>1. calls = 0 /\ MaxCalls \in Nat
      BY RpzAssumption DEF Init
    <2>2. IsFiniteSet(Unpublished) /\ Cardinality(Unpublished) = 0
      BY <1>2, FS_EmptySet
    <2> QED
      BY <1>1, <1>4, <2>1, <2>2 DEF Counted

(* A step that publishes nothing and begins no call.                         *)
LEMMA CountedFrame ==
  ASSUME IInv, Counted, Unpublished' \subseteq Unpublished,
         zone' = zone, served' = served, calls' = calls
  PROVE  Counted'
  <1>1. /\ IsFiniteSet(Unpublished') /\ Cardinality(Unpublished') <= Cardinality(Unpublished)
        /\ Cardinality(Unpublished') \in Nat /\ Cardinality(Unpublished) \in Nat
    BY FS_Subset, FS_CardinalityType DEF Counted
  <1>2. Behind' = Behind /\ Behind \in Nat /\ calls \in Nat
    <2>1. zone["live"].serial \in Serials /\ served.serial \in Serials
      BY DEF IInv, TypeOK, Zones, Artifacts
    <2> QED
      BY <2>1, DistanceIs DEF Behind, IInv, TypeOK
  <1> QED
    BY <1>1, <1>2 DEF Counted

(* So the resolver never ignores a signal that announces something new.      *)
LEMMA LoadsTheLive ==
  ASSUME IInv, Counted, ResolverLoads, MaxCalls < SerialMod \div 2
  PROVE  served' = zone["live"]
  <1>1. /\ zone["live"].serial \in Serials /\ served.serial \in Serials
        /\ Behind \in Nat /\ Cardinality(Unpublished) \in Nat /\ calls \in Nat
    <2>1. zone["live"].serial \in Serials /\ served.serial \in Serials /\ calls \in Nat
      BY DEF IInv, TypeOK, Zones, Artifacts
    <2> QED
      BY <2>1, DistanceIs, FS_CardinalityType DEF Behind, Counted
  <1>2. Behind < SerialMod \div 2
    BY <1>1, RpzAssumption DEF Counted
  <1>3. Behind = 0 => served = zone["live"]
    BY DEF Counted
  <1>4. Behind # 0 => Advances(zone["live"].serial, served.serial)
    BY <1>1, <1>2 DEF Advances, Behind, Distance
  <1> QED
    BY <1>3, <1>4 DEF ResolverLoads

LEMMA CountedStep ==
  ASSUME IInv, Counted, Next, MaxCalls < SerialMod \div 2
  PROVE  Counted'
  <1>0. /\ zone \in [Artifacts -> Zones] /\ served \in Zones /\ call \in [Workers -> Calls]
        /\ calls \in Nat /\ "live" \in Artifacts
        /\ zone["live"].serial \in Serials /\ served.serial \in Serials
        /\ Behind \in Nat /\ Cardinality(Unpublished) \in Nat
    <2>1. /\ zone \in [Artifacts -> Zones] /\ served \in Zones /\ call \in [Workers -> Calls]
          /\ calls \in Nat /\ "live" \in Artifacts
      BY DEF IInv, TypeOK, Artifacts
    <2>2. zone["live"].serial \in Serials /\ served.serial \in Serials
      BY <2>1 DEF Zones
    <2> QED
      BY <2>1, <2>2, DistanceIs, FS_CardinalityType DEF Behind, Counted
  <1>1. ASSUME NEW w \in Workers, Calling, UNCHANGED <<zone, served>>,
               call[w].pc = "idle", NEW c, call' = [call EXCEPT ![w] = c]
        PROVE  Counted'
    <2>1. Unpublished' \subseteq Unpublished \cup {w}
      BY <1>0, <1>1 DEF Unpublished
    <2>2. /\ IsFiniteSet(Unpublished \cup {w})
          /\ Cardinality(Unpublished \cup {w}) <= Cardinality(Unpublished) + 1
      <3>1. IsFiniteSet(Unpublished)
        BY DEF Counted
      <3>2. /\ IsFiniteSet(Unpublished \cup {w})
            /\ Cardinality(Unpublished \cup {w}) =
                   IF w \in Unpublished THEN Cardinality(Unpublished) ELSE Cardinality(Unpublished) + 1
        BY <3>1, FS_AddElement, Zenon
      <3> QED
        BY <1>0, <3>2
    <2>3. /\ IsFiniteSet(Unpublished')
          /\ Cardinality(Unpublished') <= Cardinality(Unpublished \cup {w})
      BY <2>1, <2>2, FS_Subset
    <2>4. Cardinality(Unpublished') \in Nat /\ Cardinality(Unpublished \cup {w}) \in Nat
      BY <2>2, <2>3, FS_CardinalityType
    <2>5. Behind' = Behind /\ calls' = calls + 1 /\ calls < MaxCalls
      BY <1>1 DEF Behind, Calling
    <2> QED
      BY <1>0, <1>1, <2>2, <2>3, <2>4, <2>5, RpzAssumption DEF Counted
  <1>2. ASSUME NEW w \in Workers, NEW o \in Owners, NEW m \in ActionModes,
               BeginApply(w, o, m) \/ BeginRevoke(w, o, m)
        PROVE  Counted'
    BY <1>1, <1>2 DEF BeginApply, BeginRevoke, resolver
  <1>3. ASSUME NEW w \in Workers, ReadArtifact(w)
        PROVE  Counted'
    <2>1. Unpublished' \subseteq Unpublished
      BY <1>0, <1>3 DEF ReadArtifact, Unpublished
    <2> QED
      BY <1>3, <2>1, CountedFrame DEF ReadArtifact, resolver, budget
  <1>4. ASSUME NEW w \in Workers, WriteArtifact(w)
        PROVE  Counted'
    <2>1. /\ call[w] \in Calls /\ call[w].pc = "write" /\ w \in Unpublished
          /\ call[w].copy = zone[call[w].artifact]
      BY <1>0, <1>4 DEF WriteArtifact, Unpublished, IInv, Exclusive
    <2>2. /\ IsFiniteSet(Unpublished \ {w})
          /\ Cardinality(Unpublished \ {w}) = Cardinality(Unpublished) - 1
      BY <2>1, FS_RemoveElement DEF Counted
    <2>3. Unpublished' \subseteq Unpublished \ {w}
      <3>1. PICK c : call' = [call EXCEPT ![w] = c] /\ c.pc \notin {"lock", "write"}
        <4>1. \/ call' = [call EXCEPT ![w] = NoCall]
              \/ call' = [call EXCEPT ![w] = At(call[w], "reload", NoZone)]
              \/ call' = [call EXCEPT ![w] = At(call[w], "check", NoZone)]
          BY <1>4 DEF WriteArtifact
        <4>2. /\ NoCall.pc = "idle" /\ At(call[w], "reload", NoZone).pc = "reload"
              /\ At(call[w], "check", NoZone).pc = "check"
          BY DEF NoCall, At
        <4> QED
          BY <4>1, <4>2
      <3> QED
        BY <1>0, <3>1 DEF Unpublished
    <2>4. /\ IsFiniteSet(Unpublished') /\ Cardinality(Unpublished') \in Nat
          /\ Cardinality(Unpublished') <= Cardinality(Unpublished) - 1
      BY <2>2, <2>3, FS_Subset, FS_CardinalityType
    <2>5. served' = served /\ calls' = calls
      BY <1>4 DEF WriteArtifact, resolver, budget
    <2>6. PICK names : zone' = [zone EXCEPT ![call[w].artifact] = NextGeneration(call[w].copy, names)]
      BY <1>4 DEF WriteArtifact
    <2>7. CASE call[w].artifact = "live"
      <3>1. zone'["live"].serial = NextSerial(zone["live"].serial)
        BY <1>0, <2>1, <2>6, <2>7 DEF NextGeneration
      <3>2. Behind < SerialMod - 1
        <4>1. SerialMod \div 2 < SerialMod /\ SerialMod \div 2 \in Nat /\ SerialMod \in Nat
          BY RpzAssumption
        <4>2. Cardinality(Unpublished) >= 1
          BY <1>0, <2>2, <2>4
        <4> QED
          BY <1>0, <4>1, <4>2, RpzAssumption DEF Counted
      <3>3. Behind' = Behind + 1
        BY <1>0, <2>5, <3>1, <3>2, OneFurther DEF Behind
      <3> QED
        BY <1>0, <2>4, <2>5, <3>3, RpzAssumption DEF Counted
    <2>8. CASE call[w].artifact # "live"
      <3>1. zone'["live"] = zone["live"]
        BY <1>0, <2>6, <2>8
      <3>2. Behind' = Behind
        BY <2>5, <3>1 DEF Behind
      <3> QED
        BY <1>0, <2>4, <2>5, <3>1, <3>2, RpzAssumption DEF Counted
    <2> QED
      BY <2>7, <2>8
  <1>5. ASSUME NEW w \in Workers, WriteFails(w) \/ Reload(w) \/ ReloadFails(w)
                                  \/ FinishRevoke(w) \/ RevokeUnverified(w)
        PROVE  Counted'
    <2>1. PICK c : call' = [call EXCEPT ![w] = c] /\ c.pc \notin {"lock", "write"}
      BY <1>5 DEF WriteFails, Reload, ReloadFails, FinishRevoke, RevokeUnverified, NoCall, At
    <2>2. Unpublished' \subseteq Unpublished
      BY <1>0, <2>1 DEF Unpublished
    <2>3. zone' = zone /\ served' = served /\ calls' = calls
      BY <1>5 DEF WriteFails, Reload, ReloadFails, FinishRevoke, RevokeUnverified,
                  resolver, budget, Failing
    <2> QED
      BY <2>2, <2>3, CountedFrame
  <1>6. ASSUME ResolverLoads
        PROVE  Counted'
    <2>1. served' = zone["live"] /\ zone' = zone /\ calls' = calls /\ Unpublished' = Unpublished
      BY <1>6, LoadsTheLive DEF ResolverLoads, budget, Unpublished
    <2>2. Behind' = 0
      BY <1>0, <2>1, DistanceIs DEF Behind, Serials
    <2> QED
      BY <1>0, <2>1, <2>2, RpzAssumption DEF Counted
  <1>7. ASSUME NEW p \in Processes, NEW m \in Postures, Restart(p, m)
        PROVE  Counted'
    <2>1. Unpublished' \subseteq Unpublished
      BY <1>7 DEF Restart, Unpublished, NoCall
    <2> QED
      BY <1>7, <2>1, CountedFrame DEF Restart, resolver, Failing
  <1> QED
    BY <1>2, <1>3, <1>4, <1>5, <1>6, <1>7 DEF Next

(* With fewer calls than half the modulus, no write is lost on the resolver: *)
(* whenever the live artifact's last generation has been signalled and the    *)
(* signal acted on, the resolver serves exactly it.  RFC 1982 needs the bound *)
(* (2^31 publications in the code): beyond it a serial may look older.        *)
THEOREM ReloadsPropagate ==
  ASSUME MaxCalls < SerialMod \div 2
  PROVE  Spec => []ReloadPropagates
  <1>1. Init => Counted /\ ReloadPropagates
    <2>1. Init => ReloadPropagates
      BY DEF Init, ReloadPropagates, Artifacts
    <2> QED
      BY <2>1, CountedInit
  <1>2. IInv /\ Counted /\ ReloadPropagates /\ [Next]_vars => (Counted /\ ReloadPropagates)'
    <2> SUFFICES ASSUME IInv, Counted, ReloadPropagates, [Next]_vars
                 PROVE  Counted' /\ ReloadPropagates'
      OBVIOUS
    <2>1. CASE Next
      <3>1. Counted'
        BY <2>1, CountedStep
      <3>2. ReloadPropagates'
        <4>1. ASSUME ~unreloaded', ~signalled', ~ResolverLoads
              PROVE  zone'["live"] = zone["live"] /\ served' = served /\ ~unreloaded /\ ~signalled
          <5>1. ASSUME NEW w \in Workers, WriteArtifact(w)
                PROVE  zone'["live"] = zone["live"] /\ served' = served /\ ~unreloaded /\ ~signalled
            <6>1. call[w].artifact # "live" /\ unreloaded' = unreloaded
              BY <4>1, <5>1 DEF WriteArtifact
            <6>2. PICK g : zone' = [zone EXCEPT ![call[w].artifact] = g]
              BY <5>1 DEF WriteArtifact
            <6> QED
              BY <4>1, <5>1, <6>1, <6>2 DEF WriteArtifact, resolver, IInv, TypeOK, Artifacts
          <5>2. ASSUME NEW w \in Workers, Reload(w)
                PROVE  FALSE
            BY <4>1, <5>2 DEF Reload
          <5> QED
            BY <2>1, <4>1, <5>1, <5>2 DEF Next, BeginApply, BeginRevoke, ReadArtifact,
               WriteFails, ReloadFails, FinishRevoke, RevokeUnverified, Restart, resolver
        <4>2. ASSUME ResolverLoads
              PROVE  served' = zone'["live"]
          BY <4>2, LoadsTheLive DEF ResolverLoads
        <4> QED
          BY <4>1, <4>2 DEF ReloadPropagates
      <3> QED
        BY <3>1, <3>2
    <2>2. CASE UNCHANGED vars
      BY <2>2 DEF vars, Counted, Behind, Unpublished, ReloadPropagates
    <2> QED
      BY <2>1, <2>2
  <1> QED
    BY <1>1, <1>2, Invariance, PTL DEF Spec
=============================================================================
