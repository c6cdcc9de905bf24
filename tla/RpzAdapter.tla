----------------------------- MODULE RpzAdapter -----------------------------
(***************************************************************************)
(* The DNS RPZ adapter: controller threads (Workers) of several processes   *)
(* apply and revoke exact-FQDN rules in two zone artifacts, a live one the  *)
(* resolver consumes and a shadow one it does not.  A call reads the whole  *)
(* artifact, changes it, advances its SOA serial and replaces the file,     *)
(* under the in-process lock and the flock beside the artifact (one mutex   *)
(* here); then, for a live rule, it runs the reload command.  The resolver  *)
(* loads the file later, and only if the serial has advanced.               *)
(*                                                                          *)
(* A name is a member of Owners and a zone the set of names it carries.     *)
(* verify() and get_state() only read; structural validation refuses calls  *)
(* before they touch anything.  Neither is modelled.                        *)
(***************************************************************************)
EXTENDS Naturals

CONSTANTS
    Owners,         \* exact FQDNs inside the adapter's authorized scope
    Processes,      \* controller processes sharing the zone directory
    Workers,        \* threads that call the adapter
    ProcessOf,      \* [Workers -> Processes]
    NoWorker,
    NoOwner,
    Postures,       \* adapter.rpz_mode of a (re)started process
    ActionModes,    \* modes the ledger stores with its actions
    SerialMod,      \* SOA serials are counted modulo this (2^32 in the code)
    OldSerials,     \* serials a live artifact found at the start may carry
    MaxCalls,       \* bound: apply and revoke calls
    MaxFailures     \* bound: failing writes and reloads, restarts

Modes == {"OFF", "OBSERVE", "SHADOW", "ENFORCE"}
Artifacts == {"live", "shadow"}
Serials == 0..(SerialMod - 1)

ASSUME RpzAssumption ==
    /\ ProcessOf \in [Workers -> Processes]
    /\ NoWorker \notin Workers /\ NoOwner \notin Owners
    /\ Postures \subseteq Modes /\ ActionModes \subseteq Modes
    /\ SerialMod \in Nat /\ SerialMod > 3 /\ SerialMod % 2 = 0
    /\ OldSerials \subseteq Serials
    /\ MaxCalls \in Nat /\ MaxFailures \in Nat

VARIABLES
    zone,         \* the artifact files: [Artifacts -> Zones]
    served,       \* the generation of the live artifact the resolver serves
    signalled,    \* a reload command succeeded and is still to be acted on
    unreloaded,   \* the live file was replaced and no reload succeeded since
    posture,      \* rpz_mode of each process
    lock,         \* holder of the artifact mutex
    call,         \* the adapter call each worker is in
    enforceable,  \* names some action with the stored mode ENFORCE was for
    gone,         \* names whose ENFORCE action was last reported removed
    calls, failures

vars == <<zone, served, signalled, unreloaded, posture, lock, call,
          enforceable, gone, calls, failures>>

Zones == [exists : BOOLEAN, serial : Serials, names : SUBSET Owners]
NoZone == [exists |-> FALSE, serial |-> 0, names |-> {}]

Calls == [op : {"none", "apply", "revoke"}, owner : Owners \cup {NoOwner},
          mode : Modes, artifact : Artifacts,
          pc : {"idle", "lock", "write", "reload", "check"}, copy : Zones]
Called(kind, o, m, k) == [op |-> kind, owner |-> o, mode |-> m, artifact |-> k,
                          pc |-> "lock", copy |-> NoZone]
NoCall == [op |-> "none", owner |-> NoOwner, mode |-> "OFF",
           artifact |-> "shadow", pc |-> "idle", copy |-> NoZone]


(* A call that has got to the point pc, holding a copy of an artifact.       *)
At(c, pc, copy) == [op |-> c.op, owner |-> c.owner, mode |-> c.mode,
                    artifact |-> c.artifact, pc |-> pc, copy |-> copy]

-----------------------------------------------------------------------------
(* Postures.  A definition whose name ends in Bug is the next one with a     *)
(* plausible mistake in it.                                                  *)

Rank == [m \in Modes |-> IF m = "OFF" THEN 0 ELSE IF m = "OBSERVE" THEN 1
                         ELSE IF m = "SHADOW" THEN 2 ELSE 3]

(* effective_mode: the stored mode is the authority, configuration may only  *)
(* weaken it.                                                                *)
EffectiveBug(stored, max) == max
Effective(stored, max) == IF Rank[stored] < Rank[max] THEN stored ELSE max

ArtifactOfBug(mode) == "live"
ArtifactOf(mode) == IF mode = "ENFORCE" THEN "live" ELSE "shadow"

-----------------------------------------------------------------------------
(* Generations.                                                              *)

NextSerialBug(s) == s
NextSerialUnboundedBug(s) == s + 1
NextSerial(s) == (s + 1) % SerialMod

(* RFC 1982: what makes the resolver take a reload for a new zone.           *)
Advances(new, old) ==
    LET d == (new + SerialMod - old) % SerialMod
    IN  d > 0 /\ d < SerialMod \div 2

(* A fresh artifact starts from the header's serial 0, advanced like any     *)
(* other.                                                                    *)
NextGeneration(z, names) ==
    [exists |-> TRUE, serial |-> NextSerial(z.serial), names |-> names]

Failing == failures < MaxFailures /\ failures' = failures + 1 /\ UNCHANGED calls
Calling == calls < MaxCalls /\ calls' = calls + 1 /\ UNCHANGED failures

-----------------------------------------------------------------------------
Init ==
    /\ \E s \in OldSerials, old \in BOOLEAN :
           LET z == IF old THEN [exists |-> TRUE, serial |-> s, names |-> {}]
                           ELSE NoZone
           IN  /\ zone = [k \in Artifacts |-> IF k = "live" THEN z ELSE NoZone]
               /\ served = z
    /\ signalled = FALSE
    /\ unreloaded = FALSE
    /\ posture \in [Processes -> Postures]
    /\ lock = NoWorker
    /\ call = [w \in Workers |-> NoCall]
    /\ enforceable = {}
    /\ gone = {}
    /\ calls = 0
    /\ failures = 0

budget == <<calls, failures>>
resolver == <<served, signalled>>
ledgerView == <<enforceable, gone>>

(* apply(): refuses an effective posture below SHADOW.                       *)
BeginApply(w, o, m) ==
    LET eff == Effective(m, posture[ProcessOf[w]]) IN
    /\ call[w].pc = "idle"
    /\ Rank[eff] >= Rank["SHADOW"]
    /\ call' = [call EXCEPT ![w] = Called("apply", o, m, ArtifactOf(eff))]
    /\ enforceable' = IF m = "ENFORCE" THEN enforceable \cup {o}
                                       ELSE enforceable
    /\ Calling
    /\ UNCHANGED <<zone, resolver, unreloaded, posture, lock, gone>>

(* revoke(): at any posture, for a rule stored with mode m.                  *)
BeginRevoke(w, o, m) ==
    LET eff == Effective(m, posture[ProcessOf[w]]) IN
    /\ call[w].pc = "idle"
    /\ call' = [call EXCEPT ![w] = Called("revoke", o, m, ArtifactOf(eff))]
    /\ Calling
    /\ UNCHANGED <<zone, resolver, unreloaded, posture, lock, ledgerView>>

(* Both locks taken, the artifact read.  A revoke that finds nothing to      *)
(* remove releases them at once and skips the reload.                        *)
FreeBug == TRUE
Free == lock = NoWorker
ReadArtifact(w) ==
    LET z == zone[call[w].artifact] IN
    /\ call[w].pc = "lock" /\ Free
    /\ IF call[w].op = "revoke" /\ call[w].owner \notin z.names
       THEN /\ call' = [call EXCEPT ![w] = At(@, "check", NoZone)]
            /\ UNCHANGED lock
       ELSE /\ call' = [call EXCEPT ![w] = At(@, "write", z)]
            /\ lock' = w
    /\ UNCHANGED <<zone, resolver, unreloaded, posture, ledgerView, budget>>

(* os.replace publishes the next generation of what was read; the locks are  *)
(* released.  Only the live artifact is ever reloaded.                       *)
WriteArtifact(w) ==
    LET c == call[w]
        names == IF c.op = "apply" THEN c.copy.names \cup {c.owner}
                                   ELSE c.copy.names \ {c.owner}
    IN
    /\ c.pc = "write"
    /\ zone' = [zone EXCEPT ![c.artifact] = NextGeneration(c.copy, names)]
    /\ lock' = NoWorker
    /\ IF c.artifact = "live"
       THEN /\ unreloaded' = TRUE
            /\ call' = [call EXCEPT ![w] = At(c, "reload", NoZone)]
       ELSE /\ UNCHANGED unreloaded
            /\ call' = [call EXCEPT ![w] = IF c.op = "apply" THEN NoCall
                                     ELSE At(c, "check", NoZone)]
    /\ gone' = IF c.op = "apply" /\ c.mode = "ENFORCE"
               THEN gone \ {c.owner} ELSE gone
    /\ UNCHANGED <<resolver, posture, enforceable, budget>>

(* The trusted parser rejects the temp file, or the disk does: nothing is    *)
(* published, the locks are released and the call raises.                    *)
WriteFails(w) ==
    /\ call[w].pc = "write" /\ Failing
    /\ lock' = NoWorker
    /\ call' = [call EXCEPT ![w] = NoCall]
    /\ UNCHANGED <<zone, resolver, unreloaded, posture, ledgerView>>

(* The reload command returned 0: the resolver has been told.                *)
Reload(w) ==
    /\ call[w].pc = "reload"
    /\ signalled' = TRUE
    /\ unreloaded' = FALSE
    /\ call' = [call EXCEPT ![w] = IF call[w].op = "apply" THEN NoCall
                                   ELSE At(call[w], "check", NoZone)]
    /\ UNCHANGED <<zone, served, posture, lock, ledgerView, budget>>

(* It failed: apply answers "published but reload failed", revoke raises.    *)
ReloadFails(w) ==
    /\ call[w].pc = "reload" /\ Failing
    /\ call' = [call EXCEPT ![w] = NoCall]
    /\ UNCHANGED <<zone, resolver, unreloaded, posture, lock, ledgerView>>

(* The end of revoke: the name must be gone from the artifact it selected,   *)
(* and the resolver, when it answers, must have stopped suppressing it.      *)
FinishRevoke(w) ==
    LET c == call[w] IN
    /\ c.pc = "check" /\ c.owner \notin zone[c.artifact].names
    /\ gone' = IF c.mode = "ENFORCE" THEN gone \cup {c.owner} ELSE gone
    /\ call' = [call EXCEPT ![w] = NoCall]
    /\ UNCHANGED <<zone, resolver, unreloaded, posture, lock, enforceable,
                   budget>>

(* The resolver answers NXDOMAIN until the budget is spent, or the name is   *)
(* back in the artifact: revoke reports failure.                             *)
RevokeUnverified(w) ==
    LET c == call[w] IN
    /\ c.pc = "check"
    /\ \/ c.owner \in zone[c.artifact].names
       \/ c.artifact = "live" /\ c.owner \in served.names
    /\ call' = [call EXCEPT ![w] = NoCall]
    /\ UNCHANGED <<zone, resolver, unreloaded, posture, lock, ledgerView,
                   budget>>

(* The resolver acts on the signal: a zone whose serial has not advanced is  *)
(* ignored.  Only the live artifact is attached to it.                       *)
ResolverLoads ==
    /\ signalled
    /\ signalled' = FALSE
    /\ served' = IF served.exists /\ ~Advances(zone["live"].serial, served.serial)
                 THEN served ELSE zone["live"]
    /\ UNCHANGED <<zone, unreloaded, posture, lock, call, ledgerView, budget>>

(* A process dies and is started again, possibly with another rpz_mode.  The *)
(* kernel drops its flock; a temp file it leaves behind is never read.       *)
Restart(p, m) ==
    /\ Failing
    /\ posture' = [posture EXCEPT ![p] = m]
    /\ call' = [w \in Workers |-> IF ProcessOf[w] = p THEN NoCall ELSE call[w]]
    /\ lock' = IF lock # NoWorker /\ ProcessOf[lock] = p THEN NoWorker ELSE lock
    /\ UNCHANGED <<zone, resolver, unreloaded, ledgerView>>

Next ==
    \/ \E w \in Workers :
           \/ \E o \in Owners, m \in ActionModes :
                  BeginApply(w, o, m) \/ BeginRevoke(w, o, m)
           \/ ReadArtifact(w) \/ WriteArtifact(w) \/ WriteFails(w)
           \/ Reload(w) \/ ReloadFails(w)
           \/ FinishRevoke(w) \/ RevokeUnverified(w)
    \/ ResolverLoads
    \/ \E p \in Processes, m \in Postures : Restart(p, m)

Spec == Init /\ [][Next]_vars
-----------------------------------------------------------------------------
TypeOK ==
    /\ zone \in [Artifacts -> Zones]
    /\ served \in Zones
    /\ signalled \in BOOLEAN
    /\ unreloaded \in BOOLEAN
    /\ posture \in [Processes -> Modes]
    /\ lock \in Workers \cup {NoWorker}
    /\ call \in [Workers -> Calls]
    /\ enforceable \in SUBSET Owners
    /\ gone \in SUBSET Owners
    /\ calls \in Nat
    /\ failures \in Nat

(* An action stored as SHADOW never changes a DNS answer, whatever rpz_mode  *)
(* the adapter is restarted with: the resolver suppresses only names some    *)
(* ENFORCE action was for.                                                   *)
ShadowNeverServed == served.names \subseteq enforceable

(* Once the live file's last generation has been signalled and acted on, the *)
(* resolver serves exactly it: no reload is ignored, none is overtaken by a  *)
(* later write it has not seen, and the serial's wrap does no harm.          *)
ReloadPropagates ==
    ~unreloaded /\ ~signalled => served = zone["live"]

(* A live rule disappears only through a revoke of an ENFORCE action for     *)
(* that name, never through one of another posture.                          *)
LiveLeavesByEnforceRevoke ==
    [][\A o \in zone["live"].names \ zone'["live"].names :
          \E w \in Workers :
              /\ call[w].op = "revoke" /\ call[w].pc = "write"
              /\ call[w].owner = o /\ call[w].mode = "ENFORCE"]_vars

(* Concurrent publishers lose nothing: the artifacts implement the contract. *)
Contract == INSTANCE ArtifactContract WITH
    published <- [k \in Artifacts |-> zone[k].names]
ImplementsArtifacts == Contract!Spec

(* _remove_action: a control is never silently marked gone.  A name whose    *)
(* ENFORCE action revoke() reported removed is not in the live artifact.     *)
(* (TLC refutes this: see the README, Findings.)                             *)
GoneIsWithdrawn == gone \cap zone["live"].names = {}
=============================================================================
