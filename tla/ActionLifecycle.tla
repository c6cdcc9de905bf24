--------------------------- MODULE ActionLifecycle ---------------------------
(***************************************************************************)
(* The actuation core: controllers that dispatch, verify, expire, revoke   *)
(* and reconcile enforcement actions against a shared Postgres ledger and   *)
(* an adapter's artifact.  Every controller runs a dispatch thread, a       *)
(* reconcile thread and API threads (one operator revoke at a time here).   *)
(*                                                                          *)
(* A step is one committed SQL statement (the database is in autocommit),   *)
(* one adapter call, or one lease exchange.  What a thread has read before  *)
(* and uses later is kept in its local record: the snapshot it iterates     *)
(* over (todo), the row in hand (item) and the outcome still to be written  *)
(* (result).  Attempts, receipts and audit rows never feed back into        *)
(* control and are left out.                                                *)
(***************************************************************************)
EXTENDS Naturals

CONSTANTS
    Controllers,      \* controller processes sharing the ledger
    Actions,          \* action rows, each created at most once
    Rules,            \* physical identities: (adapter, rule_id, artifact mode)
    RuleOf,           \* [Actions -> Rules]
    NoAction,         \* "no row in hand"
    NoController,     \* the lease is held by nobody alive
    ApiServers,       \* controllers that serve operator revokes
    Expiring,         \* bound: rows whose TTL may run out
    MaxRevision,      \* bound: policy promotions
    MaxMishaps,       \* bound: failing adapter calls, crashes, aborted passes,
                      \* live leases lost
    ReloadMayFail,    \* may apply publish the rule and then fail to reload?
    SlowWorkers       \* may a live thread outlast the stale window?

ASSUME ConstantsAssumption ==
    /\ RuleOf \in [Actions -> Rules]
    /\ NoAction \notin Actions
    /\ NoController \notin Controllers
    /\ ApiServers \subseteq Controllers
    /\ Expiring \subseteq Actions
    /\ MaxRevision \in Nat
    /\ MaxMishaps \in Nat
    /\ ReloadMayFail \in BOOLEAN
    /\ SlowWorkers \in BOOLEAN

VARIABLES
    state,        \* actions.state ("none": the row does not exist yet)
    desired,      \* actions.desired_state
    bound,        \* the policy revision the latest authorizing decision was made under
    aged,         \* rows whose last_reconciled_at is older than the stale window
    due,          \* rows whose expires_at has passed
    revision,     \* the active policy revision
    permits,      \* rows the active policy still allows to be present
    rules,        \* rules published in the adapters' artifacts
    leader,       \* controller_leases.leader_id
    leaseLive,    \* controller_leases.expires_at is in the future
    thread,       \* local state of every controller thread
    mishaps       \* how many of MaxMishaps have happened

rowVars == <<state, desired, aged>>
decisionVars == <<bound, due, revision, permits>>
leaseVars == <<leader, leaseLive>>
vars == <<rowVars, decisionVars, rules, leaseVars, thread, mishaps>>

-----------------------------------------------------------------------------
Active == {"applied", "verified", "drifted"}
Owning == Active \cup {"pending", "dispatching"}
Settled == {"revoked", "expired", "failed", "cancelled_policy_changed"}
States == {"none", "removing"} \cup Owning \cup Settled

Threads == (Controllers \X {"dispatch", "reconcile"})
               \cup (ApiServers \X {"operator"})

(* The phases of a reconcile pass, in the order _reconcile_pass runs them,   *)
(* the single phase of a dispatch pass, and an operator revoke.              *)
Phases == {"none", "dispatch", "requeue", "retry", "absent", "policy",
           "expiry", "verify", "operator"}
NextPhase == [dispatch |-> "end", requeue |-> "retry", retry |-> "absent",
              absent |-> "policy", policy |-> "expiry", expiry |-> "verify",
              verify |-> "end", operator |-> "end"]
Following(t) ==
    IF thread[t].phase = "none"
    THEN IF t[2] = "dispatch" THEN "dispatch" ELSE "requeue"
    ELSE NextPhase[thread[t].phase]

Removing == {"coowners", "revoke"}            \* inside _remove_action
Dispatching == {"authorize", "apply", "verify"}  \* inside _dispatch_one
Points == {"idle", "next", "request", "retry", "record", "abandon", "lease"}
              \cup Removing \cup Dispatching
Results == Active \cup Settled \cup {"none"}

LocalState == [pc : Points, phase : Phases, todo : SUBSET Actions,
               item : Actions \cup {NoAction}, result : Results]
Idle == [pc |-> "idle", phase |-> "none", todo |-> {}, item |-> NoAction,
         result |-> "none"]

-----------------------------------------------------------------------------
(* The sets of rows each SELECT returns.  A definition whose name ends in    *)
(* Bug is the next one with a plausible mistake in it: the runs must notice. *)

RowsIn(S) == {a \in Actions : state[a] \in S}
StuckDispatchingBug ==
    {a \in RowsIn({"dispatching"}) \cap aged : desired[a] = "ABSENT"}
StuckDispatching == RowsIn({"dispatching"}) \cap aged
StuckRemoving == {a \in RowsIn({"removing"}) \cap aged : desired[a] = "ABSENT"}
DesiredAbsentActiveBug ==
    {a \in RowsIn({"removing"}) : desired[a] = "ABSENT"}
DesiredAbsentActive ==
    {a \in RowsIn(Active \cup {"removing"}) : desired[a] = "ABSENT"}
DueForExpiryBug == RowsIn({"applied"}) \cap due
DueForExpiry == RowsIn(Active) \cap due
CoOwners(a) == {b \in RowsIn(Owning) \ {a} : RuleOf[b] = RuleOf[a]}

(* What the query that opens a phase may return.  verified_at is abstracted: *)
(* any subset of the active rows may be due for verification.                *)
Snapshots(phase) ==
    CASE phase = "dispatch" -> {RowsIn({"pending"})}
      [] phase = "requeue"  -> {StuckDispatching}
      [] phase = "retry"    -> {StuckRemoving}
      [] phase = "absent"   -> {DesiredAbsentActive}
      [] phase = "policy"   -> {RowsIn(Active)}
      [] phase = "expiry"   -> {DueForExpiry}
      [] phase = "verify"   -> SUBSET RowsIn(Active)
      [] OTHER              -> {{}}

-----------------------------------------------------------------------------
(* Thread-local moves.                                                       *)

At(t, pc, phase) == thread[t].pc = pc /\ thread[t].phase = phase

Goto(t, pc) == thread' = [thread EXCEPT ![t].pc = pc]

Yielding(t, result) ==
    thread' = [thread EXCEPT ![t].pc = "record", ![t].result = result]

(* Take a row of the snapshot in hand and continue with it at pc.            *)
Take(t, a, pc) ==
    thread' = [thread EXCEPT ![t].pc = pc, ![t].item = a,
                             ![t].todo = @ \ {a}]

Skip(t, a) == thread' = [thread EXCEPT ![t].todo = @ \ {a}]

(* Done with the row in hand: back to the loop, or out of the API call.      *)
Done(t) ==
    IF thread[t].phase = "operator"
    THEN [thread EXCEPT ![t] = Idle]
    ELSE [thread EXCEPT ![t].pc = "next", ![t].item = NoAction,
                        ![t].result = "none"]

-----------------------------------------------------------------------------
(* The guarded UPDATEs of the ledger.  Each bumps last_reconciled_at.        *)

Write(a, s) ==
    /\ state' = [state EXCEPT ![a] = s]
    /\ aged' = aged \ {a}

(* retry_removal, and the second UPDATE of unclaim_action.                   *)
RequeueRemovalBug(a) ==
    /\ IF state[a] = "removing" THEN Write(a, "pending")
                               ELSE UNCHANGED <<state, aged>>
    /\ UNCHANGED desired
RequeueRemoval(a) ==
    /\ IF state[a] = "removing" /\ desired[a] = "ABSENT"
       THEN Write(a, "applied")
       ELSE UNCHANGED <<state, aged>>
    /\ UNCHANGED desired

CanRequestRemoval(a, from) == state[a] \in from

(* request_removal: ABSENT and 'removing' are committed in one statement.    *)
CommitAbsentBug(a) == Write(a, "removing") /\ UNCHANGED desired
CommitAbsent(a) ==
    /\ Write(a, "removing")
    /\ desired' = [desired EXCEPT ![a] = "ABSENT"]

(* from_states of the caller in whose name a thread requests the removal.    *)
RemovalFromBug(phase) ==
    IF phase = "absent" THEN Active \cup {"removing"} ELSE {"applied"}
RemovalFrom(phase) ==
    CASE phase = "absent"   -> Active \cup {"removing"}
      [] phase = "operator" -> Active \cup {"dispatching"}
      [] OTHER              -> Active

TerminalOfBug(phase) == IF phase = "expiry" THEN "expired" ELSE "operator_revoke"
TerminalOf(phase) == IF phase = "expiry" THEN "expired" ELSE "revoked"

Mishap == mishaps < MaxMishaps /\ mishaps' = mishaps + 1

-----------------------------------------------------------------------------
Init ==
    /\ state = [a \in Actions |-> "none"]
    /\ desired = [a \in Actions |-> "PRESENT"]
    /\ bound = [a \in Actions |-> 0]
    /\ aged = {}
    /\ due = {}
    /\ revision = 0
    /\ permits = Actions
    /\ rules = {}
    /\ leader = NoController
    /\ leaseLive = FALSE
    /\ thread = [t \in Threads |-> Idle]
    /\ mishaps = 0

-----------------------------------------------------------------------------
(* The decision side and the environment.                                    *)

(* record_action: a decision made under any revision so far inserts its row. *)
(* uq_actions_per_decision makes every later insert of it a no-op.           *)
RecordAction(a) ==
    /\ state[a] = "none"
    /\ \E r \in 0..revision : bound' = [bound EXCEPT ![a] = r]
    /\ Write(a, "pending")
    /\ UNCHANGED <<desired, due, revision, permits, rules, leaseVars, thread,
                   mishaps>>

(* record_decision: another row of the decision a control rests on, which    *)
(* the dispatcher takes for it (get_decision returns the latest).            *)
Redecide(a) ==
    /\ state[a] # "none"
    /\ \E r \in 0..revision \ {bound[a]} : bound' = [bound EXCEPT ![a] = r]
    /\ UNCHANGED <<rowVars, due, revision, permits, rules, leaseVars, thread,
                   mishaps>>

(* A promotion replaces the active policy: a new content hash, and any set   *)
(* of rows that posture, allowlist and scope still let be present.           *)
PromotePolicy(S) ==
    /\ revision < MaxRevision
    /\ revision' = revision + 1
    /\ permits' = S
    /\ UNCHANGED <<rowVars, bound, due, rules, leaseVars, thread, mishaps>>

(* now() passes expires_at of the row.                                       *)
FallDue(a) ==
    /\ state[a] # "none" /\ a \in Expiring \ due
    /\ due' = due \cup {a}
    /\ UNCHANGED <<rowVars, bound, revision, permits, rules, leaseVars, thread,
                   mishaps>>

(* now() passes last_reconciled_at + stale window of a claimed row.  Unless  *)
(* SlowWorkers, no live thread keeps a row in hand that long.                *)
Age(a) ==
    /\ state[a] \in {"dispatching", "removing"} /\ a \notin aged
    /\ SlowWorkers \/ \A t \in Threads : thread[t].item # a
    /\ aged' = aged \cup {a}
    /\ UNCHANGED <<state, desired, decisionVars, rules, leaseVars,
                   thread, mishaps>>

-----------------------------------------------------------------------------
(* The worker lease.                                                         *)

(* claim_leadership: the holder renews, an expired lease goes to the caller. *)
MayHold(c) == leader = c \/ ~leaseLive
Hold(c) == leader' = c /\ leaseLive' = TRUE

(* The lease of a dead process runs out.                                     *)
DeadLeaseExpires ==
    /\ leader = NoController /\ leaseLive
    /\ leaseLive' = FALSE
    /\ UNCHANGED <<rowVars, decisionVars, rules, leader, thread,
                   mishaps>>

(* A live holder fails to renew in time, or stop() releases the lease while  *)
(* a thread it joined with a timeout is still at work.                       *)
LiveLeaseExpires ==
    /\ leader # NoController /\ leaseLive /\ Mishap
    /\ leaseLive' = FALSE
    /\ UNCHANGED <<rowVars, decisionVars, rules, leader, thread>>

(* The process dies and is restarted.  Its threads lose what they hold; the  *)
(* new process has a new leader id, so its old lease only runs out.          *)
Crash(c) ==
    /\ Mishap
    /\ thread' = [t \in Threads |-> IF t[1] = c THEN Idle ELSE thread[t]]
    /\ leader' = IF leader = c THEN NoController ELSE leader
    /\ UNCHANGED <<rowVars, decisionVars, rules, leaseLive>>

(* An exception that is not an AdapterError (the database, an I/O error)     *)
(* unwinds a thread to its loop, which starts over at the next interval.     *)
Abort(t) ==
    /\ thread[t].pc # "idle" /\ Mishap
    /\ thread' = [thread EXCEPT ![t] = Idle]
    /\ UNCHANGED <<rowVars, decisionVars, rules, leaseVars>>

-----------------------------------------------------------------------------
(* The loops.  The lease is exchanged once, before the pass.                 *)

StartPass(t) ==
    /\ t[2] # "operator" /\ thread[t].pc = "idle"
    /\ MayHold(t[1]) /\ Hold(t[1])
    /\ Goto(t, "next")
    /\ UNCHANGED <<rowVars, decisionVars, rules, mishaps>>

(* The rows of the phase are exhausted: run the query of the next one.       *)
FetchPhase(t) ==
    /\ thread[t].pc = "next" /\ thread[t].todo = {}
    /\ Following(t) # "end"
    /\ \E S \in Snapshots(Following(t)) :
           thread' = [thread EXCEPT ![t].phase = Following(t), ![t].todo = S]
    /\ UNCHANGED <<rowVars, decisionVars, rules, leaseVars, mishaps>>

EndPass(t) ==
    /\ thread[t].pc = "next" /\ thread[t].todo = {}
    /\ Following(t) = "end"
    /\ thread' = [thread EXCEPT ![t] = Idle]
    /\ UNCHANGED <<rowVars, decisionVars, rules, leaseVars, mishaps>>

-----------------------------------------------------------------------------
(* Dispatch.                                                                 *)

(* claim_pending_action: pending -> dispatching, or skip the row.            *)
Claim(t, a) ==
    /\ At(t, "next", "dispatch") /\ a \in thread[t].todo
    /\ IF state[a] = "pending"
       THEN Write(a, "dispatching") /\ Take(t, a, "authorize")
       ELSE Skip(t, a) /\ UNCHANGED <<state, aged>>
    /\ UNCHANGED <<desired, decisionVars, rules, leaseVars, mishaps>>

(* _stale_authorization of a pending action: the revision it is bound to is  *)
(* still the active one, and the presence predicate still holds.             *)
Authorize(t) ==
    /\ thread[t].pc = "authorize"
    /\ LET a == thread[t].item IN
       IF bound[a] = revision /\ a \in permits
       THEN Goto(t, "apply")
       ELSE Yielding(t, "cancelled_policy_changed")
    /\ UNCHANGED <<rowVars, decisionVars, rules, leaseVars, mishaps>>

(* adapter.apply returned ok: the rule is published and loaded.              *)
ApplyOk(t) ==
    /\ thread[t].pc = "apply"
    /\ rules' = rules \cup {RuleOf[thread[t].item]}
    /\ Goto(t, "verify")
    /\ UNCHANGED <<rowVars, decisionVars, leaseVars, mishaps>>

(* adapter.apply raised or returned not ok: before publishing the rule, or   *)
(* after it, when only the reload failed.                                    *)
ApplyFails(t) ==
    /\ thread[t].pc = "apply" /\ Mishap
    /\ \/ rules' = rules
       \/ ReloadMayFail /\ rules' = rules \cup {RuleOf[thread[t].item]}
    /\ Yielding(t, "failed")
    /\ UNCHANGED <<rowVars, decisionVars, leaseVars>>

(* adapter.verify right after the apply: ok exactly when the rule is there.  *)
VerifyApplied(t) ==
    /\ thread[t].pc = "verify"
    /\ \/ /\ Yielding(t, IF RuleOf[thread[t].item] \in rules
                         THEN "verified" ELSE "applied")
          /\ UNCHANGED mishaps
       \/ Yielding(t, "applied") /\ Mishap
    /\ UNCHANGED <<rowVars, decisionVars, rules, leaseVars>>

(* set_action_state of the item: unconditional on the state it finds.        *)
RecordBug(t) ==
    /\ thread[t].pc = "record"
    /\ Write(thread[t].item, thread[t].result)
    /\ desired' = [desired EXCEPT ![thread[t].item] =
                      IF thread[t].result = "verified" THEN "PRESENT" ELSE @]
    /\ thread' = Done(t)
    /\ UNCHANGED <<decisionVars, rules, leaseVars, mishaps>>
Record(t) ==
    /\ thread[t].pc = "record"
    /\ Write(thread[t].item, thread[t].result)
    /\ thread' = IF thread[t].result = "drifted"
                    /\ thread[t].phase \in {"policy", "expiry", "operator"}
                 THEN [thread EXCEPT ![t].pc = "retry"]
                 ELSE Done(t)
    /\ UNCHANGED <<desired, decisionVars, rules, leaseVars, mishaps>>

-----------------------------------------------------------------------------
(* Reconcile.                                                                *)

(* unclaim_action, first UPDATE: an interrupted apply goes back to pending.  *)
Unclaim(t, a) ==
    /\ At(t, "next", "requeue") /\ a \in thread[t].todo
    /\ IF state[a] = "dispatching" /\ desired[a] = "PRESENT"
       THEN Write(a, "pending")
       ELSE UNCHANGED <<state, aged>>
    /\ Take(t, a, "retry")
    /\ UNCHANGED <<desired, decisionVars, rules, leaseVars, mishaps>>

(* retry_removal of a removal abandoned by its remover.                      *)
RetryStuck(t, a) ==
    /\ At(t, "next", "retry") /\ a \in thread[t].todo
    /\ RequeueRemoval(a)
    /\ Skip(t, a)
    /\ UNCHANGED <<decisionVars, rules, leaseVars, mishaps>>

(* retry_removal after an unverified removal; unclaim_action, second UPDATE. *)
Retry(t) ==
    /\ thread[t].pc = "retry"
    /\ RequeueRemoval(thread[t].item)
    /\ thread' = Done(t)
    /\ UNCHANGED <<decisionVars, rules, leaseVars, mishaps>>

(* Step 0c re-authorizes a live row under the active policy.                 *)
Reauthorize(t, a) ==
    /\ At(t, "next", "policy") /\ a \in thread[t].todo
    /\ IF a \in permits THEN Skip(t, a) ELSE Take(t, a, "request")
    /\ UNCHANGED <<rowVars, decisionVars, rules, leaseVars, mishaps>>

(* request_removal of a row: by the sweep over desired-ABSENT and due rows,  *)
(* after a failed re-authorization, or for an operator.                      *)
RequestRemovalBug(t, a) ==
    /\ \/ /\ thread[t].pc = "next" /\ thread[t].phase \in {"absent", "expiry"}
          /\ a \in thread[t].todo
       \/ thread[t].pc = "request" /\ a = thread[t].item
    /\ IF CanRequestRemoval(a, RemovalFrom(thread[t].phase))
       THEN CommitAbsent(a)
       ELSE UNCHANGED rowVars
    /\ Take(t, a, IF thread[t].phase = "operator" THEN "lease" ELSE "coowners")
    /\ UNCHANGED <<decisionVars, rules, leaseVars, mishaps>>
RequestRemoval(t, a) ==
    /\ \/ /\ thread[t].pc = "next" /\ thread[t].phase \in {"absent", "expiry"}
          /\ a \in thread[t].todo
       \/ thread[t].pc = "request" /\ a = thread[t].item
    /\ IF CanRequestRemoval(a, RemovalFrom(thread[t].phase))
       THEN /\ CommitAbsent(a)
            /\ Take(t, a, IF thread[t].phase = "operator"
                          THEN "lease" ELSE "coowners")
       ELSE /\ thread' = [Done(t) EXCEPT ![t].todo = @ \ {a}]
            /\ UNCHANGED rowVars
    /\ UNCHANGED <<decisionVars, rules, leaseVars, mishaps>>

(* _remove_action: a shared rule is left to its co-owners.                   *)
CheckCoOwners(t) ==
    /\ thread[t].pc = "coowners"
    /\ IF CoOwners(thread[t].item) # {}
       THEN Yielding(t, TerminalOf(thread[t].phase))
       ELSE Goto(t, "revoke")
    /\ UNCHANGED <<rowVars, decisionVars, rules, leaseVars, mishaps>>

(* adapter.revoke succeeded: the rule is withdrawn and seen to be gone.      *)
RevokeOk(t) ==
    /\ thread[t].pc = "revoke"
    /\ rules' = rules \ {RuleOf[thread[t].item]}
    /\ Yielding(t, TerminalOf(thread[t].phase))
    /\ UNCHANGED <<rowVars, decisionVars, leaseVars, mishaps>>

(* adapter.revoke failed before or after it withdrew the rule.               *)
RevokeFails(t) ==
    /\ thread[t].pc = "revoke" /\ Mishap
    /\ \/ rules' = rules
       \/ rules' = rules \ {RuleOf[thread[t].item]}
    /\ Yielding(t, "drifted")
    /\ UNCHANGED <<rowVars, decisionVars, leaseVars>>

(* _verify_action of the sweep: verified, or drifted.                        *)
VerifySweep(t, a) ==
    /\ At(t, "next", "verify") /\ a \in thread[t].todo
    /\ \E ok \in BOOLEAN :
       /\ ok => RuleOf[a] \in rules
       /\ IF ~ok /\ RuleOf[a] \in rules THEN Mishap ELSE UNCHANGED mishaps
       /\ thread' = [thread EXCEPT ![t].pc = "record", ![t].item = a,
                         ![t].todo = @ \ {a},
                         ![t].result = IF ok THEN "verified" ELSE "drifted"]
    /\ UNCHANGED <<rowVars, decisionVars, rules, leaseVars>>

-----------------------------------------------------------------------------
(* Operator revoke, served by any controller.                                *)

(* revoke_action reads the row; what it read decides the path it takes.      *)
OperatorReads(t, a) ==
    /\ t[2] = "operator" /\ thread[t].pc = "idle"
    /\ state[a] \notin {"none", "revoked", "expired"}
    /\ thread' = [thread EXCEPT ![t] =
           [Idle EXCEPT !.phase = "operator", !.item = a,
                !.pc = IF state[a] \in {"pending", "cancelled_policy_changed"}
                       THEN "abandon" ELSE "request"]]
    /\ UNCHANGED <<rowVars, decisionVars, rules, leaseVars, mishaps>>

(* "Nothing was ever applied": terminal without touching the adapter.        *)
Abandon(t) ==
    /\ thread[t].pc = "abandon"
    /\ Write(thread[t].item, "revoked")
    /\ thread' = Done(t)
    /\ UNCHANGED <<desired, decisionVars, rules, leaseVars, mishaps>>

(* Only the lease holder removes; a follower leaves the intent to it.        *)
OperatorLease(t) ==
    /\ thread[t].pc = "lease"
    /\ IF MayHold(t[1])
       THEN Hold(t[1]) /\ Goto(t, "coowners")
       ELSE thread' = Done(t) /\ UNCHANGED leaseVars
    /\ UNCHANGED <<rowVars, decisionVars, rules, mishaps>>

-----------------------------------------------------------------------------
(* Everything a thread does once its pass or call has begun.                 *)
Work(t) ==
    /\ thread[t].pc # "idle"
    /\ \/ FetchPhase(t) \/ EndPass(t)
       \/ Authorize(t) \/ ApplyOk(t) \/ ApplyFails(t) \/ VerifyApplied(t)
       \/ Record(t) \/ Retry(t)
       \/ CheckCoOwners(t) \/ RevokeOk(t) \/ RevokeFails(t)
       \/ Abandon(t) \/ OperatorLease(t)
       \/ \E a \in Actions :
              \/ Claim(t, a) \/ Unclaim(t, a) \/ RetryStuck(t, a)
              \/ Reauthorize(t, a) \/ RequestRemoval(t, a)
              \/ VerifySweep(t, a)

Next ==
    \/ \E a \in Actions : RecordAction(a) \/ Redecide(a) \/ FallDue(a) \/ Age(a)
    \/ \E S \in SUBSET Actions : PromotePolicy(S)
    \/ DeadLeaseExpires \/ LiveLeaseExpires
    \/ \E c \in Controllers : Crash(c)
    \/ \E t \in Threads :
           \/ Abort(t) \/ StartPass(t) \/ Work(t)
           \/ \E a \in Actions : OperatorReads(t, a)

Spec == Init /\ [][Next]_vars

(* The loops run forever, a thread that has started is scheduled, and time   *)
(* passes.  Operators, promotions and failures owe nothing.                  *)
Fairness ==
    /\ \A t \in Threads : WF_vars(StartPass(t) \/ Work(t))
    /\ \A a \in Actions : WF_vars(Age(a))
    /\ WF_vars(DeadLeaseExpires)

FairSpec == Spec /\ Fairness
-----------------------------------------------------------------------------
(* What the lifecycle guarantees.                                            *)

TypeOK ==
    /\ state \in [Actions -> States]
    /\ desired \in [Actions -> {"PRESENT", "ABSENT"}]
    /\ bound \in [Actions -> Nat]
    /\ aged \in SUBSET Actions
    /\ due \in SUBSET Actions
    /\ revision \in Nat
    /\ permits \in SUBSET Actions
    /\ rules \in SUBSET Rules
    /\ leader \in Controllers \cup {NoController}
    /\ leaseLive \in BOOLEAN
    /\ thread \in [Threads -> LocalState]
    /\ mishaps \in Nat

(* A row whose durable intent is ABSENT is never apply-work again: no        *)
(* recovery path (unclaim_action, retry_removal, an unconditional            *)
(* set_action_state by a thread that started earlier) takes it back to       *)
(* pending or dispatching, and 'removing' always carries that intent.        *)
AbsentNeverReapplied ==
    \A a \in Actions :
        /\ desired[a] = "ABSENT" => state[a] \notin {"none", "pending", "dispatching"}
        /\ state[a] = "removing" => desired[a] = "ABSENT"

(* Nobody reaches the adapter's revoke for a row without its ABSENT intent   *)
(* committed first, whatever other threads have written since.               *)
RemoverHasIntent ==
    \A t \in Threads :
        thread[t].pc \in Removing \cup {"lease"} =>
            desired[thread[t].item] = "ABSENT"

(* A row that is reported verified and is still wanted has its rule in the   *)
(* artifact: verification is never recorded from a stale observation.        *)
(* Holds when no two rows share a physical rule.                             *)
VerifiedIsEnforced ==
    \A a \in Actions :
        state[a] = "verified" /\ desired[a] = "PRESENT" => RuleOf[a] \in rules

(* The lifecycle keeps the durable-intent contract.                          *)
Contract == INSTANCE ControlContract WITH
    intent <- [a \in Actions |-> IF state[a] = "none" THEN "none"
                                  ELSE desired[a]],
    open <- {a \in Actions : state[a] \in {"pending", "dispatching"}}
ImplementsContract == Contract!Spec

-----------------------------------------------------------------------------
(* What it reaches, once failures and operators leave it alone.              *)

(* A removal intent ends in a settled row and stays there, although any      *)
(* thread may still write a stale outcome over it: step 0b repairs it.       *)
AbsentConverges ==
    \A a \in Actions : <>[](desired[a] = "ABSENT" => state[a] \in Settled)

(* Every recorded row is dispatched or given up: a claim left by a dead      *)
(* controller is re-queued after the stale window.                           *)
ActionsLeaveQueue ==
    \A a \in Actions :
        state[a] \in {"pending", "dispatching"} ~>
            state[a] \notin {"pending", "dispatching"}

(* A control whose TTL ran out does not stay live.                           *)
ExpiredControlsLeave ==
    \A a \in Actions : a \in due /\ state[a] \in Active ~> state[a] \in Settled

(* A live control the active policy no longer allows does not stay live.     *)
ForbiddenControlsLeave ==
    \A a \in Actions :
        a \notin permits /\ state[a] \in Active ~>
            a \in permits \/ state[a] \in Settled
-----------------------------------------------------------------------------
(* What a comment in the code says and the code does not keep.               *)

(* _remove_action: a control is "never silently marked gone".  When no       *)
(* thread has a revoked or expired row in hand, its rule is withdrawn, or    *)
(* another row still owns it or is still being removed.                      *)
NeverSilentlyGone ==
    \A a \in Actions :
        /\ state[a] \in {"revoked", "expired"}
        /\ RuleOf[a] \in rules
        /\ \A t \in Threads : thread[t].item # a
        => \E b \in RowsIn(Owning \cup {"removing"}) : RuleOf[b] = RuleOf[a]
=============================================================================
