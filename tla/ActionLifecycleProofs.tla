------------------------ MODULE ActionLifecycleProofs ------------------------
(* Theorems about ActionLifecycle, for every value of its constants.         *)
EXTENDS ActionLifecycle, TLAPS

-----------------------------------------------------------------------------
(* The inductive invariant.                                                  *)

(* What a thread holds is a recorded row, and it has a row in hand whenever  *)
(* it is past its loop head; an outcome waiting to be written is a state.    *)
InHand ==
    \A t \in Threads :
        /\ \A a \in thread[t].todo : state[a] # "none"
        /\ thread[t].item # NoAction => state[thread[t].item] # "none"
        /\ thread[t].pc \notin {"idle", "next"} => thread[t].item \in Actions
        /\ thread[t].pc = "record" => thread[t].result # "none"

IInv ==
    /\ TypeOK
    /\ AbsentNeverReapplied
    /\ RemoverHasIntent
    /\ InHand

(* A thread that notes an outcome to be written keeps its local state typed. *)
LEMMA YieldingType ==
  ASSUME IInv, NEW t \in Threads, NEW r \in Results, Yielding(t, r)
  PROVE  thread' \in [Threads -> LocalState]
  <1>1. thread \in [Threads -> LocalState]
    BY DEF IInv, TypeOK
  <1>2. "record" \in Points
    BY DEF Points
  <1>3. [thread[t] EXCEPT !.pc = "record", !.result = r] \in LocalState
    BY <1>1, <1>2 DEF LocalState
  <1> QED
    BY <1>1, <1>3 DEF Yielding

(* Before any row exists and while every thread is idle, IInv holds.         *)
LEMMA InitIInv == Init => IInv
  <1> SUFFICES ASSUME Init PROVE IInv
    OBVIOUS
  <1> USE ConstantsAssumption DEF Init
  <1>1. TypeOK
    BY DEF TypeOK, States, Owning, Active, Settled, LocalState, Idle, Points,
           Phases, Results, Removing, Dispatching
  <1>2. AbsentNeverReapplied
    BY DEF AbsentNeverReapplied
  <1>3. RemoverHasIntent
    BY DEF RemoverHasIntent, Idle, Removing
  <1>4. InHand
    BY DEF InHand, Idle
  <1> QED
    BY <1>1, <1>2, <1>3, <1>4 DEF IInv

(* Every statement, adapter call, lease exchange and mishap keeps IInv.      *)
LEMMA NextIInv == IInv /\ [Next]_vars => IInv'
  <1> SUFFICES ASSUME IInv, [Next]_vars PROVE IInv'
    OBVIOUS
  <1> USE ConstantsAssumption

  <1>1. ASSUME NEW a \in Actions, RecordAction(a)
        PROVE  IInv'
    <2> USE <1>1 DEF RecordAction, Write, rowVars, decisionVars, leaseVars
    <2>1. TypeOK'
      BY DEF IInv, InHand, TypeOK, LocalState, States, Owning, Active, Settled
    <2>2. AbsentNeverReapplied' /\ RemoverHasIntent' /\ InHand'
      BY DEF IInv, TypeOK, InHand, AbsentNeverReapplied, RemoverHasIntent,
             LocalState, Results, Active, Settled, Removing, Owning
    <2> QED
      BY <2>1, <2>2 DEF IInv
  <1>2. ASSUME NEW a \in Actions, FallDue(a) \/ Redecide(a)
        PROVE  IInv'
    <2> USE <1>2 DEF FallDue, Redecide, rowVars, decisionVars, leaseVars
    <2>1. TypeOK'
      BY DEF IInv, InHand, TypeOK, LocalState
    <2>2. AbsentNeverReapplied' /\ RemoverHasIntent' /\ InHand'
      BY DEF IInv, TypeOK, InHand, AbsentNeverReapplied, RemoverHasIntent,
             LocalState, Results, Active, Settled, Removing
    <2> QED
      BY <2>1, <2>2 DEF IInv
  <1>3. ASSUME NEW a \in Actions, Age(a)
        PROVE  IInv'
    <2> USE <1>3 DEF Age, rowVars, decisionVars, leaseVars
    <2>1. TypeOK'
      BY DEF IInv, InHand, TypeOK, LocalState
    <2>2. AbsentNeverReapplied' /\ RemoverHasIntent' /\ InHand'
      BY DEF IInv, TypeOK, InHand, AbsentNeverReapplied, RemoverHasIntent,
             LocalState, Results, Active, Settled, Removing
    <2> QED
      BY <2>1, <2>2 DEF IInv
  <1>4. ASSUME NEW S \in SUBSET Actions, PromotePolicy(S)
        PROVE  IInv'
    <2> USE <1>4 DEF PromotePolicy, rowVars, decisionVars, leaseVars
    <2>1. TypeOK'
      BY DEF IInv, InHand, TypeOK, LocalState
    <2>2. AbsentNeverReapplied' /\ RemoverHasIntent' /\ InHand'
      BY DEF IInv, TypeOK, InHand, AbsentNeverReapplied, RemoverHasIntent,
             LocalState, Results, Active, Settled, Removing
    <2> QED
      BY <2>1, <2>2 DEF IInv
  <1>5. ASSUME DeadLeaseExpires
        PROVE  IInv'
    <2> USE <1>5 DEF DeadLeaseExpires, rowVars, decisionVars, leaseVars
    <2>1. TypeOK'
      BY DEF IInv, InHand, TypeOK, LocalState
    <2>2. AbsentNeverReapplied' /\ RemoverHasIntent' /\ InHand'
      BY DEF IInv, TypeOK, InHand, AbsentNeverReapplied, RemoverHasIntent,
             LocalState, Results, Active, Settled, Removing
    <2> QED
      BY <2>1, <2>2 DEF IInv
  <1>6. ASSUME LiveLeaseExpires
        PROVE  IInv'
    <2> USE <1>6 DEF LiveLeaseExpires, Mishap, rowVars, decisionVars,
                leaseVars
    <2>1. TypeOK'
      <3>2. thread' \in [Threads -> LocalState]
        BY DEF IInv, InHand, TypeOK, LocalState
      <3>3. rules' \in SUBSET Rules /\ mishaps' \in Nat
        BY DEF IInv, InHand, TypeOK
      <3> QED
        BY <3>2, <3>3 DEF IInv, InHand, TypeOK, Threads
    <2>2. AbsentNeverReapplied' /\ RemoverHasIntent' /\ InHand'
      BY DEF IInv, TypeOK, InHand, AbsentNeverReapplied, RemoverHasIntent,
             LocalState, Results, Active, Settled, Removing
    <2> QED
      BY <2>1, <2>2 DEF IInv
  <1>7. ASSUME NEW c \in Controllers, Crash(c)
        PROVE  IInv'
    <2> USE <1>7 DEF Crash, Mishap, Idle, rowVars, decisionVars, leaseVars
    <2>1. TypeOK'
      BY DEF IInv, InHand, TypeOK, LocalState, Points, Removing, Dispatching,
             Phases, Results
    <2>2. AbsentNeverReapplied' /\ RemoverHasIntent' /\ InHand'
      BY DEF IInv, TypeOK, InHand, AbsentNeverReapplied, RemoverHasIntent,
             LocalState, Results, Active, Settled, Removing, Dispatching
    <2> QED
      BY <2>1, <2>2 DEF IInv
  <1>8. ASSUME NEW t \in Threads, Abort(t)
        PROVE  IInv'
    <2> USE <1>8 DEF Abort, Mishap, Idle, rowVars, decisionVars, leaseVars
    <2>1. TypeOK'
      BY DEF IInv, InHand, TypeOK, LocalState, Points, Removing, Dispatching,
             Phases, Results
    <2>2. AbsentNeverReapplied' /\ RemoverHasIntent' /\ InHand'
      BY DEF IInv, TypeOK, InHand, AbsentNeverReapplied, RemoverHasIntent,
             LocalState, Results, Active, Settled, Removing, Dispatching
    <2> QED
      BY <2>1, <2>2 DEF IInv
  <1>9. ASSUME NEW t \in Threads, StartPass(t)
        PROVE  IInv'
    <2> USE <1>9 DEF StartPass, Goto, MayHold, Hold, rowVars, decisionVars,
                leaseVars
    <2>1. TypeOK'
      BY DEF IInv, InHand, TypeOK, LocalState, Points, Removing, Dispatching,
             Threads
    <2>2. AbsentNeverReapplied' /\ RemoverHasIntent' /\ InHand'
      BY DEF IInv, TypeOK, InHand, AbsentNeverReapplied, RemoverHasIntent,
             LocalState, Results, Active, Settled, Removing, Dispatching,
             Threads
    <2> QED
      BY <2>1, <2>2 DEF IInv
  <1>10. ASSUME NEW t \in Threads, FetchPhase(t)
         PROVE  IInv'
    <2> USE DEF rowVars, decisionVars, leaseVars
    <2>1. PICK S \in Snapshots(Following(t)) :
              thread' = [thread EXCEPT ![t].phase = Following(t), ![t].todo = S]
      BY <1>10 DEF FetchPhase
    <2>2. Following(t) \in Phases
      BY <1>10 DEF FetchPhase, IInv, TypeOK, LocalState, Phases, Following, NextPhase
    <2>3. S \in SUBSET Actions /\ \A a \in S : state[a] # "none"
      BY <2>1, <2>2 DEF Phases, Active, Snapshots, RowsIn, StuckDispatching,
                        StuckRemoving, DesiredAbsentActive, DueForExpiry
    <2>4. TypeOK'
      <3>1. thread' \in [Threads -> LocalState]
        <4>1. thread \in [Threads -> LocalState]
          BY DEF IInv, TypeOK
        <4>2. [thread[t] EXCEPT !.phase = Following(t), !.todo = S] \in LocalState
          BY <2>2, <2>3, <4>1 DEF LocalState
        <4> QED
          BY <2>1, <4>1, <4>2
      <3> QED
        BY <1>10, <3>1 DEF FetchPhase, IInv, TypeOK
    <2>5. AbsentNeverReapplied' /\ RemoverHasIntent' /\ InHand'
      BY <1>10, <2>1, <2>3
         DEF FetchPhase, IInv, TypeOK, LocalState, AbsentNeverReapplied,
             RemoverHasIntent, InHand, Removing
    <2> QED
      BY <2>4, <2>5 DEF IInv
  <1>11. ASSUME NEW t \in Threads, EndPass(t)
         PROVE  IInv'
    <2> USE <1>11 DEF EndPass, Idle, rowVars, decisionVars, leaseVars
    <2>1. TypeOK'
      BY DEF IInv, InHand, TypeOK, LocalState, Points, Removing, Dispatching,
             Phases, Results
    <2>2. AbsentNeverReapplied' /\ RemoverHasIntent' /\ InHand'
      BY DEF IInv, TypeOK, InHand, AbsentNeverReapplied, RemoverHasIntent,
             LocalState, Results, Active, Settled, Removing, Dispatching
    <2> QED
      BY <2>1, <2>2 DEF IInv
  <1>12. ASSUME NEW t \in Threads, Authorize(t)
         PROVE  IInv'
    <2> USE <1>12 DEF Authorize, Goto, Yielding, rowVars, decisionVars,
                leaseVars
    <2>1. TypeOK'
      <3>1. thread' \in [Threads -> LocalState]
        <4>1. CASE bound[thread[t].item] = revision /\ thread[t].item \in permits
          BY <4>1 DEF IInv, TypeOK, LocalState, Points, Removing, Dispatching
        <4>2. CASE ~(bound[thread[t].item] = revision /\ thread[t].item \in permits)
          <5>1. "cancelled_policy_changed" \in Results
            BY DEF Results, Active, Settled
          <5> QED
            BY <4>2, <5>1, YieldingType
        <4> QED
          BY <4>1, <4>2
      <3> QED
        BY <3>1 DEF IInv, TypeOK
    <2>2. AbsentNeverReapplied' /\ RemoverHasIntent' /\ InHand'
      BY DEF IInv, TypeOK, InHand, AbsentNeverReapplied, RemoverHasIntent,
             LocalState, Results, Active, Settled, Removing, Dispatching
    <2> QED
      BY <2>1, <2>2 DEF IInv
  <1>13. ASSUME NEW t \in Threads, ApplyOk(t)
         PROVE  IInv'
    <2> USE <1>13 DEF ApplyOk, Goto, rowVars, decisionVars, leaseVars
    <2>1. TypeOK'
      <3>2. thread' \in [Threads -> LocalState]
        BY DEF IInv, InHand, TypeOK, LocalState, Points, Removing, Dispatching
      <3>3. rules' \in SUBSET Rules /\ mishaps' \in Nat
        BY DEF IInv, InHand, TypeOK
      <3> QED
        BY <3>2, <3>3 DEF IInv, InHand, TypeOK, Threads
    <2>2. AbsentNeverReapplied' /\ RemoverHasIntent' /\ InHand'
      BY DEF IInv, TypeOK, InHand, AbsentNeverReapplied, RemoverHasIntent,
             LocalState, Results, Active, Settled, Removing, Dispatching
    <2> QED
      BY <2>1, <2>2 DEF IInv
  <1>14. ASSUME NEW t \in Threads, ApplyFails(t)
         PROVE  IInv'
    <2> USE <1>14 DEF ApplyFails, Yielding, Mishap, rowVars, decisionVars,
                leaseVars
    <2>1. TypeOK'
      <3>1. "failed" \in Results
        BY DEF Results, Active, Settled
      <3>2. thread' \in [Threads -> LocalState]
        BY <3>1, YieldingType
      <3>3. rules' \in SUBSET Rules /\ mishaps' \in Nat
        BY DEF IInv, InHand, TypeOK
      <3> QED
        BY <3>2, <3>3 DEF IInv, InHand, TypeOK, Threads, Active, Settled
    <2>2. AbsentNeverReapplied' /\ RemoverHasIntent' /\ InHand'
      BY DEF IInv, TypeOK, InHand, AbsentNeverReapplied, RemoverHasIntent,
             LocalState, Results, Active, Settled, Removing, Dispatching
    <2> QED
      BY <2>1, <2>2 DEF IInv
  <1>15. ASSUME NEW t \in Threads, VerifyApplied(t)
         PROVE  IInv'
    <2> USE DEF rowVars, decisionVars, leaseVars
    <2>1. PICK r \in {"verified", "applied"} : Yielding(t, r)
      BY <1>15 DEF VerifyApplied
    <2>2. r \in Results /\ r # "none"
      BY DEF Results, Active
    <2>3. /\ UNCHANGED <<state, desired, aged, bound, due, revision, permits,
                        rules, leader, leaseLive>>
          /\ mishaps' \in Nat
          /\ thread[t].pc = "verify"
      BY <1>15 DEF VerifyApplied, Mishap, IInv, TypeOK
    <2>4. TypeOK'
      <3>1. thread' \in [Threads -> LocalState]
        BY <2>1, <2>2, YieldingType
      <3> QED
        BY <2>3, <3>1 DEF IInv, TypeOK
    <2>5. AbsentNeverReapplied' /\ RemoverHasIntent'
      BY <2>1, <2>3 DEF IInv, TypeOK, AbsentNeverReapplied, RemoverHasIntent,
                        LocalState, Yielding, Removing
    <2>6. InHand'
      BY <2>1, <2>2, <2>3 DEF IInv, TypeOK, InHand, LocalState, Yielding
    <2> QED
      BY <2>4, <2>5, <2>6 DEF IInv
  <1>16. ASSUME NEW t \in Threads, Record(t)
         PROVE  IInv'
    <2> USE <1>16 DEF Record, Write, Done, Idle, rowVars, decisionVars,
                leaseVars
    <2>1. TypeOK'
      <3>2. thread' \in [Threads -> LocalState]
        BY DEF IInv, InHand, TypeOK, LocalState, Points, Removing,
               Dispatching, Phases, Results, Active, Settled, States, Owning
      <3>3. rules' \in SUBSET Rules /\ mishaps' \in Nat
        BY DEF IInv, InHand, TypeOK
      <3>4. state' \in [Actions -> States]
        BY DEF IInv, InHand, TypeOK, LocalState, States, Owning, Active, Settled,
               Results
      <3>5. desired' \in [Actions -> {"PRESENT", "ABSENT"}]
            /\ aged' \in SUBSET Actions
        BY DEF IInv, InHand, TypeOK
      <3>6. UNCHANGED <<bound, due, revision, permits, leader, leaseLive>>
        OBVIOUS
      <3> HIDE <1>16
      <3> QED
        BY <3>2, <3>3, <3>4, <3>5, <3>6 DEF IInv, TypeOK
    <2>2. AbsentNeverReapplied'
      BY DEF IInv, TypeOK, InHand, AbsentNeverReapplied, LocalState, Results,
             Active, Settled, Removing, Dispatching, Owning
    <2>3. RemoverHasIntent'
      BY DEF IInv, TypeOK, InHand, RemoverHasIntent, LocalState, Removing,
             Dispatching, Active, Settled, Owning
    <2>4. InHand'
      BY DEF IInv, TypeOK, InHand, LocalState, Removing, Dispatching, Active,
             Settled, Owning
    <2> QED
      BY <2>1, <2>2, <2>3, <2>4 DEF IInv
  <1>17. ASSUME NEW t \in Threads, NEW a \in Actions, Claim(t, a)
         PROVE  IInv'
    <2> USE <1>17 DEF Claim, At, Write, Take, Skip, rowVars, decisionVars,
                leaseVars
    <2>1. TypeOK'
      <3>2. thread' \in [Threads -> LocalState]
        BY DEF IInv, InHand, TypeOK, LocalState, Points, Removing,
               Dispatching, States, Owning, Active, Settled
      <3>3. rules' \in SUBSET Rules /\ mishaps' \in Nat
        BY DEF IInv, InHand, TypeOK
      <3> QED
        BY <3>2, <3>3 DEF IInv, InHand, TypeOK, Threads, States, Owning,
                         Active, Settled
    <2>2. AbsentNeverReapplied' /\ RemoverHasIntent' /\ InHand'
      BY DEF IInv, TypeOK, InHand, AbsentNeverReapplied, RemoverHasIntent,
             LocalState, Results, Active, Settled, Removing, Dispatching,
             Owning
    <2> QED
      BY <2>1, <2>2 DEF IInv
  <1>18. ASSUME NEW t \in Threads, NEW a \in Actions, Unclaim(t, a)
         PROVE  IInv'
    <2> USE <1>18 DEF Unclaim, At, Write, Take, rowVars, decisionVars,
                leaseVars
    <2>1. TypeOK'
      BY DEF IInv, InHand, TypeOK, LocalState, Points, Removing, Dispatching,
             States, Owning, Active, Settled
    <2>2. AbsentNeverReapplied' /\ RemoverHasIntent' /\ InHand'
      BY DEF IInv, TypeOK, InHand, AbsentNeverReapplied, RemoverHasIntent,
             LocalState, Results, Active, Settled, Removing, Dispatching,
             Owning
    <2> QED
      BY <2>1, <2>2 DEF IInv
  <1>19. ASSUME NEW t \in Threads, NEW a \in Actions, RetryStuck(t, a)
         PROVE  IInv'
    <2> USE <1>19 DEF RetryStuck, At, RequeueRemoval, Write, Skip, rowVars,
                decisionVars, leaseVars
    <2>1. TypeOK'
      <3>2. thread' \in [Threads -> LocalState]
        BY DEF IInv, InHand, TypeOK, LocalState, States, Owning, Active,
               Settled
      <3>3. rules' \in SUBSET Rules /\ mishaps' \in Nat
        BY DEF IInv, InHand, TypeOK
      <3>4. state' \in [Actions -> States]
        BY DEF IInv, InHand, TypeOK, LocalState, States, Owning, Active, Settled,
               Results
      <3>5. desired' \in [Actions -> {"PRESENT", "ABSENT"}]
            /\ aged' \in SUBSET Actions
        BY DEF IInv, InHand, TypeOK
      <3>6. UNCHANGED <<bound, due, revision, permits, leader, leaseLive>>
        OBVIOUS
      <3> HIDE <1>19
      <3> QED
        BY <3>2, <3>3, <3>4, <3>5, <3>6 DEF IInv, TypeOK
    <2>2. AbsentNeverReapplied' /\ RemoverHasIntent' /\ InHand'
      BY DEF IInv, TypeOK, InHand, AbsentNeverReapplied, RemoverHasIntent,
             LocalState, Results, Active, Settled, Removing, Owning
    <2> QED
      BY <2>1, <2>2 DEF IInv
  <1>20. ASSUME NEW t \in Threads, Retry(t)
         PROVE  IInv'
    <2> USE <1>20 DEF Retry, RequeueRemoval, Write, Done, Idle, rowVars,
                decisionVars, leaseVars
    <2>1. TypeOK'
      BY DEF IInv, InHand, TypeOK, LocalState, Points, Removing, Dispatching,
             Phases, Results, States, Owning, Active, Settled
    <2>2. AbsentNeverReapplied' /\ RemoverHasIntent' /\ InHand'
      BY DEF IInv, TypeOK, InHand, AbsentNeverReapplied, RemoverHasIntent,
             LocalState, Results, Active, Settled, Removing, Dispatching,
             Owning
    <2> QED
      BY <2>1, <2>2 DEF IInv
  <1>21. ASSUME NEW t \in Threads, NEW a \in Actions, Reauthorize(t, a)
         PROVE  IInv'
    <2> USE <1>21 DEF Reauthorize, At, Take, Skip, rowVars, decisionVars,
                leaseVars
    <2>1. TypeOK'
      BY DEF IInv, InHand, TypeOK, LocalState, Points, Removing, Dispatching
    <2>2. AbsentNeverReapplied' /\ RemoverHasIntent' /\ InHand'
      BY DEF IInv, TypeOK, InHand, AbsentNeverReapplied, RemoverHasIntent,
             LocalState, Results, Active, Settled, Removing, Dispatching
    <2> QED
      BY <2>1, <2>2 DEF IInv
  <1>22. ASSUME NEW t \in Threads, NEW a \in Actions, RequestRemoval(t, a)
         PROVE  IInv'
    <2> USE <1>22 DEF RequestRemoval, CanRequestRemoval, CommitAbsent, Write,
                RemovalFrom, Take, Done, Idle, rowVars, decisionVars,
                leaseVars
    <2>1. TypeOK'
      <3>2. thread' \in [Threads -> LocalState]
        BY DEF IInv, InHand, TypeOK, LocalState, Points, Removing,
               Dispatching, Phases, Results, States, Owning, Active, Settled
      <3>3. rules' \in SUBSET Rules /\ mishaps' \in Nat
        BY DEF IInv, InHand, TypeOK
      <3>4. state' \in [Actions -> States]
        BY DEF IInv, InHand, TypeOK, LocalState, States, Owning, Active, Settled,
               Results
      <3>5. desired' \in [Actions -> {"PRESENT", "ABSENT"}]
            /\ aged' \in SUBSET Actions
        BY DEF IInv, InHand, TypeOK
      <3>6. UNCHANGED <<bound, due, revision, permits, leader, leaseLive>>
        OBVIOUS
      <3> HIDE <1>22
      <3> QED
        BY <3>2, <3>3, <3>4, <3>5, <3>6 DEF IInv, TypeOK
    <2>2. AbsentNeverReapplied'
      BY DEF IInv, TypeOK, InHand, AbsentNeverReapplied, LocalState, Results,
             Active, Settled, Removing, Dispatching, Owning
    <2>3. RemoverHasIntent'
      BY DEF IInv, TypeOK, InHand, RemoverHasIntent, LocalState, Removing,
             Dispatching, Owning, Active, Settled
    <2>4. InHand'
      BY DEF IInv, TypeOK, InHand, LocalState, Removing, Dispatching, Owning,
             Active, Settled
    <2> QED
      BY <2>1, <2>2, <2>3, <2>4 DEF IInv
  <1>23. ASSUME NEW t \in Threads, CheckCoOwners(t)
         PROVE  IInv'
    <2> USE <1>23 DEF CheckCoOwners, Yielding, Goto, TerminalOf, rowVars,
                decisionVars, leaseVars
    <2>1. TypeOK'
      <3>1. thread' \in [Threads -> LocalState]
        <4>1. CASE CoOwners(thread[t].item) = {}
          BY <4>1 DEF IInv, TypeOK, LocalState, Points, Removing, Dispatching
        <4>2. CASE ~(CoOwners(thread[t].item) = {})
          <5>1. TerminalOf(thread[t].phase) \in Results
            BY DEF Results, Active, Settled
          <5> QED
            BY <4>2, <5>1, YieldingType
        <4> QED
          BY <4>1, <4>2
      <3> QED
        BY <3>1 DEF IInv, TypeOK
    <2>2. AbsentNeverReapplied' /\ RemoverHasIntent' /\ InHand'
      BY DEF IInv, TypeOK, InHand, AbsentNeverReapplied, RemoverHasIntent,
             LocalState, Results, Active, Settled, Removing, Dispatching
    <2> QED
      BY <2>1, <2>2 DEF IInv
  <1>24. ASSUME NEW t \in Threads, RevokeOk(t)
         PROVE  IInv'
    <2> USE <1>24 DEF RevokeOk, Yielding, TerminalOf, rowVars, decisionVars,
                leaseVars
    <2>1. TypeOK'
      <3>1. TerminalOf(thread[t].phase) \in Results
        BY DEF Results, Active, Settled
      <3>2. thread' \in [Threads -> LocalState]
        BY <3>1, YieldingType
      <3>3. rules' \in SUBSET Rules /\ mishaps' \in Nat
        BY DEF IInv, InHand, TypeOK
      <3> QED
        BY <3>2, <3>3 DEF IInv, InHand, TypeOK, Threads, Active, Settled
    <2>2. AbsentNeverReapplied' /\ RemoverHasIntent' /\ InHand'
      BY DEF IInv, TypeOK, InHand, AbsentNeverReapplied, RemoverHasIntent,
             LocalState, Results, Active, Settled, Removing, Dispatching
    <2> QED
      BY <2>1, <2>2 DEF IInv
  <1>25. ASSUME NEW t \in Threads, RevokeFails(t)
         PROVE  IInv'
    <2> USE <1>25 DEF RevokeFails, Yielding, Mishap, rowVars, decisionVars,
                leaseVars
    <2>1. TypeOK'
      <3>1. "drifted" \in Results
        BY DEF Results, Active, Settled
      <3>2. thread' \in [Threads -> LocalState]
        BY <3>1, YieldingType
      <3>3. rules' \in SUBSET Rules /\ mishaps' \in Nat
        BY DEF IInv, InHand, TypeOK
      <3> QED
        BY <3>2, <3>3 DEF IInv, InHand, TypeOK, Threads, Active, Settled
    <2>2. AbsentNeverReapplied' /\ RemoverHasIntent' /\ InHand'
      BY DEF IInv, TypeOK, InHand, AbsentNeverReapplied, RemoverHasIntent,
             LocalState, Results, Active, Settled, Removing, Dispatching
    <2> QED
      BY <2>1, <2>2 DEF IInv
  <1>26. ASSUME NEW t \in Threads, NEW a \in Actions, VerifySweep(t, a)
         PROVE  IInv'
    <2> USE <1>26 DEF VerifySweep, At, Mishap, rowVars, decisionVars,
                leaseVars
    <2>1. TypeOK'
      <3>2. thread' \in [Threads -> LocalState]
        BY DEF IInv, InHand, TypeOK, LocalState, Points, Removing,
               Dispatching, Results, Active, Settled
      <3>3. rules' \in SUBSET Rules /\ mishaps' \in Nat
        BY DEF IInv, InHand, TypeOK
      <3> QED
        BY <3>2, <3>3 DEF IInv, InHand, TypeOK, Threads, Active, Settled
    <2>2. AbsentNeverReapplied' /\ RemoverHasIntent' /\ InHand'
      BY DEF IInv, TypeOK, InHand, AbsentNeverReapplied, RemoverHasIntent,
             LocalState, Results, Active, Settled, Removing, Dispatching
    <2> QED
      BY <2>1, <2>2 DEF IInv
  <1>27. ASSUME NEW t \in Threads, NEW a \in Actions, OperatorReads(t, a)
         PROVE  IInv'
    <2> USE <1>27 DEF OperatorReads, Idle, rowVars, decisionVars, leaseVars
    <2>1. TypeOK'
      <3>2. thread' \in [Threads -> LocalState]
        BY DEF IInv, InHand, TypeOK, LocalState, Points, Removing,
               Dispatching, Phases, Results
      <3>3. rules' \in SUBSET Rules /\ mishaps' \in Nat
        BY DEF IInv, InHand, TypeOK
      <3> QED
        BY <3>2, <3>3 DEF IInv, InHand, TypeOK, Threads
    <2>2. AbsentNeverReapplied'
      BY DEF IInv, TypeOK, InHand, AbsentNeverReapplied, LocalState, Results,
             Active, Settled, Removing, Dispatching
    <2>3. RemoverHasIntent'
      BY DEF IInv, TypeOK, InHand, RemoverHasIntent, LocalState, Removing,
             Dispatching
    <2>4. InHand'
      BY DEF IInv, TypeOK, InHand, LocalState, Removing, Dispatching
    <2> QED
      BY <2>1, <2>2, <2>3, <2>4 DEF IInv
  <1>28. ASSUME NEW t \in Threads, Abandon(t)
         PROVE  IInv'
    <2> USE <1>28 DEF Abandon, Write, Done, Idle, rowVars, decisionVars,
                leaseVars
    <2>1. TypeOK'
      BY DEF IInv, InHand, TypeOK, LocalState, Points, Removing, Dispatching,
             Phases, Results, States, Owning, Active, Settled
    <2>2. AbsentNeverReapplied' /\ RemoverHasIntent' /\ InHand'
      BY DEF IInv, TypeOK, InHand, AbsentNeverReapplied, RemoverHasIntent,
             LocalState, Results, Active, Settled, Removing, Dispatching,
             Owning
    <2> QED
      BY <2>1, <2>2 DEF IInv
  <1>29. ASSUME NEW t \in Threads, OperatorLease(t)
         PROVE  IInv'
    <2> USE <1>29 DEF OperatorLease, Hold, Goto, Done, Idle, rowVars,
                decisionVars, leaseVars
    <2>1. TypeOK'
      <3>2. thread' \in [Threads -> LocalState]
        BY DEF IInv, InHand, TypeOK, LocalState, Points, Removing,
               Dispatching, Phases, Results, Threads
      <3>3. rules' \in SUBSET Rules /\ mishaps' \in Nat
        BY DEF IInv, InHand, TypeOK
      <3> QED
        BY <3>2, <3>3 DEF IInv, InHand, TypeOK, Threads
    <2>2. AbsentNeverReapplied'
      BY DEF IInv, TypeOK, InHand, AbsentNeverReapplied, LocalState, Results,
             Active, Settled, Removing, Dispatching, Threads
    <2>3. RemoverHasIntent'
      BY DEF IInv, TypeOK, InHand, RemoverHasIntent, LocalState, Removing,
             Dispatching, Threads
    <2>4. InHand'
      BY DEF IInv, TypeOK, InHand, LocalState, Removing, Dispatching, Threads
    <2> QED
      BY <2>1, <2>2, <2>3, <2>4 DEF IInv
  <1>30. CASE UNCHANGED vars
    BY <1>30 DEF IInv, TypeOK, AbsentNeverReapplied, RemoverHasIntent, InHand,
                 vars, rowVars, decisionVars, leaseVars
  <1> QED
    BY <1>1, <1>2, <1>3, <1>4, <1>5, <1>6, <1>7, <1>8, <1>9, <1>10, <1>11, <1>12, <1>13, <1>14, <1>15, <1>16, <1>17, <1>18, <1>19, <1>20, <1>21, <1>22, <1>23, <1>24, <1>25, <1>26, <1>27, <1>28, <1>29, <1>30
       DEF Next, Work

-----------------------------------------------------------------------------
(* IInv holds in every reachable state.                                      *)
THEOREM InductiveInvariant == Spec => []IInv
  <1>1. Init => IInv
    BY InitIInv
  <1>2. IInv /\ [Next]_vars => IInv'
    BY NextIInv
  <1> QED
    BY <1>1, <1>2, PTL DEF Spec

(* Every variable keeps its type: rows, lease and thread-local state.        *)
THEOREM TypeCorrect == Spec => []TypeOK
  <1>1. IInv => TypeOK
    BY DEF IInv
  <1> QED
    BY <1>1, InductiveInvariant, PTL

(* The never-again property of desired-state recovery: a row whose durable   *)
(* intent is ABSENT is never pending or dispatching, for any number of       *)
(* controllers, rows, crashes, adapter failures and lost leases.             *)
THEOREM AbsentIsNeverReapplied == Spec => []AbsentNeverReapplied
  <1>1. IInv => AbsentNeverReapplied
    BY DEF IInv
  <1> QED
    BY <1>1, InductiveInvariant, PTL

(* Every path to adapter.revoke has committed the ABSENT intent of its row.  *)
THEOREM RemoversHaveIntent == Spec => []RemoverHasIntent
  <1>1. IInv => RemoverHasIntent
    BY DEF IInv
  <1> QED
    BY <1>1, InductiveInvariant, PTL

-----------------------------------------------------------------------------
(* The lifecycle implements the durable-intent contract.                     *)

(* A step that leaves states, intents and rules alone stutters.              *)
LEMMA MapsToStutter ==
  ASSUME UNCHANGED <<state, desired, rules>>
  PROVE  [Contract!Next]_(Contract!vars)
  BY DEF Contract!vars

(* A write of a state outside pending and dispatching closes the row.        *)
LEMMA MapsToClose ==
  ASSUME IInv, NEW a \in Actions, NEW s \in States,
         state[a] # "none", s \notin {"none", "pending", "dispatching"},
         state' = [state EXCEPT ![a] = s], UNCHANGED <<desired, rules>>
  PROVE  Contract!Next
  <1>1. Contract!Close(a)
    BY DEF Contract!Close, IInv, TypeOK
  <1> QED
    BY <1>1 DEF Contract!Next

(* Moving a row between pending and dispatching stutters.                    *)
LEMMA MapsToRequeue ==
  ASSUME IInv, NEW a \in Actions, NEW s \in {"pending", "dispatching"},
         state[a] \in {"pending", "dispatching"},
         state' = [state EXCEPT ![a] = s], UNCHANGED <<desired, rules>>
  PROVE  UNCHANGED Contract!vars
  BY DEF Contract!vars, IInv, TypeOK

(* Publishing the rule of a recorded row, or nothing, is allowed.            *)
LEMMA MapsToPublish ==
  ASSUME IInv, NEW a \in Actions, state[a] # "none",
         rules' \in {rules, rules \cup {RuleOf[a]}}, UNCHANGED <<state, desired>>
  PROVE  [Contract!Next]_(Contract!vars)
  <1>1. CASE rules' = rules
    BY <1>1, MapsToStutter
  <1>2. CASE rules' = rules \cup {RuleOf[a]}
    <2>1. Contract!Publish(a)
      BY <1>2 DEF Contract!Publish, IInv, TypeOK
    <2> QED
      BY <2>1 DEF Contract!Next
  <1> QED
    BY <1>1, <1>2

(* Withdrawing the rule of a row that wants it absent is allowed.            *)
LEMMA MapsToWithdraw ==
  ASSUME IInv, NEW a \in Actions, desired[a] = "ABSENT",
         rules' \in {rules, rules \ {RuleOf[a]}}, UNCHANGED <<state, desired>>
  PROVE  [Contract!Next]_(Contract!vars)
  <1>1. CASE rules' = rules
    BY <1>1, MapsToStutter
  <1>2. CASE rules' = rules \ {RuleOf[a]}
    <2>1. Contract!Withdraw(a)
      BY <1>2 DEF Contract!Withdraw, IInv, TypeOK, AbsentNeverReapplied
    <2> QED
      BY <2>1 DEF Contract!Next
  <1> QED
    BY <1>1, <1>2

(* retry_removal closes nothing that is open.                                *)
LEMMA MapsRequeueRemoval ==
  ASSUME IInv, NEW a \in Actions, RequeueRemoval(a), UNCHANGED rules
  PROVE  [Contract!Next]_(Contract!vars)
  <1>1. CASE state[a] = "removing" /\ desired[a] = "ABSENT"
    BY <1>1, MapsToClose DEF RequeueRemoval, Write, States, Owning, Active
  <1>2. CASE ~(state[a] = "removing" /\ desired[a] = "ABSENT")
    BY <1>2, MapsToStutter DEF RequeueRemoval
  <1> QED
    BY <1>1, <1>2

(* Every step of the lifecycle is a step of the contract or a stutter.       *)
LEMMA StepMaps == IInv /\ [Next]_vars => [Contract!Next]_(Contract!vars)
  <1> SUFFICES ASSUME IInv, [Next]_vars
               PROVE  [Contract!Next]_(Contract!vars)
    OBVIOUS
  <1> USE DEF rowVars, decisionVars, leaseVars
  <1>1. ASSUME NEW a \in Actions, RecordAction(a)
        PROVE  [Contract!Next]_(Contract!vars)
    <2>1. Contract!Create(a)
      BY <1>1 DEF RecordAction, Write, Contract!Create, IInv, TypeOK,
                  AbsentNeverReapplied
    <2> QED
      BY <2>1 DEF Contract!Next
  <1>2. ASSUME NEW a \in Actions, Redecide(a) \/ FallDue(a) \/ Age(a)
        PROVE  [Contract!Next]_(Contract!vars)
    BY <1>2, MapsToStutter DEF Redecide, FallDue, Age
  <1>3. ASSUME NEW S \in SUBSET Actions, PromotePolicy(S)
        PROVE  [Contract!Next]_(Contract!vars)
    BY <1>3, MapsToStutter DEF PromotePolicy
  <1>4. CASE DeadLeaseExpires \/ LiveLeaseExpires
    BY <1>4, MapsToStutter DEF DeadLeaseExpires, LiveLeaseExpires
  <1>5. ASSUME NEW c \in Controllers, Crash(c)
        PROVE  [Contract!Next]_(Contract!vars)
    BY <1>5, MapsToStutter DEF Crash
  <1>6. ASSUME NEW t \in Threads,
               Abort(t) \/ StartPass(t) \/ FetchPhase(t) \/ EndPass(t)
                 \/ Authorize(t) \/ VerifyApplied(t) \/ CheckCoOwners(t)
                 \/ OperatorLease(t)
        PROVE  [Contract!Next]_(Contract!vars)
    BY <1>6, MapsToStutter
       DEF Abort, StartPass, FetchPhase, EndPass, Authorize, VerifyApplied,
           CheckCoOwners, OperatorLease
  <1>7. ASSUME NEW t \in Threads, NEW a \in Actions,
               Reauthorize(t, a) \/ VerifySweep(t, a) \/ OperatorReads(t, a)
        PROVE  [Contract!Next]_(Contract!vars)
    BY <1>7, MapsToStutter DEF Reauthorize, VerifySweep, OperatorReads
  <1>8. ASSUME NEW t \in Threads, ApplyOk(t) \/ ApplyFails(t)
        PROVE  [Contract!Next]_(Contract!vars)
    <2>1. thread[t].item \in Actions /\ state[thread[t].item] # "none"
      BY <1>8, ConstantsAssumption DEF ApplyOk, ApplyFails, IInv, InHand
    <2> QED
      BY <1>8, <2>1, MapsToPublish DEF ApplyOk, ApplyFails
  <1>9. ASSUME NEW t \in Threads, RevokeOk(t) \/ RevokeFails(t)
        PROVE  [Contract!Next]_(Contract!vars)
    <2>1. thread[t].item \in Actions /\ desired[thread[t].item] = "ABSENT"
      BY <1>9 DEF RevokeOk, RevokeFails, IInv, InHand, RemoverHasIntent,
                  Removing
    <2> QED
      BY <1>9, <2>1, MapsToWithdraw DEF RevokeOk, RevokeFails
  <1>10. ASSUME NEW t \in Threads, Record(t)
         PROVE  [Contract!Next]_(Contract!vars)
    <2>1. /\ thread[t].item \in Actions /\ state[thread[t].item] # "none"
          /\ thread[t].result \in States
          /\ thread[t].result \notin {"none", "pending", "dispatching"}
      BY <1>10, ConstantsAssumption
         DEF Record, IInv, InHand, TypeOK, LocalState, Results, States,
             Owning, Active, Settled
    <2> QED
      BY <1>10, <2>1, MapsToClose DEF Record, Write
  <1>11. ASSUME NEW t \in Threads, Abandon(t)
         PROVE  [Contract!Next]_(Contract!vars)
    <2>1. thread[t].item \in Actions /\ state[thread[t].item] # "none"
      BY <1>11, ConstantsAssumption DEF Abandon, IInv, InHand
    <2>2. "revoked" \in States
      BY DEF States, Settled
    <2> QED
      BY <1>11, <2>1, <2>2, MapsToClose DEF Abandon, Write
  <1>12. ASSUME NEW t \in Threads, NEW a \in Actions, Claim(t, a)
         PROVE  [Contract!Next]_(Contract!vars)
    <2>1. CASE state[a] = "pending"
      BY <1>12, <2>1, MapsToRequeue DEF Claim, Write
    <2>2. CASE state[a] # "pending"
      BY <1>12, <2>2, MapsToStutter DEF Claim
    <2> QED
      BY <2>1, <2>2
  <1>13. ASSUME NEW t \in Threads, NEW a \in Actions, Unclaim(t, a)
         PROVE  [Contract!Next]_(Contract!vars)
    <2>1. CASE state[a] = "dispatching" /\ desired[a] = "PRESENT"
      BY <1>13, <2>1, MapsToRequeue DEF Unclaim, Write
    <2>2. CASE ~(state[a] = "dispatching" /\ desired[a] = "PRESENT")
      BY <1>13, <2>2, MapsToStutter DEF Unclaim
    <2> QED
      BY <2>1, <2>2
  <1>14. ASSUME NEW t \in Threads, NEW a \in Actions, RetryStuck(t, a)
         PROVE  [Contract!Next]_(Contract!vars)
    BY <1>14, MapsRequeueRemoval DEF RetryStuck
  <1>15. ASSUME NEW t \in Threads, Retry(t)
         PROVE  [Contract!Next]_(Contract!vars)
    <2>1. thread[t].item \in Actions
      BY <1>15 DEF Retry, IInv, InHand
    <2> QED
      BY <1>15, <2>1, MapsRequeueRemoval DEF Retry
  <1>16. ASSUME NEW t \in Threads, NEW a \in Actions, RequestRemoval(t, a)
         PROVE  [Contract!Next]_(Contract!vars)
    <2>1. CASE CanRequestRemoval(a, RemovalFrom(thread[t].phase))
      <3>1. state[a] # "none"
        BY <1>16, <2>1 DEF CanRequestRemoval, RemovalFrom, Active
      <3>2. state' = [state EXCEPT ![a] = "removing"]
            /\ desired' = [desired EXCEPT ![a] = "ABSENT"] /\ rules' = rules
        BY <1>16, <2>1 DEF RequestRemoval, CommitAbsent, Write
      <3>3. Contract!RequestAbsence(a)
        BY <3>1, <3>2 DEF Contract!RequestAbsence, IInv, TypeOK
      <3> QED
        BY <3>3 DEF Contract!Next
    <2>2. CASE ~CanRequestRemoval(a, RemovalFrom(thread[t].phase))
      BY <1>16, <2>2, MapsToStutter DEF RequestRemoval
    <2> QED
      BY <2>1, <2>2
  <1>17. CASE UNCHANGED vars
    BY <1>17, MapsToStutter DEF vars
  <1> QED
    BY <1>1, <1>2, <1>3, <1>4, <1>5, <1>6, <1>7, <1>8, <1>9, <1>10, <1>11,
       <1>12, <1>13, <1>14, <1>15, <1>16, <1>17 DEF Next, Work

(* Intents only move from PRESENT to ABSENT, a closed control is never       *)
(* dispatched again, and no rule is withdrawn before the intent is durable.  *)
THEOREM KeepsContract == Spec => ImplementsContract
  <1>1. Init => Contract!Init
    BY DEF Init, Contract!Init
  <1>2. IInv /\ [Next]_vars => [Contract!Next]_(Contract!vars)
    BY StepMaps
  <1> QED
    BY <1>1, <1>2, InductiveInvariant, PTL
       DEF Spec, ImplementsContract, Contract!Spec

-----------------------------------------------------------------------------
(* Verification is enforcement, as long as no two rows share a rule.         *)

UniqueRules == \A a, b \in Actions : RuleOf[a] = RuleOf[b] => a = b

(* An observation still to be recorded is as good as the recorded one: the   *)
(* rule it saw can only be withdrawn in the name of the row itself.          *)
ObservedIsEnforced ==
    \A t \in Threads :
        /\ thread[t].pc = "record" /\ thread[t].result = "verified"
        /\ desired[thread[t].item] = "PRESENT"
        => RuleOf[thread[t].item] \in rules

VInv == VerifiedIsEnforced /\ ObservedIsEnforced

(* Every step keeps the verified rows and the noted observations enforced.   *)
LEMMA NextVInv ==
  UniqueRules /\ IInv /\ VInv /\ [Next]_vars => VInv'
  <1> SUFFICES ASSUME UniqueRules, IInv, VInv, [Next]_vars PROVE VInv'
    OBVIOUS
  <1> USE ConstantsAssumption DEF VInv, rowVars, decisionVars, leaseVars
  <1>1. ASSUME NEW a \in Actions,
               RecordAction(a) \/ Redecide(a) \/ FallDue(a) \/ Age(a)
        PROVE  VInv'
    BY <1>1 DEF IInv, TypeOK, LocalState, InHand, VerifiedIsEnforced,
                ObservedIsEnforced, RecordAction, Redecide, FallDue, Age, Write
  <1>2. ASSUME NEW S \in SUBSET Actions,
               PromotePolicy(S) \/ DeadLeaseExpires \/ LiveLeaseExpires
        PROVE  VInv'
    BY <1>2 DEF VerifiedIsEnforced, ObservedIsEnforced, PromotePolicy,
                DeadLeaseExpires, LiveLeaseExpires
  <1>3. ASSUME NEW c \in Controllers, Crash(c)
        PROVE  VInv'
    BY <1>3 DEF IInv, TypeOK, VerifiedIsEnforced, ObservedIsEnforced, Crash,
                Idle
  <1>4. ASSUME NEW t \in Threads,
               Abort(t) \/ StartPass(t) \/ FetchPhase(t) \/ EndPass(t)
        PROVE  VInv'
    BY <1>4 DEF IInv, TypeOK, LocalState, VerifiedIsEnforced,
                ObservedIsEnforced, Abort, StartPass, FetchPhase, EndPass,
                Idle, Goto
  <1>5. ASSUME NEW t \in Threads,
               Authorize(t) \/ CheckCoOwners(t) \/ OperatorLease(t)
        PROVE  VInv'
    BY <1>5 DEF IInv, TypeOK, LocalState, VerifiedIsEnforced,
                ObservedIsEnforced, Authorize, CheckCoOwners, OperatorLease,
                Idle, Goto, Yielding, Done, TerminalOf
  <1>6. ASSUME NEW t \in Threads, ApplyOk(t) \/ ApplyFails(t)
        PROVE  VInv'
    BY <1>6 DEF IInv, TypeOK, LocalState, VerifiedIsEnforced,
                ObservedIsEnforced, ApplyOk, ApplyFails, Goto, Yielding
  <1>7. ASSUME NEW t \in Threads, VerifyApplied(t)
        PROVE  VInv'
    BY <1>7 DEF IInv, TypeOK, LocalState, VerifiedIsEnforced,
                ObservedIsEnforced, VerifyApplied, Yielding
  <1>8. ASSUME NEW t \in Threads, NEW a \in Actions, VerifySweep(t, a)
        PROVE  VInv'
    BY <1>8 DEF IInv, TypeOK, LocalState, VerifiedIsEnforced,
                ObservedIsEnforced, VerifySweep
  <1>9. ASSUME NEW t \in Threads, RevokeOk(t) \/ RevokeFails(t)
        PROVE  VInv'
    <2>1. thread[t].item \in Actions /\ desired[thread[t].item] = "ABSENT"
      BY <1>9 DEF RevokeOk, RevokeFails, IInv, InHand, RemoverHasIntent,
                  Removing
    <2>2. \A a \in Actions :
             desired[a] = "PRESENT" /\ RuleOf[a] \in rules => RuleOf[a] \in rules'
      BY <1>9, <2>1 DEF UniqueRules, RevokeOk, RevokeFails
    <2>3. VerifiedIsEnforced'
      BY <1>9, <2>2 DEF VerifiedIsEnforced, RevokeOk, RevokeFails
    <2>4. ObservedIsEnforced'
      BY <1>9, <2>2 DEF IInv, TypeOK, LocalState, InHand, ObservedIsEnforced,
                        RevokeOk, RevokeFails, Yielding, TerminalOf
    <2> QED
      BY <2>3, <2>4
  <1>10. ASSUME NEW t \in Threads, Record(t)
         PROVE  VInv'
    BY <1>10 DEF IInv, TypeOK, LocalState, InHand, VerifiedIsEnforced,
                 ObservedIsEnforced, Record, Write, Done, Idle
  <1>11. ASSUME NEW t \in Threads, Retry(t) \/ Abandon(t)
         PROVE  VInv'
    BY <1>11 DEF IInv, TypeOK, LocalState, InHand, VerifiedIsEnforced,
                 ObservedIsEnforced, Retry, Abandon, RequeueRemoval, Write,
                 Done, Idle
  <1>12. ASSUME NEW t \in Threads, NEW a \in Actions,
                Claim(t, a) \/ Unclaim(t, a) \/ RetryStuck(t, a)
         PROVE  VInv'
    BY <1>12 DEF IInv, TypeOK, LocalState, InHand, VerifiedIsEnforced,
                 ObservedIsEnforced, Claim, Unclaim, RetryStuck, At, Take,
                 Skip, RequeueRemoval, Write
  <1>13. ASSUME NEW t \in Threads, NEW a \in Actions,
                Reauthorize(t, a) \/ OperatorReads(t, a)
         PROVE  VInv'
    <2>1. CASE Reauthorize(t, a)
      BY <2>1 DEF IInv, TypeOK, LocalState, VerifiedIsEnforced,
                  ObservedIsEnforced, Reauthorize, At, Take, Skip
    <2>2. CASE OperatorReads(t, a)
      <3>1. thread'[t].pc # "record"
        BY <2>2 DEF IInv, TypeOK, OperatorReads, Idle
      <3>2. \A u \in Threads : u # t => thread'[u] = thread[u]
        BY <2>2 DEF IInv, TypeOK, OperatorReads
      <3> QED
        BY <2>2, <3>1, <3>2 DEF VerifiedIsEnforced, ObservedIsEnforced,
                                OperatorReads
    <2> QED
      BY <1>13, <2>1, <2>2
  <1>14. ASSUME NEW t \in Threads, NEW a \in Actions, RequestRemoval(t, a)
         PROVE  VInv'
    <2>1. thread'[t].pc # "record" /\ rules' = rules
      BY <1>14 DEF IInv, TypeOK, LocalState, RequestRemoval, Take, Done, Idle
    <2>2. \A u \in Threads : u # t => thread'[u] = thread[u]
      BY <1>14 DEF IInv, TypeOK, RequestRemoval, Take, Done
    <2>3. \A b \in Actions :
             /\ state'[b] = "verified" => state[b] = "verified"
             /\ desired'[b] = "PRESENT" => desired[b] = "PRESENT"
      BY <1>14 DEF IInv, TypeOK, RequestRemoval, CommitAbsent, Write
    <2>4. VerifiedIsEnforced'
      BY <2>1, <2>3 DEF VerifiedIsEnforced
    <2>5. ObservedIsEnforced'
      BY <2>1, <2>2, <2>3 DEF ObservedIsEnforced, IInv, InHand
    <2> QED
      BY <2>4, <2>5
  <1>15. CASE UNCHANGED vars
    BY <1>15 DEF vars, VerifiedIsEnforced, ObservedIsEnforced
  <1> QED
    BY <1>1, <1>2, <1>3, <1>4, <1>5, <1>6, <1>7, <1>8, <1>9, <1>10, <1>11,
       <1>12, <1>13, <1>14, <1>15 DEF Next, Work

(* When every row has a rule of its own, a row reported verified and still   *)
(* wanted has its rule in the artifact, however late its verification was    *)
(* recorded.                                                                 *)
THEOREM VerifiedControlsAreEnforced ==
  ASSUME UniqueRules
  PROVE  Spec => []VerifiedIsEnforced
  <1>1. Init => VInv
    BY DEF Init, VInv, VerifiedIsEnforced, ObservedIsEnforced, Idle
  <1>2. IInv /\ VInv /\ [Next]_vars => VInv'
    BY NextVInv
  <1>3. VInv => VerifiedIsEnforced
    BY DEF VInv
  <1> QED
    BY <1>1, <1>2, <1>3, InductiveInvariant, PTL DEF Spec
==============================================================================
