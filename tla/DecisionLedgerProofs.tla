------------------------- MODULE DecisionLedgerProofs -------------------------
(* Theorems about DecisionLedger, for any observables, batches, threads and  *)
(* policy texts, and any bound on promotions and mishaps.                    *)
EXTENDS DecisionLedger, FiniteSetTheorems, SequenceTheorems, TLAPS

-----------------------------------------------------------------------------
(* Lemmas about the operators.                                               *)

LEMMA RungTyped ==
  ASSUME NEW c \in Contents, NEW o \in Observables
  PROVE  RungFor(c, o) \in Rungs
  BY LedgerAssumption DEF RungFor, Rungs

LEMMA DispositionTyped ==
  ASSUME NEW c \in Contents, NEW o \in Observables
  PROVE  /\ Disposition(c, o) \in Dispositions
         /\ Disposition(c, o) # "DEMOTED"
         /\ Disposition(c, o) \in Automatic => RungFor(c, o) = "L4"
  <1>1. RungFor(c, o) \in {"NONE", "L0", "L4"}
    BY RungTyped DEF Rungs
  <1>2. Disposition(c, o) \in {"NO_ACTION", "OBSERVE", "SHADOW_ACTION",
                               "AUTO_ENFORCE", "PROPOSE_OPERATOR_APPROVAL"}
    BY <1>1 DEF Disposition
  <1>3. Disposition(c, o) \in {"SHADOW_ACTION", "AUTO_ENFORCE"} => RungFor(c, o) = "L4"
    BY <1>1 DEF Disposition
  <1> QED
    BY <1>2, <1>3 DEF Dispositions, Automatic

(* Only what is in scope is acted on without an operator.                    *)
LEMMA AutoIsInScope ==
  ASSUME NEW c \in Contents, NEW o \in Observables, Disposition(c, o) \in Automatic
  PROVE  o \in Scope[c]
  <1>1. RungFor(c, o) # "NONE"
    BY DispositionTyped
  <1> QED
    BY <1>1 DEF RungFor

LEMMA RowTyped ==
  ASSUME NEW c \in Contents, NEW o \in Observables, NEW d \in Dispositions
  PROVE  /\ Row(c, o, d) \in Decision
         /\ Row(c, o, d).obs = o /\ Row(c, o, d).disposition = d
  BY RungTyped DEF Row, Decision, Versions, Rungs

(* Recording appends a row, or finds one that says the same.  Either way the *)
(* rows on record stay as they are, and SeqFor names one that says it.       *)
LEMMA RecordedKeeps ==
  ASSUME NEW r \in Decision, decisions \in Seq(Decision),
         NEW new \in {Recorded(r)}
  PROVE  /\ new \in Seq(Decision)
         /\ \A s \in 1..Len(decisions) : s \in 1..Len(new) /\ new[s] = decisions[s]
         /\ SeqFor(r) \in 1..Len(new)
         /\ new[SeqFor(r)].obs = r.obs
         /\ new[SeqFor(r)].disposition = r.disposition
  <1>1. CASE Instances(r) = {}
    <2>1. new = Append(decisions, r) /\ SeqFor(r) = Len(decisions) + 1
      BY <1>1 DEF Recorded, SeqFor
    <2> QED
      BY <2>1, AppendProperties
  <1>2. CASE Instances(r) # {}
    <2>1. new = decisions /\ SeqFor(r) \in Instances(r)
      BY <1>2 DEF Recorded, SeqFor
    <2> QED
      BY <2>1 DEF Instances, SameInstance
  <1> QED
    BY <1>1, <1>2

(* The indicators a replay walks through are a sequence of them.             *)
LEMMA ListedIsASequence ==
  ASSUME NEW S \in SUBSET Observables, IsFiniteSet(S)
  PROVE  Listed(S) \in Seq(Observables)
  <1>1. Cardinality(S) \in Nat
    BY FS_CardinalityType
  <1>2. ExistsBijection(1..Cardinality(S), S)
    BY FS_CardinalityType
  <1>3. PICK f \in [1..Cardinality(S) -> S] : \A o \in S : \E i \in 1..Cardinality(S) : f[i] = o
    BY <1>2 DEF ExistsBijection, Bijection, Surjection
  <1>4. \E list \in [1..Cardinality(S) -> S] : \A o \in S : \E i \in DOMAIN list : list[i] = o
    BY <1>3
  <1>5. Listed(S) \in [1..Cardinality(S) -> S]
    BY <1>4 DEF Listed
  <1> QED
    BY <1>1, <1>5, IsASeq
-----------------------------------------------------------------------------
(* The inductive invariant.  Sound says what a thread's own variables stand  *)
(* for, and that an action cites a row that authorizes it.                   *)

Claims(t) == thread[t].job = "ingest"
Authorized(t) ==
    LET s == thread[t].seq IN
    /\ s \in 1..Len(decisions)
    /\ Claims(t) => /\ thread[t].todo # <<>>
                    /\ decisions[s].obs = Head(thread[t].todo)
                    /\ decisions[s].disposition \in Automatic
    /\ ~Claims(t) => IsProposal(s) /\ s \in approved

ThreadSound(t) ==
    LET L == thread[t] IN
    /\ (L.pc = "idle") <=> (L.job = "none")
    /\ IF L.job = "ingest" THEN t \in Workers /\ L.batch \in Batches
                           ELSE L.batch = NoBatch
    /\ L.pc \in {"start", "demote"} => L.job = "ingest"
    /\ L.pc \in {"decide", "record"} => L.job \in {"ingest", "replay"}
    /\ L.pc \in {"create", "insert"} => L.job \in {"ingest", "approve"} /\ Authorized(t)
    /\ L.pc \in {"record", "demote"} => L.todo # <<>>
    /\ L.pc \in {"record", "demote", "create", "insert"} => L.content \in Contents
    /\ L.pc = "insert" /\ decisions[L.seq].disposition = "SHADOW_ACTION" => L.mode = "SHADOW"
    /\ L.pc = "settle" => /\ L.job = "approve" => L.content \in Contents
                          /\ L.seq \in 1..Len(decisions) /\ IsProposal(L.seq)

Sound ==
    /\ \A t \in Threads : ThreadSound(t)
    /\ \A a \in actions : a.seq \in 1..Len(decisions)
    /\ ActionsAreAuthorized
    /\ IsFiniteSet(seen) /\ IsFiniteSet(actions)

(* A batch is one thread's while it is processed, and what that thread       *)
(* counts is what the batch has minted.                                      *)
Minted(b) == {a \in actions : a.batch = b}
Counted(t) ==
    LET b == thread[t].batch IN
    /\ batch[b] = "processing"
    /\ thread[t].pc = "start" => Minted(b) = {} /\ thread[t].granted = 0
    /\ thread[t].pc # "start" => /\ thread[t].budget = BudgetUnder(under[b])
                                 /\ thread[t].granted = Cardinality(Minted(b))
    /\ thread[t].pc \in {"create", "insert"} => ~Spent(thread[t].budget, thread[t].granted)
Accounted ==
    /\ \A t \in Threads : Claims(t) => Counted(t)
    /\ \A t, u \in Threads :
           Claims(t) /\ Claims(u) /\ thread[t].batch = thread[u].batch => t = u
    /\ \A b \in Batches : batch[b] \in {"none", "queued"} => Minted(b) = {}
    /\ BudgetHolds

(* What a thread has left of its batch is a suffix, and what precedes it is  *)
(* handled, if there was a policy.                                           *)
Handled(o) ==
    /\ DecidedAs(o, Dispositions)
    /\ /\ promotions = 0 /\ AdapterMax \in {"SHADOW", "ENFORCE"}
       /\ Disposition(current, o) \in Automatic /\ o \notin Wildcards
       => \/ \E a \in actions : decisions[a.seq].obs = o
          \/ DecidedAs(o, {"DEMOTED"})
Done(t) == Len(Payload[thread[t].batch]) - Len(thread[t].todo)
Progressing(t) ==
    LET P == Payload[thread[t].batch] IN
    /\ Done(t) \in Nat
    /\ \A i \in 1..Len(thread[t].todo) : thread[t].todo[i] = P[Done(t) + i]
    /\ thread[t].pc = "start" => Done(t) = 0
    /\ under[thread[t].batch] # NoPolicy => \A i \in 1..Done(t) : Handled(P[i])
    /\ thread[t].pc = "record" /\ promotions = 0 => thread[t].content = current
Covered ==
    /\ \A t \in Threads : Claims(t) => Progressing(t)
    /\ \A b \in Batches : under[b] # NoPolicy => current # NoPolicy
    /\ CompleteIsHandled

-----------------------------------------------------------------------------
(* The actions of each kind of step, one at a time.                          *)
StepOf(t) ==
    \/ t \in Workers /\ \E b \in Batches : ClaimBatch(t, b)
    \/ t \in Workers /\ StartBatch(t)
    \/ t \in Workers /\ FinishBatch(t)
    \/ t \in Workers /\ FailBatch(t)
    \/ t \in Operators /\ (BeginReplay(t) \/ EndReplay(t))
    \/ \E s \in 1..Len(decisions) : BeginApprove(t, s) \/ BeginReject(t, s)
    \/ Approve(t) \/ Reject(t)
    \/ Decide(t) \/ RecordDecision(t) \/ Demote(t)
    \/ Compile(t) \/ CompileRaises(t) \/ InsertAction(t)
    \/ Crash(t)

LEMMA NextIsAStep ==
  ASSUME Next
  PROVE  \/ \E b \in Batches : Accept(b)
         \/ \E c \in Contents : PromotePolicy(c)
         \/ \E t \in Threads : StepOf(t)
  <1>1. ASSUME NEW w \in Workers, WorkerStep(w) \/ FailBatch(w)
        PROVE  \E t \in Threads : StepOf(t)
    <2>1. w \in Threads /\ StepOf(w)
      BY <1>1 DEF WorkerStep, Work, StepOf, Threads
    <2> QED
      BY <2>1
  <1>2. ASSUME NEW p \in Operators, OperatorStep(p)
        PROVE  \E t \in Threads : StepOf(t)
    <2>1. p \in Threads /\ StepOf(p)
      BY <1>2 DEF OperatorStep, Work, StepOf, Threads
    <2> QED
      BY <2>1
  <1>3. ASSUME NEW t \in Threads, Crash(t)
        PROVE  \E u \in Threads : StepOf(u)
    BY <1>3 DEF StepOf
  <1> QED
    BY <1>1, <1>2, <1>3 DEF Next

LEMMA IdleTyped == Idle \in LocalState
  <1>1. <<>> \in Seq(Observables)
    OBVIOUS
  <1> QED
    BY <1>1 DEF Idle, LocalState, Jobs, Points, Budgets

LEMMA AssignedTyped ==
  ASSUME NEW I \in LocalState, NEW j \in Jobs, NEW pc \in Points, NEW n \in Nat
  PROVE  [I EXCEPT !.job = j, !.pc = pc, !.seq = n] \in LocalState
  BY DEF LocalState

LEMMA NextObservableTyped ==
  ASSUME TypeOK, NEW t \in Threads, thread[t].job = "ingest" => thread[t].todo # <<>>
  PROVE  NextObservable(t) \in LocalState
  <1>1. thread[t] \in LocalState
    BY DEF TypeOK
  <1>2. CASE thread[t].job = "ingest"
    <2>1. Tail(thread[t].todo) \in Seq(Observables)
      BY <1>1, <1>2, HeadTailProperties DEF LocalState
    <2> QED
      BY <1>1, <1>2, <2>1 DEF NextObservable, LocalState, Points
  <1>3. CASE thread[t].job # "ingest"
    BY <1>3, IdleTyped DEF NextObservable
  <1> QED
    BY <1>2, <1>3

(* Types, but for the thread that moves.                                     *)
LEMMA ThreadTyped ==
  ASSUME TypeOK, NEW t \in Threads, ThreadSound(t), IsFiniteSet(seen), StepOf(t)
  PROVE  /\ thread' = [thread EXCEPT ![t] = thread'[t]]
         /\ thread'[t] \in LocalState
  <1> USE IdleTyped
  <1>0. thread \in [Threads -> LocalState]
    BY DEF TypeOK
  <1>l. PICK L \in LocalState : thread[t] = L
    BY <1>0
  <1>i. PICK I \in LocalState : Idle = I
    OBVIOUS
  <1>a. ASSUME L.todo # <<>>
        PROVE  Head(L.todo) \in Observables /\ Tail(L.todo) \in Seq(Observables)
    BY <1>a, HeadTailProperties DEF LocalState
  <1>n. ASSUME L.job = "ingest" => L.todo # <<>>
        PROVE  NextObservable(t) \in LocalState
    BY <1>n, <1>l, NextObservableTyped
  <1>1. CASE \E b \in Batches : ClaimBatch(t, b)
    <2>1. PICK b \in Batches : ClaimBatch(t, b)
      BY <1>1
    <2>2. Payload[b] \in Seq(Observables)
      BY LedgerAssumption
    <2>3. [I EXCEPT !.job = "ingest", !.pc = "start", !.batch = b, !.todo = Payload[b]]
             \in LocalState
      BY <2>2 DEF LocalState, Jobs, Points
    <2> QED
      BY <1>0, <1>i, <2>1, <2>3 DEF ClaimBatch
  <1>2. CASE StartBatch(t)
    <2>1. BudgetUnder(current) \in Budgets
      BY LedgerAssumption DEF BudgetUnder, TypeOK, Budgets
    <2>2. [L EXCEPT !.pc = "decide", !.budget = BudgetUnder(current)] \in LocalState
      BY <2>1 DEF LocalState, Points
    <2> QED
      BY <1>0, <1>l, <1>2, <2>2 DEF StartBatch
  <1>3. CASE FinishBatch(t) \/ FailBatch(t) \/ EndReplay(t) \/ CompileRaises(t) \/ Crash(t)
             \/ Reject(t)
    BY <1>0, <1>3 DEF FinishBatch, FailBatch, EndReplay, CompileRaises, Crash, Reject, Quit
  <1>4. CASE BeginReplay(t)
    <2>1. Listed(seen) \in Seq(Observables)
      BY ListedIsASequence DEF TypeOK
    <2>2. [I EXCEPT !.job = "replay", !.pc = "decide", !.todo = Listed(seen)] \in LocalState
      BY <2>1 DEF LocalState, Jobs, Points
    <2> QED
      BY <1>0, <1>i, <1>4, <2>2 DEF BeginReplay
  <1>5. CASE \E s \in 1..Len(decisions) : BeginApprove(t, s) \/ BeginReject(t, s)
    <2>1. PICK s \in 1..Len(decisions) : BeginApprove(t, s) \/ BeginReject(t, s)
      BY <1>5
    <2>2. PICK n \in Nat : s = n
      BY DEF TypeOK
    <2>3. [I EXCEPT !.job = "approve", !.pc = "settle", !.seq = n, !.content = current]
             \in LocalState
      BY DEF LocalState, Jobs, Points, TypeOK
    <2>4. [I EXCEPT !.job = "reject", !.pc = "settle", !.seq = n] \in LocalState
      BY AssignedTyped DEF Jobs, Points
    <2> QED
      BY <1>0, <1>i, <2>1, <2>2, <2>3, <2>4 DEF BeginApprove, BeginReject
  <1>6. CASE Approve(t)
    <2>1. [L EXCEPT !.pc = "create"] \in LocalState
      BY DEF LocalState, Points
    <2> QED
      BY <1>0, <1>l, <1>6, <2>1 DEF Approve, Goto, Quit
  <1>7. CASE Decide(t)
    <2>1. Tail(L.todo) \in Seq(Observables)
      BY <1>l, <1>7, <1>a DEF Decide
    <2>2. /\ [L EXCEPT !.todo = Tail(L.todo)] \in LocalState
          /\ current # NoPolicy => [L EXCEPT !.pc = "record", !.content = current] \in LocalState
      BY <2>1 DEF LocalState, Points, TypeOK
    <2> QED
      BY <1>0, <1>l, <1>7, <2>2 DEF Decide
  <1>8. CASE RecordDecision(t)
    <2> DEFINE o == Head(L.todo)
               r == Row(L.content, o, Disposition(L.content, o))
    <2>1. o \in Observables /\ L.content \in Contents /\ Tail(L.todo) \in Seq(Observables)
      BY <1>l, <1>8, <1>a DEF RecordDecision, ThreadSound
    <2>2. r \in Decision
      BY <2>1, DispositionTyped, RowTyped
    <2>3. decisions' = Recorded(r)
      BY <1>l, <1>8 DEF RecordDecision
    <2>4. SeqFor(r) \in Nat
      BY <2>2, <2>3, RecordedKeeps DEF TypeOK
    <2>5. \/ thread' = [thread EXCEPT ![t] =
                 [L EXCEPT !.pc = "decide", !.todo = Tail(L.todo), !.content = NoPolicy]]
          \/ thread' = [thread EXCEPT ![t] = [L EXCEPT !.pc = "demote"]]
          \/ thread' = [thread EXCEPT ![t] = [L EXCEPT !.pc = "create", !.seq = SeqFor(r)]]
      BY <1>l, <1>8 DEF RecordDecision
    <2> HIDE DEF o, r
    <2>6. /\ [L EXCEPT !.pc = "decide", !.todo = Tail(L.todo), !.content = NoPolicy] \in LocalState
          /\ [L EXCEPT !.pc = "demote"] \in LocalState
      BY <2>1 DEF LocalState, Points
    <2>7. [L EXCEPT !.pc = "create", !.seq = SeqFor(r)] \in LocalState
      BY <2>4 DEF LocalState, Points
    <2> QED
      BY <1>0, <2>5, <2>6, <2>7
  <1>9. CASE Demote(t)
    <2>1. NextObservable(t) \in LocalState
      BY <1>l, <1>9, <1>n DEF Demote, ThreadSound
    <2> QED
      BY <1>0, <1>9, <2>1 DEF Demote
  <1>10. CASE Compile(t)
    <2> DEFINE m == Posture(current, decisions[L.seq].disposition)
    <2>1. NextObservable(t) \in LocalState
      BY <1>l, <1>10, <1>n DEF Compile, ThreadSound, Authorized, Claims
    <2>2. m \in {"SHADOW", "ENFORCE"}
      BY DEF Posture
    <2>3. \/ thread' = [thread EXCEPT ![t] = [L EXCEPT !.pc = "insert", !.mode = m]]
          \/ thread' = [thread EXCEPT ![t] = NextObservable(t)]
      BY <1>l, <1>10 DEF Compile
    <2> HIDE DEF m
    <2>4. [L EXCEPT !.pc = "insert", !.mode = m] \in LocalState
      BY <2>2 DEF LocalState, Points
    <2> QED
      BY <1>0, <2>1, <2>3, <2>4
  <1>11. CASE InsertAction(t)
    <2>1. PICK N \in LocalState : NextObservable(t) = N
      BY <1>l, <1>11, <1>n DEF InsertAction, ThreadSound, Authorized, Claims
    <2>2. PICK n \in Nat : n = N.granted + 1
      BY DEF LocalState
    <2>3. [N EXCEPT !.granted = n] \in LocalState
      BY DEF LocalState
    <2> QED
      BY <1>0, <1>11, <2>1, <2>2, <2>3 DEF InsertAction
  <1> QED
    BY <1>1, <1>2, <1>3, <1>4, <1>5, <1>6, <1>7, <1>8, <1>9, <1>10, <1>11 DEF StepOf

(* What a decision is recorded as, by a worker or a replay.                  *)
LEMMA RecordedRow ==
  ASSUME TypeOK, NEW t \in Threads, ThreadSound(t), RecordDecision(t) \/ Demote(t)
  PROVE  \E r \in Decision :
            /\ decisions' = Recorded(r)
            /\ r.obs = Head(thread[t].todo)
            /\ RecordDecision(t) =>
                 r = Row(thread[t].content, r.obs, Disposition(thread[t].content, r.obs))
            /\ Demote(t) => r.disposition = "DEMOTED"
            /\ r.obs \in Observables /\ r.disposition \in Dispositions
  <1> DEFINE o == Head(thread[t].todo)
             c == thread[t].content
             d == IF Demote(t) THEN "DEMOTED" ELSE Disposition(c, o)
  <1>1. thread[t].todo \in Seq(Observables) /\ thread[t].todo # <<>> /\ c \in Contents
    BY DEF TypeOK, LocalState, ThreadSound, RecordDecision, Demote
  <1>2. o \in Observables
    BY <1>1, HeadTailProperties
  <1>3. d \in Dispositions
    BY <1>1, <1>2, DispositionTyped DEF Dispositions
  <1>4. Row(c, o, d) \in Decision /\ Row(c, o, d).obs = o /\ Row(c, o, d).disposition = d
    BY <1>1, <1>2, <1>3, RowTyped
  <1>5. RecordDecision(t) => ~Demote(t)
    BY DEF RecordDecision, Demote
  <1>6. decisions' = Recorded(Row(c, o, d))
    BY <1>5 DEF RecordDecision, Demote
  <1> HIDE DEF o, c
  <1>7. RecordDecision(t) => d = Disposition(c, o)
    BY <1>5
  <1> HIDE DEF d
  <1> QED
    BY <1>2, <1>3, <1>4, <1>6, <1>7 DEF o, c, d

(* The ledger only ever grows.                                               *)
Grows ==
    /\ \A s \in 1..Len(decisions) : s \in 1..Len(decisions') /\ decisions'[s] = decisions[s]
    /\ approved \subseteq approved'
    /\ actions \subseteq actions'

LEMMA LedgerGrows ==
  ASSUME TypeOK, Sound, [Next]_vars
  PROVE  Grows
  <1>1. CASE UNCHANGED vars
    BY <1>1 DEF vars, Grows
  <1>2. CASE \E b \in Batches : Accept(b)
    BY <1>2 DEF Accept, approvalVars, Grows
  <1>3. CASE \E c \in Contents : PromotePolicy(c)
    BY <1>3 DEF PromotePolicy, approvalVars, Grows
  <1>4. ASSUME NEW t \in Threads, StepOf(t)
        PROVE  Grows
    <2>0. ThreadSound(t)
      BY DEF Sound
    <2>1. CASE RecordDecision(t) \/ Demote(t)
      <3>1. PICK r \in Decision : decisions' = Recorded(r)
        BY <2>0, <2>1, RecordedRow
      <3> QED
        BY <2>1, <3>1, RecordedKeeps DEF TypeOK, Grows, RecordDecision, Demote, approvalVars
    <2>2. CASE InsertAction(t)
      BY <2>2 DEF InsertAction, approvalVars, Grows
    <2>3. CASE Approve(t)
      BY <2>3 DEF Approve, Grows
    <2>4. CASE Reject(t)
      BY <2>4 DEF Reject, Grows
    <2> QED
      BY <1>4, <2>1, <2>2, <2>3, <2>4
      DEF StepOf, Grows, ClaimBatch, StartBatch, FinishBatch, FailBatch, BeginReplay,
          EndReplay, BeginApprove, BeginReject, Decide, Compile, CompileRaises, Crash,
          approvalVars
  <1> QED
    BY <1>1, <1>2, <1>3, <1>4, NextIsAStep

LEMMA TypeStep ==
  ASSUME TypeOK, Sound, [Next]_vars
  PROVE  TypeOK' /\ IsFiniteSet(seen') /\ IsFiniteSet(actions')
  <1> USE DEF Sound
  <1>1. CASE UNCHANGED vars
    BY <1>1 DEF vars, TypeOK
  <1>2. ASSUME NEW b \in Batches, Accept(b)
        PROVE  TypeOK' /\ UNCHANGED <<seen, actions>>
    BY <1>2 DEF Accept, TypeOK, approvalVars, policyVars
  <1>3. ASSUME NEW c \in Contents, PromotePolicy(c)
        PROVE  TypeOK' /\ UNCHANGED <<seen, actions>>
    BY <1>3 DEF PromotePolicy, TypeOK, ingestVars, approvalVars
  <1>4. ASSUME NEW t \in Threads, StepOf(t)
        PROVE  TypeOK' /\ IsFiniteSet(seen') /\ IsFiniteSet(actions')
    <2>0. ThreadSound(t) /\ thread[t] \in LocalState
      BY DEF TypeOK
    <2>1. thread' \in [Threads -> LocalState]
      BY <1>4, <2>0, ThreadTyped DEF TypeOK
    <2>2. CASE \E b \in Batches : ClaimBatch(t, b)
      BY <2>1, <2>2 DEF ClaimBatch, TypeOK, approvalVars, policyVars
    <2>3. CASE StartBatch(t)
      BY <2>1, <2>3 DEF StartBatch, TypeOK, approvalVars, policyVars
    <2>4. CASE FinishBatch(t)
      BY <2>1, <2>4 DEF FinishBatch, TypeOK, approvalVars, policyVars
    <2>5. CASE FailBatch(t) \/ CompileRaises(t)
      <3>1. MarkedFailed(t) \in
               [Batches -> {"none", "queued", "processing", "complete", "failed"}]
        BY DEF MarkedFailed, TypeOK
      <3>2. CASE FailBatch(t)
        BY <2>1, <3>1, <3>2 DEF FailBatch, TypeOK, approvalVars, policyVars, Mishap
      <3>3. CASE CompileRaises(t)
        BY <2>1, <3>1, <3>3 DEF CompileRaises, TypeOK, approvalVars, policyVars
      <3> QED
        BY <2>5, <3>2, <3>3
    <2>6. CASE BeginReplay(t) \/ EndReplay(t) \/ Compile(t)
               \/ \E s \in 1..Len(decisions) : BeginApprove(t, s) \/ BeginReject(t, s)
      BY <2>1, <2>6 DEF BeginReplay, EndReplay, BeginApprove, BeginReject, Compile, TypeOK,
                        ingestVars, approvalVars, policyVars
    <2>7. CASE Approve(t)
      <3>1. thread[t].seq \in Nat
        BY <2>0 DEF LocalState
      <3> QED
        BY <2>1, <2>7, <3>1 DEF Approve, TypeOK, ingestVars, policyVars
    <2>8. CASE Reject(t)
      <3>1. thread[t].seq \in Nat
        BY <2>0 DEF LocalState
      <3> QED
        BY <2>1, <2>8, <3>1 DEF Reject, TypeOK, ingestVars, policyVars
    <2>9. CASE Decide(t)
      <3>1. Head(thread[t].todo) \in Observables
        BY <2>0, <2>9, HeadTailProperties DEF Decide, LocalState
      <3>2. IsFiniteSet(seen')
        BY <2>9, FS_Union, FS_Singleton DEF Decide
      <3> QED
        BY <2>1, <2>9, <3>1, <3>2 DEF Decide, TypeOK, approvalVars, policyVars
    <2>10. CASE RecordDecision(t) \/ Demote(t)
      <3>1. PICK r \in Decision : decisions' = Recorded(r)
        BY <2>0, <2>10, RecordedRow
      <3>2. decisions' \in Seq(Decision)
        BY <3>1, RecordedKeeps DEF TypeOK
      <3> QED
        BY <2>1, <2>10, <3>2 DEF RecordDecision, Demote, TypeOK, ingestVars, approvalVars, policyVars
    <2>11. CASE InsertAction(t)
      <3> DEFINE a == [seq |-> thread[t].seq, mode |-> thread[t].mode,
                       batch |-> thread[t].batch, content |-> thread[t].content]
      <3>1. a \in Action
        BY <2>0, <2>11 DEF LocalState, Action, InsertAction, ThreadSound
      <3>2. actions' = actions \/ actions' = actions \cup {a}
        BY <2>11 DEF InsertAction
      <3> HIDE DEF a
      <3>3. IsFiniteSet(actions')
        BY <3>2, FS_AddElement
      <3>4. actions' \in SUBSET Action
        BY <3>1, <3>2 DEF TypeOK
      <3> QED
        BY <2>1, <2>11, <3>3, <3>4 DEF InsertAction, TypeOK, ingestVars, approvalVars, policyVars
    <2>12. CASE Crash(t)
      BY <2>1, <2>12 DEF Crash, TypeOK, ingestVars, approvalVars, policyVars, Mishap
    <2> QED
      BY <1>4, <2>2, <2>3, <2>4, <2>5, <2>6, <2>7, <2>8, <2>9, <2>10, <2>11, <2>12 DEF StepOf
  <1> QED
    BY <1>1, <1>2, <1>3, <1>4, NextIsAStep DEF vars

LEMMA OthersSound ==
  ASSUME TypeOK, Grows, NEW u \in Threads, ThreadSound(u), thread'[u] = thread[u]
  PROVE  ThreadSound(u)'
  BY DEF Grows, ThreadSound, Authorized, Claims, IsProposal

LEMMA IdleSound ==
  ASSUME NEW t \in Threads, thread'[t] = Idle
  PROVE  ThreadSound(t)'
  BY DEF ThreadSound, Idle

(* What the mover's record says of the next observable of its batch.         *)
LEMMA NextObservableFields ==
  ASSUME TypeOK, NEW t \in Threads
  PROVE  LET N == NextObservable(t) IN
         IF thread[t].job = "ingest"
         THEN /\ N.pc = "decide" /\ N.job = "ingest" /\ N.batch = thread[t].batch
              /\ N.todo = Tail(thread[t].todo)
              /\ N.granted = thread[t].granted /\ N.budget = thread[t].budget
         ELSE N = Idle
  BY DEF NextObservable, TypeOK, LocalState

LEMMA NextObservableSound ==
  ASSUME TypeOK, NEW t \in Threads, ThreadSound(t),
         \/ thread'[t] = NextObservable(t)
         \/ NextObservable(t) \in LocalState
            /\ thread'[t] = [NextObservable(t) EXCEPT !.granted = @ + 1]
            /\ thread[t].job = "ingest"
  PROVE  ThreadSound(t)'
  <1>1. CASE thread[t].job = "ingest"
    <2>1. /\ thread'[t].pc = "decide" /\ thread'[t].job = "ingest"
          /\ thread'[t].batch = thread[t].batch
      BY <1>1, NextObservableFields DEF LocalState
    <2> QED
      BY <1>1, <2>1 DEF ThreadSound
  <1>2. CASE thread[t].job # "ingest"
    BY <1>2, NextObservableFields, IdleSound
  <1> QED
    BY <1>1, <1>2

LEMMA MoverSound ==
  ASSUME TypeOK, Sound, Grows, NEW t \in Threads, StepOf(t)
  PROVE  ThreadSound(t)'
  <1> DEFINE L == thread[t]
  <1>0. /\ thread \in [Threads -> LocalState] /\ L \in LocalState /\ Idle \in LocalState
        /\ ThreadSound(t) /\ IsFiniteSet(seen)
    BY IdleTyped DEF TypeOK, Sound
  <1>1. CASE t \in Workers /\ \E b \in Batches : ClaimBatch(t, b)
    <2>1. PICK b \in Batches : ClaimBatch(t, b)
      BY <1>1
    <2>2. thread' = [thread EXCEPT ![t] = [Idle EXCEPT !.job = "ingest", !.pc = "start",
                                                       !.batch = b, !.todo = Payload[b]]]
      BY <2>1 DEF ClaimBatch
    <2>3. /\ thread'[t].pc = "start" /\ thread'[t].job = "ingest" /\ thread'[t].batch = b
          /\ t \in Workers
      BY <1>0, <1>1, <2>2 DEF Idle
    <2> QED
      BY <2>3 DEF ThreadSound
  <1>2. CASE StartBatch(t)
    BY <1>0, <1>2 DEF StartBatch, ThreadSound, LocalState
  <1>3. CASE FinishBatch(t) \/ FailBatch(t) \/ EndReplay(t) \/ CompileRaises(t) \/ Crash(t)
             \/ Reject(t)
    BY <1>0, <1>3, IdleSound
    DEF FinishBatch, FailBatch, EndReplay, CompileRaises, Crash, Reject, Quit
  <1>4. CASE BeginReplay(t)
    BY <1>0, <1>4 DEF BeginReplay, ThreadSound, Idle, LocalState
  <1>5. ASSUME NEW s \in 1..Len(decisions), BeginApprove(t, s) \/ BeginReject(t, s)
        PROVE  ThreadSound(t)'
    <2>1. /\ thread'[t].pc = "settle" /\ thread'[t].seq = s /\ thread'[t].batch = NoBatch
          /\ thread'[t].job \in {"approve", "reject"}
          /\ thread'[t].job = "approve" => thread'[t].content = decisions[s].content
      <3>1. CASE BeginApprove(t, s)
        <4>1. /\ decisions[s].content = current
              /\ thread' = [thread EXCEPT ![t] =
                     [Idle EXCEPT !.job = "approve", !.pc = "settle", !.seq = s, !.content = current]]
          BY <3>1 DEF BeginApprove
        <4> QED
          BY <1>0, <4>1 DEF Idle
      <3>2. CASE BeginReject(t, s)
        <4>1. thread' = [thread EXCEPT ![t] =
                     [Idle EXCEPT !.job = "reject", !.pc = "settle", !.seq = s]]
          BY <3>2 DEF BeginReject
        <4> QED
          BY <1>0, <4>1 DEF Idle
      <3> QED
        BY <1>5, <3>1, <3>2
    <2>2. decisions[s].content \in Contents
      <3>1. decisions[s] \in Decision
        BY ElementOfSeq DEF TypeOK
      <3> QED
        BY <3>1 DEF Decision
    <2>3. IsProposal(s) /\ decisions' = decisions
      BY <1>5 DEF BeginApprove, BeginReject, IsProposal
    <2> QED
      BY <2>1, <2>2, <2>3 DEF ThreadSound, IsProposal
  <1>6. CASE Approve(t)
    <2>1. CASE OpenFor(L.seq)
      <3>1. /\ L.pc = "settle" /\ L.job = "approve" /\ decisions' = decisions
            /\ L.seq \in approved'
            /\ thread' = [thread EXCEPT ![t] = [L EXCEPT !.pc = "create"]]
        BY <1>6, <2>1 DEF Approve, Goto
      <3>2. /\ thread'[t].pc = "create" /\ thread'[t].job = "approve"
            /\ thread'[t].seq = L.seq /\ thread'[t].content = L.content
            /\ thread'[t].batch = L.batch
        BY <1>0, <3>1 DEF LocalState
      <3>3. L.batch = NoBatch /\ L.content \in Contents /\ L.seq \in 1..Len(decisions)
            /\ IsProposal(L.seq)
        BY <1>0, <3>1 DEF ThreadSound
      <3> QED
        BY <3>1, <3>2, <3>3 DEF ThreadSound, Authorized, Claims, IsProposal
    <2>2. CASE ~OpenFor(L.seq)
      BY <1>0, <1>6, <2>2, IdleSound DEF Approve, Quit
    <2> QED
      BY <2>1, <2>2
  <1>7. CASE Decide(t)
    BY <1>0, <1>7 DEF Decide, ThreadSound, LocalState, TypeOK
  <1>8. CASE RecordDecision(t)
    <2>1. PICK r \in Decision :
             /\ decisions' = Recorded(r)
             /\ r.obs = Head(L.todo)
             /\ r = Row(L.content, r.obs, Disposition(L.content, r.obs))
      BY <1>0, <1>8, RecordedRow
    <2>2. /\ SeqFor(r) \in 1..Len(decisions')
          /\ decisions'[SeqFor(r)].obs = r.obs
          /\ decisions'[SeqFor(r)].disposition = r.disposition
      BY <2>1, RecordedKeeps DEF TypeOK
    <2>3. \/ thread' = [thread EXCEPT ![t] =
                 [L EXCEPT !.pc = "decide", !.todo = Tail(L.todo), !.content = NoPolicy]]
          \/ L.job # "replay" /\ thread' = [thread EXCEPT ![t] = [L EXCEPT !.pc = "demote"]]
          \/ /\ L.job # "replay" /\ r.disposition \in Automatic
             /\ thread' = [thread EXCEPT ![t] = [L EXCEPT !.pc = "create", !.seq = SeqFor(r)]]
      BY <1>8, <2>1 DEF RecordDecision, Mints
    <2>4. /\ L.pc = "record" /\ L.todo # <<>> /\ L.content \in Contents
          /\ L.job \in {"ingest", "replay"}
      BY <1>0, <1>8 DEF RecordDecision, ThreadSound
    <2>5. CASE thread'[t] = [L EXCEPT !.pc = "decide", !.todo = Tail(L.todo), !.content = NoPolicy]
      BY <1>0, <2>4, <2>5 DEF ThreadSound, LocalState
    <2>6. CASE L.job # "replay" /\ thread'[t] = [L EXCEPT !.pc = "demote"]
      BY <1>0, <2>4, <2>6 DEF ThreadSound, LocalState
    <2>7. CASE /\ L.job # "replay" /\ r.disposition \in Automatic
               /\ thread'[t] = [L EXCEPT !.pc = "create", !.seq = SeqFor(r)]
      <3>1. /\ thread'[t].pc = "create" /\ thread'[t].seq = SeqFor(r)
            /\ thread'[t].job = "ingest" /\ thread'[t].batch = L.batch
            /\ thread'[t].todo = L.todo /\ thread'[t].content = L.content
        BY <1>0, <2>4, <2>7 DEF LocalState
      <3> QED
        BY <1>0, <2>1, <2>2, <2>4, <2>7, <3>1 DEF ThreadSound, Authorized, Claims
    <2> QED
      BY <1>0, <2>3, <2>5, <2>6, <2>7
  <1>9. CASE Demote(t)
    BY <1>0, <1>9, NextObservableSound DEF Demote
  <1>10. CASE Compile(t)
    <2> DEFINE m == Posture(current, decisions[L.seq].disposition)
    <2>1. decisions' = decisions /\ approved' = approved /\ L.pc = "create"
      BY <1>10 DEF Compile, approvalVars
    <2>2. CASE thread' = [thread EXCEPT ![t] = NextObservable(t)]
      BY <1>0, <2>2, NextObservableSound
    <2>3. CASE thread' = [thread EXCEPT ![t] = [L EXCEPT !.pc = "insert", !.mode = m]]
      <3>1. /\ thread'[t].pc = "insert" /\ thread'[t].seq = L.seq /\ thread'[t].mode = m
            /\ thread'[t].job = L.job /\ thread'[t].batch = L.batch
            /\ thread'[t].todo = L.todo /\ thread'[t].content = L.content
        BY <1>0, <2>3 DEF LocalState
      <3>2. decisions[L.seq].disposition = "SHADOW_ACTION" => m = "SHADOW"
        BY DEF Posture
      <3> HIDE DEF m
      <3> QED
        BY <1>0, <2>1, <3>1, <3>2 DEF ThreadSound, Authorized, Claims, IsProposal
    <2> QED
      BY <1>10, <2>2, <2>3 DEF Compile
  <1>11. CASE InsertAction(t)
    <2>1. NextObservable(t) \in LocalState
      BY <1>0, <1>11, NextObservableTyped DEF InsertAction, ThreadSound, Authorized, Claims
    <2> QED
      BY <1>0, <1>11, <2>1, NextObservableSound DEF InsertAction
  <1> QED
    BY <1>1, <1>2, <1>3, <1>4, <1>5, <1>6, <1>7, <1>8, <1>9, <1>10, <1>11 DEF StepOf

LEMMA ThreadsStep ==
  ASSUME TypeOK, Sound, [Next]_vars
  PROVE  \A u \in Threads : ThreadSound(u)'
  <1>0. Grows /\ \A u \in Threads : ThreadSound(u)
    BY LedgerGrows DEF Sound
  <1>1. CASE UNCHANGED thread
    BY <1>0, <1>1, OthersSound
  <1>2. ASSUME NEW t \in Threads, StepOf(t), NEW u \in Threads
        PROVE  ThreadSound(u)'
    <2>1. CASE u = t
      BY <1>0, <1>2, <2>1, MoverSound
    <2>2. CASE u # t
      <3>1. thread' = [thread EXCEPT ![t] = thread'[t]]
        BY <1>0, <1>2, ThreadTyped DEF Sound
      <3>2. thread'[u] = thread[u]
        BY <2>2, <3>1 DEF TypeOK
      <3> QED
        BY <1>0, <3>2, OthersSound
    <2> QED
      BY <2>1, <2>2
  <1>3. ASSUME NEW b \in Batches, Accept(b)
        PROVE  UNCHANGED thread
    BY <1>3 DEF Accept
  <1>4. ASSUME NEW c \in Contents, PromotePolicy(c)
        PROVE  UNCHANGED thread
    BY <1>4 DEF PromotePolicy
  <1>5. CASE UNCHANGED vars
    BY <1>1, <1>5 DEF vars
  <1> QED
    BY <1>1, <1>2, <1>3, <1>4, <1>5, NextIsAStep

LEMMA ActionsStep ==
  ASSUME TypeOK, Sound, [Next]_vars
  PROVE  /\ \A a \in actions' : a.seq \in 1..Len(decisions')
         /\ ActionsAreAuthorized'
  <1>0. Grows
    BY LedgerGrows
  <1>1. ASSUME NEW a \in actions
        PROVE  LET d == decisions'[a.seq].disposition IN
               /\ a.seq \in 1..Len(decisions')
               /\ d \in Automatic \cup {"PROPOSE_OPERATOR_APPROVAL"}
               /\ d = "SHADOW_ACTION" => a.mode = "SHADOW"
               /\ d = "PROPOSE_OPERATOR_APPROVAL" => a.seq \in approved'
    BY <1>0 DEF Sound, Grows, ActionsAreAuthorized
  <1>2. CASE actions' = actions
    BY <1>1, <1>2 DEF ActionsAreAuthorized
  <1>3. ASSUME NEW t \in Threads, InsertAction(t)
        PROVE  /\ \A a \in actions' : a.seq \in 1..Len(decisions')
               /\ ActionsAreAuthorized'
    <2>1. Authorized(t) /\ ThreadSound(t) /\ thread[t].pc = "insert"
      BY <1>3 DEF Sound, ThreadSound, InsertAction
    <2> DEFINE s == thread[t].seq
               n == [seq |-> s, mode |-> thread[t].mode,
                     batch |-> thread[t].batch, content |-> thread[t].content]
    <2>2. actions' \subseteq actions \cup {n} /\ decisions' = decisions /\ approved' = approved
      BY <1>3 DEF InsertAction, approvalVars
    <2>3. /\ s \in 1..Len(decisions)
          /\ decisions[s].disposition \in Automatic \cup {"PROPOSE_OPERATOR_APPROVAL"}
          /\ decisions[s].disposition = "SHADOW_ACTION" => thread[t].mode = "SHADOW"
          /\ decisions[s].disposition = "PROPOSE_OPERATOR_APPROVAL" => s \in approved
      BY <2>1 DEF Authorized, ThreadSound, IsProposal, Automatic
    <2>4. n.seq = s /\ n.mode = thread[t].mode
      OBVIOUS
    <2> HIDE DEF n, s
    <2> QED
      BY <1>1, <2>2, <2>3, <2>4 DEF ActionsAreAuthorized, s
  <1>4. actions' = actions \/ \E t \in Threads : InsertAction(t)
    <2>1. ASSUME NEW t \in Threads, StepOf(t)
          PROVE  actions' = actions \/ InsertAction(t)
      BY <2>1 DEF StepOf, ClaimBatch, StartBatch, FinishBatch, FailBatch, BeginReplay,
          EndReplay, BeginApprove, BeginReject, Approve, Reject, Decide, RecordDecision, Demote,
          Compile, CompileRaises, Crash
    <2> QED
      BY <2>1, NextIsAStep DEF vars, Accept, PromotePolicy
  <1> QED
    BY <1>2, <1>3, <1>4

LEMMA SoundInvariant == Spec => [](TypeOK /\ Sound)
  <1>1. Init => TypeOK /\ Sound
    <2> SUFFICES ASSUME Init
                 PROVE  TypeOK /\ Sound
      OBVIOUS
    <2>1. <<>> \in Seq(Decision) /\ current \in Contents \cup {NoPolicy}
      BY LedgerAssumption DEF Init
    <2>2. TypeOK
      BY <2>1, IdleTyped DEF Init, TypeOK
    <2>3. \A t \in Threads : ThreadSound(t)
      BY DEF Init, ThreadSound, Idle
    <2> QED
      BY <2>2, <2>3, FS_EmptySet DEF Init, Sound, ActionsAreAuthorized
  <1>2. TypeOK /\ Sound /\ [Next]_vars => (TypeOK /\ Sound)'
    BY TypeStep, ThreadsStep, ActionsStep DEF Sound
  <1> QED
    BY <1>1, <1>2, PTL DEF Spec

THEOREM TypeCorrect == Spec => []TypeOK
  BY SoundInvariant, PTL

(* An action enforces only under a decision that may: under an automatic one,
   or under a proposal an operator has approved.                             *)
THEOREM ActionsAreAlwaysAuthorized == Spec => []ActionsAreAuthorized
  <1>1. Sound => ActionsAreAuthorized
    BY DEF Sound
  <1> QED
    BY <1>1, SoundInvariant, PTL

-----------------------------------------------------------------------------
(* The refinement: a decision appended, an approval, a rejection and the     *)
(* first action of an approved proposal are the contract's steps.            *)
Proposals == {s \in 1..Len(decisions) : IsProposal(s)}
Acted == {s \in 1..Len(decisions) : IsProposal(s) /\ \E a \in actions : a.seq = s}

LEMMA ProposalStutter ==
  ASSUME UNCHANGED <<decisions, actions, approved, rejected>>
  PROVE  UNCHANGED Contract!vars
  BY DEF Contract!vars, IsProposal

LEMMA ProposalStep ==
  ASSUME TypeOK, Sound, [Next]_vars
  PROVE  [Contract!Next]_(Contract!vars)
  <1>1. ASSUME NEW t \in Threads, RecordDecision(t) \/ Demote(t)
        PROVE  [Contract!Next]_(Contract!vars)
    <2>1. UNCHANGED <<actions, approved, rejected>>
      BY <1>1 DEF RecordDecision, Demote, approvalVars
    <2>2. PICK r \in Decision : decisions' = Recorded(r)
      BY <1>1, RecordedRow DEF Sound
    <2>3. CASE decisions' = decisions
      BY <2>1, <2>3, ProposalStutter
    <2>4. CASE decisions' = Append(decisions, r)
      <3> DEFINE n == Len(decisions) + 1
      <3>1. /\ Len(decisions') = n /\ Len(decisions) \in Nat
            /\ decisions'[n] = r
            /\ \A s \in 1..Len(decisions) : decisions'[s] = decisions[s]
        BY <2>4, AppendProperties DEF TypeOK
      <3>2. \A a \in actions : a.seq # n
        BY <3>1 DEF Sound
      <3>3. Acted' = Acted
        BY <2>1, <3>1, <3>2 DEF Acted, IsProposal
      <3>4. CASE r.disposition = "PROPOSE_OPERATOR_APPROVAL"
        <4>1. Proposals' = Proposals \cup {n}
          BY <3>1, <3>4 DEF Proposals, IsProposal
        <4>2. Contract!Propose(n) /\ n \in Proposals'
          BY <2>1, <3>3, <4>1 DEF Contract!Propose, Proposals, Acted
        <4> QED
          BY <4>2 DEF Contract!Next, Proposals
      <3>5. CASE r.disposition # "PROPOSE_OPERATOR_APPROVAL"
        <4>1. Proposals' = Proposals
          BY <3>1, <3>5 DEF Proposals, IsProposal
        <4> QED
          BY <2>1, <3>3, <4>1 DEF Contract!vars, Proposals, Acted
      <3> QED
        BY <3>4, <3>5
    <2> QED
      BY <2>2, <2>3, <2>4 DEF Recorded
  <1>2. ASSUME NEW t \in Threads, InsertAction(t)
        PROVE  [Contract!Next]_(Contract!vars)
    <2> DEFINE s == thread[t].seq
               taken == \E a \in actions : a.seq = s
               n == [seq |-> s, mode |-> thread[t].mode,
                     batch |-> thread[t].batch, content |-> thread[t].content]
    <2>1. UNCHANGED <<decisions, approved, rejected>>
      BY <1>2 DEF InsertAction, approvalVars
    <2>2. Authorized(t)
      BY <1>2 DEF InsertAction, Sound, ThreadSound
    <2>3. CASE taken
      BY <1>2, <2>1, <2>3, ProposalStutter DEF InsertAction
    <2>4. CASE ~taken
      <3>1. actions' = actions \cup {n} /\ n.seq = s
        BY <1>2, <2>4 DEF InsertAction
      <3> HIDE DEF n
      <3>2. CASE IsProposal(s)
        <4>1. s \in 1..Len(decisions) /\ s \in approved
          BY <2>2, <3>2 DEF Authorized, IsProposal, Automatic
        <4>2. Acted' = Acted \cup {s} /\ s \notin Acted /\ Proposals' = Proposals
          BY <2>1, <2>4, <3>1, <3>2, <4>1 DEF Acted, Proposals, IsProposal
        <4>3. PICK q \in Proposals' : q = s
          BY <4>1, <4>2, <3>2 DEF Proposals
        <4>4. Contract!Act(q)
          BY <2>1, <3>2, <4>1, <4>2, <4>3 DEF Contract!Act, Acted, Proposals, IsProposal
        <4> HIDE DEF s, taken
        <4> QED
          BY <4>3, <4>4 DEF Contract!Next, Proposals
      <3>3. CASE ~IsProposal(s)
        <4>1. Acted' = Acted /\ Proposals' = Proposals
          BY <2>1, <3>1, <3>3 DEF Acted, Proposals, IsProposal
        <4> QED
          BY <2>1, <4>1 DEF Contract!vars, Acted, Proposals
      <3> QED
        BY <3>2, <3>3
    <2> QED
      BY <2>3, <2>4
  <1>3. ASSUME NEW t \in Threads, Approve(t) \/ Reject(t)
        PROVE  [Contract!Next]_(Contract!vars)
    <2> DEFINE s == thread[t].seq
    <2>1. s \in Proposals /\ UNCHANGED <<decisions, actions>>
      BY <1>3 DEF Approve, Reject, Sound, ThreadSound, Proposals
    <2>2. Proposals' = Proposals /\ Acted' = Acted
      BY <2>1 DEF Proposals, Acted, IsProposal
    <2>3. CASE OpenFor(s) /\ Approve(t)
      <3>1. Contract!Approve(s) /\ s \in Proposals'
        BY <2>1, <2>2, <2>3
        DEF Approve, OpenFor, Settled, Contract!Approve, Contract!Open, Proposals, Acted
      <3> QED
        BY <3>1 DEF Contract!Next, Proposals
    <2>4. CASE OpenFor(s) /\ Reject(t)
      <3>1. Contract!Reject(s) /\ s \in Proposals'
        BY <2>1, <2>2, <2>4
        DEF Reject, OpenFor, Settled, Contract!Reject, Contract!Open, Proposals, Acted
      <3> QED
        BY <3>1 DEF Contract!Next, Proposals
    <2>5. CASE ~OpenFor(s)
      <3>1. UNCHANGED <<decisions, actions, approved, rejected>>
        BY <1>3, <2>1, <2>5 DEF Approve, Reject
      <3> QED
        BY <3>1, ProposalStutter
    <2> QED
      BY <1>3, <2>3, <2>4, <2>5
  <1>4. ASSUME NEW t \in Threads, StepOf(t),
               ~(\/ RecordDecision(t) \/ Demote(t) \/ InsertAction(t) \/ Approve(t) \/ Reject(t))
        PROVE  UNCHANGED <<decisions, actions, approved, rejected>>
    BY <1>4 DEF StepOf, ClaimBatch, StartBatch, FinishBatch, FailBatch, BeginReplay, EndReplay,
          BeginApprove, BeginReject, Decide, Compile, CompileRaises, Crash, approvalVars
  <1>5. ASSUME \/ UNCHANGED vars
               \/ \E b \in Batches : Accept(b)
               \/ \E c \in Contents : PromotePolicy(c)
        PROVE  UNCHANGED <<decisions, actions, approved, rejected>>
    BY <1>5 DEF vars, Accept, PromotePolicy, approvalVars
  <1> QED
    BY <1>1, <1>2, <1>3, <1>4, <1>5, ProposalStutter, NextIsAStep

(* A proposal is settled at most once and for good, and nothing is done about
   one that was not approved: the ledger implements the contract.            *)
THEOREM ProposalsAreImplemented == Spec => ImplementsProposals
  <1>1. Init => Contract!Init
    BY DEF Init, Contract!Init
  <1>2. TypeOK /\ Sound /\ [Next]_vars => [Contract!Next]_(Contract!vars)
    BY ProposalStep
  <1> QED
    BY <1>1, <1>2, SoundInvariant, PTL DEF Spec, Contract!Spec, ImplementsProposals

-----------------------------------------------------------------------------
(* What a step does to the accounts: it goes on, leaves, claims a batch,     *)
(* starts one, or mints.                                                     *)
GoesOn(t) ==
    /\ UNCHANGED <<batch, under, actions>>
    /\ Claims(t)' =>
         /\ Claims(t) /\ thread[t].pc # "start" /\ thread'[t].pc # "start"
         /\ thread'[t].batch = thread[t].batch
         /\ thread'[t].budget = thread[t].budget
         /\ thread'[t].granted = thread[t].granted
         /\ thread'[t].pc \in {"create", "insert"} =>
              thread[t].pc \in {"create", "insert"}
              \/ ~Spent(thread[t].budget, thread[t].granted)
Leaves(t) ==
    /\ thread'[t] = Idle /\ UNCHANGED <<under, actions>>
    /\ \/ batch' = batch
       \/ /\ Claims(t)
          /\ \E s \in {"complete", "failed"} : batch' = [batch EXCEPT ![thread[t].batch] = s]

LEMMA StepKinds ==
  ASSUME TypeOK, Sound, NEW t \in Threads, StepOf(t)
  PROVE  \/ GoesOn(t) \/ Leaves(t) \/ InsertAction(t)
         \/ t \in Workers /\ (StartBatch(t) \/ \E b \in Batches : ClaimBatch(t, b))
  <1> DEFINE L == thread[t]
  <1>0. /\ thread \in [Threads -> LocalState] /\ L \in LocalState /\ ThreadSound(t)
        /\ Idle \in LocalState
    BY IdleTyped DEF TypeOK, Sound
  <1>1. CASE FinishBatch(t)
    BY <1>0, <1>1 DEF FinishBatch, Quit, Leaves, Claims
  <1>2. CASE FailBatch(t)
    BY <1>0, <1>2 DEF FailBatch, MarkedFailed, Quit, Leaves, Claims
  <1>3. CASE CompileRaises(t)
    BY <1>0, <1>3 DEF CompileRaises, MarkedFailed, Quit, Leaves, Claims
  <1>4. CASE EndReplay(t) \/ Crash(t) \/ Reject(t)
    BY <1>0, <1>4 DEF EndReplay, Crash, Reject, Quit, Leaves, ingestVars
  <1>5. CASE BeginReplay(t)
    BY <1>0, <1>5 DEF BeginReplay, GoesOn, Claims, Idle, ingestVars
  <1>6. ASSUME NEW s \in 1..Len(decisions), BeginApprove(t, s)
        PROVE  GoesOn(t)
    BY <1>0, <1>6 DEF BeginApprove, GoesOn, Claims, Idle, ingestVars
  <1>7. ASSUME NEW s \in 1..Len(decisions), BeginReject(t, s)
        PROVE  GoesOn(t)
    BY <1>0, <1>7 DEF BeginReject, GoesOn, Claims, Idle, ingestVars
  <1>8. CASE Approve(t)
    <2>1. thread' = [thread EXCEPT ![t] = [L EXCEPT !.pc = "create"]]
          \/ thread' = [thread EXCEPT ![t] = Idle]
      BY <1>8 DEF Approve, Goto, Quit
    <2>2. thread'[t].job # "ingest"
      <3>1. L.job = "approve"
        BY <1>8 DEF Approve
      <3>2. CASE thread' = [thread EXCEPT ![t] = [L EXCEPT !.pc = "create"]]
        BY <1>0, <3>1, <3>2 DEF LocalState
      <3>3. CASE thread' = [thread EXCEPT ![t] = Idle]
        BY <1>0, <3>3 DEF Idle
      <3> QED
        BY <2>1, <3>2, <3>3
    <2> QED
      BY <1>8, <2>2 DEF Approve, GoesOn, Claims, ingestVars
  <1>9. CASE Decide(t)
    BY <1>0, <1>9 DEF Decide, GoesOn, Claims, LocalState
  <1>10. CASE RecordDecision(t)
    <2>1. PICK q \in Nat \cup {SeqFor(Row(L.content, Head(L.todo), Disposition(L.content, Head(L.todo))))} :
          \/ thread' = [thread EXCEPT ![t] =
                 [L EXCEPT !.pc = "decide", !.todo = Tail(L.todo), !.content = NoPolicy]]
          \/ thread' = [thread EXCEPT ![t] = [L EXCEPT !.pc = "demote"]]
          \/ /\ ~Spent(L.budget, L.granted)
             /\ thread' = [thread EXCEPT ![t] = [L EXCEPT !.pc = "create", !.seq = q]]
      BY <1>10 DEF RecordDecision
    <2>2. UNCHANGED <<batch, under, actions>> /\ L.pc = "record"
      BY <1>10 DEF RecordDecision, ingestVars
    <2>3. CASE thread' = [thread EXCEPT ![t] =
                 [L EXCEPT !.pc = "decide", !.todo = Tail(L.todo), !.content = NoPolicy]]
      BY <1>0, <2>2, <2>3 DEF GoesOn, Claims, LocalState
    <2>4. CASE thread' = [thread EXCEPT ![t] = [L EXCEPT !.pc = "demote"]]
      BY <1>0, <2>2, <2>4 DEF GoesOn, Claims, LocalState
    <2>5. CASE /\ ~Spent(L.budget, L.granted)
               /\ thread' = [thread EXCEPT ![t] = [L EXCEPT !.pc = "create", !.seq = q]]
      BY <1>0, <2>2, <2>5 DEF GoesOn, Claims, LocalState
    <2> QED
      BY <2>1, <2>3, <2>4, <2>5
  <1>11. CASE Demote(t)
    <2>1. thread'[t] = NextObservable(t) /\ UNCHANGED <<batch, under, actions>>
          /\ L.pc = "demote"
      BY <1>0, <1>11 DEF Demote, ingestVars
    <2> QED
      BY <2>1, NextObservableFields DEF GoesOn, Claims, Idle
  <1>12. CASE Compile(t)
    <2> DEFINE m == Posture(current, decisions[L.seq].disposition)
    <2>1. UNCHANGED <<batch, under, actions>> /\ L.pc = "create"
      BY <1>12 DEF Compile, ingestVars
    <2>2. CASE thread' = [thread EXCEPT ![t] = NextObservable(t)]
      BY <1>0, <2>1, <2>2, NextObservableFields DEF GoesOn, Claims, Idle
    <2>3. CASE thread' = [thread EXCEPT ![t] = [L EXCEPT !.pc = "insert", !.mode = m]]
      BY <1>0, <2>1, <2>3 DEF GoesOn, Claims, LocalState
    <2> QED
      BY <1>12, <2>2, <2>3 DEF Compile
  <1> QED
    BY <1>1, <1>2, <1>3, <1>4, <1>5, <1>6, <1>7, <1>8, <1>9, <1>10, <1>11, <1>12 DEF StepOf

(* The accounts of a batch nobody touches.                                   *)
LEMMA OthersCounted ==
  ASSUME NEW u \in Threads, Claims(u), Counted(u), thread'[u] = thread[u],
         batch'[thread[u].batch] = batch[thread[u].batch],
         under'[thread[u].batch] = under[thread[u].batch],
         Minted(thread[u].batch)' = Minted(thread[u].batch)
  PROVE  Counted(u)'
  BY DEF Counted, Claims

LEMMA BudgetsAreBudgets ==
  ASSUME TypeOK, NEW b \in Batches
  PROVE  BudgetUnder(under[b]) \in Budgets
  BY LedgerAssumption DEF TypeOK, BudgetUnder, Budgets

(* A batch's actions are finitely many, and one more counts for one.         *)
LEMMA MintedCounts ==
  ASSUME TypeOK, Sound, NEW b
  PROVE  /\ IsFiniteSet(Minted(b)) /\ Cardinality(Minted(b)) \in Nat
         /\ \A a : a \notin actions =>
              Cardinality(Minted(b) \cup {a}) = Cardinality(Minted(b)) + 1
  <1>1. IsFiniteSet(Minted(b))
    BY FS_Subset DEF Sound, Minted
  <1>2. ASSUME NEW a, a \notin actions
        PROVE  Cardinality(Minted(b) \cup {a}) = Cardinality(Minted(b)) + 1
    <2>1. a \notin Minted(b)
      BY <1>2 DEF Minted
    <2> QED
      BY <1>1, <2>1, FS_AddElement
  <1> QED
    BY <1>1, <1>2, FS_CardinalityType

LEMMA AccountedStep ==
  ASSUME TypeOK, Sound, Accounted, [Next]_vars
  PROVE  Accounted'
  <1> DEFINE AllCounted == \A t \in Threads : Claims(t) => Counted(t)
             AllApart == \A t, u \in Threads :
               Claims(t) /\ Claims(u) /\ thread[t].batch = thread[u].batch => t = u
             NoneYet == \A b \in Batches : batch[b] \in {"none", "queued"} => Minted(b) = {}
  <1>0. /\ AllCounted /\ AllApart /\ NoneYet /\ BudgetHolds
        /\ thread \in [Threads -> LocalState]
        /\ \A u \in Threads : Claims(u) => u \in Workers /\ thread[u].batch \in Batches
    BY DEF Accounted, TypeOK, Sound, ThreadSound, Claims
  <1>1. SUFFICES AllCounted' /\ AllApart' /\ NoneYet' /\ BudgetHolds'
    BY DEF Accounted
  <1> HIDE DEF AllCounted, AllApart, NoneYet
  <1>2. CASE UNCHANGED <<batch, under, actions, thread>>
    BY <1>0, <1>2 DEF AllCounted, AllApart, NoneYet, BudgetHolds, Counted, Claims, Minted
  <1>3. ASSUME NEW b \in Batches, Accept(b)
        PROVE  AllCounted' /\ AllApart' /\ NoneYet' /\ BudgetHolds'
    <2>1. /\ UNCHANGED <<under, actions, thread>> /\ batch[b] = "none"
          /\ batch' = [batch EXCEPT ![b] = "queued"]
      BY <1>3 DEF Accept
    <2>2. AllCounted'
      <3>1. ASSUME NEW u \in Threads, Claims(u)
            PROVE  Counted(u)'
        <4>1. Counted(u) /\ thread[u].batch # b
          BY <1>0, <2>1, <3>1 DEF AllCounted, Counted
        <4> QED
          BY <1>0, <2>1, <3>1, <4>1, OthersCounted DEF TypeOK, Minted
      <3> QED
        BY <2>1, <3>1 DEF AllCounted, Claims
    <2>3. NoneYet'
      BY <1>0, <2>1 DEF NoneYet, Minted, TypeOK
    <2> QED
      BY <1>0, <2>1, <2>2, <2>3 DEF AllApart, Claims, BudgetHolds
  <1>4. ASSUME NEW t \in Threads, StepOf(t)
        PROVE  AllCounted' /\ AllApart' /\ NoneYet' /\ BudgetHolds'
    <2>0. \A u \in Threads : u # t => thread'[u] = thread[u]
      <3>1. thread' = [thread EXCEPT ![t] = thread'[t]]
        BY <1>4, ThreadTyped DEF Sound
      <3> QED
        BY <1>0, <3>1
    <2>1. ASSUME NEW u \in Threads, u # t, Claims(u)
          PROVE  /\ Counted(u) /\ batch[thread[u].batch] = "processing"
                 /\ Claims(t) => thread[u].batch # thread[t].batch
                 /\ thread[u].batch \in Batches
      BY <1>0, <2>1 DEF AllCounted, AllApart, Counted
    <2>2. CASE GoesOn(t)
      <3>1. AllCounted'
        <4>1. ASSUME NEW u \in Threads, Claims(u)'
              PROVE  Counted(u)'
          <5>1. CASE u = t
            <6>1. Claims(t)' /\ Claims(t) /\ Counted(t)
              BY <1>0, <2>2, <4>1, <5>1 DEF GoesOn, AllCounted
            <6>2. Counted(t)'
              BY <2>2, <6>1 DEF GoesOn, Counted, Minted
            <6> QED
              BY <5>1, <6>2
          <5>2. CASE u # t
            BY <2>0, <2>1, <2>2, <4>1, <5>2, OthersCounted DEF GoesOn, Claims, Minted
          <5> QED
            BY <5>1, <5>2
        <4> QED
          BY <4>1 DEF AllCounted
      <3>2. AllApart'
        BY <1>0, <2>0, <2>2 DEF GoesOn, AllApart, Claims
      <3> QED
        BY <1>0, <2>2, <3>1, <3>2 DEF GoesOn, NoneYet, BudgetHolds, Minted
    <2>3. CASE Leaves(t)
      <3>1. ~Claims(t)'
        BY <2>3 DEF Leaves, Claims, Idle
      <3>2. AllCounted'
        <4>1. ASSUME NEW u \in Threads, Claims(u)'
              PROVE  Counted(u)'
          <5>1. u # t /\ Claims(u) /\ thread'[u] = thread[u]
            BY <2>0, <3>1, <4>1 DEF Claims
          <5>2. /\ Counted(u) /\ thread[u].batch \in Batches
                /\ Claims(t) => thread[u].batch # thread[t].batch
            BY <2>1, <5>1
          <5>3. batch'[thread[u].batch] = batch[thread[u].batch]
            BY <2>3, <5>2 DEF Leaves, TypeOK
          <5> QED
            BY <2>3, <5>1, <5>2, <5>3, OthersCounted DEF Leaves, Minted
        <4> QED
          BY <4>1 DEF AllCounted
      <3>3. AllApart'
        BY <1>0, <2>0, <3>1 DEF AllApart, Claims
      <3>4. NoneYet'
        BY <1>0, <2>3 DEF Leaves, NoneYet, Minted, TypeOK
      <3> QED
        BY <1>0, <2>3, <3>2, <3>3, <3>4 DEF Leaves, BudgetHolds
    <2>4. ASSUME NEW b \in Batches, ClaimBatch(t, b), t \in Workers
          PROVE  AllCounted' /\ AllApart' /\ NoneYet' /\ BudgetHolds'
      <3>1. /\ UNCHANGED <<under, actions>> /\ batch[b] = "queued" /\ ~Claims(t)
            /\ batch' = [batch EXCEPT ![b] = "processing"]
            /\ thread'[t].pc = "start" /\ thread'[t].batch = b /\ thread'[t].granted = 0
        BY <1>0, <2>4 DEF ClaimBatch, Claimable, Idle, Claims, Sound, ThreadSound
      <3>2. AllCounted'
        <4>1. ASSUME NEW u \in Threads, Claims(u)'
              PROVE  Counted(u)'
          <5>1. CASE u = t
            BY <1>0, <3>1, <5>1 DEF Counted, NoneYet, Minted, TypeOK
          <5>2. CASE u # t
            <6>1. Counted(u) /\ thread[u].batch # b /\ Claims(u) /\ thread'[u] = thread[u]
              BY <2>0, <2>1, <3>1, <4>1, <5>2 DEF Claims
            <6> QED
              BY <3>1, <6>1, OthersCounted DEF Minted, TypeOK
          <5> QED
            BY <5>1, <5>2
        <4> QED
          BY <4>1 DEF AllCounted
      <3>3. AllApart'
        <4>1. ASSUME NEW u \in Threads, u # t, Claims(u)'
              PROVE  thread'[u].batch # b /\ Claims(u) /\ thread'[u] = thread[u]
          BY <2>0, <2>1, <3>1, <4>1 DEF Claims
        <4> QED
          BY <1>0, <3>1, <4>1 DEF AllApart
      <3>4. NoneYet'
        BY <1>0, <3>1 DEF NoneYet, Minted, TypeOK
      <3> QED
        BY <1>0, <3>1, <3>2, <3>3, <3>4 DEF BudgetHolds
    <2>5. CASE StartBatch(t)
      <3> DEFINE b == thread[t].batch
      <3>1. Claims(t) /\ thread[t].pc = "start"
        BY <2>5 DEF StartBatch, Claims, Sound, ThreadSound
      <3>2. /\ UNCHANGED <<batch, actions>>
            /\ under' = [under EXCEPT ![b] = current]
            /\ thread'[t].pc = "decide" /\ thread'[t].job = thread[t].job
            /\ thread'[t].batch = b /\ thread'[t].budget = BudgetUnder(current)
            /\ thread'[t].granted = thread[t].granted
        BY <1>0, <2>5 DEF StartBatch, LocalState
      <3>3. Counted(t) /\ b \in Batches
        BY <1>0, <3>1 DEF AllCounted
      <3>4. Minted(b) = {} /\ thread[t].granted = 0 /\ batch[b] = "processing"
        BY <3>1, <3>3 DEF Counted
      <3>5. under'[b] = current /\ \A x \in Batches : x # b => under'[x] = under[x]
        BY <3>2, <3>3 DEF TypeOK
      <3>6. Minted(b)' = {} /\ \A x : Minted(x)' = Minted(x)
        BY <3>2, <3>4 DEF Minted
      <3>7. AllCounted'
        <4>1. ASSUME NEW u \in Threads, Claims(u)'
              PROVE  Counted(u)'
          <5>1. CASE u = t
            BY <3>2, <3>4, <3>5, <3>6, <5>1, FS_EmptySet DEF Counted
          <5>2. CASE u # t
            <6>1. Counted(u) /\ thread[u].batch # b /\ thread[u].batch \in Batches
                  /\ Claims(u) /\ thread'[u] = thread[u]
              BY <2>0, <2>1, <3>1, <4>1, <5>2 DEF Claims
            <6> QED
              BY <3>2, <3>5, <3>6, <6>1, OthersCounted
          <5> QED
            BY <5>1, <5>2
        <4> QED
          BY <4>1 DEF AllCounted
      <3>8. AllApart'
        BY <1>0, <2>0, <3>1, <3>2 DEF AllApart, Claims
      <3>9. NoneYet'
        BY <1>0, <3>2, <3>6 DEF NoneYet
      <3>10. BudgetHolds'
        <4>1. ASSUME NEW x \in Batches, BudgetUnder(under[x])' # NoBudget
              PROVE  Cardinality(Minted(x)') <= BudgetUnder(under[x])'
          <5>1. CASE x = b
            <6>1. BudgetUnder(under[x])' \in Nat
              BY <3>5, <4>1, <5>1, LedgerAssumption DEF BudgetUnder, TypeOK, Budgets
            <6>2. Cardinality(Minted(x)') = 0
              BY <3>4, <3>6, <5>1, FS_EmptySet
            <6> QED
              BY <6>1, <6>2
          <5>2. CASE x # b
            BY <1>0, <3>5, <3>6, <4>1, <5>2 DEF BudgetHolds, Minted, BudgetUnder
          <5> QED
            BY <5>1, <5>2
        <4> QED
          BY <4>1 DEF BudgetHolds, Minted
      <3> QED
        BY <3>7, <3>8, <3>9, <3>10
    <2>6. CASE InsertAction(t)
      <3> DEFINE b == thread[t].batch
                 taken == \E a \in actions : a.seq = thread[t].seq
                 n == [seq |-> thread[t].seq, mode |-> thread[t].mode,
                       batch |-> b, content |-> thread[t].content]
      <3>1. UNCHANGED <<batch, under>> /\ thread[t].pc = "insert"
        BY <2>6 DEF InsertAction, ingestVars
      <3>2. CASE taken
        <4>1. actions' = actions /\ thread'[t] = NextObservable(t)
          BY <1>0, <2>6, <3>2 DEF InsertAction
        <4>2. GoesOn(t)
          BY <3>1, <4>1, NextObservableFields DEF GoesOn, Claims, Idle
        <4> QED
          BY <2>2, <4>2
      <3>3. CASE ~taken /\ ~Claims(t)
        <4>1. /\ b = NoBatch /\ actions' = actions \cup {n} /\ n.batch = b
              /\ thread'[t] = NextObservable(t)
          BY <1>0, <2>6, <3>3 DEF InsertAction, Sound, ThreadSound, Claims
        <4> HIDE DEF n
        <4>2. \A x \in Batches : Minted(x)' = Minted(x)
          BY <4>1, LedgerAssumption DEF Minted
        <4>3. ~Claims(t)'
          BY <3>3, <4>1, NextObservableFields DEF Claims, Idle
        <4>4. AllCounted'
          <5>1. ASSUME NEW u \in Threads, Claims(u)'
                PROVE  Counted(u)'
            <6>1. u # t /\ Claims(u) /\ thread'[u] = thread[u]
              BY <2>0, <4>3, <5>1 DEF Claims
            <6> QED
              BY <2>1, <3>1, <4>2, <6>1, OthersCounted
          <5> QED
            BY <5>1 DEF AllCounted
        <4>5. AllApart'
          BY <1>0, <2>0, <4>3 DEF AllApart, Claims
        <4> QED
          BY <1>0, <3>1, <4>2, <4>4, <4>5 DEF NoneYet, BudgetHolds, Minted
      <3>4. CASE ~taken /\ Claims(t)
        <4>1. /\ actions' = actions \cup {n} /\ n.batch = b /\ n.seq = thread[t].seq
              /\ thread'[t] = [NextObservable(t) EXCEPT !.granted = @ + 1]
          BY <1>0, <2>6, <3>4 DEF InsertAction, Claims
        <4>2. n \notin actions
          BY <3>4, <4>1
        <4> HIDE DEF n, taken
        <4>3. /\ NextObservable(t) \in LocalState
              /\ thread[t].granted \in Nat /\ thread[t].budget \in Budgets
          BY <1>0, <3>1, NextObservableTyped DEF Sound, ThreadSound, Authorized, Claims, LocalState
        <4>4. /\ thread'[t].pc = "decide" /\ thread'[t].batch = b
              /\ thread'[t].budget = thread[t].budget
              /\ thread'[t].granted = thread[t].granted + 1 /\ Claims(t)'
          BY <3>4, <4>1, <4>3, NextObservableFields DEF Claims, LocalState
        <4>5. /\ Counted(t) /\ b \in Batches /\ batch[b] = "processing"
              /\ thread[t].budget = BudgetUnder(under[b])
              /\ thread[t].granted = Cardinality(Minted(b))
              /\ ~Spent(thread[t].budget, thread[t].granted)
          BY <1>0, <3>1, <3>4 DEF AllCounted, Counted
        <4>6. Minted(b)' = Minted(b) \cup {n} /\ \A x \in Batches \ {b} : Minted(x)' = Minted(x)
          BY <4>1, <4>4 DEF Minted
        <4>7. Cardinality(Minted(b)') = thread[t].granted + 1
          BY <4>2, <4>5, <4>6, MintedCounts
        <4>8. AllCounted'
          <5>1. ASSUME NEW u \in Threads, Claims(u)'
                PROVE  Counted(u)'
            <6>1. CASE u = t
              BY <3>1, <4>4, <4>5, <4>7, <6>1 DEF Counted
            <6>2. CASE u # t
              <7>1. /\ Counted(u) /\ Claims(u) /\ thread'[u] = thread[u]
                    /\ thread[u].batch \in Batches \ {b}
                BY <2>0, <2>1, <3>4, <5>1, <6>2 DEF Claims
              <7> QED
                BY <3>1, <4>6, <7>1, OthersCounted
            <6> QED
              BY <6>1, <6>2
          <5> QED
            BY <5>1 DEF AllCounted
        <4>9. AllApart'
          BY <1>0, <2>0, <3>4, <4>4 DEF AllApart, Claims
        <4>10. NoneYet'
          BY <1>0, <3>1, <4>5, <4>6 DEF NoneYet
        <4>11. BudgetHolds'
          <5>1. thread[t].budget # NoBudget => thread[t].granted + 1 <= thread[t].budget
            BY <4>3, <4>5 DEF Spent, Budgets
          <5>2. ASSUME NEW x \in Batches, BudgetUnder(under[x]) # NoBudget
                PROVE  Cardinality(Minted(x)') <= BudgetUnder(under[x])
            <6>1. CASE x = b
              <7>1. Minted(x)' = Minted(b) \cup {n}
                BY <4>1, <6>1 DEF Minted
              <7>2. Cardinality(Minted(x)') = thread[t].granted + 1
                BY <4>2, <4>5, <7>1, MintedCounts
              <7> QED
                BY <4>5, <5>1, <5>2, <6>1, <7>2
            <6>2. CASE x # b
              BY <1>0, <4>6, <5>2, <6>2 DEF BudgetHolds, Minted
            <6> QED
              BY <6>1, <6>2
          <5> QED
            BY <3>1, <5>2 DEF BudgetHolds, Minted
        <4> QED
          BY <4>8, <4>9, <4>10, <4>11
      <3> QED
        BY <3>2, <3>3, <3>4
    <2> QED
      BY <1>4, <2>2, <2>3, <2>4, <2>5, <2>6, StepKinds
  <1>5. ASSUME NEW c \in Contents, PromotePolicy(c)
        PROVE  UNCHANGED <<batch, under, actions, thread>>
    BY <1>5 DEF PromotePolicy, ingestVars
  <1>6. UNCHANGED vars => UNCHANGED <<batch, under, actions, thread>>
    BY DEF vars
  <1> QED
    BY <1>2, <1>3, <1>4, <1>5, <1>6, NextIsAStep

LEMMA AccountedInvariant == Spec => []Accounted
  <1>1. Init => Accounted
    <2> SUFFICES ASSUME Init
                 PROVE  Accounted
      OBVIOUS
    <2>1. \A t \in Threads : ~Claims(t)
      BY DEF Init, Claims, Idle
    <2>2. \A b \in Batches : Minted(b) = {} /\ BudgetUnder(under[b]) = NoBudget
      BY DEF Init, Minted, BudgetUnder
    <2>3. BudgetHolds
      BY <2>2 DEF BudgetHolds
    <2> QED
      BY <2>1, <2>2, <2>3 DEF Accounted
  <1>2. TypeOK /\ Sound /\ Accounted /\ [Next]_vars => Accounted'
    BY AccountedStep
  <1> QED
    BY <1>1, <1>2, SoundInvariant, PTL DEF Spec

(* A batch mints at most as many actions as the budget it was run under.     *)
THEOREM BudgetAlwaysHolds == Spec => []BudgetHolds
  <1>1. Accounted => BudgetHolds
    BY DEF Accounted
  <1> QED
    BY <1>1, AccountedInvariant, PTL

-----------------------------------------------------------------------------
(* Coverage: what is handled stays handled, and a thread only goes past what *)
(* is.                                                                       *)
LEMMA PromotionsCount ==
  ASSUME TypeOK, [Next]_vars
  PROVE  /\ promotions' = 0 => promotions = 0 /\ current' = current
         /\ current # NoPolicy => current' # NoPolicy
  <1>1. UNCHANGED policyVars \/ \E c \in Contents : PromotePolicy(c)
    <2>1. ASSUME NEW t \in Threads, StepOf(t)
          PROVE  UNCHANGED policyVars
      BY <2>1 DEF StepOf, ClaimBatch, StartBatch, FinishBatch, FailBatch, BeginReplay,
          EndReplay, BeginApprove, BeginReject, Approve, Reject, Decide, RecordDecision, Demote,
          Compile, CompileRaises, InsertAction, Crash
    <2> QED
      BY <2>1, NextIsAStep DEF vars, Accept, policyVars
  <1>2. CASE UNCHANGED policyVars
    BY <1>2 DEF policyVars
  <1>3. CASE \E c \in Contents : PromotePolicy(c)
    BY <1>3, LedgerAssumption DEF PromotePolicy, TypeOK
  <1> QED
    BY <1>1, <1>2, <1>3

LEMMA HandledStays ==
  ASSUME TypeOK, Sound, [Next]_vars, NEW o, Handled(o)
  PROVE  Handled(o)'
  <1>1. Grows
    BY LedgerGrows
  <1>2. ASSUME NEW d, DecidedAs(o, d)
        PROVE  DecidedAs(o, d)'
    BY <1>1, <1>2 DEF Grows, DecidedAs
  <1>3. (\E a \in actions : decisions[a.seq].obs = o)
          => \E a \in actions' : decisions'[a.seq].obs = o
    BY <1>1 DEF Grows, Sound
  <1>4. promotions' = 0 => promotions = 0 /\ current' = current
    BY PromotionsCount
  <1>5. Disposition(current, o) \in Automatic /\ current' = current
          <=> Disposition(current', o) \in Automatic /\ current' = current
    OBVIOUS
  <1>6. DecidedAs(o, Dispositions)'
    BY <1>2 DEF Handled
  <1>7. ASSUME promotions' = 0, AdapterMax \in {"SHADOW", "ENFORCE"},
               Disposition(current', o) \in Automatic, o \notin Wildcards
        PROVE  \/ \E a \in actions' : decisions'[a.seq].obs = o
               \/ DecidedAs(o, {"DEMOTED"})'
    BY <1>2, <1>3, <1>4, <1>5, <1>7 DEF Handled
  <1>8. Disposition(current, o)' = Disposition(current', o)
    BY DEF Disposition, RungFor
  <1> QED
    BY <1>6, <1>7, <1>8 DEF Handled

(* A thread keeps its place, or goes past an observable that is handled.     *)
Stays(t) ==
    /\ Claims(t) /\ Claims(t)' /\ UNCHANGED <<batch, under>>
    /\ thread'[t].batch = thread[t].batch /\ thread'[t].todo = thread[t].todo
    /\ thread'[t].pc # "start"
    /\ thread'[t].pc = "record" /\ promotions' = 0 => thread'[t].content = current'
Advances(t) ==
    /\ Claims(t) /\ Claims(t)' /\ UNCHANGED <<batch, under>>
    /\ thread'[t].batch = thread[t].batch /\ thread[t].todo # <<>>
    /\ thread'[t].todo = Tail(thread[t].todo)
    /\ thread'[t].pc = "decide"
    /\ under[thread[t].batch] # NoPolicy => \A o : o = Head(thread[t].todo) => Handled(o)'
Stops(t) ==
    /\ ~Claims(t)' /\ UNCHANGED under
    /\ \A b \in Batches : batch'[b] = "complete" =>
         \/ batch[b] = "complete"
         \/ Claims(t) /\ thread[t].todo = <<>> /\ b = thread[t].batch

LEMMA NextObservableAdvances ==
  ASSUME TypeOK, Sound, NEW t \in Threads, Claims(t), UNCHANGED <<batch, under>>,
         thread[t].todo # <<>>,
         \/ thread'[t] = NextObservable(t)
         \/ NextObservable(t) \in LocalState
            /\ thread'[t] = [NextObservable(t) EXCEPT !.granted = @ + 1],
         under[thread[t].batch] # NoPolicy => \A o : o = Head(thread[t].todo) => Handled(o)'
  PROVE  Advances(t)
  <1>1. /\ thread'[t].pc = "decide" /\ thread'[t].job = "ingest"
        /\ thread'[t].batch = thread[t].batch /\ thread'[t].todo = Tail(thread[t].todo)
    BY NextObservableFields DEF Claims, LocalState
  <1> QED
    BY <1>1 DEF Advances, Claims

LEMMA ProgressKinds ==
  ASSUME TypeOK, Sound, Covered, [Next]_vars, NEW t \in Threads, StepOf(t)
  PROVE  \/ Stays(t) \/ Advances(t) \/ Stops(t)
         \/ t \in Workers /\ (StartBatch(t) \/ \E b \in Batches : ClaimBatch(t, b))
  <1> DEFINE L == thread[t]
  <1>o. PICK o : o = Head(L.todo)
    OBVIOUS
  <1>0. /\ thread \in [Threads -> LocalState] /\ L \in LocalState /\ ThreadSound(t)
        /\ Idle \in LocalState /\ Grows
        /\ Claims(t) => Progressing(t) /\ L.batch \in Batches
        /\ \A b \in Batches : under[b] # NoPolicy => current # NoPolicy
    BY IdleTyped, LedgerGrows DEF TypeOK, Sound, Covered, ThreadSound, Claims
  <1>1. CASE FinishBatch(t)
    BY <1>0, <1>1 DEF FinishBatch, Quit, Stops, Claims, Idle, TypeOK
  <1>2. CASE FailBatch(t)
    BY <1>0, <1>2 DEF FailBatch, MarkedFailed, Quit, Stops, Claims, Idle, TypeOK
  <1>3. CASE CompileRaises(t)
    BY <1>0, <1>3 DEF CompileRaises, MarkedFailed, Quit, Stops, Claims, Idle, TypeOK
  <1>4. CASE EndReplay(t) \/ Crash(t) \/ Reject(t)
    BY <1>0, <1>4 DEF EndReplay, Crash, Reject, Quit, Stops, Claims, Idle, ingestVars
  <1>5. ASSUME UNCHANGED <<batch, under>>, ~Claims(t)'
        PROVE  Stops(t)
    BY <1>5 DEF Stops
  <1>6. CASE BeginReplay(t)
    BY <1>0, <1>5, <1>6 DEF BeginReplay, Claims, Idle, ingestVars
  <1>7. ASSUME NEW s \in 1..Len(decisions), BeginApprove(t, s)
        PROVE  Stops(t)
    BY <1>0, <1>5, <1>7 DEF BeginApprove, Claims, Idle, ingestVars
  <1>8. ASSUME NEW s \in 1..Len(decisions), BeginReject(t, s)
        PROVE  Stops(t)
    BY <1>0, <1>5, <1>8 DEF BeginReject, Claims, Idle, ingestVars
  <1>9. CASE Approve(t)
    <2>1. L.job = "approve" /\ UNCHANGED <<batch, under>>
      BY <1>9 DEF Approve, ingestVars
    <2>2. CASE thread' = [thread EXCEPT ![t] = [L EXCEPT !.pc = "create"]]
      BY <1>0, <1>5, <2>1, <2>2 DEF Claims, LocalState
    <2>3. CASE thread' = [thread EXCEPT ![t] = Idle]
      BY <1>0, <1>5, <2>1, <2>3 DEF Claims, Idle
    <2> QED
      BY <1>9, <2>2, <2>3 DEF Approve, Goto, Quit
  <1>10. CASE Decide(t)
    <2>1. /\ UNCHANGED <<batch, under, current>> /\ L.pc = "decide" /\ L.todo # <<>>
      BY <1>10 DEF Decide, policyVars
    <2>2. CASE current = NoPolicy
      <3>1. thread' = [thread EXCEPT ![t] = [L EXCEPT !.todo = Tail(L.todo)]]
        BY <1>10, <2>2 DEF Decide
      <3>2. /\ thread'[t].job = L.job /\ thread'[t].pc = L.pc /\ thread'[t].batch = L.batch
            /\ thread'[t].todo = Tail(L.todo)
        BY <1>0, <3>1 DEF LocalState
      <3> QED
        BY <1>0, <1>5, <2>1, <2>2, <3>2 DEF Advances, Claims
    <2>3. CASE current # NoPolicy
      <3>1. thread' = [thread EXCEPT ![t] = [L EXCEPT !.pc = "record", !.content = current]]
        BY <1>10, <2>3 DEF Decide
      <3>2. /\ thread'[t].job = L.job /\ thread'[t].pc = "record" /\ thread'[t].batch = L.batch
            /\ thread'[t].todo = L.todo /\ thread'[t].content = current
        BY <1>0, <3>1 DEF LocalState
      <3> QED
        BY <1>5, <2>1, <3>2 DEF Stays, Claims
    <2> QED
      BY <2>2, <2>3
  <1>11. CASE RecordDecision(t)
    <2>1. PICK r \in Decision :
             /\ decisions' = Recorded(r)
             /\ r.obs = o /\ r.obs \in Observables /\ r.disposition \in Dispositions
             /\ r = Row(L.content, o, Disposition(L.content, o))
      BY <1>0, <1>o, <1>11, RecordedRow
    <2>2. /\ SeqFor(r) \in 1..Len(decisions')
          /\ decisions'[SeqFor(r)].obs = o
          /\ decisions'[SeqFor(r)].disposition = r.disposition
      BY <2>1, RecordedKeeps DEF TypeOK
    <2>3. /\ UNCHANGED <<batch, under, current, promotions>>
          /\ L.pc = "record" /\ L.todo # <<>>
      BY <1>0, <1>11 DEF RecordDecision, ingestVars, policyVars, ThreadSound
    <2>4. \/ /\ L.job = "replay" \/ r.disposition \notin Automatic
             /\ thread' = [thread EXCEPT ![t] =
                  [L EXCEPT !.pc = "decide", !.todo = Tail(L.todo), !.content = NoPolicy]]
          \/ thread' = [thread EXCEPT ![t] = [L EXCEPT !.pc = "demote"]]
          \/ thread' = [thread EXCEPT ![t] = [L EXCEPT !.pc = "create", !.seq = SeqFor(r)]]
      BY <1>o, <1>11, <2>1 DEF RecordDecision, Mints
    <2>5. CASE thread' = [thread EXCEPT ![t] = [L EXCEPT !.pc = "demote"]]
      <3>1. /\ thread'[t].job = L.job /\ thread'[t].pc = "demote" /\ thread'[t].batch = L.batch
            /\ thread'[t].todo = L.todo
        BY <1>0, <2>5 DEF LocalState
      <3> QED
        BY <1>5, <2>3, <3>1 DEF Stays, Claims
    <2>6. CASE thread' = [thread EXCEPT ![t] = [L EXCEPT !.pc = "create", !.seq = SeqFor(r)]]
      <3>1. /\ thread'[t].job = L.job /\ thread'[t].pc = "create" /\ thread'[t].batch = L.batch
            /\ thread'[t].todo = L.todo
        BY <1>0, <2>6 DEF LocalState
      <3> QED
        BY <1>5, <2>3, <3>1 DEF Stays, Claims
    <2>7. CASE /\ L.job = "replay" \/ r.disposition \notin Automatic
               /\ thread' = [thread EXCEPT ![t] =
                    [L EXCEPT !.pc = "decide", !.todo = Tail(L.todo), !.content = NoPolicy]]
      <3>1. /\ thread'[t].job = L.job /\ thread'[t].pc = "decide" /\ thread'[t].batch = L.batch
            /\ thread'[t].todo = Tail(L.todo)
        BY <1>0, <2>7 DEF LocalState
      <3>2. CASE L.job # "ingest"
        BY <1>5, <2>3, <3>1, <3>2 DEF Claims
      <3>3. CASE L.job = "ingest"
        <4>1. DecidedAs(o, Dispositions)'
          BY <2>1, <2>2 DEF DecidedAs
        <4>2. r.disposition = Disposition(L.content, o)
          BY <2>1 DEF Row
        <4>3. promotions = 0 => Disposition(current, o) \notin Automatic
          BY <1>0, <2>3, <2>7, <3>3, <4>2 DEF Progressing, Claims
        <4>4. Handled(o)'
          BY <2>3, <4>1, <4>3 DEF Handled, Disposition, RungFor
        <4> QED
          BY <1>o, <2>3, <3>1, <3>3, <4>4 DEF Advances, Claims
      <3> QED
        BY <3>2, <3>3
    <2> QED
      BY <2>4, <2>5, <2>6, <2>7
  <1>12. CASE Demote(t)
    <2>1. PICK r \in Decision : /\ decisions' = Recorded(r) /\ r.obs = o
                                /\ r.disposition = "DEMOTED"
      BY <1>0, <1>o, <1>12, RecordedRow
    <2>2. /\ SeqFor(r) \in 1..Len(decisions')
          /\ decisions'[SeqFor(r)].obs = o
          /\ decisions'[SeqFor(r)].disposition = "DEMOTED"
      BY <2>1, RecordedKeeps DEF TypeOK
    <2>3. /\ UNCHANGED <<batch, under>> /\ thread'[t] = NextObservable(t)
          /\ L.todo # <<>> /\ Claims(t)
      BY <1>0, <1>12 DEF Demote, ingestVars, ThreadSound, Claims
    <2>4. DecidedAs(o, Dispositions)' /\ DecidedAs(o, {"DEMOTED"})'
      BY <2>2 DEF DecidedAs, Dispositions
    <2>5. Handled(o)'
      BY <2>4 DEF Handled
    <2> QED
      BY <1>o, <2>3, <2>5, NextObservableAdvances
  <1>13. ASSUME Authorized(t), Claims(t)
         PROVE  /\ DecidedAs(o, Dispositions)'
                /\ L.seq \in 1..Len(decisions) /\ decisions[L.seq].obs = o
                /\ decisions'[L.seq].obs = o /\ L.todo # <<>>
    <2>1. /\ L.seq \in 1..Len(decisions) /\ decisions[L.seq].obs = o
          /\ decisions[L.seq].disposition \in Dispositions /\ L.todo # <<>>
      BY <1>o, <1>13 DEF Authorized, Dispositions
    <2> QED
      BY <1>0, <2>1 DEF Grows, DecidedAs
  <1>14. CASE Compile(t)
    <2> DEFINE m == Posture(current, decisions[L.seq].disposition)
               r == decisions[L.seq]
    <2>1. /\ UNCHANGED <<batch, under, current, promotions>> /\ L.pc = "create" /\ Authorized(t)
      BY <1>0, <1>14 DEF Compile, ingestVars, policyVars, ThreadSound
    <2>2. CASE /\ Renders(r.obs) /\ AdapterMax \in {"SHADOW", "ENFORCE"}
               /\ thread' = [thread EXCEPT ![t] = [L EXCEPT !.pc = "insert", !.mode = m]]
      <3>1. /\ thread'[t].job = L.job /\ thread'[t].pc = "insert" /\ thread'[t].batch = L.batch
            /\ thread'[t].todo = L.todo
        BY <1>0, <2>2 DEF LocalState
      <3> QED
        BY <1>5, <2>1, <3>1 DEF Stays, Claims
    <2>3. CASE /\ ~(Renders(r.obs) /\ AdapterMax \in {"SHADOW", "ENFORCE"})
               /\ thread' = [thread EXCEPT ![t] = NextObservable(t)]
      <3>1. CASE ~Claims(t)
        BY <1>0, <1>5, <2>1, <2>3, <3>1, NextObservableFields DEF Claims, Idle
      <3>2. CASE Claims(t)
        <4>1. /\ DecidedAs(o, Dispositions)' /\ L.todo # <<>> /\ r.obs = o
          BY <1>13, <2>1, <3>2
        <4>2. o \in Observables
          BY <1>0, <1>o, <4>1, HeadTailProperties DEF LocalState
        <4>3. ASSUME under[L.batch] # NoPolicy, AdapterMax \in {"SHADOW", "ENFORCE"},
                     Disposition(current, o) \in Automatic, o \notin Wildcards
              PROVE  FALSE
          <5>1. current \in Contents
            BY <1>0, <3>2, <4>3 DEF TypeOK
          <5>2. o \in Scope[current]
            BY <4>2, <4>3, <5>1, AutoIsInScope
          <5> QED
            BY <2>3, <4>1, <4>3, <5>2 DEF Renders
        <4>4. under[L.batch] # NoPolicy => Handled(o)'
          BY <2>1, <4>1, <4>3 DEF Handled, Disposition, RungFor
        <4> QED
          BY <1>0, <1>o, <2>1, <2>3, <3>2, <4>1, <4>4, NextObservableAdvances
      <3> QED
        BY <3>1, <3>2
    <2> QED
      BY <1>14, <2>2, <2>3 DEF Compile
  <1>15. CASE InsertAction(t)
    <2> DEFINE taken == \E a \in actions : a.seq = L.seq
               n == [seq |-> L.seq, mode |-> L.mode, batch |-> L.batch, content |-> L.content]
    <2>1. /\ UNCHANGED <<batch, under, decisions>> /\ L.pc = "insert" /\ Authorized(t)
          /\ NextObservable(t) \in LocalState
      BY <1>0, <1>15, NextObservableTyped
      DEF InsertAction, ingestVars, ThreadSound, Authorized, Claims
    <2>2. \E a \in actions' : a.seq = L.seq
      <3>1. CASE taken
        BY <1>15, <3>1 DEF InsertAction
      <3>2. CASE ~taken
        <4>1. n \in actions' /\ n.seq = L.seq
          BY <1>15, <3>2 DEF InsertAction
        <4> QED
          BY <4>1
      <3> QED
        BY <3>1, <3>2
    <2>3. CASE ~Claims(t)
      <3>1. thread'[t] = NextObservable(t)
        BY <1>0, <1>15, <2>3 DEF InsertAction, Claims
      <3> QED
        BY <1>5, <2>1, <2>3, <3>1, NextObservableFields DEF Claims, Idle
    <2>4. CASE Claims(t)
      <3>1. /\ DecidedAs(o, Dispositions)' /\ L.todo # <<>> /\ decisions'[L.seq].obs = o
        BY <1>13, <2>1, <2>4
      <3>2. Handled(o)'
        BY <2>2, <3>1 DEF Handled
      <3>3. \/ thread'[t] = NextObservable(t)
            \/ thread'[t] = [NextObservable(t) EXCEPT !.granted = @ + 1]
        BY <1>0, <1>15 DEF InsertAction
      <3> QED
        BY <1>o, <2>1, <2>4, <3>1, <3>2, <3>3, NextObservableAdvances
    <2> QED
      BY <2>3, <2>4
  <1> QED
    BY <1>1, <1>2, <1>3, <1>4, <1>6, <1>7, <1>8, <1>9, <1>10, <1>11, <1>12, <1>14, <1>15 DEF StepOf

LEMMA OthersProgress ==
  ASSUME TypeOK, Sound, [Next]_vars, NEW u \in Threads, Claims(u), Progressing(u),
         thread'[u].batch = thread[u].batch, thread'[u].todo = thread[u].todo,
         under'[thread[u].batch] = under[thread[u].batch],
         \/ thread'[u] = thread[u]
         \/ /\ thread'[u].pc # "start"
            /\ thread'[u].pc = "record" /\ promotions' = 0 => thread'[u].content = current'
  PROVE  Progressing(u)'
  <1> DEFINE P == Payload[thread[u].batch]
             n == Done(u)
  <1>1. Done(u)' = n /\ Payload[thread[u].batch]' = P
    BY DEF Done
  <1>2. ASSUME under[thread[u].batch] # NoPolicy, NEW i \in 1..n
        PROVE  Handled(P[i])'
    <2>1. PICK o : o = P[i]
      OBVIOUS
    <2>2. Handled(o)
      BY <1>2, <2>1 DEF Progressing
    <2>3. Handled(o)'
      BY <2>2, HandledStays
    <2>4. P' = P
      BY <1>1
    <2> QED
      BY <2>1, <2>3, <2>4
  <1>3. thread'[u].pc = "record" /\ promotions' = 0 => thread'[u].content = current'
    BY PromotionsCount DEF Progressing
  <1>4. thread'[u].pc = "start" => n = 0
    BY DEF Progressing
  <1> QED
    BY <1>1, <1>2, <1>3, <1>4 DEF Progressing

(* Going past the first of a suffix.                                         *)
LEMMA SuffixAdvances ==
  ASSUME NEW P \in Seq(Observables), NEW q \in Seq(Observables), q # <<>>,
         NEW n \in Nat, n = Len(P) - Len(q), \A i \in 1..Len(q) : q[i] = P[n + i]
  PROVE  /\ n + 1 = Len(P) - Len(Tail(q)) /\ n + 1 \in Nat
         /\ \A i \in 1..Len(Tail(q)) : Tail(q)[i] = P[n + 1 + i]
         /\ Head(q) = P[n + 1]
         /\ \A i \in 1..(n + 1) : i \in 1..n \/ i = n + 1
  <1>1. /\ Len(q) \in Nat \ {0} /\ Len(P) \in Nat /\ Len(Tail(q)) = Len(q) - 1
        /\ Head(q) = q[1] /\ \A i \in 1..Len(Tail(q)) : Tail(q)[i] = q[i + 1]
    OBVIOUS
  <1>2. ASSUME NEW i \in 1..Len(Tail(q))
        PROVE  Tail(q)[i] = P[n + 1 + i]
    <2>1. i + 1 \in 1..Len(q)
      BY <1>1
    <2>2. q[i + 1] = P[n + (i + 1)]
      BY <2>1
    <2>3. n + (i + 1) = n + 1 + i
      BY <1>1
    <2> QED
      BY <1>1, <2>2, <2>3
  <1> QED
    BY <1>1, <1>2

LEMMA MoverProgress ==
  ASSUME TypeOK, Sound, [Next]_vars, NEW t \in Threads, Progressing(t), Advances(t)
  PROVE  Progressing(t)'
  <1>1. PICK P, q, n : P = Payload[thread[t].batch] /\ q = thread[t].todo /\ n = Done(t)
    OBVIOUS
  <1>2. /\ P \in Seq(Observables) /\ q \in Seq(Observables) /\ q # <<>>
    BY <1>1, LedgerAssumption DEF TypeOK, LocalState, Advances, Sound, ThreadSound, Claims
  <1>3. /\ n \in Nat /\ n = Len(P) - Len(q) /\ \A i \in 1..Len(q) : q[i] = P[n + i]
    BY <1>1 DEF Progressing, Done
  <1>4. /\ n + 1 = Len(P) - Len(Tail(q)) /\ n + 1 \in Nat
        /\ \A i \in 1..Len(Tail(q)) : Tail(q)[i] = P[n + 1 + i]
        /\ Head(q) = P[n + 1]
        /\ \A i \in 1..(n + 1) : i \in 1..n \/ i = n + 1
    BY <1>2, <1>3, SuffixAdvances, ZenonT(30)
  <1>5. /\ thread'[t].todo = Tail(q) /\ thread'[t].pc = "decide"
        /\ Payload[thread'[t].batch] = P
        /\ under'[thread'[t].batch] = under[thread[t].batch]
    BY <1>1 DEF Advances
  <1>6. Done(t)' = n + 1
    BY <1>4, <1>5 DEF Done
  <1>7. ASSUME under[thread[t].batch] # NoPolicy, NEW i \in 1..(n + 1)
        PROVE  Handled(P[i])'
    <2>1. CASE i \in 1..n
      <3>1. Handled(P[i])
        BY <1>1, <1>7, <2>1 DEF Progressing
      <3> QED
        BY <3>1, HandledStays
    <2>2. CASE i = n + 1
      BY <1>1, <1>4, <1>7, <2>2 DEF Advances
    <2> QED
      BY <1>4, <2>1, <2>2
  <1> QED
    BY <1>4, <1>5, <1>6, <1>7 DEF Progressing

LEMMA CoveredStep ==
  ASSUME TypeOK, Sound, Accounted, Covered, [Next]_vars
  PROVE  Covered'
  <1> DEFINE AllProgress == \A t \in Threads : Claims(t) => Progressing(t)
             Governed == \A b \in Batches : under[b] # NoPolicy => current # NoPolicy
  <1>0. /\ AllProgress /\ Governed /\ CompleteIsHandled
        /\ thread \in [Threads -> LocalState]
        /\ \A u \in Threads : Claims(u) => u \in Workers /\ thread[u].batch \in Batches
    BY DEF Covered, TypeOK, Sound, ThreadSound, Claims
  <1>1. SUFFICES AllProgress' /\ Governed' /\ CompleteIsHandled'
    BY DEF Covered
  <1> HIDE DEF AllProgress, Governed
  \* A batch that was complete stays covered; one that becomes so must be.
  <1>2. ASSUME \A b \in Batches : batch'[b] = "complete" /\ under'[b] # NoPolicy =>
                  \A i \in 1..Len(Payload[b]) : Handled(Payload[b][i])
        PROVE  CompleteIsHandled'
    <2>1. ASSUME NEW b \in Batches, batch'[b] = "complete", under'[b] # NoPolicy,
                 NEW i \in 1..Len(Payload[b])
          PROVE  Handled(Payload[b][i])'
      BY <1>2, <2>1, HandledStays
    <2> QED
      BY <2>1 DEF CompleteIsHandled, Handled
  <1>3. ASSUME UNCHANGED under
        PROVE  Governed'
    BY <1>0, <1>3, PromotionsCount DEF Governed
  <1>4. \A b \in Batches : batch[b] = "complete" /\ under[b] # NoPolicy =>
                  \A i \in 1..Len(Payload[b]) : Handled(Payload[b][i])
    BY <1>0 DEF CompleteIsHandled, Handled
  <1>5. ASSUME UNCHANGED <<under, thread>>,
               \A b \in Batches : batch'[b] = "complete" => batch[b] = "complete"
        PROVE  AllProgress' /\ Governed' /\ CompleteIsHandled'
    <2>1. AllProgress'
      <3>1. ASSUME NEW u \in Threads, Claims(u)'
            PROVE  Progressing(u)'
        <4>1. Claims(u) /\ Progressing(u)
          BY <1>0, <1>5, <3>1 DEF AllProgress, Claims
        <4> QED
          BY <1>5, <4>1, OthersProgress
      <3> QED
        BY <3>1 DEF AllProgress
    <2>2. CompleteIsHandled'
      BY <1>2, <1>4, <1>5
    <2> QED
      BY <1>3, <1>5, <2>1, <2>2
  <1>6. CASE UNCHANGED vars \/ \E c \in Contents : PromotePolicy(c)
    <2>1. UNCHANGED <<batch, under, thread>>
      BY <1>6 DEF vars, PromotePolicy, ingestVars
    <2> QED
      BY <1>5, <2>1
  <1>7. ASSUME NEW b \in Batches, Accept(b)
        PROVE  AllProgress' /\ Governed' /\ CompleteIsHandled'
    <2>1. UNCHANGED <<under, thread>> /\ batch' = [batch EXCEPT ![b] = "queued"]
      BY <1>7 DEF Accept
    <2>2. \A x \in Batches : batch'[x] = "complete" => batch[x] = "complete"
      BY <2>1 DEF TypeOK
    <2> QED
      BY <1>5, <2>1, <2>2
  <1>8. ASSUME NEW t \in Threads, StepOf(t)
        PROVE  AllProgress' /\ Governed' /\ CompleteIsHandled'
    <2>0. \A u \in Threads : u # t => thread'[u] = thread[u]
      <3>1. thread' = [thread EXCEPT ![t] = thread'[t]]
        BY <1>8, ThreadTyped DEF Sound
      <3> QED
        BY <1>0, <3>1
    <2>1. ASSUME UNCHANGED under, Claims(t)' => Progressing(t)'
          PROVE  AllProgress'
      <3>1. ASSUME NEW u \in Threads, u # t, Claims(u)'
            PROVE  Progressing(u)'
        <4>1. Claims(u) /\ Progressing(u) /\ thread'[u] = thread[u]
          BY <1>0, <2>0, <3>1 DEF AllProgress, Claims
        <4> QED
          BY <2>1, <4>1, OthersProgress
      <3> QED
        BY <2>1, <3>1 DEF AllProgress
    <2>2. CASE Stays(t)
      <3>1. Progressing(t)'
        BY <1>0, <2>2, OthersProgress DEF Stays, AllProgress
      <3>2. UNCHANGED <<batch, under>>
        BY <2>2 DEF Stays
      <3> QED
        BY <1>2, <1>3, <1>4, <2>1, <3>1, <3>2
    <2>3. CASE Advances(t)
      <3>1. Progressing(t)'
        BY <1>0, <2>3, MoverProgress DEF Advances, AllProgress
      <3>2. UNCHANGED <<batch, under>>
        BY <2>3 DEF Advances
      <3> QED
        BY <1>2, <1>3, <1>4, <2>1, <3>1, <3>2
    <2>4. CASE Stops(t)
      <3>1. ~Claims(t)' /\ UNCHANGED under
        BY <2>4 DEF Stops
      <3>2. ASSUME NEW b \in Batches, batch'[b] = "complete", under[b] # NoPolicy,
                   NEW i \in 1..Len(Payload[b])
            PROVE  Handled(Payload[b][i])
        <4>1. CASE batch[b] = "complete"
          BY <1>4, <3>2, <4>1
        <4>2. CASE Claims(t) /\ thread[t].todo = <<>> /\ b = thread[t].batch
          <5>1. Payload[b] \in Seq(Observables)
            BY LedgerAssumption
          <5>2. Done(t) = Len(Payload[b])
            BY <4>2, <5>1 DEF Done
          <5> QED
            BY <1>0, <3>2, <4>2, <5>2 DEF AllProgress, Progressing
        <4> QED
          BY <2>4, <3>2, <4>1, <4>2 DEF Stops
      <3> QED
        BY <1>2, <1>3, <2>1, <3>1, <3>2
    <2>5. ASSUME NEW b \in Batches, ClaimBatch(t, b)
          PROVE  AllProgress' /\ Governed' /\ CompleteIsHandled'
      <3>1. /\ UNCHANGED under /\ batch' = [batch EXCEPT ![b] = "processing"]
            /\ thread'[t].pc = "start" /\ thread'[t].batch = b
            /\ thread'[t].todo = Payload[b]
        BY <1>0, <2>5 DEF ClaimBatch, Idle
      <3>2. Payload[b] \in Seq(Observables)
        BY LedgerAssumption
      <3>3. Done(t)' = 0
        BY <3>1, <3>2 DEF Done
      <3>4. Progressing(t)'
        BY <3>1, <3>2, <3>3 DEF Progressing
      <3>5. \A x \in Batches : batch'[x] = "complete" => batch[x] = "complete"
        BY <3>1 DEF TypeOK
      <3> QED
        BY <1>2, <1>3, <1>4, <2>1, <3>1, <3>4, <3>5
    <2>6. CASE StartBatch(t)
      <3> DEFINE b == thread[t].batch
      <3>1. Claims(t) /\ thread[t].pc = "start"
        BY <2>6 DEF StartBatch, Claims, Sound, ThreadSound
      <3>2. /\ UNCHANGED <<batch, current>>
            /\ under' = [under EXCEPT ![b] = current]
            /\ thread'[t].pc = "decide" /\ thread'[t].batch = b
            /\ thread'[t].todo = thread[t].todo
        BY <1>0, <2>6 DEF StartBatch, LocalState, policyVars
      <3>3. /\ b \in Batches /\ batch[b] = "processing"
            /\ \A u \in Threads \ {t} : Claims(u) => thread[u].batch # b
        BY <1>0, <3>1 DEF Accounted, Counted
      <3>4. \A x \in Batches : x # b => under'[x] = under[x]
        BY <3>2 DEF TypeOK
      <3>5. Progressing(t) /\ Done(t) = 0
        BY <1>0, <3>1 DEF AllProgress, Progressing
      <3>6. Progressing(t)'
        <4>1. Done(t)' = 0 /\ Payload[thread'[t].batch] = Payload[b]
          BY <3>2, <3>5 DEF Done
        <4> QED
          BY <3>2, <3>5, <4>1 DEF Progressing
      <3>7. AllProgress'
        <4>1. ASSUME NEW u \in Threads, u # t, Claims(u)'
              PROVE  Progressing(u)'
          <5>1. Claims(u) /\ Progressing(u) /\ thread'[u] = thread[u]
            BY <1>0, <2>0, <4>1 DEF AllProgress, Claims
          <5>2. under'[thread[u].batch] = under[thread[u].batch]
            BY <1>0, <3>3, <3>4, <4>1, <5>1
          <5> QED
            BY <5>1, <5>2, OthersProgress
        <4> QED
          BY <3>6, <4>1 DEF AllProgress
      <3>8. Governed'
        BY <1>0, <3>2, <3>3 DEF Governed, TypeOK
      <3>9. CompleteIsHandled'
        BY <1>2, <1>4, <3>2, <3>3, <3>4
      <3> QED
        BY <3>7, <3>8, <3>9
    <2> QED
      BY <1>8, <2>2, <2>3, <2>4, <2>5, <2>6, ProgressKinds
  <1> QED
    BY <1>6, <1>7, <1>8, NextIsAStep

LEMMA CoveredInvariant == Spec => []Covered
  <1>1. Init => Covered
    <2> SUFFICES ASSUME Init
                 PROVE  Covered
      OBVIOUS
    <2>1. \A t \in Threads : ~Claims(t)
      BY DEF Init, Claims, Idle
    <2>2. \A b \in Batches : under[b] = NoPolicy
      BY DEF Init
    <2> QED
      BY <2>1, <2>2 DEF Covered, CompleteIsHandled
  <1>2. TypeOK /\ Sound /\ Accounted /\ Covered /\ [Next]_vars => Covered'
    BY CoveredStep
  <1> QED
    BY <1>1, <1>2, SoundInvariant, AccountedInvariant, PTL DEF Spec

(* A batch reported complete has handled every observable in it.             *)
THEOREM CompleteIsAlwaysHandled == Spec => []CompleteIsHandled
  <1>1. Covered => CompleteIsHandled
    BY DEF Covered
  <1> QED
    BY <1>1, CoveredInvariant, PTL
===============================================================================
