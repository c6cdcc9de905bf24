--------------------------- MODULE DecisionLedger ---------------------------
(***************************************************************************)
(* From observations to actions: the ingest queue and the workers that      *)
(* drain it, the decisions they append, the actions a decision is compiled  *)
(* into, replay, operator approval and rejection of proposals, and policy   *)
(* promotion meanwhile.  One action is one ledger statement, or a group of  *)
(* reads no other thread can tell apart.                                    *)
(*                                                                          *)
(* Scoring is a parameter: Rung[c][o] is the rung evaluate() selects for o  *)
(* under the policy text c, and stands for its scores too.  Tenants share   *)
(* the global policy, and an observable's evidence does not change.  One    *)
(* adapter renders every materializable decision, as one rule.  Which of    *)
(* several queued batches is claimed first is left open.                    *)
(***************************************************************************)
EXTENDS Naturals, Sequences, FiniteSets

CONSTANTS
    Observables, Batches,
    Payload,        \* [Batches -> Seq(Observables)]
    Workers,        \* ingest loops, one per controller process
    Operators,      \* API threads serving an operator
    Contents,       \* policy texts
    VersionOf,      \* policy_version inside a text
    ModeOf,         \* mode inside a text
    Rung,           \* [Contents -> [Observables -> Rungs]]
    Scope,          \* [Contents -> SUBSET Observables]
    BudgetOf,       \* max_new_auto_actions_per_batch, or NoBudget
    Wildcards,      \* observables the adapter renders nothing for
    AdapterScope,   \* observables inside the adapter's own boundary
    AdapterMax,     \* the adapter's maximum posture
    InitialPolicies,
    NoPolicy, NoBatch, NoBudget,
    MaxPromotions,  \* bound: promotions
    MaxMishaps      \* bound: threads that die, statements that raise

Modes == {"OFF", "OBSERVE", "SHADOW", "ENFORCE", "EMERGENCY"}
Rungs == {"NONE", "L0", "L4"}
Automatic == {"SHADOW_ACTION", "AUTO_ENFORCE"}
Dispositions == {"NO_ACTION", "OBSERVE", "PROPOSE_OPERATOR_APPROVAL",
                 "DEMOTED"} \cup Automatic
Threads == Workers \cup Operators
Versions == {VersionOf[c] : c \in Contents}
Budgets == Nat \cup {NoBudget}

ASSUME LedgerAssumption ==
    /\ Payload \in [Batches -> Seq(Observables)]
    /\ ModeOf \in [Contents -> Modes]
    /\ Rung \in [Contents -> [Observables -> Rungs]]
    /\ Scope \in [Contents -> SUBSET Observables]
    /\ BudgetOf \in [Contents -> Budgets]
    /\ Wildcards \subseteq Observables
    /\ AdapterScope \subseteq Observables
    /\ AdapterMax \in Modes \ {"EMERGENCY"}
    /\ NoPolicy \notin Contents /\ NoBatch \notin Batches /\ NoBudget \notin Nat
    /\ InitialPolicies \subseteq Contents \cup {NoPolicy}
    /\ Workers \cap Operators = {}
    /\ MaxPromotions \in Nat /\ MaxMishaps \in Nat

VARIABLES
    batch,        \* ingest_batches.status
    seen,         \* indicators
    decisions,    \* the decisions table, in order of seq
    actions,      \* the actions table, with the batch and policy behind each
    approved, rejected,   \* decision_approvals: seqs, by outcome
    current,      \* the active policy text
    thread,       \* what each thread is doing
    under,        \* the policy a batch was started under
    toldRejected, \* proposals some operator was told are rejected
    promotions, mishaps

vars == <<batch, seen, decisions, actions, approved, rejected, current,
          thread, under, toldRejected, promotions, mishaps>>
ingestVars == <<batch, seen, under>>
policyVars == <<current, promotions>>
approvalVars == <<approved, rejected, toldRejected>>

Decision == [obs : Observables, version : Versions, rung : Rungs,
             disposition : Dispositions, content : Contents]
Action == [seq : Nat, mode : {"SHADOW", "ENFORCE"},
           batch : Batches \cup {NoBatch}, content : Contents]

Points == {"idle", "start", "decide", "record", "demote", "create", "insert",
           "settle"}
Jobs == {"none", "ingest", "replay", "approve", "reject"}
LocalState ==
    [job : Jobs, pc : Points, batch : Batches \cup {NoBatch},
     todo : Seq(Observables), granted : Nat, budget : Budgets,
     content : Contents \cup {NoPolicy}, seq : Nat,
     mode : {"SHADOW", "ENFORCE"}]
Idle == [job |-> "none", pc |-> "idle", batch |-> NoBatch, todo |-> <<>>,
         granted |-> 0, budget |-> NoBudget, content |-> NoPolicy, seq |-> 0,
         mode |-> "SHADOW"]

-----------------------------------------------------------------------------
(* Operators.  A definition whose name ends in Bug is the next one with a    *)
(* plausible mistake in it.                                                  *)

(* evaluate(): the gates, then the rung.  NONE in Rung stands for a target   *)
(* that is allowlisted or below observe_m; a wildcard waits at L4.           *)
RungFor(c, o) ==
    IF ModeOf[c] = "OFF" \/ Rung[c][o] = "NONE" \/ o \notin Scope[c] THEN "NONE"
    ELSE IF ModeOf[c] = "OBSERVE" THEN "L0"
    ELSE IF o \in Wildcards THEN "L4" ELSE Rung[c][o]

(* evaluate(): the mode dispatch over that rung.                             *)
Disposition(c, o) ==
    IF RungFor(c, o) = "NONE" THEN "NO_ACTION"
    ELSE IF RungFor(c, o) = "L0" THEN "OBSERVE"
    ELSE IF ModeOf[c] = "SHADOW" THEN "SHADOW_ACTION"
    ELSE IF ModeOf[c] = "ENFORCE" /\ o \notin Wildcards THEN "AUTO_ENFORCE"
    ELSE "PROPOSE_OPERATOR_APPROVAL"

Row(c, o, d) == [obs |-> o, version |-> VersionOf[c], disposition |-> d,
                 rung |-> IF d = "DEMOTED" THEN "L0" ELSE RungFor(c, o),
                 content |-> c]

(* Neither the decision id nor its content hash covers the policy text: only *)
(* the version named inside it.                                              *)
SameInstance(r, s) == /\ r.obs = s.obs /\ r.version = s.version
                      /\ r.disposition = s.disposition /\ r.rung = s.rung
Instances(r) == {i \in 1..Len(decisions) : SameInstance(decisions[i], r)}

(* ON CONFLICT (decision_id, content_hash) DO NOTHING.                       *)
Recorded(r) == IF Instances(r) = {} THEN Append(decisions, r) ELSE decisions

(* decision_seq_for, after the insert.  NoBatch stands for None, what the    *)
(* insert itself returns for a decision already on record.                   *)
SeqForBug(r) == IF Instances(r) = {} THEN Len(decisions) + 1 ELSE NoBatch
SeqFor(r) == IF Instances(r) = {} THEN Len(decisions) + 1
                                  ELSE CHOOSE i \in Instances(r) : TRUE

(* The mode an action is persisted with: the posture of the policy in force  *)
(* when it is compiled, for a decision that may enforce, capped by the       *)
(* adapter.                                                                  *)
PostureBug(c, d) == IF ModeOf[c] = "ENFORCE" /\ AdapterMax = "ENFORCE"
                    THEN "ENFORCE" ELSE "SHADOW"
Posture(c, d) ==
    IF /\ ModeOf[c] = "ENFORCE" /\ AdapterMax = "ENFORCE"
       /\ d \in {"AUTO_ENFORCE", "PROPOSE_OPERATOR_APPROVAL"}
    THEN "ENFORCE" ELSE "SHADOW"

(* The documented posture ladder: at most one governed stage up.             *)
Ladder == [OFF |-> 0, OBSERVE |-> 1, SHADOW |-> 2, ENFORCE |-> 3]
LadderAllows(from, to) ==
    {from, to} \subseteq DOMAIN Ladder => Ladder[to] <= Ladder[from] + 1

BudgetUnder(c) == IF c = NoPolicy THEN NoBudget ELSE BudgetOf[c]

SpentBug(budget, granted) == budget # NoBudget /\ granted > budget
Spent(budget, granted) == budget # NoBudget /\ granted >= budget

Mishap == mishaps < MaxMishaps /\ mishaps' = mishaps + 1
Goto(t, pc) == thread' = [thread EXCEPT ![t].pc = pc]
Quit(t) == thread' = [thread EXCEPT ![t] = Idle]

(* Only automatic dispositions mint actions during ingest, and a decision    *)
(* already on record mints like a new one.                                   *)
MintsBug(r) == r.disposition \in Automatic /\ Instances(r) = {}
Mints(r) == r.disposition \in Automatic

(* What a raised error makes of the batch.                                   *)
MarkedFailedBug(t) == batch
MarkedFailed(t) == IF thread[t].job = "ingest"
                   THEN [batch EXCEPT ![thread[t].batch] = "failed"] ELSE batch

(* The indicators a replay walks through; it decides each on its own.        *)
Listed(S) == CHOOSE list \in [1..Cardinality(S) -> S] :
                 \A o \in S : \E i \in DOMAIN list : list[i] = o

(* The job goes on with its next observable, or ends with this one.          *)
NextObservable(t) ==
    IF thread[t].job = "ingest"
    THEN [thread[t] EXCEPT !.pc = "decide", !.todo = Tail(@),
                           !.content = NoPolicy, !.seq = 0, !.mode = "SHADOW"]
    ELSE Idle

-----------------------------------------------------------------------------
Init ==
    /\ batch = [b \in Batches |-> "none"]
    /\ seen = {}
    /\ decisions = <<>>
    /\ actions = {}
    /\ approved = {} /\ rejected = {} /\ toldRejected = {}
    /\ current \in InitialPolicies
    /\ thread = [t \in Threads |-> Idle]
    /\ under = [b \in Batches |-> NoPolicy]
    /\ promotions = 0
    /\ mishaps = 0

(* POST /ingest: the payload is persisted and its row queued; a replay of    *)
(* the same bytes is answered from the row and changes nothing.              *)
Accept(b) ==
    /\ batch[b] = "none"
    /\ batch' = [batch EXCEPT ![b] = "queued"]
    /\ UNCHANGED <<seen, decisions, actions, approvalVars, policyVars, thread,
                   under, mishaps>>

PromotePolicy(c) ==
    /\ promotions < MaxPromotions /\ c # current
    /\ current # NoPolicy => LadderAllows(ModeOf[current], ModeOf[c])
    /\ current' = c
    /\ promotions' = promotions + 1
    /\ UNCHANGED <<ingestVars, decisions, actions, approvalVars, thread, mishaps>>

-----------------------------------------------------------------------------
(* The ingest worker.                                                        *)

ClaimableBug(b) == batch[b] \in {"queued", "processing"}
Claimable(b) == batch[b] = "queued"
ClaimBatch(w, b) ==
    /\ thread[w].pc = "idle" /\ Claimable(b)
    /\ batch' = [batch EXCEPT ![b] = "processing"]
    /\ thread' = [thread EXCEPT ![w] = [Idle EXCEPT !.job = "ingest",
                      !.pc = "start", !.batch = b, !.todo = Payload[b]]]
    /\ UNCHANGED <<seen, decisions, actions, approvalVars, policyVars, under, mishaps>>

(* process_batch reads the budget once, from the policy in force.            *)
StartBatch(w) ==
    /\ thread[w].pc = "start"
    /\ thread' = [thread EXCEPT ![w].pc = "decide", ![w].budget = BudgetUnder(current)]
    /\ under' = [under EXCEPT ![thread[w].batch] = current]
    /\ UNCHANGED <<batch, seen, decisions, actions, approvalVars, policyVars, mishaps>>

FinishBatch(w) ==
    /\ thread[w].job = "ingest" /\ thread[w].pc = "decide" /\ thread[w].todo = <<>>
    /\ batch' = [batch EXCEPT ![thread[w].batch] = "complete"]
    /\ Quit(w)
    /\ UNCHANGED <<seen, decisions, actions, approvalVars, policyVars, under, mishaps>>

-----------------------------------------------------------------------------
(* decide_indicator, for the worker and for replay.                          *)

(* replay_policy takes the list of indicators, and refuses without a policy. *)
BeginReplay(p) ==
    /\ thread[p].pc = "idle" /\ current # NoPolicy /\ seen # {}
    /\ thread' = [thread EXCEPT ![p] = [Idle EXCEPT !.job = "replay",
                      !.pc = "decide", !.todo = Listed(seen)]]
    /\ UNCHANGED <<ingestVars, decisions, actions, approvalVars, policyVars, mishaps>>

(* The indicator is upserted (by ingest) and the active policy read; nothing *)
(* is decided without one.                                                   *)
Decide(t) ==
    LET o == Head(thread[t].todo) IN
    /\ thread[t].pc = "decide" /\ thread[t].todo # <<>>
    /\ seen' = seen \cup {o}
    /\ thread' = [thread EXCEPT ![t] =
           IF current = NoPolicy THEN [thread[t] EXCEPT !.todo = Tail(@)]
           ELSE [@ EXCEPT !.pc = "record", !.content = current]]
    /\ UNCHANGED <<batch, under, decisions, actions, approvalVars, policyVars, mishaps>>

(* record_decision, and what the batch does with the decision.               *)
RecordDecision(t) ==
    LET c == thread[t].content
        o == Head(thread[t].todo)
        r == Row(c, o, Disposition(c, o))
    IN
    /\ thread[t].pc = "record"
    /\ decisions' = Recorded(r)
    /\ thread' = [thread EXCEPT ![t] =
           IF thread[t].job = "replay" \/ ~Mints(r)
           THEN [thread[t] EXCEPT !.pc = "decide", !.todo = Tail(@), !.content = NoPolicy]
           ELSE IF Spent(thread[t].budget, thread[t].granted)
                THEN [@ EXCEPT !.pc = "demote"]
                ELSE [@ EXCEPT !.pc = "create", !.seq = SeqFor(r)]]
    /\ UNCHANGED <<ingestVars, actions, approvalVars, policyVars, mishaps>>

(* The budget is spent: the demoted decision is persisted instead.           *)
Demote(w) ==
    /\ thread[w].pc = "demote"
    /\ decisions' = Recorded(Row(thread[w].content, Head(thread[w].todo), "DEMOTED"))
    /\ thread' = [thread EXCEPT ![w] = NextObservable(w)]
    /\ UNCHANGED <<ingestVars, actions, approvalVars, policyVars, mishaps>>

EndReplay(p) ==
    /\ thread[p].job = "replay" /\ thread[p].pc = "decide" /\ thread[p].todo = <<>>
    /\ Quit(p)
    /\ UNCHANGED <<ingestVars, decisions, actions, approvalVars, policyVars, mishaps>>

-----------------------------------------------------------------------------
(* create_action_from_decision, for the worker and for an approval.          *)

(* The policy is read again, which once promoted is never withdrawn: its     *)
(* scope is checked, the fragment compiled and the posture fixed.            *)
Renders(o) == o \in Scope[current] \ Wildcards
Compile(t) ==
    LET r == decisions[thread[t].seq] IN
    /\ thread[t].pc = "create"
    /\ Renders(r.obs) => r.obs \in AdapterScope
    /\ thread' = [thread EXCEPT ![t] =
           IF Renders(r.obs) /\ AdapterMax \in {"SHADOW", "ENFORCE"}
           THEN [@ EXCEPT !.pc = "insert", !.mode = Posture(current, r.disposition)]
           ELSE NextObservable(t)]
    /\ UNCHANGED <<ingestVars, decisions, actions, approvalVars, policyVars, mishaps>>

(* A target outside the adapter's own scope makes the call raise.  The whole *)
(* batch is marked failed; an approval stands without actions.               *)
CompileRaises(t) ==
    LET r == decisions[thread[t].seq] IN
    /\ thread[t].pc = "create"
    /\ Renders(r.obs) /\ r.obs \notin AdapterScope
    /\ batch' = MarkedFailed(t)
    /\ Quit(t)
    /\ UNCHANGED <<seen, under, decisions, actions, approvalVars, policyVars, mishaps>>

(* record_action: one action per decision instance and rule, for ever.       *)
InsertAction(t) ==
    LET taken == \E a \in actions : a.seq = thread[t].seq
        next == NextObservable(t)
    IN
    /\ thread[t].pc = "insert"
    /\ actions' = IF taken THEN actions ELSE actions \cup
           {[seq |-> thread[t].seq, mode |-> thread[t].mode,
             batch |-> thread[t].batch, content |-> thread[t].content]}
    /\ thread' = [thread EXCEPT ![t] =
           IF taken \/ thread[t].job # "ingest" THEN next
           ELSE [next EXCEPT !.granted = @ + 1]]
    /\ UNCHANGED <<ingestVars, decisions, approvalVars, policyVars, mishaps>>

-----------------------------------------------------------------------------
(* Operators.                                                                *)

Settled == approved \cup rejected

(* approve_decision's checks: a proposal, not settled, made under the policy *)
(* content that is still the active one.                                     *)
BeginApprove(p, s) ==
    /\ thread[p].pc = "idle" /\ s \notin Settled
    /\ decisions[s].disposition = "PROPOSE_OPERATOR_APPROVAL"
    /\ decisions[s].content = current
    /\ thread' = [thread EXCEPT ![p] = [Idle EXCEPT !.job = "approve",
                      !.pc = "settle", !.seq = s, !.content = current]]
    /\ UNCHANGED <<ingestVars, decisions, actions, approvalVars, policyVars, mishaps>>

BeginReject(p, s) ==
    /\ thread[p].pc = "idle" /\ s \notin Settled
    /\ decisions[s].disposition = "PROPOSE_OPERATOR_APPROVAL"
    /\ thread' = [thread EXCEPT ![p] = [Idle EXCEPT !.job = "reject",
                      !.pc = "settle", !.seq = s]]
    /\ UNCHANGED <<ingestVars, decisions, actions, approvalVars, policyVars, mishaps>>

(* record_approval: the unique index lets the first outcome in.              *)
OpenForBug(s) == s \notin rejected
OpenFor(s) == s \notin Settled
Approve(p) ==
    LET s == thread[p].seq IN
    /\ thread[p].job = "approve" /\ thread[p].pc = "settle"
    /\ IF OpenFor(s)
       THEN approved' = approved \cup {s} /\ Goto(p, "create")
       ELSE UNCHANGED approved /\ Quit(p)
    /\ UNCHANGED <<ingestVars, decisions, actions, rejected, toldRejected,
                   policyVars, mishaps>>

(* reject_decision does not look at record_approval's answer.                *)
Reject(p) ==
    LET s == thread[p].seq IN
    /\ thread[p].job = "reject" /\ thread[p].pc = "settle"
    /\ rejected' = IF OpenFor(s) THEN rejected \cup {s} ELSE rejected
    /\ toldRejected' = toldRejected \cup {s}
    /\ Quit(p)
    /\ UNCHANGED <<ingestVars, decisions, actions, approved, policyVars, mishaps>>

-----------------------------------------------------------------------------
(* The process dies or loses the database: the thread is gone, and whatever  *)
(* it has written stays as it is.                                            *)
Crash(t) ==
    /\ thread[t].pc # "idle" /\ Mishap
    /\ Quit(t)
    /\ UNCHANGED <<ingestVars, decisions, actions, approvalVars, policyVars>>

(* A statement raises while the batch is processed: it is marked failed.     *)
(* One that raises as the budget is read, or with the database gone, leaves  *)
(* the row as a crash does.                                                  *)
FailBatch(w) ==
    /\ thread[w].job = "ingest" /\ thread[w].pc # "start" /\ Mishap
    /\ batch' = MarkedFailed(w)
    /\ Quit(w)
    /\ UNCHANGED <<seen, under, decisions, actions, approvalVars, policyVars>>

Work(t) ==
    \/ Decide(t) \/ RecordDecision(t) \/ Demote(t)
    \/ Compile(t) \/ CompileRaises(t) \/ InsertAction(t)

WorkerStep(w) ==
    \/ \E b \in Batches : ClaimBatch(w, b)
    \/ StartBatch(w) \/ FinishBatch(w) \/ Work(w)

OperatorStep(p) ==
    \/ BeginReplay(p) \/ EndReplay(p) \/ Work(p)
    \/ \E s \in 1..Len(decisions) : BeginApprove(p, s) \/ BeginReject(p, s)
    \/ Approve(p) \/ Reject(p)

Next ==
    \/ \E b \in Batches : Accept(b)
    \/ \E c \in Contents : PromotePolicy(c)
    \/ \E w \in Workers : WorkerStep(w) \/ FailBatch(w)
    \/ \E p \in Operators : OperatorStep(p)
    \/ \E t \in Threads : Crash(t)

Spec == Init /\ [][Next]_vars

(* The ingest loop polls for ever and swallows what a batch raises, so a     *)
(* live worker that can take a step takes it.                                *)
FairSpec == Spec /\ \A w \in Workers : WF_vars(WorkerStep(w))
-----------------------------------------------------------------------------
TypeOK ==
    /\ batch \in [Batches -> {"none", "queued", "processing", "complete", "failed"}]
    /\ seen \in SUBSET Observables
    /\ decisions \in Seq(Decision)
    /\ actions \in SUBSET Action
    /\ approved \in SUBSET Nat /\ rejected \in SUBSET Nat
    /\ toldRejected \in SUBSET Nat
    /\ current \in Contents \cup {NoPolicy}
    /\ thread \in [Threads -> LocalState]
    /\ under \in [Batches -> Contents \cup {NoPolicy}]
    /\ promotions \in Nat /\ mishaps \in Nat

(* An action enforces only under a decision that may: never under one the    *)
(* policy recorded as shadow, and never under a proposal nobody approved,    *)
(* whatever was promoted between the decision and its compilation.           *)
ActionsAreAuthorized ==
    \A a \in actions :
        LET d == decisions[a.seq].disposition IN
        /\ d \in Automatic \cup {"PROPOSE_OPERATOR_APPROVAL"}
        /\ d = "SHADOW_ACTION" => a.mode = "SHADOW"
        /\ d = "PROPOSE_OPERATOR_APPROVAL" => a.seq \in approved

(* The blast radius: a batch mints at most as many actions as the budget it  *)
(* was run under, whoever else mints, promotes or fails meanwhile.           *)
BudgetHolds ==
    \A b \in Batches :
        LET budget == BudgetUnder(under[b]) IN
        budget # NoBudget => Cardinality({a \in actions : a.batch = b}) <= budget

(* A batch reported complete has a decision for every observable in it, if   *)
(* there was a policy when it started; and, while no policy is promoted, an  *)
(* action or a demotion for every one that deserves an action the adapter    *)
(* can render, whatever replays and died before it.                          *)
DecidedAs(o, d) == \E s \in 1..Len(decisions) :
                       decisions[s].obs = o /\ decisions[s].disposition \in d
CompleteIsHandled ==
    \A b \in Batches : batch[b] = "complete" /\ under[b] # NoPolicy =>
        \A i \in 1..Len(Payload[b]) :
            LET o == Payload[b][i] IN
            /\ DecidedAs(o, Dispositions)
            /\ /\ promotions = 0 /\ AdapterMax \in {"SHADOW", "ENFORCE"}
               /\ Disposition(current, o) \in Automatic /\ o \notin Wildcards
               => \/ \E a \in actions : decisions[a.seq].obs = o
                  \/ DecidedAs(o, {"DEMOTED"})

(* Approvals are one-shot and only approved proposals are acted on.          *)
IsProposal(s) == decisions[s].disposition = "PROPOSE_OPERATOR_APPROVAL"
Contract == INSTANCE ProposalContract WITH
    proposed <- {s \in 1..Len(decisions) : IsProposal(s)},
    approved <- approved,
    rejected <- rejected,
    acted <- {s \in 1..Len(decisions) : IsProposal(s) /\ \E a \in actions : a.seq = s}
ImplementsProposals == Contract!Spec

(* Every queued batch is settled, unless a thread has died or a statement    *)
(* has raised.                                                               *)
BatchesSettle ==
    \A b \in Batches :
        batch[b] \in {"queued", "processing"} ~>
            batch[b] \in {"complete", "failed"} \/ mishaps > 0

(* process_batch: a crash leaves the row processing, so the retry resumes.   *)
(* A batch that is being processed is eventually settled, crash or not.  TLC *)
(* refutes this and the two properties below: see the README, Findings.      *)
BatchesResume ==
    \A b \in Batches :
        batch[b] = "processing" ~> batch[b] \in {"complete", "failed"}

(* reject_decision: the decision instance can never be approved afterwards.  *)
RejectionIsDurable == toldRejected \cap approved = {}

(* record_action cites the exact decision instance that authorized it: what  *)
(* is minted from a decision under a policy text cites a row bound to that   *)
(* text, or the approval and the dispatch of it are refused.                 *)
ActionsCiteTheirPolicy ==
    \A a \in actions : decisions[a.seq].content = a.content
=============================================================================
