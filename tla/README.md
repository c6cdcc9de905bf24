# APIP: a TLA+ verification of the defensive control plane

APIP turns threat indicators into DNS controls.  It decides deterministically
from a policy, records every decision in a Postgres ledger, and lets controller
processes apply, verify, expire and withdraw the resulting rules in adapter
artifacts (a BIND response-policy zone, Suricata rules).  Local telemetry adds
evidence of its own: a tail of Suricata's EVE log feeds behavioral detectors,
and a sweep attaches what they detect to known indicators.  A second,
independent implementation of the evaluation serves as an oracle.  This
directory holds TLA+ modules for the parts that keep state or decide and are
hard to test, TLC configurations for small instances of them, and TLAPS proofs
about each of these parts that hold for every instance.  Paths below are relative
to the repository's package, `src/src/apip/`, unless they say otherwise.

- [Inventory](#inventory): parts, state, operations, hard behaviours
- [Modules](#modules): how each module corresponds to the code
- [Runs](#runs): what each configuration checks, its bounds and fairness
- [Findings](#findings): where the code and its comments disagree
- [Proofs](#proofs): what is proved, and how
- [Limits](#limits): what is only model-checked, and what is not modelled
- [Plan](#plan): what comes next

`PROJECT.json` lists the components, the hazards with the line of code each one
bites at, the runs, the theorems, the source lines every definition models, and
for every property a mutated definition under which it fails.

## Inventory

| part | state | operations |
|---|---|---|
| actuation core, `controller/service.py`, `ledger/repo.py` | `actions` rows (state, desired_state, expires_at, last_reconciled_at), `controller_leases` | dispatch pass, reconcile pass (requeue, retry removals, desired-absent sweep, policy recheck, expiry, verify), operator revoke, lease acquire and release |
| decision ledger, same files, and `controller/engine.py` | `ingest_batches`, `decisions`, `decision_approvals`, `actions` (creation) | accept, claim, process a batch; decide; compile to actions; replay; approve; reject |
| DNS RPZ adapter, `adapters/rpz.py` | live and shadow zone files, their SOA serials, lock files | compile, validate, apply, revoke, verify, get_state, health |
| Suricata exporter, `adapters/suricata.py` | one rules file, its temporary file, the process's SID cache | the same interface; ENFORCE refused |
| policy evaluation, `decision/policy.py`, `scoring.py`, `rng.py` | none | gates, scores, rung selection, disposition, presence recheck |
| tenant overlays, `decision/layer.py`, `ledger/repo.py`, `controller/engine.py` | `tenant_overlays` rows | stage, remove, merge into the global policy at every decision and recheck |
| policy documents, `decision/loader.py`, and the reference's `policy.py` | none | validate, build the policy |
| policy lifecycle, `ledger/repo.py`, `api/app.py`, `cli/main.py` | `policy_versions` | stage, promote, list |
| behavioral detectors, `telemetry/behavioral.py` | eight bounded tables, a degraded flag each | observe, age, degrade |
| behavioral feed, `telemetry/feed.py`, and the sweep in `controller/service.py` | retained detections, parked ones by target | fold, retain, drain, park, attach |
| EVE tail, `telemetry/sources/suricata_eve.py` | offset and inode, in memory and on disk | poll, resume, rotate |
| ingest parsing, `ingest/` | none | parse, normalize, bind the source to its channel |
| source registry and credentials, `registry/`, `auth/` | `sources`, `credentials` | lookups, enable and disable |
| HTTP API and command line, `api/app.py`, `cli/main.py` | none of their own | call the operations above |
| database pool, `ledger/db.py` | the pool | open, borrow, discard, rebuild |
| migrations and audit chain, `ledger/migrations.py` | schema, `audit_log` hashes | migrate, chain, verify |
| configuration, metrics, `config/`, `ops/` | none | read at start; render |
| interop exports, `interop/` | none | render OpenC2, CACAO, OCSF |
| attribution, `attribution*.py` | none | offline clustering for analysts |
| reference oracle, `reference/src/apip/` of the repository: `cli.py`, `policy.py`, `adapters/` | an output directory: decisions, zone, rules, receipts | the evaluate command: load, observe, fold, judge, budget, compile, write |
| reference capture and attribution, the rest of `reference/` | captures and reports for analysts | capture, cluster, render |
| lab, `lab/` of the repository | none | a demonstration and a release's acceptance test |

**How they interact.**  A source posts a batch; the API stores it as `queued`
and returns.  Each controller process runs an ingest loop, a dispatch loop and
a reconcile loop beside its API threads.  The ingest loop claims a queued batch
by a compare-and-set, evaluates every observable under the active policy,
appends a decision, and compiles automatic decisions into `pending` actions.
Under EMERGENCY a decision is only a proposal: an operator approves it (which
compiles it) or rejects it.  The dispatch and reconcile loops act only while
their process holds the lease row.  Dispatch claims a pending row by a
compare-and-set, checks that the active policy still authorizes it, and calls
the adapter; reconcile repairs everything else.  All that couples the threads
is the ledger, in autocommit, and the artifact files, the zones under a thread
lock and a file lock, the ruleset under none.  Nothing couples the ledger with
the artifacts.  An EVE thread tails Suricata's log, folds each line into the
detectors and saves its offset; what they detect waits in the feed's memory for
the reconcile thread, which attaches it to the indicator it is about, if the
ledger has one, and decides that indicator again.  Those two threads share the
feed without a lock.  The reference implementation shares no code and no state
with any of this: it reads a policy and a file of indicators and writes files.

**What is hard about it.**  Every handler is a sequence of committed statements
and adapter calls, with values it read earlier in hand.  A process may stop
between any two; another thread, process or operator may act between any two;
every lease can expire in the middle of a pass, because it is renewed once per
pass.  Removal must win over all of that: intent is committed first, the rule
is withdrawn afterwards, and whatever failed is repaired by a later pass.  In
the ingest path the same observable may be decided by a worker and a replay at
once, under a policy that is being promoted.  In the adapter whole files are
rewritten from copies, by several processes, and a resolver loads them only if
a 32-bit serial has advanced in wrapping order.  The ruleset is rewritten from
copies too, through one temporary file of a fixed name and without a lock.  The
tail reads a file that another program rotates, truncates and leaves torn, and
resumes after a crash from what it saved.  The detectors promise things about
windows of observations whose clock may step back, from tables that overflow.
And two evaluators written apart, one over sets and one over loops, must give
one verdict.

**What makes each part correct.**

- *Actuation core*: intent goes from PRESENT to ABSENT and never back; an
  ABSENT row is never applied again; no rule is withdrawn without a durable
  intent; a row reported verified is enforced; every removal, expiry and policy
  withdrawal ends, whatever fails on the way.
- *Decision ledger*: an action enforces only what its decision authorized; a
  batch mints at most its budget; a complete batch left nothing unhandled; a
  proposal is settled once, by one operator, for good.
- *RPZ adapter*: every call takes effect atomically on the one artifact its
  posture selects; a shadow rule never changes an answer; a reload that
  succeeded makes the resolver serve the generation that was written.
- *Policy and overlays*: an overlay never authorizes what the global policy
  forbids; what evaluation authorizes, the presence recheck keeps.
- *Policy documents*: the controller and the reference refuse the same
  documents, and make the same policy of the others.
- *Suricata exporter*: file and ledger agree; no rule is broader than the
  decision it stands for; a removal survives restarts, and postures that would
  not publish the rule today.
- *Detectors*: a bound costs detections and never adds one; what a detection
  says is true of the observations; one behavior is reported once.
- *Feed and tail*: no line is skipped; a detection is attached, waiting, or
  counted; the tail and the sweep make progress.
- *Reference oracle*: it agrees with the controller; annotations move nothing;
  both budgets hold over a whole file; what a finished run leaves behind attests
  itself, whatever runs were there before it.
- *Pool, audit chain*: a failure of one connection closes no other; an untouched
  log verifies.

## Modules

| module | models | kind |
|---|---|---|
| `ActionLifecycle` | the actuation core | detailed |
| `ControlContract` | what it promises about every control | abstract |
| `DecisionLedger` | batches, decisions, approvals, creation of actions | detailed |
| `ProposalContract` | what approvals promise | abstract |
| `RpzAdapter` | apply and revoke on the two zone artifacts, the resolver | detailed |
| `ArtifactContract` | atomic publishing and withdrawing of names | abstract |
| `PolicyGates` | policy evaluation: evidence, scores, gates, ladder, presence recheck | operators |
| `TenantOverlay` | overlays and global policies around one indicator's decision and control | detailed, extends `PolicyGates` |
| `SuricataExporter` | compile, apply and revoke on the ruleset, SIDs, restarts | detailed |
| `Detectors` | each of the eight detectors beside its unbounded twin | detailed |
| `BehavioralFeed` | the log, the tail, the feed, the attachment sweep | detailed |
| `PolicyDocuments` | both loaders: validation and the policy built | operators, extends `PolicyGates` |
| `ReferenceOracle` | the reference's evaluation | operators, extends `PolicyDocuments` |
| `ReferenceBatch` | the reference's evaluate command, run after run | detailed, extends `ReferenceOracle` |
| `ActionLifecycleProofs`, `DecisionLedgerProofs`, `RpzAdapterProofs`, `TenantOverlayProofs`, `SuricataExporterProofs`, `DetectorsProofs`, `BehavioralFeedProofs`, `ReferenceBatchProofs` | theorems | proofs |
| `MCActionLifecycle`, `MCDecisionLedger`, `MCRpzAdapter`, `MCTenantOverlay`, `MCSuricataExporter`, `MCDetectors`, `MCBehavioralFeed`, `MCReferenceBatch` | instances for TLC | model checking |

An operator whose name ends in `Bug` stands before the definition it spoils and
is used by nothing: it is that definition with a plausible mistake, and the
mutants in `PROJECT.json` put it in the other's place to show that a run would
notice.

### ActionLifecycle

One step is one committed SQL statement, one adapter call or one lease
exchange.  Each controller has a dispatch and a reconcile thread, and those in
`ApiServers` an operator thread.  What a thread has read and will use later is
its local record: the snapshot it walks (`todo`), the row in hand (`item`), the
outcome still to be written (`result`).

| code | action |
|---|---|
| `record_action` | `RecordAction` |
| `record_decision`: another row of the decision an action rests on | `Redecide` |
| `_dispatch_pass`, `_reconcile_pass`: acquire the lease | `StartPass` |
| the SELECT that opens each phase of a pass | `FetchPhase` (the sets `StuckDispatching`, `StuckRemoving`, `DesiredAbsentActive`, `DueForExpiry`, ...) |
| `claim_pending_action`, `unclaim_action`, `claim_stuck_removal` | `Claim`, `Unclaim`, `RetryStuck` |
| `_dispatch_one`: stale authorization, apply, verify, record | `Authorize`, `ApplyOk`, `ApplyFails`, `VerifyApplied`, `Record` |
| policy recheck and the start of a removal | `Reauthorize`, `RequestRemoval` |
| `_remove_action`: co-owners, adapter revoke, outcome | `CheckCoOwners`, `RevokeOk`, `RevokeFails`, `Record`, `Retry` |
| `verify` sweep | `VerifySweep` |
| `revoke_action` | `OperatorReads`, `RequestRemoval`, `OperatorLease`, `Abandon` |
| exceptions out of a pass, process death | `Abort`, `Crash` |
| TTL, stale window, lease expiry | `FallDue`, `Age`, `DeadLeaseExpires`, `LiveLeaseExpires` |
| promotion | `PromotePolicy` |

Abstractions.  `last_reconciled_at` is the set `aged` of rows older than the
stale window: writing the column takes a row out, `Age` puts it in, and unless
`SlowWorkers` is set it does so only when no live thread has the row in hand:
a call outlasts the window only with its thread.  `verified_at` and its cadence are "any subset of the active rows".
The LIMIT of each query is not modelled: a pass sees all rows that qualify.
`permits` is the set of rows `policy_allows_presence` accepts under the active
policy; a promotion replaces it by any set.  Two rows with one `RuleOf` are two
actions with the same adapter, rule id and artifact.  Attempts, receipts and
audit rows are written and never read by control, and are left out.  The
artifact changes only through the adapter.  A process that crashes comes back
with a new leader id, so the lease of its former self must run out first.

### DecisionLedger

A thread is an ingest worker or an operator's API thread; its record holds the
job, the observables still to do, the budget used so far, and the policy text
read last.  The handlers are cut at every point where another thread can make a
difference: `ClaimBatch`, `StartBatch`, `Decide` (evaluate under the policy
read now), `RecordDecision` (deduplicated on the decision's identity),
`Demote` (over budget), `Compile` (the policy is read again), `CompileRaises`
(an observable outside the adapter's own scope), `InsertAction` (deduplicated),
`FinishBatch`, `FailBatch`; `BeginReplay`, `EndReplay`; `BeginApprove`,
`Approve`, `BeginReject`, `Reject`; `Accept`, `PromotePolicy`, `Crash`.

`Rung` gives the rung that scoring selects for each observable under each
policy text, and stands for the scores; `Disposition` is the mode dispatch of
`evaluate()`.  A policy text has a version string, a mode, a scope and a budget;
two texts may carry one version, since a revision may.  Evidence is fixed,
tenants share the global policy, one adapter renders one rule for a decision,
and the order in which queued batches are claimed is open.

### RpzAdapter

`BeginApply` and `BeginRevoke` start a call; `ReadArtifact` takes both locks
(one mutex here) and reads the whole file; `WriteArtifact` or `WriteFails` ends
the critical section (a revoke that finds nothing skips it); `Reload` and
`ReloadFails` follow for a live rule, outside the locks; `FinishRevoke` and
`RevokeUnverified` are the check at the end of a revoke.  `ResolverLoads` is
the resolver acting on a reload: it takes the generation if the serial is newer
in RFC 1982 order (external, modelled from what the adapter relies on).
`Restart` is a process that dies wherever its threads are and comes back under
another `rpz_mode`.  `zone` is the set of names in each file and its
serial, counted modulo `SerialMod`.  compile, validate, verify, get_state and
health only read or refuse.

### PolicyGates

`Evaluate(p, n, e)` is `evaluate()` for a policy, a target and its records,
built of the functions it is built of: `Bearing`, `Deduplicated` and
`Enveloped` are `_decision_bearing_evidence`, `dedup_evidence` and
`_bounded_evidence` in that order; `Maliciousness`, `SafetyInContext` and
`SafetyOfAddress` are the three scores with every exclusion (stale records,
control-plane facts the controller cannot vouch for, corroboration claims
without the upstreams, the behavioral cap); `DenyAllowed`, `Candidates`,
`Gated` and `SelectRung` are the ladder; `InScope` and `Allowlisted` are the
authorization gates, and `AllowsPresence` is the recheck
`policy_allows_presence`, which repeats some of them for a control that is live.
The weights are a constant; the instances use the shipped table.

What the module takes for granted: a boundary entry's relation to names
(`Below`, a transitive order: suffixes and subnets) and a record's class, kind,
family and upstream are given.  Left out: TTL and rate-ceiling jitter, which no
gate reads; the vote for the most frequent client, of which only "some client"
matters to a rung; allowlist expiries that do not parse; `fqdn_auto_m` and the
five thresholds like it, which are loaded, validated and merged, and read by
nothing (the rung floors decide).

### TenantOverlay

| code | action |
|---|---|
| `promote_policy` | `Promote` |
| `stage_tenant_overlay`, `delete_tenant_overlay` | `StageOverlay`, `RemoveOverlay` |
| evidence ingested for the indicator | `Report` |
| `decide_indicator` | `DecideIndicator` |
| `create_action_from_decision` | `CreateAction` |
| `_dispatch_one` with `_stale_authorization` | `Apply`, `Cancel` |
| step 0c of the reconcile pass | `Keep`, `Withdraw` |

`Merge` is `merge_policy_overlay`, field by field (`StricterMode`, `Narrow`,
`RaiseFloors`, `Governed`); `Effective` is the policy every one of these
handlers loads.  An overlay's omitted fields have the defaults of
`build_overlay`.  The flag `current` records that no policy has moved since a
decision or a recheck and is read by the properties only: a live control may be
wrong in between, and the reconciler finds it at its next pass.  One indicator
and one control at a time suffice, because no handler here relates two.  The
adapters' cap is one constant, where the Suricata exporter's is SHADOW.

### SuricataExporter

| code | action |
|---|---|
| `compile` with `_next_sid`, and `record_action` | `Compile` |
| `_dispatch_one`: `validate`, the posture check of `apply` | `BeginApply` |
| desired state ABSENT, by whatever cause | `Unwant` |
| `_remove_action`: `validate` without the scope check | `BeginRevoke` |
| `_read_rules`; `_write_rules`: open and truncate, write and close, `os.replace` | `Read`, `OpenTmp`, `FillTmp`, `Replace` |
| `verify` after an apply, the re-read at the end of `revoke` | `Check` |
| the sweeps over stuck rows | `Sweep` |
| process death and start under another posture and home net | `Restart` |

Files are inodes, because two writers of one temporary file can each hold it
open while it is renamed.  Lines have equal length.  The ledger is reduced to the
stage of a row, and its claims to "no thread is in that row's call"; what happens
around a call is in `ActionLifecycle`.  `Unwant` asks no reason.  `apply` reads
the ruleset twice and uses one of the two readings (the first if it is empty, else
the second) and does nothing in between, so `Read` is one step.

### Detectors

One detector runs on a stream of observations, and a twin with no bound runs on
the same stream; `Fold` is the `observe()` of the enabled family.  `Beacon`,
`Novelty`, `Dga`, `Tunnel`, `FastFlux`, `Volume`, `Tls` and `Sync` are the eight
classes, with their re-emission rules, resets and ageing.  A stream's clock may
step back, and a beacon's observation may carry two instants that disagree.
Entropy is the band its value falls in; thresholds are constants, at small
values.  `evict_oldest`, which nothing calls, is left out.

### BehavioralFeed

| code | action |
|---|---|
| Suricata writing, rotating, truncating its log | `WriteLine`, `CompleteLine`, `Rotate`, `Truncate` (external) |
| `process_available`: stat and where to resume; open and seek | `BeginPass`, `OpenLog` |
| one line: convert, fold (`Fold`) and `_retain` | `FoldLine` |
| a line that raises, before it is folded or after | `PassRaises` |
| the end of a pass and `_save_checkpoint` | `EndPass` |
| ingest of an indicator | `Ingest` |
| `_attach_behavioral_evidence`: the map of indicators, `_pending_gc`, the copy | `StartSweep` |
| `_drain_pending_matches`: the clear, parking, waking | `Drain` |
| one record: the evidence row, `decide_indicator` | `Persist`, `Decide` |
| process death; time for what is parked | `Crash`, `Age` |

A line counts one unit of offset, and a torn line half a unit of size.  An event
line fires one detection with the line's number; whether and when a detector
fires is the business of `Detectors`.  Two kinds of line raise: a flow whose byte
count is not a number raises before the feed sees it (`poison`), a DNS record whose
answer has no numeric ttl after its query has been folded (`answer`), so it may fire a
detection at every poll.  The file opened may not be the one stat saw: what is
read of it is then saved under the inode of the other.  `folded`, `lost` and `skipped` are history
variables that no action reads.

### PolicyDocuments, ReferenceOracle

`Problems` is `validate_policy` of the controller, check by check, and `Build`
its `build_policy`.  `Refused` and `LoadPolicy` are the reference's loader, from
its own code: problems by section, among them the features it announces as not
implemented.  `Judge` is the reference's `evaluate`, from its own code as well:
its strip, deduplication and envelope (`View`), its authorization and allowlist
gates, its tallies and caps (`Scores`), its ladder (`Climb`) and its mode
dispatch (`Dispose`).  It makes shorter and shorter lists of records,
as its loops do, where `PolicyGates` keeps sets of their indices; the two modules
share the registry of sources because the code does.
A document names its mechanisms of randomization, each with a range and a switch:
both loaders refuse an unsupported one even if it is off, and look at the ranges of
those that are on (`SwitchedOn`).

### ReferenceBatch

| code | action |
|---|---|
| the loaders, and the refusals before anything runs | `Load` |
| the behavioral pass over the contact log | `Observe` |
| detections into evidence | `FoldDetections` |
| evaluation, the replay guard, the blast-radius budget | `JudgeNext` |
| the challenge budget | `KeepChallenges` |
| the compilers and the four files, in order | `Write` |
| process death at any point; the command again, into the same directory | `Crash`, `Rerun` |

Each file is replaced as a whole.  Order by hash is a choice, and so is the
value of a keyed draw within its range.

### Abstract specifications

`ControlContract` has an intent, a set of controls open for dispatch and a set
of published rules; intent is monotone, closing is final, withdrawal needs
ABSENT.  `ActionLifecycle` maps `desired_state` to the intent and the states
pending and dispatching to "open".  `ArtifactContract` publishes and withdraws
single names in one step; `RpzAdapter` maps each file to the names in it, so
the mapping fails as soon as a publish overwrites another with an old copy.
`ProposalContract` settles a proposal at most once and turns only approved ones
into actions; `DecisionLedger` maps its rows to it by their `seq`.

## Runs

| run | module | checks | distinct states |
|---|---|---|---|
| `lifecycle_ha` | `MCActionLifecycle` | `TypeOK`, `AbsentNeverReapplied`, `RemoverHasIntent`, `VerifiedIsEnforced`, `ImplementsContract` | 925,000 |
| `lifecycle_converges` | `MCActionLifecycle` | `AbsentConverges`, `ActionsLeaveQueue`, `ExpiredControlsLeave`, `ForbiddenControlsLeave` | 165,000 |
| `rpz_artifacts` | `MCRpzAdapter` | `TypeOK`, `ShadowNeverServed`, `ReloadPropagates`, `LiveLeavesByEnforceRevoke`, `ImplementsArtifacts` | 488,000 |
| `ledger_ingest` | `MCDecisionLedger` | `TypeOK`, `ActionsAreAuthorized`, `BudgetHolds`, `CompleteIsHandled` | 2,240,000 |
| `ledger_proposals` | `MCDecisionLedger` | `ImplementsProposals`, `BatchesSettle` | 318,000 |
| `tenant_overlay` | `MCTenantOverlay` | `TypeOK`, `LiveWithinGlobal`, `OverlayNeverStrengthens`, `AnnotationsNeverDeny`, `CancelledHasCause` | 347,000 |
| `suricata_rules` | `MCSuricataExporter` | `FileMatchesLedger`, `NeverBroadens`, `RemovalsSettle` | 127,000 |
| `detectors` | `MCDetectors` | `NeverInflates`, `AlertsAreJustified`, `AlertsAreFresh` | 579,000 |
| `behavioral_feed` | `MCBehavioralFeed` | `TypeOK`, `CheckpointIsFolded`, `DetectionsConserved`, `TailCatchesUp`, `ParkedIsAttached` | 536,000 |
| `oracle` | `MCReferenceBatch` | `AgreesWithProduction`, `AnnotationsNeverMove`, `BudgetsHold`, `OutputsAttested` | 8,494 |

The other two runs, `revoke_of_pending` and `feed_loss`, are in
[Findings](#findings): each ends in a counterexample.

**lifecycle_ha.**  Two controllers, one of which serves operators, one row,
one mishap (a failing adapter call, a crash, an aborted pass or a live lease
lost).  It shows that durable intent holds across two processes that both
believe they lead.  Two controllers are enough for any race over one row
because every step reads and writes one row; the proof of `KeepsContract` does
not use the bound.  The row may expire; promotions are left to the next run.

**lifecycle_converges.**  One controller that may crash and come back, one
promotion, one mishap, under `FairSpec`.  It shows that repairs do converge:
what any thread wrote over a removal intent, step 0b of the next reconcile pass
takes up again.  Fairness is weak, per thread, on "start a pass or take the
next step of it": the loops are `while not stop` with a timed wait and swallow
what a pass raises.  It is weak on `Age` and on the expiry of a dead
controller's lease, because time passes.  Operators, promotions, crashes and
failing calls owe nothing.  Liveness with two controllers is not checked: it
would need the assumption that leadership does not alternate for ever.

**rpz_artifacts.**  Two processes with one thread each, two names, four calls,
one failing write, failing reload or restart, serials modulo 16 that start at
14 and therefore wrap.  Half the serial range (8) exceeds the number of calls,
as 2^31 exceeds what a resolver can miss.  The run stops when its calls are
spent, so `CHECK_DEADLOCK` is off.  Names are interchangeable (symmetry).

**ledger_ingest.**  Two workers and one operator; two batches that share an
observable, one of which also has a wildcard; an enforcing text with a budget
of one and a shadow text of narrower scope, either of them active first; one
promotion, one death.  Two is the number of threads that can meet on one
decision identity or one batch; a budget of one is exceeded by the second
action.  Threads of one kind are interchangeable (symmetry).

**ledger_proposals.**  One worker and two operators; a batch with an observable
outside the adapter's scope, for which compilation raises; no policy or an
EMERGENCY text first, and an enforcing text to promote.  The worker is weakly
fair, because the ingest loop polls for ever and swallows what a batch raises.
The ledger rests when every batch is settled and the bounds are spent, so
`CHECK_DEADLOCK` is off in all runs of this module.

**tenant_overlay.**  Four global policies (enforcing; enforcing with a deeper
boundary, an expired allowlist entry and a small envelope; shadow and open, with
a live allowlist entry; emergency), three overlays (a threshold-only one; one
that tries to loosen everything; one that narrows the boundary and the mode), a
target of each kind the gates tell apart (a domain inside the boundary, one
outside, a wildcard, an address), and up to three records from curated, local
and annotation sources, fresh and stale.  Three records are what the ladder
needs at most (two qualified sources and a detection, or a dedicated-use fact
under an address deny), and they pass the small envelope of two.  Texts and
records are any values of their types in the proofs.  Nothing in it is
temporal, so no fairness is assumed.

- `LiveWithinGlobal`: a live control rechecked since the last change is one the
  global policy itself would leave in place.  `Clampable` says of which global
  policies: see the next section for the rest.
- `OverlayNeverStrengthens`: the tenant's decision is no stronger in disposition
  or rung than the global one on the same records.  "The same records" matters:
  an overlay may add behavioral families and shorten the envelope, and either
  can change which records count.  So does the cap: a global
  `max_behavioral_m_contribution` above the fixed 92 is lowered to 92 by
  corroboration, and an overlay that asks for more families leaves it higher.
- `AnnotationsNeverDeny`: records of sources without authority change no denial
  by number, order or content.  They can change L1 and L2: the client and
  protocol of `_observation_context` are voted from every stored row, although
  `policy.py` says of these records that "their quantity/order/size can never
  touch the decision".
- `CancelledHasCause`: the gates of `evaluate()` and the recheck at dispatch
  agree.  Were the recheck stricter than the evaluation, every decision would
  mint an action that dispatch cancels, again and again.

**suricata_rules.**  Two threads; two denies of addresses whose hashes are
neighbours, and a rate limit scoped to a client on an address; two SIDs, so that
the hashes collide; three calls and one restart, under OFF or SHADOW and with a
home net that keeps or drops an address.  Two threads are enough to interleave
the steps of two writers, and the restart empties the SID cache between a
compilation and the next.  Fairness is weak on the reconcile loop's removals and
on the steps of a call that runs; dispatch, compilation and restarts owe nothing.
Calls run out, so `CHECK_DEADLOCK` is off.

- `FileMatchesLedger` holds while no two writers have overlapped and no SID is
  shared, through every crash and restart; what happens otherwise is in the next
  section.
- `NeverBroadens`: `compile` lets an address that is scoped to a client pass, and
  only `validate` keeps it from becoming a rule on the bare address.
- `RemovalsSettle`: a narrower home net or a posture of OFF never strands a rule
  that is to go, which is why `validate` has a parameter for it.  It excepts
  overlapping writers: an apply and a revoke that keep coinciding can undo each
  other for ever.

**detectors.**  One family at a time; four to eight observations of two or three
destinations, with regular and irregular steps and steps back; caps of one or
two, so that every table overflows; thresholds of two or three.  A stream of
eight lets a beacon fire, be reported again, and fail to be.  Streams end, so
`CHECK_DEADLOCK` is off.  `AlertsAreJustified` recomputes a claim from the
observations with definitions that know nothing of tables; that of a volume or
sync alert is for clocks that do not step back.  A beacon's claim (`Steady`) bounds
each gap from both sides of the median, where the detector (`Periodic`) divides
millionths and compares the quotient: an off-by-one in either shows.

**behavioral_feed.**  Two lines about one value, each an event, a line that raises
before it is folded or one that raises after; a second value, whose indicator is in
the ledger from the start (`Ingested`), while that of the first arrives at any
time; one rotation or truncation; one mishap (a crash, a failed save, an
exception in the sweep); room for one retained detection, and one parked one for
each target, which expires after one unit of time.  Two lines are what it takes for
a line behind a bad one, a second detection in a full cache, and an append
between copy and clear.  Both loops poll for ever and catch what a pass raises:
that is the weak fairness on `TailStep` and on `SweepStep` (`SweepFairness`, which
names the states in which the sweep has nothing to do).  Nothing is asked of
Suricata.  `skipped` excepts what the tail cannot see: an inode that came back, or
a truncated file that has already regrown, also between stat and open.  `feed_loss` is the same instance
without mishaps.

**oracle.**  A batch is a document, a file of indicators, a contact log, the set
of trusted sources and a measurement.  There are sound documents, some of them
with a challenge budget, and for each check of the loaders one that fails it; files
of one to three indicators with reports from curated, reselling, local, annotating
and unregistered sources, fresh and stale, duplicated, and in both orders; and
contact logs that beacon, meet something new, or disagree with themselves.  A
plain later run follows, again and again, after a finished, refused or dead one.  Nothing in it is
temporal, so no fairness is assumed.

- `AgreesWithProduction` compares the loaders on every document and the
  evaluations on every indicator, the evidence folded from contacts included.  It
  excepts what is known to differ: the challenge budget, prefixes, and families an
  operator has not enabled.
- `AnnotationsNeverMove` is stated under one context; what an annotation can do to
  the context is in the next section.
- `BudgetsHold` says that a budget is kept and also that it is used up before
  anything is demoted.
- `OutputsAttested` is about a finished run: zone, rules and receipts match line
  by line, and each receipt has a decision that may act.

## Findings

| run | what the run shows |
|---|---|
| `revoke_of_pending` | `revoke_action` writes `revoked` over a row it had read as pending and the dispatcher has applied since: the rule stays published and no sweep looks at the row again (`controller/service.py:782`) |
| `feed_loss` | the sweep copies the retained detections and clears the list in two statements, while the EVE thread appends to it without a lock: what comes in between is gone, and no counter says so (`telemetry/feed.py:258`) |

`PROJECT.json` quotes the comment each of these contradicts.  More was seen that
has no run of its own.  Where a definition is named, it is in its module and TLC
refutes it.

*Ledger and lifecycle.*

- A batch whose worker died stays `processing` for ever, although comments speak
  of a retry that resumes it (`ledger/repo.py:229`; `BatchesResume`).
- `reject_decision` does not look at what `record_approval` returns, and confirms
  a rejection that lost to an approval (`controller/service.py:720`;
  `RejectionIsDurable`).
- A decision repeated under a new revision of one policy version is deduplicated
  to the row bound to the old text, and what is minted from it is refused later
  (`ledger/repo.py:328`; `ActionsCiteTheirPolicy`); within one randomization epoch,
  which is part of the identity.
- A rule can lose its last owner in a second way, which violates
  `NeverSilentlyGone` too.  Two actions share a rule, one expires, and its
  removal is left to the other, which is only pending (`service.py:1214`); a
  promotion then cancels that one at dispatch, and nobody withdraws the rule.
  In `revoke_of_pending.cfg`, set `Actions = {a1, a2}`, `ApiServers = {}`,
  `Expiring = {a1}` and `MaxRevision = 1`.  It is why `VerifiedIsEnforced` is
  stated, checked and proved for rows that share no rule.
- `unclaim_action` acts on a list of stuck rows that may be stale, and takes a
  row away from the controller that has just claimed it again; two controllers
  then apply it at once (`ledger/repo.py:507`).  The safety properties of
  `ActionLifecycle` hold all the same: apply is idempotent.
- Step 0b may claim a row an operator is removing at that moment, so the adapter
  may be asked twice to revoke one control, which is idempotent too.

*Adapters.*

- `revoke()` of the RPZ adapter edits the artifact of the present `rpz_mode`, not
  of the one the rule was applied under: after a restart under SHADOW a live rule
  is reported removed and stays (`adapters/rpz.py:725`; `GoneIsWithdrawn`).
- A live zone that was lost is created again with serial 1, which a resolver that
  has seen more does not load (`rpz.py:446`); `TimeoutExpired` of the reload
  command is no `AdapterError` (`rpz.py:496`).
- `_next_sid` promises one SID for one decision.  It searches the file and not what
  the process has handed out, so two decisions compiled before either is published
  share one; and after a restart a decision compiled again may get another
  (`adapters/suricata.py:275`; `SidsNameDecisions`).
- Two writers of the ruleset can lose each other's rules, publish a truncated
  file, or keep undoing each other: this is what `overlapped` excepts.
- A rate limit of a client on an address compiles, and `validate` refuses it: such
  an action always fails.

*Telemetry.*

- The fast-flux detector keeps its answers after their epochs have left the
  window, and reports as one window's what several showed (`FluxWithinWindow`).
- A detector that overflows stays degraded until the process ends, where its
  docstring speaks of eviction.  A destination in continuous contact is new again
  after each retention.  The TTL branch of the TLS detector cannot be taken, and a
  tunnel's average of 60 characters is next to the longest a label allows.
- A line whose field is not a number raises out of the pass before the offset
  advances, and every later pass meets it again: the tail makes no progress, and
  what stands before the line is folded again each time.
- `decide_indicator` is called after the evidence row has landed, and only if it
  has landed: when it raises, or the process dies, no later sweep decides that
  indicator again.
- The attachment map is keyed by value (`controller/service.py:1139`): of two
  tenants' indicators of one value, one gets the evidence.  `_max_pending` is never
  compared with anything (`telemetry/feed.py:194`).

*Overlays.*

- An empty global boundary is narrowed as if it were open, while `in_scope` lets
  nothing through it: under a global policy of prefixes only, a tenant's overlay
  authorizes a domain, and the control is enforced (`decision/layer.py:83`;
  `OverlayNeverWidens`).
- Three more ways around the promise of `layer.py`, excluded by `Clampable` or
  by the premises of `OverlayNeverStrengthens`: EMERGENCY ranks above ENFORCE
  (`layer.py:33`) although it only proposes, so an overlay that says ENFORCE
  under a global EMERGENCY acts on its own; of two allowlist entries of one
  value the merge keeps the last (line 167), which may be the expired one; and
  the union of enabled families (line 228) adds evidence the global policy does
  not count.
- The all-default overlay is said to merge to the identity (`layer.py:16-17`),
  and does not under a global policy with `reference_unrestricted`: an overlay
  that omits it is read as "no", and the tenant's boundary is then empty.

*Reference and controller.*

- They differ on prefixes, which the controller only observes, and on families an
  operator has not enabled, which only the controller stops counting.
  `replay.reference_now` is validated by both loaders, and ignored by the
  controller's.
- `_detection_subject` reads the evidence before annotations are stripped: a record
  of an unregistered source can change the client a rule is for.  A file whose
  indicator is full of annotations has no room for a genuine detection
  (`reference/src/apip/cli.py:358`).
- The reference's Suricata compiler does not look at the disposition: under
  EMERGENCY it renders rules for proposals, as its zone compiler does not.
- A challenge reverted by its budget has used up the blast-radius budget before.
  Two indicators of one id, type and value share a decision id, and the challenge
  budget reverts both.
- Every decision is taken twice and compared.  Without a pinned clock the epoch of
  the draws can turn in between, or a record at the edge of the recency window leave
  it, and a sound batch is refused (`Redrawn`).  A run that dies
  between two files leaves old receipts beside new decisions.

## Proofs

TLC checks the instances above; the theorems hold for every value of the
constants that satisfies the module's assumption: any number of controllers,
threads, names, batches, records and lines, any policy text, any evidence.  The
assumptions type the constants and keep the markers (`NoAction`, `NoWorker`,
`Absent`, ...) apart from what they stand beside.  Those that say more:

- `FeedAssumption`: what the ledger starts with (`Ingested`) is any set of
  indicators;
- `GatesAssumption`: `Below` is reflexive and transitive, as suffixes and subnets are;
- `TenantAssumption`: what the loader checks of a global policy;
- `RpzAssumption`: the serial space is even and above 3, where the code has 2^32;
- `ExporterAssumption`: there are finitely many threads, so an inode is free;
- `DetectorAssumption`: `min_events` is at least three, as the beacon detector
  requires, the least median is positive, thresholds are integers, a flow's bytes out
  are not negative (behavioral.py:742), and streams end within what the unbounded twin can hold;
- `RowsAssumption`: the controller's table of weights is the reference's rows, read
  for every class and kind, since both sides are given the same table;
- `BatchAssumption`: every batch is a document and a file of the types the loaders
  let through, so that refusals are the model's to find; and `Unheard`, which
  stands for the families no detector knows, is not one that a detector knows.

| theorem | states |
|---|---|
| `ActionLifecycleProofs!TypeCorrect` | `Spec => []TypeOK` |
| `ActionLifecycleProofs!AbsentIsNeverReapplied` | `Spec => []AbsentNeverReapplied` |
| `ActionLifecycleProofs!RemoversHaveIntent` | `Spec => []RemoverHasIntent` |
| `ActionLifecycleProofs!VerifiedControlsAreEnforced` | `UniqueRules => (Spec => []VerifiedIsEnforced)` |
| `ActionLifecycleProofs!KeepsContract` | `Spec => ImplementsContract` |
| `DecisionLedgerProofs!TypeCorrect` | `Spec => []TypeOK` |
| `DecisionLedgerProofs!ActionsAreAlwaysAuthorized` | `Spec => []ActionsAreAuthorized` |
| `DecisionLedgerProofs!BudgetAlwaysHolds` | `Spec => []BudgetHolds` |
| `DecisionLedgerProofs!CompleteIsAlwaysHandled` | `Spec => []CompleteIsHandled` |
| `DecisionLedgerProofs!ProposalsAreImplemented` | `Spec => ImplementsProposals` |
| `RpzAdapterProofs!TypeCorrect` | `Spec => []TypeOK` |
| `RpzAdapterProofs!ShadowIsNeverServed` | `Spec => []ShadowNeverServed` |
| `RpzAdapterProofs!LiveLeavesByItsRevoke` | `Spec => LiveLeavesByEnforceRevoke` |
| `RpzAdapterProofs!ArtifactsImplementContract` | `Spec => ImplementsArtifacts` |
| `RpzAdapterProofs!ReloadsPropagate` | `MaxCalls < SerialMod \div 2` gives `Spec => []ReloadPropagates` |
| `TenantOverlayProofs!TypeCorrect` | `Spec => []TypeOK` |
| `TenantOverlayProofs!OverlaysStayWithin` | `Spec => []LiveWithinGlobal` |
| `TenantOverlayProofs!OverlaysNeverStrengthen` | `Spec => []OverlayNeverStrengthens` |
| `TenantOverlayProofs!AnnotationsAreInert` | `Spec => []AnnotationsNeverDeny` |
| `TenantOverlayProofs!CancelsHaveCause` | `Spec => CancelledHasCause` |
| `SuricataExporterProofs!TypeCorrect` | `Spec => []TypeOK` |
| `SuricataExporterProofs!FileAlwaysMatchesLedger` | `Spec => []FileMatchesLedger` |
| `SuricataExporterProofs!NeverBroadensHolds` | `Spec => []NeverBroadens` |
| `DetectorsProofs!TypeCorrect` | `Spec => []TypeOK` |
| `DetectorsProofs!DegradationNeverInflates` | `Spec => []NeverInflates` |
| `DetectorsProofs!AlertsAreAlwaysFresh` | `Spec => []AlertsAreFresh` |
| `DetectorsProofs!AlertsAreAlwaysJustified` | `Spec => []AlertsAreJustified` |
| `BehavioralFeedProofs!TypeCorrect` | `Spec => []TypeOK` |
| `BehavioralFeedProofs!CheckpointIsAlwaysFolded` | `Spec => []CheckpointIsFolded` |
| `BehavioralFeedProofs!DetectionsAreConserved` | `Spec => []DetectionsConserved` |
| `ReferenceBatchProofs!BudgetsAlwaysHold` | `Spec => []BudgetsHold` |
| `ReferenceBatchProofs!OutputsAreAttested` | `Spec => []OutputsAttested` |
| `ReferenceBatchProofs!AnnotationsAreInert` | `Spec => []AnnotationsNeverMove` |
| `ReferenceBatchProofs!ReferenceAgrees` | `Spec => []AgreesWithProduction` |

Where a proof needs induction over the naturals (a sum over records, a list built
element by element) it takes a least counterexample: `LeastNumber` and
`NaturalSet` say that a set of naturals with 0 and every successor has them all.
A recursive function is used through its defining equation, which is shown to
have a solution first (`TotalsExists`, `KeepsExists`, `FoldsExists`, ...).

**ActionLifecycle.**  `IInv` is `TypeOK`, `AbsentNeverReapplied`,
`RemoverHasIntent` and `InHand`.  The two safety invariants are not inductive
alone.  A thread that writes an outcome writes it over whatever has happened to
the row meanwhile.  What it can write is typed (`Results` holds neither pending,
dispatching nor removing), and `InHand` adds that a thread past its loop head
has a recorded row in hand and a thread about to record has an outcome; without
it a write could disturb a row that does not exist yet.  That a remover's row is
ABSENT carries over because nothing reverts the intent.
`NextIInv` has one step per action, and under it one per conjunct it can disturb.  The
refinement uses the same invariant: `MapsTo...` lemmas map each action to one
action of the contract or to a stutter; `RevokeOk` maps to `Withdraw` because
of `RemoverHasIntent`, and a claim that is given back maps to a stutter because
the row never left "open".
`VerifiedIsEnforced` needs one more fact,
`ObservedIsEnforced`: when a thread is about to write `verified`, the rule is
still in the artifact, or the row is no longer wanted.  That is where `UniqueRules`
(`RuleOf` is injective) is used: a revoke of another row leaves the rule alone.

**DecisionLedger.**  Three invariants in a row, each on top of the last.  `Sound`
says what a thread's own variables stand for: the policy text it evaluated under,
the row its decision is on record as, and the grounds for the action it is about to
insert.  It is kept because the ledger only grows (`LedgerGrows`): rows are
appended, approvals are never changed, so what a thread read stays true whoever
moves next.  `ActionsAreAuthorized` and the refinement of `ProposalContract` are
read off it.  `Accounted` counts: a batch that is processed is one thread's, and
the number of actions it has minted is what that thread has used of its budget.
That is where `ClaimBatch` being atomic matters; two owners of one batch would each
have a budget.  `Covered` says what a thread has left of its batch is a suffix and
what precedes it is handled, which gives `CompleteIsHandled`.

**RpzAdapter.**  `IInv` is `TypeOK`, `Exclusive` (a worker at the write
holds the mutex, and its copy is the file as it is now), `LiveIsEnforceable`
(names in the live file are of ENFORCE actions, and every call under way on that
file is for one) and `ShadowNeverServed`.  `Exclusive` is what turns read,
modify and replace into one step of `ArtifactContract`: only the `WriteArtifact`
of the mutex's holder changes a file, from a copy equal to it.
`ReloadsPropagate` adds `Counted`: the serial distance from what the resolver
serves to what is published, modulo `SerialMod`, plus the calls that may still
publish, is at most the calls begun.  So a resolver that is behind is behind by
less than half the modulus, RFC 1982 calls the published serial newer, and no
reload is ignored.  The hypothesis says how many publications one resolver may
miss; it is 2^31 of them in the code, and the property is false beyond it.

**TenantOverlay.**  The evaluation lemmas say what its gates guarantee of any
policy: a disposition that acts means a mode other than OFF, a target in scope
and not on the allowlist (`EvaluateGates`).  For presence nothing about sums is
needed.  `MergeClamps` is the merge's promise for presence: what the merged policy
allows, a clampable global policy allows.  Its
core is `NarrowStaysWithin`, from the transitivity of `Below`.  `IInv` is
`TypeOK` and three facts that hold while `current` does: the decision passed the
gates of the present effective policy (`DecisionStands`), a pending action would
pass the recheck (`PendingStands`, which gives `CancelsHaveCause`), and a live
one does (`ActiveStands`, which with `MergeClamps` gives `OverlaysStayWithin`).

`OverlaysNeverStrengthen` is about any two policies of which one is stricter
(`Tightens`, which `MergeTightens` shows of every merge).  Under the stricter one
the same records count (`SameCounted`), the score for malice is no higher and the
one for safety the same, so each rung it can reach the other can reach, and the
mode dispatch turns that into no stronger an outcome.

`AnnotationsAreInert` removes one record without authority and follows the others to
their new places (`Up`).  The record is passed over before deduplication and before
the envelope is cut, so neither an observation's first report nor a record's rank
among the latest changes (`LiftedDecisive`); the scores are then sums over
the same records, which `TotalWithout` shows by induction, and the gates of a denial
read nothing else.

**SuricataExporter.**  `Sound` is about every line anywhere, on the file, in a
temporary inode, in the copy a call holds: it is a recorded row's, and that row is
no pair-scoped address.  A truncated file and a lost update only remove lines, so
`NeverBroadens` needs no absence of races.  `Exclusive` holds while no two writers
have overlapped: whoever writes has the temporary file to itself, and its copy is
the ruleset as it stands, edited.  On that, `FileMatchesLedger` is inductive:
`Replace` publishes the edit of what is there, and no other line has the row's
SID while none is shared.

**Detectors.**  `DegradationNeverInflates` runs a detector beside its twin.
`Sheds` is the lemma for one observation and a family: either it is taken as any
detector with room takes it, or it is shed, nothing is said, and the detector is
degraded.  `Beside` is the invariant: until it is degraded a detector is its twin, but
the beacon detector, which sheds pairs and keeps going, only has fewer windows, each
equal to the twin's.  A degraded detector says nothing in the other families, which
is the point of the early return in each `observe()`.  `AlertsAreAlwaysFresh` compares
two alerts that may be far apart, so the invariant is about the history: a window's
count since it was last reported is a lower bound of the contacts that advanced the
pair's clock since every earlier report (`Paid`), a reported destination has a row
no older than its report (`Remembered`), and a full table forgets nothing
(`Clocked`).

`AlertsAreAlwaysJustified` is about the five families that count or measure; the
others report one observation.  `Grounded` relates each family's table to the stream: which
observations a window's contents stand for, in which order, and what was left out
or forgotten since.  An alert is then justified by the table it was made from, one lemma
a family, and stays justified because a claim reads only the stream up to its own
alert (`UpTo`).  The beacon's claim needs `Clocked` too: that the contacts a window
was given are those that advanced its clock is what makes its gaps the stream's.
`PeriodicIsSteady` turns the detector's division into the two bounds of the claim.
Sums and lists of gaps are defined by recursion on the stream's length (`Total`,
`Listed`), so a table that gained an observation is related to the stream that
gained it by one unfolding.

**BehavioralFeed.**  `Numbered` orders lines and files as they are written.
`Tailed` says, of the checkpoint on disk, the one in memory and the pass, that of
the file they were made in the lines they are past were folded; it is what
`TypeOK` and `CheckpointIsFolded` alone cannot carry through a rotation in the
middle of a pass.  `OpenLogKeeps` is the case where the file opened is another than
stat saw: its mark then speaks of no file.  For conservation, `Founded` says that wherever a detection is
known to be, its line was folded, and each step is shown to put down what it picks
up: `ParkHolds` and `WokenHolds` are about the two queues, whose copies, cuts and
flattened lists are followed as sets of identities.

**ReferenceBatch.**  `JudgedLawfully` is what one evaluation guarantees: the mode
permits the disposition, the rung has a floor, the action is the rung's, and a rate
limit carries a ceiling.  `Budgeting` counts the decisions that act while they are
taken, and says that nothing is demoted before the budget is spent;
`BudgetsAlwaysHold` follows it through the challenge budget, whose demotions
free places in the other one.  `Current` says which of the four files are of this
run, the rest being whatever an earlier run left; at the end they are all of it,
and compiled from decisions that `SoundPairs` describes, which is
`OutputsAreAttested`.

`ReferenceAgrees` has two halves.  For evidence, `Lists(v, e, S, h)` says that the
list `v` holds the records of `e` at the set `S`, in order, `h` being where each
of them stands.  `PickedLists` shows it of a filter, `DedupedLists` of the first
record of each key and `CutLists` of the envelope, whose cut after so many records
is the controller's condition that few others precede; `ViewLists` composes the
three, so that what the reference views is `Decisive`, the set the controller
decides on.  `ListedTotal` then equates a sum over the list with the sum over all
the records in which the others have no points, `PointsAgree` the points of one
record, and `ScoresAgree` all scores.  The reference takes the first open rung of a
descending list and the controller the strongest of a set: `FirstIsStrongest`.
`DispositionsAgree` is the dispatch on the mode.  For documents, each section of
the reference's loader is shown to find a problem when the controller's checks of
the same section do (`LadderFaults` to `EntryFaults`).  The floors need the most:
the reference compares each with the last one present, the controller all pairs
that have none between them (`LadderAgrees`).

## Limits

*Only model-checked.*  All liveness properties, which are out of the prover's
reach under fairness.  The two runs that end in a counterexample.

*Fixed by the models.*  The zone directory is changed only by adapters, and is
not lost.  The resolver's baseline answers are not modelled.  The database
loses no committed statement, and its constraints and unique indexes are guards
of the actions.  Clocks only make things due, in any order.

*Not modelled.*  Parsing, normalization, rendering, metrics, configuration,
interop exports and the controller's attribution are functions whose results the
modules take as parameters or never see.  The source registry is a row per source
that single statements replace.  The reference's live capture and attribution are
shown to analysts and decide nothing; the lab runs a demonstration and an
acceptance test, and is no part of the service.  `DecisionLedger` takes the rung
as a parameter, and `TenantOverlay` the table of weights.  The connection pool,
the audit chain and the staging of policies hold state with hazards of their own,
and are next.

## Plan

The order is by consequence: first what can leave a control in force that
should not be, then what can authorize one that should not be, then what can
lose evidence, then plumbing.

1. Done: `ActionLifecycle` with `ControlContract`; `RpzAdapter` with
   `ArtifactContract`; `DecisionLedger` with `ProposalContract`; `PolicyGates`
   and `TenantOverlay`; `SuricataExporter`, `Detectors`, `BehavioralFeed`;
   `PolicyDocuments`, `ReferenceOracle` and `ReferenceBatch`.
2. Done: proofs of every safety invariant, action property and refinement the runs
   check.
3. `ConnectionPool`: failure, discard and rebuild from several threads.
   Checked: no thread closes a pool another one has rebuilt and uses.
4. `AuditChain` and `PolicyLifecycle`: the hash chain under concurrent inserts;
   staging, revisions and promotion.
5. Compositions: `ActionLifecycle` over `RpzAdapter`, for the removal whose
   file was changed and whose reload failed; `DecisionLedger` feeding
   `ActionLifecycle`.
